---------------------------- MODULE ConfigData ----------------------------
(***************************************************************************)
(* The configuration (internal/config Config and Device) and the ways an   *)
(* invocation of the program changes it in memory before it is saved.      *)
(* An entry keeps what the invocations disagree about: the host, and       *)
(* whether the device_id is known.  The UDN and the default zone never     *)
(* change after an entry is made, so they are part of its identity.        *)
(***************************************************************************)

CONSTANTS
    Aliases,    \* the names a device can be saved under
    NoAlias,    \* no default_device
    Hosts,      \* the addresses a device can have
    NoEntry     \* an alias with no entry

ASSUME ConfigAssumption ==
    /\ NoAlias \notin Aliases
    /\ NoEntry \notin [host : Hosts, id : BOOLEAN]

Entries == [host : Hosts, id : BOOLEAN]

Configs == [devices : [Aliases -> Entries \cup {NoEntry}],
            default : Aliases \cup {NoAlias}]

EmptyConfig == [devices |-> [a \in Aliases |-> NoEntry], default |-> NoAlias]

Has(c, a) == c.devices[a] # NoEntry

\* A new entry replaces the old one whole, its device_id included.
AddEntry(c, a, h, setDefault) ==
    [devices |-> [c.devices EXCEPT ![a] = [host |-> h, id |-> FALSE]],
     default |-> IF setDefault \/ c.default = NoAlias THEN a ELSE c.default]

\* persistRediscoveredHost
SetHost(c, a, h) ==
    [devices |-> [c.devices EXCEPT ![a] = [host |-> h, id |-> c.devices[a].id]],
     default |-> c.default]

\* persistDeviceID
SetId(c, a) ==
    [devices |-> [c.devices EXCEPT ![a] = [host |-> c.devices[a].host, id |-> TRUE]],
     default |-> c.default]

\* The part of c a YAML text cut short can still show.
Truncations(c) ==
    {[devices |-> [a \in Aliases |-> IF a \in kept THEN c.devices[a] ELSE NoEntry],
      default |-> c.default] : kept \in SUBSET Aliases}

\* new differs from old only in the entry of a, and perhaps in naming a as
\* the default.
ChangesOnly(old, new, a) ==
    /\ \A b \in Aliases \ {a} : new.devices[b] = old.devices[b]
    /\ new.default \in {old.default, a}

=============================================================================
