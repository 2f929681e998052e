-------------------------- MODULE ConfigRegister --------------------------
(***************************************************************************)
(* What the configuration promises its users: a register that always holds *)
(* a whole configuration.  `config add` is an atomic read-modify-write of  *)
(* it.  Everything else writes back a copy read earlier, changed in one    *)
(* entry.  An invocation is told it saved exactly when the register        *)
(* changed hands, and that it failed exactly when it did not.              *)
(***************************************************************************)
EXTENDS ConfigData

CONSTANTS
    Adders,          \* `config add` without --force
    ForcedAdders,    \* `config add --force`
    Others,          \* the wizard, `discover --add`, and device commands
    InitialConfigs   \* what the register can hold at first

VARIABLES
    stored,   \* the configuration the register holds
    past,     \* every configuration it has held
    told      \* per invocation: how its latest save ended

registerVars == <<stored, past, told>>

Invocations == Adders \cup ForcedAdders \cup Others

Init ==
    /\ stored \in InitialConfigs
    /\ past = {stored}
    /\ told = [p \in Invocations |-> "none"]

Saved(p) ==
    /\ past' = past \cup {stored'}
    /\ told' = [told EXCEPT ![p] = "saved"]

\* The entry is added to what the register holds now.
Merge(p) ==
    \E a \in Aliases, h \in Hosts, setDefault \in BOOLEAN :
        /\ p \in Adders => ~Has(stored, a)
        /\ stored' = AddEntry(stored, a, h, setDefault)
        /\ Saved(p)

\* An earlier configuration comes back, with one entry changed.
WriteBack(p) ==
    /\ stored' \in Configs
    /\ \E old \in past, a \in Aliases : ChangesOnly(old, stored', a)
    /\ Saved(p)

Fail(p) ==
    /\ told' = [told EXCEPT ![p] = "failed"]
    /\ UNCHANGED <<stored, past>>

Next ==
    \/ \E p \in Adders \cup ForcedAdders : Merge(p)
    \/ \E p \in Others : WriteBack(p)
    \/ \E p \in Invocations : Fail(p)

Spec == Init /\ [][Next]_registerVars

=============================================================================
