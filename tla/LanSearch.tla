----------------------------- MODULE LanSearch -----------------------------
(***************************************************************************)
(* pkg/discover: one search of the LAN at a time, as Search and            *)
(* LookupByUDN run it: an M-SEARCH from a goroutine per interface, whose   *)
(* results a collector takes, a bounded fetch of every description found,  *)
(* and, when that falls short, a bounded TCP probe of the subnet and a     *)
(* fetch from every host that accepted.                                    *)
(*                                                                         *)
(* An address stands for a location, a host and its description; what is   *)
(* in a datagram or a description beyond the UDN is left out.  The wait    *)
(* and the timeouts have no length: a read or a dial ends when it may.     *)
(***************************************************************************)
EXTENDS Naturals, FiniteSets

CONSTANTS
    Ifaces,         \* the local addresses an M-SEARCH leaves from
    Addrs,          \* the addresses of the subnet, in order
    Sibling,        \* the one another Yamaha receiver has
    SearchSends,    \* searchSends
    FetchParallel,  \* fetchParallel
    SweepParallel,  \* sweepParallel
    MaxFaults       \* bound: packets, requests and system calls that fail

ASSUME SearchAssumption ==
    /\ Ifaces # {} /\ IsFiniteSet(Ifaces)
    /\ Addrs \subseteq Nat /\ IsFiniteSet(Addrs)
    /\ Sibling \in Addrs /\ Addrs # {Sibling}
    /\ {SearchSends, FetchParallel, SweepParallel} \subseteq Nat \ {0}
    /\ MaxFaults \in Nat

VARIABLES
    goal,       \* "any" for Search, "udn" for LookupByUDN
    at,         \* where the search is, "idle" when there is none
    ifc,        \* per interface: its goroutine
    chan,       \* the interfaces whose result is in the channel
    got,        \* those whose result the collector has taken
    locs,       \* the locations collected
    fetch,      \* per address: its fetch
    todo,       \* the addresses the probe has still to dial
    dialing,    \* those it is dialling
    open,       \* those that accepted
    taken,      \* slots of the semaphore in use
    devs,       \* the addresses of the devices found
    outcome,    \* how the last search ended
    ssdpErr,    \* defaultSearchLocations ended in an error
    addr,       \* where the receiver looked for is
    subnet,     \* the probe has a subnet to look in
    moved,      \* the receiver moved, or a packet was lost, in the last search
    cancelled,  \* the context is done
    faults      \* faults so far

search == <<goal, at, ifc, chan, got, locs, fetch, todo, dialing, open, taken, devs,
            outcome, ssdpErr>>
network == <<addr, subnet, moved, cancelled, faults>>

Alive(h) == h \in {addr, Sibling}
Udn(h)   == IF h = Sibling THEN "sibling" ELSE "target"

Idle  == [at |-> "none", sent |-> 0, deadline |-> "ahead", woken |-> FALSE, locs |-> {},
          failed |-> FALSE]
Fault == faults < MaxFaults /\ faults' = faults + 1 /\ moved' = (moved \/ at # "idle")

SearchInit ==
    /\ goal = "any" /\ at = "idle"
    /\ ifc = [i \in Ifaces |-> Idle]
    /\ chan = {} /\ got = {} /\ locs = {}
    /\ fetch = [h \in Addrs |-> "none"]
    /\ todo = {} /\ dialing = {} /\ open = {} /\ taken = 0
    /\ devs = {} /\ outcome = "none" /\ ssdpErr = FALSE

-----------------------------------------------------------------------------
(* The beginning, the collector and the end.                               *)

\* What a search that is over held is let go.
Return(result) ==
    /\ at' = "idle"
    /\ outcome' = result
    /\ got' = {} /\ locs' = {} /\ open' = {} /\ todo' = {}
    /\ fetch' = [h \in Addrs |-> "none"]
    /\ taken' = 0

\* search: one goroutine per address to search from, none if the context is
\* done already.  A cancellation between two of them leaves the rest unborn,
\* which is a goroutine that ends at once; an error of searchAddrs is every
\* socket failing.
StartSearch(g) ==
    /\ at = "idle"
    /\ goal' = g
    /\ chan' = {} /\ devs' = {} /\ ssdpErr' = FALSE /\ moved' = FALSE
    /\ IF cancelled
       THEN Return("cancelled") /\ UNCHANGED ifc
       ELSE /\ at' = "collect"
            /\ ifc' = [i \in Ifaces |-> [Idle EXCEPT !.at = "listen"]]
            /\ UNCHANGED <<got, locs, open, todo, fetch, taken, outcome>>
    /\ UNCHANGED <<dialing, addr, subnet, cancelled, faults>>

\* One result taken from the channel: an error counts, with the locations it
\* came with.
Collect ==
    /\ at = "collect"
    /\ \E i \in chan :
          /\ chan' = chan \ {i}
          /\ got' = got \cup {i}
          /\ locs' = locs \cup ifc[i].locs
          /\ ssdpErr' = (ssdpErr \/ ifc[i].failed)
          /\ ifc' = [ifc EXCEPT ![i] = Idle]
    /\ UNCHANGED <<goal, at, fetch, todo, dialing, open, taken, devs, outcome, network>>

\* fetchAndFilter: a goroutine for each location.
FetchAll(from, stage) ==
    /\ at' = stage
    /\ fetch' = [h \in Addrs |-> IF h \in from THEN "queued" ELSE "none"]
    /\ taken' = 0   \* a semaphore of its own

Collected ==
    /\ at = "collect" /\ got = Ifaces
    /\ FetchAll(locs, "fetch")
    /\ ssdpErr' = (ssdpErr /\ locs = {})
    /\ got' = {} /\ locs' = {}
    /\ UNCHANGED <<goal, ifc, chan, todo, dialing, open, devs, outcome, network>>

\* The select of the collector, and the test of the context after it.
Leave ==
    /\ at = "collect" /\ cancelled
    /\ Return("cancelled")
    /\ ifc' = [i \in Ifaces |-> IF i \in chan THEN Idle ELSE ifc[i]]
    /\ UNCHANGED <<goal, chan, dialing, devs, ssdpErr, network>>

-----------------------------------------------------------------------------
(* mSearchExchange, in the goroutine of an interface.                      *)

Rest == <<goal, at, chan, got, locs, fetch, todo, dialing, open, taken, devs, outcome, ssdpErr>>

Goes(i, stage) == ifc' = [ifc EXCEPT ![i].at = stage]
Reports(i, failed) ==
    ifc' = [ifc EXCEPT ![i] = [Idle EXCEPT !.at = "report", !.locs = ifc[i].locs,
                                           !.failed = failed]]

\* The socket, and the interface multicast leaves from.
Listen(i) ==
    /\ ifc[i].at = "listen"
    /\ \/ ~cancelled /\ Goes(i, "due") /\ UNCHANGED <<faults, moved>>
       \/ Fault /\ Reports(i, TRUE)
       \/ cancelled /\ Reports(i, TRUE) /\ UNCHANGED <<faults, moved>>
    /\ UNCHANGED <<Rest, addr, subnet, cancelled>>

Arms(i, n) == ifc' = [ifc EXCEPT ![i].at = "armed", ![i].deadline = "ahead", ![i].sent = n]
Checks(i)  == IF cancelled THEN Reports(i, TRUE) ELSE Goes(i, "reading")

\* An M-SEARCH when one is due, as it may be after a reply and is after a read
\* that ended, and the next read deadline.  Only the first must go out.
Send(i) ==
    /\ ifc[i].at \in {"due", "loop"}
    /\ \/ /\ ifc[i].at = "loop" /\ Arms(i, ifc[i].sent)
          /\ UNCHANGED <<faults, moved>>
       \/ /\ ifc[i].sent < SearchSends /\ Arms(i, ifc[i].sent + 1)
          /\ UNCHANGED <<faults, moved>>
       \/ /\ ifc[i].sent < SearchSends /\ Fault
          /\ IF ifc[i].sent = 0 THEN Reports(i, TRUE) ELSE Arms(i, ifc[i].sent + 1)
    /\ UNCHANGED <<Rest, addr, subnet, cancelled>>

\* Mutant: the context was tested before the deadline was set, not after.
ArmBlind(i) == ifc[i].at = "armed" /\ Goes(i, "reading")

\* The context is tested after the deadline was set.
Arm(i) == ifc[i].at = "armed" /\ Checks(i)

Prepare(i) ==
    /\ Arm(i)
    /\ UNCHANGED <<Rest, network>>

\* context.AfterFunc: in a goroutine of its own, at any time once the context
\* is done.
Wake(i) ==
    /\ cancelled /\ ~ifc[i].woken
    /\ ifc[i].at \in {"due", "loop", "armed", "reading"}
    /\ ifc' = [ifc EXCEPT ![i].woken = TRUE, ![i].deadline = "past"]
    /\ UNCHANGED <<Rest, network>>

\* A search response: one already known, or one that is none, changes nothing.
Reply(i) ==
    /\ ifc[i].at = "reading" /\ ifc[i].deadline = "ahead"
    /\ \E h \in Addrs \ ifc[i].locs :
          /\ Alive(h)
          /\ ifc' = [ifc EXCEPT ![i].at = "loop", ![i].locs = @ \cup {h}]
    /\ UNCHANGED <<Rest, network>>

\* The read ends without a datagram: cancelled, time for the next send, the
\* wait is over, or the socket failed.
ReadEnds(i) ==
    /\ ifc[i].at = "reading"
    /\ \/ /\ IF cancelled THEN Reports(i, TRUE)
             ELSE IF ifc[i].sent < SearchSends THEN Goes(i, "due")
             ELSE Reports(i, FALSE)
          /\ UNCHANGED <<faults, moved>>
       \/ Fault /\ Reports(i, TRUE)
    /\ UNCHANGED <<Rest, addr, subnet, cancelled>>

\* Mutant: without a buffer a result is handed over or not sent.
HasRoomUnbuffered == at = "collect"

\* The channel of results has room for every goroutine.
HasRoom == Cardinality(chan) < Cardinality(Ifaces)

\* What the collector has left to nobody is let go.
Report(i) ==
    /\ ifc[i].at = "report"
    /\ HasRoom
    /\ ifc' = [ifc EXCEPT ![i] = IF at = "collect" THEN [@ EXCEPT !.at = "none"] ELSE Idle]
    /\ chan' = chan \cup {i}
    /\ UNCHANGED <<goal, at, got, locs, fetch, todo, dialing, open, taken, devs, outcome,
                   ssdpErr, network>>

Iface(i) == Listen(i) \/ Send(i) \/ Prepare(i) \/ ReadEnds(i) \/ Report(i)

-----------------------------------------------------------------------------
(* fetchAndFilter, in the goroutine of a location.                         *)

Fetching == at \in {"fetch", "sweepfetch"}
Fetches(h, stage) == fetch' = [fetch EXCEPT ![h] = stage]
Keep == <<goal, at, ifc, chan, got, locs, todo, dialing, open, devs, outcome, ssdpErr>>

\* A slot of the semaphore, or the end of the context.
Begin(h) ==
    /\ Fetching /\ fetch[h] = "queued"
    /\ \/ taken < FetchParallel /\ taken' = taken + 1 /\ Fetches(h, "first")
       \/ cancelled /\ Fetches(h, "failed") /\ UNCHANGED taken
    /\ UNCHANGED <<Keep, network>>

\* fetchWithRetry: a fetch that stalled after connecting is made once more.
Fetch(h) ==
    /\ Fetching /\ fetch[h] \in {"first", "second"}
    /\ \/ Alive(h) /\ Fetches(h, "found") /\ taken' = taken - 1 /\ UNCHANGED <<faults, moved>>
       \/ ~Alive(h) /\ Fetches(h, "failed") /\ taken' = taken - 1 /\ UNCHANGED <<faults, moved>>
       \/ cancelled /\ Fetches(h, "failed") /\ taken' = taken - 1 /\ UNCHANGED <<faults, moved>>
       \/ /\ Fault
          /\ \/ fetch[h] = "first" /\ ~cancelled /\ Fetches(h, "second") /\ UNCHANGED taken
             \/ Fetches(h, "failed") /\ taken' = taken - 1
    /\ UNCHANGED <<Keep, addr, subnet, cancelled>>

Fetched == {h \in Addrs : fetch[h] = "found"}

\* Of two locations with one UDN the first counts, and one the SSDP search
\* found counts before one of the probe.
Distinct(found) == {h \in found : \A g \in found : Udn(g) = Udn(h) => h <= g}
Merged(found)   == devs \cup {h \in Distinct(found) : \A g \in devs : Udn(g) # Udn(h)}

FindUdn(found) == \E h \in found : Udn(h) = "target"

\* Mutant: a lookup is content with any receiver, as Search is.
NeedProbeAny(found) == found = {}
NeedProbe(found) == IF goal = "any" THEN found = {} ELSE ~FindUdn(found)

Outcome(found) ==
    IF found = {} /\ ssdpErr THEN "error"
    ELSE IF goal = "any" \/ FindUdn(found) THEN "found" ELSE "notfound"

\* wg.Wait, the test of the context, and the probe unless it is not needed,
\* was made, or has no subnet to look in.
FetchedAll ==
    /\ Fetching /\ \A h \in Addrs : fetch[h] \in {"none", "found", "failed"}
    /\ IF cancelled THEN Return("cancelled") /\ UNCHANGED devs
       ELSE /\ devs' = Merged(Fetched)
            /\ IF at = "fetch" /\ NeedProbe(devs') /\ subnet
               THEN /\ at' = "sweep" /\ todo' = Addrs
                    /\ UNCHANGED <<got, locs, open, fetch, taken, outcome>>
               ELSE Return(Outcome(devs'))
    /\ UNCHANGED <<goal, ifc, chan, dialing, ssdpErr, network>>

-----------------------------------------------------------------------------
(* sweep: the dial loop and its dials.                                     *)

Still == <<goal, ifc, chan, got, locs, fetch, devs, outcome, ssdpErr>>

\* Mutant: the loop does not wait for a slot.
SlotFreeAlways == TRUE
SlotFree == taken < SweepParallel

Dial ==
    /\ at = "sweep" /\ todo # {}
    /\ \/ /\ SlotFree
          /\ taken' = taken + 1
          /\ LET h == CHOOSE x \in todo : \A y \in todo : x <= y
             IN  todo' = todo \ {h} /\ dialing' = dialing \cup {h}
       \/ cancelled /\ todo' = {} /\ UNCHANGED <<taken, dialing>>
    /\ UNCHANGED <<Still, at, open, network>>

\* Accepted, or refused, out of time, lost or cancelled: the slot is given
\* back.
Dialled(h) ==
    /\ at = "sweep" /\ h \in dialing
    /\ dialing' = dialing \ {h}
    /\ taken' = taken - 1
    /\ \/ Alive(h) /\ open' = open \cup {h} /\ UNCHANGED <<faults, moved>>
       \/ (~Alive(h) \/ cancelled) /\ UNCHANGED <<open, faults, moved>>
       \/ Alive(h) /\ Fault /\ UNCHANGED open
    /\ UNCHANGED <<Still, at, todo, addr, subnet, cancelled>>

Swept ==
    /\ at = "sweep" /\ todo = {} /\ dialing = {}
    /\ IF cancelled THEN Return("cancelled")
       ELSE /\ FetchAll(open, "sweepfetch")
            /\ open' = {}
            /\ UNCHANGED <<got, locs, todo, outcome>>
    /\ UNCHANGED <<goal, ifc, chan, dialing, devs, ssdpErr, network>>

-----------------------------------------------------------------------------
Worker(h)   == Begin(h) \/ Fetch(h) \/ Dialled(h)
Coordinator == Collect \/ Collected \/ Leave \/ FetchedAll \/ Dial \/ Swept

SearchWork ==
    \/ Coordinator
    \/ \E i \in Ifaces : Iface(i)
    \/ \E h \in Addrs : Worker(h)

SearchStep == SearchWork \/ \E i \in Ifaces : Wake(i) \/ Reply(i)

\* The device LookupByUDN returns.
Target == CHOOSE h \in devs : Udn(h) = "target"

-----------------------------------------------------------------------------
(* What a search promises.                                                 *)

Exchange == [at : {"none", "listen", "due", "loop", "armed", "reading", "report"},
             sent : 0..SearchSends, deadline : {"ahead", "past"}, woken : BOOLEAN,
             locs : SUBSET Addrs, failed : BOOLEAN]

SearchTypeOK ==
    /\ goal \in {"any", "udn"}
    /\ at \in {"idle", "collect", "fetch", "sweep", "sweepfetch"}
    /\ ifc \in [Ifaces -> Exchange]
    /\ chan \subseteq Ifaces /\ got \subseteq Ifaces /\ locs \subseteq Addrs
    /\ fetch \in [Addrs -> {"none", "queued", "first", "second", "found", "failed"}]
    /\ todo \subseteq Addrs /\ dialing \subseteq Addrs /\ open \subseteq Addrs
    /\ taken \in 0..(IF at = "sweep" THEN SweepParallel ELSE FetchParallel)
    /\ devs \subseteq Addrs
    /\ outcome \in {"none", "found", "notfound", "error", "cancelled"}
    /\ ssdpErr \in BOOLEAN /\ subnet \in BOOLEAN /\ moved \in BOOLEAN /\ cancelled \in BOOLEAN
    /\ addr \in Addrs \ {Sibling} /\ faults \in 0..MaxFaults

\* A cancellation is never undone by the loop it interrupts: once the context
\* has moved the read deadline of an exchange, the exchange is not left
\* waiting for a reply under a later one (search.go: "a cancellation is never
\* overwritten").
CancelWakes ==
    \A i \in Ifaces :
        ifc[i].at = "reading" /\ ifc[i].woken => ifc[i].deadline = "past"

\* LookupByUDN does not miss a receiver that stayed where it is on a subnet
\* this computer is on, although no reply may reach it and another receiver
\* may have answered: whatever SSDP found, the probe finds the rest.
FindsReceiver ==
    at = "idle" /\ outcome \in {"notfound", "error"} /\ goal = "udn" /\ subnet => moved

=============================================================================
