-------------------------- MODULE YncaWatch_proofs --------------------------
(***************************************************************************)
(* Proofs about YncaWatch and the searches of LanSearch under it, for any  *)
(* interfaces, subnet, receivers and limits.                               *)
(***************************************************************************)
EXTENDS YncaWatch, FiniteSetTheorems, WellFoundedInduction, TLAPS

-----------------------------------------------------------------------------
(* The invariants.                                                         *)

\* The goroutines that hold a slot: of a dial, or of a fetch.
Holders == IF at = "sweep" THEN dialing
           ELSE {h \in Addrs : fetch[h] \in {"first", "second"}}

\* Each holder has a slot of its own, and what is not of the stage a search is in
\* is empty.
SlotInv ==
    /\ taken = Cardinality(Holders)
    /\ todo \cap dialing = {}
    /\ at # "sweep" => dialing = {}
    /\ at \notin {"fetch", "sweepfetch"} => \A h \in Addrs : fetch[h] \notin {"queued", "first", "second"}

\* A search that runs has no outcome yet; one that found the receiver has it.
FoundInv ==
    /\ at # "idle" => outcome = "none"
    /\ outcome = "found" /\ goal = "udn" => FindUdn(devs)

\* A search was called by the stage the supervisor is in, which alone takes its
\* outcome.
CallInv ==
    at # "idle" \/ outcome # "none" =>
        /\ stage \in {"lookup", "search"}
        /\ goal = (IF stage = "search" THEN "any" ELSE "udn")

\* Only a context that is done wakes an exchange.
WakeInv == CancelWakes /\ \A i \in Ifaces : ifc[i].woken => cancelled

\* In a probe that nothing disturbed, the receiver is still to dial, being
\* dialled, or accepted, and then fetched from.
ProbeInv ==
    ~moved /\ ~cancelled =>
        /\ at = "sweep" => addr \in todo \cup dialing \cup open
        /\ at = "sweepfetch" => fetch[addr] \in {"queued", "first", "second", "found"}

SearchInv == SearchTypeOK /\ SlotInv /\ FoundInv /\ WakeInv /\ ProbeInv /\ FindsReceiver

-----------------------------------------------------------------------------
(* The exchange of an interface.                                           *)

\* An exchange in its domain that a cancellation has not left waiting.
Sound(e) ==
    /\ e \in Exchange
    /\ e.woken => cancelled
    /\ e.at = "reading" /\ e.woken => e.deadline = "past"

\* What every step of the goroutine of an interface, and what happens to it, makes
\* of its exchange.
LEMMA IfaceStep ==
    ASSUME SearchTypeOK, WakeInv, NEW i \in Ifaces, Iface(i) \/ Wake(i) \/ Reply(i)
    PROVE  \E e : Sound(e) /\ ifc' = [ifc EXCEPT ![i] = e]
<1> DEFINE e == ifc[i]
<1>1. /\ e \in Exchange /\ ifc \in [Ifaces -> Exchange]
      /\ e.woken => cancelled
      /\ e.at = "reading" /\ e.woken => e.deadline = "past"
  BY DEF SearchTypeOK, WakeInv, CancelWakes
<1>2. SearchSends \in Nat \ {0}
  BY SearchAssumption
<1>3. ASSUME NEW w \in {"due", "loop"}, Goes(i, w)
      PROVE  \E x : Sound(x) /\ ifc' = [ifc EXCEPT ![i] = x]
  <2>1. ifc' = [ifc EXCEPT ![i] = [e EXCEPT !.at = w]]
    BY <1>1, <1>3 DEF Goes
  <2>2. Sound([e EXCEPT !.at = w])
    BY <1>1 DEF Sound, Exchange
  <2> QED
    BY <2>1, <2>2
<1>4. ASSUME NEW failed \in BOOLEAN, Reports(i, failed)
      PROVE  \E x : Sound(x) /\ ifc' = [ifc EXCEPT ![i] = x]
  <2> DEFINE x == [Idle EXCEPT !.at = "report", !.locs = e.locs, !.failed = failed]
  <2>1. ifc' = [ifc EXCEPT ![i] = x]
    BY <1>4 DEF Reports
  <2>2. Idle \in Exchange /\ ~Idle.woken
    BY <1>2 DEF Exchange, Idle
  <2>3. e.locs \in SUBSET Addrs
    BY <1>1 DEF Exchange
  <2>4. x \in Exchange /\ ~x.woken
    BY <1>4, <2>2, <2>3 DEF Exchange
  <2>5. Sound(x)
    BY <2>4 DEF Sound
  <2> QED
    BY <2>1, <2>5
<1>5. ASSUME NEW n \in 0..SearchSends, Arms(i, n)
      PROVE  \E x : Sound(x) /\ ifc' = [ifc EXCEPT ![i] = x]
  <2> DEFINE x == [e EXCEPT !.at = "armed", !.deadline = "ahead", !.sent = n]
  <2>1. ifc' = [ifc EXCEPT ![i] = x]
    BY <1>1, <1>5 DEF Arms
  <2>2. Sound(x)
    BY <1>1 DEF Sound, Exchange
  <2> QED
    BY <2>1, <2>2
<1>6. CASE Listen(i)
  BY <1>3, <1>4, <1>6 DEF Listen
<1>7. CASE Send(i)
  <2>1. e.sent \in 0..SearchSends /\ (e.sent < SearchSends => e.sent + 1 \in 0..SearchSends)
    BY <1>1, <1>2 DEF Exchange
  <2> QED
    BY <1>4, <1>5, <1>7, <2>1 DEF Send
<1>8. CASE Prepare(i)
  <2>1. CASE cancelled
    BY <1>4, <1>8, <2>1 DEF Prepare, Arm, Checks
  <2>2. CASE ~cancelled
    <3>1. ifc' = [ifc EXCEPT ![i] = [e EXCEPT !.at = "reading"]]
      BY <1>1, <1>8, <2>2 DEF Prepare, Arm, Checks, Goes
    <3>2. Sound([e EXCEPT !.at = "reading"])
      BY <1>1, <2>2 DEF Sound, Exchange
    <3> QED
      BY <3>1, <3>2
  <2> QED
    BY <2>1, <2>2
<1>9. CASE ReadEnds(i)
  BY <1>3, <1>4, <1>9 DEF ReadEnds
<1>10. CASE Report(i)
  <2>1. \E x \in {Idle, [e EXCEPT !.at = "none"]} : ifc' = [ifc EXCEPT ![i] = x]
    BY <1>1, <1>10 DEF Report
  <2>2. Sound(Idle) /\ Sound([e EXCEPT !.at = "none"])
    BY <1>1, <1>2 DEF Sound, Exchange, Idle
  <2> QED
    BY <2>1, <2>2
<1>11. CASE Wake(i)
  <2> DEFINE x == [e EXCEPT !.woken = TRUE, !.deadline = "past"]
  <2>1. ifc' = [ifc EXCEPT ![i] = x] /\ cancelled
    BY <1>1, <1>11 DEF Wake
  <2>2. Sound(x)
    BY <1>1, <2>1 DEF Sound, Exchange
  <2> QED
    BY <2>1, <2>2
<1>12. CASE Reply(i)
  <2>1. PICK h \in Addrs : ifc' = [ifc EXCEPT ![i].at = "loop", ![i].locs = @ \cup {h}]
    BY <1>12 DEF Reply
  <2> DEFINE x == [e EXCEPT !.at = "loop", !.locs = e.locs \cup {h}]
  <2>2. ifc' = [ifc EXCEPT ![i] = x]
    BY <1>1, <2>1
  <2>3. Sound(x)
    BY <1>1 DEF Sound, Exchange
  <2> QED
    BY <2>2, <2>3
<1> QED
  BY <1>6, <1>7, <1>8, <1>9, <1>10, <1>11, <1>12 DEF Iface

-----------------------------------------------------------------------------
(* The network.                                                            *)

\* What every step but the beginning and the end of a search does to the network:
\* a cancellation and a disturbance stay, and a receiver that moves in a search
\* disturbs it.
NetMoves ==
    /\ subnet' = subnet
    /\ cancelled' \in BOOLEAN /\ (cancelled => cancelled')
    /\ faults' \in 0..MaxFaults
    /\ moved' \in BOOLEAN /\ (moved => moved')
    /\ addr' \in Addrs \ {Sibling}
    /\ addr' # addr /\ at # "idle" => moved'

\* A step that leaves the network alone is one, and a step that fails.
LEMMA NetStays ==
    ASSUME SearchTypeOK, UNCHANGED <<addr, subnet, cancelled>>,
           UNCHANGED <<faults, moved>> \/ Fault
    PROVE  NetMoves
<1>1. CASE UNCHANGED <<faults, moved>>
  BY <1>1 DEF SearchTypeOK, NetMoves
<1>2. CASE Fault
  <2>1. faults' = faults + 1 /\ faults < MaxFaults /\ moved' = (moved \/ at # "idle")
    BY <1>2 DEF Fault
  <2>2. faults' \in 0..MaxFaults
    BY <2>1, SearchAssumption DEF SearchTypeOK
  <2>3. moved' \in BOOLEAN /\ (moved => moved')
    BY <2>1
  <2> QED
    BY <2>2, <2>3 DEF SearchTypeOK, NetMoves
<1> QED
  BY <1>1, <1>2

-----------------------------------------------------------------------------
(* The slots.                                                              *)

\* A least address.
LEMMA Least ==
    ASSUME NEW T, T \subseteq Nat, T # {}
    PROVE  \E x \in T : \A y \in T : x <= y
<1> DEFINE R == OpToRel(<, Nat)
<1>1. IsWellFoundedOn(R, Nat)
  BY NatLessThanWellFounded, Zenon
<1>2. \A x, y \in Nat : <<y, x>> \in R <=> y < x
  BY Zenon DEF OpToRel
<1> HIDE DEF R
<1>3. PICK x \in T : \A y \in T : ~(<<y, x>> \in R)
  BY <1>1, WFMin
<1>4. \A y \in T : ~(y < x)
  BY <1>2, <1>3, Zenon
<1> QED
  BY <1>4

\* There are finitely many holders, so that their number is one.
LEMMA HoldersFinite ==
    ASSUME SearchTypeOK
    PROVE  /\ Holders \subseteq Addrs /\ IsFiniteSet(Holders)
           /\ Cardinality(Holders) \in Nat
<1>1. Holders \subseteq Addrs
  BY DEF SearchTypeOK, Holders
<1> QED
  BY <1>1, SearchAssumption, FS_Subset, FS_CardinalityType

\* A goroutine that comes to hold a slot, and one that gives it back.
LEMMA SlotTaken ==
    ASSUME SearchTypeOK, taken = Cardinality(Holders),
           NEW h, h \notin Holders, Holders' = Holders \cup {h}, taken' = taken + 1
    PROVE  taken' = Cardinality(Holders')
BY HoldersFinite, FS_AddElement

\* The same of a slot given back, which cannot leave less than none.
LEMMA SlotGiven ==
    ASSUME SearchTypeOK, taken = Cardinality(Holders),
           NEW h, h \in Holders, Holders' = Holders \ {h}, taken' = taken - 1
    PROVE  taken' = Cardinality(Holders') /\ taken' \in 0..taken
<1>1. Cardinality(Holders') = Cardinality(Holders) - 1
  BY HoldersFinite, FS_RemoveElement
<1>2. IsFiniteSet(Holders')
  BY HoldersFinite, FS_RemoveElement
<1>3. Cardinality(Holders') \in Nat
  BY <1>2, FS_CardinalityType
<1> QED
  BY <1>1, <1>3, HoldersFinite

\* Where nobody holds a slot none is taken.
LEMMA NoneHeld ==
    ASSUME Holders' = {}
    PROVE  Cardinality(Holders') = 0
BY FS_EmptySet

-----------------------------------------------------------------------------
(* What a search found.                                                    *)

\* Merging keeps the receiver looked for, whichever locations it was found at.
LEMMA MergeFinds ==
    ASSUME SearchTypeOK, NEW found, found \subseteq Addrs
    PROVE  /\ Merged(found) \subseteq Addrs
           /\ (\E h \in found : h # Sibling) => FindUdn(Merged(found))
<1>1. Merged(found) \subseteq Addrs
  BY DEF Merged, Distinct, SearchTypeOK
<1>2. ASSUME NEW h \in found, h # Sibling PROVE FindUdn(Merged(found))
  <2> DEFINE T == {x \in found : x # Sibling}
  <2>1. T \subseteq Nat /\ T # {}
    BY <1>2, SearchAssumption
  <2>2. PICK x \in T : \A y \in T : x <= y
    BY <2>1, Least
  <2>3. x \in Distinct(found) /\ Udn(x) = "target"
    BY <2>2 DEF Distinct, Udn
  <2>4. CASE \A g \in devs : Udn(g) # Udn(x)
    <3>1. x \in Merged(found)
      BY <2>3, <2>4 DEF Merged
    <3> QED
      BY <2>3, <3>1 DEF FindUdn
  <2>5. CASE \E g \in devs : Udn(g) = Udn(x)
    BY <2>3, <2>5 DEF Merged, FindUdn
  <2> QED
    BY <2>4, <2>5
<1> QED
  BY <1>1, <1>2

\* The device LookupByUDN returns is one of those found.
LEMMA TargetFound ==
    ASSUME FindUdn(devs)
    PROVE  Target \in devs
BY DEF FindUdn, Target

-----------------------------------------------------------------------------
(* The steps of a search.                                                  *)

\* What a step that is none of a search, or of one of its exchanges, leaves.
LEMMA SearchKept ==
    ASSUME SearchInv, NetMoves,
           UNCHANGED <<goal, at, got, locs, fetch, todo, dialing, open, taken, devs, outcome,
                       ssdpErr>>,
           ifc' \in [Ifaces -> Exchange], chan' \subseteq Ifaces, WakeInv'
    PROVE  SearchInv'
<1> USE DEF SearchInv
<1>1. SearchTypeOK'
  BY DEF SearchTypeOK, NetMoves
<1>2. SlotInv'
  <2>1. Holders' = Holders
    BY DEF Holders
  <2> QED
    BY <2>1 DEF SlotInv
<1>3. FoundInv'
  BY DEF FoundInv, FindUdn
<1>4. ProbeInv'
  BY DEF ProbeInv, NetMoves
<1>5. FindsReceiver'
  BY DEF FindsReceiver, NetMoves
<1> QED
  BY <1>1, <1>2, <1>3, <1>4, <1>5

\* An exchange that is replaced by a sound one leaves all of them sound.
LEMMA WakeKept ==
    ASSUME SearchTypeOK, WakeInv, cancelled => cancelled', NEW i \in Ifaces,
           NEW e, Sound(e), ifc' = [ifc EXCEPT ![i] = e]
    PROVE  ifc' \in [Ifaces -> Exchange] /\ WakeInv'
<1>1. ifc' \in [Ifaces -> Exchange]
  BY DEF SearchTypeOK, Sound
<1>2. \A j \in Ifaces : ifc'[j] = IF j = i THEN e ELSE ifc[j]
  BY DEF SearchTypeOK
<1>3. /\ \A j \in Ifaces : ifc'[j].woken => cancelled'
      /\ \A j \in Ifaces : ifc'[j].at = "reading" /\ ifc'[j].woken => ifc'[j].deadline = "past"
  BY <1>2 DEF Sound, WakeInv, CancelWakes
<1> QED
  BY <1>1, <1>3 DEF WakeInv, CancelWakes

\* A step of an exchange, of its context or of the wire keeps SearchInv.
LEMMA ExchangeStep ==
    ASSUME SearchInv, NEW i \in Ifaces, Iface(i) \/ Wake(i) \/ Reply(i)
    PROVE  SearchInv' /\ UNCHANGED <<goal, at, outcome>>
<1> USE DEF SearchInv
<1>1. /\ UNCHANGED <<goal, at, got, locs, fetch, todo, dialing, open, taken, devs, outcome,
                     ssdpErr, addr, subnet, cancelled>>
      /\ chan' \in {chan, chan \cup {i}}
      /\ UNCHANGED <<faults, moved>> \/ Fault
  <2>1. CASE Listen(i) \/ Send(i) \/ ReadEnds(i)
    BY <2>1 DEF Listen, Send, ReadEnds, Rest
  <2>2. CASE Prepare(i) \/ Wake(i) \/ Reply(i)
    BY <2>2 DEF Prepare, Wake, Reply, Rest, network
  <2>3. CASE Report(i)
    BY <2>3 DEF Report, network
  <2> QED
    BY <2>1, <2>2, <2>3 DEF Iface
<1>2. NetMoves
  BY <1>1, NetStays
<1>3. PICK e : Sound(e) /\ ifc' = [ifc EXCEPT ![i] = e]
  BY IfaceStep
<1>4. ifc' \in [Ifaces -> Exchange] /\ WakeInv'
  BY <1>1, <1>3, WakeKept
<1>5. chan' \subseteq Ifaces
  BY <1>1 DEF SearchTypeOK
<1> QED
  BY <1>1, <1>2, <1>4, <1>5, SearchKept

\* A search that is over holds nothing.
LEMMA Returned ==
    ASSUME SearchInv, NEW how \in {"found", "notfound", "error", "cancelled"}, Return(how),
           UNCHANGED <<goal, dialing, network>>, dialing = {},
           ifc' \in [Ifaces -> Exchange], chan' \subseteq Ifaces, WakeInv',
           devs' \subseteq Addrs, ssdpErr' \in BOOLEAN,
           how = "found" /\ goal = "udn" => FindUdn(devs'),
           how \in {"notfound", "error"} /\ goal = "udn" /\ subnet => moved
    PROVE  SearchInv'
<1> USE DEF SearchInv
<1>1. /\ at' = "idle" /\ outcome' = how
      /\ got' = {} /\ locs' = {} /\ open' = {} /\ todo' = {} /\ taken' = 0
      /\ fetch' = [h \in Addrs |-> "none"]
      /\ UNCHANGED <<addr, subnet, moved, cancelled, faults>>
  BY DEF Return, network
<1>2. SearchTypeOK'
  BY <1>1, SearchAssumption DEF SearchTypeOK
<1>3. SlotInv'
  <2>1. Holders' = {}
    BY <1>1 DEF Holders
  <2> QED
    BY <1>1, <2>1, NoneHeld DEF SlotInv
<1>4. FoundInv'
  BY <1>1 DEF FoundInv, FindUdn
<1>5. ProbeInv' /\ FindsReceiver'
  BY <1>1 DEF ProbeInv, FindsReceiver
<1> QED
  BY <1>2, <1>3, <1>4, <1>5

\* The fetches that begin hold no slot.
LEMMA FetchesBegin ==
    ASSUME SearchInv, NEW from, NEW next \in {"fetch", "sweepfetch"}, FetchAll(from, next),
           UNCHANGED <<goal, ifc, chan, dialing, devs, outcome, network>>, dialing = {},
           at # "idle",
           got' \subseteq Ifaces, locs' \subseteq Addrs, open' \subseteq Addrs, todo' \subseteq Addrs,
           ssdpErr' \in BOOLEAN,
           next = "sweepfetch" /\ ~moved /\ ~cancelled => addr \in from
    PROVE  SearchInv'
<1> USE DEF SearchInv
<1>1. /\ at' = next /\ taken' = 0
      /\ fetch' = [h \in Addrs |-> IF h \in from THEN "queued" ELSE "none"]
      /\ UNCHANGED <<addr, subnet, moved, cancelled, faults>>
  BY DEF FetchAll, network
<1>2. SearchTypeOK'
  BY <1>1, SearchAssumption DEF SearchTypeOK
<1>3. SlotInv'
  <2>1. Holders' = {}
    BY <1>1 DEF Holders
  <2> QED
    BY <1>1, <2>1, NoneHeld DEF SlotInv
<1>4. FoundInv' /\ WakeInv'
  BY <1>1 DEF FoundInv, FindUdn, WakeInv, CancelWakes
<1>5. ProbeInv' /\ FindsReceiver'
  BY <1>1 DEF ProbeInv, FindsReceiver, SearchTypeOK
<1> QED
  BY <1>2, <1>3, <1>4, <1>5

\* A step of the goroutine that called the search keeps SearchInv.
LEMMA CoordinatorStep ==
    ASSUME SearchInv, Collect \/ Collected \/ Leave \/ FetchedAll \/ Swept
    PROVE  SearchInv' /\ at # "idle" /\ goal' = goal
<1> USE DEF SearchInv
<1>1. SearchSends \in Nat \ {0}
  BY SearchAssumption
<1>2. Idle \in Exchange /\ ~Idle.woken
  BY <1>1 DEF Exchange, Idle
<1>3. Sound(Idle)
  BY <1>2 DEF Sound
<1>4. CASE Collect
  <2>1. PICK i \in chan :
           /\ chan' = chan \ {i} /\ got' = got \cup {i} /\ locs' = locs \cup ifc[i].locs
           /\ ssdpErr' = (ssdpErr \/ ifc[i].failed)
           /\ ifc' = [ifc EXCEPT ![i] = Idle]
    BY <1>4 DEF Collect
  <2>2. /\ at = "collect"
        /\ UNCHANGED <<goal, at, fetch, todo, dialing, open, taken, devs, outcome, addr, subnet,
                       moved, cancelled, faults>>
    BY <1>4 DEF Collect, network
  <2>3. i \in Ifaces /\ ifc[i] \in Exchange
    BY DEF SearchTypeOK
  <2>4. ifc' \in [Ifaces -> Exchange] /\ WakeInv'
    BY <1>3, <2>1, <2>2, <2>3, WakeKept
  <2>5. ifc[i].locs \subseteq Addrs /\ ifc[i].failed \in BOOLEAN
    BY <2>3 DEF Exchange
  <2>6. SearchTypeOK'
    <3>1. chan' \subseteq Ifaces /\ got' \subseteq Ifaces /\ locs' \subseteq Addrs
      BY <2>1, <2>3, <2>5 DEF SearchTypeOK
    <3>2. ssdpErr' \in BOOLEAN
      BY <2>1
    <3> QED
      BY <2>2, <2>4, <3>1, <3>2 DEF SearchTypeOK
  <2>7. SlotInv'
    BY <2>2 DEF SlotInv, Holders
  <2>8. FoundInv' /\ ProbeInv' /\ FindsReceiver'
    BY <2>2 DEF FoundInv, FindUdn, ProbeInv, FindsReceiver
  <2> QED
    BY <2>2, <2>4, <2>6, <2>7, <2>8
<1>5. CASE Collected
  <2>1. /\ at = "collect" /\ FetchAll(locs, "fetch")
        /\ ssdpErr' = (ssdpErr /\ locs = {}) /\ got' = {} /\ locs' = {}
        /\ UNCHANGED <<goal, ifc, chan, todo, dialing, open, devs, outcome, network>>
    BY <1>5 DEF Collected
  <2>2. /\ dialing = {} /\ open' \subseteq Addrs /\ todo' \subseteq Addrs
        /\ got' \subseteq Ifaces /\ locs' \subseteq Addrs
    BY <2>1 DEF SlotInv, SearchTypeOK
  <2>3. ssdpErr' \in BOOLEAN
    BY <2>1
  <2> QED
    BY <2>1, <2>2, <2>3, FetchesBegin
<1>6. CASE Leave
  <2>1. /\ at = "collect" /\ Return("cancelled")
        /\ ifc' = [i \in Ifaces |-> IF i \in chan THEN Idle ELSE ifc[i]]
        /\ UNCHANGED <<goal, chan, dialing, devs, ssdpErr, network>>
    BY <1>6 DEF Leave
  <2>2. dialing = {} /\ chan' \subseteq Ifaces /\ devs' \subseteq Addrs /\ ssdpErr' \in BOOLEAN
    BY <2>1 DEF SlotInv, SearchTypeOK
  <2>3. ifc' \in [Ifaces -> Exchange]
    BY <1>2, <2>1 DEF SearchTypeOK
  <2>4. WakeInv'
    <3>1. cancelled' = cancelled
      BY <2>1 DEF network
    <3>2. \A i \in Ifaces : ifc'[i] = ifc[i] \/ ~ifc'[i].woken
      BY <1>2, <2>1
    <3> QED
      BY <3>1, <3>2 DEF WakeInv, CancelWakes
  <2> QED
    BY <2>1, <2>2, <2>3, <2>4, Returned
<1>7. CASE Swept
  <2>1. /\ at = "sweep" /\ todo = {} /\ dialing = {}
        /\ UNCHANGED <<goal, ifc, chan, dialing, devs, ssdpErr, network>>
    BY <1>7 DEF Swept
  <2>2. /\ ifc' \in [Ifaces -> Exchange] /\ chan' \subseteq Ifaces /\ devs' \subseteq Addrs
        /\ ssdpErr' \in BOOLEAN
    BY <2>1 DEF SearchTypeOK
  <2>3. WakeInv'
    BY <2>1 DEF WakeInv, CancelWakes, network
  <2>4. CASE Return("cancelled")
    BY <2>1, <2>2, <2>3, <2>4, Returned
  <2>5. CASE /\ FetchAll(open, "sweepfetch")
             /\ open' = {} /\ UNCHANGED <<got, locs, todo, outcome>>
    <3>1. ~moved /\ ~cancelled => addr \in open
      BY <2>1 DEF ProbeInv
    <3>2. got' \subseteq Ifaces /\ locs' \subseteq Addrs /\ todo' \subseteq Addrs
      BY <2>5 DEF SearchTypeOK
    <3> QED
      BY <2>1, <2>2, <2>5, <3>1, <3>2, FetchesBegin
  <2> QED
    BY <1>7, <2>4, <2>5, <2>1 DEF Swept
<1>8. CASE FetchedAll
  <2>1. /\ at \in {"fetch", "sweepfetch"}
        /\ \A h \in Addrs : fetch[h] \in {"none", "found", "failed"}
        /\ UNCHANGED <<goal, ifc, chan, dialing, ssdpErr, network>>
    BY <1>8 DEF FetchedAll, Fetching
  <2>2. /\ dialing = {} /\ outcome = "none"
        /\ ifc' \in [Ifaces -> Exchange] /\ chan' \subseteq Ifaces /\ ssdpErr' \in BOOLEAN
    BY <2>1 DEF SearchTypeOK, SlotInv, FoundInv
  <2>3. WakeInv'
    BY <2>1 DEF WakeInv, CancelWakes, network
  <2>4. CASE cancelled
    <3>1. Return("cancelled") /\ UNCHANGED devs
      BY <1>8, <2>4 DEF FetchedAll
    <3>2. devs' \subseteq Addrs
      BY <3>1 DEF SearchTypeOK
    <3> QED
      BY <2>1, <2>2, <2>3, <3>1, <3>2, Returned
  <2>5. CASE ~cancelled
    <3>1. devs' = Merged(Fetched) /\ Fetched \subseteq Addrs
      BY <1>8, <2>5 DEF FetchedAll, Fetched
    <3>2. devs' \subseteq Addrs
      BY <3>1, MergeFinds
    <3>3. CASE at = "fetch" /\ NeedProbe(devs') /\ subnet
      <4>1. /\ at' = "sweep" /\ todo' = Addrs
            /\ UNCHANGED <<got, locs, open, fetch, taken, outcome>>
        BY <1>8, <2>5, <3>3 DEF FetchedAll
      <4>2. UNCHANGED <<addr, subnet, moved, cancelled, faults>>
        BY <2>1 DEF network
      <4>3. Holders = {} /\ Holders' = {}
        BY <2>1, <2>2, <3>3, <4>1 DEF Holders
      <4>4. taken = 0 /\ taken' = 0
        BY <4>1, <4>3, FS_EmptySet DEF SlotInv
      <4>5. SearchTypeOK'
        BY <2>1, <2>2, <3>2, <4>1, <4>2, <4>4, SearchAssumption DEF SearchTypeOK
      <4>6. SlotInv'
        BY <2>1, <2>2, <4>1, <4>3, <4>4, NoneHeld DEF SlotInv
      <4>7. FoundInv' /\ ProbeInv' /\ FindsReceiver'
        BY <2>2, <4>1, <4>2 DEF FoundInv, ProbeInv, FindsReceiver, SearchTypeOK
      <4> QED
        BY <2>1, <2>3, <4>5, <4>6, <4>7
    <3>4. CASE ~(at = "fetch" /\ NeedProbe(devs') /\ subnet)
      <4>1. Return(Outcome(devs'))
        BY <1>8, <2>5, <3>4 DEF FetchedAll
      <4>2. /\ Outcome(devs') \in {"found", "notfound", "error"}
            /\ Outcome(devs') = "found" /\ goal = "udn" => FindUdn(devs')
        BY DEF Outcome
      <4>3. ASSUME goal = "udn", subnet, ~moved PROVE Outcome(devs') = "found"
        <5>1. CASE at = "fetch"
          <6>1. FindUdn(devs')
            BY <3>4, <4>3, <5>1 DEF NeedProbe
          <6> QED
            BY <6>1 DEF Outcome, FindUdn
        <5>2. CASE at = "sweepfetch"
          <6>1. fetch[addr] = "found" /\ addr \in Addrs /\ addr # Sibling
            BY <2>1, <2>5, <4>3, <5>2 DEF ProbeInv, SearchTypeOK
          <6>2. addr \in Fetched
            BY <6>1 DEF Fetched
          <6>3. FindUdn(devs')
            BY <3>1, <6>1, <6>2, MergeFinds
          <6> QED
            BY <6>3 DEF Outcome, FindUdn
        <5> QED
          BY <2>1, <5>1, <5>2
      <4> QED
        BY <2>1, <2>2, <2>3, <3>2, <4>1, <4>2, <4>3, Returned
    <3> QED
      BY <3>3, <3>4
  <2> QED
    BY <2>4, <2>5
<1> QED
  BY <1>4, <1>5, <1>6, <1>7, <1>8

\* A fetch takes a slot and gives it back.
LEMMA FetchStep ==
    ASSUME SearchInv, NEW h \in Addrs, Begin(h) \/ Fetch(h)
    PROVE  SearchInv' /\ at # "idle" /\ goal' = goal
<1> USE DEF SearchInv
<1>1. /\ at \in {"fetch", "sweepfetch"}
      /\ UNCHANGED <<goal, at, ifc, chan, got, locs, todo, dialing, open, devs, outcome, ssdpErr,
                     addr, subnet, cancelled>>
      /\ UNCHANGED <<faults, moved>> \/ Fault
  BY DEF Begin, Fetch, Fetching, Keep, network
<1>2. NetMoves
  BY <1>1, NetStays
<1>3. /\ fetch \in [Addrs -> {"none", "queued", "first", "second", "found", "failed"}]
      /\ taken = Cardinality(Holders) /\ taken \in 0..FetchParallel
      /\ FetchParallel \in Nat
      /\ Holders = {g \in Addrs : fetch[g] \in {"first", "second"}}
  BY <1>1, SearchAssumption DEF SearchTypeOK, SlotInv, Holders
<1>4. PICK w \in {"first", "second", "found", "failed"} :
          /\ Fetches(h, w)
          /\ \/ w = "first" /\ fetch[h] = "queued" /\ taken < FetchParallel /\ taken' = taken + 1
             \/ w = "failed" /\ fetch[h] = "queued" /\ cancelled /\ UNCHANGED taken
             \/ w = "second" /\ fetch[h] = "first" /\ UNCHANGED taken
             \/ /\ w \in {"found", "failed"} /\ fetch[h] \in {"first", "second"}
                /\ taken' = taken - 1
                /\ w = "failed" => ~Alive(h) \/ cancelled \/ Fault
  <2>1. CASE Begin(h)
    BY <2>1 DEF Begin
  <2>2. CASE Fetch(h)
    BY <2>2 DEF Fetch
  <2> QED
    BY <2>1, <2>2
<1>5. /\ fetch' \in [Addrs -> {"none", "queued", "first", "second", "found", "failed"}]
      /\ \A g \in Addrs : fetch'[g] = IF g = h THEN w ELSE fetch[g]
  BY <1>3, <1>4 DEF Fetches
<1>6. Holders' = {g \in Addrs : fetch'[g] \in {"first", "second"}}
  BY <1>1 DEF Holders
<1>7. taken' = Cardinality(Holders') /\ taken' \in 0..FetchParallel
  <2>1. CASE w = "first" /\ fetch[h] = "queued" /\ taken < FetchParallel /\ taken' = taken + 1
    <3>1. Holders' = Holders \cup {h} /\ h \notin Holders
      BY <1>3, <1>5, <1>6, <2>1
    <3>2. taken' \in 0..FetchParallel
      BY <1>3, <2>1
    <3> QED
      BY <1>3, <2>1, <3>1, <3>2, SlotTaken
  <2>2. CASE w = "failed" /\ fetch[h] = "queued" /\ cancelled /\ UNCHANGED taken
    <3>1. Holders' = Holders
      BY <1>3, <1>5, <1>6, <2>2
    <3> QED
      BY <1>3, <2>2, <3>1
  <2>3. CASE w = "second" /\ fetch[h] = "first" /\ UNCHANGED taken
    <3>1. Holders' = Holders
      BY <1>3, <1>5, <1>6, <2>3
    <3> QED
      BY <1>3, <2>3, <3>1
  <2>4. CASE w \in {"found", "failed"} /\ fetch[h] \in {"first", "second"} /\ taken' = taken - 1
    <3>1. Holders' = Holders \ {h} /\ h \in Holders
      BY <1>3, <1>5, <1>6, <2>4
    <3>2. taken' = Cardinality(Holders') /\ taken' \in 0..taken
      BY <1>3, <2>4, <3>1, SlotGiven
    <3> QED
      BY <1>3, <3>2
  <2> QED
    BY <1>4, <2>1, <2>2, <2>3, <2>4
<1>8. SearchTypeOK'
  BY <1>1, <1>2, <1>5, <1>7 DEF SearchTypeOK, NetMoves
<1>9. SlotInv'
  BY <1>1, <1>7 DEF SlotInv
<1>10. FoundInv' /\ WakeInv' /\ FindsReceiver'
  BY <1>1 DEF FoundInv, FindUdn, WakeInv, CancelWakes, FindsReceiver
<1>11. ProbeInv'
  <2> SUFFICES ASSUME ~moved', ~cancelled, at = "sweepfetch"
               PROVE  fetch'[addr] \in {"queued", "first", "second", "found"}
    BY <1>1 DEF ProbeInv
  <2>1. fetch[addr] \in {"queued", "first", "second", "found"} /\ addr \in Addrs /\ Alive(addr)
    BY <1>2 DEF ProbeInv, NetMoves, SearchTypeOK, Alive
  <2>2. ~Fault
    BY <1>1 DEF Fault
  <2> QED
    BY <1>4, <1>5, <2>1, <2>2
<1> QED
  BY <1>1, <1>8, <1>9, <1>10, <1>11

\* So does a dial.
LEMMA DialStep ==
    ASSUME SearchInv, Dial \/ \E h \in Addrs : Dialled(h)
    PROVE  SearchInv' /\ at # "idle" /\ goal' = goal
<1> USE DEF SearchInv
<1>1. /\ at = "sweep"
      /\ UNCHANGED <<goal, at, ifc, chan, got, locs, fetch, devs, outcome, ssdpErr,
                     addr, subnet, cancelled>>
      /\ UNCHANGED <<faults, moved>> \/ Fault
  BY DEF Dial, Dialled, Still, network
<1>2. NetMoves
  BY <1>1, NetStays
<1>3. /\ todo \subseteq Addrs /\ dialing \subseteq Addrs /\ open \subseteq Addrs
      /\ todo \cap dialing = {}
      /\ taken = Cardinality(Holders) /\ taken \in 0..SweepParallel
      /\ SweepParallel \in Nat
      /\ Holders = dialing /\ Holders' = dialing'
  BY <1>1, SearchAssumption DEF SearchTypeOK, SlotInv, Holders
<1>4. addr \in Addrs /\ Alive(addr) /\ (~moved /\ ~cancelled => addr \in todo \cup dialing \cup open)
  BY <1>1 DEF SearchTypeOK, ProbeInv, Alive
<1>5. /\ todo' \subseteq Addrs /\ dialing' \subseteq Addrs /\ open' \subseteq Addrs
      /\ todo' \cap dialing' = {}
      /\ taken' = Cardinality(Holders') /\ taken' \in 0..SweepParallel
      /\ ~moved' /\ ~cancelled => addr \in todo' \cup dialing' \cup open'
  <2>1. CASE /\ SlotFree /\ taken' = taken + 1 /\ todo # {}
             /\ LET h == CHOOSE x \in todo : \A y \in todo : x <= y
                IN  todo' = todo \ {h} /\ dialing' = dialing \cup {h}
             /\ UNCHANGED <<open, moved>>
    <3> DEFINE h == CHOOSE x \in todo : \A y \in todo : x <= y
    <3>1. todo \subseteq Nat /\ todo # {}
      BY <1>3, <2>1, SearchAssumption
    <3>2. h \in todo
      BY <3>1, Least
    <3>3. todo' = todo \ {h} /\ dialing' = dialing \cup {h} /\ h \notin dialing
      BY <1>3, <2>1, <3>2
    <3> HIDE DEF h
    <3>4. taken' = Cardinality(Holders')
      BY <1>3, <2>1, <3>3, SlotTaken
    <3>5. taken' \in 0..SweepParallel
      BY <1>3, <2>1 DEF SlotFree
    <3> QED
      BY <1>3, <1>4, <2>1, <3>2, <3>3, <3>4, <3>5
  <2>2. CASE cancelled /\ todo' = {} /\ UNCHANGED <<taken, dialing, open>>
    BY <1>3, <2>2
  <2>3. ASSUME NEW h \in Addrs, h \in dialing, dialing' = dialing \ {h}, taken' = taken - 1,
               todo' = todo, open' \in {open, open \cup {h}},
               ~moved' /\ ~cancelled => open' = open \cup {h} \/ h # addr
        PROVE  /\ todo' \subseteq Addrs /\ dialing' \subseteq Addrs /\ open' \subseteq Addrs
               /\ todo' \cap dialing' = {}
               /\ taken' = Cardinality(Holders') /\ taken' \in 0..SweepParallel
               /\ ~moved' /\ ~cancelled => addr \in todo' \cup dialing' \cup open'
    <3>1. taken' = Cardinality(Holders') /\ taken' \in 0..taken
      BY <1>3, <2>3, SlotGiven
    <3>2. taken' \in 0..SweepParallel
      BY <1>3, <3>1
    <3>3. ~moved' => ~moved
      BY <1>2 DEF NetMoves
    <3> QED
      BY <1>3, <1>4, <2>3, <3>1, <3>2, <3>3
  <2>4. CASE Dial
    <3>1. UNCHANGED <<open, moved>> /\ todo # {}
      BY <2>4 DEF Dial, network
    <3> QED
      BY <2>1, <2>2, <2>4, <3>1 DEF Dial
  <2>5. ASSUME NEW h \in Addrs, Dialled(h)
        PROVE  /\ h \in dialing /\ dialing' = dialing \ {h} /\ taken' = taken - 1
               /\ todo' = todo /\ open' \in {open, open \cup {h}}
               /\ ~moved' /\ ~cancelled => open' = open \cup {h} \/ h # addr
    <3>1. h \in dialing /\ dialing' = dialing \ {h} /\ taken' = taken - 1 /\ todo' = todo
      BY <2>5 DEF Dialled
    <3>2. \/ open' = open \cup {h}
          \/ UNCHANGED open /\ (~Alive(h) \/ cancelled \/ Fault)
      BY <2>5 DEF Dialled
    <3>3. Fault => moved'
      BY <1>1 DEF Fault
    <3> QED
      BY <1>4, <3>1, <3>2, <3>3
  <2> QED
    BY <2>3, <2>4, <2>5
<1>6. SearchTypeOK'
  BY <1>1, <1>2, <1>5 DEF SearchTypeOK, NetMoves
<1>7. SlotInv' /\ ProbeInv'
  BY <1>1, <1>5 DEF SlotInv, ProbeInv
<1>8. FoundInv' /\ WakeInv' /\ FindsReceiver'
  BY <1>1 DEF FoundInv, FindUdn, WakeInv, CancelWakes, FindsReceiver
<1> QED
  BY <1>1, <1>6, <1>7, <1>8

\* One step of a search, whichever of its goroutines takes it.
LEMMA SearchStepKeeps ==
    ASSUME SearchInv, SearchStep
    PROVE  /\ SearchInv' /\ goal' = goal
           /\ at # "idle" \/ UNCHANGED <<at, outcome>>
BY ExchangeStep, CoordinatorStep, FetchStep, DialStep
   DEF SearchStep, SearchWork, Coordinator, Worker

\* The beginning of one.
LEMMA SearchBegins ==
    ASSUME SearchInv, outcome = "none", NEW g \in {"any", "udn"}, StartSearch(g)
    PROVE  SearchInv' /\ goal' = g
<1> USE DEF SearchInv
<1>1. /\ at = "idle" /\ goal' = g
      /\ chan' = {} /\ devs' = {} /\ ssdpErr' = FALSE /\ moved' = FALSE
      /\ UNCHANGED <<dialing, addr, subnet, cancelled, faults>>
  BY DEF StartSearch
<1>2. dialing = {} /\ taken = 0 /\ Holders = {}
  <2>1. Holders = {} /\ dialing = {}
    BY <1>1 DEF SlotInv, Holders
  <2> QED
    BY <2>1, FS_EmptySet DEF SlotInv
<1>3. CASE cancelled
  <2>1. Return("cancelled") /\ UNCHANGED ifc
    BY <1>3 DEF StartSearch
  <2>2. /\ at' = "idle" /\ outcome' = "cancelled"
        /\ got' = {} /\ locs' = {} /\ open' = {} /\ todo' = {} /\ taken' = 0
        /\ fetch' = [h \in Addrs |-> "none"]
    BY <2>1 DEF Return
  <2>3. Holders' = {}
    BY <2>2 DEF Holders
  <2>4. SearchTypeOK'
    <3>1. fetch' \in [Addrs -> {"none", "queued", "first", "second", "found", "failed"}]
      BY <2>2
    <3>2. taken' \in 0..FetchParallel
      BY <2>2, SearchAssumption
    <3> QED
      BY <1>1, <2>1, <2>2, <3>1, <3>2 DEF SearchTypeOK
  <2>5. SlotInv'
    BY <1>1, <1>2, <2>2, <2>3, NoneHeld DEF SlotInv
  <2>6. FoundInv' /\ WakeInv' /\ ProbeInv' /\ FindsReceiver'
    BY <1>1, <2>1, <2>2 DEF FoundInv, WakeInv, CancelWakes, ProbeInv, FindsReceiver
  <2> QED
    BY <1>1, <2>4, <2>5, <2>6
<1>4. CASE ~cancelled
  <2>1. /\ at' = "collect" /\ ifc' = [i \in Ifaces |-> [Idle EXCEPT !.at = "listen"]]
        /\ UNCHANGED <<got, locs, open, todo, fetch, taken, outcome>>
    BY <1>4 DEF StartSearch
  <2>2. Idle \in Exchange /\ ~Idle.woken
    BY SearchAssumption DEF Exchange, Idle
  <2>3. [Idle EXCEPT !.at = "listen"] \in Exchange /\ ~[Idle EXCEPT !.at = "listen"].woken
    BY <2>2 DEF Exchange
  <2>4. ifc' \in [Ifaces -> Exchange] /\ \A i \in Ifaces : ~ifc'[i].woken
    BY <2>1, <2>3
  <2>5. Holders' = {}
    BY <1>1, <2>1 DEF Holders, SlotInv
  <2>6. SearchTypeOK'
    BY <1>1, <1>2, <2>1, <2>4, SearchAssumption DEF SearchTypeOK
  <2>7. SlotInv'
    BY <1>1, <1>2, <2>1, <2>5, NoneHeld DEF SlotInv
  <2>8. FoundInv' /\ WakeInv' /\ ProbeInv' /\ FindsReceiver'
    BY <1>1, <2>1, <2>4 DEF FoundInv, WakeInv, CancelWakes, ProbeInv, FindsReceiver
  <2> QED
    BY <1>1, <2>6, <2>7, <2>8
<1> QED
  BY <1>3, <1>4

-----------------------------------------------------------------------------
(* The supervisor and its sessions.                                        *)

\* The supervisor's and the sessions' part of the types.
WatchTypeOK ==
    /\ command \in {"watch", "discover"} /\ stage \in Stages
    /\ settled \in BOOLEAN /\ listed \in BOOLEAN
    /\ host \in Addrs
    /\ fails \in 0..(RediscoverAfter - 1)
    /\ backoff \in BackoffMin..BackoffMax
    /\ conn \in {"none", "open", "silent", "closed"} /\ pinged \in BOOLEAN
    /\ closer \in BOOLEAN /\ keeper \in BOOLEAN /\ leaving \in Nat

\* A step that leaves the search alone, or takes an outcome or none from it.
LEMMA SupervisorKeeps ==
    ASSUME SearchInv, NetMoves, UNCHANGED search
    PROVE  SearchInv'
<1>1. UNCHANGED <<goal, at, ifc, chan, got, locs, fetch, todo, dialing, open, taken, devs, outcome,
                  ssdpErr>>
  BY DEF search
<1>2. ifc' \in [Ifaces -> Exchange] /\ chan' \subseteq Ifaces
  BY <1>1 DEF SearchInv, SearchTypeOK
<1>3. WakeInv'
  BY <1>1 DEF SearchInv, WakeInv, CancelWakes, NetMoves
<1> QED
  BY <1>1, <1>2, <1>3, SearchKept

\* A probe that settles, fails or looks up stays in the supervisor's domain.
LEMMA SettleTypes ==
    ASSUME WatchTypeOK, Settled \/ SettleFails \/ LooksUp
    PROVE  /\ stage' \in Stages /\ settled' \in BOOLEAN
           /\ backoff' \in BackoffMin..BackoffMax
<1>1. BackoffMin \in Nat /\ BackoffMax \in Nat /\ BackoffMin <= BackoffMax
  BY WatchAssumption
<1>2. SettleFails => /\ stage' \in Stages /\ settled' \in BOOLEAN
                     /\ backoff' \in BackoffMin..BackoffMax
  BY DEF SettleFails, Exits, WatchTypeOK, Stages
<1>3. Settled => /\ stage' \in Stages /\ settled' = TRUE
                 /\ backoff' \in BackoffMin..BackoffMax
  BY <1>1 DEF Settled, WatchTypeOK, Stages
<1>4. LooksUp => /\ SettleFails \/ (stage' = "lookup" /\ UNCHANGED <<settled, backoff>>)
  BY DEF LooksUp
<1>5. settled \in BOOLEAN /\ backoff \in BackoffMin..BackoffMax /\ "lookup" \in Stages
  BY DEF WatchTypeOK, Stages
<1> QED
  BY <1>2, <1>3, <1>4, <1>5

\* What every step keeps: SearchInv for whatever search there is, called by the
\* stage the supervisor is in.
WatchInv == SearchInv /\ CallInv /\ WatchTypeOK

\* A step of the loop of `ynca watch` keeps the invariant.
LEMMA SupervisorStep ==
    ASSUME WatchInv, Supervise
    PROVE  WatchInv'
<1> USE DEF WatchInv
<1>0. SearchTypeOK
  BY DEF SearchInv
<1>1. CASE SettleProbe \/ RerunProbe
  <2>1. /\ stage \in {"settle", "rerun"}
        /\ UNCHANGED <<command, listed, host, fails, session, search, addr, subnet, cancelled>>
        /\ Probe(LooksUp) \/ Probe(SettleFails)
    BY <1>1 DEF SettleProbe, RerunProbe
  <2>2. UNCHANGED <<faults, moved>> \/ Fault
    BY <2>1 DEF Probe
  <2>3. NetMoves
    BY <1>0, <2>1, <2>2, NetStays
  <2>4. Settled \/ SettleFails \/ LooksUp
    BY <2>1 DEF Probe
  <2>5. /\ stage' \in Stages /\ settled' \in BOOLEAN
        /\ backoff' \in BackoffMin..BackoffMax
    BY <2>4, SettleTypes
  <2>6. WatchTypeOK'
    BY <2>1, <2>5 DEF WatchTypeOK, session
  <2>7. CallInv'
    BY <2>1 DEF CallInv, search
  <2> QED
    BY <2>1, <2>3, <2>6, <2>7, SupervisorKeeps
<1>2. CASE CallSearch
  <2>1. /\ stage \in {"lookup", "search"} /\ outcome = "none"
        /\ StartSearch(IF stage = "search" THEN "any" ELSE "udn")
        /\ UNCHANGED <<supervisor, session>>
    BY <1>2 DEF CallSearch
  <2>2. SearchInv' /\ goal' = (IF stage = "search" THEN "any" ELSE "udn")
    BY <2>1, SearchBegins
  <2>3. WatchTypeOK' /\ stage' = stage
    BY <2>1 DEF WatchTypeOK, supervisor, session
  <2>4. CallInv'
    BY <2>1, <2>2, <2>3 DEF CallInv
  <2> QED
    BY <2>2, <2>3, <2>4
<1>3. CASE SearchReturned
  <2>1. /\ stage \in {"lookup", "search"} /\ outcome # "none" /\ at = "idle"
        /\ outcome' = "none" /\ devs' = {} /\ ssdpErr' = FALSE /\ moved' = FALSE
        /\ UNCHANGED <<command, listed, fails, session, goal, at, ifc, chan, got, locs, fetch, todo,
                       dialing, open, taken, addr, subnet, cancelled>>
    BY <1>3 DEF SearchReturned
  <2>2. faults' \in 0..MaxFaults
    <3>1. UNCHANGED faults \/ (faults < MaxFaults /\ faults' = faults + 1)
      BY <1>3 DEF SearchReturned, Fault
    <3> QED
      BY <1>0, <3>1, SearchAssumption DEF SearchTypeOK
  <2>3. SearchInv'
    <3>1. SearchTypeOK'
      BY <1>0, <2>1, <2>2 DEF SearchTypeOK
    <3>2. SlotInv'
      BY <2>1 DEF SearchInv, SlotInv, Holders
    <3>3. FoundInv' /\ WakeInv' /\ ProbeInv' /\ FindsReceiver'
      BY <2>1 DEF SearchInv, FoundInv, WakeInv, CancelWakes, ProbeInv, FindsReceiver
    <3> QED
      BY <3>1, <3>2, <3>3 DEF SearchInv
  <2>4. CallInv'
    BY <2>1 DEF CallInv
  <2>5. /\ host' \in Addrs /\ stage' \in Stages /\ settled' \in BOOLEAN
        /\ backoff' \in BackoffMin..BackoffMax
    <3>1. CASE stage = "lookup" /\ outcome = "found"
      <4>1. Target \in devs
        BY <2>1, <3>1, TargetFound DEF SearchInv, FoundInv, CallInv
      <4>2. host' \in Addrs
        BY <1>0, <1>3, <3>1, <4>1 DEF SearchReturned, SearchTypeOK
      <4>3. \/ stage' = "rerun" /\ UNCHANGED <<settled, backoff>>
            \/ SettleFails
        BY <1>3, <3>1 DEF SearchReturned
      <4> QED
        BY <4>2, <4>3, SettleTypes DEF WatchTypeOK, Stages
    <3>2. CASE ~(stage = "lookup" /\ outcome = "found")
      <4>1. /\ UNCHANGED host
            /\ \/ SettleFails
               \/ Exits /\ UNCHANGED <<settled, backoff>>
        BY <1>3, <3>2 DEF SearchReturned
      <4> QED
        BY <4>1, SettleTypes DEF WatchTypeOK, Exits, Stages
    <3> QED
      BY <3>1, <3>2
  <2>6. WatchTypeOK'
    BY <2>1, <2>5 DEF WatchTypeOK, session
  <2> QED
    BY <2>3, <2>4, <2>6
<1>4. CASE DialSession
  <2>1. /\ stage = "dial"
        /\ UNCHANGED <<command, settled, listed, host, backoff, search, addr, subnet, cancelled>>
        /\ UNCHANGED <<faults, moved>> \/ Fault
    BY <1>4 DEF DialSession
  <2>2. NetMoves
    BY <1>0, <2>1, NetStays
  <2>3. CallInv'
    BY <2>1 DEF CallInv, search
  <2>4. /\ stage' \in Stages /\ fails' \in 0..(RediscoverAfter - 1)
        /\ conn' \in {"none", "open", "silent", "closed"} /\ pinged' \in BOOLEAN
        /\ closer' \in BOOLEAN /\ keeper' \in BOOLEAN /\ leaving' \in Nat
    <3>1. CASE Exits /\ UNCHANGED <<fails, session>>
      BY <3>1 DEF Exits, session, WatchTypeOK, Stages
    <3>2. CASE /\ stage' = "reading"
               /\ conn' = "open" /\ pinged' = FALSE /\ closer' = TRUE /\ keeper' = TRUE
               /\ UNCHANGED <<fails, leaving>>
      BY <3>2 DEF WatchTypeOK, Stages
    <3>3. CASE FailedDial /\ UNCHANGED session
      <4>1. RediscoverAfter \in Nat /\ RediscoverAfter # 0 /\ fails \in 0..(RediscoverAfter - 1)
        BY WatchAssumption DEF WatchTypeOK
      <4>2. fails' \in 0..(RediscoverAfter - 1)
        BY <3>3, <4>1 DEF FailedDial
      <4>3. stage' \in Stages
        BY <3>3 DEF FailedDial, Stages
      <4> QED
        BY <3>3, <4>2, <4>3 DEF session, WatchTypeOK
    <3> QED
      BY <1>4, <3>1, <3>2, <3>3 DEF DialSession
  <2>5. WatchTypeOK'
    BY <2>1, <2>4 DEF WatchTypeOK
  <2> QED
    BY <2>1, <2>2, <2>3, <2>5, SupervisorKeeps
<1>5. CASE ReaderEnds
  <2>1. /\ stage = "reading" /\ stage' \in {"exited", "pause"}
        /\ conn' = "none" /\ closer' = FALSE /\ keeper' = FALSE
        /\ leaving' = leaving + (IF closer THEN 1 ELSE 0) + (IF keeper THEN 1 ELSE 0)
        /\ fails' \in {0, fails}
        /\ UNCHANGED <<command, settled, listed, host, backoff, pinged, search>>
        /\ UNCHANGED <<addr, subnet, moved, cancelled, faults>>
    BY <1>5 DEF ReaderEnds, Exits, network
  <2>2. NetMoves
    BY <1>0, <2>1, NetStays
  <2>3. CallInv'
    BY <2>1 DEF CallInv, search
  <2>4. leaving' \in Nat /\ fails' \in 0..(RediscoverAfter - 1)
    BY <2>1, WatchAssumption DEF WatchTypeOK
  <2>5. WatchTypeOK'
    BY <2>1, <2>4 DEF WatchTypeOK, Stages
  <2> QED
    BY <2>1, <2>2, <2>3, <2>5, SupervisorKeeps
<1>6. CASE Pause
  <2>1. /\ stage = "pause" /\ stage' \in {"exited", "dial"}
        /\ backoff' \in {backoff, IF backoff * 2 > BackoffMax THEN BackoffMax ELSE backoff * 2}
        /\ UNCHANGED <<command, settled, listed, host, fails, session, search>>
        /\ UNCHANGED <<addr, subnet, moved, cancelled, faults>>
    BY <1>6 DEF Pause, Exits, network
  <2>2. NetMoves
    BY <1>0, <2>1, NetStays
  <2>3. CallInv'
    BY <2>1 DEF CallInv, search
  <2>4. backoff' \in BackoffMin..BackoffMax
    BY <2>1, WatchAssumption DEF WatchTypeOK
  <2>5. WatchTypeOK'
    BY <2>1, <2>4 DEF WatchTypeOK, session, Stages
  <2> QED
    BY <2>1, <2>2, <2>3, <2>5, SupervisorKeeps
<1> QED
  BY <1>1, <1>2, <1>3, <1>4, <1>5, <1>6 DEF Supervise

\* The goroutines of a session and the environment.
LEMMA SessionStep ==
    ASSUME WatchInv, Close \/ KeepAlive \/ LeaverEnds \/ GiveUp \/ Drop \/ Move \/ Interrupt
    PROVE  WatchInv'
<1> USE DEF WatchInv
<1>0. SearchTypeOK
  BY DEF SearchInv
<1>1. UNCHANGED <<supervisor, search>>
  BY DEF Close, KeepAlive, LeaverEnds, GiveUp, Drop, Move, Interrupt
<1>2. NetMoves
  <2>1. CASE Close \/ KeepAlive \/ LeaverEnds \/ GiveUp
    BY <1>0, <2>1, NetStays DEF Close, KeepAlive, LeaverEnds, GiveUp, network
  <2>2. CASE Drop
    BY <1>0, <2>2, NetStays DEF Drop
  <2>3. CASE Move
    <3>1. /\ addr + 1 \in Addrs \ {Sibling} /\ addr' = addr + 1
          /\ moved' = (moved \/ at # "idle")
          /\ UNCHANGED <<subnet, cancelled, faults>>
      BY <2>3 DEF Move
    <3>2. moved' \in BOOLEAN /\ (moved => moved') /\ (at # "idle" => moved')
      BY <3>1
    <3>3. /\ subnet' = subnet /\ faults' \in 0..MaxFaults
          /\ cancelled' \in BOOLEAN /\ (cancelled => cancelled')
      BY <1>0, <3>1 DEF SearchTypeOK
    <3> QED
      BY <3>1, <3>2, <3>3 DEF NetMoves
  <2>4. CASE Interrupt
    <3>1. cancelled' = TRUE /\ UNCHANGED <<addr, subnet, moved, faults>>
      BY <2>4 DEF Interrupt
    <3> QED
      BY <1>0, <3>1 DEF SearchTypeOK, NetMoves
  <2> QED
    BY <2>1, <2>2, <2>3, <2>4
<1>3. CallInv'
  BY <1>1 DEF CallInv, supervisor, search
<1>4. /\ conn' \in {"none", "open", "silent", "closed"} /\ pinged' \in BOOLEAN
      /\ closer' \in BOOLEAN /\ keeper' \in BOOLEAN /\ leaving' \in Nat
  <2>1. CASE Close
    BY <2>1 DEF Close, WatchTypeOK
  <2>2. CASE KeepAlive
    BY <2>2 DEF KeepAlive, WatchTypeOK
  <2>3. CASE LeaverEnds
    BY <2>3 DEF LeaverEnds, WatchTypeOK
  <2>4. CASE GiveUp
    BY <2>4 DEF GiveUp, WatchTypeOK
  <2>5. CASE Drop
    BY <2>5 DEF Drop, WatchTypeOK
  <2>6. CASE Move
    BY <2>6 DEF Move, WatchTypeOK
  <2>7. CASE Interrupt
    BY <2>7 DEF Interrupt, session, WatchTypeOK
  <2> QED
    BY <2>1, <2>2, <2>3, <2>4, <2>5, <2>6, <2>7
<1>5. WatchTypeOK'
  BY <1>1, <1>4 DEF WatchTypeOK, supervisor
<1> QED
  BY <1>1, <1>2, <1>3, <1>5, SupervisorKeeps

\* Every step keeps the invariant.
LEMMA WatchStep == WatchInv /\ [Next]_vars => WatchInv'
<1> SUFFICES ASSUME WatchInv, [Next]_vars PROVE WatchInv'
  OBVIOUS
<1>1. CASE Supervise
  BY <1>1, SupervisorStep
<1>2. CASE Searching
  <2>1. SearchStep /\ UNCHANGED <<supervisor, session>>
    BY <1>2 DEF Searching
  <2>2. /\ SearchInv' /\ goal' = goal
        /\ at # "idle" \/ UNCHANGED <<at, outcome>>
    BY <2>1, SearchStepKeeps DEF WatchInv
  <2>3. CallInv'
    BY <2>1, <2>2 DEF WatchInv, CallInv, supervisor
  <2>4. WatchTypeOK'
    BY <2>1 DEF WatchInv, WatchTypeOK, supervisor, session
  <2> QED
    BY <2>2, <2>3, <2>4 DEF WatchInv
<1>3. CASE Close \/ KeepAlive \/ LeaverEnds \/ GiveUp \/ Drop \/ Move \/ Interrupt
  BY <1>3, SessionStep
<1>4. CASE UNCHANGED vars
  <2>1. UNCHANGED <<supervisor, session, search>> /\ UNCHANGED <<addr, subnet, moved, cancelled, faults>>
    BY <1>4 DEF vars, network
  <2>2. NetMoves
    BY <2>1, NetStays DEF WatchInv, SearchInv
  <2>3. CallInv' /\ WatchTypeOK'
    BY <2>1 DEF WatchInv, CallInv, WatchTypeOK, supervisor, session, search
  <2> QED
    BY <2>1, <2>2, <2>3, SupervisorKeeps DEF WatchInv
<1> QED
  BY <1>1, <1>2, <1>3, <1>4 DEF Next

\* The first state of `ynca watch`, and of `discover`, has it.
LEMMA WatchInit == Init => WatchInv
<1> SUFFICES ASSUME Init PROVE WatchInv
  OBVIOUS
<1>1. addr \in Addrs \ {Sibling}
  <2>1. Addrs \ {Sibling} \subseteq Nat /\ Addrs \ {Sibling} # {}
    BY SearchAssumption
  <2>2. \E x \in Addrs \ {Sibling} : \A y \in Addrs \ {Sibling} : x <= y
    BY <2>1, Least
  <2> QED
    BY <2>2 DEF Init
<1>2. Idle \in Exchange /\ ~Idle.woken
  BY SearchAssumption DEF Exchange, Idle
<1>3. /\ goal = "any" /\ at = "idle" /\ ifc = [i \in Ifaces |-> Idle]
      /\ chan = {} /\ got = {} /\ locs = {} /\ fetch = [h \in Addrs |-> "none"]
      /\ todo = {} /\ dialing = {} /\ open = {} /\ taken = 0
      /\ devs = {} /\ outcome = "none" /\ ssdpErr = FALSE
      /\ subnet \in BOOLEAN /\ moved = FALSE /\ cancelled = FALSE /\ faults = 0
  BY DEF Init, SearchInit
<1>4. SearchTypeOK
  <2>1. taken \in 0..FetchParallel /\ faults \in 0..MaxFaults
    BY <1>3, SearchAssumption
  <2>2. ifc \in [Ifaces -> Exchange]
    BY <1>2, <1>3
  <2>3. fetch \in [Addrs -> {"none", "queued", "first", "second", "found", "failed"}]
    BY <1>3
  <2> QED
    BY <1>1, <1>3, <2>1, <2>2, <2>3 DEF SearchTypeOK
<1>5. SlotInv
  <2>1. Holders = {}
    BY <1>3 DEF Holders
  <2> QED
    BY <1>3, <2>1, FS_EmptySet DEF SlotInv
<1>6. FoundInv /\ WakeInv /\ ProbeInv /\ FindsReceiver /\ CallInv
  BY <1>2, <1>3 DEF FoundInv, WakeInv, CancelWakes, ProbeInv, FindsReceiver, CallInv
<1>7. WatchTypeOK
  <2>1. fails \in 0..(RediscoverAfter - 1) /\ backoff \in BackoffMin..BackoffMax
    BY WatchAssumption DEF Init
  <2>2. /\ command \in {"watch", "discover"} /\ stage \in Stages
        /\ settled \in BOOLEAN /\ listed \in BOOLEAN
    BY DEF Init, Stages
  <2> QED
    BY <1>1, <2>1, <2>2 DEF Init, WatchTypeOK
<1> QED
  BY <1>4, <1>5, <1>6, <1>7 DEF WatchInv, SearchInv

\* Every variable stays in its domain: the searches never dial or fetch more than
\* their semaphores allow, and the host the supervisor dials is an address of the
\* subnet, the one of a device that was found included.
THEOREM TypeCorrect == Spec => []TypeOK
<1>1. WatchInv => TypeOK
  BY DEF WatchInv, SearchInv, WatchTypeOK, TypeOK
<1> QED
  BY <1>1, WatchInit, WatchStep, PTL DEF Spec

\* A cancellation is never undone by the loop it interrupts, on any number of
\* interfaces.
THEOREM CancellationWakes == Spec => []CancelWakes
<1>1. WatchInv => CancelWakes
  BY DEF WatchInv, SearchInv, WakeInv
<1> QED
  BY <1>1, WatchInit, WatchStep, PTL DEF Spec

\* Every slot of a semaphore is held by one goroutine, and given back.
THEOREM SlotsAreHeld == Spec => []SlotInv
<1>1. WatchInv => SlotInv
  BY DEF WatchInv, SearchInv
<1> QED
  BY <1>1, WatchInit, WatchStep, PTL DEF Spec

\* A lookup on a subnet it can probe does not miss a receiver that stayed where
\* it is, whatever SSDP found and however many addresses there are.
THEOREM LookupFinds == Spec => []FindsReceiver
<1>1. WatchInv => FindsReceiver
  BY DEF WatchInv, SearchInv
<1> QED
  BY <1>1, WatchInit, WatchStep, PTL DEF Spec

=============================================================================
