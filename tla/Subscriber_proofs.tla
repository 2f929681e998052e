------------------------ MODULE Subscriber_proofs -------------------------
(***************************************************************************)
(* Proofs about Subscriber, for any number of zones and packets and any    *)
(* capacities: its type invariant, the history its caller reads, the waits *)
(* of a row of failures and the delivery of every packet.                  *)
(***************************************************************************)
EXTENDS Subscriber, Integers, WellFoundedInduction, TLAPS

-----------------------------------------------------------------------------
(* What holds of every call of a helper.                                   *)

\* Doubling keeps a wait between its bounds.
LEMMA NextBackoffType ==
    ASSUME NEW cur \in BackoffMin..BackoffMax
    PROVE  NextBackoff(cur) \in BackoffMin..BackoffMax
BY SubscriberAssumption DEF NextBackoff

\* What the reader holds and the pump takes are packets, and those that are
\* passed on are events; the pump's own announcements are events.
LEMMA EventTypes ==
    /\ None \in Packets /\ None \in Events
    /\ Event("error") \in Packets /\ Event("foreign") \in Packets
    /\ \A n \in 1..MaxPackets : [kind |-> "raw", n |-> n] \in Packets
    /\ \A k \in Control : Event(k) \in Events /\ Event(k).kind = k
    /\ \A p \in Packets : p.kind \in {"raw", "foreign"} => p \in Events
    /\ \A e \in Events : e.kind \in Control \cup {"none", "raw", "foreign"}
BY DEF None, Event, Packets, Events, Control

-----------------------------------------------------------------------------
(* Types.                                                                  *)

\* No step of the pump leaves its domain.
LEMMA PumpType ==
    ASSUME TypeOK,
           \/ ZoneRegistered \/ RegistrationFailed
           \/ EventPut \/ EventDropped \/ GraceOver
           \/ WaitOver \/ CancelSeen \/ PacketTaken \/ RenewalDue
           \/ SilenceNoticed \/ Close
    PROVE  TypeOK'
<1> USE SubscriberAssumption DEF TypeOK, caller, timers, readerVars
<1>1. CASE ZoneRegistered
  <2>1. CASE zone < Zones
    <3>1. zone' = zone + 1 /\ alive' = ~ctxDone
      BY <1>1, <2>1 DEF ZoneRegistered
    <3>2. zone' \in 1..Zones
      BY <2>1, <3>1
    <3>3. alive' \in BOOLEAN
      BY <3>1
    <3>4. UNCHANGED <<pc, event, backoff, fails, phase, timers, readerVars,
                      pkts,
                     out, ctxDone, caller, filter>>
      BY <1>1, <2>1 DEF ZoneRegistered
    <3> QED
      BY <3>2, <3>3, <3>4
  <2>2. CASE zone = Zones
    <3>1. event' \in Events
      BY <1>1, <2>2, EventTypes DEF ZoneRegistered, Emit, Control
    <3>2. backoff' \in BackoffMin..BackoffMax
      BY <1>1, <2>2 DEF ZoneRegistered
    <3> QED
      BY <1>1, <2>2, <3>1, <3>2 DEF ZoneRegistered, Emit
  <2> QED
    BY <1>1, <2>1, <2>2 DEF ZoneRegistered
<1>2. CASE RegistrationFailed
  BY <1>2, EventTypes, NextBackoffType
     DEF RegistrationFailed, Emit, Control, OneMore
<1>3. CASE EventPut
  <2>1. event.kind \in Control \cup {"none", "raw", "foreign"}
    BY EventTypes
  <2>2. out' \in Seq(Events) /\ Len(out') = Len(out) + 1
    BY <1>3 DEF EventPut
  <2> QED
    BY <1>3, <2>1, <2>2, EventTypes DEF EventPut, AfterEmit
<1>4. CASE EventDropped
  BY <1>4, EventTypes DEF EventDropped, AfterEmit
<1>5. CASE GraceOver
  BY <1>5, EventTypes DEF GraceOver, AfterEmit
<1>6. CASE WaitOver
  BY <1>6, NextBackoffType DEF WaitOver, Register
<1>7. CASE CancelSeen
  BY <1>7, EventTypes DEF CancelSeen, Emit, Control
<1>8. CASE PacketTaken
  <2>1. pkts # <<>> /\ Head(pkts) \in Packets
    BY <1>8 DEF PacketTaken
  <2>2. pkts' \in Seq(Packets) /\ Len(pkts') = Len(pkts) - 1
    BY <1>8, <2>1 DEF PacketTaken
  <2>3. event' \in Events
    BY <1>8, <2>1, EventTypes DEF PacketTaken, Emit, Control
  <2>4. pc' \in {"select", "emit"} /\ silence' \in {silence, "armed"}
    BY <1>8 DEF PacketTaken, Emit
  <2>5. UNCHANGED <<phase, zone, backoff, alive, fails, renewDue, heard, reader,
                   held, arrived, foreign, out, ctxDone, received, last, missed,
                   filter>>
    BY <1>8 DEF PacketTaken
  <2> QED
    BY <2>2, <2>3, <2>4, <2>5
<1>9. CASE RenewalDue
  <2>1. /\ pc' = "subscribe" /\ phase' = "renew" /\ zone' = 1
        /\ alive' = ~ctxDone /\ renewDue' = FALSE
    BY <1>9 DEF RenewalDue, Register
  <2>2. zone' \in 1..Zones
    BY <2>1
  <2>3. alive' \in BOOLEAN
    BY <2>1
  <2>4. renewDue' \in BOOLEAN
    BY <2>1, Zenon
  <2>5. UNCHANGED <<event, backoff, fails, silence, heard, readerVars, pkts,
                    out,
                   ctxDone, caller, filter>>
    BY <1>9 DEF RenewalDue
  <2> QED
    BY <2>1, <2>2, <2>3, <2>4, <2>5
<1>10. CASE SilenceNoticed
  BY <1>10, EventTypes DEF SilenceNoticed, Emit, Control
<1>11. CASE Close
  BY <1>11 DEF Close
<1> QED
  BY <1>1, <1>2, <1>3, <1>4, <1>5, <1>6, <1>7, <1>8, <1>9, <1>10, <1>11

\* No step of the reader, of a timer or from outside leaves its domain.
LEMMA OtherType ==
    ASSUME TypeOK,
           \/ Read \/ HandOver \/ ReaderStops
           \/ RenewTick \/ SilenceFires \/ Receive \/ Cancel
    PROVE  TypeOK'
<1> USE SubscriberAssumption DEF TypeOK, pump, caller, timers, readerVars
<1>1. CASE Read
  BY <1>1, EventTypes DEF Read, Holds
<1>2. CASE HandOver
  <2>1. pkts' \in Seq(Packets) /\ Len(pkts') = Len(pkts) + 1
    BY <1>2 DEF HandOver
  <2> QED
    BY <1>2, <2>1, EventTypes DEF HandOver
<1>3. CASE ReaderStops
  BY <1>3, EventTypes DEF ReaderStops
<1>4. CASE RenewTick
  BY <1>4 DEF RenewTick
<1>5. CASE SilenceFires
  BY <1>5 DEF SilenceFires
<1>6. CASE Receive
  <2>1. out # <<>> /\ Head(out) \in Events
    BY <1>6 DEF Receive
  <2>2. out' \in Seq(Events) /\ Len(out') = Len(out) - 1
    BY <1>6, <2>1 DEF Receive
  <2>3. Head(out).kind = "raw" => Head(out).n \in 1..MaxPackets
    BY <2>1 DEF Events, Event, None, Control
  <2> QED
    BY <1>6, <2>2, <2>3 DEF Receive
<1>7. CASE Cancel
  BY <1>7 DEF Cancel
<1> QED
  BY <1>1, <1>2, <1>3, <1>4, <1>5, <1>6, <1>7

\* Every variable of the subscription stays in its domain: no channel is over
\* its capacity and no wait is outside its bounds.
THEOREM TypeCorrect == Spec => []TypeOK
<1>1. Init => TypeOK
  <2> SUFFICES ASSUME Init PROVE TypeOK
    OBVIOUS
  <2> USE SubscriberAssumption DEF Init
  <2>1. /\ zone \in 1..Zones /\ backoff \in BackoffMin..BackoffMax
        /\ arrived \in 0..MaxPackets /\ foreign \in 0..MaxForeign
        /\ received \in 0..MaxPackets /\ fails \in 0..MaxFails
    OBVIOUS
  <2>2. /\ pkts \in Seq(Packets) /\ Len(pkts) <= PktCap
        /\ out \in Seq(Events) /\ Len(out) <= OutCap
    OBVIOUS
  <2>3. event \in Events /\ held \in Packets
    BY EventTypes
  <2> QED
    BY <2>1, <2>2, <2>3 DEF TypeOK
<1>2. TypeOK /\ [Next]_vars => TypeOK'
  <2> SUFFICES ASSUME TypeOK, [Next]_vars PROVE TypeOK'
    OBVIOUS
  <2>1. CASE UNCHANGED vars
    BY <2>1 DEF TypeOK, vars, pump, timers, readerVars, caller
  <2>2. CASE Next
    BY <2>2, PumpType, OtherType DEF Next
  <2> QED
    BY <2>1, <2>2
<1> QED
  BY <1>1, <1>2, PTL DEF Spec

-----------------------------------------------------------------------------
(* The history the caller reads.                                           *)

\* What a caller that is registered may have read last.
Registered == last \in {"subscribe", "renew", "raw", "foreign"}

\* The inductive invariant behind Lifecycle and ShutdownLast: where the pump
\* is, against the last event it put in the channel.
HistoryInv ==
    /\ last = "shutdown" => pc \in {"drain", "closed"}
    /\ pc \in {"drain", "closed"} => last = "shutdown" \/ missed
    /\ (pc = "emit" /\ event.kind = "reconnect") \/ pc = "wait" => phase # "renew"
    /\ ~ctxDone =>
          /\ pc = "emit" => event.kind \in MayFollow(last)
          /\ pc = "select" => Registered
          /\ pc = "wait" => last = "reconnect"
          /\ pc = "subscribe" =>
                CASE phase = "renew" -> Registered
                  [] phase = "first" -> last \in {"none", "reconnect"}
                  [] phase = "recover" -> last = "reconnect"

\* Putting an event, or giving it up, keeps the invariant.
LEMMA EmitHistory ==
    ASSUME TypeOK, HistoryInv, EventPut \/ EventDropped \/ GraceOver
    PROVE  HistoryInv'
<1> USE DEF TypeOK, HistoryInv, AfterEmit
<1>0. event.kind \in Control \cup {"none", "raw", "foreign"}
  BY EventTypes
<1>1. ~ctxDone => event.kind # "none"
  <2>1. last \in Control \cup {"none", "raw", "foreign"}
    OBVIOUS
  <2> QED
    BY <2>1 DEF MayFollow, Control, EventPut, EventDropped, GraceOver
<1>2. CASE EventPut
  <2>1. last' = event.kind /\ ctxDone' = ctxDone /\ phase' = phase /\ pc' # "emit"
        /\ pc' # "subscribe" /\ pc' # "closed"
    BY <1>2 DEF EventPut
  <2>2. /\ pc' = "wait" <=> event.kind = "reconnect"
        /\ pc' = "drain" <=> event.kind = "shutdown"
    BY <1>2 DEF EventPut
  <2> QED
    BY <1>0, <1>1, <1>2, <2>1, <2>2 DEF EventPut, Registered, Control
<1>3. CASE EventDropped
  BY <1>3 DEF EventDropped
<1>4. CASE GraceOver
  BY <1>4 DEF GraceOver
<1> QED
  BY <1>2, <1>3, <1>4

\* Every other step keeps the invariant.
LEMMA HistoryStep ==
    ASSUME TypeOK, HistoryInv, Next
    PROVE  HistoryInv'
<1> USE DEF TypeOK, HistoryInv, Registered
<1>0. last \in Control \cup {"none", "raw", "foreign"}
  OBVIOUS
<1>1. CASE ZoneRegistered
  <2>1. /\ pc = "subscribe" /\ last' = last /\ missed' = missed
        /\ phase' = phase /\ ctxDone' = ctxDone
    BY <1>1 DEF ZoneRegistered, caller
  <2>2. CASE pc' = pc
    BY <2>1, <2>2
  <2>3. CASE /\ pc' = "emit"
             /\ event'.kind = IF phase = "renew" THEN "renew" ELSE "subscribe"
    <3>1. ~ctxDone => event'.kind \in MayFollow(last)
      BY <1>0, <2>1, <2>3 DEF MayFollow, Control
    <3> QED
      BY <2>1, <2>3, <3>1 DEF MayFollow
  <2>4. \/ pc' = pc
        \/ /\ pc' = "emit"
           /\ event'.kind = IF phase = "renew" THEN "renew" ELSE "subscribe"
    BY <1>1 DEF ZoneRegistered, Emit, Event
  <2> QED
    BY <2>2, <2>3, <2>4
<1>2. CASE RegistrationFailed
  BY <1>0, <1>2 DEF RegistrationFailed, Emit, Event, MayFollow, Control, caller
<1>3. CASE EventPut \/ EventDropped \/ GraceOver
  BY <1>3, EmitHistory
<1>4. CASE WaitOver
  BY <1>4 DEF WaitOver, Register, caller
<1>5. CASE CancelSeen
  BY <1>5 DEF CancelSeen, Emit, Event, caller
<1>6. CASE PacketTaken
  <2>1. last' = last /\ missed' = missed /\ phase' = phase /\ ctxDone' = ctxDone
    BY <1>6 DEF PacketTaken, caller
  <2>2. pc = "select"
    BY <1>6 DEF PacketTaken
  <2>3. CASE pc' = "select"
    BY <2>1, <2>2, <2>3
  <2>4. CASE pc' = "emit" /\ event'.kind \in {"shutdown", "raw", "foreign"}
    BY <1>0, <2>1, <2>2, <2>4 DEF MayFollow, Control
  <2>5. \/ pc' = "select"
        \/ pc' = "emit" /\ event'.kind \in {"shutdown", "raw", "foreign"}
    BY <1>6 DEF PacketTaken, Emit, Event
  <2> QED
    BY <2>3, <2>4, <2>5
<1>7. CASE RenewalDue
  BY <1>7 DEF RenewalDue, Register, caller
<1>8. CASE SilenceNoticed
  BY <1>0, <1>8 DEF SilenceNoticed, Emit, Event, MayFollow, Control, caller
<1>9. CASE Close
  BY <1>9 DEF Close, caller
<1>10. CASE Read \/ HandOver \/ ReaderStops \/ RenewTick \/ SilenceFires
  BY <1>10 DEF Read, HandOver, ReaderStops, RenewTick, SilenceFires, pump,
               caller, MayFollow
<1>11. CASE Receive
  BY <1>11 DEF Receive, pump, MayFollow
<1>12. CASE Cancel
  BY <1>12 DEF Cancel, pump, caller
<1> QED
  BY <1>1, <1>2, <1>3, <1>4, <1>5, <1>6, <1>7, <1>8, <1>9, <1>10, <1>11,
     <1>12 DEF Next

\* The pump is always where its last event says.
THEOREM History == Spec => []HistoryInv
<1>1. Init => HistoryInv
  BY DEF Init, HistoryInv
<1>2. TypeOK /\ HistoryInv /\ [Next]_vars => HistoryInv'
  <2> SUFFICES ASSUME TypeOK, HistoryInv, [Next]_vars PROVE HistoryInv'
    OBVIOUS
  <2>1. CASE UNCHANGED vars
    BY <2>1 DEF HistoryInv, Registered, MayFollow, vars, pump, caller
  <2>2. CASE Next
    BY <2>2, HistoryStep
  <2> QED
    BY <2>1, <2>2
<1> QED
  BY <1>1, <1>2, TypeCorrect, PTL DEF Spec

\* Only EventPut puts anything in the caller's channel.
LEMMA OnlyEventPut ==
    ASSUME TypeOK, [Next]_vars, out' # out, Len(out') >= Len(out)
    PROVE  EventPut
<1> USE DEF timers, readerVars, pump, caller
<1>1. ~UNCHANGED vars
  BY DEF vars
<1>2. ~Receive
  <2> SUFFICES ASSUME Receive PROVE FALSE
    OBVIOUS
  <2>1. out \in Seq(Events) /\ out # <<>> /\ out' = Tail(out)
    BY DEF Receive, TypeOK
  <2> QED
    BY <2>1
<1>3. ~(ZoneRegistered \/ RegistrationFailed \/ EventDropped \/ GraceOver
        \/ WaitOver \/ CancelSeen \/ PacketTaken)
  BY DEF ZoneRegistered, RegistrationFailed, EventDropped, GraceOver, WaitOver,
         CancelSeen, PacketTaken
<1>4. ~(RenewalDue \/ SilenceNoticed \/ Close \/ Read \/ HandOver \/ ReaderStops
        \/ RenewTick \/ SilenceFires \/ Cancel)
  BY DEF RenewalDue, SilenceNoticed, Close, Read, HandOver, ReaderStops,
         RenewTick, SilenceFires, Cancel
<1> QED
  BY <1>1, <1>2, <1>3, <1>4 DEF Next

\* Until the cancel the caller reads a well-formed history, and nothing ever
\* follows a shutdown.
THEOREM WellFormedHistory == Spec => Lifecycle
<1>1. TypeOK /\ HistoryInv /\ [Next]_vars =>
         [out' # out /\ Len(out') >= Len(out) =>
             /\ last # "shutdown"
             /\ ~ctxDone => last' \in MayFollow(last)]_vars
  <2> SUFFICES ASSUME TypeOK, HistoryInv, [Next]_vars,
                      out' # out, Len(out') >= Len(out)
               PROVE  /\ last # "shutdown"
                      /\ ~ctxDone => last' \in MayFollow(last)
    OBVIOUS
  <2>1. EventPut
    BY OnlyEventPut
  <2> QED
    BY <2>1 DEF EventPut, HistoryInv
<1> QED
  BY <1>1, TypeCorrect, History, PTL DEF Spec, Lifecycle

\* A closed channel ends with the shutdown, unless its caller left it full for
\* the whole grace period.
THEOREM EndsWithShutdown == Spec => []ShutdownLast
<1>1. HistoryInv => ShutdownLast
  BY DEF HistoryInv, ShutdownLast
<1> QED
  BY <1>1, History, PTL

-----------------------------------------------------------------------------
(* The waits of a row of failures.                                         *)

\* A set of numbers has a least one.
LEMMA Least ==
    ASSUME NEW T, T \subseteq Nat, T # {}
    PROVE  \E x \in T : \A y \in T : x <= y
<1> DEFINE R == OpToRel(<, Nat)
<1>1. IsWellFoundedOn(R, Nat)
  BY NatLessThanWellFounded, Zenon
<1>2. \A x, y \in Nat : <<y, x>> \in R <=> y < x
  BY Zenon DEF OpToRel
<1> HIDE DEF R
<1>3. PICK x \in T : \A y \in T : ~(<<y, x>> \in R)
  BY <1>1, WFMin
<1>4. \A y \in T : ~(y < x)
  BY <1>2, <1>3, Zenon
<1> QED
  BY <1>4

\* The first n doublings of BackoffMin.
Doublings(d, n) ==
    /\ d \in [0..n -> Nat]
    /\ d[0] = BackoffMin
    /\ \A i \in 1..n : d[i] = 2 * d[i - 1]

\* There are doublings of any length: a shortest one that fails has one before
\* it, which can be extended.
LEMMA DoublingsExist == \A n \in Nat : \E d : Doublings(d, n)
<1> SUFFICES ASSUME NEW n \in Nat, ~\E d : Doublings(d, n) PROVE FALSE
  OBVIOUS
<1> DEFINE T == {m \in Nat : ~\E d : Doublings(d, m)}
<1>1. PICK m \in T : \A k \in T : m <= k
  <2>1. n \in T /\ T \subseteq Nat
    OBVIOUS
  <2> HIDE DEF T
  <2> QED
    BY <2>1, Least
<1>2. m # 0
  <2> SUFFICES ASSUME m = 0 PROVE FALSE
    OBVIOUS
  <2>1. Doublings([i \in 0..0 |-> BackoffMin], 0)
    BY SubscriberAssumption DEF Doublings
  <2> QED
    BY <2>1
<1>3. PICK d : Doublings(d, m - 1)
  <2>1. m - 1 \in Nat /\ m - 1 \notin T
    BY <1>1, <1>2
  <2> QED
    BY <2>1
<1> DEFINE e == [i \in 0..m |-> IF i = m THEN 2 * d[m - 1] ELSE d[i]]
<1>4. Doublings(e, m)
  <2>1. m \in Nat /\ m - 1 \in Nat /\ d \in [0..(m - 1) -> Nat]
    BY <1>2, <1>3 DEF Doublings
  <2>2. \A i \in 0..m : i = m \/ (i \in 0..(m - 1) /\ i # m)
    BY <2>1
  <2>3. 2 * d[m - 1] \in Nat
    BY <2>1
  <2>4. e \in [0..m -> Nat]
    BY <2>1, <2>2, <2>3
  <2>5. e[0] = BackoffMin
    BY <1>2, <1>3, <2>1 DEF Doublings
  <2>6. ASSUME NEW i \in 1..m PROVE e[i] = 2 * e[i - 1]
    <3>1. i - 1 \in 0..m /\ i - 1 # m /\ e[i - 1] = d[i - 1] /\ i \in 0..m
      BY <2>1
    <3>2. CASE i = m
      BY <3>1, <3>2
    <3>3. CASE i # m
      <4>1. i \in 1..(m - 1) /\ e[i] = d[i]
        BY <2>1, <3>1, <3>3
      <4> QED
        BY <1>3, <3>1, <4>1 DEF Doublings
    <3> QED
      BY <3>2, <3>3
  <2> HIDE DEF e
  <2> QED
    BY <2>4, <2>5, <2>6 DEF Doublings
<1> QED
  BY <1>4

\* They do not depend on how far they go.
LEMMA DoublingsAgree ==
    ASSUME NEW n \in Nat, NEW m \in Nat, n <= m, NEW d, NEW e,
           Doublings(d, n), Doublings(e, m)
    PROVE  \A i \in 0..n : d[i] = e[i]
<1> SUFFICES ASSUME NEW j \in 0..n, d[j] # e[j] PROVE FALSE
  OBVIOUS
<1> DEFINE T == {i \in 0..n : d[i] # e[i]}
<1>1. PICK i \in T : \A k \in T : i <= k
  <2>1. j \in T /\ T \subseteq Nat
    OBVIOUS
  <2> HIDE DEF T
  <2> QED
    BY <2>1, Least
<1>2. i # 0
  BY <1>1 DEF Doublings
<1>3. i - 1 \in 0..n /\ i \in 1..n /\ i \in 1..m
  BY <1>1, <1>2
<1>4. d[i - 1] = e[i - 1]
  BY <1>1, <1>3
<1> QED
  BY <1>1, <1>3, <1>4 DEF Doublings

\* Doubled is what it is defined to be: a function with its equation exists.
LEMMA DoubledIs ==
    \A n \in Nat :
        Doubled[n] = IF n = 0 THEN BackoffMin ELSE 2 * Doubled[n - 1]
<1> DEFINE Row(n) == CHOOSE d : Doublings(d, n)
           g == [n \in Nat |-> Row(n)[n]]
           Twice(h) == [n \in Nat |-> IF n = 0 THEN BackoffMin ELSE 2 * h[n - 1]]
<1>1. \A n \in Nat : Doublings(Row(n), n)
  BY DoublingsExist
<1> HIDE DEF Row
<1>2. ASSUME NEW n \in Nat
      PROVE  g[n] = IF n = 0 THEN BackoffMin ELSE 2 * g[n - 1]
  <2>1. CASE n = 0
    BY <1>1, <2>1 DEF Doublings
  <2>2. CASE n # 0
    <3>1. n - 1 \in Nat /\ n - 1 <= n /\ n \in 1..n /\ n - 1 \in 0..(n - 1)
      BY <2>2
    <3>2. Row(n)[n] = 2 * Row(n)[n - 1]
      BY <1>1, <3>1 DEF Doublings
    <3>3. Row(n - 1)[n - 1] = Row(n)[n - 1]
      BY <1>1, <3>1, DoublingsAgree
    <3>4. g[n] = Row(n)[n] /\ g[n - 1] = Row(n - 1)[n - 1]
      BY <3>1
    <3> QED
      BY <2>2, <3>2, <3>3, <3>4
  <2> QED
    BY <2>1, <2>2
<1>3. g = Twice(g)
  <2>1. \A n \in Nat : g[n] = Twice(g)[n]
    BY <1>2
  <2>2. g \in [Nat -> {g[n] : n \in Nat}] /\ DOMAIN g = Nat
    OBVIOUS
  <2> QED
    BY <1>2
<1>4. Doubled = CHOOSE h : h = Twice(h)
  BY DEF Doubled
<1>5. Doubled = Twice(Doubled)
  BY <1>3, <1>4
<1>6. \A n \in Nat : Twice(Doubled)[n] =
                       IF n = 0 THEN BackoffMin ELSE 2 * Doubled[n - 1]
  OBVIOUS
<1> HIDE DEF Twice
<1> QED
  BY <1>5, <1>6

\* A doubled backoff is a positive number.
LEMMA DoubledType == \A n \in Nat : Doubled[n] \in Nat \ {0}
<1> SUFFICES ASSUME NEW n \in Nat, Doubled[n] \notin Nat \ {0} PROVE FALSE
  OBVIOUS
<1> DEFINE T == {m \in Nat : Doubled[m] \notin Nat \ {0}}
<1>1. PICK m \in T : \A k \in T : m <= k
  <2>1. n \in T /\ T \subseteq Nat
    OBVIOUS
  <2> HIDE DEF T
  <2> QED
    BY <2>1, Least
<1>2. m # 0
  BY <1>1, DoubledIs, SubscriberAssumption
<1>3. m - 1 \in Nat /\ m - 1 \notin T
  BY <1>1, <1>2
<1>4. Doubled[m] = 2 * Doubled[m - 1] /\ Doubled[m - 1] \in Nat \ {0}
  BY <1>2, <1>3, DoubledIs
<1>5. 2 * Doubled[m - 1] \in Nat \ {0}
  BY <1>4
<1> QED
  BY <1>1, <1>4, <1>5

\* The first wait is BackoffMin, and NextBackoff leads from each to the next.
LEMMA Waits ==
    /\ Wait(1) = BackoffMin
    /\ \A n \in Nat \ {0} : NextBackoff(Wait(n)) = Wait(n + 1)
<1>1. Wait(1) = BackoffMin
  <2>1. Doubled[0] = BackoffMin
    BY DoubledIs
  <2>2. 1 - 1 = 0
    OBVIOUS
  <2> QED
    BY <2>1, <2>2, SubscriberAssumption DEF Wait
<1>2. ASSUME NEW n \in Nat \ {0} PROVE NextBackoff(Wait(n)) = Wait(n + 1)
  <2>1. PICK k \in Nat : k = n - 1 /\ (n + 1) - 1 = n
    OBVIOUS
  <2>2. PICK x \in Nat \ {0}, y \in Nat \ {0} :
               x = Doubled[k] /\ y = Doubled[n] /\ y = 2 * x
    BY <2>1, DoubledIs, DoubledType
  <2>3. /\ Wait(n) = IF x > BackoffMax THEN BackoffMax ELSE x
        /\ Wait(n + 1) = IF y > BackoffMax THEN BackoffMax ELSE y
    BY <2>1, <2>2 DEF Wait
  <2> QED
    BY <2>2, <2>3, SubscriberAssumption DEF NextBackoff
<1> QED
  BY <1>1, <1>2

\* Once the count of failures has ended, so has the growth of the wait.
LEMMA WaitSaturates ==
    ASSUME NEW n \in 0..MaxFails
    PROVE  OneMore(n) \in Nat \ {0} /\ Wait(OneMore(n)) = Wait(n + 1)
<1>1. CASE n < MaxFails
  BY <1>1, SubscriberAssumption DEF OneMore
<1>2. CASE n = MaxFails
  <2>1. n \in Nat \ {0} /\ OneMore(n) = n /\ Doubled[n - 1] >= BackoffMax
    BY <1>2, SubscriberAssumption DEF OneMore
  <2>2. n - 1 \in Nat /\ Doubled[n - 1] \in Nat /\ BackoffMax \in Nat \ {0}
    BY <2>1, DoubledType, SubscriberAssumption
  <2>3. Wait(n) = BackoffMax
    BY <2>1, <2>2 DEF Wait
  <2>4. NextBackoff(BackoffMax) = BackoffMax
    BY <2>2 DEF NextBackoff
  <2> QED
    BY <2>1, <2>3, <2>4, Waits
<1> QED
  BY <1>1, <1>2, SubscriberAssumption

\* The inductive invariant: the backoff is the wait of the failure there was,
\* or, while the first registration is tried again, of the one there may be.
BackoffInv ==
    /\ pc = "wait" \/ (pc = "emit" /\ event.kind = "reconnect") =>
          phase # "renew" /\ fails > 0 /\ backoff = Wait(fails)
    /\ pc = "select" \/ (pc = "emit" /\ event.kind \notin {"reconnect", "shutdown"}) =>
          fails = 0 /\ backoff = BackoffMin
    /\ pc = "subscribe" =>
          /\ phase = "first" => backoff = Wait(fails + 1)
          /\ phase = "renew" => fails = 0 /\ backoff = BackoffMin
          /\ phase = "recover" => fails > 0 /\ backoff = Wait(fails)

\* Every step keeps it.
LEMMA BackoffStep ==
    ASSUME TypeOK, BackoffInv, [Next]_vars
    PROVE  BackoffInv'
<1>1. /\ fails \in 0..MaxFails /\ fails \in Nat
      /\ phase \in {"first", "renew", "recover"}
  BY SubscriberAssumption DEF TypeOK
<1>2. ASSUME UNCHANGED <<pc, phase, event, backoff, fails>> PROVE BackoffInv'
  BY <1>2 DEF BackoffInv, Wait
<1>3. CASE ZoneRegistered
  <2>1. pc = "subscribe" /\ phase' = phase
    BY <1>3 DEF ZoneRegistered
  <2>2. CASE UNCHANGED <<pc, event, backoff, fails>>
    BY <1>2, <2>1, <2>2
  <2>3. CASE /\ pc' = "emit" /\ event'.kind \in {"renew", "subscribe"} /\ fails' = 0
             /\ backoff' = IF phase = "renew" THEN backoff ELSE BackoffMin
    <3>1. backoff' = BackoffMin
      BY <2>1, <2>3 DEF BackoffInv
    <3> QED
      BY <2>3, <3>1 DEF BackoffInv
  <2> QED
    BY <1>3, <2>2, <2>3 DEF ZoneRegistered, Emit, Event
<1>4. CASE RegistrationFailed
  <2>1. /\ pc = "subscribe" /\ pc' = "emit" /\ event'.kind = "reconnect"
        /\ fails' = OneMore(fails)
        /\ backoff' = IF phase = "recover" THEN NextBackoff(backoff) ELSE backoff
        /\ phase' = IF phase = "renew" THEN "recover" ELSE phase
    BY <1>4 DEF RegistrationFailed, Emit, Event
  <2>2. fails' > 0 /\ phase' # "renew"
    BY <1>1, <2>1, WaitSaturates
  <2>3. backoff' = Wait(fails + 1)
    <3>1. CASE phase = "first"
      BY <2>1, <3>1 DEF BackoffInv
    <3>2. CASE phase = "renew"
      <4>1. fails = 0 /\ backoff' = BackoffMin /\ fails + 1 = 1
        BY <2>1, <3>2 DEF BackoffInv
      <4> QED
        BY <4>1, Waits
    <3>3. CASE phase = "recover"
      <4>1. fails \in Nat \ {0} /\ backoff = Wait(fails)
        BY <1>1, <2>1, <3>3 DEF BackoffInv
      <4> QED
        BY <2>1, <3>3, <4>1, Waits
    <3> QED
      BY <1>1, <3>1, <3>2, <3>3
  <2>4. Wait(fails + 1) = Wait(fails)'
    <3>1. Wait(fails)' = Wait(OneMore(fails))
      BY <2>1 DEF Wait
    <3> QED
      BY <1>1, <3>1, WaitSaturates
  <2> QED
    BY <2>1, <2>2, <2>3, <2>4 DEF BackoffInv
<1>5. CASE EventPut \/ EventDropped \/ GraceOver
  <2>1. /\ pc = "emit" /\ UNCHANGED <<phase, backoff, fails>>
        /\ pc' = CASE event.kind = "reconnect" -> "wait"
                   [] event.kind = "shutdown" -> "drain"
                   [] OTHER -> "select"
    BY <1>5 DEF EventPut, EventDropped, GraceOver, AfterEmit
  <2>2. Wait(fails)' = Wait(fails)
    BY <2>1 DEF Wait
  <2> QED
    BY <2>1, <2>2 DEF BackoffInv
<1>6. CASE WaitOver
  <2>1. /\ pc = "wait" /\ pc' = "subscribe" /\ phase' = phase /\ fails' = fails
        /\ backoff' = IF phase = "first" THEN NextBackoff(backoff) ELSE backoff
    BY <1>6 DEF WaitOver, Register
  <2>2. fails \in Nat \ {0} /\ backoff = Wait(fails) /\ phase # "renew"
    BY <1>1, <2>1 DEF BackoffInv
  <2>3. Wait(fails)' = Wait(fails) /\ Wait(fails + 1)' = Wait(fails + 1)
    BY <2>1 DEF Wait
  <2> QED
    BY <1>1, <2>1, <2>2, <2>3, Waits DEF BackoffInv
<1>7. CASE CancelSeen
  BY <1>7 DEF CancelSeen, Emit, Event, BackoffInv
<1>8. CASE PacketTaken
  <2>1. /\ pc = "select" /\ UNCHANGED <<phase, backoff, fails>>
        /\ \/ UNCHANGED pc
           \/ pc' = "emit" /\ event'.kind \in {"shutdown", "raw", "foreign"}
    BY <1>8 DEF PacketTaken, Emit, Event
  <2>2. fails' = 0 /\ backoff' = BackoffMin
    BY <2>1 DEF BackoffInv
  <2> QED
    BY <2>1, <2>2 DEF BackoffInv
<1>9. CASE RenewalDue
  BY <1>9 DEF RenewalDue, Register, BackoffInv
<1>10. CASE SilenceNoticed
  <2>1. /\ pc = "select" /\ pc' = "emit" /\ event'.kind = "reconnect"
        /\ phase' = "recover"
        /\ fails' = 1 /\ backoff' = backoff
    BY <1>10 DEF SilenceNoticed, Emit, Event
  <2>2. backoff' = Wait(1)
    BY <2>1, Waits DEF BackoffInv
  <2>3. Wait(fails)' = Wait(1)
    BY <2>1 DEF Wait
  <2> QED
    BY <2>1, <2>2, <2>3 DEF BackoffInv
<1>11. CASE Close
  BY <1>11 DEF Close, BackoffInv
<1>12. CASE \/ Read \/ HandOver \/ ReaderStops \/ RenewTick \/ SilenceFires \/ Receive
            \/ Cancel \/ UNCHANGED vars
  BY <1>2, <1>12 DEF Read, HandOver, ReaderStops, RenewTick, SilenceFires,
     Receive, Cancel,
                     vars, pump
<1> QED
  BY <1>3, <1>4, <1>5, <1>6, <1>7, <1>8, <1>9, <1>10, <1>11, <1>12 DEF Next

\* Every wait is the one its place in the row of failures asks for.
THEOREM WaitsDouble == Spec => []BackoffFollowsFailures
<1>1. Init => BackoffInv
  <2> SUFFICES ASSUME Init PROVE BackoffInv
    OBVIOUS
  <2>1. pc = "subscribe" /\ phase = "first" /\ backoff = BackoffMin /\ fails + 1 = 1
    BY DEF Init
  <2> QED
    BY <2>1, Waits DEF BackoffInv
<1>2. TypeOK /\ BackoffInv /\ [Next]_vars => BackoffInv'
  BY BackoffStep
<1>3. BackoffInv => BackoffFollowsFailures
  BY DEF BackoffInv, BackoffFollowsFailures
<1> QED
  BY <1>1, <1>2, <1>3, TypeCorrect, PTL DEF Spec

-----------------------------------------------------------------------------
(* The delivery of packets.                                                *)

\* The packets of the receiver in a channel, their numbers, the number of what
\* is in a single place, and the order of numbers.
Raws(s) == {i \in 1..Len(s) : IsRaw(s[i])}
Numbers(s) == {s[i].n : i \in Raws(s)}
Number(e) == IF IsRaw(e) THEN {e.n} ELSE {}
Rising(s) == \A i, j \in Raws(s) : i < j => s[i].n < s[j].n
Below(S, T) == \A x \in S, y \in T : x < y

\* What a channel or a place may hold.
Places == Packets \cup Events

\* What is put in a channel adds its number, and keeps the order if it is the
\* greatest.
LEMMA NumbersAppend ==
    ASSUME NEW S, NEW s \in Seq(S), NEW e \in S
    PROVE  /\ Numbers(Append(s, e)) = Numbers(s) \cup Number(e)
           /\ Rising(s) /\ Below(Numbers(s), Number(e)) => Rising(Append(s, e))
<1> DEFINE t == Append(s, e)
<1>1. Len(s) \in Nat /\ Len(t) = Len(s) + 1
  OBVIOUS
<1>2. \A i \in 1..Len(s) : t[i] = s[i]
  OBVIOUS
<1>3. t[Len(s) + 1] = e
  OBVIOUS
<1>4. Raws(t) = Raws(s) \cup (IF IsRaw(e) THEN {Len(s) + 1} ELSE {})
  <2>1. 1..Len(t) = (1..Len(s)) \cup {Len(s) + 1}
    BY <1>1
  <2>2. Len(s) + 1 \notin 1..Len(s)
    BY <1>1
  <2> HIDE DEF t
  <2> QED
    BY <2>1, <2>2, <1>2, <1>3 DEF Raws, IsRaw
<1>5. Numbers(t) = Numbers(s) \cup Number(e)
  <2>1. \A i \in Raws(s) : t[i] = s[i]
    BY <1>2 DEF Raws
  <2> HIDE DEF t
  <2>2. CASE IsRaw(e)
    BY <1>4, <2>1, <2>2, <1>3 DEF Numbers, Number
  <2>3. CASE ~IsRaw(e)
    BY <1>4, <2>1, <2>3 DEF Numbers, Number
  <2> QED
    BY <2>2, <2>3
<1>6. ASSUME Rising(s), Below(Numbers(s), Number(e))
      PROVE  Rising(t)
  <2> SUFFICES ASSUME NEW i \in Raws(t), NEW j \in Raws(t), i < j
               PROVE  t[i].n < t[j].n
    BY DEF Rising
  <2>1. i \in 1..Len(t) /\ j \in 1..Len(t)
    BY DEF Raws
  <2>2. i # Len(s) + 1
    BY <2>1, <1>1
  <2> HIDE DEF t
  <2>3. i \in Raws(s) /\ t[i] = s[i]
    BY <2>2, <1>4, <1>2 DEF Raws
  <2>4. CASE j \in Raws(s)
    BY <2>3, <2>4, <1>2, <1>6 DEF Rising, Raws
  <2>5. CASE j \notin Raws(s)
    <3>1. IsRaw(e) /\ t[j] = e
      BY <2>5, <1>4, <1>3
    <3> QED
      BY <3>1, <2>3, <1>6 DEF Below, Numbers, Number
  <2> QED
    BY <2>4, <2>5
<1> QED
  BY <1>5, <1>6

\* What is taken from a channel leaves the others, and is the least of an
\* ordered one.
LEMMA NumbersTail ==
    ASSUME NEW S, NEW s \in Seq(S), s # <<>>
    PROVE  /\ Numbers(s) = Number(Head(s)) \cup Numbers(Tail(s))
           /\ Rising(s) => Rising(Tail(s))
           /\ Rising(s) => Below(Number(Head(s)), Numbers(Tail(s)))
<1> DEFINE t == Tail(s)
           h == Head(s)
<1>1. Len(s) \in Int /\ Len(t) = Len(s) - 1 /\ Len(s) >= 1
  OBVIOUS
<1>2. \A i \in 1..Len(t) : t[i] = s[i + 1]
  OBVIOUS
<1>3. s[1] = h
  OBVIOUS
<1>4. \A i \in Raws(t) : i + 1 \in Raws(s)
  <2> SUFFICES ASSUME NEW i \in Raws(t)
               PROVE  i + 1 \in Raws(s)
    OBVIOUS
  <2>1. i \in 1..Len(t) /\ IsRaw(t[i])
    BY DEF Raws
  <2>2. i + 1 \in 1..Len(s)
    BY <2>1, <1>1
  <2> QED
    BY <2>1, <2>2, <1>2 DEF Raws
<1>5. \A i \in Raws(s) : i = 1 \/ (\E k \in Raws(t) : i = k + 1)
  <2> SUFFICES ASSUME NEW i \in Raws(s), i # 1
               PROVE  \E k \in Raws(t) : i = k + 1
    OBVIOUS
  <2>1. i \in 1..Len(s) /\ IsRaw(s[i])
    BY DEF Raws
  <2> HIDE DEF t
  <2>2. PICK k \in 1..Len(t) : i = k + 1
    <3>1. i - 1 \in 1..Len(t) /\ i = (i - 1) + 1
      BY <2>1, <1>1
    <3> QED
      BY <3>1
  <2> QED
    BY <2>1, <2>2, <1>2 DEF Raws
<1>6. 1 \in Raws(s) <=> IsRaw(h)
  BY <1>1, <1>3 DEF Raws
<1>7. Numbers(s) = Number(h) \cup Numbers(t)
  <2> HIDE DEF t, h
  <2>1. \A k \in Raws(t) : t[k] = s[k + 1]
    BY <1>2 DEF Raws
  <2>2. Numbers(s) \subseteq Number(h) \cup Numbers(t)
    <3> SUFFICES ASSUME NEW i \in Raws(s)
                 PROVE  s[i].n \in Number(h) \cup Numbers(t)
      BY DEF Numbers
    <3>1. CASE i = 1
      BY <3>1, <1>6, <1>3 DEF Number
    <3>2. CASE \E k \in Raws(t) : i = k + 1
      BY <3>2, <2>1 DEF Numbers
    <3> QED
      BY <3>1, <3>2, <1>5
  <2>3. Number(h) \subseteq Numbers(s)
    BY <1>6, <1>3 DEF Number, Numbers
  <2>4. Numbers(t) \subseteq Numbers(s)
    BY <1>4, <2>1 DEF Numbers
  <2> QED
    BY <2>2, <2>3, <2>4
<1>8. ASSUME Rising(s)
      PROVE  Rising(t) /\ Below(Number(h), Numbers(t))
  <2> HIDE DEF t, h
  <2>1. \A k \in Raws(t) : t[k] = s[k + 1] /\ k + 1 \in Raws(s) /\ k \in Int /\ k >= 1
    BY <1>2, <1>4, <1>1 DEF Raws
  <2>2. Rising(t)
    <3> SUFFICES ASSUME NEW i \in Raws(t), NEW j \in Raws(t), i < j
                 PROVE  t[i].n < t[j].n
      BY DEF Rising
    <3>1. i + 1 < j + 1
      BY <2>1
    <3> QED
      BY <3>1, <2>1, <1>8 DEF Rising
  <2>3. Below(Number(h), Numbers(t))
    <3> SUFFICES ASSUME NEW k \in Raws(t), IsRaw(h)
                 PROVE  h.n < t[k].n
      BY DEF Below, Number, Numbers
    <3>1. 1 \in Raws(s) /\ 1 < k + 1
      BY <1>6, <2>1
    <3> QED
      BY <3>1, <2>1, <1>8, <1>3 DEF Rising
  <2> QED
    BY <2>2, <2>3
<1> QED
  BY <1>7, <1>8

\* A place that holds no packet of the receiver has no number, and an empty
\* channel has none.
LEMMA NumberOf ==
    /\ Number(None) = {} /\ Number(Event("error")) = {}
    /\ Number(Event("foreign")) = {}
    /\ \A k \in Control : Number(Event(k)) = {}
    /\ \A n : Number([kind |-> "raw", n |-> n]) = {n}
    /\ Numbers(<<>>) = {} /\ Rising(<<>>)
<1>1. Raws(<<>>) = {}
  BY DEF Raws
<1> QED
  BY <1>1 DEF Number, Numbers, Rising, IsRaw, Event, None, Control

\* The numbers between the last packet received and the last one that arrived
\* are all on their way, the older the closer to the caller.
Flow ==
    /\ received <= arrived
    /\ Numbers(out) \cup Number(event) \cup Numbers(pkts) \cup Number(held)
         = (received + 1)..arrived
    /\ Rising(out) /\ Rising(pkts)
    /\ Below(Numbers(out), Number(event))
    /\ Below(Numbers(out) \cup Number(event), Numbers(pkts))
    /\ Below(Numbers(out) \cup Number(event) \cup Numbers(pkts), Number(held))

\* Until the cancel; a place out of use is empty.
FlowInv ==
    /\ pc # "emit" => event = None
    /\ reader # "sending" => held = None
    /\ ~ctxDone => Flow

\* A step that moves no packet keeps it.
LEMMA FlowKept ==
    ASSUME FlowInv,
           ~ctxDone' => ~ctxDone,
           UNCHANGED <<received, arrived, pkts, held, reader, out>>,
           pc' # "emit" => event' = None,
           Number(event') = Number(event)
    PROVE  FlowInv'
BY DEF FlowInv, Flow

\* The pump keeps it: it passes a packet on, or has none.
LEMMA PumpFlow ==
    ASSUME TypeOK, FlowInv,
           \/ ZoneRegistered \/ RegistrationFailed
           \/ EventPut \/ EventDropped \/ GraceOver
           \/ WaitOver \/ CancelSeen \/ PacketTaken \/ RenewalDue
           \/ SilenceNoticed \/ Close
    PROVE  FlowInv'
<1> USE DEF caller, timers, readerVars
<1>1. ASSUME NEW k \in Control, pc # "emit", Emit(Event(k)),
             UNCHANGED <<ctxDone, received, arrived, pkts, held, reader, out>>
      PROVE  FlowInv'
  <2>1. Number(event') = {} /\ Number(event) = {}
    BY <1>1, NumberOf DEF Emit, FlowInv
  <2> QED
    BY <1>1, <2>1, FlowKept DEF Emit
<1>2. ASSUME event = None, event' = None,
             UNCHANGED <<ctxDone, received, arrived, pkts, held, reader, out>>
      PROVE  FlowInv'
  BY <1>2, FlowKept
<1>3. CASE ZoneRegistered
  <2>1. pc = "subscribe" /\ UNCHANGED <<ctxDone, received, arrived, pkts,
                                        held, reader, out>>
    BY <1>3 DEF ZoneRegistered
  <2>2. event = None
    BY <2>1 DEF FlowInv
  <2>3. event' = event \/ Emit(Event("renew")) \/ Emit(Event("subscribe"))
    BY <1>3 DEF ZoneRegistered
  <2> QED
    BY <1>1, <1>2, <2>1, <2>2, <2>3 DEF Control
<1>4. CASE RegistrationFailed
  BY <1>1, <1>4 DEF RegistrationFailed, Control
<1>5. CASE EventPut
  <2>1. /\ out' = Append(out, event) /\ event' = None
        /\ out \in Seq(Events) /\ event \in Events
        /\ UNCHANGED <<ctxDone, received, arrived, pkts, held, reader>>
    BY <1>5 DEF EventPut, AfterEmit, TypeOK
  <2>2. /\ Numbers(out') = Numbers(out) \cup Number(event)
        /\ Rising(out) /\ Below(Numbers(out), Number(event)) => Rising(out')
        /\ Number(event') = {}
    BY <2>1, NumbersAppend, NumberOf
  <2>3. Flow => Flow'
    BY <2>1, <2>2 DEF Flow, Below
  <2> QED
    BY <2>1, <2>3 DEF FlowInv
<1>6. CASE EventDropped
  <2>1. ctxDone' /\ event' = None /\ UNCHANGED <<reader, held>>
    BY <1>6 DEF EventDropped, AfterEmit
  <2> QED
    BY <2>1 DEF FlowInv
<1>7. CASE GraceOver
  <2>1. event.kind = "shutdown" /\ event' = None
        /\ UNCHANGED <<ctxDone, received, arrived, pkts, held, reader, out>>
    BY <1>7 DEF GraceOver, AfterEmit
  <2>2. Number(event) = {} /\ Number(event') = {}
    BY <2>1, NumberOf DEF Number, IsRaw
  <2> QED
    BY <2>1, <2>2, FlowKept
<1>8. CASE WaitOver \/ RenewalDue \/ Close
  <2>1. pc # "emit" /\ event' = event
        /\ UNCHANGED <<ctxDone, received, arrived, pkts, held, reader, out>>
    BY <1>8 DEF WaitOver, RenewalDue, Close
  <2> QED
    BY <1>2, <2>1 DEF FlowInv
<1>9. CASE CancelSeen
  BY <1>1, <1>9 DEF CancelSeen, Control
<1>10. CASE PacketTaken
  <2> DEFINE p == Head(pkts)
  <2>1. /\ pc = "select" /\ pkts # <<>> /\ pkts' = Tail(pkts) /\ pkts \in Seq(Packets)
        /\ UNCHANGED <<ctxDone, received, arrived, held, reader, out>>
    BY <1>10 DEF PacketTaken, TypeOK
  <2>2. /\ Numbers(pkts) = Number(p) \cup Numbers(pkts')
        /\ Rising(pkts) => Rising(pkts') /\ Below(Number(p), Numbers(pkts'))
    BY <2>1, NumbersTail
  <2>3. event = None /\ Number(event) = {}
    BY <2>1, NumberOf DEF FlowInv
  <2>4. Number(event') = Number(p) /\ (pc' # "emit" => event' = None)
    <3>1. CASE p.kind = "error" /\ Emit(Event("shutdown"))
      BY <3>1, NumberOf DEF Emit, Number, IsRaw, Control
    <3>2. CASE p.kind = "foreign" /\ UNCHANGED <<pc, event>>
      BY <3>2, <2>3 DEF Number, IsRaw
    <3>3. CASE Emit(p)
      BY <3>3 DEF Emit
    <3> QED
      BY <1>10, <3>1, <3>2, <3>3 DEF PacketTaken
  <2>5. Flow => Flow'
    <3> HIDE DEF p
    <3> QED
      BY <2>1, <2>2, <2>3, <2>4 DEF Flow, Below
  <2> QED
    BY <2>1, <2>4, <2>5 DEF FlowInv
<1>11. CASE SilenceNoticed
  BY <1>1, <1>11 DEF SilenceNoticed, Control
<1> QED
  BY <1>3, <1>4, <1>5, <1>6, <1>7, <1>8, <1>9, <1>10, <1>11

\* So do the reader, the timers, the caller and the user.
LEMMA OtherFlow ==
    ASSUME TypeOK, FlowInv,
           \/ Read \/ HandOver \/ ReaderStops
           \/ RenewTick \/ SilenceFires \/ Receive \/ Cancel
           \/ UNCHANGED vars
    PROVE  FlowInv'
<1> USE DEF pump, caller, timers, readerVars
<1>1. CASE Read
  <2>1. /\ reader = "reading" /\ reader' = "sending" /\ held = None
        /\ UNCHANGED <<pc, event, ctxDone, received, pkts, out>>
    BY <1>1 DEF Read, Holds, FlowInv
  <2>2. Number(held) = {}
    BY <2>1, NumberOf
  <2>3. \/ arrived' = arrived + 1 /\ Number(held') = {arrived + 1}
        \/ arrived' = arrived /\ Number(held') = {}
    BY <1>1, NumberOf DEF Read, Holds
  <2>4. arrived \in Nat /\ received \in Nat
    BY DEF TypeOK
  <2>5. Flow => Flow'
    <3>1. CASE arrived' = arrived /\ Number(held') = {}
      BY <3>1, <2>1, <2>2 DEF Flow
    <3>2. CASE arrived' = arrived + 1 /\ Number(held') = {arrived + 1}
      <4>1. SUFFICES ASSUME Flow PROVE Flow'
        OBVIOUS
      <4>2. /\ received' <= arrived'
            /\ (received + 1)..(arrived + 1)
                 = ((received + 1)..arrived) \cup {arrived + 1}
        BY <2>1, <2>4, <3>2, <4>1 DEF Flow
      <4>3. \A x \in (received + 1)..arrived : x < arrived + 1
        BY <2>4
      <4> QED
        BY <2>1, <2>2, <3>2, <4>1, <4>2, <4>3 DEF Flow, Below
    <3> QED
      BY <2>3, <3>1, <3>2
  <2> QED
    BY <2>1, <2>5 DEF FlowInv
<1>2. CASE HandOver
  <2>1. /\ pkts' = Append(pkts, held) /\ held' = None
        /\ pkts \in Seq(Packets) /\ held \in Packets
        /\ UNCHANGED <<pc, event, ctxDone, received, arrived, out>>
    BY <1>2 DEF HandOver, TypeOK
  <2>2. /\ Numbers(pkts') = Numbers(pkts) \cup Number(held)
        /\ Rising(pkts) /\ Below(Numbers(pkts), Number(held)) => Rising(pkts')
        /\ Number(held') = {}
    BY <2>1, NumbersAppend, NumberOf
  <2>3. Flow => Flow'
    BY <2>1, <2>2 DEF Flow, Below
  <2> QED
    BY <2>1, <2>3 DEF FlowInv
<1>3. CASE ReaderStops
  BY <1>3 DEF ReaderStops, FlowInv
<1>4. CASE RenewTick \/ SilenceFires \/ Cancel \/ UNCHANGED vars
  <2>1. UNCHANGED <<pc, event, received, arrived, pkts, held, reader, out>>
    BY <1>4 DEF RenewTick, SilenceFires, Cancel, vars
  <2>2. ctxDone' = ctxDone \/ ~ctxDone
    BY <1>4, Zenon DEF RenewTick, SilenceFires, Cancel, vars
  <2>3. Flow => Flow'
    BY <2>1 DEF Flow
  <2> QED
    BY <2>1, <2>2, <2>3 DEF FlowInv
<1>5. CASE Receive
  <2> DEFINE e == Head(out)
  <2>1. /\ out # <<>> /\ out' = Tail(out) /\ out \in Seq(Events)
        /\ received' = IF IsRaw(e) THEN e.n ELSE received
        /\ UNCHANGED <<pc, event, ctxDone, arrived, pkts, held, reader>>
    BY <1>5 DEF Receive, TypeOK, IsRaw
  <2>2. /\ Numbers(out) = Number(e) \cup Numbers(out')
        /\ Rising(out) => Rising(out') /\ Below(Number(e), Numbers(out'))
    BY <2>1, NumbersTail
  <2>3. arrived \in Nat /\ received \in Nat
    BY DEF TypeOK
  <2>4. ASSUME Flow PROVE Flow'
    <3> HIDE DEF e
    <3> DEFINE Later == Numbers(out') \cup Number(event)
                          \cup Numbers(pkts) \cup Number(held)
    <3>1. /\ Number(e) \cup Later = (received + 1)..arrived
          /\ \A x \in Number(e), y \in Later : x < y
      BY <2>2, <2>4 DEF Flow, Below
    <3>2. received' <= arrived /\ Later = (received' + 1)..arrived
      <4>1. CASE ~IsRaw(e)
        BY <2>1, <2>4, <3>1, <4>1 DEF Number, Flow
      <4>2. CASE IsRaw(e)
        <5> HIDE DEF Later
        <5>1. Number(e) = {e.n} /\ received' = e.n
          BY <2>1, <4>2 DEF Number
        <5>2. e.n \in (received + 1)..arrived
          BY <3>1, <5>1
        <5>3. e.n = received + 1
          <6> SUFFICES ASSUME e.n # received + 1 PROVE FALSE
            OBVIOUS
          <6>1. received + 1 \in (received + 1)..arrived
            BY <2>3, <5>2
          <6>2. received + 1 \in Later
            BY <3>1, <5>1, <6>1
          <6> QED
            BY <2>3, <3>1, <5>1, <5>2, <6>2
        <5>4. \A y \in Later : y # e.n
          BY <2>3, <3>1, <5>1, <5>2
        <5>5. (received + 1)..arrived = {received + 1} \cup ((received + 2)..arrived)
          BY <2>3, <5>2, <5>3
        <5>6. received + 1 \notin (received + 2)..arrived /\ received' + 1 = received + 2
          BY <2>3, <5>1, <5>3
        <5>7. Later = ((received + 1)..arrived) \ {received + 1}
          BY <3>1, <5>1, <5>3, <5>4
        <5>8. Later = (received' + 1)..arrived
          BY <5>5, <5>6, <5>7
        <5> QED
          BY <2>3, <5>1, <5>2, <5>8
      <4> QED
        BY <4>1, <4>2
    <3> QED
      BY <2>1, <2>2, <2>4, <3>2 DEF Flow, Below
  <2> QED
    BY <2>1, <2>4 DEF FlowInv
<1> QED
  BY <1>1, <1>2, <1>3, <1>4, <1>5

\* One channel behind another.
LEMMA NumbersConcat ==
    ASSUME NEW S, NEW s \in Seq(S), NEW t \in Seq(S)
    PROVE  /\ Numbers(s \o t) = Numbers(s) \cup Numbers(t)
           /\ Rising(s) /\ Rising(t) /\ Below(Numbers(s), Numbers(t))
                => Rising(s \o t)
<1> DEFINE u == s \o t
<1>1. Len(s) \in Nat /\ Len(t) \in Nat /\ Len(u) = Len(s) + Len(t)
  OBVIOUS
<1>2. /\ \A i \in 1..Len(s) : u[i] = s[i]
      /\ \A k \in 1..Len(t) : u[Len(s) + k] = t[k]
  OBVIOUS
<1> HIDE DEF u
<1>3. /\ \A i \in Raws(s) : i \in Raws(u) /\ u[i] = s[i]
      /\ \A k \in Raws(t) : Len(s) + k \in Raws(u) /\ u[Len(s) + k] = t[k]
  <2>1. /\ \A i \in 1..Len(s) : i \in 1..Len(u)
        /\ \A k \in 1..Len(t) : Len(s) + k \in 1..Len(u)
    BY <1>1
  <2> QED
    BY <1>2, <2>1 DEF Raws
<1>4. \A i \in Raws(u) :
         i \in Raws(s) \/ (\E k \in Raws(t) : i = Len(s) + k)
  <2> SUFFICES ASSUME NEW i \in Raws(u), i \notin 1..Len(s)
               PROVE  \E k \in Raws(t) : i = Len(s) + k
    BY <1>2 DEF Raws
  <2>1. i \in 1..Len(u) /\ IsRaw(u[i])
    BY DEF Raws
  <2>2. PICK k \in 1..Len(t) : i = Len(s) + k
    <3>1. i - Len(s) \in 1..Len(t) /\ i = Len(s) + (i - Len(s))
      BY <2>1, <1>1
    <3> QED
      BY <3>1
  <2> QED
    BY <1>2, <2>1, <2>2 DEF Raws
<1>5. Numbers(u) = Numbers(s) \cup Numbers(t)
  <2>1. Numbers(u) \subseteq Numbers(s) \cup Numbers(t)
    BY <1>3, <1>4 DEF Numbers
  <2>2. Numbers(s) \subseteq Numbers(u) /\ Numbers(t) \subseteq Numbers(u)
    BY <1>3 DEF Numbers
  <2> QED
    BY <2>1, <2>2
<1>6. ASSUME Rising(s), Rising(t), Below(Numbers(s), Numbers(t))
      PROVE  Rising(u)
  <2> SUFFICES ASSUME NEW i \in Raws(u), NEW j \in Raws(u), i < j
               PROVE  u[i].n < u[j].n
    BY DEF Rising
  <2>1. CASE i \in Raws(s) /\ j \in Raws(s)
    BY <1>3, <1>6, <2>1 DEF Rising
  <2>2. CASE i \in Raws(s) /\ (\E k \in Raws(t) : j = Len(s) + k)
    BY <1>3, <1>6, <2>2 DEF Below, Numbers
  <2>3. CASE (\E k \in Raws(t) : i = Len(s) + k) /\ j \in Raws(s)
    <3>1. PICK k \in Raws(t) : i = Len(s) + k
      BY <2>3
    <3>2. k \in 1..Len(t) /\ j \in 1..Len(s)
      BY <2>3 DEF Raws
    <3>3. ~(i < j)
      BY <1>1, <3>1, <3>2
    <3> QED
      BY <3>3
  <2>4. CASE /\ \E k \in Raws(t) : i = Len(s) + k
             /\ \E k \in Raws(t) : j = Len(s) + k
    <3>1. PICK k \in Raws(t), m \in Raws(t) : i = Len(s) + k /\ j = Len(s) + m
      BY <2>4
    <3>2. k < m
      <4>1. k \in 1..Len(t) /\ m \in 1..Len(t)
        BY DEF Raws
      <4> QED
        BY <1>1, <3>1, <4>1
    <3> QED
      BY <1>3, <1>6, <3>1, <3>2 DEF Rising
  <2> QED
    BY <1>4, <2>1, <2>2, <2>3, <2>4
<1> QED
  BY <1>5, <1>6 DEF u

\* The four places in a row are what NothingLost speaks of.
LEMMA FlowIsWhole ==
    ASSUME TypeOK, FlowInv
    PROVE  NothingLost
<1> SUFFICES ASSUME Flow
             PROVE  /\ Numbers(Pipeline) = (received + 1)..arrived
                    /\ Rising(Pipeline)
  BY DEF NothingLost, Underway, FlowInv, Numbers, Rising, Raws
<1> DEFINE a == Append(out, event)
           b == a \o pkts
<1>1. /\ out \in Seq(Places) /\ event \in Places
      /\ pkts \in Seq(Places) /\ held \in Places
  BY DEF TypeOK, Places
<1>2. a \in Seq(Places) /\ b \in Seq(Places)
  BY <1>1
<1>3. Pipeline = Append(b, held)
  BY <1>1 DEF Pipeline
<1>4. Numbers(a) = Numbers(out) \cup Number(event) /\ Rising(a)
  BY <1>1, NumbersAppend DEF Flow
<1> HIDE DEF a
<1>5. Numbers(b) = Numbers(a) \cup Numbers(pkts) /\ Rising(b)
  <2>1. Rising(pkts) /\ Below(Numbers(a), Numbers(pkts))
    BY <1>4 DEF Flow
  <2>2. /\ Numbers(a \o pkts) = Numbers(a) \cup Numbers(pkts)
        /\ Rising(a) /\ Rising(pkts) /\ Below(Numbers(a), Numbers(pkts))
             => Rising(a \o pkts)
    BY <1>1, <1>2, NumbersConcat, Zenon
  <2> QED
    BY <1>4, <2>1, <2>2
<1> HIDE DEF b
<1>6. /\ Numbers(Append(b, held)) = Numbers(b) \cup Number(held)
      /\ Rising(Append(b, held))
  <2>1. Below(Numbers(b), Number(held))
    BY <1>4, <1>5 DEF Flow
  <2>2. /\ Numbers(Append(b, held)) = Numbers(b) \cup Number(held)
        /\ Rising(b) /\ Below(Numbers(b), Number(held))
             => Rising(Append(b, held))
    BY <1>1, <1>2, NumbersAppend, Zenon
  <2> QED
    BY <1>5, <2>1, <2>2
<1> QED
  BY <1>3, <1>4, <1>5, <1>6 DEF Flow

\* Until the cancel every packet taken from the socket is delivered or on its
\* way, once and in order: through full channels, renewals and recoveries.
THEOREM NothingIsLost == Spec => []NothingLost
<1>1. Init => FlowInv
  <2> SUFFICES ASSUME Init PROVE FlowInv
    OBVIOUS
  <2>1. /\ out = <<>> /\ pkts = <<>> /\ event = None /\ held = None
        /\ received = 0 /\ arrived = 0
    BY DEF Init
  <2>2. /\ Numbers(out) = {} /\ Rising(out)
        /\ Numbers(pkts) = {} /\ Rising(pkts)
        /\ Number(event) = {} /\ Number(held) = {}
    BY <2>1, NumberOf
  <2>3. (received + 1)..arrived = {}
    BY <2>1
  <2> QED
    BY <2>1, <2>2, <2>3 DEF FlowInv, Flow, Below
<1>2. TypeOK /\ FlowInv /\ [Next]_vars => FlowInv'
  BY PumpFlow, OtherFlow DEF Next
<1>3. TypeOK /\ FlowInv => NothingLost
  BY FlowIsWhole
<1> QED
  BY <1>1, <1>2, <1>3, TypeCorrect, PTL DEF Spec

=============================================================================
