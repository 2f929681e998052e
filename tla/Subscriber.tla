---------------------------- MODULE Subscriber ----------------------------
(***************************************************************************)
(* pkg/yxc/events.go: the UDP event subscription behind `watch`.           *)
(*                                                                         *)
(* A reader goroutine takes packets from the socket and hands them to the  *)
(* pump over a bounded channel.  The pump registers with the receiver,     *)
(* renews, recovers with a growing backoff after a failure or a silence,   *)
(* and puts everything it has to tell on the bounded channel the caller    *)
(* receives from.  Its select picks at random among the ready cases.       *)
(*                                                                         *)
(* External: the packets that arrive, whether an EventDo succeeds, when    *)
(* the timers fire, the caller.                                            *)
(***************************************************************************)
EXTENDS Naturals, Sequences

CONSTANTS
    Zones,        \* how many zones are registered
    OutCap,       \* capacity of the caller's channel (32)
    PktCap,       \* capacity of the reader's channel (32)
    BackoffMin, BackoffMax,
    MayBreak,     \* whether a read can fail for good
    MaxPackets,   \* bound: packets of the receiver
    MaxForeign,   \* bound: packets of other sources
    MaxFails      \* bound: failures in a row that are counted

\* BackoffMin doubled n times.
Doubled[n \in Nat] == IF n = 0 THEN BackoffMin ELSE 2 * Doubled[n - 1]

ASSUME SubscriberAssumption ==
    /\ Zones \in Nat \ {0} /\ OutCap \in Nat \ {0} /\ PktCap \in Nat \ {0}
    /\ BackoffMin \in Nat \ {0} /\ BackoffMax \in Nat
    /\ BackoffMin <= BackoffMax
    /\ MayBreak \in BOOLEAN
    /\ MaxPackets \in Nat /\ MaxForeign \in Nat
    \* failures are counted until the wait grows no more
    /\ MaxFails \in Nat \ {0} /\ Doubled[MaxFails - 1] >= BackoffMax

VARIABLES
    filter,     \* the receiver's host resolved: other sources are dropped
    pc,         \* the pump: what it does next
    phase,      \* why it registers: first, renew or recover
    zone,       \* the zone it registers
    event,      \* what it is putting on the caller's channel
    backoff,    \* its next wait
    alive,      \* whether ctx was live when its call or wait began
    renewDue,   \* the renewal ticker's channel holds a tick
    silence,    \* the silence timer: off, armed, fired or consumed
    heard,      \* history: a packet of the receiver waited when it fired
    reader,     \* the reader: reading, sending or done
    held,       \* the packet it is handing over
    pkts,       \* the reader's channel
    out,        \* the caller's channel
    ctxDone,    \* ctx is cancelled
    arrived,    \* history: packets of the receiver taken from the socket
    foreign,    \* history: packets of other sources taken from it
    received,   \* history: the last packet the caller received
    last,       \* history: the kind of the last event put in out
    missed,     \* history: the last event was given up on a full channel
    fails       \* history: failures since the last registration, to MaxFails

pump == <<pc, phase, zone, event, backoff, alive, fails>>
timers == <<renewDue, silence, heard>>
readerVars == <<reader, held, arrived, foreign>>
caller == <<received, last, missed>>
vars == <<filter, pump, timers, readerVars, pkts, out, ctxDone, caller>>

Event(kind) == [kind |-> kind, n |-> 0]
None == Event("none")
Packets == {None, Event("error"), Event("foreign")}
           \cup [kind : {"raw"}, n : 1..MaxPackets]
Control == {"subscribe", "renew", "reconnect", "shutdown"}
Events == {Event(k) : k \in Control \cup {"none", "foreign"}}
          \cup [kind : {"raw"}, n : 1..MaxPackets]

IsRaw(p) == p.kind = "raw"

Init ==
    /\ filter \in BOOLEAN
    /\ pc = "subscribe" /\ phase = "first" /\ zone = 1
    /\ event = None /\ backoff = BackoffMin /\ alive = TRUE
    /\ renewDue = FALSE /\ silence = "off" /\ heard = FALSE
    /\ reader = "reading" /\ held = None /\ pkts = <<>>
    /\ out = <<>> /\ ctxDone = FALSE
    /\ arrived = 0 /\ foreign = 0 /\ received = 0
    /\ last = "none" /\ missed = FALSE /\ fails = 0

-----------------------------------------------------------------------------
(* The pump.                                                               *)

\* Mutant: the doubling is not capped.
NextBackoffUncapped(cur) == cur * 2

NextBackoff(cur) == IF cur * 2 > BackoffMax THEN BackoffMax ELSE cur * 2

Emit(e) == pc' = "emit" /\ event' = e

\* A registration begins at the first zone.
Register(why) ==
    /\ pc' = "subscribe" /\ phase' = why /\ zone' = 1
    /\ alive' = ~ctxDone

\* A call or a wait that began before the cancel may still come to its end.
MayFinish == alive \/ ~ctxDone

\* Mutant: a recovered registration leaves the backoff where it was.
ZoneRegisteredKeepingBackoff ==
    /\ pc = "subscribe" /\ MayFinish
    /\ \/ /\ zone < Zones
          /\ zone' = zone + 1 /\ alive' = ~ctxDone
          /\ UNCHANGED <<pc, event, backoff, fails>>
       \/ /\ zone = Zones
          /\ Emit(Event(IF phase = "renew" THEN "renew" ELSE "subscribe"))
          /\ fails' = 0
          /\ UNCHANGED <<zone, alive, backoff>>
    /\ UNCHANGED <<phase, timers, readerVars, pkts, out, ctxDone>>
    /\ UNCHANGED <<caller, filter>>

\* EventDo succeeds for a zone; after the last one, the registration has.
ZoneRegistered ==
    /\ pc = "subscribe" /\ MayFinish
    /\ \/ /\ zone < Zones
          /\ zone' = zone + 1 /\ alive' = ~ctxDone
          /\ UNCHANGED <<pc, event, backoff, fails>>
       \/ /\ zone = Zones
          /\ Emit(Event(IF phase = "renew" THEN "renew" ELSE "subscribe"))
          /\ backoff' = IF phase = "renew" THEN backoff ELSE BackoffMin
          /\ fails' = 0
          /\ UNCHANGED <<zone, alive>>
    /\ UNCHANGED <<phase, timers, readerVars, pkts, out, ctxDone>>
    /\ UNCHANGED <<caller, filter>>

\* Failures may go on for ever; only their count ends.
OneMore(n) == IF n < MaxFails THEN n + 1 ELSE n

\* EventDo fails for a zone, and with it the registration.  A failed renewal
\* goes on as a recovery, whose own failures double the backoff.
RegistrationFailed ==
    /\ pc = "subscribe"
    /\ Emit(Event("reconnect"))
    /\ backoff' = IF phase = "recover" THEN NextBackoff(backoff) ELSE backoff
    /\ phase' = IF phase = "renew" THEN "recover" ELSE phase
    /\ fails' = OneMore(fails)
    /\ UNCHANGED <<zone, alive, timers, readerVars, pkts, out, ctxDone>>
    /\ UNCHANGED <<caller, filter>>

\* Where the pump goes on once the event is dealt with.  A registration that
\* was announced starts the silence timer afresh.
AfterEmit ==
    /\ pc' = CASE event.kind = "reconnect" -> "wait"
               [] event.kind = "shutdown" -> "drain"
               [] OTHER -> "select"
    /\ alive' = ~ctxDone
    /\ silence' = IF event.kind = "subscribe" THEN "armed" ELSE silence
    /\ event' = None
    /\ UNCHANGED <<phase, zone, backoff, fails, renewDue, heard, readerVars>>
    /\ UNCHANGED <<filter, pkts, ctxDone, received>>

EventPut ==
    /\ pc = "emit" /\ Len(out) < OutCap
    /\ out' = Append(out, event)
    /\ last' = event.kind
    /\ AfterEmit
    /\ UNCHANGED missed

\* Mutant: a full channel drops an event without waiting for the caller.
EventDroppedWhenFull ==
    /\ pc = "emit" /\ event.kind # "shutdown"
    /\ ctxDone \/ Len(out) = OutCap
    /\ AfterEmit
    /\ UNCHANGED <<out, last, missed>>

\* After the cancel, the select of emit may let any event but the last go.
EventDropped ==
    /\ pc = "emit" /\ event.kind # "shutdown" /\ ctxDone
    /\ AfterEmit
    /\ UNCHANGED <<out, last, missed>>

\* 500 ms have passed and the caller has made no room for the last event.
GraceOver ==
    /\ pc = "emit" /\ event.kind = "shutdown"
    /\ Len(out) = OutCap
    /\ missed' = TRUE
    /\ AfterEmit
    /\ UNCHANGED <<out, last>>

\* The wait before the next attempt is over.  The first registration doubles
\* its backoff here, a recovery when it failed.
WaitOver ==
    /\ pc = "wait" /\ MayFinish
    /\ Register(phase)
    /\ backoff' = IF phase = "first" THEN NextBackoff(backoff) ELSE backoff
    /\ UNCHANGED <<event, fails, timers, readerVars, pkts, out, ctxDone>>
    /\ UNCHANGED <<caller, filter>>

\* Mutant: the cancel ends the pump without a last event.
CancelSeenSilently ==
    /\ pc \in {"wait", "select"} /\ ctxDone
    /\ pc' = "drain"
    /\ UNCHANGED <<phase, zone, event, backoff, alive, fails, timers>>
    /\ UNCHANGED <<readerVars, pkts, out, ctxDone, caller, filter>>

\* ctx.Done is ready in a backoff wait or in the main select.
CancelSeen ==
    /\ pc \in {"wait", "select"} /\ ctxDone
    /\ Emit(Event("shutdown"))
    /\ UNCHANGED <<phase, zone, backoff, alive, fails, timers, readerVars>>
    /\ UNCHANGED <<pkts, out, ctxDone, caller, filter>>

\* A packet from the reader: the end of the socket, a source to be dropped, or
\* an event, which starts the silence timer afresh.
PacketTaken ==
    /\ pc = "select" /\ pkts # <<>>
    /\ pkts' = Tail(pkts)
    /\ LET p == Head(pkts) IN
          \/ /\ p.kind = "error"
             /\ Emit(Event("shutdown")) /\ UNCHANGED silence
          \/ /\ p.kind = "foreign" /\ filter
             /\ UNCHANGED <<pc, event, silence>>
          \/ /\ p.kind = "raw" \/ (p.kind = "foreign" /\ ~filter)
             /\ Emit(p) /\ silence' = "armed"
    /\ UNCHANGED <<phase, zone, backoff, alive, fails, renewDue, heard>>
    /\ UNCHANGED <<readerVars, out, ctxDone, caller, filter>>

RenewalDue ==
    /\ pc = "select" /\ renewDue
    /\ renewDue' = FALSE
    /\ Register("renew")
    /\ UNCHANGED <<event, backoff, fails, silence, heard, readerVars>>
    /\ UNCHANGED <<pkts, out, ctxDone, caller, filter>>

\* Mutant: the pump registers again without announcing the silence.
SilenceNoticedQuietly ==
    /\ pc = "select" /\ silence = "fired"
    /\ silence' = "consumed"
    /\ Register("recover")
    /\ UNCHANGED <<event, backoff, fails, renewDue, heard, readerVars>>
    /\ UNCHANGED <<pkts, out, ctxDone, caller, filter>>

SilenceNoticed ==
    /\ pc = "select" /\ silence = "fired"
    /\ silence' = "consumed"
    /\ phase' = "recover" /\ fails' = 1
    /\ Emit(Event("reconnect"))
    /\ UNCHANGED <<zone, backoff, alive, renewDue, heard, readerVars>>
    /\ UNCHANGED <<pkts, out, ctxDone, caller, filter>>

\* readerWG.Wait, then the deferred closes of the socket and of out.
Close ==
    /\ pc = "drain" /\ reader = "done"
    /\ pc' = "closed"
    /\ UNCHANGED <<phase, zone, event, backoff, alive, fails, timers>>
    /\ UNCHANGED <<readerVars, pkts, out, ctxDone, caller, filter>>

-----------------------------------------------------------------------------
(* The reader.                                                             *)

Holds(p) == reader' = "sending" /\ held' = p

\* ReadFrom returns: a packet of the receiver, one of another source, or an
\* error that is no deadline tick.
Read ==
    /\ reader = "reading"
    /\ \/ /\ arrived < MaxPackets
          /\ arrived' = arrived + 1
          /\ Holds([kind |-> "raw", n |-> arrived + 1])
          /\ UNCHANGED foreign
       \/ /\ foreign < MaxForeign
          /\ foreign' = foreign + 1
          /\ Holds(Event("foreign"))
          /\ UNCHANGED arrived
       \/ /\ MayBreak
          /\ Holds(Event("error"))
          /\ UNCHANGED <<arrived, foreign>>
    /\ UNCHANGED <<pump, timers, pkts, out, ctxDone, caller, filter>>

HandOver ==
    /\ reader = "sending" /\ Len(pkts) < PktCap
    /\ pkts' = Append(pkts, held)
    /\ reader' = IF held.kind = "error" THEN "done" ELSE "reading"
    /\ held' = None
    /\ UNCHANGED <<pump, timers, arrived, foreign, out, ctxDone>>
    /\ UNCHANGED <<caller, filter>>

\* Mutant: a reader with a packet to hand over does not watch for the cancel.
ReaderStopsIdleOnly ==
    /\ reader = "reading" /\ ctxDone
    /\ reader' = "done" /\ held' = None
    /\ UNCHANGED <<pump, timers, pkts, arrived, foreign, out, ctxDone>>
    /\ UNCHANGED <<caller, filter>>

\* The cancel is seen on a deadline tick, or while a packet is handed over.
ReaderStops ==
    /\ reader \in {"reading", "sending"} /\ ctxDone
    /\ reader' = "done" /\ held' = None
    /\ UNCHANGED <<pump, timers, pkts, arrived, foreign, out, ctxDone>>
    /\ UNCHANGED <<caller, filter>>

-----------------------------------------------------------------------------
(* The timers, which exist from the first registration on, and the caller. *)

RenewTick ==
    /\ silence # "off" /\ ~renewDue /\ pc # "closed"
    /\ renewDue' = TRUE
    /\ UNCHANGED <<pump, silence, heard, readerVars, pkts, out, ctxDone>>
    /\ UNCHANGED <<caller, filter>>

\* Long before the timer runs out, a pump that is back in its select takes the
\* packet that is there, and the reader hands over the one it has.
PacketOnItsWay == pkts # <<>> \/ reader = "sending"

SilenceFires ==
    /\ silence = "armed" /\ ~(pc = "select" /\ PacketOnItsWay)
    /\ silence' = "fired"
    /\ heard' = \E i \in DOMAIN pkts : IsRaw(pkts[i])
    /\ UNCHANGED <<pump, renewDue, readerVars, pkts, out, ctxDone>>
    /\ UNCHANGED <<caller, filter>>

Receive ==
    /\ out # <<>>
    /\ out' = Tail(out)
    /\ received' = IF Head(out).kind = "raw" THEN Head(out).n ELSE received
    /\ UNCHANGED <<filter, pump, timers, readerVars, pkts, ctxDone, last>>
    /\ UNCHANGED missed

Cancel ==
    /\ ~ctxDone
    /\ ctxDone' = TRUE
    /\ UNCHANGED <<pump, timers, readerVars, pkts, out, caller, filter>>

Next ==
    \/ ZoneRegistered \/ RegistrationFailed
    \/ EventPut \/ EventDropped \/ GraceOver
    \/ WaitOver \/ CancelSeen \/ PacketTaken \/ RenewalDue \/ SilenceNoticed
    \/ Close
    \/ Read \/ HandOver \/ ReaderStops
    \/ RenewTick \/ SilenceFires \/ Receive \/ Cancel

Spec == Init /\ [][Next]_vars

\* Calls return (the client's timeout), waits end, the reader wakes up on its
\* deadline; the select, being random, takes a case that is ready again and
\* again.  Nothing is asked of the caller, the receiver or the user: the caller
\* may never receive, and every registration may fail.
Fairness ==
    /\ WF_vars(ZoneRegistered \/ RegistrationFailed)
    /\ WF_vars(EventPut \/ EventDropped \/ GraceOver)
    /\ WF_vars(WaitOver \/ CancelSeen)
    /\ SF_vars(CancelSeen) /\ SF_vars(PacketTaken)
    /\ WF_vars(RenewalDue \/ SilenceNoticed)
    /\ WF_vars(Close)
    /\ WF_vars(HandOver \/ ReaderStops)

FairSpec == Spec /\ Fairness

-----------------------------------------------------------------------------
(* Properties.                                                             *)

\* Every variable stays in its domain; no channel is over its capacity and the
\* backoff stays between its bounds.
TypeOK ==
    /\ pc \in {"subscribe", "emit", "wait", "select", "drain", "closed"}
    /\ phase \in {"first", "renew", "recover"}
    /\ zone \in 1..Zones
    /\ event \in Events
    /\ backoff \in BackoffMin..BackoffMax
    /\ alive \in BOOLEAN /\ renewDue \in BOOLEAN /\ heard \in BOOLEAN
    /\ ctxDone \in BOOLEAN
    /\ silence \in {"off", "armed", "fired", "consumed"}
    /\ reader \in {"reading", "sending", "done"}
    /\ held \in Packets
    /\ pkts \in Seq(Packets) /\ Len(pkts) <= PktCap
    /\ out \in Seq(Events) /\ Len(out) <= OutCap
    /\ arrived \in 0..MaxPackets /\ foreign \in 0..MaxForeign
    /\ received \in 0..MaxPackets /\ filter \in BOOLEAN /\ missed \in BOOLEAN
    /\ last \in Control \cup {"none", "raw", "foreign"}
    /\ fails \in 0..MaxFails

\* What is on its way from the reader to the caller, oldest first, and where a
\* packet of the receiver is in it.
Pipeline == out \o <<event>> \o pkts \o <<held>>
Underway == {i \in 1..Len(Pipeline) : IsRaw(Pipeline[i])}

\* Until the cancel, every packet taken from the socket reaches the caller,
\* once and in order, through renewals, recoveries and a slow caller: a full
\* channel makes the pump wait, it drops nothing.  (The comment on emit says of
\* back pressure that "we'd rather drop than wedge the supervisor"; the select
\* under it drops only once ctx is done.)
NothingLost ==
    ~ctxDone =>
        /\ {Pipeline[i].n : i \in Underway} = (received + 1)..arrived
        /\ \A i, j \in Underway : i < j => Pipeline[i].n < Pipeline[j].n

\* What may come after an event on the caller's channel.
MayFollow(kind) ==
    CASE kind = "none" -> {"subscribe", "reconnect"}
      [] kind = "reconnect" -> {"subscribe", "reconnect", "shutdown"}
      [] kind = "shutdown" -> {}
      [] OTHER -> {"raw", "foreign", "renew", "reconnect", "shutdown"}

\* Until the cancel, the caller reads a well-formed history: registered, then
\* events and renewals, a reconnect answered by a registration before any other
\* event.  Nothing ever follows a shutdown.
Lifecycle ==
    [][out' # out /\ Len(out') >= Len(out) =>
          /\ last # "shutdown"
          /\ ~ctxDone => last' \in MayFollow(last)]_vars

\* The n-th wait of a row of failures.
Wait(n) == IF Doubled[n - 1] > BackoffMax THEN BackoffMax ELSE Doubled[n - 1]

\* The n-th wait of a row of failures is BackoffMin doubled n - 1 times, up to
\* BackoffMax, whatever mixture of silence, renewals and retries they were.
BackoffFollowsFailures == pc = "wait" => fails > 0 /\ backoff = Wait(fails)

\* The last event of a closed channel is the shutdown (comment on Subscribe),
\* unless the caller left the channel full for the whole grace period.
ShutdownLast == pc = "closed" => last = "shutdown" \/ missed

\* A silence is announced only if no packet of the receiver was waiting to be
\* taken when the timer fired (its reason reads "no events for" the period).
SilenceIsSilence ==
    [][silence = "fired" /\ silence' = "consumed" => ~heard]_vars

\* A cancelled subscription closes its channel, even if nobody receives.
Closes == ctxDone ~> pc = "closed"

\* A caller that keeps emptying its channel gets every packet, unless the
\* subscription is cancelled or breaks, or comes to fail to register for ever:
\* a pump that recovers takes no packets.
Delivered ==
    []<>(out = <<>>) /\ []<>(fails = 0) =>
        \A n \in 1..MaxPackets :
            arrived = n ~> (received >= n \/ ctxDone \/ pc = "closed")

=============================================================================
