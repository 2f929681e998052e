----------------------------- MODULE YncaWatch -----------------------------
(***************************************************************************)
(* `ynca watch` (internal/cli/ynca_watch.go) and the push session under it *)
(* (pkg/ynca/session.go), over the searches of LanSearch; and `discover`,  *)
(* the other user of a search, which makes one and ends.                   *)
(*                                                                         *)
(* The supervisor settles the host, runs one session at a time, waits and  *)
(* dials again; a session is the reader, in the supervisor's goroutine,    *)
(* and two goroutines, one that closes the connection on cancellation and  *)
(* one that sends the keep-alive.  What is printed is left out; a YNCA     *)
(* exchange (YncaClient) and a save (ConfigStore) are one step here.       *)
(***************************************************************************)
EXTENDS LanSearch

CONSTANTS
    RediscoverAfter,  \* yncaWatchRediscoverAfter
    BackoffMin,       \* yncaWatchBackoffMin
    BackoffMax        \* yncaWatchBackoffMax

ASSUME WatchAssumption ==
    /\ {RediscoverAfter, BackoffMin, BackoffMax} \subseteq Nat \ {0}
    /\ BackoffMin <= BackoffMax

VARIABLES
    command,   \* "watch" or "discover"
    stage,     \* where its goroutine is
    settled,   \* the first settle is over
    listed,    \* the device is an alias with a UDN
    host,      \* state.device.Host
    fails,     \* dialFailures
    backoff,
    conn,      \* the connection: none, open, silent (its peer is gone), closed
    pinged,    \* a keep-alive was sent into the silence
    closer, keeper,  \* the goroutines of the session
    leaving    \* goroutines of earlier sessions that have still to end

supervisor == <<command, stage, settled, listed, host, fails, backoff>>
session    == <<conn, pinged, closer, keeper, leaving>>
vars == <<supervisor, session, search, network>>

Stages == {"settle", "lookup", "rerun", "dial", "reading", "pause", "search", "exited"}

Init ==
    /\ SearchInit
    /\ addr = CHOOSE h \in Addrs \ {Sibling} : \A g \in Addrs \ {Sibling} : h <= g
    /\ host = addr
    /\ subnet \in BOOLEAN /\ moved = FALSE /\ cancelled = FALSE /\ faults = 0
    /\ command \in {"watch", "discover"}
    /\ stage = IF command = "watch" THEN "settle" ELSE "search"
    /\ listed \in (IF command = "watch" THEN BOOLEAN ELSE {FALSE})
    /\ settled = FALSE /\ fails = 0 /\ backoff = BackoffMin
    /\ conn = "none" /\ pinged = FALSE
    /\ closer = FALSE /\ keeper = FALSE /\ leaving = 0

Exits == stage' = "exited"

-----------------------------------------------------------------------------
(* yncaSettleHost: a probe, a lookup when it found nobody, a second probe. *)

\* Before the first session an error ends the command.  Later, success starts
\* the backoff over, and the loop goes on either way.
Settled ==
    /\ settled' = TRUE
    /\ IF settled THEN backoff' = BackoffMin /\ stage' = "pause"
                  ELSE stage' = "dial" /\ UNCHANGED backoff

SettleFails ==
    /\ IF settled /\ ~cancelled THEN stage' = "pause" ELSE Exits
    /\ UNCHANGED <<settled, backoff>>

\* The probe, whose exchange may fail, or be answered by something that is no
\* receiver, which no lookup can cure.
Probe(failed) ==
    \/ cancelled /\ SettleFails /\ UNCHANGED <<faults, moved>>
    \/ host = addr /\ Settled /\ UNCHANGED <<faults, moved>>
    \/ host # addr /\ failed /\ UNCHANGED <<faults, moved>>
    \/ Fault /\ (failed \/ SettleFails)

LooksUp ==
    IF listed THEN stage' = "lookup" /\ UNCHANGED <<settled, backoff>> ELSE SettleFails

SettleProbe ==
    /\ stage = "settle" /\ Probe(LooksUp)
    /\ UNCHANGED <<command, listed, host, fails, session, search, addr, subnet, cancelled>>

RerunProbe ==
    /\ stage = "rerun" /\ Probe(SettleFails)
    /\ UNCHANGED <<command, listed, host, fails, session, search, addr, subnet, cancelled>>

\* LookupByUDN is called, and Search by `discover`.
CallSearch ==
    /\ stage \in {"lookup", "search"} /\ outcome = "none" /\ at = "idle"
    /\ StartSearch(IF stage = "search" THEN "any" ELSE "udn")
    /\ UNCHANGED <<supervisor, session>>

\* persistRediscoveredHost changes the host in memory first: when the save
\* fails the settle fails, and the next session is dialled at the new host.
SearchReturned ==
    /\ stage \in {"lookup", "search"} /\ outcome # "none" /\ at = "idle"
    /\ outcome' = "none" /\ devs' = {} /\ ssdpErr' = FALSE /\ moved' = FALSE
    /\ IF stage = "lookup" /\ outcome = "found"
       THEN /\ host' = Target
            /\ \/ stage' = "rerun" /\ UNCHANGED <<settled, backoff, faults>>
               \/ Fault /\ SettleFails
       ELSE /\ IF stage = "lookup" THEN SettleFails
                                   ELSE Exits /\ UNCHANGED <<settled, backoff>>
            /\ UNCHANGED <<host, faults>>
    /\ UNCHANGED <<command, listed, fails, session, goal, at, ifc, chan, got, locs, fetch, todo,
                   dialing, open, taken, addr, subnet, cancelled>>

-----------------------------------------------------------------------------
(* Session.Run.                                                            *)

\* Mutant: any end of a session starts the row of failures over.
FailedDialForgotten ==
    /\ fails' = 0
    /\ stage' = "pause"

\* The end of a session that could not be dialled: after a row of them the
\* host is settled again.
FailedDial ==
    IF fails + 1 >= RediscoverAfter THEN fails' = 0 /\ stage' = "settle"
                                    ELSE fails' = fails + 1 /\ stage' = "pause"

DialSession ==
    /\ stage = "dial"
    /\ \/ /\ cancelled /\ Exits
          /\ UNCHANGED <<fails, session, faults, moved>>
       \/ /\ ~cancelled /\ host = addr
          /\ stage' = "reading"
          /\ conn' = "open" /\ pinged' = FALSE /\ closer' = TRUE /\ keeper' = TRUE
          /\ UNCHANGED <<fails, leaving, faults, moved>>
       \/ /\ ~cancelled /\ FailedDial
          /\ \/ host # addr /\ UNCHANGED <<faults, moved>>
             \/ Fault
          /\ UNCHANGED session
    /\ UNCHANGED <<command, settled, listed, host, backoff, search, addr, subnet, cancelled>>

\* The scanner ends when the connection does; the deferred close of stop
\* tells the goroutines, which end in their own time.
ReaderEnds ==
    /\ stage = "reading" /\ conn = "closed"
    /\ IF cancelled THEN Exits /\ UNCHANGED fails ELSE stage' = "pause" /\ fails' = 0
    /\ conn' = "none" /\ closer' = FALSE /\ keeper' = FALSE
    /\ leaving' = leaving + (IF closer THEN 1 ELSE 0) + (IF keeper THEN 1 ELSE 0)
    /\ UNCHANGED <<command, settled, listed, host, backoff, pinged, search, network>>

\* The watcher closes the connection when the context is done.
Close ==
    /\ closer /\ cancelled
    /\ closer' = FALSE
    /\ conn' = "closed"
    /\ UNCHANGED <<supervisor, pinged, keeper, leaving, search, network>>

\* keepAliveLoop: a write into a silent connection succeeds and stays
\* unacknowledged; one that fails, or a context that is done, ends the loop.
KeepAlive ==
    /\ keeper
    /\ \/ (cancelled \/ conn = "closed") /\ keeper' = FALSE /\ UNCHANGED pinged
       \/ conn = "silent" /\ ~pinged /\ pinged' = TRUE /\ UNCHANGED keeper
    /\ UNCHANGED <<supervisor, conn, closer, leaving, search, network>>

LeaverEnds ==
    /\ leaving > 0
    /\ leaving' = leaving - 1
    /\ UNCHANGED <<supervisor, conn, pinged, closer, keeper, search, network>>

\* The select before the next session.
Pause ==
    /\ stage = "pause"
    /\ IF cancelled THEN Exits /\ UNCHANGED backoff
       ELSE /\ stage' = "dial"
            /\ backoff' = IF backoff * 2 > BackoffMax THEN BackoffMax ELSE backoff * 2
    /\ UNCHANGED <<command, settled, listed, host, fails, session, search, network>>

-----------------------------------------------------------------------------
(* The environment.                                                        *)

\* TCP gives a connection up when what was sent stays unacknowledged.
GiveUp ==
    /\ conn = "silent" /\ pinged
    /\ conn' = "closed"
    /\ UNCHANGED <<supervisor, pinged, closer, keeper, leaving, search, network>>

\* The receiver closes the connection.
Drop ==
    /\ conn = "open" /\ Fault
    /\ conn' = "closed"
    /\ UNCHANGED <<supervisor, pinged, closer, keeper, leaving, search, addr, subnet, cancelled>>

\* DHCP gives the receiver the next free address.
Move ==
    /\ stage # "exited"
    /\ addr + 1 \in Addrs \ {Sibling}
    /\ addr' = addr + 1
    /\ moved' = (moved \/ at # "idle")
    /\ conn' = IF conn = "open" THEN "silent" ELSE conn
    /\ UNCHANGED <<supervisor, pinged, closer, keeper, leaving, search, subnet, cancelled, faults>>

Interrupt ==
    /\ ~cancelled /\ stage # "exited"
    /\ cancelled' = TRUE
    /\ UNCHANGED <<supervisor, session, search, addr, subnet, moved, faults>>

-----------------------------------------------------------------------------
Supervise ==
    \/ SettleProbe \/ RerunProbe \/ CallSearch \/ SearchReturned
    \/ DialSession \/ ReaderEnds \/ Pause

Searching == SearchStep /\ UNCHANGED <<supervisor, session>>

Next ==
    \/ Supervise \/ Searching
    \/ Close \/ KeepAlive \/ LeaverEnds \/ GiveUp
    \/ Drop \/ Move \/ Interrupt

Spec == Init /\ [][Next]_vars

\* The runtime lets some goroutine of the search run while one can, and some
\* goroutine of a session, and TCP keeps its timers; no reply, no failure and
\* no cancellation is promised.
Fairness ==
    /\ WF_vars(Supervise)
    /\ WF_vars(Close \/ KeepAlive \/ LeaverEnds \/ GiveUp)
    /\ WF_vars(SearchWork /\ UNCHANGED <<supervisor, session>>)

FairSpec == Spec /\ Fairness

-----------------------------------------------------------------------------
(* Properties.                                                             *)

\* Every variable in its range: no more dials and fetches than their
\* semaphores allow, and every slot taken once and given back once.
TypeOK ==
    /\ SearchTypeOK
    /\ command \in {"watch", "discover"} /\ stage \in Stages
    /\ settled \in BOOLEAN /\ listed \in BOOLEAN
    /\ host \in Addrs
    /\ fails \in 0..(RediscoverAfter - 1)
    /\ backoff \in BackoffMin..BackoffMax
    /\ conn \in {"none", "open", "silent", "closed"} /\ pinged \in BOOLEAN
    /\ closer \in BOOLEAN /\ keeper \in BOOLEAN /\ leaving \in Nat

Goroutines == {i \in Ifaces : ifc[i].at # "none"}

\* Ctrl-C ends the command wherever it is, and everything it started: the
\* goroutine of an interface whose collector has left, a dial or a fetch that
\* waits for a slot, the watcher and the keep-alive of a session.
AllEnd ==
    <>[](cancelled => stage = "exited" /\ Goroutines = {} /\ ~closer /\ ~keeper /\ leaving = 0)

\* A watch of a listed receiver is not left dialling an address the receiver
\* gave up, nor reading a connection that is dead: on a subnet it can probe,
\* it comes to hold a connection to where the receiver is, unless it ended.
Follows ==
    command = "watch" /\ listed /\ subnet
        => <>[](stage = "exited" \/ (conn = "open" /\ host = addr))

=============================================================================
