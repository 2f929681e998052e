---------------------------- MODULE YncaClient ----------------------------
(***************************************************************************)
(* pkg/ynca/client.go: one TCP connection shared by concurrent calls.      *)
(*                                                                         *)
(* A call is one goroutine in Send, Probe (a Send of @SYS:VERSION=?) or    *)
(* SendMulti.  A mutex serialises the calls; the holder dials if there is  *)
(* no connection, optionally runs the wake exchange, writes its request    *)
(* and scans the reply.  Any error closes the connection, and an error     *)
(* that says the peer ended it earns one second attempt.                   *)
(*                                                                         *)
(* The two directions of the current connection are the sequences up       *)
(* (requests the receiver has not taken) and down (lines the scanner has   *)
(* not returned).  The receiver is external: it answers in order, may      *)
(* ignore a request (standby drops the first one), may push a report at    *)
(* any time, may deliver the first half of a line only, and may close or   *)
(* reset the connection.  The text of lines is abstracted to their kind.   *)
(***************************************************************************)
EXTENDS Naturals, Sequences, FiniteSets

CONSTANTS
    Calls,          \* the calls made on one Client
    NoCall,         \* no call: a free mutex, the author of a push
    Multi,          \* the calls that are SendMulti
    Probes,         \* the calls that are Probe
    WakeOnConnect,  \* Client.wakeOnConnect
    MaxPushes,      \* bound: unsolicited reports the receiver sends
    MaxReports,     \* bound: report lines one fan-out request produces
    MaxMultiLines   \* maxMultiLines, the cap of a fan-out reply

ASSUME CallsAssumption ==
    /\ NoCall \notin Calls
    /\ Multi \subseteq Calls
    /\ Probes \subseteq Calls \ Multi
    /\ WakeOnConnect \in BOOLEAN
    /\ MaxPushes \in Nat /\ MaxReports \in Nat /\ MaxMultiLines \in Nat

VARIABLES
    pc,         \* per call: where its goroutine is
    lock,       \* Client.mu: the call that holds it
    last,       \* the call granted the mutex most recently; of that call:
    tries,      \*   attempts begun
    got,        \*   the lines its current attempt has collected
    outcome,    \*   "none", then what the caller was told
    cancelled,  \*   its context is done
    emitted,    \*   reports the receiver produced for its current attempt
    conn,       \* Client.conn, and what the peer did to it
    scanErr,    \* the terminal error of Client.scanner
    expired,    \* the deadline of the current attempt has passed
    up,         \* requests written and not yet taken by the receiver
    down,       \* lines sent by the receiver and not yet scanned
    stale,      \* calls with a request left in a connection since closed
    executed,   \* per call: how often the receiver executed its request
    pushes      \* unsolicited reports sent so far

callVars     == <<tries, got, outcome, cancelled, emitted, expired>>
wireVars     == <<conn, scanErr, up, down, stale>>
receiverVars == <<executed, pushes>>
vars == <<pc, lock, last, callVars, wireVars, receiverVars>>

-----------------------------------------------------------------------------
(* What travels on the wire.                                               *)

Requests == [call : Calls, kind : {"cmd", "fence", "wake"}]
Lines    == [call : Calls \cup {NoCall}, whole : BOOLEAN,
             kind : {"value", "undefined", "restricted", "report", "fence",
                     "wake", "push"}]

Request(c, kind)     == [call |-> c, kind |-> kind]
Line(c, kind, whole) == [call |-> c, kind |-> kind, whole |-> whole]

\* strings.HasPrefix(reply, versionEchoPrefix): the fence's echo, and any
\* other answer to @SYS:VERSION=?.
IsVersionEcho(line) ==
    \/ line.kind = "fence"
    \/ line.kind = "value" /\ line.call \in Probes

\* Mutant: the fence is written ahead of the request it closes.
RequestLinesFenceFirst(c) ==
    IF c \in Multi THEN <<Request(c, "fence"), Request(c, "cmd")>>
                   ELSE <<Request(c, "cmd")>>

\* One write carries the request, or the request and its fence.
RequestLines(c) ==
    IF c \in Multi THEN <<Request(c, "cmd"), Request(c, "fence")>>
                   ELSE <<Request(c, "cmd")>>

Unserved(requests) ==
    {requests[i].call : i \in {j \in 1..Len(requests) : requests[j].kind = "cmd"}}

LastIsWhole(lines) == lines # <<>> => lines[Len(lines)].whole

-----------------------------------------------------------------------------
(* Outcomes.                                                               *)

Places == {"waiting", "dial", "wake", "drain", "write", "read", "done"}
SocketErrors == {"timeout", "eof", "reset"}
Outcomes == {"none", "ok", "undefined", "restricted", "unsupported",
             "protocol", "noreply", "ctx", "eof", "reset", "dial", "toomany"}

\* What the caller is told for a scanned line: classifyReply, then Probe's
\* own translation.  Half a line is classified by the half that arrived.
LineOutcomes(c, token) ==
    LET named == IF token.kind = "undefined" /\ c \in Probes THEN "unsupported"
                 ELSE IF token.kind \in {"undefined", "restricted"} THEN token.kind
                 ELSE "ok"
    IN  IF token.whole THEN {named}
        ELSE {named, "ok"} \cup (IF c \in Probes THEN {"protocol"} ELSE {})

\* What an attempt reports for a socket error: a done context comes first.
AttemptError(err) ==
    IF cancelled THEN "ctx" ELSE IF err = "timeout" THEN "noreply" ELSE err

\* Probe reads a connection closed without an answer as "not YNCA".
CallerError(c, err) ==
    IF err = "eof" /\ c \in Probes THEN "unsupported" ELSE err

\* Mutant: a silent receiver is asked again.
RetryableOnSilence == {"eof", "reset", "noreply"}

\* isConnReset
Retryable == {"eof", "reset"}

-----------------------------------------------------------------------------
Init ==
    /\ pc = [c \in Calls |-> "waiting"]
    /\ lock = NoCall /\ last = NoCall
    /\ tries = 0 /\ got = <<>> /\ outcome = "none"
    /\ cancelled = FALSE /\ emitted = 0 /\ expired = FALSE
    /\ conn = "nil" /\ scanErr = "none"
    /\ up = <<>> /\ down = <<>> /\ stale = {}
    /\ executed = [c \in Calls |-> 0]
    /\ pushes = 0

-----------------------------------------------------------------------------
(* The client.                                                             *)

Goto(c, where) == pc' = [pc EXCEPT ![c] = where]

\* Mutant: the error path leaves the connection open.
KeepConnection == UNCHANGED wireVars

\* closeLocked.  A request the receiver has not read yet stays with it.
CloseLocked ==
    /\ conn' = "nil" /\ scanErr' = "none"
    /\ up' = <<>> /\ down' = <<>>
    /\ stale' = stale \cup Unserved(up)

\* Mutant: an early return forgets the mutex.
ReturnLocked(c, o) ==
    /\ Goto(c, "done")
    /\ outcome' = o
    /\ UNCHANGED lock

\* Return to the caller: the deferred Unlock.
Return(c, o) ==
    /\ Goto(c, "done")
    /\ outcome' = o
    /\ lock' = NoCall

Retry(c) ==
    /\ Goto(c, "dial")
    /\ tries' = 2 /\ got' = <<>> /\ emitted' = 0 /\ expired' = FALSE
    /\ UNCHANGED <<outcome, lock>>

\* Mutant: the retry is a loop.
AttemptFailsForever(c, err) ==
    /\ CloseLocked
    /\ \/ /\ err \in Retryable /\ tries <= 2 /\ Goto(c, "dial")
          /\ tries' = tries + 1 /\ got' = <<>> /\ emitted' = 0 /\ expired' = FALSE
          /\ UNCHANGED <<outcome, lock>>
       \/ /\ err \notin Retryable
          /\ Return(c, CallerError(c, err))
          /\ UNCHANGED <<tries, got, emitted, expired>>
    /\ UNCHANGED <<last, cancelled, receiverVars>>

\* An attempt ends in err: the connection is closed, and Send/SendMulti
\* either begin the second attempt or hand the error to the caller.
AttemptFails(c, err) ==
    /\ CloseLocked
    /\ \/ err \in Retryable /\ tries = 1 /\ Retry(c)
       \/ /\ ~(err \in Retryable /\ tries = 1)
          /\ Return(c, CallerError(c, err))
          /\ UNCHANGED <<tries, got, emitted, expired>>
    /\ UNCHANGED <<last, cancelled, receiverVars>>

\* c.mu.Lock() and the test of c.conn.
Acquire(c) ==
    /\ pc[c] = "waiting" /\ lock = NoCall
    /\ lock' = c /\ last' = c
    /\ Goto(c, IF conn = "nil" THEN "dial" ELSE "write")
    /\ tries' = 1 /\ got' = <<>> /\ outcome' = "none"
    /\ cancelled' = FALSE /\ emitted' = 0 /\ expired' = FALSE
    /\ UNCHANGED <<wireVars, receiverVars>>

\* dialLocked: a new connection and a new scanner.
Dial(c) ==
    /\ pc[c] = "dial"
    /\ conn' = "open" /\ scanErr' = "none"
    /\ up' = <<>> /\ down' = <<>>
    /\ Goto(c, IF WakeOnConnect THEN "wake" ELSE "write")
    /\ UNCHANGED <<lock, last, callVars, stale, receiverVars>>

\* The dialer's error is wrapped, and a reset inside it is still a reset.
DialFails(c) ==
    /\ pc[c] = "dial"
    /\ \E err \in {"dial", "reset"} : AttemptFails(c, err)

\* wakeLocked: the write of @SYS:MODELNAME=?, whose failure is ignored.
WakeWrite(c) ==
    /\ pc[c] = "wake"
    /\ \/ conn = "open" /\ up' = Append(up, Request(c, "wake"))
       \/ UNCHANGED up
    /\ Goto(c, "drain")
    /\ UNCHANGED <<lock, last, callVars, conn, scanErr, down, stale, receiverVars>>

\* wakeLocked: raw reads until the wire is idle or the wake deadline passes.
\* What arrives later, and the tail of a half-read line, stays.
WakeDrain(c) ==
    /\ pc[c] = "drain"
    /\ \E n \in 0..Len(down) :
          /\ \A i \in 1..n : down[i].whole
          /\ down' = SubSeq(down, n + 1, Len(down))
    /\ Goto(c, "write")
    /\ UNCHANGED <<lock, last, callVars, conn, scanErr, up, stale, receiverVars>>

\* io.WriteString.  The kernel also takes bytes for a peer that has closed.
Write(c) ==
    /\ pc[c] = "write" /\ conn \in {"open", "eof"}
    /\ up' = IF conn = "open" THEN up \o RequestLines(c) ELSE up
    /\ Goto(c, "read")
    /\ UNCHANGED <<lock, last, callVars, conn, scanErr, down, stale, receiverVars>>

WriteFails(c) ==
    /\ pc[c] = "write"
    /\ cancelled \/ conn \in {"eof", "reset"}
    /\ AttemptFails(c, AttemptError("reset"))

\* Mutant: no read deadline is set, so nothing ends a silent wait.
ReadErrorWithoutDeadline(err) ==
    /\ scanErr = "none"
    /\ \/ err = "timeout" /\ cancelled
       \/ err = conn /\ conn \in {"eof", "reset"}

\* The error the next socket read returns: the attempt's deadline, the
\* watchdog's on a done context, or the peer's end of the connection.
ReadError(err) ==
    /\ scanErr = "none"
    /\ \/ err = "timeout" /\ (expired \/ cancelled)
       \/ err = conn /\ conn \in {"eof", "reset"}

\* scanner.Scan returns a token.  SendMulti keeps reading until the fence.
Token(c, token) ==
    \/ /\ c \notin Multi
       /\ got' = <<token>>
       /\ \E o \in LineOutcomes(c, token) : Return(c, o)
    \/ /\ c \in Multi
       /\ IsVersionEcho(token)
       /\ Return(c, "ok")
       /\ UNCHANGED got
    \/ /\ c \in Multi
       /\ ~IsVersionEcho(token) \/ ~token.whole
       /\ Len(got) < MaxMultiLines
       /\ got' = Append(got, token)
       /\ UNCHANGED <<pc, outcome, lock>>

\* A line ends in CRLF, or in the read error: bufio.Scanner hands splitCRLF
\* what it holds when a read fails, whatever the error, and splitCRLF returns
\* it as a line.
TokenReady(err) ==
    /\ scanErr = "none" /\ down # <<>>
    /\ IF Head(down).whole THEN err = "none"
                           ELSE err \in SocketErrors /\ ReadError(err)

\* The error that ended half a line is kept: every later Scan on this
\* connection reports it at once.
ScanLine(c) ==
    /\ pc[c] = "read"
    /\ \E err \in {"none"} \cup SocketErrors :
          TokenReady(err) /\ scanErr' = err
    /\ Token(c, Head(down))
    /\ down' = Tail(down)
    /\ UNCHANGED <<last, tries, cancelled, emitted, expired, conn, up, stale,
                   receiverVars>>

ScanFails(c) ==
    /\ pc[c] = "read"
    /\ \E err \in SocketErrors :
          /\ \/ scanErr = err
             \/ ReadError(err) /\ (err = "timeout" \/ down = <<>>)
          /\ AttemptFails(c, AttemptError(err))

\* ErrTooManyLines
TooManyLines(c) ==
    /\ pc[c] = "read" /\ c \in Multi
    /\ \E err \in {"none"} \cup SocketErrors : TokenReady(err)
    /\ ~IsVersionEcho(Head(down)) \/ ~Head(down).whole
    /\ Len(got) = MaxMultiLines
    /\ AttemptFails(c, "toomany")

CallStep(c) ==
    \/ Acquire(c) \/ Dial(c) \/ DialFails(c) \/ WakeWrite(c) \/ WakeDrain(c)
    \/ Write(c) \/ WriteFails(c) \/ ScanLine(c) \/ ScanFails(c)
    \/ TooManyLines(c)

\* Client.Close
Close ==
    /\ lock = NoCall /\ conn # "nil"
    /\ CloseLocked
    /\ UNCHANGED <<pc, lock, last, callVars, receiverVars>>

\* The deadline set on the connection for the current attempt passes.
Expire ==
    /\ lock # NoCall /\ pc[lock] = "read" /\ ~expired
    /\ expired' = TRUE
    /\ UNCHANGED <<pc, lock, last, tries, got, outcome, cancelled, emitted,
                   wireVars, receiverVars>>

\* The caller's context is cancelled.  A call looks at its context only once
\* it holds the mutex, so an earlier cancellation is one right after Acquire.
Cancel ==
    /\ lock # NoCall /\ ~cancelled
    /\ cancelled' = TRUE
    /\ UNCHANGED <<pc, lock, last, tries, got, outcome, emitted, expired,
                   wireVars, receiverVars>>

-----------------------------------------------------------------------------
(* The receiver and the network (external).                                *)

ClientUnchanged ==
    UNCHANGED <<pc, lock, last, tries, got, outcome, cancelled, expired, scanErr>>

Send(line) == conn = "open" /\ LastIsWhole(down) /\ down' = Append(down, line)

\* Answer a one-line request.
Serve ==
    /\ up # <<>>
    /\ LET r == Head(up) IN
          /\ r.kind = "cmd" /\ r.call \notin Multi
          /\ \E k \in {"value", "undefined", "restricted"}, w \in BOOLEAN :
                Send(Line(r.call, k, w))
          /\ executed' = [executed EXCEPT ![r.call] = @ + 1]
    /\ up' = Tail(up)
    /\ UNCHANGED <<conn, stale, emitted, pushes>> /\ ClientUnchanged

\* One report line of a fan-out, at the receiver's own pace.
Report ==
    /\ up # <<>>
    /\ LET r == Head(up) IN
          /\ r.kind = "cmd" /\ r.call \in Multi
          /\ emitted < MaxReports
          /\ \E w \in BOOLEAN : Send(Line(r.call, "report", w))
          /\ emitted' = emitted + 1
    /\ UNCHANGED <<conn, up, stale, executed, pushes>> /\ ClientUnchanged

EndReports ==
    /\ up # <<>> /\ conn = "open"
    /\ LET r == Head(up) IN
          /\ r.kind = "cmd" /\ r.call \in Multi
          /\ executed' = [executed EXCEPT ![r.call] = @ + 1]
    /\ up' = Tail(up)
    /\ UNCHANGED <<conn, down, stale, emitted, pushes>> /\ ClientUnchanged

\* Answer the fence, or the wake request.
Echo ==
    /\ up # <<>>
    /\ LET r == Head(up) IN
          /\ r.kind \in {"fence", "wake"}
          /\ \E w \in BOOLEAN : Send(Line(r.call, r.kind, w))
    /\ up' = Tail(up)
    /\ UNCHANGED <<conn, stale, emitted, receiverVars>> /\ ClientUnchanged

\* Standby drops a request without a word.
Ignore ==
    /\ up # <<>> /\ conn = "open"
    /\ up' = Tail(up)
    /\ UNCHANGED <<conn, down, stale, emitted, receiverVars>> /\ ClientUnchanged

\* An unsolicited report: a knob is turned, another controller acts.
Push ==
    /\ pushes < MaxPushes
    /\ \E w \in BOOLEAN : Send(Line(NoCall, "push", w))
    /\ pushes' = pushes + 1
    /\ UNCHANGED <<conn, up, stale, emitted, executed>> /\ ClientUnchanged

\* The rest of a half-delivered line arrives.
Complete ==
    /\ conn = "open" /\ ~LastIsWhole(down)
    /\ down' = [down EXCEPT ![Len(down)].whole = TRUE]
    /\ UNCHANGED <<conn, up, stale, emitted, receiverVars>> /\ ClientUnchanged

\* FIN: what was sent before it can still be read.
PeerClose ==
    /\ conn = "open"
    /\ conn' = "eof" /\ up' = <<>>
    /\ UNCHANGED <<down, stale, emitted, receiverVars>> /\ ClientUnchanged

\* RST: what the scanner has not buffered is lost.
PeerReset ==
    /\ conn \in {"open", "eof"}
    /\ conn' = "reset" /\ up' = <<>>
    /\ down' \in {down, <<>>}
    /\ UNCHANGED <<stale, emitted, receiverVars>> /\ ClientUnchanged

\* A request left in a closed connection is executed after all.
ServeStale ==
    /\ \E c \in stale :
          /\ executed' = [executed EXCEPT ![c] = @ + 1]
          /\ stale' = stale \ {c}
    /\ UNCHANGED <<conn, up, down, emitted, pushes>> /\ ClientUnchanged

Receiver ==
    \/ Serve \/ Report \/ EndReports \/ Echo \/ Ignore \/ Push \/ Complete
    \/ PeerClose \/ PeerReset \/ ServeStale

-----------------------------------------------------------------------------
Next == (\E c \in Calls : CallStep(c)) \/ Close \/ Expire \/ Cancel \/ Receiver

Spec == Init /\ [][Next]_vars

\* Goroutines run, the mutex is granted, and deadlines pass.  Nothing is
\* assumed of the receiver.
Fairness == (\A c \in Calls : WF_vars(CallStep(c))) /\ WF_vars(Expire)

FairSpec == Spec /\ Fairness

-----------------------------------------------------------------------------
(* Properties.                                                             *)

\* Every variable stays in its domain; two attempts are the most a call makes.
TypeOK ==
    /\ pc \in [Calls -> Places]
    /\ lock \in Calls \cup {NoCall}
    /\ last \in Calls \cup {NoCall}
    /\ tries \in 0..2
    /\ got \in Seq(Lines)
    /\ outcome \in Outcomes
    /\ cancelled \in BOOLEAN
    /\ emitted \in 0..MaxReports
    /\ expired \in BOOLEAN
    /\ conn \in {"nil", "open", "eof", "reset"}
    /\ scanErr \in {"none"} \cup SocketErrors
    /\ up \in Seq(Requests)
    /\ down \in Seq(Lines)
    /\ stale \subseteq Calls
    /\ executed \in [Calls -> Nat]
    /\ pushes \in 0..MaxPushes

\* A Send that returns a line returns the answer to its own request, never
\* the answer to another call's (classifyReply names the in-flight line).
ReplyIsOwn ==
    last \notin Multi =>
        \A i \in 1..Len(got) : got[i].call = last /\ got[i].kind # "wake"

\* A SendMulti that succeeds returns every report line the receiver produced
\* for it in that attempt and none it produced for another fan-out, on a
\* connection nobody probes or nothing is pushed on: the fence is the end of its
\* own reply.  A pushed line, or the answer to a Send that such a line displaced,
\* may stand among them: nothing tells it from a line of the reply.
MultiComplete ==
    last \in Multi /\ outcome = "ok" =>
        /\ \A i \in 1..Len(got) : got[i].kind = "report" => got[i].call = last
        /\ Cardinality({i \in 1..Len(got) : got[i].kind = "report"}) = emitted

\* Between calls a usable connection is silent in both directions, so the
\* next call cannot be answered by a leftover of an earlier one.
IdleWireIsClean ==
    lock = NoCall /\ scanErr = "none" => up = <<>> /\ down = <<>>

\* A request is written a second time only after the connection was seen to
\* be gone: never because the receiver was slow or the caller gave up.
RetryOnlyAfterReset ==
    [][tries = 1 /\ tries' = 2 =>
          (\E c \in Calls : pc[c] = "dial") \/ conn \in {"eof", "reset"}]_vars

\* A request is executed once (what runYNCASet promises of a mutation).
ExecutedOnce == \A c \in Calls : executed[c] <= 1

-----------------------------------------------------------------------------
(* The inductive invariant behind ReplyIsOwn and IdleWireIsClean, for a    *)
(* receiver that pushes nothing and a client that sends no wake request.   *)

QuietWire == MaxPushes = 0 /\ ~WakeOnConnect

\* The mutex is held by the one call that is inside its critical section.
LockInv ==
    /\ \A c \in Calls : lock = c <=> pc[c] \notin {"waiting", "done"}
    /\ lock # NoCall => last = lock

\* A Send in progress: its request, or the answer to it, or neither.
OneLineExchange(c) ==
    /\ up # <<>> => up = <<Request(c, "cmd")>> /\ down = <<>>
    /\ down # <<>> => /\ Len(down) = 1
                     /\ down[1].call = c /\ down[1].kind # "wake"

\* A SendMulti in progress: the fence is the last request, and its echo is
\* the last line.
FanOutExchange(c) ==
    /\ up \in {<<Request(c, "cmd"), Request(c, "fence")>>,
               <<Request(c, "fence")>>, <<>>}
    /\ \A i \in 1..Len(down) :
          \/ down[i].kind = "report"
          \/ down[i].kind = "fence" /\ i = Len(down) /\ up = <<>>

\* While the scanner is good, the wire holds the exchange in progress and
\* nothing else.
WireInv ==
    scanErr = "none" =>
        /\ (\A c \in Calls : pc[c] # "read") => up = <<>> /\ down = <<>>
        /\ \A c \in Calls \ Multi : pc[c] = "read" => OneLineExchange(c)
        /\ \A c \in Multi : pc[c] = "read" => FanOutExchange(c)

PairingInv ==
    /\ LockInv
    /\ \A c \in Calls : pc[c] \notin {"wake", "drain"}
    /\ WireInv
    /\ ReplyIsOwn

-----------------------------------------------------------------------------
\* Every call returns, whatever the receiver does.
CallsReturn == \A c \in Calls : <>(pc[c] = "done")

=============================================================================
