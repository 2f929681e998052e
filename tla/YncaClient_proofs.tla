------------------------- MODULE YncaClient_proofs -------------------------
(***************************************************************************)
(* Proofs about YncaClient, for any set of calls, any bounds and any       *)
(* behaviour of the receiver that YncaClient allows.                       *)
(***************************************************************************)
EXTENDS YncaClient, TLAPS, SequenceTheorems, FiniteSetTheorems, FunctionTheorems

(* A line taken from either end of a sequence of lines, or added to it.    *)

LEMMA RequestLinesType ==
    ASSUME NEW c \in Calls
    PROVE  RequestLines(c) \in Seq(Requests)
  <1>1. Request(c, "cmd") \in Requests /\ Request(c, "fence") \in Requests
    BY DEF Request, Requests
  <1>2. /\ <<Request(c, "cmd"), Request(c, "fence")>> \in Seq(Requests)
        /\ <<Request(c, "cmd")>> \in Seq(Requests)
    BY <1>1
  <1> QED
    BY <1>2 DEF RequestLines

\* Finishing the last line of a sequence leaves a sequence of lines.
LEMMA CompleteType ==
    ASSUME NEW s \in Seq(Lines), s # <<>>
    PROVE  /\ [s EXCEPT ![Len(s)].whole = TRUE] \in Seq(Lines)
           /\ Len([s EXCEPT ![Len(s)].whole = TRUE]) = Len(s)
  <1>1. /\ Len(s) \in Nat /\ Len(s) > 0 /\ DOMAIN s = 1..Len(s)
        /\ s[Len(s)] \in Lines
    OBVIOUS
  <1>2. [s[Len(s)] EXCEPT !.whole = TRUE] \in Lines
    BY <1>1 DEF Lines
  <1> DEFINE t == [s EXCEPT ![Len(s)].whole = TRUE]
  <1>3. /\ DOMAIN t = 1..Len(s)
        /\ \A i \in 1..Len(s) : t[i] \in Lines
    BY <1>1, <1>2
  <1>4. t \in [1..Len(s) -> Lines]
    BY <1>1, <1>3
  <1>5. t \in Seq(Lines) /\ Len(t) = Len(s)
    BY <1>1, <1>4
  <1> QED
    BY <1>5

----------------------------------------------------------------------------
(* Type correctness.                                                       *)

LEMMA InitTypeOK == Init => TypeOK
  <1> SUFFICES ASSUME Init PROVE TypeOK
    OBVIOUS
  <1>1. /\ pc \in [Calls -> Places]
        /\ executed \in [Calls -> Nat]
    BY DEF Init, Places
  <1>2. tries \in 0..2 /\ emitted \in 0..MaxReports /\ pushes \in 0..MaxPushes
    BY CallsAssumption DEF Init
  <1>3. got \in Seq(Lines) /\ up \in Seq(Requests) /\ down \in Seq(Lines)
    BY DEF Init
  <1> QED
    BY <1>1, <1>2, <1>3 DEF Init, TypeOK, Outcomes, SocketErrors

LEMMA CloseTypeOK ==
    ASSUME TypeOK, CloseLocked
    PROVE  /\ conn' = "nil" /\ scanErr' = "none"
           /\ up' = <<>> /\ down' = <<>>
           /\ stale' \subseteq Calls
  <1>1. Unserved(up) \subseteq Calls
    <2>1. \A i \in 1..Len(up) : up[i] \in Requests
      BY DEF TypeOK
    <2>2. \A q \in Requests : q.call \in Calls
      BY DEF Requests
    <2> QED
      BY <2>1, <2>2 DEF Unserved
  <1>2. stale' = stale \cup Unserved(up) /\ stale \subseteq Calls
    BY DEF CloseLocked, TypeOK
  <1> QED
    BY <1>1, <1>2 DEF CloseLocked

LEMMA ErrorOutcomes ==
    ASSUME NEW c \in Calls,
           NEW err \in SocketErrors \cup {"dial", "toomany"}
    PROVE  /\ AttemptError(err) \in {"ctx", "noreply", "eof", "reset", "dial", "toomany"}
           /\ CallerError(c, AttemptError(err)) \in Outcomes
           /\ CallerError(c, err) \in Outcomes \cup {"timeout"}
  BY DEF AttemptError, CallerError, SocketErrors, Outcomes

LEMMA AttemptFailsTypeOK ==
    ASSUME TypeOK, NEW c \in Calls, NEW err,
           err \in {"ctx", "noreply", "eof", "reset", "dial", "toomany"},
           AttemptFails(c, err)
    PROVE  TypeOK'
  <1>1. CallerError(c, err) \in Outcomes
    BY DEF CallerError, Outcomes
  <1>2. /\ conn' = "nil" /\ scanErr' = "none" /\ up' = <<>> /\ down' = <<>>
        /\ stale' \subseteq Calls
    BY CloseTypeOK DEF AttemptFails
  <1>3. /\ pc' \in [Calls -> Places]
        /\ lock' \in Calls \cup {NoCall}
        /\ tries' \in 0..2 /\ got' \in Seq(Lines) /\ outcome' \in Outcomes
        /\ emitted' \in 0..MaxReports /\ expired' \in BOOLEAN
    <2>1. CASE Retry(c)
      <3>1. pc' \in [Calls -> Places]
        BY <2>1 DEF Retry, Goto, TypeOK, Places
      <3>2. tries' \in 0..2 /\ emitted' \in 0..MaxReports
        BY <2>1, CallsAssumption DEF Retry
      <3>3. got' \in Seq(Lines)
        BY <2>1 DEF Retry
      <3> QED
        BY <2>1, <3>1, <3>2, <3>3 DEF Retry, TypeOK
    <2>2. CASE /\ Return(c, CallerError(c, err))
               /\ UNCHANGED <<tries, got, emitted, expired>>
      <3>1. pc' \in [Calls -> Places]
        BY <2>2 DEF Return, Goto, TypeOK, Places
      <3> QED
        BY <1>1, <2>2, <3>1 DEF Return, TypeOK
    <2> QED
      BY <2>1, <2>2 DEF AttemptFails
  <1>4. UNCHANGED <<last, cancelled, executed, pushes>>
    BY DEF AttemptFails, receiverVars
  <1> QED
    BY <1>2, <1>3, <1>4 DEF TypeOK

LEMMA TokenTypeOK ==
    ASSUME TypeOK, NEW c \in Calls, NEW token \in Lines, Token(c, token)
    PROVE  /\ pc' \in [Calls -> Places]
           /\ lock' \in Calls \cup {NoCall}
           /\ got' \in Seq(Lines)
           /\ outcome' \in Outcomes
  <1>1. LineOutcomes(c, token) \subseteq Outcomes
    BY DEF LineOutcomes, Outcomes
  <1>2. CASE \E o \in Outcomes : Return(c, o) /\ got' \in {got, <<token>>}
    <2>1. pc' \in [Calls -> Places]
      BY <1>2 DEF Return, Goto, TypeOK, Places
    <2>2. <<token>> \in Seq(Lines)
      OBVIOUS
    <2>3. got' \in Seq(Lines)
      BY <1>2, <2>2 DEF TypeOK
    <2> QED
      BY <1>2, <2>1, <2>3 DEF Return, TypeOK
  <1>3. CASE got' = Append(got, token) /\ UNCHANGED <<pc, outcome, lock>>
    BY <1>3 DEF TypeOK
  <1> QED
    BY <1>1, <1>2, <1>3 DEF Token, Outcomes

LEMMA CallStepTypeOK ==
    ASSUME TypeOK, NEW c \in Calls, CallStep(c)
    PROVE  TypeOK'
  <1>1. CASE Acquire(c)
    <2>1. pc' \in [Calls -> Places]
      BY <1>1 DEF Acquire, Goto, TypeOK, Places
    <2>2. tries' \in 0..2 /\ emitted' \in 0..MaxReports
      BY <1>1, CallsAssumption DEF Acquire
    <2>3. got' \in Seq(Lines)
      BY <1>1 DEF Acquire
    <2> QED
      BY <1>1, <2>1, <2>2, <2>3
         DEF Acquire, TypeOK, wireVars, receiverVars, Outcomes
  <1>2. CASE Dial(c)
    BY <1>2 DEF Dial, Goto, TypeOK, Places, callVars, receiverVars
  <1>3. CASE DialFails(c)
    BY <1>3, AttemptFailsTypeOK DEF DialFails
  <1>4. CASE WakeWrite(c)
    <2>1. up' \in Seq(Requests)
      <3>1. Request(c, "wake") \in Requests
        BY DEF Request, Requests
      <3>2. up \in Seq(Requests)
        BY DEF TypeOK
      <3>3. Append(up, Request(c, "wake")) \in Seq(Requests)
        BY <3>1, <3>2
      <3> QED
        BY <1>4, <3>2, <3>3 DEF WakeWrite
    <2> QED
      BY <1>4, <2>1 DEF WakeWrite, Goto, TypeOK, Places, callVars, receiverVars
  <1>5. CASE WakeDrain(c)
    <2>1. down' \in Seq(Lines)
      <3>1. PICK n \in 0..Len(down) : down' = SubSeq(down, n + 1, Len(down))
        BY <1>5 DEF WakeDrain
      <3> QED
        BY <3>1, SubSeqProperties DEF TypeOK
    <2> QED
      BY <1>5, <2>1 DEF WakeDrain, Goto, TypeOK, Places, callVars, receiverVars
  <1>6. CASE Write(c)
    <2>1. up' \in Seq(Requests)
      BY <1>6, RequestLinesType DEF Write, TypeOK
    <2> QED
      BY <1>6, <2>1 DEF Write, Goto, TypeOK, Places, callVars, receiverVars
  <1>7. CASE WriteFails(c)
    BY <1>7, AttemptFailsTypeOK DEF WriteFails, AttemptError
  <1>8. CASE ScanLine(c)
    <2>1. Head(down) \in Lines /\ Tail(down) \in Seq(Lines)
      BY <1>8 DEF ScanLine, TokenReady, TypeOK
    <2>2. scanErr' \in {"none"} \cup SocketErrors
      BY <1>8 DEF ScanLine
    <2>3. Token(c, Head(down)) /\ down' = Tail(down)
      BY <1>8 DEF ScanLine
    <2> QED
      BY <1>8, <2>1, <2>2, <2>3, TokenTypeOK
         DEF ScanLine, TypeOK, receiverVars
  <1>9. CASE ScanFails(c)
    <2>1. PICK err \in SocketErrors : AttemptFails(c, AttemptError(err))
      BY <1>9 DEF ScanFails
    <2> QED
      BY <2>1, ErrorOutcomes, AttemptFailsTypeOK
  <1>10. CASE TooManyLines(c)
    BY <1>10, AttemptFailsTypeOK DEF TooManyLines
  <1> QED
    BY <1>1, <1>2, <1>3, <1>4, <1>5, <1>6, <1>7, <1>8, <1>9, <1>10
       DEF CallStep

LEMMA SendTypeOK ==
    ASSUME TypeOK, NEW line \in Lines, Send(line)
    PROVE  down' \in Seq(Lines)
  BY DEF Send, TypeOK

LEMMA ReceiverTypeOK ==
    ASSUME TypeOK, Receiver
    PROVE  TypeOK'
  <1> DEFINE r == Head(up)
  <1>0. up # <<>> => r \in Requests /\ r.call \in Calls /\ Tail(up) \in Seq(Requests)
    <2>1. up # <<>> => Head(up) \in Requests /\ Tail(up) \in Seq(Requests)
      BY HeadTailProperties DEF TypeOK
    <2> QED
      BY <2>1 DEF Requests
  <1>1. CASE Serve
    <2>1. PICK k \in {"value", "undefined", "restricted"}, w \in BOOLEAN :
             Send(Line(r.call, k, w))
      BY <1>1 DEF Serve
    <2>2. down' \in Seq(Lines)
      BY <1>0, <1>1, <2>1, SendTypeOK DEF Serve, Line, Lines
    <2>3. executed' \in [Calls -> Nat]
      BY <1>0, <1>1 DEF Serve, TypeOK
    <2> QED
      BY <1>0, <1>1, <2>2, <2>3 DEF Serve, ClientUnchanged, TypeOK
  <1>2. CASE Report
    <2>1. PICK w \in BOOLEAN : Send(Line(r.call, "report", w))
      BY <1>2 DEF Report
    <2>2. down' \in Seq(Lines)
      BY <1>0, <1>2, <2>1, SendTypeOK DEF Report, Line, Lines
    <2>3. emitted' \in 0..MaxReports
      BY <1>2, CallsAssumption DEF Report, TypeOK
    <2> QED
      BY <1>2, <2>2, <2>3 DEF Report, ClientUnchanged, TypeOK
  <1>3. CASE EndReports
    <2>1. executed' \in [Calls -> Nat]
      BY <1>0, <1>3 DEF EndReports, TypeOK
    <2> QED
      BY <1>0, <1>3, <2>1 DEF EndReports, ClientUnchanged, TypeOK
  <1>4. CASE Echo
    <2>1. PICK w \in BOOLEAN : Send(Line(r.call, r.kind, w))
      BY <1>4 DEF Echo
    <2>2. down' \in Seq(Lines)
      BY <1>0, <1>4, <2>1, SendTypeOK DEF Echo, Line, Lines
    <2> QED
      BY <1>0, <1>4, <2>2 DEF Echo, ClientUnchanged, TypeOK, receiverVars
  <1>5. CASE Ignore
    BY <1>0, <1>5 DEF Ignore, ClientUnchanged, TypeOK, receiverVars
  <1>6. CASE Push
    <2>1. down' \in Seq(Lines)
      BY <1>6, SendTypeOK DEF Push, Line, Lines
    <2>2. pushes' \in 0..MaxPushes
      BY <1>6, CallsAssumption DEF Push, TypeOK
    <2> QED
      BY <1>6, <2>1, <2>2 DEF Push, ClientUnchanged, TypeOK
  <1>7. CASE Complete
    <2>1. down # <<>>
      BY <1>7 DEF Complete, LastIsWhole
    <2>2. down' \in Seq(Lines)
      BY <1>7, <2>1, CompleteType DEF Complete, TypeOK
    <2> QED
      BY <1>7, <2>2 DEF Complete, ClientUnchanged, TypeOK, receiverVars
  <1>8. CASE PeerClose
    BY <1>8 DEF PeerClose, ClientUnchanged, TypeOK, receiverVars
  <1>9. CASE PeerReset
    <2>1. down' \in Seq(Lines) /\ up' \in Seq(Requests)
      <3>1. <<>> \in Seq(Lines) /\ <<>> \in Seq(Requests)
        OBVIOUS
      <3> QED
        BY <1>9, <3>1 DEF PeerReset, TypeOK
    <2> QED
      BY <1>9, <2>1 DEF PeerReset, ClientUnchanged, TypeOK, receiverVars
  <1>10. CASE ServeStale
    <2>1. executed' \in [Calls -> Nat] /\ stale' \subseteq Calls
      BY <1>10 DEF ServeStale, TypeOK
    <2> QED
      BY <1>10, <2>1 DEF ServeStale, ClientUnchanged, TypeOK
  <1> QED
    BY <1>1, <1>2, <1>3, <1>4, <1>5, <1>6, <1>7, <1>8, <1>9, <1>10
       DEF Receiver

LEMMA NextTypeOK == TypeOK /\ [Next]_vars => TypeOK'
  <1> SUFFICES ASSUME TypeOK, [Next]_vars PROVE TypeOK'
    OBVIOUS
  <1>1. ASSUME NEW c \in Calls, CallStep(c) PROVE TypeOK'
    BY <1>1, CallStepTypeOK
  <1>2. CASE Close
    <2>1. /\ conn' = "nil" /\ scanErr' = "none" /\ up' = <<>> /\ down' = <<>>
          /\ stale' \subseteq Calls
      BY <1>2, CloseTypeOK DEF Close
    <2> QED
      BY <1>2, <2>1 DEF Close, TypeOK, callVars, receiverVars
  <1>3. CASE Expire
    BY <1>3 DEF Expire, TypeOK, wireVars, receiverVars
  <1>4. CASE Cancel
    BY <1>4 DEF Cancel, TypeOK, wireVars, receiverVars
  <1>5. CASE Receiver
    BY <1>5, ReceiverTypeOK
  <1>6. CASE UNCHANGED vars
    BY <1>6 DEF vars, callVars, wireVars, receiverVars, TypeOK
  <1> QED
    BY <1>1, <1>2, <1>3, <1>4, <1>5, <1>6 DEF Next

\* Every variable stays in its domain, and no call makes a third attempt.
THEOREM TypeCorrect == Spec => []TypeOK
  BY InitTypeOK, NextTypeOK, PTL DEF Spec

----------------------------------------------------------------------------
(* Mutual exclusion, with or without pushes and the wake exchange.         *)

LEMMA InitLockInv == Init => LockInv
  BY CallsAssumption DEF Init, LockInv

\* A call inside its critical section is the only one there.
LEMMA Holder ==
    ASSUME LockInv, NEW c \in Calls, pc[c] \notin {"waiting", "done"}
    PROVE  /\ lock = c /\ last = c
           /\ \A d \in Calls \ {c} : pc[d] \in {"waiting", "done"}
  BY CallsAssumption DEF LockInv

\* What a step of call c may do to the mutex and to c's place.
CallMove(c) ==
    \/ /\ pc[c] = "waiting" /\ lock = NoCall
       /\ lock' = c /\ last' = c
       /\ \E p \in Places \ {"waiting", "done"} : pc' = [pc EXCEPT ![c] = p]
    \/ /\ pc[c] \notin {"waiting", "done"} /\ last' = last /\ lock' = lock
       /\ \/ UNCHANGED pc
          \/ \E p \in Places \ {"waiting", "done"} : pc' = [pc EXCEPT ![c] = p]
    \/ /\ pc[c] \notin {"waiting", "done"} /\ last' = last /\ lock' = NoCall
       /\ pc' = [pc EXCEPT ![c] = "done"]

LEMMA AttemptFailsMove ==
    ASSUME NEW c \in Calls, NEW err, AttemptFails(c, err),
           pc[c] \notin {"waiting", "done"}
    PROVE  CallMove(c)
  BY DEF AttemptFails, Retry, Return, Goto, CallMove, Places

LEMMA CallStepMove ==
    ASSUME NEW c \in Calls, CallStep(c)
    PROVE  CallMove(c)
  <1>1. CASE Acquire(c)
    <2>1. PICK p \in {"dial", "write"} : pc' = [pc EXCEPT ![c] = p]
      BY <1>1 DEF Acquire, Goto
    <2>2. p \in Places \ {"waiting", "done"}
      BY DEF Places
    <2> QED
      BY <1>1, <2>1, <2>2 DEF Acquire, CallMove
  <1>2. CASE Dial(c)
    BY <1>2 DEF Dial, Goto, CallMove, Places
  <1>3. CASE DialFails(c)
    BY <1>3, AttemptFailsMove DEF DialFails
  <1>4. CASE WakeWrite(c)
    BY <1>4 DEF WakeWrite, Goto, CallMove, Places
  <1>5. CASE WakeDrain(c)
    BY <1>5 DEF WakeDrain, Goto, CallMove, Places
  <1>6. CASE Write(c)
    BY <1>6 DEF Write, Goto, CallMove, Places
  <1>7. CASE WriteFails(c)
    BY <1>7, AttemptFailsMove DEF WriteFails
  <1>8. CASE ScanLine(c)
    BY <1>8 DEF ScanLine, Token, Return, Goto, CallMove
  <1>9. CASE ScanFails(c)
    BY <1>9, AttemptFailsMove DEF ScanFails
  <1>10. CASE TooManyLines(c)
    BY <1>10, AttemptFailsMove DEF TooManyLines
  <1> QED
    BY <1>1, <1>2, <1>3, <1>4, <1>5, <1>6, <1>7, <1>8, <1>9, <1>10
       DEF CallStep

LEMMA CallMoveLockInv ==
    ASSUME TypeOK, LockInv, NEW c \in Calls, CallMove(c)
    PROVE  LockInv'
  <1>1. \A d \in Calls \ {c} : pc'[d] = pc[d]
    BY DEF CallMove, TypeOK
  <1>2. CASE pc[c] = "waiting" /\ lock = NoCall
    BY <1>1, <1>2, CallsAssumption DEF CallMove, LockInv, TypeOK
  <1>3. CASE pc[c] \notin {"waiting", "done"}
    <2>1. /\ lock = c /\ last = c
          /\ \A d \in Calls \ {c} : pc[d] \in {"waiting", "done"}
      BY <1>3, Holder
    <2> QED
      BY <1>1, <1>3, <2>1, CallsAssumption DEF CallMove, LockInv, TypeOK
  <1> QED
    BY <1>2, <1>3 DEF CallMove

LEMMA NextLockInv == TypeOK /\ LockInv /\ [Next]_vars => LockInv'
  <1> SUFFICES ASSUME TypeOK, LockInv, [Next]_vars PROVE LockInv'
    OBVIOUS
  <1>1. ASSUME NEW c \in Calls, CallStep(c) PROVE LockInv'
    BY <1>1, CallStepMove, CallMoveLockInv
  <1>2. CASE UNCHANGED <<pc, lock, last>>
    BY <1>2 DEF LockInv
  <1>3. (Close \/ Expire \/ Cancel \/ Receiver \/ UNCHANGED vars)
          => UNCHANGED <<pc, lock, last>>
    BY DEF Close, Expire, Cancel, Receiver, Serve, Report, EndReports, Echo,
           Ignore, Push, Complete, PeerClose, PeerReset, ServeStale,
           ClientUnchanged, vars
  <1> QED
    BY <1>1, <1>2, <1>3 DEF Next

\* At most one call at a time dials, writes or reads (Client.mu).
THEOREM MutualExclusion == Spec => []LockInv
  <1>1. Spec => []TypeOK
    BY TypeCorrect
  <1> QED
    BY <1>1, InitLockInv, NextLockInv, PTL DEF Spec

----------------------------------------------------------------------------
(* The wire holds one exchange at a time, so a reply is the caller's own.  *)

LEMMA InitPairingInv == Init => PairingInv
  <1> SUFFICES ASSUME Init PROVE PairingInv
    OBVIOUS
  <1>1. LockInv
    BY InitLockInv
  <1>2. \A c \in Calls : pc[c] = "waiting"
    BY DEF Init
  <1>3. WireInv
    BY <1>2, CallsAssumption DEF Init, WireInv
  <1>4. ReplyIsOwn
    BY DEF Init, ReplyIsOwn
  <1> QED
    BY <1>1, <1>2, <1>3, <1>4 DEF PairingInv

\* Two ways to re-establish WireInv after a step of the holder c: the
\* connection is silent, or only c reads and its exchange is well formed.
LEMMA SilentWire ==
    ASSUME up' = <<>>, down' = <<>>
    PROVE  WireInv'
  BY DEF WireInv, OneLineExchange, FanOutExchange

LEMMA OneReader ==
    ASSUME NEW c \in Calls, \A d \in Calls \ {c} : pc'[d] # "read",
           pc'[c] = "read",
           scanErr' = "none" => IF c \in Multi THEN FanOutExchange(c)'
                                               ELSE OneLineExchange(c)'
    PROVE  WireInv'
  BY CallsAssumption DEF WireInv

LEMMA NoReader ==
    ASSUME \A d \in Calls : pc'[d] # "read",
           scanErr' = "none" => up' = <<>> /\ down' = <<>>
    PROVE  WireInv'
  BY CallsAssumption DEF WireInv

LEMMA AttemptFailsPairing ==
    ASSUME TypeOK, PairingInv, NEW c \in Calls, NEW err, AttemptFails(c, err),
           pc[c] \notin {"waiting", "done"}
    PROVE  WireInv' /\ ReplyIsOwn'
  <1>1. WireInv'
    BY SilentWire DEF AttemptFails, CloseLocked
  <1>2. last' = last /\ (got' = got \/ got' = <<>>)
    BY DEF AttemptFails, Retry
  <1>3. ReplyIsOwn'
    BY <1>2 DEF PairingInv, ReplyIsOwn
  <1> QED
    BY <1>1, <1>3

\* The pieces of a well-formed exchange that one Scan or one answer leaves.
LEMMA OneLineScanned ==
    ASSUME TypeOK, NEW c \in Calls, OneLineExchange(c), down # <<>>
    PROVE  up = <<>> /\ Tail(down) = <<>> /\ Head(down).call = c /\ Head(down).kind # "wake"
  <1>1. up = <<>> /\ Len(down) = 1 /\ down[1].call = c /\ down[1].kind # "wake"
    BY DEF OneLineExchange
  <1>2. Len(Tail(down)) = 0 /\ Tail(down) \in Seq(Lines)
    BY <1>1 DEF TypeOK
  <1>3. Tail(down) = <<>>
    BY <1>2, EmptySeq
  <1> QED
    BY <1>1, <1>3 DEF TypeOK

LEMMA FanOutScanned ==
    ASSUME TypeOK, NEW c \in Multi, FanOutExchange(c), down # <<>>
    PROVE  /\ Tail(down) \in Seq(Lines)
           /\ IsVersionEcho(Head(down)) => up = <<>> /\ Tail(down) = <<>>
           /\ \A i \in 1..Len(Tail(down)) :
                 \/ Tail(down)[i].kind = "report"
                 \/ /\ Tail(down)[i].kind = "fence"
                    /\ i = Len(Tail(down)) /\ up = <<>>
  <1>0. PICK t : t = Tail(down)
    OBVIOUS
  <1>1. /\ t \in Seq(Lines) /\ Len(t) = Len(down) - 1
        /\ Len(down) \in Nat /\ Len(down) > 0
        /\ Head(down) = down[1]
        /\ \A i \in 1..Len(t) : t[i] = down[i + 1]
    BY <1>0, HeadTailProperties DEF TypeOK
  <1>2. \A i \in 1..Len(down) :
          \/ down[i].kind = "report"
          \/ down[i].kind = "fence" /\ i = Len(down) /\ up = <<>>
    BY DEF FanOutExchange
  <1>3. IsVersionEcho(Head(down)) => Len(down) = 1 /\ up = <<>>
    <2>1. 1 \in 1..Len(down)
      BY <1>1
    <2>2. \/ down[1].kind = "report"
          \/ Len(down) = 1 /\ up = <<>>
      BY <1>2, <2>1
    <2> QED
      BY <1>1, <2>2 DEF IsVersionEcho
  <1>4. Len(t) = 0 => t = <<>>
    BY <1>1, EmptySeq
  <1>5. ASSUME NEW i \in 1..Len(t)
        PROVE  \/ t[i].kind = "report"
               \/ /\ t[i].kind = "fence"
                  /\ i = Len(t) /\ up = <<>>
    <2>1. i + 1 \in 1..Len(down) /\ t[i] = down[i + 1]
      BY <1>1
    <2>2. \/ down[i + 1].kind = "report"
          \/ down[i + 1].kind = "fence" /\ i + 1 = Len(down) /\ up = <<>>
      BY <1>2, <2>1
    <2>3. i + 1 = Len(down) => i = Len(t)
      BY <1>1
    <2> QED
      BY <2>1, <2>2, <2>3
  <1>6. IsVersionEcho(Head(down)) => up = <<>> /\ t = <<>>
    BY <1>1, <1>3, <1>4
  <1>7. /\ t \in Seq(Lines)
        /\ IsVersionEcho(Head(down)) => up = <<>> /\ t = <<>>
        /\ \A i \in 1..Len(t) :
             \/ t[i].kind = "report"
             \/ /\ t[i].kind = "fence"
                /\ i = Len(t) /\ up = <<>>
    BY <1>1, <1>5, <1>6, Zenon
  <1> QED
    BY <1>0, <1>7, Zenon

LEMMA FanOutRequests ==
    ASSUME NEW c \in Calls
    PROVE  /\ Head(<<Request(c, "cmd"), Request(c, "fence")>>) = Request(c, "cmd")
           /\ Tail(<<Request(c, "cmd"), Request(c, "fence")>>) = <<Request(c, "fence")>>
           /\ Head(<<Request(c, "fence")>>) = Request(c, "fence")
           /\ Tail(<<Request(c, "fence")>>) = <<>>
           /\ Head(<<Request(c, "cmd")>>) = Request(c, "cmd")
           /\ Tail(<<Request(c, "cmd")>>) = <<>>
  OBVIOUS

LEMMA RequestFields ==
    ASSUME NEW c \in Calls, NEW k \in {"cmd", "fence", "wake"}
    PROVE  Request(c, k).call = c /\ Request(c, k).kind = k
  BY DEF Request

LEMMA CallStepPairing ==
    ASSUME QuietWire, TypeOK, PairingInv, NEW c \in Calls, CallStep(c)
    PROVE  PairingInv'
  <1> USE CallsAssumption
  <1>1. CallMove(c) /\ LockInv'
    BY CallStepMove, CallMoveLockInv DEF PairingInv
  <1>2. \A d \in Calls \ {c} : pc'[d] = pc[d]
    BY <1>1 DEF CallMove, TypeOK
  <1>3. \A d \in Calls \ {c} : pc[d] \in {"waiting", "done"}
    BY <1>1, Holder DEF PairingInv, CallMove, LockInv
  <1>4. pc[c] # "read" /\ scanErr = "none" => up = <<>> /\ down = <<>>
    BY <1>3 DEF PairingInv, WireInv
  <1>5. pc[c] # "waiting" => lock = c /\ last = c
    BY <1>1, Holder DEF CallMove, PairingInv
  <1> SUFFICES /\ WireInv' /\ ReplyIsOwn'
               /\ pc'[c] \notin {"wake", "drain"}
    BY <1>1, <1>2, <1>3 DEF PairingInv
  <1>6. CASE Acquire(c)
    <2>1. pc'[c] \in {"dial", "write"}
      BY <1>6 DEF Acquire, Goto, TypeOK
    <2>2. WireInv'
      BY <1>2, <1>3, <1>4, <1>6, <2>1, NoReader DEF Acquire, wireVars
    <2>3. ReplyIsOwn'
      BY <1>6 DEF Acquire, ReplyIsOwn
    <2> QED
      BY <2>1, <2>2, <2>3
  <1>7. CASE Dial(c)
    <2>1. pc'[c] = "write"
      BY <1>7 DEF Dial, Goto, TypeOK, QuietWire
    <2>2. WireInv'
      BY <1>7, SilentWire DEF Dial
    <2>3. ReplyIsOwn'
      BY <1>7 DEF Dial, ReplyIsOwn, callVars, PairingInv
    <2> QED
      BY <2>1, <2>2, <2>3
  <1>8. ASSUME NEW err, AttemptFails(c, err), pc[c] \notin {"waiting", "done"}
        PROVE  WireInv' /\ ReplyIsOwn' /\ pc'[c] \notin {"wake", "drain"}
    <2>1. pc'[c] \in {"dial", "done"}
      BY <1>8 DEF AttemptFails, Retry, Return, Goto, TypeOK
    <2> QED
      BY <1>8, <2>1, AttemptFailsPairing
  <1>9. CASE DialFails(c)
    BY <1>8, <1>9 DEF DialFails
  <1>10. CASE WakeWrite(c) \/ WakeDrain(c)
    BY <1>10 DEF WakeWrite, WakeDrain, PairingInv
  <1>11. CASE Write(c)
    <2>1. pc'[c] = "read" /\ pc[c] = "write"
      BY <1>11 DEF Write, Goto, TypeOK
    <2>2. ASSUME scanErr' = "none"
          PROVE  down' = <<>> /\ (up' = RequestLines(c) \/ up' = <<>>)
      <3>1. up = <<>> /\ down = <<>>
        BY <1>4, <1>11, <2>1, <2>2 DEF Write
      <3>2. <<>> \o RequestLines(c) = RequestLines(c)
        BY RequestLinesType, ConcatEmptySeq
      <3> QED
        BY <1>11, <3>1, <3>2 DEF Write
    <2>3. ASSUME scanErr' = "none", c \in Multi PROVE FanOutExchange(c)'
      BY <2>2, <2>3 DEF FanOutExchange, RequestLines
    <2>4. ASSUME scanErr' = "none", c \notin Multi PROVE OneLineExchange(c)'
      BY <2>2, <2>4 DEF OneLineExchange, RequestLines
    <2>5. WireInv'
      BY <1>2, <1>3, <2>1, <2>3, <2>4, OneReader
    <2>6. ReplyIsOwn'
      BY <1>11 DEF Write, ReplyIsOwn, callVars, PairingInv
    <2> QED
      BY <2>1, <2>5, <2>6
  <1>12. CASE WriteFails(c)
    BY <1>8, <1>12 DEF WriteFails
  <1>13. CASE ScanLine(c)
    <2>1. /\ pc[c] = "read" /\ scanErr = "none" /\ down # <<>>
          /\ Token(c, Head(down)) /\ down' = Tail(down) /\ up' = up
          /\ last' = last
      BY <1>13 DEF ScanLine, TokenReady
    <2>2. last' = c
      BY <1>5, <2>1
    <2>3. CASE c \notin Multi
      <3>1. OneLineExchange(c)
        BY <2>1, <2>3 DEF PairingInv, WireInv
      <3>2. /\ up = <<>> /\ Tail(down) = <<>>
            /\ Head(down).call = c /\ Head(down).kind # "wake"
        BY <2>1, <3>1, OneLineScanned
      <3>3. pc'[c] = "done" /\ got' = <<Head(down)>>
        BY <2>1, <2>3 DEF Token, Return, Goto, TypeOK
      <3>4. WireInv'
        BY <2>1, <3>2, SilentWire
      <3>5. ReplyIsOwn'
        BY <2>2, <3>2, <3>3 DEF ReplyIsOwn
      <3> QED
        BY <3>3, <3>4, <3>5
    <2>4. CASE c \in Multi
      <3>1. FanOutExchange(c)
        BY <2>1, <2>4 DEF PairingInv, WireInv
      <3>2. ReplyIsOwn'
        BY <2>2, <2>4 DEF ReplyIsOwn
      <3>3. CASE IsVersionEcho(Head(down)) /\ Return(c, "ok")
        <4>1. pc'[c] = "done"
          BY <3>3 DEF Return, Goto, TypeOK
        <4>2. up' = <<>> /\ down' = <<>>
          BY <2>1, <2>4, <3>1, <3>3, FanOutScanned
        <4> QED
          BY <3>2, <4>1, <4>2, SilentWire
      <3>4. CASE UNCHANGED pc
        <4>1. FanOutExchange(c)'
          BY <2>1, <2>4, <3>1, FanOutScanned DEF FanOutExchange
        <4>2. WireInv'
          BY <1>2, <1>3, <2>1, <2>4, <3>4, <4>1, OneReader
        <4> QED
          BY <2>1, <3>2, <3>4, <4>2
      <3> QED
        BY <2>1, <2>4, <3>3, <3>4 DEF Token
    <2> QED
      BY <2>3, <2>4
  <1>14. CASE ScanFails(c)
    BY <1>8, <1>14 DEF ScanFails
  <1>15. CASE TooManyLines(c)
    BY <1>8, <1>15 DEF TooManyLines
  <1> QED
    BY <1>6, <1>7, <1>9, <1>10, <1>11, <1>12, <1>13, <1>14, <1>15
       DEF CallStep

\* Whatever the receiver does while c reads, the exchange stays c's.
LEMMA OneLineReceiver ==
    ASSUME QuietWire, TypeOK, NEW c \in Calls \ Multi, OneLineExchange(c), Receiver
    PROVE  OneLineExchange(c)'
  <1> USE CallsAssumption
  <1>1. up # <<>> => /\ up = <<Request(c, "cmd")>> /\ down = <<>>
                     /\ Head(up).call = c /\ Head(up).kind = "cmd"
                     /\ Tail(up) = <<>>
    <2>1. CASE up = <<Request(c, "cmd")>>
      <3>1. Head(up) = Request(c, "cmd") /\ Tail(up) = <<>>
        BY <2>1, FanOutRequests
      <3>2. Request(c, "cmd").call = c /\ Request(c, "cmd").kind = "cmd"
        BY RequestFields
      <3> QED
        BY <2>1, <3>1, <3>2 DEF OneLineExchange
    <2> QED
      BY <2>1 DEF OneLineExchange
  <1>2. CASE Serve
    <2>1. PICK k \in {"value", "undefined", "restricted"}, w \in BOOLEAN :
             down' = Append(down, Line(c, k, w))
      BY <1>1, <1>2 DEF Serve, Send
    <2>2. down' = <<Line(c, k, w)>> /\ up' = <<>>
      BY <1>1, <1>2, <2>1 DEF Serve
    <2> QED
      BY <2>2 DEF OneLineExchange, Line
  <1>3. CASE Report \/ EndReports \/ Echo
    BY <1>1, <1>3 DEF Report, EndReports, Echo
  <1>4. CASE Ignore
    BY <1>1, <1>4 DEF Ignore, OneLineExchange
  <1>5. CASE Push
    BY <1>5 DEF Push, QuietWire, TypeOK
  <1>6. CASE Complete
    <2>1. down # <<>> /\ Len(down) = 1 /\ up = <<>> /\ up' = <<>>
      BY <1>1, <1>6 DEF Complete, LastIsWhole, OneLineExchange
    <2>2. down' \in Seq(Lines) /\ Len(down') = 1
      BY <1>6, <2>1, CompleteType DEF Complete, TypeOK
    <2>3. down'[1].call = down[1].call /\ down'[1].kind = down[1].kind
      BY <1>6, <2>1 DEF Complete, TypeOK, Lines
    <2> QED
      BY <2>1, <2>2, <2>3 DEF OneLineExchange
  <1>7. CASE PeerClose
    BY <1>7 DEF PeerClose, OneLineExchange
  <1>8. CASE PeerReset
    BY <1>8 DEF PeerReset, OneLineExchange
  <1>9. CASE ServeStale
    BY <1>9 DEF ServeStale, OneLineExchange
  <1> QED
    BY <1>2, <1>3, <1>4, <1>5, <1>6, <1>7, <1>8, <1>9 DEF Receiver

LEMMA FanOutAppend ==
    ASSUME TypeOK, NEW line \in Lines, down' = Append(down, line),
           \A i \in 1..Len(down) : down[i].kind = "report",
           line.kind = "report" \/ (line.kind = "fence" /\ up' = <<>>)
    PROVE  \A i \in 1..Len(down') :
             \/ down'[i].kind = "report"
             \/ down'[i].kind = "fence" /\ i = Len(down') /\ up' = <<>>
  <1>1. /\ Len(down) \in Nat /\ Len(down') = Len(down) + 1
        /\ \A i \in 1..Len(down) : down'[i] = down[i]
        /\ down'[Len(down) + 1] = line
    BY AppendProperties DEF TypeOK
  <1>2. \A i \in 1..Len(down') : i \in 1..Len(down) \/ i = Len(down')
    BY <1>1
  <1> QED
    BY <1>1, <1>2

LEMMA FanOutReceiver ==
    ASSUME QuietWire, TypeOK, NEW c \in Multi, FanOutExchange(c), Receiver
    PROVE  FanOutExchange(c)'
  <1> USE CallsAssumption
  <1> DEFINE both == <<Request(c, "cmd"), Request(c, "fence")>>
             fence == <<Request(c, "fence")>>
  <1>1. up \in {both, fence, <<>>}
    BY DEF FanOutExchange
  <1>2. \A i \in 1..Len(down) :
          \/ down[i].kind = "report"
          \/ down[i].kind = "fence" /\ i = Len(down) /\ up = <<>>
    BY DEF FanOutExchange
  <1>3. up # <<>> =>
          /\ Head(up).call = c
          /\ \/ up = both /\ Tail(up) = fence /\ Head(up).kind = "cmd"
             \/ up = fence /\ Tail(up) = <<>> /\ Head(up).kind = "fence"
          /\ \A i \in 1..Len(down) : down[i].kind = "report"
    <2>1. CASE up = both
      BY <1>2, <2>1, FanOutRequests, RequestFields
    <2>2. CASE up = fence
      BY <1>2, <2>2, FanOutRequests, RequestFields
    <2> QED
      BY <1>1, <2>1, <2>2
  <1>4. CASE Serve
    BY <1>3, <1>4 DEF Serve
  <1>5. CASE Report
    <2>1. PICK w \in BOOLEAN : down' = Append(down, Line(c, "report", w))
      BY <1>3, <1>5 DEF Report, Send
    <2>2. up # <<>> /\ up' = up
      BY <1>5 DEF Report
    <2>3. Line(c, "report", w) \in Lines /\ Line(c, "report", w).kind = "report"
      BY DEF Line, Lines
    <2>4. \A i \in 1..Len(down') :
            \/ down'[i].kind = "report"
            \/ down'[i].kind = "fence" /\ i = Len(down') /\ up' = <<>>
      BY <1>3, <2>1, <2>2, <2>3, FanOutAppend
    <2> QED
      BY <1>1, <2>2, <2>4 DEF FanOutExchange
  <1>6. CASE EndReports
    <2>1. up # <<>> /\ up' = fence /\ down' = down
      BY <1>3, <1>6 DEF EndReports
    <2> QED
      BY <1>3, <2>1 DEF FanOutExchange
  <1>7. CASE Echo
    <2>1. PICK w \in BOOLEAN : down' = Append(down, Line(c, "fence", w))
      BY <1>3, <1>7 DEF Echo, Send
    <2>2. up # <<>> /\ up' = <<>>
      BY <1>3, <1>7 DEF Echo
    <2>3. Line(c, "fence", w) \in Lines /\ Line(c, "fence", w).kind = "fence"
      BY DEF Line, Lines
    <2>4. \A i \in 1..Len(down') :
            \/ down'[i].kind = "report"
            \/ down'[i].kind = "fence" /\ i = Len(down') /\ up' = <<>>
      BY <1>3, <2>1, <2>2, <2>3, FanOutAppend
    <2> QED
      BY <2>2, <2>4 DEF FanOutExchange
  <1>8. CASE Ignore
    <2>1. up # <<>> /\ up' \in {fence, <<>>} /\ down' = down
      BY <1>3, <1>8 DEF Ignore
    <2> QED
      BY <1>3, <2>1 DEF FanOutExchange
  <1>9. CASE Push
    BY <1>9 DEF Push, QuietWire, TypeOK
  <1>10. CASE Complete
    <2>1. down # <<>> /\ up' = up
      BY <1>10 DEF Complete, LastIsWhole
    <2>2. Len(down') = Len(down)
      BY <1>10, <2>1, CompleteType DEF Complete, TypeOK
    <2>3. \A i \in 1..Len(down) : down'[i].kind = down[i].kind
      BY <1>10, <2>1 DEF Complete, TypeOK, Lines
    <2> QED
      BY <1>1, <1>2, <2>1, <2>2, <2>3 DEF FanOutExchange
  <1>11. CASE PeerClose
    BY <1>2, <1>11 DEF PeerClose, FanOutExchange
  <1>12. CASE PeerReset
    BY <1>2, <1>12 DEF PeerReset, FanOutExchange
  <1>13. CASE ServeStale
    BY <1>1, <1>2, <1>13 DEF ServeStale, FanOutExchange
  <1> QED
    BY <1>4, <1>5, <1>6, <1>7, <1>8, <1>9, <1>10, <1>11, <1>12, <1>13
       DEF Receiver

LEMMA ReceiverPairing ==
    ASSUME QuietWire, TypeOK, PairingInv, Receiver
    PROVE  PairingInv'
  <1> USE CallsAssumption
  <1>1. UNCHANGED <<pc, lock, last, got, scanErr>>
    BY DEF Receiver, Serve, Report, EndReports, Echo, Ignore, Push, Complete,
           PeerClose, PeerReset, ServeStale, ClientUnchanged
  <1>2. LockInv' /\ ReplyIsOwn' /\ \A c \in Calls : pc'[c] \notin {"wake", "drain"}
    BY <1>1 DEF PairingInv, LockInv, ReplyIsOwn
  <1>3. CASE scanErr # "none"
    BY <1>1, <1>2, <1>3 DEF PairingInv, WireInv
  <1>4. CASE scanErr = "none" /\ \A c \in Calls : pc[c] # "read"
    <2>1. up = <<>> /\ down = <<>>
      BY <1>4 DEF PairingInv, WireInv
    <2>2. up' = <<>> /\ down' = <<>>
      BY <2>1 DEF Receiver, Serve, Report, EndReports, Echo, Ignore, Push,
           Complete, PeerClose, PeerReset, ServeStale, LastIsWhole, QuietWire,
           TypeOK
    <2> QED
      BY <1>2, <2>2, SilentWire DEF PairingInv
  <1>5. CASE scanErr = "none" /\ \E c \in Calls : pc[c] = "read"
    <2>1. PICK c \in Calls : pc[c] = "read"
      BY <1>5
    <2>2. \A d \in Calls \ {c} : pc'[d] # "read"
      BY <1>1, <2>1, Holder DEF PairingInv
    <2>3. ASSUME c \in Multi PROVE FanOutExchange(c)'
      BY <1>5, <2>1, <2>3, FanOutReceiver DEF PairingInv, WireInv
    <2>4. ASSUME c \notin Multi PROVE OneLineExchange(c)'
      BY <1>5, <2>1, <2>4, OneLineReceiver DEF PairingInv, WireInv
    <2>5. WireInv'
      BY <1>1, <2>1, <2>2, <2>3, <2>4, OneReader
    <2> QED
      BY <1>2, <2>5 DEF PairingInv
  <1> QED
    BY <1>3, <1>4, <1>5

LEMMA NextPairingInv ==
    QuietWire /\ TypeOK /\ PairingInv /\ [Next]_vars => PairingInv'
  <1> SUFFICES ASSUME QuietWire, TypeOK, PairingInv, [Next]_vars
               PROVE  PairingInv'
    OBVIOUS
  <1>1. ASSUME NEW c \in Calls, CallStep(c) PROVE PairingInv'
    BY <1>1, CallStepPairing
  <1>2. CASE Receiver
    BY <1>2, ReceiverPairing
  <1>3. CASE UNCHANGED <<pc, lock, last, got>> /\ WireInv'
    BY <1>3 DEF PairingInv, LockInv, ReplyIsOwn
  <1>4. CASE Close
    BY <1>3, <1>4, SilentWire DEF Close, CloseLocked, callVars
  <1>5. CASE Expire \/ Cancel \/ UNCHANGED vars
    <2>1. UNCHANGED <<pc, lock, last, got, scanErr, up, down>>
      BY <1>5 DEF Expire, Cancel, vars, callVars, wireVars
    <2>2. WireInv'
      BY <2>1 DEF PairingInv, WireInv, OneLineExchange, FanOutExchange
    <2> QED
      BY <1>3, <2>1, <2>2
  <1> QED
    BY <1>1, <1>2, <1>4, <1>5 DEF Next

\* The inductive invariant: one exchange on the wire, the holder's.
THEOREM Pairing == QuietWire => (Spec => []PairingInv)
  <1> SUFFICES ASSUME QuietWire PROVE Spec => []PairingInv
    OBVIOUS
  <1>1. Spec => []TypeOK
    BY TypeCorrect
  <1>2. TypeOK /\ PairingInv /\ [Next]_vars => PairingInv'
    BY NextPairingInv
  <1> QED
    BY <1>1, <1>2, InitPairingInv, PTL DEF Spec

\* As long as nothing is pushed and no wake request is sent, a Send only ever
\* returns the answer to its own request.
THEOREM RepliesAreOwn == QuietWire => (Spec => []ReplyIsOwn)
  <1>1. PairingInv => ReplyIsOwn
    BY DEF PairingInv
  <1> QED
    BY <1>1, Pairing, PTL

\* Under the same condition, no call ever leaves a request or a line behind
\* on a connection that the next call may use.
THEOREM IdleWireClean == QuietWire => (Spec => []IdleWireIsClean)
  <1>1. PairingInv => IdleWireIsClean
    BY CallsAssumption DEF PairingInv, LockInv, WireInv, IdleWireIsClean
  <1> QED
    BY <1>1, Pairing, PTL

----------------------------------------------------------------------------
(* A second attempt needs a connection seen to be gone, for any receiver.  *)

\* A scanner that ended because the peer did belongs to such a connection.
ScanErrInv == scanErr \in {"eof", "reset"} => conn \in {"eof", "reset"}

LEMMA NextScanErrInv == TypeOK /\ ScanErrInv /\ [Next]_vars => ScanErrInv'
  <1> SUFFICES ASSUME TypeOK, ScanErrInv, [Next]_vars PROVE ScanErrInv'
    OBVIOUS
  <1>1. ASSUME CloseLocked PROVE ScanErrInv'
    BY <1>1 DEF CloseLocked, ScanErrInv
  <1>2. ASSUME UNCHANGED <<conn, scanErr>> PROVE ScanErrInv'
    BY <1>2 DEF ScanErrInv
  <1>3. ASSUME NEW c \in Calls, CallStep(c) PROVE ScanErrInv'
    <2>1. CASE Acquire(c) \/ WakeWrite(c) \/ WakeDrain(c) \/ Write(c)
      BY <1>2, <2>1 DEF Acquire, WakeWrite, WakeDrain, Write, wireVars
    <2>2. CASE Dial(c)
      BY <2>2 DEF Dial, ScanErrInv
    <2>3. CASE DialFails(c) \/ WriteFails(c) \/ ScanFails(c) \/ TooManyLines(c)
      BY <1>1, <2>3 DEF DialFails, WriteFails, ScanFails, TooManyLines,
                        AttemptFails
    <2>4. CASE ScanLine(c)
      BY <2>4 DEF ScanLine, TokenReady, ReadError, ScanErrInv, SocketErrors
    <2> QED
      BY <1>3, <2>1, <2>2, <2>3, <2>4 DEF CallStep
  <1>4. CASE Close
    BY <1>1, <1>4 DEF Close
  <1>5. CASE Expire \/ Cancel \/ UNCHANGED vars
    BY <1>2, <1>5 DEF Expire, Cancel, vars, wireVars
  <1>6. CASE Receiver
    <2>1. scanErr' = scanErr /\ (conn' = conn \/ conn' \in {"eof", "reset"})
      BY <1>6 DEF Receiver, Serve, Report, EndReports, Echo, Ignore, Push,
         Complete, PeerClose, PeerReset, ServeStale, ClientUnchanged
    <2> QED
      BY <2>1 DEF ScanErrInv
  <1> QED
    BY <1>3, <1>4, <1>5, <1>6 DEF Next

LEMMA RetryStep ==
    ASSUME TypeOK, ScanErrInv, [Next]_vars, tries = 1, tries' = 2
    PROVE  \/ \E c \in Calls : pc[c] = "dial"
           \/ conn \in {"eof", "reset"}
  <1>1. ASSUME NEW c \in Calls, NEW err, AttemptFails(c, err)
        PROVE  err \in {"eof", "reset"}
    BY <1>1 DEF AttemptFails, Retryable
  <1>2. ASSUME NEW c \in Calls, CallStep(c)
        PROVE  pc[c] = "dial" \/ conn \in {"eof", "reset"}
    <2>1. ~Acquire(c) /\ ~WakeWrite(c) /\ ~WakeDrain(c) /\ ~Write(c) /\ ~ScanLine(c)
      BY DEF Acquire, WakeWrite, WakeDrain, Write, ScanLine, callVars
    <2>2. CASE Dial(c) \/ DialFails(c)
      BY <2>2 DEF Dial, DialFails
    <2>3. CASE WriteFails(c)
      <3>1. AttemptError("reset") \in {"eof", "reset"}
        BY <1>1, <2>3 DEF WriteFails
      <3> QED
        BY <2>3, <3>1 DEF WriteFails, AttemptError
    <2>4. CASE ScanFails(c)
      <3>1. PICK err \in SocketErrors :
               /\ scanErr = err \/ ReadError(err)
               /\ AttemptFails(c, AttemptError(err))
        BY <2>4 DEF ScanFails
      <3>2. AttemptError(err) \in {"eof", "reset"}
        BY <1>1, <3>1
      <3>3. err \in {"eof", "reset"}
        BY <3>1, <3>2 DEF AttemptError, SocketErrors
      <3> QED
        BY <3>1, <3>3 DEF ScanErrInv, ReadError
    <2>5. CASE TooManyLines(c)
      BY <1>1, <2>5 DEF TooManyLines
    <2> QED
      BY <1>2, <2>1, <2>2, <2>3, <2>4, <2>5 DEF CallStep
  <1>3. ~(Close \/ Expire \/ Cancel \/ Receiver \/ UNCHANGED vars)
    BY DEF Close, Expire, Cancel, Receiver, Serve, Report, EndReports, Echo,
       Ignore, Push, Complete, PeerClose, PeerReset, ServeStale,
       ClientUnchanged, vars, callVars
  <1> QED
    BY <1>2, <1>3 DEF Next

\* A slow receiver and a caller that gives up are never answered with a second
\* copy of the request: only a connection the peer ended is.
THEOREM RetriesAreForLostConnections == Spec => RetryOnlyAfterReset
  <1>1. Init => ScanErrInv
    BY DEF Init, ScanErrInv
  <1>2. TypeOK /\ ScanErrInv /\ [Next]_vars =>
          [tries = 1 /\ tries' = 2 =>
              (\E c \in Calls : pc[c] = "dial") \/ conn \in {"eof", "reset"}]_vars
    BY RetryStep
  <1>3. Spec => []TypeOK
    BY TypeCorrect
  <1> QED
    BY <1>1, <1>2, <1>3, NextScanErrInv, PTL DEF Spec, RetryOnlyAfterReset

----------------------------------------------------------------------------
(* A fan-out ends with its own fence, and not before its last report, what *)
(* ever is pushed on the way and with or without the wake exchange, as     *)
(* long as no Probe shares the connection: a push that answers a Probe     *)
(* leaves the Probe's own answer behind, which is a fence to the next      *)
(* SendMulti.                                                              *)

NoProbes == Probes = {}

ReportsIn(lines) == {i \in 1..Len(lines) : lines[i].kind = "report"}
Fenced(s)        == \E i \in 1..Len(s) : s[i].kind = "fence"

\* Some request of a fan-out is on its way.
Asks(r)             == r.kind = "fence" \/ (r.kind = "cmd" /\ r.call \in Multi)
Requested(requests) == \E i \in 1..Len(requests) : Asks(requests[i])

\* The fence is the last request, next after the request of c.
AskedBy(c, requests) ==
    \A i \in 1..Len(requests) :
        /\ requests[i].kind = "fence" => i = Len(requests)
        /\ requests[i].kind = "cmd" /\ requests[i].call \in Multi =>
              /\ requests[i].call = c
              /\ i + 1 = Len(requests) /\ requests[i + 1].kind = "fence"

\* The reports are c's, and none comes after the fence's echo.
SentTo(c, lines) ==
    /\ \A i \in ReportsIn(lines) : lines[i].call = c
    /\ \A i, j \in 1..Len(lines) :
          i < j /\ lines[i].kind = "fence" => lines[j].kind \notin {"report", "fence"}

\* A SendMulti is reading its reply: as long as its fence can come, what it
\* has and what is still to be read are all the reports produced for it.
Fanning == lock \in Multi /\ pc[lock] = "read"
CarriesOne ==
    /\ AskedBy(lock, up) /\ SentTo(lock, down)
    /\ Fenced(down) => ~Requested(up)
    /\ Fenced(up) \/ Fenced(down) =>
          Cardinality(ReportsIn(got)) + Cardinality(ReportsIn(down)) = emitted
    /\ \A i \in ReportsIn(got) : got[i].call = lock

\* Otherwise the wire holds nothing of a fan-out.
CarriesNone == ~Requested(up) /\ ~Fenced(down) /\ ReportsIn(down) = {}

FanOutInv ==
    /\ Fanning => CarriesOne
    /\ ~Fanning => CarriesNone
    /\ lock # NoCall => outcome = "none"
    /\ lock # NoCall /\ pc[lock] # "read" => got = <<>> /\ emitted = 0
    /\ MultiComplete

\* The number of reports of a sequence is a number.
LEMMA CountType ==
    ASSUME NEW s \in Seq(Lines)
    PROVE  IsFiniteSet(ReportsIn(s)) /\ Cardinality(ReportsIn(s)) \in Nat
<1>1. ReportsIn(s) \subseteq 1..Len(s) /\ Len(s) \in Nat
  BY DEF ReportsIn
<1>2. IsFiniteSet(1..Len(s))
  BY <1>1, FS_Interval
<1>3. IsFiniteSet(ReportsIn(s))
  BY <1>1, <1>2, FS_Subset
<1> QED
  BY <1>3, FS_CardinalityType

\* Nothing read counts nothing.
LEMMA CountNone ==
    ASSUME NEW s, ReportsIn(s) = {}
    PROVE  Cardinality(ReportsIn(s)) = 0
BY FS_EmptySet

\* A line added counts if it is a report.
LEMMA CountAppend ==
    ASSUME NEW s \in Seq(Lines), NEW line \in Lines
    PROVE  Cardinality(ReportsIn(Append(s, line)))
               = Cardinality(ReportsIn(s)) + (IF line.kind = "report" THEN 1 ELSE 0)
<1>1. /\ Len(Append(s, line)) = Len(s) + 1 /\ Len(s) \in Nat
      /\ \A i \in 1..Len(s) : Append(s, line)[i] = s[i]
      /\ Append(s, line)[Len(s) + 1] = line
  BY AppendProperties
<1>2. \A i \in 1..(Len(s) + 1) : i \in 1..Len(s) \/ i = Len(s) + 1
  BY <1>1
<1>3. ReportsIn(Append(s, line))
          = ReportsIn(s) \cup (IF line.kind = "report" THEN {Len(s) + 1} ELSE {})
  BY <1>1, <1>2 DEF ReportsIn
<1>4. Len(s) + 1 \notin ReportsIn(s)
  BY <1>1 DEF ReportsIn
<1>5. Cardinality(ReportsIn(s)) \in Nat /\ IsFiniteSet(ReportsIn(s))
  BY CountType
<1>6. CASE line.kind = "report"
  <2>1. Cardinality(ReportsIn(s) \cup {Len(s) + 1}) = Cardinality(ReportsIn(s)) + 1
    BY <1>4, <1>5, FS_AddElement
  <2> QED
    BY <1>3, <1>6, <2>1
<1>7. CASE line.kind # "report"
  <2>1. ReportsIn(Append(s, line)) = ReportsIn(s)
    BY <1>3, <1>7
  <2> QED
    BY <1>5, <1>7, <2>1
<1> QED
  BY <1>6, <1>7

\* A line taken counts if it was a report: the others move up by one.
LEMMA CountTail ==
    ASSUME NEW s \in Seq(Lines), s # <<>>
    PROVE  Cardinality(ReportsIn(s))
               = Cardinality(ReportsIn(Tail(s))) + (IF Head(s).kind = "report" THEN 1 ELSE 0)
<1>1. /\ Tail(s) \in Seq(Lines) /\ Len(s) \in Nat \ {0}
      /\ Len(Tail(s)) = Len(s) - 1
      /\ \A i \in 1..Len(Tail(s)) : Tail(s)[i] = s[i + 1]
      /\ Head(s) = s[1]
  BY HeadTailProperties, EmptySeq
<1> DEFINE A == ReportsIn(Tail(s))
           B == {i \in ReportsIn(s) : i # 1}
           f == [i \in A |-> i + 1]
<1>2. f \in Bijection(A, B)
  <2>1. \A i \in A : i + 1 \in B
    BY <1>1 DEF ReportsIn
  <2>2. \A b \in B : b - 1 \in A /\ (b - 1) + 1 = b
    BY <1>1 DEF ReportsIn
  <2>3. \A i, j \in A : i + 1 = j + 1 => i = j
    BY DEF ReportsIn
  <2> HIDE DEF A, B
  <2>4. f \in [A -> B] /\ \A i \in A : f[i] = i + 1
    BY <2>1
  <2>5. \A b \in B : \E i \in A : f[i] = b
    BY <2>2, <2>4
  <2>6. \A i, j \in A : f[i] = f[j] => i = j
    BY <2>3, <2>4
  <2> HIDE DEF f
  <2> QED
    BY <2>4, <2>5, <2>6, Fun_IsBij
<1>3. IsFiniteSet(A) /\ Cardinality(A) \in Nat
  BY <1>1, CountType
<1>4. ExistsBijection(A, B)
  BY <1>2 DEF ExistsBijection
<1>5. IsFiniteSet(B) /\ Cardinality(B) = Cardinality(A)
  BY <1>3, <1>4, FS_Bijection
<1>6. 1 \notin B
  OBVIOUS
<1>7. ReportsIn(s) = B \cup (IF Head(s).kind = "report" THEN {1} ELSE {})
  BY <1>1 DEF ReportsIn
<1> HIDE DEF A, B
<1>8. CASE Head(s).kind = "report"
  <2>1. Cardinality(B \cup {1}) = Cardinality(B) + 1
    BY <1>5, <1>6, FS_AddElement
  <2> QED
    BY <1>5, <1>7, <1>8, <2>1 DEF A
<1>9. CASE Head(s).kind # "report"
  <2>1. ReportsIn(s) = B
    BY <1>7, <1>9
  <2> QED
    BY <1>3, <1>5, <1>9, <2>1 DEF A
<1> QED
  BY <1>8, <1>9
----------------------------------------------------------------------------
(* What an end of a sequence that goes, comes or stays does to these.      *)

\* A request taken.
LEMMA AskedTail ==
    ASSUME NEW c, NEW s \in Seq(Requests), s # <<>>
    PROVE  /\ Tail(s) \in Seq(Requests)
           /\ AskedBy(c, s) => AskedBy(c, Tail(s))
           /\ Fenced(Tail(s)) => Fenced(s)
           /\ Requested(Tail(s)) => Requested(s)
           /\ Asks(Head(s)) => Requested(s)
           /\ AskedBy(c, s) /\ Head(s).kind = "fence" => ~Requested(Tail(s))
           /\ AskedBy(c, s) /\ Head(s).kind = "cmd" /\ Head(s).call \in Multi =>
                 Head(s).call = c /\ Fenced(s)
<1>1. /\ Tail(s) \in Seq(Requests) /\ Len(s) \in Nat \ {0}
      /\ Len(Tail(s)) = Len(s) - 1
      /\ \A i \in 1..Len(Tail(s)) : Tail(s)[i] = s[i + 1]
      /\ Head(s) = s[1]
  BY HeadTailProperties, EmptySeq
<1>2. PICK t : t = Tail(s)
  OBVIOUS
<1>3. /\ Len(t) = Len(s) - 1
      /\ \A i \in 1..Len(t) : i + 1 \in 1..Len(s) /\ t[i] = s[i + 1]
      /\ 1 \in 1..Len(s)
  BY <1>1, <1>2
<1>4. AskedBy(c, s) => AskedBy(c, t)
  <2>1. SUFFICES ASSUME AskedBy(c, s), NEW i \in 1..Len(t)
        PROVE  /\ t[i].kind = "fence" => i = Len(t)
               /\ t[i].kind = "cmd" /\ t[i].call \in Multi =>
                    t[i].call = c /\ i + 1 = Len(t) /\ t[i + 1].kind = "fence"
    BY DEF AskedBy
  <2>2. PICK k \in 1..Len(s) : k = i + 1 /\ t[i] = s[k]
    BY <1>3
  <2>3. /\ s[k].kind = "fence" => k = Len(s)
        /\ s[k].kind = "cmd" /\ s[k].call \in Multi =>
              s[k].call = c /\ k + 1 = Len(s) /\ s[k + 1].kind = "fence"
    BY <2>1 DEF AskedBy
  <2>4. k + 1 = Len(s) => k \in 1..Len(t)
    BY <1>1, <1>3
  <2>5. k \in 1..Len(t) => t[k] = s[k + 1]
    BY <1>3
  <2>6. /\ k = Len(s) => i = Len(t)
        /\ k + 1 = Len(s) => i + 1 = Len(t)
    <3>1. i \in Int /\ k = i + 1 /\ Len(s) \in Int /\ Len(t) = Len(s) - 1
      BY <1>1, <1>3, <2>2
    <3> QED
      BY <3>1
  <2> QED
    BY <2>2, <2>3, <2>4, <2>5, <2>6
<1>5. Fenced(t) => Fenced(s)
  BY <1>3 DEF Fenced
<1>6. Requested(t) => Requested(s)
  BY <1>3 DEF Requested
<1>7. Asks(Head(s)) => Requested(s)
  BY <1>1, <1>3 DEF Requested
<1>8. AskedBy(c, s) /\ Head(s).kind = "fence" => ~Requested(t)
  <2>1. SUFFICES ASSUME AskedBy(c, s), s[1].kind = "fence" PROVE 1..Len(t) = {}
    BY <1>1 DEF Requested
  <2>2. Len(s) = 1
    BY <1>3, <2>1 DEF AskedBy
  <2> QED
    BY <1>3, <2>2
<1>9. AskedBy(c, s) /\ Head(s).kind = "cmd" /\ Head(s).call \in Multi =>
        Head(s).call = c /\ Fenced(s)
  <2>1. SUFFICES ASSUME AskedBy(c, s), s[1].kind = "cmd", s[1].call \in Multi
        PROVE  s[1].call = c /\ Fenced(s)
    BY <1>1
  <2>2. s[1].call = c /\ 2 = Len(s) /\ s[2].kind = "fence"
    BY <1>3, <2>1 DEF AskedBy
  <2> QED
    BY <2>2 DEF Fenced
<1> QED
  BY <1>1, <1>2, <1>4, <1>5, <1>6, <1>7, <1>8, <1>9

\* A sequence without an element.
LEMMA NothingCarried ==
    ASSUME NEW c
    PROVE  /\ AskedBy(c, <<>>) /\ ~Requested(<<>>) /\ ~Fenced(<<>>)
           /\ SentTo(c, <<>>) /\ ReportsIn(<<>>) = {}
BY DEF AskedBy, Requested, Fenced, SentTo, ReportsIn

\* The requests of c written behind what is none of a fan-out.
LEMMA Written ==
    ASSUME NEW c \in Calls, NEW s \in Seq(Requests), ~Requested(s)
    PROVE  /\ AskedBy(c, s)
           /\ AskedBy(c, s \o RequestLines(c))
           /\ c \notin Multi => ~Requested(s \o RequestLines(c))
<1>1. \A i \in 1..Len(s) : ~Asks(s[i])
  BY DEF Requested
<1>2. Len(s) \in Nat
  OBVIOUS
<1>3. AskedBy(c, s)
  BY <1>1 DEF AskedBy, Asks
<1>4. PICK t : t = s \o RequestLines(c)
  OBVIOUS
<1>5. CASE c \in Multi
  <2>1. /\ Len(t) = Len(s) + 2
        /\ \A i \in 1..Len(s) : t[i] = s[i]
        /\ t[Len(s) + 1] = Request(c, "cmd") /\ t[Len(s) + 2] = Request(c, "fence")
    BY <1>4, <1>5 DEF RequestLines
  <2>2. AskedBy(c, t)
    <3>1. SUFFICES ASSUME NEW i \in 1..Len(t)
          PROVE  /\ t[i].kind = "fence" => i = Len(t)
                 /\ t[i].kind = "cmd" /\ t[i].call \in Multi =>
                      t[i].call = c /\ i + 1 = Len(t) /\ t[i + 1].kind = "fence"
      BY DEF AskedBy
    <3>2. i \in 1..Len(s) \/ i = Len(s) + 1 \/ i = Len(s) + 2
      BY <1>2, <2>1
    <3>3. CASE i \in 1..Len(s)
      BY <1>1, <2>1, <3>3 DEF Asks
    <3>4. CASE i = Len(s) + 1
      BY <1>2, <2>1, <3>4, RequestFields
    <3>5. CASE i = Len(s) + 2
      BY <2>1, <3>5, RequestFields
    <3> QED
      BY <3>2, <3>3, <3>4, <3>5
  <2> QED
    BY <1>3, <1>4, <1>5, <2>2
<1>6. CASE c \notin Multi
  <2>1. /\ Len(t) = Len(s) + 1
        /\ \A i \in 1..Len(s) : t[i] = s[i]
        /\ t[Len(s) + 1] = Request(c, "cmd")
    BY <1>4, <1>6 DEF RequestLines
  <2>2. ~Asks(Request(c, "cmd"))
    BY <1>6, RequestFields DEF Asks
  <2>3. \A i \in 1..Len(t) : i \in 1..Len(s) \/ i = Len(s) + 1
    BY <1>2, <2>1
  <2>4. \A i \in 1..Len(t) : ~Asks(t[i])
    BY <1>1, <2>1, <2>2, <2>3
  <2>5. ~Requested(t) /\ AskedBy(c, t)
    BY <2>4 DEF Requested, AskedBy, Asks
  <2> QED
    BY <1>3, <1>4, <2>5
<1> QED
  BY <1>5, <1>6

\* A line read.
LEMMA SentTail ==
    ASSUME NEW c, NEW s \in Seq(Lines), s # <<>>
    PROVE  /\ Head(s) \in Lines /\ Tail(s) \in Seq(Lines)
           /\ SentTo(c, s) => SentTo(c, Tail(s))
           /\ Fenced(Tail(s)) => Fenced(s)
           /\ Head(s).kind = "fence" => Fenced(s)
           /\ SentTo(c, s) /\ Head(s).kind = "report" => Head(s).call = c
           /\ ReportsIn(s) = {} => ReportsIn(Tail(s)) = {}
           /\ SentTo(c, s) /\ Head(s).kind = "fence" =>
                 ReportsIn(s) = {} /\ ~Fenced(Tail(s))
<1>1. /\ Head(s) \in Lines /\ Tail(s) \in Seq(Lines) /\ Len(s) \in Nat \ {0}
      /\ Len(Tail(s)) = Len(s) - 1
      /\ \A i \in 1..Len(Tail(s)) : Tail(s)[i] = s[i + 1]
      /\ Head(s) = s[1]
  BY HeadTailProperties, EmptySeq
<1>2. PICK t : t = Tail(s)
  OBVIOUS
<1>3. /\ Len(t) = Len(s) - 1
      /\ \A i \in 1..Len(t) : i + 1 \in 1..Len(s) /\ t[i] = s[i + 1]
      /\ 1 \in 1..Len(s)
  BY <1>1, <1>2
<1>4. SentTo(c, s) => SentTo(c, t)
  <2>1. SUFFICES ASSUME SentTo(c, s) PROVE SentTo(c, t)
    OBVIOUS
  <2>2. \A i \in ReportsIn(t) : t[i].call = c
    BY <1>3, <2>1 DEF SentTo, ReportsIn
  <2>3. ASSUME NEW i \in 1..Len(t), NEW j \in 1..Len(t), i < j, t[i].kind = "fence"
        PROVE  t[j].kind \notin {"report", "fence"}
    <3>1. PICK k \in 1..Len(s), n \in 1..Len(s) :
             k = i + 1 /\ n = j + 1 /\ t[i] = s[k] /\ t[j] = s[n]
      BY <1>3
    <3>2. k < n
      BY <2>3, <3>1
    <3> QED
      BY <2>1, <2>3, <3>1, <3>2 DEF SentTo
  <2> QED
    BY <2>2, <2>3 DEF SentTo
<1>5. Fenced(t) => Fenced(s)
  BY <1>3 DEF Fenced
<1>6. Head(s).kind = "fence" => Fenced(s)
  BY <1>1, <1>3 DEF Fenced
<1>7. SentTo(c, s) /\ Head(s).kind = "report" => Head(s).call = c
  BY <1>1, <1>3 DEF SentTo, ReportsIn
<1>8. ReportsIn(s) = {} => ReportsIn(t) = {}
  BY <1>3 DEF ReportsIn
<1>9. SentTo(c, s) /\ Head(s).kind = "fence" => ReportsIn(s) = {} /\ ~Fenced(t)
  <2>1. SUFFICES ASSUME SentTo(c, s), s[1].kind = "fence"
        PROVE  ReportsIn(s) = {} /\ ~Fenced(t)
    BY <1>1
  <2>2. \A j \in 1..Len(s) : j = 1 \/ s[j].kind \notin {"report", "fence"}
    BY <1>1, <1>3, <2>1 DEF SentTo
  <2>3. \A i \in 1..Len(t) : t[i].kind # "fence"
    BY <1>3, <2>2
  <2> QED
    BY <2>1, <2>2, <2>3 DEF ReportsIn, Fenced
<1> QED
  BY <1>1, <1>2, <1>4, <1>5, <1>6, <1>7, <1>8, <1>9

\* A line sent.
LEMMA SentAppend ==
    ASSUME NEW c, NEW s \in Seq(Lines), NEW line \in Lines
    PROVE  /\ Append(s, line) \in Seq(Lines)
           /\ line.kind # "fence" => (Fenced(Append(s, line)) <=> Fenced(s))
           /\ line.kind # "report" => ReportsIn(Append(s, line)) = ReportsIn(s)
           /\ SentTo(c, s) /\ (line.kind = "report" => line.call = c)
                 /\ (line.kind \in {"report", "fence"} => ~Fenced(s))
                   => SentTo(c, Append(s, line))
<1>1. /\ Append(s, line) \in Seq(Lines)
      /\ Len(Append(s, line)) = Len(s) + 1 /\ Len(s) \in Nat
      /\ \A i \in 1..Len(s) : Append(s, line)[i] = s[i]
      /\ Append(s, line)[Len(s) + 1] = line
  BY AppendProperties
<1>2. PICK t : t = Append(s, line)
  OBVIOUS
<1>3. /\ \A i \in 1..Len(t) : i \in 1..Len(s) \/ i = Len(s) + 1
      /\ \A i \in 1..Len(s) : i \in 1..Len(t) /\ t[i] = s[i] /\ i < Len(s) + 1
      /\ t[Len(s) + 1] = line /\ Len(t) = Len(s) + 1 /\ Len(s) + 1 \in 1..Len(t)
  BY <1>1, <1>2
<1>4. line.kind # "fence" => (Fenced(t) <=> Fenced(s))
  BY <1>3 DEF Fenced
<1>5. line.kind # "report" => ReportsIn(t) = ReportsIn(s)
  BY <1>3 DEF ReportsIn
<1>6. ASSUME SentTo(c, s), line.kind = "report" => line.call = c,
             line.kind \in {"report", "fence"} => ~Fenced(s)
      PROVE  SentTo(c, t)
  <2>1. \A i \in ReportsIn(t) : t[i].call = c
    BY <1>3, <1>6 DEF SentTo, ReportsIn
  <2>2. ASSUME NEW i \in 1..Len(t), NEW j \in 1..Len(t), i < j, t[i].kind = "fence"
        PROVE  t[j].kind \notin {"report", "fence"}
    <3>1. i \in 1..Len(s)
      BY <1>1, <1>3, <2>2
    <3>2. CASE j \in 1..Len(s)
      BY <1>3, <1>6, <2>2, <3>1, <3>2 DEF SentTo
    <3>3. CASE j = Len(s) + 1
      BY <1>3, <1>6, <2>2, <3>1, <3>3 DEF Fenced
    <3> QED
      BY <1>3, <3>2, <3>3
  <2> QED
    BY <2>1, <2>2 DEF SentTo
<1> QED
  BY <1>1, <1>2, <1>4, <1>5, <1>6

\* The rest of a line arrived.
Alike(s, t) ==
    /\ Len(t) = Len(s)
    /\ \A i \in 1..Len(s) : t[i].kind = s[i].kind /\ t[i].call = s[i].call

\* It changes nothing of whose lines there are.
LEMMA SentAlike ==
    ASSUME NEW c, NEW s, NEW t, Alike(s, t)
    PROVE  /\ SentTo(c, s) => SentTo(c, t)
           /\ Fenced(t) <=> Fenced(s)
           /\ ReportsIn(t) = ReportsIn(s)
<1>1. ReportsIn(t) = ReportsIn(s)
  BY DEF Alike, ReportsIn
<1>2. Fenced(t) <=> Fenced(s)
  BY DEF Alike, Fenced
<1>3. SentTo(c, s) => SentTo(c, t)
  BY <1>1 DEF Alike, SentTo, ReportsIn
<1> QED
  BY <1>1, <1>2, <1>3

----------------------------------------------------------------------------
(* The steps of the receiver.                                              *)

\* A step that adds nothing of a fan-out: requests may go, a line that is none
\* of its own may come, the rest of a line may, and a reset may take them all.
Neutral ==
    /\ UNCHANGED <<pc, lock, last, got, outcome, emitted>>
    /\ \/ up' \in {up, <<>>}
       \/ up # <<>> /\ up' = Tail(up)
    /\ \/ Alike(down, down')
       \/ \E line \in Lines : line.kind \notin {"report", "fence"} /\ down' = Append(down, line)
       \/ up' = <<>> /\ down' = <<>>

\* A step that touches no call and adds, drops or spoils no line of a fan-out
\* keeps the invariant.
LEMMA NeutralFanOut ==
    ASSUME TypeOK, FanOutInv, Neutral
    PROVE  FanOutInv'
<1>1. UNCHANGED <<pc, lock, last, got, outcome, emitted>>
  BY DEF Neutral
<1>2. /\ AskedBy(lock, up) => AskedBy(lock, up')
      /\ Fenced(up') => Fenced(up)
      /\ Requested(up') => Requested(up)
  <2>1. CASE up' = up
    BY <2>1
  <2>2. CASE up' = <<>>
    BY <2>2, NothingCarried
  <2>3. CASE up # <<>> /\ up' = Tail(up)
    <3>1. up \in Seq(Requests)
      BY DEF TypeOK
    <3> QED
      BY <2>3, <3>1, AskedTail
  <2> QED
    BY <2>1, <2>2, <2>3 DEF Neutral
<1>3. /\ SentTo(lock, down) => SentTo(lock, down')
      /\ Fenced(down') => Fenced(down)
      /\ ReportsIn(down') = ReportsIn(down) \/ (up' = <<>> /\ down' = <<>>)
      /\ ReportsIn(down') \in {ReportsIn(down), {}}
  <2>1. CASE Alike(down, down')
    BY <2>1, SentAlike
  <2>2. ASSUME NEW line \in Lines, line.kind \notin {"report", "fence"},
               down' = Append(down, line)
        PROVE  /\ SentTo(lock, down) => SentTo(lock, down')
               /\ Fenced(down') => Fenced(down)
               /\ ReportsIn(down') = ReportsIn(down)
    BY <2>2, SentAppend DEF TypeOK
  <2>3. CASE up' = <<>> /\ down' = <<>>
    BY <2>3, NothingCarried
  <2> QED
    BY <2>1, <2>2, <2>3 DEF Neutral
<1>4. Fanning' <=> Fanning
  BY <1>1 DEF Fanning
<1>5. ASSUME Fanning PROVE CarriesOne'
  <2>1. CarriesOne
    BY <1>5 DEF FanOutInv
  <2>2. AskedBy(lock, up') /\ SentTo(lock, down') /\ (Fenced(down') => ~Requested(up'))
    BY <1>2, <1>3, <2>1 DEF CarriesOne
  <2>3. ASSUME Fenced(up') \/ Fenced(down')
        PROVE  Cardinality(ReportsIn(got)) + Cardinality(ReportsIn(down')) = emitted
    <3>1. ReportsIn(down') = ReportsIn(down)
      BY <1>3, <2>3, NothingCarried
    <3> QED
      BY <1>2, <1>3, <2>1, <2>3, <3>1 DEF CarriesOne
  <2>4. \A i \in ReportsIn(got) : got[i].call = lock
    BY <2>1 DEF CarriesOne
  <2> QED
    BY <1>1, <2>2, <2>3, <2>4 DEF CarriesOne
<1>6. ASSUME ~Fanning PROVE CarriesNone'
  BY <1>2, <1>3, <1>6 DEF FanOutInv, CarriesNone
<1>7. MultiComplete'
  BY <1>1 DEF FanOutInv, MultiComplete
<1>8. /\ lock' # NoCall => outcome' = "none"
      /\ lock' # NoCall /\ pc'[lock'] # "read" => got' = <<>> /\ emitted' = 0
  BY <1>1 DEF FanOutInv
<1> QED
  BY <1>4, <1>5, <1>6, <1>7, <1>8 DEF FanOutInv

\* Something of a fan-out is on its way only to a SendMulti that reads.
LEMMA InFlight ==
    ASSUME CallsAssumption, TypeOK, LockInv, FanOutInv, Requested(up)
    PROVE  /\ Fanning /\ CarriesOne /\ ~Fenced(down)
           /\ lock # NoCall /\ last = lock /\ outcome = "none"
BY DEF FanOutInv, CarriesNone, CarriesOne, Fanning, LockInv

\* A report of the fan-out in hand counts as it is sent.
LEMMA ReportFanOut ==
    ASSUME TypeOK, LockInv, FanOutInv, Report
    PROVE  FanOutInv'
<1>1. /\ up # <<>> /\ up \in Seq(Requests) /\ down \in Seq(Lines)
      /\ Head(up).kind = "cmd" /\ Head(up).call \in Multi
  BY DEF Report, TypeOK
<1>2. Requested(up)
  BY <1>1, AskedTail DEF Asks
<1>3. /\ Fanning /\ CarriesOne /\ ~Fenced(down)
      /\ lock # NoCall /\ last = lock /\ outcome = "none"
  BY <1>2, CallsAssumption, InFlight
<1>4. Head(up).call = lock /\ Fenced(up)
  BY <1>1, <1>3, AskedTail DEF CarriesOne
<1>5. PICK w \in BOOLEAN : down' = Append(down, Line(lock, "report", w))
  BY <1>4 DEF Report, Send
<1>6. /\ Line(lock, "report", w) \in Lines /\ Line(lock, "report", w).kind = "report"
      /\ Line(lock, "report", w).call = lock
  BY <1>3 DEF Line, Lines, TypeOK
<1>7. SentTo(lock, down') /\ ~Fenced(down')
  BY <1>1, <1>3, <1>5, <1>6, SentAppend DEF CarriesOne
<1>8. Cardinality(ReportsIn(down')) = Cardinality(ReportsIn(down)) + 1
  BY <1>1, <1>5, <1>6, CountAppend
<1>9. UNCHANGED <<pc, lock, last, got, outcome, up>> /\ emitted' = emitted + 1
  BY DEF Report, ClientUnchanged
<1>10. Cardinality(ReportsIn(got)) + Cardinality(ReportsIn(down)) = emitted
  BY <1>3, <1>4 DEF CarriesOne
<1>11. Cardinality(ReportsIn(got)) + Cardinality(ReportsIn(down')) = emitted + 1
  BY <1>1, <1>8, <1>10, CountType DEF TypeOK
<1>12. CarriesOne'
  BY <1>3, <1>7, <1>9, <1>11 DEF CarriesOne
<1>13. Fanning'
  BY <1>3, <1>9 DEF Fanning
<1>14. MultiComplete'
  BY <1>3, <1>9 DEF MultiComplete
<1> QED
  BY <1>3, <1>9, <1>12, <1>13, <1>14 DEF FanOutInv, Fanning

\* The echo of the fence comes when no request of the fan-out is left.
LEMMA FenceFanOut ==
    ASSUME TypeOK, LockInv, FanOutInv, Echo, Head(up).kind = "fence"
    PROVE  FanOutInv'
<1>1. /\ up # <<>> /\ up \in Seq(Requests) /\ down \in Seq(Lines)
      /\ Head(up) \in Requests /\ up' = Tail(up)
  BY HeadTailProperties DEF Echo, TypeOK
<1>2. Requested(up) /\ Fenced(up)
  <2>1. Requested(up)
    BY <1>1, AskedTail DEF Asks
  <2>2. Head(up) = up[1] /\ 1 \in 1..Len(up)
    BY <1>1, EmptySeq
  <2> QED
    BY <2>1, <2>2 DEF Fenced
<1>3. /\ Fanning /\ CarriesOne /\ ~Fenced(down)
      /\ lock # NoCall /\ last = lock /\ outcome = "none"
  BY <1>2, CallsAssumption, InFlight
<1>4. AskedBy(lock, up') /\ ~Requested(up')
  BY <1>1, <1>3, AskedTail DEF CarriesOne
<1>5. PICK w \in BOOLEAN : down' = Append(down, Line(Head(up).call, "fence", w))
  BY DEF Echo, Send
<1>6. /\ Line(Head(up).call, "fence", w) \in Lines
      /\ Line(Head(up).call, "fence", w).kind = "fence"
  BY <1>1 DEF Line, Lines, Requests
<1>7. SentTo(lock, down') /\ ReportsIn(down') = ReportsIn(down)
  BY <1>1, <1>3, <1>5, <1>6, SentAppend DEF CarriesOne
<1>8. UNCHANGED <<pc, lock, last, got, outcome, emitted>>
  BY DEF Echo, ClientUnchanged, receiverVars
<1>9. Cardinality(ReportsIn(got)) + Cardinality(ReportsIn(down')) = emitted
  BY <1>2, <1>3, <1>7 DEF CarriesOne
<1>10. CarriesOne'
  BY <1>3, <1>4, <1>7, <1>8, <1>9 DEF CarriesOne
<1>11. Fanning'
  BY <1>3, <1>8 DEF Fanning
<1>12. MultiComplete'
  BY <1>3, <1>8 DEF MultiComplete
<1> QED
  BY <1>3, <1>8, <1>10, <1>11, <1>12 DEF FanOutInv, Fanning

\* Whatever the receiver does keeps the invariant.
LEMMA ReceiverFanOutInv ==
    ASSUME TypeOK, LockInv, FanOutInv, Receiver
    PROVE  FanOutInv'
<1>1. UNCHANGED <<pc, lock, last, got, outcome>>
  BY DEF Receiver, Serve, Report, EndReports, Echo, Ignore, Push, Complete,
         PeerClose, PeerReset, ServeStale, ClientUnchanged
<1>2. Alike(down, down)
  BY DEF Alike
<1>3. up # <<>> => Head(up) \in Requests
  BY HeadTailProperties DEF TypeOK
<1>4. CASE Report
  BY <1>4, ReportFanOut
<1>5. CASE Echo /\ Head(up).kind = "fence"
  BY <1>5, FenceFanOut
<1>6. SUFFICES ASSUME ~Report, ~(Echo /\ Head(up).kind = "fence") PROVE Neutral
  BY <1>4, <1>5, NeutralFanOut
<1>7. CASE Serve
  <2>1. PICK k \in {"value", "undefined", "restricted"}, w \in BOOLEAN :
           down' = Append(down, Line(Head(up).call, k, w))
    BY <1>7 DEF Serve, Send
  <2>2. up # <<>> /\ up' = Tail(up) /\ emitted' = emitted
    BY <1>7 DEF Serve
  <2>3. /\ Line(Head(up).call, k, w) \in Lines
        /\ Line(Head(up).call, k, w).kind \notin {"report", "fence"}
    BY <1>3, <2>2 DEF Line, Lines, Requests
  <2> QED
    BY <1>1, <2>1, <2>2, <2>3 DEF Neutral
<1>8. CASE EndReports
  BY <1>1, <1>2, <1>8 DEF EndReports, Neutral
<1>9. CASE Echo
  <2>1. PICK w \in BOOLEAN : down' = Append(down, Line(Head(up).call, Head(up).kind, w))
    BY <1>9 DEF Echo, Send
  <2>2. up # <<>> /\ up' = Tail(up) /\ emitted' = emitted /\ Head(up).kind = "wake"
    BY <1>6, <1>9 DEF Echo
  <2>3. /\ Line(Head(up).call, Head(up).kind, w) \in Lines
        /\ Line(Head(up).call, Head(up).kind, w).kind \notin {"report", "fence"}
    BY <1>3, <2>2 DEF Line, Lines, Requests
  <2> QED
    BY <1>1, <2>1, <2>2, <2>3 DEF Neutral
<1>10. CASE Ignore
  BY <1>1, <1>2, <1>10 DEF Ignore, Neutral
<1>11. CASE Push
  <2>1. PICK w \in BOOLEAN : down' = Append(down, Line(NoCall, "push", w))
    BY <1>11 DEF Push, Send
  <2>2. up' = up /\ emitted' = emitted
    BY <1>11 DEF Push
  <2>3. /\ Line(NoCall, "push", w) \in Lines
        /\ Line(NoCall, "push", w).kind \notin {"report", "fence"}
    BY DEF Line, Lines
  <2> QED
    BY <1>1, <2>1, <2>2, <2>3 DEF Neutral
<1>12. CASE Complete
  <2>1. down # <<>> /\ up' = up /\ emitted' = emitted
    BY <1>12 DEF Complete, LastIsWhole
  <2>2. Len(down') = Len(down)
    BY <1>12, <2>1, CompleteType DEF Complete, TypeOK
  <2>3. \A i \in 1..Len(down) : down'[i].kind = down[i].kind /\ down'[i].call = down[i].call
    BY <1>12, <2>1 DEF Complete, TypeOK, Lines
  <2> QED
    BY <1>1, <2>1, <2>2, <2>3 DEF Neutral, Alike
<1>13. CASE PeerClose
  BY <1>1, <1>2, <1>13 DEF PeerClose, Neutral
<1>14. CASE PeerReset
  BY <1>1, <1>2, <1>14 DEF PeerReset, Neutral
<1>15. CASE ServeStale
  BY <1>1, <1>2, <1>15 DEF ServeStale, Neutral
<1> QED
  BY <1>6, <1>7, <1>8, <1>9, <1>10, <1>11, <1>12, <1>13, <1>14, <1>15 DEF Receiver

----------------------------------------------------------------------------
(* The steps of the client.                                                *)

\* While nobody reads a fan-out, a step that leaves the wire without one keeps
\* the invariant if what it begins or ends is accounted for.
LEMMA BareFanOut ==
    ASSUME ~Fanning', CarriesNone',
           lock' # NoCall => outcome' = "none" /\ got' = <<>> /\ emitted' = 0,
           MultiComplete'
    PROVE  FanOutInv'
BY DEF FanOutInv

\* A call that is inside its critical section and does not read a fan-out.
LEMMA NotFanning ==
    ASSUME CallsAssumption, LockInv, NEW c \in Calls, pc[c] \notin {"waiting", "done"},
           FanOutInv, pc[c] # "read" \/ c \notin Multi
    PROVE  lock = c /\ last = c /\ ~Fanning /\ CarriesNone /\ outcome = "none"
BY Holder DEF FanOutInv, Fanning

\* A failed attempt closes the connection, and is never a success.
LEMMA AttemptFailsFanOut ==
    ASSUME TypeOK, LockInv, FanOutInv, NEW c \in Calls,
           NEW err \in {"ctx", "noreply", "eof", "reset", "dial", "toomany"},
           pc[c] \notin {"waiting", "done"}, AttemptFails(c, err)
    PROVE  FanOutInv'
<1>1. lock = c /\ outcome = "none"
  BY Holder, CallsAssumption DEF FanOutInv
<1>2. up' = <<>> /\ down' = <<>> /\ last' = last
  BY DEF AttemptFails, CloseLocked
<1>3. CarriesNone'
  BY <1>2, NothingCarried DEF CarriesNone
<1>4. CASE Retry(c)
  <2>1. /\ pc'[c] = "dial" /\ lock' = c /\ outcome' = "none"
        /\ got' = <<>> /\ emitted' = 0
    BY <1>1, <1>4 DEF Retry, Goto, TypeOK
  <2>2. ~Fanning' /\ MultiComplete'
    BY <2>1 DEF Fanning, MultiComplete
  <2> QED
    BY <1>3, <2>1, <2>2, BareFanOut
<1>5. CASE Return(c, CallerError(c, err))
  <2>1. lock' = NoCall /\ outcome' # "ok"
    BY <1>5 DEF Return, CallerError
  <2>2. ~Fanning' /\ MultiComplete'
    BY <2>1, CallsAssumption DEF Fanning, MultiComplete
  <2> QED
    BY <1>3, <2>1, <2>2, BareFanOut
<1> QED
  BY <1>4, <1>5 DEF AttemptFails

\* A Send takes one line and returns.
LEMMA SendScans ==
    ASSUME TypeOK, LockInv, FanOutInv, NEW c \in Calls \ Multi, ScanLine(c)
    PROVE  FanOutInv'
<1>1. /\ pc[c] = "read" /\ down # <<>> /\ Token(c, Head(down))
      /\ down' = Tail(down) /\ up' = up /\ last' = last
  BY DEF ScanLine, TokenReady
<1>2. last = c /\ CarriesNone
  BY <1>1, CallsAssumption, NotFanning
<1>3. lock' = NoCall
  BY <1>1 DEF Token, Return
<1>4. CarriesNone'
  <2>1. down \in Seq(Lines)
    BY DEF TypeOK
  <2>2. ~Fenced(Tail(down)) /\ ReportsIn(Tail(down)) = {}
    BY <1>1, <1>2, <2>1, SentTail DEF CarriesNone
  <2> QED
    BY <1>1, <1>2, <2>2 DEF CarriesNone
<1>5. ~Fanning' /\ MultiComplete'
  BY <1>1, <1>2, <1>3, CallsAssumption DEF Fanning, MultiComplete
<1> QED
  BY <1>3, <1>4, <1>5, BareFanOut

\* A SendMulti collects one line, or returns at the echo of its fence, with all
\* the reports before it.
LEMMA MultiScans ==
    ASSUME NoProbes, TypeOK, LockInv, FanOutInv, NEW c \in Multi, ScanLine(c)
    PROVE  FanOutInv'
<1>1. /\ pc[c] = "read" /\ down # <<>> /\ Token(c, Head(down))
      /\ down' = Tail(down) /\ up' = up /\ last' = last /\ emitted' = emitted
  BY DEF ScanLine, TokenReady
<1>2. lock = c /\ last = c /\ Fanning /\ CarriesOne /\ outcome = "none"
  BY <1>1, CallsAssumption, Holder DEF FanOutInv, Fanning
<1>3. down \in Seq(Lines) /\ got \in Seq(Lines) /\ Head(down) \in Lines /\ Tail(down) \in Seq(Lines)
  BY <1>1, SentTail DEF TypeOK
<1>4. /\ SentTo(c, Tail(down)) /\ (Fenced(Tail(down)) => Fenced(down))
      /\ Head(down).kind = "fence" => Fenced(down)
      /\ Head(down).kind = "report" => Head(down).call = c
      /\ Head(down).kind = "fence" => ReportsIn(down) = {} /\ ~Fenced(Tail(down))
      /\ ReportsIn(down) = {} => ReportsIn(Tail(down)) = {}
  BY <1>1, <1>2, <1>3, SentTail DEF CarriesOne
<1>5. CASE IsVersionEcho(Head(down)) /\ Return(c, "ok") /\ UNCHANGED got
  <2>1. Head(down).kind = "fence"
    BY <1>5 DEF IsVersionEcho, NoProbes
  <2>2. /\ ReportsIn(down) = {} /\ ReportsIn(Tail(down)) = {} /\ ~Fenced(Tail(down))
        /\ ~Requested(up)
    BY <1>2, <1>4, <2>1 DEF CarriesOne
  <2>3. CarriesNone'
    BY <1>1, <2>2 DEF CarriesNone
  <2>4. Cardinality(ReportsIn(got)) = emitted
    <3>1. Cardinality(ReportsIn(got)) + 0 = emitted
      BY <1>2, <1>4, <2>1, <2>2, CountNone DEF CarriesOne
    <3> QED
      BY <1>3, <3>1, CountType
  <2>5. \A i \in ReportsIn(got) : got[i].call = c
    BY <1>2 DEF CarriesOne
  <2>6. lock' = NoCall /\ got' = got
    BY <1>5 DEF Return
  <2>7. MultiComplete'
    <3>1. ReportsIn(got) = {i \in 1..Len(got) : got[i].kind = "report"}
      BY DEF ReportsIn
    <3>2. \A i \in 1..Len(got) : got[i].kind = "report" => got[i].call = c
      BY <2>5 DEF ReportsIn
    <3> QED
      BY <1>1, <1>2, <2>4, <2>6, <3>1, <3>2 DEF MultiComplete
  <2>8. ~Fanning'
    BY <2>6, CallsAssumption DEF Fanning
  <2> QED
    BY <2>3, <2>6, <2>7, <2>8, BareFanOut
<1>6. CASE got' = Append(got, Head(down)) /\ UNCHANGED <<pc, outcome, lock>>
  <2>1. SentTo(lock, down') /\ AskedBy(lock, up') /\ (Fenced(down') => ~Requested(up'))
    BY <1>1, <1>2, <1>4 DEF CarriesOne
  <2>2. ASSUME Fenced(up') \/ Fenced(down')
        PROVE  Cardinality(ReportsIn(got')) + Cardinality(ReportsIn(down')) = emitted
    <3>1. Cardinality(ReportsIn(got)) + Cardinality(ReportsIn(down)) = emitted
      BY <1>1, <1>2, <1>4, <2>2 DEF CarriesOne
    <3> DEFINE one == IF Head(down).kind = "report" THEN 1 ELSE 0
    <3>2. Cardinality(ReportsIn(got')) = Cardinality(ReportsIn(got)) + one
      BY <1>3, <1>6, CountAppend
    <3>3. Cardinality(ReportsIn(down)) = Cardinality(ReportsIn(down')) + one
      BY <1>1, <1>3, CountTail
    <3>4. /\ Cardinality(ReportsIn(got)) \in Nat /\ Cardinality(ReportsIn(down')) \in Nat
          /\ one \in Nat
      BY <1>1, <1>3, CountType
    <3> HIDE DEF one
    <3> QED
      BY <3>1, <3>2, <3>3, <3>4
  <2>3. \A i \in ReportsIn(got') : got'[i].call = lock
    <3>1. /\ Len(got') = Len(got) + 1 /\ Len(got) \in Nat
          /\ \A i \in 1..Len(got) : got'[i] = got[i]
          /\ got'[Len(got) + 1] = Head(down)
      BY <1>3, <1>6, AppendProperties
    <3>2. SUFFICES ASSUME NEW i \in 1..Len(got'), got'[i].kind = "report"
          PROVE  got'[i].call = lock
      BY DEF ReportsIn
    <3>3. CASE i \in 1..Len(got)
      <4>1. i \in ReportsIn(got)
        BY <3>1, <3>2, <3>3 DEF ReportsIn
      <4> QED
        BY <1>2, <3>1, <3>3, <4>1 DEF CarriesOne
    <3>4. CASE i = Len(got) + 1
      BY <1>2, <1>4, <3>1, <3>2, <3>4
    <3> QED
      BY <3>1, <3>3, <3>4
  <2>4. Fanning' /\ lock' = lock /\ last' = last /\ outcome' = "none"
    BY <1>1, <1>2, <1>6 DEF Fanning
  <2>5. CarriesOne'
    BY <1>1, <2>1, <2>2, <2>3, <2>4 DEF CarriesOne
  <2>6. MultiComplete'
    BY <2>4 DEF MultiComplete
  <2> QED
    BY <2>4, <2>5, <2>6 DEF FanOutInv, Fanning
<1> QED
  BY <1>1, <1>5, <1>6, CallsAssumption DEF Token

\* So does whatever a call does.
LEMMA CallStepFanOut ==
    ASSUME NoProbes, TypeOK, LockInv, FanOutInv, NEW c \in Calls, CallStep(c)
    PROVE  FanOutInv'
<1> USE CallsAssumption
<1>1. CASE Acquire(c)
  <2>1. /\ lock = NoCall /\ lock' = c /\ pc'[c] # "read"
        /\ outcome' = "none" /\ got' = <<>> /\ emitted' = 0 /\ UNCHANGED <<up, down>>
    BY <1>1 DEF Acquire, Goto, TypeOK, wireVars
  <2>2. ~Fanning /\ CarriesNone
    BY <2>1 DEF Fanning, FanOutInv
  <2>3. ~Fanning' /\ CarriesNone' /\ MultiComplete'
    BY <2>1, <2>2 DEF Fanning, CarriesNone, MultiComplete
  <2> QED
    BY <2>1, <2>3, BareFanOut
<1>2. ASSUME pc[c] \notin {"waiting", "read", "done"}, pc'[c] # "read",
             UNCHANGED <<lock, last, got, outcome, emitted>>, CarriesNone'
      PROVE  FanOutInv'
  <2>1. lock = c /\ outcome = "none" /\ got = <<>> /\ emitted = 0
    BY <1>2, NotFanning DEF FanOutInv
  <2>2. ~Fanning' /\ MultiComplete'
    BY <1>2, <2>1 DEF Fanning, MultiComplete
  <2> QED
    BY <1>2, <2>1, <2>2, BareFanOut
<1>3. CASE Dial(c)
  <2>1. CarriesNone'
    BY <1>3, NothingCarried DEF Dial, CarriesNone
  <2>2. pc[c] = "dial" /\ pc'[c] # "read"
    BY <1>3 DEF Dial, Goto, TypeOK
  <2>3. UNCHANGED <<lock, last, got, outcome, emitted>>
    BY <1>3 DEF Dial, callVars
  <2> QED
    BY <1>2, <2>1, <2>2, <2>3
<1>4. CASE WakeWrite(c)
  <2>1. pc[c] = "wake" /\ pc'[c] # "read" /\ down' = down
    BY <1>4 DEF WakeWrite, Goto, TypeOK
  <2>2. CarriesNone
    BY <2>1, NotFanning
  <2>3. ~Requested(up')
    <3>1. CASE up' = up
      BY <2>2, <3>1 DEF CarriesNone
    <3>2. CASE up' = Append(up, Request(c, "wake"))
      <4>1. ~Asks(Request(c, "wake")) /\ Request(c, "wake") \in Requests /\ up \in Seq(Requests)
        BY DEF Asks, Request, Requests, TypeOK
      <4>2. /\ Len(up') = Len(up) + 1 /\ Len(up) \in Nat
            /\ \A i \in 1..Len(up) : up'[i] = up[i]
            /\ up'[Len(up) + 1] = Request(c, "wake")
        BY <3>2, <4>1, AppendProperties
      <4>3. \A i \in 1..Len(up') : i \in 1..Len(up) \/ i = Len(up) + 1
        BY <4>2
      <4> QED
        BY <2>2, <4>1, <4>2, <4>3 DEF CarriesNone, Requested
    <3> QED
      BY <1>4, <3>1, <3>2 DEF WakeWrite
  <2>4. CarriesNone'
    BY <2>1, <2>2, <2>3 DEF CarriesNone
  <2>5. UNCHANGED <<lock, last, got, outcome, emitted>>
    BY <1>4 DEF WakeWrite, callVars
  <2> QED
    BY <1>2, <2>1, <2>4, <2>5
<1>5. CASE WakeDrain(c)
  <2>1. pc[c] = "drain" /\ pc'[c] # "read" /\ up' = up
    BY <1>5 DEF WakeDrain, Goto, TypeOK
  <2>2. CarriesNone
    BY <2>1, NotFanning
  <2>3. PICK n \in 0..Len(down) : down' = SubSeq(down, n + 1, Len(down))
    BY <1>5 DEF WakeDrain
  <2>4. \A i \in 1..Len(down') : \E j \in 1..Len(down) : down'[i] = down[j]
    <3>1. down \in Seq(Lines) /\ Len(down) \in Nat /\ n \in Nat
      BY <2>3 DEF TypeOK
    <3>2. /\ Len(down') = Len(down) - n
          /\ \A i \in 1..Len(down') : down'[i] = down[n + i]
      BY <2>3, <3>1
    <3>3. \A i \in 1..Len(down') : n + i \in 1..Len(down)
      BY <3>1, <3>2
    <3> QED
      BY <3>2, <3>3
  <2>5. CarriesNone'
    BY <2>1, <2>2, <2>4 DEF CarriesNone, Fenced, ReportsIn
  <2>6. UNCHANGED <<lock, last, got, outcome, emitted>>
    BY <1>5 DEF WakeDrain, callVars
  <2> QED
    BY <1>2, <2>1, <2>5, <2>6
<1>6. CASE Write(c)
  <2>1. pc[c] = "write" /\ pc'[c] = "read" /\ down' = down
    BY <1>6 DEF Write, Goto, TypeOK
  <2>2. /\ lock = c /\ last = c /\ CarriesNone /\ outcome = "none"
        /\ got = <<>> /\ emitted = 0
    BY <2>1, NotFanning DEF FanOutInv
  <2>3. UNCHANGED <<lock, last, got, outcome, emitted>>
    BY <1>6 DEF Write, callVars
  <2>4. up \in Seq(Requests) /\ (up' = up \o RequestLines(c) \/ up' = up)
    BY <1>6 DEF Write, TypeOK
  <2>5. AskedBy(c, up') /\ (c \notin Multi => ~Requested(up'))
    BY <2>2, <2>4, Written DEF CarriesNone
  <2>6. MultiComplete'
    BY <2>2, <2>3 DEF MultiComplete
  <2>7. CASE c \in Multi
    <3>1. SentTo(c, down) /\ ~Fenced(down) /\ ReportsIn(down) = {} /\ ReportsIn(got) = {}
      BY <2>2, NothingCarried DEF CarriesNone, SentTo, Fenced
    <3>2. Cardinality(ReportsIn(got)) + Cardinality(ReportsIn(down)) = emitted
      BY <2>2, <3>1, CountNone
    <3>3. CarriesOne'
      BY <2>1, <2>2, <2>3, <2>5, <3>1, <3>2 DEF CarriesOne
    <3>4. Fanning'
      BY <2>1, <2>2, <2>3, <2>7 DEF Fanning
    <3> QED
      BY <2>2, <2>3, <2>6, <3>3, <3>4 DEF FanOutInv, Fanning
  <2>8. CASE c \notin Multi
    <3>1. ~Fanning' /\ CarriesNone'
      BY <2>1, <2>2, <2>3, <2>5, <2>8 DEF Fanning, CarriesNone
    <3> QED
      BY <2>2, <2>3, <2>6, <3>1, BareFanOut
  <2> QED
    BY <2>7, <2>8
<1>7. CASE ScanLine(c)
  BY <1>7, SendScans, MultiScans
<1>8. CASE DialFails(c)
  BY <1>8, AttemptFailsFanOut DEF DialFails
<1>9. CASE WriteFails(c)
  <2>1. AttemptError("reset") \in {"ctx", "noreply", "eof", "reset", "dial", "toomany"}
    BY ErrorOutcomes DEF SocketErrors
  <2> QED
    BY <1>9, <2>1, AttemptFailsFanOut DEF WriteFails
<1>10. CASE ScanFails(c)
  <2>1. PICK err \in SocketErrors : AttemptFails(c, AttemptError(err))
    BY <1>10 DEF ScanFails
  <2>2. AttemptError(err) \in {"ctx", "noreply", "eof", "reset", "dial", "toomany"}
    BY ErrorOutcomes
  <2>3. pc[c] = "read"
    BY <1>10 DEF ScanFails
  <2> QED
    BY <2>1, <2>2, <2>3, AttemptFailsFanOut
<1>11. CASE TooManyLines(c)
  BY <1>11, AttemptFailsFanOut DEF TooManyLines
<1> QED
  BY <1>1, <1>3, <1>4, <1>5, <1>6, <1>7, <1>8, <1>9, <1>10, <1>11 DEF CallStep

\* At first no fan-out is under way.
LEMMA InitFanOut == Init => FanOutInv
<1> SUFFICES ASSUME Init PROVE FanOutInv
  OBVIOUS
<1>1. ~Fanning /\ lock = NoCall
  BY CallsAssumption DEF Init, Fanning
<1>2. CarriesNone
  BY NothingCarried DEF Init, CarriesNone
<1>3. MultiComplete
  BY DEF Init, MultiComplete
<1> QED
  BY <1>1, <1>2, <1>3 DEF FanOutInv

\* FanOutInv is inductive.
LEMMA NextFanOut ==
    NoProbes /\ TypeOK /\ LockInv /\ FanOutInv /\ [Next]_vars => FanOutInv'
<1> SUFFICES ASSUME NoProbes, TypeOK, LockInv, FanOutInv, [Next]_vars PROVE FanOutInv'
  OBVIOUS
<1>1. ASSUME NEW c \in Calls, CallStep(c) PROVE FanOutInv'
  BY <1>1, CallStepFanOut
<1>2. CASE Receiver
  BY <1>2, ReceiverFanOutInv
<1>3. CASE Close
  <2>1. lock = NoCall /\ up' = <<>> /\ down' = <<>>
    BY <1>3 DEF Close, CloseLocked
  <2>2. UNCHANGED <<lock, last, got, outcome, emitted>>
    BY <1>3 DEF Close, callVars
  <2>3. CarriesNone' /\ ~Fanning'
    BY <2>1, <2>2, NothingCarried, CallsAssumption DEF CarriesNone, Fanning
  <2>4. MultiComplete'
    BY <2>2 DEF FanOutInv, MultiComplete
  <2> QED
    BY <2>1, <2>2, <2>3, <2>4, BareFanOut
<1>4. CASE Expire \/ Cancel \/ UNCHANGED vars
  <2>1. UNCHANGED <<pc, lock, last, got, outcome, emitted, up, down>>
    BY <1>4 DEF Expire, Cancel, vars, callVars, wireVars
  <2>2. Neutral
    BY <2>1 DEF Neutral, Alike
  <2> QED
    BY <2>2, NeutralFanOut
<1> QED
  BY <1>1, <1>2, <1>3, <1>4 DEF Next

\* A SendMulti that succeeds returns every report produced for it and none of
\* another call, whatever is pushed on the way, on a connection without Probes.
THEOREM FanOutsAreWhole == NoProbes => (Spec => []MultiComplete)
<1> SUFFICES ASSUME NoProbes PROVE Spec => []MultiComplete
  OBVIOUS
<1>1. Spec => []TypeOK
  BY TypeCorrect
<1>2. Spec => []LockInv
  BY MutualExclusion
<1>3. TypeOK /\ LockInv /\ FanOutInv /\ [Next]_vars => FanOutInv'
  BY NextFanOut
<1>4. FanOutInv => MultiComplete
  BY DEF FanOutInv
<1> QED
  BY <1>1, <1>2, <1>3, <1>4, InitFanOut, PTL DEF Spec

=============================================================================
