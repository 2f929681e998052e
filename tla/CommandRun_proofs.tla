------------------------- MODULE CommandRun_proofs -------------------------
(***************************************************************************)
(* Proofs about CommandRun, for any number of faults and addresses, and    *)
(* for any programs that keep to ProgramsAssumption.                       *)
(***************************************************************************)
EXTENDS CommandRun, TLAPS

-----------------------------------------------------------------------------
(* The exit code.                                                          *)

\* Among eight there is a first.
LEMMA FirstOfEight ==
    ASSUME NEW T, T \subseteq 1..8, T # {}
    PROVE  \E i \in T : \A j \in T : i <= j
<1>1. CASE 1 \in T
  BY <1>1
<1>2. CASE 1 \notin T /\ 2 \in T
  BY <1>2
<1>3. CASE 1 \notin T /\ 2 \notin T /\ 3 \in T
  BY <1>3
<1>4. CASE 1 \notin T /\ 2 \notin T /\ 3 \notin T /\ 4 \in T
  BY <1>4
<1>5. CASE 1 \notin T /\ 2 \notin T /\ 3 \notin T /\ 4 \notin T /\ 5 \in T
  BY <1>5
<1>6. CASE 6 \in T /\ T \subseteq {6, 7, 8}
  BY <1>6
<1>7. CASE 7 \in T /\ T \subseteq {7, 8}
  BY <1>7
<1>8. CASE T = {8}
  BY <1>8
<1> QED
  <2>1. T \subseteq {1, 2, 3, 4, 5, 6, 7, 8}
    OBVIOUS
  <2> QED
    BY <1>1, <1>2, <1>3, <1>4, <1>5, <1>6, <1>7, <1>8, <2>1

\* The exit codes of package cli.
ExitCodes == {0, 1, 2, 64, 69, 70, 75, 130}

\* The classes that mean that no receiver was reached.
Gone == {"unreachable", "noreceiver", "transport"}

\* An error has a code of its own that is not 0, and a cancellation outranks all
\* the others.
LEMMA Codes ==
    ASSUME NEW e, e \subseteq Errors
    PROVE  /\ ErrorExitCode(e) \in ExitCodes
           /\ ErrorExitCode(e) = 0 <=> e = {}
           /\ ErrorExitCode(e) = 69 => e \cap Gone # {}
<1>1. CASE e = {}
  BY <1>1 DEF ErrorExitCode, ExitCodes
<1>2. CASE e # {}
  <2> DEFINE hits == {i \in DOMAIN Ranking : Ranking[i][1] \cap e # {}}
             first == CHOOSE i \in hits : \A j \in hits : i <= j
  <2>1. DOMAIN Ranking = 1..8
    BY DEF Ranking
  <2>2. Ranking[8][1] = Errors
    BY DEF Ranking
  <2>3. 8 \in hits
    BY <1>2, <2>1, <2>2
  <2>4. first \in hits
    <3>1. \E i \in hits : \A j \in hits : i <= j
      BY <2>1, <2>3, FirstOfEight
    <3> QED
      BY <3>1
  <2>5. ErrorExitCode(e) = Ranking[first][2]
    BY <1>2 DEF ErrorExitCode
  <2>6. /\ first \in 1..8 /\ Ranking[first][1] \cap e # {}
    BY <2>1, <2>4
  <2> HIDE DEF first
  <2>7. \A i \in 1..8 : Ranking[i][2] \in ExitCodes \ {0}
    BY DEF Ranking, ExitCodes
  <2>8. \A i \in 1..8 : Ranking[i][2] = 69 => Ranking[i][1] = Gone
    BY DEF Ranking, Gone
  <2> QED
    BY <1>2, <2>5, <2>6, <2>7, <2>8
<1> QED
  BY <1>1, <1>2

\* What Execute adds to an error is an error, and none of it a lost receiver but
\* where the transport failed.
LEMMA Wraps ==
    ASSUME NEW e, e \subseteq Errors
    PROVE  /\ Wrapped(e) \subseteq Errors
           /\ Wrapped(e) = {} <=> e = {}
           /\ e \cap Gone = {} => Wrapped(e) \cap Gone = {}
BY DEF Wrapped, Errors, Gone

-----------------------------------------------------------------------------
(* The control of an invocation.                                           *)

\* The stages in which an operation is being run.
Active == {"ready", "flight", "backoff", "answered", "failed", "lookup"}

\* What an operation may fail with: never an error of the command's arguments.
OpErrors == {"canceled", "transport", "code", "other", "undefined", "restricted", "noreply"}

\* Where in an operation an invocation is, and which errors it may have there.
\* Only a request that was lost is sent again.
StageInv ==
    /\ stage \in Active =>
          Step.do \in Operations /\ req \in 1..Len(Step.reqs) /\ (rerun => Step.again)
    /\ stage = "tick" => Step.do = "wait"
    /\ stage = "backoff" => try = 1
    /\ stage = "failed" => err \subseteq OpErrors /\ err # {}
    /\ stage = "lookup" => ~rerun /\ Step.again /\ lossy
    /\ exit = IF stage = "done" THEN ErrorExitCode(Wrapped(err)) ELSE 0
    /\ ~lossy => try = 1 /\ ~rerun /\ "transport" \notin err /\ stage # "backoff"
    /\ detached => cancelled

\* Both hold in every reachable state: ControlInit and ControlNext.
Control == Typed /\ StageInv

\* The step an invocation is at is one of a program.
LEMMA StepFormed ==
    ASSUME Typed
    PROVE  /\ Len(prog) \in Nat \ {0} /\ pc \in 1..Len(prog)
           /\ Formed(Step)
           /\ Step.do = "setup" => pc = 1
BY ProgramsAssumption DEF Typed, Sequenced, Step

\* What the step of an operation has.
LEMMA OpFormed ==
    ASSUME Typed, Step.do \in Operations
    PROVE  /\ Step.via \in {"yxc", "ynca"} /\ Step.again \in BOOLEAN
           /\ Step.soft \in {"no", "always", "live", "cancelled", "lost", "alive"}
           /\ Step.jump \in 1..2
           /\ Step.jump = 2 => Skips(Step)
           /\ Step.reqs \in Seq(Request) /\ Len(Step.reqs) \in 1..3
           /\ pc + Step.jump \in Nat /\ pc + Step.jump > pc
<1>1. Formed(Step) /\ pc \in Nat
  BY StepFormed
<1>2. Step.jump \in 1..2
  BY <1>1 DEF Formed
<1>3. /\ Step.via \in {"yxc", "ynca"} /\ Step.again \in BOOLEAN
      /\ Step.soft \in {"no", "always", "live", "cancelled", "lost", "alive"}
      /\ Step.reqs \in Seq(Request) /\ Len(Step.reqs) \in 1..3
  BY <1>1, Zenon DEF Formed
<1> QED
  BY <1>1, <1>2, <1>3 DEF Skips

\* What a step or an operation that is over leaves: the end of the command with
\* an error, the next step of the program or one later, or another poll.
Ended(e) == /\ stage' = "done" /\ pc' = pc
            /\ err' = e /\ exit' = ErrorExitCode(Wrapped(e))
Passed(n) == \/ Ended({}) /\ n > Len(prog)
             \/ n <= Len(prog) /\ stage' = "step" /\ pc' = n /\ err' = {} /\ exit' = exit
Polls == stage' = "tick" /\ pc' = pc /\ err' = err /\ exit' = exit

\* The actions' ways to end a command, to pass on, and to fail, in these terms.
LEMMA Ends1 ==
    ASSUME NEW e, Finish(e)
    PROVE  Ended(e)
BY DEF Finish, Ended

\* To pass on to a step of the program, or to its end.
LEMMA Passes ==
    ASSUME Typed, NEW n \in Nat, GoTo(n)
    PROVE  Passed(n)
<1>1. Len(prog) \in Nat
  BY StepFormed
<1> QED
  BY <1>1 DEF GoTo, Finish, Passed, Ended

\* To fail: a poll is repeated, an error is let pass, or the command ends with it.
LEMMA Fails1 ==
    ASSUME Typed, Step.do \in Operations, NEW e, StepFails(e)
    PROVE  \/ Step.do = "wait" /\ Polls
           \/ LetsPass(e) /\ Passed(pc + Step.jump)
           \/ ~LetsPass(e) /\ Ended(e)
<1>1. pc + Step.jump \in Nat
  BY OpFormed
<1>2. GoTo(pc + Step.jump) => Passed(pc + Step.jump)
  BY <1>1, Passes
<1>3. Finish(e) => Ended(e)
  BY Ends1
<1>4. CASE Step.do = "wait" /\ "canceled" \notin e
  BY <1>4 DEF StepFails, Polls
<1>5. CASE ~(Step.do = "wait" /\ "canceled" \notin e) /\ LetsPass(e)
  <2>1. GoTo(pc + Step.jump)
    BY <1>5, Zenon DEF StepFails
  <2> QED
    BY <1>2, <1>5, <2>1
<1>6. CASE ~(Step.do = "wait" /\ "canceled" \notin e) /\ ~LetsPass(e)
  <2>1. Finish(e)
    BY <1>6, Zenon DEF StepFails
  <2> QED
    BY <1>3, <1>6, <2>1
<1> QED
  BY <1>4, <1>5, <1>6

\* Each leaves the control in its domain.
LEMMA EndedTypes ==
    ASSUME Control, NEW e, e \subseteq Errors, Ended(e)
    PROVE  /\ pc' \in 1..Len(prog) /\ stage' = "done"
           /\ err' = e /\ exit' \in ExitCodes
BY StepFormed, Wraps, Codes DEF Ended, Control

\* So does a step that is passed, with no error.
LEMMA PassedTypes ==
    ASSUME Control, stage # "done", NEW n \in Nat, n > pc, Passed(n)
    PROVE  /\ pc' \in 1..Len(prog) /\ stage' \in {"done", "step"}
           /\ err' = {} /\ exit' = 0
<1>1. ErrorExitCode(Wrapped({})) = 0
  BY Wraps, Codes
<1>2. pc \in Nat /\ pc \in 1..Len(prog) /\ Len(prog) \in Nat
  BY StepFormed DEF Control
<1>3. exit = 0
  BY DEF Control, StageInv
<1> QED
  BY <1>1, <1>2, <1>3 DEF Passed, Ended

-----------------------------------------------------------------------------
(* What the actions do, by what they have in common.                       *)

\* Steps that make no request.
Local == SetUpState \/ RefuseArgument \/ PrintResult \/ Check \/ Sleep \/ SkipIdentify \/ ReadCache

\* Only the set-up finds that there is no receiver, a wrong value is an error of the
\* set-up, of --output or of the step that refuses it, a feature is demanded only if it
\* is missing, and the bracket of a seek is no error.
Excused(e) ==
    /\ "transport" \notin e /\ Step.do # "hold"
    /\ Step.do = "demand" => ~Has(Step.need)
    /\ e \cap Gone # {} => Step.do = "setup"
    /\ e \cap {"usage", "validation"} # {} =>
          \/ Step.do \in {"setup", "show"}
          \/ Step.do \in {"refuse", "demand"} /\ Step.error \in {"usage", "validation"}

\* What such a step does: it goes on, skips a step, or ends the command.
Localed ==
    /\ stage = "step" /\ Step.do \notin {"ask", "wait", "release"}
    /\ UNCHANGED <<prog, req, try, rerun, client, device, saved, seen, detached, spent, cancelled,
                   struck, hit, addr, switch, advertised, ran, lossy>>
    /\ source' \in Sources /\ known' \in BOOLEAN /\ memo' \in FeatureSets \cup {"none"}
    /\ memo' # memo => Step.do = "fetch"
    /\ Step.do = "fetch" => ~Step.refresh
    /\ faults' \in faults..MaxFaults
    /\ \/ Passed(pc + 1)
       \/ Passed(pc + 2) /\ Skips(Step) /\ (Step.do = "unlesshas" => Has(Step.need))
       \/ \E e \in SUBSET Errors : e # {} /\ Excused(e) /\ Ended(e)

\* The steps without a request do no more than that.
LEMMA LocalStep ==
    ASSUME Control, Local
    PROVE  Localed
<1> USE DEF Control
<1>1. /\ pc + 1 \in Nat /\ pc + 2 \in Nat /\ Formed(Step) /\ Typed
  BY StepFormed
<1>2. /\ \A n \in Nat : GoTo(n) => Passed(n)
      /\ \A e : Finish(e) => Ended(e)
  BY <1>1, Passes, Ends1
<1>3. /\ source \in Sources /\ known \in BOOLEAN /\ memo \in FeatureSets \cup {"none"}
      /\ faults \in Nat /\ faults \in faults..MaxFaults
  BY RunAssumption DEF Typed
<1>4. CASE SetUpState
  <2>1. /\ stage = "step" /\ Step.do = "setup"
        /\ UNCHANGED <<prog, req, try, rerun, client, device, saved, seen, detached, spent, cancelled,
                       struck, hit, addr, switch, advertised, ran, lossy, known, memo, faults>>
        /\ source' \in Sources
    BY <1>3, <1>4 DEF SetUpState, At, call, receiver, history
  <2>2. GoTo(pc + 1) \/ \E e \in {"nodevice", "noreceiver", "usage", "other", "canceled"} : Finish({e})
    BY <1>4 DEF SetUpState
  <2>3. \A e \in {"nodevice", "noreceiver", "usage", "other", "canceled"} :
            {e} \in SUBSET Errors /\ {e} # {} /\ Excused({e})
    BY <2>1 DEF Errors, Excused
  <2>4. Passed(pc + 1) \/ \E e \in SUBSET Errors : e # {} /\ Excused(e) /\ Ended(e)
    BY <1>1, <1>2, <2>2, <2>3
  <2> QED
    BY <1>3, <2>1, <2>4 DEF Localed
<1>5. CASE RefuseArgument \/ PrintResult \/ Check \/ Sleep
  <2>1. /\ stage = "step"
        /\ Step.do \in {"refuse", "show", "unlesshas", "demand", "unlesson", "hold", "pause"}
        /\ UNCHANGED <<prog, req, try, rerun, client, device, saved, seen, detached, spent, cancelled,
                       struck, hit, addr, switch, advertised, ran, lossy, source, known, memo, faults>>
    BY <1>5 DEF RefuseArgument, PrintResult, Check, Sleep, At, Steps, call, state, receiver, history
  <2>2. \/ GoTo(pc + 1)
        \/ /\ GoTo(pc + 2) /\ Step.do \in {"unlesshas", "unlesson"}
           /\ Step.do = "unlesshas" => Has(Step.need)
        \/ /\ Finish({Step.error}) /\ Step.do \in {"refuse", "demand"}
           /\ Step.do = "demand" => ~Has(Step.need)
        \/ Finish({"usage"}) /\ Step.do = "show"
        \/ Finish({"canceled"}) /\ Step.do = "pause"
    BY <1>5 DEF RefuseArgument, PrintResult, Check, Sleep, At
  <2>3. CASE GoTo(pc + 1)
    BY <1>1, <1>2, <1>3, <2>1, <2>3 DEF Localed
  <2>4. CASE /\ GoTo(pc + 2) /\ Step.do \in {"unlesshas", "unlesson"}
             /\ Step.do = "unlesshas" => Has(Step.need)
    BY <1>1, <1>2, <1>3, <2>1, <2>4 DEF Localed, Skips
  <2>5. CASE \E e \in SUBSET Errors : e # {} /\ Excused(e) /\ Finish(e)
    BY <1>2, <1>3, <2>1, <2>5 DEF Localed
  <2>6. CASE /\ Finish({Step.error}) /\ Step.do \in {"refuse", "demand"}
             /\ Step.do = "demand" => ~Has(Step.need)
    <3>1. Step.error \in {"usage", "validation", "other"}
      BY <1>1, <2>6 DEF Formed
    <3>2. {Step.error} \in SUBSET Errors /\ Excused({Step.error})
      BY <2>6, <3>1 DEF Errors, Excused, Gone
    <3> QED
      BY <2>5, <2>6, <3>2
  <2>7. CASE Finish({"usage"}) /\ Step.do = "show"
    <3>1. {"usage"} \in SUBSET Errors /\ Excused({"usage"})
      BY <2>7 DEF Errors, Excused, Gone
    <3> QED
      BY <2>5, <2>7, <3>1
  <2>8. CASE Finish({"canceled"}) /\ Step.do = "pause"
    <3>1. {"canceled"} \in SUBSET Errors /\ Excused({"canceled"})
      BY <2>8 DEF Errors, Excused, Gone
    <3> QED
      BY <2>5, <2>8, <3>1
  <2> QED
    BY <2>2, <2>3, <2>4, <2>6, <2>7, <2>8
<1>6. CASE SkipIdentify
  <2>1. /\ stage = "step" /\ Step.do = "identify" /\ known' = TRUE
        /\ UNCHANGED <<prog, req, try, rerun, client, device, saved, seen, detached, spent, cancelled,
                       struck, hit, addr, switch, advertised, ran, lossy, source, memo, faults>>
        /\ GoTo(pc + 1)
    BY <1>6 DEF SkipIdentify, At, call, receiver, history
  <2> QED
    BY <1>1, <1>2, <1>3, <2>1 DEF Localed
<1>7. CASE ReadCache
  <2>1. /\ stage = "step" /\ Step.do = "fetch" /\ ~Step.refresh
        /\ UNCHANGED <<prog, req, try, rerun, client, device, saved, seen, detached, spent, cancelled,
                       struck, hit, addr, switch, advertised, ran, lossy, source, known>>
        /\ memo' \in FeatureSets \cup {"none"}
    BY <1>3, <1>7 DEF ReadCache, At, call, receiver
  <2>2. faults' \in faults..MaxFaults
    BY <1>3, <1>7, RunAssumption DEF ReadCache, Fault
  <2>3. GoTo(pc + 1) \/ StepFails({"other"})
    BY <1>7 DEF ReadCache
  <2>4. Passed(pc + 1) \/ Passed(pc + Step.jump) \/ Ended({"other"})
    BY <1>1, <1>2, <2>1, <2>3, Fails1 DEF Operations
  <2>5. Step.jump = 1 \/ (Step.jump = 2 /\ Skips(Step))
    <3>1. Step.do \in Operations
      BY <2>1 DEF Operations
    <3>2. Step.jump \in 1..2 /\ (Step.jump = 2 => Skips(Step))
      BY <1>1, <3>1, OpFormed
    <3> QED
      BY <3>2
  <2>6. {"other"} \in SUBSET Errors /\ {"other"} # {} /\ Excused({"other"})
    BY <2>1 DEF Errors, Excused, Gone
  <2>7. \/ Passed(pc + 1)
        \/ Passed(pc + 2) /\ Skips(Step)
        \/ \E e \in SUBSET Errors : e # {} /\ Excused(e) /\ Ended(e)
    BY <2>4, <2>5, <2>6
  <2> QED
    BY <1>3, <2>1, <2>2, <2>7 DEF Localed
<1> QED
  BY <1>4, <1>5, <1>6, <1>7 DEF Local

\* Attempts at a request.
Attempts == Transmit \/ Answered \/ Refused \/ Dropped \/ Unreachable \/ Aborted \/ Retry

\* A request in flight is executed and answered; or it is executed or not, and
\* failed, or lost and sent once more unless the context is done.  Only a loss
\* that leaves the context alone is one of the transport.
Attempted ==
    /\ UNCHANGED <<prog, pc, req, rerun, exit, source, client, device, saved, known, memo, detached,
                   spent, cancelled, struck, hit, addr, advertised>>
    /\ lossy' \in BOOLEAN /\ (lossy => lossy') /\ faults' \in faults..MaxFaults
    /\ \/ /\ UNCHANGED <<ran, switch, seen, lossy>>
          /\ \/ stage = "ready" /\ ~CtxDone /\ stage' = "flight" /\ try' = try /\ err' = err
             \/ stage = "backoff" /\ ~CtxDone /\ stage' = "ready" /\ try' = 2 /\ err' = err
             \/ /\ stage \in {"ready", "backoff"} /\ CtxDone /\ stage' = "failed" /\ err' = {"canceled"}
                /\ try' = try
       \/ /\ stage = "flight" /\ stage' = "answered" /\ Execute
          /\ seen' = (IF Ask.to = "look" THEN switch ELSE seen)
          /\ try' = try /\ err' = err /\ lossy' = lossy
       \/ /\ stage = "flight" /\ seen' = seen
          /\ Execute \/ UNCHANGED <<ran, switch>>
          /\ \/ /\ stage' = "failed" /\ try' = try
                /\ err' \subseteq OpErrors /\ err' # {}
                /\ "transport" \in err' => lossy' /\ ~CtxDone
                /\ lossy' \/ faults' > 0 \/ (CtxDone /\ err' = {"canceled"})
             \/ /\ try = 1 /\ lossy' /\ ~CtxDone /\ err' = err
                /\ (stage' = "backoff" /\ try' = 1) \/ (stage' = "ready" /\ try' = 2)

\* The attempts at a request do no more than that.
LEMMA AttemptStep ==
    ASSUME Control, Attempts
    PROVE  Attempted
<1> USE DEF Control
<1>1. /\ faults \in Nat /\ faults \in faults..MaxFaults /\ lossy \in BOOLEAN /\ TRUE \in BOOLEAN
      /\ try \in 1..2
  BY RunAssumption DEF Typed
<1> DEFINE Frame == UNCHANGED <<prog, pc, req, rerun, exit, source, client, device, saved, known,
                                memo, detached, spent, cancelled, struck, hit, addr, advertised>>
<1>2. Fault => faults' \in faults..MaxFaults /\ faults' > 0
  BY <1>1, RunAssumption DEF Fault
<1>3. /\ Execute => UNCHANGED <<addr, advertised>>
      /\ UNCHANGED receiver => UNCHANGED <<addr, advertised, ran, switch>>
  BY DEF Execute, receiver
<1>4. ASSUME NEW e, Fails(e) PROVE stage' = "failed" /\ err' = e /\ try' = try
  BY <1>4 DEF Fails
<1>5. \A e : Error(e) = (IF CtxDone THEN {"canceled"} ELSE {e})
  BY DEF Error
<1>6. CASE Transmit
  <2>1. Frame /\ UNCHANGED <<ran, switch, seen, lossy, faults>>
    BY <1>6 DEF Transmit, Attempt, state, receiver, history
  <2>2. CASE CtxDone
    <3>1. stage = "ready" /\ Fails({"canceled"})
      BY <1>6, <2>2 DEF Transmit
    <3> QED
      BY <1>1, <1>4, <2>1, <2>2, <3>1 DEF Attempted
  <2>3. CASE ~CtxDone
    <3>1. stage = "ready" /\ stage' = "flight" /\ try' = try /\ err' = err
      BY <1>6, <2>3 DEF Transmit
    <3> QED
      BY <1>1, <2>1, <2>3, <3>1 DEF Attempted
  <2> QED
    BY <2>2, <2>3
<1>7. CASE Retry
  <2>1. Frame /\ UNCHANGED <<ran, switch, seen, lossy, faults>>
    BY <1>7 DEF Retry, Attempt, state, receiver, history
  <2>2. CASE CtxDone
    <3>1. stage = "backoff" /\ Fails({"canceled"})
      BY <1>7, <2>2 DEF Retry
    <3> QED
      BY <1>1, <1>4, <2>1, <2>2, <3>1 DEF Attempted
  <2>3. CASE ~CtxDone
    <3>1. stage = "backoff" /\ stage' = "ready" /\ try' = 2 /\ err' = err
      BY <1>7, <2>3 DEF Retry
    <3> QED
      BY <1>1, <2>1, <2>3, <3>1 DEF Attempted
  <2> QED
    BY <2>2, <2>3
<1>8. CASE Answered
  <2>1. Frame /\ UNCHANGED <<try, err, lossy, faults>>
    BY <1>3, <1>8 DEF Answered, Attempt, state, history
  <2>2. stage = "flight" /\ stage' = "answered" /\ Execute
        /\ seen' = (IF Ask.to = "look" THEN switch ELSE seen)
    BY <1>8 DEF Answered
  <2> QED
    BY <1>1, <2>1, <2>2 DEF Attempted
<1>9. CASE Refused
  <2>1. PICK e \in Refusals[Step.via] :
          /\ Fails({IF Ask.to = "probe" /\ e = "undefined" THEN "code" ELSE e})
          /\ UNCHANGED receiver \/ Execute
    BY <1>9 DEF Refused
  <2>2. stage = "flight" /\ Fault /\ UNCHANGED <<seen, lossy>> /\ UNCHANGED Attempt
    BY <1>9 DEF Refused
  <2>3. Frame
    BY <1>3, <2>1, <2>2 DEF Attempt, state
  <2>4. e \in {"code", "other", "undefined", "restricted"}
    <3>1. Step.via \in {"yxc", "ynca"}
      <4>1. Step.do \in Operations
        BY <2>2 DEF StageInv, Active
      <4> QED
        BY <4>1, OpFormed
    <3> QED
      BY <2>1, <3>1 DEF Refusals
  <2>5. stage' = "failed" /\ try' = try /\ err' \subseteq OpErrors /\ err' # {} /\ "transport" \notin err'
    BY <1>4, <2>1, <2>4 DEF OpErrors
  <2> QED
    BY <1>1, <1>2, <1>3, <2>1, <2>2, <2>3, <2>5 DEF Attempted
<1>10. ASSUME stage = "flight", Lost, lossy' = TRUE
       PROVE  \/ /\ stage' = "failed" /\ try' = try
                 /\ err' \subseteq OpErrors /\ err' # {}
                 /\ "transport" \in err' => lossy' /\ ~CtxDone
              \/ /\ try = 1 /\ lossy' /\ ~CtxDone /\ err' = err
                 /\ (stage' = "backoff" /\ try' = 1) \/ (stage' = "ready" /\ try' = 2)
  <2>1. CASE Fails(Error("transport")) \/ Fails(Error("code")) \/ Fails({"other"})
    BY <1>4, <1>5, <1>10, <2>1 DEF OpErrors
  <2>2. CASE /\ try = 1 /\ ~CtxDone /\ UNCHANGED err
             /\ (stage' = "backoff" /\ UNCHANGED try) \/ (stage' = "ready" /\ try' = 2)
    BY <1>10, <2>2
  <2> QED
    BY <1>10, <2>1, <2>2 DEF Lost
<1>11. CASE Dropped
  <2>1. stage = "flight" /\ Fault /\ lossy' = TRUE /\ seen' = seen /\ UNCHANGED Attempt
    BY <1>11 DEF Dropped
  <2>2. Execute \/ UNCHANGED receiver
    BY <1>11 DEF Dropped
  <2>3. Lost \/ Fails(Error("noreply"))
    BY <1>11 DEF Dropped
  <2>4. Frame
    BY <1>3, <2>1, <2>2 DEF Attempt, state
  <2>5. CASE Lost
    BY <1>1, <1>2, <1>3, <1>10, <2>1, <2>2, <2>4, <2>5 DEF Attempted
  <2>6. CASE Fails(Error("noreply"))
    <3>1. /\ stage' = "failed" /\ try' = try
          /\ err' \subseteq OpErrors /\ err' # {} /\ "transport" \notin err'
      BY <1>4, <1>5, <2>6 DEF OpErrors
    <3> QED
      BY <1>1, <1>2, <1>3, <2>1, <2>2, <2>4, <3>1 DEF Attempted
  <2> QED
    BY <2>3, <2>5, <2>6
<1>12. CASE Unreachable
  <2>1. stage = "flight" /\ lossy' = TRUE /\ UNCHANGED <<seen, receiver, faults, Attempt>>
    BY <1>12 DEF Unreachable
  <2>2. Lost \/ Fails(Error("transport"))
    BY <1>12 DEF Unreachable
  <2>3. Frame
    BY <2>1 DEF Attempt, state, receiver
  <2>4. CASE Lost
    BY <1>1, <1>3, <1>10, <2>1, <2>3, <2>4 DEF Attempted
  <2>5. CASE Fails(Error("transport"))
    <3>1. /\ stage' = "failed" /\ try' = try
          /\ err' \subseteq OpErrors /\ err' # {} /\ ("transport" \in err' => lossy' /\ ~CtxDone)
      BY <1>4, <1>5, <2>1, <2>5 DEF OpErrors
    <3> QED
      BY <1>1, <1>3, <2>1, <2>3, <3>1 DEF Attempted
  <2> QED
    BY <2>2, <2>4, <2>5
<1>13. CASE Aborted
  <2>1. /\ stage = "flight" /\ CtxDone /\ Fails({"canceled"})
        /\ Execute \/ UNCHANGED receiver
        /\ UNCHANGED <<seen, lossy, faults>> /\ UNCHANGED Attempt
    BY <1>13 DEF Aborted, history
  <2>2. Frame
    BY <1>3, <2>1 DEF Attempt, state
  <2>3. /\ stage' = "failed" /\ try' = try
        /\ err' = {"canceled"} /\ {"canceled"} \subseteq OpErrors /\ "transport" \notin err'
    BY <1>4, <2>1 DEF OpErrors
  <2> QED
    BY <1>1, <1>3, <2>1, <2>2, <2>3 DEF Attempted
<1> QED
  BY <1>6, <1>7, <1>8, <1>9, <1>11, <1>12, <1>13 DEF Attempts

\* What an operation's error makes of its step.
Over(e) ==
    \/ Step.do = "wait" /\ Polls
    \/ LetsPass(e) /\ Passed(pc + Step.jump)
    \/ ~LetsPass(e) /\ Ended(e)

\* The next request of an operation, or its first on the host that was found.
Continues ==
    /\ stage' = "ready" /\ pc' = pc /\ err' = {} /\ exit' = exit /\ try' = 1
    /\ \/ stage \in {"answered", "failed"} /\ req < Len(Step.reqs) /\ req' = req + 1 /\ rerun' = rerun
       \/ stage = "lookup" /\ req' = 1 /\ rerun' = TRUE

\* The ends of requests and operations.
Concludes == Complete \/ Failed \/ Found \/ NotFound

\* Features are loaded by an operation that was answered, which then passes.
Concluded ==
    /\ stage \in {"answered", "failed", "lookup"}
    /\ UNCHANGED <<prog, source, seen, detached, spent, cancelled, struck, hit, addr, switch, ran,
                   lossy>>
    /\ client' \in Hosts /\ device' \in Hosts /\ saved' \in Hosts
    /\ known' \in BOOLEAN /\ memo' \in FeatureSets \cup {"none"}
    /\ advertised' \in FeatureSets \cup {"unasked"}
    /\ faults' \in faults..MaxFaults
    /\ \/ memo' = memo /\ advertised' = advertised
       \/ Step.do = "fetch" /\ memo' = advertised' /\ Passed(pc + 1)
    /\ \/ Continues /\ (stage = "failed" => err \subseteq Ask.shrug)
       \/ /\ UNCHANGED <<req, try, rerun>>
          /\ \/ /\ stage = "answered" /\ req = Len(Step.reqs) /\ Passed(pc + 1)
                /\ Step.do = "fetch" => memo' = advertised'
             \/ stage = "answered" /\ Step.do = "wait" /\ Polls
             \/ stage = "answered" /\ Step.do = "fetch" /\ faults' > 0 /\ Over({"other"})
             \/ stage = "failed" /\ err \subseteq Ask.shrug /\ req = Len(Step.reqs) /\ Passed(pc + 1)
             \/ /\ stage = "failed" /\ ShouldRediscover /\ stage' = "lookup"
                /\ UNCHANGED <<pc, err, exit>>
             \/ /\ stage = "failed" /\ ~(err \subseteq Ask.shrug) /\ ~ShouldRediscover
                /\ Over(OpError)
             \/ stage = "lookup" /\ faults' > 0 /\ Over({"other"})
             \/ stage = "lookup" /\ Over(LookupError)

\* The ends of operations do no more than that.
LEMMA ConcludeStep ==
    ASSUME Control, Concludes
    PROVE  Concluded
<1> USE DEF Control
<1>1. /\ faults \in Nat /\ faults \in faults..MaxFaults
      /\ client \in Hosts /\ device \in Hosts /\ saved \in Hosts /\ addr \in Hosts
      /\ known \in BOOLEAN /\ memo \in FeatureSets \cup {"none"}
      /\ advertised \in FeatureSets \cup {"unasked"}
      /\ pc + 1 \in Nat /\ Typed /\ TRUE \in BOOLEAN
  BY RunAssumption, StepFormed DEF Typed
<1>2. Fault => faults' \in faults..MaxFaults /\ faults' > 0
  BY <1>1, RunAssumption DEF Fault
<1>3. stage \in Active => Step.do \in Operations
  BY DEF StageInv
<1>4. ASSUME NEW e, StepFails(e), stage \in Active PROVE Over(e)
  BY <1>1, <1>3, <1>4, Fails1 DEF Over
<1>5. GoTo(pc + 1) => Passed(pc + 1)
  BY <1>1, Passes
<1>6. ASSUME NextRequest, stage \in {"answered", "failed"} PROVE Continues
  BY <1>6 DEF NextRequest, Continues
<1>7. CASE Complete
  <2>1. /\ stage = "answered" /\ stage \in Active
        /\ UNCHANGED <<prog, source, seen, detached, spent, cancelled, struck, hit, addr, switch, ran,
                       lossy, client, device>>
    BY <1>7 DEF Complete, Active
  <2>2. CASE NextRequest /\ UNCHANGED <<known, saved, memo, advertised, faults>>
    BY <1>1, <1>6, <2>1, <2>2 DEF Concluded
  <2>3. CASE /\ req = Len(Step.reqs) /\ UNCHANGED call
             /\ IF Step.do = "wait" /\ ~PolledOn
                THEN stage' = "tick" /\ UNCHANGED <<pc, err, exit>>
                ELSE GoTo(pc + 1)
             /\ Kept /\ UNCHANGED faults
    <3>1. /\ known' \in BOOLEAN /\ saved' \in Hosts
          /\ memo' \in FeatureSets \cup {"none"} /\ advertised' \in FeatureSets \cup {"unasked"}
          /\ Step.do # "fetch" => memo' = memo /\ advertised' = advertised
          /\ Step.do = "fetch" => memo' = advertised'
      <4>1. CASE Step.do = "identify"
        BY <1>1, <2>3, <4>1 DEF Kept
      <4>2. CASE Step.do = "fetch"
        BY <1>1, <2>3, <4>2 DEF Kept, Fetched
      <4>3. CASE Step.do \notin {"identify", "fetch"}
        BY <1>1, <2>3, <4>3 DEF Kept
      <4> QED
        BY <4>1, <4>2, <4>3
    <3>2. \/ Step.do = "wait" /\ Polls
          \/ Passed(pc + 1)
      BY <1>5, <2>3 DEF Polls
    <3>3. UNCHANGED <<req, try, rerun>>
      BY <2>3 DEF call
    <3>4. \/ memo' = memo /\ advertised' = advertised
          \/ Step.do = "fetch" /\ memo' = advertised' /\ Passed(pc + 1)
      BY <3>1, <3>2
    <3> QED
      BY <1>1, <2>1, <2>3, <3>1, <3>2, <3>3, <3>4 DEF Concluded
  <2>4. CASE /\ req = Len(Step.reqs) /\ UNCHANGED call
             /\ Step.do = "fetch" /\ Fault /\ StepFails({"other"})
             /\ UNCHANGED <<known, saved, memo, advertised>>
    <3>1. UNCHANGED <<req, try, rerun>> /\ Over({"other"}) /\ faults' > 0 /\ faults' \in faults..MaxFaults
      BY <1>2, <1>4, <2>1, <2>4 DEF call
    <3> QED
      BY <1>1, <2>1, <2>4, <3>1 DEF Concluded
  <2> QED
    BY <1>7, <2>2, <2>3, <2>4 DEF Complete
<1>8. CASE Failed
  <2>1. /\ stage = "failed" /\ stage \in Active
        /\ UNCHANGED <<prog, source, seen, detached, spent, cancelled, struck, hit, addr, switch, ran,
                       lossy, client, device, saved, known, memo, advertised, faults>>
    BY <1>8 DEF Failed, Active, state, receiver, history
  <2>2. CASE err \subseteq Ask.shrug /\ NextRequest
    BY <1>1, <1>6, <2>1, <2>2 DEF Concluded
  <2>3. CASE err \subseteq Ask.shrug /\ req = Len(Step.reqs) /\ GoTo(pc + 1) /\ UNCHANGED call
    BY <1>1, <1>5, <2>1, <2>3 DEF Concluded, call
  <2>4. CASE ~(err \subseteq Ask.shrug) /\ UNCHANGED call /\ ShouldRediscover /\ stage' = "lookup"
             /\ UNCHANGED <<pc, err, exit>>
    BY <1>1, <2>1, <2>4 DEF Concluded, call
  <2>5. CASE ~(err \subseteq Ask.shrug) /\ UNCHANGED call /\ ~ShouldRediscover /\ StepFails(OpError)
    BY <1>1, <1>4, <2>1, <2>5 DEF Concluded, call
  <2> QED
    BY <1>8, <2>2, <2>3, <2>4, <2>5 DEF Failed
<1>9. CASE Found
  <2>1. /\ stage = "lookup" /\ stage \in Active /\ device' = addr
        /\ UNCHANGED <<prog, source, known, memo, seen, detached, spent, cancelled, struck, hit, addr,
                       switch, advertised, ran, lossy>>
    BY <1>9 DEF Found, Active, receiver
  <2>2. CASE /\ saved' = addr /\ client' = (IF Step.via = "yxc" THEN addr ELSE client)
             /\ req' = 1 /\ try' = 1 /\ rerun' = TRUE /\ stage' = "ready" /\ err' = {}
             /\ UNCHANGED <<pc, exit, faults>>
    BY <1>1, <2>1, <2>2 DEF Concluded, Continues
  <2>3. CASE Fault /\ StepFails({"other"}) /\ UNCHANGED <<saved, client, call>>
    BY <1>1, <1>2, <1>4, <2>1, <2>3 DEF Concluded, call
  <2> QED
    BY <1>9, <2>2, <2>3 DEF Found
<1>10. CASE NotFound
  <2>1. /\ stage = "lookup" /\ stage \in Active /\ StepFails(LookupError)
        /\ UNCHANGED <<prog, req, try, rerun, source, client, device, saved, known, memo, seen,
                       detached, spent, cancelled, struck, hit, addr, switch, advertised, ran, lossy>>
    BY <1>10 DEF NotFound, Active, call, state, receiver
  <2>2. faults' \in faults..MaxFaults
    BY <1>1, <1>2, <1>10 DEF NotFound
  <2>3. Over(LookupError)
    BY <1>4, <2>1
  <2> QED
    BY <1>1, <2>1, <2>2, <2>3 DEF Concluded
<1> QED
  BY <1>7, <1>8, <1>9, <1>10 DEF Concludes

\* An operation begins, a poll is repeated, or the waiting is over.
Started ==
    /\ UNCHANGED <<prog, source, client, device, saved, known, memo, seen, spent, cancelled, struck,
                   hit, addr, switch, advertised, ran, lossy, faults>>
    /\ \/ /\ stage' = "ready" /\ req' = 1 /\ try' = 1 /\ rerun' = FALSE
          /\ UNCHANGED <<pc, err, exit>>
          /\ \/ /\ stage = "step" /\ Step.do \in Operations
                /\ detached' = Detaches
             \/ stage = "tick" /\ detached' = detached
       \/ /\ stage = "tick" /\ UNCHANGED <<req, try, rerun, detached>>
          /\ Ended({"powertimeout"}) \/ Ended({"canceled"})

\* The starts do no more than that.
LEMMA StartStep ==
    ASSUME StartCall \/ NextPoll
    PROVE  Started
<1>1. CASE StartCall
  BY <1>1 DEF StartCall, Begin, Started, state, receiver, history, NeedsId, Operations
<1>2. CASE NextPoll
  <2>1. CASE Begin
    BY <1>2, <2>1 DEF NextPoll, Begin, Started, state, receiver, history
  <2>2. CASE /\ Finish({"powertimeout"}) \/ Finish({"canceled"})
             /\ UNCHANGED call
    BY <1>2, <2>2, Ends1 DEF NextPoll, Started, state, receiver, history, call
  <2> QED
    BY <1>2, <2>1, <2>2 DEF NextPoll, Tick
<1> QED
  BY <1>1, <1>2

\* What happens to an invocation, or nothing.
Surrounded ==
    /\ UNCHANGED <<prog, pc, stage, req, try, rerun, err, exit, source, client, device, saved, known,
                   memo, seen, detached, ran, lossy, faults, advertised>>
    /\ spent' \in BOOLEAN /\ addr' \in Hosts
    /\ switch' = switch \/ (switch = "booting" /\ switch' = "on")
    /\ \/ UNCHANGED <<cancelled, struck, hit>>
       \/ /\ stage # "done" /\ ~cancelled /\ cancelled' = TRUE /\ struck' = pc
          /\ hit' \in {"before", "call", "between"}
          /\ hit' = "before" <=> stage = "step"
          /\ hit' = "call" => stage \in {"flight", "backoff", "lookup"}

\* The environment does no more than that.
LEMMA SurroundStep ==
    ASSUME Control, Elapse \/ Interrupt \/ Move \/ Boot \/ UNCHANGED vars
    PROVE  Surrounded
<1> USE DEF Control
<1>1. spent \in BOOLEAN /\ TRUE \in BOOLEAN /\ addr \in Hosts
  BY DEF Typed
<1>2. CASE Elapse
  BY <1>1, <1>2 DEF Elapse, Env, call, result, state, receiver, history, Surrounded
<1>3. CASE Interrupt
  <2>1. /\ UNCHANGED <<prog, pc, stage, req, try, rerun, err, exit, source, client, device, saved, known,
                       memo, seen, detached, ran, lossy, faults, advertised, spent, addr, switch>>
        /\ stage # "done" /\ ~cancelled /\ cancelled' = TRUE /\ struck' = pc
    BY <1>3 DEF Interrupt, Env, call, result, state, receiver, history
  <2>2. /\ hit' \in {"before", "call", "between"}
        /\ hit' = "before" <=> stage = "step"
        /\ hit' = "call" => stage \in {"flight", "backoff", "lookup"}
    BY <1>3 DEF Interrupt
  <2> QED
    BY <1>1, <2>1, <2>2 DEF Surrounded
<1>4. CASE Move
  <2>1. addr' \in Hosts
    BY <1>1, <1>4, RunAssumption DEF Move, Hosts
  <2> QED
    BY <1>1, <1>4, <2>1 DEF Move, Env, call, result, state, history, Surrounded
<1>5. CASE Boot
  BY <1>1, <1>5 DEF Boot, Env, call, result, state, history, Surrounded
<1>6. CASE UNCHANGED vars
  BY <1>1, <1>6 DEF vars, call, result, state, receiver, history, Surrounded
<1> QED
  BY <1>2, <1>3, <1>4, <1>5, <1>6

\* Every step is one of these.
LEMMA StepKinds ==
    ASSUME Control, [Next]_vars
    PROVE  Localed \/ Started \/ Attempted \/ Concluded \/ Surrounded
<1>1. CASE Progress
  <2>1. Local \/ StartCall \/ NextPoll \/ Attempts \/ Concludes
    BY <1>1 DEF Progress, Local, Attempts, Concludes
  <2> QED
    BY <2>1, LocalStep, StartStep, AttemptStep, ConcludeStep
<1>2. CASE Elapse \/ Interrupt \/ Move \/ Boot \/ UNCHANGED vars
  BY <1>2, SurroundStep
<1> QED
  BY <1>1, <1>2 DEF Next

-----------------------------------------------------------------------------
(* The control stays in its domain.                                        *)

\* What is left of the control once a step is over.
LEMMA OverTypes ==
    ASSUME Control, stage # "done", NEW e, e \subseteq Errors,
           \/ Passed(pc + 1) \/ Passed(pc + 2)
           \/ Step.do = "wait" /\ Polls
           \/ Ended(e)
    PROVE  /\ pc' \in 1..Len(prog) /\ stage' \in {"done", "step", "tick"}
           /\ stage' = "tick" => Step.do = "wait" /\ pc' = pc
           /\ err' \subseteq Errors /\ exit' \in ExitCodes
           /\ exit' = IF stage' = "done" THEN ErrorExitCode(Wrapped(err')) ELSE 0
           /\ err' \in {{}, e, err}
<1>1. pc + 1 \in Nat /\ pc + 2 \in Nat /\ pc + 1 > pc /\ pc + 2 > pc /\ pc \in 1..Len(prog)
  BY StepFormed DEF Control
<1>2. exit = 0 /\ 0 \in ExitCodes /\ err \subseteq Errors
  BY DEF Control, Typed, StageInv, ExitCodes
<1>3. ErrorExitCode(Wrapped({})) = 0
  BY Wraps, Codes
<1>4. ASSUME NEW n \in {pc + 1, pc + 2}, Passed(n)
      PROVE  /\ pc' \in 1..Len(prog) /\ stage' \in {"done", "step"}
             /\ err' = {} /\ exit' = 0
  BY <1>1, <1>4, PassedTypes
<1>5. CASE Passed(pc + 1) \/ Passed(pc + 2)
  BY <1>2, <1>3, <1>4, <1>5
<1>6. CASE Step.do = "wait" /\ Polls
  BY <1>1, <1>2, <1>6 DEF Polls
<1>7. CASE Ended(e)
  BY <1>7, EndedTypes DEF Ended
<1> QED
  BY <1>5, <1>6, <1>7

\* The request in hand, and what executing it does.
LEMMA AskFormed ==
    ASSUME Control, stage \in Active
    PROVE  /\ Step.do \in Operations /\ req \in 1..Len(Step.reqs) /\ req \in 1..3
           /\ Len(Step.reqs) \in 1..3
           /\ Ask \in Request
           /\ Ask.label \in Labels \cup {""}
           /\ Ask.to \in {"none", "look", "probe", "on", "off", "boot", "toggle", "inverse"}
<1>1. Step.do \in Operations /\ req \in 1..Len(Step.reqs)
  BY DEF Control, StageInv
<1>2. Step.reqs \in Seq(Request) /\ Len(Step.reqs) \in 1..3
  BY <1>1, OpFormed DEF Control
<1>3. Ask \in Request
  BY <1>1, <1>2 DEF Ask
<1>4. \A r \in Request :
          /\ r.label \in Labels \cup {""}
          /\ r.to \in {"none", "look", "probe", "on", "off", "boot", "toggle", "inverse"}
  BY DEF Request
<1>5. req \in 1..3
  <2>1. \A n \in 1..3 : \A r \in 1..n : r \in 1..3
    OBVIOUS
  <2> QED
    BY <1>1, <1>2, <2>1, Zenon
<1> QED
  BY <1>1, <1>2, <1>3, <1>4, <1>5

\* What the opposite of a switch is.
LEMMA Opposites ==
    /\ NextOf["off"] = "on" /\ NextOf["booting"] = "on" /\ NextOf["on"] = "off"
BY DEF NextOf

\* The receiver stays in its domain, whether it executes the request or not.
LEMMA ExecuteTypes ==
    ASSUME Control, stage \in Active, Execute \/ UNCHANGED <<ran, switch>>
    PROVE  switch' \in Switches /\ ran' \in [Labels -> Nat]
<1>1. switch \in Switches /\ seen \in Switches /\ ran \in [Labels -> Nat]
  BY DEF Control, Typed
<1>2. CASE Execute
  <2>1. Effect(Ask.to) \in Switches
    <3>1. NextOf[seen] \in Switches
      BY <1>1, Opposites DEF Switches
    <3>2. Effect(Ask.to) \in {Ask.to, "on", "booting", "off", NextOf[seen], switch}
      BY Zenon DEF Effect
    <3> QED
      BY <1>1, <3>1, AskFormed DEF Effect, Switches
  <2>2. ran' \in [Labels -> Nat]
    <3>1. CASE Ask.label = ""
      BY <1>1, <1>2, <3>1 DEF Execute
    <3>2. CASE Ask.label # ""
      <4>1. Ask.label \in Labels
        BY <3>2, AskFormed
      <4>2. ran' = [ran EXCEPT ![Ask.label] = @ + 1]
        BY <1>2, <3>2 DEF Execute
      <4> QED
        BY <1>1, <4>1, <4>2
    <3> QED
      BY <3>1, <3>2
  <2> QED
    BY <1>2, <2>1, <2>2 DEF Execute
<1> QED
  BY <1>1, <1>2

\* The parts of Typed: of the operation, of what is kept, of what happens.
OpTyped ==
    /\ prog \in Programs /\ pc \in 1..Len(prog) /\ stage \in Stages
    /\ req \in 1..3 /\ try \in 1..2 /\ rerun \in BOOLEAN
    /\ err \subseteq Errors /\ exit \in ExitCodes
KeptTyped ==
    /\ source \in Sources
    /\ client \in Hosts /\ device \in Hosts /\ saved \in Hosts
    /\ known \in BOOLEAN /\ memo \in FeatureSets \cup {"none"}
    /\ advertised \in FeatureSets \cup {"unasked"}
    /\ faults \in 0..MaxFaults /\ lossy \in BOOLEAN
WorldTyped ==
    /\ seen \in Switches /\ switch \in Switches /\ addr \in Hosts
    /\ detached \in BOOLEAN /\ spent \in BOOLEAN /\ cancelled \in BOOLEAN
    /\ struck \in 0..Len(prog) /\ hit \in {"none", "before", "call", "between"}
    /\ ran \in [Labels -> Nat]

\* Together they are Typed, in both states of a step.
LEMMA TypedParts == Typed <=> OpTyped /\ KeptTyped /\ WorldTyped
BY DEF Typed, OpTyped, KeptTyped, WorldTyped, ExitCodes

\* And of the next state.
LEMMA TypedPartsNext == Typed' <=> OpTyped' /\ KeptTyped' /\ WorldTyped'
BY DEF Typed, OpTyped, KeptTyped, WorldTyped, ExitCodes

\* Each part is kept by each kind of step: the state that is kept,
LEMMA KeptAfter ==
    ASSUME Control, Localed \/ Started \/ Attempted \/ Concluded \/ Surrounded
    PROVE  KeptTyped'
<1>1. KeptTyped
  BY TypedParts DEF Control
<1>2. ASSUME faults' \in faults..MaxFaults PROVE faults' \in 0..MaxFaults
  BY <1>1, <1>2, RunAssumption DEF KeptTyped
<1>3. CASE Localed
  BY <1>1, <1>2, <1>3 DEF KeptTyped, Localed
<1>4. CASE Started
  BY <1>1, <1>4 DEF KeptTyped, Started
<1>5. CASE Attempted
  <2>1. lossy' \in BOOLEAN
    BY <1>5 DEF Attempted
  <2> QED
    BY <1>1, <1>2, <1>5, <2>1 DEF KeptTyped, Attempted
<1>6. CASE Concluded
  <2>1. UNCHANGED <<source, lossy>>
    BY <1>6 DEF Concluded
  <2>2. /\ client' \in Hosts /\ device' \in Hosts /\ saved' \in Hosts
        /\ known' \in BOOLEAN /\ memo' \in FeatureSets \cup {"none"}
        /\ advertised' \in FeatureSets \cup {"unasked"}
        /\ faults' \in faults..MaxFaults
    BY <1>6 DEF Concluded
  <2> QED
    BY <1>1, <1>2, <2>1, <2>2 DEF KeptTyped
<1>7. CASE Surrounded
  BY <1>1, <1>7 DEF KeptTyped, Surrounded
<1> QED
  BY <1>3, <1>4, <1>5, <1>6, <1>7

\* the receiver and what happens to the command,
LEMMA WorldAfter ==
    ASSUME Control, Localed \/ Started \/ Attempted \/ Concluded \/ Surrounded
    PROVE  WorldTyped' /\ prog' = prog
<1>1. WorldTyped /\ OpTyped
  BY TypedParts DEF Control
<1>2. CASE Localed
  BY <1>1, <1>2 DEF WorldTyped, Localed
<1>3. CASE Started
  <2>1. UNCHANGED <<prog, seen, switch, addr, spent, cancelled, struck, hit, ran>>
    BY <1>3 DEF Started
  <2>2. detached' \in {detached, Detaches}
    BY <1>3 DEF Started
  <2>3. detached' \in BOOLEAN
    BY <1>1, <2>2 DEF Detaches, WorldTyped
  <2> QED
    BY <1>1, <2>1, <2>3 DEF WorldTyped
<1>4. CASE Attempted
  <2>1. UNCHANGED <<prog, addr, detached, spent, cancelled, struck, hit>>
    BY <1>4 DEF Attempted
  <2>2. /\ stage \in Active
        /\ Execute \/ UNCHANGED <<ran, switch>>
        /\ seen' \in {seen, switch}
    BY <1>4 DEF Attempted, Active
  <2>3. switch' \in Switches /\ ran' \in [Labels -> Nat] /\ seen' \in Switches
    BY <1>1, <2>2, ExecuteTypes DEF WorldTyped
  <2> QED
    BY <1>1, <2>1, <2>3 DEF WorldTyped
<1>5. CASE Concluded
  <2>1. UNCHANGED <<prog, seen, switch, addr, detached, spent, cancelled, struck, hit, ran>>
    BY <1>5 DEF Concluded
  <2> QED
    BY <1>1, <2>1 DEF WorldTyped
<1>6. CASE Surrounded
  <2>1. UNCHANGED <<prog, pc, seen, detached, ran>>
    BY <1>6 DEF Surrounded
  <2>2. spent' \in BOOLEAN /\ addr' \in Hosts /\ switch' \in Switches
    BY <1>1, <1>6 DEF Surrounded, WorldTyped, Switches
  <2>3. CASE UNCHANGED <<cancelled, struck, hit>>
    BY <1>1, <2>1, <2>2, <2>3 DEF WorldTyped
  <2>4. CASE cancelled' = TRUE /\ struck' = pc /\ hit' \in {"before", "call", "between"}
    <3>1. cancelled' \in BOOLEAN
      BY <2>4
    <3>2. struck' \in 0..Len(prog)
      BY <1>1, <2>4, StepFormed DEF OpTyped, Control
    <3> QED
      BY <1>1, <2>1, <2>2, <2>4, <3>1, <3>2 DEF WorldTyped
  <2> QED
    BY <1>6, <2>3, <2>4 DEF Surrounded
<1> QED
  BY <1>2, <1>3, <1>4, <1>5, <1>6

\* the operation and its errors.
LEMMA OpAfter ==
    ASSUME Control, Localed \/ Started \/ Attempted \/ Concluded \/ Surrounded
    PROVE  OpTyped'
<1>1. /\ OpTyped /\ prog' = prog /\ 0 \in ExitCodes /\ {} \subseteq Errors
      /\ TRUE \in BOOLEAN /\ FALSE \in BOOLEAN
  BY TypedParts, WorldAfter DEF Control, ExitCodes
<1>2. {"step", "done", "tick", "ready", "flight", "backoff", "answered", "failed", "lookup"} \subseteq Stages
  BY DEF Stages
<1>3. ASSUME stage # "done", NEW e, e \subseteq Errors,
             \/ Passed(pc + 1) \/ Passed(pc + 2)
             \/ Step.do = "wait" /\ Polls
             \/ Ended(e),
             UNCHANGED <<req, try, rerun>>
      PROVE  OpTyped'
  BY <1>1, <1>2, <1>3, OverTypes DEF OpTyped
<1>4. ASSUME stage \in Active, NEW e, e \subseteq Errors, Over(e), UNCHANGED <<req, try, rerun>>
      PROVE  OpTyped'
  <2>1. pc + Step.jump \in {pc + 1, pc + 2}
    <3>1. Step.jump \in 1..2
      BY <1>4, AskFormed, OpFormed DEF Control
    <3> QED
      BY <3>1
  <2> QED
    BY <1>3, <1>4, <2>1 DEF Over, Active
<1>5. CASE Localed
  <2>1. UNCHANGED <<req, try, rerun>> /\ stage # "done"
    BY <1>5 DEF Localed
  <2>2. \/ Passed(pc + 1) \/ Passed(pc + 2)
        \/ \E e \in SUBSET Errors : Ended(e)
    BY <1>5 DEF Localed
  <2> QED
    BY <1>1, <1>3, <2>1, <2>2
<1>6. CASE Started
  <2>1. CASE stage' = "ready" /\ req' = 1 /\ try' = 1 /\ rerun' = FALSE /\ UNCHANGED <<pc, err, exit>>
    <3>1. req' \in 1..3 /\ try' \in 1..2 /\ stage' \in Stages
      BY <1>2, <2>1
    <3>2. rerun' \in BOOLEAN
      BY <2>1
    <3> QED
      BY <1>1, <2>1, <3>1, <3>2 DEF OpTyped
  <2>2. CASE /\ stage = "tick" /\ UNCHANGED <<req, try, rerun>>
             /\ Ended({"powertimeout"}) \/ Ended({"canceled"})
    <3>1. {"powertimeout"} \subseteq Errors /\ {"canceled"} \subseteq Errors
      BY DEF Errors
    <3> QED
      BY <1>3, <2>2, <3>1
  <2> QED
    BY <1>6, <2>1, <2>2 DEF Started
<1>7. CASE Attempted
  <2>1. UNCHANGED <<prog, pc, req, rerun, exit>>
    BY <1>7 DEF Attempted
  <2>2. stage' \in {"ready", "flight", "backoff", "answered", "failed"}
    BY <1>7 DEF Attempted
  <2>3. try' \in 1..2
    BY <1>1, <1>7 DEF Attempted, OpTyped
  <2>4. err' \subseteq Errors
    <3>1. OpErrors \subseteq Errors /\ {"canceled"} \subseteq Errors
      BY DEF OpErrors, Errors
    <3>2. err' = err \/ err' = {"canceled"} \/ err' \subseteq OpErrors
      BY <1>7 DEF Attempted
    <3> QED
      BY <1>1, <3>1, <3>2 DEF OpTyped
  <2> QED
    BY <1>1, <1>2, <2>1, <2>2, <2>3, <2>4 DEF OpTyped
<1>8. CASE Concluded
  <2>1. stage \in Active /\ stage # "done"
    BY <1>8 DEF Concluded, Active
  <2>2. {"other"} \subseteq Errors /\ OpError \subseteq Errors /\ LookupError \subseteq Errors
    BY <1>1 DEF OpError, LookupError, Errors, OpTyped
  <2>3. CASE Continues
    <3>1. req' \in 1..3 /\ try' \in 1..2 /\ rerun' \in BOOLEAN
      <4>1. CASE req < Len(Step.reqs) /\ req' = req + 1 /\ rerun' = rerun
        <5>1. \A n \in 1..3 : \A r \in 1..n : r < n => r + 1 \in 1..3
          OBVIOUS
        <5>2. req' \in 1..3
          BY <2>1, <4>1, <5>1, AskFormed
        <5> QED
          BY <1>1, <2>3, <4>1, <5>2 DEF OpTyped, Continues
      <4>2. CASE req' = 1 /\ rerun' = TRUE
        BY <2>3, <4>2 DEF Continues
      <4> QED
        BY <2>3, <4>1, <4>2 DEF Continues
    <3> QED
      BY <1>1, <1>2, <2>3, <3>1 DEF OpTyped, Continues
  <2>4. CASE UNCHANGED <<req, try, rerun, pc, err, exit>> /\ stage' = "lookup"
    BY <1>1, <1>2, <2>4 DEF OpTyped
  <2>5. CASE /\ UNCHANGED <<req, try, rerun>>
             /\ \/ Passed(pc + 1)
                \/ Step.do = "wait" /\ Polls
                \/ Over({"other"}) \/ Over(OpError) \/ Over(LookupError)
    BY <1>1, <1>3, <1>4, <2>1, <2>2, <2>5
  <2> QED
    BY <1>8, <2>3, <2>4, <2>5 DEF Concluded
<1>9. CASE Surrounded
  BY <1>1, <1>9 DEF OpTyped, Surrounded
<1> QED
  BY <1>5, <1>6, <1>7, <1>8, <1>9

\* So all of Typed is.
LEMMA TypedAfter ==
    ASSUME Control, Localed \/ Started \/ Attempted \/ Concluded \/ Surrounded
    PROVE  Typed'
BY KeptAfter, WorldAfter, OpAfter, TypedPartsNext

\* A step that is over leaves nothing of its operation to keep to.
LEMMA OverStage ==
    ASSUME Control, stage # "done", NEW e, e \subseteq Errors,
           \/ Passed(pc + 1) \/ Passed(pc + 2)
           \/ Step.do = "wait" /\ Polls
           \/ Ended(e),
           UNCHANGED <<prog, req, try, rerun, detached, cancelled, lossy>>,
           ~lossy => "transport" \notin e
    PROVE  StageInv'
<1>1. /\ stage' \in {"done", "step", "tick"}
      /\ stage' = "tick" => Step.do = "wait" /\ pc' = pc
      /\ exit' = IF stage' = "done" THEN ErrorExitCode(Wrapped(err')) ELSE 0
      /\ err' \in {{}, e, err}
  BY OverTypes
<1>2. stage' = "tick" => Step'.do = "wait"
  BY <1>1 DEF Step
<1>3. stage' \notin Active /\ stage' \notin {"backoff", "failed", "lookup"}
  BY <1>1 DEF Active
<1>4. /\ ~lossy' => try' = 1 /\ ~rerun' /\ "transport" \notin err' /\ stage' # "backoff"
      /\ detached' => cancelled'
  BY <1>1 DEF Control, StageInv
<1>5. exit' = (IF stage = "done" THEN ErrorExitCode(Wrapped(err)) ELSE 0)'
  BY <1>1 DEF ErrorExitCode, Wrapped
<1> QED
  BY <1>2, <1>3, <1>4, <1>5 DEF StageInv

\* Operations go on at the step they are at.
LEMMA StepSame ==
    ASSUME prog' = prog, pc' = pc
    PROVE  Step' = Step
BY DEF Step

\* The control stays where its stage may be.
LEMMA StageAfter ==
    ASSUME Control, Localed \/ Started \/ Attempted \/ Concluded \/ Surrounded
    PROVE  StageInv'
<1>1. /\ stage # "done" => exit = 0
      /\ ~lossy => try = 1 /\ ~rerun /\ "transport" \notin err
      /\ detached => cancelled
      /\ stage \in Active => Step.do \in Operations /\ (rerun => Step.again)
  BY DEF Control, StageInv
<1>2. stage \in Active => req \in 1..Len(Step.reqs)
  BY DEF Control, StageInv
<1>3. stage = "lookup" => ~rerun /\ Step.again /\ lossy
  BY DEF Control, StageInv
<1>4. CASE Localed
  <2>1. UNCHANGED <<prog, req, try, rerun, detached, cancelled, lossy>> /\ stage # "done"
    BY <1>4 DEF Localed
  <2>2. \/ Passed(pc + 1) \/ Passed(pc + 2)
        \/ \E e \in SUBSET Errors : Ended(e) /\ "transport" \notin e
    <3>1. \A e : Excused(e) => "transport" \notin e
      BY DEF Excused
    <3> QED
      BY <1>4, <3>1 DEF Localed
  <2>3. ASSUME NEW e \in SUBSET Errors, Ended(e), "transport" \notin e PROVE StageInv'
    <3>1. e \subseteq Errors
      OBVIOUS
    <3> QED
      BY <2>1, <2>3, <3>1, OverStage
  <2>4. CASE Passed(pc + 1) \/ Passed(pc + 2)
    <3>1. {"other"} \subseteq Errors /\ "transport" \notin {"other"}
      BY DEF Errors
    <3> QED
      BY <2>1, <2>4, <3>1, OverStage
  <2> QED
    BY <2>2, <2>3, <2>4
<1>5. CASE Started
  <2>1. CASE /\ stage' = "ready" /\ req' = 1 /\ try' = 1 /\ rerun' = FALSE
             /\ UNCHANGED <<pc, err, exit>>
             /\ \/ stage = "step" /\ Step.do \in Operations /\ detached' = Detaches
                \/ stage = "tick" /\ detached' = detached
    <3>1. Step.do \in Operations /\ stage # "done" /\ Step' = Step
      <4>1. stage = "tick" => Step.do = "wait"
        BY DEF Control, StageInv
      <4> QED
        BY <1>5, <2>1, <4>1, StepSame DEF Operations, Started
    <3>2. req' \in 1..Len(Step'.reqs)
      <4>1. Len(Step.reqs) \in 1..3
        BY <3>1, OpFormed DEF Control
      <4>2. \A n \in 1..3 : 1 \in 1..n
        OBVIOUS
      <4> QED
        BY <2>1, <3>1, <4>1, <4>2
    <3>3. detached' => cancelled'
      BY <1>1, <1>5, <2>1 DEF Started, Detaches
    <3>4. lossy' = lossy
      BY <1>5 DEF Started
    <3>5. exit' = (IF stage = "done" THEN ErrorExitCode(Wrapped(err)) ELSE 0)'
      BY <1>1, <2>1, <3>1
    <3>6. ~rerun'
      BY <2>1
    <3> QED
      BY <1>1, <2>1, <3>1, <3>2, <3>3, <3>4, <3>5, <3>6 DEF StageInv
  <2>2. CASE /\ stage = "tick" /\ UNCHANGED <<req, try, rerun, detached>>
             /\ Ended({"powertimeout"}) \/ Ended({"canceled"})
    <3>1. {"powertimeout"} \subseteq Errors /\ {"canceled"} \subseteq Errors
      BY DEF Errors
    <3>2. UNCHANGED <<prog, cancelled, lossy>>
      BY <1>5 DEF Started
    <3> QED
      BY <2>2, <3>1, <3>2, OverStage
  <2> QED
    BY <1>5, <2>1, <2>2 DEF Started
<1>6. CASE Attempted
  <2>1. UNCHANGED <<prog, pc, req, rerun, exit, detached, cancelled>> /\ (lossy => lossy')
    BY <1>6 DEF Attempted
  <2>2. stage' \in {"ready", "flight", "backoff", "answered", "failed"} /\ stage \in Active
    BY <1>6 DEF Attempted, Active
  <2>3. /\ stage' = "backoff" => try' = 1
        /\ stage' = "failed" => err' \subseteq OpErrors /\ err' # {}
        /\ ~lossy' => try' = 1 /\ "transport" \notin err' /\ stage' # "backoff"
    <3>1. stage = "backoff" => lossy
      BY DEF Control, StageInv
    <3>2. {"canceled"} \subseteq OpErrors
      BY DEF OpErrors
    <3> QED
      BY <1>1, <1>6, <3>1, <3>2 DEF Attempted
  <2>4. Step' = Step /\ stage # "done"
    BY <2>1, <2>2, StepSame DEF Active
  <2>5. exit' = (IF stage = "done" THEN ErrorExitCode(Wrapped(err)) ELSE 0)'
    BY <1>1, <2>1, <2>2, <2>4
  <2>6. ~lossy' => ~rerun'
    BY <1>1, <2>1
  <2>7. rerun' => Step'.again
    BY <1>1, <2>1, <2>2, <2>4
  <2>8. detached' => cancelled'
    BY <1>1, <2>1
  <2>9. Step'.do \in Operations /\ req' \in 1..Len(Step'.reqs)
    BY <1>1, <1>2, <2>1, <2>2, <2>4
  <2> QED
    BY <2>2, <2>3, <2>5, <2>6, <2>7, <2>8, <2>9 DEF StageInv
<1>7. CASE Concluded
  <2>1. /\ UNCHANGED <<prog, detached, cancelled, lossy>> /\ stage \in Active /\ stage # "done"
        /\ stage \in {"answered", "failed", "lookup"}
    BY <1>7 DEF Concluded, Active
  <2>2. CASE Continues
    <3>1. /\ stage' = "ready" /\ pc' = pc /\ err' = {} /\ exit' = exit /\ try' = 1
          /\ Step' = Step
      BY <2>1, <2>2, StepSame DEF Continues
    <3>2. req' \in 1..Len(Step'.reqs) /\ (rerun' => Step'.again) /\ (~lossy' => ~rerun')
      <4>1. CASE req < Len(Step.reqs) /\ req' = req + 1 /\ rerun' = rerun
        <5>1. \A n \in 1..3 : \A r \in 1..n : r < n => r + 1 \in 1..n
          OBVIOUS
        <5>2. req' \in 1..Len(Step.reqs)
          BY <2>1, <4>1, <5>1, AskFormed
        <5> QED
          BY <1>1, <2>1, <3>1, <4>1, <5>2
      <4>2. CASE stage = "lookup" /\ req' = 1 /\ rerun' = TRUE
        <5>1. \A n \in 1..3 : 1 \in 1..n
          OBVIOUS
        <5>2. req' \in 1..Len(Step.reqs)
          BY <2>1, <4>2, <5>1, AskFormed
        <5> QED
          BY <1>3, <2>1, <3>1, <4>2, <5>2
      <4> QED
        BY <2>2, <4>1, <4>2 DEF Continues
    <3>3. exit' = (IF stage = "done" THEN ErrorExitCode(Wrapped(err)) ELSE 0)'
      BY <1>1, <2>1, <3>1
    <3>4. detached' => cancelled'
      BY <1>1, <2>1
    <3> QED
      BY <1>1, <2>1, <3>1, <3>2, <3>3, <3>4 DEF StageInv
  <2>3. CASE /\ stage = "failed" /\ ShouldRediscover /\ stage' = "lookup"
             /\ UNCHANGED <<pc, err, exit, req, try, rerun>>
    <3>1. Step' = Step
      BY <2>1, <2>3, StepSame
    <3>2. ~rerun' /\ Step'.again /\ lossy'
      BY <1>1, <2>1, <2>3, <3>1 DEF ShouldRediscover
    <3>3. exit' = (IF stage = "done" THEN ErrorExitCode(Wrapped(err)) ELSE 0)'
      BY <1>1, <2>1, <2>3
    <3>4. detached' => cancelled'
      BY <1>1, <2>1
    <3>5. Step'.do \in Operations /\ req' \in 1..Len(Step'.reqs)
      BY <1>1, <1>2, <2>1, <2>3, <3>1
    <3> QED
      BY <2>1, <2>3, <3>2, <3>3, <3>4, <3>5 DEF StageInv
  <2>4. CASE /\ UNCHANGED <<req, try, rerun>>
             /\ \/ Passed(pc + 1)
                \/ stage = "answered" /\ Step.do = "wait" /\ Polls
                \/ stage = "answered" /\ Over({"other"})
                \/ stage = "failed" /\ Over(OpError)
                \/ stage = "lookup" /\ Over({"other"})
                \/ stage = "lookup" /\ Over(LookupError)
    <3>1. /\ {"other"} \subseteq Errors /\ OpError \subseteq Errors /\ LookupError \subseteq Errors
      BY DEF OpError, LookupError, Errors, Control, Typed
    <3>2. ~lossy => /\ "transport" \notin {"other"} /\ "transport" \notin OpError
                    /\ stage = "lookup" => "transport" \notin LookupError
      BY <1>1, <1>3 DEF OpError
    <3>3. \A e : Over(e) => \/ Passed(pc + 1) \/ Passed(pc + 2)
                            \/ Step.do = "wait" /\ Polls
                            \/ Ended(e)
      <4>1. Step.jump \in 1..2
        BY <1>1, <2>1, OpFormed DEF Control
      <4>2. pc + Step.jump \in {pc + 1, pc + 2}
        BY <4>1
      <4> QED
        BY <4>2 DEF Over
    <3> QED
      BY <2>1, <2>4, <3>1, <3>2, <3>3, OverStage
  <2> QED
    BY <1>7, <2>2, <2>3, <2>4 DEF Concluded
<1>8. CASE Surrounded
  <2>1. UNCHANGED <<prog, pc, stage, req, try, rerun, err, exit, detached, lossy>> /\ (cancelled => cancelled')
    BY <1>8 DEF Surrounded
  <2>2. Step' = Step
    BY <2>1, StepSame
  <2>3. detached' => cancelled'
    BY <1>1, <2>1
  <2> QED
    BY <2>1, <2>2, <2>3 DEF Control, StageInv
<1> QED
  BY <1>4, <1>5, <1>6, <1>7, <1>8

\* Control is an invariant: it holds at first,
LEMMA ControlInit == Init => Control
<1> SUFFICES ASSUME Init PROVE Control
  OBVIOUS
<1>1. prog \in Programs /\ Len(prog) \in Nat \ {0}
  BY ProgramsAssumption DEF Init, Sequenced
<1>2. OpTyped
  <2>1. pc \in 1..Len(prog) /\ stage \in Stages
    BY <1>1 DEF Init, Stages
  <2>2. req \in 1..3 /\ try \in 1..2 /\ exit \in ExitCodes /\ err \subseteq Errors
    BY DEF Init, ExitCodes
  <2>3. rerun \in BOOLEAN
    BY DEF Init
  <2> QED
    BY <1>1, <2>1, <2>2, <2>3 DEF OpTyped
<1>3. KeptTyped
  <2>1. /\ source \in Sources /\ memo \in FeatureSets \cup {"none"}
        /\ advertised \in FeatureSets \cup {"unasked"}
    BY DEF Init, Sources
  <2>2. client \in Hosts /\ device \in Hosts /\ saved \in Hosts /\ faults \in 0..MaxFaults
    BY RunAssumption DEF Init, Hosts
  <2>3. known \in BOOLEAN /\ lossy \in BOOLEAN
    BY DEF Init
  <2> QED
    BY <2>1, <2>2, <2>3 DEF KeptTyped
<1>4. WorldTyped
  <2>1. seen \in Switches /\ switch \in Switches /\ addr \in Hosts
    BY DEF Init, Switches
  <2>2. detached \in BOOLEAN /\ spent \in BOOLEAN /\ cancelled \in BOOLEAN
    BY DEF Init
  <2>3. struck \in 0..Len(prog) /\ hit \in {"none", "before", "call", "between"}
    BY <1>1 DEF Init
  <2>4. ran \in [Labels -> Nat]
    BY DEF Init
  <2> QED
    BY <2>1, <2>2, <2>3, <2>4 DEF WorldTyped
<1>5. StageInv
  BY DEF Init, StageInv, Active
<1> QED
  BY <1>2, <1>3, <1>4, <1>5, TypedParts DEF Control

\* and every step keeps it.
LEMMA ControlNext == Control /\ [Next]_vars => Control'
<1> SUFFICES ASSUME Control, [Next]_vars PROVE Control'
  OBVIOUS
<1>1. Localed \/ Started \/ Attempted \/ Concluded \/ Surrounded
  BY StepKinds
<1> QED
  BY <1>1, TypedAfter, StageAfter DEF Control

-----------------------------------------------------------------------------
(* How often a change is executed.                                         *)

\* A run of an operation makes two attempts at a request, a single one as long as
\* every request was answered.
PerRun == IF lossy THEN 2 ELSE 1
Tried  == IF stage \in {"ready", "flight"} THEN try - 1 ELSE IF stage = "backoff" THEN 1 ELSE try

\* How often the request j of step i may have been executed: never before its step,
\* in the step as often as it was sent, and at most once for each attempt of each
\* run after it.
Most(i) == IF ~lossy THEN 1 ELSE IF prog[i].via = "ynca" THEN 2 ELSE 4
InHand(j) == (IF rerun THEN 2 ELSE 0)
             + (IF j < req THEN PerRun ELSE IF j > req THEN 0 ELSE Tried)
Sent(i, j) ==
    IF i > pc \/ (i = pc /\ stage = "step") THEN 0
    ELSE IF i = pc /\ stage \in Active THEN InHand(j)
    ELSE Most(i)

\* A change that was executed has a place in the program, and no more executions than
\* were sent from there.
RanInv ==
    \A l \in Labels :
        \/ ran[l] = 0
        \/ \E i \in 1..Len(prog), j \in 1..3 : Place(prog, i, j, l) /\ ran[l] <= Sent(i, j)

\* The place of a change is in an operation that is run twice only over YXC, and
\* is no poll.
LEMMA PlaceFormed ==
    ASSUME Control, NEW i \in 1..Len(prog), NEW j \in 1..3, NEW l \in Labels, Place(prog, i, j, l)
    PROVE  /\ prog[i].do \in {"ask", "release"}
           /\ prog[i].reqs[j].shrug = {}
           /\ prog[i].via \in {"yxc", "ynca"} /\ (prog[i].via = "ynca" => ~prog[i].again)
<1>1. Formed(prog[i])
  BY ProgramsAssumption DEF Control, Typed, Sequenced
<1>2. /\ prog[i].do \in Operations /\ j \in 1..Len(prog[i].reqs)
      /\ prog[i].reqs[j].label # ""
  BY DEF Place, Labels
<1>3. /\ prog[i].via \in {"yxc", "ynca"}
      /\ \A k \in 1..Len(prog[i].reqs) : prog[i].reqs[k].label # "" =>
            /\ prog[i].do \in {"ask", "release"}
            /\ prog[i].reqs[k].shrug = {}
            /\ prog[i].via = "ynca" => ~prog[i].again
  BY <1>1, <1>2, Zenon DEF Formed
<1> QED
  BY <1>2, <1>3

\* The counts are numbers, and nothing is sent twice before something was lost.
LEMMA SentTypes ==
    ASSUME Control, NEW i \in 1..Len(prog), NEW j \in 1..3
    PROVE  /\ Sent(i, j) \in Nat /\ Most(i) \in Nat /\ Most(i) >= PerRun
           /\ PerRun \in 1..2 /\ Tried \in 0..PerRun /\ (~lossy => ~rerun /\ Most(i) = 1)
<1>1. /\ PerRun \in 1..2 /\ Most(i) \in {1, 2, 4} /\ Most(i) >= PerRun
      /\ ~lossy => Most(i) = 1
  BY DEF PerRun, Most
<1>2. try \in 1..2 /\ (~lossy => try = 1 /\ ~rerun /\ stage # "backoff") /\ req \in 1..3
  BY DEF Control, Typed, StageInv
<1>3. Tried \in 0..PerRun
  BY <1>2 DEF Tried, PerRun
<1>4. InHand(j) \in Nat
  BY <1>1, <1>2, <1>3 DEF InHand
<1> QED
  BY <1>1, <1>2, <1>3, <1>4 DEF Sent

\* A count of the next state is one, too.
LEMMA SentNext ==
    Control' => \A i \in 1..Len(prog'), j \in 1..3 : Sent(i, j)' \in Nat
<1>1. Control => \A i \in 1..Len(prog), j \in 1..3 : Sent(i, j) \in Nat
  BY SentTypes
<1>2. (Control => \A i \in 1..Len(prog), j \in 1..3 : Sent(i, j) \in Nat)'
  BY <1>1, PTL
<1> QED
  BY <1>2

\* It is never more than Most.
LEMMA SentBounded ==
    ASSUME Control, NEW i \in 1..Len(prog), NEW j \in 1..3, NEW l \in Labels, Place(prog, i, j, l)
    PROVE  Sent(i, j) <= Most(i)
<1>1. CASE i = pc /\ stage \in Active
  <2>1. lossy => Most(i) = (IF prog[i].via = "ynca" THEN 2 ELSE 4)
    BY DEF Most
  <2>2. prog[i].via = "ynca" => ~rerun
    <3>1. rerun => prog[i].again
      BY <1>1 DEF Control, StageInv, Step
    <3> QED
      BY <3>1, PlaceFormed
  <2>3. lossy => PerRun = 2
    BY DEF PerRun
  <2>4. InHand(j) <= Most(i)
    <3>0. /\ PerRun \in 1..2 /\ Tried \in 0..PerRun /\ Most(i) \in Nat /\ Most(i) >= PerRun
          /\ req \in 1..3 /\ (rerun => lossy)
      BY SentTypes DEF Control, Typed
    <3>1. CASE rerun
      <4>1. Most(i) = 4 /\ PerRun = 2
        BY <2>1, <2>2, <2>3, <3>0, <3>1
      <4> QED
        BY <3>0, <3>1, <4>1 DEF InHand
    <3>2. CASE ~rerun
      BY <3>0, <3>2 DEF InHand
    <3> QED
      BY <3>1, <3>2
  <2> QED
    BY <1>1, <2>4, StepFormed DEF Sent, Control, Active
<1>2. CASE ~(i = pc /\ stage \in Active)
  BY <1>2, SentTypes DEF Sent
<1> QED
  BY <1>1, <1>2

\* Changes that are not executed are not counted, if what may have been sent grows.
LEMMA RanKept ==
    ASSUME Control, Control', RanInv, prog' = prog, ran' = ran,
           \A i \in 1..Len(prog), j \in 1..3, l \in Labels :
               Place(prog, i, j, l) => Sent(i, j) <= Sent(i, j)'
    PROVE  RanInv'
<1> SUFFICES ASSUME NEW l \in Labels
             PROVE  \/ ran'[l] = 0
                    \/ \E i \in 1..Len(prog'), j \in 1..3 :
                           Place(prog', i, j, l) /\ ran'[l] <= Sent(i, j)'
  BY DEF RanInv
<1>1. CASE ran[l] = 0
  BY <1>1
<1>2. CASE ran[l] # 0
  <2>1. PICK i \in 1..Len(prog), j \in 1..3 : Place(prog, i, j, l) /\ ran[l] <= Sent(i, j)
    BY <1>2 DEF RanInv
  <2>2. Sent(i, j) <= Sent(i, j)' /\ Sent(i, j) \in Nat /\ ran[l] \in Nat
    BY <2>1, SentTypes DEF Control, Typed
  <2>3. Sent(i, j)' \in Nat
    BY SentNext
  <2> QED
    BY <2>1, <2>2, <2>3
<1> QED
  BY <1>1, <1>2

\* A step that is over.
Leaves == \/ Passed(pc + 1) \/ Passed(pc + 2)
          \/ Step.do = "wait" /\ Polls
          \/ \E e : Ended(e)

\* What was sent in a step that is left is Most, which is no less.
LEMMA SentLeaving ==
    ASSUME Control, stage \notin {"done", "tick"}, Leaves, UNCHANGED <<prog, lossy>>,
           NEW i \in 1..Len(prog), NEW j \in 1..3, NEW l \in Labels, Place(prog, i, j, l)
    PROVE  Sent(i, j) <= Sent(i, j)'
<1>1. /\ pc \in Nat /\ pc \in 1..Len(prog) /\ i \in Nat /\ Len(prog) \in Nat
      /\ Sent(i, j) \in Nat /\ Most(i) \in Nat /\ Sent(i, j) <= Most(i)
  BY StepFormed, SentTypes, SentBounded DEF Control
<1>2. Most(i)' = Most(i)
  BY DEF Most
<1>3. CASE Step.do = "wait" /\ Polls
  <2>1. i # pc
    BY <1>3, PlaceFormed DEF Step
  <2>2. Sent(i, j)' = (IF i > pc THEN 0 ELSE Most(i))
    BY <1>2, <1>3, <2>1 DEF Polls, Sent, Active
  <2>3. Sent(i, j) = (IF i > pc THEN 0 ELSE Most(i))
    BY <2>1 DEF Sent
  <2> QED
    BY <1>1, <2>2, <2>3
<1>4. CASE \E e : Ended(e)
  <2>1. Sent(i, j)' = (IF i > pc THEN 0 ELSE Most(i))
    BY <1>2, <1>4 DEF Ended, Sent, Active
  <2>2. i > pc => Sent(i, j) = 0
    BY DEF Sent
  <2> QED
    BY <1>1, <2>1, <2>2
<1>5. CASE Passed(pc + 1) \/ Passed(pc + 2)
  <2>1. CASE \E e : Ended(e)
    BY <1>4, <2>1
  <2>2. CASE stage' = "step" /\ pc' \in {pc + 1, pc + 2}
    <3>1. Sent(i, j)' = (IF i >= pc' THEN 0 ELSE Most(i))
      BY <1>1, <1>2, <2>2 DEF Sent, Active
    <3>2. i > pc => Sent(i, j) = 0
      BY DEF Sent
    <3> QED
      BY <1>1, <2>2, <3>1, <3>2
  <2> QED
    BY <1>5, <2>1, <2>2 DEF Passed
<1> QED
  BY <1>3, <1>4, <1>5 DEF Leaves

\* Where a step goes on, only what is in hand counts.
LEMMA SentInHand ==
    ASSUME Control, Control', pc' = pc, prog' = prog, lossy => lossy',
           stage \in Active \cup {"step"}, stage' \in Active,
           NEW i \in 1..Len(prog), NEW j \in 1..3,
           (IF stage = "step" THEN 0 ELSE InHand(j)) <= InHand(j)'
    PROVE  Sent(i, j) <= Sent(i, j)'
<1>1. pc \in Nat /\ i \in Nat
  BY StepFormed DEF Control
<1>2. CASE i = pc
  BY <1>1, <1>2 DEF Sent, Active
<1>3. CASE i > pc
  BY <1>1, <1>3 DEF Sent
<1>4. CASE i < pc
  <2>1. Sent(i, j) = Most(i) /\ Sent(i, j)' = Most(i)'
    BY <1>1, <1>4 DEF Sent
  <2>2. Most(i) <= Most(i)'
    BY DEF Most
  <2> QED
    BY <2>1, <2>2
<1> QED
  BY <1>1, <1>2, <1>3, <1>4

\* An attempt is counted before its request can be executed again.
LEMMA TriedGrows ==
    ASSUME Control, Control', Attempted
    PROVE  /\ pc' = pc /\ prog' = prog /\ req' = req /\ rerun' = rerun /\ (lossy => lossy')
           /\ stage \in Active /\ stage' \in Active
           /\ Tried <= Tried' /\ (stage = "flight" => Tried + 1 <= Tried')
           /\ PerRun <= PerRun'
<1>1. /\ pc' = pc /\ prog' = prog /\ req' = req /\ rerun' = rerun /\ (lossy => lossy')
      /\ stage \in {"ready", "flight", "backoff"}
      /\ stage' \in {"ready", "flight", "backoff", "answered", "failed"}
  BY DEF Attempted
<1>2. try \in 1..2 /\ (stage = "backoff" => try = 1) /\ try' \in 1..2
  BY DEF Control, Typed, StageInv
<1>3. /\ stage # "flight" =>
            \/ stage = "ready" /\ stage' = "flight" /\ try' = try
            \/ stage = "backoff" /\ stage' = "ready" /\ try' = 2
            \/ stage' = "failed" /\ try' = try
      /\ stage = "flight" =>
            \/ stage' \in {"answered", "failed"} /\ try' = try
            \/ stage' = "backoff" /\ try = 1 /\ try' = 1
            \/ stage' = "ready" /\ try = 1 /\ try' = 2
  BY DEF Attempted
<1>4. Tried <= Tried' /\ (stage = "flight" => Tried + 1 <= Tried')
  <2>1. /\ stage \in {"ready", "flight"} => Tried = try - 1
        /\ stage = "backoff" => Tried = 1
    BY DEF Tried
  <2>2. /\ stage' \in {"ready", "flight"} => Tried' = try' - 1
        /\ stage' = "backoff" => Tried' = 1
        /\ stage' \in {"answered", "failed"} => Tried' = try'
    BY DEF Tried
  <2>3. try \in {1, 2} /\ try' \in {1, 2}
    BY <1>2
  <2>4. CASE stage # "flight"
    <3>1. CASE stage = "ready" /\ stage' = "flight" /\ try' = try
      BY <2>1, <2>2, <2>3, <2>4, <3>1
    <3>2. CASE stage = "backoff" /\ stage' = "ready" /\ try' = 2
      BY <2>1, <2>2, <2>4, <3>2
    <3>3. CASE stage' = "failed" /\ try' = try
      BY <1>1, <1>2, <2>1, <2>2, <2>3, <2>4, <3>3
    <3> QED
      BY <1>3, <2>4, <3>1, <3>2, <3>3
  <2>5. CASE stage = "flight"
    BY <1>3, <2>1, <2>2, <2>3, <2>5
  <2> QED
    BY <2>4, <2>5
<1>5. PerRun <= PerRun'
  BY <1>1 DEF PerRun
<1>6. stage \in Active /\ stage' \in Active
  BY <1>1 DEF Active
<1> QED
  BY <1>1, <1>4, <1>5, <1>6

\* The count of a change goes up with the attempts at it.
LEMMA RanAttempted ==
    ASSUME Control, Control', RanInv, Attempted
    PROVE  RanInv'
<1>1. /\ pc' = pc /\ prog' = prog /\ req' = req /\ rerun' = rerun /\ (lossy => lossy')
      /\ stage \in Active /\ stage' \in Active
      /\ Tried <= Tried' /\ (stage = "flight" => Tried + 1 <= Tried')
      /\ PerRun <= PerRun' /\ PerRun \in 1..2 /\ PerRun' \in 1..2
  BY TriedGrows DEF PerRun
<1>2. req \in 1..3 /\ Tried \in Nat /\ Tried' \in Nat
  <2>1. req \in 1..3 /\ try \in 1..2 /\ try' \in 1..2
    BY DEF Control, Typed
  <2>2. Tried \in {try - 1, 1, try} /\ Tried' \in {try' - 1, 1, try'}
    BY DEF Tried
  <2>3. \A t \in 1..2 : \A x \in {t - 1, 1, t} : x \in Nat
    OBVIOUS
  <2> QED
    BY <2>1, <2>2, <2>3, Zenon
<1>3. ASSUME NEW j \in 1..3
      PROVE  /\ InHand(j) \in Nat /\ InHand(j)' \in Nat /\ InHand(j) <= InHand(j)'
             /\ j = req /\ stage = "flight" => InHand(j) + 1 <= InHand(j)'
  <2>1. \A r \in {0, 2}, a, b \in Nat :
            /\ r + a \in Nat /\ (a <= b => r + a <= r + b) /\ (a + 1 <= b => r + a + 1 <= r + b)
    OBVIOUS
  <2>2. PICK r \in {0, 2} : r = IF rerun THEN 2 ELSE 0
    OBVIOUS
  <2>3. PICK a \in Nat : a = IF j < req THEN PerRun ELSE IF j > req THEN 0 ELSE Tried
    BY <1>1, <1>2
  <2>4. PICK b \in Nat : b = IF j < req THEN PerRun' ELSE IF j > req THEN 0 ELSE Tried'
    BY <1>1, <1>2
  <2>5. InHand(j) = r + a /\ InHand(j)' = r + b
    BY <1>1, <2>2, <2>3, <2>4, Zenon DEF InHand
  <2>6. a <= b /\ (j = req /\ stage = "flight" => a + 1 <= b)
    BY <1>1, <1>2, <2>3, <2>4
  <2> QED
    BY <2>1, <2>5, <2>6
<1>4. \A i \in 1..Len(prog), j \in 1..3 : Sent(i, j) <= Sent(i, j)'
  <2> SUFFICES ASSUME NEW i \in 1..Len(prog), NEW j \in 1..3 PROVE Sent(i, j) <= Sent(i, j)'
    OBVIOUS
  <2>1. stage # "step" /\ InHand(j) <= InHand(j)'
    BY <1>1, <1>3 DEF Active
  <2> QED
    BY <1>1, <2>1, SentInHand
<1>5. CASE ran' = ran
  BY <1>1, <1>4, <1>5, RanKept
<1>6. CASE ran' # ran
  <2>1. /\ stage = "flight" /\ Ask.label # "" /\ ran' = [ran EXCEPT ![Ask.label] = @ + 1]
    BY <1>6 DEF Attempted, Execute
  <2> DEFINE l == Ask.label
  <2>2. l \in Labels /\ Step.do \in Operations /\ req \in 1..Len(Step.reqs) /\ pc \in 1..Len(prog)
    BY <1>1, <2>1, AskFormed, StepFormed DEF Control
  <2>3. Place(prog, pc, req, l)
    BY <2>2 DEF Place, Ask, Step
  <2>4. Sent(pc, req) = InHand(req) /\ Sent(pc, req)' = InHand(req)'
    BY <1>1, <2>2, StepFormed DEF Sent, Control, Active
  <2>5. InHand(req) + 1 <= InHand(req)' /\ InHand(req) \in Nat /\ InHand(req)' \in Nat
    <3>1. \A j \in 1..3 : j = req =>
              /\ InHand(j) \in Nat /\ InHand(j)' \in Nat /\ InHand(j) + 1 <= InHand(j)'
      BY <1>3, <2>1
    <3>2. req \in 1..3 /\ req' = req
      BY <1>1, <1>2
    <3> QED
      BY <3>1, <3>2
  <2>6. /\ ran[l] \in Nat /\ ran'[l] = ran[l] + 1
        /\ \A k \in Labels : k # l => ran'[k] = ran[k]
    BY <2>1, <2>2 DEF Control, Typed
  <2>7. ran'[l] <= Sent(pc, req)'
    <3>1. CASE ran[l] = 0
      BY <2>4, <2>5, <2>6, <3>1
    <3>2. CASE ran[l] # 0
      <4>1. PICK i \in 1..Len(prog), j \in 1..3 : Place(prog, i, j, l) /\ ran[l] <= Sent(i, j)
        BY <2>2, <3>2 DEF RanInv
      <4>2. i = pc /\ j = req
        <5>1. EachOnce(prog)
          BY ProgramsAssumption DEF Control, Typed
        <5> HIDE DEF l
        <5> QED
          BY <1>2, <2>2, <2>3, <4>1, <5>1 DEF EachOnce
      <4> QED
        BY <2>4, <2>5, <2>6, <4>1, <4>2
    <3> QED
      BY <3>1, <3>2
  <2> HIDE DEF l
  <2> SUFFICES ASSUME NEW k \in Labels
               PROVE  \/ ran'[k] = 0
                      \/ \E i \in 1..Len(prog'), j \in 1..3 :
                             Place(prog', i, j, k) /\ ran'[k] <= Sent(i, j)'
    BY DEF RanInv
  <2>8. CASE k = l
    BY <1>1, <1>2, <2>2, <2>3, <2>7, <2>8
  <2>9. CASE k # l /\ ran[k] # 0
    <3>1. PICK i \in 1..Len(prog), j \in 1..3 : Place(prog, i, j, k) /\ ran[k] <= Sent(i, j)
      BY <2>9 DEF RanInv
    <3>2. Sent(i, j) \in Nat /\ Sent(i, j)' \in Nat /\ ran[k] \in Nat /\ ran'[k] = ran[k]
      BY <1>1, <2>6, <2>9, SentTypes, SentNext DEF Control, Typed
    <3> QED
      BY <1>1, <1>4, <3>1, <3>2
  <2>10. CASE k # l /\ ran[k] = 0
    BY <2>6, <2>10
  <2> QED
    BY <2>8, <2>9, <2>10
<1> QED
  BY <1>5, <1>6

\* RanInv is inductive, given Control: only an attempt executes anything, and what was
\* sent never shrinks.
LEMMA RanNext ==
    ASSUME Control, Control', RanInv, Localed \/ Started \/ Attempted \/ Concluded \/ Surrounded
    PROVE  RanInv'
<1>1. CASE Localed
  <2>1. UNCHANGED <<prog, lossy, ran>> /\ stage \notin {"done", "tick"} /\ Leaves
    BY <1>1 DEF Localed, Leaves
  <2> QED
    BY <2>1, SentLeaving, RanKept
<1>2. CASE Started
  <2>1. UNCHANGED <<prog, lossy, ran>>
    BY <1>2 DEF Started
  <2>2. ASSUME NEW i \in 1..Len(prog), NEW j \in 1..3, NEW l \in Labels, Place(prog, i, j, l)
        PROVE  Sent(i, j) <= Sent(i, j)'
    <3>1. Sent(i, j) \in Nat /\ pc \in Nat /\ i \in Nat
      BY SentTypes, StepFormed DEF Control
    <3>2. CASE stage = "step" /\ stage' = "ready" /\ pc' = pc /\ req' = 1 /\ try' = 1 /\ rerun' = FALSE
      <4>1. InHand(j)' = 0
        BY <3>2 DEF InHand, Tried
      <4>2. stage \in Active \cup {"step"} /\ stage' \in Active /\ (lossy => lossy')
        BY <2>1, <3>2 DEF Active
      <4>3. (IF stage = "step" THEN 0 ELSE InHand(j)) <= InHand(j)'
        BY <3>2, <4>1
      <4> QED
        BY <2>1, <3>2, <4>2, <4>3, SentInHand
    <3>3. CASE stage = "tick" /\ pc' = pc /\ stage' \in {"ready", "done"}
      <4>1. i # pc
        <5>1. prog[pc].do = "wait"
          BY <3>3 DEF Control, StageInv, Step
        <5> QED
          BY <2>2, <5>1, PlaceFormed
      <4>2. Most(i)' = Most(i)
        BY <2>1 DEF Most
      <4> QED
        BY <3>1, <3>3, <4>1, <4>2 DEF Sent
    <3>4. \/ stage = "step" /\ stage' = "ready" /\ pc' = pc /\ req' = 1 /\ try' = 1 /\ rerun' = FALSE
          \/ stage = "tick" /\ pc' = pc /\ stage' \in {"ready", "done"}
      BY <1>2 DEF Started, Ended
    <3> QED
      BY <3>2, <3>3, <3>4
  <2> QED
    BY <2>1, <2>2, RanKept
<1>3. CASE Attempted
  BY <1>3, RanAttempted
<1>4. CASE Concluded
  <2>1. UNCHANGED <<prog, lossy, ran>> /\ stage \in {"answered", "failed", "lookup"} /\ stage \in Active
    BY <1>4 DEF Concluded, Active
  <2>2. ASSUME NEW i \in 1..Len(prog), NEW j \in 1..3, NEW l \in Labels, Place(prog, i, j, l)
        PROVE  Sent(i, j) <= Sent(i, j)'
    <3>1. /\ Tried \in 0..PerRun /\ PerRun \in 1..2 /\ PerRun' = PerRun /\ req \in 1..3
          /\ Tried = try
          /\ stage = "lookup" => lossy /\ ~rerun
      BY <2>1, SentTypes DEF PerRun, Control, Typed, StageInv, Tried
    <3>2. CASE Continues
      <4>1. stage' = "ready" /\ try' = 1 /\ pc' = pc /\ Tried' = 0
        BY <3>2 DEF Continues, Tried
      <4>2. CASE req' = req + 1 /\ rerun' = rerun
        BY <2>1, <3>1, <4>1, <4>2, SentInHand DEF InHand, Active
      <4>3. CASE stage = "lookup" /\ req' = 1 /\ rerun' = TRUE
        <5>1. PerRun = 2
          BY <3>1, <4>3 DEF PerRun
        <5>2. InHand(j) <= 2 /\ InHand(j)' = 2
          BY <3>1, <4>1, <4>3, <5>1 DEF InHand
        <5> QED
          BY <2>1, <4>1, <4>3, <5>2, SentInHand DEF InHand, Active
      <4> QED
        BY <3>2, <4>2, <4>3 DEF Continues
    <3>3. CASE stage' = "lookup" /\ stage = "failed" /\ UNCHANGED <<req, try, rerun, pc>>
      <4>1. InHand(j)' = InHand(j)
        BY <2>1, <3>1, <3>3 DEF InHand, Tried
      <4> QED
        <5>1. InHand(j) \in Nat
          BY <3>1 DEF InHand
        <5>2. stage \in Active \cup {"step"} /\ stage' \in Active /\ (lossy => lossy')
          BY <2>1, <3>3 DEF Active
        <5>3. (IF stage = "step" THEN 0 ELSE InHand(j)) <= InHand(j)'
          BY <3>3, <4>1, <5>1
        <5> QED
          BY <2>1, <3>3, <5>2, <5>3, SentInHand
    <3>4. CASE Leaves
      BY <2>1, <2>2, <3>4, SentLeaving
    <3>5. Continues \/ (stage' = "lookup" /\ stage = "failed" /\ UNCHANGED <<req, try, rerun, pc>>)
          \/ Leaves
      <4>1. \A e : Over(e) => Leaves
        <5>1. Step.jump \in 1..2
          BY <2>1, AskFormed, OpFormed DEF Control
        <5>2. pc + Step.jump \in {pc + 1, pc + 2}
          BY <5>1
        <5> QED
          BY <5>2 DEF Over, Leaves
      <4> QED
        BY <1>4, <4>1 DEF Concluded, Leaves
    <3> QED
      BY <3>2, <3>3, <3>4, <3>5
  <2> QED
    BY <2>1, <2>2, RanKept
<1>5. CASE Surrounded
  <2>1. UNCHANGED <<prog, pc, stage, req, try, rerun, lossy, ran>>
    BY <1>5 DEF Surrounded
  <2>2. \A i \in 1..Len(prog), j \in 1..3 : Sent(i, j)' = Sent(i, j) /\ Sent(i, j) \in Nat
    BY <2>1, SentTypes DEF Sent, Most, InHand, PerRun, Tried
  <2> QED
    BY <2>1, <2>2, RanKept
<1> QED
  BY <1>1, <1>2, <1>3, <1>4, <1>5

\* Nothing was executed at first.
LEMMA RanInit == Init => RanInv
<1> SUFFICES ASSUME Init PROVE RanInv
  OBVIOUS
<1>1. \A l \in Labels : ran[l] = 0
  BY DEF Init
<1> QED
  BY <1>1 DEF RanInv

\* A transitivity that knows zero.
LEMMA AtMost ==
    \A x, y, z \in Nat : (x = 0 \/ x <= y) /\ y <= z => x <= z
  OBVIOUS

\* The requests of an operation.
LEMMA RequestsOf ==
    ASSUME NEW q \in Seq(Request)
    PROVE  /\ DOMAIN q = 1..Len(q)
           /\ \A k \in 1..Len(q) : q[k] \in Request
           /\ Len(q) \in 1..3 => \A k \in 1..Len(q) : k \in 1..3
<1>1. \A n \in 1..3 : \A k \in 1..n : k \in 1..3
  OBVIOUS
<1>2. DOMAIN q = 1..Len(q) /\ \A k \in 1..Len(q) : q[k] \in Request
  OBVIOUS
<1>3. Len(q) \in 1..3 => \A k \in 1..Len(q) : k \in 1..3
  BY <1>1, Zenon
<1> QED
  BY <1>2, <1>3

\* What a step asks of the receiver is a place of the program.
LEMMA RequestPlaced ==
    ASSUME Control, NEW i \in DOMAIN prog, NEW r \in Requests(i), r.label # ""
    PROVE  /\ i \in 1..Len(prog) /\ r.label \in Labels
           /\ \E j \in 1..3 : Place(prog, i, j, r.label)
<1>1. DOMAIN prog = 1..Len(prog) /\ Formed(prog[i])
  <2>1. Sequenced(prog)
    BY ProgramsAssumption DEF Control, Typed
  <2> QED
    BY <2>1 DEF Sequenced
<1>2. prog[i].do \in Operations /\ \E j \in DOMAIN prog[i].reqs : r = prog[i].reqs[j]
  BY DEF Requests, Operations
<1>3. prog[i].reqs \in Seq(Request) /\ Len(prog[i].reqs) \in 1..3
  BY <1>1, <1>2 DEF Formed
<1>4. PICK j \in 1..Len(prog[i].reqs) : r = prog[i].reqs[j]
  BY <1>2, <1>3, RequestsOf
<1>5. j \in 1..3 /\ r \in Request
  BY <1>3, <1>4, RequestsOf
<1>6. r.label \in Labels
  BY <1>5 DEF Request
<1>7. Place(prog, i, j, r.label)
  BY <1>1, <1>2, <1>4 DEF Place
<1> QED
  BY <1>1, <1>5, <1>6, <1>7

\* A change has one place, which bounds how often it is executed.
LEMMA RanAtMost ==
    ASSUME Control, RanInv,
           NEW i \in 1..Len(prog), NEW j \in 1..3, NEW l \in Labels, Place(prog, i, j, l)
    PROVE  ran[l] = 0 \/ ran[l] <= Sent(i, j)
<1>1. CASE ran[l] # 0
  <2>1. PICK m \in 1..Len(prog), n \in 1..3 : Place(prog, m, n, l) /\ ran[l] <= Sent(m, n)
    BY <1>1 DEF RanInv
  <2>2. EachOnce(prog)
    BY ProgramsAssumption DEF Control, Typed
  <2>3. m = i /\ n = j
    BY <2>1, <2>2 DEF EachOnce
  <2> QED
    BY <2>1, <2>3
<1> QED
  BY <1>1

\* What Typed and the counts come to.
LEMMA TypeFollows == Control /\ RanInv => TypeOK
<1> SUFFICES ASSUME Control, RanInv PROVE TypeOK
  OBVIOUS
<1>1. ASSUME NEW l \in Labels PROVE ran[l] <= 4
  <2>1. ran[l] \in Nat
    BY DEF Control, Typed
  <2>2. CASE ran[l] # 0
    <3>1. PICK i \in 1..Len(prog), j \in 1..3 : Place(prog, i, j, l) /\ ran[l] <= Sent(i, j)
      BY <2>2 DEF RanInv
    <3>2. Sent(i, j) <= Most(i) /\ Sent(i, j) \in Nat
      BY <3>1, SentTypes, SentBounded
    <3>3. Most(i) \in {1, 2, 4}
      BY DEF Most
    <3> QED
      BY <2>1, <3>1, <3>2, <3>3
  <2> QED
    BY <2>2
<1> QED
  BY <1>1 DEF TypeOK, Control

\* And ReplaysBounded.
LEMMA ReplaysFollow == Control /\ RanInv => ReplaysBounded
<1> SUFFICES ASSUME Control, RanInv, NEW i \in DOMAIN prog, NEW r \in Requests(i), r.label # ""
             PROVE  ran[r.label] <= IF ~lossy THEN 1 ELSE IF prog[i].via = "ynca" THEN 2 ELSE 4
  BY DEF ReplaysBounded
<1>1. i \in 1..Len(prog) /\ r.label \in Labels
  BY RequestPlaced
<1>2. PICK j \in 1..3 : Place(prog, i, j, r.label)
  BY RequestPlaced
<1>3. Sent(i, j) <= Most(i) /\ Sent(i, j) \in Nat /\ Most(i) \in Nat
  BY <1>1, <1>2, SentTypes, SentBounded
<1>4. ran[r.label] \in Nat /\ (ran[r.label] = 0 \/ ran[r.label] <= Sent(i, j))
  BY <1>1, <1>2, RanAtMost DEF Control, Typed
<1>5. ran[r.label] <= Most(i)
  BY <1>3, <1>4, AtMost
<1> QED
  BY <1>5 DEF Most

\* The counts hold in every reachable state.
LEMMA CountsAlways == Spec => [](Control /\ RanInv)
<1>1. Init => Control /\ RanInv
  BY ControlInit, RanInit
<1>2. Control /\ RanInv /\ [Next]_vars => (Control /\ RanInv)'
  BY ControlNext, RanNext, StepKinds
<1> QED
  BY <1>1, <1>2, PTL DEF Spec

\* Every variable stays in its range, no program is left at its end, and no change
\* is executed more than four times: the two attempts of the two runs of an
\* operation (yxc.Client.do, runWithRediscover).
THEOREM TypeCorrect == Spec => []TypeOK
  BY CountsAlways, TypeFollows, PTL

\* As long as every request was answered each change is executed at most once;
\* otherwise at most twice over YNCA and four times over YXC (do, Send,
\* runWithRediscover).
THEOREM ReplaysAreBounded == Spec => []ReplaysBounded
  BY CountsAlways, ReplaysFollow, PTL

-----------------------------------------------------------------------------
(* Arguments that are refused.                                             *)

\* How an operation ends a command.
LEMMA ConcludedEnds ==
    ASSUME Control, Concluded, stage' = "done"
    PROVE  \/ err' = {}
           \/ /\ pc' = pc
              /\ \/ err' = {"other"}
                 \/ stage = "failed" /\ err' = OpError
                 \/ stage = "lookup" /\ err' = LookupError
<1>1. \A n : Passed(n) => err' = {}
  BY DEF Passed, Ended
<1>2. ASSUME NEW e, Over(e) PROVE err' = {} \/ (pc' = pc /\ err' = e)
  BY <1>1, <1>2 DEF Over, Polls, Ended
<1>3. ~Continues /\ ~Polls
  BY DEF Continues, Polls
<1>4. \/ Passed(pc + 1)
      \/ Over({"other"})
      \/ stage = "failed" /\ Over(OpError)
      \/ stage = "lookup" /\ Over(LookupError)
  BY <1>3 DEF Concluded
<1> QED
  BY <1>1, <1>2, <1>4

\* The errors of operations are none of the arguments.
LEMMA OpErrorKinds ==
    ASSUME Control
    PROVE  /\ stage = "failed" =>
                 /\ OpError # {} /\ OpError \subseteq OpErrors \cup {"unreachable"}
                 /\ OpError \cap Gone # {} => "transport" \in err
           /\ LookupError # {} /\ LookupError \subseteq {"cancelled", "unreachable", "transport"}
           /\ cancelled => LookupError = {"cancelled"}
<1>1. stage = "failed" => err \subseteq OpErrors /\ err # {}
  BY DEF Control, StageInv
<1> QED
  BY <1>1 DEF OpError, LookupError, OpErrors, Gone

\* A command that ends with an error of its arguments ends in the step that found it.
RefuseInv ==
    stage = "done" /\ err \cap {"usage", "validation"} # {} =>
        \/ Step.do \in {"setup", "show"}
        \/ Step.do \in {"refuse", "demand"} /\ Step.error \in {"usage", "validation"}

\* No command has ended at first.
LEMMA RefuseInit == Init => RefuseInv
BY DEF Init, RefuseInv

\* RefuseInv is inductive, given Control.
LEMMA RefuseNext ==
    ASSUME Control, RefuseInv, Localed \/ Started \/ Attempted \/ Concluded \/ Surrounded
    PROVE  RefuseInv'
<1>0. prog' = prog
  BY WorldAfter
<1> SUFFICES ASSUME stage' = "done", err' \cap {"usage", "validation"} # {}
             PROVE  \/ Step'.do \in {"setup", "show"}
                    \/ Step'.do \in {"refuse", "demand"} /\ Step'.error \in {"usage", "validation"}
  BY DEF RefuseInv
<1>1. CASE Localed
  <2>1. \A n : Passed(n) => err' = {}
    BY DEF Passed, Ended
  <2>2. PICK e \in SUBSET Errors : Excused(e) /\ Ended(e)
    BY <1>1, <2>1 DEF Localed
  <2>3. err' = e /\ Step' = Step
    BY <1>0, <2>2, StepSame DEF Ended
  <2> QED
    BY <2>2, <2>3 DEF Excused
<1>2. CASE Started
  <2>1. Ended({"powertimeout"}) \/ Ended({"canceled"})
    BY <1>2 DEF Started
  <2> QED
    BY <2>1 DEF Ended
<1>3. CASE Attempted
  BY <1>3 DEF Attempted
<1>4. CASE Concluded
  <2>1. err' = {} \/ err' = {"other"} \/ (stage = "failed" /\ err' = OpError) \/ err' = LookupError
    BY <1>4, ConcludedEnds
  <2>2. err' \cap {"usage", "validation"} = {}
    BY <2>1, OpErrorKinds DEF OpErrors
  <2> QED
    BY <2>2
<1>5. CASE Surrounded
  <2>1. UNCHANGED <<prog, pc, stage, err>>
    BY <1>5 DEF Surrounded
  <2> QED
    BY <2>1, StepSame DEF RefuseInv
<1> QED
  BY <1>1, <1>2, <1>3, <1>4, <1>5

\* Nothing was sent from the steps before the one that refused, nor is from those after.
LEMMA RefusalFollows == Control /\ RanInv /\ RefuseInv => RefusedUntouched
<1> SUFFICES ASSUME Control, RanInv, RefuseInv,
                    Done, err \cap {"usage", "validation"} # {}, Step.do # "show",
                    NEW l \in Labels, ran[l] # 0
             PROVE  FALSE
  BY DEF RefusedUntouched
<1>1. PICK i \in 1..Len(prog), j \in 1..3 : Place(prog, i, j, l) /\ ran[l] <= Sent(i, j)
  BY DEF RanInv
<1>2. ran[l] \in Nat /\ stage = "done" /\ stage \notin Active
  BY DEF Control, Typed, Done, Active
<1>3. pc \in 1..Len(prog) /\ pc \in Nat /\ i \in Nat
  BY StepFormed DEF Control
<1>4. i <= pc
  BY <1>1, <1>2, <1>3 DEF Sent
<1>5. prog[i].do \in {"ask", "release"}
  BY <1>1, PlaceFormed
<1>6. CASE Step.do = "setup"
  <2>1. pc = 1
    BY <1>6, StepFormed DEF Control
  <2> QED
    BY <1>3, <1>4, <1>5, <1>6, <2>1 DEF Step
<1>7. CASE Step.do \in {"refuse", "demand"} /\ Step.error \in {"usage", "validation"}
  <2>1. i # pc
    BY <1>5, <1>7 DEF Step
  <2>2. i \in 1..(pc - 1)
    BY <1>3, <1>4, <2>1
  <2>3. RefusesFirst(prog)
    BY ProgramsAssumption DEF Control, Typed
  <2> QED
    BY <1>1, <1>3, <1>7, <2>2, <2>3 DEF RefusesFirst, Step
<1> QED
  BY <1>2, <1>6, <1>7 DEF RefuseInv

\* A command that refuses its arguments has changed nothing: no request of a program
\* that changes the receiver comes before a step that refuses, and no operation
\* fails with such an error.
THEOREM RefusalsAreClean == Spec => []RefusedUntouched
<1>1. Init => Control /\ RanInv /\ RefuseInv
  BY ControlInit, RanInit, RefuseInit
<1>2. Control /\ RanInv /\ RefuseInv /\ [Next]_vars => (Control /\ RanInv /\ RefuseInv)'
  BY ControlNext, RanNext, RefuseNext, StepKinds
<1> QED
  BY <1>1, <1>2, RefusalFollows, PTL DEF Spec

-----------------------------------------------------------------------------
(* Changes that were made.                                                 *)

\* The receiver executed the changes among the first n requests of step i.
Executed(i, n) ==
    \A j \in 1..Len(prog[i].reqs) :
        j <= n /\ prog[i].reqs[j].label # "" => ran[prog[i].reqs[j].label] > 0

\* The requests of an operation that are done with.
Requested == IF stage = "answered" THEN req ELSE req - 1

\* A step that a command does not go beyond with an error.
MustRun(s) == s.do \in {"ask", "release"} /\ s.soft = "no"
Behind(i)  == i < pc \/ (stage = "done" /\ err = {})

\* What was passed was executed, and so were the requests before the one in hand.
DoneInv ==
    /\ \A i \in 1..Len(prog) : Behind(i) /\ MustRun(prog[i]) => Executed(i, 3)
    /\ stage \in Active => Executed(pc, Requested)

\* Requests of a step, as of a program.
LEMMA ReqFormed ==
    ASSUME Control, NEW i \in 1..Len(prog), prog[i].do \in Operations,
           NEW j \in 1..Len(prog[i].reqs)
    PROVE  /\ j \in 1..3 /\ prog[i].reqs[j] \in Request
           /\ prog[i].reqs[j].label \in Labels \cup {""}
           /\ prog[i].reqs[j].label # "" => prog[i].reqs[j].shrug = {}
<1>1. Formed(prog[i])
  BY ProgramsAssumption DEF Control, Typed, Sequenced
<1>2. prog[i].reqs \in Seq(Request) /\ Len(prog[i].reqs) \in 1..3
  BY <1>1 DEF Formed
<1>3. prog[i].reqs[j].label # "" => prog[i].reqs[j].shrug = {}
  BY <1>1 DEF Formed
<1>4. \A r \in Request : r.label \in Labels \cup {""}
  BY DEF Request
<1>5. j \in 1..3 /\ prog[i].reqs[j] \in Request
  BY <1>2, RequestsOf
<1> QED
  BY <1>3, <1>4, <1>5

\* What comes before a request, and what counts up.
LEMMA Before ==
    /\ \A j, n \in 1..3 : j <= n /\ j # n => j <= n - 1
    /\ \A x \in Nat : x + 1 > 0
  OBVIOUS

\* What was executed stays executed.
LEMMA RanGrows ==
    ASSUME Control, Localed \/ Started \/ Attempted \/ Concluded \/ Surrounded,
           NEW l \in Labels, ran[l] > 0
    PROVE  ran'[l] > 0
<1>1. CASE ran' = ran
  BY <1>1
<1>2. CASE Attempted /\ Execute
  <2>1. ran \in [Labels -> Nat] /\ ran[l] \in Nat
    BY DEF Control, Typed
  <2>2. ran'[l] = ran[l] \/ ran'[l] = ran[l] + 1
    BY <1>2, <2>1 DEF Execute
  <2> QED
    BY <2>1, <2>2
<1> QED
  BY <1>1, <1>2 DEF Localed, Started, Attempted, Concluded, Surrounded

\* Nothing is behind a step but what comes before it.
LEMMA BehindOnly ==
    ASSUME Control, NEW n \in Nat, n > pc, Passed(n), NEW i \in 1..Len(prog), Behind(i)'
    PROVE  i < n
<1>1. pc \in Nat /\ Len(prog) \in Nat /\ i \in Nat
  BY StepFormed DEF Control
<1>2. CASE n > Len(prog)
  BY <1>1, <1>2
<1>3. CASE n <= Len(prog) /\ stage' = "step" /\ pc' = n
  BY <1>1, <1>3 DEF Behind
<1> QED
  BY <1>2, <1>3 DEF Passed

\* Where a step was passed that has been executed or need not be.
LEMMA DonePassed ==
    ASSUME Control, DoneInv, prog' = prog, ran' = ran,
           \/ Passed(pc + 1)
           \/ Passed(pc + 2) /\ Skips(Step)
           \/ \E e : e # {} /\ Ended(e)
           \/ pc' = pc /\ stage' = "tick",
           Passed(pc + 1) \/ Passed(pc + 2) => (MustRun(Step) => Executed(pc, 3))
    PROVE  DoneInv'
<1>1. pc \in 1..Len(prog) /\ pc \in Nat /\ Len(prog) \in Nat
  BY StepFormed DEF Control
<1>2. stage' \notin Active
  BY DEF Passed, Ended, Active
<1>3. ASSUME NEW i \in 1..Len(prog), Behind(i)', MustRun(prog[i])
      PROVE  Executed(i, 3)
  <2>1. CASE i < pc
    BY <1>3, <2>1 DEF DoneInv, Behind
  <2>2. CASE Passed(pc + 1)
    <3>1. i < pc + 1
      BY <1>1, <1>3, <2>2, BehindOnly
    <3>2. i = pc \/ i < pc
      BY <1>1, <3>1
    <3> QED
      BY <1>3, <2>1, <2>2, <3>2 DEF Step
  <2>3. CASE Passed(pc + 2) /\ Skips(Step)
    <3>1. i < pc + 2
      BY <1>1, <1>3, <2>3, BehindOnly
    <3>2. i = pc \/ i < pc \/ i = pc + 1
      BY <1>1, <3>1
    <3>3. i # pc + 1
      <4>1. SkipsNoChange(prog)
        BY ProgramsAssumption DEF Control, Typed
      <4>2. i = pc + 1 => prog[i].do \notin {"ask", "release"}
        BY <1>1, <2>3, <4>1 DEF SkipsNoChange, Step
      <4> QED
        BY <1>3, <4>2 DEF MustRun
    <3> QED
      BY <1>3, <2>1, <2>3, <3>2, <3>3 DEF Step
  <2>4. CASE \/ \E e : e # {} /\ Ended(e)
             \/ pc' = pc /\ stage' = "tick"
    <3>1. i < pc
      BY <1>3, <2>4 DEF Behind, Ended
    <3> QED
      BY <2>1, <3>1
  <2> QED
    BY <2>2, <2>3, <2>4
<1>4. \A i \in 1..Len(prog') : Behind(i)' /\ MustRun(prog'[i]) => Executed(i, 3)'
  BY <1>3 DEF Executed
<1> QED
  BY <1>2, <1>4 DEF DoneInv

\* Where an operation goes on.
LEMMA DoneGoes ==
    ASSUME Control, DoneInv, prog' = prog, pc' = pc, stage # "done", stage' # "done",
           \A l \in Labels : ran[l] > 0 => ran'[l] > 0,
           stage' \in Active => Executed(pc, Requested)'
    PROVE  DoneInv'
<1>1. ASSUME NEW i \in 1..Len(prog), Behind(i)', MustRun(prog[i]), NEW j \in 1..Len(prog[i].reqs),
             prog[i].reqs[j].label # ""
      PROVE  ran'[prog[i].reqs[j].label] > 0
  <2>1. Behind(i)
    BY <1>1 DEF Behind
  <2>2. prog[i].do \in Operations
    BY <1>1 DEF MustRun, Operations
  <2>3. j \in 1..3 /\ prog[i].reqs[j].label \in Labels
    BY <1>1, <2>2, ReqFormed
  <2> QED
    <3>1. ran[prog[i].reqs[j].label] > 0
      <4>1. Executed(i, 3)
        BY <1>1, <2>1 DEF DoneInv
      <4>2. j <= 3
        BY <2>3
      <4> QED
        BY <1>1, <4>1, <4>2 DEF Executed
    <3> QED
      BY <2>3, <3>1
<1>2. \A i \in 1..Len(prog') : Behind(i)' /\ MustRun(prog'[i]) => Executed(i, 3)'
  BY <1>1 DEF Executed
<1> QED
  BY <1>2 DEF DoneInv

\* What an operation that is answered or let pass has executed.
LEMMA RequestedNext ==
    ASSUME Control, DoneInv, stage \in Active, stage \in {"answered", "failed"},
           stage = "failed" => err \subseteq Ask.shrug
    PROVE  Executed(pc, req)
<1>1. /\ Step.do \in Operations /\ pc \in 1..Len(prog) /\ req \in 1..3 /\ req \in 1..Len(Step.reqs)
      /\ Executed(pc, Requested)
  BY AskFormed, StepFormed DEF DoneInv, Control
<1>2. CASE stage = "answered"
  BY <1>1, <1>2 DEF Requested
<1>3. CASE stage = "failed"
  <2>1. prog[pc].reqs[req].label = ""
    <3>1. prog[pc].reqs[req].label # "" => prog[pc].reqs[req].shrug = {}
      BY <1>1, ReqFormed DEF Step
    <3>2. err # {} /\ err \subseteq prog[pc].reqs[req].shrug
      BY <1>3 DEF Control, StageInv, Ask, Step
    <3> QED
      BY <3>1, <3>2
  <2>2. Executed(pc, req - 1)
    BY <1>1, <1>3 DEF Requested
  <2>3. ASSUME NEW j \in 1..Len(prog[pc].reqs), j <= req, prog[pc].reqs[j].label # ""
        PROVE  ran[prog[pc].reqs[j].label] > 0
    <3>1. j \in 1..3
      BY <1>1, ReqFormed DEF Step
    <3>2. j # req
      BY <2>1, <2>3
    <3>3. j <= req - 1
      BY <1>1, <2>3, <3>1, <3>2, Before
    <3> QED
      BY <2>2, <2>3, <3>3 DEF Executed
  <2> QED
    BY <2>3 DEF Executed
<1> QED
  BY <1>2, <1>3

\* All requests of an operation.
LEMMA AllRequests ==
    ASSUME Control, stage \in Active, req = Len(Step.reqs), Executed(pc, req)
    PROVE  Executed(pc, 3)
<1>1. Step = prog[pc]
  BY DEF Step
<1>2. \A n \in 1..3 : \A j \in 1..n : j <= n
  OBVIOUS
<1>3. Len(Step.reqs) \in 1..3
  BY AskFormed
<1> QED
  BY <1>1, <1>2, <1>3 DEF Executed

\* DoneInv is kept by attempts, which execute the request before it is answered,
LEMMA DoneAttempted ==
    ASSUME Control, DoneInv, Attempted
    PROVE  DoneInv'
<1>1. /\ pc' = pc /\ prog' = prog /\ req' = req /\ stage \in Active /\ stage' \in Active
      /\ stage \in {"ready", "flight", "backoff"}
      /\ stage # "done" /\ stage' # "done"
  BY DEF Attempted, Active
<1>2. \A l \in Labels : ran[l] > 0 => ran'[l] > 0
  BY RanGrows
<1>3. /\ Step.do \in Operations /\ pc \in 1..Len(prog) /\ req \in 1..3 /\ req \in 1..Len(Step.reqs)
      /\ Ask.label \in Labels \cup {""}
      /\ Executed(pc, req - 1)
  BY <1>1, AskFormed, StepFormed DEF DoneInv, Requested, Control
<1>4. ASSUME NEW j \in 1..Len(prog[pc].reqs), prog[pc].reqs[j].label # "", j <= req - 1
      PROVE  ran'[prog[pc].reqs[j].label] > 0
  <2>1. ran[prog[pc].reqs[j].label] > 0
    BY <1>3, <1>4 DEF Executed
  <2>2. prog[pc].reqs[j].label \in Labels
    BY <1>3, <1>4, ReqFormed DEF Step
  <2> QED
    BY <1>2, <2>1, <2>2
<1>5. CASE stage' = "answered"
  <2>1. Execute
    BY <1>1, <1>5 DEF Attempted
  <2>2. Ask.label # "" => ran'[Ask.label] > 0
    <3>1. ran \in [Labels -> Nat]
      BY DEF Control, Typed
    <3>2. Ask.label # "" => ran'[Ask.label] = ran[Ask.label] + 1 /\ ran[Ask.label] \in Nat
      BY <1>3, <2>1, <3>1 DEF Execute
    <3> QED
      BY <3>2, Before
  <2>3. ASSUME NEW j \in 1..Len(prog[pc].reqs), prog[pc].reqs[j].label # "", j <= req
        PROVE  ran'[prog[pc].reqs[j].label] > 0
    <3>1. j \in 1..3
      BY <1>3, ReqFormed DEF Step
    <3>2. CASE j = req
      BY <2>2, <2>3, <3>2 DEF Ask, Step
    <3>3. CASE j # req
      <4>1. j <= req - 1
        BY <1>3, <2>3, <3>1, <3>3, Before
      <4> QED
        BY <1>4, <2>3, <4>1
    <3> QED
      BY <3>2, <3>3
  <2>4. Executed(pc, Requested)'
    BY <1>1, <1>5, <2>3 DEF Executed, Requested
  <2> QED
    BY <1>1, <1>2, <2>4, DoneGoes
<1>6. CASE stage' # "answered"
  <2>1. Executed(pc, Requested)'
    BY <1>1, <1>4, <1>6 DEF Executed, Requested
  <2> QED
    BY <1>1, <1>2, <2>1, DoneGoes
<1> QED
  BY <1>5, <1>6

\* and by the ends of operations: what must run is passed only when it was executed.
LEMMA DoneConcluded ==
    ASSUME Control, DoneInv, Concluded
    PROVE  DoneInv'
<1>1. /\ prog' = prog /\ ran' = ran /\ stage \in {"answered", "failed", "lookup"}
      /\ stage \in Active /\ stage # "done" /\ req \in 1..3
      /\ \A l \in Labels : ran[l] > 0 => ran'[l] > 0
      /\ Executed(pc, Requested)
  BY AskFormed DEF Concluded, Active, DoneInv
<1>2. CASE Continues
  <2>1. stage' = "ready" /\ pc' = pc
    BY <1>2 DEF Continues
  <2>2. CASE stage \in {"answered", "failed"} /\ req' = req + 1
    <3>1. stage = "failed" => err \subseteq Ask.shrug
      BY <1>2, <2>2 DEF Concluded, Continues, Polls, Passed, Over, Ended
    <3>2. Executed(pc, req)
      BY <1>1, <2>2, <3>1, RequestedNext
    <3>3. req' - 1 = req
      BY <1>1, <2>2
    <3>4. Executed(pc, Requested)'
      BY <1>1, <2>1, <3>2, <3>3 DEF Executed, Requested
    <3> QED
      BY <1>1, <2>1, <3>4, DoneGoes
  <2>3. CASE stage = "lookup" /\ req' = 1
    <3>1. Len(prog[pc].reqs) \in 1..3
      BY <1>1, AskFormed DEF Step
    <3>2. \A n \in 1..3 : \A j \in 1..n : ~(j <= 1 - 1)
      OBVIOUS
    <3>3. \A j \in 1..Len(prog[pc].reqs) : ~(j <= 1 - 1)
      BY <3>1, <3>2
    <3>4. Executed(pc, Requested)'
      BY <1>1, <2>1, <2>3, <3>3 DEF Executed, Requested
    <3> QED
      BY <1>1, <2>1, <3>4, DoneGoes
  <2> QED
    BY <1>2, <2>2, <2>3 DEF Continues
<1>3. CASE stage' = "lookup" /\ stage = "failed" /\ UNCHANGED <<req, try, rerun, pc>>
  <2>1. Executed(pc, Requested)'
    BY <1>1, <1>3 DEF Executed, Requested
  <2> QED
    BY <1>1, <1>3, <2>1, DoneGoes
<1>4. CASE Step.do = "wait" /\ Polls
  <2>1. ~MustRun(Step) /\ pc' = pc /\ stage' = "tick"
    BY <1>4 DEF MustRun, Polls
  <2> QED
    BY <1>1, <2>1, DonePassed
<1>5. CASE \/ stage = "answered" /\ req = Len(Step.reqs) /\ Passed(pc + 1)
           \/ stage = "failed" /\ err \subseteq Ask.shrug /\ req = Len(Step.reqs) /\ Passed(pc + 1)
  <2>1. Executed(pc, 3)
    BY <1>1, <1>5, RequestedNext, AllRequests
  <2> QED
    BY <1>1, <1>5, <2>1, DonePassed
<1>6. ASSUME NEW e, e # {}, Over(e)
      PROVE  DoneInv'
  <2>1. CASE LetsPass(e) /\ Passed(pc + Step.jump)
    <3>1. Step.soft # "no" /\ ~MustRun(Step)
      BY <2>1 DEF LetsPass, MustRun
    <3>2. Step.jump \in 1..2 /\ (Step.jump = 2 => Skips(Step))
      BY <1>1, AskFormed, OpFormed DEF Control
    <3>3. Passed(pc + 1) \/ (Passed(pc + 2) /\ Skips(Step))
      BY <2>1, <3>2
    <3> QED
      BY <1>1, <3>1, <3>3, DonePassed
  <2>2. CASE Ended(e)
    <3>1. ~(Passed(pc + 1) \/ Passed(pc + 2))
      BY <1>6, <2>2 DEF Passed, Ended
    <3> QED
      BY <1>1, <1>6, <2>2, <3>1, DonePassed
  <2> QED
    BY <1>4, <1>6, <2>1, <2>2 DEF Over
<1>7. {"other"} # {} /\ LookupError # {} /\ (stage = "failed" => OpError # {})
  BY OpErrorKinds
<1>8. \/ Continues
      \/ stage' = "lookup" /\ stage = "failed" /\ UNCHANGED <<req, try, rerun, pc>>
      \/ Step.do = "wait" /\ Polls
      \/ stage = "answered" /\ req = Len(Step.reqs) /\ Passed(pc + 1)
      \/ stage = "failed" /\ err \subseteq Ask.shrug /\ req = Len(Step.reqs) /\ Passed(pc + 1)
      \/ Over({"other"}) \/ Over(LookupError) \/ (stage = "failed" /\ Over(OpError))
  BY DEF Concluded
<1> QED
  BY <1>2, <1>3, <1>4, <1>5, <1>6, <1>7, <1>8

\* Nothing is behind at first.
LEMMA DoneInit == Init => DoneInv
<1> SUFFICES ASSUME Init PROVE DoneInv
  OBVIOUS
<1>1. pc = 1 /\ stage = "step"
  BY DEF Init
<1>2. ASSUME NEW i \in 1..Len(prog) PROVE ~Behind(i)
  <2>1. Len(prog) \in Nat
    BY ProgramsAssumption DEF Init, Sequenced
  <2> QED
    BY <1>1, <2>1 DEF Behind
<1> QED
  BY <1>1, <1>2 DEF DoneInv, Active

\* An operation that is run in the next state has requests, too.
LEMMA AskNext ==
    Control' /\ stage' \in Active => Step'.do \in Operations /\ Len(Step'.reqs) \in 1..3
<1>1. Control /\ stage \in Active => Step.do \in Operations /\ Len(Step.reqs) \in 1..3
  BY AskFormed
<1>2. (Control /\ stage \in Active => Step.do \in Operations /\ Len(Step.reqs) \in 1..3)'
  BY <1>1, PTL
<1>3. Active' = Active /\ Operations' = Operations
  BY DEF Active, Operations
<1> QED
  BY <1>2, <1>3

\* DoneInv is inductive, given Control.
LEMMA DoneNext ==
    ASSUME Control, DoneInv, Localed \/ Started \/ Attempted \/ Concluded \/ Surrounded
    PROVE  DoneInv'
<1>0. prog' = prog /\ \A l \in Labels : ran[l] > 0 => ran'[l] > 0
  BY WorldAfter, RanGrows
<1>1. CASE Localed
  <2>1. ran' = ran /\ Step.do \notin {"ask", "release"}
    BY <1>1 DEF Localed
  <2>2. \/ Passed(pc + 1)
        \/ Passed(pc + 2) /\ Skips(Step)
        \/ \E e : e # {} /\ Ended(e)
    BY <1>1 DEF Localed
  <2>3. ~MustRun(Step)
    BY <2>1 DEF MustRun
  <2> QED
    BY <1>0, <2>1, <2>2, <2>3, DonePassed
<1>2. CASE Started
  <2>1. CASE stage' = "ready" /\ req' = 1 /\ UNCHANGED pc /\ stage \in {"step", "tick"}
    <3>1. Step'.do \in Operations /\ Len(Step'.reqs) \in 1..3
      <4>1. Control' /\ stage' \in Active
        BY <1>2, <2>1, TypedAfter, StageAfter DEF Control, Active
      <4> QED
        BY <4>1, AskNext
    <3>2. \A n \in 1..3 : \A j \in 1..n : ~(j <= 1 - 1)
      OBVIOUS
    <3>3. \A j \in 1..Len(prog'[pc'].reqs) : ~(j <= 1 - 1)
      BY <3>1, <3>2 DEF Step
    <3>4. Executed(pc, Requested)'
      BY <2>1, <3>3 DEF Executed, Requested
    <3> QED
      BY <1>0, <2>1, <3>4, DoneGoes
  <2>2. CASE Ended({"powertimeout"}) \/ Ended({"canceled"})
    <3>1. PICK e : e # {} /\ Ended(e)
      BY <2>2
    <3>2. ~(Passed(pc + 1) \/ Passed(pc + 2)) /\ ran' = ran
      BY <1>2, <3>1 DEF Passed, Ended, Started
    <3> QED
      BY <1>0, <3>1, <3>2, DonePassed
  <2>3. \/ stage' = "ready" /\ req' = 1 /\ UNCHANGED pc /\ stage \in {"step", "tick"}
        \/ Ended({"powertimeout"}) \/ Ended({"canceled"})
    BY <1>2 DEF Started
  <2> QED
    BY <2>1, <2>2, <2>3
<1>3. CASE Attempted
  BY <1>3, DoneAttempted
<1>4. CASE Concluded
  BY <1>4, DoneConcluded
<1>5. CASE Surrounded
  <2>1. UNCHANGED <<prog, pc, stage, req, err, ran>>
    BY <1>5 DEF Surrounded
  <2> QED
    BY <2>1 DEF DoneInv, Behind, Executed, Requested
<1> QED
  BY <1>1, <1>2, <1>3, <1>4, <1>5

\* The later changes of an operation, after the earlier ones.
Prepares == \E i \in 1..Len(prog), j \in 1..3 : Place(prog, i, j, "prepare")
OrderInv ==
    /\ Prepares /\ ran["set"] > 0 => ran["prepare"] > 0
    /\ ran["treble"] > 0 => ran["bass"] > 0

\* Nothing was executed at first.
LEMMA OrderInit == Init => OrderInv
<1> SUFFICES ASSUME Init PROVE OrderInv
  OBVIOUS
<1>1. ran["set"] = 0 /\ ran["treble"] = 0
  BY DEF Init, Labels
<1> QED
  BY <1>1 DEF OrderInv

\* OrderInv is inductive, given DoneInv: the earlier request of the operation in hand was
\* executed.
LEMMA OrderNext ==
    ASSUME Control, DoneInv, OrderInv, Localed \/ Started \/ Attempted \/ Concluded \/ Surrounded
    PROVE  OrderInv'
<1>0. prog' = prog /\ \A l \in Labels : ran[l] > 0 => ran'[l] > 0
  BY WorldAfter, RanGrows
<1>1. CASE ran' = ran
  BY <1>0, <1>1 DEF OrderInv, Prepares
<1>2. CASE Attempted /\ Execute /\ ran' # ran
  <2>1. stage = "flight" /\ stage \in Active /\ ran \in [Labels -> Nat]
    BY <1>2 DEF Attempted, Active, Control, Typed
  <2>2. /\ Step.do \in Operations /\ pc \in 1..Len(prog) /\ req \in 1..3 /\ req \in 1..Len(Step.reqs)
        /\ Executed(pc, req - 1)
    BY <2>1, AskFormed, StepFormed DEF DoneInv, Requested, Control
  <2>3. /\ Ask.label # "" /\ ran' = [ran EXCEPT ![Ask.label] = @ + 1]
    BY <1>2 DEF Execute
  <2>4. Place(prog, pc, req, Ask.label)
    BY <2>2 DEF Place, Ask, Step
  <2>5. Ordered(prog)
    BY ProgramsAssumption DEF Control, Typed
  <2>6. ASSUME NEW n \in 1..3, n <= req - 1, NEW l \in Labels, Place(prog, pc, n, l)
        PROVE  ran'[l] > 0
    <3>1. l # "" /\ prog[pc].reqs[n].label = l /\ n \in 1..Len(prog[pc].reqs)
      BY <2>6 DEF Place, Labels
    <3>2. ran[l] > 0
      BY <2>2, <2>6, <3>1 DEF Executed
    <3> QED
      BY <1>0, <3>2
  <2>7. {"set", "prepare", "treble", "bass"} \subseteq Labels
    BY DEF Labels
  <2>8. Prepares' /\ ran'["set"] > 0 => ran'["prepare"] > 0
    <3>1. CASE Ask.label = "set"
      <4>1. SUFFICES ASSUME Prepares PROVE ran'["prepare"] > 0
        BY <1>0 DEF Prepares
      <4>2. PICK k \in 1..Len(prog), n \in 1..3 : Place(prog, k, n, "prepare")
        BY <4>1 DEF Prepares
      <4>3. k = pc /\ n < req
        BY <2>2, <2>4, <2>5, <3>1, <4>2 DEF Ordered
      <4>4. n <= req - 1
        BY <2>2, <4>3, Before
      <4> QED
        BY <2>6, <2>7, <4>2, <4>3, <4>4
    <3>2. CASE Ask.label # "set"
      <4>1. ran'["set"] = ran["set"]
        BY <2>1, <2>3, <2>7, <3>2
      <4> QED
        BY <1>0, <2>7, <4>1 DEF OrderInv, Prepares
    <3> QED
      BY <3>1, <3>2
  <2>9. ran'["treble"] > 0 => ran'["bass"] > 0
    <3>1. CASE Ask.label = "treble"
      <4>1. PICK n \in 1..(req - 1) : Place(prog, pc, n, "bass")
        BY <2>2, <2>4, <2>5, <3>1 DEF Ordered
      <4>2. n \in 1..3 /\ n <= req - 1
        BY <2>2, <4>1
      <4> QED
        BY <2>6, <2>7, <4>1, <4>2
    <3>2. CASE Ask.label # "treble"
      <4>1. ran'["treble"] = ran["treble"]
        BY <2>1, <2>3, <2>7, <3>2
      <4> QED
        BY <1>0, <2>7, <4>1 DEF OrderInv
    <3> QED
      BY <3>1, <3>2
  <2> QED
    BY <2>8, <2>9 DEF OrderInv
<1> QED
  BY <1>1, <1>2 DEF Localed, Started, Attempted, Concluded, Surrounded

\* Exit 0 is an end without an error, with every step behind.
LEMMA SuccessFollows == Control /\ DoneInv /\ OrderInv => SuccessMeansDone
<1> SUFFICES ASSUME Control, DoneInv, OrderInv PROVE SuccessMeansDone
  OBVIOUS
<1>1. ASSUME NEW i \in DOMAIN prog, MustRun(prog[i]), Done, exit = 0, NEW r \in Requests(i),
             r.label # ""
      PROVE  ran[r.label] > 0
  <2>1. err = {}
    <3>1. ErrorExitCode(Wrapped(err)) = 0 /\ err \subseteq Errors
      BY <1>1 DEF Control, Typed, StageInv, Done
    <3>2. Wrapped(err) \subseteq Errors
      BY <3>1, Wraps
    <3>3. Wrapped(err) = {}
      BY <3>1, <3>2, Codes
    <3> QED
      BY <3>1, <3>3, Wraps
  <2>2. i \in 1..Len(prog) /\ r.label \in Labels
    BY <1>1, RequestPlaced
  <2>3. Executed(i, 3)
    BY <1>1, <2>1, <2>2 DEF DoneInv, Behind, Done
  <2>4. prog[i].do \in Operations
    BY <1>1 DEF MustRun, Operations
  <2>5. PICK j \in DOMAIN prog[i].reqs : r = prog[i].reqs[j]
    BY <1>1 DEF Requests, MustRun
  <2>6. prog[i].reqs \in Seq(Request)
    <3>1. Sequenced(prog)
      BY ProgramsAssumption DEF Control, Typed
    <3> QED
      BY <2>2, <2>4, <3>1 DEF Sequenced, Formed
  <2>7. j \in 1..Len(prog[i].reqs)
    BY <2>5, <2>6, RequestsOf
  <2>8. j \in 1..3
    BY <2>2, <2>4, <2>7, ReqFormed
  <2>9. \A n \in 1..3 : n <= 3
    OBVIOUS
  <2> QED
    BY <1>1, <2>3, <2>5, <2>7, <2>8, <2>9 DEF Executed
<1>2. Done /\ exit = 0 =>
         \A i \in DOMAIN prog :
            prog[i].do = "ask" /\ prog[i].soft = "no" =>
                \A r \in Requests(i) : r.label # "" => ran[r.label] > 0
  BY <1>1 DEF MustRun
<1>3. ASSUME Done, exit = 0, Does("release") PROVE ran["end"] > 0
  <2>1. PICK i \in DOMAIN prog : prog[i].do = "release"
    BY <1>3 DEF Does
  <2>2. Sequenced(prog) /\ Seeks(prog)
    BY ProgramsAssumption DEF Control, Typed
  <2>3. i \in 1..Len(prog)
    BY <2>1, <2>2 DEF Sequenced
  <2>4. i = 4 /\ prog[4].soft = "no" /\ Len(prog[4].reqs) = 1 /\ prog[4].reqs[1].label = "end"
    BY <2>1, <2>2, <2>3 DEF Seeks
  <2>5. MustRun(prog[i])
    BY <2>1, <2>4 DEF MustRun
  <2>6. prog[i].reqs[1] \in Requests(i)
    <3>1. prog[i].reqs \in Seq(Request)
      BY <2>1, <2>2, <2>3 DEF Sequenced, Formed, Operations
    <3>2. 1 \in DOMAIN prog[i].reqs
      BY <2>4, <3>1, RequestsOf
    <3> QED
      BY <2>1, <3>2 DEF Requests
  <2> QED
    BY <1>1, <1>3, <2>4, <2>5, <2>6
<1>4. (\E i \in DOMAIN prog : Put("prepare") \in Requests(i)) => Prepares
  <2>1. SUFFICES ASSUME NEW i \in DOMAIN prog, Put("prepare") \in Requests(i) PROVE Prepares
    OBVIOUS
  <2>2. Put("prepare").label = "prepare"
    BY DEF Put, Get
  <2> QED
    BY <2>1, <2>2, RequestPlaced DEF Prepares
<1> QED
  BY <1>2, <1>3, <1>4 DEF SuccessMeansDone, OrderInv

\* Exit 0 means that every change was executed, whatever was lost, retried or looked
\* up, and a later change of an operation means its earlier ones: a step that must
\* succeed is passed only when its last request was answered.
THEOREM SuccessIsDone == Spec => []SuccessMeansDone
<1>1. Init => Control /\ DoneInv /\ OrderInv
  BY ControlInit, DoneInit, OrderInit
<1>2. Control /\ DoneInv /\ OrderInv /\ [Next]_vars => (Control /\ DoneInv /\ OrderInv)'
  BY ControlNext, DoneNext, OrderNext, StepKinds
<1> QED
  BY <1>1, <1>2, SuccessFollows, PTL DEF Spec

-----------------------------------------------------------------------------
(* Toggles that are computed here.                                         *)

\* The program writes the opposite of what it reads.
Inverting == \E i \in 1..Len(prog), j \in 1..3 : Inverts(prog, i, j)

\* Once the write of a toggle was executed the switch is the opposite of what was
\* read: the read is over by then.
ToggleInv ==
    Inverting => switch # "booting" /\ (ran["set"] > 0 => switch = NextOf[seen])

\* No toggle has been written at first.
LEMMA ToggleInit == Init => ToggleInv
<1> SUFFICES ASSUME Init PROVE ToggleInv
  OBVIOUS
<1>1. ran["set"] = 0
  BY DEF Init, Labels
<1>2. switch \in {"off", "on"}
  BY DEF Init
<1> QED
  BY <1>1, <1>2 DEF ToggleInv

\* What an attempt does to the switch of a toggle.
LEMMA ToggleAttempted ==
    ASSUME Control, RanInv, ToggleInv, Attempted, Inverting
    PROVE  switch' # "booting" /\ (ran'["set"] > 0 => switch' = NextOf[seen'])
<1>1. PICK i \in 1..Len(prog), j \in 1..3 : Inverts(prog, i, j)
  BY DEF Inverting
<1>2. Toggles(prog) /\ EachOnce(prog)
  BY ProgramsAssumption DEF Control, Typed
<1>3. /\ prog[i].do = "ask" /\ prog[i].reqs[j].label = "set" /\ prog[i].reqs[j].to = "inverse"
      /\ Place(prog, i, j, "set")
  BY <1>1, <1>2 DEF Toggles, Inverts, Place
<1>4. /\ stage \in Active /\ pc \in 1..Len(prog) /\ req \in 1..3 /\ req \in 1..Len(Step.reqs)
      /\ Step.do \in Operations /\ Step = prog[pc] /\ Ask = prog[pc].reqs[req]
  <2>2. stage \in Active
    BY DEF Attempted, Active
  <2>1. Step = prog[pc] /\ Ask = prog[pc].reqs[req]
    BY DEF Step, Ask
  <2> QED
    BY <2>1, <2>2, AskFormed, StepFormed DEF Control
<1>5. /\ Ask.to \in {"none", "look", "probe", "inverse"}
      /\ Ask.to = "look" => pc < i \/ (pc = i /\ req < j /\ ~prog[i].again)
  BY <1>1, <1>2, <1>4 DEF Toggles
<1>6. /\ switch # "booting" /\ (ran["set"] > 0 => switch = NextOf[seen])
      /\ ran \in [Labels -> Nat] /\ switch \in Switches /\ seen \in Switches /\ "set" \in Labels
  BY DEF ToggleInv, Control, Typed, Labels
<1>7. Ask.label = "set" => Ask.to = "inverse"
  <2>1. SUFFICES ASSUME Ask.label = "set" PROVE Ask.to = "inverse"
    OBVIOUS
  <2>2. Place(prog, pc, req, "set")
    BY <1>4, <2>1 DEF Place
  <2>3. pc = i /\ req = j
    BY <1>2, <1>3, <1>4, <1>6, <2>2 DEF EachOnce
  <2> QED
    BY <1>3, <1>4, <2>3
<1>8. CASE UNCHANGED <<ran, switch, seen>>
  BY <1>6, <1>8
<1>9. CASE Execute /\ Ask.to = "inverse"
  <2>1. switch' = NextOf[seen] /\ seen' = seen
    BY <1>4, <1>9 DEF Execute, Effect, Attempted
  <2>2. NextOf[seen] # "booting"
    BY <1>6, Opposites DEF Switches
  <2> QED
    BY <2>1, <2>2
<1>10. CASE Execute /\ Ask.to # "inverse"
  <2>1. switch' = switch
    BY <1>5, <1>10 DEF Execute, Effect
  <2>2. ran'["set"] = ran["set"]
    BY <1>6, <1>7, <1>10 DEF Execute
  <2>3. CASE Ask.to # "look"
    <3>1. seen' = seen
      BY <2>3 DEF Attempted
    <3> QED
      BY <1>6, <2>1, <2>2, <3>1
  <2>4. CASE Ask.to = "look"
    <3>1. Sent(i, j) = 0
      <4>1. pc \in Nat /\ i \in Nat
        BY <1>4
      <4>2. CASE pc < i
        BY <4>1, <4>2 DEF Sent
      <4>3. CASE pc = i /\ req < j /\ ~prog[i].again
        <5>1. ~rerun
          BY <1>4, <4>3 DEF Control, StageInv
        <5>2. InHand(j) = 0
          BY <1>4, <4>3, <5>1 DEF InHand
        <5> QED
          BY <1>4, <4>1, <4>3, <5>2 DEF Sent, Active
      <4> QED
        BY <1>5, <2>4, <4>2, <4>3
    <3>2. ran["set"] = 0
      <4>1. ran["set"] = 0 \/ ran["set"] <= Sent(i, j)
        BY <1>3, <1>6, RanAtMost
      <4> QED
        BY <1>6, <3>1, <4>1
    <3> QED
      BY <1>6, <2>1, <2>2, <3>2
  <2> QED
    BY <2>3, <2>4
<1> QED
  BY <1>8, <1>9, <1>10 DEF Attempted

\* ToggleInv is inductive, given the counts: a switch is not read after its write.
LEMMA ToggleNext ==
    ASSUME Control, RanInv, ToggleInv, Localed \/ Started \/ Attempted \/ Concluded \/ Surrounded
    PROVE  ToggleInv'
<1>1. prog' = prog
  BY WorldAfter
<1> SUFFICES ASSUME Inverting
             PROVE  switch' # "booting" /\ (ran'["set"] > 0 => switch' = NextOf[seen'])
  BY <1>1 DEF ToggleInv, Inverting
<1>2. CASE Attempted
  BY <1>2, ToggleAttempted
<1>3. CASE UNCHANGED <<ran, seen>> /\ (switch' = switch \/ switch = "booting")
  BY <1>3 DEF ToggleInv
<1> QED
  BY <1>2, <1>3 DEF Localed, Started, Concluded, Surrounded

\* A toggle that succeeded was written.
LEMMA ToggleFollows == Control /\ DoneInv /\ ToggleInv => ToggleMeansOther
<1> SUFFICES ASSUME Control, DoneInv, ToggleInv, Done, exit = 0,
                    NEW i \in DOMAIN prog, Turn("inverse") \in Requests(i)
             PROVE  switch = NextOf[seen]
  BY DEF ToggleMeansOther
<1>1. Turn("inverse").label = "set" /\ Turn("inverse").to = "inverse"
  BY DEF Turn, Put, Get
<1>2. i \in 1..Len(prog)
  BY <1>1, RequestPlaced
<1>3. /\ prog[i].do \in Operations
      /\ \E j \in DOMAIN prog[i].reqs : Turn("inverse") = prog[i].reqs[j]
  BY DEF Requests, Operations
<1>4. Sequenced(prog) /\ Toggles(prog)
  BY ProgramsAssumption DEF Control, Typed
<1>5. prog[i].reqs \in Seq(Request)
  BY <1>2, <1>3, <1>4 DEF Sequenced, Formed
<1>6. PICK j \in 1..Len(prog[i].reqs) : Turn("inverse") = prog[i].reqs[j]
  BY <1>3, <1>5, RequestsOf
<1>7. j \in 1..3 /\ Inverts(prog, i, j)
  BY <1>1, <1>2, <1>3, <1>6, ReqFormed DEF Inverts
<1>8. prog[i].do = "ask" /\ prog[i].soft = "no"
  BY <1>2, <1>4, <1>7 DEF Toggles
<1>9. err = {}
  <2>1. ErrorExitCode(Wrapped(err)) = 0 /\ err \subseteq Errors
    BY DEF Control, Typed, StageInv, Done
  <2>2. Wrapped(err) = {}
    BY <2>1, Wraps, Codes
  <2> QED
    BY <2>1, <2>2, Wraps
<1>10. ran["set"] > 0
  <2>1. Executed(i, 3)
    BY <1>2, <1>8, <1>9 DEF DoneInv, Behind, Done, MustRun
  <2>2. j <= 3
    BY <1>7
  <2> QED
    BY <1>1, <1>6, <2>1, <2>2 DEF Executed
<1> QED
  BY <1>2, <1>7, <1>10 DEF ToggleInv, Inverting

\* A toggle that reads and then writes ends with the opposite of what it read,
\* however often the write was sent: only the reading comes before it, and it is not
\* read again (yxc mute, ynca power and mute).
THEOREM TogglesOnce == Spec => []ToggleMeansOther
<1>1. Init => Control /\ RanInv /\ DoneInv /\ ToggleInv
  BY ControlInit, RanInit, DoneInit, ToggleInit
<1>2. Control /\ RanInv /\ DoneInv /\ ToggleInv /\ [Next]_vars
      => (Control /\ RanInv /\ DoneInv /\ ToggleInv)'
  BY ControlNext, RanNext, DoneNext, ToggleNext, StepKinds
<1> QED
  BY <1>1, <1>2, ToggleFollows, PTL DEF Spec

-----------------------------------------------------------------------------
(* Ctrl-C.                                                                 *)

\* Where it came, and what it leaves of a call it came in: the call's context is
\* done, so that no later attempt, lookup or poll ends as a receiver that is gone.
StruckInv ==
    IF cancelled THEN struck \in 1..pc /\ hit # "none" ELSE struck = 0 /\ hit = "none"
InCall == hit = "call" /\ prog[struck].soft = "no"
CancelInv ==
    /\ StruckInv
    /\ hit = "call" => prog[struck].do \in Operations
    /\ hit = "call" /\ struck = pc => stage # "step"
    /\ InCall => ~detached
    /\ InCall /\ stage \in {"failed", "done"} => err \cap Gone = {}

\* No signal came at first.
LEMMA CancelInit == Init => CancelInv
<1> SUFFICES ASSUME Init PROVE CancelInv
  OBVIOUS
<1>1. ~cancelled /\ struck = 0 /\ hit = "none"
  BY DEF Init
<1> QED
  BY <1>1 DEF CancelInv, StruckInv, InCall

\* No step goes back.
LEMMA PcGrows ==
    ASSUME Control, Localed \/ Started \/ Attempted \/ Concluded \/ Surrounded
    PROVE  /\ pc' = pc \/ (pc < pc' /\ stage' = "step")
           /\ pc \in Nat /\ pc' \in Nat
<1> DEFINE Grown == pc' = pc \/ (pc < pc' /\ stage' = "step")
<1>1. pc \in Nat /\ pc + 1 > pc /\ pc + 2 > pc /\ pc' \in Nat
  <2>1. OpTyped' /\ prog' = prog
    BY OpAfter, WorldAfter
  <2>2. Len(prog) \in Nat /\ pc \in 1..Len(prog) /\ pc' \in 1..Len(prog)
    BY <2>1, StepFormed DEF OpTyped, Control
  <2> QED
    BY <2>2
<1>2. Passed(pc + 1) \/ Passed(pc + 2) => Grown
  BY <1>1 DEF Passed, Ended
<1>0. pc' = pc => Grown
  OBVIOUS
<1> SUFFICES Grown
  BY <1>1
<1> HIDE DEF Grown
<1>3. CASE Localed
  <2>1. Passed(pc + 1) \/ Passed(pc + 2) \/ pc' = pc
    BY <1>3 DEF Localed, Ended
  <2> QED
    BY <1>0, <1>2, <2>1
<1>4. CASE Started
  <2>1. pc' = pc
    BY <1>4 DEF Started, Ended
  <2> QED
    BY <1>0, <2>1
<1>5. CASE Attempted
  <2>1. pc' = pc
    BY <1>5 DEF Attempted
  <2> QED
    BY <1>0, <2>1
<1>6. CASE Concluded
  <2>1. Step.jump \in 1..2
    BY <1>6, AskFormed, OpFormed DEF Concluded, Active, Control
  <2>2. ASSUME NEW e, Over(e) PROVE Grown
    <3>1. pc + Step.jump \in {pc + 1, pc + 2}
      BY <2>1
    <3> QED
      BY <1>0, <1>2, <2>2, <3>1 DEF Over, Polls, Ended
  <2>3. \/ Continues \/ Passed(pc + 1) \/ Polls \/ Over({"other"}) \/ Over(OpError) \/ Over(LookupError)
        \/ UNCHANGED pc
    BY <1>6 DEF Concluded
  <2> QED
    <3>1. Continues \/ Polls => pc' = pc
      BY DEF Continues, Polls
    <3> QED
      BY <1>0, <1>2, <2>2, <2>3, <3>1
<1>7. CASE Surrounded
  <2>1. pc' = pc
    BY <1>7 DEF Surrounded
  <2> QED
    BY <1>0, <2>1
<1> QED
  BY <1>3, <1>4, <1>5, <1>6, <1>7

\* A step that is left is not entered again.
LEMMA BackToStep ==
    ASSUME Control, Localed \/ Started \/ Attempted \/ Concluded \/ Surrounded,
           pc' = pc, stage # "step"
    PROVE  stage' # "step"
<1>1. pc \in Nat /\ pc + 1 # pc /\ pc + 2 # pc
  BY StepFormed DEF Control
<1>2. ~(stage' = "step" /\ (Passed(pc + 1) \/ Passed(pc + 2)))
  BY <1>1 DEF Passed, Ended
<1>3. CASE Concluded
  <2>1. Step.jump \in 1..2
    BY <1>3, AskFormed, OpFormed DEF Concluded, Active, Control
  <2>2. pc + Step.jump \in {pc + 1, pc + 2}
    BY <2>1
  <2>3. ASSUME NEW e, Over(e) PROVE stage' # "step"
    BY <1>2, <2>2, <2>3 DEF Over, Polls, Ended
  <2>4. \/ Continues \/ Passed(pc + 1) \/ Polls \/ Over({"other"}) \/ Over(OpError) \/ Over(LookupError)
        \/ stage' = "lookup"
    BY <1>3 DEF Concluded
  <2> QED
    BY <1>2, <2>3, <2>4 DEF Continues, Polls
<1>4. CASE Started
  BY <1>4 DEF Started, Ended
<1> QED
  BY <1>3, <1>4 DEF Localed, Attempted, Surrounded

\* A step that leaves Ctrl-C alone.
LEMMA CancelKept ==
    ASSUME Control, CancelInv, Localed \/ Started \/ Attempted \/ Concluded \/ Surrounded,
           UNCHANGED <<cancelled, struck, hit>>,
           InCall => ~detached',
           InCall /\ stage' \in {"failed", "done"} => err' \cap Gone = {}
    PROVE  CancelInv'
<1>1. prog' = prog /\ (pc' = pc \/ (pc < pc' /\ stage' = "step")) /\ pc \in Nat /\ pc' \in Nat
  BY WorldAfter, PcGrows
<1>2. StruckInv'
  <2>1. cancelled => struck \in 1..pc /\ struck \in 1..pc'
    BY <1>1 DEF CancelInv, StruckInv
  <2> QED
    BY <2>1 DEF CancelInv, StruckInv
<1>3. hit' = "call" => prog'[struck'].do \in Operations
  BY <1>1 DEF CancelInv
<1>4. hit' = "call" /\ struck' = pc' => stage' # "step"
  <2>1. SUFFICES ASSUME hit = "call", struck = pc', stage' = "step" PROVE FALSE
    OBVIOUS
  <2>2. struck \in 1..pc
    BY <2>1 DEF CancelInv, StruckInv
  <2>3. pc' = pc /\ stage # "step"
    BY <1>1, <2>1, <2>2 DEF CancelInv
  <2> QED
    BY <2>1, <2>3, BackToStep
<1>5. InCall' <=> InCall
  BY <1>1 DEF InCall
<1> QED
  BY <1>2, <1>3, <1>4, <1>5 DEF CancelInv

\* CancelInv is inductive, given Control.
LEMMA CancelNext ==
    ASSUME Control, CancelInv, Localed \/ Started \/ Attempted \/ Concluded \/ Surrounded
    PROVE  CancelInv'
<1>1. InCall => /\ cancelled /\ struck \in 1..pc /\ ~detached /\ CtxDone
                /\ prog[struck].do \in Operations /\ prog[struck].soft = "no"
  BY DEF InCall, CancelInv, StruckInv, CtxDone
<1>2. CASE Localed
  <2>1. InCall => Step.do # "setup"
    <3>1. Step.do = "setup" => pc = 1
      BY StepFormed DEF Control
    <3>2. Step.do = "setup" /\ InCall => struck = 1
      BY <1>1, <3>1
    <3> QED
      BY <1>1, <3>1, <3>2 DEF Step, Operations
  <2>2. ASSUME InCall, stage' \in {"failed", "done"} PROVE err' \cap Gone = {}
    <3>1. Passed(pc + 1) \/ Passed(pc + 2) => err' = {}
      BY DEF Passed, Ended
    <3>2. CASE \E e \in SUBSET Errors : Excused(e) /\ Ended(e)
      BY <2>1, <2>2, <3>2 DEF Excused, Ended
    <3> QED
      BY <1>2, <3>1, <3>2 DEF Localed
  <2>3. UNCHANGED <<cancelled, struck, hit, detached>>
    BY <1>2 DEF Localed
  <2> QED
    BY <1>1, <1>2, <2>2, <2>3, CancelKept
<1>3. CASE Started
  <2>1. UNCHANGED <<cancelled, struck, hit>>
    BY <1>3 DEF Started
  <2>2. stage' \in {"failed", "done"} => err' \cap Gone = {}
    BY <1>3 DEF Started, Ended, Gone
  <2>3. ASSUME InCall PROVE ~detached'
    <3>1. CASE detached' = detached
      BY <1>1, <2>3, <3>1
    <3>2. CASE stage = "step" /\ detached' = Detaches
      <4>1. SUFFICES ASSUME Step.do = "release" PROVE FALSE
        BY <3>2 DEF Detaches
      <4>2. pc \in 1..Len(prog) /\ Sequenced(prog) /\ Seeks(prog)
        BY ProgramsAssumption, StepFormed DEF Control, Typed
      <4>3. /\ pc = 4 /\ prog[1].do = "setup" /\ prog[2].soft = "cancelled" /\ prog[3].do = "hold"
        BY <4>1, <4>2 DEF Seeks, Step
      <4>4. struck # pc
        BY <2>3, <3>2 DEF CancelInv, InCall
      <4>5. struck \in {1, 2, 3}
        BY <1>1, <2>3, <4>3, <4>4
      <4> QED
        BY <1>1, <2>3, <4>3, <4>5 DEF Operations
    <3> QED
      BY <1>3, <3>1, <3>2 DEF Started
  <2> QED
    BY <1>3, <2>1, <2>2, <2>3, CancelKept
<1>4. CASE Attempted
  <2>1. UNCHANGED <<cancelled, struck, hit, detached>>
    BY <1>4 DEF Attempted
  <2>2. ASSUME InCall, stage' \in {"failed", "done"} PROVE err' \cap Gone = {}
    <3>1. err' = {"canceled"} \/ (err' \subseteq OpErrors /\ "transport" \notin err')
      BY <1>1, <1>4, <2>2 DEF Attempted
    <3> QED
      BY <3>1 DEF OpErrors, Gone
  <2> QED
    BY <1>1, <1>4, <2>1, <2>2, CancelKept
<1>5. CASE Concluded
  <2>1. UNCHANGED <<cancelled, struck, hit, detached>>
    BY <1>5 DEF Concluded
  <2>2. ASSUME InCall, stage' = "done" PROVE err' \cap Gone = {}
    <3>1. err' = {} \/ err' = {"other"} \/ (stage = "failed" /\ err' = OpError) \/ err' = LookupError
      BY <1>5, <2>2, ConcludedEnds
    <3>2. CASE stage = "failed" /\ err' = OpError
      <4>1. err \cap Gone = {}
        BY <2>2, <3>2 DEF CancelInv
      <4> QED
        BY <3>2, <4>1, OpErrorKinds DEF Gone
    <3>3. CASE err' = LookupError
      BY <1>1, <2>2, <3>3, OpErrorKinds DEF Gone
    <3> QED
      BY <3>1, <3>2, <3>3 DEF Gone
  <2>3. stage' # "failed"
    <3>1. \A e : Over(e) => stage' # "failed"
      BY DEF Over, Passed, Polls, Ended
    <3> QED
      BY <1>5, <3>1 DEF Concluded, Continues, Passed, Polls, Ended
  <2> QED
    BY <1>1, <1>5, <2>1, <2>2, <2>3, CancelKept
<1>6. CASE Surrounded
  <2>1. UNCHANGED <<prog, pc, stage, err, detached>>
    BY <1>6 DEF Surrounded
  <2>2. CASE UNCHANGED <<cancelled, struck, hit>>
    BY <1>1, <1>6, <2>1, <2>2, CancelKept DEF CancelInv
  <2>3. CASE /\ ~cancelled /\ cancelled' = TRUE /\ struck' = pc
             /\ hit' \in {"before", "call", "between"}
             /\ hit' = "call" => stage \in {"flight", "backoff", "lookup"}
    <3>1. StruckInv'
      BY <2>1, <2>3, StepFormed DEF StruckInv, Control
    <3>2. hit' = "call" => Step.do \in Operations /\ stage \notin {"step", "failed", "done"}
      <4>1. hit' = "call" => stage \in Active
        BY <2>3 DEF Active
      <4> QED
        BY <2>3, <4>1, AskFormed
    <3>3. ~detached
      BY <2>3 DEF Control, StageInv
    <3>4. /\ hit' = "call" => prog'[struck'].do \in Operations
          /\ hit' = "call" /\ struck' = pc' => stage' # "step"
      BY <2>1, <2>3, <3>2 DEF Step
    <3>5. /\ InCall' => ~detached'
          /\ InCall' /\ stage' \in {"failed", "done"} => err' \cap Gone = {}
      BY <2>1, <3>2, <3>3 DEF InCall
    <3> QED
      BY <3>1, <3>4, <3>5 DEF CancelInv
  <2> QED
    BY <1>6, <2>2, <2>3 DEF Surrounded
<1> QED
  BY <1>2, <1>3, <1>4, <1>5, <1>6

\* The exit code of a receiver that is gone has an error that says so.
LEMMA CancelFollows == Control /\ CancelInv => CancelWins
<1> SUFFICES ASSUME Control, CancelInv, Done, hit = "call", prog[struck].soft = "no"
             PROVE  exit # 69
  BY DEF CancelWins
<1>1. err \cap Gone = {} /\ err \subseteq Errors /\ exit = ErrorExitCode(Wrapped(err))
  BY DEF CancelInv, InCall, Done, Control, Typed, StageInv
<1>2. Wrapped(err) \cap Gone = {} /\ Wrapped(err) \subseteq Errors
  BY <1>1, Wraps
<1> QED
  BY <1>1, <1>2, Codes

\* Ctrl-C in a call whose error is not let pass is never reported as a receiver that
\* is not there, whatever the call and the lookup after it come to.
THEOREM CancellationWins == Spec => []CancelWins
<1>1. Init => Control /\ CancelInv
  BY ControlInit, CancelInit
<1>2. Control /\ CancelInv /\ [Next]_vars => (Control /\ CancelInv)'
  BY ControlNext, CancelNext, StepKinds
<1> QED
  BY <1>1, <1>2, CancelFollows, PTL DEF Spec

-----------------------------------------------------------------------------
(* A fast seek.                                                            *)

\* What may leave a receiver seeking.
Disturbed == \/ lossy \/ faults > 0
             \/ struck > 0 /\ prog[struck].do = "release" /\ hit # "before"

\* The start fails only for Ctrl-C, which is let pass; the end is sent under a
\* context of its own then; and the receiver seeks only in between.
SeekInv ==
    /\ switch # "booting"
    /\ pc = 1 => stage \in {"step", "done"} /\ switch = "off"
    /\ pc = 2 => stage \in {"step", "ready", "flight", "answered", "failed"}
    /\ pc = 2 /\ stage = "failed" => err = {"canceled"} /\ cancelled
    /\ pc < 4 => ~detached
    /\ pc = 3 => stage = "step"
    /\ pc = 4 => stage \in {"step", "ready", "flight", "answered"}
    /\ pc = 4 /\ stage # "step" => (cancelled => detached)
    /\ pc = 4 /\ stage = "answered" => switch = "off"
    /\ pc = 5 => switch = "off"
Sought == Does("release") /\ ~Disturbed => SeekInv

\* The receiver does not seek at first.
LEMMA SeekInit == Init => Sought
<1> SUFFICES ASSUME Init, Does("release") PROVE SeekInv
  BY DEF Sought
<1>1. pc = 1 /\ stage = "step" /\ ~detached
  BY DEF Init
<1>2. switch = "off"
  BY DEF Init, Does
<1> QED
  BY <1>1, <1>2 DEF SeekInv

\* The program of a seek.
LEMMA SeekProgram ==
    ASSUME Control, Does("release")
    PROVE  /\ Len(prog) = 5 /\ pc \in 1..5
           /\ pc = 1 => Step.do = "setup"
           /\ pc = 2 => /\ Step.do = "ask" /\ Step.soft = "cancelled" /\ Len(Step.reqs) = 1
                        /\ Step.jump = 1 /\ Step.reqs[1].to = "on" /\ Step.reqs[1].shrug = {}
           /\ pc = 3 => Step.do = "hold"
           /\ pc = 4 => /\ Step.do = "release" /\ Step.soft = "no" /\ Len(Step.reqs) = 1
                        /\ Step.reqs[1].to = "off" /\ Step.reqs[1].shrug = {}
           /\ pc = 5 => Step.do = "show"
           /\ Step.do \in Operations => pc \in {2, 4}
<1>1. Sequenced(prog) /\ Seeks(prog)
  BY ProgramsAssumption DEF Control, Typed
<1>2. PICK i \in 1..Len(prog) : prog[i].do = "release"
  BY <1>1 DEF Does, Sequenced
<1>3. /\ i = 4 /\ Len(prog) = 5
      /\ prog[1].do = "setup"
      /\ prog[2].do = "ask" /\ prog[2].soft = "cancelled" /\ Len(prog[2].reqs) = 1
      /\ prog[2].jump = 1 /\ prog[2].reqs[1].to = "on" /\ prog[2].reqs[1].shrug = {}
      /\ prog[3].do = "hold"
      /\ prog[4].soft = "no" /\ Len(prog[4].reqs) = 1
      /\ prog[4].reqs[1].to = "off" /\ prog[4].reqs[1].shrug = {}
      /\ prog[5].do = "show"
  BY <1>1, <1>2 DEF Seeks
<1>4. pc \in 1..5
  BY <1>3, StepFormed DEF Control
<1>5. pc \in {1, 2, 3, 4, 5}
  BY <1>4
<1>6. Step.do \in Operations => pc \in {2, 4}
  BY <1>3, <1>5 DEF Operations, Step
<1> QED
  BY <1>2, <1>3, <1>4, <1>6 DEF Step

\* What was undisturbed was so before.
LEMMA DisturbedStays ==
    ASSUME Control, CancelInv, Localed \/ Started \/ Attempted \/ Concluded \/ Surrounded, Disturbed
    PROVE  Disturbed'
<1>1. prog' = prog
  BY WorldAfter
<1>2. CASE lossy
  BY <1>2 DEF Disturbed, Localed, Started, Attempted, Concluded, Surrounded
<1>3. CASE faults > 0
  <2>1. faults \in Nat /\ MaxFaults \in Nat
    BY RunAssumption DEF Control, Typed
  <2>2. faults' \in faults..MaxFaults \/ faults' = faults
    BY DEF Localed, Started, Attempted, Concluded, Surrounded
  <2> QED
    BY <1>3, <2>1, <2>2 DEF Disturbed
<1>4. CASE struck > 0 /\ prog[struck].do = "release" /\ hit # "before"
  <2>1. cancelled
    BY <1>4 DEF CancelInv, StruckInv
  <2>2. UNCHANGED <<struck, hit>>
    BY <2>1 DEF Localed, Started, Attempted, Concluded, Surrounded
  <2> QED
    BY <1>1, <1>4, <2>2 DEF Disturbed
<1> QED
  BY <1>2, <1>3, <1>4 DEF Disturbed

\* The one request of a seek that is in hand.
LEMMA SeekAsk ==
    ASSUME Control, Does("release"), stage \in Active
    PROVE  /\ pc \in {2, 4} /\ req = 1 /\ Len(Step.reqs) = 1
           /\ Ask.shrug = {} /\ Ask.to = (IF pc = 2 THEN "on" ELSE "off")
           /\ Step.do \notin {"wait", "fetch"}
<1>1. Step.do \in Operations /\ req \in 1..Len(Step.reqs)
  BY AskFormed
<1>2. pc \in {2, 4} /\ Len(Step.reqs) = 1
  BY <1>1, SeekProgram
<1>3. req = 1
  BY <1>1, <1>2
<1>4. Step.do \notin {"wait", "fetch"}
  BY <1>2, SeekProgram
<1>5. Ask.shrug = {} /\ Ask.to = (IF pc = 2 THEN "on" ELSE "off")
  BY <1>2, <1>3, SeekProgram DEF Ask
<1> QED
  BY <1>2, <1>3, <1>4, <1>5

\* SeekInv is kept by the set-up, the bracket and the output,
LEMMA SeekLocal ==
    ASSUME Control, SeekInv, Does("release"), Localed
    PROVE  SeekInv'
<1>1. /\ stage = "step" /\ Step.do \notin {"ask", "release"}
      /\ UNCHANGED <<prog, detached, cancelled, switch>>
  BY DEF Localed
<1>2. pc \in {1, 3, 5} /\ Len(prog) = 5 /\ ~Skips(Step)
  <2>1. pc \in 1..5 /\ pc \notin {2, 4} /\ Len(prog) = 5
    BY <1>1, SeekProgram
  <2>2. Step.do \in {"setup", "hold", "show"}
    BY <2>1, SeekProgram
  <2> QED
    BY <2>1, <2>2 DEF Skips, Operations
<1>3. Passed(pc + 1) \/ \E e : Excused(e) /\ Ended(e)
  BY <1>2 DEF Localed
<1>4. CASE pc = 1
  <2>1. pc' \in {1, 2} /\ (pc' = 1 => stage' = "done") /\ (pc' = 2 => stage' = "step")
    BY <1>2, <1>3, <1>4 DEF Passed, Ended
  <2> QED
    BY <1>1, <1>4, <2>1 DEF SeekInv
<1>5. CASE pc = 3
  <2>1. \A e : ~Excused(e)
    BY <1>5, SeekProgram DEF Excused
  <2>2. pc' = 4 /\ stage' = "step"
    BY <1>2, <1>3, <1>5, <2>1 DEF Passed
  <2> QED
    BY <1>1, <1>5, <2>2 DEF SeekInv
<1>6. CASE pc = 5
  <2>1. pc' = 5
    BY <1>2, <1>3, <1>6 DEF Passed, Ended
  <2> QED
    BY <1>1, <1>6, <2>1 DEF SeekInv
<1> QED
  BY <1>2, <1>4, <1>5, <1>6

\* by the start of an operation,
LEMMA SeekStarted ==
    ASSUME Control, SeekInv, Does("release"), Started
    PROVE  SeekInv'
<1>1. stage # "tick"
  <2>1. Step.do # "wait"
    BY SeekProgram DEF Operations
  <2> QED
    BY <2>1 DEF Control, StageInv
<1>2. /\ UNCHANGED <<pc, cancelled, switch>> /\ stage' = "ready" /\ Step.do \in Operations
      /\ detached' = Detaches
  BY <1>1 DEF Started
<1>3. pc \in {2, 4} /\ (pc = 2 => Step.do = "ask") /\ (pc = 4 => Step.do = "release")
  BY <1>2, SeekProgram
<1>4. CASE pc = 2
  <2>1. ~detached'
    BY <1>2, <1>3, <1>4 DEF Detaches
  <2> QED
    BY <1>2, <1>4, <2>1 DEF SeekInv
<1>5. CASE pc = 4
  <2>1. cancelled => detached'
    BY <1>2, <1>3, <1>5 DEF Detaches
  <2> QED
    BY <1>2, <1>5, <2>1 DEF SeekInv
<1> QED
  BY <1>3, <1>4, <1>5

\* by an attempt that nothing disturbs,
LEMMA SeekAttempted ==
    ASSUME Control, SeekInv, Does("release"), Attempted, ~lossy', ~(faults' > 0)
    PROVE  SeekInv'
<1>1. /\ stage \in Active /\ stage \in {"ready", "flight", "backoff"}
      /\ UNCHANGED <<pc, detached, cancelled>> /\ ~lossy
  BY DEF Attempted, Active
<1>2. pc \in {2, 4} /\ Ask.to = (IF pc = 2 THEN "on" ELSE "off") /\ switch # "booting"
  BY <1>1, SeekAsk DEF SeekInv
<1>3. Execute => switch' = Ask.to
  BY <1>2 DEF Execute, Effect
<1>4. \/ stage' = "flight" /\ switch' = switch
      \/ stage' = "answered" /\ switch' = Ask.to
      \/ stage' = "failed" /\ err' = {"canceled"} /\ CtxDone /\ switch' \in {switch, Ask.to}
  <2>1. stage # "backoff"
    BY <1>1 DEF Control, StageInv
  <2> QED
    BY <1>1, <1>3, <2>1 DEF Attempted
<1>5. CASE pc = 2
  <2>1. switch' # "booting" /\ stage' \in {"flight", "answered", "failed"} /\ ~detached'
    BY <1>1, <1>2, <1>4, <1>5 DEF SeekInv
  <2>2. stage' = "failed" => err' = {"canceled"} /\ cancelled'
    BY <1>1, <1>4 DEF CtxDone
  <2> QED
    BY <1>1, <1>5, <2>1, <2>2 DEF SeekInv
<1>6. CASE pc = 4
  <2>1. (cancelled => detached) /\ ~CtxDone
    BY <1>1, <1>6 DEF SeekInv, CtxDone
  <2>2. /\ stage' \in {"flight", "answered"} /\ switch' # "booting"
        /\ stage' = "answered" => switch' = "off"
    BY <1>2, <1>4, <1>6, <2>1
  <2> QED
    BY <1>1, <1>6, <2>1, <2>2 DEF SeekInv
<1> QED
  BY <1>2, <1>5, <1>6

\* by the end of an operation,
LEMMA SeekConcluded ==
    ASSUME Control, SeekInv, Does("release"), Concluded
    PROVE  SeekInv'
<1>1. /\ stage \in Active /\ stage \in {"answered", "failed", "lookup"}
      /\ UNCHANGED <<detached, cancelled, switch>>
  BY DEF Concluded, Active
<1>2. /\ pc \in {2, 4} /\ req = 1 /\ Len(Step.reqs) = 1 /\ Len(prog) = 5
      /\ Ask.shrug = {} /\ Step.do \notin {"wait", "fetch"}
  BY <1>1, SeekAsk, SeekProgram
<1>3. stage # "lookup" /\ (stage = "failed" => pc = 2 /\ err = {"canceled"} /\ cancelled)
  BY <1>1, <1>2 DEF SeekInv
<1>4. Passed(pc + 1)
  <2>1. ~Continues /\ ~(stage = "failed" /\ err \subseteq Ask.shrug) /\ ~(stage = "failed" /\ ShouldRediscover)
    BY <1>2, <1>3 DEF Continues, ShouldRediscover
  <2>2. CASE stage = "answered"
    BY <1>2, <2>1, <2>2 DEF Concluded
  <2>3. CASE stage = "failed"
    <3>1. Over(OpError)
      BY <2>1, <2>3 DEF Concluded
    <3>2. Step.soft = "cancelled" /\ Step.jump = 1
      BY <1>3, <2>3, SeekProgram
    <3>3. LetsPass(OpError)
      BY <1>3, <2>3, <3>2 DEF LetsPass
    <3> QED
      BY <1>2, <3>1, <3>2, <3>3 DEF Over
  <2> QED
    BY <1>1, <1>3, <2>2, <2>3
<1>5. pc' = pc + 1 /\ stage' = "step"
  BY <1>2, <1>4 DEF Passed
<1>6. CASE pc = 2
  BY <1>1, <1>5, <1>6 DEF SeekInv
<1>7. CASE pc = 4
  <2>1. switch = "off"
    BY <1>1, <1>3, <1>7 DEF SeekInv
  <2> QED
    BY <1>1, <1>5, <1>7, <2>1 DEF SeekInv
<1> QED
  BY <1>2, <1>6, <1>7

\* and by what happens, but Ctrl-C with the end on its way.
LEMMA SeekSurrounded ==
    ASSUME Control, SeekInv, Does("release"), Surrounded, ~Disturbed'
    PROVE  SeekInv'
<1>1. UNCHANGED <<prog, pc, stage, err, detached, switch>>
  BY DEF Surrounded, SeekInv
<1>2. pc = 2 /\ stage = "failed" => cancelled'
  BY DEF Surrounded, SeekInv
<1>3. pc = 4 /\ stage # "step" => (cancelled' => detached)
  <2>1. CASE cancelled' = cancelled
    BY <2>1 DEF SeekInv
  <2>2. CASE struck' = pc /\ (hit' = "before" <=> stage = "step")
    <3>1. SUFFICES ASSUME pc = 4, stage # "step" PROVE FALSE
      OBVIOUS
    <3>2. prog'[struck'].do = "release"
      BY <1>1, <2>2, <3>1, SeekProgram DEF Step
    <3> QED
      BY <2>2, <3>1, <3>2 DEF Disturbed
  <2> QED
    BY <2>1, <2>2 DEF Surrounded
<1> QED
  BY <1>1, <1>2, <1>3 DEF SeekInv

\* Sought is inductive, given where Ctrl-C came.
LEMMA SeekNext ==
    ASSUME Control, CancelInv, Sought, Localed \/ Started \/ Attempted \/ Concluded \/ Surrounded
    PROVE  Sought'
<1>1. Does("release")' => Does("release")
  BY WorldAfter DEF Does
<1>2. SUFFICES ASSUME Does("release"), ~Disturbed' PROVE SeekInv'
  BY <1>1 DEF Sought
<1>3. SeekInv
  BY <1>2, DisturbedStays DEF Sought
<1>4. ~lossy' /\ ~(faults' > 0)
  BY <1>2 DEF Disturbed
<1> QED
  BY <1>2, <1>3, <1>4, SeekLocal, SeekStarted, SeekAttempted, SeekConcluded, SeekSurrounded

\* An undisturbed seek ends with its end sent, or before its start.
LEMMA SeekFollows == Control /\ Sought => SeekReleased
<1> SUFFICES ASSUME Control, Sought, Done, Does("release"), switch = "on", ~Disturbed
             PROVE  FALSE
  BY DEF SeekReleased, Disturbed
<1>1. SeekInv /\ stage = "done"
  BY DEF Sought, Done
<1>2. pc \in {1, 2, 3, 4, 5}
  <2>1. pc \in 1..5
    BY SeekProgram
  <2> QED
    BY <2>1
<1> QED
  BY <1>1, <1>2 DEF SeekInv

\* netusb ff and rew do not leave the receiver seeking (runFastSeek), unless a request
\* of theirs was lost or refused, or Ctrl-C came when the end was already on its way.
THEOREM SeekIsReleased == Spec => []SeekReleased
<1>1. Init => Control /\ CancelInv /\ Sought
  BY ControlInit, CancelInit, SeekInit
<1>2. Control /\ CancelInv /\ Sought /\ [Next]_vars => (Control /\ CancelInv /\ Sought)'
  BY ControlNext, CancelNext, SeekNext, StepKinds
<1> QED
  BY <1>1, <1>2, SeekFollows, PTL DEF Spec

-----------------------------------------------------------------------------
(* Features that are refused.                                              *)

\* Features are remembered only after a step that loads them; a demand after a
\* reload is made of the features the receiver reports, or is met; and a command
\* that ends at a demand ends because it is not.
AfterReload == Step.do = "demand" /\ prog[pc - 1].do = "fetch" /\ prog[pc - 1].refresh
Loaded      == \E k \in 1..(pc - 1) : prog[k].do = "fetch"
FreshInv ==
    /\ memo # "none" => stage = "done" \/ Loaded
    /\ AfterReload => memo = advertised \/ Has(Step.need)
    /\ stage = "done" /\ Step.do = "demand" => ~Has(Step.need)

\* Nothing is remembered at first.
LEMMA FreshInit == Init => FreshInv
<1> SUFFICES ASSUME Init PROVE FreshInv
  OBVIOUS
<1>1. memo = "none" /\ stage = "step"
  BY DEF Init
<1> QED
  BY <1>1 DEF FreshInv, Has

\* A command that stays at its step.
LEMMA FreshStays ==
    ASSUME Control, FreshInv, prog' = prog, pc' = pc,
           \/ memo' = memo /\ advertised' = advertised
           \/ stage' = "done" /\ Step.do = "fetch",
           stage = "done" => stage' = "done",
           stage' = "done" /\ Step.do = "demand" => stage = "done" \/ ~Has(Step.need)
    PROVE  FreshInv'
<1>1. Step' = Step
  BY StepSame
<1>2. CASE memo' = memo /\ advertised' = advertised
  <2>1. /\ Has(Step.need)' <=> Has(Step.need)
        /\ AfterReload' <=> AfterReload
        /\ Loaded' <=> Loaded
    BY <1>1, <1>2 DEF Has, AfterReload, Loaded
  <2> QED
    BY <1>1, <1>2, <2>1 DEF FreshInv
<1>3. CASE stage' = "done" /\ Step.do = "fetch"
  BY <1>1, <1>3 DEF FreshInv, AfterReload
<1> QED
  BY <1>2, <1>3

\* What comes before a step comes before a later one.
LEMMA Earlier ==
    \A m, n \in Nat : m < n => \A k \in 1..(m - 1) : k \in 1..(n - 1)
  OBVIOUS

\* A command that goes on to another step.
LEMMA FreshPasses ==
    ASSUME Control, FreshInv, prog' = prog, stage # "done", stage' = "step",
           pc' \in 1..Len(prog),
           \/ pc' = pc + 1
           \/ pc' = pc + 2 /\ (Step.do = "unlesshas" => Has(Step.need)),
           memo' # memo => Step.do = "fetch",
           Step.do = "fetch" /\ Step.refresh =>
               memo' = advertised' \/ (memo' = memo /\ Step.soft # "no")
    PROVE  FreshInv'
<1>1. pc \in Nat /\ Len(prog) \in Nat /\ pc \in 1..Len(prog) /\ pc' \in Nat /\ pc < pc'
  BY StepFormed DEF Control
<1>2. memo' # "none" => Loaded'
  <2>1. CASE memo' = memo /\ memo # "none"
    <3>1. PICK k \in 1..(pc - 1) : prog[k].do = "fetch"
      BY <2>1 DEF FreshInv, Loaded
    <3>2. k \in 1..(pc' - 1)
      BY <1>1, Earlier
    <3> QED
      BY <3>1, <3>2 DEF Loaded
  <2>2. CASE memo' # memo
    <3>1. pc \in 1..(pc' - 1) /\ prog[pc].do = "fetch"
      BY <1>1, <2>2 DEF Step
    <3> QED
      BY <3>1 DEF Loaded
  <2> QED
    BY <2>1, <2>2
<1>3. ASSUME AfterReload' PROVE memo' = advertised' \/ Has(Step.need)'
  <2>1. Refreshes(prog)
    BY ProgramsAssumption DEF Control, Typed
  <2>2. prog[pc'].do = "demand" /\ prog[pc' - 1].do = "fetch" /\ prog[pc' - 1].refresh
    BY <1>3 DEF AfterReload, Step
  <2>3. \/ \A k \in 1..(pc' - 2) : prog[k].do # "fetch"
        \/ /\ prog[pc' - 1].soft = "no"
           /\ pc' > 2 /\ prog[pc' - 2].do = "unlesshas" /\ prog[pc' - 2].need = prog[pc'].need
    BY <2>1, <2>2 DEF Refreshes
  <2>4. ~Loaded => memo = "none"
    BY DEF FreshInv
  <2>5. memo' = "none" => Has(Step.need)'
    BY DEF Has
  <2>6. CASE pc' = pc + 1
    <3>1. pc' - 1 = pc /\ pc' - 2 = pc - 1
      BY <1>1, <2>6
    <3>2. Step.do = "fetch" /\ Step.refresh
      BY <2>2, <3>1 DEF Step
    <3>3. memo' = advertised' \/ (memo' = memo /\ Step.soft # "no")
      BY <3>2
    <3>4. Step.soft # "no" => ~Loaded
      BY <2>3, <3>1 DEF Loaded, Step
    <3> QED
      BY <2>4, <2>5, <3>3, <3>4
  <2>7. CASE pc' = pc + 2 /\ (Step.do = "unlesshas" => Has(Step.need))
    <3>1. pc' - 2 = pc /\ pc \in 1..pc /\ \A k \in 1..(pc - 1) : k \in 1..pc
      BY <1>1, <2>7
    <3>2. CASE \A k \in 1..(pc' - 2) : prog[k].do # "fetch"
      <4>1. ~Loaded /\ Step.do # "fetch"
        BY <3>1, <3>2 DEF Loaded, Step
      <4> QED
        BY <2>4, <2>5, <4>1
    <3>3. CASE prog[pc' - 2].do = "unlesshas" /\ prog[pc' - 2].need = prog[pc'].need
      <4>1. Step.do = "unlesshas" /\ Step.need = Step'.need
        BY <3>1, <3>3 DEF Step
      <4>2. memo' = memo /\ Has(Step.need)
        BY <2>7, <4>1
      <4> QED
        BY <4>1, <4>2 DEF Has
    <3> QED
      BY <2>3, <3>2, <3>3
  <2> QED
    BY <2>6, <2>7
<1> QED
  BY <1>2, <1>3 DEF FreshInv

\* Either, where a step was passed.
LEMMA FreshPassed ==
    ASSUME Control, FreshInv, prog' = prog, stage # "done",
           \/ Passed(pc + 1)
           \/ Passed(pc + 2) /\ Skips(Step) /\ (Step.do = "unlesshas" => Has(Step.need)),
           memo' # memo \/ advertised' # advertised => Step.do = "fetch",
           Step.do = "fetch" /\ Step.refresh =>
               memo' = advertised' \/ (memo' = memo /\ Step.soft # "no")
    PROVE  FreshInv'
<1>1. pc \in Nat /\ Len(prog) \in Nat /\ pc \in 1..Len(prog)
  BY StepFormed DEF Control
<1>2. CASE stage' = "step"
  <2>1. pc' = pc + 1 \/ (pc' = pc + 2 /\ (Step.do = "unlesshas" => Has(Step.need)))
    BY <1>2 DEF Passed, Ended
  <2>2. pc' <= Len(prog)
    BY <1>2 DEF Passed, Ended
  <2>3. pc' \in 1..Len(prog)
    BY <1>1, <2>1, <2>2
  <2> QED
    BY <1>2, <2>1, <2>3, FreshPasses
<1>3. CASE stage' # "step"
  <2>1. stage' = "done" /\ pc' = pc
    BY <1>3 DEF Passed, Ended
  <2>2. Step.do # "demand"
    <3>1. SUFFICES ASSUME Step.do = "demand" PROVE FALSE
      OBVIOUS
    <3>2. Refreshes(prog)
      BY ProgramsAssumption DEF Control, Typed
    <3>3. pc \in 2..(Len(prog) - 1)
      BY <1>1, <3>1, <3>2 DEF Refreshes, Step
    <3>4. ~Skips(Step)
      BY <3>1 DEF Skips, Operations
    <3>5. pc + 1 > Len(prog)
      BY <1>3, <3>4 DEF Passed
    <3> QED
      BY <1>1, <3>3, <3>5
  <2> QED
    BY <2>1, <2>2, FreshStays
<1> QED
  BY <1>2, <1>3

\* FreshInv is kept by the ends of operations: a reload that must succeed is passed only
\* with what the receiver answered.
LEMMA FreshConcluded ==
    ASSUME Control, FreshInv, Concluded
    PROVE  FreshInv'
<1>1. /\ prog' = prog /\ stage \in Active /\ stage # "done"
      /\ Step.do \in Operations /\ Step.do # "demand"
      /\ memo' # memo \/ advertised' # advertised => Step.do = "fetch"
  <2>1. stage \in Active /\ stage # "done" /\ prog' = prog
    BY DEF Concluded, Active
  <2>2. Step.do \in Operations
    BY <2>1, AskFormed
  <2> QED
    BY <2>1, <2>2 DEF Concluded, Operations
<1>2. CASE stage' \notin {"step", "done"}
  <2>1. memo' = memo /\ advertised' = advertised
    BY <1>2 DEF Concluded, Passed, Ended
  <2>2. pc' = pc
    <3>1. \A n : ~Passed(n)
      BY <1>2 DEF Passed, Ended
    <3>2. \A e : Over(e) => pc' = pc
      BY <3>1 DEF Over, Polls, Ended
    <3> QED
      BY <3>1, <3>2 DEF Concluded, Continues, Polls
  <2> QED
    BY <1>1, <1>2, <2>1, <2>2, FreshStays
<1>3. CASE /\ stage = "answered" /\ Passed(pc + 1)
           /\ Step.do = "fetch" => memo' = advertised'
  BY <1>1, <1>3, FreshPassed
<1>4. CASE stage = "failed" /\ err \subseteq Ask.shrug /\ Passed(pc + 1)
  <2>1. Step.do # "fetch"
    <3>1. Step.do = "fetch" => Ask.shrug = {}
      BY <1>1, AskFormed, StepFormed DEF Formed, Ask, Control
    <3>2. err # {}
      BY <1>4 DEF Control, StageInv
    <3> QED
      BY <1>4, <3>1, <3>2
  <2> QED
    BY <1>1, <1>4, <2>1, FreshPassed
<1>5. ASSUME NEW e, Over(e), stage' \in {"step", "done"}
      PROVE  FreshInv'
  <2>1. CASE LetsPass(e) /\ Passed(pc + Step.jump)
    <3>1. Step.soft # "no"
      BY <2>1 DEF LetsPass
    <3>2. Step.jump \in 1..2 /\ (Step.jump = 2 => Skips(Step)) /\ Step.do # "unlesshas"
      BY <1>1, OpFormed DEF Control, Operations
    <3>3. \/ Passed(pc + 1)
          \/ Passed(pc + 2) /\ Skips(Step) /\ (Step.do = "unlesshas" => Has(Step.need))
      BY <2>1, <3>2
    <3>4. memo' = memo \/ memo' = advertised'
      BY DEF Concluded
    <3> QED
      BY <1>1, <3>1, <3>3, <3>4, FreshPassed
  <2>2. CASE Ended(e)
    <3>1. pc' = pc /\ stage' = "done"
      BY <2>2 DEF Ended
    <3> QED
      BY <1>1, <3>1, FreshStays
  <2> QED
    BY <1>5, <2>1, <2>2 DEF Over, Polls
<1>6. \/ stage' \notin {"step", "done"}
      \/ stage = "answered" /\ Passed(pc + 1) /\ (Step.do = "fetch" => memo' = advertised')
      \/ stage = "failed" /\ err \subseteq Ask.shrug /\ Passed(pc + 1)
      \/ Over({"other"}) \/ Over(OpError) \/ Over(LookupError)
  BY DEF Concluded, Continues, Polls
<1> QED
  BY <1>2, <1>3, <1>4, <1>5, <1>6

\* FreshInv is inductive, given Control.
LEMMA FreshNext ==
    ASSUME Control, FreshInv, Localed \/ Started \/ Attempted \/ Concluded \/ Surrounded
    PROVE  FreshInv'
<1>0. prog' = prog
  BY WorldAfter
<1>1. CASE Localed
  <2>1. /\ stage # "done" /\ advertised' = advertised /\ (memo' # memo => Step.do = "fetch")
        /\ Step.do = "fetch" => ~Step.refresh
    BY <1>1 DEF Localed
  <2>2. CASE \/ Passed(pc + 1)
             \/ Passed(pc + 2) /\ Skips(Step) /\ (Step.do = "unlesshas" => Has(Step.need))
    BY <1>0, <2>1, <2>2, FreshPassed
  <2>3. CASE \E e : Excused(e) /\ Ended(e)
    <3>1. pc' = pc /\ stage' = "done" /\ (Step.do = "demand" => ~Has(Step.need))
      BY <2>3 DEF Excused, Ended
    <3> QED
      BY <1>0, <2>1, <3>1, FreshStays
  <2> QED
    BY <1>1, <2>2, <2>3 DEF Localed
<1>2. CASE Started
  <2>1. UNCHANGED <<pc, memo, advertised>> /\ stage # "done"
    BY <1>2 DEF Started, Ended
  <2>2. stage' = "done" => Step.do # "demand"
    <3>1. stage' = "done" => stage = "tick"
      BY <1>2 DEF Started
    <3> QED
      BY <3>1 DEF Control, StageInv
  <2> QED
    BY <1>0, <2>1, <2>2, FreshStays
<1>3. CASE Attempted
  <2>1. UNCHANGED <<pc, memo, advertised>> /\ stage # "done" /\ stage' # "done"
    BY <1>3 DEF Attempted
  <2> QED
    BY <1>0, <2>1, FreshStays
<1>4. CASE Concluded
  BY <1>4, FreshConcluded
<1>5. CASE Surrounded
  <2>1. UNCHANGED <<pc, memo, advertised, stage>>
    BY <1>5 DEF Surrounded
  <2> QED
    BY <1>0, <2>1, FreshStays
<1> QED
  BY <1>1, <1>2, <1>3, <1>4, <1>5

\* A demand that was not met after a reload was made of what the receiver reports.
LEMMA FreshFollows == FreshInv => RefusalIsFresh
BY DEF FreshInv, RefusalIsFresh, AfterReload, Has, Done

\* A value refused after a reload is one that the receiver does not offer: a demand is
\* made of what the reload returned, or of what met it already, never of an old cache
\* file that a failed reload left (validateAgainstFeatures).
THEOREM RefusalsAreFresh == Spec => []RefusalIsFresh
<1>1. Init => Control /\ FreshInv
  BY ControlInit, FreshInit
<1>2. Control /\ FreshInv /\ [Next]_vars => (Control /\ FreshInv)'
  BY ControlNext, FreshNext, StepKinds
<1> QED
  BY <1>1, <1>2, FreshFollows, PTL DEF Spec

=============================================================================
