----------------------------- MODULE CommandRun -----------------------------
(***************************************************************************)
(* One invocation of yamaha: cli.Execute runs the program of a command     *)
(* (CommandPrograms) against a receiver whose address may change, over     *)
(* requests that may be lost before or after they took effect, while       *)
(* Ctrl-C may come at any moment.                                          *)
(*                                                                         *)
(* A request goes through the retry of its client (yxc.Client.do,          *)
(* ynca.Client.Send), an operation of several requests through             *)
(* runWithRediscover, and a step through what its handler does with the    *)
(* operation's error.  What the config file and the features cache hold is *)
(* chosen when it is first read, since nothing depends on it before.       *)
(* How a YNCA connection carries a request is YncaClient's subject, what   *)
(* the config file goes through when saved ConfigStore's: here a request   *)
(* and a save are one step each.                                           *)
(***************************************************************************)
EXTENDS CommandPrograms

CONSTANTS
    MaxFaults,   \* bound: requests lost or refused, lookups and saves failed
    MaxHosts     \* bound: addresses the receiver has in turn, from 1

ASSUME RunAssumption ==
    /\ MaxFaults \in Nat
    /\ MaxHosts \in Nat \ {0}

VARIABLES
    prog,        \* the command's program
    pc,          \* the step being run
    stage,       \* where in that step
    req,         \* its current request
    try,         \* the attempts at that request
    rerun,       \* the operation is being run again at the host found
    err,         \* the error of the operation, then of the command
    exit,        \* the exit code, once done
    source,      \* where the device was resolved from: state.alias and UDN
    client,      \* the host of state.client
    device,      \* state.device.Host
    saved,       \* the host in the config file
    known,       \* featureLoader.deviceID is set
    memo,        \* featureLoader.feats
    seen,        \* the switch as last read
    detached,    \* the operation runs under a context of its own
    spent,       \* waitForPowerOn: the deadline has passed
    cancelled,   \* Ctrl-C: the command's context is done
    struck,      \* the step it came in, 0 if it did not come,
    hit,         \* before that step's operation, in a call, or between calls
    addr,        \* the receiver's address
    switch,      \* the receiver's power, mute or seeking
    advertised,  \* the features it reports, once it was asked
    ran,         \* per label: how often the receiver executed the request
    lossy,       \* a request got no answer
    faults       \* faults so far

call     == <<req, try, rerun>>
result   == <<err, exit>>
state    == <<source, client, device, saved, known, memo>>
receiver == <<addr, switch, advertised, ran>>
history  == <<lossy, faults>>
vars == <<prog, pc, stage, call, result, state, seen, detached, spent, cancelled,
          struck, hit, receiver, history>>

Hosts    == 1..MaxHosts
Sources  == {"host", "alias", "listed"}   \* "listed": an alias with a UDN
Switches == {"off", "booting", "on"}
Stages   == {"step", "ready", "flight", "backoff", "answered", "failed", "lookup",
             "tick", "done"}

Step == prog[pc]
Ask  == Step.reqs[req]
Host == IF Step.via = "yxc" THEN client ELSE device

\* The context of the operation in hand is done.
CtxDone == cancelled /\ ~detached

-----------------------------------------------------------------------------
(* Ends.                                                                   *)

\* Execute: context.Canceled becomes a cancelledError, and a transport error
\* an unreachableError unless it was cancelled.
Wrapped(e) ==
    LET named == e \cup (IF "canceled" \in e THEN {"cancelled"} ELSE {})
    IN  named \cup (IF "transport" \in e /\ "cancelled" \notin named
                    THEN {"unreachable"} ELSE {})

Ranking == << <<{"canceled", "cancelled"}, 130>>, <<{"nodevice"}, 64>>,
              <<{"unreachable", "noreceiver", "transport"}, 69>>,
              <<{"code", "undefined"}, 70>>, <<{"restricted"}, 75>>,
              <<{"validation", "powertimeout"}, 1>>, <<{"usage"}, 2>>,
              <<Errors, 1>> >>

ErrorExitCode(e) ==
    IF e = {} THEN 0
    ELSE LET hits == {i \in DOMAIN Ranking : Ranking[i][1] \cap e # {}}
         IN  Ranking[CHOOSE i \in hits : \A j \in hits : i <= j][2]

Finish(e) ==
    /\ stage' = "done"
    /\ err' = e
    /\ exit' = ErrorExitCode(Wrapped(e))
    /\ UNCHANGED pc

\* Mutant: a program ends one step late.
GoToPastEnd(n) ==
    IF n > Len(prog) + 1 THEN Finish({})
    ELSE /\ pc' = n
         /\ stage' = "step"
         /\ err' = {}
         /\ UNCHANGED exit

GoTo(n) ==
    IF n > Len(prog) THEN Finish({})
    ELSE /\ pc' = n
         /\ stage' = "step"
         /\ err' = {}
         /\ UNCHANGED exit

At(step) == stage = "step" /\ Step.do = step

\* Mutant: what reboot does with a transport error, every command does.
LetsPassLost(e) ==
    \/ Step.soft = "always"
    \/ Step.soft = "live"      /\ ~cancelled
    \/ Step.soft = "cancelled" /\ cancelled
    \/ "transport" \in e
    \/ Step.soft = "alive"     /\ e \cap {"transport", "noreply"} = {}

\* What the handler of a step does with the error of its operation.
LetsPass(e) ==
    \/ Step.soft = "always"
    \/ Step.soft = "live"      /\ ~cancelled
    \/ Step.soft = "cancelled" /\ cancelled
    \/ Step.soft = "lost"      /\ "transport" \in e
    \/ Step.soft = "alive"     /\ e \cap {"transport", "noreply"} = {}

StepFails(e) ==
    IF Step.do = "wait" /\ "canceled" \notin e
    THEN /\ stage' = "tick"
         /\ UNCHANGED <<pc, err, exit>>
    ELSE IF LetsPass(e) THEN GoTo(pc + Step.jump) ELSE Finish(e)

-----------------------------------------------------------------------------
Init ==
    /\ prog \in Programs
    /\ pc = 1 /\ stage = "step"
    /\ req = 1 /\ try = 1 /\ rerun = FALSE
    /\ err = {} /\ exit = 0
    /\ source = "host"
    /\ client = 1 /\ device = 1 /\ saved = 1
    /\ known = FALSE /\ memo = "none"
    /\ seen = "off" /\ detached = FALSE /\ spent = FALSE
    /\ cancelled = FALSE /\ struck = 0 /\ hit = "none"
    /\ addr \in Hosts
    /\ switch \in (IF \E i \in DOMAIN prog : prog[i].do = "release" THEN {"off"}
                                             ELSE {"off", "on"})
    /\ advertised = "unasked"
    /\ ran = [l \in Labels |-> 0]
    /\ lossy = FALSE /\ faults = 0

Fault == faults < MaxFaults /\ faults' = faults + 1

-----------------------------------------------------------------------------
(* Steps without a request.                                                *)

\* setupState: the device comes from --host or YAMAHA_HOST, or from an entry
\* of the config file; or there is none, or the file, the alias or the zone
\* is wrong, or the first-run wizard finds no receiver or is interrupted.
SetUpState ==
    /\ At("setup")
    /\ \/ \E s \in Sources : source' = s /\ GoTo(pc + 1)
       \/ \E e \in {"nodevice", "noreceiver", "usage", "other"} :
              Finish({e}) /\ UNCHANGED source
       \/ cancelled /\ Finish({"canceled"}) /\ UNCHANGED source
    /\ UNCHANGED <<prog, call, client, device, saved, known, memo, seen, detached, spent,
                   cancelled, struck, hit, receiver, history>>

Steps == <<prog, call, state, seen, detached, spent, cancelled, struck, hit, receiver, history>>

RefuseArgument ==
    /\ At("refuse")
    /\ Finish({Step.error})
    /\ UNCHANGED Steps

\* printResult resolves --output only now: a wrong one is a usage error.
PrintResult ==
    /\ At("show")
    /\ GoTo(pc + 1) \/ Finish({"usage"})
    /\ UNCHANGED Steps

Has(need) == memo = "none" \/ memo \in Offering[need]

\* The checks of the handlers against the features loaded; without features
\* a lenient command lets the receiver decide.
Check ==
    /\ \/ At("unlesshas") /\ GoTo(IF Has(Step.need) THEN pc + 2 ELSE pc + 1)
       \/ At("demand") /\ IF Has(Step.need) THEN GoTo(pc + 1) ELSE Finish({Step.error})
       \/ At("unlesson") /\ GoTo(IF seen = "on" THEN pc + 2 ELSE pc + 1)
    /\ UNCHANGED Steps

\* The bracket of a fast seek, which Ctrl-C shortens, and the pause between
\* the lines of a dump, which it ends.
Sleep ==
    /\ \/ At("hold") /\ GoTo(pc + 1)
       \/ At("pause") /\ IF cancelled THEN Finish({"canceled"}) ELSE GoTo(pc + 1)
    /\ UNCHANGED Steps

-----------------------------------------------------------------------------
(* Operations.                                                             *)

Begin ==
    /\ stage' = "ready"
    /\ req' = 1 /\ try' = 1 /\ rerun' = FALSE
    /\ UNCHANGED <<pc, err, exit>>

\* resolveDeviceID knows the id from this run, or from the config entry.
MayKnowId == known \/ source # "host"
NeedsId   == Step.do = "identify" /\ ~known

\* LoadOrFetch and the memo before it.
Remembered == Step.do = "fetch" /\ ~Step.refresh /\ memo # "none"

\* Mutant: the end of a fast seek is sent under the command's context.
DetachesNever == FALSE

\* runFastSeek: after Ctrl-C the end has a context of its own, and is sent
\* outside rediscovery.
Detaches == Step.do = "release" /\ cancelled

StartCall ==
    /\ stage = "step"
    /\ \/ Step.do \in {"ask", "wait"}
       \/ NeedsId
       \/ Step.do = "fetch" /\ ~Remembered
       \/ Step.do = "release"
    /\ detached' = Detaches
    /\ Begin
    /\ UNCHANGED <<prog, state, seen, spent, cancelled, struck, hit, receiver, history>>

SkipIdentify ==
    /\ At("identify")
    /\ MayKnowId
    /\ known' = TRUE
    /\ GoTo(pc + 1)
    /\ UNCHANGED <<prog, call, source, client, device, saved, memo, seen, detached, spent,
                   cancelled, struck, hit, receiver, history>>

\* A file that is missing, too old or corrupt is a miss, which is StartCall;
\* one that cannot be read is an error.
ReadCache ==
    /\ At("fetch")
    /\ ~Step.refresh
    /\ \/ Remembered /\ GoTo(pc + 1) /\ UNCHANGED <<memo, faults>>
       \/ ~Remembered /\ (\E f \in FeatureSets : memo' = f) /\ GoTo(pc + 1)
          /\ UNCHANGED faults
       \/ ~Remembered /\ Fault /\ StepFails({"other"}) /\ UNCHANGED memo
    /\ UNCHANGED <<prog, call, source, client, device, saved, known, seen, detached, spent,
                   cancelled, struck, hit, receiver, lossy>>

-----------------------------------------------------------------------------
(* One attempt at a request.                                               *)

NextOf == [off |-> "on", booting |-> "on", on |-> "off"]

\* Mutant: the client asks the receiver to flip, instead of the value it
\* computed from what it read.
EffectByFlip(to) ==
    CASE to \in {"on", "off"} -> to
      [] to = "boot"   -> IF switch = "on" THEN "on" ELSE "booting"
      [] to \in {"toggle", "inverse"} -> NextOf[switch]
      [] OTHER         -> switch

\* What the request does to the switch: a zone told to go on takes a while,
\* "toggle" is flipped by the receiver, and "inverse" was computed here.
Effect(to) ==
    CASE to \in {"on", "off"} -> to
      [] to = "boot"    -> IF switch = "on" THEN "on" ELSE "booting"
      [] to = "toggle"  -> IF switch = "on" THEN "off" ELSE "booting"
      [] to = "inverse" -> NextOf[seen]
      [] OTHER          -> switch

\* The receiver executes the current request.
Execute ==
    /\ switch' = Effect(Ask.to)
    /\ ran' = IF Ask.label = "" THEN ran ELSE [ran EXCEPT ![Ask.label] = @ + 1]
    /\ UNCHANGED <<addr, advertised>>

Fails(e) == stage' = "failed" /\ err' = e /\ UNCHANGED try

\* A context that is done comes before the error of the socket.
Error(e) == IF CtxDone THEN {"canceled"} ELSE {e}

\* An attempt without an answer.  yxc waits and tries once more; ynca tries
\* once more on a new connection.  A probe reads a closed connection as "not
\* YNCA", and the two seconds of a detached call may run out.
Lost ==
    \/ /\ try = 1 /\ ~CtxDone
       /\ IF Step.via = "yxc" THEN stage' = "backoff" /\ UNCHANGED try
                              ELSE stage' = "ready" /\ try' = 2
       /\ UNCHANGED err
    \/ (try = 2 \/ CtxDone) /\ Fails(Error("transport"))
    \/ try = 2 /\ Ask.to = "probe" /\ Fails(Error("code"))
    \/ detached /\ Fails({"other"})

Attempt == <<prog, pc, req, rerun, exit, state, detached, spent, cancelled, struck, hit>>

\* doOnce and Send begin with a context that is not done.
Transmit ==
    /\ stage = "ready"
    /\ IF CtxDone THEN Fails({"canceled"}) ELSE stage' = "flight" /\ UNCHANGED <<try, err>>
    /\ UNCHANGED <<Attempt, seen, receiver, history>>

Answered ==
    /\ stage = "flight"
    /\ Host = addr
    /\ Execute
    /\ seen' = IF Ask.to = "look" THEN switch ELSE seen
    /\ stage' = "answered"
    /\ UNCHANGED <<Attempt, try, err, history>>

\* Mutant: a receiver that refuses a value is reported as a wrong argument.
RefusalsAsUsage == [yxc |-> {"validation", "other"},
                    ynca |-> {"undefined", "restricted", "other"}]

Refusals == [yxc |-> {"code", "other"}, ynca |-> {"undefined", "restricted", "other"}]

\* Answered by a refusal: a response_code, @UNDEFINED or @RESTRICTED, which
\* say that nothing was done, or something that is no answer at all.
Refused ==
    /\ stage = "flight"
    /\ Host = addr
    /\ Fault
    /\ \E e \in Refusals[Step.via] :
          /\ Fails({IF Ask.to = "probe" /\ e = "undefined" THEN "code" ELSE e})
          /\ \/ UNCHANGED receiver
             \/ e = "other" /\ Execute
    /\ UNCHANGED <<Attempt, seen, lossy>>

\* The request or its answer is lost, or the answer is late.  A YNCA
\* receiver that stays silent is not asked again.
Dropped ==
    /\ stage = "flight"
    /\ Host = addr
    /\ Fault
    /\ \/ Lost
       \/ Step.via = "ynca" /\ Fails(Error("noreply"))
    /\ Execute \/ UNCHANGED receiver
    /\ lossy' = TRUE
    /\ UNCHANGED <<Attempt, seen>>

\* Nobody is at that address: a failed dial is not repeated by ynca.
Unreachable ==
    /\ stage = "flight"
    /\ Host # addr
    /\ IF Step.via = "yxc" THEN Lost ELSE Fails(Error("transport"))
    /\ lossy' = TRUE
    /\ UNCHANGED <<Attempt, seen, receiver, faults>>

Aborted ==
    /\ stage = "flight"
    /\ CtxDone
    /\ Fails({"canceled"})
    /\ \/ Host = addr /\ Execute
       \/ UNCHANGED receiver
    /\ UNCHANGED <<Attempt, seen, history>>

\* yxc.Client.do: defaultRetryWait, unless the context ends first.
Retry ==
    /\ stage = "backoff"
    /\ IF CtxDone THEN Fails({"canceled"})
                  ELSE stage' = "ready" /\ try' = 2 /\ UNCHANGED err
    /\ UNCHANGED <<Attempt, seen, receiver, history>>

-----------------------------------------------------------------------------
(* The end of a request, of an operation and of its step.                  *)

NextRequest ==
    /\ req < Len(Step.reqs)
    /\ req' = req + 1 /\ try' = 1
    /\ stage' = "ready"
    /\ err' = {}
    /\ UNCHANGED <<pc, exit, rerun>>

\* Mutant: what the cache held is kept after the reload.
FetchedStale(f) == memo' = IF memo = "none" THEN f ELSE memo
Fetched(f) == memo' = f

\* What an answered operation leaves: the id, saved with the rest of s.cfg
\* for an alias if the save succeeds, or the features.
Kept ==
    \/ /\ Step.do = "identify"
       /\ known' = TRUE
       /\ saved' \in {saved} \cup (IF source = "host" THEN {} ELSE {device})
       /\ UNCHANGED <<memo, advertised>>
    \/ /\ Step.do = "fetch"
       /\ advertised' \in (IF advertised = "unasked" THEN FeatureSets ELSE {advertised})
       /\ Fetched(advertised')
       /\ UNCHANGED <<known, saved>>
    \/ /\ Step.do \notin {"identify", "fetch"}
       /\ UNCHANGED <<known, saved, memo, advertised>>

PolledOn == seen = "on"

\* A wait goes on until the zone was seen on; features that cannot be saved
\* are an error.
Complete ==
    /\ stage = "answered"
    /\ \/ NextRequest /\ UNCHANGED <<known, saved, memo, advertised, faults>>
       \/ /\ req = Len(Step.reqs)
          /\ UNCHANGED call
          /\ \/ /\ IF Step.do = "wait" /\ ~PolledOn
                   THEN stage' = "tick" /\ UNCHANGED <<pc, err, exit>>
                   ELSE GoTo(pc + 1)
                /\ Kept
                /\ UNCHANGED faults
             \/ /\ Step.do = "fetch" /\ Fault
                /\ StepFails({"other"})
                /\ UNCHANGED <<known, saved, memo, advertised>>
    /\ UNCHANGED <<prog, source, client, device, seen, detached, spent, cancelled, struck, hit,
                   addr, switch, ran, lossy>>

\* Mutant: any error of an alias with a UDN is worth a lookup.
ShouldRediscoverAny ==
    Step.again /\ ~detached /\ ~rerun /\ source = "listed"

\* shouldRediscover, for the first run of an operation.
ShouldRediscover ==
    /\ Step.again /\ ~detached /\ ~rerun
    /\ "transport" \in err
    /\ source = "listed"

\* After the second run a transport error is an unreachableError.
OpError ==
    IF rerun /\ "transport" \in err THEN {"unreachable", "transport"} ELSE err

Failed ==
    /\ stage = "failed"
    /\ \/ /\ err \subseteq Ask.shrug
          /\ \/ NextRequest
             \/ req = Len(Step.reqs) /\ GoTo(pc + 1) /\ UNCHANGED call
       \/ /\ ~(err \subseteq Ask.shrug)
          /\ IF ShouldRediscover THEN stage' = "lookup" /\ UNCHANGED <<pc, err, exit>>
                                 ELSE StepFails(OpError)
          /\ UNCHANGED call
    /\ UNCHANGED <<prog, state, seen, detached, spent, cancelled, struck, hit, receiver, history>>

\* LookupByUDN found the receiver: the host is changed in memory, then
\* saved, and only then the YXC client is replaced and the operation rerun.
Found ==
    /\ stage = "lookup"
    /\ device' = addr
    /\ \/ /\ saved' = addr
          /\ client' = IF Step.via = "yxc" THEN addr ELSE client
          /\ req' = 1 /\ try' = 1 /\ rerun' = TRUE
          /\ stage' = "ready"
          /\ err' = {}
          /\ UNCHANGED <<pc, exit, faults>>
       \/ Fault /\ StepFails({"other"}) /\ UNCHANGED <<saved, client, call>>
    /\ UNCHANGED <<prog, source, known, memo, seen, detached, spent, cancelled, struck, hit,
                   receiver, lossy>>

\* Mutant: only the error of the lookup says whether it was cancelled.
LookupErrorBlind == {"unreachable", "transport"}

LookupError == IF cancelled THEN {"cancelled"} ELSE {"unreachable", "transport"}

\* It did not, as may happen at any time on a network, or it was cancelled.
NotFound ==
    /\ stage = "lookup"
    /\ \/ cancelled /\ UNCHANGED faults
       \/ Fault
    /\ StepFails(LookupError)
    /\ UNCHANGED <<prog, call, state, seen, detached, spent, cancelled, struck, hit, receiver, lossy>>

-----------------------------------------------------------------------------
(* waitForPowerOn, between two polls.                                      *)

\* Mutant: the loop looks at its ticker and its context only.
TickForever ==
    IF cancelled THEN Finish({"canceled"}) /\ UNCHANGED call ELSE Begin

Tick ==
    IF spent THEN Finish({"powertimeout"}) /\ UNCHANGED call
    ELSE IF cancelled THEN Finish({"canceled"}) /\ UNCHANGED call
    ELSE Begin

NextPoll ==
    /\ stage = "tick"
    /\ Tick
    /\ UNCHANGED <<prog, state, seen, detached, spent, cancelled, struck, hit, receiver, history>>

-----------------------------------------------------------------------------
(* The environment.                                                        *)

Env == <<prog, pc, stage, call, result, state, seen, detached, history>>

Elapse ==
    /\ Step.do = "wait" /\ stage # "done" /\ ~spent
    /\ spent' = TRUE
    /\ UNCHANGED <<Env, cancelled, struck, hit, receiver>>

Interrupt ==
    /\ ~cancelled /\ stage # "done"
    /\ cancelled' = TRUE
    /\ struck' = pc
    /\ hit' = CASE stage = "step" -> "before"
              [] stage \in {"flight", "backoff", "lookup"} -> "call"
              [] OTHER -> "between"
    /\ UNCHANGED <<Env, spent, receiver>>

Move ==
    /\ addr < MaxHosts /\ stage # "done"
    /\ addr' = addr + 1
    /\ UNCHANGED <<Env, spent, cancelled, struck, hit, switch, advertised, ran>>

Boot ==
    /\ switch = "booting" /\ stage # "done"
    /\ switch' = "on"
    /\ UNCHANGED <<Env, spent, cancelled, struck, hit, addr, advertised, ran>>

-----------------------------------------------------------------------------
Progress ==
    \/ SetUpState \/ RefuseArgument \/ PrintResult \/ Check \/ Sleep
    \/ StartCall \/ SkipIdentify \/ ReadCache
    \/ Transmit \/ Answered \/ Refused \/ Dropped \/ Unreachable \/ Aborted \/ Retry
    \/ Complete \/ Failed \/ Found \/ NotFound \/ NextPoll

Next == Progress \/ Elapse \/ Interrupt \/ Move \/ Boot

Spec == Init /\ [][Next]_vars

\* A call that was made returns and a step that can be taken is taken; time
\* passes; nothing is promised of the receiver, of Ctrl-C or of a lookup.
FairSpec == Spec /\ WF_vars(Progress) /\ WF_vars(Elapse)

-----------------------------------------------------------------------------
(* Properties.                                                             *)

\* Every variable in its range; no program is left at its end (pc).
Typed ==
    /\ prog \in Programs
    /\ pc \in 1..Len(prog)
    /\ stage \in Stages
    /\ req \in 1..3 /\ try \in 1..2 /\ rerun \in BOOLEAN
    /\ err \subseteq Errors
    /\ exit \in {0, 1, 2, 64, 69, 70, 75, 130}
    /\ source \in Sources
    /\ client \in Hosts /\ device \in Hosts /\ saved \in Hosts /\ addr \in Hosts
    /\ known \in BOOLEAN /\ memo \in FeatureSets \cup {"none"}
    /\ seen \in Switches /\ switch \in Switches
    /\ detached \in BOOLEAN /\ spent \in BOOLEAN /\ cancelled \in BOOLEAN
    /\ struck \in 0..Len(prog) /\ hit \in {"none", "before", "call", "between"}
    /\ advertised \in FeatureSets \cup {"unasked"}
    /\ ran \in [Labels -> Nat]
    /\ lossy \in BOOLEAN /\ faults \in 0..MaxFaults

\* No change is ever executed more than four times.
TypeOK == Typed /\ \A l \in Labels : ran[l] <= 4

Done == stage = "done"
Does(kind) == \E i \in DOMAIN prog : prog[i].do = kind
Requests(i) ==
    IF prog[i].do \in {"ask", "wait", "release"}
    THEN {prog[i].reqs[j] : j \in DOMAIN prog[i].reqs} ELSE {}

\* A command that refuses its arguments, by itself or against the features,
\* has changed nothing, whatever it loaded or settled first; only a wrong
\* --output is found too late (printResult).
RefusedUntouched ==
    Done /\ err \cap {"usage", "validation"} # {} /\ Step.do # "show"
        => \A l \in Labels : ran[l] = 0

\* Exit 0 means that the receiver executed every change of the command at
\* least once, whatever was lost, retried, looked up or let pass on the way,
\* reboot excepted; and a later change of one operation never without the
\* earlier ones (prepareInputChange before setInput, bass before treble).
SuccessMeansDone ==
    /\ Done /\ exit = 0 =>
          /\ \A i \in DOMAIN prog :
                prog[i].do = "ask" /\ prog[i].soft = "no" =>
                    \A r \in Requests(i) : r.label # "" => ran[r.label] > 0
          /\ Does("release") => ran["end"] > 0
    /\ (\E i \in DOMAIN prog : Put("prepare") \in Requests(i))
          => (ran["set"] > 0 => ran["prepare"] > 0)
    /\ ran["treble"] > 0 => ran["bass"] > 0

\* A change is executed twice only after a request got no answer: at most
\* once per attempt of both runs over YXC, and over YNCA, where the host is
\* settled before and the operation never run again, at most twice.
ReplaysBounded ==
    \A i \in DOMAIN prog : \A r \in Requests(i) :
        r.label # "" =>
            ran[r.label] <= IF ~lossy THEN 1 ELSE IF prog[i].via = "ynca" THEN 2 ELSE 4

\* A toggle that reads and then writes (mute, and power and mute over YNCA)
\* ends with the opposite of what it read, however often the write was sent.
ToggleMeansOther ==
    Done /\ exit = 0 /\ (\E i \in DOMAIN prog : Turn("inverse") \in Requests(i))
        => switch = NextOf[seen]

\* netusb ff and rew do not leave the receiver seeking, Ctrl-C during the
\* start or the bracket included, unless a request of theirs was lost or
\* refused, or Ctrl-C came when the end was already on its way.
SeekReleased ==
    Done /\ Does("release") /\ switch = "on" =>
        \/ lossy \/ faults > 0
        \/ struck > 0 /\ prog[struck].do = "release" /\ hit # "before"

\* Ctrl-C during a call whose error is not let pass is never reported as an
\* unreachable receiver (exit 69), whatever the call and the lookup after it
\* came to.
CancelWins ==
    Done /\ hit = "call" => (prog[struck].soft = "no" => exit # 69)

\* A value refused after the features were loaded afresh is one that the
\* receiver does not offer: never an answer of an old cache file.
RefusalIsFresh ==
    Done /\ Step.do = "demand" /\ prog[pc - 1].do = "fetch" /\ prog[pc - 1].refresh
        => advertised \notin Offering[Step.need]

\* Every command ends: no wait, retry, lookup or poll goes on for ever.
Ends == <>Done

=============================================================================
