# A TLA+ development of yamaha-cli

`yamaha` is a command-line program for Yamaha receivers. It speaks two protocols to a device on the LAN: YXC
(JSON over HTTP, with events pushed over UDP) and YNCA (lines over one TCP connection). It keeps a small YAML file
of named devices, finds devices by SSDP, and groups them with MusicCast Link. This directory models the parts of it
where the order of events matters, checks them with TLC and proves the most important facts with TLAPS.

Paths of the form `pkg/...` and `internal/...` are those of the repository.

## 1. The system

| Component | Code | State | Operations | What is hard | What makes it correct |
|---|---|---|---|---|---|
| YNCA client | `pkg/ynca/client.go` | one connection, its scanner, a mutex | `Send`, `SendMulti`, `Probe`, `Close` | replies carry no request id; the receiver may be silent, push, half-answer, reset; timeouts; one retry | a reply is the caller's own; a connection left to the next call is silent; a retry is earned; every call returns |
| YNCA session, `ynca watch` | `pkg/ynca/session.go`, `internal/cli/ynca_watch.go` | one push connection; a backoff and a count of dial failures | `Run`, keep-alive, supervise | reader, writer and watcher of one socket; a receiver that moves | reports in order; a watch never dies of a device; a moved device is found again |
| YNCA functions | `pkg/ynca/*.go` (other) | none | build a line, parse a line | number formats, and which answers are let pass | a value goes out on its grid; a read-out is complete or an error |
| YXC client | `pkg/yxc/client.go` | time of the last call, event port | `Do`, `EventDo` | a request that took effect is retried | at most two attempts, none after Ctrl-C |
| YXC subscriber, `watch` | `pkg/yxc/events.go`, `internal/cli/watch.go` | two bounded channels, three timers, a backoff | pump, reader, `recover`, `emit` | random select, slow caller, cancellation, lost registrations | nothing lost, a well-formed history, an end on cancellation |
| Feature cache | `pkg/yxc/cache.go`, `internal/cli/features.go` | a file per device with an age; a memo per process | `LoadOrFetch`, `Invalidate` | concurrent writers, corrupt or old files | a reader sees a whole file or a miss |
| Volume scale | `pkg/yxc/scale.go`, `internal/cli/volume.go` | none | dB, percent, steps | rounding, clamping, overflow | the wire value is in range and nearest |
| MusicCast Link | `pkg/yxc/dist.go`, `internal/cli/link.go` | the roles of several receivers | `link create`, `link dissolve` | a transaction over devices that fail half way | all or nothing; nobody else's group is touched |
| Configuration | `internal/config/config.go` and every caller of `Save` | `config.yaml`, `config.yaml.tmp` | load, add, wizard, rediscovered host, device id | processes that interleave and crash | the file is whole; nobody's entry is lost |
| Rediscovery | `internal/cli/dhcp.go` | the active device and its client | rediscover, retry | an operation that is run twice, Ctrl-C during the lookup | only for a device that is not there, once per operation; what was executed twice was lost before |
| Discovery | `pkg/discover` | none that lasts | M-SEARCH, fetch, sweep | goroutines per interface and host, deadlines, cancellation | no duplicate, no leak, an end in time |
| Multi-step commands | `internal/cli/power.go`, `netusb.go`, `ynca.go`, ... | the receiver's | wait for `on`, fast-seek bracket, settle then act | errors between the steps | the receiver is not left half way; the wait ends |
| Single-request commands | the rest of `internal/cli` | none | check, look up, one request | what is checked when, and which errors are let pass | refused means untouched, exit 0 means done |
| Set-up, exit codes, output | `cmd/yamaha`, `root.go`, `errors.go`, `internal/output`, `internal/debuglog` | none | parse, resolve, map errors, print | an error that is several at once | documented codes |

How they interact. A command builds its state once (`setupState`): it loads the configuration, resolves a device
and builds a client. Every YXC operation runs inside `runWithRediscover`, which on a transport error searches the
LAN for the device, writes its new address to the configuration, replaces the client and runs the operation again.
The configuration is the only state that processes share; the connection of a `ynca.Client` and the channels of a
`Subscriber` are the state goroutines share; a MusicCast group is state that several receivers share.

`PROJECT.json` lists the components with their files, and every hazard at its line with the properties that would
catch it, or the reason why none does yet.

## 2. The modules

| Module | Models | Composes |
|---|---|---|
| `YncaClient` | a `ynca.Client` shared by concurrent calls, and the receiver at the other end | — |
| `YncaClient_proofs` | its theorems | `YncaClient` |
| `ConfigData` | configurations and what each command changes in one | — |
| `ConfigRegister` | what the configuration file promises: an atomic register | `ConfigData` |
| `ConfigStore` | the file, its temporary file, and the processes that load and save | `ConfigData`; instantiates `ConfigRegister` |
| `ConfigStore_proofs` | its theorems, the refinement among them | `ConfigStore` |
| `LinkGroup` | `link create` and `link dissolve` over several receivers | — |
| `LinkGroup_proofs` | its theorems | `LinkGroup` |
| `Subscriber` | the pump, the reader and the channels of an event subscription | — |
| `Subscriber_proofs` | its theorems | `Subscriber` |
| `CommandPrograms` | every command as a program: what it checks, asks and changes, in which order | — |
| `CommandRun` | one invocation executing such a program over lossy requests, rediscovery and Ctrl-C | `CommandPrograms` |
| `CommandRun_proofs` | its theorems | `CommandRun` |
| `LanSearch` | one search of the LAN: interfaces, collector, fetches, probe of the subnet | — |
| `YncaWatch` | `ynca watch` (supervisor and sessions) and `discover`, over searches | `LanSearch` |
| `YncaWatch_proofs` | their theorems | `YncaWatch`, `LanSearch` |
| `VolumeScale` | the arithmetic of volumes and stepped values | — |
| `VolumeScale_proofs` | its theorems | `VolumeScale` |
| `MC...` | values for TLC | the module of that name |

### YncaClient

State: `pc` says where each call is; `lock` is `Client.mu`; `tries`, `got`, `cancelled`, `expired` belong to the call
that has the mutex; `conn` and `scanErr` are the connection and the error its scanner will repeat; `up` and `down` are
the two directions of the wire. Actions: `Acquire` (lock, test of `c.conn`), `Dial`/`DialFails` (`dialLocked`),
`WakeWrite`/`WakeDrain` (`wakeLocked`), `Write`/`WriteFails`, `ScanLine`/`ScanFails`/`TooManyLines` (one `Scan` of
`sendOnceLocked` or `sendMultiOnceLocked`), `Close`, `Cancel` and `Expire` (the watchdog and the deadline). An error
always goes through `AttemptFails`: the deferred close, then the one second attempt if `isConnReset` holds. The
receiver answers in order, may ignore a request, push, deliver half a line, close, reset, or execute a request that
was left in a closed connection. A line is its kind, its author and whether all of it arrived.

### ConfigStore and ConfigRegister

Files are inodes, so that a process which has `config.yaml.tmp` open keeps writing to it after another process has
renamed it. `Save` is `RemoveTmp`, `CreateTmp`, `WriteTmp`, `RenameTmp`, each of which can fail, with a crash possible
in between; the callers are `config add` (check, probe, reload, save), the wizard and `discover --add` (load, ask,
save) and device commands (load, much later write back a host or a device id). `ConfigRegister` is the promise:
`config add` is an atomic read-modify-write of what the register holds, everything else writes back an earlier
content with one entry changed, and an invocation is told "saved" exactly when the register changed. The refinement
mapping is the text of the file that is named `config.yaml`.

The constant `Overlap` says whether two invocations may be between the read their save is based on and its end at the
same time. It exists because the answer differs: with it, the file can be torn (run `config_torn`); without it, the
file implements the register.

### LinkGroup

One action per request of `link create` (`Check`, `SetServerInfo`, `SetClientInfo`, `StartDistribution`), of its
rollback (`RollBackStop`, `RollBackClient`, `EndRollBack`) and of `link dissolve` (`ReadTarget`, `RemoveGroup`,
`StopTarget`). A request is one `Client.Do`, its retry included, and is answered, refused without effect, or takes
effect while the caller sees an error: its reply was lost, or Ctrl-C came first. After Ctrl-C every request is refused,
as an `http.Request` with a done context is. `serving`, `follows` and `playing` are what the receivers hold; a
receiver whose leader has dropped the group may let go of it. Two variables are histories: `confirmed` has the
followers whose answer a create has seen, `standing` the groups there were when a create made its first request.

### Subscriber

The pump is `pc`: registering (one `EventDo` per zone), emitting, waiting out a backoff, in its select, waiting for
the reader, closed. `phase` tells the first registration, a renewal and a recovery apart, because they double and
reset the backoff at different places. The reader hands packets over a bounded channel. Timers fire when they like;
the silence timer does not fire while a pump that is back in its select has a packet to take, because it would take it
long before. `filter` says whether packets of other sources are dropped, which depends on how the host resolved and is
chosen at the start. `missed` records that the grace period for the shutdown event passed with the channel full. A
call or a wait that began before the cancel may still complete (`alive`).

### CommandPrograms and CommandRun

A command is the set of its programs, one for each class of arguments, flags and replies its handler tells apart: a
sequence of steps (`Refuse`, `Show`, `Identify`, `Fetch`, `Demand`, an operation with its requests, ...), written
like the handler reads. `CommandRun` executes one. A request goes from `ready` to `flight`, where it is answered
(`Answered`), refused (`Refused`), lost before or after the receiver executed it (`Dropped`), sent to an address
where nobody is (`Unreachable`) or cut off by Ctrl-C (`Aborted`); `Lost` is the client's retry, which differs between
`yxc.Client.do` and `ynca.Client.Send`. `Failed` is the end of an operation in `runWithRediscover` (or the YNCA
variant), with `Found` and `NotFound` as the outcomes of its lookup, and `StepFails` is what the handler does
with an error it may let pass. `Finish` maps the error to the exit code: an error is the set of classes that
`errors.Is` and `errors.As` would find in its chain. Three hosts are kept apart, `client`, `device` and `saved`,
because a rediscovery moves them one after the other. The receiver has one switch (power, mute or seeking, whichever
the command is about), which may boot for a while; `ran` counts what it executed.

What the configuration file and the cache hold is chosen when it is first read. The features a receiver reports
are one of three: the thing asked for is not in them, its range is, or its value is.

### LanSearch and YncaWatch

`LanSearch` is `search` of `pkg/discover`: `at` is where its goroutine is; `ifc` has, per interface, the goroutine of
`mSearchExchange` with what it has sent, the read deadline (ahead, or past because the context's `AfterFunc` moved it)
and what it has found; `chan` is the channel of results; `fetch`, `dialing` and `taken` are the goroutines and the
semaphores of the fetches and of the TCP probe. The addresses stand for hosts: the receiver is at one, a second Yamaha
receiver at `Sibling`. `YncaWatch` adds the supervisor (`SettleProbe`, `CallSearch`, `SearchReturned`, `RerunProbe`,
`DialSession`, `ReaderEnds`, `Pause`) and the session's goroutines (`Close`, `KeepAlive`, and `leaving`, those
of sessions that are over). A receiver that moves leaves a connection that is `silent`: only a keep-alive
written into it makes TCP give up. `discover` is the same module with a search and nothing else.

### VolumeScale

Operators only: scales, `math.Round`, clamping, `volume --db`, `volume --percent`, `formatStepped`. Numbers are
integers in a unit fine enough for the values at hand. `MCCommandRun` has TLC compare `Round` with a definition of the
nearest integer; the rest is proved.

## 3. The runs

All runs use TLC's breadth-first search of the whole state space, without bounds other than the constants. Deadlock
checking is off everywhere: commands end and subscriptions close; that nothing stops short is what the liveness runs
check.

| Run | Shows | Bounds |
|---|---|---|
| `ynca_pairing` | a `Send`, a `Probe` and two `SendMulti`s share a client, nothing is pushed: replies are the callers' own, no report of one fan-out is in the reply of the other and none is missing, an idle connection is silent, only a lost connection is retried, and the inductive invariant of the proofs | four calls, two report lines, cap two |
| `ynca_returns` | a `Send` and a `SendMulti` with the wake exchange and a push: every call returns whatever the receiver does, and a fan-out that is answered holds every report produced for it (a pushed line, a wake reply, or the answer to the `Send` that one of them displaced may stand among them) | two calls, one push |
| `ynca_once` | section 5 | one call |
| `config_one_saver` | a `config add`, the wizard or `discover --add`, and a device command interleave and crash, saves do not overlap: the file is whole and implements the register, `config add` keeps what others saved | three invocations, two aliases, two hosts, three inodes (symmetric) |
| `config_torn`, `config_rediscover` | section 5 | one or two invocations |
| `link_create` | two creates that want the same follower, a group that may exist and has another follower of theirs, a dissolve on its leader: success means the whole group but for a follower both wanted at once, a failed create resets what it had confirmed, no create takes a receiver out of a group that stood when it began | four receivers, three groups, two faults, Ctrl-C |
| `link_cancel` | section 5 | two followers, no fault but Ctrl-C |
| `sub_feed` | until the cancel no packet taken from the socket is dropped or overtaken, however slow the caller; the history is well formed and ends with the shutdown; the waits follow the failures; a cancelled subscription closes its channel though nobody receives; a caller that keeps emptying its channel gets every packet, unless registrations come to fail for ever | two zones, two packets and one of another source, channels of one, failures without end (counted to three, where the wait stops growing), source filter on or off |
| `sub_silence` | section 5 | two packets |
| `cmd_run` | every command but `link`, `watch`, `discover` and `ynca watch` (which have modules of their own), run once: a refused command changed nothing, exit 0 means done, how often a change may be executed, what a toggle and a fast seek leave behind, Ctrl-C is not reported as an unreachable receiver, a refusal is not an old cache's, every command ends | two addresses, two faults |
| `ynca_follow` | Ctrl-C ends `ynca watch` and `discover` with everything they started; a watch follows a listed receiver to its new address (and would not if a slot of the probe were never given back); a lookup does not miss a receiver that stayed; cancellation is never overwritten | two interfaces, three addresses, one send per interface, semaphores of one, one fault, two dial failures to a settle |

Why the bounds are enough. The protocols are about at most two exchanges meeting on a connection, two processes
meeting at a file, two creates meeting at a follower, one follower that was changed and one that was not, a channel
that is full and one that is not; the instances are at least the smallest that show the case, most have one actor or
item more. Channels of 32 behave like channels of one: the code tests only whether there is room. `MaxMultiLines`
(1024 in the code) is two, so that replies at and over the cap occur. `config add --force` is left to `config_torn`
and the proofs. Two faults in `cmd_run` are one for a request and one for the lookup or the save its rediscovery
makes, or for both attempts at a request; a receiver that moves more than once is a receiver that moved while a rerun
was under way. In `ynca_follow` semaphores of one (16 and 256 in the code) make fetches and dials wait, and one send
per interface (three in the code) is enough, because each later send goes through the same loop, its failure included,
without being needed. Each run's passing properties are each broken by a mutated operation (`PROJECT.json`,
"mutants"), so the bounds reach the cases the properties are about.

Fairness. `YncaClient`: goroutines and the mutex are scheduled (weak fairness per call step), and a deadline that is
set passes. `Subscriber`: calls return because the HTTP client has a timeout, waits end, the reader wakes up every 500
ms; a `select` chooses uniformly among the ready cases, so a case that is ready again and again is chosen (strong
fairness of the cancellation and of the packets). `CommandRun`: the command's goroutine runs, a request in flight
comes to an end because the client has a timeout, and the time of the wait for `on` passes (weak fairness of
`Progress` and of `Elapse`). `YncaWatch`: the supervisor runs, some goroutine of a search and some goroutine of a
session runs while one can, and TCP gives up a connection whose data stays unacknowledged. Nothing is assumed of
receivers, users or the caller: `Delivered` has as its premises the caller that keeps emptying its channel and
registrations that succeed again and again (a call that fails for ever is fair), and no reply to an M-SEARCH is
promised to `Follows`.

## 4. What is proved

Every invariant and action property a run checks, and the refinement, is a theorem as well: the run shows it
on an instance, the theorem for every value of the constants. A theorem's premise, where it has one, is named below.

`YncaClient_proofs` (for any calls, any number of lines, any receiver):

* `TypeCorrect`: the type invariant; with it, no third attempt.
* `MutualExclusion`: the mutex covers dial, write and read.
* `Pairing`: `PairingInv` is inductive when nothing is pushed and no wake request is sent (`QuietWire`). It says that
  the wire holds the exchange of the call that has the mutex, at the stage that call is in, and nothing else. It
  is the strengthening that `ReplyIsOwn` and `IdleWireIsClean` need: neither is inductive alone, because a reply is
  right only if the wire was clean when the request was written.
* `RepliesAreOwn`, `IdleWireClean`: consequences of `PairingInv`.
* `FanOutsAreWhole`: `MultiComplete`, with pushes, wake replies, lost connections and retries. `FanOutInv` follows a
  fan-out over the wire: while a `SendMulti` reads, at most one copy of its request and of its fence are on their
  way, in this order; the reports it holds and those coming towards it are as many as the receiver has sent; nothing
  of a fan-out is on a wire nobody reads it from. Two lemmas about cardinalities say how the number of reports
  in a sequence changes at its ends. The premise is `NoProbes`: an answer to a `Probe` that a pushed line has
  displaced is read as the echo of the next fence, and ends that fan-out too early. No command of the CLI probes a
  connection and then sends a fan-out on it.
* `RetriesAreForLostConnections`: with any receiver, pushes and wake requests included, a second attempt follows
  only a connection that was seen to be gone. It needs that the scanner's remembered error is the connection's.

`ConfigStore_proofs` (for any invocations, aliases, hosts and files):

* `TypeCorrect`: with overlapping saves too.
* `SavesInOrder`: `StoreInv`, under `~Overlap`. The invariant follows a save through its four steps: which file it has
  open, that nobody else is saving, that the file named `config.yaml` is never the one being written, and that what
  is written is the configuration the invocation holds.
* `FileAlwaysWhole`: a consequence of it.
* `ImplementsRegister`: the refinement to `ConfigRegister`, one step of the store being one step or a stutter.
* `AddIsAtomic`, `AddReplacesNone`: `config add` keeps every entry there is when it saves, and replaces none.

`LinkGroup_proofs` (for any receivers, groups and commands):

* `TypeCorrect`: the type invariant, with the shape of a command's progress (`Shape`) that its types rest on.
* `RollbackComplete`: `ConfirmedRolledBack`, from `RollbackInv`, which says of a create in each of its stages how far
  its confirmed followers reach, and of its rollback which of them are already free. No premise: creates and
  dissolves may share any receiver.
* `StreamStops`: `NoStreamIntoTheVoid`, from `StreamInv`, under `OwnLeaders` (no two creates have the same leader):
  the rollback of one stops the stream of both. The only premise among these theorems.
* `NoneTakenAway`: `NeverRepoints`, for creates and dissolves that share receivers in any way. `standing` remembers
  which groups there were when a create began. `StandInv` says that those are over as commands: nobody adds to them
  any more. `FreeInv` follows from it that a follower the check found free is in none of them later, when the create
  writes to it, and when the rollback resets it. `NeverRepoints` alone is not inductive: it says nothing of the
  followers that were checked and not yet written to.
* `SuccessIsWhole`: `SuccessMeansGrouped`, from `BuiltInv`: what a create has set up so far stays as it is, but for the
  followers that a create which ran at the same time wants too (`FollowerShared`) and while nobody else works on its
  leader (`LeaderShared`). The property says this of each create, so that the theorem needs no premise about all.

`Subscriber_proofs` (for any number of zones and packets, any capacities, any failures):

* `TypeCorrect`: the type invariant, the bounds of the channels and of the backoff among it.
* `WellFormedHistory`, `EndsWithShutdown`: `Lifecycle` and `ShutdownLast`, from `HistoryInv`, which relates where the
  pump is (and why it registers) to the last event it put in the channel. `Lifecycle` alone says nothing of what the
  pump may put there next; `HistoryInv` does, place by place, until the cancel lets events be given up.
* `NothingIsLost`: `NothingLost`, from `FlowInv`: the numbers of the packets in the caller's channel, in the pump, in
  the reader's channel and in the reader together are those between the last received and the last arrived, each place
  holds them in order, and each place holds smaller ones than the places behind it. Lemmas say what `Append`, `Tail`
  and `\o` do to the numbers of a channel and to their order.
* `WaitsDouble`: `BackoffFollowsFailures`, from `BackoffInv`, which says at every place of the pump which wait comes
  next. Failures are counted to `MaxFails` and go on beyond it; `WaitSaturates` says that the wait no longer grows by
  then, which is what `SubscriberAssumption` asks of that bound. `Wait` rests on the recursive function `Doubled`;
  that a function with its equation exists is proved first, by the least number up to which none would.

`CommandRun_proofs` (for any number of faults and addresses, and for the programs of `CommandPrograms`):

* `TypeCorrect`: the type invariant. It needs `Control` (in which stage an invocation has a request in hand, an error, a
  lookup to come back from) and `RanInv` (how often each request was executed, by where the program is and whether the
  operation is being run again), because the count of executions is only bounded by them.
* `ReplaysAreBounded`: from `RanInv`.
* `RefusalsAreClean`: from `RefuseInv` (an error of the arguments ends a command in the step that found it) and `RanInv`
  (what was executed has its place in the program at or before that step, where no program has a change).
* `SuccessIsDone`: from `DoneInv` (every request before the one in hand was executed, unless its failure is let pass)
  and `OrderInv`.
* `TogglesOnce`: from `ToggleInv`: once the write was executed the switch is the opposite of what was read, and the
  read is over by then.
* `CancellationWins`: from `CancelInv`, which follows the error of the call Ctrl-C struck through retry, lookup and
  the exit code. The mapping of errors to exit codes takes the first of eight that applies, for which there is a
  lemma.
* `SeekIsReleased`: from `SeekInv`, stage by stage: undisturbed, the receiver seeks only between a start and an end that
  is still to be sent, under a context of its own after Ctrl-C.
* `RefusalsAreFresh`: from `FreshInv`: at a demand behind a reload the features in hand are the receiver's, or meet it.

`YncaWatch_proofs` (for any interfaces, subnet, receivers and limits):

* `TypeCorrect`: the type invariant of a search and of the watch. `taken` stays below its limit because it is the number
  of goroutines that hold a slot, which is `SlotInv` (`SlotsAreHeld`): no interleaving leaks one.
* `CancellationWakes`: `CancelWakes`, with `WakeInv`: only a context that is done wakes an exchange.
* `LookupFinds`: `FindsReceiver`. `ProbeInv` says that a receiver which stays is still to be dialled, being dialled, or
  accepted and then fetched from; `CallInv` and `FoundInv` whose search it is and what its outcome stands for.

`VolumeScale_proofs` (for any scale, range and value):

* `RoundNearest`: rounding is never more than half a step off, above and below zero.
* `FromDBInRange`, `FromDBKeeps`: `volume --db` sends a step of the range, and the dB printed for a volume send that
  volume, for which the clamping in dB before the conversion must not cut off either end.
* `FromPercentRight`: `volume --percent` stays in the range, reaches both of its ends, and is monotone, for which
  rounding is (`RoundMonotone`).

Assumptions are the named `ASSUME`s of the modules, and `QuietWire`, `NoProbes`, `~Overlap` and `OwnLeaders`
where a theorem states them. These are not idle: `config_torn` shows what happens without
`~Overlap`, section 5 what happens without the others. `ProgramsAssumption` is about `Programs`, a finite set
that is written out in `CommandPrograms` and depends on no constant: it says of every program what the proofs use
of it (a check comes before a change, a toggle reads before it writes, and so on), so that TLC, which evaluates it in
`cmd_run`, decides it.

Only model-checked: liveness under fairness (`CallsReturn`, `Closes`, `Delivered`, `Ends`, `AllEnd`, `Follows`), which
is out of the provers' reach. The runs that expect a violation show one, and have nothing to prove.

## 5. Where the code and its words disagree

Five disagreements have a run whose counterexample shows them:

| Run | The text | The code |
|---|---|---|
| `ynca_once` | `ynca.go:141`: a mutation must not double-execute | its one `Send` writes the request again after a reset |
| `config_torn` | `config.go:15`: "concurrent invocations cannot corrupt the file" | they share one temporary name |
| `config_rediscover` | `dhcp.go:102`: "preserving everything else" | the copy from the start of the command is written back |
| `link_cancel` | `link.go:118`: "resets only the followers we already confirmed" | after Ctrl-C it resets none: the rollback uses the cancelled context |
| `sub_silence` | `events.go:60`: "the duration of UDP silence" | time the pump is blocked by its caller counts as silence, with packets waiting |

Others are in the models too, and are the reason why a property or a theorem has the premise it has:

* `errors.go:40`: under the mutex "the client knows the in-flight line", and `client.go:113`: the wake reply "can
  never corrupt the next command". One pushed report, or a wake reply later than the drain, shifts every later reply
  of a `Send` by a line. Hence the premise `QuietWire` of `Pairing`, and a `ynca_pairing` without pushes. The wake
  request is off in that run, as it is by default in the package; the CLI turns it on (`WithWakeOnConnect`), so what
  the run says of pairing is said of the package. A `Send`'s answer that such a line displaced may also end up in the
  reply of the `SendMulti` after it: `MultiComplete` speaks of the reports, and says nothing of other lines among
  them.
* `client.go:262`: `ErrNoReply` "if no reply arrives within timeout". Half a line at a deadline is returned as a reply
  and leaves a scanner that repeats its error: the next call gets `ErrNoReply` at once. Hence `scanErr = "none"` as the
  premise of `WireInv`.
* `config.go:90`: the temporary file is "cleaned up on any failure before the rename". Not when the write itself fails:
  `WriteFails` leaves it.
* `README.md:371`: the rollback clears "each follower's server pointer". Not that of a follower whose reply was lost:
  `ConfirmedRolledBack` speaks of the followers that confirmed.
* `client.go:369`: the echo of the fence "reliably marks" the end of the reply. So does the late answer to a `Probe`, or
  to a `@SYS:VERSION=?` in the file given to `ynca dump`. Hence `NoProbes`.
* `link.go:87`: "refuse to enslave a follower that is already part of any group". The role is read once, before the
  leader is set up, so of two creates at once the second re-points a follower both saw free, and its rollback may reset
  one that the first has taken over. `link_create` has two such creates: `NeverRepoints` protects the groups that stood
  when the create began, which the check can see, and `SuccessMeansGrouped` exempts a follower that both want.
* `events.go:417`: "under sustained back pressure we'd rather drop than wedge the supervisor". The `select` below it
  drops only once `ctx` is done. Until then a full channel blocks the pump, and with it renewals, recoveries and the
  reader: nothing is lost (`NothingLost`), the supervisor is wedged until the caller receives, and the silence of
  `sub_silence` is a consequence.
* `events.go:383`: a recovery is tried again for ever, and takes no packets meanwhile. While the receiver still pushes
  and no registration succeeds, its packets wait: `Delivered` has registrations that succeed as a premise.
* `events.go:95`: "closed after a final shutdown event". The event is given up after 500 ms of a full channel:
  `ShutdownLast` allows `missed`.

Met while modelling the commands (`CommandRun`); each is a behaviour of the model:

* `netusb.go:188`: the end of a fast seek is sent under the command's context when that was not done a moment earlier.
  Ctrl-C after that test cuts the end off, and the receiver keeps seeking. Neither does a start whose reply was lost
  send the end (`netusb.go:174`). `SeekReleased` exempts both.
* `README.md:445`: "At most one rediscovery attempt per command". It is one per operation: a command that loads
  features, reads and writes may search the LAN for each. `ReplaysBounded` has the bound that follows.
* `reboot.go:47`: transport errors after the acknowledgement count as success. So do those before it: `reboot` of a
  receiver that is switched off exits 0. `SuccessMeansDone` leaves it out.
* `README.md:304`: exit 2 is for usage errors. A wrong number of arguments is recognised by cobra's text and may exit 1
  (`Misused`), and a wrong `--output` is found only after the receiver was changed (`PrintResult`, which
  `RefusedUntouched` leaves out).
* `README.md:312`: Ctrl-C exits 130. Not when the error it causes is one a command lets pass: `status`, a
  dump cut off in its last line, the repl. `CancelWins` speaks of the other errors.
* A `power on` that is cancelled within a lookup after its deadline exits 1, not 130: the deadline is looked at first.
* A save that fails after a rediscovery leaves the new host in memory for YNCA and the old one in the YXC client
  (`Found`).
* `power toggle` over YXC is a toggle in the receiver: sent twice, it cancels itself. `ToggleMeansOther` is about the
  toggles that compute the value first.

* `net/http` may itself send a GET again that found a reused connection closed. That is outside the repository and not
  in the model: `ReplaysBounded` counts what `Client.do` and the rediscovery send.

Of the watch (`YncaWatch`):

* `ynca_watch.go`: the backoff is said to mirror the YXC subscriber's, but a session that connected does not start it
  over: only a settle after a row of dial failures does (`Settled`).
* A watch whose device has no UDN dials its old address for ever, and the probe of a settle does not look at the UDN: a
  Yamaha receiver that took over the address is followed instead. `Follows` is about a listed receiver, and the sibling
  of the model keeps its address.

## 6. What is not modelled

* Text: what is printed, logged and parsed; tables of names; flags; completion scripts. No property is about them.
* Durations: timers fire when they may. So the spacing of 50 ms between requests, the receiver's ten minutes, and the
  budget of a wait in seconds are left out, and the M-SEARCH schedule is an order of sends.
* A subnet wider than a /24: `sweep.go:156` probes the /24 around the interface's or the device's last address, no
  more. The addresses of `LanSearch` are those that are probed; `FindsReceiver` and `Follows` speak of a receiver at
  one of them.
* The kernel's socket buffers (a packet is lost or taken by the reader), and the durability of a rename across a power
  failure: `saveTo` does not sync, and `Crash` in `ConfigStore` is that of a process.
* The steps of a save of the feature cache: the temporary file has a name of its own, so that a reader finds what
  one writer wrote; `CommandRun` chooses what the file holds, a miss included.
* Binary fractions, NaN and the width of an int in `VolumeScale`.
* `DidYouMean`, `Resolve` (where the device came from is a choice of `CommandRun`), the choice of subnets to probe,
  `link info`, `discover --host`, evaluation prompts and documents.

`PROJECT.json` says for each component what is left out.

## 7. Plan

Done: `YncaClient`, `ConfigStore`, `LinkGroup`, `Subscriber`, `CommandRun`, `YncaWatch` with `LanSearch`, `VolumeScale`,
and proofs of all their safety properties. What is left, in order:

1. An abstract channel of requests and replies that `YncaClient` implements on a quiet wire, and an abstract event
   feed that `Subscriber` implements until the cancel.
2. The files of the feature cache, of the kind `ConfigStore` has, with a name per writer.
