---------------------------- MODULE LinkGroup -----------------------------
(***************************************************************************)
(* internal/cli/link.go over pkg/yxc/dist.go: `link create` and            *)
(* `link dissolve`.                                                        *)
(*                                                                         *)
(* A create is a sequence of HTTP requests to several receivers: read each *)
(* follower's role, make the leader a server, point each follower at it,   *)
(* start the distribution; an error on the way triggers the rollback.  A   *)
(* request is one Client.Do, its retry included: it is answered, refused   *)
(* without effect, or takes effect while its caller is told of an error    *)
(* (the reply was lost, or Ctrl-C came first).  Ctrl-C makes every later   *)
(* request fail.                                                           *)
(*                                                                         *)
(* The receivers are external: what a request does there is taken from     *)
(* what the code uses it for.  A group is known by its id, which a create  *)
(* draws at random, so creates and the groups they build share names.      *)
(***************************************************************************)
EXTENDS Naturals, Sequences

CONSTANTS
    Devices,      \* the receivers
    Groups,       \* group ids
    NoGroup,      \* no group
    Creators,     \* the `link create` invocations, by the group they build
    Dissolvers,   \* the `link dissolve` invocations
    Leader,       \* per group: its leader
    Followers,    \* per group: its followers, in the order of the command line
    Target,       \* per dissolver: the leader it is given
    LostReplies,  \* whether a reply can be lost after the request took effect
    MayCancel,    \* whether the user presses Ctrl-C
    MaxFaults     \* bound: requests that are refused or lose their reply

FollowerSet(g) == {Followers[g][i] : i \in DOMAIN Followers[g]}

ASSUME LinkAssumption ==
    /\ NoGroup \notin Groups
    /\ Creators \subseteq Groups /\ Creators \cap Dissolvers = {}
    /\ Leader \in [Groups -> Devices]
    /\ Followers \in [Groups -> Seq(Devices) \ {<<>>}]
    \* resolveLinkPeers: "cannot be both leader and follower"
    /\ \A g \in Groups : Leader[g] \notin FollowerSet(g)
    /\ Target \in [Dissolvers -> Devices]
    /\ LostReplies \in BOOLEAN /\ MayCancel \in BOOLEAN
    /\ MaxFaults \in Nat

Invocations == Creators \cup Dissolvers

VARIABLES
    pc,         \* per invocation: the request it makes next
    at,         \* per create: the follower that request is for
    undo,       \* per create: how many followers its rollback resets
    found,      \* per dissolve: the group it read from its target
    outcome,    \* per invocation: "none", then how it ended
    cancelled,  \* per invocation: its context is done
    faults,     \* requests that have gone wrong
    serving,    \* per receiver: the group it is the server of
    follows,    \* per receiver: the group whose leader it points at
    playing,    \* per receiver: it is distributing
    confirmed,  \* history: per create, the followers that said they joined
    standing    \* history: per create, the groups that stood when it began

commandVars == <<pc, at, undo, found, outcome, cancelled>>
deviceVars  == <<serving, follows, playing>>
history     == <<confirmed, standing>>
vars == <<commandVars, faults, deviceVars, history>>

\* Groups that exist before any of the commands runs are complete.
Init ==
    /\ pc = [p \in Invocations |-> IF p \in Creators THEN "check" ELSE "read"]
    /\ at = [p \in Creators |-> 1]
    /\ undo = [p \in Creators |-> 0]
    /\ found = [p \in Dissolvers |-> NoGroup]
    /\ outcome = [p \in Invocations |-> "none"]
    /\ cancelled = [p \in Invocations |-> FALSE]
    /\ faults = 0
    /\ confirmed = [p \in Creators |-> {}]
    /\ standing = [p \in Creators |-> {}]
    /\ \E old \in {{}} \cup {{g} : g \in Groups \ Creators} :
          /\ serving = [d \in Devices |->
                IF \E g \in old : Leader[g] = d
                  THEN CHOOSE g \in old : Leader[g] = d ELSE NoGroup]
          /\ follows = [d \in Devices |->
                IF \E g \in old : d \in FollowerSet(g)
                  THEN CHOOSE g \in old : d \in FollowerSet(g) ELSE NoGroup]
          /\ playing = [d \in Devices |-> \E g \in old : Leader[g] = d]

-----------------------------------------------------------------------------
(* Requests.                                                               *)

Replies(p) ==
    IF cancelled[p] THEN {"refused"}
    ELSE {"ok"}
         \cup (IF faults < MaxFaults THEN {"refused"} ELSE {})
         \cup (IF faults < MaxFaults /\ LostReplies THEN {"lost"} ELSE {})
         \cup (IF MayCancel THEN {"cut"} ELSE {})

\* The reply r to a request of p.  A cut request took effect, but Ctrl-C came
\* before its answer.
Answered(p, r) ==
    /\ r \in Replies(p)
    /\ faults' = IF r \in {"refused", "lost"} /\ ~cancelled[p]
                   THEN faults + 1 ELSE faults
    /\ cancelled' = [cancelled EXCEPT ![p] = @ \/ r = "cut"]

\* What the receiver does, unless the request never reached it.
SetServing(r, d, g) ==
    serving' = IF r = "refused" THEN serving ELSE [serving EXCEPT ![d] = g]
SetFollows(r, d, g) ==
    follows' = IF r = "refused" THEN follows ELSE [follows EXCEPT ![d] = g]
SetPlaying(r, d, on) ==
    playing' = IF r = "refused" THEN playing ELSE [playing EXCEPT ![d] = on]

Goto(p, where) == pc' = [pc EXCEPT ![p] = where]

End(p, how) ==
    /\ Goto(p, "done")
    /\ outcome' = [outcome EXCEPT ![p] = how]

\* The follower the create is at.
Current(p) == Followers[p][at[p]]

LastFollower(p) == at[p] = Len(Followers[p])

\* On to the next follower, or past the last one.
Advance(p, afterLast) ==
    IF LastFollower(p)
      THEN Goto(p, afterLast) /\ at' = [at EXCEPT ![p] = 1]
      ELSE UNCHANGED pc /\ at' = [at EXCEPT ![p] = @ + 1]

-----------------------------------------------------------------------------
(* link create.                                                            *)

\* Mutant: the rollback starts one follower short.
RollBackOneShort(p, count) ==
    /\ Goto(p, "stop")
    /\ undo' = [undo EXCEPT ![p] = IF count = 0 THEN 0 ELSE count - 1]
    /\ at' = [at EXCEPT ![p] = 1]

\* Mutant: the follower whose request failed is counted, and the one after.
RollBackOneTooMany(p, count) ==
    /\ Goto(p, "stop")
    /\ undo' = [undo EXCEPT ![p] = count + 1]
    /\ at' = [at EXCEPT ![p] = 1]

\* rollbackPartial, given how many followers to reset.
RollBack(p, count) ==
    /\ Goto(p, "stop")
    /\ undo' = [undo EXCEPT ![p] = count]
    /\ at' = [at EXCEPT ![p] = 1]

\* A create has made its first request.
Begun(p) == pc[p] # "check" \/ at[p] > 1

\* The groups there are when a create makes its first request: those that were
\* there before any command, and those whose create is over.
NoteStanding(p) ==
    standing' = IF Begun(p) THEN standing
                ELSE [standing EXCEPT ![p] =
                        (Groups \ Creators) \cup {q \in Creators : pc[q] = "done"}]

\* Mutant: a follower that is a client of another group is not refused.
CheckServersOnly(p) ==
    /\ pc[p] = "check"
    /\ \E r \in Replies(p) :
          /\ Answered(p, r)
          /\ \/ /\ r = "ok" /\ serving[Current(p)] = NoGroup
                /\ Advance(p, "server")
                /\ UNCHANGED outcome
             \/ /\ r # "ok" \/ serving[Current(p)] # NoGroup
                /\ End(p, "failed")
                /\ UNCHANGED at
    /\ NoteStanding(p)
    /\ UNCHANGED <<undo, found, deviceVars, confirmed>>

\* getDistributionInfo of one follower.  An error or an existing role ends
\* the command before anything was changed.
Check(p) ==
    /\ pc[p] = "check"
    /\ \E r \in Replies(p) :
          LET free == /\ serving[Current(p)] = NoGroup
                      /\ follows[Current(p)] = NoGroup
          IN  /\ Answered(p, r)
              /\ \/ /\ r = "ok" /\ free
                    /\ Advance(p, "server")
                    /\ UNCHANGED outcome
                 \/ /\ r # "ok" \/ ~free
                    /\ End(p, "failed")
                    /\ UNCHANGED at
    /\ NoteStanding(p)
    /\ UNCHANGED <<undo, found, deviceVars, confirmed>>

\* Step 1: setServerInfo type=add on the leader.
SetServerInfo(p) ==
    /\ pc[p] = "server"
    /\ \E r \in Replies(p) :
          /\ Answered(p, r)
          /\ SetServing(r, Leader[p], p)
          /\ \/ r = "ok" /\ Goto(p, "client") /\ UNCHANGED <<at, undo>>
             \/ r # "ok" /\ RollBack(p, 0)
    /\ UNCHANGED <<found, outcome, follows, playing, history>>

\* Mutant: the error of a follower is skipped over.
SetClientInfoIgnoringErrors(p) ==
    /\ pc[p] = "client"
    /\ \E r \in Replies(p) :
          /\ Answered(p, r)
          /\ SetFollows(r, Current(p), p)
          /\ Advance(p, "start")
    /\ UNCHANGED <<undo, found, outcome, serving, playing, history>>

\* Step 2: setClientInfo on one follower.
SetClientInfo(p) ==
    /\ pc[p] = "client"
    /\ \E r \in Replies(p) :
          /\ Answered(p, r)
          /\ SetFollows(r, Current(p), p)
          /\ \/ /\ r = "ok"
                /\ Advance(p, "start")
                /\ confirmed' = [confirmed EXCEPT ![p] = @ \cup {Current(p)}]
                /\ UNCHANGED undo
             \/ /\ r # "ok"
                /\ RollBack(p, at[p] - 1)
                /\ UNCHANGED confirmed
    /\ UNCHANGED <<found, outcome, serving, playing, standing>>

\* Step 3: startDistribution on the leader.
StartDistribution(p) ==
    /\ pc[p] = "start"
    /\ \E r \in Replies(p) :
          /\ Answered(p, r)
          /\ SetPlaying(r, Leader[p], TRUE)
          /\ \/ r = "ok" /\ End(p, "ok") /\ UNCHANGED <<at, undo>>
             \/ r # "ok" /\ RollBack(p, Len(Followers[p])) /\ UNCHANGED outcome
    /\ UNCHANGED <<found, serving, follows, history>>

\* Mutant: the rollback does not stop the leader.
RollBackStopSkipped(p) ==
    /\ pc[p] = "stop"
    /\ Goto(p, "reset")
    /\ UNCHANGED <<at, undo, found, outcome, cancelled, faults, deviceVars, history>>

\* The rollback's stopDistribution; an error is only logged.
RollBackStop(p) ==
    /\ pc[p] = "stop"
    /\ \E r \in Replies(p) : Answered(p, r) /\ SetPlaying(r, Leader[p], FALSE)
    /\ Goto(p, "reset")
    /\ UNCHANGED <<at, undo, found, outcome, serving, follows, history>>

\* The rollback's setClientInfo with no server, for one confirmed follower.
RollBackClient(p) ==
    /\ pc[p] = "reset" /\ at[p] <= undo[p]
    /\ \E r \in Replies(p) :
          Answered(p, r) /\ SetFollows(r, Current(p), NoGroup)
    /\ at' = [at EXCEPT ![p] = @ + 1]
    /\ UNCHANGED <<pc, undo, found, outcome, serving, playing, history>>

EndRollBack(p) ==
    /\ pc[p] = "reset" /\ at[p] > undo[p]
    /\ End(p, "failed")
    /\ UNCHANGED <<at, undo, found, cancelled, faults, deviceVars, history>>

Create(p) ==
    \/ Check(p) \/ SetServerInfo(p) \/ SetClientInfo(p) \/ StartDistribution(p)
    \/ RollBackStop(p) \/ RollBackClient(p) \/ EndRollBack(p)

-----------------------------------------------------------------------------
(* link dissolve.                                                          *)

\* getDistributionInfo of the target, which must be a server.
ReadTarget(p) ==
    /\ pc[p] = "read"
    /\ \E r \in Replies(p) :
          /\ Answered(p, r)
          /\ \/ /\ r = "ok" /\ serving[Target[p]] # NoGroup
                /\ found' = [found EXCEPT ![p] = serving[Target[p]]]
                /\ Goto(p, "remove")
                /\ UNCHANGED outcome
             \/ /\ r # "ok" \/ serving[Target[p]] = NoGroup
                /\ End(p, "failed")
                /\ UNCHANGED found
    /\ UNCHANGED <<at, undo, deviceVars, history>>

\* setServerInfo type=remove.
RemoveGroup(p) ==
    /\ pc[p] = "remove"
    /\ \E r \in Replies(p) :
          /\ Answered(p, r)
          /\ SetServing(r, Target[p], NoGroup)
          /\ \/ r = "ok" /\ Goto(p, "halt") /\ UNCHANGED outcome
             \/ r # "ok" /\ End(p, "failed")
    /\ UNCHANGED <<at, undo, found, follows, playing, history>>

\* stopDistribution
StopTarget(p) ==
    /\ pc[p] = "halt"
    /\ \E r \in Replies(p) :
          /\ Answered(p, r)
          /\ SetPlaying(r, Target[p], FALSE)
          /\ End(p, IF r = "ok" THEN "ok" ELSE "failed")
    /\ UNCHANGED <<at, undo, found, serving, follows, history>>

Dissolve(p) == ReadTarget(p) \/ RemoveGroup(p) \/ StopTarget(p)

-----------------------------------------------------------------------------
\* Ctrl-C
Cancel(p) ==
    /\ MayCancel /\ pc[p] # "done" /\ ~cancelled[p]
    /\ cancelled' = [cancelled EXCEPT ![p] = TRUE]
    /\ UNCHANGED <<pc, at, undo, found, outcome, faults, deviceVars, history>>

\* A receiver whose leader has dropped the group lets go of it (external).
Release ==
    /\ \E d \in Devices :
          /\ follows[d] # NoGroup
          /\ serving[Leader[follows[d]]] # follows[d]
          /\ follows' = [follows EXCEPT ![d] = NoGroup]
    /\ UNCHANGED <<commandVars, faults, serving, playing, history>>

Next ==
    \/ \E p \in Creators : Create(p)
    \/ \E p \in Dissolvers : Dissolve(p)
    \/ \E p \in Invocations : Cancel(p)
    \/ Release

Spec == Init /\ [][Next]_vars

-----------------------------------------------------------------------------
(* Properties.                                                             *)

Stages == {"check", "server", "client", "start", "stop", "reset", "read", "remove",
           "halt", "done"}

\* Every variable stays in its domain; a rollback never reaches past the
\* followers of its create.
TypeOK ==
    /\ pc \in [Invocations -> Stages]
    /\ at \in [Creators -> Nat] /\ undo \in [Creators -> Nat]
    /\ \A p \in Creators : at[p] \in 1..(Len(Followers[p]) + 1)
    /\ \A p \in Creators : undo[p] \in 0..Len(Followers[p])
    /\ found \in [Dissolvers -> Groups \cup {NoGroup}]
    /\ outcome \in [Invocations -> {"none", "ok", "failed"}]
    /\ cancelled \in [Invocations -> BOOLEAN]
    /\ faults \in 0..MaxFaults
    /\ serving \in [Devices -> Groups \cup {NoGroup}]
    /\ follows \in [Devices -> Groups \cup {NoGroup}]
    /\ playing \in [Devices -> BOOLEAN]
    /\ confirmed \in [Creators -> SUBSET Devices]
    /\ standing \in [Creators -> SUBSET Groups]

\* Two creates ran at the same time, at least for a while.
Overlap(p, q) ==
    /\ p # q /\ Begun(p) /\ Begun(q)
    /\ p \notin standing[q] /\ q \notin standing[p]

\* Another create ran on the same leader at the same time, or a dissolve found a
\* group to remove there.
LeaderShared(p) ==
    \/ \E q \in Creators : Overlap(p, q) /\ Leader[q] = Leader[p]
    \/ \E x \in Dissolvers : Target[x] = Leader[p] /\ found[x] # NoGroup

\* A create that ran at the same time wants the same follower.
FollowerShared(p, f) == \E q \in Creators : Overlap(p, q) /\ f \in FollowerSet(q)

\* A create that reports success leaves the whole group in place, whatever
\* creates ran before it: where no other command works on its leader, the leader
\* serves the group and distributes, and every follower points at it but one a
\* create that ran at the same time wants too.
SuccessMeansGrouped ==
    [][\A p \in Creators :
          outcome[p] = "none" /\ outcome'[p] = "ok" /\ ~LeaderShared(p) =>
              /\ serving'[Leader[p]] = p /\ playing'[Leader[p]]
              /\ \A f \in FollowerSet(p) : follows'[f] = p \/ FollowerShared(p, f)]_vars

\* No step of a create, its rollback included, takes a receiver out of a group
\* that stood when the create began: the old leader's client_list would be left
\* stale (comment on the membership check).  The check comes before the first
\* write and is not repeated, so two creates that run at once can take a
\* receiver from one another.
NeverRepoints ==
    [][\A p \in Creators, d \in Devices :
          Create(p) /\ follows[d] \in standing[p] => follows'[d] = follows[d]]_vars

LeftBehind(p) == {f \in FollowerSet(p) : follows[f] = p}

\* When one request of an uninterrupted create went wrong, no follower that
\* had confirmed it joined is left pointing at the leader.
ConfirmedRolledBack ==
    \A p \in Creators :
        outcome[p] = "failed" /\ ~cancelled[p] /\ faults <= 1 =>
            LeftBehind(p) \cap confirmed[p] = {}

\* However a create fails, Ctrl-C included, no follower that had confirmed it
\* joined is left pointing at the leader (comment on rollbackPartial: it
\* "resets only the followers we already confirmed").
ConfirmedAlwaysRolledBack ==
    \A p \in Creators :
        outcome[p] = "failed" => LeftBehind(p) \cap confirmed[p] = {}

\* When one request of an uninterrupted create went wrong, no leader is left
\* distributing to followers that do not point at it.
NoStreamIntoTheVoid ==
    \A p \in Creators :
        /\ outcome[p] = "failed" /\ ~cancelled[p] /\ faults <= 1
        /\ playing[Leader[p]]
        => serving[Leader[p]] # p

=============================================================================
