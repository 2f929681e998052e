-------------------------- MODULE LinkGroup_proofs --------------------------
(***************************************************************************)
(* Proofs about LinkGroup, for any receivers, groups and commands.         *)
(***************************************************************************)
EXTENDS LinkGroup, TLAPS

-----------------------------------------------------------------------------
(* What holds of the receivers and of every answer.                        *)

\* A create has at least one follower, each a receiver, as its leader is.
LEMMA Peers ==
    ASSUME NEW p \in Creators
    PROVE  /\ p \in Groups /\ p # NoGroup /\ p \in Invocations
           /\ Leader[p] \in Devices
           /\ Len(Followers[p]) \in Nat /\ Len(Followers[p]) >= 1
           /\ \A i \in 1..Len(Followers[p]) :
                 Followers[p][i] \in Devices /\ Followers[p][i] \in FollowerSet(p)
           /\ \A f \in FollowerSet(p) : \E i \in 1..Len(Followers[p]) : f = Followers[p][i]
<1>1. Followers[p] \in Seq(Devices) /\ Followers[p] # <<>>
  BY LinkAssumption
<1>2. Len(Followers[p]) \in Nat /\ DOMAIN Followers[p] = 1..Len(Followers[p])
      /\ Len(Followers[p]) # 0
  BY <1>1
<1>3. \A i \in 1..Len(Followers[p]) : Followers[p][i] \in Devices
  BY <1>1
<1> QED
  BY <1>2, <1>3, LinkAssumption DEF FollowerSet, Invocations

\* An answer counts against the bound unless Ctrl-C is what went wrong.
LEMMA Answers ==
    ASSUME TypeOK, NEW p \in Invocations, NEW r, Answered(p, r)
    PROVE  /\ r \in {"ok", "refused", "lost", "cut"}
           /\ faults' \in 0..MaxFaults
           /\ cancelled' \in [Invocations -> BOOLEAN]
           /\ \A q \in Invocations : cancelled[q] => cancelled'[q]
           /\ \A q \in Invocations : q # p => cancelled'[q] = cancelled[q]
           /\ faults <= faults'
           /\ r # "ok" /\ ~cancelled'[p] => faults' = faults + 1
<1>1. faults \in Nat /\ MaxFaults \in Nat
  BY LinkAssumption DEF TypeOK
<1>2. CASE cancelled[p]
  <2>1. r = "refused" /\ faults' = faults /\ cancelled'[p]
    BY <1>2 DEF Answered, Replies, TypeOK
  <2> QED
    BY <1>2, <2>1 DEF Answered, TypeOK
<1>3. CASE ~cancelled[p]
  <2>1. r \in {"ok", "refused", "lost", "cut"}
    BY <1>3 DEF Answered, Replies
  <2>2. r \in {"refused", "lost"} => faults < MaxFaults
    BY <1>3 DEF Answered, Replies
  <2>3. cancelled' \in [Invocations -> BOOLEAN]
    BY DEF Answered, TypeOK
  <2>4. \A q \in Invocations : q # p => cancelled'[q] = cancelled[q]
    BY DEF Answered, TypeOK
  <2>5. cancelled'[p] <=> r = "cut"
    BY <1>3 DEF Answered, TypeOK
  <2>6. faults' = IF r \in {"refused", "lost"} THEN faults + 1 ELSE faults
    BY <1>3 DEF Answered
  <2>7. faults' \in 0..MaxFaults /\ faults <= faults'
    BY <1>1, <2>2, <2>6 DEF TypeOK
  <2>8. r # "ok" /\ ~cancelled'[p] => faults' = faults + 1
    BY <2>1, <2>5, <2>6
  <2>9. \A q \in Invocations : cancelled[q] => cancelled'[q]
    BY <1>3, <2>4
  <2> QED
    BY <2>1, <2>3, <2>4, <2>7, <2>8, <2>9
<1> QED
  BY <1>2, <1>3

-----------------------------------------------------------------------------
(* The invariants.                                                         *)

\* Where a create can be, and a dissolve.
CreateStages   == {"check", "server", "client", "start", "stop", "reset", "done"}
DissolveStages == {"read", "remove", "halt", "done"}

\* Where an invocation is fits what it is, what it is at and whether it ended.
Shape ==
    /\ \A p \in Creators :
          /\ pc[p] \in CreateStages
          /\ pc[p] \in {"check", "client"} => at[p] <= Len(Followers[p])
          /\ pc[p] = "server" => at[p] = 1
    /\ \A p \in Dissolvers :
          /\ pc[p] \in DissolveStages
          /\ pc[p] \in {"remove", "halt"} => found[p] # NoGroup
    /\ \A p \in Invocations : outcome[p] # "none" <=> pc[p] = "done"

\* The first n followers of a create.
First(p, n) == {Followers[p][i] : i \in 1..n}

\* The followers that confirmed are among those the create has passed, and then
\* among those its rollback resets.
Progress(p) ==
    /\ pc[p] \in {"check", "server"} => confirmed[p] = {}
    /\ pc[p] = "client" => confirmed[p] \subseteq First(p, at[p] - 1)
    /\ pc[p] = "start" => confirmed[p] \subseteq First(p, Len(Followers[p]))
    /\ pc[p] \in {"stop", "reset"} => confirmed[p] \subseteq First(p, undo[p])

\* Nothing went wrong with a create but what made it fail.
Clean(p) == ~cancelled[p] /\ faults <= 1

\* A rollback has its fault; while that is the only one, what it has passed is
\* reset.
Undone(p) ==
    /\ pc[p] = "stop" => at[p] = 1
    /\ pc[p] \in {"stop", "reset"} /\ ~cancelled[p] => faults >= 1
    /\ pc[p] = "reset" /\ Clean(p) =>
          \A i \in 1..undo[p] : i < at[p] => follows[Followers[p][i]] # p
    /\ outcome[p] = "failed" /\ Clean(p) =>
          \A f \in confirmed[p] : follows[f] # p

RollbackInv == \A p \in Creators : Progress(p) /\ Undone(p)

\* Creates of different leaders.
OwnLeaders == \A p, q \in Creators : p # q => Leader[p] # Leader[q]

\* A leader is given its group by the create of it, and is silenced by its
\* rollback.
StreamInv ==
    \A p \in Creators :
        /\ pc[p] \in {"check", "server"} => serving[Leader[p]] # p
        /\ pc[p] \in {"reset", "done"} /\ outcome[p] # "ok" /\ Clean(p) =>
              ~(serving[Leader[p]] = p /\ playing[Leader[p]])

\* The groups that stood when a create began are of creates that are over.
StandInv ==
    \A p \in Creators :
        /\ ~Begun(p) => standing[p] = {}
        /\ \A q \in Creators : q \in standing[p] => pc[q] = "done"

\* The followers whose role a create that is not over has read.
Seen(p) ==
    IF pc[p] = "check" THEN 1..(at[p] - 1)
    ELSE IF pc[p] = "done" THEN {} ELSE DOMAIN Followers[p]

\* A follower that was found free does not get into a group that stood then.
FreeInv ==
    \A p \in Creators : \A i \in Seen(p) : follows[Followers[p][i]] \notin standing[p]

\* A follower is where a create has pointed it, or wanted elsewhere.
Held(p, f) == follows[f] = p \/ FollowerShared(p, f)

\* What a create that has not failed has built so far, nobody else being at work
\* on its leader.
Built(p) ==
    ~LeaderShared(p) =>
        /\ pc[p] \in {"client", "start"} => serving[Leader[p]] = p
        /\ pc[p] = "client" => \A f \in First(p, at[p] - 1) : Held(p, f)
        /\ pc[p] = "start"  => \A f \in FollowerSet(p) : Held(p, f)

BuiltInv == \A p \in Creators : Built(p)

-----------------------------------------------------------------------------
(* Types.                                                                  *)

\* The state before any command is in its domain.
LEMMA TypeInit == Init => TypeOK /\ Shape
<1> SUFFICES ASSUME Init PROVE TypeOK /\ Shape
  OBVIOUS
<1>1. PICK old \in {{}} \cup {{g} : g \in Groups \ Creators} :
          /\ serving = [d \in Devices |->
                IF \E g \in old : Leader[g] = d
                  THEN CHOOSE g \in old : Leader[g] = d ELSE NoGroup]
          /\ follows = [d \in Devices |->
                IF \E g \in old : d \in FollowerSet(g)
                  THEN CHOOSE g \in old : d \in FollowerSet(g) ELSE NoGroup]
          /\ playing = [d \in Devices |-> \E g \in old : Leader[g] = d]
  BY DEF Init
<1>2. old \subseteq Groups
  BY <1>1
<1>3. serving \in [Devices -> Groups \cup {NoGroup}]
  BY <1>1, <1>2
<1>4. follows \in [Devices -> Groups \cup {NoGroup}]
  BY <1>1, <1>2
<1>5. playing \in [Devices -> BOOLEAN]
  BY <1>1
<1>6. \A p \in Creators : at[p] = 1 /\ undo[p] = 0 /\ Len(Followers[p]) \in Nat
                          /\ Len(Followers[p]) >= 1
  BY Peers DEF Init
<1>7. TypeOK
  BY <1>3, <1>4, <1>5, <1>6, LinkAssumption DEF Init, TypeOK, Stages
<1>8. Shape
  BY <1>6, LinkAssumption DEF Init, Shape, Invocations, CreateStages, DissolveStages
<1> QED
  BY <1>7, <1>8

\* Going on touches the one command.
LEMMA GotoStep ==
    ASSUME TypeOK, NEW p \in Invocations, NEW w \in Stages, Goto(p, w)
    PROVE  /\ pc' \in [Invocations -> Stages] /\ pc'[p] = w
           /\ \A q \in Invocations : q # p => pc'[q] = pc[q]
BY DEF TypeOK, Goto

\* Ending does, too.
LEMMA EndStep ==
    ASSUME TypeOK, NEW p \in Invocations, NEW how \in {"ok", "failed"}, End(p, how)
    PROVE  /\ pc' \in [Invocations -> Stages] /\ pc'[p] = "done"
           /\ outcome' \in [Invocations -> {"none", "ok", "failed"}] /\ outcome'[p] = how
           /\ \A q \in Invocations : q # p => pc'[q] = pc[q] /\ outcome'[q] = outcome[q]
BY DEF TypeOK, End, Goto, Stages

\* After a follower comes the next one, or what comes after the last.
LEMMA AdvanceStep ==
    ASSUME TypeOK, NEW p \in Creators, NEW w \in Stages, at[p] <= Len(Followers[p]),
           Advance(p, w)
    PROVE  /\ pc' \in [Invocations -> Stages]
           /\ \A q \in Invocations : q # p => pc'[q] = pc[q]
           /\ at' \in [Creators -> Nat]
           /\ \A q \in Creators : q # p => at'[q] = at[q]
           /\ \/ at[p] = Len(Followers[p]) /\ pc'[p] = w /\ at'[p] = 1
              \/ /\ at[p] < Len(Followers[p])
                 /\ pc'[p] = pc[p] /\ at'[p] = at[p] + 1
<1>1. p \in Invocations /\ at[p] \in Nat /\ Len(Followers[p]) \in Nat
  BY Peers DEF TypeOK
<1>2. CASE LastFollower(p)
  <2>1. Goto(p, w) /\ at' = [at EXCEPT ![p] = 1]
    BY <1>2 DEF Advance
  <2>2. at[p] = Len(Followers[p])
    BY <1>2 DEF LastFollower
  <2> QED
    BY <1>1, <2>1, <2>2, GotoStep DEF TypeOK
<1>3. CASE ~LastFollower(p)
  <2>1. pc' = pc /\ at' = [at EXCEPT ![p] = @ + 1]
    BY <1>3 DEF Advance
  <2>2. at[p] < Len(Followers[p])
    BY <1>1, <1>3 DEF LastFollower
  <2> QED
    BY <1>1, <2>1, <2>2 DEF TypeOK
<1> QED
  BY <1>2, <1>3

\* A rollback begins with the number of followers it is given.
LEMMA RollBackStep ==
    ASSUME TypeOK, NEW p \in Creators, NEW n \in 0..Len(Followers[p]), RollBack(p, n)
    PROVE  /\ pc' \in [Invocations -> Stages] /\ pc'[p] = "stop"
           /\ \A q \in Invocations : q # p => pc'[q] = pc[q]
           /\ at' \in [Creators -> Nat] /\ at'[p] = 1
           /\ undo' \in [Creators -> Nat] /\ undo'[p] = n
           /\ \A q \in Creators : q # p => at'[q] = at[q] /\ undo'[q] = undo[q]
<1>1. p \in Invocations /\ n \in Nat
  BY Peers
<1>2. Goto(p, "stop") /\ at' = [at EXCEPT ![p] = 1] /\ undo' = [undo EXCEPT ![p] = n]
  BY DEF RollBack
<1>3. "stop" \in Stages
  BY DEF Stages
<1> QED
  BY <1>1, <1>2, <1>3, GotoStep DEF TypeOK

\* What a step of a create does to the other commands, and where it leaves its
\* own: nothing, and in its domain.
Bounded(p) ==
    /\ pc' \in [Invocations -> Stages]
    /\ outcome' \in [Invocations -> {"none", "ok", "failed"}]
    /\ at' \in [Creators -> Nat] /\ undo' \in [Creators -> Nat]
    /\ confirmed' \in [Creators -> SUBSET Devices]
    /\ standing' \in [Creators -> SUBSET Groups]
    /\ pc[p] # "done" /\ Begun(p)'
    /\ Begun(p) => standing'[p] = standing[p]
    /\ \A q \in Creators : q \in standing'[p] => q \in standing[p] \/ pc[q] = "done"
    /\ pc'[p] \in CreateStages /\ (outcome'[p] # "none" <=> pc'[p] = "done")
    /\ at'[p] \in 1..(Len(Followers[p]) + 1) /\ undo'[p] \in 0..Len(Followers[p])
    /\ pc'[p] \in {"check", "client"} => at'[p] <= Len(Followers[p])
    /\ pc'[p] = "server" => at'[p] = 1
    /\ \A q \in Invocations : q # p => pc'[q] = pc[q] /\ outcome'[q] = outcome[q]
    /\ \A q \in Creators : q # p => /\ at'[q] = at[q] /\ undo'[q] = undo[q]
                                    /\ confirmed'[q] = confirmed[q]
                                    /\ standing'[q] = standing[q]

\* What a step of a create or link that forms a group leaves of its counters.
LEMMA CreateBounded ==
    ASSUME TypeOK, Shape, NEW p \in Creators, Create(p)
    PROVE  Bounded(p) /\ found' = found
<1> USE DEF Bounded, Begun, history
<1>1. /\ p \in Invocations /\ Len(Followers[p]) \in Nat /\ Len(Followers[p]) >= 1
      /\ at[p] \in Nat /\ at[p] \in 1..(Len(Followers[p]) + 1)
      /\ undo[p] \in 0..Len(Followers[p])
      /\ pc \in [Invocations -> Stages] /\ outcome \in [Invocations -> {"none", "ok", "failed"}]
      /\ at \in [Creators -> Nat] /\ undo \in [Creators -> Nat]
      /\ confirmed \in [Creators -> SUBSET Devices]
      /\ standing \in [Creators -> SUBSET Groups]
  BY Peers DEF TypeOK
<1>2. /\ pc[p] \in CreateStages /\ (outcome[p] # "none" <=> pc[p] = "done")
      /\ pc[p] \in {"check", "client"} => at[p] <= Len(Followers[p])
      /\ pc[p] = "server" => at[p] = 1
  BY <1>1 DEF Shape
<1>3. \A w \in CreateStages : w \in Stages
  BY DEF Stages, CreateStages
<1> USE <1>1, <1>2
<1>4. CASE Check(p)
  <2>0. /\ standing' \in [Creators -> SUBSET Groups]
        /\ at[p] > 1 => standing'[p] = standing[p]
        /\ \A q \in Creators : q \in standing'[p] => q \in standing[p] \/ pc[q] = "done"
        /\ \A q \in Creators : q # p => standing'[q] = standing[q]
    <3>1. NoteStanding(p) /\ Creators \subseteq Groups
      BY <1>4, LinkAssumption DEF Check
    <3> QED
      BY <3>1 DEF NoteStanding
  <2>1. /\ pc[p] = "check" /\ UNCHANGED <<undo, found, confirmed>>
        /\ \/ Advance(p, "server") /\ UNCHANGED outcome
           \/ End(p, "failed") /\ UNCHANGED at
    BY <1>4 DEF Check
  <2>2. CASE Advance(p, "server") /\ UNCHANGED outcome
    BY <2>0, <2>1, <2>2, <1>3, AdvanceStep DEF CreateStages
  <2>3. CASE End(p, "failed") /\ UNCHANGED at
    BY <2>0, <2>1, <2>3, EndStep DEF CreateStages
  <2> QED
    BY <2>1, <2>2, <2>3
<1>5. CASE SetServerInfo(p)
  <2>1. /\ pc[p] = "server" /\ UNCHANGED <<found, outcome, confirmed, standing>>
        /\ \/ Goto(p, "client") /\ UNCHANGED <<at, undo>>
           \/ RollBack(p, 0)
    BY <1>5 DEF SetServerInfo
  <2>2. CASE Goto(p, "client") /\ UNCHANGED <<at, undo>>
    BY <2>1, <2>2, <1>3, GotoStep DEF CreateStages
  <2>3. CASE RollBack(p, 0)
    BY <2>1, <2>3, RollBackStep DEF CreateStages
  <2> QED
    BY <2>1, <2>2, <2>3
<1>6. CASE SetClientInfo(p)
  <2>1. /\ pc[p] = "client" /\ UNCHANGED <<found, outcome, standing>>
        /\ \/ /\ Advance(p, "start") /\ UNCHANGED undo
              /\ confirmed' = [confirmed EXCEPT ![p] = @ \cup {Current(p)}]
           \/ RollBack(p, at[p] - 1) /\ UNCHANGED confirmed
    BY <1>6 DEF SetClientInfo
  <2>2. CASE Advance(p, "start") /\ UNCHANGED undo
             /\ confirmed' = [confirmed EXCEPT ![p] = @ \cup {Current(p)}]
    <3>1. Current(p) \in Devices
      BY <2>1, Peers DEF Current
    <3> QED
      BY <2>1, <2>2, <3>1, <1>3, AdvanceStep DEF CreateStages
  <2>3. CASE RollBack(p, at[p] - 1) /\ UNCHANGED confirmed
    <3>1. at[p] - 1 \in 0..Len(Followers[p])
      OBVIOUS
    <3> QED
      BY <2>1, <2>3, <3>1, RollBackStep DEF CreateStages
  <2> QED
    BY <2>1, <2>2, <2>3
<1>7. CASE StartDistribution(p)
  <2>1. /\ pc[p] = "start" /\ UNCHANGED <<found, confirmed, standing>>
        /\ \/ End(p, "ok") /\ UNCHANGED <<at, undo>>
           \/ RollBack(p, Len(Followers[p])) /\ UNCHANGED outcome
    BY <1>7 DEF StartDistribution
  <2>2. CASE End(p, "ok") /\ UNCHANGED <<at, undo>>
    BY <2>1, <2>2, EndStep DEF CreateStages
  <2>3. CASE RollBack(p, Len(Followers[p])) /\ UNCHANGED outcome
    BY <2>1, <2>3, RollBackStep DEF CreateStages
  <2> QED
    BY <2>1, <2>2, <2>3
<1>8. CASE RollBackStop(p)
  <2>1. pc[p] = "stop" /\ Goto(p, "reset") /\ UNCHANGED <<at, undo, found, outcome, history>>
    BY <1>8 DEF RollBackStop
  <2> QED
    BY <2>1, <1>3, GotoStep DEF CreateStages
<1>9. CASE RollBackClient(p)
  <2>1. /\ pc[p] = "reset" /\ at[p] <= undo[p] /\ at' = [at EXCEPT ![p] = @ + 1]
        /\ UNCHANGED <<pc, undo, found, outcome, history>>
    BY <1>9 DEF RollBackClient
  <2> QED
    BY <2>1
<1>10. CASE EndRollBack(p)
  <2>1. pc[p] = "reset" /\ End(p, "failed") /\ UNCHANGED <<at, undo, found, history>>
    BY <1>10 DEF EndRollBack
  <2> QED
    BY <2>1, EndStep DEF CreateStages
<1> QED
  BY <1>4, <1>5, <1>6, <1>7, <1>8, <1>9, <1>10 DEF Create

\* What a step of a create does to the receivers: it gives its leader its own
\* group, points its followers at its leader or at nobody, and starts or stops
\* its leader.
Touches(p) ==
    /\ serving' \in [Devices -> Groups \cup {NoGroup}]
    /\ follows' \in [Devices -> Groups \cup {NoGroup}]
    /\ playing' \in [Devices -> BOOLEAN]
    /\ \A d \in Devices :
          /\ serving'[d] # serving[d] => d = Leader[p] /\ serving'[d] = p /\ pc[p] = "server"
          /\ follows'[d] # follows[d] =>
                /\ d \in FollowerSet(p) /\ follows'[d] \in {p, NoGroup}
                /\ pc[p] \in {"client", "reset"}
                /\ follows'[d] = p => pc[p] = "client"
          /\ playing'[d] # playing[d] => d = Leader[p]

\* The only receivers such a step writes are those of its own group.
LEMMA CreateTouches ==
    ASSUME TypeOK, Shape, NEW p \in Creators, Create(p)
    PROVE  Touches(p)
<1> USE DEF Touches, deviceVars
<1>1. /\ p \in Groups /\ Leader[p] \in Devices
      /\ Len(Followers[p]) \in Nat /\ at[p] \in 1..(Len(Followers[p]) + 1)
      /\ undo[p] \in 0..Len(Followers[p])
      /\ serving \in [Devices -> Groups \cup {NoGroup}]
      /\ follows \in [Devices -> Groups \cup {NoGroup}]
      /\ playing \in [Devices -> BOOLEAN]
  BY Peers DEF TypeOK
<1>2. at[p] <= Len(Followers[p]) => Current(p) \in Devices /\ Current(p) \in FollowerSet(p)
  BY <1>1, Peers DEF Current
<1>3. CASE Check(p) \/ EndRollBack(p)
  <2>1. UNCHANGED <<serving, follows, playing>>
    BY <1>3 DEF Check, EndRollBack
  <2> QED
    BY <2>1, <1>1
<1>4. CASE SetServerInfo(p)
  <2>1. PICK r : SetServing(r, Leader[p], p) /\ UNCHANGED <<follows, playing>>
    BY <1>4 DEF SetServerInfo
  <2>2. pc[p] = "server"
    BY <1>4 DEF SetServerInfo
  <2> QED
    BY <2>1, <2>2, <1>1 DEF SetServing
<1>5. CASE SetClientInfo(p)
  <2>1. PICK r : SetFollows(r, Current(p), p) /\ UNCHANGED <<serving, playing>>
    BY <1>5 DEF SetClientInfo
  <2>2. pc[p] = "client" /\ at[p] <= Len(Followers[p])
    BY <1>5 DEF SetClientInfo, Shape
  <2> QED
    BY <2>1, <2>2, <1>1, <1>2 DEF SetFollows
<1>6. CASE StartDistribution(p)
  <2>1. PICK r : SetPlaying(r, Leader[p], TRUE) /\ UNCHANGED <<serving, follows>>
    BY <1>6 DEF StartDistribution
  <2> QED
    BY <2>1, <1>1 DEF SetPlaying
<1>8. CASE RollBackStop(p)
  <2>1. PICK r : SetPlaying(r, Leader[p], FALSE) /\ UNCHANGED <<serving, follows>>
    BY <1>8 DEF RollBackStop
  <2> QED
    BY <2>1, <1>1 DEF SetPlaying
<1>7. CASE RollBackClient(p)
  <2>1. PICK r : SetFollows(r, Current(p), NoGroup) /\ UNCHANGED <<serving, playing>>
    BY <1>7 DEF RollBackClient
  <2>2. pc[p] = "reset" /\ at[p] <= Len(Followers[p])
    BY <1>7, <1>1 DEF RollBackClient
  <2>3. NoGroup # p
    BY Peers
  <2> QED
    BY <2>1, <2>2, <2>3, <1>1, <1>2 DEF SetFollows
<1> QED
  BY <1>3, <1>4, <1>5, <1>6, <1>7, <1>8 DEF Create

\* Every step of a command is a request or none.
LEMMA CreateAnswers ==
    ASSUME TypeOK, NEW p \in Creators, Create(p)
    PROVE  /\ faults' \in 0..MaxFaults /\ faults <= faults'
           /\ cancelled' \in [Invocations -> BOOLEAN]
           /\ \A q \in Invocations : cancelled[q] => cancelled'[q]
<1>1. CASE EndRollBack(p)
  BY <1>1 DEF EndRollBack, TypeOK
<1>2. CASE ~EndRollBack(p)
  <2>1. \E r : Answered(p, r)
    BY <1>2 DEF Create, Check, SetServerInfo, SetClientInfo, StartDistribution, RollBackStop,
                RollBackClient
  <2> QED
    BY <2>1, Answers, Peers
<1> QED
  BY <1>1, <1>2

\* What a step of a dissolve does: it takes the group from its target and stops
\* it.
LEMMA DissolveStep ==
    ASSUME TypeOK, Shape, NEW p \in Dissolvers, Dissolve(p)
    PROVE  /\ pc' \in [Invocations -> Stages] /\ pc'[p] \in DissolveStages
           /\ outcome' \in [Invocations -> {"none", "ok", "failed"}]
           /\ outcome'[p] # "none" <=> pc'[p] = "done"
           /\ \A q \in Invocations : q # p => pc'[q] = pc[q] /\ outcome'[q] = outcome[q]
           /\ UNCHANGED <<at, undo, follows, confirmed, standing>>
           /\ found' \in [Dissolvers -> Groups \cup {NoGroup}]
           /\ pc'[p] \in {"remove", "halt"} => found'[p] # NoGroup
           /\ \A x \in Dissolvers : x # p => found'[x] = found[x]
           /\ found[p] # NoGroup => found'[p] # NoGroup
           /\ faults' \in 0..MaxFaults /\ faults <= faults'
           /\ cancelled' \in [Invocations -> BOOLEAN]
           /\ \A q \in Invocations : cancelled[q] => cancelled'[q]
           /\ serving' \in [Devices -> Groups \cup {NoGroup}]
           /\ playing' \in [Devices -> BOOLEAN]
           /\ \A d \in Devices :
                 /\ serving'[d] # serving[d] =>
                       d = Target[p] /\ serving'[d] = NoGroup /\ found[p] # NoGroup
                 /\ playing'[d] # playing[d] => d = Target[p] /\ ~playing'[d]
<1> USE DEF deviceVars, history
<1>1. /\ p \in Invocations /\ Target[p] \in Devices
      /\ pc \in [Invocations -> Stages] /\ outcome \in [Invocations -> {"none", "ok", "failed"}]
      /\ found \in [Dissolvers -> Groups \cup {NoGroup}]
      /\ serving \in [Devices -> Groups \cup {NoGroup}] /\ playing \in [Devices -> BOOLEAN]
  BY LinkAssumption DEF TypeOK, Invocations
<1>2. /\ outcome[p] # "none" <=> pc[p] = "done"
      /\ pc[p] \in {"remove", "halt"} => found[p] # NoGroup
  BY <1>1 DEF Shape
<1>3. \A w \in DissolveStages : w \in Stages
  BY DEF Stages, DissolveStages
<1>4. PICK r : Answered(p, r)
  BY DEF Dissolve, ReadTarget, RemoveGroup, StopTarget
<1>5. /\ faults' \in 0..MaxFaults /\ faults <= faults'
      /\ cancelled' \in [Invocations -> BOOLEAN]
      /\ \A q \in Invocations : cancelled[q] => cancelled'[q]
  BY <1>1, <1>4, Answers
<1>6. CASE ReadTarget(p)
  <2>1. /\ UNCHANGED <<at, undo, serving, follows, playing, history>> /\ pc[p] = "read"
        /\ \/ /\ found' = [found EXCEPT ![p] = serving[Target[p]]]
              /\ serving[Target[p]] # NoGroup
              /\ Goto(p, "remove") /\ UNCHANGED outcome
           \/ End(p, "failed") /\ UNCHANGED found
    BY <1>6 DEF ReadTarget
  <2>2. CASE Goto(p, "remove") /\ UNCHANGED outcome
             /\ found' = [found EXCEPT ![p] = serving[Target[p]]]
             /\ serving[Target[p]] # NoGroup
    BY <2>1, <2>2, <1>1, <1>2, <1>3, <1>5, GotoStep DEF DissolveStages
  <2>3. CASE End(p, "failed") /\ UNCHANGED found
    BY <2>1, <2>3, <1>1, <1>2, <1>5, EndStep DEF DissolveStages
  <2> QED
    BY <2>1, <2>2, <2>3
<1>7. CASE RemoveGroup(p)
  <2>1. PICK r2 : SetServing(r2, Target[p], NoGroup)
                  /\ \/ Goto(p, "halt") /\ UNCHANGED outcome
                     \/ End(p, "failed")
    BY <1>7 DEF RemoveGroup
  <2>2. UNCHANGED <<at, undo, found, follows, playing, history>> /\ pc[p] = "remove"
    BY <1>7 DEF RemoveGroup
  <2>3. /\ serving' \in [Devices -> Groups \cup {NoGroup}]
        /\ \A d \in Devices : serving'[d] # serving[d] => d = Target[p] /\ serving'[d] = NoGroup
    BY <2>1, <1>1 DEF SetServing
  <2>4. CASE Goto(p, "halt") /\ UNCHANGED outcome
    BY <2>2, <2>3, <2>4, <1>1, <1>2, <1>3, <1>5, GotoStep DEF DissolveStages
  <2>5. CASE End(p, "failed")
    BY <2>2, <2>3, <2>5, <1>1, <1>2, <1>5, EndStep DEF DissolveStages
  <2> QED
    BY <2>1, <2>4, <2>5
<1>8. CASE StopTarget(p)
  <2>1. PICK r2 : SetPlaying(r2, Target[p], FALSE)
                  /\ End(p, IF r2 = "ok" THEN "ok" ELSE "failed")
    BY <1>8 DEF StopTarget
  <2>2. pc[p] = "halt" /\ UNCHANGED <<at, undo, found, serving, follows, history>>
    BY <1>8 DEF StopTarget
  <2>3. PICK how \in {"ok", "failed"} : End(p, how)
    BY <2>1
  <2>4. /\ playing' \in [Devices -> BOOLEAN]
        /\ \A d \in Devices : playing'[d] # playing[d] => d = Target[p] /\ ~playing'[d]
    BY <2>1, <1>1 DEF SetPlaying
  <2> QED
    BY <2>2, <2>3, <2>4, <1>1, <1>5, EndStep DEF DissolveStages
<1> QED
  BY <1>6, <1>7, <1>8 DEF Dissolve

\* A receiver that lets go of a group changes nothing else.
LEMMA ReleaseStep ==
    ASSUME TypeOK, Release
    PROVE  /\ UNCHANGED <<commandVars, faults, serving, playing, history>>
           /\ follows' \in [Devices -> Groups \cup {NoGroup}]
           /\ \A d \in Devices : follows'[d] # follows[d] =>
                 /\ follows'[d] = NoGroup
                 /\ follows[d] # NoGroup /\ serving[Leader[follows[d]]] # follows[d]
<1>1. PICK d \in Devices :
          /\ follows[d] # NoGroup
          /\ serving[Leader[follows[d]]] # follows[d]
          /\ follows' = [follows EXCEPT ![d] = NoGroup]
  BY DEF Release
<1> QED
  BY <1>1 DEF Release, TypeOK

\* Every step stays in the domain.
LEMMA TypeStep == TypeOK /\ Shape /\ [Next]_vars => TypeOK' /\ Shape'
<1> SUFFICES ASSUME TypeOK, Shape, [Next]_vars PROVE TypeOK' /\ Shape'
  OBVIOUS
<1>0. /\ Creators \subseteq Invocations /\ Dissolvers \subseteq Invocations
      /\ \A p \in Creators : p \notin Dissolvers
      /\ \A p \in Invocations : p \in Creators \/ p \in Dissolvers
  BY LinkAssumption DEF Invocations
<1>1. ASSUME NEW p \in Creators, Create(p) PROVE TypeOK' /\ Shape'
  <2>1. Bounded(p) /\ found' = found /\ Touches(p)
    BY <1>1, CreateBounded, CreateTouches
  <2>2. faults' \in 0..MaxFaults /\ cancelled' \in [Invocations -> BOOLEAN]
    BY <1>1, CreateAnswers
  <2>3. /\ \A q \in Creators : at'[q] \in 1..(Len(Followers[q]) + 1)
        /\ \A q \in Creators : undo'[q] \in 0..Len(Followers[q])
    BY <2>1 DEF Bounded, TypeOK
  <2>4. TypeOK'
    BY <2>1, <2>2, <2>3 DEF Bounded, Touches, TypeOK
  <2>5. Shape'
    <3>1. \A q \in Dissolvers : pc'[q] = pc[q] /\ found'[q] = found[q]
      BY <1>0, <2>1 DEF Bounded
    <3>2. ASSUME NEW q \in Creators
          PROVE  /\ pc'[q] \in CreateStages
                 /\ pc'[q] \in {"check", "client"} => at'[q] <= Len(Followers[q])
                 /\ pc'[q] = "server" => at'[q] = 1
      <4>1. CASE q = p
        BY <2>1, <4>1 DEF Bounded
      <4>2. CASE q # p
        <5>1. pc'[q] = pc[q] /\ at'[q] = at[q]
          BY <1>0, <2>1, <4>2 DEF Bounded
        <5> QED
          BY <5>1 DEF Shape
      <4> QED
        BY <4>1, <4>2
    <3>3. ASSUME NEW q \in Invocations PROVE outcome'[q] # "none" <=> pc'[q] = "done"
      BY <1>0, <2>1, <3>3 DEF Bounded, Shape
    <3> QED
      BY <3>1, <3>2, <3>3 DEF Shape
  <2> QED
    BY <2>4, <2>5
<1>2. ASSUME NEW p \in Dissolvers, Dissolve(p) PROVE TypeOK' /\ Shape'
  <2>1. TypeOK'
    BY <1>2, DissolveStep DEF TypeOK
  <2>2. Shape'
    <3>1. UNCHANGED at /\ \A x \in Dissolvers : x # p => found'[x] = found[x]
      BY <1>2, DissolveStep
    <3>2. /\ \A q \in Invocations : q # p => pc'[q] = pc[q] /\ outcome'[q] = outcome[q]
          /\ pc'[p] \in DissolveStages /\ (outcome'[p] # "none" <=> pc'[p] = "done")
          /\ pc'[p] \in {"remove", "halt"} => found'[p] # NoGroup
      BY <1>2, DissolveStep
    <3> QED
      BY <1>0, <3>1, <3>2 DEF Shape
  <2> QED
    BY <2>1, <2>2
<1>3. ASSUME NEW p \in Invocations, Cancel(p) PROVE TypeOK' /\ Shape'
  BY <1>3 DEF Cancel, deviceVars, history, TypeOK, Shape
<1>4. ASSUME Release PROVE TypeOK' /\ Shape'
  BY <1>4, ReleaseStep DEF commandVars, history, TypeOK, Shape
<1>5. CASE UNCHANGED vars
  BY <1>5 DEF vars, commandVars, deviceVars, history, TypeOK, Shape
<1> QED
  BY <1>1, <1>2, <1>3, <1>4, <1>5 DEF Next

\* Every variable stays in its domain: no follower past the last is ever set up
\* or reset.
THEOREM TypeCorrect == Spec => [](TypeOK /\ Shape)
<1> QED
  BY TypeInit, TypeStep, PTL DEF Spec

-----------------------------------------------------------------------------
(* What the others leave to a create.                                      *)

\* No other command and no receiver moves a create, undoes that something went
\* wrong with it, or builds its group for it.
Beside(p) ==
    /\ pc'[p] = pc[p] /\ outcome'[p] = outcome[p]
    /\ at'[p] = at[p] /\ undo'[p] = undo[p] /\ confirmed'[p] = confirmed[p]
    /\ standing'[p] = standing[p]
    /\ cancelled[p] => cancelled'[p]
    /\ faults <= faults'
    /\ serving'[Leader[p]] = p => serving[Leader[p]] = p
    /\ \A d \in Devices : follows'[d] = p => follows[d] = p
    /\ OwnLeaders /\ playing'[Leader[p]] => playing[Leader[p]]
    /\ \A d \in Devices : follows'[d] # follows[d] =>
          \/ follows'[d] = NoGroup
          \/ \E q \in Creators : pc[q] = "client" /\ follows'[d] = q

\* What anybody else's step leaves of a group that is being formed.
LEMMA BesideOthers ==
    ASSUME TypeOK, Shape, NEW p \in Creators, [Next]_vars, ~Create(p)
    PROVE  Beside(p)
<1>1. /\ p \in Groups /\ p # NoGroup /\ p \in Invocations /\ Leader[p] \in Devices
      /\ \A f \in FollowerSet(p) : f \in Devices
      /\ p \notin Dissolvers
  BY Peers, LinkAssumption
<1>2. ASSUME NEW q \in Creators, Create(q) PROVE Beside(p)
  <2>1. q # p /\ q \in Groups /\ q # NoGroup
    BY <1>2, Peers
  <2>2. Bounded(q) /\ Touches(q)
    BY <1>2, CreateBounded, CreateTouches
  <2>3. faults <= faults' /\ (cancelled[p] => cancelled'[p])
    BY <1>1, <1>2, CreateAnswers
  <2>4. /\ pc'[p] = pc[p] /\ outcome'[p] = outcome[p]
        /\ at'[p] = at[p] /\ undo'[p] = undo[p] /\ confirmed'[p] = confirmed[p]
        /\ standing'[p] = standing[p]
    BY <1>1, <2>1, <2>2 DEF Bounded
  <2>5. /\ serving'[Leader[p]] = p => serving[Leader[p]] = p
        /\ \A d \in Devices : follows'[d] = p => follows[d] = p
    BY <1>1, <2>1, <2>2 DEF Touches
  <2>6. OwnLeaders /\ playing'[Leader[p]] => playing[Leader[p]]
    BY <1>1, <2>1, <2>2 DEF Touches, OwnLeaders
  <2>7. \A d \in Devices : follows'[d] # follows[d] =>
           follows'[d] = NoGroup \/ (pc[q] = "client" /\ follows'[d] = q)
    BY <2>2 DEF Touches
  <2> QED
    BY <2>3, <2>4, <2>5, <2>6, <2>7 DEF Beside
<1>3. ASSUME NEW q \in Dissolvers, Dissolve(q) PROVE Beside(p)
  <2>1. /\ \A o \in Invocations : o # q => pc'[o] = pc[o] /\ outcome'[o] = outcome[o]
        /\ UNCHANGED <<at, undo, follows, confirmed, standing>>
    BY <1>3, DissolveStep
  <2>2. faults <= faults' /\ \A o \in Invocations : cancelled[o] => cancelled'[o]
    BY <1>3, DissolveStep
  <2>3. \A d \in Devices :
           /\ serving'[d] # serving[d] => d = Target[q] /\ serving'[d] = NoGroup
           /\ playing'[d] # playing[d] => d = Target[q] /\ ~playing'[d]
    BY <1>3, DissolveStep
  <2>4. serving'[Leader[p]] = p => serving[Leader[p]] = p
    BY <1>1, <2>3
  <2>5. playing'[Leader[p]] => playing[Leader[p]]
    BY <1>1, <2>3
  <2> QED
    BY <1>1, <2>1, <2>2, <2>4, <2>5 DEF Beside
<1>4. ASSUME NEW q \in Invocations, Cancel(q) PROVE Beside(p)
  <2>1. UNCHANGED <<pc, at, undo, outcome, faults, serving, follows, playing, history>>
    BY <1>4 DEF Cancel, deviceVars
  <2>2. cancelled[p] => cancelled'[p]
    BY <1>4 DEF Cancel, TypeOK
  <2>3. faults \in Nat
    BY LinkAssumption DEF TypeOK
  <2> QED
    BY <2>1, <2>2, <2>3 DEF Beside, history
<1>5. ASSUME Release PROVE Beside(p)
  <2>1. UNCHANGED <<pc, at, undo, outcome, cancelled, faults, serving, playing, history>>
    BY <1>5, ReleaseStep DEF commandVars
  <2>2. \A d \in Devices : follows'[d] # follows[d] =>
           /\ follows'[d] = NoGroup
           /\ follows[d] # NoGroup /\ serving[Leader[follows[d]]] # follows[d]
    BY <1>5, ReleaseStep
  <2>3. faults \in Nat
    BY LinkAssumption DEF TypeOK
  <2> QED
    BY <1>1, <2>1, <2>2, <2>3 DEF Beside, history
<1>6. CASE UNCHANGED vars
  <2>1. faults \in Nat
    BY LinkAssumption DEF TypeOK
  <2> QED
    BY <1>6, <2>1 DEF vars, commandVars, deviceVars, history, Beside
<1> QED
  BY <1>2, <1>3, <1>4, <1>5, <1>6 DEF Next

-----------------------------------------------------------------------------
(* A rollback.                                                             *)

\* No create has begun.
LEMMA RollbackInit == Init => RollbackInv
<1> SUFFICES ASSUME Init, NEW p \in Creators PROVE Progress(p) /\ Undone(p)
  BY DEF RollbackInv
<1>1. /\ p \in Invocations /\ pc[p] = "check" /\ outcome[p] = "none" /\ confirmed[p] = {}
  BY Peers DEF Init
<1> QED
  BY <1>1 DEF Progress, Undone

\* One step of the create itself keeps what it has passed, and what its rollback
\* has reset, apart.
LEMMA RollbackOwnStep ==
    ASSUME TypeOK, Shape, NEW p \in Creators, Create(p), Progress(p), Undone(p)
    PROVE  Progress(p)' /\ Undone(p)'
<1>1. /\ p \in Invocations /\ Len(Followers[p]) \in Nat /\ Len(Followers[p]) >= 1
      /\ at[p] \in Nat /\ at[p] >= 1 /\ undo[p] \in 0..Len(Followers[p])
      /\ faults \in Nat /\ confirmed \in [Creators -> SUBSET Devices]
      /\ p \in Groups /\ p # NoGroup
  BY Peers, LinkAssumption DEF TypeOK
<1>2. /\ pc[p] \in {"check", "client"} => at[p] <= Len(Followers[p])
      /\ pc[p] = "server" => at[p] = 1
      /\ outcome[p] # "none" <=> pc[p] = "done"
  BY <1>1 DEF Shape
<1>3. Bounded(p)
  BY CreateBounded
<1>4. faults' \in Nat /\ faults <= faults'
  BY CreateAnswers, LinkAssumption
<1>5. CASE Check(p)
  <2>1. pc[p] = "check" /\ UNCHANGED confirmed
    BY <1>5 DEF Check
  <2>2. confirmed'[p] = {}
    BY <2>1 DEF Progress
  <2>3. pc'[p] \in {"check", "server", "done"}
    BY <1>1, <1>2, <1>5, <2>1, AdvanceStep, EndStep DEF Check, Stages
  <2> QED
    BY <2>2, <2>3 DEF Progress, Undone
<1>6. CASE SetServerInfo(p)
  <2>1. PICK r : /\ Answered(p, r)
                 /\ \/ r = "ok" /\ Goto(p, "client") /\ UNCHANGED <<at, undo>>
                    \/ r # "ok" /\ RollBack(p, 0)
    BY <1>6 DEF SetServerInfo, history
  <2>2. pc[p] = "server" /\ UNCHANGED <<outcome, confirmed>>
    BY <1>6 DEF SetServerInfo, history
  <2>3. confirmed'[p] = {} /\ outcome'[p] = "none"
    BY <1>2, <2>2 DEF Progress
  <2>4. CASE r = "ok"
    <3>1. pc'[p] = "client"
      BY <1>1, <2>1, <2>4, GotoStep DEF Stages
    <3> QED
      BY <2>3, <3>1 DEF Progress, Undone
  <2>5. CASE r # "ok"
    <3>1. pc'[p] = "stop" /\ at'[p] = 1
      BY <1>1, <2>1, <2>5, RollBackStep
    <3>2. ~cancelled'[p] => faults' >= 1
      BY <1>1, <2>1, <2>5, Answers
    <3> QED
      BY <2>3, <3>1, <3>2 DEF Progress, Undone
  <2> QED
    BY <2>4, <2>5
<1>7. CASE SetClientInfo(p)
  <2>1. PICK r : /\ Answered(p, r)
                 /\ \/ /\ r = "ok" /\ Advance(p, "start") /\ UNCHANGED undo
                       /\ confirmed' = [confirmed EXCEPT ![p] = @ \cup {Current(p)}]
                    \/ /\ r # "ok" /\ RollBack(p, at[p] - 1) /\ UNCHANGED confirmed
    BY <1>7 DEF SetClientInfo
  <2>2. pc[p] = "client" /\ UNCHANGED outcome /\ at[p] <= Len(Followers[p])
    BY <1>2, <1>7 DEF SetClientInfo
  <2>3. confirmed[p] \subseteq First(p, at[p] - 1) /\ outcome'[p] = "none"
    BY <1>2, <2>2 DEF Progress
  <2>4. CASE r = "ok"
    <3>1. confirmed'[p] = confirmed[p] \cup {Followers[p][at[p]]}
      BY <1>1, <2>1, <2>4 DEF Current
    <3>2. confirmed'[p] \subseteq First(p, at[p])
      BY <1>1, <2>3, <3>1 DEF First
    <3>3. \/ at[p] = Len(Followers[p]) /\ pc'[p] = "start"
          \/ pc'[p] = "client" /\ at'[p] = at[p] + 1
      BY <2>1, <2>2, <2>4, AdvanceStep DEF Stages
    <3>4. at'[p] = at[p] + 1 => at'[p] - 1 = at[p]
      BY <1>1
    <3> QED
      BY <2>3, <3>2, <3>3, <3>4 DEF Progress, Undone
  <2>5. CASE r # "ok"
    <3>1. pc'[p] = "stop" /\ at'[p] = 1 /\ undo'[p] = at[p] - 1 /\ confirmed' = confirmed
      BY <1>1, <2>1, <2>2, <2>5, RollBackStep
    <3>2. ~cancelled'[p] => faults' >= 1
      BY <1>1, <2>1, <2>5, Answers
    <3> QED
      BY <2>3, <3>1, <3>2 DEF Progress, Undone
  <2> QED
    BY <2>4, <2>5
<1>8. CASE StartDistribution(p)
  <2>1. PICK r : /\ Answered(p, r)
                 /\ \/ r = "ok" /\ End(p, "ok") /\ UNCHANGED <<at, undo>>
                    \/ r # "ok" /\ RollBack(p, Len(Followers[p])) /\ UNCHANGED outcome
    BY <1>8 DEF StartDistribution, history
  <2>2. pc[p] = "start" /\ UNCHANGED confirmed
    BY <1>8 DEF StartDistribution, history
  <2>3. CASE r = "ok"
    <3>1. pc'[p] = "done" /\ outcome'[p] = "ok"
      BY <1>1, <2>1, <2>3, EndStep
    <3> QED
      BY <3>1 DEF Progress, Undone
  <2>4. CASE r # "ok"
    <3>1. /\ pc'[p] = "stop" /\ at'[p] = 1 /\ undo'[p] = Len(Followers[p])
          /\ outcome'[p] = "none"
      BY <1>1, <1>2, <2>1, <2>2, <2>4, RollBackStep
    <3>2. ~cancelled'[p] => faults' >= 1
      BY <1>1, <2>1, <2>4, Answers
    <3> QED
      BY <2>2, <3>1, <3>2 DEF Progress, Undone
  <2> QED
    BY <2>3, <2>4
<1>9. CASE RollBackStop(p)
  <2>1. PICK r : Answered(p, r)
    BY <1>9 DEF RollBackStop, history
  <2>2. pc[p] = "stop" /\ Goto(p, "reset") /\ UNCHANGED <<at, undo, outcome, confirmed>>
    BY <1>9 DEF RollBackStop, history
  <2>3. pc'[p] = "reset" /\ at'[p] = 1 /\ outcome'[p] = "none"
    BY <1>1, <1>2, <2>2, GotoStep DEF Stages, Undone
  <2>4. ~cancelled'[p] => ~cancelled[p]
    BY <1>1, <2>1, Answers
  <2>5. ~cancelled'[p] => faults' >= 1
    BY <1>1, <1>4, <2>2, <2>4 DEF Undone
  <2>6. \A i \in 1..undo'[p] : ~(i < at'[p])
    BY <1>1, <2>2, <2>3
  <2> QED
    BY <2>2, <2>3, <2>5, <2>6 DEF Progress, Undone
<1>10. CASE RollBackClient(p)
  <2>1. PICK r : Answered(p, r) /\ SetFollows(r, Current(p), NoGroup)
    BY <1>10 DEF RollBackClient, history
  <2>2. /\ pc[p] = "reset" /\ at[p] <= undo[p] /\ at' = [at EXCEPT ![p] = @ + 1]
        /\ UNCHANGED <<pc, undo, outcome, confirmed>>
    BY <1>10 DEF RollBackClient, history
  <2>3. at'[p] = at[p] + 1 /\ outcome'[p] = "none"
    BY <1>2, <2>2 DEF TypeOK
  <2>4. /\ ~cancelled'[p] => ~cancelled[p]
        /\ r # "ok" /\ ~cancelled'[p] => faults' = faults + 1
    BY <1>1, <2>1, Answers
  <2>5. ~cancelled'[p] => faults >= 1 /\ faults' >= 1
    BY <1>1, <1>4, <2>2, <2>4 DEF Undone
  <2>6. Clean(p)' => r = "ok" /\ Clean(p)
    BY <1>1, <1>4, <2>4, <2>5 DEF Clean
  <2>7. ASSUME Clean(p)', NEW i \in 1..undo[p], i < at[p] + 1 PROVE follows'[Followers[p][i]] # p
    <3>1. follows' = [follows EXCEPT ![Followers[p][at[p]]] = NoGroup]
      BY <2>1, <2>6, <2>7 DEF SetFollows, Current
    <3>2. follows \in [Devices -> Groups \cup {NoGroup}] /\ Followers[p][i] \in Devices
      BY <1>1, Peers DEF TypeOK
    <3>3. CASE i = at[p]
      BY <1>1, <3>1, <3>2, <3>3
    <3>4. CASE i < at[p]
      <4>1. follows[Followers[p][i]] # p
        BY <2>2, <2>6, <2>7, <3>4 DEF Undone
      <4> QED
        BY <1>1, <3>1, <3>2, <4>1
    <3> QED
      BY <1>1, <2>7, <3>3, <3>4
  <2> QED
    BY <2>2, <2>3, <2>5, <2>7 DEF Progress, Undone
<1>11. CASE EndRollBack(p)
  <2>1. /\ pc[p] = "reset" /\ at[p] > undo[p]
        /\ UNCHANGED <<cancelled, faults, follows, confirmed>>
    BY <1>11 DEF EndRollBack, deviceVars, history
  <2>2. pc'[p] = "done"
    BY <1>1, <1>11, EndStep DEF EndRollBack
  <2>3. Clean(p)' => Clean(p)
    BY <2>1 DEF Clean
  <2>4. confirmed[p] \subseteq First(p, undo[p])
    BY <2>1 DEF Progress
  <2>5. ASSUME Clean(p), NEW f \in confirmed[p] PROVE follows[f] # p
    <3>1. PICK i \in 1..undo[p] : f = Followers[p][i]
      BY <2>4, <2>5 DEF First
    <3>2. i < at[p]
      BY <1>1, <2>1
    <3> QED
      BY <2>1, <2>5, <3>1, <3>2 DEF Undone
  <2> QED
    BY <2>1, <2>2, <2>3, <2>5 DEF Progress, Undone
<1> QED
  BY <1>5, <1>6, <1>7, <1>8, <1>9, <1>10, <1>11 DEF Create

\* Nor does any other step take back what a rollback has reset.
LEMMA RollbackStep ==
    TypeOK /\ Shape /\ RollbackInv /\ [Next]_vars => RollbackInv'
<1> SUFFICES ASSUME TypeOK, Shape, RollbackInv, [Next]_vars, NEW p \in Creators
             PROVE  Progress(p)' /\ Undone(p)'
  BY DEF RollbackInv
<1>1. Progress(p) /\ Undone(p)
  BY DEF RollbackInv
<1>2. CASE Create(p)
  BY <1>1, <1>2, RollbackOwnStep
<1>3. CASE ~Create(p)
  <2>1. Beside(p)
    BY <1>3, BesideOthers
  <2>2. Progress(p)'
    BY <1>1, <2>1 DEF Beside, Progress, First
  <2>3. faults \in Nat /\ faults' \in Nat
    BY TypeStep, LinkAssumption DEF TypeOK
  <2>4. /\ Clean(p)' => Clean(p)
        /\ ~cancelled'[p] => ~cancelled[p]
        /\ faults >= 1 => faults' >= 1
    BY <2>1, <2>3 DEF Beside, Clean
  <2>5. pc'[p] \in {"stop", "reset"} /\ ~cancelled'[p] => faults' >= 1
    BY <1>1, <2>1, <2>4 DEF Beside, Undone
  <2>6. ASSUME pc'[p] = "reset", Clean(p)', NEW i \in 1..undo'[p], i < at'[p]
        PROVE  follows'[Followers[p][i]] # p
    <3>1. i \in 1..Len(Followers[p]) /\ Followers[p][i] \in Devices
      BY <2>1, <2>6, Peers DEF Beside, TypeOK
    <3>2. follows[Followers[p][i]] # p
      BY <1>1, <2>1, <2>4, <2>6 DEF Beside, Undone
    <3> QED
      BY <2>1, <3>1, <3>2 DEF Beside
  <2>7. ASSUME outcome'[p] = "failed", Clean(p)', NEW f \in confirmed'[p]
        PROVE  follows'[f] # p
    <3>1. f \in Devices
      BY <2>1, <2>7 DEF Beside, TypeOK
    <3> QED
      BY <3>1, <1>1, <2>1, <2>4, <2>7 DEF Beside, Undone
  <2> QED
    BY <1>1, <2>1, <2>2, <2>5, <2>6, <2>7 DEF Beside, Undone
<1> QED
  BY <1>2, <1>3

\* When one request of an uninterrupted create went wrong, no follower that had
\* confirmed it joined is left pointing at its leader, however many creates and
\* dissolves run and whatever receivers they share.
THEOREM RollbackComplete == Spec => []ConfirmedRolledBack
<1>1. RollbackInv => ConfirmedRolledBack
  BY DEF RollbackInv, Undone, Clean, ConfirmedRolledBack, LeftBehind
<1> QED
  BY <1>1, TypeCorrect, RollbackInit, RollbackStep, PTL DEF Spec

-----------------------------------------------------------------------------
(* The stream of a create that failed.                                     *)

\* At first no leader has the group of a create.
LEMMA StreamInit == Init => StreamInv
<1> SUFFICES ASSUME Init, NEW p \in Creators
             PROVE  pc[p] = "check" /\ outcome[p] = "none" /\ serving[Leader[p]] # p
  BY DEF StreamInv
<1>1. PICK old \in {{}} \cup {{g} : g \in Groups \ Creators} :
          serving = [d \in Devices |->
                IF \E g \in old : Leader[g] = d
                  THEN CHOOSE g \in old : Leader[g] = d ELSE NoGroup]
  BY DEF Init
<1>2. \A g \in old : g # p
  BY <1>1
<1>3. serving[Leader[p]] # p
  BY <1>1, <1>2, Peers
<1> QED
  BY <1>3, Peers DEF Init

\* A create silences its leader before it resets its followers.
LEMMA StreamStep ==
    TypeOK /\ Shape /\ RollbackInv /\ OwnLeaders /\ StreamInv /\ [Next]_vars => StreamInv'
<1> SUFFICES ASSUME TypeOK, Shape, RollbackInv, OwnLeaders, StreamInv, [Next]_vars,
                    NEW p \in Creators
             PROVE  /\ pc'[p] \in {"check", "server"} => serving'[Leader[p]] # p
                    /\ pc'[p] \in {"reset", "done"} /\ outcome'[p] # "ok" /\ Clean(p)' =>
                          ~(serving'[Leader[p]] = p /\ playing'[Leader[p]])
  BY DEF StreamInv
<1>1. /\ pc[p] \in {"check", "server"} => serving[Leader[p]] # p
      /\ pc[p] \in {"reset", "done"} /\ outcome[p] # "ok" /\ Clean(p) =>
            ~(serving[Leader[p]] = p /\ playing[Leader[p]])
  BY DEF StreamInv
<1>2. /\ p \in Invocations /\ Leader[p] \in Devices
      /\ faults \in Nat /\ faults' \in Nat /\ faults <= faults'
      /\ outcome[p] # "none" <=> pc[p] = "done"
  <2>1. faults \in Nat /\ faults' \in Nat
    BY TypeStep, LinkAssumption DEF TypeOK
  <2>2. faults <= faults'
    BY <2>1, CreateAnswers, BesideOthers DEF Beside
  <2> QED
    BY <2>1, <2>2, Peers DEF Shape
<1>3. CASE ~Create(p)
  <2>1. Beside(p)
    BY <1>3, BesideOthers
  <2>2. Clean(p)' => Clean(p)
    BY <1>2, <2>1 DEF Beside, Clean
  <2> QED
    BY <1>1, <2>1, <2>2 DEF Beside
<1>4. CASE Check(p)
  <2>1. pc[p] = "check" /\ UNCHANGED serving
    BY <1>4 DEF Check, deviceVars
  <2> QED
    BY <1>1, <2>1
<1>5. CASE SetServerInfo(p)
  <2>1. pc'[p] \in {"client", "stop"}
    BY <1>2, <1>5, GotoStep, RollBackStep, Peers DEF SetServerInfo, Stages
  <2> QED
    BY <2>1
<1>6. CASE SetClientInfo(p)
  <2>1. pc[p] = "client" /\ at[p] <= Len(Followers[p]) /\ at[p] - 1 \in 0..Len(Followers[p])
    BY <1>6, Peers DEF SetClientInfo, Shape, TypeOK
  <2>2. pc'[p] \in {"client", "start", "stop"}
    BY <1>6, <2>1, AdvanceStep, RollBackStep DEF SetClientInfo, Stages
  <2> QED
    BY <2>2
<1>7. CASE StartDistribution(p)
  <2>1. /\ pc[p] = "start"
        /\ \/ End(p, "ok")
           \/ RollBack(p, Len(Followers[p]))
    BY <1>7 DEF StartDistribution, history
  <2>2. pc'[p] = "stop" \/ (outcome'[p] = "ok" /\ pc'[p] = "done")
    <3>1. CASE End(p, "ok")
      BY <1>2, <3>1, EndStep
    <3>2. CASE RollBack(p, Len(Followers[p]))
      <4>1. Len(Followers[p]) \in 0..Len(Followers[p])
        BY Peers
      <4> QED
        BY <3>2, <4>1, RollBackStep, Peers
    <3> QED
      BY <2>1, <3>1, <3>2
  <2> QED
    BY <2>2
<1>8. CASE RollBackStop(p)
  <2>1. PICK r : Answered(p, r) /\ SetPlaying(r, Leader[p], FALSE)
    BY <1>8 DEF RollBackStop, history
  <2>2. pc[p] = "stop" /\ Goto(p, "reset")
    BY <1>8 DEF RollBackStop, history
  <2>3. pc'[p] = "reset"
    BY <1>2, <2>2, GotoStep DEF Stages
  <2>4. /\ ~cancelled'[p] => ~cancelled[p]
        /\ r # "ok" /\ ~cancelled'[p] => faults' = faults + 1
    BY <1>2, <2>1, Answers
  <2>5. ~cancelled[p] => faults >= 1
    BY <2>2 DEF RollbackInv, Undone
  <2>6. Clean(p)' => r = "ok"
    BY <1>2, <2>4, <2>5 DEF Clean
  <2>7. Clean(p)' => playing' = [playing EXCEPT ![Leader[p]] = FALSE]
    BY <2>1, <2>6 DEF SetPlaying
  <2>8. Clean(p)' => ~playing'[Leader[p]]
    BY <1>2, <2>7 DEF TypeOK
  <2> QED
    BY <2>3, <2>8
<1>9. CASE RollBackClient(p) \/ EndRollBack(p)
  <2>1. pc[p] = "reset" /\ UNCHANGED <<serving, playing>>
    BY <1>9 DEF RollBackClient, EndRollBack, deviceVars
  <2>2. Bounded(p)
    BY <1>9, CreateBounded DEF Create
  <2>3. pc'[p] \in {"reset", "done"}
    <3>1. CASE RollBackClient(p)
      BY <2>1, <3>1 DEF RollBackClient
    <3>2. CASE EndRollBack(p)
      BY <1>2, <3>2, EndStep DEF EndRollBack
    <3> QED
      BY <1>9, <3>1, <3>2
  <2>4. outcome[p] = "none"
    BY <1>2, <2>1
  <2>5. cancelled[p] => cancelled'[p]
    BY <1>2, <1>9, CreateAnswers DEF Create
  <2>6. Clean(p)' => Clean(p)
    BY <1>2, <2>5 DEF Clean
  <2> QED
    BY <1>1, <2>1, <2>3, <2>4, <2>6
<1> QED
  BY <1>3, <1>4, <1>5, <1>6, <1>7, <1>8, <1>9 DEF Create

\* When one request of an uninterrupted create went wrong, its leader is not left
\* distributing a group whose followers were reset, so long as no other create
\* runs on that leader.
THEOREM StreamStops ==
    ASSUME OwnLeaders
    PROVE  Spec => []NoStreamIntoTheVoid
<1>1. TypeOK /\ Shape /\ StreamInv => NoStreamIntoTheVoid
  BY Peers DEF Shape, StreamInv, Clean, NoStreamIntoTheVoid
<1>2. TypeOK /\ Shape /\ RollbackInv /\ StreamInv /\ [Next]_vars => StreamInv'
  BY StreamStep
<1> QED
  BY <1>1, <1>2, TypeCorrect, RollbackInit, RollbackStep, StreamInit, PTL DEF Spec

-----------------------------------------------------------------------------
(* The groups that stood when a create began.                              *)

\* No create has begun.
LEMMA StandInit == Init => StandInv
BY DEF Init, StandInv

\* A create that is over stays over.
LEMMA DoneStays ==
    ASSUME TypeOK, Shape, [Next]_vars, NEW p \in Creators, pc[p] = "done"
    PROVE  pc'[p] = "done"
<1>1. ~Create(p)
  BY CreateBounded DEF Bounded
<1> QED
  BY <1>1, BesideOthers DEF Beside

\* A create that has begun keeps the groups it noted.
LEMMA BegunStays ==
    ASSUME TypeOK, Shape, [Next]_vars, NEW p \in Creators, Begun(p)
    PROVE  Begun(p)' /\ standing'[p] = standing[p]
<1>1. CASE Create(p)
  BY <1>1, CreateBounded DEF Bounded
<1>2. CASE ~Create(p)
  BY <1>2, BesideOthers DEF Beside, Begun
<1> QED
  BY <1>1, <1>2

\* What a create notes, as it begins, is what is over by then.
LEMMA StandStep == TypeOK /\ Shape /\ StandInv /\ [Next]_vars => StandInv'
<1> SUFFICES ASSUME TypeOK, Shape, StandInv, [Next]_vars, NEW p \in Creators
             PROVE  /\ ~Begun(p)' => standing'[p] = {}
                    /\ \A q \in Creators : q \in standing'[p] => pc'[q] = "done"
  BY DEF StandInv
<1>1. /\ ~Begun(p) => standing[p] = {}
      /\ \A q \in Creators : q \in standing[p] => pc[q] = "done"
  BY DEF StandInv
<1>2. CASE Create(p)
  <2>1. Bounded(p)
    BY <1>2, CreateBounded
  <2> QED
    BY <1>1, <2>1, DoneStays DEF Bounded
<1>3. CASE ~Create(p)
  <2>1. Beside(p)
    BY <1>3, BesideOthers
  <2> QED
    BY <1>1, <2>1, DoneStays DEF Beside, Begun
<1> QED
  BY <1>2, <1>3

\* Two creates that ran at the same time once did so for good.
LEMMA OverlapStays ==
    ASSUME TypeOK, Shape, [Next]_vars, NEW p \in Creators, NEW q \in Creators, Overlap(p, q)
    PROVE  Overlap(p, q)'
<1>1. Begun(p)' /\ Begun(q)' /\ standing'[p] = standing[p] /\ standing'[q] = standing[q]
  BY BegunStays DEF Overlap
<1> QED
  BY <1>1 DEF Overlap

\* So does what they share.
LEMMA SharedStays ==
    ASSUME TypeOK, Shape, [Next]_vars, NEW p \in Creators
    PROVE  /\ \A x \in Dissolvers : found[x] # NoGroup => found'[x] # NoGroup
           /\ LeaderShared(p) => LeaderShared(p)'
           /\ \A f : FollowerShared(p, f) => FollowerShared(p, f)'
<1>1. ASSUME NEW x \in Dissolvers, found[x] # NoGroup PROVE found'[x] # NoGroup
  <2>1. ASSUME NEW q \in Creators, Create(q) PROVE found' = found
    BY <2>1, CreateBounded
  <2>2. ASSUME NEW q \in Dissolvers, Dissolve(q) PROVE found'[x] # NoGroup
    BY <1>1, <2>2, DissolveStep
  <2>3. ASSUME NEW q \in Invocations, Cancel(q) PROVE found' = found
    BY <2>3 DEF Cancel
  <2>4. CASE Release
    BY <1>1, <2>4 DEF Release, commandVars
  <2>5. CASE UNCHANGED vars
    BY <1>1, <2>5 DEF vars, commandVars
  <2> QED
    BY <1>1, <2>1, <2>2, <2>3, <2>4, <2>5 DEF Next
<1>2. \A q \in Creators : Overlap(p, q) => Overlap(p, q)'
  BY OverlapStays
<1> QED
  BY <1>1, <1>2 DEF LeaderShared, FollowerShared

-----------------------------------------------------------------------------
(* The followers a create takes.                                           *)

\* At first no follower was looked at.
LEMMA FreeInit == Init => FreeInv
<1> SUFFICES ASSUME Init, NEW p \in Creators PROVE pc[p] = "check" /\ at[p] = 1
  BY DEF FreeInv, Seen
<1> QED
  BY Peers DEF Init

\* A follower is found free by the request that reads it.  A group that stood
\* then has no create at work that could point the follower at it.
LEMMA FreeStep ==
    TypeOK /\ Shape /\ StandInv /\ FreeInv /\ [Next]_vars => FreeInv'
<1> SUFFICES ASSUME TypeOK, Shape, StandInv, FreeInv, [Next]_vars,
                    NEW p \in Creators, NEW i \in Seen(p)'
             PROVE  follows'[Followers[p][i]] \notin standing'[p]
  BY DEF FreeInv
<1> DEFINE f == Followers[p][i]
<1>1. \A j \in Seen(p) : follows[Followers[p][j]] \notin standing[p]
  BY DEF FreeInv
<1>2. /\ p \in Groups /\ p # NoGroup /\ p \in Invocations
      /\ Len(Followers[p]) \in Nat /\ DOMAIN Followers[p] = 1..Len(Followers[p])
      /\ at[p] \in Nat /\ at[p] >= 1
      /\ pc[p] \in {"check", "client"} => at[p] <= Len(Followers[p])
      /\ pc[p] = "server" => at[p] = 1
      /\ follows \in [Devices -> Groups \cup {NoGroup}]
      /\ NoGroup \notin standing'[p] /\ TypeOK'
  <2>1. TypeOK'
    BY TypeStep
  <2>2. NoGroup \notin standing'[p]
    BY <2>1, LinkAssumption DEF TypeOK
  <2> QED
    BY <2>1, <2>2, Peers, LinkAssumption DEF TypeOK, Shape
<1>3. i \in DOMAIN Followers[p] /\ f \in Devices
  <2>1. at'[p] \in 1..(Len(Followers[p]) + 1) /\ (pc'[p] = "check" => at'[p] <= Len(Followers[p]))
    BY TypeStep DEF TypeOK, Shape
  <2>2. i \in DOMAIN Followers[p]
    BY <1>2, <2>1 DEF Seen
  <2> QED
    BY <1>2, <2>2, Peers
<1>4. CASE ~Create(p)
  <2>1. Beside(p)
    BY <1>4, BesideOthers
  <2>2. i \in Seen(p) /\ standing'[p] = standing[p]
    BY <2>1 DEF Beside, Seen
  <2>3. ASSUME NEW q \in Creators, pc[q] = "client" PROVE q \notin standing[p]
    BY <2>3 DEF StandInv
  <2> QED
    BY <1>1, <1>2, <1>3, <2>1, <2>2, <2>3 DEF Beside
<1>5. CASE Check(p)
  <2>1. pc[p] = "check" /\ UNCHANGED follows
    BY <1>5 DEF Check, deviceVars
  <2>2. \/ Advance(p, "server") /\ follows[Current(p)] = NoGroup
        \/ End(p, "failed")
    BY <1>5 DEF Check
  <2>3. CASE Advance(p, "server") /\ follows[Current(p)] = NoGroup
    <3>1. \/ at[p] = Len(Followers[p]) /\ pc'[p] = "server"
          \/ pc'[p] = "check" /\ at'[p] = at[p] + 1
      BY <1>2, <2>1, <2>3, AdvanceStep DEF Stages
    <3>2. i \in 1..at[p]
      BY <1>2, <1>3, <3>1 DEF Seen
    <3>3. CASE i = at[p]
      BY <1>2, <2>1, <2>3, <3>3 DEF Current
    <3>4. CASE i \in 1..(at[p] - 1)
      <4>1. i \in Seen(p)
        BY <2>1, <3>4 DEF Seen
      <4>2. Begun(p)
        BY <1>2, <3>4 DEF Begun
      <4> QED
        BY <1>1, <2>1, <4>1, <4>2, BegunStays
    <3> QED
      BY <1>2, <3>2, <3>3, <3>4
  <2>4. CASE End(p, "failed")
    <3>1. pc'[p] = "done"
      BY <1>2, <2>4, EndStep
    <3> QED
      BY <3>1 DEF Seen
  <2> QED
    BY <2>2, <2>3, <2>4
<1>6. CASE Create(p) /\ ~Check(p)
  <2>1. pc[p] \notin {"check", "done"}
    BY <1>6, CreateBounded DEF Bounded, Create, SetServerInfo, SetClientInfo, StartDistribution,
       RollBackStop, RollBackClient, EndRollBack
  <2>2. i \in Seen(p) /\ standing'[p] = standing[p]
    BY <1>3, <2>1, BegunStays DEF Seen, Begun
  <2>3. Touches(p)
    BY <1>6, CreateTouches
  <2>4. p \notin standing[p]
    BY <2>1 DEF StandInv
  <2> QED
    BY <1>1, <1>2, <1>3, <2>2, <2>3, <2>4 DEF Touches
<1> QED
  BY <1>4, <1>5, <1>6

\* No step of a create takes a receiver out of a group that stood when the create
\* began, however many creates and dissolves run and whatever receivers they
\* share: what its checks found free cannot have got back into such a group by
\* the time it is written to, or reset by the rollback.
THEOREM NoneTakenAway == Spec => NeverRepoints
<1> DEFINE Step == \A p \in Creators, d \in Devices :
                      Create(p) /\ follows[d] \in standing[p] => follows'[d] = follows[d]
<1>1. ASSUME TypeOK, Shape, FreeInv, [Next]_vars, NEW p \in Creators, NEW d \in Devices,
             Create(p), follows[d] \in standing[p], follows'[d] # follows[d]
      PROVE  FALSE
  <2>1. d \in FollowerSet(p) /\ pc[p] \in {"client", "reset"}
    BY <1>1, CreateTouches DEF Touches
  <2>2. PICK i \in 1..Len(Followers[p]) : d = Followers[p][i]
    BY <2>1, Peers
  <2>3. i \in Seen(p)
    BY <2>1, <2>2, LinkAssumption, Peers DEF Seen
  <2> QED
    BY <1>1, <2>2, <2>3 DEF FreeInv
<1>2. TypeOK /\ Shape /\ FreeInv /\ [Next]_vars => [Step]_vars
  BY <1>1
<1>3. Spec => [][Step]_vars
  BY <1>2, TypeCorrect, StandInit, StandStep, FreeInit, FreeStep, PTL DEF Spec
<1> QED
  BY <1>3 DEF NeverRepoints

-----------------------------------------------------------------------------
(* A create that succeeds.                                                 *)

\* Nothing was built.
LEMMA BuiltInit == Init => BuiltInv
BY Peers DEF Init, BuiltInv, Built

\* What the others leave of a group that is being formed: a follower is lost to a
\* create that wants it too, and with the leader.
LEMMA GroupStands ==
    ASSUME TypeOK, Shape, StandInv, [Next]_vars, NEW p \in Creators, ~Create(p),
           pc[p] \in {"client", "start"}, serving[Leader[p]] = p, ~LeaderShared(p)'
    PROVE  /\ serving'[Leader[p]] = p
           /\ \A f \in FollowerSet(p) : follows[f] = p => follows'[f] = p \/ FollowerShared(p, f)'
<1>1. /\ Leader[p] \in Devices /\ \A f \in FollowerSet(p) : f \in Devices
      /\ pc'[p] = pc[p] /\ standing'[p] = standing[p] /\ Begun(p) /\ Begun(p)'
  BY Peers, BesideOthers DEF Beside, Begun
<1>2. ASSUME NEW q \in Creators, Create(q)
      PROVE  /\ serving'[Leader[p]] = p
             /\ \A f \in FollowerSet(p) : follows[f] = p => follows'[f] = p \/ FollowerShared(p, f)'
  <2>1. Bounded(q) /\ Touches(q) /\ StandInv'
    BY <1>2, CreateBounded, CreateTouches, StandStep
  <2>2. q \notin standing'[p]
    BY <1>1, <2>1 DEF Bounded, StandInv
  <2>3. p \notin standing'[q]
    BY <1>1, <2>1 DEF StandInv
  <2>4. Overlap(p, q)'
    BY <1>1, <1>2, <2>1, <2>2, <2>3 DEF Bounded, Overlap
  <2>5. Leader[q] # Leader[p]
    BY <2>4 DEF LeaderShared
  <2>6. \A f \in FollowerSet(q) : FollowerShared(p, f)'
    BY <2>4 DEF FollowerShared
  <2> QED
    BY <1>1, <2>1, <2>5, <2>6 DEF Touches
<1>3. ASSUME NEW x \in Dissolvers, Dissolve(x)
      PROVE  serving'[Leader[p]] = p /\ follows' = follows
  <2>1. /\ follows' = follows
        /\ serving'[Leader[p]] # serving[Leader[p]] => Leader[p] = Target[x] /\ found[x] # NoGroup
    BY <1>1, <1>3, DissolveStep
  <2>2. ~(Leader[p] = Target[x] /\ found[x] # NoGroup)
    BY SharedStays DEF LeaderShared
  <2> QED
    BY <2>1, <2>2
<1>4. ASSUME NEW q \in Invocations, Cancel(q) PROVE UNCHANGED <<serving, follows>>
  BY <1>4 DEF Cancel, deviceVars
<1>5. ASSUME Release PROVE /\ serving' = serving
                           /\ \A f \in FollowerSet(p) : follows[f] = p => follows'[f] = p
  BY <1>1, <1>5, ReleaseStep
<1>6. CASE UNCHANGED vars
  BY <1>6 DEF vars, deviceVars
<1> QED
  BY <1>2, <1>3, <1>4, <1>5, <1>6 DEF Next

\* What a create has built stands while it goes on.
LEMMA BuiltStep ==
    TypeOK /\ Shape /\ StandInv /\ BuiltInv /\ [Next]_vars => BuiltInv'
<1> SUFFICES ASSUME TypeOK, Shape, StandInv, BuiltInv, [Next]_vars, NEW p \in Creators,
                    ~LeaderShared(p)'
             PROVE  /\ pc'[p] \in {"client", "start"} => serving'[Leader[p]] = p
                    /\ pc'[p] = "client" => \A f \in First(p, at'[p] - 1) : Held(p, f)'
                    /\ pc'[p] = "start"  => \A f \in FollowerSet(p) : Held(p, f)'
  BY DEF BuiltInv, Built, First
<1>1. /\ pc[p] \in {"client", "start"} => serving[Leader[p]] = p
      /\ pc[p] = "client" => \A f \in First(p, at[p] - 1) : Held(p, f)
      /\ pc[p] = "start"  => \A f \in FollowerSet(p) : Held(p, f)
  BY SharedStays DEF BuiltInv, Built
<1>0. \A f : FollowerShared(p, f) => FollowerShared(p, f)'
  BY SharedStays
<1>2. /\ p \in Invocations /\ p # NoGroup /\ p \in Groups /\ Leader[p] \in Devices
      /\ Len(Followers[p]) \in Nat
      /\ at[p] \in Nat /\ at[p] >= 1
      /\ pc[p] \in {"check", "client"} => at[p] <= Len(Followers[p])
      /\ pc[p] = "server" => at[p] = 1
      /\ follows \in [Devices -> Groups \cup {NoGroup}]
      /\ serving \in [Devices -> Groups \cup {NoGroup}]
  BY Peers DEF TypeOK, Shape
<1>3. CASE ~Create(p)
  <2>1. pc'[p] = pc[p] /\ at'[p] = at[p]
    BY <1>3, BesideOthers DEF Beside
  <2>2. pc[p] = "client" => First(p, at[p] - 1) \subseteq FollowerSet(p)
    BY <1>2, Peers DEF First
  <2>3. CASE pc[p] \in {"client", "start"}
    <3>1. /\ serving'[Leader[p]] = p
          /\ \A f \in FollowerSet(p) : follows[f] = p => follows'[f] = p \/ FollowerShared(p, f)'
      BY <1>1, <1>3, <2>3, GroupStands
    <3>2. \A f \in FollowerSet(p) : Held(p, f) => Held(p, f)'
      BY <1>0, <3>1 DEF Held
    <3> QED
      BY <1>1, <2>1, <2>2, <3>1, <3>2
  <2> QED
    BY <2>1, <2>3
<1>4. CASE Check(p)
  <2>1. pc'[p] \in {"check", "server", "done"}
    BY <1>2, <1>4, AdvanceStep, EndStep DEF Check, Stages
  <2> QED
    BY <2>1
<1>5. CASE SetServerInfo(p)
  <2>1. PICK r : /\ SetServing(r, Leader[p], p)
                 /\ \/ r = "ok" /\ Goto(p, "client") /\ UNCHANGED <<at, undo>>
                    \/ r # "ok" /\ RollBack(p, 0)
    BY <1>5 DEF SetServerInfo
  <2>2. CASE r = "ok"
    <3>1. pc'[p] = "client" /\ at'[p] = 1
      BY <1>2, <1>5, <2>1, <2>2, GotoStep DEF SetServerInfo, Stages
    <3>2. serving' = [serving EXCEPT ![Leader[p]] = p]
      BY <2>1, <2>2 DEF SetServing
    <3>3. serving'[Leader[p]] = p
      BY <1>2, <3>2
    <3>4. \A f \in First(p, at'[p] - 1) : FALSE
      BY <3>1 DEF First
    <3> QED
      BY <3>1, <3>3, <3>4 DEF First
  <2>3. CASE r # "ok"
    <3>1. pc'[p] = "stop"
      BY <1>2, <2>1, <2>3, RollBackStep
    <3> QED
      BY <3>1
  <2> QED
    BY <2>2, <2>3
<1>6. CASE SetClientInfo(p)
  <2>1. PICK r : /\ SetFollows(r, Current(p), p)
                 /\ \/ r = "ok" /\ Advance(p, "start")
                    \/ r # "ok" /\ RollBack(p, at[p] - 1)
    BY <1>6 DEF SetClientInfo
  <2>2. pc[p] = "client" /\ UNCHANGED serving /\ at[p] <= Len(Followers[p])
    BY <1>2, <1>6 DEF SetClientInfo
  <2>3. CASE r = "ok"
    <3>1. \/ at[p] = Len(Followers[p]) /\ pc'[p] = "start"
          \/ pc'[p] = "client" /\ at'[p] = at[p] + 1
      BY <2>1, <2>2, <2>3, AdvanceStep DEF Stages
    <3>2. follows' = [follows EXCEPT ![Followers[p][at[p]]] = p]
      BY <2>1, <2>3 DEF SetFollows, Current
    <3>3. ASSUME NEW i \in 1..at[p] PROVE Held(p, Followers[p][i])'
      <4>1. Followers[p][i] \in Devices
        BY <1>2, <2>2, Peers
      <4>2. CASE i = at[p]
        BY <1>2, <3>2, <4>1, <4>2 DEF Held
      <4>3. CASE i \in 1..(at[p] - 1)
        <5>1. Held(p, Followers[p][i])
          BY <1>1, <2>2, <4>3 DEF First
        <5> QED
          BY <1>0, <1>2, <3>2, <4>1, <5>1 DEF Held
      <4> QED
        BY <1>2, <4>2, <4>3
    <3>4. serving'[Leader[p]] = p
      BY <1>1, <2>2
    <3>5. CASE at[p] = Len(Followers[p]) /\ pc'[p] = "start"
      <4>1. \A f \in FollowerSet(p) : Held(p, f)'
        BY <3>3, <3>5, Peers
      <4> QED
        BY <3>4, <3>5, <4>1
    <3>6. CASE pc'[p] = "client" /\ at'[p] = at[p] + 1
      <4>1. at'[p] - 1 = at[p]
        BY <1>2, <3>6
      <4>2. \A f \in First(p, at'[p] - 1) : Held(p, f)'
        BY <3>3, <4>1 DEF First
      <4> QED
        BY <3>4, <3>6, <4>2 DEF First
    <3> QED
      BY <3>1, <3>5, <3>6
  <2>4. CASE r # "ok"
    <3>1. pc'[p] = "stop"
      <4>1. at[p] - 1 \in 0..Len(Followers[p])
        BY <1>2, <2>2
      <4> QED
        BY <2>1, <2>4, <4>1, RollBackStep
    <3> QED
      BY <3>1
  <2> QED
    BY <2>3, <2>4
<1>7. CASE StartDistribution(p)
  <2>1. Len(Followers[p]) \in 0..Len(Followers[p])
    BY <1>2
  <2>2. pc'[p] \in {"done", "stop"}
    BY <1>2, <1>7, <2>1, EndStep, RollBackStep DEF StartDistribution
  <2> QED
    BY <2>2
<1>8. CASE RollBackStop(p) \/ RollBackClient(p) \/ EndRollBack(p)
  <2>1. CASE RollBackStop(p)
    BY <1>2, <2>1, GotoStep DEF RollBackStop, Stages
  <2>2. CASE RollBackClient(p)
    BY <2>2 DEF RollBackClient
  <2>3. CASE EndRollBack(p)
    BY <1>2, <2>3, EndStep DEF EndRollBack
  <2> QED
    BY <1>8, <2>1, <2>2, <2>3
<1> QED
  BY <1>3, <1>4, <1>5, <1>6, <1>7, <1>8 DEF Create

\* A create that reports success leaves its whole group in place, however many
\* commands run: all but the followers that a create which ran at the same time
\* wanted too, where nobody else was at work on its leader.
THEOREM SuccessIsWhole == Spec => SuccessMeansGrouped
<1> DEFINE Step == \A p \in Creators :
          outcome[p] = "none" /\ outcome'[p] = "ok" /\ ~LeaderShared(p) =>
              /\ serving'[Leader[p]] = p /\ playing'[Leader[p]]
              /\ \A f \in FollowerSet(p) : follows'[f] = p \/ FollowerShared(p, f)
<1>1. ASSUME TypeOK, Shape, BuiltInv, [Next]_vars, NEW p \in Creators,
             outcome[p] = "none", outcome'[p] = "ok", ~LeaderShared(p)
      PROVE  /\ serving'[Leader[p]] = p /\ playing'[Leader[p]]
             /\ \A f \in FollowerSet(p) : follows'[f] = p \/ FollowerShared(p, f)
  <2>1. p \in Invocations /\ Leader[p] \in Devices
    BY Peers
  <2>2. Create(p)
    BY <1>1, BesideOthers DEF Beside
  <2>3. StartDistribution(p)
    <3>1. CASE Check(p)
      BY <1>1, <2>1, <3>1, EndStep DEF Check
    <3>2. CASE SetServerInfo(p) \/ SetClientInfo(p) \/ RollBackStop(p) \/ RollBackClient(p)
      BY <1>1, <3>2 DEF SetServerInfo, SetClientInfo, RollBackStop, RollBackClient
    <3>3. CASE EndRollBack(p)
      BY <1>1, <2>1, <3>3, EndStep DEF EndRollBack
    <3> QED
      BY <2>2, <3>1, <3>2, <3>3 DEF Create
  <2>4. PICK r : /\ SetPlaying(r, Leader[p], TRUE)
                 /\ r = "ok" \/ UNCHANGED outcome
    BY <2>3 DEF StartDistribution
  <2>5. r = "ok"
    BY <1>1, <2>4
  <2>6. playing' = [playing EXCEPT ![Leader[p]] = TRUE]
    BY <2>4, <2>5 DEF SetPlaying
  <2>7. playing'[Leader[p]]
    BY <1>1, <2>1, <2>6 DEF TypeOK
  <2>8. pc[p] = "start" /\ UNCHANGED <<serving, follows>>
    BY <2>3 DEF StartDistribution
  <2> QED
    BY <1>1, <2>7, <2>8 DEF BuiltInv, Built, Held
<1>2. TypeOK /\ Shape /\ BuiltInv /\ [Next]_vars => [Step]_vars
  BY <1>1
<1>3. Spec => [][Step]_vars
  BY <1>2, TypeCorrect, StandInit, StandStep, BuiltInit, BuiltStep, PTL DEF Spec
<1> QED
  BY <1>3 DEF SuccessMeansGrouped

=============================================================================
