------------------------ MODULE ConfigStore_proofs ------------------------
(***************************************************************************)
(* Proofs about ConfigStore, for any number of invocations, aliases, hosts *)
(* and files: its type invariant; that config.yaml is always whole when    *)
(* saves do not overlap; and that it then implements ConfigRegister.       *)
(***************************************************************************)
EXTENDS ConfigStore, TLAPS

-----------------------------------------------------------------------------
(* The configuration operators stay within Configs.                        *)

\* An entry can be added to any configuration, the empty one included.
LEMMA AddEntryType ==
    /\ EmptyConfig \in Configs
    /\ \A c \in Configs, a \in Aliases, h \in Hosts, d \in BOOLEAN :
          /\ AddEntry(c, a, h, d) \in Configs
          /\ Has(AddEntry(c, a, h, d), a)
          /\ ChangesOnly(c, AddEntry(c, a, h, d), a)
<1>1. EmptyConfig \in Configs
  BY DEF EmptyConfig, Configs
<1>2. ASSUME NEW c \in Configs, NEW a \in Aliases, NEW h \in Hosts, NEW d \in BOOLEAN
      PROVE  /\ AddEntry(c, a, h, d) \in Configs
             /\ Has(AddEntry(c, a, h, d), a)
             /\ ChangesOnly(c, AddEntry(c, a, h, d), a)
  <2> DEFINE entry == [host |-> h, id |-> FALSE]
             new == [c.devices EXCEPT ![a] = entry]
  <2>0. entry \in [host : Hosts, id : BOOLEAN]
    OBVIOUS
  <2> HIDE DEF entry
  <2>1. entry \in Entries /\ entry # NoEntry
    BY <2>0, ConfigAssumption DEF Entries
  <2>2. /\ c.devices \in [Aliases -> Entries \cup {NoEntry}]
        /\ c.default \in Aliases \cup {NoAlias}
    BY DEF Configs
  <2>3. /\ new \in [Aliases -> Entries \cup {NoEntry}]
        /\ new[a] = entry
        /\ \A b \in Aliases \ {a} : new[b] = c.devices[b]
    BY <2>1, <2>2
  <2>4. AddEntry(c, a, h, d) =
          [devices |-> new, default |-> IF d \/ c.default = NoAlias THEN a ELSE c.default]
    BY DEF AddEntry, entry
  <2> HIDE DEF new
  <2> QED
    BY <2>1, <2>2, <2>3, <2>4 DEF Configs, Has, ChangesOnly
<1> QED
  BY <1>1, <1>2

\* An entry that exists can be given another host.
LEMMA SetHostType ==
    ASSUME NEW c \in Configs, NEW a \in Aliases, NEW h \in Hosts, Has(c, a)
    PROVE  /\ SetHost(c, a, h) \in Configs
           /\ Has(SetHost(c, a, h), a)
           /\ \A old : ChangesOnly(old, c, a) => ChangesOnly(old, SetHost(c, a, h), a)
<1>1. c.devices[a] \in [host : Hosts, id : BOOLEAN]
  BY DEF Configs, Entries, Has
<1>2. [host |-> h, id |-> c.devices[a].id] \in [host : Hosts, id : BOOLEAN]
  BY <1>1
<1> QED
  BY <1>2, ConfigAssumption DEF Configs, Entries, SetHost, Has, ChangesOnly

\* An entry that exists can be given a device_id.
LEMMA SetIdType ==
    ASSUME NEW c \in Configs, NEW a \in Aliases, Has(c, a)
    PROVE  /\ SetId(c, a) \in Configs
           /\ Has(SetId(c, a), a)
           /\ \A old : ChangesOnly(old, c, a) => ChangesOnly(old, SetId(c, a), a)
<1>1. c.devices[a] \in [host : Hosts, id : BOOLEAN]
  BY DEF Configs, Entries, Has
<1>2. [host |-> c.devices[a].host, id |-> TRUE] \in [host : Hosts, id : BOOLEAN]
  BY <1>1
<1> QED
  BY <1>2, ConfigAssumption DEF Configs, Entries, SetId, Has, ChangesOnly

\* config.Load returns a configuration, whatever the file has gone through.
LEMMA LoadedType == TypeOK => Loaded \subseteq Configs
<1> SUFFICES ASSUME TypeOK PROVE Loaded \subseteq Configs
  OBVIOUS
<1>1. \A c \in Configs : Truncations(c) \subseteq Configs
  BY DEF Truncations, Configs
<1>2. path # NoInode => disk[path].cfg \in Configs
  BY DEF TypeOK, Texts
<1> QED
  BY <1>1, <1>2, AddEntryType DEF Loaded

\* The texts that are written are texts.
LEMMA TextTypes ==
    /\ NoText \in Texts
    /\ \A c \in Configs : Whole(c) \in Texts /\ Part(c) \in Texts
BY AddEntryType DEF NoText, Whole, Part, Texts

-----------------------------------------------------------------------------
(* Type correctness.                                                       *)

\* What an invocation does to its own place, memory and descriptor when its
\* Save returns keeps the types.
LEMMA SaveReturnsType ==
    ASSUME TypeOK, NEW p \in Invocations, NEW how \in {"saved", "failed"},
           pc[p] \in SaveSteps,
           SaveReturns(p, how)
    PROVE  /\ pc' \in [Invocations -> AllPlaces]
           /\ \A q \in Invocations : pc'[q] \in Places(q)
           /\ cfg' \in [Invocations -> Configs]
           /\ target' \in [Invocations -> Aliases]
           /\ field' \in [Invocations -> {"entry", "host", "id"}]
           /\ fd' \in [Invocations -> Inodes \cup {NoInode}]
           /\ result' \in [Invocations -> {"none", "saved", "failed"}]
           /\ \A q \in Commands :
                 pc'[q] \in {"run"} \cup SaveSteps => Has(cfg'[q], target'[q])
<1> USE DEF TypeOK
<1>1. CASE p \in Commands /\ Resume(p)
  <2>1. "run" \in Places(p)
    BY <1>1, StoreAssumption DEF Places
  <2> QED
    BY <1>1, <2>1 DEF SaveReturns, Resume, Goto, AllPlaces, Places, SaveSteps, Invocations
<1>2. CASE End(p, "done")
  BY <1>2, AddEntryType DEF SaveReturns, End, Goto, AllPlaces, Places, SaveSteps, Invocations
<1> QED
  BY <1>1, <1>2 DEF SaveReturns

\* Unlinking a file keeps the types.
LEMMA UnlinkedType ==
    ASSUME TypeOK, NEW i \in Inodes \cup {NoInode}
    PROVE  Unlinked(i) \in [Inodes -> Texts]
BY TextTypes DEF TypeOK, Unlinked

\* Entering Save keeps the types.
LEMMA BeginSaveType ==
    ASSUME TypeOK, NEW p \in Invocations, NEW new \in Configs,
           NEW what \in {"entry", "host", "id"},
           p \in Commands => Has(new, target[p]),
           BeginSave(p, new, what)
    PROVE  TypeOK'
BY DEF TypeOK, BeginSave, Goto, AllPlaces, Places, SaveSteps, Invocations, fileVars

\* Every step keeps the types.
LEMMA TypeStep == TypeOK /\ [Next]_vars => TypeOK'
<1> SUFFICES ASSUME TypeOK, [Next]_vars PROVE TypeOK'
  OBVIOUS
<1>1. CASE UNCHANGED vars
  BY <1>1 DEF TypeOK, vars, invocationVars, fileVars
<1>2. ASSUME NEW p \in Invocations, Step(p) PROVE TypeOK'
  <2> DEFINE h == target[p]
  <2>0. /\ pc[p] = "run" => p \in Commands /\ Has(cfg[p], target[p])
        /\ pc[p] = "probe" => p \notin Commands
        /\ pc[p] = "prompt" => p \notin Commands
        /\ cfg[p] \in Configs /\ target[p] \in Aliases
        /\ pc[p] \in Places(p)
    BY StoreAssumption DEF TypeOK, Places, SaveSteps, Invocations
  <2>1. CASE GiveUp(p)
    BY <2>1, AddEntryType
       DEF TypeOK, GiveUp, End, Goto, AllPlaces, Places, SaveSteps, Invocations, fileVars
  <2>2. CASE CheckAlias(p)
    <3>1. p \notin Commands /\ "probe" \in Places(p)
      BY <2>2, StoreAssumption DEF CheckAlias, Places
    <3> QED
      BY <2>2, <3>1, LoadedType
         DEF TypeOK, CheckAlias, Goto, AllPlaces, SaveSteps, Invocations, fileVars
  <2>3. CASE BeginPrompt(p)
    <3>1. p \notin Commands /\ "prompt" \in Places(p)
      BY <2>3, StoreAssumption DEF BeginPrompt, Places
    <3> QED
      BY <2>3, <3>1, LoadedType
         DEF TypeOK, BeginPrompt, Goto, AllPlaces, SaveSteps, Invocations, fileVars
  <2>4. CASE BeginCommand(p)
    <3>1. "run" \in Places(p)
      BY <2>4, StoreAssumption DEF BeginCommand, Places
    <3> QED
      BY <2>4, <3>1, LoadedType
         DEF TypeOK, BeginCommand, Goto, AllPlaces, SaveSteps, Invocations, fileVars
  <2>5. CASE Reload(p)
    BY <2>5, <2>0, LoadedType, AddEntryType, BeginSaveType DEF Reload
  <2>6. CASE AnswerPrompt(p)
    BY <2>6, <2>0, AddEntryType, BeginSaveType DEF AnswerPrompt
  <2>7. CASE PersistHost(p)
    BY <2>7, <2>0, SetHostType, BeginSaveType DEF PersistHost
  <2>8. CASE PersistId(p)
    BY <2>8, <2>0, SetIdType, BeginSaveType DEF PersistId
  <2>9. CASE FinishCommand(p)
    BY <2>9, AddEntryType
       DEF TypeOK, FinishCommand, End, Goto, AllPlaces, Places, SaveSteps, Invocations, fileVars
  <2>10. CASE Crash(p)
    BY <2>10, AddEntryType
       DEF TypeOK, Crash, End, Goto, AllPlaces, Places, SaveSteps, Invocations, fileVars
  <2>11. CASE SaveRefused(p) \/ CreateFails(p)
    <3>1. SaveReturns(p, "failed") /\ UNCHANGED fileVars /\ pc[p] \in SaveSteps
      BY <2>11 DEF SaveRefused, CreateFails, SaveSteps
    <3> QED
      BY <3>1, SaveReturnsType DEF TypeOK, fileVars
  <2>12. CASE RemoveTmp(p)
    BY <2>12, UnlinkedType
       DEF TypeOK, RemoveTmp, Goto, AllPlaces, Places, SaveSteps, Invocations
  <2>13. CASE CreateTmp(p)
    BY <2>13, TextTypes
       DEF TypeOK, CreateTmp, Goto, AllPlaces, Places, SaveSteps, Invocations
  <2>14. CASE WriteTmp(p)
    <3>0. PICK t \in {Whole(cfg[p]), Part(cfg[p])} : disk' = [disk EXCEPT ![fd[p]] = t]
      BY <2>14 DEF WriteTmp
    <3>1. disk' \in [Inodes -> Texts]
      BY <3>0, <2>0, TextTypes DEF TypeOK
    <3>2. /\ pc[p] = "write" /\ pc' = [pc EXCEPT ![p] = "rename"]
          /\ UNCHANGED <<cfg, target, field, fd, result, path, tmp, past>>
      BY <2>14 DEF WriteTmp, Goto
    <3> QED
      BY <3>1, <3>2 DEF TypeOK, AllPlaces, Places, SaveSteps, Invocations
  <2>15. CASE WriteFails(p)
    <3>1. disk' \in [Inodes -> Texts]
      BY <2>15, <2>0, TextTypes DEF TypeOK, WriteFails
    <3>2. SaveReturns(p, "failed") /\ UNCHANGED <<path, tmp, past>> /\ pc[p] \in SaveSteps
      BY <2>15 DEF WriteFails, SaveSteps
    <3> QED
      BY <3>1, <3>2, SaveReturnsType DEF TypeOK
  <2>16. CASE RenameTmp(p)
    <3>1. disk' \in [Inodes -> Texts]
      BY <2>16, UnlinkedType DEF TypeOK, RenameTmp
    <3>2. path' \in Inodes \cup {NoInode} /\ tmp' \in Inodes \cup {NoInode}
          /\ past' \subseteq Configs
      BY <2>16 DEF TypeOK, RenameTmp, Texts
    <3>3. SaveReturns(p, "saved") /\ pc[p] \in SaveSteps
      BY <2>16 DEF RenameTmp, SaveSteps
    <3> QED
      BY <3>1, <3>2, <3>3, SaveReturnsType DEF TypeOK
  <2>17. CASE RenameFails(p)
    BY <2>17
       DEF TypeOK, RenameFails, Goto, AllPlaces, Places, SaveSteps, Invocations, fileVars
  <2>18. CASE CleanupTmp(p)
    <3>1. disk' \in [Inodes -> Texts] /\ tmp' \in Inodes \cup {NoInode}
      BY <2>18, UnlinkedType DEF TypeOK, CleanupTmp
    <3>2. SaveReturns(p, "failed") /\ UNCHANGED <<path, past>> /\ pc[p] \in SaveSteps
      BY <2>18 DEF CleanupTmp, SaveSteps
    <3> QED
      BY <3>1, <3>2, SaveReturnsType DEF TypeOK
  <2> QED
    BY <1>2, <2>1, <2>2, <2>3, <2>4, <2>5, <2>6, <2>7, <2>8, <2>9, <2>10, <2>11,
       <2>12, <2>13, <2>14, <2>15, <2>16, <2>17, <2>18 DEF Step, Save
<1> QED
  BY <1>1, <1>2 DEF Next

\* The first state is well typed.
LEMMA TypeInit == Init => TypeOK
<1> SUFFICES ASSUME Init PROVE TypeOK
  OBVIOUS
<1>1. disk \in [Inodes -> Texts] /\ past \subseteq Configs
      /\ path \in Inodes \cup {NoInode}
  BY TextTypes, AddEntryType, StoreAssumption DEF Init
<1> QED
  BY <1>1, AddEntryType
     DEF Init, TypeOK, AllPlaces, Places, SaveSteps, Invocations

\* Every reachable state is well typed, whether or not saves overlap: no
\* invocation leaves its own code, and a command never loses its device.
THEOREM TypeCorrect == Spec => []TypeOK
<1> QED
  BY TypeInit, TypeStep, PTL DEF Spec

-----------------------------------------------------------------------------
(* The file is whole, and every copy in memory descends from one it held.  *)

\* A step of p that touches no file and leaves p outside Save.
LEMMA QuietStep ==
    ASSUME TypeOK, StoreInv, NEW p \in Invocations,
           NEW where, where \notin SaveSteps, NEW c,
           pc' = [pc EXCEPT ![p] = where],
           cfg' = [cfg EXCEPT ![p] = c],
           \A q \in Invocations \ {p} : fd'[q] = fd[q],
           UNCHANGED <<target, fileVars>>,
           p \in Prompters \cup Commands /\ where \in {"prompt", "run"} =>
               \E old \in past : ChangesOnly(old, c, target[p])
    PROVE  StoreInv'
<1>1. /\ \A q \in Invocations : Saving(q)' => q # p /\ Saving(q)
      /\ \A q \in Invocations \ {p} : pc'[q] = pc[q] /\ cfg'[q] = cfg[q]
      /\ pc'[p] = where /\ cfg'[p] = c
  BY DEF TypeOK, Saving
<1>2. /\ Stored' = Stored /\ FileIsWhole' /\ (path # NoInode => path # tmp)'
      /\ Stored' \in past'
  BY DEF StoreInv, Stored, FileIsWhole, fileVars
<1>3. OneSaver'
  BY <1>1 DEF StoreInv, OneSaver
<1>4. WriterOwnsTmp' /\ ReadyToWrite' /\ ReadyToRename'
  BY <1>1 DEF StoreInv, WriterOwnsTmp, ReadyToWrite, ReadyToRename, fileVars, SaveSteps
<1>5. AddIsCurrent'
  BY <1>1, <1>2 DEF StoreInv, AddIsCurrent, Invocations
<1>6. CopyIsEarlier'
  BY <1>1 DEF StoreInv, CopyIsEarlier, Invocations, fileVars, Saving
<1> QED
  BY <1>2, <1>3, <1>4, <1>5, <1>6 DEF StoreInv

\* When the only saver's Save returns, nobody is saving.
LEMMA SaveEnds ==
    ASSUME TypeOK, StoreInv, NEW p \in Invocations, NEW how, Saving(p),
           SaveReturns(p, how),
           past \subseteq past',
           path' # NoInode => path' # tmp',
           FileIsWhole',
           Stored' \in past'
    PROVE  StoreInv'
<1>1. /\ \A q \in Invocations \ {p} : pc'[q] = pc[q] /\ cfg'[q] = cfg[q] /\ ~Saving(q)
      /\ pc'[p] \in {"run", "done"}
      /\ pc'[p] = "run" => cfg'[p] = cfg[p]
      /\ target' = target
  BY DEF SaveReturns, Resume, End, Goto, TypeOK, StoreInv, OneSaver
<1>2. \A q \in Invocations : ~Saving(q)'
  BY <1>1 DEF Saving, SaveSteps
<1>3. OneSaver' /\ WriterOwnsTmp' /\ ReadyToWrite' /\ ReadyToRename' /\ AddIsCurrent'
  BY <1>2 DEF OneSaver, WriterOwnsTmp, ReadyToWrite, ReadyToRename, AddIsCurrent,
              Saving, SaveSteps, Invocations
<1>4. CopyIsEarlier'
  <2> SUFFICES ASSUME NEW q \in Prompters \cup Commands,
                      pc'[q] \in {"prompt", "run"} \cup SaveSteps
               PROVE  \E old \in past' : ChangesOnly(old, cfg'[q], target'[q])
    BY DEF CopyIsEarlier
  <2>1. pc[q] \in {"prompt", "run"} \cup SaveSteps /\ cfg'[q] = cfg[q]
    BY <1>1 DEF Invocations, Saving, SaveSteps
  <2> QED
    BY <2>1, <1>1 DEF StoreInv, CopyIsEarlier
<1> QED
  BY <1>3, <1>4 DEF StoreInv

\* A step inside Save: p goes on saving, and config.yaml is as it was.
LEMMA SaveGoesOn ==
    ASSUME TypeOK, StoreInv, NEW p \in Invocations, Saving(p),
           NEW where, where \in SaveSteps,
           pc' = [pc EXCEPT ![p] = where],
           UNCHANGED <<cfg, target, path, past>>,
           path # NoInode => disk'[path] = disk[path] /\ path # tmp',
           where \in {"write", "rename"} => tmp' # NoInode /\ fd'[p] = tmp',
           where = "write" => disk'[tmp'] = NoText,
           where = "rename" => disk'[tmp'] = Whole(cfg[p])
    PROVE  StoreInv'
<1>1. /\ \A q \in Invocations : Saving(q)' <=> q = p
      /\ \A q \in Invocations \ {p} : pc'[q] = pc[q] /\ pc'[q] \notin SaveSteps
      /\ pc'[p] = where
  BY DEF TypeOK, Saving, StoreInv, OneSaver
<1>2. Stored' = Stored /\ FileIsWhole' /\ Stored' \in past'
  BY DEF StoreInv, Stored, FileIsWhole
<1>3. OneSaver'
  BY <1>1 DEF OneSaver
<1>4. WriterOwnsTmp' /\ ReadyToWrite' /\ ReadyToRename'
  BY <1>1 DEF WriterOwnsTmp, ReadyToWrite, ReadyToRename, SaveSteps
<1>5. AddIsCurrent'
  BY <1>1, <1>2 DEF StoreInv, AddIsCurrent, Invocations
<1>6. CopyIsEarlier'
  BY <1>1 DEF StoreInv, CopyIsEarlier, Invocations, Saving
<1> QED
  BY <1>2, <1>3, <1>4, <1>5, <1>6 DEF StoreInv

\* Entering Save with a configuration that descends from the right one.
LEMMA SaveBegins ==
    ASSUME ~Overlap, TypeOK, StoreInv, NEW p \in Invocations, NEW new, NEW what,
           BeginSave(p, new, what),
           p \in Adders => ~Has(Stored, target[p]),
           p \in Adders \cup ForcedAdders =>
               \E h \in Hosts, d \in BOOLEAN : new = AddEntry(Stored, target[p], h, d),
           p \in Prompters \cup Commands =>
               \E old \in past : ChangesOnly(old, new, target[p])
    PROVE  StoreInv'
<1>1. /\ \A q \in Invocations \ {p} : pc'[q] = pc[q] /\ cfg'[q] = cfg[q]
                                       /\ pc[q] \notin SaveSteps
      /\ pc'[p] = "remove" /\ cfg'[p] = new
      /\ target' = target /\ UNCHANGED fileVars
  BY DEF BeginSave, MaySave, Goto, TypeOK
<1>2. Stored' = Stored /\ FileIsWhole' /\ Stored' \in past' /\ (path # NoInode => path # tmp)'
  BY <1>1 DEF StoreInv, Stored, FileIsWhole, fileVars
<1>3. OneSaver' /\ WriterOwnsTmp' /\ ReadyToWrite' /\ ReadyToRename'
  BY <1>1 DEF OneSaver, WriterOwnsTmp, ReadyToWrite, ReadyToRename, Saving, SaveSteps
<1>4. AddIsCurrent'
  BY <1>1, <1>2 DEF AddIsCurrent, Invocations, Saving
<1>5. CopyIsEarlier'
  BY <1>1 DEF StoreInv, CopyIsEarlier, Invocations, fileVars
<1> QED
  BY <1>2, <1>3, <1>4, <1>5 DEF StoreInv

\* With a whole file, config.Load returns what is stored.
LEMMA LoadedIsStored == FileIsWhole => Loaded = {Stored}
BY DEF FileIsWhole, Loaded, Stored

\* A configuration differs in no entry from itself.
LEMMA ChangesOnlySelf == \A c, a : ChangesOnly(c, c, a)
BY DEF ChangesOnly

\* Every step keeps the invariant when saves do not overlap.
LEMMA StoreStep ==
    ASSUME ~Overlap, TypeOK, StoreInv, [Next]_vars
    PROVE  StoreInv'
<1>1. CASE UNCHANGED vars
  BY <1>1 DEF vars, invocationVars, fileVars, StoreInv, OneSaver, WriterOwnsTmp,
              ReadyToWrite, ReadyToRename, FileIsWhole, Stored, AddIsCurrent,
              CopyIsEarlier, Saving
<1>2. ASSUME NEW p \in Invocations, Step(p) PROVE StoreInv'
  <2>0. /\ pc[p] = "run" => p \in Commands /\ Has(cfg[p], target[p])
        /\ pc[p] = "probe" => p \notin Prompters \cup Commands
        /\ pc[p] = "prompt" => p \in Prompters /\ p \notin Adders \cup ForcedAdders
        /\ pc[p] = "run" => p \notin Adders \cup ForcedAdders
        /\ p \in Prompters \cup Commands /\ pc[p] \in {"prompt", "run"} \cup SaveSteps =>
              \E old \in past : ChangesOnly(old, cfg[p], target[p])
        /\ cfg[p] \in Configs /\ target[p] \in Aliases
    BY StoreAssumption DEF TypeOK, Places, SaveSteps, Invocations, StoreInv, CopyIsEarlier
  <2>00. Loaded = {Stored} /\ Stored \in past /\ Stored \in Configs
    BY LoadedIsStored, LoadedType DEF StoreInv
  <2>1. CASE GiveUp(p)
    BY <2>1, QuietStep DEF GiveUp, End, Goto, TypeOK, SaveSteps
  <2>2. CASE CheckAlias(p)
    <3>1. p \notin Prompters \cup Commands
      BY <2>2, StoreAssumption DEF CheckAlias
    <3> QED
      BY <2>2, <3>1, QuietStep DEF CheckAlias, Goto, SaveSteps
  <2>3. CASE BeginPrompt(p)
    BY <2>3, <2>00, ChangesOnlySelf, QuietStep DEF BeginPrompt, Goto, SaveSteps
  <2>4. CASE BeginCommand(p)
    BY <2>4, <2>00, ChangesOnlySelf, QuietStep DEF BeginCommand, Goto, SaveSteps
  <2>5. CASE Reload(p)
    <3>1. PICK h \in Hosts, d \in BOOLEAN :
             /\ p \in Adders => ~Has(Stored, target[p])
             /\ BeginSave(p, AddEntry(Stored, target[p], h, d), "entry")
      BY <2>5, <2>00 DEF Reload
    <3>2. p \notin Prompters \cup Commands
      BY <2>5, <2>0 DEF Reload
    <3> QED
      BY <3>1, <3>2, SaveBegins
  <2>6. CASE AnswerPrompt(p)
    <3>1. PICK h \in Hosts : BeginSave(p, AddEntry(cfg[p], target[p], h, FALSE), "entry")
      BY <2>6 DEF AnswerPrompt
    <3>2. PICK old \in past : ChangesOnly(old, cfg[p], target[p])
      BY <2>6, <2>0 DEF AnswerPrompt
    <3>3. ChangesOnly(old, AddEntry(cfg[p], target[p], h, FALSE), target[p])
      <4>1. ChangesOnly(cfg[p], AddEntry(cfg[p], target[p], h, FALSE), target[p])
        BY <2>0, AddEntryType
      <4> QED
        BY <3>2, <4>1 DEF ChangesOnly
    <3> QED
      BY <2>6, <2>0, <3>1, <3>3, SaveBegins DEF AnswerPrompt
  <2>7. CASE PersistHost(p)
    <3>1. PICK h \in Hosts : BeginSave(p, SetHost(cfg[p], target[p], h), "host")
      BY <2>7 DEF PersistHost
    <3>2. pc[p] = "run"
      BY <2>7 DEF PersistHost
    <3>3. \E old \in past : ChangesOnly(old, SetHost(cfg[p], target[p], h), target[p])
      BY <3>2, <2>0, SetHostType
    <3> QED
      BY <2>0, <3>1, <3>2, <3>3, SaveBegins
  <2>8. CASE PersistId(p)
    <3>1. BeginSave(p, SetId(cfg[p], target[p]), "id") /\ pc[p] = "run"
      BY <2>8 DEF PersistId
    <3>2. \E old \in past : ChangesOnly(old, SetId(cfg[p], target[p]), target[p])
      BY <3>1, <2>0, SetIdType
    <3> QED
      BY <2>0, <3>1, <3>2, SaveBegins
  <2>9. CASE FinishCommand(p)
    BY <2>9, QuietStep DEF FinishCommand, End, Goto, TypeOK, SaveSteps
  <2>10. CASE Crash(p)
    BY <2>10, QuietStep DEF Crash, End, Goto, TypeOK, SaveSteps
  <2>11. CASE SaveRefused(p) \/ CreateFails(p)
    <3>1. SaveReturns(p, "failed") /\ UNCHANGED fileVars /\ Saving(p)
      BY <2>11 DEF SaveRefused, CreateFails, Saving, SaveSteps
    <3> QED
      BY <3>1, SaveEnds DEF fileVars, StoreInv, FileIsWhole, Stored
  <2>12. CASE RemoveTmp(p)
    <3>1. path # NoInode => disk'[path] = disk[path] /\ path # tmp'
      BY <2>12 DEF RemoveTmp, Unlinked, StoreInv, TypeOK
    <3> QED
      BY <2>12, <3>1, SaveGoesOn DEF RemoveTmp, Goto, Saving, SaveSteps
  <2>13. CASE CreateTmp(p)
    <3>1. PICK i \in Inodes :
             /\ IF tmp = NoInode THEN ~InUse(i) ELSE i = tmp
             /\ tmp' = i
             /\ fd' = [fd EXCEPT ![p] = i]
             /\ disk' = [disk EXCEPT ![i] = NoText]
      BY <2>13 DEF CreateTmp
    <3>2. i # path /\ i # NoInode
      BY <3>1, StoreAssumption DEF InUse, StoreInv, TypeOK
    <3>3. /\ disk'[tmp'] = NoText /\ fd'[p] = tmp' /\ tmp' # NoInode
          /\ path # NoInode => disk'[path] = disk[path] /\ path # tmp'
      BY <3>1, <3>2 DEF TypeOK
    <3> QED
      BY <2>13, <3>3, SaveGoesOn DEF CreateTmp, Goto, Saving, SaveSteps
  <2>14. CASE WriteTmp(p)
    <3>1. /\ tmp # NoInode /\ fd[p] = tmp /\ disk[tmp] = NoText
          /\ path # NoInode => path # tmp
      BY <2>14 DEF WriteTmp, StoreInv, WriterOwnsTmp, ReadyToWrite
    <3>2. disk' = [disk EXCEPT ![tmp] = Whole(cfg[p])]
      BY <2>14, <3>1 DEF WriteTmp, NoText
    <3>3. /\ disk'[tmp] = Whole(cfg[p])
          /\ path # NoInode => disk'[path] = disk[path]
      BY <3>1, <3>2 DEF TypeOK
    <3> QED
      BY <2>14, <3>1, <3>3, SaveGoesOn DEF WriteTmp, Goto, Saving, SaveSteps
  <2>15. CASE WriteFails(p)
    <3>1. fd[p] = tmp /\ (path # NoInode => path # tmp)
      BY <2>15 DEF WriteFails, StoreInv, WriterOwnsTmp
    <3>2. UNCHANGED <<path, tmp, past>> /\ (path # NoInode => disk'[path] = disk[path])
      BY <2>15, <3>1 DEF WriteFails, TypeOK
    <3>3. SaveReturns(p, "failed") /\ Saving(p)
      BY <2>15 DEF WriteFails, Saving, SaveSteps
    <3> QED
      BY <3>1, <3>2, <3>3, SaveEnds DEF StoreInv, FileIsWhole, Stored
  <2>16. CASE RenameTmp(p)
    <3>1. /\ disk[tmp] = Whole(cfg[p]) /\ tmp # NoInode
          /\ path # NoInode => path # tmp
      BY <2>16 DEF RenameTmp, StoreInv, ReadyToRename, WriterOwnsTmp
    <3>2. disk'[tmp] = disk[tmp]
      BY <2>16, <3>1 DEF RenameTmp, Unlinked, TypeOK
    <3>3. /\ path' = tmp /\ tmp' = NoInode /\ past' = past \cup {disk[tmp].cfg}
          /\ SaveReturns(p, "saved") /\ Saving(p)
      BY <2>16 DEF RenameTmp, Saving, SaveSteps
    <3> QED
      BY <3>1, <3>2, <3>3, SaveEnds DEF FileIsWhole, Stored, Whole
  <2>17. CASE RenameFails(p)
    BY <2>17, SaveGoesOn DEF RenameFails, Goto, Saving, SaveSteps, fileVars, StoreInv
  <2>18. CASE CleanupTmp(p)
    <3>1. path # NoInode => disk'[path] = disk[path] /\ path # tmp'
      BY <2>18 DEF CleanupTmp, Unlinked, StoreInv, TypeOK
    <3>2. SaveReturns(p, "failed") /\ Saving(p) /\ UNCHANGED <<path, past>>
      BY <2>18 DEF CleanupTmp, Saving, SaveSteps
    <3> QED
      BY <3>1, <3>2, SaveEnds DEF StoreInv, FileIsWhole, Stored
  <2> QED
    BY <1>2, <2>1, <2>2, <2>3, <2>4, <2>5, <2>6, <2>7, <2>8, <2>9, <2>10, <2>11,
       <2>12, <2>13, <2>14, <2>15, <2>16, <2>17, <2>18 DEF Step, Save
<1> QED
  BY <1>1, <1>2 DEF Next

\* The invariant holds at first: no file, or a whole one, and nobody saving.
LEMMA StoreInit == Init => StoreInv
<1> SUFFICES ASSUME Init PROVE StoreInv
  OBVIOUS
<1>1. FileIsWhole /\ Stored \in past /\ (path # NoInode => path # tmp)
  BY StoreAssumption DEF Init, FileIsWhole, Stored, Whole
<1> QED
  BY <1>1 DEF Init, StoreInv, OneSaver, WriterOwnsTmp, ReadyToWrite, ReadyToRename,
              AddIsCurrent, CopyIsEarlier, Saving, SaveSteps, Invocations

\* When saves do not overlap, everything a Save relies on holds between any two
\* of its system calls: one saver, which alone has the temporary file open, and
\* holds what `config add` re-read or what a command loaded earlier.
THEOREM SavesInOrder ==
    ASSUME ~Overlap
    PROVE  Spec => []StoreInv
<1>1. TypeOK /\ StoreInv /\ [Next]_vars => TypeOK' /\ StoreInv'
  BY TypeStep, StoreStep
<1> QED
  BY <1>1, TypeInit, StoreInit, PTL DEF Spec

\* When saves do not overlap, config.yaml is whole in every reachable state:
\* crashes, full disks and failing renames anywhere in any number of
\* invocations never leave it empty or cut short.
THEOREM FileAlwaysWhole ==
    ASSUME ~Overlap
    PROVE  Spec => []FileIsWhole
<1>1. StoreInv => FileIsWhole
  BY DEF StoreInv
<1> QED
  BY <1>1, SavesInOrder, PTL

-----------------------------------------------------------------------------
(* Saving is one step of the register.                                     *)

\* What every step does to what the users see: nothing, a failure reported
\* with the file as it was, or a save of what the invocation holds.
LEMMA VisibleStep ==
    ASSUME TypeOK, StoreInv, NEW p \in Invocations, Step(p)
    PROVE  \/ UNCHANGED <<Stored, past, result>>
           \/ /\ result' = [result EXCEPT ![p] = "failed"]
              /\ UNCHANGED <<Stored, past>>
           \/ /\ result' = [result EXCEPT ![p] = "saved"]
              /\ Stored' = cfg[p]
              /\ past' = past \cup {Stored'}
              /\ Saving(p)
              /\ target' = target
<1> USE DEF fileVars
<1>1. CASE GiveUp(p) \/ CheckAlias(p) \/ BeginPrompt(p) \/ BeginCommand(p)
           \/ FinishCommand(p) \/ Crash(p) \/ RenameFails(p)
  BY <1>1 DEF GiveUp, CheckAlias, BeginPrompt, BeginCommand, FinishCommand, Crash,
              RenameFails, Stored
<1>2. CASE Reload(p) \/ AnswerPrompt(p) \/ PersistHost(p) \/ PersistId(p)
  BY <1>2 DEF Reload, AnswerPrompt, PersistHost, PersistId, BeginSave, Stored
<1>3. CASE SaveRefused(p) \/ CreateFails(p)
  BY <1>3 DEF SaveRefused, CreateFails, SaveReturns, Stored
<1>4. CASE RemoveTmp(p) \/ CleanupTmp(p)
  <2>1. path # NoInode => disk'[path] = disk[path]
    BY <1>4 DEF RemoveTmp, CleanupTmp, Unlinked, StoreInv, TypeOK
  <2> QED
    BY <1>4, <2>1 DEF RemoveTmp, CleanupTmp, SaveReturns, Stored
<1>5. CASE CreateTmp(p)
  <2>1. PICK i \in Inodes :
           /\ IF tmp = NoInode THEN ~InUse(i) ELSE i = tmp
           /\ disk' = [disk EXCEPT ![i] = NoText]
    BY <1>5 DEF CreateTmp
  <2>2. i # path
    BY <2>1 DEF InUse, StoreInv
  <2>3. path # NoInode => disk'[path] = disk[path]
    BY <2>1, <2>2 DEF TypeOK
  <2> QED
    BY <1>5, <2>3 DEF CreateTmp, Stored
<1>6. CASE WriteTmp(p) \/ WriteFails(p)
  <2>1. fd[p] = tmp /\ (path # NoInode => path # tmp)
    BY <1>6 DEF WriteTmp, WriteFails, StoreInv, WriterOwnsTmp
  <2>2. path # NoInode => disk'[path] = disk[path]
    <3>1. PICK t : disk' = [disk EXCEPT ![fd[p]] = t]
      BY <1>6 DEF WriteTmp, WriteFails
    <3> QED
      BY <3>1, <2>1 DEF TypeOK
  <2> QED
    BY <1>6, <2>2 DEF WriteTmp, WriteFails, SaveReturns, Stored
<1>7. CASE RenameTmp(p)
  <2>1. /\ disk[tmp] = Whole(cfg[p]) /\ tmp # NoInode
        /\ path # NoInode => path # tmp
    BY <1>7 DEF RenameTmp, StoreInv, ReadyToRename, WriterOwnsTmp
  <2>2. disk'[tmp] = disk[tmp]
    BY <1>7, <2>1 DEF RenameTmp, Unlinked, TypeOK
  <2>3. Stored' = cfg[p] /\ past' = past \cup {Stored'}
    BY <1>7, <2>1, <2>2 DEF RenameTmp, Stored, Whole
  <2> QED
    BY <1>7, <2>3 DEF RenameTmp, SaveReturns, Saving, SaveSteps
<1> QED
  BY <1>1, <1>2, <1>3, <1>4, <1>5, <1>6, <1>7 DEF Step, Save

\* A step of the store is a step of the register, or changes nothing there.
LEMMA RegisterStep ==
    ASSUME TypeOK, TypeOK', StoreInv, [Next]_vars
    PROVE  [Register!Next]_(Register!registerVars)
<1>1. CASE UNCHANGED vars
  BY <1>1 DEF vars, invocationVars, fileVars, Stored, Register!registerVars
<1>2. ASSUME NEW p \in Invocations, Step(p)
      PROVE  [Register!Next]_(Register!registerVars)
  <2>0. p \in Register!Invocations
    BY DEF Invocations, Register!Invocations
  <2>1. CASE UNCHANGED <<Stored, past, result>>
    BY <2>1 DEF Register!registerVars
  <2>2. CASE result' = [result EXCEPT ![p] = "failed"] /\ UNCHANGED <<Stored, past>>
    <3>1. Register!Fail(p)
      BY <2>2 DEF Register!Fail
    <3> QED
      BY <2>0, <3>1 DEF Register!Next
  <2>3. CASE /\ result' = [result EXCEPT ![p] = "saved"]
             /\ Stored' = cfg[p]
             /\ past' = past \cup {Stored'}
             /\ Saving(p)
    <3>1. Register!Saved(p)
      BY <2>3 DEF Register!Saved
    <3>2. CASE p \in Adders \cup ForcedAdders
      <4>1. PICK h \in Hosts, d \in BOOLEAN :
               /\ p \in Adders => ~Has(Stored, target[p])
               /\ cfg[p] = AddEntry(Stored, target[p], h, d)
        BY <2>3, <3>2 DEF StoreInv, AddIsCurrent
      <4>2. target[p] \in Aliases
        BY DEF TypeOK
      <4>3. Register!Merge(p)
        BY <2>3, <3>1, <4>1, <4>2
           DEF Register!Merge, Register!Has, Register!AddEntry, Has, AddEntry
      <4> QED
        BY <3>2, <4>3 DEF Register!Next
    <3>3. CASE p \in Prompters \cup Commands
      <4>1. PICK old \in past : ChangesOnly(old, cfg[p], target[p])
        BY <2>3, <3>3 DEF StoreInv, CopyIsEarlier, Saving
      <4>2. target[p] \in Aliases /\ cfg[p] \in Configs
        BY DEF TypeOK
      <4>3. Register!WriteBack(p)
        BY <2>3, <3>1, <4>1, <4>2
           DEF Register!WriteBack, Register!ChangesOnly, ChangesOnly,
               Register!Configs, Configs, Register!Entries, Entries
      <4> QED
        BY <3>3, <4>3 DEF Register!Next
    <3> QED
      BY <3>2, <3>3 DEF Invocations
  <2> QED
    BY <1>2, <2>1, <2>2, <2>3, VisibleStep
<1> QED
  BY <1>1, <1>2 DEF Next

\* config.yaml, its temporary file and the crashes between the system calls
\* implement a register that `config add` updates in one atomic step, whatever
\* it was doing when others saved.
THEOREM ImplementsRegister ==
    ASSUME ~Overlap
    PROVE  Spec => Refinement
<1>1. Init => Register!Init
  <2> SUFFICES ASSUME Init PROVE Register!Init
    OBVIOUS
  <2>1. Stored \in InitialConfigs \cup {EmptyConfig} /\ past = {Stored}
    BY StoreAssumption DEF Init, Stored, Whole
  <2>2. result = [q \in Register!Invocations |-> "none"]
    BY DEF Init, Invocations, Register!Invocations
  <2> QED
    BY <2>1, <2>2 DEF Register!Init
<1>2. TypeOK /\ StoreInv /\ [Next]_vars =>
        TypeOK' /\ StoreInv' /\ [Register!Next]_(Register!registerVars)
  BY TypeStep, StoreStep, RegisterStep
<1> QED
  BY <1>1, <1>2, TypeInit, StoreInit, PTL DEF Spec, Refinement, Register!Spec

\* A step that reports an entry added changed that entry only, and without
\* --force one that was not there.
LEMMA AddStep ==
    ASSUME TypeOK, StoreInv, [Next]_vars, NEW p \in Adders \cup ForcedAdders,
           result[p] = "none", result'[p] = "saved"
    PROVE  /\ ChangesOnly(Stored, Stored', target[p])
           /\ p \in Adders => ~Has(Stored, target[p])
<1>1. PICK q \in Invocations : Step(q)
  BY DEF Next, vars, invocationVars
<1>2. p = q /\ Saving(p) /\ Stored' = cfg[p]
  BY <1>1, VisibleStep DEF TypeOK, Invocations
<1>3. PICK h \in Hosts, d \in BOOLEAN :
         /\ p \in Adders => ~Has(Stored, target[p])
         /\ cfg[p] = AddEntry(Stored, target[p], h, d)
  BY <1>2 DEF StoreInv, AddIsCurrent
<1>4. Stored \in Configs /\ target[p] \in Aliases
  BY LoadedIsStored, LoadedType DEF StoreInv, TypeOK, Invocations
<1> QED
  BY <1>2, <1>3, <1>4, AddEntryType

\* `config add` keeps every entry saved by others up to the moment it saves.
THEOREM AddIsAtomic ==
    ASSUME ~Overlap
    PROVE  Spec => AddKeepsOthers
<1>1. TypeOK /\ StoreInv /\ [Next]_vars =>
        /\ TypeOK' /\ StoreInv'
        /\ \A p \in Adders \cup ForcedAdders :
              result[p] = "none" /\ result'[p] = "saved" =>
                  ChangesOnly(Stored, Stored', target[p])
  BY AddStep, TypeStep, StoreStep
<1> QED
  BY <1>1, TypeInit, StoreInit, PTL DEF Spec, AddKeepsOthers

\* Without --force it replaces none.
THEOREM AddReplacesNone ==
    ASSUME ~Overlap
    PROVE  Spec => AddNeverReplaces
<1>1. TypeOK /\ StoreInv /\ [Next]_vars =>
        /\ TypeOK' /\ StoreInv'
        /\ \A p \in Adders :
              result[p] = "none" /\ result'[p] = "saved" => ~Has(Stored, target[p])
  BY AddStep, TypeStep, StoreStep
<1> QED
  BY <1>1, TypeInit, StoreInit, PTL DEF Spec, AddNeverReplaces

=============================================================================
