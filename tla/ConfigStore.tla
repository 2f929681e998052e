--------------------------- MODULE ConfigStore ----------------------------
(***************************************************************************)
(* config.yaml and the invocations of the program that read and replace it *)
(* (internal/config/config.go and its callers in internal/cli).            *)
(*                                                                         *)
(* Each invocation is a process of its own.  `config add` loads, probes    *)
(* the host, loads again and saves.  The wizard and `discover --add` load, *)
(* ask the user and save.  A device command loads once and may write back  *)
(* a device_id or a rediscovered host much later.  config.Save is four     *)
(* system calls on two fixed names: remove <path>.tmp, create it, write    *)
(* it, rename it over the destination.  A process can be killed between    *)
(* any two of them, and a call can fail.                                   *)
(*                                                                         *)
(* Files are inodes, so that a process that still has <path>.tmp open      *)
(* writes wherever that inode has been renamed to.  A file's text is its   *)
(* configuration and whether the text is empty, partial or whole.          *)
(***************************************************************************)
EXTENDS ConfigData

CONSTANTS
    Adders,          \* invocations of `config add` without --force
    ForcedAdders,    \* invocations of `config add --force`
    Prompters,       \* the wizard and `discover --add`
    Commands,        \* commands on a device resolved from the config
    InitialConfigs,  \* what an existing file can hold at first
    Inodes,          \* files
    NoInode,         \* no file
    Overlap          \* whether two invocations may be saving at once

Invocations == Adders \cup ForcedAdders \cup Prompters \cup Commands

ASSUME StoreAssumption ==
    /\ NoInode \notin Inodes
    /\ Overlap \in BOOLEAN
    /\ InitialConfigs \subseteq Configs
    /\ (Adders \cup ForcedAdders) \cap (Prompters \cup Commands) = {}
    /\ Adders \cap ForcedAdders = {} /\ Prompters \cap Commands = {}

VARIABLES
    pc,       \* per invocation: the step it is at
    cfg,      \* per invocation: its configuration in memory
    target,   \* per invocation: the alias it works on
    field,    \* per invocation: what its save changes
    fd,       \* per invocation: the file it has open for writing
    result,   \* per invocation: how its latest Save ended
    path,     \* the file named config.yaml
    tmp,      \* the file named config.yaml.tmp
    disk,     \* the text of every file
    past      \* history: every configuration that was put in place

invocationVars == <<pc, cfg, target, field, fd, result>>
fileVars == <<path, tmp, disk, past>>
vars == <<invocationVars, fileVars>>

Texts == [text : {"empty", "part", "whole"}, cfg : Configs]

Whole(c) == [text |-> "whole", cfg |-> c]
Part(c)  == [text |-> "part", cfg |-> c]
NoText   == [text |-> "empty", cfg |-> EmptyConfig]

\* The steps of saveTo.
SaveSteps == {"remove", "create", "write", "rename", "cleanup"}

AllPlaces ==
    {"start", "probe", "prompt", "run", "done", "crashed"} \cup SaveSteps

Places(p) ==
    {"start", "done", "crashed"} \cup SaveSteps \cup
    (IF p \in Adders \cup ForcedAdders THEN {"probe"}
     ELSE IF p \in Prompters THEN {"prompt"} ELSE {"run"})

Init ==
    /\ pc = [p \in Invocations |-> "start"]
    /\ cfg = [p \in Invocations |-> EmptyConfig]
    /\ target \in [Invocations -> Aliases]
    /\ field = [p \in Invocations |-> "entry"]
    /\ fd = [p \in Invocations |-> NoInode]
    /\ result = [p \in Invocations |-> "none"]
    /\ tmp = NoInode
    /\ \/ /\ path = NoInode
          /\ disk = [i \in Inodes |-> NoText]
          /\ past = {EmptyConfig}
       \/ \E c \in InitialConfigs, f \in Inodes :
             /\ path = f
             /\ disk = [i \in Inodes |-> IF i = f THEN Whole(c) ELSE NoText]
             /\ past = {c}

-----------------------------------------------------------------------------
(* Reading the file.                                                       *)

\* What config.Load can return.  No file, and a file with no text in it,
\* are an empty configuration.  Part of a text is a smaller configuration,
\* when it is not a parse error.
Loaded ==
    IF path = NoInode THEN {EmptyConfig}
    ELSE IF disk[path].text = "whole" THEN {disk[path].cfg}
    ELSE IF disk[path].text = "empty" THEN {EmptyConfig}
    ELSE Truncations(disk[path].cfg)

Goto(p, where) == pc' = [pc EXCEPT ![p] = where]

\* The process ends, and its memory and descriptors with it.
End(p, how) ==
    /\ Goto(p, how)
    /\ cfg' = [cfg EXCEPT ![p] = EmptyConfig]
    /\ fd' = [fd EXCEPT ![p] = NoInode]

\* Load errors, a refused alias, no device, a declined prompt, a probe that
\* rules the host out, an interrupt: the invocation ends with nothing saved.
GiveUp(p) ==
    /\ pc[p] \in {"start", "probe", "prompt"}
    /\ End(p, "done")
    /\ UNCHANGED <<target, field, result, fileVars>>

\* runConfigAdd up to the probe: an alias in use is refused before probing.
CheckAlias(p) ==
    /\ p \in Adders \cup ForcedAdders
    /\ pc[p] = "start"
    /\ \E c \in Loaded :
          /\ p \in Adders => ~Has(c, target[p])
          /\ cfg' = [cfg EXCEPT ![p] = c]
    /\ Goto(p, "probe")
    /\ UNCHANGED <<target, field, fd, result, fileVars>>

\* The wizard and `discover --add` load before they ask.
BeginPrompt(p) ==
    /\ p \in Prompters
    /\ pc[p] = "start"
    /\ \E c \in Loaded : cfg' = [cfg EXCEPT ![p] = c]
    /\ Goto(p, "prompt")
    /\ UNCHANGED <<target, field, fd, result, fileVars>>

\* setupState, for a device resolved by alias.
BeginCommand(p) ==
    /\ p \in Commands
    /\ pc[p] = "start"
    /\ \E c \in Loaded :
          /\ Has(c, target[p])
          /\ cfg' = [cfg EXCEPT ![p] = c]
    /\ Goto(p, "run")
    /\ UNCHANGED <<target, field, fd, result, fileVars>>

-----------------------------------------------------------------------------
(* Changing the configuration in memory, and entering config.Save.         *)

\* Without Overlap no other invocation is between the read that its save is
\* based on (for `config add`) and the end of its Save.
MaySave(p) == Overlap \/ \A q \in Invocations \ {p} : pc[q] \notin SaveSteps

BeginSave(p, new, what) ==
    /\ MaySave(p)
    /\ cfg' = [cfg EXCEPT ![p] = new]
    /\ field' = [field EXCEPT ![p] = what]
    /\ Goto(p, "remove")
    /\ UNCHANGED <<target, fd, result, fileVars>>

\* Mutant: the configuration loaded before the probe is saved.
ReloadSkipped(p) ==
    /\ pc[p] = "probe"
    /\ \E h \in Hosts, setDefault \in BOOLEAN :
          BeginSave(p, AddEntry(cfg[p], target[p], h, setDefault), "entry")

\* Mutant: the second load does not look at the alias again.
ReloadUnchecked(p) ==
    /\ pc[p] = "probe"
    /\ \E c \in Loaded, h \in Hosts, setDefault \in BOOLEAN :
          BeginSave(p, AddEntry(c, target[p], h, setDefault), "entry")

\* runConfigAdd after the probe: load and check again, add the entry, save.
Reload(p) ==
    /\ pc[p] = "probe"
    /\ \E c \in Loaded, h \in Hosts, setDefault \in BOOLEAN :
          /\ p \in Adders => ~Has(c, target[p])
          /\ BeginSave(p, AddEntry(c, target[p], h, setDefault), "entry")

\* The user has answered.  An alias taken in the loaded copy is replaced by
\* a free one, or the user gives up.
AnswerPrompt(p) ==
    /\ pc[p] = "prompt"
    /\ ~Has(cfg[p], target[p])
    /\ \E h \in Hosts :
          BeginSave(p, AddEntry(cfg[p], target[p], h, FALSE), "entry")

\* persistRediscoveredHost, on the copy loaded when the command began.
PersistHost(p) ==
    /\ pc[p] = "run"
    /\ \E h \in Hosts : BeginSave(p, SetHost(cfg[p], target[p], h), "host")

\* persistDeviceID, on the same copy.
PersistId(p) ==
    /\ pc[p] = "run"
    /\ ~cfg[p].devices[target[p]].id
    /\ BeginSave(p, SetId(cfg[p], target[p]), "id")

FinishCommand(p) ==
    /\ pc[p] = "run"
    /\ End(p, "done")
    /\ UNCHANGED <<target, field, result, fileVars>>

-----------------------------------------------------------------------------
(* saveTo.                                                                 *)

\* Back to the command, its file closed.
Resume(p) ==
    /\ Goto(p, "run")
    /\ fd' = [fd EXCEPT ![p] = NoInode]
    /\ UNCHANGED cfg

\* Mutant: every caller goes on as a command does.
SaveReturnsToRun(p, how) ==
    /\ IF how = "saved" \/ field[p] = "id" THEN Resume(p) ELSE End(p, "done")
    /\ result' = [result EXCEPT ![p] = how]
    /\ field' = [field EXCEPT ![p] = "entry"]
    /\ UNCHANGED target

\* Save returns.  A command goes on, unless a host could not be saved.
SaveReturns(p, how) ==
    /\ IF p \in Commands /\ (how = "saved" \/ field[p] = "id")
         THEN Resume(p) ELSE End(p, "done")
    /\ result' = [result EXCEPT ![p] = how]
    /\ field' = [field EXCEPT ![p] = "entry"]
    /\ UNCHANGED target

\* The text of a file that has lost its name is out of reach.
Unlinked(i) == IF i = NoInode THEN disk ELSE [disk EXCEPT ![i] = NoText]

\* The text would not read back, or the directory cannot be made.
SaveRefused(p) ==
    /\ pc[p] = "remove"
    /\ SaveReturns(p, "failed")
    /\ UNCHANGED fileVars

\* os.Remove(tmp), whatever it says.
RemoveTmp(p) ==
    /\ pc[p] = "remove"
    /\ tmp' = NoInode /\ disk' = Unlinked(tmp)
    /\ Goto(p, "create")
    /\ UNCHANGED <<cfg, target, field, fd, result, path, past>>

InUse(i) == i \in {path, tmp} \/ \E q \in Invocations : fd[q] = i

\* os.WriteFile opens with O_CREATE|O_TRUNC: the file of that name, or a new one.
CreateTmp(p) ==
    /\ pc[p] = "create"
    /\ \E i \in Inodes :
          /\ IF tmp = NoInode THEN ~InUse(i) ELSE i = tmp
          /\ tmp' = i
          /\ fd' = [fd EXCEPT ![p] = i]
          /\ disk' = [disk EXCEPT ![i] = NoText]
    /\ Goto(p, "write")
    /\ UNCHANGED <<cfg, target, field, result, path, past>>

CreateFails(p) ==
    /\ pc[p] = "create"
    /\ SaveReturns(p, "failed")
    /\ UNCHANGED fileVars

\* The whole text, at offset 0.  A longer text already there keeps its tail.
WriteTmp(p) ==
    /\ pc[p] = "write"
    /\ \E t \in {Whole(cfg[p]), Part(cfg[p])} :
          /\ disk[fd[p]].text = "empty" => t = Whole(cfg[p])
          /\ disk' = [disk EXCEPT ![fd[p]] = t]
    /\ Goto(p, "rename")
    /\ UNCHANGED <<cfg, target, field, fd, result, path, tmp, past>>

\* Mutant: the error of a short write is not looked at.
WriteErrorIgnored(p) ==
    /\ pc[p] = "write"
    /\ disk' = [disk EXCEPT ![fd[p]] = Part(cfg[p])]
    /\ Goto(p, "rename")
    /\ UNCHANGED <<cfg, target, field, fd, result, path, tmp, past>>

\* The disk is full: the file stays with what went in.
WriteFails(p) ==
    /\ pc[p] = "write"
    /\ disk' = [disk EXCEPT ![fd[p]] = Part(cfg[p])]
    /\ SaveReturns(p, "failed")
    /\ UNCHANGED <<path, tmp, past>>

\* os.Rename(tmp, path): whatever file has that name by now.
RenameTmp(p) ==
    /\ pc[p] = "rename" /\ tmp # NoInode
    /\ path' = tmp /\ tmp' = NoInode /\ disk' = Unlinked(path)
    /\ past' = past \cup {disk[tmp].cfg}
    /\ SaveReturns(p, "saved")

RenameFails(p) ==
    /\ pc[p] = "rename"
    /\ Goto(p, "cleanup")
    /\ UNCHANGED <<cfg, target, field, fd, result, fileVars>>

CleanupTmp(p) ==
    /\ pc[p] = "cleanup"
    /\ tmp' = NoInode /\ disk' = Unlinked(tmp)
    /\ SaveReturns(p, "failed")
    /\ UNCHANGED <<path, past>>

-----------------------------------------------------------------------------
\* The process is killed.
Crash(p) ==
    /\ pc[p] \notin {"done", "crashed"}
    /\ End(p, "crashed")
    /\ UNCHANGED <<target, field, result, fileVars>>

Save(p) ==
    \/ SaveRefused(p) \/ RemoveTmp(p) \/ CreateTmp(p) \/ CreateFails(p)
    \/ WriteTmp(p) \/ WriteFails(p) \/ RenameTmp(p) \/ RenameFails(p)
    \/ CleanupTmp(p)

Step(p) ==
    \/ GiveUp(p) \/ CheckAlias(p) \/ BeginPrompt(p) \/ BeginCommand(p)
    \/ Reload(p) \/ AnswerPrompt(p)
    \/ PersistHost(p) \/ PersistId(p) \/ FinishCommand(p)
    \/ Save(p) \/ Crash(p)

Next == \E p \in Invocations : Step(p)

Spec == Init /\ [][Next]_vars

-----------------------------------------------------------------------------
(* Properties.                                                             *)

\* Every variable stays in its domain, every invocation in its own code, and
\* a command has its device.
TypeOK ==
    /\ pc \in [Invocations -> AllPlaces]
    /\ \A p \in Invocations : pc[p] \in Places(p)
    /\ cfg \in [Invocations -> Configs]
    /\ target \in [Invocations -> Aliases]
    /\ field \in [Invocations -> {"entry", "host", "id"}]
    /\ fd \in [Invocations -> Inodes \cup {NoInode}]
    /\ result \in [Invocations -> {"none", "saved", "failed"}]
    /\ path \in Inodes \cup {NoInode}
    /\ tmp \in Inodes \cup {NoInode}
    /\ disk \in [Inodes -> Texts]
    /\ past \subseteq Configs
    /\ \A p \in Commands :
          pc[p] \in {"run"} \cup SaveSteps => Has(cfg[p], target[p])

\* config.yaml is never empty or cut short, whoever is killed and whatever
\* fails in the middle of a save (config.go: "concurrent invocations cannot
\* corrupt the file").
FileIsWhole == path # NoInode => disk[path].text = "whole"

\* The configuration config.yaml stands for.
Stored == IF path = NoInode THEN EmptyConfig ELSE disk[path].cfg

\* What another invocation saved while `config add` was probing is still
\* there after it has saved (the comment on runConfigAdd's second load).
AddKeepsOthers ==
    [][\A p \in Adders \cup ForcedAdders :
          result[p] = "none" /\ result'[p] = "saved" =>
              ChangesOnly(Stored, Stored', target[p])]_vars

\* Without --force, `config add` never replaces an entry, not even one that
\* appeared while it was probing.
AddNeverReplaces ==
    [][\A p \in Adders :
          result[p] = "none" /\ result'[p] = "saved" =>
              ~Has(Stored, target[p])]_vars

\* Writing back a rediscovered host leaves everything else as it is on disk
\* (dhcp.go: "while preserving everything else").
RediscoveryPreservesOthers ==
    [][\A p \in Commands :
          pc[p] = "rename" /\ field[p] = "host" /\ path' # path =>
              ChangesOnly(Stored, Stored', target[p])]_vars

\* The file is the register its users think of, with every save taking
\* place in one step.
Register == INSTANCE ConfigRegister WITH
    Others <- Prompters \cup Commands,
    InitialConfigs <- InitialConfigs \cup {EmptyConfig},
    stored <- Stored,
    told <- result

Refinement == Register!Spec

-----------------------------------------------------------------------------
(* The inductive invariant behind FileIsWhole and Refinement, when saves   *)
(* do not overlap.                                                         *)

Saving(p) == pc[p] \in SaveSteps

\* One invocation at a time is in saveTo.
OneSaver ==
    \A p, q \in Invocations : Saving(p) /\ Saving(q) => p = q

\* The file being written is <path>.tmp and nobody else's.
WriterOwnsTmp ==
    \A p \in Invocations :
        pc[p] \in {"write", "rename"} => tmp # NoInode /\ fd[p] = tmp

\* What is about to be renamed is whole.
ReadyToRename ==
    \A p \in Invocations : pc[p] = "rename" => disk[tmp] = Whole(cfg[p])

\* What is about to be written starts from nothing.
ReadyToWrite ==
    \A p \in Invocations : pc[p] = "write" => disk[tmp] = NoText

\* What `config add` is about to save is the stored configuration with its
\* entry added.
AddIsCurrent ==
    \A p \in Adders \cup ForcedAdders :
        Saving(p) =>
            /\ p \in Adders => ~Has(Stored, target[p])
            /\ \E h \in Hosts, setDefault \in BOOLEAN :
                  cfg[p] = AddEntry(Stored, target[p], h, setDefault)

\* What anyone else holds is an earlier configuration but for one entry.
CopyIsEarlier ==
    \A p \in Prompters \cup Commands :
        pc[p] \in {"prompt", "run"} \cup SaveSteps =>
            \E old \in past : ChangesOnly(old, cfg[p], target[p])

StoreInv ==
    /\ OneSaver
    /\ WriterOwnsTmp
    /\ ReadyToWrite
    /\ ReadyToRename
    /\ path # NoInode => path # tmp
    /\ FileIsWhole
    /\ Stored \in past
    /\ AddIsCurrent
    /\ CopyIsEarlier

=============================================================================
