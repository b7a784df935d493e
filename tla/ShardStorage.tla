---------------------------- MODULE ShardStorage ----------------------------
(***************************************************************************)
(* The files of one replica shard: the replicated.log of ReplicaJournal    *)
(* (protocol.py), replica-state.json, the local collection, and the three  *)
(* sibling directories that ReplicaShard.install_snapshot (replica.py)     *)
(* builds, swaps and removes.  ReplicaShard gives what a handler does to   *)
(* the shard as a whole; here every write, fsync and rename is a step, the *)
(* process may die or a call may fail at each of them, and a power loss    *)
(* takes back what was not synced.                                         *)
(*                                                                         *)
(* File system: a rename is atomic, operations reach the disk in order,    *)
(* and an fsync of any file or directory takes with it everything before   *)
(* it.  `unsynced' holds the views a power loss may fall back to.          *)
(*                                                                         *)
(* The server loop runs one request at a time.  The collection's own       *)
(* files are CollectionStore's subject: an upsert is one synced step.  The *)
(* mutations here are those _apply makes one call of, which the collection *)
(* takes or refuses whole; LogicalRecords and ReplicaShard have the halves *)
(* of the others.                                                          *)
(***************************************************************************)
EXTENDS ReplicaShard

CONSTANTS
  Entries,    \* the entries the coordinator replicates to this shard
  Configs,    \* the <<term, placement_epoch>> pairs it configures
  Snapshots,  \* the applied indexes of the snapshots it sends
  MaxFaults,  \* how often the process dies or the power fails (bound)
  MaxErrors   \* how many file operations raise (bound)

ASSUME StorageAssumption ==
  /\ Halved = {}
  /\ Entries \subseteq Entry
  \* DistributedCluster's OneEntryPerIndex; mutations are told apart by their entry.
  /\ \A e, f \in Entries : e.index = f.index \/ e.mut = f.mut => e = f
  /\ Configs \subseteq Nat \X Nat
  /\ Snapshots \subseteq Nat
  /\ MaxFaults \in Nat /\ MaxErrors \in Nat

VARIABLES
  fs,        \* the directories as the process sees them
  unsynced,  \* the earlier views a power loss may restore
  mem,       \* the fields of the ReplicaShard object and of its journal
  open,      \* its collection handle is open
  pc, op,    \* the running handler and its arguments
  promised,  \* history: for every point, the newest index answered for
  accidents, \* history: an "append" raised after writing part of its line, or the shard
             \* went on with the files or the fields that a "rollback" that raised left it
  faults, errors

vars == <<fs, unsynced, mem, open, pc, op, promised, accidents, faults, errors>>

-----------------------------------------------------------------------------
(***************************************************************************)
(* The journal file: complete lines, and at most one torn line at its end. *)
(* What is appended behind a torn line lands on the same line.             *)
(***************************************************************************)
Torn == [kind |-> "torn"]
Bad == [kind |-> "bad"]
PrepareLine(e) == [kind |-> "prepare", entry |-> e]
CommitLine(i) == [kind |-> "commit", index |-> i]
SnapshotLine(i) == [kind |-> "snapshot", index |-> i]

EndsTorn(log) == log # <<>> /\ Last(log) = Torn

\* ReplicaJournal._append
Appended(log, line) ==
  IF ~EndsTorn(log) THEN Append(log, line)
  ELSE IF line = Torn THEN log
  ELSE [log EXCEPT ![Len(log)] = Bad]

\* Mutant: the torn tail is skipped and stays in the file.
Complete_KeepsTail(log) == log

\* The part of the file that ReplicaJournal._load reads and keeps.
Complete(log) == IF EndsTorn(log) THEN SubSeq(log, 1, Len(log) - 1) ELSE log

\* _load raises on a line it cannot decode and on a commit without its prepare.
Loadable(log) ==
  \A i \in 1..Len(Complete(log)) :
    /\ log[i] # Bad
    /\ log[i].kind = "commit" =>
         \E j \in 1..(i - 1) : log[j].kind = "prepare" /\ log[j].entry.index = log[i].index

Lines(log, kind) == {log[i] : i \in {j \in 1..Len(log) : log[j].kind = kind}}

\* The dictionaries that _load builds.
Journal(log) ==
  [prepared |-> {l.entry : l \in Lines(log, "prepare")},
   committed |-> {l.index : l \in Lines(log, "commit")},
   snapshot_index |->
     LET found == {0} \cup {l.index : l \in Lines(log, "snapshot")}
     IN  CHOOSE i \in found : \A j \in found : j <= i]

-----------------------------------------------------------------------------
(***************************************************************************)
(* A shard directory.  A file that is missing reads as its default: zeros, *)
(* an empty journal, an empty collection.                                  *)
(***************************************************************************)
Dir == {"root", "stage", "backup", "failed"}
NoDir == [missing |-> TRUE]

NewDir == [term |-> 0, placement_epoch |-> 0, applied_index |-> 0, log |-> <<>>,
           content |-> EmptyDisk.content]

\* The directory _recover_snapshot_workspaces makes the shard's.
Survivor(view) ==
  IF view.root # NoDir THEN view.root
  ELSE IF view.backup # NoDir THEN view.backup ELSE NewDir

\* The shard as ReplicaShard sees it.  (`done' is that module's history.)
DiskOf(dir) ==
  LET journal == Journal(dir.log)
  IN  [term |-> dir.term, placement_epoch |-> dir.placement_epoch,
       applied_index |-> dir.applied_index, prepared |-> journal.prepared,
       committed |-> journal.committed, snapshot_index |-> journal.snapshot_index,
       content |-> dir.content, dense |-> dir.content, done |-> {}]

\* The shard another replica exports at index i: everything up to i applied, except
\* what the collection refuses.
Source(i) ==
  LET upto == {e \in Entries : e.index <= i /\ e.mut \notin Rejected}
  IN  [Replayed(EmptyDisk, upto, upto) EXCEPT !.applied_index = i]

-----------------------------------------------------------------------------
Views == unsynced \cup {fs}

\* The current view becomes `view', durably or not.
Sync(view) == fs' = view /\ unsynced' = {}
NoSync(view) == fs' = view /\ unsynced' = Views

NoMem == [term |-> 0, placement_epoch |-> 0, applied_index |-> 0,
          prepared |-> {}, committed |-> {}, snapshot_index |-> 0]
\* `closed': install_snapshot was called on a collection that a failed rollback closed.
NoOp == [entry |-> {}, config |-> <<0, 0>>, index |-> 0, then |-> "idle", closed |-> FALSE]

Init ==
  /\ fs = [d \in Dir |-> NoDir] /\ unsynced = {}
  /\ mem = NoMem /\ open = FALSE
  /\ pc = "down" /\ op = NoOp
  /\ promised = [k \in Key |-> 0] /\ accidents = {}
  /\ faults = 0 /\ errors = 0

history == <<promised, accidents, faults, errors>>

Goto(label) == pc' = label /\ UNCHANGED op
Return == pc' = "idle" /\ op' = NoOp

\* A file operation raises.
Fails ==
  /\ errors < MaxErrors /\ errors' = errors + 1
  /\ UNCHANGED <<promised, faults>>

\* The exception leaves __init__, and there is no shard, or it is the answer.
Raise ==
  IF pc = "load" \/ op.then \in {"load", "replay"}
  THEN pc' = "down" /\ op' = NoOp /\ mem' = NoMem /\ open' = FALSE
  ELSE Return /\ UNCHANGED <<mem, open>>

-----------------------------------------------------------------------------
(***************************************************************************)
(* _recover_snapshot_workspaces, run by __init__ and by install_snapshot.  *)
(***************************************************************************)
\* _remove_snapshot_workspace on a directory that exists: its files go, then the
\* directory itself.
Remove(d) ==
  /\ fs[d] # NoDir
  /\ NoSync([fs EXCEPT ![d] = IF @ = NewDir THEN NoDir ELSE NewDir])
  /\ UNCHANGED <<mem, open, pc, op, history>>

RecoverRename ==
  /\ pc = "recover"
  /\ fs["backup"] # NoDir /\ fs["root"] = NoDir
  /\ Sync([fs EXCEPT !["root"] = fs["backup"], !["backup"] = NoDir])
  /\ UNCHANGED <<mem, open, pc, op, history>>

\* Mutant: the backup is removed before the shard directory is looked for.
RecoverRemove_BackupFirst ==
  /\ pc = "recover"
  /\ \E d \in {"backup", "stage", "failed"} : Remove(d)

RecoverRemove ==
  /\ pc = "recover"
  /\ \/ fs["root"] # NoDir /\ Remove("backup")
     \/ fs["backup"] = NoDir /\ Remove("stage")
     \/ fs["backup"] = NoDir /\ fs["stage"] = NoDir /\ Remove("failed")

RecoverRaises ==
  /\ pc = "recover"
  /\ Fails
  /\ Raise
  /\ UNCHANGED <<fs, unsynced, accidents>>

\* No workspace is left: the caller goes on.
Cleared(then) ==
  /\ pc = "recover" /\ op.then = then
  /\ \A d \in {"stage", "backup", "failed"} : fs[d] = NoDir
  /\ pc' = then /\ op' = [op EXCEPT !.then = "idle"]

(***************************************************************************)
(* ReplicaShard.__init__                                                   *)
(***************************************************************************)
Open ==
  /\ pc = "down"
  /\ pc' = "recover" /\ op' = [NoOp EXCEPT !.then = "load"]
  /\ UNCHANGED <<fs, unsynced, mem, open, history>>

\* mkdir of the root, unless it is there.
OpenRoot ==
  /\ Cleared("load")
  /\ IF fs["root"] = NoDir THEN NoSync([fs EXCEPT !["root"] = NewDir])
     ELSE UNCHANGED <<fs, unsynced>>
  /\ UNCHANGED <<mem, open, history>>

\* The state file and the journal are read, the journal's torn tail is cut off
\* and synced, the collection opens.
Load ==
  /\ pc = "load" /\ Loadable(fs["root"].log)
  /\ LET dir == [fs["root"] EXCEPT !.log = Complete(@)]
         journal == Journal(dir.log)
     IN  /\ IF dir # fs["root"] THEN Sync([fs EXCEPT !["root"] = dir])
            ELSE UNCHANGED <<fs, unsynced>>
         /\ mem' = [term |-> dir.term, placement_epoch |-> dir.placement_epoch,
                    applied_index |-> dir.applied_index, prepared |-> journal.prepared,
                    committed |-> journal.committed,
                    snapshot_index |-> journal.snapshot_index]
  /\ open' = TRUE
  /\ Goto("replay")
  /\ UNCHANGED history

LoadRaises ==
  /\ pc = "load" /\ ~Loadable(fs["root"].log)
  /\ Raise
  /\ UNCHANGED <<fs, unsynced, history>>

\* ReplicaJournal.committed_after(self.applied_index).  The code computes the list
\* once; what is left of it, as nothing is journalled during a replay, is this set.
ToReplay == {e \in mem.prepared : e.index \in mem.committed /\ e.index > mem.applied_index}

\* _replay_committed takes the committed entries in index order.
Replay ==
  /\ pc = "replay"
  /\ IF ToReplay = {} THEN Return
     ELSE /\ pc' = "apply"
          /\ \E e \in ToReplay :
               /\ \A f \in ToReplay : e.index <= f.index
               /\ op' = [op EXCEPT !.entry = {e}, !.then = "replay"]
  /\ UNCHANGED <<fs, unsynced, mem, open, history>>

-----------------------------------------------------------------------------
(***************************************************************************)
(* prepare and commit.  _validate_entry_epoch: the entry carries the term  *)
(* and epoch the replica was configured with.                              *)
(***************************************************************************)
TheEntry == CHOOSE e \in op.entry : TRUE

\* The line the running handler has to append next, if any.
NextLine ==
  CASE pc = "prepare" /\ TheEntry \notin mem.prepared -> {PrepareLine(TheEntry)}
    [] pc = "commit" /\ TheEntry.index \notin mem.committed -> {CommitLine(TheEntry.index)}
    [] OTHER -> {}

\* After a rollback that raised, the fields are those of one shard and the files may
\* be those of another.
Served ==
  /\ accidents' = accidents \cup (IF open THEN {} ELSE {"rollback"})
  /\ UNCHANGED <<promised, faults, errors>>

Prepare(e) ==
  /\ pc = "idle" /\ mem.term > 0
  /\ e.index > mem.snapshot_index
  /\ pc' = "prepare" /\ op' = [NoOp EXCEPT !.entry = {e}]
  /\ Served
  /\ UNCHANGED <<fs, unsynced, mem, open>>

Commit(e) ==
  /\ pc = "idle" /\ mem.term > 0
  /\ pc' = "prepare" /\ op' = [NoOp EXCEPT !.entry = {e}, !.then = "commit"]
  /\ Served
  /\ UNCHANGED <<fs, unsynced, mem, open>>

\* Mutant: the commit marker is left out.
JournalStep_NoMarker ==
  /\ pc = "prepare" /\ fs["root"] # NoDir
  /\ Sync([fs EXCEPT !["root"].log = Appended(@, PrepareLine(TheEntry))])
  /\ mem' = [mem EXCEPT !.prepared = @ \cup {TheEntry}]
  /\ IF op.then = "commit" THEN pc' = "apply" /\ op' = [op EXCEPT !.then = "idle"] ELSE Return
  /\ UNCHANGED <<open, history>>

\* ReplicaJournal.prepare and ReplicaJournal.commit: the line is written and synced,
\* then the dictionary has it; what the dictionary has is not written again.
JournalStep ==
  /\ pc \in {"prepare", "commit"}
  /\ fs["root"] # NoDir \/ NextLine = {}
  /\ IF NextLine = {} THEN UNCHANGED <<fs, unsynced, mem>>
     ELSE \E line \in NextLine :
       /\ Sync([fs EXCEPT !["root"].log = Appended(@, line)])
       /\ mem' = IF pc = "prepare"
                 THEN [mem EXCEPT !.prepared = @ \cup {line.entry}]
                 ELSE [mem EXCEPT !.committed = @ \cup {line.index}]
  /\ CASE pc = "prepare" /\ op.then = "idle" -> Return
       [] pc = "prepare" /\ op.then = "commit" ->
            pc' = "commit" /\ op' = [op EXCEPT !.then = "idle"]
       [] pc = "commit" /\ TheEntry.index > mem.applied_index -> Goto("apply")
       [] OTHER -> Return
  /\ UNCHANGED <<open, history>>

\* A write or its fsync raises, or the process dies in it: nothing, a part of the
\* line, or all of it is in the file, and none of it is synced.
LineCut(line) ==
  {fs} \cup {[fs EXCEPT !["root"].log = Appended(@, l)] : l \in {Torn, line}}

JournalRaises ==
  /\ pc \in {"prepare", "commit"} /\ NextLine # {}
  /\ IF fs["root"] = NoDir
     THEN UNCHANGED <<fs, unsynced, history>>
     ELSE /\ Fails
          /\ \E line \in NextLine : \E view \in LineCut(line) :
               /\ IF view = fs THEN UNCHANGED <<fs, unsynced>> ELSE NoSync(view)
               /\ accidents' = accidents \cup (IF EndsTorn(view["root"].log) THEN {"append"} ELSE {})
  /\ Return
  /\ UNCHANGED <<mem, open>>

\* ReplicaShard._apply
ApplyEntry ==
  /\ pc = "apply" /\ open /\ TheEntry.mut \notin Rejected
  /\ Sync([fs EXCEPT !["root"].content[KeyOf[TheEntry.mut]] = TheEntry.mut])
  /\ mem' = [mem EXCEPT !.applied_index = TheEntry.index]
  /\ Goto("publish")
  /\ UNCHANGED <<open, history>>

\* The collection refuses the mutation, its handle is closed, or its write fails.
ApplyRaises ==
  /\ pc = "apply"
  /\ \/ (~open \/ TheEntry.mut \in Rejected) /\ UNCHANGED history
     \/ Fails /\ UNCHANGED accidents
  /\ Raise
  /\ UNCHANGED <<fs, unsynced>>

(***************************************************************************)
(* configure, and _publish_checked for everyone: the temporary file is     *)
(* synced, its rename is not.                                              *)
(***************************************************************************)
Configure(c) ==
  /\ pc = "idle"
  /\ c[1] >= mem.term /\ c[2] >= mem.placement_epoch
  /\ mem' = [mem EXCEPT !.term = c[1], !.placement_epoch = c[2]]
  /\ pc' = "publish" /\ op' = NoOp
  /\ Served
  /\ UNCHANGED <<fs, unsynced, open>>

WithState(dir) ==
  [dir EXCEPT !.term = mem.term, !.placement_epoch = mem.placement_epoch,
              !.applied_index = mem.applied_index]

\* The directory is created when it is missing.
PublishState ==
  /\ pc = "publish"
  /\ fs' = [fs EXCEPT !["root"] = WithState(IF @ = NoDir THEN NewDir ELSE @)]
  /\ unsynced' = {fs}
  /\ promised' =
       IF op.entry = {} \/ op.then # "idle" THEN promised
       ELSE [promised EXCEPT ![KeyOf[TheEntry.mut]] = TheEntry.index]
  /\ IF op.then = "replay" THEN pc' = "replay" /\ op' = NoOp ELSE Return
  /\ UNCHANGED <<mem, open, accidents, faults, errors>>

PublishRaises ==
  /\ pc = "publish"
  /\ Fails
  /\ Raise
  /\ UNCHANGED <<fs, unsynced, accidents>>

-----------------------------------------------------------------------------
(***************************************************************************)
(* install_snapshot                                                        *)
(***************************************************************************)
InstallSnapshot(i, c) ==
  /\ pc = "idle"
  /\ i >= mem.applied_index
  /\ c[1] >= mem.term /\ c[2] >= mem.placement_epoch
  /\ pc' = "recover"
  /\ op' = [NoOp EXCEPT !.index = i, !.config = c, !.then = "stage", !.closed = ~open]
  /\ UNCHANGED <<fs, unsynced, mem, open, history>>

\* The collection, the journal with its one record and the state file are built
\* in the stage directory, each synced.
StageCollection ==
  /\ Cleared("stage")
  /\ Sync([fs EXCEPT !["stage"] = [NewDir EXCEPT !.content = Source(op.index).content]])
  /\ UNCHANGED <<mem, open, history>>

StageJournal ==
  /\ pc = "stage"
  /\ Sync([fs EXCEPT !["stage"].log = Appended(@, SnapshotLine(op.index))])
  /\ Goto("state")
  /\ UNCHANGED <<mem, open, history>>

\* Then the stage directory itself is synced and the live collection closed.
StageState ==
  /\ pc = "state"
  /\ Sync([fs EXCEPT !["stage"] = [@ EXCEPT !.term = op.config[1],
                                            !.placement_epoch = op.config[2],
                                            !.applied_index = op.index]])
  /\ open' = FALSE
  /\ Goto("swap")
  /\ UNCHANGED <<mem, history>>

StageRaises ==
  /\ pc \in {"stage", "state"}
  /\ Fails
  /\ Goto("finish")
  /\ UNCHANGED <<fs, unsynced, mem, open, accidents>>

\* Mutant: the shard directory is filled in place, the collection first.
SwapOut_InPlace ==
  /\ pc = "swap"
  /\ Sync([fs EXCEPT !["root"].content = fs["stage"].content])
  /\ Goto("swapped")
  /\ UNCHANGED <<mem, open, history>>

\* The collection reopens in the directory of before the install.  The fields are
\* that directory's, unless the rollback of an earlier install raised.
Reopens ==
  /\ open' = TRUE
  /\ accidents' = accidents \cup (IF op.closed THEN {"rollback"} ELSE {})

\* os.replace(self.root, backup_root); when it raises the collection reopens.
SwapOut ==
  /\ pc = "swap" /\ fs["root"] # NoDir
  /\ NoSync([fs EXCEPT !["backup"] = fs["root"], !["root"] = NoDir])
  /\ Goto("swapped")
  /\ UNCHANGED <<mem, open, history>>

SwapOutRaises ==
  /\ pc = "swap"
  /\ Fails
  /\ Reopens
  /\ Goto("finish")
  /\ UNCHANGED <<fs, unsynced, mem>>

\* os.replace(stage_root, self.root)
SwapIn ==
  /\ pc = "swapped"
  /\ NoSync([fs EXCEPT !["root"] = fs["stage"], !["stage"] = NoDir])
  /\ Goto("adopt")
  /\ UNCHANGED <<mem, open, history>>

\* Mutant: the collection reopens and the backup stays where it is.
SwapInRaises_NoRollback ==
  /\ pc = "swapped"
  /\ Fails
  /\ open' = TRUE
  /\ Goto("finish")
  /\ UNCHANGED <<fs, unsynced, mem, accidents>>

SwapInRaises ==
  /\ pc = "swapped"
  /\ Fails
  /\ Goto("undo")
  /\ UNCHANGED <<fs, unsynced, mem, open, accidents>>

\* The parent is synced, collection and journal reopen, the fields follow.
Adopt ==
  /\ pc = "adopt"
  /\ Journal(fs["root"].log).snapshot_index = op.index
  /\ Sync(fs)
  /\ mem' = [term |-> op.config[1], placement_epoch |-> op.config[2],
             applied_index |-> op.index, prepared |-> {}, committed |-> {},
             snapshot_index |-> op.index]
  /\ open' = TRUE
  /\ Goto("drop_backup")
  /\ UNCHANGED history

\* The sync of the parent, an open or the check of the journal raises.
AdoptRaises ==
  /\ pc = "adopt"
  /\ Fails
  /\ \/ UNCHANGED <<fs, unsynced>>
     \/ Sync(fs)
  /\ Goto("undo")
  /\ UNCHANGED <<mem, open, accidents>>

\* The new directory, if it is in place, is moved aside; the backup returns.
Undo ==
  /\ pc = "undo"
  /\ IF fs["root"] = NoDir THEN UNCHANGED <<fs, unsynced>>
     ELSE NoSync([fs EXCEPT !["failed"] = fs["root"], !["root"] = NoDir])
  /\ Goto("restore")
  /\ UNCHANGED <<mem, open, history>>

BackInPlace(log) ==
  [fs EXCEPT !["root"] = [fs["backup"] EXCEPT !.log = log], !["backup"] = NoDir]

\* The parent is synced, the collection reopens, the journal is loaded again.
Restore ==
  /\ pc = "restore"
  /\ LET log == fs["backup"].log
         journal == Journal(Complete(log))
     IN  IF Loadable(log)
         THEN /\ Sync(BackInPlace(Complete(log)))
              /\ mem' = [mem EXCEPT !.prepared = journal.prepared,
                                    !.committed = journal.committed,
                                    !.snapshot_index = journal.snapshot_index]
              /\ Goto("drop_failed")
         ELSE /\ Sync(BackInPlace(log))
              /\ UNCHANGED mem
              /\ Goto("finish")
  /\ Reopens
  /\ UNCHANGED <<promised, faults, errors>>

\* The rollback of an install that failed may fail too, for the same reason.  An
\* exception out of it leaves the directories as they stand and the
\* collection closed.
UndoRaises ==
  /\ pc \in {"undo", "restore"}
  /\ \/ UNCHANGED <<fs, unsynced>>
     \/ pc = "restore" /\ NoSync(BackInPlace(fs["backup"].log))
  /\ Goto("finish")
  /\ UNCHANGED <<mem, open, history>>

DropFailed ==
  /\ pc = "drop_failed"
  /\ \/ Remove("failed")
     \/ /\ fs["failed"] = NoDir
        /\ Goto("finish")
        /\ UNCHANGED <<fs, unsynced, mem, open, history>>

\* The backup is removed and the parent synced; the answer is the new status.
DropBackup ==
  /\ pc = "drop_backup"
  /\ \/ Remove("backup")
     \/ /\ fs["backup"] = NoDir
        /\ Sync(fs)
        /\ promised' = [k \in Key |->
             LET m == Source(op.index).content[k]
             IN  IF m = NoMutation THEN promised[k]
                 ELSE (CHOOSE e \in Entries : e.mut = m).index]
        /\ Goto("finish")
        /\ UNCHANGED <<mem, open, accidents, faults, errors>>

DropRaises ==
  /\ pc \in {"drop_failed", "drop_backup"}
  /\ Fails
  /\ Goto("finish")
  /\ UNCHANGED <<fs, unsynced, mem, open, accidents>>

\* finally: the stage directory goes, and the handler answers.
Finish ==
  /\ pc = "finish"
  /\ \/ Remove("stage")
     \/ /\ fs["stage"] = NoDir
        /\ Return
        /\ UNCHANGED <<fs, unsynced, mem, open, history>>

-----------------------------------------------------------------------------
(***************************************************************************)
(* Faults.                                                                 *)
(***************************************************************************)
Dies ==
  /\ pc # "down" /\ faults < MaxFaults
  /\ faults' = faults + 1
  /\ pc' = "down" /\ op' = NoOp /\ mem' = NoMem /\ open' = FALSE
  /\ UNCHANGED <<promised, accidents, errors>>

\* The process is killed, maybe in the middle of an append.
Crash ==
  /\ Dies
  /\ \E view \in {fs} \cup (IF fs["root"] = NoDir THEN {}
                            ELSE UNION {LineCut(line) : line \in NextLine}) :
       IF view = fs THEN UNCHANGED <<fs, unsynced>> ELSE NoSync(view)

\* The machine loses power: any view since the last sync may be what is left.
PowerLoss ==
  /\ Dies
  /\ \E view \in Views :
       fs' = view /\ unsynced' = {}

Step ==
  \/ RecoverRename \/ RecoverRemove \/ RecoverRaises \/ OpenRoot \/ Load \/ LoadRaises \/ Replay
  \/ JournalStep \/ JournalRaises \/ ApplyEntry \/ ApplyRaises
  \/ PublishState \/ PublishRaises
  \/ StageCollection \/ StageJournal \/ StageState \/ StageRaises
  \/ SwapOut \/ SwapOutRaises \/ SwapIn \/ SwapInRaises \/ Adopt \/ AdoptRaises
  \/ Undo \/ Restore \/ UndoRaises \/ DropFailed \/ DropBackup \/ DropRaises \/ Finish

Next ==
  \/ Open
  \/ \E e \in Entries : Prepare(e) \/ Commit(e)
  \/ \E c \in Configs : Configure(c)
  \/ \E i \in Snapshots, c \in Configs : InstallSnapshot(i, c)
  \/ Step
  \/ Crash \/ PowerLoss

Spec == Init /\ [][Next]_vars

-----------------------------------------------------------------------------
(***************************************************************************)
(* Properties.                                                             *)
(***************************************************************************)
IndexOf(m) == IF m = NoMutation THEN 0 ELSE (CHOOSE e \in Entries : e.mut = m).index

\* What commit and install_snapshot answered for is there after a restart: whenever
\* the process dies or the power fails, inside an install or its rollback too, the
\* directory that recovery chooses, with its journal replayed over its state file
\* and collection, has for every point what was answered or something newer, if
\* the shard opens: its journal can be read and the collection takes what is replayed.
\* (Not when the shard went on after a rollback that raised: a configure that finds
\* the shard directory moved away makes a new one, and the next recovery removes the
\* backup.)
AnsweredSurvives ==
  "rollback" \notin accidents =>
    \A view \in Views, k \in Key :
      LET dir == Survivor(view)
      IN  Loadable(dir.log) /\ ~RecoveryRaises(DiskOf(dir)) =>
            IndexOf(Recovered(DiskOf(dir)).content[k]) >= promised[k]

\* An open shard answers from what it has answered for: whatever was rolled back,
\* the directory it serves is the shard, its content is not older than the answers,
\* and its journal holds every record the dictionaries have.
OpenShardIsWhole ==
  pc = "idle" /\ open /\ "rollback" \notin accidents =>
    /\ fs["root"] # NoDir
    /\ \A k \in Key : IndexOf(fs["root"].content[k]) >= promised[k]
    /\ LET journal == Journal(fs["root"].log)
       IN  /\ mem.prepared \subseteq journal.prepared \/ "append" \in accidents
           /\ mem.committed \subseteq journal.committed \/ "append" \in accidents
           /\ mem.snapshot_index = journal.snapshot_index
    /\ fs["root"].applied_index <= mem.applied_index

\* A shard opens after any crash: no order of deaths, power losses and reopenings
\* leaves a journal that _load refuses.  (An append that raises in the middle of
\* its line, in a process that goes on, can: the next append shares the line.)
JournalReopens ==
  accidents = {} => \A view \in Views : Loadable(Survivor(view).log)

\* The collection never runs ahead of the journal: a mutation found in the content
\* after any crash has its commit marker in the same directory's journal, or lies
\* below the snapshot that journal starts from.
ContentIsJournalled ==
  \A view \in Views, k \in Key :
    LET dir == Survivor(view)
        i == IndexOf(dir.content[k])
    IN  \/ i = 0 \/ accidents # {}
        \/ i \in Journal(dir.log).committed \/ i <= Journal(dir.log).snapshot_index

ShardSteps(d) ==
  {JournalPrepare(d, e) : e \in Entries}
  \cup {JournalCommit(d, e.index) : e \in Entries}
  \cup {[Apply(d, e) EXCEPT !.done = {}] : e \in Entries}
  \cup {[Installed(Source(i), c[1], c[2]) EXCEPT !.done = {}] : i \in Snapshots, c \in Configs}

RestartFinds == DiskOf(Survivor(fs))

ShardChange ==
  \/ RestartFinds' = RestartFinds \/ "rollback" \in accidents'
  \/ RestartFinds' \in ShardSteps(RestartFinds)
  \/ RestartFinds' = [RestartFinds EXCEPT !.term = mem'.term,
        !.placement_epoch = mem'.placement_epoch, !.applied_index = mem'.applied_index]
  \/ RestartFinds' \in {DiskOf(Survivor(view)) : view \in unsynced}
  \/ pc = "undo" /\ fs["backup"] # NoDir /\ RestartFinds' = DiskOf(fs["backup"])

\* What a restart would find changes only by one step of ReplicaShard at a time, by
\* the loss of what was not synced, or back to the shard of before while an install
\* is rolled back: never to a mix of two shards and never to an empty one.
ChangesByShardSteps == [][ShardChange]_vars
=============================================================================
