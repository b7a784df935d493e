------------------------- MODULE MaintenanceWorker -------------------------
(***************************************************************************)
(* Background maintenance of one collection: the native worker thread of   *)
(* native/maintenance_worker.c, its controller storage/maintenance.mojo,   *)
(* and the client threads of api/collection.mojo that schedule, wait for,  *)
(* race with and close it.                                                 *)
(*                                                                         *)
(* The C worker has ONE condition variable for the worker and for every    *)
(* drainer; a critical section of its mutex is one step.  The writer lock  *)
(* and the compaction lock are spin locks: a section that lets the worker  *)
(* act in its middle (set the compaction flag, then ask the worker) holds  *)
(* the writer lock across two steps, any other is one step.                *)
(*                                                                         *)
(* The data of a segment or of a run is left out: a segment is its level   *)
(* and an identity, the sealed runs of the read publisher are counted.     *)
(***************************************************************************)
EXTENDS Naturals, Sequences, FiniteSets, SequencesExt

CONSTANTS
  Client,          \* threads that call the collection
  CloseMeetsWait,  \* whether a close may run beside a wait_for_maintenance
  MaxCalls,        \* calls of each client (bound)
  MaxFailures,     \* maintenance jobs that raise (bound)
  LevelZeroLimit,  \* LEVEL_ZERO_SEGMENT_LIMIT: a flush waits here
  LevelZeroDue,    \* the policy threshold: a flush schedules a compaction
  SealedRunLimit,  \* a write waits here
  MaxSealedRuns,   \* a merge of the sealed runs is due here
  CompactionAttempts

Worker == "worker"
Free == "free"
Thread == Client \cup {Worker}
AllOps == {"schedule", "wait", "flush", "write", "compact", "maintain", "close"}

ASSUME MaintenanceAssumption ==
  /\ Worker \notin Client /\ Free \notin Thread
  /\ CloseMeetsWait \in BOOLEAN
  /\ {MaxCalls, MaxFailures} \subseteq Nat
  /\ {LevelZeroLimit, LevelZeroDue, SealedRunLimit, MaxSealedRuns,
      CompactionAttempts} \subseteq Nat \ {0}
  /\ MaxSealedRuns =< SealedRunLimit

VARIABLES
  \* struct akasha_worker
  pending, running, closing, failure, freed,
  asleep,     \* threads inside pthread_cond_wait
  \* _MaintenanceState and MaintenanceController
  requested,  \* compaction_requested
  cancelled, error, enabled, worker_closed,
  \* locks
  writer, compaction,
  \* the collection: committed segments, unflushed writes, sealed runs
  segments, next_id, dirty, sealed, closed,
  \* thread-local state
  pos, after, captured, attempts, merging,
  \* budgets, and the clients whose compaction request was not taken yet
  calls, failures, owed

native == <<pending, running, closing, failure, freed, asleep>>
control == <<requested, cancelled, error, enabled, worker_closed>>
store == <<segments, next_id, dirty, sealed, closed>>
locals == <<after, captured, attempts, merging>>
budgets == <<calls, failures>>
vars == <<native, control, writer, compaction, store, pos, locals, budgets, owed>>

Init ==
  /\ pending = FALSE /\ running = FALSE /\ closing = FALSE /\ failure = FALSE
  /\ freed = FALSE /\ asleep = {}
  /\ requested = FALSE /\ cancelled = FALSE /\ error = FALSE
  /\ enabled \in BOOLEAN        \* the native library may be missing
  /\ worker_closed = FALSE
  /\ writer = Free /\ compaction = Free
  /\ segments = <<>> /\ next_id = 1 /\ dirty = FALSE /\ sealed = 0
  /\ closed = FALSE
  /\ pos = [t \in Thread |-> IF t # Worker THEN "idle"
                             ELSE IF enabled THEN "ready" ELSE "exited"]
  /\ after = [c \in Client |-> "idle"]
  /\ captured = [t \in Thread |-> <<>>]
  /\ attempts = [t \in Thread |-> 0]
  /\ merging = 0
  /\ calls = [c \in Client |-> 0] /\ failures = 0
  /\ owed = {}

(***************************************************************************)
(* The native worker (native/maintenance_worker.c).                        *)
(***************************************************************************)
Broadcast == asleep' = {}

\* pthread_cond_signal wakes one waiter of the shared condition, any of them.
Signal == IF asleep = {} THEN UNCHANGED asleep
                         ELSE \E t \in asleep : asleep' = asleep \ {t}

RequestRaises == closing \/ failure

\* Mutant: a running job taken for a queued one.
AskWorker_RefusedWhileRunning ==
  IF RequestRaises \/ pending \/ running
    THEN UNCHANGED <<pending, asleep>>
    ELSE pending' = TRUE /\ Signal

\* Mutant: a request that does not signal.
AskWorker_Unsignalled ==
  IF RequestRaises \/ pending
    THEN UNCHANGED <<pending, asleep>>
    ELSE pending' = TRUE /\ UNCHANGED asleep

AskWorker ==
  IF RequestRaises \/ pending
    THEN UNCHANGED <<pending, asleep>>
    ELSE pending' = TRUE /\ Signal

\* A condition wait may also return for no reason.
SpuriousWakeup ==
  /\ \E t \in asleep : asleep' = asleep \ {t}
  /\ UNCHANGED <<pending, running, closing, failure, freed, control, writer,
                 compaction, store, pos, locals, budgets, owed>>

\* The top of the worker's loop: run the pending job, leave, or sleep.
WorkerLoop ==
  /\ pos[Worker] = "ready" /\ Worker \notin asleep
  /\ \/ /\ pending
        /\ pending' = FALSE /\ running' = TRUE
        /\ pos' = [pos EXCEPT ![Worker] = "merge"]
        /\ UNCHANGED asleep
     \/ /\ ~pending /\ closing
        /\ pos' = [pos EXCEPT ![Worker] = "exited"]
        /\ Broadcast
        /\ UNCHANGED <<pending, running>>
     \/ /\ ~pending /\ ~closing
        /\ asleep' = asleep \cup {Worker}
        /\ UNCHANGED <<pending, running, pos>>
  /\ UNCHANGED <<closing, failure, freed, control, writer, compaction, store,
                 locals, budgets, owed>>

\* Mutant: the drainers are not woken when a job ends.
CallbackReturns_Silent ==
  /\ pos[Worker] \in {"record", "failing"}
  /\ running' = FALSE
  /\ failure' = (failure \/ pos[Worker] = "failing")
  /\ pending' = (pending /\ pos[Worker] # "failing")
  /\ pos' = [pos EXCEPT ![Worker] = "ready"]
  /\ UNCHANGED <<closing, freed, asleep, control, writer, compaction, store,
                 locals, budgets, owed>>

\* The callback returned: a failure drops the job queued meanwhile.
CallbackReturns ==
  /\ pos[Worker] \in {"record", "failing"}
  /\ running' = FALSE
  /\ failure' = (failure \/ pos[Worker] = "failing")
  /\ pending' = (pending /\ pos[Worker] # "failing")
  /\ Broadcast
  /\ pos' = [pos EXCEPT ![Worker] = "ready"]
  /\ UNCHANGED <<closing, freed, control, writer, compaction, store, locals,
                 budgets, owed>>

(***************************************************************************)
(* The callback (_maintenance_entry).                                      *)
(***************************************************************************)
\* _merge_sealed_runs captures under the writer lock, builds outside it ...
MergeCapture ==
  /\ pos[Worker] = "merge" /\ writer = Free
  /\ LET due == ~cancelled /\ sealed >= MaxSealedRuns
     IN /\ merging' = IF due THEN sealed ELSE 0
        /\ pos' = [pos EXCEPT ![Worker] = IF due THEN "merging" ELSE "take"]
  /\ UNCHANGED <<native, control, writer, compaction, store, after, captured,
                 attempts, budgets, owed>>

\* ... and publishes under it; runs sealed since the capture stay.
MergePublish ==
  /\ pos[Worker] = "merging" /\ writer = Free
  /\ sealed' = IF cancelled \/ sealed < merging THEN sealed ELSE sealed - merging
  /\ merging' = 0
  /\ pos' = [pos EXCEPT ![Worker] = "take"]
  /\ UNCHANGED <<native, control, writer, compaction, segments, next_id, dirty,
                 closed, after, captured, attempts, budgets, owed>>

TakeCompactionRequest ==
  /\ pos[Worker] = "take"
  /\ requested' = FALSE
  /\ owed' = {}
  /\ pos' = [pos EXCEPT ![Worker] = IF requested THEN "compact" ELSE "record"]
  /\ UNCHANGED <<native, cancelled, error, enabled, worker_closed, writer,
                 compaction, store, locals, budgets>>

(***************************************************************************)
(* A compaction job, run by the worker (_compact) or by a client           *)
(* (_compact_exclusive).  Every job holds the compaction lock throughout.  *)
(***************************************************************************)
EnsureOpen == ~closed /\ ~error

LevelZero(segs) == Cardinality({i \in 1..Len(segs) : segs[i].level = 0})
ShouldCompact(segs, threshold) == LevelZero(segs) >= threshold

\* _checkpoint_unlocked: one segment for the unflushed writes, the first one
\* a base.  A collection that was never flushed publishes a base anyway.
Publishes == dirty \/ segments = <<>>
Checkpointed ==
  IF Publishes
    THEN Append(segments, [id |-> next_id, level |-> IF segments = <<>> THEN 1 ELSE 0])
    ELSE segments
Checkpoint ==
  /\ segments' = Checkpointed
  /\ next_id' = IF Publishes THEN next_id + 1 ELSE next_id
  /\ dirty' = FALSE

\* Where a thread goes when its job is over.
LeaveJob(t, where) ==
  /\ compaction' = Free
  /\ captured' = [captured EXCEPT ![t] = <<>>]
  /\ pos' = [pos EXCEPT ![t] = where]
JobOver(t) == LeaveJob(t, IF t = Worker THEN "record" ELSE "idle")

\* Mutant: a job that does not exclude the others.
JobLock_Shared(t) ==
  /\ pos[t] = "compact"
  /\ compaction' = t
  /\ attempts' = [attempts EXCEPT ![t] = 0]
  /\ pos' = [pos EXCEPT ![t] = "begin"]
  /\ UNCHANGED <<native, control, writer, store, after, captured, merging,
                 budgets, owed>>

JobLock(t) ==
  /\ pos[t] = "compact" /\ compaction = Free
  /\ compaction' = t
  /\ attempts' = [attempts EXCEPT ![t] = 0]
  /\ pos' = [pos EXCEPT ![t] = "begin"]
  /\ UNCHANGED <<native, control, writer, store, after, captured, merging,
                 budgets, owed>>

Capture(t, segs) ==
  IF Len(segs) =< 1
    THEN JobOver(t)
    ELSE /\ captured' = [captured EXCEPT ![t] = segs]
         /\ pos' = [pos EXCEPT ![t] = "build"]
         /\ UNCHANGED compaction

WorkerBegin ==
  /\ pos[Worker] = "begin" /\ writer = Free
  /\ IF cancelled THEN JobOver(Worker) ELSE Capture(Worker, segments)
  /\ UNCHANGED <<native, control, writer, store, after, attempts, merging,
                 budgets, owed>>

ClientBegin(c) ==
  /\ pos[c] = "begin" /\ writer = Free
  /\ IF EnsureOpen
       THEN Checkpoint /\ Capture(c, Checkpointed)
       ELSE JobOver(c) /\ UNCHANGED <<segments, next_id, dirty>>
  /\ UNCHANGED <<native, control, writer, sealed, closed, after, attempts,
                 merging, budgets, owed>>

\* The merge of the pinned inputs, outside the writer lock.
Build(t) ==
  /\ pos[t] = "build"
  /\ pos' = [pos EXCEPT ![t] = "finish"]
  /\ UNCHANGED <<native, control, writer, compaction, store, locals, budgets,
                 owed>>

\* publish_compaction_output: the output replaces the captured prefix.
InputsLead(t) == IsPrefix(captured[t], segments)
Rebased(t) ==
  <<[id |-> next_id, level |-> 1]>>
    \o SubSeq(segments, Len(captured[t]) + 1, Len(segments))

Discards(t) == IF t = Worker THEN cancelled ELSE ~EnsureOpen

\* A job whose inputs were replaced starts again until its budget is spent.
Finish(t) ==
  /\ pos[t] = "finish" /\ writer = Free
  /\ \/ /\ Discards(t)
        /\ JobOver(t)
        /\ UNCHANGED <<segments, next_id, attempts>>
     \/ /\ ~Discards(t) /\ InputsLead(t)
        /\ segments' = Rebased(t) /\ next_id' = next_id + 1
        /\ JobOver(t)
        /\ UNCHANGED attempts
     \/ /\ ~Discards(t) /\ ~InputsLead(t)
        /\ attempts' = [attempts EXCEPT ![t] = @ + 1]
        /\ IF attempts[t] + 1 < CompactionAttempts
             THEN /\ pos' = [pos EXCEPT ![t] = "begin"]
                  /\ UNCHANGED <<compaction, captured>>
             ELSE JobOver(t)
        /\ UNCHANGED <<segments, next_id>>
  /\ UNCHANGED <<native, control, writer, dirty, sealed, closed, after, merging,
                 budgets, owed>>

\* A merge or a build raises: a client's caller sees it, the worker records
\* it and the whole collection stops accepting operations.
Raised(t) ==
  /\ failures < MaxFailures
  /\ failures' = failures + 1
  /\ error' = (error \/ t = Worker)
  /\ UNCHANGED <<native, requested, cancelled, enabled, worker_closed, writer,
                 dirty, sealed, closed, after, attempts, calls, owed>>
AfterRaise(t) == IF t = Worker THEN "failing" ELSE "idle"

MergeRaises ==
  /\ pos[Worker] = "merging"
  /\ Raised(Worker)
  /\ pos' = [pos EXCEPT ![Worker] = "failing"]
  /\ merging' = 0
  /\ UNCHANGED <<compaction, captured, segments, next_id>>

BuildRaises(t) ==
  /\ pos[t] = "build"
  /\ Raised(t)
  /\ LeaveJob(t, AfterRaise(t))
  /\ UNCHANGED <<merging, segments, next_id>>

\* A publish that raises may already have replaced the manifest.
FinishRaises(t) ==
  /\ pos[t] = "finish" /\ writer = Free
  /\ ~Discards(t) /\ InputsLead(t)
  /\ Raised(t)
  /\ segments' \in {segments, Rebased(t)}
  /\ next_id' = next_id + 1
  /\ LeaveJob(t, AfterRaise(t))
  /\ UNCHANGED merging

(***************************************************************************)
(* Client calls.                                                           *)
(***************************************************************************)
Enabled == enabled /\ ~worker_closed

\* A drain goes on after the writer lock was let go, so a close beside it may free
\* the worker it sleeps in; without CloseMeetsWait the clients keep them apart.
Kept(call) ==
  CASE call = "close" -> {"wait", "enter", "drain", "drained"}
    [] call = "wait" -> {"close", "closing", "join", "unlock"}
    [] OTHER -> {}

BeginCall(c, call) ==
  /\ pos[c] = "idle" /\ calls[c] < MaxCalls
  /\ CloseMeetsWait \/ \A d \in Client : pos[d] \notin Kept(call)
  /\ calls' = [calls EXCEPT ![c] = @ + 1]
  /\ pos' = [pos EXCEPT ![c] = call]
  /\ UNCHANGED <<native, control, writer, compaction, store, locals, failures,
                 owed>>

\* MaintenanceController.request_compaction, called under the writer lock:
\* the flag first, then (the next step) the worker.
RequestCompaction(c, return) ==
  IF ~Enabled \/ error
    THEN /\ pos' = [pos EXCEPT ![c] = IF error THEN "idle" ELSE return]
         /\ UNCHANGED <<requested, writer, after, owed>>
    ELSE /\ requested' = TRUE
         /\ owed' = owed \cup {c}
         /\ writer' = c
         /\ after' = [after EXCEPT ![c] = return]
         /\ pos' = [pos EXCEPT ![c] = "request"]

Request(c) ==
  /\ pos[c] = "request"
  /\ AskWorker
  /\ writer' = Free
  /\ pos' = [pos EXCEPT ![c] = IF RequestRaises THEN "idle" ELSE after[c]]
  /\ UNCHANGED <<running, closing, failure, freed, control, compaction, store,
                 locals, budgets, owed>>

ScheduleMaintenance(c) ==
  /\ pos[c] = "schedule" /\ writer = Free
  /\ IF EnsureOpen
       THEN RequestCompaction(c, "idle")
       ELSE /\ pos' = [pos EXCEPT ![c] = "idle"]
            /\ UNCHANGED <<requested, writer, after, owed>>
  /\ UNCHANGED <<native, cancelled, error, enabled, worker_closed, compaction,
                 store, captured, attempts, merging, budgets>>

\* wait_for_maintenance checks under the writer lock and drains outside it.
WaitForMaintenance(c) ==
  /\ \/ pos[c] = "wait" /\ writer = Free
        /\ pos' = [pos EXCEPT ![c] = IF EnsureOpen THEN "enter" ELSE "idle"]
     \/ pos[c] = "enter"
        /\ pos' = [pos EXCEPT ![c] = IF Enabled THEN "drain" ELSE "idle"]
     \/ pos[c] = "drained"
        /\ pos' = [pos EXCEPT ![c] = "idle"]
  /\ UNCHANGED <<native, control, writer, compaction, store, locals, budgets,
                 owed>>

\* Mutant: a drain that forgets the queued job.
Drain_RunningOnly(c) ==
  /\ pos[c] = "drain" /\ c \notin asleep /\ ~freed
  /\ IF running
       THEN asleep' = asleep \cup {c} /\ UNCHANGED pos
       ELSE /\ pos' = [pos EXCEPT ![c] = IF failure THEN "idle" ELSE "drained"]
            /\ UNCHANGED asleep
  /\ UNCHANGED <<pending, running, closing, failure, freed, control, writer,
                 compaction, store, locals, budgets, owed>>

\* akasha_worker_drain; a failure raises, success is "drained".
Drain(c) ==
  /\ pos[c] = "drain" /\ c \notin asleep /\ ~freed
  /\ IF pending \/ running
       THEN asleep' = asleep \cup {c} /\ UNCHANGED pos
       ELSE /\ pos' = [pos EXCEPT ![c] = IF failure THEN "idle" ELSE "drained"]
            /\ UNCHANGED asleep
  /\ UNCHANGED <<pending, running, closing, failure, freed, control, writer,
                 compaction, store, locals, budgets, owed>>

\* flush: wait at the level-zero limit, else checkpoint and schedule; without
\* a worker the caller compacts.
FlushAdmitted == ~Enabled \/ ~ShouldCompact(segments, LevelZeroLimit)
Flush(c) ==
  /\ pos[c] = "flush" /\ writer = Free
  /\ \/ /\ ~EnsureOpen
        /\ pos' = [pos EXCEPT ![c] = "idle"]
        /\ UNCHANGED <<requested, writer, after, owed, segments, next_id, dirty>>
     \/ /\ EnsureOpen /\ ~FlushAdmitted
        /\ RequestCompaction(c, "flush")
        /\ UNCHANGED <<segments, next_id, dirty>>
     \/ /\ EnsureOpen /\ FlushAdmitted
        /\ Checkpoint
        /\ IF Publishes /\ ShouldCompact(Checkpointed, LevelZeroDue)
             THEN RequestCompaction(c, IF Enabled THEN "idle" ELSE "compact")
             ELSE /\ pos' = [pos EXCEPT ![c] = "idle"]
                  /\ UNCHANGED <<requested, writer, after, owed>>
  /\ UNCHANGED <<native, cancelled, error, enabled, worker_closed, compaction,
                 sealed, closed, captured, attempts, merging, budgets>>

\* upsert, delete, apply_batch: wait at the sealed-run limit, else write; the
\* write may seal runs, and a due merge goes to the worker or runs inline.
Write(c) ==
  /\ pos[c] = "write" /\ writer = Free
  /\ \/ /\ ~EnsureOpen
        /\ pos' = [pos EXCEPT ![c] = "idle"]
        /\ UNCHANGED <<pending, asleep, dirty, sealed>>
     \/ /\ EnsureOpen /\ sealed >= SealedRunLimit
        /\ IF Enabled THEN AskWorker ELSE UNCHANGED <<pending, asleep>>
        /\ UNCHANGED <<dirty, sealed, pos>>
     \/ /\ EnsureOpen /\ sealed < SealedRunLimit
        /\ dirty' = TRUE
        /\ \E runs \in sealed .. sealed + 1 :
             \/ /\ runs < MaxSealedRuns
                /\ sealed' = runs
                /\ UNCHANGED <<pending, asleep>>
             \/ /\ runs >= MaxSealedRuns /\ Enabled
                /\ sealed' = runs
                /\ AskWorker
             \/ /\ runs >= MaxSealedRuns /\ ~Enabled
                /\ sealed' = 0
                /\ UNCHANGED <<pending, asleep>>
        /\ pos' = [pos EXCEPT ![c] = "idle"]
  /\ UNCHANGED <<running, closing, failure, freed, control, writer, compaction,
                 segments, next_id, closed, locals, budgets, owed>>

\* maintenance(): take the compaction lock, checkpoint, and compact only at
\* the policy threshold.
Maintain(c) ==
  /\ \/ /\ pos[c] = "maintain" /\ compaction = Free
        /\ compaction' = c
        /\ attempts' = [attempts EXCEPT ![c] = 0]
        /\ pos' = [pos EXCEPT ![c] = "check"]
        /\ UNCHANGED <<segments, next_id, dirty, captured>>
     \/ /\ pos[c] = "check" /\ writer = Free
        /\ IF EnsureOpen
             THEN /\ Checkpoint
                  /\ IF ShouldCompact(Checkpointed, LevelZeroDue)
                       THEN /\ pos' = [pos EXCEPT ![c] = "begin"]
                            /\ UNCHANGED <<compaction, captured>>
                       ELSE JobOver(c)
             ELSE JobOver(c) /\ UNCHANGED <<segments, next_id, dirty>>
        /\ UNCHANGED attempts
  /\ UNCHANGED <<native, control, writer, sealed, closed, after, merging,
                 budgets, owed>>

\* Mutant: a close that does not wait for the writer lock.
Close_Unlocked(c) ==
  /\ pos[c] = "close"
  /\ IF closed
       THEN /\ pos' = [pos EXCEPT ![c] = "idle"]
            /\ UNCHANGED <<closed, cancelled, sealed>>
       ELSE /\ closed' = TRUE /\ cancelled' = TRUE /\ sealed' = 0
            /\ pos' = [pos EXCEPT ![c] = "closing"]
  /\ UNCHANGED <<native, requested, error, enabled, worker_closed, writer,
                 compaction, segments, next_id, dirty, locals, budgets, owed>>

\* close: cancel the jobs under the writer lock, join the worker without it,
\* then give up the collection lock.
Close(c) ==
  /\ pos[c] = "close" /\ writer = Free
  /\ IF closed
       THEN /\ pos' = [pos EXCEPT ![c] = "idle"]
            /\ UNCHANGED <<closed, cancelled, sealed>>
       ELSE /\ closed' = TRUE /\ cancelled' = TRUE /\ sealed' = 0
            /\ pos' = [pos EXCEPT ![c] = "closing"]
  /\ UNCHANGED <<native, requested, error, enabled, worker_closed, writer,
                 compaction, segments, next_id, dirty, locals, budgets, owed>>

CloseWorker(c) ==
  /\ pos[c] = "closing"
  /\ worker_closed' = TRUE
  /\ IF enabled
       THEN closing' = TRUE /\ Broadcast /\ pos' = [pos EXCEPT ![c] = "join"]
       ELSE pos' = [pos EXCEPT ![c] = "unlock"] /\ UNCHANGED <<closing, asleep>>
  /\ UNCHANGED <<pending, running, failure, freed, requested, cancelled, error,
                 enabled, writer, compaction, store, locals, budgets, owed>>

Join(c) ==
  /\ pos[c] = "join" /\ pos[Worker] = "exited"
  /\ freed' = TRUE
  /\ pos' = [pos EXCEPT ![c] = "unlock"]
  /\ UNCHANGED <<pending, running, closing, failure, asleep, control, writer,
                 compaction, store, locals, budgets, owed>>

Unlock(c) ==
  /\ pos[c] = "unlock" /\ writer = Free
  /\ pos' = [pos EXCEPT ![c] = "idle"]
  /\ UNCHANGED <<native, control, writer, compaction, store, locals, budgets,
                 owed>>

ClientStep(c) ==
  \/ ScheduleMaintenance(c) \/ Request(c) \/ WaitForMaintenance(c) \/ Drain(c)
  \/ Flush(c) \/ Write(c) \/ Maintain(c)
  \/ JobLock(c) \/ ClientBegin(c) \/ Build(c) \/ Finish(c)
  \/ Close(c) \/ CloseWorker(c) \/ Join(c) \/ Unlock(c)

WorkerStep ==
  \/ WorkerLoop \/ CallbackReturns
  \/ MergeCapture \/ MergePublish \/ TakeCompactionRequest
  \/ JobLock(Worker) \/ WorkerBegin \/ Build(Worker) \/ Finish(Worker)

\* Every call returned, the budgets are spent and the worker sleeps or left.
Quiescent ==
  /\ \A c \in Client : pos[c] = "idle" /\ calls[c] = MaxCalls
  /\ pos[Worker] = "exited" \/ Worker \in asleep
  /\ UNCHANGED vars

Next ==
  \/ \E c \in Client : ClientStep(c) \/ \E call \in AllOps : BeginCall(c, call)
  \/ WorkerStep
  \/ SpuriousWakeup
  \/ MergeRaises
  \/ \E t \in Thread : BuildRaises(t) \/ FinishRaises(t)
  \/ Quiescent

Spec == Init /\ [][Next]_vars

\* A thread between calls may stop calling; inside a call it keeps running.
\* The locks are spin locks and a held caller sleeps before it tries again,
\* so a thread that keeps finding a lock free gets it.
Fairness == SF_vars(WorkerStep) /\ \A c \in Client : SF_vars(ClientStep(c))
LiveSpec == Spec /\ Fairness

(***************************************************************************)
(* Properties.                                                             *)
(***************************************************************************)
\* A queued job or a close never finds the worker asleep, although a request
\* signals one waiter only of a condition the drainers share with the worker
\* (maintenance_worker.c, request and drain).
NoLostWakeup == Worker \in asleep => ~pending /\ ~closing

\* A wait that reports success has seen every compaction its caller asked for
\* before it taken by a callback that has returned: the flag is set before the
\* worker is asked, and drain covers both the queued and the running job.
DrainServesRequests == \A c \in Client : pos[c] = "drained" => c \notin owed

\* The inputs a compaction captured still lead the manifest when it publishes,
\* so no job is ever discarded for replaced inputs and no retry budget spent:
\* flushes only append, and the compaction lock keeps every other job out.
CapturedInputsLead ==
  \A t \in Thread : pos[t] \in {"build", "finish"} => InputsLead(t)

\* Nobody asks the native worker for a job after close freed it: a request is
\* made under the writer lock of a collection that is still open.
NoRequestAfterFree == freed => \A c \in Client : pos[c] # "request"

\* Every call returns: held writes and flushes are released by a merge, a
\* compaction, a failure or the close; drains and the join end.
EveryCallReturns == \A c \in Client : pos[c] # "idle" ~> pos[c] = "idle"

\* A requested compaction is taken by a callback, unless the worker failed or
\* the collection closed first.
RequestedIsTaken == requested ~> (~requested \/ error \/ closed)
=============================================================================
