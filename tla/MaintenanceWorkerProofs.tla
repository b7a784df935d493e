---------------------- MODULE MaintenanceWorkerProofs ----------------------
(***************************************************************************)
(* Proofs about the background maintenance of a collection: the worker's   *)
(* wakeups, the requests that drain waits for, the inputs of a compaction  *)
(* and the life of the native worker.                                      *)
(***************************************************************************)
EXTENDS MaintenanceWorker, SequenceTheorems, TLAPS

Segment == [id : Nat, level : {0, 1}]

\* Before the callback takes the compaction request, and the whole of a job.
BeforeTake == {"merge", "merging", "take"}
JobPos == BeforeTake \cup {"compact", "begin", "build", "finish", "record", "failing"}
WorkerPos == JobPos \cup {"ready", "exited"}
ClientPos ==
  AllOps \cup {"idle", "request", "enter", "drain", "drained", "check", "begin",
               "build", "finish", "closing", "join", "unlock"}

FlagsOK ==
  /\ pending \in BOOLEAN /\ running \in BOOLEAN /\ closing \in BOOLEAN
  /\ failure \in BOOLEAN /\ freed \in BOOLEAN /\ asleep \subseteq Thread
  /\ requested \in BOOLEAN /\ cancelled \in BOOLEAN /\ error \in BOOLEAN
  /\ enabled \in BOOLEAN /\ worker_closed \in BOOLEAN /\ closed \in BOOLEAN
  /\ owed \subseteq Client

PosOK ==
  /\ pos \in [Thread -> ClientPos \cup WorkerPos]
  /\ pos[Worker] \in WorkerPos
  /\ \A c \in Client : pos[c] \in ClientPos
  /\ after \in [Client -> {"idle", "flush", "compact"}]

LocksOK == writer \in Client \cup {Free} /\ compaction \in Thread \cup {Free}

StoreOK ==
  /\ segments \in Seq(Segment) /\ next_id \in Nat
  /\ captured \in [Thread -> Seq(Segment)]

CountsOK ==
  /\ dirty \in BOOLEAN /\ sealed \in Nat /\ merging \in Nat
  /\ attempts \in [Thread -> Nat]
  /\ calls \in [Client -> 0..MaxCalls] /\ failures \in 0..MaxFailures

\* Every variable has its type, each thread a position of its own program.
TypeOK == FlagsOK /\ PosOK /\ LocksOK /\ StoreOK /\ CountsOK

\* Who sleeps, and on what: the worker on an empty queue, a drainer on a job.
WakeInv ==
  /\ running <=> pos[Worker] \in JobPos
  /\ Worker \in asleep => pos[Worker] = "ready" /\ ~pending /\ ~closing
  /\ \A c \in Client \cap asleep : pending \/ running

\* Who asks the worker holds the writer lock of an open collection.
OpenInv ==
  /\ \A c \in Client : pos[c] = "request" => writer = c /\ ~closed
  /\ \A c \in Client : pos[c] \in {"closing", "join"} => closed
  /\ closing => closed
  /\ freed => closed

\* A worker that failed has recorded the error, and only its job may still have
\* to report one that is recorded.
ErrorInv ==
  /\ failure => error
  /\ pos[Worker] = "failing" => error
  /\ error => failure \/ pos[Worker] = "failing"

\* A request that was not taken is still to be made, is queued, or is before a
\* callback that will take it - or the worker failed.
OwedInv ==
  /\ \A c \in owed : \/ pos[c] = "request"
                     \/ pending \/ pos[Worker] \in BeforeTake
                     \/ error
  /\ \A c \in owed : pos[c] # "drained"

\* A thread inside a job owns the compaction lock.
LockInv ==
  \A t \in Thread : pos[t] \in {"check", "begin", "build", "finish"} => compaction = t

Inv ==
  /\ TypeOK /\ WakeInv /\ OpenInv /\ ErrorInv /\ OwedInv
  /\ LockInv /\ CapturedInputsLead

-----------------------------------------------------------------------------
(***************************************************************************)
(* Sequences of segments.                                                  *)
(***************************************************************************)
\* A checkpoint gives a sequence of segments that the old one leads.
LEMMA CheckpointedType ==
  ASSUME segments \in Seq(Segment), next_id \in Nat
  PROVE  Checkpointed \in Seq(Segment)
<1>1. [id |-> next_id, level |-> IF segments = <<>> THEN 1 ELSE 0] \in Segment
  BY DEF Segment
<1> QED BY <1>1 DEF Checkpointed

LEMMA AppendKeepsPrefix ==
  ASSUME NEW S, NEW s \in Seq(S), NEW u \in Seq(S), NEW x \in S, IsPrefix(s, u)
  PROVE  IsPrefix(s, Append(u, x))
<1> DEFINE v == Append(u, x)
<1>1. /\ v \in Seq(S) /\ Len(v) = Len(u) + 1
      /\ \A i \in 1..Len(u) : v[i] = u[i]
  OBVIOUS
<1>2. Len(s) \in Nat /\ Len(u) \in Nat /\ Len(s) <= Len(u)
  BY DEF IsPrefix
<1>3. SubSeq(v, 1, Len(s)) = SubSeq(u, 1, Len(s))
  <2>1. SubSeq(v, 1, Len(s)) = [i \in 1..Len(s) |-> v[i]]
    BY <1>1, <1>2
  <2>2. SubSeq(u, 1, Len(s)) = [i \in 1..Len(s) |-> u[i]]
    BY <1>2
  <2>3. \A i \in 1..Len(s) : v[i] = u[i]
    BY <1>1, <1>2
  <2> QED BY <2>1, <2>2, <2>3
<1>4. Len(s) <= Len(v)
  BY <1>1, <1>2
<1> QED BY <1>3, <1>4 DEF IsPrefix

LEMMA CheckpointKeepsPrefix ==
  ASSUME segments \in Seq(Segment), next_id \in Nat, NEW s \in Seq(Segment),
         IsPrefix(s, segments)
  PROVE  IsPrefix(s, Checkpointed)
<1>1. [id |-> next_id, level |-> IF segments = <<>> THEN 1 ELSE 0] \in Segment
  BY DEF Segment
<1>2. CASE Publishes
  BY <1>1, <1>2, AppendKeepsPrefix DEF Checkpointed
<1>3. CASE ~Publishes
  BY <1>3 DEF Checkpointed
<1> QED BY <1>2, <1>3

\* What a thread captured is replaced by a sequence of segments.
LEMMA CapturedType ==
  ASSUME NEW f \in [Thread -> Seq(Segment)], NEW t \in Thread, NEW s \in Seq(Segment)
  PROVE  [f EXCEPT ![t] = s] \in [Thread -> Seq(Segment)]
OBVIOUS

\* A whole sequence leads itself.
LEMMA PrefixOfItself ==
  ASSUME NEW S, NEW s \in Seq(S)
  PROVE  IsPrefix(s, s)
BY DEF IsPrefix

\* The output of a compaction, before the segments flushed since its capture.
LEMMA RebasedType ==
  ASSUME TypeOK, NEW t \in Thread, InputsLead(t)
  PROVE  Rebased(t) \in Seq(Segment)
<1>1. captured[t] \in Seq(Segment) /\ segments \in Seq(Segment) /\ next_id \in Nat
  BY DEF TypeOK, StoreOK
<1>2. Len(captured[t]) \in Nat /\ Len(segments) \in Nat
  BY <1>1
<1>3. SubSeq(segments, Len(captured[t]) + 1, Len(segments)) \in Seq(Segment)
  BY <1>1, <1>2
<1>4. <<[id |-> next_id, level |-> 1]>> \in Seq(Segment)
  <2>1. [id |-> next_id, level |-> 1] \in Segment
    BY <1>1 DEF Segment
  <2> QED BY <2>1
<1> QED BY <1>3, <1>4, ConcatProperties DEF Rebased

-----------------------------------------------------------------------------
(***************************************************************************)
(* Every step keeps every part of the invariant.                           *)
(***************************************************************************)
\* A request wakes the worker: while it sleeps it sleeps alone, so that the one
\* signal is its own.
LEMMA AskWakes ==
  ASSUME TypeOK, WakeInv, AskWorker
  PROVE  /\ pending' \in BOOLEAN /\ asleep' \subseteq asleep
         /\ pending => pending'
         /\ ~RequestRaises => pending'
         /\ Worker \in asleep' => ~pending'
<1> USE DEF TypeOK, FlagsOK, PosOK, WakeInv
<1>1. CASE RequestRaises \/ pending
  BY <1>1 DEF AskWorker
<1>2. CASE ~(RequestRaises \/ pending)
  <2>1. pending' = TRUE /\ Signal
    BY <1>2 DEF AskWorker
  <2>2. asleep' \subseteq asleep
    BY <2>1 DEF Signal
  <2>3. Worker \in asleep => asleep = {Worker}
    BY <1>2 DEF Thread, JobPos, BeforeTake
  <2>4. Worker \notin asleep'
    BY <2>1, <2>2, <2>3 DEF Signal
  <2> QED BY <1>2, <2>1, <2>2, <2>4
<1> QED BY <1>1, <1>2

\* Nobody is left asleep: the queue and the job are emptied with a broadcast, or fill
\* again at once.
LEMMA WakeStep ==
  ASSUME Inv, [Next]_vars
  PROVE  WakeInv'
<1> USE MaintenanceAssumption DEF Inv, TypeOK, Thread, FlagsOK, PosOK, WakeInv, JobPos,
        BeforeTake
<1> USE DEF vars, native, control, store, locals, budgets
<1>1. ASSUME NEW c \in Client, ScheduleMaintenance(c) PROVE WakeInv'
  BY <1>1 DEF ScheduleMaintenance, RequestCompaction
<1>2. ASSUME NEW c \in Client, Request(c) PROVE WakeInv'
  <2>1. WakeInv /\ TypeOK
    OBVIOUS
  <2>2. /\ pending' \in BOOLEAN /\ asleep' \subseteq asleep
        /\ pending => pending'
        /\ Worker \in asleep' => ~pending'
    BY <1>2, <2>1, AskWakes DEF Request
  <2>3. UNCHANGED <<running, closing>> /\ pos'[Worker] = pos[Worker]
    BY <1>2 DEF Request
  <2> QED BY <2>2, <2>3
<1>3. ASSUME NEW c \in Client, WaitForMaintenance(c) PROVE WakeInv'
  BY <1>3 DEF WaitForMaintenance
<1>4. ASSUME NEW c \in Client, Drain(c) PROVE WakeInv'
  BY <1>4 DEF Drain
<1>5. ASSUME NEW c \in Client, Flush(c) PROVE WakeInv'
  BY <1>5 DEF Flush, Checkpoint, RequestCompaction
<1>6. ASSUME NEW c \in Client, Write(c) PROVE WakeInv'
  <2>1. WakeInv /\ TypeOK
    OBVIOUS
  <2>2. AskWorker \/ UNCHANGED <<pending, asleep>>
    BY <1>6 DEF Write
  <2>3. /\ pending' \in BOOLEAN /\ asleep' \subseteq asleep
        /\ pending => pending'
        /\ Worker \in asleep' => ~pending'
    BY <2>1, <2>2, AskWakes
  <2>4. UNCHANGED <<running, closing>> /\ pos'[Worker] = pos[Worker]
    BY <1>6 DEF Write
  <2> QED BY <2>3, <2>4
<1>7. ASSUME NEW c \in Client, Maintain(c) PROVE WakeInv'
  BY <1>7 DEF Maintain, Checkpoint, JobOver, LeaveJob
<1>8. ASSUME NEW c \in Client, JobLock(c) PROVE WakeInv'
  BY <1>8 DEF JobLock
<1>9. ASSUME NEW c \in Client, ClientBegin(c) PROVE WakeInv'
  BY <1>9 DEF ClientBegin, Checkpoint, Capture, JobOver, LeaveJob
<1>10. ASSUME NEW c \in Client, Build(c) PROVE WakeInv'
  BY <1>10 DEF Build
<1>11. ASSUME NEW c \in Client, Finish(c) PROVE WakeInv'
  BY <1>11 DEF Finish, JobOver, LeaveJob
<1>12. ASSUME NEW c \in Client, Close(c) PROVE WakeInv'
  BY <1>12 DEF Close
<1>13. ASSUME NEW c \in Client, CloseWorker(c) PROVE WakeInv'
  BY <1>13 DEF CloseWorker, Broadcast
<1>14. ASSUME NEW c \in Client, Join(c) PROVE WakeInv'
  BY <1>14 DEF Join
<1>15. ASSUME NEW c \in Client, Unlock(c) PROVE WakeInv'
  BY <1>15 DEF Unlock
<1>16. ASSUME NEW c \in Client, NEW call \in AllOps, BeginCall(c, call) PROVE WakeInv'
  BY <1>16 DEF BeginCall
<1>17. CASE WorkerLoop
  <2>1. CASE pending
    BY <1>17, <2>1 DEF WorkerLoop
  <2>2. CASE ~pending /\ closing
    <3>1. /\ pos' = [pos EXCEPT ![Worker] = "exited"] /\ asleep' = {}
          /\ UNCHANGED <<running, closing>>
      BY <1>17, <2>2 DEF WorkerLoop, Broadcast
    <3>2. pos[Worker] = "ready" /\ pos'[Worker] = "exited"
      BY <1>17, <3>1 DEF WorkerLoop
    <3> QED BY <3>1, <3>2
  <2>3. CASE ~pending /\ ~closing
    BY <1>17, <2>3 DEF WorkerLoop
  <2> QED BY <2>1, <2>2, <2>3
<1>18. CASE CallbackReturns
  <2>1. running' = FALSE /\ pos'[Worker] = "ready" /\ asleep' = {}
    BY <1>18 DEF CallbackReturns, Broadcast
  <2> QED BY <2>1
<1>19. CASE MergeCapture
  BY <1>19 DEF MergeCapture
<1>20. CASE MergePublish
  BY <1>20 DEF MergePublish
<1>21. CASE TakeCompactionRequest
  BY <1>21 DEF TakeCompactionRequest
<1>22. CASE JobLock(Worker)
  BY <1>22 DEF JobLock
<1>23. CASE WorkerBegin
  BY <1>23 DEF WorkerBegin, Capture, JobOver, LeaveJob
<1>24. CASE Build(Worker)
  BY <1>24 DEF Build
<1>25. CASE Finish(Worker)
  BY <1>25 DEF Finish, JobOver, LeaveJob
<1>26. CASE SpuriousWakeup
  BY <1>26 DEF SpuriousWakeup
<1>27. CASE MergeRaises
  BY <1>27 DEF MergeRaises, Raised
<1>28. ASSUME NEW t \in Thread, BuildRaises(t) PROVE WakeInv'
  BY <1>28 DEF BuildRaises, Raised, LeaveJob, AfterRaise
<1>29. ASSUME NEW t \in Thread, FinishRaises(t) PROVE WakeInv'
  BY <1>29 DEF FinishRaises, Raised, LeaveJob, AfterRaise
<1>30. CASE UNCHANGED vars
  BY <1>30
<1> QED BY <1>1, <1>2, <1>3, <1>4, <1>5, <1>6, <1>7, <1>8, <1>9, <1>10, <1>11, <1>12,
    <1>13, <1>14, <1>15, <1>16, <1>17, <1>18, <1>19, <1>20, <1>21, <1>22, <1>23, <1>24,
    <1>25, <1>26, <1>27, <1>28, <1>29, <1>30 DEF Next, ClientStep, WorkerStep, Quiescent

\* Requests are made under the writer lock of an open collection.
LEMMA OpenStep ==
  ASSUME Inv, [Next]_vars
  PROVE  OpenInv'
<1> USE MaintenanceAssumption DEF Inv, TypeOK, Thread, FlagsOK, PosOK, OpenInv
<1> USE DEF vars, native, control, store, locals, budgets
<1>1. ASSUME NEW c \in Client, ScheduleMaintenance(c) PROVE OpenInv'
  BY <1>1 DEF ScheduleMaintenance, RequestCompaction, EnsureOpen
<1>2. ASSUME NEW c \in Client, Request(c) PROVE OpenInv'
  BY <1>2 DEF Request, AskWorker, Signal, RequestRaises
<1>3. ASSUME NEW c \in Client, WaitForMaintenance(c) PROVE OpenInv'
  BY <1>3 DEF WaitForMaintenance
<1>4. ASSUME NEW c \in Client, Drain(c) PROVE OpenInv'
  BY <1>4 DEF Drain
<1>5. ASSUME NEW c \in Client, Flush(c) PROVE OpenInv'
  BY <1>5 DEF Flush, Checkpoint, RequestCompaction, EnsureOpen
<1>6. ASSUME NEW c \in Client, Write(c) PROVE OpenInv'
  BY <1>6 DEF Write, AskWorker, Signal, RequestRaises
<1>7. ASSUME NEW c \in Client, Maintain(c) PROVE OpenInv'
  BY <1>7 DEF Maintain, Checkpoint, JobOver, LeaveJob
<1>8. ASSUME NEW c \in Client, JobLock(c) PROVE OpenInv'
  BY <1>8 DEF JobLock
<1>9. ASSUME NEW c \in Client, ClientBegin(c) PROVE OpenInv'
  BY <1>9 DEF ClientBegin, Checkpoint, Capture, JobOver, LeaveJob
<1>10. ASSUME NEW c \in Client, Build(c) PROVE OpenInv'
  BY <1>10 DEF Build
<1>11. ASSUME NEW c \in Client, Finish(c) PROVE OpenInv'
  BY <1>11 DEF Finish, JobOver, LeaveJob
<1>12. ASSUME NEW c \in Client, Close(c) PROVE OpenInv'
  BY <1>12 DEF Close
<1>13. ASSUME NEW c \in Client, CloseWorker(c) PROVE OpenInv'
  BY <1>13 DEF CloseWorker, Broadcast
<1>14. ASSUME NEW c \in Client, Join(c) PROVE OpenInv'
  BY <1>14 DEF Join
<1>15. ASSUME NEW c \in Client, Unlock(c) PROVE OpenInv'
  BY <1>15 DEF Unlock
<1>16. ASSUME NEW c \in Client, NEW call \in AllOps, BeginCall(c, call) PROVE OpenInv'
  BY <1>16 DEF BeginCall, AllOps
<1>17. CASE WorkerLoop
  BY <1>17 DEF WorkerLoop, Broadcast
<1>18. CASE CallbackReturns
  BY <1>18 DEF CallbackReturns, Broadcast
<1>19. CASE MergeCapture
  BY <1>19 DEF MergeCapture
<1>20. CASE MergePublish
  BY <1>20 DEF MergePublish
<1>21. CASE TakeCompactionRequest
  BY <1>21 DEF TakeCompactionRequest
<1>22. CASE JobLock(Worker)
  BY <1>22 DEF JobLock
<1>23. CASE WorkerBegin
  BY <1>23 DEF WorkerBegin, Capture, JobOver, LeaveJob
<1>24. CASE Build(Worker)
  BY <1>24 DEF Build
<1>25. CASE Finish(Worker)
  BY <1>25 DEF Finish, JobOver, LeaveJob
<1>26. CASE SpuriousWakeup
  BY <1>26 DEF SpuriousWakeup
<1>27. CASE MergeRaises
  BY <1>27 DEF MergeRaises, Raised
<1>28. ASSUME NEW t \in Thread, BuildRaises(t) PROVE OpenInv'
  BY <1>28 DEF BuildRaises, Raised, LeaveJob, AfterRaise
<1>29. ASSUME NEW t \in Thread, FinishRaises(t) PROVE OpenInv'
  BY <1>29 DEF FinishRaises, Raised, LeaveJob, AfterRaise
<1>30. CASE UNCHANGED vars
  BY <1>30
<1> QED BY <1>1, <1>2, <1>3, <1>4, <1>5, <1>6, <1>7, <1>8, <1>9, <1>10, <1>11, <1>12,
    <1>13, <1>14, <1>15, <1>16, <1>17, <1>18, <1>19, <1>20, <1>21, <1>22, <1>23, <1>24,
    <1>25, <1>26, <1>27, <1>28, <1>29, <1>30 DEF Next, ClientStep, WorkerStep, Quiescent

\* An error is recorded before its callback returns.
LEMMA ErrorStep ==
  ASSUME Inv, [Next]_vars
  PROVE  ErrorInv'
<1> USE MaintenanceAssumption DEF Inv, TypeOK, Thread, FlagsOK, PosOK, ErrorInv
<1> USE DEF vars, native, control, store, locals, budgets
<1>1. ASSUME NEW c \in Client, ScheduleMaintenance(c) PROVE ErrorInv'
  BY <1>1 DEF ScheduleMaintenance, RequestCompaction
<1>2. ASSUME NEW c \in Client, Request(c) PROVE ErrorInv'
  BY <1>2 DEF Request, AskWorker, Signal, RequestRaises
<1>3. ASSUME NEW c \in Client, WaitForMaintenance(c) PROVE ErrorInv'
  BY <1>3 DEF WaitForMaintenance
<1>4. ASSUME NEW c \in Client, Drain(c) PROVE ErrorInv'
  BY <1>4 DEF Drain
<1>5. ASSUME NEW c \in Client, Flush(c) PROVE ErrorInv'
  BY <1>5 DEF Flush, Checkpoint, RequestCompaction
<1>6. ASSUME NEW c \in Client, Write(c) PROVE ErrorInv'
  BY <1>6 DEF Write, AskWorker, Signal, RequestRaises
<1>7. ASSUME NEW c \in Client, Maintain(c) PROVE ErrorInv'
  BY <1>7 DEF Maintain, Checkpoint, JobOver, LeaveJob
<1>8. ASSUME NEW c \in Client, JobLock(c) PROVE ErrorInv'
  BY <1>8 DEF JobLock
<1>9. ASSUME NEW c \in Client, ClientBegin(c) PROVE ErrorInv'
  BY <1>9 DEF ClientBegin, Checkpoint, Capture, JobOver, LeaveJob
<1>10. ASSUME NEW c \in Client, Build(c) PROVE ErrorInv'
  BY <1>10 DEF Build
<1>11. ASSUME NEW c \in Client, Finish(c) PROVE ErrorInv'
  BY <1>11 DEF Finish, JobOver, LeaveJob
<1>12. ASSUME NEW c \in Client, Close(c) PROVE ErrorInv'
  BY <1>12 DEF Close
<1>13. ASSUME NEW c \in Client, CloseWorker(c) PROVE ErrorInv'
  BY <1>13 DEF CloseWorker, Broadcast
<1>14. ASSUME NEW c \in Client, Join(c) PROVE ErrorInv'
  BY <1>14 DEF Join
<1>15. ASSUME NEW c \in Client, Unlock(c) PROVE ErrorInv'
  BY <1>15 DEF Unlock
<1>16. ASSUME NEW c \in Client, NEW call \in AllOps, BeginCall(c, call) PROVE ErrorInv'
  BY <1>16 DEF BeginCall
<1>17. CASE WorkerLoop
  BY <1>17 DEF WorkerLoop, Broadcast
<1>18. CASE CallbackReturns
  BY <1>18 DEF CallbackReturns, Broadcast
<1>19. CASE MergeCapture
  BY <1>19 DEF MergeCapture
<1>20. CASE MergePublish
  BY <1>20 DEF MergePublish
<1>21. CASE TakeCompactionRequest
  BY <1>21 DEF TakeCompactionRequest
<1>22. CASE JobLock(Worker)
  BY <1>22 DEF JobLock
<1>23. CASE WorkerBegin
  BY <1>23 DEF WorkerBegin, Capture, JobOver, LeaveJob
<1>24. CASE Build(Worker)
  BY <1>24 DEF Build
<1>25. CASE Finish(Worker)
  BY <1>25 DEF Finish, JobOver, LeaveJob
<1>26. CASE SpuriousWakeup
  BY <1>26 DEF SpuriousWakeup
<1>27. CASE MergeRaises
  BY <1>27 DEF MergeRaises, Raised
<1>28. ASSUME NEW t \in Thread, BuildRaises(t) PROVE ErrorInv'
  BY <1>28 DEF BuildRaises, Raised, LeaveJob, AfterRaise
<1>29. ASSUME NEW t \in Thread, FinishRaises(t) PROVE ErrorInv'
  BY <1>29 DEF FinishRaises, Raised, LeaveJob, AfterRaise
<1>30. CASE UNCHANGED vars
  BY <1>30
<1> QED BY <1>1, <1>2, <1>3, <1>4, <1>5, <1>6, <1>7, <1>8, <1>9, <1>10, <1>11, <1>12,
    <1>13, <1>14, <1>15, <1>16, <1>17, <1>18, <1>19, <1>20, <1>21, <1>22, <1>23, <1>24,
    <1>25, <1>26, <1>27, <1>28, <1>29, <1>30 DEF Next, ClientStep, WorkerStep, Quiescent

\* A request stays on its way to a callback, which takes all of them.
LEMMA OwedStep ==
  ASSUME Inv, [Next]_vars
  PROVE  OwedInv'
<1> USE MaintenanceAssumption DEF Inv, TypeOK, Thread, FlagsOK, PosOK, OwedInv,
        BeforeTake
<1> USE DEF vars, native, control, store, locals, budgets
<1>1. ASSUME NEW c \in Client, ScheduleMaintenance(c) PROVE OwedInv'
  <2>1. /\ UNCHANGED <<pending, error>> /\ pos'[Worker] = pos[Worker]
        /\ \A d \in Client : d # c => pos'[d] = pos[d]
        /\ pos[c] # "request" /\ pos'[c] # "drained"
    BY <1>1 DEF ScheduleMaintenance, RequestCompaction
  <2>2. owed' = owed \/ (owed' = owed \cup {c} /\ pos'[c] = "request")
    BY <1>1 DEF ScheduleMaintenance, RequestCompaction
  <2> QED BY <2>1, <2>2
<1>2. ASSUME NEW c \in Client, Request(c) PROVE OwedInv'
  <2>1. WakeInv /\ TypeOK
    OBVIOUS
  <2>2. pending' \in BOOLEAN /\ (pending => pending') /\ (~RequestRaises => pending')
    BY <1>2, <2>1, AskWakes DEF Request
  <2>3. RequestRaises => error
    BY <1>2 DEF Request, RequestRaises, OpenInv, ErrorInv
  <2>4. /\ UNCHANGED <<owed, error>> /\ pos'[Worker] = pos[Worker]
        /\ \A d \in Client : d # c => pos'[d] = pos[d]
        /\ pos'[c] # "drained"
    BY <1>2 DEF Request
  <2> QED BY <2>2, <2>3, <2>4
<1>3. ASSUME NEW c \in Client, WaitForMaintenance(c) PROVE OwedInv'
  BY <1>3 DEF WaitForMaintenance
<1>4. ASSUME NEW c \in Client, Drain(c) PROVE OwedInv'
  BY <1>4 DEF Drain, ErrorInv, WakeInv, JobPos
<1>5. ASSUME NEW c \in Client, Flush(c) PROVE OwedInv'
  <2>1. /\ UNCHANGED <<pending, error>> /\ pos'[Worker] = pos[Worker]
        /\ \A d \in Client : d # c => pos'[d] = pos[d]
        /\ pos[c] # "request" /\ pos'[c] # "drained"
    BY <1>5 DEF Flush, RequestCompaction
  <2>2. owed' = owed \/ (owed' = owed \cup {c} /\ pos'[c] = "request")
    BY <1>5 DEF Flush, RequestCompaction
  <2> QED BY <2>1, <2>2
<1>6. ASSUME NEW c \in Client, Write(c) PROVE OwedInv'
  <2>1. WakeInv /\ TypeOK
    OBVIOUS
  <2>2. AskWorker \/ UNCHANGED <<pending, asleep>>
    BY <1>6 DEF Write
  <2>3. pending' \in BOOLEAN /\ (pending => pending')
    BY <2>1, <2>2, AskWakes
  <2>4. /\ UNCHANGED <<owed, error>> /\ pos'[Worker] = pos[Worker]
        /\ \A d \in Client : pos[d] = "request" => pos'[d] = "request"
        /\ \A d \in Client : pos'[d] = "drained" => pos[d] = "drained"
    BY <1>6 DEF Write
  <2> QED BY <2>3, <2>4
<1>7. ASSUME NEW c \in Client, Maintain(c) PROVE OwedInv'
  <2>1. /\ UNCHANGED <<pending, owed, error>> /\ pos'[Worker] = pos[Worker]
        /\ \A d \in Client : d # c => pos'[d] = pos[d]
        /\ pos[c] # "request" /\ pos'[c] # "drained"
    BY <1>7 DEF Maintain, JobOver, LeaveJob
  <2> QED BY <2>1
<1>8. ASSUME NEW c \in Client, JobLock(c) PROVE OwedInv'
  BY <1>8 DEF JobLock
<1>9. ASSUME NEW c \in Client, ClientBegin(c) PROVE OwedInv'
  BY <1>9 DEF ClientBegin, Checkpoint, Capture, JobOver, LeaveJob
<1>10. ASSUME NEW c \in Client, Build(c) PROVE OwedInv'
  BY <1>10 DEF Build
<1>11. ASSUME NEW c \in Client, Finish(c) PROVE OwedInv'
  <2>1. /\ UNCHANGED <<pending, owed, error>> /\ pos'[Worker] = pos[Worker]
        /\ \A d \in Client : d # c => pos'[d] = pos[d]
        /\ pos[c] # "request" /\ pos'[c] # "drained"
    BY <1>11 DEF Finish, JobOver, LeaveJob
  <2> QED BY <2>1
<1>12. ASSUME NEW c \in Client, Close(c) PROVE OwedInv'
  BY <1>12 DEF Close
<1>13. ASSUME NEW c \in Client, CloseWorker(c) PROVE OwedInv'
  BY <1>13 DEF CloseWorker, Broadcast
<1>14. ASSUME NEW c \in Client, Join(c) PROVE OwedInv'
  BY <1>14 DEF Join
<1>15. ASSUME NEW c \in Client, Unlock(c) PROVE OwedInv'
  BY <1>15 DEF Unlock
<1>16. ASSUME NEW c \in Client, NEW call \in AllOps, BeginCall(c, call) PROVE OwedInv'
  BY <1>16 DEF BeginCall, AllOps
<1>17. CASE WorkerLoop
  BY <1>17 DEF WorkerLoop, Broadcast
<1>18. CASE CallbackReturns
  <2>1. CASE pos[Worker] = "record"
    <3>1. /\ pending' = pending /\ UNCHANGED <<owed, error>>
          /\ pos' = [pos EXCEPT ![Worker] = "ready"]
      BY <1>18, <2>1 DEF CallbackReturns
    <3> QED BY <2>1, <3>1
  <2>2. CASE pos[Worker] = "failing"
    <3>1. /\ error /\ UNCHANGED <<owed, error>>
          /\ pos' = [pos EXCEPT ![Worker] = "ready"]
      BY <1>18, <2>2 DEF CallbackReturns, ErrorInv
    <3> QED BY <3>1
  <2> QED BY <1>18, <2>1, <2>2 DEF CallbackReturns
<1>19. CASE MergeCapture
  BY <1>19 DEF MergeCapture
<1>20. CASE MergePublish
  BY <1>20 DEF MergePublish
<1>21. CASE TakeCompactionRequest
  BY <1>21 DEF TakeCompactionRequest
<1>22. CASE JobLock(Worker)
  BY <1>22 DEF JobLock
<1>23. CASE WorkerBegin
  BY <1>23 DEF WorkerBegin, Capture, JobOver, LeaveJob
<1>24. CASE Build(Worker)
  BY <1>24 DEF Build
<1>25. CASE Finish(Worker)
  BY <1>25 DEF Finish, JobOver, LeaveJob
<1>26. CASE SpuriousWakeup
  BY <1>26 DEF SpuriousWakeup
<1>27. CASE MergeRaises
  BY <1>27 DEF MergeRaises, Raised
<1>28. ASSUME NEW t \in Thread, BuildRaises(t) PROVE OwedInv'
  BY <1>28 DEF BuildRaises, Raised, LeaveJob, AfterRaise
<1>29. ASSUME NEW t \in Thread, FinishRaises(t) PROVE OwedInv'
  BY <1>29 DEF FinishRaises, Raised, LeaveJob, AfterRaise
<1>30. CASE UNCHANGED vars
  BY <1>30
<1> QED BY <1>1, <1>2, <1>3, <1>4, <1>5, <1>6, <1>7, <1>8, <1>9, <1>10, <1>11, <1>12,
    <1>13, <1>14, <1>15, <1>16, <1>17, <1>18, <1>19, <1>20, <1>21, <1>22, <1>23, <1>24,
    <1>25, <1>26, <1>27, <1>28, <1>29, <1>30 DEF Next, ClientStep, WorkerStep, Quiescent

\* Jobs exclude one another.
LEMMA LockStep ==
  ASSUME Inv, [Next]_vars
  PROVE  LockInv'
<1> USE MaintenanceAssumption DEF Inv, TypeOK, Thread, PosOK, LocksOK, LockInv
<1> USE DEF vars, native, control, store, locals, budgets
<1>1. ASSUME NEW c \in Client, ScheduleMaintenance(c) PROVE LockInv'
  BY <1>1 DEF ScheduleMaintenance, RequestCompaction
<1>2. ASSUME NEW c \in Client, Request(c) PROVE LockInv'
  BY <1>2 DEF Request, AskWorker, Signal, RequestRaises
<1>3. ASSUME NEW c \in Client, WaitForMaintenance(c) PROVE LockInv'
  BY <1>3 DEF WaitForMaintenance
<1>4. ASSUME NEW c \in Client, Drain(c) PROVE LockInv'
  BY <1>4 DEF Drain
<1>5. ASSUME NEW c \in Client, Flush(c) PROVE LockInv'
  BY <1>5 DEF Flush, Checkpoint, RequestCompaction
<1>6. ASSUME NEW c \in Client, Write(c) PROVE LockInv'
  BY <1>6 DEF Write, AskWorker, Signal, RequestRaises
<1>7. ASSUME NEW c \in Client, Maintain(c) PROVE LockInv'
  BY <1>7 DEF Maintain, Checkpoint, JobOver, LeaveJob
<1>8. ASSUME NEW c \in Client, JobLock(c) PROVE LockInv'
  BY <1>8 DEF JobLock
<1>9. ASSUME NEW c \in Client, ClientBegin(c) PROVE LockInv'
  BY <1>9 DEF ClientBegin, Checkpoint, Capture, JobOver, LeaveJob
<1>10. ASSUME NEW c \in Client, Build(c) PROVE LockInv'
  BY <1>10 DEF Build
<1>11. ASSUME NEW c \in Client, Finish(c) PROVE LockInv'
  BY <1>11 DEF Finish, JobOver, LeaveJob
<1>12. ASSUME NEW c \in Client, Close(c) PROVE LockInv'
  BY <1>12 DEF Close
<1>13. ASSUME NEW c \in Client, CloseWorker(c) PROVE LockInv'
  BY <1>13 DEF CloseWorker, Broadcast
<1>14. ASSUME NEW c \in Client, Join(c) PROVE LockInv'
  BY <1>14 DEF Join
<1>15. ASSUME NEW c \in Client, Unlock(c) PROVE LockInv'
  BY <1>15 DEF Unlock
<1>16. ASSUME NEW c \in Client, NEW call \in AllOps, BeginCall(c, call) PROVE LockInv'
  BY <1>16 DEF BeginCall, AllOps
<1>17. CASE WorkerLoop
  BY <1>17 DEF WorkerLoop, Broadcast
<1>18. CASE CallbackReturns
  BY <1>18 DEF CallbackReturns, Broadcast
<1>19. CASE MergeCapture
  BY <1>19 DEF MergeCapture
<1>20. CASE MergePublish
  BY <1>20 DEF MergePublish
<1>21. CASE TakeCompactionRequest
  BY <1>21 DEF TakeCompactionRequest
<1>22. CASE JobLock(Worker)
  BY <1>22 DEF JobLock
<1>23. CASE WorkerBegin
  BY <1>23 DEF WorkerBegin, Capture, JobOver, LeaveJob
<1>24. CASE Build(Worker)
  BY <1>24 DEF Build
<1>25. CASE Finish(Worker)
  BY <1>25 DEF Finish, JobOver, LeaveJob
<1>26. CASE SpuriousWakeup
  BY <1>26 DEF SpuriousWakeup
<1>27. CASE MergeRaises
  BY <1>27 DEF MergeRaises, Raised
<1>28. ASSUME NEW t \in Thread, BuildRaises(t) PROVE LockInv'
  BY <1>28 DEF BuildRaises, Raised, LeaveJob, AfterRaise
<1>29. ASSUME NEW t \in Thread, FinishRaises(t) PROVE LockInv'
  BY <1>29 DEF FinishRaises, Raised, LeaveJob, AfterRaise
<1>30. CASE UNCHANGED vars
  BY <1>30
<1> QED BY <1>1, <1>2, <1>3, <1>4, <1>5, <1>6, <1>7, <1>8, <1>9, <1>10, <1>11, <1>12,
    <1>13, <1>14, <1>15, <1>16, <1>17, <1>18, <1>19, <1>20, <1>21, <1>22, <1>23, <1>24,
    <1>25, <1>26, <1>27, <1>28, <1>29, <1>30 DEF Next, ClientStep, WorkerStep, Quiescent

\* The manifest grows at its end, or is replaced by the job that holds the lock.
LEMMA LeadStep ==
  ASSUME Inv, [Next]_vars
  PROVE  CapturedInputsLead'
<1> USE MaintenanceAssumption DEF Inv, TypeOK, Thread, PosOK, StoreOK,
        CapturedInputsLead, InputsLead
<1> USE DEF vars, native, control, store, locals, budgets
<1>1. ASSUME NEW c \in Client, ScheduleMaintenance(c) PROVE CapturedInputsLead'
  BY <1>1 DEF ScheduleMaintenance, RequestCompaction
<1>2. ASSUME NEW c \in Client, Request(c) PROVE CapturedInputsLead'
  BY <1>2 DEF Request, AskWorker, Signal, RequestRaises
<1>3. ASSUME NEW c \in Client, WaitForMaintenance(c) PROVE CapturedInputsLead'
  BY <1>3 DEF WaitForMaintenance
<1>4. ASSUME NEW c \in Client, Drain(c) PROVE CapturedInputsLead'
  BY <1>4 DEF Drain
<1>5. ASSUME NEW c \in Client, Flush(c) PROVE CapturedInputsLead'
  <2>1. segments' \in {segments, Checkpointed} /\ UNCHANGED captured
    BY <1>5 DEF Flush, Checkpoint
  <2>2. \A u \in Thread : pos'[u] \in {"build", "finish"} => pos'[u] = pos[u]
    BY <1>5 DEF Flush, RequestCompaction
  <2> QED BY <2>1, <2>2, CheckpointKeepsPrefix
<1>6. ASSUME NEW c \in Client, Write(c) PROVE CapturedInputsLead'
  BY <1>6 DEF Write, AskWorker, Signal, RequestRaises
<1>7. ASSUME NEW c \in Client, Maintain(c) PROVE CapturedInputsLead'
  <2>1. segments' \in {segments, Checkpointed}
    BY <1>7 DEF Maintain, Checkpoint
  <2>2. \A u \in Thread : pos'[u] \in {"build", "finish"} =>
           u # c /\ pos'[u] = pos[u] /\ captured'[u] = captured[u]
    BY <1>7 DEF Maintain, JobOver, LeaveJob
  <2> QED BY <2>1, <2>2, CheckpointKeepsPrefix
<1>8. ASSUME NEW c \in Client, JobLock(c) PROVE CapturedInputsLead'
  BY <1>8 DEF JobLock
<1>9. ASSUME NEW c \in Client, ClientBegin(c) PROVE CapturedInputsLead'
  <2>1. segments' \in {segments, Checkpointed}
    BY <1>9 DEF ClientBegin, Checkpoint
  <2>2. \A u \in Thread : u # c => pos'[u] = pos[u] /\ captured'[u] = captured[u]
    BY <1>9 DEF ClientBegin, Capture, JobOver, LeaveJob
  <2>3. pos'[c] \in {"build", "finish"} => captured'[c] = segments'
    BY <1>9 DEF ClientBegin, Checkpoint, Capture, JobOver, LeaveJob
  <2>4. IsPrefix(Checkpointed, Checkpointed) /\ IsPrefix(segments, segments)
    BY CheckpointedType, PrefixOfItself
  <2> QED BY <2>1, <2>2, <2>3, <2>4, CheckpointKeepsPrefix
<1>10. ASSUME NEW c \in Client, Build(c) PROVE CapturedInputsLead'
  BY <1>10 DEF Build
<1>11. ASSUME NEW c \in Client, Finish(c) PROVE CapturedInputsLead'
  <2>1. \A u \in Thread : u # c => pos'[u] = pos[u]
    BY <1>11 DEF Finish, JobOver, LeaveJob
  <2>2. pos[c] = "finish" /\ pos'[c] \notin {"build", "finish"}
    BY <1>11 DEF Finish, JobOver, LeaveJob
  <2>3. \A u \in Thread : pos'[u] \notin {"build", "finish"}
    BY <2>1, <2>2 DEF LockInv
  <2> QED BY <2>3
<1>12. ASSUME NEW c \in Client, Close(c) PROVE CapturedInputsLead'
  BY <1>12 DEF Close
<1>13. ASSUME NEW c \in Client, CloseWorker(c) PROVE CapturedInputsLead'
  BY <1>13 DEF CloseWorker, Broadcast
<1>14. ASSUME NEW c \in Client, Join(c) PROVE CapturedInputsLead'
  BY <1>14 DEF Join
<1>15. ASSUME NEW c \in Client, Unlock(c) PROVE CapturedInputsLead'
  BY <1>15 DEF Unlock
<1>16. ASSUME NEW c \in Client, NEW call \in AllOps, BeginCall(c, call)
       PROVE  CapturedInputsLead'
  BY <1>16 DEF BeginCall, AllOps
<1>17. CASE WorkerLoop
  BY <1>17 DEF WorkerLoop, Broadcast
<1>18. CASE CallbackReturns
  BY <1>18 DEF CallbackReturns, Broadcast
<1>19. CASE MergeCapture
  BY <1>19 DEF MergeCapture
<1>20. CASE MergePublish
  BY <1>20 DEF MergePublish
<1>21. CASE TakeCompactionRequest
  BY <1>21 DEF TakeCompactionRequest
<1>22. CASE JobLock(Worker)
  BY <1>22 DEF JobLock
<1>23. CASE WorkerBegin
  <2>1. \A u \in Thread : u # Worker => pos'[u] = pos[u] /\ captured'[u] = captured[u]
    BY <1>23 DEF WorkerBegin, Capture, JobOver, LeaveJob
  <2>2. pos'[Worker] \in {"build", "finish"} => captured'[Worker] = segments
    BY <1>23 DEF WorkerBegin, Capture, JobOver, LeaveJob
  <2>3. segments' = segments
    BY <1>23 DEF WorkerBegin
  <2> QED BY <2>1, <2>2, <2>3, PrefixOfItself
<1>24. CASE Build(Worker)
  BY <1>24 DEF Build
<1>25. CASE Finish(Worker)
  <2>1. \A u \in Thread : u # Worker => pos'[u] = pos[u]
    BY <1>25 DEF Finish, JobOver, LeaveJob
  <2>2. pos[Worker] = "finish" /\ pos'[Worker] \notin {"build", "finish"}
    BY <1>25 DEF Finish, JobOver, LeaveJob
  <2>3. \A u \in Thread : pos'[u] \notin {"build", "finish"}
    BY <2>1, <2>2 DEF LockInv
  <2> QED BY <2>3
<1>26. CASE SpuriousWakeup
  BY <1>26 DEF SpuriousWakeup
<1>27. CASE MergeRaises
  BY <1>27 DEF MergeRaises, Raised
<1>28. ASSUME NEW t \in Thread, BuildRaises(t) PROVE CapturedInputsLead'
  BY <1>28 DEF BuildRaises, Raised, LeaveJob, AfterRaise
<1>29. ASSUME NEW t \in Thread, FinishRaises(t) PROVE CapturedInputsLead'
  <2>1. \A u \in Thread : u # t => pos'[u] = pos[u]
    BY <1>29 DEF FinishRaises, AfterRaise, JobOver, LeaveJob
  <2>2. pos[t] = "finish" /\ pos'[t] \notin {"build", "finish"}
    BY <1>29 DEF FinishRaises, AfterRaise, JobOver, LeaveJob
  <2>3. \A u \in Thread : pos'[u] \notin {"build", "finish"}
    BY <2>1, <2>2 DEF LockInv
  <2> QED BY <2>3
<1>30. CASE UNCHANGED vars
  BY <1>30
<1> QED BY <1>1, <1>2, <1>3, <1>4, <1>5, <1>6, <1>7, <1>8, <1>9, <1>10, <1>11, <1>12,
    <1>13, <1>14, <1>15, <1>16, <1>17, <1>18, <1>19, <1>20, <1>21, <1>22, <1>23, <1>24,
    <1>25, <1>26, <1>27, <1>28, <1>29, <1>30 DEF Next, ClientStep, WorkerStep, Quiescent

\* The flags of the worker and of its controller stay Booleans.
LEMMA FlagsStep ==
  ASSUME Inv, [Next]_vars
  PROVE  FlagsOK'
<1> USE MaintenanceAssumption DEF Inv, TypeOK, Thread, FlagsOK
<1> USE DEF vars, native, control, store, locals, budgets
<1>1. ASSUME NEW c \in Client, ScheduleMaintenance(c) PROVE FlagsOK'
  BY ZenonT(60), <1>1 DEF ScheduleMaintenance, RequestCompaction
<1>2. ASSUME NEW c \in Client, Request(c) PROVE FlagsOK'
  <2>1. pending' \in BOOLEAN /\ asleep' \subseteq asleep
    BY <1>2, AskWakes DEF Request
  <2> QED BY <1>2, <2>1 DEF Request
<1>3. ASSUME NEW c \in Client, WaitForMaintenance(c) PROVE FlagsOK'
  BY <1>3 DEF WaitForMaintenance
<1>4. ASSUME NEW c \in Client, Drain(c) PROVE FlagsOK'
  BY <1>4 DEF Drain
<1>5. ASSUME NEW c \in Client, Flush(c) PROVE FlagsOK'
  <2>1. requested' \in {requested, TRUE} /\ owed' \in {owed, owed \cup {c}}
    BY <1>5 DEF Flush, RequestCompaction
  <2> QED BY ZenonT(60), <1>5, <2>1 DEF Flush
<1>6. ASSUME NEW c \in Client, Write(c) PROVE FlagsOK'
  <2>1. AskWorker \/ UNCHANGED <<pending, asleep>>
    BY <1>6 DEF Write
  <2>2. pending' \in BOOLEAN /\ asleep' \subseteq asleep
    BY <2>1, AskWakes
  <2> QED BY <1>6, <2>2 DEF Write
<1>7. ASSUME NEW c \in Client, Maintain(c) PROVE FlagsOK'
  BY <1>7 DEF Maintain, Checkpoint, JobOver, LeaveJob
<1>8. ASSUME NEW c \in Client, JobLock(c) PROVE FlagsOK'
  BY <1>8 DEF JobLock
<1>9. ASSUME NEW c \in Client, ClientBegin(c) PROVE FlagsOK'
  BY <1>9 DEF ClientBegin, Checkpoint, Capture, JobOver, LeaveJob
<1>10. ASSUME NEW c \in Client, Build(c) PROVE FlagsOK'
  BY <1>10 DEF Build
<1>11. ASSUME NEW c \in Client, Finish(c) PROVE FlagsOK'
  BY <1>11 DEF Finish, JobOver, LeaveJob
<1>12. ASSUME NEW c \in Client, Close(c) PROVE FlagsOK'
  BY <1>12 DEF Close
<1>13. ASSUME NEW c \in Client, CloseWorker(c) PROVE FlagsOK'
  BY <1>13 DEF CloseWorker, Broadcast
<1>14. ASSUME NEW c \in Client, Join(c) PROVE FlagsOK'
  BY <1>14 DEF Join
<1>15. ASSUME NEW c \in Client, Unlock(c) PROVE FlagsOK'
  BY <1>15 DEF Unlock
<1>16. ASSUME NEW c \in Client, NEW call \in AllOps, BeginCall(c, call) PROVE FlagsOK'
  BY <1>16 DEF BeginCall
<1>17. CASE WorkerLoop
  BY <1>17 DEF WorkerLoop, Broadcast
<1>18. CASE CallbackReturns
  <2>1. pending' \in BOOLEAN /\ failure' \in BOOLEAN
    BY <1>18 DEF CallbackReturns
  <2> QED BY <1>18, <2>1 DEF CallbackReturns, Broadcast
<1>19. CASE MergeCapture
  BY <1>19 DEF MergeCapture
<1>20. CASE MergePublish
  BY <1>20 DEF MergePublish
<1>21. CASE TakeCompactionRequest
  BY <1>21 DEF TakeCompactionRequest
<1>22. CASE JobLock(Worker)
  BY <1>22 DEF JobLock
<1>23. CASE WorkerBegin
  BY <1>23 DEF WorkerBegin, Capture, JobOver, LeaveJob
<1>24. CASE Build(Worker)
  BY <1>24 DEF Build
<1>25. CASE Finish(Worker)
  BY <1>25 DEF Finish, JobOver, LeaveJob
<1>26. CASE SpuriousWakeup
  BY <1>26 DEF SpuriousWakeup
<1>27. CASE MergeRaises
  BY <1>27 DEF MergeRaises, Raised
<1>28. ASSUME NEW t \in Thread, BuildRaises(t) PROVE FlagsOK'
  BY <1>28 DEF BuildRaises, Raised, LeaveJob, AfterRaise
<1>29. ASSUME NEW t \in Thread, FinishRaises(t) PROVE FlagsOK'
  BY <1>29 DEF FinishRaises, Raised, LeaveJob, AfterRaise
<1>30. CASE UNCHANGED vars
  BY <1>30
<1> QED BY <1>1, <1>2, <1>3, <1>4, <1>5, <1>6, <1>7, <1>8, <1>9, <1>10, <1>11, <1>12,
    <1>13, <1>14, <1>15, <1>16, <1>17, <1>18, <1>19, <1>20, <1>21, <1>22, <1>23, <1>24,
    <1>25, <1>26, <1>27, <1>28, <1>29, <1>30 DEF Next, ClientStep, WorkerStep, Quiescent

\* Each thread stays inside its program.
LEMMA PosStep ==
  ASSUME Inv, [Next]_vars
  PROVE  PosOK'
<1> USE MaintenanceAssumption DEF Inv, TypeOK, Thread, PosOK, ClientPos, WorkerPos,
        JobPos, BeforeTake, AllOps
<1> USE DEF vars, native, control, store, locals, budgets
<1>1. ASSUME NEW c \in Client, ScheduleMaintenance(c) PROVE PosOK'
  BY <1>1 DEF ScheduleMaintenance, RequestCompaction
<1>2. ASSUME NEW c \in Client, Request(c) PROVE PosOK'
  BY <1>2 DEF Request, AskWorker, Signal, RequestRaises
<1>3. ASSUME NEW c \in Client, WaitForMaintenance(c) PROVE PosOK'
  BY <1>3 DEF WaitForMaintenance
<1>4. ASSUME NEW c \in Client, Drain(c) PROVE PosOK'
  BY <1>4 DEF Drain
<1>5. ASSUME NEW c \in Client, Flush(c) PROVE PosOK'
  BY <1>5 DEF Flush, Checkpoint, RequestCompaction
<1>6. ASSUME NEW c \in Client, Write(c) PROVE PosOK'
  BY <1>6 DEF Write, AskWorker, Signal, RequestRaises
<1>7. ASSUME NEW c \in Client, Maintain(c) PROVE PosOK'
  BY <1>7 DEF Maintain, Checkpoint, JobOver, LeaveJob
<1>8. ASSUME NEW c \in Client, JobLock(c) PROVE PosOK'
  BY <1>8 DEF JobLock
<1>9. ASSUME NEW c \in Client, ClientBegin(c) PROVE PosOK'
  BY <1>9 DEF ClientBegin, Checkpoint, Capture, JobOver, LeaveJob
<1>10. ASSUME NEW c \in Client, Build(c) PROVE PosOK'
  BY <1>10 DEF Build
<1>11. ASSUME NEW c \in Client, Finish(c) PROVE PosOK'
  BY <1>11 DEF Finish, JobOver, LeaveJob
<1>12. ASSUME NEW c \in Client, Close(c) PROVE PosOK'
  BY <1>12 DEF Close
<1>13. ASSUME NEW c \in Client, CloseWorker(c) PROVE PosOK'
  BY <1>13 DEF CloseWorker, Broadcast
<1>14. ASSUME NEW c \in Client, Join(c) PROVE PosOK'
  BY <1>14 DEF Join
<1>15. ASSUME NEW c \in Client, Unlock(c) PROVE PosOK'
  BY <1>15 DEF Unlock
<1>16. ASSUME NEW c \in Client, NEW call \in AllOps, BeginCall(c, call) PROVE PosOK'
  BY <1>16 DEF BeginCall
<1>17. CASE WorkerLoop
  BY <1>17 DEF WorkerLoop, Broadcast
<1>18. CASE CallbackReturns
  BY <1>18 DEF CallbackReturns, Broadcast
<1>19. CASE MergeCapture
  BY <1>19 DEF MergeCapture
<1>20. CASE MergePublish
  BY <1>20 DEF MergePublish
<1>21. CASE TakeCompactionRequest
  BY <1>21 DEF TakeCompactionRequest
<1>22. CASE JobLock(Worker)
  BY <1>22 DEF JobLock
<1>23. CASE WorkerBegin
  BY <1>23 DEF WorkerBegin, Capture, JobOver, LeaveJob
<1>24. CASE Build(Worker)
  BY <1>24 DEF Build
<1>25. CASE Finish(Worker)
  BY <1>25 DEF Finish, JobOver, LeaveJob
<1>26. CASE SpuriousWakeup
  BY <1>26 DEF SpuriousWakeup
<1>27. CASE MergeRaises
  BY <1>27 DEF MergeRaises, Raised
<1>28. ASSUME NEW t \in Thread, BuildRaises(t) PROVE PosOK'
  BY <1>28 DEF BuildRaises, Raised, LeaveJob, AfterRaise
<1>29. ASSUME NEW t \in Thread, FinishRaises(t) PROVE PosOK'
  BY <1>29 DEF FinishRaises, Raised, LeaveJob, AfterRaise
<1>30. CASE UNCHANGED vars
  BY <1>30
<1> QED BY <1>1, <1>2, <1>3, <1>4, <1>5, <1>6, <1>7, <1>8, <1>9, <1>10, <1>11, <1>12,
    <1>13, <1>14, <1>15, <1>16, <1>17, <1>18, <1>19, <1>20, <1>21, <1>22, <1>23, <1>24,
    <1>25, <1>26, <1>27, <1>28, <1>29, <1>30 DEF Next, ClientStep, WorkerStep, Quiescent

\* The locks belong to threads.
LEMMA LocksStep ==
  ASSUME Inv, [Next]_vars
  PROVE  LocksOK'
<1> USE MaintenanceAssumption DEF Inv, TypeOK, Thread, LocksOK
<1> USE DEF vars, native, control, store, locals, budgets
<1>1. ASSUME NEW c \in Client, ScheduleMaintenance(c) PROVE LocksOK'
  BY <1>1 DEF ScheduleMaintenance, RequestCompaction
<1>2. ASSUME NEW c \in Client, Request(c) PROVE LocksOK'
  BY <1>2 DEF Request, AskWorker, Signal, RequestRaises
<1>3. ASSUME NEW c \in Client, WaitForMaintenance(c) PROVE LocksOK'
  BY <1>3 DEF WaitForMaintenance
<1>4. ASSUME NEW c \in Client, Drain(c) PROVE LocksOK'
  BY <1>4 DEF Drain
<1>5. ASSUME NEW c \in Client, Flush(c) PROVE LocksOK'
  BY <1>5 DEF Flush, Checkpoint, RequestCompaction
<1>6. ASSUME NEW c \in Client, Write(c) PROVE LocksOK'
  BY <1>6 DEF Write, AskWorker, Signal, RequestRaises
<1>7. ASSUME NEW c \in Client, Maintain(c) PROVE LocksOK'
  BY <1>7 DEF Maintain, Checkpoint, JobOver, LeaveJob
<1>8. ASSUME NEW c \in Client, JobLock(c) PROVE LocksOK'
  BY <1>8 DEF JobLock
<1>9. ASSUME NEW c \in Client, ClientBegin(c) PROVE LocksOK'
  BY <1>9 DEF ClientBegin, Checkpoint, Capture, JobOver, LeaveJob
<1>10. ASSUME NEW c \in Client, Build(c) PROVE LocksOK'
  BY <1>10 DEF Build
<1>11. ASSUME NEW c \in Client, Finish(c) PROVE LocksOK'
  BY <1>11 DEF Finish, JobOver, LeaveJob
<1>12. ASSUME NEW c \in Client, Close(c) PROVE LocksOK'
  BY <1>12 DEF Close
<1>13. ASSUME NEW c \in Client, CloseWorker(c) PROVE LocksOK'
  BY <1>13 DEF CloseWorker, Broadcast
<1>14. ASSUME NEW c \in Client, Join(c) PROVE LocksOK'
  BY <1>14 DEF Join
<1>15. ASSUME NEW c \in Client, Unlock(c) PROVE LocksOK'
  BY <1>15 DEF Unlock
<1>16. ASSUME NEW c \in Client, NEW call \in AllOps, BeginCall(c, call) PROVE LocksOK'
  BY <1>16 DEF BeginCall
<1>17. CASE WorkerLoop
  BY <1>17 DEF WorkerLoop, Broadcast
<1>18. CASE CallbackReturns
  BY <1>18 DEF CallbackReturns, Broadcast
<1>19. CASE MergeCapture
  BY <1>19 DEF MergeCapture
<1>20. CASE MergePublish
  BY <1>20 DEF MergePublish
<1>21. CASE TakeCompactionRequest
  BY <1>21 DEF TakeCompactionRequest
<1>22. CASE JobLock(Worker)
  BY <1>22 DEF JobLock
<1>23. CASE WorkerBegin
  BY <1>23 DEF WorkerBegin, Capture, JobOver, LeaveJob
<1>24. CASE Build(Worker)
  BY <1>24 DEF Build
<1>25. CASE Finish(Worker)
  BY <1>25 DEF Finish, JobOver, LeaveJob
<1>26. CASE SpuriousWakeup
  BY <1>26 DEF SpuriousWakeup
<1>27. CASE MergeRaises
  BY <1>27 DEF MergeRaises, Raised
<1>28. ASSUME NEW t \in Thread, BuildRaises(t) PROVE LocksOK'
  BY <1>28 DEF BuildRaises, Raised, LeaveJob, AfterRaise
<1>29. ASSUME NEW t \in Thread, FinishRaises(t) PROVE LocksOK'
  BY <1>29 DEF FinishRaises, Raised, LeaveJob, AfterRaise
<1>30. CASE UNCHANGED vars
  BY <1>30
<1> QED BY <1>1, <1>2, <1>3, <1>4, <1>5, <1>6, <1>7, <1>8, <1>9, <1>10, <1>11, <1>12,
    <1>13, <1>14, <1>15, <1>16, <1>17, <1>18, <1>19, <1>20, <1>21, <1>22, <1>23, <1>24,
    <1>25, <1>26, <1>27, <1>28, <1>29, <1>30 DEF Next, ClientStep, WorkerStep, Quiescent

\* The manifest and what jobs captured of it are sequences of segments.
LEMMA StoreStep ==
  ASSUME Inv, [Next]_vars
  PROVE  StoreOK'
<1> USE MaintenanceAssumption DEF Inv, TypeOK, Thread, StoreOK
<1> USE DEF vars, native, control, store, locals, budgets
<1>1. ASSUME NEW c \in Client, ScheduleMaintenance(c) PROVE StoreOK'
  BY <1>1 DEF ScheduleMaintenance, RequestCompaction
<1>2. ASSUME NEW c \in Client, Request(c) PROVE StoreOK'
  BY <1>2 DEF Request, AskWorker, Signal, RequestRaises
<1>3. ASSUME NEW c \in Client, WaitForMaintenance(c) PROVE StoreOK'
  BY <1>3 DEF WaitForMaintenance
<1>4. ASSUME NEW c \in Client, Drain(c) PROVE StoreOK'
  BY <1>4 DEF Drain
<1>5. ASSUME NEW c \in Client, Flush(c) PROVE StoreOK'
  <2>1. segments' \in {segments, Checkpointed} /\ Checkpointed \in Seq(Segment)
    BY <1>5, CheckpointedType DEF Flush, Checkpoint
  <2>2. next_id' \in {next_id, next_id + 1}
    BY <1>5 DEF Flush, Checkpoint
  <2>3. captured' = captured
    BY <1>5 DEF Flush
  <2>4. <<>> \in Seq(Segment) /\ c \in Thread
    OBVIOUS
  <2>5. captured' \in [Thread -> Seq(Segment)]
    BY <2>1, <2>3, <2>4, CapturedType
  <2>6. segments' \in Seq(Segment) /\ next_id' \in Nat
    BY <2>1, <2>2
  <2> QED BY <2>5, <2>6
<1>6. ASSUME NEW c \in Client, Write(c) PROVE StoreOK'
  BY <1>6 DEF Write, AskWorker, Signal, RequestRaises
<1>7. ASSUME NEW c \in Client, Maintain(c) PROVE StoreOK'
  <2>1. segments' \in {segments, Checkpointed} /\ Checkpointed \in Seq(Segment)
    BY <1>7, CheckpointedType DEF Maintain, Checkpoint
  <2>2. next_id' \in {next_id, next_id + 1}
    BY <1>7 DEF Maintain, Checkpoint
  <2>3. captured' = captured \/ captured' = [captured EXCEPT ![c] = <<>>]
    BY <1>7 DEF Maintain, JobOver, LeaveJob
  <2>4. <<>> \in Seq(Segment) /\ c \in Thread
    OBVIOUS
  <2>5. captured' \in [Thread -> Seq(Segment)]
    BY <2>1, <2>3, <2>4, CapturedType
  <2>6. segments' \in Seq(Segment) /\ next_id' \in Nat
    BY <2>1, <2>2
  <2> QED BY <2>5, <2>6
<1>8. ASSUME NEW c \in Client, JobLock(c) PROVE StoreOK'
  BY <1>8 DEF JobLock
<1>9. ASSUME NEW c \in Client, ClientBegin(c) PROVE StoreOK'
  <2>1. segments' \in {segments, Checkpointed} /\ Checkpointed \in Seq(Segment)
    BY <1>9, CheckpointedType DEF ClientBegin, Checkpoint
  <2>2. next_id' \in {next_id, next_id + 1}
    BY <1>9 DEF ClientBegin, Checkpoint
  <2>3. \E s \in {<<>>, Checkpointed} : captured' = [captured EXCEPT ![c] = s]
    BY <1>9 DEF ClientBegin, Capture, JobOver, LeaveJob
  <2>4. <<>> \in Seq(Segment) /\ c \in Thread
    OBVIOUS
  <2>5. captured' \in [Thread -> Seq(Segment)]
    BY <2>1, <2>3, <2>4, CapturedType
  <2>6. segments' \in Seq(Segment) /\ next_id' \in Nat
    BY <2>1, <2>2
  <2> QED BY <2>5, <2>6
<1>10. ASSUME NEW c \in Client, Build(c) PROVE StoreOK'
  BY <1>10 DEF Build
<1>11. ASSUME NEW c \in Client, Finish(c) PROVE StoreOK'
  <2>1. segments' \in Seq(Segment) /\ next_id' \in {next_id, next_id + 1}
    BY <1>11, RebasedType DEF Finish
  <2>2. captured' = captured \/ captured' = [captured EXCEPT ![c] = <<>>]
    BY <1>11 DEF Finish, JobOver, LeaveJob
  <2>3. <<>> \in Seq(Segment) /\ c \in Thread
    OBVIOUS
  <2> HIDE DEF Thread
  <2>4. captured' \in [Thread -> Seq(Segment)]
    BY <2>2, <2>3, CapturedType
  <2>5. next_id' \in Nat
    BY <2>1
  <2> QED BY <2>1, <2>4, <2>5
<1>12. ASSUME NEW c \in Client, Close(c) PROVE StoreOK'
  BY <1>12 DEF Close
<1>13. ASSUME NEW c \in Client, CloseWorker(c) PROVE StoreOK'
  BY <1>13 DEF CloseWorker, Broadcast
<1>14. ASSUME NEW c \in Client, Join(c) PROVE StoreOK'
  BY <1>14 DEF Join
<1>15. ASSUME NEW c \in Client, Unlock(c) PROVE StoreOK'
  BY <1>15 DEF Unlock
<1>16. ASSUME NEW c \in Client, NEW call \in AllOps, BeginCall(c, call) PROVE StoreOK'
  BY <1>16 DEF BeginCall
<1>17. CASE WorkerLoop
  BY <1>17 DEF WorkerLoop, Broadcast
<1>18. CASE CallbackReturns
  BY <1>18 DEF CallbackReturns, Broadcast
<1>19. CASE MergeCapture
  BY <1>19 DEF MergeCapture
<1>20. CASE MergePublish
  BY <1>20 DEF MergePublish
<1>21. CASE TakeCompactionRequest
  BY <1>21 DEF TakeCompactionRequest
<1>22. CASE JobLock(Worker)
  BY <1>22 DEF JobLock
<1>23. CASE WorkerBegin
  <2>1. PICK s \in {<<>>, segments} : captured' = [captured EXCEPT ![Worker] = s]
    BY <1>23 DEF WorkerBegin, Capture, JobOver, LeaveJob
  <2>2. UNCHANGED <<segments, next_id>>
    BY <1>23 DEF WorkerBegin
  <2>3. <<>> \in Seq(Segment) /\ segments \in Seq(Segment) /\ Worker \in Thread
    OBVIOUS
  <2>4. s \in Seq(Segment) /\ captured \in [Thread -> Seq(Segment)]
    BY <2>3
  <2> HIDE DEF Thread
  <2>5. captured' \in [Thread -> Seq(Segment)]
    BY <2>1, <2>3, <2>4, CapturedType
  <2> QED BY <2>2, <2>5
<1>24. CASE Build(Worker)
  BY <1>24 DEF Build
<1>25. CASE Finish(Worker)
  <2>1. segments' \in Seq(Segment) /\ next_id' \in {next_id, next_id + 1}
    BY <1>25, RebasedType DEF Finish
  <2>2. captured' = captured \/ captured' = [captured EXCEPT ![Worker] = <<>>]
    BY <1>25 DEF Finish, JobOver, LeaveJob
  <2>3. <<>> \in Seq(Segment) /\ Worker \in Thread
    OBVIOUS
  <2> HIDE DEF Thread
  <2>4. captured' \in [Thread -> Seq(Segment)]
    BY <2>2, <2>3, CapturedType
  <2>5. next_id' \in Nat
    BY <2>1
  <2> QED BY <2>1, <2>4, <2>5
<1>26. CASE SpuriousWakeup
  BY <1>26 DEF SpuriousWakeup
<1>27. CASE MergeRaises
  BY <1>27 DEF MergeRaises, Raised
<1>28. ASSUME NEW t \in Thread, BuildRaises(t) PROVE StoreOK'
  BY <1>28 DEF BuildRaises, Raised, LeaveJob, AfterRaise
<1>29. ASSUME NEW t \in Thread, FinishRaises(t) PROVE StoreOK'
  <2>1. segments' \in Seq(Segment) /\ next_id' \in {next_id, next_id + 1}
    BY <1>29, RebasedType DEF FinishRaises
  <2>2. captured' = captured \/ captured' = [captured EXCEPT ![t] = <<>>]
    BY <1>29 DEF FinishRaises, JobOver, LeaveJob
  <2>3. <<>> \in Seq(Segment) /\ t \in Thread
    OBVIOUS
  <2> HIDE DEF Thread
  <2>4. captured' \in [Thread -> Seq(Segment)]
    BY <2>2, <2>3, CapturedType
  <2>5. next_id' \in Nat
    BY <2>1
  <2> QED BY <2>1, <2>4, <2>5
<1>30. CASE UNCHANGED vars
  BY <1>30
<1> QED BY <1>1, <1>2, <1>3, <1>4, <1>5, <1>6, <1>7, <1>8, <1>9, <1>10, <1>11, <1>12,
    <1>13, <1>14, <1>15, <1>16, <1>17, <1>18, <1>19, <1>20, <1>21, <1>22, <1>23, <1>24,
    <1>25, <1>26, <1>27, <1>28, <1>29, <1>30 DEF Next, ClientStep, WorkerStep, Quiescent

\* The counters stay numbers.
LEMMA CountsStep ==
  ASSUME Inv, [Next]_vars
  PROVE  CountsOK'
<1> USE MaintenanceAssumption DEF Inv, TypeOK, Thread, CountsOK
<1> USE DEF vars, native, control, store, locals, budgets
<1>1. ASSUME NEW c \in Client, ScheduleMaintenance(c) PROVE CountsOK'
  BY <1>1 DEF ScheduleMaintenance, RequestCompaction
<1>2. ASSUME NEW c \in Client, Request(c) PROVE CountsOK'
  BY <1>2 DEF Request, AskWorker, Signal, RequestRaises
<1>3. ASSUME NEW c \in Client, WaitForMaintenance(c) PROVE CountsOK'
  BY <1>3 DEF WaitForMaintenance
<1>4. ASSUME NEW c \in Client, Drain(c) PROVE CountsOK'
  BY <1>4 DEF Drain
<1>5. ASSUME NEW c \in Client, Flush(c) PROVE CountsOK'
  BY <1>5 DEF Flush, Checkpoint, RequestCompaction
<1>6. ASSUME NEW c \in Client, Write(c) PROVE CountsOK'
  <2>1. sealed' \in Nat
    BY <1>6 DEF Write
  <2>2. dirty' \in BOOLEAN
    BY <1>6 DEF Write
  <2>3. UNCHANGED <<merging, attempts, calls, failures>>
    BY <1>6 DEF Write
  <2> QED BY <2>1, <2>2, <2>3
<1>7. ASSUME NEW c \in Client, Maintain(c) PROVE CountsOK'
  <2>1. attempts' \in [Thread -> Nat]
    BY <1>7 DEF Maintain
  <2>2. dirty' \in BOOLEAN
    BY <1>7 DEF Maintain, Checkpoint
  <2>3. UNCHANGED <<sealed, merging, calls, failures>>
    BY <1>7 DEF Maintain
  <2> QED BY <2>1, <2>2, <2>3
<1>8. ASSUME NEW c \in Client, JobLock(c) PROVE CountsOK'
  BY <1>8 DEF JobLock
<1>9. ASSUME NEW c \in Client, ClientBegin(c) PROVE CountsOK'
  BY <1>9 DEF ClientBegin, Checkpoint, Capture, JobOver, LeaveJob
<1>10. ASSUME NEW c \in Client, Build(c) PROVE CountsOK'
  BY <1>10 DEF Build
<1>11. ASSUME NEW c \in Client, Finish(c) PROVE CountsOK'
  BY SMTT(30), <1>11 DEF Finish, JobOver, LeaveJob
<1>12. ASSUME NEW c \in Client, Close(c) PROVE CountsOK'
  BY <1>12 DEF Close
<1>13. ASSUME NEW c \in Client, CloseWorker(c) PROVE CountsOK'
  BY <1>13 DEF CloseWorker, Broadcast
<1>14. ASSUME NEW c \in Client, Join(c) PROVE CountsOK'
  BY <1>14 DEF Join
<1>15. ASSUME NEW c \in Client, Unlock(c) PROVE CountsOK'
  BY <1>15 DEF Unlock
<1>16. ASSUME NEW c \in Client, NEW call \in AllOps, BeginCall(c, call) PROVE CountsOK'
  BY <1>16 DEF BeginCall
<1>17. CASE WorkerLoop
  BY <1>17 DEF WorkerLoop, Broadcast
<1>18. CASE CallbackReturns
  BY <1>18 DEF CallbackReturns, Broadcast
<1>19. CASE MergeCapture
  BY <1>19 DEF MergeCapture
<1>20. CASE MergePublish
  BY <1>20 DEF MergePublish
<1>21. CASE TakeCompactionRequest
  BY <1>21 DEF TakeCompactionRequest
<1>22. CASE JobLock(Worker)
  BY <1>22 DEF JobLock
<1>23. CASE WorkerBegin
  BY <1>23 DEF WorkerBegin, Capture, JobOver, LeaveJob
<1>24. CASE Build(Worker)
  BY <1>24 DEF Build
<1>25. CASE Finish(Worker)
  BY <1>25 DEF Finish, JobOver, LeaveJob
<1>26. CASE SpuriousWakeup
  BY <1>26 DEF SpuriousWakeup
<1>27. CASE MergeRaises
  BY <1>27 DEF MergeRaises, Raised
<1>28. ASSUME NEW t \in Thread, BuildRaises(t) PROVE CountsOK'
  BY <1>28 DEF BuildRaises, Raised, LeaveJob, AfterRaise
<1>29. ASSUME NEW t \in Thread, FinishRaises(t) PROVE CountsOK'
  BY <1>29 DEF FinishRaises, Raised, LeaveJob, AfterRaise
<1>30. CASE UNCHANGED vars
  BY <1>30
<1> QED BY <1>1, <1>2, <1>3, <1>4, <1>5, <1>6, <1>7, <1>8, <1>9, <1>10, <1>11, <1>12,
    <1>13, <1>14, <1>15, <1>16, <1>17, <1>18, <1>19, <1>20, <1>21, <1>22, <1>23, <1>24,
    <1>25, <1>26, <1>27, <1>28, <1>29, <1>30 DEF Next, ClientStep, WorkerStep, Quiescent

-----------------------------------------------------------------------------
(***************************************************************************)
(* The theorems.                                                           *)
(***************************************************************************)
LEMMA InitInv == Init => Inv
<1> SUFFICES ASSUME Init PROVE Inv
  OBVIOUS
<1>1. FlagsOK /\ LocksOK
  BY MaintenanceAssumption DEF Init, FlagsOK, LocksOK
<1>2. PosOK
  BY MaintenanceAssumption DEF Init, PosOK, Thread, ClientPos, WorkerPos, JobPos,
     BeforeTake, AllOps
<1>3. StoreOK
  BY DEF Init, StoreOK
<1>4. CountsOK
  <2>1. MaxCalls \in Nat /\ MaxFailures \in Nat
    BY MaintenanceAssumption
  <2>2. 0 \in 0..MaxCalls /\ 0 \in 0..MaxFailures
    BY <2>1
  <2> QED BY <2>2 DEF Init, CountsOK
<1>5. WakeInv /\ OpenInv /\ ErrorInv /\ OwedInv
  BY MaintenanceAssumption DEF Init, WakeInv, OpenInv, ErrorInv, OwedInv, Thread,
      JobPos,
     BeforeTake
<1>6. LockInv /\ CapturedInputsLead
  BY MaintenanceAssumption DEF Init, LockInv, CapturedInputsLead, Thread
<1> QED BY <1>1, <1>2, <1>3, <1>4, <1>5, <1>6 DEF Inv, TypeOK

LEMMA NextInv == Inv /\ [Next]_vars => Inv'
<1> SUFFICES ASSUME Inv, [Next]_vars PROVE Inv'
  OBVIOUS
<1>1. TypeOK'
  BY FlagsStep, PosStep, LocksStep, StoreStep, CountsStep DEF TypeOK
<1> QED BY <1>1, WakeStep, OpenStep, ErrorStep, OwedStep, LockStep, LeadStep DEF Inv

\* The whole invariant is one of every behaviour of the worker, its controller and
\* their callers, and of any number of callers.
THEOREM MaintenanceInvariant == Spec => []Inv
<1> QED BY InitInv, NextInv, PTL DEF Spec

\* A queued job or a close never finds the worker asleep: one condition variable and
\* one signal are enough, because a drainer sleeps only beside a worker that is awake
\* (maintenance_worker.c, request and drain).
THEOREM WakeupsAreNotLost == Spec => []NoLostWakeup
<1>1. Inv => NoLostWakeup
  BY DEF Inv, WakeInv, NoLostWakeup
<1> QED BY <1>1, MaintenanceInvariant, PTL

\* A wait_for_maintenance that returns has seen every compaction its caller asked for
\* before it taken by a callback that has returned.
THEOREM DrainServes == Spec => []DrainServesRequests
<1>1. Inv => DrainServesRequests
  BY DEF Inv, OwedInv, DrainServesRequests
<1> QED BY <1>1, MaintenanceInvariant, PTL

\* The inputs a compaction captured lead the manifest until it publishes, whatever is
\* flushed meanwhile and whoever else compacts (storage/compaction.mojo).
THEOREM InputsStayInFront == Spec => []CapturedInputsLead
<1>1. Inv => CapturedInputsLead
  BY DEF Inv
<1> QED BY <1>1, MaintenanceInvariant, PTL

\* Nobody is about to ask the native worker for a job once close has freed it.
THEOREM FreedIsNotAsked == Spec => []NoRequestAfterFree
<1>1. Inv => NoRequestAfterFree
  BY DEF Inv, OpenInv, NoRequestAfterFree
<1> QED BY <1>1, MaintenanceInvariant, PTL
=============================================================================
