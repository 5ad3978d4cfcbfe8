--------------------------- MODULE MediaJobs_proofs ---------------------------
(***************************************************************************)
(* Proofs about MediaJobs, for any numbers of workers, watchdogs, readers  *)
(* and calls, and any values of the bounds.                                *)
(***************************************************************************)
EXTENDS MediaJobs, TLAPS

LEMMA FreshIsUnused ==
    ASSUME NEW now \in Fresh
    PROVE  /\ now \in Stamps
           /\ now # job.stamp
           /\ now # asset.stamp
           /\ \A t \in Tasks : now # task[t].lease
BY DEF Fresh, LeastOf, InUse

-----------------------------------------------------------------------------
(* Type correctness.                                                       *)

LEMMA InitTypeOK == Init => TypeOK
<1> SUFFICES ASSUME Init PROVE TypeOK
  OBVIOUS
<1>1. job \in JobRow /\ asset \in AssetRow
  BY DEF Init, JobRow, AssetRow, JobStatus, ReleaseStatus
<1>2. Idle \in TaskState /\ IdleRequest \in RequestState
  BY DEF Idle, IdleRequest, TaskState, RequestState, WorkerPc, RequestPc
<1>3. QED
  BY <1>1, <1>2 DEF Init, TypeOK

LEMMA GotoType ==
    ASSUME TypeOK, NEW t \in Tasks, NEW pc \in WorkerPc \cup FailPc, Goto(t, pc)
    PROVE  task' \in [Tasks -> TaskState]
BY DEF TypeOK, Goto, TaskState

LEMMA StopType ==
    ASSUME TypeOK, NEW t \in Tasks, Stop(t)
    PROVE  task' \in [Tasks -> TaskState]
BY DEF TypeOK, Stop, TaskState, Idle, WorkerPc

LEMMA CarryType ==
    ASSUME TypeOK, NEW t \in Tasks, NEW pc \in WorkerPc \cup FailPc,
           NEW next \in JobStatus \cup {"none"}, Carry(t, pc, next)
    PROVE  task' \in [Tasks -> TaskState]
BY DEF TypeOK, Carry, TaskState

LEMMA SetTaskType ==
    ASSUME TypeOK, NEW t \in Tasks, NEW s \in TaskState, task' = [task EXCEPT ![t] = s]
    PROVE  task' \in [Tasks -> TaskState]
BY DEF TypeOK

LEMMA UpsertShellType ==
    ASSUME TypeOK, NEW seen \in JobStatus \cup {"none"}, UpsertShell(seen)
    PROVE  asset' \in AssetRow
BY DEF TypeOK, UpsertShell, AssetRow

LEMMA SetAssetType ==
    ASSUME TypeOK, NEW status \in JobStatus \cup ReleaseStatus, SetAsset(status)
    PROVE  asset' \in AssetRow
BY DEF TypeOK, SetAsset, AssetRow

LEMMA SetJobType ==
    ASSUME TypeOK, NEW status \in JobStatus, SetJob(status)
    PROVE  job' \in JobRow
BY DEF TypeOK, SetJob, JobRow

LEMMA WorkerTypeOK ==
    ASSUME TypeOK, NEW w \in Workers,
           Poll(w) \/ WorkerStep(w) \/ BeginFails(w) \/ StageFails(w)
    PROVE  TypeOK'
<1> w \in Tasks
  BY DEF Tasks
<1>1. CASE Poll(w) \/ BeginAttempt(w) \/ BeginFails(w) \/ CheckLease(w)
  <2>1. task' \in [Tasks -> TaskState]
    BY <1>1, GotoType, StopType DEF Poll, BeginAttempt, BeginFails, CheckLease, WorkerPc
  <2>2. QED
    BY <1>1, <2>1 DEF Poll, BeginAttempt, BeginFails, CheckLease, TypeOK, rows
<1>2. CASE ClaimJob(w)
  <2>1. CASE UNCHANGED job
    <3>1. Stop(w) \/ job' # job
      BY <1>2 DEF ClaimJob, TypeOK, JobRow
    <3>2. QED
      BY <1>2, <2>1, <3>1, StopType DEF ClaimJob, TypeOK
  <2>2. CASE ~UNCHANGED job
    <3>1. PICK now \in Fresh :
            /\ job' = [status |-> "processing", stamp |-> now, stale |-> FALSE,
                       attempts |-> job.attempts + 1]
            /\ task' = [task EXCEPT ![w] =
                           [pc |-> "reread", lease |-> now, next |-> "none"]]
      BY <1>2, <2>2 DEF ClaimJob
    <3>2. now \in Stamps
      BY FreshIsUnused
    <3>3. job' \in JobRow
      BY <3>1, <3>2 DEF JobRow, JobStatus, TypeOK
    <3>4. task' \in [Tasks -> TaskState]
      BY <3>1, <3>2, SetTaskType DEF TaskState, WorkerPc
    <3>5. QED
      BY <1>2, <3>3, <3>4 DEF ClaimJob, TypeOK
  <2>3. QED
    BY <2>1, <2>2
<1>3. CASE ReadClaimed(w)
  <2>1. task' \in [Tasks -> TaskState]
    BY <1>3, CarryType DEF ReadClaimed, TypeOK, JobRow, WorkerPc
  <2>2. QED
    BY <1>3, <2>1 DEF ReadClaimed, TypeOK, rows
<1>4. CASE EnsureShell(w)
  <2>1. task' \in [Tasks -> TaskState]
    BY <1>4, GotoType DEF EnsureShell, WorkerPc
  <2>2. asset' \in AssetRow
    BY <1>4, UpsertShellType DEF EnsureShell, TypeOK, TaskState
  <2>3. QED
    BY <1>4, <2>1, <2>2 DEF EnsureShell, TypeOK
<1>5. CASE MarkAsset(w)
  <2>1. task' \in [Tasks -> TaskState]
    BY <1>5, GotoType DEF MarkAsset, WorkerPc
  <2>2. asset' \in AssetRow
    BY <1>5 DEF MarkAsset, TypeOK, TaskState, AssetRow, JobStatus
  <2>3. QED
    BY <1>5, <2>1, <2>2 DEF MarkAsset, TypeOK
<1>6. CASE StageFails(w)
  <2>1. task' \in [Tasks -> TaskState]
    BY <1>6, CarryType DEF StageFails, FailPc, JobStatus
  <2>2. QED
    BY <1>6, <2>1 DEF StageFails, TypeOK, rows
<1>7. CASE PublishFiles(w) \/ DeleteVariants(w) \/ InsertVariants(w)
  <2>1. task' \in [Tasks -> TaskState]
    BY <1>7, GotoType DEF PublishFiles, DeleteVariants, InsertVariants, WorkerPc
  <2>2. stored' \in SUBSET {"source", "package"}
    BY <1>7 DEF PublishFiles, DeleteVariants, InsertVariants, TypeOK
  <2>3. variants' \in Nat
    BY <1>7 DEF PublishFiles, DeleteVariants, InsertVariants, TypeOK
  <2>4. QED
    BY <1>7, <2>1, <2>2, <2>3 DEF PublishFiles, DeleteVariants, InsertVariants, TypeOK
<1>8. CASE FinalizeAsset(w) \/ FinalizeJob(w)
  <2>1. task' \in [Tasks -> TaskState]
    BY <1>8, GotoType, StopType DEF FinalizeAsset, FinalizeJob, WorkerPc
  <2>2. asset' \in AssetRow
    <3>1. [status |-> "ready", stamp |-> NoStamp, playback |-> TRUE] \in AssetRow
      BY DEF AssetRow, JobStatus
    <3>2. QED
      BY <1>8, <3>1 DEF FinalizeAsset, FinalizeJob, TypeOK
  <2>3. job' \in JobRow
    BY <1>8, SetJobType DEF FinalizeAsset, FinalizeJob, TypeOK, JobStatus
  <2>4. QED
    BY <1>8, <2>1, <2>2, <2>3 DEF FinalizeAsset, FinalizeJob, TypeOK
<1>9. QED
  BY <1>1, <1>2, <1>3, <1>4, <1>5, <1>6, <1>7, <1>8 DEF WorkerStep

\* A task in the failure handler carries the status it will write.
FailingHasAStatus ==
    \A t \in Tasks : task[t].pc \in FailPc => task[t].next \in {"uploaded", "failed"}

TypeInv == TypeOK /\ FailingHasAStatus

LEMMA FailTypeOK ==
    ASSUME TypeInv, NEW t \in Tasks, FailStep(t)
    PROVE  TypeOK'
<1> USE DEF TypeInv
<1>1. CASE FailRead(t)
  <2>1. NextStatus(t) \in JobStatus
    BY DEF NextStatus, JobStatus
  <2>2. task' \in [Tasks -> TaskState]
    BY <1>1, <2>1, CarryType, StopType DEF FailRead, FailPc
  <2>3. QED
    BY <1>1, <2>2 DEF FailRead, TypeOK, rows
<1>2. CASE FailJob(t)
  <2>1. task' \in [Tasks -> TaskState]
    BY <1>2, GotoType, StopType DEF FailJob, FailPc
  <2>2. task[t].next \in JobStatus
    BY <1>2 DEF FailJob, FailingHasAStatus, FailPc, JobStatus
  <2>3. QED
    BY <1>2, <2>1, <2>2, SetJobType DEF FailJob, TypeOK
<1>3. CASE FailAsset(t)
  <2>1. task[t].next \in JobStatus
    BY <1>3 DEF FailAsset, FailingHasAStatus, FailPc, JobStatus
  <2>2. asset' \in AssetRow
    BY <1>3, <2>1, SetAssetType DEF FailAsset, TypeOK
  <2>3. QED
    BY <1>3, <2>2, StopType DEF FailAsset, TypeOK
<1>4. QED
  BY <1>1, <1>2, <1>3 DEF FailStep

LEMMA SelectTypeOK ==
    ASSUME TypeOK, NEW t \in Tasks, NEW lease \in Stamps \cup {NoStamp},
           SelectStale(t, lease)
    PROVE  TypeOK'
<1>1. [pc |-> "failread", lease |-> lease, next |-> "uploaded"] \in TaskState
  BY DEF TaskState, FailPc, JobStatus
<1>2. task' \in [Tasks -> TaskState]
  BY <1>1, SetTaskType DEF SelectStale
<1>3. QED
  BY <1>2 DEF SelectStale, TypeOK, rows

LEMMA SetRequestType ==
    ASSUME TypeOK, NEW q \in Requests, NEW s \in RequestState,
           request' = [request EXCEPT ![q] = s]
    PROVE  request' \in [Requests -> RequestState]
BY DEF TypeOK

LEMMA AdmitType ==
    ASSUME TypeOK, NEW q \in Requests, NEW pc \in RequestPc, Admit(q, pc, "none")
    PROVE  request' \in [Requests -> RequestState] /\ calls' \in Nat /\ UNCHANGED <<task, crashes>>
<1>1. [pc |-> pc, seen |-> "none"] \in RequestState
  BY DEF RequestState
<1>2. QED
  BY <1>1, SetRequestType DEF Admit, TypeOK

LEMMA ProceedType ==
    ASSUME TypeOK, NEW q \in Requests, NEW pc \in RequestPc, Proceed(q, pc)
    PROVE  request' \in [Requests -> RequestState] /\ UNCHANGED <<calls, crashes>>
BY DEF TypeOK, Proceed, RequestState

LEMMA ReplyType ==
    ASSUME TypeOK, NEW q \in Requests, Reply(q)
    PROVE  request' \in [Requests -> RequestState] /\ UNCHANGED <<calls, crashes>>
BY DEF TypeOK, Reply, RequestState, IdleRequest, RequestPc

LEMMA NewCallTypeOK ==
    ASSUME TypeOK, NEW q \in Requests, NewCall(q)
    PROVE  TypeOK'
<1>1. /\ request' \in [Requests -> RequestState] /\ calls' \in Nat
      /\ UNCHANGED <<task, crashes>>
  BY AdmitType
  DEF NewCall, CompleteRead, EditRead, PublishRead, CreatorRetryRead, AdminRetryRead, RequestPc
<1>2. UNCHANGED <<job, asset, variants, session>> /\ stored' \in SUBSET {"source", "package"}
  BY DEF NewCall, CompleteRead, EditRead, PublishRead, CreatorRetryRead, AdminRetryRead,
         TypeOK, rows
<1>3. QED
  BY <1>1, <1>2 DEF TypeOK

LEMMA RequestTypeOK ==
    ASSUME TypeOK, NEW q \in Requests, RequestStep(q)
    PROVE  TypeOK'
<1>1. CASE CompleteSession(q)
  <2>1. request' \in [Requests -> RequestState] /\ UNCHANGED <<calls, crashes>>
    BY <1>1, ProceedType DEF CompleteSession, RequestPc
  <2>2. QED
    BY <1>1, <2>1 DEF CompleteSession, TypeOK
<1>2. CASE CompleteJob(q)
  <2>1. request' \in [Requests -> RequestState] /\ UNCHANGED <<calls, crashes>>
    BY <1>2, ProceedType DEF CompleteJob, RequestPc
  <2>2. job' \in JobRow
    BY <1>2 DEF CompleteJob, JobRow, JobStatus
  <2>3. QED
    BY <1>2, <2>1, <2>2 DEF CompleteJob, TypeOK
<1>3. CASE CompleteReread(q)
  <2>1. [pc |-> "c_shell", seen |-> job.status] \in RequestState
    BY DEF RequestState, RequestPc, TypeOK, JobRow
  <2>2. QED
    BY <1>3, <2>1, SetRequestType DEF CompleteReread, TypeOK, rows
<1>4. CASE CompleteShell(q)
  <2>1. request' \in [Requests -> RequestState] /\ UNCHANGED <<calls, crashes>>
    BY <1>4, ProceedType DEF CompleteShell, RequestPc
  <2>2. request[q].seen \in JobStatus \cup {"none"}
    BY DEF TypeOK, RequestState
  <2>3. asset' \in AssetRow
    BY <1>4, <2>2, UpsertShellType DEF CompleteShell
  <2>4. QED
    BY <1>4, <2>1, <2>3 DEF CompleteShell, TypeOK
<1>5. CASE EditWrite(q)
  <2>1. request' \in [Requests -> RequestState] /\ UNCHANGED <<calls, crashes>>
    BY <1>5, ReplyType DEF EditWrite
  <2>2. job' \in JobRow
    <3>1. CASE job.status = "processing"
      <4>1. PICK now \in Fresh : job' = [job EXCEPT !.stamp = now, !.stale = FALSE]
        BY <1>5, <3>1 DEF EditWrite
      <4>2. QED
        BY <4>1, FreshIsUnused DEF TypeOK, JobRow
    <3>2. CASE job.status # "processing"
      <4>1. SetJob(job.status) /\ job.status \in JobStatus
        BY <1>5, <3>2 DEF EditWrite, TypeOK, JobRow
      <4>2. QED
        BY <4>1, SetJobType
    <3>3. QED
      BY <3>1, <3>2
  <2>3. QED
    BY <1>5, <2>1, <2>2 DEF EditWrite, TypeOK
<1>6. CASE PublishReadAsset(q)
  <2>1. request' \in [Requests -> RequestState] /\ UNCHANGED <<calls, crashes>>
    BY <1>6, ProceedType, ReplyType DEF PublishReadAsset, RequestPc
  <2>2. QED
    BY <1>6, <2>1 DEF PublishReadAsset, TypeOK, rows
<1>7. CASE PublishJob(q) \/ RetryJob(q)
  <2>1. request' \in [Requests -> RequestState] /\ UNCHANGED <<calls, crashes>>
    BY <1>7, ProceedType DEF PublishJob, RetryJob, RequestPc
  <2>2. job' \in JobRow
    BY <1>7, SetJobType DEF PublishJob, RetryJob, JobStatus
  <2>3. QED
    BY <1>7, <2>1, <2>2 DEF PublishJob, RetryJob, TypeOK
<1>8. CASE PublishAsset(q)
  <2>1. request' \in [Requests -> RequestState] /\ UNCHANGED <<calls, crashes>>
    BY <1>8, ReplyType DEF PublishAsset
  <2>2. asset' \in AssetRow
    BY <1>8, SetAssetType DEF PublishAsset
  <2>3. QED
    BY <1>8, <2>1, <2>2 DEF PublishAsset, TypeOK
<1>9. CASE RetryAsset(q)
  <2>1. request' \in [Requests -> RequestState] /\ UNCHANGED <<calls, crashes>>
    BY <1>9, ProceedType DEF RetryAsset, RequestPc
  <2>2. asset' \in AssetRow
    BY <1>9, SetAssetType DEF RetryAsset, JobStatus
  <2>3. QED
    BY <1>9, <2>1, <2>2 DEF RetryAsset, TypeOK
<1>10. CASE \E w \in Workers : ScheduleProcessing(q, w)
  <2>1. PICK w \in Workers : ScheduleProcessing(q, w)
    BY <1>10
  <2>2. request' \in [Requests -> RequestState] /\ UNCHANGED <<calls, crashes>>
    BY <2>1, ReplyType DEF ScheduleProcessing
  <2>3. task' \in [Tasks -> TaskState]
    BY <2>1, GotoType DEF ScheduleProcessing, WorkerPc, Tasks
  <2>4. QED
    BY <2>1, <2>2, <2>3 DEF ScheduleProcessing, TypeOK, rows
<1>11. QED
  BY <1>1, <1>2, <1>3, <1>4, <1>5, <1>6, <1>7, <1>8, <1>9, <1>10 DEF RequestStep

LEMMA EnvironmentTypeOK ==
    ASSUME TypeOK, TimePasses \/ Crash
    PROVE  TypeOK'
<1>1. CASE TimePasses
  BY <1>1 DEF TimePasses, TypeOK, JobRow
<1>2. CASE Crash
  <2>1. Idle \in TaskState /\ IdleRequest \in RequestState
    BY DEF Idle, IdleRequest, TaskState, RequestState, WorkerPc, RequestPc
  <2>2. QED
    BY <1>2, <2>1 DEF Crash, TypeOK, rows
<1>3. QED
  BY <1>1, <1>2

LEMMA StutterTypeOK ==
    ASSUME TypeInv, UNCHANGED vars
    PROVE  TypeInv'
BY DEF vars, TypeInv, TypeOK, FailingHasAStatus

LEMMA NextTypeOK ==
    ASSUME TypeInv, Next
    PROVE  TypeOK'
<1> USE DEF TypeInv
<1>1. CASE \E w \in Workers : Poll(w) \/ WorkerStep(w) \/ BeginFails(w) \/ StageFails(w)
  BY <1>1, WorkerTypeOK
<1>2. CASE \E t \in Tasks : FailStep(t)
  BY <1>2, FailTypeOK
<1>3. CASE \E d \in Watchdogs : WatchdogSelect(d)
  BY <1>3, SelectTypeOK DEF WatchdogSelect, Tasks
<1>4. CASE \E r \in Readers : ReaderSelect(r)
  BY <1>4, SelectTypeOK DEF ReaderSelect, Tasks, TypeOK, JobRow
<1>5. CASE \E q \in Requests : NewCall(q) \/ RequestStep(q)
  BY <1>5, NewCallTypeOK, RequestTypeOK
<1>6. CASE TimePasses \/ Crash
  BY <1>6, EnvironmentTypeOK
<1>7. QED
  BY <1>1, <1>2, <1>3, <1>4, <1>5, <1>6 DEF Next

-----------------------------------------------------------------------------
(* Who moves a task, and what a step does to the others.                   *)

Moves(t) ==
    \/ /\ t \in Workers
       /\ \/ Poll(t) \/ WorkerStep(t) \/ BeginFails(t) \/ StageFails(t)
          \/ \E q \in Requests : ScheduleProcessing(q, t)
    \/ FailStep(t)
    \/ t \in Watchdogs /\ WatchdogSelect(t)
    \/ t \in Readers /\ ReaderSelect(t)
    \/ Crash

LEMMA WorkerFrame ==
    ASSUME TypeOK, NEW w \in Workers, NEW t \in Tasks \ {w},
           Poll(w) \/ WorkerStep(w) \/ BeginFails(w) \/ StageFails(w)
    PROVE  task'[t] = task[t]
<1>1. (\E pc, next : Goto(w, pc) \/ Carry(w, pc, next)) \/ Stop(w)
      \/ \E s : task' = [task EXCEPT ![w] = s]
  BY DEF WorkerStep, Poll, BeginAttempt, ClaimJob, ReadClaimed, EnsureShell, MarkAsset,
         BeginFails, CheckLease, PublishFiles, DeleteVariants, InsertVariants,
         FinalizeAsset, FinalizeJob, StageFails
<1>2. QED
  BY <1>1 DEF Goto, Carry, Stop, TypeOK

LEMMA FailFrame ==
    ASSUME TypeOK, NEW u \in Tasks, NEW t \in Tasks \ {u}, FailStep(u)
    PROVE  task'[t] = task[t]
BY DEF FailStep, FailRead, FailJob, FailAsset, Goto, Carry, Stop, TypeOK

LEMMA RequestFrame ==
    ASSUME TypeOK, NEW q \in Requests, NewCall(q) \/ RequestStep(q)
    PROVE  \/ UNCHANGED task
           \/ \E w \in Workers : ScheduleProcessing(q, w)
BY DEF NewCall, CompleteRead, EditRead, PublishRead, CreatorRetryRead, AdminRetryRead, Admit,
       RequestStep, CompleteSession, CompleteJob, CompleteReread, CompleteShell, EditWrite,
       PublishReadAsset, PublishJob, PublishAsset, RetryJob, RetryAsset

LEMMA TaskMoves ==
    ASSUME TypeOK, Next, NEW t \in Tasks, task'[t] # task[t]
    PROVE  Moves(t)
<1>1. CASE \E w \in Workers : Poll(w) \/ WorkerStep(w) \/ BeginFails(w) \/ StageFails(w)
  BY <1>1, WorkerFrame DEF Moves
<1>2. CASE \E u \in Tasks : FailStep(u)
  BY <1>2, FailFrame DEF Moves
<1>3. CASE \E d \in Watchdogs : WatchdogSelect(d)
  BY <1>3 DEF WatchdogSelect, SelectStale, TypeOK, Tasks, Moves
<1>4. CASE \E r \in Readers : ReaderSelect(r)
  BY <1>4 DEF ReaderSelect, SelectStale, TypeOK, Tasks, Moves
<1>5. CASE \E q \in Requests : NewCall(q) \/ RequestStep(q)
  <2>1. PICK q \in Requests, w \in Workers : ScheduleProcessing(q, w)
    BY <1>5, RequestFrame
  <2>2. w = t
    BY <2>1 DEF ScheduleProcessing, Goto, TypeOK
  <2>3. QED
    BY <2>1, <2>2 DEF Moves
<1>6. CASE TimePasses \/ Crash
  BY <1>6 DEF TimePasses, Moves
<1>7. QED
  BY <1>1, <1>2, <1>3, <1>4, <1>5, <1>6 DEF Next

LEMMA WorkerNeverFailPc ==
    ASSUME TypeOK, NEW w \in Workers, Poll(w) \/ WorkerStep(w) \/ BeginFails(w)
    PROVE  task'[w].pc \notin FailPc
<1>1. w \in Tasks
  BY DEF Tasks
<1>2. \/ \E pc \in WorkerPc : Goto(w, pc)
      \/ \E pc \in WorkerPc : \E next : Carry(w, pc, next)
      \/ Stop(w)
      \/ \E now : task' = [task EXCEPT ![w] = [pc |-> "reread", lease |-> now, next |-> "none"]]
  BY DEF WorkerStep, Poll, BeginAttempt, ClaimJob, ReadClaimed, EnsureShell, MarkAsset,
         BeginFails, CheckLease, PublishFiles, DeleteVariants, InsertVariants,
         FinalizeAsset, FinalizeJob, WorkerPc
<1>3. QED
  BY <1>1, <1>2 DEF Goto, Carry, Stop, Idle, TypeOK, WorkerPc, FailPc, TaskState

\* Only three statements bring a task into the failure handler.
LEMMA NextFailingHasAStatus ==
    ASSUME TypeInv, Next
    PROVE  FailingHasAStatus'
<1> USE DEF TypeInv
<1> SUFFICES ASSUME NEW t \in Tasks, task'[t].pc \in FailPc
             PROVE  task'[t].next \in {"uploaded", "failed"}
  BY DEF FailingHasAStatus
<1>1. CASE task'[t] = task[t]
  BY <1>1 DEF FailingHasAStatus
<1>2. CASE task'[t] # task[t]
  <2>1. CASE t \in Workers /\ (Poll(t) \/ WorkerStep(t) \/ BeginFails(t))
    BY <2>1, WorkerNeverFailPc
  <2>2. CASE t \in Workers /\ StageFails(t)
    BY <2>2 DEF StageFails, Carry, TypeOK
  <2>3. CASE \E q \in Requests : ScheduleProcessing(q, t)
    BY <2>3 DEF ScheduleProcessing, Goto, TypeOK, FailPc, TaskState
  <2>4. CASE FailRead(t)
    BY <2>4 DEF FailRead, Carry, Stop, Idle, NextStatus, TypeOK, FailPc
  <2>5. CASE FailJob(t) \/ FailAsset(t)
    BY <2>5 DEF FailJob, FailAsset, Goto, Stop, Idle, FailingHasAStatus, TypeOK, FailPc, TaskState
  <2>6. CASE WatchdogSelect(t) \/ ReaderSelect(t)
    BY <2>6 DEF WatchdogSelect, ReaderSelect, SelectStale, TypeOK
  <2>7. CASE Crash
    BY <2>7 DEF Crash, Idle, FailPc
  <2>8. QED
    BY <1>2, TaskMoves, <2>1, <2>2, <2>3, <2>4, <2>5, <2>6, <2>7 DEF Moves, FailStep
<1>3. QED
  BY <1>1, <1>2

\* The inductive form of TypeOK: a failing task carries a status as well.
THEOREM TypeInvariant == Spec => []TypeInv
<1>1. Init => TypeInv
  BY InitTypeOK DEF TypeInv, FailingHasAStatus, Init, Idle, FailPc
<1>2. TypeInv /\ [Next]_vars => TypeInv'
  BY NextTypeOK, NextFailingHasAStatus, StutterTypeOK DEF TypeInv
<1>3. QED
  BY <1>1, <1>2, PTL DEF Spec

\* Every row, task and call keeps to its states: TypeOK, for any number of
\* workers, watchdogs, readers and calls.
THEOREM TypeCorrect == Spec => []TypeOK
<1>1. TypeInv => TypeOK
  BY DEF TypeInv
<1>2. QED
  BY <1>1, TypeInvariant, PTL

-----------------------------------------------------------------------------
(* Ready is playable.                                                      *)

RequestMoves(q) == NewCall(q) \/ RequestStep(q) \/ Crash

LEMMA RequestsMove ==
    ASSUME TypeOK, Next, NEW q \in Requests, request'[q] # request[q]
    PROVE  RequestMoves(q)
<1>1. CASE \E w \in Workers : Poll(w) \/ WorkerStep(w) \/ BeginFails(w) \/ StageFails(w)
  BY <1>1 DEF WorkerStep, Poll, BeginAttempt, ClaimJob, ReadClaimed, EnsureShell, MarkAsset,
         BeginFails, CheckLease, PublishFiles, DeleteVariants, InsertVariants,
         FinalizeAsset, FinalizeJob, StageFails
<1>2. CASE \E u \in Tasks : FailStep(u)
  BY <1>2 DEF FailStep, FailRead, FailJob, FailAsset
<1>3. CASE (\E d \in Watchdogs : WatchdogSelect(d)) \/ (\E r \in Readers : ReaderSelect(r))
  BY <1>3 DEF WatchdogSelect, ReaderSelect, SelectStale
<1>4. CASE \E p \in Requests : NewCall(p) \/ RequestStep(p)
  <2>1. PICK p \in Requests : NewCall(p) \/ RequestStep(p)
    BY <1>4
  <2>2. \/ \E pc, seen : request' = [request EXCEPT ![p] = [pc |-> pc, seen |-> seen]]
        \/ \E pc : request' = [request EXCEPT ![p].pc = pc]
    BY <2>1
    DEF NewCall, CompleteRead, EditRead, PublishRead, CreatorRetryRead, AdminRetryRead, Admit,
        RequestStep, CompleteSession, CompleteJob, CompleteReread, CompleteShell, EditWrite,
        PublishReadAsset, PublishJob, PublishAsset, RetryJob, RetryAsset, ScheduleProcessing,
        Proceed, Reply, IdleRequest
  <2>3. p = q
    BY <2>2 DEF TypeOK
  <2>4. QED
    BY <2>1, <2>3 DEF RequestMoves
<1>5. CASE TimePasses \/ Crash
  BY <1>5 DEF TimePasses, RequestMoves
<1>6. QED
  BY <1>1, <1>2, <1>3, <1>4, <1>5 DEF Next

\* What a step may do to storage, to the manifest and to an accepted job.
LEMMA StoredGrows ==
    ASSUME TypeOK, Next
    PROVE  stored \subseteq stored'
<1>1. CASE \E w \in Workers : Poll(w) \/ WorkerStep(w) \/ BeginFails(w) \/ StageFails(w)
  BY <1>1 DEF WorkerStep, Poll, BeginAttempt, ClaimJob, ReadClaimed, EnsureShell, MarkAsset,
         BeginFails, CheckLease, PublishFiles, DeleteVariants, InsertVariants,
         FinalizeAsset, FinalizeJob, StageFails, rows
<1>2. CASE \E u \in Tasks : FailStep(u)
  BY <1>2 DEF FailStep, FailRead, FailJob, FailAsset, rows
<1>3. CASE (\E d \in Watchdogs : WatchdogSelect(d)) \/ (\E r \in Readers : ReaderSelect(r))
  BY <1>3 DEF WatchdogSelect, ReaderSelect, SelectStale, rows
<1>4. CASE \E q \in Requests : NewCall(q) \/ RequestStep(q)
  BY <1>4
  DEF NewCall, CompleteRead, EditRead, PublishRead, CreatorRetryRead, AdminRetryRead,
      RequestStep, CompleteSession, CompleteJob, CompleteReread, CompleteShell, EditWrite,
      PublishReadAsset, PublishJob, PublishAsset, RetryJob, RetryAsset, ScheduleProcessing, rows
<1>5. CASE TimePasses \/ Crash
  BY <1>5 DEF TimePasses, Crash, rows
<1>6. QED
  BY <1>1, <1>2, <1>3, <1>4, <1>5 DEF Next

\* An asset that was never inserted has no manifest.
MissingIsBlank == asset.status = "none" => ~asset.playback

LEMMA UpsertKeepsPlayback ==
    ASSUME TypeOK, MissingIsBlank, NEW seen, UpsertShell(seen)
    PROVE  asset'.playback = asset.playback
<1>1. CASE asset.status = "none"
  BY <1>1 DEF UpsertShell, MissingIsBlank, TypeOK, AssetRow
<1>2. CASE asset.status # "none"
  BY <1>2 DEF UpsertShell, TypeOK, AssetRow
<1>3. QED
  BY <1>1, <1>2

LEMMA PlaybackSteps ==
    ASSUME TypeOK, MissingIsBlank, Next
    PROVE  \/ asset'.playback = asset.playback
           \/ \E w \in Workers : FinalizeAsset(w) /\ task'[w].pc = "finjob" /\ asset'.playback
<1> USE DEF TypeOK, AssetRow, MissingIsBlank
<1>1. CASE \E w \in Workers : Poll(w) \/ WorkerStep(w) \/ BeginFails(w) \/ StageFails(w)
  <2>1. PICK w \in Workers : Poll(w) \/ WorkerStep(w) \/ BeginFails(w) \/ StageFails(w)
    BY <1>1
  <2>2. CASE FinalizeAsset(w)
    <3>1. CASE UNCHANGED asset
      BY <3>1
    <3>2. CASE asset' # asset
      <4>1. Goto(w, "finjob") /\ asset'.playback
        BY <2>2, <3>2 DEF FinalizeAsset
      <4>2. task'[w].pc = "finjob"
        BY <4>1 DEF Goto, Tasks, TaskState
      <4>3. QED
        BY <2>2, <4>1, <4>2
    <3>3. QED
      BY <3>1, <3>2
  <2>3. CASE EnsureShell(w)
    BY <2>3, UpsertKeepsPlayback DEF EnsureShell
  <2>4. CASE MarkAsset(w)
    BY <2>4 DEF MarkAsset
  <2>5. CASE UNCHANGED asset
    BY <2>5
  <2>6. QED
    BY <2>1, <2>2, <2>3, <2>4, <2>5
    DEF WorkerStep, Poll, BeginAttempt, ClaimJob, ReadClaimed,
        BeginFails, CheckLease, PublishFiles, DeleteVariants, InsertVariants,
        FinalizeJob, StageFails, rows
<1>2. CASE \E u \in Tasks : FailStep(u)
  BY <1>2 DEF FailStep, FailRead, FailJob, FailAsset, SetAsset, rows
<1>3. CASE (\E d \in Watchdogs : WatchdogSelect(d)) \/ (\E r \in Readers : ReaderSelect(r))
  BY <1>3 DEF WatchdogSelect, ReaderSelect, SelectStale, rows
<1>4. CASE \E q \in Requests : NewCall(q) \/ RequestStep(q)
  <2>1. PICK q \in Requests : NewCall(q) \/ RequestStep(q)
    BY <1>4
  <2>2. CASE CompleteShell(q)
    BY <2>2, UpsertKeepsPlayback DEF CompleteShell
  <2>3. CASE PublishAsset(q) \/ RetryAsset(q)
    BY <2>3 DEF PublishAsset, RetryAsset, SetAsset
  <2>4. CASE UNCHANGED asset
    BY <2>4
  <2>5. QED
    BY <2>1, <2>2, <2>3, <2>4
    DEF NewCall, CompleteRead, EditRead, PublishRead, CreatorRetryRead, AdminRetryRead,
        RequestStep, CompleteSession, CompleteJob, CompleteReread, EditWrite,
        PublishReadAsset, PublishJob, RetryJob, ScheduleProcessing, rows
<1>5. CASE TimePasses \/ Crash
  BY <1>5 DEF TimePasses, Crash, rows
<1>6. QED
  BY <1>1, <1>2, <1>3, <1>4, <1>5 DEF Next

Busy ==
    \/ \E t \in Tasks : task[t].pc # "idle"
    \/ \E q \in Requests : request[q].pc \notin {"idle", "edit"}

LEMMA StatusSteps ==
    ASSUME TypeInv, Next
    PROVE  \/ job'.status = job.status
           \/ job'.status \in {"uploaded", "processing", "failed"} /\ Busy
           \/ \E w \in Workers : FinalizeJob(w) /\ job'.status = "ready"
           \/ \E q \in Requests : PublishJob(q) /\ job'.status = "published"
<1> USE DEF TypeInv, TypeOK, JobRow
<1>1. CASE \E w \in Workers : Poll(w) \/ WorkerStep(w) \/ BeginFails(w) \/ StageFails(w)
  <2>1. PICK w \in Workers : Poll(w) \/ WorkerStep(w) \/ BeginFails(w) \/ StageFails(w)
    BY <1>1
  <2>2. CASE FinalizeJob(w)
    BY <2>2 DEF FinalizeJob, SetJob
  <2>3. CASE ClaimJob(w)
    BY <2>3 DEF ClaimJob, Busy, Tasks
  <2>4. CASE UNCHANGED job
    BY <2>4
  <2>5. QED
    BY <2>1, <2>2, <2>3, <2>4
    DEF WorkerStep, Poll, BeginAttempt, ReadClaimed, EnsureShell, MarkAsset,
        BeginFails, CheckLease, PublishFiles, DeleteVariants, InsertVariants,
        FinalizeAsset, StageFails, rows
<1>2. CASE \E u \in Tasks : FailStep(u)
  <2>1. PICK u \in Tasks : FailStep(u)
    BY <1>2
  <2>2. CASE FailJob(u) /\ job' # job
    <3>1. SetJob(task[u].next) /\ task[u].next \in {"uploaded", "failed"}
      BY <2>2 DEF FailJob, FailingHasAStatus, FailPc
    <3>2. Busy
      BY <2>2 DEF FailJob, Busy
    <3>3. QED
      BY <3>1, <3>2 DEF SetJob
  <2>3. CASE UNCHANGED job
    BY <2>3
  <2>4. QED
    BY <2>1, <2>2, <2>3 DEF FailStep, FailRead, FailAsset, rows
<1>3. CASE (\E d \in Watchdogs : WatchdogSelect(d)) \/ (\E r \in Readers : ReaderSelect(r))
  BY <1>3 DEF WatchdogSelect, ReaderSelect, SelectStale, rows
<1>4. CASE \E q \in Requests : NewCall(q) \/ RequestStep(q)
  <2>1. PICK q \in Requests : NewCall(q) \/ RequestStep(q)
    BY <1>4
  <2>2. CASE CompleteJob(q)
    BY <2>2 DEF CompleteJob, Busy
  <2>3. CASE EditWrite(q)
    BY <2>3 DEF EditWrite, SetJob
  <2>4. CASE PublishJob(q)
    BY <2>4 DEF PublishJob, SetJob
  <2>5. CASE RetryJob(q)
    BY <2>5 DEF RetryJob, SetJob, Busy
  <2>6. CASE UNCHANGED job
    BY <2>6
  <2>7. QED
    BY <2>1, <2>2, <2>3, <2>4, <2>5, <2>6
    DEF NewCall, CompleteRead, EditRead, PublishRead, CreatorRetryRead, AdminRetryRead,
        RequestStep, CompleteSession, CompleteReread, CompleteShell,
        PublishReadAsset, PublishAsset, RetryAsset, ScheduleProcessing, rows
<1>5. CASE TimePasses \/ Crash
  BY <1>5 DEF TimePasses, Crash, rows
<1>6. QED
  BY <1>1, <1>2, <1>3, <1>4, <1>5 DEF Next

LEMMA AssetIsNeverRemoved ==
    ASSUME TypeInv, Next, asset'.status = "none"
    PROVE  asset.status = "none"
<1> USE DEF TypeInv, TypeOK, AssetRow
<1>1. CASE \E w \in Workers : Poll(w) \/ WorkerStep(w) \/ BeginFails(w) \/ StageFails(w)
  <2>1. PICK w \in Workers : Poll(w) \/ WorkerStep(w) \/ BeginFails(w) \/ StageFails(w)
    BY <1>1
  <2>2. CASE EnsureShell(w)
    BY <2>2 DEF EnsureShell, UpsertShell
  <2>3. CASE MarkAsset(w) \/ FinalizeAsset(w)
    <3>1. FinalizeAsset(w) => asset'.status = "ready" \/ UNCHANGED asset
      BY DEF FinalizeAsset
    <3>2. MarkAsset(w) => asset'.status = "processing"
      BY DEF MarkAsset
    <3>3. QED
      BY <2>3, <3>1, <3>2
  <2>4. CASE UNCHANGED asset
    BY <2>4
  <2>5. QED
    BY <2>1, <2>2, <2>3, <2>4
    DEF WorkerStep, Poll, BeginAttempt, ClaimJob, ReadClaimed, BeginFails, CheckLease,
        PublishFiles, DeleteVariants, InsertVariants, FinalizeJob, StageFails, rows
<1>2. CASE \E u \in Tasks : FailStep(u)
  BY <1>2 DEF FailStep, FailRead, FailJob, FailAsset, SetAsset, rows, FailingHasAStatus, FailPc
<1>3. CASE (\E d \in Watchdogs : WatchdogSelect(d)) \/ (\E r \in Readers : ReaderSelect(r))
  BY <1>3 DEF WatchdogSelect, ReaderSelect, SelectStale, rows
<1>4. CASE \E q \in Requests : NewCall(q) \/ RequestStep(q)
  <2>1. PICK q \in Requests : NewCall(q) \/ RequestStep(q)
    BY <1>4
  <2>2. CASE CompleteShell(q)
    BY <2>2 DEF CompleteShell, UpsertShell
  <2>3. CASE PublishAsset(q)
    BY <2>3 DEF PublishAsset, SetAsset, ReleaseStatus
  <2>4. CASE RetryAsset(q)
    BY <2>4 DEF RetryAsset, SetAsset
  <2>5. CASE UNCHANGED asset
    BY <2>5
  <2>6. QED
    BY <2>1, <2>2, <2>3, <2>4, <2>5
    DEF NewCall, CompleteRead, EditRead, PublishRead, CreatorRetryRead, AdminRetryRead,
        RequestStep, CompleteSession, CompleteJob, CompleteReread, EditWrite,
        PublishReadAsset, PublishJob, RetryJob, ScheduleProcessing, rows
<1>5. CASE TimePasses \/ Crash
  BY <1>5 DEF TimePasses, Crash, rows
<1>6. QED
  BY <1>1, <1>2, <1>3, <1>4, <1>5 DEF Next

PlayableInd == TypeInv /\ MissingIsBlank /\ PlayableInv

LEMMA NextMissingIsBlank ==
    ASSUME TypeInv, MissingIsBlank, Next
    PROVE  MissingIsBlank'
<1> SUFFICES ASSUME asset'.status = "none"
             PROVE  ~asset'.playback
  BY DEF MissingIsBlank
<1>1. asset.status = "none"
  BY AssetIsNeverRemoved
<1>2. ~ \E w \in Workers : FinalizeAsset(w) /\ asset' # asset
  BY <1>1 DEF FinalizeAsset
<1>3. QED
  BY <1>1, <1>2, PlaybackSteps DEF MissingIsBlank, TypeInv, TypeOK, AssetRow

\* A manifest appears only when source and package are both stored.
LEMMA NextPlayableIsStored ==
    ASSUME PlayableInd, Next
    PROVE  PlayableIsStored'
<1> SUFFICES ASSUME asset'.playback
             PROVE  stored' = {"source", "package"}
  BY DEF PlayableIsStored
<1> USE DEF PlayableInd, PlayableInv, TypeInv
<1>1. stored = {"source", "package"}
  <2>1. CASE asset.playback
    BY <2>1 DEF PlayableIsStored
  <2>2. CASE ~asset.playback
    <3>1. PICK w \in Workers : FinalizeAsset(w)
      BY <2>2, PlaybackSteps
    <3>2. task[w].pc = "finasset" /\ w \in Tasks
      BY <3>1 DEF FinalizeAsset, Tasks
    <3>3. "package" \in stored /\ "source" \in stored
      BY <3>2 DEF PackageBeforeFinalize, WorkIsOnAcceptedJobs
    <3>4. QED
      BY <3>3 DEF TypeOK
  <2>3. QED
    BY <2>1, <2>2
<1>2. stored \subseteq stored' /\ stored' \in SUBSET {"source", "package"}
  BY StoredGrows, NextTypeOK DEF TypeOK
<1>3. QED
  BY <1>1, <1>2

LEMMA NextReadyIsPlayable ==
    ASSUME PlayableInd, Next
    PROVE  ReadyIsPlayable'
<1> SUFFICES ASSUME job'.status \in Settled
             PROVE  asset'.playback
  BY NextPlayableIsStored DEF ReadyIsPlayable, PlayableIsStored
<1> USE DEF PlayableInd, PlayableInv, TypeInv
<1>1. asset.playback
  <2>1. CASE job.status \in Settled
    BY <2>1 DEF ReadyIsPlayable
  <2>2. CASE job.status \notin Settled
    <3>1. (\E w \in Workers : FinalizeJob(w)) \/ (\E q \in Requests : PublishJob(q))
      BY <2>2, StatusSteps DEF Settled
    <3>2. QED
      BY <3>1 DEF FinalizeJob, PublishJob, PackageBeforeFinalize
  <2>3. QED
    BY <2>1, <2>2
<1>2. QED
  BY <1>1, PlaybackSteps

\* Work is done on accepted jobs only.
LEMMA AcceptedStays ==
    ASSUME PlayableInd, Next
    PROVE  /\ job.status # "created" => job'.status # "created"
           /\ job'.status # "created" => "source" \in stored'
<1> USE DEF PlayableInd, PlayableInv, TypeInv
<1>1. job'.status # "created" => job.status # "created" \/ Busy
  BY StatusSteps DEF FinalizeJob, PublishJob, Busy, Tasks
<1>2. Busy => "source" \in stored
  BY DEF Busy, WorkIsOnAcceptedJobs
<1>3. job.status # "created" => "source" \in stored
  BY DEF WorkIsOnAcceptedJobs
<1>4. QED
  BY <1>1, <1>2, <1>3, StatusSteps, StoredGrows

LEMMA TasksWorkOnAcceptedJobs ==
    ASSUME PlayableInd, Next, NEW t \in Tasks, task'[t].pc # "idle"
    PROVE  job'.status # "created"
<1> USE DEF PlayableInd, PlayableInv, TypeInv
<1>1. CASE task[t].pc # "idle"
  BY <1>1, AcceptedStays DEF WorkIsOnAcceptedJobs
<1>2. CASE task[t].pc = "idle"
  <2>1. \/ t \in Workers /\ Poll(t)
        \/ \E q \in Requests : request[q].pc = "spawn"
        \/ job.status = "processing"
    <3>1. Moves(t)
      BY <1>2, TaskMoves
    <3>2. ~ FailStep(t) /\ ~ Crash /\ ~ WorkerStep(t) /\ ~ BeginFails(t) /\ ~ StageFails(t)
      BY <1>2
      DEF WorkerStep, BeginAttempt, ClaimJob, ReadClaimed, EnsureShell, MarkAsset,
          BeginFails, CheckLease, PublishFiles, DeleteVariants, InsertVariants,
          FinalizeAsset, FinalizeJob, StageFails, FailStep, FailRead, FailJob, FailAsset,
          Crash, Idle
    <3>3. QED
      BY <3>1, <3>2
      DEF Moves, ScheduleProcessing, WatchdogSelect, ReaderSelect, SelectStale
  <2>2. job.status # "created"
    BY <2>1 DEF Poll, WorkIsOnAcceptedJobs
  <2>3. QED
    BY <2>2, AcceptedStays
<1>3. QED
  BY <1>1, <1>2

LEMMA RequestsWorkOnAcceptedJobs ==
    ASSUME PlayableInd, Next, NEW q \in Requests
    PROVE  /\ request'[q].pc \notin {"idle", "edit"} => "source" \in stored'
           /\ request'[q].pc \notin {"idle", "edit", "c_session", "c_job"}
              => job'.status # "created"
<1> USE DEF PlayableInd, PlayableInv, TypeInv
<1>1. CASE request'[q] = request[q]
  BY <1>1, AcceptedStays, StoredGrows DEF WorkIsOnAcceptedJobs
<1>2. CASE NewCall(q)
  <2>1. CASE CompleteRead(q)
    BY <2>1 DEF CompleteRead, Admit, TypeOK
  <2>2. CASE EditRead(q)
    BY <2>2 DEF EditRead, Admit, TypeOK
  <2>3. CASE PublishRead(q) \/ CreatorRetryRead(q) \/ AdminRetryRead(q)
    <3>1. job.status # "created"
      BY <2>3 DEF PublishRead, CreatorRetryRead, AdminRetryRead, Settled
    <3>2. QED
      BY <3>1, AcceptedStays
  <2>4. QED
    BY <1>2, <2>1, <2>2, <2>3 DEF NewCall
<1>3. CASE RequestStep(q)
  <2>1. CASE EditWrite(q)
    BY <2>1 DEF EditWrite, Reply, IdleRequest, TypeOK
  <2>2. CASE CompleteSession(q)
    <3>1. "source" \in stored /\ request'[q].pc = "c_job"
      BY <2>2 DEF CompleteSession, Proceed, WorkIsOnAcceptedJobs, TypeOK, RequestState
    <3>2. QED
      BY <3>1, StoredGrows
  <2>3. CASE CompleteJob(q)
    BY <2>3, AcceptedStays DEF CompleteJob
  <2>4. CASE request[q].pc \notin {"idle", "edit", "c_session", "c_job"}
    <3>1. job.status # "created"
      BY <2>4 DEF WorkIsOnAcceptedJobs
    <3>2. QED
      BY <3>1, AcceptedStays
  <2>5. QED
    BY <1>3, <2>1, <2>2, <2>3, <2>4
    DEF RequestStep, CompleteReread, CompleteShell, PublishReadAsset, PublishJob,
        PublishAsset, RetryJob, RetryAsset, ScheduleProcessing
<1>4. CASE Crash
  BY <1>4 DEF Crash, IdleRequest
<1>5. QED
  BY <1>1, <1>2, <1>3, <1>4, RequestsMove DEF RequestMoves

LEMMA NextWorkIsOnAcceptedJobs ==
    ASSUME PlayableInd, Next
    PROVE  WorkIsOnAcceptedJobs'
BY AcceptedStays, TasksWorkOnAcceptedJobs, RequestsWorkOnAcceptedJobs DEF WorkIsOnAcceptedJobs

\* How far a worker or a publication has come.
LEMMA WorkersFinalizeAPackage ==
    ASSUME PlayableInd, Next, NEW w \in Workers
    PROVE  /\ task'[w].pc \in {"delete", "insert", "finasset"} => "package" \in stored'
           /\ task'[w].pc = "finjob" => asset'.playback
<1> USE DEF PlayableInd, PlayableInv, TypeInv
<1> w \in Tasks
  BY DEF Tasks
<1>1. CASE task'[w] = task[w]
  <2>1. task[w].pc = "finjob" => asset'.playback
    BY PlaybackSteps DEF PackageBeforeFinalize
  <2>2. QED
    BY <1>1, <2>1, StoredGrows DEF PackageBeforeFinalize
<1>2. CASE task'[w] # task[w]
  <2>1. CASE PublishFiles(w)
    BY <2>1 DEF PublishFiles, Goto, TypeOK, TaskState
  <2>2. CASE DeleteVariants(w) \/ InsertVariants(w)
    <3>1. "package" \in stored /\ task'[w].pc \in {"insert", "finasset"}
      BY <2>2 DEF DeleteVariants, InsertVariants, Goto, TypeOK, TaskState, PackageBeforeFinalize
    <3>2. QED
      BY <3>1, StoredGrows
  <2>3. CASE FinalizeAsset(w)
    BY <2>3, <1>2 DEF FinalizeAsset, Goto, Stop, Idle, TypeOK, TaskState
  <2>4. CASE Poll(w) \/ BeginAttempt(w) \/ CheckLease(w) \/ EnsureShell(w) \/ MarkAsset(w)
             \/ BeginFails(w) \/ FinalizeJob(w)
    BY <2>4 DEF Poll, BeginAttempt, CheckLease, EnsureShell, MarkAsset, BeginFails,
                FinalizeJob, Goto, Stop, Idle, TypeOK, TaskState
  <2>5. CASE ClaimJob(w) \/ ReadClaimed(w) \/ StageFails(w)
    BY <2>5 DEF ClaimJob, ReadClaimed, StageFails, Carry, Stop, Idle, TypeOK
  <2>6. CASE \E q \in Requests : ScheduleProcessing(q, w)
    BY <2>6 DEF ScheduleProcessing, Goto, TypeOK, TaskState
  <2>7. CASE FailStep(w)
    BY <2>7 DEF FailStep, FailRead, FailJob, FailAsset, Goto, Carry, Stop, Idle, TypeOK, TaskState
  <2>8. CASE WatchdogSelect(w) \/ ReaderSelect(w)
    BY <2>8 DEF WatchdogSelect, ReaderSelect, SelectStale, TypeOK
  <2>9. CASE Crash
    BY <2>9 DEF Crash, Idle
  <2>10. QED
    BY <1>2, TaskMoves, <2>1, <2>2, <2>3, <2>4, <2>5, <2>6, <2>7, <2>8, <2>9
    DEF Moves, WorkerStep
<1>3. QED
  BY <1>1, <1>2

LEMMA PublicationSawPlayback ==
    ASSUME PlayableInd, Next, NEW q \in Requests, request'[q].pc = "p_job"
    PROVE  asset'.playback
<1> USE DEF PlayableInd, PlayableInv, TypeInv
<1>1. asset.playback
  <2>1. CASE request'[q] = request[q]
    BY <2>1 DEF PackageBeforeFinalize
  <2>2. CASE NewCall(q)
    BY <2>2 DEF NewCall, CompleteRead, EditRead, PublishRead, CreatorRetryRead,
                AdminRetryRead, Admit, TypeOK
  <2>3. CASE PublishReadAsset(q)
    BY <2>3 DEF PublishReadAsset, Reply, IdleRequest, TypeOK
  <2>4. CASE RequestStep(q) /\ ~ PublishReadAsset(q)
    <3>1. \/ \E pc \in RequestPc \ {"p_job"} : Proceed(q, pc)
          \/ Reply(q)
          \/ \E seen : request' = [request EXCEPT ![q] = [pc |-> "c_shell", seen |-> seen]]
      BY <2>4
      DEF RequestStep, CompleteSession, CompleteJob, CompleteReread, CompleteShell, EditWrite,
          PublishJob, PublishAsset, RetryJob, RetryAsset, ScheduleProcessing, RequestPc
    <3>2. QED
      BY <3>1 DEF Proceed, Reply, IdleRequest, TypeOK, RequestState
  <2>5. CASE Crash
    BY <2>5 DEF Crash, IdleRequest
  <2>6. QED
    BY <2>1, <2>2, <2>3, <2>4, <2>5, RequestsMove DEF RequestMoves
<1>2. QED
  BY <1>1, PlaybackSteps

LEMMA NextPackageBeforeFinalize ==
    ASSUME PlayableInd, Next
    PROVE  PackageBeforeFinalize'
BY WorkersFinalizeAPackage, PublicationSawPlayback DEF PackageBeforeFinalize

\* The inductive form of PlayableInv.
THEOREM PlayableInvariant == Spec => []PlayableInd
<1>1. Init => PlayableInd
  <2>1. Init => TypeInv
    BY InitTypeOK DEF TypeInv, FailingHasAStatus, Init, Idle, FailPc
  <2>2. Init => MissingIsBlank /\ PlayableInv
    BY DEF Init, MissingIsBlank, PlayableInv, ReadyIsPlayable, PlayableIsStored, Settled,
           WorkIsOnAcceptedJobs, PackageBeforeFinalize, Idle, IdleRequest, Tasks
  <2>3. QED
    BY <2>1, <2>2 DEF PlayableInd
<1>2. PlayableInd /\ [Next]_vars => PlayableInd'
  <2>1. CASE PlayableInd /\ Next
    <3>1. TypeInv'
      BY <2>1, NextTypeOK, NextFailingHasAStatus DEF PlayableInd, TypeInv
    <3>2. PlayableInv'
      BY <2>1, NextReadyIsPlayable, NextPlayableIsStored, NextWorkIsOnAcceptedJobs,
         NextPackageBeforeFinalize DEF PlayableInv
    <3>3. QED
      BY <2>1, <3>1, <3>2, NextMissingIsBlank DEF PlayableInd
  <2>2. CASE PlayableInd /\ UNCHANGED vars
    BY <2>2 DEF vars, PlayableInd, TypeInv, TypeOK, FailingHasAStatus, MissingIsBlank,
       PlayableInv, ReadyIsPlayable, PlayableIsStored, WorkIsOnAcceptedJobs, PackageBeforeFinalize
  <2>3. QED
    BY <2>1, <2>2
<1>3. QED
  BY <1>1, <1>2, PTL DEF Spec

\* PlayableInv, whose first conjunct is ReadyIsPlayable: a job shows 'ready' or
\* 'published' only over a manifest whose source and package are both stored.
THEOREM PlayableAlways == Spec => []PlayableInv
<1>1. PlayableInd => PlayableInv
  BY DEF PlayableInd
<1>2. QED
  BY <1>1, PlayableInvariant, PTL

-----------------------------------------------------------------------------
(* Leases.                                                                 *)

\* A job that is being processed has a lease, and every worker and reader
\* that may come to fail it carries one.
LeasesInv ==
    /\ job.status = "processing" => job.stamp \in Stamps
    /\ \A t \in Workers \cup Readers :
          task[t].pc \notin {"idle", "spawned", "claim"} => task[t].lease \in Stamps

LeaseInd == TypeInv /\ LeasesInv /\ NoRequeuePastCeiling

\* How a step may change the job: it keeps its lease and its count, or takes
\* a lease nobody holds, or is not 'processing' any more.
LEMMA JobSteps ==
    ASSUME TypeInv, Next
    PROVE  \/ /\ job'.status = job.status /\ job'.stamp = job.stamp
              /\ job'.attempts = job.attempts
           \/ job'.status = "processing" /\ job'.stamp \in Fresh
           \/ job'.status # "processing"
<1> USE DEF TypeInv, TypeOK, JobRow
<1>1. CASE \E w \in Workers : Poll(w) \/ WorkerStep(w) \/ BeginFails(w) \/ StageFails(w)
  <2>1. PICK w \in Workers : Poll(w) \/ WorkerStep(w) \/ BeginFails(w) \/ StageFails(w)
    BY <1>1
  <2>2. CASE FinalizeJob(w)
    BY <2>2 DEF FinalizeJob, SetJob
  <2>3. CASE ClaimJob(w)
    BY <2>3 DEF ClaimJob
  <2>4. CASE UNCHANGED job
    BY <2>4
  <2>5. QED
    BY <2>1, <2>2, <2>3, <2>4
    DEF WorkerStep, Poll, BeginAttempt, ReadClaimed, EnsureShell, MarkAsset,
        BeginFails, CheckLease, PublishFiles, DeleteVariants, InsertVariants,
        FinalizeAsset, StageFails, rows
<1>2. CASE \E u \in Tasks : FailStep(u)
  <2>1. PICK u \in Tasks : FailStep(u)
    BY <1>2
  <2>2. CASE FailJob(u) /\ job' # job
    <3>1. SetJob(task[u].next) /\ task[u].next \in {"uploaded", "failed"}
      BY <2>2 DEF FailJob, FailingHasAStatus, FailPc
    <3>2. QED
      BY <3>1 DEF SetJob
  <2>3. CASE UNCHANGED job
    BY <2>3
  <2>4. QED
    BY <2>1, <2>2, <2>3 DEF FailStep, FailRead, FailAsset, rows
<1>3. CASE (\E d \in Watchdogs : WatchdogSelect(d)) \/ (\E r \in Readers : ReaderSelect(r))
  BY <1>3 DEF WatchdogSelect, ReaderSelect, SelectStale, rows
<1>4. CASE \E q \in Requests : NewCall(q) \/ RequestStep(q)
  <2>1. PICK q \in Requests : NewCall(q) \/ RequestStep(q)
    BY <1>4
  <2>2. CASE CompleteJob(q)
    BY <2>2 DEF CompleteJob
  <2>3. CASE EditWrite(q)
    <3>1. CASE job.status = "processing"
      <4>1. PICK now \in Fresh : job' = [job EXCEPT !.stamp = now, !.stale = FALSE]
        BY <2>3, <3>1 DEF EditWrite
      <4>2. QED
        BY <3>1, <4>1
    <3>2. CASE job.status # "processing"
      BY <2>3, <3>2 DEF EditWrite, SetJob
    <3>3. QED
      BY <3>1, <3>2
  <2>4. CASE PublishJob(q)
    BY <2>4 DEF PublishJob, SetJob
  <2>5. CASE RetryJob(q)
    BY <2>5 DEF RetryJob, SetJob
  <2>6. CASE UNCHANGED job
    BY <2>6
  <2>7. QED
    BY <2>1, <2>2, <2>3, <2>4, <2>5, <2>6
    DEF NewCall, CompleteRead, EditRead, PublishRead, CreatorRetryRead, AdminRetryRead,
        RequestStep, CompleteSession, CompleteReread, CompleteShell,
        PublishReadAsset, PublishAsset, RetryAsset, ScheduleProcessing, rows
<1>5. CASE TimePasses \/ Crash
  BY <1>5 DEF TimePasses, Crash, rows
<1>6. QED
  BY <1>1, <1>2, <1>3, <1>4, <1>5 DEF Next

\* A lease is taken once, at the claim or the selection, and kept to the end.
LEMMA LeaseSteps ==
    ASSUME TypeOK, Next, NEW t \in Tasks
    PROVE  \/ task'[t].lease = task[t].lease
              /\ (task[t].pc \in {"idle", "spawned", "claim"}
                  => task'[t].pc \in {"idle", "spawned", "claim"})
           \/ task'[t] = Idle
           \/ t \in Workers /\ task'[t].lease \in Fresh /\ task'[t].pc = "reread"
           \/ t \in Watchdogs /\ WatchdogSelect(t)
           \/ t \in Readers /\ job.status = "processing" /\ task'[t].lease = job.stamp
<1> USE DEF TypeOK, TaskState
<1>1. CASE task'[t] = task[t]
  BY <1>1
<1>2. CASE t \in Workers /\ ClaimJob(t)
  BY <1>2 DEF ClaimJob, Stop
<1>3. CASE Poll(t) \/ BeginAttempt(t) \/ CheckLease(t) \/ EnsureShell(t) \/ MarkAsset(t)
           \/ BeginFails(t) \/ FinalizeJob(t) \/ PublishFiles(t) \/ DeleteVariants(t)
           \/ InsertVariants(t) \/ FinalizeAsset(t)
  BY <1>3
  DEF Poll, BeginAttempt, CheckLease, EnsureShell, MarkAsset, BeginFails, FinalizeJob,
      PublishFiles, DeleteVariants, InsertVariants, FinalizeAsset, Goto, Stop
<1>4. CASE ReadClaimed(t) \/ StageFails(t)
  BY <1>4 DEF ReadClaimed, StageFails, Carry
<1>5. CASE \E q \in Requests : ScheduleProcessing(q, t)
  BY <1>5 DEF ScheduleProcessing, Goto
<1>6. CASE FailStep(t)
  BY <1>6 DEF FailStep, FailRead, FailJob, FailAsset, Goto, Carry, Stop
<1>7. CASE t \in Readers /\ ReaderSelect(t)
  BY <1>7 DEF ReaderSelect, SelectStale
<1>8. CASE Crash
  BY <1>8 DEF Crash
<1>9. QED
  BY <1>1, <1>2, <1>3, <1>4, <1>5, <1>6, <1>7, <1>8, TaskMoves DEF Moves, WorkerStep

LEMMA NextLeasesInv ==
    ASSUME TypeInv, LeasesInv, Next
    PROVE  LeasesInv'
<1>1. job'.status = "processing" => job'.stamp \in Stamps
  BY JobSteps, FreshIsUnused DEF LeasesInv
<1>2. ASSUME NEW t \in Workers \cup Readers, task'[t].pc \notin {"idle", "spawned", "claim"}
      PROVE  task'[t].lease \in Stamps
  BY <1>2, LeaseSteps, FreshIsUnused, RolesAssumption DEF LeasesInv, Tasks, TypeInv, Idle
<1>3. QED
  BY <1>1, <1>2 DEF LeasesInv

LEMMA NextNoRequeuePastCeiling ==
    ASSUME LeaseInd, Next
    PROVE  NoRequeuePastCeiling'
<1> SUFFICES ASSUME NEW t \in Tasks, LeaseActive(t)',
                    task'[t].pc = "failjob", task'[t].next = "uploaded"
             PROVE  job'.attempts < MaxAttempts
  BY DEF NoRequeuePastCeiling
<1> USE DEF LeaseInd, TypeInv
<1>1. CASE task'[t] = task[t]
  <2>1. job'.stamp \notin Fresh
    BY <1>1, FreshIsUnused DEF LeaseActive
  <2>2. LeaseActive(t) /\ job'.attempts = job.attempts
    BY <1>1, <2>1, JobSteps DEF LeaseActive
  <2>3. QED
    BY <1>1, <2>2 DEF NoRequeuePastCeiling
<1>2. CASE FailRead(t)
  <2>1. UNCHANGED job /\ Carry(t, "failjob", NextStatus(t))
    BY <1>2 DEF FailRead, rows, Stop, Idle, TypeOK
  <2>2. NextStatus(t) = "uploaded"
    BY <2>1 DEF Carry, TypeOK
  <2>3. QED
    BY <2>1, <2>2 DEF NextStatus
<1>3. CASE task'[t] # task[t] /\ ~ FailRead(t)
  <2>1. task'[t].pc # "failjob"
    <3>1. CASE t \in Workers /\ (Poll(t) \/ WorkerStep(t) \/ BeginFails(t))
      BY <3>1, WorkerNeverFailPc DEF FailPc
    <3>2. CASE t \in Workers /\ StageFails(t)
      BY <3>2 DEF StageFails, Carry, TypeOK
    <3>3. CASE \E q \in Requests : ScheduleProcessing(q, t)
      BY <3>3 DEF ScheduleProcessing, Goto, TypeOK, TaskState
    <3>4. CASE FailJob(t) \/ FailAsset(t)
      BY <3>4 DEF FailJob, FailAsset, Goto, Stop, Idle, TypeOK, TaskState
    <3>5. CASE WatchdogSelect(t) \/ ReaderSelect(t)
      BY <3>5 DEF WatchdogSelect, ReaderSelect, SelectStale, TypeOK
    <3>6. CASE Crash
      BY <3>6 DEF Crash, Idle
    <3>7. QED
      BY <1>3, TaskMoves, <3>1, <3>2, <3>3, <3>4, <3>5, <3>6 DEF Moves, FailStep
  <2>2. QED
    BY <2>1
<1>4. QED
  BY <1>1, <1>2, <1>3

\* The inductive invariant of the leases.
THEOREM LeasesInvariant == Spec => []LeaseInd
<1>1. Init => LeaseInd
  BY InitTypeOK
  DEF LeaseInd, TypeInv, FailingHasAStatus, LeasesInv, NoRequeuePastCeiling, Init, Idle, FailPc, Tasks
<1>2. LeaseInd /\ [Next]_vars => LeaseInd'
  <2>1. CASE LeaseInd /\ Next
    BY <2>1, NextTypeOK, NextFailingHasAStatus, NextLeasesInv, NextNoRequeuePastCeiling
    DEF LeaseInd, TypeInv
  <2>2. CASE LeaseInd /\ UNCHANGED vars
    BY <2>2, StutterTypeOK DEF vars, LeaseInd, LeasesInv, NoRequeuePastCeiling, LeaseActive
  <2>3. QED
    BY <2>1, <2>2
<1>3. QED
  BY <1>1, <1>2, PTL DEF Spec

\* A task that still holds the lease never sends a job back for more attempts
\* than the ceiling allows: NoRequeuePastCeiling, for every ceiling.
THEOREM CeilingHolds == Spec => []NoRequeuePastCeiling
<1>1. LeaseInd => NoRequeuePastCeiling
  BY DEF LeaseInd
<1>2. QED
  BY <1>1, LeasesInvariant, PTL

-----------------------------------------------------------------------------
(* What a step may never do.                                               *)

LEMMA OnlyAClaimStartsAnAttempt ==
    ASSUME TypeOK, Next, NEW w \in Workers, task[w].pc = "claim", task'[w].pc = "reread"
    PROVE  ClaimJob(w)
<1> USE DEF TypeOK, TaskState
<1> w \in Tasks
  BY DEF Tasks
<1>1. Moves(w)
  BY TaskMoves
<1>2. ~ BeginFails(w) /\ ~ StageFails(w) /\ ~ FailStep(w) /\ ~ Poll(w)
  BY DEF BeginFails, StageFails, FailStep, FailRead, FailJob, FailAsset, Poll
<1>3. ~ Crash /\ ~ WatchdogSelect(w) /\ ~ ReaderSelect(w)
  BY DEF Crash, Idle, WatchdogSelect, ReaderSelect, SelectStale
<1>4. ~ \E q \in Requests : ScheduleProcessing(q, w)
  BY DEF ScheduleProcessing
<1>5. WorkerStep(w) => ClaimJob(w)
  BY DEF WorkerStep, BeginAttempt, ReadClaimed, EnsureShell, MarkAsset, CheckLease,
         PublishFiles, DeleteVariants, InsertVariants, FinalizeAsset, FinalizeJob
<1>6. QED
  BY <1>1, <1>2, <1>3, <1>4, <1>5 DEF Moves

\* Of any number of tasks spawned for a job, one at a time starts an attempt,
\* on a job no worker holds: ClaimIsExclusive.
THEOREM ClaimsAreExclusive == Spec => ClaimIsExclusive
<1> DEFINE Exclusive ==
        \A w \in Workers : task[w].pc = "claim" /\ task'[w].pc = "reread"
           => /\ job'.attempts = job.attempts + 1
              /\ \A v \in Workers : ~ LeaseActive(v)
<1>1. TypeInv /\ [Next]_vars => [Exclusive]_vars
  <2> SUFFICES ASSUME TypeInv, Next,
                      NEW w \in Workers, task[w].pc = "claim", task'[w].pc = "reread"
               PROVE  /\ job'.attempts = job.attempts + 1
                      /\ \A v \in Workers : ~ LeaseActive(v)
    OBVIOUS
  <2>1. ClaimJob(w)
    BY OnlyAClaimStartsAnAttempt DEF TypeInv
  <2>2. job.status = "uploaded"
    BY <2>1 DEF ClaimJob, Stop, Idle, TypeInv, TypeOK, Tasks
  <2>3. QED
    BY <2>1, <2>2 DEF ClaimJob, LeaseActive
<1>2. QED
  BY <1>1, TypeInvariant, PTL DEF ClaimIsExclusive, Spec

\* A finished job is taken back by a re-completed ingest, a retry or the
\* watchdog's unguarded write only: FinishedIsKept.
THEOREM FinishedStays == Spec => FinishedIsKept
<1> DEFINE Kept ==
        job.status \in Settled /\ job'.status \notin Settled
        => \/ \E q \in Requests : CompleteJob(q) \/ RetryJob(q)
           \/ \E d \in Watchdogs : FailJob(d)
<1>1. LeaseInd /\ [Next]_vars => [Kept]_vars
  <2> SUFFICES ASSUME LeaseInd, Next, job.status \in Settled, job'.status \notin Settled
               PROVE  \/ \E q \in Requests : CompleteJob(q) \/ RetryJob(q)
                      \/ \E d \in Watchdogs : FailJob(d)
    OBVIOUS
  <2> USE DEF LeaseInd, TypeInv, TypeOK, JobRow
  <2>1. ASSUME NEW w \in Workers, Poll(w) \/ WorkerStep(w) \/ BeginFails(w) \/ StageFails(w)
        PROVE  FALSE
    <3>1. ~ FinalizeJob(w)
      BY DEF FinalizeJob, SetJob, LeaseActive, Settled
    <3>2. ~ ClaimJob(w)
      BY DEF ClaimJob, Settled
    <3>3. job' # job
      OBVIOUS
    <3>4. QED
      BY <2>1, <3>1, <3>2, <3>3
      DEF WorkerStep, Poll, BeginAttempt, ReadClaimed, EnsureShell, MarkAsset,
          BeginFails, CheckLease, PublishFiles, DeleteVariants, InsertVariants,
          FinalizeAsset, StageFails, rows
  <2>2. ASSUME NEW t \in Tasks, FailStep(t)
        PROVE  t \in Watchdogs /\ FailJob(t)
    <3>1. FailJob(t)
      BY <2>2 DEF FailStep, FailRead, FailAsset, rows
    <3>2. task[t].lease = NoStamp
      BY <3>1 DEF FailJob, LeaseActive, Settled
    <3>3. t \notin Workers \cup Readers
      BY <3>1, <3>2, StampsAssumption DEF FailJob, LeasesInv
    <3>4. QED
      BY <3>1, <3>3 DEF Tasks
  <2>3. ASSUME NEW q \in Requests, NewCall(q) \/ RequestStep(q)
        PROVE  CompleteJob(q) \/ RetryJob(q)
    <3>1. ~ PublishJob(q)
      BY DEF PublishJob, SetJob, Settled
    <3>2. ~ EditWrite(q)
      BY DEF EditWrite, SetJob, Settled
    <3>3. job' # job
      OBVIOUS
    <3>4. QED
      BY <2>3, <3>1, <3>2, <3>3
      DEF NewCall, CompleteRead, EditRead, PublishRead, CreatorRetryRead, AdminRetryRead,
          RequestStep, CompleteSession, CompleteReread, CompleteShell,
          PublishReadAsset, PublishAsset, RetryAsset, ScheduleProcessing, rows
  <2>4. ~ (\E d \in Watchdogs : WatchdogSelect(d)) /\ ~ (\E r \in Readers : ReaderSelect(r))
    BY DEF WatchdogSelect, ReaderSelect, SelectStale, Settled
  <2>5. ~ TimePasses /\ ~ Crash
    BY DEF TimePasses, Crash, Settled, rows
  <2>6. QED
    BY <2>1, <2>2, <2>3, <2>4, <2>5 DEF Next
<1>2. QED
  BY <1>1, LeasesInvariant, PTL DEF FinishedIsKept, Spec

-----------------------------------------------------------------------------
(* The pipeline implements the contract.                                   *)

RefineInd == PlayableInd /\ LeaseInd

Seen == <<job.status, job.attempts, asset.playback>>

LEMMA WorkerImplements ==
    ASSUME RefineInd, NEW w \in Workers,
           Poll(w) \/ WorkerStep(w) \/ BeginFails(w) \/ StageFails(w)
    PROVE  Contract!Next \/ UNCHANGED Seen
<1> USE DEF RefineInd, PlayableInd, TypeInv, TypeOK, JobRow, AssetRow, Seen
<1> w \in Tasks
  BY DEF Tasks
<1>1. CASE ClaimJob(w)
  <2>1. CASE job' = job
    BY <1>1, <2>1 DEF ClaimJob
  <2>2. CASE job' # job
    <3>1. Contract!Claim
      BY <1>1, <2>2 DEF ClaimJob, Contract!Claim
    <3>2. QED
      BY <3>1 DEF Contract!Next
  <2>3. QED
    BY <2>1, <2>2
<1>2. CASE EnsureShell(w)
  BY <1>2, UpsertKeepsPlayback DEF EnsureShell
<1>3. CASE MarkAsset(w)
  BY <1>3 DEF MarkAsset
<1>4. CASE FinalizeAsset(w)
  <2>1. CASE asset' = asset
    BY <1>4, <2>1 DEF FinalizeAsset
  <2>2. CASE asset' # asset
    <3>1. job.status # "created"
      BY <1>4 DEF FinalizeAsset, PlayableInv, WorkIsOnAcceptedJobs
    <3>2. Contract!Package
      BY <1>4, <2>2, <3>1 DEF FinalizeAsset, Contract!Package
    <3>3. QED
      BY <3>2 DEF Contract!Next
  <2>3. QED
    BY <2>1, <2>2
<1>5. CASE FinalizeJob(w)
  <2>1. CASE job' = job
    BY <1>5, <2>1 DEF FinalizeJob
  <2>2. CASE job' # job
    <3>1. asset.playback /\ job.status = "processing" /\ SetJob("ready")
      BY <1>5, <2>2 DEF FinalizeJob, PlayableInv, PackageBeforeFinalize, LeaseActive
    <3>2. Contract!Finish
      BY <1>5, <3>1 DEF FinalizeJob, SetJob, Contract!Finish
    <3>3. QED
      BY <3>2 DEF Contract!Next
  <2>3. QED
    BY <2>1, <2>2
<1>6. CASE UNCHANGED <<job, asset>>
  BY <1>6
<1>7. QED
  BY <1>1, <1>2, <1>3, <1>4, <1>5, <1>6
  DEF WorkerStep, Poll, BeginAttempt, ReadClaimed, BeginFails, CheckLease,
      PublishFiles, DeleteVariants, InsertVariants, StageFails, rows

LEMMA FailImplements ==
    ASSUME RefineInd, NEW t \in Tasks, FailStep(t)
    PROVE  Contract!Next \/ UNCHANGED Seen
<1> USE DEF RefineInd, PlayableInd, TypeInv, TypeOK, JobRow, AssetRow, Seen
<1>1. CASE FailJob(t) /\ job' # job
  <2>1. SetJob(task[t].next) /\ task[t].next \in {"uploaded", "failed"}
    BY <1>1 DEF FailJob, FailingHasAStatus, FailPc
  <2>2. job.status # "created"
    BY <1>1 DEF FailJob, PlayableInv, WorkIsOnAcceptedJobs
  <2>3. Contract!SendBack
    BY <1>1, <2>1, <2>2 DEF FailJob, SetJob, Contract!SendBack
  <2>4. QED
    BY <2>3 DEF Contract!Next
<1>2. CASE FailAsset(t)
  BY <1>2 DEF FailAsset, SetAsset
<1>3. CASE UNCHANGED <<job, asset>>
  BY <1>3
<1>4. QED
  BY <1>1, <1>2, <1>3 DEF FailStep, FailRead, FailJob, rows

LEMMA RequestImplements ==
    ASSUME RefineInd, NEW q \in Requests, NewCall(q) \/ RequestStep(q)
    PROVE  Contract!Next \/ UNCHANGED Seen
<1> USE DEF RefineInd, PlayableInd, TypeInv, TypeOK, JobRow, AssetRow, Seen
<1>1. CASE CompleteJob(q)
  BY <1>1 DEF CompleteJob, Contract!Next, Contract!Accept
<1>2. CASE CompleteShell(q)
  BY <1>2, UpsertKeepsPlayback DEF CompleteShell
<1>3. CASE EditWrite(q)
  <2>1. job'.status = job.status /\ job'.attempts = job.attempts
    BY <1>3 DEF EditWrite, SetJob
  <2>2. QED
    BY <1>3, <2>1 DEF EditWrite
<1>4. CASE PublishJob(q)
  <2>1. asset.playback /\ job.status # "created"
    BY <1>4 DEF PublishJob, PlayableInv, PackageBeforeFinalize, WorkIsOnAcceptedJobs
  <2>2. Contract!Publish
    BY <1>4, <2>1 DEF PublishJob, SetJob, Contract!Publish
  <2>3. QED
    BY <2>2 DEF Contract!Next
<1>5. CASE RetryJob(q)
  <2>1. job.status # "created"
    BY <1>5 DEF RetryJob, PlayableInv, WorkIsOnAcceptedJobs
  <2>2. Contract!SendBack
    BY <1>5, <2>1 DEF RetryJob, SetJob, Contract!SendBack
  <2>3. QED
    BY <2>2 DEF Contract!Next
<1>6. CASE PublishAsset(q) \/ RetryAsset(q)
  BY <1>6 DEF PublishAsset, RetryAsset, SetAsset
<1>7. CASE UNCHANGED <<job, asset>>
  BY <1>7
<1>8. QED
  BY <1>1, <1>2, <1>3, <1>4, <1>5, <1>6, <1>7
  DEF NewCall, CompleteRead, EditRead, PublishRead, CreatorRetryRead, AdminRetryRead,
      RequestStep, CompleteSession, CompleteReread, PublishReadAsset, ScheduleProcessing, rows

LEMMA NextImplements ==
    ASSUME RefineInd, Next
    PROVE  Contract!Next \/ UNCHANGED Seen
<1>1. CASE \E w \in Workers : Poll(w) \/ WorkerStep(w) \/ BeginFails(w) \/ StageFails(w)
  BY <1>1, WorkerImplements
<1>2. CASE \E t \in Tasks : FailStep(t)
  BY <1>2, FailImplements
<1>3. CASE (\E d \in Watchdogs : WatchdogSelect(d)) \/ (\E r \in Readers : ReaderSelect(r))
  BY <1>3 DEF WatchdogSelect, ReaderSelect, SelectStale, rows, Seen
<1>4. CASE \E q \in Requests : NewCall(q) \/ RequestStep(q)
  BY <1>4, RequestImplements
<1>5. CASE TimePasses \/ Crash
  <2>1. job'.status = job.status /\ job'.attempts = job.attempts
    BY <1>5 DEF TimePasses, Crash, rows, RefineInd, PlayableInd, TypeInv, TypeOK, JobRow
  <2>2. QED
    BY <1>5, <2>1 DEF TimePasses, Crash, rows, Seen
<1>6. QED
  BY <1>1, <1>2, <1>3, <1>4, <1>5 DEF Next

\* Every behaviour of the pipeline, seen through the job's status, its count
\* of attempts and the asset's manifest, is one the contract allows.
THEOREM PipelineImplementsContract == Spec => ImplementsContract
<1>1. Init => Contract!Init
  BY DEF Init, Contract!Init
<1>2. RefineInd /\ [Next]_vars => [Contract!Next]_(Contract!vars)
  BY NextImplements DEF vars, Seen, Contract!vars
<1>3. Spec => []RefineInd
  BY PlayableInvariant, LeasesInvariant, PTL DEF RefineInd
<1>4. QED
  BY <1>1, <1>2, <1>3, PTL DEF Spec, ImplementsContract, Contract!Spec
=============================================================================
