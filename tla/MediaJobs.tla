------------------------------ MODULE MediaJobs ------------------------------
(***************************************************************************)
(* The processing life of one upload job of the Vanta backend: the row of  *)
(* upload_jobs, the row of media_assets that mirrors it, and everything    *)
(* that writes them.  Jobs are independent (no statement names two), so    *)
(* one job is enough.                                                      *)
(*                                                                         *)
(*   Workers    tasks spawned by schedule_media_processing                 *)
(*   Watchdogs  the background loop's reconcile_stale_media_processing_jobs*)
(*   Readers    reads that reconcile first, and the operator's             *)
(*              reconcile_single_media_job: they pass the lease they read  *)
(*   Requests   API calls: complete, edit, publish, retry                  *)
(*                                                                         *)
(* Nothing runs in a database transaction: every SELECT and every UPDATE   *)
(* is a step of its own and anything may happen between two of them.       *)
(***************************************************************************)
EXTENDS Integers, FiniteSets

CONSTANTS
    Workers, Watchdogs, Readers, Requests,
    Stamps,        \* values of updated_at, a set of naturals
    NoStamp,       \* fail_media_job_for_lease called with no lease
    MaxAttempts,   \* MAX_MEDIA_PROCESSING_ATTEMPTS
    AttemptCap,    \* bound: no claim is made past this many attempts
    MaxCalls,      \* bound: API calls made in a behaviour
    MaxCrashes     \* bound: crashes of the process

Tasks == Workers \cup Watchdogs \cup Readers

ASSUME StampsAssumption == Stamps \subseteq Nat /\ NoStamp \notin Stamps
ASSUME AttemptsAssumption == MaxAttempts \in Nat \ {0} /\ AttemptCap \in Nat
ASSUME BoundsAssumption == MaxCalls \in Nat /\ MaxCrashes \in Nat
ASSUME RolesAssumption ==
    /\ Workers \cap Watchdogs = {}
    /\ Workers \cap Readers = {}
    /\ Watchdogs \cap Readers = {}

VARIABLES
    job,      \* the upload_jobs row; stale: updated_at is before the cutoff
    asset,    \* the media_assets row; playback: playback_relative_path is set
    variants, \* media_asset_variants rows under one label
    stored,   \* what is in object storage
    session,  \* upload_job_ingest_sessions.status
    task,     \* program counter, lease and pending status of every task
    request,  \* program counter and status read of every API call
    calls, crashes

rows == <<job, asset, variants, stored, session>>
vars == <<job, asset, variants, stored, session, task, request, calls, crashes>>

JobStatus == {"created", "uploaded", "processing", "ready", "failed", "published"}
ReleaseStatus == {"published", "scheduled", "draft"}
Settled == {"ready", "published"}

WorkerPc == {"idle", "spawned", "claim", "reread", "shell", "mark", "stages",
             "publish", "delete", "insert", "finasset", "finjob"}
FailPc == {"failread", "failjob", "failasset"}
RequestPc == {"idle", "c_session", "c_job", "c_reread", "c_shell", "spawn",
              "edit", "p_asset", "p_job", "p_release", "r_job", "r_asset"}

Idle == [pc |-> "idle", lease |-> NoStamp, next |-> "none"]
IdleRequest == [pc |-> "idle", seen |-> "none"]

(***************************************************************************)
(* updated_at is a nanosecond timestamp that the code only tests for       *)
(* equality, always together with status = 'processing'.  A claim takes a  *)
(* stamp nobody holds (the least one stands for the next clock reading);   *)
(* on a row that is not 'processing', and on an asset no attempt has       *)
(* marked, the stamp equals no lease and is NoStamp.                       *)
(***************************************************************************)
InUse == {job.stamp, asset.stamp} \cup {task[t].lease : t \in Tasks}
LeastOf(S) == {s \in S : \A r \in S : s <= r}
Fresh == LeastOf(Stamps \ InUse)

Goto(t, pc) == task' = [task EXCEPT ![t].pc = pc]
Carry(t, pc, next) ==
    task' = [task EXCEPT ![t] = [pc |-> pc, lease |-> task[t].lease, next |-> next]]
Stop(t) == task' = [task EXCEPT ![t] = Idle]

LeaseActive(t) == job.status = "processing" /\ job.stamp = task[t].lease

JobRow == [status : JobStatus, stamp : Stamps \cup {NoStamp}, stale : BOOLEAN, attempts : Nat]
AssetRow == [status : JobStatus \cup ReleaseStatus \cup {"none"},
             stamp : Stamps \cup {NoStamp}, playback : BOOLEAN]
TaskState == [pc : WorkerPc \cup FailPc, lease : Stamps \cup {NoStamp},
              next : JobStatus \cup {"none"}]
RequestState == [pc : RequestPc, seen : JobStatus \cup {"none"}]

TypeOK ==
    /\ job \in JobRow
    /\ asset \in AssetRow
    /\ variants \in Nat
    /\ stored \in SUBSET {"source", "package"}
    /\ session \in {"active", "completed"}
    /\ task \in [Tasks -> TaskState]
    /\ request \in [Requests -> RequestState]
    /\ calls \in Nat
    /\ crashes \in Nat

\* Every byte has been received and nothing has been completed yet.
Init ==
    /\ job = [status |-> "created", stamp |-> NoStamp, stale |-> FALSE, attempts |-> 0]
    /\ asset = [status |-> "none", stamp |-> NoStamp, playback |-> FALSE]
    /\ variants = 0
    /\ stored = {}
    /\ session = "active"
    /\ task = [t \in Tasks |-> Idle]
    /\ request = [q \in Requests |-> IdleRequest]
    /\ calls = 0
    /\ crashes = 0

-----------------------------------------------------------------------------
(* Statements on the two rows.                                             *)

SetJob(status) ==
    job' = [job EXCEPT !.status = status, !.stamp = NoStamp, !.stale = FALSE]

\* An UPDATE of a missing row changes nothing.
SetAsset(status) ==
    asset' = IF asset.status = "none" THEN asset
             ELSE [asset EXCEPT !.status = status, !.stamp = NoStamp]

\* INSERT with the caller's idea of the status; ON CONFLICT keeps the status
\* and the playback path but moves updated_at.
UpsertShell(seen) ==
    asset' = IF asset.status = "none"
             THEN [status |-> seen, stamp |-> NoStamp, playback |-> FALSE]
             ELSE [asset EXCEPT !.stamp = NoStamp]

-----------------------------------------------------------------------------
(* A worker: process_media_job.                                            *)

\* The background pass spawns a task for every job it finds 'uploaded'.
Poll(w) ==
    /\ task[w].pc = "idle"
    /\ job.status = "uploaded"
    /\ Goto(w, "spawned")
    /\ UNCHANGED <<rows, request, calls, crashes>>

BeginAttempt(w) ==
    /\ task[w].pc = "spawned"
    /\ IF job.status = "uploaded" THEN Goto(w, "claim") ELSE Stop(w)
    /\ UNCHANGED <<rows, request, calls, crashes>>

\* Defect: the claim's WHERE clause loses "status = 'uploaded'".
ClaimJobUnguarded(w) ==
    /\ task[w].pc = "claim"
    /\ job.attempts < AttemptCap
    /\ \E now \in Fresh :
          /\ job' = [status |-> "processing", stamp |-> now, stale |-> FALSE,
                     attempts |-> job.attempts + 1]
          /\ task' = [task EXCEPT ![w] = [pc |-> "reread", lease |-> now, next |-> "none"]]
    /\ UNCHANGED <<asset, variants, stored, session, request, calls, crashes>>

ClaimJob(w) ==
    /\ task[w].pc = "claim"
    /\ \/ /\ job.status = "uploaded"
          /\ job.attempts < AttemptCap
          /\ \E now \in Fresh :
                /\ job' = [status |-> "processing", stamp |-> now, stale |-> FALSE,
                           attempts |-> job.attempts + 1]
                /\ task' = [task EXCEPT ![w] =
                               [pc |-> "reread", lease |-> now, next |-> "none"]]
       \/ job.status # "uploaded" /\ Stop(w) /\ UNCHANGED job
    /\ UNCHANGED <<asset, variants, stored, session, request, calls, crashes>>

ReadClaimed(w) ==
    /\ task[w].pc = "reread"
    /\ Carry(w, "shell", job.status)
    /\ UNCHANGED <<rows, request, calls, crashes>>

EnsureShell(w) ==
    /\ task[w].pc = "shell"
    /\ UpsertShell(task[w].next)
    /\ Goto(w, "mark")
    /\ UNCHANGED <<job, variants, stored, session, request, calls, crashes>>

\* After the source file is back on disk; the WHERE clause has no lease.
MarkAsset(w) ==
    /\ task[w].pc = "mark"
    /\ asset' = [asset EXCEPT !.status = "processing", !.stamp = task[w].lease]
    /\ Goto(w, "stages")
    /\ UNCHANGED <<job, variants, stored, session, request, calls, crashes>>

\* An error before the attempt exists is reported with an empty lease, which
\* no row carries: fail_media_job_for_lease gives up at its first check.
BeginFails(w) ==
    /\ task[w].pc \in {"reread", "shell", "mark"}
    /\ Stop(w)
    /\ UNCHANGED <<rows, request, calls, crashes>>

\* Probe, integrity and derivatives done.
CheckLease(w) ==
    /\ task[w].pc = "stages"
    /\ IF LeaseActive(w) THEN Goto(w, "publish") ELSE Stop(w)
    /\ UNCHANGED <<rows, request, calls, crashes>>

PublishFiles(w) ==
    /\ task[w].pc = "publish"
    /\ stored' = stored \cup {"package"}
    /\ Goto(w, "delete")
    /\ UNCHANGED <<job, asset, variants, session, request, calls, crashes>>

DeleteVariants(w) ==
    /\ task[w].pc = "delete"
    /\ variants' = 0
    /\ Goto(w, "insert")
    /\ UNCHANGED <<job, asset, stored, session, request, calls, crashes>>

InsertVariants(w) ==
    /\ task[w].pc = "insert"
    /\ variants' = variants + 1
    /\ Goto(w, "finasset")
    /\ UNCHANGED <<job, asset, stored, session, request, calls, crashes>>

\* Defect: rows_affected of the asset's update is not looked at.
FinalizeAssetUnchecked(w) ==
    /\ task[w].pc = "finasset"
    /\ IF asset.status = "processing" /\ asset.stamp = task[w].lease
       THEN asset' = [status |-> "ready", stamp |-> NoStamp, playback |-> TRUE]
       ELSE UNCHANGED asset
    /\ Goto(w, "finjob")
    /\ UNCHANGED <<job, variants, stored, session, request, calls, crashes>>

FinalizeAsset(w) ==
    /\ task[w].pc = "finasset"
    /\ IF asset.status = "processing" /\ asset.stamp = task[w].lease
       THEN /\ asset' = [status |-> "ready", stamp |-> NoStamp, playback |-> TRUE]
            /\ Goto(w, "finjob")
       ELSE Stop(w) /\ UNCHANGED asset
    /\ UNCHANGED <<job, variants, stored, session, request, calls, crashes>>

\* A defect: no lease in the WHERE clause.
FinalizeJobUnguarded(w) ==
    /\ task[w].pc = "finjob"
    /\ SetJob("ready")
    /\ Stop(w)
    /\ UNCHANGED <<asset, variants, stored, session, request, calls, crashes>>

FinalizeJob(w) ==
    /\ task[w].pc = "finjob"
    /\ IF LeaseActive(w) THEN SetJob("ready") ELSE UNCHANGED job
    /\ Stop(w)
    /\ UNCHANGED <<asset, variants, stored, session, request, calls, crashes>>

\* Any stage may return an error, of a retryable class or not.
StageFails(w) ==
    /\ task[w].pc \in {"stages", "publish", "delete", "insert", "finasset", "finjob"}
    /\ \E wanted \in {"uploaded", "failed"} : Carry(w, "failread", wanted)
    /\ UNCHANGED <<rows, request, calls, crashes>>

-----------------------------------------------------------------------------
(* fail_media_job_for_lease, for a worker, a watchdog or a reader.  next   *)
(* is "uploaded" on entry when the error is retryable.                     *)

\* Defect: one attempt too many.
NextStatusOneMore(t) ==
    IF task[t].next = "uploaded" /\ job.attempts <= MaxAttempts
    THEN "uploaded" ELSE "failed"

NextStatus(t) ==
    IF task[t].next = "uploaded" /\ job.attempts < MaxAttempts
    THEN "uploaded" ELSE "failed"

\* Defect: the watchdog passes an empty lease instead of none.
FailReadNeedsLease(t) ==
    /\ task[t].pc = "failread"
    /\ IF LeaseActive(t) THEN Carry(t, "failjob", NextStatus(t)) ELSE Stop(t)
    /\ UNCHANGED <<rows, request, calls, crashes>>

FailRead(t) ==
    /\ task[t].pc = "failread"
    /\ IF task[t].lease = NoStamp \/ LeaseActive(t)
       THEN Carry(t, "failjob", NextStatus(t))
       ELSE Stop(t)
    /\ UNCHANGED <<rows, request, calls, crashes>>

\* Defect: the lease is compared when the row is read, not when it is written.
FailJobUnguarded(t) ==
    /\ task[t].pc = "failjob"
    /\ SetJob(task[t].next) /\ Goto(t, "failasset")
    /\ UNCHANGED <<asset, variants, stored, session, request, calls, crashes>>

FailJob(t) ==
    /\ task[t].pc = "failjob"
    /\ IF task[t].lease = NoStamp \/ LeaseActive(t)
       THEN SetJob(task[t].next) /\ Goto(t, "failasset")
       ELSE Stop(t) /\ UNCHANGED job
    /\ UNCHANGED <<asset, variants, stored, session, request, calls, crashes>>

FailAsset(t) ==
    /\ task[t].pc = "failasset"
    /\ IF \/ task[t].lease = NoStamp
          \/ asset.status = "processing" /\ asset.stamp = task[t].lease
       THEN SetAsset(task[t].next) ELSE UNCHANGED asset
    /\ Stop(t)
    /\ UNCHANGED <<job, variants, stored, session, request, calls, crashes>>

SelectStale(t, lease) ==
    /\ task[t].pc = "idle"
    /\ job.status = "processing" /\ job.stale
    /\ task' = [task EXCEPT ![t] =
                   [pc |-> "failread", lease |-> lease, next |-> "uploaded"]]
    /\ UNCHANGED <<rows, request, calls, crashes>>

\* The background loop keeps the id of the stale row, not its lease.
WatchdogSelect(d) == SelectStale(d, NoStamp)

ReaderSelect(r) == SelectStale(r, job.stamp)

-----------------------------------------------------------------------------
(* API calls.                                                              *)

Admit(q, pc, seen) ==
    /\ request[q].pc = "idle"
    /\ calls < MaxCalls
    /\ calls' = calls + 1
    /\ request' = [request EXCEPT ![q] = [pc |-> pc, seen |-> seen]]
    /\ UNCHANGED <<task, crashes>>

Proceed(q, pc) ==
    /\ request' = [request EXCEPT ![q].pc = pc]
    /\ UNCHANGED <<calls, crashes>>

Reply(q) ==
    /\ request' = [request EXCEPT ![q] = IdleRequest]
    /\ UNCHANGED <<calls, crashes>>

\* complete_upload_ingest compares byte counts, never the session's or the
\* job's status; then it stores the source.
CompleteRead(q) ==
    /\ Admit(q, "c_session", "none")
    /\ stored' = stored \cup {"source"}
    /\ UNCHANGED <<job, asset, variants, session>>

CompleteSession(q) ==
    /\ request[q].pc = "c_session"
    /\ session' = "completed"
    /\ Proceed(q, "c_job")
    /\ UNCHANGED <<job, asset, variants, stored, task>>

CompleteJob(q) ==
    /\ request[q].pc = "c_job"
    /\ job' = [status |-> "uploaded", stamp |-> NoStamp, stale |-> FALSE, attempts |-> 0]
    /\ Proceed(q, "c_reread")
    /\ UNCHANGED <<asset, variants, stored, session, task>>

CompleteReread(q) ==
    /\ request[q].pc = "c_reread"
    /\ request' = [request EXCEPT ![q] = [pc |-> "c_shell", seen |-> job.status]]
    /\ UNCHANGED <<rows, task, calls, crashes>>

CompleteShell(q) ==
    /\ request[q].pc = "c_shell"
    /\ UpsertShell(request[q].seen)
    /\ Proceed(q, "spawn")
    /\ UNCHANGED <<job, variants, stored, session, task>>

\* schedule_media_processing at the end of complete and of retry.
ScheduleProcessing(q, w) ==
    /\ request[q].pc = "spawn"
    /\ task[w].pc = "idle"
    /\ Goto(w, "spawned")
    /\ Reply(q)
    /\ UNCHANGED rows

EditRead(q) ==
    /\ job.status \notin {"processing", "published"}
    /\ Admit(q, "edit", "none")
    /\ UNCHANGED rows

EditWrite(q) ==
    /\ request[q].pc = "edit"
    /\ IF job.status = "processing"
       THEN \E now \in Fresh : job' = [job EXCEPT !.stamp = now, !.stale = FALSE]
       ELSE SetJob(job.status)
    /\ Reply(q)
    /\ UNCHANGED <<asset, variants, stored, session, task>>

PublishRead(q) ==
    /\ job.status \in Settled
    /\ Admit(q, "p_asset", "none")
    /\ UNCHANGED rows

PublishReadAsset(q) ==
    /\ request[q].pc = "p_asset"
    /\ IF asset.playback THEN Proceed(q, "p_job") ELSE Reply(q)
    /\ UNCHANGED <<rows, task>>

PublishJob(q) ==
    /\ request[q].pc = "p_job"
    /\ SetJob("published")
    /\ Proceed(q, "p_release")
    /\ UNCHANGED <<asset, variants, stored, session, task>>

PublishAsset(q) ==
    /\ request[q].pc = "p_release"
    /\ \E status \in ReleaseStatus : SetAsset(status)
    /\ Reply(q)
    /\ UNCHANGED <<job, variants, stored, session, task>>

\* The creator's retry, and the operator's, which also takes a stale job.
CreatorRetryRead(q) ==
    /\ job.status = "failed" /\ session = "completed"
    /\ Admit(q, "r_job", "none")
    /\ UNCHANGED rows

AdminRetryRead(q) ==
    /\ job.status = "failed" \/ (job.status = "processing" /\ job.stale)
    /\ Admit(q, "r_job", "none")
    /\ UNCHANGED rows

RetryJob(q) ==
    /\ request[q].pc = "r_job"
    /\ SetJob("uploaded")
    /\ Proceed(q, "r_asset")
    /\ UNCHANGED <<asset, variants, stored, session, task>>

RetryAsset(q) ==
    /\ request[q].pc = "r_asset"
    /\ SetAsset("uploaded")
    /\ Proceed(q, "spawn")
    /\ UNCHANGED <<job, variants, stored, session, task>>

-----------------------------------------------------------------------------
(* The environment.                                                        *)

\* Five minutes pass since updated_at.
TimePasses ==
    /\ job.status = "processing" /\ ~job.stale
    /\ job' = [job EXCEPT !.stale = TRUE]
    /\ UNCHANGED <<asset, variants, stored, session, task, request, calls, crashes>>

\* The process dies: tasks and calls are lost, rows and objects stay.
Crash ==
    /\ crashes < MaxCrashes
    /\ crashes' = crashes + 1
    /\ task' = [t \in Tasks |-> Idle]
    /\ request' = [q \in Requests |-> IdleRequest]
    /\ UNCHANGED <<rows, calls>>

WorkerStep(w) ==
    \/ BeginAttempt(w) \/ ClaimJob(w) \/ ReadClaimed(w) \/ EnsureShell(w)
    \/ MarkAsset(w) \/ CheckLease(w) \/ PublishFiles(w) \/ DeleteVariants(w)
    \/ InsertVariants(w) \/ FinalizeAsset(w) \/ FinalizeJob(w)

FailStep(t) == FailRead(t) \/ FailJob(t) \/ FailAsset(t)

RequestStep(q) ==
    \/ CompleteSession(q) \/ CompleteJob(q) \/ CompleteReread(q) \/ CompleteShell(q)
    \/ EditWrite(q) \/ PublishReadAsset(q) \/ PublishJob(q) \/ PublishAsset(q)
    \/ RetryJob(q) \/ RetryAsset(q) \/ \E w \in Workers : ScheduleProcessing(q, w)

NewCall(q) == CompleteRead(q) \/ EditRead(q) \/ PublishRead(q)
              \/ CreatorRetryRead(q) \/ AdminRetryRead(q)

Next ==
    \/ \E w \in Workers : Poll(w) \/ WorkerStep(w) \/ BeginFails(w) \/ StageFails(w)
    \/ \E t \in Tasks : FailStep(t)
    \/ \E d \in Watchdogs : WatchdogSelect(d)
    \/ \E r \in Readers : ReaderSelect(r)
    \/ \E q \in Requests : NewCall(q) \/ RequestStep(q)
    \/ TimePasses
    \/ Crash

Spec == Init /\ [][Next]_vars

(***************************************************************************)
(* The SQLite background loop polls and runs the watchdog every pass, a    *)
(* spawned task runs to its end unless the process dies, a call that was   *)
(* admitted is served, and five minutes always pass.                       *)
(***************************************************************************)
Fairness ==
    /\ \A w \in Workers : WF_vars(Poll(w)) /\ WF_vars(WorkerStep(w))
    /\ \A t \in Tasks : WF_vars(FailStep(t))
    /\ \A d \in Watchdogs : WF_vars(WatchdogSelect(d))
    /\ \A q \in Requests : WF_vars(RequestStep(q))
    /\ WF_vars(TimePasses)

FairSpec == Spec /\ Fairness

-----------------------------------------------------------------------------
(* Properties.                                                             *)

\* A job shows 'ready' or 'published' only when its asset has a playback
\* manifest and source and package are in object storage: the README's
\* "written to Cloudflare R2 before the database advertises their CDN paths
\* as ready", through every interleaving of tasks that lost their lease.
ReadyIsPlayable ==
    job.status \in Settled => asset.playback /\ stored = {"source", "package"}

\* What makes ReadyIsPlayable inductive: how far a task or a call has come
\* bounds what storage and the asset hold, and playback is never unset.
PlayableIsStored == asset.playback => stored = {"source", "package"}

WorkIsOnAcceptedJobs ==
    /\ job.status # "created" => "source" \in stored
    /\ \A t \in Tasks : task[t].pc # "idle" => job.status # "created"
    /\ \A q \in Requests :
          /\ request[q].pc \notin {"idle", "edit"} => "source" \in stored
          /\ request[q].pc \notin {"idle", "edit", "c_session", "c_job"}
             => job.status # "created"

PackageBeforeFinalize ==
    /\ \A w \in Workers :
          /\ task[w].pc \in {"delete", "insert", "finasset"} => "package" \in stored
          /\ task[w].pc = "finjob" => asset.playback
    /\ \A q \in Requests : request[q].pc = "p_job" => asset.playback

PlayableInv ==
    ReadyIsPlayable /\ PlayableIsStored /\ WorkIsOnAcceptedJobs /\ PackageBeforeFinalize

\* The failure handler reads the attempt count, then writes; a caller whose
\* lease is still the row's never requeues past the ceiling, because nothing
\* that changes the count leaves the lease in place.
NoRequeuePastCeiling ==
    \A t \in Tasks :
        task[t].pc = "failjob" /\ task[t].next = "uploaded" /\ LeaseActive(t)
        => job.attempts < MaxAttempts

\* A finished job goes back only by re-completing the ingest, by a retry that
\* was admitted earlier, or by a watchdog's write, which has no lease: no
\* worker and no reconciling read ever takes it away.
FinishedIsKept ==
    [][job.status \in Settled /\ job'.status \notin Settled
       => \/ \E q \in Requests : CompleteJob(q) \/ RetryJob(q)
          \/ \E d \in Watchdogs : FailJob(d)]_vars

\* Two tasks spawned for one job never both run an attempt on it: an attempt
\* starts only when no other worker holds the job's lease, and is counted.
ClaimIsExclusive ==
    [][\A w \in Workers : task[w].pc = "claim" /\ task'[w].pc = "reread"
       => /\ job'.attempts = job.attempts + 1
          /\ \A v \in Workers : ~ LeaseActive(v)]_vars

\* The pipeline implements the contract of an upload job.
Contract == INSTANCE UploadJobContract
            WITH status <- job.status, attempts <- job.attempts,
                 playable <- asset.playback
ImplementsContract == Contract!Spec

\* An upload whose bytes are in does not hang: it becomes ready, failed or
\* published, whatever fails, crashes or times out on the way.
UploadedSettles == job.status = "uploaded" ~> job.status \in Settled \cup {"failed"}
=============================================================================
