---------------------------- MODULE UploadIngest ----------------------------
(***************************************************************************)
(* The resumable upload of one job's source (media/jobs/ingest.rs): the    *)
(* row of upload_job_ingest_sessions, bytes_received of the job, the file  *)
(* on the server's disk and the object it is published as.                 *)
(*                                                                         *)
(* The bytes of the file are numbered from 1.  The client sends the bytes  *)
(* of one file, so a position either holds its byte or is a hole.  Calls   *)
(* are retried and duplicated: any call may be made at any time, with any  *)
(* token that was issued and from any offset, and each SELECT, UPDATE and  *)
(* file operation is a step of its own.                                    *)
(***************************************************************************)
EXTENDS Integers, FiniteSets

CONSTANTS
  Calls,        \* calls that may be in progress
  Expected,     \* bytes_expected of the job
  MaxTokens,    \* bound: tokens ever issued
  MaxFaults     \* bound: calls cut short

ASSUME UploadAssumption ==
  Expected \in Nat \ {0} /\ MaxTokens \in Nat /\ MaxFaults \in Nat

Bytes == 1 .. Expected
Counts == 0 .. Expected

VARIABLES
  session,   \* the ingest session's row
  progress,  \* upload_jobs.bytes_received
  file,      \* the positions of the file that hold their byte
  object,    \* the same of the object it was last published as
  accepted,  \* complete_upload_ingest has set the job to 'uploaded'
  digest,    \* what upload_jobs.checksum_sha256 is the digest of
  issued,    \* tokens issued
  call,      \* the calls in progress
  torn,      \* history: a file that held bytes was created anew
  faults

vars == <<session, progress, file, object, accepted, digest, issued, call, torn, faults>>

-----------------------------------------------------------------------------
SessionRow == [status : {"none", "active", "completed"}, bytes : Counts, token : Nat]
Steps == {"idle", "create", "insert", "rotate", "token", "write", "save", "savejob",
          "c_token", "digest", "publish", "c_session", "c_job"}
CallState == [pc : Steps, token : Nat, from : Counts, next : Counts, read : SUBSET Bytes]

Idle == [pc |-> "idle", token |-> 0, from |-> 0, next |-> 0, read |-> {}]

Turn(c, pc) ==
  call' = [call EXCEPT ![c] = [pc |-> pc, token |-> @.token, from |-> @.from,
                               next |-> @.next, read |-> @.read]]
Done(c) == call' = [call EXCEPT ![c] = Idle]
Begin(c, pc, token, from, next) ==
  /\ call[c].pc = "idle"
  /\ call' = [call EXCEPT ![c] = [pc |-> pc, token |-> token, from |-> from,
                                  next |-> next, read |-> {}]]

NoSession == [status |-> "none", bytes |-> 0, token |-> 0]

Init ==
  /\ session = NoSession
  /\ progress = 0
  /\ file = {} /\ object = {} /\ digest = {}
  /\ accepted = FALSE
  /\ issued = 0
  /\ call = [c \in Calls |-> Idle]
  /\ torn = FALSE /\ faults = 0

-----------------------------------------------------------------------------
(* start_upload_ingest_session                                             *)

Start(c) ==
  /\ session.status # "completed" /\ issued < MaxTokens
  /\ issued' = issued + 1
  /\ Begin(c, IF session.status = "none" THEN "create" ELSE "rotate", issued', 0, 0)
  /\ UNCHANGED <<session, progress, file, object, accepted, digest, torn, faults>>

RotateToken(c) ==
  /\ call[c].pc = "rotate"
  /\ session' = [session EXCEPT !.token = call[c].token]
  /\ Done(c)
  /\ UNCHANGED <<progress, file, object, accepted, digest, issued, torn, faults>>

\* File::create truncates a file that is there.
CreateFile(c) ==
  /\ call[c].pc = "create"
  /\ file' = {}
  /\ torn' = (torn \/ file # {})
  /\ Turn(c, "insert")
  /\ UNCHANGED <<session, progress, object, accepted, digest, issued, faults>>

\* job_id is the primary key: a second INSERT fails, after the file was created.
InsertSession(c) ==
  /\ call[c].pc = "insert"
  /\ session' = IF session.status = "none"
                THEN [status |-> "active", bytes |-> 0, token |-> call[c].token]
                ELSE session
  /\ Done(c)
  /\ UNCHANGED <<progress, file, object, accepted, digest, issued, torn, faults>>

-----------------------------------------------------------------------------
(* append_upload_chunk                                                     *)

\* The session's row is read first; its status and count are tested below.
ReadProgress(c, token, next) ==
  /\ session.status = "active" /\ token \in 1 .. issued
  /\ session.bytes <= next /\ next <= Expected
  /\ Begin(c, "token", token, session.bytes, next)
  /\ UNCHANGED <<session, progress, file, object, accepted, digest, issued, torn, faults>>

\* (A variant that saves the count before the bytes are written.)
CheckTokenSaves(c) ==
  /\ call[c].pc = "token"
  /\ IF session.token = call[c].token
     THEN Turn(c, "write") /\ session' = [session EXCEPT !.bytes = call[c].next]
     ELSE Done(c) /\ UNCHANGED session
  /\ UNCHANGED <<progress, file, object, accepted, digest, issued, torn, faults>>

CheckToken(c) ==
  /\ call[c].pc = "token"
  /\ IF session.token = call[c].token THEN Turn(c, "write") ELSE Done(c)
  /\ UNCHANGED <<session, progress, file, object, accepted, digest, issued, torn, faults>>

Chunk(c) == call[c].from + 1 .. call[c].next

WriteChunk(c) ==
  /\ call[c].pc = "write"
  /\ file' = file \cup Chunk(c)
  /\ Turn(c, "save")
  /\ UNCHANGED <<session, progress, object, accepted, digest, issued, torn, faults>>

\* The count is written as the call computed it, by job_id.
SaveSession(c) ==
  /\ call[c].pc = "save"
  /\ session' = [session EXCEPT !.bytes = call[c].next]
  /\ Turn(c, "savejob")
  /\ UNCHANGED <<progress, file, object, accepted, digest, issued, torn, faults>>

SaveJob(c) ==
  /\ call[c].pc = "savejob"
  /\ progress' = call[c].next
  /\ Done(c)
  /\ UNCHANGED <<session, file, object, accepted, digest, issued, torn, faults>>

-----------------------------------------------------------------------------
(* complete_upload_ingest                                                  *)

\* Whatever the session's status; the counts are compared after the token.
\* (ReadCompleteUncounted does not compare them.)
ReadCompleteUncounted(c, token) ==
  /\ session.status # "none" /\ token \in 1 .. issued
  /\ Begin(c, "c_token", token, 0, 0)
  /\ UNCHANGED <<session, progress, file, object, accepted, digest, issued, torn, faults>>

ReadComplete(c, token) ==
  /\ session.status # "none" /\ session.bytes = Expected /\ token \in 1 .. issued
  /\ Begin(c, "c_token", token, 0, 0)
  /\ UNCHANGED <<session, progress, file, object, accepted, digest, issued, torn, faults>>

CheckCompleteToken(c) ==
  /\ call[c].pc = "c_token"
  /\ IF session.token = call[c].token THEN Turn(c, "digest") ELSE Done(c)
  /\ UNCHANGED <<session, progress, file, object, accepted, digest, issued, torn, faults>>

DigestFile(c) ==
  /\ call[c].pc = "digest"
  /\ call' = [call EXCEPT ![c] = [pc |-> "publish", token |-> @.token, from |-> @.from,
                                  next |-> @.next, read |-> file]]
  /\ UNCHANGED <<session, progress, file, object, accepted, digest, issued, torn, faults>>

PublishFile(c) ==
  /\ call[c].pc = "publish"
  /\ object' = file
  /\ Turn(c, "c_session")
  /\ UNCHANGED <<session, progress, file, accepted, digest, issued, torn, faults>>

CompleteSession(c) ==
  /\ call[c].pc = "c_session"
  /\ session' = [session EXCEPT !.status = "completed"]
  /\ Turn(c, "c_job")
  /\ UNCHANGED <<progress, file, object, accepted, digest, issued, torn, faults>>

CompleteJob(c) ==
  /\ call[c].pc = "c_job"
  /\ accepted' = TRUE /\ digest' = call[c].read
  /\ Done(c)
  /\ UNCHANGED <<session, progress, file, object, issued, torn, faults>>

-----------------------------------------------------------------------------
\* The connection drops, a statement fails or the process restarts.  A write
\* that is cut short leaves part of the chunk.
CutShort(c) ==
  /\ call[c].pc # "idle" /\ faults < MaxFaults
  /\ faults' = faults + 1
  /\ \/ file' = file
     \/ /\ call[c].pc = "write"
        /\ \E last \in Chunk(c) : file' = file \cup call[c].from + 1 .. last
  /\ Done(c)
  /\ UNCHANGED <<session, progress, object, accepted, digest, issued, torn>>

Next == \E c \in Calls :
  \/ Start(c) \/ RotateToken(c) \/ CreateFile(c) \/ InsertSession(c)
  \/ \E token \in 1 .. MaxTokens, next \in Counts : ReadProgress(c, token, next)
  \/ CheckToken(c) \/ WriteChunk(c) \/ SaveSession(c) \/ SaveJob(c)
  \/ \E token \in 1 .. MaxTokens : ReadComplete(c, token)
  \/ CheckCompleteToken(c) \/ DigestFile(c) \/ PublishFile(c)
  \/ CompleteSession(c) \/ CompleteJob(c) \/ CutShort(c)

Spec == Init /\ [][Next]_vars

-----------------------------------------------------------------------------
\* The shape of the rows, the files and what the calls carry.
TypeOK ==
  /\ session \in SessionRow /\ progress \in Counts
  /\ file \subseteq Bytes /\ object \subseteq Bytes /\ digest \subseteq Bytes
  /\ accepted \in BOOLEAN /\ torn \in BOOLEAN
  /\ issued \in Nat /\ faults \in Nat
  /\ call \in [Calls -> CallState]

\* The bytes a client is told were received, by the session or by the job,
\* are on disk, however its chunks were repeated, overtook each other or were
\* cut short: it never resumes behind a hole.
AcknowledgedIsStored ==
  ~torn => 1 .. session.bytes \subseteq file /\ 1 .. progress \subseteq file

\* A job is accepted for processing over a whole object, and its checksum is
\* the object's, also when chunks or a second completion are still under way.
AcceptedIsWhole ==
  accepted /\ ~torn => object = Bytes /\ digest = object
=============================================================================
