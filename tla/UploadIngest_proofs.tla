------------------------ MODULE UploadIngest_proofs ------------------------
(***************************************************************************)
(* Theorems about UploadIngest, for any number of calls and any number of  *)
(* bytes: what is acknowledged is stored and what is accepted is whole.    *)
(* And, in the second part, about NativeHelper, for any number of          *)
(* requests, helpers and lines: whose answer a command gets, and what the  *)
(* registry keeps.  The two share no state.                                *)
(***************************************************************************)
EXTENDS UploadIngest, NativeHelper, SequenceTheorems, TLAPS

\* What a call in progress has read or written stays on disk.
CallBacked(c) ==
  /\ call[c].pc \in {"token", "write"} => 1 .. call[c].from \subseteq file
  /\ call[c].pc \in {"save", "savejob"} => 1 .. call[c].next \subseteq file
  /\ call[c].pc \in {"c_token", "digest", "publish"} => file = Bytes
  /\ call[c].pc \in {"publish", "c_session", "c_job"} => call[c].read = Bytes
  /\ call[c].pc \in {"c_session", "c_job"} => file = Bytes /\ object = Bytes

RowsBacked ==
  /\ 1 .. session.bytes \subseteq file
  /\ 1 .. progress \subseteq file
  /\ accepted => file = Bytes /\ object = Bytes /\ digest = Bytes

IInv == TypeOK /\ (~torn => RowsBacked /\ \A c \in Calls : CallBacked(c))

OneCall(c) == /\ call' \in [Calls -> CallState]
              /\ \A d \in Calls \ {c} : call'[d] = call[d]

\* A file that is whole stays so, and so does an object a call relies on.
Kept == file \subseteq file' /\ (file = Bytes /\ object = Bytes => object' = Bytes)

RowsOK ==
  /\ session \in SessionRow /\ progress \in Counts
  /\ file \subseteq Bytes /\ object \subseteq Bytes /\ digest \subseteq Bytes
  /\ accepted \in BOOLEAN /\ torn \in BOOLEAN
  /\ issued \in Nat /\ faults \in Nat

-----------------------------------------------------------------------------
LEMMA TurnMoves ==
  ASSUME TypeOK, NEW c \in Calls, NEW pc \in Steps, Turn(c, pc)
  PROVE  /\ OneCall(c) /\ call'[c].pc = pc /\ call'[c].token = call[c].token
         /\ call'[c].from = call[c].from /\ call'[c].next = call[c].next
         /\ call'[c].read = call[c].read
  <1>1. [pc |-> pc, token |-> call[c].token, from |-> call[c].from,
         next |-> call[c].next, read |-> call[c].read] \in CallState
    BY DEF TypeOK, CallState
  <1> QED BY <1>1 DEF TypeOK, Turn, OneCall

LEMMA DoneMoves ==
  ASSUME TypeOK, NEW c \in Calls, Done(c)
  PROVE  OneCall(c) /\ call'[c].pc = "idle"
  <1>1. Idle \in CallState
    BY UploadAssumption DEF Idle, CallState, Steps, Counts
  <1> QED BY <1>1 DEF TypeOK, Done, OneCall, Idle

LEMMA BeginMoves ==
  ASSUME TypeOK, NEW c \in Calls, NEW pc \in Steps, NEW token \in Nat,
         NEW from \in Counts, NEW next \in Counts, Begin(c, pc, token, from, next)
  PROVE  /\ OneCall(c) /\ call'[c].pc = pc /\ call'[c].from = from
         /\ call'[c].next = next
  <1>1. [pc |-> pc, token |-> token, from |-> from, next |-> next, read |-> {}]
          \in CallState
    BY DEF CallState
  <1> QED BY <1>1 DEF TypeOK, Begin, OneCall

\* A step of one call that takes nothing away keeps what backs the others.
LEMMA Assemble ==
  ASSUME IInv, NEW c \in Calls, OneCall(c), RowsOK',
         torn => torn',
         ~torn' => Kept /\ RowsBacked' /\ CallBacked(c)'
  PROVE  IInv'
  <1>1. TypeOK'
    BY DEF TypeOK, RowsOK, OneCall
  <1>2. ASSUME ~torn', NEW d \in Calls, d # c PROVE CallBacked(d)'
    <2>1. call'[d] = call[d] /\ CallBacked(d) /\ Kept /\ file' \subseteq Bytes
      BY <1>2 DEF OneCall, IInv, RowsOK
    <2> QED BY <2>1 DEF CallBacked, Kept
  <1> QED BY <1>1, <1>2 DEF IInv

LEMMA Whole ==
  ASSUME NEW n \in Counts, n = Expected, file \subseteq Bytes, 1 .. n \subseteq file
  PROVE  file = Bytes
  BY DEF Bytes

-----------------------------------------------------------------------------
LEMMA StartSteps ==
  ASSUME IInv, NEW c \in Calls,
         Start(c) \/ RotateToken(c) \/ CreateFile(c) \/ InsertSession(c)
  PROVE  IInv'
  <1>1. TypeOK
    BY DEF IInv
  <1>0. /\ {"create", "rotate", "insert"} \subseteq Steps /\ 0 \in Counts
        /\ call[c].token \in Nat
    BY <1>1, UploadAssumption DEF Steps, Counts, TypeOK, CallState
  <1>2. CASE Start(c)
    <2>1. /\ issued' = issued + 1
          /\ \E pc \in {"create", "rotate"} : Begin(c, pc, issued', 0, 0)
          /\ UNCHANGED <<session, progress, file, object, accepted, digest, torn, faults>>
      BY <1>2 DEF Start
    <2>2. issued' \in Nat
      BY <1>1, <2>1 DEF TypeOK
    <2>3. OneCall(c) /\ call'[c].pc \in {"create", "rotate"}
      BY <1>0, <1>1, <2>1, <2>2, BeginMoves
    <2>4. RowsOK' /\ Kept
      BY <1>1, <2>1, <2>2 DEF TypeOK, RowsOK, Kept
    <2>5. CallBacked(c)'
      BY <2>3 DEF CallBacked
    <2>6. ~torn' => RowsBacked'
      BY <2>1 DEF IInv, RowsBacked
    <2> QED BY <2>1, <2>3, <2>4, <2>5, <2>6, Assemble
  <1>3. CASE RotateToken(c)
    <2>1. /\ session' = [session EXCEPT !.token = call[c].token] /\ Done(c)
          /\ UNCHANGED <<progress, file, object, accepted, digest, issued, torn, faults>>
      BY <1>3 DEF RotateToken
    <2>2. session' \in SessionRow /\ session'.bytes = session.bytes
      BY <1>0, <1>1, <2>1 DEF TypeOK, SessionRow
    <2>3. OneCall(c) /\ call'[c].pc = "idle"
      BY <1>1, <2>1, DoneMoves
    <2>4. RowsOK' /\ Kept
      BY <1>1, <2>1, <2>2 DEF TypeOK, RowsOK, Kept
    <2>5. CallBacked(c)'
      BY <2>3 DEF CallBacked
    <2>6. ~torn' => RowsBacked'
      BY <2>1, <2>2 DEF IInv, RowsBacked
    <2> QED BY <2>1, <2>3, <2>4, <2>5, <2>6, Assemble
  <1>4. CASE CreateFile(c)
    <2>1. /\ file' = {} /\ torn' = (torn \/ file # {}) /\ Turn(c, "insert")
          /\ UNCHANGED <<session, progress, object, accepted, digest, issued, faults>>
      BY <1>4 DEF CreateFile
    <2>2. OneCall(c) /\ call'[c].pc = "insert"
      BY <1>0, <1>1, <2>1, TurnMoves
    <2>3. RowsOK'
      BY <1>1, <2>1 DEF TypeOK, RowsOK
    <2>4. ~torn' => file' = file
      BY <2>1
    <2>5. CallBacked(c)'
      BY <2>2 DEF CallBacked
    <2>6. ~torn' => RowsBacked' /\ Kept
      BY <2>1, <2>4 DEF IInv, RowsBacked, Kept
    <2> QED BY <2>1, <2>2, <2>3, <2>5, <2>6, Assemble
  <1>5. CASE InsertSession(c)
    <2>1. /\ session' \in {session, [status |-> "active", bytes |-> 0, token |-> call[c].token]}
          /\ Done(c)
          /\ UNCHANGED <<progress, file, object, accepted, digest, issued, torn, faults>>
      BY <1>5 DEF InsertSession
    <2>2. session' \in SessionRow /\ session'.bytes \in {session.bytes, 0}
      BY <1>0, <1>1, <2>1 DEF TypeOK, SessionRow
    <2>3. OneCall(c) /\ call'[c].pc = "idle"
      BY <1>1, <2>1, DoneMoves
    <2>4. RowsOK' /\ Kept
      BY <1>1, <2>1, <2>2 DEF TypeOK, RowsOK, Kept
    <2>5. CallBacked(c)'
      BY <2>3 DEF CallBacked
    <2>6. 1 .. 0 = {}
      OBVIOUS
    <2>7. ~torn' => RowsBacked'
      BY <2>1, <2>2, <2>6 DEF IInv, RowsBacked
    <2> QED BY <2>1, <2>3, <2>4, <2>5, <2>7, Assemble
  <1> QED BY <1>2, <1>3, <1>4, <1>5

LEMMA ChunkSteps ==
  ASSUME IInv, NEW c \in Calls,
         \/ \E token \in 1 .. MaxTokens, next \in Counts : ReadProgress(c, token, next)
         \/ CheckToken(c) \/ WriteChunk(c) \/ SaveSession(c) \/ SaveJob(c)
  PROVE  IInv'
  <1>1. TypeOK
    BY DEF IInv
  <1>0. /\ {"token", "write", "save", "savejob"} \subseteq Steps
        /\ call[c].from \in Counts /\ call[c].next \in Counts
        /\ session.bytes \in Counts
    BY <1>1 DEF Steps, TypeOK, CallState, SessionRow
  <1>2. ASSUME NEW token \in 1 .. MaxTokens, NEW next \in Counts,
               ReadProgress(c, token, next)
        PROVE  IInv'
    <2>1. /\ Begin(c, "token", token, session.bytes, next)
          /\ UNCHANGED <<session, progress, file, object, accepted, digest, issued, torn, faults>>
      BY <1>2 DEF ReadProgress
    <2>2. OneCall(c) /\ call'[c].pc = "token" /\ call'[c].from = session.bytes
      BY <1>0, <1>1, <2>1, BeginMoves
    <2>3. RowsOK' /\ Kept
      BY <1>1, <2>1 DEF TypeOK, RowsOK, Kept
    <2>4. ~torn' => RowsBacked' /\ CallBacked(c)'
      BY <2>1, <2>2 DEF IInv, RowsBacked, CallBacked
    <2> QED BY <2>1, <2>2, <2>3, <2>4, Assemble
  <1>3. CASE CheckToken(c)
    <2>1. /\ Turn(c, "write") \/ Done(c)
          /\ call[c].pc = "token"
          /\ UNCHANGED <<session, progress, file, object, accepted, digest, issued, torn, faults>>
      BY <1>3 DEF CheckToken
    <2>2. /\ OneCall(c) /\ call'[c].pc \in {"write", "idle"}
          /\ call'[c].pc = "write" => call'[c].from = call[c].from
      BY <1>0, <1>1, <2>1, TurnMoves, DoneMoves
    <2>3. RowsOK' /\ Kept
      BY <1>1, <2>1 DEF TypeOK, RowsOK, Kept
    <2>4. ~torn' => RowsBacked' /\ CallBacked(c)'
      BY <2>1, <2>2 DEF IInv, RowsBacked, CallBacked
    <2> QED BY <2>1, <2>2, <2>3, <2>4, Assemble
  <1>4. CASE WriteChunk(c)
    <2>1. /\ file' = file \cup Chunk(c) /\ Turn(c, "save") /\ call[c].pc = "write"
          /\ UNCHANGED <<session, progress, object, accepted, digest, issued, torn, faults>>
      BY <1>4 DEF WriteChunk
    <2>2. OneCall(c) /\ call'[c].pc = "save" /\ call'[c].next = call[c].next
      BY <1>0, <1>1, <2>1, TurnMoves
    <2>3. Chunk(c) \subseteq Bytes
      BY <1>0, UploadAssumption DEF Chunk, Counts, Bytes
    <2>4. RowsOK' /\ Kept
      BY <1>1, <2>1, <2>3 DEF TypeOK, RowsOK, Kept
    <2>5. 1 .. call[c].next \subseteq (1 .. call[c].from) \cup Chunk(c)
      BY <1>0, UploadAssumption DEF Chunk, Counts
    <2>6. ~torn' => CallBacked(c)'
      BY <2>1, <2>2, <2>5 DEF IInv, CallBacked
    <2>7. ~torn' => RowsBacked'
      BY <2>1, <2>4 DEF IInv, RowsBacked, RowsOK
    <2> QED BY <2>1, <2>2, <2>4, <2>6, <2>7, Assemble
  <1>5. CASE SaveSession(c)
    <2>1. /\ session' = [session EXCEPT !.bytes = call[c].next] /\ Turn(c, "savejob")
          /\ call[c].pc = "save"
          /\ UNCHANGED <<progress, file, object, accepted, digest, issued, torn, faults>>
      BY <1>5 DEF SaveSession
    <2>2. session' \in SessionRow /\ session'.bytes = call[c].next
      BY <1>0, <1>1, <2>1 DEF TypeOK, SessionRow
    <2>3. OneCall(c) /\ call'[c].pc = "savejob" /\ call'[c].next = call[c].next
      BY <1>0, <1>1, <2>1, TurnMoves
    <2>4. RowsOK' /\ Kept
      BY <1>1, <2>1, <2>2 DEF TypeOK, RowsOK, Kept
    <2>5. ~torn' => RowsBacked' /\ CallBacked(c)'
      BY <2>1, <2>2, <2>3 DEF IInv, RowsBacked, CallBacked
    <2> QED BY <2>1, <2>3, <2>4, <2>5, Assemble
  <1>6. CASE SaveJob(c)
    <2>1. /\ progress' = call[c].next /\ Done(c) /\ call[c].pc = "savejob"
          /\ UNCHANGED <<session, file, object, accepted, digest, issued, torn, faults>>
      BY <1>6 DEF SaveJob
    <2>2. OneCall(c) /\ call'[c].pc = "idle"
      BY <1>1, <2>1, DoneMoves
    <2>3. RowsOK' /\ Kept
      BY <1>0, <1>1, <2>1 DEF TypeOK, RowsOK, Kept
    <2>4. ~torn' => RowsBacked' /\ CallBacked(c)'
      BY <2>1, <2>2 DEF IInv, RowsBacked, CallBacked
    <2> QED BY <2>1, <2>2, <2>3, <2>4, Assemble
  <1> QED BY <1>2, <1>3, <1>4, <1>5, <1>6

LEMMA CompleteSteps ==
  ASSUME IInv, NEW c \in Calls,
         \/ \E token \in 1 .. MaxTokens : ReadComplete(c, token)
         \/ CheckCompleteToken(c) \/ DigestFile(c) \/ PublishFile(c)
         \/ CompleteSession(c) \/ CompleteJob(c)
  PROVE  IInv'
  <1>1. TypeOK
    BY DEF IInv
  <1>0. /\ {"c_token", "digest", "publish", "c_session", "c_job"} \subseteq Steps
        /\ 0 \in Counts
    BY UploadAssumption DEF Steps, Counts
  <1>2. ASSUME NEW token \in 1 .. MaxTokens, ReadComplete(c, token) PROVE IInv'
    <2>1. /\ Begin(c, "c_token", token, 0, 0) /\ session.bytes = Expected
          /\ UNCHANGED <<session, progress, file, object, accepted, digest, issued, torn, faults>>
      BY <1>2 DEF ReadComplete
    <2>2. OneCall(c) /\ call'[c].pc = "c_token"
      BY <1>0, <1>1, <2>1, BeginMoves
    <2>3. RowsOK' /\ Kept
      BY <1>1, <2>1 DEF TypeOK, RowsOK, Kept
    <2>4. ~torn' => RowsBacked'
      BY <2>1 DEF IInv, RowsBacked
    <2>5. ~torn => file = Bytes
      BY <1>1, <2>1, Whole DEF IInv, RowsBacked, TypeOK, SessionRow
    <2>6. ~torn' => CallBacked(c)'
      BY <2>1, <2>2, <2>5 DEF CallBacked
    <2> QED BY <2>1, <2>2, <2>3, <2>4, <2>6, Assemble
  <1>3. CASE CheckCompleteToken(c)
    <2>1. /\ Turn(c, "digest") \/ Done(c)
          /\ call[c].pc = "c_token"
          /\ UNCHANGED <<session, progress, file, object, accepted, digest, issued, torn, faults>>
      BY <1>3 DEF CheckCompleteToken
    <2>2. OneCall(c) /\ call'[c].pc \in {"digest", "idle"}
      BY <1>0, <1>1, <2>1, TurnMoves, DoneMoves
    <2>3. RowsOK' /\ Kept
      BY <1>1, <2>1 DEF TypeOK, RowsOK, Kept
    <2>4. ~torn' => RowsBacked' /\ CallBacked(c)'
      BY <2>1, <2>2 DEF IInv, RowsBacked, CallBacked
    <2> QED BY <2>1, <2>2, <2>3, <2>4, Assemble
  <1>4. CASE DigestFile(c)
    <2>1. /\ call' = [call EXCEPT ![c] = [pc |-> "publish", token |-> @.token,
                       from |-> @.from, next |-> @.next, read |-> file]]
          /\ call[c].pc = "digest"
          /\ UNCHANGED <<session, progress, file, object, accepted, digest, issued, torn, faults>>
      BY <1>4 DEF DigestFile
    <2>2. [pc |-> "publish", token |-> call[c].token, from |-> call[c].from,
           next |-> call[c].next, read |-> file] \in CallState
      BY <1>0, <1>1 DEF TypeOK, CallState
    <2>3. OneCall(c) /\ call'[c].pc = "publish" /\ call'[c].read = file
      BY <1>1, <2>1, <2>2 DEF TypeOK, OneCall
    <2>4. RowsOK' /\ Kept
      BY <1>1, <2>1 DEF TypeOK, RowsOK, Kept
    <2>5. ~torn' => RowsBacked' /\ CallBacked(c)'
      BY <2>1, <2>3 DEF IInv, RowsBacked, CallBacked
    <2> QED BY <2>1, <2>3, <2>4, <2>5, Assemble
  <1>5. CASE PublishFile(c)
    <2>1. /\ object' = file /\ Turn(c, "c_session") /\ call[c].pc = "publish"
          /\ UNCHANGED <<session, progress, file, accepted, digest, issued, torn, faults>>
      BY <1>5 DEF PublishFile
    <2>2. OneCall(c) /\ call'[c].pc = "c_session" /\ call'[c].read = call[c].read
      BY <1>0, <1>1, <2>1, TurnMoves
    <2>3. RowsOK' /\ Kept
      BY <1>1, <2>1 DEF TypeOK, RowsOK, Kept
    <2>4. ~torn' => RowsBacked' /\ CallBacked(c)'
      BY <2>1, <2>2 DEF IInv, RowsBacked, CallBacked
    <2> QED BY <2>1, <2>2, <2>3, <2>4, Assemble
  <1>6. CASE CompleteSession(c)
    <2>1. /\ session' = [session EXCEPT !.status = "completed"] /\ Turn(c, "c_job")
          /\ call[c].pc = "c_session"
          /\ UNCHANGED <<progress, file, object, accepted, digest, issued, torn, faults>>
      BY <1>6 DEF CompleteSession
    <2>2. session' \in SessionRow /\ session'.bytes = session.bytes
      BY <1>1, <2>1 DEF TypeOK, SessionRow
    <2>3. OneCall(c) /\ call'[c].pc = "c_job" /\ call'[c].read = call[c].read
      BY <1>0, <1>1, <2>1, TurnMoves
    <2>4. RowsOK' /\ Kept
      BY <1>1, <2>1, <2>2 DEF TypeOK, RowsOK, Kept
    <2>5. ~torn' => RowsBacked' /\ CallBacked(c)'
      BY <2>1, <2>2, <2>3 DEF IInv, RowsBacked, CallBacked
    <2> QED BY <2>1, <2>3, <2>4, <2>5, Assemble
  <1>7. CASE CompleteJob(c)
    <2>1. /\ accepted' = TRUE /\ digest' = call[c].read /\ Done(c) /\ call[c].pc = "c_job"
          /\ UNCHANGED <<session, progress, file, object, issued, torn, faults>>
      BY <1>7 DEF CompleteJob
    <2>2. OneCall(c) /\ call'[c].pc = "idle"
      BY <1>1, <2>1, DoneMoves
    <2>3. RowsOK' /\ Kept
      BY <1>1, <2>1 DEF TypeOK, RowsOK, Kept, CallState
    <2>4. ~torn' => RowsBacked' /\ CallBacked(c)'
      BY <2>1, <2>2 DEF IInv, RowsBacked, CallBacked
    <2> QED BY <2>1, <2>2, <2>3, <2>4, Assemble
  <1> QED BY <1>2, <1>3, <1>4, <1>5, <1>6, <1>7

LEMMA CutShortKeeps ==
  ASSUME IInv, NEW c \in Calls, CutShort(c)
  PROVE  IInv'
  <1>1. TypeOK
    BY DEF IInv
  <1>2. /\ faults' = faults + 1 /\ Done(c)
        /\ \/ file' = file
           \/ \E last \in Chunk(c) : file' = file \cup call[c].from + 1 .. last
        /\ UNCHANGED <<session, progress, object, accepted, digest, issued, torn>>
    BY DEF CutShort
  <1>3. file \subseteq file' /\ file' \subseteq Bytes
    <2>1. call[c].from \in Counts /\ call[c].next \in Counts /\ file \subseteq Bytes
      BY <1>1 DEF TypeOK, CallState
    <2>2. \A last \in Chunk(c) : call[c].from + 1 .. last \subseteq Bytes
      BY <2>1, UploadAssumption DEF Chunk, Counts, Bytes
    <2> QED BY <1>2, <2>1, <2>2
  <1>4. OneCall(c) /\ call'[c].pc = "idle"
    BY <1>1, <1>2, DoneMoves
  <1>5. RowsOK' /\ Kept
    BY <1>1, <1>2, <1>3 DEF TypeOK, RowsOK, Kept
  <1>6. ~torn' => RowsBacked' /\ CallBacked(c)'
    BY <1>2, <1>3, <1>4 DEF IInv, RowsBacked, CallBacked
  <1> QED BY <1>2, <1>4, <1>5, <1>6, Assemble

LEMMA StepKeeps ==
  ASSUME IInv, [Next]_vars
  PROVE  IInv'
  <1>1. CASE UNCHANGED vars
    BY <1>1 DEF vars, IInv, TypeOK, RowsBacked, CallBacked
  <1>2. CASE Next
    BY <1>2, StartSteps, ChunkSteps, CompleteSteps, CutShortKeeps DEF Next
  <1> QED BY <1>1, <1>2

LEMMA InitHolds ==
  ASSUME Init
  PROVE  IInv
  <1>1. Idle \in CallState /\ Idle.pc = "idle" /\ NoSession \in SessionRow
        /\ NoSession.bytes = 0 /\ 0 \in Counts
    BY UploadAssumption DEF Idle, CallState, Steps, Counts, NoSession, SessionRow
  <1>2. TypeOK
    BY <1>1 DEF Init, TypeOK
  <1>3. 1 .. 0 = {}
    OBVIOUS
  <1>4. RowsBacked /\ \A c \in Calls : CallBacked(c)
    BY <1>1, <1>3 DEF Init, RowsBacked, CallBacked
  <1> QED BY <1>2, <1>4 DEF IInv

\* The rows, the files and the calls keep to their types (media/jobs/ingest.rs).
THEOREM TypeInvariant == Spec => []TypeOK
  <1>1. Init => IInv
    BY InitHolds
  <1>2. IInv /\ [Next]_vars => IInv'
    BY StepKeeps
  <1>3. IInv => TypeOK
    BY DEF IInv
  <1> QED BY <1>1, <1>2, <1>3, PTL DEF Spec

\* The counts of the session and of the job are never ahead of the file, for
\* any number of repeated, overlapping or interrupted chunks (ingest.rs:132).
THEOREM AcknowledgedBytesAreStored == Spec => []AcknowledgedIsStored
  <1>1. Init => IInv
    BY InitHolds
  <1>2. IInv /\ [Next]_vars => IInv'
    BY StepKeeps
  <1>3. IInv => AcknowledgedIsStored
    BY DEF IInv, RowsBacked, AcknowledgedIsStored
  <1> QED BY <1>1, <1>2, <1>3, PTL DEF Spec

\* complete_upload_ingest accepts a job only over a whole object, and records
\* that object's checksum (ingest.rs:158-176).
THEOREM AcceptedObjectsAreWhole == Spec => []AcceptedIsWhole
  <1>1. Init => IInv
    BY InitHolds
  <1>2. IInv /\ [Next]_vars => IInv'
    BY StepKeeps
  <1>3. IInv => AcceptedIsWhole
    BY DEF IInv, RowsBacked, AcceptedIsWhole
  <1> QED BY <1>1, <1>2, <1>3, PTL DEF Spec

-----------------------------------------------------------------------------
(* The native helper: the queue of the Mutex and the types.                *)

\* A request that leaves the queue takes nobody else from the head of it.
LEMMA WithoutIs ==
  ASSUME HelperTypeOK, NEW t \in Requests
  PROVE  /\ Without(t) \in Seq(Requests)
         /\ \A u \in Requests \ {t} :
              Holds(u) => Without(t) # << >> /\ Head(Without(t)) = u
<1>0. queue \in Seq(Requests)
  BY DEF HelperTypeOK
<1>1. CASE \A i \in DOMAIN queue : queue[i] # t
  <2>1. Without(t) = queue
    BY <1>1 DEF Without
  <2> QED BY <1>0, <2>1 DEF Holds
<1>2. ASSUME NEW k \in DOMAIN queue, queue[k] = t
      PROVE  /\ Without(t) \in Seq(Requests)
             /\ \A u \in Requests \ {t} :
                  Holds(u) => Without(t) # << >> /\ Head(Without(t)) = u
  <2>1. PICK i \in DOMAIN queue :
          /\ queue[i] = t
          /\ Without(t) = SubSeq(queue, 1, i - 1) \o SubSeq(queue, i + 1, Len(queue))
    <3> DEFINE i == CHOOSE i \in DOMAIN queue : queue[i] = t
    <3>1. i \in DOMAIN queue /\ queue[i] = t
      BY <1>2
    <3> QED BY <1>2, <3>1 DEF Without
  <2> DEFINE before == SubSeq(queue, 1, i - 1)
             after == SubSeq(queue, i + 1, Len(queue))
  <2>2. i \in 1 .. Len(queue) /\ Len(queue) \in Nat
    BY <1>0, <2>1
  <2>3. /\ before \in Seq(Requests) /\ after \in Seq(Requests)
        /\ Len(before) = i - 1
    BY <1>0, <2>2
  <2>4. i > 1 => before[1] = queue[1]
    BY <1>0, <2>2
  <2> HIDE DEF before, after
  <2>5. before \o after \in Seq(Requests)
    BY <2>3
  <2>6. ASSUME NEW u \in Requests \ {t}, Holds(u)
        PROVE  Without(t) # << >> /\ Head(Without(t)) = u
    <3>1. queue[1] = u /\ queue[1] # t
      BY <1>0, <2>6 DEF Holds
    <3>2. i > 1
      BY <2>1, <2>2, <3>1
    <3>3. Len(before \o after) > 0 /\ (before \o after)[1] = before[1]
      BY <2>2, <2>3, <3>2
    <3>4. Head(before \o after) = (before \o after)[1] /\ before \o after # << >>
      BY <2>5, <3>3
    <3> QED BY <2>1, <2>4, <3>1, <3>2, <3>3, <3>4 DEF before, after
  <2> QED BY <2>1, <2>5, <2>6 DEF before, after
<1> QED BY <1>1, <1>2

\* A request that queues leaves the head of a queue that has one.
LEMMA Queues ==
  ASSUME HelperTypeOK, NEW t \in Requests
  PROVE  /\ Append(queue, t) \in Seq(Requests)
         /\ \A u \in Requests :
              Holds(u) => Append(queue, t) # << >> /\ Head(Append(queue, t)) = u
<1>1. queue \in Seq(Requests)
  BY DEF HelperTypeOK
<1>2. ASSUME NEW u \in Requests, Holds(u)
      PROVE  Append(queue, t) # << >> /\ Head(Append(queue, t)) = u
  <2>1. queue # << >> /\ Head(queue) = u
    BY <1>2 DEF Holds
  <2> QED BY <1>1, <2>1
<1> QED BY <1>1, <1>2

\* A request that gives up stays in no line, and the lines stay what they are.
LEMMA ForsakenIs ==
  ASSUME NEW t \in Requests, NEW lines \in Seq(Lines)
  PROVE  Forsaken(t, lines) \in Seq(Lines)
<1>1. DOMAIN lines = 1 .. Len(lines) /\ Len(lines) \in Nat
  OBVIOUS
<1>2. \A i \in 1 .. Len(lines) : [lines[i] EXCEPT !.of = IF @ = t THEN "none" ELSE @] \in Lines
  <2> TAKE i \in 1 .. Len(lines)
  <2>1. lines[i] \in Lines
    BY <1>1
  <2> QED BY <2>1 DEF Lines
<1>3. Forsaken(t, lines) = [i \in 1 .. Len(lines) |->
                              [lines[i] EXCEPT !.of = IF @ = t THEN "none" ELSE @]]
  BY <1>1 DEF Forsaken
<1> DEFINE f == [i \in 1 .. Len(lines) |->
                   [lines[i] EXCEPT !.of = IF @ = t THEN "none" ELSE @]]
<1>4. f \in [1 .. Len(lines) -> Lines]
  BY <1>2
<1> HIDE DEF f
<1>5. f \in Seq(Lines)
  BY <1>1, <1>4
<1> QED BY <1>3, <1>5 DEF f

\* The requests that have launched a helper the row does not name yet, and those
\* that have taken theirs from the row.
Launching == {"register", "store"}
Commanding == {"check", "write", "read", "apply"}

\* A pid is that of a helper once launched, and a command has one.
Launched ==
  /\ row.status # "none" <=> row.pid # 0
  /\ row.pid # 0 => life[row.pid] # "none"
  /\ \A t \in Requests :
       /\ task[t].at \in Launching \cup Commanding <=> task[t].pid # 0
       /\ task[t].pid # 0 => life[task[t].pid] # "none"
       /\ task[t].at \in Commanding => row.pid # 0

\* The rest of the state is of the type HelperTypeOK says in every step.
LEMMA HelperTypes ==
  ASSUME HelperTypeOK, Launched, [HelperNext]_helperVars
  PROVE  HelperTypeOK'
<1>0. /\ 0 \notin Pids /\ Pids \subseteq Nat /\ "none" \notin Requests
      /\ row \in [status : Answers \cup {"none"}, pid : Pids \cup {0}]
      /\ life \in [Pids -> Lives]
      /\ inbox \in [Pids -> Seq(Lines)] /\ outbox \in [Pids -> Seq(Lines)]
      /\ registry \subseteq Pids /\ queue \in Seq(Requests)
      /\ task \in [Requests -> TaskState]
      /\ late \subseteq Pids /\ left \subseteq Pids
  BY NativeAssumption DEF HelperTypeOK
<1>1. Resting \in TaskState
  BY DEF Resting, TaskState, Places, Answers
<1>a. \A t \in Requests, new \in TaskState :
        task' = [task EXCEPT ![t] = new] => task' \in [Requests -> TaskState]
  BY <1>0
<1>2. ASSUME NEW t \in Requests
      PROVE  /\ Ends(t) => task' \in [Requests -> TaskState]
             /\ \A place \in Places : Goes(t, place) => task' \in [Requests -> TaskState]
  <2>1. Ends(t) => task' \in [Requests -> TaskState]
    BY <1>1, <1>a DEF Ends
  <2>2. ASSUME NEW place \in Places, Goes(t, place)
        PROVE  task' \in [Requests -> TaskState]
    <3>1. [task[t] EXCEPT !.at = place] \in TaskState
      BY <1>0 DEF TaskState
    <3>2. task' = [task EXCEPT ![t] = [task[t] EXCEPT !.at = place]]
      BY <1>0, <2>2 DEF Goes
    <3> QED BY <1>a, <3>1, <3>2
  <2> QED BY <2>1, <2>2
<1>3. \A t \in Requests :
        task[t].at \in Launching \cup Commanding => task[t].pid \in Pids
  BY <1>0 DEF Launched, TaskState
<1>4. \A gone : Dropped(gone) => /\ registry' \subseteq Pids /\ left' \subseteq Pids
                                 /\ inbox' \in [Pids -> Seq(Lines)]
  <2> SUFFICES ASSUME NEW gone, Dropped(gone)
               PROVE  /\ registry' \subseteq Pids /\ left' \subseteq Pids
                      /\ inbox' \in [Pids -> Seq(Lines)]
    OBVIOUS
  <2>1. << >> \in Seq(Lines) /\ \A p \in Pids : inbox[p] \in Seq(Lines)
    BY <1>0
  <2>2. \A p \in Pids : (IF p \in gone THEN << >> ELSE inbox[p]) \in Seq(Lines)
    BY <2>1
  <2>3. inbox' = [p \in Pids |-> IF p \in gone THEN << >> ELSE inbox[p]]
    BY DEF Dropped
  <2> QED BY <1>0, <2>2, <2>3 DEF Dropped
<1>5. \A t \in Requests, p \in Pids :
        GivesUp(t, p) => /\ inbox' \in [Pids -> Seq(Lines)]
                         /\ outbox' \in [Pids -> Seq(Lines)] /\ late' \subseteq Pids
  BY <1>0, ForsakenIs DEF GivesUp
<1>6. \A p \in Pids :
        [outbox EXCEPT ![p] = << >>] \in [Pids -> Seq(Lines)]
  BY <1>0
<1>7. ASSUME NEW t \in Requests, Arrives(t) PROVE HelperTypeOK'
  <2>1. \A r \in TaskState : Admit(t, r) => task' \in [Requests -> TaskState]
    BY <1>0 DEF Admit
  <2>2. [Resting EXCEPT !.at = "launch"] \in TaskState
    BY DEF Resting, TaskState, Places, Answers
  <2>3. CASE Create(t)
    BY <1>0, <2>1, <2>2, <2>3 DEF Create, HelperTypeOK, pipes
  <2>4. CASE Recover(t)
    BY <1>0, <2>1, <2>2, <2>4 DEF Recover, HelperTypeOK, pipes
  <2>5. ASSUME NEW answer \in Answers, Command(t, answer) PROVE HelperTypeOK'
    <3>1. [Resting EXCEPT !.at = "check", !.pid = row.pid, !.answer = answer] \in TaskState
      BY <1>0 DEF Resting, TaskState, Places
    <3>2. queue' \in Seq(Requests)
      BY <2>5, Queues DEF Command
    <3> QED BY <1>0, <2>1, <2>5, <3>1, <3>2 DEF Command, HelperTypeOK, pipes
  <2> QED BY <1>7, <2>3, <2>4, <2>5 DEF Arrives
<1>8. ASSUME NEW t \in Requests, Continue(t) PROVE HelperTypeOK'
  <2> DEFINE p == task[t].pid
  <2>0. Without(t) \in Seq(Requests) /\ Append(queue, t) \in Seq(Requests)
    BY WithoutIs, Queues
  <2>1. CASE Launch(t)
    <3>1. CASE Ends(t) /\ UNCHANGED <<life, queue>>
      <4>1. task' \in [Requests -> TaskState]
        BY <1>2, <3>1
      <4> QED BY <1>0, <2>1, <3>1, <4>1 DEF Launch, HelperTypeOK, pipes
    <3>2. ASSUME NEW q \in Pids, life' = [life EXCEPT ![q] = "up"],
                 task' = [task EXCEPT ![t].at = "register", ![t].pid = q],
                 queue' = Append(queue, t)
          PROVE  HelperTypeOK'
      <4>1. task' \in [Requests -> TaskState]
        <5>1. [task[t] EXCEPT !.at = "register", !.pid = q] \in TaskState
          <6>1. PICK r \in TaskState : r = task[t]
            BY <1>0
          <6>2. [r EXCEPT !.at = "register", !.pid = q] \in TaskState
            BY <6>1 DEF TaskState, Places
          <6> QED BY <6>1, <6>2
        <5>2. task' = [task EXCEPT ![t] = [task[t] EXCEPT !.at = "register", !.pid = q]]
          BY <1>0, <3>2
        <5> QED BY <1>a, <5>1, <5>2
      <4>2. life' \in [Pids -> Lives]
        BY <1>0, <3>2 DEF Lives
      <4> QED BY <1>0, <2>0, <2>1, <3>2, <4>1, <4>2 DEF Launch, HelperTypeOK, pipes
    <3> QED BY <2>1, <3>1, <3>2 DEF Launch
  <2>2. CASE Register(t)
    <3>1. p \in Pids /\ task' \in [Requests -> TaskState]
      BY <1>2, <1>3, <2>2 DEF Register, At, Launching, Places
    <3> QED BY <1>0, <2>0, <2>2, <3>1 DEF Register, HelperTypeOK, pipes
  <2>3. CASE Store(t)
    <3>1. task' \in [Requests -> TaskState]
      BY <1>2, <2>3 DEF Store
    <3>2. p \in Pids
      BY <1>3, <2>3 DEF Store, At, Launching
    <3> QED BY <1>0, <2>3, <3>1, <3>2 DEF Store, HelperTypeOK, pipes, Answers
  <2>4. CASE Check(t)
    <3>1. p \in Pids
      BY <1>3, <2>4 DEF Check, At, Commanding
    <3>2. task' \in [Requests -> TaskState]
      BY <1>2, <2>4 DEF Check, Places
    <3>3. registry' \subseteq Pids /\ left' \subseteq Pids /\ inbox' \in [Pids -> Seq(Lines)]
      BY <1>0, <1>4, <2>4 DEF Check, pipes
    <3>4. outbox' \in [Pids -> Seq(Lines)] /\ queue' \in Seq(Requests)
      BY <1>0, <1>6, <2>0, <2>4, <3>1 DEF Check, pipes
    <3> QED BY <1>0, <2>4, <3>2, <3>3, <3>4 DEF Check, HelperTypeOK
  <2>5. CASE Write(t)
    <3>1. p \in Pids
      BY <1>3, <2>5 DEF Write, At, Commanding
    <3>2. task' \in [Requests -> TaskState]
      <4>1. CASE Reads(t)
        <5>1. [task[t] EXCEPT !.at = "read", !.answer = "ready"] \in TaskState
          <6>1. PICK r \in TaskState : r = task[t]
            BY <1>0
          <6>2. [r EXCEPT !.at = "read", !.answer = "ready"] \in TaskState
            BY <6>1 DEF TaskState, Places, Answers
          <6> QED BY <6>1, <6>2
        <5>2. task' = [task EXCEPT ![t] = [task[t] EXCEPT !.at = "read", !.answer = "ready"]]
          BY <1>0, <4>1 DEF Reads
        <5> QED BY <1>a, <5>1, <5>2
      <4>2. CASE Ends(t)
        BY <1>2, <4>2
      <4> QED BY <2>5, <4>1, <4>2 DEF Write
    <3>3. Written(t, p) => inbox' \in [Pids -> Seq(Lines)]
      <4>1. [answer |-> task[t].answer, of |-> t] \in Lines
        BY <1>0 DEF Lines, TaskState
      <4>2. inbox[p] \in Seq(Lines)
        BY <1>0, <3>1
      <4> DEFINE more == Append(inbox[p], [answer |-> task[t].answer, of |-> t])
      <4>3. more \in Seq(Lines)
        BY <4>1, <4>2
      <4>4. Written(t, p) => inbox' = [inbox EXCEPT ![p] = more]
        BY DEF Written
      <4> HIDE DEF more
      <4> QED BY <1>0, <4>3, <4>4
    <3> QED BY <1>0, <2>0, <2>5, <3>2, <3>3 DEF Write, HelperTypeOK
  <2>6. CASE Read(t)
    <3>1. p \in Pids /\ outbox[p] # << >>
      BY <1>3, <2>6 DEF Read, At, Commanding
    <3>2. outbox[p] \in Seq(Lines) /\ Head(outbox[p]) \in Lines /\ Tail(outbox[p]) \in Seq(Lines)
      BY <1>0, <3>1
    <3>3. PICK line \in Lines : line = Head(outbox[p])
      BY <3>2
    <3>4. PICK gone : gone = Removed(p, line.answer)
      OBVIOUS
    <3>5. /\ Dropped(gone)
          /\ outbox' = [outbox EXCEPT ![p] = IF p \in gone THEN << >> ELSE Tail(@)]
          /\ life' = IF p \in gone THEN [life EXCEPT ![p] = "gone"] ELSE life
          /\ task' = [task EXCEPT ![t] = [at |-> "apply", pid |-> p, answer |-> line.answer,
                                          mine |-> line.of = t]]
          /\ queue' = Without(t)
          /\ UNCHANGED <<row, late>>
      BY <2>6, <3>3, <3>4 DEF Read
    <3>6. [at |-> "apply", pid |-> p, answer |-> line.answer, mine |-> line.of = t] \in TaskState
      BY <3>1 DEF TaskState, Places, Lines
    <3>7. task' \in [Requests -> TaskState]
      BY <1>0, <3>5, <3>6
    <3>8. outbox' \in [Pids -> Seq(Lines)]
      <4>1. outbox' = [outbox EXCEPT ![p] = IF p \in gone THEN << >> ELSE Tail(outbox[p])]
        BY <1>0, <3>1, <3>5
      <4>2. (IF p \in gone THEN << >> ELSE Tail(outbox[p])) \in Seq(Lines)
        BY <3>2
      <4> QED BY <1>0, <4>1, <4>2
    <3>9. life' \in [Pids -> Lives]
      BY <1>0, <3>5 DEF Lives
    <3> QED BY <1>0, <1>4, <2>0, <3>5, <3>7, <3>8, <3>9 DEF HelperTypeOK
  <2>7. CASE EndOfFile(t)
    <3>1. task' \in [Requests -> TaskState]
      BY <1>2, <2>7 DEF EndOfFile
    <3>2. registry' \subseteq Pids /\ left' \subseteq Pids /\ inbox' \in [Pids -> Seq(Lines)]
      BY <1>4, <2>7 DEF EndOfFile
    <3> QED BY <1>0, <2>0, <2>7, <3>1, <3>2 DEF EndOfFile, HelperTypeOK
  <2>8. CASE Timeout(t)
    <3>1. p \in Pids
      BY <1>3, <2>8 DEF Timeout, At, Commanding
    <3>2. task' \in [Requests -> TaskState]
      BY <1>2, <2>8 DEF Timeout
    <3>3. /\ inbox' \in [Pids -> Seq(Lines)] /\ outbox' \in [Pids -> Seq(Lines)]
          /\ late' \subseteq Pids
      BY <1>5, <2>8, <3>1 DEF Timeout
    <3> QED BY <1>0, <2>0, <2>8, <3>2, <3>3 DEF Timeout, HelperTypeOK
  <2>9. CASE Apply(t)
    <3>1. task[t].answer \in Answers
      BY <1>0 DEF TaskState
    <3>2. row' \in [status : Answers \cup {"none"}, pid : Pids \cup {0}]
      BY <1>0, <2>9, <3>1 DEF Apply
    <3>3. task' \in [Requests -> TaskState]
      BY <1>2, <2>9 DEF Apply
    <3> QED BY <1>0, <2>9, <3>2, <3>3 DEF Apply, HelperTypeOK, pipes
  <2> QED BY <1>8, <2>1, <2>2, <2>3, <2>4, <2>5, <2>6, <2>7, <2>8, <2>9 DEF Continue
<1>9. ASSUME NEW t \in Requests, HangsUp(t) PROVE HelperTypeOK'
  <2> DEFINE p == task[t].pid
  <2>1. Without(t) \in Seq(Requests) /\ task' \in [Requests -> TaskState]
    <3>1. task' \in [Requests -> TaskState]
      BY <1>2, <1>9 DEF HangsUp
    <3> QED BY <3>1, WithoutIs
  <2>2. life' \in [Pids -> Lives]
    BY <1>0, <1>9 DEF HangsUp, Lives
  <2>3. /\ inbox' \in [Pids -> Seq(Lines)] /\ outbox' \in [Pids -> Seq(Lines)]
        /\ late' \subseteq Pids
    <3>1. CASE At(t, "read")
      <4>1. p \in Pids
        BY <1>3, <3>1 DEF At, Commanding
      <4> QED BY <1>5, <1>9, <3>1, <4>1 DEF HangsUp
    <3>2. CASE ~At(t, "read")
      BY <1>0, <1>9, <3>2 DEF HangsUp, pipes
    <3> QED BY <3>1, <3>2
  <2>4. left' \subseteq Pids
    BY <1>0, <1>3, <1>9 DEF HangsUp, At, Launching
  <2> QED BY <1>0, <1>9, <2>1, <2>2, <2>3, <2>4 DEF HangsUp, HelperTypeOK
<1>10. ASSUME NEW p \in Pids, Reply(p) PROVE HelperTypeOK'
  <2>1. inbox[p] \in Seq(Lines) /\ inbox[p] # << >> /\ outbox[p] \in Seq(Lines)
    BY <1>0, <1>10 DEF Reply
  <2>2. Head(inbox[p]) \in Lines /\ Tail(inbox[p]) \in Seq(Lines)
    BY <2>1
  <2>3. Append(outbox[p], Head(inbox[p])) \in Seq(Lines)
    BY <2>1, <2>2
  <2>4. inbox' \in [Pids -> Seq(Lines)] /\ outbox' \in [Pids -> Seq(Lines)]
    BY <1>0, <1>10, <2>2, <2>3 DEF Reply
  <2>5. life' \in [Pids -> Lives]
    BY <1>0, <1>10 DEF Reply, Lives
  <2> QED BY <1>0, <1>10, <2>4, <2>5 DEF Reply, HelperTypeOK
<1>11. ASSUME NEW p \in Pids, Die(p) PROVE HelperTypeOK'
  BY <1>0, <1>11 DEF Die, HelperTypeOK, pipes, Lives
<1>12. CASE Restart
  BY <1>0, <1>1, <1>12 DEF Restart, HelperTypeOK, Lives
<1>13. CASE UNCHANGED helperVars
  BY <1>0, <1>13 DEF helperVars, HelperTypeOK, pipes
<1> QED BY <1>7, <1>8, <1>9, <1>10, <1>11, <1>12, <1>13 DEF HelperNext

-----------------------------------------------------------------------------
(* The registry and the row.                                               *)

\* A helper that is to be stored is known to nobody else.
Fresh ==
  \A t \in Requests :
    task[t].at \in Launching =>
      /\ task[t].pid # row.pid
      /\ \A u \in Requests \ {t} : task[u].pid # task[t].pid

\* A helper that has said it ended was removed, and nobody registers it again.
Spent ==
  \A t \in Requests :
    At(t, "apply") /\ task[t].answer = "ended" => task[t].pid \notin registry

Told == Launched /\ Fresh /\ Spent /\ RegistryIsTold

\* A request that rests or is about to launch.
Clear(state) == state.at \in {"idle", "launch"} /\ state.pid = 0

\* A request that goes on with the pid it has.
GoesOn(t) ==
  /\ task[t].at \in Commanding /\ task'[t].at \in Commanding
  /\ task'[t].pid = task[t].pid
  /\ task'[t].at = "apply" /\ task'[t].answer = "ended" => task'[t].pid \notin registry'

\* Steps that launch nothing and store nothing: they may take helpers out of the
\* registry, and requests may end.
LEMMA Quiet ==
  ASSUME HelperTypeOK, Told, row' = row,
         \A p \in Pids : life[p] # "none" => life'[p] # "none",
         registry' \subseteq registry, registry' \ left' \subseteq registry \ left,
         \A t \in Requests : task'[t] = task[t] \/ Clear(task'[t]) \/ GoesOn(t),
         \A t \in Requests :
           At(t, "store") => \/ task'[t] = task[t]
                             \/ task[t].pid \notin registry' \ left'
  PROVE  Told'
<1>0. /\ 0 \notin Pids /\ row.pid \in Pids \cup {0}
      /\ \A t \in Requests : task[t].pid \in Pids \cup {0}
      /\ registry \subseteq Pids
  BY NativeAssumption DEF HelperTypeOK, TaskState
<1>1. Launched'
  BY <1>0 DEF Told, Launched, Clear, GoesOn, Launching, Commanding
<1>2. Fresh'
  <2> SUFFICES ASSUME NEW t \in Requests, task'[t].at \in Launching
               PROVE  /\ task'[t].pid # row'.pid
                      /\ \A u \in Requests \ {t} : task'[u].pid # task'[t].pid
    BY DEF Fresh
  <2>1. task'[t] = task[t]
    BY DEF Clear, GoesOn, Launching, Commanding
  <2>2. task[t].pid # 0 /\ task[t].pid # row.pid
    BY <2>1 DEF Told, Launched, Fresh
  <2>3. ASSUME NEW u \in Requests \ {t} PROVE task'[u].pid # task'[t].pid
    <3>1. task'[u].pid = task[u].pid \/ task'[u].pid = 0
      BY DEF Clear, GoesOn
    <3>2. task[u].pid # task[t].pid
      BY <2>1 DEF Told, Fresh
    <3> QED BY <2>1, <2>2, <3>1, <3>2
  <2> QED BY <2>1, <2>2, <2>3
<1>3. Spent'
  <2> SUFFICES ASSUME NEW t \in Requests, task'[t].at = "apply", task'[t].answer = "ended"
               PROVE  task'[t].pid \notin registry'
    BY DEF Spent, At
  <2>1. CASE task'[t] = task[t]
    BY <2>1 DEF Told, Spent, At
  <2>2. CASE Clear(task'[t])
    BY <2>2 DEF Clear
  <2>3. CASE GoesOn(t)
    BY <2>3 DEF GoesOn
  <2> QED BY <2>1, <2>2, <2>3
<1>4. RegistryIsTold'
  <2> SUFFICES ASSUME NEW p \in registry' \ left'
               PROVE  \/ row'.pid = p /\ row'.status # "ended"
                      \/ \E t \in Requests : task'[t].at = "store" /\ task'[t].pid = p
    BY DEF RegistryIsTold, At
  <2>1. CASE row.pid = p /\ row.status # "ended"
    BY <2>1
  <2>2. ASSUME NEW t \in Requests, At(t, "store"), task[t].pid = p
        PROVE  task'[t].at = "store" /\ task'[t].pid = p
    BY <2>2 DEF At
  <2> QED BY <2>1, <2>2 DEF Told, RegistryIsTold
<1> QED BY <1>1, <1>2, <1>3, <1>4 DEF Told

\* A request that ends is clear, and the others stay as they are.
LEMMA EndsIs ==
  ASSUME HelperTypeOK, NEW t \in Requests, Ends(t)
  PROVE  /\ \A u \in Requests : task'[u] = task[u] \/ Clear(task'[u])
         /\ \A u \in Requests \ {t} : task'[u] = task[u]
         /\ task'[t].at = "idle" /\ task'[t].pid = 0
<1>1. /\ \A u \in Requests \ {t} : task'[u] = task[u]
      /\ task'[t] = Resting
  BY DEF HelperTypeOK, Ends
<1> QED BY <1>1 DEF Resting, Clear

\* Requests begin; a command takes the pid from the row.
LEMMA ArrivesTold ==
  ASSUME HelperTypeOK, Told, NEW t \in Requests, Arrives(t)
  PROVE  Told'
<1>0. /\ 0 \notin Pids /\ row.pid \in Pids \cup {0}
      /\ task \in [Requests -> TaskState] /\ registry \subseteq Pids
  BY NativeAssumption DEF HelperTypeOK
<1>1. CASE Create(t) \/ Recover(t)
  <2>1. /\ At(t, "idle") /\ UNCHANGED <<row, life, registry, left>>
        /\ task' = [task EXCEPT ![t] = [Resting EXCEPT !.at = "launch"]]
    BY <1>1 DEF Create, Recover, Admit
  <2>2. /\ \A u \in Requests \ {t} : task'[u] = task[u]
        /\ Clear(task'[t])
    BY <1>0, <2>1 DEF Clear, Resting
  <2>3. ~At(t, "store")
    BY <2>1 DEF At
  <2> QED BY <2>1, <2>2, <2>3, Quiet
<1>2. ASSUME NEW answer \in Answers, Command(t, answer) PROVE Told'
  <2>1. /\ task[t].at = "idle" /\ row.pid # 0 /\ UNCHANGED <<row, life, registry, left>>
        /\ \A u \in Requests \ {t} : task'[u] = task[u]
        /\ task'[t].at = "check" /\ task'[t].pid = row.pid
    BY <1>0, <1>2 DEF Command, Admit, At, Resting, Told, Launched
  <2>2. Launched'
    BY <2>1 DEF Told, Launched, Launching, Commanding
  <2>3. Fresh'
    BY <2>1 DEF Told, Fresh, Launching
  <2>4. Spent'
    BY <2>1 DEF Told, Spent, At
  <2>5. RegistryIsTold'
    BY <2>1 DEF Told, RegistryIsTold, At
  <2> QED BY <2>2, <2>3, <2>4, <2>5 DEF Told
<1> QED BY <1>1, <1>2 DEF Arrives

\* A new helper has a pid that no helper had before it.
LEMMA LaunchTold ==
  ASSUME HelperTypeOK, Told, NEW t \in Requests, Launch(t)
  PROVE  Told'
<1>0. /\ 0 \notin Pids /\ row.pid \in Pids \cup {0}
      /\ task \in [Requests -> TaskState] /\ registry \subseteq Pids
      /\ life \in [Pids -> Lives]
      /\ At(t, "launch") /\ UNCHANGED <<row, registry, left>>
  BY NativeAssumption DEF HelperTypeOK, Launch
<1>1. CASE Ends(t) /\ UNCHANGED life
  <2>1. \A u \in Requests : At(u, "store") => task'[u] = task[u]
    BY <1>0, <1>1, EndsIs DEF At
  <2> QED BY <1>0, <1>1, <2>1, EndsIs, Quiet
<1>2. ASSUME NEW p \in Pids, life[p] = "none", life' = [life EXCEPT ![p] = "up"],
             task' = [task EXCEPT ![t].at = "register", ![t].pid = p]
      PROVE  Told'
  <2>1. /\ task[t].at = "launch"
        /\ \A u \in Requests \ {t} : task'[u] = task[u]
        /\ task'[t].at = "register" /\ task'[t].pid = p
    BY <1>0, <1>2 DEF At, TaskState
  <2>2. \A q \in Pids : life[q] # "none" => life'[q] # "none" /\ q # p
    BY <1>0, <1>2
  <2>3. life'[p] # "none" /\ p # 0 /\ p # row.pid /\ \A u \in Requests : task[u].pid # p
    BY <1>0, <1>2 DEF Told, Launched
  <2>4. Launched'
    BY <1>0, <2>1, <2>2, <2>3 DEF Told, Launched, Launching, Commanding, TaskState
  <2>5. Fresh'
    BY <1>0, <2>1, <2>3 DEF Told, Fresh
  <2>6. Spent'
    BY <1>0, <2>1 DEF Told, Spent, At
  <2>7. RegistryIsTold'
    BY <1>0, <2>1 DEF Told, RegistryIsTold, At
  <2> QED BY <2>4, <2>5, <2>6, <2>7 DEF Told
<1> QED BY <1>1, <1>2 DEF Launch

\* The registry gets a helper that is about to be stored, and no other request is
\* concerned with it.
LEMMA RegisterTold ==
  ASSUME HelperTypeOK, Told, NEW t \in Requests, Register(t)
  PROVE  Told'
<1>0. /\ task \in [Requests -> TaskState]
      /\ task[t].at = "register" /\ UNCHANGED <<row, life, left>>
      /\ registry' = registry \cup {task[t].pid}
  BY DEF HelperTypeOK, Register, At
<1>1. /\ \A u \in Requests \ {t} : task'[u] = task[u]
      /\ task'[t].at = "store" /\ task'[t].pid = task[t].pid
  BY <1>0 DEF Register, Goes, TaskState
<1>2. Launched'
  BY <1>0, <1>1 DEF Told, Launched, Launching, Commanding
<1>3. Fresh'
  BY <1>0, <1>1 DEF Told, Fresh, Launching
<1>4. Spent'
  BY <1>0, <1>1 DEF Told, Spent, Fresh, Launching, At
<1>5. RegistryIsTold'
  BY <1>0, <1>1 DEF Told, RegistryIsTold, At
<1> QED BY <1>2, <1>3, <1>4, <1>5 DEF Told

\* The row turns to the new helper; the one it named is left over if it is still
\* registered.
LEMMA StoreTold ==
  ASSUME HelperTypeOK, Told, NEW t \in Requests, Store(t)
  PROVE  Told'
<1>0. /\ task[t].at = "store" /\ UNCHANGED <<life, registry>>
      /\ row' = [status |-> "ready", pid |-> task[t].pid]
      /\ left' = left \cup ({row.pid} \cap registry)
  BY DEF Store, At, pipes
<1>1. /\ \A u \in Requests \ {t} : task'[u] = task[u]
      /\ task'[t].at = "idle" /\ task'[t].pid = 0
  BY EndsIs DEF Store
<1>2. task[t].pid # 0 /\ life[task[t].pid] # "none"
  BY <1>0 DEF Told, Launched, Launching
<1>3. \A u \in Requests \ {t} : task[u].pid # task[t].pid
  BY <1>0 DEF Told, Fresh, Launching
<1>4. Launched'
  BY <1>0, <1>1, <1>2 DEF Told, Launched, Launching, Commanding
<1>5. Fresh'
  BY <1>0, <1>1, <1>2, <1>3 DEF Told, Fresh, Launching, Launched
<1>6. Spent'
  BY <1>0, <1>1 DEF Told, Spent, At
<1>7. RegistryIsTold'
  BY <1>0, <1>1 DEF Told, RegistryIsTold, At
<1> QED BY <1>4, <1>5, <1>6, <1>7 DEF Told

\* A status falls on the row whoever it names: what it ends of another helper is
\* left over, and the helper it is about was removed before it.
LEMMA ApplyTold ==
  ASSUME HelperTypeOK, Told, NEW t \in Requests, Apply(t)
  PROVE  Told'
<1>0. /\ task \in [Requests -> TaskState]
      /\ row \in [status : Answers \cup {"none"}, pid : Pids \cup {0}]
      /\ task[t].at = "apply" /\ UNCHANGED <<life, registry>>
      /\ row' = [row EXCEPT !.status = task[t].answer]
      /\ left' = IF task[t].answer = "ended" /\ task[t].pid # row.pid
                 THEN left \cup ({row.pid} \cap registry) ELSE left
  BY DEF HelperTypeOK, Apply, At, pipes
<1>1. /\ \A u \in Requests \ {t} : task'[u] = task[u]
      /\ task'[t].at = "idle" /\ task'[t].pid = 0
  BY EndsIs DEF Apply
<1>2. row'.pid = row.pid /\ row'.status = task[t].answer
  BY <1>0
<1>3. row.pid # 0 /\ task[t].answer # "none"
  BY <1>0 DEF Told, Launched, Commanding, TaskState, Answers
<1>4. Launched'
  BY <1>0, <1>1, <1>2, <1>3 DEF Told, Launched, Launching, Commanding
<1>5. Fresh'
  <2>1. \A u \in Requests : task[u].at \in Launching => task[u].pid # 0
    BY DEF Told, Launched
  <2> QED BY <1>1, <1>2, <2>1 DEF Told, Fresh, Launching
<1>6. Spent'
  BY <1>0, <1>1 DEF Told, Spent, At
<1>7. RegistryIsTold'
  <2> SUFFICES ASSUME NEW p \in registry' \ left'
               PROVE  \/ row'.pid = p /\ row'.status # "ended"
                      \/ \E u \in Requests : task'[u].at = "store" /\ task'[u].pid = p
    BY DEF RegistryIsTold, At
  <2>1. p \in registry \ left
    BY <1>0
  <2>2. CASE row.pid = p /\ row.status # "ended"
    <3>1. task[t].answer # "ended"
      BY <1>0, <2>1, <2>2 DEF Told, Spent, At
    <3> QED BY <1>2, <2>2, <3>1
  <2>3. ASSUME NEW u \in Requests, task[u].at = "store", task[u].pid = p
        PROVE  task'[u].at = "store" /\ task'[u].pid = p
    BY <1>0, <1>1, <2>3
  <2> QED BY <2>1, <2>2, <2>3 DEF Told, RegistryIsTold, At
<1> QED BY <1>4, <1>5, <1>6, <1>7 DEF Told

\* A command of a helper that is not there any more takes it out of the registry.
LEMMA CheckTold ==
  ASSUME HelperTypeOK, Told, NEW t \in Requests, Check(t)
  PROVE  Told'
<1>0. /\ task \in [Requests -> TaskState] /\ task[t].at = "check"
      /\ UNCHANGED <<row, life>>
  BY DEF HelperTypeOK, Check, At
<1>1. CASE Goes(t, "write") /\ UNCHANGED <<registry, left>>
  <2>1. /\ \A u \in Requests \ {t} : task'[u] = task[u]
        /\ task'[t].at = "write" /\ task'[t].pid = task[t].pid
    BY <1>0, <1>1 DEF Goes, TaskState
  <2>2. GoesOn(t)
    BY <1>0, <2>1 DEF GoesOn, Commanding
  <2>3. \A u \in Requests : At(u, "store") => task'[u] = task[u]
    BY <1>0, <2>1 DEF At
  <2> QED BY <1>0, <1>1, <2>1, <2>2, <2>3, Quiet
<1>2. CASE Ends(t) /\ Dropped({task[t].pid})
  <2>1. registry' \subseteq registry /\ registry' \ left' \subseteq registry \ left
    BY <1>2 DEF Dropped
  <2>2. \A u \in Requests : At(u, "store") => task'[u] = task[u]
    BY <1>0, <1>2, EndsIs DEF At
  <2> QED BY <1>0, <1>2, <2>1, <2>2, EndsIs, Quiet
<1> QED BY <1>1, <1>2 DEF Check

\* A command goes on to wait for its answer, or fails.
LEMMA WriteTold ==
  ASSUME HelperTypeOK, Told, NEW t \in Requests, Write(t)
  PROVE  Told'
<1>0. /\ task \in [Requests -> TaskState] /\ task[t].at = "write"
      /\ UNCHANGED <<row, life, registry, left>>
  BY DEF HelperTypeOK, Write, At
<1>1. CASE Reads(t)
  <2>1. /\ \A u \in Requests \ {t} : task'[u] = task[u]
        /\ task'[t].at = "read" /\ task'[t].pid = task[t].pid
    BY <1>0, <1>1 DEF Reads, TaskState
  <2>2. GoesOn(t)
    BY <1>0, <2>1 DEF GoesOn, Commanding
  <2>3. \A u \in Requests : At(u, "store") => task'[u] = task[u]
    BY <1>0, <2>1 DEF At
  <2> QED BY <1>0, <2>1, <2>2, <2>3, Quiet
<1>2. CASE Ends(t)
  <2>1. \A u \in Requests : At(u, "store") => task'[u] = task[u]
    BY <1>0, <1>2, EndsIs DEF At
  <2> QED BY <1>0, <1>2, <2>1, EndsIs, Quiet
<1> QED BY <1>1, <1>2 DEF Write

\* An answer that says the helper has ended takes it out of the registry first.
LEMMA ReadTold ==
  ASSUME HelperTypeOK, Told, NEW t \in Requests, Read(t)
  PROVE  Told'
<1>1. PICK p, line, gone : /\ p = task[t].pid /\ line = Head(outbox[p])
                           /\ gone = Removed(p, line.answer)
  OBVIOUS
<1>2. /\ task[t].at = "read" /\ Dropped(gone)
      /\ life' = IF p \in gone THEN [life EXCEPT ![p] = "gone"] ELSE life
      /\ task' = [task EXCEPT ![t] = [at |-> "apply", pid |-> p, answer |-> line.answer,
                                      mine |-> line.of = t]]
      /\ UNCHANGED row
  BY <1>1 DEF Read, At
<1>3. /\ \A u \in Requests \ {t} : task'[u] = task[u]
      /\ task'[t].at = "apply" /\ task'[t].pid = p /\ task'[t].answer = line.answer
  BY <1>2 DEF HelperTypeOK
<1>4. registry' \subseteq registry /\ registry' \ left' \subseteq registry \ left
  BY <1>2 DEF Dropped
<1>5. line.answer = "ended" => p \notin registry'
  BY <1>1, <1>2 DEF Dropped, Removed
<1>6. GoesOn(t)
  BY <1>1, <1>2, <1>3, <1>5 DEF GoesOn, Commanding
<1>7. \A q \in Pids : life[q] # "none" => life'[q] # "none"
  BY <1>2 DEF HelperTypeOK
<1>8. \A u \in Requests : At(u, "store") => task'[u] = task[u]
  BY <1>2, <1>3 DEF At
<1> QED BY <1>2, <1>3, <1>4, <1>6, <1>7, <1>8, Quiet

\* A command that gets no answer ends.
LEMMA NoAnswerTold ==
  ASSUME HelperTypeOK, Told, NEW t \in Requests, EndOfFile(t) \/ Timeout(t)
  PROVE  Told'
<1>1. /\ Ends(t) /\ task[t].at = "read" /\ UNCHANGED <<row, life>>
      /\ registry' \subseteq registry /\ registry' \ left' \subseteq registry \ left
  BY DEF EndOfFile, Timeout, At, Dropped
<1>2. \A u \in Requests : At(u, "store") => task'[u] = task[u]
  BY <1>1, EndsIs DEF At
<1> QED BY <1>1, <1>2, EndsIs, Quiet

\* A client that hangs up may leave a helper registered that nobody stores.
LEMMA HangsUpTold ==
  ASSUME HelperTypeOK, Told, NEW t \in Requests, HangsUp(t)
  PROVE  Told'
<1>1. /\ Ends(t) /\ UNCHANGED <<row, registry>>
      /\ life' = IF At(t, "register") THEN [life EXCEPT ![task[t].pid] = "gone"] ELSE life
      /\ left' = IF At(t, "store") THEN left \cup {task[t].pid} ELSE left
  BY DEF HangsUp
<1>2. \A q \in Pids : life[q] # "none" => life'[q] # "none"
  BY <1>1 DEF HelperTypeOK
<1>3. \A u \in Requests :
        At(u, "store") => task'[u] = task[u] \/ task[u].pid \notin registry' \ left'
  BY <1>1, EndsIs
<1> QED BY <1>1, <1>2, <1>3, EndsIs, Quiet

\* Each action keeps the registry told.
LEMMA ToldStep ==
  ASSUME HelperTypeOK, Told, [HelperNext]_helperVars
  PROVE  Told'
<1>1. ASSUME NEW t \in Requests, Arrives(t) \/ Continue(t) \/ HangsUp(t) PROVE Told'
  BY <1>1, ArrivesTold, LaunchTold, RegisterTold, StoreTold, CheckTold, WriteTold,
     ReadTold, NoAnswerTold, ApplyTold, HangsUpTold DEF Continue
<1>2. ASSUME NEW p \in Pids, Reply(p) \/ Die(p) PROVE Told'
  <2>1. /\ UNCHANGED <<row, registry, task, left>>
        /\ life' = life \/ life' = [life EXCEPT ![p] = "gone"]
    BY <1>2 DEF Reply, Die
  <2>2. \A q \in Pids : life[q] # "none" => life'[q] # "none"
    BY <2>1 DEF HelperTypeOK
  <2> QED BY <2>1, <2>2, Quiet
<1>3. CASE Restart
  <2>1. /\ \A t \in Requests : Clear(task'[t])
        /\ registry' = {} /\ UNCHANGED row
        /\ \A q \in Pids : life[q] # "none" => life'[q] # "none"
    BY <1>3 DEF Restart, Resting, Clear
  <2> QED BY <2>1, Quiet
<1>4. CASE UNCHANGED helperVars
  BY <1>4, Quiet DEF helperVars
<1> QED BY <1>1, <1>2, <1>3, <1>4 DEF HelperNext

\* A session that has no helper yet.
LEMMA NoHelperYet == HelperInit => HelperTypeOK /\ Told
<1>1. HelperInit => HelperTypeOK
  <2>1. Resting \in TaskState
    BY DEF Resting, TaskState, Places, Answers
  <2> QED BY <2>1, NativeAssumption DEF HelperInit, HelperTypeOK, Lives
<1>2. HelperInit => Told
  BY DEF HelperInit, Told, Launched, Fresh, Spent, RegistryIsTold, Resting, At,
         Launching, Commanding
<1> QED BY <1>1, <1>2

\* The invariant of the session.
LEMMA HelperHolds == HelperSpec => [](HelperTypeOK /\ Told)
<1>1. HelperTypeOK /\ Told /\ [HelperNext]_helperVars => (HelperTypeOK /\ Told)'
  BY HelperTypes, ToldStep DEF Told
<1> QED BY <1>1, NoHelperYet, PTL DEF HelperSpec

\* Row, processes, pipes, registry, queue and requests keep to their types
\* (native/ of vanta-obs).
THEOREM HelperTypesHold == HelperSpec => []HelperTypeOK
BY HelperHolds, PTL

\* A registered helper is the one the row says is running or one about to be
\* stored, but for those on record: for any number of requests, helpers and lines,
\* however commands, recoveries, hang-ups and restarts cross (supervisor.rs,
\* service.rs, store.rs).
THEOREM RegistryHolds == HelperSpec => []RegistryIsTold
BY HelperHolds, PTL DEF Told

-----------------------------------------------------------------------------
(* Commands and their answers.                                             *)

\* A command is written and its answer read with the Mutex in hand.
Turns == \A t \in Requests : task[t].at \in {"write", "read"} => Holds(t)

\* The request a line belongs to waits for it.
Awaited(line, p) ==
  line.of \in Requests /\ task[line.of].at = "read" /\ task[line.of].pid = p

\* A helper none of whose commands was given up has one line to answer at most,
\* and the command it belongs to waits for the answer.
Paired ==
  \A p \in Pids \ late :
    /\ Len(inbox[p]) + Len(outbox[p]) <= 1
    /\ inbox[p] # << >> => Awaited(inbox[p][1], p)
    /\ outbox[p] # << >> => Awaited(outbox[p][1], p)

Answered == Turns /\ Paired /\ AnswersMatch

\* The pipes of a helper with no line in them.
Emptied(p) == inbox'[p] = << >> /\ outbox'[p] = << >>

\* The sequences that matter are short.
LEMMA ShortIs ==
  ASSUME NEW lines \in Seq(Lines)
  PROVE  /\ Len(lines) \in Nat
         /\ lines # << >> => Len(lines) > 0 /\ Head(lines) = lines[1]
         /\ Len(lines) = 0 => lines = << >>
         /\ Len(lines) = 1 => Tail(lines) = << >>
<1>1. Len(lines) \in Nat /\ (Len(lines) = 0 => lines = << >>)
  BY EmptySeq
<1>2. lines # << >> => Len(lines) > 0 /\ Head(lines) = lines[1]
  BY <1>1
<1>3. ASSUME Len(lines) = 1 PROVE Tail(lines) = << >>
  <2>1. Tail(lines) \in Seq(Lines) /\ Len(Tail(lines)) = 0
    BY <1>3
  <2> QED BY <2>1, EmptySeq
<1> QED BY <1>1, <1>2, <1>3

\* The request at the head of the queue is one.
LEMMA OneTurn ==
  ASSUME Turns, NEW t \in Requests, NEW u \in Requests,
         task[t].at \in {"write", "read"}, task[u].at \in {"write", "read"}
  PROVE  t = u
BY DEF Turns, Holds

\* A request moves in the queue and keeps its turn.
LEMMA TurnsKept ==
  ASSUME HelperTypeOK, Turns, NEW t \in Requests,
         \A u \in Requests \ {t} : task'[u] = task[u],
         queue' \in {queue, Without(t), Append(queue, t)},
         task'[t].at \in {"write", "read"} => Holds(t) /\ queue' = queue
  PROVE  Turns'
<1> SUFFICES ASSUME NEW u \in Requests, task'[u].at \in {"write", "read"}
             PROVE  queue' # << >> /\ Head(queue') = u
  BY DEF Turns, Holds
<1>1. CASE u = t
  BY <1>1 DEF Holds
<1>2. CASE u # t
  <2>1. Holds(u)
    BY <1>2 DEF Turns
  <2>2. CASE queue' = queue
    BY <2>1, <2>2 DEF Holds
  <2>3. CASE queue' = Without(t)
    BY <1>2, <2>1, <2>3, WithoutIs
  <2>4. CASE queue' = Append(queue, t)
    BY <2>1, <2>4, Queues
  <2> QED BY <2>2, <2>3, <2>4
<1> QED BY <1>1, <1>2

\* Lines stay where they are, or go with the request they belong to.
LEMMA PairedKept ==
  ASSUME HelperTypeOK, Paired, NEW t \in Requests,
         \A u \in Requests \ {t} : task'[u] = task[u],
         late \subseteq late',
         \A p \in Pids \ late' :
           Emptied(p) \/ (inbox'[p] = inbox[p] /\ outbox'[p] = outbox[p]),
         task[t].at = "read" => \/ task'[t] = task[t] \/ task[t].pid \in late'
                                \/ Emptied(task[t].pid)
  PROVE  Paired'
<1> SUFFICES ASSUME NEW p \in Pids \ late'
             PROVE  /\ Len(inbox'[p]) + Len(outbox'[p]) <= 1
                    /\ inbox'[p] # << >> => Awaited(inbox[p][1], p)'
                    /\ outbox'[p] # << >> => Awaited(outbox[p][1], p)'
  BY DEF Paired, Awaited
<1>1. CASE Emptied(p)
  <2>1. inbox'[p] = << >> /\ outbox'[p] = << >>
    BY <1>1 DEF Emptied
  <2>2. Len(inbox'[p]) = 0 /\ Len(outbox'[p]) = 0
    BY <2>1
  <2> QED BY <2>1, <2>2
<1>2. CASE ~Emptied(p) /\ inbox'[p] = inbox[p] /\ outbox'[p] = outbox[p]
  <2>1. p \in Pids \ late
    OBVIOUS
  <2>2. \A line : Awaited(line, p) => Awaited(line, p)'
    <3> SUFFICES ASSUME NEW line, Awaited(line, p) PROVE Awaited(line, p)'
      OBVIOUS
    <3>1. CASE line.of = t
      BY <1>2, <3>1 DEF Awaited
    <3>2. CASE line.of # t
      BY <3>2 DEF Awaited
    <3> QED BY <3>1, <3>2
  <2>3. /\ Len(inbox[p]) + Len(outbox[p]) <= 1
        /\ inbox[p] # << >> => Awaited(inbox[p][1], p)
        /\ outbox[p] # << >> => Awaited(outbox[p][1], p)
    BY <2>1 DEF Paired
  <2> QED BY <1>2, <2>2, <2>3 DEF Awaited
<1> QED BY <1>1, <1>2

\* A step of one request.
LEMMA Passes ==
  ASSUME HelperTypeOK, Answered, NEW t \in Requests,
         \A u \in Requests \ {t} : task'[u] = task[u],
         queue' \in {queue, Without(t), Append(queue, t)},
         task'[t].at \in {"write", "read"} => Holds(t) /\ queue' = queue,
         late \subseteq late',
         \A p \in Pids \ late' :
           Emptied(p) \/ (inbox'[p] = inbox[p] /\ outbox'[p] = outbox[p]),
         task[t].at = "read" => \/ task'[t] = task[t] \/ task[t].pid \in late'
                                \/ Emptied(task[t].pid),
         task'[t].at = "apply" => task'[t].mine \/ task'[t].pid \in late'
  PROVE  Answered'
<1>1. Turns'
  BY TurnsKept DEF Answered
<1>2. Paired'
  BY PairedKept DEF Answered
<1>3. AnswersMatch'
  BY DEF Answered, AnswersMatch, At
<1> QED BY <1>1, <1>2, <1>3 DEF Answered

\* What a request does that ends, or turns to a step at which it holds nothing.
LEMMA LaunchesAnswered ==
  ASSUME HelperTypeOK, Answered, NEW t \in Requests,
         Arrives(t) \/ Launch(t) \/ Register(t) \/ Store(t) \/ Apply(t)
  PROVE  Answered'
<1>0. task \in [Requests -> TaskState]
  BY DEF HelperTypeOK
<1>1. /\ UNCHANGED <<inbox, outbox, late>>
      /\ queue' \in {queue, Without(t), Append(queue, t)}
      /\ task[t].at \in {"idle", "launch", "register", "store", "apply"}
  BY DEF Arrives, Create, Recover, Command, Admit, Launch, Register, Store, Apply, At, pipes
<1>2. /\ \A u \in Requests \ {t} : task'[u] = task[u]
      /\ task'[t].at \in {"idle", "launch", "check", "register", "store"}
  <2>1. CASE Arrives(t)
    BY <1>0, <2>1 DEF Arrives, Create, Recover, Command, Admit, Resting
  <2>2. CASE Launch(t)
    <3>1. CASE Ends(t)
      BY <3>1, EndsIs
    <3>2. ASSUME NEW p \in Pids, task' = [task EXCEPT ![t].at = "register", ![t].pid = p]
          PROVE  /\ \A u \in Requests \ {t} : task'[u] = task[u]
                 /\ task'[t].at = "register"
      BY <1>0, <3>2 DEF TaskState
    <3> QED BY <2>2, <3>1, <3>2 DEF Launch
  <2>3. CASE Register(t)
    BY <1>0, <2>3 DEF Register, Goes, TaskState
  <2>4. CASE Store(t) \/ Apply(t)
    BY <2>4, EndsIs DEF Store, Apply
  <2> QED BY <2>1, <2>2, <2>3, <2>4
<1> QED BY <1>1, <1>2, Passes

\* The liveness check writes nothing and may empty the pipes.
LEMMA CheckAnswered ==
  ASSUME HelperTypeOK, Answered, NEW t \in Requests, Check(t)
  PROVE  Answered'
<1>0. /\ task \in [Requests -> TaskState] /\ task[t].at = "check" /\ Holds(t)
      /\ late' = late
  BY DEF HelperTypeOK, Check, At
<1>1. CASE Goes(t, "write") /\ UNCHANGED <<queue, registry, left, pipes>>
  <2>1. /\ \A u \in Requests \ {t} : task'[u] = task[u]
        /\ task'[t].at = "write"
    BY <1>0, <1>1 DEF Goes, TaskState
  <2> QED BY <1>0, <1>1, <2>1, Passes DEF pipes
<1>2. CASE /\ Ends(t) /\ queue' = Without(t) /\ Dropped({task[t].pid})
           /\ outbox' = [outbox EXCEPT ![task[t].pid] = << >>]
  <2>1. \A p \in Pids : Emptied(p) \/ (inbox'[p] = inbox[p] /\ outbox'[p] = outbox[p])
    BY <1>2 DEF HelperTypeOK, Dropped, Emptied
  <2>2. /\ \A u \in Requests \ {t} : task'[u] = task[u]
        /\ task'[t].at = "idle"
    BY <1>2, EndsIs
  <2> QED BY <1>0, <1>2, <2>1, <2>2, Passes
<1> QED BY <1>1, <1>2 DEF Check

\* The command that is written finds the pipes empty: whoever else has a line in
\* them waits for it with the Mutex in hand.
LEMMA WriteAnswered ==
  ASSUME HelperTypeOK, Launched, Answered, NEW t \in Requests, Write(t)
  PROVE  Answered'
<1> DEFINE p == task[t].pid
<1>0. /\ task \in [Requests -> TaskState] /\ task[t].at = "write" /\ late' = late
      /\ outbox' = outbox /\ Holds(t)
      /\ inbox \in [Pids -> Seq(Lines)] /\ outbox \in [Pids -> Seq(Lines)]
  BY DEF HelperTypeOK, Write, At, Answered, Turns
<1>1. p \in Pids
  BY <1>0 DEF Launched, Commanding, TaskState
<1>2. CASE inbox' = inbox /\ Ends(t) /\ queue' = Without(t)
  <2>1. /\ \A u \in Requests \ {t} : task'[u] = task[u]
        /\ task'[t].at = "idle"
    BY <1>2, EndsIs
  <2> QED BY <1>0, <1>2, <2>1, Passes
<1>3. CASE Written(t, p) /\ Reads(t) /\ queue' = queue
  <2>1. /\ \A u \in Requests \ {t} : task'[u] = task[u]
        /\ task'[t].at = "read" /\ task'[t].pid = p
    BY <1>0, <1>3 DEF Reads, TaskState
  <2>2. Turns'
    BY <1>0, <1>3, <2>1, TurnsKept DEF Answered
  <2>3. \A q \in Pids : \A line : ~Awaited(line, q)
    <3> SUFFICES ASSUME NEW q \in Pids, NEW line, Awaited(line, q) PROVE FALSE
      OBVIOUS
    <3> QED BY <1>0, OneTurn DEF Awaited, Answered
  <2>4. \A q \in Pids \ late : inbox[q] = << >> /\ outbox[q] = << >>
    BY <2>3 DEF Answered, Paired
  <2>5. PICK line : line = [answer |-> task[t].answer, of |-> t]
    OBVIOUS
  <2>6. /\ inbox' = [inbox EXCEPT ![p] = Append(inbox[p], line)]
        /\ line.of = t
    BY <1>0, <1>1, <1>3, <2>5 DEF Written
  <2>7. Paired'
    <3> SUFFICES ASSUME NEW q \in Pids \ late
                 PROVE  /\ Len(inbox'[q]) + Len(outbox'[q]) <= 1
                        /\ inbox'[q] # << >> => Awaited(inbox[q][1], q)'
                        /\ outbox'[q] # << >> => Awaited(outbox[q][1], q)'
      BY <1>0 DEF Paired, Awaited
    <3>1. outbox'[q] = << >>
      BY <1>0, <2>4
    <3>2. CASE q = p
      <4>1. inbox'[q] = Append(<< >>, line)
        BY <1>0, <1>1, <2>4, <2>6, <3>2
      <4>2. Len(Append(<< >>, line)) = 1 /\ Append(<< >>, line)[1] = line
        OBVIOUS
      <4>3. Awaited(line, q)'
        BY <2>1, <2>6, <3>2 DEF Awaited
      <4>4. Len(outbox'[q]) = 0
        BY <3>1
      <4>5. Len(inbox'[q]) = 1 /\ inbox'[q][1] = line
        BY <4>1, <4>2
      <4>6. Awaited(inbox[q][1], q)'
        BY <4>3, <4>5 DEF Awaited
      <4> QED BY <3>1, <4>4, <4>5, <4>6
    <3>3. CASE q # p
      <4>1. inbox'[q] = << >>
        BY <1>0, <1>1, <2>4, <2>6, <3>3
      <4>2. Len(inbox'[q]) = 0 /\ Len(outbox'[q]) = 0
        BY <3>1, <4>1
      <4> QED BY <3>1, <4>1, <4>2
    <3> QED BY <3>2, <3>3
  <2>8. AnswersMatch'
    BY <1>0, <2>1 DEF Answered, AnswersMatch, At
  <2> QED BY <2>2, <2>7, <2>8 DEF Answered
<1> QED BY <1>2, <1>3 DEF Write

\* The line that is read is the one that was written, and no other is left.
LEMMA ReadAnswered ==
  ASSUME HelperTypeOK, Launched, Answered, NEW t \in Requests, Read(t)
  PROVE  Answered'
<1>1. PICK p, line, gone : /\ p = task[t].pid /\ line = Head(outbox[p])
                           /\ gone = Removed(p, line.answer)
  OBVIOUS
<1>2. /\ task[t].at = "read" /\ outbox[p] # << >> /\ Dropped(gone)
      /\ outbox' = [outbox EXCEPT ![p] = IF p \in gone THEN << >> ELSE Tail(@)]
      /\ task' = [task EXCEPT ![t] = [at |-> "apply", pid |-> p, answer |-> line.answer,
                                      mine |-> line.of = t]]
      /\ queue' = Without(t) /\ late' = late
  BY <1>1 DEF Read, At
<1>3. /\ task \in [Requests -> TaskState] /\ p \in Pids
      /\ inbox \in [Pids -> Seq(Lines)] /\ outbox \in [Pids -> Seq(Lines)]
      /\ gone \subseteq {p}
  BY <1>1, <1>2 DEF HelperTypeOK, Launched, Commanding, TaskState, Removed
<1>4. /\ \A u \in Requests \ {t} : task'[u] = task[u]
      /\ task'[t].at = "apply" /\ task'[t].pid = p /\ (task'[t].mine <=> line.of = t)
  BY <1>2, <1>3
<1>5. \A q \in Pids \ {p} : inbox'[q] = inbox[q] /\ outbox'[q] = outbox[q]
  BY <1>2, <1>3 DEF Dropped
<1>6. p \notin late => Emptied(p) /\ task'[t].mine
  <2> SUFFICES ASSUME p \notin late PROVE Emptied(p) /\ task'[t].mine
    OBVIOUS
  <2>1. /\ outbox[p] \in Seq(Lines) /\ inbox[p] \in Seq(Lines)
        /\ Len(inbox[p]) + Len(outbox[p]) <= 1 /\ Awaited(outbox[p][1], p)
    BY <1>2, <1>3 DEF Answered, Paired
  <2>2. Len(outbox[p]) = 1 /\ Len(inbox[p]) = 0
    <3>1. /\ Len(outbox[p]) \in Nat /\ Len(outbox[p]) > 0
          /\ Len(inbox[p]) \in Nat
      BY <1>2, <2>1, ShortIs
    <3>2. Len(inbox[p]) + Len(outbox[p]) <= 1
      BY <2>1
    <3>3. \A i, o \in Nat : o > 0 /\ i + o <= 1 => o = 1 /\ i = 0
      OBVIOUS
    <3> QED BY <3>1, <3>2, <3>3, Zenon
  <2>3. inbox[p] = << >> /\ Tail(outbox[p]) = << >> /\ line = outbox[p][1]
    BY <1>1, <1>2, <2>1, <2>2, ShortIs
  <2>4. Emptied(p)
    <3>1. outbox'[p] = IF p \in gone THEN << >> ELSE Tail(outbox[p])
      BY <1>2, <1>3
    <3>2. inbox'[p] = IF p \in gone THEN << >> ELSE inbox[p]
      BY <1>2, <1>3 DEF Dropped
    <3> QED BY <2>3, <3>1, <3>2 DEF Emptied
  <2>5. line.of = t
    BY <1>2, <2>1, <2>3, OneTurn DEF Awaited, Answered
  <2> QED BY <1>4, <2>4, <2>5
<1>7. \A q \in Pids \ late' :
        Emptied(q) \/ (inbox'[q] = inbox[q] /\ outbox'[q] = outbox[q])
  BY <1>2, <1>5, <1>6
<1>8. task[t].pid \in late' \/ Emptied(task[t].pid)
  BY <1>1, <1>2, <1>6
<1>9. task'[t].mine \/ task'[t].pid \in late'
  BY <1>2, <1>4, <1>6
<1>10. task'[t].at \notin {"write", "read"} /\ late \subseteq late'
  BY <1>2, <1>4
<1> QED BY <1>2, <1>4, <1>7, <1>8, <1>9, <1>10, Passes

\* A command that gets no answer leaves the helper on record, or its pipes empty.
LEMMA EndsAnswered ==
  ASSUME HelperTypeOK, Launched, Answered, NEW t \in Requests,
         EndOfFile(t) \/ Timeout(t) \/ HangsUp(t)
  PROVE  Answered'
<1> DEFINE p == task[t].pid
<1>0. inbox \in [Pids -> Seq(Lines)] /\ outbox \in [Pids -> Seq(Lines)]
  BY DEF HelperTypeOK
<1>1. /\ Ends(t) /\ queue' = Without(t) /\ late \subseteq late'
      /\ \A u \in Requests \ {t} : task'[u] = task[u]
      /\ task'[t].at = "idle"
  BY EndsIs DEF EndOfFile, Timeout, HangsUp, GivesUp
<1>2. CASE EndOfFile(t)
  <2>1. /\ outbox' = outbox /\ outbox[p] = << >> /\ Dropped({p})
    BY <1>2 DEF EndOfFile
  <2>2. p \in Pids => Emptied(p)
    BY <1>0, <2>1 DEF Dropped, Emptied
  <2>3. \A q \in Pids \ {p} : inbox'[q] = inbox[q] /\ outbox'[q] = outbox[q]
    BY <2>1 DEF Dropped
  <2>4. p \in Pids
    BY <1>2 DEF HelperTypeOK, Launched, Commanding, TaskState, EndOfFile, At
  <2> QED BY <1>1, <2>2, <2>3, <2>4, Passes
<1>3. CASE Timeout(t) \/ (HangsUp(t) /\ task[t].at = "read")
  <2>1. GivesUp(t, p)
    BY <1>3 DEF Timeout, HangsUp, At
  <2>2. p \in late' /\ \A q \in Pids \ {p} : inbox'[q] = inbox[q] /\ outbox'[q] = outbox[q]
    BY <1>0, <2>1 DEF GivesUp
  <2> QED BY <1>1, <2>2, Passes
<1>4. CASE HangsUp(t) /\ task[t].at # "read"
  <2>1. inbox' = inbox /\ outbox' = outbox
    BY <1>4 DEF HangsUp, At, pipes
  <2> QED BY <1>1, <1>4, <2>1, Passes
<1> QED BY <1>2, <1>3, <1>4

\* The helper moves its one line from one pipe to the other.
LEMMA ReplyAnswered ==
  ASSUME HelperTypeOK, Answered, NEW p \in Pids, Reply(p)
  PROVE  Answered'
<1>1. PICK line : line = Head(inbox[p])
  OBVIOUS
<1>2. /\ inbox[p] # << >> /\ inbox' = [inbox EXCEPT ![p] = Tail(@)]
      /\ outbox' = [outbox EXCEPT ![p] = Append(@, line)]
      /\ UNCHANGED <<queue, task, late>>
      /\ inbox \in [Pids -> Seq(Lines)] /\ outbox \in [Pids -> Seq(Lines)]
  BY <1>1 DEF Reply, HelperTypeOK
<1>3. Turns' /\ AnswersMatch'
  BY <1>2 DEF Answered, Turns, Holds, AnswersMatch, At
<1>4. Paired'
  <2> SUFFICES ASSUME NEW q \in Pids \ late
               PROVE  /\ Len(inbox'[q]) + Len(outbox'[q]) <= 1
                      /\ inbox'[q] # << >> => Awaited(inbox'[q][1], q)
                      /\ outbox'[q] # << >> => Awaited(outbox'[q][1], q)
    BY <1>2 DEF Paired, Awaited
  <2>0. /\ inbox[q] \in Seq(Lines) /\ outbox[q] \in Seq(Lines)
        /\ Len(inbox[q]) + Len(outbox[q]) <= 1
        /\ inbox[q] # << >> => Awaited(inbox[q][1], q)
        /\ outbox[q] # << >> => Awaited(outbox[q][1], q)
    BY <1>2 DEF Answered, Paired
  <2>1. CASE q = p
    <3>1. Len(inbox[q]) = 1 /\ Len(outbox[q]) = 0
      <4>1. /\ Len(inbox[q]) \in Nat /\ Len(inbox[q]) > 0
            /\ Len(outbox[q]) \in Nat
        BY <1>2, <2>0, <2>1, ShortIs
      <4>2. Len(inbox[q]) + Len(outbox[q]) <= 1
        BY <2>0
      <4>3. \A i, o \in Nat : i > 0 /\ i + o <= 1 => i = 1 /\ o = 0
        OBVIOUS
      <4> QED BY <4>1, <4>2, <4>3, Zenon
    <3>2. outbox[q] = << >> /\ Tail(inbox[q]) = << >> /\ line = inbox[q][1]
      BY <1>1, <1>2, <2>0, <2>1, <3>1, ShortIs
    <3>3. inbox'[q] = << >> /\ outbox'[q] = Append(<< >>, line)
      BY <1>2, <2>1, <3>2
    <3>4. Len(Append(<< >>, line)) = 1 /\ Append(<< >>, line)[1] = line /\ Len(<< >>) = 0
      OBVIOUS
    <3>5. Awaited(line, q)
      BY <1>2, <2>0, <2>1, <3>2
    <3> QED BY <3>3, <3>4, <3>5
  <2>2. CASE q # p
    <3>1. inbox'[q] = inbox[q] /\ outbox'[q] = outbox[q]
      BY <1>2, <2>2
    <3> QED BY <2>0, <3>1
  <2> QED BY <2>1, <2>2
<1> QED BY <1>3, <1>4 DEF Answered

\* Nothing is in the pipes: at the start, and when the server has started again.
LEMMA EmptyPipes ==
  ASSUME \A t \in Requests : task[t] = Resting,
         \A p \in Pids : inbox[p] = << >> /\ outbox[p] = << >>
  PROVE  Answered
<1>1. \A p \in Pids : Len(inbox[p]) = 0 /\ Len(outbox[p]) = 0
  OBVIOUS
<1>2. Turns /\ AnswersMatch
  BY DEF Turns, AnswersMatch, At, Resting
<1>3. Paired
  <2>1. \A p \in Pids : Len(inbox[p]) + Len(outbox[p]) <= 1
    <3>1. 0 + 0 <= 1
      OBVIOUS
    <3> QED BY <1>1, <3>1, Zenon
  <2>2. \A p \in Pids : inbox[p] = << >> /\ outbox[p] = << >>
    OBVIOUS
  <2> QED BY <2>1, <2>2 DEF Paired
<1> QED BY <1>2, <1>3 DEF Answered

\* The same of the next state.
LEMMA EmptyPipesNext ==
  ASSUME \A t \in Requests : task'[t] = Resting,
         \A p \in Pids : inbox'[p] = << >> /\ outbox'[p] = << >>
  PROVE  Answered'
<1>1. \A p \in Pids : Len(inbox'[p]) = 0 /\ Len(outbox'[p]) = 0
  OBVIOUS
<1>2. Turns' /\ AnswersMatch'
  BY DEF Turns, AnswersMatch, At, Resting
<1>3. Paired'
  <2>1. \A p \in Pids : Len(inbox'[p]) + Len(outbox'[p]) <= 1
    <3>1. 0 + 0 <= 1
      OBVIOUS
    <3> QED BY <1>1, <3>1, Zenon
  <2>2. \A p \in Pids : inbox'[p] = << >> /\ outbox'[p] = << >>
    OBVIOUS
  <2> QED BY <2>1, <2>2 DEF Paired
<1> QED BY <1>2, <1>3 DEF Answered

\* Each action keeps the answers with their commands.
LEMMA AnsweredStep ==
  ASSUME HelperTypeOK, Launched, Answered, [HelperNext]_helperVars
  PROVE  Answered'
<1>1. ASSUME NEW t \in Requests, Arrives(t) \/ Continue(t) \/ HangsUp(t) PROVE Answered'
  BY <1>1, LaunchesAnswered, CheckAnswered, WriteAnswered, ReadAnswered,
     EndsAnswered DEF Continue
<1>2. ASSUME NEW p \in Pids, Die(p) PROVE Answered'
  BY <1>2 DEF Die, pipes, Answered, Turns, Holds, Paired, Awaited, AnswersMatch, At
<1>3. CASE Restart
  BY <1>3, EmptyPipesNext DEF Restart
<1>4. CASE UNCHANGED helperVars
  BY <1>4 DEF helperVars, pipes, Answered, Turns, Holds, Paired, Awaited, AnswersMatch, At
<1> QED BY <1>1, <1>2, <1>3, <1>4, ReplyAnswered DEF HelperNext

\* The status written into the row is the answer to the command that writes it,
\* unless a command of that helper was given up: the Mutex keeps one line in the
\* pipes of a helper, and it belongs to the command that waits, however many
\* requests want it and wherever they are cut short (supervisor.rs).
THEOREM AnswersHold == HelperSpec => []AnswersMatch
<1>1. HelperInit => Answered
  BY EmptyPipes DEF HelperInit
<1>2. HelperTypeOK /\ Launched /\ Answered /\ [HelperNext]_helperVars => Answered'
  BY AnsweredStep
<1> QED BY <1>1, <1>2, HelperHolds, PTL DEF HelperSpec, Told, Answered

=============================================================================
