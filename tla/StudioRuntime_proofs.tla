-------------------------- MODULE StudioRuntime_proofs --------------------------
(***************************************************************************)
(* Theorems about StudioRuntime, for any number of reports in progress and *)
(* of outputs: its types, that the closed stays closed and the snapshot is *)
(* current; and with one console, that a broadcast that has ended is dark  *)
(* and a live one on air.                                                  *)
(***************************************************************************)
EXTENDS StudioRuntime, SequenceTheorems, FiniteSetTheorems, TLAPS

Kinded(t, row) == /\ row.kind \in Commands => t \in Operators
                  /\ row.kind \in Reports => t \in Reporters
\* A request in progress has a statement left to make.
Placed(row) == row.kind # "none" => row.at <= Len(Script[row.kind])
\* A request that is alone is the only one, and its snapshot is not written over.
Solitary(t) == task[t].alone =>
  /\ \A u \in Tasks \ {t} : task[u].kind = "none"
  /\ At(t, "sync") => task[t].seen
\* Outputs are made in order.
Filled == \E n \in Nat : \A i \in Outputs : output[i] # "absent" <=> i <= n

IInv == /\ TypeOK /\ Filled
        /\ \A t \in Tasks : Kinded(t, task[t]) /\ Placed(task[t]) /\ Solitary(t)
        /\ AtRest /\ synced => authority

AllKinds == Commands \cup Reports \cup {"none"}

-----------------------------------------------------------------------------
LEMMA IdleType == Idle \in TaskState /\ Idle.kind = "none" /\ Idle.at = 1
                 /\ Idle.alone = FALSE
  BY DEF Idle, TaskState, Colours

LEMMA Scripts ==
  /\ Script["start"] = StartScript /\ Script["end"] = EndScript
  /\ Script["emergency"] = EmergencyScript /\ Script["force_end"] = ForceEndScript
  /\ Script["safe_mode"] = SafeModeScript /\ Script["program"] = ProgramScript
  /\ Script["error"] = ErrorScript /\ Script["sample"] = SampleScript
  /\ Script["none"] = << >>
  BY DEF Script

LEMMA Lengths ==
  /\ Len(Script["start"]) = 8 /\ Len(Script["end"]) = 8
  /\ Len(Script["emergency"]) = 4 /\ Len(Script["force_end"]) = 5
  /\ Len(Script["safe_mode"]) = 2 /\ Len(Script["program"]) = 1
  /\ Len(Script["error"]) = 5 /\ Len(Script["sample"]) = 6
  /\ Len(Script["none"]) = 0
  <1>1. Len(StartScript) = 8
    BY DEF StartScript
  <1>2. Len(EndScript) = 8
    BY DEF EndScript
  <1>3. Len(EmergencyScript) = 4
    BY DEF EmergencyScript
  <1>4. Len(ForceEndScript) = 5
    BY DEF ForceEndScript
  <1>5. Len(SafeModeScript) = 2
    BY DEF SafeModeScript
  <1>6. Len(ProgramScript) = 1
    BY DEF ProgramScript
  <1>7. Len(ErrorScript) = 5
    BY DEF ErrorScript
  <1>8. Len(SampleScript) = 6
    BY DEF SampleScript
  <1> QED BY <1>1, <1>2, <1>3, <1>4, <1>5, <1>6, <1>7, <1>8, Scripts

KindOf == {"start", "end", "emergency", "force_end", "safe_mode", "program", "error", "sample"}
LEMMA KindsAre == AllKinds = KindOf \cup {"none"}
  BY DEF AllKinds, Commands, Reports, KindOf

\* Where in its script a handler makes each of its statements.
LEMMA Statements ==
  ASSUME NEW t, task[t].kind \in AllKinds, task[t].at \in 1 .. 8
  PROVE  /\ \A statement : At(t, statement) => task[t].kind # "none"
         /\ At(t, "ingest") =>
              \/ task[t].kind \in {"start", "end", "force_end"} /\ task[t].at = 1
              \/ task[t].kind = "emergency" /\ task[t].at = 3
              \/ task[t].kind = "sample"
         /\ At(t, "output") =>
              \/ task[t].kind \in {"start", "end", "force_end", "safe_mode"} /\ task[t].at = 2
              \/ task[t].kind = "emergency" /\ task[t].at = 4
              \/ task[t].kind \in {"error", "sample"}
         /\ At(t, "readiness") =>
              task[t].kind \in {"start", "end", "force_end"} /\ task[t].at = 3
         /\ At(t, "profile") =>
              \/ task[t].kind \in {"start", "end", "force_end"} /\ task[t].at = 5
              \/ task[t].kind = "emergency" /\ task[t].at = 2
         /\ At(t, "sync") =>
              /\ task[t].kind \in {"start", "end", "error", "sample"}
              /\ task[t].at = Len(Script[task[t].kind])
  <1>1. CASE task[t].kind = "start"
    BY <1>1, Scripts, Lengths DEF At, StartScript
  <1>2. CASE task[t].kind = "end"
    BY <1>2, Scripts, Lengths DEF At, EndScript
  <1>3. CASE task[t].kind = "emergency"
    BY <1>3, Scripts, Lengths DEF At, EmergencyScript
  <1>4. CASE task[t].kind = "force_end"
    BY <1>4, Scripts, Lengths DEF At, ForceEndScript
  <1>5. CASE task[t].kind = "safe_mode"
    BY <1>5, Scripts, Lengths DEF At, SafeModeScript
  <1>6. CASE task[t].kind = "program"
    BY <1>6, Scripts, Lengths DEF At, ProgramScript
  <1>7. CASE task[t].kind = "error"
    BY <1>7, Scripts, Lengths DEF At, ErrorScript
  <1>8. CASE task[t].kind = "sample"
    BY <1>8, Scripts, Lengths DEF At, SampleScript
  <1>9. CASE task[t].kind = "none"
    BY <1>9, Scripts DEF At
  <1> QED BY <1>1, <1>2, <1>3, <1>4, <1>5, <1>6, <1>7, <1>8, <1>9, KindsAre DEF KindOf

-----------------------------------------------------------------------------
(* How a step changes the requests in progress.                            *)

\* A request goes on by one statement, or is over; the others stand where they were.
Advances(t) ==
  /\ task' \in [Tasks -> TaskState]
  /\ \A u \in Tasks \ {t} : /\ task'[u].kind = task[u].kind /\ task'[u].at = task[u].at
                            /\ task'[u].alone = task[u].alone
  /\ \/ /\ task[t].at = Len(Script[task[t].kind])
        /\ task'[t].kind = "none" /\ task'[t].alone = FALSE
     \/ /\ task[t].at < Len(Script[task[t].kind])
        /\ task'[t].kind = task[t].kind /\ task'[t].at = task[t].at + 1
        /\ task'[t].alone = task[t].alone

LEMMA Working ==
  ASSUME IInv, NEW t \in Tasks
  PROVE  /\ task[t] \in TaskState /\ task[t].kind \in AllKinds /\ task[t].at \in 1 .. 8
         /\ Kinded(t, task[t]) /\ Placed(task[t]) /\ Solitary(t)
         /\ Len(Script[task[t].kind]) \in 0 .. 8
         /\ \A statement : At(t, statement) => task[t].kind # "none"
  <1>1. task[t] \in TaskState /\ Kinded(t, task[t]) /\ Placed(task[t]) /\ Solitary(t)
    BY DEF IInv, TypeOK
  <1>2. task[t].kind \in AllKinds /\ task[t].at \in 1 .. 8
    BY <1>1 DEF TaskState, AllKinds
  <1>3. Len(Script[task[t].kind]) \in 0 .. 8
    BY <1>2, KindsAre, Lengths DEF KindOf
  <1> QED BY <1>1, <1>2, <1>3, Statements

LEMMA OnwardsRow ==
  ASSUME IInv, NEW t \in Tasks, task[t].kind # "none"
  PROVE  /\ Onwards(task[t]) \in TaskState
         /\ \/ /\ task[t].at = Len(Script[task[t].kind])
               /\ Onwards(task[t]).kind = "none" /\ Onwards(task[t]).alone = FALSE
            \/ /\ task[t].at < Len(Script[task[t].kind])
               /\ Onwards(task[t]).kind = task[t].kind
               /\ Onwards(task[t]).at = task[t].at + 1
               /\ Onwards(task[t]).alone = task[t].alone
  <1> DEFINE len == Len(Script[task[t].kind])
  <1>1. task[t] \in TaskState /\ task[t].at \in 1 .. 8 /\ len \in 0 .. 8
        /\ task[t].at <= len
    BY Working DEF Placed
  <1>2. Onwards(task[t]) = IF task[t].at = len THEN Idle ELSE [task[t] EXCEPT !.at = task[t].at + 1]
    BY DEF Onwards
  <1> HIDE DEF len
  <1>3. CASE task[t].at = len
    BY <1>2, <1>3, IdleType DEF len
  <1>4. CASE task[t].at # len
    <2>1. task[t].at + 1 \in 1 .. 8 /\ task[t].at < len
      BY <1>1, <1>4
    <2> QED BY <1>1, <1>2, <1>4, <2>1 DEF TaskState, len
  <1> QED BY <1>3, <1>4

\* A row whose reading is put to `seen'.
SeenAs(row, seen) == [row EXCEPT !.seen = seen]
LEMMA SeenType ==
  \A row \in TaskState, seen \in BOOLEAN :
    /\ SeenAs(row, seen) \in TaskState /\ SeenAs(row, seen).kind = row.kind
    /\ SeenAs(row, seen).at = row.at /\ SeenAs(row, seen).alone = row.alone
    /\ SeenAs(row, seen).seen = seen
  <1> TAKE row \in TaskState, seen \in BOOLEAN
  <1>1. ASSUME NEW new, new = SeenAs(row, seen)
        PROVE  /\ new \in TaskState /\ new.kind = row.kind /\ new.at = row.at
               /\ new.alone = row.alone /\ new.seen = seen
    BY <1>1 DEF SeenAs, TaskState
  <1> QED BY <1>1

LEMMA WritesAdvances ==
  ASSUME IInv, NEW t \in Tasks, task[t].kind # "none", Writes(t)
  PROVE  Advances(t) /\ ~authority'
  <1>1. ASSUME NEW u \in Tasks \ {t}
        PROVE  /\ task'[u] \in TaskState
               /\ task'[u].kind = task[u].kind /\ task'[u].at = task[u].at
               /\ task'[u].alone = task[u].alone
    <2>1. task'[u] = SeenAs(task[u], FALSE) /\ task[u] \in TaskState
      BY <1>1, Working DEF Writes, SeenAs
    <2> QED BY <2>1, SeenType
  <1>2. /\ task'[t] \in TaskState
        /\ task'[t].kind = Onwards(task[t]).kind /\ task'[t].at = Onwards(task[t]).at
        /\ task'[t].alone = Onwards(task[t]).alone
    <2>1. task'[t] = SeenAs(Onwards(task[t]), FALSE)
      BY DEF Writes, SeenAs
    <2>2. Onwards(task[t]) \in TaskState
      BY OnwardsRow
    <2> QED BY <2>1, <2>2, SeenType
  <1>3. \A u \in Tasks : task'[u] \in TaskState
    BY <1>1, <1>2
  <1>5. task' = [u \in Tasks |-> task'[u]]
    BY DEF Writes
  <1>6. ~authority'
    BY DEF Writes
  <1> QED BY <1>1, <1>2, <1>3, <1>5, <1>6, OnwardsRow DEF Advances

LEMMA ReadAdvances ==
  ASSUME IInv, NEW t \in Tasks, ReadTables(t)
  PROVE  /\ Advances(t) /\ \A u \in Tasks \ {t} : task'[u] = task[u]
         /\ task'[t].seen
  <1> DEFINE row == [Onwards(task[t]) EXCEPT !.seen = TRUE, !.lost = FALSE, !.colour = "green"]
  <1>1. At(t, "read") /\ task' = [task EXCEPT ![t] = row]
    BY DEF ReadTables, IInv, TypeOK
  <1>2. task[t].kind # "none" /\ task \in [Tasks -> TaskState]
    BY <1>1, Working DEF IInv, TypeOK
  <1>3. Onwards(task[t]) \in TaskState
    BY <1>2, OnwardsRow
  <1>4. /\ row \in TaskState /\ row.kind = Onwards(task[t]).kind /\ row.seen
        /\ row.at = Onwards(task[t]).at /\ row.alone = Onwards(task[t]).alone
    BY <1>3 DEF TaskState, Colours
  <1> HIDE DEF row
  <1>5. task'[t] = row /\ task' \in [Tasks -> TaskState] /\ \A u \in Tasks \ {t} : task'[u] = task[u]
    BY <1>1, <1>2, <1>4
  <1> QED BY <1>2, <1>4, <1>5, OnwardsRow DEF Advances

LEMMA SyncAdvances ==
  ASSUME IInv, NEW t \in Tasks, SyncAuthority(t)
  PROVE  Advances(t) /\ \A u \in Tasks \ {t} : task'[u] = task[u]
  <1>1. At(t, "sync") /\ task' = [task EXCEPT ![t] = Onwards(task[t])]
    BY DEF SyncAuthority, IInv, TypeOK
  <1>2. task[t].kind # "none" /\ task \in [Tasks -> TaskState]
    BY <1>1, Working DEF IInv, TypeOK
  <1>3. /\ task'[t] = Onwards(task[t]) /\ task' \in [Tasks -> TaskState]
        /\ \A u \in Tasks \ {t} : task'[u] = task[u]
    BY <1>1, <1>2, OnwardsRow
  <1> QED BY <1>2, <1>3, OnwardsRow DEF Advances

\* What every step of a request keeps of the requests.
LEMMA Advanced ==
  ASSUME IInv, NEW t \in Tasks, task[t].kind # "none", Advances(t)
  PROVE  /\ \A u \in Tasks : Kinded(u, task'[u]) /\ Placed(task'[u])
         /\ \A u \in Tasks : task'[u].alone => \A v \in Tasks \ {u} : task'[v].kind = "none"
  <1>1. ASSUME NEW u \in Tasks PROVE Kinded(u, task'[u]) /\ Placed(task'[u])
    <2>1. Kinded(u, task[u]) /\ Placed(task[u])
      BY Working
    <2>2. CASE u # t
      BY <2>1, <2>2 DEF Advances, Kinded, Placed
    <2>3. CASE u = t /\ task[t].at = Len(Script[task[t].kind]) /\ task'[t].kind = "none"
      BY <2>3 DEF Kinded, Placed, Commands, Reports
    <2>4. CASE /\ u = t /\ task[t].at < Len(Script[task[t].kind])
               /\ task'[t].kind = task[t].kind /\ task'[t].at = task[t].at + 1
      <3> DEFINE len == Len(Script[task[t].kind])
      <3>1. task[t].at \in 1 .. 8 /\ len \in 0 .. 8 /\ task[t].at < len
        BY <2>4, Working
      <3> HIDE DEF len
      <3>2. task[t].at + 1 <= len
        BY <3>1
      <3> QED BY <2>1, <2>4, <3>2 DEF Kinded, Placed, len
    <2> QED BY <2>2, <2>3, <2>4 DEF Advances
  <1>2. ASSUME NEW u \in Tasks, task'[u].alone, NEW v \in Tasks \ {u}
        PROVE  task'[v].kind = "none"
    <2>1. task[u].alone
      BY <1>2 DEF Advances
    <2>2. task[v].kind = "none"
      BY <2>1, Working DEF Solitary
    <2> QED BY <2>2 DEF Advances
  <1> QED BY <1>1, <1>2

\* A snapshot is read, then stored, and that is the last of its handler.
LEMMA SyncIsLast ==
  ASSUME NEW row, row.kind \in AllKinds, row.at \in 1 .. 8
  PROVE  /\ (row.at \in DOMAIN Script[row.kind] /\ Script[row.kind][row.at] = "sync")
             => row.kind \in Syncing /\ row.at = Len(Script[row.kind])
         /\ row.kind \in Syncing /\ row.at = Len(Script[row.kind]) =>
              row.at \in DOMAIN Script[row.kind] /\ Script[row.kind][row.at] = "sync"
         /\ row.kind \in Syncing /\ row.at + 1 = Len(Script[row.kind]) =>
              row.at \in DOMAIN Script[row.kind] /\ Script[row.kind][row.at] = "read"
  <1>1. CASE row.kind = "start"
    BY <1>1, Scripts, Lengths DEF Syncing, StartScript
  <1>2. CASE row.kind = "end"
    BY <1>2, Scripts, Lengths DEF Syncing, EndScript
  <1>3. CASE row.kind = "emergency"
    BY <1>3, Scripts, Lengths DEF Syncing, EmergencyScript
  <1>4. CASE row.kind = "force_end"
    BY <1>4, Scripts, Lengths DEF Syncing, ForceEndScript
  <1>5. CASE row.kind = "safe_mode"
    BY <1>5, Scripts, Lengths DEF Syncing, SafeModeScript
  <1>6. CASE row.kind = "program"
    BY <1>6, Scripts, Lengths DEF Syncing, ProgramScript
  <1>7. CASE row.kind = "error"
    BY <1>7, Scripts, Lengths DEF Syncing, ErrorScript
  <1>8. CASE row.kind = "sample"
    BY <1>8, Scripts, Lengths DEF Syncing, SampleScript
  <1>9. CASE row.kind = "none"
    BY <1>9, Scripts DEF Syncing
  <1> QED BY <1>1, <1>2, <1>3, <1>4, <1>5, <1>6, <1>7, <1>8, <1>9, KindsAre DEF KindOf

LEMMA OneStatement ==
  ASSUME NEW t, NEW a, NEW b, At(t, a), At(t, b)
  PROVE  a = b
  BY DEF At

TablesOK ==
  /\ profile \in Profiles /\ routable \in BOOLEAN /\ ingest \in Ingests
  /\ output \in [Outputs -> OutputRow] /\ readiness \in {"absent", "ready", "ended"}
  /\ spared \subseteq Outputs /\ Filled

\* A write keeps the requests and the snapshot in order, once it does the tables.
LEMMA WriteStep ==
  ASSUME IInv, NEW t \in Tasks, NEW statement, At(t, statement),
         statement \notin {"read", "sync"}, Writes(t), TablesOK'
  PROVE  IInv'
  <1>1. task[t].kind # "none"
    BY Working
  <1>2. Advances(t) /\ ~authority'
    BY <1>1, WritesAdvances
  <1>3. /\ \A u \in Tasks : Kinded(u, task'[u]) /\ Placed(task'[u])
        /\ \A u \in Tasks : task'[u].alone => \A v \in Tasks \ {u} : task'[v].kind = "none"
    BY <1>1, <1>2, Advanced
  <1>4. torn' \in BOOLEAN /\ synced' \in BOOLEAN /\ authority' = FALSE /\ task' \in [Tasks -> TaskState]
    BY <1>2 DEF Writes, Goes, Advances, IInv, TypeOK
  <1>5. ASSUME NEW u \in Tasks, task'[u].alone, At(u, "sync")' PROVE FALSE
    <2>1. task[u].alone /\ task[t].kind # "none"
      BY <1>1, <1>2, <1>5 DEF Advances
    <2>2. u = t
      BY <2>1, Working DEF Solitary
    <2>3. /\ task'[t] \in TaskState /\ task'[t].kind \in AllKinds /\ task'[t].at \in 1 .. 8
      BY <1>4 DEF TaskState, AllKinds
    <2>4. task'[t].kind \in Syncing /\ task'[t].at = Len(Script[task'[t].kind])
      BY <1>5, <2>2, <2>3, SyncIsLast DEF At
    <2>5. task'[t].kind = task[t].kind /\ task'[t].at = task[t].at + 1
      BY <1>2, <2>4 DEF Advances, Syncing
    <2>6. At(t, "read")
      BY <2>4, <2>5, Working, SyncIsLast DEF At
    <2> QED BY <2>6, OneStatement
  <1>6. ASSUME AtRest', synced' PROVE FALSE
    <2>1. task[t].at = Len(Script[task[t].kind])
      BY <1>1, <1>2, <1>6 DEF AtRest, Advances
    <2>2. task[t].kind \in Syncing
      BY <1>6, <2>1 DEF Writes, Goes
    <2>3. At(t, "sync")
      BY <2>1, <2>2, Working, SyncIsLast DEF At
    <2> QED BY <2>3, OneStatement
  <1>7. \A u \in Tasks : Solitary(u)'
    BY <1>3, <1>5 DEF Solitary
  <1>8. (\A u \in Tasks : Kinded(u, task[u]) /\ Placed(task[u]))'
    BY <1>3
  <1>9. TypeOK'
    BY <1>4 DEF TypeOK, TablesOK
  <1> QED BY <1>6, <1>7, <1>8, <1>9 DEF IInv, TablesOK

LEMMA SnapshotSteps ==
  ASSUME IInv, NEW t \in Tasks, ReadTables(t) \/ SyncAuthority(t)
  PROVE  IInv'
  <1>0. /\ task[t].kind # "none" /\ task[t].kind \in AllKinds /\ task[t].at \in 1 .. 8
        /\ Solitary(t)
    BY Working DEF ReadTables, SyncAuthority
  <1>1. Advances(t) /\ \A u \in Tasks \ {t} : task'[u] = task[u]
    BY ReadAdvances, SyncAdvances
  <1>2. /\ \A u \in Tasks : Kinded(u, task'[u]) /\ Placed(task'[u])
        /\ \A u \in Tasks : task'[u].alone => \A v \in Tasks \ {u} : task'[v].kind = "none"
    BY <1>0, <1>1, Advanced
  <1>3. UNCHANGED <<tables, spared>>
    BY DEF ReadTables, SyncAuthority
  <1>4. task' \in [Tasks -> TaskState] /\ torn' \in BOOLEAN /\ synced' \in BOOLEAN
    BY <1>1 DEF Advances, ReadTables, SyncAuthority, Goes, IInv, TypeOK
  <1>5. task[t].seen \in BOOLEAN /\ authority \in BOOLEAN
    BY Working DEF TaskState, IInv, TypeOK
  <1>6. authority' \in BOOLEAN
    BY <1>5 DEF ReadTables, SyncAuthority
  <1>7. TypeOK' /\ Filled'
    BY <1>3, <1>4, <1>6 DEF IInv, TypeOK, Filled, tables
  <1>8. ASSUME NEW u \in Tasks PROVE Solitary(u)'
    <2> SUFFICES ASSUME task'[u].alone, At(u, "sync")' PROVE task'[u].seen
      BY <1>2 DEF Solitary
    <2>1. task[u].alone
      BY <1>1 DEF Advances
    <2>2. u = t
      BY <1>0, <2>1, Working DEF Solitary
    <2>3. CASE ReadTables(t)
      BY <2>2, <2>3, ReadAdvances
    <2>4. CASE SyncAuthority(t)
      <3>1. task[t].at = Len(Script[task[t].kind])
        BY <1>0, <2>4, Statements DEF SyncAuthority
      <3>2. task'[t].kind = "none" /\ task'[t].alone = FALSE
        BY <1>0, <1>1, <3>1, Working DEF Advances
      <3> QED BY <2>2, <3>2
    <2> QED BY <2>3, <2>4
  <1>9. ASSUME AtRest', synced' PROVE authority'
    <2>1. task[t].at = Len(Script[task[t].kind])
      BY <1>0, <1>1, <1>9 DEF AtRest, Advances
    <2>2. task[t].kind \in Syncing /\ task[t].alone
      BY <1>9, <2>1 DEF ReadTables, SyncAuthority, Goes
    <2>3. At(t, "sync")
      BY <1>0, <2>1, <2>2, SyncIsLast DEF At
    <2>4. SyncAuthority(t)
      BY <2>3, OneStatement DEF ReadTables
    <2>5. task[t].seen
      BY <1>0, <2>2, <2>3 DEF Solitary
    <2> QED BY <2>4, <2>5 DEF SyncAuthority
  <1>10. (\A u \in Tasks : Kinded(u, task[u]) /\ Placed(task[u]))'
    BY <1>2
  <1> QED BY <1>7, <1>8, <1>9, <1>10 DEF IInv

-----------------------------------------------------------------------------
(* What the statements do to the outputs and to the ingest session.        *)

LEMMA OutputMoves ==
  ASSUME NEW t, NEW x \in OutputRow, task[t].colour \in Colours,
         task[t].kind \in {"end", "emergency", "force_end", "safe_mode", "error", "sample"}
  PROVE  LET y == Updated(x, OutputMove(t))
         IN  /\ y \in OutputRow /\ (y = "absent" <=> x = "absent")
             /\ x \in Closed => y \in Closed
             /\ task[t].kind \in {"safe_mode", "error", "sample"} =>
                  (y \in OnAir <=> x \in OnAir)
             /\ task[t].kind \in {"end", "emergency", "force_end"} =>
                  (y \in OnAir => x = "reconnecting")
  <1>1. CASE task[t].kind = "end"
    BY <1>1 DEF OutputMove, EndOutputs, Where, Updated, OutputRow, OnAir, Closed
  <1>2. CASE task[t].kind = "emergency"
    BY <1>2 DEF OutputMove, EmergencyOutputs, Where, Updated, OutputRow, OnAir, Closed
  <1>3. CASE task[t].kind = "force_end"
    BY <1>3 DEF OutputMove, ForceEndOutputs, Where, Updated, OutputRow, OnAir, Closed
  <1>4. CASE task[t].kind = "safe_mode"
    BY <1>4 DEF OutputMove, SafeModeOutputs, Where, Updated, OutputRow, OnAir, Closed
  <1>5. CASE task[t].kind = "error"
    BY <1>5 DEF OutputMove, ErrorOutputs, Where, Updated, OutputRow, OnAir, Closed
  <1>6. CASE task[t].kind = "sample"
    <2>1. OutputMove(t) = SampleOutputs(task[t].colour)
      BY <1>6 DEF OutputMove
    <2>2. OutputOf(task[t].colour) \in {"publishing", "degraded", "reconnecting"}
      BY DEF OutputOf, Colours
    <2>3. /\ OutputMove(t).from = {"publishing", "degraded", "reconnecting"}
          /\ OutputMove(t).set \in {"publishing", "degraded", "reconnecting"}
      BY <2>1, <2>2 DEF SampleOutputs, Where
    <2> QED BY <1>6, <2>3 DEF Updated, OutputRow, OnAir, Closed
  <1> QED BY <1>1, <1>2, <1>3, <1>4, <1>5, <1>6

LEMMA IngestMoves ==
  ASSUME NEW t, NEW x \in Ingests, task[t].kind # "none"
  PROVE  LET y == Updated(x, IngestMove(t))
         IN  /\ y \in Ingests
             /\ task[t].kind = "start" => y = "active"
             /\ task[t].kind \in Reports \cup {"safe_mode", "program"} =>
                  (y \in {"active", "reconnecting"} <=> x \in {"active", "reconnecting"})
             /\ x \in Closed /\ y \notin Closed => task[t].kind = "start"
  <1>1. CASE task[t].kind = "start"
    BY <1>1 DEF IngestMove, Where, Updated, Ingests, Closed, Reports
  <1>2. CASE task[t].kind = "end"
    BY <1>2 DEF IngestMove, Where, Updated, Ingests, Closed, Reports
  <1>3. CASE task[t].kind = "emergency"
    BY <1>3 DEF IngestMove, Where, Updated, Ingests, Closed, Reports
  <1>4. CASE task[t].kind = "force_end"
    BY <1>4 DEF IngestMove, Where, Updated, Ingests, Closed, Reports
  <1>5. CASE task[t].kind \notin {"start", "end", "emergency", "force_end"}
    <2>1. IngestMove(t) \in {Where({"active"}, "reconnecting"), Where({"reconnecting"}, "active"),
                             Where({}, "active")}
      BY <1>5 DEF IngestMove
    <2> QED BY <1>5, <2>1 DEF Where, Updated, Ingests, Closed
  <1> QED BY <1>1, <1>2, <1>3, <1>4, <1>5

\* A start's output is the first that was absent.
LEMMA NextOutput ==
  ASSUME IInv
  PROVE  /\ Newest \in Nat
         /\ \A i \in Outputs : output[i] # "absent" <=> i <= Newest
  <1>1. PICK n \in Nat : \A i \in Outputs : output[i] # "absent" <=> i <= n
    BY DEF IInv, Filled
  <1>2. MaxOutputs \in Nat
    BY RuntimeAssumption
  <1> DEFINE m == IF n <= MaxOutputs THEN n ELSE MaxOutputs
  <1>3. m \in Nat /\ \A i \in Outputs : i <= m <=> i <= n
    BY <1>2 DEF Outputs
  <1>4. {i \in Outputs : output[i] # "absent"} = 1 .. m
    BY <1>1, <1>2, <1>3 DEF Outputs
  <1>5. Newest = m
    <2>0. 1 \in Int /\ m \in Int
      BY <1>3
    <2> HIDE DEF m
    <2>1. Cardinality(1 .. m) = IF 1 > m THEN 0 ELSE m - 1 + 1
      BY <2>0, FS_Interval
    <2>2. (IF 1 > m THEN 0 ELSE m - 1 + 1) = m
      BY <1>3
    <2> QED BY <1>4, <2>1, <2>2 DEF Newest
  <1> QED BY <1>1, <1>3, <1>5

-----------------------------------------------------------------------------
LEMMA BeginStep ==
  ASSUME IInv, NEW t \in Tasks, NEW row \in TaskState, Begin(t, row), row.kind # "none",
         row.at = 1, Kinded(t, row)
  PROVE  /\ IInv'
         /\ task'[t].kind = row.kind /\ task'[t].at = 1
         /\ \A u \in Tasks \ {t} : task'[u].kind = task[u].kind /\ task'[u].at = task[u].at
         /\ UNCHANGED <<tables, authority, spared, history>>
  <1>0. UNCHANGED <<tables, authority, spared, history>>
    BY DEF Begin
  <1>1. AtRest \in BOOLEAN /\ task[t].kind = "none"
    BY DEF AtRest, Begin
  <1>2. /\ task'[t] \in TaskState /\ task'[t].kind = row.kind /\ task'[t].at = 1
        /\ task'[t].alone \in BOOLEAN /\ (task'[t].alone => AtRest)
    <2> DEFINE flag == AtRest /\ row.kind \in Syncing
    <2>1. task'[t] = [row EXCEPT !.alone = flag]
      BY DEF Begin
    <2>2. flag \in BOOLEAN /\ (flag => AtRest)
      BY <1>1
    <2> HIDE DEF flag
    <2> QED BY <1>1, <2>1, <2>2 DEF TaskState
  <1>3. ASSUME NEW u \in Tasks \ {t}
        PROVE  /\ task'[u] \in TaskState /\ task'[u].kind = task[u].kind
               /\ task'[u].at = task[u].at /\ task'[u].alone = FALSE
    <2>1. task'[u] = [task[u] EXCEPT !.alone = FALSE] /\ task[u] \in TaskState
      BY Working DEF Begin
    <2> QED BY <2>1 DEF TaskState
  <1>4. task' \in [Tasks -> TaskState]
    <2>1. task' = [u \in Tasks |-> task'[u]]
      BY DEF Begin
    <2> QED BY <1>2, <1>3, <2>1
  <1>5. TypeOK' /\ Filled'
    BY <1>0, <1>4 DEF IInv, TypeOK, Filled, tables, history
  <1>6. row.kind \in AllKinds /\ Len(Script[row.kind]) >= 1 /\ Len(Script[row.kind]) \in Nat
    <2>1. row.kind \in KindOf
      BY KindsAre DEF TaskState, AllKinds
    <2>2. Len(Script[row.kind]) \in 1 .. 8
      BY <2>1, Lengths DEF KindOf
    <2> DEFINE len == Len(Script[row.kind])
    <2> HIDE DEF len
    <2>3. len \in 1 .. 8 => len >= 1 /\ len \in Nat
      OBVIOUS
    <2> QED BY <2>1, <2>2, <2>3, KindsAre DEF len
  <1>7. ASSUME NEW u \in Tasks PROVE (Kinded(u, task[u]) /\ Placed(task[u]))'
    <2>1. Kinded(u, task[u]) /\ Placed(task[u])
      BY Working
    <2>2. CASE u = t
      BY <1>2, <1>6, <2>2 DEF Kinded, Placed
    <2>3. CASE u # t
      BY <1>3, <2>1, <2>3 DEF Kinded, Placed
    <2> QED BY <2>2, <2>3
  <1>8. ASSUME NEW u \in Tasks PROVE Solitary(u)'
    <2> SUFFICES ASSUME task'[u].alone
                 PROVE  /\ \A v \in Tasks \ {u} : task'[v].kind = "none"
                        /\ ~At(u, "sync")'
      BY DEF Solitary
    <2>1. u = t /\ AtRest
      BY <1>2, <1>3
    <2>2. \A v \in Tasks \ {u} : task'[v].kind = "none"
      BY <1>3, <2>1 DEF AtRest
    <2>3. ~At(u, "sync")'
      <3>1. task'[t].kind \in AllKinds /\ task'[t].at \in 1 .. 8
        BY <1>2, <1>6
      <3>2. At(t, "sync")' => /\ task'[t].kind \in Syncing
                              /\ 1 = Len(Script[task'[t].kind])
        BY <1>2, <3>1, SyncIsLast DEF At
      <3>3. \A kind \in Syncing : Len(Script[kind]) # 1
        <4> TAKE kind \in Syncing
        <4>1. Len(Script[kind]) \in {5, 6, 8}
          BY Lengths DEF Syncing
        <4> DEFINE len == Len(Script[kind])
        <4> HIDE DEF len
        <4>2. len \in {5, 6, 8} => len # 1
          OBVIOUS
        <4> QED BY <4>1, <4>2 DEF len
      <3> QED BY <2>1, <3>2, <3>3
    <2> QED BY <2>2, <2>3
  <1>9. ~AtRest'
    BY <1>2 DEF AtRest
  <1> QED BY <1>0, <1>2, <1>3, <1>5, <1>7, <1>8, <1>9 DEF IInv

LEMMA Requests ==
  ASSUME IInv, NEW t \in Tasks,
         \/ t \in Operators /\ (Start(t) \/ Command(t))
         \/ t \in Reporters /\ (Error(t) \/ Sample(t))
  PROVE  \E row \in TaskState : /\ Begin(t, row) /\ row.kind # "none" /\ row.at = 1
                                /\ Kinded(t, row)
  <1>1. CASE t \in Operators /\ (Start(t) \/ Command(t))
    <2>1. PICK kind \in Commands : Begin(t, [Idle EXCEPT !.kind = kind])
      BY <1>1 DEF Start, Command, Commands
    <2> DEFINE row == [Idle EXCEPT !.kind = kind]
    <2>2. row \in TaskState /\ row.kind = kind /\ row.at = 1
      BY IdleType DEF TaskState
    <2>3. kind # "none" /\ kind \notin Reports
      BY DEF Commands, Reports
    <2>4. Begin(t, row)
      BY <2>1
    <2> HIDE DEF row
    <2> QED BY <1>1, <2>2, <2>3, <2>4 DEF Kinded
  <1>2. CASE t \in Reporters /\ Error(t)
    <2> DEFINE row == [Idle EXCEPT !.kind = "error"]
    <2>1. row \in TaskState /\ row.kind = "error" /\ row.at = 1 /\ Begin(t, row)
      BY <1>2, IdleType DEF TaskState, Reports, Error
    <2> HIDE DEF row
    <2> QED BY <1>2, <2>1 DEF Kinded, Commands, Reports
  <1>3. CASE t \in Reporters /\ Sample(t)
    <2>1. PICK count \in Counts : \E colour \in Healths(count) :
            Begin(t, [Idle EXCEPT !.kind = "sample", !.lost = count > 0, !.colour = colour])
      BY <1>3 DEF Sample
    <2>2. PICK colour \in Healths(count) :
            Begin(t, [Idle EXCEPT !.kind = "sample", !.lost = count > 0, !.colour = colour])
      BY <2>1
    <2> DEFINE lost == count > 0
               row == [Idle EXCEPT !.kind = "sample", !.lost = lost, !.colour = colour]
    <2>3. Begin(t, row)
      BY <2>2
    <2>4. lost \in BOOLEAN /\ colour \in Colours
      BY DEF Healths, Colours
    <2> HIDE DEF lost
    <2>5. row \in TaskState /\ row.kind = "sample" /\ row.at = 1
      BY <2>4, IdleType DEF TaskState, Reports
    <2> HIDE DEF row
    <2> QED BY <1>3, <2>3, <2>5 DEF Kinded, Commands, Reports
  <1> QED BY <1>1, <1>2, <1>3

LEMMA CutStep ==
  ASSUME IInv, NEW t \in Tasks, CutShort(t)
  PROVE  /\ IInv' /\ task'[t] = Idle /\ \A u \in Tasks \ {t} : task'[u] = task[u]
  <1>1. /\ task' \in [Tasks -> TaskState] /\ task'[t] = Idle
        /\ \A u \in Tasks \ {t} : task'[u] = task[u]
    BY IdleType DEF CutShort, IInv, TypeOK
  <1>2. TypeOK' /\ Filled'
    BY <1>1 DEF CutShort, IInv, TypeOK, Filled, tables
  <1>3. ASSUME NEW u \in Tasks PROVE (Kinded(u, task[u]) /\ Placed(task[u]) /\ Solitary(u))'
    <2>1. CASE u = t
      BY <1>1, <2>1, IdleType DEF Kinded, Placed, Solitary, Commands, Reports
    <2>2. CASE u # t
      BY <1>1, <2>2, Working, IdleType DEF Kinded, Placed, Solitary, At
    <2> QED BY <2>1, <2>2
  <1>4. ~synced'
    BY DEF CutShort
  <1> QED BY <1>1, <1>2, <1>3, <1>4 DEF IInv

-----------------------------------------------------------------------------
(* The statements that write a table.                                      *)

LEMMA TableSteps ==
  ASSUME IInv, NEW t \in Tasks,
         \/ WriteIngest(t) \/ WriteOutput(t) \/ WriteReadiness(t)
         \/ WriteTelemetry(t) \/ WriteProfile(t) \/ WriteBinding(t)
  PROVE  IInv' /\ Advances(t) /\ task[t].kind # "none"
  <1>0. TablesOK /\ task[t].kind \in AllKinds /\ task[t].at \in 1 .. 8 /\ task[t].colour \in Colours
    BY Working DEF IInv, TypeOK, TablesOK, TaskState
  <1>1. task[t].kind # "none" /\ Writes(t)
    BY Working DEF WriteIngest, WriteOutput, WriteReadiness, WriteTelemetry, WriteProfile,
                   WriteBinding
  <1>2. Advances(t)
    BY <1>1, WritesAdvances
  <1>3. CASE WriteIngest(t)
    <2>1. ingest' \in Ingests
      BY <1>0, <1>1, <1>3, IngestMoves DEF WriteIngest, TablesOK
    <2>2. TablesOK'
      BY <1>0, <1>3, <2>1 DEF WriteIngest, TablesOK, Filled
    <2> QED BY <1>1, <1>2, <1>3, <2>2, WriteStep DEF WriteIngest
  <1>4. CASE WriteOutput(t)
    <2>1. output' \in [Outputs -> OutputRow] /\ Filled'
      <3>1. CASE task[t].kind = "start"
        <4>1. output' = [output EXCEPT ![Newest + 1] = "publishing"]
          BY <1>4, <3>1 DEF WriteOutput
        <4>2. output' \in [Outputs -> OutputRow]
          BY <1>0, <4>1 DEF TablesOK, OutputRow, OnAir
        <4>3. Newest + 1 \in Nat /\ \A i \in Outputs : output'[i] # "absent" <=> i <= Newest + 1
          BY <1>0, <4>1, NextOutput, RuntimeAssumption DEF TablesOK, Outputs
        <4> QED BY <4>2, <4>3 DEF Filled
      <3>2. CASE task[t].kind # "start"
        <4>1. output' = [i \in Outputs |-> Updated(output[i], OutputMove(t))]
          BY <1>4, <3>2 DEF WriteOutput
        <4>2. task[t].kind \in {"end", "emergency", "force_end", "safe_mode", "error", "sample"}
          BY <1>0, <1>4, <3>2, Statements DEF WriteOutput
        <4>3. \A i \in Outputs : output'[i] \in OutputRow /\ (output'[i] = "absent" <=> output[i] = "absent")
          BY <1>0, <4>1, <4>2, OutputMoves DEF TablesOK
        <4>4. PICK n \in Nat : \A i \in Outputs : output[i] # "absent" <=> i <= n
          BY <1>0 DEF TablesOK, Filled
        <4>5. \A i \in Outputs : output'[i] # "absent" <=> i <= n
          BY <4>3, <4>4
        <4> QED BY <4>1, <4>3, <4>5 DEF Filled
      <3> QED BY <3>1, <3>2
    <2>2. spared' \subseteq Outputs
      BY <1>0, <1>4 DEF WriteOutput, TablesOK
    <2>3. TablesOK'
      BY <1>0, <1>4, <2>1, <2>2 DEF WriteOutput, TablesOK
    <2> QED BY <1>1, <1>2, <1>4, <2>3, WriteStep DEF WriteOutput
  <1>5. CASE WriteReadiness(t)
    <2>1. TablesOK'
      BY <1>0, <1>5 DEF WriteReadiness, TablesOK, Filled, Updated, Where
    <2> QED BY <1>1, <1>2, <1>5, <2>1, WriteStep DEF WriteReadiness
  <1>6. CASE WriteTelemetry(t)
    <2>1. TablesOK'
      BY <1>0, <1>6 DEF WriteTelemetry, TablesOK, Filled, tables
    <2> QED BY <1>1, <1>2, <1>6, <2>1, WriteStep DEF WriteTelemetry
  <1>7. CASE WriteProfile(t)
    <2>1. task[t].kind \in {"start", "end", "emergency", "force_end"}
      BY <1>0, <1>7, Statements DEF WriteProfile
    <2>2. profile' \in Profiles
      BY <1>7, <2>1 DEF WriteProfile, Profiles
    <2>3. TablesOK'
      BY <1>0, <1>7, <2>2 DEF WriteProfile, TablesOK, Filled
    <2> QED BY <1>1, <1>2, <1>7, <2>3, WriteStep DEF WriteProfile
  <1>8. CASE WriteBinding(t)
    <2>1. RoutableAfter(t) \in BOOLEAN
      BY DEF RoutableAfter
    <2>2. TablesOK'
      BY <1>0, <1>8, <2>1 DEF WriteBinding, TablesOK, Filled
    <2> QED BY <1>1, <1>2, <1>8, <2>2, WriteStep DEF WriteBinding
  <1> QED BY <1>3, <1>4, <1>5, <1>6, <1>7, <1>8

LEMMA Initially == Init => IInv
  <1> SUFFICES ASSUME Init PROVE IInv
    OBVIOUS
  <1>1. TypeOK
    BY IdleType DEF Init, TypeOK, Profiles, Ingests, OutputRow
  <1>2. Filled
    <2>1. \A i \in Outputs : output[i] # "absent" <=> i <= 0
      BY RuntimeAssumption DEF Init, Outputs
    <2> QED BY <2>1 DEF Filled
  <1>3. \A t \in Tasks : Kinded(t, task[t]) /\ Placed(task[t]) /\ Solitary(t)
    BY IdleType DEF Init, Kinded, Placed, Solitary, Commands, Reports
  <1>4. ~synced
    BY DEF Init
  <1> QED BY <1>1, <1>2, <1>3, <1>4 DEF IInv

LEMMA Keeps == IInv /\ [Next]_vars => IInv'
  <1> SUFFICES ASSUME IInv, [Next]_vars PROVE IInv'
    OBVIOUS
  <1>1. CASE UNCHANGED vars
    BY <1>1 DEF vars, tables, history, IInv, TypeOK, Filled, Kinded, Placed, Solitary, At, AtRest
  <1>2. ASSUME NEW t \in Tasks, Step(t) PROVE IInv'
    BY <1>2, TableSteps, SnapshotSteps DEF Step
  <1> QED BY <1>1, <1>2, Requests, BeginStep, CutStep DEF Next, Tasks

LEMMA Invariant == Spec => []IInv
  BY Initially, Keeps, PTL DEF Spec

\* The tables keep to their columns' words, and the requests to their scripts.
THEOREM TypeCorrect == Spec => []TypeOK
  <1>1. IInv => TypeOK
    BY DEF IInv
  <1> QED BY <1>1, Invariant, PTL

\* Whatever overlapped before: a snapshot taken by a handler that ran alone and was
\* the last to finish says what the tables say.
THEOREM SnapshotIsCurrent == Spec => []AuthorityIsCurrent
  <1>1. IInv => AuthorityIsCurrent
    BY DEF IInv, AuthorityIsCurrent
  <1> QED BY <1>1, Invariant, PTL

\* For any number of consoles and of reports in progress: no report brings back an
\* output or an ingest session that a command has closed.
THEOREM ClosedStays == Spec => ClosedStaysClosed
  <1> DEFINE Stays == /\ \A i \in Outputs : output[i] \in Closed => output'[i] \in Closed
                      /\ ingest \in Closed /\ ingest' \notin Closed => Starting
  <1>1. IInv /\ [Next]_vars => [Stays]_vars
    <2> SUFFICES ASSUME IInv, [Next]_vars PROVE Stays
      OBVIOUS
    <2>0. output \in [Outputs -> OutputRow] /\ ingest \in Ingests
      BY DEF IInv, TypeOK
    <2>1. CASE \E t \in Tasks : WriteOutput(t)
      <3>1. PICK t \in Tasks : WriteOutput(t)
        BY <2>1
      <3>2. ingest' = ingest
        BY <3>1 DEF WriteOutput
      <3>3. task[t].kind \in AllKinds /\ task[t].at \in 1 .. 8 /\ task[t].colour \in Colours
        BY Working DEF TaskState
      <3>4. CASE task[t].kind = "start"
        <4>1. output' = [output EXCEPT ![Newest + 1] = "publishing"]
          BY <3>1, <3>4 DEF WriteOutput
        <4>2. \A i \in Outputs : i = Newest + 1 => output[i] \notin Closed
          <5>1. \A i \in Outputs : i = Newest + 1 => output[i] = "absent"
            BY NextOutput, RuntimeAssumption DEF Outputs
          <5> QED BY <5>1 DEF Closed
        <4> QED BY <2>0, <3>2, <4>1, <4>2
      <3>5. CASE task[t].kind # "start"
        <4>1. output' = [i \in Outputs |-> Updated(output[i], OutputMove(t))]
          BY <3>1, <3>5 DEF WriteOutput
        <4>2. task[t].kind \in {"end", "emergency", "force_end", "safe_mode", "error", "sample"}
          BY <3>1, <3>3, <3>5, Statements DEF WriteOutput
        <4> QED BY <2>0, <3>2, <3>3, <4>1, <4>2, OutputMoves
      <3> QED BY <3>4, <3>5
    <2>2. CASE \E t \in Tasks : WriteIngest(t)
      <3>1. PICK t \in Tasks : WriteIngest(t)
        BY <2>2
      <3>2. /\ output' = output /\ ingest' = Updated(ingest, IngestMove(t))
            /\ task[t].kind # "none" /\ Kinded(t, task[t])
        BY <3>1, Working DEF WriteIngest
      <3>3. ingest \in Closed /\ ingest' \notin Closed => task[t].kind = "start"
        BY <2>0, <3>2, IngestMoves
      <3> QED BY <3>2, <3>3 DEF Kinded, Commands, Starting
    <2>3. CASE ~(\E t \in Tasks : WriteOutput(t) \/ WriteIngest(t))
      <3>1. \A t \in Tasks : Step(t) => UNCHANGED <<output, ingest>>
        BY <2>3 DEF Step, WriteReadiness, WriteTelemetry, WriteProfile, WriteBinding,
                    ReadTables, SyncAuthority, tables
      <3>2. \A t : CutShort(t) => UNCHANGED <<output, ingest>>
        BY DEF CutShort, tables
      <3>3. \A t : Start(t) \/ Command(t) \/ Error(t) \/ Sample(t) => UNCHANGED <<output, ingest>>
        BY DEF Start, Command, Error, Sample, Begin, tables
      <3>4. UNCHANGED vars => UNCHANGED <<output, ingest>>
        BY DEF vars, tables
      <3>5. UNCHANGED <<output, ingest>>
        BY <3>1, <3>2, <3>3, <3>4 DEF Next
      <3> QED BY <3>5
    <2> QED BY <2>1, <2>2, <2>3
  <1> QED BY <1>1, Invariant, PTL DEF Spec, ClosedStaysClosed

-----------------------------------------------------------------------------
(* With one console: where its command has got to, and what that says of   *)
(* the tables.  No report can undo it, since none moves an output or the   *)
(* session on or off the air.                                              *)

Dark == \A i \in Outputs : output[i] \in OnAir => i \in spared
Open == ingest \in {"active", "reconnecting"}
Aired == \E i \in Outputs : output[i] \in OnAir
Started(row) == row.kind = "start" =>
  /\ row.at <= 2 => \E i \in Outputs : output[i] = "absent"
  /\ row.at > 1 => Open
  /\ row.at > 2 => Aired
  /\ row.at > 3 => readiness = "ready"
  /\ row.at > 5 => profile = "live"
Ended(row) ==
  /\ row.kind \in {"end", "force_end"} /\ row.at > 2 => Dark
  /\ row.kind = "end" /\ row.at > 5 => profile = "ended"
  /\ row.kind = "emergency" /\ row.at > 2 => profile = "interrupted"
Settled(row) ==
  /\ row.kind # "start" /\ ~torn /\ profile \in {"ended", "force_ended"} => Dark
  /\ row.kind \in {"none", "safe_mode", "program"} /\ ~torn =>
       /\ profile = "live" => Open /\ Aired /\ readiness = "ready"
       /\ profile = "interrupted" => Dark
Console(row) == Started(row) /\ Ended(row) /\ Settled(row)

\* The tables as far as the console is concerned.
Undisturbed ==
  /\ profile' = profile /\ readiness' = readiness /\ torn' = torn
  /\ Open' = Open /\ Aired' = Aired /\ Dark' = Dark
  /\ (\E i \in Outputs : output[i] = "absent") => (\E i \in Outputs : output'[i] = "absent")

LEMMA Undisturbing ==
  ASSUME NEW row, NEW new, Console(row), new.kind = row.kind, new.at = row.at, Undisturbed
  PROVE  Console(new)'
  <1>1. Started(new)'
    BY DEF Console, Started, Undisturbed
  <1>2. Ended(new)'
    BY DEF Console, Ended, Undisturbed
  <1>3. Settled(new)'
    BY DEF Console, Settled, Undisturbed
  <1> QED BY <1>1, <1>2, <1>3 DEF Console

LEMMA SameTables ==
  ASSUME UNCHANGED <<profile, ingest, output, readiness, spared, torn>>
  PROVE  Undisturbed
  BY DEF Undisturbed, Open, Aired, Dark

\* A report in progress.
LEMMA ReportSteps ==
  ASSUME IInv, NEW c, Operators = {c}, Console(task[c]), NEW t \in Reporters,
         Step(t) \/ CutShort(t) \/ Error(t) \/ Sample(t)
  PROVE  Console(task[c])'
  <1>0. /\ t \in Tasks /\ c \in Tasks /\ t # c /\ TypeOK
    BY RuntimeAssumption DEF Tasks, IInv
  <1>1. task[t].kind \in Reports \cup {"none"} /\ task[t].colour \in Colours
    BY <1>0, Working DEF Kinded, AllKinds, TaskState
  <1>2. CASE Step(t)
    <2>1. Advances(t) /\ task[t].kind # "none"
      BY <1>0, <1>2, TableSteps, ReadAdvances, SyncAdvances, Working
         DEF Step, ReadTables, SyncAuthority
    <2>2. task'[c].kind = task[c].kind /\ task'[c].at = task[c].at
      BY <1>0, <2>1 DEF Advances
    <2>3. torn' = torn
      <3>1. Goes(t)
        BY <1>2 DEF Step, WriteIngest, WriteOutput, WriteReadiness, WriteTelemetry,
           WriteProfile, WriteBinding, ReadTables, SyncAuthority, Writes
      <3> QED BY <1>0, <1>1, <3>1 DEF Goes, Ending, Reports, TypeOK
    <2>4. ~WriteReadiness(t) /\ ~WriteProfile(t)
      BY <1>0, <1>1, <2>1, Working, Statements DEF WriteReadiness, WriteProfile, Reports
    <2>5. CASE WriteIngest(t)
      <3>1. Open' = Open
        BY <1>0, <1>1, <2>1, <2>5, IngestMoves DEF WriteIngest, Open, TypeOK
      <3>2. Undisturbed
        BY <2>3, <2>5, <3>1 DEF WriteIngest, Undisturbed, Aired, Dark
      <3> QED BY <2>2, <3>2, Undisturbing
    <2>6. CASE WriteOutput(t)
      <3>1. task[t].kind \in {"error", "sample"}
        BY <1>1, <2>1 DEF Reports
      <3>2. output' = [i \in Outputs |-> Updated(output[i], OutputMove(t))]
        BY <2>6, <3>1 DEF WriteOutput
      <3>3. \A i \in Outputs : /\ output'[i] = "absent" <=> output[i] = "absent"
                               /\ output'[i] \in OnAir <=> output[i] \in OnAir
        BY <1>0, <1>1, <3>1, <3>2, OutputMoves DEF TypeOK
      <3>4. spared' = spared
        BY <2>6, <3>1 DEF WriteOutput
      <3>5. Aired' = Aired /\ Dark' = Dark
        BY <3>3, <3>4 DEF Aired, Dark
      <3>6. Undisturbed
        BY <2>3, <2>6, <3>3, <3>5 DEF WriteOutput, Undisturbed, Open
      <3> QED BY <2>2, <3>6, Undisturbing
    <2>7. CASE WriteTelemetry(t) \/ WriteBinding(t) \/ ReadTables(t) \/ SyncAuthority(t)
      BY <2>2, <2>3, <2>7, SameTables, Undisturbing
         DEF WriteTelemetry, WriteBinding, ReadTables, SyncAuthority, tables
    <2> QED BY <1>2, <2>4, <2>5, <2>6, <2>7 DEF Step
  <1>3. CASE CutShort(t)
    <2>1. torn' = torn
      BY <1>0, <1>3, RuntimeAssumption DEF CutShort, TypeOK
    <2>2. task'[c] = task[c]
      BY <1>0, <1>3, CutStep
    <2> QED BY <1>3, <2>1, <2>2, SameTables, Undisturbing DEF CutShort, tables
  <1>4. CASE Error(t) \/ Sample(t)
    <2>1. /\ task'[c].kind = task[c].kind /\ task'[c].at = task[c].at
          /\ UNCHANGED <<tables, authority, spared, history>>
      BY <1>0, <1>4, Requests, BeginStep
    <2> QED BY <2>1, SameTables, Undisturbing DEF tables, history
  <1> QED BY <1>2, <1>3, <1>4

\* The console begins a command, or is cut off.
LEMMA ConsoleAsks ==
  ASSUME IInv, NEW c, Operators = {c}, Console(task[c]), Start(c) \/ Command(c)
  PROVE  Console(task[c])'
  <1>1. PICK row \in TaskState : Begin(c, row) /\ row.kind # "none" /\ row.at = 1 /\ Kinded(c, row)
    BY Requests DEF Tasks
  <1>2. /\ task'[c].kind = row.kind /\ task'[c].at = 1 /\ task[c].kind = "none"
        /\ UNCHANGED <<tables, authority, spared, history>>
    BY <1>1, BeginStep DEF Tasks, Begin
  <1>3. Undisturbed
    BY <1>2, SameTables DEF tables, history
  <1>4. task'[c].kind = "start" => \E i \in Outputs : output'[i] = "absent"
    <2> SUFFICES ASSUME task'[c].kind = "start" PROVE \E i \in Outputs : output[i] = "absent"
      BY <1>2 DEF tables
    <2>1. Newest < MaxOutputs
      <3>1. CASE Start(c)
        BY <3>1 DEF Start
      <3>2. CASE Command(c)
        <4>1. PICK kind \in Commands \ {"start"} : Begin(c, [Idle EXCEPT !.kind = kind])
          BY <3>2 DEF Command
        <4>2. task'[c].kind = kind
          BY <4>1 DEF Begin, Tasks, Idle
        <4> QED BY <4>2
      <3> QED BY <3>1, <3>2
    <2>2. MaxOutputs \in Outputs /\ ~(MaxOutputs <= Newest)
      BY <2>1, NextOutput, RuntimeAssumption DEF Outputs
    <2> QED BY <2>2, NextOutput
  <1>5. Started(task[c])'
    BY <1>2, <1>4 DEF Started
  <1>6. Ended(task[c])'
    BY <1>2 DEF Ended
  <1>7. Settled(task[c])'
    BY <1>2, <1>3 DEF Console, Settled, Undisturbed
  <1> QED BY <1>5, <1>6, <1>7 DEF Console

LEMMA ConsoleCut ==
  ASSUME IInv, NEW c, Operators = {c}, CutShort(c)
  PROVE  Console(task[c])'
  <1>1. torn' /\ task'[c].kind = "none"
    BY CutStep, IdleType DEF CutShort, Tasks
  <1> QED BY <1>1 DEF Console, Started, Ended, Settled

\* What the statement a handler makes does to the tables the console minds.
Effects(t) ==
  /\ At(t, "ingest") => /\ ingest' = Updated(ingest, IngestMove(t))
                        /\ UNCHANGED <<profile, output, readiness, spared>>
  /\ At(t, "output") =>
       /\ output' = IF task[t].kind = "start"
                      THEN [output EXCEPT ![Newest + 1] = "publishing"]
                      ELSE [i \in Outputs |-> Updated(output[i], OutputMove(t))]
       /\ spared' = IF task[t].kind \in {"end", "emergency", "force_end"}
                      THEN {i \in Outputs : output[i] = "reconnecting"} ELSE spared
       /\ UNCHANGED <<profile, ingest, readiness>>
  /\ At(t, "readiness") =>
       /\ readiness' = IF task[t].kind = "start" THEN "ready"
                        ELSE Updated(readiness, Where({"ready"}, "ended"))
       /\ UNCHANGED <<profile, ingest, output, spared>>
  /\ At(t, "profile") =>
       /\ profile' = [start |-> "live", end |-> "ended", emergency |-> "interrupted",
                      force_end |-> "force_ended"][task[t].kind]
       /\ UNCHANGED <<ingest, output, readiness, spared>>
  /\ (\A s \in {"ingest", "output", "readiness", "profile"} : ~At(t, s)) =>
       UNCHANGED <<profile, ingest, output, readiness, spared>>

LEMMA StepEffects ==
  ASSUME IInv, NEW t \in Tasks, Step(t)
  PROVE  Effects(t) /\ Goes(t) /\ Advances(t) /\ task[t].kind # "none"
  <1>1. CASE WriteIngest(t)
    <2>1. Effects(t)
      BY <1>1, OneStatement DEF WriteIngest, Effects
    <2> QED BY <1>1, <2>1, TableSteps DEF WriteIngest, Writes
  <1>2. CASE WriteOutput(t)
    <2>1. Effects(t)
      BY <1>2, OneStatement DEF WriteOutput, Effects
    <2> QED BY <1>2, <2>1, TableSteps DEF WriteOutput, Writes
  <1>3. CASE WriteReadiness(t)
    <2>1. Effects(t)
      BY <1>3, OneStatement DEF WriteReadiness, Effects
    <2> QED BY <1>3, <2>1, TableSteps DEF WriteReadiness, Writes
  <1>4. CASE WriteProfile(t)
    <2>1. Effects(t)
      BY <1>4, OneStatement DEF WriteProfile, Effects
    <2> QED BY <1>4, <2>1, TableSteps DEF WriteProfile, Writes
  <1>5. CASE WriteTelemetry(t) \/ WriteBinding(t)
    <2>1. At(t, "telemetry") \/ At(t, "binding")
      BY <1>5 DEF WriteTelemetry, WriteBinding
    <2>2. UNCHANGED <<profile, ingest, output, readiness, spared>> /\ Goes(t)
      BY <1>5 DEF WriteTelemetry, WriteBinding, tables, Writes
    <2>3. \A s \in {"ingest", "output", "readiness", "profile"} : ~At(t, s)
      BY <2>1, OneStatement
    <2> QED BY <1>5, <2>2, <2>3, TableSteps DEF Effects
  <1>6. CASE ReadTables(t) \/ SyncAuthority(t)
    <2>1. At(t, "read") \/ At(t, "sync")
      BY <1>6 DEF ReadTables, SyncAuthority
    <2>2. UNCHANGED <<profile, ingest, output, readiness, spared>> /\ Goes(t)
      BY <1>6 DEF ReadTables, SyncAuthority, tables
    <2>3. \A s \in {"ingest", "output", "readiness", "profile"} : ~At(t, s)
      BY <2>1, OneStatement
    <2> QED BY <1>6, <2>1, <2>2, <2>3, ReadAdvances, SyncAdvances, Working DEF Effects
  <1> QED BY <1>1, <1>2, <1>3, <1>4, <1>5, <1>6 DEF Step

\* A statement that closes the outputs leaves only those it does not look for.
LEMMA Darkens ==
  ASSUME IInv, NEW t \in Tasks, Effects(t), At(t, "output"),
         task[t].kind \in {"end", "emergency", "force_end"}
  PROVE  Dark'
  <1>1. /\ output' = [i \in Outputs |-> Updated(output[i], OutputMove(t))]
        /\ spared' = {i \in Outputs : output[i] = "reconnecting"}
    BY DEF Effects
  <1>2. task[t].colour \in Colours /\ \A i \in Outputs : output[i] \in OutputRow
    BY Working DEF TaskState, IInv, TypeOK
  <1>3. \A i \in Outputs : output'[i] \in OnAir => output[i] = "reconnecting"
    BY <1>1, <1>2, OutputMoves
  <1> QED BY <1>1, <1>3 DEF Dark

\* A handler's next place, and whether its end mends what was cut short.
LEMMA NextPlace ==
  ASSUME IInv, NEW t \in Tasks, Advances(t), Goes(t), task[t].kind # "none",
         NEW n \in 1 .. 8, Len(Script[task[t].kind]) = n
  PROVE  /\ task[t].at \in 1 .. n
         /\ task[t].at < n => /\ task'[t].kind = task[t].kind
                              /\ task'[t].at = task[t].at + 1 /\ torn' = torn
         /\ task[t].at = n => /\ task'[t].kind = "none"
                              /\ task[t].kind \in Ending => ~torn'
  <1> DEFINE len == Len(Script[task[t].kind])
  <1>1. /\ task[t].at \in 1 .. 8 /\ task[t].at <= len /\ len = n
        /\ torn \in BOOLEAN
    BY Working DEF Placed, IInv, TypeOK
  <1>2. torn' = (torn /\ ~(task[t].at = len /\ task[t].kind \in Ending))
    BY DEF Goes
  <1>3. \/ task[t].at = len /\ task'[t].kind = "none"
        \/ /\ task[t].at < len /\ task'[t].kind = task[t].kind
           /\ task'[t].at = task[t].at + 1
    BY DEF Advances
  <1> HIDE DEF len
  <1>4. task[t].at \in 1 .. n
    BY <1>1
  <1>5. task[t].at < n => task[t].at # len
    BY <1>1
  <1> QED BY <1>1, <1>2, <1>3, <1>4, <1>5

\* Each command of the console, statement by statement.
LEMMA StartSteps ==
  ASSUME IInv, NEW c \in Tasks, task[c].kind = "start", Console(task[c]), Step(c)
  PROVE  Console(task[c])'
  <1> DEFINE at == task[c].at
  <1>1. /\ Effects(c) /\ Goes(c) /\ Advances(c) /\ at \in 1 .. 8 /\ Started(task[c])
        /\ Len(Script[task[c].kind]) = 8
    BY StepEffects, Working, Lengths DEF Console
  <1>2. \A s : At(c, s) <=> s = StartScript[at]
    BY <1>1, Scripts DEF At, StartScript
  <1>3. /\ at < 8 => task'[c].kind = "start" /\ task'[c].at = at + 1
        /\ at = 8 => task'[c].kind = "none" /\ ~torn'
    BY <1>1, NextPlace DEF Ending
  <1>4. ASSUME at = 1
        PROVE  Open' /\ \E i \in Outputs : output'[i] = "absent"
    <2>1. At(c, "ingest")
      BY <1>2, <1>4 DEF StartScript
    <2>2. ingest' = "active" /\ output' = output
      BY <1>1, <2>1, IngestMoves DEF Effects, IInv, TypeOK
    <2> QED BY <1>1, <1>4, <2>2 DEF Started, Open
  <1>5. ASSUME at = 2
        PROVE  Open' /\ Aired'
    <2>1. At(c, "output")
      BY <1>2, <1>5 DEF StartScript
    <2>2. output' = [output EXCEPT ![Newest + 1] = "publishing"] /\ ingest' = ingest
      BY <1>1, <2>1 DEF Effects
    <2>3. PICK i \in Outputs : output[i] = "absent"
      BY <1>1, <1>5 DEF Started
    <2>4. Newest + 1 \in Outputs
      BY <2>3, NextOutput, RuntimeAssumption DEF Outputs
    <2>5. output'[Newest + 1] = "publishing"
      BY <2>2, <2>4 DEF IInv, TypeOK
    <2> QED BY <1>1, <1>5, <2>2, <2>4, <2>5 DEF Started, Open, Aired, OnAir
  <1>6. ASSUME at = 3
        PROVE  Open' /\ Aired' /\ readiness' = "ready"
    <2>1. At(c, "readiness")
      BY <1>2, <1>6 DEF StartScript
    <2> QED BY <1>1, <1>6, <2>1 DEF Effects, Started, Open, Aired
  <1>7. ASSUME at = 5
        PROVE  Open' /\ Aired' /\ readiness' = "ready" /\ profile' = "live"
    <2>1. At(c, "profile")
      BY <1>2, <1>7 DEF StartScript
    <2> QED BY <1>1, <1>7, <2>1 DEF Effects, Started, Open, Aired
  <1>8. ASSUME at \in {4, 6, 7, 8}
        PROVE  Open' /\ Aired' /\ readiness' = "ready" /\ (at > 5 => profile' = "live")
    <2>1. \A s \in {"ingest", "output", "readiness", "profile"} : ~At(c, s)
      BY <1>2, <1>8 DEF StartScript
    <2>2. UNCHANGED <<profile, ingest, output, readiness, spared>>
      BY <1>1, <2>1 DEF Effects
    <2> QED BY <1>1, <1>8, <2>2 DEF Started, Open, Aired
  <1>9. Started(task[c])'
    BY <1>1, <1>3, <1>4, <1>5, <1>6, <1>7, <1>8 DEF Started
  <1>10. Ended(task[c])'
    BY <1>1, <1>3 DEF Ended
  <1>11. Settled(task[c])'
    BY <1>1, <1>3, <1>8 DEF Settled
  <1> QED BY <1>9, <1>10, <1>11 DEF Console

LEMMA EndSteps ==
  ASSUME IInv, NEW c \in Tasks, task[c].kind = "end", Console(task[c]), Step(c)
  PROVE  Console(task[c])'
  <1> DEFINE at == task[c].at
  <1>1. /\ Effects(c) /\ Goes(c) /\ Advances(c) /\ at \in 1 .. 8 /\ Ended(task[c])
        /\ Settled(task[c]) /\ Len(Script[task[c].kind]) = 8
    BY StepEffects, Working, Lengths DEF Console
  <1>2. \A s : At(c, s) <=> s = EndScript[at]
    BY <1>1, Scripts DEF At, EndScript
  <1>3. /\ at < 8 => task'[c].kind = "end" /\ task'[c].at = at + 1 /\ torn' = torn
        /\ at = 8 => task'[c].kind = "none" /\ ~torn'
    BY <1>1, NextPlace DEF Ending
  <1>4. ASSUME at = 2 PROVE Dark'
    BY <1>1, <1>2, <1>4, Darkens DEF EndScript
  <1>5. ASSUME at # 2 PROVE Dark' = Dark
    <2>1. ~At(c, "output")
      BY <1>1, <1>2, <1>5 DEF EndScript
    <2>2. output' = output /\ spared' = spared
      BY <1>1, <2>1 DEF Effects
    <2> QED BY <2>2 DEF Dark
  <1>6. at = 5 => profile' = "ended"
    BY <1>1, <1>2 DEF Effects, EndScript
  <1>7. at # 5 => profile' = profile
    <2> SUFFICES ASSUME at # 5 PROVE profile' = profile
      OBVIOUS
    <2>1. ~At(c, "profile")
      BY <1>1, <1>2 DEF EndScript
    <2> QED BY <1>1, <2>1 DEF Effects
  <1>8. Started(task[c])'
    BY <1>1, <1>3 DEF Started
  <1>9. Ended(task[c])'
    BY <1>1, <1>3, <1>4, <1>5, <1>6, <1>7 DEF Ended
  <1>10. Settled(task[c])'
    BY <1>1, <1>3, <1>4, <1>5, <1>6, <1>7 DEF Settled, Ended
  <1> QED BY <1>8, <1>9, <1>10 DEF Console

LEMMA ForceEndSteps ==
  ASSUME IInv, NEW c \in Tasks, task[c].kind = "force_end", Console(task[c]), Step(c)
  PROVE  Console(task[c])'
  <1> DEFINE at == task[c].at
  <1>1. /\ Effects(c) /\ Goes(c) /\ Advances(c) /\ Ended(task[c])
        /\ Settled(task[c]) /\ Len(Script[task[c].kind]) = 5
    BY StepEffects, Lengths DEF Console
  <1>0. at \in 1 .. 5
    BY <1>1, NextPlace
  <1>2. \A s : At(c, s) <=> s = ForceEndScript[at]
    BY <1>0, Scripts DEF At, ForceEndScript
  <1>3. /\ at < 5 => task'[c].kind = "force_end" /\ task'[c].at = at + 1 /\ torn' = torn
        /\ at = 5 => task'[c].kind = "none" /\ ~torn'
    BY <1>1, NextPlace DEF Ending
  <1>4. ASSUME at = 2 PROVE Dark'
    BY <1>1, <1>2, <1>4, Darkens DEF ForceEndScript
  <1>5. ASSUME at # 2 PROVE Dark' = Dark
    <2>1. ~At(c, "output")
      BY <1>0, <1>2, <1>5 DEF ForceEndScript
    <2>2. output' = output /\ spared' = spared
      BY <1>1, <2>1 DEF Effects
    <2> QED BY <2>2 DEF Dark
  <1>6. at = 5 => profile' = "force_ended"
    BY <1>1, <1>2 DEF Effects, ForceEndScript
  <1>7. at # 5 => profile' = profile
    <2> SUFFICES ASSUME at # 5 PROVE profile' = profile
      OBVIOUS
    <2>1. ~At(c, "profile")
      BY <1>0, <1>2 DEF ForceEndScript
    <2> QED BY <1>1, <2>1 DEF Effects
  <1>8. Started(task[c])'
    BY <1>0, <1>3 DEF Started
  <1>9. Ended(task[c])'
    BY <1>0, <1>1, <1>3, <1>4, <1>5 DEF Ended
  <1>10. Settled(task[c])'
    BY <1>0, <1>1, <1>3, <1>4, <1>5, <1>6, <1>7 DEF Settled, Ended
  <1> QED BY <1>8, <1>9, <1>10 DEF Console

LEMMA EmergencySteps ==
  ASSUME IInv, NEW c \in Tasks, task[c].kind = "emergency", Console(task[c]), Step(c)
  PROVE  Console(task[c])'
  <1> DEFINE at == task[c].at
  <1>1. /\ Effects(c) /\ Goes(c) /\ Advances(c) /\ Ended(task[c])
        /\ Settled(task[c]) /\ Len(Script[task[c].kind]) = 4
    BY StepEffects, Lengths DEF Console
  <1>0. at \in 1 .. 4
    BY <1>1, NextPlace
  <1>2. \A s : At(c, s) <=> s = EmergencyScript[at]
    BY <1>0, Scripts DEF At, EmergencyScript
  <1>3. /\ at < 4 => task'[c].kind = "emergency" /\ task'[c].at = at + 1 /\ torn' = torn
        /\ at = 4 => task'[c].kind = "none" /\ ~torn'
    BY <1>1, NextPlace DEF Ending
  <1>4. ASSUME at = 4 PROVE Dark'
    BY <1>1, <1>2, <1>4, Darkens DEF EmergencyScript
  <1>5. ASSUME at # 4 PROVE Dark' = Dark
    <2>1. ~At(c, "output")
      BY <1>0, <1>2, <1>5 DEF EmergencyScript
    <2>2. output' = output /\ spared' = spared
      BY <1>1, <2>1 DEF Effects
    <2> QED BY <2>2 DEF Dark
  <1>6. at = 2 => profile' = "interrupted"
    BY <1>1, <1>2 DEF Effects, EmergencyScript
  <1>7. at # 2 => profile' = profile
    <2> SUFFICES ASSUME at # 2 PROVE profile' = profile
      OBVIOUS
    <2>1. ~At(c, "profile")
      BY <1>0, <1>2 DEF EmergencyScript
    <2> QED BY <1>1, <2>1 DEF Effects
  <1>8. Started(task[c])'
    BY <1>0, <1>3 DEF Started
  <1>9. Ended(task[c])'
    BY <1>0, <1>1, <1>3, <1>6, <1>7 DEF Ended
  <1>10. Settled(task[c])'
    BY <1>0, <1>1, <1>3, <1>4, <1>5, <1>6, <1>7 DEF Settled, Ended
  <1> QED BY <1>8, <1>9, <1>10 DEF Console

LEMMA HoldSteps ==
  ASSUME IInv, NEW c \in Tasks, task[c].kind \in {"safe_mode", "program"},
         Console(task[c]), Step(c)
  PROVE  Console(task[c])'
  <1>1. /\ Effects(c) /\ Goes(c) /\ Advances(c) /\ Settled(task[c])
        /\ task[c].colour \in Colours
    BY StepEffects, Working DEF Console, TaskState
  <1>2. torn' = torn /\ task'[c].kind \in {task[c].kind, "none"}
    BY <1>1 DEF Goes, Ending, Advances, IInv, TypeOK
  <1>3. \A s \in {"ingest", "readiness", "profile"} : ~At(c, s)
    BY Working, Statements
  <1>4. CASE At(c, "output")
    <2>1. UNCHANGED <<profile, ingest, readiness, spared>>
      BY <1>1, <1>4 DEF Effects
    <2>2. output' = [i \in Outputs |-> Updated(output[i], OutputMove(c))]
      BY <1>1, <1>4 DEF Effects
    <2>3. task[c].kind = "safe_mode"
      BY <1>4, Working, Statements
    <2>4. \A i \in Outputs : output'[i] \in OnAir <=> output[i] \in OnAir
      BY <1>1, <2>2, <2>3, OutputMoves DEF IInv, TypeOK
    <2>5. Open' = Open /\ Aired' = Aired /\ Dark' = Dark
      BY <2>1, <2>4 DEF Open, Aired, Dark
    <2> QED BY <1>1, <1>2, <2>1, <2>5 DEF Console, Started, Ended, Settled
  <1>5. CASE ~At(c, "output")
    <2>1. UNCHANGED <<profile, ingest, output, readiness, spared>>
      BY <1>1, <1>3, <1>5 DEF Effects
    <2>2. Open' = Open /\ Aired' = Aired /\ Dark' = Dark
      BY <2>1 DEF Open, Aired, Dark
    <2> QED BY <1>1, <1>2, <2>1, <2>2 DEF Console, Started, Ended, Settled
  <1> QED BY <1>4, <1>5

LEMMA OneConsole ==
  ASSUME NEW c, Operators = {c}
  PROVE  Spec => [](IInv /\ Console(task[c]))
  <1>0. c \in Tasks
    BY DEF Tasks
  <1>1. Init => IInv /\ Console(task[c])
    <2> SUFFICES ASSUME Init PROVE Console(task[c])
      BY Initially
    <2>1. task[c].kind = "none" /\ profile = "scheduled"
      BY <1>0, IdleType DEF Init
    <2> QED BY <2>1 DEF Console, Started, Ended, Settled
  <1>2. IInv /\ Console(task[c]) /\ [Next]_vars => (IInv /\ Console(task[c]))'
    <2> SUFFICES ASSUME IInv, Console(task[c]), [Next]_vars PROVE Console(task[c])'
      BY Keeps
    <2>1. CASE UNCHANGED vars
      BY <2>1, SameTables, Undisturbing DEF vars, tables, history
    <2>2. CASE Start(c) \/ Command(c)
      BY <2>2, ConsoleAsks
    <2>3. ASSUME NEW t \in Reporters, Step(t) \/ CutShort(t) \/ Error(t) \/ Sample(t)
          PROVE  Console(task[c])'
      BY <2>3, ReportSteps
    <2>4. CASE CutShort(c)
      BY <2>4, ConsoleCut
    <2>5. CASE Step(c)
      <3>1. task[c].kind \in Commands
        BY <1>0, <2>5, RuntimeAssumption, Working, StepEffects, KindsAre DEF Kinded, Reports, Commands, KindOf
      <3> QED BY <1>0, <2>5, <3>1, StartSteps, EndSteps, ForceEndSteps, EmergencySteps,
                 HoldSteps DEF Commands
    <2> QED BY <2>1, <2>2, <2>3, <2>4, <2>5 DEF Next, Tasks
  <1> QED BY <1>1, <1>2, PTL DEF Spec

\* With one console, whatever reports arrive and wherever they stand: a broadcast that
\* has ended has nothing on air but what was reconnecting when it was ended.
THEOREM EndedStaysDark ==
  ASSUME NEW c, Operators = {c}
  PROVE  Spec => []EndedIsDark
  <1>1. IInv /\ Console(task[c]) => EndedIsDark
    BY DEF Console, Settled, Starting, EndedIsDark, Dark
  <1> QED BY <1>1, OneConsole, PTL

\* With one console: between its commands a live broadcast is on air, with its ingest
\* session open, and an interrupted one is not.
THEOREM LiveStaysOnAir ==
  ASSUME NEW c, Operators = {c}
  PROVE  Spec => []LiveIsOnAir
  <1>1. IInv /\ Console(task[c]) => LiveIsOnAir
    BY DEF Console, Settled, ConsoleAtRest, LiveIsOnAir, Dark, Open, Aired
  <1> QED BY <1>1, OneConsole, PTL
=============================================================================
