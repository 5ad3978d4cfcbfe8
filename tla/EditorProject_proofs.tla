------------------------ MODULE EditorProject_proofs ------------------------
(***************************************************************************)
(* Theorems about EditorProject, for any number of requests and exports    *)
(* and whichever tables are filled: its types, that what is ready was      *)
(* rendered, that a deletion on its own goes through, and that what is     *)
(* published can be played.                                                *)
(***************************************************************************)
EXTENDS EditorProject, SequenceTheorems, TLAPS

Done(e, jobs, packages) == jobs[e] = "completed" /\ packages[e]
\* What a request in progress owes: an export it is about, a place in its
\* script, and what is known of an export it is about to write.
Placed(row) ==
  /\ row.kind # "none" => row.at <= Len(Script[row.kind])
  /\ row.kind \notin {"none", "create", "render", "remove"} => row.export \in Exports
  /\ row.kind = "render" /\ row.at > 1 => row.export \in Exports
  /\ row.kind = "patch" => row.status \notin Gone
Due(row, jobs, packages) ==
  row.kind = "render" =>
    /\ row.at > 1 => jobs[row.export] # "none"
    /\ row.at = 5 => Done(row.export, jobs, packages) \/ jobs[row.export] = "gone"
Kept(row, jobs, packages, exports, given) ==
  row.kind = "patch" =>
    /\ exports[row.export] # "none"
    /\ ~row.given /\ row.status \in {"ready", "published"} /\ row.export \notin given
         => Done(row.export, jobs, packages) \/ exports[row.export] = "gone"
Sound(row, jobs, packages, exports, given) ==
  /\ row \in TaskState /\ Placed(row)
  /\ Due(row, jobs, packages) /\ Kept(row, jobs, packages, exports, given)

TablesOK ==
  /\ project \in Projects /\ rows \subseteq Leaves \cup {"timelines"}
  /\ job \in [Exports -> Jobs] /\ package \in [Exports -> BOOLEAN]
  /\ export \in [Exports -> Outcomes] /\ versioned \subseteq Exports
  /\ link \subseteq Exports /\ review \subseteq Exports \cup {"timeline"}
  /\ pipeline \in [Exports -> Pipelines]
  /\ forced \subseteq Exports /\ unsure \subseteq Exports
\* An export has its job (the foreign key).
Linked == \A e \in Exports : /\ export[e] \notin Gone => job[e] \notin Gone
                             /\ job[e] = "none" => export[e] = "none"
TasksOK ==
  /\ task = [t \in Requests |-> task[t]]
  /\ \A t \in Requests : Sound(task[t], job, package, export, forced)
\* A render between its two INSERTs alone knows of its job, which has no export
\* yet; a deletion of an export was asked for when there was one.
Opening(row) == row.kind = "render" /\ row.at = 2
Deleting(row) == row.kind \in {"remove_export", "remove_job"} /\ row.at <= 3
Fresh ==
  /\ \A t \in Requests :
       Opening(task[t]) => export[task[t].export] = "none"
  /\ \A t, u \in Requests :
       Opening(task[t]) /\ Opening(task[u]) /\ t # u => task[t].export # task[u].export
  /\ \A t \in Requests : Deleting(task[t]) => export[task[t].export] # "none"
IInv == TablesOK /\ Linked /\ ReadyIsRendered /\ TasksOK

-----------------------------------------------------------------------------
LEMMA IdleType == /\ Idle \in TaskState /\ Idle.kind = "none" /\ Idle.export = "none"
                  /\ Idle.at = 1
  BY DEF Idle, TaskState, Kinds, Outcomes, Gone

LEMMA Lengths ==
  /\ \A kind \in Kinds : Len(Script[kind]) \in 0 .. 14
  /\ Len(Script["render"]) = 5 /\ Len(Script["publish"]) = 5 /\ Len(Script["patch"]) = 1
  /\ Len(Script["remove_export"]) = 3 /\ Len(Script["remove_job"]) = 4
  /\ Len(Script["remove"]) = 14
  BY DEF Script, Kinds, RemoveScript

\* Where in its script a request makes each of its statements.
LEMMA Statements ==
  ASSUME NEW t, task[t].kind \in Kinds, task[t].at \in 1 .. 14
  PROVE  /\ At(t, "timeline") => task[t].kind = "create"
         /\ At(t, "job") => task[t].kind = "render" /\ task[t].at = 1
         /\ At(t, "export") => task[t].kind = "render" /\ task[t].at = 2
         /\ At(t, "source") => task[t].kind = "render" /\ task[t].at = 3
         /\ At(t, "complete") => task[t].kind = "render" /\ task[t].at = 4
         /\ At(t, "ready") => task[t].kind = "render" /\ task[t].at = 5
         /\ At(t, "publish") => task[t].kind = "publish" /\ task[t].at = 1
         /\ At(t, "read") => task[t].kind = "publish" /\ task[t].at = 2
         /\ At(t, "pipe_job") => task[t].kind = "publish" /\ task[t].at = 3
         /\ At(t, "pipe_asset") => task[t].kind = "publish" /\ task[t].at = 4
         /\ At(t, "pipe_variant") => task[t].kind = "publish" /\ task[t].at = 5
         /\ At(t, "patch") => task[t].kind = "patch" /\ task[t].at = 1
         /\ At(t, "link") => task[t].kind = "submit" /\ task[t].at = 1
         /\ At(t, "review") => task[t].kind = "submit" /\ task[t].at = 2
         /\ At(t, "links_of") => task[t].kind \in {"remove_export", "remove_job"} /\ task[t].at = 1
         /\ At(t, "reviews_of") => task[t].kind \in {"remove_export", "remove_job"} /\ task[t].at = 2
         /\ At(t, "export_row") => task[t].kind \in {"remove_export", "remove_job"} /\ task[t].at = 3
         /\ At(t, "job_row") => task[t].kind = "remove_job" /\ task[t].at = 4
  <1>1. CASE task[t].kind \in {"none", "create", "patch", "submit"}
    BY <1>1 DEF At, Script
  <1>2. CASE task[t].kind \in {"render", "publish"}
    BY <1>2 DEF At, Script
  <1>3. CASE task[t].kind \in {"remove_export", "remove_job"}
    BY <1>3 DEF At, Script
  <1>4. CASE task[t].kind = "remove"
    BY <1>4 DEF At, Script, RemoveScript
  <1> QED BY <1>1, <1>2, <1>3, <1>4 DEF Kinds

\* A request either ends or is one statement further.
Further(row, new) ==
  /\ new.kind = row.kind /\ new.at = row.at + 1 /\ new.export = row.export
  /\ new.version = row.version /\ new.manifest = row.manifest
  /\ new.status = row.status /\ new.given = row.given /\ new.alone = row.alone

LEMMA OnwardsRow ==
  ASSUME NEW row \in TaskState, row.kind # "none", Placed(row)
  PROVE  \/ Onwards(row) = Idle /\ row.at = Len(Script[row.kind])
         \/ /\ Onwards(row) \in TaskState /\ Further(row, Onwards(row))
            /\ row.at # Len(Script[row.kind])
            /\ Onwards(row).at <= Len(Script[row.kind])
  <1> DEFINE len == Len(Script[row.kind])
  <1>1. len \in 0 .. 14 /\ row.at \in 1 .. 14 /\ row.at <= len
    BY Lengths DEF TaskState, Placed
  <1>2. CASE row.at = len
    BY <1>2 DEF Onwards
  <1>3. CASE row.at # len
    <2>1. ASSUME NEW new, new = [row EXCEPT !.at = @ + 1]
          PROVE  new \in TaskState /\ Further(row, new) /\ new.at <= len
      <3> HIDE DEF len
      <3>1. row.at + 1 \in 1 .. 14 /\ row.at + 1 <= len
        BY <1>1, <1>3
      <3> QED BY <2>1, <3>1 DEF TaskState, Further
    <2>2. Onwards(row) = [row EXCEPT !.at = @ + 1]
      BY <1>3 DEF Onwards
    <2> QED BY <2>1, <2>2, <1>3
  <1> QED BY <1>2, <1>3

\* What becomes of jobs, packages, exports and given statuses.
Later ==
  /\ \A e \in Exports :
       /\ Done(e, job, package) => Done(e, job', package') \/ job'[e] = "gone"
       /\ job[e] = "gone" => job'[e] = "gone"
       /\ job[e] # "none" => job'[e] # "none"
       /\ export[e] = "gone" => export'[e] = "gone"
       /\ export[e] # "none" => export'[e] # "none"
       /\ job'[e] = "gone" => export'[e] \in Gone
  /\ forced \subseteq forced'

LEMMA Carried ==
  ASSUME NEW row, Sound(row, job, package, export, forced), Later
  PROVE  Sound(row, job', package', export', forced')
  <1>1. row \in TaskState /\ Placed(row)
    BY DEF Sound
  <1>2. Due(row, job', package')
    <2> SUFFICES ASSUME row.kind = "render", row.at > 1
                 PROVE  /\ job'[row.export] # "none"
                        /\ row.at = 5 => \/ Done(row.export, job', package')
                                         \/ job'[row.export] = "gone"
      BY <1>1 DEF Due, TaskState
    <2>1. row.export \in Exports
      BY <1>1 DEF Placed
    <2>2. /\ job[row.export] # "none"
          /\ row.at = 5 => Done(row.export, job, package) \/ job[row.export] = "gone"
      BY DEF Sound, Due
    <2> QED BY <2>1, <2>2 DEF Later
  <1>3. Kept(row, job', package', export', forced')
    <2> SUFFICES ASSUME row.kind = "patch"
                 PROVE  /\ export'[row.export] # "none"
                        /\ ~row.given /\ row.status \in {"ready", "published"}
                           /\ row.export \notin forced'
                           => \/ Done(row.export, job', package')
                              \/ export'[row.export] = "gone"
      BY DEF Kept
    <2>1. row.export \in Exports
      BY <1>1 DEF Placed
    <2>2. export'[row.export] # "none"
      BY <2>1 DEF Sound, Kept, Later
    <2>3. ASSUME ~row.given, row.status \in {"ready", "published"}, row.export \notin forced'
          PROVE  Done(row.export, job', package') \/ export'[row.export] = "gone"
      <3>1. Done(row.export, job, package) \/ export[row.export] = "gone"
        BY <2>3 DEF Sound, Kept, Later
      <3> QED BY <2>1, <2>2, <3>1 DEF Later, Gone
    <2> QED BY <2>2, <2>3
  <1> QED BY <1>1, <1>2, <1>3 DEF Sound

LEMMA AloneOrNot ==
  ASSUME NEW jobs, NEW packages, NEW exports, NEW given, NEW row, NEW flag \in BOOLEAN,
         Sound(row, jobs, packages, exports, given)
  PROVE  Sound([row EXCEPT !.alone = flag], jobs, packages, exports, given)
  <1>1. ASSUME NEW new, new = [row EXCEPT !.alone = flag]
        PROVE  Sound(new, jobs, packages, exports, given)
    <2>1. new \in TaskState /\ new.kind = row.kind /\ new.at = row.at /\ new.export = row.export
          /\ new.given = row.given /\ new.status = row.status
      BY <1>1 DEF Sound, TaskState
    <2> QED BY <2>1 DEF Sound, Placed, Due, Kept
  <1> QED BY <1>1

LEMMA IdleSound ==
  ASSUME NEW jobs, NEW packages, NEW exports, NEW given
  PROVE  Sound(Idle, jobs, packages, exports, given)
  BY IdleType DEF Sound, Placed, Due, Kept, Idle

-----------------------------------------------------------------------------
\* The requests are sound again when the one that moved is.
LEMMA OneMoves ==
  ASSUME TasksOK, Later, NEW t \in Requests, NEW new,
         task' = [task EXCEPT ![t] = new],
         Sound(new, job', package', export', forced')
  PROVE  TasksOK'
  <1>1. task' = [u \in Requests |-> task'[u]]
    BY DEF TasksOK
  <1>2. ASSUME NEW u \in Requests
        PROVE  Sound(task'[u], job', package', export', forced')
    <2>1. CASE u = t
      BY <2>1 DEF TasksOK
    <2>2. CASE u # t
      <3>1. task'[u] = task[u]
        BY <2>2 DEF TasksOK
      <3>2. Sound(task[u], job, package, export, forced)
        BY DEF TasksOK
      <3> QED BY <3>1, <3>2, Carried
    <2> QED BY <2>1, <2>2
  <1> QED BY <1>1, <1>2 DEF TasksOK

LEMMA BesideSound ==
  ASSUME TasksOK, Later, NEW u \in Requests
  PROVE  Sound(Beside(task)[u], job', package', export', forced')
  <1>1. Sound(task[u], job, package, export, forced)
    BY DEF TasksOK
  <1>2. Sound(task[u], job', package', export', forced')
    BY <1>1, Carried
  <1>3. Beside(task)[u] = [task[u] EXCEPT !.alone = FALSE]
    BY DEF Beside
  <1>4. FALSE \in BOOLEAN
    OBVIOUS
  <1> DEFINE row == task[u]
  <1>5. Sound(row, job', package', export', forced')
    BY <1>2
  <1>6. Sound([row EXCEPT !.alone = FALSE], job', package', export', forced')
    <2> HIDE DEF row
    <2> QED BY <1>5, <1>4, AloneOrNot
  <1> QED BY <1>3, <1>6

LEMMA Edited ==
  ASSUME TasksOK, Later, Edit
  PROVE  TasksOK'
  <1>1. task' = [u \in Requests |-> task'[u]]
    BY DEF Edit, Beside
  <1>2. ASSUME NEW u \in Requests
        PROVE  Sound(task'[u], job', package', export', forced')
    BY BesideSound DEF Edit
  <1> QED BY <1>1, <1>2 DEF TasksOK

LEMMA Admitted ==
  ASSUME TasksOK, Later, NEW t \in Requests, NEW row, Admit(t, row),
         Sound(row, job', package', export', forced')
  PROVE  TasksOK'
  <1> DEFINE flag == \A u \in Requests : task[u].kind = "none"
  <1>0. task' = [Beside(task) EXCEPT ![t] = [row EXCEPT !.alone = flag]]
    BY DEF Admit
  <1>1. task' = [u \in Requests |-> task'[u]]
    BY <1>0 DEF Beside
  <1>2. ASSUME NEW u \in Requests
        PROVE  Sound(task'[u], job', package', export', forced')
    <2>1. CASE u = t
      <3>1. task'[u] = [row EXCEPT !.alone = flag]
        BY <1>0, <2>1 DEF Beside
      <3>2. flag \in BOOLEAN
        OBVIOUS
      <3> HIDE DEF flag
      <3> QED BY <3>1, <3>2, AloneOrNot
    <2>2. CASE u # t
      <3>1. task'[u] = Beside(task)[u]
        BY <1>0, <2>2 DEF Beside
      <3> QED BY <3>1, BesideSound
    <2> QED BY <2>1, <2>2
  <1> QED BY <1>1, <1>2 DEF TasksOK

\* A request that goes on, or ends, owes nothing new but before an UPDATE.
LEMMA GoesOn ==
  ASSUME TasksOK, Later, NEW t \in Requests, task[t].kind # "none",
         Goes(t) \/ Ends(t),
         ~(task[t].kind = "render" /\ task[t].at \in {1, 4})
  PROVE  TasksOK'
  <1> DEFINE row == task[t]
  <1>1. Sound(row, job, package, export, forced)
    BY DEF TasksOK
  <1>2. Sound(row, job', package', export', forced')
    BY <1>1, Carried
  <1>3. row \in TaskState /\ Placed(row)
    BY <1>1 DEF Sound
  <1>4. Sound(Onwards(row), job', package', export', forced')
    <2> HIDE DEF row
    <2>1. CASE Onwards(row) = Idle
      BY <2>1, IdleSound
    <2>2. CASE /\ Onwards(row) \in TaskState /\ Further(row, Onwards(row))
               /\ row.at # Len(Script[row.kind])
               /\ Onwards(row).at <= Len(Script[row.kind])
      <3>1. Placed(Onwards(row))
        BY <1>3, <2>2 DEF Placed, Further, TaskState, row
      <3>2. Due(Onwards(row), job', package')
        BY <2>2, <1>2, <1>3 DEF Sound, Due, Further, TaskState, row
      <3>3. Kept(Onwards(row), job', package', export', forced')
        BY <1>2, <2>2 DEF Sound, Kept, Further
      <3> QED BY <2>2, <3>1, <3>2, <3>3 DEF Sound
    <2> QED BY <1>3, <2>1, <2>2, OnwardsRow DEF row
  <1>5. CASE Goes(t)
    BY <1>4, <1>5, OneMoves DEF Goes
  <1>6. CASE Ends(t)
    BY <1>6, IdleSound, OneMoves DEF Ends
  <1> QED BY <1>5, <1>6

-----------------------------------------------------------------------------
LEMMA Quiet ==
  ASSUME Linked, ReadyIsRendered, TablesOK, UNCHANGED <<renders, forced>>
  PROVE  Later /\ Linked' /\ ReadyIsRendered'
  <1>1. UNCHANGED <<job, package, export, forced>>
    BY DEF renders
  <1>2. \A e \in Exports : Done(e, job, package) => Done(e, job', package')
    BY <1>1 DEF Done
  <1>3. \A e \in Exports : job'[e] = "gone" => export'[e] \in Gone
    BY <1>1 DEF Linked, Gone
  <1>4. Later
    BY <1>1, <1>2, <1>3 DEF Later
  <1> QED BY <1>1, <1>4 DEF Linked, ReadyIsRendered

\* A row a request begins with.
LEMMA Asked ==
  \A kind \in Kinds, e \in Exports \cup {"none"} :
    LET row == [Idle EXCEPT !.kind = kind, !.export = e]
    IN /\ row \in TaskState /\ row.kind = kind /\ row.export = e /\ row.at = 1
  <1> TAKE kind \in Kinds, e \in Exports \cup {"none"}
  <1>1. ASSUME NEW row, row = [Idle EXCEPT !.kind = kind, !.export = e]
        PROVE  row \in TaskState /\ row.kind = kind /\ row.export = e /\ row.at = 1
    BY <1>1, IdleType DEF TaskState
  <1> QED BY <1>1

\* The places a row but a patch's may begin at.
Young(row) ==
  /\ row \in TaskState
  /\ row.kind \in {"create", "render", "publish", "submit", "remove_export",
                   "remove_job", "remove"}
  /\ row.at = 1 \/ (row.at = 4 /\ row.kind = "remove_job")
  /\ row.kind \notin {"create", "render", "remove"} => row.export \in Exports

LEMMA NewRow ==
  ASSUME NEW jobs, NEW packages, NEW exports, NEW given, NEW row, Young(row)
  PROVE  Sound(row, jobs, packages, exports, given)
  <1> DEFINE len == Len(Script[row.kind])
  <1>1. len \in 1 .. 14 /\ (row.kind = "remove_job" => len = 4)
    BY DEF Script, RemoveScript, Young
  <1>2. row.at <= len
    <2> HIDE DEF len
    <2> QED BY <1>1 DEF Young
  <1>3. Placed(row)
    BY <1>2 DEF Placed, Young
  <1>4. Due(row, jobs, packages) /\ Kept(row, jobs, packages, exports, given)
    BY DEF Due, Kept, Young
  <1> QED BY <1>3, <1>4 DEF Sound, Young

LEMMA Begins ==
  ASSUME IInv, NEW t \in Requests, Begin(t)
  PROVE  IInv'
  <1>1. UNCHANGED <<rows, renders, children, pipeline, history>>
    BY DEF Begin, Create, Render, Remove, Publish, Submit, Patch, RemoveExport,
           RemoveJob, Asks
  <1>2. project' \in Projects
    BY DEF Begin, Create, Render, Remove, Publish, Submit, Patch, RemoveExport,
           RemoveJob, Asks, IInv, TablesOK, Projects
  <1>3. Later /\ Linked' /\ ReadyIsRendered'
    BY <1>1, Quiet DEF IInv, history
  <1>4. TablesOK'
    BY <1>1, <1>2 DEF IInv, TablesOK, renders, children, history
  <1>5. TasksOK /\ TablesOK
    BY DEF IInv
  <1>6. \A e \in Exports : e \in Exports \cup {"none"}
    OBVIOUS
  <1>7. CASE Create(t)
    <2> DEFINE row == [Idle EXCEPT !.kind = "create"]
    <2>1. row \in TaskState /\ row.kind = "create" /\ row.at = 1
      BY IdleType DEF TaskState, Kinds
    <2>2. Admit(t, row)
      BY <1>7 DEF Create
    <2> HIDE DEF row
    <2>3. Sound(row, job', package', export', forced')
      <3>1. Young(row)
        BY <2>1 DEF Young
      <3> QED BY <3>1, NewRow
    <2>4. TasksOK'
      BY <1>3, <1>5, <2>2, <2>3, Admitted
    <2> QED BY <1>3, <1>4, <2>4 DEF IInv
  <1>8. CASE Render(t)
    <2> DEFINE version == "versions" \in rows
    <2>1. Admit(t, [Idle EXCEPT !.kind = "render", !.version = version])
      BY <1>8 DEF Render
    <2>2. version \in BOOLEAN
      OBVIOUS
    <2> HIDE DEF version
    <2>3. ASSUME NEW row, row = [Idle EXCEPT !.kind = "render", !.version = version]
          PROVE  Sound(row, job', package', export', forced')
      <3>1. row \in TaskState /\ row.kind = "render" /\ row.at = 1
        BY <2>2, <2>3, IdleType DEF TaskState, Kinds
      <3>2. Young(row)
        BY <3>1 DEF Young
      <3> QED BY <3>2, NewRow
    <2>4. TasksOK'
      BY <1>3, <1>5, <2>1, <2>3, Admitted
    <2> QED BY <1>3, <1>4, <2>4 DEF IInv
  <1>9. ASSUME NEW kind \in {"publish", "remove_export", "remove"},
               NEW e \in Exports \cup {"none"}, Asks(t, kind, e),
               kind # "remove" => e \in Exports
        PROVE  IInv'
    <2> DEFINE row == [Idle EXCEPT !.kind = kind, !.export = e]
    <2>1. row \in TaskState /\ row.kind = kind /\ row.export = e /\ row.at = 1
      <3>1. kind \in Kinds
        BY DEF Kinds
      <3> QED BY <3>1, Asked
    <2>2. Admit(t, row)
      BY <1>9 DEF Asks
    <2> HIDE DEF row
    <2>3. Sound(row, job', package', export', forced')
      <3>1. Young(row)
        BY <1>9, <2>1 DEF Young
      <3> QED BY <3>1, NewRow
    <2>4. TasksOK'
      BY <1>3, <1>5, <2>2, <2>3, Admitted
    <2> QED BY <1>3, <1>4, <2>4 DEF IInv
  <1>10. ASSUME NEW e \in Exports, Submit(t, e)
         PROVE  IInv'
    <2> DEFINE version == e \in versioned
    <2>1. Admit(t, [Idle EXCEPT !.kind = "submit", !.export = e, !.version = version])
      BY <1>10 DEF Submit
    <2>2. version \in BOOLEAN
      OBVIOUS
    <2> HIDE DEF version
    <2>3. ASSUME NEW row,
                 row = [Idle EXCEPT !.kind = "submit", !.export = e, !.version = version]
          PROVE  Sound(row, job', package', export', forced')
      <3>1. row \in TaskState /\ row.kind = "submit" /\ row.export = e /\ row.at = 1
        BY <2>2, <2>3, IdleType DEF TaskState, Kinds
      <3>2. Young(row)
        BY <3>1 DEF Young
      <3> QED BY <3>2, NewRow
    <2>4. TasksOK'
      BY <1>3, <1>5, <2>1, <2>3, Admitted
    <2> QED BY <1>3, <1>4, <2>4 DEF IInv
  <1>11. ASSUME NEW e \in Exports, RemoveJob(t, e)
         PROVE  IInv'
    <2> DEFINE at == IF export[e] \in Gone THEN 4 ELSE 1
    <2>1. Admit(t, [Idle EXCEPT !.kind = "remove_job", !.export = e, !.at = at])
      BY <1>11 DEF RemoveJob
    <2>2. at \in {1, 4}
      OBVIOUS
    <2> HIDE DEF at
    <2>3. ASSUME NEW row,
                 row = [Idle EXCEPT !.kind = "remove_job", !.export = e, !.at = at]
          PROVE  Sound(row, job', package', export', forced')
      <3>1. row \in TaskState /\ row.kind = "remove_job" /\ row.export = e /\ row.at = at
        <4>1. at \in 1 .. 14
          BY <2>2
        <4> QED BY <4>1, <2>3, IdleType DEF TaskState, Kinds
      <3>2. Young(row)
        BY <2>2, <3>1 DEF Young
      <3> QED BY <3>2, NewRow
    <2>4. TasksOK'
      BY <1>3, <1>5, <2>1, <2>3, Admitted
    <2> QED BY <1>3, <1>4, <2>4 DEF IInv
  <1>12. ASSUME NEW e \in Exports, Patch(t, e)
         PROVE  IInv'
    <2>1. PICK given \in BOOLEAN, status \in Outcomes \ Gone :
            /\ given \/ status = export[e]
            /\ Admit(t, [Idle EXCEPT !.kind = "patch", !.export = e,
                                     !.status = status, !.given = given])
      BY <1>12 DEF Patch
    <2>2. export[e] \notin Gone /\ UNCHANGED <<job, package, export, forced>>
      BY <1>1, <1>12 DEF Patch, renders, history
    <2>3. ASSUME NEW row, row = [Idle EXCEPT !.kind = "patch", !.export = e,
                                            !.status = status, !.given = given]
          PROVE  Sound(row, job', package', export', forced')
      <3>1. /\ row.kind = "patch" /\ row.export = e /\ row.at = 1
            /\ row.status = status /\ row.given = given /\ row \in TaskState
        BY <2>3, IdleType DEF TaskState, Kinds
      <3>2. Placed(row) /\ Due(row, job', package')
        BY <3>1, Lengths DEF Placed, Due
      <3>3. export'[e] # "none"
        BY <2>2 DEF Gone
      <3>4. ~given /\ status \in {"ready", "published"} /\ e \notin forced'
              => Done(e, job', package')
        BY <2>1, <2>2 DEF IInv, ReadyIsRendered, Done
      <3>5. Kept(row, job', package', export', forced')
        BY <3>1, <3>3, <3>4 DEF Kept
      <3> QED BY <3>1, <3>2, <3>5 DEF Sound
    <2>4. TasksOK'
      BY <1>3, <1>5, <2>1, <2>3, Admitted
    <2> QED BY <1>3, <1>4, <2>4 DEF IInv
  <1>13. CASE Remove(t)
    BY <1>9, <1>13 DEF Remove
  <1>14. ASSUME NEW e \in Exports, Publish(t, e) \/ RemoveExport(t, e)
         PROVE  IInv'
    BY <1>9, <1>14 DEF Publish, RemoveExport
  <1> QED BY <1>7, <1>8, <1>10, <1>11, <1>12, <1>13, <1>14 DEF Begin

-----------------------------------------------------------------------------
\* What is known of a request that is about to make a statement.
LEMMA Working ==
  ASSUME IInv, NEW t \in Requests
  PROVE  /\ task[t] \in TaskState /\ task[t].kind \in Kinds /\ task[t].at \in 1 .. 14
         /\ Placed(task[t]) /\ Due(task[t], job, package)
         /\ Kept(task[t], job, package, export, forced)
         /\ task[t].export \in Exports \cup {"none"}
         /\ TablesOK /\ Linked /\ ReadyIsRendered /\ TasksOK
  <1>1. Sound(task[t], job, package, export, forced)
    BY DEF IInv, TasksOK
  <1> QED BY <1>1 DEF IInv, Sound, TaskState

\* Statements that touch neither jobs nor exports.
LEMMA Aside ==
  ASSUME IInv, NEW t \in Requests,
         \/ Refused(t) \/ FirstTimeline(t) \/ ReadSource(t) \/ ReadJob(t)
         \/ PipelineJob(t) \/ PipelineAsset(t) \/ PipelineVariant(t)
         \/ InsertLink(t) \/ InsertReview(t) \/ DeleteLinks(t) \/ DeleteReviews(t)
         \/ CutShort(t)
  PROVE  IInv'
  <1>0. /\ task[t] \in TaskState /\ task[t].kind \in Kinds /\ task[t].at \in 1 .. 14
        /\ Placed(task[t]) /\ TablesOK /\ Linked /\ ReadyIsRendered /\ TasksOK
        /\ task[t].export \in Exports \cup {"none"}
    BY Working
  <1>1. UNCHANGED <<renders, forced>>
    BY DEF Refused, FirstTimeline, ReadSource, ReadJob, PipelineJob, PipelineAsset,
           PipelineVariant, InsertLink, InsertReview, DeleteLinks, DeleteReviews,
           CutShort, history
  <1>2. Later /\ Linked' /\ ReadyIsRendered'
    BY <1>0, <1>1, Quiet
  <1>3. CASE Refused(t) \/ CutShort(t)
    <2>1. Ends(t)
      BY <1>3 DEF Refused, CutShort
    <2>2. TasksOK'
      BY <1>0, <1>2, <2>1, IdleSound, OneMoves DEF Ends
    <2>3. task[t].kind = "publish" => task[t].export \in Exports
      BY <1>0 DEF Placed
    <2>4. TablesOK'
      BY <1>0, <1>3, <2>3 DEF Refused, CutShort, TablesOK, renders, children, history
    <2> QED BY <1>2, <2>2, <2>4 DEF IInv
  <1>4. ASSUME \/ FirstTimeline(t) \/ ReadSource(t) \/ PipelineJob(t) \/ PipelineAsset(t)
               \/ PipelineVariant(t) \/ InsertLink(t) \/ InsertReview(t)
               \/ DeleteLinks(t) \/ DeleteReviews(t),
               TablesOK'
        PROVE  IInv'
    <2>1. task[t].kind # "none" /\ ~(task[t].kind = "render" /\ task[t].at \in {1, 4})
      BY <1>0, <1>4, Statements DEF FirstTimeline, ReadSource, PipelineJob, PipelineAsset,
           PipelineVariant, InsertLink, InsertReview, DeleteLinks, DeleteReviews
    <2>2. Goes(t) \/ Ends(t)
      BY <1>4 DEF FirstTimeline, ReadSource, PipelineJob, PipelineAsset,
           PipelineVariant, InsertLink, InsertReview, DeleteLinks, DeleteReviews
    <2>3. TasksOK'
      BY <1>0, <1>2, <2>1, <2>2, GoesOn
    <2> QED BY <1>2, <1>4, <2>3 DEF IInv
  <1>5. CASE FirstTimeline(t) \/ ReadSource(t)
    <2>1. TablesOK'
      BY <1>0, <1>5 DEF FirstTimeline, ReadSource, TablesOK, renders, children, history
    <2> QED BY <1>4, <1>5, <2>1
  <1>6. CASE PipelineJob(t) \/ PipelineAsset(t) \/ PipelineVariant(t)
    <2> DEFINE e == task[t].export
    <2>1. e \in Exports
      BY <1>0, <1>6, Statements DEF Placed, PipelineJob, PipelineAsset, PipelineVariant
    <2>2. task[t].manifest \in BOOLEAN
      BY <1>0 DEF TaskState
    <2>3. pipeline' \in [Exports -> Pipelines]
      <3>1. pipeline[e] \in Pipelines
        BY <1>0, <2>1 DEF TablesOK
      <3>2. CASE PipelineJob(t)
        BY <1>0, <2>1, <3>1, <3>2 DEF PipelineJob, TablesOK, Pipelines
      <3>3. CASE PipelineAsset(t)
        BY <1>0, <2>1, <3>1, <3>3 DEF PipelineAsset, TablesOK, Pipelines
      <3>4. CASE PipelineVariant(t)
        <4> DEFINE variant == pipeline[e].variant \/ task[t].manifest
        <4>1. variant \in BOOLEAN
          OBVIOUS
        <4>2. pipeline' = [pipeline EXCEPT ![e] = [@ EXCEPT !.variant = variant]]
          BY <1>0, <3>4 DEF PipelineVariant, TablesOK
        <4> HIDE DEF variant, e
        <4> QED BY <1>0, <2>1, <3>1, <4>1, <4>2 DEF TablesOK, Pipelines
      <3> QED BY <1>6, <3>2, <3>3, <3>4
    <2>4. TablesOK'
      BY <1>0, <1>6, <2>3 DEF PipelineJob, PipelineAsset, PipelineVariant, TablesOK,
           renders, children, history
    <2> QED BY <1>4, <1>6, <2>4
  <1>7. CASE InsertLink(t) \/ InsertReview(t) \/ DeleteLinks(t) \/ DeleteReviews(t)
    <2>1. task[t].export \in Exports
      BY <1>0, <1>7, Statements DEF Placed, InsertLink, InsertReview, DeleteLinks, DeleteReviews
    <2>2. TablesOK'
      BY <1>0, <1>7, <2>1 DEF InsertLink, InsertReview, DeleteLinks, DeleteReviews, TablesOK,
           renders, history
    <2> QED BY <1>4, <1>7, <2>2
  <1>8. CASE ReadJob(t)
    <2> DEFINE row == task[t]
    <2>0. row.kind = "publish" /\ row.at = 2 /\ row.export \in Exports
      BY <1>0, <1>8, Statements DEF ReadJob, Placed
    <2>1. TablesOK'
      BY <1>0, <1>8 DEF ReadJob, TablesOK, renders, children, history
    <2>2. CASE Ends(t)
      BY <1>0, <1>2, <2>1, <2>2, IdleSound, OneMoves DEF Ends, IInv
    <2>3. CASE task' = [task EXCEPT ![t] = [Onwards(@) EXCEPT !.manifest = package[row.export]]]
      <3>1. Onwards(row) \in TaskState /\ Further(row, Onwards(row))
        <4>1. row \in TaskState /\ row.kind # "none" /\ Placed(row)
          BY <1>0, <2>0
        <4>2. row.at # Len(Script[row.kind])
          BY <2>0, Lengths
        <4> HIDE DEF row
        <4> QED BY <4>1, <4>2, OnwardsRow
      <3>2. package[row.export] \in BOOLEAN
        BY <1>0, <2>0 DEF TablesOK
      <3>3. ASSUME NEW new, new = [Onwards(row) EXCEPT !.manifest = package[row.export]]
            PROVE  Sound(new, job', package', export', forced')
        <4>1. new \in TaskState /\ new.kind = "publish" /\ new.at = 3 /\ new.export = row.export
          <5> HIDE DEF row
          <5> QED BY <2>0, <3>1, <3>2, <3>3 DEF TaskState, Further
        <4> QED BY <2>0, <4>1, Lengths DEF Sound, Placed, Due, Kept
      <3>4. task' = [task EXCEPT ![t] = [Onwards(row) EXCEPT !.manifest = package[row.export]]]
        BY <1>0, <2>3 DEF TasksOK
      <3>5. TasksOK'
        BY <1>0, <1>2, <3>3, <3>4, OneMoves
      <3> QED BY <1>2, <2>1, <3>5 DEF IInv
    <2> QED BY <1>8, <2>2, <2>3 DEF ReadJob
  <1> QED BY <1>3, <1>5, <1>6, <1>7, <1>8

-----------------------------------------------------------------------------
\* Statements that write a job or an export.

LEMMA InsertsJob ==
  ASSUME IInv, NEW t \in Requests, InsertJob(t)
  PROVE  IInv'
  <1>0. /\ task[t] \in TaskState /\ task[t].kind \in Kinds /\ task[t].at \in 1 .. 14
        /\ Placed(task[t]) /\ TablesOK /\ Linked /\ ReadyIsRendered /\ TasksOK
    BY Working
  <1>1. task[t].kind = "render" /\ task[t].at = 1
    BY <1>0, Statements DEF InsertJob
  <1>2. PICK e \in Exports :
          /\ job[e] = "none"
          /\ job' = [job EXCEPT ![e] = "open"]
          /\ task' = [task EXCEPT ![t] = [Onwards(@) EXCEPT !.export = e]]
    BY DEF InsertJob
  <1>3. UNCHANGED <<project, rows, package, export, link, review, versioned, pipeline,
                    forced, unsure>>
    BY DEF InsertJob, children, history
  <1>4. \A x \in Exports : job'[x] = IF x = e THEN "open" ELSE job[x]
    BY <1>0, <1>2 DEF TablesOK
  <1>5. TablesOK'
    BY <1>0, <1>2, <1>3 DEF TablesOK, Jobs
  <1>6. Later
    BY <1>0, <1>2, <1>3, <1>4 DEF Later, Done, Linked, Gone
  <1>7. Linked' /\ ReadyIsRendered'
    BY <1>0, <1>2, <1>3, <1>4 DEF Linked, ReadyIsRendered, Gone
  <1>8. TasksOK'
    <2> DEFINE row == task[t]
    <2>1. row \in TaskState /\ row.kind # "none" /\ Placed(row)
      BY <1>0, <1>1
    <2>2. row.at # Len(Script[row.kind])
      BY <1>1, Lengths
    <2>3. Onwards(row) \in TaskState /\ Further(row, Onwards(row))
      <3> HIDE DEF row
      <3> QED BY <2>1, <2>2, OnwardsRow
    <2>4. Onwards(row).kind = "render" /\ Onwards(row).at = 2
      BY <1>1, <2>3 DEF Further
    <2>5. ASSUME NEW new, new = [Onwards(row) EXCEPT !.export = e]
          PROVE  Sound(new, job', package', export', forced')
      <3>1. new \in TaskState /\ new.kind = "render" /\ new.at = 2 /\ new.export = e
        <4> HIDE DEF row
        <4> QED BY <2>3, <2>4, <2>5 DEF TaskState
      <3>2. job'[e] # "none"
        BY <1>4
      <3> QED BY <3>1, <3>2, Lengths DEF Sound, Placed, Due, Kept
    <2>6. task' = [task EXCEPT ![t] = [Onwards(row) EXCEPT !.export = e]]
      BY <1>0, <1>2 DEF TasksOK
    <2> QED BY <1>0, <1>6, <2>5, <2>6, OneMoves
  <1> QED BY <1>5, <1>7, <1>8 DEF IInv

LEMMA InsertsExport ==
  ASSUME IInv, Fresh, NEW t \in Requests, InsertExport(t)
  PROVE  IInv'
  <1>0. /\ task[t] \in TaskState /\ task[t].kind \in Kinds /\ task[t].at \in 1 .. 14
        /\ Placed(task[t]) /\ TablesOK /\ Linked /\ ReadyIsRendered /\ TasksOK
    BY Working
  <1> DEFINE e == task[t].export
  <1>1. task[t].kind = "render" /\ task[t].at = 2 /\ e \in Exports
    BY <1>0, Statements DEF InsertExport, Placed
  <1>2. export[e] = "none"
    BY <1>1 DEF Fresh, Opening
  <1>3. job[e] \notin Gone
    BY DEF InsertExport, Breaks
  <1>4. /\ export' = [export EXCEPT ![e] = "open"]
        /\ versioned' = IF task[t].version THEN versioned \cup {e} ELSE versioned
        /\ UNCHANGED <<project, rows, job, package, link, review, pipeline, forced, unsure>>
        /\ Goes(t)
    BY DEF InsertExport, history
  <1> HIDE DEF e
  <1>5. \A x \in Exports : export'[x] = IF x = e THEN "open" ELSE export[x]
    BY <1>0, <1>1, <1>4 DEF TablesOK
  <1>6. TablesOK'
    BY <1>0, <1>1, <1>4 DEF TablesOK, Outcomes
  <1>7. Later
    BY <1>0, <1>2, <1>3, <1>4, <1>5 DEF Later, Done, Linked, Gone
  <1>8. Linked' /\ ReadyIsRendered'
    BY <1>0, <1>2, <1>3, <1>4, <1>5 DEF Linked, ReadyIsRendered, Gone
  <1>9. TasksOK'
    BY <1>0, <1>1, <1>4, <1>7, GoesOn
  <1> QED BY <1>6, <1>8, <1>9 DEF IInv

LEMMA Completes ==
  ASSUME IInv, NEW t \in Requests, Complete(t)
  PROVE  IInv'
  <1>0. /\ task[t] \in TaskState /\ task[t].kind \in Kinds /\ task[t].at \in 1 .. 14
        /\ Placed(task[t]) /\ TablesOK /\ Linked /\ ReadyIsRendered /\ TasksOK
    BY Working
  <1> DEFINE e == task[t].export
             there == job[e] \notin Gone
  <1>1. task[t].kind = "render" /\ task[t].at = 4 /\ e \in Exports
    BY <1>0, Statements DEF Complete, Placed
  <1>2. /\ job' = [job EXCEPT ![e] = IF there THEN "completed" ELSE @]
        /\ package' = [package EXCEPT ![e] = @ \/ there]
        /\ UNCHANGED <<project, rows, export, link, review, versioned, pipeline,
                       forced, unsure>>
        /\ Goes(t)
    BY DEF Complete, children, history
  <1>3. \A x \in Exports : job'[x] = IF x = e /\ there THEN "completed" ELSE job[x]
    BY <1>0, <1>1, <1>2 DEF TablesOK
  <1>4. \A x \in Exports : package'[x] = IF x = e THEN package[x] \/ there ELSE package[x]
    BY <1>0, <1>1, <1>2 DEF TablesOK
  <1>5. TablesOK'
    <2>1. job' \in [Exports -> Jobs]
      BY <1>0, <1>1, <1>2 DEF TablesOK, Jobs
    <2>2. package' \in [Exports -> BOOLEAN]
      <3>1. package' = [x \in Exports |-> package'[x]]
        BY <1>0, <1>2 DEF TablesOK
      <3>2. \A x \in Exports : package'[x] \in BOOLEAN
        BY <1>0, <1>4 DEF TablesOK
      <3> QED BY <3>1, <3>2
    <2> QED BY <1>0, <1>2, <2>1, <2>2 DEF TablesOK
  <1> HIDE DEF e
  <1>6. \A x \in Exports : Done(x, job, package) => Done(x, job', package')
    BY <1>0, <1>3, <1>4 DEF Done
  <1>7. Done(e, job', package') \/ job'[e] = "gone"
    <2>1. job[e] # "none"
      BY <1>1, Working DEF Due, e
    <2> QED BY <1>1, <1>3, <1>4, <2>1 DEF Done, Gone
  <1>8. Later /\ Linked'
    <2>1. \A x \in Exports : /\ job[x] = "gone" <=> job'[x] = "gone"
                             /\ job[x] = "none" <=> job'[x] = "none"
      BY <1>0, <1>3 DEF Gone
    <2> HIDE DEF there
    <2>2. export' = export /\ forced' = forced
      BY <1>2
    <2> QED BY <1>0, <1>6, <2>1, <2>2 DEF Later, Linked, Gone
  <1>9. ReadyIsRendered'
    BY <1>0, <1>2, <1>6 DEF ReadyIsRendered, Done
  <1>10. TasksOK'
    <2> DEFINE row == task[t]
    <2>1. row \in TaskState /\ row.kind # "none" /\ Placed(row)
      BY <1>0, <1>1
    <2>2. row.at # Len(Script[row.kind])
      BY <1>1, Lengths
    <2>3. Onwards(row) \in TaskState /\ Further(row, Onwards(row))
      <3> HIDE DEF row
      <3> QED BY <2>1, <2>2, OnwardsRow
    <2>4. Onwards(row).kind = "render" /\ Onwards(row).at = 5 /\ Onwards(row).export = e
      BY <1>1, <2>3 DEF Further, e
    <2>5. Sound(Onwards(row), job', package', export', forced')
      <3> HIDE DEF row
      <3>1. job'[e] # "none"
        BY <1>7 DEF Done
      <3> QED BY <1>1, <1>7, <2>3, <2>4, <3>1, Lengths DEF Sound, Placed, Due, Kept
    <2>6. task' = [task EXCEPT ![t] = Onwards(row)]
      BY <1>0, <1>2 DEF Goes
    <2> QED BY <1>0, <1>8, <2>5, <2>6, OneMoves
  <1> QED BY <1>5, <1>8, <1>9, <1>10 DEF IInv

LEMMA Updates ==
  ASSUME IInv, NEW t \in Requests, Ready(t) \/ WriteExport(t) \/ WritePublished(t)
  PROVE  IInv'
  <1>0. /\ task[t] \in TaskState /\ task[t].kind \in Kinds /\ task[t].at \in 1 .. 14
        /\ Placed(task[t]) /\ TablesOK /\ Linked /\ ReadyIsRendered /\ TasksOK
        /\ Due(task[t], job, package) /\ Kept(task[t], job, package, export, forced)
    BY Working
  <1> DEFINE e == task[t].export
  <1>1. /\ e \in Exports /\ task[t].kind # "none"
        /\ ~(task[t].kind = "render" /\ task[t].at \in {1, 4})
    BY <1>0, Statements DEF Ready, WriteExport, WritePublished, Placed
  <1>2. /\ UNCHANGED <<project, rows, job, package, link, review, versioned, pipeline>>
        /\ Goes(t)
    BY DEF Ready, WriteExport, WritePublished, children, history
  <1>3. ASSUME NEW status \in Outcomes \ Gone, Update(t, e, status),
               forced' = forced \/ forced' = forced \cup {e},
               unsure' \subseteq unsure \cup {e},
               status \in {"ready", "published"} /\ e \notin forced' =>
                 \/ Done(e, job, package) \/ export[e] \in Gone
        PROVE  IInv'
    <2> HIDE DEF e
    <2>1. \A x \in Exports : /\ export[x] \in Gone => export'[x] = export[x]
                             /\ export[x] \notin Gone =>
                                  export'[x] = IF x = e THEN status ELSE export[x]
      BY <1>0, <1>1, <1>3 DEF TablesOK, Update
    <2>2. TablesOK'
      BY <1>0, <1>1, <1>2, <1>3 DEF TablesOK, Update
    <2>3. \A x \in Exports : /\ export'[x] \in Gone <=> export[x] \in Gone
                             /\ export'[x] = "gone" <=> export[x] = "gone"
                             /\ export'[x] = "none" <=> export[x] = "none"
      BY <1>3, <2>1 DEF Gone
    <2>4. Later /\ Linked'
      <3>1. forced \subseteq forced' /\ job' = job /\ package' = package
        BY <1>2, <1>3
      <3> QED BY <1>0, <2>3, <3>1 DEF Later, Linked, Gone, Done
    <2>5. ReadyIsRendered'
      BY <1>0, <1>2, <1>3, <2>1 DEF ReadyIsRendered, Done, Gone
    <2>6. TasksOK'
      BY <1>0, <1>1, <1>2, <2>4, GoesOn
    <2> QED BY <2>2, <2>4, <2>5, <2>6 DEF IInv
  <1>4. CASE Ready(t)
    <2>1. task[t].kind = "render" /\ task[t].at = 5
      BY <1>0, <1>4, Statements DEF Ready
    <2>2. Done(e, job, package) \/ export[e] \in Gone
      BY <1>0, <1>1, <2>1 DEF Due, Linked, Gone
    <2>3. UNCHANGED <<forced, unsure>> /\ Update(t, e, "ready")
      BY <1>4 DEF Ready, history
    <2> QED BY <1>3, <2>2, <2>3 DEF Outcomes, Gone
  <1>5. CASE WriteExport(t)
    <2>1. task[t].kind = "patch" /\ task[t].status \in Outcomes
      BY <1>0, <1>5, Statements DEF WriteExport, TaskState
    <2>2. /\ Update(t, e, task[t].status) /\ unsure' = unsure
          /\ forced' = IF task[t].given /\ export[e] \notin Gone
                       THEN forced \cup {e} ELSE forced
      BY <1>5 DEF WriteExport
    <2>3. task[t].given \in BOOLEAN
      BY <1>0 DEF TaskState
    <2>4. task[t].status \in {"ready", "published"} /\ e \notin forced' =>
            Done(e, job, package) \/ export[e] \in Gone
      BY <1>0, <2>1, <2>2, <2>3 DEF Kept, Gone
    <2>5. task[t].status \notin Gone
      BY <1>0, <2>1 DEF Placed
    <2> QED BY <1>3, <2>1, <2>2, <2>4, <2>5
  <1>6. CASE WritePublished(t)
    <2>1. CASE export[e] = "ready"
      <3>1. /\ export' = [export EXCEPT ![e] = "published"] /\ forced' = forced
            /\ unsure' \subseteq unsure \cup {e}
        BY <1>6, <2>1 DEF WritePublished
      <3>2. Update(t, e, "published")
        BY <1>0, <1>1, <2>1, <3>1 DEF Update, Gone, TablesOK
      <3>3. e \notin forced => Done(e, job, package)
        BY <1>0, <1>1, <2>1 DEF ReadyIsRendered, Done
      <3> QED BY <1>3, <3>1, <3>2, <3>3 DEF Outcomes, Gone
    <2>2. CASE export[e] # "ready"
      <3>1. UNCHANGED <<export, unsure, forced>>
        BY <1>6, <2>2 DEF WritePublished
      <3>2. UNCHANGED <<renders, forced>>
        BY <1>2, <3>1 DEF renders
      <3>3. Later /\ Linked' /\ ReadyIsRendered'
        BY <1>0, <3>2, Quiet
      <3>4. TablesOK'
        BY <1>0, <1>2, <3>1 DEF TablesOK
      <3>5. TasksOK'
        BY <1>0, <1>1, <1>2, <3>3, GoesOn
      <3> QED BY <3>3, <3>4, <3>5 DEF IInv
    <2> QED BY <2>1, <2>2
  <1> QED BY <1>4, <1>5, <1>6

LEMMA Deletes ==
  ASSUME IInv, Fresh, NEW t \in Requests, DeleteExport(t) \/ DeleteJob(t)
  PROVE  IInv'
  <1>0. /\ task[t] \in TaskState /\ task[t].kind \in Kinds /\ task[t].at \in 1 .. 14
        /\ Placed(task[t]) /\ TablesOK /\ Linked /\ ReadyIsRendered /\ TasksOK
    BY Working
  <1> DEFINE e == task[t].export
  <1>1. /\ e \in Exports /\ task[t].kind # "none"
        /\ ~(task[t].kind = "render" /\ task[t].at \in {1, 4})
    BY <1>0, Statements DEF DeleteExport, DeleteJob, Placed
  <1>2. /\ UNCHANGED <<project, rows, package, link, review, versioned, pipeline,
                       forced, unsure>>
        /\ Goes(t)
    BY DEF DeleteExport, DeleteJob, children, history
  <1>3. CASE DeleteExport(t)
    <2>1. export[e] # "none"
      BY <1>0, <1>3, Statements DEF DeleteExport, Fresh, Deleting
    <2>2. job' = job /\ export' = [export EXCEPT ![e] = "gone"]
      BY <1>3 DEF DeleteExport
    <2> HIDE DEF e
    <2>3. \A x \in Exports : export'[x] = IF x = e THEN "gone" ELSE export[x]
      BY <1>0, <1>1, <2>2 DEF TablesOK
    <2>4. TablesOK'
      BY <1>0, <1>1, <1>2, <2>2 DEF TablesOK, Outcomes, Gone
    <2>5. Later /\ Linked'
      BY <1>0, <1>2, <2>1, <2>2, <2>3 DEF Later, Linked, Gone, Done
    <2>6. ReadyIsRendered'
      BY <1>0, <1>2, <2>2, <2>3 DEF ReadyIsRendered
    <2>7. TasksOK'
      BY <1>0, <1>1, <1>2, <2>5, GoesOn
    <2> QED BY <2>4, <2>5, <2>6, <2>7 DEF IInv
  <1>4. CASE DeleteJob(t)
    <2>1. export[e] \in Gone
      BY <1>4 DEF DeleteJob, Breaks
    <2>2. export' = export /\ job' = [job EXCEPT ![e] = "gone"]
      BY <1>4 DEF DeleteJob
    <2> HIDE DEF e
    <2>3. \A x \in Exports : job'[x] = IF x = e THEN "gone" ELSE job[x]
      BY <1>0, <1>1, <2>2 DEF TablesOK
    <2>4. TablesOK'
      BY <1>0, <1>1, <1>2, <2>2 DEF TablesOK, Jobs, Gone
    <2>5. Later /\ Linked'
      BY <1>0, <1>2, <2>1, <2>2, <2>3 DEF Later, Linked, Gone, Done
    <2>6. ReadyIsRendered'
      BY <1>0, <1>2, <2>1, <2>2, <2>3 DEF ReadyIsRendered, Gone
    <2>7. TasksOK'
      BY <1>0, <1>1, <1>2, <2>5, GoesOn
    <2> QED BY <2>4, <2>5, <2>6, <2>7 DEF IInv
  <1> QED BY <1>3, <1>4

LEMMA Empties ==
  ASSUME IInv, NEW t \in Requests, Empty(t)
  PROVE  IInv'
  <1>0. /\ task[t] \in TaskState /\ task[t].kind \in Kinds /\ task[t].at \in 1 .. 14
        /\ Placed(task[t]) /\ TablesOK /\ Linked /\ ReadyIsRendered /\ TasksOK
    BY Working
  <1> DEFINE table == RemoveScript[task[t].at]
  <1>1. /\ task[t].kind = "remove" /\ MayEmpty(table) /\ Goes(t)
        /\ UNCHANGED <<package, versioned, pipeline, forced, unsure>>
    BY DEF Empty, Breaks, history
  <1>2. /\ rows' \subseteq rows /\ link' \subseteq link /\ review' \subseteq review
        /\ project' \in {project, "gone"}
        /\ job' = IF table = "jobs" THEN Cleared(job) ELSE job
        /\ export' = IF table = "exports" THEN Cleared(export) ELSE export
    BY DEF Empty
  <1>3. table = "jobs" => \A e \in Exports : export[e] \in Gone
    <2> SUFFICES ASSUME table = "jobs" PROVE ~Has("exports")
      BY DEF Has
    <2>1. "exports" \in Tables /\ "jobs" \in References["exports"]
      BY DEF Tables, References
    <2> HIDE DEF table
    <2> QED BY <1>1, <2>1 DEF MayEmpty
  <1> HIDE DEF table
  <1>4. \A e \in Exports :
          /\ job'[e] = job[e] \/ (job'[e] = "gone" /\ job[e] # "none" /\ table = "jobs")
          /\ \/ export'[e] = export[e]
             \/ export'[e] = "gone" /\ export[e] # "none" /\ table = "exports"
    BY <1>2 DEF Cleared, Gone
  <1>5. TablesOK'
    <2>1. job' \in [Exports -> Jobs] /\ export' \in [Exports -> Outcomes]
      BY <1>0, <1>2 DEF TablesOK, Cleared, Jobs, Outcomes, Gone
    <2> QED BY <1>0, <1>1, <1>2, <2>1 DEF TablesOK, Projects, Gone
  <1>6. Later /\ Linked'
    <2>1. \A e \in Exports : /\ export'[e] \in Gone => TRUE
                             /\ export[e] \in Gone => export'[e] = export[e]
      BY <1>4 DEF Gone
    <2>2. \A e \in Exports : job'[e] = "gone" => export'[e] \in Gone
      BY <1>0, <1>3, <1>4, <2>1 DEF Linked, Gone
    <2>3. \A e \in Exports : Done(e, job, package) =>
                               Done(e, job', package') \/ job'[e] = "gone"
      BY <1>1, <1>4 DEF Done
    <2>4. forced \subseteq forced'
      BY <1>1
    <2> QED BY <1>0, <1>4, <2>2, <2>3, <2>4 DEF Later, Linked, Gone
  <1>7. ReadyIsRendered'
    BY <1>0, <1>1, <1>3, <1>4, <1>6 DEF ReadyIsRendered, Gone
  <1>8. TasksOK'
    BY <1>0, <1>1, <1>6, GoesOn
  <1> QED BY <1>5, <1>6, <1>7, <1>8 DEF IInv

LEMMA Edits ==
  ASSUME IInv, 
         \/ \E table \in Filled : AddRow(table) \/ DropRow(table)
         \/ AskReview \/ DropReview
         \/ \E e \in Exports : AddLink(e) \/ DropLink(e) \/ Cancel(e)
  PROVE  IInv'
  <1>0. TablesOK /\ Linked /\ ReadyIsRendered /\ TasksOK
    BY DEF IInv
  <1>1. ASSUME NEW e \in Exports, Cancel(e)
        PROVE  IInv'
    <2>1. /\ job[e] = "open" /\ job' = [job EXCEPT ![e] = "cancelled"] /\ Edit
          /\ UNCHANGED <<project, rows, package, export, link, review, versioned, pipeline,
                         forced, unsure>>
      BY <1>1 DEF Cancel, children, history
    <2>2. \A x \in Exports : job'[x] = IF x = e THEN "cancelled" ELSE job[x]
      BY <1>0, <2>1 DEF TablesOK
    <2>3. TablesOK'
      BY <1>0, <2>1 DEF TablesOK, Jobs
    <2>4. Later /\ Linked'
      BY <1>0, <2>1, <2>2 DEF Later, Linked, Gone, Done
    <2>5. ReadyIsRendered'
      BY <1>0, <2>1, <2>2 DEF ReadyIsRendered
    <2>6. TasksOK'
      BY <1>0, <2>1, <2>4, Edited
    <2> QED BY <2>3, <2>4, <2>5, <2>6 DEF IInv
  <1>2. CASE \/ \E table \in Filled : AddRow(table) \/ DropRow(table)
             \/ AskReview \/ DropReview
             \/ \E e \in Exports : AddLink(e) \/ DropLink(e)
    <2>1. UNCHANGED <<renders, forced>> /\ Edit
      BY <1>2 DEF AddRow, DropRow, AskReview, DropReview, AddLink, DropLink, history
    <2>2. Later /\ Linked' /\ ReadyIsRendered'
      BY <1>0, <2>1, Quiet
    <2>3. TasksOK'
      BY <1>0, <2>1, <2>2, Edited
    <2>4. TablesOK'
      BY <1>0, <1>2, EditorAssumption DEF AddRow, DropRow, AskReview, DropReview, AddLink,
         DropLink, TablesOK, renders, children, history
    <2> QED BY <2>2, <2>3, <2>4 DEF IInv
  <1> QED BY <1>1, <1>2

-----------------------------------------------------------------------------
(* Fresh is kept.                                                          *)

\* The exports that never were are the same, but for nothing or for one.
Nones == /\ \A e \in Exports : export[e] = "none" => export'[e] = "none"
         /\ \A e \in Exports : export[e] # "none" => export'[e] # "none"

LEMMA StaysFresh ==
  ASSUME IInv, Fresh, Nones,
         \A u \in Requests : Opening(task'[u]) =>
           Opening(task[u]) /\ task'[u].export = task[u].export,
         \A u \in Requests : Deleting(task'[u]) =>
           \/ Deleting(task[u]) /\ task'[u].export = task[u].export
           \/ export'[task'[u].export] # "none"
  PROVE  Fresh'
  <1>1. ASSUME NEW u \in Requests, Opening(task[u]) \/ Deleting(task[u])
        PROVE  task[u].export \in Exports
    BY <1>1, Working DEF Placed, Opening, Deleting
  <1>2. \A u \in Requests : Opening(task'[u]) => export'[task'[u].export] = "none"
    BY <1>1 DEF Fresh, Nones
  <1>3. \A u \in Requests : Deleting(task'[u]) => export'[task'[u].export] # "none"
    BY <1>1 DEF Fresh, Nones
  <1>4. \A u, v \in Requests : Opening(task'[u]) /\ Opening(task'[v]) /\ u # v =>
                                 task'[u].export # task'[v].export
    BY DEF Fresh
  <1> QED BY <1>2, <1>3, <1>4 DEF Fresh

LEMMA GoesFresh ==
  ASSUME IInv, NEW t \in Requests, task[t].kind # "none",
         Ends(t) \/ (Goes(t) /\ ~(task[t].kind = "render" /\ task[t].at = 1))
  PROVE  /\ \A u \in Requests : Opening(task'[u]) =>
              Opening(task[u]) /\ task'[u].export = task[u].export /\ u # t
         /\ \A u \in Requests : Deleting(task'[u]) =>
              Deleting(task[u]) /\ task'[u].export = task[u].export
  <1> DEFINE row == task[t]
  <1>1. row \in TaskState /\ row.kind # "none" /\ Placed(row)
    BY Working
  <1>2. \A u \in Requests : u # t => task'[u] = task[u]
    BY DEF Goes, Ends, IInv, TasksOK
  <1>3. task'[t] \in {Onwards(row), Idle}
    BY DEF Goes, Ends, IInv, TasksOK
  <1>4. ~Opening(Idle) /\ ~Deleting(Idle)
    BY IdleType DEF Opening, Deleting
  <1>5. \/ Onwards(row) = Idle
        \/ Onwards(row) \in TaskState /\ Further(row, Onwards(row))
    <2> HIDE DEF row
    <2> QED BY <1>1, OnwardsRow
  <1>6. /\ ~Opening(task'[t])
        /\ Deleting(task'[t]) => Deleting(row) /\ task'[t].export = row.export
    <2>1. CASE task'[t] = Idle
      BY <1>4, <2>1
    <2>2. CASE Goes(t) /\ task'[t] = Onwards(row) /\ Further(row, Onwards(row))
      <3>1. ~(row.kind = "render" /\ row.at = 1) \/ task'[t] = Idle
        BY <2>2 DEF Ends, IInv, TasksOK
      <3> QED BY <1>1, <1>4, <2>2, <3>1 DEF Further, Opening, Deleting, TaskState
    <2>3. Ends(t) => task'[t] = Idle
      BY DEF Ends, IInv, TasksOK
    <2> QED BY <1>3, <1>5, <2>1, <2>2, <2>3
  <1> QED BY <1>2, <1>6

LEMMA WritesFresh ==
  ASSUME IInv, Fresh, NEW t \in Requests, Write(t) \/ Delete(t) \/ CutShort(t)
  PROVE  Fresh'
  <1>0. /\ task[t] \in TaskState /\ task[t].kind \in Kinds /\ task[t].at \in 1 .. 14
        /\ Placed(task[t]) /\ TablesOK /\ Linked /\ ReadyIsRendered /\ TasksOK
    BY Working
  <1>1. CASE InsertJob(t)
    <2>1. PICK e \in Exports :
            /\ job[e] = "none"
            /\ task' = [task EXCEPT ![t] = [Onwards(@) EXCEPT !.export = e]]
      BY <1>1 DEF InsertJob
    <2>2. export[e] = "none" /\ UNCHANGED export
      BY <1>0, <1>1, <2>1 DEF InsertJob, Linked
    <2>3. task[t].kind = "render" /\ task[t].at = 1
      BY <1>0, <1>1, Statements DEF InsertJob
    <2> DEFINE row == task[t]
    <2>4. Onwards(row) \in TaskState /\ Further(row, Onwards(row))
      <3>1. row \in TaskState /\ row.kind # "none" /\ Placed(row)
        BY <1>0, <2>3
      <3>2. row.at # Len(Script[row.kind])
        BY <2>3, Lengths
      <3> HIDE DEF row
      <3> QED BY <3>1, <3>2, OnwardsRow
    <2>5. task'[t].kind = "render" /\ task'[t].at = 2 /\ task'[t].export = e
      <3>1. ASSUME NEW new, new = [Onwards(row) EXCEPT !.export = e]
            PROVE  new.kind = row.kind /\ new.at = row.at + 1 /\ new.export = e
        <4> HIDE DEF row
        <4> QED BY <2>4, <3>1 DEF TaskState, Further
      <3>2. task'[t] = [Onwards(row) EXCEPT !.export = e]
        BY <1>0, <2>1 DEF TasksOK
      <3>3. row.kind = "render" /\ row.at = 1
        BY <2>3
      <3>4. /\ task'[t].kind = row.kind /\ task'[t].at = row.at + 1 /\ task'[t].export = e
        BY <3>1, <3>2
      <3> HIDE DEF row
      <3> QED BY <3>3, <3>4
    <2>6. \A u \in Requests : u # t => task'[u] = task[u]
      BY <1>0, <2>1 DEF TasksOK
    <2>7. \A u \in Requests : Opening(task[u]) => task[u].export # e
      <3> SUFFICES ASSUME NEW u \in Requests, Opening(task[u])
                   PROVE  job[task[u].export] # "none"
        BY <2>1
      <3> QED BY Working DEF Opening, Due
    <2> QED BY <2>2, <2>5, <2>6, <2>7 DEF Fresh, Opening, Deleting
  <1>2. CASE ReadJob(t)
    <2>1. task[t].kind = "publish" /\ task[t].at = 2 /\ UNCHANGED export
      BY <1>0, <1>2, Statements DEF ReadJob, renders
    <2> DEFINE row == task[t]
    <2>2. Onwards(row).kind = "publish"
      <3>1. row \in TaskState /\ row.kind # "none" /\ Placed(row)
        BY <1>0, <2>1
      <3>2. row.at # Len(Script[row.kind])
        BY <2>1, Lengths
      <3>3. Further(row, Onwards(row))
        <4> HIDE DEF row
        <4> QED BY <3>1, <3>2, OnwardsRow
      <3> QED BY <2>1, <3>3 DEF Further
    <2>3. task'[t].kind \in {"none", "publish"}
      <3>1. CASE Ends(t)
        BY <1>0, <3>1, IdleType DEF Ends, TasksOK
      <3>2. CASE task' = [task EXCEPT ![t] = [Onwards(@) EXCEPT
                                               !.manifest = package[task[t].export]]]
        <4>1. task'[t] = [Onwards(row) EXCEPT !.manifest = package[task[t].export]]
          BY <1>0, <3>2 DEF TasksOK
        <4>2. ASSUME NEW new, new = [Onwards(row) EXCEPT !.manifest = package[task[t].export]]
              PROVE  new.kind = Onwards(row).kind
          BY <4>2
        <4> QED BY <2>2, <4>1, <4>2
      <3> QED BY <1>2, <3>1, <3>2 DEF ReadJob
    <2>4. \A u \in Requests : u # t => task'[u] = task[u]
      BY <1>0, <1>2 DEF TasksOK, ReadJob, Ends
    <2> QED BY <2>1, <2>3, <2>4 DEF Fresh, Opening, Deleting
  <1>3. ASSUME task[t].kind # "none", Nones,
               Ends(t) \/ (Goes(t) /\ ~(task[t].kind = "render" /\ task[t].at = 1))
        PROVE  Fresh'
    <2>1. /\ \A u \in Requests : Opening(task'[u]) =>
               Opening(task[u]) /\ task'[u].export = task[u].export /\ u # t
          /\ \A u \in Requests : Deleting(task'[u]) =>
               Deleting(task[u]) /\ task'[u].export = task[u].export
      BY <1>3, GoesFresh
    <2> QED BY <1>3, <2>1, StaysFresh
  <1>4. UNCHANGED export => Nones
    BY DEF Nones
  <1>5. CASE Refused(t) \/ CutShort(t)
    <2>1. UNCHANGED export /\ Ends(t)
      BY <1>5 DEF Refused, CutShort, renders
    <2>2. task[t].kind # "none"
      BY <1>0, <1>5, Statements DEF Refused, CutShort, Breaks
    <2> QED BY <1>3, <1>4, <2>1, <2>2
  <1>6. CASE FirstTimeline(t) \/ ReadSource(t) \/ Complete(t)
    <2>1. UNCHANGED export /\ (Goes(t) \/ Ends(t))
      BY <1>6 DEF FirstTimeline, ReadSource, Complete, renders
    <2>2. task[t].kind # "none" /\ ~(task[t].kind = "render" /\ task[t].at = 1)
      BY <1>0, <1>6, Statements DEF FirstTimeline, ReadSource, Complete
    <2> QED BY <1>3, <1>4, <2>1, <2>2
  <1>7. CASE PipelineJob(t) \/ PipelineAsset(t) \/ PipelineVariant(t)
    <2>1. UNCHANGED export /\ Goes(t)
      BY <1>7 DEF PipelineJob, PipelineAsset, PipelineVariant, renders
    <2>2. task[t].kind # "none" /\ ~(task[t].kind = "render" /\ task[t].at = 1)
      BY <1>0, <1>7, Statements DEF PipelineJob, PipelineAsset, PipelineVariant
    <2> QED BY <1>3, <1>4, <2>1, <2>2
  <1>8. CASE InsertLink(t) \/ InsertReview(t) \/ DeleteLinks(t) \/ DeleteReviews(t)
             \/ DeleteJob(t)
    <2>1. UNCHANGED export /\ (Goes(t) \/ Ends(t))
      BY <1>8 DEF InsertLink, InsertReview, DeleteLinks, DeleteReviews, DeleteJob, renders
    <2>2. task[t].kind # "none" /\ ~(task[t].kind = "render" /\ task[t].at = 1)
      BY <1>0, <1>8, Statements DEF InsertLink, InsertReview, DeleteLinks, DeleteReviews,
         DeleteJob
    <2> QED BY <1>3, <1>4, <2>1, <2>2
  <1>9. CASE Ready(t) \/ WriteExport(t) \/ WritePublished(t)
    <2>1. \A e \in Exports : export[e] = "none" <=> export'[e] = "none"
      <3>1. ASSUME NEW status \in Outcomes \ Gone, NEW e, Update(t, e, status)
            PROVE  \A x \in Exports : export[x] = "none" <=> export'[x] = "none"
        BY <1>0, <3>1 DEF Update, TablesOK, Gone
      <3>2. CASE Ready(t)
        BY <3>1, <3>2 DEF Ready, Outcomes, Gone
      <3>3. CASE WriteExport(t)
        <4>1. task[t].status \in Outcomes \ Gone
          BY <1>0, <3>3, Statements DEF WriteExport, Placed, TaskState
        <4> QED BY <3>1, <3>3, <4>1 DEF WriteExport
      <3>4. CASE WritePublished(t)
        BY <1>0, <3>4 DEF WritePublished, TablesOK
      <3> QED BY <1>9, <3>2, <3>3, <3>4
    <2>2. Goes(t)
      BY <1>9 DEF Ready, WriteExport, WritePublished
    <2>3. task[t].kind # "none" /\ ~(task[t].kind = "render" /\ task[t].at = 1)
      BY <1>0, <1>9, Statements DEF Ready, WriteExport, WritePublished
    <2> QED BY <1>3, <2>1, <2>2, <2>3 DEF Nones
  <1>10. CASE DeleteExport(t)
    <2> DEFINE e == task[t].export
    <2>1. task[t].kind \in {"remove_export", "remove_job"} /\ task[t].at = 3
      BY <1>0, <1>10, Statements DEF DeleteExport
    <2>2. export[e] # "none"
      BY <2>1 DEF Fresh, Deleting
    <2>3. export' = [export EXCEPT ![e] = "gone"] /\ Goes(t)
      BY <1>10 DEF DeleteExport
    <2>4. Nones
      BY <1>0, <2>2, <2>3 DEF Nones, TablesOK
    <2> QED BY <1>3, <2>1, <2>3, <2>4
  <1>11. CASE Empty(t)
    <2>1. task[t].kind = "remove" /\ Goes(t) /\ export' \in {export, Cleared(export)}
      BY <1>11 DEF Empty
    <2>2. Nones
      BY <1>0, <2>1 DEF Nones, Cleared, Gone
    <2> QED BY <1>3, <2>1, <2>2
  <1>12. CASE InsertExport(t)
    <2>1. Opening(task[t]) /\ Goes(t)
      BY <1>0, <1>12, Statements DEF InsertExport, Opening
    <2>2. export' = [export EXCEPT ![task[t].export] = "open"]
      BY <1>12 DEF InsertExport
    <2>3. \A e \in Exports : export'[e] = IF e = task[t].export THEN "open" ELSE export[e]
      BY <1>0, <2>2 DEF TablesOK
    <2>4. /\ \A u \in Requests : Opening(task'[u]) =>
               Opening(task[u]) /\ task'[u].export = task[u].export /\ u # t
          /\ \A u \in Requests : Deleting(task'[u]) =>
               Deleting(task[u]) /\ task'[u].export = task[u].export
      BY <2>1, GoesFresh DEF Opening
    <2>5. \A u \in Requests : Opening(task[u]) \/ Deleting(task[u]) =>
                               task[u].export \in Exports
      BY Working DEF Placed, Opening, Deleting
    <2>6. \A u \in Requests : Opening(task'[u]) => export'[task'[u].export] = "none"
      BY <2>1, <2>3, <2>4, <2>5 DEF Fresh
    <2>7. \A u \in Requests : Deleting(task'[u]) => export'[task'[u].export] # "none"
      BY <2>3, <2>4, <2>5 DEF Fresh
    <2>8. \A u, v \in Requests : Opening(task'[u]) /\ Opening(task'[v]) /\ u # v =>
                                   task'[u].export # task'[v].export
      BY <2>4 DEF Fresh
    <2> QED BY <2>6, <2>7, <2>8 DEF Fresh
  <1> QED BY <1>1, <1>2, <1>5, <1>6, <1>7, <1>8, <1>9, <1>10, <1>11, <1>12
          DEF Write, Delete

LEMMA AloneSame ==
  ASSUME NEW row, row \in TaskState, NEW flag \in BOOLEAN
  PROVE  LET new == [row EXCEPT !.alone = flag]
         IN new.kind = row.kind /\ new.at = row.at /\ new.export = row.export
  BY DEF TaskState

LEMMA BesideSame ==
  ASSUME IInv, NEW u \in Requests
  PROVE  /\ Beside(task)[u].kind = task[u].kind /\ Beside(task)[u].at = task[u].at
         /\ Beside(task)[u].export = task[u].export
  <1> DEFINE row == task[u]
  <1>1. row \in TaskState /\ FALSE \in BOOLEAN
    BY Working
  <1>2. Beside(task)[u] = [row EXCEPT !.alone = FALSE]
    BY DEF Beside
  <1> HIDE DEF row
  <1>3. /\ Beside(task)[u].kind = row.kind /\ Beside(task)[u].at = row.at
        /\ Beside(task)[u].export = row.export
    BY <1>1, <1>2, AloneSame
  <1> QED BY <1>3 DEF row

LEMMA EditsFresh ==
  ASSUME IInv, Fresh, Edit, UNCHANGED export
  PROVE  Fresh'
  <1>1. \A u \in Requests : /\ task'[u].kind = task[u].kind /\ task'[u].at = task[u].at
                            /\ task'[u].export = task[u].export
    BY BesideSame DEF Edit
  <1>2. Nones
    BY DEF Nones
  <1> QED BY <1>1, <1>2, StaysFresh DEF Opening, Deleting

LEMMA AdmitsFresh ==
  ASSUME IInv, Fresh, UNCHANGED export, NEW t \in Requests, NEW row, row \in TaskState,
         Admit(t, row), ~Opening(row),
         Deleting(row) => export[row.export] # "none"
  PROVE  Fresh'
  <1> DEFINE flag == \A u \in Requests : task[u].kind = "none"
  <1>1. task' = [Beside(task) EXCEPT ![t] = [row EXCEPT !.alone = flag]]
    BY DEF Admit
  <1>2. flag \in BOOLEAN
    OBVIOUS
  <1> HIDE DEF flag
  <1>3. task'[t] = [row EXCEPT !.alone = flag]
    BY <1>1 DEF Beside
  <1>4. /\ task'[t].kind = row.kind /\ task'[t].at = row.at /\ task'[t].export = row.export
    BY <1>2, <1>3, AloneSame
  <1>5. \A u \in Requests : u # t => task'[u] = Beside(task)[u]
    BY <1>1 DEF Beside
  <1>6. \A u \in Requests : u # t => /\ task'[u].kind = task[u].kind
                                     /\ task'[u].at = task[u].at
                                     /\ task'[u].export = task[u].export
    BY <1>5, BesideSame
  <1>7. Nones
    BY DEF Nones
  <1> QED BY <1>4, <1>6, <1>7, StaysFresh DEF Opening, Deleting

LEMMA BeginsFresh ==
  ASSUME IInv, Fresh, NEW t \in Requests, Begin(t)
  PROVE  Fresh'
  <1>1. UNCHANGED export
    BY DEF Begin, Create, Render, Remove, Publish, Submit, Patch, RemoveExport,
           RemoveJob, Asks, renders
  <1>2. CASE Create(t)
    <2> DEFINE row == [Idle EXCEPT !.kind = "create"]
    <2>1. row \in TaskState /\ row.kind = "create" /\ Admit(t, row)
      BY <1>2, IdleType DEF TaskState, Kinds, Create
    <2> HIDE DEF row
    <2> QED BY <1>1, <2>1, AdmitsFresh DEF Opening, Deleting
  <1>3. CASE Render(t)
    <2> DEFINE version == "versions" \in rows
               row == [Idle EXCEPT !.kind = "render", !.version = version]
    <2>0. Admit(t, row) /\ version \in BOOLEAN
      BY <1>3 DEF Render
    <2> HIDE DEF version
    <2>1. row \in TaskState /\ row.kind = "render" /\ row.at = 1 /\ Admit(t, row)
      <3>1. row \in TaskState /\ row.kind = "render" /\ row.at = 1
        BY <2>0, IdleType DEF TaskState, Kinds
      <3> QED BY <2>0, <3>1
    <2> HIDE DEF row
    <2> QED BY <1>1, <2>1, AdmitsFresh DEF Opening, Deleting
  <1>4. ASSUME NEW kind \in {"publish", "remove_export", "remove"},
               NEW e \in Exports \cup {"none"}, Asks(t, kind, e),
               kind = "remove_export" => export[e] \notin Gone
        PROVE  Fresh'
    <2> DEFINE row == [Idle EXCEPT !.kind = kind, !.export = e]
    <2>1. row \in TaskState /\ row.kind = kind /\ row.export = e /\ Admit(t, row)
      <3>1. kind \in Kinds
        BY DEF Kinds
      <3>2. row \in TaskState /\ row.kind = kind /\ row.export = e
        BY <3>1, Asked
      <3>3. Admit(t, row)
        BY <1>4 DEF Asks
      <3> QED BY <3>2, <3>3
    <2> HIDE DEF row
    <2> QED BY <1>1, <1>4, <2>1, AdmitsFresh DEF Opening, Deleting, Gone
  <1>5. ASSUME NEW e \in Exports, Submit(t, e)
        PROVE  Fresh'
    <2> DEFINE version == e \in versioned
               row == [Idle EXCEPT !.kind = "submit", !.export = e, !.version = version]
    <2>0. Admit(t, row) /\ version \in BOOLEAN
      BY <1>5 DEF Submit
    <2> HIDE DEF version
    <2>1. row \in TaskState /\ row.kind = "submit" /\ Admit(t, row)
      <3>1. row \in TaskState /\ row.kind = "submit"
        BY <2>0, IdleType DEF TaskState, Kinds
      <3> QED BY <2>0, <3>1
    <2> HIDE DEF row
    <2> QED BY <1>1, <2>1, AdmitsFresh DEF Opening, Deleting
  <1>6. ASSUME NEW e \in Exports, RemoveJob(t, e)
        PROVE  Fresh'
    <2> DEFINE at == IF export[e] \in Gone THEN 4 ELSE 1
    <2>1. Admit(t, [Idle EXCEPT !.kind = "remove_job", !.export = e, !.at = at])
      BY <1>6 DEF RemoveJob
    <2>2. at \in {1, 4} /\ (at = 1 => export[e] # "none")
      BY DEF Gone
    <2> HIDE DEF at
    <2> DEFINE row == [Idle EXCEPT !.kind = "remove_job", !.export = e, !.at = at]
    <2>3. row \in TaskState /\ row.kind = "remove_job" /\ row.export = e /\ row.at = at
      <3>1. at \in 1 .. 14
        BY <2>2
      <3> QED BY <3>1, IdleType DEF TaskState, Kinds
    <2>4. Admit(t, row)
      BY <2>1
    <2> HIDE DEF row
    <2>5. ~Opening(row) /\ (Deleting(row) => export[row.export] # "none")
      BY <2>2, <2>3 DEF Opening, Deleting
    <2> QED BY <1>1, <2>3, <2>4, <2>5, AdmitsFresh
  <1>7. ASSUME NEW e \in Exports, Patch(t, e)
        PROVE  Fresh'
    <2>1. PICK given \in BOOLEAN, status \in Outcomes \ Gone :
            Admit(t, [Idle EXCEPT !.kind = "patch", !.export = e,
                                  !.status = status, !.given = given])
      BY <1>7 DEF Patch
    <2> DEFINE row == [Idle EXCEPT !.kind = "patch", !.export = e,
                                   !.status = status, !.given = given]
    <2>2. row \in TaskState /\ row.kind = "patch"
      BY IdleType DEF TaskState, Kinds
    <2>3. Admit(t, row)
      BY <2>1
    <2> HIDE DEF row
    <2> QED BY <1>1, <2>2, <2>3, AdmitsFresh DEF Opening, Deleting
  <1>8. CASE Remove(t)
    BY <1>4, <1>8 DEF Remove
  <1>9. ASSUME NEW e \in Exports, Publish(t, e) \/ RemoveExport(t, e)
        PROVE  Fresh'
    BY <1>4, <1>9 DEF Publish, RemoveExport
  <1> QED BY <1>2, <1>3, <1>5, <1>6, <1>7, <1>8, <1>9 DEF Begin

-----------------------------------------------------------------------------
LEMMA Starts == Init => IInv /\ Fresh
  <1> SUFFICES ASSUME Init PROVE IInv /\ Fresh
    OBVIOUS
  <1>1. TablesOK
    BY DEF Init, TablesOK, Projects, Jobs, Outcomes, Gone, Pipelines
  <1>2. Linked /\ ReadyIsRendered
    BY DEF Init, Linked, ReadyIsRendered, Gone
  <1>3. \A t \in Requests : task[t] = Idle
    BY DEF Init
  <1>4. TasksOK
    BY <1>3, IdleSound DEF Init, TasksOK
  <1>5. Fresh
    BY <1>3, IdleType DEF Fresh, Opening, Deleting
  <1> QED BY <1>1, <1>2, <1>4, <1>5 DEF IInv

LEMMA Steps == IInv /\ Fresh /\ [Next]_vars => IInv' /\ Fresh'
  <1> SUFFICES ASSUME IInv, Fresh, [Next]_vars PROVE IInv' /\ Fresh'
    OBVIOUS
  <1>1. ASSUME NEW t \in Requests, Begin(t)
        PROVE  IInv' /\ Fresh'
    BY <1>1, Begins, BeginsFresh
  <1>2. ASSUME NEW t \in Requests, Write(t) \/ Delete(t) \/ CutShort(t)
        PROVE  IInv' /\ Fresh'
    <2>1. IInv'
      BY <1>2, Aside, InsertsJob, InsertsExport, Completes, Updates, Deletes, Empties
         DEF Write, Delete
    <2> QED BY <1>2, <2>1, WritesFresh
  <1>3. CASE \/ \E table \in Filled : AddRow(table) \/ DropRow(table)
             \/ AskReview \/ DropReview
             \/ \E e \in Exports : AddLink(e) \/ DropLink(e) \/ Cancel(e)
    <2>1. Edit /\ UNCHANGED export
      BY <1>3 DEF AddRow, DropRow, AskReview, DropReview, AddLink, DropLink, Cancel, renders
    <2> QED BY <1>3, <2>1, Edits, EditsFresh
  <1>4. CASE UNCHANGED vars
    BY <1>4 DEF vars, renders, children, history, IInv, Fresh, TablesOK, Linked,
       ReadyIsRendered, TasksOK
  <1> QED BY <1>1, <1>2, <1>3, <1>4 DEF Next

\* The tables and the requests hold what they may, in every reachable state.
THEOREM TypeCorrect == Spec => []TypeOK
  <1>1. IInv => TypeOK
    <2> SUFFICES ASSUME IInv PROVE TypeOK
      OBVIOUS
    <2>1. TablesOK /\ task \in [Requests -> TaskState]
      BY DEF IInv, TasksOK, Sound
    <2> QED BY <2>1 DEF TypeOK, TablesOK
  <1> QED BY <1>1, Starts, Steps, PTL DEF Spec

\* What is ready or published was rendered, or had its status given: neither a
\* cancellation, nor a deletion, nor a patch that writes back what it read,
\* comes between the two UPDATEs of a completion so as to undo that.
THEOREM Rendered == Spec => []ReadyIsRendered
  <1>1. IInv => ReadyIsRendered
    BY DEF IInv
  <1> QED BY <1>1, Starts, Steps, PTL DEF Spec

-----------------------------------------------------------------------------
(* A deletion on its own.                                                  *)

Solo == \A t, u \in Requests : task[t].alone /\ t # u => task[u].kind = "none"
\* What a deletion on its own has left of what refers to its next row.
Swept(row) == row.alone =>
  /\ row.kind = "remove" => \A k \in 1 .. row.at - 1 : ~Has(RemoveScript[k])
  /\ row.kind \in {"remove_export", "remove_job"} /\ row.at \in {2, 3} =>
       row.export \notin link
  /\ row.kind = "remove_job" /\ row.at = 4 => export[row.export] \in Gone
Alone == Solo /\ \A t \in Requests : Swept(task[t])

\* Every table that refers to another is emptied before it.
LEMMA EmptiedBefore ==
  ASSUME NEW at \in 1 .. 14, \A k \in 1 .. at - 1 : ~Has(RemoveScript[k])
  PROVE  MayEmpty(RemoveScript[at])
  <1>1. \A k \in 1 .. 14 : k < at => k \in 1 .. at - 1
    OBVIOUS
  <1>2. \A k \in 1 .. 14 : k < at => ~Has(RemoveScript[k])
    BY <1>1
  <1>3. /\ at > 1 => ~Has("links") /\ (at > 2 => ~Has("exports"))
        /\ at > 3 => ~Has("jobs") /\ (at > 4 => ~Has("reviews"))
        /\ at > 5 => ~Has("comments") /\ (at > 6 => ~Has("transcripts"))
        /\ at > 7 => ~Has("requirements") /\ (at > 8 => ~Has("slots"))
        /\ at > 9 => ~Has("assets") /\ (at > 10 => ~Has("versions"))
        /\ at > 11 => ~Has("clips") /\ (at > 12 => ~Has("tracks"))
        /\ at > 13 => ~Has("timelines")
    BY <1>2 DEF RemoveScript
  <1>4. \A child \in Tables : RemoveScript[at] \in References[child] => ~Has(child)
    BY <1>3 DEF RemoveScript, Tables, References
  <1> QED BY <1>4 DEF MayEmpty

LEMMA GoesThrough == IInv /\ Alone => DeletesGoThrough
  <1> SUFFICES ASSUME IInv, Alone, NEW t \in Requests,
                      task[t].kind \in {"remove", "remove_job", "remove_export"},
                      task[t].alone
               PROVE  ~Breaks(t)
    BY DEF DeletesGoThrough
  <1>0. task[t].kind \in Kinds /\ task[t].at \in 1 .. 14
    BY Working
  <1>1. Swept(task[t])
    BY DEF Alone
  <1>2. CASE task[t].kind = "remove"
    <2>1. MayEmpty(RemoveScript[task[t].at])
      BY <1>0, <1>1, <1>2, EmptiedBefore DEF Swept
    <2> QED BY <1>0, <1>2, <2>1, Statements DEF Breaks
  <1>3. CASE task[t].kind \in {"remove_job", "remove_export"}
    BY <1>0, <1>1, <1>3, Statements DEF Breaks, Swept
  <1> QED BY <1>2, <1>3

\* What a statement does to the requests.
LEMMA Moves ==
  ASSUME IInv, NEW t \in Requests, Write(t) \/ Delete(t) \/ CutShort(t)
  PROVE  /\ task[t].kind # "none"
         /\ \A u \in Requests : u # t => task'[u] = task[u]
         /\ \/ task'[t] = Idle
            \/ /\ task'[t].kind = task[t].kind /\ task'[t].at = task[t].at + 1
               /\ task'[t].alone = task[t].alone
               /\ task[t].kind # "render" => task'[t].export = task[t].export
  <1> DEFINE row == task[t]
  <1>0. /\ row \in TaskState /\ row.kind \in Kinds /\ row.at \in 1 .. 14
        /\ Placed(row) /\ TasksOK
    BY Working
  <1>1. row.kind # "none"
    BY <1>0, Statements DEF Write, Delete, CutShort, Refused, Breaks, FirstTimeline,
       InsertJob, InsertExport, ReadSource, Complete, Ready, WriteExport, WritePublished,
       ReadJob, PipelineJob, PipelineAsset, PipelineVariant, InsertLink, InsertReview,
       DeleteLinks, DeleteReviews, DeleteExport, DeleteJob, Empty
  <1>2. \/ Onwards(row) = Idle
        \/ Further(row, Onwards(row)) /\ Onwards(row) \in TaskState
    <2> HIDE DEF row
    <2> QED BY <1>0, <1>1, OnwardsRow
  <1>3. CASE Goes(t) \/ Ends(t)
    <2>1. \A u \in Requests : u # t => task'[u] = task[u]
      BY <1>0, <1>3 DEF Goes, Ends, TasksOK
    <2>2. task'[t] \in {Idle, Onwards(row)}
      BY <1>0, <1>3 DEF Goes, Ends, TasksOK
    <2> HIDE DEF row
    <2>3. row = task[t]
      BY DEF row
    <2> QED BY <1>1, <1>2, <2>1, <2>2, <2>3 DEF Further
  <1>4. CASE InsertJob(t)
    <2>1. row.kind = "render" /\ row.at = 1
      BY <1>0, <1>4, Statements DEF InsertJob
    <2>2. Further(row, Onwards(row)) /\ Onwards(row) \in TaskState
      <3>1. row.at # Len(Script[row.kind])
        BY <2>1, Lengths
      <3> HIDE DEF row
      <3> QED BY <1>0, <1>1, <3>1, OnwardsRow
    <2>3. PICK e \in Exports : task' = [task EXCEPT ![t] = [Onwards(@) EXCEPT !.export = e]]
      BY <1>4 DEF InsertJob
    <2>4. task'[t] = [Onwards(row) EXCEPT !.export = e]
      BY <1>0, <2>3 DEF TasksOK
    <2>5. \A u \in Requests : u # t => task'[u] = task[u]
      BY <1>0, <2>3 DEF TasksOK
    <2>6. row = task[t]
      OBVIOUS
    <2> HIDE DEF row
    <2>7. /\ task'[t].kind = Onwards(row).kind /\ task'[t].at = Onwards(row).at
          /\ task'[t].alone = Onwards(row).alone
      BY <2>2, <2>4 DEF TaskState
    <2> QED BY <1>1, <2>1, <2>2, <2>5, <2>6, <2>7 DEF Further
  <1>5. CASE ReadJob(t) /\ ~Ends(t)
    <2>1. row.kind = "publish" /\ row.at = 2
      BY <1>0, <1>5, Statements DEF ReadJob
    <2>2. Further(row, Onwards(row)) /\ Onwards(row) \in TaskState
      <3>1. row.at # Len(Script[row.kind])
        BY <2>1, Lengths
      <3> HIDE DEF row
      <3> QED BY <1>0, <1>1, <3>1, OnwardsRow
    <2> DEFINE manifest == package[row.export]
    <2>3. task' = [task EXCEPT ![t] = [Onwards(@) EXCEPT !.manifest = manifest]]
      BY <1>5 DEF ReadJob
    <2>4. task'[t] = [Onwards(row) EXCEPT !.manifest = manifest]
      BY <1>0, <2>3 DEF TasksOK
    <2>5. \A u \in Requests : u # t => task'[u] = task[u]
      BY <1>0, <2>3 DEF TasksOK
    <2>6. row = task[t]
      OBVIOUS
    <2> HIDE DEF row, manifest
    <2>7. /\ task'[t].kind = Onwards(row).kind /\ task'[t].at = Onwards(row).at
          /\ task'[t].alone = Onwards(row).alone /\ task'[t].export = Onwards(row).export
      BY <2>2, <2>4 DEF TaskState
    <2> QED BY <1>1, <2>1, <2>2, <2>5, <2>6, <2>7 DEF Further
  <1> QED
    BY <1>3, <1>4, <1>5 DEF Write, Delete, CutShort, Refused, FirstTimeline,
       InsertExport, ReadSource, Complete, Ready, WriteExport, WritePublished,
       PipelineJob, PipelineAsset, PipelineVariant, InsertLink, InsertReview,
       DeleteLinks, DeleteReviews, DeleteExport, DeleteJob, Empty

LEMMA WritesAlone ==
  ASSUME IInv, Alone, NEW t \in Requests, Write(t) \/ Delete(t) \/ CutShort(t)
  PROVE  Alone'
  <1> DEFINE row == task[t]
             new == task'[t]
  <1>0. /\ row \in TaskState /\ row.kind \in Kinds /\ row.at \in 1 .. 14
        /\ Placed(row) /\ TablesOK
    BY Working
  <1>1. /\ row.kind # "none"
        /\ \A u \in Requests : u # t => task'[u] = task[u]
        /\ \/ new = Idle
           \/ /\ new.kind = row.kind /\ new.at = row.at + 1 /\ new.alone = row.alone
              /\ row.kind # "render" => new.export = row.export
    BY Moves
  <1>2. \A u \in Requests : u # t => ~task[u].alone
    BY <1>1 DEF Alone, Solo
  <1>3. ~Idle.alone /\ Idle.kind = "none"
    BY DEF Idle
  <1>4. Solo'
    <2>1. new.alone => row.alone
      BY <1>1, <1>3
    <2> QED BY <1>1, <1>2, <2>1 DEF Alone, Solo
  <1>5. \A u \in Requests : u # t => Swept(task[u])'
    BY <1>1, <1>2 DEF Swept
  <1>6. Swept(task[t])'
    <2> SUFFICES ASSUME new.alone PROVE Swept(task[t])'
      BY DEF Swept
    <2>1. /\ new.kind = row.kind /\ new.at = row.at + 1 /\ row.alone
          /\ row.kind # "render" => new.export = row.export
      BY <1>1, <1>3
    <2>2. Swept(row) /\ new # Idle
      BY <1>3 DEF Alone
    <2>3. CASE row.kind = "remove"
      <3>1. Empty(t)
        <4>1. ~Ends(t) /\ ~Refused(t) /\ ~CutShort(t)
          BY <2>2 DEF Ends, Refused, CutShort, IInv, TasksOK
        <4> QED
          BY <1>0, <2>3, <4>1, Statements DEF Write, Delete, FirstTimeline,
             InsertJob, InsertExport, ReadSource, Complete, Ready, WriteExport,
             WritePublished, ReadJob, PipelineJob, PipelineAsset, PipelineVariant,
             InsertLink, InsertReview, DeleteLinks, DeleteReviews, DeleteExport, DeleteJob
      <3>2. PICK at \in 1 .. 14 : at = row.at
        BY <1>0
      <3> DEFINE table == RemoveScript[at]
      <3>3. /\ rows' = rows \ {table}
            /\ project' = IF table = "projects" THEN "gone" ELSE project
            /\ link' = IF table = "links" THEN {} ELSE link
            /\ review' = IF table = "reviews" THEN {} ELSE review
            /\ job' = IF table = "jobs" THEN Cleared(job) ELSE job
            /\ export' = IF table = "exports" THEN Cleared(export) ELSE export
        BY <3>1, <3>2 DEF Empty
      <3> HIDE DEF table
      <3>4. ASSUME NEW other, ~Has(other)
            PROVE  ~Has(other)'
        BY <3>3, <3>4 DEF Has, Cleared, Gone
      <3>5. ~Has(table)'
        BY <3>3 DEF Has, Cleared, Gone
      <3>6. \A k \in 1 .. at - 1 : ~Has(RemoveScript[k])
        BY <2>1, <2>2, <2>3, <3>2 DEF Swept
      <3>7. ASSUME NEW k \in 1 .. at
            PROVE  ~Has(RemoveScript[k])'
        <4>1. CASE k = at
          BY <3>5, <4>1 DEF table
        <4>2. CASE k \in 1 .. at - 1
          BY <3>4, <3>6, <4>2
        <4> QED BY <3>2, <4>1, <4>2
      <3>8. new.at - 1 = at
        BY <1>0, <2>1, <3>2
      <3> HIDE DEF new
      <3>9. new = task'[t]
        BY DEF new
      <3> QED BY <2>1, <2>3, <3>7, <3>8, <3>9 DEF Swept
    <2>4. CASE row.kind \in {"remove_export", "remove_job"}
      <3>1. DeleteLinks(t) \/ DeleteReviews(t) \/ DeleteExport(t) \/ DeleteJob(t)
        <4>1. ~Ends(t) /\ ~Refused(t) /\ ~CutShort(t)
          BY <2>2 DEF Ends, Refused, CutShort, IInv, TasksOK
        <4> QED
          BY <1>0, <2>4, <4>1, Statements DEF Write, Delete, FirstTimeline,
             InsertJob, InsertExport, ReadSource, Complete, Ready, WriteExport,
             WritePublished, ReadJob, PipelineJob, PipelineAsset, PipelineVariant,
             InsertLink, InsertReview, Empty
      <3>2. CASE DeleteLinks(t)
        <4>1. row.at = 1 /\ ~Ends(t)
          BY <1>0, <2>2, <3>2, Statements DEF DeleteLinks, Ends, IInv, TasksOK
        <4>2. link' = link \ {row.export}
          BY <3>2, <4>1 DEF DeleteLinks
        <4> HIDE DEF row, new
        <4>3. new = task'[t]
          BY DEF new
        <4> QED BY <2>1, <2>4, <4>1, <4>2, <4>3 DEF Swept
      <3>3. CASE DeleteReviews(t)
        <4>1. row.at = 2 /\ UNCHANGED link
          BY <1>0, <3>3, Statements DEF DeleteReviews
        <4> HIDE DEF row, new
        <4>3. new = task'[t]
          BY DEF new
        <4> QED BY <2>1, <2>2, <2>4, <4>1, <4>3 DEF Swept
      <3>4. CASE DeleteExport(t)
        <4>1. row.at = 3 /\ export' = [export EXCEPT ![row.export] = "gone"]
          BY <1>0, <3>4, Statements DEF DeleteExport
        <4>2. export'[row.export] = "gone"
          BY <1>0, <2>4, <4>1 DEF TablesOK, Placed
        <4> HIDE DEF row, new
        <4>3. new = task'[t]
          BY DEF new
        <4> QED BY <2>1, <2>4, <4>1, <4>2, <4>3 DEF Swept, Gone
      <3>5. CASE DeleteJob(t)
        <4>1. row.at = 4
          BY <1>0, <3>5, Statements DEF DeleteJob
        <4> HIDE DEF row, new
        <4>3. new = task'[t]
          BY DEF new
        <4> QED BY <2>1, <2>4, <4>1, <4>3 DEF Swept
      <3> QED BY <3>1, <3>2, <3>3, <3>4, <3>5
    <2>5. CASE row.kind \notin {"remove", "remove_export", "remove_job"}
      BY <2>1, <2>5 DEF Swept
    <2> QED BY <2>3, <2>4, <2>5
  <1> QED BY <1>4, <1>5, <1>6 DEF Alone

LEMMA EditsAlone ==
  ASSUME IInv, Edit
  PROVE  Alone'
  <1>1. ASSUME NEW u \in Requests
        PROVE  ~task'[u].alone
    <2> DEFINE row == task[u]
    <2>1. row \in TaskState
      BY Working
    <2>2. task'[u] = [row EXCEPT !.alone = FALSE]
      BY DEF Edit, Beside
    <2> HIDE DEF row
    <2> QED BY <2>1, <2>2 DEF TaskState
  <1> QED BY <1>1 DEF Alone, Solo, Swept

LEMMA AdmitsAlone ==
  ASSUME IInv, NEW t \in Requests, NEW row, row \in TaskState, Admit(t, row),
         \/ row.at = 1
         \/ row.kind = "remove_job" /\ row.at = 4 /\ export'[row.export] \in Gone
  PROVE  Alone'
  <1> DEFINE flag == \A u \in Requests : task[u].kind = "none"
  <1>1. task' = [Beside(task) EXCEPT ![t] = [row EXCEPT !.alone = flag]]
    BY DEF Admit
  <1>2. flag \in BOOLEAN /\ (flag => \A u \in Requests : task[u].kind = "none")
    OBVIOUS
  <1> HIDE DEF flag
  <1>3. task'[t] = [row EXCEPT !.alone = flag]
    BY <1>1 DEF Beside
  <1>4. /\ task'[t].kind = row.kind /\ task'[t].at = row.at /\ task'[t].export = row.export
        /\ task'[t].alone = flag
    BY <1>2, <1>3 DEF TaskState
  <1>5. ASSUME NEW u \in Requests, u # t
        PROVE  ~task'[u].alone /\ task'[u].kind = task[u].kind
    <2> DEFINE old == task[u]
    <2>1. old \in TaskState
      BY Working
    <2>2. task'[u] = [old EXCEPT !.alone = FALSE]
      BY <1>1, <1>5 DEF Beside
    <2>3. task'[u].kind = old.kind /\ ~task'[u].alone
      <3> HIDE DEF old
      <3> QED BY <2>1, <2>2 DEF TaskState
    <2> QED BY <2>3
  <1>6. Solo'
    BY <1>2, <1>4, <1>5 DEF Solo
  <1>7. Swept(task[t])'
    BY <1>4 DEF Swept
  <1>8. \A u \in Requests : u # t => Swept(task[u])'
    BY <1>5 DEF Swept
  <1> QED BY <1>6, <1>7, <1>8 DEF Alone

LEMMA BeginsAlone ==
  ASSUME IInv, NEW t \in Requests, Begin(t)
  PROVE  Alone'
  <1>1. UNCHANGED export
    BY DEF Begin, Create, Render, Remove, Publish, Submit, Patch, RemoveExport,
           RemoveJob, Asks, renders
  <1>2. ASSUME NEW row \in TaskState, row.at = 1, Admit(t, row)
        PROVE  Alone'
    BY <1>2, AdmitsAlone
  <1>3. CASE Create(t)
    <2> DEFINE row == [Idle EXCEPT !.kind = "create"]
    <2>1. row \in TaskState /\ row.at = 1 /\ Admit(t, row)
      BY <1>3, IdleType DEF TaskState, Kinds, Create
    <2> HIDE DEF row
    <2> QED BY <1>2, <2>1
  <1>4. CASE Render(t)
    <2> DEFINE version == "versions" \in rows
               row == [Idle EXCEPT !.kind = "render", !.version = version]
    <2>1. Admit(t, row) /\ version \in BOOLEAN
      BY <1>4 DEF Render
    <2> HIDE DEF version
    <2>2. row \in TaskState /\ row.at = 1
      BY <2>1, IdleType DEF TaskState, Kinds
    <2> HIDE DEF row
    <2> QED BY <1>2, <2>1, <2>2
  <1>5. ASSUME NEW kind \in {"publish", "remove_export", "remove"},
               NEW e \in Exports \cup {"none"}, Asks(t, kind, e)
        PROVE  Alone'
    <2> DEFINE row == [Idle EXCEPT !.kind = kind, !.export = e]
    <2>1. kind \in Kinds
      BY DEF Kinds
    <2>2. row \in TaskState /\ row.at = 1
      BY <2>1, Asked
    <2>3. Admit(t, row)
      BY <1>5 DEF Asks
    <2> HIDE DEF row
    <2> QED BY <1>2, <2>2, <2>3
  <1>6. ASSUME NEW e \in Exports, Submit(t, e)
        PROVE  Alone'
    <2> DEFINE version == e \in versioned
               row == [Idle EXCEPT !.kind = "submit", !.export = e, !.version = version]
    <2>1. Admit(t, row) /\ version \in BOOLEAN
      BY <1>6 DEF Submit
    <2> HIDE DEF version
    <2>2. row \in TaskState /\ row.at = 1
      BY <2>1, IdleType DEF TaskState, Kinds
    <2> HIDE DEF row
    <2> QED BY <1>2, <2>1, <2>2
  <1>7. ASSUME NEW e \in Exports, RemoveJob(t, e)
        PROVE  Alone'
    <2> DEFINE at == IF export[e] \in Gone THEN 4 ELSE 1
               row == [Idle EXCEPT !.kind = "remove_job", !.export = e, !.at = at]
    <2>1. Admit(t, row) /\ at \in {1, 4} /\ (at = 4 => export[e] \in Gone)
      BY <1>7 DEF RemoveJob
    <2> HIDE DEF at
    <2>2. row \in TaskState /\ row.kind = "remove_job" /\ row.export = e /\ row.at = at
      <3>1. at \in 1 .. 14
        BY <2>1
      <3> QED BY <3>1, IdleType DEF TaskState, Kinds
    <2> HIDE DEF row
    <2> QED BY <1>1, <2>1, <2>2, AdmitsAlone
  <1>8. ASSUME NEW e \in Exports, Patch(t, e)
        PROVE  Alone'
    <2>1. PICK given \in BOOLEAN, status \in Outcomes \ Gone :
            Admit(t, [Idle EXCEPT !.kind = "patch", !.export = e,
                                  !.status = status, !.given = given])
      BY <1>8 DEF Patch
    <2> DEFINE row == [Idle EXCEPT !.kind = "patch", !.export = e,
                                   !.status = status, !.given = given]
    <2>2. row \in TaskState /\ row.at = 1
      BY IdleType DEF TaskState, Kinds
    <2>3. Admit(t, row)
      BY <2>1
    <2> HIDE DEF row
    <2> QED BY <1>2, <2>2, <2>3
  <1>9. CASE Remove(t)
    BY <1>5, <1>9 DEF Remove
  <1>10. ASSUME NEW e \in Exports, Publish(t, e) \/ RemoveExport(t, e)
         PROVE  Alone'
    BY <1>5, <1>10 DEF Publish, RemoveExport
  <1> QED BY <1>3, <1>4, <1>6, <1>7, <1>8, <1>9, <1>10 DEF Begin

\* A deletion that nothing else happens beside is never refused by a foreign key,
\* however many rows the tables of the project hold.
THEOREM DeletionsEnd == Spec => []DeletesGoThrough
  <1>1. Init => Alone
    <2> SUFFICES ASSUME Init PROVE Alone
      OBVIOUS
    <2>1. \A t \in Requests : ~task[t].alone
      BY DEF Init, Idle
    <2> QED BY <2>1 DEF Alone, Solo, Swept
  <1>2. IInv /\ Alone /\ [Next]_vars => Alone'
    <2> SUFFICES ASSUME IInv, Alone, [Next]_vars PROVE Alone'
      OBVIOUS
    <2>1. ASSUME NEW t \in Requests, Begin(t)
          PROVE  Alone'
      BY <2>1, BeginsAlone
    <2>2. ASSUME NEW t \in Requests, Write(t) \/ Delete(t) \/ CutShort(t)
          PROVE  Alone'
      BY <2>2, WritesAlone
    <2>3. CASE \/ \E table \in Filled : AddRow(table) \/ DropRow(table)
               \/ AskReview \/ DropReview
               \/ \E e \in Exports : AddLink(e) \/ DropLink(e) \/ Cancel(e)
      <3>1. Edit
        BY <2>3 DEF AddRow, DropRow, AskReview, DropReview, AddLink, DropLink, Cancel
      <3> QED BY <3>1, EditsAlone
    <2>4. CASE UNCHANGED vars
      BY <2>4 DEF vars, renders, children, Alone, Solo, Swept, Has
    <2> QED BY <2>1, <2>2, <2>3, <2>4 DEF Next
  <1> QED BY <1>1, <1>2, GoesThrough, Starts, Steps, PTL DEF Spec

-----------------------------------------------------------------------------
(* What a publish leaves.                                                  *)

Publishes(row, e) == row.kind = "publish" /\ row.export = e
\* What lies behind a publish is in the pipeline.
Behind(row, made) == /\ row.at > 3 => made.job
                     /\ row.at > 4 => made.asset = "path"
Playable(made) == made = [job |-> TRUE, asset |-> "path", variant |-> TRUE]
\* Nothing that is at work on the export can spoil what can be played, and
\* either all of it is there or a publish is on its way to write the rest.
Informed(e) ==
  \A t \in Requests : Publishes(task[t], e) /\ task[t].at > 2 => task[t].manifest
UnderWay(e) ==
  \E t \in Requests : /\ Publishes(task[t], e) /\ task[t].at > 1
                      /\ Behind(task[t], pipeline[e])
Promised(e) == package[e] /\ Informed(e) /\ (Playable(pipeline[e]) \/ UnderWay(e))
\* The export is published, or a patch is about to write that back.
WritesBack(row, e) == /\ row.kind = "patch" /\ row.export = e
                      /\ ~row.given /\ row.status = "published"
Shown(e) == export[e] = "published" \/ \E t \in Requests : WritesBack(task[t], e)
\* A project that is gone has no exports (the foreign key).
Owned == project \in Gone => \A e \in Exports : export[e] \in Gone
PInv == /\ Owned
        /\ \A e \in Exports : /\ Shown(e) /\ export[e] \notin Gone
                              /\ e \notin forced /\ e \notin unsure
                              => Promised(e)

\* What a statement does to a request that publishes or patches.
LEMMA Proceeds ==
  ASSUME IInv, NEW t \in Requests, Write(t) \/ Delete(t) \/ CutShort(t)
  PROVE  /\ task'[t].kind = task[t].kind \/ task'[t] = Idle
         /\ task[t].kind = "patch" => task'[t] = Idle
         /\ task[t].kind = "publish" =>
              \/ task'[t] = Idle
              \/ /\ task'[t].at = task[t].at + 1 /\ task'[t].export = task[t].export
                 /\ task[t].at = 2 => task'[t].manifest = package[task[t].export]
                 /\ task[t].at # 2 => task'[t].manifest = task[t].manifest
  <1> DEFINE row == task[t]
  <1>0. /\ row \in TaskState /\ row.kind \in Kinds /\ row.at \in 1 .. 14
        /\ Placed(row) /\ TasksOK
    BY Working
  <1>1. row.kind # "none" /\ (task'[t].kind = row.kind \/ task'[t] = Idle)
    BY Moves
  <1>2. ASSUME row.kind = "patch"
        PROVE  task'[t] = Idle
    <2>1. row.at = Len(Script[row.kind])
      BY <1>0, <1>2, Lengths DEF Placed
    <2>2. Onwards(row) = Idle
      BY <2>1 DEF Onwards
    <2>3. Goes(t) \/ Ends(t)
      BY <1>0, <1>2, Statements DEF Write, Delete, CutShort, Refused, FirstTimeline,
         InsertJob, InsertExport, ReadSource, Complete, Ready, WriteExport, WritePublished,
         ReadJob, PipelineJob, PipelineAsset, PipelineVariant, InsertLink, InsertReview,
         DeleteLinks, DeleteReviews, DeleteExport, DeleteJob, Empty
    <2> QED BY <1>0, <2>2, <2>3 DEF Goes, Ends, TasksOK
  <1>3. ASSUME row.kind = "publish", task'[t] # Idle
        PROVE  /\ task'[t].at = row.at + 1 /\ task'[t].export = row.export
               /\ row.at = 2 => task'[t].manifest = package[row.export]
               /\ row.at # 2 => task'[t].manifest = row.manifest
    <2>1. /\ task'[t].at = row.at + 1 /\ task'[t].export = row.export
      BY <1>3, Moves
    <2>2. Onwards(row) # Idle => Further(row, Onwards(row)) /\ Onwards(row) \in TaskState
      <3> HIDE DEF row
      <3> QED BY <1>0, <1>1, OnwardsRow
    <2>3. CASE row.at = 2 /\ ReadJob(t)
      <3> DEFINE manifest == package[row.export]
      <3>1. task'[t] = [Onwards(row) EXCEPT !.manifest = manifest]
        BY <1>0, <1>3, <2>3 DEF ReadJob, Ends, TasksOK
      <3>2. row.at # Len(Script[row.kind])
        BY <1>3, <2>3, Lengths
      <3> HIDE DEF row, manifest
      <3>3. Onwards(row) \in TaskState
        BY <1>0, <1>1, <3>2, OnwardsRow
      <3>4. task'[t].manifest = manifest
        BY <3>1, <3>3 DEF TaskState
      <3> QED BY <2>1, <2>3, <3>4 DEF row, manifest
    <2>4. CASE Goes(t) /\ row.at # 2
      <3>1. task'[t] = Onwards(row)
        BY <1>0, <2>4 DEF Goes, TasksOK
      <3> HIDE DEF row
      <3>2. task'[t].manifest = row.manifest
        BY <1>3, <2>2, <3>1 DEF Further
      <3> QED BY <2>1, <2>4, <3>2 DEF row
    <2>5. ~Ends(t)
      BY <1>0, <1>3 DEF Ends, TasksOK
    <2>6. \/ WritePublished(t) \/ ReadJob(t) \/ PipelineJob(t) \/ PipelineAsset(t)
          \/ PipelineVariant(t)
      BY <1>0, <1>3, <2>5, Statements DEF Write, Delete, CutShort, Refused, FirstTimeline,
         InsertJob, InsertExport, ReadSource, Complete, Ready, WriteExport,
         InsertLink, InsertReview, DeleteLinks, DeleteReviews, DeleteExport, DeleteJob, Empty
    <2> QED BY <1>0, <2>3, <2>4, <2>6, Statements DEF WritePublished, ReadJob, PipelineJob,
            PipelineAsset, PipelineVariant
  <1> QED BY <1>1, <1>2, <1>3

\* A publish ends with its last statement.
LEMMA NotLast ==
  ASSUME IInv, NEW t \in Requests, task[t].kind = "publish", task[t].at < 5
  PROVE  /\ Onwards(task[t]) \in TaskState /\ Onwards(task[t]).at = task[t].at + 1
         /\ Goes(t) => task'[t] # Idle
  <1> DEFINE row == task[t]
  <1>0. row \in TaskState /\ row.at \in 1 .. 14 /\ Placed(row) /\ TasksOK
    BY Working
  <1>1. row.kind = "publish" /\ row.at < 5
    OBVIOUS
  <1>2. Onwards(row) \in TaskState /\ Onwards(row).at = row.at + 1
    <2> HIDE DEF row
    <2>1. row.at # Len(Script[row.kind])
      BY <1>1, Lengths
    <2> QED BY <1>0, <1>1, <2>1, OnwardsRow DEF Further
  <1>3. ASSUME Goes(t), task'[t] = Idle
        PROVE  FALSE
    <2>1. task'[t] = Onwards(row)
      BY <1>0, <1>3 DEF Goes, TasksOK
    <2>2. Onwards(row) = Idle
      BY <1>3, <2>1
    <2> HIDE DEF row
    <2> QED BY <1>0, <1>2, <2>2, IdleType
  <1> QED BY <1>2, <1>3

\* How a publish ends.
LEMMA PublishEnds ==
  ASSUME IInv, NEW t \in Requests, Write(t) \/ Delete(t) \/ CutShort(t),
         task[t].kind = "publish", task'[t] = Idle
  PROVE  \/ CutShort(t)
         \/ PipelineVariant(t)
         \/ ReadJob(t) /\ (\/ export[task[t].export] \in Gone \/ project \in Gone
                           \/ job[task[t].export] \in Gone)
  <1> DEFINE row == task[t]
  <1>0. /\ row \in TaskState /\ row.kind \in Kinds /\ row.at \in 1 .. 14
        /\ Placed(row) /\ TasksOK
    BY Working
  <1>1. row.at < 5 => Onwards(row) \in TaskState /\ Onwards(row).at = row.at + 1
    BY NotLast
  <1>2. ~(row.at < 5 /\ Goes(t))
    BY NotLast
  <1>3. \/ WritePublished(t) \/ ReadJob(t) \/ PipelineJob(t) \/ PipelineAsset(t)
        \/ PipelineVariant(t) \/ CutShort(t) \/ Refused(t)
    BY <1>0, Statements DEF Write, Delete, FirstTimeline,
       InsertJob, InsertExport, ReadSource, Complete, Ready, WriteExport,
       InsertLink, InsertReview, DeleteLinks, DeleteReviews, DeleteExport, DeleteJob, Empty
  <1>4. ~Refused(t)
    BY <1>0, Statements DEF Refused, Breaks
  <1>5. ~(WritePublished(t) \/ PipelineJob(t) \/ PipelineAsset(t))
    BY <1>0, <1>2, Statements DEF WritePublished, PipelineJob, PipelineAsset
  <1>6. ASSUME ReadJob(t), row.at = 2,
               ~(\/ export[row.export] \in Gone \/ project \in Gone
                 \/ job[row.export] \in Gone)
        PROVE  FALSE
    <2> DEFINE manifest == package[row.export]
    <2>1. Idle = [Onwards(row) EXCEPT !.manifest = manifest]
      BY <1>0, <1>6 DEF ReadJob, TasksOK
    <2> HIDE DEF row, manifest
    <2>2. Idle.at = Onwards(row).at
      BY <1>1, <1>6, <2>1 DEF TaskState
    <2> QED BY <1>1, <1>6, <2>2, IdleType
  <1>7. ReadJob(t) => row.at = 2
    BY <1>0, Statements DEF ReadJob
  <1> QED BY <1>3, <1>4, <1>5, <1>6, <1>7

\* What the statements do to the package and to the pipeline.
LEMMA Pipes ==
  ASSUME IInv, Fresh, NEW t \in Requests, Write(t) \/ Delete(t) \/ CutShort(t)
  PROVE  /\ \A e \in Exports : package[e] => package'[e]
         /\ pipeline' \in [Exports -> Pipelines]
         /\ \A e \in Exports : ~Publishes(task[t], e) => pipeline'[e] = pipeline[e]
         /\ task[t].kind = "publish" =>
              LET e == task[t].export
                  row == task[t]
              IN /\ pipeline[e].job => pipeline'[e].job
                 /\ row.at < 4 => /\ pipeline'[e].asset = pipeline[e].asset
                                  /\ pipeline'[e].variant = pipeline[e].variant
                 /\ row.at = 3 => pipeline'[e].job \/ CutShort(t)
                 /\ row.at > 2 /\ row.manifest =>
                      /\ pipeline[e].asset = "path" => pipeline'[e].asset = "path"
                      /\ pipeline[e].variant => pipeline'[e].variant
                      /\ row.at = 4 => pipeline'[e].asset = "path" \/ CutShort(t)
                      /\ row.at = 5 => pipeline'[e].variant \/ CutShort(t)
  <1> DEFINE row == task[t]
             x == row.export
  <1>0. /\ row \in TaskState /\ row.kind \in Kinds /\ row.at \in 1 .. 14
        /\ Placed(row) /\ TablesOK /\ TasksOK
    BY Working
  <1>1. ASSUME NEW e \in Exports, package[e]
        PROVE  package'[e]
    <2>1. CASE Complete(t)
      <3>1. x \in Exports
        BY <1>0, <2>1, Statements DEF Complete, Placed
      <3> DEFINE there == job[x] \notin Gone
      <3>2. package' = [package EXCEPT ![x] = package[x] \/ there]
        BY <1>0, <2>1 DEF Complete, TablesOK
      <3> HIDE DEF there, x
      <3> QED BY <1>0, <1>1, <3>1, <3>2 DEF TablesOK
    <2>2. CASE ~Complete(t)
      <3>1. package' = package
        BY <2>2 DEF Write, Delete, CutShort, Refused, FirstTimeline, InsertJob,
           InsertExport, ReadSource, Ready, WriteExport, WritePublished, ReadJob,
           PipelineJob, PipelineAsset, PipelineVariant, InsertLink, InsertReview,
           DeleteLinks, DeleteReviews, DeleteExport, DeleteJob, Empty, renders
      <3> QED BY <1>1, <3>1
    <2> QED BY <2>1, <2>2
  <1>2. IInv'
    BY Aside, InsertsJob, InsertsExport, Completes, Updates, Deletes, Empties DEF Write, Delete
  <1>3. pipeline' \in [Exports -> Pipelines]
    BY <1>2 DEF IInv, TablesOK
  <1>4. CASE PipelineJob(t)
    <2>1. row.kind = "publish" /\ row.at = 3 /\ x \in Exports
      BY <1>0, <1>4, Statements DEF PipelineJob, Placed
    <2>2. /\ \A e \in Exports : e # x => pipeline'[e] = pipeline[e]
          /\ pipeline'[x] = [pipeline[x] EXCEPT !.job = TRUE]
      BY <1>0, <1>4, <2>1 DEF PipelineJob, TablesOK
    <2>3. pipeline[x] \in Pipelines
      BY <1>0, <2>1 DEF TablesOK
    <2>4. /\ pipeline'[x].job /\ pipeline'[x].asset = pipeline[x].asset
          /\ pipeline'[x].variant = pipeline[x].variant
      <3> HIDE DEF x
      <3> QED BY <2>2, <2>3 DEF Pipelines
    <2> QED BY <1>1, <1>3, <2>1, <2>2, <2>4 DEF Publishes
  <1>5. CASE PipelineAsset(t)
    <2> DEFINE asset == IF row.manifest THEN "path" ELSE "bare"
    <2>1. row.kind = "publish" /\ row.at = 4 /\ x \in Exports
      BY <1>0, <1>5, Statements DEF PipelineAsset, Placed
    <2>2. /\ \A e \in Exports : e # x => pipeline'[e] = pipeline[e]
          /\ pipeline'[x] = [pipeline[x] EXCEPT !.asset = asset]
      BY <1>0, <1>5, <2>1 DEF PipelineAsset, TablesOK
    <2>3. pipeline[x] \in Pipelines
      BY <1>0, <2>1 DEF TablesOK
    <2>4. /\ pipeline'[x].job = pipeline[x].job /\ pipeline'[x].asset = asset
          /\ pipeline'[x].variant = pipeline[x].variant
      <3> HIDE DEF x, asset
      <3> QED BY <2>2, <2>3 DEF Pipelines
    <2> QED BY <1>1, <1>3, <2>1, <2>2, <2>4 DEF Publishes
  <1>6. CASE PipelineVariant(t)
    <2> DEFINE variant == pipeline[x].variant \/ row.manifest
    <2>1. row.kind = "publish" /\ row.at = 5 /\ x \in Exports
      BY <1>0, <1>6, Statements DEF PipelineVariant, Placed
    <2>2. /\ \A e \in Exports : e # x => pipeline'[e] = pipeline[e]
          /\ pipeline'[x] = [pipeline[x] EXCEPT !.variant = variant]
      BY <1>0, <1>6, <2>1 DEF PipelineVariant, TablesOK
    <2>3. pipeline[x] \in Pipelines
      BY <1>0, <2>1 DEF TablesOK
    <2>4. /\ pipeline'[x].job = pipeline[x].job /\ pipeline'[x].asset = pipeline[x].asset
          /\ pipeline'[x].variant = variant
      <3> HIDE DEF x, variant
      <3> QED BY <2>2, <2>3 DEF Pipelines
    <2>5. /\ pipeline[x].variant => pipeline'[x].variant
          /\ row.manifest => pipeline'[x].variant
      BY <2>4
    <2>6. /\ pipeline'[x].job = pipeline[x].job /\ pipeline'[x].asset = pipeline[x].asset
      BY <2>4
    <2> HIDE DEF variant
    <2> QED BY <1>1, <1>3, <2>1, <2>2, <2>5, <2>6 DEF Publishes
  <1>7. CASE ~PipelineJob(t) /\ ~PipelineAsset(t) /\ ~PipelineVariant(t)
    <2>1. pipeline' = pipeline
      BY <1>7 DEF Write, Delete, CutShort, Refused, FirstTimeline, InsertJob,
         InsertExport, ReadSource, Complete, Ready, WriteExport, WritePublished, ReadJob,
         InsertLink, InsertReview, DeleteLinks, DeleteReviews, DeleteExport, DeleteJob, Empty
    <2>2. row.kind = "publish" /\ row.at > 2 => CutShort(t)
      BY <1>0, <1>7, Statements DEF Write, Delete, Refused, Breaks, FirstTimeline,
         InsertJob, InsertExport, ReadSource, Complete, Ready, WriteExport, WritePublished,
         ReadJob, InsertLink, InsertReview, DeleteLinks, DeleteReviews, DeleteExport,
         DeleteJob, Empty
    <2> QED BY <1>0, <1>1, <1>3, <2>1, <2>2
  <1> QED BY <1>4, <1>5, <1>6, <1>7

LEMMA PlayableParts ==
  ASSUME NEW made \in Pipelines
  PROVE  Playable(made) <=> made.job /\ made.asset = "path" /\ made.variant
  <1>1. made.job \in BOOLEAN /\ made.variant \in BOOLEAN
    BY DEF Pipelines
  <1>2. ASSUME Playable(made)
        PROVE  made.job = TRUE /\ made.asset = "path" /\ made.variant = TRUE
    BY <1>2 DEF Playable
  <1>3. ASSUME made.job = TRUE, made.asset = "path", made.variant = TRUE
        PROVE  Playable(made)
    BY <1>3 DEF Playable, Pipelines
  <1> QED BY <1>1, <1>2, <1>3

\* What can be played, or will be, stays so unless a publish is cut short.
LEMMA PromiseKept ==
  ASSUME IInv, Fresh, Owned, NEW t \in Requests, Write(t) \/ Delete(t) \/ CutShort(t),
         NEW e \in Exports, Promised(e), export[e] \notin Gone, e \notin unsure'
  PROVE  Promised(e)'
  <1> DEFINE row == task[t]
  <1>0. /\ row \in TaskState /\ row.at \in 1 .. 14 /\ TablesOK /\ Linked
    BY Working
  <1>1. \A u \in Requests : u # t => task'[u] = task[u]
    BY Moves
  <1>2. package'[e] /\ pipeline'[e] \in Pipelines /\ pipeline[e] \in Pipelines
    BY <1>0, Pipes DEF Promised, TablesOK
  <1>3. Idle.kind # "publish"
    BY IdleType
  <1>4. CASE ~Publishes(row, e)
    <2>1. pipeline'[e] = pipeline[e]
      BY <1>4, Pipes
    <2>2. ~Publishes(task'[t], e)
      BY <1>3, <1>4, Proceeds DEF Publishes
    <2>3. Informed(e)' /\ (UnderWay(e) => UnderWay(e)')
      BY <1>1, <1>4, <2>1, <2>2 DEF Promised, Informed, UnderWay
    <2> QED BY <1>2, <2>1, <2>3 DEF Promised
  <1>5. CASE Publishes(row, e)
    <2>1. row.kind = "publish" /\ row.export = e
      BY <1>5 DEF Publishes
    <2>2. row.at > 2 => row.manifest
      BY <1>5 DEF Promised, Informed
    <2>3. \/ task'[t] = Idle
          \/ /\ task'[t].at = row.at + 1 /\ task'[t].export = e
             /\ row.at = 2 => task'[t].manifest = package[e]
             /\ row.at # 2 => task'[t].manifest = row.manifest
      BY <2>1, Proceeds
    <2>4. Informed(e)'
      <3>1. Publishes(task'[t], e) /\ task'[t].at > 2 => task'[t].manifest
        <4>1. SUFFICES ASSUME Publishes(task'[t], e), task'[t].at > 2
                       PROVE  task'[t].manifest
          OBVIOUS
        <4>2. task'[t] # Idle
          BY <1>3, <4>1 DEF Publishes
        <4>3. row.at = 2 \/ (row.at > 2 /\ row.at # 2)
          BY <1>0, <2>3, <4>1, <4>2
        <4> QED BY <2>2, <2>3, <4>2, <4>3 DEF Promised
      <3> QED BY <1>1, <3>1 DEF Promised, Informed
    <2>5. /\ pipeline[e].job => pipeline'[e].job
          /\ pipeline[e].asset = "path" => pipeline'[e].asset = "path"
          /\ pipeline[e].variant => pipeline'[e].variant
          /\ row.at = 3 => pipeline'[e].job \/ CutShort(t)
          /\ row.at = 4 => pipeline'[e].asset = "path" \/ CutShort(t)
          /\ row.at = 5 => pipeline'[e].variant \/ CutShort(t)
      BY <1>0, <2>1, <2>2, Pipes
    <2>6. Playable(pipeline[e]) => Playable(pipeline'[e])
      BY <1>2, <2>5, PlayableParts
    <2>7. ASSUME NEW u \in Requests, Publishes(task[u], e), task[u].at > 1,
                 Behind(task[u], pipeline[e])
          PROVE  Playable(pipeline'[e]) \/ UnderWay(e)'
      <3>1. CASE u # t
        <4>1. Behind(task'[u], pipeline'[e])
          BY <1>1, <2>5, <2>7, <3>1 DEF Behind
        <4> QED BY <1>1, <2>7, <3>1, <4>1 DEF UnderWay
      <3>2. CASE u = t /\ CutShort(t)
        <4>1. e \in unsure'
          BY <2>1, <2>7, <3>2 DEF CutShort
        <4> QED BY <4>1
      <3>3. CASE u = t /\ ~CutShort(t) /\ task'[t] # Idle
        <4>1. task'[t].kind = "publish"
          BY <2>1, <3>3, Proceeds
        <4>2. Behind(task'[t], pipeline'[e])
          BY <1>0, <2>3, <2>5, <2>7, <3>3 DEF Behind
        <4>3. task'[t].at > 1 /\ task'[t].export = e
          BY <1>0, <2>3, <3>3
        <4> QED BY <4>1, <4>2, <4>3 DEF UnderWay, Publishes
      <3>4. CASE u = t /\ ~CutShort(t) /\ task'[t] = Idle
        <4>1. \/ PipelineVariant(t)
              \/ export[e] \in Gone \/ project \in Gone \/ job[e] \in Gone
          BY <2>1, <3>4, PublishEnds
        <4>2. project \notin Gone /\ job[e] \notin Gone
          BY <1>0 DEF Owned, Linked
        <4>3. row.at = 5
          BY <1>0, <4>1, <4>2, Working, Statements DEF PipelineVariant
        <4>4. pipeline[e].job /\ pipeline[e].asset = "path"
          BY <2>7, <3>4, <4>3 DEF Behind
        <4>5. pipeline'[e].job /\ pipeline'[e].asset = "path" /\ pipeline'[e].variant
          BY <2>5, <3>4, <4>3, <4>4
        <4> QED BY <1>2, <4>5, PlayableParts
      <3> QED BY <3>1, <3>2, <3>3, <3>4
    <2> QED BY <1>2, <2>4, <2>6, <2>7 DEF Promised, UnderWay
  <1> QED BY <1>4, <1>5

\* An export is published with a publish under way that will find its package.
LEMMA NewlyPromised ==
  ASSUME IInv, NEW t \in Requests, WritePublished(t),
         NEW e \in Exports, e = task[t].export,
         export[e] = "ready", e \notin forced, ~Belated(t, e)
  PROVE  Promised(e)'
  <1> DEFINE row == task[t]
  <1>0. /\ row \in TaskState /\ row.kind \in Kinds /\ row.at \in 1 .. 14
        /\ Placed(row) /\ TasksOK /\ ReadyIsRendered
    BY Working
  <1>1. row.kind = "publish" /\ row.at = 1 /\ row.export \in Exports
    BY <1>0, Statements DEF WritePublished, Placed
  <1>2. Write(t)
    BY DEF Write
  <1>4. package'[e]
    <2>1. package[e] /\ package' = package
      BY <1>0, <1>1 DEF ReadyIsRendered, WritePublished
    <2> QED BY <2>1
  <1>5. task'[t] # Idle
    <2>1. Goes(t) /\ row.at < 5
      BY <1>1 DEF WritePublished
    <2> QED BY <1>1, <2>1, NotLast
  <1>6. task'[t].kind = "publish" /\ task'[t].at = 2 /\ task'[t].export = e
    BY <1>1, <1>2, <1>5, Proceeds
  <1>7. \A u \in Requests : u # t => task'[u] = task[u]
    BY <1>2, Moves
  <1>8. Informed(e)'
    <2>1. ASSUME NEW u \in Requests, Publishes(task'[u], e), task'[u].at > 2
          PROVE  task'[u].manifest
      <3>1. u # t
        BY <1>6, <2>1
      <3>2. task'[u] = task[u] /\ u \in Requests \ {t}
        BY <1>7, <3>1
      <3> QED BY <2>1, <3>2 DEF Belated, Publishes
    <2> QED BY <2>1 DEF Informed
  <1>9. UnderWay(e)'
    BY <1>6 DEF UnderWay, Publishes, Behind
  <1> QED BY <1>4, <1>8, <1>9 DEF Promised

\* A project goes after its exports, and gets none once it is gone.
LEMMA StaysOwned ==
  ASSUME IInv, Owned, NEW t \in Requests, Write(t) \/ Delete(t) \/ CutShort(t)
  PROVE  Owned'
  <1>0. TablesOK
    BY Working
  <1>1. CASE Empty(t)
    <2> DEFINE table == RemoveScript[task[t].at]
    <2>1. /\ MayEmpty(table) /\ project' = (IF table = "projects" THEN "gone" ELSE project)
          /\ export' = IF table = "exports" THEN Cleared(export) ELSE export
      BY <1>1 DEF Empty, Breaks
    <2>2. table = "projects" => ~Has("exports")
      <3>1. "exports" \in Tables /\ "projects" \in References["exports"]
        BY DEF Tables, References
      <3> HIDE DEF table
      <3> QED BY <2>1, <3>1 DEF MayEmpty
    <2> HIDE DEF table
    <2>3. table = "projects" => Owned'
      BY <2>1, <2>2 DEF Owned, Has
    <2>4. table # "projects" => Owned'
      BY <2>1 DEF Owned, Cleared, Gone
    <2> QED BY <2>3, <2>4
  <1>2. CASE ~Empty(t)
    <2>1. project' = project
      BY <1>2 DEF Write, Delete, CutShort, Refused, FirstTimeline, InsertJob,
         InsertExport, ReadSource, Complete, Ready, WriteExport, WritePublished, ReadJob,
         PipelineJob, PipelineAsset, PipelineVariant, InsertLink, InsertReview,
         DeleteLinks, DeleteReviews, DeleteExport, DeleteJob
    <2>2. CASE InsertExport(t)
      <3>1. project \notin Gone
        BY <2>2 DEF InsertExport, Breaks
      <3> QED BY <2>1, <3>1 DEF Owned
    <2>3. CASE Ready(t) \/ WriteExport(t) \/ WritePublished(t) \/ DeleteExport(t)
      <3>1. \A e \in Exports : export[e] \in Gone => export'[e] \in Gone
        BY <1>0, <2>3 DEF TablesOK, Ready, WriteExport, WritePublished, DeleteExport,
           Update, Gone
      <3> QED BY <2>1, <3>1 DEF Owned
    <2>4. CASE ~InsertExport(t) /\ ~Ready(t) /\ ~WriteExport(t) /\ ~WritePublished(t)
               /\ ~DeleteExport(t)
      <3>1. export' = export
        BY <1>2, <2>4 DEF Write, Delete, CutShort, Refused, FirstTimeline, InsertJob,
           ReadSource, Complete, ReadJob, PipelineJob, PipelineAsset, PipelineVariant,
           InsertLink, InsertReview, DeleteLinks, DeleteReviews, DeleteJob, renders
      <3> QED BY <2>1, <3>1 DEF Owned
    <2> QED BY <2>2, <2>3, <2>4
  <1> QED BY <1>1, <1>2

\* What is published had been, or a patch was about to write it back, or a
\* publish has just set it.
LEMMA ShownBefore ==
  ASSUME IInv, Fresh, NEW t \in Requests, Write(t) \/ Delete(t) \/ CutShort(t),
         NEW e \in Exports, Shown(e)', export'[e] \notin Gone,
         e \notin forced', e \notin unsure'
  PROVE  /\ export[e] \notin Gone /\ e \notin forced
         /\ \/ Shown(e) /\ e \notin unsure
            \/ /\ WritePublished(t) /\ task[t].export = e
               /\ export[e] = "ready" /\ ~Belated(t, e)
  <1> DEFINE row == task[t]
  <1>0. /\ row \in TaskState /\ row.kind \in Kinds /\ row.at \in 1 .. 14
        /\ Placed(row) /\ TablesOK /\ TasksOK
    BY Working
  <1>1. \A u \in Requests : WritesBack(task'[u], e) => WritesBack(task[u], e)
    <2>1. \A u \in Requests : u # t => task'[u] = task[u]
      BY Moves
    <2>2. ~WritesBack(task'[t], e)
      BY IdleType, Proceeds DEF WritesBack
    <2> QED BY <2>1, <2>2
  <1>2. \A u \in Requests : WritesBack(task[u], e) => export[e] # "none"
    BY Working DEF Kept, WritesBack
  <1>3. CASE InsertExport(t)
    <2>1. /\ row.export \in Exports /\ export[row.export] = "none"
      BY <1>0, <1>3, Statements DEF InsertExport, Placed, Fresh, Opening
    <2>2. export' = [export EXCEPT ![row.export] = "open"] /\ UNCHANGED <<forced, unsure>>
      BY <1>3 DEF InsertExport, history
    <2>3. e # row.export
      BY <1>0, <1>1, <1>2, <2>1, <2>2 DEF Shown, TablesOK
    <2>4. export'[e] = export[e]
      BY <1>0, <2>2, <2>3 DEF TablesOK
    <2> QED BY <1>1, <2>2, <2>4 DEF Shown
  <1>4. CASE WriteExport(t)
    <2>1. row.kind = "patch" /\ row.export \in Exports
      BY <1>0, <1>4, Statements DEF WriteExport, Placed
    <2>2. /\ Update(t, row.export, row.status) /\ unsure' = unsure
          /\ forced' = IF row.given /\ export[row.export] \notin Gone
                       THEN forced \cup {row.export} ELSE forced
      BY <1>4 DEF WriteExport
    <2>3. /\ export[e] \in Gone => export'[e] = export[e]
          /\ export'[e] # export[e] => e = row.export /\ export'[e] = row.status
      BY <1>0, <2>1, <2>2 DEF Update, TablesOK
    <2>4. export[e] \notin Gone /\ e \notin forced /\ e \notin unsure
      BY <2>2, <2>3
    <2>5. export'[e] = "published" => export[e] = "published" \/ WritesBack(row, e)
      <3>1. e = row.export => ~row.given
        BY <2>2, <2>4
      <3> QED BY <2>1, <2>3, <3>1 DEF WritesBack
    <2>6. Shown(e)
      BY <1>1, <2>5 DEF Shown
    <2> QED BY <2>4, <2>6
  <1>5. CASE WritePublished(t)
    <2>1. row.kind = "publish" /\ row.export \in Exports
      BY <1>0, <1>5, Statements DEF WritePublished, Placed
    <2>2. CASE row.export = e /\ export[e] = "ready"
      <3>1. /\ unsure' = (IF Belated(t, e) THEN unsure \cup {e} ELSE unsure \ {e})
            /\ forced' = forced
        BY <1>5, <2>2 DEF WritePublished
      <3>2. ~Belated(t, e)
        BY <3>1
      <3> QED BY <1>5, <2>2, <3>1, <3>2 DEF Gone
    <2>3. CASE ~(row.export = e /\ export[e] = "ready")
      <3>1. export'[e] = export[e] /\ (e \in unsure' <=> e \in unsure) /\ forced' = forced
        <4>1. CASE export[row.export] = "ready"
          <5>1. e # row.export
            BY <2>3, <4>1
          <5>2. /\ export' = [export EXCEPT ![row.export] = "published"]
                /\ unsure' \in {unsure \cup {row.export}, unsure \ {row.export}}
                /\ forced' = forced
            BY <1>5, <4>1 DEF WritePublished
          <5> QED BY <1>0, <5>1, <5>2 DEF TablesOK
        <4>2. CASE export[row.export] # "ready"
          BY <1>5, <4>2 DEF WritePublished
        <4> QED BY <4>1, <4>2
      <3> QED BY <1>1, <3>1 DEF Shown
    <2> QED BY <2>2, <2>3
  <1>6. CASE Ready(t)
    <2>1. Update(t, row.export, "ready") /\ UNCHANGED <<forced, unsure>>
      BY <1>6 DEF Ready, history
    <2>2. /\ export[e] \in Gone => export'[e] = export[e]
          /\ export'[e] = "published" => export[e] = "published"
      BY <1>0, <2>1 DEF Update, TablesOK
    <2> QED BY <1>1, <2>1, <2>2 DEF Shown
  <1>7. CASE DeleteExport(t) \/ Empty(t)
    <2>1. UNCHANGED <<forced, unsure>>
      BY <1>7 DEF DeleteExport, Empty, history
    <2>2. export'[e] = export[e]
      BY <1>0, <1>7 DEF DeleteExport, Empty, Cleared, Gone, TablesOK
    <2> QED BY <1>1, <2>1, <2>2 DEF Shown
  <1>8. CASE \/ Refused(t) \/ FirstTimeline(t) \/ InsertJob(t) \/ ReadSource(t)
             \/ Complete(t) \/ ReadJob(t) \/ PipelineJob(t) \/ PipelineAsset(t)
             \/ PipelineVariant(t) \/ InsertLink(t) \/ InsertReview(t)
             \/ DeleteLinks(t) \/ DeleteReviews(t) \/ DeleteJob(t) \/ CutShort(t)
    <2>1. export' = export /\ forced' = forced /\ unsure \subseteq unsure'
      BY <1>8 DEF Refused, FirstTimeline, InsertJob, ReadSource, Complete, ReadJob,
         PipelineJob, PipelineAsset, PipelineVariant, InsertLink, InsertReview,
         DeleteLinks, DeleteReviews, DeleteJob, CutShort, renders, history
    <2> QED BY <1>1, <2>1 DEF Shown
  <1> QED BY <1>3, <1>4, <1>5, <1>6, <1>7, <1>8 DEF Write, Delete

LEMMA WritesPlayable ==
  ASSUME IInv, Fresh, PInv, NEW t \in Requests, Write(t) \/ Delete(t) \/ CutShort(t)
  PROVE  PInv'
  <1>1. Owned'
    BY StaysOwned DEF PInv
  <1>2. ASSUME NEW e \in Exports, Shown(e)', export'[e] \notin Gone,
               e \notin forced', e \notin unsure'
        PROVE  Promised(e)'
    <2>1. /\ export[e] \notin Gone /\ e \notin forced
          /\ \/ Shown(e) /\ e \notin unsure
             \/ /\ WritePublished(t) /\ task[t].export = e
                /\ export[e] = "ready" /\ ~Belated(t, e)
      BY <1>2, ShownBefore
    <2>2. CASE Shown(e) /\ e \notin unsure
      <3>1. Promised(e)
        BY <2>1, <2>2 DEF PInv
      <3> QED BY <1>2, <2>1, <3>1, PromiseKept DEF PInv
    <2>3. CASE WritePublished(t) /\ task[t].export = e
               /\ export[e] = "ready" /\ ~Belated(t, e)
      BY <2>1, <2>3, NewlyPromised
    <2> QED BY <2>1, <2>2, <2>3
  <1> QED BY <1>1, <1>2 DEF PInv

\* Nothing but being alone changes for the requests something happens beside.
Agree(row, new) ==
  /\ new.kind = row.kind /\ new.at = row.at /\ new.export = row.export
  /\ new.manifest = row.manifest /\ new.status = row.status /\ new.given = row.given

LEMMA BesideAgrees ==
  ASSUME IInv, NEW u \in Requests
  PROVE  Agree(task[u], Beside(task)[u])
  <1> DEFINE row == task[u]
  <1>1. row \in TaskState
    BY Working
  <1>2. Beside(task)[u] = [row EXCEPT !.alone = FALSE]
    BY DEF Beside
  <1>3. Agree(row, Beside(task)[u])
    <2> HIDE DEF row
    <2> QED BY <1>1, <1>2 DEF TaskState, Agree
  <1> QED BY <1>3

\* A publish begins at its first statement, a patch with what it has read.
LEMMA StaysPlayable ==
  ASSUME IInv, PInv, UNCHANGED <<package, export, pipeline, forced, unsure>>, Owned',
         NEW beginners \in SUBSET Requests,
         \A u \in Requests \ beginners : Agree(task[u], task'[u]),
         \A t \in beginners : /\ task[t].kind = "none"
                              /\ task'[t].kind = "publish" => task'[t].at = 1
                              /\ \A e \in Exports : WritesBack(task'[t], e) =>
                                                      export[e] = "published"
  PROVE  PInv'
  <1>1. ASSUME NEW e \in Exports, Shown(e)'
        PROVE  Shown(e)
    <2>1. CASE export'[e] = "published"
      BY <2>1 DEF Shown
    <2>2. ASSUME NEW u \in Requests, WritesBack(task'[u], e)
          PROVE  Shown(e)
      <3>1. CASE u \in beginners
        BY <2>2, <3>1 DEF Shown
      <3>2. CASE u \notin beginners
        <4>1. WritesBack(task[u], e)
          BY <2>2, <3>2 DEF Agree, WritesBack
        <4> QED BY <4>1 DEF Shown
      <3> QED BY <3>1, <3>2
    <2> QED BY <1>1, <2>1, <2>2 DEF Shown
  <1>2. ASSUME NEW e \in Exports, Promised(e)
        PROVE  Promised(e)'
    <2>1. Informed(e)'
      <3>1. ASSUME NEW u \in Requests, Publishes(task'[u], e), task'[u].at > 2
            PROVE  task'[u].manifest
        <4>1. u \notin beginners
          BY <3>1 DEF Publishes
        <4> QED BY <1>2, <3>1, <4>1 DEF Agree, Publishes, Promised, Informed
      <3> QED BY <3>1 DEF Informed
    <2>2. UnderWay(e) => UnderWay(e)'
      <3>1. ASSUME NEW u \in Requests, Publishes(task[u], e), task[u].at > 1,
                   Behind(task[u], pipeline[e])
            PROVE  UnderWay(e)'
        <4>1. u \notin beginners
          BY <3>1 DEF Publishes
        <4> QED BY <3>1, <4>1 DEF Agree, Publishes, UnderWay, Behind
      <3> QED BY <3>1 DEF UnderWay
    <2> QED BY <1>2, <2>1, <2>2 DEF Promised
  <1> QED BY <1>1, <1>2 DEF PInv

LEMMA AdmitsPlayable ==
  ASSUME IInv, PInv, UNCHANGED <<package, export, pipeline, forced, unsure>>, Owned',
         NEW t \in Requests, NEW row \in TaskState, Admit(t, row),
         row.kind = "publish" => row.at = 1,
         \A e \in Exports : WritesBack(row, e) => export[e] = "published"
  PROVE  PInv'
  <1> DEFINE flag == \A u \in Requests : task[u].kind = "none"
  <1>1. task' = [Beside(task) EXCEPT ![t] = [row EXCEPT !.alone = flag]]
    BY DEF Admit
  <1> HIDE DEF flag
  <1>2. task'[t] = [row EXCEPT !.alone = flag]
    BY <1>1 DEF Beside
  <1>3. Agree(row, task'[t])
    BY <1>2 DEF TaskState, Agree
  <1>4. \A u \in Requests : u # t => Agree(task[u], task'[u])
    BY <1>1, BesideAgrees DEF Beside
  <1>5. task[t].kind = "none"
    BY DEF Admit
  <1>6. /\ task'[t].kind = "publish" => task'[t].at = 1
        /\ \A e \in Exports : WritesBack(task'[t], e) => export[e] = "published"
    BY <1>3 DEF Agree, WritesBack
  <1> DEFINE beginners == {t}
  <1>7. beginners \in SUBSET Requests /\ \A u \in beginners : u = t
    OBVIOUS
  <1>8. \A u \in Requests \ beginners : u # t
    OBVIOUS
  <1> HIDE DEF beginners
  <1> QED BY <1>4, <1>5, <1>6, <1>7, <1>8, StaysPlayable

LEMMA EditsPlayable ==
  ASSUME IInv, PInv, Edit, UNCHANGED <<project, package, export, pipeline, forced, unsure>>
  PROVE  PInv'
  <1>1. \A u \in Requests : Agree(task[u], task'[u])
    BY BesideAgrees DEF Edit
  <1>2. Owned'
    BY DEF PInv, Owned
  <1> DEFINE beginners == {}
  <1>3. beginners \in SUBSET Requests /\ \A u \in Requests : u \notin beginners
    OBVIOUS
  <1> HIDE DEF beginners
  <1> QED BY <1>1, <1>2, <1>3, StaysPlayable

LEMMA BeginsPlayable ==
  ASSUME IInv, PInv, NEW t \in Requests, Begin(t)
  PROVE  PInv'
  <1>1. UNCHANGED <<package, export, pipeline, forced, unsure>>
    BY DEF Begin, Create, Render, Remove, Publish, Submit, Patch, RemoveExport,
           RemoveJob, Asks, renders, history
  <1>2. Owned'
    BY <1>1 DEF Begin, Create, Render, Remove, Publish, Submit, Patch, RemoveExport,
           RemoveJob, Asks, PInv, Owned, Gone
  <1>3. ASSUME NEW row \in TaskState, row.kind # "patch", Admit(t, row),
               row.kind = "publish" => row.at = 1
        PROVE  PInv'
    BY <1>1, <1>2, <1>3, AdmitsPlayable DEF WritesBack
  <1>4. CASE Create(t)
    <2> DEFINE row == [Idle EXCEPT !.kind = "create"]
    <2>1. row \in TaskState /\ row.kind = "create" /\ Admit(t, row)
      BY <1>4, IdleType DEF TaskState, Kinds, Create
    <2> HIDE DEF row
    <2> QED BY <1>3, <2>1
  <1>5. CASE Render(t)
    <2> DEFINE version == "versions" \in rows
               row == [Idle EXCEPT !.kind = "render", !.version = version]
    <2>1. Admit(t, row) /\ version \in BOOLEAN
      BY <1>5 DEF Render
    <2> HIDE DEF version
    <2>2. row \in TaskState /\ row.kind = "render"
      BY <2>1, IdleType DEF TaskState, Kinds
    <2> HIDE DEF row
    <2> QED BY <1>3, <2>1, <2>2
  <1>6. ASSUME NEW kind \in {"publish", "remove_export", "remove"},
               NEW e \in Exports \cup {"none"}, Asks(t, kind, e)
        PROVE  PInv'
    <2> DEFINE row == [Idle EXCEPT !.kind = kind, !.export = e]
    <2>1. kind \in Kinds
      BY DEF Kinds
    <2>2. row \in TaskState /\ row.kind = kind /\ row.at = 1
      BY <2>1, Asked
    <2>3. Admit(t, row)
      BY <1>6 DEF Asks
    <2> HIDE DEF row
    <2> QED BY <1>3, <2>2, <2>3
  <1>7. ASSUME NEW e \in Exports, Submit(t, e)
        PROVE  PInv'
    <2> DEFINE version == e \in versioned
               row == [Idle EXCEPT !.kind = "submit", !.export = e, !.version = version]
    <2>1. Admit(t, row) /\ version \in BOOLEAN
      BY <1>7 DEF Submit
    <2> HIDE DEF version
    <2>2. row \in TaskState /\ row.kind = "submit"
      BY <2>1, IdleType DEF TaskState, Kinds
    <2> HIDE DEF row
    <2> QED BY <1>3, <2>1, <2>2
  <1>8. ASSUME NEW e \in Exports, RemoveJob(t, e)
        PROVE  PInv'
    <2> DEFINE at == IF export[e] \in Gone THEN 4 ELSE 1
               row == [Idle EXCEPT !.kind = "remove_job", !.export = e, !.at = at]
    <2>1. Admit(t, row) /\ at \in 1 .. 14
      BY <1>8 DEF RemoveJob
    <2> HIDE DEF at
    <2>2. row \in TaskState /\ row.kind = "remove_job"
      BY <2>1, IdleType DEF TaskState, Kinds
    <2> HIDE DEF row
    <2> QED BY <1>3, <2>1, <2>2
  <1>9. ASSUME NEW e \in Exports, Patch(t, e)
        PROVE  PInv'
    <2>1. PICK given \in BOOLEAN, status \in Outcomes \ Gone :
            /\ given \/ status = export[e]
            /\ Admit(t, [Idle EXCEPT !.kind = "patch", !.export = e,
                                     !.status = status, !.given = given])
      BY <1>9 DEF Patch
    <2> DEFINE row == [Idle EXCEPT !.kind = "patch", !.export = e,
                                   !.status = status, !.given = given]
    <2>2. /\ row \in TaskState /\ row.kind = "patch" /\ row.export = e
          /\ row.status = status /\ row.given = given
      BY IdleType DEF TaskState, Kinds
    <2>3. Admit(t, row)
      BY <2>1
    <2> HIDE DEF row
    <2>4. \A x \in Exports : WritesBack(row, x) => export[x] = "published"
      BY <2>1, <2>2 DEF WritesBack
    <2> QED BY <1>1, <1>2, <2>2, <2>3, <2>4, AdmitsPlayable
  <1>10. CASE Remove(t)
    BY <1>6, <1>10 DEF Remove
  <1>11. ASSUME NEW e \in Exports, Publish(t, e) \/ RemoveExport(t, e)
         PROVE  PInv'
    BY <1>6, <1>11 DEF Publish, RemoveExport
  <1> QED BY <1>4, <1>5, <1>7, <1>8, <1>9, <1>10, <1>11 DEF Begin

\* What is published can be played once no publish of it is at work, however
\* publishes, renders, patches, deletions and losses of requests interleave, but
\* for the exports whose status was given or whose last publishing was cut short
\* or went on beside a publish that had read no package.
THEOREM Playing == Spec => []PublishedIsPlayable
  <1>1. Init => PInv
    <2> SUFFICES ASSUME Init PROVE PInv
      OBVIOUS
    <2>1. \A e \in Exports : export[e] \in Gone
      BY DEF Init, Gone
    <2> QED BY <2>1 DEF PInv, Owned
  <1>2. IInv /\ Fresh /\ PInv /\ [Next]_vars => PInv'
    <2> SUFFICES ASSUME IInv, Fresh, PInv, [Next]_vars PROVE PInv'
      OBVIOUS
    <2>1. ASSUME NEW t \in Requests, Begin(t)
          PROVE  PInv'
      BY <2>1, BeginsPlayable
    <2>2. ASSUME NEW t \in Requests, Write(t) \/ Delete(t) \/ CutShort(t)
          PROVE  PInv'
      BY <2>2, WritesPlayable
    <2>3. CASE \/ \E table \in Filled : AddRow(table) \/ DropRow(table)
               \/ AskReview \/ DropReview
               \/ \E e \in Exports : AddLink(e) \/ DropLink(e) \/ Cancel(e)
      <3>1. Edit /\ UNCHANGED <<project, package, export, pipeline, forced, unsure>>
        BY <2>3 DEF AddRow, DropRow, AskReview, DropReview, AddLink, DropLink, Cancel,
           renders, history
      <3> QED BY <3>1, EditsPlayable
    <2>4. CASE UNCHANGED vars
      BY <2>4 DEF vars, renders, children, history, PInv, Owned, Shown, Promised,
         Informed, UnderWay
    <2> QED BY <2>1, <2>2, <2>3, <2>4 DEF Next
  <1>3. IInv /\ PInv => PublishedIsPlayable
    <2> SUFFICES ASSUME IInv, PInv, NEW e \in Exports, export[e] = "published",
                        e \notin forced, e \notin unsure,
                        \A t \in Requests : task[t].kind = "publish" => task[t].export # e
                 PROVE  pipeline[e] = [job |-> TRUE, asset |-> "path", variant |-> TRUE]
      BY DEF PublishedIsPlayable
    <2>1. Promised(e)
      BY DEF PInv, Shown, Gone
    <2>2. ~UnderWay(e)
      BY DEF UnderWay, Publishes
    <2> QED BY <2>1, <2>2 DEF Promised, Playable
  <1> QED BY <1>1, <1>2, <1>3, Starts, Steps, PTL DEF Spec
=============================================================================
