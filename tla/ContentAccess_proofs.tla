-------------------------- MODULE ContentAccess_proofs --------------------------
(***************************************************************************)
(* Theorems about ContentAccess, for any number of requests, sessions and  *)
(* purchases: its types, that a file is served with access only, that a    *)
(* takedown holds, that buyers are kept, and that an upload and its asset  *)
(* agree once a writer has run alone.                                      *)
(***************************************************************************)
EXTENDS ContentAccess, SequenceTheorems, TLAPS

CreatorKinds == {"publish", "patch", "unpublish", "takedown", "archive", "public", "delete"}

\* Whose request may be of which kind.
Kinded(t, row) ==
  /\ row.kind \in CreatorKinds => t \in Creators
  /\ row.kind = "release" => t \in Releasers
  /\ row.kind \in {"play", "buy", "media"} => t \in Viewers
  /\ row.kind = "sweep" => t \in Sessions
\* A request in progress has a statement left to make.
Placed(row) == row.kind # "none" => row.at <= Len(Script[row.kind])
\* Which requests may have begun on a taken-down upload, and what a takedown writes.
Withdrawing(row) ==
  /\ row.kind \in {"patch", "unpublish", "archive", "public"} => ~row.down
  /\ row.kind = "takedown" => row.row.status = "taken_down"
\* What a request for a file has been through.
Cleared(row) == row.kind = "media" => /\ row.at > 1 => row.open
                                      /\ row.at > 3 => row.entitled
\* Deletion looked for purchases: those there are were made since.
Owed(p) == purchase[p] \in {"active", "lapsed"}
Looked(row) == row.kind = "delete" /\ row.at > 1 =>
                 \A p \in Purchases : Owed(p) => p \in row.unseen

RowsOK ==
  /\ upload \in Rows
  /\ asset \in {"ready"} \cup Statuses
  /\ job \in BOOLEAN
  /\ purchase \in [Purchases -> {"none", "active", "lapsed", "expired"}]
  /\ session \in [Sessions -> {"none", "active", "expired"}]
  /\ crossed \in BOOLEAN
TasksOK ==
  /\ task \in [Tasks -> TaskState]
  /\ \A t \in Tasks : /\ Kinded(t, task[t]) /\ Placed(task[t]) /\ Withdrawing(task[t])
                      /\ Cleared(task[t]) /\ Looked(task[t])
IInv == RowsOK /\ TasksOK

-----------------------------------------------------------------------------
LEMMA IdleType == Idle \in TaskState /\ NoRow \in Rows
  BY DEF Idle, NoRow, TaskState, Rows, Kinds, Columns, Statuses, Releases

LEMMA Lengths ==
  /\ \A kind \in Kinds : Len(Script[kind]) \in 0 .. 4
  /\ Len(Script["delete"]) = 4 /\ Len(Script["media"]) = 4
  BY DEF Script, Kinds

\* Where in its script a request makes each of its statements.
LEMMA Statements ==
  ASSUME NEW t, task[t].kind \in Kinds, task[t].at \in 1 .. 5
  PROVE  /\ At(t, "row") => task[t].kind \in CreatorKinds \ {"delete"}
         /\ At(t, "claim") => task[t].kind = "release"
         /\ At(t, "asset") => task[t].kind \in CreatorKinds \cup {"release"}
         /\ At(t, "expire") => task[t].kind \in CreatorKinds
         /\ At(t, "check") => task[t].kind = "delete" /\ task[t].at = 1
         /\ At(t, "gone") => task[t].kind = "delete" /\ task[t].at = 4
         /\ At(t, "read") => task[t].at = 1
         /\ At(t, "target") /\ task[t].kind = "media" => task[t].at = 2
         /\ At(t, "entitlement") => task[t].at = 3
         /\ At(t, "serve") => task[t].kind = "media" /\ task[t].at = 4
         /\ At(t, "grant") => task[t].kind = "play"
         /\ At(t, "current") \/ At(t, "insert") => task[t].kind = "buy"
  BY DEF At, Script, Kinds, CreatorKinds

\* What of a request its memory leaves as it is, and what it adds.
Alike(row, new) ==
  /\ new.kind = row.kind /\ new.at = row.at /\ new.row = row.row
  /\ new.down = row.down /\ new.unseen = row.unseen
  /\ new.columns = row.columns /\ new.alone = row.alone
Recalls(row, new) ==
  row.kind = "media" => /\ row.open \/ Open' => new.open
                        /\ row.entitled \/ Entitled' => new.entitled

With(row, open, entitled) == [row EXCEPT !.open = open, !.entitled = entitled]

LEMMA Flagged ==
  \A row \in TaskState, open \in BOOLEAN, entitled \in BOOLEAN :
    /\ With(row, open, entitled) \in TaskState
    /\ Alike(row, With(row, open, entitled))
    /\ With(row, open, entitled).open = open
    /\ With(row, open, entitled).entitled = entitled
  <1> TAKE row \in TaskState, open \in BOOLEAN, entitled \in BOOLEAN
  <1>1. ASSUME NEW new, new = With(row, open, entitled)
        PROVE  /\ new \in TaskState /\ Alike(row, new)
               /\ new.open = open /\ new.entitled = entitled
    BY <1>1 DEF TaskState, Alike, With
  <1> QED BY <1>1

LEMMA Remembered ==
  ASSUME NEW tasks \in [Tasks -> TaskState], Remember(tasks)
  PROVE  /\ task' \in [Tasks -> TaskState]
         /\ \A t \in Tasks : Alike(tasks[t], task'[t]) /\ Recalls(tasks[t], task'[t])
  <1>1. ASSUME NEW t \in Tasks
        PROVE  task'[t] \in TaskState /\ Alike(tasks[t], task'[t])
               /\ Recalls(tasks[t], task'[t])
    <2> DEFINE open == tasks[t].kind = "media" /\ (tasks[t].open \/ Open')
               entitled == tasks[t].kind = "media" /\ (tasks[t].entitled \/ Entitled')
    <2>1. task'[t] = With(tasks[t], open, entitled)
      BY DEF Remember, With
    <2>2. open \in BOOLEAN /\ entitled \in BOOLEAN
      OBVIOUS
    <2>3. tasks[t] \in TaskState
      OBVIOUS
    <2> HIDE DEF open, entitled
    <2>4. /\ task'[t] \in TaskState /\ Alike(tasks[t], task'[t])
          /\ task'[t].open = open /\ task'[t].entitled = entitled
      <3>1. /\ With(tasks[t], open, entitled) \in TaskState
            /\ Alike(tasks[t], With(tasks[t], open, entitled))
            /\ With(tasks[t], open, entitled).open = open
            /\ With(tasks[t], open, entitled).entitled = entitled
        BY <2>2, <2>3, Flagged
      <3> QED BY <2>1, <3>1
    <2>5. Recalls(tasks[t], task'[t])
      BY <2>4 DEF Recalls, open, entitled
    <2> QED BY <2>4, <2>5
  <1>2. task' = [t \in Tasks |-> task'[t]]
    BY DEF Remember
  <1> QED BY <1>1, <1>2

\* Each request keeps its promises, as long as what it is next said to be does.
Onward(t, row) ==
  /\ Kinded(t, row) /\ Placed(row) /\ Withdrawing(row)
  /\ row.kind = "media" => /\ row.at > 1 => row.open \/ Open'
                           /\ row.at > 3 => row.entitled \/ Entitled'
  /\ row.kind = "delete" /\ row.at > 1 =>
       \A p \in Purchases : Owed(p)' => p \in row.unseen

LEMMA Assemble ==
  ASSUME NEW tasks \in [Tasks -> TaskState], Remember(tasks), RowsOK',
         \A t \in Tasks : Onward(t, tasks[t])
  PROVE  IInv'
  <1>1. ASSUME NEW t \in Tasks
        PROVE  (/\ Kinded(t, task[t]) /\ Placed(task[t]) /\ Withdrawing(task[t])
                /\ Cleared(task[t]) /\ Looked(task[t]))'
    <2>1. Alike(tasks[t], task'[t]) /\ Recalls(tasks[t], task'[t])
      BY Remembered
    <2>2. Onward(t, tasks[t])
      OBVIOUS
    <2>3. (Kinded(t, task[t]) /\ Placed(task[t]) /\ Withdrawing(task[t]))'
      BY <2>1, <2>2 DEF Onward, Alike, Kinded, Placed, Withdrawing
    <2>4. Cleared(task[t])'
      BY <2>1, <2>2 DEF Onward, Alike, Recalls, Cleared
    <2>5. Looked(task[t])'
      BY <2>1, <2>2 DEF Onward, Alike, Looked, Owed
    <2> QED BY <2>3, <2>4, <2>5
  <1>2. task' \in [Tasks -> TaskState]
    BY Remembered
  <1>3. TasksOK'
    BY <1>1, <1>2 DEF TasksOK
  <1> QED BY <1>3 DEF IInv

\* The requests that take no part in a step.
LEMMA Bystander ==
  ASSUME IInv, NEW t \in Tasks, \A p \in Purchases : Owed(p)' => Owed(p)
  PROVE  Onward(t, task[t])
  <1>1. /\ Kinded(t, task[t]) /\ Placed(task[t]) /\ Withdrawing(task[t])
        /\ Cleared(task[t]) /\ Looked(task[t])
    BY DEF IInv, TasksOK
  <1> QED BY <1>1 DEF Onward, Cleared, Looked

LEMMA IdleNext == \A t : Onward(t, Idle)
  BY DEF Onward, Idle, Kinded, Placed, Withdrawing, CreatorKinds

\* A step of request t, which becomes `row'.
LEMMA Step ==
  ASSUME IInv, RowsOK', NEW t \in Tasks, NEW row \in TaskState, Onward(t, row),
         Remember([task EXCEPT ![t] = row]),
         \A p \in Purchases : Owed(p)' => Owed(p)
  PROVE  IInv'
  <1> DEFINE tasks == [task EXCEPT ![t] = row]
  <1>1. task \in [Tasks -> TaskState]
    BY DEF IInv, TasksOK
  <1>2. tasks \in [Tasks -> TaskState]
    BY <1>1
  <1>3. \A u \in Tasks : Onward(u, tasks[u])
    <2>1. ASSUME NEW u \in Tasks PROVE Onward(u, tasks[u])
      <3>1. CASE u = t
        BY <1>1, <3>1
      <3>2. CASE u # t
        <4>1. tasks[u] = task[u]
          BY <1>1, <3>2
        <4> QED BY <4>1, Bystander
      <3> QED BY <3>1, <3>2
    <2> QED BY <2>1
  <1>4. Remember(tasks)
    OBVIOUS
  <1> HIDE DEF tasks
  <1> QED BY <1>2, <1>3, <1>4, Assemble

\* A request that goes on: to its next statement, or it is over.
LEMMA OnwardsRow ==
  ASSUME IInv, NEW t \in Tasks, task[t].kind # "none"
  PROVE  /\ Onwards(task[t]) \in TaskState /\ Placed(Onwards(task[t]))
         /\ \/ Onwards(task[t]) = Idle
            \/ /\ Onwards(task[t]).kind = task[t].kind
               /\ Onwards(task[t]).at = task[t].at + 1
               /\ Onwards(task[t]).row = task[t].row
               /\ Onwards(task[t]).down = task[t].down
               /\ Onwards(task[t]).open = task[t].open
               /\ Onwards(task[t]).entitled = task[t].entitled
               /\ Onwards(task[t]).unseen = task[t].unseen
               /\ Onwards(task[t]).columns = task[t].columns
               /\ Onwards(task[t]).alone = task[t].alone
  <1> DEFINE row == task[t]
  <1>1. row \in TaskState /\ Placed(row)
    BY DEF IInv, TasksOK
  <1>2. row.kind \in Kinds /\ row.at \in 1 .. 5 /\ Len(Script[row.kind]) \in 0 .. 4
        /\ row.at <= Len(Script[row.kind])
    BY <1>1, Lengths DEF TaskState, Placed
  <1>3. CASE row.at = Len(Script[row.kind])
    BY <1>3, IdleType, IdleNext DEF Onwards, Onward
  <1>4. CASE row.at # Len(Script[row.kind])
    <2>1. row.at + 1 \in 1 .. 5 /\ row.at + 1 <= Len(Script[row.kind])
      <3> DEFINE len == Len(Script[row.kind])
      <3>1. row.at \in 1 .. 5 /\ len \in 0 .. 4 /\ row.at <= len /\ row.at # len
        BY <1>2, <1>4
      <3> HIDE DEF len
      <3>2. row.at + 1 \in 1 .. 5 /\ row.at + 1 <= len
        BY <3>1
      <3> QED BY <3>2 DEF len
    <2>2. Onwards(row) = [row EXCEPT !.at = row.at + 1]
      BY <1>4 DEF Onwards
    <2> QED BY <1>1, <2>1, <2>2 DEF TaskState, Placed
  <1> QED BY <1>3, <1>4

LEMMA GoesStep ==
  ASSUME IInv, RowsOK', NEW t \in Tasks, task[t].kind # "none", Goes(t),
         task[t].kind = "media" => /\ task[t].at = 1 => Open'
                                   /\ task[t].at = 3 => Entitled',
         task[t].kind = "delete" /\ task[t].at = 1 => \A p \in Purchases : ~Owed(p),
         \A p \in Purchases : Owed(p)' => Owed(p)
  PROVE  IInv'
  <1> DEFINE row == Onwards(task[t])
  <1>1. /\ task \in [Tasks -> TaskState]
        /\ Kinded(t, task[t]) /\ Withdrawing(task[t]) /\ Cleared(task[t]) /\ Looked(task[t])
    BY DEF IInv, TasksOK
  <1>2. /\ row \in TaskState /\ Placed(row)
        /\ \/ row = Idle
           \/ /\ row.kind = task[t].kind /\ row.at = task[t].at + 1
              /\ row.row = task[t].row /\ row.down = task[t].down
              /\ row.open = task[t].open /\ row.entitled = task[t].entitled
              /\ row.unseen = task[t].unseen
    BY OnwardsRow
  <1>3. Remember([task EXCEPT ![t] = row])
    BY <1>1 DEF Goes
  <1>4. task[t].at \in 1 .. 5
    BY <1>1 DEF TaskState
  <1> HIDE DEF row
  <1>5. Onward(t, row)
    <2>1. CASE row = Idle
      BY <2>1, IdleNext
    <2>2. CASE row # Idle
      <3>1. Kinded(t, row) /\ Withdrawing(row)
        BY <1>1, <1>2, <2>2 DEF Kinded, Withdrawing
      <3>2. row.kind = "media" => /\ row.at > 1 => row.open \/ Open'
                                  /\ row.at > 3 => row.entitled \/ Entitled'
        BY <1>1, <1>2, <1>4, <2>2 DEF Cleared
      <3>3. row.kind = "delete" /\ row.at > 1 =>
              \A p \in Purchases : Owed(p)' => p \in row.unseen
        BY <1>1, <1>2, <1>4, <2>2 DEF Looked
      <3> QED BY <1>2, <3>1, <3>2, <3>3 DEF Onward
    <2> QED BY <2>1, <2>2
  <1> QED BY <1>2, <1>3, <1>5, Step

LEMMA EndsStep ==
  ASSUME IInv, RowsOK', NEW t \in Tasks, Ends(t),
         \A p \in Purchases : Owed(p)' => Owed(p)
  PROVE  IInv'
  BY IdleType, IdleNext, Step DEF Ends

\* A request's statement and its place in the script.
LEMMA Working ==
  ASSUME IInv, NEW t \in Tasks
  PROVE  /\ task[t] \in TaskState /\ task[t].kind \in Kinds /\ task[t].at \in 1 .. 5
         /\ Kinded(t, task[t]) /\ Withdrawing(task[t]) /\ Cleared(task[t]) /\ Looked(task[t])
         /\ \A statement : At(t, statement) => task[t].kind # "none"
  <1>1. task[t] \in TaskState
    BY DEF IInv, TasksOK
  <1>2. \A statement : At(t, statement) => task[t].kind # "none"
    BY DEF At, Script
  <1> QED BY <1>1, <1>2 DEF IInv, TasksOK, TaskState

-----------------------------------------------------------------------------
(* The creator's requests.                                                 *)

LEMMA AdmitStep ==
  ASSUME IInv, NEW t \in Writers, NEW kind \in Kinds, NEW row \in Rows,
         NEW columns \in SUBSET Columns, Admit(t, kind, row, columns),
         Kinded(t, [Idle EXCEPT !.kind = kind]), Len(Script[kind]) >= 1,
         kind \in {"patch", "unpublish", "archive", "public"} =>
           upload.status # "taken_down",
         kind = "takedown" => row.status = "taken_down", kind # "media"
  PROVE  IInv'
  <1> DEFINE down == upload.status = "taken_down"
             new == [Idle EXCEPT !.kind = kind, !.row = row, !.columns = columns,
                       !.down = down, !.alone = AtRest]
             tasks == [u \in Tasks |-> IF u = t THEN new
                                      ELSE [task[u] EXCEPT !.alone = FALSE]]
  <1>1. RowsOK' /\ UNCHANGED purchase
    BY DEF Admit, IInv, RowsOK
  <1>2. Remember(tasks)
    BY DEF Admit
  <1>3. AtRest \in BOOLEAN /\ down \in BOOLEAN
    BY DEF AtRest
  <1>4. /\ new \in TaskState /\ new.kind = kind /\ new.at = 1 /\ new.row = row
        /\ new.down = down
    BY <1>3, IdleType DEF TaskState, Idle
  <1>5. Onward(t, new)
    <2> HIDE DEF new
    <2>1. Kinded(t, new)
      BY <1>4 DEF Kinded, Idle
    <2>2. Placed(new)
      BY <1>4, Lengths DEF Placed
    <2>3. Withdrawing(new)
      <3>1. kind \in {"patch", "unpublish", "archive", "public"} => ~new.down
        BY <1>4
      <3> QED BY <1>4, <3>1 DEF Withdrawing
    <2> QED BY <1>4, <2>1, <2>2, <2>3 DEF Onward
  <1>6. ASSUME NEW u \in Tasks, u # t
        PROVE  tasks[u] \in TaskState /\ Onward(u, tasks[u])
    <2>1. /\ tasks[u] = [task[u] EXCEPT !.alone = FALSE]
          /\ task[u] \in TaskState
      BY <1>6, Working
    <2>2. /\ tasks[u] \in TaskState /\ tasks[u].kind = task[u].kind
          /\ tasks[u].at = task[u].at /\ tasks[u].row = task[u].row
          /\ tasks[u].down = task[u].down /\ tasks[u].unseen = task[u].unseen
          /\ tasks[u].open = task[u].open /\ tasks[u].entitled = task[u].entitled
      <3> HIDE DEF tasks
      <3> QED BY <2>1 DEF TaskState
    <2>3. Onward(u, task[u])
      <3>1. \A p \in Purchases : Owed(p)' => Owed(p)
        BY <1>1 DEF Owed
      <3> QED BY <3>1, Bystander
    <2> HIDE DEF tasks
    <2> QED BY <2>2, <2>3 DEF Onward, Kinded, Placed, Withdrawing
  <1>7. tasks \in [Tasks -> TaskState] /\ \A u \in Tasks : Onward(u, tasks[u])
    <2> HIDE DEF new
    <2> QED BY <1>4, <1>5, <1>6
  <1> HIDE DEF tasks
  <1> QED BY <1>1, <1>2, <1>7, Assemble

LEMMA Scripts ==
  \A kind \in CreatorKinds \cup {"release"} : kind \in Kinds /\ Len(Script[kind]) >= 1
  BY DEF CreatorKinds, Kinds, Script

LEMMA CreatorSteps ==
  ASSUME IInv, NEW t \in Creators,
         \/ Publish(t) \/ Patch(t) \/ Unpublish(t) \/ Takedown(t) \/ Archive(t)
         \/ MakePublic(t) \/ Delete(t)
  PROVE  IInv'
  <1>1. upload \in Rows
    BY DEF IInv, RowsOK
  <1>2. PICK kind \in CreatorKinds, row \in Rows, columns \in SUBSET Columns :
          /\ Admit(t, kind, row, columns)
          /\ kind \in {"patch", "unpublish", "archive", "public"} =>
               upload.status # "taken_down"
          /\ kind = "takedown" => row.status = "taken_down"
    <2>1. CASE Publish(t)
      BY <2>1 DEF Publish, CreatorKinds, Rows, Statuses, Releases
    <2>2. CASE Patch(t)
      BY <1>1, <2>2 DEF Patch, Derived, CreatorKinds, Rows, Statuses, Releases
    <2>3. CASE Unpublish(t)
      BY <2>3 DEF Unpublish, Withdrawn, NoRow, CreatorKinds, Rows, Statuses, Releases
    <2>4. CASE Takedown(t)
      BY <2>4 DEF Takedown, Withdrawn, NoRow, CreatorKinds, Rows, Statuses, Releases
    <2>5. CASE Archive(t)
      BY <2>5 DEF Archive, Withdrawn, NoRow, CreatorKinds, Rows, Statuses, Releases, Columns
    <2>6. CASE MakePublic(t)
      BY <2>6 DEF MakePublic, Derived, NoRow, CreatorKinds, Rows, Statuses, Releases, Columns
    <2>7. CASE Delete(t)
      BY <2>7 DEF Delete, NoRow, CreatorKinds, Rows, Statuses, Releases, Columns
    <2> QED BY <2>1, <2>2, <2>3, <2>4, <2>5, <2>6, <2>7
  <1>3. kind # "media" /\ kind # "release" /\ kind \notin {"play", "buy", "media"}
        /\ kind # "sweep"
    BY DEF CreatorKinds
  <1>4. Kinded(t, [Idle EXCEPT !.kind = kind])
    BY <1>3 DEF Kinded, Idle
  <1> QED BY <1>2, <1>3, <1>4, Scripts, AdmitStep DEF Writers

LEMMA ReleaseStep ==
  ASSUME IInv, NEW t \in Releasers, Release(t)
  PROVE  IInv'
  <1> DEFINE row == [NoRow EXCEPT !.status = "published"]
  <1>1. Admit(t, "release", row, {"status"})
    BY DEF Release
  <1>2. row \in Rows /\ {"status"} \in SUBSET Columns
    BY DEF NoRow, Rows, Statuses, Releases, Columns
  <1>3. Kinded(t, [Idle EXCEPT !.kind = "release"])
    BY DEF Kinded, Idle, CreatorKinds
  <1> HIDE DEF row
  <1> QED BY <1>1, <1>2, <1>3, Scripts, AdmitStep DEF Writers

-----------------------------------------------------------------------------
(* Statements.                                                             *)

LEMMA WriterSteps ==
  ASSUME IInv, NEW t \in Tasks, Write(t)
  PROVE  IInv'
  <1>0. RowsOK
    BY DEF IInv
  <1>1. /\ task[t] \in TaskState /\ task[t].kind \in Kinds /\ task[t].at \in 1 .. 5
        /\ Kinded(t, task[t]) /\ Withdrawing(task[t])
        /\ \A statement : At(t, statement) => task[t].kind # "none"
    BY Working
  <1>2. CASE WriteRow(t)
    <2>1. task[t].kind \in CreatorKinds \ {"delete"} /\ task[t].kind # "none"
      BY <1>1, <1>2, Statements DEF WriteRow
    <2> DEFINE onwards == Onwards(task[t])
               written == [NoRow EXCEPT !.status = task[t].row.status]
               row == [onwards EXCEPT !.columns = {}, !.down = FALSE, !.row = written]
    <2>2. written \in Rows /\ written.status = task[t].row.status
      BY <1>1, IdleType DEF NoRow, Rows, TaskState
    <2>3. /\ onwards \in TaskState /\ Placed(onwards)
          /\ \/ onwards.kind = "none"
             \/ onwards.kind = task[t].kind /\ onwards.down = task[t].down
      BY <2>1, OnwardsRow DEF Idle
    <2>4. Remember([task EXCEPT ![t] = row])
      <3>1. task \in [Tasks -> TaskState]
        BY DEF IInv, TasksOK
      <3> QED BY <1>2, <3>1 DEF WriteRow
    <2> HIDE DEF onwards, written
    <2>5. /\ row \in TaskState /\ row.kind = onwards.kind /\ row.at = onwards.at
          /\ row.down = FALSE /\ row.row.status = task[t].row.status
      BY <2>2, <2>3 DEF TaskState
    <2> HIDE DEF row
    <2>6. Onward(t, row)
      <3>1. row.kind = "none" \/ row.kind \in CreatorKinds \ {"delete"}
        BY <2>1, <2>3, <2>5
      <3>2. row.kind \notin {"media", "delete", "release", "play", "buy", "sweep"}
        BY <3>1 DEF CreatorKinds
      <3>3. Kinded(t, row) /\ Withdrawing(row)
        BY <1>1, <2>1, <2>3, <2>5, <3>2 DEF Kinded, Withdrawing, CreatorKinds
      <3> QED BY <2>3, <2>5, <3>2, <3>3 DEF Onward, Placed
    <2>7. upload' \in Rows
      <3>1. CASE upload' = upload
        BY <1>0, <3>1 DEF RowsOK
      <3>2. CASE upload' = [c \in Columns |-> IF c \in task[t].columns THEN task[t].row[c]
                                             ELSE upload[c]]
        <4>1. task[t].row \in Rows /\ upload \in Rows
          BY <1>0, <1>1 DEF RowsOK, TaskState
        <4>2. upload' = [status |-> upload'.status, visibility |-> upload'.visibility,
                         release |-> upload'.release]
          BY <3>2 DEF Columns
        <4>3. /\ upload'.status \in Statuses /\ upload'.release \in Releases
              /\ upload'.visibility \in {"public", "private"}
          BY <3>2, <4>1 DEF Columns, Rows
        <4> QED BY <4>2, <4>3 DEF Rows
      <3> QED BY <1>2, <3>1, <3>2 DEF WriteRow
    <2>8. RowsOK' /\ \A p \in Purchases : Owed(p)' => Owed(p)
      BY <1>0, <1>2, <2>7 DEF WriteRow, RowsOK, Owed
    <2> QED BY <2>4, <2>5, <2>6, <2>8, Step
  <1>3. CASE Claim(t)
    <2>1. task[t].kind = "release"
      BY <1>1, <1>3, Statements DEF Claim
    <2>2. RowsOK' /\ \A p \in Purchases : Owed(p)' => Owed(p)
      BY <1>0, <1>3 DEF Claim, RowsOK, Owed, Rows, Statuses
    <2> QED BY <1>3, <2>1, <2>2, GoesStep, EndsStep DEF Claim
  <1>4. CASE WriteAsset(t)
    <2>1. task[t].kind \in CreatorKinds \cup {"release"} /\ task[t].at # 1
      <3>1. At(t, "asset") => task[t].at # 1
        BY <1>1 DEF At, Script, Kinds
      <3> QED BY <1>1, <1>4, <3>1, Statements DEF WriteAsset
    <2>2. RowsOK' /\ \A p \in Purchases : Owed(p)' => Owed(p)
      <3>1. task[t].row.status \in Statuses
        BY <1>1 DEF TaskState, Rows
      <3>2. asset' \in {"ready"} \cup Statuses
        BY <1>0, <1>4, <3>1 DEF WriteAsset, RowsOK, Statuses
      <3>3. crossed' \in BOOLEAN /\ job' \in BOOLEAN
        BY <1>4 DEF WriteAsset, Uncrossed
      <3> QED BY <1>0, <1>4, <3>2, <3>3 DEF WriteAsset, RowsOK, Owed
    <2>3. Goes(t) /\ task[t].kind \notin {"none", "media"}
      BY <1>4, <2>1 DEF WriteAsset, CreatorKinds
    <2> QED BY <2>1, <2>2, <2>3, GoesStep
  <1>5. CASE Expire(t)
    <2>1. task[t].kind \in CreatorKinds /\ task[t].at # 1
      <3>1. At(t, "expire") => task[t].at # 1
        BY <1>1 DEF At, Script, Kinds
      <3> QED BY <1>1, <1>5, <3>1, Statements DEF Expire
    <2>2. RowsOK' /\ \A p \in Purchases : Owed(p)' => Owed(p)
      <3>1. crossed' \in BOOLEAN
        BY <1>5 DEF Expire, Uncrossed
      <3> QED BY <1>0, <1>5, <3>1 DEF Expire, RowsOK, Owed
    <2>3. Goes(t) /\ task[t].kind \notin {"none", "media"}
      BY <1>5, <2>1 DEF Expire, CreatorKinds
    <2> QED BY <2>1, <2>2, <2>3, GoesStep
  <1>6. CASE CheckPurchases(t)
    <2>1. task[t].kind = "delete"
      BY <1>1, <1>6, Statements DEF CheckPurchases
    <2>2. RowsOK' /\ \A p \in Purchases : Owed(p)' => Owed(p)
      BY <1>0, <1>6 DEF CheckPurchases, RowsOK, Owed
    <2>3. CASE \E p \in Purchases : Owed(p)
      <3>1. Ends(t)
        BY <1>6, <2>3 DEF CheckPurchases, Owed
      <3> QED BY <2>2, <3>1, EndsStep
    <2>4. CASE ~\E p \in Purchases : Owed(p)
      <3>1. Goes(t)
        BY <1>6, <2>4 DEF CheckPurchases, Owed
      <3> QED BY <2>1, <2>2, <2>4, <3>1, GoesStep
    <2> QED BY <2>3, <2>4
  <1>7. CASE DeleteRow(t)
    <2>1. task[t].kind = "delete" /\ task[t].at = 4
      BY <1>1, <1>7, Statements DEF DeleteRow
    <2>2. RowsOK' /\ \A p \in Purchases : Owed(p)' => Owed(p)
      <3>1. crossed' \in BOOLEAN
        BY <1>7 DEF DeleteRow, Uncrossed
      <3> QED BY <1>0, <1>7, <3>1, IdleType DEF DeleteRow, RowsOK, Owed
    <2>3. Goes(t)
      BY <1>7 DEF DeleteRow
    <2> QED BY <2>1, <2>2, <2>3, GoesStep
  <1> QED BY <1>2, <1>3, <1>4, <1>5, <1>6, <1>7 DEF Write

LEMMA AskStep ==
  ASSUME IInv, NEW t \in Tasks, NEW kind \in {"play", "buy", "media", "sweep"},
         NEW s \in Sessions \cup {"none"}, Ask(t, kind, s),
         kind = "sweep" => t \in Sessions, kind # "sweep" => t \in Viewers
  PROVE  IInv'
  <1> DEFINE row == [Idle EXCEPT !.kind = kind, !.session = s]
  <1>1. /\ row \in TaskState /\ row.kind = kind /\ row.at = 1
    <2>1. kind \in Kinds /\ Idle \in TaskState /\ Idle.at = 1
      BY IdleType DEF Kinds, Idle
    <2> QED BY <2>1 DEF TaskState
  <1>2. Remember([task EXCEPT ![t] = row])
    BY DEF Ask
  <1>3. RowsOK' /\ \A p \in Purchases : Owed(p)' => Owed(p)
    BY DEF Ask, IInv, RowsOK, Owed
  <1> HIDE DEF row
  <1>4. Placed(row)
    <2>1. Len(Script[kind]) >= 1 /\ Len(Script[kind]) \in Nat
      BY DEF Script
    <2> QED BY <1>1, <2>1 DEF Placed
  <1>5. Onward(t, row)
    BY <1>1, <1>4 DEF Onward, Kinded, Withdrawing, CreatorKinds
  <1> QED BY <1>1, <1>2, <1>3, <1>5, Step

LEMMA AskSteps ==
  ASSUME IInv, NEW t, \/ t \in Viewers /\ (Play(t) \/ Buy(t) \/ Media(t))
                      \/ t \in Sessions /\ Sweep(t)
  PROVE  IInv'
  <1>1. CASE t \in Viewers /\ (Play(t) \/ Buy(t) \/ Media(t))
    <2>1. PICK kind \in {"play", "buy", "media"}, s \in Sessions \cup {"none"} : Ask(t, kind, s)
      BY <1>1 DEF Play, Buy, Media
    <2> QED BY <1>1, <2>1, AskStep DEF Tasks
  <1>2. CASE t \in Sessions /\ Sweep(t)
    BY <1>2, AskStep DEF Sweep, Tasks
  <1> QED BY <1>1, <1>2

LEMMA PassStep ==
  ASSUME IInv, NEW t \in Tasks, Pass(t), task[t].kind # "none",
         task[t].kind = "media" => /\ task[t].at = 1 => Open
                                   /\ task[t].at = 3 => Entitled,
         task[t].kind # "delete"
  PROVE  IInv'
  <1>1. RowsOK' /\ \A p \in Purchases : Owed(p)' => Owed(p)
    BY DEF Pass, IInv, RowsOK, Owed
  <1>2. (Open => Open') /\ (Entitled => Entitled')
    BY DEF Pass, Open, Entitled
  <1>3. Goes(t)
    BY DEF Pass
  <1> QED BY <1>1, <1>2, <1>3, GoesStep

LEMMA RefuseStep ==
  ASSUME IInv, NEW t \in Tasks, Refuse(t)
  PROVE  IInv'
  <1>1. RowsOK' /\ \A p \in Purchases : Owed(p)' => Owed(p)
    BY DEF Refuse, IInv, RowsOK, Owed
  <1>2. Ends(t)
    BY DEF Refuse
  <1> QED BY <1>1, <1>2, EndsStep

\* A purchase may be made beside a deletion that has looked: it is unseen.
LEMMA PurchaseStep ==
  ASSUME IInv, NEW t \in Tasks, InsertPurchase(t)
  PROVE  IInv'
  <1>0. RowsOK
    BY DEF IInv
  <1>1. PICK p \in Purchases :
          /\ purchase[p] = "none"
          /\ purchase' = IF upload.status = "none" THEN purchase
                         ELSE [purchase EXCEPT ![p] = "active"]
          /\ UNCHANGED <<upload, asset, job, session, crossed>>
          /\ Remember([u \in Tasks |->
               IF u = t THEN Idle ELSE
               IF task[u].kind = "delete" /\ task[u].at > 1 /\ upload.status # "none"
               THEN [task[u] EXCEPT !.unseen = @ \cup {p}] ELSE task[u]])
    BY DEF InsertPurchase
  <1> DEFINE beside(u) == task[u].kind = "delete" /\ task[u].at > 1 /\ upload.status # "none"
             tasks == [u \in Tasks |-> IF u = t THEN Idle ELSE
                        IF beside(u) THEN [task[u] EXCEPT !.unseen = @ \cup {p}]
                        ELSE task[u]]
  <1>2. RowsOK'
    BY <1>0, <1>1 DEF RowsOK
  <1>3. \A q \in Purchases : Owed(q)' => Owed(q) \/ (q = p /\ upload.status # "none")
    BY <1>0, <1>1 DEF RowsOK, Owed
  <1>4. Remember(tasks)
    BY <1>1
  <1>5. ASSUME NEW u \in Tasks
        PROVE  tasks[u] \in TaskState /\ Onward(u, tasks[u])
    <2>1. CASE u = t
      BY <2>1, IdleType, IdleNext
    <2>2. CASE u # t /\ ~beside(u)
      <3>1. tasks[u] = task[u] /\ task[u] \in TaskState
        BY <2>2, Working
      <3>2. /\ Kinded(u, task[u]) /\ Placed(task[u]) /\ Withdrawing(task[u])
            /\ Cleared(task[u]) /\ Looked(task[u])
        BY DEF IInv, TasksOK
      <3>3. Onward(u, task[u])
        BY <1>3, <2>2, <3>2 DEF Onward, Cleared, Looked
      <3> HIDE DEF tasks
      <3> QED BY <3>1, <3>3
    <2>3. CASE u # t /\ beside(u)
      <3> DEFINE row == [task[u] EXCEPT !.unseen = task[u].unseen \cup {p}]
      <3>1. tasks[u] = row /\ task[u] \in TaskState
        BY <2>3, Working
      <3>2. /\ row \in TaskState /\ row.kind = "delete" /\ row.at = task[u].at
            /\ row.unseen = task[u].unseen \cup {p}
        BY <2>3, <3>1 DEF TaskState
      <3>3. Kinded(u, task[u]) /\ Placed(task[u]) /\ Looked(task[u])
        BY DEF IInv, TasksOK
      <3> HIDE DEF row
      <3>4. Kinded(u, row) /\ Placed(row) /\ Withdrawing(row)
        BY <2>3, <3>2, <3>3 DEF Kinded, Placed, Withdrawing
      <3>5. \A q \in Purchases : Owed(q)' => q \in row.unseen
        BY <1>3, <2>3, <3>2, <3>3 DEF Looked
      <3>6. Onward(u, row)
        BY <3>2, <3>4, <3>5 DEF Onward
      <3> HIDE DEF tasks
      <3> QED BY <3>1, <3>2, <3>6
    <2> HIDE DEF tasks, beside
    <2> QED BY <2>1, <2>2, <2>3
  <1>6. tasks \in [Tasks -> TaskState] /\ \A u \in Tasks : Onward(u, tasks[u])
    <2>1. tasks = [u \in Tasks |-> tasks[u]]
      OBVIOUS
    <2> HIDE DEF tasks
    <2> QED BY <1>5, <2>1
  <1> HIDE DEF tasks
  <1> QED BY <1>2, <1>4, <1>6, Assemble

LEMMA ViewerSteps ==
  ASSUME IInv, NEW t \in Viewers \cup Sessions, Validate(t)
  PROVE  IInv'
  <1>0. RowsOK /\ t \in Tasks
    BY DEF IInv, Tasks
  <1>1. /\ task[t] \in TaskState /\ task[t].kind \in Kinds /\ task[t].at \in 1 .. 5
        /\ Kinded(t, task[t])
        /\ \A statement : At(t, statement) => task[t].kind # "none"
    BY <1>0, Working
  <1>2. task[t].kind # "delete"
    BY <1>1, AccessAssumption DEF Kinded, CreatorKinds
  <1>3. CASE ReadUpload(t)
    <2>1. task[t].kind # "none" /\ task[t].at = 1
      BY <1>1, <1>3, Statements DEF ReadUpload
    <2> QED BY <1>0, <1>2, <1>3, <2>1, PassStep, RefuseStep DEF ReadUpload
  <1>4. CASE ReadAsset(t)
    <2>1. task[t].kind # "none" /\ (task[t].kind = "media" => task[t].at = 2)
      BY <1>1, <1>4, Statements DEF ReadAsset
    <2> QED BY <1>0, <1>2, <1>4, <2>1, PassStep, RefuseStep DEF ReadAsset
  <1>5. CASE ReadEntitlement(t)
    <2>1. task[t].kind # "none" /\ task[t].at = 3
      BY <1>1, <1>5, Statements DEF ReadEntitlement
    <2> QED BY <1>0, <1>2, <1>5, <2>1, PassStep, RefuseStep DEF ReadEntitlement
  <1>6. CASE Grant(t)
    <2>1. session' \in [Sessions -> {"none", "active", "expired"}]
      BY <1>0, <1>6 DEF Grant, RowsOK
    <2>2. RowsOK' /\ \A p \in Purchases : Owed(p)' => Owed(p)
      BY <1>0, <1>6, <2>1 DEF Grant, RowsOK, Owed
    <2> QED BY <1>0, <1>6, <2>2, EndsStep DEF Grant
  <1>7. CASE Serve(t)
    <2>1. task[t].kind # "none" /\ task[t].at = 4
      BY <1>1, <1>7, Statements DEF Serve
    <2> QED BY <1>0, <1>2, <1>7, <2>1, PassStep DEF Serve
  <1>8. CASE CurrentPurchase(t)
    <2>1. task[t].kind = "buy"
      BY <1>1, <1>8, Statements DEF CurrentPurchase
    <2>2. RowsOK' /\ \A p \in Purchases : Owed(p)' => Owed(p)
      BY <1>0, <1>8 DEF CurrentPurchase, RowsOK, Owed
    <2> QED BY <1>0, <1>8, <2>1, <2>2, GoesStep, EndsStep DEF CurrentPurchase
  <1>9. CASE InsertPurchase(t)
    BY <1>0, <1>9, PurchaseStep
  <1> QED BY <1>3, <1>4, <1>5, <1>6, <1>7, <1>8, <1>9 DEF Validate

-----------------------------------------------------------------------------
LEMMA AgedRow == \A row \in Rows : Aged(row) \in Rows /\ Aged(row).status = row.status
  BY DEF Aged, Rows, Releases

\* With no request's step, and no purchase more.
LEMMA QuietStep ==
  ASSUME IInv, RowsOK', Remember(task), \A p \in Purchases : Owed(p)' => Owed(p)
  PROVE  IInv'
  <1>1. task \in [Tasks -> TaskState]
    BY DEF IInv, TasksOK
  <1> QED BY <1>1, Bystander, Assemble

LEMMA TimeSteps ==
  ASSUME IInv, ReleaseDate \/ Lapse \/ ExpirePurchases
  PROVE  IInv'
  <1>0. RowsOK
    BY DEF IInv
  <1>1. CASE ReleaseDate
    <2> DEFINE tasks == [t \in Tasks |-> [task[t] EXCEPT !.row = Aged(@)]]
    <2>1. RowsOK' /\ \A p \in Purchases : Owed(p)' => Owed(p)
      BY <1>0, <1>1, AgedRow DEF ReleaseDate, RowsOK, Owed
    <2>2. ASSUME NEW t \in Tasks
          PROVE  tasks[t] \in TaskState /\ Onward(t, tasks[t])
      <3>1. /\ tasks[t] = [task[t] EXCEPT !.row = Aged(task[t].row)]
            /\ task[t] \in TaskState /\ Onward(t, task[t])
        BY <2>1, <2>2, Working, Bystander
      <3>2. Aged(task[t].row) \in Rows /\ Aged(task[t].row).status = task[t].row.status
        BY <3>1, AgedRow DEF TaskState
      <3> DEFINE row == tasks[t]
      <3> HIDE DEF tasks
      <3>3. /\ row \in TaskState /\ row.kind = task[t].kind /\ row.at = task[t].at
            /\ row.row.status = task[t].row.status /\ row.down = task[t].down
            /\ row.open = task[t].open /\ row.entitled = task[t].entitled
            /\ row.unseen = task[t].unseen
        BY <3>1, <3>2 DEF TaskState
      <3> QED BY <3>1, <3>3 DEF Onward, Kinded, Placed, Withdrawing
    <2>3. tasks \in [Tasks -> TaskState] /\ \A t \in Tasks : Onward(t, tasks[t])
      <3>1. tasks = [t \in Tasks |-> tasks[t]]
        OBVIOUS
      <3> HIDE DEF tasks
      <3> QED BY <2>2, <3>1
    <2>4. Remember(tasks)
      BY <1>1 DEF ReleaseDate
    <2> HIDE DEF tasks
    <2> QED BY <2>1, <2>3, <2>4, Assemble
  <1>2. CASE Lapse
    BY <1>0, <1>2, QuietStep DEF Lapse, RowsOK, Owed
  <1>3. CASE ExpirePurchases
    BY <1>0, <1>3, QuietStep DEF ExpirePurchases, RowsOK, Owed
  <1> QED BY <1>1, <1>2, <1>3

LEMMA Start == Init => IInv
  <1> SUFFICES ASSUME Init PROVE IInv
    OBVIOUS
  <1>1. RowsOK
    BY IdleType DEF Init, RowsOK
  <1>2. \A t \in Tasks : task[t] = Idle
    BY DEF Init
  <1>3. TasksOK
    BY <1>2, IdleType DEF Init, TasksOK, Idle, Kinded, Placed, Withdrawing, Cleared,
       Looked, CreatorKinds
  <1> QED BY <1>1, <1>3 DEF IInv

LEMMA Keeps == IInv /\ [Next]_vars => IInv'
  <1> SUFFICES ASSUME IInv, [Next]_vars PROVE IInv'
    OBVIOUS
  <1>1. CASE UNCHANGED vars
    BY <1>1 DEF vars, IInv, RowsOK, TasksOK, Kinded, Placed, Withdrawing, Cleared, Looked, Owed
  <1> QED BY <1>1, CreatorSteps, ReleaseStep, WriterSteps, AskSteps, ViewerSteps,
             TimeSteps DEF Next, Tasks, Writers

LEMMA Invariant == Spec => []IInv
  BY Start, Keeps, PTL DEF Spec

\* The rows keep to their columns' words, the requests to their scripts.
THEOREM TypeCorrect == Spec => []TypeOK
  <1>1. IInv => TypeOK
    BY DEF IInv, RowsOK, TasksOK, TypeOK
  <1> QED BY <1>1, Invariant, PTL

\* Whatever the creator, the release and the clock do beside it, a file is served
\* only to a request during which the upload was open and the viewer entitled.
THEOREM ServedCleared == Spec => []ServedWithAccess
  <1>1. IInv => ServedWithAccess
    <2> SUFFICES ASSUME IInv, NEW t \in Viewers, At(t, "serve")
                 PROVE  task[t].open /\ task[t].entitled
      BY DEF ServedWithAccess
    <2>1. /\ task[t].kind \in Kinds /\ task[t].at \in 1 .. 5 /\ Cleared(task[t])
      BY Working DEF Tasks
    <2> QED BY <2>1, Statements DEF Cleared
  <1> QED BY <1>1, Invariant, PTL

\* A taken-down upload comes back by a publish of its job, or by a request that
\* was in progress when it was taken down, and by nothing else.
THEOREM TakedownStands == Spec => TakedownHolds
  <1> DEFINE Holds == upload.status = "taken_down" /\ upload'.status \notin {"taken_down", "none"}
                      => \E t \in Creators : /\ At(t, "row")
                                             /\ task[t].kind = "publish" \/ ~task[t].down
  <1>1. IInv /\ [Next]_vars => [Holds]_vars
    <2> SUFFICES ASSUME IInv, [Next]_vars, upload.status = "taken_down",
                        upload'.status \notin {"taken_down", "none"}
                 PROVE  \E t \in Creators : /\ At(t, "row")
                                            /\ task[t].kind = "publish" \/ ~task[t].down
      OBVIOUS
    <2>0. upload \in Rows /\ upload' # upload
      BY DEF IInv, RowsOK
    <2>1. PICK t \in Tasks : WriteRow(t) \/ Claim(t) \/ DeleteRow(t)
      <3>1. ReleaseDate => upload'.status = upload.status
        BY <2>0, AgedRow DEF ReleaseDate
      <3>2. \A t : t \in Creators \cup Releasers /\ Write(t) =>
              \/ WriteRow(t) \/ Claim(t) \/ DeleteRow(t)
        BY <2>0 DEF Write, WriteAsset, Expire, CheckPurchases
      <3>3. ~ \E t \in Creators : \/ Publish(t) \/ Patch(t) \/ Unpublish(t) \/ Takedown(t)
                                  \/ Archive(t) \/ MakePublic(t) \/ Delete(t)
        BY <2>0 DEF Publish, Patch, Unpublish, Takedown, Archive, MakePublic, Delete, Admit
      <3>4. ~ \E t : Release(t) \/ Play(t) \/ Buy(t) \/ Media(t) \/ Sweep(t)
        BY <2>0 DEF Release, Admit, Play, Buy, Media, Sweep, Ask
      <3>5. ~ \E t : Validate(t)
        BY <2>0 DEF Validate, ReadUpload, ReadAsset, ReadEntitlement, Grant, Serve,
           CurrentPurchase, InsertPurchase, Pass, Refuse
      <3>6. ~Lapse /\ ~ExpirePurchases /\ ~UNCHANGED vars
        BY <2>0 DEF Lapse, ExpirePurchases, vars
      <3> QED BY <3>1, <3>2, <3>3, <3>4, <3>5, <3>6 DEF Next, Tasks, Writers
    <2>2. /\ task[t].kind \in Kinds /\ task[t].at \in 1 .. 5
          /\ Kinded(t, task[t]) /\ Withdrawing(task[t])
      BY Working
    <2>3. CASE Claim(t)
      BY <2>0, <2>3 DEF Claim
    <2>4. CASE DeleteRow(t)
      BY <2>4 DEF DeleteRow, NoRow
    <2>5. CASE WriteRow(t)
      <3>1. At(t, "row") /\ task[t].kind \in CreatorKinds \ {"delete"} /\ t \in Creators
        BY <2>2, <2>5, Statements DEF WriteRow, Kinded
      <3>2. task[t].kind # "takedown"
        <4> SUFFICES ASSUME task[t].kind = "takedown" PROVE FALSE
          OBVIOUS
        <4>1. task[t].row.status = "taken_down"
          BY <2>2 DEF Withdrawing
        <4>2. upload'.status \in {upload.status, task[t].row.status}
          BY <2>0, <2>5 DEF WriteRow, Columns
        <4> QED BY <4>1, <4>2
      <3>3. task[t].kind = "publish" \/ ~task[t].down
        BY <2>2, <3>1, <3>2 DEF CreatorKinds, Withdrawing
      <3> QED BY <3>1, <3>3
    <2> QED BY <2>1, <2>3, <2>4, <2>5
  <1> QED BY <1>1, Invariant, PTL DEF Spec, TakedownHolds

\* For any number of purchases and of requests: one that is paid for goes only with
\* an upload whose deletion had looked for purchases before it was made.
THEOREM BuyersStay == Spec => BuyersAreKept
  <1> DEFINE Kept == \A p \in Purchases : purchase[p] = "active" /\ purchase'[p] = "none" =>
                       \E t \in Creators : At(t, "gone") /\ p \in task[t].unseen
  <1>1. IInv /\ [Next]_vars => [Kept]_vars
    <2> SUFFICES ASSUME IInv, [Next]_vars, NEW p \in Purchases,
                        purchase[p] = "active", purchase'[p] = "none"
                 PROVE  \E t \in Creators : At(t, "gone") /\ p \in task[t].unseen
      OBVIOUS
    <2>0. RowsOK /\ purchase' # purchase
      BY DEF IInv
    <2>1. PICK t \in Tasks : DeleteRow(t)
      <3>1. ~ReleaseDate /\ ~UNCHANGED vars
        BY <2>0 DEF ReleaseDate, vars
      <3>2. ~Lapse /\ ~ExpirePurchases
        BY <2>0 DEF Lapse, ExpirePurchases, RowsOK
      <3>3. \A t : Write(t) => DeleteRow(t)
        BY <2>0 DEF Write, WriteRow, Claim, WriteAsset, Expire, CheckPurchases
      <3>4. ~ \E t \in Creators : \/ Publish(t) \/ Patch(t) \/ Unpublish(t) \/ Takedown(t)
                                  \/ Archive(t) \/ MakePublic(t) \/ Delete(t)
        BY <2>0 DEF Publish, Patch, Unpublish, Takedown, Archive, MakePublic, Delete, Admit
      <3>5. ~ \E t : Release(t) \/ Play(t) \/ Buy(t) \/ Media(t) \/ Sweep(t)
        BY <2>0 DEF Release, Admit, Play, Buy, Media, Sweep, Ask
      <3>6. ~ \E t : InsertPurchase(t)
        BY <2>0 DEF InsertPurchase, RowsOK
      <3>7. ~ \E t : Validate(t)
        BY <2>0, <3>6 DEF Validate, ReadUpload, ReadAsset, ReadEntitlement, Grant, Serve,
           CurrentPurchase, Pass, Refuse
      <3> QED BY <3>1, <3>2, <3>3, <3>4, <3>5, <3>7 DEF Next, Tasks, Writers
    <2>2. /\ task[t].kind \in Kinds /\ task[t].at \in 1 .. 5
          /\ Kinded(t, task[t]) /\ Looked(task[t])
      BY Working
    <2>3. At(t, "gone") /\ task[t].kind = "delete" /\ task[t].at = 4
      BY <2>1, <2>2, Statements DEF DeleteRow
    <2> QED BY <2>2, <2>3 DEF Kinded, CreatorKinds, Looked, Owed
  <1> QED BY <1>1, Invariant, PTL DEF Spec, BuyersAreKept

-----------------------------------------------------------------------------
(* The upload and its asset.  AssetAgrees speaks of moments at which no    *)
(* writer is at work; between them it is the place of the one writer that  *)
(* runs alone that says what it has made agree so far, and with two at     *)
(* work nothing is promised until one has run alone again.                 *)

Agreed == upload.status # "none" /\ asset # "none" => asset = upload.status

\* What a writer's row says it will write.
Written(row) ==
  /\ row.kind = "release" => row.row.status = "published"
  /\ row.kind = "delete" => row.row.status = "none"
  /\ row.kind \in CreatorKinds \ {"delete"} /\ row.at = 1 => "status" \in row.columns
\* What a writer that runs alone has made of the two rows.
Made(row) == row.alone =>
  /\ row.kind \notin {"none", "delete"} /\ row.at = 2 => upload.status \in {"none", row.row.status}
  /\ row.kind # "delete" /\ row.at = 3 => Agreed
  /\ row.kind = "delete" /\ row.at = 4 => asset = "none"
  /\ ~crossed /\ (row.at = 1 \/ (row.kind = "delete" /\ row.at \in {2, 3})) => Agreed
Promises == \A t \in Writers : Written(task[t]) /\ Made(task[t])
Alone == \A t \in Writers, u \in Writers : task[t].alone /\ u # t => task[u].kind = "none"
Sole == ~crossed => \A t \in Writers : task[t].kind # "none" => task[t].alone
WInv == Promises /\ Alone /\ Sole /\ (AtRest /\ ~crossed => Agreed)

\* What of a row the invariant looks at.
Same(row, new) == /\ new.kind = row.kind /\ new.at = row.at
                  /\ new.row.status = row.row.status
                  /\ new.columns = row.columns /\ new.alone = row.alone

\* Where in its script a writer makes each of its statements, and how long it is.
LEMMA Places ==
  ASSUME NEW t, task[t].kind \in Kinds, task[t].at \in 1 .. 5
  PROVE  LET kind == task[t].kind
             at == task[t].at
             last == Len(Script[kind])
         IN  /\ At(t, "row") => kind \in CreatorKinds \ {"delete"} /\ at = 1 /\ last \in {2, 3}
             /\ At(t, "claim") => kind = "release" /\ at = 1 /\ last = 2
             /\ At(t, "asset") => \/ kind = "delete" /\ at = 3 /\ last = 4
                                  \/ kind # "delete" /\ at = 2 /\ last \in {2, 3}
             /\ At(t, "expire") => \/ kind = "delete" /\ at = 2 /\ last = 4
                                   \/ kind # "delete" /\ at = 3 /\ last = 3
             /\ At(t, "check") => kind = "delete" /\ at = 1 /\ last = 4
             /\ At(t, "gone") => kind = "delete" /\ at = 4 /\ last = 4
  BY DEF At, Script, Kinds, CreatorKinds

\* A step of no writer: of the viewer, of the pass, of time.
LEMMA NoWriter ==
  ASSUME WInv, \A u \in Writers : Same(task[u], task'[u]),
         upload'.status = upload.status, asset' = asset, crossed' = crossed
  PROVE  WInv'
  <1>1. Agreed' = Agreed
    BY DEF Agreed
  <1>2. ASSUME NEW u \in Writers PROVE Written(task[u])' /\ Made(task[u])'
    <2>1. Same(task[u], task'[u]) /\ Written(task[u]) /\ Made(task[u])
      BY DEF WInv, Promises
    <2>2. Written(task[u])'
      BY <2>1 DEF Written, Same
    <2>3. Made(task[u])'
      BY <1>1, <2>1 DEF Made, Same
    <2> QED BY <2>2, <2>3
  <1>3. Promises'
    BY <1>2 DEF Promises, Writers
  <1>4. Alone' /\ Sole' /\ AtRest' = AtRest
    BY DEF WInv, Alone, Sole, AtRest, Same
  <1> QED BY <1>1, <1>3, <1>4 DEF WInv

\* A writer's step: alone, it keeps what it has promised; beside another one it
\* has nothing to keep.
LEMMA WriterStep ==
  ASSUME WInv, NEW t \in Writers, NEW row, task[t].kind # "none",
         \A u \in Writers : u # t => Same(task[u], task'[u]), Same(row, task'[t]),
         row.alone => task[t].alone, row.kind # "none" => row.alone = task[t].alone,
         Written(row), crossed' => crossed, ~task[t].alone => crossed' = crossed,
         task[t].alone => Made(row)',
         task[t].alone /\ row.kind = "none" /\ ~crossed' => Agreed'
  PROVE  WInv'
  <1>1. ASSUME NEW u \in Writers PROVE Written(task[u])'
    <2>1. CASE u = t
      BY <2>1 DEF Written, Same
    <2>2. CASE u # t
      BY <2>2 DEF WInv, Promises, Written, Same
    <2> QED BY <2>1, <2>2
  <1>2. CASE task[t].alone
    <2>1. \A u \in Writers : u # t => task[u].kind = "none" /\ task'[u].kind = "none"
      BY <1>2 DEF WInv, Alone, Same
    <2>2. \A u \in Writers : u # t => ~task[u].alone /\ ~task'[u].alone
      BY <1>2 DEF WInv, Alone, Same
    <2>3. ASSUME NEW u \in Writers PROVE Made(task[u])'
      <3>1. CASE u = t
        <4>1. Made(row)' /\ Same(row, task'[t])
          BY <1>2
        <4> QED BY <3>1, <4>1 DEF Made, Same
      <3>2. CASE u # t
        BY <2>2, <3>2 DEF Made
      <3> QED BY <3>1, <3>2
    <2>4. Promises'
      BY <1>1, <2>3 DEF Promises, Writers
    <2>5. Alone'
      BY <2>1, <2>2 DEF Alone, Writers
    <2>6. Sole'
      BY <1>2, <2>1 DEF Sole, Same, Writers
    <2>7. AtRest' /\ ~crossed' => Agreed'
      BY <1>2 DEF AtRest, Same, Writers
    <2> QED BY <2>4, <2>5, <2>6, <2>7 DEF WInv
  <1>3. CASE ~task[t].alone
    <2>1. crossed /\ crossed'
      BY <1>3 DEF WInv, Sole
    <2>2. \A u \in Writers : ~task[u].alone
      BY <1>3 DEF WInv, Alone
    <2>3. \A u \in Writers : ~task'[u].alone
      BY <1>3, <2>2 DEF Same
    <2>4. Promises'
      BY <1>1, <2>3 DEF Promises, Made, Writers
    <2>5. Alone' /\ Sole'
      BY <2>1, <2>3 DEF Alone, Sole, Writers
    <2> QED BY <2>1, <2>4, <2>5 DEF WInv
  <1> QED BY <1>2, <1>3

\* The rows after a step that has put `row' for request t.
LEMMA OneRow ==
  ASSUME IInv, NEW t \in Tasks, NEW row \in TaskState, Remember([task EXCEPT ![t] = row])
  PROVE  Same(row, task'[t]) /\ \A u \in Tasks : u # t => Same(task[u], task'[u])
  <1> DEFINE tasks == [task EXCEPT ![t] = row]
  <1>1. task \in [Tasks -> TaskState]
    BY DEF IInv, TasksOK
  <1>2. /\ tasks \in [Tasks -> TaskState] /\ tasks[t] = row
        /\ \A u \in Tasks : u # t => tasks[u] = task[u]
    BY <1>1
  <1> HIDE DEF tasks
  <1>3. \A u \in Tasks : Alike(tasks[u], task'[u])
    BY <1>2, Remembered DEF tasks
  <1> QED BY <1>2, <1>3 DEF Alike, Same

LEMMA IdleKeeps == Written(Idle) /\ ~Idle.alone /\ Idle.kind = "none"
  BY DEF Written, Idle, CreatorKinds

\* A writer that goes on to its next statement, or is done.
LEMMA NextRow ==
  ASSUME IInv, NEW t \in Writers, Goes(t), task[t].kind # "none"
  PROVE  \E row \in TaskState :
           /\ Same(row, task'[t]) /\ \A u \in Writers : u # t => Same(task[u], task'[u])
           /\ task[t].at = Len(Script[task[t].kind]) => row = Idle
           /\ task[t].at # Len(Script[task[t].kind]) =>
                /\ row.kind = task[t].kind /\ row.at = task[t].at + 1
                /\ row.row = task[t].row /\ row.columns = task[t].columns
                /\ row.alone = task[t].alone
  <1>0. t \in Tasks /\ Writers \subseteq Tasks /\ task \in [Tasks -> TaskState]
    BY DEF Writers, Tasks, IInv, TasksOK
  <1>1. PICK row : row = Onwards(task[t])
    OBVIOUS
  <1>2. row \in TaskState /\ Remember([task EXCEPT ![t] = row])
    BY <1>0, <1>1, OnwardsRow DEF Goes
  <1>3. task[t].at = Len(Script[task[t].kind]) => row = Idle
    BY <1>1 DEF Onwards
  <1>4. ASSUME task[t].at # Len(Script[task[t].kind])
        PROVE  /\ row.kind = task[t].kind /\ row.at = task[t].at + 1
               /\ row.row = task[t].row /\ row.columns = task[t].columns
               /\ row.alone = task[t].alone
    <2>1. row = [task[t] EXCEPT !.at = task[t].at + 1]
      BY <1>1, <1>4 DEF Onwards
    <2> QED BY <1>0, <2>1 DEF TaskState
  <1> QED BY <1>0, <1>2, <1>3, <1>4, OneRow

\* A writer begins: beside another one, neither runs alone any more.
LEMMA AdmitKeeps ==
  ASSUME IInv, WInv, NEW t \in Writers, NEW kind \in Kinds \ {"none"}, NEW row \in Rows,
         NEW columns \in SUBSET Columns, Admit(t, kind, row, columns),
         kind = "release" => row.status = "published",
         kind = "delete" => row.status = "none",
         kind \in CreatorKinds \ {"delete"} => "status" \in columns
  PROVE  WInv'
  <1> DEFINE down == upload.status = "taken_down"
             new == [Idle EXCEPT !.kind = kind, !.row = row, !.columns = columns,
                       !.down = down, !.alone = AtRest]
             tasks == [u \in Tasks |-> IF u = t THEN new
                                      ELSE [task[u] EXCEPT !.alone = FALSE]]
  <1>0. t \in Tasks /\ Writers \subseteq Tasks
    BY DEF Writers, Tasks
  <1>1. /\ Remember(tasks) /\ crossed' = (crossed \/ ~AtRest)
        /\ UNCHANGED <<upload, asset>>
    BY DEF Admit
  <1>2. AtRest \in BOOLEAN /\ down \in BOOLEAN
    BY DEF AtRest
  <1>3. /\ new \in TaskState /\ new.kind = kind /\ new.at = 1 /\ new.row = row
        /\ new.columns = columns /\ new.alone = AtRest
    BY <1>2, IdleType DEF TaskState, Idle
  <1>4. ASSUME NEW u \in Tasks, u # t
        PROVE  /\ tasks[u] \in TaskState /\ tasks[u].kind = task[u].kind
               /\ tasks[u].at = task[u].at /\ tasks[u].row = task[u].row
               /\ tasks[u].columns = task[u].columns /\ ~tasks[u].alone
    <2>1. tasks[u] = [task[u] EXCEPT !.alone = FALSE] /\ task[u] \in TaskState
      BY <1>4, Working
    <2> HIDE DEF tasks
    <2> QED BY <2>1 DEF TaskState
  <1>5. tasks[t] = new
    BY <1>0
  <1> HIDE DEF new
  <1>6. tasks \in [Tasks -> TaskState]
    <2>1. tasks = [u \in Tasks |-> tasks[u]]
      OBVIOUS
    <2>2. \A u \in Tasks : tasks[u] \in TaskState
      BY <1>3, <1>4, <1>5
    <2> HIDE DEF tasks
    <2> QED BY <2>1, <2>2
  <1> HIDE DEF tasks
  <1>7. \A u \in Tasks : Alike(tasks[u], task'[u])
    BY <1>1, <1>6, Remembered
  <1>8. /\ task'[t].kind = kind /\ task'[t].at = 1 /\ task'[t].row = row
        /\ task'[t].columns = columns /\ task'[t].alone = AtRest
    BY <1>0, <1>3, <1>5, <1>7 DEF Alike
  <1>9. \A u \in Writers : u # t =>
          /\ task'[u].kind = task[u].kind /\ task'[u].at = task[u].at
          /\ task'[u].row = task[u].row /\ task'[u].columns = task[u].columns
          /\ ~task'[u].alone
    BY <1>0, <1>4, <1>7 DEF Alike
  <1>10. AtRest /\ ~crossed => Agreed'
    BY <1>1 DEF WInv, Agreed
  <1>11. ASSUME NEW u \in Writers PROVE Written(task[u])' /\ Made(task[u])'
    <2>1. CASE u = t
      <3>1. Written(task[u])'
        BY <1>8, <2>1 DEF Written
      <3>2. task'[t].alone /\ ~crossed' => Agreed'
        BY <1>1, <1>8, <1>10
      <3>3. Made(task[u])'
        BY <1>8, <2>1, <3>2 DEF Made
      <3> QED BY <3>1, <3>3
    <2>2. CASE u # t
      BY <1>9, <2>2 DEF WInv, Promises, Written, Made
    <2> QED BY <2>1, <2>2
  <1>12. Promises'
    BY <1>11 DEF Promises, Writers
  <1>13. Alone'
    BY <1>8, <1>9 DEF Alone, AtRest, Writers
  <1>14. Sole' /\ ~AtRest'
    BY <1>1, <1>8, <1>9 DEF Sole, AtRest, Writers
  <1> QED BY <1>12, <1>13, <1>14 DEF WInv

LEMMA BeginKeeps ==
  ASSUME IInv, WInv, NEW t,
         \/ t \in Creators /\ \/ Publish(t) \/ Patch(t) \/ Unpublish(t) \/ Takedown(t)
                              \/ Archive(t) \/ MakePublic(t) \/ Delete(t)
         \/ t \in Releasers /\ Release(t)
  PROVE  WInv'
  <1>1. upload \in Rows
    BY DEF IInv, RowsOK
  <1>2. PICK kind \in CreatorKinds \cup {"release"}, row \in Rows, columns \in SUBSET Columns :
          /\ Admit(t, kind, row, columns)
          /\ kind = "release" => row.status = "published"
          /\ kind = "delete" => row.status = "none"
          /\ kind \in CreatorKinds \ {"delete"} => "status" \in columns
    <2>1. CASE Publish(t)
      BY <2>1 DEF Publish, CreatorKinds, Rows, Statuses, Releases, Columns
    <2>2. CASE Patch(t)
      BY <1>1, <2>2 DEF Patch, Derived, CreatorKinds, Rows, Statuses, Releases, Columns
    <2>3. CASE Unpublish(t)
      BY <2>3 DEF Unpublish, Withdrawn, NoRow, CreatorKinds, Rows, Statuses, Releases, Columns
    <2>4. CASE Takedown(t)
      BY <2>4 DEF Takedown, Withdrawn, NoRow, CreatorKinds, Rows, Statuses, Releases, Columns
    <2>5. CASE Archive(t)
      BY <2>5 DEF Archive, Withdrawn, NoRow, CreatorKinds, Rows, Statuses, Releases, Columns
    <2>6. CASE MakePublic(t)
      <3>1. PICK row \in Rows : Admit(t, "public", row, {"status", "visibility"})
        BY <2>6 DEF MakePublic, Derived, NoRow, Rows, Statuses, Releases
      <3>2. {"status", "visibility"} \in SUBSET Columns /\ "public" \in CreatorKinds
        BY DEF Columns, CreatorKinds
      <3> QED BY <3>1, <3>2
    <2>7. CASE Delete(t)
      BY <2>7 DEF Delete, NoRow, CreatorKinds, Rows, Statuses, Releases, Columns
    <2>8. CASE Release(t)
      BY <2>8 DEF Release, NoRow, CreatorKinds, Rows, Statuses, Releases, Columns
    <2> QED BY <2>1, <2>2, <2>3, <2>4, <2>5, <2>6, <2>7, <2>8
  <1>3. kind \in Kinds \ {"none"} /\ t \in Writers
    BY DEF CreatorKinds, Kinds, Writers
  <1> QED BY <1>2, <1>3, AdmitKeeps

-----------------------------------------------------------------------------
\* The statement is a writer's last but one, or its last.
LEMMA WriteKeeps ==
  ASSUME IInv, WInv, NEW t \in Writers, Write(t)
  PROVE  WInv'
  <1> DEFINE kind == task[t].kind
             at == task[t].at
             last == Len(Script[kind])
  <1>0. /\ t \in Tasks /\ RowsOK /\ task[t] \in TaskState /\ kind \in Kinds /\ at \in 1 .. 5
        /\ \A statement : At(t, statement) => kind # "none"
    BY Working DEF IInv, Writers, Tasks
  <1>1. Written(task[t]) /\ Made(task[t])
    BY DEF WInv, Promises
  <1>2. CASE WriteRow(t)
    <2>1. kind \in CreatorKinds \ {"delete"} /\ at = 1 /\ last \in {2, 3} /\ kind # "none"
      BY <1>0, <1>2, Places DEF WriteRow
    <2>2. PICK row : row = [Onwards(task[t]) EXCEPT !.columns = {}, !.down = FALSE,
                              !.row = [NoRow EXCEPT !.status = task[t].row.status]]
      OBVIOUS
    <2>3. Onwards(task[t]) = [task[t] EXCEPT !.at = 2]
      BY <2>1 DEF Onwards
    <2>4. /\ row \in TaskState /\ row.kind = kind /\ row.at = 2
          /\ row.row.status = task[t].row.status /\ row.alone = task[t].alone
      <3>1. [NoRow EXCEPT !.status = task[t].row.status] \in Rows
        BY <1>0, IdleType DEF NoRow, Rows, TaskState
      <3> DEFINE written == [NoRow EXCEPT !.status = task[t].row.status]
      <3>2. written.status = task[t].row.status
        BY DEF NoRow
      <3>3. row = [[task[t] EXCEPT !.at = 2] EXCEPT !.columns = {}, !.down = FALSE, !.row = written]
        BY <2>2, <2>3
      <3> HIDE DEF written
      <3>4. [task[t] EXCEPT !.at = 2] \in TaskState
        BY <1>0 DEF TaskState
      <3> QED BY <1>0, <3>1, <3>2, <3>3, <3>4 DEF TaskState, written
    <2>5. Remember([task EXCEPT ![t] = row])
      <3>1. task \in [Tasks -> TaskState]
        BY DEF IInv, TasksOK
      <3> QED BY <1>0, <1>2, <2>2, <3>1 DEF WriteRow
    <2>6. Same(row, task'[t]) /\ \A u \in Writers : u # t => Same(task[u], task'[u])
      BY <1>0, <2>4, <2>5, OneRow DEF Writers, Tasks
    <2>7. upload'.status \in {"none", row.row.status} /\ UNCHANGED <<asset, crossed>>
      <3>1. "status" \in task[t].columns
        BY <1>1, <2>1 DEF Written
      <3> QED BY <1>2, <2>4, <3>1 DEF WriteRow, Columns
    <2>8. Written(row) /\ Made(row)'
      BY <2>1, <2>4, <2>7 DEF Written, Made, CreatorKinds
    <2> QED BY <2>1, <2>4, <2>6, <2>7, <2>8, WriterStep
  <1>3. ASSUME Goes(t), kind # "none",
               crossed' = crossed \/ Uncrossed(t),
               ASSUME NEW row, at # last, row.kind = kind, row.at = at + 1,
                      row.row = task[t].row, row.columns = task[t].columns,
                      row.alone = task[t].alone
               PROVE  Written(row) /\ (task[t].alone => Made(row)'),
               at = last /\ task[t].alone => Agreed'
        PROVE  WInv'
    <2>1. PICK row \in TaskState :
            /\ Same(row, task'[t]) /\ \A u \in Writers : u # t => Same(task[u], task'[u])
            /\ at = last => row = Idle
            /\ at # last => /\ row.kind = kind /\ row.at = at + 1
                            /\ row.row = task[t].row /\ row.columns = task[t].columns
                            /\ row.alone = task[t].alone
      BY <1>3, NextRow
    <2>2. (crossed' => crossed) /\ (~task[t].alone => crossed' = crossed)
      BY <1>0, <1>3 DEF Uncrossed, RowsOK
    <2>3. CASE at = last
      BY <1>3, <2>1, <2>2, <2>3, IdleKeeps, WriterStep DEF Made
    <2>4. CASE at # last
      BY <1>3, <2>1, <2>2, <2>4, WriterStep
    <2> QED BY <2>3, <2>4
  <1>4. ASSUME Ends(t), kind # "none", at = 1, UNCHANGED <<upload, asset, crossed>>
        PROVE  WInv'
    <2>1. Same(Idle, task'[t]) /\ \A u \in Writers : u # t => Same(task[u], task'[u])
      BY <1>0, <1>4, IdleType, OneRow DEF Ends, Writers, Tasks
    <2>2. task[t].alone /\ ~crossed' => Agreed'
      BY <1>1, <1>4 DEF Made, Agreed
    <2> QED BY <1>4, <2>1, <2>2, IdleKeeps, WriterStep DEF Made
  <1>5. CASE Claim(t)
    <2>1. kind = "release" /\ at = 1 /\ last = 2
      BY <1>0, <1>5, Places DEF Claim
    <2>2. CASE upload.status = "scheduled"
      <3>1. /\ upload'.status = "published" /\ Goes(t) /\ UNCHANGED <<asset, crossed>>
        BY <1>0, <1>5, <2>2 DEF Claim, RowsOK, Rows
      <3>2. ASSUME NEW row, row.kind = kind, row.at = at + 1, row.row = task[t].row
            PROVE  Written(row) /\ Made(row)'
        BY <1>1, <2>1, <3>1, <3>2 DEF Written, Made, CreatorKinds
      <3> HIDE DEF kind, at, last
      <3>3. at # last /\ kind # "none" /\ crossed' = crossed
        BY <2>1, <3>1
      <3> QED BY <1>3, <3>1, <3>2, <3>3
    <2>3. CASE upload.status # "scheduled"
      BY <1>4, <1>5, <2>1, <2>3 DEF Claim
    <2> QED BY <2>2, <2>3
  <1>6. CASE WriteAsset(t)
    <2>1. \/ kind = "delete" /\ at = 3 /\ last = 4
          \/ kind # "delete" /\ at = 2 /\ last \in {2, 3}
      BY <1>0, <1>6, Places DEF WriteAsset
    <2>2. /\ asset' \in {"none", task[t].row.status} /\ upload' = upload
          /\ asset = "none" => asset' = "none"
          /\ Goes(t) /\ Uncrossed(t) /\ kind # "none"
      BY <1>0, <1>6 DEF WriteAsset
    <2>3. kind # "delete" /\ task[t].alone => Agreed'
      BY <1>1, <2>1, <2>2 DEF Made, Agreed
    <2>4. kind = "delete" => asset' = "none"
      BY <1>1, <2>2 DEF Written
    <2>5. ASSUME NEW row, at # last, row.kind = kind, row.at = at + 1,
                 row.row = task[t].row, row.alone = task[t].alone
          PROVE  Written(row) /\ (task[t].alone => Made(row)')
      <3>1. Written(row)
        BY <1>1, <2>1, <2>5 DEF Written
      <3>2. ASSUME task[t].alone PROVE Made(row)'
        BY <2>1, <2>3, <2>4, <2>5, <3>2 DEF Made
      <3> QED BY <3>1, <3>2
    <2>6. at = last /\ task[t].alone => Agreed'
      <3>1. kind = "delete" => at # last
        <4> HIDE DEF kind, at, last
        <4> QED BY <2>1
      <3> QED BY <2>3, <3>1
    <2> HIDE DEF kind, at, last
    <2> QED BY <1>3, <2>2, <2>5, <2>6
  <1>7. CASE Expire(t)
    <2>1. \/ kind = "delete" /\ at = 2 /\ last = 4
          \/ kind # "delete" /\ at = 3 /\ last = 3
      BY <1>0, <1>7, Places DEF Expire
    <2>2. UNCHANGED <<upload, asset>> /\ Goes(t) /\ Uncrossed(t) /\ kind # "none"
      BY <1>0, <1>7 DEF Expire
    <2>3. Agreed' = Agreed
      BY <2>2 DEF Agreed
    <2>4. at # last => crossed' = crossed
      BY <1>0, <2>2 DEF Uncrossed, RowsOK
    <2>5. ASSUME NEW row, at # last, row.kind = kind, row.at = at + 1,
                 row.row = task[t].row, row.alone = task[t].alone
          PROVE  Written(row) /\ (task[t].alone => Made(row)')
      <3>1. Written(row)
        BY <1>1, <2>1, <2>5 DEF Written
      <3>2. ASSUME task[t].alone PROVE Made(row)'
        BY <1>1, <2>1, <2>3, <2>4, <2>5, <3>2 DEF Made
      <3> QED BY <3>1, <3>2
    <2>6. at = last /\ task[t].alone => Agreed'
      <3>1. at = last => kind # "delete" /\ at = 3
        <4> HIDE DEF kind, at, last
        <4> QED BY <2>1
      <3> QED BY <1>1, <2>3, <3>1 DEF Made
    <2> HIDE DEF kind, at, last
    <2> QED BY <1>3, <2>2, <2>5, <2>6
  <1>8. CASE CheckPurchases(t)
    <2>1. kind = "delete" /\ at = 1 /\ last = 4 /\ UNCHANGED <<upload, asset, crossed>>
      BY <1>0, <1>8, Places DEF CheckPurchases
    <2>2. CASE Ends(t)
      BY <1>4, <2>1, <2>2
    <2>3. CASE Goes(t)
      <3>1. ASSUME NEW row, row.kind = kind, row.at = at + 1,
                   row.row = task[t].row, row.alone = task[t].alone
            PROVE  Written(row) /\ (task[t].alone => Made(row)')
        BY <1>1, <2>1, <3>1 DEF Written, Made, Agreed
      <3> HIDE DEF kind, at, last
      <3>2. at # last /\ kind # "none" /\ crossed' = crossed
        BY <2>1
      <3> QED BY <1>3, <2>3, <3>1, <3>2
    <2> QED BY <1>8, <2>2, <2>3 DEF CheckPurchases
  <1>9. CASE DeleteRow(t)
    <2>1. kind = "delete" /\ at = 4 /\ last = 4 /\ upload' = NoRow /\ Goes(t) /\ Uncrossed(t)
      BY <1>0, <1>9, Places DEF DeleteRow
    <2>2. Agreed'
      BY <2>1 DEF Agreed, NoRow
    <2> HIDE DEF kind, at, last
    <2> QED BY <1>3, <2>1, <2>2
  <1> QED BY <1>2, <1>5, <1>6, <1>7, <1>8, <1>9 DEF Write

-----------------------------------------------------------------------------
\* What Remember does to a row it is given: nothing the invariant looks at.
LEMMA RowKept ==
  ASSUME NEW tasks, Remember(tasks), NEW u \in Tasks, tasks[u] \in TaskState
  PROVE  Same(tasks[u], task'[u])
  <1> DEFINE open == tasks[u].kind = "media" /\ (tasks[u].open \/ Open')
             entitled == tasks[u].kind = "media" /\ (tasks[u].entitled \/ Entitled')
  <1>1. task'[u] = With(tasks[u], open, entitled)
    BY DEF Remember, With
  <1>2. open \in BOOLEAN /\ entitled \in BOOLEAN
    OBVIOUS
  <1> HIDE DEF open, entitled
  <1> QED BY <1>1, <1>2, Flagged DEF Alike, Same

\* A step in which some other request's row alone is replaced.
LEMMA OtherRow ==
  ASSUME IInv, WInv, NEW t, t \notin Writers, NEW row, Remember([task EXCEPT ![t] = row]),
         UNCHANGED <<upload, asset, crossed>>
  PROVE  WInv'
  <1>1. ASSUME NEW u \in Writers PROVE Same(task[u], task'[u])
    <2> DEFINE tasks == [task EXCEPT ![t] = row]
    <2>1. u \in Tasks /\ task[u] \in TaskState /\ tasks[u] = task[u]
      BY DEF IInv, TasksOK, Writers, Tasks
    <2>2. Remember(tasks)
      OBVIOUS
    <2> HIDE DEF tasks
    <2> QED BY <2>1, <2>2, RowKept
  <1> QED BY <1>1, NoWriter

LEMMA ViewerKeeps ==
  ASSUME IInv, WInv, NEW t,
         \/ t \in Viewers /\ (Play(t) \/ Buy(t) \/ Media(t))
         \/ t \in Sessions /\ Sweep(t)
         \/ t \in Viewers \cup Sessions /\ Validate(t)
  PROVE  WInv'
  <1>1. t \notin Writers /\ t \in Tasks
    BY AccessAssumption DEF Writers, Tasks
  <1>2. ASSUME NEW kind, NEW s, Ask(t, kind, s) PROVE WInv'
    <2>1. PICK row : Remember([task EXCEPT ![t] = row])
      BY <1>2 DEF Ask
    <2> QED BY <1>1, <1>2, <2>1, OtherRow DEF Ask
  <1>3. ASSUME Goes(t), UNCHANGED <<upload, asset, crossed>> PROVE WInv'
    <2>1. PICK row : row = Onwards(task[t])
      OBVIOUS
    <2>2. Remember([task EXCEPT ![t] = row])
      BY <1>3, <2>1 DEF Goes
    <2> QED BY <1>1, <1>3, <2>2, OtherRow
  <1>4. ASSUME Ends(t), UNCHANGED <<upload, asset, crossed>> PROVE WInv'
    BY <1>1, <1>4, OtherRow DEF Ends
  <1>5. ASSUME InsertPurchase(t) PROVE WInv'
    <2>1. PICK tasks : /\ Remember(tasks)
                       /\ \A u \in Tasks \ {t} :
                            \/ tasks[u] = task[u]
                            \/ \E p \in Purchases :
                                 tasks[u] = [task[u] EXCEPT !.unseen = task[u].unseen \cup {p}]
      <3>1. PICK p \in Purchases :
              Remember([u \in Tasks |->
                IF u = t THEN Idle ELSE
                IF task[u].kind = "delete" /\ task[u].at > 1 /\ upload.status # "none"
                THEN [task[u] EXCEPT !.unseen = @ \cup {p}] ELSE task[u]])
        BY <1>5 DEF InsertPurchase
      <3> DEFINE new == [u \in Tasks |->
                          IF u = t THEN Idle ELSE
                          IF task[u].kind = "delete" /\ task[u].at > 1 /\ upload.status # "none"
                          THEN [task[u] EXCEPT !.unseen = @ \cup {p}] ELSE task[u]]
      <3>2. \A u \in Tasks \ {t} :
              \/ new[u] = task[u]
              \/ new[u] = [task[u] EXCEPT !.unseen = task[u].unseen \cup {p}]
        OBVIOUS
      <3>3. Remember(new)
        BY <3>1
      <3> HIDE DEF new
      <3> QED BY <3>2, <3>3
    <2>2. ASSUME NEW u \in Writers PROVE Same(task[u], task'[u])
      <3>1. u \in Tasks \ {t} /\ task[u] \in TaskState
        BY <1>1 DEF IInv, TasksOK, Writers, Tasks
      <3>2. CASE tasks[u] = task[u]
        BY <2>1, <3>1, <3>2, RowKept
      <3>3. CASE tasks[u] # task[u]
        <4>1. PICK p \in Purchases :
                tasks[u] = [task[u] EXCEPT !.unseen = task[u].unseen \cup {p}]
          BY <2>1, <3>1, <3>3
        <4>2. tasks[u] \in TaskState /\ Same(task[u], tasks[u])
          BY <3>1, <4>1 DEF TaskState, Same
        <4>3. Same(tasks[u], task'[u])
          BY <2>1, <3>1, <4>2, RowKept
        <4> QED BY <4>2, <4>3 DEF Same
      <3> QED BY <3>2, <3>3
    <2> QED BY <1>5, <2>2, NoWriter DEF InsertPurchase
  <1>6. ASSUME Pass(t) \/ Refuse(t) PROVE WInv'
    BY <1>3, <1>4, <1>6 DEF Pass, Refuse
  <1>7. CASE Validate(t)
    BY <1>3, <1>4, <1>5, <1>6, <1>7 DEF Validate, ReadUpload, ReadAsset, ReadEntitlement,
       Grant, Serve, CurrentPurchase
  <1> QED BY <1>2, <1>7 DEF Play, Buy, Media, Sweep

LEMMA TimeKeeps ==
  ASSUME IInv, WInv, ReleaseDate \/ Lapse \/ ExpirePurchases
  PROVE  WInv'
  <1>0. RowsOK /\ \A u \in Writers : u \in Tasks /\ task[u] \in TaskState
    BY DEF IInv, TasksOK, Writers, Tasks
  <1>1. CASE Lapse \/ ExpirePurchases
    <2>1. Remember(task) /\ UNCHANGED <<upload, asset, crossed>>
      BY <1>1 DEF Lapse, ExpirePurchases
    <2> QED BY <1>0, <2>1, RowKept, NoWriter
  <1>2. CASE ReleaseDate
    <2> DEFINE tasks == [t \in Tasks |-> [task[t] EXCEPT !.row = Aged(@)]]
    <2>1. /\ Remember(tasks) /\ UNCHANGED <<asset, crossed>>
          /\ upload'.status = upload.status
      BY <1>0, <1>2, AgedRow DEF ReleaseDate, RowsOK
    <2>2. ASSUME NEW u \in Writers PROVE Same(task[u], task'[u])
      <3>1. tasks[u] = [task[u] EXCEPT !.row = Aged(task[u].row)]
        BY <1>0
      <3>2. Aged(task[u].row) \in Rows /\ Aged(task[u].row).status = task[u].row.status
        BY <1>0, AgedRow DEF TaskState
      <3> HIDE DEF tasks
      <3>3. tasks[u] \in TaskState /\ Same(task[u], tasks[u])
        BY <1>0, <3>1, <3>2 DEF TaskState, Same
      <3>4. Same(tasks[u], task'[u])
        BY <1>0, <2>1, <3>3, RowKept
      <3> QED BY <3>3, <3>4 DEF Same
    <2> QED BY <2>1, <2>2, NoWriter
  <1> QED BY <1>1, <1>2

LEMMA AgreeStart == Init => WInv
  <1> SUFFICES ASSUME Init PROVE WInv
    OBVIOUS
  <1>1. \A t \in Writers : task[t] = Idle
    BY DEF Init, Writers, Tasks
  <1>2. Promises /\ Alone /\ Sole
    BY <1>1, IdleKeeps DEF Promises, Alone, Sole, Made
  <1>3. Agreed
    BY DEF Init, Agreed, NoRow
  <1> QED BY <1>2, <1>3 DEF WInv

LEMMA AgreeKeeps == IInv /\ WInv /\ [Next]_vars => WInv'
  <1> SUFFICES ASSUME IInv, WInv, [Next]_vars PROVE WInv'
    OBVIOUS
  <1>1. CASE UNCHANGED vars
    BY <1>1, NoWriter DEF vars, Same
  <1> QED BY <1>1, BeginKeeps, WriteKeeps, ViewerKeeps, TimeKeeps DEF Next

\* However many writers there have been: with none at work, the upload and its
\* asset agree unless two of them crossed and none has run alone since; and the
\* one that then runs alone makes them agree, whatever it is.
THEOREM RowsAgree == Spec => []AssetAgrees
  <1>1. WInv => AssetAgrees
    BY DEF WInv, Agreed, AssetAgrees
  <1>2. Spec => [](IInv /\ WInv)
    BY Start, Keeps, AgreeStart, AgreeKeeps, PTL DEF Spec
  <1> QED BY <1>1, <1>2, PTL
=============================================================================
