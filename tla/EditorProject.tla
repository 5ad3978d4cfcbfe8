---------------------------- MODULE EditorProject ----------------------------
(***************************************************************************)
(* One project of the video editor: its tables, its render jobs and their  *)
(* exports, and the rows a published export leaves in the media pipeline   *)
(* (store, api, media and integrations of vanta-video-editor's backend).   *)
(*                                                                         *)
(* No request holds a transaction: one of several statements is a record   *)
(* of where it is in its Script and what it has read, and may be cut short *)
(* between any two; one of a single statement is an edit.  SQLite checks   *)
(* the foreign keys of every statement, and a statement that breaks one    *)
(* ends its request with an error.                                         *)
(*                                                                         *)
(* A table of the project is followed by whether it holds a row, exports   *)
(* and their jobs one by one.  Only assets with an uploaded file count.    *)
(* Whether the ad slots are valid is recorded in the first statuses of a   *)
(* job ('waiting_for_approval', 'waiting_for_asset', 'running') and of its *)
(* export ('blocked', 'rendering') and read by nothing: both are `open'.   *)
(* So is the status of a project, whatever it is, and its UPDATEs.         *)
(***************************************************************************)
EXTENDS Integers, Sequences, FiniteSets

CONSTANTS
  Requests,   \* requests in progress
  Exports,    \* bound: renders that get as far as a job
  Filled,     \* bound: the tables without a model of their own that get rows
  Together    \* bound: so many of them have rows at a time

Leaves == {"assets", "versions", "tracks", "clips", "slots",
           "requirements", "transcripts", "comments"}
ASSUME EditorAssumption == /\ Filled \subseteq Leaves
                           /\ "none" \notin Exports /\ "timeline" \notin Exports

VARIABLES
  project,    \* the editor_projects row
  rows,       \* the tables, timelines among them, that hold a row
  job,        \* editor_render_jobs.status
  package,    \* the job's render plan names the packaged media
  export,     \* editor_exports.status
  versioned,  \* editor_exports.timeline_version_id is not NULL
  link,       \* the exports with editor_publish_links
  review,     \* what has editor_review_requests: an export, or the timeline
  pipeline,   \* upload_jobs, media_assets and their variants of an export
  task,       \* the requests in progress
  forced,     \* history: exports whose status a patch has set
  unsure      \* history: exports that were last published beside a publish
              \* that had read no package, or with a publish cut short since

children == <<link, review, versioned>>
renders  == <<job, package, export>>
history  == <<forced, unsure>>
vars == <<project, rows, renders, children, pipeline, task, history>>

-----------------------------------------------------------------------------
Gone == {"none", "gone"}
Projects == Gone \cup {"open"}
Jobs     == Gone \cup {"open", "completed", "cancelled"}
Outcomes == Gone \cup {"open", "ready", "published"}
Pipelines == [job : BOOLEAN, asset : {"none", "bare", "path"}, variant : BOOLEAN]
Kinds == {"none", "create", "render", "publish", "patch", "submit",
          "remove_export", "remove_job", "remove"}
\* `export', `version', `manifest', `status': what the request has read, or was
\* given; `alone': nothing else has been at work since it began.
TaskState == [kind : Kinds, at : 1 .. 14, export : Exports \cup {"none"},
              version : BOOLEAN, manifest : BOOLEAN, status : Outcomes,
              given : BOOLEAN, alone : BOOLEAN]
Idle == [kind |-> "none", at |-> 1, export |-> "none", version |-> FALSE,
         manifest |-> FALSE, status |-> "none", given |-> FALSE, alone |-> FALSE]

\* What a row of each table refers to (REFERENCES in the schema).
References ==
  [timelines |-> {"projects"}, assets |-> {"projects"},
   versions |-> {"timelines"}, tracks |-> {"timelines"},
   clips |-> {"timelines", "tracks"}, slots |-> {"projects", "timelines", "tracks"},
   requirements |-> {"projects"}, transcripts |-> {"projects", "timelines"},
   comments |-> {"projects"}, reviews |-> {"projects", "versions"},
   jobs |-> {"projects", "timelines"}, exports |-> {"projects", "jobs"},
   links |-> {"projects", "exports"}, projects |-> {}]
Tables == DOMAIN References

\* (A variant that deletes the exports before the links to them.)
RemoveScriptTop ==
  <<"exports", "links", "jobs", "reviews", "comments", "transcripts",
    "requirements", "slots", "assets", "versions", "clips", "tracks",
    "timelines", "projects">>
\* The DELETEs of delete_project, in order.
RemoveScript ==
  <<"links", "exports", "jobs", "reviews", "comments", "transcripts",
    "requirements", "slots", "assets", "versions", "clips", "tracks",
    "timelines", "projects">>
Script ==
  [create |-> <<"timeline">>,
   render |-> <<"job", "export", "source", "complete", "ready">>,
   publish |-> <<"publish", "read", "pipe_job", "pipe_asset", "pipe_variant">>,
   patch |-> <<"patch">>,
   submit |-> <<"link", "review">>,
   remove_export |-> <<"links_of", "reviews_of", "export_row">>,
   remove_job |-> <<"links_of", "reviews_of", "export_row", "job_row">>,
   remove |-> RemoveScript,
   none |-> << >>]
At(t, statement) == /\ task[t].at \in DOMAIN Script[task[t].kind]
                    /\ Script[task[t].kind][task[t].at] = statement
Onwards(row) == IF row.at = Len(Script[row.kind]) THEN Idle
                ELSE [row EXCEPT !.at = @ + 1]
Goes(t) == task' = [task EXCEPT ![t] = Onwards(@)]
Ends(t) == task' = [task EXCEPT ![t] = Idle]
\* Something else happens beside the requests in progress.
Beside(tasks) == [t \in Requests |-> [tasks[t] EXCEPT !.alone = FALSE]]

Has(table) ==
  CASE table = "projects" -> project \notin Gone
    [] table = "jobs"     -> \E e \in Exports : job[e] \notin Gone
    [] table = "exports"  -> \E e \in Exports : export[e] \notin Gone
    [] table = "links"    -> link # {}
    [] table = "reviews"  -> review # {}
    [] OTHER              -> table \in rows
\* A row may be inserted, and the last ones deleted, under the foreign keys.
MayInsert(table) == \A parent \in References[table] : Has(parent)
MayEmpty(table) == \A child \in Tables : table \in References[child] => ~Has(child)

\* The next statement of a request breaks a foreign key, or NOT NULL.
Breaks(t) ==
  LET e == task[t].export
      gone(what) == what[e] \in Gone \/ project \in Gone
  IN \/ At(t, "timeline") /\ ~MayInsert("timelines")
     \/ At(t, "job") /\ ~MayInsert("jobs")
     \/ At(t, "export") /\ gone(job)
     \/ At(t, "link") /\ gone(export)
     \/ At(t, "review") /\ ~(task[t].version /\ MayInsert("reviews"))
     \/ At(t, "export_row") /\ e \in link
     \/ At(t, "job_row") /\ export[e] \notin Gone
     \/ task[t].kind = "remove" /\ ~MayEmpty(RemoveScript[task[t].at])

Init ==
  /\ project = "none" /\ rows = {}
  /\ job = [e \in Exports |-> "none"] /\ package = [e \in Exports |-> FALSE]
  /\ export = [e \in Exports |-> "none"] /\ versioned = {}
  /\ link = {} /\ review = {}
  /\ pipeline = [e \in Exports |-> [job |-> FALSE, asset |-> "none", variant |-> FALSE]]
  /\ task = [t \in Requests |-> Idle]
  /\ forced = {} /\ unsure = {}

-----------------------------------------------------------------------------
(* Requests begin with what they read.                                     *)

Admit(t, row) ==
  /\ task[t].kind = "none"
  /\ task' = [Beside(task) EXCEPT ![t] =
                [row EXCEPT !.alone = \A u \in Requests : task[u].kind = "none"]]
Asks(t, kind, e) ==
  /\ Admit(t, [Idle EXCEPT !.kind = kind, !.export = e])
  /\ UNCHANGED <<project, rows, renders, children, pipeline, history>>

\* The project's own row is the first one create_project writes.
Create(t) ==
  /\ project = "none"
  /\ project' = "open"
  /\ Admit(t, [Idle EXCEPT !.kind = "create"])
  /\ UNCHANGED <<rows, renders, children, pipeline, history>>
Render(t) ==
  /\ "timelines" \in rows
  /\ Admit(t, [Idle EXCEPT !.kind = "render", !.version = "versions" \in rows])
  /\ UNCHANGED <<project, rows, renders, children, pipeline, history>>
Publish(t, e) == export[e] \notin Gone /\ Asks(t, "publish", e)
Submit(t, e) ==
  /\ export[e] \notin Gone
  /\ Admit(t, [Idle EXCEPT !.kind = "submit", !.export = e,
                           !.version = e \in versioned])
  /\ UNCHANGED <<project, rows, renders, children, pipeline, history>>
RemoveExport(t, e) == export[e] \notin Gone /\ Asks(t, "remove_export", e)
\* The exports of the job are listed; without one its own row is left.
RemoveJob(t, e) ==
  /\ job[e] \notin Gone
  /\ Admit(t, [Idle EXCEPT !.kind = "remove_job", !.export = e,
                           !.at = IF export[e] \in Gone THEN 4 ELSE 1])
  /\ UNCHANGED <<project, rows, renders, children, pipeline, history>>
Remove(t) == project \notin Gone /\ Asks(t, "remove", "none")
\* A patch of an export gives a status, or keeps the one it has read.
Patch(t, e) ==
  /\ export[e] \notin Gone
  /\ \E given \in BOOLEAN, status \in Outcomes \ Gone :
       /\ given \/ status = export[e]
       /\ Admit(t, [Idle EXCEPT !.kind = "patch", !.export = e,
                                !.status = status, !.given = given])
  /\ UNCHANGED <<project, rows, renders, children, pipeline, history>>

-----------------------------------------------------------------------------
(* Their statements.                                                       *)

Refused(t) ==
  /\ Breaks(t)
  /\ UNCHANGED <<project, rows, renders, children, pipeline, history>>
  /\ Ends(t)

FirstTimeline(t) ==
  /\ At(t, "timeline") /\ ~Breaks(t)
  /\ rows' = rows \cup {"timelines"}
  /\ UNCHANGED <<project, renders, children, pipeline, history>>
  /\ Goes(t)

InsertJob(t) ==
  /\ At(t, "job") /\ ~Breaks(t)
  /\ \E e \in Exports :
       /\ job[e] = "none"
       /\ job' = [job EXCEPT ![e] = "open"]
       /\ task' = [task EXCEPT ![t] = [Onwards(@) EXCEPT !.export = e]]
  /\ UNCHANGED <<project, rows, package, export, children, pipeline, history>>
InsertExport(t) ==
  /\ At(t, "export") /\ ~Breaks(t)
  /\ export' = [export EXCEPT ![task[t].export] = "open"]
  /\ versioned' = IF task[t].version THEN versioned \cup {task[t].export} ELSE versioned
  /\ UNCHANGED <<project, rows, job, package, link, review, pipeline, history>>
  /\ Goes(t)
\* There is an asset with an uploaded file; or there may be one, where assets
\* are not followed.
Sourced == "assets" \in rows \cup (Leaves \ Filled)
\* The job is read back, then the source: without one the job waits.  The
\* packaging itself may fail.
ReadSource(t) ==
  /\ At(t, "source")
  /\ UNCHANGED <<project, rows, renders, children, pipeline, history>>
  /\ \/ job[task[t].export] \notin Gone /\ Sourced /\ Goes(t)
     \/ Ends(t)
Complete(t) ==
  /\ At(t, "complete")
  /\ LET e == task[t].export
         there == job[e] \notin Gone
     IN /\ job' = [job EXCEPT ![e] = IF there THEN "completed" ELSE @]
        /\ package' = [package EXCEPT ![e] = @ \/ there]
  /\ UNCHANGED <<project, rows, export, children, pipeline, history>>
  /\ Goes(t)
Update(t, e, status) == export' = [export EXCEPT ![e] = IF @ \in Gone THEN @ ELSE status]
Ready(t) ==
  /\ At(t, "ready")
  /\ Update(t, task[t].export, "ready")
  /\ UNCHANGED <<project, rows, job, package, children, pipeline, history>>
  /\ Goes(t)
WriteExport(t) ==
  /\ At(t, "patch")
  /\ Update(t, task[t].export, task[t].status)
  /\ forced' = IF task[t].given /\ export[task[t].export] \notin Gone
               THEN forced \cup {task[t].export} ELSE forced
  /\ UNCHANGED <<project, rows, job, package, children, pipeline, unsure>>
  /\ Goes(t)

\* Another publish of the export is at work with a job it read too early.
Belated(t, e) == \E u \in Requests \ {t} :
  task[u].kind = "publish" /\ task[u].export = e /\ task[u].at > 2 /\ ~task[u].manifest
WritePublished(t) ==
  /\ At(t, "publish")
  /\ LET e == task[t].export IN
       IF export[e] = "ready"
         THEN /\ export' = [export EXCEPT ![e] = "published"]
              /\ unsure' = IF Belated(t, e) THEN unsure \cup {e} ELSE unsure \ {e}
         ELSE UNCHANGED <<export, unsure>>
  /\ UNCHANGED <<project, rows, job, package, children, pipeline, forced>>
  /\ Goes(t)
\* The export, the project and the job once more, whatever the status is.
ReadJob(t) ==
  /\ At(t, "read")
  /\ UNCHANGED <<project, rows, renders, children, pipeline, history>>
  /\ LET e == task[t].export IN
       IF export[e] \in Gone \/ job[e] \in Gone \/ project \in Gone THEN Ends(t)
       ELSE task' = [task EXCEPT ![t] = [Onwards(@) EXCEPT !.manifest = package[e]]]

PipelineJob(t) ==
  /\ At(t, "pipe_job")
  /\ pipeline' = [pipeline EXCEPT ![task[t].export].job = TRUE]
  /\ UNCHANGED <<project, rows, renders, children, history>>
  /\ Goes(t)
\* (A variant whose upsert keeps the row it finds.)
PipelineAssetKept(t) ==
  /\ At(t, "pipe_asset")
  /\ pipeline' = [pipeline EXCEPT ![task[t].export].asset =
                    IF @ # "none" THEN @ ELSE IF task[t].manifest THEN "path" ELSE "bare"]
  /\ UNCHANGED <<project, rows, renders, children, history>>
  /\ Goes(t)
PipelineAsset(t) ==
  /\ At(t, "pipe_asset")
  /\ pipeline' = [pipeline EXCEPT ![task[t].export].asset =
                    IF task[t].manifest THEN "path" ELSE "bare"]
  /\ UNCHANGED <<project, rows, renders, children, history>>
  /\ Goes(t)
PipelineVariant(t) ==
  /\ At(t, "pipe_variant")
  /\ pipeline' = [pipeline EXCEPT ![task[t].export].variant = @ \/ task[t].manifest]
  /\ UNCHANGED <<project, rows, renders, children, history>>
  /\ Goes(t)

InsertLink(t) ==
  /\ At(t, "link") /\ ~Breaks(t)
  /\ link' = link \cup {task[t].export}
  /\ UNCHANGED <<project, rows, renders, review, versioned, pipeline, history>>
  /\ Goes(t)
InsertReview(t) ==
  /\ At(t, "review") /\ ~Breaks(t)
  /\ review' = review \cup {task[t].export}
  /\ UNCHANGED <<project, rows, renders, link, versioned, pipeline, history>>
  /\ Goes(t)

\* The DELETEs of one export and of its job.  Of a job, an export that was
\* listed and is gone ends the request.
DeleteLinks(t) ==
  /\ At(t, "links_of")
  /\ IF task[t].kind = "remove_job" /\ export[task[t].export] \in Gone
       THEN link' = link /\ Ends(t)
       ELSE link' = link \ {task[t].export} /\ Goes(t)
  /\ UNCHANGED <<project, rows, renders, review, versioned, pipeline, history>>
DeleteReviews(t) ==
  /\ At(t, "reviews_of")
  /\ review' = review \ {task[t].export}
  /\ UNCHANGED <<project, rows, renders, link, versioned, pipeline, history>>
  /\ Goes(t)
DeleteExport(t) ==
  /\ At(t, "export_row") /\ ~Breaks(t)
  /\ export' = [export EXCEPT ![task[t].export] = "gone"]
  /\ UNCHANGED <<project, rows, job, package, children, pipeline, history>>
  /\ Goes(t)
DeleteJob(t) ==
  /\ At(t, "job_row") /\ ~Breaks(t)
  /\ job' = [job EXCEPT ![task[t].export] = "gone"]
  /\ UNCHANGED <<project, rows, package, export, children, pipeline, history>>
  /\ Goes(t)

Cleared(column) == [e \in Exports |-> IF column[e] \in Gone THEN column[e] ELSE "gone"]
\* One DELETE of delete_project.
Empty(t) ==
  /\ task[t].kind = "remove" /\ ~Breaks(t)
  /\ LET table == RemoveScript[task[t].at] IN
       /\ rows' = rows \ {table}
       /\ project' = IF table = "projects" THEN "gone" ELSE project
       /\ link' = IF table = "links" THEN {} ELSE link
       /\ review' = IF table = "reviews" THEN {} ELSE review
       /\ job' = IF table = "jobs" THEN Cleared(job) ELSE job
       /\ export' = IF table = "exports" THEN Cleared(export) ELSE export
  /\ UNCHANGED <<package, versioned, pipeline, history>>
  /\ Goes(t)

\* The server stops, or the client hangs up, between two statements.
CutShort(t) ==
  /\ task[t].kind # "none"
  /\ unsure' = IF task[t].kind = "publish" /\ task[t].at > 1
               THEN unsure \cup {task[t].export} ELSE unsure
  /\ UNCHANGED <<project, rows, renders, children, pipeline, forced>>
  /\ Ends(t)

-----------------------------------------------------------------------------
(* Edits: requests of one statement.                                       *)

Edit == task' = Beside(task)

AddRow(table) ==
  /\ MayInsert(table)
  /\ Cardinality((rows \cup {table}) \cap Leaves) <= Together
  /\ rows' = rows \cup {table}
  /\ UNCHANGED <<project, renders, children, pipeline, history>>
  /\ Edit
\* The last row of a table is deleted; versions only go with their timeline.
DropRow(table) ==
  /\ table \in rows /\ table # "versions"
  /\ MayEmpty(table)
  /\ rows' = rows \ {table}
  /\ UNCHANGED <<project, renders, children, pipeline, history>>
  /\ Edit
AskReview ==
  /\ MayInsert("reviews")
  /\ review' = review \cup {"timeline"}
  /\ UNCHANGED <<project, rows, renders, link, versioned, pipeline, history>>
  /\ Edit
DropReview == \E what \in review :
  /\ review' = review \ {what}
  /\ UNCHANGED <<project, rows, renders, link, versioned, pipeline, history>>
  /\ Edit
AddLink(e) ==
  /\ export[e] \notin Gone
  /\ link' = link \cup {e}
  /\ UNCHANGED <<project, rows, renders, review, versioned, pipeline, history>>
  /\ Edit
DropLink(e) ==
  /\ e \in link
  /\ link' = link \ {e}
  /\ UNCHANGED <<project, rows, renders, review, versioned, pipeline, history>>
  /\ Edit
\* (A variant that cancels whatever there is.)
CancelAny(e) ==
  /\ job[e] \notin Gone
  /\ job' = [job EXCEPT ![e] = "cancelled"]
  /\ UNCHANGED <<project, rows, package, export, children, pipeline, history>>
  /\ Edit
Cancel(e) ==
  /\ job[e] = "open"
  /\ job' = [job EXCEPT ![e] = "cancelled"]
  /\ UNCHANGED <<project, rows, package, export, children, pipeline, history>>
  /\ Edit

Begin(t) ==
  \/ Create(t) \/ Render(t) \/ Remove(t)
  \/ \E e \in Exports : \/ Publish(t, e) \/ Submit(t, e) \/ Patch(t, e)
                        \/ RemoveExport(t, e) \/ RemoveJob(t, e)
Write(t) ==
  \/ Refused(t) \/ FirstTimeline(t)
  \/ InsertJob(t) \/ InsertExport(t) \/ ReadSource(t) \/ Complete(t) \/ Ready(t)
  \/ WriteExport(t) \/ WritePublished(t) \/ ReadJob(t)
  \/ PipelineJob(t) \/ PipelineAsset(t) \/ PipelineVariant(t)
  \/ InsertLink(t) \/ InsertReview(t)
Delete(t) ==
  \/ DeleteLinks(t) \/ DeleteReviews(t) \/ DeleteExport(t) \/ DeleteJob(t) \/ Empty(t)
Next ==
  \/ \E t \in Requests : Begin(t) \/ Write(t) \/ Delete(t) \/ CutShort(t)
  \/ \E table \in Filled : AddRow(table) \/ DropRow(table)
  \/ AskReview \/ DropReview
  \/ \E e \in Exports : AddLink(e) \/ DropLink(e) \/ Cancel(e)
Spec == Init /\ [][Next]_vars

-----------------------------------------------------------------------------
(* Properties *)

\* The tables and the requests hold what they may.
TypeOK ==
  /\ project \in Projects /\ rows \subseteq Leaves \cup {"timelines"}
  /\ job \in [Exports -> Jobs] /\ package \in [Exports -> BOOLEAN]
  /\ export \in [Exports -> Outcomes] /\ versioned \subseteq Exports
  /\ link \subseteq Exports /\ review \subseteq Exports \cup {"timeline"}
  /\ pipeline \in [Exports -> Pipelines]
  /\ task \in [Requests -> TaskState]
  /\ forced \subseteq Exports /\ unsure \subseteq Exports

\* An export that is ready or published was rendered: its job is completed and
\* names the package, unless a patch gave the export its status.  Neither a
\* cancellation between the two UPDATEs of the completion, nor a patch that
\* writes back a status it read, undoes that.
ReadyIsRendered ==
  \A e \in Exports : export[e] \in {"ready", "published"} /\ e \notin forced
                     => job[e] = "completed" /\ package[e]

\* A published export, once no publish of it is at work, can be played from the
\* media pipeline, unless its status was given, a publish of it was cut short and
\* none has published it since, or it was published beside another publish that
\* had read the job too early.
PublishedIsPlayable ==
  \A e \in Exports :
    /\ export[e] = "published" /\ e \notin forced \cup unsure
    /\ \A t \in Requests : task[t].kind = "publish" => task[t].export # e
    => pipeline[e] = [job |-> TRUE, asset |-> "path", variant |-> TRUE]

\* A deletion that nothing else happens beside is never refused by a foreign
\* key: each handler deletes what refers to a row before the row.
DeletesGoThrough ==
  \A t \in Requests :
    task[t].kind \in {"remove", "remove_job", "remove_export"} /\ task[t].alone
      => ~Breaks(t)
=============================================================================
