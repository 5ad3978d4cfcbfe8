---------------------------- MODULE ContentAccess ----------------------------
(***************************************************************************)
(* Who may watch an upload, and until when: the upload's row, its asset's  *)
(* row, the purchases of one viewer and the playback sessions granted on   *)
(* them (uploads, media/jobs/publish, playback and playauth of the API).   *)
(*                                                                         *)
(* The creator's requests, the release of scheduled uploads, the viewer's  *)
(* requests and the background pass each read first and write later, one   *)
(* statement at a time, with no transaction around them: a request is a    *)
(* record of where it is and what it read.                                 *)
(*                                                                         *)
(* One upload of one job that is sold, and a viewer who is not its         *)
(* creator: a free upload skips the last of the reads, a membership opens  *)
(* one the way a purchase does and is swept by the same pass, 'unlisted'   *)
(* is as good as 'public' here and 'archived' as 'draft', which no guard    *)
(* tells apart; none of them is repeated.                                  *)
(***************************************************************************)
EXTENDS Integers, Sequences, FiniteSets

CONSTANTS
  Creators,    \* requests of the creator in progress
  Releasers,   \* passes of the scheduled release in progress
  Viewers,     \* requests of the viewer in progress
  Sessions,    \* bound: playback sessions granted
  Purchases    \* bound: purchases made

ASSUME AccessAssumption ==
  /\ Creators \cap Releasers = {} /\ Creators \cap Viewers = {}
  /\ Releasers \cap Viewers = {} /\ Sessions \cap Viewers = {}
  /\ Sessions \cap Creators = {} /\ Sessions \cap Releasers = {}

VARIABLES
  upload,     \* uploads: status, visibility, release_at
  asset,      \* media_assets.status
  job,        \* the upload_jobs row is there
  purchase,   \* content_purchases of the viewer
  session,    \* playback_sessions of the viewer
  task,       \* the requests in progress
  crossed     \* history: writers overlapped, and none has run alone since

vars == <<upload, asset, job, purchase, session, task, crossed>>

-----------------------------------------------------------------------------
Tasks   == Creators \cup Releasers \cup Viewers \cup Sessions
Writers == Creators \cup Releasers
Columns == {"status", "visibility", "release"}
Statuses == {"none", "draft", "scheduled", "published", "taken_down"}
Releases == {"none", "past", "future"}
Rows == [status : Statuses, visibility : {"public", "private"},
         release : Releases]

Kinds == {"none", "publish", "patch", "unpublish", "takedown", "archive",
          "public", "delete", "release", "play", "buy", "media", "sweep"}
\* `row' and `columns': the UPDATE to make;
\* `down': the upload was taken down when the request began; `unseen': the
\* purchases made since it looked for some; `open', `entitled': the upload has
\* been open, the viewer entitled to it, at some moment since a file was asked for;
\* `alone': a writer beside which no other one has been at work.
TaskState == [kind : Kinds, at : 1 .. 5, row : Rows, columns : SUBSET Columns,
              session : Sessions \cup {"none"}, down : BOOLEAN,
              unseen : SUBSET Purchases, open : BOOLEAN, entitled : BOOLEAN,
              alone : BOOLEAN]
NoRow == [status |-> "none", visibility |-> "private", release |-> "none"]
Idle == [kind |-> "none", at |-> 1, row |-> NoRow, columns |-> {},
         session |-> "none", down |-> FALSE, unseen |-> {},
         open |-> FALSE, entitled |-> FALSE, alone |-> FALSE]

\* The statements each request still makes after it was admitted.
Script ==
  [publish |-> <<"row", "asset">>,
   patch |-> <<"row", "asset", "expire">>, unpublish |-> <<"row", "asset", "expire">>,
   takedown |-> <<"row", "asset", "expire">>, archive |-> <<"row", "asset", "expire">>,
   public |-> <<"row", "asset", "expire">>,
   delete |-> <<"check", "expire", "asset", "gone">>,
   release |-> <<"claim", "asset">>,
   play |-> <<"read", "target", "entitlement", "grant">>,
   media |-> <<"read", "target", "entitlement", "serve">>,
   sweep |-> <<"read", "target", "entitlement">>,
   buy |-> <<"target", "current", "insert">>,
   none |-> << >>]
At(t, statement) == /\ task[t].at \in DOMAIN Script[task[t].kind]
                    /\ Script[task[t].kind][task[t].at] = statement
Onwards(row) == IF row.at = Len(Script[row.kind]) THEN Idle
                ELSE [row EXCEPT !.at = @ + 1]
AtRest == \A t \in Writers : task[t].kind = "none"

Playable(status) == status \in {"ready", "published"}
Open == /\ upload.status = "published" /\ upload.visibility = "public"
        /\ upload.release # "future"
Entitled == \E p \in Purchases : purchase[p] = "active"

\* Every request for a file remembers what it could have seen.
Remember(tasks) ==
  task' = [t \in Tasks |-> [tasks[t] EXCEPT
             !.open = tasks[t].kind = "media" /\ (@ \/ Open'),
             !.entitled = tasks[t].kind = "media" /\ (@ \/ Entitled')]]
Goes(t) == Remember([task EXCEPT ![t] = Onwards(@)])
Ends(t) == Remember([task EXCEPT ![t] = Idle])

Init ==
  /\ upload = NoRow /\ asset = "ready" /\ job = TRUE
  /\ purchase = [p \in Purchases |-> "none"]
  /\ session = [s \in Sessions |-> "none"]
  /\ task = [t \in Tasks |-> Idle]
  /\ crossed = FALSE

-----------------------------------------------------------------------------
(* The creator's requests: what they read, and the row they will write.    *)

\* A request of a writer begins; it may cross another one.
Admit(t, kind, row, columns) ==
  /\ task[t].kind = "none"
  /\ UNCHANGED <<upload, asset, job, purchase, session>>
  /\ Remember([u \in Tasks |->
       IF u = t THEN [Idle EXCEPT !.kind = kind, !.row = row, !.columns = columns,
                        !.down = upload.status = "taken_down", !.alone = AtRest]
       ELSE [task[u] EXCEPT !.alone = FALSE]])
  /\ crossed' = (crossed \/ ~AtRest)

Derived(status, visibility, release) ==
  IF status = "taken_down" THEN "taken_down"
  ELSE IF visibility = "private" THEN "draft"
  ELSE IF release = "future" THEN "scheduled" ELSE "published"

\* publish_upload_job looks at the job and its asset, not at the upload.
Publish(t) ==
  \E visibility \in {"public", "private"}, release \in {"past", "future"} :
    LET status == IF release = "future" THEN "scheduled"
                  ELSE IF visibility = "public" THEN "published" ELSE "draft"
    IN /\ job
       /\ Admit(t, "publish", [status |-> status, visibility |-> visibility,
                               release |-> release], Columns)

\* The lifecycle patch and the content patch: what is not given is kept as read.
Patch(t) ==
  \E visibility \in {"public", "private"}, release \in {upload.release, "future"} :
    /\ upload.status \notin {"none", "taken_down"}
    /\ Admit(t, "patch",
             [status |-> Derived(upload.status, visibility, release),
              visibility |-> visibility, release |-> release], Columns)

Withdrawn(status) == [NoRow EXCEPT !.status = status]
Unpublish(t) ==
  /\ upload.status \notin {"none", "taken_down"}
  /\ Admit(t, "unpublish", Withdrawn("draft"), Columns)
Takedown(t) ==
  /\ upload.status # "none"
  /\ Admit(t, "takedown", Withdrawn("taken_down"), Columns)
Archive(t) ==
  /\ upload.status \notin {"none", "taken_down"}
  /\ Admit(t, "archive", Withdrawn("draft"), {"status"})
MakePublic(t) ==
  /\ upload.status \notin {"none", "taken_down"}
  /\ Admit(t, "public",
           [NoRow EXCEPT !.visibility = "public",
              !.status = Derived(upload.status, "public", upload.release)],
           {"status", "visibility"})
Delete(t) ==
  /\ upload.status \in {"draft", "taken_down"}
  /\ Admit(t, "delete", NoRow, {})

\* The rows the release finds due.
Release(t) ==
  /\ upload.status = "scheduled" /\ upload.visibility = "public"
  /\ upload.release = "past"
  /\ Admit(t, "release", [NoRow EXCEPT !.status = "published"], {"status"})

-----------------------------------------------------------------------------
(* Their statements.                                                       *)

\* The last one of a request that ran alone has made the two rows agree.
Uncrossed(t) ==
  crossed' = (crossed /\ ~(/\ task[t].at = Len(Script[task[t].kind])
                           /\ task[t].alone))

\* INSERT ... ON CONFLICT for a publish, UPDATE ... WHERE id for the others.
WriteRow(t) ==
  /\ At(t, "row")
  /\ upload' = IF upload.status = "none" /\ task[t].kind # "publish" THEN upload
               ELSE [c \in Columns |-> IF c \in task[t].columns THEN task[t].row[c]
                                       ELSE upload[c]]
  /\ UNCHANGED <<asset, job, purchase, session, crossed>>
  /\ Remember([task EXCEPT ![t] = [Onwards(@) EXCEPT !.columns = {}, !.down = FALSE,
                  !.row = [NoRow EXCEPT !.status = task[t].row.status]]])

\* (A variant that does not look at the status again.)
ClaimUnguarded(t) ==
  /\ At(t, "claim")
  /\ upload' = IF upload.status = "none" THEN upload
               ELSE [upload EXCEPT !.status = "published"]
  /\ UNCHANGED <<asset, job, purchase, session, crossed>>
  /\ Goes(t)
Claim(t) ==
  /\ At(t, "claim")
  /\ IF upload.status = "scheduled"
       THEN /\ upload' = [upload EXCEPT !.status = "published"]
            /\ UNCHANGED <<asset, job, purchase, session, crossed>>
            /\ Goes(t)
       ELSE /\ UNCHANGED <<upload, asset, job, purchase, session, crossed>>
            /\ Ends(t)

\* (A variant of the archive that leaves the asset alone.)
WriteAssetSome(t) ==
  /\ At(t, "asset")
  /\ asset' = IF task[t].kind = "archive" THEN asset ELSE task[t].row.status
  /\ job' = (job /\ task[t].kind # "delete")
  /\ UNCHANGED <<upload, purchase, session>>
  /\ Uncrossed(t)
  /\ Goes(t)
WriteAsset(t) ==
  /\ At(t, "asset")
  /\ asset' = IF asset = "none" THEN "none" ELSE task[t].row.status
  /\ job' = (job /\ task[t].kind # "delete")
  /\ UNCHANGED <<upload, purchase, session>>
  /\ Uncrossed(t)
  /\ Goes(t)

Expire(t) ==
  /\ At(t, "expire")
  /\ session' = [s \in Sessions |-> IF session[s] = "active" THEN "expired"
                                    ELSE session[s]]
  /\ UNCHANGED <<upload, asset, job, purchase>>
  /\ Uncrossed(t)
  /\ Goes(t)

\* (A variant without the check.)
CheckPurchasesNot(t) ==
  /\ At(t, "check")
  /\ UNCHANGED <<upload, asset, job, purchase, session, crossed>>
  /\ Goes(t)
\* Purchases whose time is over still count until they are marked so.
CheckPurchases(t) ==
  /\ At(t, "check")
  /\ UNCHANGED <<upload, asset, job, purchase, session, crossed>>
  /\ IF \E p \in Purchases : purchase[p] \in {"active", "lapsed"}
       THEN Ends(t) ELSE Goes(t)

\* The last DELETE; the purchases of the upload go with it (ON DELETE CASCADE).
DeleteRow(t) ==
  /\ At(t, "gone")
  /\ upload' = NoRow
  /\ purchase' = [p \in Purchases |-> "none"]
  /\ UNCHANGED <<asset, job, session>>
  /\ Uncrossed(t)
  /\ Goes(t)

-----------------------------------------------------------------------------
(* The viewer's requests and the background pass.                          *)

Ask(t, kind, s) ==
  /\ task[t].kind = "none"
  /\ UNCHANGED <<upload, asset, job, purchase, session, crossed>>
  /\ Remember([task EXCEPT ![t] = [Idle EXCEPT !.kind = kind, !.session = s]])

Play(t) == \E s \in Sessions : session[s] = "none" /\ Ask(t, "play", s)
Buy(t) == upload.status # "none" /\ Ask(t, "buy", "none")
\* A file is asked for with the session's token.
Media(t) == \E s \in Sessions : session[s] = "active" /\ Ask(t, "media", s)
Sweep(s) == session[s] = "active" /\ Ask(s, "sweep", s)

\* (A variant that leaves the session to its lifetime.)
RefuseOnly(t) ==
  /\ UNCHANGED <<upload, asset, job, purchase, session, crossed>>
  /\ Ends(t)
\* A check that fails answers the viewer with an error, and expires the
\* session it was about.
Refuse(t) ==
  /\ session' = [s \in Sessions |->
       IF /\ s = task[t].session /\ task[t].kind \in {"media", "sweep"}
          /\ session[s] = "active"
       THEN "expired" ELSE session[s]]
  /\ UNCHANGED <<upload, asset, job, purchase, crossed>>
  /\ Ends(t)
Pass(t) == /\ UNCHANGED <<upload, asset, job, purchase, session, crossed>>
           /\ Goes(t)

ReadUpload(t) ==
  /\ At(t, "read")
  /\ IF Open THEN Pass(t) ELSE Refuse(t)
ReadAsset(t) ==
  /\ At(t, "target")
  /\ IF Playable(asset) THEN Pass(t) ELSE Refuse(t)
\* (A variant that trusts the session it was given.)
TrustSession(t) == At(t, "entitlement") /\ Pass(t)
ReadEntitlement(t) ==
  /\ At(t, "entitlement")
  /\ IF Entitled THEN Pass(t) ELSE Refuse(t)

Grant(t) ==
  /\ At(t, "grant")
  /\ session' = [session EXCEPT ![task[t].session] =
                   IF @ = "none" THEN "active" ELSE @]
  /\ UNCHANGED <<upload, asset, job, purchase, crossed>>
  /\ Ends(t)
\* The asset is read once more for the file's path; either answer writes nothing.
Serve(t) == At(t, "serve") /\ Pass(t)

\* A viewer who has bought the upload is shown that purchase.
CurrentPurchase(t) ==
  /\ At(t, "current")
  /\ UNCHANGED <<upload, asset, job, purchase, session, crossed>>
  /\ IF \E p \in Purchases : purchase[p] = "active" THEN Ends(t) ELSE Goes(t)
\* The foreign key wants the upload to be there.
InsertPurchase(t) ==
  /\ At(t, "insert")
  /\ \E p \in Purchases :
       /\ purchase[p] = "none"
       /\ purchase' = IF upload.status = "none" THEN purchase
                      ELSE [purchase EXCEPT ![p] = "active"]
       /\ UNCHANGED <<upload, asset, job, session, crossed>>
       /\ Remember([u \in Tasks |->
            IF u = t THEN Idle ELSE
            IF task[u].kind = "delete" /\ task[u].at > 1 /\ upload.status # "none"
            THEN [task[u] EXCEPT !.unseen = @ \cup {p}] ELSE task[u]])

-----------------------------------------------------------------------------
(* Time.                                                                   *)

Aged(row) == [row EXCEPT !.release = IF @ = "future" THEN "past" ELSE @]
\* The release date comes.
ReleaseDate ==
  /\ upload.release = "future"
  /\ upload' = Aged(upload)
  /\ UNCHANGED <<asset, job, purchase, session, crossed>>
  /\ Remember([t \in Tasks |-> [task[t] EXCEPT !.row = Aged(@)]])
\* A rental ends; the pass marks it later.
Lapse == \E p \in Purchases :
  /\ purchase[p] = "active"
  /\ purchase' = [purchase EXCEPT ![p] = "lapsed"]
  /\ UNCHANGED <<upload, asset, job, session, crossed>>
  /\ Remember(task)
ExpirePurchases ==
  /\ \E p \in Purchases : purchase[p] = "lapsed"
  /\ purchase' = [p \in Purchases |-> IF purchase[p] = "lapsed" THEN "expired"
                                      ELSE purchase[p]]
  /\ UNCHANGED <<upload, asset, job, session, crossed>>
  /\ Remember(task)

Write(t) == \/ WriteRow(t) \/ Claim(t) \/ WriteAsset(t) \/ Expire(t)
            \/ CheckPurchases(t) \/ DeleteRow(t)
Validate(t) == \/ ReadUpload(t) \/ ReadAsset(t) \/ ReadEntitlement(t)
               \/ Grant(t) \/ Serve(t) \/ CurrentPurchase(t) \/ InsertPurchase(t)
Next ==
  \/ \E t \in Creators : \/ Publish(t) \/ Patch(t) \/ Unpublish(t) \/ Takedown(t)
                         \/ Archive(t) \/ MakePublic(t) \/ Delete(t)
  \/ \E t \in Releasers : Release(t)
  \/ \E t \in Writers : Write(t)
  \/ \E t \in Viewers : Play(t) \/ Buy(t) \/ Media(t)
  \/ \E s \in Sessions : Sweep(s)
  \/ \E t \in Viewers \cup Sessions : Validate(t)
  \/ ReleaseDate \/ Lapse \/ ExpirePurchases

\* The background worker comes back every few seconds and looks at each session.
Fairness == \A s \in Sessions : WF_vars(Sweep(s) \/ Validate(s))
Spec == Init /\ [][Next]_vars /\ Fairness

-----------------------------------------------------------------------------
(* Properties *)

\* Rows, requests and what they remember are of the right kind.
TypeOK ==
  /\ upload \in Rows
  /\ asset \in {"ready"} \cup Statuses
  /\ job \in BOOLEAN
  /\ purchase \in [Purchases -> {"none", "active", "lapsed", "expired"}]
  /\ session \in [Sessions -> {"none", "active", "expired"}]
  /\ task \in [Tasks -> TaskState]
  /\ crossed \in BOOLEAN

\* A file is served only to a request during which the upload was open at some
\* moment and the viewer entitled to it at some moment: a session that outlived
\* its access, because it was granted while the access was withdrawn or because
\* the rental lapsed, does not bring it back.
ServedWithAccess ==
  \A t \in Viewers : At(t, "serve") => task[t].open /\ task[t].entitled

\* A taken-down upload comes back only by publishing its job again or by a
\* request that began before the takedown; the release never brings it back.
TakedownHolds ==
  [][ upload.status = "taken_down" /\ upload'.status \notin {"taken_down", "none"}
      => \E t \in Creators : /\ At(t, "row")
                             /\ task[t].kind = "publish" \/ ~task[t].down ]_vars

\* Unless two writers crossed, the upload and its asset agree whenever no
\* writer is at work, so that a published upload can be played; and the next
\* writer that runs alone mends what two crossed ones left behind.
AssetAgrees ==
  AtRest /\ ~crossed /\ upload.status # "none" /\ asset # "none"
    => asset = upload.status

\* A purchase that is paid for disappears only with an upload whose deletion
\* had looked for purchases before this one was made.
BuyersAreKept ==
  [][ \A p \in Purchases : purchase[p] = "active" /\ purchase'[p] = "none" =>
        \E t \in Creators : At(t, "gone") /\ p \in task[t].unseen ]_vars

\* A session does not outlive its access for good: the pass expires it, unless
\* the access comes back first.
SessionsEnd ==
  \A s \in Sessions :
    session[s] = "active" /\ ~(Open /\ Entitled) ~>
      session[s] # "active" \/ (Open /\ Entitled)
=============================================================================
