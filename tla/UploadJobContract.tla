-------------------------- MODULE UploadJobContract --------------------------
(***************************************************************************)
(* What the media pipeline promises about an upload job, whatever tasks,   *)
(* watchdogs and API calls interleave: the API reports these statuses and  *)
(* a viewer is given a manifest only for 'ready' and 'published'.          *)
(***************************************************************************)
EXTENDS Naturals

VARIABLES status, attempts, playable

vars == <<status, attempts, playable>>

Init == status = "created" /\ attempts = 0 /\ playable = FALSE

\* The ingest is complete: the count of attempts starts over.
Accept == status' = "uploaded" /\ attempts' = 0 /\ UNCHANGED playable

\* An attempt starts, on an 'uploaded' job only.
Claim ==
    /\ status = "uploaded" /\ status' = "processing"
    /\ attempts' = attempts + 1
    /\ UNCHANGED playable

\* A package becomes playable and stays so.
Package == status # "created" /\ playable' = TRUE /\ UNCHANGED <<status, attempts>>

Finish ==
    /\ status = "processing" /\ playable
    /\ status' = "ready"
    /\ UNCHANGED <<attempts, playable>>

Publish ==
    /\ status # "created" /\ playable
    /\ status' = "published"
    /\ UNCHANGED <<attempts, playable>>

\* A failure, a timeout or a retry; the count of attempts is kept.
SendBack ==
    /\ status # "created"
    /\ status' \in {"uploaded", "failed"}
    /\ UNCHANGED <<attempts, playable>>

Next == Accept \/ Claim \/ Package \/ Finish \/ Publish \/ SendBack

Spec == Init /\ [][Next]_vars
=============================================================================
