----------------------------- MODULE TripImport -----------------------------
(***************************************************************************)
(* Import of an itinerary: validate_trip_csv of apps/api/main.py over the  *)
(* original upload store (apps/api/uploads.py) and parse_csv_rows          *)
(* (apps/api/ingestion.py).  The original goes to the object store first,  *)
(* then a quarantined row is saved, then the content is validated and the  *)
(* row saved again.  Nothing but the claim ties the three together.        *)
(*                                                                         *)
(* An upload and its object are named by the request that made them, since *)
(* upload_id is drawn per execution.  A content is clean, refused (missing *)
(* columns, too many rows, formula-like values, another tenant), outsized: *)
(* more bytes than OriginalUploadRecord accepts, so that its construction  *)
(* raises once the object is stored, or ragged: a row with more cells than *)
(* columns, whose surplus csv.DictReader puts in a list, on which the      *)
(* formula check raises an unhandled error.                                *)
(***************************************************************************)
EXTENDS Handlers

VARIABLES
  objects,  \* objects in the upload store
  upload    \* original_uploads: status of each row

importVars == <<objects, upload>>

ImportTypeOK ==
  /\ objects \in SUBSET Requests
  /\ upload \in [Requests -> {"absent", "quarantined", "rejected", "validated"}]

ImportInit ==
  /\ objects = {}
  /\ upload = [r \in Requests |-> "absent"]

ReceiveImport(r) ==
  /\ Before(r, "start")
  /\ Wants(r, "import")
  /\ Continue(r, "claim")
  /\ UNCHANGED importVars

ClaimImportKey(r) ==
  /\ Wants(r, "import")
  /\ Claim(r, "put")
  /\ UNCHANGED importVars

\* put returns once the object is stored.
PutObject(r) ==
  /\ At(r, "put")
  /\ objects' = objects \cup {r}
  /\ Continue(r, "quarantine")
  /\ UNCHANGED upload

PutFailsUnnoticed(r) ==
  /\ At(r, "put")
  /\ Continue(r, "quarantine")
  /\ UNCHANGED importVars

\* HTTP 503: no token, an error, or a timeout after the object was stored.
PutFails(r) ==
  /\ At(r, "put")
  /\ objects' \in {objects, objects \cup {r}}
  /\ GiveUp(r)
  /\ UNCHANGED upload

SaveUpload(r, status) == upload' = [upload EXCEPT ![r] = status]

\* The record is built, which may raise, and saved.
Quarantine(r) ==
  /\ At(r, "quarantine")
  /\ IF want[r].content = "outsized" THEN GiveUp(r) /\ UNCHANGED upload
     ELSE SaveUpload(r, "quarantined") /\ Continue(r, "validate")
  /\ UNCHANGED objects

\* parse_csv_rows, the tenant check, and the row saved with the verdict; a
\* ragged content ends the request before any verdict.
Validate(r) ==
  /\ At(r, "validate")
  /\ CASE want[r].content = "clean" -> SaveUpload(r, "validated") /\ Conclude(r)
       [] want[r].content = "refused" -> SaveUpload(r, "rejected") /\ GiveUp(r)
       [] OTHER -> UNCHANGED upload /\ GiveUp(r)
  /\ UNCHANGED objects

ImportStep(r) ==
  \/ ReceiveImport(r) \/ ClaimImportKey(r) \/ PutObject(r) \/ PutFails(r)
  \/ Quarantine(r) \/ Validate(r)

-----------------------------------------------------------------------------
(***************************************************************************)
(* Properties.                                                             *)
(***************************************************************************)

\* Wherever the store fails and the requests crash: a row has its original in
\* the store, an original without a row was left by an execution that failed or
\* still runs, only clean contents are marked validated, and who was told
\* "validated", by an execution or by a replay, finds the row so.
UploadTruthful ==
  /\ ImportTypeOK
  /\ \A r \in Requests :
       /\ upload[r] # "absent" => r \in objects
       /\ r \in objects /\ upload[r] \in {"absent", "quarantined"}
            => req[r].phase \in {"executing", "failed"}
       /\ upload[r] = "validated" => want[r].content = "clean"
       /\ Wants(r, "import") /\ Succeeded(r) => upload[Executor(r)] = "validated"
=============================================================================
