----------------------------- MODULE Playbooks -----------------------------
(***************************************************************************)
(* Publication of tenant playbooks: publish_tenant_playbook of             *)
(* apps/api/main.py over save_playbook.  The id of a playbook is derived   *)
(* from tenant, name and version, and its guidance must never change.  The *)
(* handler looks the playbook up before it claims its key, so the row can  *)
(* appear between the lookup and the insert; the insert then does nothing  *)
(* and returns the row that is there.                                      *)
(***************************************************************************)
EXTENDS Handlers

CONSTANTS
  PlaybookIds,  \* name and version
  Texts         \* guidance

ASSUME PublicationsTyped ==
  /\ None \notin Texts
  /\ \A h \in Fingerprints :
       h.kind = "publish" => h.playbook \in PlaybookIds /\ h.text \in Texts

VARIABLE guidance  \* tenant_playbooks: the guidance stored

PlaybooksTypeOK == guidance \in [PlaybookIds -> Texts \cup {None}]

PlaybooksInit == guidance = [b \in PlaybookIds |-> None]

\* The answer to a lookup: none yet; the same guidance, returned as it is; or
\* another one (HTTP 409).  A request answered here never claims its key.
LookUp(r) ==
  /\ Before(r, "start")
  /\ Wants(r, "publish")
  /\ LET there == guidance[want[r].playbook]
     IN Continue(r, CASE there = None -> "claim"
                      [] there = want[r].text -> "found"
                      [] OTHER -> "done")
  /\ UNCHANGED guidance

ClaimPublication(r) ==
  /\ Wants(r, "publish")
  /\ Claim(r, "insert")
  /\ UNCHANGED guidance

StoredByUpsert(h) == h.text

\* on_conflict_do_nothing: the row as it is afterwards.
Stored(h) == IF guidance[h.playbook] = None THEN h.text ELSE guidance[h.playbook]

\* save_playbook; HTTP 409 when another guidance was there.
Insert(r) ==
  LET h == want[r]
  IN /\ At(r, "insert")
     /\ guidance' = [guidance EXCEPT ![h.playbook] = Stored(h)]
     /\ IF Stored(h) = h.text THEN Conclude(r) ELSE GiveUp(r)

PlaybookStep(r) == LookUp(r) \/ ClaimPublication(r) \/ Insert(r)

-----------------------------------------------------------------------------
(***************************************************************************)
(* Properties.                                                             *)
(***************************************************************************)

\* The guidance of every publication that was answered with success, at the
\* lookup, by its own insert or by a replay, is the guidance that is stored,
\* also when several administrators publish one version with different texts.
PublishedIsStored ==
  /\ PlaybooksTypeOK
  /\ \A r \in Requests :
       Wants(r, "publish") /\ (Succeeded(r) \/ step[r] = "found")
         => guidance[want[r].playbook] = want[r].text
=============================================================================
