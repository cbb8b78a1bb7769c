------------------------------ MODULE Privacy ------------------------------
(***************************************************************************)
(* Legal holds, deletion requests and retention: the privacy endpoints of  *)
(* apps/api/main.py, workers/privacy.py, workers/retention.py, and the     *)
(* erasing transactions of postgres_repository.py, together with the       *)
(* handlers that write a traveler's rows while those run.  One tenant; the *)
(* original uploads and the audit tables hold nothing of a traveler's and  *)
(* are left out.                                                           *)
(*                                                                         *)
(* A row <<kind, owner>> stands for all rows of that kind: "trip", "case"  *)
(* (evidence, assessments, incidents, approvals, actions, candidate sets,  *)
(* all found through the trip), "profile", "proposal" and "note"           *)
(* (notifications and their attempts).  The schema has no foreign keys.    *)
(***************************************************************************)
EXTENDS Integers, FiniteSets

CONSTANTS
  Travelers, Trips, TravelerOf,  \* trip -> traveler
  Holds, Scope,    \* hold -> "tenant", or the traveler or trip it covers
  Dels, Subject,   \* deletion request -> traveler
  MemoryOnly,      \* deletion requests of scope preference_memory
  Workers,         \* runs of process_due_deletion_requests
  Sweep,           \* the retention job
  Writers, None,   \* handlers that write rows; no row, request or traveler
  Casts,           \* what may take part in a behaviour: holds, requests,
                   \* jobs and writers; the rest is settled or away
  MaxFaults        \* bound of the crashes and failed transactions

Jobs == Workers \cup {Sweep}

ASSUME PrivacyTyped ==
  /\ TravelerOf \in [Trips -> Travelers]
  /\ Scope \in [Holds -> {"tenant"} \cup Travelers \cup Trips]
  /\ Subject \in [Dels -> Travelers]
  /\ MemoryOnly \subseteq Dels
  /\ Casts \subseteq SUBSET (Holds \cup Dels \cup Jobs \cup Writers)
  /\ MaxFaults \in Nat
ASSUME NamesDistinct ==
  None \notin Dels \cup Travelers /\ Travelers \cap Trips = {} /\ Sweep \notin Workers

Rows == ({"trip", "case"} \X Trips) \cup ({"profile", "proposal", "note"} \X Travelers)

VARIABLES
  rows,    \* the rows that exist
  aged,    \* the rows older than the retention cutoff
  hold,    \* "none", "active", "expired" or "released"
  del,     \* status of each deletion request
  todo,    \* requests a worker has listed and not yet looked at
  pc,      \* the next step of a worker
  cur,     \* the request a worker works on
  lapsed,  \* the holds that had expired when a worker's run began
  purge,   \* the retention job: its next step, the rows and holds it has read
  pending, \* what a writer writes next: a set of at most two rows
  target,  \* traveler whose memory delete_traveler_memory will erase
  erased,  \* history: requests whose erasure was committed
  standing,\* history: the holds in force ever since a worker took up its
           \* request, or the retention job began
  faults

vars == <<rows, aged, hold, del, todo, pc, cur, lapsed, purge, pending, target, erased,
          standing, faults>>
worker == <<todo, pc, cur, lapsed, erased>>
elsewhere == <<purge, pending, target>>

Statuses == {"none", "pending", "blocked_by_legal_hold", "completed", "failed"}

TypeOK ==
  /\ rows \in SUBSET Rows
  /\ aged \in SUBSET rows
  /\ hold \in [Holds -> {"none", "active", "expired", "released"}]
  /\ del \in [Dels -> Statuses]
  /\ todo \in [Workers -> SUBSET Dels]
  /\ pc \in [Workers -> {"away", "idle", "next", "check", "block", "erase", "complete", "fail"}]
  /\ cur \in [Workers -> Dels \cup {None}]
  /\ lapsed \in [Workers -> SUBSET Holds]
  /\ purge \in [step : {"away", "idle", "trips", "holds", "rows"},
                doomed : SUBSET Rows, held : SUBSET Holds]
  /\ standing \in [Jobs -> SUBSET Holds]
  /\ pending \in [Writers -> SUBSET Rows]
  /\ target \in [Writers -> Travelers \cup {None, "away"}]
  /\ erased \in SUBSET Dels
  /\ faults \in 0 .. MaxFaults

Init ==
  /\ rows = {} /\ aged = {}
  /\ \E cast \in Casts :
       /\ hold = [h \in Holds |-> IF h \in cast THEN "none" ELSE "released"]
       /\ del = [d \in Dels |-> IF d \in cast THEN "none" ELSE "failed"]
       /\ pc = [w \in Workers |-> IF w \in cast THEN "idle" ELSE "away"]
       /\ target = [p \in Writers |-> IF p \in cast THEN None ELSE "away"]
       /\ purge = [step |-> IF Sweep \in cast THEN "idle" ELSE "away",
                   doomed |-> {}, held |-> {}]
  /\ todo = [w \in Workers |-> {}]
  /\ cur = [w \in Workers |-> None]
  /\ lapsed = [w \in Workers |-> {}]
  /\ pending = [p \in Writers |-> {}]
  /\ erased = {} /\ standing = [j \in Jobs |-> {}] /\ faults = 0

-----------------------------------------------------------------------------
(***************************************************************************)
(* Holds.                                                                  *)
(***************************************************************************)
Expired == {h \in Holds : hold[h] = "expired"}

\* is_active at a time when the holds of past had expired.
ActiveAt(past) == {h \in Holds : hold[h] \in {"active", "expired"}} \ past

Active == ActiveAt(Expired)

\* active_legal_holds_for_traveler: a trip's hold counts while the trip row
\* exists.
HoldsForTenantOrTrip(v, past) ==
  {h \in ActiveAt(past) :
     \/ Scope[h] = "tenant"
     \/ \E t \in Trips : Scope[h] = t /\ TravelerOf[t] = v /\ <<"trip", t>> \in rows}

HoldsFor(v, past) ==
  {h \in ActiveAt(past) :
     \/ Scope[h] \in {"tenant", v}
     \/ \E t \in Trips : Scope[h] = t /\ TravelerOf[t] = v /\ <<"trip", t>> \in rows}

CreateHold(h) ==
  /\ hold[h] = "none"
  /\ hold' = [hold EXCEPT ![h] = "active"]
  /\ UNCHANGED <<rows, aged, del, worker, purge, standing, pending, target, faults>>

\* Refused with HTTP 409 once released_at is set.
ReleaseHold(h) ==
  /\ hold[h] \in {"active", "expired"}
  /\ hold' = [hold EXCEPT ![h] = "released"]
  /\ standing' = [j \in Jobs |-> standing[j] \ {h}]
  /\ UNCHANGED <<rows, aged, del, worker, purge, pending, target, faults>>

ExpireHold(h) ==
  /\ hold[h] = "active"
  /\ hold' = [hold EXCEPT ![h] = "expired"]
  /\ standing' = [j \in Jobs |-> standing[j] \ {h}]
  /\ UNCHANGED <<rows, aged, del, worker, purge, pending, target, faults>>

-----------------------------------------------------------------------------
(***************************************************************************)
(* Deletion requests: create_deletion_request, and the worker.  A request  *)
(* id is drawn afresh by the client model, so a request is created once.   *)
(***************************************************************************)
RequestDeletion(d) ==
  /\ del[d] = "none"
  /\ del' = [del EXCEPT ![d] = "pending"]
  /\ UNCHANGED <<rows, aged, hold, worker, purge, standing, pending, target, faults>>

GoTo(w, s) == pc' = [pc EXCEPT ![w] = s]

ListedPendingOnly == {d \in Dels : del[d] = "pending"}

Listed == {d \in Dels : del[d] \in {"pending", "blocked_by_legal_hold"}}

ListRequests(w) ==
  /\ pc[w] = "idle"
  /\ Listed # {}
  /\ todo' = [todo EXCEPT ![w] = Listed]
  /\ lapsed' = [lapsed EXCEPT ![w] = Expired]
  /\ GoTo(w, "next")
  /\ UNCHANGED <<rows, aged, hold, del, cur, erased, standing, elsewhere, faults>>

TakeRequest(w, d) ==
  /\ pc[w] = "next"
  /\ d \in todo[w]
  /\ todo' = [todo EXCEPT ![w] = @ \ {d}]
  /\ cur' = [cur EXCEPT ![w] = d]
  /\ standing' = [standing EXCEPT ![w] = Active]
  /\ GoTo(w, "check")
  /\ UNCHANGED <<rows, aged, hold, del, lapsed, erased, elsewhere, faults>>

EndRun(w) ==
  /\ pc[w] = "next"
  /\ todo[w] = {}
  /\ lapsed' = [lapsed EXCEPT ![w] = {}]
  /\ GoTo(w, "idle")
  /\ UNCHANGED <<rows, aged, hold, del, todo, cur, erased, standing, elsewhere, faults>>

\* The holds are judged by the time at which the run began.
CheckHolds(w) ==
  /\ pc[w] = "check"
  /\ GoTo(w, IF HoldsFor(Subject[cur[w]], lapsed[w]) # {} THEN "block" ELSE "erase")
  /\ UNCHANGED <<rows, aged, hold, del, todo, cur, lapsed, erased, standing, elsewhere, faults>>

MemoryRows(v) == {<<"profile", v>>, <<"proposal", v>>}

\* The incidents, evidence and actions are found through the trip rows.
TripRows(v) ==
  {r \in {"trip", "case"} \X Trips : TravelerOf[r[2]] = v /\ <<"trip", r[2]>> \in rows}

\* erase_traveler_data.
ErasedRows(v, memoryOnly) ==
  MemoryRows(v) \cup (IF memoryOnly THEN {} ELSE TripRows(v) \cup {<<"note", v>>})

Remove(R) == rows' = rows \ R /\ aged' = aged \ R

Erase(w) ==
  /\ pc[w] = "erase"
  /\ Remove(ErasedRows(Subject[cur[w]], cur[w] \in MemoryOnly))
  /\ erased' = erased \cup {cur[w]}
  /\ GoTo(w, "complete")
  /\ UNCHANGED <<hold, del, todo, cur, lapsed, standing, elsewhere, faults>>

EraseFailsUnnoticed(w) ==
  /\ pc[w] = "erase"
  /\ faults < MaxFaults /\ faults' = faults + 1
  /\ GoTo(w, "complete")
  /\ UNCHANGED <<rows, aged, hold, del, todo, cur, lapsed, erased, standing, elsewhere>>

\* The transaction raises and rolls back.
EraseFails(w) ==
  /\ pc[w] = "erase"
  /\ faults < MaxFaults /\ faults' = faults + 1
  /\ GoTo(w, "fail")
  /\ UNCHANGED <<rows, aged, hold, del, todo, cur, lapsed, erased, standing, elsewhere>>

StatusAfter(s) ==
  CASE s = "block" -> "blocked_by_legal_hold" [] s = "complete" -> "completed"
    [] s = "fail" -> "failed"

\* save_deletion_request of the worker's copy of the request.
SaveStatus(w) ==
  /\ pc[w] \in {"block", "complete", "fail"}
  /\ del' = [del EXCEPT ![cur[w]] = StatusAfter(pc[w])]
  /\ cur' = [cur EXCEPT ![w] = None]
  /\ standing' = [standing EXCEPT ![w] = {}]
  /\ GoTo(w, "next")
  /\ UNCHANGED <<rows, aged, hold, todo, lapsed, erased, elsewhere, faults>>

CrashWorker(w) ==
  /\ pc[w] \notin {"away", "idle"}
  /\ faults < MaxFaults /\ faults' = faults + 1
  /\ GoTo(w, "idle")
  /\ todo' = [todo EXCEPT ![w] = {}]
  /\ cur' = [cur EXCEPT ![w] = None]
  /\ lapsed' = [lapsed EXCEPT ![w] = {}]
  /\ standing' = [standing EXCEPT ![w] = {}]
  /\ UNCHANGED <<rows, aged, hold, del, erased, elsewhere>>

-----------------------------------------------------------------------------
(***************************************************************************)
(* delete_traveler_memory: a hold check, then an erasure.                  *)
(***************************************************************************)
CheckMemoryDelete(p, v) ==
  /\ target[p] = None /\ pending[p] = {}
  /\ HoldsFor(v, Expired) = {}              \* HTTP 423 otherwise
  /\ target' = [target EXCEPT ![p] = v]
  /\ UNCHANGED <<rows, aged, hold, del, worker, purge, standing, pending, faults>>

DeleteMemory(p) ==
  /\ target[p] \in Travelers
  /\ Remove(MemoryRows(target[p]))
  /\ target' = [target EXCEPT ![p] = None]
  /\ UNCHANGED <<hold, del, worker, purge, standing, pending, faults>>

-----------------------------------------------------------------------------
(***************************************************************************)
(* run_retention: purge_expired is one transaction at READ COMMITTED.  It  *)
(* reads the trips, then the holds, then the other rows, and deletes by id *)
(* what it has chosen: a hold created, or a row renewed, after it was read *)
(* is not seen.                                                            *)
(***************************************************************************)
HeldTrip(t, holds) == \E h \in holds : Scope[h] \in {"tenant", TravelerOf[t], t}

HeldTravelerIgnoringTenant(v, holds) == \E h \in holds : Scope[h] = v

HeldTraveler(v, holds) == \E h \in holds : Scope[h] \in {"tenant", v}

\* A run that finds no row old enough changes nothing.
ReadTrips ==
  /\ purge.step = "idle"
  /\ aged # {}
  /\ purge' = [step |-> "trips", held |-> {}, doomed |-> {r \in aged : r[1] = "trip"}]
  /\ standing' = [standing EXCEPT ![Sweep] = Active]
  /\ UNCHANGED <<rows, aged, hold, del, worker, pending, target, faults>>

ReadHolds ==
  /\ purge.step = "trips"
  /\ purge' = [purge EXCEPT !.step = "holds", !.held = Active]
  /\ UNCHANGED <<rows, aged, hold, del, worker, standing, pending, target, faults>>

\* Notifications are chosen by their age alone.
ReadRows ==
  /\ purge.step = "holds"
  /\ LET trips == {t \in Trips : <<"trip", t>> \in purge.doomed /\ ~HeldTrip(t, purge.held)}
         memory == {v \in Travelers : ~HeldTraveler(v, purge.held)}
     IN purge' = [step |-> "rows", held |-> {},
                  doomed |-> ({"trip", "case"} \X trips)
                             \cup (aged \cap ({"profile", "proposal"} \X memory))
                             \cup (aged \cap ({"note"} \X Travelers))]
  /\ UNCHANGED <<rows, aged, hold, del, worker, standing, pending, target, faults>>

EndPurge == /\ purge' = [step |-> "idle", doomed |-> {}, held |-> {}]
            /\ standing' = [standing EXCEPT ![Sweep] = {}]

PurgeExpired ==
  /\ purge.step = "rows"
  /\ Remove(purge.doomed)
  /\ EndPurge
  /\ UNCHANGED <<hold, del, worker, pending, target, faults>>

\* The job is lost or a statement raises: the transaction rolls back.
PurgeFails ==
  /\ purge.step \notin {"away", "idle"}
  /\ faults < MaxFaults /\ faults' = faults + 1
  /\ EndPurge
  /\ UNCHANGED <<rows, aged, hold, del, worker, pending, target>>

Retain == ReadTrips \/ ReadHolds \/ ReadRows \/ PurgeExpired \/ PurgeFails

Age(r) ==
  /\ r \in rows \ aged
  /\ aged' = aged \cup {r}
  /\ UNCHANGED <<rows, hold, del, worker, purge, standing, pending, target, faults>>

-----------------------------------------------------------------------------
(***************************************************************************)
(* The handlers that write rows: create_trip, update_preferences and       *)
(* create_memory_proposal write what they were given; the others read one  *)
(* row and later write another: assess_trip a case for its trip,           *)
(* queue_notification a note for its incident, confirm_memory_proposal a   *)
(* profile and then the proposal.                                          *)
(***************************************************************************)
Create(r) ==
  /\ r[1] \in {"trip", "profile", "proposal"}
  /\ r \in rows => r[1] = "profile"             \* an update renews updated_at
  /\ rows' = rows \cup {r}
  /\ aged' = aged \ {r}
  /\ UNCHANGED <<hold, del, worker, purge, standing, pending, target, faults>>

Derived(r) ==
  CASE r[1] = "trip" -> {<<"case", r[2]>>}
    [] r[1] = "case" -> {<<"note", TravelerOf[r[2]]>>}
    [] r[1] = "proposal" -> {<<"profile", r[2]>>, <<"proposal", r[2]>>}
    [] OTHER -> {}

ReadBase(p, r) ==
  /\ pending[p] = {} /\ target[p] = None
  /\ r \in rows /\ Derived(r) # {}
  /\ pending' = [pending EXCEPT ![p] = Derived(r)]
  /\ UNCHANGED <<rows, aged, hold, del, worker, purge, standing, target, faults>>

WriteDerived(p, r) ==
  /\ r \in pending[p]
  /\ r[1] = "proposal" => pending[p] = {r}       \* save_profile comes first
  /\ rows' = rows \cup {r}
  /\ aged' = IF r[1] = "profile" THEN aged \ {r} ELSE aged
  /\ pending' = [pending EXCEPT ![p] = @ \ {r}]
  /\ UNCHANGED <<hold, del, worker, purge, standing, target, faults>>

Work(w) ==
  \/ ListRequests(w) \/ EndRun(w) \/ CheckHolds(w) \/ Erase(w) \/ SaveStatus(w)
  \/ \E d \in Dels : TakeRequest(w, d)

Next ==
  \/ \E h \in Holds : CreateHold(h) \/ ReleaseHold(h) \/ ExpireHold(h)
  \/ \E d \in Dels : RequestDeletion(d)
  \/ \E w \in Workers : Work(w) \/ EraseFails(w) \/ CrashWorker(w)
  \/ \E p \in Writers, v \in Travelers : CheckMemoryDelete(p, v)
  \/ \E p \in Writers : DeleteMemory(p) \/ \E r \in Rows : ReadBase(p, r) \/ WriteDerived(p, r)
  \/ \E r \in Rows : Create(r) \/ Age(r)
  \/ Retain

Spec == Init /\ [][Next]_vars

\* The job is scheduled daily and a started run goes on unless it is lost.
LiveSpec == Spec /\ \A w \in Workers : WF_vars(Work(w))

-----------------------------------------------------------------------------
(***************************************************************************)
(* Properties.                                                             *)
(***************************************************************************)

\* A request is reported completed only when its erasure was committed,
\* whatever other runs, failures and crashes happened in between.
CompletedMeansErased ==
  /\ TypeOK
  /\ \A d \in Dels : del[d] = "completed" => d \in erased

\* A worker erases nothing of a traveler who, or whose tenant, has been under a
\* hold ever since it took up the request: expiry during the run, releases,
\* overlapping runs and crashes included.  (A trip's hold counts only while the
\* trip row exists, and a hold created after the check comes too late.)
ErasureHeedsHolds ==
  [][\A w \in Workers : pc[w] = "erase" /\ pc'[w] = "complete" =>
       \A h \in standing[w] : Scope[h] \notin {"tenant", Subject[cur[w]]}]_vars

\* Does hold h cover row r?  (What a reader of the runbook expects.)
Covers(h, r) ==
  \/ Scope[h] = "tenant"
  \/ r[2] \in Travelers /\ Scope[h] = r[2]
  \/ r[2] \in Trips /\ Scope[h] \in {r[2], TravelerOf[r[2]]}

Lost(kinds) == {r \in rows \ rows' : r[1] \in kinds}

Spares(kinds) == \A r \in Lost(kinds), h \in standing[Sweep] : ~Covers(h, r)

\* However retention's reads interleave with handlers, erasures and changes of
\* holds, what it deletes of a traveler's operational data and memory is under
\* no hold that was in force from its first read to its commit.
RetentionKeepsHeld ==
  [][purge' # purge => Spares({"trip", "case", "profile", "proposal"})]_vars

\* The runbook's promise for the rest: a hold "stops ... automated retention ...
\* for its scope", a traveler's notifications included.
RetentionKeepsHeldNotes == [][purge' # purge => Spares({"note"})]_vars

\* Once a traveler is no longer under a hold, each of the traveler's deletion
\* requests comes to an end: no crash leaves it pending for ever.
DeletionSettles ==
  \A d \in Dels :
    <>[](HoldsFor(Subject[d], Expired) = {}) =>
      <>[](del[d] \in {"none", "completed", "failed"})
=============================================================================
