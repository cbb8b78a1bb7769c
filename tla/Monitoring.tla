----------------------------- MODULE Monitoring -----------------------------
(***************************************************************************)
(* Who assesses a trip, and on which evidence.  Four kinds of process work *)
(* on the same trips: the scheduled monitor (process_due_assessments, run  *)
(* by a Pub/Sub push and by a Cloud Run job), the booking webhook, the     *)
(* managers' assess and refresh calls, and the administrators' assignment  *)
(* of a trip.  All of apps/api/main.py; every repository call is one step. *)
(*                                                                         *)
(* A job is named by its key: the monitoring window, the webhook message   *)
(* or the caller's Idempotency-Key.  The monitor, the webhook and refresh  *)
(* claim the key itself (outer) and run assess_trip under the derived key  *)
(* "<key>:assessment" (inner); assess claims the inner key only.  Keys do  *)
(* not expire here: Idempotency covers the TTL.  Evidence is abstracted to *)
(* the itinerary version it was collected for and to what scoring it comes *)
(* to: no incident, an incident (RiskScoring computes that), or an error,  *)
(* because a risk_score lies outside 0 .. 100.                             *)
(***************************************************************************)
EXTENDS Integers, Sequences

CONSTANTS
  Trips, NoTrip,
  Windows,      \* T-24, T-6, T-2 of a departure
  Messages,     \* booking webhook message ids
  CallKeys,     \* Idempotency-Keys of assess and refresh calls
  TripOf,       \* the trip of a window, message or call key
  KindOf,       \* message -> its event_type
  VersionOf,    \* window or message -> itinerary version
  Schedulers, Hooks, Callers, Admins, Reporters,  \* the processes
  JobOf,        \* hook or caller -> its message or call key
  TripAt,       \* administrator or evidence reporter -> the trip it edits
  Casts,        \* how a behaviour starts: the processes that take part, the trips
                \* that exist and the windows still ahead
  MaxCrashes    \* bound of the crashes

Jobs == Windows \cup Messages \cup CallKeys
Processes == Schedulers \cup Hooks \cup Callers \cup Admins \cup Reporters

ASSUME JobsTyped ==
  /\ TripOf \in [Jobs -> Trips]
  /\ KindOf \in [Messages -> {"upsert", "updated", "cancelled", "other"}]
  /\ VersionOf \in [Windows \cup Messages -> Nat]
  /\ JobOf \in [Hooks \cup Callers -> Messages \cup CallKeys]
  /\ \A h \in Hooks : JobOf[h] \in Messages
  /\ \A c \in Callers : JobOf[c] \in CallKeys
  /\ Messages \cap (Windows \cup CallKeys) = {}
  /\ Schedulers \cap (Hooks \cup Callers) = {}
  /\ TripAt \in [Admins \cup Reporters -> Trips]
  /\ Casts \subseteq SUBSET (Processes \cup Trips \cup Windows)
  /\ MaxCrashes \in Nat

VARIABLES
  trip,        \* trips: status and itinerary version
  evidence,    \* evidence_items of each trip
  outer,       \* idempotency row of each job's own key
  inner,       \* idempotency row of each job's assessment key
  assessed,    \* assessments saved under each inner key
  incidents,   \* number of incidents saved under each inner key
  window,      \* each window: ahead, open for its grace period, or past
  automation,  \* TENANT_AUTOMATION_ENABLED
  pc,          \* the next step of each process
  job,         \* the job a process works on
  todo,        \* the listed trips a monitor run has still to visit, as windows
  copy,        \* the trip as a process read it
  snap,        \* the evidence a process read or collected
  created,     \* material_change of a webhook: the trip did not exist
  refreshes,   \* the call keys that are used by refresh calls
  raised,      \* history: an assessment has ended with an exception
  crashes

vars == <<trip, evidence, outer, inner, assessed, incidents, window, automation,
          pc, job, todo, copy, snap, created, refreshes, raised, crashes>>
store == <<trip, evidence, outer, inner, assessed, incidents>>
env == <<window, automation, created, refreshes, raised, crashes>>

KeyStates == {"absent", "in_progress", "completed"}
TripRow == [status : {"absent", "active", "cancelled"}, version : Nat]
NoCopy == [status |-> "absent", version |-> 0]
Readings == {"calm", "elevated", "invalid"}
NoEvidence == [held |-> FALSE, version |-> 0, reading |-> "calm"]
Snapshot == [held : BOOLEAN, version : Nat, reading : Readings]
Steps == {"idle", "loop", "outer", "save_trip", "get_evidence", "save_evidence",
          "read", "inner", "evidence", "store", "score", "incident", "complete", "finish",
          "assign", "done"}

TypeOK ==
  /\ trip \in [Trips -> TripRow]
  /\ evidence \in [Trips -> Snapshot]
  /\ outer \in [Jobs -> KeyStates] /\ inner \in [Jobs -> KeyStates]
  /\ assessed \in [Jobs -> Seq(Snapshot)]
  /\ incidents \in [Jobs -> Nat]
  /\ window \in [Windows -> {"ahead", "open", "past"}] /\ automation \in BOOLEAN
  /\ pc \in [Processes -> Steps]
  /\ job \in [Processes -> Jobs \cup {NoTrip}]
  /\ todo \in [Schedulers -> SUBSET Windows]
  /\ copy \in [Processes -> TripRow] /\ snap \in [Processes -> Snapshot]
  /\ created \in [Hooks -> BOOLEAN] /\ refreshes \in SUBSET CallKeys
  /\ raised \in BOOLEAN /\ crashes \in 0 .. MaxCrashes

Init ==
  /\ evidence = [t \in Trips |-> NoEvidence]
  /\ outer = [j \in Jobs |-> "absent"] /\ inner = [j \in Jobs |-> "absent"]
  /\ assessed = [j \in Jobs |-> <<>>] /\ incidents = [j \in Jobs |-> 0]
  /\ automation = TRUE
  /\ \E cast \in Casts :
       /\ pc = [p \in Processes |-> IF p \in cast THEN "idle" ELSE "done"]
       /\ trip = [t \in Trips |-> [status |-> IF t \in cast THEN "active" ELSE "absent",
                                    version |-> 0]]
       /\ refreshes \in SUBSET {JobOf[c] : c \in Callers \cap cast}
       /\ window = [w \in Windows |-> IF w \in cast THEN "ahead" ELSE "past"]
  /\ job = [p \in Processes |-> IF p \in Hooks \cup Callers THEN JobOf[p] ELSE NoTrip]
  /\ todo = [s \in Schedulers |-> {}]
  /\ copy = [p \in Processes |-> NoCopy]
  /\ snap = [p \in Processes |-> NoEvidence]
  /\ created = [h \in Hooks |-> FALSE]
  /\ raised = FALSE /\ crashes = 0

GoTo(p, s) == pc' = [pc EXCEPT ![p] = s]

\* A run that fails ends; the monitor is invoked again later.
Ended(p) == IF p \in Schedulers THEN "idle" ELSE "done"

\* A monitor run is through with a window; the other processes have one job.
Leave(p, s) ==
  /\ GoTo(p, s)
  /\ job' = [job EXCEPT ![p] = IF p \in Schedulers THEN NoTrip ELSE @]

\* The exception ends a run, the trips it has not visited yet included.
Abandon(p) ==
  /\ Leave(p, Ended(p))
  /\ todo' = [s \in Schedulers |-> IF s = p THEN {} ELSE todo[s]]
  /\ copy' = [copy EXCEPT ![p] = NoCopy]
  /\ snap' = [snap EXCEPT ![p] = NoEvidence]

-----------------------------------------------------------------------------
(***************************************************************************)
(* process_due_assessments.                                                *)
(***************************************************************************)

\* due_monitoring_windows: cancelled trips are not filtered out, and a window
\* belongs to the departure of an itinerary.
Due == {w \in Windows : LET t == trip[TripOf[w]]
                        IN /\ window[w] = "open" /\ t.status # "absent"
                           /\ t.version = VersionOf[w]}

\* list_trips: every trip, as the windows of its stored itinerary.  Which of
\* them is open is asked when the loop comes to the trip.
Listed == {w \in Windows : /\ trip[TripOf[w]].status # "absent"
                           /\ trip[TripOf[w]].version = VersionOf[w]}

StartRun(s) ==
  /\ pc[s] = "idle"
  /\ Listed # {}
  /\ todo' = [todo EXCEPT ![s] = Listed]
  /\ GoTo(s, "loop")
  /\ UNCHANGED <<store, env, job, copy, snap>>

EndRun(s) ==
  /\ pc[s] = "loop"
  /\ todo[s] = {}
  /\ GoTo(s, "idle")
  /\ UNCHANGED <<store, env, job, todo, copy, snap>>

OfTrip(s, w) == {v \in todo[s] : TripOf[v] = TripOf[w]}

SkipTripInverted(s, w) ==
  /\ pc[s] = "loop" /\ w \in todo[s]
  /\ automation
  /\ todo' = [todo EXCEPT ![s] = @ \ OfTrip(s, w)]
  /\ UNCHANGED <<store, env, pc, job, copy, snap>>

\* The trip's tenant has automation switched off, or no window is open.
SkipTrip(s, w) ==
  /\ pc[s] = "loop" /\ w \in todo[s]
  /\ automation => \A v \in OfTrip(s, w) : window[v] # "open"
  /\ todo' = [todo EXCEPT ![s] = @ \ OfTrip(s, w)]
  /\ UNCHANGED <<store, env, pc, job, copy, snap>>

\* The windows of one departure lie hours apart: at most one is open.
VisitWindow(s, w) ==
  /\ pc[s] = "loop" /\ w \in todo[s]
  /\ automation /\ window[w] = "open"
  /\ job' = [job EXCEPT ![s] = w]
  /\ todo' = [todo EXCEPT ![s] = @ \ OfTrip(s, w)]
  /\ GoTo(s, "outer")
  /\ UNCHANGED <<store, env, copy, snap>>

-----------------------------------------------------------------------------
(***************************************************************************)
(* The outer key: claim_mutation and complete_mutation around assess_trip. *)
(***************************************************************************)
ClaimableAgain(k) == k # "completed"

Claimable(k) == k = "absent"

\* What follows the claim, and what follows the answer to the caller.
\* An event of any other type is recorded and answered.
IsOther(p) == p \in Hooks /\ KindOf[job[p]] = "other"

AfterClaim(p) ==
  IF IsOther(p) THEN "finish" ELSE IF p \in Hooks THEN "save_trip" ELSE "read"

AfterFinish(p) == IF p \in Schedulers THEN "loop" ELSE "done"

ClaimOuter(p) ==
  /\ pc[p] = "outer"
  /\ Claimable(outer[job[p]])
  /\ outer' = [outer EXCEPT ![job[p]] = "in_progress"]
  /\ GoTo(p, AfterClaim(p))
  /\ UNCHANGED <<trip, evidence, inner, assessed, incidents, env, job, todo, copy, snap>>

ReplayOuter(p) ==
  /\ pc[p] = "outer"
  /\ outer[job[p]] = "completed"
  /\ Leave(p, AfterFinish(p))
  /\ UNCHANGED <<store, env, todo, copy, snap>>

\* HTTP 409.  In the monitor nothing catches it: the run is over, and so are
\* the windows it has not visited yet.
RefuseOuter(p) ==
  /\ pc[p] = "outer"
  /\ ~Claimable(outer[job[p]]) /\ outer[job[p]] # "completed"
  /\ Abandon(p)
  /\ UNCHANGED <<store, env>>

FinishOuter(p) ==
  /\ pc[p] = "finish"
  /\ outer' = [outer EXCEPT ![job[p]] = "completed"]
  /\ Leave(p, AfterFinish(p))
  /\ UNCHANGED <<trip, evidence, inner, assessed, incidents, env, todo, copy, snap>>

-----------------------------------------------------------------------------
(***************************************************************************)
(* booking_webhook: the new trip row is computed from a read that precedes *)
(* the claim.                                                              *)
(***************************************************************************)
PrepareWebhook(h) ==
  /\ pc[h] = "idle"
  /\ LET t == trip[TripOf[job[h]]]
         kind == KindOf[job[h]]
     IN \/ /\ kind = "other"                \* no trip is read, none will be saved
           /\ GoTo(h, "outer")
           /\ UNCHANGED <<copy, created>>
        \/ /\ t.status = "absent" /\ kind \in {"updated", "cancelled"}   \* HTTP 404
           /\ GoTo(h, "done")
           /\ UNCHANGED <<copy, created>>
        \/ /\ kind # "other" /\ (t.status # "absent" \/ kind = "upsert")
           /\ copy' = [copy EXCEPT ![h] =
                IF kind = "cancelled" THEN [t EXCEPT !.status = "cancelled"]
                ELSE [status |-> "active", version |-> VersionOf[job[h]]]]
           /\ created' = [created EXCEPT ![h] = t.status = "absent"]
           /\ GoTo(h, "outer")
  /\ UNCHANGED <<store, window, automation, refreshes, raised, crashes, job, todo, snap>>

SaveTrip(h) ==
  /\ pc[h] = "save_trip"
  /\ trip' = [trip EXCEPT ![TripOf[job[h]]] = copy[h]]
  /\ GoTo(h, IF KindOf[job[h]] = "cancelled" THEN "get_evidence"
             ELSE IF created[h] THEN "read" ELSE "save_evidence")
  /\ UNCHANGED <<evidence, outer, inner, assessed, incidents, env, job, todo, copy, snap>>

GetWebhookEvidence(h) ==
  /\ pc[h] = "get_evidence"
  /\ snap' = [snap EXCEPT ![h] = evidence[TripOf[job[h]]]]
  /\ GoTo(h, "save_evidence")
  /\ UNCHANGED <<store, env, job, todo, copy>>

\* The evidence list with the flight status replaced by a score of 100.  It
\* may raise or lower what the whole list calls for, and drops a score out of
\* range only if that was the flight's; alone it leaves two core sources
\* unseen, which calls for review.
CancellationEvidence(h) ==
  IF snap[h].held
  THEN {[snap[h] EXCEPT !.reading = r] : r \in {"calm", "elevated", snap[h].reading}}
  ELSE {[held |-> TRUE, version |-> copy[h].version, reading |-> "elevated"]}

\* An update drops all evidence.
SaveWebhookEvidence(h) ==
  /\ pc[h] = "save_evidence"
  /\ \E e \in IF KindOf[job[h]] = "cancelled" THEN CancellationEvidence(h)
             ELSE {NoEvidence} :
       evidence' = [evidence EXCEPT ![TripOf[job[h]]] = e]
  /\ GoTo(h, "read")
  /\ UNCHANGED <<trip, outer, inner, assessed, incidents, env, job, todo, copy, snap>>

-----------------------------------------------------------------------------
(***************************************************************************)
(* assess_trip, and refresh_incident in front of it (the incident that is  *)
(* refreshed may be older than the behaviour).                             *)
(***************************************************************************)
StartCall(c) ==
  /\ pc[c] = "idle"
  /\ trip[TripOf[job[c]]].status # "absent"
  /\ GoTo(c, IF job[c] \in refreshes THEN "outer" ELSE "read")
  /\ UNCHANGED <<store, env, job, todo, copy, snap>>

ReadTrip(p) ==
  /\ pc[p] = "read"
  /\ copy' = [copy EXCEPT ![p] = trip[TripOf[job[p]]]]
  /\ GoTo(p, "inner")
  /\ UNCHANGED <<store, env, job, todo, snap>>

HasOuter(p) == p \in Schedulers \cup Hooks \/ job[p] \in refreshes

\* Execute, replay the stored result, or HTTP 409.
ClaimInner(p) ==
  /\ pc[p] = "inner"
  /\ LET k == inner[job[p]]
     IN \/ /\ Claimable(k)
           /\ inner' = [inner EXCEPT ![job[p]] = "in_progress"]
           /\ GoTo(p, "evidence") /\ UNCHANGED <<job, todo, copy, snap>>
        \/ /\ k = "completed"
           /\ GoTo(p, IF HasOuter(p) THEN "finish" ELSE "done")
           /\ UNCHANGED <<inner, job, todo, copy, snap>>
        \/ /\ ~Claimable(k) /\ k # "completed"
           /\ Abandon(p)
           /\ UNCHANGED inner
  /\ UNCHANGED <<trip, evidence, outer, assessed, incidents, env>>

\* Stored evidence is reused whatever its expires_at says (no code compares it
\* with the clock, so a snapshot has no age here); otherwise the collectors are
\* asked, for the trip as it was read.
GetEvidence(p) ==
  /\ pc[p] = "evidence"
  /\ LET e == evidence[TripOf[job[p]]]
     IN \/ /\ e.held
           /\ snap' = [snap EXCEPT ![p] = e]
           /\ GoTo(p, "score")
        \/ /\ ~e.held
           /\ \E r \in Readings :
                snap' = [snap EXCEPT ![p] = [held |-> TRUE, version |-> copy[p].version,
                                             reading |-> r]]
           /\ GoTo(p, "store")
  /\ UNCHANGED <<store, env, job, todo, copy>>

SaveEvidence(p) ==
  /\ pc[p] = "store"
  /\ evidence' = [evidence EXCEPT ![TripOf[job[p]]] = snap[p]]
  /\ GoTo(p, "score")
  /\ UNCHANGED <<trip, outer, inner, assessed, incidents, env, job, todo, copy, snap>>

\* disposition_for: an investigation or a limited-visibility incident.
AfterScore(p) == IF snap[p].reading = "elevated" THEN "incident" ELSE "complete"

SaveAssessment(p) ==
  /\ pc[p] = "score"
  /\ snap[p].reading # "invalid"
  /\ assessed' = [assessed EXCEPT ![job[p]] = Append(@, snap[p])]
  /\ GoTo(p, AfterScore(p))
  /\ copy' = [copy EXCEPT ![p] = NoCopy]          \* not read again
  /\ snap' = [snap EXCEPT ![p] = NoEvidence]
  /\ UNCHANGED <<trip, evidence, outer, inner, incidents, env, job, todo>>

\* The collectors raise, or RiskFactors refuses a score.  Nothing in the caller
\* catches it: both keys stay in progress, and a monitor run is over.
RaiseAssessment(p) ==
  /\ \/ pc[p] = "evidence" /\ ~evidence[TripOf[job[p]]].held
     \/ pc[p] = "score" /\ snap[p].reading = "invalid"
  /\ raised' = TRUE
  /\ Abandon(p)
  /\ UNCHANGED <<store, window, automation, created, refreshes, crashes>>

\* A new incident every time, whatever incidents the trip already has.
SaveIncident(p) ==
  /\ pc[p] = "incident"
  /\ incidents' = [incidents EXCEPT ![job[p]] = @ + 1]
  /\ GoTo(p, "complete")
  /\ UNCHANGED <<trip, evidence, outer, inner, assessed, env, job, todo, copy, snap>>

CompleteInner(p) ==
  /\ pc[p] = "complete"
  /\ inner' = [inner EXCEPT ![job[p]] = "completed"]
  /\ GoTo(p, IF HasOuter(p) THEN "finish" ELSE "done")
  /\ UNCHANGED <<trip, evidence, outer, assessed, incidents, env, job, todo, copy, snap>>

-----------------------------------------------------------------------------
(***************************************************************************)
(* assign_trip_manager reads the trip, then writes it back as a whole.     *)
(***************************************************************************)
ReadForAssignment(a) ==
  /\ pc[a] = "idle"
  /\ trip[TripAt[a]].status # "absent"
  /\ copy' = [copy EXCEPT ![a] = trip[TripAt[a]]]
  /\ GoTo(a, "assign")
  /\ UNCHANGED <<store, env, job, todo, snap>>

SaveAssignment(a) ==
  /\ pc[a] = "assign"
  /\ trip' = [trip EXCEPT ![TripAt[a]] = copy[a]]
  /\ GoTo(a, "done")
  /\ UNCHANGED <<evidence, outer, inner, assessed, incidents, env, job, todo, copy, snap>>

-----------------------------------------------------------------------------
(***************************************************************************)
(* Clients, time and failure.                                              *)
(***************************************************************************)
\* normalized_payload is a dictionary: its risk_score is not validated.
PutEvidence(e, r) ==
  /\ pc[e] = "idle"
  /\ trip[TripAt[e]].status # "absent"
  /\ evidence' = [evidence EXCEPT ![TripAt[e]] =
       [held |-> TRUE, version |-> trip[TripAt[e]].version, reading |-> r]]
  /\ UNCHANGED <<trip, outer, inner, assessed, incidents, env, pc, job, todo, copy, snap>>

\* A window is open for 20 minutes.
OpenWindow(w) ==
  /\ window[w] = "ahead"
  /\ \A v \in Windows : TripOf[v] = TripOf[w] /\ VersionOf[v] = VersionOf[w]
                        => window[v] # "open"
  /\ window' = [window EXCEPT ![w] = "open"]
  /\ UNCHANGED <<store, automation, pc, job, todo, copy, snap, created, refreshes, raised,
                 crashes>>

CloseWindow(w) ==
  /\ window[w] = "open"
  /\ window' = [window EXCEPT ![w] = "past"]
  /\ UNCHANGED <<store, automation, pc, job, todo, copy, snap, created, refreshes, raised,
                 crashes>>

SetAutomation ==
  /\ automation' = ~automation
  /\ UNCHANGED <<store, window, pc, job, todo, copy, snap, created, refreshes, raised,
                 crashes>>

\* The process is lost between two steps, or a repository call raises.
Crash(p) ==
  /\ pc[p] \notin {"idle", "done"}
  /\ crashes < MaxCrashes
  /\ crashes' = crashes + 1
  /\ Abandon(p)
  /\ UNCHANGED <<store, window, automation, created, refreshes, raised>>

OuterSteps(p) == ClaimOuter(p) \/ ReplayOuter(p) \/ RefuseOuter(p) \/ FinishOuter(p)

AssessTrip(p) ==
  \/ ReadTrip(p) \/ ClaimInner(p) \/ GetEvidence(p) \/ SaveEvidence(p)
  \/ SaveAssessment(p) \/ RaiseAssessment(p) \/ SaveIncident(p) \/ CompleteInner(p)

Run(s) == StartRun(s) \/ EndRun(s) \/ \E w \in Windows : SkipTrip(s, w) \/ VisitWindow(s, w)

Webhook(h) == \/ PrepareWebhook(h) \/ SaveTrip(h)
              \/ GetWebhookEvidence(h) \/ SaveWebhookEvidence(h)

Next ==
  \/ \E s \in Schedulers : Run(s)
  \/ \E h \in Hooks : Webhook(h)
  \/ \E c \in Callers : StartCall(c)
  \/ \E p \in Processes : OuterSteps(p) \/ AssessTrip(p) \/ Crash(p)
  \/ \E a \in Admins : ReadForAssignment(a) \/ SaveAssignment(a)
  \/ \E e \in Reporters : \E r \in Readings : PutEvidence(e, r)
  \/ \E w \in Windows : OpenWindow(w) \/ CloseWindow(w)
  \/ SetAutomation

Spec == Init /\ [][Next]_vars

(***************************************************************************)
(* The scheduler fires every 15 minutes and running processes go on;       *)
(* automation stays on from some point.                                    *)
(***************************************************************************)
Proceed(p) ==
  \/ OuterSteps(p) \/ AssessTrip(p)
  \/ p \in Schedulers /\ Run(p)
  \/ p \in Hooks /\ Webhook(p)

Fairness == (\A p \in Processes : WF_vars(Proceed(p))) /\ <>[][automation']_vars

LiveSpec == Spec /\ Fairness

-----------------------------------------------------------------------------
(***************************************************************************)
(* Properties.                                                             *)
(***************************************************************************)

\* One job, one assessment, at most one incident: duplicate deliveries,
\* concurrent monitor runs, client retries and crashes included.
OneAssessmentPerJob ==
  \A j \in Jobs : Len(assessed[j]) <= 1 /\ incidents[j] <= Len(assessed[j])

\* A job has one assessment however often it is delivered, and one that
\* answered success has done its work: its assessment is saved, and an elevated
\* one has put an incident before the managers.  Only a webhook of a type that
\* is none of the itinerary's is answered without an assessment, and has none.
AnsweredMeansAssessed ==
  /\ TypeOK /\ OneAssessmentPerJob
  /\ \A j \in Jobs :
       /\ outer[j] = "completed" =>
            IF j \in Messages /\ KindOf[j] = "other"
            THEN assessed[j] = <<>> ELSE inner[j] = "completed"
       /\ inner[j] = "completed" =>
            Len(assessed[j]) = 1 /\ (assessed[j][1].reading = "elevated" => incidents[j] = 1)

\* As long as no process is lost and no assessment raises, a window that stays
\* due is assessed in the end: runs that overlap, and that end each other's
\* loops over all trips with HTTP 409, starve none.
WindowAssessedUnlessLost ==
  [](crashes = 0 /\ ~raised) =>
    \A w \in Windows : []<>(inner[w] = "completed" \/ w \notin Due)

\* The docstring's "claim ... due windows": a window that stays due is claimed in
\* the end, whatever became of the assessment of another trip.
WindowClaimed == \A w \in Windows : []<>(outer[w] # "absent" \/ w \notin Due)
=============================================================================
