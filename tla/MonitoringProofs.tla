-------------------------- MODULE MonitoringProofs --------------------------
(***************************************************************************)
(* Proofs about Monitoring for any number of trips, windows, messages and  *)
(* call keys, any monitor runs, webhook deliveries, calls and assignments  *)
(* at once, and any number of crashes.                                     *)
(***************************************************************************)
EXTENDS Monitoring, SequenceTheorems, TLAPS

-----------------------------------------------------------------------------
(***************************************************************************)
(* The inductive invariant.  The properties speak of jobs; what they rest  *)
(* on is that a job's assessment is under way in one process at most, and  *)
(* how far that process has come.                                          *)
(***************************************************************************)
Gathering == {"evidence", "store", "score"}

Executing == Gathering \cup {"incident", "complete"}

Keyed == {"outer", "save_trip", "get_evidence", "save_evidence", "read", "inner",
          "finish"} \cup Executing

\* A process between its first claim and its answer works on a job, a message
\* only in a webhook; a webhook and a caller have theirs from the start.
JobShape ==
  /\ \A p \in Processes :
       pc[p] \in Keyed => job[p] \in Jobs /\ (p \in Hooks \/ job[p] \notin Messages)
  /\ \A p \in Hooks \cup Callers : job[p] = JobOf[p]

\* A webhook whose event is none of the itinerary's: no assessment is due.
Foreign(j) == j \in Messages /\ KindOf[j] = "other"

Working == Keyed \ {"outer", "finish"}

\* Nobody ever works on such an event.
ForeignShape ==
  /\ \A p \in Processes : pc[p] \in Working => ~Foreign(job[p])
  /\ \A j \in Jobs : Foreign(j) => inner[j] = "absent"

\* Between claim and completion the inner key is in progress, and no other
\* process is there; the answer is stored last.
HolderShape ==
  /\ \A p \in Processes : /\ pc[p] \in Executing => inner[job[p]] = "in_progress"
                          /\ pc[p] = "finish" /\ ~Foreign(job[p]) => inner[job[p]] = "completed"
  /\ \A p, q \in Processes :
       pc[p] \in Executing /\ pc[q] \in Executing /\ job[p] = job[q] => p = q

\* What the job has to show, by the step of the process that executes it.
WorkShape ==
  /\ \A j \in Jobs : inner[j] = "absent" => assessed[j] = <<>> /\ incidents[j] = 0
  /\ \A p \in Processes :
       /\ pc[p] \in Gathering => assessed[job[p]] = <<>> /\ incidents[job[p]] = 0
       /\ pc[p] = "incident" => Len(assessed[job[p]]) = 1 /\ incidents[job[p]] = 0
       /\ pc[p] = "complete" =>
            /\ Len(assessed[job[p]]) = 1
            /\ assessed[job[p]][1].reading = "elevated" => incidents[job[p]] = 1

Answered ==
  \A j \in Jobs :
    /\ outer[j] = "completed" /\ ~Foreign(j) => inner[j] = "completed"
    /\ inner[j] = "completed" =>
         Len(assessed[j]) = 1 /\ (assessed[j][1].reading = "elevated" => incidents[j] = 1)

MonitoringInv ==
  /\ TypeOK /\ JobShape /\ ForeignShape /\ HolderShape /\ WorkShape
  /\ OneAssessmentPerJob /\ Answered

-----------------------------------------------------------------------------
(***************************************************************************)
(* Types.                                                                  *)
(***************************************************************************)
LEMMA TypeFacts ==
  ASSUME TypeOK, JobShape, NEW p \in Processes, pc[p] \in Keyed
  PROVE  job[p] \in Jobs /\ TripOf[job[p]] \in Trips
BY JobsTyped DEF JobShape

LEMMA StepsTyped ==
  ASSUME NEW p
  PROVE  /\ Ended(p) \in Steps /\ AfterClaim(p) \in Steps /\ AfterFinish(p) \in Steps
         /\ AfterScore(p) \in Steps
BY DEF Ended, AfterClaim, AfterFinish, AfterScore, Steps

LEMMA EmptyTyped == NoEvidence \in Snapshot /\ NoCopy \in TripRow
BY DEF NoEvidence, Snapshot, Readings, NoCopy, TripRow

LEMMA LeaveTyped ==
  ASSUME TypeOK, NEW p \in Processes, NEW s \in Steps, Leave(p, s)
  PROVE  pc' \in [Processes -> Steps] /\ job' \in [Processes -> Jobs \cup {NoTrip}]
<1>1. job' = [job EXCEPT ![p] = NoTrip] \/ job' = [job EXCEPT ![p] = job[p]]
  BY DEF Leave, TypeOK
<1>2. job[p] \in Jobs \cup {NoTrip}
  BY DEF TypeOK
<1> QED
  BY <1>1, <1>2 DEF Leave, GoTo, TypeOK

LEMMA AbandonTyped ==
  ASSUME TypeOK, NEW p \in Processes, Abandon(p)
  PROVE  /\ pc' \in [Processes -> Steps] /\ job' \in [Processes -> Jobs \cup {NoTrip}]
         /\ todo' \in [Schedulers -> SUBSET Windows]
         /\ copy' \in [Processes -> TripRow] /\ snap' \in [Processes -> Snapshot]
<1>1. Leave(p, Ended(p)) /\ Ended(p) \in Steps
  BY StepsTyped DEF Abandon
<1> QED
  BY <1>1, LeaveTyped, EmptyTyped DEF Abandon, TypeOK

LEMMA RunTyped ==
  ASSUME TypeOK, NEW s \in Schedulers, Run(s)
  PROVE  TypeOK'
<1> USE DEF TypeOK
<1>1. s \in Processes
  BY DEF Processes
<1>2. CASE StartRun(s)
  BY <1>1, <1>2 DEF StartRun, Listed, GoTo, Steps, store, env
<1>3. CASE EndRun(s)
  BY <1>1, <1>3 DEF EndRun, GoTo, Steps, store, env
<1>4. ASSUME NEW w \in Windows, SkipTrip(s, w) PROVE TypeOK'
  BY <1>4 DEF SkipTrip, store, env
<1>5. ASSUME NEW w \in Windows, VisitWindow(s, w) PROVE TypeOK'
  BY <1>1, <1>5 DEF VisitWindow, GoTo, Steps, store, env, Jobs
<1> QED
  BY <1>2, <1>3, <1>4, <1>5 DEF Run

LEMMA WebhookTyped ==
  ASSUME TypeOK, JobShape, NEW h \in Hooks, Webhook(h)
  PROVE  TypeOK'
<1> USE DEF TypeOK
<1>1. h \in Processes /\ job[h] \in Messages /\ job[h] \in Jobs /\ TripOf[job[h]] \in Trips
      /\ VersionOf[job[h]] \in Nat
  BY JobsTyped DEF Processes, JobShape, Jobs
<1>2. CASE PrepareWebhook(h)
  <2>1. trip[TripOf[job[h]]] \in TripRow
    BY <1>1
  <2>2. copy' \in [Processes -> TripRow]
    <3>1. copy' = copy \/ \E c \in TripRow : copy' = [copy EXCEPT ![h] = c]
      BY <1>1, <1>2, <2>1 DEF PrepareWebhook, TripRow
    <3> QED
      BY <1>1, <3>1
  <2>3. created' \in [Hooks -> BOOLEAN]
    BY <1>2 DEF PrepareWebhook
  <2>4. pc' \in [Processes -> Steps]
    BY <1>1, <1>2 DEF PrepareWebhook, GoTo, Steps
  <2> QED
    BY <1>2, <2>2, <2>3, <2>4 DEF PrepareWebhook, store
<1>3. CASE SaveTrip(h)
  BY <1>1, <1>3 DEF SaveTrip, GoTo, Steps, env
<1>4. CASE GetWebhookEvidence(h)
  BY <1>1, <1>4 DEF GetWebhookEvidence, GoTo, Steps, env, store
<1>5. CASE SaveWebhookEvidence(h)
  <2>1. NoEvidence \in Snapshot
    BY DEF NoEvidence, Snapshot, Readings
  <2>2. CancellationEvidence(h) \subseteq Snapshot
    <3>1. snap[h] \in Snapshot /\ copy[h] \in TripRow
      BY <1>1
    <3>2. ASSUME NEW r \in {"calm", "elevated", snap[h].reading}
          PROVE  [snap[h] EXCEPT !.reading = r] \in Snapshot
      BY <3>1 DEF Snapshot, Readings
    <3>3. [held |-> TRUE, version |-> copy[h].version, reading |-> "elevated"] \in Snapshot
      BY <3>1 DEF Snapshot, TripRow, Readings
    <3> QED
      BY <3>2, <3>3 DEF CancellationEvidence
  <2>3. evidence' \in [Trips -> Snapshot]
    BY <1>1, <1>5, <2>1, <2>2 DEF SaveWebhookEvidence
  <2> QED
    BY <1>1, <1>5, <2>3 DEF SaveWebhookEvidence, GoTo, Steps, env
<1> QED
  BY <1>2, <1>3, <1>4, <1>5 DEF Webhook

LEMMA OuterTyped ==
  ASSUME TypeOK, NEW p \in Processes, OuterSteps(p)
  PROVE  TypeOK'
<1> USE DEF TypeOK, KeyStates
<1>1. CASE ClaimOuter(p)
  BY <1>1, StepsTyped DEF ClaimOuter, GoTo, env
<1>2. CASE ReplayOuter(p)
  BY <1>2, StepsTyped, LeaveTyped DEF ReplayOuter, env, store
<1>3. CASE RefuseOuter(p)
  BY <1>3, AbandonTyped DEF RefuseOuter, env, store
<1>4. CASE FinishOuter(p)
  BY <1>4, StepsTyped, LeaveTyped DEF FinishOuter, env
<1> QED
  BY <1>1, <1>2, <1>3, <1>4 DEF OuterSteps

LEMMA AssessTyped ==
  ASSUME TypeOK, JobShape, NEW p \in Processes, AssessTrip(p)
  PROVE  TypeOK'
<1> USE DEF TypeOK, KeyStates
<1>0. pc[p] \in Keyed
  BY DEF AssessTrip, ReadTrip, ClaimInner, GetEvidence, SaveEvidence, SaveAssessment,
     RaiseAssessment, SaveIncident, CompleteInner, Keyed, Executing, Gathering
<1>00. job[p] \in Jobs /\ TripOf[job[p]] \in Trips
  BY <1>0, TypeFacts
<1>1. CASE ReadTrip(p)
  BY <1>00, <1>1 DEF ReadTrip, GoTo, Steps, env, store
<1>2. CASE ClaimInner(p)
  <2>1. inner' \in [Jobs -> KeyStates]
    BY <1>2 DEF ClaimInner
  <2>2. CASE Abandon(p)
    BY <1>2, <2>1, <2>2, AbandonTyped DEF ClaimInner, env
  <2>3. CASE ~Abandon(p)
    <3>1. UNCHANGED <<job, todo, copy, snap>> /\ \E s \in Steps : GoTo(p, s)
      BY <1>2, <2>3 DEF ClaimInner, Steps
    <3> QED
      BY <1>2, <2>1, <3>1 DEF ClaimInner, env, GoTo
  <2> QED
    BY <2>2, <2>3
<1>3. CASE GetEvidence(p)
  <2>1. snap' \in [Processes -> Snapshot]
    <3>1. \E e \in Snapshot : snap' = [snap EXCEPT ![p] = e]
      BY <1>00, <1>3 DEF GetEvidence, Snapshot, TripRow
    <3> QED
      BY <3>1
  <2>2. pc' \in [Processes -> Steps]
    <3>1. \E s \in Steps : GoTo(p, s)
      BY <1>3 DEF GetEvidence, Steps
    <3> QED
      BY <3>1 DEF GoTo
  <2> QED
    BY <1>3, <2>1, <2>2 DEF GetEvidence, env, store
<1>4. CASE SaveEvidence(p)
  BY <1>4 DEF SaveEvidence, GoTo, Steps, env
<1>5. CASE SaveAssessment(p)
  <2>1. NoEvidence \in Snapshot /\ NoCopy \in TripRow
    BY EmptyTyped
  <2>2. assessed' \in [Jobs -> Seq(Snapshot)]
    <3>1. assessed[job[p]] \in Seq(Snapshot) /\ snap[p] \in Snapshot
      BY <1>00
    <3>2. Append(assessed[job[p]], snap[p]) \in Seq(Snapshot)
      BY <3>1
    <3>3. assessed' = [assessed EXCEPT ![job[p]] = Append(assessed[job[p]], snap[p])]
      BY <1>5 DEF SaveAssessment
    <3> QED
      BY <3>2, <3>3
  <2> QED
    BY <1>5, <2>1, <2>2, StepsTyped DEF SaveAssessment, GoTo, env
<1>50. CASE RaiseAssessment(p)
  BY <1>50, AbandonTyped DEF RaiseAssessment, store
<1>6. CASE SaveIncident(p)
  BY <1>00, <1>6 DEF SaveIncident, GoTo, Steps, env
<1>7. CASE CompleteInner(p)
  BY <1>7 DEF CompleteInner, GoTo, Steps, env
<1> QED
  BY <1>1, <1>2, <1>3, <1>4, <1>5, <1>50, <1>6, <1>7 DEF AssessTrip

\* Assignments, clients, time and crashes.
OtherStep ==
  \/ \E c \in Callers : StartCall(c)
  \/ \E p \in Processes : Crash(p)
  \/ \E a \in Admins : ReadForAssignment(a) \/ SaveAssignment(a)
  \/ \E e \in Reporters : \E r \in Readings : PutEvidence(e, r)
  \/ \E w \in Windows : OpenWindow(w) \/ CloseWindow(w)
  \/ SetAutomation

LEMMA OtherTyped ==
  ASSUME TypeOK, OtherStep \/ UNCHANGED vars
  PROVE  TypeOK'
<1> USE DEF TypeOK
<1>1. ASSUME NEW c \in Callers, StartCall(c) PROVE TypeOK'
  BY <1>1 DEF StartCall, GoTo, Steps, env, store, Processes
<1>2. ASSUME NEW p \in Processes, Crash(p) PROVE TypeOK'
  BY <1>2, AbandonTyped, JobsTyped DEF Crash, store
<1>3. ASSUME NEW a \in Admins, ReadForAssignment(a) PROVE TypeOK'
  BY <1>3, JobsTyped DEF ReadForAssignment, GoTo, Steps, env, store, Processes
<1>4. ASSUME NEW a \in Admins, SaveAssignment(a) PROVE TypeOK'
  BY <1>4, JobsTyped DEF SaveAssignment, GoTo, Steps, env, Processes
<1>5. ASSUME NEW e \in Reporters, NEW r \in Readings, PutEvidence(e, r) PROVE TypeOK'
  <2>1. [held |-> TRUE, version |-> trip[TripAt[e]].version, reading |-> r] \in Snapshot
    BY JobsTyped DEF TripRow, Snapshot
  <2> QED
    BY <1>5, <2>1 DEF PutEvidence, env
<1>6. ASSUME NEW w \in Windows, OpenWindow(w) \/ CloseWindow(w) PROVE TypeOK'
  BY <1>6 DEF OpenWindow, CloseWindow, store
<1>7. CASE SetAutomation
  BY <1>7 DEF SetAutomation, store
<1>8. CASE UNCHANGED vars
  BY <1>8 DEF vars
<1> QED
  BY <1>1, <1>2, <1>3, <1>4, <1>5, <1>6, <1>7, <1>8 DEF OtherStep

-----------------------------------------------------------------------------
(***************************************************************************)
(* The job of a process.                                                   *)
(***************************************************************************)
LEMMA JobsKept ==
  ASSUME TypeOK, JobShape, [Next]_vars
  PROVE  JobShape'
<1> USE DEF JobShape
<1>1. ASSUME NEW s \in Schedulers, NEW w \in Windows, VisitWindow(s, w) PROVE JobShape'
  <2>1. job' = [job EXCEPT ![s] = w] /\ pc' = [pc EXCEPT ![s] = "outer"]
    BY <1>1 DEF VisitWindow, GoTo
  <2>2. s \in Processes /\ w \in Jobs \ Messages /\ s \notin Hooks \cup Callers
    BY JobsTyped DEF Processes, Jobs
  <2>3. Hooks \cup Callers \subseteq Processes
    BY DEF Processes
  <2> QED
    BY <2>1, <2>2, <2>3 DEF TypeOK
<1>2. ASSUME NEW p \in Hooks \cup Callers, job' = job,
             NEW s \in Steps, pc' = [pc EXCEPT ![p] = s]
      PROVE  JobShape'
  <2>1. job[p] \in Jobs /\ (p \in Hooks \/ job[p] \notin Messages)
    BY JobsTyped DEF Jobs
  <2> QED
    BY <1>2, <2>1 DEF TypeOK
<1>3. ASSUME NEW h \in Hooks, Webhook(h) PROVE JobShape'
  <2>1. job' = job /\ \E s \in Steps : GoTo(h, s)
    BY <1>3 DEF Webhook, PrepareWebhook, SaveTrip, GetWebhookEvidence,
       SaveWebhookEvidence, Steps
  <2> QED
    BY <1>2, <2>1 DEF GoTo
<1>4. ASSUME NEW c \in Callers, StartCall(c) PROVE JobShape'
  BY <1>2, <1>4 DEF StartCall, GoTo, Steps
<1>5. ASSUME NEW p \in Processes, job' = job, pc[p] \in Keyed,
             NEW s, pc' = [pc EXCEPT ![p] = s]
      PROVE  JobShape'
  BY <1>5 DEF TypeOK
<1>80. ASSUME NEW p \in Processes, NEW s, s \notin Keyed, Leave(p, s) PROVE JobShape'
  <2>1. \A q \in Processes : /\ pc'[q] = IF q = p THEN s ELSE pc[q]
                             /\ q # p => job'[q] = job[q]
    BY <1>80 DEF TypeOK, Leave, GoTo
  <2>2. \A q \in Hooks \cup Callers : job'[q] = job[q]
    BY <1>80, JobsTyped DEF TypeOK, Leave, Processes
  <2> QED
    BY <1>80, <2>1, <2>2
<1>6. ASSUME NEW p \in Processes, OuterSteps(p) PROVE JobShape'
  <2>1. CASE ClaimOuter(p)
    BY <1>5, <2>1 DEF ClaimOuter, GoTo, Keyed
  <2>2. CASE ReplayOuter(p) \/ RefuseOuter(p) \/ FinishOuter(p)
    BY <1>80, <2>2 DEF ReplayOuter, RefuseOuter, FinishOuter, Abandon, AfterFinish, Ended,
       Keyed, Executing, Gathering
  <2> QED
    BY <1>6, <2>1, <2>2 DEF OuterSteps
<1>7. ASSUME NEW p \in Processes, AssessTrip(p) PROVE JobShape'
  <2>1. CASE Abandon(p)
    BY <1>80, <2>1 DEF Abandon, Ended, Keyed, Executing, Gathering
  <2>2. CASE ~Abandon(p)
    <3>1. job' = job /\ pc[p] \in Keyed /\ \E s : pc' = [pc EXCEPT ![p] = s]
      BY <1>7, <2>2 DEF AssessTrip, ReadTrip, ClaimInner, GetEvidence, SaveEvidence,
         SaveAssessment, RaiseAssessment, SaveIncident, CompleteInner, GoTo, Keyed,
         Executing, Gathering
    <3> QED
      BY <1>5, <3>1
  <2> QED
    BY <2>1, <2>2
<1>8. ASSUME NEW p \in Processes, job' = job, NEW s, s \notin Keyed,
             pc' = [pc EXCEPT ![p] = s]
      PROVE  JobShape'
  BY <1>8 DEF TypeOK
<1>9. ASSUME NEW p \in Processes, Crash(p) PROVE JobShape'
  BY <1>80, <1>9 DEF Crash, Abandon, Ended, Keyed, Executing, Gathering
<1>10. ASSUME NEW a \in Admins, ReadForAssignment(a) \/ SaveAssignment(a) PROVE JobShape'
  BY <1>8, <1>10 DEF ReadForAssignment, SaveAssignment, GoTo, Keyed, Executing, Gathering,
     Processes
<1>11. ASSUME NEW s \in Schedulers, StartRun(s) \/ EndRun(s) PROVE JobShape'
  BY <1>8, <1>11 DEF StartRun, EndRun, GoTo, Keyed, Executing, Gathering, Processes
<1>12. CASE UNCHANGED <<pc, job>>
  BY <1>12
<1>13. ASSUME NEW s \in Schedulers, NEW w \in Windows, SkipTrip(s, w) PROVE JobShape'
  BY <1>12, <1>13 DEF SkipTrip
<1>14. ASSUME NEW e \in Reporters, NEW r \in Readings, PutEvidence(e, r) PROVE JobShape'
  BY <1>12, <1>14 DEF PutEvidence
<1>15. ASSUME NEW w \in Windows, OpenWindow(w) \/ CloseWindow(w) PROVE JobShape'
  BY <1>12, <1>15 DEF OpenWindow, CloseWindow
<1>16. CASE SetAutomation \/ UNCHANGED vars
  BY <1>12, <1>16 DEF SetAutomation, vars
<1> QED
  BY <1>1, <1>3, <1>4, <1>6, <1>7, <1>9, <1>10, <1>11, <1>13, <1>14, <1>15, <1>16
     DEF Next, Run

\* One process moves: to work on an event it goes only from that event's work,
\* or after a check of its type.
LEMMA MoveKeepsForeign ==
  ASSUME TypeOK, ForeignShape, NEW p \in Processes, NEW s,
         pc' = [pc EXCEPT ![p] = s], inner' = inner,
         \A q \in Processes : q # p => job'[q] = job[q],
         s \in Working => ~Foreign(job'[p])
  PROVE  ForeignShape'
<1>1. \A q \in Processes : pc'[q] = IF q = p THEN s ELSE pc[q]
  BY DEF TypeOK
<1> QED
  BY <1>1 DEF ForeignShape, Foreign

LEMMA ForeignKept ==
  ASSUME TypeOK, JobShape, ForeignShape, [Next]_vars
  PROVE  ForeignShape'
<1> USE DEF GoTo, store
<1>1. ASSUME NEW p \in Processes, NEW s, s \notin Working, Leave(p, s), inner' = inner
      PROVE  ForeignShape'
  <2>1. \A q \in Processes : q # p => job'[q] = job[q]
    BY <1>1 DEF Leave, TypeOK
  <2> QED
    BY <1>1, <2>1, MoveKeepsForeign DEF Leave
<1>2. ASSUME NEW p \in Processes, NEW s, pc' = [pc EXCEPT ![p] = s], UNCHANGED <<inner, job>>,
             s \notin Working \/ pc[p] \in Working
      PROVE  ForeignShape'
  BY <1>2, MoveKeepsForeign DEF ForeignShape
<1>4. ASSUME NEW p \in Processes, inner' = inner, Abandon(p) PROVE ForeignShape'
  BY <1>1, <1>4 DEF Abandon, Ended, Working, Keyed, Executing, Gathering
<1>5. ASSUME NEW s \in Schedulers, Run(s) PROVE ForeignShape'
  <2>0. s \in Processes
    BY DEF Processes
  <2>1. CASE StartRun(s) \/ EndRun(s)
    BY <1>2, <2>0, <2>1 DEF StartRun, EndRun, Working, Keyed, Executing, Gathering
  <2>2. ASSUME NEW w \in Windows, SkipTrip(s, w) PROVE ForeignShape'
    BY <2>2 DEF SkipTrip, ForeignShape
  <2>3. ASSUME NEW w \in Windows, VisitWindow(s, w) PROVE ForeignShape'
    <3>1. \A q \in Processes : q # s => job'[q] = job[q]
      BY <2>3 DEF VisitWindow, TypeOK
    <3> QED
      BY <2>0, <2>3, <3>1, MoveKeepsForeign DEF VisitWindow, Working
  <2> QED
    BY <1>5, <2>1, <2>2, <2>3 DEF Run
<1>6. ASSUME NEW h \in Hooks, Webhook(h) PROVE ForeignShape'
  <2>0. h \in Processes
    BY DEF Processes
  <2>1. CASE PrepareWebhook(h)
    BY <1>2, <2>0, <2>1 DEF PrepareWebhook, Working, Keyed, Executing, Gathering
  <2>2. CASE SaveTrip(h) \/ GetWebhookEvidence(h) \/ SaveWebhookEvidence(h)
    <3>1. pc[h] \in Working /\ UNCHANGED <<inner, job>> /\ \E s : pc' = [pc EXCEPT ![h] = s]
      BY <2>2 DEF SaveTrip, GetWebhookEvidence, SaveWebhookEvidence, Working, Keyed
    <3> QED
      BY <1>2, <2>0, <3>1
  <2> QED
    BY <1>6, <2>1, <2>2 DEF Webhook
<1>7. ASSUME NEW c \in Callers, StartCall(c) PROVE ForeignShape'
  <2>1. c \in Processes /\ ~Foreign(job[c])
    BY JobsTyped DEF Processes, JobShape, Foreign
  <2> QED
    BY <1>7, <2>1, MoveKeepsForeign DEF StartCall
<1>8. ASSUME NEW p \in Processes, OuterSteps(p) PROVE ForeignShape'
  <2>1. CASE ClaimOuter(p)
    <3>1. AfterClaim(p) \in Working => ~Foreign(job[p])
      BY <2>1 DEF ClaimOuter, AfterClaim, IsOther, Foreign, JobShape, Working, Keyed
    <3> QED
      BY <2>1, <3>1, MoveKeepsForeign DEF ClaimOuter
  <2>2. CASE ReplayOuter(p) \/ FinishOuter(p)
    BY <1>1, <2>2 DEF ReplayOuter, FinishOuter, AfterFinish, Working, Keyed, Executing,
       Gathering
  <2>3. CASE RefuseOuter(p)
    BY <1>4, <2>3 DEF RefuseOuter
  <2> QED
    BY <1>8, <2>1, <2>2, <2>3 DEF OuterSteps
<1>9. ASSUME NEW p \in Processes, AssessTrip(p) PROVE ForeignShape'
  <2>1. pc[p] \in Working
    BY <1>9 DEF AssessTrip, ReadTrip, ClaimInner, GetEvidence, SaveEvidence,
       SaveAssessment, RaiseAssessment, SaveIncident, CompleteInner, Working, Keyed,
       Executing, Gathering
  <2>2. ~Foreign(job[p])
    BY <2>1 DEF ForeignShape
  <2>3. CASE inner' = inner /\ Abandon(p)
    BY <1>4, <2>3
  <2>4. CASE ~(inner' = inner /\ Abandon(p))
    <3>1. job' = job /\ \E s : pc' = [pc EXCEPT ![p] = s]
      BY <1>9, <2>4 DEF AssessTrip, ReadTrip, ClaimInner, GetEvidence, SaveEvidence,
         SaveAssessment, RaiseAssessment, SaveIncident, CompleteInner
    <3>2. inner' = inner \/ \E k : inner' = [inner EXCEPT ![job[p]] = k]
      BY <1>9 DEF AssessTrip, ReadTrip, ClaimInner, GetEvidence, SaveEvidence,
         SaveAssessment, RaiseAssessment, SaveIncident, CompleteInner
    <3>3. \A j \in Jobs : Foreign(j) => inner'[j] = inner[j]
      BY <2>2, <3>2 DEF TypeOK
    <3>4. \A q \in Processes : pc'[q] \in Working => ~Foreign(job'[q])
      BY <2>2, <3>1 DEF TypeOK, ForeignShape
    <3> QED
      BY <3>3, <3>4 DEF ForeignShape, Foreign
  <2> QED
    BY <2>3, <2>4
<1>10. ASSUME NEW p \in Processes, Crash(p) PROVE ForeignShape'
  BY <1>4, <1>10 DEF Crash
<1>11. ASSUME NEW a \in Admins, ReadForAssignment(a) \/ SaveAssignment(a) PROVE ForeignShape'
  BY <1>2, <1>11 DEF ReadForAssignment, SaveAssignment, Working, Keyed, Executing, Gathering,
     Processes
<1>12. CASE UNCHANGED <<pc, job, inner>>
  BY <1>12 DEF ForeignShape, Foreign
<1>13. ASSUME NEW e \in Reporters, NEW r \in Readings, PutEvidence(e, r) PROVE ForeignShape'
  BY <1>12, <1>13 DEF PutEvidence
<1>14. ASSUME NEW w \in Windows, OpenWindow(w) \/ CloseWindow(w) PROVE ForeignShape'
  BY <1>12, <1>14 DEF OpenWindow, CloseWindow
<1>15. CASE SetAutomation \/ UNCHANGED vars
  BY <1>12, <1>15 DEF SetAutomation, vars
<1> QED
  BY <1>5, <1>6, <1>7, <1>8, <1>9, <1>10, <1>11, <1>13, <1>14, <1>15 DEF Next

-----------------------------------------------------------------------------
(***************************************************************************)
(* The assessment of a job.                                                *)
(***************************************************************************)
WorkDone == HolderShape /\ WorkShape /\ OneAssessmentPerJob /\ Answered

\* Steps that write nothing under an inner key: nobody enters the assessment
\* or the answer, and a process inside only gathers evidence.
Quiet ==
  /\ UNCHANGED <<inner, assessed, incidents>>
  /\ \A j \in Jobs :
       outer'[j] = "completed" => "completed" \in {outer[j], inner[j]} \/ Foreign(j)
  /\ \A p \in Processes :
       pc'[p] \in Executing \cup {"finish"} =>
         /\ job'[p] = job[p]
         /\ \/ pc'[p] = pc[p] \/ (pc[p] \in Gathering /\ pc'[p] \in Gathering)
            \/ pc'[p] = "finish" /\ Foreign(job[p])

LEMMA QuietKeepsWork ==
  ASSUME MonitoringInv, Quiet
  PROVE  WorkDone'
<1>1. \A p \in Processes :
        /\ pc'[p] \in Executing => pc[p] \in Executing /\ job'[p] = job[p]
        /\ pc'[p] \in Gathering => pc[p] \in Gathering
        /\ pc'[p] \in {"incident", "complete"} => pc[p] = pc'[p] /\ job'[p] = job[p]
        /\ pc'[p] = "finish" => job'[p] = job[p] /\ (pc[p] = "finish" \/ Foreign(job[p]))
  BY DEF Quiet, Executing, Gathering
<1>2. UNCHANGED <<inner, assessed, incidents>>
  BY DEF Quiet
<1>3. HolderShape'
  BY <1>1, <1>2 DEF MonitoringInv, HolderShape, Foreign
<1>4. WorkShape'
  BY <1>1, <1>2 DEF MonitoringInv, WorkShape, Executing
<1>5. OneAssessmentPerJob' /\ Answered'
  BY <1>2 DEF MonitoringInv, OneAssessmentPerJob, Answered, Quiet, Foreign
<1> QED
  BY <1>3, <1>4, <1>5 DEF WorkDone

\* One process moves, and not into the assessment or the answer.
LEMMA MoveIsQuiet ==
  ASSUME TypeOK, NEW p \in Processes, NEW s,
         pc' = [pc EXCEPT ![p] = s], s \notin Executing \cup {"finish"},
         \A q \in Processes : q # p => job'[q] = job[q],
         UNCHANGED <<outer, inner, assessed, incidents>>
  PROVE  Quiet
BY DEF TypeOK, Quiet

LEMMA AbandonIsQuiet ==
  ASSUME TypeOK, NEW p \in Processes, Abandon(p), UNCHANGED <<outer, inner, assessed, incidents>>
  PROVE  Quiet
<1>1. \A q \in Processes : q # p => job'[q] = job[q]
  BY DEF Abandon, Leave, TypeOK
<1>2. pc' = [pc EXCEPT ![p] = Ended(p)] /\ Ended(p) \notin Executing \cup {"finish"}
  BY DEF Abandon, Leave, GoTo, Ended, Executing, Gathering
<1> QED
  BY <1>1, <1>2, MoveIsQuiet

LEMMA RunIsQuiet ==
  ASSUME TypeOK, NEW s \in Schedulers, Run(s)
  PROVE  Quiet
<1>0. s \in Processes
  BY DEF Processes
<1> USE DEF store, GoTo, Executing, Gathering
<1>1. CASE StartRun(s) \/ EndRun(s)
  BY <1>0, <1>1, MoveIsQuiet DEF StartRun, EndRun
<1>2. ASSUME NEW w \in Windows, SkipTrip(s, w) PROVE Quiet
  BY <1>2 DEF SkipTrip, Quiet
<1>3. ASSUME NEW w \in Windows, VisitWindow(s, w) PROVE Quiet
  <2>1. \A q \in Processes : q # s => job'[q] = job[q]
    BY <1>3 DEF VisitWindow, TypeOK
  <2> QED
    BY <1>0, <1>3, <2>1, MoveIsQuiet DEF VisitWindow
<1> QED
  BY <1>1, <1>2, <1>3 DEF Run

LEMMA WebhookIsQuiet ==
  ASSUME TypeOK, NEW h \in Hooks, Webhook(h)
  PROVE  Quiet
<1>1. h \in Processes
  BY DEF Processes
<1>2. job' = job /\ UNCHANGED <<outer, inner, assessed, incidents>>
  BY DEF Webhook, PrepareWebhook, SaveTrip, GetWebhookEvidence, SaveWebhookEvidence, store
<1>3. \E s \in {"done", "outer", "get_evidence", "read", "save_evidence"} : GoTo(h, s)
  BY DEF Webhook, PrepareWebhook, SaveTrip, GetWebhookEvidence, SaveWebhookEvidence
<1> QED
  BY <1>1, <1>2, <1>3, MoveIsQuiet DEF GoTo, Executing, Gathering

LEMMA OtherIsQuiet ==
  ASSUME TypeOK, OtherStep \/ UNCHANGED vars
  PROVE  Quiet
<1> USE DEF store, GoTo, Executing, Gathering
<1>1. ASSUME NEW c \in Callers, StartCall(c) PROVE Quiet
  BY <1>1, MoveIsQuiet DEF StartCall, Processes
<1>2. ASSUME NEW p \in Processes, Crash(p) PROVE Quiet
  BY <1>2, AbandonIsQuiet DEF Crash
<1>3. ASSUME NEW a \in Admins, ReadForAssignment(a) \/ SaveAssignment(a) PROVE Quiet
  BY <1>3, MoveIsQuiet DEF ReadForAssignment, SaveAssignment, Processes
<1>4. CASE UNCHANGED <<outer, inner, assessed, incidents, pc, job>>
  BY <1>4 DEF Quiet
<1>5. ASSUME NEW e \in Reporters, NEW r \in Readings, PutEvidence(e, r) PROVE Quiet
  BY <1>4, <1>5 DEF PutEvidence
<1>6. ASSUME NEW w \in Windows, OpenWindow(w) \/ CloseWindow(w) PROVE Quiet
  BY <1>4, <1>6 DEF OpenWindow, CloseWindow
<1>7. CASE SetAutomation \/ UNCHANGED vars
  BY <1>4, <1>7 DEF SetAutomation, vars
<1> QED
  BY <1>1, <1>2, <1>3, <1>5, <1>6, <1>7 DEF OtherStep

LEMMA OuterIsQuiet ==
  ASSUME MonitoringInv, NEW p \in Processes, OuterSteps(p)
  PROVE  Quiet
<1>0. TypeOK
  BY DEF MonitoringInv
<1>1. CASE RefuseOuter(p)
  BY <1>0, <1>1, AbandonIsQuiet DEF RefuseOuter, store
<1>2. CASE ReplayOuter(p) \/ FinishOuter(p)
  <2>1. /\ UNCHANGED <<inner, assessed, incidents>>
        /\ \A q \in Processes : q # p => job'[q] = job[q]
    BY <1>0, <1>2 DEF ReplayOuter, FinishOuter, Leave, store, TypeOK
  <2>2. \A q \in Processes : pc'[q] \in Executing \cup {"finish"} => q # p /\ pc'[q] = pc[q]
    BY <1>0, <1>2 DEF ReplayOuter, FinishOuter, Leave, GoTo, AfterFinish, TypeOK, Executing,
       Gathering
  <2>3. \A j \in Jobs :
          outer'[j] = "completed" => "completed" \in {outer[j], inner[j]} \/ Foreign(j)
    <3>1. CASE ReplayOuter(p)
      BY <3>1 DEF ReplayOuter, store
    <3>2. CASE FinishOuter(p)
      <4>1. inner[job[p]] = "completed" \/ Foreign(job[p])
        BY <3>2 DEF FinishOuter, MonitoringInv, HolderShape
      <4> QED
        BY <1>0, <3>2, <4>1 DEF FinishOuter, TypeOK
    <3> QED
      BY <1>2, <3>1, <3>2
  <2> QED
    BY <2>1, <2>2, <2>3 DEF Quiet
<1>3. CASE ClaimOuter(p)
  <2>1. UNCHANGED <<inner, assessed, incidents, job>>
    BY <1>3 DEF ClaimOuter
  <2>2. \A q \in Processes : pc'[q] = IF q = p THEN AfterClaim(p) ELSE pc[q]
    BY <1>0, <1>3 DEF ClaimOuter, GoTo, TypeOK
  <2>3. job[p] \in Jobs /\ (p \in Hooks => job[p] \in Messages)
    BY <1>3, JobsTyped DEF ClaimOuter, MonitoringInv, JobShape, Keyed
  <2>4. AfterClaim(p) \in Executing \cup {"finish"} =>
          AfterClaim(p) = "finish" /\ Foreign(job[p])
    BY <2>3 DEF AfterClaim, IsOther, Foreign, Executing, Gathering
  <2>5. \A j \in Jobs : outer'[j] = "completed" => outer[j] = "completed"
    BY <1>0, <1>3 DEF ClaimOuter, TypeOK
  <2> QED
    BY <2>1, <2>2, <2>4, <2>5 DEF Quiet
<1> QED
  BY <1>1, <1>2, <1>3 DEF OuterSteps

\* Reading the trip, and gathering evidence for it.
LEMMA GatheringIsQuiet ==
  ASSUME TypeOK, NEW p \in Processes, ReadTrip(p) \/ GetEvidence(p) \/ SaveEvidence(p)
  PROVE  Quiet
<1>1. UNCHANGED <<outer, inner, assessed, incidents, job>>
  BY DEF ReadTrip, GetEvidence, SaveEvidence, store
<1>2. \/ pc' = [pc EXCEPT ![p] = "inner"]
      \/ pc[p] \in Gathering /\ \E s \in Gathering : pc' = [pc EXCEPT ![p] = s]
  BY DEF ReadTrip, GetEvidence, SaveEvidence, GoTo, Gathering
<1>3. "inner" \notin Executing \cup {"finish"}
  BY DEF Executing, Gathering
<1> QED
  BY <1>1, <1>2, <1>3 DEF Quiet, TypeOK

\* The claim: whoever finds the key absent executes, and is alone.
LEMMA ClaimKeepsWork ==
  ASSUME MonitoringInv, NEW p \in Processes, ClaimInner(p)
  PROVE  WorkDone'
<1> DEFINE j == job[p]
<1>0. /\ TypeOK /\ j \in Jobs /\ pc[p] = "inner"
      /\ UNCHANGED <<outer, assessed, incidents>> /\ ~Foreign(j)
  BY TypeFacts DEF MonitoringInv, ForeignShape, Working, ClaimInner, Keyed
<1>1. CASE inner[j] = "absent"
  <2>1. /\ inner' = [inner EXCEPT ![j] = "in_progress"] /\ pc' = [pc EXCEPT ![p] = "evidence"]
        /\ job' = job
    BY <1>1 DEF ClaimInner, Claimable, GoTo
  <2>2. \A i \in Jobs : inner'[i] = IF i = j THEN "in_progress" ELSE inner[i]
    BY <1>0, <2>1 DEF TypeOK
  <2>3. \A q \in Processes : pc'[q] = IF q = p THEN "evidence" ELSE pc[q]
    BY <1>0, <2>1 DEF TypeOK
  <2>4. \A q \in Processes :
          /\ pc[q] \in Executing => job[q] \in Jobs /\ job[q] # j
          /\ pc[q] = "finish" => job[q] \in Jobs /\ job[q] # j
    BY <1>0, <1>1 DEF MonitoringInv, HolderShape, JobShape, Keyed
  <2>5. assessed[j] = <<>> /\ incidents[j] = 0
    BY <1>0, <1>1 DEF MonitoringInv, WorkShape
  <2>6. HolderShape'
    BY <1>0, <2>1, <2>2, <2>3, <2>4 DEF MonitoringInv, HolderShape, Foreign
  <2>7. WorkShape'
    BY <1>0, <2>1, <2>2, <2>3, <2>5 DEF MonitoringInv, WorkShape, Gathering
  <2>8. OneAssessmentPerJob'
    BY <1>0 DEF MonitoringInv, OneAssessmentPerJob
  <2>9. Answered'
    BY <1>0, <1>1, <2>2 DEF MonitoringInv, Answered, Foreign
  <2> QED
    BY <2>6, <2>7, <2>8, <2>9 DEF WorkDone
<1>2. CASE inner[j] = "completed"
  <2>1. UNCHANGED <<inner, job>> /\ \E s \in {"finish", "done"} : pc' = [pc EXCEPT ![p] = s]
    BY <1>2 DEF ClaimInner, Claimable, GoTo
  <2>2. \A q \in Processes : q # p => pc'[q] = pc[q]
    BY <1>0, <2>1 DEF TypeOK
  <2>3. pc'[p] \in {"finish", "done"}
    BY <1>0, <2>1 DEF TypeOK
  <2>4. HolderShape'
    BY <1>0, <1>2, <2>1, <2>2, <2>3 DEF MonitoringInv, HolderShape, Executing, Gathering, Foreign
  <2>5. WorkShape'
    BY <1>0, <2>1, <2>2, <2>3 DEF MonitoringInv, WorkShape, Gathering
  <2>6. OneAssessmentPerJob' /\ Answered'
    BY <1>0, <2>1 DEF MonitoringInv, OneAssessmentPerJob, Answered, Foreign
  <2> QED
    BY <2>4, <2>5, <2>6 DEF WorkDone
<1>3. CASE inner[j] = "in_progress"
  <2>1. inner' = inner /\ Abandon(p)
    BY <1>3 DEF ClaimInner, Claimable
  <2>2. Quiet
    BY <1>0, <2>1, AbandonIsQuiet
  <2> QED
    BY <2>2, QuietKeepsWork
<1>4. inner[j] \in KeyStates
  BY <1>0 DEF TypeOK
<1> QED
  BY <1>1, <1>2, <1>3, <1>4 DEF KeyStates

\* The process that executes a job writes its assessment, its incident and its
\* completion; no other process works under that key.
LEMMA ExecutionKeepsWork ==
  ASSUME MonitoringInv, NEW p \in Processes,
         SaveAssessment(p) \/ SaveIncident(p) \/ CompleteInner(p)
  PROVE  WorkDone'
<1> DEFINE j == job[p]
<1>0. TypeOK /\ pc[p] \in Executing /\ UNCHANGED <<outer, job>>
  BY DEF MonitoringInv, SaveAssessment, SaveIncident, CompleteInner, Executing, Gathering
<1>1. j \in Jobs /\ inner[j] = "in_progress" /\ ~Foreign(j)
  BY <1>0, TypeFacts DEF MonitoringInv, HolderShape, ForeignShape, Keyed
<1>2. \A q \in Processes \ {p} :
        /\ pc[q] \in Executing => job[q] \in Jobs /\ job[q] # j
        /\ pc[q] = "finish" => job[q] \in Jobs /\ job[q] # j
  BY <1>0, <1>1 DEF MonitoringInv, HolderShape, JobShape, Keyed
<1>3. assessed[j] \in Seq(Snapshot) /\ incidents[j] \in Nat /\ snap[p] \in Snapshot
  BY <1>0, <1>1 DEF TypeOK
<1>4. CASE SaveAssessment(p)
  <2>1. /\ assessed[j] = <<>> /\ incidents[j] = 0
        /\ assessed' = [assessed EXCEPT ![j] = Append(assessed[j], snap[p])]
        /\ UNCHANGED <<inner, incidents>> /\ pc' = [pc EXCEPT ![p] = AfterScore(p)]
    BY <1>4 DEF SaveAssessment, GoTo, MonitoringInv, WorkShape, Gathering
  <2>2. Len(assessed'[j]) = 1 /\ assessed'[j][1] = snap[p]
    <3>1. assessed'[j] = Append(<<>>, snap[p])
      BY <1>0, <1>1, <2>1 DEF TypeOK
    <3> QED
      BY <1>3, <3>1
  <2>3. \A i \in Jobs \ {j} : assessed'[i] = assessed[i]
    BY <1>0, <2>1 DEF TypeOK
  <2>4. \A q \in Processes \ {p} : pc'[q] = pc[q]
    BY <1>0, <2>1 DEF TypeOK
  <2>5. pc'[p] = IF snap[p].reading = "elevated" THEN "incident" ELSE "complete"
    BY <1>0, <2>1 DEF TypeOK, AfterScore
  <2>6. HolderShape'
    BY <1>0, <1>1, <1>2, <2>1, <2>4, <2>5 DEF MonitoringInv, HolderShape, Executing, Foreign
  <2>7. WorkShape'
    <3>1. \A i \in Jobs : inner'[i] = "absent" => assessed'[i] = <<>> /\ incidents'[i] = 0
      BY <1>1, <2>1, <2>3 DEF MonitoringInv, WorkShape
    <3>2. ASSUME NEW q \in Processes \ {p}
          PROVE  /\ pc'[q] \in Gathering => assessed'[job'[q]] = <<>> /\ incidents'[job'[q]] = 0
                 /\ pc'[q] = "incident" => Len(assessed'[job'[q]]) = 1 /\ incidents'[job'[q]] = 0
                 /\ pc'[q] = "complete" =>
                      /\ Len(assessed'[job'[q]]) = 1
                      /\ assessed'[job'[q]][1].reading = "elevated" => incidents'[job'[q]] = 1
      BY <1>0, <1>2, <2>1, <2>3, <2>4, <3>2 DEF MonitoringInv, WorkShape, Executing
    <3>3. /\ pc'[p] \notin Gathering
          /\ pc'[p] = "incident" => Len(assessed'[j]) = 1 /\ incidents'[j] = 0
          /\ pc'[p] = "complete" => Len(assessed'[j]) = 1 /\ assessed'[j][1].reading # "elevated"
      BY <2>1, <2>2, <2>5 DEF Gathering
    <3> QED
      BY <1>0, <3>1, <3>2, <3>3 DEF WorkShape
  <2>8. OneAssessmentPerJob'
    BY <1>1, <2>1, <2>2, <2>3 DEF MonitoringInv, OneAssessmentPerJob
  <2>9. Answered'
    BY <1>0, <1>1, <2>1, <2>3 DEF MonitoringInv, Answered, Foreign
  <2> QED
    BY <2>6, <2>7, <2>8, <2>9 DEF WorkDone
<1>5. CASE SaveIncident(p)
  <2>1. /\ Len(assessed[j]) = 1 /\ incidents[j] = 0
        /\ incidents' = [incidents EXCEPT ![j] = incidents[j] + 1]
        /\ UNCHANGED <<inner, assessed>> /\ pc' = [pc EXCEPT ![p] = "complete"]
    BY <1>5 DEF SaveIncident, GoTo, MonitoringInv, WorkShape
  <2>2. incidents'[j] = 1 /\ \A i \in Jobs \ {j} : incidents'[i] = incidents[i]
    BY <1>0, <1>1, <2>1 DEF TypeOK
  <2>3. pc'[p] = "complete" /\ \A q \in Processes \ {p} : pc'[q] = pc[q]
    BY <1>0, <2>1 DEF TypeOK
  <2>4. HolderShape'
    BY <1>0, <1>1, <1>2, <2>1, <2>3 DEF MonitoringInv, HolderShape, Executing, Foreign
  <2>5. WorkShape'
    BY <1>0, <1>1, <1>2, <2>1, <2>2, <2>3 DEF MonitoringInv, WorkShape, Executing, Gathering
  <2>6. OneAssessmentPerJob'
    BY <1>1, <2>1, <2>2 DEF MonitoringInv, OneAssessmentPerJob
  <2>7. Answered'
    BY <1>0, <1>1, <2>1, <2>2 DEF MonitoringInv, Answered, Foreign
  <2> QED
    BY <2>4, <2>5, <2>6, <2>7 DEF WorkDone
<1>6. CASE CompleteInner(p)
  <2>1. /\ Len(assessed[j]) = 1 /\ (assessed[j][1].reading = "elevated" => incidents[j] = 1)
        /\ inner' = [inner EXCEPT ![j] = "completed"]
        /\ UNCHANGED <<assessed, incidents>>
        /\ \E s \in {"finish", "done"} : pc' = [pc EXCEPT ![p] = s]
    BY <1>6 DEF CompleteInner, GoTo, MonitoringInv, WorkShape
  <2>2. \A i \in Jobs : inner'[i] = IF i = j THEN "completed" ELSE inner[i]
    BY <1>0, <2>1 DEF TypeOK
  <2>3. pc'[p] \in {"finish", "done"} /\ \A q \in Processes \ {p} : pc'[q] = pc[q]
    BY <1>0, <2>1 DEF TypeOK
  <2>4. HolderShape'
    BY <1>0, <1>1, <1>2, <2>2, <2>3 DEF MonitoringInv, HolderShape, Executing, Gathering, Foreign
  <2>5. WorkShape'
    BY <1>0, <2>1, <2>2, <2>3 DEF MonitoringInv, WorkShape, Gathering
  <2>6. OneAssessmentPerJob'
    BY <2>1 DEF MonitoringInv, OneAssessmentPerJob
  <2>7. Answered'
    BY <1>0, <2>1, <2>2 DEF MonitoringInv, Answered, Foreign
  <2> QED
    BY <2>4, <2>5, <2>6, <2>7 DEF WorkDone
<1> QED
  BY <1>4, <1>5, <1>6

-----------------------------------------------------------------------------
\* However monitor runs, webhook deliveries, calls and crashes overlap, one
\* process at a time executes the assessment of a job, and what it has saved
\* is what its step says.
THEOREM MonitoringInvariance == Spec => []MonitoringInv
<1>1. Init => MonitoringInv
  <2> SUFFICES ASSUME Init PROVE MonitoringInv
    OBVIOUS
  <2>1. TypeOK
    <3>1. trip \in [Trips -> TripRow] /\ NoCopy \in TripRow /\ NoEvidence \in Snapshot
      BY DEF Init, TripRow, NoCopy, NoEvidence, Snapshot, Readings
    <3>2. pc \in [Processes -> Steps]
      BY DEF Init, Steps
    <3>3. job \in [Processes -> Jobs \cup {NoTrip}]
      BY JobsTyped DEF Init, Jobs
    <3>4. assessed \in [Jobs -> Seq(Snapshot)] /\ crashes \in 0 .. MaxCrashes
      BY JobsTyped DEF Init
    <3>5. /\ refreshes \in SUBSET CallKeys
          /\ window \in [Windows -> {"ahead", "open", "past"}]
      BY JobsTyped DEF Init
    <3> QED
      BY <3>1, <3>2, <3>3, <3>4, <3>5 DEF Init, TypeOK, KeyStates
  <2>2. \A p \in Processes : pc[p] \in {"idle", "done"}
    BY DEF Init
  <2>3. JobShape
    <3>1. \A p \in Hooks \cup Callers : job[p] = JobOf[p]
      BY DEF Init, Processes
    <3> QED
      BY <2>2, <3>1 DEF JobShape, Keyed, Executing, Gathering
  <2>4. HolderShape
    BY <2>2 DEF HolderShape, Executing, Gathering
  <2>40. ForeignShape
    BY <2>2 DEF Init, ForeignShape, Working, Keyed, Executing, Gathering
  <2>5. WorkShape /\ OneAssessmentPerJob /\ Answered
    BY <2>2 DEF Init, WorkShape, OneAssessmentPerJob, Answered, Gathering
  <2> QED
    BY <2>1, <2>3, <2>4, <2>40, <2>5 DEF MonitoringInv
<1>2. MonitoringInv /\ [Next]_vars => MonitoringInv'
  <2> SUFFICES ASSUME MonitoringInv, [Next]_vars PROVE MonitoringInv'
    OBVIOUS
  <2>0. TypeOK /\ JobShape /\ JobShape' /\ ForeignShape'
    BY JobsKept, ForeignKept DEF MonitoringInv
  <2>1. ASSUME NEW s \in Schedulers, Run(s) PROVE TypeOK' /\ WorkDone'
    BY <2>0, <2>1, RunTyped, RunIsQuiet, QuietKeepsWork
  <2>2. ASSUME NEW h \in Hooks, Webhook(h) PROVE TypeOK' /\ WorkDone'
    BY <2>0, <2>2, WebhookTyped, WebhookIsQuiet, QuietKeepsWork
  <2>3. ASSUME NEW p \in Processes, OuterSteps(p) PROVE TypeOK' /\ WorkDone'
    BY <2>0, <2>3, OuterTyped, OuterIsQuiet, QuietKeepsWork
  <2>4. ASSUME NEW p \in Processes, AssessTrip(p) PROVE TypeOK' /\ WorkDone'
    <3>1. CASE RaiseAssessment(p)
      <4>1. Abandon(p) /\ UNCHANGED <<outer, inner, assessed, incidents>>
        BY <3>1 DEF RaiseAssessment, store
      <4>2. Quiet
        BY <2>0, <4>1, AbandonIsQuiet
      <4> QED
        BY <2>0, <2>4, <4>2, AssessTyped, QuietKeepsWork
    <3> QED
      BY <2>0, <2>4, <3>1, AssessTyped, GatheringIsQuiet, QuietKeepsWork, ClaimKeepsWork,
         ExecutionKeepsWork DEF AssessTrip
  <2>5. ASSUME OtherStep \/ UNCHANGED vars PROVE TypeOK' /\ WorkDone'
    <3>1. TypeOK'
      BY <2>0, <2>5, OtherTyped
    <3>2. Quiet
      BY <2>0, <2>5, OtherIsQuiet
    <3> QED
      BY <3>1, <3>2, QuietKeepsWork
  <2>6. TypeOK' /\ WorkDone'
    <3>1. \/ OtherStep \/ UNCHANGED vars
          \/ \E s \in Schedulers : Run(s)
          \/ \E h \in Hooks : Webhook(h)
          \/ \E p \in Processes : OuterSteps(p) \/ AssessTrip(p)
      BY DEF Next, OtherStep
    <3> QED
      BY <2>1, <2>2, <2>3, <2>4, <2>5, <3>1
  <2> QED
    BY <2>0, <2>6 DEF MonitoringInv, WorkDone
<1> QED
  BY <1>1, <1>2, PTL DEF Spec

\* A job is assessed once however often it is delivered, and an answer of
\* success means that its assessment is saved and an elevated one has its
\* incident; a webhook of any other event is answered without one and has none.
THEOREM AnswersAreAssessed == Spec => []AnsweredMeansAssessed
<1>1. MonitoringInv => AnsweredMeansAssessed
  BY DEF MonitoringInv, AnsweredMeansAssessed, Answered, Foreign, ForeignShape, WorkShape
<1> QED
  BY <1>1, MonitoringInvariance, PTL
=============================================================================
