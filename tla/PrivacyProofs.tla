--------------------------- MODULE PrivacyProofs ---------------------------
(***************************************************************************)
(* Proofs about Privacy for any number of travelers, trips, holds,         *)
(* deletion requests, concurrent runs of the worker and writing handlers,  *)
(* and any number of crashes and failed transactions.                      *)
(***************************************************************************)
EXTENDS Privacy, TLAPS

-----------------------------------------------------------------------------
(***************************************************************************)
(* The inductive invariant: a worker that is about to report a request     *)
(* completed has had its erasure committed.                                *)
(***************************************************************************)
AtRequest == {"check", "block", "erase", "complete", "fail"}

WorkerShape ==
  \A w \in Workers :
    /\ pc[w] \in AtRequest => cur[w] \in Dels
    /\ pc[w] = "complete" => cur[w] \in erased

\* A hold in force ever since is in force; one that had expired stays so.
HoldShape ==
  /\ \A j \in Jobs : \A h \in standing[j] : hold[h] = "active"
  /\ \A w \in Workers : \A h \in lapsed[w] : hold[h] \in {"expired", "released"}

Reaches(h, w) == Scope[h] \in {"tenant", Subject[cur[w]]}

\* A worker that has passed its check has found no such hold.
CheckedShape ==
  \A w \in Workers : pc[w] = "erase" => \A h \in standing[w] : ~Reaches(h, w)

\* The retention job has read every hold in force since it began, and has
\* chosen no row under one of them.
PurgeShape ==
  /\ purge.step = "holds" => standing[Sweep] \subseteq purge.held
  /\ purge.step = "rows" =>
       \A r \in purge.doomed, h \in standing[Sweep] : r[1] # "note" => ~Covers(h, r)

PrivacyInv == WorkerShape /\ HoldShape /\ CheckedShape /\ PurgeShape /\ CompletedMeansErased

-----------------------------------------------------------------------------
(***************************************************************************)
(* Rows.                                                                   *)
(***************************************************************************)
LEMMA RowShape ==
  ASSUME NEW r \in Rows
  PROVE  /\ r = <<r[1], r[2]>>
         /\ r[1] \in {"trip", "case", "profile", "proposal", "note"}
         /\ r[1] \in {"trip", "case"} => r[2] \in Trips
         /\ r[1] \in {"profile", "proposal", "note"} => r[2] \in Travelers
BY DEF Rows

\* A handler writes rows that exist in the schema.
LEMMA DerivedRows ==
  ASSUME NEW r \in Rows
  PROVE  Derived(r) \subseteq Rows
<1>1. CASE r[1] = "trip"
  BY <1>1, RowShape DEF Derived, Rows
<1>2. CASE r[1] = "case"
  <2>1. r[2] \in Trips /\ TravelerOf[r[2]] \in Travelers
    BY <1>2, RowShape, PrivacyTyped
  <2> QED
    BY <1>2, <2>1 DEF Derived, Rows
<1>3. CASE r[1] = "proposal"
  BY <1>3, RowShape DEF Derived, Rows
<1>4. CASE r[1] \notin {"trip", "case", "proposal"}
  BY <1>4 DEF Derived
<1> QED
  BY <1>1, <1>2, <1>3, <1>4

Tables == rows \in SUBSET Rows /\ aged \in SUBSET rows

\* Every step leaves rows of the schema, and marks as aged only rows there are.
LEMMA TablesKept ==
  ASSUME TypeOK, [Next]_vars
  PROVE  Tables' /\ pending' \in [Writers -> SUBSET Rows]
<1> USE DEF TypeOK, Tables
<1>1. CASE UNCHANGED <<rows, aged, pending>>
  BY <1>1
<1>2. ASSUME NEW R, Remove(R), pending' = pending
      PROVE  Tables' /\ pending' \in [Writers -> SUBSET Rows]
  BY <1>2 DEF Remove
<1>3. ASSUME NEW h \in Holds, CreateHold(h) \/ ReleaseHold(h) \/ ExpireHold(h)
      PROVE  Tables' /\ pending' \in [Writers -> SUBSET Rows]
  BY <1>1, <1>3 DEF CreateHold, ReleaseHold, ExpireHold
<1>4. ASSUME NEW d \in Dels, RequestDeletion(d)
      PROVE  Tables' /\ pending' \in [Writers -> SUBSET Rows]
  BY <1>1, <1>4 DEF RequestDeletion
<1>5. ASSUME NEW w \in Workers, Work(w) \/ EraseFails(w) \/ CrashWorker(w)
      PROVE  Tables' /\ pending' \in [Writers -> SUBSET Rows]
  <2>1. CASE Erase(w)
    BY <1>2, <2>1 DEF Erase, elsewhere
  <2>2. CASE ~Erase(w)
    BY <1>1, <1>5, <2>2 DEF Work, ListRequests, EndRun, CheckHolds, SaveStatus,
       TakeRequest, EraseFails, CrashWorker, elsewhere
  <2> QED
    BY <2>1, <2>2
<1>6. ASSUME NEW p \in Writers, NEW v \in Travelers, CheckMemoryDelete(p, v)
      PROVE  Tables' /\ pending' \in [Writers -> SUBSET Rows]
  BY <1>1, <1>6 DEF CheckMemoryDelete
<1>7. ASSUME NEW p \in Writers, DeleteMemory(p)
      PROVE  Tables' /\ pending' \in [Writers -> SUBSET Rows]
  BY <1>2, <1>7 DEF DeleteMemory
<1>8. ASSUME NEW p \in Writers, NEW r \in Rows, ReadBase(p, r)
      PROVE  Tables' /\ pending' \in [Writers -> SUBSET Rows]
  BY <1>8, DerivedRows DEF ReadBase
<1>9. ASSUME NEW p \in Writers, NEW r \in Rows, WriteDerived(p, r)
      PROVE  Tables' /\ pending' \in [Writers -> SUBSET Rows]
  BY <1>9 DEF WriteDerived
<1>10. ASSUME NEW r \in Rows, Create(r) \/ Age(r)
       PROVE  Tables' /\ pending' \in [Writers -> SUBSET Rows]
  BY <1>10 DEF Create, Age
<1>11. CASE Retain
  <2>1. CASE PurgeExpired
    BY <1>2, <2>1 DEF PurgeExpired
  <2>2. CASE ~PurgeExpired
    BY <1>1, <1>11, <2>2 DEF Retain, ReadTrips, ReadHolds, ReadRows, PurgeFails
  <2> QED
    BY <2>1, <2>2
<1>12. CASE UNCHANGED vars
  BY <1>1, <1>12 DEF vars
<1> QED
  BY <1>3, <1>4, <1>5, <1>6, <1>7, <1>8, <1>9, <1>10, <1>11, <1>12 DEF Next

-----------------------------------------------------------------------------
(***************************************************************************)
(* Everything but the rows.                                                *)
(***************************************************************************)
Registers ==
  /\ hold \in [Holds -> {"none", "active", "expired", "released"}]
  /\ del \in [Dels -> Statuses]
  /\ todo \in [Workers -> SUBSET Dels]
  /\ pc \in [Workers -> {"away", "idle", "next", "check", "block", "erase", "complete", "fail"}]
  /\ cur \in [Workers -> Dels \cup {None}]
  /\ lapsed \in [Workers -> SUBSET Holds]
  /\ target \in [Writers -> Travelers \cup {None, "away"}]
  /\ purge \in [step : {"away", "idle", "trips", "holds", "rows"},
                doomed : SUBSET Rows, held : SUBSET Holds]
  /\ standing \in [Jobs -> SUBSET Holds]
  /\ erased \in SUBSET Dels
  /\ faults \in 0 .. MaxFaults

Reports == WorkerShape /\ \A d \in Dels : del[d] = "completed" => d \in erased

LEMMA PurgeTyped ==
  ASSUME TypeOK, Retain
  PROVE  /\ purge' \in [step : {"away", "idle", "trips", "holds", "rows"},
                         doomed : SUBSET Rows, held : SUBSET Holds]
         /\ standing' \in [Jobs -> SUBSET Holds]
         /\ faults' \in 0 .. MaxFaults
<1> USE DEF TypeOK
<1>0. Active \subseteq Holds
  BY DEF Active, ActiveAt
<1>1. CASE ReadTrips
  BY <1>0, <1>1 DEF ReadTrips
<1>2. CASE ReadHolds
  BY <1>0, <1>2 DEF ReadHolds
<1>3. CASE ReadRows
  <2>1. {"trip", "case"} \X Trips \subseteq Rows
    BY DEF Rows
  <2> QED
    BY <1>3, <2>1 DEF ReadRows
<1>4. CASE PurgeExpired
  BY <1>4 DEF PurgeExpired, EndPurge
<1>5. CASE PurgeFails
  <2>1. faults' \in 0 .. MaxFaults
    BY <1>5, PrivacyTyped DEF PurgeFails
  <2>2. /\ purge' = [step |-> "idle", doomed |-> {}, held |-> {}]
        /\ standing' = [standing EXCEPT ![Sweep] = {}]
    BY <1>5 DEF PurgeFails, EndPurge
  <2> QED
    BY <2>1, <2>2
<1> QED
  BY <1>1, <1>2, <1>3, <1>4, <1>5 DEF Retain

\* The steps of a worker: it reports completed what it has erased.
LEMMA WorkerKept ==
  ASSUME Registers, Reports, NEW w \in Workers, Work(w) \/ EraseFails(w) \/ CrashWorker(w)
  PROVE  Registers' /\ Reports'
<1> USE DEF Registers, Reports, WorkerShape, AtRequest, GoTo, elsewhere
<1>1. CASE ListRequests(w)
  BY <1>1 DEF ListRequests, Listed, Expired
<1>2. CASE EndRun(w)
  BY <1>2 DEF EndRun
<1>3. CASE CheckHolds(w)
  BY <1>3 DEF CheckHolds
<1>4. CASE Erase(w)
  BY <1>4 DEF Erase
<1>5. CASE SaveStatus(w)
  <2>1. cur[w] \in Dels /\ pc[w] \in {"block", "complete", "fail"}
    BY <1>5 DEF SaveStatus
  <2>2. StatusAfter(pc[w]) \in Statuses /\ (StatusAfter(pc[w]) = "completed" => pc[w] = "complete")
    BY <2>1 DEF StatusAfter, Statuses
  <2> QED
    BY <1>5, <2>1, <2>2 DEF SaveStatus
<1>6. ASSUME NEW d \in Dels, TakeRequest(w, d) PROVE Registers' /\ Reports'
  BY <1>6 DEF TakeRequest, Active, ActiveAt
<1>7. CASE EraseFails(w)
  BY <1>7, PrivacyTyped DEF EraseFails
<1>8. CASE CrashWorker(w)
  <2>1. faults' \in 0 .. MaxFaults
    BY <1>8, PrivacyTyped DEF CrashWorker
  <2>2. UNCHANGED <<rows, aged, hold, del, erased, elsewhere>>
    BY <1>8 DEF CrashWorker
  <2>3. /\ pc' = [pc EXCEPT ![w] = "idle"] /\ todo' = [todo EXCEPT ![w] = {}]
        /\ cur' = [cur EXCEPT ![w] = None] /\ lapsed' = [lapsed EXCEPT ![w] = {}]
        /\ standing' = [standing EXCEPT ![w] = {}]
    BY <1>8 DEF CrashWorker
  <2> QED
    BY <2>1, <2>2, <2>3
<1> QED
  BY <1>1, <1>2, <1>3, <1>4, <1>5, <1>6, <1>7, <1>8 DEF Work

\* The other steps leave the workers and their reports alone.
LEMMA OthersKept ==
  ASSUME TypeOK, Registers, Reports, [Next]_vars,
         ~ \E w \in Workers : Work(w) \/ EraseFails(w) \/ CrashWorker(w)
  PROVE  Registers' /\ Reports'
<1> USE DEF Registers, Reports, WorkerShape, worker
<1>1. ASSUME NEW h \in Holds, CreateHold(h) \/ ReleaseHold(h) \/ ExpireHold(h)
      PROVE  Registers' /\ Reports'
  BY <1>1 DEF CreateHold, ReleaseHold, ExpireHold
<1>2. ASSUME NEW d \in Dels, RequestDeletion(d) PROVE Registers' /\ Reports'
  BY <1>2 DEF RequestDeletion, Statuses
<1>3. ASSUME NEW p \in Writers, NEW v \in Travelers, CheckMemoryDelete(p, v)
      PROVE  Registers' /\ Reports'
  BY <1>3 DEF CheckMemoryDelete
<1>4. ASSUME NEW p \in Writers, DeleteMemory(p) PROVE Registers' /\ Reports'
  BY <1>4 DEF DeleteMemory
<1>5. CASE UNCHANGED <<hold, del, worker, purge, standing, target, faults>>
  BY <1>5
<1>6. ASSUME NEW p \in Writers, NEW r \in Rows, ReadBase(p, r) \/ WriteDerived(p, r)
      PROVE  Registers' /\ Reports'
  BY <1>5, <1>6 DEF ReadBase, WriteDerived
<1>7. ASSUME NEW r \in Rows, Create(r) \/ Age(r) PROVE Registers' /\ Reports'
  BY <1>5, <1>7 DEF Create, Age
<1>8. CASE UNCHANGED vars
  BY <1>5, <1>8 DEF vars
<1>9. CASE Retain
  <2>1. UNCHANGED <<hold, del, worker, target>>
    BY <1>9 DEF Retain, ReadTrips, ReadHolds, ReadRows, PurgeExpired, PurgeFails
  <2> QED
    BY <1>9, <2>1, PurgeTyped
<1> QED
  BY <1>1, <1>2, <1>3, <1>4, <1>6, <1>7, <1>8, <1>9 DEF Next

-----------------------------------------------------------------------------
(***************************************************************************)
(* Holds, what a worker finds of them, and what the retention job chooses. *)
(***************************************************************************)
LEMMA HoldsKept ==
  ASSUME TypeOK, HoldShape, [Next]_vars
  PROVE  HoldShape'
<1> USE DEF TypeOK, HoldShape
<1>1. CASE UNCHANGED <<hold, lapsed, standing>>
  BY <1>1
<1>2. ASSUME NEW h \in Holds, CreateHold(h) PROVE HoldShape'
  BY <1>2 DEF CreateHold, worker, Jobs
<1>3. ASSUME NEW h \in Holds, ReleaseHold(h) \/ ExpireHold(h) PROVE HoldShape'
  <2>1. \E s \in {"expired", "released"} : hold' = [hold EXCEPT ![h] = s]
    BY <1>3 DEF ReleaseHold, ExpireHold
  <2>2. standing' = [j \in Jobs |-> standing[j] \ {h}] /\ lapsed' = lapsed
    BY <1>3 DEF ReleaseHold, ExpireHold, worker
  <2> QED
    BY <2>1, <2>2
<1>4. \A h \in Active : h \in Holds /\ hold[h] = "active"
  BY DEF Active, ActiveAt, Expired
<1>5. ASSUME NEW w \in Workers, Work(w) \/ EraseFails(w) \/ CrashWorker(w) PROVE HoldShape'
  <2>1. CASE ListRequests(w)
    BY <2>1 DEF ListRequests, Expired
  <2>2. CASE EndRun(w)
    BY <2>2 DEF EndRun
  <2>3. CASE CheckHolds(w) \/ Erase(w) \/ EraseFails(w)
    BY <1>1, <2>3 DEF CheckHolds, Erase, EraseFails
  <2>4. CASE SaveStatus(w)
    BY <2>4 DEF SaveStatus, Jobs
  <2>5. ASSUME NEW d \in Dels, TakeRequest(w, d) PROVE HoldShape'
    BY <1>4, <2>5 DEF TakeRequest, Jobs
  <2>6. CASE CrashWorker(w)
    BY <2>6 DEF CrashWorker, Jobs
  <2> QED
    BY <1>5, <2>1, <2>2, <2>3, <2>4, <2>5, <2>6 DEF Work
<1>6. CASE Retain
  <2>1. UNCHANGED <<hold, lapsed>>
    BY <1>6 DEF Retain, ReadTrips, ReadHolds, ReadRows, PurgeExpired, PurgeFails, worker
  <2>2. \/ standing' = standing \/ standing' = [standing EXCEPT ![Sweep] = Active]
        \/ standing' = [standing EXCEPT ![Sweep] = {}]
    BY <1>6 DEF Retain, ReadTrips, ReadHolds, ReadRows, PurgeExpired, PurgeFails, EndPurge
  <2> QED
    BY <1>4, <2>1, <2>2 DEF Jobs
<1>7. ASSUME NEW d \in Dels, RequestDeletion(d) PROVE HoldShape'
  BY <1>1, <1>7 DEF RequestDeletion, worker
<1>8. ASSUME NEW p \in Writers, NEW v \in Travelers, CheckMemoryDelete(p, v) PROVE HoldShape'
  BY <1>1, <1>8 DEF CheckMemoryDelete, worker
<1>9. ASSUME NEW p \in Writers, DeleteMemory(p) PROVE HoldShape'
  BY <1>1, <1>9 DEF DeleteMemory, worker
<1>10. ASSUME NEW p \in Writers, NEW r \in Rows, ReadBase(p, r) \/ WriteDerived(p, r)
       PROVE  HoldShape'
  BY <1>1, <1>10 DEF ReadBase, WriteDerived, worker
<1>11. ASSUME NEW r \in Rows, Create(r) \/ Age(r) PROVE HoldShape'
  BY <1>1, <1>11 DEF Create, Age, worker
<1>12. CASE UNCHANGED vars
  BY <1>1, <1>12 DEF vars
<1> QED
  BY <1>2, <1>3, <1>5, <1>6, <1>7, <1>8, <1>9, <1>10, <1>11, <1>12 DEF Next

\* A worker goes on to the erasure only from its check, where it has seen every
\* hold on the tenant or the traveler that is in force and was when it took up
\* the request.
LEMMA CheckedKept ==
  ASSUME TypeOK, HoldShape, CheckedShape, [Next]_vars
  PROVE  CheckedShape'
<1> USE DEF TypeOK, CheckedShape, Reaches
<1>1. ASSUME pc' = pc, cur' = cur, \A w \in Workers : standing'[w] \subseteq standing[w]
      PROVE  CheckedShape'
  BY <1>1
<1>2. CASE UNCHANGED <<pc, cur, standing>>
  BY <1>1, <1>2
<1>3. ASSUME NEW h \in Holds, CreateHold(h) \/ ReleaseHold(h) \/ ExpireHold(h)
      PROVE  CheckedShape'
  BY <1>1, <1>3 DEF CreateHold, ReleaseHold, ExpireHold, worker, Jobs
<1>4. ASSUME NEW w \in Workers, Work(w) \/ EraseFails(w) \/ CrashWorker(w)
      PROVE  CheckedShape'
  <2> USE DEF GoTo
  <2>1. CASE CheckHolds(w)
    <3>1. ASSUME pc'[w] = "erase", NEW h \in standing[w] PROVE ~Reaches(h, w)
      <4>1. HoldsFor(Subject[cur[w]], lapsed[w]) = {}
        BY <2>1, <3>1 DEF CheckHolds
      <4>2. h \in ActiveAt(lapsed[w])
        BY DEF HoldShape, ActiveAt, Jobs
      <4> QED
        BY <4>1, <4>2 DEF HoldsFor
    <3> QED
      BY <2>1, <3>1 DEF CheckHolds
  <2>2. CASE ListRequests(w) \/ EndRun(w) \/ Erase(w) \/ EraseFails(w)
    BY <2>2 DEF ListRequests, EndRun, Erase, EraseFails
  <2>3. CASE SaveStatus(w)
    BY <2>3 DEF SaveStatus, Jobs
  <2>4. ASSUME NEW d \in Dels, TakeRequest(w, d) PROVE CheckedShape'
    BY <2>4 DEF TakeRequest, Jobs
  <2>5. CASE CrashWorker(w)
    BY <2>5 DEF CrashWorker, Jobs
  <2> QED
    BY <1>4, <2>1, <2>2, <2>3, <2>4, <2>5 DEF Work
<1>5. CASE Retain
  <2>1. UNCHANGED <<pc, cur>>
    BY <1>5 DEF Retain, ReadTrips, ReadHolds, ReadRows, PurgeExpired, PurgeFails, worker
  <2>2. \A w \in Workers : standing'[w] = standing[w]
    BY <1>5, NamesDistinct
       DEF Retain, ReadTrips, ReadHolds, ReadRows, PurgeExpired, PurgeFails, EndPurge, Jobs
  <2> QED
    BY <1>1, <2>1, <2>2
<1>6. ASSUME NEW d \in Dels, RequestDeletion(d) PROVE CheckedShape'
  BY <1>2, <1>6 DEF RequestDeletion, worker
<1>7. ASSUME NEW p \in Writers, NEW v \in Travelers, CheckMemoryDelete(p, v) PROVE CheckedShape'
  BY <1>2, <1>7 DEF CheckMemoryDelete, worker
<1>8. ASSUME NEW p \in Writers, DeleteMemory(p) PROVE CheckedShape'
  BY <1>2, <1>8 DEF DeleteMemory, worker
<1>9. ASSUME NEW p \in Writers, NEW r \in Rows, ReadBase(p, r) \/ WriteDerived(p, r)
      PROVE  CheckedShape'
  BY <1>2, <1>9 DEF ReadBase, WriteDerived, worker
<1>10. ASSUME NEW r \in Rows, Create(r) \/ Age(r) PROVE CheckedShape'
  BY <1>2, <1>10 DEF Create, Age, worker
<1>11. CASE UNCHANGED vars
  BY <1>2, <1>11 DEF vars
<1> QED
  BY <1>3, <1>4, <1>5, <1>6, <1>7, <1>8, <1>9, <1>10, <1>11 DEF Next

\* What the retention job chooses is under none of the holds it has read.
LEMMA ChoiceSparesHeld ==
  ASSUME TypeOK, PurgeShape, ReadRows
  PROVE  PurgeShape'
<1> DEFINE expired == {t \in Trips : <<"trip", t>> \in purge.doomed /\ ~HeldTrip(t, purge.held)}
           memory == {v \in Travelers : ~HeldTraveler(v, purge.held)}
<1>1. /\ purge'.step = "rows" /\ standing' = standing /\ standing[Sweep] \subseteq purge.held
      /\ purge'.doomed = ({"trip", "case"} \X expired)
                          \cup (aged \cap ({"profile", "proposal"} \X memory))
                          \cup (aged \cap ({"note"} \X Travelers))
  BY DEF ReadRows, PurgeShape
<1>2. SUFFICES ASSUME NEW r \in purge'.doomed, NEW h \in standing[Sweep], r[1] # "note"
               PROVE  ~Covers(h, r)
  BY <1>1 DEF PurgeShape, Covers
<1>3. \/ r \in {"trip", "case"} \X expired
      \/ r \in {"profile", "proposal"} \X memory
      \/ r \in {"note"} \X Travelers
  BY <1>1
<1>4. CASE r \in {"trip", "case"} \X expired
  <2>1. r[2] \in Trips /\ ~HeldTrip(r[2], purge.held)
    BY <1>4
  <2>2. Scope[h] \notin {"tenant", TravelerOf[r[2]], r[2]}
    BY <1>1, <2>1 DEF HeldTrip
  <2> QED
    BY <2>1, <2>2 DEF Covers
<1>5. CASE r \in {"profile", "proposal"} \X memory
  <2>1. r[2] \in Travelers /\ ~HeldTraveler(r[2], purge.held)
    BY <1>5
  <2>2. Scope[h] \notin {"tenant", r[2]} /\ r[2] \notin Trips
    BY <1>1, <2>1, NamesDistinct DEF HeldTraveler
  <2> QED
    BY <2>1, <2>2 DEF Covers
<1>6. r \notin {"note"} \X Travelers
  BY <1>2
<1> QED
  BY <1>3, <1>4, <1>5, <1>6

LEMMA PurgeKept ==
  ASSUME TypeOK, HoldShape, PurgeShape, [Next]_vars
  PROVE  PurgeShape'
<1> USE DEF TypeOK, PurgeShape
<1>1. ASSUME purge' = purge, standing'[Sweep] \subseteq standing[Sweep] PROVE PurgeShape'
  BY <1>1 DEF Covers
<1>2. CASE UNCHANGED <<purge, standing>>
  BY <1>1, <1>2
<1>3. ASSUME NEW h \in Holds, CreateHold(h) \/ ReleaseHold(h) \/ ExpireHold(h)
      PROVE  PurgeShape'
  BY <1>1, <1>3 DEF CreateHold, ReleaseHold, ExpireHold, Jobs
<1>4. ASSUME NEW w \in Workers, Work(w) \/ EraseFails(w) \/ CrashWorker(w)
      PROVE  PurgeShape'
  <2>1. purge' = purge
    BY <1>4 DEF Work, ListRequests, EndRun, CheckHolds, Erase, SaveStatus, TakeRequest,
       EraseFails, CrashWorker, elsewhere
  <2>2. standing' = standing \/ \E H : standing' = [standing EXCEPT ![w] = H]
    BY <1>4 DEF Work, ListRequests, EndRun, CheckHolds, Erase, SaveStatus, TakeRequest,
       EraseFails, CrashWorker
  <2>3. standing'[Sweep] = standing[Sweep]
    BY <2>2, NamesDistinct DEF Jobs
  <2> QED
    BY <1>1, <2>1, <2>3
<1>5. CASE Retain
  <2>1. CASE ReadTrips
    BY <2>1 DEF ReadTrips
  <2>2. CASE ReadHolds
    <3>1. \A h \in standing[Sweep] : h \in Active
      BY DEF HoldShape, Active, ActiveAt, Expired, Jobs
    <3> QED
      BY <2>2, <3>1 DEF ReadHolds
  <2>3. CASE ReadRows
    BY <2>3, ChoiceSparesHeld
  <2>4. CASE PurgeExpired \/ PurgeFails
    BY <2>4 DEF PurgeExpired, PurgeFails, EndPurge
  <2> QED
    BY <1>5, <2>1, <2>2, <2>3, <2>4 DEF Retain
<1>6. ASSUME NEW d \in Dels, RequestDeletion(d) PROVE PurgeShape'
  BY <1>2, <1>6 DEF RequestDeletion
<1>7. ASSUME NEW p \in Writers, NEW v \in Travelers, CheckMemoryDelete(p, v) PROVE PurgeShape'
  BY <1>2, <1>7 DEF CheckMemoryDelete
<1>8. ASSUME NEW p \in Writers, DeleteMemory(p) PROVE PurgeShape'
  BY <1>2, <1>8 DEF DeleteMemory
<1>9. ASSUME NEW p \in Writers, NEW r \in Rows, ReadBase(p, r) \/ WriteDerived(p, r)
      PROVE  PurgeShape'
  BY <1>2, <1>9 DEF ReadBase, WriteDerived
<1>10. ASSUME NEW r \in Rows, Create(r) \/ Age(r) PROVE PurgeShape'
  BY <1>2, <1>10 DEF Create, Age
<1>11. CASE UNCHANGED vars
  BY <1>2, <1>11 DEF vars
<1> QED
  BY <1>3, <1>4, <1>5, <1>6, <1>7, <1>8, <1>9, <1>10, <1>11 DEF Next

\* Whatever runs of the deletion worker, writing handlers, retention, holds,
\* failures and crashes do: what is reported as completed was erased, and no
\* erasure or purge has chosen what a standing hold covers.
THEOREM PrivacyInvariance == Spec => []PrivacyInv
<1>1. Init => PrivacyInv
  <2> SUFFICES ASSUME Init PROVE PrivacyInv
    OBVIOUS
  <2>1. PICK cast \in Casts :
          /\ hold = [h \in Holds |-> IF h \in cast THEN "none" ELSE "released"]
          /\ del = [d \in Dels |-> IF d \in cast THEN "none" ELSE "failed"]
          /\ pc = [w \in Workers |-> IF w \in cast THEN "idle" ELSE "away"]
          /\ target = [p \in Writers |-> IF p \in cast THEN None ELSE "away"]
          /\ purge = [step |-> IF Sweep \in cast THEN "idle" ELSE "away",
                      doomed |-> {}, held |-> {}]
    BY DEF Init
  <2>2. TypeOK
    BY <2>1, PrivacyTyped DEF Init, TypeOK, Statuses
  <2> QED
    BY <2>1, <2>2 DEF Init, PrivacyInv, WorkerShape, AtRequest, CompletedMeansErased,
       HoldShape, CheckedShape, PurgeShape
<1>2. PrivacyInv /\ [Next]_vars => PrivacyInv'
  <2> SUFFICES ASSUME PrivacyInv, [Next]_vars PROVE PrivacyInv'
    OBVIOUS
  <2>1. TypeOK /\ Registers /\ Reports
    BY DEF PrivacyInv, CompletedMeansErased, TypeOK, Registers, Reports
  <2>2. Tables' /\ pending' \in [Writers -> SUBSET Rows]
    BY <2>1, TablesKept
  <2>3. Registers' /\ Reports'
    BY <2>1, WorkerKept, OthersKept
  <2>4. HoldShape' /\ CheckedShape' /\ PurgeShape'
    BY <2>1, HoldsKept, CheckedKept, PurgeKept DEF PrivacyInv
  <2> QED
    BY <2>2, <2>3, <2>4 DEF PrivacyInv, CompletedMeansErased, TypeOK, Tables, Registers, Reports
<1> QED
  BY <1>1, <1>2, PTL DEF Spec

\* A deletion request is reported completed only when its erasure committed.
THEOREM CompletionsAreErasures == Spec => []CompletedMeansErased
<1>1. PrivacyInv => CompletedMeansErased
  BY DEF PrivacyInv
<1> QED
  BY <1>1, PrivacyInvariance, PTL

-----------------------------------------------------------------------------
\* Only the purge itself removes rows in a step of the retention job, and it
\* removes what it has chosen.
LEMMA PurgeRemoves ==
  ASSUME [Next]_vars, purge' # purge, NEW r \in rows \ rows'
  PROVE  purge.step = "rows" /\ r \in purge.doomed
<1>1. Retain
  BY DEF Next, CreateHold, ReleaseHold, ExpireHold, RequestDeletion, Work, ListRequests,
     EndRun, CheckHolds, Erase, SaveStatus, TakeRequest, EraseFails, CrashWorker,
     CheckMemoryDelete, DeleteMemory, ReadBase, WriteDerived, Create, Age, vars, elsewhere
<1> QED
  BY <1>1 DEF Retain, ReadTrips, ReadHolds, ReadRows, PurgeExpired, PurgeFails, Remove

\* The retention job leaves in place what a hold covers that was in force from
\* its first read to its commit: trips, cases, profiles and proposals.
THEOREM RetentionSparesHeld == Spec => RetentionKeepsHeld
<1> DEFINE Kinds == {"trip", "case", "profile", "proposal"}
<1>1. PrivacyInv /\ [Next]_vars => [purge' # purge => Spares(Kinds)]_vars
  <2> SUFFICES ASSUME PrivacyInv, [Next]_vars, purge' # purge,
                      NEW r \in Lost(Kinds), NEW h \in standing[Sweep]
               PROVE  ~Covers(h, r)
    BY DEF Spares
  <2>1. r \in rows \ rows' /\ r[1] \in Kinds
    BY DEF Lost
  <2> QED
    BY <2>1, PurgeRemoves DEF PrivacyInv, PurgeShape
<1> QED
  BY <1>1, PrivacyInvariance, PTL DEF Spec, RetentionKeepsHeld

\* A deletion run erases nothing of a traveler under a hold, of the traveler or
\* the tenant, that has been in force ever since it took up the request.
THEOREM ErasuresHeedHolds == Spec => ErasureHeedsHolds
<1> DEFINE Heeded == \A w \in Workers : pc[w] = "erase" /\ pc'[w] = "complete" =>
                       \A h \in standing[w] : Scope[h] \notin {"tenant", Subject[cur[w]]}
<1>1. PrivacyInv => [Heeded]_vars
  BY DEF PrivacyInv, CheckedShape, Reaches
<1> QED
  BY <1>1, PrivacyInvariance, PTL DEF ErasureHeedsHolds
=============================================================================
