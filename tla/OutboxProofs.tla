---------------------------- MODULE OutboxProofs ----------------------------
(***************************************************************************)
(* Proofs about Outbox for any number of records, workers, claim ids and   *)
(* acknowledgements, any attempt limit, lease, backoff cap and scan limit. *)
(***************************************************************************)
EXTENDS Outbox, FiniteSetTheorems, TLAPS

-----------------------------------------------------------------------------
(***************************************************************************)
(* The inductive invariant.  The properties speak of rows; what protects   *)
(* them is how the workers' private copies relate to the rows.             *)
(***************************************************************************)

\* Only a due row is leased, and an unclaimed row has no lease time left.
RowShape ==
  \A r \in Records :
    /\ rec[r].status \notin Due => rec[r].claim = NoClaim
    /\ rec[r].claim = NoClaim => rec[r].lease = 0

\* A copy is of a due row and carries a claim id; a dropped copy is blank.
CopyShape ==
  \A w \in Workers, r \in Records :
    IF r \in Batch(w)
    THEN copy[w][r].status \in Due /\ copy[w][r].claim \in ClaimIds
    ELSE copy[w][r] = NoRec

\* A worker whose claim id is still in the row has a current copy of it.
HeldCopyCurrent ==
  \A w \in Workers, r \in Records :
    r \in Batch(w) /\ rec[r].claim = copy[w][r].claim => rec[r] = copy[w][r]

\* No two workers remember the same claim id for a record.
ClaimsDiffer ==
  \A v, w \in Workers, r \in Records :
    v # w /\ r \in Batch(v) /\ r \in Batch(w)
      => copy[v][r].claim # copy[w][r].claim

\* A live lease is the one in the row, as long as the row is not erased.
LiveCopyHeld ==
  \A w \in Workers, r \in Records :
    copy[w][r].lease > 0 /\ r \notin erased => rec[r].claim = copy[w][r].claim

\* At most one worker has a live lease on a record, an erased one included.
OneLiveCopy ==
  \A v, w \in Workers, r \in Records :
    v # w => ~(copy[v][r].lease > 0 /\ copy[w][r].lease > 0)

\* A worker past its control check works on an item of its batch, and a send
\* of it that took effect is on record.
WorkerShape ==
  \A w \in Workers :
    /\ phase[w] \in {"checked", "sending"} =>
         item[w] \in Records /\ item[w] \in Batch(w)
    /\ phase[w] = "sending" /\ hit[w] => item[w] \in sent

\* What an acknowledgement has read stays true of the row until it is erased.
AckCurrent ==
  \A a \in Ackers : LET r == ack[a].record IN
    r \in Records =>
      /\ ack[a].seen.status = "delivered" /\ ack[a].seen.claim = NoClaim
      /\ ack[a].seen.lease = 0
      /\ r \in sent
      /\ r \notin erased => /\ rec[r].status \in {"delivered", "acknowledged"}
                            /\ rec[r].attempts = ack[a].seen.attempts

IInv ==
  /\ AttemptHistory /\ NoPhantomDelivery /\ ErasedNeverDue
  /\ RowShape /\ CopyShape /\ HeldCopyCurrent /\ ClaimsDiffer /\ LiveCopyHeld
  /\ OneLiveCopy /\ WorkerShape /\ AckCurrent

-----------------------------------------------------------------------------
(***************************************************************************)
(* Facts about the operators of the model.                                 *)
(***************************************************************************)

\* A power of two is a natural number: it counts the subsets of an interval.
LEMMA PowerNatural == \A n \in Nat : 2^n \in Nat
<1> SUFFICES ASSUME NEW n \in Nat PROVE 2^n \in Nat
  OBVIOUS
<1>1. IsFiniteSet(1 .. n) /\ Cardinality(1 .. n) = n
  BY FS_Interval, SMT
<1>2. IsFiniteSet(SUBSET (1 .. n)) /\ Cardinality(SUBSET (1 .. n)) = 2^n
  BY <1>1, FS_SUBSET
<1> QED
  BY <1>2, FS_CardinalityType

\* retry_at computes a delay for every attempt number it is called with.
LEMMA BackoffNatural == \A n \in Nat : Backoff(n + 1) \in Nat
BY PowerNatural, BoundsPositive DEF Backoff, MinOf

\* The claim id of a new lease is one that no worker remembers for the row.
LEMMA LeasedFresh ==
  ASSUME NEW r \in Records, FreshIds(r) # {}
  PROVE  /\ Leased(r).claim \in ClaimIds
         /\ \A w \in Workers : copy[w][r].claim # Leased(r).claim
<1>1. (CHOOSE c \in FreshIds(r) : TRUE) \in FreshIds(r)
  OBVIOUS
<1> QED
  BY <1>1 DEF FreshIds, Leased

\* Leasing a row changes its claim and its lease and nothing else.
LEMMA LeasedTyped ==
  ASSUME TypeOK, NEW r \in Records, FreshIds(r) # {}
  PROVE  /\ Leased(r) \in Rec
         /\ Leased(r).status = rec[r].status
         /\ Leased(r).attempts = rec[r].attempts
         /\ Leased(r).wait = rec[r].wait
         /\ Leased(r).lease = LeaseTtl
BY LeasedFresh, BoundsPositive DEF TypeOK, Rec, Leased

\* What AttemptHistory says of one row x and its attempts l.
History(x, l) ==
  /\ x.attempts = Len(l) /\ Len(l) <= MaxAttempts
  /\ \A i \in 1 .. Len(l) : /\ l[i].number = i
                            /\ i < Len(l) => l[i].outcome = "retry_scheduled"
  /\ x.status \in {"absent", "queued"} <=> Len(l) = 0
  /\ Len(l) > 0 => l[Len(l)].outcome = IF x.status = "acknowledged"
                                       THEN "delivered" ELSE x.status
  /\ Len(l) = MaxAttempts => x.status \in Final

\* AttemptHistory, row by row.
LEMMA HistoryByRow ==
  AttemptHistory <=> TypeOK /\ \A r \in Records \ erased : History(rec[r], log[r])
BY DEF AttemptHistory, History

\* The same in the next state.
LEMMA HistoryByRowNext ==
  AttemptHistory' <=>
    TypeOK' /\ \A r \in Records \ erased' : History(rec'[r], log'[r])
BY DEF AttemptHistory, History

\* Time passing keeps a record well formed and blank records blank.
LEMMA AgedTyped ==
  ASSUME NEW x \in Rec
  PROVE  /\ Aged(x) \in Rec
         /\ Aged(x).status = x.status /\ Aged(x).attempts = x.attempts
         /\ Aged(x).claim = x.claim
         /\ Aged(x).lease > 0 => x.lease > 0
         /\ x.lease = 0 => Aged(x).lease = 0
         /\ x = NoRec => Aged(x) = NoRec
BY DEF Aged, Less, Rec, NoRec

\* A blank record is well formed.
LEMMA NoRecTyped == NoRec \in Rec
BY DEF NoRec, Rec, Statuses

-----------------------------------------------------------------------------
\* Every variable keeps its type: rows, attempt tables, copies and the
\* workers' progress stay well formed, given that a busy worker has an item.
LEMMA TypeStep ==
  /\ Init => TypeOK
  /\ TypeOK /\ WorkerShape /\ [Next]_vars => TypeOK'
<1>1. Init => TypeOK
  <2> SUFFICES ASSUME Init PROVE TypeOK
    OBVIOUS
  <2>1. PICK cast \in Casts :
          /\ phase = [w \in Workers |-> IF w \in cast THEN "idle" ELSE "away"]
          /\ erased = Records \ cast
    BY DEF Init
  <2> QED
    BY <2>1, NoRecTyped DEF Init, TypeOK, NoAck
<1>2. TypeOK /\ WorkerShape /\ [Next]_vars => TypeOK'
  <2> SUFFICES ASSUME TypeOK, WorkerShape, [Next]_vars PROVE TypeOK'
    OBVIOUS
  <2>1. ASSUME NEW r \in Records, Enqueue(r) PROVE TypeOK'
    BY <2>1, NoRecTyped DEF Enqueue, TypeOK, Rec, NoRec, Statuses, Due
  <2>2. ASSUME NEW w \in Workers, NEW S \in SUBSET Records, Claim(w, S),
               gated' \in [Workers -> BOOLEAN]
        PROVE  TypeOK'
    <3> DEFINE claimed == {r \in S : Claimable(r)}
    <3>1. \A r \in claimed : Leased(r) \in Rec
      BY <2>2, LeasedTyped DEF Claim
    <3>2. rec' \in [Records -> Rec] /\ copy' \in [Workers -> [Records -> Rec]]
      BY <2>2, <3>1, NoRecTyped DEF Claim, TypeOK
    <3> QED
      BY <2>2, <3>2 DEF Claim, TypeOK
  <2>3. ASSUME NEW w \in Workers, NEW r \in Records, Select(w, r) PROVE TypeOK'
    BY <2>3 DEF Select, TypeOK
  <2>4. ASSUME NEW w \in Workers, NEW r \in Records, Skip(w, r) PROVE TypeOK'
    BY <2>4, NoRecTyped DEF Skip, Drop, TypeOK
  <2>5. ASSUME NEW w \in Workers, Lapse(w) PROVE TypeOK'
    BY <2>5, NoRecTyped DEF Lapse, Drop, TypeOK
  <2>6. ASSUME NEW w \in Workers, NEW b \in BOOLEAN, StartSend(w, b)
        PROVE  TypeOK'
    <3>1. item[w] \in Records
      BY <2>6 DEF StartSend, WorkerShape
    <3>2. copy[w][item[w]].attempts \in Nat
      BY <3>1 DEF TypeOK, Rec
    <3>3. Backoff(copy[w][item[w]].attempts + 1) \in Nat
      BY <3>2, BackoffNatural
    <3> QED
      BY <2>6, <3>1, <3>3 DEF StartSend, TypeOK
  <2>7. ASSUME NEW w \in Workers, NEW b \in BOOLEAN, Complete(w, b)
        PROVE  TypeOK'
    <3> DEFINE r == item[w]
               n == copy[w][r].attempts + 1
               outcome == OutcomeOf(n, b)
    <3>1. r \in Records
      BY <2>7 DEF Complete, WorkerShape
    <3>2. copy[w][r] \in Rec /\ n \in Nat /\ outcome \in Outcomes
      BY <3>1 DEF TypeOK, Rec, OutcomeOf, Outcomes
    <3>3. rec' \in [Records -> Rec] /\ log' \in [Records -> Seq(Attempt)]
      <4>1. CASE Holds(w)
        <5> DEFINE row == [status |-> outcome, attempts |-> n,
                           wait |-> IF outcome = "retry_scheduled"
                                    THEN retry[w] ELSE copy[w][r].wait,
                           claim |-> NoClaim, lease |-> 0]
                   entry == [number |-> n, outcome |-> outcome]
        <5>1. outcome \in Statuses /\ retry[w] \in Nat
          BY <3>2 DEF TypeOK, Outcomes, Statuses, Due, Final
        <5>2. row \in Rec /\ entry \in Attempt
          BY <3>2, <5>1 DEF Rec, Attempt
        <5>3. /\ rec' = [rec EXCEPT ![r] = row]
              /\ log' = [log EXCEPT ![r] = Append(@, entry)]
          BY <2>7, <4>1 DEF Complete
        <5> HIDE DEF row, entry
        <5>4. log[r] \in Seq(Attempt)
          BY <3>1 DEF TypeOK
        <5>5. Append(log[r], entry) \in Seq(Attempt)
          BY <5>2, <5>4
        <5> QED
          BY <3>1, <5>2, <5>3, <5>5 DEF TypeOK
      <4>2. CASE ~Holds(w)
        BY <2>7, <4>2 DEF Complete, TypeOK
      <4> QED
        BY <4>1, <4>2
    <3> QED
      BY <2>7, <3>1, <3>3, NoRecTyped DEF Complete, Drop, TypeOK
  <2>8. ASSUME NEW w \in Workers, Crash(w) PROVE TypeOK'
    BY <2>8, NoRecTyped DEF Crash, TypeOK
  <2>9. ASSUME NEW a \in Ackers, NEW r \in Records, AckRead(a, r) PROVE TypeOK'
    BY <2>9 DEF AckRead, TypeOK
  <2>10. ASSUME NEW a \in Ackers, AckSave(a) PROVE TypeOK'
    <3>1. ack[a].seen \in Rec
      BY DEF TypeOK
    <3>2. [ack[a].seen EXCEPT !.status = "acknowledged"] \in Rec
      BY <3>1 DEF Rec, Statuses, Final
    <3> QED
      BY <2>10, <3>2, NoRecTyped DEF AckSave, NoAck, TypeOK
  <2>11. ASSUME NEW r \in Records, Erase(r) PROVE TypeOK'
    BY <2>11, NoRecTyped DEF Erase, TypeOK
  <2>12. ASSUME NEW t \in Tenants, SetControl(t) PROVE TypeOK'
    BY <2>12 DEF SetControl, TypeOK
  <2>13. CASE Tick
    BY <2>13, AgedTyped DEF Tick, TypeOK, Less
  <2>14. CASE UNCHANGED vars
    BY <2>14 DEF vars, TypeOK
  <2> QED
    BY <2>1, <2>2, <2>3, <2>4, <2>5, <2>6, <2>7, <2>8, <2>9, <2>10, <2>11,
       <2>12, <2>13, <2>14 DEF Next, Work, ClaimDue, ClaimDueForTenant, Scan,
       Pending, TypeOK
<1> QED
  BY <1>1, <1>2

-----------------------------------------------------------------------------
(***************************************************************************)
(* Two frames.  Most steps only forget copies, and most leave the tables   *)
(* alone.                                                                  *)
(***************************************************************************)

\* Forgetting copies (Skip, Lapse, Crash, the end of Complete) disturbs nothing
\* that is said about copies alone; with the rows unchanged, nor what relates
\* copies to rows.
LEMMA ForgettingCopies ==
  ASSUME IInv,
         \A w \in Workers, r \in Records : copy'[w][r] \in {copy[w][r], NoRec}
  PROVE  /\ CopyShape' /\ ClaimsDiffer' /\ OneLiveCopy'
         /\ UNCHANGED <<rec, erased>> => HeldCopyCurrent' /\ LiveCopyHeld'
<1>1. CopyShape'
  BY DEF IInv, CopyShape, Batch, NoRec
<1>2. ClaimsDiffer'
  BY DEF IInv, ClaimsDiffer, Batch, NoRec
<1>3. OneLiveCopy'
  BY DEF IInv, OneLiveCopy, NoRec
<1>4. UNCHANGED <<rec, erased>> => HeldCopyCurrent'
  BY DEF IInv, HeldCopyCurrent, Batch, NoRec
<1>5. UNCHANGED <<rec, erased>> => LiveCopyHeld'
  BY DEF IInv, LiveCopyHeld, NoRec
<1> QED
  BY <1>1, <1>2, <1>3, <1>4, <1>5

\* A step that leaves the tables alone keeps what is said about rows.
LEMMA TablesUntouched ==
  ASSUME IInv, TypeOK', UNCHANGED <<rec, log, erased>>, sent \subseteq sent'
  PROVE  AttemptHistory' /\ NoPhantomDelivery' /\ ErasedNeverDue' /\ RowShape'
<1>1. AttemptHistory'
  BY DEF IInv, AttemptHistory
<1> QED
  BY <1>1 DEF IInv, NoPhantomDelivery, ErasedNeverDue, RowShape

\* ... and, when no acknowledgement moves, what they have read.
LEMMA AcksUntouched ==
  ASSUME IInv, UNCHANGED <<rec, erased, ack>>, sent \subseteq sent'
  PROVE  AckCurrent'
BY DEF IInv, AckCurrent

-----------------------------------------------------------------------------
(***************************************************************************)
(* The steps that change the tables.                                       *)
(***************************************************************************)

\* Queueing a fresh record (queue_notification, decide_incident).  No worker
\* can have a live copy of a record that has no row yet.
LEMMA EnqueueStep ==
  ASSUME IInv, TypeOK', NEW q \in Records, Enqueue(q)
  PROVE  IInv'
<1> USE DEF IInv
<1>1. /\ rec[q].status = "absent" /\ q \notin erased
      /\ rec' = [rec EXCEPT ![q] = [NoRec EXCEPT !.status = "queued"]]
      /\ UNCHANGED <<log, copy, phase, item, hit, ack, sent, erased>>
  BY DEF Enqueue
<1>2. rec'[q] = [NoRec EXCEPT !.status = "queued"]
      /\ \A r \in Records \ {q} : rec'[r] = rec[r]
  BY <1>1 DEF AttemptHistory, TypeOK
<1>3. AttemptHistory'
  <2>1. Len(log[q]) = 0
    BY <1>1, HistoryByRow DEF History
  <2>2. History(rec'[q], log'[q])
    BY <1>1, <1>2, <2>1, BoundsPositive DEF History, NoRec
  <2> QED
    BY <1>1, <1>2, <2>2, HistoryByRow, HistoryByRowNext
<1>4. NoPhantomDelivery' /\ ErasedNeverDue' /\ RowShape'
  BY <1>1, <1>2 DEF NoPhantomDelivery, ErasedNeverDue, RowShape, NoRec, Due
<1>5. CopyShape' /\ ClaimsDiffer' /\ OneLiveCopy'
  BY <1>1, ForgettingCopies
<1>6. HeldCopyCurrent'
  BY <1>1, <1>2, SentinelsFresh DEF HeldCopyCurrent, CopyShape, Batch, NoRec
<1>7. LiveCopyHeld'
  <2>1. rec[q].claim = NoClaim
    BY <1>1 DEF RowShape, Due
  <2>2. \A w \in Workers : ~(copy[w][q].lease > 0)
    BY <1>1, <2>1, SentinelsFresh DEF LiveCopyHeld, CopyShape, NoRec
  <2> QED
    BY <1>1, <1>2, <2>2 DEF LiveCopyHeld
<1>8. WorkerShape'
  BY <1>1 DEF WorkerShape, Batch
<1>9. AckCurrent'
  BY <1>1, <1>2 DEF AckCurrent
<1> QED
  BY <1>3, <1>4, <1>5, <1>6, <1>7, <1>8, <1>9

\* Leasing a batch (claim_due_notifications, claim_due_actions).  A row whose
\* lease ran out is taken over under a claim id nobody remembers, and no other
\* copy of it is live.
LEMMA ClaimStep ==
  ASSUME IInv, TypeOK', NEW w \in Workers, NEW S \in SUBSET Records,
         \A r \in S : rec[r].status \in Due, Claim(w, S)
  PROVE  IInv'
<1> USE DEF IInv
<1> DEFINE claimed == {r \in S : Claimable(r)}
<1>1. /\ Batch(w) = {} /\ phase[w] = "idle"
      /\ \A r \in Records : rec'[r] = IF r \in claimed THEN Leased(r) ELSE rec[r]
      /\ \A r \in Records :
           /\ copy'[w][r] = IF r \in claimed THEN Leased(r) ELSE NoRec
           /\ \A v \in Workers \ {w} : copy'[v][r] = copy[v][r]
      /\ UNCHANGED <<log, phase, item, hit, ack, sent, erased>>
  BY DEF Claim, AttemptHistory, TypeOK
<1>2. TypeOK
  BY DEF AttemptHistory
<1>3. \A r \in claimed :
        /\ r \in Records \ erased /\ rec[r].status \in Due /\ rec[r].lease = 0
        /\ Leased(r).status = rec[r].status /\ Leased(r).attempts = rec[r].attempts
        /\ Leased(r).claim \in ClaimIds /\ Leased(r).lease = LeaseTtl
        /\ \A v \in Workers : copy[v][r].claim # Leased(r).claim
  <2> SUFFICES ASSUME NEW r \in claimed
               PROVE  /\ r \in Records \ erased
                      /\ rec[r].status \in Due /\ rec[r].lease = 0
                      /\ Leased(r).status = rec[r].status
                      /\ Leased(r).attempts = rec[r].attempts
                      /\ Leased(r).claim \in ClaimIds /\ Leased(r).lease = LeaseTtl
                      /\ \A v \in Workers : copy[v][r].claim # Leased(r).claim
    OBVIOUS
  <2>1. r \in Records /\ rec[r].status \in Due /\ rec[r].lease = 0
    BY DEF Claimable
  <2>2. r \notin erased
    BY <2>1 DEF ErasedNeverDue, Due
  <2>3. FreshIds(r) # {}
    BY DEF Claim
  <2> QED
    BY <1>2, <2>1, <2>2, <2>3, LeasedFresh, LeasedTyped
<1>4. \A v \in Workers, r \in claimed : ~(copy[v][r].lease > 0)
  <2> SUFFICES ASSUME NEW v \in Workers, NEW r \in claimed, copy[v][r].lease > 0
               PROVE  FALSE
    OBVIOUS
  <2>1. r \in Batch(v)
    BY <1>3 DEF CopyShape, NoRec
  <2>2. rec[r] = copy[v][r]
    BY <1>3, <2>1 DEF LiveCopyHeld, HeldCopyCurrent
  <2> QED
    BY <1>3, <2>2
<1> HIDE DEF claimed
<1>5. AttemptHistory'
  BY <1>1, <1>3 DEF AttemptHistory
<1>6. NoPhantomDelivery' /\ ErasedNeverDue'
  BY <1>1, <1>2, <1>3 DEF TypeOK, NoPhantomDelivery, ErasedNeverDue, Due
<1>7. RowShape'
  BY <1>1, <1>3, SentinelsFresh DEF RowShape
<1>8. CopyShape'
  BY <1>1, <1>3 DEF CopyShape, Batch, NoRec, Due
<1>9. HeldCopyCurrent'
  BY <1>1, <1>3 DEF HeldCopyCurrent, Batch, NoRec
<1>10. ClaimsDiffer'
  BY <1>1, <1>3 DEF ClaimsDiffer, Batch, NoRec
<1>11. LiveCopyHeld'
  BY <1>1, <1>3, <1>4 DEF LiveCopyHeld, NoRec
<1>12. OneLiveCopy'
  BY <1>1, <1>4 DEF OneLiveCopy, NoRec
<1>13. WorkerShape'
  BY <1>1 DEF WorkerShape, Batch
<1>14. AckCurrent'
  BY <1>1, <1>3 DEF AckCurrent, Due
<1> QED
  BY <1>5, <1>6, <1>7, <1>8, <1>9, <1>10, <1>11, <1>12, <1>13, <1>14

\* What deliver_notification computes from its copy is right for the row it is
\* committed to, because the fence made sure that the copy is current.
LEMMA HeldItem ==
  ASSUME IInv, NEW w \in Workers, phase[w] = "sending", Holds(w)
  PROVE  LET r == item[w]
         IN /\ r \in Records \ erased /\ r \in Batch(w)
            /\ rec[r] = copy[w][r] /\ rec[r].status \in Due
            /\ Len(log[r]) = rec[r].attempts /\ rec[r].attempts < MaxAttempts
            /\ \A v \in Workers \ {w} : ~(copy[v][r].lease > 0)
<1> DEFINE r == item[w]
<1> USE DEF IInv
<1>1. r \in Records /\ r \in Batch(w)
  BY DEF WorkerShape
<1>2. rec[r] = copy[w][r] /\ rec[r].status \in Due /\ rec[r].claim \in ClaimIds
  BY <1>1 DEF Holds, HeldCopyCurrent, CopyShape
<1>3. r \notin erased
  BY <1>2 DEF ErasedNeverDue, Due
<1>4. Len(log[r]) = rec[r].attempts /\ rec[r].attempts < MaxAttempts
  <2>1. History(rec[r], log[r]) /\ log[r] \in Seq(Attempt)
    BY <1>1, <1>3, HistoryByRow DEF TypeOK
  <2>2. Len(log[r]) \in Nat
    BY <2>1
  <2> QED
    BY <1>2, <2>1, <2>2, BoundsPositive DEF History, Due, Final
<1>5. \A v \in Workers \ {w} : ~(copy[v][r].lease > 0)
  <2> SUFFICES ASSUME NEW v \in Workers \ {w}, copy[v][r].lease > 0 PROVE FALSE
    OBVIOUS
  <2>1. rec[r].claim = copy[v][r].claim
    BY <1>1, <1>3 DEF LiveCopyHeld
  <2>2. r \in Batch(v)
    BY <1>1, <1>2, <2>1, SentinelsFresh DEF CopyShape, NoRec
  <2> QED
    BY <1>1, <1>2, <2>1, <2>2 DEF ClaimsDiffer
<1> QED
  BY <1>1, <1>2, <1>3, <1>4, <1>5

\* One more attempt extends a history: the appended row has the next number
\* and every earlier one was a scheduled retry.
LEMMA HistoryGrows ==
  ASSUME NEW l \in Seq(Attempt), NEW x, NEW y, NEW ok \in BOOLEAN,
         History(x, l), x.status \in Due, Len(l) < MaxAttempts,
         y.attempts = Len(l) + 1, y.status = OutcomeOf(Len(l) + 1, ok)
  PROVE  History(y, Append(l, [number |-> Len(l) + 1, outcome |-> y.status]))
<1> DEFINE n == Len(l)
           m == Append(l, [number |-> n + 1, outcome |-> y.status])
<1>1. n \in Nat /\ Len(m) = n + 1
  OBVIOUS
<1>2. m[n + 1] = [number |-> n + 1, outcome |-> y.status]
  OBVIOUS
<1>3. \A i \in 1 .. n : m[i] = l[i]
  OBVIOUS
<1>4. \A i \in 1 .. n : l[i].number = i /\ l[i].outcome = "retry_scheduled"
  <2> SUFFICES ASSUME NEW i \in 1 .. n
               PROVE  l[i].number = i /\ l[i].outcome = "retry_scheduled"
    OBVIOUS
  <2>1. CASE i < n
    BY <2>1 DEF History
  <2>2. CASE i = n
    BY <2>2, <1>1 DEF History, Due
  <2> QED
    BY <1>1, <2>1, <2>2
<1>5. /\ y.status \in {"delivered", "failed", "retry_scheduled"}
      /\ n + 1 = MaxAttempts => y.status \in Final
  BY <1>1, BoundsPositive DEF OutcomeOf, Final
<1> HIDE DEF m
<1>6. \A i \in 1 .. Len(m) : /\ m[i].number = i
                             /\ i < Len(m) => m[i].outcome = "retry_scheduled"
  BY <1>1, <1>2, <1>3, <1>4
<1>7. History(y, m)
  BY <1>1, <1>2, <1>5, <1>6, BoundsPositive DEF History
<1> QED
  BY <1>7 DEF m

\* Committing the outcome of a send (complete_notification, complete_action),
\* or discarding it when the lease was lost.
LEMMA CompleteStep ==
  ASSUME IInv, TypeOK', NEW w \in Workers, NEW ok \in BOOLEAN, Complete(w, ok)
  PROVE  IInv'
<1> DEFINE r == item[w]
           n == copy[w][r].attempts + 1
           outcome == OutcomeOf(n, ok)
<1>1. TypeOK /\ phase[w] = "sending" /\ (ok => hit[w])
  BY DEF IInv, AttemptHistory, Complete
<1>2. r \in Records /\ r \in Batch(w) /\ (hit[w] => r \in sent)
  BY <1>1 DEF IInv, WorkerShape
<1>3. /\ copy'[w][r] = NoRec
      /\ \A v \in Workers, q \in Records :
           <<v, q>> # <<w, r>> => copy'[v][q] = copy[v][q]
  BY <1>1, <1>2 DEF Complete, Drop, TypeOK
<1>4. /\ phase'[w] = "idle"
      /\ \A v \in Workers \ {w} : /\ phase'[v] = phase[v] /\ item'[v] = item[v]
                                  /\ hit'[v] = hit[v]
      /\ UNCHANGED <<ack, sent, erased>>
  BY <1>1 DEF Complete, TypeOK
<1>5. CopyShape' /\ ClaimsDiffer' /\ OneLiveCopy'
      /\ (UNCHANGED <<rec, erased>> => HeldCopyCurrent' /\ LiveCopyHeld')
  BY <1>3, ForgettingCopies
<1>6. WorkerShape'
  <2> SUFFICES ASSUME NEW v \in Workers \ {w}
               PROVE  /\ phase[v] \in {"checked", "sending"} =>
                           item[v] \in Records /\ copy'[v][item[v]].status # "absent"
                      /\ phase[v] = "sending" /\ hit[v] => item[v] \in sent
    BY <1>4 DEF WorkerShape, Batch
  <2> QED
    BY <1>3 DEF IInv, WorkerShape, Batch
<1>7. CASE Holds(w)
  <2>1. /\ r \notin erased /\ rec[r] = copy[w][r] /\ rec[r].status \in Due
        /\ Len(log[r]) = rec[r].attempts /\ rec[r].attempts < MaxAttempts
        /\ \A v \in Workers \ {w} : ~(copy[v][r].lease > 0)
    BY <1>1, <1>7, HeldItem
  <2>2. /\ rec'[r].status = outcome /\ rec'[r].attempts = n
        /\ rec'[r].claim = NoClaim /\ rec'[r].lease = 0
        /\ log'[r] = Append(log[r], [number |-> n, outcome |-> outcome])
        /\ \A q \in Records \ {r} : rec'[q] = rec[q] /\ log'[q] = log[q]
    BY <1>1, <1>2, <1>7 DEF Complete, TypeOK
  <2>3. AttemptHistory'
    <3>1. log[r] \in Seq(Attempt) /\ History(rec[r], log[r])
      BY <1>1, <1>2, <2>1, HistoryByRow DEF IInv, TypeOK
    <3>2. History(rec'[r], log'[r])
      BY <2>1, <2>2, <3>1, HistoryGrows
    <3> QED
      BY <1>4, <2>2, <3>2, HistoryByRow, HistoryByRowNext DEF IInv
  <2>4. NoPhantomDelivery'
    BY <1>1, <1>2, <1>4, <2>2 DEF IInv, NoPhantomDelivery, OutcomeOf
  <2>5. ErasedNeverDue'
    BY <1>1, <1>4, <2>1, <2>2 DEF IInv, ErasedNeverDue, TypeOK
  <2>6. RowShape'
    BY <2>2 DEF IInv, RowShape
  <2>7. HeldCopyCurrent'
    BY <1>3, <2>2, SentinelsFresh DEF IInv, HeldCopyCurrent, CopyShape, Batch, NoRec
  <2>8. LiveCopyHeld'
    BY <1>3, <1>4, <2>1, <2>2 DEF IInv, LiveCopyHeld, NoRec
  <2>9. AckCurrent'
    BY <1>4, <2>1, <2>2 DEF IInv, AckCurrent, Due
  <2> QED
    BY <1>5, <1>6, <2>3, <2>4, <2>5, <2>6, <2>7, <2>8, <2>9 DEF IInv
<1>8. CASE ~Holds(w)
  <2>1. UNCHANGED <<rec, log, erased, ack, sent>>
    BY <1>8 DEF Complete
  <2> QED
    BY <1>5, <1>6, <2>1, TablesUntouched, AcksUntouched DEF IInv
<1> QED
  BY <1>7, <1>8

\* The upsert of an acknowledgement: it can only turn a delivered row into an
\* acknowledged one, or bring an erased row back as acknowledged.
LEMMA AckSaveStep ==
  ASSUME IInv, TypeOK', NEW a \in Ackers, AckSave(a)
  PROVE  IInv'
<1> DEFINE q == ack[a].record
<1>1. TypeOK /\ q \in Records
  BY DEF IInv, AttemptHistory, AckSave
<1>2. ack[a].seen \in Rec
  BY <1>1 DEF TypeOK
<1>3. /\ rec'[q].status = "acknowledged" /\ rec'[q].claim = NoClaim
      /\ rec'[q].lease = 0 /\ rec'[q].attempts = ack[a].seen.attempts
      /\ \A r \in Records \ {q} : rec'[r] = rec[r]
  BY <1>1, <1>2 DEF AckSave, TypeOK, Rec, IInv, AckCurrent
<1>4. /\ ack'[a] = NoAck /\ \A b \in Ackers \ {a} : ack'[b] = ack[b]
      /\ UNCHANGED <<log, copy, phase, item, hit, sent, erased>>
  BY <1>1 DEF AckSave, TypeOK
<1>5. /\ q \in sent
      /\ q \notin erased => /\ rec[q].status \in {"delivered", "acknowledged"}
                            /\ rec[q].attempts = ack[a].seen.attempts
  BY <1>1 DEF IInv, AckCurrent
<1>6. AttemptHistory'
  <2>1. q \notin erased => History(rec'[q], log'[q])
    BY <1>1, <1>3, <1>4, <1>5, HistoryByRow DEF IInv, History, Final
  <2> QED
    BY <1>3, <1>4, <2>1, HistoryByRow, HistoryByRowNext DEF IInv
<1>7. NoPhantomDelivery' /\ ErasedNeverDue' /\ RowShape'
  BY <1>1, <1>3, <1>4, <1>5
     DEF IInv, NoPhantomDelivery, ErasedNeverDue, RowShape, Due, TypeOK
<1>8. CopyShape' /\ ClaimsDiffer' /\ OneLiveCopy'
  BY <1>4, ForgettingCopies
<1>9. HeldCopyCurrent'
  BY <1>3, <1>4, SentinelsFresh DEF IInv, HeldCopyCurrent, CopyShape, Batch
<1>10. LiveCopyHeld'
  <2>1. q \notin erased => rec[q].claim = NoClaim
    BY <1>1, <1>5 DEF IInv, RowShape, Due
  <2> QED
    BY <1>3, <1>4, <2>1 DEF IInv, LiveCopyHeld
<1>11. WorkerShape'
  BY <1>4 DEF IInv, WorkerShape, Batch
<1>12. AckCurrent'
  BY <1>3, <1>4, <1>5, SentinelsFresh DEF IInv, AckCurrent, NoAck
<1> QED
  BY <1>6, <1>7, <1>8, <1>9, <1>10, <1>11, <1>12 DEF IInv

\* Erasing a row (erase_traveler_data, purge_expired) leaves the workers with
\* copies that no row matches any more.
LEMMA EraseStep ==
  ASSUME IInv, TypeOK', NEW q \in Records, Erase(q)
  PROVE  IInv'
<1>1. TypeOK
  BY DEF IInv, AttemptHistory
<1>2. /\ rec'[q] = NoRec /\ erased' = erased \cup {q}
      /\ \A r \in Records \ {q} : rec'[r] = rec[r] /\ log'[r] = log[r]
      /\ UNCHANGED <<copy, phase, item, hit, ack, sent>>
  BY <1>1 DEF Erase, TypeOK
<1>3. AttemptHistory'
  BY <1>2, HistoryByRow, HistoryByRowNext DEF IInv
<1>4. NoPhantomDelivery' /\ ErasedNeverDue' /\ RowShape'
  <2>1. NoPhantomDelivery' /\ RowShape'
    BY <1>2 DEF IInv, NoPhantomDelivery, RowShape, NoRec
  <2>2. ErasedNeverDue'
    BY <1>1, <1>2 DEF IInv, ErasedNeverDue, NoRec, TypeOK
  <2> QED
    BY <2>1, <2>2
<1>5. CopyShape' /\ ClaimsDiffer' /\ OneLiveCopy'
  BY <1>2, ForgettingCopies
<1>6. HeldCopyCurrent'
  BY <1>2, SentinelsFresh DEF IInv, HeldCopyCurrent, CopyShape, Batch, NoRec
<1>7. LiveCopyHeld'
  BY <1>2 DEF IInv, LiveCopyHeld
<1>8. WorkerShape'
  BY <1>2 DEF IInv, WorkerShape, Batch
<1>9. AckCurrent'
  BY <1>2 DEF IInv, AckCurrent
<1> QED
  BY <1>3, <1>4, <1>5, <1>6, <1>7, <1>8, <1>9 DEF IInv

\* Time passing ages rows and copies alike, so that a current copy stays
\* current and a lease runs out in both at once.
LEMMA TickStep ==
  ASSUME IInv, TypeOK', Tick
  PROVE  IInv'
<1>1. TypeOK
  BY DEF IInv, AttemptHistory
<1>2. \A r \in Records : rec[r] \in Rec /\ rec'[r] = Aged(rec[r])
  BY <1>1 DEF Tick, TypeOK
<1>3. \A w \in Workers, r \in Records :
        copy[w][r] \in Rec /\ copy'[w][r] = Aged(copy[w][r])
  BY <1>1 DEF Tick, TypeOK
<1>4. \A r \in Records :
        /\ rec'[r].status = rec[r].status /\ rec'[r].attempts = rec[r].attempts
        /\ rec'[r].claim = rec[r].claim /\ (rec[r].lease = 0 => rec'[r].lease = 0)
  BY <1>2, AgedTyped
<1>5. \A w \in Workers, r \in Records :
        /\ copy'[w][r].status = copy[w][r].status
        /\ copy'[w][r].claim = copy[w][r].claim
        /\ copy'[w][r].lease > 0 => copy[w][r].lease > 0
        /\ copy[w][r] = NoRec => copy'[w][r] = NoRec
  BY <1>3, AgedTyped
<1>6. UNCHANGED <<log, phase, item, hit, ack, sent, erased>>
  BY DEF Tick
<1>7. AttemptHistory'
  <2>1. \A r \in Records \ erased : History(rec'[r], log'[r])
    BY <1>4, <1>6, HistoryByRow DEF IInv, History
  <2> QED
    BY <1>6, <2>1, HistoryByRowNext
<1>8. NoPhantomDelivery' /\ ErasedNeverDue' /\ RowShape'
  BY <1>1, <1>4, <1>6
     DEF IInv, NoPhantomDelivery, ErasedNeverDue, RowShape, TypeOK
<1>9. CopyShape'
  BY <1>5 DEF IInv, CopyShape, Batch
<1>10. HeldCopyCurrent'
  <2>1. \A w \in Workers, r \in Records :
          rec[r] = copy[w][r] => rec'[r] = copy'[w][r]
    BY <1>2, <1>3
  <2> QED
    BY <1>4, <1>5, <2>1 DEF IInv, HeldCopyCurrent, Batch
<1>11. ClaimsDiffer'
  BY <1>5 DEF IInv, ClaimsDiffer, Batch
<1>12. LiveCopyHeld' /\ OneLiveCopy'
  BY <1>4, <1>5, <1>6 DEF IInv, LiveCopyHeld, OneLiveCopy
<1>13. WorkerShape'
  BY <1>5, <1>6 DEF IInv, WorkerShape, Batch
<1>14. AckCurrent'
  BY <1>4, <1>6 DEF IInv, AckCurrent
<1> QED
  BY <1>7, <1>8, <1>9, <1>10, <1>11, <1>12, <1>13, <1>14 DEF IInv

-----------------------------------------------------------------------------
(***************************************************************************)
(* The steps that leave the tables alone.                                  *)
(***************************************************************************)

\* Working through the batch: a check, a skipped or lapsed item, the beginning
\* of a send, a crash.
LEMMA WorkerStep ==
  ASSUME IInv, TypeOK', NEW w \in Workers,
         \/ \E r \in Records : Select(w, r) \/ Skip(w, r)
         \/ Lapse(w) \/ Crash(w)
         \/ \E b \in BOOLEAN : StartSend(w, b)
  PROVE  IInv'
<1>1. TypeOK
  BY DEF IInv, AttemptHistory
<1>2. UNCHANGED <<rec, log, erased, ack>> /\ sent \subseteq sent'
  BY DEF Select, Skip, Lapse, Crash, StartSend
<1>3. /\ \A v \in Workers, r \in Records : copy'[v][r] \in {copy[v][r], NoRec}
      /\ \A v \in Workers \ {w} :
           /\ phase'[v] = phase[v] /\ item'[v] = item[v] /\ hit'[v] = hit[v]
           /\ \A r \in Records : copy'[v][r] = copy[v][r]
  <2>1. ASSUME NEW r \in Records, Select(w, r) PROVE <1>3!:
    BY <1>1, <2>1 DEF Select, TypeOK
  <2>2. ASSUME NEW r \in Records, Skip(w, r) PROVE <1>3!:
    BY <1>1, <2>2 DEF Skip, Drop, TypeOK
  <2>3. CASE Lapse(w)
    BY <1>1, <2>3 DEF Lapse, Drop, TypeOK
  <2>4. CASE Crash(w)
    BY <1>1, <2>4 DEF Crash, TypeOK
  <2>5. ASSUME NEW b \in BOOLEAN, StartSend(w, b) PROVE <1>3!:
    BY <1>1, <2>5 DEF StartSend, TypeOK
  <2> QED
    BY <2>1, <2>2, <2>3, <2>4, <2>5
<1>4. /\ phase'[w] \in {"checked", "sending"} =>
           item'[w] \in Records /\ copy'[w][item'[w]].status # "absent"
      /\ phase'[w] = "sending" /\ hit'[w] => item'[w] \in sent'
  <2>1. ASSUME NEW r \in Records, Select(w, r) \/ Skip(w, r)
        PROVE  <1>4!:
    BY <1>1, <2>1 DEF Select, Skip, Batch, TypeOK
  <2>2. ASSUME Lapse(w) \/ Crash(w) PROVE <1>4!:
    BY <1>1, <2>2 DEF Lapse, Crash, TypeOK
  <2>3. ASSUME NEW b \in BOOLEAN, StartSend(w, b) PROVE <1>4!:
    BY <1>1, <2>3 DEF StartSend, IInv, WorkerShape, Batch, TypeOK
  <2> QED
    BY <2>1, <2>2, <2>3
<1>5. WorkerShape'
  BY <1>2, <1>3, <1>4 DEF IInv, WorkerShape, Batch
<1> QED
  BY <1>2, <1>3, <1>5, TablesUntouched, AcksUntouched, ForgettingCopies DEF IInv

\* An acknowledgement reads a delivered row.
LEMMA AckReadStep ==
  ASSUME IInv, TypeOK', NEW a \in Ackers, NEW q \in Records, AckRead(a, q)
  PROVE  IInv'
<1>1. TypeOK
  BY DEF IInv, AttemptHistory
<1>2. /\ rec[q].status = "delivered"
      /\ ack'[a] = [record |-> q, seen |-> rec[q]]
      /\ \A b \in Ackers \ {a} : ack'[b] = ack[b]
      /\ UNCHANGED <<rec, log, copy, phase, item, hit, sent, erased>>
  BY <1>1 DEF AckRead, TypeOK
<1>3. /\ rec[q].claim = NoClaim /\ rec[q].lease = 0 /\ q \in sent
  BY <1>2 DEF IInv, RowShape, NoPhantomDelivery, Due
<1>4. AckCurrent'
  BY <1>2, <1>3 DEF IInv, AckCurrent
<1>5. WorkerShape'
  BY <1>2 DEF IInv, WorkerShape, Batch
<1> QED
  BY <1>2, <1>4, <1>5, TablesUntouched, ForgettingCopies DEF IInv

\* Changing a control touches no table, and a stuttering step nothing at all.
LEMMA IdleStep ==
  ASSUME IInv, TypeOK',
         UNCHANGED <<rec, log, copy, phase, item, hit, ack, sent, erased>>
  PROVE  IInv'
<1>1. WorkerShape'
  BY DEF IInv, WorkerShape, Batch
<1> QED
  BY <1>1, TablesUntouched, AcksUntouched, ForgettingCopies DEF IInv

-----------------------------------------------------------------------------
\* The inductive invariant holds in every state, whatever the workers, the
\* clock, the acknowledgements and the erasures do.
THEOREM Invariance == Spec => []IInv
<1>1. Init => IInv
  <2> SUFFICES ASSUME Init PROVE IInv
    OBVIOUS
  <2>1. TypeOK
    BY TypeStep
  <2>2. \A r \in Records : rec[r] = NoRec /\ Len(log[r]) = 0
    BY DEF Init
  <2>3. \A w \in Workers, r \in Records : copy[w][r] = NoRec
    BY DEF Init
  <2>4. \A w \in Workers : phase[w] \in {"idle", "away"}
    BY DEF Init
  <2>5. AttemptHistory
    <3>1. \A r \in Records : History(rec[r], log[r])
      BY <2>2, BoundsPositive DEF History, NoRec
    <3> QED
      BY <2>1, <3>1, HistoryByRow
  <2>6. NoPhantomDelivery /\ ErasedNeverDue /\ RowShape
    BY <2>1, <2>2
       DEF NoPhantomDelivery, ErasedNeverDue, RowShape, NoRec, Due, TypeOK
  <2>7. /\ CopyShape /\ HeldCopyCurrent /\ ClaimsDiffer /\ LiveCopyHeld
        /\ OneLiveCopy
    BY <2>3 DEF CopyShape, HeldCopyCurrent, ClaimsDiffer, LiveCopyHeld,
                OneLiveCopy, Batch, NoRec
  <2>8. WorkerShape
    BY <2>4 DEF WorkerShape
  <2>9. AckCurrent
    BY SentinelsFresh DEF Init, NoAck, AckCurrent
  <2> QED
    BY <2>5, <2>6, <2>7, <2>8, <2>9 DEF IInv
<1>2. IInv /\ [Next]_vars => IInv'
  <2> SUFFICES ASSUME IInv, [Next]_vars PROVE IInv'
    OBVIOUS
  <2>1. TypeOK'
    BY TypeStep DEF IInv, AttemptHistory
  <2>2. ASSUME NEW r \in Records, Enqueue(r) PROVE IInv'
    BY <2>1, <2>2, EnqueueStep
  <2>3. ASSUME NEW r \in Records, Erase(r) PROVE IInv'
    BY <2>1, <2>3, EraseStep
  <2>4. ASSUME NEW w \in Workers, NEW T, NEW S \in Scan(Pending(T)), Claim(w, S)
        PROVE  IInv'
    <3>1. S \in SUBSET Records /\ \A r \in S : rec[r].status \in Due
      BY DEF Scan, Pending
    <3> QED
      BY <2>1, <2>4, <3>1, ClaimStep
  <2>5. ASSUME NEW w \in Workers, NEW b \in BOOLEAN, Complete(w, b) PROVE IInv'
    BY <2>1, <2>5, CompleteStep
  <2>6. ASSUME NEW w \in Workers,
               \/ \E r \in Records : Select(w, r) \/ Skip(w, r)
               \/ Lapse(w) \/ Crash(w)
               \/ \E b \in BOOLEAN : StartSend(w, b)
        PROVE  IInv'
    BY <2>1, <2>6, WorkerStep
  <2>7. ASSUME NEW a \in Ackers, AckSave(a) PROVE IInv'
    BY <2>1, <2>7, AckSaveStep
  <2>8. ASSUME NEW a \in Ackers, NEW r \in Records, AckRead(a, r) PROVE IInv'
    BY <2>1, <2>8, AckReadStep
  <2>9. CASE Tick
    BY <2>1, <2>9, TickStep
  <2>10. ASSUME UNCHANGED vars \/ \E t \in Tenants : SetControl(t) PROVE IInv'
    BY <2>1, <2>10, IdleStep DEF SetControl, vars
  <2> QED
    BY <2>2, <2>3, <2>4, <2>5, <2>6, <2>7, <2>8, <2>9, <2>10
       DEF Next, Work, ClaimDue, ClaimDueForTenant
<1> QED
  BY <1>1, <1>2, PTL DEF Spec

\* The attempt table is the history of the row: complete_notification and
\* complete_action number the attempts 1, 2, ... without gap or repetition and
\* never make more than MaxAttempts of them, for any number of racing workers.
THEOREM AttemptHistoryHolds == Spec => []AttemptHistory
BY Invariance, PTL DEF IInv

\* A record is marked delivered only when a send of it took effect.
THEOREM NoPhantomDeliveryHolds == Spec => []NoPhantomDelivery
BY Invariance, PTL DEF IInv

\* A record that erase_traveler_data or purge_expired deleted while workers
\* held copies of it never becomes due again.
THEOREM ErasedNeverDueHolds == Spec => []ErasedNeverDue
BY Invariance, PTL DEF IInv

\* Two workers never send one record under leases that are both unexpired, not
\* even when the record is erased under them; and while it is not, a sender
\* with an unexpired lease finds its own claim id in the row.
THEOREM OneLiveSenderHolds == Spec => []OneLiveSender
<1>1. ASSUME IInv, NEW w \in Workers, phase[w] = "sending"
      PROVE  item[w] \in Records /\ item[w] \in Batch(w)
  BY <1>1 DEF IInv, WorkerShape
<1>2. ASSUME IInv, NEW v \in Workers, NEW w \in Workers, v # w,
             phase[v] = "sending", item[v] = item[w], LeaseLive(v), LeaseLive(w)
      PROVE  FALSE
  BY <1>1, <1>2 DEF IInv, OneLiveCopy, LeaseLive
<1>3. ASSUME IInv, NEW w \in Workers, phase[w] = "sending", LeaseLive(w),
             item[w] \notin erased
      PROVE  Holds(w)
  <2>1. item[w] \in Records /\ item[w] \in Batch(w)
    BY <1>1, <1>3
  <2>2. rec[item[w]].claim = copy[w][item[w]].claim
    BY <1>3, <2>1 DEF IInv, LiveCopyHeld, LeaseLive
  <2>3. rec[item[w]].claim # NoClaim
    BY <1>3, <2>1, <2>2, SentinelsFresh DEF IInv, CopyShape
  <2>4. rec[item[w]].status # "absent"
    BY <1>3, <2>1, <2>3 DEF IInv, RowShape, Due
  <2> QED
    BY <2>2, <2>4 DEF Holds
<1>4. IInv => OneLiveSender
  BY <1>2, <1>3 DEF OneLiveSender
<1> QED
  BY <1>4, Invariance, PTL

-----------------------------------------------------------------------------
(***************************************************************************)
(* The refinement.                                                         *)
(***************************************************************************)

\* A step that leaves every row's status and attempts alone is invisible to
\* the ledger.
LEMMA LedgerStutters ==
  ASSUME UNCHANGED erased,
         \A r \in Records \ erased : /\ rec'[r].status = rec[r].status
                                     /\ rec'[r].attempts = rec[r].attempts
  PROVE  UNCHANGED <<LedgerStatus, LedgerAttempts>>
BY DEF LedgerStatus, LedgerAttempts

\* The outbox implements the ledger: through every claim, lapse, crash, late
\* completion and late acknowledgement a row goes through its life one attempt
\* at a time, and through none after it is final or erased.
THEOREM OutboxImplementsLedger == Spec => ImplementsLedger
<1>1. Init => Ledger!Init
  <2> SUFFICES ASSUME Init PROVE Ledger!Init
    OBVIOUS
  <2>1. \A r \in Records : rec[r] = NoRec
    BY DEF Init
  <2> QED
    BY <2>1 DEF Ledger!Init, LedgerStatus, LedgerAttempts, NoRec
<1>2. IInv /\ [Next]_vars => [Ledger!Next]_(Ledger!vars)
  <2> SUFFICES ASSUME IInv, [Next]_vars
               PROVE  Ledger!Next \/ UNCHANGED <<LedgerStatus, LedgerAttempts>>
    BY DEF Ledger!vars
  <2> USE DEF LedgerStatus, LedgerAttempts
  <2>1. TypeOK
    BY DEF IInv, AttemptHistory
  <2>2. ASSUME NEW r \in Records, Enqueue(r) PROVE Ledger!Enqueue(r)
    <3>1. /\ rec[r].status = "absent" /\ r \notin erased /\ erased' = erased
          /\ rec'[r].status = "queued" /\ rec'[r].attempts = 0
          /\ \A q \in Records \ {r} : rec'[q] = rec[q]
      BY <2>1, <2>2 DEF Enqueue, TypeOK, NoRec
    <3>2. rec[r].attempts = 0
      BY <3>1, HistoryByRow DEF IInv, History
    <3> QED
      BY <3>1, <3>2 DEF Ledger!Enqueue
  <2>3. ASSUME NEW r \in Records, Erase(r)
        PROVE  Ledger!Erase(r) \/ UNCHANGED <<LedgerStatus, LedgerAttempts>>
    <3>1. /\ rec[r].status # "absent" /\ erased' = erased \cup {r}
          /\ \A q \in Records \ {r} : rec'[q] = rec[q]
      BY <2>1, <2>3 DEF Erase, TypeOK
    <3>2. CASE r \in erased
      BY <3>1, <3>2
    <3>3. CASE r \notin erased
      <4>1. rec[r].status # "erased"
        BY <2>1 DEF TypeOK, Rec, Statuses, Due, Final
      <4> QED
        BY <3>1, <3>3, <4>1 DEF Ledger!Erase
    <3> QED
      BY <3>2, <3>3
  <2>4. ASSUME NEW w \in Workers, NEW S \in SUBSET Records, Claim(w, S)
        PROVE  UNCHANGED <<LedgerStatus, LedgerAttempts>>
    <3>1. \A r \in S : Claimable(r) => /\ Leased(r).status = rec[r].status
                                       /\ Leased(r).attempts = rec[r].attempts
      BY <2>1, <2>4, LeasedTyped DEF Claim
    <3>2. \A r \in Records : /\ rec'[r].status = rec[r].status
                             /\ rec'[r].attempts = rec[r].attempts
      BY <2>4, <3>1 DEF Claim
    <3> QED
      BY <2>4, <3>2, LedgerStutters DEF Claim
  <2>5. ASSUME NEW w \in Workers, NEW b \in BOOLEAN, Complete(w, b)
        PROVE  \/ Ledger!Attempt(item[w])
               \/ UNCHANGED <<LedgerStatus, LedgerAttempts>>
    <3> DEFINE r == item[w]
    <3>1. CASE Holds(w)
      <4>1. /\ r \in Records \ erased /\ rec[r] = copy[w][r]
            /\ rec[r].status \in Due /\ rec[r].attempts < MaxAttempts
        BY <2>5, <3>1, HeldItem DEF Complete
      <4>2. rec[r].attempts \in Nat
        BY <2>1, <4>1 DEF TypeOK, Rec
      <4>3. /\ rec'[r].status = OutcomeOf(rec[r].attempts + 1, b)
            /\ rec'[r].attempts = rec[r].attempts + 1 /\ erased' = erased
            /\ \A q \in Records \ {r} : rec'[q] = rec[q]
        BY <2>1, <2>5, <3>1, <4>1 DEF Complete, TypeOK
      <4>4. \/ rec'[r].status = "delivered"
            \/ rec'[r].status = IF rec[r].attempts + 1 < MaxAttempts
                                THEN "retry_scheduled" ELSE "failed"
        BY <4>1, <4>2, <4>3, BoundsPositive DEF OutcomeOf
      <4>5. /\ LedgerStatus[r] \in Due
            /\ LedgerAttempts[r] = rec[r].attempts
            /\ LedgerAttempts' = [LedgerAttempts EXCEPT ![r] = @ + 1]
            /\ LedgerStatus' = [LedgerStatus EXCEPT ![r] = rec'[r].status]
        BY <4>1, <4>3
      <4> QED
        BY <4>4, <4>5 DEF Ledger!Attempt, Due
    <3>2. CASE ~Holds(w)
      BY <2>5, <3>2, LedgerStutters DEF Complete
    <3> QED
      BY <3>1, <3>2
  <2>6. ASSUME NEW a \in Ackers, AckSave(a)
        PROVE  \/ Ledger!Acknowledge(ack[a].record)
               \/ UNCHANGED <<LedgerStatus, LedgerAttempts>>
    <3> DEFINE r == ack[a].record
    <3>1. r \in Records /\ ack[a].seen \in Rec
      BY <2>1, <2>6 DEF AckSave, TypeOK
    <3>2. /\ rec'[r].status = "acknowledged" /\ erased' = erased
          /\ rec'[r].attempts = ack[a].seen.attempts
          /\ \A q \in Records \ {r} : rec'[q] = rec[q]
      BY <2>1, <2>6, <3>1 DEF AckSave, TypeOK, Rec
    <3>3. r \notin erased => /\ rec[r].status \in {"delivered", "acknowledged"}
                             /\ rec[r].attempts = ack[a].seen.attempts
      BY <3>1 DEF IInv, AckCurrent
    <3>4. CASE r \notin erased /\ rec[r].status = "delivered"
      BY <3>1, <3>2, <3>3, <3>4 DEF Ledger!Acknowledge
    <3>5. CASE r \in erased \/ rec[r].status = "acknowledged"
      BY <3>1, <3>2, <3>3, <3>5, LedgerStutters
    <3> QED
      BY <3>3, <3>4, <3>5
  <2>7. CASE Tick
    <3>1. \A r \in Records : /\ rec'[r].status = rec[r].status
                             /\ rec'[r].attempts = rec[r].attempts
      BY <2>7 DEF Tick, Aged
    <3> QED
      BY <2>7, <3>1, LedgerStutters DEF Tick
  <2>8. ASSUME UNCHANGED <<rec, erased>>
        PROVE  UNCHANGED <<LedgerStatus, LedgerAttempts>>
    BY <2>8
  <2>9. ASSUME NEW w \in Workers, Complete(w, TRUE) \/ Complete(w, FALSE)
        PROVE  item[w] \in Records
    BY <2>9 DEF Complete, IInv, WorkerShape
  <2> HIDE DEF LedgerStatus, LedgerAttempts
  <2> QED
    BY <2>2, <2>3, <2>4, <2>5, <2>6, <2>7, <2>8, <2>9
       DEF Next, Work, ClaimDue, ClaimDueForTenant, Scan, Pending, Ledger!Next,
           Select, Skip, Lapse, StartSend, Crash, AckRead, AckSave, SetControl, vars
<1> QED
  BY <1>1, <1>2, Invariance, PTL DEF Spec, ImplementsLedger, Ledger!Spec
=============================================================================
