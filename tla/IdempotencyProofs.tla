------------------------- MODULE IdempotencyProofs -------------------------
(***************************************************************************)
(* Proofs about Idempotency for any number of requests and keys, any TTL   *)
(* and any clock bound.                                                    *)
(***************************************************************************)
EXTENDS Idempotency, TLAPS

\* A claimant's window starts in the past and lasts exactly Ttl.
WindowShape ==
  \A r \in Requests : Claimant(r) =>
    req[r].claimed <= now /\ req[r].expires = req[r].claimed + Ttl

\* While a claimant's window is open the row of its key is its own.
LiveClaimHeld ==
  \A r \in Requests : Claimant(r) /\ req[r].expires > now =>
    /\ ledger[req[r].key].state # "absent"
    /\ ledger[req[r].key].owner = r

\* A row belongs to a claimant, with that claimant's expiry and fingerprint.
RowOwned ==
  \A k \in Keys : ledger[k].state # "absent" =>
    /\ ledger[k].owner \in Requests
    /\ Claimant(ledger[k].owner)
    /\ req[ledger[k].owner].key = k
    /\ req[ledger[k].owner].expires = ledger[k].expires
    /\ req[ledger[k].owner].hash = ledger[k].hash

\* A completed row holds the response of a finished execution of the same
\* request, not necessarily of the row's owner.
RowAnswered ==
  \A k \in Keys : ledger[k].state = "completed" =>
    /\ ledger[k].response \in Requests
    /\ req[ledger[k].response].phase = "finished"
    /\ req[ledger[k].response].key = k
    /\ req[ledger[k].response].hash = ledger[k].hash

IInv == /\ TypeOK /\ WindowShape /\ LiveClaimHeld /\ RowOwned /\ RowAnswered
        /\ WindowsDisjoint /\ ReplayFaithful

-----------------------------------------------------------------------------
\* One step keeps the types of the key table and of the requests.
LEMMA TypeKept == TypeOK /\ [Next]_vars => TypeOK'
<1> SUFFICES ASSUME TypeOK, [Next]_vars PROVE TypeOK'
  OBVIOUS
<1> USE TtlPositive, RequireKeyBoolean DEF TypeOK, Row, Request, Phases
<1>1. ASSUME NEW r \in Requests, NEW k \in Keys, NEW h \in Fingerprints,
             ClaimExecute(r, k, h)
      PROVE  TypeOK'
  BY <1>1 DEF ClaimExecute, Claimed
<1>2. ASSUME NEW r \in Requests, NEW k \in Keys, NEW h \in Fingerprints,
             ClaimRefuse(r, k, h)
      PROVE  TypeOK'
  BY <1>2 DEF ClaimRefuse, Answer
<1>3. ASSUME NEW r \in Requests, NEW k \in Keys, NEW h \in Fingerprints,
             ClaimReplay(r, k, h)
      PROVE  TypeOK'
  BY <1>3 DEF ClaimReplay, Answer
<1>4. ASSUME NEW r \in Requests, NEW h \in Fingerprints, ClaimWithoutKey(r, h)
      PROVE  TypeOK'
  BY <1>4 DEF ClaimWithoutKey, Answer
<1>5. ASSUME NEW r \in Requests,
             Act(r) \/ Fail(r) \/ CompleteLost(r) \/ CompleteWithoutKey(r)
      PROVE  TypeOK'
  BY <1>5 DEF Act, Fail, CompleteLost, CompleteWithoutKey
<1>6. ASSUME NEW r \in Requests, Complete(r) PROVE TypeOK'
  BY <1>6 DEF Complete
<1>7. ASSUME NEW before \in 0 .. now, PurgeExpired(before) PROVE TypeOK'
  BY <1>7 DEF PurgeExpired, NoRow
<1>8. CASE Tick
  BY <1>8 DEF Tick
<1>9. CASE UNCHANGED vars
  BY <1>9 DEF vars
<1> QED
  BY <1>1, <1>2, <1>3, <1>4, <1>5, <1>6, <1>7, <1>8, <1>9 DEF Next

\* Every variable keeps its type: rows of idempotency_records and the
\* requests' progress stay well formed whatever interleaving happens.
THEOREM TypeCorrect == Spec => []TypeOK
<1>1. Init => TypeOK
  BY DEF Init, TypeOK, NoRow, Fresh, Row, Request, Phases
<1> QED
  BY <1>1, TypeKept, PTL DEF Spec

-----------------------------------------------------------------------------
\* What a step can do to the requests that already claimed a key: only their
\* phase advances, so they stay claimants with the same window.
LEMMA ClaimantsKept ==
  ASSUME TypeOK, [Next]_vars, NEW s \in Requests, Claimant(s)
  PROVE  /\ Claimant(s)'
         /\ req'[s].key = req[s].key
         /\ req'[s].hash = req[s].hash
         /\ req'[s].claimed = req[s].claimed
         /\ req'[s].expires = req[s].expires
         /\ req[s].phase = "finished" => req'[s].phase = "finished"
<1> USE DEF Claimant, TypeOK, Request
<1>1. ASSUME NEW r \in Requests, NEW k \in Keys, NEW h \in Fingerprints,
             ClaimExecute(r, k, h) \/ ClaimRefuse(r, k, h) \/ ClaimReplay(r, k, h)
      PROVE  req'[s] = req[s]
  BY <1>1 DEF ClaimExecute, ClaimRefuse, ClaimReplay, Answer
<1>2. ASSUME NEW r \in Requests, NEW h \in Fingerprints, ClaimWithoutKey(r, h)
      PROVE  req'[s] = req[s]
  BY <1>2 DEF ClaimWithoutKey, Answer
<1>3. ASSUME NEW r \in Requests, Act(r) \/ Fail(r) \/ Complete(r)
                                 \/ CompleteLost(r) \/ CompleteWithoutKey(r)
      PROVE  /\ req'[s].phase \in {"acted", "failed", "finished", "lost", req[s].phase}
             /\ req[s].phase = "finished" => req'[s].phase = "finished"
             /\ req'[s].key = req[s].key /\ req'[s].hash = req[s].hash
             /\ req'[s].claimed = req[s].claimed
             /\ req'[s].expires = req[s].expires
  BY <1>3 DEF Act, Fail, Complete, CompleteLost, CompleteWithoutKey
<1>4. CASE (\E before \in 0 .. now : PurgeExpired(before)) \/ Tick \/ UNCHANGED vars
  BY <1>4 DEF PurgeExpired, Tick, vars
<1> QED BY <1>1, <1>2, <1>3, <1>4 DEF Next

\* A request becomes a claimant only by ClaimExecute on a free key.
LEMMA NewClaimant ==
  ASSUME TypeOK, [Next]_vars, NEW s \in Requests, Claimant(s)', ~Claimant(s)
  PROVE  \E k \in Keys, h \in Fingerprints : ClaimExecute(s, k, h)
<1> USE NoneIsFresh DEF Claimant, TypeOK, Request
<1>1. ASSUME NEW r \in Requests, NEW k \in Keys, NEW h \in Fingerprints,
             ClaimRefuse(r, k, h) \/ ClaimReplay(r, k, h)
      PROVE  FALSE
  BY <1>1 DEF ClaimRefuse, ClaimReplay, Answer
<1>2. ASSUME NEW r \in Requests, NEW h \in Fingerprints, ClaimWithoutKey(r, h)
      PROVE  FALSE
  BY <1>2, RequireKeyBoolean DEF ClaimWithoutKey, Answer
<1>3. ASSUME NEW r \in Requests, Act(r) \/ Fail(r) \/ Complete(r)
                                 \/ CompleteLost(r) \/ CompleteWithoutKey(r)
      PROVE  FALSE
  BY <1>3 DEF Act, Fail, Complete, CompleteLost, CompleteWithoutKey
<1>4. CASE (\E before \in 0 .. now : PurgeExpired(before)) \/ Tick \/ UNCHANGED vars
  BY <1>4 DEF PurgeExpired, Tick, vars
<1>5. ASSUME NEW r \in Requests, NEW k \in Keys, NEW h \in Fingerprints,
             ClaimExecute(r, k, h)
      PROVE  r = s
  BY <1>5 DEF ClaimExecute
<1> QED BY <1>1, <1>2, <1>3, <1>4, <1>5 DEF Next

\* A request that has its answer never changes again, and a request becomes
\* a replay only by ClaimReplay.
LEMMA AnswersKept ==
  ASSUME TypeOK, [Next]_vars, NEW s \in Requests
  PROVE  /\ req[s].phase \in {"finished", "replayed"} => req'[s] = req[s]
         /\ req[s].phase # "replayed" /\ req'[s].phase = "replayed"
              => \E k \in Keys, h \in Fingerprints : ClaimReplay(s, k, h)
<1> USE DEF TypeOK, Request
<1>1. ASSUME NEW r \in Requests, NEW k \in Keys, NEW h \in Fingerprints,
             ClaimExecute(r, k, h) \/ ClaimRefuse(r, k, h)
      PROVE  /\ req[s].phase \in {"finished", "replayed"} => req'[s] = req[s]
             /\ req[s].phase = "replayed" \/ req'[s].phase # "replayed"
  BY <1>1 DEF ClaimExecute, ClaimRefuse, Answer
<1>2. ASSUME NEW r \in Requests, NEW k \in Keys, NEW h \in Fingerprints,
             ClaimReplay(r, k, h)
      PROVE  /\ req[s].phase \in {"finished", "replayed"} => req'[s] = req[s]
             /\ r = s \/ req'[s] = req[s]
  BY <1>2 DEF ClaimReplay, Answer
<1>3. ASSUME NEW r \in Requests, NEW h \in Fingerprints, ClaimWithoutKey(r, h)
      PROVE  /\ req[s].phase \in {"finished", "replayed"} => req'[s] = req[s]
             /\ req[s].phase = "replayed" \/ req'[s].phase # "replayed"
  BY <1>3, RequireKeyBoolean DEF ClaimWithoutKey, Answer
<1>4. ASSUME NEW r \in Requests, Act(r) \/ Fail(r) \/ Complete(r)
                                 \/ CompleteLost(r) \/ CompleteWithoutKey(r)
      PROVE  /\ req[s].phase \in {"finished", "replayed"} => req'[s] = req[s]
             /\ req[s].phase = "replayed" \/ req'[s].phase # "replayed"
  BY <1>4 DEF Act, Fail, Complete, CompleteLost, CompleteWithoutKey
<1>5. CASE (\E before \in 0 .. now : PurgeExpired(before)) \/ Tick \/ UNCHANGED vars
  BY <1>5 DEF PurgeExpired, Tick, vars
<1> QED BY <1>1, <1>2, <1>3, <1>4, <1>5 DEF Next

\* What a step can do to the rows: claim a free key, store a response under
\* a fingerprint that matches, drop an expired row, or nothing.
LEMMA RowSteps ==
  ASSUME TypeOK, [Next]_vars, NEW k \in Keys
  PROVE  \/ \E r \in Requests, h \in Fingerprints : ClaimExecute(r, k, h)
         \/ /\ ledger'[k] = NoRow /\ ledger[k].expires <= now
            /\ UNCHANGED <<now, req>>
         \/ \E r \in Requests :
              /\ Complete(r) /\ req[r].key = k
              /\ ledger'[k] = [state |-> "completed", hash |-> ledger[k].hash,
                               response |-> r, expires |-> ledger[k].expires,
                               owner |-> ledger[k].owner]
         \/ ledger'[k] = ledger[k]
<1> USE DEF TypeOK
<1>1. ASSUME NEW r \in Requests, NEW j \in Keys, NEW h \in Fingerprints,
             ClaimExecute(r, j, h)
      PROVE  j = k \/ ledger'[k] = ledger[k]
  BY <1>1 DEF ClaimExecute
<1>2. ASSUME NEW r \in Requests, NEW j \in Keys, NEW h \in Fingerprints,
             ClaimRefuse(r, j, h) \/ ClaimReplay(r, j, h)
      PROVE  ledger'[k] = ledger[k]
  BY <1>2 DEF ClaimRefuse, ClaimReplay
<1>3. ASSUME NEW r \in Requests, NEW h \in Fingerprints, ClaimWithoutKey(r, h)
      PROVE  ledger'[k] = ledger[k]
  BY <1>3 DEF ClaimWithoutKey
<1>4. ASSUME NEW r \in Requests,
             Act(r) \/ Fail(r) \/ CompleteLost(r) \/ CompleteWithoutKey(r)
      PROVE  ledger'[k] = ledger[k]
  BY <1>4 DEF Act, Fail, CompleteLost, CompleteWithoutKey
<1>5. ASSUME NEW r \in Requests, Complete(r)
      PROVE  \/ ledger'[k] = ledger[k]
             \/ /\ req[r].key = k
                /\ ledger'[k] = [state |-> "completed", hash |-> ledger[k].hash,
                                 response |-> r, expires |-> ledger[k].expires,
                                 owner |-> ledger[k].owner]
  BY <1>5 DEF Complete
<1>6. ASSUME NEW before \in 0 .. now, PurgeExpired(before)
      PROVE  \/ ledger'[k] = ledger[k]
             \/ /\ ledger'[k] = NoRow /\ ledger[k].expires <= now
                /\ UNCHANGED <<now, req>>
  <2>1. CASE ledger[k].state # "absent" /\ ledger[k].expires < before
    BY <1>6, <2>1 DEF PurgeExpired, Row
  <2>2. CASE ~(ledger[k].state # "absent" /\ ledger[k].expires < before)
    BY <1>6, <2>2 DEF PurgeExpired
  <2> QED BY <2>1, <2>2
<1>7. CASE Tick \/ UNCHANGED vars
  BY <1>7 DEF Tick, vars
<1> QED BY <1>1, <1>2, <1>3, <1>4, <1>5, <1>6, <1>7 DEF Next

\* The clock never runs backwards.
LEMMA ClockMonotone ==
  ASSUME TypeOK, [Next]_vars
  PROVE  now' \in Nat /\ now <= now'
<1>1. now' = now \/ Tick
  BY DEF Next, vars, ClaimExecute, ClaimRefuse, ClaimReplay, ClaimWithoutKey,
         Act, Fail, Complete, CompleteLost, CompleteWithoutKey, PurgeExpired
<1> QED BY <1>1 DEF Tick, TypeOK

-----------------------------------------------------------------------------
\* The inductive invariant holds in every reachable state.
THEOREM Invariance == Spec => []IInv
<1>1. Init => IInv
  BY DEF Init, IInv, TypeOK, NoRow, Fresh, Row, Request, Phases, WindowShape,
         LiveClaimHeld, RowOwned, RowAnswered, WindowsDisjoint,
         ReplayFaithful, Claimant
<1>2. IInv /\ TypeOK' /\ [Next]_vars => IInv'
  <2> SUFFICES ASSUME IInv, TypeOK', [Next]_vars PROVE IInv'
    OBVIOUS
  <2> USE DEF IInv
  <2>1. WindowShape'
    <3> SUFFICES ASSUME NEW s \in Requests, Claimant(s)'
                 PROVE  req'[s].claimed <= now'
                        /\ req'[s].expires = req'[s].claimed + Ttl
      BY DEF WindowShape
    <3>1. CASE Claimant(s)
      BY <3>1, ClaimantsKept, ClockMonotone DEF WindowShape, TypeOK, Request
    <3>2. CASE ~Claimant(s)
      <4>1. PICK k \in Keys, h \in Fingerprints : ClaimExecute(s, k, h)
        BY <3>2, NewClaimant
      <4> QED BY <4>1, TtlPositive DEF ClaimExecute, TypeOK
    <3> QED BY <3>1, <3>2
  <2>2. LiveClaimHeld'
    <3> SUFFICES ASSUME NEW s \in Requests, Claimant(s)', req'[s].expires > now'
                 PROVE  /\ ledger'[req'[s].key].state # "absent"
                        /\ ledger'[req'[s].key].owner = s
      BY DEF LiveClaimHeld
    <3>1. CASE Claimant(s)
      <4> DEFINE k == req[s].key
      <4>1. /\ k \in Keys /\ req'[s].key = k /\ req[s].expires > now
            /\ req[s].expires \in Nat
        BY <3>1, ClaimantsKept, ClockMonotone DEF Claimant, TypeOK, Request
      <4>2. /\ ledger[k].state # "absent" /\ ledger[k].owner = s
            /\ ledger[k].expires = req[s].expires
        BY <3>1, <4>1 DEF LiveClaimHeld, RowOwned
      <4>3. ~Free(k)
        BY <4>1, <4>2 DEF Free, TypeOK
      <4>4. ~ \E r \in Requests, h \in Fingerprints : ClaimExecute(r, k, h)
        BY <4>3 DEF ClaimExecute
      <4>5. ~(ledger[k].expires <= now)
        BY <4>1, <4>2 DEF TypeOK
      <4> HIDE DEF k
      <4>6. /\ ledger'[k].state # "absent" /\ ledger'[k].owner = s
        <5>1. CASE \E r \in Requests :
                     /\ Complete(r) /\ req[r].key = k
                     /\ ledger'[k] =
                          [state |-> "completed", hash |-> ledger[k].hash,
                           response |-> r, expires |-> ledger[k].expires,
                           owner |-> ledger[k].owner]
          BY <5>1, <4>2
        <5>2. CASE ledger'[k] = ledger[k]
          BY <5>2, <4>2
        <5> QED BY <5>1, <5>2, <4>1, <4>4, <4>5, RowSteps
      <4> QED BY <4>1, <4>6
    <3>2. CASE ~Claimant(s)
      <4>1. PICK k \in Keys, h \in Fingerprints : ClaimExecute(s, k, h)
        BY <3>2, NewClaimant
      <4> QED BY <4>1 DEF ClaimExecute, Claimed, TypeOK
    <3> QED BY <3>1, <3>2
  <2>3. RowOwned'
    <3> SUFFICES ASSUME NEW k \in Keys, ledger'[k].state # "absent"
                 PROVE  (/\ ledger[k].owner \in Requests
                         /\ Claimant(ledger[k].owner)
                         /\ req[ledger[k].owner].key = k
                         /\ req[ledger[k].owner].expires = ledger[k].expires
                         /\ req[ledger[k].owner].hash = ledger[k].hash)'
      BY DEF RowOwned
    <3>1. CASE \E r \in Requests, h \in Fingerprints : ClaimExecute(r, k, h)
      BY <3>1, TtlPositive DEF ClaimExecute, Claimed, Claimant, TypeOK
    <3>2. ASSUME /\ ledger[k].state # "absent"
                 /\ ledger'[k].owner = ledger[k].owner
                 /\ ledger'[k].expires = ledger[k].expires
                 /\ ledger'[k].hash = ledger[k].hash
          PROVE  (/\ ledger[k].owner \in Requests
                  /\ Claimant(ledger[k].owner)
                  /\ req[ledger[k].owner].key = k
                  /\ req[ledger[k].owner].expires = ledger[k].expires
                  /\ req[ledger[k].owner].hash = ledger[k].hash)'
      <4> DEFINE o == ledger[k].owner
      <4>1. /\ o \in Requests /\ Claimant(o) /\ req[o].key = k
            /\ req[o].expires = ledger[k].expires /\ req[o].hash = ledger[k].hash
        BY <3>2 DEF RowOwned
      <4>2. /\ req'[o].phase \in {"executing", "acted", "finished", "lost", "failed"}
            /\ req'[o].key = k /\ req'[o].expires = ledger[k].expires
            /\ req'[o].hash = ledger[k].hash
        BY <4>1, ClaimantsKept DEF Claimant
      <4> QED BY <3>2, <4>1, <4>2 DEF Claimant
    <3>3. CASE ledger'[k] = NoRow
      BY <3>3 DEF NoRow
    <3>4. CASE \E r \in Requests :
                 /\ Complete(r) /\ req[r].key = k
                 /\ ledger'[k] = [state |-> "completed", hash |-> ledger[k].hash,
                                  response |-> r, expires |-> ledger[k].expires,
                                  owner |-> ledger[k].owner]
      <4>1. ledger[k].state # "absent"
        BY <3>4 DEF Complete, Completable
      <4> QED BY <3>2, <3>4, <4>1
    <3>5. CASE ledger'[k] = ledger[k]
      BY <3>2, <3>5
    <3> QED BY <3>1, <3>3, <3>4, <3>5, RowSteps
  <2>4. RowAnswered'
    <3> SUFFICES ASSUME NEW k \in Keys, ledger'[k].state = "completed"
                 PROVE  (/\ ledger[k].response \in Requests
                         /\ req[ledger[k].response].phase = "finished"
                         /\ req[ledger[k].response].key = k
                         /\ req[ledger[k].response].hash = ledger[k].hash)'
      BY DEF RowAnswered
    <3>1. CASE \E r \in Requests, h \in Fingerprints : ClaimExecute(r, k, h)
      BY <3>1 DEF ClaimExecute, Claimed, TypeOK
    <3>2. CASE ledger'[k] = NoRow
      BY <3>2 DEF NoRow
    <3>3. ASSUME NEW r \in Requests, Complete(r), req[r].key = k,
                 ledger'[k] = [state |-> "completed", hash |-> ledger[k].hash,
                               response |-> r, expires |-> ledger[k].expires,
                               owner |-> ledger[k].owner]
          PROVE  (/\ ledger[k].response \in Requests
                  /\ req[ledger[k].response].phase = "finished"
                  /\ req[ledger[k].response].key = k
                  /\ req[ledger[k].response].hash = ledger[k].hash)'
      <4>1. /\ req'[r].phase = "finished" /\ req'[r].key = k
            /\ req'[r].hash = ledger[k].hash
        BY <3>3 DEF Complete, Completable, TypeOK, Request
      <4> QED BY <3>3, <4>1
    <3>4. CASE ledger'[k] = ledger[k]
      <4> DEFINE o == ledger[k].response
      <4>1. /\ o \in Requests /\ req[o].phase = "finished" /\ req[o].key = k
            /\ req[o].hash = ledger[k].hash
        BY <3>4 DEF RowAnswered
      <4>2. /\ req'[o].phase = "finished" /\ req'[o].key = k
            /\ req'[o].hash = ledger[k].hash
        BY <4>1, ClaimantsKept DEF Claimant
      <4> QED BY <3>4, <4>1, <4>2
    <3> QED BY <3>1, <3>2, <3>3, <3>4, RowSteps
  <2>5. WindowsDisjoint'
    <3> SUFFICES ASSUME NEW r \in Requests, NEW s \in Requests, r # s,
                        Claimant(r)', Claimant(s)', req'[r].key = req'[s].key
                 PROVE  \/ req'[r].claimed >= req'[s].expires
                        \/ req'[s].claimed >= req'[r].expires
      BY DEF WindowsDisjoint
    <3>1. CASE Claimant(r) /\ Claimant(s)
      BY <3>1, ClaimantsKept DEF WindowsDisjoint
    \* The new claimant found the key free, so the older window has closed.
    <3>2. ASSUME NEW x \in Requests, NEW y \in Requests, ~Claimant(x), Claimant(x)',
                 Claimant(y), x # y, req'[x].key = req'[y].key
          PROVE  req'[x].claimed >= req'[y].expires
      <4>1. PICK k \in Keys, h \in Fingerprints : ClaimExecute(x, k, h)
        BY <3>2, NewClaimant
      <4>2. /\ req'[x].key = k /\ req'[x].claimed = now /\ Free(k)
        BY <4>1 DEF ClaimExecute, TypeOK
      <4>3. /\ req[y].key = k /\ req'[y].expires = req[y].expires
            /\ req[y].expires \in Nat
        BY <3>2, <4>2, ClaimantsKept DEF TypeOK, Request
      <4>4. req[y].expires <= now
        <5> SUFFICES ASSUME req[y].expires > now PROVE FALSE
          BY <4>3 DEF TypeOK
        <5> QED BY <3>2, <4>2, <4>3 DEF LiveClaimHeld, RowOwned, Free, TypeOK
      <4> QED BY <4>2, <4>3, <4>4 DEF TypeOK
    <3>3. CASE ~Claimant(r) /\ ~Claimant(s)
      BY <3>3, NewClaimant DEF ClaimExecute, TypeOK, Claimant
    <3> QED BY <3>1, <3>2, <3>3
  <2>6. ReplayFaithful'
    <3> SUFFICES ASSUME NEW r \in Requests, req'[r].phase = "replayed"
                 PROVE  (/\ req[r].response \in Requests
                         /\ req[req[r].response].phase = "finished"
                         /\ req[req[r].response].key = req[r].key
                         /\ req[req[r].response].hash = req[r].hash)'
      BY DEF ReplayFaithful
    <3>1. CASE req[r].phase = "replayed"
      <4> DEFINE e == req[r].response
      <4>1. /\ e \in Requests /\ req[e].phase = "finished"
            /\ req[e].key = req[r].key /\ req[e].hash = req[r].hash
        BY <3>1 DEF ReplayFaithful
      <4>2. req'[r] = req[r] /\ req'[e] = req[e]
        BY <3>1, <4>1, AnswersKept
      <4> QED BY <4>1, <4>2
    <3>2. CASE req[r].phase # "replayed"
      <4>1. PICK k \in Keys, h \in Fingerprints : ClaimReplay(r, k, h)
        BY <3>2, AnswersKept
      <4> DEFINE e == ledger[k].response
      <4>2. /\ e \in Requests /\ req[e].phase = "finished"
            /\ req[e].key = k /\ req[e].hash = h
        BY <4>1 DEF ClaimReplay, Matches, RowAnswered
      <4>3. req'[e] = req[e]
        BY <4>2, AnswersKept
      <4>4. req'[r].response = e /\ req'[r].key = k /\ req'[r].hash = h
        BY <4>1 DEF ClaimReplay, Answer, TypeOK
      <4> QED BY <4>2, <4>3, <4>4
    <3> QED BY <3>1, <3>2
  <2> QED BY <2>1, <2>2, <2>3, <2>4, <2>5, <2>6
<1> QED BY <1>1, <1>2, TypeCorrect, PTL DEF Spec

\* Per key and TTL at most one handler is told to execute: the windows of two
\* claimants of one key never overlap (claim_idempotency).
THEOREM OneExecutionPerWindow == Spec => []WindowsDisjoint
BY Invariance, PTL DEF IInv

\* A replay returns the response of a finished execution of the same request
\* (claim_idempotency's "replay" disposition and complete_idempotency).
THEOREM ReplaysAreFaithful == Spec => []ReplayFaithful
BY Invariance, PTL DEF IInv

\* A stored response changes under a live key only when a handler ran longer
\* than its claim (complete_idempotency compares fingerprints, not claims).
THEOREM OverwritesAreOutlived == Spec => OverwriteOnlyByOutlived
<1>1. IInv /\ [Next]_vars =>
        [\A k \in Keys :
           /\ ledger[k].state = "completed" /\ ledger[k].expires > now
           /\ ledger'[k].response # ledger[k].response
           => \E r \in Requests :
                /\ r \in {ledger[k].response, ledger'[k].response}
                /\ req[r].key = k
                /\ req[r].expires <= now]_vars
  <2> SUFFICES ASSUME IInv, [Next]_vars, NEW k \in Keys,
                      ledger[k].state = "completed", ledger[k].expires > now,
                      ledger'[k].response # ledger[k].response
               PROVE  \E r \in Requests :
                        /\ r \in {ledger[k].response, ledger'[k].response}
                        /\ req[r].key = k
                        /\ req[r].expires <= now
    OBVIOUS
  <2> USE DEF IInv
  <2>1. ~Free(k) /\ ~(ledger[k].expires <= now)
    BY DEF Free, TypeOK, Row
  <2>2. ~ \E r \in Requests, h \in Fingerprints : ClaimExecute(r, k, h)
    BY <2>1 DEF ClaimExecute
  <2>3. PICK r \in Requests : Complete(r) /\ req[r].key = k /\ ledger'[k].response = r
    <3>1. ledger'[k] # ledger[k]
      OBVIOUS
    <3>2. \E r \in Requests :
            /\ Complete(r) /\ req[r].key = k
            /\ ledger'[k] = [state |-> "completed", hash |-> ledger[k].hash,
                             response |-> r, expires |-> ledger[k].expires,
                             owner |-> ledger[k].owner]
      BY <2>1, <2>2, <3>1, RowSteps
    <3> QED BY <3>2
  <2> DEFINE s == ledger[k].response
  <2>4. s \in Requests /\ Claimant(s) /\ req[s].key = k
    BY DEF RowAnswered, Claimant
  <2>5. Claimant(r)
    BY <2>3 DEF Complete, Claimant
  <2>6. ~(req[r].expires > now /\ req[s].expires > now)
    BY <2>3, <2>4, <2>5 DEF LiveClaimHeld
  <2> QED BY <2>3, <2>4, <2>6 DEF TypeOK, Request
<1> QED BY <1>1, Invariance, PTL DEF Spec, OverwriteOnlyByOutlived

-----------------------------------------------------------------------------
\* The handler whose claim wrote an in-progress row has not stored a response:
\* it is running, or it failed and kept the key.
RowUnfinished ==
  \A k \in Keys : ledger[k].state = "in_progress" =>
    req[ledger[k].owner].phase \in {"executing", "acted", "failed"}

\* The owner of a row can always complete it, so completing never leaves the row
\* in progress (complete_idempotency finds the row by key and fingerprint).
THEOREM InProgressRowsAreUnfinished == Spec => []RowUnfinished
<1>1. Init => RowUnfinished
  BY DEF Init, NoRow, RowUnfinished
<1>2. IInv /\ RowUnfinished /\ [Next]_vars => RowUnfinished'
  <2> SUFFICES ASSUME IInv, RowUnfinished, [Next]_vars,
                      NEW k \in Keys, ledger'[k].state = "in_progress"
               PROVE  (req[ledger[k].owner].phase \in {"executing", "acted", "failed"})'
    BY DEF RowUnfinished
  <2> USE DEF IInv
  <2>1. ASSUME NEW r \in Requests, NEW h \in Fingerprints, ClaimExecute(r, k, h)
        PROVE  req'[ledger'[k].owner].phase \in {"executing", "acted", "failed"}
    BY <2>1 DEF ClaimExecute, Claimed, TypeOK
  <2>2. CASE ledger'[k] = ledger[k]
    <3> DEFINE o == ledger[k].owner
    <3>1. /\ o \in Requests /\ req[o].key = k /\ req[o].hash = ledger[k].hash
          /\ req[o].phase \in {"executing", "acted", "failed"}
      BY <2>2 DEF RowOwned, RowUnfinished
    <3>2. req'[o].phase \in {"executing", "acted", "failed"}
      <4> USE DEF TypeOK, Request
      <4>1. ASSUME NEW r \in Requests, NEW j \in Keys, NEW h \in Fingerprints,
                   ClaimExecute(r, j, h) \/ ClaimRefuse(r, j, h) \/ ClaimReplay(r, j, h)
            PROVE  req'[o] = req[o]
        BY <3>1, <4>1 DEF ClaimExecute, ClaimRefuse, ClaimReplay, Answer
      <4>2. ASSUME NEW r \in Requests, NEW h \in Fingerprints, ClaimWithoutKey(r, h)
            PROVE  req'[o] = req[o]
        BY <3>1, <4>2 DEF ClaimWithoutKey, Answer
      <4>3. ASSUME NEW r \in Requests, Act(r) \/ Fail(r)
            PROVE  req'[o].phase \in {"executing", "acted", "failed"}
        BY <3>1, <4>3 DEF Act, Fail
      <4>4. ASSUME NEW r \in Requests, CompleteWithoutKey(r)
            PROVE  req'[o] = req[o]
        BY <3>1, <4>4, NoneIsFresh DEF CompleteWithoutKey
      <4>5. ASSUME NEW r \in Requests, CompleteLost(r)
            PROVE  req'[o] = req[o]
        BY <2>2, <3>1, <4>5 DEF CompleteLost, Completable
      <4>6. ASSUME NEW r \in Requests, Complete(r)
            PROVE  req'[o] = req[o]
        BY <2>2, <3>1, <4>6 DEF Complete
      <4>7. CASE (\E before \in 0 .. now : PurgeExpired(before)) \/ Tick \/ UNCHANGED vars
        BY <3>1, <4>7 DEF PurgeExpired, Tick, vars
      <4> QED BY <3>1, <4>1, <4>2, <4>3, <4>4, <4>5, <4>6, <4>7 DEF Next
    <3> QED BY <2>2, <3>2
  <2>3. ledger'[k] # NoRow
    BY DEF NoRow
  <2>4. ASSUME NEW r \in Requests
        PROVE  ledger'[k] # [state |-> "completed", hash |-> ledger[k].hash,
                             response |-> r, expires |-> ledger[k].expires,
                             owner |-> ledger[k].owner]
    OBVIOUS
  <2> QED BY <2>1, <2>2, <2>3, <2>4, RowSteps
<1> QED BY <1>1, <1>2, Invariance, PTL DEF Spec

\* HTTP 409 "still in progress" is answered only on account of a claim less than
\* a TTL old whose handler has not stored a response (claim_mutation).
THEOREM RefusalsAreHonest == Spec => InProgressMeansUnfinished
<1>1. IInv /\ RowUnfinished /\ [Next]_vars =>
        [\A r \in Requests :
           req[r].phase = "new" /\ req'[r].phase = "in_progress"
           => \E s \in Requests : /\ req[s].key = req'[r].key
                                  /\ req[s].hash = req'[r].hash
                                  /\ req[s].phase \in {"executing", "acted", "failed"}
                                  /\ now < req[s].claimed + Ttl]_vars
  <2> SUFFICES ASSUME IInv, RowUnfinished, [Next]_vars, NEW r \in Requests,
                      req[r].phase = "new", req'[r].phase = "in_progress"
               PROVE  \E s \in Requests :
                        /\ req[s].key = req'[r].key
                        /\ req[s].hash = req'[r].hash
                        /\ req[s].phase \in {"executing", "acted", "failed"}
                        /\ now < req[s].claimed + Ttl
    OBVIOUS
  <2> USE TtlPositive DEF IInv, TypeOK, Request
  <2>1. PICK k \in Keys, h \in Fingerprints :
          /\ ~Free(k) /\ Matches(k, h) /\ ledger[k].state = "in_progress"
          /\ req'[r].key = k /\ req'[r].hash = h
    <3>1. ASSUME NEW x \in Requests, NEW k \in Keys, NEW h \in Fingerprints,
                 ClaimRefuse(x, k, h)
          PROVE  /\ ~Free(k) /\ Matches(k, h) /\ ledger[k].state = "in_progress"
                 /\ req'[r].key = k /\ req'[r].hash = h
      BY <3>1 DEF ClaimRefuse, Answer
    <3>2. ASSUME NEW x \in Requests, NEW k \in Keys, NEW h \in Fingerprints,
                 ClaimExecute(x, k, h) \/ ClaimReplay(x, k, h)
          PROVE  FALSE
      BY <3>2 DEF ClaimExecute, ClaimReplay, Answer
    <3>3. ASSUME NEW x \in Requests, NEW h \in Fingerprints, ClaimWithoutKey(x, h)
          PROVE  FALSE
      BY <3>3, RequireKeyBoolean DEF ClaimWithoutKey, Answer
    <3>4. ASSUME NEW x \in Requests, Act(x) \/ Fail(x) \/ Complete(x)
                                     \/ CompleteLost(x) \/ CompleteWithoutKey(x)
          PROVE  FALSE
      BY <3>4 DEF Act, Fail, Complete, CompleteLost, CompleteWithoutKey
    <3>5. CASE (\E before \in 0 .. now : PurgeExpired(before)) \/ Tick \/ UNCHANGED vars
      BY <3>5 DEF PurgeExpired, Tick, vars
    <3> QED BY <3>1, <3>2, <3>3, <3>4, <3>5 DEF Next
  <2> DEFINE o == ledger[k].owner
  <2>2. /\ o \in Requests /\ Claimant(o) /\ req[o].key = k /\ req[o].hash = h
        /\ req[o].expires = ledger[k].expires
        /\ req[o].phase \in {"executing", "acted", "failed"}
    BY <2>1 DEF RowOwned, RowUnfinished, Matches
  <2>3. now < req[o].claimed + Ttl
    BY <2>1, <2>2 DEF Free, Row, WindowShape
  <2> QED BY <2>1, <2>2, <2>3
<1> QED
  BY <1>1, Invariance, InProgressRowsAreUnfinished, PTL
  DEF Spec, InProgressMeansUnfinished
=============================================================================
