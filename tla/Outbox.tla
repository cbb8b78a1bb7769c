------------------------------- MODULE Outbox -------------------------------
(***************************************************************************)
(* The leased outbox that delivers notifications and approved actions.     *)
(*                                                                         *)
(* Both queues run one protocol (apps/api/notifications.py and             *)
(* apps/api/actions.py over claim_due_* and complete_* of the              *)
(* repositories): a worker leases every due row in one transaction, then   *)
(* takes its private copies one by one, checks the tenant's controls,      *)
(* calls the sender, and commits the outcome in a transaction fenced by    *)
(* the claim id of its lease.  Between any two of these steps other        *)
(* workers, the clock, acknowledgements, erasure and control changes       *)
(* interleave.  The approved-action queue is the instance without Ackers.  *)
(*                                                                         *)
(* Instants are kept as the time left until them: lease is the time until  *)
(* dispatch_claim_expires_at, wait the time until next_attempt_at, both 0  *)
(* once reached.  Claim ids are unique per row while any worker remembers  *)
(* them, which is all that uuid4 is used for.                              *)
(***************************************************************************)
EXTENDS Integers, Sequences, FiniteSets

CONSTANTS
  Records,      \* notification or action identifiers
  Workers,      \* invocations of a dispatch job or endpoint
  Ackers,       \* invocations of acknowledge_notification
  Tenants,
  TenantOf,     \* the tenant of each record
  ClaimIds,
  NoClaim,
  NoRecord,
  MaxAttempts,  \* max_attempts (5 in the code)
  LeaseTtl,     \* claim_ttl (5 minutes in the code)
  MaxBackoff,   \* cap of retry_at (60 minutes in the code)
  ScanLimit,    \* limit of the claiming SELECT (100 in the code)
  Casts         \* the records and workers that may take part in a behaviour;
                \* other records are erased already, other workers away

ASSUME BoundsPositive ==
  /\ MaxAttempts \in Nat \ {0} /\ LeaseTtl \in Nat \ {0}
  /\ MaxBackoff \in Nat \ {0} /\ ScanLimit \in Nat \ {0}
ASSUME CastsTyped == Casts \subseteq SUBSET (Records \cup Workers)
ASSUME TenantsTyped == TenantOf \in [Records -> Tenants]
ASSUME SentinelsFresh == NoClaim \notin ClaimIds /\ NoRecord \notin Records

VARIABLES
  rec,      \* the outbox table
  log,      \* the attempt table, in commit order
  copy,     \* each worker's leased copies
  phase,    \* what each worker does with its current item
  item,     \* the item a worker works on
  gated,    \* TRUE: internal job, checks the controls per item
  retry,    \* time left until the retry instant the worker computed
  hit,      \* whether the worker's current send took effect
  ack,      \* the record each acknowledgement has read as delivered
  enabled,  \* channel control and tenant automation, per tenant
  sent,     \* records of which some send took effect
  erased    \* records that privacy or retention deleted

vars == <<rec, log, copy, phase, item, gated, retry, hit, ack, enabled, sent,
          erased>>

Due == {"queued", "retry_scheduled"}
Final == {"delivered", "failed", "acknowledged"}
Statuses == {"absent"} \cup Due \cup Final

Rec == [status : Statuses, attempts : Nat, wait : Nat,
        claim : ClaimIds \cup {NoClaim}, lease : Nat]

NoRec == [status |-> "absent", attempts |-> 0, wait |-> 0,
          claim |-> NoClaim, lease |-> 0]

Outcomes == {"delivered", "failed", "retry_scheduled"}

Attempt == [number : Nat, outcome : Outcomes]

TypeOK ==
  /\ rec \in [Records -> Rec]
  /\ log \in [Records -> Seq(Attempt)]
  /\ copy \in [Workers -> [Records -> Rec]]
  /\ phase \in [Workers -> {"away", "idle", "checked", "sending"}]
  /\ item \in [Workers -> Records \cup {NoRecord}]
  /\ gated \in [Workers -> BOOLEAN]
  /\ retry \in [Workers -> Nat]
  /\ hit \in [Workers -> BOOLEAN]
  /\ ack \in [Ackers -> [record : Records \cup {NoRecord}, seen : Rec]]
  /\ enabled \in [Tenants -> BOOLEAN]
  /\ sent \in SUBSET Records
  /\ erased \in SUBSET Records

NoAck == [record |-> NoRecord, seen |-> NoRec]

Init ==
  /\ rec = [r \in Records |-> NoRec]
  /\ log = [r \in Records |-> <<>>]
  /\ copy = [w \in Workers |-> [r \in Records |-> NoRec]]
  /\ item = [w \in Workers |-> NoRecord]
  /\ gated = [w \in Workers |-> FALSE]
  /\ retry = [w \in Workers |-> 0]
  /\ hit = [w \in Workers |-> FALSE]
  /\ ack = [a \in Ackers |-> NoAck]
  /\ enabled = [t \in Tenants |-> TRUE]
  /\ sent = {}
  /\ \E cast \in Casts :
       /\ phase = [w \in Workers |-> IF w \in cast THEN "idle" ELSE "away"]
       /\ erased = Records \ cast

-----------------------------------------------------------------------------
(***************************************************************************)
(* Queueing.                                                               *)
(***************************************************************************)

\* queue_notification or decide_incident inserts a fresh record, due at once.
Enqueue(r) ==
  /\ rec[r].status = "absent" /\ r \notin erased
  /\ rec' = [rec EXCEPT ![r] = [NoRec EXCEPT !.status = "queued"]]
  /\ UNCHANGED <<log, copy, phase, item, gated, retry, hit, ack, enabled,
                 sent, erased>>

-----------------------------------------------------------------------------
(***************************************************************************)
(* Claiming.  The SELECT reads up to ScanLimit rows by status alone, in no *)
(* particular order; due time and lease are tested on the rows it returns. *)
(***************************************************************************)
MinOf(m, n) == IF m <= n THEN m ELSE n

Scan(P) == {S \in SUBSET P : Cardinality(S) = MinOf(ScanLimit, Cardinality(P))}

Pending(T) == {r \in Records : rec[r].status \in Due /\ TenantOf[r] \in T}

ClaimableLeased(r) == rec[r].wait = 0

ClaimableNeverLeased(r) == rec[r].wait = 0 /\ rec[r].claim = NoClaim

Claimable(r) == rec[r].wait = 0 /\ rec[r].lease = 0

Batch(w) == {r \in Records : copy[w][r].status # "absent"}

FreshIds(r) == {c \in ClaimIds : \A w \in Workers : copy[w][r].claim # c}

Leased(r) ==
  [status |-> rec[r].status, attempts |-> rec[r].attempts,
   wait |-> rec[r].wait, claim |-> CHOOSE c \in FreshIds(r) : TRUE,
   lease |-> LeaseTtl]

Claim(w, S) ==
  LET claimed == {r \in S : Claimable(r)}
  IN /\ phase[w] = "idle" /\ Batch(w) = {}
     /\ claimed # {}
     /\ \A r \in claimed : FreshIds(r) # {}
     /\ rec' = [r \in Records |-> IF r \in claimed THEN Leased(r) ELSE rec[r]]
     /\ copy' = [copy EXCEPT ![w] =
                   [r \in Records |-> IF r \in claimed THEN Leased(r) ELSE NoRec]]
     /\ UNCHANGED <<log, phase, item, retry, hit, ack, enabled, sent, erased>>

\* The internal jobs claim for every tenant.
ClaimDue(w) ==
  \E S \in Scan(Pending(Tenants)) :
    /\ Claim(w, S)
    /\ gated' = [gated EXCEPT ![w] = TRUE]

\* dispatch_notifications checks the tenant's controls before it claims.
ClaimDueForTenant(w, t) ==
  /\ enabled[t]
  /\ \E S \in Scan(Pending({t})) :
       /\ Claim(w, S)
       /\ gated' = [gated EXCEPT ![w] = FALSE]

-----------------------------------------------------------------------------
(***************************************************************************)
(* Working through the batch, in any order.                                *)
(***************************************************************************)
Drop(w, r) == copy' = [copy EXCEPT ![w] = [@ EXCEPT ![r] = NoRec]]

\* The loop reaches r and its controls allow it.
Select(w, r) ==
  /\ phase[w] = "idle" /\ r \in Batch(w)
  /\ gated[w] => enabled[TenantOf[r]]
  /\ phase' = [phase EXCEPT ![w] = "checked"]
  /\ item' = [item EXCEPT ![w] = r]
  /\ UNCHANGED <<rec, log, copy, gated, retry, hit, ack, enabled, sent, erased>>

\* The controls forbid it: continue, the lease stays until it lapses.
Skip(w, r) ==
  /\ phase[w] = "idle" /\ r \in Batch(w)
  /\ gated[w] /\ ~enabled[TenantOf[r]]
  /\ Drop(w, r)
  /\ UNCHANGED <<rec, log, phase, item, gated, retry, hit, ack, enabled, sent,
                 erased>>

LeaseLive(w) == copy[w][item[w]].lease > 0

\* The lease ran out while the worker was busy: return without sending.
Lapse(w) ==
  /\ phase[w] = "checked"
  /\ ~LeaseLive(w)
  /\ Drop(w, item[w])
  /\ phase' = [phase EXCEPT ![w] = "idle"]
  /\ item' = [item EXCEPT ![w] = NoRecord]
  /\ UNCHANGED <<rec, log, gated, retry, hit, ack, enabled, sent, erased>>

\* retry_at: exponential delay, capped.
Backoff(n) == MinOf(MaxBackoff, 2^(n - 1))

\* The provider call begins.  The send may take effect whatever the caller
\* learns of it; the retry instant is computed from the instant before it.
StartSend(w, effect) ==
  LET r == item[w]
  IN /\ phase[w] = "checked"
     /\ LeaseLive(w)
     /\ copy[w][r].wait = 0
     /\ phase' = [phase EXCEPT ![w] = "sending"]
     /\ retry' = [retry EXCEPT ![w] = Backoff(copy[w][r].attempts + 1)]
     /\ hit' = [hit EXCEPT ![w] = effect]
     /\ sent' = IF effect THEN sent \cup {r} ELSE sent
     /\ UNCHANGED <<rec, log, copy, item, gated, ack, enabled, erased>>

OutcomeOneMore(n, ok) ==
  IF ok THEN "delivered" ELSE IF n > MaxAttempts THEN "failed"
                              ELSE "retry_scheduled"

OutcomeOptimistic(n, ok) ==
  IF ok \/ n >= MaxAttempts THEN "delivered" ELSE "retry_scheduled"

OutcomeOf(n, ok) ==
  IF ok THEN "delivered" ELSE IF n >= MaxAttempts THEN "failed"
                              ELSE "retry_scheduled"

HoldsAlways(w) == rec[item[w]].status # "absent"

HoldsByCopy(w) == copy[w][item[w]].claim # NoClaim

\* complete_*: the row is still leased under this worker's claim id.
Holds(w) == LET r == item[w]
            IN rec[r].status # "absent" /\ rec[r].claim = copy[w][r].claim

\* The sender returned (an exception counts as a failure) and the outcome is
\* committed with its attempt row, or discarded when the lease was lost.
Complete(w, ok) ==
  LET r == item[w]
      n == copy[w][r].attempts + 1
      outcome == OutcomeOf(n, ok)
  IN /\ phase[w] = "sending"
     /\ ok => hit[w]
     /\ IF Holds(w)
        THEN /\ rec' = [rec EXCEPT ![r] =
                  [status |-> outcome, attempts |-> n,
                   wait |-> IF outcome = "retry_scheduled"
                            THEN retry[w] ELSE copy[w][r].wait,
                   claim |-> NoClaim, lease |-> 0]]
             /\ log' = [log EXCEPT ![r] =
                  Append(@, [number |-> n, outcome |-> outcome])]
        ELSE UNCHANGED <<rec, log>>
     /\ Drop(w, r)
     /\ phase' = [phase EXCEPT ![w] = "idle"]
     /\ item' = [item EXCEPT ![w] = NoRecord]
     /\ retry' = [retry EXCEPT ![w] = 0]
     /\ hit' = [hit EXCEPT ![w] = FALSE]
     /\ UNCHANGED <<gated, ack, enabled, sent, erased>>

\* The process is lost, or an exception (emit_event, the database) leaves the
\* loop: the copies are forgotten, their leases stay in the table.
Crash(w) ==
  /\ Batch(w) # {}
  /\ copy' = [copy EXCEPT ![w] = [r \in Records |-> NoRec]]
  /\ phase' = [phase EXCEPT ![w] = "idle"]
  /\ item' = [item EXCEPT ![w] = NoRecord]
  /\ retry' = [retry EXCEPT ![w] = 0]
  /\ hit' = [hit EXCEPT ![w] = FALSE]
  /\ UNCHANGED <<rec, log, gated, ack, enabled, sent, erased>>

-----------------------------------------------------------------------------
(***************************************************************************)
(* Acknowledgement, erasure, controls, time.                               *)
(***************************************************************************)

\* acknowledge_notification reads the row, later upserts the whole of it.
AckRead(a, r) ==
  /\ ack[a] = NoAck
  /\ rec[r].status = "delivered"
  /\ ack' = [ack EXCEPT ![a] = [record |-> r, seen |-> rec[r]]]
  /\ UNCHANGED <<rec, log, copy, phase, item, gated, retry, hit, enabled,
                 sent, erased>>

AckSave(a) ==
  /\ ack[a].record \in Records
  /\ rec' = [rec EXCEPT ![ack[a].record] =
               [ack[a].seen EXCEPT !.status = "acknowledged"]]
  /\ ack' = [ack EXCEPT ![a] = NoAck]
  /\ UNCHANGED <<log, copy, phase, item, gated, retry, hit, enabled, sent, erased>>

\* erase_traveler_data and purge_expired delete the row and its attempts.
Erase(r) ==
  /\ rec[r].status # "absent"
  /\ rec' = [rec EXCEPT ![r] = NoRec]
  /\ log' = [log EXCEPT ![r] = <<>>]
  /\ erased' = erased \cup {r}
  /\ UNCHANGED <<copy, phase, item, gated, retry, hit, ack, enabled, sent>>

SetControl(t) ==
  /\ enabled' = [enabled EXCEPT ![t] = ~@]
  /\ UNCHANGED <<rec, log, copy, phase, item, gated, retry, hit, ack, sent, erased>>

Less(n) == IF n = 0 THEN 0 ELSE n - 1

Aged(x) == [status |-> x.status, attempts |-> x.attempts, wait |-> Less(x.wait),
            claim |-> x.claim, lease |-> Less(x.lease)]

Tick ==
  /\ rec' = [r \in Records |-> Aged(rec[r])]
  /\ copy' = [w \in Workers |-> [r \in Records |-> Aged(copy[w][r])]]
  /\ retry' = [w \in Workers |-> Less(retry[w])]
  /\ UNCHANGED <<log, phase, item, gated, hit, ack, enabled, sent, erased>>

Work(w) ==
  \/ ClaimDue(w)
  \/ \E t \in Tenants : ClaimDueForTenant(w, t)
  \/ \E r \in Records : Select(w, r) \/ Skip(w, r)
  \/ Lapse(w)
  \/ \E b \in BOOLEAN : StartSend(w, b) \/ Complete(w, b)
  \/ Crash(w)

Next ==
  \/ \E r \in Records : Enqueue(r) \/ Erase(r)
  \/ \E w \in Workers : Work(w)
  \/ \E a \in Ackers : AckSave(a) \/ \E r \in Records : AckRead(a, r)
  \/ \E t \in Tenants : SetControl(t)
  \/ Tick

Spec == Init /\ [][Next]_vars

-----------------------------------------------------------------------------
(***************************************************************************)
(* Safety.                                                                 *)
(***************************************************************************)

\* The attempt table is the history of the row: numbered 1, 2, ... without
\* gap or repetition, every attempt but the last a scheduled retry, the last
\* one what the status says, and never more than MaxAttempts of them, however
\* many workers raced for the row.
AttemptHistory ==
  /\ TypeOK
  /\ \A r \in Records \ erased :
       LET n == Len(log[r])
       IN /\ rec[r].attempts = n /\ n <= MaxAttempts
          /\ \A i \in 1 .. n : /\ log[r][i].number = i
                               /\ i < n => log[r][i].outcome = "retry_scheduled"
          /\ rec[r].status \in {"absent", "queued"} <=> n = 0
          /\ n > 0 => log[r][n].outcome = IF rec[r].status = "acknowledged"
                                          THEN "delivered" ELSE rec[r].status
          /\ n = MaxAttempts => rec[r].status \in Final

\* Of two workers that are sending the same record at most one still holds an
\* unexpired lease; and as long as the record is not erased the row agrees: a
\* worker whose lease is unexpired would pass the fence of complete_*.
OneLiveSender ==
  /\ \A v, w \in Workers :
       /\ v # w /\ phase[v] = "sending" /\ phase[w] = "sending"
       /\ item[v] = item[w]
       => ~(LeaseLive(v) /\ LeaseLive(w))
  /\ \A w \in Workers :
       phase[w] = "sending" /\ LeaseLive(w) /\ item[w] \notin erased => Holds(w)

\* A notification counts as delivered only if a send of it took effect.
NoPhantomDelivery ==
  \A r \in Records : rec[r].status \in {"delivered", "acknowledged"} => r \in sent

\* What purge_expired calls "intentionally irreversible": a record erased while
\* workers hold copies of it is never due again, so that nothing is sent of it
\* but what was under way.  (A late acknowledgement may bring the row back as
\* acknowledged.)
ErasedNeverDue == \A r \in erased : rec[r].status \in {"absent", "acknowledged"}

-----------------------------------------------------------------------------
(***************************************************************************)
(* Refinement.  The abstract ledger sees a row's status and attempt count; *)
(* leases, copies and lost sends are invisible to it.                      *)
(***************************************************************************)
LedgerStatus == [r \in Records |-> IF r \in erased THEN "erased" ELSE rec[r].status]

LedgerAttempts == [r \in Records |-> IF r \in erased THEN 0 ELSE rec[r].attempts]

Ledger == INSTANCE OutboxLedger WITH status <- LedgerStatus,
                                     attempts <- LedgerAttempts

\* Whatever the workers, the clock and the callers do, every row goes through
\* its life as the ledger prescribes: one attempt at a time, none after the
\* record is final.
ImplementsLedger == Ledger!Spec

-----------------------------------------------------------------------------
(***************************************************************************)
(* Liveness, of the notification queue only: Cloud Scheduler keeps         *)
(* invoking its delivery job, a running job keeps going, time passes, and  *)
(* eventually jobs are punctual: they work off a batch before its lease    *)
(* runs out and do not crash.  Nothing invokes the dispatch endpoint of    *)
(* the action queue by itself, so WF(ClaimDue) and what follows from it    *)
(* are not claimed of that queue: an action stays queued until someone     *)
(* calls the endpoint.                                                     *)
(***************************************************************************)
NotificationFairness ==
  /\ WF_vars(Tick)
  /\ \A w \in Workers :
       /\ WF_vars(ClaimDue(w))
       /\ WF_vars(Lapse(w))
       /\ WF_vars(\E b \in BOOLEAN : StartSend(w, b))
       /\ WF_vars(\E b \in BOOLEAN : Complete(w, b))
       /\ WF_vars(\E r \in Records : Select(w, r) \/ Skip(w, r))

OnTime ==
  /\ \A w \in Workers : ~Crash(w)
  /\ Tick => \A w \in Workers, r \in Records : copy[w][r].lease # 1

NotificationSpec == Spec /\ NotificationFairness /\ <>[][OnTime]_vars

\* Once the tenants' controls stay on, no notification stays due for ever:
\* leases left behind by crashed workers are taken over and the retries end.
NotificationsSettle ==
  <>[](\A t \in Tenants : enabled[t]) =>
    \A r \in Records : rec[r].status \in Due ~> rec[r].status \notin Due
=============================================================================
