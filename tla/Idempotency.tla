---------------------------- MODULE Idempotency ----------------------------
(***************************************************************************)
(* Durable idempotency keys of the RouteShield API.                        *)
(*                                                                         *)
(* A mutating handler first claims (tenant, Idempotency-Key) in one        *)
(* transaction, then performs its domain writes, then stores its response  *)
(* in the same row (claim_mutation and complete_mutation of                *)
(* apps/api/main.py over claim_idempotency and complete_idempotency of the *)
(* repositories).  The handlers that follow the protocol differ only in    *)
(* the writes, which are the single action Act here.  A fingerprint stands *)
(* for the hash of scope and payload; Keys are the keys of one tenant.  A  *)
(* response is named by the request whose execution produced it, since     *)
(* every execution makes fresh record identifiers.                         *)
(***************************************************************************)
EXTENDS Integers

CONSTANTS
  Requests,      \* deliveries of HTTP requests, the clients' retries included
  Keys,          \* Idempotency-Key values of one tenant
  Fingerprints,  \* request_fingerprint(scope, payload)
  None,          \* no key, no response, no fingerprint
  Ttl,           \* idempotency_ttl_seconds
  RequireKey,    \* REQUIRE_IDEMPOTENCY
  MaxTime        \* bound of the clock

ASSUME TtlPositive == Ttl \in Nat \ {0}
ASSUME BoundIsNatural == MaxTime \in Nat
ASSUME RequireKeyBoolean == RequireKey \in BOOLEAN
ASSUME NoneIsFresh == None \notin Requests \cup Keys \cup Fingerprints

VARIABLES
  now,     \* the clock that the API processes and the database share
  ledger,  \* idempotency_records: the row of each key
  req      \* what each request has done so far

vars == <<now, ledger, req>>

(***************************************************************************)
(* owner is history: the request whose claim wrote the row.  The code      *)
(* keeps no such field; complete_idempotency compares fingerprints only.   *)
(***************************************************************************)
Row == [state : {"absent", "in_progress", "completed"},
        hash : Fingerprints \cup {None}, response : Requests \cup {None},
        expires : Nat, owner : Requests \cup {None}]

Phases == {"new", "executing", "acted", "finished", "lost", "failed",
           "replayed", "conflict", "in_progress", "missing_key"}

\* claimed and expires are the instants between which the request's claim
\* protects its key.
Request == [phase : Phases, key : Keys \cup {None},
            hash : Fingerprints \cup {None}, claimed : Nat, expires : Nat,
            response : Requests \cup {None}]

TypeOK ==
  /\ now \in Nat
  /\ ledger \in [Keys -> Row]
  /\ req \in [Requests -> Request]

NoRow == [state |-> "absent", hash |-> None, response |-> None,
          expires |-> 0, owner |-> None]

Fresh == [phase |-> "new", key |-> None, hash |-> None, claimed |-> 0,
          expires |-> 0, response |-> None]

Init ==
  /\ now = 0
  /\ ledger = [k \in Keys |-> NoRow]
  /\ req = [r \in Requests |-> Fresh]

-----------------------------------------------------------------------------
(***************************************************************************)
(* The claim.  An expired row counts as no row: it is overwritten.         *)
(***************************************************************************)
FreeInProgress(k) == ledger[k].state # "completed" \/ ledger[k].expires <= now

FreeTooEarly(k) == ledger[k].state = "absent" \/ ledger[k].expires <= now + 1

FreeNeverAgain(k) == ledger[k].state = "absent"

Free(k) == ledger[k].state = "absent" \/ ledger[k].expires <= now

MatchesAnything(k, h) == TRUE

Matches(k, h) == ledger[k].hash = h

Claimed(h, r) ==
  [state |-> "in_progress", hash |-> h, response |-> None,
   expires |-> now + Ttl, owner |-> r]

\* Disposition "execute": the row is inserted, or replaces an expired one.
ClaimExecute(r, k, h) ==
  /\ req[r].phase = "new"
  /\ Free(k)
  /\ ledger' = [ledger EXCEPT ![k] = Claimed(h, r)]
  /\ req' = [req EXCEPT ![r] =
               [phase |-> "executing", key |-> k, hash |-> h,
                claimed |-> now, expires |-> now + Ttl, response |-> None]]
  /\ UNCHANGED now

\* r's new record, for every outcome that does not open a window.
Answer(r, outcome, k, h, response) ==
  req' = [req EXCEPT ![r] = [phase |-> outcome, key |-> k, hash |-> h,
                             claimed |-> 0, expires |-> 0,
                             response |-> response]]

\* Dispositions "conflict" and "in_progress": HTTP 409, nothing is written.
ClaimRefuse(r, k, h) ==
  /\ req[r].phase = "new"
  /\ ~Free(k)
  /\ \/ /\ ~Matches(k, h)
        /\ Answer(r, "conflict", k, h, None)
     \/ /\ Matches(k, h)
        /\ ledger[k].state = "in_progress"
        /\ Answer(r, "in_progress", k, h, None)
  /\ UNCHANGED <<now, ledger>>

\* Disposition "replay": the stored response is returned.
ClaimReplay(r, k, h) ==
  /\ req[r].phase = "new"
  /\ ~Free(k)
  /\ Matches(k, h)
  /\ ledger[k].state = "completed"
  /\ Answer(r, "replayed", k, h, ledger[k].response)
  /\ UNCHANGED <<now, ledger>>

\* claim_optional_mutation without a key: HTTP 400 when keys are required,
\* otherwise the handler runs unprotected.
ClaimWithoutKey(r, h) ==
  /\ req[r].phase = "new"
  /\ Answer(r, IF RequireKey THEN "missing_key" ELSE "executing", None, h, None)
  /\ UNCHANGED <<now, ledger>>

-----------------------------------------------------------------------------
(***************************************************************************)
(* The handler.                                                            *)
(***************************************************************************)

\* The domain writes between the claim and the completion.
Act(r) ==
  /\ req[r].phase = "executing"
  /\ req' = [req EXCEPT ![r].phase = "acted"]
  /\ UNCHANGED <<now, ledger>>

\* An HTTPException after the claim, an unhandled exception or the loss of
\* the process: no code path gives the claim back.
Fail(r) ==
  /\ req[r].phase \in {"executing", "acted"}
  /\ req' = [req EXCEPT ![r].phase = "failed"]
  /\ UNCHANGED <<now, ledger>>

\* complete_idempotency finds the row only by key and fingerprint.
Completable(r) ==
  LET row == ledger[req[r].key] IN row.state # "absent" /\ row.hash = req[r].hash

Complete(r) ==
  /\ req[r].phase = "acted"
  /\ req[r].key \in Keys
  /\ Completable(r)
  /\ ledger' = [ledger EXCEPT ![req[r].key] =
                  [state |-> "completed", hash |-> @.hash, response |-> r,
                   expires |-> @.expires, owner |-> @.owner]]
  /\ req' = [req EXCEPT ![r].phase = "finished"]
  /\ UNCHANGED now

\* KeyError: the row is gone or belongs to another fingerprint.  The writes
\* stay, the client gets HTTP 500.
CompleteLost(r) ==
  /\ req[r].phase = "acted"
  /\ req[r].key \in Keys
  /\ ~Completable(r)
  /\ req' = [req EXCEPT ![r].phase = "lost"]
  /\ UNCHANGED <<now, ledger>>

\* complete_optional_mutation without a key does nothing.
CompleteWithoutKey(r) ==
  /\ req[r].phase = "acted"
  /\ req[r].key = None
  /\ req' = [req EXCEPT ![r].phase = "finished"]
  /\ UNCHANGED <<now, ledger>>

-----------------------------------------------------------------------------
(***************************************************************************)
(* Retention and time.                                                     *)
(***************************************************************************)

\* purge_expired of the in-memory repository drops the rows that expired
\* before the cutoff, which lies retention_days in the past.
PurgeExpired(before) ==
  /\ ledger' = [k \in Keys |->
                  IF ledger[k].state # "absent" /\ ledger[k].expires < before
                  THEN NoRow ELSE ledger[k]]
  /\ ledger' # ledger
  /\ UNCHANGED <<now, req>>

Tick ==
  /\ now < MaxTime
  /\ now' = now + 1
  /\ UNCHANGED <<ledger, req>>

Next ==
  \/ \E r \in Requests, h \in Fingerprints :
       \/ \E k \in Keys : \/ ClaimExecute(r, k, h)
                          \/ ClaimRefuse(r, k, h)
                          \/ ClaimReplay(r, k, h)
       \/ ClaimWithoutKey(r, h)
  \/ \E r \in Requests : \/ Act(r) \/ Fail(r)
                         \/ Complete(r) \/ CompleteLost(r)
                         \/ CompleteWithoutKey(r)
  \/ \E before \in 0 .. now : PurgeExpired(before)
  \/ Tick

Spec == Init /\ [][Next]_vars

-----------------------------------------------------------------------------
(***************************************************************************)
(* Properties.                                                             *)
(***************************************************************************)

\* r was told to execute under a key.
Claimant(r) ==
  /\ req[r].phase \in {"executing", "acted", "finished", "lost", "failed"}
  /\ req[r].key \in Keys

\* Two requests that were both told to execute under one key hold it in
\* disjoint windows: the later one claimed after the earlier one's TTL, even
\* when the earlier one crashed, answered an error or is still running.  This
\* is what bounds the handlers to one set of domain writes per key and TTL.
WindowsDisjoint ==
  \A r, s \in Requests :
    r # s /\ Claimant(r) /\ Claimant(s) /\ req[r].key = req[s].key
      => req[r].claimed >= req[s].expires \/ req[s].claimed >= req[r].expires

\* A replayed response was produced by an execution of the same request: same
\* key, same fingerprint, and its domain writes were performed.
ReplayFaithful ==
  \A r \in Requests :
    req[r].phase = "replayed" =>
      /\ req[r].response \in Requests
      /\ LET e == req[req[r].response]
         IN e.phase = "finished" /\ e.key = req[r].key /\ e.hash = req[r].hash

\* The response stored under a live key changes only when one of the two
\* handlers involved, the one that stored it or the one that replaces it, ran
\* longer than its own claim: handlers that finish within their TTL never
\* change what an earlier replay returned ("stable replay handling" of
\* production-tasks.md).
OverwriteOnlyByOutlived ==
  [][\A k \in Keys :
       /\ ledger[k].state = "completed" /\ ledger[k].expires > now
       /\ ledger'[k].response # ledger[k].response
       => \E r \in Requests :
            /\ r \in {ledger[k].response, ledger'[k].response}
            /\ req[r].key = k
            /\ req[r].expires <= now]_vars

\* A request refused as "still in progress" is refused because of one claim less
\* than a TTL old whose handler has not stored a response, be it running or
\* dead: a lost handler blocks its key, and never for longer than the TTL.
InProgressMeansUnfinished ==
  [][\A r \in Requests :
       req[r].phase = "new" /\ req'[r].phase = "in_progress"
       => \E s \in Requests : /\ req[s].key = req'[r].key
                              /\ req[s].hash = req'[r].hash
                              /\ req[s].phase \in {"executing", "acted", "failed"}
                              /\ now < req[s].claimed + Ttl]_vars
=============================================================================
