------------------------------ MODULE Handlers ------------------------------
(***************************************************************************)
(* What the mutating handlers of apps/api/main.py have in common beyond    *)
(* the key protocol of Idempotency: a handler may answer before it claims  *)
(* its key (a switch that is off, a record that is missing), then claims   *)
(* it (claim_optional_mutation), then runs a chain of transactions between *)
(* which other requests run, then completes the key.                       *)
(*                                                                         *)
(* A fingerprint is a record with the kind of the request and the data its *)
(* hash covers.  What a request asks for is fixed when it arrives; it is   *)
(* hashed only by the claim.  A delivery may be lost: it asks for None.    *)
(***************************************************************************)
EXTENDS Idempotency

CONSTANT Workloads  \* bound: what the requests may ask for, together

ASSUME WorkloadsTyped == Workloads \subseteq [Requests -> Fingerprints \cup {None}]

\* The kinds of request that TravelerMemory, Playbooks and TripImport serve.
Kinds == {"update", "propose", "confirm", "erase", "publish", "import"}

ASSUME NoneIsNoKind == None \notin Kinds

VARIABLES
  want,  \* fingerprint of each request
  step   \* the transaction each request performs next

handlerVars == <<want, step>>

HandlersInit ==
  /\ Init
  /\ want \in Workloads
  /\ step = [r \in Requests |-> "start"]

Kind(r) == IF want[r] = None THEN None ELSE want[r].kind

Wants(r, kind) == Kind(r) = kind

GoTo(r, s) == step' = [step EXCEPT ![r] = s] /\ UNCHANGED want

\* r is at a transaction before its claim, or between claim and completion.
Before(r, s) == step[r] = s /\ req[r].phase = "new"

At(r, s) == step[r] = s /\ req[r].phase = "executing"

\* claim_optional_mutation; a handler that is told to execute goes on with s.
Claim(r, s) ==
  /\ Before(r, "claim")
  /\ \/ \E k \in Keys : ClaimExecute(r, k, want[r]) /\ GoTo(r, s)
     \/ \E k \in Keys : /\ ClaimRefuse(r, k, want[r]) \/ ClaimReplay(r, k, want[r])
                        /\ GoTo(r, "done")
     \/ ClaimWithoutKey(r, want[r]) /\ GoTo(r, IF RequireKey THEN "done" ELSE s)

\* A transaction that is not the last one.
Continue(r, s) == GoTo(r, s) /\ UNCHANGED vars

\* The last transaction before the completion.
Conclude(r) == Act(r) /\ GoTo(r, "done")

GiveUpReleasingKey(r) ==
  /\ req' = [req EXCEPT ![r].phase = "failed"]
  /\ ledger' = [k \in Keys |-> IF k = req[r].key THEN NoRow ELSE ledger[k]]
  /\ UNCHANGED now
  /\ GoTo(r, "done")

\* An error answer after the claim, or the loss of the process.  The key stays
\* claimed.
GiveUp(r) == Fail(r) /\ GoTo(r, "done")

\* complete_optional_mutation.
Finish(r) ==
  /\ step[r] = "done"
  /\ Complete(r) \/ CompleteLost(r) \/ CompleteWithoutKey(r)
  /\ UNCHANGED handlerVars

\* The execution whose answer r was given, if r was answered with success
\* after a claim.
Succeeded(r) == req[r].phase \in {"finished", "replayed"}

Executor(r) == IF req[r].phase = "replayed" THEN req[r].response ELSE r
=============================================================================
