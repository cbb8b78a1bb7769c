---------------------------- MODULE OutboxLedger ----------------------------
(***************************************************************************)
(* What the outbox promises, without workers, leases or clocks: a queued   *)
(* record is attempted one attempt at a time until an attempt succeeds or  *)
(* the last allowed one fails; it may then be acknowledged; erasure ends   *)
(* its life at any point.  Outbox implements this specification.           *)
(***************************************************************************)
EXTENDS Integers

CONSTANTS Records, MaxAttempts

VARIABLES status, attempts

vars == <<status, attempts>>

Init ==
  /\ status \in [Records -> {"absent", "erased"}]
  /\ attempts = [r \in Records |-> 0]

Enqueue(r) ==
  /\ status[r] = "absent"
  /\ status' = [status EXCEPT ![r] = "queued"]
  /\ UNCHANGED attempts

Attempt(r) ==
  /\ status[r] \in {"queued", "retry_scheduled"}
  /\ attempts' = [attempts EXCEPT ![r] = @ + 1]
  /\ \/ status' = [status EXCEPT ![r] = "delivered"]
     \/ status' = [status EXCEPT ![r] = IF attempts[r] + 1 < MaxAttempts
                                        THEN "retry_scheduled" ELSE "failed"]

Acknowledge(r) ==
  /\ status[r] = "delivered"
  /\ status' = [status EXCEPT ![r] = "acknowledged"]
  /\ UNCHANGED attempts

Erase(r) ==
  /\ status[r] \notin {"absent", "erased"}
  /\ status' = [status EXCEPT ![r] = "erased"]
  /\ attempts' = [attempts EXCEPT ![r] = 0]

Next == \E r \in Records : Enqueue(r) \/ Attempt(r) \/ Acknowledge(r) \/ Erase(r)

Spec == Init /\ [][Next]_vars
=============================================================================
