------------------------------ MODULE MCOutbox ------------------------------
(***************************************************************************)
(* Instance of Outbox for TLC: two workers race for one record, or one     *)
(* worker goes through a batch of two.                                     *)
(***************************************************************************)
EXTENDS Outbox

CONSTANTS t1, r1, r2, w1, w2

\* Every record belongs to one tenant.
OneTenant == [r \in Records |-> t1]

MCCasts == {{r1, w1, w2}, {r1, r2, w1}}
=============================================================================
