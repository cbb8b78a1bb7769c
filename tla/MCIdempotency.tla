--------------------------- MODULE MCIdempotency ---------------------------
(***************************************************************************)
(* Instances of Idempotency for TLC: three requests under one key (every   *)
(* combination of claimant, zombie and replay needs three), two            *)
(* fingerprints, and a clock long enough for a key to be claimed, expire   *)
(* and be claimed again.                                                   *)
(***************************************************************************)
EXTENDS Idempotency
=============================================================================
