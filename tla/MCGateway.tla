----------------------------- MODULE MCGateway -----------------------------
(***************************************************************************)
(* Instances of Gateway for TLC: two replicas, two requests at a time and  *)
(* the calls that take every branch; a production deployment (tokens and   *)
(* Redis required), and one that falls back to the local limiter, also     *)
(* from the start of a process.                                            *)
(***************************************************************************)
EXTENDS Gateway, TLC

CONSTANTS alice, bob, acme, umbrella

MCTenantOf == alice :> acme @@ bob :> umbrella

MCCalls ==
  {[token |-> alice, claim |-> Absent],
   [token |-> alice, claim |-> bob],
   [token |-> "invalid", claim |-> alice],
   [token |-> Absent, claim |-> alice]}

MCConfigs ==
  {[oidc |-> TRUE, configured |-> TRUE, required |-> TRUE, limit |-> 2],
   [oidc |-> FALSE, configured |-> TRUE, required |-> FALSE, limit |-> 1]}

MCSymmetry == Permutations(Slots) \cup Permutations(Replicas)
=============================================================================
