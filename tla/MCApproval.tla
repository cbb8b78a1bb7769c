----------------------------- MODULE MCApproval -----------------------------
(***************************************************************************)
(* Instances of Approval for TLC: one incident, and the three requests     *)
(* that matter to it: an approval with an external action, a rejection     *)
(* that carries an action payload, and an approval without one.            *)
(***************************************************************************)
EXTENDS Approval

CONSTANTS i1, approveAct, rejectAct, approveOnly

MCFingerprints == {approveAct, rejectAct, approveOnly}

MCIncidentOf == [h \in MCFingerprints |-> i1]

MCDecisionOf == [h \in MCFingerprints |->
                   IF h = rejectAct THEN "reject" ELSE "approve"]

MCAsksAction == {approveAct, rejectAct}
=============================================================================
