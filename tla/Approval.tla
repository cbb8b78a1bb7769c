------------------------------ MODULE Approval ------------------------------
(***************************************************************************)
(* Human approval of an incident: approve_incident and reject_incident of  *)
(* apps/api/main.py, both a claim of the request's Idempotency-Key, then   *)
(* decide_incident, then the completion of the key.  decide_incident is a  *)
(* chain of separate transactions (read the incident, read the control,    *)
(* save the approval, queue the action, save the incident, resume the      *)
(* paused graph thread); the managers' requests interleave between them,   *)
(* and each may stop anywhere.  The module extends the key protocol of     *)
(* Idempotency: the chain takes the place of its action Act.               *)
(*                                                                         *)
(* The fingerprint of a request determines incident, decision and whether  *)
(* it asks for an external action, since it hashes scope and payload.  An  *)
(* approval and an action are named by the request that created them,      *)
(* because approval_id is drawn per execution and the action's id and key  *)
(* are derived from it.                                                    *)
(***************************************************************************)
EXTENDS Idempotency, FiniteSets

CONSTANTS
  Incidents,
  IncidentOf,   \* fingerprint -> incident
  DecisionOf,   \* fingerprint -> "approve" | "reject"
  AsksAction    \* fingerprints with a non-empty final_action_payload

ASSUME RequestsTyped ==
  /\ IncidentOf \in [Fingerprints -> Incidents]
  /\ DecisionOf \in [Fingerprints -> {"approve", "reject"}]
  /\ AsksAction \subseteq Fingerprints
ASSUME NoneIsNoIncident == None \notin Incidents
ASSUME ThreadStatesAreNoRequests == {"none", "paused"} \cap Requests = {}

VARIABLES
  incident,  \* status of each incident
  approval,  \* approvals: one row per incident, last writer wins
  actions,   \* action_dispatches: the outbox rows, by creating request
  thread,    \* graph thread: "none", "paused", or the request that resumed it
  stage,     \* the transaction a request performs next
  dispatch,  \* the action_dispatch_status a request has computed
  control,   \* APPROVAL_ACTIONS_ENABLED of the tenant
  rivals     \* history: the requests whose decision of the same incident
             \* overlapped each request's, from its read to its save

decisionVars == <<incident, approval, actions, thread, stage, dispatch, control,
                  rivals>>
allVars == <<now, ledger, req, incident, approval, actions, thread, stage,
             dispatch, control, rivals>>

Steps == {"claim", "read", "control", "approval", "action", "incident",
          "resume", "done"}

ApprovalTypeOK ==
  /\ TypeOK
  /\ incident \in [Incidents -> {"pending_approval", "approved", "rejected"}]
  /\ approval \in [Incidents -> Requests \cup {None}]
  /\ actions \in SUBSET Requests
  /\ thread \in [Incidents -> Requests \cup {"none", "paused"}]
  /\ stage \in [Requests -> Steps]
  /\ dispatch \in [Requests -> {"not_requested", "suppressed", "pending"}]
  /\ control \in BOOLEAN
  /\ rivals \in [Requests -> SUBSET Requests]

ApprovalInit ==
  /\ Init
  /\ incident = [i \in Incidents |-> "pending_approval"]
  /\ approval = [i \in Incidents |-> None]
  /\ actions = {}
  /\ thread \in [Incidents -> {"none", "paused"}]
  /\ stage = [r \in Requests |-> "claim"]
  /\ dispatch = [r \in Requests |-> "not_requested"]
  /\ control \in BOOLEAN
  /\ rivals = [r \in Requests |-> {}]

IncidentBy(r) == IncidentOf[req[r].hash]

-----------------------------------------------------------------------------
\* The key is claimed; every other disposition ends the request at once.
ClaimDecision(r, k, h) ==
  /\ ClaimExecute(r, k, h)
  /\ stage' = [stage EXCEPT ![r] = "read"]
  /\ UNCHANGED <<incident, approval, actions, thread, dispatch, control, rivals>>

ClaimAnswered(r, k, h) ==
  /\ ClaimRefuse(r, k, h) \/ ClaimReplay(r, k, h)
  /\ UNCHANGED decisionVars

Standing(r, s) == stage[r] = s /\ req[r].phase = "executing"

Advance(r, s) == stage' = [stage EXCEPT ![r] = s]

AwaitsOrApproved(i) == incident[i] # "rejected"

AwaitsDecision(i) == incident[i] = "pending_approval"

\* The running decisions of r's incident between their read and their save.
Deciding(r) ==
  {s \in Requests \ {r} :
     /\ req[s].phase = "executing"
     /\ stage[s] \in {"control", "approval", "action", "incident"}
     /\ IncidentBy(s) = IncidentBy(r)}

\* get_incident finds the incident awaiting a decision.
ReadIncident(r) ==
  /\ Standing(r, "read")
  /\ AwaitsDecision(IncidentBy(r))
  /\ Advance(r, "control")
  /\ rivals' = [s \in Requests |->
                  IF s = r THEN Deciding(r)
                  ELSE IF s \in Deciding(r) THEN rivals[s] \cup {r} ELSE rivals[s]]
  /\ UNCHANGED <<now, ledger, req, incident, approval, actions, thread, dispatch,
                 control>>

FailReleasingKey(r) ==
  /\ req' = [req EXCEPT ![r].phase = "failed"]
  /\ ledger' = [ledger EXCEPT ![req[r].key] = NoRow]
  /\ UNCHANGED now

FailKeepingKey(r) == Fail(r)

\* HTTP 409 "incident is not awaiting approval"; the key stays claimed.
RefuseDecided(r) ==
  /\ Standing(r, "read")
  /\ ~AwaitsDecision(IncidentBy(r))
  /\ FailKeepingKey(r)
  /\ UNCHANGED decisionVars

ReadControlSkipsApproval(r) ==
  /\ Standing(r, "control")
  /\ dispatch' = [dispatch EXCEPT ![r] =
       IF req[r].hash \in AsksAction /\ control THEN "pending" ELSE "not_requested"]
  /\ Advance(r, IF dispatch'[r] = "pending" THEN "action" ELSE "approval")
  /\ UNCHANGED <<now, ledger, req, incident, approval, actions, thread, control,
                 rivals>>

\* control_enabled is read once, before anything is written.
ReadControl(r) ==
  /\ Standing(r, "control")
  /\ dispatch' = [dispatch EXCEPT ![r] =
       IF req[r].hash \notin AsksAction THEN "not_requested"
       ELSE IF control THEN "pending" ELSE "suppressed"]
  /\ Advance(r, "approval")
  /\ UNCHANGED <<now, ledger, req, incident, approval, actions, thread, control,
                 rivals>>

\* save_approval is an upsert by incident.
SaveApproval(r) ==
  /\ Standing(r, "approval")
  /\ approval' = [approval EXCEPT ![IncidentBy(r)] = r]
  /\ Advance(r, IF dispatch[r] = "pending" THEN "action" ELSE "incident")
  /\ UNCHANGED <<now, ledger, req, incident, actions, thread, dispatch,
                 control, rivals>>

\* The outbox row, whatever the decision is.
SaveAction(r) ==
  /\ Standing(r, "action")
  /\ actions' = actions \cup {r}
  /\ Advance(r, "incident")
  /\ UNCHANGED <<now, ledger, req, incident, approval, thread, dispatch,
                 control, rivals>>

StatusOf(r) ==
  IF DecisionOf[req[r].hash] = "approve" THEN "approved" ELSE "rejected"

SaveIncidentAsRead(r) ==
  /\ Standing(r, "incident")
  /\ Advance(r, "resume")
  /\ UNCHANGED <<now, ledger, req, incident, approval, actions, thread, dispatch,
                 control, rivals>>

\* save_incident writes the copy that was read, with the new status.
SaveIncident(r) ==
  /\ Standing(r, "incident")
  /\ incident' = [incident EXCEPT ![IncidentBy(r)] = StatusOf(r)]
  /\ Advance(r, "resume")
  /\ UNCHANGED <<now, ledger, req, approval, actions, thread, dispatch,
                 control, rivals>>

\* Command(resume) answers the pending interrupt, if there still is one.
ResumeGraph(r) ==
  /\ Standing(r, "resume")
  /\ thread' = [thread EXCEPT ![IncidentBy(r)] = IF @ = "paused" THEN r ELSE @]
  /\ Act(r)
  /\ Advance(r, "done")
  /\ UNCHANGED <<incident, approval, actions, dispatch, control, rivals>>

\* complete_mutation stores the approval as the key's response.
CompleteDecision(r) ==
  /\ stage[r] = "done"
  /\ Complete(r) \/ CompleteLost(r)
  /\ UNCHANGED decisionVars

\* The request dies before the transaction of its stage.
CrashDecision(r) ==
  /\ Fail(r)
  /\ UNCHANGED decisionVars

SetControl ==
  /\ control' = ~control
  /\ UNCHANGED <<now, ledger, req, incident, approval, actions, thread, stage,
                 dispatch, rivals>>

ApprovalNext ==
  \/ \E r \in Requests, k \in Keys, h \in Fingerprints :
       ClaimDecision(r, k, h) \/ ClaimAnswered(r, k, h)
  \/ \E r \in Requests :
       \/ ReadIncident(r) \/ RefuseDecided(r) \/ ReadControl(r)
       \/ SaveApproval(r) \/ SaveAction(r) \/ SaveIncident(r)
       \/ ResumeGraph(r) \/ CompleteDecision(r) \/ CrashDecision(r)
  \/ SetControl
  \/ Tick /\ UNCHANGED decisionVars

ApprovalSpec == ApprovalInit /\ [][ApprovalNext]_allVars

-----------------------------------------------------------------------------
(***************************************************************************)
(* Properties.                                                             *)
(***************************************************************************)

\* The recorded decision comes first: no queued action, no decided incident
\* and no resumed graph thread without an approval row, and no resumed thread
\* while the incident still awaits a decision, wherever requests crash.
DecisionBeforeEffects ==
  /\ ApprovalTypeOK
  /\ \A i \in Incidents :
       /\ (\E r \in actions : IncidentBy(r) = i) => approval[i] # None
       /\ incident[i] # "pending_approval" => approval[i] # None
       /\ thread[i] \in Requests => incident[i] # "pending_approval"

\* A decision that no other decision of its incident overlapped is whole once
\* the graph is resumed, and stays whole: status, approval row and thread carry
\* it, and the action an approval asked for is queued.  Requests that come
\* after it, that were refused or that died earlier take nothing of it away.
LoneDecisionIsWhole ==
  \A r \in Requests :
    LET i == IncidentBy(r)
    IN stage[r] = "done" /\ rivals[r] = {} =>
         /\ incident[i] = StatusOf(r)
         /\ approval[i] = r
         /\ thread[i] \in {r, "none"}
         /\ DecisionOf[req[r].hash] = "approve" =>
              (r \in actions <=> dispatch[r] = "pending")

\* What ActionDispatchRecord says of itself, "a human-approved ... request", and
\* the dispatch job of its queue, "approved-action outbox entries": a queued
\* action belongs to a decision to approve.  decide_incident queues the action
\* without looking at the decision.
QueuedActionsApproved ==
  \A r \in actions : DecisionOf[req[r].hash] = "approve"

\* Deciding an incident keeps to the key protocol: the specification of
\* Idempotency, with the whole chain of writes as its one action Act.  With
\* WindowsDisjoint, a theorem of that specification, a key queues at most one
\* action per TTL, wherever its handlers stopped.
KeepsKeyProtocol == Spec
=============================================================================
