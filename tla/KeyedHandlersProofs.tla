------------------------ MODULE KeyedHandlersProofs ------------------------
(***************************************************************************)
(* Proofs about the handlers that run under an Idempotency-Key, for any    *)
(* number of requests, keys and fingerprints, any TTL and any clock bound: *)
(* the decisions of Approval, and the handlers of TravelerMemory,          *)
(* Playbooks and TripImport that TenantServices puts over one tenant's     *)
(* keys.  Both specifications implement that of Idempotency, whose         *)
(* theorems serve here.                                                    *)
(***************************************************************************)
EXTENDS TenantServices, Approval, IdempotencyProofs, WellFoundedInduction

-----------------------------------------------------------------------------
(***************************************************************************)
(* The inductive invariant: how far a request has come, and what its       *)
(* earlier transactions have left behind.                                  *)
(***************************************************************************)

\* The requests that were told to execute, and where they are: a handler that
\* runs stands before one of its transactions, one that died stays there.
StepShape ==
  \A r \in Requests :
    /\ stage[r] = "claim" <=>
         req[r].phase \in {"new", "conflict", "in_progress", "replayed"}
    /\ req[r].phase = "executing" => stage[r] # "done"
    /\ req[r].phase \in {"acted", "finished", "lost"} => stage[r] = "done"
    /\ stage[r] # "claim" => Claimant(r) /\ req[r].hash \in Fingerprints

\* r has found the incident awaiting a decision; it has saved its approval; it
\* has saved the incident.
Found(r) == stage[r] \notin {"claim", "read"}
Recorded(r) == stage[r] \in {"action", "incident", "resume", "done"}
Decided(r) == stage[r] \in {"resume", "done"}

\* What the earlier transactions of a chain wrote is not undone by others.
WritesLast ==
  \A r \in Requests :
    /\ Recorded(r) => approval[IncidentBy(r)] # None
    /\ Decided(r) => incident[IncidentBy(r)] # "pending_approval"

\* An action row is there from its transaction on, if it was called for.
ActionsQueued ==
  \A r \in Requests :
    /\ stage[r] \in {"claim", "read", "control", "approval", "action"} => r \notin actions
    /\ r \in actions => dispatch[r] = "pending" /\ approval[IncidentBy(r)] # None
    /\ stage[r] = "action" => dispatch[r] = "pending"
    /\ Recorded(r) /\ stage[r] # "action" /\ dispatch[r] = "pending" => r \in actions

\* A thread is resumed by the last transaction of a chain of its incident.
ThreadsResumed ==
  \A i \in Incidents : thread[i] \in Requests =>
    stage[thread[i]] = "done" /\ IncidentBy(thread[i]) = i

\* r did not die before it saved the incident.
Effective(r) == Found(r) /\ (Decided(r) \/ req[r].phase = "executing")

\* Two decisions of one incident that both found it awaiting one know of each
\* other: the later read came before the earlier save.
RivalsKnown ==
  \A r, s \in Requests :
    r # s /\ Effective(r) /\ Effective(s) /\ IncidentBy(r) = IncidentBy(s)
      => s \in rivals[r]

\* Without a rival, a decision's writes are still there as it wrote them.
LoneWrites ==
  \A r \in Requests : Effective(r) /\ rivals[r] = {} =>
    LET i == IncidentBy(r)
    IN /\ Recorded(r) => approval[i] = r
       /\ Decided(r) => incident[i] = StatusOf(r)
       /\ stage[r] = "done" => thread[i] # "paused"

AInv ==
  /\ DecisionBeforeEffects /\ StepShape /\ WritesLast /\ ActionsQueued
  /\ ThreadsResumed /\ RivalsKnown /\ LoneWrites

-----------------------------------------------------------------------------
\* Deciding an incident keeps to the key protocol: every transaction of
\* decide_incident is a step of Idempotency or invisible to it, so that all
\* its theorems hold of approvals.
THEOREM ApprovalKeepsKeyProtocol == ApprovalSpec => KeepsKeyProtocol
<1>1. ApprovalInit => Init
  BY DEF ApprovalInit
<1>2. [ApprovalNext]_allVars => [Next]_vars
  <2> SUFFICES ASSUME [ApprovalNext]_allVars PROVE [Next]_vars
    OBVIOUS
  <2>1. ASSUME NEW r \in Requests, NEW k \in Keys, NEW h \in Fingerprints,
               ClaimDecision(r, k, h) \/ ClaimAnswered(r, k, h)
        PROVE  Next
    BY <2>1 DEF ClaimDecision, ClaimAnswered, Next
  <2>2. ASSUME NEW r \in Requests,
               \/ ReadIncident(r) \/ ReadControl(r) \/ SaveApproval(r)
               \/ SaveAction(r) \/ SaveIncident(r)
        PROVE  UNCHANGED vars
    BY <2>2 DEF ReadIncident, ReadControl, SaveApproval, SaveAction,
                SaveIncident, vars
  <2>3. ASSUME NEW r \in Requests, RefuseDecided(r) \/ CrashDecision(r) PROVE Next
    BY <2>3 DEF RefuseDecided, CrashDecision, FailKeepingKey, Next
  <2>4. ASSUME NEW r \in Requests, ResumeGraph(r) \/ CompleteDecision(r) PROVE Next
    BY <2>4 DEF ResumeGraph, CompleteDecision, Next
  <2>5. CASE SetControl \/ UNCHANGED allVars
    BY <2>5 DEF SetControl, allVars, vars
  <2>6. CASE Tick
    BY <2>6 DEF Next
  <2> QED
    BY <2>1, <2>2, <2>3, <2>4, <2>5, <2>6 DEF ApprovalNext
<1> QED
  BY <1>1, <1>2, PTL DEF ApprovalSpec, KeepsKeyProtocol, Spec

-----------------------------------------------------------------------------
\* The inductive invariant holds in every state, wherever the requests stop.
THEOREM ApprovalInvariance == ApprovalSpec => []AInv
<1>1. ApprovalInit /\ TypeOK => AInv
  BY RequestsTyped, NoneIsFresh, ThreadStatesAreNoRequests
     DEF ApprovalInit, Init, Fresh, AInv, DecisionBeforeEffects, ApprovalTypeOK,
         Steps, StepShape, WritesLast, ActionsQueued, ThreadsResumed, RivalsKnown, LoneWrites,
         Found, Recorded, Decided, Effective
<1>2. AInv /\ TypeOK' /\ [ApprovalNext]_allVars => AInv'
  <2> SUFFICES ASSUME AInv, TypeOK', [ApprovalNext]_allVars PROVE AInv'
    OBVIOUS
  <2>0. ApprovalTypeOK /\ TypeOK
    BY DEF AInv, DecisionBeforeEffects, ApprovalTypeOK
  <2> USE RequestsTyped, NoneIsFresh, <2>0
      DEF IncidentBy, Found, Recorded, Decided, Effective, Claimant, TypeOK, Request, ApprovalTypeOK
  <2>1. ASSUME NEW r \in Requests, NEW k \in Keys, NEW h \in Fingerprints,
               ClaimDecision(r, k, h)
        PROVE  AInv'
    <3> USE <2>1 DEF ClaimDecision, ClaimExecute
    <3>1. ApprovalTypeOK' /\ StepShape'
      BY DEF AInv, StepShape, Steps
    <3>2. DecisionBeforeEffects'
      BY <3>1, ThreadStatesAreNoRequests
         DEF AInv, DecisionBeforeEffects, StepShape, WritesLast, ActionsQueued
    <3>3. WritesLast'
      BY DEF AInv, StepShape, WritesLast
    <3>4. ActionsQueued'
      BY DEF AInv, StepShape, ActionsQueued, WritesLast
    <3>5. ThreadsResumed'
      BY ThreadStatesAreNoRequests DEF AInv, StepShape, ThreadsResumed
    <3>6. RivalsKnown'
      BY DEF AInv, StepShape, RivalsKnown
    <3>7. LoneWrites'
      BY ThreadStatesAreNoRequests
         DEF AInv, StepShape, RivalsKnown, LoneWrites, StatusOf
    <3> QED
      BY <3>1, <3>2, <3>3, <3>4, <3>5, <3>6, <3>7 DEF AInv
  <2>2. ASSUME NEW r \in Requests, NEW k \in Keys, NEW h \in Fingerprints,
               ClaimAnswered(r, k, h)
        PROVE  AInv'
    <3>0. /\ req[r].phase = "new"
          /\ req'[r].phase \in {"conflict", "in_progress", "replayed"}
          /\ \A s \in Requests \ {r} : req'[s] = req[s]
          /\ UNCHANGED <<incident, approval, actions, thread, stage, dispatch, control,
                         rivals>>
      BY <2>2 DEF ClaimAnswered, ClaimRefuse, ClaimReplay, Answer, decisionVars
    <3> USE <3>0
    <3>1. ApprovalTypeOK' /\ StepShape'
      BY DEF AInv, StepShape, Steps
    <3>2. DecisionBeforeEffects'
      BY <3>1, ThreadStatesAreNoRequests
         DEF AInv, DecisionBeforeEffects, StepShape, WritesLast, ActionsQueued
    <3>3. WritesLast'
      BY DEF AInv, StepShape, WritesLast
    <3>4. ActionsQueued'
      BY DEF AInv, StepShape, ActionsQueued, WritesLast
    <3>5. ThreadsResumed'
      BY ThreadStatesAreNoRequests DEF AInv, StepShape, ThreadsResumed
    <3>6. RivalsKnown'
      BY DEF AInv, StepShape, RivalsKnown
    <3>7. LoneWrites'
      <4>1. \A s \in Requests : stage[s] # "claim" => req'[s] = req[s]
        BY DEF AInv, StepShape
      <4> QED
        BY <4>1 DEF AInv, LoneWrites, StatusOf
    <3> QED
      BY <3>1, <3>2, <3>3, <3>4, <3>5, <3>6, <3>7 DEF AInv
  <2>3. ASSUME NEW r \in Requests, ReadIncident(r) PROVE AInv'
    <3> USE <2>3 DEF ReadIncident, AwaitsDecision, Deciding, Standing, Advance
    <3>1. ApprovalTypeOK' /\ StepShape'
      BY DEF AInv, StepShape, Steps
    <3>2. DecisionBeforeEffects'
      BY <3>1, ThreadStatesAreNoRequests
         DEF AInv, DecisionBeforeEffects, StepShape, WritesLast, ActionsQueued
    <3>3. WritesLast'
      BY DEF AInv, StepShape, WritesLast
    <3>4. ActionsQueued'
      BY DEF AInv, StepShape, ActionsQueued, WritesLast
    <3>5. ThreadsResumed'
      BY ThreadStatesAreNoRequests DEF AInv, StepShape, ThreadsResumed
    <3>6. RivalsKnown'
      <4>1. \A s \in Requests : IncidentBy(s)' = IncidentBy(s)
        OBVIOUS
      <4>2. \A s \in Requests \ {r} : Effective(s)' <=> Effective(s)
        OBVIOUS
      <4>3. \A s \in Requests \ {r} :
              Effective(s) /\ IncidentBy(s) = IncidentBy(r) => s \in Deciding(r)
        BY DEF AInv, WritesLast, Steps
      <4>4. /\ rivals'[r] = Deciding(r)
            /\ \A s \in Requests : rivals[s] \subseteq rivals'[s] \/ s = r
            /\ \A s \in Deciding(r) : r \in rivals'[s]
        OBVIOUS
      <4> QED
        BY <4>1, <4>2, <4>3, <4>4 DEF AInv, RivalsKnown
    <3>7. LoneWrites'
      BY ThreadStatesAreNoRequests
         DEF AInv, StepShape, RivalsKnown, LoneWrites, StatusOf
    <3> QED
      BY <3>1, <3>2, <3>3, <3>4, <3>5, <3>6, <3>7 DEF AInv
  <2>4. ASSUME NEW r \in Requests, RefuseDecided(r) PROVE AInv'
    <3> USE <2>4 DEF RefuseDecided, FailKeepingKey, Fail, Standing, decisionVars
    <3>1. ApprovalTypeOK' /\ StepShape'
      BY DEF AInv, StepShape, Steps
    <3>2. DecisionBeforeEffects'
      BY <3>1, ThreadStatesAreNoRequests
         DEF AInv, DecisionBeforeEffects, StepShape, WritesLast, ActionsQueued
    <3>3. WritesLast'
      BY DEF AInv, StepShape, WritesLast
    <3>4. ActionsQueued'
      BY DEF AInv, StepShape, ActionsQueued, WritesLast
    <3>5. ThreadsResumed'
      BY ThreadStatesAreNoRequests DEF AInv, StepShape, ThreadsResumed
    <3>6. RivalsKnown'
      BY DEF AInv, StepShape, RivalsKnown
    <3>7. LoneWrites'
      BY ThreadStatesAreNoRequests
         DEF AInv, StepShape, RivalsKnown, LoneWrites, StatusOf
    <3> QED
      BY <3>1, <3>2, <3>3, <3>4, <3>5, <3>6, <3>7 DEF AInv
  <2>5. ASSUME NEW r \in Requests, ReadControl(r) PROVE AInv'
    <3> USE <2>5 DEF ReadControl, Standing, Advance
    <3>1. ApprovalTypeOK' /\ StepShape'
      BY DEF AInv, StepShape, Steps
    <3>2. DecisionBeforeEffects'
      BY <3>1, ThreadStatesAreNoRequests
         DEF AInv, DecisionBeforeEffects, StepShape, WritesLast, ActionsQueued
    <3>3. WritesLast'
      BY DEF AInv, StepShape, WritesLast
    <3>4. ActionsQueued'
      BY DEF AInv, StepShape, ActionsQueued, WritesLast
    <3>5. ThreadsResumed'
      BY ThreadStatesAreNoRequests DEF AInv, StepShape, ThreadsResumed
    <3>6. RivalsKnown'
      BY DEF AInv, StepShape, RivalsKnown
    <3>7. LoneWrites'
      BY ThreadStatesAreNoRequests
         DEF AInv, StepShape, RivalsKnown, LoneWrites, StatusOf
    <3> QED
      BY <3>1, <3>2, <3>3, <3>4, <3>5, <3>6, <3>7 DEF AInv
  <2>6. ASSUME NEW r \in Requests, SaveApproval(r) PROVE AInv'
    <3> USE <2>6 DEF SaveApproval, Standing, Advance
    <3>1. ApprovalTypeOK' /\ StepShape'
      BY DEF AInv, StepShape, Steps
    <3>2. DecisionBeforeEffects'
      BY <3>1, ThreadStatesAreNoRequests
         DEF AInv, DecisionBeforeEffects, StepShape, WritesLast, ActionsQueued
    <3>3. WritesLast'
      BY DEF AInv, StepShape, WritesLast
    <3>4. ActionsQueued'
      BY DEF AInv, StepShape, ActionsQueued, WritesLast
    <3>5. ThreadsResumed'
      BY ThreadStatesAreNoRequests DEF AInv, StepShape, ThreadsResumed
    <3>6. RivalsKnown'
      BY DEF AInv, StepShape, RivalsKnown
    <3>7. LoneWrites'
      BY ThreadStatesAreNoRequests
         DEF AInv, StepShape, RivalsKnown, LoneWrites, StatusOf
    <3> QED
      BY <3>1, <3>2, <3>3, <3>4, <3>5, <3>6, <3>7 DEF AInv
  <2>7. ASSUME NEW r \in Requests, SaveAction(r) PROVE AInv'
    <3> USE <2>7 DEF SaveAction, Standing, Advance
    <3>1. ApprovalTypeOK' /\ StepShape'
      BY DEF AInv, StepShape, Steps
    <3>2. DecisionBeforeEffects'
      BY <3>1, ThreadStatesAreNoRequests
         DEF AInv, DecisionBeforeEffects, StepShape, WritesLast, ActionsQueued
    <3>3. WritesLast'
      BY DEF AInv, StepShape, WritesLast
    <3>4. ActionsQueued'
      BY DEF AInv, StepShape, ActionsQueued, WritesLast
    <3>5. ThreadsResumed'
      BY ThreadStatesAreNoRequests DEF AInv, StepShape, ThreadsResumed
    <3>6. RivalsKnown'
      BY DEF AInv, StepShape, RivalsKnown
    <3>7. LoneWrites'
      BY ThreadStatesAreNoRequests
         DEF AInv, StepShape, RivalsKnown, LoneWrites, StatusOf
    <3> QED
      BY <3>1, <3>2, <3>3, <3>4, <3>5, <3>6, <3>7 DEF AInv
  <2>8. ASSUME NEW r \in Requests, SaveIncident(r) PROVE AInv'
    <3> USE <2>8 DEF SaveIncident, StatusOf, Standing, Advance
    <3>1. ApprovalTypeOK' /\ StepShape'
      BY DEF AInv, StepShape, Steps
    <3>2. DecisionBeforeEffects'
      BY <3>1, ThreadStatesAreNoRequests
         DEF AInv, DecisionBeforeEffects, StepShape, WritesLast, ActionsQueued
    <3>3. WritesLast'
      BY DEF AInv, StepShape, WritesLast
    <3>4. ActionsQueued'
      BY DEF AInv, StepShape, ActionsQueued, WritesLast
    <3>5. ThreadsResumed'
      BY ThreadStatesAreNoRequests DEF AInv, StepShape, ThreadsResumed
    <3>6. RivalsKnown'
      BY DEF AInv, StepShape, RivalsKnown
    <3>7. LoneWrites'
      BY ThreadStatesAreNoRequests
         DEF AInv, StepShape, RivalsKnown, LoneWrites, StatusOf
    <3> QED
      BY <3>1, <3>2, <3>3, <3>4, <3>5, <3>6, <3>7 DEF AInv
  <2>9. ASSUME NEW r \in Requests, ResumeGraph(r) PROVE AInv'
    <3> USE <2>9 DEF ResumeGraph, Act, Standing, Advance
    <3>1. ApprovalTypeOK' /\ StepShape'
      BY DEF AInv, StepShape, Steps
    <3>2. DecisionBeforeEffects'
      BY <3>1, ThreadStatesAreNoRequests
         DEF AInv, DecisionBeforeEffects, StepShape, WritesLast, ActionsQueued
    <3>3. WritesLast'
      BY DEF AInv, StepShape, WritesLast
    <3>4. ActionsQueued'
      BY DEF AInv, StepShape, ActionsQueued, WritesLast
    <3>5. ThreadsResumed'
      BY ThreadStatesAreNoRequests DEF AInv, StepShape, ThreadsResumed
    <3>6. RivalsKnown'
      BY DEF AInv, StepShape, RivalsKnown
    <3>7. LoneWrites'
      BY ThreadStatesAreNoRequests
         DEF AInv, StepShape, RivalsKnown, LoneWrites, StatusOf
    <3> QED
      BY <3>1, <3>2, <3>3, <3>4, <3>5, <3>6, <3>7 DEF AInv
  <2>10. ASSUME NEW r \in Requests, CompleteDecision(r) PROVE AInv'
    <3>0. /\ stage[r] = "done" /\ req[r].phase = "acted"
          /\ req'[r].phase \in {"finished", "lost"}
          /\ req'[r].hash = req[r].hash /\ req'[r].key = req[r].key
          /\ \A s \in Requests \ {r} : req'[s] = req[s]
          /\ UNCHANGED <<incident, approval, actions, thread, stage, dispatch, control,
                         rivals>>
      BY <2>10 DEF CompleteDecision, Complete, CompleteLost, decisionVars
    <3> USE <3>0
    <3>1. ApprovalTypeOK' /\ StepShape'
      BY DEF AInv, StepShape, Steps
    <3>2. DecisionBeforeEffects'
      <4>1. \A s \in Requests : IncidentBy(s)' = IncidentBy(s)
        OBVIOUS
      <4> QED
        BY <3>1, <4>1 DEF AInv, DecisionBeforeEffects
    <3>3. WritesLast'
      BY DEF AInv, StepShape, WritesLast
    <3>4. ActionsQueued'
      BY DEF AInv, StepShape, ActionsQueued, WritesLast
    <3>5. ThreadsResumed'
      BY ThreadStatesAreNoRequests DEF AInv, StepShape, ThreadsResumed
    <3>6. RivalsKnown'
      BY DEF AInv, StepShape, RivalsKnown
    <3>7. LoneWrites'
      BY ThreadStatesAreNoRequests
         DEF AInv, StepShape, RivalsKnown, LoneWrites, StatusOf
    <3> QED
      BY <3>1, <3>2, <3>3, <3>4, <3>5, <3>6, <3>7 DEF AInv
  <2>11. ASSUME NEW r \in Requests, CrashDecision(r) PROVE AInv'
    <3> USE <2>11 DEF CrashDecision, Fail, decisionVars
    <3>1. ApprovalTypeOK' /\ StepShape'
      BY DEF AInv, StepShape, Steps
    <3>2. DecisionBeforeEffects'
      BY <3>1, ThreadStatesAreNoRequests
         DEF AInv, DecisionBeforeEffects, StepShape, WritesLast, ActionsQueued
    <3>3. WritesLast'
      BY DEF AInv, StepShape, WritesLast
    <3>4. ActionsQueued'
      BY DEF AInv, StepShape, ActionsQueued, WritesLast
    <3>5. ThreadsResumed'
      BY ThreadStatesAreNoRequests DEF AInv, StepShape, ThreadsResumed
    <3>6. RivalsKnown'
      BY DEF AInv, StepShape, RivalsKnown
    <3>7. LoneWrites'
      BY ThreadStatesAreNoRequests
         DEF AInv, StepShape, RivalsKnown, LoneWrites, StatusOf
    <3> QED
      BY <3>1, <3>2, <3>3, <3>4, <3>5, <3>6, <3>7 DEF AInv
  <2>12. ASSUME UNCHANGED <<req, incident, approval, actions, thread, stage, dispatch,
                           rivals>>,
               control' \in BOOLEAN
        PROVE  AInv'
    BY <2>12 DEF AInv, DecisionBeforeEffects, StepShape, WritesLast,
                 ActionsQueued, ThreadsResumed, RivalsKnown, LoneWrites, StatusOf
  <2>13. CASE SetControl
    BY <2>12, <2>13 DEF SetControl
  <2>14. CASE Tick /\ UNCHANGED decisionVars
    BY <2>12, <2>14 DEF decisionVars, Tick
  <2>15. CASE UNCHANGED allVars
    BY <2>12, <2>15 DEF allVars
  <2> HIDE RequestsTyped, NoneIsFresh, <2>0
      DEF IncidentBy, Found, Recorded, Decided, Effective, Claimant, TypeOK, Request, ApprovalTypeOK
  <2> QED
    BY <2>1, <2>2, <2>3, <2>4, <2>5, <2>6, <2>7, <2>8, <2>9, <2>10, <2>11, <2>13, <2>14, <2>15 DEF ApprovalNext
<1>3. ApprovalSpec => []TypeOK
  BY ApprovalKeepsKeyProtocol, TypeCorrect, PTL DEF KeepsKeyProtocol
<1> QED
  BY <1>1, <1>2, <1>3, PTL DEF ApprovalSpec

\* save_approval comes first in every interleaving of decide_incident: no
\* queued action, decided incident or resumed graph thread without it.
THEOREM DecisionsComeFirst == ApprovalSpec => []DecisionBeforeEffects
BY ApprovalInvariance, PTL DEF AInv

\* A decision that no other decision of its incident overlapped is whole when
\* decide_incident has resumed the graph, and nothing takes it back: approval
\* row, incident and graph thread carry it, an approved action is queued.
THEOREM LoneDecisionsAreWhole == ApprovalSpec => []LoneDecisionIsWhole
<1>1. AInv => LoneDecisionIsWhole
  <2> SUFFICES ASSUME AInv, NEW r \in Requests, stage[r] = "done", rivals[r] = {}
               PROVE  LET i == IncidentBy(r)
                      IN /\ incident[i] = StatusOf(r)
                         /\ approval[i] = r
                         /\ thread[i] \in {r, "none"}
                         /\ r \in actions <=> dispatch[r] = "pending"
    BY DEF LoneDecisionIsWhole
  <2> DEFINE i == IncidentBy(r)
  <2>1. ApprovalTypeOK
    BY DEF AInv, DecisionBeforeEffects
  <2>2. i \in Incidents /\ Effective(r)
    BY RequestsTyped DEF AInv, StepShape, IncidentBy, Effective, Found, Decided
  <2>3. incident[i] = StatusOf(r) /\ approval[i] = r /\ thread[i] # "paused"
    BY <2>2 DEF AInv, LoneWrites, Recorded, Decided
  <2>4. thread[i] \in Requests => thread[i] = r
    BY <2>2 DEF AInv, ThreadsResumed, RivalsKnown, Effective, Found, Decided
  <2>5. thread[i] \in {r, "none"}
    BY <2>1, <2>2, <2>3, <2>4 DEF ApprovalTypeOK
  <2>6. r \in actions <=> dispatch[r] = "pending"
    BY DEF AInv, ActionsQueued, Recorded
  <2> QED
    BY <2>3, <2>5, <2>6
<1> QED
  BY <1>1, ApprovalInvariance, PTL

\* The actions queued under one Idempotency-Key were claimed in disjoint
\* windows.
OneActionPerWindow ==
  \A r, s \in actions :
    r # s /\ req[r].key = req[s].key
      => req[r].claimed >= req[s].expires \/ req[s].claimed >= req[r].expires

\* A key queues at most one action per TTL, wherever its handlers stopped and
\* however often the client repeated the request: what claim_mutation is for.
THEOREM KeysQueueOneAction == ApprovalSpec => []OneActionPerWindow
<1>1. AInv /\ WindowsDisjoint => OneActionPerWindow
  <2> SUFFICES ASSUME AInv, WindowsDisjoint PROVE OneActionPerWindow
    OBVIOUS
  <2>1. ApprovalTypeOK
    BY DEF AInv, DecisionBeforeEffects
  <2>2. \A r \in actions : r \in Requests /\ Claimant(r)
    BY <2>1 DEF AInv, StepShape, ActionsQueued, ApprovalTypeOK
  <2> QED
    BY <2>2 DEF WindowsDisjoint, OneActionPerWindow
<1>2. ApprovalSpec => []WindowsDisjoint
  BY ApprovalKeepsKeyProtocol, OneExecutionPerWindow, PTL DEF KeepsKeyProtocol
<1> QED
  BY <1>1, <1>2, ApprovalInvariance, PTL

-----------------------------------------------------------------------------
(***************************************************************************)
(* The services of a tenant, for any number of travelers, proposals,       *)
(* playbooks and workloads.                                                *)
(***************************************************************************)

(***************************************************************************)
(* How far the requests have come.                                         *)
(***************************************************************************)
BeforeClaim == {"start", "proposal", "claim", "found"}

MemorySteps == {"profile", "save", "resolve", "audit"}

ImportSteps == {"put", "quarantine", "validate"}

\* A handler that stands before a transaction after its claim is executing and
\* of the kind the transaction belongs to; one that stands before its claim has
\* claimed nothing; and what was claimed is what the request asked for.
HandlerShape ==
  /\ want \in [Requests -> Fingerprints \cup {None}]
  /\ step \in [Requests -> BeforeClaim \cup MemorySteps \cup ImportSteps
                                        \cup {"insert", "done"}]
  /\ \A r \in Requests :
       /\ step[r] \in BeforeClaim => req[r].phase = "new"
       /\ step[r] \notin BeforeClaim \cup {"done"} <=> req[r].phase = "executing"
       /\ req[r].phase # "new" => req[r].hash = want[r]
       /\ step[r] # "start" => want[r] \in Fingerprints
       /\ step[r] \in {"found", "insert"} => Wants(r, "publish")
       /\ step[r] \in ImportSteps => Wants(r, "import")
       /\ step[r] = "proposal" => Wants(r, "confirm")
       /\ step[r] \in MemorySteps => Kind(r) \in MemoryKinds

Performed(r) == req[r].phase \in {"acted", "finished", "lost"}

\* Guidance that a lookup found, or that an insert was content with, stays.
GuidanceKept ==
  \A r \in Requests :
    Wants(r, "publish") /\ (Performed(r) \/ step[r] = "found")
      => guidance[want[r].playbook] = want[r].text

\* Object and row of an upload, transaction by transaction.
UploadShape ==
  \A r \in Requests :
    /\ r \in objects \/ upload[r] # "absent" =>
         /\ Wants(r, "import")
         /\ step[r] \in {"quarantine", "validate"} \/ Performed(r)
              \/ req[r].phase = "failed"
    /\ upload[r] # "absent" => r \in objects
    /\ step[r] = "quarantine" => r \in objects /\ upload[r] = "absent"
    /\ step[r] = "validate" => upload[r] = "quarantined"
    /\ upload[r] = "validated" => want[r].content = "clean"
    /\ Wants(r, "import") /\ Performed(r) => upload[r] = "validated"

\* The requests that saved their change of a proposal; the proposal was posted
\* with that status.
SavedOf(p, kind) == {r \in saved : Wants(r, kind) /\ want[r].proposal = p}
PostedAs(p, status) == \E r \in SavedOf(p, "propose") : want[r].status = status

\* Change, proposal and audit record, transaction by transaction.
MemoryShape ==
  /\ audit \subseteq saved
  /\ \A r \in Requests :
       /\ r \in saved => /\ Kind(r) \in MemoryKinds
                         /\ req[r].phase \notin {"new", "replayed"}
       /\ step[r] \in {"resolve", "audit"} => r \in saved
       /\ step[r] = "resolve" => Wants(r, "confirm")
       /\ Kind(r) \in MemoryKinds /\ Performed(r) => r \in audit
       /\ Wants(r, "confirm") /\ (step[r] = "audit" \/ Performed(r))
            => \/ proposal[want[r].proposal] # "pending"
               \/ PostedAs(want[r].proposal, "pending")
  /\ \A p \in Proposals :
       proposal[p] = "confirmed" =>
         SavedOf(p, "confirm") # {} \/ PostedAs(p, "confirmed")

\* A proposal confirmed and not posted since reads so; a confirmation that read
\* it then has no pending copy and has not come to save.
ResolvedShape ==
  /\ \A p \in resolved : proposal[p] = "confirmed"
  /\ \A r \in again : /\ Wants(r, "confirm") /\ seen[r].status = "confirmed"
                       /\ step[r] \in {"claim", "profile", "done"} /\ r \notin saved

\* A request that has read the profile since it was last written has read it
\* as it is.
FreshReads ==
  \A r \in Requests :
    seen[r].fresh => /\ Kind(r) \in MemoryKinds
                     /\ seen[r].profile = profile[TravelerBy(want[r])]

-----------------------------------------------------------------------------
(***************************************************************************)
(* The key protocol.                                                       *)
(***************************************************************************)

\* What a transaction of r does to the keys and to the progress of requests:
\* it moves r alone.
Moves(r, s) ==
  /\ step' = [step EXCEPT ![r] = s]
  /\ want' = want

\* Every step of a handler is a transaction before the claim, the claim, a
\* transaction that is not the last one, the last one, or an error; each goes
\* on with a transaction of the same kind of request.
HandlerStep(r) ==
  \/ /\ step[r] \in {"start", "proposal"} /\ req[r].phase = "new"
     /\ want[r] # None
     /\ UNCHANGED vars
     /\ \/ Moves(r, "claim") \/ Moves(r, "done")
        \/ Wants(r, "publish") /\ step[r] = "start" /\ Moves(r, "found")
        \/ Wants(r, "confirm") /\ step[r] = "start" /\ Moves(r, "proposal")
  \/ Kind(r) \in MemoryKinds /\ Claim(r, FirstStep(r))
  \/ Wants(r, "publish") /\ Claim(r, "insert")
  \/ Wants(r, "import") /\ Claim(r, "put")
  \/ /\ req[r].phase = "executing"
     /\ UNCHANGED vars
     /\ \/ step[r] \in MemorySteps /\ \E s \in MemorySteps : Moves(r, s)
        \/ step[r] \in ImportSteps /\ \E s \in ImportSteps : Moves(r, s)
  \/ Conclude(r)
  \/ GiveUp(r)
  \/ Finish(r)

\* The handlers of memory, playbooks and imports take no other steps.
LEMMA StepsOfHandlers ==
  ASSUME HandlerShape, NEW r \in Requests
  PROVE  MemoryStep(r) \/ PlaybookStep(r) \/ ImportStep(r) \/ CompleteKey(r) \/ Crash(r)
           => HandlerStep(r)
<1> USE NoneIsNoKind DEF Kinds, HandlerStep, Moves, Continue, GoTo, Before, At
<1>1. ASSUME MemoryStep(r) PROVE HandlerStep(r)
  <2>1. CASE ReadSwitch(r)
    BY <2>1 DEF ReadSwitch, Kind, Wants
  <2>6. CASE CheckHold(r)
    BY <2>6 DEF CheckHold, Kind, Wants
  <2>2. CASE ReadProposal(r)
    BY <2>2, NoneIsFresh DEF ReadProposal, HandlerShape
  <2>3. CASE ClaimMemory(r)
    BY <2>3 DEF ClaimMemory
  <2>4. CASE ReadProfile(r) \/ SaveProfile(r)
    BY <2>4 DEF ReadProfile, SaveProfile, After, MemorySteps
  <2>7. CASE SaveProposal(r) \/ EraseMemory(r)
    BY <2>7 DEF SaveProposal, EraseMemory, After, MemorySteps
  <2>5. CASE RefuseConfirmation(r) \/ RecordAudit(r)
    BY <2>5 DEF RefuseConfirmation, RecordAudit
  <2> QED
    BY <1>1, <2>1, <2>2, <2>3, <2>4, <2>5, <2>6, <2>7 DEF MemoryStep
<1>2. ASSUME PlaybookStep(r) PROVE HandlerStep(r)
  <2>1. CASE LookUp(r)
    <3> DEFINE there == guidance[want[r].playbook]
    <3>1. want[r] # None /\ want[r].text # None
      BY <2>1, PublicationsTyped DEF LookUp, Kind, Wants, HandlerShape
    <3>2. CASE there = None
      BY <2>1, <3>1, <3>2 DEF LookUp
    <3>3. CASE there # None /\ there = want[r].text
      BY <2>1, <3>1, <3>3 DEF LookUp
    <3>4. CASE there # None /\ there # want[r].text
      BY <2>1, <3>1, <3>4 DEF LookUp
    <3> QED
      BY <3>2, <3>3, <3>4
  <2>2. CASE ClaimPublication(r) \/ Insert(r)
    BY <2>2 DEF ClaimPublication, Insert
  <2> QED
    BY <1>2, <2>1, <2>2 DEF PlaybookStep
<1>3. ASSUME ImportStep(r) PROVE HandlerStep(r)
  <2>1. CASE ReceiveImport(r)
    BY <2>1 DEF ReceiveImport, Kind, Wants
  <2>2. CASE ClaimImportKey(r) \/ PutFails(r)
    BY <2>2 DEF ClaimImportKey, PutFails
  <2>3. CASE PutObject(r) \/ Quarantine(r)
    BY <2>3 DEF PutObject, Quarantine, ImportSteps
  <2>4. CASE Validate(r)
    BY <2>4 DEF Validate
  <2> QED
    BY <1>3, <2>1, <2>2, <2>3, <2>4 DEF ImportStep
<1>4. ASSUME CompleteKey(r) \/ Crash(r) PROVE HandlerStep(r)
  BY <1>4 DEF CompleteKey, Crash
<1> QED
  BY <1>1, <1>2, <1>3, <1>4

\* A step of the services is one of a handler, or time passes.
LEMMA ServicesAreHandlers ==
  ASSUME HandlerShape, ServicesNext
  PROVE  \/ \E r \in Requests : HandlerStep(r)
         \/ Tick /\ UNCHANGED <<want, step>>
BY StepsOfHandlers DEF ServicesNext, ServicesTick, handlerVars

\* A handler's step is one of the key protocol or invisible to it.
LEMMA HandlerStepsKeepKeys ==
  ASSUME HandlerShape, NEW r \in Requests, HandlerStep(r)
  PROVE  [Next]_vars
<1>1. ASSUME NEW s, Claim(r, s) PROVE Next
  <2>1. want[r] \in Fingerprints
    BY <1>1 DEF Claim, Before, HandlerShape
  <2> QED
    BY <1>1, <2>1 DEF Claim, Next
<1> QED
  BY <1>1 DEF HandlerStep, Conclude, GiveUp, Finish, Next

\* What a claim does to the requests.
LEMMA ClaimMoves ==
  ASSUME TypeOK, HandlerShape, NEW r \in Requests, NEW s, Claim(r, s)
  PROVE  /\ want' = want /\ \A q \in Requests \ {r} : req'[q] = req[q]
         /\ step[r] = "claim" /\ req[r].phase = "new" /\ req'[r].hash = want[r]
         /\ \/ req'[r].phase = "executing" /\ step' = [step EXCEPT ![r] = s]
            \/ /\ req'[r].phase \in {"conflict", "in_progress", "replayed", "missing_key"}
               /\ step' = [step EXCEPT ![r] = "done"]
BY RequireKeyBoolean
   DEF Claim, Before, GoTo, ClaimExecute, ClaimRefuse, ClaimReplay, ClaimWithoutKey,
       Answer, TypeOK, HandlerShape

\* What the end of an execution does to the requests: the last transaction, an
\* error or a crash, the completion of the key.
LEMMA EndMoves ==
  ASSUME TypeOK, HandlerShape, NEW r \in Requests,
         Conclude(r) \/ GiveUp(r) \/ Finish(r)
  PROVE  /\ want' = want /\ \A q \in Requests \ {r} : req'[q] = req[q]
         /\ step' = [step EXCEPT ![r] = "done"]
         /\ req'[r].hash = req[r].hash
         /\ Conclude(r) => req[r].phase = "executing" /\ req'[r].phase = "acted"
         /\ GiveUp(r) => /\ req[r].phase \in {"executing", "acted"}
                         /\ req'[r].phase = "failed"
         /\ Finish(r) => /\ req[r].phase = "acted"
                         /\ req'[r].phase \in {"finished", "lost"}
BY DEF Conclude, GiveUp, Finish, GoTo, handlerVars, Act, Fail, Complete, CompleteLost,
       CompleteWithoutKey, TypeOK, Request, HandlerShape

\* The shape of the handlers' progress is kept.
LEMMA HandlerShapeKept ==
  ASSUME TypeOK, HandlerShape, NEW r \in Requests, HandlerStep(r)
  PROVE  HandlerShape'
<1> USE NoneIsNoKind
    DEF HandlerShape, BeforeClaim, MemorySteps, ImportSteps, Kind, Wants, Kinds
<1>1. ASSUME step[r] \in {"start", "proposal"}, req[r].phase = "new",
             want[r] # None, UNCHANGED vars,
             \/ Moves(r, "claim") \/ Moves(r, "done")
             \/ Wants(r, "publish") /\ step[r] = "start" /\ Moves(r, "found")
             \/ Wants(r, "confirm") /\ step[r] = "start" /\ Moves(r, "proposal")
      PROVE  HandlerShape'
  BY <1>1 DEF Moves, vars
<1>2. ASSUME Kind(r) \in MemoryKinds, Claim(r, FirstStep(r)) PROVE HandlerShape'
  BY <1>2, ClaimMoves DEF FirstStep, MemoryKinds
<1>3. ASSUME Wants(r, "publish"), Claim(r, "insert") PROVE HandlerShape'
  BY <1>3, ClaimMoves
<1>4. ASSUME Wants(r, "import"), Claim(r, "put") PROVE HandlerShape'
  BY <1>4, ClaimMoves
<1>5. ASSUME req[r].phase = "executing", UNCHANGED vars,
             \/ step[r] \in MemorySteps /\ \E s \in MemorySteps : Moves(r, s)
             \/ step[r] \in ImportSteps /\ \E s \in ImportSteps : Moves(r, s)
      PROVE  HandlerShape'
  BY <1>5 DEF Moves, vars
<1>6. ASSUME Conclude(r) \/ GiveUp(r) \/ Finish(r) PROVE HandlerShape'
  BY <1>6, EndMoves
<1> HIDE DEF HandlerShape, BeforeClaim, MemorySteps, ImportSteps, Kind, Wants, Kinds
<1> QED
  BY <1>1, <1>2, <1>3, <1>4, <1>5, <1>6 DEF HandlerStep

\* Handlers stand where the protocol lets them stand, in every state.
THEOREM HandlersInvariance == ServicesSpec => [](TypeOK /\ HandlerShape)
<1>1. ServicesInit => TypeOK /\ HandlerShape
  BY WorkloadsTyped
     DEF ServicesInit, HandlersInit, Init, TypeOK, NoRow, Fresh, Row, Request, Phases,
         HandlerShape, BeforeClaim, MemorySteps, ImportSteps
<1>2. TypeOK /\ HandlerShape /\ [ServicesNext]_serviceVars => TypeOK' /\ HandlerShape'
  <2> SUFFICES ASSUME TypeOK, HandlerShape, [ServicesNext]_serviceVars
               PROVE  TypeOK' /\ HandlerShape'
    OBVIOUS
  <2>1. ASSUME NEW r \in Requests, HandlerStep(r) PROVE TypeOK' /\ HandlerShape'
    BY <2>1, HandlerShapeKept, HandlerStepsKeepKeys, TypeKept
  <2>2. CASE Tick /\ UNCHANGED <<want, step>>
    <3>1. TypeOK'
      BY <2>2, TypeKept DEF Next
    <3> QED
      BY <2>2, <3>1 DEF Tick, HandlerShape, Kind, Wants
  <2>3. CASE UNCHANGED serviceVars
    BY <2>3 DEF serviceVars, vars, handlerVars, TypeOK, HandlerShape, Kind, Wants
  <2> QED
    BY <2>1, <2>2, <2>3, ServicesAreHandlers
<1> QED
  BY <1>1, <1>2, PTL DEF ServicesSpec

\* The handlers of memory, playbooks and imports keep to the key protocol: what
\* they answer before the claim leaves the key alone, and the whole chain of
\* transactions after it is its one action Act.
THEOREM ServicesKeepKeyProtocol == ServicesSpec => ServicesKeepKeys
<1>1. ServicesInit => Init
  BY DEF ServicesInit, HandlersInit
<1>2. HandlerShape /\ [ServicesNext]_serviceVars => [Next]_vars
  <2> SUFFICES ASSUME HandlerShape, [ServicesNext]_serviceVars PROVE [Next]_vars
    OBVIOUS
  <2>1. CASE UNCHANGED serviceVars
    BY <2>1 DEF serviceVars
  <2>2. CASE ServicesNext
    BY <2>2, ServicesAreHandlers, HandlerStepsKeepKeys DEF Next
  <2> QED
    BY <2>1, <2>2
<1> QED
  BY <1>1, <1>2, HandlersInvariance, PTL DEF ServicesSpec, ServicesKeepKeys, Spec

\* Two handlers that run under one key, of the same kind or not, hold it in
\* disjoint windows, and a replay answers for a finished execution.
COROLLARY ServicesInheritKeys == ServicesSpec => [](WindowsDisjoint /\ ReplayFaithful)
BY ServicesKeepKeyProtocol, OneExecutionPerWindow, ReplaysAreFaithful, PTL
   DEF ServicesKeepKeys

-----------------------------------------------------------------------------
(***************************************************************************)
(* Who moves.                                                              *)
(***************************************************************************)

\* A handler's step moves one request and leaves all others where they are.
LEMMA OthersStay ==
  ASSUME TypeOK, HandlerShape, NEW r \in Requests, HandlerStep(r)
  PROVE  /\ want' = want
         /\ \A q \in Requests \ {r} : req'[q] = req[q] /\ step'[q] = step[q]
<1> USE DEF HandlerShape
<1> DEFINE Others ==
             /\ want' = want
             /\ \A q \in Requests \ {r} : req'[q] = req[q] /\ step'[q] = step[q]
<1>1. ASSUME NEW s, Claim(r, s) PROVE Others
  BY <1>1, ClaimMoves
<1>2. ASSUME Conclude(r) \/ GiveUp(r) \/ Finish(r) PROVE Others
  BY <1>2, EndMoves
<1>3. ASSUME NEW s, Moves(r, s), UNCHANGED vars PROVE Others
  BY <1>3 DEF Moves, vars
<1>4. Others
  <2> HIDE DEF HandlerShape, Others
  <2> QED
    BY <1>1, <1>2, <1>3 DEF HandlerStep
<1> QED
  BY <1>4

\* The transactions of a module are those of its own kinds of request.
LEMMA KindsOfSteps ==
  ASSUME HandlerShape, NEW r \in Requests
  PROVE  /\ MemoryStep(r) => Kind(r) \in MemoryKinds
         /\ PlaybookStep(r) => Kind(r) = "publish"
         /\ ImportStep(r) => Kind(r) = "import"
<1> USE DEF HandlerShape, At, Before, Wants
<1>1. MemoryStep(r) => Kind(r) \in MemoryKinds
  BY DEF MemoryStep, ReadSwitch, ReadProposal, CheckHold, ClaimMemory, ReadProfile,
         RefuseConfirmation, SaveProfile, SaveProposal, EraseMemory, RecordAudit,
         MemoryKinds, MemorySteps
<1>2. PlaybookStep(r) => Kind(r) = "publish"
  BY DEF PlaybookStep, LookUp, ClaimPublication, Insert
<1>3. ImportStep(r) => Kind(r) = "import"
  BY DEF ImportStep, ReceiveImport, ClaimImportKey, PutObject, PutFails, Quarantine,
         Validate, ImportSteps
<1> QED
  BY <1>1, <1>2, <1>3

\* A step of the services, as seen by one of its modules: its own step, a step
\* of a request of another kind, or the end of an execution, which changes no
\* domain row, or time.
LEMMA ServiceCases ==
  ASSUME HandlerShape, [ServicesNext]_serviceVars
  PROVE  \/ \E r \in Requests : /\ HandlerStep(r)
                                /\ \/ /\ MemoryStep(r) /\ Kind(r) \in MemoryKinds
                                      /\ UNCHANGED <<guidance, importVars>>
                                   \/ /\ PlaybookStep(r) /\ Kind(r) = "publish"
                                      /\ UNCHANGED <<memoryVars, importVars>>
                                   \/ /\ ImportStep(r) /\ Kind(r) = "import"
                                      /\ UNCHANGED <<memoryVars, guidance>>
                                   \/ /\ GiveUp(r) \/ Finish(r)
                                      /\ UNCHANGED <<memoryVars, guidance, importVars>>
         \/ UNCHANGED <<req, want, step, memoryVars, guidance, importVars>>
<1>1. CASE UNCHANGED serviceVars
  BY <1>1 DEF serviceVars, vars, handlerVars
<1>2. CASE ServicesTick
  BY <1>2 DEF ServicesTick, Tick, handlerVars
<1>3. CASE ServicesNext
  BY <1>2, <1>3, KindsOfSteps, StepsOfHandlers DEF ServicesNext, CompleteKey, Crash
<1> QED
  BY <1>1, <1>3

-----------------------------------------------------------------------------
(***************************************************************************)
(* Trip imports.                                                           *)
(***************************************************************************)

\* One transaction of validate_trip_csv keeps object and row in step.
LEMMA ImportStepKeeps ==
  ASSUME TypeOK, HandlerShape, ImportTypeOK, UploadShape,
         NEW r \in Requests, ImportStep(r), HandlerStep(r)
  PROVE  ImportTypeOK' /\ UploadShape'
<1>1. /\ want' = want /\ Kind(r) = "import"
      /\ \A q \in Requests \ {r} : req'[q] = req[q] /\ step'[q] = step[q]
  BY OthersStay, KindsOfSteps
<1> USE <1>1 DEF ImportTypeOK, UploadShape, Performed, Wants, Kind
<1>2. CASE ReceiveImport(r)
  BY <1>2 DEF ReceiveImport, Before, Continue, GoTo, vars, importVars, HandlerShape
<1>3. CASE ClaimImportKey(r)
  <2>1. /\ step[r] = "claim" /\ req[r].phase = "new"
        /\ step'[r] \in {"put", "done"} /\ ~Performed(r)' /\ UNCHANGED importVars
    BY <1>3, ClaimMoves DEF ClaimImportKey, HandlerShape
  <2> QED
    BY <2>1 DEF importVars, HandlerShape
<1>4. CASE PutObject(r)
  BY <1>4 DEF PutObject, At, Continue, GoTo, vars, HandlerShape
<1>5. CASE PutFails(r)
  <2>1. req'[r].phase = "failed" /\ step'[r] = "done" /\ step[r] = "put"
    BY <1>5, EndMoves DEF PutFails, At, HandlerShape
  <2> QED
    BY <1>5, <2>1 DEF PutFails
<1>6. CASE Quarantine(r)
  <2>1. CASE want[r].content = "outsized"
    <3>1. req'[r].phase = "failed" /\ step'[r] = "done" /\ step[r] = "quarantine"
      BY <1>6, <2>1, EndMoves DEF Quarantine, At, HandlerShape
    <3> QED
      BY <1>6, <2>1, <3>1 DEF Quarantine
  <2>2. CASE want[r].content # "outsized"
    BY <1>6, <2>2
       DEF Quarantine, At, SaveUpload, Continue, GoTo, vars, HandlerShape
  <2> QED
    BY <2>1, <2>2
<1>7. CASE Validate(r)
  <2>1. /\ step[r] = "validate" /\ step'[r] = "done" /\ objects' = objects
        /\ \/ /\ want[r].content = "clean" /\ req'[r].phase = "acted"
              /\ upload' = [upload EXCEPT ![r] = "validated"]
           \/ /\ req'[r].phase = "failed"
              /\ upload' = [upload EXCEPT ![r] = "rejected"] \/ upload' = upload
    BY <1>7, EndMoves DEF Validate, At, SaveUpload, HandlerShape
  <2> QED
    BY <2>1
<1> QED
  BY <1>2, <1>3, <1>4, <1>5, <1>6, <1>7 DEF ImportStep

\* Object and row of every upload stay in step, whatever fails or crashes.
THEOREM UploadInvariance == ServicesSpec => [](ImportTypeOK /\ UploadShape)
<1>1. ServicesInit => ImportTypeOK /\ UploadShape
  BY DEF ServicesInit, HandlersInit, Init, Fresh, ImportInit, ImportTypeOK, UploadShape,
         Performed
<1>2. TypeOK /\ HandlerShape /\ ImportTypeOK /\ UploadShape
        /\ [ServicesNext]_serviceVars => ImportTypeOK' /\ UploadShape'
  <2> SUFFICES ASSUME TypeOK, HandlerShape, ImportTypeOK, UploadShape,
                      [ServicesNext]_serviceVars
               PROVE  ImportTypeOK' /\ UploadShape'
    OBVIOUS
  <2>1. ASSUME NEW r \in Requests, HandlerStep(r), ImportStep(r)
        PROVE  ImportTypeOK' /\ UploadShape'
    BY <2>1, ImportStepKeeps
  <2>2. ASSUME NEW r \in Requests, HandlerStep(r), Kind(r) # "import",
               UNCHANGED importVars
        PROVE  ImportTypeOK' /\ UploadShape'
    <3>1. /\ want' = want /\ UNCHANGED <<objects, upload>>
          /\ \A q \in Requests \ {r} : req'[q] = req[q] /\ step'[q] = step[q]
      BY <2>2, OthersStay DEF importVars
    <3>2. step'[r] \notin {"quarantine", "validate"}
      BY <2>2, <3>1, HandlerShapeKept DEF HandlerShape, ImportSteps, Wants, Kind
    <3> QED
      BY <2>2, <3>1, <3>2 DEF ImportTypeOK, UploadShape, Performed, Wants, Kind
  <2>3. ASSUME NEW r \in Requests, GiveUp(r) \/ Finish(r), UNCHANGED importVars
        PROVE  ImportTypeOK' /\ UploadShape'
    <3>1. /\ want' = want /\ step'[r] = "done"
          /\ \A q \in Requests \ {r} : req'[q] = req[q] /\ step'[q] = step[q]
          /\ \/ req'[r].phase = "failed" /\ req[r].phase \in {"executing", "acted"}
             \/ req[r].phase = "acted" /\ req'[r].phase \in {"finished", "lost"}
      BY <2>3, EndMoves DEF HandlerShape
    <3> QED
      BY <2>3, <3>1 DEF importVars, ImportTypeOK, UploadShape, Performed, Wants, Kind
  <2>4. ASSUME UNCHANGED <<req, want, step, importVars>>
        PROVE  ImportTypeOK' /\ UploadShape'
    BY <2>4 DEF importVars, ImportTypeOK, UploadShape, Performed, Wants, Kind
  <2> QED
    BY <2>1, <2>2, <2>3, <2>4, ServiceCases DEF MemoryKinds
<1> QED
  BY <1>1, <1>2, HandlersInvariance, PTL DEF ServicesSpec

\* A request that was answered with success asks for what its executor asked
\* for, and the executor performed it.
LEMMA ExecutorPerformed ==
  ASSUME TypeOK, HandlerShape, ReplayFaithful, NEW r \in Requests, Succeeded(r)
  PROVE  /\ Executor(r) \in Requests /\ Performed(Executor(r))
         /\ want[Executor(r)] = want[r]
<1>1. CASE req[r].phase = "replayed"
  BY <1>1 DEF ReplayFaithful, Executor, Performed, HandlerShape
<1>2. CASE req[r].phase = "finished"
  BY <1>2 DEF Executor, Performed
<1> QED
  BY <1>1, <1>2 DEF Succeeded

\* Wherever the store fails and requests crash between put, save and
\* validation: rows have their originals, leftovers are accounted for, and an
\* import answered as validated is one.
THEOREM UploadsAreTruthful == ServicesSpec => []UploadTruthful
<1>1. TypeOK /\ HandlerShape /\ ReplayFaithful /\ ImportTypeOK /\ UploadShape
        => UploadTruthful
  <2> SUFFICES ASSUME TypeOK, HandlerShape, ReplayFaithful, ImportTypeOK, UploadShape,
                      NEW r \in Requests
               PROVE  /\ upload[r] # "absent" => r \in objects
                      /\ r \in objects /\ upload[r] \in {"absent", "quarantined"}
                           => req[r].phase \in {"executing", "failed"}
                      /\ upload[r] = "validated" => want[r].content = "clean"
                      /\ Wants(r, "import") /\ Succeeded(r)
                           => upload[Executor(r)] = "validated"
    BY DEF UploadTruthful
  <2>1. upload[r] # "absent" => r \in objects
    BY DEF UploadShape
  <2>2. r \in objects /\ upload[r] \in {"absent", "quarantined"}
          => req[r].phase \in {"executing", "failed"}
    BY DEF UploadShape, HandlerShape, BeforeClaim
  <2>3. upload[r] = "validated" => want[r].content = "clean"
    BY DEF UploadShape
  <2>4. Wants(r, "import") /\ Succeeded(r) => upload[Executor(r)] = "validated"
    BY ExecutorPerformed DEF UploadShape, Wants, Kind
  <2> QED
    BY <2>1, <2>2, <2>3, <2>4
<1> QED
  BY <1>1, HandlersInvariance, ServicesInheritKeys, UploadInvariance, PTL

-----------------------------------------------------------------------------
(***************************************************************************)
(* Playbooks.                                                              *)
(***************************************************************************)

\* One transaction of publish_tenant_playbook: what is stored stays, and who
\* finds or stores guidance found or stored the guidance asked for.
LEMMA PlaybookStepKeeps ==
  ASSUME TypeOK, HandlerShape, PlaybooksTypeOK, GuidanceKept,
         NEW r \in Requests, PlaybookStep(r), HandlerStep(r)
  PROVE  PlaybooksTypeOK' /\ GuidanceKept'
<1>1. /\ want' = want /\ Kind(r) = "publish"
      /\ \A q \in Requests \ {r} : req'[q] = req[q] /\ step'[q] = step[q]
  BY OthersStay, KindsOfSteps
<1>2. \A q \in Requests : Wants(q, "publish") =>
        /\ want[q] \in Fingerprints /\ want[q].playbook \in PlaybookIds
        /\ want[q].text \in Texts /\ want[q].text # None
  BY PublicationsTyped, NoneIsNoKind DEF HandlerShape, Wants, Kind, Kinds
<1> USE <1>1, <1>2 DEF PlaybooksTypeOK, GuidanceKept, Performed, Wants, Kind
<1>3. CASE LookUp(r)
  <2>1. /\ UNCHANGED <<guidance, req>>
        /\ step'[r] = "found" => guidance[want[r].playbook] = want[r].text
    BY <1>3 DEF LookUp, Before, Continue, GoTo, vars, HandlerShape
  <2> QED
    BY <1>3, <2>1 DEF LookUp, Before
<1>4. CASE ClaimPublication(r)
  <2>1. ~Performed(r)' /\ step'[r] \in {"insert", "done"} /\ UNCHANGED guidance
    BY <1>4, ClaimMoves DEF ClaimPublication, HandlerShape
  <2> QED
    BY <2>1
<1>5. CASE Insert(r)
  <2> DEFINE h == want[r]
  <2>1. /\ guidance' = [guidance EXCEPT ![h.playbook] = Stored(h)]
        /\ step'[r] = "done"
        /\ req'[r].phase # "failed" => Stored(h) = h.text
    BY <1>5, EndMoves DEF Insert, At, HandlerShape
  <2>2. /\ Stored(h) \in Texts \cup {None}
        /\ guidance[h.playbook] # None => Stored(h) = guidance[h.playbook]
    BY DEF Stored
  <2>3. \A b \in PlaybookIds : guidance[b] # None => guidance'[b] = guidance[b]
    BY <2>1, <2>2
  <2>4. Performed(r)' => guidance'[h.playbook] = h.text
    BY <2>1
  <2> QED
    BY <2>1, <2>2, <2>3, <2>4
<1> QED
  BY <1>3, <1>4, <1>5 DEF PlaybookStep

\* The guidance stored for a playbook version is what every successful
\* publication of it asked for, in all interleavings of lookups and inserts.
THEOREM PublicationInvariance == ServicesSpec => [](PlaybooksTypeOK /\ GuidanceKept)
<1>1. ServicesInit => PlaybooksTypeOK /\ GuidanceKept
  BY DEF ServicesInit, HandlersInit, Init, Fresh, PlaybooksInit, PlaybooksTypeOK,
         GuidanceKept, Performed
<1>2. TypeOK /\ HandlerShape /\ PlaybooksTypeOK /\ GuidanceKept
        /\ [ServicesNext]_serviceVars => PlaybooksTypeOK' /\ GuidanceKept'
  <2> SUFFICES ASSUME TypeOK, HandlerShape, PlaybooksTypeOK, GuidanceKept,
                      [ServicesNext]_serviceVars
               PROVE  PlaybooksTypeOK' /\ GuidanceKept'
    OBVIOUS
  <2>1. ASSUME NEW r \in Requests, HandlerStep(r), PlaybookStep(r)
        PROVE  PlaybooksTypeOK' /\ GuidanceKept'
    BY <2>1, PlaybookStepKeeps
  <2>2. ASSUME NEW r \in Requests, HandlerStep(r), Kind(r) # "publish",
               UNCHANGED guidance
        PROVE  PlaybooksTypeOK' /\ GuidanceKept'
    BY <2>2, OthersStay DEF PlaybooksTypeOK, GuidanceKept, Performed, Wants, Kind
  <2>3. ASSUME NEW r \in Requests, GiveUp(r) \/ Finish(r), UNCHANGED guidance
        PROVE  PlaybooksTypeOK' /\ GuidanceKept'
    <3>1. /\ want' = want /\ step'[r] = "done"
          /\ \A q \in Requests \ {r} : req'[q] = req[q] /\ step'[q] = step[q]
          /\ \/ req'[r].phase = "failed"
             \/ req[r].phase = "acted"
      BY <2>3, EndMoves DEF HandlerShape
    <3> QED
      BY <2>3, <3>1 DEF PlaybooksTypeOK, GuidanceKept, Performed, Wants, Kind
  <2>4. ASSUME UNCHANGED <<req, want, step, guidance>>
        PROVE  PlaybooksTypeOK' /\ GuidanceKept'
    BY <2>4 DEF PlaybooksTypeOK, GuidanceKept, Performed, Wants, Kind
  <2> QED
    BY <2>1, <2>2, <2>3, <2>4, ServiceCases DEF MemoryKinds
<1> QED
  BY <1>1, <1>2, HandlersInvariance, PTL DEF ServicesSpec

\* A publication answered with success, at the lookup, by its insert or by a
\* replay, is the guidance that is stored.
THEOREM PublicationsAreStored == ServicesSpec => []PublishedIsStored
<1>1. TypeOK /\ HandlerShape /\ ReplayFaithful /\ PlaybooksTypeOK /\ GuidanceKept
        => PublishedIsStored
  <2> SUFFICES ASSUME TypeOK, HandlerShape, ReplayFaithful, PlaybooksTypeOK,
                      GuidanceKept, NEW r \in Requests, Wants(r, "publish"),
                      Succeeded(r) \/ step[r] = "found"
               PROVE  guidance[want[r].playbook] = want[r].text
    BY DEF PublishedIsStored
  <2>1. CASE Succeeded(r)
    BY <2>1, ExecutorPerformed DEF GuidanceKept, Wants, Kind
  <2>2. CASE step[r] = "found"
    BY <2>2 DEF GuidanceKept
  <2> QED
    BY <2>1, <2>2
<1> QED
  BY <1>1, HandlersInvariance, ServicesInheritKeys, PublicationInvariance, PTL

-----------------------------------------------------------------------------
(***************************************************************************)
(* Traveler memory.                                                        *)
(***************************************************************************)

\* What a request about memory names exists.
LEMMA MemoryTargets ==
  ASSUME HandlerShape, NEW r \in Requests, Kind(r) \in MemoryKinds
  PROVE  /\ want[r] \in Fingerprints /\ TravelerBy(want[r]) \in Travelers
         /\ Kind(r) \in {"propose", "confirm"} => want[r].proposal \in Proposals
         /\ Kind(r) = "propose" => want[r].status \in ProposalStatus
<1>1. want[r] \in Fingerprints /\ Kind(r) = want[r].kind
  BY NoneIsNoKind DEF HandlerShape, Kind, MemoryKinds, Kinds
<1> QED
  BY <1>1, MemoryRequestsTyped, ProposalsTyped DEF MemoryKinds, TravelerBy

\* A change merged into a profile is a profile.
LEMMA MergedIsProfile ==
  ASSUME NEW base \in Profile \cup {None}, NEW h \in Fingerprints
  PROVE  Merged(base, h) \in Profile
<1>1. CASE base = None
  BY <1>1 DEF Merged, Profile
<1>2. CASE base \in Profile /\ base # None
  BY <1>2 DEF Merged, Profile
<1> QED
  BY <1>1, <1>2

LEMMA OutdatedIsTyped ==
  ASSUME MemoryTypeOK, NEW r \in Requests, NEW t
  PROVE  Outdated(r, t) \in [Requests -> [profile : Profile \cup {None}, fresh : BOOLEAN,
                                          status : ProposalStatus \cup {None}]]
BY DEF MemoryTypeOK, Outdated, Unseen

\* The rows of traveler memory keep their types.
LEMMA MemoryTypeKept ==
  ASSUME HandlerShape, MemoryTypeOK, NEW r \in Requests, MemoryStep(r)
  PROVE  MemoryTypeOK'
<1>1. /\ want[r] \in Fingerprints /\ TravelerBy(want[r]) \in Travelers
      /\ Kind(r) \in {"propose", "confirm"} => want[r].proposal \in Proposals
  BY MemoryTargets, KindsOfSteps
<1>2. CASE UNCHANGED memoryVars
  BY <1>2 DEF memoryVars, MemoryTypeOK
<1>3. CASE ReadProposal(r)
  <2>1. want[r].proposal \in Proposals
    BY <1>1, <1>3 DEF ReadProposal, Before, HandlerShape, Wants
  <2>2. CASE proposal[want[r].proposal] = "absent"
    BY <1>3, <2>2 DEF ReadProposal, MemoryTypeOK
  <2>3. CASE proposal[want[r].proposal] # "absent"
    <3>1. proposal[want[r].proposal] \in ProposalStatus
      BY <2>1, <2>3 DEF MemoryTypeOK
    <3>2. /\ seen' = [seen EXCEPT ![r].status = proposal[want[r].proposal]]
          /\ again' \subseteq again \cup {r}
          /\ UNCHANGED <<profile, proposal, audit, log, stale, saved, resolved>>
      BY <1>3, <2>3 DEF ReadProposal
    <3>3. seen' \in [Requests -> [profile : Profile \cup {None}, fresh : BOOLEAN,
                                  status : ProposalStatus \cup {None}]]
      BY <3>1, <3>2 DEF MemoryTypeOK
    <3> QED
      BY <3>2, <3>3 DEF MemoryTypeOK
  <2> QED
    BY <2>2, <2>3
<1>4. CASE ReadProfile(r)
  BY <1>1, <1>4 DEF ReadProfile, MemoryTypeOK
<1>5. CASE SaveProfile(r)
  <2>1. Merged(seen[r].profile, want[r]) \in Profile
    BY <1>1, MergedIsProfile DEF MemoryTypeOK
  <2>2. seen' \in [Requests -> [profile : Profile \cup {None}, fresh : BOOLEAN,
                                status : ProposalStatus \cup {None}]]
    BY <1>5, OutdatedIsTyped DEF SaveProfile
  <2> QED
    BY <1>1, <1>5, <2>1, <2>2 DEF SaveProfile, MemoryTypeOK
<1>6. CASE SaveProposal(r)
  <2>1. StatusToSave(r) \in ProposalStatus /\ want[r].proposal \in Proposals
    BY <1>1, <1>6, MemoryTargets, KindsOfSteps
       DEF SaveProposal, StatusToSave, ProposalStatus, Wants, MemoryKinds
  <2> QED
    BY <1>6, <2>1 DEF SaveProposal, MemoryTypeOK
<1>7. CASE EraseMemory(r)
  <2>2. seen' \in [Requests -> [profile : Profile \cup {None}, fresh : BOOLEAN,
                                status : ProposalStatus \cup {None}]]
    BY <1>7, OutdatedIsTyped DEF EraseMemory
  <2> QED
    BY <1>1, <1>7, <2>2 DEF EraseMemory, MemoryTypeOK
<1>8. CASE RecordAudit(r)
  BY <1>8 DEF RecordAudit, MemoryTypeOK
<1> QED
  BY <1>2, <1>3, <1>4, <1>5, <1>6, <1>7, <1>8
     DEF MemoryStep, ReadSwitch, CheckHold, ClaimMemory, RefuseConfirmation

\* One transaction of a handler of traveler memory keeps change, proposal and
\* audit record in order.
LEMMA MemoryStepKeeps ==
  ASSUME TypeOK, HandlerShape, MemoryTypeOK, MemoryShape,
         NEW r \in Requests, MemoryStep(r), HandlerStep(r)
  PROVE  MemoryShape'
<1>1. /\ want' = want /\ Kind(r) \in MemoryKinds
      /\ \A q \in Requests \ {r} : req'[q] = req[q] /\ step'[q] = step[q]
  BY OthersStay, KindsOfSteps
<1>2. \A q \in Requests : Kind(q)' = Kind(q)
  BY <1>1 DEF Kind
<1>3. ASSUME saved \subseteq saved'
      PROVE  /\ \A p, kind : SavedOf(p, kind) \subseteq SavedOf(p, kind)'
             /\ \A p, status : PostedAs(p, status) => PostedAs(p, status)'
  BY <1>1, <1>3 DEF SavedOf, PostedAs, Wants, Kind
<1>4. Wants(r, "confirm") => want[r].proposal \in Proposals
  BY <1>1, MemoryTargets DEF Wants
<1> USE <1>1, <1>2 DEF Performed, Wants
<1>5. ASSUME UNCHANGED <<saved, audit, proposal>>,
             step'[r] \notin {"resolve", "audit"}, ~Performed(r)',
             r \in saved => req'[r].phase \notin {"new", "replayed"}
      PROVE  MemoryShape'
  BY <1>3, <1>5 DEF MemoryShape
<1>6. CASE ReadSwitch(r) \/ CheckHold(r)
  <2>1. /\ UNCHANGED <<saved, audit, proposal, req>> /\ req[r].phase = "new"
        /\ step'[r] \in {"done", "claim", "proposal"}
    BY <1>6
       DEF ReadSwitch, CheckHold, Before, Continue, GoTo, vars, memoryVars, HandlerShape
  <2> QED
    BY <1>5, <2>1 DEF MemoryShape
<1>7. CASE ReadProposal(r)
  <2>1. /\ UNCHANGED <<saved, audit, proposal, req>> /\ req[r].phase = "new"
        /\ step'[r] \in {"done", "claim"}
    BY <1>7 DEF ReadProposal, Before, Continue, GoTo, vars, HandlerShape
  <2> QED
    BY <1>5, <2>1 DEF MemoryShape
<1>8. CASE ClaimMemory(r)
  <2>1. /\ UNCHANGED <<saved, audit, proposal>> /\ req[r].phase = "new"
        /\ step'[r] \in {"profile", "save", "done"} /\ ~Performed(r)'
    BY <1>8, ClaimMoves DEF ClaimMemory, FirstStep, memoryVars, HandlerShape
  <2> QED
    BY <1>5, <2>1 DEF MemoryShape
<1>9. CASE ReadProfile(r)
  <2>1. /\ UNCHANGED <<saved, audit, proposal, req>> /\ req[r].phase = "executing"
        /\ step'[r] = "save"
    BY <1>9 DEF ReadProfile, At, After, Continue, GoTo, vars, HandlerShape
  <2> QED
    BY <1>5, <2>1
<1>10. CASE RefuseConfirmation(r)
  <2>1. /\ UNCHANGED <<saved, audit, proposal>> /\ req'[r].phase = "failed"
        /\ step'[r] = "done"
    BY <1>10, EndMoves DEF RefuseConfirmation, memoryVars, HandlerShape
  <2> QED
    BY <1>5, <2>1
<1>11. CASE SaveProfile(r)
  <2>1. /\ saved' = saved \cup {r} /\ UNCHANGED <<audit, proposal, req>>
        /\ req[r].phase = "executing"
        /\ step'[r] = IF Kind(r) = "confirm" THEN "resolve" ELSE "audit"
    BY <1>11 DEF SaveProfile, At, After, Continue, GoTo, vars, HandlerShape
  <2>2. /\ \A p, kind : SavedOf(p, kind) \subseteq SavedOf(p, kind)'
        /\ \A p, status : PostedAs(p, status) => PostedAs(p, status)'
    BY <1>3, <2>1
  <2> QED
    BY <2>1, <2>2 DEF MemoryShape
<1>12. CASE SaveProposal(r) /\ Kind(r) = "propose"
  <2>1. /\ saved' = saved \cup {r} /\ UNCHANGED <<audit, req>>
        /\ req[r].phase = "executing" /\ step'[r] = "audit"
        /\ proposal' = [proposal EXCEPT ![want[r].proposal] = want[r].status]
    BY <1>12 DEF SaveProposal, StatusToSave, At, Continue, GoTo, vars, HandlerShape
  <2>2. /\ \A p, kind : SavedOf(p, kind) \subseteq SavedOf(p, kind)'
        /\ \A p, status : PostedAs(p, status) => PostedAs(p, status)'
    BY <1>3, <2>1
  <2>3. PostedAs(want[r].proposal, want[r].status)'
    BY <1>12, <2>1 DEF SavedOf, PostedAs
  <2>4. \A p \in Proposals : proposal'[p] # proposal[p] =>
          p = want[r].proposal /\ proposal'[p] = want[r].status
    BY <2>1 DEF MemoryTypeOK
  <2>5. \A q \in Requests : Kind(q) = "confirm" => want[q].proposal \in Proposals
    BY MemoryTargets DEF MemoryKinds
  <2> QED
    BY <1>12, <2>1, <2>2, <2>3, <2>4, <2>5 DEF MemoryShape
<1>13. CASE SaveProposal(r) /\ Kind(r) = "confirm"
  <2>1. /\ UNCHANGED <<saved, audit, req>> /\ step[r] = "resolve"
        /\ req[r].phase = "executing" /\ step'[r] = "audit"
        /\ proposal' = [proposal EXCEPT ![want[r].proposal] = "confirmed"]
    BY <1>13 DEF SaveProposal, StatusToSave, At, After, Continue, GoTo, vars, HandlerShape
  <2>2. /\ \A p, kind : SavedOf(p, kind) \subseteq SavedOf(p, kind)'
        /\ \A p, status : PostedAs(p, status) => PostedAs(p, status)'
    BY <1>3, <2>1
  <2>3. r \in SavedOf(want[r].proposal, "confirm")
    BY <1>13, <2>1 DEF SavedOf, MemoryShape
  <2>4. \A p \in Proposals : \/ proposal'[p] = proposal[p]
                             \/ p = want[r].proposal /\ proposal'[p] = "confirmed"
    BY <2>1 DEF MemoryTypeOK
  <2>5. \A q \in Requests : Kind(q) = "confirm" => want[q].proposal \in Proposals
    BY MemoryTargets DEF MemoryKinds
  <2>6. proposal'[want[r].proposal] # "pending"
    BY <1>4, <1>13, <2>1 DEF MemoryTypeOK
  <2> QED
    BY <1>13, <2>1, <2>2, <2>3, <2>4, <2>5, <2>6 DEF MemoryShape
<1>14. CASE EraseMemory(r)
  <2>1. /\ saved' = saved \cup {r} /\ UNCHANGED <<audit, req>>
        /\ req[r].phase = "executing" /\ step'[r] = "audit" /\ Kind(r) = "erase"
        /\ \A p \in Proposals : proposal'[p] # proposal[p] => proposal'[p] = "absent"
    BY <1>14 DEF EraseMemory, At, Continue, GoTo, vars, HandlerShape
  <2>2. /\ \A p, kind : SavedOf(p, kind) \subseteq SavedOf(p, kind)'
        /\ \A p, status : PostedAs(p, status) => PostedAs(p, status)'
    BY <1>3, <2>1
  <2>5. \A q \in Requests : Kind(q) = "confirm" => want[q].proposal \in Proposals
    BY MemoryTargets DEF MemoryKinds
  <2> QED
    BY <2>1, <2>2, <2>5 DEF MemoryShape
<1>15. CASE RecordAudit(r)
  <2>1. /\ audit' = audit \cup {r} /\ UNCHANGED <<saved, proposal>>
        /\ step[r] = "audit" /\ step'[r] = "done" /\ req'[r].phase = "acted"
    BY <1>15, EndMoves DEF RecordAudit, At, HandlerShape
  <2>2. /\ \A p, kind : SavedOf(p, kind) \subseteq SavedOf(p, kind)'
        /\ \A p, status : PostedAs(p, status) => PostedAs(p, status)'
    BY <1>3, <2>1
  <2> QED
    BY <2>1, <2>2 DEF MemoryShape
<1> QED
  BY <1>6, <1>7, <1>8, <1>9, <1>10, <1>11, <1>12, <1>13, <1>14, <1>15
     DEF MemoryStep, SaveProposal

\* Change, proposal and audit record stay in order in every interleaving of the
\* memory handlers, with crashes between their transactions.
THEOREM MemoryInvariance == ServicesSpec => [](MemoryTypeOK /\ MemoryShape)
<1>1. ServicesInit => MemoryTypeOK /\ MemoryShape
  BY ProposalsTyped
     DEF ServicesInit, HandlersInit, Init, Fresh, MemoryInit, MemoryTypeOK, MemoryShape,
         ProposalStatus, Performed, Unseen
<1>2. TypeOK /\ HandlerShape /\ MemoryTypeOK /\ MemoryShape
        /\ [ServicesNext]_serviceVars => MemoryTypeOK' /\ MemoryShape'
  <2> SUFFICES ASSUME TypeOK, HandlerShape, MemoryTypeOK, MemoryShape,
                      [ServicesNext]_serviceVars
               PROVE  MemoryTypeOK' /\ MemoryShape'
    OBVIOUS
  <2>1. ASSUME NEW r \in Requests, HandlerStep(r), MemoryStep(r)
        PROVE  MemoryTypeOK' /\ MemoryShape'
    BY <2>1, MemoryTypeKept, MemoryStepKeeps
  <2> USE DEF MemoryTypeOK, MemoryShape, Performed, Wants, memoryVars
  <2>5. ASSUME want' = want, saved' = saved
        PROVE  /\ \A q \in Requests : Kind(q)' = Kind(q)
               /\ \A p, kind : SavedOf(p, kind)' = SavedOf(p, kind)
               /\ \A p, status : PostedAs(p, status)' <=> PostedAs(p, status)
    BY <2>5 DEF SavedOf, PostedAs, Kind
  <2>2. ASSUME NEW r \in Requests, HandlerStep(r), Kind(r) \notin MemoryKinds,
               UNCHANGED memoryVars
        PROVE  MemoryTypeOK' /\ MemoryShape'
    <3>1. /\ want' = want
          /\ \A q \in Requests \ {r} : req'[q] = req[q] /\ step'[q] = step[q]
      BY <2>2, OthersStay
    <3>2. step'[r] \notin {"resolve", "audit"}
      BY <2>2, <2>5, <3>1, HandlerShapeKept DEF HandlerShape, MemorySteps
    <3> QED
      BY <2>2, <2>5, <3>1, <3>2 DEF MemoryKinds
  <2>3. ASSUME NEW r \in Requests, GiveUp(r) \/ Finish(r), UNCHANGED memoryVars
        PROVE  MemoryTypeOK' /\ MemoryShape'
    <3>1. /\ want' = want /\ step'[r] = "done"
          /\ \A q \in Requests \ {r} : req'[q] = req[q] /\ step'[q] = step[q]
          /\ \/ req'[r].phase = "failed"
             \/ req[r].phase = "acted" /\ req'[r].phase \in {"finished", "lost"}
      BY <2>3, EndMoves DEF HandlerShape
    <3>2. MemoryTypeOK' /\ \A q \in Requests : Kind(q)' = Kind(q)
      BY <2>3, <2>5, <3>1
    <3>3. Performed(r)' => Performed(r)
      BY <3>1
    <3>5. \A q \in Requests : /\ Performed(q)' => Performed(q)
                              /\ step'[q] # "done" => step'[q] = step[q]
                              /\ req'[q].phase \in {"new", "replayed"}
                                   => req'[q].phase = req[q].phase
      BY <3>1, <3>3
    <3>6. UNCHANGED <<saved, audit, proposal>>
      BY <2>3
    <3>4. MemoryShape'
      <4> HIDE DEF Performed, memoryVars, MemoryTypeOK
      <4> QED
        BY <2>5, <3>1, <3>2, <3>5, <3>6
    <3> QED
      BY <3>2, <3>4
  <2>4. ASSUME UNCHANGED <<req, want, step, memoryVars>>
        PROVE  MemoryTypeOK' /\ MemoryShape'
    BY <2>4, <2>5
  <2> HIDE DEF MemoryTypeOK, MemoryShape, Performed, Wants, memoryVars
  <2> QED
    BY <2>1, <2>2, <2>3, <2>4, ServiceCases DEF MemoryKinds
<1> QED
  BY <1>1, <1>2, HandlersInvariance, PTL DEF ServicesSpec

\* A proposal reads "confirmed" only when its patch was saved or it was posted
\* so; an answered confirmation is undone only by posting the proposal again; and the audit
\* trail names exactly what was saved, up to the changes whose request failed
\* before it was answered.
THEOREM ConfirmationsAreSaved == ServicesSpec => []ConfirmedMeansSaved
<1>1. TypeOK /\ HandlerShape /\ ReplayFaithful /\ MemoryTypeOK /\ MemoryShape
        => ConfirmedMeansSaved
  <2> SUFFICES ASSUME TypeOK, HandlerShape, ReplayFaithful, MemoryTypeOK, MemoryShape
               PROVE  ConfirmedMeansSaved
    OBVIOUS
  <2>1. ASSUME NEW p \in Proposals
        PROVE  /\ proposal[p] = "confirmed" =>
                    SavedOf(p, "confirm") # {} \/ PostedAs(p, "confirmed")
               /\ proposal[p] = "pending"
                    /\ (\E r \in SavedOf(p, "confirm") : Succeeded(r))
                    => PostedAs(p, "pending")
    <3>1. proposal[p] = "confirmed" =>
            SavedOf(p, "confirm") # {} \/ PostedAs(p, "confirmed")
      BY DEF MemoryShape
    <3>2. ASSUME proposal[p] = "pending",
                 NEW r \in SavedOf(p, "confirm"), Succeeded(r)
          PROVE  PostedAs(p, "pending")
      <4>1. /\ r \in Requests /\ Wants(r, "confirm") /\ want[r].proposal = p
            /\ req[r].phase # "replayed"
        BY <3>2 DEF SavedOf, MemoryTypeOK, MemoryShape
      <4> QED
        BY <3>2, <4>1 DEF Succeeded, Performed, MemoryShape
    <3> QED
      BY <3>1, <3>2
  <2>2. audit \subseteq saved
    BY DEF MemoryShape
  <2>3. ASSUME NEW r \in Requests, Succeeded(r), Kind(r) \in MemoryKinds
        PROVE  Executor(r) \in audit
    BY <2>3, ExecutorPerformed DEF MemoryShape, Kind
  <2> QED
    BY <2>1, <2>2, <2>3 DEF ConfirmedMeansSaved, SavedOf, PostedAs
<1> QED
  BY <1>1, HandlersInvariance, ServicesInheritKeys, MemoryInvariance, PTL

-----------------------------------------------------------------------------
(***************************************************************************)
(* Confirmations that come after another one.                              *)
(***************************************************************************)

\* A transaction of a memory handler leaves a proposal that was confirmed
\* confirmed until it is posted again, and who read it so never saves.
LEMMA ResolvedStepKeeps ==
  ASSUME TypeOK, HandlerShape, MemoryTypeOK, MemoryShape, ResolvedShape,
         NEW r \in Requests, MemoryStep(r), HandlerStep(r)
  PROVE  ResolvedShape'
<1>1. /\ want' = want /\ Kind(r) \in MemoryKinds
      /\ \A q \in Requests \ {r} : step'[q] = step[q]
      /\ Kind(r) \in {"propose", "confirm"} => want[r].proposal \in Proposals
  BY OthersStay, KindsOfSteps, MemoryTargets
<1>2. \A q \in Requests : \A kind : Wants(q, kind)' <=> Wants(q, kind)
  BY <1>1 DEF Wants, Kind
<1>3. ASSUME UNCHANGED <<proposal, resolved, again>>,
             \A q \in Requests : seen'[q].status = seen[q].status \/ q = r,
             r \notin again, saved' \subseteq saved \cup {r}
      PROVE  ResolvedShape'
  BY <1>1, <1>2, <1>3 DEF ResolvedShape, MemoryTypeOK
<1>4. CASE ReadSwitch(r) \/ CheckHold(r)
  BY <1>3, <1>4 DEF ReadSwitch, CheckHold, Before, memoryVars, ResolvedShape
<1>5. CASE ReadProposal(r)
  <2>1. /\ step[r] = "proposal" /\ r \notin saved /\ Wants(r, "confirm")
        /\ UNCHANGED <<proposal, saved, resolved>>
        /\ again' \subseteq again \cup {r}
        /\ r \in again' => r \in again \/ want[r].proposal \in resolved
        /\ \A q \in Requests \ {r} : seen'[q] = seen[q]
    BY <1>5 DEF ReadProposal, Before, HandlerShape, MemoryShape, MemoryTypeOK
  <2>2. ASSUME want[r].proposal \in resolved
        PROVE  seen'[r].status = "confirmed" /\ step'[r] = "claim"
    <3>1. proposal[want[r].proposal] = "confirmed"
      BY <2>2 DEF ResolvedShape
    <3> QED
      BY <1>5, <3>1
         DEF ReadProposal, Continue, GoTo, MemoryTypeOK, HandlerShape
  <2>3. r \notin again
    BY <2>1 DEF ResolvedShape
  <2> QED
    BY <1>1, <1>2, <2>1, <2>2, <2>3 DEF ResolvedShape, MemoryTypeOK
<1>6. CASE ClaimMemory(r)
  <2>1. step'[r] \in {FirstStep(r), "done"} /\ UNCHANGED memoryVars
    BY <1>6, ClaimMoves DEF ClaimMemory, HandlerShape
  <2>2. Wants(r, "confirm") => step'[r] \in {"profile", "done"}
    BY <2>1 DEF FirstStep, Wants
  <2> QED
    BY <1>1, <1>2, <2>1, <2>2 DEF memoryVars, ResolvedShape, MemoryTypeOK
<1>7. CASE ReadProfile(r)
  <2>1. r \notin again
    BY <1>7 DEF ReadProfile, Acceptable, ResolvedShape
  <2>2. \A q \in Requests : seen'[q].status = seen[q].status
    BY <1>7 DEF ReadProfile, MemoryTypeOK
  <2> QED
    BY <1>3, <1>7, <2>1, <2>2 DEF ReadProfile
<1>8. CASE RefuseConfirmation(r)
  <2>1. step'[r] = "done" /\ UNCHANGED memoryVars
    BY <1>8, EndMoves DEF RefuseConfirmation, HandlerShape
  <2> QED
    BY <1>1, <1>2, <2>1 DEF memoryVars, ResolvedShape, MemoryTypeOK
<1>9. CASE SaveProfile(r)
  <2>1. r \notin again
    BY <1>9 DEF SaveProfile, At, ResolvedShape
  <2>2. \A q \in Requests \ {r} : seen'[q].status = seen[q].status
    BY <1>9 DEF SaveProfile, Outdated, MemoryTypeOK
  <2> QED
    BY <1>3, <1>9, <2>1, <2>2 DEF SaveProfile
<1>10. CASE SaveProposal(r)
  <2>1. r \notin again
    BY <1>10 DEF SaveProposal, At, ResolvedShape
  <2>2. /\ UNCHANGED <<again, seen>> /\ saved' \subseteq saved \cup {r}
        /\ proposal' = [proposal EXCEPT ![want[r].proposal] = StatusToSave(r)]
        /\ Wants(r, "propose") => resolved' = resolved \ {want[r].proposal}
        /\ Wants(r, "confirm") => resolved' = resolved \cup {want[r].proposal}
        /\ Wants(r, "propose") \/ Wants(r, "confirm")
    BY <1>10, Zenon DEF SaveProposal, Wants
  <2>3. \A p \in resolved' : proposal'[p] = "confirmed"
    BY <1>1, <2>2 DEF StatusToSave, Wants, ResolvedShape, MemoryTypeOK
  <2> QED
    BY <1>1, <1>2, <2>1, <2>2, <2>3 DEF ResolvedShape, MemoryTypeOK
<1>11. CASE EraseMemory(r)
  <2>1. r \notin again /\ again' = again /\ saved' = saved \cup {r}
    BY <1>11 DEF EraseMemory, At, ResolvedShape
  <2>2. \A q \in Requests \ {r} : seen'[q].status = seen[q].status
    BY <1>11 DEF EraseMemory, Outdated, MemoryTypeOK
  <2>3. \A p \in resolved' : p \in resolved /\ proposal'[p] = proposal[p]
    BY <1>11 DEF EraseMemory, MemoryTypeOK
  <2> QED
    BY <1>1, <1>2, <2>1, <2>2, <2>3 DEF ResolvedShape, MemoryTypeOK
<1>12. CASE RecordAudit(r)
  BY <1>3, <1>12 DEF RecordAudit, At, ResolvedShape
<1> QED
  BY <1>4, <1>5, <1>6, <1>7, <1>8, <1>9, <1>10, <1>11, <1>12 DEF MemoryStep

\* confirm_memory_proposal applies a patch a second time only when two
\* confirmations overlap or the proposal was posted again in between: the status
\* that one saved last is the one the next reads, wherever either is lost.
THEOREM PatchesApplyOnce == ServicesSpec => []AppliedAgainOnlyByOverlap
<1>1. ServicesInit => ResolvedShape
  BY DEF ServicesInit, MemoryInit, ResolvedShape
<1>2. TypeOK /\ HandlerShape /\ MemoryTypeOK /\ MemoryShape /\ ResolvedShape
        /\ [ServicesNext]_serviceVars => ResolvedShape'
  <2> SUFFICES ASSUME TypeOK, HandlerShape, MemoryTypeOK, MemoryShape, ResolvedShape,
                      [ServicesNext]_serviceVars
               PROVE  ResolvedShape'
    OBVIOUS
  <2>1. ASSUME NEW r \in Requests, HandlerStep(r), MemoryStep(r) PROVE ResolvedShape'
    BY <2>1, ResolvedStepKeeps
  <2>2. ASSUME want' = want, UNCHANGED memoryVars,
               \A q \in again : step'[q] \in {step[q], "done"}
        PROVE  ResolvedShape'
    BY <2>2 DEF memoryVars, ResolvedShape, Wants, Kind
  <2>3. ASSUME NEW r \in Requests, HandlerStep(r), Kind(r) \notin MemoryKinds,
               UNCHANGED memoryVars
        PROVE  ResolvedShape'
    <3>1. r \notin again
      BY <2>3 DEF ResolvedShape, Wants, MemoryKinds
    <3> QED
      BY <2>2, <2>3, <3>1, OthersStay DEF MemoryTypeOK
  <2>4. ASSUME NEW r \in Requests, GiveUp(r) \/ Finish(r), UNCHANGED memoryVars
        PROVE  ResolvedShape'
    BY <2>2, <2>4, EndMoves DEF MemoryTypeOK, HandlerShape
  <2>5. ASSUME UNCHANGED <<req, want, step, memoryVars>> PROVE ResolvedShape'
    BY <2>2, <2>5
  <2> QED
    BY <2>1, <2>3, <2>4, <2>5, ServiceCases DEF MemoryKinds
<1>3. ResolvedShape => AppliedAgainOnlyByOverlap
  BY DEF ResolvedShape, AppliedAgainOnlyByOverlap
<1> QED
  BY <1>1, <1>2, <1>3, HandlersInvariance, MemoryInvariance, PTL DEF ServicesSpec

-----------------------------------------------------------------------------
(***************************************************************************)
(* The profile as the replay of its changes.                               *)
(***************************************************************************)

\* A set of positions in a sequence has a last one.
LEMMA LastPosition ==
  ASSUME NEW n \in Nat, NEW S \in SUBSET (1 .. n), S # {}
  PROVE  \E x \in S : \A y \in S : x >= y
<1> DEFINE T == {m \in Nat : n - m \in S}
<1>1. T \subseteq Nat /\ T # {}
  <2> PICK x \in S : TRUE
    OBVIOUS
  <2>1. n - x \in Nat /\ n - (n - x) = x
    OBVIOUS
  <2> QED
    BY <2>1
<1>2. PICK z \in T : \A y \in T : ~ (<<y, z>> \in OpToRel(<, Nat))
  <2> HIDE DEF T
  <2> QED
    BY <1>1, WFMin, NatLessThanWellFounded
<1>3. \A y \in T : z <= y
  <2> SUFFICES ASSUME NEW y \in T, y < z PROVE FALSE
    BY <1>1
  <2>1. <<y, z>> \in OpToRel(<, Nat)
    BY <1>1, <1>2 DEF OpToRel
  <2> QED
    BY <1>2, <2>1
<1>4. ASSUME NEW y \in S PROVE n - z >= y
  <2>1. n - y \in Nat /\ n - (n - y) = y
    OBVIOUS
  <2>2. z <= n - y /\ z \in Nat /\ y \in Nat
    BY <1>1, <1>3, <2>1
  <2> QED
    BY <2>2
<1> QED
  BY <1>2, <1>4

\* The changes of s that set f.
Setters(s, f) == {i \in 1 .. Len(s) : f \in Changed(s[i])}

LEMMA ReplayBySetters ==
  ASSUME NEW s
  PROVE  Replay(s) = [version |-> Len(s),
                      by |-> [f \in Fields |-> IF Setters(s, f) = {} THEN None
                                               ELSE s[Max(Setters(s, f))]]]
BY DEF Replay, Setters

\* The last setter is one: Max chooses a member.
LEMMA LastSetter ==
  ASSUME NEW s \in Seq(Fingerprints), NEW f, Setters(s, f) # {}
  PROVE  /\ Max(Setters(s, f)) \in Setters(s, f)
         /\ \A i \in Setters(s, f) : Max(Setters(s, f)) >= i
<1>1. Setters(s, f) \in SUBSET (1 .. Len(s)) /\ Len(s) \in Nat
  BY DEF Setters
<1>2. \E x \in Setters(s, f) : \A y \in Setters(s, f) : x >= y
  BY <1>1, LastPosition
<1> QED
  BY <1>2 DEF Max

\* The replay of one change more is that change merged into the replay.
LEMMA ReplayGrows ==
  ASSUME NEW s \in Seq(Fingerprints), NEW h \in Fingerprints
  PROVE  Replay(Append(s, h)) = Merged(IF s = <<>> THEN None ELSE Replay(s), h)
<1> DEFINE n == Len(s)
           e == Append(s, h)
           By(f) == IF Setters(s, f) = {} THEN None ELSE s[Max(Setters(s, f))]
<1>1. /\ n \in Nat /\ e \in Seq(Fingerprints) /\ Len(e) = n + 1
      /\ e[n + 1] = h /\ \A i \in 1 .. n : e[i] = s[i]
  OBVIOUS
<1>2. ASSUME NEW f, f \in Changed(h)
      PROVE  Setters(e, f) # {} /\ e[Max(Setters(e, f))] = h
  <2>1. n + 1 \in Setters(e, f)
    BY <1>1, <1>2 DEF Setters
  <2>2. Max(Setters(e, f)) \in 1 .. n + 1 /\ Max(Setters(e, f)) >= n + 1
    BY <1>1, <2>1, LastSetter DEF Setters
  <2> QED
    BY <1>1, <2>1, <2>2
<1>3. ASSUME NEW f, f \notin Changed(h)
      PROVE  /\ Setters(e, f) = Setters(s, f)
             /\ Setters(s, f) # {} => e[Max(Setters(s, f))] = s[Max(Setters(s, f))]
  <2>1. Setters(e, f) = Setters(s, f)
    BY <1>1, <1>3 DEF Setters
  <2>2. Setters(s, f) # {} => Max(Setters(s, f)) \in 1 .. n
    BY LastSetter DEF Setters
  <2> QED
    BY <1>1, <2>1, <2>2
<1>4. Replay(e) = [version |-> n + 1,
                   by |-> [f \in Fields |-> IF f \in Changed(h) THEN h ELSE By(f)]]
  <2>1. \A f \in Fields :
          (IF Setters(e, f) = {} THEN None ELSE e[Max(Setters(e, f))])
            = IF f \in Changed(h) THEN h ELSE By(f)
    <3> HIDE DEF e
    <3> QED
      BY <1>2, <1>3
  <2>2. Replay(e) = [version |-> Len(e),
                     by |-> [f \in Fields |-> IF Setters(e, f) = {} THEN None
                                              ELSE e[Max(Setters(e, f))]]]
    BY ReplayBySetters
  <2> HIDE DEF e, By
  <2> QED
    BY <1>1, <2>1, <2>2
<1>5. CASE s = <<>>
  <2>1. \A f \in Fields : By(f) = None
    BY <1>5 DEF Setters
  <2>2. n = 0
    BY <1>5
  <2>3. Merged(None, h) = [version |-> 1,
                           by |-> [f \in Fields |-> IF f \in Changed(h) THEN h ELSE None]]
    BY DEF Merged
  <2>4. Replay(e) = Merged(None, h)
    <3> HIDE DEF By, e, n
    <3> QED
      BY <1>4, <2>1, <2>2, <2>3
  <2> QED
    BY <1>5, <2>4
<1>6. CASE s # <<>>
  <2>1. Replay(s) = [version |-> n, by |-> [f \in Fields |-> By(f)]]
    BY ReplayBySetters
  <2>2. Replay(s) # None
    <3>1. n \in Nat \ {0}
      BY <1>1, <1>6
    <3>2. ASSUME NEW f \in Fields PROVE By(f) \in Fingerprints \cup {None}
      <4>1. Setters(s, f) # {} => Max(Setters(s, f)) \in 1 .. n
        BY LastSetter DEF Setters
      <4> QED
        BY <1>1, <4>1
    <3>3. Replay(s) \in Profile
      <4> HIDE DEF By
      <4> QED
        BY <2>1, <3>1, <3>2 DEF Profile
    <3> QED
      BY <3>3, NoneIsNoProfile
  <2>3. Replay(s).version = n /\ \A f \in Fields : Replay(s).by[f] = By(f)
    <3> HIDE DEF By
    <3> QED
      BY <2>1
  <2>4. Merged(Replay(s), h)
          = [version |-> n + 1,
             by |-> [f \in Fields |-> IF f \in Changed(h) THEN h ELSE By(f)]]
    <3> HIDE DEF By
    <3> QED
      BY <2>2, <2>3 DEF Merged
  <2> QED
    BY <1>4, <1>6, <2>4
<1> QED
  BY <1>5, <1>6

\* One transaction of a memory handler: reads that were of the latest profile
\* stay so or are known to be outdated, and a profile that no stale change was
\* saved over is the replay of its changes.
LEMMA MemoryStepReplays ==
  ASSUME HandlerShape, MemoryTypeOK, FreshReads, ProfileIsReplay,
         NEW r \in Requests, MemoryStep(r), want' = want
  PROVE  FreshReads' /\ ProfileIsReplay'
<1> DEFINE h == want[r]
           t == TravelerBy(h)
<1>1. Kind(r) \in MemoryKinds /\ h \in Fingerprints /\ t \in Travelers
  BY MemoryTargets, KindsOfSteps
<1>2. MemoryTypeOK'
  BY MemoryTypeKept
<1>3. \A q \in Requests : Kind(q)' = Kind(q) /\ TravelerBy(want[q])' = TravelerBy(want[q])
  BY DEF Kind, TravelerBy
<1>4. CASE UNCHANGED <<profile, log, stale>> /\ ~ReadProfile(r) /\ seen' = seen
  BY <1>2, <1>3, <1>4 DEF FreshReads, ProfileIsReplay
<1>5. CASE ReadProposal(r)
  <2>1. UNCHANGED <<profile, log, stale>>
    BY <1>5 DEF ReadProposal
  <2>2. \A q \in Requests : /\ seen'[q].fresh = seen[q].fresh
                            /\ seen'[q].profile = seen[q].profile
    BY <1>5 DEF ReadProposal, MemoryTypeOK
  <2> QED
    BY <1>2, <1>3, <2>1, <2>2 DEF FreshReads, ProfileIsReplay
<1>6. CASE ReadProfile(r)
  <2>1. UNCHANGED <<profile, log, stale>>
    BY <1>6 DEF ReadProfile
  <2>2. /\ \A q \in Requests \ {r} : seen'[q] = seen[q]
        /\ seen'[r].profile = profile[t]
    BY <1>6 DEF ReadProfile, MemoryTypeOK
  <2> QED
    BY <1>1, <1>2, <1>3, <2>1, <2>2 DEF FreshReads, ProfileIsReplay
<1>7. ASSUME seen' = Outdated(r, t),
             \A u \in Travelers \ {t} : profile'[u] = profile[u]
      PROVE  FreshReads'
  <2> SUFFICES ASSUME NEW q \in Requests, seen'[q].fresh
               PROVE  /\ Kind(q) \in MemoryKinds
                      /\ seen'[q].profile = profile'[TravelerBy(want[q])]
    BY <1>3 DEF FreshReads
  <2>1. q # r /\ ~(Kind(q) \in MemoryKinds /\ TravelerBy(want[q]) = t)
    BY <1>7 DEF Outdated, Unseen, MemoryTypeOK
  <2>2. seen'[q] = seen[q]
    BY <1>7, <2>1 DEF Outdated
  <2>3. Kind(q) \in MemoryKinds /\ seen[q].profile = profile[TravelerBy(want[q])]
    BY <2>2 DEF FreshReads
  <2> QED
    BY <1>7, <2>1, <2>2, <2>3, MemoryTargets
<1>8. CASE SaveProfile(r)
  <2>1. /\ profile' = [profile EXCEPT ![t] = Merged(seen[r].profile, h)]
        /\ log' = [log EXCEPT ![t] = Append(log[t], h)]
        /\ stale' = [stale EXCEPT ![t] = stale[t] \/ ~seen[r].fresh]
        /\ seen' = Outdated(r, t)
    BY <1>8 DEF SaveProfile
  <2>2. FreshReads'
    BY <1>7, <2>1 DEF MemoryTypeOK
  <2>3. ASSUME NEW u \in Travelers, ~stale'[u]
        PROVE  profile'[u] = IF log'[u] = <<>> THEN None ELSE Replay(log'[u])
    <3>1. CASE u # t
      BY <2>1, <2>3, <3>1 DEF ProfileIsReplay, MemoryTypeOK
    <3>2. CASE u = t
      <4>1. ~stale[t] /\ seen[r].fresh
        BY <1>1, <2>1, <2>3, <3>2 DEF MemoryTypeOK
      <4>2. seen[r].profile = IF log[t] = <<>> THEN None ELSE Replay(log[t])
        BY <1>1, <4>1 DEF FreshReads, ProfileIsReplay
      <4>3. log[t] \in Seq(Fingerprints) /\ log'[t] = Append(log[t], h)
        BY <1>1, <2>1 DEF MemoryTypeOK
      <4>4. log'[t] # <<>>
        BY <1>1, <4>3
      <4>5. profile'[t] = Merged(seen[r].profile, h)
        BY <1>1, <2>1 DEF MemoryTypeOK
      <4> QED
        BY <1>1, <3>2, <4>2, <4>3, <4>4, <4>5, ReplayGrows
    <3> QED
      BY <3>1, <3>2
  <2> QED
    BY <1>2, <2>2, <2>3 DEF ProfileIsReplay
<1>9. CASE EraseMemory(r)
  <2>1. /\ profile' = [profile EXCEPT ![t] = None]
        /\ log' = [log EXCEPT ![t] = <<>>]
        /\ stale' = [stale EXCEPT ![t] = FALSE]
        /\ seen' = Outdated(r, t)
    BY <1>9 DEF EraseMemory
  <2>2. FreshReads'
    BY <1>7, <2>1 DEF MemoryTypeOK
  <2> QED
    BY <1>1, <1>2, <2>1, <2>2 DEF ProfileIsReplay, MemoryTypeOK
<1> QED
  BY <1>4, <1>5, <1>6, <1>8, <1>9
     DEF MemoryStep, ReadSwitch, CheckHold, ClaimMemory, RefuseConfirmation,
         SaveProposal, RecordAudit, memoryVars

\* Unless a request saved over a change it had not read, a profile is what its
\* saved changes make one after the other: none is lost, none resurfaces after
\* an erasure, and the version counts them.
THEOREM ProfilesAreReplays == ServicesSpec => []ProfileIsReplay
<1>1. ServicesInit => FreshReads /\ ProfileIsReplay
  BY ProposalsTyped
     DEF ServicesInit, MemoryInit, MemoryTypeOK, ProposalStatus, FreshReads,
         ProfileIsReplay, Unseen
<1>2. TypeOK /\ HandlerShape /\ MemoryTypeOK /\ FreshReads /\ ProfileIsReplay
        /\ [ServicesNext]_serviceVars => FreshReads' /\ ProfileIsReplay'
  <2> SUFFICES ASSUME TypeOK, HandlerShape, MemoryTypeOK, FreshReads, ProfileIsReplay,
                      [ServicesNext]_serviceVars
               PROVE  FreshReads' /\ ProfileIsReplay'
    OBVIOUS
  <2>1. ASSUME NEW r \in Requests, HandlerStep(r), MemoryStep(r)
        PROVE  FreshReads' /\ ProfileIsReplay'
    BY <2>1, OthersStay, MemoryStepReplays
  <2>2. ASSUME want' = want, UNCHANGED memoryVars
        PROVE  FreshReads' /\ ProfileIsReplay'
    BY <2>2 DEF memoryVars, MemoryTypeOK, FreshReads, ProfileIsReplay, Kind, TravelerBy
  <2> QED
    BY <2>1, <2>2, ServiceCases, OthersStay
<1> QED
  BY <1>1, <1>2, HandlersInvariance, MemoryInvariance, PTL DEF ServicesSpec
=============================================================================
