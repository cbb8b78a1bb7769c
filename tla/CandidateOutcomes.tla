-------------------------- MODULE CandidateOutcomes --------------------------
(***************************************************************************)
(* The life of one candidate set: create_candidate_set or the graph save   *)
(* an immutable ranked snapshot, then record_candidate_outcome of          *)
(* apps/api/main.py appends outcome rows to it.  Only the graph's set      *)
(* knows the traveler's own minimum connection, as the profile stood when  *)
(* the graph was invoked; the profile may change before and after.         *)
(*                                                                         *)
(* A request reads the set                                                 *)
(* and all its rows, validates the transition against that view, claims    *)
(* its key, stamps occurred_at and outcome_id, inserts the row and at last *)
(* inserts the manager feedback: separate transactions, with other         *)
(* requests in between.                                                    *)
(*                                                                         *)
(* The view orders rows by (occurred_at, outcome_id), the order of the     *)
(* stamps; rows become visible when they are committed, in any order.  The *)
(* request's Idempotency-Key is left to Idempotency: requests here are     *)
(* under different keys.                                                   *)
(***************************************************************************)
EXTENDS RecoveryPolicy, Sequences

CONSTANTS
  RawSets,      \* candidate sets that providers return: id -> RecoveryCandidate
  Requests

ASSUME RawTyped ==
  \A raw \in RawSets :
    /\ IsFiniteSet(DOMAIN raw)
    /\ \A i \in DOMAIN raw : i \in Nat /\ raw[i] \in RecoveryCandidate

OutcomeStates == {"offered", "viewed", "selected", "rejected", "completed"}

VARIABLES
  raw,       \* the provider's candidates, None before the set exists
  origin,    \* who saved the set: "graph", "api", None before
  confirmed, \* minimum_connection_minutes of the profile, 0 for none
  context,   \* the minimum in the graph's traveler_context, None before
  informed,  \* the graph read the profile, and it has not changed since
  snapshot,  \* recovery_candidate_sets
  order,     \* requests in the order of their stamps
  saved,     \* requests whose outcome row is committed
  feedback,  \* requests whose manager feedback is saved
  req        \* each request: what it asks and how far it is

setVars == <<raw, origin, confirmed, context, informed, snapshot>>

outcomeVars == <<setVars, order, saved, feedback, req>>

Ids == UNION {DOMAIN s : s \in RawSets}

Request == [phase : {"new", "valid", "stamped", "saved", "done", "refused", "lost"},
            candidate : Ids \cup {None}, state : OutcomeStates \cup {None},
            override : BOOLEAN]

Fresh == [phase |-> "new", candidate |-> None, state |-> None, override |-> FALSE]

OutcomesTypeOK ==
  /\ raw \in RawSets \cup {None}
  /\ origin \in {"graph", "api", None}
  /\ confirmed \in Minimums \cup {0} /\ context \in Minimums \cup {0, None}
  /\ informed \in BOOLEAN
  /\ raw # None => snapshot \in
       [DOMAIN raw -> [lifecycle : {"unavailable", "policy_ineligible", "ineligible",
                                    "eligible"},
                       position : 0 .. Cardinality(DOMAIN raw)]]
  /\ order \in Seq(Requests)
  /\ saved \in SUBSET Requests /\ feedback \in SUBSET saved
  /\ req \in [Requests -> Request]

OutcomesInit ==
  /\ raw = None /\ origin = None /\ snapshot = None
  /\ confirmed = 0 /\ context = None /\ informed = FALSE
  /\ order = <<>> /\ saved = {} /\ feedback = {}
  /\ req = [r \in Requests |-> Fresh]

-----------------------------------------------------------------------------
\* update_profile, a confirmed proposal or the erasure of the profile.  Nothing
\* reads the profile for this set once it is saved.
ChangeMinimum(m) ==
  /\ raw = None
  /\ m # confirmed
  /\ confirmed' = m /\ informed' = FALSE
  /\ UNCHANGED <<raw, origin, context, snapshot, order, saved, feedback, req>>

\* run_graph_investigation hands the profile over, unless MEMORY_READS_ENABLED
\* is switched off.
ReadProfile(reads) ==
  /\ raw = None /\ context = None
  /\ context' = IF reads THEN confirmed ELSE 0
  /\ informed' = reads
  /\ UNCHANGED <<raw, origin, confirmed, snapshot, order, saved, feedback, req>>

\* The graph evaluates with the minimum of its context (verify, rank), and
\* run_graph_investigation saves the set when the graph has paused.
SaveGraphSet(s) ==
  /\ raw = None /\ context # None
  /\ raw' = s /\ origin' = "graph"
  /\ snapshot' = CandidateSet(s, context)
  /\ UNCHANGED <<confirmed, context, informed, order, saved, feedback, req>>

\* create_candidate_set evaluates the candidates that the manager posts by the
\* corporate policy alone.  (The set of an investigation that has begun is
\* another one.)
SaveManagerSet(s) ==
  /\ raw = None /\ context = None
  /\ raw' = s /\ origin' = "api"
  /\ snapshot' = CandidateSet(s, 0)
  /\ UNCHANGED <<confirmed, context, informed, order, saved, feedback, req>>

-----------------------------------------------------------------------------
(***************************************************************************)
(* project_candidate_set_outcomes.                                         *)
(***************************************************************************)
Stamp(r) == CHOOSE n \in DOMAIN order : order[n] = r

\* The row of R with the greatest (occurred_at, outcome_id).
Latest(R) == CHOOSE r \in R : \A s \in R : Stamp(s) <= Stamp(r)

RowsOf(i) == {r \in saved : req[r].candidate = i}

StateOf(i) ==
  IF RowsOf(i) = {} THEN snapshot[i].lifecycle ELSE req[Latest(RowsOf(i))].state

Selections == {r \in saved : req[r].state = "selected"}

SelectedId == IF Selections = {} THEN None ELSE req[Latest(Selections)].candidate

AllowedFromAnywhere(current, target) == target # "offered" \/ current = "eligible"

TransitionAllowed(current, target) ==
  \/ current = "eligible" /\ target = "offered"
  \/ current = "offered" /\ target \in {"viewed", "selected", "rejected"}
  \/ current = "viewed" /\ target \in {"selected", "rejected"}
  \/ current = "selected" /\ target = "completed"

(***************************************************************************)
(* record_candidate_outcome.                                               *)
(***************************************************************************)
\* The validators of the payload and the role checks of the handler.
RoleMay(i, state, manager, override) ==
  /\ ~manager => state \in {"viewed", "selected", "rejected"}
  /\ override => manager /\ state = "selected"
  /\ state = "selected" /\ manager /\ snapshot[i].position \notin {0, 1} => override

Accepts(i, state, manager, override) ==
  /\ raw # None
  /\ i \in DOMAIN raw
  /\ RoleMay(i, state, manager, override)
  /\ state = "selected" => SelectedId \in {None, i}
  /\ TransitionAllowed(StateOf(i), state)

\* All reads, and the validation against what they returned.
Validate(r, i, state, manager, override) ==
  /\ req[r].phase = "new"
  /\ Accepts(i, state, manager, override)
  /\ req' = [req EXCEPT ![r] =
       [phase |-> "valid", candidate |-> i, state |-> state, override |-> override]]
  /\ UNCHANGED <<setVars, order, saved, feedback>>

\* HTTP 403, 404, 409 or 422: there is always something to refuse.
Refuse(r) ==
  /\ req[r].phase = "new"
  /\ ~ \A i \in Ids, state \in OutcomeStates, manager, override \in BOOLEAN :
         Accepts(i, state, manager, override)
  /\ req' = [req EXCEPT ![r].phase = "refused"]
  /\ UNCHANGED <<setVars, order, saved, feedback>>

\* The key is claimed and the outcome record constructed.
StampOutcome(r) ==
  /\ req[r].phase = "valid"
  /\ order' = Append(order, r)
  /\ req' = [req EXCEPT ![r].phase = "stamped"]
  /\ UNCHANGED <<setVars, saved, feedback>>

SaveOutcome(r) ==
  /\ req[r].phase = "stamped"
  /\ saved' = saved \cup {r}
  /\ req' = [req EXCEPT ![r].phase = "saved"]
  /\ UNCHANGED <<setVars, order, feedback>>

NeedsFeedback(r) == req[r].override \/ req[r].state = "completed"

\* save_manager_feedback, then the answer.
SaveFeedback(r) ==
  /\ req[r].phase = "saved"
  /\ feedback' = IF NeedsFeedback(r) THEN feedback \cup {r} ELSE feedback
  /\ req' = [req EXCEPT ![r].phase = "done"]
  /\ UNCHANGED <<setVars, order, saved>>

\* The process is lost between two transactions.
Crash(r) ==
  /\ req[r].phase \in {"valid", "stamped", "saved"}
  /\ req' = [req EXCEPT ![r].phase = "lost"]
  /\ UNCHANGED <<setVars, order, saved, feedback>>

OutcomesNext ==
  \/ \E m \in Minimums \cup {0} : ChangeMinimum(m)
  \/ \E reads \in BOOLEAN : ReadProfile(reads)
  \/ \E s \in RawSets : SaveGraphSet(s) \/ SaveManagerSet(s)
  \/ \E r \in Requests :
       \/ \E i \in Ids, state \in OutcomeStates, manager, override \in BOOLEAN :
            Validate(r, i, state, manager, override)
       \/ Refuse(r) \/ StampOutcome(r) \/ SaveOutcome(r) \/ SaveFeedback(r) \/ Crash(r)

OutcomesSpec == OutcomesInit /\ [][OutcomesNext]_outcomeVars

-----------------------------------------------------------------------------
(***************************************************************************)
(* Properties.                                                             *)
(***************************************************************************)

\* The displayed positions are 1, 2, ..., one per eligible candidate, and a
\* candidate never stands behind one with a lower recovery score.
RankingIsOrder ==
  raw # None =>
    LET shown == {i \in DOMAIN raw : snapshot[i].position # 0}
    IN /\ shown = {i \in DOMAIN raw : snapshot[i].lifecycle = "eligible"}
       /\ {snapshot[i].position : i \in shown} = 1 .. Cardinality(shown)
       /\ \A i, j \in shown : RecoveryScore(raw[i]) > RecoveryScore(raw[j]) =>
            snapshot[i].position < snapshot[j].position

\* Whatever was offered, viewed, selected or completed met every hard
\* constraint of the company: available, feasible, compliant, within the cost
\* cap, not below the corporate minimum connection; and what was chosen from
\* was ranked as displayed.  The traveler's confirmed minimum is met in a set
\* of the graph, unless memory reads were off or the profile changed between
\* the graph's read and its save; create_candidate_set never looks at it.
OutcomesMeetPolicy ==
  /\ OutcomesTypeOK /\ RankingIsOrder
  /\ \A r \in saved :
       LET c == raw[req[r].candidate]
       IN /\ c.available /\ c.feasible /\ c.policy_compliant /\ c.accessibility_compliant
          /\ c.incremental_cost <= MaximumCost
          /\ c.connection >= MinimumConnection
          /\ origin = "graph" /\ informed => c.connection >= confirmed

\* Every outcome is justified by an earlier one of the same candidate, however
\* requests overlap and in whatever order their rows are committed: nothing is
\* selected that was not offered, nothing completed that was not selected.
Justified ==
  \A r \in saved :
    \/ req[r].state = "offered"
    \/ \E s \in saved : /\ req[s].candidate = req[r].candidate
                        /\ Stamp(s) < Stamp(r)
                        /\ TransitionAllowed(req[s].state, req[r].state)
=============================================================================
