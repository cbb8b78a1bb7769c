-------------------------- MODULE InvestigationGraph --------------------------
(***************************************************************************)
(* The bounded LangGraph workflow of agent/graph.py for one incident, from *)
(* the invocation by run_graph_investigation of apps/api/main.py to the    *)
(* approval interrupt, the projection of the paused state onto the         *)
(* incident, and from the resume by decide_incident to the end.  One       *)
(* action per node; the checkpointer saves the state after each of them.   *)
(*                                                                         *)
(* The model provider is external: tool selection may name any allow-      *)
(* listed tool, no tool, or fail; a recommendation may cite known or       *)
(* unknown evidence, be too long for the suffix that is appended to it, or *)
(* fail.  Texts are abstracted to these facts.                             *)
(***************************************************************************)
EXTENDS RecoveryPolicy, Sequences

CONSTANTS
  ReadOnlyTools,   \* READ_ONLY_TOOL_NAMES
  Alternatives,    \* fixture_alternatives: id -> RecoveryCandidate
  MaxIterations    \* MAX_REACT_ITERATIONS

Preferred == <<"flight_status", "connection_feasibility", "airport_weather">>

ToolFor(source) ==
  CASE source = "flight_status" -> "get_flight_status"
    [] source = "connection_feasibility" -> "get_connection_feasibility"
    [] source = "airport_weather" -> "get_airport_weather"

WatchedSources == {"flight_status", "airport_weather", "ground_route"}

ASSUME GraphTyped ==
  /\ {ToolFor(Preferred[n]) : n \in DOMAIN Preferred} \subseteq ReadOnlyTools
  /\ \A i \in DOMAIN Alternatives : i \in Nat /\ Alternatives[i] \in RecoveryCandidate
  /\ IsFiniteSet(DOMAIN Alternatives) /\ MaxIterations \in Nat \ {0}
  /\ None \notin ReadOnlyTools

VARIABLES
  input,       \* the state the graph is invoked with
  node,        \* the node that runs next; "paused" at the interrupt
  iterations,  \* react_iterations
  lookups,     \* tool_audit: the tools run by the tools node
  attempted,   \* tool_selection_attempted
  pending,     \* pending_tool_call
  calls,       \* model_audit: the completions that were requested
  advice,      \* recommendation
  eligible,    \* policy_decision.eligible_candidate_ids, None before
  ranking,     \* recovery_ranking.ranked_candidate_ids
  gate,        \* policy_gate.status is set
  approval,    \* the decision of the resume payload
  queued,      \* the resume payload names an action; then dispatched_actions
  incident     \* what the API persisted: recommendation of the incident

vars == <<input, node, iterations, lookups, attempted, pending, calls, advice,
          eligible, ranking, gate, approval, queued, incident>>

\* A core source without any evidence is unavailable; a stale one has evidence
\* and is unavailable too (source_health_for).
Inputs ==
  {i \in [severity : {"low", "watch", "high", "critical"},
          unavailable : SUBSET WatchedSources,
          sources : SUBSET {Preferred[n] : n \in DOMAIN Preferred},
          llm : BOOLEAN, minimum : Minimums] :
     {"flight_status", "airport_weather"} \ i.sources \subseteq i.unavailable}

Nodes == {"start", "load_memory_context", "react_assistant", "tools", "recommendation",
          "verify", "rank", "attach", "policy_gate", "approval_gate", "paused",
          "queue_approved_action", "finalize", "end"}

Advice == [by : {"server", "model"}, known : BOOLEAN, long : BOOLEAN, ranked : BOOLEAN]

ASSUME NoneIsFresh ==
  None \notin Advice /\ \A ids \in SUBSET DOMAIN Alternatives : ids # None

ByServer == [by |-> "server", known |-> TRUE, long |-> FALSE, ranked |-> FALSE]

TypeOK ==
  /\ input \in Inputs /\ node \in Nodes
  /\ iterations \in 0 .. MaxIterations
  /\ lookups \in Seq(ReadOnlyTools)
  /\ attempted \in BOOLEAN /\ pending \in ReadOnlyTools \cup {None}
  /\ calls \in Seq({"tool_selection", "recommendation"})
  /\ advice \in Advice \cup {None}
  /\ eligible \in (SUBSET DOMAIN Alternatives) \cup {None}
  /\ ranking \in Seq(DOMAIN Alternatives)
  /\ gate \in BOOLEAN /\ approval \in {None, "approve", "reject"}
  /\ queued \in BOOLEAN
  /\ incident \in {"unsaved", "without_recommendation", "server", "model"}

Init ==
  /\ input \in Inputs /\ node = "start"
  /\ iterations = 0 /\ lookups = <<>> /\ attempted = FALSE /\ pending = None
  /\ calls = <<>> /\ advice = None /\ eligible = None /\ ranking = <<>>
  /\ gate = FALSE /\ approval = None /\ queued = FALSE /\ incident = "unsaved"

-----------------------------------------------------------------------------
Elevated == input.severity \in {"high", "critical"}

\* route_by_severity.
Route ==
  IF Cardinality(input.unavailable) >= 2 \/ (Elevated /\ "flight_status" \in input.unavailable)
  THEN "approval_gate"
  ELSE IF Elevated THEN "load_memory_context" ELSE "finalize"

Start ==
  /\ node = "start"
  /\ node' = Route
  /\ UNCHANGED <<input, iterations, lookups, attempted, pending, calls, advice, eligible,
                 ranking, gate, approval, queued, incident>>

\* The allow-listed profile fields; of them only the minimum has an effect.
LoadMemoryContext ==
  /\ node = "load_memory_context"
  /\ node' = "react_assistant"
  /\ UNCHANGED <<input, iterations, lookups, attempted, pending, calls, advice, eligible,
                 ranking, gate, approval, queued, incident>>

-----------------------------------------------------------------------------
(***************************************************************************)
(* react_assistant and tools.                                              *)
(***************************************************************************)
Called == {lookups[n] : n \in DOMAIN lookups}

\* _next_tool: the first preferred source with evidence that was not looked up.
NextTool ==
  LET todo == {n \in DOMAIN Preferred : /\ Preferred[n] \in input.sources
                                        /\ ToolFor(Preferred[n]) \notin Called}
  IN IF iterations >= MaxIterations \/ todo = {} THEN None
     ELSE ToolFor(Preferred[CHOOSE n \in todo : \A m \in todo : n <= m])

ModelPlans == ~attempted /\ input.llm

AfterAssistant(call) == IF call = None THEN "recommendation" ELSE "tools"

SelectAndForget(call) ==
  /\ node = "react_assistant"
  /\ ModelPlans
  /\ calls' = Append(calls, "tool_selection")
  /\ pending' = call
  /\ node' = AfterAssistant(call)
  /\ UNCHANGED <<input, iterations, lookups, attempted, advice, eligible, ranking, gate,
                 approval, queued, incident>>

\* The one tool selection by the model; None when it selects none or fails.
SelectTool(call) ==
  /\ node = "react_assistant"
  /\ ModelPlans
  /\ calls' = Append(calls, "tool_selection")
  /\ attempted' = TRUE
  /\ pending' = call
  /\ node' = AfterAssistant(call)
  /\ UNCHANGED <<input, iterations, lookups, advice, eligible, ranking, gate, approval,
                 queued, incident>>

\* The server-owned follow-up.
FollowUp ==
  /\ node = "react_assistant"
  /\ ~ModelPlans
  /\ pending' = NextTool
  /\ node' = AfterAssistant(NextTool)
  /\ UNCHANGED <<input, iterations, lookups, attempted, calls, advice, eligible, ranking,
                 gate, approval, queued, incident>>

RunToolUncounted ==
  /\ node = "tools"
  /\ pending' = None
  /\ node' = "react_assistant"
  /\ UNCHANGED <<input, iterations, lookups, attempted, calls, advice, eligible, ranking,
                 gate, approval, queued, incident>>

\* run_read_only_tool records the lookup.  (A call that is not allow-listed
\* or is for another trip would be dropped without counting; select_tool
\* returns none and _next_tool makes none.)
RunTool ==
  /\ node = "tools"
  /\ iterations' = iterations + 1
  /\ lookups' = Append(lookups, pending)
  /\ pending' = None
  /\ node' = "react_assistant"
  /\ UNCHANGED <<input, attempted, calls, advice, eligible, ranking, gate, approval, queued,
                 incident>>

-----------------------------------------------------------------------------
(***************************************************************************)
(* validate_recommendation.                                                *)
(***************************************************************************)
ModelAdvice == {[by |-> "model", known |-> k, long |-> l, ranked |-> FALSE] :
                  k \in BOOLEAN, l \in BOOLEAN}

CheckedTrusting(a) == a

\* Every citation must belong to this assessment.
Checked(a) == IF a.known THEN a ELSE ByServer

\* With the model: its output, or the server's when the call fails.
Recommend ==
  /\ node = "recommendation"
  /\ IF input.llm /\ Elevated
     THEN /\ calls' = Append(calls, "recommendation")
          /\ \E a \in ModelAdvice \cup {ByServer} : advice' = Checked(a)
     ELSE /\ advice' = ByServer
          /\ UNCHANGED calls
  /\ node' = "verify"
  /\ UNCHANGED <<input, iterations, lookups, attempted, pending, eligible, ranking, gate,
                 approval, queued, incident>>

-----------------------------------------------------------------------------
(***************************************************************************)
(* Alternatives, ranking and the gates.                                    *)
(***************************************************************************)
VerifyAlternatives ==
  /\ node = "verify"
  /\ eligible' = EligibleIn(Alternatives, input.minimum)
  /\ node' = "rank"
  /\ UNCHANGED <<input, iterations, lookups, attempted, pending, calls, advice, ranking,
                 gate, approval, queued, incident>>

\* The ids in the order of their positions.
Ranked(minimum) ==
  [p \in 1 .. Cardinality(EligibleIn(Alternatives, minimum)) |->
     CHOOSE i \in DOMAIN Alternatives : Position(Alternatives, minimum, i) = p]

RankAlternatives ==
  /\ node = "rank"
  /\ ranking' = Ranked(input.minimum)
  /\ node' = "attach"
  /\ UNCHANGED <<input, iterations, lookups, attempted, pending, calls, advice, eligible,
                 gate, approval, queued, incident>>

\* The ranking replaces whatever the model said about the order.
AttachRanking ==
  /\ node = "attach"
  /\ advice' = [advice EXCEPT !.ranked = TRUE]
  /\ node' = "policy_gate"
  /\ UNCHANGED <<input, iterations, lookups, attempted, pending, calls, eligible, ranking,
                 gate, approval, queued, incident>>

PolicyGate ==
  /\ node = "policy_gate"
  /\ gate' = TRUE
  /\ node' = "approval_gate"
  /\ UNCHANGED <<input, iterations, lookups, attempted, pending, calls, advice, eligible,
                 ranking, approval, queued, incident>>

\* The interrupt; ainvoke returns, and run_graph_investigation projects the
\* state.  Recommendation.model_validate refuses a manager_message that the
\* appended suffix made too long: the incident then has no recommendation.
\* The short path has none in the state and keeps the one of investigate.
Pause ==
  /\ node = "approval_gate"
  /\ node' = "paused"
  /\ incident' = IF advice = None THEN "server"
                 ELSE IF advice.long /\ advice.ranked THEN "without_recommendation"
                 ELSE advice.by
  /\ UNCHANGED <<input, iterations, lookups, attempted, pending, calls, advice, eligible,
                 ranking, gate, approval, queued>>

\* Command(resume); the payload names an action only if one was queued.
Resume(decision, action) ==
  /\ node = "paused"
  /\ approval' = decision
  /\ queued' = action
  /\ node' = "queue_approved_action"
  /\ UNCHANGED <<input, iterations, lookups, attempted, pending, calls, advice, eligible,
                 ranking, gate, incident>>

\* queue_approved_action keeps the action of an approval only.
QueueApprovedAction ==
  /\ node = "queue_approved_action"
  /\ queued' = (queued /\ approval = "approve")
  /\ node' = "finalize"
  /\ UNCHANGED <<input, iterations, lookups, attempted, pending, calls, advice, eligible,
                 ranking, gate, approval, incident>>

Finalize ==
  /\ node = "finalize"
  /\ node' = "end"
  /\ UNCHANGED <<input, iterations, lookups, attempted, pending, calls, advice, eligible,
                 ranking, gate, approval, queued, incident>>

Step ==
  \/ Start \/ LoadMemoryContext \/ FollowUp \/ RunTool \/ Recommend
  \/ \E call \in ReadOnlyTools \cup {None} : SelectTool(call)
  \/ VerifyAlternatives \/ RankAlternatives \/ AttachRanking \/ PolicyGate
  \/ Pause \/ QueueApprovedAction \/ Finalize

Next ==
  \/ Step
  \/ \E decision \in {"approve", "reject"}, action \in BOOLEAN : Resume(decision, action)

Spec == Init /\ [][Next]_vars

\* ainvoke runs node after node; only the manager may keep it waiting.
LiveSpec == Spec /\ WF_vars(Step)

-----------------------------------------------------------------------------
(***************************************************************************)
(* Properties.                                                             *)
(***************************************************************************)

\* "Bound ReAct to three tool iterations and two completion calls", whatever
\* the model answers: at most one selection, then at most one recommendation,
\* no tool looked up twice, and no completion at all when the control is off
\* or the evidence is too thin to investigate.
Bounded ==
  /\ TypeOK
  /\ Len(lookups) <= MaxIterations /\ Cardinality(Called) = Len(lookups)
  /\ calls \in {<<>>, <<"tool_selection">>, <<"tool_selection", "recommendation">>}
  /\ calls # <<>> => input.llm /\ "flight_status" \notin input.unavailable
                     /\ Cardinality(input.unavailable) < 2

\* disposition_for of apps/api/main.py sends these to the graph.
Investigated ==
  Elevated /\ ~("flight_status" \in input.unavailable) /\ Cardinality(input.unavailable) < 2

\* When an investigation that the API started pauses for the manager, the
\* policy is decided, every eligible alternative is ranked exactly once and
\* the recommendation cites only evidence of this assessment.
PausedWithCompleteCase ==
  node = "paused" /\ Investigated =>
    /\ gate /\ eligible # None
    /\ {ranking[n] : n \in DOMAIN ranking} = eligible /\ Len(ranking) = Cardinality(eligible)
    /\ \A i \in eligible : Alternatives[i].connection >= input.minimum
    /\ advice # None /\ advice.known /\ advice.ranked

\* No answer of the model keeps the graph from reaching the interrupt or the
\* end: the loop between assistant and tools is left.
ComesToRest == <>(node \in {"paused", "end"})
=============================================================================
