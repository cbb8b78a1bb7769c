----------------------------- MODULE MCRecovery -----------------------------
(***************************************************************************)
(* Instances for TLC of the decisions about one incident: its score        *)
(* (RiskScoring), its investigation (InvestigationGraph) and the outcomes  *)
(* recorded for its candidates (CandidateOutcomes).  The three share no    *)
(* variable, so one instance explores them one at a time: the graph for    *)
(* every input, and after the one input that it leaves at once, either     *)
(* reassessments or a candidate set with its outcomes.                     *)
(***************************************************************************)
EXTENDS RiskScoring, InvestigationGraph, CandidateOutcomes

\* Every source is absent, stale or fresh; the scores sit on both sides of the
\* severity bands, several make contributions that must be rounded (one a
\* tie), one is out of range.
FreshReading(n) == {[freshness |-> "fresh", score |-> n]}

StaleReading(n) == {[freshness |-> "stale", score |-> n]}

Mixed == StaleReading(10000) \cup {[freshness |-> "cached", score |-> 5010]}

ListOf(f, c, w, g, d) ==
  [s \in SourceTypes |->
     CASE s = "flight_status" -> f [] s = "connection_feasibility" -> c
       [] s = "airport_weather" -> w [] s = "ground_route" -> g
       [] s = "destination_advisory" -> d]

OutOfRange == ListOf({}, FreshReading(3333), {}, StaleReading(9999), FreshReading(10500))

MCEvidenceLists ==
  {OutOfRange} \cup
  {ListOf(f, c, w, g, FreshReading(10000)) :
     f \in {{}, FreshReading(0), FreshReading(10000), StaleReading(10000), Mixed},
     c \in {FreshReading(3333), FreshReading(10000)},
     w \in {{}, FreshReading(9999), StaleReading(9999)},
     g \in {FreshReading(9999), StaleReading(9999)}}

\* The preferred tools and one that no evidence calls for.
MCTools == {"get_flight_status", "get_connection_feasibility", "get_airport_weather",
            "find_alternative_flights"}

Option(delay, cost, connection) ==
  [available |-> TRUE, policy_compliant |-> TRUE, accessibility_compliant |-> TRUE,
   feasible |-> TRUE, arrival_delay |-> delay, incremental_cost |-> cost,
   connection |-> connection]

\* fixture_alternatives of tools/alternatives.py.  A traveler's minimum of 60
\* excludes one of them, and one of the candidates in Tied.
Fixture == <<Option(45, 1200, 75), Option(90, 200, 55)>>

\* One at the corporate minimum connection and below the traveler's; one over
\* the cost cap.
Tied == <<Option(20, 500, 60), Option(30, 0, 45), Option(0, 5001, 90)>>

Blocked == <<[Option(0, 0, 90) EXCEPT !.available = FALSE], Option(300, 4000, 75),
             [Option(10, 0, 60) EXCEPT !.accessibility_compliant = FALSE]>>

MCRawSets == {Tied, Blocked}

-----------------------------------------------------------------------------
\* The input that route_by_severity sends straight to the end.
Calm == [severity |-> "low", unavailable |-> {},
         sources |-> {"flight_status", "airport_weather"}, llm |-> FALSE, minimum |-> 0]

ASSUME CalmIsInput == Calm \in Inputs

Unassessed ==
  EngineInit /\ criticality = "standard" /\ evidence = CHOOSE e \in EvidenceLists : TRUE

MCInit ==
  /\ EngineInit /\ Init /\ OutcomesInit
  /\ input = Calm \/ Unassessed

MCNext ==
  \/ Next /\ UNCHANGED <<engineVars, outcomeVars>>
  \/ /\ input = Calm /\ node = "end"
     /\ \/ OutcomesInit /\ EngineNext /\ UNCHANGED <<vars, outcomeVars>>
        \/ Unassessed /\ OutcomesNext /\ UNCHANGED <<vars, engineVars>>

MCSpec ==
  /\ MCInit /\ [][MCNext]_<<engineVars, vars, outcomeVars>>
  /\ WF_vars(Step)
=============================================================================
