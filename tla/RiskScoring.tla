----------------------------- MODULE RiskScoring -----------------------------
(***************************************************************************)
(* The deterministic risk engine: get_scoring_input, source_health_for and *)
(* disposition_for of apps/api/main.py over calculate_risk of              *)
(* domain/risk_engine.py, applied by assess_trip to the evidence that      *)
(* put_evidence, the webhook or the collectors stored.                     *)
(*                                                                         *)
(* Scores are integers in hundredths of a point (two decimals of the       *)
(* code's floats), weights are percents, so a product is exact in 10^-4    *)
(* points before it is rounded to two decimals.                            *)
(***************************************************************************)
EXTENDS Integers

CONSTANTS EvidenceLists  \* the evidence lists that clients and collectors store

SourceTypes == {"flight_status", "connection_feasibility", "airport_weather",
                "ground_route", "destination_advisory"}

CoreSources == {"flight_status", "airport_weather", "ground_route"}

Freshnesses == {"fresh", "cached", "stale", "unavailable"}

Reading == [freshness : Freshnesses, score : Int]

\* The lists are grouped by source type; the order within a list is not read.
ASSUME ListsTyped == EvidenceLists \subseteq [SourceTypes -> SUBSET Reading]

VARIABLES
  evidence,     \* evidence_items of the trip
  criticality,  \* trip_criticality
  assessment    \* the last assessment that was saved

engineVars == <<evidence, criticality, assessment>>

-----------------------------------------------------------------------------
(***************************************************************************)
(* get_scoring_input.                                                      *)
(***************************************************************************)
Usable(e, s) == {x \in e[s] : x.freshness \notin {"stale", "unavailable"}}

Unknown(e) == {s \in SourceTypes : Usable(e, s) = {}}

Highest(R) == CHOOSE n \in {x.score : x \in R} : \A x \in R : x.score <= n

FactorOf(e, s) == IF s \in Unknown(e) THEN 0 ELSE Highest(Usable(e, s))

CriticalityScore(c) ==
  CASE c = "standard" -> 2000 [] c = "important" -> 6000
    [] c = "business_critical" -> 10000

MaxScore == 10000  \* 100 points

\* RiskFactors refuses a factor outside 0..100: the assessment fails.
Admissible(e) == \A s \in SourceTypes : FactorOf(e, s) \in 0 .. MaxScore

-----------------------------------------------------------------------------
(***************************************************************************)
(* calculate_risk.                                                         *)
(***************************************************************************)
Weight(s) ==
  CASE s = "flight_status" -> 35
    [] s \in {"connection_feasibility", "airport_weather"} -> 20
    [] s \in {"ground_route", "destination_advisory"} -> 10

CriticalityWeight == 5

RoundTruncating(n) == n \div 100

\* round(x, 2).  A tie goes to the even neighbour; the code's binary floats
\* may send it either way, which no property below depends on.
Round(n) ==
  LET q == n \div 100
      r == n % 100
  IN IF r > 50 \/ (r = 50 /\ q % 2 = 1) THEN q + 1 ELSE q

Contribution(e, s) == Round(FactorOf(e, s) * Weight(s))

Score(e, c) ==
  Contribution(e, "flight_status") + Contribution(e, "connection_feasibility")
  + Contribution(e, "airport_weather") + Contribution(e, "ground_route")
  + Contribution(e, "destination_advisory")
  + Round(CriticalityScore(c) * CriticalityWeight)

SeverityRanks == 0 .. 3  \* low, watch, high, critical

SeverityCriticalEarly(score) ==
  IF score < 2500 THEN 0 ELSE IF score < 5000 THEN 1 ELSE IF score < 6500 THEN 2 ELSE 3

Severity(score) ==
  IF score < 2500 THEN 0 ELSE IF score < 5000 THEN 1 ELSE IF score < 7500 THEN 2 ELSE 3

-----------------------------------------------------------------------------
(***************************************************************************)
(* source_health_for and disposition_for.                                  *)
(***************************************************************************)
Unavailable(e) == {s \in CoreSources : Usable(e, s) = {}}

AtLeastTwo(S) == \E x, y \in S : x # y

DispositionIgnoresFlight(e, severity) ==
  IF AtLeastTwo(Unavailable(e)) THEN "needs_human_review"
  ELSE IF severity >= 2 THEN "investigate"
  ELSE IF severity = 1 THEN "manager_queue" ELSE "monitor"

DispositionForgetsCritical(e, severity) ==
  IF \/ severity >= 2 /\ "flight_status" \in Unavailable(e)
     \/ AtLeastTwo(Unavailable(e))
  THEN "needs_human_review"
  ELSE IF severity = 2 THEN "investigate"
  ELSE IF severity = 1 THEN "manager_queue" ELSE "monitor"

Disposition(e, severity) ==
  IF \/ severity >= 2 /\ "flight_status" \in Unavailable(e)
     \/ AtLeastTwo(Unavailable(e))
  THEN "needs_human_review"
  ELSE IF severity >= 2 THEN "investigate"
  ELSE IF severity = 1 THEN "manager_queue" ELSE "monitor"

AssessmentOf(e, c) ==
  LET score == Score(e, c)
      severity == Severity(score)
  IN [used |-> e, score |-> score, severity |-> severity,
      disposition |-> Disposition(e, severity)]

-----------------------------------------------------------------------------
Criticalities == {"standard", "important", "business_critical"}

Dispositions == {"none", "needs_human_review", "investigate", "manager_queue",
                 "monitor"}

Assessments == [used : EvidenceLists, score : 0 .. MaxScore, severity : SeverityRanks,
                disposition : Dispositions]

EngineTypeOK ==
  /\ evidence \in EvidenceLists
  /\ criticality \in Criticalities
  /\ assessment \in Assessments

EngineInit ==
  /\ evidence \in EvidenceLists
  /\ criticality \in Criticalities
  /\ assessment = [used |-> evidence, score |-> 0, severity |-> 0,
                   disposition |-> "none"]

\* put_evidence replaces the whole list.
PutEvidence(e) ==
  /\ evidence' = e
  /\ UNCHANGED <<criticality, assessment>>

\* The scoring part of assess_trip; without an admissible list it raises.
Assess ==
  /\ Admissible(evidence)
  /\ assessment' = AssessmentOf(evidence, criticality)
  /\ UNCHANGED <<evidence, criticality>>

EngineNext == (\E e \in EvidenceLists : PutEvidence(e)) \/ Assess

EngineSpec == EngineInit /\ [][EngineNext]_engineVars

-----------------------------------------------------------------------------
(***************************************************************************)
(* Properties.                                                             *)
(***************************************************************************)

Assessed == assessment.disposition # "none"

Exact(e, c) ==
  FactorOf(e, "flight_status") * 35 + FactorOf(e, "connection_feasibility") * 20
  + FactorOf(e, "airport_weather") * 20 + FactorOf(e, "ground_route") * 10
  + FactorOf(e, "destination_advisory") * 10 + CriticalityScore(c) * 5

MaxRounding == 250  \* half a hundredth for each of the five rounded readings

\* Rounding every contribution before the sum moves a persisted score by at
\* most 0.025 points from the weighted mean the policy table defines, and
\* never out of 0..100, which RiskAssessment would refuse.
ScoreTracksWeights ==
  Assessed =>
    /\ assessment.score \in 0 .. MaxScore
    /\ 100 * assessment.score - Exact(assessment.used, criticality)
         \in -MaxRounding .. MaxRounding

\* The weights leave at most 65 points without flight status: a critical
\* assessment always rests on a usable flight status reading.
CriticalNeedsFlightStatus ==
  Assessed /\ assessment.severity = 3 =>
    Usable(assessment.used, "flight_status") # {}

\* The graph is entered only with sight of the flight and of another core
\* source, and only a trip with sight of two core sources is left to
\* monitoring or the manager queue (the source-health routing of the PRD).
SightedOrReviewed ==
  Assessed =>
    LET seen == {s \in CoreSources : Usable(assessment.used, s) # {}}
    IN /\ assessment.disposition = "investigate" =>
            "flight_status" \in seen /\ AtLeastTwo(seen)
       /\ assessment.disposition \in {"manager_queue", "monitor"} => AtLeastTwo(seen)

\* f is at least as bad as e: the same sources are known and none scores lower.
AtLeastAsBad(e, f) ==
  /\ Unknown(e) = Unknown(f)
  /\ \A s \in SourceTypes : FactorOf(e, s) <= FactorOf(f, s)

\* Worse readings of the same sources never calm a trip: a reassessment under
\* them has no lower score, no lower severity and, if the earlier one asked
\* for an incident, asks for one too.
WorseNeverCalms ==
  [][Assessed /\ assessment' # assessment
     /\ AtLeastAsBad(assessment.used, assessment'.used)
     => /\ assessment'.score >= assessment.score
        /\ assessment'.severity >= assessment.severity
        /\ assessment.disposition \in {"investigate", "needs_human_review"} =>
             assessment'.disposition \in {"investigate", "needs_human_review"}]_engineVars
=============================================================================
