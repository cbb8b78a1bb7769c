--------------------------- MODULE EvidenceProofs ---------------------------
(***************************************************************************)
(* Proofs about what a trip is judged by: the evidence that the providers  *)
(* deliver (EvidenceProviders, with the switches of RuntimeControls), and  *)
(* the score, severity and disposition the risk engine makes of it         *)
(* (RiskScoring).                                                          *)
(***************************************************************************)
EXTENDS RiskScoring, EvidenceProviders, FiniteSetTheorems, TLAPS

-----------------------------------------------------------------------------
(***************************************************************************)
(* The risk engine, for every family of evidence lists: the persisted      *)
(* score stays in range and near the weighted mean, a critical severity    *)
(* needs a usable flight status, and the disposition never sends a trip    *)
(* without sight of two core sources anywhere but to review.               *)
(***************************************************************************)

\* What Round adds or drops is at most half a hundredth (in 10^-4 points).
LEMMA RoundError ==
  ASSUME NEW n \in Nat
  PROVE  /\ Round(n) \in Nat
         /\ -50 <= 100 * Round(n) - n
         /\ 100 * Round(n) - n <= 50
  BY SMT DEF Round

\* An upper bound that is a multiple of a hundredth survives rounding.
LEMMA RoundBound ==
  ASSUME NEW n \in Nat, NEW b \in Nat, n <= 100 * b
  PROVE  Round(n) <= b
  BY SMT DEF Round

\* The contribution of a source whose weight is w: at most w points, half a
\* hundredth from the exact product, and nothing when the source is unknown.
Contributes(e, s, w) ==
  /\ FactorOf(e, s) \in Int
  /\ Contribution(e, s) \in Int
  /\ 0 <= Contribution(e, s)
  /\ Contribution(e, s) <= 100 * w
  /\ -50 <= 100 * Contribution(e, s) - FactorOf(e, s) * w
  /\ 100 * Contribution(e, s) - FactorOf(e, s) * w <= 50
  /\ s \in Unknown(e) => Contribution(e, s) = 0

\* calculate_risk: every factor in range contributes within its weight.
LEMMA ContributionBound ==
  ASSUME NEW e, NEW s \in SourceTypes, FactorOf(e, s) \in 0 .. MaxScore
  PROVE  Contributes(e, s, Weight(s))
<1> DEFINE f == FactorOf(e, s)
           w == Weight(s)
<1>1. f \in Int /\ 0 <= f /\ f <= 10000
  <2>1. MaxScore \in Int /\ f \in 0 .. MaxScore
    BY DEF MaxScore
  <2> HIDE DEF f
  <2>2. f \in Int /\ 0 <= f /\ f <= MaxScore
    BY ONLY <2>1, SMT
  <2> QED BY <2>2 DEF MaxScore
<1>2. w = 10 \/ w = 20 \/ w = 35
  BY DEF Weight, SourceTypes
<1>3. s \in Unknown(e) => f = 0
  BY DEF FactorOf
<1>4. Contribution(e, s) = Round(f * w)
  BY DEF Contribution
<1> HIDE DEF f, w
<1>5. f * w \in Nat /\ f * w <= 100 * (100 * w) /\ 100 * w \in Nat
  <2>1. CASE w = 10
    BY <1>1, <2>1, SMT
  <2>2. CASE w = 20
    BY <1>1, <2>2, SMT
  <2>3. CASE w = 35
    BY <1>1, <2>3, SMT
  <2> QED BY <1>2, <2>1, <2>2, <2>3
<1> DEFINE p == f * w
           h == 100 * w
<1>6. p \in Nat /\ h \in Nat /\ p <= 100 * h
  BY <1>5
<1>7. f = 0 => p = 0
  BY <1>2, SMT
<1> HIDE DEF p, h
<1>8. Round(p) \in Nat /\ -50 <= 100 * Round(p) - p /\ 100 * Round(p) - p <= 50
  BY <1>6, RoundError
<1>9. Round(p) <= h
  BY <1>6, RoundBound
<1>10. p = 0 => Round(p) = 0
  BY <1>8, SMT
<1>11. /\ 0 <= Round(p) /\ Round(p) \in Int
  BY <1>8, SMT
<1> QED BY <1>1, <1>3, <1>4, <1>7, <1>8, <1>9, <1>10, <1>11
        DEF Contributes, f, w, p, h

\* Trip criticality contributes 1, 3 or 5 points, exactly.
LEMMA CriticalityContribution ==
  ASSUME NEW c \in Criticalities
  PROVE  /\ Round(CriticalityScore(c) * CriticalityWeight) \in Int
         /\ 100 <= Round(CriticalityScore(c) * CriticalityWeight)
         /\ Round(CriticalityScore(c) * CriticalityWeight) <= 500
         /\ 100 * Round(CriticalityScore(c) * CriticalityWeight)
              = CriticalityScore(c) * 5
         /\ CriticalityScore(c) \in Int
  BY SMT DEF Criticalities, CriticalityScore, CriticalityWeight, Round

\* The score of an admissible list is in range, near the exact weighted sum,
\* and at most 65 points when the flight status is unknown.
LEMMA ScoreBounds ==
  ASSUME NEW e, NEW c \in Criticalities, Admissible(e)
  PROVE  /\ Score(e, c) \in 0 .. MaxScore
         /\ 100 * Score(e, c) - Exact(e, c) \in -MaxRounding .. MaxRounding
         /\ "flight_status" \in Unknown(e) => Score(e, c) <= 6500
<1>1. \A s \in SourceTypes : Contributes(e, s, Weight(s))
  BY ContributionBound DEF Admissible
<1>2. /\ Contributes(e, "flight_status", 35)
      /\ Contributes(e, "connection_feasibility", 20)
      /\ Contributes(e, "airport_weather", 20)
      /\ Contributes(e, "ground_route", 10)
      /\ Contributes(e, "destination_advisory", 10)
  <2>1. /\ "flight_status" \in SourceTypes /\ "connection_feasibility" \in SourceTypes
        /\ "airport_weather" \in SourceTypes /\ "ground_route" \in SourceTypes
        /\ "destination_advisory" \in SourceTypes
    BY DEF SourceTypes
  <2>2. /\ Weight("flight_status") = 35 /\ Weight("connection_feasibility") = 20
        /\ Weight("airport_weather") = 20 /\ Weight("ground_route") = 10
        /\ Weight("destination_advisory") = 10
    BY DEF Weight
  <2> QED BY <1>1, <2>1, <2>2
<1> DEFINE k1 == Contribution(e, "flight_status")
           k2 == Contribution(e, "connection_feasibility")
           k3 == Contribution(e, "airport_weather")
           k4 == Contribution(e, "ground_route")
           k5 == Contribution(e, "destination_advisory")
           k6 == Round(CriticalityScore(c) * CriticalityWeight)
           f1 == FactorOf(e, "flight_status")
           f2 == FactorOf(e, "connection_feasibility")
           f3 == FactorOf(e, "airport_weather")
           f4 == FactorOf(e, "ground_route")
           f5 == FactorOf(e, "destination_advisory")
           f6 == CriticalityScore(c)
           total == k1 + k2 + k3 + k4 + k5 + k6
           exact == f1 * 35 + f2 * 20 + f3 * 20 + f4 * 10 + f5 * 10 + f6 * 5
<1>3. /\ f1 \in Int /\ k1 \in Int /\ 0 <= k1 /\ k1 <= 100 * 35
      /\ -50 <= 100 * k1 - f1 * 35 /\ 100 * k1 - f1 * 35 <= 50
      /\ "flight_status" \in Unknown(e) => k1 = 0
  BY <1>2 DEF Contributes
<1>4. /\ f2 \in Int /\ k2 \in Int /\ 0 <= k2 /\ k2 <= 100 * 20
      /\ -50 <= 100 * k2 - f2 * 20 /\ 100 * k2 - f2 * 20 <= 50
  BY <1>2 DEF Contributes
<1>5. /\ f3 \in Int /\ k3 \in Int /\ 0 <= k3 /\ k3 <= 100 * 20
      /\ -50 <= 100 * k3 - f3 * 20 /\ 100 * k3 - f3 * 20 <= 50
  BY <1>2 DEF Contributes
<1>6. /\ f4 \in Int /\ k4 \in Int /\ 0 <= k4 /\ k4 <= 100 * 10
      /\ -50 <= 100 * k4 - f4 * 10 /\ 100 * k4 - f4 * 10 <= 50
  BY <1>2 DEF Contributes
<1>7. /\ f5 \in Int /\ k5 \in Int /\ 0 <= k5 /\ k5 <= 100 * 10
      /\ -50 <= 100 * k5 - f5 * 10 /\ 100 * k5 - f5 * 10 <= 50
  BY <1>2 DEF Contributes
<1>8. /\ f6 \in Int /\ k6 \in Int /\ 100 <= k6 /\ k6 <= 500 /\ 100 * k6 = f6 * 5
  BY CriticalityContribution
<1>9. Score(e, c) = total /\ Exact(e, c) = exact
  BY DEF Score, Exact
<1> HIDE DEF k1, k2, k3, k4, k5, k6, f1, f2, f3, f4, f5, f6
<1>10. total \in Int /\ 0 <= total /\ total <= 10000
  BY ONLY <1>3, <1>4, <1>5, <1>6, <1>7, <1>8, SMT
<1>11. /\ 100 * total - exact \in Int
       /\ -250 <= 100 * total - exact /\ 100 * total - exact <= 250
  BY ONLY <1>3, <1>4, <1>5, <1>6, <1>7, <1>8, SMT
<1>12. "flight_status" \in Unknown(e) => total <= 6500
  BY ONLY <1>3, <1>4, <1>5, <1>6, <1>7, <1>8, SMT
<1> DEFINE d == 100 * total - exact
<1>13. total \in 0 .. MaxScore /\ d \in -MaxRounding .. MaxRounding
  <2>1. d \in Int /\ -250 <= d /\ d <= 250
    BY <1>11
  <2> HIDE DEF d, total
  <2>2. MaxScore = 10000 /\ MaxRounding = 250
    BY DEF MaxScore, MaxRounding
  <2> QED BY ONLY <1>10, <2>1, <2>2, SMT
<1> HIDE DEF total, exact
<1> QED BY ONLY <1>9, <1>12, <1>13

-----------------------------------------------------------------------------
\* The inductive invariant: an assessment that was saved is the one the
\* engine computes from the evidence it used, and that evidence was
\* admissible; the criticality of the trip does not change.
Engine ==
  /\ evidence \in EvidenceLists
  /\ criticality \in Criticalities
  /\ assessment.disposition = "none" =>
       assessment = [used |-> assessment.used, score |-> 0, severity |-> 0,
                     disposition |-> "none"]
  /\ assessment.used \in EvidenceLists
  /\ Assessed => /\ Admissible(assessment.used)
                 /\ assessment = AssessmentOf(assessment.used, criticality)

\* Every disposition the engine computes is one of the four, never "none".
LEMMA DispositionKinds ==
  ASSUME NEW e, NEW n
  PROVE  Disposition(e, n) \in Dispositions \ {"none"}
  BY DEF Disposition, Dispositions

\* Every saved assessment is the engine's answer to admissible evidence.
THEOREM EngineInvariant == EngineSpec => []Engine
<1>1. EngineInit => Engine
  BY DEF EngineInit, Engine, Assessed
<1>2. Engine /\ [EngineNext]_engineVars => Engine'
  <2> SUFFICES ASSUME Engine, [EngineNext]_engineVars PROVE Engine'
    OBVIOUS
  <2>1. ASSUME NEW e \in EvidenceLists, PutEvidence(e) PROVE Engine'
    BY <2>1 DEF PutEvidence, Engine, Assessed
  <2>2. CASE Assess
    <3>1. AssessmentOf(evidence, criticality).used = evidence
      BY DEF AssessmentOf
    <3>2. AssessmentOf(evidence, criticality).disposition # "none"
      BY DispositionKinds DEF AssessmentOf
    <3>3. assessment' = AssessmentOf(evidence, criticality)
      BY <2>2 DEF Assess
    <3> QED BY <2>2, <3>1, <3>2, <3>3 DEF Assess, Engine, Assessed
  <2>3. CASE UNCHANGED engineVars
    BY <2>3 DEF engineVars, Engine, Assessed
  <2> QED BY <2>1, <2>2, <2>3 DEF EngineNext
<1> QED BY <1>1, <1>2, PTL DEF EngineSpec

\* The fields of an assessment the engine computed.
LEMMA EngineFields ==
  ASSUME Engine, Assessed
  PROVE  /\ assessment.score = Score(assessment.used, criticality)
         /\ assessment.severity = Severity(assessment.score)
         /\ assessment.disposition = Disposition(assessment.used, assessment.severity)
  BY DEF Engine, AssessmentOf

\* Evidence, criticality and the saved assessment keep their types.
THEOREM EngineTypeCorrect == EngineSpec => []EngineTypeOK
<1>1. Engine => EngineTypeOK
  <2> SUFFICES ASSUME Engine PROVE assessment \in Assessments
    BY DEF Engine, EngineTypeOK
  <2>1. CASE ~Assessed
    <3>1. 0 \in 0 .. MaxScore
      <4>1. MaxScore \in Nat
        BY DEF MaxScore
      <4> QED BY ONLY <4>1, SMT
    <3> QED BY <2>1, <3>1 DEF Assessed, Engine, Assessments, SeverityRanks, Dispositions
  <2>2. CASE Assessed
    <3> DEFINE e == assessment.used
               n == Score(e, criticality)
    <3>1. e \in EvidenceLists /\ Admissible(e) /\ criticality \in Criticalities
      BY <2>2 DEF Engine
    <3>2. n \in 0 .. MaxScore
      BY <3>1, ScoreBounds
    <3>3. Severity(n) \in SeverityRanks
      BY DEF Severity, SeverityRanks
    <3>4. Disposition(e, Severity(n)) \in Dispositions
      BY DispositionKinds
    <3>5. assessment = [used |-> e, score |-> n, severity |-> Severity(n),
                        disposition |-> Disposition(e, Severity(n))]
      BY <2>2 DEF Engine, AssessmentOf
    <3> HIDE DEF e, n
    <3> QED BY <3>1, <3>2, <3>3, <3>4, <3>5 DEF Assessments
  <2> QED BY <2>1, <2>2
<1> QED BY <1>1, EngineInvariant, PTL

-----------------------------------------------------------------------------
\* calculate_risk: the persisted score is in 0..100 and within 0.025 points of
\* the weighted mean, for all evidence.
THEOREM ScoresTrackWeights == EngineSpec => []ScoreTracksWeights
<1>1. Engine => ScoreTracksWeights
  <2> SUFFICES ASSUME Engine, Assessed
               PROVE  /\ assessment.score \in 0 .. MaxScore
                      /\ 100 * assessment.score - Exact(assessment.used, criticality)
                           \in -MaxRounding .. MaxRounding
    BY DEF ScoreTracksWeights
  <2>1. Admissible(assessment.used) /\ criticality \in Criticalities
    BY DEF Engine
  <2> QED BY <2>1, EngineFields, ScoreBounds
<1> QED BY <1>1, EngineInvariant, PTL

\* severity_for_score: a critical assessment rests on a usable flight status.
THEOREM CriticalRestsOnFlightStatus == EngineSpec => []CriticalNeedsFlightStatus
<1>1. Engine => CriticalNeedsFlightStatus
  <2> SUFFICES ASSUME Engine, Assessed, assessment.severity = 3,
                      Usable(assessment.used, "flight_status") = {}
               PROVE  FALSE
    BY DEF CriticalNeedsFlightStatus
  <2>1. Admissible(assessment.used) /\ criticality \in Criticalities
    BY DEF Engine
  <2>2. "flight_status" \in Unknown(assessment.used)
    BY DEF Unknown, SourceTypes
  <2>3. assessment.score \in 0 .. MaxScore /\ assessment.score <= 6500
    BY <2>1, <2>2, EngineFields, ScoreBounds
  <2>4. Severity(assessment.score) # 3
    <3> DEFINE n == assessment.score
    <3>1. n \in Int /\ n <= 6500
      <4>1. MaxScore \in Int /\ n \in 0 .. MaxScore /\ n <= 6500
        BY <2>3 DEF MaxScore
      <4> HIDE DEF n
      <4> QED BY ONLY <4>1, SMT
    <3> HIDE DEF n
    <3>2. Severity(n) # 3
      BY ONLY <3>1, SMT DEF Severity
    <3> QED BY <3>2 DEF n
  <2> QED BY <2>4, EngineFields
<1> QED BY <1>1, EngineInvariant, PTL

\* disposition_for: without sight of the flight no investigation, without
\* sight of two core sources nothing but human review.
THEOREM SightOrReview == EngineSpec => []SightedOrReviewed
<1>1. Engine => SightedOrReviewed
  <2> SUFFICES ASSUME Engine, Assessed PROVE SightedOrReviewed
    BY DEF SightedOrReviewed
  <2> DEFINE seen == {s \in CoreSources : Usable(assessment.used, s) # {}}
             blind == Unavailable(assessment.used)
  <2>1. assessment.disposition = Disposition(assessment.used, assessment.severity)
    BY EngineFields
  <2>2. \A s \in CoreSources : s \in seen <=> s \notin blind
    BY DEF Unavailable
  <2>3. ~AtLeastTwo(blind) => AtLeastTwo(seen)
    BY <2>2 DEF AtLeastTwo, CoreSources, Unavailable
  <2>4. CASE AtLeastTwo(blind)
    BY <2>1, <2>4 DEF Disposition, SightedOrReviewed
  <2>5. CASE ~AtLeastTwo(blind)
    <3>1. assessment.disposition = "investigate" => "flight_status" \in seen
      <4> SUFFICES ASSUME assessment.disposition = "investigate",
                          "flight_status" \in blind
                   PROVE  FALSE
        BY <2>2 DEF CoreSources
      <4> QED BY <2>1, <2>5 DEF Disposition
    <3> QED BY <2>3, <2>5, <3>1 DEF SightedOrReviewed
  <2> QED BY <2>4, <2>5
<1> QED BY <1>1, EngineInvariant, PTL

-----------------------------------------------------------------------------
\* Rounding keeps the order of two products.
LEMMA RoundMonotone ==
  ASSUME NEW m \in Nat, NEW n \in Nat, m <= n
  PROVE  Round(m) <= Round(n)
<1> DEFINE q(x) == x \div 100
           r(x) == x % 100
<1>1. /\ q(m) \in Nat /\ r(m) \in Nat /\ r(m) <= 99 /\ m = 100 * q(m) + r(m)
      /\ q(n) \in Nat /\ r(n) \in Nat /\ r(n) <= 99 /\ n = 100 * q(n) + r(n)
  BY SMT
<1>2. /\ Round(m) = IF r(m) > 50 \/ (r(m) = 50 /\ q(m) % 2 = 1) THEN q(m) + 1 ELSE q(m)
      /\ Round(n) = IF r(n) > 50 \/ (r(n) = 50 /\ q(n) % 2 = 1) THEN q(n) + 1 ELSE q(n)
  BY DEF Round
<1>3. q(m) < q(n) \/ (q(m) = q(n) /\ r(m) <= r(n))
  BY <1>1, SMT
<1> HIDE DEF q, r
<1> QED BY <1>1, <1>2, <1>3, SMT

\* A higher reading of a source contributes no less.
LEMMA ContributionMonotone ==
  ASSUME NEW e, NEW f, NEW s \in SourceTypes,
         FactorOf(e, s) \in 0 .. MaxScore, FactorOf(f, s) \in 0 .. MaxScore,
         FactorOf(e, s) <= FactorOf(f, s)
  PROVE  Contribution(e, s) <= Contribution(f, s)
<1> DEFINE x == FactorOf(e, s)
           y == FactorOf(f, s)
           w == Weight(s)
<1>1. MaxScore \in Int /\ x \in 0 .. MaxScore /\ y \in 0 .. MaxScore /\ x <= y
  BY DEF MaxScore
<1>2. w = 10 \/ w = 20 \/ w = 35
  BY DEF Weight, SourceTypes
<1>3. Contribution(e, s) = Round(x * w) /\ Contribution(f, s) = Round(y * w)
  BY DEF Contribution
<1> HIDE DEF x, y, w
<1>4. x \in Nat /\ y \in Nat
  BY ONLY <1>1, SMT
<1>5. x * w \in Nat /\ y * w \in Nat /\ x * w <= y * w
  <2>1. CASE w = 10
    BY <1>1, <1>4, <2>1, SMT
  <2>2. CASE w = 20
    BY <1>1, <1>4, <2>2, SMT
  <2>3. CASE w = 35
    BY <1>1, <1>4, <2>3, SMT
  <2> QED BY <1>2, <2>1, <2>2, <2>3
<1> QED BY <1>3, <1>5, RoundMonotone

\* Readings that are at least as bad never lower the score.
LEMMA ScoreMonotone ==
  ASSUME NEW e, NEW f, NEW c \in Criticalities, Admissible(e), Admissible(f),
         AtLeastAsBad(e, f)
  PROVE  Score(e, c) <= Score(f, c)
<1>1. \A s \in SourceTypes : /\ Contribution(e, s) <= Contribution(f, s)
                              /\ Contribution(e, s) \in Int
                              /\ Contribution(f, s) \in Int
  <2> SUFFICES ASSUME NEW s \in SourceTypes
               PROVE  /\ Contribution(e, s) <= Contribution(f, s)
                      /\ Contribution(e, s) \in Int
                      /\ Contribution(f, s) \in Int
    OBVIOUS
  <2>1. FactorOf(e, s) \in 0 .. MaxScore /\ FactorOf(f, s) \in 0 .. MaxScore
    BY DEF Admissible
  <2>2. FactorOf(e, s) <= FactorOf(f, s)
    BY DEF AtLeastAsBad
  <2>3. Contribution(e, s) <= Contribution(f, s)
    BY <2>1, <2>2, ContributionMonotone
  <2>4. Contribution(e, s) \in Int /\ Contribution(f, s) \in Int
    BY <2>1, ContributionBound DEF Contributes
  <2> QED BY <2>3, <2>4
<1> DEFINE Up(s) == /\ Contribution(e, s) <= Contribution(f, s)
                    /\ Contribution(e, s) \in Int
                    /\ Contribution(f, s) \in Int
<1>2. /\ Up("flight_status") /\ Up("connection_feasibility") /\ Up("airport_weather")
      /\ Up("ground_route") /\ Up("destination_advisory")
  BY <1>1 DEF SourceTypes
<1>3. Round(CriticalityScore(c) * CriticalityWeight) \in Int
  BY CriticalityContribution
<1> QED BY <1>2, <1>3, SMT DEF Score

\* calculate_risk and disposition_for: worse readings of the same sources
\* never calm a trip, whatever the evidence.
THEOREM WorseReadingsNeverCalm == EngineSpec => WorseNeverCalms
<1> DEFINE Calm == /\ Assessed /\ assessment' # assessment
                   /\ AtLeastAsBad(assessment.used, assessment'.used)
           Kept == /\ assessment'.score >= assessment.score
                   /\ assessment'.severity >= assessment.severity
                   /\ assessment.disposition \in {"investigate", "needs_human_review"} =>
                        assessment'.disposition \in {"investigate", "needs_human_review"}
<1>1. Engine /\ Engine' /\ [EngineNext]_engineVars => [Calm => Kept]_engineVars
  <2> SUFFICES ASSUME Engine, Engine', [EngineNext]_engineVars, Calm PROVE Kept
    OBVIOUS
  <2>1. Assess
    BY DEF EngineNext, PutEvidence, engineVars
  <2> DEFINE e == assessment.used
             f == assessment'.used
             m == assessment.score
             n == assessment'.score
  <2>2. assessment'.disposition # "none"
    BY <2>1, DispositionKinds DEF Assess, AssessmentOf
  <2>3. /\ Admissible(e) /\ m = Score(e, criticality) /\ criticality \in Criticalities
        /\ assessment.severity = Severity(m)
        /\ assessment.disposition = Disposition(e, Severity(m))
    BY EngineFields DEF Engine
  <2>4. criticality' = criticality
    BY <2>1 DEF Assess
  <2>5. /\ Admissible(f) /\ n = Score(f, criticality)
        /\ assessment'.severity = Severity(n)
        /\ assessment'.disposition = Disposition(f, Severity(n))
    BY <2>1, <2>4, <2>2 DEF Assess, AssessmentOf, Engine, Assessed
  <2>6. m <= n
    BY <2>3, <2>5, ScoreMonotone
  <2>7. m \in Int /\ n \in Int
    <3>1. m \in 0 .. MaxScore /\ n \in 0 .. MaxScore
      BY <2>3, <2>5, ScoreBounds
    <3>2. MaxScore \in Int
      BY DEF MaxScore
    <3> HIDE DEF m, n
    <3> QED BY ONLY <3>1, <3>2, SMT
  <2>8. Unavailable(e) = Unavailable(f)
    <3>1. Unknown(e) = Unknown(f)
      BY DEF AtLeastAsBad
    <3>2. \A s \in CoreSources : Usable(e, s) = {} <=> Usable(f, s) = {}
      BY <3>1 DEF Unknown, CoreSources, SourceTypes
    <3> QED BY <3>2 DEF Unavailable
  <2> HIDE DEF m, n, e, f
  <2>9. Severity(m) \in Int /\ Severity(n) \in Int /\ Severity(m) <= Severity(n)
    BY ONLY <2>6, <2>7, SMT DEF Severity
  <2>10. ASSUME Disposition(e, Severity(m)) \in {"investigate", "needs_human_review"}
         PROVE  Disposition(f, Severity(n)) \in {"investigate", "needs_human_review"}
    <3>1. CASE AtLeastTwo(Unavailable(e))
      BY <2>8, <3>1 DEF Disposition
    <3>2. CASE ~AtLeastTwo(Unavailable(e))
      <4>1. Severity(m) >= 2
        BY <2>9, <2>10, <3>2 DEF Disposition
      <4>2. Severity(n) >= 2
        BY ONLY <4>1, <2>9, SMT
      <4> QED BY <4>2 DEF Disposition
    <3> QED BY <3>1, <3>2
  <2> QED BY <2>3, <2>5, <2>6, <2>7, <2>9, <2>10 DEF m, n
<1> QED BY <1>1, EngineInvariant, PTL DEF EngineSpec, WorseNeverCalms

-----------------------------------------------------------------------------
(***************************************************************************)
(* The providers, for any number of tenants, collections, adapters and     *)
(* trip keys, any freshness, number of retries and breaker threshold, and  *)
(* any changes of the switches.                                            *)
(***************************************************************************)
-----------------------------------------------------------------------------
(***************************************************************************)
(* control_enabled: what a read that takes two transactions can return.    *)
(***************************************************************************)
OverrideRows == [Scopes \X Controls -> Override \cup {None}]

PlatformValue(ov, c) ==
  IF InForce(ov[<<Platform, c>>]) THEN ov[<<Platform, c>>].enabled ELSE Default[c]

\* A read under way knows whether the control has been on since it began; and
\* once it has passed the tenant's row, that row is still not in force unless
\* it moved, and the platform's row still says off unless it moved.
UnderWay(d, ov) ==
  /\ d.tenant \in Tenants /\ d.control \in Controls
  /\ d.on \/ ~Effective(ov, d.tenant, d.control)
  /\ d.phase = "platform" /\ ~d.on =>
       /\ "tenant" \in d.moved \/ ~InForce(ov[<<d.tenant, d.control>>])
       /\ "platform" \in d.moved \/ ~PlatformValue(ov, d.control)

SoundReads ==
  \A p \in Readers :
    /\ read[p].phase \in {"tenant", "platform"} => UnderWay(read[p], override)
    /\ read[p].phase = "done" => read[p].sound

LEMMA ValuesAreBoolean ==
  ASSUME NEW ov \in OverrideRows, NEW t \in Tenants, NEW c \in Controls
  PROVE  /\ Effective(ov, t, c) \in BOOLEAN /\ PlatformValue(ov, c) \in BOOLEAN
         /\ Effective(ov, t, c) = IF InForce(ov[<<t, c>>]) THEN ov[<<t, c>>].enabled
                                  ELSE PlatformValue(ov, c)
         /\ \A s \in {t, Platform} : InForce(ov[<<s, c>>]) => ov[<<s, c>>].enabled \in BOOLEAN
BY DefaultTyped DEF OverrideRows, Scopes, Override, Effective, PlatformValue, InForce

\* While the rows change, the history of a read stays true to them.
LEMMA WatchKeeps ==
  ASSUME NEW d \in Read, d.phase \in {"tenant", "platform"},
         override \in OverrideRows, NEW ov \in OverrideRows, UnderWay(d, override)
  PROVE  /\ Watch(d, ov) \in Read /\ Watch(d, ov).phase = d.phase
         /\ UnderWay(Watch(d, ov), ov)
<1> DEFINE t == d.tenant
           c == d.control
           Value(row) == IF InForce(row) THEN row.enabled ELSE None
           Moved(s) == Value(ov[<<s, c>>]) # Value(override[<<s, c>>])
           moved == d.moved \cup (IF Moved(t) THEN {"tenant"} ELSE {})
                            \cup (IF Moved(Platform) THEN {"platform"} ELSE {})
<1>1. t \in Tenants /\ c \in Controls
  BY DEF UnderWay
<1>2. moved \in SUBSET {"tenant", "platform"}
  BY DEF Read
<1>3. CASE d.on \/ Effective(ov, t, c)
  <2>1. Watch(d, ov) = [d EXCEPT !.on = TRUE, !.moved = {}]
    BY <1>3 DEF Watch
  <2>2. /\ Watch(d, ov) \in Read /\ Watch(d, ov).phase = d.phase
        /\ Watch(d, ov).tenant = t /\ Watch(d, ov).control = c
        /\ Watch(d, ov).on
    <3>1. PICK e \in Read : e = [d EXCEPT !.on = TRUE, !.moved = {}]
      BY DEF Read
    <3>2. e.phase = d.phase /\ e.tenant = t /\ e.control = c
      BY <3>1 DEF Read
    <3>3. e.on
      BY <3>1 DEF Read
    <3> QED
      BY <2>1, <3>1, <3>2, <3>3
  <2> QED
    BY <1>1, <2>2 DEF UnderWay
<1>4. CASE ~(d.on \/ Effective(ov, t, c))
  <2>1. Watch(d, ov) = [d EXCEPT !.moved = moved]
    BY <1>4 DEF Watch
  <2>2. /\ Watch(d, ov) \in Read /\ Watch(d, ov).phase = d.phase
        /\ Watch(d, ov).tenant = t /\ Watch(d, ov).control = c
        /\ Watch(d, ov).on = d.on /\ Watch(d, ov).moved = moved
    <3> HIDE DEF moved
    <3> QED
      BY <1>2, <2>1 DEF Read
  <2>3. ASSUME d.phase = "platform"
        PROVE  /\ "tenant" \in moved \/ ~InForce(ov[<<t, c>>])
               /\ "platform" \in moved \/ ~PlatformValue(ov, c)
    <3>1. /\ "tenant" \in d.moved \/ ~InForce(override[<<t, c>>])
          /\ "platform" \in d.moved \/ ~PlatformValue(override, c)
      BY <1>4, <2>3 DEF UnderWay
    <3>2. ~Moved(t) => InForce(ov[<<t, c>>]) = InForce(override[<<t, c>>])
      BY <1>1, ValuesAreBoolean, NoneIsNoValue DEF InForce
    <3>3. ~Moved(Platform) => PlatformValue(ov, c) = PlatformValue(override, c)
      BY <1>1, ValuesAreBoolean, NoneIsNoValue DEF PlatformValue
    <3> QED
      BY <3>1, <3>2, <3>3
  <2> QED
    BY <1>1, <1>4, <2>2, <2>3 DEF UnderWay
<1> QED
  BY <1>3, <1>4

\* What a read returns: "on" only if the control was on during the read, or
\* both rows moved.
LEMMA ReturnsSound ==
  ASSUME NEW d \in Read, override \in OverrideRows, UnderWay(d, override)
  PROVE  /\ d.phase = "tenant" /\ InForce(override[<<d.tenant, d.control>>])
              /\ override[<<d.tenant, d.control>>].enabled => d.on
         /\ d.phase = "platform" /\ PlatformValue(override, d.control)
              => d.on \/ d.moved = {"tenant", "platform"}
<1>1. d.tenant \in Tenants /\ d.control \in Controls
  BY DEF UnderWay
<1>2. /\ d.on \/ ~Effective(override, d.tenant, d.control)
      /\ d.phase = "platform" /\ ~d.on =>
           /\ "tenant" \in d.moved \/ ~InForce(override[<<d.tenant, d.control>>])
           /\ "platform" \in d.moved \/ ~PlatformValue(override, d.control)
  BY DEF UnderWay
<1>3. d.moved \in SUBSET {"tenant", "platform"}
  BY DEF Read
<1>4. Effective(override, d.tenant, d.control)
        = IF InForce(override[<<d.tenant, d.control>>])
          THEN override[<<d.tenant, d.control>>].enabled
          ELSE PlatformValue(override, d.control)
  BY <1>1, ValuesAreBoolean
<1> QED
  BY <1>2, <1>3, <1>4

LEMMA BegunIsSound ==
  ASSUME override \in OverrideRows, NEW t \in Tenants, NEW c \in Controls
  PROVE  /\ BegunRead(t, c) \in Read /\ BegunRead(t, c).phase = "tenant"
         /\ UnderWay(BegunRead(t, c), override)
<1>1. Effective(override, t, c) \in BOOLEAN
  BY ValuesAreBoolean
<1>2. PICK d : d = BegunRead(t, c)
  OBVIOUS
<1>3. /\ d \in Read /\ d.phase = "tenant" /\ d.tenant = t /\ d.control = c
      /\ d.on = Effective(override, t, c)
  BY <1>1, <1>2 DEF BegunRead, NoRead, Read
<1>4. d.on \/ ~Effective(override, t, c)
  BY <1>1, <1>3
<1> QED
  BY <1>2, <1>3, <1>4 DEF UnderWay

\* The rows change while reads are under way.
LEMMA RowsMove ==
  ASSUME ControlsTypeOK, SoundReads, override' \in OverrideRows,
         read' = Watched(override')
  PROVE  /\ read' \in [Readers -> Read] /\ SoundReads'
         /\ \A p \in Readers : /\ read'[p].phase = read[p].phase
                               /\ read[p].phase = "done" => read'[p] = read[p]
<1>1. override \in OverrideRows
  BY DEF ControlsTypeOK, OverrideRows
<1>2. ASSUME NEW p \in Readers, read[p].phase \in {"tenant", "platform"}
      PROVE  /\ read'[p] \in Read /\ read'[p].phase = read[p].phase
             /\ UnderWay(read'[p], override')
  <2>1. read[p] \in Read /\ UnderWay(read[p], override)
    BY <1>2 DEF ControlsTypeOK, SoundReads
  <2>2. read'[p] = Watch(read[p], override')
    BY <1>2 DEF Watched
  <2> QED
    BY <1>1, <1>2, <2>1, <2>2, WatchKeeps
<1>3. ASSUME NEW p \in Readers, read[p].phase \notin {"tenant", "platform"}
      PROVE  read'[p] = read[p] /\ read[p] \in Read
  BY <1>3 DEF Watched, ControlsTypeOK
<1>4. read' \in [Readers -> Read]
  <2>1. read' = [p \in Readers |-> read'[p]]
    BY DEF Watched
  <2> QED
    BY <1>2, <1>3, <2>1
<1>5. SoundReads'
  BY <1>2, <1>3 DEF SoundReads
<1> QED
  BY <1>2, <1>3, <1>4, <1>5

\* A read returns.
LEMMA ReturnIsSound ==
  ASSUME NEW d \in Read, NEW value \in BOOLEAN,
         value => d.on \/ d.moved = {"tenant", "platform"}
  PROVE  Returned(d, value) \in Read /\ Returned(d, value).phase = "done"
         /\ Returned(d, value).sound
<1>1. (value => d.on \/ d.moved = {"tenant", "platform"}) = TRUE
  OBVIOUS
<1>2. Returned(d, value) = [d EXCEPT !.phase = "done", !.result = value, !.on = FALSE,
                                     !.moved = {}, !.sound = TRUE]
  BY <1>1 DEF Returned
<1> QED
  BY <1>2 DEF Read

\* control_enabled reads one of the two rows.
LEMMA ReadStep ==
  ASSUME ControlsTypeOK, SoundReads, NEW p \in Readers,
         ReadTenant(p) \/ ReadPlatform(p)
  PROVE  /\ ControlsTypeOK' /\ SoundReads'
         /\ read[p].phase # "done" /\ \A q \in Readers \ {p} : read'[q] = read[q]
<1> DEFINE d == read[p]
           t == d.tenant
           c == d.control
<1>1. /\ override \in OverrideRows /\ d \in Read /\ UNCHANGED <<override, changes>>
      /\ d.phase \in {"tenant", "platform"}
  BY DEF ControlsTypeOK, OverrideRows, ReadTenant, ReadPlatform
<1>2. UnderWay(d, override) /\ t \in Tenants /\ c \in Controls
  BY <1>1 DEF SoundReads, UnderWay
<1>3. ASSUME NEW s \in {t, Platform}
      PROVE  /\ GetOverride(s, c) # None <=> InForce(override[<<s, c>>])
             /\ GetOverride(s, c) # None => GetOverride(s, c) = override[<<s, c>>]
  BY DEF GetOverride, InForce
<1>4. ASSUME NEW e \in Read, read' = [read EXCEPT ![p] = e],
             e.phase \in {"tenant", "platform"} => UnderWay(e, override),
             e.phase = "done" => e.sound
      PROVE  /\ ControlsTypeOK' /\ SoundReads'
             /\ \A q \in Readers \ {p} : read'[q] = read[q]
  BY <1>1, <1>4 DEF ControlsTypeOK, SoundReads
<1>5. CASE ReadTenant(p) /\ GetOverride(t, c) = None
  <2>1. PICK e \in Read : e = [d EXCEPT !.phase = "platform"]
    BY <1>1 DEF Read
  <2>2. /\ e.phase = "platform" /\ e.tenant = t /\ e.control = c /\ e.on = d.on
        /\ e.moved = d.moved
    BY <1>1, <2>1 DEF Read
  <2>3. ~InForce(override[<<t, c>>])
    BY <1>3, <1>5
  <2>4. d.on \/ ~PlatformValue(override, c)
    BY <1>1, <1>2, <2>3, ValuesAreBoolean DEF UnderWay
  <2>5. UnderWay(e, override)
    BY <1>2, <2>2, <2>3, <2>4 DEF UnderWay
  <2>6. read' = [read EXCEPT ![p] = e]
    BY <1>5, <2>1 DEF ReadTenant
  <2> QED
    BY <1>1, <1>4, <2>2, <2>5, <2>6
<1>6. CASE ReadTenant(p) /\ GetOverride(t, c) # None
  <2> DEFINE value == override[<<t, c>>].enabled
  <2>1. InForce(override[<<t, c>>]) /\ value \in BOOLEAN
    BY <1>1, <1>2, <1>3, <1>6, ValuesAreBoolean
  <2>2. value => d.on
    BY <1>1, <1>2, <1>6, <2>1, ReturnsSound DEF ReadTenant
  <2>3. read' = [read EXCEPT ![p] = Returned(d, value)]
    BY <1>3, <1>6 DEF ReadTenant
  <2> HIDE DEF value
  <2>4. Returned(d, value) \in Read /\ Returned(d, value).phase = "done"
        /\ Returned(d, value).sound
    BY <1>1, <2>1, <2>2, ReturnIsSound
  <2> QED
    BY <1>1, <1>4, <2>3, <2>4
<1>7. CASE ReadPlatform(p)
  <2> DEFINE value == PlatformValue(override, c)
  <2>1. value \in BOOLEAN
    BY <1>1, <1>2, ValuesAreBoolean
  <2>2. value => d.on \/ d.moved = {"tenant", "platform"}
    BY <1>1, <1>2, <1>7, ReturnsSound DEF ReadPlatform
  <2>3. read' = [read EXCEPT ![p] = Returned(d, value)]
    BY <1>3, <1>7 DEF ReadPlatform, PlatformValue
  <2> HIDE DEF value
  <2>4. Returned(d, value) \in Read /\ Returned(d, value).phase = "done"
        /\ Returned(d, value).sound
    BY <1>1, <2>1, <2>2, ReturnIsSound
  <2> QED
    BY <1>1, <1>4, <2>3, <2>4
<1> QED
  BY <1>1, <1>5, <1>6, <1>7

\* Administrators change rows, and rows expire: rows stay rows.
LEMMA RowsStayTyped ==
  ASSUME TypeOK, ControlsNext(plan.targets) \/ AgeOverrides
  PROVE  /\ override' \in OverrideRows /\ changes' \in 0 .. MaxChanges
         /\ read' = Watched(override')
<1>1. override \in OverrideRows /\ changes \in 0 .. MaxChanges
  BY DEF TypeOK, ControlsTypeOK, OverrideRows
<1>2. CASE AgeOverrides
  <2>1. \A left \in Nat \cup {Forever} : Aged(left) \in Nat \cup {Forever}
    BY LifetimesTyped DEF Aged
  <2> QED
    BY <1>1, <1>2, <2>1 DEF AgeOverrides, OverrideRows, Override
<1>3. CASE ControlsNext(plan.targets)
  <2>1. plan.targets \subseteq Scopes \X Controls
    BY CollectorsTyped DEF TypeOK
  <2>2. PICK s \in Scopes, c \in Controls, enabled \in BOOLEAN, left \in Lifetimes :
               SaveChange(s, c, enabled, left)
    BY <1>3, <2>1
       DEF ControlsNext, SetRuntimeControl, SetPlatformRuntimeControl, Scopes
  <2>3. [enabled |-> enabled, left |-> left] \in Override
    BY LifetimesTyped DEF Override
  <2>4. changes' \in 0 .. MaxChanges
    BY <1>1, <2>2, ChangesBounded DEF SaveChange
  <2> QED
    BY <1>1, <2>2, <2>3, <2>4 DEF SaveChange, OverrideRows
<1> QED
  BY <1>2, <1>3

-----------------------------------------------------------------------------
(***************************************************************************)
(* Collections, fetches and the cache.                                     *)
(***************************************************************************)
Entries == Tenants \X Types \X TripKeys

\* An entry is about the tenant, source type and trip key it is filed under.
CacheKeyed ==
  \A x \in Entries :
    cache[x] # None =>
      cache[x].tenant = x[1] /\ cache[x].type = x[2] /\ cache[x].key = x[3]

\* A fetch that is sending belongs to a collection whose switches are resolved,
\* among them its own as on.
FetchShape ==
  /\ \A c \in Collectors : Collecting(c) => collect[c].tenant \in Tenants
                                            /\ collect[c].key \in TripKeys
  /\ \A c \in Collectors, a \in Adapters :
       /\ fetch[<<c, a>>].current
       /\ Sending(c, a) => Collecting(c) /\ Resolved(c) /\ read[<<c, a>>].result

PInv == TypeOK /\ SoundReads /\ CacheKeyed /\ FetchShape

LEMMA InitHolds == Init => PInv
<1> SUFFICES ASSUME Init PROVE PInv
  OBVIOUS
<1>1. TypeOK
  BY CollectorsTyped, ChangesBounded, FetchBounds
     DEF Init, ControlsInit, TypeOK, ControlsTypeOK, NoRead, Read, NoFetch, Fetch,
         NoCollection
<1>2. SoundReads
  BY DEF Init, ControlsInit, SoundReads, NoRead
<1>3. CacheKeyed
  BY DEF Init, CacheKeyed, Entries
<1>4. FetchShape
  BY DEF Init, FetchShape, NoFetch, NoCollection, Collecting, Sending
<1> QED
  BY <1>1, <1>2, <1>3, <1>4 DEF PInv

\* Steps that touch neither the cache nor a fetch, and no collection but c's
\* before it sends anything.
LEMMA FetchShapeKept ==
  ASSUME PInv, UNCHANGED <<collect, fetch>>,
         \A p \in Readers : read[p].phase = "done" => read'[p] = read[p]
  PROVE  FetchShape'
BY CollectorsTyped
   DEF PInv, FetchShape, Collecting, Sending, Resolved, TypeOK, ControlsTypeOK

\* The end of a fetch of c from a.
LEMMA FinishKeeps ==
  ASSUME PInv, NEW c \in Collectors, NEW a \in Adapters, Collecting(c),
         NEW result \in {"fresh", "cached", "unavailable", "error"}, NEW item,
         Finish(c, a, result, item), UNCHANGED <<read, collect>>,
         \/ result \in {"unavailable", "error"}
         \/ /\ item.tenant = collect[c].tenant /\ item.type = TypeOf[a]
            /\ item.key = collect[c].key /\ (item.left > 0 \/ result = "fresh")
  PROVE  /\ FetchShape' /\ fetch' \in [Collectors \X Adapters -> Fetch]
         /\ ~Sending(c, a)' /\ \A e \in Collectors : Sending(e, a)' => Sending(e, a)
         /\ \A e \in Collectors, b \in Adapters \ {a} : Sending(e, b)' = Sending(e, b)
<1>1. PICK e \in Fetch : /\ e.phase = "done" /\ e.current
                         /\ fetch' = [fetch EXCEPT ![<<c, a>>] = e]
  <2> DEFINE verdict == \/ result \in {"unavailable", "error"}
                        \/ /\ item.tenant = collect[c].tenant /\ item.type = TypeOf[a]
                           /\ item.key = collect[c].key /\ (item.left > 0 \/ result = "fresh")
             end(v) == [NoFetch EXCEPT !.phase = "done", !.result = result, !.current = v]
  <2>1. verdict = TRUE
    OBVIOUS
  <2>2. fetch' = [fetch EXCEPT ![<<c, a>>] = end(verdict)]
    BY DEF Finish
  <2>3. NoFetch \in Fetch
    BY FetchBounds DEF NoFetch, Fetch
  <2>4. end(TRUE) \in Fetch /\ end(TRUE).phase = "done" /\ end(TRUE).current
    BY <2>3 DEF Fetch
  <2> HIDE DEF verdict, end
  <2>5. fetch' = [fetch EXCEPT ![<<c, a>>] = end(TRUE)]
    BY <2>1, <2>2, Zenon
  <2> QED
    BY <2>4, <2>5
<1>2. fetch \in [Collectors \X Adapters -> Fetch]
  BY DEF PInv, TypeOK
<1>3. /\ fetch' \in [Collectors \X Adapters -> Fetch]
      /\ fetch'[<<c, a>>].phase = "done" /\ fetch'[<<c, a>>].current
      /\ \A d \in Collectors, b \in Adapters :
           <<d, b>> # <<c, a>> => fetch'[<<d, b>>] = fetch[<<d, b>>]
  BY <1>1, <1>2
<1>4. FetchShape'
  BY <1>3 DEF PInv, FetchShape, Collecting, Sending, Resolved
<1> QED
  BY <1>3, <1>4 DEF Sending

\* A collection begins; it has sent nothing before.
LEMMA CollectKeeps ==
  ASSUME PInv, NEW c \in Collectors, NEW t \in Tenants, NEW k \in TripKeys,
         Collect(c, t, k)
  PROVE  PInv'
<1> USE DEF PInv, TypeOK, ControlsTypeOK
<1>1. /\ override \in OverrideRows /\ \A p \in Readers : p[1] \in Collectors /\ p[2] \in Controls
      /\ Readers = Collectors \X Adapters
  BY CollectorsTyped, AdaptersTyped DEF OverrideRows
<1>2. ASSUME NEW p \in Readers
      PROVE  \/ read'[p] = read[p] /\ p[1] # c
             \/ /\ p[1] = c /\ read'[p] \in Read /\ read'[p].phase = "tenant"
                /\ UnderWay(read'[p], override)
  BY <1>1, BegunIsSound DEF Collect
<1>3. read' \in [Readers -> Read]
  <2>1. read' = [p \in Readers |-> read'[p]]
    BY DEF Collect
  <2> QED
    BY <1>2, <2>1
<1>4. TypeOK'
  BY <1>3 DEF Collect
<1>5. SoundReads'
  BY <1>2 DEF Collect, SoundReads
<1>6. FetchShape'
  <2>1. \A a \in Adapters : ~Sending(c, a)
    BY DEF Collect, FetchShape
  <2>2. \A e \in Collectors \ {c} : collect'[e] = collect[e]
    BY DEF Collect
  <2>3. \A e \in Collectors \ {c}, a \in Adapters : read'[<<e, a>>] = read[<<e, a>>]
    BY <1>1, <1>2
  <2>4. fetch' = fetch /\ collect'[c].tenant = t /\ collect'[c].key = k
    BY DEF Collect
  <2>5. \A e \in Collectors \ {c} : Collecting(e)' = Collecting(e)
                                    /\ Resolved(e)' = Resolved(e)
    BY <2>2, <2>3 DEF Collecting, Resolved
  <2>6. \A e \in Collectors, a \in Adapters : Sending(e, a)' = Sending(e, a)
    BY <2>4 DEF Sending
  <2> QED
    BY <2>1, <2>2, <2>3, <2>4, <2>5, <2>6 DEF FetchShape
<1> QED
  BY <1>4, <1>5, <1>6 DEF Collect, CacheKeyed

\* A collection ends, and with it its reads and fetches.
LEMMA EndedKeeps ==
  ASSUME PInv, NEW c \in Collectors, Ended(c),
         UNCHANGED <<override, changes, plan, cache, failures>>
  PROVE  /\ PInv'
         /\ \A e \in Collectors, a \in Adapters : Sending(e, a)' => Sending(e, a)
<1> USE DEF PInv, TypeOK, ControlsTypeOK
<1>1. NoRead \in Read /\ NoRead.phase = "idle"
  BY DEF NoRead, Read
<1>2. NoFetch \in Fetch /\ NoFetch.phase = "idle" /\ NoFetch.current
  BY FetchBounds DEF NoFetch, Fetch
<1>3. /\ \A e \in Collectors, a \in Adapters :
           IF e = c THEN read'[<<e, a>>] = NoRead /\ fetch'[<<e, a>>] = NoFetch
           ELSE read'[<<e, a>>] = read[<<e, a>>] /\ fetch'[<<e, a>>] = fetch[<<e, a>>]
      /\ \A e \in Collectors \ {c} : collect'[e] = collect[e]
      /\ collect'[c] = NoCollection
  BY CollectorsTyped DEF Ended
<1>4. TypeOK'
  BY <1>1, <1>2 DEF Ended, NoCollection
<1>5. SoundReads'
  BY <1>1 DEF Ended, SoundReads
<1>6. FetchShape'
  <2>1. \A e \in Collectors \ {c} : Collecting(e)' = Collecting(e)
                                    /\ Resolved(e)' = Resolved(e)
    BY <1>3 DEF Collecting, Resolved
  <2>2. /\ ~Collecting(c)' /\ \A a \in Adapters : ~Sending(c, a)'
        /\ \A e \in Collectors \ {c}, a \in Adapters : Sending(e, a)' = Sending(e, a)
    BY <1>2, <1>3 DEF Collecting, Sending, NoCollection
  <2> QED
    BY <1>2, <1>3, <2>1, <2>2 DEF FetchShape
<1>7. CacheKeyed'
  BY DEF CacheKeyed
<1> QED
  BY <1>2, <1>3, <1>4, <1>5, <1>6, <1>7 DEF Sending

\* The cache gives what was filed for this tenant, type and trip.
LEMMA CachedIsCurrent ==
  ASSUME PInv, NEW c \in Collectors, NEW a \in Adapters, Collecting(c),
         Cached(c, a) # None
  PROVE  /\ Cached(c, a).tenant = collect[c].tenant /\ Cached(c, a).type = TypeOf[a]
         /\ Cached(c, a).key = collect[c].key /\ Cached(c, a).left > 0
<1>1. Slot(c, a) \in Entries
  BY AdaptersTyped DEF PInv, FetchShape, Slot, Entries
<1>2. Cached(c, a) = cache[Slot(c, a)] /\ cache[Slot(c, a)] # None
      /\ cache[Slot(c, a)].left > 0
  BY DEF Cached
<1> QED
  BY <1>1, <1>2 DEF PInv, CacheKeyed, Slot

\* One step of a fetch.
LEMMA FetchKeeps ==
  ASSUME PInv, NEW c \in Collectors, NEW a \in Adapters,
         \/ ServeCached(c, a) \/ RefuseFetch(c, a) \/ Send(c, a)
         \/ Retry(c, a) \/ FailFetch(c, a) \/ RaiseFetch(c, a)
         \/ SucceedFetch(c, a)
  PROVE  PInv'
<1> USE DEF PInv
<1>1. SoundReads' /\ UNCHANGED <<override, read, changes, plan, collect>>
  BY DEF SoundReads, ServeCached, RefuseFetch, Send, Retry, FailFetch, RaiseFetch,
         SucceedFetch
<1>2. ASSUME fetch' \in [Collectors \X Adapters -> Fetch],
             failures' \in [Adapters -> Nat], UNCHANGED cache
      PROVE  TypeOK' /\ CacheKeyed'
  BY <1>1, <1>2 DEF TypeOK, ControlsTypeOK, CacheKeyed
<1>3. /\ failures \in [Adapters -> Nat] /\ fetch \in [Collectors \X Adapters -> Fetch]
      /\ <<c, a>> \in Collectors \X Adapters
  BY DEF TypeOK
<1>4. CASE ServeCached(c, a)
  BY <1>1, <1>2, <1>3, <1>4, FinishKeeps, CachedIsCurrent DEF ServeCached, Starting
<1>5. CASE RefuseFetch(c, a)
  BY <1>1, <1>2, <1>3, <1>5, FinishKeeps DEF RefuseFetch, Starting
<1>6. CASE Send(c, a)
  <2>1. PICK e \in Fetch : /\ e.phase = "sending" /\ e.current
                           /\ fetch' = [fetch EXCEPT ![<<c, a>>] = e]
    <3>1. NoFetch \in Fetch /\ NoFetch.current
      BY FetchBounds DEF NoFetch, Fetch
    <3>2. PICK e : e = [NoFetch EXCEPT !.phase = "sending", !.left = Freshness[a]]
      OBVIOUS
    <3>3. e \in Fetch /\ e.phase = "sending" /\ e.current = NoFetch.current
          /\ e.left = Freshness[a]
      BY <3>1, <3>2, AdaptersTyped DEF Fetch
    <3> QED
      BY <1>6, <3>1, <3>2, <3>3, AdaptersTyped DEF Send
  <2>2. fetch' \in [Collectors \X Adapters -> Fetch]
    BY <1>3, <2>1
  <2>3. /\ Collecting(c) /\ Resolved(c) /\ read[<<c, a>>].result /\ UNCHANGED cache
        /\ UNCHANGED failures
    BY <1>6 DEF Send, Starting, MaySend
  <2>4. FetchShape'
    BY <1>1, <1>3, <2>1, <2>3 DEF FetchShape, Collecting, Sending, Resolved
  <2> QED
    BY <1>1, <1>2, <1>3, <2>2, <2>3, <2>4
<1>7. CASE Retry(c, a)
  <2>1. /\ fetch' = [fetch EXCEPT ![<<c, a>>].attempt = fetch[<<c, a>>].attempt + 1]
        /\ fetch[<<c, a>>].attempt < Retries /\ UNCHANGED <<cache, failures>>
    BY <1>7 DEF Retry
  <2>2. fetch' \in [Collectors \X Adapters -> Fetch]
    BY <1>3, <2>1, FetchBounds DEF Fetch
  <2>3. \A x \in Collectors \X Adapters :
          /\ fetch'[x].phase = fetch[x].phase
          /\ fetch'[x].current = fetch[x].current
    BY <1>3, <2>1 DEF Fetch
  <2>4. FetchShape'
    BY <1>1, <1>3, <2>3 DEF FetchShape, Collecting, Sending, Resolved
  <2> QED
    BY <1>1, <1>2, <1>3, <2>1, <2>2, <2>4
<1>8. CASE FailFetch(c, a)
  <2>1. failures' \in [Adapters -> Nat]
    BY <1>3, <1>8 DEF FailFetch
  <2> QED
    BY <1>1, <1>2, <1>3, <1>8, <2>1, FinishKeeps DEF FailFetch, FetchShape
<1>9. CASE SucceedFetch(c, a)
  <2> DEFINE item == [tenant |-> collect[c].tenant, type |-> TypeOf[a],
                      key |-> collect[c].key, left |-> fetch[<<c, a>>].left]
  <2>1. /\ Collecting(c)
        /\ collect[c].tenant \in Tenants /\ collect[c].key \in TripKeys
    BY <1>9 DEF SucceedFetch, FetchShape
  <2>2. item \in Envelope /\ Slot(c, a) \in Entries
    BY <1>3, <2>1, AdaptersTyped DEF Envelope, Fetch, Slot, Entries
  <2>3. /\ cache' = [cache EXCEPT ![Slot(c, a)] = item]
        /\ Finish(c, a, "fresh", item) /\ failures' \in [Adapters -> Nat]
    BY <1>3, <1>9 DEF SucceedFetch
  <2>4. /\ item.tenant = collect[c].tenant /\ item.type = TypeOf[a]
        /\ item.key = collect[c].key
    BY <2>1
  <2>5. CacheKeyed' /\ cache' \in [Entries -> Envelope \cup {None}]
    BY <2>2, <2>3, <2>4 DEF TypeOK, CacheKeyed, Slot, Entries
  <2> HIDE DEF item
  <2>6. FetchShape' /\ fetch' \in [Collectors \X Adapters -> Fetch]
    BY <1>1, <2>1, <2>3, <2>4, FinishKeeps
  <2>7. TypeOK'
    BY <1>1, <2>3, <2>5, <2>6 DEF TypeOK, ControlsTypeOK, Entries
  <2> QED
    BY <1>1, <2>5, <2>6, <2>7
<1>10. CASE RaiseFetch(c, a)
  BY <1>1, <1>2, <1>3, <1>10, FinishKeeps DEF RaiseFetch, FetchShape
<1> QED
  BY <1>4, <1>5, <1>6, <1>7, <1>8, <1>9, <1>10

\* The process restarts.
LEMMA RestartKeeps ==
  ASSUME PInv, Restart
  PROVE  PInv' /\ \A e \in Collectors, a \in Adapters : ~Sending(e, a)'
<1> USE DEF PInv, TypeOK, ControlsTypeOK
<1>1. NoRead \in Read /\ NoRead.phase = "idle"
  BY DEF NoRead, Read
<1>2. NoFetch \in Fetch /\ NoFetch.phase = "idle" /\ NoFetch.current
  BY FetchBounds DEF NoFetch, Fetch
<1>3. \A e \in Collectors, a \in Adapters : fetch'[<<e, a>>] = NoFetch /\ ~Sending(e, a)'
  BY <1>2 DEF Restart, Sending
<1>4. \A e \in Collectors : ~Collecting(e)'
  BY DEF Restart, Collecting, NoCollection
<1>5. TypeOK'
  BY <1>1, <1>2 DEF Restart, NoCollection
<1>6. SoundReads'
  BY <1>1 DEF Restart, SoundReads
<1>7. CacheKeyed'
  BY DEF Restart, CacheKeyed, Entries
<1>8. FetchShape'
  BY <1>2, <1>3, <1>4 DEF FetchShape
<1> QED
  BY <1>3, <1>5, <1>6, <1>7, <1>8

\* Time passes.
LEMMA TickKeeps ==
  ASSUME PInv, Tick
  PROVE  PInv' /\ \A e \in Collectors, a \in Adapters : Sending(e, a)' = Sending(e, a)
<1>1. TypeOK /\ SoundReads /\ CacheKeyed /\ FetchShape
  BY DEF PInv
<1>2. /\ override' \in OverrideRows /\ changes' \in 0 .. MaxChanges
      /\ read' = Watched(override')
  BY <1>1, RowsStayTyped DEF Tick
<1>3. /\ read' \in [Readers -> Read] /\ SoundReads'
      /\ \A p \in Readers : /\ read'[p].phase = read[p].phase
                            /\ read[p].phase = "done" => read'[p] = read[p]
  BY <1>1, <1>2, RowsMove DEF TypeOK
<1>4. \A n \in Nat : Aged(n) \in Nat
  BY LifetimesTyped DEF Aged
<1>5. ASSUME NEW x \in Entries
      PROVE  /\ cache'[x] \in Envelope \cup {None}
             /\ cache'[x] # None => /\ cache[x] # None
                                    /\ cache'[x].tenant = cache[x].tenant
                                    /\ cache'[x].type = cache[x].type
                                    /\ cache'[x].key = cache[x].key
  <2>1. cache[x] \in Envelope \cup {None} /\ x \in DOMAIN cache
    BY <1>1 DEF TypeOK, Entries
  <2>2. CASE cache[x] = None
    BY <2>1, <2>2 DEF Tick
  <2>3. CASE cache[x] # None
    <3>1. cache'[x] = [cache[x] EXCEPT !.left = Aged(cache[x].left)]
      BY <2>1, <2>3 DEF Tick
    <3> QED
      BY <1>4, <2>1, <2>3, <3>1 DEF Envelope
  <2> QED
    BY <2>2, <2>3
<1>6. cache' \in [Entries -> Envelope \cup {None}]
  <2>1. cache' = [x \in Entries |-> cache'[x]]
    BY <1>1 DEF Tick, TypeOK, Entries
  <2> QED
    BY <1>5, <2>1
<1>7. ASSUME NEW x \in Collectors \X Adapters
      PROVE  /\ fetch'[x] \in Fetch /\ fetch'[x].phase = fetch[x].phase
             /\ fetch'[x].current = fetch[x].current
  <2>1. fetch[x] \in Fetch /\ fetch'[x] = [fetch[x] EXCEPT !.left = Aged(fetch[x].left)]
    BY <1>1 DEF TypeOK, Tick
  <2> QED
    BY <1>4, <2>1 DEF Fetch
<1>8. fetch' \in [Collectors \X Adapters -> Fetch]
  <2>1. fetch' = [x \in Collectors \X Adapters |-> fetch'[x]]
    BY <1>1 DEF Tick, TypeOK
  <2> QED
    BY <1>7, <2>1
<1>9. TypeOK'
  BY <1>1, <1>2, <1>3, <1>6, <1>8
     DEF TypeOK, ControlsTypeOK, OverrideRows, Entries, Tick
<1>10. CacheKeyed'
  BY <1>1, <1>5 DEF CacheKeyed
<1>11. /\ \A e \in Collectors : Collecting(e)' = Collecting(e) /\ collect'[e] = collect[e]
       /\ \A e \in Collectors : Resolved(e) => Resolved(e)'
       /\ \A e \in Collectors, a \in Adapters :
            /\ Sending(e, a)' = Sending(e, a)
            /\ Sending(e, a) /\ Resolved(e) => read'[<<e, a>>] = read[<<e, a>>]
  <2>1. \A e \in Collectors, a \in Adapters : Sending(e, a)' = Sending(e, a)
    BY <1>7 DEF Sending
  <2>2. \A e \in Collectors, a \in Adapters :
          <<e, a>> \in Readers /\ <<e, a>> \in DOMAIN fetch
    BY <1>1, CollectorsTyped DEF TypeOK
  <2>4. \A e \in Collectors : Collecting(e)' = Collecting(e) /\ collect'[e] = collect[e]
    BY DEF Tick, Collecting
  <2>5. \A e \in Collectors : Resolved(e) => Resolved(e)'
    BY <1>3, <2>2 DEF Resolved
  <2>6. \A e \in Collectors, a \in Adapters :
          Resolved(e) => read'[<<e, a>>] = read[<<e, a>>]
    BY <1>3, <2>2 DEF Resolved
  <2> QED
    BY <2>1, <2>4, <2>5, <2>6
<1>12. FetchShape'
  BY <1>1, <1>7, <1>11 DEF FetchShape
<1> QED
  BY <1>3, <1>9, <1>10, <1>11, <1>12 DEF PInv

LEMMA NextKeeps == PInv /\ [Next]_vars => PInv'
<1> SUFFICES ASSUME PInv, [Next]_vars PROVE PInv'
  OBVIOUS
<1>1. ASSUME ControlsNext(plan.targets), UNCHANGED providerVars PROVE PInv'
  <2>1. /\ override' \in OverrideRows /\ changes' \in 0 .. MaxChanges
        /\ read' = Watched(override')
    BY <1>1, RowsStayTyped DEF PInv
  <2>2. /\ read' \in [Readers -> Read] /\ SoundReads'
        /\ \A p \in Readers : read[p].phase = "done" => read'[p] = read[p]
    BY <2>1, RowsMove DEF PInv, TypeOK
  <2>3. FetchShape'
    BY <1>1, <2>2, FetchShapeKept DEF providerVars
  <2> QED
    BY <1>1, <2>1, <2>2, <2>3
       DEF PInv, TypeOK, ControlsTypeOK, CacheKeyed, OverrideRows, providerVars
<1>2. ASSUME NEW c \in Collectors, NEW x \in plan.trips[c], Collect(c, x[1], x[2])
      PROVE  PInv'
  <2>1. x[1] \in Tenants /\ x[2] \in TripKeys
    BY CollectorsTyped DEF PInv, TypeOK
  <2> QED
    BY <1>2, <2>1, CollectKeeps
<1>3. ASSUME NEW c \in Collectors, NEW a \in Adapters, Resolve(c, a) PROVE PInv'
  <2>1. <<c, a>> \in Readers
    BY CollectorsTyped
  <2>2. /\ ControlsTypeOK' /\ SoundReads'
        /\ \A p \in Readers : read[p].phase = "done" => read'[p] = read[p]
    BY <1>3, <2>1, ReadStep DEF PInv, TypeOK, Resolve
  <2>3. FetchShape'
    BY <1>3, <2>2, FetchShapeKept DEF Resolve, providerVars
  <2> QED
    BY <1>3, <2>2, <2>3 DEF PInv, TypeOK, CacheKeyed, Resolve, providerVars
<1>4. ASSUME NEW c \in Collectors, Deliver(c) \/ Abandon(c) PROVE PInv'
  BY <1>4, EndedKeeps DEF Deliver, Abandon
<1>5. CASE UNCHANGED vars
  BY <1>5
     DEF vars, PInv, TypeOK, ControlsTypeOK, SoundReads, CacheKeyed, FetchShape,
         Collecting, Sending, Resolved
<1> QED
  BY <1>1, <1>2, <1>3, <1>4, <1>5, FetchKeeps, RestartKeeps, TickKeeps DEF Next, Step

\* Entries are filed under what they are about, reads of switches are sound,
\* and who sends was allowed to, in every state.
THEOREM ProvidersInvariance == Spec => []PInv
BY InitHolds, NextKeeps, PTL DEF Spec

\* Evidence handed to an assessment as available is about its tenant and trip
\* key, of the adapter's type, whoever filled the cache; from the cache it is
\* fresh, however long the fetch that filled it took.
THEOREM EvidenceIsCurrent == Spec => []ServedIsCurrent
<1>1. PInv => ServedIsCurrent
  BY DEF PInv, FetchShape, ServedIsCurrent
<1> QED
  BY <1>1, ProvidersInvariance, PTL

\* A provider is called only when its switch was on during the read that
\* resolved it, or both of its override rows moved during that read.
THEOREM SwitchesAreObeyed == Spec => []KillSwitchHolds
<1>1. PInv => KillSwitchHolds
  BY CollectorsTyped
     DEF PInv, FetchShape, SoundReads, Resolved, KillSwitchHolds
<1> QED
  BY <1>1, ProvidersInvariance, PTL

-----------------------------------------------------------------------------
(***************************************************************************)
(* The circuit breaker.                                                    *)
(***************************************************************************)
Senders(a) == {c \in Collectors : Sending(c, a)}

LEMMA SendersCounted ==
  ASSUME NEW a
  PROVE  IsFiniteSet(Senders(a)) /\ Cardinality(Senders(a)) \in Nat
         /\ Cardinality(Collectors) \in Nat
         /\ Cardinality(Senders(a)) <= Cardinality(Collectors)
BY CollectorsTyped, FS_Subset, FS_CardinalityType DEF Senders

\* Fewer senders.
LEMMA FewerSenders ==
  ASSUME NEW a, NEW c, Senders(a)' \subseteq Senders(a)
  PROVE  /\ Cardinality(Senders(a)') \in Nat
         /\ Cardinality(Senders(a)') <= Cardinality(Senders(a))
         /\ c \in Senders(a) /\ c \notin Senders(a)'
              => Cardinality(Senders(a)') <= Cardinality(Senders(a)) - 1
<1>1. IsFiniteSet(Senders(a)) /\ Cardinality(Senders(a)) \in Nat
  BY SendersCounted
<1>2. /\ IsFiniteSet(Senders(a)') /\ Cardinality(Senders(a)') \in Nat
      /\ Cardinality(Senders(a)') <= Cardinality(Senders(a))
  BY <1>1, FS_Subset, FS_CardinalityType
<1>3. ASSUME c \in Senders(a), c \notin Senders(a)'
      PROVE  Cardinality(Senders(a)') <= Cardinality(Senders(a)) - 1
  <2>1. /\ IsFiniteSet(Senders(a) \ {c})
        /\ Cardinality(Senders(a) \ {c}) = Cardinality(Senders(a)) - 1
    BY <1>1, <1>3, FS_RemoveElement
  <2>2. Senders(a)' \subseteq Senders(a) \ {c}
    BY <1>3
  <2> QED
    BY <1>1, <2>1, <2>2, FS_Subset, FS_CardinalityType
<1> QED
  BY <1>2, <1>3

\* A failing provider is called a bounded number of times, however collections
\* overlap: what is in flight when the breaker opens is all that still fails.
THEOREM BreakersHold == Spec => []BreakerHolds
<1> DEFINE Bound == Threshold - 1 + Cardinality(Collectors)
           Held(a) == failures[a] + Cardinality(Senders(a)) <= Bound
<1>1. BreakerHolds <=> \A a \in Adapters : Held(a)
  BY DEF BreakerHolds, Senders
<1>2. Cardinality(Collectors) \in Nat /\ Threshold \in Nat \ {0}
  BY CollectorsTyped, FS_CardinalityType, FetchBounds
<1>3. Init => \A a \in Adapters : Held(a)
  <2> SUFFICES ASSUME Init, NEW a \in Adapters PROVE Held(a)
    OBVIOUS
  <2>1. Senders(a) = {} /\ failures[a] = 0
    BY DEF Init, NoFetch, Senders, Sending
  <2> QED
    BY <1>2, <2>1, FS_EmptySet
<1>4. PInv /\ (\A a \in Adapters : Held(a)) /\ [Next]_vars => (\A a \in Adapters : Held(a))'
  <2> SUFFICES ASSUME PInv, \A b \in Adapters : Held(b), [Next]_vars, NEW a \in Adapters
               PROVE  Held(a)'
    BY Zenon
  <2>1. /\ failures \in [Adapters -> Nat] /\ Cardinality(Senders(a)) \in Nat
        /\ fetch \in [Collectors \X Adapters -> Fetch]
    BY SendersCounted DEF PInv, TypeOK
  <2>2. ASSUME Senders(a)' \subseteq Senders(a), failures'[a] \in {failures[a], 0}
        PROVE  Held(a)'
    <3>1. /\ Cardinality(Senders(a)') \in Nat
          /\ Cardinality(Senders(a)') <= Cardinality(Senders(a))
      BY <2>2, FewerSenders
    <3>2. failures[a] \in Nat /\ failures[a] + Cardinality(Senders(a)) <= Bound
      BY <2>1
    <3> QED
      BY <1>2, <2>1, <2>2, <3>1, <3>2
  <2>3. ASSUME UNCHANGED <<fetch, failures>> PROVE Held(a)'
    BY <2>2, <2>3 DEF Senders, Sending
  <2>4. ASSUME NEW c \in Collectors, Deliver(c) \/ Abandon(c) PROVE Held(a)'
    BY <2>2, <2>4, EndedKeeps DEF Deliver, Abandon, Senders
  <2>5. CASE Restart \/ Tick
    <3>1. Senders(a)' \subseteq Senders(a)
      BY <2>5, RestartKeeps, TickKeeps DEF Senders
    <3> QED
      BY <2>2, <2>5, <3>1 DEF Restart, Tick
  <2>6. ASSUME NEW c \in Collectors, NEW b \in Adapters, Send(c, b) PROVE Held(a)'
    <3>1. CASE a = b
      <4>1. failures'[a] <= Threshold - 1
        BY <1>2, <2>1, <2>6, <3>1 DEF Send, MaySend, Open
      <4>2. /\ Cardinality(Senders(a)') \in Nat
            /\ Cardinality(Senders(a)') <= Cardinality(Collectors)
        BY CollectorsTyped, FS_Subset, FS_CardinalityType DEF Senders
      <4>3. failures'[a] \in Nat
        BY <2>1, <2>6 DEF Send
      <4> QED
        BY <1>2, <4>1, <4>2, <4>3
    <3>2. CASE a # b
      <4>1. Senders(a)' = Senders(a) /\ failures' = failures
        BY <2>1, <2>6, <3>2 DEF Send, Senders, Sending
      <4> QED
        BY <2>2, <4>1
    <3> QED
      BY <3>1, <3>2
  <2>7. ASSUME NEW c \in Collectors, NEW b \in Adapters, Retry(c, b) PROVE Held(a)'
    <3>1. \A x \in Collectors \X Adapters : fetch'[x].phase = fetch[x].phase
      BY <2>1, <2>7 DEF Retry, Fetch
    <3> QED
      BY <2>2, <2>7, <3>1 DEF Retry, Senders, Sending
  <2>8. ASSUME NEW c \in Collectors, NEW b \in Adapters, NEW result, NEW item,
               Finish(c, b, result, item)
        PROVE  /\ Senders(a)' \subseteq Senders(a)
               /\ a = b => c \notin Senders(a)'
    <3>1. /\ fetch'[<<c, b>>].phase = "done"
          /\ \A x \in Collectors \X Adapters : x # <<c, b>> => fetch'[x] = fetch[x]
      BY <2>1, <2>8 DEF Finish, NoFetch
    <3> QED
      BY <3>1 DEF Senders, Sending
  <2>9. ASSUME NEW c \in Collectors, NEW b \in Adapters,
               \/ ServeCached(c, b) \/ RefuseFetch(c, b)
               \/ RaiseFetch(c, b) \/ SucceedFetch(c, b)
        PROVE  Held(a)'
    <3>1. Senders(a)' \subseteq Senders(a)
      BY <2>8, <2>9 DEF ServeCached, RefuseFetch, RaiseFetch, SucceedFetch
    <3>2. failures'[a] \in {failures[a], 0}
      BY <2>1, <2>9 DEF ServeCached, RefuseFetch, RaiseFetch, SucceedFetch
    <3> QED
      BY <2>2, <3>1, <3>2
  <2>10. ASSUME NEW c \in Collectors, NEW b \in Adapters, FailFetch(c, b) PROVE Held(a)'
    <3>1. CASE a = b
      <4>1. /\ c \in Senders(a) /\ c \notin Senders(a)' /\ Senders(a)' \subseteq Senders(a)
            /\ failures'[a] = failures[a] + 1
        BY <2>1, <2>8, <2>10, <3>1 DEF FailFetch, Senders
      <4>2. /\ Cardinality(Senders(a)') \in Nat
            /\ Cardinality(Senders(a)') <= Cardinality(Senders(a)) - 1
        BY <4>1, FewerSenders
      <4> QED
        BY <1>2, <2>1, <4>1, <4>2
    <3>2. CASE a # b
      BY <2>1, <2>2, <2>8, <2>10, <3>2 DEF FailFetch
    <3> QED
      BY <3>1, <3>2
  <2>11. CASE UNCHANGED vars
    BY <2>3, <2>11 DEF vars
  <2> HIDE DEF Held
  <2> QED
    BY <2>3, <2>4, <2>5, <2>6, <2>7, <2>9, <2>10, <2>11
       DEF Next, Step, Collect, Resolve, providerVars
<1> HIDE DEF Held
<1> QED
  BY <1>1, <1>3, <1>4, ProvidersInvariance, PTL DEF Spec
=============================================================================
