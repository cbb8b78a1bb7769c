--------------------------- MODULE RecoveryProofs ---------------------------
(***************************************************************************)
(* Proofs about the recovery options of a manager: their policy and their  *)
(* ranking (RecoveryPolicy), the graph that attaches them to an incident   *)
(* (InvestigationGraph) and the outcomes recorded for them                 *)
(* (CandidateOutcomes), for any candidates, limits, tools and requests.    *)
(***************************************************************************)
EXTENDS InvestigationGraph, CandidateOutcomes, FiniteSetTheorems,
        SequenceTheorems, WellFoundedInduction, TLAPS

-----------------------------------------------------------------------------
(***************************************************************************)
(* Policy and ranking.                                                     *)
(***************************************************************************)
Candidates(cs) ==
  /\ IsFiniteSet(DOMAIN cs)
  /\ \A i \in DOMAIN cs : i \in Nat /\ cs[i] \in RecoveryCandidate

\* A candidate within every hard constraint of the company and the traveler.
WithinLimits(c, m) ==
  /\ c.available /\ c.feasible /\ c.policy_compliant /\ c.accessibility_compliant
  /\ c.incremental_cost <= MaximumCost
  /\ c.connection >= MinimumConnection /\ c.connection >= m

Lifecycles == {"unavailable", "policy_ineligible", "ineligible", "eligible"}

\* The lifecycle state says exactly whether the candidate is eligible, and an
\* eligible one is within the limits.
LEMMA EligibleWithinLimits ==
  ASSUME NEW c \in RecoveryCandidate, NEW m \in Nat
  PROVE  /\ Evaluated(c, m).eligible \in BOOLEAN
         /\ Evaluated(c, m).lifecycle \in Lifecycles
         /\ Evaluated(c, m).lifecycle = "eligible" <=> Evaluated(c, m).eligible
         /\ Evaluated(c, m).eligible => WithinLimits(c, m)
<1> DEFINE e == EvaluateByPolicy(c)
<1>1. /\ e.eligible = (Unexcluded(c) /\ PolicyEligible(c))
      /\ e.lifecycle \in Lifecycles
      /\ e.lifecycle = "eligible" <=> e.eligible
  <2>1. c.available \in BOOLEAN /\ c.feasible \in BOOLEAN
        /\ c.policy_compliant \in BOOLEAN /\ c.accessibility_compliant \in BOOLEAN
    BY DEF RecoveryCandidate
  <2>2. CASE ~PolicyEligible(c)
    BY <2>2 DEF EvaluateByPolicy, Lifecycles
  <2>3. CASE PolicyEligible(c) /\ ~c.available
    BY <2>3 DEF EvaluateByPolicy, Lifecycles, Unexcluded
  <2>4. CASE PolicyEligible(c) /\ c.available /\ ~c.policy_compliant
    BY <2>4 DEF EvaluateByPolicy, Lifecycles, Unexcluded
  <2>5. CASE PolicyEligible(c) /\ c.available /\ c.policy_compliant
    BY <2>5 DEF EvaluateByPolicy, Lifecycles, Unexcluded
  <2> QED
    BY <2>2, <2>3, <2>4, <2>5
<1>2. c.connection \in Nat
  BY DEF RecoveryCandidate
<1>3. CASE m = 0 \/ c.connection >= m \/ ~e.eligible
  <2>1. Evaluated(c, m) = e
    BY <1>3 DEF Evaluated, ApplyTravelerMinimum
  <2>2. e.eligible => WithinLimits(c, m)
    <3> SUFFICES ASSUME Unexcluded(c), PolicyEligible(c), e.eligible
                 PROVE  WithinLimits(c, m)
      BY <1>1
    <3>1. c.connection >= m
      BY <1>2, <1>3
    <3> QED
      BY <3>1 DEF WithinLimits, Unexcluded, PolicyEligible
  <2>3. e.eligible \in BOOLEAN
    BY <1>1
  <2> HIDE DEF e
  <2> QED
    BY <1>1, <2>1, <2>2, <2>3
<1>4. CASE ~(m = 0 \/ c.connection >= m \/ ~e.eligible)
  <2>1. Evaluated(c, m) = [eligible |-> FALSE, score |-> -1, lifecycle |-> "ineligible"]
    BY <1>4 DEF Evaluated, ApplyTravelerMinimum
  <2> QED
    BY <2>1 DEF Lifecycles
<1> QED
  BY <1>3, <1>4

\* The sort key orders candidates strictly and totally.
LEMMA BetterIsOrder ==
  ASSUME NEW cs, Candidates(cs)
  PROVE  \A i, j, k \in DOMAIN cs :
           /\ ~Better(cs, i, i)
           /\ Better(cs, i, j) /\ Better(cs, j, k) => Better(cs, i, k)
           /\ i # j => Better(cs, i, j) \/ Better(cs, j, i)
           /\ RecoveryScore(cs[i]) > RecoveryScore(cs[j]) => Better(cs, i, j)
<1> TAKE i, j, k \in DOMAIN cs
<1>1. i \in Nat /\ j \in Nat /\ k \in Nat
  BY DEF Candidates
<1>2. ASSUME NEW h \in DOMAIN cs PROVE RecoveryScore(cs[h]) \in Nat
  BY DEF Candidates, RecoveryCandidate, RecoveryScore
<1>3. /\ RecoveryScore(cs[i]) \in Nat /\ RecoveryScore(cs[j]) \in Nat
      /\ RecoveryScore(cs[k]) \in Nat
  BY <1>2
<1> QED
  BY <1>1, <1>3 DEF Better

\* rank_eligible numbers the eligible candidates 1, 2, ..., without gap or
\* repetition, the better candidate first.
LEMMA PositionsRank ==
  ASSUME NEW cs, NEW m, Candidates(cs)
  PROVE  LET E == EligibleIn(cs, m)
             n == Cardinality(E)
         IN /\ IsFiniteSet(E) /\ n \in Nat /\ n <= Cardinality(DOMAIN cs)
            /\ \A i \in E : Position(cs, m, i) \in 1 .. n
            /\ \A i, j \in E : Better(cs, i, j) => Position(cs, m, i) < Position(cs, m, j)
            /\ \A i, j \in E : Position(cs, m, i) = Position(cs, m, j) => i = j
            /\ \A p \in 1 .. n : \E i \in E : Position(cs, m, i) = p
<1> DEFINE E == EligibleIn(cs, m)
           n == Cardinality(E)
           Ahead(i) == {j \in E : Better(cs, j, i)}
           pos == [i \in E |-> Position(cs, m, i)]
<1>1. E \in SUBSET DOMAIN cs
  BY DEF EligibleIn
<1>2. IsFiniteSet(E) /\ n \in Nat /\ n <= Cardinality(DOMAIN cs)
  BY <1>1, FS_Subset, FS_CardinalityType DEF Candidates
<1>3. ASSUME NEW i \in E
      PROVE  /\ IsFiniteSet(Ahead(i)) /\ Cardinality(Ahead(i)) \in Nat
             /\ Cardinality(Ahead(i)) < n
             /\ Position(cs, m, i) = 1 + Cardinality(Ahead(i))
  <2>1. Ahead(i) \in SUBSET E /\ i \notin Ahead(i)
    BY <1>1, BetterIsOrder
  <2>2. IsFiniteSet(Ahead(i)) /\ Cardinality(Ahead(i)) \in Nat
        /\ Cardinality(Ahead(i)) <= n /\ (n = Cardinality(Ahead(i)) => E = Ahead(i))
    <3> HIDE DEF E, Ahead
    <3> QED
      BY <1>2, <2>1, FS_Subset, FS_CardinalityType
  <2>3. Cardinality(Ahead(i)) < n
    BY <1>2, <2>1, <2>2
  <2> QED
    BY <2>2, <2>3 DEF Position
<1> HIDE DEF E, n, Ahead
<1>4. \A i \in E : Position(cs, m, i) \in 1 .. n
  BY <1>2, <1>3
<1>5. ASSUME NEW i \in E, NEW j \in E, Better(cs, i, j)
      PROVE  Position(cs, m, i) < Position(cs, m, j)
  <2>1. Ahead(i) \cup {i} \in SUBSET Ahead(j) /\ i \notin Ahead(i)
    BY <1>1, <1>5, BetterIsOrder DEF Ahead
  <2>2. Cardinality(Ahead(i) \cup {i}) = Cardinality(Ahead(i)) + 1
    BY <1>3, <2>1, FS_AddElement
  <2>3. Cardinality(Ahead(i) \cup {i}) <= Cardinality(Ahead(j))
    BY <1>3, <2>1, FS_Subset
  <2> QED
    BY <1>3, <2>2, <2>3
<1>6. \A i, j \in E : Position(cs, m, i) = Position(cs, m, j) => i = j
  <2> SUFFICES ASSUME NEW i \in E, NEW j \in E, i # j
               PROVE  Position(cs, m, i) # Position(cs, m, j)
    OBVIOUS
  <2>1. Better(cs, i, j) \/ Better(cs, j, i)
    BY <1>1, BetterIsOrder
  <2>2. Position(cs, m, i) \in Nat /\ Position(cs, m, j) \in Nat
    BY <1>3
  <2> QED
    BY <1>5, <2>1, <2>2
<1>7. pos \in Surjection(E, 1 .. n)
  <2>1. pos \in Injection(E, 1 .. n)
    BY <1>4, <1>6 DEF Injection, IsInjective
  <2>2. IsFiniteSet(1 .. n) /\ Cardinality(1 .. n) = n
    BY <1>2, FS_Interval
  <2>3. n = Cardinality(E)
    BY DEF n
  <2> QED
    BY <2>1, <2>2, <2>3, FS_Injection
<1>8. \A p \in 1 .. n : \E i \in E : Position(cs, m, i) = p
  BY <1>7 DEF Surjection
<1> QED
  BY <1>2, <1>4, <1>5, <1>6, <1>8 DEF E, n

-----------------------------------------------------------------------------
(***************************************************************************)
(* The investigation graph.  What the properties say at the end is what    *)
(* the nodes pass on to each other.                                        *)
(***************************************************************************)

\* The nodes of an investigation, between start and the approval gate.
LongPath == {"load_memory_context", "react_assistant", "tools", "recommendation",
             "verify", "rank", "attach", "policy_gate"}

\* Every iteration is one lookup of another tool; a call is pending only if it
\* may still be counted; the model plans the first lookup or none.
LoopShape ==
  /\ iterations = Len(lookups)
  /\ IsFiniteSet(Called) /\ Cardinality(Called) = Len(lookups)
  /\ node = "tools" => pending \in ReadOnlyTools \ Called /\ iterations < MaxIterations
  /\ ModelPlans => lookups = <<>> /\ node \notin {"tools", "recommendation"}

\* The completions requested so far, by the two nodes that request one.
CallShape ==
  /\ calls \in {<<>>, <<"tool_selection">>, <<"tool_selection", "recommendation">>}
  /\ node \in {"start", "load_memory_context", "react_assistant", "tools", "recommendation"}
       => calls = IF attempted THEN <<"tool_selection">> ELSE <<>>
  /\ attempted \/ calls # <<>> => input.llm
  /\ node \in LongPath \/ calls # <<>> => Investigated

\* A recommendation, once there, is checked.
AdviceShape ==
  /\ advice # None => advice.known
  /\ node \in {"verify", "rank", "attach", "policy_gate"} => advice # None

Ready == node \in {"approval_gate", "paused"} /\ Investigated

\* What verify, rank, attach and policy_gate leave behind is there at the gate.
CaseShape ==
  /\ node \in {"rank", "attach", "policy_gate"} \/ Ready
       => eligible = EligibleIn(Alternatives, input.minimum)
  /\ node \in {"attach", "policy_gate"} \/ Ready => ranking = Ranked(input.minimum)
  /\ node = "policy_gate" \/ Ready => advice # None /\ advice.ranked
  /\ Ready => gate

GraphInv == TypeOK /\ LoopShape /\ CallShape /\ AdviceShape /\ CaseShape

\* _next_tool returns nothing, or a tool that was not looked up and may be.
LEMMA NextToolIsNew ==
  ASSUME iterations \in Nat
  PROVE  NextTool # None => NextTool \in ReadOnlyTools \ Called /\ iterations < MaxIterations
<1> DEFINE todo == {n \in DOMAIN Preferred : /\ Preferred[n] \in input.sources
                                             /\ ToolFor(Preferred[n]) \notin Called}
           first == CHOOSE n \in todo : \A m \in todo : n <= m
<1> SUFFICES ASSUME NextTool # None
             PROVE  NextTool \in ReadOnlyTools \ Called /\ iterations < MaxIterations
  OBVIOUS
<1>1. todo # {} /\ iterations < MaxIterations /\ NextTool = ToolFor(Preferred[first])
  BY GraphTyped DEF NextTool
<1>2. DOMAIN Preferred = {1, 2, 3}
  BY DEF Preferred
<1>3. \E n \in todo : \A m \in todo : n <= m
  <2>1. todo \subseteq {1, 2, 3}
    BY <1>2
  <2> HIDE DEF todo
  <2>2. CASE 1 \in todo
    BY <2>1, <2>2
  <2>3. CASE 1 \notin todo /\ 2 \in todo
    BY <2>1, <2>3
  <2>4. CASE 1 \notin todo /\ 2 \notin todo
    <3>1. todo = {3}
      BY <1>1, <2>1, <2>4
    <3> QED
      BY <3>1
  <2> QED
    BY <2>2, <2>3, <2>4
<1>4. first \in todo
  <2> HIDE DEF todo
  <2> QED
    BY <1>3
<1>5. ToolFor(Preferred[first]) \notin Called /\ first \in DOMAIN Preferred
  <2> HIDE DEF first
  <2> QED
    BY <1>4
<1>6. ToolFor(Preferred[first]) \in ReadOnlyTools
  <2> HIDE DEF first
  <2> QED
    BY <1>5, GraphTyped
<1> QED
  BY <1>1, <1>5, <1>6

\* rank_eligible's order as the graph keeps it: every eligible id once.
LEMMA RankedIsRanking ==
  ASSUME NEW m
  PROVE  LET E == EligibleIn(Alternatives, m)
         IN /\ E \in SUBSET DOMAIN Alternatives
            /\ Ranked(m) \in Seq(DOMAIN Alternatives)
            /\ {Ranked(m)[n] : n \in DOMAIN Ranked(m)} = E
            /\ Len(Ranked(m)) = Cardinality(E)
<1> DEFINE E == EligibleIn(Alternatives, m)
           c == Cardinality(E)
           at(p) == CHOOSE i \in DOMAIN Alternatives : Position(Alternatives, m, i) = p
<1>1. Candidates(Alternatives)
  BY GraphTyped DEF Candidates
<1>2. E \in SUBSET DOMAIN Alternatives
  BY DEF EligibleIn
<1>3. /\ c \in Nat
      /\ \A i \in E : Position(Alternatives, m, i) \in 1 .. c
      /\ \A i, j \in E : Position(Alternatives, m, i) = Position(Alternatives, m, j) => i = j
      /\ \A p \in 1 .. c : \E i \in E : Position(Alternatives, m, i) = p
  BY <1>1, PositionsRank
<1>4. ASSUME NEW p \in 1 .. c
      PROVE  at(p) \in E /\ Position(Alternatives, m, at(p)) = p
  <2>1. at(p) \in DOMAIN Alternatives /\ Position(Alternatives, m, at(p)) = p
    BY <1>2, <1>3
  <2>2. at(p) \in E
    BY <2>1, <1>3 DEF Position
  <2> QED
    BY <2>1, <2>2
<1>5. Ranked(m) = [p \in 1 .. c |-> at(p)]
  BY DEF Ranked
<1> HIDE DEF E, c, at
<1>6. Ranked(m) \in Seq(DOMAIN Alternatives) /\ Len(Ranked(m)) = c
      /\ DOMAIN Ranked(m) = 1 .. c
  BY <1>2, <1>3, <1>4, <1>5
<1>7. ASSUME NEW i \in E
      PROVE  \E p \in 1 .. c : at(p) = i
  BY <1>3, <1>4, <1>7
<1>8. {Ranked(m)[n] : n \in DOMAIN Ranked(m)} = E
  BY <1>4, <1>5, <1>6, <1>7
<1> QED
  BY <1>2, <1>6, <1>8 DEF E, c

-----------------------------------------------------------------------------
(***************************************************************************)
(* Every step keeps the invariant.                                         *)
(***************************************************************************)
PlainSteps == Start \/ LoadMemoryContext \/ PolicyGate \/ Finalize

\* The facts about the input that the arithmetic of Route needs.
LEMMA InputFacts ==
  ASSUME TypeOK
  PROVE  /\ Cardinality(input.unavailable) \in Nat
         /\ input.minimum \in Nat /\ input.llm \in BOOLEAN
<1>1. input.unavailable \in SUBSET WatchedSources /\ input.minimum \in Minimums
      /\ input.llm \in BOOLEAN
  BY DEF TypeOK, Inputs
<1>2. IsFiniteSet(WatchedSources)
  <2>1. WatchedSources = ({"flight_status"} \cup {"airport_weather"}) \cup {"ground_route"}
    BY DEF WatchedSources
  <2>2. IsFiniteSet({"flight_status"})
    BY FS_Singleton
  <2>3. IsFiniteSet({"flight_status"} \cup {"airport_weather"})
    BY <2>2, FS_AddElement
  <2> QED
    BY <2>1, <2>3, FS_AddElement
<1> QED
  BY <1>1, <1>2, FS_Subset, FS_CardinalityType, PolicyNatural

LEMMA InputKept ==
  ASSUME [Next]_vars
  PROVE  /\ input' = input
         /\ Elevated' = Elevated /\ Investigated' = Investigated
<1>1. input' = input
  BY DEF Next, Step, vars, Start, LoadMemoryContext, FollowUp, RunTool, Recommend,
     SelectTool, VerifyAlternatives, RankAlternatives, AttachRanking, PolicyGate, Pause,
     QueueApprovedAction, Finalize, Resume
<1> QED
  BY <1>1 DEF Elevated, Investigated

\* route_by_severity agrees with the disposition that starts an investigation.
LEMMA RouteTakesInvestigated ==
  ASSUME TypeOK
  PROVE  /\ Route \in {"approval_gate", "load_memory_context", "finalize"}
         /\ Route = "load_memory_context" => Investigated
         /\ Route = "approval_gate" => ~Investigated
BY InputFacts DEF Route, Investigated

LEMMA GraphTypeKept ==
  ASSUME GraphInv, [Next]_vars
  PROVE  TypeOK'
<1> USE DEF GraphInv, TypeOK, Nodes
<1>1. CASE PlainSteps \/ UNCHANGED vars
  <2>1. CASE Start
    BY <2>1, RouteTakesInvestigated DEF Start
  <2>2. CASE LoadMemoryContext \/ Finalize
    BY <2>2 DEF LoadMemoryContext, Finalize
  <2>3. CASE PolicyGate
    BY <2>3 DEF PolicyGate
  <2>4. CASE UNCHANGED vars
    BY <2>4 DEF vars
  <2> QED
    BY <1>1, <2>1, <2>2, <2>3, <2>4 DEF PlainSteps
<1>2. CASE FollowUp
  <2>1. NextTool \in ReadOnlyTools \cup {None}
    BY NextToolIsNew
  <2> QED
    BY <1>2, <2>1 DEF FollowUp, AfterAssistant
<1>3. CASE RunTool
  BY <1>3, GraphTyped DEF RunTool, LoopShape
<1>4. CASE Recommend
  <2>1. ASSUME NEW a \in ModelAdvice \cup {ByServer} PROVE Checked(a) \in Advice
    <3>1. CASE a \in ModelAdvice
      <4>1. PICK k \in BOOLEAN, l \in BOOLEAN :
              a = [by |-> "model", known |-> k, long |-> l, ranked |-> FALSE]
        BY <3>1 DEF ModelAdvice
      <4> QED
        BY <4>1 DEF Checked, ByServer, Advice
    <3>2. CASE a = ByServer
      BY <3>2 DEF ByServer, Checked, Advice
    <3> QED
      BY <2>1, <3>1, <3>2
  <2>2. ByServer \in Advice
    BY DEF ByServer, Advice
  <2>3. advice' \in Advice
    BY <1>4, <2>1, <2>2 DEF Recommend
  <2>4. calls' \in Seq({"tool_selection", "recommendation"})
    <3>1. calls \in Seq({"tool_selection", "recommendation"})
      OBVIOUS
    <3>2. calls' = calls \/ calls' = Append(calls, "recommendation")
      BY <1>4 DEF Recommend
    <3> QED
      BY <3>1, <3>2
  <2> QED
    BY <1>4, <2>3, <2>4 DEF Recommend
<1>5. ASSUME NEW call \in ReadOnlyTools \cup {None}, SelectTool(call) PROVE TypeOK'
  BY <1>5 DEF SelectTool, AfterAssistant
<1>6. CASE VerifyAlternatives
  BY <1>6, RankedIsRanking DEF VerifyAlternatives
<1>7. CASE RankAlternatives
  BY <1>7, RankedIsRanking DEF RankAlternatives
<1>8. CASE AttachRanking
  <2>1. advice' \in Advice
    BY <1>8 DEF AttachRanking, AdviceShape, Advice
  <2> QED
    BY <1>8, <2>1 DEF AttachRanking
<1>9. CASE Pause
  <2>1. advice # None => advice.by \in {"server", "model"}
    BY DEF Advice
  <2> QED
    BY <1>9, <2>1 DEF Pause
<1>10. CASE QueueApprovedAction
  BY <1>10 DEF QueueApprovedAction
<1>11. ASSUME NEW decision \in {"approve", "reject"}, NEW action \in BOOLEAN,
              Resume(decision, action)
       PROVE  TypeOK'
  BY <1>11 DEF Resume
<1> QED
  BY <1>1, <1>2, <1>3, <1>4, <1>5, <1>6, <1>7, <1>8, <1>9, <1>10, <1>11
     DEF Next, Step, PlainSteps

\* The loop: a lookup is counted, and never of a tool that was looked up.
LEMMA LoopKept ==
  ASSUME GraphInv, [Next]_vars
  PROVE  LoopShape'
<1> USE DEF GraphInv, LoopShape
<1>0. input' = input
  BY InputKept
<1>1. CASE PlainSteps \/ Recommend \/ VerifyAlternatives \/ RankAlternatives
           \/ AttachRanking \/ Pause \/ QueueApprovedAction \/ UNCHANGED vars
           \/ \E d \in {"approve", "reject"}, a \in BOOLEAN : Resume(d, a)
  <2>1. UNCHANGED <<iterations, lookups, attempted>>
        /\ (node' \in {"tools", "recommendation"} => UNCHANGED <<node, pending>>)
    BY <1>1, RouteTakesInvestigated
       DEF PlainSteps, Recommend, VerifyAlternatives, RankAlternatives, AttachRanking,
       Pause, QueueApprovedAction, Resume, Start, LoadMemoryContext, PolicyGate, Finalize,
       vars
  <2> QED
    BY <1>0, <2>1 DEF Called, ModelPlans
<1>2. CASE FollowUp
  BY <1>0, <1>2, NextToolIsNew DEF FollowUp, AfterAssistant, ModelPlans, Called, TypeOK
<1>3. CASE RunTool
  <2>1. lookups' = Append(lookups, pending) /\ iterations' = iterations + 1
        /\ node' = "react_assistant" /\ attempted' = attempted
        /\ pending \notin Called /\ lookups \in Seq(ReadOnlyTools)
        /\ pending \in ReadOnlyTools
    BY <1>3 DEF RunTool, TypeOK
  <2>2. Called' = Called \cup {pending}
    <3>1. /\ DOMAIN lookups' = DOMAIN lookups \cup {Len(lookups) + 1}
          /\ \A n \in DOMAIN lookups : lookups'[n] = lookups[n]
          /\ lookups'[Len(lookups) + 1] = pending
      BY <2>1
    <3> QED
      BY <3>1 DEF Called
  <2>3. IsFiniteSet(Called') /\ Cardinality(Called') = Cardinality(Called) + 1
    BY <2>1, <2>2, FS_AddElement
  <2>4. Len(lookups') = Len(lookups) + 1
    BY <2>1
  <2>5. ~ModelPlans'
    BY <1>0, <1>3, <2>1 DEF RunTool, ModelPlans
  <2> QED
    BY <2>1, <2>3, <2>4, <2>5
<1>4. ASSUME NEW call \in ReadOnlyTools \cup {None}, SelectTool(call) PROVE LoopShape'
  <2>1. lookups = <<>> /\ iterations = 0 /\ Called = {}
    BY <1>4 DEF SelectTool, Called
  <2>2. attempted' /\ UNCHANGED <<lookups, iterations>> /\ pending' = call
        /\ (node' = "tools" => call # None)
    BY <1>4 DEF SelectTool, AfterAssistant
  <2> QED
    BY <2>1, <2>2, GraphTyped DEF Called, ModelPlans
<1> QED
  BY <1>1, <1>2, <1>3, <1>4 DEF Next, Step, PlainSteps

\* The completions: the selection once, then the recommendation.
LEMMA CallsKept ==
  ASSUME GraphInv, [Next]_vars
  PROVE  CallShape'
<1> USE DEF GraphInv, CallShape, LongPath
<1>0. input' = input /\ Investigated' = Investigated
  BY InputKept
<1>1. CASE PlainSteps \/ VerifyAlternatives \/ RankAlternatives \/ RunTool \/ FollowUp
           \/ AttachRanking \/ Pause \/ QueueApprovedAction \/ UNCHANGED vars
           \/ \E d \in {"approve", "reject"}, a \in BOOLEAN : Resume(d, a)
  <2>1. UNCHANGED <<calls, attempted>>
    BY <1>1 DEF PlainSteps, VerifyAlternatives, RankAlternatives, AttachRanking, RunTool,
       FollowUp, Pause, QueueApprovedAction, Resume, Start, LoadMemoryContext, PolicyGate,
       Finalize, vars
  <2>2. /\ node' \in LongPath => node \in LongPath \/ Investigated
        /\ node' \in {"start", "load_memory_context", "react_assistant", "tools",
                      "recommendation"}
             => node \in {"start", "load_memory_context", "react_assistant", "tools",
                          "recommendation"}
    BY <1>1, RouteTakesInvestigated
       DEF PlainSteps, VerifyAlternatives, RankAlternatives, AttachRanking, RunTool,
       FollowUp, Pause, QueueApprovedAction, Resume, Start, LoadMemoryContext, PolicyGate,
       Finalize, vars, AfterAssistant
  <2> QED
    BY <1>0, <2>1, <2>2
<1>2. CASE Recommend
  <2>1. node = "recommendation" /\ node' = "verify" /\ attempted' = attempted
        /\ calls' \in {calls, Append(calls, "recommendation")}
        /\ (calls' # calls => input.llm)
    BY <1>2 DEF Recommend
  <2>2. input.llm => calls = <<"tool_selection">>
    BY <2>1 DEF LoopShape, ModelPlans
  <2>3. Append(<<"tool_selection">>, "recommendation")
          = <<"tool_selection", "recommendation">>
    <3> DEFINE C == {"tool_selection", "recommendation"}
               s == Append(<<"tool_selection">>, "recommendation")
               t == <<"tool_selection", "recommendation">>
    <3>1. s \in Seq(C) /\ t \in Seq(C) /\ Len(s) = 2 /\ Len(t) = 2
      OBVIOUS
    <3>2. \A i \in 1 .. 2 : s[i] = t[i]
      OBVIOUS
    <3> HIDE DEF s, t, C
    <3>3. s = t
      BY <3>1, <3>2, SeqEqual
    <3> QED
      BY <3>3 DEF s, t
  <2>4. calls' \in {<<>>, <<"tool_selection">>, <<"tool_selection", "recommendation">>}
    BY <2>1, <2>2, <2>3
  <2> QED
    BY <1>0, <2>1, <2>4
<1>3. ASSUME NEW call \in ReadOnlyTools \cup {None}, SelectTool(call) PROVE CallShape'
  <2>1. /\ calls = <<>> /\ calls' = <<"tool_selection">> /\ attempted'
        /\ node = "react_assistant" /\ node' \in {"tools", "recommendation"} /\ input.llm
    BY <1>3 DEF SelectTool, ModelPlans, AfterAssistant
  <2> QED
    BY <1>0, <2>1
<1> QED
  BY <1>1, <1>2, <1>3 DEF Next, Step, PlainSteps

\* The recommendation: what the model returned was checked when it came in.
LEMMA AdviceKept ==
  ASSUME GraphInv, [Next]_vars
  PROVE  AdviceShape'
<1> USE DEF GraphInv, AdviceShape
<1>0. input' = input /\ input.llm \in BOOLEAN /\ advice \in Advice \cup {None}
  BY InputKept, InputFacts DEF TypeOK
<1>1. CASE PlainSteps \/ VerifyAlternatives \/ RankAlternatives \/ RunTool \/ FollowUp
           \/ QueueApprovedAction \/ UNCHANGED vars
           \/ (\E call \in ReadOnlyTools \cup {None} : SelectTool(call))
           \/ \E d \in {"approve", "reject"}, a \in BOOLEAN : Resume(d, a)
  <2>1. UNCHANGED <<advice, incident>>
    BY <1>1 DEF PlainSteps, VerifyAlternatives, RankAlternatives, RunTool, FollowUp,
       SelectTool, QueueApprovedAction, Resume, Start, LoadMemoryContext, PolicyGate,
       Finalize, vars
  <2>2. /\ node' \in {"verify", "rank", "attach", "policy_gate"}
             => node \in {"verify", "rank", "attach", "policy_gate"}
        /\ node \in {"paused", "queue_approved_action", "finalize", "end"}
             => node' \in {"paused", "queue_approved_action", "finalize", "end"}
    BY <1>1, RouteTakesInvestigated
       DEF PlainSteps, VerifyAlternatives, RankAlternatives, RunTool, FollowUp,
       SelectTool, QueueApprovedAction, Resume, Start, LoadMemoryContext, PolicyGate,
       Finalize, vars, AfterAssistant
  <2> QED
    BY <1>0, <2>1, <2>2
<1>2. CASE Recommend
  <2>1. ByServer \in Advice /\ ByServer.known /\ ByServer.by = "server" /\ ~ByServer.long
    BY DEF ByServer, Advice
  <2>2. ASSUME NEW a \in ModelAdvice \cup {ByServer}, input.llm
        PROVE  LET b == Checked(a)
               IN /\ b \in Advice /\ b.known
                  /\ b.by = "server" => ~b.long
    <3>1. CASE a \in ModelAdvice
      <4>1. PICK k \in BOOLEAN, l \in BOOLEAN :
              a = [by |-> "model", known |-> k, long |-> l, ranked |-> FALSE]
        BY <3>1 DEF ModelAdvice
      <4> QED
        BY <2>1, <4>1 DEF Checked, Advice
    <3>2. CASE a = ByServer
      BY <2>1, <3>2 DEF Checked
    <3> QED
      BY <2>2, <3>1, <3>2
  <2>3. /\ advice' \in Advice /\ advice'.known
        /\ advice'.by = "server" => ~advice'.long
        /\ advice'.by = "model" => input.llm
    <3>1. CASE input.llm
      BY <1>2, <2>1, <2>2, <3>1 DEF Recommend
    <3>2. CASE ~input.llm
      BY <1>2, <2>1, <3>2 DEF Recommend
    <3> QED
      BY <3>1, <3>2
  <2>4. advice' # None
    BY <2>3, NoneIsFresh
  <2>5. node = "recommendation" /\ node' = "verify" /\ incident' = incident
    BY <1>2 DEF Recommend
  <2> QED
    BY <1>0, <2>3, <2>4, <2>5
<1>3. CASE AttachRanking
  <2>1. /\ node = "attach" /\ node' = "policy_gate" /\ incident' = incident
        /\ advice \in Advice /\ advice' = [advice EXCEPT !.ranked = TRUE]
    BY <1>0, <1>3 DEF AttachRanking
  <2>2. /\ advice' \in Advice /\ advice'.known = advice.known
        /\ advice'.long = advice.long /\ advice'.by = advice.by
    BY <2>1 DEF Advice
  <2>3. advice' # None
    BY <2>2, NoneIsFresh
  <2> QED
    BY <1>0, <2>1, <2>2, <2>3
<1>4. CASE Pause
  <2>1. /\ node' = "paused" /\ advice' = advice
        /\ incident' = "without_recommendation" => advice # None /\ advice.long
    <3>1. advice # None => advice.by \in {"server", "model"}
      BY <1>0 DEF Advice
    <3> QED
      BY <1>4, <3>1 DEF Pause
  <2> QED
    BY <1>0, <2>1
<1> QED
  BY <1>1, <1>2, <1>3, <1>4 DEF Next, Step, PlainSteps

\* The case for the manager: nothing is lost between the nodes that build it.
LEMMA CaseKept ==
  ASSUME GraphInv, [Next]_vars
  PROVE  CaseShape'
<1> USE DEF GraphInv, CaseShape, Ready
<1>0. input' = input /\ Investigated' = Investigated /\ Ranked(input.minimum)' = Ranked(input.minimum)
      /\ EligibleIn(Alternatives, input.minimum)' = EligibleIn(Alternatives, input.minimum)
  BY InputKept
<1>1. CASE LoadMemoryContext \/ Finalize \/ RunTool \/ FollowUp \/ Recommend
           \/ QueueApprovedAction
           \/ (\E call \in ReadOnlyTools \cup {None} : SelectTool(call))
           \/ \E d \in {"approve", "reject"}, a \in BOOLEAN : Resume(d, a)
  <2>1. node' \notin {"rank", "attach", "policy_gate", "approval_gate", "paused"}
    BY <1>1 DEF LoadMemoryContext, Finalize, RunTool, FollowUp, Recommend, SelectTool,
       QueueApprovedAction, Resume, AfterAssistant
  <2> QED
    BY <2>1
<1>2. CASE Start
  BY <1>0, <1>2, RouteTakesInvestigated DEF Start
<1>3. CASE VerifyAlternatives
  BY <1>0, <1>3 DEF VerifyAlternatives
<1>4. CASE RankAlternatives
  BY <1>0, <1>4 DEF RankAlternatives
<1>5. CASE AttachRanking
  <2>1. advice \in Advice
    BY <1>5 DEF AttachRanking, AdviceShape, TypeOK
  <2>2. advice' \in Advice /\ advice'.ranked
    BY <1>5, <2>1 DEF AttachRanking, Advice
  <2>3. advice' # None
    BY <2>2, NoneIsFresh
  <2> QED
    BY <1>0, <1>5, <2>2, <2>3 DEF AttachRanking
<1>6. CASE PolicyGate
  BY <1>0, <1>6 DEF PolicyGate
<1>7. CASE Pause
  BY <1>0, <1>7 DEF Pause
<1>8. CASE UNCHANGED vars
  BY <1>0, <1>8 DEF vars
<1> QED
  BY <1>1, <1>2, <1>3, <1>4, <1>5, <1>6, <1>7, <1>8 DEF Next, Step

\* From every invocation by run_graph_investigation, whatever the model
\* answers: the loop, the completions, the recommendation and the case for the
\* manager keep their shape, node after node.
THEOREM GraphInvariance == Spec => []GraphInv
<1>1. Init => GraphInv
  <2> SUFFICES ASSUME Init PROVE GraphInv
    OBVIOUS
  <2>1. TypeOK
    <3>1. 0 \in 0 .. MaxIterations
      BY GraphTyped
    <3>2. lookups \in Seq(ReadOnlyTools) /\ ranking \in Seq(DOMAIN Alternatives)
          /\ calls \in Seq({"tool_selection", "recommendation"})
      BY DEF Init
    <3> QED
      BY <3>1, <3>2 DEF Init, TypeOK, Nodes
  <2>2. LoopShape
    <3>1. lookups = <<>> /\ Called = {}
      BY DEF Init, Called
    <3> QED
      BY <3>1, FS_EmptySet DEF Init, LoopShape
  <2>3. CallShape /\ AdviceShape /\ CaseShape
    BY DEF Init, CallShape, AdviceShape, CaseShape, LongPath, Ready
  <2> QED
    BY <2>1, <2>2, <2>3 DEF GraphInv
<1>2. GraphInv /\ [Next]_vars => GraphInv'
  BY GraphTypeKept, LoopKept, CallsKept, AdviceKept, CaseKept DEF GraphInv
<1> QED
  BY <1>1, <1>2, PTL DEF Spec

\* Whatever the model answers, the loop of react_assistant and tools runs no
\* more than MAX_REACT_ITERATIONS lookups, each of another tool, and the graph
\* requests at most one selection and one recommendation, and none at all with
\* the control off or the evidence too thin.
THEOREM LoopIsBounded == Spec => []Bounded
<1>1. GraphInv => Bounded
  <2> SUFFICES ASSUME GraphInv PROVE Bounded
    OBVIOUS
  <2>1. Len(lookups) <= MaxIterations
    BY GraphTyped DEF GraphInv, TypeOK, LoopShape
  <2>2. calls # <<>> => input.llm /\ Investigated
    BY DEF GraphInv, CallShape
  <2> QED
    BY <2>1, <2>2 DEF GraphInv, Bounded, LoopShape, CallShape, Investigated
<1> QED
  BY <1>1, GraphInvariance, PTL

\* An investigation pauses only with the policy decided, every eligible
\* alternative ranked once, none below the traveler's minimum connection, and a
\* recommendation that cites this assessment's evidence.
THEOREM PausesAreComplete == Spec => []PausedWithCompleteCase
<1>1. GraphInv => PausedWithCompleteCase
  <2> SUFFICES ASSUME GraphInv, node = "paused", Investigated
               PROVE  /\ gate /\ eligible # None
                      /\ {ranking[n] : n \in DOMAIN ranking} = eligible
                      /\ Len(ranking) = Cardinality(eligible)
                      /\ \A i \in eligible : Alternatives[i].connection >= input.minimum
                      /\ advice # None /\ advice.known /\ advice.ranked
    BY DEF PausedWithCompleteCase
  <2>1. /\ gate /\ eligible = EligibleIn(Alternatives, input.minimum)
        /\ ranking = Ranked(input.minimum) /\ advice # None /\ advice.ranked
    BY DEF GraphInv, CaseShape, Ready
  <2>2. eligible # None /\ {ranking[n] : n \in DOMAIN ranking} = eligible
        /\ Len(ranking) = Cardinality(eligible)
    BY <2>1, RankedIsRanking, NoneIsFresh
  <2>3. ASSUME NEW i \in eligible PROVE Alternatives[i].connection >= input.minimum
    <3>1. i \in DOMAIN Alternatives /\ Evaluated(Alternatives[i], input.minimum).eligible
      BY <2>1 DEF EligibleIn
    <3>2. Alternatives[i] \in RecoveryCandidate /\ input.minimum \in Nat
      BY <3>1, GraphTyped, InputFacts DEF GraphInv
    <3> QED
      BY <3>1, <3>2, EligibleWithinLimits DEF WithinLimits
  <2>4. advice.known
    BY <2>1 DEF GraphInv, AdviceShape
  <2> QED
    BY <2>1, <2>2, <2>3, <2>4
<1> QED
  BY <1>1, GraphInvariance, PTL

-----------------------------------------------------------------------------
(***************************************************************************)
(* The outcomes of a candidate set.  A request decides on what it read; by *)
(* the time its row is inserted others have been.  Rows are never taken    *)
(* back, so what justified the request then still does.                    *)
(***************************************************************************)
Idle == {"new", "refused"}

Stamped(r) == \E n \in DOMAIN order : order[n] = r

\* The minimum that the saved set was evaluated with.
Applied == IF origin = "graph" THEN context ELSE 0

\* The saved set is the ranking of the provider's candidates.
SnapshotIsRanking == raw # None => snapshot = CandidateSet(raw, Applied)

\* What the graph was told is what the profile says, as long as it was told.
ContextShape ==
  /\ raw # None /\ origin = "graph" => context # None
  /\ informed => context = confirmed

\* Stamps differ; a row is stamped before it is inserted, and stays.
RowsShape ==
  /\ \A m, n \in DOMAIN order : order[m] = order[n] => m = n
  /\ \A r \in Requests :
       /\ req[r].phase \in Idle \cup {"valid"} => ~Stamped(r)
       /\ req[r].phase = "stamped" \/ r \in saved => Stamped(r)
       /\ req[r].phase \in {"saved", "done"} => r \in saved

\* What a request was accepted for is an eligible candidate of the set.
AcceptedEligible ==
  \A r \in Requests :
    req[r].phase \notin Idle =>
      /\ raw # None /\ req[r].candidate \in DOMAIN raw
      /\ req[r].state \in OutcomeStates
      /\ snapshot[req[r].candidate].lifecycle = "eligible"

\* A row that justifies r, and that r does not overtake.
Justifies(s, r) ==
  /\ req[s].candidate = req[r].candidate
  /\ TransitionAllowed(req[s].state, req[r].state)
  /\ Stamped(r) => Stamp(s) < Stamp(r)

\* The row that justifies a request is there from the moment it is accepted.
Grounded ==
  \A r \in Requests :
    req[r].phase \notin Idle =>
      req[r].state = "offered" \/ \E s \in saved : Justifies(s, r)

OutcomesInv ==
  /\ OutcomesTypeOK /\ SnapshotIsRanking /\ ContextShape
  /\ RowsShape /\ AcceptedEligible /\ Grounded

\* A nonempty set of positions has a last one: the well-founded minimum of the
\* distances from the end.
LEMMA LastOfPositions ==
  ASSUME NEW n \in Nat, NEW S \in SUBSET (1 .. n), S # {}
  PROVE  \E x \in S : \A y \in S : y <= x
<1> DEFINE T == {d \in Nat : n - d \in S}
<1>1. T \subseteq Nat /\ T # {}
  <2> PICK x \in S : TRUE
    OBVIOUS
  <2>1. n - x \in Nat /\ n - (n - x) = x
    OBVIOUS
  <2> QED
    BY <2>1
<1>2. PICK z \in T : \A y \in T : <<y, z>> \notin OpToRel(<, Nat)
  <2> HIDE DEF T
  <2> QED
    BY <1>1, WFMin, NatLessThanWellFounded
<1>3. ASSUME NEW y \in S PROVE y <= n - z
  <2>1. n - y \in T
    OBVIOUS
  <2>2. ~(n - y < z)
    BY <1>1, <1>2, <2>1 DEF OpToRel
  <2>3. z \in Nat /\ y \in Nat
    BY <1>1
  <2> QED
    BY <2>2, <2>3
<1> QED
  BY <1>2, <1>3

\* The stamp of a stamped request is its place in the order.
LEMMA StampIsPlace ==
  ASSUME RowsShape, NEW n \in DOMAIN order
  PROVE  Stamp(order[n]) = n
BY DEF RowsShape, Stamp

\* The latest of some stamped rows is one of them.
LEMMA LatestIsOne ==
  ASSUME OutcomesTypeOK, RowsShape, NEW R, R # {}, \A r \in R : Stamped(r)
  PROVE  Latest(R) \in R
<1> DEFINE S == {n \in DOMAIN order : order[n] \in R}
<1>1. DOMAIN order = 1 .. Len(order) /\ Len(order) \in Nat
  BY DEF OutcomesTypeOK
<1>2. S \in SUBSET (1 .. Len(order)) /\ S # {}
  BY <1>1 DEF Stamped
<1>3. PICK n \in S : \A m \in S : m <= n
  <2> HIDE DEF S
  <2> QED
    BY <1>1, <1>2, LastOfPositions
<1>4. ASSUME NEW r \in R PROVE Stamp(r) \in S
  <2>1. PICK m \in DOMAIN order : order[m] = r
    BY DEF Stamped
  <2> QED
    BY <2>1, StampIsPlace
<1>5. order[n] \in R /\ Stamp(order[n]) = n
  BY <1>3, StampIsPlace
<1>6. \E r \in R : \A s \in R : Stamp(s) <= Stamp(r)
  BY <1>3, <1>4, <1>5
<1> QED
  BY <1>6 DEF Latest

\* A saved candidate set shows lifecycle and position of every candidate.
LEMMA SnapshotFacts ==
  ASSUME OutcomesTypeOK, SnapshotIsRanking, ContextShape, raw # None
  PROVE  /\ Candidates(raw) /\ Applied \in Nat /\ raw \in RawSets
         /\ \A i \in DOMAIN raw :
              /\ snapshot[i].lifecycle = Evaluated(raw[i], Applied).lifecycle
              /\ snapshot[i].position = Position(raw, Applied, i)
              /\ snapshot[i].lifecycle \in Lifecycles
              /\ snapshot[i].lifecycle = "eligible" <=> i \in EligibleIn(raw, Applied)
<1>1. raw \in RawSets /\ Applied \in Nat
  <2>0. raw \in RawSets /\ context \in Minimums \cup {0, None}
    BY DEF OutcomesTypeOK
  <2>1. origin = "graph" => context \in Nat
    BY <2>0, PolicyNatural DEF ContextShape
  <2> QED
    BY <2>0, <2>1 DEF Applied
<1>2. Candidates(raw)
  BY <1>1, RawTyped DEF Candidates
<1>3. ASSUME NEW i \in DOMAIN raw
      PROVE  /\ snapshot[i].lifecycle = Evaluated(raw[i], Applied).lifecycle
             /\ snapshot[i].position = Position(raw, Applied, i)
  BY DEF SnapshotIsRanking, CandidateSet
<1>4. ASSUME NEW i \in DOMAIN raw
      PROVE  /\ snapshot[i].lifecycle \in Lifecycles
             /\ snapshot[i].lifecycle = "eligible" <=> i \in EligibleIn(raw, Applied)
  <2>1. raw[i] \in RecoveryCandidate
    BY <1>2 DEF Candidates
  <2> QED
    BY <1>1, <1>3, <2>1, EligibleWithinLimits DEF EligibleIn
<1> QED
  BY <1>1, <1>2, <1>3, <1>4

\* What the handler accepts is for an eligible candidate, and is an offer or
\* follows a row of that candidate.
LEMMA AcceptanceIsGrounded ==
  ASSUME OutcomesInv, NEW i, NEW state \in OutcomeStates,
         NEW manager, NEW override, Accepts(i, state, manager, override)
  PROVE  /\ raw # None /\ i \in DOMAIN raw
         /\ snapshot[i].lifecycle = "eligible"
         /\ \/ state = "offered"
            \/ \E s \in saved : /\ req[s].candidate = i
                                /\ TransitionAllowed(req[s].state, state)
<1> USE DEF OutcomesInv
<1>1. raw # None /\ i \in DOMAIN raw /\ TransitionAllowed(StateOf(i), state)
  BY DEF Accepts
<1>2. CASE RowsOf(i) = {}
  <2>1. TransitionAllowed(snapshot[i].lifecycle, state)
    BY <1>1, <1>2 DEF StateOf
  <2>2. snapshot[i].lifecycle \in Lifecycles
    BY <1>1, SnapshotFacts
  <2> QED
    BY <1>1, <2>1, <2>2 DEF TransitionAllowed, Lifecycles
<1>3. CASE RowsOf(i) # {}
  <2> DEFINE s == Latest(RowsOf(i))
  <2>1. RowsOf(i) \subseteq saved /\ \A r \in RowsOf(i) : req[r].candidate = i
    BY DEF RowsOf
  <2>2. saved \subseteq Requests
    BY DEF OutcomesTypeOK
  <2>3. s \in RowsOf(i)
    BY <1>3, <2>1, <2>2, LatestIsOne DEF RowsShape
  <2>4. TransitionAllowed(req[s].state, state)
    BY <1>1, <1>3 DEF StateOf
  <2>5. s \in Requests /\ s \in saved /\ req[s].candidate = i /\ req[s].phase \notin Idle
    BY <2>1, <2>2, <2>3 DEF RowsShape, Idle
  <2>6. snapshot[i].lifecycle = "eligible"
    BY <2>5 DEF AcceptedEligible
  <2> HIDE DEF s
  <2> QED
    BY <1>1, <2>4, <2>5, <2>6
<1> QED
  BY <1>2, <1>3

-----------------------------------------------------------------------------
\* A step that moves the phase of one request and touches nothing else that
\* the rows depend on.
LEMMA PhaseMoveKept ==
  ASSUME OutcomesInv, NEW r \in Requests,
         NEW ph \in {"saved", "refused", "done", "lost"},
         req' = [req EXCEPT ![r].phase = ph],
         UNCHANGED <<setVars, order>>,
         saved \subseteq saved', saved' \subseteq saved \cup {r},
         feedback' \in SUBSET saved',
         req[r].phase \in Idle <=> ph \in Idle,
         r \in saved' => Stamped(r),
         ph \in {"saved", "done"} => r \in saved',
         ph = "refused" => req[r].phase = "new"
  PROVE  OutcomesInv'
<1> USE DEF OutcomesInv, setVars
<1>1. \A q \in Requests : /\ req'[q].candidate = req[q].candidate
                          /\ req'[q].state = req[q].state
                          /\ req'[q].phase \in Idle <=> req[q].phase \in Idle
                          /\ q # r => req'[q] = req[q]
                          /\ req'[r].phase = ph
  BY DEF OutcomesTypeOK, Request
<1>2. \A q : (Stamp(q)' = Stamp(q)) /\ (Stamped(q)' = Stamped(q))
  BY DEF Stamp, Stamped
<1>3. OutcomesTypeOK'
  <2>1. req' \in [Requests -> Request]
    BY DEF OutcomesTypeOK, Request
  <2> QED
    BY <2>1 DEF OutcomesTypeOK
<1>4. SnapshotIsRanking' /\ ContextShape'
  BY DEF SnapshotIsRanking, ContextShape, Applied
<1>5. RowsShape'
  <2>1. \A m, n \in DOMAIN order' : order'[m] = order'[n] => m = n
    BY DEF RowsShape
  <2>2. ASSUME NEW q \in Requests
        PROVE  /\ req'[q].phase \in Idle \cup {"valid"} => ~Stamped(q)
               /\ req'[q].phase = "stamped" \/ q \in saved' => Stamped(q)
               /\ req'[q].phase \in {"saved", "done"} => q \in saved'
    <3>1. CASE q = r
      BY <1>1, <3>1 DEF RowsShape, Idle
    <3>2. CASE q # r
      BY <1>1, <3>2 DEF RowsShape
    <3> QED
      BY <3>1, <3>2
  <2> QED
    BY <1>2, <2>1, <2>2 DEF RowsShape
<1>6. AcceptedEligible'
  BY <1>1 DEF AcceptedEligible
<1>7. Grounded'
  <2> SUFFICES ASSUME NEW q \in Requests, req'[q].phase \notin Idle,
                      req'[q].state # "offered"
               PROVE  \E s \in saved' : Justifies(s, q)'
    BY DEF Grounded
  <2>1. PICK s \in saved : Justifies(s, q)
    BY <1>1 DEF Grounded
  <2>2. s \in Requests
    BY DEF OutcomesTypeOK
  <2>3. Justifies(s, q)'
    BY <1>1, <1>2, <2>1, <2>2 DEF Justifies
  <2> QED
    BY <2>1, <2>3
<1> QED
  BY <1>3, <1>4, <1>5, <1>6, <1>7

\* The profile comes and goes before there is a set.
LEMMA ContextKept ==
  ASSUME OutcomesInv,
         (\E m \in Minimums \cup {0} : ChangeMinimum(m))
         \/ \E reads \in BOOLEAN : ReadProfile(reads)
  PROVE  OutcomesInv'
<1> USE DEF OutcomesInv
<1>1. /\ raw = None
      /\ UNCHANGED <<raw, origin, snapshot, order, saved, feedback, req>>
  BY DEF ChangeMinimum, ReadProfile
<1> DEFINE told == /\ confirmed' \in Minimums \cup {0}
                   /\ context' \in Minimums \cup {0, None}
                   /\ informed' \in BOOLEAN
                   /\ informed' => context' = confirmed'
<1>2. ASSUME NEW m \in Minimums \cup {0}, ChangeMinimum(m) PROVE told
  BY <1>2 DEF ChangeMinimum, OutcomesTypeOK
<1>20. ASSUME NEW reads \in BOOLEAN, ReadProfile(reads) PROVE told
  <2>1. CASE reads
    BY <1>20, <2>1 DEF ReadProfile, OutcomesTypeOK
  <2>2. CASE ~reads
    BY <1>20, <2>2 DEF ReadProfile, OutcomesTypeOK
  <2> QED
    BY <2>1, <2>2
<1>3. OutcomesTypeOK' /\ SnapshotIsRanking' /\ ContextShape'
  BY <1>1, <1>2, <1>20 DEF OutcomesTypeOK, SnapshotIsRanking, ContextShape
<1>4. RowsShape' /\ AcceptedEligible' /\ Grounded'
  BY <1>1 DEF RowsShape, AcceptedEligible, Grounded, Justifies, Stamped, Stamp, Idle
<1> QED
  BY <1>3, <1>4

\* A set comes before any request is accepted.
LEMMA SaveSetKept ==
  ASSUME OutcomesInv, NEW s \in RawSets, SaveGraphSet(s) \/ SaveManagerSet(s)
  PROVE  OutcomesInv'
<1> DEFINE m == Applied'
<1> USE DEF OutcomesInv
<1>0. /\ raw = None /\ raw' = s /\ snapshot' = CandidateSet(s, m)
      /\ UNCHANGED <<confirmed, context, informed, order, saved, feedback, req>>
      /\ \/ origin' = "graph" /\ context # None
         \/ origin' = "api"
      /\ m \in Nat
  <2>1. context \in Minimums \cup {0, None}
    BY DEF OutcomesTypeOK
  <2>2. CASE SaveGraphSet(s)
    BY <2>1, <2>2, PolicyNatural DEF SaveGraphSet, Applied
  <2>3. CASE SaveManagerSet(s)
    BY <2>3 DEF SaveManagerSet, Applied
  <2> QED
    BY <2>2, <2>3
<1>1. \A r \in Requests : req[r].phase \in Idle
  BY <1>0 DEF AcceptedEligible
<1>2. SnapshotIsRanking' /\ ContextShape'
  BY <1>0 DEF SnapshotIsRanking, ContextShape
<1> HIDE DEF m
<1>3. OutcomesTypeOK'
  <2>1. Candidates(s) /\ m \in Nat
    BY <1>0, RawTyped DEF Candidates
  <2>2. ASSUME NEW i \in DOMAIN s
        PROVE  /\ Evaluated(s[i], m).lifecycle \in Lifecycles
               /\ Position(s, m, i) \in 0 .. Cardinality(DOMAIN s)
    <3>1. s[i] \in RecoveryCandidate
      BY <2>1 DEF Candidates
    <3>2. Evaluated(s[i], m).lifecycle \in Lifecycles
      BY <2>1, <3>1, EligibleWithinLimits
    <3>3. Cardinality(DOMAIN s) \in Nat
      BY <2>1, FS_CardinalityType DEF Candidates
    <3>4. CASE i \in EligibleIn(s, m)
      <4>1. /\ Position(s, m, i) \in 1 .. Cardinality(EligibleIn(s, m))
            /\ Cardinality(EligibleIn(s, m)) \in Nat
            /\ Cardinality(EligibleIn(s, m)) <= Cardinality(DOMAIN s)
        BY <2>1, <3>4, PositionsRank
      <4> QED
        BY <3>2, <3>3, <4>1
    <3>5. CASE i \notin EligibleIn(s, m)
      <4>1. Position(s, m, i) = 0
        BY <3>5 DEF Position
      <4> QED
        BY <3>2, <3>3, <4>1
    <3> QED
      BY <3>4, <3>5
  <2>3. snapshot' \in [DOMAIN s -> [lifecycle : Lifecycles,
                                   position : 0 .. Cardinality(DOMAIN s)]]
    BY <1>0, <2>2 DEF CandidateSet
  <2> QED
    BY <1>0, <2>3 DEF OutcomesTypeOK, Lifecycles
<1>4. RowsShape'
  BY <1>0 DEF RowsShape, Stamped
<1>5. AcceptedEligible' /\ Grounded'
  BY <1>0, <1>1 DEF AcceptedEligible, Grounded
<1> QED
  BY <1>2, <1>3, <1>4, <1>5

\* The validation: the rows it read justify the request from now on.
LEMMA ValidateKept ==
  ASSUME OutcomesInv, NEW r \in Requests, NEW i \in Ids, NEW state \in OutcomeStates,
         NEW manager \in BOOLEAN, NEW override \in BOOLEAN,
         Validate(r, i, state, manager, override)
  PROVE  OutcomesInv'
<1> DEFINE new == [phase |-> "valid", candidate |-> i, state |-> state,
                   override |-> override]
<1> USE DEF OutcomesInv, setVars
<1>1. /\ req[r].phase = "new" /\ req' = [req EXCEPT ![r] = new]
      /\ UNCHANGED <<setVars, order, saved, feedback>>
      /\ Accepts(i, state, manager, override)
  BY DEF Validate
<1>2. new \in Request
  BY DEF Request
<1>3. req' \in [Requests -> Request] /\ req'[r] = new
      /\ \A q \in Requests : q # r => req'[q] = req[q]
  BY <1>1, <1>2 DEF OutcomesTypeOK
<1>4. new.phase = "valid" /\ new.candidate = i /\ new.state = state
  OBVIOUS
<1> HIDE DEF new
<1>5. ~Stamped(r) /\ r \notin saved
  BY <1>1 DEF RowsShape, Idle
<1>6. \A q : (Stamp(q)' = Stamp(q)) /\ (Stamped(q)' = Stamped(q))
  BY <1>1 DEF Stamp, Stamped
<1>7. /\ raw # None /\ i \in DOMAIN raw
      /\ snapshot[i].lifecycle = "eligible"
      /\ \/ state = "offered"
         \/ \E s \in saved : /\ req[s].candidate = i
                             /\ TransitionAllowed(req[s].state, state)
  BY <1>1, AcceptanceIsGrounded
<1>8. OutcomesTypeOK' /\ SnapshotIsRanking' /\ ContextShape'
  BY <1>1, <1>3 DEF OutcomesTypeOK, SnapshotIsRanking, ContextShape, Applied
<1>9. RowsShape'
  BY <1>1, <1>3, <1>4, <1>5, <1>6 DEF RowsShape, Idle
<1>10. AcceptedEligible'
  BY <1>1, <1>3, <1>4, <1>7 DEF AcceptedEligible
<1>11. Grounded'
  <2> SUFFICES ASSUME NEW q \in Requests, req'[q].phase \notin Idle,
                      req'[q].state # "offered"
               PROVE  \E s \in saved' : Justifies(s, q)'
    BY DEF Grounded
  <2>1. CASE q = r
    <3>1. PICK s \in saved : req[s].candidate = i /\ TransitionAllowed(req[s].state, state)
      BY <1>3, <1>4, <1>7, <2>1
    <3>2. s \in Requests /\ s # r
      BY <1>5 DEF OutcomesTypeOK
    <3>3. Justifies(s, r)'
      BY <1>3, <1>4, <1>5, <1>6, <3>1, <3>2 DEF Justifies
    <3> QED
      BY <1>1, <2>1, <3>3
  <2>2. CASE q # r
    <3>1. PICK s \in saved : Justifies(s, q)
      BY <1>3, <2>2 DEF Grounded
    <3>2. s \in Requests /\ s # r
      BY <1>5 DEF OutcomesTypeOK
    <3>3. Justifies(s, q)'
      BY <1>3, <1>6, <2>2, <3>1, <3>2 DEF Justifies
    <3> QED
      BY <1>1, <3>3
  <2> QED
    BY <2>1, <2>2
<1> QED
  BY <1>8, <1>9, <1>10, <1>11

\* The stamp: later than that of every row the request could have read.
LEMMA StampKept ==
  ASSUME OutcomesInv, NEW r \in Requests, StampOutcome(r)
  PROVE  OutcomesInv'
<1> USE DEF OutcomesInv, setVars
<1>1. /\ req[r].phase = "valid" /\ req' = [req EXCEPT ![r].phase = "stamped"]
      /\ UNCHANGED <<setVars, saved, feedback>>
      /\ order' = Append(order, r) /\ order \in Seq(Requests)
  BY DEF StampOutcome, OutcomesTypeOK
<1>2. \A q \in Requests : /\ req'[q].candidate = req[q].candidate
                          /\ req'[q].state = req[q].state
                          /\ q # r => req'[q] = req[q]
                          /\ req'[r].phase = "stamped"
  BY <1>1 DEF OutcomesTypeOK, Request
<1>3. ~Stamped(r) /\ r \notin saved
  BY <1>1 DEF RowsShape, Idle
<1>4. /\ Len(order) \in Nat /\ DOMAIN order = 1 .. Len(order)
      /\ DOMAIN order' = DOMAIN order \cup {Len(order) + 1}
      /\ \A n \in DOMAIN order : order'[n] = order[n]
      /\ order'[Len(order) + 1] = r
      /\ Len(order) + 1 \notin DOMAIN order
  BY <1>1
<1>5. \A q : Stamped(q)' <=> Stamped(q) \/ q = r
  BY <1>4 DEF Stamped
<1>6. OutcomesTypeOK' /\ SnapshotIsRanking' /\ ContextShape'
  <2>1. req' \in [Requests -> Request]
    BY <1>1 DEF OutcomesTypeOK, Request
  <2>2. order' \in Seq(Requests)
    BY <1>1
  <2> QED
    BY <1>1, <2>1, <2>2 DEF OutcomesTypeOK, SnapshotIsRanking, ContextShape, Applied
<1>7. RowsShape'
  <2>1. \A m, n \in DOMAIN order' : order'[m] = order'[n] => m = n
    BY <1>3, <1>4 DEF RowsShape, Stamped
  <2>2. ASSUME NEW q \in Requests
        PROVE  /\ req'[q].phase \in Idle \cup {"valid"} => ~Stamped(q)'
               /\ req'[q].phase = "stamped" \/ q \in saved' => Stamped(q)'
               /\ req'[q].phase \in {"saved", "done"} => q \in saved'
    <3>1. CASE q = r
      BY <1>1, <1>2, <1>3, <1>5, <3>1 DEF Idle
    <3>2. CASE q # r
      BY <1>1, <1>2, <1>5, <3>2 DEF RowsShape
    <3> QED
      BY <3>1, <3>2
  <2> QED
    BY <2>1, <2>2 DEF RowsShape
<1>8. AcceptedEligible'
  <2>1. \A q \in Requests : req'[q].phase \notin Idle => req[q].phase \notin Idle
    BY <1>1, <1>2 DEF Idle
  <2> QED
    BY <1>1, <1>2, <2>1 DEF AcceptedEligible
<1>9. ASSUME NEW q, NEW n \in DOMAIN order, order[n] = q
      PROVE  Stamp(q)' = n /\ Stamp(q) = n
  <2>1. Stamp(q) = n
    BY <1>9, StampIsPlace
  <2>2. order'[n] = q /\ \A k \in DOMAIN order' : order'[k] = q => k = n
    BY <1>3, <1>4, <1>9 DEF RowsShape, Stamped
  <2>3. Stamp(q)' = n
    BY <1>4, <2>2 DEF Stamp
  <2> QED
    BY <2>1, <2>3
<1>10. Stamp(r)' = Len(order) + 1
  BY <1>3, <1>4 DEF Stamp, Stamped
<1>11. Grounded'
  <2> SUFFICES ASSUME NEW q \in Requests, req'[q].phase \notin Idle,
                      req'[q].state # "offered"
               PROVE  \E s \in saved' : Justifies(s, q)'
    BY DEF Grounded
  <2>1. PICK s \in saved : Justifies(s, q)
    BY <1>1, <1>2 DEF Grounded, Idle
  <2>2. s \in Requests
    BY DEF OutcomesTypeOK
  <2>3. PICK n \in DOMAIN order : order[n] = s
    BY <2>2 DEF RowsShape, Stamped
  <2>4. Stamp(s)' = n /\ Stamp(s) = n
    BY <1>9, <2>3
  <2>5. CASE q = r
    <3>1. Stamp(s)' < Stamp(q)'
      BY <1>4, <1>10, <2>4, <2>5
    <3>2. Justifies(s, q)'
      BY <1>2, <2>1, <2>2, <3>1 DEF Justifies
    <3> QED
      BY <1>1, <3>2
  <2>6. CASE q # r
    <3>1. ASSUME Stamped(q)' PROVE Stamp(s)' < Stamp(q)'
      <4>1. PICK k \in DOMAIN order : order[k] = q
        BY <1>5, <2>6, <3>1 DEF Stamped
      <4>2. Stamp(q)' = k /\ Stamp(q) = k
        BY <1>9, <4>1
      <4>3. Stamp(s) < Stamp(q)
        BY <2>1, <4>1 DEF Justifies, Stamped
      <4> QED
        BY <2>4, <4>2, <4>3
    <3>2. Justifies(s, q)'
      BY <1>2, <2>1, <2>2, <3>1 DEF Justifies
    <3> QED
      BY <1>1, <3>2
  <2> QED
    BY <2>5, <2>6
<1> QED
  BY <1>6, <1>7, <1>8, <1>11

\* However outcome requests overlap: the snapshot stays the ranking, every
\* accepted request is for an eligible candidate, and the row that justifies
\* it is committed and older.
THEOREM OutcomesInvariance == OutcomesSpec => []OutcomesInv
<1>1. OutcomesInit => OutcomesInv
  <2> SUFFICES ASSUME OutcomesInit PROVE OutcomesInv
    OBVIOUS
  <2>1. \A r \in Requests : req[r].phase = "new" /\ ~Stamped(r)
    BY DEF OutcomesInit, Fresh, Stamped
  <2>2. OutcomesTypeOK
    <3>1. Fresh \in Request
      BY DEF Fresh, Request
    <3>2. order \in Seq(Requests) /\ req \in [Requests -> Request]
      BY <3>1 DEF OutcomesInit
    <3> QED
      BY <3>2 DEF OutcomesInit, OutcomesTypeOK
  <2>3. /\ SnapshotIsRanking /\ ContextShape /\ RowsShape
        /\ AcceptedEligible /\ Grounded
    BY <2>1 DEF OutcomesInit, SnapshotIsRanking, ContextShape, RowsShape, AcceptedEligible, Grounded, Idle
  <2> QED
    BY <2>2, <2>3 DEF OutcomesInv
<1>2. OutcomesInv /\ [OutcomesNext]_outcomeVars => OutcomesInv'
  <2> SUFFICES ASSUME OutcomesInv, [OutcomesNext]_outcomeVars PROVE OutcomesInv'
    OBVIOUS
  <2>0. \A r \in Requests :
          /\ req[r].phase = "stamped" \/ r \in saved => Stamped(r)
          /\ req[r].phase \in {"saved", "done"} => r \in saved
    BY DEF OutcomesInv, RowsShape
  <2>00. saved \subseteq Requests /\ feedback \subseteq saved
    BY DEF OutcomesInv, OutcomesTypeOK
  <2>1. ASSUME NEW s \in RawSets, SaveGraphSet(s) \/ SaveManagerSet(s)
        PROVE  OutcomesInv'
    BY <2>1, SaveSetKept
  <2>11. CASE \/ \E m \in Minimums \cup {0} : ChangeMinimum(m)
              \/ \E reads \in BOOLEAN : ReadProfile(reads)
    BY <2>11, ContextKept
  <2>2. ASSUME NEW r \in Requests, NEW i \in Ids, NEW state \in OutcomeStates,
               NEW manager \in BOOLEAN, NEW override \in BOOLEAN,
               Validate(r, i, state, manager, override)
        PROVE  OutcomesInv'
    BY <2>2, ValidateKept
  <2>3. ASSUME NEW r \in Requests, Refuse(r) PROVE OutcomesInv'
    BY <2>0, <2>00, <2>3, PhaseMoveKept DEF Refuse, Idle
  <2>4. ASSUME NEW r \in Requests, StampOutcome(r) PROVE OutcomesInv'
    BY <2>4, StampKept
  <2>5. ASSUME NEW r \in Requests, SaveOutcome(r) PROVE OutcomesInv'
    BY <2>0, <2>00, <2>5, PhaseMoveKept DEF SaveOutcome, Idle
  <2>6. ASSUME NEW r \in Requests, SaveFeedback(r) PROVE OutcomesInv'
    <3>1. feedback' \in SUBSET saved /\ r \in saved
      BY <2>0, <2>00, <2>6 DEF SaveFeedback
    <3> QED
      BY <2>0, <2>6, <3>1, PhaseMoveKept DEF SaveFeedback, Idle
  <2>7. ASSUME NEW r \in Requests, Crash(r) PROVE OutcomesInv'
    BY <2>0, <2>00, <2>7, PhaseMoveKept DEF Crash, Idle
  <2>8. CASE UNCHANGED outcomeVars
    <3>1. /\ UNCHANGED <<raw, origin, confirmed, context, informed, snapshot>>
          /\ UNCHANGED <<order, saved, feedback, req>>
      BY <2>8 DEF outcomeVars, setVars
    <3>2. \A q : (Stamp(q)' = Stamp(q)) /\ (Stamped(q)' = Stamped(q))
      BY <3>1 DEF Stamp, Stamped
    <3>3. OutcomesTypeOK' /\ SnapshotIsRanking' /\ ContextShape' /\ AcceptedEligible'
      BY <3>1 DEF OutcomesInv, OutcomesTypeOK, SnapshotIsRanking, ContextShape, Applied,
         AcceptedEligible
    <3>4. RowsShape' /\ Grounded'
      BY <3>1, <3>2 DEF OutcomesInv, RowsShape, Grounded, Justifies
    <3> QED
      BY <3>3, <3>4 DEF OutcomesInv
  <2> QED
    BY <2>1, <2>11, <2>2, <2>3, <2>4, <2>5, <2>6, <2>7, <2>8 DEF OutcomesNext
<1> QED
  BY <1>1, <1>2, PTL DEF OutcomesSpec

\* The displayed positions are a ranking of the eligible candidates, and every
\* recorded outcome is of a candidate within every limit of the company, and of
\* the traveler where the graph knew it, whoever asked and whatever overlapped.
THEOREM OutcomesAreWithinPolicy == OutcomesSpec => []OutcomesMeetPolicy
<1>1. OutcomesInv => OutcomesMeetPolicy
  <2> SUFFICES ASSUME OutcomesInv PROVE OutcomesMeetPolicy
    OBVIOUS
  <2>1. RankingIsOrder
    <3> SUFFICES ASSUME raw # None PROVE RankingIsOrder
      BY DEF RankingIsOrder
    <3> DEFINE shown == {i \in DOMAIN raw : snapshot[i].position # 0}
               E == EligibleIn(raw, Applied)
               pos(i) == snapshot[i].position
    <3>1. /\ Candidates(raw)
          /\ \A i \in DOMAIN raw :
               /\ pos(i) = Position(raw, Applied, i)
               /\ snapshot[i].lifecycle = "eligible" <=> i \in E
      BY SnapshotFacts DEF OutcomesInv
    <3>2. E \subseteq DOMAIN raw /\ \A i \in DOMAIN raw \ E : pos(i) = 0
      BY <3>1 DEF EligibleIn, Position
    <3>3. /\ Cardinality(E) \in Nat
          /\ \A i \in E : pos(i) \in 1 .. Cardinality(E)
          /\ \A i, j \in E : Better(raw, i, j) => pos(i) < pos(j)
          /\ \A p \in 1 .. Cardinality(E) : \E i \in E : pos(i) = p
      BY <3>1, <3>2, PositionsRank
    <3> HIDE DEF E
    <3>4. shown = E
      BY <3>2, <3>3
    <3>5. {pos(i) : i \in E} = 1 .. Cardinality(E)
      BY <3>3
    <3>6. \A i, j \in E : RecoveryScore(raw[i]) > RecoveryScore(raw[j]) => pos(i) < pos(j)
      BY <3>1, <3>2, <3>3, BetterIsOrder
    <3>7. E = {i \in DOMAIN raw : snapshot[i].lifecycle = "eligible"}
      BY <3>1, <3>2
    <3> QED
      BY <3>4, <3>5, <3>6, <3>7 DEF RankingIsOrder
  <2>2. ASSUME NEW r \in saved
        PROVE  WithinLimits(raw[req[r].candidate], Applied)
    <3> DEFINE i == req[r].candidate
    <3>1. r \in Requests /\ req[r].phase \notin Idle
      BY DEF OutcomesInv, OutcomesTypeOK, RowsShape, Idle
    <3>2. raw # None /\ i \in DOMAIN raw /\ snapshot[i].lifecycle = "eligible"
      BY <3>1 DEF OutcomesInv, AcceptedEligible
    <3>3. i \in EligibleIn(raw, Applied) /\ Candidates(raw) /\ Applied \in Nat
      BY <3>2, SnapshotFacts DEF OutcomesInv
    <3> QED
      BY <3>3, EligibleWithinLimits DEF EligibleIn, Candidates
  <2>3. origin = "graph" /\ informed => Applied = confirmed
    BY DEF OutcomesInv, ContextShape, Applied
  <2> QED
    BY <2>1, <2>2, <2>3 DEF OutcomesMeetPolicy, WithinLimits, OutcomesInv
<1> QED
  BY <1>1, OutcomesInvariance, PTL

\* Every recorded outcome follows an earlier row of its candidate from which
\* transition_allowed leads to it, in whatever order the rows were committed.
THEOREM OutcomesAreJustified == OutcomesSpec => []Justified
<1>1. OutcomesInv => Justified
  <2> SUFFICES ASSUME OutcomesInv, NEW r \in saved, req[r].state # "offered"
               PROVE  \E s \in saved : /\ req[s].candidate = req[r].candidate
                                       /\ Stamp(s) < Stamp(r)
                                       /\ TransitionAllowed(req[s].state, req[r].state)
    BY DEF Justified
  <2>1. r \in Requests /\ Stamped(r) /\ req[r].phase \notin Idle
    BY DEF OutcomesInv, OutcomesTypeOK, RowsShape, Idle
  <2>2. PICK s \in saved : Justifies(s, r)
    BY <2>1 DEF OutcomesInv, Grounded
  <2> QED
    BY <2>1, <2>2 DEF Justifies
<1> QED
  BY <1>1, OutcomesInvariance, PTL
=============================================================================
