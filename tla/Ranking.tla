------------------------------- MODULE Ranking -------------------------------
(***************************************************************************)
(* The disclosed ranking function of the match broker (rankCandidates of    *)
(* reference/match-broker/broker.js): five weighted scores.  A candidate is *)
(* what the broker has on it: how well its text matches the query, its      *)
(* reputation, its conformance level, its average cost and the days since   *)
(* its manifest was registered.  Scores are in fixed point.                 *)
(***************************************************************************)
EXTENDS Integers, Sequences, FiniteSets, FiniteSetsExt, SequencesExt

CONSTANTS
    Whole,      \* the unit of the fixed point
    unpriced    \* avg_cost_usd is null

ASSUME FixedPointAssumption == Whole \in Nat /\ unpriced \notin Nat

WEIGHT == [bm25 |-> 45, reputation |-> 25, conformance |-> 15, cost_score |-> 10, freshness |-> 5]

computeConformanceScore(level) == (level * Whole) \div 4

computeCostScore_Dear(cost, allCosts) ==                             \* a mutant
    CASE cost = unpriced \/ allCosts = {} -> Whole \div 2
      [] cost # unpriced /\ Cardinality(allCosts) = 1 -> Whole
      [] OTHER -> ((cost - Min(allCosts)) * Whole) \div (Max(allCosts) - Min(allCosts))
computeCostScore(cost, allCosts) ==
    CASE cost = unpriced \/ allCosts = {} -> Whole \div 2
      [] cost # unpriced /\ Cardinality(allCosts) = 1 -> Whole
      [] OTHER -> Whole - ((cost - Min(allCosts)) * Whole) \div (Max(allCosts) - Min(allCosts))

computeFreshnessScore(days) == Max({0, Whole - (days * Whole) \div 365})

\* The inputs of the decision record of candidate k.
Inputs(candidates, k) ==
    LET c == candidates[k]
        allCosts == {d.avg_cost_usd : d \in ToSet(candidates)} \ {unpriced}
    IN  [bm25        |-> Min({c.bm25_raw \div 10, Whole}),
         reputation  |-> c.reputation_score,
         conformance |-> computeConformanceScore(c.conformance_level),
         cost_score  |-> computeCostScore(c.avg_cost_usd, allCosts),
         freshness   |-> computeFreshnessScore(c.days)]

\* In hundredths of the unit.
finalScore(candidates, k) ==
    LET inputs == Inputs(candidates, k)
    IN  WEIGHT.bm25 * inputs.bm25 + WEIGHT.reputation * inputs.reputation
        + WEIGHT.conformance * inputs.conformance + WEIGHT.cost_score * inputs.cost_score
        + WEIGHT.freshness * inputs.freshness

\* The candidates by descending score, those of equal score in the order they came in:
\* each at the place behind those that come before it.
rankCandidates(candidates) ==
    LET score     == [k \in DOMAIN candidates |-> finalScore(candidates, k)]
        before(k) == {j \in DOMAIN candidates :
                         score[j] > score[k] \/ (score[j] = score[k] /\ j < k)}
    IN  [place \in DOMAIN candidates |->
            CHOOSE k \in DOMAIN candidates : Cardinality(before(k)) = place - 1]

=============================================================================
