------------------------------- MODULE Market -------------------------------
(***************************************************************************)
(* The match broker ranks the same candidates twice: before and after one   *)
(* of them has raised its cost.                                             *)
(***************************************************************************)
EXTENDS Request, Ranking

CONSTANT Markets   \* candidates to rank, one of them, and a higher cost it may ask later

RankingInput == [bm25_raw : Nat, reputation_score : Nat, conformance_level : Nat,
                 avg_cost_usd : Nat \cup {unpriced}, days : Nat]

ASSUME MarketsAssumption ==
    \A m \in Markets :
        /\ m.candidates \in Seq(RankingInput)
        /\ m.of \in DOMAIN m.candidates /\ m.cost \in Nat
        /\ m.candidates[m.of].avg_cost_usd # unpriced
        /\ m.candidates[m.of].avg_cost_usd < m.cost

MarketRequests == [to : {"rank"}, market : Markets]

Dearer(market) == [market.candidates EXCEPT ![market.of].avg_cost_usd = market.cost]

Rank ==
    /\ request.to = "rank" /\ answer = None
    /\ answer' = [to |-> "rank", before |-> rankCandidates(request.market.candidates),
                  after |-> rankCandidates(Dearer(request.market))]
    /\ UNCHANGED request

MarketSpec == request \in MarketRequests /\ answer = None /\ [][Rank]_vars

-----------------------------------------------------------------------------
(* Properties *)

\* At least as good in all that the broker has on the two.
AsGood(c, d) ==
    /\ c.bm25_raw >= d.bm25_raw
    /\ c.reputation_score >= d.reputation_score
    /\ c.conformance_level >= d.conformance_level
    /\ c.days =< d.days
    /\ c.avg_cost_usd = d.avg_cost_usd
       \/ (unpriced \notin {c.avg_cost_usd, d.avg_cost_usd} /\ c.avg_cost_usd =< d.avg_cost_usd)

\* Whom a ranking puts above j.
RankedAbove(ranked, j) ==
    {ranked[p] : p \in {p \in DOMAIN ranked : \E q \in DOMAIN ranked : p < q /\ ranked[q] = j}}

\* Everybody is ranked, and nobody is demoted without a reason (RFC 0021, section 7): who
\* is as good as another in everything is above it, or has the same score.
Fair(candidates, ranked) ==
    /\ ToSet(ranked) = DOMAIN candidates
    /\ \A i, j \in DOMAIN candidates :
           AsGood(candidates[i], candidates[j]) =>
               \/ i \in RankedAbove(ranked, j)
               \/ finalScore(candidates, i) = finalScore(candidates, j)

\* The rankings are fair, and nobody passes anybody by asking more than before, although
\* a cost is scored relative to those of the others, with special cases for a missing
\* cost and for a range of zero (rankCandidates, computeCostScore).
RankingSound ==
    Answered("rank") =>
        /\ Fair(request.market.candidates, answer.before)
        /\ Fair(Dearer(request.market), answer.after)
        /\ RankedAbove(answer.before, request.market.of)
               \subseteq RankedAbove(answer.after, request.market.of)

=============================================================================
