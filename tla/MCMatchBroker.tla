---------------------------- MODULE MCMatchBroker ----------------------------
(***************************************************************************)
(* Three providers, so that the tree has odd and even layers, and two      *)
(* manifests that pass different filters.                                  *)
(***************************************************************************)
EXTENDS MatchBroker, TLC

\* A careful tool that is sold in Europe, and one that states next to nothing, and its
\* level in a way that cannot be compared.
MCManifests ==
    { [conformance_level |-> 3, risk_class |-> "high", avg_cost_usd |-> 2,
       jurisdictions |-> {"EU"}, categories |-> {"law,news"}],
      [conformance_level |-> text, risk_class |-> null, avg_cost_usd |-> 0,
       jurisdictions |-> {}, categories |-> {}] }

MCNames  == {"EU", "US", "*", "", "law", "news", "law,news"}
MCPieces == [c \in MCNames |-> IF c = "law,news" THEN {"law", "news"} ELSE {c}]

NoFilter == [jurisdictions |-> {}, risk_class |-> null, min_conformance_level |-> null,
             max_cost_usd |-> null, categories |-> {}]

MCIntents ==
    { [top_k |-> 2, filters |-> [NoFilter EXCEPT !.risk_class = "unknown"]],
      [top_k |-> 9, filters |-> [NoFilter EXCEPT !.min_conformance_level = 2,
                                                 !.jurisdictions = {"EU", "US"},
                                                 !.categories = {"", "news"}]],
      [top_k |-> 9, filters |-> [NoFilter EXCEPT !.risk_class = "medium",
                                                 !.max_cost_usd = 1]] }

Symmetry == Permutations(Providers)

=============================================================================
