---------------------------- MODULE MCClaimReview ----------------------------
(* Two aggregates, which share the positional names of their samples, and  *)
(* packets that use every kind of name, one that names nothing, one that   *)
(* names a sample by itself and one that invents its evidence.             *)
EXTENDS ClaimReview

CONSTANTS e1, e2, e3, live, agg1, agg2, invented

MCEvidence == {e1, e2, e3, live}
MCLong == {live}
MCAggregates == <<agg1, agg2>>
MCSamples == (agg1 :> <<e1, e2>>) @@ (agg2 :> <<e3, e1>>)
MCOffers ==
  {[found |-> {}, claimed |-> {}, doubt |-> FALSE],
   [found |-> {agg1}, claimed |-> {e1}, doubt |-> FALSE],
   [found |-> {1}, claimed |-> {2}, doubt |-> TRUE],
   [found |-> {e2}, claimed |-> {}, doubt |-> FALSE],
   [found |-> {invented}, claimed |-> {}, doubt |-> FALSE],
   [found |-> {agg2}, claimed |-> {invented, e3}, doubt |-> FALSE]}
=============================================================================
