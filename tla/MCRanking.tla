----------------------------- MODULE MCRanking ------------------------------
(***************************************************************************)
(* Three candidates: 1 and 3 are recommendations, 2 a coupon supported by  *)
(* 1 with the highest prior.                                               *)
(***************************************************************************)
EXTENDS Ranking, TLC

MCPrior == 1 :> 1 @@ 2 :> 2 @@ 3 :> 1

MCSupport == 2 :> 1

MCCarts == {{}, {1}}

MCEstimates == {[p \in Products |-> 0], 3 :> 2 @@ 1 :> 0 @@ 2 :> 0}
=============================================================================
