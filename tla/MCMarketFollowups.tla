------------------------- MODULE MCMarketFollowups -------------------------
(***************************************************************************)
(* One asset that enters NXT on the second session and one that is delisted *)
(* on the third.                                                            *)
(***************************************************************************)
EXTENDS MarketFollowups
MCGone == [x \in Asset |-> IF x = 2 THEN 3 ELSE 0]
MCRevised == {<<1, 1>>}
MCNxt == [d \in Day |-> IF d >= 2 THEN {1} ELSE {}]
=============================================================================
