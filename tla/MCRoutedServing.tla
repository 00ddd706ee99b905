--------------------------- MODULE MCRoutedServing ---------------------------
(***************************************************************************)
(* RoutedServing for TLC.                                                  *)
(***************************************************************************)
EXTENDS RoutedServing

(* Output lengths: one request asks for no token, the others for two.        *)
MixedOutput == [r \in Requests |-> IF r = 2 THEN 0 ELSE 2]

(* A full hit in a slow tier and a short hit with little room, besides none. *)
TwoAnswers == {[matched |-> 3, cost |-> 2, free |-> 3], [matched |-> 2, cost |-> 0, free |-> 0]}

TwoPrefill == <<"p1", "p2">>
TwoDecode == <<"d1", "d2">>
=============================================================================
