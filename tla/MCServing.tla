------------------------------ MODULE MCServing ------------------------------
(***************************************************************************)
(* Serving for TLC.  Nodes are strings, requests are numbered.             *)
(***************************************************************************)
EXTENDS Serving

(* Output lengths: one request asks for no token, the others for two.        *)
MixedOutput == [r \in Requests |-> IF r = 2 THEN 0 ELSE 2]
=============================================================================
