------------------------------ MODULE MCCluster ------------------------------
(***************************************************************************)
(* Cluster for TLC.                                                        *)
(***************************************************************************)
EXTENDS Cluster

(* Output lengths, no token among them.                                      *)
MixedOutput == [r \in Requests |-> CASE r = 4 -> 3 [] r = 2 -> 0 [] OTHER -> 2]

(* One-token blocks: prompts that share their first block, and one apart.    *)
SomePrompts == {<<"a", "b">>, <<"a", "c">>, <<"d", "e">>}
=============================================================================
