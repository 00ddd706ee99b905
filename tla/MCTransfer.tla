------------------------------ MODULE MCTransfer ------------------------------
(***************************************************************************)
(* TransferClient for TLC, with a short history and a bounded clock.       *)
(***************************************************************************)
EXTENDS TransferClient

CONSTANTS
  MaxClock,       (* The clock stops here.                                   *)
  MaxTransfers    (* The length of the history.                              *)

MCClientNext ==
  \/ \E t \in 0..MaxClock : Advance(t)
  \/ /\ Len(granted) < MaxTransfers
     /\ \E src, dst \in Nodes, cost \in Costs : Request(src, dst, cost)

MCClientSpec == ClientInit /\ [][MCClientNext]_clientVars
=============================================================================
