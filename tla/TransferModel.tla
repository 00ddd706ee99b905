---------------------------- MODULE TransferModel ----------------------------
(***************************************************************************)
(* KV transfers between nodes (simulator/transfer_model.py): one egress    *)
(* and one ingress lane per node, each known by the time it becomes free.  *)
(* Time is in whole milliseconds.                                          *)
(***************************************************************************)
EXTENDS Integers, Sequences

CONSTANTS
  Nodes,          (* Node ids.                                               *)
  PerNodeLane     (* bandwidth.contention_model == "per_node_lane" (else     *)
                  (* "none": NoopTransferModel).                             *)

ASSUME LaneAssumption == PerNodeLane \in BOOLEAN

VARIABLES
  egressAvailableAt,    (* _egress_available_at, 0 for a missing key.        *)
  ingressAvailableAt    (* _ingress_available_at.                            *)

laneVars == <<egressAvailableAt, ingressAvailableAt>>

LaneInit ==
  /\ egressAvailableAt = [n \in Nodes |-> 0]
  /\ ingressAvailableAt = [n \in Nodes |-> 0]

Later(s, t) == IF s >= t THEN s ELSE t

(* Mutant of TransferStart: the ingress lane of the receiver is not waited   *)
(* for.                                                                      *)
TransferStartEgressOnly(src, dst, t) ==
  IF PerNodeLane THEN Later(t, egressAvailableAt[src]) ELSE t

(* start_time of request_transfer(src, dst, t, _).                           *)
TransferStart(src, dst, t) ==
  IF PerNodeLane
  THEN Later(t, Later(egressAvailableAt[src], ingressAvailableAt[dst]))
  ELSE t

(* Mutant of RequestTransfer: the service cost with the wrong sign.          *)
RequestTransferBackwards(src, dst, t, cost) ==
  IF PerNodeLane
  THEN LET finish == TransferStart(src, dst, t) - cost
       IN /\ egressAvailableAt' = [egressAvailableAt EXCEPT ![src] = finish]
          /\ ingressAvailableAt' = [ingressAvailableAt EXCEPT ![dst] = finish]
  ELSE UNCHANGED laneVars

(* request_transfer: both lanes are taken until the transfer finishes.       *)
RequestTransfer(src, dst, t, cost) ==
  IF PerNodeLane
  THEN LET finish == TransferStart(src, dst, t) + cost
       IN /\ egressAvailableAt' = [egressAvailableAt EXCEPT ![src] = finish]
          /\ ingressAvailableAt' = [ingressAvailableAt EXCEPT ![dst] = finish]
  ELSE UNCHANGED laneVars
=============================================================================
