---------------------------- MODULE TransferClient ----------------------------
(***************************************************************************)
(* The lane model under an arbitrary caller: transfers between any two     *)
(* nodes, of any cost, requested at times that never go back, as the event *)
(* loop guarantees.                                                        *)
(***************************************************************************)
EXTENDS TransferModel

CONSTANTS
  Costs           (* Service costs in milliseconds.                          *)

ASSUME CostAssumption == Costs \subseteq Nat

VARIABLES
  clock,          (* engine.now().                                           *)
  granted         (* The answers so far, in the order of the requests.       *)

clientVars == <<laneVars, clock, granted>>

Transfer == [src: Nodes, dst: Nodes, asked: Nat, start: Nat, finish: Nat]

ClientInit == LaneInit /\ clock = 0 /\ granted = <<>>

(* The event loop moves on to an event at time t.                            *)
Advance(t) ==
  /\ t >= clock
  /\ clock' = t
  /\ UNCHANGED <<laneVars, granted>>

Request(src, dst, cost) ==
  LET start == TransferStart(src, dst, clock)
  IN /\ RequestTransfer(src, dst, clock, cost)
     /\ granted' = Append(granted, [src |-> src, dst |-> dst, asked |-> clock,
                                    start |-> start, finish |-> start + cost])
     /\ UNCHANGED clock

ClientNext ==
  \/ \E t \in Nat : Advance(t)
  \/ \E src, dst \in Nodes, cost \in Costs : Request(src, dst, cost)

ClientSpec == ClientInit /\ [][ClientNext]_clientVars

-----------------------------------------------------------------------------
(* Properties.                                                               *)

(* Type invariant: times are natural numbers.                                *)
ClientTypeOK ==
  /\ egressAvailableAt \in [Nodes -> Nat]
  /\ ingressAvailableAt \in [Nodes -> Nat]
  /\ clock \in Nat
  /\ granted \in Seq(Transfer)

SharesLane(a, b) == a.src = b.src \/ a.dst = b.dst

(* Under per_node_lane two transfers with the same sender or the same        *)
(* receiver never overlap, whatever third nodes they share lanes with, and   *)
(* the lanes serve them in the order of the request_transfer calls.          *)
LanesSerialize ==
  PerNodeLane =>
    \A i, j \in DOMAIN granted :
      i < j /\ SharesLane(granted[i], granted[j]) => granted[i].finish <= granted[j].start

(* peek_backlog covers every transfer granted on the lane: this is what lets *)
(* the next request_transfer look at two numbers instead of the history.     *)
BacklogCovers ==
  PerNodeLane =>
    \A i \in DOMAIN granted :
      /\ granted[i].finish <= egressAvailableAt[granted[i].src]
      /\ granted[i].finish <= ingressAvailableAt[granted[i].dst]
=============================================================================
