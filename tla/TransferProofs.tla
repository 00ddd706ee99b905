---------------------------- MODULE TransferProofs ----------------------------
(***************************************************************************)
(* The lane model serialises transfers, for any set of nodes and any       *)
(* costs.  LanesSerialize speaks of the whole history; BacklogCovers is    *)
(* what makes it inductive, since a new transfer is compared with the two  *)
(* lane times only.                                                        *)
(***************************************************************************)
EXTENDS TransferClient, TLAPS

LaneInv == ClientTypeOK /\ BacklogCovers /\ LanesSerialize

(* The clock of the event loop only touches `clock`.                         *)
LEMMA AdvancePreserves ==
  ASSUME LaneInv, NEW t \in Nat, Advance(t)
  PROVE  LaneInv'
BY DEF LaneInv, ClientTypeOK, BacklogCovers, LanesSerialize, SharesLane, Advance, laneVars

(* start_time of request_transfer is a time not before the call and, with    *)
(* lanes, not before either lane is free.                                    *)
LEMMA StartWaits ==
  ASSUME ClientTypeOK, NEW src \in Nodes, NEW dst \in Nodes
  PROVE  /\ TransferStart(src, dst, clock) \in Nat
         /\ TransferStart(src, dst, clock) >= clock
         /\ PerNodeLane => /\ TransferStart(src, dst, clock) >= egressAvailableAt[src]
                           /\ TransferStart(src, dst, clock) >= ingressAvailableAt[dst]
BY DEF ClientTypeOK, TransferStart, Later

(* One request_transfer call keeps the lane times above every transfer       *)
(* granted on them and starts after all of those.                            *)
LEMMA RequestPreserves ==
  ASSUME LaneInv, NEW src \in Nodes, NEW dst \in Nodes, NEW cost \in Costs,
         Request(src, dst, cost)
  PROVE  LaneInv'
<1> DEFINE start == TransferStart(src, dst, clock)
           new == [src |-> src, dst |-> dst, asked |-> clock,
                   start |-> start, finish |-> start + cost]
<1>1. /\ start \in Nat /\ cost \in Nat
      /\ PerNodeLane => start >= egressAvailableAt[src] /\ start >= ingressAvailableAt[dst]
  BY StartWaits, CostAssumption DEF LaneInv
<1>2. /\ granted \in Seq(Transfer) /\ clock \in Nat
      /\ egressAvailableAt \in [Nodes -> Nat] /\ ingressAvailableAt \in [Nodes -> Nat]
  BY DEF LaneInv, ClientTypeOK
<1>3. /\ granted' = Append(granted, new) /\ clock' = clock
      /\ PerNodeLane =>
           /\ egressAvailableAt' = [egressAvailableAt EXCEPT ![src] = start + cost]
           /\ ingressAvailableAt' = [ingressAvailableAt EXCEPT ![dst] = start + cost]
      /\ ~PerNodeLane => UNCHANGED laneVars
  BY DEF Request, RequestTransfer
<1>4. /\ new \in Transfer
      /\ new.src = src /\ new.dst = dst /\ new.start = start /\ new.finish = start + cost
  BY <1>1, <1>2 DEF Transfer
<1> HIDE DEF start, new
<1>5. ClientTypeOK'
  <2>1. granted' \in Seq(Transfer)
    BY <1>2, <1>3, <1>4
  <2>2. CASE PerNodeLane
    <3>1. start + cost \in Nat
      BY <1>1
    <3> QED
      BY <1>2, <1>3, <2>1, <2>2, <3>1 DEF ClientTypeOK
  <2>3. CASE ~PerNodeLane
    BY <1>2, <1>3, <2>1, <2>3 DEF ClientTypeOK, laneVars
  <2> QED
    BY <2>2, <2>3
<1>6. /\ DOMAIN granted' = 1..(Len(granted) + 1) /\ DOMAIN granted = 1..Len(granted)
      /\ Len(granted) \in Nat
      /\ granted'[Len(granted) + 1] = new
      /\ \A i \in 1..Len(granted) : granted'[i] = granted[i] /\ granted[i] \in Transfer
  BY <1>2, <1>3, <1>4
<1>7. BacklogCovers'
  <2> SUFFICES ASSUME PerNodeLane, NEW i \in 1..(Len(granted) + 1)
               PROVE  /\ granted'[i].finish <= egressAvailableAt'[granted'[i].src]
                      /\ granted'[i].finish <= ingressAvailableAt'[granted'[i].dst]
    BY <1>6 DEF BacklogCovers
  <2>1. /\ egressAvailableAt' = [egressAvailableAt EXCEPT ![src] = start + cost]
        /\ ingressAvailableAt' = [ingressAvailableAt EXCEPT ![dst] = start + cost]
    BY <1>3
  <2>2. CASE i = Len(granted) + 1
    BY <2>1, <2>2, <1>1, <1>2, <1>4, <1>6
  <2>3. CASE i \in 1..Len(granted)
    <3>1. /\ granted[i].finish <= egressAvailableAt[granted[i].src]
          /\ granted[i].finish <= ingressAvailableAt[granted[i].dst]
      BY <2>3, <1>6 DEF LaneInv, BacklogCovers
    <3>2. /\ granted[i].src \in Nodes /\ granted[i].dst \in Nodes
          /\ granted[i].finish \in Nat
      BY <2>3, <1>6 DEF Transfer
    <3>3. /\ start \in Nat /\ cost \in Nat
          /\ start >= egressAvailableAt[src] /\ start >= ingressAvailableAt[dst]
      BY <1>1
    <3>4. \A n \in Nodes : /\ egressAvailableAt'[n] >= egressAvailableAt[n]
                           /\ egressAvailableAt'[n] \in Nat /\ egressAvailableAt[n] \in Nat
      BY <1>2, <2>1, <3>3
    <3>5. \A n \in Nodes : /\ ingressAvailableAt'[n] >= ingressAvailableAt[n]
                           /\ ingressAvailableAt'[n] \in Nat /\ ingressAvailableAt[n] \in Nat
      BY <1>2, <2>1, <3>3
    <3>6. granted'[i] = granted[i]
      BY <2>3, <1>6
    <3> QED
      BY <3>1, <3>2, <3>4, <3>5, <3>6
  <2> QED
    BY <2>2, <2>3, <1>6
<1>8. LanesSerialize'
  <2> SUFFICES ASSUME PerNodeLane,
                      NEW i \in 1..(Len(granted) + 1), NEW j \in 1..(Len(granted) + 1),
                      i < j, SharesLane(granted'[i], granted'[j])
               PROVE  granted'[i].finish <= granted'[j].start
    BY <1>6 DEF LanesSerialize, SharesLane
  <2>1. i \in 1..Len(granted)
    BY <1>6
  <2>2. CASE j = Len(granted) + 1
    <3>1. /\ granted[i].finish <= egressAvailableAt[granted[i].src]
          /\ granted[i].finish <= ingressAvailableAt[granted[i].dst]
      BY <2>1, <1>6 DEF LaneInv, BacklogCovers
    <3>2. granted[i].src = src \/ granted[i].dst = dst
      BY <2>1, <2>2, <1>4, <1>6 DEF SharesLane
    <3>3. granted[i].finish \in Nat
      BY <2>1, <1>6 DEF Transfer
    <3>4. granted'[i] = granted[i] /\ granted'[j].start = start
      BY <2>1, <2>2, <1>4, <1>6
    <3>5. /\ egressAvailableAt[src] \in Nat /\ ingressAvailableAt[dst] \in Nat
      BY <1>2
    <3> QED
      BY <3>1, <3>2, <3>3, <3>4, <3>5, <1>1
  <2>3. CASE j \in 1..Len(granted)
    BY <2>1, <2>3, <1>6 DEF LaneInv, LanesSerialize, SharesLane
  <2> QED
    BY <2>2, <2>3, <1>6
<1> QED
  BY <1>5, <1>7, <1>8 DEF LaneInv

(* The lane invariant holds at the start and every step preserves it.        *)
LEMMA LaneInvInductive ==
  /\ ClientInit => LaneInv
  /\ LaneInv /\ [ClientNext]_clientVars => LaneInv'
<1>1. ClientInit => LaneInv
  BY DEF ClientInit, LaneInit, LaneInv, ClientTypeOK, BacklogCovers, LanesSerialize
<1>2. LaneInv /\ [ClientNext]_clientVars => LaneInv'
  <2> SUFFICES ASSUME LaneInv, [ClientNext]_clientVars
               PROVE  LaneInv'
    OBVIOUS
  <2>1. ASSUME NEW t \in Nat, Advance(t) PROVE LaneInv'
    BY <2>1, AdvancePreserves
  <2>2. ASSUME NEW src \in Nodes, NEW dst \in Nodes, NEW cost \in Costs,
               Request(src, dst, cost)
        PROVE  LaneInv'
    BY <2>2, RequestPreserves
  <2>3. CASE UNCHANGED clientVars
    BY <2>3 DEF LaneInv, ClientTypeOK, BacklogCovers, LanesSerialize, SharesLane,
                clientVars, laneVars
  <2> QED
    BY <2>1, <2>2, <2>3 DEF ClientNext
<1> QED
  BY <1>1, <1>2

(* Transfers that share a sender or a receiver never overlap, and are served *)
(* in the order of the request_transfer calls.                               *)
THEOREM LanesSerializeAlways == ClientSpec => []LanesSerialize
<1>1. LaneInv => LanesSerialize
  BY DEF LaneInv
<1> QED
  BY LaneInvInductive, <1>1, PTL DEF ClientSpec

(* What peek_backlog answers is never earlier than the end of a transfer on  *)
(* the lane: a scheduler that reads it never underestimates the wait.        *)
THEOREM BacklogCoversAlways == ClientSpec => []BacklogCovers
<1>1. LaneInv => BacklogCovers
  BY DEF LaneInv
<1> QED
  BY LaneInvInductive, <1>1, PTL DEF ClientSpec

(* Lanes, clock and history of the transfer model keep their types.          *)
THEOREM ClientTypeCorrect == ClientSpec => []ClientTypeOK
<1>1. LaneInv => ClientTypeOK
  BY DEF LaneInv
<1> QED
  BY LaneInvInductive, <1>1, PTL DEF ClientSpec
=============================================================================
