-------------------------- MODULE RequestLifecycle --------------------------
(***************************************************************************)
(* What the cluster promises of a request, without events, queues, batch   *)
(* steps or time: it is refused on arrival, or it gets a slot of a prefill *)
(* node (waiting for it in the order of arrival if there is none), moves   *)
(* to a decode node, is dropped there if the node is full, and otherwise   *)
(* is answered token by token and ends when its last token is out.         *)
(* Serving implements this module (ImplementsLifecycle).                   *)
(***************************************************************************)
EXTENDS Integers, FiniteSets, FiniteSetsExt

CONSTANTS
  Requests,                   (* Numbered in the order of arrival.           *)
  ExpectedOutput,             (* Tokens each request asks for.               *)
  PrefillNodes, DecodeNodes,
  NodeCapacity                (* Slots per node.                             *)

VARIABLES
  stage,      (* "new", "waiting", "prefill", "transfer", "decode", "done"   *)
              (* or "rejected".                                              *)
  route,      (* The nodes of a request that is in the cluster.              *)
  sent        (* Tokens of the answer that are out.                          *)

lifeVars == <<stage, route, sent>>

NoRoute == <<"none", "none">>

LifeInit ==
  /\ stage = [r \in Requests |-> "new"]
  /\ route = [r \in Requests |-> NoRoute]
  /\ sent = [r \in Requests |-> 0]

(* The requests that hold a slot of a prefill or of a decode node, and those *)
(* that wait for one.                                                        *)
OnPrefill(p) == {r \in Requests : stage[r] = "prefill" /\ route[r][1] = p}
OnDecode(d) == {r \in Requests : stage[r] = "decode" /\ route[r][2] = d}
WaitingFor(p) == {r \in Requests : stage[r] = "waiting" /\ route[r][1] = p}

IsNext(r) == stage[r] = "new" /\ \A q \in Requests : q < r => stage[q] # "new"

Refuse(r) ==
  /\ IsNext(r)
  /\ stage' = [stage EXCEPT ![r] = "rejected"]
  /\ UNCHANGED <<route, sent>>

Accept(r, p, d) ==
  /\ IsNext(r)
  /\ stage' = [stage EXCEPT ![r] =
                 IF Cardinality(OnPrefill(p)) < NodeCapacity THEN "prefill" ELSE "waiting"]
  /\ route' = [route EXCEPT ![r] = <<p, d>>]
  /\ UNCHANGED sent

(* The slot goes to the request that has waited longest.                     *)
FinishPrefill(r) ==
  LET waiting == WaitingFor(route[r][1])
  IN /\ stage[r] = "prefill"
     /\ stage' = [q \in Requests |->
                    IF q = r THEN "transfer"
                    ELSE IF q \in waiting /\ q = Min(waiting) THEN "prefill"
                    ELSE stage[q]]
     /\ UNCHANGED <<route, sent>>

StartDecoding(r) ==
  /\ stage[r] = "transfer"
  /\ Cardinality(OnDecode(route[r][2])) < NodeCapacity
  /\ stage' = [stage EXCEPT ![r] = "decode"]
  /\ UNCHANGED <<route, sent>>

Drop(r) ==
  /\ stage[r] = "transfer"
  /\ Cardinality(OnDecode(route[r][2])) >= NodeCapacity
  /\ stage' = [stage EXCEPT ![r] = "rejected"]
  /\ route' = [route EXCEPT ![r] = NoRoute]
  /\ UNCHANGED sent

SendToken(r) ==
  /\ stage[r] = "decode" /\ sent[r] < ExpectedOutput[r]
  /\ sent' = [sent EXCEPT ![r] = @ + 1]
  /\ UNCHANGED <<stage, route>>

Finish(r) ==
  /\ stage[r] = "decode" /\ sent[r] = ExpectedOutput[r]
  /\ stage' = [stage EXCEPT ![r] = "done"]
  /\ route' = [route EXCEPT ![r] = NoRoute]
  /\ UNCHANGED sent

LifeNext ==
  \E r \in Requests :
    \/ Refuse(r) \/ FinishPrefill(r) \/ StartDecoding(r) \/ Drop(r) \/ SendToken(r) \/ Finish(r)
    \/ \E p \in PrefillNodes, d \in DecodeNodes : Accept(r, p, d)

LifeSpec == LifeInit /\ [][LifeNext]_lifeVars
=============================================================================
