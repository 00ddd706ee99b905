---------------------------- MODULE RoutedServing ----------------------------
(***************************************************************************)
(* Serving under the real scheduling policies: on_arrive takes the nodes   *)
(* that the policy of the run chooses, or its rejection, and the decision  *)
(* carries the policy's estimates.                                         *)
(*                                                                         *)
(* The cache answers for a request as before, with any of the Answers, but *)
(* only once something has been materialized on the node; and a request    *)
(* that has shared its nodes with no other one finds at its prefill what   *)
(* it was promised on arrival, since only materialize_request changes what *)
(* a lookup finds.                                                         *)
(***************************************************************************)
EXTENDS Policies

CONSTANTS
  Answers       (* What lookups may say of a request: records of matched,    *)
                (* cost and free.                                            *)

Cold == [matched |-> 0, cost |-> 0, free |-> PromptLen \div BlockSize]

ASSUME AnswerAssumption ==
  /\ Answers \subseteq [matched : 0..PromptLen, cost : Nat, free : Nat]
  /\ {PromptLen - a.matched : a \in Answers \cup {Cold}} = Uncached

VARIABLES
  policy,       (* SchedulerConfig.policy.                                   *)
  cursors,      (* _prefill_cursor and _decode_cursor of RoundRobin.         *)
  warm,         (* The decode nodes something was materialized on.           *)
  forecast      (* Per request of the cluster: its arrival, the TTFT its     *)
                (* decision carries, the uncached tokens it was promised,    *)
                (* and whether it has been alone on its nodes.               *)

routedVars == <<vars, policy, cursors, warm, forecast>>

Names == {"round_robin", "least_loaded", "prefix_greedy", "e2_policy", "conductor"}
NoForecast == [arrived |-> 0, ttft |-> 0, uncached |-> 0, alone |-> FALSE]

RoutedInit ==
  /\ Init
  /\ policy \in Names
  /\ cursors = [prefill |-> 0, decode |-> 0]
  /\ warm = {}
  /\ forecast = [r \in Requests |-> NoForecast]

-----------------------------------------------------------------------------
(* schedule().                                                               *)

(* Mutant of Cursors: only a request that gets a slot moves the cursors.     *)
CursorsIfAdmitted(p) ==
  IF HasRoom(nodes[p])
  THEN [prefill |-> cursors.prefill + 1, decode |-> cursors.decode + 1] ELSE cursors

(* The cursors after a call that took prefill node p.                        *)
Cursors(p) == [prefill |-> cursors.prefill + 1, decode |-> cursors.decode + 1]

ChosenPrefill ==
  IF policy = "round_robin" THEN AtCursor(PrefillOrder, cursors.prefill)
  ELSE LeastLoaded(PrefillOrder, PrefillNodes)

ChosenDecode(lookups, t) ==
  CASE policy = "round_robin" -> AtCursor(DecodeOrder, cursors.decode)
    [] policy = "least_loaded" -> LeastLoaded(DecodeOrder, DecodeNodes)
    [] policy = "prefix_greedy" -> GreedyDecode(lookups)
    [] policy = "e2_policy" -> E2Decode(ChosenPrefill, lookups, t)
    [] policy = "conductor" -> ConductorDecode(lookups)

(* What lookup_all may say.                                                  *)
Lookups ==
  {l \in [DecodeNodes -> Answers \cup {Cold}] : \A d \in DecodeNodes \ warm : l[d] = Cold}

-----------------------------------------------------------------------------
(* The events.                                                               *)

(* Another request of the cluster shares a node with r.                      *)
SharesNode(r) ==
  \E q \in Decided \ {r} : \/ decisions[q].prefill = decisions[r].prefill
                           \/ decisions[q].decode = decisions[r].decode

(* After a step with the forecasts f: requests that have left are forgotten. *)
Observed(f) ==
  forecast' = [r \in Requests |->
                 IF r \in Decided' THEN [f[r] EXCEPT !.alone = @ /\ ~SharesNode(r)']
                 ELSE NoForecast]

Route ==
  /\ Pop("REQUEST_ARRIVE")
  /\ \E lookups \in Lookups :
    LET t == Head(events).time
        p == ChosenPrefill
        d == ChosenDecode(lookups, t)
    IN /\ policy = "conductor" => ~SloExceeded(p, d, lookups[d], t)
       /\ ArriveRouted(p, d)
       /\ nodes'[p].uncached[Req] = PromptLen - lookups[d].matched
       /\ cursors' = IF policy = "round_robin" THEN Cursors(p) ELSE cursors
       /\ Observed([forecast EXCEPT ![Req] =
                      [arrived |-> t, ttft |-> EstTtft(p, d, lookups[d], t),
                       uncached |-> PromptLen - lookups[d].matched, alone |-> TRUE]])
       /\ UNCHANGED <<policy, warm>>

(* The Conductor's early rejection.                                          *)
RouteRejected ==
  /\ policy = "conductor"
  /\ ArriveRejected
  /\ \E lookups \in Lookups :
       SloExceeded(ChosenPrefill, ConductorDecode(lookups),
                   lookups[ConductorDecode(lookups)], Head(events).time)
  /\ UNCHANGED <<policy, cursors, warm, forecast>>

PrefillStart ==
  /\ PrefillStartCached \/ PrefillStartChunked
  /\ forecast[Req].alone => nodes'[Node].uncached[Req] = forecast[Req].uncached
  /\ Observed(forecast)
  /\ UNCHANGED <<policy, cursors, warm>>

Materialize ==
  /\ TransferAdmitted
  /\ warm' = warm \cup {decisions[Req].decode}
  /\ Observed(forecast)
  /\ UNCHANGED <<policy, cursors>>

Others ==
  /\ \/ Scheduled \/ Rejected \/ PrefillComplete \/ TransferStarts \/ TransferRejected
     \/ BatchStep \/ TokenGenerated \/ DecodeComplete
  /\ Observed(forecast)
  /\ UNCHANGED <<policy, cursors, warm>>

RoutedNext == Route \/ RouteRejected \/ PrefillStart \/ Materialize \/ Others

RoutedSpec == RoutedInit /\ [][RoutedNext]_routedVars

-----------------------------------------------------------------------------
(* Properties.                                                               *)

(* compute_est_ttft errs on the safe side for a request that shares neither  *)
(* node with another one from its arrival to its first token, so that the    *)
(* Conductor's gate keeps its SLO: partial chunks, the lanes, the first      *)
(* decode step and what earlier requests left behind are all covered.        *)
AloneMeetsEstimate ==
  \A i \in EventsOf("TOKEN_GENERATED") :
    events[i].step = 0 /\ forecast[events[i].req].alone =>
      events[i].time - forecast[events[i].req].arrived <= forecast[events[i].req].ttft

(* The gate recovers: when no request is left in the cluster, estimates are  *)
(* those of a fresh cluster, so nothing that was accepted at the start is    *)
(* rejected for backlog or load that is gone.                                *)
GateRecovers ==
  Decided = {} =>
    \A p \in PrefillNodes, d \in DecodeNodes, hit \in Answers :
      EstTtft(p, d, hit, now)
        = EstimatePrefillTime(PromptLen - hit.matched, 1) + TransferCost + hit.cost
            + EstimateDecodeTime(1)

(* RoundRobin rotates through each pool request by request, whatever the     *)
(* load, so two requests of the cluster share a node only a full turn apart. *)
RotationIsExact ==
  policy = "round_robin" =>
    \A q, r \in Decided :
      /\ decisions[q].prefill = decisions[r].prefill <=> (r - q) % Cardinality(PrefillNodes) = 0
      /\ decisions[q].decode = decisions[r].decode <=> (r - q) % Cardinality(DecodeNodes) = 0

(* Under the load-aware policies an arrival queues on a prefill node only    *)
(* when every prefill node is full, although completions change the loads    *)
(* between two arrivals.                                                     *)
NoNeedlessWait ==
  [][policy # "round_robin" =>
       \A p \in PrefillNodes :
         Len(nodes'[p].queue) > Len(nodes[p].queue) =>
           \A q \in PrefillNodes : ~HasRoom(nodes[q])]_routedVars

(* Decode node d is no worse than c for the request at hand in anything that *)
(* a policy looks at, and is less loaded or saves it a prefill chunk.        *)
Chunks(hit) == (PromptLen - hit.matched + ChunkSize - 1) \div ChunkSize
Better(d, c, lookups) ==
  /\ lookups[d].matched >= lookups[c].matched /\ lookups[d].cost <= lookups[c].cost
  /\ lookups[d].free >= lookups[c].free
  /\ Len(nodes[d].running) <= Len(nodes[c].running)
  /\ Cardinality(nodes[d].decoding) <= Cardinality(nodes[c].decoding)
  /\ QueueWaitTime(nodes[d]) <= QueueWaitTime(nodes[c])
  /\ ingressAvailableAt[d] <= ingressAvailableAt[c]
  /\ \/ Len(nodes[d].running) < Len(nodes[c].running)
     \/ Chunks(lookups[d]) < Chunks(lookups[c])

(* The weighted scores of the cache-aware policies never pass over a better  *)
(* decode node, whatever mix of load, backlog and hits the nodes have come   *)
(* to when a request arrives.  (PrefixGreedy promises nothing for hits below *)
(* its threshold.)                                                           *)
NeverTheWorse ==
  (events # <<>> /\ Head(events).type = "REQUEST_ARRIVE" /\ policy \in {"prefix_greedy", "e2_policy", "conductor"})
    => \A lookups \in Lookups, d \in DecodeNodes :
         \/ ~Better(d, ChosenDecode(lookups, Head(events).time), lookups)
         \/ /\ policy = "prefix_greedy" /\ 100 * lookups[d].matched < MinHitPercent * PromptLen
            /\ Len(nodes[d].running)
                 >= Len(nodes[ChosenDecode(lookups, Head(events).time)].running)
=============================================================================
