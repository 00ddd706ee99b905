------------------------------- MODULE Serving -------------------------------
(***************************************************************************)
(* The life of requests in a cluster with separate prefill and decode      *)
(* nodes: the event handlers of _wire_simulator (cli.py) on the event      *)
(* loop, the engine nodes, the KV transfer lanes and the metrics.          *)
(*                                                                         *)
(* The loop is single threaded, so an action is one event: it is popped,   *)
(* the handlers registered for its type run in order (cli, collector,      *)
(* generator) and the events they schedule go into the queue.              *)
(*                                                                         *)
(* Two parts are seen through what they answer: the scheduling policy (any *)
(* node of each pool, or a rejection) and the cache of the decode node     *)
(* (any number of uncached tokens, a block table or a MemoryError); the    *)
(* cache itself is module CacheManager.                                    *)
(***************************************************************************)
EXTENDS EngineNode, EventLoop, TransferModel

CONSTANTS
  PrefillNodes, DecodeNodes,  (* The two pools, node ids.                    *)
  Uncached,                   (* The uncached token counts lookups leave.    *)
  Gaps,                       (* Times between two arrivals.                 *)
  TransferCost                (* Service cost of a KV transfer.              *)

ASSUME ServingAssumption ==
  /\ Nodes = PrefillNodes \cup DecodeNodes /\ "none" \notin Nodes
  /\ PrefillNodes \cap DecodeNodes = {}
  /\ Uncached \subseteq Nat /\ Gaps \subseteq Nat /\ TransferCost \in Nat
  /\ IsFiniteSet(Requests) /\ Requests # {} /\ Requests = 1..Cardinality(Requests)

VARIABLES
  now,          (* _current_time.                                            *)
  events,       (* The event queue.                                          *)
  nodes,        (* The node values.                                          *)
  decisions,    (* _decisions (and _requests, written with it): the nodes    *)
                (* of each request and the time its prefill slot was         *)
                (* estimated to be free.                                     *)
  pending,      (* _pending_transfers, by request: each is transferred once. *)
  tables,       (* The requests with a block table in the cache.             *)
  metrics       (* The collector.                                            *)

vars == <<now, events, nodes, decisions, pending, tables, metrics, laneVars>>

M == INSTANCE Metrics

NoDecision == [prefill |-> "none", decode |-> "none", slotBy |-> 0]
Decided == {r \in Requests : decisions[r] # NoDecision}

Ev(time, type, r, n) == [time |-> time, type |-> type, req |-> r, node |-> n, step |-> 0]
Token(time, r, step) ==
  [time |-> time, type |-> "TOKEN_GENERATED", req |-> r, node |-> "none", step |-> step]

(* The generator schedules the first arrival, each arrival the next one.     *)
Init ==
  /\ LaneInit
  /\ now = 0
  /\ events \in {<<Ev(t, "REQUEST_ARRIVE", 1, "none")>> : t \in Gaps}
  /\ nodes = [n \in Nodes |-> EmptyNode]
  /\ decisions = [r \in Requests |-> NoDecision]
  /\ pending = {}
  /\ tables = {}
  /\ metrics = M!NoMetrics

-----------------------------------------------------------------------------
(* Helpers.                                                                  *)

(* The loop pops an event of this type.                                      *)
Pop(type) ==
  /\ events # <<>>
  /\ Head(events).type = type
  /\ now' = Head(events).time

Req == Head(events).req
Node == Head(events).node

Handle(es) == events' = ScheduleAll(Tail(events), es)

(* _wake_batch_step for a node value N of node n: the step to schedule, if   *)
(* there is work and none is in flight, and the node with the flag set.      *)
MustWake(N) == HasWork(N) /\ ~N.inFlight

(* Mutant of WakeEvents: a wake-up whether or not a step is in flight.       *)
WakeEventsAlways(N, n, time) ==
  IF HasWork(N) THEN <<Ev(time, "DECODE_BATCH_STEP", 0, n)>> ELSE <<>>

WakeEvents(N, n, time) ==
  IF MustWake(N) THEN <<Ev(time, "DECODE_BATCH_STEP", 0, n)>> ELSE <<>>

Woken(N) == [N EXCEPT !.inFlight = @ \/ HasWork(N)]

(* _on_arrive_chain: the next arrival, while the workload lasts.             *)
NextArrival(gap) ==
  IF Req + 1 \in Requests
  THEN <<Ev(now' + gap, "REQUEST_ARRIVE", Req + 1, "none")>> ELSE <<>>

-----------------------------------------------------------------------------
(* on_arrive.                                                                *)

ArriveRejected ==
  /\ Pop("REQUEST_ARRIVE")
  /\ \E gap \in Gaps :
       Handle(<<Ev(now', "REQUEST_REJECTED", Req, "none")>> \o NextArrival(gap))
  /\ metrics' = M!CountArrive(metrics, Req, now')
  /\ UNCHANGED <<nodes, decisions, pending, tables, laneVars>>

(* The prefill node admits or queues the request.  The estimate in the       *)
(* decision was taken before that.                                           *)
ArriveRouted(p, d) ==
  /\ Pop("REQUEST_ARRIVE")
  /\ \E uncached \in Uncached, gap \in Gaps :
       /\ nodes' = [nodes EXCEPT ![p] = Admit(@, Req, uncached)]
       /\ Handle(<<Ev(now', "SCHEDULED", Req, "none")>>
                   \o (IF HasRoom(nodes[p])
                       THEN <<Ev(now', "PREFILL_START", Req, p)>> ELSE <<>>)
                   \o NextArrival(gap))
  /\ decisions' = [decisions EXCEPT
       ![Req] = [prefill |-> p, decode |-> d, slotBy |-> now' + QueueWaitTime(nodes[p])]]
  /\ metrics' = M!CountArrive(metrics, Req, now')
  /\ UNCHANGED <<pending, tables, laneVars>>

(* SCHEDULED only feeds cache-hit statistics.                                *)
Scheduled ==
  /\ Pop("SCHEDULED")
  /\ Handle(<<>>)
  /\ UNCHANGED <<nodes, decisions, pending, tables, metrics, laneVars>>

Rejected ==
  /\ Pop("REQUEST_REJECTED")
  /\ Handle(<<>>)
  /\ metrics' = M!CountRejected(metrics, Req)
  /\ UNCHANGED <<nodes, decisions, pending, tables, laneVars>>

-----------------------------------------------------------------------------
(* on_prefill_start: the cache is asked again.                               *)

PrefillStartCached ==
  /\ Pop("PREFILL_START")
  /\ 0 \in Uncached
  /\ nodes' = [nodes EXCEPT ![Node] = MarkPrefillDone(@, Req)]
  /\ Handle(<<Ev(now', "PREFILL_COMPLETE", Req, Node)>>)
  /\ metrics' = M!CountPrefillStart(metrics, Req)
  /\ UNCHANGED <<decisions, pending, tables, laneVars>>

PrefillStartChunked ==
  /\ Pop("PREFILL_START")
  /\ \E uncached \in Uncached \ {0} :
       LET entered == EnterPrefill(nodes[Node], Req, uncached)
       IN /\ nodes' = [nodes EXCEPT ![Node] = Woken(entered)]
          /\ Handle(WakeEvents(entered, Node, now'))
  /\ metrics' = M!CountPrefillStart(metrics, Req)
  /\ UNCHANGED <<decisions, pending, tables, laneVars>>

-----------------------------------------------------------------------------
(* on_prefill_complete: free the slot, promote, ask for the KV transfer.     *)
(* Its early return for a request without a decision is never taken: see     *)
(* OnePlace.                                                                 *)

PrefillComplete ==
  LET d == decisions[Req]
      freed == Complete(nodes[Node], Req)
      promoted == Promoted(nodes[Node])
      start == TransferStart(d.prefill, d.decode, now')
  IN /\ Pop("PREFILL_COMPLETE")
     /\ \E uncached \in Uncached :
          nodes' = [nodes EXCEPT ![Node] =
                      IF promoted = {} THEN freed
                      ELSE InitPromoted(freed, Head(nodes[Node].queue), uncached)]
     /\ RequestTransfer(d.prefill, d.decode, now', TransferCost)
     /\ pending' = pending \cup {Req}
     /\ Handle((IF promoted = {} THEN <<>>
                ELSE <<Ev(now', "PREFILL_START", Head(nodes[Node].queue), Node)>>)
               \o <<Ev(start, "KV_TRANSFER_START", Req, "none"),
                    Ev(start + TransferCost, "KV_TRANSFER_COMPLETE", Req, "none")>>)
     /\ metrics' = M!CountPrefillComplete(metrics, Req)
     /\ UNCHANGED <<decisions, tables>>

TransferStarts ==
  /\ Pop("KV_TRANSFER_START")
  /\ Handle(<<>>)
  /\ metrics' = M!CountTransferStart(metrics, Req)
  /\ UNCHANGED <<nodes, decisions, pending, tables, laneVars>>

-----------------------------------------------------------------------------
(* on_kv_transfer_complete.                                                  *)

(* Mutant of TransferRejected: the decision is not popped.                   *)
TransferRejectedKeepsDecision ==
  /\ Pop("KV_TRANSFER_COMPLETE")
  /\ Req \in pending
  /\ ~HasRoom(nodes[decisions[Req].decode])
  /\ pending' = pending \ {Req}
  /\ Handle(<<Ev(now', "REQUEST_REJECTED", Req, "none")>>)
  /\ metrics' = M!CountTransferComplete(metrics, Req)
  /\ UNCHANGED <<decisions, nodes, tables, laneVars>>

(* The decode node is full: drop the request, its prefill work is lost.      *)
TransferRejected ==
  /\ Pop("KV_TRANSFER_COMPLETE")
  /\ Req \in pending
  /\ ~HasRoom(nodes[decisions[Req].decode])
  /\ pending' = pending \ {Req}
  /\ decisions' = [decisions EXCEPT ![Req] = NoDecision]
  /\ Handle(<<Ev(now', "REQUEST_REJECTED", Req, "none")>>)
  /\ metrics' = M!CountTransferComplete(metrics, Req)
  /\ UNCHANGED <<nodes, tables, laneVars>>

(* Mutant of TransferAdmitted: the capacity of the decode node not checked.  *)
TransferAdmittedUnchecked ==
  LET d == decisions[Req].decode
      started == StartDecode(Admit(nodes[d], Req, 0), Req)
  IN /\ Pop("KV_TRANSFER_COMPLETE")
     /\ Req \in pending
     /\ pending' = pending \ {Req}
     /\ tables' \in {tables, tables \cup {Req}}
     /\ nodes' = [nodes EXCEPT ![d] = Woken(started)]
     /\ Handle(WakeEvents(started, d, now'))
     /\ metrics' = M!CountTransferComplete(metrics, Req)
     /\ UNCHANGED <<decisions, laneVars>>

(* Materialize the block table (which may fail with MemoryError: the request *)
(* goes on without), admit, start decoding and wake the node.                *)
TransferAdmitted ==
  LET d == decisions[Req].decode
      started == StartDecode(Admit(nodes[d], Req, 0), Req)
  IN /\ Pop("KV_TRANSFER_COMPLETE")
     /\ Req \in pending
     /\ HasRoom(nodes[d])
     /\ pending' = pending \ {Req}
     /\ tables' \in {tables, tables \cup {Req}}
     /\ nodes' = [nodes EXCEPT ![d] = Woken(started)]
     /\ Handle(WakeEvents(started, d, now'))
     /\ metrics' = M!CountTransferComplete(metrics, Req)
     /\ UNCHANGED <<decisions, laneVars>>

-----------------------------------------------------------------------------
(* on_decode_batch_step, on either kind of node: clear the flag, tick, and   *)
(* schedule the results and the next step for the end of this one.  A node   *)
(* without work, where the handler returns early, would have none of these.  *)
(* The order of the streams of a step (a Python set; those that finish are   *)
(* sorted by id string) is left open: no property depends on it.             *)

BatchStep ==
  LET before == [nodes[Node] EXCEPT !.inFlight = FALSE]
      after == TickBatchStep(before)
      end == now' + StepTime(before)
      streams == SetToSeq(before.decoding)
      finished == SetToSeq(DecodeFinished(before))
      prefilled == SetToSeq(PrefillFinished(before))
  IN /\ Pop("DECODE_BATCH_STEP")
     /\ nodes' = [nodes EXCEPT ![Node] = Woken(after)]
     /\ Handle([i \in DOMAIN prefilled |-> Ev(end, "PREFILL_COMPLETE", prefilled[i], Node)]
                 \o [i \in DOMAIN streams |-> Token(end, streams[i], before.tokens[streams[i]])]
                 \o [i \in DOMAIN finished |-> Ev(end, "DECODE_COMPLETE", finished[i], Node)]
                 \o WakeEvents(after, Node, end))
     /\ metrics' = M!CountBatchStep(metrics, Cardinality(before.decoding))
     /\ UNCHANGED <<decisions, pending, tables, laneVars>>

TokenGenerated ==
  /\ Pop("TOKEN_GENERATED")
  /\ Handle(<<>>)
  /\ metrics' = M!CountToken(metrics, Req, Head(events).step, now')
  /\ UNCHANGED <<nodes, decisions, pending, tables, laneVars>>

(* Mutant of DecodeComplete: release_request forgotten.                      *)
DecodeCompleteKeepsTable ==
  LET done == Complete(nodes[Node], Req)
  IN /\ Pop("DECODE_COMPLETE")
     /\ nodes' = [nodes EXCEPT ![Node] = Woken(done)]
     /\ decisions' = [decisions EXCEPT ![Req] = NoDecision]
     /\ Handle(WakeEvents(done, Node, now'))
     /\ metrics' = M!CountDecodeComplete(metrics, Req, now')
     /\ UNCHANGED <<tables, pending, laneVars>>

(* on_decode_complete.  Nothing is ever promoted on a decode node: see Slots *)
DecodeComplete ==
  LET done == Complete(nodes[Node], Req)
  IN /\ Pop("DECODE_COMPLETE")
     /\ nodes' = [nodes EXCEPT ![Node] = Woken(done)]
     /\ tables' = tables \ {Req}
     /\ decisions' = [decisions EXCEPT ![Req] = NoDecision]
     /\ Handle(WakeEvents(done, Node, now'))
     /\ metrics' = M!CountDecodeComplete(metrics, Req, now')
     /\ UNCHANGED <<pending, laneVars>>

Next ==
  \/ ArriveRejected
  \/ \E p \in PrefillNodes, d \in DecodeNodes : ArriveRouted(p, d)
  \/ Scheduled \/ Rejected
  \/ PrefillStartCached \/ PrefillStartChunked \/ PrefillComplete
  \/ TransferStarts \/ TransferRejected \/ TransferAdmitted
  \/ BatchStep \/ TokenGenerated \/ DecodeComplete

Spec == Init /\ [][Next]_vars

(* run() pops events for as long as there are any.                           *)
FairSpec == Spec /\ WF_vars(Next)

-----------------------------------------------------------------------------
(* Properties.                                                               *)

EventsOf(type) == {i \in DOMAIN events : events[i].type = type}
QueuedFor(r, types) == {i \in DOMAIN events : events[i].req = r /\ events[i].type \in types}
HandedTo(n, types) == {events[i].req : i \in {i \in DOMAIN events :
                                               events[i].type \in types /\ events[i].node = n}}

(* Type invariant of the cluster state; the queue is in order of time.       *)
ServingTypeOK ==
  /\ now \in Nat
  /\ \A i \in DOMAIN events : events[i].time >= now
  /\ \A i, j \in DOMAIN events : i < j => events[i].time <= events[j].time
  /\ pending \subseteq Requests /\ tables \subseteq Requests
  /\ \A r \in Decided : decisions[r].prefill \in PrefillNodes /\ decisions[r].decode \in DecodeNodes
  /\ \A n \in Nodes :
       /\ nodes[n].running \in Seq(Requests) /\ nodes[n].queue \in Seq(Requests)
       /\ nodes[n].tokens \in [Requests -> Nat]
       /\ \A i \in DOMAIN nodes[n].prefill : nodes[n].prefill[i].left > 0

(* The events that carry a request on to its next stage.                     *)
Carriers == {"REQUEST_ARRIVE", "PREFILL_START", "PREFILL_COMPLETE",
             "KV_TRANSFER_COMPLETE", "DECODE_COMPLETE", "REQUEST_REJECTED"}

(* Where a request waits: in the event queue, in the queue, the prefill list *)
(* or the decode batch of a node.                                            *)
Places(r) ==
  ({"event"} \X QueuedFor(r, Carriers))
    \cup ({"queue"} \X {n \in Nodes : r \in ToSet(nodes[n].queue)})
    \cup ({"prefill"} \X {n \in Nodes : r \in Prefilling(nodes[n])})
    \cup ({"decode"} \X {n \in Nodes : r \in nodes[n].decoding})

(* A request is never in two stages at once and never lost: one with a       *)
(* decision waits in exactly one place, one without in at most the event     *)
(* that announces or rejects it.                                             *)
OnePlace ==
  \A r \in Requests :
    IF r \in Decided
    THEN /\ Cardinality(Places(r)) = 1
         /\ QueuedFor(r, {"REQUEST_ARRIVE", "REQUEST_REJECTED"}) = {}
    ELSE /\ Cardinality(Places(r)) <= 1
         /\ Places(r) = {"event"} \X QueuedFor(r, {"REQUEST_ARRIVE", "REQUEST_REJECTED"})

(* No lost wake-up and no double schedule: a node has a DECODE_BATCH_STEP    *)
(* queued, exactly one, when and only when it has work, and the flag of      *)
(* mark_batch_step_scheduled says so.                                        *)
StepsInFlight ==
  \A n \in Nodes :
    /\ nodes[n].inFlight = HasWork(nodes[n])
    /\ Cardinality({i \in EventsOf("DECODE_BATCH_STEP") : events[i].node = n})
         = (IF HasWork(nodes[n]) THEN 1 ELSE 0)

(* The slots of a node are taken by exactly the requests in its stages,      *)
(* there are never more than its capacity, nobody queues while one is free,  *)
(* and nothing ever queues on a decode node.                                 *)
Slots ==
  /\ \A n \in Nodes : Len(nodes[n].running) <= NodeCapacity
  /\ \A p \in PrefillNodes :
       /\ nodes[p].decoding = {}
       /\ nodes[p].queue # <<>> => ~HasRoom(nodes[p])
       /\ ToSet(nodes[p].running)
            = Prefilling(nodes[p]) \cup HandedTo(p, {"PREFILL_START", "PREFILL_COMPLETE"})
  /\ \A d \in DecodeNodes :
       /\ nodes[d].prefill = <<>> /\ nodes[d].queue = <<>>
       /\ ToSet(nodes[d].running) = nodes[d].decoding \cup HandedTo(d, {"DECODE_COMPLETE"})

(* A block table is held only while its request occupies a slot of the       *)
(* decode node, so every exit releases the pins.                             *)
TablesOwned ==
  \A r \in tables : r \in Decided /\ r \in ToSet(nodes[decisions[r].decode].running)

(* Tokens of r the collector has sampled, and those still queued.            *)
Sampled(r) == IF metrics.ttft[r] # M!None THEN 1 + metrics.tbt[r] ELSE 0
QueuedTokens(r) == QueuedFor(r, {"TOKEN_GENERATED"})

(* The collector sees every token of a request once, in order, before its    *)
(* completion, although tokens of one step share their time with the         *)
(* completions and with the next step.                                       *)
TokensInOrder ==
  /\ metrics.skipped = 0
  /\ \A r \in Requests : \A i \in QueuedTokens(r) :
       events[i].step = Sampled(r) + Cardinality({j \in QueuedTokens(r) : j < i})
  /\ \A i \in EventsOf("DECODE_COMPLETE") :
       /\ Sampled(events[i].req) + Cardinality(QueuedTokens(events[i].req))
            = AnswerLength(events[i].req)
       /\ \A j \in QueuedTokens(events[i].req) : j < i

(* The throughput counter, fed by batch sizes, counts exactly the tokens     *)
(* that were or will be sampled.                                             *)
TokensCounted ==
  metrics.decodeTokens
    = FoldFunction(LAMBDA a, b : a + b, 0,
                   [r \in Requests |-> Sampled(r) + Cardinality(QueuedTokens(r))])

(* The latencies of a completed request add up: its TTFT and its TBT samples *)
(* make its end-to-end time, with nothing lost or counted twice in between,  *)
(* whichever steps its tokens shared with other requests.                    *)
LatenciesAddUp ==
  \A r \in Requests : metrics.e2e[r] # M!None =>
    metrics.e2e[r] = metrics.ttft[r] + metrics.tbtTime[r]

(* No KV_TRANSFER_COMPLETE is dropped as stale, by the handler or by the     *)
(* collector: its transfer is pending and its start comes first.             *)
TransfersMatched ==
  \A i \in EventsOf("KV_TRANSFER_COMPLETE") :
    /\ events[i].req \in pending
    /\ \/ events[i].req \in metrics.seen
       \/ \E j \in QueuedFor(events[i].req, {"KV_TRANSFER_START"}) : j < i

(* Every arrival is counted as completed or rejected, once, or is still on   *)
(* its way.                                                                  *)
ArrivalsConserved ==
  metrics.arrived
    = metrics.completed + metrics.rejected
        + Cardinality({r \in Requests : r \in Decided \/ QueuedFor(r, {"REQUEST_REJECTED"}) # {}})

(* When the queue runs empty nothing is left behind: no slot, no decision,   *)
(* no transfer, no block table, no entry of the collector's live sets.       *)
CleanEnd ==
  events = <<>> =>
    /\ \A n \in Nodes : nodes[n] = EmptyNode
    /\ Decided = {} /\ pending = {} /\ tables = {}
    /\ metrics.prefills \cup metrics.decodes \cup metrics.chunks \cup metrics.seen = {}
    /\ metrics.arrived = Cardinality(Requests)

(* The abstract life of a request, read off the state: requests arrive in    *)
(* the order of their ids, and a finished one has all its tokens sampled.    *)
Stage(r) ==
  IF r > metrics.arrived THEN "new"
  ELSE IF r \notin Decided THEN IF Sampled(r) = AnswerLength(r) THEN "done" ELSE "rejected"
  ELSE IF r \in ToSet(nodes[decisions[r].prefill].queue) THEN "waiting"
  ELSE IF r \in ToSet(nodes[decisions[r].prefill].running) THEN "prefill"
  ELSE IF r \in pending THEN "transfer" ELSE "decode"

Life == INSTANCE RequestLifecycle WITH
  ExpectedOutput <- [r \in Requests |-> AnswerLength(r)],
  stage <- [r \in Requests |-> Stage(r)],
  route <- [r \in Requests |-> <<decisions[r].prefill, decisions[r].decode>>],
  sent <- [r \in Requests |-> Sampled(r)]

(* The handlers implement the life cycle: whatever the interleaving of       *)
(* events, a request takes its stages in order, waits for a prefill slot in  *)
(* the order of arrival, is dropped only by a full decode node, and is done  *)
(* only when its whole answer is out.                                        *)
ImplementsLifecycle == Life!LifeSpec

(* Every request arrives and is completed or rejected in the end, whatever   *)
(* the policy and the cache answer: no wake-up or promotion is missed for    *)
(* good.                                                                     *)
RequestsResolve == \A r \in Requests : <>(Stage(r) \in {"done", "rejected"})

(* A node runs one batch step at a time: when a step begins, the results of  *)
(* the previous one are out.                                                 *)
StepsDoNotOverlap ==
  (events # <<>> /\ Head(events).type = "DECODE_BATCH_STEP") =>
    \A i \in EventsOf("PREFILL_COMPLETE") \cup EventsOf("DECODE_COMPLETE") :
      events[i].node = Node => events[i].time <= Head(events).time

(* queue_wait_time is an upper bound: a request that queues on its prefill   *)
(* node has its slot by the time the estimate of its decision gave.          *)
SlotEstimateHolds ==
  [][\A n \in Nodes : \A i \in DOMAIN nodes[n].queue :
       now' <= decisions[nodes[n].queue[i]].slotBy]_vars
=============================================================================
