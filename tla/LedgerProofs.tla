---------------------------- MODULE LedgerProofs -----------------------------
(***************************************************************************)
(* The collector and the queued notices agree with the state of the        *)
(* cluster, for any number of nodes and requests, any policy and any       *)
(* cache.                                                                  *)
(*                                                                         *)
(* The invariant Inv of ServingProofs says where every request is; it      *)
(* knows nothing of the collector and of the events that carry no request  *)
(* on (tokens, transfer starts).  Ledger adds what those must satisfy:     *)
(*                                                                         *)
(*   Notices     a transfer start or a token is queued at most once,       *)
(*               before the completion that it precedes, and the tokens of *)
(*               a batch step before the next step of their node, although *)
(*               all of them may have the same time;                       *)
(*   Transfers   a pending transfer is announced or was seen, not both;    *)
(*   Counts      arrivals are completed, rejected or live, and the next    *)
(*               one to arrive has the next id;                            *)
(*   Marks       the live sets of the collector, and the queued tokens,    *)
(*               name requests that hold the slot they should.             *)
(*                                                                         *)
(* First comes what each handler does, as a lemma on its effect; then the  *)
(* collector; then the parts of the ledger, handler by handler.            *)
(*                                                                         *)
(* The answers follow: every token of a request is sampled once, in order, *)
(* and its latencies add up.                                               *)
(*                                                                         *)
(* Samples is the invariant that Inv and Ledger need beside them.  A       *)
(* stream has made as many tokens as the collector has sampled and the     *)
(* queue still holds, and it is not yet at the length of its answer        *)
(* (Streams); a queued token is the next to sample, and a completion comes *)
(* at the time of the last token (Told); so the first token gives the TTFT *)
(* and the later ones the TBT samples, which always add up to the time of  *)
(* the last one (Clocked).                                                 *)
(*                                                                         *)
(* The throughput counter is fed by batch sizes and not by tokens; that it *)
(* agrees with them is a sum over all requests, for which the fold of the  *)
(* library is unfolded along the subsets of a finite set (Throughput).     *)
(*                                                                         *)
(* Last, the cluster implements the life cycle of its requests             *)
(* (RequestLifecycle).  The life cycle gives a free prefill slot to the    *)
(* request that has waited longest, the code to the head of the node's     *)
(* queue.  InQueueOrder, the one fact that Inv, Ledger and Samples do not  *)
(* give, says that these are the same.  With it every handler is shown to  *)
(* take one step of the life cycle or, when it moves nobody, none.         *)
(***************************************************************************)
EXTENDS ServingProofs

-----------------------------------------------------------------------------
(* What the handlers do.                                                     *)

(* The events that a handler schedules.                                      *)
Scheduling(es) ==
  /\ es \in Seq(Event) /\ Handle(es) /\ Queued' = Rest \cup ToSet(es)
  /\ \A e \in ToSet(es) : e \in Event /\ e.time >= now'

(* S announces the next arrival, if there is one, and no other.              *)
Announces(S) ==
  /\ Req + 1 \in Requests => HasIn(S, Req + 1, "REQUEST_ARRIVE")
  /\ \A e \in S : e.type = "REQUEST_ARRIVE" => e.req = Req + 1 /\ Req + 1 \in Requests

(* The events of one list behind another.                                    *)
LEMMA JoinedTwo ==
  ASSUME NEW E, NEW s \in Seq(E), NEW t \in Seq(E)
  PROVE  s \o t \in Seq(E) /\ ToSet(s \o t) = ToSet(s) \cup ToSet(t)
BY JoinedLists

(* The head of the queue and the list of new events.                         *)
LEMMA SchedulingFacts ==
  ASSUME Inv, NEW type, Pop(type), NEW es \in Seq(Event), Handle(es),
         \A e \in ToSet(es) : e.time >= now'
  PROVE  Scheduling(es)
BY QueueStep DEF Scheduling, Inv

(* A popped event: the clock, and for a carrier its request.                 *)
LEMMA PopEffect ==
  ASSUME Inv, NEW type, Pop(type)
  PROVE  /\ now' \in Nat /\ now <= now' /\ now' = Head(events).time
         /\ Head(events) \in Event /\ Head(events) \in Queued /\ Rest \subseteq Event
         /\ Head(events).type = type /\ Queued = {Head(events)} \cup Rest
         /\ Typed /\ Apart(events, Clash) /\ DOMAIN nodes = Nodes
         /\ \A n \in Nodes : WellFormed(nodes[n]) /\ Awake(n)
         /\ Fits(Head(events))
<1>1. Typed /\ Apart(events, Clash)
  BY DEF Inv
<1>2. /\ Head(events) \in Event /\ Rest \subseteq Event
      /\ Queued = {Head(events)} \cup Rest /\ Head(events).type = type
  BY <1>1, HeadIsAlone
<1>3. now' = Head(events).time /\ now \in Nat /\ \A e \in Queued : e.time >= now
  BY <1>1 DEF Pop, Typed
<1>4. now' \in Nat /\ now <= now'
  BY <1>2, <1>3 DEF Event
<1> QED
  BY <1>1, <1>2, <1>3, <1>4 DEF Inv, Typed

(* A handler that schedules nothing.                                         *)
LEMMA QuietEffect ==
  ASSUME Inv, NEW type, Pop(type), Handle(<<>>)
  PROVE  \E es : Scheduling(es) /\ ToSet(es) = {}
<1>1. <<>> \in Seq(Event) /\ ToSet(<<>>) = {}
  BY DEF ToSet
<1>2. \A e \in ToSet(<<>>) : e.time >= now'
  BY <1>1
<1>3. Scheduling(<<>>)
  BY <1>1, <1>2, SchedulingFacts
<1> QED
  BY <1>1, <1>3

(* The next arrival, if there is one.                                        *)
LEMMA NextArrivalEffect ==
  ASSUME now' \in Nat, Req \in Requests, NEW gap \in Gaps
  PROVE  /\ NextArrival(gap) \in Seq(Event) /\ Announces(ToSet(NextArrival(gap)))
         /\ \A e \in ToSet(NextArrival(gap)) : e.time >= now' /\ e.type = "REQUEST_ARRIVE"
<1>1. PICK b : b = Ev(now' + gap, "REQUEST_ARRIVE", Req + 1, "none")
  OBVIOUS
<1>2. /\ NextArrival(gap) \in Seq(Event)
      /\ Req + 1 \in Requests => ToSet(NextArrival(gap)) = {b}
      /\ Req + 1 \notin Requests => ToSet(NextArrival(gap)) = {}
      /\ now' + gap \in Nat /\ now' + gap >= now' /\ Req + 1 \in Nat
  BY <1>1, NextArrivalFacts
<1>3. "none" \in Nodes \cup {"none"} /\ "REQUEST_ARRIVE" \in Types
  BY DEF Types
<1>4. b.time = now' + gap /\ b.type = "REQUEST_ARRIVE" /\ b.req = Req + 1
  BY <1>1, <1>2, <1>3, EventFacts
<1> QED
  BY <1>2, <1>4 DEF Announces, HasIn

(* What an arrival schedules: the events of its handler and the next one.    *)
LEMMA ArrivalList ==
  ASSUME Inv, NEW type, Pop(type), Req \in Requests, NEW gap \in Gaps, NEW as \in Seq(Event),
         Handle(as \o NextArrival(gap)),
         \A e \in ToSet(as) : e.time >= now' /\ e.type # "REQUEST_ARRIVE"
  PROVE  \E es : /\ Scheduling(es) /\ Announces(ToSet(es))
                 /\ ToSet(as) \subseteq ToSet(es)
                 /\ \A e \in ToSet(es) : e \in ToSet(as) \/ e.type = "REQUEST_ARRIVE"
<1>1. now' \in Nat
  BY PopEffect
<1>2. PICK ns : ns = NextArrival(gap)
  OBVIOUS
<1>3. /\ ns \in Seq(Event) /\ Announces(ToSet(ns))
      /\ \A e \in ToSet(ns) : e.time >= now' /\ e.type = "REQUEST_ARRIVE"
  BY <1>1, <1>2, NextArrivalEffect
<1> DEFINE es == as \o ns
<1>4. es \in Seq(Event) /\ ToSet(es) = ToSet(as) \cup ToSet(ns)
  <2>1. as \in Seq(Event) /\ ns \in Seq(Event)
    BY <1>3
  <2> QED
    BY ONLY <2>1, JoinedTwo, ZenonT(40) DEF es
<1>5. Handle(es)
  BY <1>2
<1> HIDE DEF es
<1>6. \A e \in ToSet(es) : e.time >= now'
  BY <1>3, <1>4
<1>7. Scheduling(es)
  BY <1>4, <1>5, <1>6, SchedulingFacts
<1>8. Announces(ToSet(es))
  BY <1>3, <1>4 DEF Announces, HasIn
<1> QED
  BY <1>3, <1>4, <1>7, <1>8

(* REQUEST_ARRIVE, refused.                                                  *)
LEMMA ArriveRejectedEffect ==
  ASSUME Inv, ArriveRejected
  PROVE  /\ Pop("REQUEST_ARRIVE") /\ Req \in Requests /\ At(Req, "announced")
         /\ metrics' = M!CountArrive(metrics, Req, now')
         /\ UNCHANGED <<nodes, decisions, pending, tables>>
         /\ \E es : /\ Scheduling(es) /\ Announces(ToSet(es))
                    /\ \A e \in ToSet(es) : e.type = "REQUEST_REJECTED" \/ e.type = "REQUEST_ARRIVE"
                    /\ \A e \in ToSet(es) : e.type = "REQUEST_REJECTED" => e.req = Req
                    /\ HasIn(ToSet(es), Req, "REQUEST_REJECTED")
<1>1. /\ Pop("REQUEST_ARRIVE") /\ UNCHANGED <<nodes, decisions, pending, tables>>
      /\ metrics' = M!CountArrive(metrics, Req, now')
  BY DEF ArriveRejected
<1>2. "REQUEST_ARRIVE" \in Carriers
  BY DEF Carriers
<1>3. PICK r \in Requests : r = Req /\ At(r, "announced")
  BY <1>1, <1>2, HeadAt
<1>4. PICK a : a = Ev(now', "REQUEST_REJECTED", r, "none")
  OBVIOUS
<1>5. PICK gap \in Gaps : Handle(<<a>> \o NextArrival(gap))
  BY <1>3, <1>4 DEF ArriveRejected
<1>6. now' \in Nat
  BY <1>1, PopEffect
<1>7. /\ a \in Event /\ a.time = now' /\ a.type = "REQUEST_REJECTED" /\ a.req = r
  <2>1. r \in Nat /\ "none" \in Nodes \cup {"none"} /\ "REQUEST_REJECTED" \in Types
    BY Constants DEF Types
  <2> QED
    BY <1>4, <1>6, <2>1, EventFacts
<1> DEFINE as == <<a>>
<1>8. as \in Seq(Event) /\ ToSet(as) = {a} /\ Handle(as \o NextArrival(gap))
  BY <1>5, <1>7, ShortLists
<1> HIDE DEF as
<1>9. \A e \in ToSet(as) : e.time >= now' /\ e.type # "REQUEST_ARRIVE"
  BY <1>6, <1>7, <1>8
<1>10. PICK es : /\ Scheduling(es) /\ Announces(ToSet(es))
                 /\ ToSet(as) \subseteq ToSet(es)
                 /\ \A e \in ToSet(es) : e \in ToSet(as) \/ e.type = "REQUEST_ARRIVE"
  BY <1>1, <1>3, <1>8, <1>9, ArrivalList
<1>11. HasIn(ToSet(es), Req, "REQUEST_REJECTED")
  BY <1>3, <1>7, <1>8, <1>10 DEF HasIn
<1>12. \A e \in ToSet(es) : /\ e.type = "REQUEST_REJECTED" \/ e.type = "REQUEST_ARRIVE"
                            /\ e.type = "REQUEST_REJECTED" => e.req = Req
  BY <1>3, <1>7, <1>8, <1>10
<1> QED
  BY <1>1, <1>3, <1>10, <1>11, <1>12

(* REQUEST_ARRIVE, routed to p and d.                                        *)
LEMMA ArriveRoutedEffect ==
  ASSUME Inv, NEW p \in PrefillNodes, NEW d \in DecodeNodes, ArriveRouted(p, d)
  PROVE  /\ Pop("REQUEST_ARRIVE") /\ Req \in Requests /\ At(Req, "announced")
         /\ metrics' = M!CountArrive(metrics, Req, now')
         /\ UNCHANGED <<pending, tables>>
         /\ \E D : /\ decisions' = [decisions EXCEPT ![Req] = D]
                   /\ D.prefill = p /\ D.decode = d /\ D # NoDecision
         /\ \E A : /\ nodes' = [nodes EXCEPT ![p] = A]
                   /\ A.decoding = nodes[p].decoding /\ A.tokens = nodes[p].tokens
                   /\ HasRoom(nodes[p]) => /\ A.queue = nodes[p].queue
                                           /\ Running(A) = Running(nodes[p]) \cup {Req}
                   /\ ~HasRoom(nodes[p]) => /\ A.queue = Append(nodes[p].queue, Req)
                                            /\ A.running = nodes[p].running
         /\ \E es : /\ Scheduling(es) /\ Announces(ToSet(es))
                    /\ \A e \in ToSet(es) :
                         \/ e.type = "SCHEDULED" \/ e.type = "REQUEST_ARRIVE"
                         \/ e.type = "PREFILL_START" /\ e.req = Req /\ e.time = now'
<1>1. /\ Pop("REQUEST_ARRIVE") /\ UNCHANGED <<pending, tables>>
      /\ metrics' = M!CountArrive(metrics, Req, now')
  BY DEF ArriveRouted
<1>2. "REQUEST_ARRIVE" \in Carriers
  BY DEF Carriers
<1>3. PICK r \in Requests : r = Req /\ At(r, "announced")
  BY <1>1, <1>2, HeadAt
<1>4. now' \in Nat /\ WellFormed(nodes[p])
  BY <1>1, PopEffect, Constants
<1>5. PICK a : a = Ev(now', "SCHEDULED", r, "none")
  OBVIOUS
<1>6. PICK b : b = Ev(now', "PREFILL_START", r, p)
  OBVIOUS
<1>7. PICK uncached \in Uncached, gap \in Gaps :
        /\ nodes' = [nodes EXCEPT ![p] = Admit(nodes[p], r, uncached)]
        /\ Handle(<<a>> \o (IF HasRoom(nodes[p]) THEN <<b>> ELSE <<>>) \o NextArrival(gap))
  BY <1>3, <1>5, <1>6 DEF ArriveRouted
<1>8. PICK D : /\ decisions' = [decisions EXCEPT ![r] = D]
               /\ D.prefill = p /\ D.decode = d /\ D # NoDecision
  <2> DEFINE D == [prefill |-> p, decode |-> d, slotBy |-> now' + QueueWaitTime(nodes[p])]
  <2>1. decisions' = [decisions EXCEPT ![r] = D]
    BY <1>3 DEF ArriveRouted
  <2>2. D.prefill = p /\ D.decode = d /\ D # NoDecision
    BY Constants DEF NoDecision
  <2> HIDE DEF D
  <2> QED
    BY <2>1, <2>2
<1>9. /\ a \in Event /\ a.time = now' /\ a.type = "SCHEDULED"
      /\ b \in Event /\ b.time = now' /\ b.type = "PREFILL_START" /\ b.req = r
  <2>1. /\ r \in Nat /\ "none" \in Nodes \cup {"none"} /\ p \in Nodes \cup {"none"}
        /\ "SCHEDULED" \in Types /\ "PREFILL_START" \in Types
    BY Constants DEF Types
  <2> QED
    BY <1>4, <1>5, <1>6, <2>1, EventFacts
<1> DEFINE as == <<a>>
           bs == IF HasRoom(nodes[p]) THEN <<b>> ELSE <<>>
           es == as \o bs
<1>10. /\ bs \in Seq(Event) /\ ToSet(bs) = (IF HasRoom(nodes[p]) THEN {b} ELSE {})
       /\ as \in Seq(Event) /\ ToSet(as) = {a}
  BY <1>9, ShortLists
<1>11. Handle(es \o NextArrival(gap))
  BY <1>7
<1>12. es \in Seq(Event) /\ ToSet(es) = ToSet(as) \cup ToSet(bs)
  <2> HIDE DEF as, bs
  <2>1. as \in Seq(Event) /\ bs \in Seq(Event)
    BY <1>10
  <2> QED
    BY ONLY <2>1, JoinedTwo, ZenonT(40) DEF es
<1> HIDE DEF as, bs, es
<1>13. \A e \in ToSet(es) : e = a \/ e = b
  BY <1>10, <1>12
<1>14. \A e \in ToSet(es) : e.time >= now' /\ e.type # "REQUEST_ARRIVE"
  BY <1>4, <1>9, <1>13
<1>15. PICK fs : /\ Scheduling(fs) /\ Announces(ToSet(fs))
                 /\ \A e \in ToSet(fs) : e \in ToSet(es) \/ e.type = "REQUEST_ARRIVE"
  BY <1>1, <1>3, <1>11, <1>12, <1>14, ArrivalList
<1>16. \A e \in ToSet(fs) : \/ e.type = "SCHEDULED" \/ e.type = "REQUEST_ARRIVE"
                            \/ e.type = "PREFILL_START" /\ e.req = Req /\ e.time = now'
  BY <1>3, <1>9, <1>13, <1>15
<1>17. r \notin Running(nodes[p]) \cup Waiting(nodes[p]) /\ uncached \in Nat
  <2>1. p \in Nodes /\ uncached \in Nat
    BY Constants
  <2> QED
    BY <1>3, <2>1 DEF At, Placed
<1> DEFINE A == Admit(nodes[p], r, uncached)
<1>18. /\ A.decoding = nodes[p].decoding /\ A.tokens = nodes[p].tokens
       /\ HasRoom(nodes[p]) => A.queue = nodes[p].queue /\ Running(A) = Running(nodes[p]) \cup {r}
       /\ ~HasRoom(nodes[p]) => /\ A.queue = Append(nodes[p].queue, r)
                                /\ A.running = nodes[p].running
  BY <1>4, <1>17, AdmitFacts
<1>19. nodes' = [nodes EXCEPT ![p] = A]
  BY <1>7
<1> HIDE DEF A
<1> QED
  BY <1>1, <1>3, <1>8, <1>15, <1>16, <1>18, <1>19

(* PREFILL_START, by either branch: the slots stay, and what is scheduled is *)
(* a PREFILL_COMPLETE or a step of the prefill node.                         *)
LEMMA PrefillStartEffect ==
  ASSUME Inv, PrefillStartCached \/ PrefillStartChunked
  PROVE  /\ Pop("PREFILL_START") /\ Req \in Requests /\ At(Req, "starting")
         /\ Node \in PrefillNodes /\ Node = decisions[Req].prefill
         /\ metrics' = M!CountPrefillStart(metrics, Req)
         /\ UNCHANGED <<decisions, pending, tables>>
         /\ \E A : /\ nodes' = [nodes EXCEPT ![Node] = A] /\ SameSlots(nodes[Node], A)
                   /\ A.decoding = nodes[Node].decoding /\ A.tokens = nodes[Node].tokens
                   /\ \/ A.prefill = nodes[Node].prefill
                      \/ A.prefill = Append(nodes[Node].prefill, [req |-> Req, left |-> A.uncached[Req]])
         /\ \E es : /\ Scheduling(es)
                    /\ \A e \in ToSet(es) :
                         /\ e.time = now'
                         /\ \/ e.type = "PREFILL_COMPLETE" /\ e.req = Req
                            \/ e.type = "DECODE_BATCH_STEP" /\ e.node = Node
<1> DEFINE type == "PREFILL_START"
<1>1. /\ Pop(type) /\ type \in Carriers
      /\ metrics' = M!CountPrefillStart(metrics, Req)
      /\ UNCHANGED <<decisions, pending, tables>>
  BY DEF PrefillStartCached, PrefillStartChunked, Carriers
<1>2. PICK r \in Requests : r = Req /\ At(r, "starting")
  BY <1>1, HeadAt
<1>3. PICK p : p = Node
  OBVIOUS
<1>4. p = decisions[r].prefill /\ p \in PrefillNodes /\ p \in Nodes
  <2>1. Fits(Head(events)) /\ Head(events).type = type /\ Typed
    BY <1>1, PopEffect
  <2>2. p = decisions[r].prefill
    BY <1>2, <1>3, <2>1 DEF Fits, Req, Node
  <2>3. r \in Decided
    BY <1>2 DEF At, Booked, Outside
  <2> QED
    BY <2>1, <2>2, <2>3, Constants DEF Typed
<1>5. now' \in Nat /\ WellFormed(nodes[p])
  BY <1>1, <1>4, PopEffect
<1>6. r \in Running(nodes[p]) /\ r \notin Prefilling(nodes[p]) \cup nodes[p].decoding
  BY <1>2, <1>4 DEF At, Placed
<1>7. CASE PrefillStartCached
  <2>1. PICK a : a = Ev(now', "PREFILL_COMPLETE", r, p)
    OBVIOUS
  <2>2. a \in Event /\ a.time = now' /\ a.type = "PREFILL_COMPLETE" /\ a.req = r
    <3>1. r \in Nat /\ p \in Nodes \cup {"none"} /\ "PREFILL_COMPLETE" \in Types
      BY <1>4, Constants DEF Types
    <3> QED
      BY <1>5, <2>1, <3>1, EventFacts
  <2>3. nodes' = [nodes EXCEPT ![p] = MarkPrefillDone(nodes[p], r)] /\ Handle(<<a>>)
    BY <1>2, <1>3, <1>7, <2>1 DEF PrefillStartCached
  <2> DEFINE es == <<a>>
             A == MarkPrefillDone(nodes[p], r)
  <2>4. es \in Seq(Event) /\ ToSet(es) = {a} /\ Handle(es)
    BY <2>2, <2>3, ShortLists
  <2> HIDE DEF es
  <2>5. \A e \in ToSet(es) : e.time >= now'
    BY <1>5, <2>2, <2>4
  <2>6. Scheduling(es)
    BY <1>1, <2>4, <2>5, SchedulingFacts
  <2>7. /\ nodes' = [nodes EXCEPT ![p] = A] /\ SameSlots(nodes[p], A)
        /\ A.decoding = nodes[p].decoding /\ A.tokens = nodes[p].tokens
        /\ A.prefill = nodes[p].prefill
    BY <1>5, <1>6, <2>3, MarkPrefillDoneFacts
  <2> HIDE DEF A
  <2>8. \A e \in ToSet(es) : e.type = "PREFILL_COMPLETE" /\ e.req = Req /\ e.time = now'
    BY <1>2, <2>2, <2>4
  <2> QED
    BY <1>1, <1>2, <1>3, <1>4, <2>6, <2>7, <2>8
<1>8. CASE PrefillStartChunked
  <2>1. PICK u \in Uncached \ {0} :
          /\ nodes' = [nodes EXCEPT ![p] = Woken(EnterPrefill(nodes[p], r, u))]
          /\ Handle(WakeEvents(EnterPrefill(nodes[p], r, u), p, now'))
    BY <1>2, <1>3, <1>8 DEF PrefillStartChunked
  <2>2. PICK a : a = Ev(now', "DECODE_BATCH_STEP", 0, p)
    OBVIOUS
  <2>3. a \in Event /\ a.time = now' /\ a.type = "DECODE_BATCH_STEP" /\ a.node = p
    <3>1. p \in Nodes \cup {"none"} /\ "DECODE_BATCH_STEP" \in Types
      BY <1>4 DEF Types
    <3> QED
      BY <1>5, <2>2, <3>1, EventFacts
  <2> DEFINE N == nodes[p]
             B == EnterPrefill(nodes[p], r, u)
             A == Woken(B)
             es == WakeEvents(B, p, now')
  <2>4. u \in Nat \ {0}
    BY Constants
  <2> HIDE DEF A, B, es
  <2>5. /\ WellFormed(B) /\ SameSlots(N, B) /\ B.decoding = N.decoding /\ B.tokens = N.tokens
    BY <1>5, <1>6, <2>4, EnterPrefillFacts DEF B
  <2>6. SameSlots(B, A) /\ A.decoding = B.decoding /\ A.tokens = B.tokens
    BY <2>5, WokenFacts DEF A
  <2>7. SameSlots(N, A) /\ A.decoding = N.decoding /\ A.tokens = N.tokens
    BY <2>5, <2>6 DEF SameSlots
  <2>8. es \in Seq(Event) /\ Handle(es) /\ ToSet(es) \subseteq {a}
    <3>1. es \in Seq(Event) /\ ToSet(es) = IF MustWake(B) THEN {a} ELSE {}
      BY <1>4, <1>5, <2>2, WakeEventsFacts DEF es
    <3>2. Handle(es)
      BY <2>1 DEF es, B
    <3> QED
      BY <3>1, <3>2
  <2>9. \A e \in ToSet(es) : e.time >= now'
    BY <1>5, <2>3, <2>8
  <2>10. Scheduling(es)
    BY <1>1, <2>8, <2>9, SchedulingFacts
  <2>11. \A e \in ToSet(es) : e.type = "DECODE_BATCH_STEP" /\ e.node = p /\ e.time = now'
    BY <2>3, <2>8
  <2>12. nodes' = [nodes EXCEPT ![p] = A]
    BY <2>1 DEF A, B
  <2>13. A.prefill = Append(N.prefill, [req |-> r, left |-> A.uncached[r]])
    <3>1. /\ N \in NodeValue /\ B \in NodeValue /\ N.uncached \in [Requests -> Nat]
      BY <1>5, <2>5, NodeTypes DEF WellFormed
    <3>2. B.prefill = Append(N.prefill, [req |-> r, left |-> u]) /\ B.uncached[r] = u
      BY <3>1 DEF B, EnterPrefill, NodeValue
    <3>3. A.prefill = B.prefill /\ A.uncached = B.uncached
      BY <3>1 DEF A, Woken, NodeValue
    <3> QED
      BY <3>2, <3>3
  <2> QED
    BY <1>1, <1>2, <1>3, <1>4, <2>7, <2>10, <2>11, <2>12, <2>13
<1> QED
  BY <1>7, <1>8

(* KV_TRANSFER_COMPLETE on a full decode node.                               *)
LEMMA TransferRejectedEffect ==
  ASSUME Inv, TransferRejected
  PROVE  /\ Pop("KV_TRANSFER_COMPLETE") /\ Req \in Requests /\ At(Req, "transfer")
         /\ ~HasRoom(nodes[decisions[Req].decode])
         /\ pending' = pending \ {Req}
         /\ decisions' = [decisions EXCEPT ![Req] = NoDecision]
         /\ metrics' = M!CountTransferComplete(metrics, Req)
         /\ UNCHANGED <<nodes, tables>>
         /\ \E es : /\ Scheduling(es) /\ HasIn(ToSet(es), Req, "REQUEST_REJECTED")
                    /\ \A e \in ToSet(es) : e.type = "REQUEST_REJECTED" /\ e.req = Req
<1>1. /\ Pop("KV_TRANSFER_COMPLETE") /\ "KV_TRANSFER_COMPLETE" \in Carriers
      /\ ~HasRoom(nodes[decisions[Req].decode])
      /\ pending' = pending \ {Req}
      /\ decisions' = [decisions EXCEPT ![Req] = NoDecision]
      /\ metrics' = M!CountTransferComplete(metrics, Req)
      /\ UNCHANGED <<nodes, tables>>
  BY DEF TransferRejected, Carriers
<1>2. PICK r \in Requests : r = Req /\ At(r, "transfer")
  BY <1>1, HeadAt
<1>3. now' \in Nat
  BY <1>1, PopEffect
<1>4. PICK a : a = Ev(now', "REQUEST_REJECTED", r, "none")
  OBVIOUS
<1>5. a \in Event /\ a.time = now' /\ a.type = "REQUEST_REJECTED" /\ a.req = r
  <2>1. r \in Nat /\ "none" \in Nodes \cup {"none"} /\ "REQUEST_REJECTED" \in Types
    BY Constants DEF Types
  <2> QED
    BY <1>3, <1>4, <2>1, EventFacts
<1> DEFINE es == <<a>>
<1>6. Handle(es)
  BY <1>2, <1>4 DEF TransferRejected
<1>7. es \in Seq(Event) /\ ToSet(es) = {a}
  BY <1>5, ShortLists
<1> HIDE DEF es
<1>8. \A e \in ToSet(es) : e.time >= now'
  BY <1>3, <1>5, <1>7
<1>9. Scheduling(es)
  BY <1>1, <1>6, <1>7, <1>8, SchedulingFacts
<1>10. /\ HasIn(ToSet(es), Req, "REQUEST_REJECTED")
       /\ \A e \in ToSet(es) : e.type = "REQUEST_REJECTED" /\ e.req = Req
  BY <1>2, <1>5, <1>7 DEF HasIn
<1> QED
  BY <1>1, <1>2, <1>9, <1>10

(* KV_TRANSFER_COMPLETE on a decode node with a free slot: the node is woken *)
(* only if it had no stream.                                                 *)
LEMMA TransferAdmittedEffect ==
  ASSUME Inv, TransferAdmitted
  PROVE  /\ Pop("KV_TRANSFER_COMPLETE") /\ Req \in Requests /\ At(Req, "transfer")
         /\ \E d \in DecodeNodes :
              /\ d = decisions[Req].decode /\ HasRoom(nodes[d])
              /\ \E A : /\ nodes' = [nodes EXCEPT ![d] = A]
                        /\ A.queue = nodes[d].queue
                        /\ Running(A) = Running(nodes[d]) \cup {Req}
                        /\ A.decoding = nodes[d].decoding \cup {Req}
                        /\ A.tokens = nodes[d].tokens
              /\ \E es : /\ Scheduling(es)
                         /\ \A e \in ToSet(es) : /\ e.type = "DECODE_BATCH_STEP" /\ e.node = d
                                                 /\ e.time = now' /\ nodes[d].decoding = {}
         /\ pending' = pending \ {Req}
         /\ metrics' = M!CountTransferComplete(metrics, Req)
         /\ UNCHANGED decisions
<1>1. /\ Pop("KV_TRANSFER_COMPLETE") /\ "KV_TRANSFER_COMPLETE" \in Carriers
      /\ pending' = pending \ {Req}
      /\ metrics' = M!CountTransferComplete(metrics, Req)
      /\ UNCHANGED decisions
  BY DEF TransferAdmitted, Carriers
<1>2. PICK r \in Requests : r = Req /\ At(r, "transfer")
  BY <1>1, HeadAt
<1>3. PICK d : d = decisions[r].decode
  OBVIOUS
<1>4. d \in DecodeNodes /\ d \in Nodes
  <2>1. r \in Decided /\ Typed
    BY <1>1, <1>2, PopEffect DEF At, Booked, Outside
  <2> QED
    BY <1>3, <2>1, Constants DEF Typed
<1>5. now' \in Nat /\ WellFormed(nodes[d]) /\ Awake(d)
  BY <1>1, <1>4, PopEffect
<1> DEFINE N == nodes[d]
           B == Admit(N, r, 0)
           C == StartDecode(B, r)
           A == Woken(C)
           es == WakeEvents(C, d, now')
<1>6. HasRoom(N) /\ nodes' = [nodes EXCEPT ![d] = A] /\ Handle(es)
  BY <1>2, <1>3 DEF TransferAdmitted
<1>7. r \notin Running(N) \cup Waiting(N) /\ r \notin Prefilling(N)
  BY <1>2, <1>4 DEF At, Placed
<1> HIDE DEF B, C, A, es
<1>8. /\ WellFormed(B) /\ B.queue = N.queue /\ Running(B) = Running(N) \cup {r}
      /\ B.decoding = N.decoding /\ B.prefill = N.prefill /\ B.inFlight = N.inFlight
      /\ B.tokens = N.tokens
  <2>1. 0 \in Nat
    OBVIOUS
  <2> QED
    BY <1>5, <1>6, <1>7, <2>1, AdmitFacts DEF B
<1>9. r \in Running(B) /\ r \notin Prefilling(B)
  BY <1>7, <1>8 DEF Prefilling
<1>10. /\ WellFormed(C) /\ SameSlots(B, C) /\ C.decoding = B.decoding \cup {r}
       /\ C.prefill = B.prefill /\ C.inFlight = B.inFlight /\ C.tokens = B.tokens
  BY <1>8, <1>9, StartDecodeFacts DEF C
<1>11. /\ SameSlots(C, A) /\ A.decoding = C.decoding /\ A.tokens = C.tokens
  BY <1>10, WokenFacts DEF A
<1>12. /\ A.queue = N.queue /\ Running(A) = Running(N) \cup {r}
       /\ A.decoding = N.decoding \cup {r} /\ A.tokens = N.tokens
  BY <1>8, <1>10, <1>11 DEF SameSlots, Running
<1>13. PICK a : a = Ev(now', "DECODE_BATCH_STEP", 0, d)
  OBVIOUS
<1>14. a \in Event /\ a.time = now' /\ a.type = "DECODE_BATCH_STEP" /\ a.node = d
  <2>1. d \in Nodes \cup {"none"} /\ "DECODE_BATCH_STEP" \in Types
    BY <1>4 DEF Types
  <2> QED
    BY <1>5, <1>13, <2>1, EventFacts
<1>15. es \in Seq(Event) /\ ToSet(es) = IF MustWake(C) THEN {a} ELSE {}
  BY <1>4, <1>5, <1>13, WakeEventsFacts DEF es
<1>16. MustWake(C) => N.decoding = {}
  BY <1>5, <1>8, <1>10 DEF MustWake, Awake, HasWork
<1>17. \A e \in ToSet(es) : /\ e.time >= now' /\ e.type = "DECODE_BATCH_STEP" /\ e.node = d
                            /\ e.time = now' /\ N.decoding = {}
  BY <1>5, <1>14, <1>15, <1>16
<1>18. Scheduling(es)
  BY <1>1, <1>6, <1>15, <1>17, SchedulingFacts
<1> QED
  BY <1>1, <1>2, <1>3, <1>4, <1>6, <1>12, <1>17, <1>18, ZenonT(40)

(* DECODE_COMPLETE: the slot is free, and no step is scheduled, since the    *)
(* streams that are left have one.                                           *)
LEMMA DecodeCompleteEffect ==
  ASSUME Inv, DecodeComplete
  PROVE  /\ Pop("DECODE_COMPLETE") /\ Req \in Requests /\ At(Req, "decoded")
         /\ Node \in DecodeNodes /\ Node = decisions[Req].decode
         /\ decisions' = [decisions EXCEPT ![Req] = NoDecision]
         /\ metrics' = M!CountDecodeComplete(metrics, Req, now')
         /\ UNCHANGED pending
         /\ \E A : /\ nodes' = [nodes EXCEPT ![Node] = A]
                   /\ A.queue = nodes[Node].queue
                   /\ Running(A) = Running(nodes[Node]) \ {Req}
                   /\ A.decoding = nodes[Node].decoding
                   /\ A.tokens = [nodes[Node].tokens EXCEPT ![Req] = 0]
         /\ \E es : Scheduling(es) /\ ToSet(es) = {}
<1> DEFINE type == "DECODE_COMPLETE"
<1>1. /\ Pop(type) /\ type \in Carriers
      /\ decisions' = [decisions EXCEPT ![Req] = NoDecision]
      /\ metrics' = M!CountDecodeComplete(metrics, Req, now')
      /\ UNCHANGED pending
  BY DEF DecodeComplete, Carriers
<1>2. PICK r \in Requests : r = Req /\ At(r, "decoded")
  BY <1>1, HeadAt
<1>3. PICK d : d = Node
  OBVIOUS
<1>4. d = decisions[r].decode /\ d \in DecodeNodes /\ d \in Nodes
  <2>1. Fits(Head(events)) /\ Head(events).type = type /\ Typed
    BY <1>1, PopEffect
  <2>2. d = decisions[r].decode
    BY <1>2, <1>3, <2>1 DEF Fits, Req, Node
  <2>3. r \in Decided
    BY <1>2 DEF At, Booked, Outside
  <2> QED
    BY <2>1, <2>2, <2>3, Constants DEF Typed
<1>5. now' \in Nat /\ WellFormed(nodes[d]) /\ Awake(d)
  BY <1>1, <1>4, PopEffect
<1>6. r \in Running(nodes[d]) /\ r \notin Prefilling(nodes[d]) \cup nodes[d].decoding
  BY <1>2, <1>4 DEF At, Placed
<1>7. nodes[d].queue = <<>>
  <2>1. Waiting(nodes[d]) = {}
    <3> SUFFICES ASSUME NEW q \in Waiting(nodes[d])
                 PROVE  FALSE
      OBVIOUS
    <3>1. q \in Requests
      BY <1>5, NodeTypes
    <3>2. PICK k \in Positions : At(q, k)
      BY <3>1 DEF Inv
    <3>3. k = "waiting" /\ d = decisions[q].prefill
      BY <1>4, <3>2 DEF At, Placed
    <3>4. q \in Decided /\ Typed
      BY <3>2, <3>3 DEF At, Booked, Outside, Inv
    <3> QED
      BY <1>4, <3>3, <3>4, Constants DEF Typed
  <2>2. nodes[d].queue \in Seq(Requests)
    BY <1>5, NodeTypes
  <2>3. nodes[d].queue # <<>> => Head(nodes[d].queue) \in Waiting(nodes[d])
    <3>1. WellFormed(nodes[d]) => IsInjective(nodes[d].queue)
      BY DEF WellFormed
    <3> QED
      BY <1>5, <2>2, <3>1, TailSet DEF Waiting
  <2> QED
    BY <2>1, <2>3
<1> DEFINE N == nodes[d]
           B == Complete(N, r)
           A == Woken(B)
           es == WakeEvents(B, d, now')
<1>8. nodes' = [nodes EXCEPT ![d] = A] /\ Handle(es)
  BY <1>2, <1>3 DEF DecodeComplete
<1> HIDE DEF A, B, es
<1>9. /\ WellFormed(B) /\ B.decoding = N.decoding /\ B.prefill = N.prefill
      /\ B.inFlight = N.inFlight /\ B.tokens = [N.tokens EXCEPT ![r] = 0]
      /\ Running(B) = Running(N) \ {r} /\ B.queue = N.queue
  BY <1>5, <1>6, <1>7, CompleteFacts DEF B
<1>10. SameSlots(B, A) /\ A.decoding = B.decoding /\ A.tokens = B.tokens
  BY <1>9, WokenFacts DEF A
<1>11. /\ A.queue = N.queue /\ Running(A) = Running(N) \ {r}
       /\ A.decoding = N.decoding /\ A.tokens = [N.tokens EXCEPT ![r] = 0]
  BY <1>9, <1>10 DEF SameSlots, Running
<1>12. ~MustWake(B)
  BY <1>5, <1>9 DEF MustWake, Awake, HasWork
<1>13. es \in Seq(Event) /\ ToSet(es) = {}
  BY <1>4, <1>5, <1>12, WakeEventsFacts DEF es
<1>14. \A e \in ToSet(es) : e.time >= now'
  BY <1>13
<1>15. Scheduling(es)
  BY <1>1, <1>8, <1>13, <1>14, SchedulingFacts
<1> QED
  BY <1>1, <1>2, <1>3, <1>4, <1>8, <1>11, <1>13, <1>15

(* Two notices of the same transfer, or two tokens of the same request.      *)
Twice ==
  {c \in Event \X Event :
     /\ c[1].type = c[2].type /\ c[1].req = c[2].req
     /\ c[1].type = "KV_TRANSFER_START" \/ c[1].type = "TOKEN_GENERATED"}

(* The start of a transfer and its end.                                      *)
TransferOrder ==
  {c \in Event \X Event :
     /\ c[1].type = "KV_TRANSFER_START" /\ c[2].type = "KV_TRANSFER_COMPLETE"
     /\ c[1].req = c[2].req}

(* A token and what a batch step schedules behind the tokens.                *)
TokensFirst ==
  {c \in Event \X Event :
     /\ c[1].type = "TOKEN_GENERATED"
     /\ c[2].type = "DECODE_COMPLETE" \/ c[2].type = "DECODE_BATCH_STEP"}

(* When events are related.                                                  *)
LEMMA OrderFacts ==
  ASSUME NEW e \in Event, NEW f \in Event
  PROVE  /\ <<e, f>> \in Twice <=>
              /\ e.type = f.type /\ e.req = f.req
              /\ e.type = "KV_TRANSFER_START" \/ e.type = "TOKEN_GENERATED"
         /\ <<e, f>> \in TransferOrder <=>
              /\ e.type = "KV_TRANSFER_START" /\ f.type = "KV_TRANSFER_COMPLETE"
              /\ e.req = f.req
         /\ <<e, f>> \in TokensFirst <=>
              /\ e.type = "TOKEN_GENERATED"
              /\ f.type = "DECODE_COMPLETE" \/ f.type = "DECODE_BATCH_STEP"
BY DEF Twice, TransferOrder, TokensFirst

(* PREFILL_COMPLETE: the transfer is announced once, its start before its    *)
(* end.                                                                      *)
LEMMA PrefillCompleteEffect ==
  ASSUME Inv, PrefillComplete
  PROVE  /\ Pop("PREFILL_COMPLETE") /\ Req \in Requests /\ At(Req, "prefilled")
         /\ Node \in PrefillNodes /\ Node = decisions[Req].prefill
         /\ pending' = pending \cup {Req}
         /\ metrics' = M!CountPrefillComplete(metrics, Req)
         /\ UNCHANGED decisions
         /\ RequestTransfer(Node, decisions[Req].decode, now', TransferCost)
         /\ \E A : /\ nodes' = [nodes EXCEPT ![Node] = A]
                   /\ A.decoding = nodes[Node].decoding
                   /\ nodes[Node].queue = <<>> =>
                        /\ A.queue = <<>> /\ Running(A) = Running(nodes[Node]) \ {Req}
                   /\ nodes[Node].queue # <<>> =>
                        /\ A.queue = Tail(nodes[Node].queue)
                        /\ Running(A) = (Running(nodes[Node]) \ {Req}) \cup {Head(nodes[Node].queue)}
         /\ \E es : /\ Scheduling(es) /\ Apart(es, Twice) /\ Respects(es, TransferOrder)
                    /\ \A e, f \in ToSet(es) :
                         e.type = "KV_TRANSFER_START" /\ f.type = "KV_TRANSFER_COMPLETE"
                           => e.time <= f.time
                    /\ HasIn(ToSet(es), Req, "KV_TRANSFER_START")
                    /\ HasIn(ToSet(es), Req, "KV_TRANSFER_COMPLETE")
                    /\ \A e \in ToSet(es) :
                         \/ e.type = "PREFILL_START" /\ e.req \in Waiting(nodes[Node])
                         \/ e.type = "KV_TRANSFER_START" /\ e.req = Req
                         \/ /\ e.type = "KV_TRANSFER_COMPLETE" /\ e.req = Req
                            /\ e.time = TransferStart(Node, decisions[Req].decode, now') + TransferCost
<1> DEFINE type == "PREFILL_COMPLETE"
<1>1. /\ Pop(type) /\ type \in Carriers
      /\ pending' = pending \cup {Req}
      /\ metrics' = M!CountPrefillComplete(metrics, Req)
      /\ UNCHANGED decisions
  BY DEF PrefillComplete, Carriers
<1>2. PICK r \in Requests : r = Req /\ At(r, "prefilled")
  BY <1>1, HeadAt
<1>3. PICK p : p = Node
  OBVIOUS
<1>4. PICK d : d = decisions[r].decode
  OBVIOUS
<1>5. /\ p = decisions[r].prefill /\ p \in PrefillNodes /\ p \in Nodes
      /\ d \in DecodeNodes /\ d \in Nodes
  <2>1. Fits(Head(events)) /\ Head(events).type = type /\ Typed
    BY <1>1, PopEffect
  <2>2. p = decisions[r].prefill
    BY <1>2, <1>3, <2>1 DEF Fits, Req, Node
  <2>3. r \in Decided
    BY <1>2 DEF At, Booked, Outside
  <2> QED
    BY <1>4, <2>1, <2>2, <2>3, Constants DEF Typed
<1>6. now' \in Nat /\ WellFormed(nodes[p]) /\ Typed
  BY <1>1, <1>5, PopEffect
<1>7. PICK busy \in BOOLEAN : busy = (nodes[p].queue # <<>>)
  OBVIOUS
<1> DEFINE N == nodes[p]
           B == Complete(N, r)
           h == Head(N.queue)
           ps == IF busy THEN <<Ev(now', "PREFILL_START", h, p)>> ELSE <<>>
<1>8. PICK start : start = TransferStart(p, d, now')
  OBVIOUS
<1>9. RequestTransfer(p, d, now', TransferCost)
  BY <1>2, <1>3, <1>4, <1>5 DEF PrefillComplete
<1>10. PICK a, b : /\ a = Ev(start, "KV_TRANSFER_START", r, "none")
                   /\ b = Ev(start + TransferCost, "KV_TRANSFER_COMPLETE", r, "none")
  OBVIOUS
<1>11. Promoted(N) = {} <=> ~busy
  BY <1>7 DEF Promoted
<1>12. Handle(ps \o <<a, b>>)
  <2>1. Handle((IF Promoted(N) = {} THEN <<>>
                ELSE <<Ev(now', "PREFILL_START", Head(N.queue), p)>>)
               \o <<Ev(start, "KV_TRANSFER_START", r, "none"),
                    Ev(start + TransferCost, "KV_TRANSFER_COMPLETE", r, "none")>>)
    BY <1>2, <1>3, <1>4, <1>5, <1>8 DEF PrefillComplete
  <2>2. (IF Promoted(N) = {} THEN <<>> ELSE <<Ev(now', "PREFILL_START", Head(N.queue), p)>>) = ps
    BY <1>11
  <2> QED
    BY <1>10, <2>1, <2>2
<1>13. PICK u \in Uncached :
         nodes' = [nodes EXCEPT ![p] = IF ~busy THEN B ELSE InitPromoted(B, h, u)]
  <2>1. \E u \in Uncached :
          nodes' = [nodes EXCEPT ![p] = IF Promoted(N) = {} THEN B
                                        ELSE InitPromoted(B, Head(N.queue), u)]
    BY <1>2, <1>3 DEF PrefillComplete
  <2> QED
    BY <1>11, <2>1
<1>14. /\ start \in Nat /\ start >= now' /\ start + TransferCost \in Nat
       /\ start + TransferCost >= start /\ start + TransferCost >= now'
  BY <1>5, <1>6, <1>8, <1>9, LaneFacts
<1>15. /\ a \in Event /\ a.time = start /\ a.type = "KV_TRANSFER_START" /\ a.req = r
       /\ b \in Event /\ b.time = start + TransferCost /\ b.type = "KV_TRANSFER_COMPLETE"
       /\ b.req = r
  <2>1. /\ r \in Nat /\ "none" \in Nodes \cup {"none"}
        /\ "KV_TRANSFER_START" \in Types /\ "KV_TRANSFER_COMPLETE" \in Types
    BY Constants DEF Types
  <2> QED
    BY <1>10, <1>14, <2>1, EventFacts
<1>16. r \in Running(N) /\ r \notin Prefilling(N) \cup N.decoding
  BY <1>2, <1>5 DEF At, Placed
<1> HIDE DEF B, ps, h
<1>17. /\ WellFormed(B) /\ B.decoding = N.decoding
       /\ B.tokens = [N.tokens EXCEPT ![r] = 0]
       /\ N.queue = <<>> => Running(B) = Running(N) \ {r} /\ B.queue = <<>>
       /\ N.queue # <<>> => /\ h \in Waiting(N)
                            /\ Running(B) = (Running(N) \ {r}) \cup {h}
                            /\ B.queue = Tail(N.queue)
  BY <1>6, <1>16, CompleteFacts DEF B, h
<1>18. busy => h \in Requests /\ h # r /\ N.tokens[h] = 0
  <2> SUFFICES ASSUME busy
               PROVE  h \in Requests /\ h # r /\ N.tokens[h] = 0
    OBVIOUS
  <2>1. h \in Waiting(N)
    BY <1>7, <1>17
  <2>2. h \in Requests /\ h \notin Running(N)
    BY <1>6, <2>1, NodeTypes DEF WellFormed
  <2>3. N.tokens[h] = 0
    BY <1>6, <2>2 DEF WellFormed
  <2> QED
    BY <1>16, <2>2, <2>3
<1> DEFINE A == IF ~busy THEN B ELSE InitPromoted(B, h, u)
<1>19. A.decoding = B.decoding /\ A.queue = B.queue /\ Running(A) = Running(B)
  <2>1. CASE ~busy
    BY <2>1
  <2>2. CASE busy
    <3>1. h \in Running(B) /\ B.tokens[h] = 0 /\ u \in Nat /\ A = InitPromoted(B, h, u)
      <4>1. N.tokens \in [Requests -> Nat]
        BY <1>6, NodeTypes
      <4> QED
        BY <1>7, <1>17, <1>18, <2>2, <4>1, Constants
    <3>2. WellFormed(B)
      BY <1>17
    <3> HIDE DEF A
    <3>3. SameSlots(B, A) /\ A.decoding = B.decoding
      BY <3>1, <3>2, InitPromotedFacts
    <3> QED
      BY <3>3 DEF SameSlots, Running
  <2> QED
    BY <2>1, <2>2
<1>20. nodes' = [nodes EXCEPT ![p] = A]
  BY <1>13
<1> HIDE DEF A
<1>21. PICK c : c = Ev(now', "PREFILL_START", h, p)
  OBVIOUS
<1>22. busy => /\ c \in Event /\ c.time = now' /\ c.type = "PREFILL_START"
               /\ c.req \in Waiting(N)
  <2> SUFFICES ASSUME busy
               PROVE  /\ c \in Event /\ c.time = now' /\ c.type = "PREFILL_START"
                      /\ c.req \in Waiting(N)
    OBVIOUS
  <2>1. h \in Nat /\ p \in Nodes \cup {"none"} /\ "PREFILL_START" \in Types
    BY <1>5, <1>18, Constants DEF Types
  <2>2. h \in Waiting(N)
    BY <1>7, <1>17
  <2>3. c \in Event /\ c.time = now' /\ c.type = "PREFILL_START" /\ c.req = h
    BY <1>6, <1>21, <2>1, EventFacts
  <2> QED
    BY <2>2, <2>3
<1> DEFINE ts == <<a, b>>
           es == ps \o ts
<1>23. /\ ts \in Seq(Event) /\ ToSet(ts) = {a, b}
       /\ Apart(ts, Twice) /\ Respects(ts, TransferOrder)
  <2>1. ts \in Seq(Event) /\ DOMAIN ts = {1, 2} /\ ts[1] = a /\ ts[2] = b
    BY <1>15
  <2>2. /\ <<a, b>> \notin Twice /\ <<b, a>> \notin Twice
        /\ <<a, a>> \notin TransferOrder /\ <<b, a>> \notin TransferOrder
        /\ <<b, b>> \notin TransferOrder
    BY <1>15, OrderFacts
  <2> HIDE DEF ts
  <2>3. ToSet(ts) = {a, b}
    BY <2>1 DEF ToSet
  <2>4. Apart(ts, Twice)
    BY <2>1, <2>2 DEF Apart
  <2>5. Respects(ts, TransferOrder)
    <3>1. \A i, j \in {1, 2} : <<ts[i], ts[j]>> \in TransferOrder => i = 1 /\ j = 2
      BY <2>1, <2>2
    <3>2. \A i, j : i = 1 /\ j = 2 => i < j
      OBVIOUS
    <3> QED
      BY <2>1, <3>1, <3>2, Zenon DEF Respects
  <2> QED
    BY <2>1, <2>3, <2>4, <2>5
<1>24. /\ ps \in Seq(Event) /\ ToSet(ps) = (IF busy THEN {c} ELSE {})
       /\ Apart(ps, Twice) /\ Respects(ps, TransferOrder)
  <2>1. CASE ~busy
    BY <1>15, <2>1, ShortLists DEF ps
  <2>2. CASE busy
    <3>1. ps = <<c>>
      BY <1>21, <2>2 DEF ps
    <3>2. c \in Event /\ <<c, c>> \notin TransferOrder
      BY <1>22, <2>2, OrderFacts
    <3> QED
      BY <2>2, <3>1, <3>2, ShortLists
  <2> QED
    BY <2>1, <2>2
<1>25. /\ es \in Seq(Event) /\ ToSet(es) = ToSet(ps) \cup ToSet(ts)
       /\ Apart(es, Twice) /\ Respects(es, TransferOrder)
  <2>1. \A e \in ToSet(ps), f \in ToSet(ts) : /\ <<e, f>> \notin Twice /\ <<f, e>> \notin Twice
                                              /\ <<f, e>> \notin TransferOrder
    <3>1. busy => /\ <<c, a>> \notin Twice /\ <<a, c>> \notin Twice
                  /\ <<c, b>> \notin Twice /\ <<b, c>> \notin Twice
                  /\ <<a, c>> \notin TransferOrder /\ <<b, c>> \notin TransferOrder
      BY <1>15, <1>22, OrderFacts
    <3> QED
      BY <1>23, <1>24, <3>1
  <2>2. ps \in Seq(Event) /\ ts \in Seq(Event) /\ Apart(ps, Twice) /\ Apart(ts, Twice)
        /\ Respects(ps, TransferOrder) /\ Respects(ts, TransferOrder)
    BY <1>23, <1>24
  <2> HIDE DEF ts
  <2>3. es \in Seq(Event) /\ ToSet(es) = ToSet(ps) \cup ToSet(ts) /\ Apart(es, Twice)
    BY <2>1, <2>2, JoinedApart
  <2>4. Respects(es, TransferOrder)
    BY <2>1, <2>2, JoinedRespects
  <2> QED
    BY <2>3, <2>4
<1>26. Handle(es)
  BY <1>12
<1> HIDE DEF es, ts
<1>27. \A e \in ToSet(es) : e = a \/ e = b \/ (busy /\ e = c)
  BY <1>23, <1>24, <1>25
<1>28. \A e \in ToSet(es) : e.time >= now'
  BY <1>6, <1>14, <1>15, <1>22, <1>27
<1>29. Scheduling(es)
  BY <1>1, <1>25, <1>26, <1>28, SchedulingFacts
<1>30. /\ \A e, f \in ToSet(es) :
            e.type = "KV_TRANSFER_START" /\ f.type = "KV_TRANSFER_COMPLETE" => e.time <= f.time
       /\ HasIn(ToSet(es), Req, "KV_TRANSFER_START") /\ HasIn(ToSet(es), Req, "KV_TRANSFER_COMPLETE")
       /\ \A e \in ToSet(es) : \/ e.type = "PREFILL_START" /\ e.req \in Waiting(N)
                               \/ e.type = "KV_TRANSFER_START" /\ e.req = Req
                               \/ /\ e.type = "KV_TRANSFER_COMPLETE" /\ e.req = Req
                                  /\ e.time = start + TransferCost
  <2>1. \A e, f \in ToSet(es) :
          e.type = "KV_TRANSFER_START" /\ f.type = "KV_TRANSFER_COMPLETE" => e.time <= f.time
    <3>1. \A e \in ToSet(es) : /\ e.type = "KV_TRANSFER_START" => e = a
                               /\ e.type = "KV_TRANSFER_COMPLETE" => e = b
      BY <1>15, <1>22, <1>27
    <3> QED
      BY <1>14, <1>15, <3>1
  <2>2. a \in ToSet(es) /\ b \in ToSet(es)
    BY <1>23, <1>25
  <2> QED
    BY <1>2, <1>15, <1>22, <1>27, <2>1, <2>2 DEF HasIn
<1>31. /\ nodes' = [nodes EXCEPT ![p] = A] /\ A.decoding = nodes[p].decoding
       /\ nodes[p].queue = <<>> => A.queue = <<>> /\ Running(A) = Running(nodes[p]) \ {r}
       /\ nodes[p].queue # <<>> => /\ A.queue = Tail(nodes[p].queue)
                                   /\ Running(A) = (Running(nodes[p]) \ {r}) \cup {Head(nodes[p].queue)}
  BY <1>17, <1>19, <1>20 DEF h
<1>32. start = TransferStart(Node, decisions[Req].decode, now')
  BY <1>2, <1>3, <1>4, <1>8
<1>33. RequestTransfer(Node, decisions[Req].decode, now', TransferCost)
  BY <1>2, <1>3, <1>4, <1>9
<1> HIDE DEF A
<1> QED
  BY <1>1, <1>2, <1>3, <1>5, <1>25, <1>29, <1>30, <1>31, <1>32, <1>33

(* A step makes one token of each stream.                                    *)
LEMMA TokensOnce ==
  ASSUME NEW S \in SUBSET Requests, NEW t \in Nat, NEW f \in [Requests -> Nat],
         NEW s \in Seq(S), ToSet(s) = S, IsInjective(s)
  PROVE  Apart(Tokens(t, s, f), Twice)
<1> DEFINE m == Tokens(t, s, f)
<1>1. DOMAIN m = DOMAIN s /\ \A i \in DOMAIN s : m[i] = Token(t, s[i], f[s[i]])
  BY DEF Tokens
<1>2. \A i \in DOMAIN s : s[i] \in Nat /\ f[s[i]] \in Nat
  <2>1. \A i \in DOMAIN s : s[i] \in S
    OBVIOUS
  <2>2. \A x \in S : x \in Nat /\ x \in Requests
    BY Constants
  <2> QED
    BY <2>1, <2>2
<1>3. \A i \in DOMAIN s : m[i] \in Event /\ m[i].req = s[i]
  <2> SUFFICES ASSUME NEW i \in DOMAIN s
               PROVE  m[i] \in Event /\ m[i].req = s[i]
    OBVIOUS
  <2>1. PICK x \in Nat, k \in Nat : x = s[i] /\ k = f[s[i]]
    BY <1>2
  <2>2. m[i] = Token(t, x, k)
    BY <1>1, <2>1
  <2>3. Token(t, x, k) \in Event /\ Token(t, x, k).req = x
    BY DEF Token, Event, Types
  <2> HIDE DEF m
  <2> QED
    BY <2>1, <2>2, <2>3
<1> HIDE DEF m
<1>4. \A i, j \in DOMAIN s : i # j => s[i] # s[j]
  BY DEF IsInjective
<1> SUFFICES ASSUME NEW i \in DOMAIN s, NEW j \in DOMAIN s, i # j
             PROVE  <<m[i], m[j]>> \notin Twice
  BY <1>1 DEF Apart, m
<1> QED
  BY <1>3, <1>4, OrderFacts, SMTT(40)

(* Lists without tokens, and lists without what comes behind them.           *)
LEMMA Tokenless ==
  ASSUME NEW s \in Seq(Event)
  PROVE  /\ (\A e \in ToSet(s) : e.type # "TOKEN_GENERATED") => Respects(s, TokensFirst)
         /\ (\A e \in ToSet(s) : e.type # "DECODE_COMPLETE" /\ e.type # "DECODE_BATCH_STEP")
              => Respects(s, TokensFirst)
         /\ (\A e \in ToSet(s) : e.type # "TOKEN_GENERATED" /\ e.type # "KV_TRANSFER_START")
              => Apart(s, Twice)
<1>1. \A i \in DOMAIN s : s[i] \in Event /\ s[i] \in ToSet(s)
  BY DEF ToSet
<1> QED
  BY <1>1, OrderFacts DEF Respects, Apart

(* What a batch step schedules: tokens, and behind them completions and the  *)
(* next step, all for the end of the step.                                   *)
StepList(es, N, n, end) ==
  /\ Apart(es, Twice) /\ Respects(es, TokensFirst)
  /\ \A x \in N.decoding : HasIn(ToSet(es), x, "TOKEN_GENERATED")
  /\ \A e \in ToSet(es) :
       /\ e.time = end
       /\ \/ e.type = "PREFILL_COMPLETE" /\ e.req \in PrefillFinished(N)
          \/ e.type = "TOKEN_GENERATED" /\ e.req \in N.decoding /\ e.step = N.tokens[e.req]
          \/ e.type = "DECODE_COMPLETE" /\ e.req \in DecodeFinished(N)
          \/ e.type = "DECODE_BATCH_STEP" /\ e.node = n

(* DECODE_BATCH_STEP.                                                        *)
LEMMA BatchStepEffect ==
  ASSUME Inv, BatchStep
  PROVE  /\ Pop("DECODE_BATCH_STEP") /\ Node \in Nodes
         /\ UNCHANGED <<decisions, pending, tables>>
         /\ metrics' = M!CountBatchStep(metrics, Cardinality(nodes[Node].decoding))
         /\ \E A : /\ nodes' = [nodes EXCEPT ![Node] = A] /\ SameSlots(nodes[Node], A)
                   /\ A.decoding = nodes[Node].decoding \ DecodeFinished(nodes[Node])
                   /\ \A r \in Requests :
                        A.tokens[r] = IF r \in nodes[Node].decoding
                                      THEN nodes[Node].tokens[r] + 1 ELSE nodes[Node].tokens[r]
                   /\ A.prefill = TickBatchStep(Cleared(nodes[Node])).prefill
         /\ \E es, end : /\ Scheduling(es) /\ StepList(es, nodes[Node], Node, end)
                         /\ end \in Nat /\ end >= now'
                         /\ end = now' + StepTime(Cleared(nodes[Node]))
<1> DEFINE type == "DECODE_BATCH_STEP"
<1>1. /\ Pop(type) /\ UNCHANGED <<decisions, pending, tables>>
  BY DEF BatchStep
<1>2. PICK n : n = Node
  OBVIOUS
<1>3. n \in Nodes /\ now' \in Nat
  <2>1. Fits(Head(events)) /\ Head(events).type = type /\ now' \in Nat
    BY <1>1, PopEffect
  <2> QED
    BY <1>2, <2>1 DEF Fits, Node
<1> DEFINE N == nodes[n]
<1>4. PICK W : W = Cleared(N)
  OBVIOUS
<1>5. PICK T, PF, DF, end : /\ T = TickBatchStep(W) /\ PF = PrefillFinished(W)
                            /\ DF = DecodeFinished(W) /\ end = now' + StepTime(W)
  OBVIOUS
<1>6. PICK sp, ss, sf : sp = SetToSeq(PF) /\ ss = SetToSeq(W.decoding) /\ sf = SetToSeq(DF)
  OBVIOUS
<1>7. PICK mp, ms, mf : /\ mp = Completions(end, "PREFILL_COMPLETE", sp, n)
                        /\ ms = Tokens(end, ss, W.tokens)
                        /\ mf = Completions(end, "DECODE_COMPLETE", sf, n)
  OBVIOUS
<1> DEFINE we == WakeEvents(T, n, end)
           es == mp \o ms \o mf \o we
           A == Woken(T)
<1>8. /\ Handle(es) /\ nodes' = [nodes EXCEPT ![n] = A]
      /\ metrics' = M!CountBatchStep(metrics, Cardinality(W.decoding))
  BY <1>2, <1>4, <1>5, <1>6, <1>7 DEF BatchStep, Cleared, Completions, Tokens
<1> HIDE DEF we, es, A
<1>9. WellFormed(N)
  BY <1>1, <1>3, PopEffect
<1>10. /\ WellFormed(W) /\ SameSlots(N, W) /\ W.decoding = N.decoding /\ W.tokens = N.tokens
       /\ Prefilling(W) = Prefilling(N) /\ StepTime(W) \in Nat
  BY <1>4, <1>9, ClearedFacts
<1>11. /\ WellFormed(T) /\ SameSlots(W, T) /\ T.decoding = W.decoding \ DF
       /\ PF \subseteq Prefilling(W)
       /\ T.tokens = [r \in Requests |-> IF r \in W.decoding THEN W.tokens[r] + 1 ELSE W.tokens[r]]
  BY <1>5, <1>10, TickFacts
<1>12. SameSlots(T, A) /\ A.decoding = T.decoding /\ A.tokens = T.tokens /\ A.prefill = T.prefill
  BY <1>11, WokenFacts DEF A
<1>13. DF = DecodeFinished(N) /\ PF = PrefillFinished(N)
  <2>1. W.prefill = N.prefill
    BY <1>4, <1>9, ClearedFacts
  <2> QED
    BY <1>5, <1>10, <2>1 DEF DecodeFinished, PrefillFinished
<1>14. /\ SameSlots(N, A) /\ A.decoding = N.decoding \ DecodeFinished(N)
       /\ \A r \in Requests :
            A.tokens[r] = IF r \in N.decoding THEN N.tokens[r] + 1 ELSE N.tokens[r]
       /\ A.prefill = TickBatchStep(Cleared(N)).prefill
  BY <1>4, <1>5, <1>10, <1>11, <1>12, <1>13 DEF SameSlots
<1>15. /\ PF \in SUBSET Requests /\ DF \in SUBSET Requests /\ W.decoding \in SUBSET Requests
       /\ W.tokens \in [Requests -> Nat]
  <2>1. /\ N.decoding \subseteq Requests /\ Prefilling(N) \subseteq Requests
        /\ N.tokens \in [Requests -> Nat]
    BY <1>9, NodeTypes
  <2>2. DF \subseteq N.decoding
    BY <1>13 DEF DecodeFinished
  <2> QED
    BY <1>10, <1>11, <2>1, <2>2
<1>16. end \in Nat /\ end >= now'
  <2>1. \A x, y \in Nat : x + y \in Nat /\ x + y >= x
    OBVIOUS
  <2> QED
    BY <1>3, <1>5, <1>10, <2>1
<1>17. IsFiniteSet(PF) /\ IsFiniteSet(DF) /\ IsFiniteSet(W.decoding)
  BY <1>15, Constants, FS_Subset
<1>18. /\ sp \in Seq(PF) /\ ToSet(sp) = PF /\ IsInjective(sp)
       /\ ss \in Seq(W.decoding) /\ ToSet(ss) = W.decoding /\ IsInjective(ss)
       /\ sf \in Seq(DF) /\ ToSet(sf) = DF /\ IsInjective(sf)
  BY <1>6, <1>17, SetToSeqFacts
<1>19. mp \in Seq(Event) /\ \A e \in ToSet(mp) : /\ e.time = end /\ e.type = "PREFILL_COMPLETE"
                                                 /\ e.req \in PF
  <2>1. PICK c : c = "PREFILL_COMPLETE"
    OBVIOUS
  <2>2. c \in Carriers /\ n \in Nodes /\ end \in Nat
    BY <1>3, <1>16, <2>1 DEF Carriers
  <2>3. PF \in SUBSET Requests /\ sp \in Seq(PF) /\ ToSet(sp) = PF /\ IsInjective(sp)
    BY <1>15, <1>18
  <2>4. mp = Completions(end, c, sp, n)
    BY <1>7, <2>1
  <2>5. /\ Completions(end, c, sp, n) \in Seq(Event)
        /\ \A e \in ToSet(Completions(end, c, sp, n)) : e.time = end /\ e.type = c /\ e.req \in PF
    BY <2>2, <2>3, CompletionList
  <2> QED
    BY <2>1, <2>4, <2>5
<1>20. mf \in Seq(Event) /\ \A e \in ToSet(mf) : /\ e.time = end /\ e.type = "DECODE_COMPLETE"
                                                 /\ e.req \in DF
  <2>1. PICK c : c = "DECODE_COMPLETE"
    OBVIOUS
  <2>2. c \in Carriers /\ n \in Nodes /\ end \in Nat
    BY <1>3, <1>16, <2>1 DEF Carriers
  <2>3. DF \in SUBSET Requests /\ sf \in Seq(DF) /\ ToSet(sf) = DF /\ IsInjective(sf)
    BY <1>15, <1>18
  <2>4. mf = Completions(end, c, sf, n)
    BY <1>7, <2>1
  <2>5. /\ Completions(end, c, sf, n) \in Seq(Event)
        /\ \A e \in ToSet(Completions(end, c, sf, n)) : e.time = end /\ e.type = c /\ e.req \in DF
    BY <2>2, <2>3, CompletionList
  <2> QED
    BY <2>1, <2>4, <2>5
<1>21. /\ ms \in Seq(Event) /\ Apart(ms, Twice)
       /\ \A e \in ToSet(ms) : /\ e.time = end /\ e.type = "TOKEN_GENERATED"
                               /\ e.req \in N.decoding /\ e.step = N.tokens[e.req]
       /\ \A x \in N.decoding : \E e \in ToSet(ms) : e.req = x
  <2>1. W.decoding \in SUBSET Requests /\ end \in Nat /\ W.tokens \in [Requests -> Nat]
    BY <1>15, <1>16
  <2>2. ss \in Seq(W.decoding) /\ ToSet(ss) = W.decoding /\ IsInjective(ss)
    BY <1>18
  <2>3. ms = Tokens(end, ss, W.tokens)
    BY <1>7
  <2>4. /\ ms \in Seq(Event)
        /\ \A e \in ToSet(ms) : /\ e.time = end /\ e.type = "TOKEN_GENERATED"
                                /\ e.req \in W.decoding /\ e.step = W.tokens[e.req]
        /\ \A x \in W.decoding : \E e \in ToSet(ms) : e.req = x
    BY <2>1, <2>2, <2>3, TokenList, SMTT(40)
  <2>5. Apart(ms, Twice)
    BY <2>1, <2>2, <2>3, TokensOnce
  <2> QED
    BY <1>10, <2>4, <2>5
<1>22. PICK a : a = Ev(end, "DECODE_BATCH_STEP", 0, n)
  OBVIOUS
<1>23. a \in Event /\ a.time = end /\ a.type = "DECODE_BATCH_STEP" /\ a.node = n
  <2>1. n \in Nodes \cup {"none"} /\ "DECODE_BATCH_STEP" \in Types
    BY <1>3 DEF Types
  <2> QED
    BY <1>16, <1>22, <2>1, EventFacts
<1>24. we \in Seq(Event) /\ \A e \in ToSet(we) : e = a
  <2>1. we \in Seq(Event) /\ ToSet(we) = IF MustWake(T) THEN {a} ELSE {}
    BY <1>3, <1>16, <1>22, WakeEventsFacts DEF we
  <2> QED
    BY <2>1
<1>25. PICK m2 : m2 = mp \o ms
  OBVIOUS
<1>26. PICK m3 : m3 = mf \o we
  OBVIOUS
<1>27. /\ m2 \in Seq(Event) /\ ToSet(m2) = ToSet(mp) \cup ToSet(ms)
       /\ Apart(m2, Twice) /\ Respects(m2, TokensFirst)
  <2>1. mp \in Seq(Event) /\ ms \in Seq(Event) /\ Apart(mp, Twice) /\ Apart(ms, Twice)
    BY <1>19, <1>21, Tokenless
  <2>2. \A e \in ToSet(mp), f \in ToSet(ms) : <<e, f>> \notin Twice /\ <<f, e>> \notin Twice
    <3>1. \A e \in ToSet(mp), f \in ToSet(ms) : e \in Event /\ f \in Event /\ e.type # f.type
      BY <1>19, <1>21, <2>1 DEF ToSet
    <3> QED
      BY <3>1, OrderFacts
  <2>3. m2 \in Seq(Event) /\ ToSet(m2) = ToSet(mp) \cup ToSet(ms) /\ Apart(m2, Twice)
    BY <1>25, <2>1, <2>2, JoinedApart
  <2>4. \A e \in ToSet(m2) : e.type # "DECODE_COMPLETE" /\ e.type # "DECODE_BATCH_STEP"
    BY <1>19, <1>21, <2>3
  <2> QED
    BY <2>3, <2>4, Tokenless
<1>28. /\ m3 \in Seq(Event) /\ ToSet(m3) = ToSet(mf) \cup ToSet(we)
       /\ \A e \in ToSet(m3) : e.type = "DECODE_COMPLETE" \/ e.type = "DECODE_BATCH_STEP"
  <2>1. m3 \in Seq(Event) /\ ToSet(m3) = ToSet(mf) \cup ToSet(we)
    <3>1. mf \in Seq(Event) /\ we \in Seq(Event)
      BY <1>20, <1>24
    <3> QED
      BY ONLY <1>26, <3>1, JoinedTwo
  <2> QED
    BY <1>20, <1>23, <1>24, <2>1
<1>29. es = m2 \o m3
  <2>1. mp \in Seq(Event) /\ ms \in Seq(Event) /\ mf \in Seq(Event) /\ we \in Seq(Event)
    BY <1>19, <1>20, <1>21, <1>24
  <2>2. es = (m2 \o mf) \o we /\ m2 \in Seq(Event)
    BY <1>25, <1>27 DEF es
  <2>3. (m2 \o mf) \o we = m2 \o (mf \o we)
    BY <2>1, <2>2, ConcatAssociative, SMTT(40)
  <2> QED
    BY <1>26, <2>2, <2>3
<1>30. /\ es \in Seq(Event) /\ ToSet(es) = ToSet(m2) \cup ToSet(m3)
       /\ Apart(es, Twice) /\ Respects(es, TokensFirst)
  <2>1. /\ m2 \in Seq(Event) /\ m3 \in Seq(Event) /\ Apart(m2, Twice) /\ Apart(m3, Twice)
        /\ Respects(m2, TokensFirst) /\ Respects(m3, TokensFirst)
    BY <1>27, <1>28, Tokenless
  <2>2. \A e \in ToSet(m2), f \in ToSet(m3) : /\ <<e, f>> \notin Twice /\ <<f, e>> \notin Twice
                                              /\ <<f, e>> \notin TokensFirst
    <3>1. \A e \in ToSet(m2), f \in ToSet(m3) :
            e \in Event /\ f \in Event /\ e.type # f.type /\ f.type # "TOKEN_GENERATED"
      <4>1. \A e \in ToSet(m2) : e.type # "DECODE_COMPLETE" /\ e.type # "DECODE_BATCH_STEP"
        BY <1>19, <1>21, <1>27
      <4>2. ToSet(m2) \subseteq Event /\ ToSet(m3) \subseteq Event
        BY <2>1 DEF ToSet
      <4> QED
        BY <1>28, <4>1, <4>2
    <3> QED
      BY <3>1, OrderFacts
  <2>3. es \in Seq(Event) /\ ToSet(es) = ToSet(m2) \cup ToSet(m3) /\ Apart(es, Twice)
    BY <1>29, <2>1, <2>2, JoinedApart
  <2>4. Respects(es, TokensFirst)
    BY <1>29, <2>1, <2>2, JoinedRespects
  <2> QED
    BY <2>3, <2>4
<1>31. ToSet(es) = ((ToSet(mp) \cup ToSet(ms)) \cup ToSet(mf)) \cup ToSet(we)
  BY <1>27, <1>28, <1>30
<1>32. /\ \A x \in N.decoding : HasIn(ToSet(es), x, "TOKEN_GENERATED")
       /\ \A e \in ToSet(es) :
            /\ e.time = end
            /\ \/ e.type = "PREFILL_COMPLETE" /\ e.req \in PrefillFinished(N)
               \/ e.type = "TOKEN_GENERATED" /\ e.req \in N.decoding /\ e.step = N.tokens[e.req]
               \/ e.type = "DECODE_COMPLETE" /\ e.req \in DecodeFinished(N)
               \/ e.type = "DECODE_BATCH_STEP" /\ e.node = n
  <2>1. \A x \in N.decoding : HasIn(ToSet(es), x, "TOKEN_GENERATED")
    BY <1>21, <1>31 DEF HasIn
  <2>2. ASSUME NEW e \in ToSet(es)
        PROVE  /\ e.time = end
               /\ \/ e.type = "PREFILL_COMPLETE" /\ e.req \in PrefillFinished(N)
                  \/ e.type = "TOKEN_GENERATED" /\ e.req \in N.decoding /\ e.step = N.tokens[e.req]
                  \/ e.type = "DECODE_COMPLETE" /\ e.req \in DecodeFinished(N)
                  \/ e.type = "DECODE_BATCH_STEP" /\ e.node = n
    <3>1. e \in ToSet(mp) \/ e \in ToSet(ms) \/ e \in ToSet(mf) \/ e = a
      BY <1>24, <1>31
    <3> QED
      BY <1>13, <1>19, <1>20, <1>21, <1>23, <3>1
  <2> QED
    BY <2>1, <2>2
<1>33. \A e \in ToSet(es) : e.time >= now'
  BY <1>16, <1>32
<1>34. Scheduling(es)
  BY <1>1, <1>8, <1>30, <1>33, SchedulingFacts
<1>35. StepList(es, N, n, end)
  BY <1>30, <1>32 DEF StepList
<1> QED
  BY <1>1, <1>2, <1>3, <1>4, <1>5, <1>8, <1>10, <1>14, <1>16, <1>34, <1>35

-----------------------------------------------------------------------------
(* The collector.                                                            *)

(* The values of the collector.                                              *)
Collected ==
  [arrived : Nat, completed : Nat, rejected : Nat, decodeTokens : Nat,
   prefills : SUBSET Requests, decodes : SUBSET Requests, chunks : SUBSET Requests,
   seen : SUBSET Requests, transfers : Nat,
   arrivedAt : [Requests -> Int], ttft : [Requests -> Int], lastStep : [Requests -> Int],
   e2e : [Requests -> Int], tbt : [Requests -> Nat], tbtTime : [Requests -> Int],
   skipped : Nat]


(* The collector m has become k with the same counts, live sets, or samples. *)
SameCounts(m, k) ==
  k.arrived = m.arrived /\ k.completed = m.completed /\ k.rejected = m.rejected
SameMarks(m, k) ==
  k.prefills = m.prefills /\ k.decodes = m.decodes /\ k.chunks = m.chunks
SameSamples(m, k) ==
  /\ k.arrivedAt = m.arrivedAt /\ k.ttft = m.ttft /\ k.lastStep = m.lastStep
  /\ k.tbt = m.tbt /\ k.tbtTime = m.tbtTime /\ k.skipped = m.skipped

(* REQUEST_ARRIVE.                                                           *)
LEMMA CountArriveFacts ==
  ASSUME NEW m \in Collected, NEW r \in Requests, NEW t \in Nat, NEW k,
         k = M!CountArrive(m, r, t)
  PROVE  /\ k \in Collected /\ k.arrived = m.arrived + 1 /\ k.completed = m.completed
         /\ k.rejected = m.rejected /\ SameMarks(m, k) /\ k.seen = m.seen
<1>1. m.arrived \in Nat /\ m.arrivedAt \in [Requests -> Int]
  BY DEF Collected
<1>2. PICK x \in Nat, f \in [Requests -> Int] :
        x = m.arrived + 1 /\ f = [m.arrivedAt EXCEPT ![r] = t]
  <2>1. m.arrived + 1 \in Nat /\ [m.arrivedAt EXCEPT ![r] = t] \in [Requests -> Int]
    BY <1>1
  <2> QED
    BY <2>1
<1>3. k = [m EXCEPT !.arrived = x, !.arrivedAt = f]
  BY <1>2 DEF M!CountArrive
<1>4. k \in Collected
  BY <1>3 DEF Collected
<1> QED
  BY <1>2, <1>3, <1>4 DEF Collected, SameMarks

(* It records the time of the arrival.                                       *)
LEMMA CountArriveTimes ==
  ASSUME NEW m \in Collected, NEW r \in Requests, NEW t \in Nat, NEW k,
         k = M!CountArrive(m, r, t)
  PROVE  /\ k.ttft = m.ttft /\ k.lastStep = m.lastStep /\ k.tbt = m.tbt
         /\ k.tbtTime = m.tbtTime /\ k.skipped = m.skipped /\ k.e2e = m.e2e
         /\ k.arrivedAt[r] = t
         /\ \A q \in Requests : q # r => k.arrivedAt[q] = m.arrivedAt[q]
<1>1. m.arrived \in Nat /\ m.arrivedAt \in [Requests -> Int]
  BY DEF Collected
<1>2. PICK x \in Nat, f \in [Requests -> Int] :
        x = m.arrived + 1 /\ f = [m.arrivedAt EXCEPT ![r] = t]
  <2>1. m.arrived + 1 \in Nat /\ [m.arrivedAt EXCEPT ![r] = t] \in [Requests -> Int]
    BY <1>1
  <2> QED
    BY <2>1
<1>3. k = [m EXCEPT !.arrived = x, !.arrivedAt = f]
  BY <1>2 DEF M!CountArrive
<1>4. k \in Collected
  BY <1>3 DEF Collected
<1> QED
  BY <1>2, <1>3, <1>4 DEF Collected, SameMarks

(* REQUEST_REJECTED.                                                         *)
LEMMA CountRejectedFacts ==
  ASSUME NEW m \in Collected, NEW r \in Requests, NEW k, k = M!CountRejected(m, r)
  PROVE  /\ k \in Collected /\ k.arrived = m.arrived /\ k.completed = m.completed
         /\ k.rejected = m.rejected + 1 /\ k.seen = m.seen
         /\ k.prefills = m.prefills \ {r} /\ k.decodes = m.decodes /\ k.chunks = m.chunks \ {r}
         /\ SameSamples(m, k) /\ k.e2e = m.e2e
<1>1. m.rejected \in Nat /\ m.prefills \in SUBSET Requests /\ m.chunks \in SUBSET Requests
  BY DEF Collected
<1>2. PICK x \in Nat, P \in SUBSET Requests, C \in SUBSET Requests :
        x = m.rejected + 1 /\ P = m.prefills \ {r} /\ C = m.chunks \ {r}
  <2>1. /\ m.rejected + 1 \in Nat /\ m.prefills \ {r} \in SUBSET Requests
        /\ m.chunks \ {r} \in SUBSET Requests
    BY <1>1
  <2> QED
    BY <2>1
<1>3. k = [m EXCEPT !.rejected = x, !.chunks = C, !.prefills = P]
  BY <1>2 DEF M!CountRejected
<1>4. k \in Collected
  BY <1>3 DEF Collected
<1> QED
  BY <1>2, <1>3, <1>4 DEF Collected, SameSamples

(* PREFILL_START.                                                            *)
LEMMA CountPrefillStartFacts ==
  ASSUME NEW m \in Collected, NEW r \in Requests, NEW k, k = M!CountPrefillStart(m, r)
  PROVE  /\ k \in Collected /\ SameCounts(m, k) /\ k.seen = m.seen
         /\ k.prefills = m.prefills \cup {r} /\ k.decodes = m.decodes
         /\ k.chunks = m.chunks \cup {r}
         /\ SameSamples(m, k) /\ k.e2e = m.e2e
BY DEF M!CountPrefillStart, Collected, SameSamples, SameCounts

(* PREFILL_COMPLETE.                                                         *)
LEMMA CountPrefillCompleteFacts ==
  ASSUME NEW m \in Collected, NEW r \in Requests, NEW k, k = M!CountPrefillComplete(m, r)
  PROVE  /\ k \in Collected /\ SameCounts(m, k) /\ k.seen = m.seen
         /\ k.prefills = m.prefills \ {r} /\ k.decodes = m.decodes /\ k.chunks = m.chunks
         /\ SameSamples(m, k) /\ k.e2e = m.e2e
BY DEF M!CountPrefillComplete, Collected, SameSamples, SameCounts

(* KV_TRANSFER_START.                                                        *)
LEMMA CountTransferStartFacts ==
  ASSUME NEW m \in Collected, NEW r \in Requests, NEW k, k = M!CountTransferStart(m, r)
  PROVE  /\ k \in Collected /\ SameCounts(m, k) /\ k.seen = m.seen \cup {r}
         /\ SameMarks(m, k) /\ SameSamples(m, k) /\ k.e2e = m.e2e
BY DEF M!CountTransferStart, Collected, SameSamples, SameCounts, SameMarks

(* KV_TRANSFER_COMPLETE.                                                     *)
LEMMA CountTransferCompleteFacts ==
  ASSUME NEW m \in Collected, NEW r \in Requests, NEW k, k = M!CountTransferComplete(m, r)
  PROVE  /\ k \in Collected /\ SameCounts(m, k) /\ k.seen = m.seen \ {r}
         /\ SameMarks(m, k) /\ SameSamples(m, k) /\ k.e2e = m.e2e
<1>1. CASE r \in m.seen
  <2>1. m.transfers \in Nat /\ m.seen \in SUBSET Requests
    BY DEF Collected
  <2>2. PICK x \in Nat, S \in SUBSET Requests : x = m.transfers + 1 /\ S = m.seen \ {r}
    <3>1. m.transfers + 1 \in Nat /\ m.seen \ {r} \in SUBSET Requests
      BY <2>1
    <3> QED
      BY <3>1
  <2>3. k = [m EXCEPT !.seen = S, !.transfers = x]
    BY <1>1, <2>2 DEF M!CountTransferComplete
  <2>4. k \in Collected
    BY <2>3 DEF Collected
  <2> QED
    BY <2>2, <2>3, <2>4 DEF Collected, SameSamples, SameCounts, SameMarks
<1>2. CASE r \notin m.seen
  <2>1. k = m
    BY <1>2 DEF M!CountTransferComplete
  <2> QED
    BY <1>2, <2>1 DEF Collected, SameSamples, SameCounts, SameMarks
<1> QED
  BY <1>1, <1>2

(* DECODE_BATCH_STEP.                                                        *)
LEMMA CountBatchStepFacts ==
  ASSUME NEW m \in Collected, NEW b \in Nat, NEW k, k = M!CountBatchStep(m, b)
  PROVE  /\ k \in Collected /\ SameCounts(m, k) /\ k.seen = m.seen
         /\ SameMarks(m, k) /\ SameSamples(m, k) /\ k.e2e = m.e2e
BY DEF M!CountBatchStep, Collected, SameSamples, SameCounts, SameMarks

(* TOKEN_GENERATED, whichever token it is.                                   *)
LEMMA CountTokenFacts ==
  ASSUME NEW m \in Collected, NEW r \in Requests, NEW s \in Nat, NEW t \in Nat, NEW k,
         k = M!CountToken(m, r, s, t)
  PROVE  /\ k \in Collected /\ SameCounts(m, k) /\ k.seen = m.seen
         /\ k.prefills = m.prefills /\ k.chunks = m.chunks /\ k.decodes \subseteq m.decodes \cup {r}
         /\ k.arrivedAt = m.arrivedAt /\ k.e2e = m.e2e
<1>1. /\ m.ttft \in [Requests -> Int] /\ m.lastStep \in [Requests -> Int]
      /\ m.arrivedAt \in [Requests -> Int] /\ m.decodes \in SUBSET Requests
      /\ m.tbt \in [Requests -> Nat] /\ m.tbtTime \in [Requests -> Int] /\ m.skipped \in Nat
  BY DEF Collected
<1>2. PICK f \in [Requests -> Int], g \in [Requests -> Int], D \in SUBSET Requests,
           x \in [Requests -> Nat], y \in [Requests -> Int], z \in Nat :
        /\ f = [m.ttft EXCEPT ![r] = t - m.arrivedAt[r]]
        /\ g = [m.lastStep EXCEPT ![r] = t] /\ D = m.decodes \cup {r}
        /\ x = [m.tbt EXCEPT ![r] = @ + 1]
        /\ y = [m.tbtTime EXCEPT ![r] = @ + t - m.lastStep[r]] /\ z = m.skipped + 1
  <2>1. [m.ttft EXCEPT ![r] = t - m.arrivedAt[r]] \in [Requests -> Int]
    BY <1>1
  <2>2. [m.lastStep EXCEPT ![r] = t] \in [Requests -> Int] /\ m.decodes \cup {r} \in SUBSET Requests
    BY <1>1
  <2>3. [m.tbt EXCEPT ![r] = @ + 1] \in [Requests -> Nat] /\ m.skipped + 1 \in Nat
    BY <1>1
  <2>4. [m.tbtTime EXCEPT ![r] = @ + t - m.lastStep[r]] \in [Requests -> Int]
    BY <1>1
  <2> QED
    BY <2>1, <2>2, <2>3, <2>4
<1>3. CASE s = 0 /\ m.ttft[r] # M!None
  <2>1. k = m
    BY <1>3 DEF M!CountToken
  <2> QED
    BY <2>1 DEF SameCounts
<1>4. CASE s = 0 /\ m.ttft[r] = M!None
  <2>1. k = [m EXCEPT !.ttft = f, !.lastStep = g, !.decodes = D]
    BY <1>2, <1>4 DEF M!CountToken
  <2>2. k \in Collected
    BY <2>1 DEF Collected
  <2>3. k.decodes = D /\ D \subseteq m.decodes \cup {r}
    <3>1. k.decodes = D
      BY <2>1 DEF Collected
    <3>2. D \subseteq m.decodes \cup {r}
      BY <1>2
    <3> QED
      BY <3>1, <3>2
  <2>4. /\ SameCounts(m, k) /\ k.seen = m.seen /\ k.prefills = m.prefills /\ k.chunks = m.chunks
        /\ k.arrivedAt = m.arrivedAt /\ k.e2e = m.e2e
    BY <2>1 DEF Collected, SameCounts
  <2> QED
    BY <2>2, <2>3, <2>4
<1>5. CASE s > 0 /\ m.lastStep[r] = M!None
  <2>1. k = [m EXCEPT !.lastStep = g, !.skipped = z]
    BY <1>2, <1>5 DEF M!CountToken
  <2>2. k \in Collected
    BY <2>1 DEF Collected
  <2> QED
    BY <2>1, <2>2 DEF Collected, SameCounts
<1>6. CASE s > 0 /\ m.lastStep[r] # M!None
  <2>1. k = [m EXCEPT !.tbt = x, !.tbtTime = y, !.lastStep = g]
    BY <1>2, <1>6 DEF M!CountToken
  <2>2. k \in Collected
    BY <2>1 DEF Collected
  <2> QED
    BY <2>1, <2>2 DEF Collected, SameCounts
<1> QED
  BY <1>3, <1>4, <1>5, <1>6

(* The first token gives the TTFT.                                           *)
LEMMA CountTokenFirst ==
  ASSUME NEW m \in Collected, NEW r \in Requests, NEW t \in Nat, NEW k,
         k = M!CountToken(m, r, 0, t), m.ttft[r] = M!None
  PROVE  /\ k.ttft[r] = t - m.arrivedAt[r] /\ k.lastStep[r] = t
         /\ k.tbt = m.tbt /\ k.tbtTime = m.tbtTime /\ k.skipped = m.skipped
         /\ \A q \in Requests : q # r => k.ttft[q] = m.ttft[q] /\ k.lastStep[q] = m.lastStep[q]
<1>1. m.ttft \in [Requests -> Int] /\ m.lastStep \in [Requests -> Int]
  BY DEF Collected
<1>2. PICK f, g, D : /\ f = [m.ttft EXCEPT ![r] = t - m.arrivedAt[r]]
                     /\ g = [m.lastStep EXCEPT ![r] = t] /\ D = m.decodes \cup {r}
  OBVIOUS
<1>3. k = [m EXCEPT !.ttft = f, !.lastStep = g, !.decodes = D]
  BY <1>2 DEF M!CountToken
<1>4. /\ k.ttft = f /\ k.lastStep = g
      /\ k.tbt = m.tbt /\ k.tbtTime = m.tbtTime /\ k.skipped = m.skipped
  BY <1>3 DEF Collected
<1>5. f[r] = t - m.arrivedAt[r] /\ g[r] = t
  BY <1>1, <1>2
<1>6. \A q \in Requests : q # r => f[q] = m.ttft[q] /\ g[q] = m.lastStep[q]
  BY <1>1, <1>2
<1> QED
  BY <1>4, <1>5, <1>6

(* A later one is a TBT sample.                                              *)
LEMMA CountTokenNext ==
  ASSUME NEW m \in Collected, NEW r \in Requests, NEW s \in Nat, NEW t \in Nat, NEW k,
         k = M!CountToken(m, r, s, t), s > 0, m.lastStep[r] # M!None
  PROVE  /\ k.ttft = m.ttft /\ k.skipped = m.skipped
         /\ k.lastStep[r] = t /\ k.tbt[r] = m.tbt[r] + 1
         /\ k.tbtTime[r] = m.tbtTime[r] + t - m.lastStep[r]
         /\ \A q \in Requests : q # r => /\ k.lastStep[q] = m.lastStep[q]
                                         /\ k.tbt[q] = m.tbt[q] /\ k.tbtTime[q] = m.tbtTime[q]
<1>1. /\ m.tbt \in [Requests -> Nat] /\ m.tbtTime \in [Requests -> Int]
      /\ m.lastStep \in [Requests -> Int]
  BY DEF Collected
<1>2. PICK x, y, g : /\ x = [m.tbt EXCEPT ![r] = @ + 1]
                     /\ y = [m.tbtTime EXCEPT ![r] = @ + t - m.lastStep[r]]
                     /\ g = [m.lastStep EXCEPT ![r] = t]
  OBVIOUS
<1>3. k = [m EXCEPT !.tbt = x, !.tbtTime = y, !.lastStep = g]
  BY <1>2 DEF M!CountToken
<1>4. /\ k.ttft = m.ttft /\ k.skipped = m.skipped
      /\ k.lastStep = g /\ k.tbt = x /\ k.tbtTime = y
  BY <1>3 DEF Collected
<1>5. g[r] = t /\ x[r] = m.tbt[r] + 1 /\ y[r] = m.tbtTime[r] + t - m.lastStep[r]
  BY <1>1, <1>2
<1>6. \A q \in Requests : q # r => g[q] = m.lastStep[q] /\ x[q] = m.tbt[q] /\ y[q] = m.tbtTime[q]
  BY <1>1, <1>2
<1> QED
  BY <1>4, <1>5, <1>6

(* DECODE_COMPLETE.                                                          *)
LEMMA CountDecodeCompleteFacts ==
  ASSUME NEW m \in Collected, NEW r \in Requests, NEW t \in Nat, NEW k,
         k = M!CountDecodeComplete(m, r, t)
  PROVE  /\ k \in Collected /\ k.arrived = m.arrived /\ k.completed = m.completed + 1
         /\ k.rejected = m.rejected /\ k.seen = m.seen
         /\ k.prefills = m.prefills /\ k.decodes = m.decodes \ {r} /\ k.chunks = m.chunks \ {r}
         /\ SameSamples(m, k) /\ k.e2e[r] = t - m.arrivedAt[r]
         /\ \A q \in Requests : q # r => k.e2e[q] = m.e2e[q]
<1>1. /\ m.completed \in Nat /\ m.e2e \in [Requests -> Int] /\ m.arrivedAt \in [Requests -> Int]
      /\ m.chunks \in SUBSET Requests /\ m.decodes \in SUBSET Requests
  BY DEF Collected
<1>2. PICK x \in Nat, f \in [Requests -> Int], C \in SUBSET Requests, D \in SUBSET Requests :
        /\ x = m.completed + 1 /\ f = [m.e2e EXCEPT ![r] = t - m.arrivedAt[r]]
        /\ C = m.chunks \ {r} /\ D = m.decodes \ {r}
  <2>1. [m.e2e EXCEPT ![r] = t - m.arrivedAt[r]] \in [Requests -> Int]
    BY <1>1
  <2>2. /\ m.completed + 1 \in Nat /\ m.chunks \ {r} \in SUBSET Requests
        /\ m.decodes \ {r} \in SUBSET Requests
    BY <1>1
  <2> QED
    BY <2>1, <2>2
<1>3. k = [m EXCEPT !.completed = x, !.e2e = f, !.chunks = C, !.decodes = D]
  BY <1>2 DEF M!CountDecodeComplete
<1>4. k \in Collected
  BY <1>3, ZenonT(40) DEF Collected
<1>5. /\ k.arrived = m.arrived /\ k.completed = x /\ k.rejected = m.rejected /\ k.seen = m.seen
      /\ k.prefills = m.prefills /\ k.decodes = D /\ k.chunks = C
      /\ SameSamples(m, k) /\ k.e2e = f
  BY <1>3 DEF Collected, SameSamples
<1>6. f[r] = t - m.arrivedAt[r] /\ \A q \in Requests : q # r => f[q] = m.e2e[q]
  BY <1>1, <1>2
<1> QED
  BY <1>2, <1>4, <1>5, <1>6

-----------------------------------------------------------------------------
(* The invariant.                                                            *)

(* A token, and the completion of its request or the next step of its        *)
(* stream.                                                                   *)
TokenOrder ==
  {c \in Event \X Event :
     /\ c[1].type = "TOKEN_GENERATED"
     /\ \/ c[2].type = "DECODE_COMPLETE" /\ c[1].req = c[2].req
        \/ c[2].type = "DECODE_BATCH_STEP" /\ c[1].req \in nodes[c[2].node].decoding}

(* No notice is queued twice, and all are in order.                          *)
Notices ==
  /\ Apart(events, Twice)
  /\ Respects(events, TransferOrder)
  /\ Respects(events, TokenOrder)

(* The start of a transfer is announced or was counted as long as the        *)
(* transfer is pending.                                                      *)
Transfers ==
  /\ metrics.seen \subseteq pending
  /\ \A r \in Requests :
       /\ Has(r, "KV_TRANSFER_START") => r \in pending /\ r \notin metrics.seen
       /\ r \in pending => Has(r, "KV_TRANSFER_START") \/ r \in metrics.seen

(* The requests that have arrived and are neither completed nor counted as   *)
(* rejected.                                                                 *)
Live == {r \in Requests : r \in Decided \/ Has(r, "REQUEST_REJECTED")}

(* The counters add up, and arrivals come in the order of ids.               *)
Counts ==
  /\ metrics.arrived = metrics.completed + metrics.rejected + Cardinality(Live)
  /\ \A e \in Queued : e.type = "REQUEST_ARRIVE" => e.req = metrics.arrived + 1
  /\ (\A e \in Queued : e.type # "REQUEST_ARRIVE") => metrics.arrived = Cardinality(Requests)

(* The requests with a slot of their prefill node, or of their decode node.  *)
InPrefill == {r \in Decided : r \in Running(nodes[decisions[r].prefill])}
InDecode == {r \in Decided : r \in Running(nodes[decisions[r].decode])}

(* The live sets of the collector name requests that are where they should   *)
(* be, and so do the tokens in the queue.                                    *)
Marks ==
  /\ metrics.prefills \subseteq InPrefill
  /\ metrics.decodes \subseteq InDecode
  /\ metrics.chunks \subseteq Live
  /\ \A e \in Queued : e.type = "TOKEN_GENERATED" => e.req \in InDecode

(* The ledger.                                                               *)
Ledger == metrics \in Collected /\ Notices /\ Transfers /\ Counts /\ Marks

-----------------------------------------------------------------------------
(* Which events are queued afterwards.                                       *)

(* What is queued after a handler was behind the head or is scheduled by it. *)
LEMMA NoticeAfter ==
  ASSUME Inv, NEW type, Pop(type), NEW es, Scheduling(es)
  PROVE  /\ \A q, c : Has(q, c)' <=> HasIn(Rest, q, c) \/ HasIn(ToSet(es), q, c)
         /\ \A q, c : c # type => (HasIn(Rest, q, c) <=> Has(q, c))
         /\ \A q, c : q # Req => (HasIn(Rest, q, c) <=> Has(q, c))
         /\ Has(Req, type)
<1>1. Queued = {Head(events)} \cup Rest /\ Head(events).type = type /\ Head(events).req = Req
  BY PopEffect DEF Req
<1>2. Queued' = Rest \cup ToSet(es)
  BY DEF Scheduling
<1> QED
  BY <1>1, <1>2 DEF Has, HasIn

(* A notice that is popped is not queued again.                              *)
LEMMA NoticePopped ==
  ASSUME Inv, Apart(events, Twice), NEW type, Pop(type),
         type = "KV_TRANSFER_START" \/ type = "TOKEN_GENERATED"
  PROVE  ~HasIn(Rest, Req, type)
<1>1. Head(events) \in Event /\ Rest \subseteq Event /\ Head(events).type = type
  BY PopEffect
<1>2. events \in Seq(Event) /\ events # <<>>
  BY DEF Inv, Typed, Pop
<1>3. \A f \in Rest : <<Head(events), f>> \notin Twice
  BY <1>2, PopFacts DEF Rest
<1> SUFFICES ASSUME NEW f \in Rest, f.req = Req, f.type = type
             PROVE  FALSE
  BY DEF HasIn
<1>4. f \in Event /\ <<Head(events), f>> \notin Twice
  BY <1>1, <1>3
<1> QED
  BY <1>1, <1>4, OrderFacts DEF Req

(* The requests that are live afterwards.                                    *)
LEMMA LiveAfter ==
  ASSUME Inv, NEW type, Pop(type), NEW es, Scheduling(es), NEW q \in Requests
  PROVE  Has(q, "REQUEST_REJECTED")' <=>
           \/ Has(q, "REQUEST_REJECTED") /\ ~(q = Req /\ type = "REQUEST_REJECTED")
           \/ HasIn(ToSet(es), q, "REQUEST_REJECTED")
<1>1. Typed /\ Apart(events, Clash) /\ "REQUEST_REJECTED" \in Carriers
  BY DEF Inv, Carriers
<1>2. Queued' = Rest \cup ToSet(es)
  BY DEF Scheduling
<1> QED
  BY <1>1, <1>2, HasAfter

(* Live is a finite set.                                                     *)
LEMMA LiveFinite ==
  /\ IsFiniteSet(Live) /\ Live \subseteq Requests /\ Cardinality(Live) \in Nat
<1>1. Live \subseteq Requests /\ IsFiniteSet(Requests)
  BY Constants DEF Live
<1> QED
  BY <1>1, FS_Subset, FS_CardinalityType

-----------------------------------------------------------------------------
(* The counts.                                                               *)

(* A handler with which nobody arrives, is refused or leaves.                *)
LEMMA CountsKept ==
  ASSUME Inv, Counts, NEW type, Pop(type), type # "REQUEST_ARRIVE", type # "REQUEST_REJECTED",
         NEW es, Scheduling(es),
         \A e \in ToSet(es) : e.type # "REQUEST_ARRIVE" /\ e.type # "REQUEST_REJECTED",
         decisions' = decisions, SameCounts(metrics, metrics')
  PROVE  Counts'
<1>1. \A q \in Requests : Has(q, "REQUEST_REJECTED")' <=> Has(q, "REQUEST_REJECTED")
  <2>1. \A q : ~HasIn(ToSet(es), q, "REQUEST_REJECTED")
    BY DEF HasIn
  <2> QED
    BY <2>1, LiveAfter
<1>2. Live' = Live
  BY <1>1 DEF Live, Decided
<1>3. \A e : e \in Queued' /\ e.type = "REQUEST_ARRIVE"
             <=> e \in Queued /\ e.type = "REQUEST_ARRIVE"
  <2>1. Queued = {Head(events)} \cup Rest /\ Head(events).type = type
    BY PopEffect
  <2>2. Queued' = Rest \cup ToSet(es)
    BY DEF Scheduling
  <2> QED
    BY <2>1, <2>2
<1>4. Cardinality(Live') = Cardinality(Live)
  BY <1>2
<1> QED
  BY <1>3, <1>4 DEF Counts, SameCounts

(* An arrival: one more is live, and the next one is announced.              *)
LEMMA CountsArrive ==
  ASSUME Inv, Counts, Pop("REQUEST_ARRIVE"), NEW r \in Requests, r = Req,
         At(r, "announced"), NEW es, Scheduling(es), Announces(ToSet(es)),
         Live' = Live \cup {r}, metrics.completed \in Nat, metrics.rejected \in Nat,
         metrics'.arrived = metrics.arrived + 1, metrics'.completed = metrics.completed,
         metrics'.rejected = metrics.rejected
  PROVE  Counts'
<1>1. r \notin Live
  BY DEF Live, At, Booked, Outside, Carried
<1>2. Cardinality(Live') = Cardinality(Live) + 1
  BY <1>1, LiveFinite, FS_AddElement
<1>3. r = metrics.arrived + 1 /\ Req = r
  <2>1. Head(events) \in Queued /\ Head(events).type = "REQUEST_ARRIVE"
    BY PopEffect
  <2> QED
    BY <2>1 DEF Counts, Req
<1>4. \A f \in Rest : f.type # "REQUEST_ARRIVE"
  BY OneAnnounced
<1>5. Queued' = Rest \cup ToSet(es)
  BY DEF Scheduling
<1>6. \A e \in Queued' : e.type = "REQUEST_ARRIVE" => e.req = metrics'.arrived + 1
  BY <1>3, <1>4, <1>5 DEF Announces
<1>7. ASSUME \A e \in Queued' : e.type # "REQUEST_ARRIVE"
      PROVE  metrics'.arrived = Cardinality(Requests)
  <2>1. r + 1 \notin Requests
    BY <1>3, <1>5, <1>7 DEF Announces, HasIn
  <2>2. PICK c : c = Cardinality(Requests)
    OBVIOUS
  <2>3. c \in Nat /\ Requests = 1..c
    BY <2>2, Constants, ServingAssumption
  <2>4. r = c
    BY <2>1, <2>3
  <2> QED
    BY <1>3, <2>2, <2>4
<1>8. /\ metrics.arrived = metrics.completed + metrics.rejected + Cardinality(Live)
      /\ Cardinality(Live) \in Nat
  BY LiveFinite DEF Counts
<1>9. metrics'.arrived = metrics'.completed + metrics'.rejected + Cardinality(Live')
  BY <1>2, <1>8
<1> QED
  BY <1>6, <1>7, <1>9 DEF Counts

(* A request leaves: it is counted, once.                                    *)
LEMMA CountsLeave ==
  ASSUME Inv, Counts, NEW type, Pop(type), type # "REQUEST_ARRIVE",
         NEW r \in Live, NEW es, Scheduling(es), ToSet(es) = {}, Live' = Live \ {r},
         metrics.completed \in Nat, metrics.rejected \in Nat, metrics'.arrived = metrics.arrived,
         \/ metrics'.completed = metrics.completed + 1 /\ metrics'.rejected = metrics.rejected
         \/ metrics'.completed = metrics.completed /\ metrics'.rejected = metrics.rejected + 1
  PROVE  Counts'
<1>1. Cardinality(Live') = Cardinality(Live) - 1 /\ Cardinality(Live) \in Nat
  BY LiveFinite, FS_RemoveElement
<1>2. \A e : e \in Queued' /\ e.type = "REQUEST_ARRIVE"
             <=> e \in Queued /\ e.type = "REQUEST_ARRIVE"
  <2>1. Queued = {Head(events)} \cup Rest /\ Head(events).type = type
    BY PopEffect
  <2>2. Queued' = Rest
    BY DEF Scheduling
  <2> QED
    BY <2>1, <2>2
<1>3. metrics.arrived = metrics.completed + metrics.rejected + Cardinality(Live)
  BY DEF Counts
<1>4. metrics'.arrived = metrics'.completed + metrics'.rejected + Cardinality(Live')
  BY <1>1, <1>3
<1> QED
  BY <1>2, <1>4 DEF Counts

-----------------------------------------------------------------------------
(* The order of notices.                                                     *)

(* The queue after a handler, seen by a relation that new events do not      *)
(* have with the ones behind the head.                                       *)
LEMMA ApartAfter ==
  ASSUME Inv, NEW type, Pop(type), NEW es, Scheduling(es), NEW R, Apart(events, R), Apart(es, R),
         \A f \in Rest, e \in ToSet(es) : <<e, f>> \notin R /\ <<f, e>> \notin R
  PROVE  Apart(events', R)
<1>1. events \in Seq(Event) /\ events # <<>> /\ InTimeOrder(events)
  BY DEF Inv, Typed, Pop
<1>2. Tail(events) \in Seq(Event) /\ InTimeOrder(Tail(events)) /\ Apart(Tail(events), R)
  BY <1>1, PopFacts
<1>3. es \in Seq(Event) /\ events' = ScheduleAll(Tail(events), es) /\ Timed(Event)
  BY EventFacts DEF Scheduling, Handle
<1>4. \A f \in ToSet(Tail(events)), e \in ToSet(es) : <<e, f>> \notin R /\ <<f, e>> \notin R
  BY DEF Rest
<1> QED
  BY <1>2, <1>3, <1>4, ScheduleAllApart

(* The same for an order that the new events keep.                           *)
LEMMA RespectsAfter ==
  ASSUME Inv, NEW type, Pop(type), NEW es, Scheduling(es), NEW R,
         Respects(Tail(events), R), Respects(es, R),
         \A e, f \in ToSet(es) : <<e, f>> \in R => e.time <= f.time,
         \A f \in Rest, e \in ToSet(es) : <<e, f>> \notin R /\ (<<f, e>> \in R => f.time <= e.time)
  PROVE  Respects(events', R)
<1>1. events \in Seq(Event) /\ events # <<>> /\ InTimeOrder(events)
  BY DEF Inv, Typed, Pop
<1>2. Tail(events) \in Seq(Event) /\ InTimeOrder(Tail(events))
  BY <1>1, PopFacts
<1>3. es \in Seq(Event) /\ events' = ScheduleAll(Tail(events), es) /\ Timed(Event)
  BY EventFacts DEF Scheduling, Handle
<1>4. \A f \in ToSet(Tail(events)), e \in ToSet(es) :
        <<e, f>> \notin R /\ (<<f, e>> \in R => f.time <= e.time)
  BY DEF Rest
<1>5. \A i \in DOMAIN es : es[i] \in ToSet(es)
  BY DEF ToSet
<1>6. \A i, j \in DOMAIN es : <<es[i], es[j]>> \in R => es[i].time <= es[j].time
  BY <1>5
<1> QED
  BY <1>2, <1>3, <1>4, <1>6, ScheduleAllRespects

(* A handler that announces no transfer and no token.                        *)
LEMMA TwiceKept ==
  ASSUME Inv, Apart(events, Twice), NEW type, Pop(type), NEW es, Scheduling(es),
         \A e \in ToSet(es) : e.type # "TOKEN_GENERATED" /\ e.type # "KV_TRANSFER_START"
  PROVE  Apart(events', Twice)
<1>1. es \in Seq(Event) /\ ToSet(es) \subseteq Event /\ Rest \subseteq Event
  BY PopEffect DEF Scheduling
<1>2. Apart(es, Twice)
  BY <1>1, Tokenless
<1>3. \A f \in Rest, e \in ToSet(es) : <<e, f>> \notin Twice /\ <<f, e>> \notin Twice
  <2> SUFFICES ASSUME NEW f \in Rest, NEW e \in ToSet(es)
               PROVE  <<e, f>> \notin Twice /\ <<f, e>> \notin Twice
    OBVIOUS
  <2>1. e \in Event /\ f \in Event /\ e.type # "TOKEN_GENERATED" /\ e.type # "KV_TRANSFER_START"
    BY <1>1
  <2> QED
    BY <2>1, OrderFacts
<1> QED
  BY <1>2, <1>3, ApartAfter

(* A handler that schedules no transfer.                                     *)
LEMMA TransferOrderKept ==
  ASSUME Inv, Respects(events, TransferOrder), NEW type, Pop(type), NEW es, Scheduling(es),
         \A e \in ToSet(es) : e.type # "KV_TRANSFER_START" /\ e.type # "KV_TRANSFER_COMPLETE"
  PROVE  Respects(events', TransferOrder)
<1>1. es \in Seq(Event) /\ ToSet(es) \subseteq Event /\ Rest \subseteq Event
  BY PopEffect DEF Scheduling
<1>2. events \in Seq(Event) /\ events # <<>>
  BY DEF Inv, Typed, Pop
<1>3. Respects(Tail(events), TransferOrder)
  BY <1>2, PopFacts
<1>4. \A e \in ToSet(es) : \A f \in Event :
        <<e, f>> \notin TransferOrder /\ <<f, e>> \notin TransferOrder
  <2> SUFFICES ASSUME NEW f \in Event, NEW e \in ToSet(es)
               PROVE  <<e, f>> \notin TransferOrder /\ <<f, e>> \notin TransferOrder
    OBVIOUS
  <2>1. e \in Event /\ e.type # "KV_TRANSFER_START" /\ e.type # "KV_TRANSFER_COMPLETE"
    BY <1>1
  <2> QED
    BY <2>1, OrderFacts
<1>5. \A i \in DOMAIN es : es[i] \in ToSet(es)
  BY DEF ToSet
<1>6. Respects(es, TransferOrder)
  BY <1>1, <1>4, <1>5 DEF Respects
<1>7. \A e, f \in ToSet(es) : <<e, f>> \in TransferOrder => e.time <= f.time
  BY <1>1, <1>4
<1>8. \A f \in Rest, e \in ToSet(es) : /\ <<e, f>> \notin TransferOrder
                                       /\ <<f, e>> \in TransferOrder => f.time <= e.time
  BY <1>1, <1>4
<1> QED
  BY <1>3, <1>6, <1>7, <1>8, RespectsAfter

(* A token keeps its place before the completion of its request and the next *)
(* step of its stream, unless a handler schedules such an event or lets a    *)
(* stream start while a token of it is queued.                               *)
LEMMA TokenOrderAfter ==
  ASSUME Inv, Respects(events, TokenOrder), NEW type, Pop(type), NEW es, Scheduling(es),
         \A n \in Nodes : \A q \in nodes'[n].decoding :
           q \in nodes[n].decoding \/ ~HasIn(Rest, q, "TOKEN_GENERATED"),
         \A e \in ToSet(es) : e.type = "DECODE_BATCH_STEP" =>
           \A q \in nodes'[e.node].decoding : ~HasIn(Rest, q, "TOKEN_GENERATED"),
         \A e \in ToSet(es) : e.type = "DECODE_COMPLETE" =>
           ~HasIn(Rest, e.req, "TOKEN_GENERATED"),
         \A e \in ToSet(es) : e.type = "TOKEN_GENERATED" => \A f \in Rest :
           /\ f.type = "DECODE_COMPLETE" => f.req # e.req
           /\ f.type = "DECODE_BATCH_STEP" => e.req \notin nodes'[f.node].decoding,
         Respects(es, TokensFirst),
         \A e, f \in ToSet(es) : <<e, f>> \in TokensFirst => e.time <= f.time
  PROVE  Respects(events', TokenOrder')
<1>1. es \in Seq(Event) /\ ToSet(es) \subseteq Event /\ Rest \subseteq Event
  BY PopEffect DEF Scheduling
<1>2. events \in Seq(Event) /\ events # <<>>
  BY DEF Inv, Typed, Pop
<1>3. Respects(Tail(events), TokenOrder) /\ Tail(events) \in Seq(Event)
  BY <1>2, PopFacts
<1>4. PICK D : D = TokenOrder'
  OBVIOUS
<1>5. \A e, f \in Event : <<e, f>> \in D <=>
        /\ e.type = "TOKEN_GENERATED"
        /\ \/ f.type = "DECODE_COMPLETE" /\ e.req = f.req
           \/ f.type = "DECODE_BATCH_STEP" /\ e.req \in nodes'[f.node].decoding
  BY <1>4 DEF TokenOrder
<1>6. \A e, f \in Event : <<e, f>> \in TokenOrder <=>
        /\ e.type = "TOKEN_GENERATED"
        /\ \/ f.type = "DECODE_COMPLETE" /\ e.req = f.req
           \/ f.type = "DECODE_BATCH_STEP" /\ e.req \in nodes[f.node].decoding
  BY DEF TokenOrder
<1>7. \A f \in Rest : f.type = "DECODE_BATCH_STEP" => f.node \in Nodes
  <2>1. Rest \subseteq Queued
    BY PopEffect
  <2> QED
    BY <2>1 DEF Inv, Fits
<1>8. \A e, f \in Rest : <<e, f>> \in D => <<e, f>> \in TokenOrder
  <2> SUFFICES ASSUME NEW e \in Rest, NEW f \in Rest, <<e, f>> \in D
               PROVE  <<e, f>> \in TokenOrder
    OBVIOUS
  <2>1. e \in Event /\ f \in Event
    BY <1>1
  <2>2. e.type = "TOKEN_GENERATED" /\ HasIn(Rest, e.req, "TOKEN_GENERATED")
    BY <2>1, <1>5 DEF HasIn
  <2>3. CASE f.type = "DECODE_COMPLETE" /\ e.req = f.req
    BY <2>1, <2>2, <2>3, <1>6
  <2>4. CASE f.type = "DECODE_BATCH_STEP" /\ e.req \in nodes'[f.node].decoding
    BY <2>1, <2>2, <2>4, <1>6, <1>7
  <2> QED
    BY <2>1, <2>3, <2>4, <1>5
<1>9. Respects(Tail(events), D)
  <2>1. \A i \in DOMAIN Tail(events) : Tail(events)[i] \in Rest
    BY DEF Rest, ToSet
  <2> QED
    BY <1>3, <1>8, <2>1 DEF Respects
<1>10. \A e, f \in Event : <<e, f>> \in D => <<e, f>> \in TokensFirst
  BY <1>5, OrderFacts
<1>11. \A i \in DOMAIN es : es[i] \in ToSet(es)
  BY DEF ToSet
<1>12. Respects(es, D)
  BY <1>1, <1>10, <1>11 DEF Respects
<1>13. \A e, f \in ToSet(es) : <<e, f>> \in D => e.time <= f.time
  BY <1>1, <1>10
<1>14. \A f \in Rest, e \in ToSet(es) : <<e, f>> \notin D /\ <<f, e>> \notin D
  <2> SUFFICES ASSUME NEW f \in Rest, NEW e \in ToSet(es)
               PROVE  <<e, f>> \notin D /\ <<f, e>> \notin D
    OBVIOUS
  <2>1. e \in Event /\ f \in Event
    BY <1>1
  <2>2. <<e, f>> \notin D
    BY <2>1, <1>5
  <2>3. f.type = "TOKEN_GENERATED" => HasIn(Rest, f.req, "TOKEN_GENERATED")
    BY DEF HasIn
  <2>4. <<f, e>> \notin D
    BY <2>1, <2>3, <1>5
  <2> QED
    BY <2>2, <2>4
<1>15. Respects(events', D)
  <2>1. \A f \in Rest, e \in ToSet(es) : <<e, f>> \notin D /\ (<<f, e>> \in D => f.time <= e.time)
    BY <1>14
  <2> QED
    BY <1>9, <1>12, <1>13, <2>1, RespectsAfter
<1> QED
  BY <1>4, <1>15

(* A handler that announces no token and no completion, and lets no stream   *)
(* with a queued token start.                                                *)
LEMMA NoticesKept ==
  ASSUME Inv, Notices, NEW type, Pop(type), NEW es, Scheduling(es),
         \A e \in ToSet(es) : /\ e.type # "TOKEN_GENERATED" /\ e.type # "KV_TRANSFER_START"
                              /\ e.type # "KV_TRANSFER_COMPLETE" /\ e.type # "DECODE_COMPLETE",
         \A n \in Nodes : \A q \in nodes'[n].decoding :
           q \in nodes[n].decoding \/ ~HasIn(Rest, q, "TOKEN_GENERATED"),
         \A e \in ToSet(es) : e.type = "DECODE_BATCH_STEP" =>
           \A q \in nodes'[e.node].decoding : ~HasIn(Rest, q, "TOKEN_GENERATED")
  PROVE  Notices'
<1>1. Apart(events', Twice)
  BY TwiceKept DEF Notices
<1>2. Respects(events', TransferOrder)
  BY TransferOrderKept DEF Notices
<1>3. es \in Seq(Event) /\ ToSet(es) \subseteq Event
  BY DEF Scheduling
<1>4. Respects(es, TokensFirst)
  BY <1>3, Tokenless
<1>5. \A e, f \in ToSet(es) : <<e, f>> \in TokensFirst => e.time <= f.time
  BY <1>3, OrderFacts
<1>6. Respects(events', TokenOrder')
  BY <1>4, <1>5, TokenOrderAfter DEF Notices
<1>7. Twice' = Twice /\ TransferOrder' = TransferOrder
  BY DEF Twice, TransferOrder, Event
<1> QED
  BY <1>1, <1>2, <1>6, <1>7 DEF Notices

-----------------------------------------------------------------------------
(* The other parts of the ledger, for handlers that leave them alone.        *)

(* Nobody arrives, is refused or leaves.                                     *)
LEMMA LiveKept ==
  ASSUME Inv, NEW type, Pop(type), type # "REQUEST_REJECTED", NEW es, Scheduling(es),
         \A e \in ToSet(es) : e.type # "REQUEST_REJECTED", decisions' = decisions
  PROVE  Live' = Live
<1>1. \A q : ~HasIn(ToSet(es), q, "REQUEST_REJECTED")
  BY DEF HasIn
<1>2. \A q \in Requests : Has(q, "REQUEST_REJECTED")' <=> Has(q, "REQUEST_REJECTED")
  BY <1>1, LiveAfter
<1> QED
  BY <1>2 DEF Live, Decided

(* No transfer starts or ends.                                               *)
LEMMA TransfersKept ==
  ASSUME Inv, Transfers, NEW type, Pop(type), type # "KV_TRANSFER_START",
         NEW es, Scheduling(es), \A e \in ToSet(es) : e.type # "KV_TRANSFER_START",
         pending' = pending, metrics'.seen = metrics.seen
  PROVE  Transfers'
<1>1. \A q : Has(q, "KV_TRANSFER_START")' <=> Has(q, "KV_TRANSFER_START")
  <2>1. \A q : ~HasIn(ToSet(es), q, "KV_TRANSFER_START")
    BY DEF HasIn
  <2> QED
    BY <2>1, NoticeAfter
<1> QED
  BY <1>1 DEF Transfers

(* Only the requests in X change their slots.                                *)
LEMMA MarksAfter ==
  ASSUME Inv, Marks, NEW type, Pop(type), NEW es, Scheduling(es), NEW X,
         \A q \in Requests : q \notin X =>
           /\ decisions'[q] = decisions[q]
           /\ \A n \in Nodes : q \in Running(nodes[n]) => q \in Running(nodes'[n]),
         \A q \in metrics'.prefills : q \in InPrefill' \/ (q \in metrics.prefills /\ q \notin X),
         \A q \in metrics'.decodes : q \in InDecode' \/ (q \in metrics.decodes /\ q \notin X),
         metrics'.chunks \subseteq Live',
         \A e \in ToSet(es) : e.type = "TOKEN_GENERATED" => e.req \in InDecode',
         \A q \in X : ~HasIn(Rest, q, "TOKEN_GENERATED")
  PROVE  Marks'
<1>1. \A q \in Requests : q \notin X /\ q \in InPrefill => q \in InPrefill'
  <2> SUFFICES ASSUME NEW q \in Requests, q \notin X, q \in InPrefill
               PROVE  q \in InPrefill'
    OBVIOUS
  <2>1. q \in Decided /\ q \in Running(nodes[decisions[q].prefill])
    BY DEF InPrefill
  <2>2. decisions[q].prefill \in Nodes
    BY <2>1, Constants DEF Inv, Typed
  <2> QED
    BY <2>1, <2>2 DEF InPrefill, Decided
<1>2. \A q \in Requests : q \notin X /\ q \in InDecode => q \in InDecode'
  <2> SUFFICES ASSUME NEW q \in Requests, q \notin X, q \in InDecode
               PROVE  q \in InDecode'
    OBVIOUS
  <2>1. q \in Decided /\ q \in Running(nodes[decisions[q].decode])
    BY DEF InDecode
  <2>2. decisions[q].decode \in Nodes
    BY <2>1, Constants DEF Inv, Typed
  <2> QED
    BY <2>1, <2>2 DEF InDecode, Decided
<1>3. InPrefill \subseteq Requests /\ InDecode \subseteq Requests
  BY DEF InPrefill, InDecode, Decided
<1>4. metrics'.prefills \subseteq InPrefill' /\ metrics'.decodes \subseteq InDecode'
  BY <1>1, <1>2, <1>3 DEF Marks
<1>5. ASSUME NEW e \in Queued', e.type = "TOKEN_GENERATED"
      PROVE  e.req \in InDecode'
  <2>1. Queued' = Rest \cup ToSet(es) /\ Rest \subseteq Queued
    BY PopEffect DEF Scheduling
  <2>2. CASE e \in ToSet(es)
    BY <2>2, <1>5
  <2>3. CASE e \in Rest
    <3>1. e.req \in InDecode /\ HasIn(Rest, e.req, "TOKEN_GENERATED")
      BY <2>1, <2>3, <1>5 DEF Marks, HasIn
    <3> QED
      BY <3>1, <1>2, <1>3
  <2> QED
    BY <2>1, <2>2, <2>3
<1> QED
  BY <1>4, <1>5 DEF Marks

(* A request that holds no slot of its decode node has no token queued.      *)
LEMMA NoTokens ==
  ASSUME Inv, Marks, NEW type, Pop(type), NEW q, q \notin InDecode
  PROVE  ~HasIn(Rest, q, "TOKEN_GENERATED")
<1>1. Rest \subseteq Queued
  BY PopEffect
<1> QED
  BY <1>1 DEF Marks, HasIn

(* Where the position of a request puts it.                                  *)
LEMMA SlotOf ==
  ASSUME Inv, NEW r \in Requests, NEW k, At(r, k)
  PROVE  /\ r \in InPrefill <=> k \in {"starting", "prefilling", "prefilled"}
         /\ r \in InDecode <=> k \in {"decoding", "decoded"}
<1>1. r \in Decided <=> k \notin Outside
  BY DEF At, Booked
<1>2. CASE r \in Decided
  <2>1. /\ decisions[r].prefill \in Nodes /\ decisions[r].decode \in Nodes
        /\ decisions[r].prefill # decisions[r].decode
    BY <1>2, Constants DEF Inv, Typed
  <2>2. \A n \in Nodes : r \in Running(nodes[n]) <=>
          \/ k \in {"starting", "prefilling", "prefilled"} /\ n = decisions[r].prefill
          \/ k \in {"decoding", "decoded"} /\ n = decisions[r].decode
    BY DEF At, Placed
  <2> QED
    BY <1>2, <2>1, <2>2 DEF InPrefill, InDecode
<1>3. CASE r \notin Decided
  BY <1>1, <1>3 DEF InPrefill, InDecode, Outside
<1> QED
  BY <1>2, <1>3

(* The parts of the ledger.                                                  *)
LEMMA LedgerParts ==
  ASSUME Ledger
  PROVE  metrics \in Collected /\ Notices /\ Transfers /\ Counts /\ Marks
BY DEF Ledger

-----------------------------------------------------------------------------
(* Every handler keeps the ledger.                                           *)

(* The parts of the ledger after a step.                                     *)
LEMMA LedgerAfter ==
  ASSUME metrics' \in Collected, Notices', Transfers', Counts', Marks'
  PROVE  Ledger'
<1>1. Collected' = Collected
  BY DEF Collected
<1> QED
  BY <1>1 DEF Ledger

(* A handler that changes no batch and announces neither transfers nor       *)
(* tokens nor steps.                                                         *)
LEMMA SilentNotices ==
  ASSUME Inv, Notices, NEW type, Pop(type), NEW es, Scheduling(es),
         \A e \in ToSet(es) : /\ e.type # "TOKEN_GENERATED" /\ e.type # "KV_TRANSFER_START"
                              /\ e.type # "KV_TRANSFER_COMPLETE" /\ e.type # "DECODE_COMPLETE"
                              /\ e.type # "DECODE_BATCH_STEP",
         \A n \in Nodes : nodes'[n].decoding = nodes[n].decoding
  PROVE  Notices'
<1>1. \A n \in Nodes : \A q \in nodes'[n].decoding :
        q \in nodes[n].decoding \/ ~HasIn(Rest, q, "TOKEN_GENERATED")
  OBVIOUS
<1> QED
  BY <1>1, NoticesKept

(* REQUEST_ARRIVE, refused.                                                  *)
LEMMA ArriveRejectedLedger ==
  ASSUME Inv, Ledger, ArriveRejected
  PROVE  Ledger'
<1> DEFINE type == "REQUEST_ARRIVE"
<1>1. /\ Pop(type) /\ Req \in Requests /\ At(Req, "announced")
      /\ metrics' = M!CountArrive(metrics, Req, now')
      /\ UNCHANGED <<nodes, decisions, pending, tables>>
  BY ArriveRejectedEffect
<1>2. PICK es : /\ Scheduling(es) /\ Announces(ToSet(es))
                /\ \A e \in ToSet(es) : e.type = "REQUEST_REJECTED" \/ e.type = "REQUEST_ARRIVE"
                /\ \A e \in ToSet(es) : e.type = "REQUEST_REJECTED" => e.req = Req
                /\ HasIn(ToSet(es), Req, "REQUEST_REJECTED")
  BY ArriveRejectedEffect
<1>3. PICK r \in Requests : r = Req
  BY <1>1
<1>4. metrics \in Collected /\ Notices /\ Transfers /\ Counts /\ Marks
  BY LedgerParts
<1>5. now' \in Nat
  BY <1>1, PopEffect
<1>6. /\ metrics' \in Collected /\ metrics'.arrived = metrics.arrived + 1
      /\ metrics'.completed = metrics.completed /\ metrics'.rejected = metrics.rejected
      /\ SameMarks(metrics, metrics') /\ metrics'.seen = metrics.seen
  <2>1. metrics' = M!CountArrive(metrics, r, now')
    BY <1>1, <1>3
  <2>2. PICK m, k, t : m = metrics /\ k = metrics' /\ t = now'
    OBVIOUS
  <2>3. m \in Collected /\ t \in Nat /\ k = M!CountArrive(m, r, t)
    BY <1>4, <1>5, <2>1, <2>2
  <2>4. /\ k \in Collected /\ k.arrived = m.arrived + 1 /\ k.completed = m.completed
        /\ k.rejected = m.rejected /\ SameMarks(m, k) /\ k.seen = m.seen
    BY <2>3, CountArriveFacts
  <2> QED
    BY <2>2, <2>4
<1>7. \A e \in ToSet(es) : /\ e.type # "TOKEN_GENERATED" /\ e.type # "KV_TRANSFER_START"
                           /\ e.type # "KV_TRANSFER_COMPLETE" /\ e.type # "DECODE_COMPLETE"
                           /\ e.type # "DECODE_BATCH_STEP"
  BY <1>2
<1>8. Notices'
  BY <1>1, <1>2, <1>4, <1>7, SilentNotices
<1>9. Transfers'
  BY <1>1, <1>2, <1>4, <1>6, <1>7, TransfersKept
<1>10. Live' = Live \cup {r}
  <2>1. \A q \in Requests : Has(q, "REQUEST_REJECTED")' <=> Has(q, "REQUEST_REJECTED") \/ q = r
    <3>1. \A q : HasIn(ToSet(es), q, "REQUEST_REJECTED") <=> q = r
      BY <1>2, <1>3 DEF HasIn
    <3> QED
      BY <1>1, <1>2, <3>1, LiveAfter
  <2> QED
    BY <1>1, <2>1 DEF Live, Decided
<1>11. metrics.completed \in Nat /\ metrics.rejected \in Nat
  BY <1>4 DEF Collected
<1>12. Counts'
  BY <1>1, <1>2, <1>3, <1>4, <1>6, <1>10, <1>11, CountsArrive
<1>13. Marks'
  <2>1. /\ metrics'.prefills = metrics.prefills /\ metrics'.decodes = metrics.decodes
        /\ metrics'.chunks = metrics.chunks
    BY <1>6 DEF SameMarks
  <2>2. metrics'.chunks \subseteq Live'
    BY <1>4, <1>10, <2>1 DEF Marks
  <2> DEFINE X == {}
  <2>3. \A q \in Requests : q \notin X =>
          /\ decisions'[q] = decisions[q]
          /\ \A n \in Nodes : q \in Running(nodes[n]) => q \in Running(nodes'[n])
    BY <1>1
  <2>4. /\ \A q \in metrics'.prefills : q \in metrics.prefills /\ q \notin X
        /\ \A q \in metrics'.decodes : q \in metrics.decodes /\ q \notin X
        /\ \A q \in X : ~HasIn(Rest, q, "TOKEN_GENERATED")
    BY <2>1
  <2> HIDE DEF X
  <2> QED
    BY <1>1, <1>2, <1>4, <1>7, <2>2, <2>3, <2>4, MarksAfter
<1> QED
  BY <1>6, <1>8, <1>9, <1>12, <1>13, LedgerAfter

(* REQUEST_ARRIVE, routed.                                                   *)
LEMMA ArriveRoutedLedger ==
  ASSUME Inv, Ledger, NEW p \in PrefillNodes, NEW d \in DecodeNodes, ArriveRouted(p, d)
  PROVE  Ledger'
<1> DEFINE type == "REQUEST_ARRIVE"
<1>1. /\ Pop(type) /\ Req \in Requests /\ At(Req, "announced")
      /\ metrics' = M!CountArrive(metrics, Req, now')
      /\ UNCHANGED <<pending, tables>>
  BY ArriveRoutedEffect
<1>2. PICK es : /\ Scheduling(es) /\ Announces(ToSet(es))
                /\ \A e \in ToSet(es) : \/ e.type = "SCHEDULED" \/ e.type = "PREFILL_START"
                                        \/ e.type = "REQUEST_ARRIVE"
  BY ArriveRoutedEffect
<1>3. PICK r \in Requests : r = Req
  BY <1>1
<1>4. metrics \in Collected /\ Notices /\ Transfers /\ Counts /\ Marks
  BY LedgerParts
<1>5. now' \in Nat
  BY <1>1, PopEffect
<1>6. /\ metrics' \in Collected /\ metrics'.arrived = metrics.arrived + 1
      /\ metrics'.completed = metrics.completed /\ metrics'.rejected = metrics.rejected
      /\ SameMarks(metrics, metrics') /\ metrics'.seen = metrics.seen
  <2>1. metrics' = M!CountArrive(metrics, r, now')
    BY <1>1, <1>3
  <2>2. PICK m, k, t : m = metrics /\ k = metrics' /\ t = now'
    OBVIOUS
  <2>3. m \in Collected /\ t \in Nat /\ k = M!CountArrive(m, r, t)
    BY <1>4, <1>5, <2>1, <2>2
  <2>4. /\ k \in Collected /\ k.arrived = m.arrived + 1 /\ k.completed = m.completed
        /\ k.rejected = m.rejected /\ SameMarks(m, k) /\ k.seen = m.seen
    BY <2>3, CountArriveFacts
  <2> QED
    BY <2>2, <2>4
<1>7. \A e \in ToSet(es) : /\ e.type # "TOKEN_GENERATED" /\ e.type # "KV_TRANSFER_START"
                           /\ e.type # "KV_TRANSFER_COMPLETE" /\ e.type # "DECODE_COMPLETE"
                           /\ e.type # "DECODE_BATCH_STEP" /\ e.type # "REQUEST_REJECTED"
  BY <1>2
<1>8. PICK D : decisions' = [decisions EXCEPT ![r] = D] /\ D # NoDecision
  BY <1>3, ArriveRoutedEffect
<1>9. PICK A : /\ nodes' = [nodes EXCEPT ![p] = A] /\ A.decoding = nodes[p].decoding
               /\ Running(nodes[p]) \subseteq Running(A)
  <2>1. PICK A : /\ nodes' = [nodes EXCEPT ![p] = A]
                 /\ A.decoding = nodes[p].decoding
                 /\ HasRoom(nodes[p]) => Running(A) = Running(nodes[p]) \cup {Req}
                 /\ ~HasRoom(nodes[p]) => A.running = nodes[p].running
    BY ArriveRoutedEffect
  <2>2. Running(nodes[p]) \subseteq Running(A)
    BY <2>1 DEF Running
  <2> QED
    BY <2>1, <2>2
<1>10. DOMAIN nodes = Nodes /\ DOMAIN decisions = Requests /\ p \in Nodes
  BY Constants DEF Inv, Typed
<1>11. \A n \in Nodes : /\ nodes'[n].decoding = nodes[n].decoding
                        /\ Running(nodes[n]) \subseteq Running(nodes'[n])
  BY <1>9, <1>10
<1>12. Notices'
  BY <1>1, <1>2, <1>4, <1>7, <1>11, SilentNotices
<1>13. Transfers'
  BY <1>1, <1>2, <1>4, <1>6, <1>7, TransfersKept
<1>14. Live' = Live \cup {r}
  <2>1. \A q \in Requests : Has(q, "REQUEST_REJECTED")' <=> Has(q, "REQUEST_REJECTED")
    <3>1. \A q : ~HasIn(ToSet(es), q, "REQUEST_REJECTED")
      BY <1>7 DEF HasIn
    <3> QED
      BY <1>1, <1>2, <3>1, LiveAfter
  <2>2. \A q \in Requests : decisions'[q] # NoDecision <=> decisions[q] # NoDecision \/ q = r
    BY <1>8, <1>10
  <2> QED
    BY <2>1, <2>2 DEF Live, Decided
<1>15. metrics.completed \in Nat /\ metrics.rejected \in Nat
  BY <1>4 DEF Collected
<1>16. Counts'
  BY <1>1, <1>2, <1>3, <1>4, <1>6, <1>14, <1>15, CountsArrive
<1>17. Marks'
  <2>1. /\ metrics'.prefills = metrics.prefills /\ metrics'.decodes = metrics.decodes
        /\ metrics'.chunks = metrics.chunks
    BY <1>6 DEF SameMarks
  <2>2. metrics'.chunks \subseteq Live'
    BY <1>4, <1>14, <2>1 DEF Marks
  <2> DEFINE X == {r}
  <2>3. r \notin InPrefill /\ r \notin InDecode
    BY <1>1, <1>3, SlotOf
  <2>4. \A q \in Requests : q \notin X =>
          /\ decisions'[q] = decisions[q]
          /\ \A n \in Nodes : q \in Running(nodes[n]) => q \in Running(nodes'[n])
    BY <1>8, <1>10, <1>11
  <2>5. r \notin metrics.prefills /\ r \notin metrics.decodes
    BY <1>4, <2>3 DEF Marks
  <2>6. \A q \in X : ~HasIn(Rest, q, "TOKEN_GENERATED")
    BY <1>1, <1>4, <2>3, NoTokens
  <2>7. /\ \A q \in metrics'.prefills : q \in metrics.prefills /\ q \notin X
        /\ \A q \in metrics'.decodes : q \in metrics.decodes /\ q \notin X
    BY <2>1, <2>5
  <2> QED
    BY <1>1, <1>2, <1>4, <1>7, <2>2, <2>4, <2>6, <2>7, MarksAfter
<1> QED
  BY <1>6, <1>12, <1>13, <1>16, <1>17, LedgerAfter

(* SCHEDULED.                                                                *)
LEMMA ScheduledLedger ==
  ASSUME Inv, Ledger, Scheduled
  PROVE  Ledger'
<1> DEFINE type == "SCHEDULED"
<1>1. Pop(type) /\ Handle(<<>>) /\ UNCHANGED <<nodes, decisions, pending, tables, metrics>>
  BY DEF Scheduled
<1>2. PICK es : Scheduling(es) /\ ToSet(es) = {}
  BY <1>1, QuietEffect
<1>3. metrics \in Collected /\ Notices /\ Transfers /\ Counts /\ Marks
  BY LedgerParts
<1>4. Notices'
  BY <1>1, <1>2, <1>3, SilentNotices
<1>5. Transfers'
  BY <1>1, <1>2, <1>3, TransfersKept
<1>6. SameCounts(metrics, metrics')
  BY <1>1 DEF SameCounts
<1>7. Counts'
  BY <1>1, <1>2, <1>3, <1>6, CountsKept
<1>8. Live' = Live
  BY <1>1, <1>2, LiveKept
<1>9. Marks'
  <2> DEFINE X == {}
  <2>1. metrics'.chunks \subseteq Live'
    BY <1>1, <1>3, <1>8 DEF Marks
  <2> QED
    BY <1>1, <1>2, <1>3, <2>1, MarksAfter
<1> QED
  BY <1>1, <1>3, <1>4, <1>5, <1>7, <1>9, LedgerAfter

(* REQUEST_REJECTED.                                                         *)
LEMMA RejectedLedger ==
  ASSUME Inv, Ledger, Rejected
  PROVE  Ledger'
<1> DEFINE type == "REQUEST_REJECTED"
<1>1. /\ Pop(type) /\ Handle(<<>>) /\ UNCHANGED <<nodes, decisions, pending, tables>>
      /\ metrics' = M!CountRejected(metrics, Req)
  BY DEF Rejected
<1>2. PICK es : Scheduling(es) /\ ToSet(es) = {}
  BY <1>1, QuietEffect
<1>3. metrics \in Collected /\ Notices /\ Transfers /\ Counts /\ Marks
  BY LedgerParts
<1>4. PICK r \in Requests : r = Req /\ At(r, "refused")
  <2>1. type \in Carriers
    BY DEF Carriers
  <2> QED
    BY <1>1, <2>1, HeadAt
<1>5. /\ metrics' \in Collected /\ metrics'.arrived = metrics.arrived
      /\ metrics'.completed = metrics.completed /\ metrics'.rejected = metrics.rejected + 1
      /\ metrics'.seen = metrics.seen /\ metrics'.prefills = metrics.prefills \ {r}
      /\ metrics'.decodes = metrics.decodes /\ metrics'.chunks = metrics.chunks \ {r}
  BY <1>1, <1>3, <1>4, CountRejectedFacts
<1>6. Notices'
  BY <1>1, <1>2, <1>3, SilentNotices
<1>7. Transfers'
  BY <1>1, <1>2, <1>3, <1>5, TransfersKept
<1>8. r \in Live /\ r \notin Decided
  BY <1>4 DEF Live, At, Carried, Booked, Outside
<1>9. Live' = Live \ {r}
  <2>1. \A q : ~HasIn(ToSet(es), q, "REQUEST_REJECTED")
    BY <1>2 DEF HasIn
  <2>2. \A q \in Requests : Has(q, "REQUEST_REJECTED")' <=> Has(q, "REQUEST_REJECTED") /\ q # r
    BY <1>1, <1>2, <1>4, <2>1, LiveAfter
  <2> QED
    BY <1>1, <1>8, <2>2 DEF Live, Decided
<1>10. metrics.completed \in Nat /\ metrics.rejected \in Nat
  BY <1>3 DEF Collected
<1>11. Counts'
  BY <1>1, <1>2, <1>3, <1>5, <1>8, <1>9, <1>10, CountsLeave
<1>12. Marks'
  <2> DEFINE X == {}
  <2>1. metrics'.chunks \subseteq Live'
    BY <1>3, <1>5, <1>9 DEF Marks
  <2>2. /\ \A q \in metrics'.prefills : q \in metrics.prefills
        /\ \A q \in metrics'.decodes : q \in metrics.decodes
    BY <1>5
  <2> QED
    BY <1>1, <1>2, <1>3, <2>1, <2>2, MarksAfter
<1> QED
  BY <1>5, <1>6, <1>7, <1>11, <1>12, LedgerAfter

(* A handler that only feeds the collector: nothing moves.                   *)
LEMMA QuietParts ==
  ASSUME Inv, Ledger, NEW type, Pop(type), Handle(<<>>), type # "REQUEST_ARRIVE",
         type # "REQUEST_REJECTED", UNCHANGED <<nodes, decisions, pending, tables>>,
         SameCounts(metrics, metrics'), metrics'.prefills = metrics.prefills,
         metrics'.chunks = metrics.chunks,
         \A q \in metrics'.decodes : q \in metrics.decodes \/ q \in InDecode
  PROVE  /\ Notices' /\ Counts' /\ Marks'
         /\ \A q, c : Has(q, c)' <=> HasIn(Rest, q, c)
<1>1. PICK es : Scheduling(es) /\ ToSet(es) = {}
  BY QuietEffect
<1>2. metrics \in Collected /\ Notices /\ Transfers /\ Counts /\ Marks
  BY LedgerParts
<1>3. Notices'
  BY <1>1, <1>2, SilentNotices
<1>4. Counts'
  BY <1>1, <1>2, CountsKept
<1>5. Live' = Live
  BY <1>1, LiveKept
<1>6. InDecode' = InDecode
  BY DEF InDecode, Decided
<1>7. Marks'
  <2> DEFINE X == {}
  <2>1. metrics'.chunks \subseteq Live'
    BY <1>2, <1>5 DEF Marks
  <2>2. \A q \in metrics'.decodes : q \in InDecode' \/ (q \in metrics.decodes /\ q \notin X)
    BY <1>6
  <2> QED
    BY <1>1, <1>2, <2>1, <2>2, MarksAfter
<1>8. \A q, c : Has(q, c)' <=> HasIn(Rest, q, c)
  <2>1. Queued' = Rest
    BY <1>1 DEF Scheduling
  <2> QED
    BY <2>1 DEF Has, HasIn
<1> QED
  BY <1>3, <1>4, <1>7, <1>8

(* KV_TRANSFER_START: the start of the transfer is counted.                  *)
LEMMA TransferStartsLedger ==
  ASSUME Inv, Ledger, TransferStarts
  PROVE  Ledger'
<1> DEFINE type == "KV_TRANSFER_START"
<1>1. /\ Pop(type) /\ Handle(<<>>) /\ UNCHANGED <<nodes, decisions, pending, tables>>
      /\ metrics' = M!CountTransferStart(metrics, Req)
  BY DEF TransferStarts
<1>2. metrics \in Collected /\ Notices /\ Transfers /\ Counts /\ Marks
  BY LedgerParts
<1>3. PICK r \in Requests : r = Req /\ Has(r, type)
  <2>1. Fits(Head(events)) /\ Head(events).type = type /\ Head(events) \in Queued
    BY <1>1, PopEffect
  <2> QED
    BY <2>1 DEF Fits, Req, Has, HasIn
<1>4. /\ metrics' \in Collected /\ SameCounts(metrics, metrics')
      /\ metrics'.seen = metrics.seen \cup {r} /\ SameMarks(metrics, metrics')
  BY <1>1, <1>2, <1>3, CountTransferStartFacts
<1>5. /\ metrics'.prefills = metrics.prefills /\ metrics'.chunks = metrics.chunks
      /\ metrics'.decodes = metrics.decodes
  BY <1>4 DEF SameMarks
<1>6. Notices' /\ Counts' /\ Marks' /\ \A q, c : Has(q, c)' <=> HasIn(Rest, q, c)
  BY <1>1, <1>4, <1>5, QuietParts
<1>7. r \in pending /\ r \notin metrics.seen
  BY <1>2, <1>3 DEF Transfers
<1>8. ~HasIn(Rest, r, type)
  <2>1. Apart(events, Twice)
    BY <1>2 DEF Notices
  <2> QED
    BY <1>1, <1>3, <2>1, NoticePopped
<1>9. \A q : q # r => (HasIn(Rest, q, type) <=> Has(q, type))
  <2>1. Queued = {Head(events)} \cup Rest /\ Head(events).req = r
    BY <1>1, <1>3, PopEffect DEF Req
  <2> QED
    BY <2>1 DEF Has, HasIn
<1>10. Transfers'
  <2>1. \A q \in Requests : Has(q, type)' <=> Has(q, type) /\ q # r
    BY <1>6, <1>8, <1>9
  <2>2. metrics'.seen \subseteq pending'
    BY <1>1, <1>2, <1>4, <1>7 DEF Transfers
  <2>3. \A q \in Requests : /\ Has(q, type)' => q \in pending' /\ q \notin metrics'.seen
                            /\ q \in pending' => Has(q, type)' \/ q \in metrics'.seen
    BY <1>1, <1>2, <1>4, <2>1 DEF Transfers
  <2> QED
    BY <2>2, <2>3 DEF Transfers
<1> QED
  BY <1>4, <1>6, <1>10, LedgerAfter

(* TOKEN_GENERATED: its stream holds a slot of the decode node.              *)
LEMMA TokenGeneratedLedger ==
  ASSUME Inv, Ledger, TokenGenerated
  PROVE  Ledger'
<1> DEFINE type == "TOKEN_GENERATED"
<1>1. /\ Pop(type) /\ Handle(<<>>) /\ UNCHANGED <<nodes, decisions, pending, tables>>
      /\ metrics' = M!CountToken(metrics, Req, Head(events).step, now')
  BY DEF TokenGenerated
<1>2. metrics \in Collected /\ Notices /\ Transfers /\ Counts /\ Marks
  BY LedgerParts
<1>3. PICK r \in Requests : r = Req /\ r \in InDecode
  <2>1. Fits(Head(events)) /\ Head(events).type = type /\ Head(events) \in Queued
    BY <1>1, PopEffect
  <2> QED
    BY <1>2, <2>1 DEF Fits, Req, Marks
<1>4. PICK s \in Nat, t \in Nat : s = Head(events).step /\ t = now'
  <2>1. Head(events) \in Event /\ now' \in Nat
    BY <1>1, PopEffect
  <2> QED
    BY <2>1 DEF Event
<1>5. /\ metrics' \in Collected /\ SameCounts(metrics, metrics')
      /\ metrics'.seen = metrics.seen /\ metrics'.prefills = metrics.prefills
      /\ metrics'.chunks = metrics.chunks /\ metrics'.decodes \subseteq metrics.decodes \cup {r}
  <2>1. metrics' = M!CountToken(metrics, r, s, t)
    BY <1>1, <1>3, <1>4
  <2> QED
    BY <1>2, <2>1, CountTokenFacts
<1>6. \A q \in metrics'.decodes : q \in metrics.decodes \/ q \in InDecode
  BY <1>3, <1>5
<1>7. Notices' /\ Counts' /\ Marks'
  BY <1>1, <1>5, <1>6, QuietParts
<1>8. PICK es : Scheduling(es) /\ ToSet(es) = {}
  BY <1>1, QuietEffect
<1>9. Transfers'
  BY <1>1, <1>2, <1>5, <1>8, TransfersKept
<1> QED
  BY <1>5, <1>7, <1>9, LedgerAfter

(* No stream runs on a prefill node.                                         *)
LEMMA PrefillIdle ==
  ASSUME Inv, NEW p \in PrefillNodes
  PROVE  nodes[p].decoding = {}
<1> SUFFICES ASSUME NEW q \in nodes[p].decoding
             PROVE  FALSE
  OBVIOUS
<1>1. p \in Nodes /\ WellFormed(nodes[p])
  BY Constants DEF Inv, Typed
<1>2. q \in Requests
  BY <1>1, NodeTypes
<1>3. PICK k \in Positions : At(q, k)
  BY <1>2 DEF Inv
<1>4. k = "decoding" /\ p = decisions[q].decode
  BY <1>1, <1>3 DEF At, Placed
<1>5. q \in Decided
  BY <1>2, <1>3, <1>4 DEF At, Booked, Outside
<1>6. decisions[q].decode \in DecodeNodes
  BY <1>5 DEF Inv, Typed
<1> QED
  BY <1>4, <1>6, Constants

(* PREFILL_START: the request holds a slot of its prefill node.              *)
LEMMA PrefillStartLedger ==
  ASSUME Inv, Ledger, PrefillStartCached \/ PrefillStartChunked
  PROVE  Ledger'
<1> DEFINE type == "PREFILL_START"
<1>1. /\ Pop(type) /\ Req \in Requests /\ At(Req, "starting")
      /\ Node \in PrefillNodes /\ metrics' = M!CountPrefillStart(metrics, Req)
      /\ UNCHANGED <<decisions, pending, tables>>
  BY PrefillStartEffect
<1>2. PICK A : /\ nodes' = [nodes EXCEPT ![Node] = A] /\ SameSlots(nodes[Node], A)
               /\ A.decoding = nodes[Node].decoding
  BY PrefillStartEffect
<1>3. PICK es : /\ Scheduling(es)
                /\ \A e \in ToSet(es) : \/ e.type = "PREFILL_COMPLETE"
                                        \/ e.type = "DECODE_BATCH_STEP" /\ e.node = Node
  BY PrefillStartEffect
<1>4. PICK r \in Requests : r = Req /\ At(r, "starting")
  BY <1>1
<1>5. metrics \in Collected /\ Notices /\ Transfers /\ Counts /\ Marks
  BY LedgerParts
<1>6. /\ metrics' \in Collected /\ SameCounts(metrics, metrics')
      /\ metrics'.seen = metrics.seen /\ metrics'.prefills = metrics.prefills \cup {r}
      /\ metrics'.decodes = metrics.decodes /\ metrics'.chunks = metrics.chunks \cup {r}
  BY <1>1, <1>4, <1>5, CountPrefillStartFacts
<1>7. DOMAIN nodes = Nodes /\ Node \in Nodes
  BY <1>1, Constants DEF Inv, Typed
<1>8. \A n \in Nodes : /\ nodes'[n].decoding = nodes[n].decoding
                       /\ Running(nodes'[n]) = Running(nodes[n])
  BY <1>2, <1>7 DEF SameSlots, Running
<1>9. nodes[Node].decoding = {}
  BY <1>1, PrefillIdle
<1>10. \A e \in ToSet(es) :
         /\ e.type # "TOKEN_GENERATED" /\ e.type # "KV_TRANSFER_START"
         /\ e.type # "KV_TRANSFER_COMPLETE" /\ e.type # "DECODE_COMPLETE"
         /\ e.type # "REQUEST_ARRIVE" /\ e.type # "REQUEST_REJECTED"
         /\ e.type = "DECODE_BATCH_STEP" => nodes'[e.node].decoding = {}
  BY <1>3, <1>7, <1>8, <1>9
<1>11. Notices'
  BY <1>1, <1>3, <1>5, <1>8, <1>10, NoticesKept
<1>12. Transfers'
  BY <1>1, <1>3, <1>5, <1>6, <1>10, TransfersKept
<1>13. Counts'
  BY <1>1, <1>3, <1>5, <1>6, <1>10, CountsKept
<1>14. Live' = Live
  BY <1>1, <1>3, <1>10, LiveKept
<1>15. r \in Live /\ r \in InPrefill
  <2>1. r \in Decided
    BY <1>4 DEF At, Booked, Outside
  <2> QED
    BY <1>4, <2>1, SlotOf DEF Live
<1>16. InPrefill' = InPrefill
  <2>1. \A q \in Decided : decisions[q].prefill \in Nodes
    BY Constants DEF Inv, Typed
  <2> QED
    BY <1>1, <1>8, <2>1 DEF InPrefill, Decided
<1>17. Marks'
  <2> DEFINE X == {}
  <2>1. metrics'.chunks \subseteq Live'
    BY <1>5, <1>6, <1>14, <1>15 DEF Marks
  <2>2. \A q \in metrics'.prefills : q \in InPrefill' \/ (q \in metrics.prefills /\ q \notin X)
    BY <1>6, <1>15, <1>16
  <2>3. \A q \in metrics'.decodes : q \in InDecode' \/ (q \in metrics.decodes /\ q \notin X)
    BY <1>6
  <2>4. \A q \in Requests : q \notin X =>
          /\ decisions'[q] = decisions[q]
          /\ \A n \in Nodes : q \in Running(nodes[n]) => q \in Running(nodes'[n])
    BY <1>1, <1>8
  <2>5. \A q \in X : ~HasIn(Rest, q, "TOKEN_GENERATED")
    OBVIOUS
  <2> HIDE DEF X
  <2> QED
    BY <1>1, <1>3, <1>5, <1>10, <2>1, <2>2, <2>3, <2>4, <2>5, MarksAfter
<1> QED
  BY <1>6, <1>11, <1>12, <1>13, <1>17, LedgerAfter

(* PREFILL_COMPLETE: the request leaves the prefill node, and its transfer   *)
(* is announced.                                                             *)
LEMMA PrefillCompleteLedger ==
  ASSUME Inv, Ledger, PrefillComplete
  PROVE  Ledger'
<1> DEFINE type == "PREFILL_COMPLETE"
<1>1. /\ Pop(type) /\ Req \in Requests /\ At(Req, "prefilled")
      /\ Node \in PrefillNodes /\ Node = decisions[Req].prefill
      /\ pending' = pending \cup {Req}
      /\ metrics' = M!CountPrefillComplete(metrics, Req)
      /\ UNCHANGED decisions
  BY PrefillCompleteEffect
<1>2. PICK r \in Requests : r = Req /\ At(r, "prefilled")
  BY <1>1
<1>3. PICK A : /\ nodes' = [nodes EXCEPT ![Node] = A] /\ A.decoding = nodes[Node].decoding
               /\ Running(nodes[Node]) \ {r} \subseteq Running(A)
  <2>1. PICK A : /\ nodes' = [nodes EXCEPT ![Node] = A]
                 /\ A.decoding = nodes[Node].decoding
                 /\ nodes[Node].queue = <<>> => Running(A) = Running(nodes[Node]) \ {Req}
                 /\ nodes[Node].queue # <<>> =>
                      Running(A) = (Running(nodes[Node]) \ {Req}) \cup {Head(nodes[Node].queue)}
    BY PrefillCompleteEffect
  <2>2. Running(nodes[Node]) \ {r} \subseteq Running(A)
    BY <1>2, <2>1
  <2> QED
    BY <2>1, <2>2
<1>4. PICK es : /\ Scheduling(es) /\ Apart(es, Twice) /\ Respects(es, TransferOrder)
                /\ \A e, f \in ToSet(es) :
                     e.type = "KV_TRANSFER_START" /\ f.type = "KV_TRANSFER_COMPLETE"
                       => e.time <= f.time
                /\ HasIn(ToSet(es), Req, "KV_TRANSFER_START")
                /\ \A e \in ToSet(es) :
                     \/ e.type = "PREFILL_START"
                     \/ e.type = "KV_TRANSFER_START" /\ e.req = Req
                     \/ e.type = "KV_TRANSFER_COMPLETE" /\ e.req = Req
  BY PrefillCompleteEffect
<1>5. metrics \in Collected /\ Notices /\ Transfers /\ Counts /\ Marks
  BY LedgerParts
<1>6. /\ metrics' \in Collected /\ SameCounts(metrics, metrics')
      /\ metrics'.seen = metrics.seen /\ metrics'.prefills = metrics.prefills \ {r}
      /\ metrics'.decodes = metrics.decodes /\ metrics'.chunks = metrics.chunks
  BY <1>1, <1>2, <1>5, CountPrefillCompleteFacts
<1>7. DOMAIN nodes = Nodes /\ Node \in Nodes
  BY <1>1, Constants DEF Inv, Typed
<1>8. \A n \in Nodes : /\ nodes'[n].decoding = nodes[n].decoding
                       /\ Running(nodes[n]) \ {r} \subseteq Running(nodes'[n])
  BY <1>3, <1>7
<1>9. r \notin pending /\ ~Has(r, "KV_TRANSFER_START") /\ ~Has(r, "KV_TRANSFER_COMPLETE")
  <2>1. r \notin pending /\ ~Has(r, "KV_TRANSFER_COMPLETE")
    BY <1>2 DEF At, Booked, Carried
  <2> QED
    BY <1>5, <2>1 DEF Transfers
<1>10. /\ ToSet(es) \subseteq Event /\ Rest \subseteq Event /\ Rest \subseteq Queued
       /\ es \in Seq(Event) /\ Queued' = Rest \cup ToSet(es)
  BY <1>1, <1>4, PopEffect DEF Scheduling
<1>11. \A f \in Rest : f.type = "KV_TRANSFER_START" \/ f.type = "KV_TRANSFER_COMPLETE" => f.req # r
  BY <1>9, <1>10 DEF Has, HasIn
<1>12. Notices'
  <2>1. \A f \in Rest, e \in ToSet(es) : <<e, f>> \notin Twice /\ <<f, e>> \notin Twice
    <3> SUFFICES ASSUME NEW f \in Rest, NEW e \in ToSet(es)
                 PROVE  <<e, f>> \notin Twice /\ <<f, e>> \notin Twice
      OBVIOUS
    <3>1. /\ e.type # "TOKEN_GENERATED" /\ (e.type = "KV_TRANSFER_START" => e.req = r)
          /\ f.type = "KV_TRANSFER_START" => f.req # r
          /\ e \in Event /\ f \in Event
      BY <1>2, <1>4, <1>10, <1>11
    <3> QED
      BY <3>1, OrderFacts
  <2>2. Apart(events', Twice)
    <3>1. Apart(events, Twice)
      BY <1>5 DEF Notices
    <3> QED
      BY <1>1, <1>4, <2>1, <3>1, ApartAfter
  <2>3. \A f \in Rest, e \in ToSet(es) : /\ <<e, f>> \notin TransferOrder
                                         /\ <<f, e>> \notin TransferOrder
    <3> SUFFICES ASSUME NEW f \in Rest, NEW e \in ToSet(es)
                 PROVE  <<e, f>> \notin TransferOrder /\ <<f, e>> \notin TransferOrder
      OBVIOUS
    <3>1. /\ e.type = "KV_TRANSFER_START" \/ e.type = "KV_TRANSFER_COMPLETE" => e.req = r
          /\ f.type = "KV_TRANSFER_START" \/ f.type = "KV_TRANSFER_COMPLETE" => f.req # r
          /\ e \in Event /\ f \in Event
      BY <1>2, <1>4, <1>10, <1>11
    <3> QED
      BY <3>1, OrderFacts
  <2>4. \A e, f \in ToSet(es) : <<e, f>> \in TransferOrder => e.time <= f.time
    BY <1>4, <1>10, OrderFacts
  <2>5. Respects(Tail(events), TransferOrder)
    <3>1. events \in Seq(Event) /\ events # <<>> /\ Respects(events, TransferOrder)
      BY <1>1, <1>5 DEF Inv, Typed, Pop, Notices
    <3> QED
      BY <3>1, PopFacts
  <2>6. Respects(events', TransferOrder)
    <3>1. \A f \in Rest, e \in ToSet(es) :
            <<e, f>> \notin TransferOrder /\ (<<f, e>> \in TransferOrder => f.time <= e.time)
      BY <2>3
    <3> QED
      BY <1>1, <1>4, <2>4, <2>5, <3>1, RespectsAfter
  <2>7. \A e \in ToSet(es) : /\ e.type # "TOKEN_GENERATED" /\ e.type # "DECODE_COMPLETE"
                             /\ e.type # "DECODE_BATCH_STEP"
    BY <1>4
  <2>8. Respects(es, TokensFirst)
    BY <1>10, <2>7, Tokenless
  <2>9. \A e, f \in ToSet(es) : <<e, f>> \in TokensFirst => e.time <= f.time
    BY <1>10, <2>7, OrderFacts
  <2>10. \A n \in Nodes : \A q \in nodes'[n].decoding :
           q \in nodes[n].decoding \/ ~HasIn(Rest, q, "TOKEN_GENERATED")
    BY <1>8
  <2>11. Respects(events', TokenOrder')
    <3>1. Respects(events, TokenOrder)
      BY <1>5 DEF Notices
    <3> QED
      BY <1>1, <1>4, <2>7, <2>8, <2>9, <2>10, <3>1, TokenOrderAfter
  <2>12. Twice' = Twice /\ TransferOrder' = TransferOrder
    BY DEF Twice, TransferOrder, Event
  <2> QED
    BY <2>2, <2>6, <2>11, <2>12 DEF Notices
<1>13. Transfers'
  <2> DEFINE c == "KV_TRANSFER_START"
  <2>1. \A q : HasIn(ToSet(es), q, c) <=> q = r
    BY <1>2, <1>4 DEF HasIn
  <2>2. \A q : Has(q, c)' <=> Has(q, c) \/ q = r
    BY <1>1, <1>4, <2>1, NoticeAfter
  <2>3. metrics'.seen \subseteq pending' /\ r \notin metrics'.seen
    BY <1>1, <1>5, <1>6, <1>9 DEF Transfers
  <2>4. \A q \in Requests : /\ Has(q, c)' => q \in pending' /\ q \notin metrics'.seen
                            /\ q \in pending' => Has(q, c)' \/ q \in metrics'.seen
    BY <1>1, <1>2, <1>5, <1>6, <2>2, <2>3 DEF Transfers
  <2> QED
    BY <2>3, <2>4 DEF Transfers
<1>14. \A e \in ToSet(es) : /\ e.type # "REQUEST_ARRIVE" /\ e.type # "REQUEST_REJECTED"
                            /\ e.type # "TOKEN_GENERATED"
  BY <1>4
<1>15. Counts'
  BY <1>1, <1>4, <1>5, <1>6, <1>14, CountsKept
<1>16. Live' = Live
  BY <1>1, <1>4, <1>14, LiveKept
<1>17. Marks'
  <2> DEFINE X == {r}
  <2>1. metrics'.chunks \subseteq Live'
    BY <1>5, <1>6, <1>16 DEF Marks
  <2>2. r \notin InDecode
    BY <1>2, SlotOf
  <2>3. /\ \A q \in metrics'.prefills : q \in metrics.prefills /\ q \notin X
        /\ \A q \in metrics'.decodes : q \in metrics.decodes /\ q \notin X
    BY <1>5, <1>6, <2>2 DEF Marks
  <2>4. \A q \in Requests : q \notin X =>
          /\ decisions'[q] = decisions[q]
          /\ \A n \in Nodes : q \in Running(nodes[n]) => q \in Running(nodes'[n])
    BY <1>1, <1>8
  <2>5. \A q \in X : ~HasIn(Rest, q, "TOKEN_GENERATED")
    BY <1>1, <1>5, <2>2, NoTokens
  <2> HIDE DEF X
  <2> QED
    BY <1>1, <1>4, <1>5, <1>14, <2>1, <2>3, <2>4, <2>5, MarksAfter
<1> QED
  BY <1>6, <1>12, <1>13, <1>15, <1>17, LedgerAfter

(* The transfer of r ends: its start was counted, and is forgotten.          *)
LEMMA TransfersEnd ==
  ASSUME Inv, Ledger, Pop("KV_TRANSFER_COMPLETE"), NEW r \in Requests, r = Req,
         At(r, "transfer"),
         NEW es, Scheduling(es), \A e \in ToSet(es) : e.type # "KV_TRANSFER_START",
         pending' = pending \ {r}, metrics'.seen = metrics.seen \ {r}
  PROVE  Transfers' /\ r \in metrics.seen
<1> DEFINE c == "KV_TRANSFER_START"
<1>1. Notices /\ Transfers
  BY LedgerParts
<1>2. r \in pending
  BY DEF At, Booked
<1>3. ~Has(r, c)
  <2>1. events \in Seq(Event) /\ events # <<>> /\ Respects(events, TransferOrder)
    BY <1>1 DEF Inv, Typed, Pop, Notices
  <2>2. \A f \in Rest : <<f, Head(events)>> \notin TransferOrder
    BY <2>1, PopFacts DEF Rest
  <2>3. /\ Head(events) \in Event /\ Head(events).type = "KV_TRANSFER_COMPLETE"
        /\ Queued = {Head(events)} \cup Rest /\ Rest \subseteq Event /\ Head(events).req = r
    BY PopEffect DEF Req
  <2> SUFFICES ASSUME NEW f \in Queued, f.req = r, f.type = c
               PROVE  FALSE
    BY DEF Has, HasIn
  <2>4. f \in Rest /\ f \in Event
    BY <2>3
  <2>5. <<f, Head(events)>> \in TransferOrder
    BY <2>3, <2>4, OrderFacts
  <2> QED
    BY <2>2, <2>4, <2>5
<1>4. r \in metrics.seen
  BY <1>1, <1>2, <1>3 DEF Transfers
<1>5. \A q : Has(q, c)' <=> Has(q, c)
  <2>1. \A q : ~HasIn(ToSet(es), q, c)
    BY DEF HasIn
  <2> QED
    BY <2>1, NoticeAfter
<1>6. Transfers'
  BY <1>1, <1>3, <1>5 DEF Transfers
<1> QED
  BY <1>4, <1>6

(* KV_TRANSFER_COMPLETE, the decode node is full.                            *)
LEMMA TransferRejectedLedger ==
  ASSUME Inv, Ledger, TransferRejected
  PROVE  Ledger'
<1> DEFINE type == "KV_TRANSFER_COMPLETE"
<1>1. /\ Pop(type) /\ Req \in Requests /\ At(Req, "transfer")
      /\ pending' = pending \ {Req}
      /\ decisions' = [decisions EXCEPT ![Req] = NoDecision]
      /\ metrics' = M!CountTransferComplete(metrics, Req)
      /\ UNCHANGED <<nodes, tables>>
  BY TransferRejectedEffect
<1>2. PICK r \in Requests : r = Req /\ At(r, "transfer")
  BY <1>1
<1>3. PICK es : /\ Scheduling(es) /\ HasIn(ToSet(es), Req, "REQUEST_REJECTED")
                /\ \A e \in ToSet(es) : e.type = "REQUEST_REJECTED" /\ e.req = Req
  BY TransferRejectedEffect
<1>4. metrics \in Collected /\ Notices /\ Transfers /\ Counts /\ Marks
  BY LedgerParts
<1>5. /\ metrics' \in Collected /\ SameCounts(metrics, metrics')
      /\ metrics'.seen = metrics.seen \ {r} /\ SameMarks(metrics, metrics')
  BY <1>1, <1>2, <1>4, CountTransferCompleteFacts
<1>6. \A e \in ToSet(es) : /\ e.type # "TOKEN_GENERATED" /\ e.type # "KV_TRANSFER_START"
                           /\ e.type # "KV_TRANSFER_COMPLETE" /\ e.type # "DECODE_COMPLETE"
                           /\ e.type # "DECODE_BATCH_STEP" /\ e.type # "REQUEST_ARRIVE"
  BY <1>3
<1>7. Notices'
  BY <1>1, <1>3, <1>4, <1>6, SilentNotices
<1>8. Transfers'
  <2>1. pending' = pending \ {r}
    BY <1>1, <1>2
  <2> QED
    BY <1>1, <1>2, <1>3, <1>5, <1>6, <2>1, TransfersEnd
<1>9. Live' = Live
  <2>1. \A q : HasIn(ToSet(es), q, "REQUEST_REJECTED") <=> q = r
    BY <1>2, <1>3 DEF HasIn
  <2>2. \A q \in Requests : Has(q, "REQUEST_REJECTED")' <=> Has(q, "REQUEST_REJECTED") \/ q = r
    BY <1>1, <1>3, <2>1, LiveAfter
  <2>3. r \in Decided
    BY <1>2 DEF At, Booked, Outside
  <2>4. DOMAIN decisions = Requests
    BY DEF Inv, Typed
  <2>5. \A q \in Requests : decisions'[q] # NoDecision <=> decisions[q] # NoDecision /\ q # r
    BY <1>1, <1>2, <2>4
  <2> QED
    BY <2>2, <2>3, <2>5 DEF Live, Decided
<1>10. Counts'
  <2>1. \A e : e \in Queued' /\ e.type = "REQUEST_ARRIVE"
               <=> e \in Queued /\ e.type = "REQUEST_ARRIVE"
    <3>1. Queued = {Head(events)} \cup Rest /\ Head(events).type = type
      BY <1>1, PopEffect
    <3>2. Queued' = Rest \cup ToSet(es)
      BY <1>3 DEF Scheduling
    <3> QED
      BY <1>6, <3>1, <3>2
  <2>2. Cardinality(Live') = Cardinality(Live)
    BY <1>9
  <2> QED
    BY <1>4, <1>5, <2>1, <2>2 DEF Counts, SameCounts
<1>11. Marks'
  <2> DEFINE X == {r}
  <2>1. /\ metrics'.prefills = metrics.prefills /\ metrics'.decodes = metrics.decodes
        /\ metrics'.chunks = metrics.chunks
    BY <1>5 DEF SameMarks
  <2>2. metrics'.chunks \subseteq Live'
    BY <1>4, <1>9, <2>1 DEF Marks
  <2>3. r \notin InPrefill /\ r \notin InDecode
    BY <1>2, SlotOf
  <2>4. /\ \A q \in metrics'.prefills : q \in metrics.prefills /\ q \notin X
        /\ \A q \in metrics'.decodes : q \in metrics.decodes /\ q \notin X
    BY <1>4, <2>1, <2>3 DEF Marks
  <2>5. DOMAIN decisions = Requests
    BY DEF Inv, Typed
  <2>6. \A q \in Requests : q \notin X =>
          /\ decisions'[q] = decisions[q]
          /\ \A n \in Nodes : q \in Running(nodes[n]) => q \in Running(nodes'[n])
    BY <1>1, <1>2, <2>5
  <2>7. \A q \in X : ~HasIn(Rest, q, "TOKEN_GENERATED")
    BY <1>1, <1>4, <2>3, NoTokens
  <2> HIDE DEF X
  <2> QED
    BY <1>1, <1>3, <1>4, <1>6, <2>2, <2>4, <2>6, <2>7, MarksAfter
<1> QED
  BY <1>5, <1>7, <1>8, <1>10, <1>11, LedgerAfter

(* KV_TRANSFER_COMPLETE, the stream starts: no token of it is queued.        *)
LEMMA TransferAdmittedLedger ==
  ASSUME Inv, Ledger, TransferAdmitted
  PROVE  Ledger'
<1> DEFINE type == "KV_TRANSFER_COMPLETE"
<1>1. /\ Pop(type) /\ Req \in Requests /\ At(Req, "transfer")
      /\ pending' = pending \ {Req}
      /\ metrics' = M!CountTransferComplete(metrics, Req)
      /\ UNCHANGED decisions
  BY TransferAdmittedEffect
<1>2. PICK r \in Requests : r = Req /\ At(r, "transfer")
  BY <1>1
<1>3. PICK d \in DecodeNodes :
        /\ \E A : /\ nodes' = [nodes EXCEPT ![d] = A]
                  /\ Running(A) = Running(nodes[d]) \cup {Req}
                  /\ A.decoding = nodes[d].decoding \cup {Req}
        /\ \E es : /\ Scheduling(es)
                   /\ \A e \in ToSet(es) :
                        e.type = "DECODE_BATCH_STEP" /\ e.node = d /\ nodes[d].decoding = {}
  BY TransferAdmittedEffect
<1>4. PICK A : /\ nodes' = [nodes EXCEPT ![d] = A]
               /\ Running(A) = Running(nodes[d]) \cup {r}
               /\ A.decoding = nodes[d].decoding \cup {r}
  BY <1>2, <1>3
<1>5. PICK es : /\ Scheduling(es)
                /\ \A e \in ToSet(es) :
                     e.type = "DECODE_BATCH_STEP" /\ e.node = d /\ nodes[d].decoding = {}
  BY <1>3
<1>6. metrics \in Collected /\ Notices /\ Transfers /\ Counts /\ Marks
  BY LedgerParts
<1>7. /\ metrics' \in Collected /\ SameCounts(metrics, metrics')
      /\ metrics'.seen = metrics.seen \ {r} /\ SameMarks(metrics, metrics')
  BY <1>1, <1>2, <1>6, CountTransferCompleteFacts
<1>8. DOMAIN nodes = Nodes /\ d \in Nodes
  BY Constants DEF Inv, Typed
<1>9. nodes'[d] = A /\ \A n \in Nodes : n # d => nodes'[n] = nodes[n]
  BY <1>4, <1>8
<1>10. ~HasIn(Rest, r, "TOKEN_GENERATED")
  <2>1. r \notin InDecode
    BY <1>2, SlotOf
  <2> QED
    BY <1>1, <1>6, <2>1, NoTokens
<1>11. \A e \in ToSet(es) : /\ e.type # "TOKEN_GENERATED" /\ e.type # "KV_TRANSFER_START"
                            /\ e.type # "KV_TRANSFER_COMPLETE" /\ e.type # "DECODE_COMPLETE"
                            /\ e.type # "REQUEST_ARRIVE" /\ e.type # "REQUEST_REJECTED"
  BY <1>5
<1>12. Notices'
  <2>1. \A n \in Nodes : \A q \in nodes'[n].decoding :
          q \in nodes[n].decoding \/ ~HasIn(Rest, q, "TOKEN_GENERATED")
    BY <1>4, <1>9, <1>10
  <2>2. \A e \in ToSet(es) : e.type = "DECODE_BATCH_STEP" =>
          \A q \in nodes'[e.node].decoding : ~HasIn(Rest, q, "TOKEN_GENERATED")
    BY <1>4, <1>5, <1>9, <1>10
  <2> QED
    BY <1>1, <1>5, <1>6, <1>11, <2>1, <2>2, NoticesKept
<1>13. Transfers'
  <2>1. pending' = pending \ {r}
    BY <1>1, <1>2
  <2> QED
    BY <1>1, <1>2, <1>5, <1>7, <1>11, <2>1, TransfersEnd
<1>14. Counts'
  BY <1>1, <1>5, <1>6, <1>7, <1>11, CountsKept
<1>15. Live' = Live
  BY <1>1, <1>5, <1>11, LiveKept
<1>16. Marks'
  <2> DEFINE X == {}
  <2>1. /\ metrics'.prefills = metrics.prefills /\ metrics'.decodes = metrics.decodes
        /\ metrics'.chunks = metrics.chunks
    BY <1>7 DEF SameMarks
  <2>2. metrics'.chunks \subseteq Live'
    BY <1>6, <1>15, <2>1 DEF Marks
  <2>3. /\ \A q \in metrics'.prefills : q \in metrics.prefills /\ q \notin X
        /\ \A q \in metrics'.decodes : q \in metrics.decodes /\ q \notin X
        /\ \A q \in X : ~HasIn(Rest, q, "TOKEN_GENERATED")
    BY <2>1
  <2>4. \A q \in Requests : q \notin X =>
          /\ decisions'[q] = decisions[q]
          /\ \A n \in Nodes : q \in Running(nodes[n]) => q \in Running(nodes'[n])
    BY <1>1, <1>4, <1>9
  <2> HIDE DEF X
  <2> QED
    BY <1>1, <1>5, <1>6, <1>11, <2>2, <2>3, <2>4, MarksAfter
<1> QED
  BY <1>7, <1>12, <1>13, <1>14, <1>16, LedgerAfter

(* The tokens of r come before its completion.                               *)
LEMMA TokensBefore ==
  ASSUME Inv, Notices, Pop("DECODE_COMPLETE"), NEW r, r = Req
  PROVE  ~HasIn(Rest, r, "TOKEN_GENERATED")
<1>1. events \in Seq(Event) /\ events # <<>> /\ Respects(events, TokenOrder)
  BY DEF Inv, Typed, Pop, Notices
<1>2. \A f \in Rest : <<f, Head(events)>> \notin TokenOrder
  BY <1>1, PopFacts DEF Rest
<1>3. /\ Head(events) \in Event /\ Head(events).type = "DECODE_COMPLETE"
      /\ Rest \subseteq Event /\ Head(events).req = r
  BY PopEffect DEF Req
<1> SUFFICES ASSUME NEW f \in Rest, f.req = r, f.type = "TOKEN_GENERATED"
             PROVE  FALSE
  BY DEF HasIn
<1>4. <<f, Head(events)>> \in TokenOrder
  BY <1>3 DEF TokenOrder
<1> QED
  BY <1>2, <1>4

(* DECODE_COMPLETE.                                                          *)
LEMMA DecodeCompleteLedger ==
  ASSUME Inv, Ledger, DecodeComplete
  PROVE  Ledger'
<1> DEFINE type == "DECODE_COMPLETE"
<1>1. /\ Pop(type) /\ Req \in Requests /\ At(Req, "decoded")
      /\ Node \in DecodeNodes
      /\ decisions' = [decisions EXCEPT ![Req] = NoDecision]
      /\ metrics' = M!CountDecodeComplete(metrics, Req, now')
      /\ UNCHANGED pending
  BY DecodeCompleteEffect
<1>2. PICK r \in Requests : r = Req /\ At(r, "decoded")
  BY <1>1
<1>3. PICK A : /\ nodes' = [nodes EXCEPT ![Node] = A]
               /\ Running(A) = Running(nodes[Node]) \ {r}
               /\ A.decoding = nodes[Node].decoding
  BY <1>2, DecodeCompleteEffect
<1>4. PICK es : Scheduling(es) /\ ToSet(es) = {}
  BY DecodeCompleteEffect
<1>5. metrics \in Collected /\ Notices /\ Transfers /\ Counts /\ Marks
  BY LedgerParts
<1>6. PICK t \in Nat : t = now'
  BY <1>1, PopEffect
<1>7. /\ metrics' \in Collected /\ metrics'.arrived = metrics.arrived
      /\ metrics'.completed = metrics.completed + 1 /\ metrics'.rejected = metrics.rejected
      /\ metrics'.seen = metrics.seen /\ metrics'.prefills = metrics.prefills
      /\ metrics'.decodes = metrics.decodes \ {r} /\ metrics'.chunks = metrics.chunks \ {r}
  <2>1. metrics' = M!CountDecodeComplete(metrics, r, t)
    BY <1>1, <1>2, <1>6
  <2> QED
    BY <1>5, <2>1, CountDecodeCompleteFacts
<1>8. DOMAIN nodes = Nodes /\ Node \in Nodes /\ DOMAIN decisions = Requests
  BY <1>1, Constants DEF Inv, Typed
<1>9. \A n \in Nodes : /\ nodes'[n].decoding = nodes[n].decoding
                       /\ Running(nodes[n]) \ {r} \subseteq Running(nodes'[n])
  BY <1>3, <1>8
<1>10. Notices'
  BY <1>1, <1>4, <1>5, <1>9, SilentNotices
<1>11. Transfers'
  BY <1>1, <1>4, <1>5, <1>7, TransfersKept
<1>12. r \in Live /\ ~Has(r, "REQUEST_REJECTED")
  BY <1>2 DEF Live, At, Carried, Booked, Outside
<1>13. Live' = Live \ {r}
  <2>1. \A q : ~HasIn(ToSet(es), q, "REQUEST_REJECTED")
    BY <1>4 DEF HasIn
  <2>2. \A q \in Requests : Has(q, "REQUEST_REJECTED")' <=> Has(q, "REQUEST_REJECTED")
    BY <1>1, <1>4, <2>1, LiveAfter
  <2>3. \A q \in Requests : decisions'[q] # NoDecision <=> decisions[q] # NoDecision /\ q # r
    BY <1>1, <1>2, <1>8
  <2> QED
    BY <1>12, <2>2, <2>3 DEF Live, Decided
<1>14. metrics.completed \in Nat /\ metrics.rejected \in Nat
  BY <1>5 DEF Collected
<1>15. Counts'
  BY <1>1, <1>4, <1>5, <1>7, <1>12, <1>13, <1>14, CountsLeave
<1>16. Marks'
  <2> DEFINE X == {r}
  <2>1. metrics'.chunks \subseteq Live'
    BY <1>5, <1>7, <1>13 DEF Marks
  <2>2. r \notin InPrefill
    BY <1>2, SlotOf
  <2>3. /\ \A q \in metrics'.prefills : q \in metrics.prefills /\ q \notin X
        /\ \A q \in metrics'.decodes : q \in metrics.decodes /\ q \notin X
    BY <1>5, <1>7, <2>2 DEF Marks
  <2>4. \A q \in Requests : q \notin X =>
          /\ decisions'[q] = decisions[q]
          /\ \A n \in Nodes : q \in Running(nodes[n]) => q \in Running(nodes'[n])
    BY <1>1, <1>2, <1>8, <1>9
  <2>5. \A q \in X : ~HasIn(Rest, q, "TOKEN_GENERATED")
    BY <1>1, <1>2, <1>5, TokensBefore
  <2> HIDE DEF X
  <2> QED
    BY <1>1, <1>4, <1>5, <2>1, <2>3, <2>4, <2>5, MarksAfter
<1> QED
  BY <1>7, <1>10, <1>11, <1>15, <1>16, LedgerAfter

(* The tokens of the streams of a node come before its next step.            *)
LEMMA TokensBeforeStep ==
  ASSUME Inv, Notices, Pop("DECODE_BATCH_STEP"), NEW n, n = Node, NEW r \in nodes[n].decoding
  PROVE  ~HasIn(Rest, r, "TOKEN_GENERATED")
<1>1. events \in Seq(Event) /\ events # <<>> /\ Respects(events, TokenOrder)
  BY DEF Inv, Typed, Pop, Notices
<1>2. \A f \in Rest : <<f, Head(events)>> \notin TokenOrder
  BY <1>1, PopFacts DEF Rest
<1>3. /\ Head(events) \in Event /\ Head(events).type = "DECODE_BATCH_STEP"
      /\ Rest \subseteq Event /\ Head(events).node = n
  BY PopEffect DEF Node
<1> SUFFICES ASSUME NEW f \in Rest, f.req = r, f.type = "TOKEN_GENERATED"
             PROVE  FALSE
  BY DEF HasIn
<1>4. <<f, Head(events)>> \in TokenOrder
  BY <1>3 DEF TokenOrder
<1> QED
  BY <1>2, <1>4

(* DECODE_BATCH_STEP: one token for every stream, before its completion and  *)
(* before the next step.                                                     *)
LEMMA BatchStepLedger ==
  ASSUME Inv, Ledger, BatchStep
  PROVE  Ledger'
<1> DEFINE type == "DECODE_BATCH_STEP"
<1>1. /\ Pop(type) /\ Node \in Nodes /\ UNCHANGED <<decisions, pending, tables>>
      /\ metrics' = M!CountBatchStep(metrics, Cardinality(nodes[Node].decoding))
  BY BatchStepEffect
<1>2. PICK n \in Nodes : n = Node
  BY <1>1
<1>3. PICK A : /\ nodes' = [nodes EXCEPT ![n] = A] /\ SameSlots(nodes[n], A)
               /\ A.decoding = nodes[n].decoding \ DecodeFinished(nodes[n])
  BY <1>2, BatchStepEffect
<1>4. PICK es, end : Scheduling(es) /\ StepList(es, nodes[n], n, end) /\ end \in Nat
  BY <1>2, BatchStepEffect
<1>5. metrics \in Collected /\ Notices /\ Transfers /\ Counts /\ Marks
  BY LedgerParts
<1>6. PICK D : D = nodes[n].decoding /\ D \subseteq Requests /\ IsFiniteSet(D)
  <2>1. nodes[n].decoding \subseteq Requests
    BY NodeTypes DEF Inv, Typed
  <2> QED
    BY <2>1, Constants, FS_Subset
<1>7. /\ metrics' \in Collected /\ SameCounts(metrics, metrics')
      /\ metrics'.seen = metrics.seen /\ SameMarks(metrics, metrics')
  <2>1. PICK b \in Nat : b = Cardinality(D)
    BY <1>6, FS_CardinalityType
  <2>2. metrics' = M!CountBatchStep(metrics, b)
    BY <1>1, <1>2, <1>6, <2>1
  <2> QED
    BY <1>5, <2>2, CountBatchStepFacts
<1>8. /\ Apart(es, Twice) /\ Respects(es, TokensFirst)
      /\ \A e \in ToSet(es) :
           /\ e.time = end
           /\ \/ e.type = "PREFILL_COMPLETE"
              \/ e.type = "TOKEN_GENERATED" /\ e.req \in D
              \/ e.type = "DECODE_COMPLETE" /\ e.req \in D
              \/ e.type = "DECODE_BATCH_STEP" /\ e.node = n
  BY <1>4, <1>6 DEF StepList, DecodeFinished
<1>9. DOMAIN nodes = Nodes
  BY DEF Inv, Typed
<1>10. /\ nodes'[n].decoding \subseteq D
       /\ \A m \in Nodes : m # n => nodes'[m] = nodes[m]
       /\ \A m \in Nodes : Running(nodes'[m]) = Running(nodes[m])
  BY <1>3, <1>6, <1>9 DEF SameSlots, Running
<1>11. \A q \in D : ~HasIn(Rest, q, "TOKEN_GENERATED")
  BY <1>1, <1>2, <1>5, <1>6, TokensBeforeStep
<1>12. \A q \in D : At(q, "decoding") /\ n = decisions[q].decode
  <2> SUFFICES ASSUME NEW q \in D
               PROVE  At(q, "decoding") /\ n = decisions[q].decode
    OBVIOUS
  <2>1. PICK k \in Positions : At(q, k)
    BY <1>6 DEF Inv
  <2>2. k = "decoding" /\ n = decisions[q].decode
    BY <1>6, <2>1 DEF At, Placed
  <2> QED
    BY <2>1, <2>2
<1>13. /\ ToSet(es) \subseteq Event /\ Rest \subseteq Event /\ Rest \subseteq Queued
       /\ es \in Seq(Event)
  BY <1>1, <1>4, PopEffect DEF Scheduling
<1>14. Notices'
  <2>1. \A f \in Rest, e \in ToSet(es) : <<e, f>> \notin Twice /\ <<f, e>> \notin Twice
    <3> SUFFICES ASSUME NEW f \in Rest, NEW e \in ToSet(es)
                 PROVE  <<e, f>> \notin Twice /\ <<f, e>> \notin Twice
      OBVIOUS
    <3>1. /\ e.type # "KV_TRANSFER_START" /\ (e.type = "TOKEN_GENERATED" => e.req \in D)
          /\ f.type = "TOKEN_GENERATED" => f.req \notin D
          /\ e \in Event /\ f \in Event
      BY <1>8, <1>11, <1>13 DEF HasIn
    <3> QED
      BY <3>1, OrderFacts
  <2>2. Apart(events', Twice)
    <3>1. Apart(events, Twice)
      BY <1>5 DEF Notices
    <3> QED
      BY <1>1, <1>4, <1>8, <2>1, <3>1, ApartAfter
  <2>3. Respects(events', TransferOrder)
    <3>1. /\ Respects(events, TransferOrder)
          /\ \A e \in ToSet(es) : e.type # "KV_TRANSFER_START" /\ e.type # "KV_TRANSFER_COMPLETE"
      BY <1>5, <1>8 DEF Notices
    <3> QED
      BY <1>1, <1>4, <3>1, TransferOrderKept
  <2>4. \A m \in Nodes : \A q \in nodes'[m].decoding :
          q \in nodes[m].decoding \/ ~HasIn(Rest, q, "TOKEN_GENERATED")
    BY <1>6, <1>10
  <2>5. \A e \in ToSet(es) : e.type = "DECODE_BATCH_STEP" =>
          \A q \in nodes'[e.node].decoding : ~HasIn(Rest, q, "TOKEN_GENERATED")
    BY <1>8, <1>10, <1>11
  <2>6. \A e \in ToSet(es) : e.type = "DECODE_COMPLETE" =>
          ~HasIn(Rest, e.req, "TOKEN_GENERATED")
    BY <1>8, <1>11
  <2>7. ASSUME NEW e \in ToSet(es), e.type = "TOKEN_GENERATED", NEW f \in Rest
        PROVE  /\ f.type = "DECODE_COMPLETE" => f.req # e.req
               /\ f.type = "DECODE_BATCH_STEP" => e.req \notin nodes'[f.node].decoding
    <3>1. e.req \in D /\ f \in Queued
      BY <1>8, <1>13, <2>7
    <3>2. At(e.req, "decoding") /\ n = decisions[e.req].decode
      BY <1>12, <3>1
    <3>3. ~Has(e.req, "DECODE_COMPLETE")
      BY <3>2 DEF At, Carried
    <3>4. f.type = "DECODE_COMPLETE" => f.req # e.req
      BY <3>1, <3>3 DEF Has, HasIn
    <3>5. ASSUME f.type = "DECODE_BATCH_STEP"
          PROVE  e.req \notin nodes'[f.node].decoding
      <4>1. f.node \in Nodes
        BY <3>1, <3>5 DEF Inv, Fits
      <4>2. f.node # n
        BY <1>1, <1>2, <3>5, HeadIsAlone DEF Inv
      <4>3. nodes'[f.node] = nodes[f.node]
        BY <1>10, <4>1, <4>2
      <4>4. e.req \notin nodes[f.node].decoding
        BY <3>2, <4>1, <4>2 DEF At, Placed
      <4> QED
        BY <4>3, <4>4
    <3> QED
      BY <3>4, <3>5
  <2>8. \A e, f \in ToSet(es) : e.time <= f.time
    BY <1>4, <1>8
  <2>9. Respects(events', TokenOrder')
    <3>1. Respects(events, TokenOrder)
      BY <1>5 DEF Notices
    <3> QED
      BY <1>1, <1>4, <1>8, <2>4, <2>5, <2>6, <2>7, <2>8, <3>1, TokenOrderAfter
  <2>10. Twice' = Twice /\ TransferOrder' = TransferOrder
    BY DEF Twice, TransferOrder, Event
  <2> QED
    BY <2>2, <2>3, <2>9, <2>10 DEF Notices
<1>15. \A e \in ToSet(es) : /\ e.type # "KV_TRANSFER_START" /\ e.type # "REQUEST_ARRIVE"
                            /\ e.type # "REQUEST_REJECTED"
  BY <1>8
<1>16. Transfers'
  BY <1>1, <1>4, <1>5, <1>7, <1>15, TransfersKept
<1>17. Counts'
  BY <1>1, <1>4, <1>5, <1>7, <1>15, CountsKept
<1>18. Live' = Live
  BY <1>1, <1>4, <1>15, LiveKept
<1>19. InDecode' = InDecode
  <2>1. \A q \in Decided : decisions[q].decode \in Nodes
    BY Constants DEF Inv, Typed
  <2> QED
    BY <1>1, <1>10, <2>1 DEF InDecode, Decided
<1>20. Marks'
  <2> DEFINE X == {}
  <2>1. /\ metrics'.prefills = metrics.prefills /\ metrics'.decodes = metrics.decodes
        /\ metrics'.chunks = metrics.chunks
    BY <1>7 DEF SameMarks
  <2>2. metrics'.chunks \subseteq Live'
    BY <1>5, <1>18, <2>1 DEF Marks
  <2>3. /\ \A q \in metrics'.prefills : q \in metrics.prefills /\ q \notin X
        /\ \A q \in metrics'.decodes : q \in metrics.decodes /\ q \notin X
        /\ \A q \in X : ~HasIn(Rest, q, "TOKEN_GENERATED")
    BY <2>1
  <2>4. \A q \in Requests : q \notin X =>
          /\ decisions'[q] = decisions[q]
          /\ \A m \in Nodes : q \in Running(nodes[m]) => q \in Running(nodes'[m])
    BY <1>1, <1>10
  <2>5. \A q \in D : q \in InDecode
    BY <1>6, <1>12, SlotOf
  <2>6. \A e \in ToSet(es) : e.type = "TOKEN_GENERATED" => e.req \in InDecode'
    BY <1>8, <1>19, <2>5
  <2> HIDE DEF X
  <2> QED
    BY <1>1, <1>4, <1>5, <2>2, <2>3, <2>4, <2>6, MarksAfter
<1> QED
  BY <1>7, <1>14, <1>16, <1>17, <1>20, LedgerAfter

-----------------------------------------------------------------------------
(* The theorems.                                                             *)

(* The ledger is right before the first arrival.                             *)
LEMMA InitLedger == Init => Ledger
<1> SUFFICES ASSUME Init
             PROVE  Ledger
  OBVIOUS
<1>1. PICK t \in Gaps : events = <<Ev(t, "REQUEST_ARRIVE", 1, "none")>>
  BY DEF Init
<1>2. PICK a : a = Ev(t, "REQUEST_ARRIVE", 1, "none")
  OBVIOUS
<1>3. a \in Event /\ a.type = "REQUEST_ARRIVE" /\ a.req = 1
  <2>1. t \in Nat /\ 1 \in Nat /\ "none" \in Nodes \cup {"none"} /\ "REQUEST_ARRIVE" \in Types
    BY Constants DEF Types
  <2> QED
    BY <1>2, <2>1, EventFacts
<1>4. events = <<a>> /\ Queued = {a}
  BY <1>1, <1>2, <1>3, ShortLists DEF Queued
<1>5. Decided = {} /\ pending = {} /\ metrics = M!NoMetrics
  BY DEF Init, Decided
<1>6. metrics \in Collected
  <2>1. M!NoTimes \in [Requests -> Int]
    BY DEF M!NoTimes, M!None
  <2>2. [r \in Requests |-> 0] \in [Requests -> Nat] /\ [r \in Requests |-> 0] \in [Requests -> Int]
    OBVIOUS
  <2> QED
    BY <1>5, <2>1, <2>2 DEF M!NoMetrics, Collected
<1>7. /\ metrics.arrived = 0 /\ metrics.completed = 0 /\ metrics.rejected = 0
      /\ metrics.prefills = {} /\ metrics.decodes = {} /\ metrics.chunks = {} /\ metrics.seen = {}
  BY <1>5 DEF M!NoMetrics
<1>8. Notices
  <2>1. <<a, a>> \notin TransferOrder /\ Apart(<<a>>, Twice)
    BY <1>3, OrderFacts, ShortLists
  <2>2. <<a, a>> \notin TokenOrder
    BY <1>3 DEF TokenOrder
  <2> QED
    BY <1>3, <1>4, <2>1, <2>2, ShortLists DEF Notices
<1>9. Transfers
  <2>1. \A q : ~Has(q, "KV_TRANSFER_START")
    BY <1>3, <1>4 DEF Has, HasIn
  <2> QED
    BY <1>5, <1>7, <2>1 DEF Transfers
<1>10. Counts
  <2>1. Live = {}
    BY <1>3, <1>4, <1>5 DEF Live, Has, HasIn
  <2>2. Cardinality(Live) = 0
    BY <2>1, FS_EmptySet
  <2> QED
    BY <1>3, <1>4, <1>7, <2>2 DEF Counts
<1>11. Marks
  BY <1>3, <1>4, <1>7 DEF Marks
<1> QED
  BY <1>6, <1>8, <1>9, <1>10, <1>11 DEF Ledger

(* Every step keeps it right.                                                *)
LEMMA NextLedger == Inv /\ Ledger /\ [Next]_vars => Ledger'
<1> SUFFICES ASSUME Inv, Ledger, [Next]_vars
             PROVE  Ledger'
  OBVIOUS
<1>1. CASE ArriveRejected
  BY <1>1, ArriveRejectedLedger
<1>2. CASE \E p \in PrefillNodes, d \in DecodeNodes : ArriveRouted(p, d)
  BY <1>2, ArriveRoutedLedger
<1>3. CASE Scheduled
  BY <1>3, ScheduledLedger
<1>4. CASE Rejected
  BY <1>4, RejectedLedger
<1>5. CASE PrefillStartCached \/ PrefillStartChunked
  BY <1>5, PrefillStartLedger
<1>6. CASE PrefillComplete
  BY <1>6, PrefillCompleteLedger
<1>7. CASE TransferStarts
  BY <1>7, TransferStartsLedger
<1>8. CASE TransferRejected
  BY <1>8, TransferRejectedLedger
<1>9. CASE TransferAdmitted
  BY <1>9, TransferAdmittedLedger
<1>10. CASE BatchStep
  BY <1>10, BatchStepLedger
<1>11. CASE TokenGenerated
  BY <1>11, TokenGeneratedLedger
<1>12. CASE DecodeComplete
  BY <1>12, DecodeCompleteLedger
<1>13. CASE UNCHANGED vars
  <2>1. /\ events' = events /\ nodes' = nodes /\ decisions' = decisions
        /\ pending' = pending /\ metrics' = metrics
    BY <1>13 DEF vars
  <2>2. Notices'
    BY <2>1 DEF Ledger, Notices, Apart, Respects, Twice, TransferOrder, TokenOrder, Event
  <2>3. Transfers' /\ Counts' /\ Marks'
    BY <2>1 DEF Ledger, Transfers, Counts, Marks, Live, InPrefill, InDecode, Decided, Has, HasIn,
                Queued
  <2>4. metrics' \in Collected
    BY <2>1 DEF Ledger
  <2> QED
    BY <2>2, <2>3, <2>4, LedgerAfter
<1> QED
  BY <1>1, <1>2, <1>3, <1>4, <1>5, <1>6, <1>7, <1>8, <1>9, <1>10, <1>11, <1>12, <1>13 DEF Next

(* Whatever the policy, the cache and the interleaving of events, the        *)
(* collector and the queued notices agree with the state of the cluster.     *)
THEOREM LedgerAgrees == Spec => [](Inv /\ Ledger)
<1>1. Init => Inv /\ Ledger
  BY InitInv, InitLedger
<1>2. Inv /\ Ledger /\ [Next]_vars => Inv' /\ Ledger'
  BY NextInv, NextLedger
<1> QED
  BY <1>1, <1>2, PTL DEF Spec

(* No completion of a transfer is dropped as stale, by on_kv_transfer_       *)
(* complete or by the collector: the transfer is pending, and its start was  *)
(* counted or is queued before the completion.                               *)
THEOREM NoStaleTransfer == Spec => []TransfersMatched
<1>1. Inv /\ Ledger => TransfersMatched
  <2> SUFFICES ASSUME Inv, Ledger, NEW i \in EventsOf("KV_TRANSFER_COMPLETE")
               PROVE  /\ events[i].req \in pending
                      /\ \/ events[i].req \in metrics.seen
                         \/ \E j \in QueuedFor(events[i].req, {"KV_TRANSFER_START"}) : j < i
    BY DEF TransfersMatched
  <2>1. Notices /\ Transfers
    BY LedgerParts
  <2>2. PICK r : r = events[i].req
    OBVIOUS
  <2>3. /\ i \in DOMAIN events /\ events[i] \in Event /\ events[i] \in Queued
        /\ events[i].type = "KV_TRANSFER_COMPLETE"
    BY QueueByIndex DEF EventsOf
  <2>4. r \in Requests /\ Has(r, "KV_TRANSFER_COMPLETE")
    BY <2>2, <2>3 DEF Inv, Fits, Has, HasIn
  <2>5. r \in pending
    BY <2>4 DEF Inv, At, Carried, Booked
  <2>6. CASE r \in metrics.seen
    BY <2>2, <2>5, <2>6
  <2>7. CASE Has(r, "KV_TRANSFER_START")
    <3>1. PICK e \in Queued : e.req = r /\ e.type = "KV_TRANSFER_START"
      BY <2>7 DEF Has, HasIn
    <3>2. PICK j \in DOMAIN events : events[j] = e
      BY QueueByIndex
    <3>3. e \in Event
      BY <3>2, QueueByIndex
    <3>4. <<events[j], events[i]>> \in TransferOrder
      BY <2>2, <2>3, <3>1, <3>2, <3>3, OrderFacts
    <3>5. j < i
      BY <2>1, <2>3, <3>4 DEF Notices, Respects
    <3>6. j \in QueuedFor(r, {"KV_TRANSFER_START"})
      BY <3>1, <3>2 DEF QueuedFor
    <3> QED
      BY <2>2, <2>5, <3>5, <3>6
  <2> QED
    BY <2>1, <2>4, <2>5, <2>6, <2>7 DEF Transfers
<1> QED
  BY <1>1, LedgerAgrees, PTL

(* Every arrival is counted as completed or as rejected, once, or is still   *)
(* on its way through the cluster.                                           *)
THEOREM EveryArrivalCounted == Spec => []ArrivalsConserved
<1>1. Inv /\ Ledger => ArrivalsConserved
  <2> SUFFICES ASSUME Inv, Ledger
               PROVE  ArrivalsConserved
    OBVIOUS
  <2>1. \A r \in Requests : QueuedFor(r, {"REQUEST_REJECTED"}) # {} <=> Has(r, "REQUEST_REJECTED")
    BY QueueByIndex DEF QueuedFor, Has, HasIn
  <2>2. {r \in Requests : r \in Decided \/ QueuedFor(r, {"REQUEST_REJECTED"}) # {}} = Live
    BY <2>1 DEF Live
  <2> QED
    BY <2>2 DEF Ledger, Counts, ArrivalsConserved
<1> QED
  BY <1>1, LedgerAgrees, PTL

(* With an empty queue every request is gone: work would have a step queued, *)
(* a waiting request a running one, and the others the event that carries    *)
(* them.                                                                     *)
LEMMA QueueEmpty ==
  ASSUME Inv, events = <<>>
  PROVE  \A r \in Requests : At(r, "absent")
<1>1. Queued = {} /\ \A r, c : ~Has(r, c)
  BY DEF Queued, ToSet, Has, HasIn
<1>2. \A n \in Nodes : WellFormed(nodes[n]) /\ Prefilling(nodes[n]) = {} /\ nodes[n].decoding = {}
  <2> SUFFICES ASSUME NEW n \in Nodes
               PROVE  WellFormed(nodes[n]) /\ Prefilling(nodes[n]) = {} /\ nodes[n].decoding = {}
    OBVIOUS
  <2>1. WellFormed(nodes[n]) /\ Awake(n)
    BY DEF Inv, Typed
  <2>2. ~HasWork(nodes[n])
    BY <1>1, <2>1 DEF Awake, StepIn
  <2> QED
    BY <2>1, <2>2, HasWorkFacts
<1>3. ASSUME NEW r \in Requests, NEW k \in Positions, At(r, k)
      PROVE  k = "absent" \/ k = "waiting"
  <2>1. /\ k # "announced" /\ k # "refused" /\ k # "starting" /\ k # "prefilled"
        /\ k # "transfer" /\ k # "decoded"
    BY <1>1, <1>3 DEF At, Carried
  <2>2. k \notin Outside => decisions[r].prefill \in Nodes /\ decisions[r].decode \in Nodes
    BY <1>3, Constants DEF At, Booked, Inv, Typed
  <2>3. k # "prefilling"
    BY <1>2, <1>3, <2>2 DEF At, Placed, Outside
  <2>4. k # "decoding"
    BY <1>2, <1>3, <2>2 DEF At, Placed, Outside
  <2> QED
    BY <2>1, <2>3, <2>4 DEF Positions
<1>4. \A n \in Nodes : Running(nodes[n]) = {}
  <2> SUFFICES ASSUME NEW n \in Nodes, NEW r \in Running(nodes[n])
               PROVE  FALSE
    OBVIOUS
  <2>1. r \in Requests
    BY <1>2, NodeTypes
  <2>2. PICK k \in Positions : At(r, k)
    BY <2>1 DEF Inv
  <2>3. k = "absent" \/ k = "waiting"
    BY <1>3, <2>1, <2>2
  <2> QED
    BY <2>2, <2>3 DEF At, Placed
<1> SUFFICES ASSUME NEW r \in Requests
             PROVE  At(r, "absent")
  OBVIOUS
<1>5. PICK k \in Positions : At(r, k)
  BY DEF Inv
<1>6. k # "waiting"
  <2> SUFFICES ASSUME k = "waiting"
               PROVE  FALSE
    OBVIOUS
  <2>1. PICK n \in Nodes : n = decisions[r].prefill
    BY <1>5, Constants DEF At, Booked, Outside, Inv, Typed
  <2>2. r \in Waiting(nodes[n])
    BY <1>5, <2>1 DEF At, Placed
  <2>3. nodes[n].queue # <<>>
    BY <2>2 DEF Waiting, ToSet
  <2>4. ~HasRoom(nodes[n])
    BY <1>2, <2>3 DEF WellFormed
  <2>5. nodes[n].running \in Seq(Requests) /\ NodeCapacity \in Nat \ {0}
    BY <1>2, NodeTypes
  <2>6. Len(nodes[n].running) >= 1
    BY <2>4, <2>5 DEF HasRoom
  <2>7. nodes[n].running[1] \in Running(nodes[n])
    BY <2>5, <2>6 DEF Running, ToSet
  <2> QED
    BY <1>4, <2>7
<1> QED
  BY <1>3, <1>5, <1>6

(* A node without requests is as it was at the start.                        *)
LEMMA NodeEmptied ==
  ASSUME NEW N, WellFormed(N), Running(N) = {}, Waiting(N) = {}, N.inFlight = FALSE
  PROVE  N = EmptyNode
<1>1. /\ N.running \in Seq(Requests) /\ N.queue \in Seq(Requests) /\ N.prefill \in Seq(PrefillEntry)
      /\ N.tokens \in [Requests -> Nat] /\ N.phase \in [Requests -> Phases]
      /\ N.uncached \in [Requests -> Nat]
  BY NodeTypes
<1>2. N.running = <<>> /\ N.queue = <<>>
  <2>1. \A s \in Seq(Requests) : ToSet(s) = {} => s = <<>>
    <3> SUFFICES ASSUME NEW s \in Seq(Requests), s # <<>>
                 PROVE  ToSet(s) # {}
      OBVIOUS
    <3>1. 1 \in DOMAIN s
      OBVIOUS
    <3> QED
      BY <3>1 DEF ToSet
  <2> QED
    BY <1>1, <2>1 DEF Running, Waiting
<1>3. N.decoding = {} /\ Prefilling(N) = {}
  BY DEF WellFormed
<1>4. N.prefill = <<>>
  BY <1>3, HasWorkFacts
<1>5. N.tokens = [r \in Requests |-> 0]
  BY <1>1 DEF WellFormed
<1>6. N.phase = [r \in Requests |-> "none"] /\ N.uncached = [r \in Requests |-> 0]
  BY <1>1 DEF WellFormed
<1>7. N \in NodeValue
  BY DEF WellFormed
<1> QED
  BY <1>2, <1>3, <1>4, <1>5, <1>6, <1>7 DEF EmptyNode, NodeValue

(* When run() finds the queue empty, nothing is left behind: no slot, no     *)
(* decision, no transfer, no block table and no entry of the collector.      *)
THEOREM NothingLeftBehind == Spec => []CleanEnd
<1>1. Inv /\ Ledger => CleanEnd
  <2> SUFFICES ASSUME Inv, Ledger, events = <<>>
               PROVE  /\ \A n \in Nodes : nodes[n] = EmptyNode
                      /\ Decided = {} /\ pending = {} /\ tables = {}
                      /\ metrics.prefills \cup metrics.decodes \cup metrics.chunks
                           \cup metrics.seen = {}
                      /\ metrics.arrived = Cardinality(Requests)
    BY DEF CleanEnd
  <2>1. Transfers /\ Counts /\ Marks
    BY LedgerParts
  <2>2. \A r \in Requests : At(r, "absent")
    BY QueueEmpty
  <2>3. Queued = {}
    BY DEF Queued, ToSet
  <2>4. Decided = {} /\ pending = {} /\ tables = {}
    <3>1. pending \subseteq Requests /\ tables \subseteq Requests /\ Decided \subseteq Requests
      BY DEF Inv, Typed, Decided
    <3> QED
      BY <2>2, <3>1 DEF At, Booked, Outside
  <2>5. \A n \in Nodes : nodes[n] = EmptyNode
    <3> SUFFICES ASSUME NEW n \in Nodes
                 PROVE  nodes[n] = EmptyNode
      OBVIOUS
    <3>1. WellFormed(nodes[n]) /\ Awake(n)
      BY DEF Inv, Typed
    <3>2. Running(nodes[n]) \subseteq Requests /\ Waiting(nodes[n]) \subseteq Requests
      BY <3>1, NodeTypes
    <3>3. Running(nodes[n]) = {} /\ Waiting(nodes[n]) = {}
      BY <2>2, <3>2 DEF At, Placed
    <3>4. nodes[n].inFlight \in BOOLEAN
      BY <3>1, NodeTypes
    <3>5. nodes[n].inFlight = FALSE
      BY <2>3, <3>1, <3>4 DEF Awake, StepIn
    <3> QED
      BY <3>1, <3>3, <3>5, NodeEmptied
  <2>6. InPrefill = {} /\ InDecode = {} /\ Live = {}
    BY <2>3, <2>4 DEF InPrefill, InDecode, Live, Has, HasIn
  <2>7. metrics.prefills \cup metrics.decodes \cup metrics.chunks \cup metrics.seen = {}
    BY <2>1, <2>4, <2>6 DEF Marks, Transfers
  <2>8. metrics.arrived = Cardinality(Requests)
    BY <2>1, <2>3 DEF Counts
  <2> QED
    BY <2>4, <2>5, <2>7, <2>8
<1> QED
  BY <1>1, LedgerAgrees, PTL

-----------------------------------------------------------------------------
(* The answers.                                                              *)

(* The tokens of r that are out of the batch: sampled, or still queued.      *)
OnTheWay(r) == IF Has(r, "TOKEN_GENERATED") THEN 1 ELSE 0
Sent(r) == Sampled(r) + OnTheWay(r)

(* The request has left with its whole answer.                               *)
Gone(r) == r \notin Decided /\ r <= metrics.arrived /\ Sampled(r) = AnswerLength(r)

(* The times of r in the collector add up, and it has none before its stream *)
(* starts.                                                                   *)
Clocked(r) ==
  /\ metrics.arrivedAt[r] <= now
  /\ metrics.ttft[r] = M!None => metrics.tbt[r] = 0 /\ metrics.tbtTime[r] = 0
  /\ metrics.ttft[r] # M!None =>
       /\ metrics.lastStep[r] # M!None
       /\ metrics.ttft[r] + metrics.tbtTime[r] = metrics.lastStep[r] - metrics.arrivedAt[r]
  /\ metrics.e2e[r] # M!None =>
       Gone(r) /\ metrics.e2e[r] = metrics.ttft[r] + metrics.tbtTime[r]
  /\ r \in InDecode \/ metrics.ttft[r] = M!None \/ Gone(r)

(* A stream of node n has made as many tokens as were sent, and fewer than   *)
(* its answer has.                                                           *)
Streams(n) ==
  \A r \in nodes[n].decoding : nodes[n].tokens[r] = Sent(r) /\ Sent(r) < AnswerLength(r)

(* A queued token is the next one to sample; with a completion all tokens    *)
(* have been sent, and it comes at the time of the last one.                 *)
Told(e) ==
  /\ e.type = "TOKEN_GENERATED" => e.step = Sampled(e.req)
  /\ e.type = "DECODE_COMPLETE" =>
       /\ Sent(e.req) = AnswerLength(e.req)
       /\ \A f \in Queued : f.type = "TOKEN_GENERATED" /\ f.req = e.req => f.time = e.time
       /\ ~Has(e.req, "TOKEN_GENERATED") => metrics.lastStep[e.req] = e.time

(* The invariant of the answers.                                             *)
Samples ==
  /\ metrics.skipped = 0
  /\ \A r \in Requests : Clocked(r)
  /\ \A n \in Nodes : Streams(n)
  /\ \A e \in Queued : Told(e)

-----------------------------------------------------------------------------
(* Lemmas.                                                                   *)

(* An answer has a token, and all that were asked for.                       *)
LEMMA AnswerLengthFacts ==
  ASSUME NEW r \in Requests
  PROVE  /\ AnswerLength(r) \in Nat /\ AnswerLength(r) >= 1
         /\ AnswerLength(r) >= ExpectedOutput[r]
         /\ AnswerLength(r) = 1 \/ AnswerLength(r) = ExpectedOutput[r]
         /\ ExpectedOutput[r] \in Nat /\ AnswerLength(r)' = AnswerLength(r)
<1>1. ExpectedOutput[r] \in Nat
  BY NodeAssumption
<1>2. \E x \in {1, ExpectedOutput[r]} : \A y \in {1, ExpectedOutput[r]} : x >= y
  BY <1>1
<1>3. /\ AnswerLength(r) \in {1, ExpectedOutput[r]}
      /\ \A y \in {1, ExpectedOutput[r]} : AnswerLength(r) >= y
  BY <1>2 DEF AnswerLength, Max
<1>4. AnswerLength(r)' = AnswerLength(r)
  BY DEF AnswerLength, Max
<1> QED
  BY <1>1, <1>3, <1>4

(* What the collector has sampled is a number, and nothing before the first  *)
(* token.                                                                    *)
LEMMA SampledFacts ==
  ASSUME metrics \in Collected, NEW r \in Requests
  PROVE  /\ Sampled(r) \in Nat /\ OnTheWay(r) \in {0, 1} /\ Sent(r) \in Nat
         /\ metrics.ttft[r] = M!None => Sampled(r) = 0
         /\ metrics.ttft[r] # M!None => Sampled(r) = metrics.tbt[r] + 1
<1>1. metrics.tbt[r] \in Nat
  BY DEF Collected
<1>2. /\ metrics.ttft[r] = M!None => Sampled(r) = 0
      /\ metrics.ttft[r] # M!None => Sampled(r) = metrics.tbt[r] + 1
  BY <1>1 DEF Sampled
<1>3. Sampled(r) \in Nat /\ OnTheWay(r) \in {0, 1}
  BY <1>1, <1>2 DEF OnTheWay
<1> QED
  BY <1>2, <1>3 DEF Sent

(* A handler that samples nothing and sends no token.                        *)
LEMMA SamplesKept ==
  ASSUME Inv, Samples, metrics \in Collected, metrics' \in Collected,
         NEW type, Pop(type), type # "TOKEN_GENERATED", NEW es, Scheduling(es),
         \A e \in ToSet(es) : e.type # "TOKEN_GENERATED" /\ e.type # "DECODE_COMPLETE",
         \A n \in Nodes : \A q \in nodes'[n].decoding :
           q \in Requests /\ nodes'[n].tokens[q] = Sent(q) /\ Sent(q) < AnswerLength(q),
         metrics'.ttft = metrics.ttft, metrics'.lastStep = metrics.lastStep,
         metrics'.tbt = metrics.tbt, metrics'.tbtTime = metrics.tbtTime,
         metrics'.skipped = metrics.skipped, metrics'.e2e = metrics.e2e,
         metrics'.arrived >= metrics.arrived,
         \A q \in Requests : \/ metrics'.arrivedAt[q] = metrics.arrivedAt[q]
                             \/ metrics'.arrivedAt[q] = now' /\ metrics.ttft[q] = M!None,
         \A q \in Requests : Gone(q) => q \notin Decided',
         \A q \in Requests : q \in InDecode => q \in InDecode'
  PROVE  Samples'
<1>1. \A q : Has(q, "TOKEN_GENERATED")' <=> Has(q, "TOKEN_GENERATED")
  <2>1. \A q : ~HasIn(ToSet(es), q, "TOKEN_GENERATED")
    BY DEF HasIn
  <2> QED
    BY <2>1, NoticeAfter
<1>2. \A q : Sampled(q)' = Sampled(q) /\ Sent(q)' = Sent(q)
  BY <1>1 DEF Sampled, Sent, OnTheWay, M!None
<1>3. \A q \in Requests : AnswerLength(q)' = AnswerLength(q)
  BY AnswerLengthFacts
<1>4. /\ now \in Nat /\ now' \in Nat /\ now <= now'
      /\ metrics.arrived \in Nat /\ metrics'.arrived \in Nat
  BY PopEffect DEF Inv, Typed, Collected
<1>5. ASSUME NEW q \in Requests
      PROVE  Clocked(q)'
  <2>1. Clocked(q)
    BY DEF Samples
  <2>2. Gone(q) => Gone(q)'
    <3>1. q \in Nat
      BY Constants
    <3> QED
      BY <1>2, <1>3, <1>4, <3>1 DEF Gone
  <2>3. metrics'.arrivedAt[q] <= now'
    <3>1. metrics.arrivedAt[q] \in Int /\ metrics.arrivedAt[q] <= now
      BY <2>1 DEF Clocked, Collected
    <3> QED
      BY <1>4, <3>1
  <2>4. M!None' = M!None
    BY DEF M!None
  <2> QED
    BY <2>1, <2>2, <2>3, <2>4 DEF Clocked
<1>6. ASSUME NEW n \in Nodes
      PROVE  Streams(n)'
  BY <1>2, <1>3 DEF Streams
<1>7. ASSUME NEW e \in Queued'
      PROVE  Told(e)'
  <2>1. Queued' = Rest \cup ToSet(es) /\ Rest \subseteq Queued
    BY PopEffect DEF Scheduling
  <2>2. CASE e \in ToSet(es)
    BY <2>2 DEF Told
  <2>3. CASE e \in Rest
    <3>1. Told(e) /\ e \in Queued /\ Fits(e)
      BY <2>1, <2>3 DEF Samples, Inv
    <3>2. e.type = "DECODE_COMPLETE" => e.req \in Requests
      BY <3>1 DEF Fits
    <3>3. \A f \in Queued' : f.type = "TOKEN_GENERATED" => f \in Queued
      BY <2>1
    <3> QED
      BY <1>1, <1>2, <1>3, <3>1, <3>2, <3>3 DEF Told
  <2> QED
    BY <2>1, <2>2, <2>3
<1>8. metrics'.skipped = 0
  BY DEF Samples
<1> QED
  BY <1>5, <1>6, <1>7, <1>8 DEF Samples

(* The same when the streams stay as they are.                               *)
LEMMA SamplesSame ==
  ASSUME Inv, Ledger, Samples, metrics' \in Collected,
         NEW type, Pop(type), type # "TOKEN_GENERATED", NEW es, Scheduling(es),
         \A e \in ToSet(es) : e.type # "TOKEN_GENERATED" /\ e.type # "DECODE_COMPLETE",
         \A n \in Nodes : /\ nodes'[n].decoding = nodes[n].decoding
                          /\ \A q \in nodes[n].decoding : nodes'[n].tokens[q] = nodes[n].tokens[q],
         SameSamples(metrics, metrics'), metrics'.e2e = metrics.e2e,
         metrics'.arrived = metrics.arrived,
         \A q \in Requests : q \notin Decided => q \notin Decided',
         \A q \in Requests : q \in InDecode => q \in InDecode'
  PROVE  Samples'
<1>1. metrics \in Collected
  BY LedgerParts
<1>2. \A n \in Nodes : \A q \in nodes'[n].decoding :
        q \in Requests /\ nodes'[n].tokens[q] = Sent(q) /\ Sent(q) < AnswerLength(q)
  <2>1. \A n \in Nodes : nodes[n].decoding \subseteq Requests
    BY NodeTypes DEF Inv, Typed
  <2> QED
    BY <2>1 DEF Samples, Streams
<1>3. /\ metrics'.ttft = metrics.ttft /\ metrics'.lastStep = metrics.lastStep
      /\ metrics'.tbt = metrics.tbt /\ metrics'.tbtTime = metrics.tbtTime
      /\ metrics'.skipped = metrics.skipped /\ metrics'.arrivedAt = metrics.arrivedAt
  BY DEF SameSamples
<1>4. metrics'.arrived >= metrics.arrived
  BY <1>1 DEF Collected
<1>5. \A q \in Requests : Gone(q) => q \notin Decided'
  BY DEF Gone
<1> QED
  BY <1>1, <1>2, <1>3, <1>4, <1>5, SamplesKept

-----------------------------------------------------------------------------
(* Every handler keeps the samples right.                                    *)

(* SCHEDULED, REQUEST_REJECTED and KV_TRANSFER_START.                        *)
LEMMA QuietSamples ==
  ASSUME Inv, Ledger, Ledger', Samples, Scheduled \/ Rejected \/ TransferStarts
  PROVE  Samples'
<1>1. metrics \in Collected /\ metrics' \in Collected
  <2>1. Collected' = Collected
    BY DEF Collected
  <2> QED
    BY <2>1 DEF Ledger
<1>2. /\ Handle(<<>>) /\ nodes' = nodes /\ decisions' = decisions
      /\ Pop("SCHEDULED") \/ Pop("REQUEST_REJECTED") \/ Pop("KV_TRANSFER_START")
  BY DEF Scheduled, Rejected, TransferStarts
<1>3. PICK type : Pop(type) /\ type # "TOKEN_GENERATED" /\ type # "DECODE_BATCH_STEP"
  BY <1>2
<1>4. PICK es : Scheduling(es) /\ ToSet(es) = {}
  BY <1>2, <1>3, QuietEffect
<1>5. /\ SameSamples(metrics, metrics') /\ metrics'.e2e = metrics.e2e
      /\ metrics'.arrived = metrics.arrived
  <2>1. CASE Scheduled
    BY <2>1 DEF Scheduled, SameSamples
  <2>2. PICK r \in Requests : r = Req
    <3>1. Fits(Head(events)) /\ Head(events).type = type
      BY <1>3, PopEffect
    <3> QED
      BY <1>3, <3>1 DEF Fits, Req
  <2>3. CASE Rejected
    <3>1. metrics' = M!CountRejected(metrics, r)
      BY <2>2, <2>3 DEF Rejected
    <3> QED
      BY <1>1, <3>1, CountRejectedFacts
  <2>4. CASE TransferStarts
    <3>1. metrics' = M!CountTransferStart(metrics, r)
      BY <2>2, <2>4 DEF TransferStarts
    <3> QED
      BY <1>1, <3>1, CountTransferStartFacts DEF SameCounts
  <2> QED
    BY <2>1, <2>3, <2>4
<1>6. /\ \A q \in Requests : q \notin Decided => q \notin Decided'
      /\ \A q \in Requests : q \in InDecode => q \in InDecode'
  BY <1>2 DEF Decided, InDecode
<1> QED
  BY <1>1, <1>2, <1>3, <1>4, <1>5, <1>6, SamplesSame

(* An arrival has no samples, and it has not left.                           *)
LEMMA ArrivalUnsampled ==
  ASSUME Inv, Ledger, Samples, Pop("REQUEST_ARRIVE"), NEW r \in Requests, r = Req,
         At(r, "announced")
  PROVE  metrics.ttft[r] = M!None /\ ~Gone(r)
<1>1. r = metrics.arrived + 1
  <2>1. Head(events) \in Queued /\ Head(events).type = "REQUEST_ARRIVE"
    BY PopEffect
  <2> QED
    BY <2>1 DEF Ledger, Counts, Req
<1>2. ~Gone(r)
  <2>1. metrics.arrived \in Nat
    BY DEF Ledger, Collected
  <2> QED
    BY <1>1, <2>1 DEF Gone
<1>3. r \notin InDecode
  BY SlotOf
<1> QED
  BY <1>2, <1>3 DEF Samples, Clocked

(* REQUEST_ARRIVE.                                                           *)
LEMMA ArriveSamples ==
  ASSUME Inv, Ledger, Ledger', Samples,
         ArriveRejected \/ \E p \in PrefillNodes, d \in DecodeNodes : ArriveRouted(p, d)
  PROVE  Samples'
<1>1. metrics \in Collected /\ metrics' \in Collected
  <2>1. Collected' = Collected
    BY DEF Collected
  <2> QED
    BY <2>1 DEF Ledger
<1> DEFINE type == "REQUEST_ARRIVE"
<1>2. /\ Pop(type) /\ Req \in Requests /\ At(Req, "announced")
      /\ metrics' = M!CountArrive(metrics, Req, now')
  BY ArriveRejectedEffect, ArriveRoutedEffect
<1>3. PICK r \in Requests : r = Req /\ At(r, "announced")
  BY <1>2
<1>4. metrics.ttft[r] = M!None /\ ~Gone(r)
  BY <1>2, <1>3, ArrivalUnsampled
<1>5. PICK t \in Nat : t = now'
  BY <1>2, PopEffect
<1>6. metrics' = M!CountArrive(metrics, r, t)
  BY <1>2, <1>3, <1>5
<1>7. /\ metrics'.ttft = metrics.ttft /\ metrics'.lastStep = metrics.lastStep
      /\ metrics'.tbt = metrics.tbt /\ metrics'.tbtTime = metrics.tbtTime
      /\ metrics'.skipped = metrics.skipped /\ metrics'.e2e = metrics.e2e
      /\ metrics'.arrivedAt[r] = t
      /\ \A q \in Requests : q # r => metrics'.arrivedAt[q] = metrics.arrivedAt[q]
  BY <1>1, <1>6, CountArriveTimes
<1>8. metrics'.arrived >= metrics.arrived
  <2>1. metrics'.arrived = metrics.arrived + 1 /\ metrics.arrived \in Nat
    <3>1. metrics.arrived \in Nat
      BY <1>1 DEF Collected
    <3>2. metrics'.arrived = metrics.arrived + 1
      BY <1>1, <1>6, CountArriveFacts
    <3> QED
      BY <3>1, <3>2
  <2> QED
    BY <2>1
<1>9. PICK es : /\ Scheduling(es)
                /\ \A e \in ToSet(es) : e.type # "TOKEN_GENERATED" /\ e.type # "DECODE_COMPLETE"
  <2>1. CASE ArriveRejected
    <3>1. PICK es : /\ Scheduling(es)
                    /\ \A e \in ToSet(es) :
                         e.type = "REQUEST_REJECTED" \/ e.type = "REQUEST_ARRIVE"
      BY <2>1, ArriveRejectedEffect
    <3>2. \A e \in ToSet(es) : e.type # "TOKEN_GENERATED" /\ e.type # "DECODE_COMPLETE"
      BY <3>1
    <3> QED
      BY <3>1, <3>2
  <2>2. CASE \E p \in PrefillNodes, d \in DecodeNodes : ArriveRouted(p, d)
    <3>1. PICK es : /\ Scheduling(es)
                    /\ \A e \in ToSet(es) : \/ e.type = "SCHEDULED" \/ e.type = "PREFILL_START"
                                            \/ e.type = "REQUEST_ARRIVE"
      BY <2>2, ArriveRoutedEffect
    <3>2. \A e \in ToSet(es) : e.type # "TOKEN_GENERATED" /\ e.type # "DECODE_COMPLETE"
      BY <3>1
    <3> QED
      BY <3>1, <3>2
  <2> QED
    BY <2>1, <2>2
<1>10. /\ \A n \in Nodes : /\ nodes'[n].decoding = nodes[n].decoding
                           /\ nodes'[n].tokens = nodes[n].tokens
                           /\ Running(nodes[n]) \subseteq Running(nodes'[n])
       /\ \A q \in Requests : q # r => decisions'[q] = decisions[q]
  <2>1. CASE ArriveRejected
    BY <2>1, ArriveRejectedEffect
  <2>2. ASSUME NEW p \in PrefillNodes, NEW d \in DecodeNodes, ArriveRouted(p, d)
        PROVE  /\ \A n \in Nodes : /\ nodes'[n].decoding = nodes[n].decoding
                                 /\ nodes'[n].tokens = nodes[n].tokens
                                 /\ Running(nodes[n]) \subseteq Running(nodes'[n])
               /\ \A q \in Requests : q # r => decisions'[q] = decisions[q]
    <3>1. PICK A : /\ nodes' = [nodes EXCEPT ![p] = A]
                   /\ A.decoding = nodes[p].decoding /\ A.tokens = nodes[p].tokens
                   /\ HasRoom(nodes[p]) => Running(A) = Running(nodes[p]) \cup {Req}
                   /\ ~HasRoom(nodes[p]) => A.running = nodes[p].running
      BY <2>2, ArriveRoutedEffect
    <3>2. PICK D : decisions' = [decisions EXCEPT ![r] = D]
      BY <1>3, <2>2, ArriveRoutedEffect
    <3>3. DOMAIN nodes = Nodes /\ DOMAIN decisions = Requests /\ p \in Nodes
      BY Constants DEF Inv, Typed
    <3>4. Running(nodes[p]) \subseteq Running(A)
      BY <3>1 DEF Running
    <3> QED
      BY <3>1, <3>2, <3>3, <3>4
  <2> QED
    BY <2>1, <2>2
<1>11. \A q \in Requests : Gone(q) => q \notin Decided'
  BY <1>4, <1>10 DEF Gone, Decided
<1>12. \A q \in Requests : q \in InDecode => q \in InDecode'
  <2> SUFFICES ASSUME NEW q \in InDecode
               PROVE  q \in InDecode'
    OBVIOUS
  <2>1. q \in Decided /\ q \in Running(nodes[decisions[q].decode])
    BY DEF InDecode
  <2>2. decisions[q].decode \in Nodes
    BY <2>1, Constants DEF Inv, Typed
  <2>3. q # r
    BY <1>3, SlotOf
  <2> QED
    BY <1>10, <2>1, <2>2, <2>3 DEF InDecode, Decided
<1>13. \A n \in Nodes : \A q \in nodes'[n].decoding :
         q \in Requests /\ nodes'[n].tokens[q] = Sent(q) /\ Sent(q) < AnswerLength(q)
  <2>1. \A n \in Nodes : nodes[n].decoding \subseteq Requests
    BY NodeTypes DEF Inv, Typed
  <2> QED
    BY <1>10, <2>1 DEF Samples, Streams
<1>14. \A q \in Requests : \/ metrics'.arrivedAt[q] = metrics.arrivedAt[q]
                           \/ metrics'.arrivedAt[q] = now' /\ metrics.ttft[q] = M!None
  BY <1>4, <1>5, <1>7
<1> QED
  BY <1>1, <1>2, <1>7, <1>8, <1>9, <1>11, <1>12, <1>13, <1>14, SamplesKept

(* PREFILL_START and PREFILL_COMPLETE: no stream runs on a prefill node.     *)
LEMMA PrefillSamples ==
  ASSUME Inv, Ledger, Ledger', Samples, PrefillStartCached \/ PrefillStartChunked \/ PrefillComplete
  PROVE  Samples'
<1>1. metrics \in Collected /\ metrics' \in Collected
  <2>1. Collected' = Collected
    BY DEF Collected
  <2> QED
    BY <2>1 DEF Ledger
<1>2. /\ Req \in Requests /\ Node \in PrefillNodes /\ decisions' = decisions
      /\ \/ Pop("PREFILL_START") /\ At(Req, "starting")
         \/ Pop("PREFILL_COMPLETE") /\ At(Req, "prefilled")
  BY PrefillStartEffect, PrefillCompleteEffect
<1>3. PICK type : Pop(type) /\ type # "TOKEN_GENERATED"
  BY <1>2
<1>4. PICK r \in Requests : r = Req /\ (At(r, "starting") \/ At(r, "prefilled"))
  BY <1>2
<1>5. PICK es : /\ Scheduling(es)
                /\ \A e \in ToSet(es) : e.type # "TOKEN_GENERATED" /\ e.type # "DECODE_COMPLETE"
  <2>1. CASE PrefillStartCached \/ PrefillStartChunked
    <3>1. PICK es : /\ Scheduling(es)
                    /\ \A e \in ToSet(es) : \/ e.type = "PREFILL_COMPLETE"
                                            \/ e.type = "DECODE_BATCH_STEP" /\ e.node = Node
      BY <2>1, PrefillStartEffect
    <3>2. \A e \in ToSet(es) : e.type # "TOKEN_GENERATED" /\ e.type # "DECODE_COMPLETE"
      BY <3>1
    <3> QED
      BY <3>1, <3>2
  <2>2. CASE PrefillComplete
    <3>1. PICK es : /\ Scheduling(es)
                    /\ \A e \in ToSet(es) :
                         \/ e.type = "PREFILL_START"
                         \/ e.type = "KV_TRANSFER_START" /\ e.req = Req
                         \/ e.type = "KV_TRANSFER_COMPLETE" /\ e.req = Req
      BY <2>2, PrefillCompleteEffect
    <3>2. \A e \in ToSet(es) : e.type # "TOKEN_GENERATED" /\ e.type # "DECODE_COMPLETE"
      BY <3>1
    <3> QED
      BY <3>1, <3>2
  <2> QED
    BY <2>1, <2>2
<1>6. PICK A : /\ nodes' = [nodes EXCEPT ![Node] = A] /\ A.decoding = {}
  <2>1. nodes[Node].decoding = {}
    BY <1>2, PrefillIdle
  <2>2. PICK A : nodes' = [nodes EXCEPT ![Node] = A] /\ A.decoding = nodes[Node].decoding
    BY PrefillStartEffect, PrefillCompleteEffect
  <2> QED
    BY <2>1, <2>2
<1>7. DOMAIN nodes = Nodes /\ Node \in Nodes /\ nodes[Node].decoding = {}
  BY <1>2, Constants, PrefillIdle DEF Inv, Typed
<1>8. \A n \in Nodes : /\ nodes'[n].decoding = nodes[n].decoding
                       /\ \A q \in nodes[n].decoding : nodes'[n].tokens[q] = nodes[n].tokens[q]
  BY <1>6, <1>7
<1>9. /\ SameSamples(metrics, metrics') /\ metrics'.e2e = metrics.e2e
      /\ metrics'.arrived = metrics.arrived
  <2>1. CASE PrefillStartCached \/ PrefillStartChunked
    <3>1. metrics' = M!CountPrefillStart(metrics, r)
      BY <1>4, <2>1, PrefillStartEffect
    <3> QED
      BY <1>1, <3>1, CountPrefillStartFacts DEF SameCounts
  <2>2. CASE PrefillComplete
    <3>1. metrics' = M!CountPrefillComplete(metrics, r)
      BY <1>4, <2>2, PrefillCompleteEffect
    <3> QED
      BY <1>1, <3>1, CountPrefillCompleteFacts DEF SameCounts
  <2> QED
    BY <2>1, <2>2
<1>10. \A q \in Requests : q \notin Decided => q \notin Decided'
  BY <1>2 DEF Decided
<1>11. \A q \in Requests : q \in InDecode => q \in InDecode'
  <2> SUFFICES ASSUME NEW q \in InDecode
               PROVE  q \in InDecode'
    OBVIOUS
  <2>1. q \in Decided /\ q \in Running(nodes[decisions[q].decode])
    BY DEF InDecode
  <2>2. decisions[q].decode \in Nodes /\ decisions[q].decode # Node
    BY <1>2, <2>1, Constants DEF Inv, Typed
  <2> QED
    BY <1>2, <1>6, <1>7, <2>1, <2>2 DEF InDecode, Decided
<1> QED
  BY <1>1, <1>3, <1>5, <1>8, <1>9, <1>10, <1>11, SamplesSame

(* KV_TRANSFER_COMPLETE on a full decode node: the streams stay.             *)
LEMMA TransferRejectedSamples ==
  ASSUME Inv, Ledger, Ledger', Samples, TransferRejected
  PROVE  Samples'
<1>1. metrics \in Collected /\ metrics' \in Collected
  <2>1. Collected' = Collected
    BY DEF Collected
  <2> QED
    BY <2>1 DEF Ledger
<1>2. PICK type : Pop(type) /\ type = "KV_TRANSFER_COMPLETE"
  BY TransferRejectedEffect
<1>3. PICK r \in Requests : r = Req /\ At(r, "transfer")
  BY TransferRejectedEffect
<1>4. decisions' = [decisions EXCEPT ![r] = NoDecision] /\ nodes' = nodes
  BY <1>3, TransferRejectedEffect
<1>5. PICK es : Scheduling(es) /\ \A e \in ToSet(es) : e.type = "REQUEST_REJECTED"
  BY TransferRejectedEffect
<1>6. metrics' = M!CountTransferComplete(metrics, r)
  BY <1>3, TransferRejectedEffect
<1>7. /\ SameSamples(metrics, metrics') /\ metrics'.e2e = metrics.e2e
      /\ metrics'.arrived = metrics.arrived
  BY <1>1, <1>6, CountTransferCompleteFacts DEF SameCounts
<1>8. r \notin InDecode
  BY <1>3, SlotOf
<1>9. DOMAIN decisions = Requests
  BY DEF Inv, Typed
<1>10. /\ \A q \in Requests : q \notin Decided => q \notin Decided'
       /\ \A q \in Requests : q \in InDecode => q \in InDecode'
  BY <1>4, <1>8, <1>9 DEF Decided, InDecode, NoDecision
<1>11. \A e \in ToSet(es) : e.type # "TOKEN_GENERATED" /\ e.type # "DECODE_COMPLETE"
  BY <1>5
<1>12. \A n \in Nodes : /\ nodes'[n].decoding = nodes[n].decoding
                        /\ \A q \in nodes[n].decoding : nodes'[n].tokens[q] = nodes[n].tokens[q]
  BY <1>4
<1>13. type # "TOKEN_GENERATED"
  BY <1>2
<1> QED
  BY <1>1, <1>2, <1>5, <1>7, <1>10, <1>11, <1>12, <1>13, SamplesSame

(* KV_TRANSFER_COMPLETE on a decode node with a free slot: the stream starts *)
(* without tokens.                                                           *)
LEMMA TransferAdmittedSamples ==
  ASSUME Inv, Ledger, Ledger', Samples, TransferAdmitted
  PROVE  Samples'
<1>1. metrics \in Collected /\ metrics' \in Collected
  <2>1. Collected' = Collected
    BY DEF Collected
  <2> QED
    BY <2>1 DEF Ledger
<1>2. PICK type : Pop(type) /\ type = "KV_TRANSFER_COMPLETE"
  BY TransferAdmittedEffect
<1>3. PICK r \in Requests : r = Req /\ At(r, "transfer")
  BY TransferAdmittedEffect
<1>4. PICK d \in DecodeNodes :
        /\ d = decisions[r].decode
        /\ \E A : /\ nodes' = [nodes EXCEPT ![d] = A]
                  /\ Running(A) = Running(nodes[d]) \cup {r}
                  /\ A.decoding = nodes[d].decoding \cup {r}
                  /\ A.tokens = nodes[d].tokens
        /\ \E es : Scheduling(es) /\ \A e \in ToSet(es) : e.type = "DECODE_BATCH_STEP"
  BY <1>3, TransferAdmittedEffect
<1>5. PICK A : /\ nodes' = [nodes EXCEPT ![d] = A]
               /\ Running(A) = Running(nodes[d]) \cup {r}
               /\ A.decoding = nodes[d].decoding \cup {r}
               /\ A.tokens = nodes[d].tokens
  BY <1>4
<1>6. PICK es : Scheduling(es) /\ \A e \in ToSet(es) : e.type = "DECODE_BATCH_STEP"
  BY <1>4
<1>7. metrics' = M!CountTransferComplete(metrics, r) /\ decisions' = decisions
  BY <1>3, TransferAdmittedEffect
<1>8. /\ SameSamples(metrics, metrics') /\ metrics'.e2e = metrics.e2e
      /\ metrics'.arrived = metrics.arrived
  BY <1>1, <1>7, CountTransferCompleteFacts DEF SameCounts
<1>9. DOMAIN nodes = Nodes /\ d \in Nodes /\ WellFormed(nodes[d])
  BY Constants DEF Inv, Typed
<1>10. r \in Decided /\ r \notin InDecode /\ r \notin Running(nodes[d])
  <2>1. r \in Decided /\ r \notin Running(nodes[d])
    BY <1>3, <1>9 DEF At, Booked, Placed, Outside
  <2> QED
    BY <1>3, <2>1, SlotOf
<1>11. Sent(r) = 0 /\ nodes[d].tokens[r] = 0
  <2>1. metrics.ttft[r] = M!None
    BY <1>10 DEF Samples, Clocked, Gone
  <2>2. Sampled(r) = 0
    BY <1>1, <2>1, SampledFacts
  <2>3. ~Has(r, "TOKEN_GENERATED")
    BY <1>10 DEF Ledger, Marks, Has, HasIn
  <2>4. nodes[d].tokens[r] = 0
    BY <1>9, <1>10 DEF WellFormed
  <2> QED
    BY <2>2, <2>3, <2>4 DEF Sent, OnTheWay
<1>12. \A n \in Nodes : \A q \in nodes'[n].decoding :
         q \in Requests /\ nodes'[n].tokens[q] = Sent(q) /\ Sent(q) < AnswerLength(q)
  <2>1. \A n \in Nodes : nodes[n].decoding \subseteq Requests
    BY NodeTypes DEF Inv, Typed
  <2>2. AnswerLength(r) \in Nat /\ AnswerLength(r) >= 1
    BY AnswerLengthFacts
  <2>3. \A n \in Nodes : \A q \in nodes[n].decoding :
          nodes[n].tokens[q] = Sent(q) /\ Sent(q) < AnswerLength(q)
    BY DEF Samples, Streams
  <2>4. Sent(r) < AnswerLength(r)
    BY <1>11, <2>2
  <2> QED
    BY <1>5, <1>9, <1>11, <2>1, <2>3, <2>4
<1>13. /\ \A q \in Requests : Gone(q) => q \notin Decided'
       /\ \A q \in Requests : q \in InDecode => q \in InDecode'
  <2>1. \A n \in Nodes : Running(nodes[n]) \subseteq Running(nodes'[n])
    BY <1>5, <1>9
  <2>2. \A q \in Decided : decisions[q].decode \in Nodes
    BY Constants DEF Inv, Typed
  <2>3. Decided' = Decided
    BY <1>7 DEF Decided
  <2> QED
    BY <1>7, <2>1, <2>2, <2>3 DEF Gone, InDecode
<1>14. \A e \in ToSet(es) : e.type # "TOKEN_GENERATED" /\ e.type # "DECODE_COMPLETE"
  BY <1>6
<1>15. /\ metrics'.ttft = metrics.ttft /\ metrics'.lastStep = metrics.lastStep
       /\ metrics'.tbt = metrics.tbt /\ metrics'.tbtTime = metrics.tbtTime
       /\ metrics'.skipped = metrics.skipped /\ metrics'.arrivedAt = metrics.arrivedAt
  BY <1>8 DEF SameSamples
<1>16. metrics'.arrived >= metrics.arrived
  BY <1>1, <1>8 DEF Collected
<1>17. type # "TOKEN_GENERATED"
  BY <1>2
<1>18. \A q \in Requests : \/ metrics'.arrivedAt[q] = metrics.arrivedAt[q]
                           \/ metrics'.arrivedAt[q] = now' /\ metrics.ttft[q] = M!None
  BY <1>15
<1> QED
  BY <1>1, <1>2, <1>6, <1>8, <1>12, <1>13, <1>14, <1>15, <1>16, <1>17, <1>18, SamplesKept

(* A token that is next in its stream becomes the TTFT or a TBT sample.      *)
LEMMA TokenSampled ==
  ASSUME NEW m \in Collected, NEW r \in Requests, NEW s \in Nat, NEW t \in Nat, NEW k,
         k = M!CountToken(m, r, s, t), m.arrivedAt[r] <= t,
         m.ttft[r] = M!None => s = 0 /\ m.tbt[r] = 0 /\ m.tbtTime[r] = 0,
         m.ttft[r] # M!None =>
           /\ s = m.tbt[r] + 1 /\ m.lastStep[r] # M!None
           /\ m.ttft[r] + m.tbtTime[r] = m.lastStep[r] - m.arrivedAt[r]
  PROVE  /\ k.ttft[r] # M!None /\ k.tbt[r] = s /\ k.lastStep[r] = t /\ t # M!None
         /\ k.ttft[r] + k.tbtTime[r] = t - m.arrivedAt[r]
         /\ k.skipped = m.skipped
         /\ \A q \in Requests : q # r => /\ k.ttft[q] = m.ttft[q] /\ k.lastStep[q] = m.lastStep[q]
                                         /\ k.tbt[q] = m.tbt[q] /\ k.tbtTime[q] = m.tbtTime[q]
<1>1. /\ m.arrivedAt[r] \in Int /\ m.ttft[r] \in Int /\ m.tbt[r] \in Nat /\ m.tbtTime[r] \in Int
      /\ m.lastStep[r] \in Int
  BY DEF Collected
<1>2. t # M!None
  BY DEF M!None
<1>3. CASE m.ttft[r] = M!None
  <2>1. k = M!CountToken(m, r, 0, t) /\ s = 0
    BY <1>3
  <2>2. /\ k.ttft[r] = t - m.arrivedAt[r] /\ k.lastStep[r] = t
        /\ k.tbt = m.tbt /\ k.tbtTime = m.tbtTime /\ k.skipped = m.skipped
        /\ \A q \in Requests : q # r => k.ttft[q] = m.ttft[q] /\ k.lastStep[q] = m.lastStep[q]
    BY <1>3, <2>1, CountTokenFirst
  <2>3. k.ttft[r] # M!None
    BY <1>1, <2>2 DEF M!None
  <2>4. k.ttft[r] + k.tbtTime[r] = t - m.arrivedAt[r]
    BY <1>1, <1>3, <2>2
  <2> QED
    BY <1>2, <1>3, <2>1, <2>2, <2>3, <2>4
<1>4. CASE m.ttft[r] # M!None
  <2>1. s > 0 /\ m.lastStep[r] # M!None
    BY <1>1, <1>4
  <2>2. /\ k.ttft = m.ttft /\ k.skipped = m.skipped
        /\ k.lastStep[r] = t /\ k.tbt[r] = m.tbt[r] + 1
        /\ k.tbtTime[r] = m.tbtTime[r] + t - m.lastStep[r]
        /\ \A q \in Requests : q # r => /\ k.lastStep[q] = m.lastStep[q]
                                        /\ k.tbt[q] = m.tbt[q] /\ k.tbtTime[q] = m.tbtTime[q]
    BY <2>1, CountTokenNext
  <2>3. k.ttft[r] + k.tbtTime[r] = t - m.arrivedAt[r]
    BY <1>1, <1>4, <2>2
  <2> QED
    BY <1>2, <1>4, <2>2, <2>3
<1> QED
  BY <1>3, <1>4

(* A token of r is popped and sampled, and nothing else changes.             *)
SamplesOne(r) ==
  /\ now' \in Nat /\ nodes' = nodes /\ decisions' = decisions /\ pending' = pending
  /\ Queued' \subseteq Queued
  /\ \E h \in Queued : h.type = "TOKEN_GENERATED" /\ h.req = r /\ h.time = now'
  /\ ~Has(r, "TOKEN_GENERATED")'
  /\ \A q : q # r => (Has(q, "TOKEN_GENERATED")' <=> Has(q, "TOKEN_GENERATED"))
  /\ r \in InDecode /\ r \in Decided
  /\ metrics'.arrivedAt = metrics.arrivedAt /\ metrics'.e2e = metrics.e2e
  /\ metrics'.arrived = metrics.arrived /\ metrics'.skipped = metrics.skipped
  /\ metrics'.ttft[r] # M!None /\ metrics'.lastStep[r] = now' /\ now' # M!None
  /\ metrics'.ttft[r] + metrics'.tbtTime[r] = now' - metrics.arrivedAt[r]
  /\ \A q \in Requests : q # r =>
       /\ metrics'.ttft[q] = metrics.ttft[q] /\ metrics'.lastStep[q] = metrics.lastStep[q]
       /\ metrics'.tbt[q] = metrics.tbt[q] /\ metrics'.tbtTime[q] = metrics.tbtTime[q]
  /\ Sampled(r)' = Sampled(r) + 1
  /\ \A q \in Requests : q # r => Sampled(q)' = Sampled(q)
  /\ \A q \in Requests : Sent(q)' = Sent(q) /\ AnswerLength(q)' = AnswerLength(q)

(* TOKEN_GENERATED: the token is the next of its stream.                     *)
LEMMA TokenEffect ==
  ASSUME Inv, Ledger, Ledger', Samples, TokenGenerated
  PROVE  \E r \in Requests : SamplesOne(r)
<1>1. metrics \in Collected /\ metrics' \in Collected
  <2>1. Collected' = Collected
    BY DEF Collected
  <2> QED
    BY <2>1 DEF Ledger
<1>2. PICK type : Pop(type) /\ type = "TOKEN_GENERATED"
  BY DEF TokenGenerated
<1>3. PICK h : h = Head(events)
  OBVIOUS
<1>4. h \in Event /\ h \in Queued /\ h.type = "TOKEN_GENERATED" /\ Fits(h) /\ now' = h.time
  BY <1>2, <1>3, PopEffect
<1>5. PICK r \in Requests : r = Req /\ r = h.req
  BY <1>3, <1>4 DEF Fits, Req
<1>6. PICK t \in Nat : t = now'
  BY <1>2, PopEffect
<1>7. PICK s \in Nat : s = h.step
  BY <1>4 DEF Event
<1>8. /\ metrics' = M!CountToken(metrics, r, s, t) /\ nodes' = nodes /\ decisions' = decisions
      /\ pending' = pending /\ Handle(<<>>)
  BY <1>3, <1>5, <1>6, <1>7 DEF TokenGenerated
<1>9. PICK es : Scheduling(es) /\ ToSet(es) = {}
  BY <1>2, <1>8, QuietEffect
<1>10. Queued' = Rest /\ Rest \subseteq Queued
  BY <1>2, <1>9, PopEffect DEF Scheduling
<1>11. /\ Has(r, "TOKEN_GENERATED") /\ ~Has(r, "TOKEN_GENERATED")'
       /\ \A q : q # r => (Has(q, "TOKEN_GENERATED")' <=> Has(q, "TOKEN_GENERATED"))
  <2>1. ~HasIn(Rest, r, "TOKEN_GENERATED")
    BY <1>2, <1>5, NoticePopped DEF Ledger, Notices
  <2>2. \A q : ~HasIn(ToSet(es), q, "TOKEN_GENERATED")
    BY <1>9 DEF HasIn
  <2> QED
    BY <1>2, <1>5, <1>9, <2>1, <2>2, NoticeAfter
<1>12. /\ r \in InDecode /\ r \in Decided /\ ~Gone(r) /\ s = Sampled(r)
       /\ Decided' = Decided /\ InDecode' = InDecode
  <2>1. r \in InDecode
    BY <1>4, <1>5 DEF Ledger, Marks
  <2>2. s = Sampled(r)
    BY <1>4, <1>5, <1>7 DEF Samples, Told
  <2> QED
    BY <1>8, <2>1, <2>2 DEF InDecode, Gone, Decided
<1>13. \A q \in Requests : Clocked(q)
  BY DEF Samples
<1>14. now \in Nat /\ now <= t
  BY <1>2, <1>6, PopEffect DEF Typed
<1>15. \A q \in Requests : metrics.arrivedAt[q] \in Int /\ metrics.arrivedAt[q] <= t
  <2>1. \A q \in Requests : metrics.arrivedAt[q] \in Int /\ metrics.arrivedAt[q] <= now
    BY <1>1, <1>13 DEF Clocked, Collected
  <2> QED
    BY <1>14, <2>1
<1>16. /\ metrics.ttft[r] = M!None => s = 0 /\ metrics.tbt[r] = 0 /\ metrics.tbtTime[r] = 0
       /\ metrics.ttft[r] # M!None =>
            /\ s = metrics.tbt[r] + 1 /\ metrics.lastStep[r] # M!None
            /\ metrics.ttft[r] + metrics.tbtTime[r] = metrics.lastStep[r] - metrics.arrivedAt[r]
  <2>1. /\ metrics.ttft[r] = M!None => s = 0
        /\ metrics.ttft[r] # M!None => s = metrics.tbt[r] + 1
    BY <1>1, <1>12, SampledFacts
  <2> QED
    BY <1>13, <2>1 DEF Clocked
<1>17. PICK m : m = metrics
  OBVIOUS
<1>18. PICK k : k = metrics'
  OBVIOUS
<1>19. /\ k.ttft[r] # M!None /\ k.tbt[r] = s /\ k.lastStep[r] = t /\ t # M!None
       /\ k.ttft[r] + k.tbtTime[r] = t - m.arrivedAt[r]
       /\ k.skipped = m.skipped
       /\ \A q \in Requests : q # r => /\ k.ttft[q] = m.ttft[q] /\ k.lastStep[q] = m.lastStep[q]
                                       /\ k.tbt[q] = m.tbt[q] /\ k.tbtTime[q] = m.tbtTime[q]
  <2>1. /\ m \in Collected /\ k = M!CountToken(m, r, s, t) /\ m.arrivedAt[r] <= t
        /\ m.ttft[r] = M!None => s = 0 /\ m.tbt[r] = 0 /\ m.tbtTime[r] = 0
        /\ m.ttft[r] # M!None =>
             /\ s = m.tbt[r] + 1 /\ m.lastStep[r] # M!None
             /\ m.ttft[r] + m.tbtTime[r] = m.lastStep[r] - m.arrivedAt[r]
    BY <1>1, <1>8, <1>15, <1>16, <1>17, <1>18
  <2> QED
    BY <2>1, TokenSampled
<1>20. k.arrivedAt = m.arrivedAt /\ k.e2e = m.e2e /\ k.arrived = m.arrived
  BY <1>1, <1>8, <1>17, <1>18, CountTokenFacts DEF SameCounts
<1>21. M!None' = M!None
  BY DEF M!None
<1>22. /\ Sampled(r)' = s + 1
       /\ \A q \in Requests : q # r => Sampled(q)' = Sampled(q) /\ Sent(q)' = Sent(q)
  <2>1. Sampled(r)' = s + 1
    BY <1>18, <1>19, <1>21 DEF Sampled
  <2>2. ASSUME NEW q \in Requests, q # r
        PROVE  Sampled(q)' = Sampled(q)
    BY <1>17, <1>18, <1>19, <1>21, <2>2 DEF Sampled
  <2>3. ASSUME NEW q \in Requests, q # r
        PROVE  OnTheWay(q)' = OnTheWay(q)
    BY <1>11, <2>3 DEF OnTheWay
  <2> QED
    BY <2>1, <2>2, <2>3 DEF Sent
<1>23. Sent(r)' = Sent(r)
  <2>1. OnTheWay(r)' = 0 /\ OnTheWay(r) = 1
    BY <1>11 DEF OnTheWay
  <2> QED
    BY <1>12, <1>22, <2>1 DEF Sent
<1>24. \A q \in Requests : Sent(q)' = Sent(q) /\ AnswerLength(q)' = AnswerLength(q)
  BY <1>22, <1>23, AnswerLengthFacts
<1>25. SamplesOne(r)
  <2>1. /\ now' \in Nat /\ nodes' = nodes /\ decisions' = decisions /\ pending' = pending
        /\ Queued' \subseteq Queued /\ ~Has(r, "TOKEN_GENERATED")'
        /\ \A q : q # r => (Has(q, "TOKEN_GENERATED")' <=> Has(q, "TOKEN_GENERATED"))
        /\ r \in InDecode /\ r \in Decided
    BY <1>6, <1>8, <1>10, <1>11, <1>12
  <2>2. \E e \in Queued : e.type = "TOKEN_GENERATED" /\ e.req = r /\ e.time = now'
    BY <1>4, <1>5
  <2>3. /\ metrics'.arrivedAt = metrics.arrivedAt /\ metrics'.e2e = metrics.e2e
        /\ metrics'.arrived = metrics.arrived /\ metrics'.skipped = metrics.skipped
        /\ metrics'.ttft[r] # M!None /\ metrics'.lastStep[r] = now' /\ now' # M!None
        /\ metrics'.ttft[r] + metrics'.tbtTime[r] = now' - metrics.arrivedAt[r]
        /\ \A q \in Requests : q # r =>
             /\ metrics'.ttft[q] = metrics.ttft[q] /\ metrics'.lastStep[q] = metrics.lastStep[q]
             /\ metrics'.tbt[q] = metrics.tbt[q] /\ metrics'.tbtTime[q] = metrics.tbtTime[q]
    BY <1>6, <1>17, <1>18, <1>19, <1>20
  <2>4. /\ Sampled(r)' = Sampled(r) + 1
        /\ \A q \in Requests : q # r => Sampled(q)' = Sampled(q)
        /\ \A q \in Requests : Sent(q)' = Sent(q) /\ AnswerLength(q)' = AnswerLength(q)
    BY <1>12, <1>22, <1>24
  <2> QED
    BY <2>1, <2>2, <2>3, <2>4 DEF SamplesOne
<1> QED
  BY <1>25

(* TOKEN_GENERATED.                                                          *)
LEMMA TokenGeneratedSamples ==
  ASSUME Inv, Ledger, Ledger', Samples, TokenGenerated
  PROVE  Samples'
<1>1. metrics \in Collected
  BY LedgerParts
<1>2. PICK r \in Requests : SamplesOne(r)
  BY TokenEffect
<1>3. /\ nodes' = nodes /\ decisions' = decisions /\ pending' = pending
      /\ Queued' \subseteq Queued /\ ~Has(r, "TOKEN_GENERATED")'
      /\ \A q : q # r => (Has(q, "TOKEN_GENERATED")' <=> Has(q, "TOKEN_GENERATED"))
      /\ r \in InDecode /\ r \in Decided /\ Decided' = Decided /\ InDecode' = InDecode
  BY <1>2 DEF SamplesOne, InDecode, Decided
<1>4. PICK h \in Queued : h.type = "TOKEN_GENERATED" /\ h.req = r /\ h.time = now'
  BY <1>2 DEF SamplesOne
<1>5. /\ metrics'.arrivedAt = metrics.arrivedAt /\ metrics'.e2e = metrics.e2e
      /\ metrics'.arrived = metrics.arrived /\ metrics'.skipped = metrics.skipped
      /\ metrics'.ttft[r] # M!None /\ metrics'.lastStep[r] = now' /\ now' # M!None
      /\ metrics'.ttft[r] + metrics'.tbtTime[r] = now' - metrics.arrivedAt[r]
      /\ \A q \in Requests : q # r =>
           /\ metrics'.ttft[q] = metrics.ttft[q] /\ metrics'.lastStep[q] = metrics.lastStep[q]
           /\ metrics'.tbt[q] = metrics.tbt[q] /\ metrics'.tbtTime[q] = metrics.tbtTime[q]
  BY <1>2 DEF SamplesOne
<1>6. /\ Sampled(r)' = Sampled(r) + 1
      /\ \A q \in Requests : q # r => Sampled(q)' = Sampled(q)
      /\ \A q \in Requests : Sent(q)' = Sent(q) /\ AnswerLength(q)' = AnswerLength(q)
  BY <1>2 DEF SamplesOne
<1>7. M!None' = M!None
  BY DEF M!None
<1>8. \A q \in Requests : Clocked(q) /\ metrics'.arrivedAt[q] <= now'
  <2>1. \A q \in Requests : Clocked(q) /\ metrics.arrivedAt[q] \in Int /\ metrics.arrivedAt[q] <= now
    BY <1>1 DEF Samples, Clocked, Collected
  <2>2. now \in Nat /\ now' \in Nat /\ now <= now'
    <3>1. Pop("TOKEN_GENERATED")
      BY DEF TokenGenerated
    <3> QED
      BY <3>1, PopEffect DEF Typed
  <2> QED
    BY <1>5, <2>1, <2>2
<1>9. ASSUME NEW q \in Requests, q # r
      PROVE  Clocked(q)'
  <2>1. Gone(q)' <=> Gone(q)
    BY <1>3, <1>5, <1>6, <1>9 DEF Gone
  <2> QED
    BY <1>3, <1>5, <1>7, <1>8, <1>9, <2>1 DEF Clocked
<1>10. Clocked(r)'
  <2>1. metrics'.e2e[r] = M!None
    BY <1>3, <1>5, <1>8 DEF Clocked, Gone
  <2>2. metrics'.ttft[r] + metrics'.tbtTime[r] = metrics'.lastStep[r] - metrics'.arrivedAt[r]
    BY <1>5
  <2> QED
    BY <1>3, <1>5, <1>7, <1>8, <2>1, <2>2 DEF Clocked
<1>11. ASSUME NEW n \in Nodes
       PROVE  Streams(n)'
  <2>1. Streams(n) /\ nodes[n].decoding \subseteq Requests
    BY NodeTypes DEF Samples, Inv, Typed
  <2> QED
    BY <1>3, <1>6, <2>1 DEF Streams
<1>12. ASSUME NEW e \in Queued'
       PROVE  Told(e)'
  <2>1. e \in Queued /\ Told(e) /\ Fits(e)
    BY <1>3 DEF Samples, Inv
  <2>2. CASE e.type = "TOKEN_GENERATED"
    <3>1. e.req # r /\ e.req \in Requests
      <4>1. Has(e.req, "TOKEN_GENERATED")'
        BY <2>2 DEF Has, HasIn
      <4> QED
        BY <1>3, <2>1, <2>2, <4>1 DEF Fits
    <3> QED
      BY <1>6, <2>1, <2>2, <3>1 DEF Told
  <2>3. CASE e.type = "DECODE_COMPLETE"
    <3>1. e.req \in Requests
      BY <2>1, <2>3 DEF Fits
    <3>2. Sent(e.req)' = AnswerLength(e.req)'
      BY <1>6, <2>1, <2>3, <3>1 DEF Told
    <3>3. \A f \in Queued' : f.type = "TOKEN_GENERATED" /\ f.req = e.req => f.time = e.time
      BY <1>3, <2>1, <2>3 DEF Told
    <3>4. CASE e.req = r
      <4>1. e.time = now'
        BY <1>4, <2>1, <2>3, <3>4 DEF Told
      <4> QED
        BY <1>5, <2>3, <3>2, <3>3, <3>4, <4>1 DEF Told
    <3>5. CASE e.req # r
      <4>1. ~Has(e.req, "TOKEN_GENERATED")' => metrics'.lastStep[e.req] = e.time
        BY <1>3, <1>5, <2>1, <2>3, <3>1, <3>5 DEF Told
      <4> QED
        BY <2>3, <3>2, <3>3, <4>1 DEF Told
    <3> QED
      BY <3>4, <3>5
  <2> QED
    BY <2>2, <2>3 DEF Told
<1>13. metrics'.skipped = 0
  BY <1>5 DEF Samples
<1> QED
  BY <1>9, <1>10, <1>11, <1>12, <1>13 DEF Samples

(* A request with a decision has arrived.                                    *)
LEMMA DecidedArrived ==
  ASSUME Inv, Counts, metrics.arrived \in Nat, NEW r \in Decided
  PROVE  r <= metrics.arrived
<1>1. r \in Requests /\ r \in Nat
  BY Constants DEF Decided
<1>2. CASE \A e \in Queued : e.type # "REQUEST_ARRIVE"
  <2>1. metrics.arrived = Cardinality(Requests)
    BY <1>2 DEF Counts
  <2>2. Cardinality(Requests) \in Nat /\ Requests = 1..Cardinality(Requests)
    BY FS_CardinalityType, ServingAssumption
  <2> QED
    BY <1>1, <2>1, <2>2
<1>3. ASSUME NEW e \in Queued, e.type = "REQUEST_ARRIVE"
      PROVE  r <= metrics.arrived
  <2>1. e.req = metrics.arrived + 1 /\ e.req \in Requests
    BY <1>3 DEF Counts, Inv, Fits
  <2>2. ~At(r, "absent") /\ ~At(r, "announced")
    BY DEF At, Booked, Outside
  <2>3. ~(r > e.req)
    BY <1>1, <1>3, <2>2 DEF Inv, Ahead
  <2>4. r # e.req
    <3>1. ~Has(r, "REQUEST_ARRIVE")
      BY <1>1, <2>2 DEF Inv, At, Carried, Booked
    <3> QED
      BY <1>3, <3>1 DEF Has, HasIn
  <2> QED
    BY <1>1, <2>1, <2>3, <2>4
<1> QED
  BY <1>2, <1>3

(* When a completion is handled the last token was sampled, at the time of   *)
(* the completion.                                                           *)
LEMMA LastToken ==
  ASSUME Inv, Ledger, Samples, Pop("DECODE_COMPLETE"), NEW r \in Requests, r = Req,
         At(r, "decoded")
  PROVE  /\ ~Has(r, "TOKEN_GENERATED") /\ Sampled(r) = AnswerLength(r)
         /\ metrics.lastStep[r] = now' /\ metrics.ttft[r] # M!None /\ r <= metrics.arrived
<1>1. /\ Head(events) \in Queued /\ Head(events).type = "DECODE_COMPLETE" /\ Head(events).req = r
      /\ Head(events).time = now' /\ Queued = {Head(events)} \cup Rest
  BY PopEffect DEF Req
<1>2. ~Has(r, "TOKEN_GENERATED")
  <2>1. ~HasIn(Rest, r, "TOKEN_GENERATED")
    BY TokensBefore DEF Ledger
  <2> QED
    BY <1>1, <2>1 DEF Has, HasIn
<1>3. Told(Head(events))
  BY <1>1 DEF Samples
<1>4. Sent(r) = AnswerLength(r) /\ metrics.lastStep[r] = now'
  BY <1>1, <1>2, <1>3 DEF Told
<1>5. metrics \in Collected /\ Counts
  BY LedgerParts
<1>6. Sampled(r) \in Nat /\ OnTheWay(r) = 0
  BY <1>2, <1>5, SampledFacts DEF OnTheWay
<1>7. AnswerLength(r) \in Nat /\ AnswerLength(r) >= 1
  BY AnswerLengthFacts
<1>8. Sampled(r) = AnswerLength(r) /\ Sampled(r) # 0
  BY <1>4, <1>6, <1>7 DEF Sent
<1>9. r \in Decided /\ metrics.arrived \in Nat
  BY <1>5 DEF At, Booked, Outside, Collected
<1> QED
  BY <1>2, <1>4, <1>5, <1>8, <1>9, SampledFacts, DecidedArrived

(* DECODE_COMPLETE: the last token was sampled at the time of the            *)
(* completion.                                                               *)
LEMMA DecodeCompleteSamples ==
  ASSUME Inv, Ledger, Ledger', Samples, DecodeComplete
  PROVE  Samples'
<1>1. metrics \in Collected /\ metrics' \in Collected
  <2>1. Collected' = Collected
    BY DEF Collected
  <2> QED
    BY <2>1 DEF Ledger
<1>2. PICK type : Pop(type) /\ type = "DECODE_COMPLETE"
  BY DecodeCompleteEffect
<1>3. PICK r \in Requests : r = Req /\ At(r, "decoded")
  BY DecodeCompleteEffect
<1>4. PICK t \in Nat : t = now'
  BY <1>2, PopEffect
<1>5. PICK n \in Nodes : n = Node
  BY DecodeCompleteEffect, Constants
<1>6. /\ decisions' = [decisions EXCEPT ![r] = NoDecision]
      /\ metrics' = M!CountDecodeComplete(metrics, r, t)
  BY <1>3, <1>4, DecodeCompleteEffect
<1>7. PICK A : /\ nodes' = [nodes EXCEPT ![n] = A]
               /\ Running(A) = Running(nodes[n]) \ {r}
               /\ A.decoding = nodes[n].decoding
               /\ A.tokens = [nodes[n].tokens EXCEPT ![r] = 0]
  BY <1>3, <1>5, DecodeCompleteEffect
<1>8. PICK es : Scheduling(es) /\ ToSet(es) = {}
  BY DecodeCompleteEffect
<1>9. Queued' = Rest /\ Rest \subseteq Queued
  BY <1>2, <1>8, PopEffect DEF Scheduling
<1>10. \A q : Has(q, "TOKEN_GENERATED")' <=> Has(q, "TOKEN_GENERATED")
  <2>1. \A q : ~HasIn(ToSet(es), q, "TOKEN_GENERATED")
    BY <1>8 DEF HasIn
  <2> QED
    BY <1>2, <1>8, <2>1, NoticeAfter
<1>12. /\ SameSamples(metrics, metrics') /\ metrics'.e2e[r] = t - metrics.arrivedAt[r]
       /\ \A q \in Requests : q # r => metrics'.e2e[q] = metrics.e2e[q]
       /\ metrics'.arrived = metrics.arrived
  BY <1>1, <1>6, CountDecodeCompleteFacts
<1>13. /\ metrics'.ttft = metrics.ttft /\ metrics'.lastStep = metrics.lastStep
       /\ metrics'.tbt = metrics.tbt /\ metrics'.tbtTime = metrics.tbtTime
       /\ metrics'.skipped = metrics.skipped /\ metrics'.arrivedAt = metrics.arrivedAt
  BY <1>12 DEF SameSamples
<1>14. M!None' = M!None
  BY DEF M!None
<1>15. \A q \in Requests : /\ Sampled(q)' = Sampled(q) /\ Sent(q)' = Sent(q)
                           /\ AnswerLength(q)' = AnswerLength(q)
  BY <1>10, <1>13, <1>14, AnswerLengthFacts DEF Sampled, Sent, OnTheWay
<1>16. /\ Sampled(r) = AnswerLength(r) /\ metrics.lastStep[r] = t /\ metrics.ttft[r] # M!None
       /\ r <= metrics.arrived
  BY <1>2, <1>3, <1>4, LastToken
<1>17. now \in Nat /\ now <= t
  BY <1>2, <1>4, PopEffect DEF Typed
<1>18. \A q \in Requests : metrics'.arrivedAt[q] <= now'
  <2>1. \A q \in Requests : metrics.arrivedAt[q] \in Int /\ metrics.arrivedAt[q] <= now
    BY <1>1 DEF Samples, Clocked, Collected
  <2> QED
    BY <1>4, <1>13, <1>17, <2>1
<1>19. DOMAIN decisions = Requests /\ DOMAIN nodes = Nodes
  BY DEF Inv, Typed
<1>20. r \notin Decided' /\ \A q \in Requests : q # r => (q \in Decided' <=> q \in Decided)
  BY <1>6, <1>19 DEF Decided
<1>21. ASSUME NEW q \in Requests, q # r
       PROVE  Clocked(q)'
  <2>1. Clocked(q)
    BY DEF Samples
  <2>2. Gone(q)' <=> Gone(q)
    BY <1>12, <1>15, <1>20, <1>21 DEF Gone
  <2>3. q \in InDecode => q \in InDecode'
    <3>1. \A m \in Nodes : q \in Running(nodes[m]) => q \in Running(nodes'[m])
      BY <1>7, <1>19, <1>21
    <3>2. q \in Decided => decisions[q].decode \in Nodes /\ decisions'[q] = decisions[q]
      BY <1>6, <1>19, <1>21, Constants DEF Inv, Typed
    <3> QED
      BY <1>20, <1>21, <3>1, <3>2 DEF InDecode
  <2> QED
    BY <1>12, <1>13, <1>14, <1>18, <1>21, <2>1, <2>2, <2>3 DEF Clocked
<1>22. Clocked(r)'
  <2>1. /\ metrics.ttft[r] + metrics.tbtTime[r] = metrics.lastStep[r] - metrics.arrivedAt[r]
        /\ metrics.lastStep[r] # M!None
    BY <1>16 DEF Samples, Clocked
  <2>2. Gone(r)'
    BY <1>12, <1>15, <1>16, <1>20 DEF Gone
  <2>3. metrics'.e2e[r] = metrics'.ttft[r] + metrics'.tbtTime[r]
    BY <1>12, <1>13, <1>16, <2>1
  <2> QED
    BY <1>13, <1>14, <1>16, <1>18, <2>1, <2>2, <2>3 DEF Clocked
<1>23. ASSUME NEW m \in Nodes
       PROVE  Streams(m)'
  <2>1. Streams(m) /\ nodes[m].decoding \subseteq Requests /\ nodes[m].tokens \in [Requests -> Nat]
    BY NodeTypes DEF Samples, Inv, Typed
  <2>2. r \notin nodes[m].decoding
    BY <1>3 DEF At, Placed
  <2>3. /\ nodes'[m].decoding = nodes[m].decoding
        /\ \A q \in nodes[m].decoding : nodes'[m].tokens[q] = nodes[m].tokens[q]
    BY <1>7, <1>19, <2>1, <2>2
  <2> QED
    BY <1>15, <2>1, <2>3 DEF Streams
<1>24. ASSUME NEW e \in Queued'
       PROVE  Told(e)'
  <2>1. e \in Queued /\ Told(e) /\ Fits(e)
    BY <1>9 DEF Samples, Inv
  <2>2. e.type # "DECODE_BATCH_STEP" => e.req \in Requests
    BY <2>1 DEF Fits
  <2>3. \A f \in Queued' : f \in Queued
    BY <1>9
  <2> QED
    BY <1>10, <1>13, <1>15, <2>1, <2>2, <2>3 DEF Told
<1>25. metrics'.skipped = 0
  BY <1>13 DEF Samples
<1> QED
  BY <1>21, <1>22, <1>23, <1>24, <1>25 DEF Samples

(* The tokens of a step: a stream that finishes with it has its whole        *)
(* answer, the others have not.                                              *)
LEMMA StepOfStream ==
  ASSUME Inv, Samples, metrics \in Collected, NEW n \in Nodes, NEW q \in nodes[n].decoding
  PROVE  /\ q \in Requests /\ nodes[n].tokens[q] = Sent(q) /\ Sent(q) \in Nat
         /\ q \in DecodeFinished(nodes[n]) => Sent(q) + 1 = AnswerLength(q)
         /\ q \notin DecodeFinished(nodes[n]) => Sent(q) + 1 < AnswerLength(q)
<1>1. q \in Requests
  BY NodeTypes DEF Inv, Typed
<1>2. nodes[n].tokens[q] = Sent(q) /\ Sent(q) < AnswerLength(q) /\ Sent(q) \in Nat
  BY <1>1, SampledFacts DEF Samples, Streams
<1>3. /\ AnswerLength(q) \in Nat /\ AnswerLength(q) >= 1
      /\ AnswerLength(q) >= ExpectedOutput[q]
      /\ AnswerLength(q) = 1 \/ AnswerLength(q) = ExpectedOutput[q]
      /\ ExpectedOutput[q] \in Nat
  BY <1>1, AnswerLengthFacts
<1>4. q \in DecodeFinished(nodes[n]) <=> Sent(q) + 1 >= ExpectedOutput[q]
  BY <1>2 DEF DecodeFinished
<1> QED
  BY <1>1, <1>2, <1>3, <1>4

(* A step sends one token of each of its streams; those of the step before   *)
(* have been sampled.                                                        *)
LEMMA BatchSends ==
  ASSUME Inv, Ledger, BatchStep, NEW n \in Nodes, n = Node, NEW N, N = nodes[n],
         NEW es, NEW end, Scheduling(es), StepList(es, N, n, end)
  PROVE  /\ \A q \in N.decoding : ~Has(q, "TOKEN_GENERATED") /\ Has(q, "TOKEN_GENERATED")'
         /\ \A q : q \notin N.decoding =>
              /\ ~HasIn(ToSet(es), q, "TOKEN_GENERATED")
              /\ Has(q, "TOKEN_GENERATED")' <=> Has(q, "TOKEN_GENERATED")
         /\ \A q \in N.decoding : q \in Requests /\ Sent(q) = Sampled(q) /\ Sent(q)' = Sent(q) + 1
         /\ \A q \in Requests : q \notin N.decoding => Sent(q)' = Sent(q)
<1>1. metrics \in Collected
  BY LedgerParts
<1>2. PICK type : Pop(type) /\ type = "DECODE_BATCH_STEP"
  BY BatchStepEffect
<1>3. N.decoding \subseteq Requests
  BY NodeTypes DEF Inv, Typed
<1>4. PICK b \in Nat : metrics' = M!CountBatchStep(metrics, b)
  <2>1. Cardinality(N.decoding) \in Nat
    BY <1>3, FS_Subset, FS_CardinalityType, ServingAssumption
  <2> QED
    BY <2>1, BatchStepEffect
<1>5. \A q \in N.decoding : ~HasIn(Rest, q, "TOKEN_GENERATED")
  BY <1>2, TokensBeforeStep DEF Ledger
<1>6. /\ \A q \in N.decoding : ~Has(q, "TOKEN_GENERATED") /\ Has(q, "TOKEN_GENERATED")'
      /\ \A q : q \notin N.decoding =>
           /\ ~HasIn(ToSet(es), q, "TOKEN_GENERATED")
           /\ Has(q, "TOKEN_GENERATED")' <=> Has(q, "TOKEN_GENERATED")
  <2>1. \A q \in N.decoding : HasIn(ToSet(es), q, "TOKEN_GENERATED")
    BY DEF StepList
  <2>2. \A q : q \notin N.decoding => ~HasIn(ToSet(es), q, "TOKEN_GENERATED")
    BY DEF StepList, HasIn
  <2>3. \A q : HasIn(Rest, q, "TOKEN_GENERATED") <=> Has(q, "TOKEN_GENERATED")
    BY <1>2, NoticeAfter
  <2>4. \A q : Has(q, "TOKEN_GENERATED")' <=> \/ HasIn(Rest, q, "TOKEN_GENERATED")
                                              \/ HasIn(ToSet(es), q, "TOKEN_GENERATED")
    BY <1>2, NoticeAfter
  <2> QED
    BY <1>5, <2>1, <2>2, <2>3, <2>4
<1>7. \A q \in Requests : Sampled(q)' = Sampled(q) /\ Sampled(q) \in Nat
  <2>1. metrics'.ttft = metrics.ttft /\ metrics'.tbt = metrics.tbt
    BY <1>1, <1>4, CountBatchStepFacts DEF SameSamples
  <2> QED
    BY <1>1, <2>1, SampledFacts DEF Sampled, M!None
<1>8. \A q \in N.decoding : OnTheWay(q) = 0 /\ OnTheWay(q)' = 1
  BY <1>6 DEF OnTheWay
<1>9. \A q \in Requests : q \notin N.decoding => OnTheWay(q)' = OnTheWay(q)
  BY <1>6 DEF OnTheWay
<1>10. /\ \A q \in N.decoding : q \in Requests /\ Sent(q) = Sampled(q) /\ Sent(q)' = Sent(q) + 1
       /\ \A q \in Requests : q \notin N.decoding => Sent(q)' = Sent(q)
  BY <1>3, <1>7, <1>8, <1>9 DEF Sent
<1> QED
  BY <1>6, <1>10

(* DECODE_BATCH_STEP: the tokens of the last step have been sampled, each    *)
(* stream sends its next one, and a finished stream its completion.          *)
LEMMA BatchStepSamples ==
  ASSUME Inv, Ledger, Ledger', Samples, BatchStep
  PROVE  Samples'
<1>1. metrics \in Collected /\ metrics' \in Collected
  <2>1. Collected' = Collected
    BY DEF Collected
  <2> QED
    BY <2>1 DEF Ledger
<1>2. PICK type : Pop(type) /\ type = "DECODE_BATCH_STEP"
  BY BatchStepEffect
<1>3. PICK n \in Nodes : n = Node
  BY BatchStepEffect
<1>4. PICK N : N = nodes[n] /\ WellFormed(N)
  BY DEF Inv, Typed
<1>5. decisions' = decisions
  BY BatchStepEffect
<1>6. PICK b \in Nat : metrics' = M!CountBatchStep(metrics, b)
  <2>1. Cardinality(N.decoding) \in Nat
    <3>1. N.decoding \subseteq Requests
      BY <1>4, NodeTypes
    <3> QED
      BY <3>1, FS_Subset, FS_CardinalityType, ServingAssumption
  <2> QED
    BY <1>3, <1>4, <2>1, BatchStepEffect
<1>7. PICK A : /\ nodes' = [nodes EXCEPT ![n] = A] /\ SameSlots(N, A)
               /\ A.decoding = N.decoding \ DecodeFinished(N)
               /\ \A r \in Requests :
                    A.tokens[r] = IF r \in N.decoding THEN N.tokens[r] + 1 ELSE N.tokens[r]
  BY <1>3, <1>4, BatchStepEffect
<1>8. PICK es, end : Scheduling(es) /\ StepList(es, N, n, end)
  BY <1>3, <1>4, BatchStepEffect
<1>9. Queued' = Rest \cup ToSet(es) /\ Rest \subseteq Queued
  BY <1>2, <1>8, PopEffect DEF Scheduling
<1>10. \A q \in N.decoding : ~HasIn(Rest, q, "TOKEN_GENERATED")
  BY <1>2, <1>3, <1>4, TokensBeforeStep DEF Ledger
<1>11. /\ \A q \in N.decoding : ~Has(q, "TOKEN_GENERATED") /\ Has(q, "TOKEN_GENERATED")'
       /\ \A q : q \notin N.decoding =>
            /\ ~HasIn(ToSet(es), q, "TOKEN_GENERATED")
            /\ Has(q, "TOKEN_GENERATED")' <=> Has(q, "TOKEN_GENERATED")
  BY <1>3, <1>4, <1>8, BatchSends
<1>12. /\ SameSamples(metrics, metrics') /\ metrics'.e2e = metrics.e2e
       /\ metrics'.arrived = metrics.arrived
  BY <1>1, <1>6, CountBatchStepFacts DEF SameCounts
<1>13. /\ metrics'.ttft = metrics.ttft /\ metrics'.lastStep = metrics.lastStep
       /\ metrics'.tbt = metrics.tbt /\ metrics'.tbtTime = metrics.tbtTime
       /\ metrics'.skipped = metrics.skipped /\ metrics'.arrivedAt = metrics.arrivedAt
  BY <1>12 DEF SameSamples
<1>14. M!None' = M!None
  BY DEF M!None
<1>15. \A q \in Requests : Sampled(q)' = Sampled(q) /\ AnswerLength(q)' = AnswerLength(q)
  BY <1>13, <1>14, AnswerLengthFacts DEF Sampled
<1>16. /\ \A q \in N.decoding : q \in Requests /\ Sent(q) = Sampled(q) /\ Sent(q)' = Sent(q) + 1
       /\ \A q \in Requests : q \notin N.decoding => Sent(q)' = Sent(q)
  BY <1>3, <1>4, <1>8, BatchSends
<1>17. DOMAIN nodes = Nodes
  BY DEF Inv, Typed
<1>18. ASSUME NEW q \in Requests
       PROVE  Clocked(q)'
  <2>1. Clocked(q)
    BY DEF Samples
  <2>2. Gone(q)' <=> Gone(q)
    BY <1>5, <1>12, <1>15 DEF Gone, Decided
  <2>3. q \in InDecode' <=> q \in InDecode
    <3>1. \A m \in Nodes : Running(nodes'[m]) = Running(nodes[m])
      BY <1>4, <1>7, <1>17 DEF SameSlots, Running
    <3>2. q \in Decided => decisions[q].decode \in Nodes
      BY Constants DEF Inv, Typed
    <3>3. Decided' = Decided
      BY <1>5 DEF Decided
    <3> QED
      BY <1>5, <3>1, <3>2, <3>3 DEF InDecode
  <2>4. metrics'.arrivedAt[q] <= now'
    <3>1. now \in Nat /\ now' \in Nat /\ now <= now'
      BY <1>2, PopEffect DEF Typed
    <3>2. metrics.arrivedAt[q] \in Int /\ metrics.arrivedAt[q] <= now
      BY <1>1, <2>1 DEF Clocked, Collected
    <3> QED
      BY <1>13, <3>1, <3>2
  <2> QED
    BY <1>12, <1>13, <1>14, <2>1, <2>2, <2>3, <2>4 DEF Clocked
<1>19. ASSUME NEW m \in Nodes
       PROVE  Streams(m)'
  <2>1. CASE m = n
    <3>1. nodes'[m].decoding = N.decoding \ DecodeFinished(N)
      BY <1>7, <1>17, <2>1
    <3>2. ASSUME NEW q \in nodes'[m].decoding
          PROVE  nodes'[m].tokens[q] = Sent(q)' /\ Sent(q)' < AnswerLength(q)'
      <4>1. q \in N.decoding /\ q \notin DecodeFinished(N)
        BY <3>1, <3>2
      <4>2. nodes'[m].tokens[q] = N.tokens[q] + 1
        BY <1>7, <1>16, <1>17, <2>1, <4>1
      <4>3. N.tokens[q] = Sent(q) /\ Sent(q) + 1 < AnswerLength(q)
        BY <1>1, <1>4, <4>1, StepOfStream
      <4> QED
        BY <1>15, <1>16, <4>1, <4>2, <4>3
    <3> QED
      BY <3>2 DEF Streams
  <2>2. CASE m # n
    <3>1. nodes'[m] = nodes[m]
      BY <1>7, <1>17, <2>2
    <3>2. ASSUME NEW q \in nodes[m].decoding
          PROVE  q \in Requests /\ q \notin N.decoding
      <4>1. q \in Requests
        BY <3>2, NodeTypes DEF Inv, Typed
      <4>2. PICK k \in Positions : At(q, k)
        BY <4>1 DEF Inv
      <4> QED
        BY <1>4, <2>2, <3>2, <4>1, <4>2 DEF At, Placed
    <3>3. Streams(m)
      BY DEF Samples
    <3> QED
      BY <1>15, <1>16, <3>1, <3>2, <3>3 DEF Streams
  <2> QED
    BY <2>1, <2>2
<1>20. ASSUME NEW e \in ToSet(es)
       PROVE  Told(e)'
  <2>1. /\ e.time = end
        /\ \/ e.type = "PREFILL_COMPLETE"
           \/ e.type = "TOKEN_GENERATED" /\ e.req \in N.decoding /\ e.step = N.tokens[e.req]
           \/ e.type = "DECODE_COMPLETE" /\ e.req \in DecodeFinished(N)
           \/ e.type = "DECODE_BATCH_STEP" /\ e.node = n
    BY <1>8 DEF StepList
  <2>2. CASE e.type = "TOKEN_GENERATED"
    <3>1. e.req \in N.decoding /\ e.step = N.tokens[e.req]
      BY <2>1, <2>2
    <3>2. N.tokens[e.req] = Sent(e.req)
      BY <1>1, <1>4, <3>1, StepOfStream
    <3>3. e.step = Sampled(e.req)'
      BY <1>15, <1>16, <3>1, <3>2
    <3> QED
      BY <2>2, <3>3 DEF Told
  <2>3. CASE e.type = "DECODE_COMPLETE"
    <3>1. e.req \in N.decoding /\ e.req \in DecodeFinished(N)
      BY <2>1, <2>3 DEF DecodeFinished
    <3>2. Sent(e.req) + 1 = AnswerLength(e.req)
      BY <1>1, <1>4, <3>1, StepOfStream
    <3>3. Sent(e.req)' = AnswerLength(e.req)'
      BY <1>15, <1>16, <3>1, <3>2
    <3>4. ASSUME NEW f \in Queued', f.type = "TOKEN_GENERATED", f.req = e.req
          PROVE  f.time = e.time
      <4>1. f \notin Rest
        BY <1>10, <3>1, <3>4 DEF HasIn
      <4> QED
        BY <1>8, <1>9, <2>1, <4>1 DEF StepList
    <3>5. Has(e.req, "TOKEN_GENERATED")'
      BY <1>11, <3>1
    <3> QED
      BY <2>3, <3>3, <3>4, <3>5 DEF Told
  <2> QED
    BY <2>2, <2>3 DEF Told
<1>21. ASSUME NEW e \in Rest
       PROVE  Told(e)'
  <2>1. e \in Queued /\ Told(e) /\ Fits(e)
    BY <1>9 DEF Samples, Inv
  <2>2. CASE e.type = "TOKEN_GENERATED"
    BY <1>15, <2>1, <2>2 DEF Told, Fits
  <2>3. CASE e.type = "DECODE_COMPLETE"
    <3>1. e.req \in Requests /\ Has(e.req, "DECODE_COMPLETE")
      BY <2>1, <2>3 DEF Fits, Has, HasIn
    <3>2. e.req \notin N.decoding
      <4>1. PICK k \in Positions : At(e.req, k)
        BY <3>1 DEF Inv
      <4> QED
        BY <1>4, <3>1, <4>1 DEF At, Placed, Carried
    <3>3. \A f \in Queued' : f.type = "TOKEN_GENERATED" /\ f.req = e.req => f \in Queued
      BY <1>9, <1>11, <3>2 DEF HasIn
    <3>4. Has(e.req, "TOKEN_GENERATED")' <=> Has(e.req, "TOKEN_GENERATED")
      BY <1>11, <3>2
    <3> QED
      BY <1>13, <1>15, <1>16, <2>1, <2>3, <3>1, <3>2, <3>3, <3>4 DEF Told
  <2> QED
    BY <2>2, <2>3 DEF Told
<1>22. metrics'.skipped = 0
  BY <1>13 DEF Samples
<1> QED
  BY <1>9, <1>18, <1>19, <1>20, <1>21, <1>22 DEF Samples

-----------------------------------------------------------------------------
(* The theorems.                                                             *)

(* Nothing is sampled before the first arrival.                              *)
LEMMA InitSamples == Init => Samples
<1> SUFFICES ASSUME Init
             PROVE  Samples
  OBVIOUS
<1>1. PICK t \in Gaps : events = <<Ev(t, "REQUEST_ARRIVE", 1, "none")>>
  BY DEF Init
<1>2. \A e \in Queued : e.type = "REQUEST_ARRIVE"
  <2>1. PICK a : a = Ev(t, "REQUEST_ARRIVE", 1, "none")
    OBVIOUS
  <2>2. a \in Event /\ a.type = "REQUEST_ARRIVE"
    <3>1. t \in Nat /\ 1 \in Nat /\ "none" \in Nodes \cup {"none"} /\ "REQUEST_ARRIVE" \in Types
      BY Constants DEF Types
    <3> QED
      BY <2>1, <3>1, EventFacts
  <2>3. Queued = {a}
    BY <1>1, <2>1, <2>2, ShortLists DEF Queued
  <2> QED
    BY <2>2, <2>3
<1>3. now = 0 /\ metrics = M!NoMetrics /\ nodes = [n \in Nodes |-> EmptyNode]
  BY DEF Init
<1>4. \A r \in Requests : Clocked(r)
  BY <1>3 DEF Clocked, M!NoMetrics, M!NoTimes, M!None
<1>5. \A n \in Nodes : Streams(n)
  BY <1>3, EmptyNodeFacts DEF Streams
<1>6. \A e \in Queued : Told(e)
  BY <1>2 DEF Told
<1>7. metrics.skipped = 0
  BY <1>3 DEF M!NoMetrics
<1> QED
  BY <1>4, <1>5, <1>6, <1>7 DEF Samples

(* Every step keeps the samples right.                                       *)
LEMMA NextSamples == Inv /\ Ledger /\ Ledger' /\ Samples /\ [Next]_vars => Samples'
<1> SUFFICES ASSUME Inv, Ledger, Ledger', Samples, [Next]_vars
             PROVE  Samples'
  OBVIOUS
<1>1. CASE ArriveRejected \/ \E p \in PrefillNodes, d \in DecodeNodes : ArriveRouted(p, d)
  BY <1>1, ArriveSamples
<1>2. CASE Scheduled \/ Rejected \/ TransferStarts
  BY <1>2, QuietSamples
<1>3. CASE PrefillStartCached \/ PrefillStartChunked \/ PrefillComplete
  BY <1>3, PrefillSamples
<1>4. CASE TransferRejected
  BY <1>4, TransferRejectedSamples
<1>5. CASE TransferAdmitted
  BY <1>5, TransferAdmittedSamples
<1>6. CASE BatchStep
  BY <1>6, BatchStepSamples
<1>7. CASE TokenGenerated
  BY <1>7, TokenGeneratedSamples
<1>8. CASE DecodeComplete
  BY <1>8, DecodeCompleteSamples
<1>9. CASE UNCHANGED vars
  <2>1. /\ now' = now /\ events' = events /\ nodes' = nodes /\ decisions' = decisions
        /\ metrics' = metrics
    BY <1>9 DEF vars
  <2>2. Queued' = Queued /\ InDecode' = InDecode /\ Decided' = Decided
    BY <2>1 DEF Queued, InDecode, Decided
  <2>3. \A r \in Requests : AnswerLength(r)' = AnswerLength(r)
    BY AnswerLengthFacts
  <2>4. \A r : /\ Has(r, "TOKEN_GENERATED")' <=> Has(r, "TOKEN_GENERATED")
               /\ Sampled(r)' = Sampled(r) /\ Sent(r)' = Sent(r)
    BY <2>1, <2>2 DEF Sampled, Sent, OnTheWay, Has, M!None
  <2>5. \A r \in Requests : Clocked(r)'
    BY <2>1, <2>2, <2>3, <2>4 DEF Samples, Clocked, Gone, M!None
  <2>6. \A n \in Nodes : Streams(n)'
    <3>1. \A n \in Nodes : nodes[n].decoding \subseteq Requests
      BY NodeTypes DEF Inv, Typed
    <3> QED
      BY <2>1, <2>3, <2>4, <3>1 DEF Samples, Streams
  <2>7. ASSUME NEW e \in Queued'
        PROVE  Told(e)'
    <3>1. e \in Queued /\ Told(e) /\ (e.type = "DECODE_COMPLETE" => e.req \in Requests)
      BY <2>2 DEF Samples, Inv, Fits
    <3> QED
      BY <2>1, <2>2, <2>3, <2>4, <3>1 DEF Told
  <2> QED
    BY <2>1, <2>5, <2>6, <2>7 DEF Samples
<1> QED
  BY <1>1, <1>2, <1>3, <1>4, <1>5, <1>6, <1>7, <1>8, <1>9 DEF Next

(* Whatever batch steps the tokens of requests share, every token is sampled *)
(* as the next of its answer, and the times of the collector add up.         *)
THEOREM SamplesAgree == Spec => [](Inv /\ Ledger /\ Samples)
<1>1. Init => Inv /\ Ledger /\ Samples
  BY InitInv, InitLedger, InitSamples
<1>2. Inv /\ Ledger /\ Samples /\ [Next]_vars => Inv' /\ Ledger' /\ Samples'
  BY NextInv, NextLedger, NextSamples
<1> QED
  BY <1>1, <1>2, PTL DEF Spec

(* The TTFT of a completed request and its TBT samples make its end-to-end   *)
(* latency.                                                                  *)
THEOREM LatenciesRight == Spec => []LatenciesAddUp
<1>1. Samples => LatenciesAddUp
  BY DEF Samples, Clocked, LatenciesAddUp
<1> QED
  BY <1>1, SamplesAgree, PTL

(* At most one token of a request is queued, and it is the one Has finds.    *)
LEMMA OneToken ==
  ASSUME Inv, Notices, NEW r
  PROVE  /\ \A i, j \in QueuedTokens(r) : i = j
         /\ Cardinality(QueuedTokens(r)) = OnTheWay(r)
<1>1. \A i, j \in QueuedTokens(r) : i = j
  <2> SUFFICES ASSUME NEW i \in QueuedTokens(r), NEW j \in QueuedTokens(r), i # j
               PROVE  FALSE
    OBVIOUS
  <2>1. /\ i \in DOMAIN events /\ events[i] \in Event /\ events[i].req = r
        /\ events[i].type = "TOKEN_GENERATED"
    BY QueueByIndex DEF QueuedTokens, QueuedFor
  <2>2. /\ j \in DOMAIN events /\ events[j] \in Event /\ events[j].req = r
        /\ events[j].type = "TOKEN_GENERATED"
    BY QueueByIndex DEF QueuedTokens, QueuedFor
  <2>3. <<events[i], events[j]>> \in Twice
    BY <2>1, <2>2, OrderFacts
  <2> QED
    BY <2>1, <2>2, <2>3 DEF Notices, Apart
<1>2. Has(r, "TOKEN_GENERATED") <=> \E i : i \in QueuedTokens(r)
  BY QueueByIndex DEF QueuedTokens, QueuedFor, Has, HasIn
<1>3. CASE Has(r, "TOKEN_GENERATED")
  <2>1. PICK i : i \in QueuedTokens(r)
    BY <1>2, <1>3
  <2>2. QueuedTokens(r) = {i}
    BY <1>1, <2>1
  <2>3. Cardinality({i}) = 1
    BY FS_Singleton
  <2> QED
    BY <1>1, <1>3, <2>2, <2>3 DEF OnTheWay
<1>4. CASE ~Has(r, "TOKEN_GENERATED")
  <2>1. QueuedTokens(r) = {}
    BY <1>2, <1>4
  <2> QED
    BY <1>1, <1>4, <2>1, FS_EmptySet DEF OnTheWay
<1> QED
  BY <1>3, <1>4

(* The collector sees every token of a request once, in order and before its *)
(* completion, although tokens, completions and the next step share their    *)
(* time.                                                                     *)
THEOREM TokensSampledInOrder == Spec => []TokensInOrder
<1>1. Inv /\ Ledger /\ Samples => TokensInOrder
  <2> SUFFICES ASSUME Inv, Ledger, Samples
               PROVE  TokensInOrder
    OBVIOUS
  <2>1. Notices /\ metrics \in Collected
    BY LedgerParts
  <2>2. metrics.skipped = 0
    BY DEF Samples
  <2>3. ASSUME NEW r \in Requests, NEW i \in QueuedTokens(r)
        PROVE  events[i].step = Sampled(r) + Cardinality({j \in QueuedTokens(r) : j < i})
    <3>1. /\ i \in DOMAIN events /\ events[i] \in Queued /\ events[i].req = r
          /\ events[i].type = "TOKEN_GENERATED"
      BY QueueByIndex DEF QueuedTokens, QueuedFor
    <3>2. events[i].step = Sampled(r)
      BY <3>1 DEF Samples, Told
    <3>3. i \in Nat
      BY <3>1 DEF Inv, Typed
    <3>4. {j \in QueuedTokens(r) : j < i} = {}
      <4>1. \A j \in QueuedTokens(r) : j = i
        BY <2>1, OneToken
      <4>2. ~(i < i)
        BY <3>3
      <4>3. \A j \in QueuedTokens(r) : ~(j < i)
        BY <4>1, <4>2
      <4> QED
        BY <4>3
    <3>5. Cardinality({j \in QueuedTokens(r) : j < i}) = 0
      BY <3>4, FS_EmptySet
    <3>6. Sampled(r) \in Nat
      BY <2>1, SampledFacts
    <3> QED
      BY <3>2, <3>5, <3>6
  <2>4. ASSUME NEW i \in EventsOf("DECODE_COMPLETE")
        PROVE  /\ Sampled(events[i].req) + Cardinality(QueuedTokens(events[i].req))
                    = AnswerLength(events[i].req)
               /\ \A j \in QueuedTokens(events[i].req) : j < i
    <3>1. /\ i \in DOMAIN events /\ events[i] \in Queued /\ events[i] \in Event
          /\ events[i].type = "DECODE_COMPLETE"
      BY QueueByIndex DEF EventsOf
    <3>2. PICK r : r = events[i].req
      OBVIOUS
    <3>3. Sent(r) = AnswerLength(r)
      BY <3>1, <3>2 DEF Samples, Told
    <3>4. Cardinality(QueuedTokens(r)) = OnTheWay(r)
      BY <2>1, OneToken
    <3>5. ASSUME NEW j \in QueuedTokens(r)
          PROVE  j < i
      <4>1. /\ j \in DOMAIN events /\ events[j] \in Event /\ events[j].req = r
            /\ events[j].type = "TOKEN_GENERATED"
        BY QueueByIndex DEF QueuedTokens, QueuedFor
      <4>2. <<events[j], events[i]>> \in TokenOrder
        BY <3>1, <3>2, <4>1 DEF TokenOrder
      <4> QED
        BY <2>1, <3>1, <4>1, <4>2 DEF Notices, Respects
    <3> QED
      BY <3>2, <3>3, <3>4, <3>5 DEF Sent
  <2> QED
    BY <2>2, <2>3, <2>4 DEF TokensInOrder
<1> QED
  BY <1>1, SamplesAgree, PTL

-----------------------------------------------------------------------------
(* Sums over finite sets.                                                    *)

(* The element that a fold takes first, and the recursion it follows.        *)
Chosen(s) == CHOOSE x \in s : TRUE
Total(f) == FoldFunction(LAMBDA a, b : a + b, 0, f)
IsTotal(t, f, U) ==
  t = [s \in U |-> IF s = {} THEN 0 ELSE f[Chosen(s)] + t[s \ {Chosen(s)}]]

(* A set without the element that is taken first is a subset with one        *)
(* element less.                                                             *)
LEMMA ChosenFacts ==
  ASSUME NEW S, IsFiniteSet(S), NEW s \in SUBSET S, s # {}
  PROVE  /\ Chosen(s) \in s /\ s \ {Chosen(s)} \in SUBSET S
         /\ IsFiniteSet(s) /\ Cardinality(s) \in Nat \ {0}
         /\ Cardinality(s \ {Chosen(s)}) = Cardinality(s) - 1
<1>1. Chosen(s) \in s
  BY DEF Chosen
<1>2. IsFiniteSet(s)
  BY FS_Subset
<1>3. Cardinality(s) \in Nat /\ Cardinality(s) # 0
  BY <1>2, FS_CardinalityType, FS_EmptySet
<1>4. Cardinality(s \ {Chosen(s)}) = Cardinality(s) - 1
  BY <1>1, <1>2, FS_RemoveElement
<1> QED
  BY <1>1, <1>2, <1>3, <1>4

(* Induction over the subsets of a finite set, in the order of the fold.     *)
LEMMA SubsetInduction ==
  ASSUME NEW S, IsFiniteSet(S), NEW G, {} \in G,
         \A s \in SUBSET S : s # {} /\ s \ {Chosen(s)} \in G => s \in G
  PROVE  S \in G
<1> DEFINE H == {n \in Nat : \A s \in SUBSET S : Cardinality(s) = n => s \in G}
<1>1. Cardinality(S) \in Nat
  BY FS_CardinalityType
<1>2. 0 \in H
  <2>1. \A s \in SUBSET S : Cardinality(s) = 0 => s = {}
    BY FS_Subset, FS_EmptySet
  <2> QED
    BY <2>1
<1>3. ASSUME NEW n \in 1..Cardinality(S), n - 1 \in H
      PROVE  n \in H
  <2>1. n \in Nat /\ n # 0
    BY <1>1
  <2>2. ASSUME NEW s \in SUBSET S, Cardinality(s) = n
        PROVE  s \in G
    <3>1. s # {}
      BY <2>1, <2>2, FS_EmptySet
    <3>2. /\ s \ {Chosen(s)} \in SUBSET S /\ Cardinality(s \ {Chosen(s)}) = n - 1
      BY <2>2, <3>1, ChosenFacts
    <3>3. s \ {Chosen(s)} \in G
      BY <1>3, <3>2
    <3> QED
      BY <3>1, <3>3
  <2> QED
    BY <2>1, <2>2
<1>4. Cardinality(S) \in H
  <2> HIDE DEF H
  <2>1. \A n \in 0..Cardinality(S) : n \in H
    BY <1>1, <1>2, <1>3, InductionUpTo
  <2> QED
    BY <1>1, <2>1
<1> QED
  BY <1>4

(* The recursion of the fold defines a function.                             *)
LEMMA TotalExists ==
  ASSUME NEW S, IsFiniteSet(S), NEW f, DOMAIN f = S
  PROVE  \E t : IsTotal(t, f, SUBSET S) /\ Total(f) = t[S]
<1> DEFINE Level(n) == {s \in SUBSET S : Cardinality(s) <= n}
           Good == {n \in Nat : \E t : IsTotal(t, f, Level(n))}
<1>1. Cardinality(S) \in Nat /\ \A s \in SUBSET S : Cardinality(s) \in Nat
  BY FS_CardinalityType, FS_Subset
<1>2. 0 \in Good
  <2>1. \A s \in Level(0) : s = {}
    BY <1>1, FS_Subset, FS_EmptySet
  <2> DEFINE t == [s \in Level(0) |-> 0]
  <2>2. IsTotal(t, f, Level(0))
    <3> HIDE DEF Level
    <3> QED
      BY <2>1 DEF IsTotal
  <2> QED
    BY <2>2
<1>3. ASSUME NEW n \in 1..Cardinality(S), n - 1 \in Good
      PROVE  n \in Good
  <2>1. n \in Nat /\ n # 0
    BY <1>1
  <2>2. PICK t : IsTotal(t, f, Level(n - 1))
    BY <1>3
  <2> DEFINE g == [s \in Level(n) |-> IF Cardinality(s) = n
                                      THEN f[Chosen(s)] + t[s \ {Chosen(s)}] ELSE t[s]]
  <2>3. ASSUME NEW s \in Level(n)
        PROVE  g[s] = IF s = {} THEN 0 ELSE f[Chosen(s)] + g[s \ {Chosen(s)}]
    <3>1. s \in SUBSET S /\ Cardinality(s) <= n /\ Cardinality(s) \in Nat
      BY <1>1
    <3>2. CASE s = {}
      <4>1. Cardinality(s) = 0
        BY <3>2, FS_EmptySet
      <4>2. s \in Level(n - 1) /\ Cardinality(s) # n
        BY <2>1, <3>1, <4>1
      <4>3. t[s] = 0
        BY <2>2, <3>2, <4>2 DEF IsTotal
      <4> QED
        BY <3>2, <4>2, <4>3
    <3>3. CASE s # {}
      <4> DEFINE u == s \ {Chosen(s)}
      <4>1. u \in SUBSET S /\ Cardinality(u) = Cardinality(s) - 1
        BY <3>1, <3>3, ChosenFacts
      <4>2. u \in Level(n) /\ Cardinality(u) # n /\ u \in Level(n - 1)
        BY <2>1, <3>1, <4>1
      <4>3. g[u] = t[u]
        BY <4>2
      <4>4. Cardinality(s) # n => s \in Level(n - 1)
        BY <2>1, <3>1
      <4>5. s \in Level(n - 1) => t[s] = f[Chosen(s)] + t[u]
        <5> HIDE DEF Level
        <5> QED
          BY <2>2, <3>3 DEF IsTotal
      <4> HIDE DEF u, Level
      <4> QED
        BY <3>3, <4>3, <4>4, <4>5 DEF u
    <3> QED
      BY <3>2, <3>3
  <2>4. IsTotal(g, f, Level(n))
    <3> HIDE DEF Level
    <3> DEFINE h == [s \in Level(n) |-> IF s = {} THEN 0 ELSE f[Chosen(s)] + g[s \ {Chosen(s)}]]
    <3>1. \A s \in Level(n) : g[s] = h[s]
      BY <2>3
    <3> QED
      BY <3>1 DEF IsTotal
  <2> QED
    BY <2>1, <2>4
<1>4. Cardinality(S) \in Good
  <2> HIDE DEF Good
  <2>1. \A n \in 0..Cardinality(S) : n \in Good
    BY <1>1, <1>2, <1>3, InductionUpTo
  <2> QED
    BY <1>1, <2>1
<1>5. Level(Cardinality(S)) = SUBSET S
  BY FS_Subset
<1>6. \E t : IsTotal(t, f, SUBSET S)
  BY <1>4, <1>5
<1> DEFINE c == CHOOSE t : IsTotal(t, f, SUBSET S)
<1>7. IsTotal(c, f, SUBSET S)
  BY <1>6
<1>8. Total(f) = c[S]
  BY DEF Total, FoldFunction, FoldFunctionOnSet, MapThenFoldSet, IsTotal, Chosen
<1> QED
  BY <1>7, <1>8

(* A sum of zeros.                                                           *)
LEMMA TotalZero ==
  ASSUME NEW S, IsFiniteSet(S), NEW f, DOMAIN f = S, \A x \in S : f[x] = 0
  PROVE  Total(f) = 0
<1>1. PICK t : IsTotal(t, f, SUBSET S) /\ Total(f) = t[S]
  BY TotalExists
<1> DEFINE G == {s \in SUBSET S : t[s] = 0}
<1>2. {} \in G
  BY <1>1 DEF IsTotal
<1>3. ASSUME NEW s \in SUBSET S, s # {}, s \ {Chosen(s)} \in G
      PROVE  s \in G
  <2>1. t[s] = f[Chosen(s)] + t[s \ {Chosen(s)}]
    BY <1>1, <1>3 DEF IsTotal
  <2>2. f[Chosen(s)] = 0 /\ t[s \ {Chosen(s)}] = 0
    BY <1>3, ChosenFacts
  <2> QED
    BY <2>1, <2>2
<1>4. S \in G
  <2> HIDE DEF G
  <2> QED
    BY <1>2, <1>3, SubsetInduction
<1> QED
  BY <1>1, <1>4

(* One more for each element of D adds as many as D has.                     *)
LEMMA TotalAdds ==
  ASSUME NEW S, IsFiniteSet(S), NEW f \in [S -> Nat], NEW g \in [S -> Nat], NEW D \in SUBSET S,
         \A x \in S : g[x] = IF x \in D THEN f[x] + 1 ELSE f[x]
  PROVE  Total(g) = Total(f) + Cardinality(D)
<1>1. PICK t : IsTotal(t, f, SUBSET S) /\ Total(f) = t[S]
  BY TotalExists
<1>2. PICK u : IsTotal(u, g, SUBSET S) /\ Total(g) = u[S]
  BY TotalExists
<1> DEFINE G == {s \in SUBSET S : t[s] \in Nat /\ u[s] = t[s] + Cardinality(s \cap D)}
<1>3. {} \in G
  <2>1. t[{}] = 0 /\ u[{}] = 0
    BY <1>1, <1>2 DEF IsTotal
  <2>2. Cardinality({} \cap D) = 0
    BY FS_EmptySet
  <2> QED
    BY <2>1, <2>2
<1>4. ASSUME NEW s \in SUBSET S, s # {}, s \ {Chosen(s)} \in G
      PROVE  s \in G
  <2>1. PICK x : x = Chosen(s)
    OBVIOUS
  <2>2. x \in s /\ x \in S /\ IsFiniteSet(s)
    BY <1>4, <2>1, ChosenFacts
  <2>3. t[s] = f[x] + t[s \ {x}] /\ u[s] = g[x] + u[s \ {x}]
    BY <1>1, <1>2, <1>4, <2>1 DEF IsTotal
  <2>4. t[s \ {x}] \in Nat /\ u[s \ {x}] = t[s \ {x}] + Cardinality((s \ {x}) \cap D)
    BY <1>4, <2>1
  <2>5. f[x] \in Nat /\ g[x] = IF x \in D THEN f[x] + 1 ELSE f[x]
    BY <2>2
  <2>6. IsFiniteSet(s \cap D) /\ (s \ {x}) \cap D = (s \cap D) \ {x}
    BY <2>2, FS_Subset
  <2>7. /\ Cardinality(s \cap D) \in Nat
        /\ Cardinality((s \ {x}) \cap D)
             = IF x \in D THEN Cardinality(s \cap D) - 1 ELSE Cardinality(s \cap D)
    <3>1. PICK E : E = s \cap D
      OBVIOUS
    <3>2. IsFiniteSet(E) /\ (x \in E <=> x \in D)
      BY <2>2, <2>6, <3>1
    <3>3. Cardinality(E) \in Nat
      BY <3>2, FS_CardinalityType
    <3>4. Cardinality(E \ {x}) = IF x \in E THEN Cardinality(E) - 1 ELSE Cardinality(E)
      BY <3>2, FS_RemoveElement
    <3> QED
      BY <2>6, <3>1, <3>2, <3>3, <3>4
  <2>8. t[s] \in Nat
    BY <2>3, <2>4, <2>5
  <2>9. u[s] = t[s] + Cardinality(s \cap D)
    <3>1. PICK c \in Nat : c = Cardinality(s \cap D)
      BY <2>7
    <3>2. PICK a \in Nat : a = t[s \ {x}]
      BY <2>4
    <3>3. PICK b \in Nat : b = f[x]
      BY <2>5
    <3>4. CASE x \in D
      BY <2>3, <2>4, <2>5, <2>7, <3>1, <3>2, <3>3, <3>4
    <3>5. CASE x \notin D
      BY <2>3, <2>4, <2>5, <2>7, <3>1, <3>2, <3>3, <3>5
    <3> QED
      BY <3>4, <3>5
  <2> QED
    BY <2>8, <2>9
<1>5. S \in G
  <2> HIDE DEF G
  <2> QED
    BY <1>3, <1>4, SubsetInduction
<1>6. S \cap D = D
  OBVIOUS
<1> QED
  BY <1>1, <1>2, <1>5, <1>6

-----------------------------------------------------------------------------
(* The throughput counter.                                                   *)

(* Batch sizes add up to the tokens sent.                                    *)
Throughput == metrics.decodeTokens = Total([r \in Requests |-> Sent(r)])

(* A handler that sends no token.                                            *)
LEMMA ThroughputKept ==
  ASSUME Throughput, metrics'.decodeTokens = metrics.decodeTokens,
         \A q \in Requests : Sent(q)' = Sent(q)
  PROVE  Throughput'
<1>1. [q \in Requests |-> Sent(q)]' = [q \in Requests |-> Sent(q)]
  OBVIOUS
<1>2. PICK f : f = [q \in Requests |-> Sent(q)]
  OBVIOUS
<1>3. metrics.decodeTokens = Total(f)
  BY <1>2 DEF Throughput
<1>4. metrics'.decodeTokens = Total(f)
  BY <1>3
<1> QED
  BY <1>1, <1>2, <1>4 DEF Throughput

(* A handler that samples nothing and schedules no token.                    *)
LEMMA SentKept ==
  ASSUME Inv, NEW type, Pop(type), type # "TOKEN_GENERATED", NEW es, Scheduling(es),
         \A e \in ToSet(es) : e.type # "TOKEN_GENERATED",
         metrics'.ttft = metrics.ttft, metrics'.tbt = metrics.tbt
  PROVE  \A q \in Requests : Sent(q)' = Sent(q)
<1>1. \A q : Has(q, "TOKEN_GENERATED")' <=> Has(q, "TOKEN_GENERATED")
  <2>1. \A q : ~HasIn(ToSet(es), q, "TOKEN_GENERATED")
    BY DEF HasIn
  <2> QED
    BY <2>1, NoticeAfter
<1> QED
  BY <1>1 DEF Sampled, Sent, OnTheWay, M!None

(* The collector counts tokens in DECODE_BATCH_STEP only.                    *)
LEMMA CountedInSteps ==
  ASSUME NEW m \in Collected, NEW r \in Requests, NEW s \in Nat, NEW t \in Nat
  PROVE  /\ M!CountArrive(m, r, t).decodeTokens = m.decodeTokens
         /\ M!CountRejected(m, r).decodeTokens = m.decodeTokens
         /\ M!CountPrefillStart(m, r).decodeTokens = m.decodeTokens
         /\ M!CountPrefillComplete(m, r).decodeTokens = m.decodeTokens
         /\ M!CountTransferStart(m, r).decodeTokens = m.decodeTokens
         /\ M!CountTransferComplete(m, r).decodeTokens = m.decodeTokens
         /\ M!CountToken(m, r, s, t).decodeTokens = m.decodeTokens
         /\ M!CountDecodeComplete(m, r, t).decodeTokens = m.decodeTokens
<1>1. M!CountArrive(m, r, t).decodeTokens = m.decodeTokens
  BY DEF M!CountArrive, Collected
<1>2. M!CountRejected(m, r).decodeTokens = m.decodeTokens
  BY DEF M!CountRejected, Collected
<1>3. /\ M!CountPrefillStart(m, r).decodeTokens = m.decodeTokens
      /\ M!CountPrefillComplete(m, r).decodeTokens = m.decodeTokens
  BY DEF M!CountPrefillStart, M!CountPrefillComplete, Collected
<1>4. /\ M!CountTransferStart(m, r).decodeTokens = m.decodeTokens
      /\ M!CountTransferComplete(m, r).decodeTokens = m.decodeTokens
  BY DEF M!CountTransferStart, M!CountTransferComplete, Collected
<1>5. M!CountToken(m, r, s, t).decodeTokens = m.decodeTokens
  <2>1. m.ttft[r] \in Int /\ m.lastStep[r] \in Int
    BY DEF Collected
  <2> QED
    BY <2>1 DEF M!CountToken, Collected
<1>6. M!CountDecodeComplete(m, r, t).decodeTokens = m.decodeTokens
  BY DEF M!CountDecodeComplete, Collected
<1> QED
  BY <1>1, <1>2, <1>3, <1>4, <1>5, <1>6

(* The handlers that schedule no token.                                      *)
LEMMA QuietThroughput ==
  ASSUME Inv, Ledger, Throughput,
         \/ ArriveRejected \/ \E p \in PrefillNodes, d \in DecodeNodes : ArriveRouted(p, d)
         \/ Scheduled \/ Rejected \/ TransferStarts
         \/ PrefillStartCached \/ PrefillStartChunked \/ PrefillComplete
         \/ TransferRejected \/ TransferAdmitted \/ DecodeComplete
  PROVE  Throughput'
<1>1. metrics \in Collected
  BY LedgerParts
<1>2. ASSUME NEW type, Pop(type), type # "TOKEN_GENERATED", NEW es, Scheduling(es),
             \A e \in ToSet(es) : e.type # "TOKEN_GENERATED",
             metrics'.ttft = metrics.ttft, metrics'.tbt = metrics.tbt,
             metrics'.decodeTokens = metrics.decodeTokens
      PROVE  Throughput'
  BY <1>2, SentKept, ThroughputKept
<1>3. CASE ArriveRejected \/ \E p \in PrefillNodes, d \in DecodeNodes : ArriveRouted(p, d)
  <2>1. PICK type : Pop(type) /\ type # "TOKEN_GENERATED"
    BY <1>3, ArriveRejectedEffect, ArriveRoutedEffect
  <2>2. PICK r \in Requests : r = Req
    BY <1>3, ArriveRejectedEffect, ArriveRoutedEffect
  <2>3. PICK t \in Nat : t = now'
    BY <2>1, PopEffect
  <2>4. metrics' = M!CountArrive(metrics, r, t)
    BY <1>3, <2>2, <2>3, ArriveRejectedEffect, ArriveRoutedEffect
  <2>5. /\ metrics'.ttft = metrics.ttft /\ metrics'.tbt = metrics.tbt
        /\ metrics'.decodeTokens = metrics.decodeTokens
    BY <1>1, <2>4, CountArriveTimes, CountedInSteps
  <2>6. PICK es : Scheduling(es) /\ \A e \in ToSet(es) : e.type # "TOKEN_GENERATED"
    <3>1. CASE ArriveRejected
      <4>1. PICK es : /\ Scheduling(es)
                      /\ \A e \in ToSet(es) : e.type = "REQUEST_REJECTED" \/ e.type = "REQUEST_ARRIVE"
        BY <3>1, ArriveRejectedEffect
      <4>2. \A e \in ToSet(es) : e.type # "TOKEN_GENERATED"
        BY <4>1
      <4> QED
        BY <4>1, <4>2
    <3>2. ASSUME NEW p \in PrefillNodes, NEW d \in DecodeNodes, ArriveRouted(p, d)
          PROVE  \E es : Scheduling(es) /\ \A e \in ToSet(es) : e.type # "TOKEN_GENERATED"
      <4>1. PICK es : /\ Scheduling(es)
                      /\ \A e \in ToSet(es) : \/ e.type = "SCHEDULED" \/ e.type = "PREFILL_START"
                                              \/ e.type = "REQUEST_ARRIVE"
        BY <3>2, ArriveRoutedEffect
      <4>2. \A e \in ToSet(es) : e.type # "TOKEN_GENERATED"
        BY <4>1
      <4> QED
        BY <4>1, <4>2
    <3> QED
      BY <1>3, <3>1, <3>2
  <2> QED
    BY <1>2, <2>1, <2>5, <2>6
<1>4. CASE Scheduled \/ Rejected \/ TransferStarts
  <2>1. /\ Handle(<<>>)
        /\ Pop("SCHEDULED") \/ Pop("REQUEST_REJECTED") \/ Pop("KV_TRANSFER_START")
    BY <1>4 DEF Scheduled, Rejected, TransferStarts
  <2>2. PICK type : Pop(type) /\ type # "TOKEN_GENERATED" /\ type # "DECODE_BATCH_STEP"
    BY <2>1
  <2>3. PICK es : Scheduling(es) /\ ToSet(es) = {}
    BY <2>1, <2>2, QuietEffect
  <2>4. PICK r \in Requests : r = Req
    <3>1. Fits(Head(events)) /\ Head(events).type = type
      BY <2>2, PopEffect
    <3> QED
      BY <2>2, <3>1 DEF Fits, Req
  <2>5. /\ metrics'.ttft = metrics.ttft /\ metrics'.tbt = metrics.tbt
        /\ metrics'.decodeTokens = metrics.decodeTokens
    <3>1. \/ metrics' = metrics \/ metrics' = M!CountRejected(metrics, r)
          \/ metrics' = M!CountTransferStart(metrics, r)
      BY <1>4, <2>4 DEF Scheduled, Rejected, TransferStarts
    <3>2. 0 \in Nat
      OBVIOUS
    <3>3. metrics'.decodeTokens = metrics.decodeTokens
      BY <1>1, <3>1, <3>2, CountedInSteps
    <3> QED
      BY <1>1, <3>1, <3>3, CountRejectedFacts, CountTransferStartFacts DEF SameSamples
  <2> QED
    BY <1>2, <2>2, <2>3, <2>5
<1>5. CASE PrefillStartCached \/ PrefillStartChunked \/ PrefillComplete
  <2>1. PICK type : Pop(type) /\ type # "TOKEN_GENERATED"
    BY <1>5, PrefillStartEffect, PrefillCompleteEffect
  <2>2. PICK r \in Requests : r = Req
    BY <1>5, PrefillStartEffect, PrefillCompleteEffect
  <2>3. /\ metrics'.ttft = metrics.ttft /\ metrics'.tbt = metrics.tbt
        /\ metrics'.decodeTokens = metrics.decodeTokens
    <3>1. \/ metrics' = M!CountPrefillStart(metrics, r) \/ metrics' = M!CountPrefillComplete(metrics, r)
      BY <1>5, <2>2, PrefillStartEffect, PrefillCompleteEffect
    <3>2. 0 \in Nat
      OBVIOUS
    <3>3. metrics'.decodeTokens = metrics.decodeTokens
      BY <1>1, <3>1, <3>2, CountedInSteps
    <3> QED
      BY <1>1, <3>1, <3>3, CountPrefillStartFacts, CountPrefillCompleteFacts DEF SameSamples
  <2>4. PICK es : Scheduling(es) /\ \A e \in ToSet(es) : e.type # "TOKEN_GENERATED"
    <3>1. CASE PrefillStartCached \/ PrefillStartChunked
      <4>1. PICK es : /\ Scheduling(es)
                      /\ \A e \in ToSet(es) : \/ e.type = "PREFILL_COMPLETE"
                                              \/ e.type = "DECODE_BATCH_STEP" /\ e.node = Node
        BY <3>1, PrefillStartEffect
      <4>2. \A e \in ToSet(es) : e.type # "TOKEN_GENERATED"
        BY <4>1
      <4> QED
        BY <4>1, <4>2
    <3>2. CASE PrefillComplete
      <4>1. PICK es : /\ Scheduling(es)
                      /\ \A e \in ToSet(es) :
                           \/ e.type = "PREFILL_START"
                           \/ e.type = "KV_TRANSFER_START" /\ e.req = Req
                           \/ e.type = "KV_TRANSFER_COMPLETE" /\ e.req = Req
        BY <3>2, PrefillCompleteEffect
      <4>2. \A e \in ToSet(es) : e.type # "TOKEN_GENERATED"
        BY <4>1
      <4> QED
        BY <4>1, <4>2
    <3> QED
      BY <1>5, <3>1, <3>2
  <2> QED
    BY <1>2, <2>1, <2>3, <2>4
<1>6. CASE TransferRejected \/ TransferAdmitted
  <2>1. PICK type : Pop(type) /\ type # "TOKEN_GENERATED"
    BY <1>6, TransferRejectedEffect, TransferAdmittedEffect
  <2>2. PICK r \in Requests : r = Req
    BY <1>6, TransferRejectedEffect, TransferAdmittedEffect
  <2>3. /\ metrics'.ttft = metrics.ttft /\ metrics'.tbt = metrics.tbt
        /\ metrics'.decodeTokens = metrics.decodeTokens
    <3>1. metrics' = M!CountTransferComplete(metrics, r)
      BY <1>6, <2>2, TransferRejectedEffect, TransferAdmittedEffect
    <3>2. 0 \in Nat
      OBVIOUS
    <3>3. metrics'.decodeTokens = metrics.decodeTokens
      BY <1>1, <3>1, <3>2, CountedInSteps
    <3> QED
      BY <1>1, <3>1, <3>3, CountTransferCompleteFacts DEF SameSamples
  <2>4. PICK es : Scheduling(es) /\ \A e \in ToSet(es) : e.type # "TOKEN_GENERATED"
    <3>1. PICK es : /\ Scheduling(es)
                    /\ \A e \in ToSet(es) : e.type = "REQUEST_REJECTED" \/ e.type = "DECODE_BATCH_STEP"
      BY <1>6, TransferRejectedEffect, TransferAdmittedEffect
    <3>2. \A e \in ToSet(es) : e.type # "TOKEN_GENERATED"
      BY <3>1
    <3> QED
      BY <3>1, <3>2
  <2> QED
    BY <1>2, <2>1, <2>3, <2>4
<1>7. CASE DecodeComplete
  <2>1. PICK type : Pop(type) /\ type # "TOKEN_GENERATED"
    BY <1>7, DecodeCompleteEffect
  <2>2. PICK r \in Requests : r = Req
    BY <1>7, DecodeCompleteEffect
  <2>3. PICK t \in Nat : t = now'
    BY <2>1, PopEffect
  <2>4. metrics' = M!CountDecodeComplete(metrics, r, t)
    BY <1>7, <2>2, <2>3, DecodeCompleteEffect
  <2>5. /\ metrics'.ttft = metrics.ttft /\ metrics'.tbt = metrics.tbt
        /\ metrics'.decodeTokens = metrics.decodeTokens
    BY <1>1, <2>4, CountDecodeCompleteFacts, CountedInSteps DEF SameSamples
  <2>6. PICK es : Scheduling(es) /\ ToSet(es) = {}
    BY <1>7, DecodeCompleteEffect
  <2> QED
    BY <1>2, <2>1, <2>5, <2>6
<1> QED
  BY <1>3, <1>4, <1>5, <1>6, <1>7

(* DECODE_BATCH_STEP: the counter grows by the batch, and each of its        *)
(* streams sends a token.                                                    *)
LEMMA BatchThroughput ==
  ASSUME Inv, Ledger, Ledger', Throughput, BatchStep
  PROVE  Throughput'
<1>1. metrics \in Collected /\ metrics' \in Collected
  <2>1. Collected' = Collected
    BY DEF Collected
  <2> QED
    BY <2>1 DEF Ledger
<1>2. PICK n \in Nodes : n = Node
  BY BatchStepEffect
<1>3. PICK D : D = nodes[n].decoding /\ D \in SUBSET Requests
  BY NodeTypes DEF Inv, Typed
<1>4. PICK es, end : Scheduling(es) /\ StepList(es, nodes[n], n, end)
  BY <1>2, BatchStepEffect
<1>5. \A q \in Requests : Sent(q)' = IF q \in D THEN Sent(q) + 1 ELSE Sent(q)
  BY <1>2, <1>3, <1>4, BatchSends
<1>6. \A q \in Requests : Sent(q) \in Nat
  BY <1>1, SampledFacts
<1>7. PICK f : f = [q \in Requests |-> Sent(q)]
  OBVIOUS
<1>8. PICK g : g = [q \in Requests |-> Sent(q)']
  OBVIOUS
<1>9. f \in [Requests -> Nat] /\ g \in [Requests -> Nat]
  BY <1>5, <1>6, <1>7, <1>8
<1>10. \A q \in Requests : g[q] = IF q \in D THEN f[q] + 1 ELSE f[q]
  BY <1>5, <1>7, <1>8
<1>11. Total(g) = Total(f) + Cardinality(D)
  BY <1>3, <1>9, <1>10, TotalAdds, ServingAssumption, SMTT(40)
<1>12. metrics'.decodeTokens = metrics.decodeTokens + Cardinality(D)
  <2>1. metrics' = M!CountBatchStep(metrics, Cardinality(D))
    BY <1>2, <1>3, BatchStepEffect
  <2> QED
    BY <1>1, <2>1 DEF M!CountBatchStep, Collected
<1>13. metrics.decodeTokens = Total(f)
  BY <1>7 DEF Throughput
<1>14. metrics'.decodeTokens = Total(g)
  BY <1>11, <1>12, <1>13
<1> QED
  BY <1>8, <1>14 DEF Throughput

(* The counter is right at the start, and every step keeps it so.            *)
LEMMA InitThroughput == Init => Throughput
<1> SUFFICES ASSUME Init
             PROVE  Throughput
  OBVIOUS
<1>1. PICK t \in Gaps : events = <<Ev(t, "REQUEST_ARRIVE", 1, "none")>>
  BY DEF Init
<1>2. \A e \in Queued : e.type = "REQUEST_ARRIVE"
  <2>1. PICK a : a = Ev(t, "REQUEST_ARRIVE", 1, "none")
    OBVIOUS
  <2>2. a \in Event /\ a.type = "REQUEST_ARRIVE"
    <3>1. t \in Nat /\ 1 \in Nat /\ "none" \in Nodes \cup {"none"} /\ "REQUEST_ARRIVE" \in Types
      BY Constants DEF Types
    <3> QED
      BY <2>1, <3>1, EventFacts
  <2>3. Queued = {a}
    BY <1>1, <2>1, <2>2, ShortLists DEF Queued
  <2> QED
    BY <2>2, <2>3
<1>3. metrics.decodeTokens = 0 /\ \A r \in Requests : metrics.ttft[r] = M!None
  BY DEF Init, M!NoMetrics, M!NoTimes
<1>4. \A r \in Requests : Sent(r) = 0
  BY <1>2, <1>3 DEF Sent, Sampled, OnTheWay, Has, HasIn
<1>5. PICK f : f = [r \in Requests |-> Sent(r)]
  OBVIOUS
<1>6. Total(f) = 0
  <2>1. DOMAIN f = Requests /\ \A r \in Requests : f[r] = 0
    BY <1>4, <1>5
  <2> QED
    BY <2>1, TotalZero, ServingAssumption
<1> QED
  BY <1>3, <1>5, <1>6 DEF Throughput

(* Every step keeps the counter right.                                       *)
LEMMA NextThroughput ==
  Inv /\ Ledger /\ Ledger' /\ Samples /\ Throughput /\ [Next]_vars => Throughput'
<1> SUFFICES ASSUME Inv, Ledger, Ledger', Samples, Throughput, [Next]_vars
             PROVE  Throughput'
  OBVIOUS
<1>1. CASE \/ ArriveRejected \/ \E p \in PrefillNodes, d \in DecodeNodes : ArriveRouted(p, d)
           \/ Scheduled \/ Rejected \/ TransferStarts
           \/ PrefillStartCached \/ PrefillStartChunked \/ PrefillComplete
           \/ TransferRejected \/ TransferAdmitted \/ DecodeComplete
  BY <1>1, QuietThroughput
<1>2. CASE BatchStep
  BY <1>2, BatchThroughput
<1>3. CASE TokenGenerated
  <2>1. \A q \in Requests : Sent(q)' = Sent(q)
    BY <1>3, TokenEffect DEF SamplesOne
  <2>2. PICK type : Pop(type) /\ type = "TOKEN_GENERATED"
    BY <1>3 DEF TokenGenerated
  <2>3. PICK r \in Requests : r = Req
    BY <2>2, PopEffect DEF Fits, Req
  <2>4. PICK s \in Nat : s = Head(events).step
    BY <2>2, PopEffect DEF Event
  <2>5. PICK t \in Nat : t = now'
    BY <2>2, PopEffect
  <2>6. metrics' = M!CountToken(metrics, r, s, t) /\ metrics \in Collected
    BY <1>3, <2>3, <2>4, <2>5, LedgerParts DEF TokenGenerated
  <2>7. metrics'.decodeTokens = metrics.decodeTokens
    BY <2>6, CountedInSteps
  <2> QED
    BY <2>1, <2>7, ThroughputKept
<1>4. CASE UNCHANGED vars
  <2>1. events' = events /\ metrics' = metrics
    BY <1>4 DEF vars
  <2>2. \A q \in Requests : Sent(q)' = Sent(q)
    BY <2>1 DEF Sent, Sampled, OnTheWay, Has, HasIn, Queued, M!None
  <2> QED
    BY <2>1, <2>2, ThroughputKept
<1> QED
  BY <1>1, <1>2, <1>3, <1>4 DEF Next

(* The throughput counter, fed by batch sizes, counts exactly the tokens     *)
(* that were or will be sampled, whatever batches requests share.            *)
THEOREM ThroughputExact == Spec => []TokensCounted
<1>1. Init => Inv /\ Ledger /\ Samples /\ Throughput
  BY InitInv, InitLedger, InitSamples, InitThroughput
<1>2. Inv /\ Ledger /\ Samples /\ Throughput /\ [Next]_vars
        => Inv' /\ Ledger' /\ Samples' /\ Throughput'
  BY NextInv, NextLedger, NextSamples, NextThroughput
<1>3. Inv /\ Ledger /\ Throughput => TokensCounted
  <2> SUFFICES ASSUME Inv, Ledger, Throughput
               PROVE  TokensCounted
    OBVIOUS
  <2>1. \A r \in Requests : Sampled(r) + Cardinality(QueuedTokens(r)) = Sent(r)
    BY LedgerParts, OneToken DEF Sent
  <2>2. [r \in Requests |-> Sampled(r) + Cardinality(QueuedTokens(r))]
          = [r \in Requests |-> Sent(r)]
    BY <2>1
  <2> QED
    BY <2>2 DEF TokensCounted, Throughput, Total
<1> QED
  BY <1>1, <1>2, <1>3, PTL DEF Spec

-----------------------------------------------------------------------------
-----------------------------------------------------------------------------
(* The order of the queues.                                                  *)

(* A prefill node keeps its waiting requests in the order of their ids.      *)
Sorted(s) == \A i, j \in DOMAIN s : i < j => s[i] < s[j]
InQueueOrder == \A n \in Nodes : Sorted(nodes[n].queue)

(* A request that waits has arrived.                                         *)
LEMMA WaitingArrived ==
  ASSUME Inv, Ledger, NEW n \in Nodes, NEW q \in Waiting(nodes[n])
  PROVE  q \in Decided /\ q \in Nat /\ q <= metrics.arrived
<1>1. q \in Requests
  BY NodeTypes DEF Inv, Typed
<1>2. PICK k \in Positions : At(q, k)
  BY <1>1 DEF Inv
<1>3. q \in Decided
  BY <1>1, <1>2 DEF At, Placed, Booked, Outside
<1>4. Counts /\ metrics.arrived \in Nat
  BY LedgerParts DEF Collected
<1> QED
  BY <1>1, <1>3, <1>4, DecidedArrived, Constants

(* The request that arrives is the next one.                                 *)
LEMMA ArrivalIsNext ==
  ASSUME Inv, Ledger, Pop("REQUEST_ARRIVE"), NEW r \in Requests, r = Req
  PROVE  r = metrics.arrived + 1 /\ metrics.arrived \in Nat
<1>1. Head(events) \in Queued /\ Head(events).type = "REQUEST_ARRIVE"
  BY PopEffect
<1> QED
  BY <1>1 DEF Ledger, Counts, Collected, Req

(* Taking the head off a sorted sequence, or adding a larger element to it,  *)
(* leaves it sorted.                                                         *)
LEMMA SortedFacts ==
  ASSUME NEW S \in SUBSET Nat, NEW s \in Seq(S), Sorted(s)
  PROVE  /\ s # <<>> => Sorted(Tail(s))
         /\ \A x \in S : (\A y \in ToSet(s) : y < x) => Sorted(Append(s, x))
<1>1. s # <<>> => Sorted(Tail(s))
  BY DEF Sorted
<1>2. ASSUME NEW x \in S, \A y \in ToSet(s) : y < x
      PROVE  Sorted(Append(s, x))
  <2>1. \A i \in DOMAIN s : s[i] \in ToSet(s)
    BY DEF ToSet
  <2>2. \A i \in DOMAIN s : s[i] < x
    BY <1>2, <2>1
  <2> QED
    BY <2>2 DEF Sorted
<1> QED
  BY <1>1, <1>2

(* Arrivals join the queue in the order of their ids, and the head leaves    *)
(* it.                                                                       *)
LEMMA QueueOrderNext ==
  ASSUME Inv, Ledger, InQueueOrder, [Next]_vars
  PROVE  InQueueOrder'
<1>1. DOMAIN nodes = Nodes /\ \A n \in Nodes : nodes[n].queue \in Seq(Requests)
  BY NodeTypes DEF Inv, Typed
<1>2. \A n \in Nodes : nodes[n].queue \in Seq(Requests) /\ Sorted(nodes[n].queue)
  BY <1>1 DEF InQueueOrder
<1>3. ASSUME NEW n \in Nodes, NEW A, nodes' = [nodes EXCEPT ![n] = A], Sorted(A.queue)
      PROVE  InQueueOrder'
  BY <1>1, <1>2, <1>3 DEF InQueueOrder
<1>4. ASSUME NEW n \in Nodes, NEW A, nodes' = [nodes EXCEPT ![n] = A], A.queue = nodes[n].queue
      PROVE  InQueueOrder'
  BY <1>2, <1>3, <1>4
<1>5. CASE ArriveRejected \/ Scheduled \/ Rejected \/ TransferStarts \/ TransferRejected
           \/ TokenGenerated \/ UNCHANGED vars
  <2>1. nodes' = nodes
    BY <1>5 DEF ArriveRejected, Scheduled, Rejected, TransferStarts, TransferRejected,
                TokenGenerated, vars
  <2> QED
    BY <2>1 DEF InQueueOrder
<1>6. ASSUME NEW p \in PrefillNodes, NEW d \in DecodeNodes, ArriveRouted(p, d)
      PROVE  InQueueOrder'
  <2>1. PICK r \in Requests : r = Req
    BY <1>6, ArriveRoutedEffect
  <2>2. PICK A : /\ nodes' = [nodes EXCEPT ![p] = A]
                 /\ A.queue = nodes[p].queue \/ A.queue = Append(nodes[p].queue, r)
    BY <1>6, <2>1, ArriveRoutedEffect
  <2>3. p \in Nodes /\ r \in Nat
    BY Constants
  <2>4. \A q \in ToSet(nodes[p].queue) : q < r
    <3>1. r = metrics.arrived + 1 /\ metrics.arrived \in Nat
      BY <1>6, <2>1, ArrivalIsNext, ArriveRoutedEffect
    <3>2. \A q \in Waiting(nodes[p]) : q \in Nat /\ q <= metrics.arrived
      BY <2>3, WaitingArrived
    <3> QED
      BY <3>1, <3>2 DEF Waiting
  <2>5. Sorted(A.queue)
    BY <1>2, <2>2, <2>3, <2>4, SortedFacts, Constants
  <2> QED
    BY <1>3, <2>2, <2>3, <2>5
<1>7. CASE PrefillStartCached \/ PrefillStartChunked
  <2>1. PICK A : nodes' = [nodes EXCEPT ![Node] = A] /\ SameSlots(nodes[Node], A)
    BY <1>7, PrefillStartEffect
  <2>2. PICK n \in Nodes : n = Node
    BY <1>7, PrefillStartEffect, Constants
  <2> QED
    BY <1>4, <2>1, <2>2 DEF SameSlots
<1>8. CASE PrefillComplete
  <2>1. PICK n \in Nodes : n = Node
    BY <1>8, PrefillCompleteEffect, Constants
  <2>2. PICK A : /\ nodes' = [nodes EXCEPT ![n] = A]
                 /\ nodes[n].queue = <<>> => A.queue = <<>>
                 /\ nodes[n].queue # <<>> => A.queue = Tail(nodes[n].queue)
    BY <1>8, <2>1, PrefillCompleteEffect
  <2>3. Sorted(A.queue)
    <3>1. Sorted(<<>>)
      BY DEF Sorted
    <3> QED
      BY <1>2, <2>2, <3>1, SortedFacts, Constants
  <2> QED
    BY <1>3, <2>2, <2>3
<1>9. CASE TransferAdmitted
  <2>1. PICK d \in DecodeNodes :
          \E A : nodes' = [nodes EXCEPT ![d] = A] /\ A.queue = nodes[d].queue
    BY <1>9, TransferAdmittedEffect
  <2>2. PICK A : nodes' = [nodes EXCEPT ![d] = A] /\ A.queue = nodes[d].queue
    BY <2>1
  <2> QED
    BY <1>4, <2>2, Constants
<1>10. CASE BatchStep
  <2>1. PICK A : nodes' = [nodes EXCEPT ![Node] = A] /\ SameSlots(nodes[Node], A)
    BY <1>10, BatchStepEffect
  <2>2. PICK n \in Nodes : n = Node
    BY <1>10, BatchStepEffect
  <2> QED
    BY <1>4, <2>1, <2>2 DEF SameSlots
<1>11. CASE DecodeComplete
  <2>1. PICK A : nodes' = [nodes EXCEPT ![Node] = A] /\ A.queue = nodes[Node].queue
    BY <1>11, DecodeCompleteEffect
  <2>2. PICK n \in Nodes : n = Node
    BY <1>11, DecodeCompleteEffect, Constants
  <2> QED
    BY <1>4, <2>1, <2>2
<1> QED
  BY <1>5, <1>6, <1>7, <1>8, <1>9, <1>10, <1>11 DEF Next

-----------------------------------------------------------------------------
(* Stages.                                                                   *)

(* The stage of a request with a decision, by its position.                  *)
StageOf(k) ==
  IF k = "waiting" THEN "waiting"
  ELSE IF k \in {"starting", "prefilling", "prefilled"} THEN "prefill"
  ELSE IF k = "transfer" THEN "transfer" ELSE "decode"

(* A request that has arrived is at the stage of its position, or gone.      *)
LEMMA StageAt ==
  ASSUME Inv, NEW r \in Requests, NEW k \in Positions, At(r, k), metrics.arrived \in Nat
  PROVE  /\ r > metrics.arrived => Stage(r) = "new"
         /\ r <= metrics.arrived => Stage(r) # "new"
         /\ r <= metrics.arrived /\ r \in Decided => Stage(r) = StageOf(k)
         /\ r <= metrics.arrived /\ r \notin Decided => Stage(r) \in {"done", "rejected"}
<1>1. r \in Nat /\ (r <= metrics.arrived <=> ~(r > metrics.arrived))
  BY Constants
<1>2. r \in Decided =>
        /\ k \notin Outside /\ decisions[r].prefill \in Nodes
        /\ r \in ToSet(nodes[decisions[r].prefill].queue) <=> k = "waiting"
        /\ r \in ToSet(nodes[decisions[r].prefill].running)
             <=> k \in {"starting", "prefilling", "prefilled"}
        /\ r \in pending <=> k = "transfer"
  <2> SUFFICES ASSUME r \in Decided
               PROVE  /\ k \notin Outside /\ decisions[r].prefill \in Nodes
                      /\ r \in ToSet(nodes[decisions[r].prefill].queue) <=> k = "waiting"
                      /\ r \in ToSet(nodes[decisions[r].prefill].running)
                           <=> k \in {"starting", "prefilling", "prefilled"}
                      /\ r \in pending <=> k = "transfer"
    OBVIOUS
  <2>1. /\ decisions[r].prefill \in Nodes /\ decisions[r].prefill # decisions[r].decode
    BY Constants DEF Inv, Typed
  <2> QED
    BY <2>1 DEF At, Placed, Booked, Waiting, Running
<1>3. r <= metrics.arrived /\ r \in Decided => Stage(r) = StageOf(k)
  BY <1>1, <1>2 DEF Stage, StageOf
<1>4. r <= metrics.arrived /\ r \notin Decided => Stage(r) \in {"done", "rejected"}
  BY <1>1 DEF Stage
<1>5. r > metrics.arrived => Stage(r) = "new"
  BY DEF Stage
<1>6. r <= metrics.arrived /\ r \in Decided => Stage(r) # "new"
  BY <1>3 DEF StageOf
<1> QED
  BY <1>3, <1>4, <1>5, <1>6

(* A request that a step does not touch keeps its stage.                     *)
LEMMA StageKept ==
  ASSUME NEW q \in Requests,
         q > metrics'.arrived <=> q > metrics.arrived,
         decisions'[q] = decisions[q],
         q \in Decided =>
           /\ q \in Waiting(nodes'[decisions[q].prefill]) <=> q \in Waiting(nodes[decisions[q].prefill])
           /\ q \in Running(nodes'[decisions[q].prefill]) <=> q \in Running(nodes[decisions[q].prefill])
           /\ q \in pending' <=> q \in pending,
         q \notin Decided => Sampled(q)' = Sampled(q)
  PROVE  Stage(q)' = Stage(q)
<1>1. q \in Decided' <=> q \in Decided
  BY DEF Decided
<1>2. AnswerLength(q)' = AnswerLength(q)
  BY AnswerLengthFacts
<1>3. CASE q > metrics.arrived
  BY <1>3 DEF Stage
<1>4. CASE ~(q > metrics.arrived) /\ q \notin Decided
  BY <1>1, <1>2, <1>4 DEF Stage
<1>5. CASE ~(q > metrics.arrived) /\ q \in Decided
  BY <1>1, <1>5 DEF Stage, Waiting, Running
<1> QED
  BY <1>3, <1>4, <1>5

(* A node has as many slots taken as requests in them.                       *)
LEMMA SlotCount ==
  ASSUME NEW N, WellFormed(N)
  PROVE  /\ Cardinality(Running(N)) < NodeCapacity <=> HasRoom(N)
         /\ Cardinality(Running(N)) >= NodeCapacity <=> ~HasRoom(N)
<1>1. N.running \in Seq(Requests) /\ IsInjective(N.running) /\ NodeCapacity \in Nat
  BY NodeTypes DEF WellFormed
<1>2. PICK s \in Seq(Requests) : s = N.running
  BY <1>1
<1>3. PICK c \in Nat : c = Len(s)
  OBVIOUS
<1>4. s \in Bijection(1..c, ToSet(s))
  <2>1. s \in [1..c -> ToSet(s)] /\ \A y \in ToSet(s) : \E i \in 1..c : s[i] = y
    BY <1>3 DEF ToSet
  <2>2. \A i, j \in 1..c : s[i] = s[j] => i = j
    BY <1>1, <1>2, <1>3 DEF IsInjective
  <2> QED
    BY <2>1, <2>2 DEF Bijection, Injection, Surjection, IsInjective
<1>5. ExistsBijection(1..c, ToSet(s))
  BY <1>4 DEF ExistsBijection
<1>6. IsFiniteSet(1..c) /\ Cardinality(1..c) = c
  BY FS_Interval
<1>7. Cardinality(ToSet(s)) = c
  BY <1>5, <1>6, FS_Bijection
<1> QED
  BY <1>1, <1>2, <1>3, <1>7 DEF HasRoom, Running

(* The slots of a node are the requests of its stage, its queue those that   *)
(* wait for one.                                                             *)
LEMMA StageSlots ==
  ASSUME Inv, Ledger
  PROVE  /\ \A p \in PrefillNodes : /\ Life!OnPrefill(p) = Running(nodes[p])
                                    /\ Life!WaitingFor(p) = Waiting(nodes[p])
         /\ \A d \in DecodeNodes : Life!OnDecode(d) = Running(nodes[d])
<1>1. metrics.arrived \in Nat /\ Counts
  BY LedgerParts DEF Collected
<1>2. \A n \in Nodes : Running(nodes[n]) \subseteq Requests /\ Waiting(nodes[n]) \subseteq Requests
  BY NodeTypes DEF Inv, Typed
<1>3. ASSUME NEW r \in Requests
      PROVE  /\ \A p \in PrefillNodes :
                  /\ Stage(r) = "prefill" /\ decisions[r].prefill = p <=> r \in Running(nodes[p])
                  /\ Stage(r) = "waiting" /\ decisions[r].prefill = p <=> r \in Waiting(nodes[p])
             /\ \A d \in DecodeNodes :
                  Stage(r) = "decode" /\ decisions[r].decode = d <=> r \in Running(nodes[d])
  <2>1. PICK k \in Positions : At(r, k)
    BY DEF Inv
  <2>2. /\ r \in Nat /\ PrefillNodes \subseteq Nodes /\ DecodeNodes \subseteq Nodes
        /\ \A p \in PrefillNodes, d \in DecodeNodes : p # d
    BY Constants
  <2>3. CASE r \in Decided
    <3>1. r <= metrics.arrived
      BY <1>1, <2>3, DecidedArrived
    <3>2. Stage(r) = StageOf(k) /\ k \notin Outside
      BY <1>1, <2>1, <2>3, <3>1, StageAt DEF At, Booked
    <3>3. decisions[r].prefill \in PrefillNodes /\ decisions[r].decode \in DecodeNodes
      BY <2>3 DEF Inv, Typed
    <3>4. \A p \in PrefillNodes :
            /\ r \in Running(nodes[p])
                 <=> k \in {"starting", "prefilling", "prefilled"} /\ p = decisions[r].prefill
            /\ r \in Waiting(nodes[p]) <=> k = "waiting" /\ p = decisions[r].prefill
      BY <2>1, <2>2, <3>3 DEF At, Placed
    <3>5. \A d \in DecodeNodes :
            r \in Running(nodes[d]) <=> k \in {"decoding", "decoded"} /\ d = decisions[r].decode
      BY <2>1, <2>2, <3>3 DEF At, Placed
    <3>6. /\ StageOf(k) = "prefill" <=> k \in {"starting", "prefilling", "prefilled"}
          /\ StageOf(k) = "waiting" <=> k = "waiting"
          /\ StageOf(k) = "decode" <=> k \in {"decoding", "decoded"}
      BY <3>2 DEF StageOf, Positions, Outside
    <3> QED
      BY <3>2, <3>4, <3>5, <3>6
  <2>4. CASE r \notin Decided
    <3>1. Stage(r) \in {"new", "done", "rejected"}
      BY <1>1, <2>1, <2>2, <2>4, StageAt
    <3>2. k \in Outside
      BY <2>1, <2>4 DEF At, Booked
    <3>3. \A n \in Nodes : r \notin Running(nodes[n]) /\ r \notin Waiting(nodes[n])
      BY <2>1, <3>2 DEF At, Placed, Outside
    <3> QED
      BY <2>2, <3>1, <3>3
  <2> QED
    BY <2>3, <2>4
<1>4. ASSUME NEW p \in PrefillNodes
      PROVE  Life!OnPrefill(p) = Running(nodes[p]) /\ Life!WaitingFor(p) = Waiting(nodes[p])
  <2>1. Running(nodes[p]) \subseteq Requests /\ Waiting(nodes[p]) \subseteq Requests
    BY <1>2, Constants
  <2>2. Life!OnPrefill(p) = {r \in Requests : Stage(r) = "prefill" /\ decisions[r].prefill = p}
    BY DEF Life!OnPrefill
  <2>3. Life!WaitingFor(p) = {r \in Requests : Stage(r) = "waiting" /\ decisions[r].prefill = p}
    BY DEF Life!WaitingFor
  <2> QED
    BY <1>3, <2>1, <2>2, <2>3
<1>5. ASSUME NEW d \in DecodeNodes
      PROVE  Life!OnDecode(d) = Running(nodes[d])
  <2>1. Running(nodes[d]) \subseteq Requests
    BY <1>2, Constants
  <2>2. Life!OnDecode(d) = {r \in Requests : Stage(r) = "decode" /\ decisions[r].decode = d}
    BY DEF Life!OnDecode
  <2> QED
    BY <1>3, <2>1, <2>2
<1> QED
  BY <1>4, <1>5

(* The library's operators are the same in the two modules.                  *)
LEMMA SameOperators ==
  ASSUME NEW S
  PROVE  Life!Cardinality(S) = Cardinality(S) /\ Life!Min(S) = Min(S)
<1>1. Life!Cardinality(S) = Cardinality(S)
  BY DEF Life!Cardinality, Cardinality
<1>2. Life!Min(S) = Min(S)
  BY DEF Life!Min, Min
<1> QED
  BY <1>1, <1>2

(* The longest waiting request is the head of the queue.                     *)
LEMMA HeadWaitsLongest ==
  ASSUME NEW S \in SUBSET Nat, NEW s \in Seq(S), Sorted(s), s # <<>>
  PROVE  Head(s) \in ToSet(s) /\ Min(ToSet(s)) = Head(s)
<1>1. /\ 1 \in DOMAIN s /\ Head(s) = s[1] /\ \A i \in DOMAIN s : i = 1 \/ 1 < i
      /\ \A i \in DOMAIN s : s[i] \in S
  OBVIOUS
<1>2. Head(s) \in ToSet(s)
  BY <1>1 DEF ToSet
<1>3. \A y \in ToSet(s) : y \in Nat /\ Head(s) <= y
  <2> SUFFICES ASSUME NEW i \in DOMAIN s
               PROVE  s[i] \in Nat /\ Head(s) <= s[i]
    BY DEF ToSet
  <2>1. s[1] \in Nat /\ s[i] \in Nat
    BY <1>1
  <2>2. i # 1 => s[1] < s[i]
    BY <1>1 DEF Sorted
  <2> QED
    BY <1>1, <2>1, <2>2
<1>4. PICK T : T = ToSet(s)
  OBVIOUS
<1>5. PICK h \in T : h = Head(s) /\ \A y \in T : y \in Nat /\ h <= y
  BY <1>2, <1>3, <1>4
<1>6. \A x \in T : (\A y \in T : x <= y) => x = h
  BY <1>5
<1>7. Min(T) = h
  BY <1>5, <1>6 DEF Min
<1> QED
  BY <1>2, <1>4, <1>5, <1>7

-----------------------------------------------------------------------------
(* Every handler takes a step of the life cycle, or none.                    *)

(* Samples that stay.                                                        *)
LEMMA SampledSame ==
  ASSUME SameSamples(metrics, metrics')
  PROVE  \A q : Sampled(q)' = Sampled(q)
BY DEF SameSamples, Sampled, M!None

(* A handler that moves nobody.                                              *)
LEMMA LifeStutters ==
  ASSUME Inv, decisions' = decisions, pending' = pending, metrics'.arrived = metrics.arrived,
         SameSamples(metrics, metrics'), \A n \in Nodes : SameSlots(nodes[n], nodes'[n])
  PROVE  UNCHANGED Life!lifeVars
<1>1. \A q : Sampled(q)' = Sampled(q)
  BY SampledSame
<1>2. ASSUME NEW q \in Requests
      PROVE  Stage(q)' = Stage(q)
  <2>1. q \in Decided => decisions[q].prefill \in Nodes
    BY Constants DEF Inv, Typed
  <2>2. q \in Decided =>
          /\ q \in Waiting(nodes'[decisions[q].prefill]) <=> q \in Waiting(nodes[decisions[q].prefill])
          /\ q \in Running(nodes'[decisions[q].prefill]) <=> q \in Running(nodes[decisions[q].prefill])
    BY <2>1 DEF SameSlots, Waiting, Running
  <2> QED
    BY <1>1, <2>2, StageKept
<1> QED
  BY <1>1, <1>2 DEF Life!lifeVars

(* SCHEDULED, REQUEST_REJECTED, KV_TRANSFER_START, PREFILL_START and         *)
(* DECODE_BATCH_STEP.                                                        *)
LEMMA InternalSteps ==
  ASSUME Inv, Ledger, Ledger', \/ Scheduled \/ Rejected \/ TransferStarts \/ BatchStep
                               \/ PrefillStartCached \/ PrefillStartChunked
  PROVE  UNCHANGED Life!lifeVars
<1>1. metrics \in Collected
  BY LedgerParts
<1>2. DOMAIN nodes = Nodes
  BY DEF Inv, Typed
<1>3. \A n \in Nodes : SameSlots(nodes[n], nodes[n])
  BY DEF SameSlots
<1>4. CASE Scheduled
  <2>1. /\ decisions' = decisions /\ pending' = pending /\ nodes' = nodes /\ metrics' = metrics
    BY <1>4 DEF Scheduled
  <2> QED
    BY <1>3, <2>1, LifeStutters DEF SameSamples
<1>5. CASE Rejected
  <2>1. PICK r \in Requests : r = Req
    BY <1>5, HeadAt DEF Rejected, Carriers
  <2>2. /\ decisions' = decisions /\ pending' = pending /\ nodes' = nodes
        /\ metrics' = M!CountRejected(metrics, r)
    BY <1>5, <2>1 DEF Rejected
  <2>3. SameSamples(metrics, metrics') /\ metrics'.arrived = metrics.arrived
    BY <1>1, <2>2, CountRejectedFacts
  <2> QED
    BY <1>3, <2>2, <2>3, LifeStutters
<1>6. CASE TransferStarts
  <2>1. PICK r \in Requests : r = Req
    <3>1. Pop("KV_TRANSFER_START")
      BY <1>6 DEF TransferStarts
    <3> QED
      BY <3>1, PopEffect DEF Fits, Req
  <2>2. /\ decisions' = decisions /\ pending' = pending /\ nodes' = nodes
        /\ metrics' = M!CountTransferStart(metrics, r)
    BY <1>6, <2>1 DEF TransferStarts
  <2>3. SameSamples(metrics, metrics') /\ metrics'.arrived = metrics.arrived
    BY <1>1, <2>2, CountTransferStartFacts DEF SameCounts
  <2> QED
    BY <1>3, <2>2, <2>3, LifeStutters
<1>7. CASE PrefillStartCached \/ PrefillStartChunked
  <2>1. PICK r \in Requests : r = Req
    BY <1>7, PrefillStartEffect
  <2>2. PICK n \in Nodes : n = Node
    BY <1>7, PrefillStartEffect, Constants
  <2>3. /\ decisions' = decisions /\ pending' = pending
        /\ metrics' = M!CountPrefillStart(metrics, r)
    BY <1>7, <2>1, PrefillStartEffect
  <2>4. PICK A : nodes' = [nodes EXCEPT ![n] = A] /\ SameSlots(nodes[n], A)
    BY <1>7, <2>2, PrefillStartEffect
  <2>5. \A m \in Nodes : SameSlots(nodes[m], nodes'[m])
    BY <1>2, <1>3, <2>4
  <2>6. SameSamples(metrics, metrics') /\ metrics'.arrived = metrics.arrived
    BY <1>1, <2>3, CountPrefillStartFacts DEF SameCounts
  <2> QED
    BY <2>3, <2>5, <2>6, LifeStutters
<1>8. CASE BatchStep
  <2>1. PICK n \in Nodes : n = Node
    BY <1>8, BatchStepEffect
  <2>2. PICK b \in Nat : metrics' = M!CountBatchStep(metrics, b)
    <3>1. Cardinality(nodes[n].decoding) \in Nat
      <4>1. nodes[n].decoding \subseteq Requests
        BY NodeTypes DEF Inv, Typed
      <4> QED
        BY <4>1, FS_Subset, FS_CardinalityType, ServingAssumption
    <3> QED
      BY <1>8, <2>1, <3>1, BatchStepEffect
  <2>3. decisions' = decisions /\ pending' = pending
    BY <1>8, BatchStepEffect
  <2>4. PICK A : nodes' = [nodes EXCEPT ![n] = A] /\ SameSlots(nodes[n], A)
    BY <1>8, <2>1, BatchStepEffect
  <2>5. \A m \in Nodes : SameSlots(nodes[m], nodes'[m])
    BY <1>2, <1>3, <2>4
  <2>6. SameSamples(metrics, metrics') /\ metrics'.arrived = metrics.arrived
    BY <1>1, <2>2, CountBatchStepFacts DEF SameCounts
  <2> QED
    BY <2>3, <2>5, <2>6, LifeStutters
<1> QED
  BY <1>4, <1>5, <1>6, <1>7, <1>8

(* REQUEST_ARRIVE: the request is the next of the life cycle, and nothing of *)
(* its answer is out.                                                        *)
LEMMA ArrivalStage ==
  ASSUME Inv, Ledger, Samples, Pop("REQUEST_ARRIVE"), NEW r \in Requests, r = Req,
         At(r, "announced"), metrics' = M!CountArrive(metrics, r, now')
  PROVE  /\ Stage(r) = "new" /\ \A q \in Requests : q < r => Stage(q) # "new"
         /\ metrics'.arrived \in Nat /\ ~(r > metrics'.arrived)
         /\ \A q \in Requests : q # r => (q > metrics'.arrived <=> q > metrics.arrived)
         /\ \A q \in Requests : Sampled(q)' = Sampled(q)
         /\ Sampled(r)' # AnswerLength(r)'
<1>1. metrics \in Collected
  BY LedgerParts
<1>2. r = metrics.arrived + 1 /\ metrics.arrived \in Nat
  BY ArrivalIsNext
<1>3. PICK t \in Nat : t = now'
  BY PopEffect
<1>4. metrics' = M!CountArrive(metrics, r, t)
  BY <1>3
<1>5. metrics'.arrived = r
  <2>1. metrics'.arrived = metrics.arrived + 1
    BY <1>1, <1>4, CountArriveFacts
  <2> QED
    BY <1>2, <2>1
<1>6. \A q \in Requests : Sampled(q)' = Sampled(q)
  <2>1. metrics'.ttft = metrics.ttft /\ metrics'.tbt = metrics.tbt
    BY <1>1, <1>4, CountArriveTimes
  <2> QED
    BY <2>1 DEF Sampled, M!None
<1>7. Sampled(r)' # AnswerLength(r)'
  <2>1. metrics.ttft[r] = M!None
    BY ArrivalUnsampled
  <2>2. Sampled(r) = 0
    BY <1>1, <2>1, SampledFacts
  <2>3. AnswerLength(r)' = AnswerLength(r) /\ AnswerLength(r) \in Nat /\ AnswerLength(r) >= 1
    BY AnswerLengthFacts
  <2>4. Sampled(r)' = 0
    BY <1>6, <2>2
  <2> QED
    BY <2>3, <2>4
<1>8. \A q \in Requests : q \in Nat
  BY Constants
<1>9. Stage(r) = "new"
  BY <1>2 DEF Stage
<1>10. ASSUME NEW q \in Requests, q < r
       PROVE  Stage(q) # "new"
  <2>1. q <= metrics.arrived
    BY <1>2, <1>8, <1>10
  <2>2. PICK k \in Positions : At(q, k)
    BY DEF Inv
  <2> QED
    BY <1>2, <2>1, <2>2, StageAt
<1>11. \A q \in Requests : q # r => (q > metrics'.arrived <=> q > metrics.arrived)
  BY <1>2, <1>5, <1>8
<1>12. metrics'.arrived \in Nat /\ ~(r > metrics'.arrived)
  BY <1>2, <1>5, <1>8
<1> QED
  BY <1>6, <1>7, <1>9, <1>10, <1>11, <1>12

(* REQUEST_ARRIVE, refused.                                                  *)
LEMMA ArriveRejectedLife ==
  ASSUME Inv, Ledger, Samples, ArriveRejected
  PROVE  \E r \in Requests : Life!Refuse(r)
<1>1. PICK r \in Requests : r = Req
  BY ArriveRejectedEffect
<1>2. /\ Pop("REQUEST_ARRIVE") /\ At(r, "announced") /\ metrics' = M!CountArrive(metrics, r, now')
      /\ nodes' = nodes /\ decisions' = decisions /\ pending' = pending
  BY <1>1, ArriveRejectedEffect
<1>3. /\ Stage(r) = "new" /\ \A q \in Requests : q < r => Stage(q) # "new"
      /\ ~(r > metrics'.arrived)
      /\ \A q \in Requests : q # r => (q > metrics'.arrived <=> q > metrics.arrived)
      /\ \A q \in Requests : Sampled(q)' = Sampled(q)
      /\ Sampled(r)' # AnswerLength(r)'
  BY <1>1, <1>2, ArrivalStage
<1>4. \A q \in Requests : q # r => Stage(q)' = Stage(q)
  BY <1>2, <1>3, StageKept
<1>5. Stage(r)' = "rejected"
  <2>1. r \notin Decided'
    BY <1>2 DEF At, Booked, Outside, Decided
  <2> QED
    BY <1>3, <2>1 DEF Stage
<1>6. Life!Refuse(r)
  BY <1>2, <1>3, <1>4, <1>5 DEF Life!Refuse, Life!IsNext
<1> QED
  BY <1>6

(* REQUEST_ARRIVE, routed: the request gets a slot or waits for one.         *)
LEMMA ArriveRoutedLife ==
  ASSUME Inv, Ledger, Samples, NEW p \in PrefillNodes, NEW d \in DecodeNodes, ArriveRouted(p, d)
  PROVE  \E r \in Requests : Life!Accept(r, p, d)
<1>1. PICK r \in Requests : r = Req
  BY ArriveRoutedEffect
<1>2. /\ Pop("REQUEST_ARRIVE") /\ At(r, "announced") /\ metrics' = M!CountArrive(metrics, r, now')
      /\ pending' = pending
  BY <1>1, ArriveRoutedEffect
<1>3. PICK D : /\ decisions' = [decisions EXCEPT ![r] = D]
               /\ D.prefill = p /\ D.decode = d /\ D # NoDecision
  BY <1>1, ArriveRoutedEffect
<1>4. PICK A : /\ nodes' = [nodes EXCEPT ![p] = A]
               /\ HasRoom(nodes[p]) => /\ A.queue = nodes[p].queue
                                       /\ Running(A) = Running(nodes[p]) \cup {r}
               /\ ~HasRoom(nodes[p]) => /\ A.queue = Append(nodes[p].queue, r)
                                        /\ A.running = nodes[p].running
  BY <1>1, ArriveRoutedEffect
<1>5. /\ Stage(r) = "new" /\ \A q \in Requests : q < r => Stage(q) # "new"
      /\ ~(r > metrics'.arrived)
      /\ \A q \in Requests : q # r => (q > metrics'.arrived <=> q > metrics.arrived)
      /\ \A q \in Requests : Sampled(q)' = Sampled(q)
  BY <1>1, <1>2, ArrivalStage
<1>6. /\ DOMAIN nodes = Nodes /\ DOMAIN decisions = Requests /\ p \in Nodes
      /\ WellFormed(nodes[p]) /\ nodes[p].queue \in Seq(Requests)
  BY Constants, NodeTypes DEF Inv, Typed
<1>7. /\ HasRoom(nodes[p]) => Waiting(A) = Waiting(nodes[p])
      /\ ~HasRoom(nodes[p]) => /\ Waiting(A) = Waiting(nodes[p]) \cup {r}
                               /\ Running(A) = Running(nodes[p])
  <2>1. ToSet(Append(nodes[p].queue, r)) = ToSet(nodes[p].queue) \cup {r}
    BY <1>6, AppendSet
  <2> QED
    BY <1>4, <2>1 DEF Waiting, Running
<1>8. \A q \in Requests : q # r => Stage(q)' = Stage(q)
  <2> SUFFICES ASSUME NEW q \in Requests, q # r
               PROVE  Stage(q)' = Stage(q)
    OBVIOUS
  <2>1. \A m \in Nodes : /\ q \in Waiting(nodes'[m]) <=> q \in Waiting(nodes[m])
                         /\ q \in Running(nodes'[m]) <=> q \in Running(nodes[m])
    BY <1>4, <1>6, <1>7
  <2>2. q \in Decided => decisions[q].prefill \in Nodes
    BY Constants DEF Inv, Typed
  <2>3. decisions'[q] = decisions[q]
    BY <1>3, <1>6
  <2> QED
    BY <1>2, <1>5, <2>1, <2>2, <2>3, StageKept
<1>9. Stage(r)' = IF HasRoom(nodes[p]) THEN "prefill" ELSE "waiting"
  <2>1. decisions'[r] = D /\ nodes'[p] = A
    BY <1>3, <1>4, <1>6
  <2>2. r \in Decided'
    BY <1>3, <2>1 DEF Decided, NoDecision
  <2>3. r \notin Waiting(nodes[p])
    BY <1>2, <1>6 DEF At, Placed
  <2>4. CASE HasRoom(nodes[p])
    <3>1. r \in Running(A) /\ r \notin Waiting(A)
      BY <1>4, <1>7, <2>3, <2>4
    <3> QED
      BY <1>3, <1>5, <2>1, <2>2, <2>4, <3>1 DEF Stage, Waiting, Running
  <2>5. CASE ~HasRoom(nodes[p])
    <3>1. r \in Waiting(A)
      BY <1>7, <2>5
    <3> QED
      BY <1>3, <1>5, <2>1, <2>2, <2>5, <3>1 DEF Stage, Waiting, Running
  <2> QED
    BY <2>4, <2>5
<1>10. Life!Cardinality(Life!OnPrefill(p)) < NodeCapacity <=> HasRoom(nodes[p])
  BY <1>6, StageSlots, SlotCount, SameOperators
<1>11. Life!Accept(r, p, d)
  <2>1. Life!IsNext(r)
    BY <1>5 DEF Life!IsNext
  <2>2. [q \in Requests |-> Stage(q)]' =
          [[q \in Requests |-> Stage(q)] EXCEPT
             ![r] = IF Life!Cardinality(Life!OnPrefill(p)) < NodeCapacity
                    THEN "prefill" ELSE "waiting"]
    BY <1>8, <1>9, <1>10
  <2>3. [q \in Requests |-> <<decisions[q].prefill, decisions[q].decode>>]' =
          [[q \in Requests |-> <<decisions[q].prefill, decisions[q].decode>>] EXCEPT ![r] = <<p, d>>]
    BY <1>3, <1>6
  <2>4. [q \in Requests |-> Sampled(q)]' = [q \in Requests |-> Sampled(q)]
    BY <1>5
  <2> QED
    BY <2>1, <2>2, <2>3, <2>4 DEF Life!Accept
<1> QED
  BY <1>11

(* PREFILL_COMPLETE: the slot goes to the request that has waited longest.   *)
LEMMA PrefillCompleteLife ==
  ASSUME Inv, Ledger, Samples, InQueueOrder, PrefillComplete
  PROVE  \E r \in Requests : Life!FinishPrefill(r)
<1>1. PICK r \in Requests : r = Req /\ At(r, "prefilled")
  BY PrefillCompleteEffect
<1>2. PICK p \in PrefillNodes : p = Node /\ p = decisions[r].prefill
  BY <1>1, PrefillCompleteEffect
<1>3. /\ pending' = pending \cup {r} /\ decisions' = decisions
      /\ metrics' = M!CountPrefillComplete(metrics, r)
  BY <1>1, PrefillCompleteEffect
<1>4. PICK A : /\ nodes' = [nodes EXCEPT ![p] = A]
               /\ nodes[p].queue = <<>> => /\ A.queue = <<>> /\ Running(A) = Running(nodes[p]) \ {r}
               /\ nodes[p].queue # <<>> =>
                    /\ A.queue = Tail(nodes[p].queue)
                    /\ Running(A) = (Running(nodes[p]) \ {r}) \cup {Head(nodes[p].queue)}
  BY <1>1, <1>2, PrefillCompleteEffect
<1>5. metrics \in Collected /\ Counts
  BY LedgerParts
<1>6. metrics'.arrived = metrics.arrived /\ \A q : Sampled(q)' = Sampled(q)
  BY <1>3, <1>5, CountPrefillCompleteFacts, SampledSame DEF SameCounts
<1>7. /\ DOMAIN nodes = Nodes /\ p \in Nodes /\ WellFormed(nodes[p])
      /\ nodes[p].queue \in Seq(Requests) /\ IsInjective(nodes[p].queue)
      /\ Running(nodes[p]) \cap Waiting(nodes[p]) = {}
  BY Constants, NodeTypes DEF Inv, Typed, WellFormed
<1>8. PICK W : W = Waiting(nodes[p])
  OBVIOUS
<1>9. PICK H : /\ H = IF nodes[p].queue = <<>> THEN {} ELSE {Head(nodes[p].queue)}
  OBVIOUS
<1>10. /\ H \subseteq W /\ Waiting(A) = W \ H /\ Running(A) = (Running(nodes[p]) \ {r}) \cup H
       /\ \A q : q \in H <=> q \in W /\ q = Min(W)
  <2>1. CASE nodes[p].queue = <<>>
    <3>1. W = {} /\ Waiting(A) = {}
      BY <1>4, <1>8, <2>1 DEF Waiting, ToSet
    <3> QED
      BY <1>4, <1>9, <2>1, <3>1
  <2>2. CASE nodes[p].queue # <<>>
    <3>1. Waiting(A) = W \ {Head(nodes[p].queue)}
      BY <1>4, <1>7, <1>8, <2>2, TailSet DEF Waiting
    <3>2. Head(nodes[p].queue) \in W /\ Min(W) = Head(nodes[p].queue)
      BY <1>7, <1>8, <2>2, HeadWaitsLongest, Constants DEF Waiting, InQueueOrder
    <3> QED
      BY <1>4, <1>9, <2>2, <3>1, <3>2
  <2> QED
    BY <2>1, <2>2
<1>11. r \in Running(nodes[p]) /\ r \notin W /\ r \in Decided /\ r <= metrics.arrived
  <2>1. r \in Running(nodes[p]) /\ r \in Decided
    BY <1>1, <1>2, <1>7 DEF At, Placed, Booked, Outside
  <2>2. metrics.arrived \in Nat
    BY <1>5 DEF Collected
  <2> QED
    BY <1>5, <1>7, <1>8, <2>1, <2>2, DecidedArrived
<1>12. Stage(r) = "prefill"
  <2>1. metrics.arrived \in Nat
    BY <1>5 DEF Collected
  <2>2. Stage(r) = StageOf("prefilled")
    BY <1>1, <1>11, <2>1, StageAt DEF Positions
  <2> QED
    BY <2>2 DEF StageOf
<1>13. nodes'[p] = A /\ \A m \in Nodes : m # p => nodes'[m] = nodes[m]
  BY <1>4, <1>7
<1>14. Decided' = Decided
  BY <1>3 DEF Decided
<1>15. Stage(r)' = "transfer"
  <2>1. r \notin Waiting(A) /\ r \notin Running(A) /\ r \in pending'
    BY <1>3, <1>10, <1>11
  <2>2. ~(r > metrics'.arrived)
    <3>1. metrics.arrived \in Nat /\ r \in Nat
      BY <1>5, Constants DEF Collected
    <3> QED
      BY <1>6, <1>11, <3>1
  <2> QED
    BY <1>2, <1>3, <1>11, <1>13, <1>14, <2>1, <2>2 DEF Stage, Waiting, Running
<1>16. ASSUME NEW q \in Requests, q \in H
       PROVE  Stage(q)' = "prefill"
  <2>1. q \in W /\ q \notin Waiting(A) /\ q \in Running(A)
    BY <1>10, <1>16
  <2>2. q \in Decided /\ q \in Nat /\ q <= metrics.arrived
    BY <1>7, <1>8, <2>1, WaitingArrived
  <2>3. decisions[q].prefill = p
    <3>1. PICK k \in Positions : At(q, k)
      BY DEF Inv
    <3> QED
      BY <1>7, <1>8, <2>1, <3>1 DEF At, Placed
  <2>4. ~(q > metrics'.arrived)
    <3>1. metrics.arrived \in Nat
      BY <1>5 DEF Collected
    <3> QED
      BY <1>6, <2>2, <3>1
  <2> QED
    BY <1>3, <1>13, <1>14, <2>1, <2>2, <2>3, <2>4 DEF Stage, Waiting, Running
<1>17. ASSUME NEW q \in Requests, q \notin H, q # r
       PROVE  Stage(q)' = Stage(q)
  <2>1. \A m \in Nodes : /\ q \in Waiting(nodes'[m]) <=> q \in Waiting(nodes[m])
                         /\ q \in Running(nodes'[m]) <=> q \in Running(nodes[m])
    BY <1>8, <1>10, <1>13, <1>17
  <2>2. q \in Decided => decisions[q].prefill \in Nodes
    BY Constants DEF Inv, Typed
  <2>3. q \in pending' <=> q \in pending
    BY <1>3, <1>17
  <2> QED
    BY <1>3, <1>6, <2>1, <2>2, <2>3, StageKept
<1>18. Life!FinishPrefill(r)
  <2>1. Life!WaitingFor(decisions[r].prefill) = W
    BY <1>2, <1>8, StageSlots
  <2>2. \A q \in Requests : Stage(q)' =
          IF q = r THEN "transfer" ELSE IF q \in W /\ q = Life!Min(W) THEN "prefill" ELSE Stage(q)
    BY <1>10, <1>15, <1>16, <1>17, SameOperators
  <2>3. [q \in Requests |-> Stage(q)]' =
          [q \in Requests |-> IF q = r THEN "transfer"
                              ELSE IF q \in W /\ q = Life!Min(W) THEN "prefill" ELSE Stage(q)]
    BY <2>2
  <2>4. [q \in Requests |-> Sampled(q)]' = [q \in Requests |-> Sampled(q)]
    BY <1>6
  <2> QED
    BY <1>3, <1>12, <2>1, <2>3, <2>4 DEF Life!FinishPrefill
<1> QED
  BY <1>18

(* A request with a decision is at the stage of its position.                *)
LEMMA StageDecided ==
  ASSUME Inv, Ledger, NEW r \in Decided, NEW k \in Positions, At(r, k)
  PROVE  Stage(r) = StageOf(k) /\ r \in Nat /\ metrics.arrived \in Nat /\ r <= metrics.arrived
<1>1. metrics.arrived \in Nat /\ Counts /\ r \in Requests
  BY LedgerParts DEF Collected, Decided
<1>2. r <= metrics.arrived
  BY <1>1, DecidedArrived
<1> QED
  BY <1>1, <1>2, StageAt, Constants

(* A transfer that ends: nothing of the answer is out.                       *)
LEMMA TransferStage ==
  ASSUME Inv, Ledger, Samples, NEW r \in Requests, At(r, "transfer")
  PROVE  /\ Stage(r) = "transfer" /\ r \in Decided /\ ~(r > metrics.arrived)
         /\ Sampled(r) = 0 /\ Sampled(r) # AnswerLength(r)
         /\ \A n \in Nodes : r \notin Waiting(nodes[n]) /\ r \notin Running(nodes[n])
<1>1. r \in Decided /\ "transfer" \in Positions
  BY DEF At, Booked, Outside, Positions
<1>2. Stage(r) = StageOf("transfer") /\ ~(r > metrics.arrived)
  BY <1>1, StageDecided
<1>3. r \notin InDecode
  BY SlotOf
<1>4. metrics.ttft[r] = M!None
  BY <1>1, <1>3 DEF Samples, Clocked, Gone
<1>5. Sampled(r) = 0
  BY <1>4, SampledFacts, LedgerParts
<1>6. AnswerLength(r) \in Nat /\ AnswerLength(r) >= 1
  BY AnswerLengthFacts
<1>7. \A n \in Nodes : r \notin Waiting(nodes[n]) /\ r \notin Running(nodes[n])
  BY DEF At, Placed
<1> QED
  BY <1>1, <1>2, <1>5, <1>6, <1>7 DEF StageOf

(* KV_TRANSFER_COMPLETE on a full decode node.                               *)
LEMMA TransferRejectedLife ==
  ASSUME Inv, Ledger, Samples, TransferRejected
  PROVE  \E r \in Requests : Life!Drop(r)
<1>1. PICK r \in Requests : r = Req /\ At(r, "transfer")
  BY TransferRejectedEffect
<1>2. /\ ~HasRoom(nodes[decisions[r].decode]) /\ pending' = pending \ {r} /\ nodes' = nodes
      /\ decisions' = [decisions EXCEPT ![r] = NoDecision]
      /\ metrics' = M!CountTransferComplete(metrics, r)
  BY <1>1, TransferRejectedEffect
<1>3. metrics \in Collected
  BY LedgerParts
<1>4. metrics'.arrived = metrics.arrived /\ \A q : Sampled(q)' = Sampled(q)
  BY <1>2, <1>3, CountTransferCompleteFacts, SampledSame DEF SameCounts
<1>5. /\ Stage(r) = "transfer" /\ r \in Decided /\ ~(r > metrics.arrived)
      /\ Sampled(r) # AnswerLength(r)
  BY <1>1, TransferStage
<1>6. DOMAIN decisions = Requests /\ decisions[r].decode \in DecodeNodes
  BY <1>5 DEF Inv, Typed
<1>7. ASSUME NEW q \in Requests, q # r
      PROVE  Stage(q)' = Stage(q)
  <2>1. decisions'[q] = decisions[q] /\ (q \in pending' <=> q \in pending)
    BY <1>2, <1>6, <1>7
  <2> QED
    BY <1>2, <1>4, <2>1, StageKept
<1>8. Stage(r)' = "rejected"
  <2>1. r \notin Decided'
    BY <1>2, <1>6 DEF Decided
  <2>2. Sampled(r)' # AnswerLength(r)'
    BY <1>4, <1>5, AnswerLengthFacts
  <2> QED
    BY <1>4, <1>5, <2>1, <2>2 DEF Stage
<1>9. Life!Cardinality(Life!OnDecode(decisions[r].decode)) >= NodeCapacity
  <2>1. WellFormed(nodes[decisions[r].decode])
    BY <1>6, Constants DEF Inv, Typed
  <2> QED
    BY <1>2, <1>6, <2>1, StageSlots, SlotCount, SameOperators
<1>10. Life!Drop(r)
  <2>1. [q \in Requests |-> Stage(q)]' = [[q \in Requests |-> Stage(q)] EXCEPT ![r] = "rejected"]
    BY <1>7, <1>8
  <2>2. [q \in Requests |-> <<decisions[q].prefill, decisions[q].decode>>]' =
          [[q \in Requests |-> <<decisions[q].prefill, decisions[q].decode>>]
             EXCEPT ![r] = <<"none", "none">>]
    BY <1>2, <1>6 DEF NoDecision
  <2>3. [q \in Requests |-> Sampled(q)]' = [q \in Requests |-> Sampled(q)]
    BY <1>4
  <2> QED
    BY <1>5, <1>9, <2>1, <2>2, <2>3 DEF Life!Drop, Life!NoRoute
<1> QED
  BY <1>10

(* KV_TRANSFER_COMPLETE on a decode node with a free slot.                   *)
LEMMA TransferAdmittedLife ==
  ASSUME Inv, Ledger, Samples, TransferAdmitted
  PROVE  \E r \in Requests : Life!StartDecoding(r)
<1>1. PICK r \in Requests : r = Req /\ At(r, "transfer")
  BY TransferAdmittedEffect
<1>2. PICK d \in DecodeNodes :
        /\ d = decisions[r].decode /\ HasRoom(nodes[d])
        /\ \E A : /\ nodes' = [nodes EXCEPT ![d] = A]
                  /\ A.queue = nodes[d].queue /\ Running(A) = Running(nodes[d]) \cup {r}
  BY <1>1, TransferAdmittedEffect
<1>3. PICK A : /\ nodes' = [nodes EXCEPT ![d] = A]
               /\ A.queue = nodes[d].queue /\ Running(A) = Running(nodes[d]) \cup {r}
  BY <1>2
<1>4. /\ pending' = pending \ {r} /\ decisions' = decisions
      /\ metrics' = M!CountTransferComplete(metrics, r)
  BY <1>1, TransferAdmittedEffect
<1>5. metrics \in Collected
  BY LedgerParts
<1>6. metrics'.arrived = metrics.arrived /\ \A q : Sampled(q)' = Sampled(q)
  BY <1>4, <1>5, CountTransferCompleteFacts, SampledSame DEF SameCounts
<1>7. /\ Stage(r) = "transfer" /\ r \in Decided /\ ~(r > metrics.arrived)
      /\ \A n \in Nodes : r \notin Waiting(nodes[n]) /\ r \notin Running(nodes[n])
  BY <1>1, TransferStage
<1>8. /\ DOMAIN nodes = Nodes /\ d \in Nodes /\ WellFormed(nodes[d])
      /\ \A q \in Decided : decisions[q].prefill \in Nodes /\ decisions[q].prefill # d
  BY Constants DEF Inv, Typed
<1>9. \A m \in Nodes : m # d => nodes'[m] = nodes[m]
  BY <1>3, <1>8
<1>10. ASSUME NEW q \in Requests, q # r
       PROVE  Stage(q)' = Stage(q)
  <2>1. q \in pending' <=> q \in pending
    BY <1>4, <1>10
  <2>2. q \in Decided => nodes'[decisions[q].prefill] = nodes[decisions[q].prefill]
    BY <1>8, <1>9
  <2> QED
    BY <1>4, <1>6, <2>1, <2>2, StageKept
<1>11. Stage(r)' = "decode"
  <2>1. r \in Decided' /\ r \notin pending' /\ decisions'[r].prefill \in Nodes
    BY <1>4, <1>7, <1>8 DEF Decided
  <2>2. /\ r \notin ToSet(nodes'[decisions'[r].prefill].queue)
        /\ r \notin ToSet(nodes'[decisions'[r].prefill].running)
    BY <1>4, <1>7, <1>8, <1>9 DEF Waiting, Running
  <2> QED
    BY <1>6, <1>7, <2>1, <2>2 DEF Stage
<1>12. Life!Cardinality(Life!OnDecode(decisions[r].decode)) < NodeCapacity
  BY <1>2, <1>8, StageSlots, SlotCount, SameOperators
<1>13. Life!StartDecoding(r)
  <2>1. [q \in Requests |-> Stage(q)]' = [[q \in Requests |-> Stage(q)] EXCEPT ![r] = "decode"]
    BY <1>10, <1>11
  <2>2. [q \in Requests |-> Sampled(q)]' = [q \in Requests |-> Sampled(q)]
    BY <1>6
  <2> QED
    BY <1>4, <1>7, <1>12, <2>1, <2>2 DEF Life!StartDecoding
<1> QED
  BY <1>13

(* TOKEN_GENERATED: the answer of the request is not yet complete.           *)
LEMMA TokenGeneratedLife ==
  ASSUME Inv, Ledger, Ledger', Samples, TokenGenerated
  PROVE  \E r \in Requests : Life!SendToken(r)
<1>1. PICK r \in Requests : SamplesOne(r)
  BY TokenEffect
<1>2. /\ nodes' = nodes /\ decisions' = decisions /\ pending' = pending
      /\ metrics'.arrived = metrics.arrived /\ r \in InDecode /\ r \in Decided
      /\ Sampled(r)' = Sampled(r) + 1 /\ \A q \in Requests : q # r => Sampled(q)' = Sampled(q)
  BY <1>1 DEF SamplesOne
<1>3. PICK k \in {"decoding", "decoded"} : At(r, k)
  <2>1. PICK k \in Positions : At(r, k)
    BY DEF Inv
  <2> QED
    BY <1>2, <2>1, SlotOf
<1>4. Stage(r) = "decode"
  BY <1>2, <1>3, StageDecided DEF StageOf, Positions
<1>5. Has(r, "TOKEN_GENERATED")
  BY <1>1 DEF SamplesOne, Has, HasIn
<1>6. Sampled(r) \in Nat /\ Sent(r) = Sampled(r) + 1
  BY <1>5, LedgerParts, SampledFacts DEF Sent, OnTheWay
<1>7. AnswerLength(r) \in Nat
  BY AnswerLengthFacts
<1>8. Sent(r) <= AnswerLength(r)
  <2>1. CASE k = "decoding"
    <3>1. decisions[r].decode \in Nodes
      BY <1>2, Constants DEF Inv, Typed
    <3>2. r \in nodes[decisions[r].decode].decoding
      BY <1>3, <2>1, <3>1 DEF At, Placed
    <3>3. Sent(r) < AnswerLength(r)
      BY <3>1, <3>2 DEF Samples, Streams
    <3> QED
      BY <1>6, <1>7, <3>3
  <2>2. CASE k = "decoded"
    <3>1. Has(r, "DECODE_COMPLETE")
      BY <1>3, <2>2 DEF At, Carried
    <3>2. Sent(r) = AnswerLength(r)
      BY <3>1 DEF Samples, Told, Has, HasIn
    <3> QED
      BY <1>6, <1>7, <3>2
  <2> QED
    BY <1>3, <2>1, <2>2
<1>9. Sampled(r) < AnswerLength(r)
  BY <1>6, <1>7, <1>8
<1>10. \A q \in Requests : Stage(q)' = Stage(q)
  BY <1>2, StageKept
<1>11. Life!SendToken(r)
  <2>1. [q \in Requests |-> Stage(q)]' = [q \in Requests |-> Stage(q)]
    BY <1>10
  <2>2. [q \in Requests |-> Sampled(q)]' = [[q \in Requests |-> Sampled(q)] EXCEPT ![r] = @ + 1]
    BY <1>2
  <2> QED
    BY <1>2, <1>4, <1>9, <2>1, <2>2 DEF Life!SendToken
<1> QED
  BY <1>11

(* DECODE_COMPLETE: the whole answer is out.                                 *)
LEMMA DecodeCompleteLife ==
  ASSUME Inv, Ledger, Samples, DecodeComplete
  PROVE  \E r \in Requests : Life!Finish(r)
<1>1. PICK r \in Requests : r = Req /\ At(r, "decoded")
  BY DecodeCompleteEffect
<1>2. PICK t \in Nat : t = now'
  BY DecodeCompleteEffect, PopEffect
<1>3. PICK d \in DecodeNodes : d = Node
  BY DecodeCompleteEffect
<1>4. /\ d = decisions[r].decode /\ pending' = pending
      /\ decisions' = [decisions EXCEPT ![r] = NoDecision]
      /\ metrics' = M!CountDecodeComplete(metrics, r, t)
  BY <1>1, <1>2, <1>3, DecodeCompleteEffect
<1>5. PICK A : nodes' = [nodes EXCEPT ![d] = A]
  BY <1>3, DecodeCompleteEffect
<1>6. metrics'.arrived = metrics.arrived /\ \A q : Sampled(q)' = Sampled(q)
  BY <1>4, LedgerParts, CountDecodeCompleteFacts, SampledSame
<1>7. Sampled(r) = AnswerLength(r)
  BY <1>1, LastToken, DecodeCompleteEffect
<1>8. r \in Decided /\ "decoded" \in Positions
  BY <1>1 DEF At, Booked, Outside, Positions
<1>9. Stage(r) = "decode" /\ ~(r > metrics.arrived)
  BY <1>1, <1>8, StageDecided DEF StageOf
<1>10. /\ DOMAIN decisions = Requests /\ DOMAIN nodes = Nodes
       /\ \A q \in Decided : decisions[q].prefill \in Nodes /\ decisions[q].prefill # d
  BY Constants DEF Inv, Typed
<1>11. \A n \in Nodes : n # d => nodes'[n] = nodes[n]
  BY <1>5, <1>10
<1>12. ASSUME NEW q \in Requests, q # r
       PROVE  Stage(q)' = Stage(q)
  <2>1. decisions'[q] = decisions[q]
    BY <1>4, <1>10, <1>12
  <2>2. q \in Decided => nodes'[decisions[q].prefill] = nodes[decisions[q].prefill]
    BY <1>10, <1>11
  <2> QED
    BY <1>4, <1>6, <2>1, <2>2, StageKept
<1>13. Stage(r)' = "done"
  <2>1. r \notin Decided'
    BY <1>4, <1>10 DEF Decided
  <2>2. Sampled(r)' = AnswerLength(r)'
    BY <1>6, <1>7, AnswerLengthFacts
  <2> QED
    BY <1>6, <1>9, <2>1, <2>2 DEF Stage
<1>14. Life!Finish(r)
  <2>1. [q \in Requests |-> Stage(q)]' = [[q \in Requests |-> Stage(q)] EXCEPT ![r] = "done"]
    BY <1>12, <1>13
  <2>2. [q \in Requests |-> <<decisions[q].prefill, decisions[q].decode>>]' =
          [[q \in Requests |-> <<decisions[q].prefill, decisions[q].decode>>]
             EXCEPT ![r] = <<"none", "none">>]
    BY <1>4, <1>10 DEF NoDecision
  <2>3. [q \in Requests |-> Sampled(q)]' = [q \in Requests |-> Sampled(q)]
    BY <1>6
  <2> QED
    BY <1>7, <1>9, <2>1, <2>2, <2>3 DEF Life!Finish, Life!NoRoute
<1> QED
  BY <1>14

-----------------------------------------------------------------------------
(* The theorem.                                                              *)

(* At the start nobody has arrived.                                          *)
LEMMA InitLife == Init => Life!LifeInit /\ InQueueOrder
<1> SUFFICES ASSUME Init
             PROVE  Life!LifeInit /\ InQueueOrder
  OBVIOUS
<1>1. /\ metrics = M!NoMetrics /\ nodes = [n \in Nodes |-> EmptyNode]
      /\ decisions = [r \in Requests |-> NoDecision]
  BY DEF Init
<1>2. metrics.arrived = 0 /\ \A r \in Requests : metrics.ttft[r] = M!None
  BY <1>1 DEF M!NoMetrics, M!NoTimes
<1>3. \A r \in Requests : Stage(r) = "new"
  <2>1. \A r \in Requests : r > 0
    <3>1. Cardinality(Requests) \in Nat /\ Requests = 1..Cardinality(Requests)
      BY FS_CardinalityType, ServingAssumption
    <3> QED
      BY <3>1
  <2> QED
    BY <1>2, <2>1 DEF Stage
<1>4. \A r \in Requests : Sampled(r) = 0
  BY <1>2 DEF Sampled
<1>5. Life!LifeInit
  <2>1. [r \in Requests |-> <<decisions[r].prefill, decisions[r].decode>>]
          = [r \in Requests |-> <<"none", "none">>]
    BY <1>1 DEF NoDecision
  <2> QED
    BY <1>3, <1>4, <2>1 DEF Life!LifeInit, Life!NoRoute
<1>6. InQueueOrder
  <2>1. \A n \in Nodes : nodes[n].queue = <<>>
    BY <1>1 DEF EmptyNode
  <2> QED
    BY <2>1 DEF InQueueOrder, Sorted
<1> QED
  BY <1>5, <1>6

(* Every step of the cluster is a step of the life cycle, or moves nobody.   *)
LEMMA NextLife ==
  Inv /\ Ledger /\ Ledger' /\ Samples /\ InQueueOrder /\ [Next]_vars
    => [Life!LifeNext]_(Life!lifeVars)
<1> SUFFICES ASSUME Inv, Ledger, Ledger', Samples, InQueueOrder, [Next]_vars
             PROVE  Life!LifeNext \/ UNCHANGED Life!lifeVars
  OBVIOUS
<1>1. CASE \/ Scheduled \/ Rejected \/ TransferStarts \/ BatchStep
           \/ PrefillStartCached \/ PrefillStartChunked
  BY <1>1, InternalSteps
<1>2. CASE ArriveRejected
  BY <1>2, ArriveRejectedLife DEF Life!LifeNext
<1>3. ASSUME NEW p \in PrefillNodes, NEW d \in DecodeNodes, ArriveRouted(p, d)
      PROVE  Life!LifeNext
  BY <1>3, ArriveRoutedLife DEF Life!LifeNext
<1>4. CASE PrefillComplete
  BY <1>4, PrefillCompleteLife DEF Life!LifeNext
<1>5. CASE TransferRejected
  BY <1>5, TransferRejectedLife DEF Life!LifeNext
<1>6. CASE TransferAdmitted
  BY <1>6, TransferAdmittedLife DEF Life!LifeNext
<1>7. CASE TokenGenerated
  BY <1>7, TokenGeneratedLife DEF Life!LifeNext
<1>8. CASE DecodeComplete
  BY <1>8, DecodeCompleteLife DEF Life!LifeNext
<1>9. CASE UNCHANGED vars
  <2>1. /\ decisions' = decisions /\ pending' = pending /\ nodes' = nodes
        /\ metrics' = metrics
    BY <1>9 DEF vars
  <2> QED
    BY <2>1, LifeStutters DEF SameSamples, SameSlots
<1> QED
  BY <1>1, <1>2, <1>3, <1>4, <1>5, <1>6, <1>7, <1>8, <1>9 DEF Next

(* The cluster implements the life cycle of its requests: they take their    *)
(* stages in order, wait for a prefill slot in the order of arrival, are     *)
(* dropped only by a full decode node, and are done only when the whole      *)
(* answer is out, whatever the policy, the cache and the interleaving.       *)
THEOREM LifecycleImplemented == Spec => ImplementsLifecycle
<1>1. Init => Inv /\ Ledger /\ Samples /\ InQueueOrder /\ Life!LifeInit
  BY InitInv, InitLedger, InitSamples, InitLife
<1>2. Inv /\ Ledger /\ Samples /\ InQueueOrder /\ [Next]_vars
        => Inv' /\ Ledger' /\ Samples' /\ InQueueOrder'
  BY NextInv, NextLedger, NextSamples, QueueOrderNext
<1>3. Inv /\ Ledger /\ Ledger' /\ Samples /\ InQueueOrder /\ [Next]_vars
        => [Life!LifeNext]_(Life!lifeVars)
  BY NextLife
<1> QED
  BY <1>1, <1>2, <1>3, PTL DEF Spec, Life!LifeSpec, ImplementsLifecycle
=============================================================================
