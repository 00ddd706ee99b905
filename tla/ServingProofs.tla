---------------------------- MODULE ServingProofs ----------------------------
(***************************************************************************)
(* The event handlers keep track of every request, for any number of nodes *)
(* and requests, any answers of the policy and the cache, and any order of *)
(* events that the queue allows.                                           *)
(*                                                                         *)
(* The invariants of Serving are not inductive as they stand: a handler    *)
(* trusts the event it is given and what earlier handlers left in the      *)
(* decisions, on the nodes and in the queue.  The inductive invariant Inv  *)
(* says that every request is at one Position, and that its decision, its  *)
(* nodes, the pending transfers, the tables and the queued events all      *)
(* agree on it.                                                            *)
(*                                                                         *)
(* First comes what the methods of an engine node do: each keeps the node  *)
(* well formed and moves the requests it is meant to move, no other.  The  *)
(* proofs about the handlers use these lemmas and no longer look into the  *)
(* node.                                                                   *)
(***************************************************************************)
EXTENDS Serving, LoopProofs

-----------------------------------------------------------------------------
(* Well-formed nodes.                                                        *)

Phases == {"none", "queued", "admitted", "prefilling", "prefill_done", "decoding"}
PrefillEntry == [req : Requests, left : Nat \ {0}]

NodeValue ==
  [running : Seq(Requests), queue : Seq(Requests), decoding : SUBSET Requests,
   prefill : Seq(PrefillEntry), tokens : [Requests -> Nat], inFlight : BOOLEAN,
   phase : [Requests -> Phases], uncached : [Requests -> Nat]]

Running(N) == ToSet(N.running)
Waiting(N) == ToSet(N.queue)

(* No request is listed twice, slots are not overcommitted, the streams and  *)
(* the prefills of the node are among the requests that hold a slot, nobody  *)
(* waits beside a free slot, and nothing is kept of a request that is gone.  *)
WellFormed(N) ==
  /\ N \in NodeValue
  /\ Len(N.running) <= NodeCapacity
  /\ IsInjective(N.running) /\ IsInjective(N.queue)
  /\ \A i, j \in DOMAIN N.prefill : N.prefill[i].req = N.prefill[j].req => i = j
  /\ Running(N) \cap Waiting(N) = {}
  /\ Prefilling(N) \subseteq Running(N) /\ N.decoding \subseteq Running(N)
  /\ Prefilling(N) \cap N.decoding = {}
  /\ N.queue # <<>> => ~HasRoom(N)
  /\ \A r \in Requests \ Running(N) : N.tokens[r] = 0
  /\ \A r \in Requests \ (Running(N) \cup Waiting(N)) :
       N.phase[r] = "none" /\ N.uncached[r] = 0

(* The node N has become P with the same slots and queue.                    *)
SameSlots(N, P) == P.running = N.running /\ P.queue = N.queue

(* The fields of a well-formed node.                                         *)
LEMMA NodeTypes ==
  ASSUME NEW N, WellFormed(N)
  PROVE  /\ N.running \in Seq(Requests) /\ N.queue \in Seq(Requests)
         /\ N.decoding \in SUBSET Requests /\ N.prefill \in Seq(PrefillEntry)
         /\ N.tokens \in [Requests -> Nat] /\ N.inFlight \in BOOLEAN
         /\ N.phase \in [Requests -> Phases] /\ N.uncached \in [Requests -> Nat]
         /\ Running(N) \subseteq Requests /\ Waiting(N) \subseteq Requests
         /\ Prefilling(N) \subseteq Requests
         /\ Len(N.running) \in Nat /\ NodeCapacity \in Nat \ {0}
<1>1. /\ N.running \in Seq(Requests) /\ N.queue \in Seq(Requests)
      /\ N.decoding \in SUBSET Requests /\ N.prefill \in Seq(PrefillEntry)
      /\ N.tokens \in [Requests -> Nat] /\ N.inFlight \in BOOLEAN
      /\ N.phase \in [Requests -> Phases] /\ N.uncached \in [Requests -> Nat]
  BY DEF WellFormed, NodeValue
<1>2. Running(N) \subseteq Requests /\ Waiting(N) \subseteq Requests
  BY <1>1 DEF Running, Waiting, ToSet
<1>3. Prefilling(N) \subseteq Requests
  <2>1. \A i \in DOMAIN N.prefill : N.prefill[i] \in PrefillEntry
    BY <1>1
  <2>2. \A i \in DOMAIN N.prefill : N.prefill[i].req \in Requests
    BY <2>1 DEF PrefillEntry
  <2> QED
    BY <2>2 DEF Prefilling
<1> QED
  BY <1>1, <1>2, <1>3, NodeAssumption

(* The initial node is well formed and has nothing to do.                    *)
LEMMA EmptyNodeFacts ==
  /\ WellFormed(EmptyNode)
  /\ Running(EmptyNode) = {} /\ Waiting(EmptyNode) = {} /\ Prefilling(EmptyNode) = {}
  /\ EmptyNode.decoding = {} /\ EmptyNode.inFlight = FALSE
  /\ EmptyNode.prefill = <<>> /\ EmptyNode.queue = <<>>
<1>1. Running(EmptyNode) = {} /\ Waiting(EmptyNode) = {} /\ Prefilling(EmptyNode) = {}
  BY DEF EmptyNode, Running, Waiting, Prefilling, ToSet
<1>2. EmptyNode \in NodeValue
  BY DEF EmptyNode, NodeValue, Phases
<1>3. EmptyNode.decoding = {} /\ EmptyNode.inFlight = FALSE
      /\ EmptyNode.prefill = <<>> /\ EmptyNode.queue = <<>> /\ EmptyNode.running = <<>>
  BY DEF EmptyNode
<1>4. /\ \A r \in Requests : EmptyNode.tokens[r] = 0
      /\ \A r \in Requests : EmptyNode.phase[r] = "none" /\ EmptyNode.uncached[r] = 0
  BY DEF EmptyNode
<1> QED
  BY <1>1, <1>2, <1>3, <1>4, NodeAssumption DEF WellFormed, IsInjective

(* Work on a node is a stream or a prefill.                                  *)
LEMMA HasWorkFacts ==
  ASSUME NEW N, WellFormed(N)
  PROVE  /\ HasWork(N) <=> (N.decoding # {} \/ Prefilling(N) # {})
         /\ N.prefill # <<>> <=> Prefilling(N) # {}
<1>1. N.prefill \in Seq(PrefillEntry)
  BY NodeTypes
<1>2. N.prefill # <<>> => 1 \in DOMAIN N.prefill
  BY <1>1
<1>3. N.prefill # <<>> => Prefilling(N) # {}
  BY <1>2 DEF Prefilling
<1>4. N.prefill = <<>> => Prefilling(N) = {}
  BY DEF Prefilling
<1> QED
  BY <1>3, <1>4 DEF HasWork

(* admit gives a request that is not on the node a slot or a place at the    *)
(* end of the queue.                                                         *)
LEMMA AdmitFacts ==
  ASSUME NEW N, WellFormed(N), NEW r \in Requests, r \notin Running(N) \cup Waiting(N),
         NEW u \in Nat
  PROVE  /\ WellFormed(Admit(N, r, u))
         /\ HasRoom(N) => /\ Admit(N, r, u).running = Append(N.running, r)
                          /\ Admit(N, r, u).queue = N.queue
                          /\ Running(Admit(N, r, u)) = Running(N) \cup {r}
         /\ ~HasRoom(N) => /\ Admit(N, r, u).running = N.running
                           /\ Admit(N, r, u).queue = Append(N.queue, r)
                           /\ Waiting(Admit(N, r, u)) = Waiting(N) \cup {r}
         /\ Admit(N, r, u).decoding = N.decoding
         /\ Admit(N, r, u).prefill = N.prefill
         /\ Admit(N, r, u).inFlight = N.inFlight
         /\ Admit(N, r, u).tokens = N.tokens
<1> DEFINE A == Admit(N, r, u)
<1>1. /\ N.running \in Seq(Requests) /\ N.queue \in Seq(Requests)
      /\ N.decoding \in SUBSET Requests /\ N.prefill \in Seq(PrefillEntry)
      /\ N.tokens \in [Requests -> Nat] /\ N.inFlight \in BOOLEAN
      /\ N.phase \in [Requests -> Phases] /\ N.uncached \in [Requests -> Nat]
      /\ Len(N.running) \in Nat /\ NodeCapacity \in Nat \ {0}
  BY NodeTypes
<1>2. N \in NodeValue /\ N.tokens[r] = 0
  BY DEF WellFormed
<1>3. CASE HasRoom(N)
  <2>1. /\ A.running = Append(N.running, r) /\ A.queue = N.queue
        /\ A.decoding = N.decoding /\ A.prefill = N.prefill /\ A.inFlight = N.inFlight
        /\ A.tokens = [N.tokens EXCEPT ![r] = 0]
        /\ A.phase = [N.phase EXCEPT ![r] = "admitted"]
        /\ A.uncached = [N.uncached EXCEPT ![r] = u]
    BY <1>2, <1>3 DEF Admit, NodeValue
  <2>2. A.tokens = N.tokens
    BY <1>1, <1>2, <2>1
  <2>3. /\ Append(N.running, r) \in Seq(Requests)
        /\ Len(Append(N.running, r)) = Len(N.running) + 1
        /\ ToSet(Append(N.running, r)) = ToSet(N.running) \cup {r}
        /\ IsInjective(Append(N.running, r))
    BY <1>1, AppendSet DEF WellFormed, Running
  <2>4. A \in NodeValue
    <3>1. "admitted" \in Phases
      BY DEF Phases
    <3> QED
      BY <1>1, <1>2, <1>3, <2>2, <2>3, <3>1 DEF Admit, NodeValue
  <2>5. Running(A) = Running(N) \cup {r} /\ Waiting(A) = Waiting(N)
        /\ Prefilling(A) = Prefilling(N)
    BY <2>1, <2>3 DEF Running, Waiting, Prefilling
  <2>6. N.queue = <<>>
    BY <1>3 DEF WellFormed
  <2> HIDE DEF A
  <2>7. WellFormed(A)
    <3>1. Len(A.running) <= NodeCapacity
      BY <1>1, <1>3, <2>1, <2>3 DEF HasRoom
    <3>2. \A q \in Requests \ Running(A) : A.tokens[q] = 0
      BY <2>2, <2>5 DEF WellFormed
    <3>3. \A q \in Requests \ (Running(A) \cup Waiting(A)) :
            A.phase[q] = "none" /\ A.uncached[q] = 0
      BY <1>1, <2>1, <2>5 DEF WellFormed
    <3>4. Running(A) \cap Waiting(A) = {}
      BY <2>5 DEF WellFormed
    <3> QED
      BY <2>1, <2>3, <2>4, <2>5, <2>6, <3>1, <3>2, <3>3, <3>4 DEF WellFormed
  <2> QED
    BY <1>3, <2>1, <2>2, <2>5, <2>7 DEF A
<1>4. CASE ~HasRoom(N)
  <2>1. /\ A.queue = Append(N.queue, r) /\ A.running = N.running
        /\ A.decoding = N.decoding /\ A.prefill = N.prefill /\ A.inFlight = N.inFlight
        /\ A.tokens = N.tokens
        /\ A.phase = [N.phase EXCEPT ![r] = "queued"]
        /\ A.uncached = [N.uncached EXCEPT ![r] = u]
    BY <1>2, <1>4 DEF Admit, NodeValue
  <2>3. /\ Append(N.queue, r) \in Seq(Requests)
        /\ ToSet(Append(N.queue, r)) = ToSet(N.queue) \cup {r}
        /\ IsInjective(Append(N.queue, r))
    BY <1>1, AppendSet DEF WellFormed, Waiting
  <2>4. A \in NodeValue
    <3>1. "queued" \in Phases
      BY DEF Phases
    <3> QED
      BY <1>1, <1>2, <1>4, <2>3, <3>1 DEF Admit, NodeValue
  <2>5. Running(A) = Running(N) /\ Waiting(A) = Waiting(N) \cup {r}
        /\ Prefilling(A) = Prefilling(N)
    BY <2>1, <2>3 DEF Running, Waiting, Prefilling
  <2> HIDE DEF A
  <2>7. WellFormed(A)
    <3>1. ~HasRoom(A)
      BY <1>4, <2>1 DEF HasRoom
    <3>2. \A q \in Requests \ Running(A) : A.tokens[q] = 0
      BY <2>1, <2>5 DEF WellFormed
    <3>3. \A q \in Requests \ (Running(A) \cup Waiting(A)) :
            A.phase[q] = "none" /\ A.uncached[q] = 0
      BY <1>1, <2>1, <2>5 DEF WellFormed
    <3>4. Running(A) \cap Waiting(A) = {}
      BY <2>5 DEF WellFormed
    <3> QED
      BY <2>1, <2>3, <2>4, <2>5, <3>1, <3>2, <3>3, <3>4 DEF WellFormed
  <2> QED
    BY <1>4, <2>1, <2>5, <2>7 DEF A
<1> QED
  BY <1>3, <1>4

(* start_decode adds a request that holds a slot to the decode batch.        *)
LEMMA StartDecodeFacts ==
  ASSUME NEW N, WellFormed(N), NEW r \in Running(N), r \notin Prefilling(N)
  PROVE  /\ WellFormed(StartDecode(N, r))
         /\ SameSlots(N, StartDecode(N, r))
         /\ StartDecode(N, r).decoding = N.decoding \cup {r}
         /\ StartDecode(N, r).prefill = N.prefill
         /\ StartDecode(N, r).inFlight = N.inFlight
         /\ StartDecode(N, r).tokens = N.tokens
<1> DEFINE A == StartDecode(N, r)
<1>1. /\ r \in Requests /\ N.decoding \in SUBSET Requests
      /\ N.phase \in [Requests -> Phases] /\ N \in NodeValue
  BY NodeTypes DEF WellFormed
<1>2. /\ A.running = N.running /\ A.queue = N.queue /\ A.prefill = N.prefill
      /\ A.tokens = N.tokens /\ A.inFlight = N.inFlight /\ A.uncached = N.uncached
      /\ A.decoding = N.decoding \cup {r}
      /\ A.phase = [N.phase EXCEPT ![r] = "decoding"]
  BY <1>1 DEF StartDecode, NodeValue
<1>3. A \in NodeValue
  BY <1>1 DEF StartDecode, NodeValue, Phases
<1> HIDE DEF A
<1>4. Running(A) = Running(N) /\ Waiting(A) = Waiting(N) /\ Prefilling(A) = Prefilling(N)
  BY <1>2 DEF Running, Waiting, Prefilling
<1>5. HasRoom(A) <=> HasRoom(N)
  BY <1>2 DEF HasRoom
<1>6. \A q \in Requests : q # r => A.phase[q] = N.phase[q]
  BY <1>1, <1>2
<1>7. WellFormed(A)
  BY <1>2, <1>3, <1>4, <1>5, <1>6 DEF WellFormed
<1> QED
  BY <1>2, <1>7 DEF A, SameSlots

(* enter_prefill adds a request that holds a slot to the prefill list.       *)
LEMMA EnterPrefillFacts ==
  ASSUME NEW N, WellFormed(N), NEW r \in Running(N), r \notin Prefilling(N) \cup N.decoding,
         NEW u \in Nat \ {0}
  PROVE  /\ WellFormed(EnterPrefill(N, r, u))
         /\ SameSlots(N, EnterPrefill(N, r, u))
         /\ EnterPrefill(N, r, u).decoding = N.decoding
         /\ Prefilling(EnterPrefill(N, r, u)) = Prefilling(N) \cup {r}
         /\ EnterPrefill(N, r, u).inFlight = N.inFlight
         /\ EnterPrefill(N, r, u).tokens = N.tokens
<1> DEFINE A == EnterPrefill(N, r, u)
           e == [req |-> r, left |-> u]
<1>1. /\ r \in Requests /\ N.prefill \in Seq(PrefillEntry) /\ N.uncached \in [Requests -> Nat]
      /\ N.phase \in [Requests -> Phases] /\ N \in NodeValue
  BY NodeTypes DEF WellFormed
<1>2. /\ A.running = N.running /\ A.queue = N.queue /\ A.decoding = N.decoding
      /\ A.tokens = N.tokens /\ A.inFlight = N.inFlight
      /\ A.uncached = [N.uncached EXCEPT ![r] = u]
      /\ A.prefill = Append(N.prefill, e)
      /\ A.phase = [N.phase EXCEPT ![r] = "prefilling"]
  BY <1>1 DEF EnterPrefill, NodeValue
<1>3. e \in PrefillEntry /\ e.req = r
  BY <1>1 DEF PrefillEntry
<1>4. A \in NodeValue
  <2>1. Append(N.prefill, e) \in Seq(PrefillEntry) /\ "prefilling" \in Phases /\ u \in Nat
    BY <1>1, <1>3 DEF Phases
  <2>2. A = [N EXCEPT !.prefill = Append(N.prefill, e),
                      !.phase = [N.phase EXCEPT ![r] = "prefilling"],
                      !.uncached = [N.uncached EXCEPT ![r] = u]]
    BY <1>1 DEF EnterPrefill, NodeValue
  <2> HIDE DEF A, e
  <2> QED
    BY <1>1, <2>1, <2>2 DEF NodeValue
<1> HIDE DEF A, e
<1>5. /\ DOMAIN A.prefill = 1..Len(N.prefill) + 1 /\ DOMAIN N.prefill = 1..Len(N.prefill)
      /\ Len(N.prefill) \in Nat
      /\ A.prefill[Len(N.prefill) + 1] = e
      /\ \A i \in 1..Len(N.prefill) : A.prefill[i] = N.prefill[i]
  BY <1>1, <1>2, <1>3
<1>6. \A i \in DOMAIN A.prefill : i \in DOMAIN N.prefill \/ i = Len(N.prefill) + 1
  BY <1>5
<1>7. Len(N.prefill) + 1 \in DOMAIN A.prefill /\ DOMAIN N.prefill \subseteq DOMAIN A.prefill
  BY <1>5
<1>8. Prefilling(A) = Prefilling(N) \cup {r}
  BY <1>3, <1>5, <1>6, <1>7, SMTT(40) DEF Prefilling
<1>9. ASSUME NEW i \in DOMAIN A.prefill, NEW j \in DOMAIN A.prefill,
             A.prefill[i].req = A.prefill[j].req
      PROVE  i = j
  <2>1. \A k \in DOMAIN N.prefill : N.prefill[k].req # r
    BY DEF Prefilling
  <2>2. \A k, l \in DOMAIN N.prefill : N.prefill[k].req = N.prefill[l].req => k = l
    BY DEF WellFormed
  <2>3. \A k \in DOMAIN N.prefill : A.prefill[k] = N.prefill[k]
    BY <1>5
  <2> QED
    BY <1>3, <1>5, <1>6, <1>9, <2>1, <2>2, <2>3
<1>10. Running(A) = Running(N) /\ Waiting(A) = Waiting(N)
  BY <1>2 DEF Running, Waiting
<1>11. HasRoom(A) <=> HasRoom(N)
  BY <1>2 DEF HasRoom
<1>12. \A q \in Requests : q # r => A.phase[q] = N.phase[q] /\ A.uncached[q] = N.uncached[q]
  BY <1>1, <1>2
<1>13. WellFormed(A)
  BY <1>2, <1>4, <1>8, <1>9, <1>10, <1>11, <1>12 DEF WellFormed
<1> QED
  BY <1>2, <1>8, <1>13 DEF A, SameSlots

(* mark_prefill_done changes nothing but what estimates read.                *)
LEMMA MarkPrefillDoneFacts ==
  ASSUME NEW N, WellFormed(N), NEW r \in Running(N)
  PROVE  /\ WellFormed(MarkPrefillDone(N, r))
         /\ SameSlots(N, MarkPrefillDone(N, r))
         /\ MarkPrefillDone(N, r).decoding = N.decoding
         /\ MarkPrefillDone(N, r).prefill = N.prefill
         /\ MarkPrefillDone(N, r).inFlight = N.inFlight
         /\ MarkPrefillDone(N, r).tokens = N.tokens
<1> DEFINE A == MarkPrefillDone(N, r)
<1>1. /\ r \in Requests /\ N.uncached \in [Requests -> Nat]
      /\ N.phase \in [Requests -> Phases] /\ N \in NodeValue
  BY NodeTypes DEF WellFormed
<1>2. /\ A.running = N.running /\ A.queue = N.queue /\ A.prefill = N.prefill
      /\ A.tokens = N.tokens /\ A.inFlight = N.inFlight /\ A.decoding = N.decoding
      /\ A.uncached = [N.uncached EXCEPT ![r] = 0]
      /\ A.phase = [N.phase EXCEPT ![r] = "prefill_done"]
  BY <1>1 DEF MarkPrefillDone, NodeValue
<1>3. A \in NodeValue
  BY <1>1 DEF MarkPrefillDone, NodeValue, Phases
<1> HIDE DEF A
<1>4. Running(A) = Running(N) /\ Waiting(A) = Waiting(N) /\ Prefilling(A) = Prefilling(N)
  BY <1>2 DEF Running, Waiting, Prefilling
<1>5. HasRoom(A) <=> HasRoom(N)
  BY <1>2 DEF HasRoom
<1>6. \A q \in Requests : q # r => A.phase[q] = N.phase[q] /\ A.uncached[q] = N.uncached[q]
  BY <1>1, <1>2
<1>7. WellFormed(A)
  BY <1>2, <1>3, <1>4, <1>5, <1>6 DEF WellFormed
<1> QED
  BY <1>2, <1>7 DEF A, SameSlots

(* init_promoted starts the counters of a request that has just got a slot.  *)
LEMMA InitPromotedFacts ==
  ASSUME NEW N, WellFormed(N), NEW r \in Running(N), N.tokens[r] = 0, NEW u \in Nat
  PROVE  /\ WellFormed(InitPromoted(N, r, u))
         /\ SameSlots(N, InitPromoted(N, r, u))
         /\ InitPromoted(N, r, u).decoding = N.decoding
         /\ InitPromoted(N, r, u).prefill = N.prefill
         /\ InitPromoted(N, r, u).inFlight = N.inFlight
         /\ InitPromoted(N, r, u).tokens = N.tokens
<1> DEFINE A == InitPromoted(N, r, u)
<1>1. /\ r \in Requests /\ N.uncached \in [Requests -> Nat] /\ N.tokens \in [Requests -> Nat]
      /\ N.phase \in [Requests -> Phases] /\ N \in NodeValue
  BY NodeTypes DEF WellFormed
<1>2. /\ A.running = N.running /\ A.queue = N.queue /\ A.prefill = N.prefill
      /\ A.tokens = [N.tokens EXCEPT ![r] = 0]
      /\ A.inFlight = N.inFlight /\ A.decoding = N.decoding
      /\ A.uncached = [N.uncached EXCEPT ![r] = u]
      /\ A.phase = [N.phase EXCEPT ![r] = "admitted"]
  BY <1>1 DEF InitPromoted, NodeValue
<1>3. A \in NodeValue
  BY <1>1 DEF InitPromoted, NodeValue, Phases
<1> HIDE DEF A
<1>4. Running(A) = Running(N) /\ Waiting(A) = Waiting(N) /\ Prefilling(A) = Prefilling(N)
  BY <1>2 DEF Running, Waiting, Prefilling
<1>5. HasRoom(A) <=> HasRoom(N)
  BY <1>2 DEF HasRoom
<1>6. \A q \in Requests : q # r => A.phase[q] = N.phase[q] /\ A.uncached[q] = N.uncached[q]
  BY <1>1, <1>2
<1>8. A.tokens = N.tokens
  BY <1>1, <1>2
<1>7. WellFormed(A)
  BY <1>2, <1>3, <1>4, <1>5, <1>6, <1>8 DEF WellFormed
<1> QED
  BY <1>2, <1>7, <1>8 DEF A, SameSlots

(* complete forgets a request whose work on the node is over and gives its   *)
(* slot to the head of the queue.                                            *)
LEMMA CompleteFacts ==
  ASSUME NEW N, WellFormed(N), NEW r \in Running(N), r \notin Prefilling(N) \cup N.decoding
  PROVE  /\ WellFormed(Complete(N, r))
         /\ Complete(N, r).decoding = N.decoding
         /\ Complete(N, r).prefill = N.prefill
         /\ Complete(N, r).inFlight = N.inFlight
         /\ Complete(N, r).tokens = [N.tokens EXCEPT ![r] = 0]
         /\ N.queue = <<>> => /\ Running(Complete(N, r)) = Running(N) \ {r}
                              /\ Complete(N, r).queue = <<>>
                              /\ Len(Complete(N, r).running) = Len(N.running) - 1
         /\ N.queue # <<>> => /\ Head(N.queue) \in Waiting(N)
                              /\ Running(Complete(N, r)) = (Running(N) \ {r}) \cup {Head(N.queue)}
                              /\ Complete(N, r).queue = Tail(N.queue)
                              /\ Waiting(Complete(N, r)) = Waiting(N) \ {Head(N.queue)}
                              /\ Len(Complete(N, r).running) = Len(N.running)
<1> DEFINE A == Complete(N, r)
           rest == RemoveFirst(N.running, r)
           h == Head(N.queue)
<1>1. /\ N.running \in Seq(Requests) /\ N.queue \in Seq(Requests) /\ r \in Requests
      /\ N.decoding \in SUBSET Requests /\ N.prefill \in Seq(PrefillEntry)
      /\ N.tokens \in [Requests -> Nat] /\ N.inFlight \in BOOLEAN
      /\ N.phase \in [Requests -> Phases] /\ N.uncached \in [Requests -> Nat]
      /\ Len(N.running) \in Nat /\ NodeCapacity \in Nat \ {0}
  BY NodeTypes
<1>2. N \in NodeValue /\ IsInjective(N.running) /\ IsInjective(N.queue)
      /\ Len(N.running) <= NodeCapacity /\ Running(N) \cap Waiting(N) = {}
  BY DEF WellFormed
<1>3. RemoveFirstMatch(N.prefill, LAMBDA e : e.req = r) = N.prefill
  <2>1. ~ \E i \in 1..Len(N.prefill) : N.prefill[i].req = r
    BY <1>1 DEF Prefilling
  <2> QED
    BY <2>1 DEF RemoveFirstMatch
<1>4. N.decoding \ {r} = N.decoding
  OBVIOUS
<1>5. /\ rest \in Seq(Requests) /\ Len(rest) = Len(N.running) - 1
      /\ ToSet(rest) = Running(N) \ {r} /\ IsInjective(rest)
  BY <1>1, <1>2, RemoveFirstSet DEF Running
<1>6. "none" \in Phases /\ "admitted" \in Phases
  BY DEF Phases
<1>7. CASE N.queue = <<>>
  <2>1. /\ A.running = rest /\ A.queue = N.queue
        /\ A.decoding = N.decoding /\ A.prefill = N.prefill /\ A.inFlight = N.inFlight
        /\ A.tokens = [N.tokens EXCEPT ![r] = 0]
        /\ A.phase = [N.phase EXCEPT ![r] = "none"]
        /\ A.uncached = [N.uncached EXCEPT ![r] = 0]
    BY <1>2, <1>3, <1>4, <1>7 DEF Complete, NodeValue
  <2>2. A = [N EXCEPT !.running = rest, !.tokens = [N.tokens EXCEPT ![r] = 0],
                      !.phase = [N.phase EXCEPT ![r] = "none"],
                      !.uncached = [N.uncached EXCEPT ![r] = 0],
                      !.decoding = N.decoding, !.prefill = N.prefill]
    BY <1>2, <1>3, <1>4, <1>7 DEF Complete, NodeValue
  <2> HIDE DEF A, rest
  <2>3. A \in NodeValue
    BY <1>1, <1>2, <1>5, <1>6, <2>2 DEF NodeValue
  <2>4. Running(A) = Running(N) \ {r} /\ Waiting(A) = Waiting(N)
        /\ Prefilling(A) = Prefilling(N)
    BY <1>5, <2>1 DEF Running, Waiting, Prefilling
  <2>5. WellFormed(A)
    <3>1. Len(A.running) <= NodeCapacity
      BY <1>1, <1>2, <1>5, <2>1
    <3>2. \A q \in Requests \ Running(A) : A.tokens[q] = 0
      BY <1>1, <2>1, <2>4 DEF WellFormed
    <3>3. \A q \in Requests \ (Running(A) \cup Waiting(A)) :
            A.phase[q] = "none" /\ A.uncached[q] = 0
      BY <1>1, <2>1, <2>4 DEF WellFormed
    <3>4. Running(A) \cap Waiting(A) = {}
      BY <1>2, <2>4
    <3>5. /\ Prefilling(A) \subseteq Running(A) /\ A.decoding \subseteq Running(A)
          /\ Prefilling(A) \cap A.decoding = {}
      BY <2>1, <2>4 DEF WellFormed
    <3> QED
      BY <1>5, <1>7, <2>1, <2>3, <3>1, <3>2, <3>3, <3>4, <3>5 DEF WellFormed
  <2> QED
    BY <1>5, <1>7, <2>1, <2>4, <2>5 DEF A
<1>8. CASE N.queue # <<>>
  <2>1. /\ Tail(N.queue) \in Seq(Requests) /\ h \in Requests /\ h \in Waiting(N)
        /\ ToSet(Tail(N.queue)) = Waiting(N) \ {h} /\ IsInjective(Tail(N.queue))
    BY <1>1, <1>2, <1>8, TailSet DEF Waiting
  <2>2. /\ Append(rest, h) \in Seq(Requests) /\ Len(Append(rest, h)) = Len(N.running)
        /\ ToSet(Append(rest, h)) = (Running(N) \ {r}) \cup {h}
        /\ IsInjective(Append(rest, h))
    <3>1. h \notin ToSet(rest)
      BY <1>2, <1>5, <2>1
    <3> HIDE DEF rest, h
    <3>2. /\ Append(rest, h) \in Seq(Requests) /\ Len(Append(rest, h)) = Len(rest) + 1
          /\ ToSet(Append(rest, h)) = ToSet(rest) \cup {h}
          /\ IsInjective(Append(rest, h))
      BY <1>5, <2>1, <3>1, AppendSet
    <3> QED
      BY <1>1, <1>5, <3>2
  <2>3. /\ A.running = Append(rest, h) /\ A.queue = Tail(N.queue)
        /\ A.decoding = N.decoding /\ A.prefill = N.prefill /\ A.inFlight = N.inFlight
        /\ A.tokens = [N.tokens EXCEPT ![r] = 0]
        /\ A.phase = [N.phase EXCEPT ![r] = "none", ![h] = "admitted"]
        /\ A.uncached = [N.uncached EXCEPT ![r] = 0]
    BY <1>2, <1>3, <1>4, <1>8 DEF Complete, NodeValue
  <2>4. A = [N EXCEPT !.running = Append(rest, h), !.queue = Tail(N.queue),
                      !.tokens = [N.tokens EXCEPT ![r] = 0],
                      !.phase = [N.phase EXCEPT ![r] = "none", ![h] = "admitted"],
                      !.uncached = [N.uncached EXCEPT ![r] = 0],
                      !.decoding = N.decoding, !.prefill = N.prefill]
    BY <1>2, <1>3, <1>4, <1>8, ZenonT(40) DEF Complete, NodeValue
  <2> HIDE DEF A, rest, h
  <2>5. A \in NodeValue
    BY <1>1, <1>2, <1>6, <2>1, <2>2, <2>4 DEF NodeValue
  <2>6. Running(A) = (Running(N) \ {r}) \cup {h} /\ Waiting(A) = Waiting(N) \ {h}
        /\ Prefilling(A) = Prefilling(N)
    BY <2>1, <2>2, <2>3 DEF Running, Waiting, Prefilling
  <2>7. WellFormed(A)
    <3>1. Len(A.running) <= NodeCapacity /\ ~HasRoom(A)
      BY <1>1, <1>2, <1>8, <2>2, <2>3 DEF WellFormed, HasRoom
    <3>2. \A q \in Requests \ Running(A) : A.tokens[q] = 0
      BY <1>1, <2>3, <2>6 DEF WellFormed
    <3>3. \A q \in Requests \ (Running(A) \cup Waiting(A)) :
            A.phase[q] = "none" /\ A.uncached[q] = 0
      <4>1. \A q \in Requests : q # h =>
              A.phase[q] = (IF q = r THEN "none" ELSE N.phase[q])
        BY <1>1, <2>1, <2>3
      <4> QED
        BY <1>1, <2>3, <2>6, <4>1 DEF WellFormed
    <3>4. Running(A) \cap Waiting(A) = {}
      BY <1>2, <2>6
    <3>5. /\ Prefilling(A) \subseteq Running(A) /\ A.decoding \subseteq Running(A)
          /\ Prefilling(A) \cap A.decoding = {}
      BY <2>3, <2>6 DEF WellFormed
    <3> QED
      BY <2>1, <2>2, <2>3, <2>5, <3>1, <3>2, <3>3, <3>4, <3>5 DEF WellFormed
  <2> QED
    BY <1>8, <2>1, <2>2, <2>3, <2>6, <2>7 DEF A, h
<1> QED
  BY <1>7, <1>8

(* tick_batch_step takes the finished streams and the finished prefill off   *)
(* the node's lists, counts one token for every stream and leaves slots and  *)
(* queue alone.                                                              *)
LEMMA TickFacts ==
  ASSUME NEW N, WellFormed(N)
  PROVE  /\ WellFormed(TickBatchStep(N))
         /\ SameSlots(N, TickBatchStep(N))
         /\ TickBatchStep(N).decoding = N.decoding \ DecodeFinished(N)
         /\ Prefilling(TickBatchStep(N)) = Prefilling(N) \ PrefillFinished(N)
         /\ PrefillFinished(N) \subseteq Prefilling(N)
         /\ TickBatchStep(N).inFlight = N.inFlight
         /\ TickBatchStep(N).tokens =
              [r \in Requests |-> IF r \in N.decoding THEN N.tokens[r] + 1 ELSE N.tokens[r]]
<1> DEFINE toks == [r \in Requests |-> IF r \in N.decoding THEN N.tokens[r] + 1 ELSE N.tokens[r]]
           ticked == [N EXCEPT !.tokens = toks, !.decoding = N.decoding \ DecodeFinished(N)]
           left == Head(N.prefill).left - Chunk(N)
           first == Head(N.prefill).req
           A == TickBatchStep(N)
<1>1. /\ N.running \in Seq(Requests) /\ N.queue \in Seq(Requests)
      /\ N.decoding \in SUBSET Requests /\ N.prefill \in Seq(PrefillEntry)
      /\ N.tokens \in [Requests -> Nat] /\ N.inFlight \in BOOLEAN
      /\ N.phase \in [Requests -> Phases] /\ N.uncached \in [Requests -> Nat]
      /\ Running(N) \subseteq Requests
  BY NodeTypes
<1>2. N \in NodeValue /\ N.decoding \subseteq Running(N)
  BY DEF WellFormed
<1>3. toks \in [Requests -> Nat]
  BY <1>1
<1> HIDE DEF toks
<1>4. /\ ticked \in NodeValue
      /\ ticked.running = N.running /\ ticked.queue = N.queue /\ ticked.prefill = N.prefill
      /\ ticked.inFlight = N.inFlight /\ ticked.phase = N.phase
      /\ ticked.uncached = N.uncached /\ ticked.tokens = toks
      /\ ticked.decoding = N.decoding \ DecodeFinished(N)
  BY <1>1, <1>2, <1>3 DEF NodeValue
<1>5. /\ N.prefill = <<>> => A = ticked
      /\ N.prefill # <<>> /\ left = 0 =>
           A = MarkPrefillDone([ticked EXCEPT !.prefill = Tail(N.prefill)], first)
      /\ N.prefill # <<>> /\ left # 0 => A = [ticked EXCEPT !.prefill[1].left = left]
  <2>2. A = IF N.prefill = <<>> THEN ticked
            ELSE IF left = 0
                 THEN MarkPrefillDone([ticked EXCEPT !.prefill = Tail(@)], first)
            ELSE [ticked EXCEPT !.prefill[1].left = left]
    BY Zenon DEF TickBatchStep, toks
  <2> HIDE DEF ticked, A, left, first
  <2> QED
    BY <1>4, <2>2
<1>6. N.prefill # <<>> =>
        /\ first \in Prefilling(N) /\ first \in Running(N)
        /\ Head(N.prefill) = N.prefill[1] /\ Head(N.prefill).left \in Nat \ {0}
        /\ left \in Nat
        /\ left = 0 <=> PrefillFinished(N) = {first}
        /\ left # 0 <=> PrefillFinished(N) = {}
  <2> SUFFICES ASSUME N.prefill # <<>>
               PROVE  /\ first \in Prefilling(N) /\ first \in Running(N)
                      /\ Head(N.prefill) = N.prefill[1] /\ Head(N.prefill).left \in Nat \ {0}
                      /\ left \in Nat
                      /\ left = 0 <=> PrefillFinished(N) = {first}
                      /\ left # 0 <=> PrefillFinished(N) = {}
    OBVIOUS
  <2>1. 1 \in DOMAIN N.prefill /\ Head(N.prefill) = N.prefill[1] /\ N.prefill[1] \in PrefillEntry
    BY <1>1
  <2>2. first \in Prefilling(N)
    BY <2>1 DEF Prefilling
  <2>3. first \in Running(N)
    BY <2>2 DEF WellFormed
  <2>4. Head(N.prefill).left \in Nat \ {0}
    BY <2>1 DEF PrefillEntry
  <2>5. ChunkSize \in Nat \ {0}
    BY NodeAssumption
  <2> DEFINE l == Head(N.prefill).left
  <2>6. CASE Head(N.prefill).left <= ChunkSize
    <3>1. left = 0
      <4>1. Chunk(N) = IF l < ChunkSize THEN l ELSE ChunkSize
        BY Zenon DEF Chunk
      <4> HIDE DEF l
      <4>2. Chunk(N) = l /\ l - l = 0
        BY <2>4, <2>5, <2>6, <4>1 DEF l
      <4> QED
        BY <4>2 DEF l
    <3>2. PrefillFinished(N) = {first}
      BY <2>6 DEF PrefillFinished
    <3>3. left \in Nat /\ {first} # {}
      BY <3>1
    <3> HIDE DEF left, first
    <3> QED
      BY <2>1, <2>2, <2>3, <2>4, <3>1, <3>2, <3>3
  <2>7. CASE ~(Head(N.prefill).left <= ChunkSize)
    <3>1. left \in Nat /\ left # 0
      <4>1. Chunk(N) = IF l < ChunkSize THEN l ELSE ChunkSize
        BY Zenon DEF Chunk
      <4>2. l \in Nat /\ ChunkSize \in Nat /\ ~(l <= ChunkSize)
        BY <2>4, <2>5, <2>7
      <4> HIDE DEF l
      <4>3. Chunk(N) = ChunkSize /\ l - ChunkSize \in Nat /\ l - ChunkSize # 0
        BY <4>1, <4>2
      <4> QED
        BY <4>3 DEF l
    <3>2. PrefillFinished(N) = {}
      BY <2>7 DEF PrefillFinished
    <3> QED
      BY <2>1, <2>2, <2>3, <2>4, <3>1, <3>2
  <2> QED
    BY <2>6, <2>7
<1>7. /\ A \in NodeValue
      /\ A.running = N.running /\ A.queue = N.queue /\ A.inFlight = N.inFlight
      /\ A.tokens = toks /\ A.decoding = N.decoding \ DecodeFinished(N)
      /\ Prefilling(A) = Prefilling(N) \ PrefillFinished(N)
      /\ \A i, j \in DOMAIN A.prefill : A.prefill[i].req = A.prefill[j].req => i = j
      /\ \A r \in Requests \ Running(N) :
           A.phase[r] = N.phase[r] /\ A.uncached[r] = N.uncached[r]
  <2>1. CASE N.prefill = <<>>
    <3>1. A = ticked
      BY <1>5, <2>1
    <3>2. PrefillFinished(N) = {}
      BY <2>1 DEF PrefillFinished
    <3> HIDE DEF A, ticked
    <3>3. Prefilling(A) = Prefilling(N)
      BY <1>4, <3>1 DEF Prefilling
    <3> QED
      BY <1>4, <3>1, <3>2, <3>3 DEF WellFormed
  <2>2. CASE N.prefill # <<>> /\ left = 0
    <3> DEFINE T == [ticked EXCEPT !.prefill = Tail(N.prefill)]
    <3>1. Tail(N.prefill) \in Seq(PrefillEntry)
      BY <1>1, <2>2
    <3>2. /\ A = MarkPrefillDone(T, first)
          /\ first \in Running(N) /\ first \in Requests /\ PrefillFinished(N) = {first}
      BY <1>1, <1>5, <1>6, <2>2
    <3> HIDE DEF ticked, A, left
    <3>3. /\ T \in NodeValue
          /\ T.running = N.running /\ T.queue = N.queue /\ T.inFlight = N.inFlight
          /\ T.tokens = toks /\ T.decoding = N.decoding \ DecodeFinished(N)
          /\ T.prefill = Tail(N.prefill) /\ T.phase = N.phase /\ T.uncached = N.uncached
      BY <1>4, <3>1 DEF NodeValue
    <3> HIDE DEF T
    <3>4. /\ A \in NodeValue
          /\ A.running = N.running /\ A.queue = N.queue /\ A.inFlight = N.inFlight
          /\ A.tokens = toks /\ A.decoding = N.decoding \ DecodeFinished(N)
          /\ A.prefill = Tail(N.prefill)
          /\ A.phase = [N.phase EXCEPT ![first] = "prefill_done"]
          /\ A.uncached = [N.uncached EXCEPT ![first] = 0]
      BY <3>2, <3>3 DEF MarkPrefillDone, NodeValue, Phases
    <3> DEFINE p == N.prefill
               t == Tail(N.prefill)
    <3>5. /\ DOMAIN t = 1..Len(p) - 1 /\ DOMAIN p = 1..Len(p) /\ Len(p) \in Nat \ {0}
          /\ \A i \in 1..Len(p) - 1 : t[i] = p[i + 1]
      BY <1>1, <2>2
    <3>6. \A i \in DOMAIN t : i + 1 \in DOMAIN p /\ i + 1 # 1 /\ t[i] = p[i + 1]
      BY <3>5
    <3>7. \A i \in DOMAIN p : i # 1 => i - 1 \in DOMAIN t /\ t[i - 1] = p[i]
      BY <3>5
    <3>8. \A i, j \in DOMAIN p : p[i].req = p[j].req => i = j
      BY DEF WellFormed
    <3>9. 1 \in DOMAIN p /\ p[1].req = first
      BY <1>1, <3>5
    <3>10. Prefilling(A) = {t[i].req : i \in DOMAIN t} /\ Prefilling(N) = {p[i].req : i \in DOMAIN p}
      BY <3>4 DEF Prefilling
    <3> HIDE DEF p, t, first
    <3>11. ASSUME NEW x \in Prefilling(A)
           PROVE  x \in Prefilling(N) \ {first}
      <4>1. PICK i \in DOMAIN t : x = t[i].req
        BY <3>10
      <4>2. i + 1 \in DOMAIN p /\ i + 1 # 1 /\ x = p[i + 1].req
        BY <3>6, <4>1
      <4> QED
        BY <3>8, <3>9, <3>10, <4>2
    <3>12. ASSUME NEW x \in Prefilling(N) \ {first}
           PROVE  x \in Prefilling(A)
      <4>1. PICK i \in DOMAIN p : x = p[i].req
        BY <3>10
      <4>2. i # 1
        BY <3>9, <3>12, <4>1
      <4> QED
        BY <3>7, <3>10, <4>1, <4>2
    <3>13. ASSUME NEW i \in DOMAIN t, NEW j \in DOMAIN t, t[i].req = t[j].req
           PROVE  i = j
      <4>1. i + 1 = j + 1
        BY <3>6, <3>8, <3>13
      <4> QED
        BY <3>5, <4>1
    <3>14. \A r \in Requests \ Running(N) :
             A.phase[r] = N.phase[r] /\ A.uncached[r] = N.uncached[r]
      BY <1>1, <3>2, <3>4
    <3> QED
      BY <3>2, <3>4, <3>11, <3>12, <3>13, <3>14 DEF t
  <2>3. CASE N.prefill # <<>> /\ left # 0
    <3> DEFINE e == [N.prefill[1] EXCEPT !.left = left]
               t == [N.prefill EXCEPT ![1] = e]
    <3>1. N.prefill[1] \in PrefillEntry /\ 1 \in DOMAIN N.prefill
      BY <1>1, <2>3
    <3>2. PrefillFinished(N) = {} /\ left \in Nat /\ left # 0
      BY <1>6, <2>3
    <3>3. A = [ticked EXCEPT !.prefill = t]
      <4>1. A = [ticked EXCEPT !.prefill[1].left = left]
        BY <1>5, <2>3
      <4> HIDE DEF A, left
      <4> QED
        BY <1>4, <4>1 DEF NodeValue
    <3> HIDE DEF ticked, A, left
    <3>4. e \in PrefillEntry /\ e.req = N.prefill[1].req
      BY <3>1, <3>2 DEF PrefillEntry
    <3> HIDE DEF e
    <3>5. /\ t \in Seq(PrefillEntry) /\ DOMAIN t = DOMAIN N.prefill
          /\ \A i \in DOMAIN N.prefill : t[i] = IF i = 1 THEN e ELSE N.prefill[i]
      BY <1>1, <3>1, <3>4
    <3> HIDE DEF t
    <3>6. /\ A \in NodeValue
          /\ A.running = N.running /\ A.queue = N.queue /\ A.inFlight = N.inFlight
          /\ A.tokens = toks /\ A.decoding = N.decoding \ DecodeFinished(N)
          /\ A.prefill = t /\ A.phase = N.phase /\ A.uncached = N.uncached
      BY <1>4, <3>3, <3>5 DEF NodeValue
    <3>7. \A i \in DOMAIN N.prefill : t[i].req = N.prefill[i].req
      BY <3>4, <3>5
    <3>8. Prefilling(A) = Prefilling(N)
      BY <3>5, <3>6, <3>7 DEF Prefilling
    <3>9. \A i, j \in DOMAIN t : t[i].req = t[j].req => i = j
      BY <3>5, <3>7 DEF WellFormed
    <3> QED
      BY <3>2, <3>6, <3>8, <3>9
  <2> QED
    BY <2>1, <2>2, <2>3
<1>8. PrefillFinished(N) \subseteq Prefilling(N)
  <2>1. CASE N.prefill = <<>>
    BY <2>1 DEF PrefillFinished
  <2>2. CASE N.prefill # <<>>
    BY <1>6, <2>2
  <2> QED
    BY <2>1, <2>2
<1> HIDE DEF A, ticked, left, first
<1>9. WellFormed(A)
  <2>1. Running(A) = Running(N) /\ Waiting(A) = Waiting(N) /\ (HasRoom(A) <=> HasRoom(N))
    BY <1>7 DEF Running, Waiting, HasRoom
  <2>2. \A q \in Requests \ Running(A) : A.tokens[q] = 0
    BY <1>1, <1>2, <1>7, <2>1 DEF WellFormed, toks
  <2> QED
    BY <1>7, <2>1, <2>2 DEF WellFormed
<1> QED
  BY <1>7, <1>8, <1>9 DEF A, SameSlots, toks

-----------------------------------------------------------------------------
(* The invariant.                                                            *)

Types == {"REQUEST_ARRIVE", "REQUEST_REJECTED", "SCHEDULED", "PREFILL_START",
          "PREFILL_COMPLETE", "KV_TRANSFER_START", "KV_TRANSFER_COMPLETE",
          "DECODE_BATCH_STEP", "TOKEN_GENERATED", "DECODE_COMPLETE"}

Event ==
  [time : Nat, type : Types, req : Nat, node : Nodes \cup {"none"}, step : Nat]

Queued == ToSet(events)
HasIn(S, r, type) == \E e \in S : e.req = r /\ e.type = type
Has(r, type) == HasIn(Queued, r, type)
StepIn(S, n) == \E e \in S : e.type = "DECODE_BATCH_STEP" /\ e.node = n

(* The way of a request through the cluster, one position per kind of event  *)
(* or list that can hold it.                                                 *)
Positions == {"absent", "announced", "refused", "waiting", "starting", "prefilling",
              "prefilled", "transfer", "decoding", "decoded"}
Outside == {"absent", "announced", "refused"}

(* The nodes agree that r is at position k.                                  *)
Placed(r, k) ==
  \A n \in Nodes :
    /\ r \in Waiting(nodes[n]) <=> k = "waiting" /\ n = decisions[r].prefill
    /\ r \in Running(nodes[n]) <=>
         \/ k \in {"starting", "prefilling", "prefilled"} /\ n = decisions[r].prefill
         \/ k \in {"decoding", "decoded"} /\ n = decisions[r].decode
    /\ r \in Prefilling(nodes[n]) <=> k = "prefilling" /\ n = decisions[r].prefill
    /\ r \in nodes[n].decoding <=> k = "decoding" /\ n = decisions[r].decode

(* The queued events agree that r is at position k.                          *)
Carried(r, k) ==
  /\ Has(r, "REQUEST_ARRIVE") <=> k = "announced"
  /\ Has(r, "REQUEST_REJECTED") <=> k = "refused"
  /\ Has(r, "PREFILL_START") <=> k = "starting"
  /\ Has(r, "PREFILL_COMPLETE") <=> k = "prefilled"
  /\ Has(r, "KV_TRANSFER_COMPLETE") <=> k = "transfer"
  /\ Has(r, "DECODE_COMPLETE") <=> k = "decoded"

(* The cluster's own tables agree that r is at position k.                   *)
Booked(r, k) ==
  /\ r \in Decided <=> k \notin Outside
  /\ r \in pending <=> k = "transfer"
  /\ r \in tables => k \in {"decoding", "decoded"}

At(r, k) == Placed(r, k) /\ Carried(r, k) /\ Booked(r, k)

(* Two events that are never queued together: they carry the same request or *)
(* are steps of the same node.                                               *)
Clash ==
  {c \in Event \X Event :
     \/ c[1].req = c[2].req /\ c[1].type \in Carriers /\ c[2].type \in Carriers
     \/ /\ c[1].type = "DECODE_BATCH_STEP" /\ c[2].type = "DECODE_BATCH_STEP"
        /\ c[1].node = c[2].node}

(* The state has its types, and the queue is in order of time.               *)
Typed ==
  /\ now \in Nat
  /\ events \in Seq(Event) /\ InTimeOrder(events) /\ \A e \in Queued : e.time >= now
  /\ DOMAIN nodes = Nodes /\ \A n \in Nodes : WellFormed(nodes[n])
  /\ DOMAIN decisions = Requests
  /\ \A r \in Decided : decisions[r].prefill \in PrefillNodes /\ decisions[r].decode \in DecodeNodes
  /\ pending \subseteq Requests /\ tables \subseteq Requests
  /\ egressAvailableAt \in [Nodes -> Nat] /\ ingressAvailableAt \in [Nodes -> Nat]

(* An event names a request or node of the cluster, and the node it names is *)
(* the one of the decision.                                                  *)
Fits(e) ==
  /\ e.type # "DECODE_BATCH_STEP" => e.req \in Requests
  /\ e.type = "DECODE_BATCH_STEP" => e.node \in Nodes
  /\ e.type \in {"PREFILL_START", "PREFILL_COMPLETE"} => e.node = decisions[e.req].prefill
  /\ e.type = "DECODE_COMPLETE" => e.node = decisions[e.req].decode

(* A node has a step queued, and its flag up, when and only when it has      *)
(* work.                                                                     *)
Awake(n) ==
  /\ nodes[n].inFlight <=> HasWork(nodes[n])
  /\ StepIn(Queued, n) <=> HasWork(nodes[n])

(* The requests behind the next arrival have not been seen.                  *)
Ahead ==
  \A e \in Queued : e.type = "REQUEST_ARRIVE" =>
    \A r \in Requests : r > e.req => At(r, "absent")

(* The inductive invariant.                                                  *)
Inv ==
  /\ Typed
  /\ Apart(events, Clash)
  /\ \A e \in Queued : Fits(e)
  /\ Ahead
  /\ \A r \in Requests : \E k \in Positions : At(r, k)
  /\ \A n \in Nodes : Awake(n)

-----------------------------------------------------------------------------
(* What the handlers schedule.                                               *)

(* The head of the queue and the events behind it.                           *)
Rest == ToSet(Tail(events))

(* No event behind the head clashes with e.                                  *)
Free(e) == \A f \in Rest : <<e, f>> \notin Clash

(* The constants.                                                            *)
LEMMA Constants ==
  /\ PrefillNodes \subseteq Nodes /\ DecodeNodes \subseteq Nodes
  /\ \A n \in Nodes : n \in PrefillNodes \/ n \in DecodeNodes
  /\ \A p \in PrefillNodes, d \in DecodeNodes : p # d
  /\ "none" \notin Nodes
  /\ Uncached \subseteq Nat /\ Gaps \subseteq Nat /\ TransferCost \in Nat
  /\ IsFiniteSet(Requests) /\ Requests \subseteq Nat /\ 0 \notin Requests /\ 1 \in Requests
  /\ Cardinality(Requests) \in Nat
<1>1. IsFiniteSet(Requests) /\ Requests # {} /\ Requests = 1..Cardinality(Requests)
  BY ServingAssumption
<1> DEFINE c == Cardinality(Requests)
<1>2. c \in Nat
  BY <1>1, FS_CardinalityType
<1> HIDE DEF c
<1>3. 1..c # {} => 0 \notin 1..c /\ 1 \in 1..c /\ 1..c \subseteq Nat
  BY <1>2
<1>4. Requests \subseteq Nat /\ 0 \notin Requests /\ 1 \in Requests
  <2>1. Requests = 1..c /\ Requests # {}
    BY <1>1 DEF c
  <2> QED
    BY <1>3, <2>1
<1> QED
  BY <1>1, <1>2, <1>4, ServingAssumption DEF c

(* Events have the type of events, and their fields.                         *)
LEMMA EventFacts ==
  /\ Timed(Event)
  /\ \A t \in Nat, type \in Types, r \in Nat, n \in Nodes \cup {"none"} :
       /\ Ev(t, type, r, n) \in Event
       /\ Ev(t, type, r, n).time = t /\ Ev(t, type, r, n).type = type
       /\ Ev(t, type, r, n).req = r /\ Ev(t, type, r, n).node = n
  /\ \A t \in Nat, r \in Nat, s \in Nat :
       /\ Token(t, r, s) \in Event
       /\ Token(t, r, s).time = t /\ Token(t, r, s).type = "TOKEN_GENERATED"
       /\ Token(t, r, s).req = r /\ Token(t, r, s).step = s
BY DEF Timed, Event, Ev, Token, Types

(* When two events clash.                                                    *)
LEMMA ClashFacts ==
  ASSUME NEW e \in Event, NEW f \in Event
  PROVE  <<e, f>> \in Clash <=>
           \/ e.req = f.req /\ e.type \in Carriers /\ f.type \in Carriers
           \/ /\ e.type = "DECODE_BATCH_STEP" /\ f.type = "DECODE_BATCH_STEP"
              /\ e.node = f.node
BY DEF Clash

(* A handler takes the head off the queue and puts its events in.            *)
LEMMA QueueStep ==
  ASSUME Typed, NEW type, Pop(type), NEW es \in Seq(Event), Handle(es),
         \A e \in ToSet(es) : e.time >= now'
  PROVE  /\ Head(events) \in Event /\ Head(events) \in Queued /\ Head(events).type = type
         /\ now' = Head(events).time /\ now' \in Nat /\ now <= now'
         /\ Rest \subseteq Event /\ Queued = {Head(events)} \cup Rest
         /\ Queued' = Rest \cup ToSet(es) /\ ToSet(es) \subseteq Event
         /\ events' \in Seq(Event) /\ InTimeOrder(events')
         /\ \A e \in Queued' : e.time >= now'
<1> DEFINE h == Head(events)
           t == Tail(events)
<1>1. events \in Seq(Event) /\ InTimeOrder(events) /\ events # <<>> /\ now \in Nat
      /\ \A e \in Queued : e.time >= now
  BY DEF Typed, Pop
<1>2. /\ h \in Event /\ t \in Seq(Event) /\ ToSet(events) = {h} \cup ToSet(t)
      /\ InTimeOrder(t) /\ \A f \in ToSet(t) : h.time <= f.time
  BY <1>1, PopFacts
<1>3. h.type = type /\ now' = h.time /\ events' = ScheduleAll(t, es)
  BY DEF Pop, Handle
<1> HIDE DEF h, t
<1>4. /\ ScheduleAll(t, es) \in Seq(Event) /\ InTimeOrder(ScheduleAll(t, es))
      /\ ToSet(ScheduleAll(t, es)) = ToSet(t) \cup ToSet(es)
  BY <1>2, EventFacts, ScheduleAllFacts
<1>5. ToSet(t) \subseteq Event /\ ToSet(es) \subseteq Event
  BY <1>2 DEF ToSet
<1>6. h \in Queued
  BY <1>2 DEF Queued
<1>7. h.time \in Nat /\ now <= h.time
  BY <1>1, <1>2, <1>6 DEF Event
<1>8. Queued' = ToSet(t) \cup ToSet(es)
  BY <1>3, <1>4 DEF Queued
<1>9. \A e \in ToSet(t) \cup ToSet(es) : e.time >= h.time
  <2>1. \A e \in ToSet(t) : e.time \in Nat
    BY <1>5 DEF Event
  <2>2. \A e \in ToSet(t) : e.time >= h.time
    BY <1>2, <1>7, <2>1
  <2> QED
    BY <1>3, <2>2
<1> QED
  BY <1>2, <1>3, <1>4, <1>5, <1>6, <1>7, <1>8, <1>9 DEF Rest, h, t, Queued

(* The queue stays without clashes if what is scheduled does not clash with  *)
(* what stays.                                                               *)
LEMMA QueueApart ==
  ASSUME Typed, Apart(events, Clash), NEW type, Pop(type),
         NEW es \in Seq(Event), Handle(es), Apart(es, Clash), \A e \in ToSet(es) : Free(e)
  PROVE  Apart(events', Clash)
<1> DEFINE t == Tail(events)
<1>1. events \in Seq(Event) /\ InTimeOrder(events) /\ events # <<>>
  BY DEF Typed, Pop
<1>2. /\ t \in Seq(Event) /\ InTimeOrder(t) /\ Apart(t, Clash)
  BY <1>1, PopFacts
<1>3. events' = ScheduleAll(t, es)
  BY DEF Handle
<1>4. ToSet(t) \subseteq Event /\ ToSet(es) \subseteq Event
  BY <1>2 DEF ToSet
<1>5. \A f \in ToSet(t), e \in ToSet(es) : <<e, f>> \notin Clash /\ <<f, e>> \notin Clash
  <2> SUFFICES ASSUME NEW f \in ToSet(t), NEW e \in ToSet(es)
               PROVE  <<e, f>> \notin Clash /\ <<f, e>> \notin Clash
    OBVIOUS
  <2>1. <<e, f>> \notin Clash
    BY DEF Free, Rest
  <2>2. e \in Event /\ f \in Event
    BY <1>4
  <2> QED
    BY <2>1, <2>2, ClashFacts
<1> HIDE DEF t
<1> QED
  BY <1>2, <1>3, <1>5, EventFacts, ScheduleAllApart

(* Popping the carrier of a request, or the step of a node, leaves none      *)
(* behind.                                                                   *)
LEMMA HeadIsAlone ==
  ASSUME Typed, Apart(events, Clash), NEW type, Pop(type)
  PROVE  /\ type \in Carriers => \A f \in Rest : f.type \in Carriers => f.req # Req
         /\ type = "DECODE_BATCH_STEP" =>
              \A f \in Rest : f.type = "DECODE_BATCH_STEP" => f.node # Node
         /\ Head(events) \in Event /\ Rest \subseteq Event
         /\ Queued = {Head(events)} \cup Rest /\ Head(events).type = type
<1> DEFINE h == Head(events)
<1>1. events \in Seq(Event) /\ events # <<>> /\ h.type = type
  BY DEF Typed, Pop
<1>2. /\ h \in Event /\ Tail(events) \in Seq(Event) /\ Queued = {h} \cup Rest
      /\ \A f \in Rest : <<h, f>> \notin Clash
  BY <1>1, PopFacts DEF Rest, Queued
<1>3. Rest \subseteq Event
  BY <1>2 DEF Rest, ToSet
<1>4. \A f \in Rest : <<h, f>> \notin Clash /\ f \in Event
  BY <1>2, <1>3
<1> QED
  BY <1>1, <1>2, <1>4, ClashFacts DEF Req, Node

(* Which events are queued for a request, or steps for a node, afterwards.   *)
LEMMA HasAfter ==
  ASSUME Typed, Apart(events, Clash), NEW type, Pop(type), NEW S, Queued' = Rest \cup S
  PROVE  /\ \A q, c : c \in Carriers =>
              (Has(q, c)' <=> (Has(q, c) /\ ~(q = Req /\ c = type)) \/ HasIn(S, q, c))
         /\ \A n : StepIn(Queued', n) <=>
              (StepIn(Queued, n) /\ ~(type = "DECODE_BATCH_STEP" /\ n = Node)) \/ StepIn(S, n)
         /\ Has(Req, type)
<1> DEFINE h == Head(events)
<1>1. Queued = {h} \cup Rest /\ h.type = type /\ h.req = Req /\ h.node = Node
  BY HeadIsAlone DEF Req, Node
<1>2. ASSUME NEW q, NEW c, c \in Carriers
      PROVE  Has(q, c)' <=> (Has(q, c) /\ ~(q = Req /\ c = type)) \/ HasIn(S, q, c)
  <2>1. Has(q, c)' <=> HasIn(Rest, q, c) \/ HasIn(S, q, c)
    BY DEF Has, HasIn
  <2>2. HasIn(Rest, q, c) <=> Has(q, c) /\ ~(q = Req /\ c = type)
    <3>1. q = Req /\ c = type => ~HasIn(Rest, q, c)
      BY <1>2, HeadIsAlone DEF HasIn
    <3> QED
      BY <1>1, <3>1 DEF Has, HasIn
  <2> QED
    BY <2>1, <2>2
<1>3. ASSUME NEW n
      PROVE  StepIn(Queued', n) <=>
               (StepIn(Queued, n) /\ ~(type = "DECODE_BATCH_STEP" /\ n = Node)) \/ StepIn(S, n)
  <2>1. StepIn(Queued', n) <=> StepIn(Rest, n) \/ StepIn(S, n)
    BY DEF StepIn
  <2>2. StepIn(Rest, n) <=> StepIn(Queued, n) /\ ~(type = "DECODE_BATCH_STEP" /\ n = Node)
    <3>1. type = "DECODE_BATCH_STEP" /\ n = Node => ~StepIn(Rest, n)
      BY HeadIsAlone DEF StepIn
    <3> QED
      BY <1>1, <3>1 DEF StepIn
  <2> QED
    BY <2>1, <2>2
<1> QED
  BY <1>1, <1>2, <1>3 DEF Has, HasIn

(* When a new event clashes with none behind the head.                       *)
LEMMA FreeFacts ==
  ASSUME Typed, Apart(events, Clash), NEW type, Pop(type), NEW e \in Event
  PROVE  /\ e.type \in Carriers
              /\ ((e.req = Req /\ type \in Carriers) \/ \A c \in Carriers : ~Has(e.req, c))
            => Free(e)
         /\ e.type = "DECODE_BATCH_STEP"
              /\ ((e.node = Node /\ type = "DECODE_BATCH_STEP") \/ ~StepIn(Queued, e.node))
            => Free(e)
         /\ e.type \notin Carriers /\ e.type # "DECODE_BATCH_STEP" => Free(e)
<1>1. /\ type \in Carriers => \A f \in Rest : f.type \in Carriers => f.req # Req
      /\ type = "DECODE_BATCH_STEP" =>
           \A f \in Rest : f.type = "DECODE_BATCH_STEP" => f.node # Node
      /\ Rest \subseteq Event /\ Rest \subseteq Queued
  BY HeadIsAlone
<1>2. \A f \in Rest : /\ f \in Event
                      /\ f.type \in Carriers => Has(f.req, f.type)
                      /\ Has(f.req, f.type)
                      /\ f.type = "DECODE_BATCH_STEP" => StepIn(Queued, f.node)
  BY <1>1 DEF Has, HasIn, StepIn
<1> SUFFICES ASSUME NEW f \in Rest
             PROVE  /\ e.type \in Carriers
                         /\ ((e.req = Req /\ type \in Carriers) \/ \A c \in Carriers : ~Has(e.req, c))
                       => <<e, f>> \notin Clash
                    /\ e.type = "DECODE_BATCH_STEP"
                         /\ ((e.node = Node /\ type = "DECODE_BATCH_STEP") \/ ~StepIn(Queued, e.node))
                       => <<e, f>> \notin Clash
                    /\ e.type \notin Carriers /\ e.type # "DECODE_BATCH_STEP" => <<e, f>> \notin Clash
  BY DEF Free
<1>3. f \in Event /\ Has(f.req, f.type) /\ (f.type = "DECODE_BATCH_STEP" => StepIn(Queued, f.node))
  BY <1>2
<1>4. "DECODE_BATCH_STEP" \notin Carriers
  BY DEF Carriers
<1> QED
  BY <1>1, <1>3, <1>4, ClashFacts

-----------------------------------------------------------------------------
(* What the handlers do to nodes and requests.                               *)

(* _wake_batch_step changes nothing but the flag.                            *)
LEMMA WokenFacts ==
  ASSUME NEW N, WellFormed(N)
  PROVE  /\ WellFormed(Woken(N)) /\ SameSlots(N, Woken(N))
         /\ Woken(N).decoding = N.decoding /\ Woken(N).prefill = N.prefill
         /\ Woken(N).tokens = N.tokens
         /\ Woken(N).inFlight <=> N.inFlight \/ HasWork(N)
<1> DEFINE A == Woken(N)
<1>1. N \in NodeValue /\ HasWork(N) \in BOOLEAN
  BY DEF WellFormed, HasWork
<1>2. /\ A \in NodeValue
      /\ A.running = N.running /\ A.queue = N.queue /\ A.decoding = N.decoding
      /\ A.prefill = N.prefill /\ A.tokens = N.tokens
      /\ A.phase = N.phase /\ A.uncached = N.uncached
      /\ A.inFlight <=> N.inFlight \/ HasWork(N)
  BY <1>1 DEF Woken, NodeValue
<1> HIDE DEF A
<1>3. Running(A) = Running(N) /\ Waiting(A) = Waiting(N) /\ Prefilling(A) = Prefilling(N)
      /\ HasRoom(A) = HasRoom(N)
  BY <1>2 DEF Running, Waiting, Prefilling, HasRoom
<1>4. WellFormed(A)
  BY <1>2, <1>3 DEF WellFormed
<1> QED
  BY <1>2, <1>4 DEF A, SameSlots

(* The step that _wake_batch_step schedules.                                 *)
LEMMA WakeEventsFacts ==
  ASSUME NEW N, NEW n \in Nodes, NEW t \in Nat
  PROVE  /\ WakeEvents(N, n, t) \in Seq(Event) /\ Apart(WakeEvents(N, n, t), Clash)
         /\ ToSet(WakeEvents(N, n, t)) =
              IF MustWake(N) THEN {Ev(t, "DECODE_BATCH_STEP", 0, n)} ELSE {}
<1> DEFINE e == Ev(t, "DECODE_BATCH_STEP", 0, n)
<1>1. e \in Event
  BY EventFacts DEF Types
<1> HIDE DEF e
<1>2. /\ <<>> \in Seq(Event) /\ ToSet(<<>>) = {} /\ Apart(<<>>, Clash)
      /\ <<e>> \in Seq(Event) /\ ToSet(<<e>>) = {e} /\ Apart(<<e>>, Clash)
  BY <1>1, ShortLists
<1> QED
  BY <1>2 DEF WakeEvents, e

(* A request that a handler does not touch stays where it is.                *)
LEMMA Unmoved ==
  ASSUME NEW q \in Requests, NEW k, At(q, k),
         decisions'[q] = decisions[q],
         \A n \in Nodes : /\ q \in Waiting(nodes'[n]) <=> q \in Waiting(nodes[n])
                          /\ q \in Running(nodes'[n]) <=> q \in Running(nodes[n])
                          /\ q \in Prefilling(nodes'[n]) <=> q \in Prefilling(nodes[n])
                          /\ q \in nodes'[n].decoding <=> q \in nodes[n].decoding,
         q \in pending' <=> q \in pending,
         q \in tables' <=> q \in tables,
         \A c \in Carriers : Has(q, c)' <=> Has(q, c)
  PROVE  At(q, k)'
<1>1. Placed(q, k)'
  BY DEF At, Placed
<1>2. Carried(q, k)'
  <2>1. Carried(q, k)
    BY DEF At
  <2> QED
    BY <2>1 DEF Carried, Carriers
<1>3. Booked(q, k)'
  BY DEF At, Booked, Decided
<1> QED
  BY <1>1, <1>2, <1>3 DEF At

(* What a handler has to show.                                               *)
LEMMA InvStep ==
  ASSUME Inv, NEW type, Pop(type), NEW es \in Seq(Event), Handle(es), Apart(es, Clash),
         \A e \in ToSet(es) : e.time >= now' /\ Free(e) /\ Fits(e)',
         DOMAIN nodes' = Nodes, \A n \in Nodes : WellFormed(nodes'[n]),
         DOMAIN decisions' = Requests,
         \A r \in Requests : r # Req => decisions'[r] = decisions[r],
         decisions' = decisions \/ type \in Carriers,
         Req \in Decided' => /\ decisions'[Req].prefill \in PrefillNodes
                             /\ decisions'[Req].decode \in DecodeNodes,
         pending' \subseteq Requests, tables' \subseteq Requests,
         egressAvailableAt' \in [Nodes -> Nat], ingressAvailableAt' \in [Nodes -> Nat],
         Ahead', \A r \in Requests : \E k \in Positions : At(r, k)',
         \A n \in Nodes : Awake(n)'
  PROVE  Inv'
<1>1. Typed /\ Apart(events, Clash)
  BY DEF Inv
<1>2. /\ now' \in Nat /\ Queued = {Head(events)} \cup Rest /\ Queued' = Rest \cup ToSet(es)
      /\ events' \in Seq(Event) /\ InTimeOrder(events') /\ \A e \in Queued' : e.time >= now'
  BY <1>1, QueueStep
<1>3. Apart(events', Clash)
  BY <1>1, QueueApart
<1>4. \A r \in Decided' : /\ decisions'[r].prefill \in PrefillNodes
                          /\ decisions'[r].decode \in DecodeNodes
  <2>1. \A r \in Requests : r # Req /\ r \in Decided' => r \in Decided
    BY DEF Decided
  <2>2. Decided' \subseteq Requests
    BY DEF Decided
  <2>3. \A r \in Decided : decisions[r].prefill \in PrefillNodes /\ decisions[r].decode \in DecodeNodes
    BY <1>1 DEF Typed
  <2> QED
    BY <2>1, <2>2, <2>3
<1>5. Typed'
  BY <1>2, <1>4 DEF Typed
<1>6. ASSUME NEW e \in Rest
      PROVE  Fits(e)'
  <2>1. Fits(e)
    BY <1>2 DEF Inv
  <2>2. CASE decisions' = decisions
    BY <2>1, <2>2 DEF Fits
  <2>3. CASE type \in Carriers
    <3>1. e.type \in Carriers => e.req # Req
      BY <1>1, <2>3, HeadIsAlone
    <3>2. e.type \in Carriers => e.req \in Requests /\ decisions'[e.req] = decisions[e.req]
      BY <2>1, <3>1 DEF Fits, Carriers
    <3> QED
      BY <2>1, <3>2 DEF Fits, Carriers
  <2> QED
    BY <2>2, <2>3
<1>7. \A e \in Queued' : Fits(e)'
  BY <1>2, <1>6
<1> QED
  BY <1>3, <1>5, <1>7 DEF Inv

(* A handler that announces no request and touches none that is absent.      *)
LEMMA StillAhead ==
  ASSUME Inv, NEW type, Pop(type), NEW S, Queued' = Rest \cup S,
         \A e \in S : e.type # "REQUEST_ARRIVE",
         \A r \in Requests : At(r, "absent") => At(r, "absent")'
  PROVE  Ahead'
<1>1. Queued = {Head(events)} \cup Rest
  BY HeadIsAlone DEF Inv
<1>2. \A e \in Queued' : e.type = "REQUEST_ARRIVE" => e \in Queued
  BY <1>1
<1>3. Ahead
  BY DEF Inv
<1> QED
  BY <1>2, <1>3 DEF Ahead

(* A carrier at the head of the queue tells where its request is.            *)
LEMMA HeadAt ==
  ASSUME Inv, NEW type \in Carriers, Pop(type)
  PROVE  /\ Req \in Requests /\ Fits(Head(events)) /\ Head(events) \in Queued
         /\ Has(Req, type) /\ ~At(Req, "absent")
         /\ type = "REQUEST_ARRIVE" => At(Req, "announced")
         /\ type = "REQUEST_REJECTED" => At(Req, "refused")
         /\ type = "PREFILL_START" => At(Req, "starting")
         /\ type = "PREFILL_COMPLETE" => At(Req, "prefilled")
         /\ type = "KV_TRANSFER_COMPLETE" => At(Req, "transfer")
         /\ type = "DECODE_COMPLETE" => At(Req, "decoded")
<1>1. Head(events) \in Queued /\ Head(events).type = type
  BY HeadIsAlone DEF Inv
<1>2. Fits(Head(events))
  BY <1>1 DEF Inv
<1>3. Req \in Requests
  BY <1>1, <1>2 DEF Fits, Carriers, Req
<1>4. Has(Req, type)
  BY <1>1 DEF Has, HasIn, Req
<1>5. PICK k \in Positions : At(Req, k)
  BY <1>3 DEF Inv
<1>6. ~At(Req, "absent")
  BY <1>4 DEF At, Carried, Carriers
<1>7. Carried(Req, k)
  BY <1>5 DEF At
<1> QED
  BY <1>1, <1>2, <1>3, <1>4, <1>5, <1>6, <1>7 DEF Carried

(* Work on a node keeps its step.                                            *)
LEMMA StaysAwake ==
  ASSUME NEW n \in Nodes, Awake(n), WellFormed(nodes[n]), WellFormed(nodes'[n]),
         HasWork(nodes'[n]) <=> HasWork(nodes[n]),
         nodes'[n].inFlight = nodes[n].inFlight,
         StepIn(Queued', n) <=> StepIn(Queued, n)
  PROVE  Awake(n)'
BY DEF Awake

-----------------------------------------------------------------------------
(* The handlers, one lemma each.                                             *)

(* The events S put r at position k.                                         *)
Bears(S, r, k) ==
  /\ HasIn(S, r, "REQUEST_ARRIVE") <=> k = "announced"
  /\ HasIn(S, r, "REQUEST_REJECTED") <=> k = "refused"
  /\ HasIn(S, r, "PREFILL_START") <=> k = "starting"
  /\ HasIn(S, r, "PREFILL_COMPLETE") <=> k = "prefilled"
  /\ HasIn(S, r, "KV_TRANSFER_COMPLETE") <=> k = "transfer"
  /\ HasIn(S, r, "DECODE_COMPLETE") <=> k = "decoded"

(* A request without a carrier behind the head is where the new events put   *)
(* it.                                                                       *)
LEMMA CarriedAfter ==
  ASSUME Typed, Apart(events, Clash), NEW type, Pop(type), NEW S, Queued' = Rest \cup S,
         NEW q, NEW k, \A c \in Carriers : Has(q, c) => q = Req /\ c = type, Bears(S, q, k)
  PROVE  Carried(q, k)'
<1>1. \A c \in Carriers : Has(q, c)' <=> HasIn(S, q, c)
  BY HasAfter
<1> QED
  BY <1>1 DEF Carried, Bears, Carriers

(* A handler, other than that of arrivals, that moves the requests Mv.       *)
LEMMA MoveInv ==
  ASSUME Inv, NEW type \in Types \ {"REQUEST_ARRIVE"}, Pop(type),
         NEW es \in Seq(Event), Handle(es), Apart(es, Clash),
         NEW Mv \in SUBSET Requests, type \in Carriers => Req \in Mv,
         \A e \in ToSet(es) : /\ e.time >= now' /\ Free(e) /\ Fits(e)'
                              /\ e.type # "REQUEST_ARRIVE"
                              /\ e.type \in Carriers => e.req \in Mv,
         DOMAIN nodes' = Nodes, \A n \in Nodes : WellFormed(nodes'[n]),
         DOMAIN decisions' = Requests,
         \A q \in Requests : q # Req => decisions'[q] = decisions[q],
         decisions' = decisions \/ type \in Carriers,
         Req \in Decided' => /\ decisions'[Req].prefill \in PrefillNodes
                             /\ decisions'[Req].decode \in DecodeNodes,
         pending' \subseteq Requests, tables' \subseteq Requests,
         egressAvailableAt' \in [Nodes -> Nat], ingressAvailableAt' \in [Nodes -> Nat],
         \A q \in Mv : ~At(q, "absent") /\ \E k \in Positions : At(q, k)',
         \A q \in Requests \ Mv :
           /\ q \in pending' <=> q \in pending
           /\ q \in tables' <=> q \in tables
           /\ \A n \in Nodes : /\ q \in Waiting(nodes'[n]) <=> q \in Waiting(nodes[n])
                               /\ q \in Running(nodes'[n]) <=> q \in Running(nodes[n])
                               /\ q \in Prefilling(nodes'[n]) <=> q \in Prefilling(nodes[n])
                               /\ q \in nodes'[n].decoding <=> q \in nodes[n].decoding,
         \A n \in Nodes : Awake(n)'
  PROVE  Inv'
<1>1. Typed /\ Apart(events, Clash)
  BY DEF Inv
<1>2. Queued' = Rest \cup ToSet(es)
  BY <1>1, QueueStep
<1>3. \A q, c : c \in Carriers /\ q \notin Mv => ~HasIn(ToSet(es), q, c)
  BY DEF HasIn
<1>4. \A q, c : c \in Carriers /\ q \notin Mv => (Has(q, c)' <=> Has(q, c))
  <2> SUFFICES ASSUME NEW q, NEW c, c \in Carriers, q \notin Mv
               PROVE  Has(q, c)' <=> Has(q, c)
    OBVIOUS
  <2>1. ~(q = Req /\ c = type) /\ ~HasIn(ToSet(es), q, c)
    BY <1>3
  <2>2. Has(q, c)' <=> (Has(q, c) /\ ~(q = Req /\ c = type)) \/ HasIn(ToSet(es), q, c)
    BY <1>1, <1>2, HasAfter
  <2> QED
    BY <2>1, <2>2
<1>5. \A q \in Requests \ Mv : decisions'[q] = decisions[q]
  OBVIOUS
<1>6. \A q \in Requests \ Mv, k \in Positions : At(q, k) => At(q, k)'
  BY <1>4, <1>5, Unmoved
<1>7. \A q \in Requests : \E k \in Positions : At(q, k)'
  BY <1>6 DEF Inv
<1>8. \A q \in Requests : At(q, "absent") => At(q, "absent")'
  BY <1>6 DEF Positions
<1>9. Ahead'
  BY <1>2, <1>8, StillAhead
<1> QED
  BY <1>7, <1>9, InvStep

(* Events that only the collector looks at.                                  *)
LEMMA QuietInv ==
  ASSUME Inv, NEW type \in {"SCHEDULED", "KV_TRANSFER_START", "TOKEN_GENERATED"},
         Pop(type), Handle(<<>>),
         UNCHANGED <<nodes, decisions, pending, tables, egressAvailableAt, ingressAvailableAt>>
  PROVE  Inv'
<1> DEFINE es == <<>>
<1>1. es \in Seq(Event) /\ ToSet(es) = {} /\ Apart(es, Clash) /\ Handle(es)
  BY DEF ToSet, Apart
<1>2. Typed /\ Apart(events, Clash)
  BY DEF Inv
<1> HIDE DEF es
<1>3. Queued' = Rest \cup ToSet(es)
  BY <1>1, <1>2, QueueStep
<1>4. type \notin Carriers /\ type # "DECODE_BATCH_STEP" /\ type \in Types \ {"REQUEST_ARRIVE"}
  BY DEF Carriers, Types
<1>5. \A n : ~StepIn(ToSet(es), n)
  BY <1>1 DEF StepIn
<1>6. \A n : StepIn(Queued', n) <=> StepIn(Queued, n)
  BY <1>2, <1>3, <1>4, <1>5, HasAfter
<1>7. \A n \in Nodes : Awake(n)'
  BY <1>6 DEF Inv, Awake
<1>8. /\ DOMAIN nodes' = Nodes /\ \A n \in Nodes : WellFormed(nodes'[n])
      /\ DOMAIN decisions' = Requests /\ pending' \subseteq Requests /\ tables' \subseteq Requests
      /\ egressAvailableAt' \in [Nodes -> Nat] /\ ingressAvailableAt' \in [Nodes -> Nat]
      /\ Req \in Decided' => /\ decisions'[Req].prefill \in PrefillNodes
                             /\ decisions'[Req].decode \in DecodeNodes
  BY <1>2 DEF Typed, Decided
<1> DEFINE Mv == {}
<1>9. Mv \in SUBSET Requests /\ \A q : q \notin Mv
  OBVIOUS
<1> HIDE DEF Mv
<1> QED
  BY <1>1, <1>4, <1>7, <1>8, <1>9, MoveInv

(* REQUEST_REJECTED.                                                         *)
LEMMA RejectedInv ==
  ASSUME Inv, Rejected
  PROVE  Inv'
<1> DEFINE es == <<>>
           type == "REQUEST_REJECTED"
<1>1. es \in Seq(Event) /\ ToSet(es) = {} /\ Apart(es, Clash)
  BY DEF ToSet, Apart
<1>2. Typed /\ Apart(events, Clash)
  BY DEF Inv
<1>3. /\ Pop(type) /\ Handle(es) /\ type \in Carriers /\ type # "DECODE_BATCH_STEP"
      /\ type \in Types \ {"REQUEST_ARRIVE"}
      /\ UNCHANGED <<nodes, decisions, pending, tables, egressAvailableAt, ingressAvailableAt>>
  BY DEF Rejected, laneVars, Carriers, Types
<1>4. PICK r \in Requests : r = Req /\ At(r, "refused") /\ ~At(r, "absent")
  BY <1>3, HeadAt
<1> HIDE DEF es
<1>5. Queued' = Rest \cup ToSet(es)
  BY <1>1, <1>2, <1>3, QueueStep
<1>6. \A n : ~StepIn(ToSet(es), n)
  BY <1>1 DEF StepIn
<1>7. \A n : StepIn(Queued', n) <=> StepIn(Queued, n)
  BY <1>2, <1>3, <1>5, <1>6, HasAfter
<1>8. At(r, "absent")'
  <2>1. Placed(r, "absent")'
    BY <1>3, <1>4 DEF At, Placed
  <2>2. Carried(r, "absent")'
    <3>1. \A c \in Carriers : Has(r, c) => r = Req /\ c = type
      BY <1>4 DEF At, Carried, Carriers
    <3>2. Bears(ToSet(es), r, "absent")
      BY <1>1 DEF Bears, HasIn
    <3> QED
      BY <1>2, <1>3, <1>5, <3>1, <3>2, CarriedAfter
  <2>3. Booked(r, "absent")'
    BY <1>3, <1>4 DEF At, Booked, Decided, Outside
  <2> QED
    BY <2>1, <2>2, <2>3 DEF At
<1>9. \A n \in Nodes : Awake(n)'
  BY <1>3, <1>7 DEF Inv, Awake
<1>10. /\ DOMAIN nodes' = Nodes /\ \A n \in Nodes : WellFormed(nodes'[n])
       /\ DOMAIN decisions' = Requests /\ pending' \subseteq Requests /\ tables' \subseteq Requests
       /\ egressAvailableAt' \in [Nodes -> Nat] /\ ingressAvailableAt' \in [Nodes -> Nat]
       /\ Req \in Decided' => /\ decisions'[Req].prefill \in PrefillNodes
                              /\ decisions'[Req].decode \in DecodeNodes
  BY <1>2, <1>3 DEF Typed, Decided
<1> DEFINE Mv == {r}
<1>11. Mv \in SUBSET Requests /\ Req \in Mv /\ \A q \in Mv : q = r
  BY <1>4
<1>12. "absent" \in Positions
  BY DEF Positions
<1> HIDE DEF Mv, type
<1> QED
  BY <1>1, <1>3, <1>4, <1>8, <1>9, <1>10, <1>11, <1>12, MoveInv, SMTT(40)

(* The next request to arrive is the only one announced, and all behind it   *)
(* are absent.                                                               *)
LEMMA OneAnnounced ==
  ASSUME Inv, Pop("REQUEST_ARRIVE")
  PROVE  /\ \A f \in Rest : f.type # "REQUEST_ARRIVE"
         /\ \A q \in Requests : q > Req => At(q, "absent")
<1>1. Req \in Requests /\ ~At(Req, "absent") /\ Head(events) \in Queued
  BY HeadAt DEF Carriers
<1>2. /\ Head(events).type = "REQUEST_ARRIVE" /\ Head(events).req = Req
      /\ Rest \subseteq Queued /\ Rest \subseteq Event
      /\ \A f \in Rest : f.type \in Carriers => f.req # Req
  BY HeadIsAlone DEF Inv, Carriers, Req
<1>3. \A q \in Requests : q > Req => At(q, "absent")
  BY <1>1, <1>2 DEF Inv, Ahead
<1>4. ASSUME NEW f \in Rest, f.type = "REQUEST_ARRIVE"
      PROVE  FALSE
  <2>1. f \in Queued /\ f.req \in Requests /\ f.req # Req
    BY <1>2, <1>4 DEF Inv, Fits, Carriers
  <2>2. Has(f.req, "REQUEST_ARRIVE")
    BY <1>4, <2>1 DEF Has, HasIn
  <2>3. ~At(f.req, "absent")
    BY <2>2 DEF At, Carried
  <2>4. Req > f.req => At(Req, "absent")
    BY <1>1, <1>4, <2>1 DEF Inv, Ahead
  <2>5. f.req > Req \/ Req > f.req
    <3>1. f.req \in Nat /\ Req \in Nat
      BY <1>1, <2>1, Constants
    <3> QED
      BY <2>1, <3>1
  <2> QED
    BY <1>1, <1>3, <2>1, <2>3, <2>4, <2>5
<1> QED
  BY <1>3, <1>4

(* _on_arrive_chain: what goes into the queue.                               *)
LEMMA NextArrivalFacts ==
  ASSUME now' \in Nat, Req \in Requests, NEW gap \in Gaps
  PROVE  /\ NextArrival(gap) \in Seq(Event) /\ Apart(NextArrival(gap), Clash)
         /\ Req + 1 \in Requests =>
              ToSet(NextArrival(gap)) = {Ev(now' + gap, "REQUEST_ARRIVE", Req + 1, "none")}
         /\ Req + 1 \notin Requests => ToSet(NextArrival(gap)) = {}
         /\ Ev(now' + gap, "REQUEST_ARRIVE", Req + 1, "none") \in Event
         /\ now' + gap \in Nat /\ now' + gap >= now' /\ Req + 1 \in Nat
<1> DEFINE e == Ev(now' + gap, "REQUEST_ARRIVE", Req + 1, "none")
<1>1. now' + gap \in Nat /\ Req + 1 \in Nat /\ now' + gap >= now'
  <2>1. gap \in Nat /\ Req \in Nat /\ now' \in Nat
    BY Constants
  <2>2. \A x, y \in Nat : x + y \in Nat /\ x + 1 \in Nat /\ x + y >= x
    OBVIOUS
  <2> QED
    BY <2>1, <2>2
<1>2. e \in Event
  BY <1>1, EventFacts DEF Types
<1> HIDE DEF e
<1>3. /\ <<>> \in Seq(Event) /\ ToSet(<<>>) = {} /\ Apart(<<>>, Clash)
      /\ <<e>> \in Seq(Event) /\ ToSet(<<e>>) = {e} /\ Apart(<<e>>, Clash)
  BY <1>2, ShortLists
<1>4. NextArrival(gap) = IF Req + 1 \in Requests THEN <<e>> ELSE <<>>
  BY DEF NextArrival, e
<1> QED
  BY <1>1, <1>2, <1>3, <1>4 DEF e

(* Both outcomes of an arrival: r goes to position k1, the next request is   *)
(* announced.                                                                *)
LEMMA ArriveInv ==
  ASSUME Inv, Pop("REQUEST_ARRIVE"), NEW r \in Requests, r = Req,
         NEW gap \in Gaps, NEW es \in Seq(Event), Handle(es \o NextArrival(gap)),
         Apart(es, Clash),
         \A e \in ToSet(es) :
           /\ e.time >= now' /\ Free(e) /\ Fits(e)' /\ e.req = r
           /\ e.type \in {"REQUEST_REJECTED", "SCHEDULED", "PREFILL_START"},
         DOMAIN nodes' = Nodes, \A n \in Nodes : WellFormed(nodes'[n]),
         \A n \in Nodes : /\ HasWork(nodes'[n]) <=> HasWork(nodes[n])
                          /\ nodes'[n].inFlight = nodes[n].inFlight,
         DOMAIN decisions' = Requests,
         \A q \in Requests : q # r => decisions'[q] = decisions[q],
         r \in Decided' => /\ decisions'[r].prefill \in PrefillNodes
                           /\ decisions'[r].decode \in DecodeNodes,
         UNCHANGED <<pending, tables, egressAvailableAt, ingressAvailableAt>>,
         \A q \in Requests : q # r => \A n \in Nodes :
           /\ q \in Waiting(nodes'[n]) <=> q \in Waiting(nodes[n])
           /\ q \in Running(nodes'[n]) <=> q \in Running(nodes[n])
           /\ q \in Prefilling(nodes'[n]) <=> q \in Prefilling(nodes[n])
           /\ q \in nodes'[n].decoding <=> q \in nodes[n].decoding,
         NEW k1 \in Positions, Placed(r, k1)', Booked(r, k1)',
         k1 \notin {"announced", "prefilled", "transfer", "decoded"},
         k1 = "refused" <=> HasIn(ToSet(es), r, "REQUEST_REJECTED"),
         k1 = "starting" <=> HasIn(ToSet(es), r, "PREFILL_START")
  PROVE  Inv'
<1> DEFINE type == "REQUEST_ARRIVE"
           s == r + 1
           next == NextArrival(gap)
           all == es \o next
<1>0. PICK b : b = Ev(now' + gap, "REQUEST_ARRIVE", s, "none")
  OBVIOUS
<1>1. Typed /\ Apart(events, Clash) /\ type \in Carriers
  BY DEF Inv, Carriers
<1>2. At(r, "announced") /\ ~At(r, "absent")
  BY <1>1, HeadAt
<1>3. now' \in Nat
  BY <1>1, HeadIsAlone DEF Pop, Event
<1>4. /\ next \in Seq(Event) /\ Apart(next, Clash)
      /\ s \in Requests => ToSet(next) = {b}
      /\ s \notin Requests => ToSet(next) = {}
      /\ b \in Event /\ now' + gap \in Nat /\ now' + gap >= now' /\ s \in Nat
  BY <1>0, <1>3, NextArrivalFacts
<1>5. /\ b.time = now' + gap /\ b.type = "REQUEST_ARRIVE" /\ b.req = s
  BY <1>0, <1>4, EventFacts DEF Types
<1>6. s > r /\ s # r /\ \A q \in Requests : q > s => q > r /\ q # s /\ q # r
  <2>1. r \in Nat /\ \A q \in Requests : q \in Nat
    BY Constants
  <2> QED
    BY <2>1
<1> HIDE DEF next, s
<1>7. \A f \in Rest : f.type # "REQUEST_ARRIVE"
  BY OneAnnounced
<1>8. \A q \in Requests : q > r => At(q, "absent")
  BY OneAnnounced
<1>9. s \in Requests => At(s, "absent")
  BY <1>6, <1>8
<1>10. s \in Requests => Free(b)
  <2>1. s \in Requests => \A c \in Carriers : ~Has(s, c)
    BY <1>9 DEF At, Carried, Carriers
  <2> QED
    BY <1>1, <1>4, <1>5, <2>1, FreeFacts
<1>11. all \in Seq(Event) /\ ToSet(all) = ToSet(es) \cup ToSet(next) /\ Apart(all, Clash)
  <2>1. \A e \in ToSet(es), f \in ToSet(next) : <<e, f>> \notin Clash /\ <<f, e>> \notin Clash
    <3> SUFFICES ASSUME NEW e \in ToSet(es), NEW f \in ToSet(next)
                 PROVE  <<e, f>> \notin Clash /\ <<f, e>> \notin Clash
      OBVIOUS
    <3>1. f = b /\ s \in Requests
      BY <1>4
    <3>2. e \in Event /\ f \in Event /\ e.req # f.req
          /\ f.type # "DECODE_BATCH_STEP"
      BY <1>4, <1>5, <1>6, <3>1 DEF ToSet
    <3> QED
      BY <3>2, ClashFacts
  <2> QED
    BY <1>4, <2>1, JoinedLists
<1>12. \A e \in ToSet(all) : e.time >= now' /\ Free(e) /\ Fits(e)'
  <2>1. s \in Requests => Fits(b)'
    BY <1>5 DEF Fits
  <2> QED
    BY <1>4, <1>5, <1>10, <1>11, <2>1
<1> HIDE DEF all
<1>13. Handle(all)
  BY DEF all, next
<1>14. Queued' = Rest \cup ToSet(all)
  BY <1>1, <1>11, <1>12, <1>13, QueueStep
<1>15. \A q, c : HasIn(ToSet(all), q, c) <=>
         \/ HasIn(ToSet(es), q, c)
         \/ s \in Requests /\ q = s /\ c = "REQUEST_ARRIVE"
  BY <1>4, <1>5, <1>11 DEF HasIn
<1>16. \A n : ~StepIn(ToSet(all), n)
  BY <1>4, <1>5, <1>11 DEF StepIn
<1>17. \A q, c : HasIn(ToSet(es), q, c) =>
         q = r /\ c \in {"REQUEST_REJECTED", "SCHEDULED", "PREFILL_START"}
  BY DEF HasIn
<1>18. \A q, c : c \in Carriers =>
         (Has(q, c)' <=> \/ Has(q, c) /\ ~(q = r /\ c = type)
                         \/ HasIn(ToSet(es), q, c)
                         \/ s \in Requests /\ q = s /\ c = "REQUEST_ARRIVE")
  BY <1>1, <1>14, <1>15, HasAfter
<1>19. \A n : StepIn(Queued', n) <=> StepIn(Queued, n)
  <2>1. type # "DECODE_BATCH_STEP"
    OBVIOUS
  <2> HIDE DEF type
  <2> QED
    BY <1>1, <1>14, <1>16, <2>1, HasAfter DEF type
<1>20. \A q \in Requests, k \in Positions : q # r /\ q # s /\ At(q, k) => At(q, k)'
  BY <1>17, <1>18, Unmoved
<1>21. At(r, k1)'
  <2>1. Carried(r, "announced")
    BY <1>2 DEF At
  <2>2. Carried(r, k1)'
    BY <1>6, <1>17, <1>18, <2>1 DEF Carried, Carriers
  <2> QED
    BY <2>2 DEF At
<1>22. s \in Requests => At(s, "announced")'
  <2> SUFFICES ASSUME s \in Requests
               PROVE  At(s, "announced")'
    OBVIOUS
  <2>1. At(s, "absent")
    BY <1>9
  <2>2. Placed(s, "announced")'
    BY <1>6, <2>1 DEF At, Placed
  <2>3. Carried(s, "announced")'
    <3>1. Carried(s, "absent")
      BY <2>1 DEF At
    <3> QED
      BY <1>6, <1>17, <1>18, <3>1 DEF Carried, Carriers
  <2>4. Booked(s, "announced")'
    BY <1>6, <2>1 DEF At, Booked, Decided, Outside
  <2> QED
    BY <2>2, <2>3, <2>4 DEF At
<1>23. \A q \in Requests : \E k \in Positions : At(q, k)'
  BY <1>20, <1>21, <1>22 DEF Inv, Positions
<1>24. Ahead'
  <2> SUFFICES ASSUME NEW e \in Queued', e.type = "REQUEST_ARRIVE",
                      NEW q \in Requests, q > e.req
               PROVE  At(q, "absent")'
    BY DEF Ahead
  <2>1. e = b /\ s \in Requests
    BY <1>4, <1>7, <1>11, <1>14
  <2>2. q > s
    BY <1>5, <2>1
  <2>3. q > r /\ q # s /\ q # r
    BY <1>6, <2>2
  <2> QED
    BY <1>8, <1>20, <2>3 DEF Positions
<1>25. \A n \in Nodes : Awake(n)'
  BY <1>1, <1>19, StaysAwake DEF Inv, Typed
<1>26. /\ pending' \subseteq Requests /\ tables' \subseteq Requests
       /\ egressAvailableAt' \in [Nodes -> Nat] /\ ingressAvailableAt' \in [Nodes -> Nat]
  BY <1>1 DEF Typed
<1> HIDE DEF type
<1> QED
  BY <1>1, <1>11, <1>12, <1>13, <1>23, <1>24, <1>25, <1>26, InvStep DEF type
(* REQUEST_ARRIVE, refused by the policy.                                    *)
LEMMA ArriveRejectedInv ==
  ASSUME Inv, ArriveRejected
  PROVE  Inv'
<1>1. /\ Pop("REQUEST_ARRIVE")
      /\ UNCHANGED <<nodes, decisions, pending, tables, egressAvailableAt, ingressAvailableAt>>
  BY DEF ArriveRejected, laneVars
<1>2. Typed /\ Apart(events, Clash) /\ "REQUEST_ARRIVE" \in Carriers
  BY DEF Inv, Carriers
<1>3. PICK r \in Requests : r = Req /\ At(r, "announced")
  BY <1>1, <1>2, HeadAt
<1>4. PICK a : a = Ev(now', "REQUEST_REJECTED", r, "none")
  OBVIOUS
<1>5. PICK gap \in Gaps : Handle(<<a>> \o NextArrival(gap))
  BY <1>3, <1>4 DEF ArriveRejected
<1>6. now' \in Nat
  BY <1>1, <1>2, HeadIsAlone DEF Pop, Event
<1>7. /\ a \in Event /\ a.time = now' /\ a.type = "REQUEST_REJECTED" /\ a.req = r
  <2>1. r \in Nat /\ "none" \in Nodes \cup {"none"} /\ "REQUEST_REJECTED" \in Types
    BY Constants DEF Types
  <2> QED
    BY <1>4, <1>6, <2>1, EventFacts
<1> DEFINE es == <<a>>
<1>8. es \in Seq(Event) /\ ToSet(es) = {a} /\ Apart(es, Clash)
  BY <1>7, ShortLists
<1> HIDE DEF es
<1>9. \A e \in ToSet(es) :
        /\ e.time >= now' /\ Free(e) /\ Fits(e)' /\ e.req = r
        /\ e.type \in {"REQUEST_REJECTED", "SCHEDULED", "PREFILL_START"}
  <2>1. Free(a)
    BY <1>1, <1>2, <1>3, <1>7, FreeFacts DEF Carriers
  <2>2. Fits(a)'
    BY <1>7 DEF Fits
  <2> QED
    BY <1>6, <1>7, <1>8, <2>1, <2>2
<1>10. Placed(r, "refused")'
  BY <1>1, <1>3 DEF At, Placed
<1>11. Booked(r, "refused")' /\ r \notin Decided'
  BY <1>1, <1>3 DEF At, Booked, Decided, Outside
<1>12. HasIn(ToSet(es), r, "REQUEST_REJECTED") /\ ~HasIn(ToSet(es), r, "PREFILL_START")
  BY <1>7, <1>8 DEF HasIn
<1>13. DOMAIN nodes' = Nodes /\ (\A n \in Nodes : WellFormed(nodes'[n])) /\ DOMAIN decisions' = Requests
  BY <1>1, <1>2 DEF Typed
<1>14. Handle(es \o NextArrival(gap))
  BY <1>5 DEF es
<1>15. "refused" \in Positions
  BY DEF Positions
<1> QED
  BY <1>1, <1>3, <1>8, <1>9, <1>10, <1>11, <1>12, <1>13, <1>14, <1>15, ArriveInv

(* REQUEST_ARRIVE, routed to p and d.                                        *)
LEMMA ArriveRoutedInv ==
  ASSUME Inv, NEW p \in PrefillNodes, NEW d \in DecodeNodes, ArriveRouted(p, d)
  PROVE  Inv'
<1>1. /\ Pop("REQUEST_ARRIVE")
      /\ UNCHANGED <<pending, tables, egressAvailableAt, ingressAvailableAt>>
  BY DEF ArriveRouted, laneVars
<1>2. Typed /\ Apart(events, Clash) /\ "REQUEST_ARRIVE" \in Carriers
  BY DEF Inv, Carriers
<1>3. PICK r \in Requests : r = Req /\ At(r, "announced")
  BY <1>1, <1>2, HeadAt
<1>4. now' \in Nat
  BY <1>1, <1>2, HeadIsAlone DEF Pop, Event
<1>5. PICK a : a = Ev(now', "SCHEDULED", r, "none")
  OBVIOUS
<1>6. PICK b : b = Ev(now', "PREFILL_START", r, p)
  OBVIOUS
<1>7. PICK uncached \in Uncached, gap \in Gaps :
        /\ nodes' = [nodes EXCEPT ![p] = Admit(nodes[p], r, uncached)]
        /\ Handle(<<a>> \o (IF HasRoom(nodes[p]) THEN <<b>> ELSE <<>>) \o NextArrival(gap))
  BY <1>3, <1>5, <1>6 DEF ArriveRouted
<1>8. PICK D : /\ decisions' = [decisions EXCEPT ![r] = D]
               /\ D.prefill = p /\ D.decode = d /\ D # NoDecision
  <2> DEFINE D == [prefill |-> p, decode |-> d, slotBy |-> now' + QueueWaitTime(nodes[p])]
  <2>1. decisions' = [decisions EXCEPT ![r] = D]
    BY <1>3 DEF ArriveRouted
  <2>2. D.prefill = p /\ D.decode = d /\ D # NoDecision
    BY Constants DEF NoDecision
  <2> HIDE DEF D
  <2> QED
    BY <2>1, <2>2
<1>9. /\ a \in Event /\ a.time = now' /\ a.type = "SCHEDULED" /\ a.req = r
      /\ b \in Event /\ b.time = now' /\ b.type = "PREFILL_START" /\ b.req = r /\ b.node = p
  <2>1. /\ r \in Nat /\ "none" \in Nodes \cup {"none"} /\ p \in Nodes \cup {"none"}
        /\ "SCHEDULED" \in Types /\ "PREFILL_START" \in Types
    BY Constants DEF Types
  <2> QED
    BY <1>4, <1>5, <1>6, <2>1, EventFacts
<1> DEFINE as == <<a>>
           bs == IF HasRoom(nodes[p]) THEN <<b>> ELSE <<>>
           es == as \o bs
           N == nodes[p]
           A == Admit(nodes[p], r, uncached)
<1>10. /\ bs \in Seq(Event) /\ ToSet(bs) = (IF HasRoom(nodes[p]) THEN {b} ELSE {})
       /\ Apart(bs, Clash)
       /\ as \in Seq(Event) /\ ToSet(as) = {a} /\ Apart(as, Clash)
  BY <1>9, ShortLists
<1>11. /\ es \in Seq(Event) /\ Apart(es, Clash)
       /\ ToSet(es) = IF HasRoom(nodes[p]) THEN {a, b} ELSE {a}
  <2> HIDE DEF as, bs
  <2>1. <<a, b>> \notin Clash /\ <<b, a>> \notin Clash
    BY <1>9, ClashFacts DEF Carriers
  <2>3. \A e \in ToSet(as), f \in ToSet(bs) : <<e, f>> \notin Clash /\ <<f, e>> \notin Clash
    BY <1>10, <2>1
  <2>4. as \in Seq(Event) /\ bs \in Seq(Event) /\ Apart(as, Clash) /\ Apart(bs, Clash)
    BY <1>10
  <2>2. es \in Seq(Event) /\ Apart(es, Clash) /\ ToSet(es) = ToSet(as) \cup ToSet(bs)
    BY <2>3, <2>4, JoinedApart, ZenonT(40)
  <2> HIDE DEF es
  <2> QED
    BY <1>10, <2>2
<1>12. Handle(es \o NextArrival(gap))
  BY <1>7
<1> HIDE DEF es, as, bs
<1>13. p \in Nodes /\ d \in Nodes /\ p # d
  BY Constants
<1>14. /\ WellFormed(N) /\ r \notin Running(N) \cup Waiting(N) /\ uncached \in Nat
       /\ DOMAIN nodes = Nodes /\ r \notin Prefilling(N) /\ r \notin N.decoding
  BY <1>2, <1>3, <1>13, Constants DEF Typed, At, Placed
<1> HIDE DEF A
<1>15. /\ WellFormed(A)
       /\ HasRoom(N) => A.queue = N.queue /\ Running(A) = Running(N) \cup {r}
       /\ ~HasRoom(N) => A.running = N.running /\ Waiting(A) = Waiting(N) \cup {r}
       /\ A.decoding = N.decoding /\ A.prefill = N.prefill /\ A.inFlight = N.inFlight
  BY <1>14, AdmitFacts DEF A
<1>16. /\ HasRoom(N) => Waiting(A) = Waiting(N)
       /\ ~HasRoom(N) => Running(A) = Running(N)
       /\ Prefilling(A) = Prefilling(N) /\ HasWork(A) = HasWork(N)
  BY <1>15 DEF Running, Waiting, Prefilling, HasWork
<1>17. /\ DOMAIN nodes' = Nodes
       /\ nodes'[p] = A /\ \A n \in Nodes : n # p => nodes'[n] = nodes[n]
  BY <1>7, <1>13, <1>14 DEF A
<1>18. \A n \in Nodes : /\ WellFormed(nodes'[n])
                        /\ HasWork(nodes'[n]) <=> HasWork(nodes[n])
                        /\ nodes'[n].inFlight = nodes[n].inFlight
  <2>1. \A n \in Nodes : WellFormed(nodes[n])
    BY <1>2 DEF Typed
  <2> QED
    BY <1>15, <1>16, <1>17, <2>1
<1>19. /\ DOMAIN decisions' = Requests /\ decisions'[r] = D
       /\ \A q \in Requests : q # r => decisions'[q] = decisions[q]
  BY <1>2, <1>8 DEF Typed
<1>20. r \in Decided' /\ decisions'[r].prefill = p /\ decisions'[r].decode = d
  BY <1>8, <1>19 DEF Decided
<1>21. \A e \in ToSet(es) :
         /\ e.time >= now' /\ Free(e) /\ Fits(e)' /\ e.req = r
         /\ e.type \in {"REQUEST_REJECTED", "SCHEDULED", "PREFILL_START"}
  <2>1. Free(a) /\ Free(b)
    BY <1>1, <1>2, <1>3, <1>9, FreeFacts DEF Carriers
  <2>2. Fits(a)' /\ Fits(b)'
    BY <1>9, <1>20 DEF Fits
  <2> QED
    BY <1>4, <1>9, <1>11, <2>1, <2>2
<1>22. \A q \in Requests : q # r => \A n \in Nodes :
         /\ q \in Waiting(nodes'[n]) <=> q \in Waiting(nodes[n])
         /\ q \in Running(nodes'[n]) <=> q \in Running(nodes[n])
         /\ q \in Prefilling(nodes'[n]) <=> q \in Prefilling(nodes[n])
         /\ q \in nodes'[n].decoding <=> q \in nodes[n].decoding
  BY <1>15, <1>16, <1>17
<1>27. PICK k1 : k1 = IF HasRoom(nodes[p]) THEN "starting" ELSE "waiting"
  OBVIOUS
<1>23. Placed(r, k1)'
  <2>1. \A n \in Nodes : r \notin Waiting(nodes[n]) /\ r \notin Running(nodes[n])
                         /\ r \notin Prefilling(nodes[n]) /\ r \notin nodes[n].decoding
    BY <1>3 DEF At, Placed
  <2> SUFFICES ASSUME NEW n \in Nodes
               PROVE  /\ r \in Waiting(nodes'[n]) <=> k1 = "waiting" /\ n = p
                      /\ r \in Running(nodes'[n]) <=>
                           \/ k1 \in {"starting", "prefilling", "prefilled"} /\ n = p
                           \/ k1 \in {"decoding", "decoded"} /\ n = d
                      /\ r \in Prefilling(nodes'[n]) <=> k1 = "prefilling" /\ n = p
                      /\ r \in nodes'[n].decoding <=> k1 = "decoding" /\ n = d
    BY <1>20 DEF Placed
  <2>2. CASE n = p
    BY <1>13, <1>14, <1>15, <1>16, <1>17, <1>27, <2>1, <2>2
  <2>3. CASE n # p
    BY <1>17, <1>27, <2>1, <2>3
  <2> QED
    BY <2>2, <2>3
<1>24. Booked(r, k1)'
  BY <1>1, <1>3, <1>20, <1>27 DEF At, Booked, Outside
<1>25. /\ ~HasIn(ToSet(es), r, "REQUEST_REJECTED")
       /\ HasIn(ToSet(es), r, "PREFILL_START") <=> HasRoom(nodes[p])
  BY <1>9, <1>11 DEF HasIn
<1>26. /\ k1 \in Positions /\ k1 \notin {"announced", "prefilled", "transfer", "decoded"}
       /\ k1 = "refused" <=> HasIn(ToSet(es), r, "REQUEST_REJECTED")
       /\ k1 = "starting" <=> HasIn(ToSet(es), r, "PREFILL_START")
  BY <1>25, <1>27 DEF Positions
<1> QED
  BY <1>1, <1>3, <1>11, <1>12, <1>17, <1>18, <1>19, <1>20, <1>21, <1>22, <1>23, <1>24, <1>26,
     ArriveInv
(* PREFILL_START, everything cached.                                         *)
LEMMA PrefillStartCachedInv ==
  ASSUME Inv, PrefillStartCached
  PROVE  Inv'
<1> DEFINE type == "PREFILL_START"
<1>1. /\ Pop(type) /\ type \in Carriers /\ type # "DECODE_BATCH_STEP"
      /\ type \in Types \ {"REQUEST_ARRIVE"}
      /\ UNCHANGED <<decisions, pending, tables, egressAvailableAt, ingressAvailableAt>>
  BY DEF PrefillStartCached, laneVars, Carriers, Types
<1>2. Typed /\ Apart(events, Clash)
  BY DEF Inv
<1>3. PICK r \in Requests : r = Req /\ At(r, "starting") /\ ~At(r, "absent")
  BY <1>1, HeadAt
<1>4. PICK p : p = Node
  OBVIOUS
<1>5. p = decisions[r].prefill /\ p \in PrefillNodes /\ p \in Nodes
  <2>1. Fits(Head(events)) /\ Head(events).type = type
    BY <1>1, <1>2, HeadAt, HeadIsAlone
  <2>2. p = decisions[r].prefill
    BY <1>3, <1>4, <2>1 DEF Fits, Req, Node
  <2>3. r \in Decided
    BY <1>3 DEF At, Booked, Outside
  <2> QED
    BY <1>2, <2>2, <2>3, Constants DEF Typed
<1>6. now' \in Nat
  BY <1>1, <1>2, HeadIsAlone DEF Pop, Event
<1>7. PICK a : a = Ev(now', "PREFILL_COMPLETE", r, p)
  OBVIOUS
<1>8. /\ a \in Event /\ a.time = now' /\ a.type = "PREFILL_COMPLETE" /\ a.req = r /\ a.node = p
  <2>1. r \in Nat /\ p \in Nodes \cup {"none"} /\ "PREFILL_COMPLETE" \in Types
    BY <1>5, Constants DEF Types
  <2> QED
    BY <1>6, <1>7, <2>1, EventFacts
<1> DEFINE es == <<a>>
           N == nodes[p]
           A == MarkPrefillDone(nodes[p], r)
<1>9. /\ Handle(es) /\ nodes' = [nodes EXCEPT ![p] = A]
  BY <1>3, <1>4, <1>7 DEF PrefillStartCached
<1>10. es \in Seq(Event) /\ ToSet(es) = {a} /\ Apart(es, Clash)
  BY <1>8, ShortLists
<1> HIDE DEF es, A
<1>11. \A e \in ToSet(es) : /\ e.time >= now' /\ Free(e) /\ Fits(e)'
                            /\ e.type # "REQUEST_ARRIVE" /\ e.type # "DECODE_BATCH_STEP"
                            /\ e.req = r
  <2>1. Free(a)
    BY <1>1, <1>2, <1>3, <1>8, FreeFacts DEF Carriers
  <2>2. Fits(a)'
    BY <1>1, <1>5, <1>8 DEF Fits
  <2> QED
    BY <1>6, <1>8, <1>10, <2>1, <2>2
<1>12. Queued' = Rest \cup ToSet(es)
  BY <1>1, <1>2, <1>9, <1>10, <1>11, QueueStep
<1>13. WellFormed(N) /\ r \in Running(N) /\ DOMAIN nodes = Nodes
  BY <1>2, <1>3, <1>5 DEF Typed, At, Placed
<1>14. /\ WellFormed(A) /\ SameSlots(N, A)
       /\ A.decoding = N.decoding /\ A.prefill = N.prefill /\ A.inFlight = N.inFlight
  BY <1>13, MarkPrefillDoneFacts DEF A
<1>15. /\ Running(A) = Running(N) /\ Waiting(A) = Waiting(N) /\ Prefilling(A) = Prefilling(N)
       /\ HasWork(A) = HasWork(N)
  BY <1>14 DEF SameSlots, Running, Waiting, Prefilling, HasWork
<1>16. DOMAIN nodes' = Nodes /\ nodes'[p] = A /\ \A n \in Nodes : n # p => nodes'[n] = nodes[n]
  BY <1>5, <1>9, <1>13
<1>17. \A n \in Nodes : /\ Waiting(nodes'[n]) = Waiting(nodes[n])
                        /\ Running(nodes'[n]) = Running(nodes[n])
                        /\ Prefilling(nodes'[n]) = Prefilling(nodes[n])
                        /\ nodes'[n].decoding = nodes[n].decoding
                        /\ HasWork(nodes'[n]) <=> HasWork(nodes[n])
                        /\ nodes'[n].inFlight = nodes[n].inFlight
  BY <1>14, <1>15, <1>16
<1>18. \A n \in Nodes : WellFormed(nodes'[n]) /\ WellFormed(nodes[n])
  BY <1>2, <1>14, <1>16 DEF Typed
<1>19. At(r, "prefilled")'
  <2>1. Placed(r, "prefilled")'
    BY <1>1, <1>3, <1>17 DEF At, Placed
  <2>2. Carried(r, "prefilled")'
    <3>1. \A c \in Carriers : Has(r, c) => r = Req /\ c = type
      BY <1>3 DEF At, Carried, Carriers
    <3>2. Bears(ToSet(es), r, "prefilled")
      BY <1>8, <1>10 DEF Bears, HasIn
    <3> QED
      BY <1>1, <1>2, <1>12, <3>1, <3>2, CarriedAfter
  <2>3. Booked(r, "prefilled")'
    BY <1>1, <1>3 DEF At, Booked, Decided, Outside
  <2> QED
    BY <2>1, <2>2, <2>3 DEF At
<1>20. \A n : ~StepIn(ToSet(es), n)
  BY <1>11 DEF StepIn
<1>21. \A n : StepIn(Queued', n) <=> StepIn(Queued, n)
  BY <1>1, <1>2, <1>12, <1>20, HasAfter
<1>22. \A n \in Nodes : Awake(n)'
  BY <1>17, <1>18, <1>21, StaysAwake DEF Inv
<1>23. /\ DOMAIN decisions' = Requests /\ pending' \subseteq Requests /\ tables' \subseteq Requests
       /\ egressAvailableAt' \in [Nodes -> Nat] /\ ingressAvailableAt' \in [Nodes -> Nat]
       /\ Req \in Decided' => /\ decisions'[Req].prefill \in PrefillNodes
                              /\ decisions'[Req].decode \in DecodeNodes
  BY <1>1, <1>2 DEF Typed, Decided
<1> DEFINE Mv == {r}
<1>24. Mv \in SUBSET Requests /\ Req \in Mv /\ \A q : q \in Mv <=> q = r
  BY <1>3
<1>25. "prefilled" \in Positions
  BY DEF Positions
<1> HIDE DEF Mv, type
<1>26. \A q \in Mv : ~At(q, "absent") /\ \E k \in Positions : At(q, k)'
  BY <1>3, <1>19, <1>24, <1>25
<1>27. \A q \in Requests \ Mv :
         /\ q \in pending' <=> q \in pending
         /\ q \in tables' <=> q \in tables
         /\ \A n \in Nodes : /\ q \in Waiting(nodes'[n]) <=> q \in Waiting(nodes[n])
                             /\ q \in Running(nodes'[n]) <=> q \in Running(nodes[n])
                             /\ q \in Prefilling(nodes'[n]) <=> q \in Prefilling(nodes[n])
                             /\ q \in nodes'[n].decoding <=> q \in nodes[n].decoding
  BY <1>1, <1>17
<1>28. \A e \in ToSet(es) : /\ e.time >= now' /\ Free(e) /\ Fits(e)'
                            /\ e.type # "REQUEST_ARRIVE"
                            /\ e.type \in Carriers => e.req \in Mv
  BY <1>11, <1>24
<1> QED
  BY <1>1, <1>9, <1>10, <1>16, <1>18, <1>22, <1>23, <1>24, <1>26, <1>27, <1>28, MoveInv

(* A node that is woken has a step and its flag up just when it has work.    *)
LEMMA WakesUp ==
  ASSUME NEW n \in Nodes, Awake(n), NEW N, WellFormed(N), nodes'[n] = Woken(N),
         N.inFlight = nodes[n].inFlight, HasWork(nodes[n]) => HasWork(N),
         StepIn(Queued', n) <=> StepIn(Queued, n) \/ MustWake(N)
  PROVE  Awake(n)'
<1>1. /\ HasWork(Woken(N)) <=> HasWork(N)
      /\ Woken(N).inFlight <=> N.inFlight \/ HasWork(N)
  BY WokenFacts DEF HasWork
<1>2. MustWake(N) <=> HasWork(N) /\ ~N.inFlight
  BY DEF MustWake
<1>3. nodes[n].inFlight <=> HasWork(nodes[n])
  BY DEF Awake
<1>4. StepIn(Queued, n) <=> HasWork(nodes[n])
  BY DEF Awake
<1>5. (nodes[n].inFlight)' = Woken(N).inFlight /\ HasWork(nodes[n])' = HasWork(Woken(N))
  OBVIOUS
<1>6. StepIn(Queued, n)' <=> HasWork(Woken(N))
  BY <1>1, <1>2, <1>3, <1>4 DEF StepIn
<1> QED
  BY <1>1, <1>3, <1>5, <1>6 DEF Awake
(* PREFILL_START, with tokens to compute.                                    *)
LEMMA PrefillStartChunkedInv ==
  ASSUME Inv, PrefillStartChunked
  PROVE  Inv'
<1> DEFINE type == "PREFILL_START"
<1>1. /\ Pop(type) /\ type \in Carriers /\ type # "DECODE_BATCH_STEP"
      /\ type \in Types \ {"REQUEST_ARRIVE"}
      /\ UNCHANGED <<decisions, pending, tables, egressAvailableAt, ingressAvailableAt>>
  BY DEF PrefillStartChunked, laneVars, Carriers, Types
<1>2. Typed /\ Apart(events, Clash)
  BY DEF Inv
<1>3. PICK r \in Requests : r = Req /\ At(r, "starting") /\ ~At(r, "absent")
  BY <1>1, HeadAt
<1>4. PICK p : p = Node
  OBVIOUS
<1>5. p = decisions[r].prefill /\ p \in PrefillNodes /\ p \in Nodes
  <2>1. Fits(Head(events)) /\ Head(events).type = type
    BY <1>1, <1>2, HeadAt, HeadIsAlone
  <2>2. p = decisions[r].prefill
    BY <1>3, <1>4, <2>1 DEF Fits, Req, Node
  <2>3. r \in Decided
    BY <1>3 DEF At, Booked, Outside
  <2> QED
    BY <1>2, <2>2, <2>3, Constants DEF Typed
<1>6. now' \in Nat
  BY <1>1, <1>2, HeadIsAlone DEF Pop, Event
<1>7. PICK u \in Uncached \ {0} :
        /\ nodes' = [nodes EXCEPT ![p] = Woken(EnterPrefill(nodes[p], r, u))]
        /\ Handle(WakeEvents(EnterPrefill(nodes[p], r, u), p, now'))
  BY <1>3, <1>4 DEF PrefillStartChunked
<1> DEFINE N == nodes[p]
           B == EnterPrefill(nodes[p], r, u)
           A == Woken(B)
           es == WakeEvents(B, p, now')
<1>8. PICK a : a = Ev(now', "DECODE_BATCH_STEP", 0, p)
  OBVIOUS
<1>9. a \in Event /\ a.time = now' /\ a.type = "DECODE_BATCH_STEP" /\ a.req = 0 /\ a.node = p
  <2>1. p \in Nodes \cup {"none"} /\ "DECODE_BATCH_STEP" \in Types
    BY <1>5 DEF Types
  <2> QED
    BY <1>6, <1>8, <2>1, EventFacts
<1>10. /\ WellFormed(N) /\ r \in Running(N) /\ DOMAIN nodes = Nodes
       /\ r \notin Prefilling(N) \cup N.decoding /\ u \in Nat \ {0}
  <2>1. u \in Nat \ {0}
    BY Constants
  <2> QED
    BY <1>2, <1>3, <1>5, <2>1 DEF Typed, At, Placed
<1> HIDE DEF A, B, es
<1>11. /\ WellFormed(B) /\ SameSlots(N, B)
       /\ B.decoding = N.decoding /\ Prefilling(B) = Prefilling(N) \cup {r}
       /\ B.inFlight = N.inFlight
  BY <1>10, EnterPrefillFacts DEF B
<1>12. /\ WellFormed(A) /\ SameSlots(B, A) /\ A.decoding = B.decoding /\ A.prefill = B.prefill
  BY <1>11, WokenFacts DEF A
<1>13. /\ Running(A) = Running(N) /\ Waiting(A) = Waiting(N)
       /\ Prefilling(A) = Prefilling(N) \cup {r} /\ A.decoding = N.decoding
  BY <1>11, <1>12 DEF SameSlots, Running, Waiting, Prefilling
<1>14. HasWork(B)
  BY <1>11, HasWorkFacts
<1>15. /\ es \in Seq(Event) /\ Apart(es, Clash) /\ Handle(es)
       /\ ToSet(es) = IF MustWake(B) THEN {a} ELSE {}
  BY <1>5, <1>6, <1>7, <1>8, WakeEventsFacts DEF es, B
<1>16. MustWake(B) => ~StepIn(Queued, p)
  <2>1. Awake(p)
    BY <1>5 DEF Inv
  <2> QED
    BY <1>11, <2>1 DEF MustWake, Awake
<1>17. \A e \in ToSet(es) : /\ e.time >= now' /\ Free(e) /\ Fits(e)'
                            /\ e.type = "DECODE_BATCH_STEP" /\ e.node = p
  <2>1. MustWake(B) => Free(a)
    BY <1>1, <1>2, <1>9, <1>16, FreeFacts
  <2>2. Fits(a)'
    BY <1>5, <1>9 DEF Fits
  <2> QED
    BY <1>6, <1>9, <1>15, <2>1, <2>2
<1>18. Queued' = Rest \cup ToSet(es)
  BY <1>1, <1>2, <1>15, <1>17, QueueStep
<1>19. DOMAIN nodes' = Nodes /\ nodes'[p] = A /\ \A n \in Nodes : n # p => nodes'[n] = nodes[n]
  BY <1>5, <1>7, <1>10 DEF A, B
<1>20. \A n \in Nodes : WellFormed(nodes'[n]) /\ WellFormed(nodes[n])
  BY <1>2, <1>12, <1>19 DEF Typed
<1>21. At(r, "prefilling")'
  <2>1. Placed(r, "prefilling")'
    <3> SUFFICES ASSUME NEW n \in Nodes
                 PROVE  /\ r \notin Waiting(nodes'[n])
                        /\ r \in Running(nodes'[n]) <=> n = p
                        /\ r \in Prefilling(nodes'[n]) <=> n = p
                        /\ r \notin nodes'[n].decoding
      BY <1>1, <1>5 DEF Placed
    <3>1. /\ r \notin Waiting(nodes[n]) /\ r \in Running(nodes[n]) <=> n = p
          /\ r \notin nodes[n].decoding
      BY <1>3, <1>5 DEF At, Placed
    <3>2. r \notin Waiting(nodes[n]) /\ r \notin Prefilling(nodes[n])
      BY <1>3 DEF At, Placed
    <3> QED
      BY <1>10, <1>13, <1>19, <3>1, <3>2
  <2>2. Carried(r, "prefilling")'
    <3>1. \A c \in Carriers : Has(r, c) => r = Req /\ c = type
      BY <1>3 DEF At, Carried, Carriers
    <3>2. Bears(ToSet(es), r, "prefilling")
      BY <1>17 DEF Bears, HasIn
    <3> QED
      BY <1>1, <1>2, <1>18, <3>1, <3>2, CarriedAfter
  <2>3. Booked(r, "prefilling")'
    BY <1>1, <1>3 DEF At, Booked, Decided, Outside
  <2> QED
    BY <2>1, <2>2, <2>3 DEF At
<1>22. /\ StepIn(ToSet(es), p) <=> MustWake(B)
       /\ \A n : n # p => ~StepIn(ToSet(es), n)
  BY <1>9, <1>15 DEF StepIn
<1>23. \A n : StepIn(Queued', n) <=> StepIn(Queued, n) \/ StepIn(ToSet(es), n)
  BY <1>1, <1>2, <1>18, HasAfter
<1>24. \A n \in Nodes : Awake(n)'
  <2>1. Awake(p)'
    <3>1. Awake(p)
      BY <1>5 DEF Inv
    <3>2. StepIn(Queued', p) <=> StepIn(Queued, p) \/ MustWake(B)
      BY <1>22, <1>23
    <3>3. nodes'[p] = Woken(B)
      BY <1>19 DEF A
    <3> QED
      BY <1>5, <1>11, <1>14, <3>1, <3>2, <3>3, WakesUp
  <2>2. ASSUME NEW n \in Nodes, n # p
        PROVE  Awake(n)'
    <3>1. Awake(n) /\ nodes'[n] = nodes[n] /\ (StepIn(Queued', n) <=> StepIn(Queued, n))
      BY <1>19, <1>22, <1>23, <2>2 DEF Inv
    <3> QED
      BY <1>20, <3>1, StaysAwake
  <2> QED
    BY <2>1, <2>2
<1>25. /\ DOMAIN decisions' = Requests /\ pending' \subseteq Requests /\ tables' \subseteq Requests
       /\ egressAvailableAt' \in [Nodes -> Nat] /\ ingressAvailableAt' \in [Nodes -> Nat]
       /\ Req \in Decided' => /\ decisions'[Req].prefill \in PrefillNodes
                              /\ decisions'[Req].decode \in DecodeNodes
  BY <1>1, <1>2 DEF Typed, Decided
<1> DEFINE Mv == {r}
<1>26. Mv \in SUBSET Requests /\ Req \in Mv /\ \A q : q \in Mv <=> q = r
  BY <1>3
<1> HIDE DEF Mv, type
<1>27. \A q \in Mv : ~At(q, "absent") /\ \E k \in Positions : At(q, k)'
  BY <1>3, <1>21, <1>26 DEF Positions
<1>28. \A q \in Requests \ Mv :
         /\ q \in pending' <=> q \in pending
         /\ q \in tables' <=> q \in tables
         /\ \A n \in Nodes : /\ q \in Waiting(nodes'[n]) <=> q \in Waiting(nodes[n])
                             /\ q \in Running(nodes'[n]) <=> q \in Running(nodes[n])
                             /\ q \in Prefilling(nodes'[n]) <=> q \in Prefilling(nodes[n])
                             /\ q \in nodes'[n].decoding <=> q \in nodes[n].decoding
  BY <1>1, <1>13, <1>19, <1>26
<1>29. \A e \in ToSet(es) : /\ e.time >= now' /\ Free(e) /\ Fits(e)'
                            /\ e.type # "REQUEST_ARRIVE"
                            /\ e.type \in Carriers => e.req \in Mv
  BY <1>17 DEF Carriers
<1> QED
  BY <1>1, <1>15, <1>19, <1>20, <1>24, <1>25, <1>26, <1>27, <1>28, <1>29, MoveInv

(* The lanes of a transfer: it starts not before it is asked for.            *)
LEMMA LaneFacts ==
  ASSUME Typed, NEW src \in Nodes, NEW dst \in Nodes, NEW t \in Nat,
         RequestTransfer(src, dst, t, TransferCost)
  PROVE  /\ TransferStart(src, dst, t) \in Nat /\ TransferStart(src, dst, t) >= t
         /\ TransferStart(src, dst, t) + TransferCost \in Nat
         /\ TransferStart(src, dst, t) + TransferCost >= TransferStart(src, dst, t)
         /\ TransferStart(src, dst, t) + TransferCost >= t
         /\ egressAvailableAt' \in [Nodes -> Nat] /\ ingressAvailableAt' \in [Nodes -> Nat]
<1> DEFINE start == TransferStart(src, dst, t)
<1>1. /\ egressAvailableAt \in [Nodes -> Nat] /\ ingressAvailableAt \in [Nodes -> Nat]
      /\ TransferCost \in Nat
  BY Constants DEF Typed
<1>2. egressAvailableAt[src] \in Nat /\ ingressAvailableAt[dst] \in Nat
  BY <1>1
<1>3. start \in Nat /\ start >= t
  BY <1>2 DEF TransferStart, Later
<1>4. start + TransferCost \in Nat /\ start + TransferCost >= start /\ start + TransferCost >= t
  <2> HIDE DEF start
  <2> QED
    BY <1>1, <1>3
<1>5. egressAvailableAt' \in [Nodes -> Nat] /\ ingressAvailableAt' \in [Nodes -> Nat]
  BY <1>1, <1>4 DEF RequestTransfer, laneVars
<1> QED
  BY <1>3, <1>4, <1>5

(* PREFILL_COMPLETE: the slot goes to the first request of the queue.        *)
LEMMA PrefillCompleteInv ==
  ASSUME Inv, PrefillComplete
  PROVE  Inv'
<1> DEFINE type == "PREFILL_COMPLETE"
<1>1. /\ Pop(type) /\ type \in Carriers /\ type # "DECODE_BATCH_STEP"
      /\ type \in Types \ {"REQUEST_ARRIVE"}
      /\ UNCHANGED <<decisions, tables>>
  BY DEF PrefillComplete, Carriers, Types
<1>2. Typed /\ Apart(events, Clash)
  BY DEF Inv
<1>3. PICK r \in Requests : r = Req /\ At(r, "prefilled") /\ ~At(r, "absent")
  BY <1>1, HeadAt
<1>4. PICK p : p = Node
  OBVIOUS
<1>5. PICK d : d = decisions[r].decode
  OBVIOUS
<1>6. /\ p = decisions[r].prefill /\ p \in PrefillNodes /\ p \in Nodes
      /\ d \in DecodeNodes /\ d \in Nodes
  <2>1. Fits(Head(events)) /\ Head(events).type = type
    BY <1>1, <1>2, HeadAt, HeadIsAlone
  <2>2. p = decisions[r].prefill
    BY <1>3, <1>4, <2>1 DEF Fits, Req, Node
  <2>3. r \in Decided
    BY <1>3 DEF At, Booked, Outside
  <2> QED
    BY <1>2, <1>5, <2>2, <2>3, Constants DEF Typed
<1>7. now' \in Nat
  BY <1>1, <1>2, HeadIsAlone DEF Pop, Event
<1>0. PICK busy \in BOOLEAN : busy = (nodes[p].queue # <<>>)
  OBVIOUS
<1> DEFINE N == nodes[p]
           B == Complete(N, r)
           ps == IF busy THEN <<Ev(now', "PREFILL_START", Head(N.queue), p)>> ELSE <<>>
<1>8. PICK start : start = TransferStart(p, d, now')
  OBVIOUS
<1>9. RequestTransfer(p, d, now', TransferCost) /\ pending' = pending \cup {r}
  BY <1>3, <1>4, <1>5, <1>6 DEF PrefillComplete
<1>10. PICK a, b : /\ a = Ev(start, "KV_TRANSFER_START", r, "none")
                   /\ b = Ev(start + TransferCost, "KV_TRANSFER_COMPLETE", r, "none")
  OBVIOUS
<1>11. Promoted(N) = {} <=> ~busy
  BY <1>0 DEF Promoted
<1>12. Handle(ps \o <<a, b>>)
  <2>1. Handle((IF Promoted(N) = {} THEN <<>>
                ELSE <<Ev(now', "PREFILL_START", Head(N.queue), p)>>)
               \o <<Ev(start, "KV_TRANSFER_START", r, "none"),
                    Ev(start + TransferCost, "KV_TRANSFER_COMPLETE", r, "none")>>)
    BY <1>3, <1>4, <1>5, <1>6, <1>8 DEF PrefillComplete
  <2>2. (IF Promoted(N) = {} THEN <<>> ELSE <<Ev(now', "PREFILL_START", Head(N.queue), p)>>) = ps
    BY <1>11
  <2> QED
    BY <1>10, <2>1, <2>2
<1>13. PICK u \in Uncached :
         nodes' = [nodes EXCEPT ![p] = IF ~busy THEN B ELSE InitPromoted(B, Head(N.queue), u)]
  <2>1. \E u \in Uncached :
          nodes' = [nodes EXCEPT ![p] = IF Promoted(N) = {} THEN B
                                        ELSE InitPromoted(B, Head(N.queue), u)]
    BY <1>3, <1>4 DEF PrefillComplete
  <2> QED
    BY <1>11, <2>1
<1>14. /\ start \in Nat /\ start >= now'
       /\ start + TransferCost \in Nat /\ start + TransferCost >= now'
       /\ egressAvailableAt' \in [Nodes -> Nat] /\ ingressAvailableAt' \in [Nodes -> Nat]
  BY <1>2, <1>6, <1>7, <1>8, <1>9, LaneFacts
<1>15. /\ a \in Event /\ a.time = start /\ a.type = "KV_TRANSFER_START" /\ a.req = r
       /\ b \in Event /\ b.time = start + TransferCost /\ b.type = "KV_TRANSFER_COMPLETE"
       /\ b.req = r
  <2>1. /\ r \in Nat /\ "none" \in Nodes \cup {"none"}
        /\ "KV_TRANSFER_START" \in Types /\ "KV_TRANSFER_COMPLETE" \in Types
    BY Constants DEF Types
  <2> QED
    BY <1>10, <1>14, <2>1, EventFacts
<1>16. /\ WellFormed(N) /\ r \in Running(N) /\ DOMAIN nodes = Nodes
       /\ r \notin Prefilling(N) \cup N.decoding
  BY <1>2, <1>3, <1>6 DEF Typed, At, Placed
<1> HIDE DEF B, ps
<1>17. /\ WellFormed(B)
       /\ B.decoding = N.decoding /\ B.prefill = N.prefill /\ B.inFlight = N.inFlight
       /\ B.tokens = [N.tokens EXCEPT ![r] = 0]
       /\ ~busy => Running(B) = Running(N) \ {r} /\ Waiting(B) = Waiting(N)
       /\ busy => /\ Head(N.queue) \in Waiting(N)
                  /\ Running(B) = (Running(N) \ {r}) \cup {Head(N.queue)}
                  /\ Waiting(B) = Waiting(N) \ {Head(N.queue)}
  <2>1. /\ WellFormed(B)
        /\ B.decoding = N.decoding /\ B.prefill = N.prefill /\ B.inFlight = N.inFlight
        /\ B.tokens = [N.tokens EXCEPT ![r] = 0]
        /\ N.queue = <<>> => Running(B) = Running(N) \ {r} /\ B.queue = <<>>
        /\ N.queue # <<>> => /\ Head(N.queue) \in Waiting(N)
                             /\ Running(B) = (Running(N) \ {r}) \cup {Head(N.queue)}
                             /\ Waiting(B) = Waiting(N) \ {Head(N.queue)}
    BY <1>16, CompleteFacts DEF B
  <2>2. N.queue = <<>> => Waiting(B) = Waiting(N)
    BY <2>1 DEF Waiting
  <2> QED
    BY <1>0, <2>1, <2>2
<1>18. PICK h : h = Head(N.queue)
  OBVIOUS
<1>19. busy => /\ h \in Requests /\ h # r /\ At(h, "waiting") /\ ~At(h, "absent")
               /\ decisions[h].prefill = p /\ h \notin Running(N) /\ N.tokens[h] = 0
  <2> SUFFICES ASSUME busy
               PROVE  /\ h \in Requests /\ h # r /\ At(h, "waiting") /\ ~At(h, "absent")
                      /\ decisions[h].prefill = p /\ h \notin Running(N) /\ N.tokens[h] = 0
    OBVIOUS
  <2>1. h \in Waiting(N)
    BY <1>17, <1>18
  <2>2. h \in Requests /\ h \notin Running(N)
    BY <1>16, <2>1, NodeTypes DEF WellFormed
  <2>3. PICK k \in Positions : At(h, k)
    BY <2>2 DEF Inv
  <2>4. k = "waiting" /\ decisions[h].prefill = p
    BY <1>6, <2>1, <2>3 DEF At, Placed
  <2>5. ~At(h, "absent")
    BY <1>6, <2>1 DEF At, Placed
  <2>6. N.tokens[h] = 0
    BY <1>16, <2>2 DEF WellFormed
  <2> QED
    BY <1>16, <2>2, <2>3, <2>4, <2>5, <2>6
<1> DEFINE A == IF ~busy THEN B ELSE InitPromoted(B, h, u)
<1>20. /\ WellFormed(A)
       /\ A.decoding = N.decoding /\ A.prefill = N.prefill /\ A.inFlight = N.inFlight
       /\ ~busy => Running(A) = Running(N) \ {r} /\ Waiting(A) = Waiting(N)
       /\ busy => Running(A) = (Running(N) \ {r}) \cup {h} /\ Waiting(A) = Waiting(N) \ {h}
  <2>1. CASE ~busy
    BY <1>17, <2>1
  <2>2. CASE busy
    <3>1. h \in Running(B) /\ B.tokens[h] = 0 /\ u \in Nat /\ A = InitPromoted(B, h, u)
      <4>1. N.tokens \in [Requests -> Nat]
        BY <1>16, NodeTypes
      <4> QED
        BY <1>17, <1>18, <1>19, <2>2, <4>1, Constants
    <3>5. WellFormed(B)
      BY <1>17
    <3> HIDE DEF A
    <3>2. /\ WellFormed(A) /\ SameSlots(B, A)
          /\ A.decoding = B.decoding /\ A.prefill = B.prefill /\ A.inFlight = B.inFlight
      BY <3>1, <3>5, InitPromotedFacts
    <3>3. Running(A) = Running(B) /\ Waiting(A) = Waiting(B)
      BY <3>2 DEF SameSlots, Running, Waiting
    <3> QED
      BY <1>17, <1>18, <2>2, <3>2, <3>3
  <2> QED
    BY <2>1, <2>2
<1>21. nodes' = [nodes EXCEPT ![p] = A]
  BY <1>13, <1>18
<1> HIDE DEF A
<1>22. DOMAIN nodes' = Nodes /\ nodes'[p] = A /\ \A n \in Nodes : n # p => nodes'[n] = nodes[n]
  BY <1>6, <1>16, <1>21
<1>23. Prefilling(A) = Prefilling(N) /\ HasWork(A) = HasWork(N)
  BY <1>20 DEF Prefilling, HasWork
<1>24. PICK c : c = Ev(now', "PREFILL_START", h, p)
  OBVIOUS
<1>25. busy => /\ c \in Event /\ c.time = now' /\ c.type = "PREFILL_START" /\ c.req = h
               /\ c.node = p
  <2> SUFFICES ASSUME busy
               PROVE  /\ c \in Event /\ c.time = now' /\ c.type = "PREFILL_START" /\ c.req = h
                      /\ c.node = p
    OBVIOUS
  <2>1. h \in Nat /\ p \in Nodes \cup {"none"} /\ "PREFILL_START" \in Types
    BY <1>6, <1>19, Constants DEF Types
  <2> QED
    BY <1>7, <1>24, <2>1, EventFacts
<1> DEFINE ts == <<a, b>>
           es == ps \o ts
<1>26. ts \in Seq(Event) /\ ToSet(ts) = {a, b} /\ Apart(ts, Clash)
  <2>1. ts \in Seq(Event) /\ DOMAIN ts = {1, 2} /\ ts[1] = a /\ ts[2] = b
    BY <1>15
  <2>2. <<a, b>> \notin Clash /\ <<b, a>> \notin Clash
    BY <1>15, ClashFacts DEF Carriers
  <2> HIDE DEF ts
  <2> QED
    BY <2>1, <2>2 DEF ToSet, Apart
<1>27. ps \in Seq(Event) /\ Apart(ps, Clash) /\ ToSet(ps) = IF busy THEN {c} ELSE {}
  <2>1. CASE ~busy
    BY <1>15, <2>1, ShortLists DEF ps
  <2>2. CASE busy
    <3>1. ps = <<c>>
      BY <1>18, <1>24, <2>2 DEF ps
    <3> QED
      BY <1>25, <2>2, <3>1, ShortLists
  <2> QED
    BY <2>1, <2>2
<1>28. es \in Seq(Event) /\ Apart(es, Clash) /\ ToSet(es) = ToSet(ps) \cup {a, b}
  <2>1. busy => <<c, a>> \notin Clash /\ <<a, c>> \notin Clash
                /\ <<c, b>> \notin Clash /\ <<b, c>> \notin Clash
    BY <1>15, <1>19, <1>25, ClashFacts DEF Carriers
  <2>2. \A e \in ToSet(ps), f \in ToSet(ts) : <<e, f>> \notin Clash /\ <<f, e>> \notin Clash
    BY <1>26, <1>27, <2>1
  <2>3. ps \in Seq(Event) /\ ts \in Seq(Event) /\ Apart(ps, Clash) /\ Apart(ts, Clash)
    BY <1>26, <1>27
  <2> HIDE DEF ts
  <2>4. es \in Seq(Event) /\ Apart(es, Clash) /\ ToSet(es) = ToSet(ps) \cup ToSet(ts)
    BY <2>2, <2>3, JoinedApart
  <2> QED
    BY <1>26, <2>4
<1>29. Handle(es)
  BY <1>12
<1> HIDE DEF es, ts
<1>30. \A e \in ToSet(es) : /\ e.time >= now' /\ Free(e) /\ Fits(e)'
                            /\ \/ e.type = "KV_TRANSFER_START"
                               \/ e.type = "KV_TRANSFER_COMPLETE" /\ e.req = r
                               \/ busy /\ e.type = "PREFILL_START" /\ e.req = h
  <2>1. Free(a) /\ Free(b)
    BY <1>1, <1>2, <1>3, <1>15, FreeFacts DEF Carriers
  <2>2. Fits(a)' /\ Fits(b)'
    BY <1>15 DEF Fits
  <2>3. busy => Free(c) /\ Fits(c)'
    <3> SUFFICES ASSUME busy
                 PROVE  Free(c) /\ Fits(c)'
      OBVIOUS
    <3>1. \A x \in Carriers : ~Has(h, x)
      BY <1>19 DEF At, Carried, Carriers
    <3>2. Free(c)
      BY <1>1, <1>2, <1>25, <3>1, FreeFacts DEF Carriers
    <3>3. Fits(c)'
      BY <1>1, <1>19, <1>25 DEF Fits
    <3> QED
      BY <3>2, <3>3
  <2> QED
    BY <1>7, <1>14, <1>15, <1>25, <1>27, <1>28, <2>1, <2>2, <2>3
<1>31. Queued' = Rest \cup ToSet(es)
  BY <1>1, <1>2, <1>28, <1>29, <1>30, QueueStep
<1>32. \A n \in Nodes : WellFormed(nodes'[n]) /\ WellFormed(nodes[n])
  BY <1>2, <1>20, <1>22 DEF Typed
<1>33. At(r, "transfer")'
  <2>1. Placed(r, "transfer")'
    <3> SUFFICES ASSUME NEW n \in Nodes
                 PROVE  /\ r \notin Waiting(nodes'[n]) /\ r \notin Running(nodes'[n])
                        /\ r \notin Prefilling(nodes'[n]) /\ r \notin nodes'[n].decoding
      BY DEF Placed
    <3>1. /\ r \notin Waiting(nodes[n]) /\ r \notin Prefilling(nodes[n])
          /\ r \notin nodes[n].decoding /\ (n # p => r \notin Running(nodes[n]))
      BY <1>3, <1>6 DEF At, Placed
    <3>2. CASE n = p
      BY <1>19, <1>20, <1>22, <1>23, <3>1, <3>2
    <3>3. CASE n # p
      BY <1>22, <3>1, <3>3
    <3> QED
      BY <3>2, <3>3
  <2>2. Carried(r, "transfer")'
    <3>1. \A x \in Carriers : Has(r, x) => r = Req /\ x = type
      BY <1>3 DEF At, Carried, Carriers
    <3>2. \A x : HasIn(ToSet(es), r, x) <=> x \in {"KV_TRANSFER_START", "KV_TRANSFER_COMPLETE"}
      BY <1>15, <1>19, <1>25, <1>27, <1>28 DEF HasIn
    <3>3. Bears(ToSet(es), r, "transfer")
      BY <3>2 DEF Bears
    <3> QED
      BY <1>1, <1>2, <1>31, <3>1, <3>3, CarriedAfter
  <2>3. Booked(r, "transfer")'
    BY <1>1, <1>3, <1>9 DEF At, Booked, Decided, Outside
  <2> QED
    BY <2>1, <2>2, <2>3 DEF At
<1>34. busy => At(h, "starting")'
  <2> SUFFICES ASSUME busy
               PROVE  At(h, "starting")'
    OBVIOUS
  <2>0. h \in Requests /\ h # r /\ At(h, "waiting") /\ decisions'[h].prefill = p
    BY <1>1, <1>19
  <2>1. Placed(h, "starting")'
    <3> SUFFICES ASSUME NEW n \in Nodes
                 PROVE  /\ h \notin Waiting(nodes'[n]) /\ h \in Running(nodes'[n]) <=> n = p
                        /\ h \notin Waiting(nodes'[n])
                        /\ h \notin Prefilling(nodes'[n]) /\ h \notin nodes'[n].decoding
      BY <2>0 DEF Placed
    <3>1. /\ (n # p => h \notin Waiting(nodes[n])) /\ h \notin Prefilling(nodes[n])
          /\ h \notin nodes[n].decoding /\ h \notin Running(nodes[n])
      BY <1>19 DEF At, Placed
    <3>2. CASE n = p
      BY <1>20, <1>22, <1>23, <3>1, <3>2
    <3>3. CASE n # p
      BY <1>22, <3>1, <3>3
    <3> QED
      BY <3>2, <3>3
  <2>2. Carried(h, "starting")'
    <3>1. \A x \in Carriers : Has(h, x) => h = Req /\ x = type
      BY <2>0 DEF At, Carried, Carriers
    <3>2. \A x : HasIn(ToSet(es), h, x) <=> x = "PREFILL_START"
      BY <1>15, <2>0, <1>25, <1>27, <1>28 DEF HasIn
    <3>3. Bears(ToSet(es), h, "starting")
      BY <3>2 DEF Bears
    <3> QED
      BY <1>1, <1>2, <1>31, <3>1, <3>3, CarriedAfter
  <2>3. Booked(h, "starting")'
    BY <1>1, <1>9, <2>0 DEF At, Booked, Decided, Outside
  <2> QED
    BY <2>1, <2>2, <2>3 DEF At
<1>35. \A n : ~StepIn(ToSet(es), n)
  BY <1>30 DEF StepIn
<1>36. \A n : StepIn(Queued', n) <=> StepIn(Queued, n)
  BY <1>1, <1>2, <1>31, <1>35, HasAfter
<1>37. \A n \in Nodes : Awake(n)'
  <2>1. \A n \in Nodes : /\ HasWork(nodes'[n]) <=> HasWork(nodes[n])
                         /\ nodes'[n].inFlight = nodes[n].inFlight
    BY <1>20, <1>22, <1>23
  <2> QED
    BY <1>32, <1>36, <2>1, StaysAwake DEF Inv
<1>38. /\ DOMAIN decisions' = Requests /\ pending' \subseteq Requests /\ tables' \subseteq Requests
       /\ Req \in Decided' => /\ decisions'[Req].prefill \in PrefillNodes
                              /\ decisions'[Req].decode \in DecodeNodes
  BY <1>1, <1>2, <1>9 DEF Typed, Decided
<1> DEFINE Mv == IF busy THEN {r, h} ELSE {r}
<1>39. /\ Mv \in SUBSET Requests /\ Req \in Mv /\ r \in Mv /\ (busy => h \in Mv)
       /\ \A q \in Mv : q # r => q = h /\ busy
  <2>1. CASE busy
    <3>1. Mv = {r, h}
      BY <2>1
    <3> HIDE DEF Mv
    <3> QED
      BY <1>3, <1>19, <2>1, <3>1
  <2>2. CASE ~busy
    <3>1. Mv = {r}
      BY <2>2
    <3> HIDE DEF Mv
    <3> QED
      BY <1>3, <2>2, <3>1
  <2> QED
    BY <2>1, <2>2
<1> HIDE DEF Mv, type
<1>40. \A q \in Mv : ~At(q, "absent") /\ \E k \in Positions : At(q, k)'
  BY <1>3, <1>19, <1>33, <1>34, <1>39 DEF Positions
<1>41. \A q \in Requests \ Mv :
         /\ q \in pending' <=> q \in pending
         /\ q \in tables' <=> q \in tables
         /\ \A n \in Nodes : /\ q \in Waiting(nodes'[n]) <=> q \in Waiting(nodes[n])
                             /\ q \in Running(nodes'[n]) <=> q \in Running(nodes[n])
                             /\ q \in Prefilling(nodes'[n]) <=> q \in Prefilling(nodes[n])
                             /\ q \in nodes'[n].decoding <=> q \in nodes[n].decoding
  <2> SUFFICES ASSUME NEW q \in Requests \ Mv
               PROVE  /\ q \in pending' <=> q \in pending
                      /\ q \in tables' <=> q \in tables
                      /\ \A n \in Nodes :
                           /\ q \in Waiting(nodes'[n]) <=> q \in Waiting(nodes[n])
                           /\ q \in Running(nodes'[n]) <=> q \in Running(nodes[n])
                           /\ q \in Prefilling(nodes'[n]) <=> q \in Prefilling(nodes[n])
                           /\ q \in nodes'[n].decoding <=> q \in nodes[n].decoding
    OBVIOUS
  <2>1. q # r /\ (busy => q # h)
    BY <1>39
  <2>2. /\ q \in Waiting(A) <=> q \in Waiting(N)
        /\ q \in Running(A) <=> q \in Running(N)
        /\ q \in Prefilling(A) <=> q \in Prefilling(N)
        /\ q \in A.decoding <=> q \in N.decoding
    <3>1. CASE busy
      BY <1>20, <1>23, <2>1, <3>1
    <3>2. CASE ~busy
      BY <1>20, <1>23, <2>1, <3>2
    <3> QED
      BY <3>1, <3>2
  <2> QED
    BY <1>1, <1>9, <1>22, <2>1, <2>2
<1>42. \A e \in ToSet(es) : /\ e.time >= now' /\ Free(e) /\ Fits(e)'
                            /\ e.type # "REQUEST_ARRIVE"
                            /\ e.type \in Carriers => e.req \in Mv
  <2>1. "KV_TRANSFER_START" \notin Carriers /\ "REQUEST_ARRIVE" # "PREFILL_START"
    BY DEF Carriers
  <2> SUFFICES ASSUME NEW e \in ToSet(es)
               PROVE  e.type # "REQUEST_ARRIVE" /\ (e.type \in Carriers => e.req \in Mv)
    BY <1>30
  <2>2. \/ e.type = "KV_TRANSFER_START"
        \/ e.type = "KV_TRANSFER_COMPLETE" /\ e.req = r
        \/ busy /\ e.type = "PREFILL_START" /\ e.req = h
    BY <1>30
  <2> QED
    BY <1>39, <2>1, <2>2
<1> QED
  BY <1>1, <1>14, <1>22, <1>28, <1>29, <1>32, <1>37, <1>38, <1>39, <1>40, <1>41, <1>42, MoveInv

(* KV_TRANSFER_COMPLETE, the decode node is full.                            *)
LEMMA TransferRejectedInv ==
  ASSUME Inv, TransferRejected
  PROVE  Inv'
<1> DEFINE type == "KV_TRANSFER_COMPLETE"
<1>1. /\ Pop(type) /\ type \in Carriers /\ type # "DECODE_BATCH_STEP"
      /\ type \in Types \ {"REQUEST_ARRIVE"}
      /\ UNCHANGED <<nodes, tables, egressAvailableAt, ingressAvailableAt>>
  BY DEF TransferRejected, laneVars, Carriers, Types
<1>2. Typed /\ Apart(events, Clash)
  BY DEF Inv
<1>3. PICK r \in Requests : r = Req /\ At(r, "transfer") /\ ~At(r, "absent")
  BY <1>1, HeadAt
<1>4. now' \in Nat
  BY <1>1, <1>2, HeadIsAlone DEF Pop, Event
<1>5. PICK a : a = Ev(now', "REQUEST_REJECTED", r, "none")
  OBVIOUS
<1>6. a \in Event /\ a.time = now' /\ a.type = "REQUEST_REJECTED" /\ a.req = r
  <2>1. r \in Nat /\ "none" \in Nodes \cup {"none"} /\ "REQUEST_REJECTED" \in Types
    BY Constants DEF Types
  <2> QED
    BY <1>4, <1>5, <2>1, EventFacts
<1> DEFINE es == <<a>>
<1>7. /\ Handle(es) /\ pending' = pending \ {r}
      /\ decisions' = [decisions EXCEPT ![r] = NoDecision]
  BY <1>3, <1>5 DEF TransferRejected
<1>8. es \in Seq(Event) /\ ToSet(es) = {a} /\ Apart(es, Clash)
  BY <1>6, ShortLists
<1> HIDE DEF es
<1>9. \A e \in ToSet(es) : /\ e.time >= now' /\ Free(e) /\ Fits(e)'
                           /\ e.type # "REQUEST_ARRIVE" /\ e.type # "DECODE_BATCH_STEP"
                           /\ e.req = r
  <2>1. Free(a)
    BY <1>1, <1>2, <1>3, <1>6, FreeFacts DEF Carriers
  <2>2. Fits(a)'
    BY <1>6 DEF Fits
  <2> QED
    BY <1>4, <1>6, <1>8, <2>1, <2>2
<1>10. Queued' = Rest \cup ToSet(es)
  BY <1>1, <1>2, <1>7, <1>8, <1>9, QueueStep
<1>11. /\ DOMAIN nodes' = Nodes /\ \A n \in Nodes : WellFormed(nodes'[n]) /\ WellFormed(nodes[n])
       /\ DOMAIN decisions = Requests
  BY <1>1, <1>2 DEF Typed
<1>12. /\ DOMAIN decisions' = Requests /\ decisions'[r] = NoDecision /\ r \notin Decided'
       /\ \A q \in Requests : q # r => decisions'[q] = decisions[q]
  BY <1>7, <1>11 DEF Decided
<1>13. At(r, "refused")'
  <2>1. Placed(r, "refused")'
    <3>1. \A n \in Nodes : r \notin Waiting(nodes[n]) /\ r \notin Running(nodes[n])
                           /\ r \notin Prefilling(nodes[n]) /\ r \notin nodes[n].decoding
      BY <1>3 DEF At, Placed
    <3> QED
      BY <1>1, <3>1 DEF Placed
  <2>2. Carried(r, "refused")'
    <3>1. \A c \in Carriers : Has(r, c) => r = Req /\ c = type
      BY <1>3 DEF At, Carried, Carriers
    <3>2. Bears(ToSet(es), r, "refused")
      BY <1>6, <1>8 DEF Bears, HasIn
    <3> QED
      BY <1>1, <1>2, <1>10, <3>1, <3>2, CarriedAfter
  <2>3. Booked(r, "refused")'
    BY <1>1, <1>3, <1>7, <1>12 DEF At, Booked, Outside
  <2> QED
    BY <2>1, <2>2, <2>3 DEF At
<1>14. \A n : ~StepIn(ToSet(es), n)
  BY <1>9 DEF StepIn
<1>15. \A n : StepIn(Queued', n) <=> StepIn(Queued, n)
  BY <1>1, <1>2, <1>10, <1>14, HasAfter
<1>16. \A n \in Nodes : Awake(n)'
  <2>1. \A n \in Nodes : Awake(n) /\ nodes'[n] = nodes[n]
    BY <1>1 DEF Inv
  <2> QED
    BY <1>11, <1>15, <2>1, StaysAwake
<1>17. /\ pending' \subseteq Requests /\ tables' \subseteq Requests
       /\ egressAvailableAt' \in [Nodes -> Nat] /\ ingressAvailableAt' \in [Nodes -> Nat]
  BY <1>1, <1>2, <1>7 DEF Typed
<1> DEFINE Mv == {r}
<1>18. Mv \in SUBSET Requests /\ Req \in Mv /\ \A q : q \in Mv <=> q = r
  BY <1>3
<1> HIDE DEF Mv, type
<1>19. \A q \in Mv : ~At(q, "absent") /\ \E k \in Positions : At(q, k)'
  BY <1>3, <1>13, <1>18 DEF Positions
<1>20. \A q \in Requests \ Mv :
         /\ q \in pending' <=> q \in pending
         /\ q \in tables' <=> q \in tables
         /\ \A n \in Nodes : /\ q \in Waiting(nodes'[n]) <=> q \in Waiting(nodes[n])
                             /\ q \in Running(nodes'[n]) <=> q \in Running(nodes[n])
                             /\ q \in Prefilling(nodes'[n]) <=> q \in Prefilling(nodes[n])
                             /\ q \in nodes'[n].decoding <=> q \in nodes[n].decoding
  BY <1>1, <1>7, <1>18
<1>21. \A e \in ToSet(es) : /\ e.time >= now' /\ Free(e) /\ Fits(e)'
                            /\ e.type # "REQUEST_ARRIVE"
                            /\ e.type \in Carriers => e.req \in Mv
  BY <1>9, <1>18
<1>22. \A q \in Requests : q # Req => decisions'[q] = decisions[q]
  BY <1>3, <1>12
<1>23. Req \notin Decided'
  BY <1>3, <1>12
<1> QED
  BY <1>1, <1>7, <1>8, <1>11, <1>12, <1>16, <1>17, <1>18, <1>19, <1>20, <1>21, <1>22, <1>23, MoveInv

(* KV_TRANSFER_COMPLETE, the decode node has a slot.                         *)
LEMMA TransferAdmittedInv ==
  ASSUME Inv, TransferAdmitted
  PROVE  Inv'
<1> DEFINE type == "KV_TRANSFER_COMPLETE"
<1>1. /\ Pop(type) /\ type \in Carriers /\ type # "DECODE_BATCH_STEP"
      /\ type \in Types \ {"REQUEST_ARRIVE"}
      /\ UNCHANGED <<decisions, egressAvailableAt, ingressAvailableAt>>
  BY DEF TransferAdmitted, laneVars, Carriers, Types
<1>2. Typed /\ Apart(events, Clash)
  BY DEF Inv
<1>3. PICK r \in Requests : r = Req /\ At(r, "transfer") /\ ~At(r, "absent")
  BY <1>1, HeadAt
<1>4. PICK d : d = decisions[r].decode
  OBVIOUS
<1>5. d \in DecodeNodes /\ d \in Nodes
  <2>1. r \in Decided
    BY <1>3 DEF At, Booked, Outside
  <2> QED
    BY <1>2, <1>4, <2>1, Constants DEF Typed
<1>6. now' \in Nat
  BY <1>1, <1>2, HeadIsAlone DEF Pop, Event
<1> DEFINE N == nodes[d]
           C == Admit(N, r, 0)
           B == StartDecode(C, r)
           A == Woken(B)
           es == WakeEvents(B, d, now')
<1>7. /\ nodes' = [nodes EXCEPT ![d] = A] /\ Handle(es) /\ HasRoom(N)
      /\ pending' = pending \ {r} /\ tables' \in {tables, tables \cup {r}}
  BY <1>3, <1>4 DEF TransferAdmitted
<1>8. PICK a : a = Ev(now', "DECODE_BATCH_STEP", 0, d)
  OBVIOUS
<1>9. a \in Event /\ a.time = now' /\ a.type = "DECODE_BATCH_STEP" /\ a.req = 0 /\ a.node = d
  <2>1. d \in Nodes \cup {"none"} /\ "DECODE_BATCH_STEP" \in Types
    BY <1>5 DEF Types
  <2> QED
    BY <1>6, <1>8, <2>1, EventFacts
<1>10. /\ WellFormed(N) /\ DOMAIN nodes = Nodes
       /\ r \notin Running(N) \cup Waiting(N) /\ r \notin Prefilling(N)
  BY <1>2, <1>3, <1>5 DEF Typed, At, Placed
<1> HIDE DEF A, B, C, es
<1>11. /\ WellFormed(C) /\ C.queue = N.queue /\ Running(C) = Running(N) \cup {r}
       /\ C.decoding = N.decoding /\ C.prefill = N.prefill /\ C.inFlight = N.inFlight
  BY <1>7, <1>10, AdmitFacts DEF C
<1>12. r \in Running(C) /\ r \notin Prefilling(C) /\ Waiting(C) = Waiting(N)
  BY <1>10, <1>11 DEF Prefilling, Waiting
<1>13. /\ WellFormed(B) /\ SameSlots(C, B) /\ B.decoding = C.decoding \cup {r}
       /\ B.prefill = C.prefill /\ B.inFlight = C.inFlight
  BY <1>11, <1>12, StartDecodeFacts DEF B
<1>14. /\ WellFormed(A) /\ SameSlots(B, A) /\ A.decoding = B.decoding /\ A.prefill = B.prefill
  BY <1>13, WokenFacts DEF A
<1>15. /\ Running(A) = Running(N) \cup {r} /\ Waiting(A) = Waiting(N)
       /\ Prefilling(A) = Prefilling(N) /\ A.decoding = N.decoding \cup {r}
  BY <1>11, <1>12, <1>13, <1>14 DEF SameSlots, Running, Waiting, Prefilling
<1>16. HasWork(B) /\ B.inFlight = N.inFlight
  BY <1>11, <1>13 DEF HasWork
<1>17. /\ es \in Seq(Event) /\ Apart(es, Clash)
       /\ ToSet(es) = IF MustWake(B) THEN {a} ELSE {}
  BY <1>5, <1>6, <1>8, WakeEventsFacts DEF es
<1>18. MustWake(B) => ~StepIn(Queued, d)
  <2>1. Awake(d)
    BY <1>5 DEF Inv
  <2> QED
    BY <1>16, <2>1 DEF MustWake, Awake
<1>19. \A e \in ToSet(es) : /\ e.time >= now' /\ Free(e) /\ Fits(e)'
                            /\ e.type = "DECODE_BATCH_STEP" /\ e.node = d
  <2>1. MustWake(B) => Free(a)
    BY <1>1, <1>2, <1>9, <1>18, FreeFacts
  <2>2. Fits(a)'
    BY <1>5, <1>9 DEF Fits
  <2> QED
    BY <1>6, <1>9, <1>17, <2>1, <2>2
<1>20. Queued' = Rest \cup ToSet(es)
  BY <1>1, <1>2, <1>7, <1>17, <1>19, QueueStep
<1>21. DOMAIN nodes' = Nodes /\ nodes'[d] = A /\ \A n \in Nodes : n # d => nodes'[n] = nodes[n]
  BY <1>5, <1>7, <1>10
<1>22. \A n \in Nodes : WellFormed(nodes'[n]) /\ WellFormed(nodes[n])
  BY <1>2, <1>14, <1>21 DEF Typed
<1>23. At(r, "decoding")'
  <2>1. Placed(r, "decoding")'
    <3> SUFFICES ASSUME NEW n \in Nodes
                 PROVE  /\ r \notin Waiting(nodes'[n])
                        /\ r \in Running(nodes'[n]) <=> n = d
                        /\ r \notin Prefilling(nodes'[n])
                        /\ r \in nodes'[n].decoding <=> n = d
      BY <1>1, <1>4 DEF Placed
    <3>1. /\ r \notin Waiting(nodes[n]) /\ r \notin Running(nodes[n])
          /\ r \notin Prefilling(nodes[n]) /\ r \notin nodes[n].decoding
      BY <1>3 DEF At, Placed
    <3> QED
      BY <1>15, <1>21, <3>1
  <2>2. Carried(r, "decoding")'
    <3>1. \A c \in Carriers : Has(r, c) => r = Req /\ c = type
      BY <1>3 DEF At, Carried, Carriers
    <3>2. Bears(ToSet(es), r, "decoding")
      BY <1>19 DEF Bears, HasIn
    <3> QED
      BY <1>1, <1>2, <1>20, <3>1, <3>2, CarriedAfter
  <2>3. Booked(r, "decoding")'
    BY <1>1, <1>3, <1>7 DEF At, Booked, Decided, Outside
  <2> QED
    BY <2>1, <2>2, <2>3 DEF At
<1>24. /\ StepIn(ToSet(es), d) <=> MustWake(B)
       /\ \A n : n # d => ~StepIn(ToSet(es), n)
  BY <1>9, <1>17 DEF StepIn
<1>25. \A n : StepIn(Queued', n) <=> StepIn(Queued, n) \/ StepIn(ToSet(es), n)
  BY <1>1, <1>2, <1>20, HasAfter
<1>26. \A n \in Nodes : Awake(n)'
  <2>1. Awake(d)'
    <3>1. Awake(d)
      BY <1>5 DEF Inv
    <3>2. StepIn(Queued', d) <=> StepIn(Queued, d) \/ MustWake(B)
      BY <1>24, <1>25
    <3>3. nodes'[d] = Woken(B)
      BY <1>21 DEF A
    <3> QED
      BY <1>5, <1>13, <1>16, <3>1, <3>2, <3>3, WakesUp
  <2>2. ASSUME NEW n \in Nodes, n # d
        PROVE  Awake(n)'
    <3>1. Awake(n) /\ nodes'[n] = nodes[n] /\ (StepIn(Queued', n) <=> StepIn(Queued, n))
      BY <1>21, <1>24, <1>25, <2>2 DEF Inv
    <3> QED
      BY <1>22, <3>1, StaysAwake
  <2> QED
    BY <2>1, <2>2
<1>27. /\ DOMAIN decisions' = Requests /\ pending' \subseteq Requests /\ tables' \subseteq Requests
       /\ egressAvailableAt' \in [Nodes -> Nat] /\ ingressAvailableAt' \in [Nodes -> Nat]
       /\ Req \in Decided' => /\ decisions'[Req].prefill \in PrefillNodes
                              /\ decisions'[Req].decode \in DecodeNodes
  BY <1>1, <1>2, <1>7 DEF Typed, Decided
<1> DEFINE Mv == {r}
<1>28. Mv \in SUBSET Requests /\ Req \in Mv /\ \A q : q \in Mv <=> q = r
  BY <1>3
<1> HIDE DEF Mv, type
<1>29. \A q \in Mv : ~At(q, "absent") /\ \E k \in Positions : At(q, k)'
  BY <1>3, <1>23, <1>28 DEF Positions
<1>30. \A q \in Requests \ Mv :
         /\ q \in pending' <=> q \in pending
         /\ q \in tables' <=> q \in tables
         /\ \A n \in Nodes : /\ q \in Waiting(nodes'[n]) <=> q \in Waiting(nodes[n])
                             /\ q \in Running(nodes'[n]) <=> q \in Running(nodes[n])
                             /\ q \in Prefilling(nodes'[n]) <=> q \in Prefilling(nodes[n])
                             /\ q \in nodes'[n].decoding <=> q \in nodes[n].decoding
  BY <1>7, <1>15, <1>21, <1>28
<1>31. \A e \in ToSet(es) : /\ e.time >= now' /\ Free(e) /\ Fits(e)'
                            /\ e.type # "REQUEST_ARRIVE"
                            /\ e.type \in Carriers => e.req \in Mv
  BY <1>19 DEF Carriers
<1> QED
  BY <1>1, <1>7, <1>17, <1>21, <1>22, <1>26, <1>27, <1>28, <1>29, <1>30, <1>31, MoveInv, SMTT(40)

(* DECODE_COMPLETE.                                                          *)
LEMMA DecodeCompleteInv ==
  ASSUME Inv, DecodeComplete
  PROVE  Inv'
<1> DEFINE type == "DECODE_COMPLETE"
<1>1. /\ Pop(type) /\ type \in Carriers /\ type # "DECODE_BATCH_STEP"
      /\ type \in Types \ {"REQUEST_ARRIVE"}
      /\ UNCHANGED <<pending, egressAvailableAt, ingressAvailableAt>>
  BY DEF DecodeComplete, laneVars, Carriers, Types
<1>2. Typed /\ Apart(events, Clash)
  BY DEF Inv
<1>3. PICK r \in Requests : r = Req /\ At(r, "decoded") /\ ~At(r, "absent")
  BY <1>1, HeadAt
<1>4. PICK d : d = Node
  OBVIOUS
<1>5. d = decisions[r].decode /\ d \in DecodeNodes /\ d \in Nodes
  <2>1. Fits(Head(events)) /\ Head(events).type = type
    BY <1>1, <1>2, HeadAt, HeadIsAlone
  <2>2. d = decisions[r].decode
    BY <1>3, <1>4, <2>1 DEF Fits, Req, Node
  <2>3. r \in Decided
    BY <1>3 DEF At, Booked, Outside
  <2> QED
    BY <1>2, <2>2, <2>3, Constants DEF Typed
<1>6. now' \in Nat
  BY <1>1, <1>2, HeadIsAlone DEF Pop, Event
<1> DEFINE N == nodes[d]
           B == Complete(N, r)
           A == Woken(B)
           es == WakeEvents(B, d, now')
<1>7. /\ nodes' = [nodes EXCEPT ![d] = A] /\ Handle(es) /\ tables' = tables \ {r}
      /\ decisions' = [decisions EXCEPT ![r] = NoDecision]
  BY <1>3, <1>4 DEF DecodeComplete
<1>8. /\ WellFormed(N) /\ DOMAIN nodes = Nodes /\ r \in Running(N)
      /\ r \notin Prefilling(N) \cup N.decoding
  BY <1>2, <1>3, <1>5 DEF Typed, At, Placed
<1>9. N.queue = <<>>
  <2> SUFFICES ASSUME N.queue # <<>>
               PROVE  FALSE
    OBVIOUS
  <2>1. PICK q \in Requests : q \in Waiting(N)
    <3>1. N.queue \in Seq(Requests)
      BY <1>8, NodeTypes
    <3>2. Head(N.queue) \in Requests /\ Head(N.queue) \in ToSet(N.queue)
      BY <3>1, PopFacts
    <3> QED
      BY <3>2 DEF Waiting
  <2>2. PICK k \in Positions : At(q, k)
    BY DEF Inv
  <2>3. k = "waiting" /\ decisions[q].prefill = d
    BY <1>5, <2>1, <2>2 DEF At, Placed
  <2>4. q \in Decided
    BY <2>2, <2>3 DEF At, Booked, Outside
  <2> QED
    BY <1>2, <1>5, <2>3, <2>4, Constants DEF Typed
<1> HIDE DEF A, B, es
<1>10. /\ WellFormed(B) /\ B.queue = <<>> /\ Running(B) = Running(N) \ {r}
       /\ B.decoding = N.decoding /\ B.prefill = N.prefill /\ B.inFlight = N.inFlight
  BY <1>8, <1>9, CompleteFacts, ZenonT(40) DEF B
<1>11. /\ WellFormed(A) /\ SameSlots(B, A) /\ A.decoding = B.decoding /\ A.prefill = B.prefill
  BY <1>10, WokenFacts DEF A
<1>12. /\ Running(A) = Running(N) \ {r} /\ Waiting(A) = Waiting(N)
       /\ Prefilling(A) = Prefilling(N) /\ A.decoding = N.decoding
       /\ HasWork(B) <=> HasWork(N)
  BY <1>9, <1>10, <1>11 DEF SameSlots, Running, Waiting, Prefilling, HasWork
<1>13. ~MustWake(B)
  <2>1. Awake(d)
    BY <1>5 DEF Inv
  <2> QED
    BY <1>10, <1>12, <2>1 DEF MustWake, Awake
<1>14. /\ es \in Seq(Event) /\ Apart(es, Clash) /\ ToSet(es) = {}
  BY <1>5, <1>6, <1>13, WakeEventsFacts DEF es
<1>15. Queued' = Rest \cup ToSet(es)
  BY <1>1, <1>2, <1>7, <1>14, QueueStep
<1>16. DOMAIN nodes' = Nodes /\ nodes'[d] = A /\ \A n \in Nodes : n # d => nodes'[n] = nodes[n]
  BY <1>5, <1>7, <1>8
<1>17. \A n \in Nodes : WellFormed(nodes'[n]) /\ WellFormed(nodes[n])
  BY <1>2, <1>11, <1>16 DEF Typed
<1>18. /\ DOMAIN decisions' = Requests /\ decisions'[r] = NoDecision /\ r \notin Decided'
       /\ \A q \in Requests : q # r => decisions'[q] = decisions[q]
  BY <1>2, <1>7 DEF Decided, Typed
<1>19. At(r, "absent")'
  <2>1. Placed(r, "absent")'
    <3> SUFFICES ASSUME NEW n \in Nodes
                 PROVE  /\ r \notin Waiting(nodes'[n]) /\ r \notin Running(nodes'[n])
                        /\ r \notin Prefilling(nodes'[n]) /\ r \notin nodes'[n].decoding
      BY DEF Placed
    <3>1. /\ r \notin Waiting(nodes[n]) /\ (n # d => r \notin Running(nodes[n]))
          /\ r \notin Prefilling(nodes[n]) /\ r \notin nodes[n].decoding
      BY <1>3, <1>5 DEF At, Placed
    <3> QED
      BY <1>12, <1>16, <3>1
  <2>2. Carried(r, "absent")'
    <3>1. \A c \in Carriers : Has(r, c) => r = Req /\ c = type
      BY <1>3 DEF At, Carried, Carriers
    <3>2. Bears(ToSet(es), r, "absent")
      BY <1>14 DEF Bears, HasIn
    <3> QED
      BY <1>1, <1>2, <1>15, <3>1, <3>2, CarriedAfter
  <2>3. Booked(r, "absent")'
    BY <1>1, <1>3, <1>7, <1>18 DEF At, Booked, Outside
  <2> QED
    BY <2>1, <2>2, <2>3 DEF At
<1>20. \A n : StepIn(Queued', n) <=> StepIn(Queued, n)
  <2>1. \A n : ~StepIn(ToSet(es), n)
    BY <1>14 DEF StepIn
  <2> QED
    BY <1>1, <1>2, <1>15, <2>1, HasAfter
<1>21. \A n \in Nodes : Awake(n)'
  <2>1. Awake(d)'
    <3>1. Awake(d)
      BY <1>5 DEF Inv
    <3>2. StepIn(Queued', d) <=> StepIn(Queued, d) \/ MustWake(B)
      BY <1>13, <1>20
    <3>3. nodes'[d] = Woken(B)
      BY <1>16 DEF A
    <3>4. B.inFlight = nodes[d].inFlight /\ (HasWork(nodes[d]) => HasWork(B))
      BY <1>10, <1>12
    <3> QED
      BY <1>5, <1>10, <3>1, <3>2, <3>3, <3>4, WakesUp
  <2>2. ASSUME NEW n \in Nodes, n # d
        PROVE  Awake(n)'
    <3>1. Awake(n) /\ nodes'[n] = nodes[n] /\ (StepIn(Queued', n) <=> StepIn(Queued, n))
      BY <1>16, <1>20, <2>2 DEF Inv
    <3> QED
      BY <1>17, <3>1, StaysAwake
  <2> QED
    BY <2>1, <2>2
<1>22. /\ pending' \subseteq Requests /\ tables' \subseteq Requests
       /\ egressAvailableAt' \in [Nodes -> Nat] /\ ingressAvailableAt' \in [Nodes -> Nat]
  BY <1>1, <1>2, <1>7 DEF Typed
<1> DEFINE Mv == {r}
<1>23. Mv \in SUBSET Requests /\ Req \in Mv /\ \A q : q \in Mv <=> q = r
  BY <1>3
<1> HIDE DEF Mv, type
<1>24. \A q \in Mv : ~At(q, "absent") /\ \E k \in Positions : At(q, k)'
  BY <1>3, <1>19, <1>23 DEF Positions
<1>25. \A q \in Requests \ Mv :
         /\ q \in pending' <=> q \in pending
         /\ q \in tables' <=> q \in tables
         /\ \A n \in Nodes : /\ q \in Waiting(nodes'[n]) <=> q \in Waiting(nodes[n])
                             /\ q \in Running(nodes'[n]) <=> q \in Running(nodes[n])
                             /\ q \in Prefilling(nodes'[n]) <=> q \in Prefilling(nodes[n])
                             /\ q \in nodes'[n].decoding <=> q \in nodes[n].decoding
  BY <1>1, <1>7, <1>12, <1>16, <1>23
<1>26. \A q \in Requests : q # Req => decisions'[q] = decisions[q]
  BY <1>3, <1>18
<1>27. Req \notin Decided'
  BY <1>3, <1>18
<1>28. \A e \in ToSet(es) : /\ e.time >= now' /\ Free(e) /\ Fits(e)'
                            /\ e.type # "REQUEST_ARRIVE"
                            /\ e.type \in Carriers => e.req \in Mv
  BY <1>14
<1>29. /\ es \in Seq(Event) /\ Handle(es) /\ Apart(es, Clash) /\ DOMAIN decisions' = Requests
       /\ DOMAIN nodes' = Nodes /\ \A n \in Nodes : WellFormed(nodes'[n])
  BY <1>7, <1>14, <1>16, <1>17, <1>18
<1> QED
  BY <1>1, <1>21, <1>22, <1>23, <1>24, <1>25, <1>26, <1>27, <1>28, <1>29, MoveInv

(* The completions that a step schedules: one for each finished request.     *)
Completions(t, type, s, n) == [i \in DOMAIN s |-> Ev(t, type, s[i], n)]

(* They are events that do not clash, one for each request of the set.       *)
LEMMA CompletionList ==
  ASSUME NEW S \in SUBSET Requests, NEW t \in Nat, NEW n \in Nodes,
         NEW type \in Carriers,
         NEW s \in Seq(S), ToSet(s) = S, IsInjective(s)
  PROVE  /\ Completions(t, type, s, n) \in Seq(Event)
         /\ Apart(Completions(t, type, s, n), Clash)
         /\ \A e \in ToSet(Completions(t, type, s, n)) :
              e \in Event /\ e.time = t /\ e.type = type /\ e.node = n /\ e.req \in S
         /\ \A x \in S : \E e \in ToSet(Completions(t, type, s, n)) : e.req = x /\ e.type = type
<1> DEFINE m == Completions(t, type, s, n)
<1>1. /\ DOMAIN s = 1..Len(s) /\ Len(s) \in Nat
      /\ \A i \in DOMAIN s : s[i] \in S /\ s[i] \in Nat
  <2>1. /\ DOMAIN s = 1..Len(s) /\ Len(s) \in Nat /\ \A i \in DOMAIN s : s[i] \in S
    OBVIOUS
  <2>2. \A x \in S : x \in Nat /\ x \in Requests
    BY Constants
  <2> QED
    BY <2>1, <2>2
<1>2. /\ DOMAIN m = DOMAIN s /\ \A i \in DOMAIN s : m[i] = Ev(t, type, s[i], n)
  BY DEF Completions
<1>4. m \in Seq(Event)
  <2>1. \A i \in DOMAIN s : Ev(t, type, s[i], n) \in Event
    <3>1. n \in Nodes \cup {"none"} /\ type \in Types
      BY DEF Types, Carriers
    <3> QED
      BY <1>1, <3>1, EventFacts
  <2> QED
    BY <1>1, <2>1 DEF Completions
<1> HIDE DEF m
<1>3. \A i \in DOMAIN s : /\ m[i] \in Event /\ m[i].time = t /\ m[i].type = type
                         /\ m[i].req = s[i] /\ m[i].node = n
  <2>1. n \in Nodes \cup {"none"} /\ type \in Types
    BY DEF Types, Carriers
  <2> QED
    BY <1>1, <1>2, <2>1, EventFacts
<1>5. \A i, j \in DOMAIN s : i # j => <<m[i], m[j]>> \notin Clash
  <2> SUFFICES ASSUME NEW i \in DOMAIN s, NEW j \in DOMAIN s, i # j
               PROVE  <<m[i], m[j]>> \notin Clash
    OBVIOUS
  <2>1. m[i] \in Event /\ m[j] \in Event /\ m[i].req # m[j].req /\ m[i].type # "DECODE_BATCH_STEP"
    BY <1>3 DEF IsInjective, Carriers
  <2> QED
    BY <2>1, ClashFacts
<1>6. Apart(m, Clash)
  BY <1>2, <1>5 DEF Apart
<1>7. \A x \in S : \E i \in DOMAIN s : s[i] = x
  BY DEF ToSet
<1>8. /\ \A e \in ToSet(m) : \E i \in DOMAIN s : e = m[i]
      /\ \A i \in DOMAIN s : m[i] \in ToSet(m)
  BY <1>2 DEF ToSet
<1>9. \A e \in ToSet(m) : /\ e \in Event /\ e.time = t /\ e.type = type /\ e.node = n
                         /\ e.req \in S
  BY <1>1, <1>3, <1>8
<1>10. \A x \in S : \E e \in ToSet(m) : e.req = x /\ e.type = type
  <2> SUFFICES ASSUME NEW x \in S
               PROVE  \E e \in ToSet(m) : e.req = x /\ e.type = type
    OBVIOUS
  <2>1. PICK i \in DOMAIN s : s[i] = x
    BY <1>7
  <2>2. m[i] \in ToSet(m) /\ m[i].req = x /\ m[i].type = type
    BY <1>3, <1>8, <2>1
  <2> QED
    BY <2>2
<1> QED
  BY <1>4, <1>6, <1>9, <1>10 DEF m

(* The tokens that a step schedules: one for each stream.                    *)
Tokens(t, s, f) == [i \in DOMAIN s |-> Token(t, s[i], f[s[i]])]

(* They are events that clash with nothing, each with its stream's count.    *)
LEMMA TokenList ==
  ASSUME NEW S \in SUBSET Requests, NEW t \in Nat, NEW f \in [Requests -> Nat],
         NEW s \in Seq(S), ToSet(s) = S, IsInjective(s)
  PROVE  /\ Tokens(t, s, f) \in Seq(Event) /\ Apart(Tokens(t, s, f), Clash)
         /\ \A e \in ToSet(Tokens(t, s, f)) :
              /\ e \in Event /\ e.time = t /\ e.type = "TOKEN_GENERATED"
              /\ e.req \in S /\ e.step = f[e.req]
         /\ \A x \in S : \E e \in ToSet(Tokens(t, s, f)) : e.req = x
<1> DEFINE m == Tokens(t, s, f)
<1>1. /\ DOMAIN s = 1..Len(s) /\ Len(s) \in Nat
      /\ \A i \in DOMAIN s : s[i] \in S /\ s[i] \in Nat /\ f[s[i]] \in Nat
  <2>1. /\ DOMAIN s = 1..Len(s) /\ Len(s) \in Nat /\ \A i \in DOMAIN s : s[i] \in S
    OBVIOUS
  <2>2. \A x \in S : x \in Nat /\ x \in Requests
    BY Constants
  <2> QED
    BY <2>1, <2>2
<1>2. /\ DOMAIN m = DOMAIN s /\ \A i \in DOMAIN s : m[i] = Token(t, s[i], f[s[i]])
  BY DEF Tokens
<1>4. m \in Seq(Event)
  <2>1. \A i \in DOMAIN s : Token(t, s[i], f[s[i]]) \in Event
    BY <1>1 DEF Token, Event, Types
  <2> QED
    BY <1>1, <2>1 DEF Tokens
<1> HIDE DEF m
<1>3. \A i \in DOMAIN s : /\ m[i] \in Event /\ m[i].time = t /\ m[i].type = "TOKEN_GENERATED"
                         /\ m[i].req = s[i] /\ m[i].step = f[s[i]]
  <2> SUFFICES ASSUME NEW i \in DOMAIN s
               PROVE  /\ m[i] \in Event /\ m[i].time = t /\ m[i].type = "TOKEN_GENERATED"
                      /\ m[i].req = s[i] /\ m[i].step = f[s[i]]
    OBVIOUS
  <2>1. s[i] \in Nat /\ f[s[i]] \in Nat /\ m[i] = Token(t, s[i], f[s[i]])
    BY <1>1, <1>2
  <2>2. \A x, k \in Nat : /\ Token(t, x, k) \in Event /\ Token(t, x, k).time = t
                         /\ Token(t, x, k).type = "TOKEN_GENERATED"
                         /\ Token(t, x, k).req = x /\ Token(t, x, k).step = k
    BY DEF Token, Event, Types
  <2>3. PICK x \in Nat, k \in Nat : x = s[i] /\ k = f[s[i]]
    BY <2>1
  <2>4. m[i] = Token(t, x, k)
    BY <2>1, <2>3
  <2> QED
    BY <2>2, <2>3, <2>4
<1>5. \A i, j \in DOMAIN s : i # j => <<m[i], m[j]>> \notin Clash
  <2> SUFFICES ASSUME NEW i \in DOMAIN s, NEW j \in DOMAIN s, i # j
               PROVE  <<m[i], m[j]>> \notin Clash
    OBVIOUS
  <2>1. /\ m[i] \in Event /\ m[j] \in Event
        /\ m[i].type # "DECODE_BATCH_STEP" /\ m[i].type \notin Carriers
    BY <1>3 DEF Carriers
  <2> QED
    BY <2>1, ClashFacts
<1>6. Apart(m, Clash)
  BY <1>2, <1>5 DEF Apart
<1>7. \A x \in S : \E i \in DOMAIN s : s[i] = x
  BY DEF ToSet
<1>8. /\ \A e \in ToSet(m) : \E i \in DOMAIN s : e = m[i]
      /\ \A i \in DOMAIN s : m[i] \in ToSet(m)
  BY <1>2 DEF ToSet
<1>9. \A e \in ToSet(m) : /\ e \in Event /\ e.time = t /\ e.type = "TOKEN_GENERATED"
                         /\ e.req \in S /\ e.step = f[e.req]
  BY <1>1, <1>3, <1>8
<1>10. \A x \in S : \E e \in ToSet(m) : e.req = x
  <2> SUFFICES ASSUME NEW x \in S
               PROVE  \E e \in ToSet(m) : e.req = x
    OBVIOUS
  <2>1. PICK i \in DOMAIN s : s[i] = x
    BY <1>7
  <2>2. m[i] \in ToSet(m) /\ m[i].req = x
    BY <1>3, <1>8, <2>1
  <2> QED
    BY <2>2
<1> QED
  BY <1>4, <1>6, <1>9, <1>10 DEF m

(* A node whose flag is cleared when its step begins.                        *)
Cleared(N) == [N EXCEPT !.inFlight = FALSE]

(* Nothing but the flag changes, and the step takes a natural time.          *)
LEMMA ClearedFacts ==
  ASSUME NEW N, WellFormed(N)
  PROVE  /\ WellFormed(Cleared(N)) /\ SameSlots(N, Cleared(N))
         /\ Cleared(N).inFlight = FALSE /\ Cleared(N).decoding = N.decoding
         /\ Cleared(N).prefill = N.prefill /\ Cleared(N).tokens = N.tokens
         /\ Prefilling(Cleared(N)) = Prefilling(N)
         /\ StepTime(Cleared(N)) \in Nat
<1> DEFINE W == Cleared(N)
<1>1. N \in NodeValue
  BY DEF WellFormed
<1>2. /\ W \in NodeValue /\ W.inFlight = FALSE
      /\ W.running = N.running /\ W.queue = N.queue /\ W.decoding = N.decoding
      /\ W.prefill = N.prefill /\ W.tokens = N.tokens
      /\ W.phase = N.phase /\ W.uncached = N.uncached
  BY <1>1 DEF NodeValue, Cleared
<1> HIDE DEF W
<1>3. Running(W) = Running(N) /\ Waiting(W) = Waiting(N) /\ Prefilling(W) = Prefilling(N)
      /\ HasRoom(W) = HasRoom(N)
  BY <1>2 DEF Running, Waiting, Prefilling, HasRoom
<1>4. WellFormed(W)
  BY <1>2, <1>3 DEF WellFormed
<1>5. Chunk(W) \in Nat
  <2>1. W.prefill \in Seq(PrefillEntry) /\ ChunkSize \in Nat
    BY <1>4, NodeTypes, NodeAssumption
  <2>2. W.prefill # <<>> => Head(W.prefill).left \in Nat
    <3>1. W.prefill # <<>> => Head(W.prefill) \in PrefillEntry
      BY <2>1, PopFacts
    <3> QED
      BY <3>1 DEF PrefillEntry
  <2> QED
    BY <2>1, <2>2 DEF Chunk
<1>6. Cardinality(W.decoding) \in Nat
  <2>1. W.decoding \in SUBSET Requests
    BY <1>4, NodeTypes
  <2>2. IsFiniteSet(W.decoding)
    BY <2>1, Constants, FS_Subset
  <2> QED
    BY <2>2, FS_CardinalityType
<1>7. StepTime(W) \in Nat
  <2>1. /\ PrefillCost \in Nat /\ DecodeBase \in Nat /\ MarginalDecode \in Nat
    BY NodeAssumption
  <2>2. \A x, y \in Nat : x * y \in Nat /\ x + y \in Nat
    OBVIOUS
  <2>3. /\ Chunk(W) * PrefillCost \in Nat
        /\ DecodeBase + Cardinality(W.decoding) * MarginalDecode \in Nat
    BY <1>5, <1>6, <2>1, <2>2
  <2>4. (IF W.decoding = {} THEN 0
         ELSE DecodeBase + Cardinality(W.decoding) * MarginalDecode) \in Nat
    BY <2>3
  <2> QED
    BY <2>2, <2>3, <2>4 DEF StepTime
<1> QED
  BY <1>2, <1>3, <1>4, <1>7 DEF SameSlots, W

(* DECODE_BATCH_STEP: the finished requests move on together.                *)
LEMMA BatchStepInv ==
  ASSUME Inv, BatchStep
  PROVE  Inv'
<1> DEFINE type == "DECODE_BATCH_STEP"
<1>1. /\ Pop(type) /\ type \notin Carriers /\ type \in Types \ {"REQUEST_ARRIVE"}
      /\ UNCHANGED <<decisions, pending, tables, egressAvailableAt, ingressAvailableAt>>
  BY DEF BatchStep, laneVars, Carriers, Types
<1>2. Typed /\ Apart(events, Clash)
  BY DEF Inv
<1>3. PICK n : n = Node
  OBVIOUS
<1>4. n \in Nodes /\ now' \in Nat
  <2>1. Head(events) \in Queued /\ Head(events).type = type /\ Head(events) \in Event
    BY <1>1, <1>2, HeadIsAlone
  <2>2. Fits(Head(events))
    BY <2>1 DEF Inv
  <2> QED
    BY <1>1, <1>3, <2>1, <2>2 DEF Fits, Node, Pop, Event
<1> DEFINE N == nodes[n]
<1>5. PICK W : W = Cleared(N)
  OBVIOUS
<1>6. PICK T, PF, DF, end : /\ T = TickBatchStep(W) /\ PF = PrefillFinished(W)
                            /\ DF = DecodeFinished(W) /\ end = now' + StepTime(W)
  OBVIOUS
<1>7. PICK sp, ss, sf : sp = SetToSeq(PF) /\ ss = SetToSeq(W.decoding) /\ sf = SetToSeq(DF)
  OBVIOUS
<1>8. PICK mp, ms, mf : /\ mp = Completions(end, "PREFILL_COMPLETE", sp, n)
                        /\ ms = Tokens(end, ss, W.tokens)
                        /\ mf = Completions(end, "DECODE_COMPLETE", sf, n)
  OBVIOUS
<1> DEFINE we == WakeEvents(T, n, end)
           es == mp \o ms \o mf \o we
           A == Woken(T)
<1>9. Handle(es) /\ nodes' = [nodes EXCEPT ![n] = A]
  BY <1>3, <1>5, <1>6, <1>7, <1>8 DEF BatchStep, Cleared, Completions, Tokens
<1> HIDE DEF we, es, A
<1>10. WellFormed(N) /\ DOMAIN nodes = Nodes
  BY <1>2, <1>4 DEF Typed
<1>11. /\ WellFormed(W) /\ SameSlots(N, W) /\ W.inFlight = FALSE /\ W.decoding = N.decoding
       /\ Prefilling(W) = Prefilling(N) /\ StepTime(W) \in Nat
  BY <1>5, <1>10, ClearedFacts
<1>12. /\ WellFormed(T) /\ SameSlots(W, T) /\ T.decoding = W.decoding \ DF
       /\ Prefilling(T) = Prefilling(W) \ PF /\ PF \subseteq Prefilling(W)
       /\ T.inFlight = W.inFlight
  BY <1>6, <1>11, TickFacts
<1>13. DF \subseteq N.decoding /\ PF \subseteq Prefilling(N)
  BY <1>6, <1>11, <1>12 DEF DecodeFinished
<1>14. /\ N.decoding \subseteq Requests /\ Prefilling(N) \subseteq Requests
       /\ Prefilling(N) \cap N.decoding = {} /\ W.tokens \in [Requests -> Nat]
  BY <1>10, <1>11, NodeTypes DEF WellFormed
<1>15. PF \in SUBSET Requests /\ DF \in SUBSET Requests /\ W.decoding \in SUBSET Requests
  BY <1>11, <1>13, <1>14
<1>16. end \in Nat /\ end >= now'
  <2>1. \A x, y \in Nat : x + y \in Nat /\ x + y >= x
    OBVIOUS
  <2> QED
    BY <1>4, <1>6, <1>11, <2>1
<1>17. IsFiniteSet(PF) /\ IsFiniteSet(DF) /\ IsFiniteSet(W.decoding)
  BY <1>15, Constants, FS_Subset
<1>18. /\ sp \in Seq(PF) /\ ToSet(sp) = PF /\ IsInjective(sp)
       /\ ss \in Seq(W.decoding) /\ ToSet(ss) = W.decoding /\ IsInjective(ss)
       /\ sf \in Seq(DF) /\ ToSet(sf) = DF /\ IsInjective(sf)
  BY <1>7, <1>17, SetToSeqFacts
<1>19. /\ mp \in Seq(Event) /\ Apart(mp, Clash)
       /\ \A e \in ToSet(mp) : /\ e \in Event /\ e.time = end /\ e.type = "PREFILL_COMPLETE"
                               /\ e.node = n /\ e.req \in PF
       /\ \A x \in PF : \E e \in ToSet(mp) : e.req = x /\ e.type = "PREFILL_COMPLETE"
  <2>1. PICK c : c = "PREFILL_COMPLETE"
    OBVIOUS
  <2>2. c \in Carriers /\ n \in Nodes /\ end \in Nat
    BY <1>4, <1>16, <2>1 DEF Carriers
  <2>3. PF \in SUBSET Requests /\ sp \in Seq(PF) /\ ToSet(sp) = PF /\ IsInjective(sp)
    BY <1>15, <1>18
  <2>4. mp = Completions(end, c, sp, n)
    BY <1>8, <2>1
  <2>5. /\ Completions(end, c, sp, n) \in Seq(Event) /\ Apart(Completions(end, c, sp, n), Clash)
        /\ \A e \in ToSet(Completions(end, c, sp, n)) :
             e \in Event /\ e.time = end /\ e.type = c /\ e.node = n /\ e.req \in PF
        /\ \A x \in PF : \E e \in ToSet(Completions(end, c, sp, n)) : e.req = x /\ e.type = c
    BY <2>2, <2>3, CompletionList
  <2> QED
    BY <2>1, <2>4, <2>5
<1>20. /\ mf \in Seq(Event) /\ Apart(mf, Clash)
       /\ \A e \in ToSet(mf) : /\ e \in Event /\ e.time = end /\ e.type = "DECODE_COMPLETE"
                               /\ e.node = n /\ e.req \in DF
       /\ \A x \in DF : \E e \in ToSet(mf) : e.req = x /\ e.type = "DECODE_COMPLETE"
  <2>1. PICK c : c = "DECODE_COMPLETE"
    OBVIOUS
  <2>2. c \in Carriers /\ n \in Nodes /\ end \in Nat
    BY <1>4, <1>16, <2>1 DEF Carriers
  <2>3. DF \in SUBSET Requests /\ sf \in Seq(DF) /\ ToSet(sf) = DF /\ IsInjective(sf)
    BY <1>15, <1>18
  <2>4. mf = Completions(end, c, sf, n)
    BY <1>8, <2>1
  <2>5. /\ Completions(end, c, sf, n) \in Seq(Event) /\ Apart(Completions(end, c, sf, n), Clash)
        /\ \A e \in ToSet(Completions(end, c, sf, n)) :
             e \in Event /\ e.time = end /\ e.type = c /\ e.node = n /\ e.req \in DF
        /\ \A x \in DF : \E e \in ToSet(Completions(end, c, sf, n)) : e.req = x /\ e.type = c
    BY <2>2, <2>3, CompletionList
  <2> QED
    BY <2>1, <2>4, <2>5
<1>21. /\ ms \in Seq(Event) /\ Apart(ms, Clash)
       /\ \A e \in ToSet(ms) : /\ e \in Event /\ e.time = end /\ e.type = "TOKEN_GENERATED"
                               /\ e.req \in N.decoding
  <2>1. /\ ms \in Seq(Event) /\ Apart(ms, Clash)
        /\ \A e \in ToSet(ms) : /\ e \in Event /\ e.time = end /\ e.type = "TOKEN_GENERATED"
                                /\ e.req \in W.decoding
    <3>1. W.decoding \in SUBSET Requests /\ end \in Nat /\ W.tokens \in [Requests -> Nat]
      BY <1>14, <1>15, <1>16
    <3>2. ss \in Seq(W.decoding) /\ ToSet(ss) = W.decoding /\ IsInjective(ss)
      BY <1>18
    <3>3. ms = Tokens(end, ss, W.tokens)
      BY <1>8
    <3> QED
      BY <3>1, <3>2, <3>3, TokenList
  <2> QED
    BY <1>11, <2>1
<1>22. PICK a : a = Ev(end, "DECODE_BATCH_STEP", 0, n)
  OBVIOUS
<1>23. a \in Event /\ a.time = end /\ a.type = "DECODE_BATCH_STEP" /\ a.req = 0 /\ a.node = n
  <2>1. n \in Nodes \cup {"none"} /\ "DECODE_BATCH_STEP" \in Types
    BY <1>4 DEF Types
  <2> QED
    BY <1>16, <1>22, <2>1, EventFacts
<1>24. /\ we \in Seq(Event) /\ Apart(we, Clash)
       /\ ToSet(we) = IF MustWake(T) THEN {a} ELSE {}
  BY <1>4, <1>16, <1>22, WakeEventsFacts DEF we
<1>25. \A e \in ToSet(we) : e = a /\ e \in Event
  BY <1>23, <1>24
<1>26. mp \o ms \in Seq(Event) /\ ToSet(mp \o ms) = ToSet(mp) \cup ToSet(ms) /\ Apart(mp \o ms, Clash)
  <2>1. \A e \in ToSet(mp), f \in ToSet(ms) : <<e, f>> \notin Clash /\ <<f, e>> \notin Clash
    <3> SUFFICES ASSUME NEW e \in ToSet(mp), NEW f \in ToSet(ms)
                 PROVE  <<e, f>> \notin Clash /\ <<f, e>> \notin Clash
      OBVIOUS
    <3>1. e \in Event /\ f \in Event /\ f.type \notin Carriers /\ f.type # "DECODE_BATCH_STEP"
      BY <1>19, <1>21 DEF Carriers
    <3> QED
      BY <3>1, ClashFacts
  <2>2. mp \in Seq(Event) /\ Apart(mp, Clash) /\ ms \in Seq(Event) /\ Apart(ms, Clash)
    BY <1>19, <1>21
  <2> QED
    BY <2>1, <2>2, JoinedApart
<1>27. PICK m2 : m2 = mp \o ms
  OBVIOUS
<1>28. /\ m2 \o mf \in Seq(Event) /\ ToSet(m2 \o mf) = ToSet(m2) \cup ToSet(mf)
       /\ Apart(m2 \o mf, Clash)
  <2>1. \A e \in ToSet(m2), f \in ToSet(mf) : <<e, f>> \notin Clash /\ <<f, e>> \notin Clash
    <3> SUFFICES ASSUME NEW e \in ToSet(m2), NEW f \in ToSet(mf)
                 PROVE  <<e, f>> \notin Clash /\ <<f, e>> \notin Clash
      OBVIOUS
    <3>1. e \in ToSet(mp) \/ e \in ToSet(ms)
      BY <1>26, <1>27
    <3>2. /\ e \in Event /\ f \in Event /\ f.req \in DF /\ f.type = "DECODE_COMPLETE"
          /\ \/ e.type = "PREFILL_COMPLETE" /\ e.req \in PF
             \/ e.type = "TOKEN_GENERATED"
      BY <1>19, <1>20, <1>21, <3>1
    <3>3. PF \cap DF = {}
      BY <1>13, <1>14
    <3>4. /\ f.type # "DECODE_BATCH_STEP" /\ "TOKEN_GENERATED" \notin Carriers
          /\ e.type \in Carriers => e.req # f.req
      BY <3>2, <3>3 DEF Carriers
    <3> QED
      BY <3>2, <3>4, ClashFacts
  <2>2. m2 \in Seq(Event) /\ Apart(m2, Clash) /\ mf \in Seq(Event) /\ Apart(mf, Clash)
    BY <1>20, <1>26, <1>27
  <2> QED
    BY <2>1, <2>2, JoinedApart
<1>29. PICK m3 : m3 = m2 \o mf
  OBVIOUS
<1>30. \A e \in ToSet(m3) : /\ e \in Event /\ e.time = end
                            /\ \/ e.type = "PREFILL_COMPLETE" /\ e.req \in PF /\ e.node = n
                               \/ e.type = "TOKEN_GENERATED" /\ e.req \in N.decoding
                               \/ e.type = "DECODE_COMPLETE" /\ e.req \in DF /\ e.node = n
  <2>1. ToSet(m3) = (ToSet(mp) \cup ToSet(ms)) \cup ToSet(mf)
    BY <1>26, <1>27, <1>28, <1>29
  <2> QED
    BY <1>19, <1>20, <1>21, <2>1
<1>31. es \in Seq(Event) /\ ToSet(es) = ToSet(m3) \cup ToSet(we) /\ Apart(es, Clash)
  <2>1. \A e \in ToSet(m3), f \in ToSet(we) : <<e, f>> \notin Clash /\ <<f, e>> \notin Clash
    <3> SUFFICES ASSUME NEW e \in ToSet(m3), NEW f \in ToSet(we)
                 PROVE  <<e, f>> \notin Clash /\ <<f, e>> \notin Clash
      OBVIOUS
    <3>1. /\ e \in Event /\ f \in Event /\ f.type \notin Carriers /\ e.type # "DECODE_BATCH_STEP"
      BY <1>23, <1>25, <1>30 DEF Carriers
    <3> QED
      BY <3>1, ClashFacts
  <2>2. m3 \in Seq(Event) /\ Apart(m3, Clash) /\ we \in Seq(Event) /\ Apart(we, Clash)
    BY <1>24, <1>28, <1>29
  <2>3. es = m3 \o we
    BY <1>27, <1>29 DEF es
  <2> QED
    BY <2>1, <2>2, <2>3, JoinedApart
<1>32. ASSUME NEW q \in PF
       PROVE  /\ q \in Requests /\ At(q, "prefilling") /\ decisions[q].prefill = n
              /\ ~At(q, "absent")
  <2>1. q \in Prefilling(N) /\ q \in Requests
    BY <1>13, <1>14
  <2>2. PICK k \in Positions : At(q, k)
    BY <2>1 DEF Inv
  <2>3. k = "prefilling" /\ decisions[q].prefill = n
    BY <1>4, <2>1, <2>2 DEF At, Placed
  <2>4. ~At(q, "absent")
    BY <1>4, <2>1 DEF At, Placed
  <2> QED
    BY <2>1, <2>2, <2>3, <2>4
<1>33. ASSUME NEW q \in DF
       PROVE  /\ q \in Requests /\ At(q, "decoding") /\ decisions[q].decode = n
              /\ ~At(q, "absent")
  <2>1. q \in N.decoding /\ q \in Requests
    BY <1>13, <1>14
  <2>2. PICK k \in Positions : At(q, k)
    BY <2>1 DEF Inv
  <2>3. k = "decoding" /\ decisions[q].decode = n
    BY <1>4, <2>1, <2>2 DEF At, Placed
  <2>4. ~At(q, "absent")
    BY <1>4, <2>1 DEF At, Placed
  <2> QED
    BY <2>1, <2>2, <2>3, <2>4
<1>34. \A e \in ToSet(es) : e.time >= now' /\ Free(e) /\ Fits(e)'
  <2>1. ASSUME NEW e \in ToSet(m3)
        PROVE  e.time >= now' /\ Free(e) /\ Fits(e)'
    <3>1. e \in Event /\ e.time >= now'
      BY <1>16, <1>30
    <3>2. CASE e.type = "PREFILL_COMPLETE" /\ e.req \in PF /\ e.node = n
      <4>1. \A c \in Carriers : ~Has(e.req, c)
        BY <1>32, <3>2 DEF At, Carried, Carriers
      <4>2. Free(e)
        BY <1>1, <1>2, <3>1, <3>2, <4>1, FreeFacts DEF Carriers
      <4>3. Fits(e)'
        BY <1>1, <1>32, <3>2 DEF Fits
      <4> QED
        BY <3>1, <4>2, <4>3
    <3>3. CASE e.type = "TOKEN_GENERATED" /\ e.req \in N.decoding
      <4>1. Free(e)
        BY <1>1, <1>2, <3>1, <3>3, FreeFacts DEF Carriers
      <4>2. Fits(e)'
        BY <1>14, <3>3 DEF Fits
      <4> QED
        BY <3>1, <4>1, <4>2
    <3>4. CASE e.type = "DECODE_COMPLETE" /\ e.req \in DF /\ e.node = n
      <4>1. \A c \in Carriers : ~Has(e.req, c)
        BY <1>33, <3>4 DEF At, Carried, Carriers
      <4>2. Free(e)
        BY <1>1, <1>2, <3>1, <3>4, <4>1, FreeFacts DEF Carriers
      <4>3. Fits(e)'
        BY <1>1, <1>33, <3>4 DEF Fits
      <4> QED
        BY <3>1, <4>2, <4>3
    <3> QED
      BY <1>30, <3>2, <3>3, <3>4
  <2>2. Free(a) /\ Fits(a)'
    <3>1. Free(a)
      BY <1>1, <1>2, <1>3, <1>23, FreeFacts
    <3>2. Fits(a)'
      BY <1>4, <1>23 DEF Fits
    <3> QED
      BY <3>1, <3>2
  <2> QED
    BY <1>16, <1>23, <1>25, <1>31, <2>1, <2>2
<1>35. Queued' = Rest \cup ToSet(es)
  BY <1>1, <1>2, <1>9, <1>31, <1>34, QueueStep
<1>36. /\ WellFormed(A) /\ SameSlots(T, A) /\ A.decoding = T.decoding /\ A.prefill = T.prefill
       /\ A.inFlight <=> T.inFlight \/ HasWork(T)
  BY <1>12, WokenFacts DEF A
<1>37. /\ Running(A) = Running(N) /\ Waiting(A) = Waiting(N)
       /\ Prefilling(A) = Prefilling(N) \ PF /\ A.decoding = N.decoding \ DF
       /\ HasWork(A) <=> HasWork(T)
       /\ A.inFlight <=> HasWork(T)
  <2>1. Running(A) = Running(N) /\ Waiting(A) = Waiting(N)
    BY <1>11, <1>12, <1>36 DEF SameSlots, Running, Waiting
  <2>2. Prefilling(A) = Prefilling(T) /\ A.decoding = N.decoding \ DF
    BY <1>11, <1>12, <1>36 DEF Prefilling
  <2>3. HasWork(A) <=> HasWork(T)
    BY <1>36 DEF HasWork
  <2>4. A.inFlight <=> HasWork(T)
    BY <1>11, <1>12, <1>36
  <2> QED
    BY <1>11, <1>12, <2>1, <2>2, <2>3, <2>4
<1>38. DOMAIN nodes' = Nodes /\ nodes'[n] = A /\ \A x \in Nodes : x # n => nodes'[x] = nodes[x]
  BY <1>4, <1>9, <1>10
<1>39. \A x \in Nodes : WellFormed(nodes'[x]) /\ WellFormed(nodes[x])
  BY <1>2, <1>36, <1>38 DEF Typed
<1>40. \A x, c : HasIn(ToSet(es), x, c) /\ c \in Carriers =>
         \/ c = "PREFILL_COMPLETE" /\ x \in PF
         \/ c = "DECODE_COMPLETE" /\ x \in DF
  <2> SUFFICES ASSUME NEW e \in ToSet(es), e.type \in Carriers
               PROVE  \/ e.type = "PREFILL_COMPLETE" /\ e.req \in PF
                      \/ e.type = "DECODE_COMPLETE" /\ e.req \in DF
    BY DEF HasIn
  <2>1. e \in ToSet(m3)
    BY <1>23, <1>25, <1>31 DEF Carriers
  <2> QED
    BY <1>30, <2>1 DEF Carriers
<1>41. /\ \A x \in PF : HasIn(ToSet(es), x, "PREFILL_COMPLETE")
       /\ \A x \in DF : HasIn(ToSet(es), x, "DECODE_COMPLETE")
  <2>1. ToSet(mp) \subseteq ToSet(es) /\ ToSet(mf) \subseteq ToSet(es)
    BY <1>26, <1>27, <1>28, <1>29, <1>31
  <2> QED
    BY <1>19, <1>20, <2>1 DEF HasIn
<1>42. PF \cap DF = {}
  BY <1>13, <1>14
<1>43. ASSUME NEW q \in PF
       PROVE  At(q, "prefilled")'
  <2>1. Placed(q, "prefilled")'
    <3> SUFFICES ASSUME NEW x \in Nodes
                 PROVE  /\ q \notin Waiting(nodes'[x])
                        /\ q \in Running(nodes'[x]) <=> x = n
                        /\ q \notin Prefilling(nodes'[x])
                        /\ q \notin nodes'[x].decoding
      BY <1>1, <1>32 DEF Placed
    <3>1. /\ q \notin Waiting(nodes[x])
          /\ q \in Running(nodes[x]) <=> x = n
          /\ q \in Prefilling(nodes[x]) <=> x = n
          /\ q \notin nodes[x].decoding
      BY <1>32 DEF At, Placed
    <3>2. q \notin Waiting(nodes[x]) /\ q \notin nodes[x].decoding
      BY <3>1
    <3> QED
      BY <1>37, <1>38, <3>1, <3>2
  <2>2. Carried(q, "prefilled")'
    <3>1. \A c \in Carriers : Has(q, c) => q = Req /\ c = type
      BY <1>32 DEF At, Carried, Carriers
    <3>2. Bears(ToSet(es), q, "prefilled")
      <4>1. \A c \in Carriers : HasIn(ToSet(es), q, c) <=> c = "PREFILL_COMPLETE"
        BY <1>40, <1>41, <1>42
      <4> QED
        BY <4>1 DEF Bears, Carriers
    <3> QED
      BY <1>1, <1>2, <1>35, <3>1, <3>2, CarriedAfter
  <2>3. Booked(q, "prefilled")'
    BY <1>1, <1>32 DEF At, Booked, Decided, Outside
  <2> QED
    BY <2>1, <2>2, <2>3 DEF At
<1>44. ASSUME NEW q \in DF
       PROVE  At(q, "decoded")'
  <2>1. Placed(q, "decoded")'
    <3> SUFFICES ASSUME NEW x \in Nodes
                 PROVE  /\ q \notin Waiting(nodes'[x])
                        /\ q \in Running(nodes'[x]) <=> x = n
                        /\ q \notin Prefilling(nodes'[x])
                        /\ q \notin nodes'[x].decoding
      BY <1>1, <1>33 DEF Placed
    <3>1. /\ q \notin Waiting(nodes[x])
          /\ q \in Running(nodes[x]) <=> x = n
          /\ q \in nodes[x].decoding <=> x = n
          /\ q \notin Prefilling(nodes[x])
      BY <1>33 DEF At, Placed
    <3>2. q \notin Waiting(nodes[x]) /\ q \notin Prefilling(nodes[x])
      BY <3>1
    <3> QED
      BY <1>37, <1>38, <3>1, <3>2
  <2>2. Carried(q, "decoded")'
    <3>1. \A c \in Carriers : Has(q, c) => q = Req /\ c = type
      BY <1>33 DEF At, Carried, Carriers
    <3>2. Bears(ToSet(es), q, "decoded")
      <4>1. \A c \in Carriers : HasIn(ToSet(es), q, c) <=> c = "DECODE_COMPLETE"
        BY <1>40, <1>41, <1>42
      <4> QED
        BY <4>1 DEF Bears, Carriers
    <3> QED
      BY <1>1, <1>2, <1>35, <3>1, <3>2, CarriedAfter
  <2>3. Booked(q, "decoded")'
    BY <1>1, <1>33 DEF At, Booked, Decided, Outside
  <2> QED
    BY <2>1, <2>2, <2>3 DEF At
<1>45. /\ StepIn(ToSet(es), n) <=> MustWake(T)
       /\ \A x : x # n => ~StepIn(ToSet(es), x)
  <2>1. \A e \in ToSet(es) : e.type = "DECODE_BATCH_STEP" => e \in ToSet(we)
    BY <1>30, <1>31
  <2> QED
    BY <1>23, <1>24, <1>31, <2>1 DEF StepIn
<1>46. \A x : StepIn(Queued', x) <=> (StepIn(Queued, x) /\ x # n) \/ StepIn(ToSet(es), x)
  BY <1>1, <1>2, <1>3, <1>35, HasAfter
<1>47. \A x \in Nodes : Awake(x)'
  <2>1. Awake(n)'
    <3>1. StepIn(Queued', n) <=> HasWork(T)
      BY <1>11, <1>12, <1>45, <1>46 DEF MustWake
    <3>2. /\ (nodes[n].inFlight)' <=> HasWork(nodes[n])'
          /\ StepIn(Queued, n)' <=> HasWork(nodes[n])'
      <4>1. (nodes[n].inFlight)' = A.inFlight /\ HasWork(nodes[n])' = HasWork(A)
        BY <1>38
      <4>2. StepIn(Queued, n)' = StepIn(Queued', n)
        BY DEF StepIn
      <4> QED
        BY <1>37, <3>1, <4>1, <4>2
    <3> QED
      BY <3>2 DEF Awake
  <2>2. ASSUME NEW x \in Nodes, x # n
        PROVE  Awake(x)'
    <3>1. Awake(x) /\ nodes'[x] = nodes[x] /\ (StepIn(Queued', x) <=> StepIn(Queued, x))
      BY <1>38, <1>45, <1>46, <2>2 DEF Inv
    <3> QED
      BY <1>39, <3>1, StaysAwake
  <2> QED
    BY <2>1, <2>2
<1>48. /\ DOMAIN decisions' = Requests /\ pending' \subseteq Requests /\ tables' \subseteq Requests
       /\ egressAvailableAt' \in [Nodes -> Nat] /\ ingressAvailableAt' \in [Nodes -> Nat]
       /\ Req \in Decided' => /\ decisions'[Req].prefill \in PrefillNodes
                              /\ decisions'[Req].decode \in DecodeNodes
       /\ decisions' = decisions
  BY <1>1, <1>2 DEF Typed, Decided
<1> DEFINE Mv == PF \cup DF
<1>49. Mv \in SUBSET Requests /\ \A q : q \in Mv <=> q \in PF \/ q \in DF
  BY <1>15
<1> HIDE DEF Mv, type
<1>50. \A q \in Mv : ~At(q, "absent") /\ \E k \in Positions : At(q, k)'
  BY <1>32, <1>33, <1>43, <1>44, <1>49 DEF Positions
<1>51. \A q \in Requests \ Mv :
         /\ q \in pending' <=> q \in pending
         /\ q \in tables' <=> q \in tables
         /\ \A x \in Nodes : /\ q \in Waiting(nodes'[x]) <=> q \in Waiting(nodes[x])
                             /\ q \in Running(nodes'[x]) <=> q \in Running(nodes[x])
                             /\ q \in Prefilling(nodes'[x]) <=> q \in Prefilling(nodes[x])
                             /\ q \in nodes'[x].decoding <=> q \in nodes[x].decoding
  BY <1>1, <1>37, <1>38, <1>49
<1>52. \A e \in ToSet(es) : /\ e.time >= now' /\ Free(e) /\ Fits(e)'
                            /\ e.type # "REQUEST_ARRIVE"
                            /\ e.type \in Carriers => e.req \in Mv
  <2>1. \A e \in ToSet(es) : e.type \in Carriers => e.req \in Mv /\ e.type # "REQUEST_ARRIVE"
    BY <1>40, <1>49 DEF HasIn
  <2>2. "REQUEST_ARRIVE" \in Carriers
    BY DEF Carriers
  <2> QED
    BY <1>34, <2>1, <2>2
<1>53. /\ es \in Seq(Event) /\ Handle(es) /\ Apart(es, Clash)
       /\ DOMAIN nodes' = Nodes /\ \A x \in Nodes : WellFormed(nodes'[x])
       /\ \A q \in Requests : q # Req => decisions'[q] = decisions[q]
  BY <1>9, <1>31, <1>38, <1>39, <1>48
<1> QED
  BY <1>1, <1>47, <1>48, <1>49, <1>50, <1>51, <1>52, <1>53, MoveInv

-----------------------------------------------------------------------------
(* The invariant.                                                            *)

(* At the start only the first request is announced.                         *)
LEMMA InitInv == Init => Inv
<1> SUFFICES ASSUME Init
             PROVE  Inv
  OBVIOUS
<1>1. PICK t \in Gaps : events = <<Ev(t, "REQUEST_ARRIVE", 1, "none")>>
  BY DEF Init
<1>2. PICK a : a = Ev(t, "REQUEST_ARRIVE", 1, "none")
  OBVIOUS
<1>3. a \in Event /\ a.time = t /\ a.type = "REQUEST_ARRIVE" /\ a.req = 1 /\ t \in Nat
  <2>1. t \in Nat /\ 1 \in Nat /\ "none" \in Nodes \cup {"none"} /\ "REQUEST_ARRIVE" \in Types
    BY Constants DEF Types
  <2> QED
    BY <1>2, <2>1, EventFacts
<1>4. events \in Seq(Event) /\ Queued = {a} /\ Apart(events, Clash)
  BY <1>1, <1>2, <1>3, ShortLists DEF Queued
<1>5. InTimeOrder(events)
  BY <1>1, <1>2, <1>3 DEF InTimeOrder
<1>6. /\ now = 0 /\ pending = {} /\ tables = {} /\ DOMAIN decisions = Requests /\ Decided = {}
      /\ DOMAIN nodes = Nodes /\ \A n \in Nodes : nodes[n] = EmptyNode
      /\ egressAvailableAt \in [Nodes -> Nat] /\ ingressAvailableAt \in [Nodes -> Nat]
  BY DEF Init, LaneInit, Decided
<1>7. Typed
  <2>1. \A n \in Nodes : WellFormed(nodes[n])
    BY <1>6, EmptyNodeFacts
  <2>2. \A e \in Queued : e.time >= now
    BY <1>3, <1>4, <1>6
  <2> QED
    BY <1>4, <1>5, <1>6, <2>1, <2>2 DEF Typed
<1>8. \A e \in Queued : Fits(e)
  BY <1>3, <1>4, Constants DEF Fits
<1>9. ASSUME NEW r \in Requests, NEW k \in {"absent", "announced"}, k = "announced" <=> r = 1
      PROVE  At(r, k)
  <2>1. Placed(r, k)
    <3>1. \A n \in Nodes : /\ Waiting(nodes[n]) = {} /\ Running(nodes[n]) = {}
                           /\ Prefilling(nodes[n]) = {} /\ nodes[n].decoding = {}
      BY <1>6, EmptyNodeFacts
    <3> QED
      BY <1>9, <3>1 DEF Placed
  <2>2. Carried(r, k)
    <3>1. \A c : Has(r, c) <=> r = 1 /\ c = "REQUEST_ARRIVE"
      BY <1>3, <1>4 DEF Has, HasIn
    <3> QED
      BY <1>9, <3>1 DEF Carried
  <2>3. Booked(r, k)
    BY <1>6, <1>9 DEF Booked, Outside
  <2> QED
    BY <2>1, <2>2, <2>3 DEF At
<1>10. \A r \in Requests : \E k \in Positions : At(r, k)
  <2> SUFFICES ASSUME NEW r \in Requests
               PROVE  \E k \in Positions : At(r, k)
    OBVIOUS
  <2>1. CASE r = 1
    BY <1>9, <2>1 DEF Positions
  <2>2. CASE r # 1
    BY <1>9, <2>2 DEF Positions
  <2> QED
    BY <2>1, <2>2
<1>11. Ahead
  <2> SUFFICES ASSUME NEW r \in Requests, r > 1
               PROVE  At(r, "absent")
    BY <1>3, <1>4 DEF Ahead
  <2>1. r # 1
    BY Constants
  <2> QED
    BY <1>9, <2>1
<1>12. \A n \in Nodes : Awake(n)
  <2>1. \A n : ~StepIn(Queued, n)
    BY <1>3, <1>4 DEF StepIn
  <2>2. \A n \in Nodes : nodes[n].inFlight = FALSE /\ ~HasWork(nodes[n])
    BY <1>6, EmptyNodeFacts DEF HasWork
  <2> QED
    BY <2>1, <2>2 DEF Awake
<1> QED
  BY <1>4, <1>7, <1>8, <1>10, <1>11, <1>12 DEF Inv

(* Every handler keeps it.                                                   *)
LEMMA NextInv == Inv /\ [Next]_vars => Inv'
<1> SUFFICES ASSUME Inv, [Next]_vars
             PROVE  Inv'
  OBVIOUS
<1>1. CASE ArriveRejected
  BY <1>1, ArriveRejectedInv
<1>2. ASSUME NEW p \in PrefillNodes, NEW d \in DecodeNodes, ArriveRouted(p, d)
      PROVE  Inv'
  BY <1>2, ArriveRoutedInv
<1>3. CASE Scheduled
  <2>1. /\ Pop("SCHEDULED") /\ Handle(<<>>)
        /\ UNCHANGED <<nodes, decisions, pending, tables, egressAvailableAt, ingressAvailableAt>>
    BY <1>3 DEF Scheduled, laneVars
  <2> QED
    BY <2>1, QuietInv
<1>4. CASE Rejected
  BY <1>4, RejectedInv
<1>5. CASE PrefillStartCached
  BY <1>5, PrefillStartCachedInv
<1>6. CASE PrefillStartChunked
  BY <1>6, PrefillStartChunkedInv
<1>7. CASE PrefillComplete
  BY <1>7, PrefillCompleteInv
<1>8. CASE TransferStarts
  <2>1. /\ Pop("KV_TRANSFER_START") /\ Handle(<<>>)
        /\ UNCHANGED <<nodes, decisions, pending, tables, egressAvailableAt, ingressAvailableAt>>
    BY <1>8 DEF TransferStarts, laneVars
  <2> QED
    BY <2>1, QuietInv
<1>9. CASE TransferRejected
  BY <1>9, TransferRejectedInv
<1>10. CASE TransferAdmitted
  BY <1>10, TransferAdmittedInv
<1>11. CASE BatchStep
  BY <1>11, BatchStepInv
<1>12. CASE TokenGenerated
  <2>1. /\ Pop("TOKEN_GENERATED") /\ Handle(<<>>)
        /\ UNCHANGED <<nodes, decisions, pending, tables, egressAvailableAt, ingressAvailableAt>>
    BY <1>12 DEF TokenGenerated, laneVars
  <2> QED
    BY <2>1, QuietInv
<1>13. CASE DecodeComplete
  BY <1>13, DecodeCompleteInv
<1>14. CASE UNCHANGED vars
  BY <1>14 DEF vars, laneVars, Inv, Typed, Queued, Fits, Ahead, At, Placed, Carried, Has, HasIn,
               Booked, Decided, Awake, StepIn
<1> QED
  BY <1>1, <1>2, <1>3, <1>4, <1>5, <1>6, <1>7, <1>8, <1>9, <1>10, <1>11, <1>12, <1>13, <1>14
     DEF Next

(* Every request is always at one position on which the decisions, the       *)
(* nodes, the tables and the queued events agree.                            *)
THEOREM PositionsAgree == Spec => []Inv
BY InitInv, NextInv, PTL DEF Spec

-----------------------------------------------------------------------------
(* What follows from it.                                                     *)

(* The queue, read by index.                                                 *)
LEMMA QueueByIndex ==
  ASSUME Inv
  PROVE  /\ \A i \in DOMAIN events : events[i] \in Event /\ events[i] \in Queued
         /\ \A e \in Queued : \E i \in DOMAIN events : events[i] = e
         /\ \A i, j \in DOMAIN events :
              i # j /\ events[i].type \in Carriers /\ events[j].type \in Carriers
                => events[i].req # events[j].req
         /\ \A i, j \in DOMAIN events :
              i # j /\ events[i].type = "DECODE_BATCH_STEP" /\ events[j].type = "DECODE_BATCH_STEP"
                => events[i].node # events[j].node
<1>1. events \in Seq(Event) /\ Apart(events, Clash)
  BY DEF Inv, Typed
<1>2. /\ \A i \in DOMAIN events : events[i] \in Event /\ events[i] \in Queued
      /\ \A e \in Queued : \E i \in DOMAIN events : events[i] = e
  BY <1>1 DEF Queued, ToSet
<1>3. \A i, j \in DOMAIN events : i # j => <<events[i], events[j]>> \notin Clash
  BY <1>1 DEF Apart
<1> QED
  BY <1>2, <1>3, ClashFacts

(* The cluster state has its types and the queue is in order of time.        *)
THEOREM TypeCorrect == Spec => []ServingTypeOK
<1>1. Inv => ServingTypeOK
  <2> SUFFICES ASSUME Inv
               PROVE  ServingTypeOK
    OBVIOUS
  <2>1. Typed
    BY DEF Inv
  <2>2. \A i \in DOMAIN events : events[i].time >= now
    BY <2>1, QueueByIndex DEF Typed
  <2>3. \A i, j \in DOMAIN events : i < j => events[i].time <= events[j].time
    BY <2>1 DEF Typed, InTimeOrder
  <2>4. ASSUME NEW n \in Nodes
        PROVE  /\ nodes[n].running \in Seq(Requests) /\ nodes[n].queue \in Seq(Requests)
               /\ nodes[n].tokens \in [Requests -> Nat]
               /\ \A i \in DOMAIN nodes[n].prefill : nodes[n].prefill[i].left > 0
    <3>1. /\ nodes[n].running \in Seq(Requests) /\ nodes[n].queue \in Seq(Requests)
          /\ nodes[n].tokens \in [Requests -> Nat] /\ nodes[n].prefill \in Seq(PrefillEntry)
      BY <2>1, NodeTypes DEF Typed
    <3>2. \A i \in DOMAIN nodes[n].prefill : nodes[n].prefill[i] \in PrefillEntry
      BY <3>1
    <3> QED
      BY <3>1, <3>2 DEF PrefillEntry
  <2> QED
    BY <2>1, <2>2, <2>3, <2>4 DEF ServingTypeOK, Typed
<1> QED
  BY <1>1, PositionsAgree, PTL

(* A block table is held only by a request in a slot of its decode node.     *)
THEOREM TablesReleased == Spec => []TablesOwned
<1>1. Inv => TablesOwned
  <2> SUFFICES ASSUME Inv, NEW r \in tables
               PROVE  r \in Decided /\ r \in ToSet(nodes[decisions[r].decode].running)
    BY DEF TablesOwned
  <2>1. Typed /\ r \in Requests
    BY DEF Inv, Typed
  <2>2. PICK k \in Positions : At(r, k)
    BY <2>1 DEF Inv
  <2>3. k \in {"decoding", "decoded"} /\ r \in Decided
    BY <2>2 DEF At, Booked, Outside
  <2>4. decisions[r].decode \in Nodes
    BY <2>1, <2>3, Constants DEF Typed
  <2> QED
    BY <2>2, <2>3, <2>4 DEF At, Placed, Running
<1> QED
  BY <1>1, PositionsAgree, PTL

(* No wake-up of a node is lost or scheduled twice.                          *)
THEOREM NoLostWakeUp == Spec => []StepsInFlight
<1>1. Inv => StepsInFlight
  <2> SUFFICES ASSUME Inv, NEW n \in Nodes
               PROVE  /\ nodes[n].inFlight = HasWork(nodes[n])
                      /\ Cardinality({i \in EventsOf("DECODE_BATCH_STEP") : events[i].node = n})
                           = (IF HasWork(nodes[n]) THEN 1 ELSE 0)
    BY DEF StepsInFlight
  <2>1. /\ nodes[n].inFlight <=> HasWork(nodes[n])
        /\ StepIn(Queued, n) <=> HasWork(nodes[n])
    BY DEF Inv, Awake
  <2>2. nodes[n].inFlight \in BOOLEAN /\ HasWork(nodes[n]) \in BOOLEAN
    BY NodeTypes DEF Inv, Typed, HasWork
  <2> DEFINE S == {i \in EventsOf("DECODE_BATCH_STEP") : events[i].node = n}
  <2>3. \A i \in S : i \in DOMAIN events /\ events[i].type = "DECODE_BATCH_STEP" /\ events[i].node = n
    BY DEF EventsOf
  <2>4. CASE HasWork(nodes[n])
    <3>1. PICK e \in Queued : e.type = "DECODE_BATCH_STEP" /\ e.node = n
      BY <2>1, <2>4 DEF StepIn
    <3>2. PICK i \in DOMAIN events : events[i] = e
      BY QueueByIndex
    <3>3. i \in S
      BY <3>1, <3>2 DEF EventsOf
    <3> HIDE DEF S
    <3>4. S = {i}
      BY <2>3, <3>3, QueueByIndex
    <3>5. Cardinality(S) = 1
      BY <3>4, FS_Singleton
    <3> QED
      BY <2>1, <2>2, <2>4, <3>5 DEF S
  <2>5. CASE ~HasWork(nodes[n])
    <3>1. S = {}
      BY <2>1, <2>3, <2>5, QueueByIndex DEF StepIn
    <3>2. Cardinality(S) = 0
      BY <3>1, FS_EmptySet
    <3> QED
      BY <2>1, <2>2, <2>5, <3>2
  <2> QED
    BY <2>4, <2>5
<1> QED
  BY <1>1, PositionsAgree, PTL

(* The positions at which a request waits for an event, and the event.       *)
CarrierOf(k) ==
  CASE k = "announced" -> "REQUEST_ARRIVE"
    [] k = "refused" -> "REQUEST_REJECTED"
    [] k = "starting" -> "PREFILL_START"
    [] k = "prefilled" -> "PREFILL_COMPLETE"
    [] k = "transfer" -> "KV_TRANSFER_COMPLETE"
    [] k = "decoded" -> "DECODE_COMPLETE"
    [] OTHER -> "none"

(* A request has the carrier of its position queued, once, and no other.     *)
LEMMA OneCarrier ==
  ASSUME Inv, NEW r \in Requests, NEW k \in Positions, At(r, k)
  PROVE  /\ k \in {"absent", "waiting", "prefilling", "decoding"} => QueuedFor(r, Carriers) = {}
         /\ k \notin {"absent", "waiting", "prefilling", "decoding"} =>
              \E i \in DOMAIN events : /\ QueuedFor(r, Carriers) = {i}
                                       /\ events[i].req = r /\ events[i].type = CarrierOf(k)
<1>1. \A c \in Carriers : Has(r, c) <=> c = CarrierOf(k)
  <2>1. Carried(r, k)
    BY DEF At
  <2> QED
    BY <2>1 DEF Carried, Carriers, CarrierOf, Positions
<1>2. \A i \in QueuedFor(r, Carriers) : /\ i \in DOMAIN events /\ events[i].req = r
                                        /\ events[i].type \in Carriers
                                        /\ Has(r, events[i].type)
  BY QueueByIndex DEF QueuedFor, Has, HasIn
<1>3. CASE k \in {"absent", "waiting", "prefilling", "decoding"}
  <2>1. CarrierOf(k) \notin Carriers
    BY <1>3 DEF CarrierOf, Carriers
  <2> QED
    BY <1>1, <1>2, <1>3, <2>1
<1>4. CASE k \notin {"absent", "waiting", "prefilling", "decoding"}
  <2>1. CarrierOf(k) \in Carriers
    BY <1>4 DEF CarrierOf, Carriers, Positions
  <2>2. PICK e \in Queued : e.req = r /\ e.type = CarrierOf(k)
    BY <1>1, <2>1 DEF Has, HasIn
  <2>3. PICK i \in DOMAIN events : events[i] = e
    BY QueueByIndex
  <2>4. i \in QueuedFor(r, Carriers)
    BY <2>1, <2>2, <2>3 DEF QueuedFor
  <2>5. QueuedFor(r, Carriers) = {i}
    BY <1>2, <2>4, QueueByIndex
  <2> QED
    BY <1>4, <2>2, <2>3, <2>5
<1> QED
  BY <1>3, <1>4

(* A request is never in two stages at once and never lost.                  *)
THEOREM NeverLostNorTwice == Spec => []OnePlace
<1>1. ASSUME Inv, NEW r \in Requests
      PROVE  IF r \in Decided
             THEN /\ Cardinality(Places(r)) = 1
                  /\ QueuedFor(r, {"REQUEST_ARRIVE", "REQUEST_REJECTED"}) = {}
             ELSE /\ Cardinality(Places(r)) <= 1
                  /\ Places(r) = {"event"} \X QueuedFor(r, {"REQUEST_ARRIVE", "REQUEST_REJECTED"})
  <2>1. PICK k \in Positions : At(r, k)
    BY <1>1 DEF Inv
  <2> DEFINE Q == QueuedFor(r, Carriers)
             G == QueuedFor(r, {"REQUEST_ARRIVE", "REQUEST_REJECTED"})
             p == decisions[r].prefill
             d == decisions[r].decode
             W == {n \in Nodes : r \in ToSet(nodes[n].queue)}
             P == {n \in Nodes : r \in Prefilling(nodes[n])}
             D == {n \in Nodes : r \in nodes[n].decoding}
  <2>2. Places(r) = ({"event"} \X Q) \cup ({"queue"} \X W) \cup ({"prefill"} \X P)
                      \cup ({"decode"} \X D)
    BY DEF Places
  <2>3. /\ W = IF k = "waiting" THEN {p} ELSE {}
        /\ P = IF k = "prefilling" THEN {p} ELSE {}
        /\ D = IF k = "decoding" THEN {d} ELSE {}
    <3>1. k \notin Outside => p \in Nodes /\ d \in Nodes
      BY <1>1, <2>1, Constants DEF Inv, Typed, At, Booked
    <3>2. k \in {"waiting", "prefilling", "decoding"} => p \in Nodes /\ d \in Nodes
      BY <3>1 DEF Outside
    <3>3. \A n \in Nodes : /\ r \in ToSet(nodes[n].queue) <=> k = "waiting" /\ n = p
                           /\ r \in Prefilling(nodes[n]) <=> k = "prefilling" /\ n = p
                           /\ r \in nodes[n].decoding <=> k = "decoding" /\ n = d
      BY <2>1 DEF At, Placed, Waiting
    <3> HIDE DEF p, d
    <3> QED
      BY <3>2, <3>3
  <2>4. G = {i \in Q : events[i].type \in {"REQUEST_ARRIVE", "REQUEST_REJECTED"}}
    BY DEF QueuedFor, Carriers
  <2>5. r \in Decided <=> k \notin Outside
    BY <2>1 DEF At, Booked
  <2>6. /\ k \in {"absent", "waiting", "prefilling", "decoding"} => Q = {}
        /\ k \notin {"absent", "waiting", "prefilling", "decoding"} =>
             \E i \in DOMAIN events : Q = {i} /\ events[i].type = CarrierOf(k)
    BY <1>1, <2>1, OneCarrier
  <2> HIDE DEF Q, G, W, P, D, p, d
  <2>7. /\ \A x : Cardinality({x}) = 1
        /\ Cardinality({}) = 0
    BY FS_Singleton, FS_EmptySet
  <2>8. CASE k \in {"waiting", "prefilling", "decoding"}
    <3>1. Q = {} /\ G = {} /\ r \in Decided
      BY <2>4, <2>5, <2>6, <2>8 DEF Outside
    <3>2. \E x : Places(r) = {x}
      <4>1. CASE k = "waiting"
        <5>1. Places(r) = {<<"queue", p>>}
          BY <2>2, <2>3, <3>1, <4>1
        <5> QED
          BY <5>1
      <4>2. CASE k = "prefilling"
        <5>1. Places(r) = {<<"prefill", p>>}
          BY <2>2, <2>3, <3>1, <4>2
        <5> QED
          BY <5>1
      <4>3. CASE k = "decoding"
        <5>1. Places(r) = {<<"decode", d>>}
          BY <2>2, <2>3, <3>1, <4>3
        <5> QED
          BY <5>1
      <4> QED
        BY <2>8, <4>1, <4>2, <4>3
    <3> QED
      BY <2>7, <3>1, <3>2 DEF G
  <2>9. CASE k \notin {"waiting", "prefilling", "decoding"}
    <3>1. W = {} /\ P = {} /\ D = {}
      BY <2>3, <2>9
    <3>2. Places(r) = {"event"} \X Q
      BY <2>2, <3>1
    <3>3. CASE k = "absent"
      <4>1. Q = {} /\ G = {} /\ r \notin Decided
        BY <2>4, <2>5, <2>6, <3>3 DEF Outside
      <4>2. Places(r) = {} /\ {"event"} \X G = {}
        BY <3>2, <4>1
      <4> QED
        BY <2>7, <4>1, <4>2 DEF G
    <3>4. CASE k # "absent"
      <4>1. PICK i : Q = {i} /\ events[i].type = CarrierOf(k)
        BY <2>6, <2>9, <3>4
      <4>2. Places(r) = {<<"event", i>>}
        BY <3>2, <4>1
      <4>3. Cardinality(Places(r)) = 1
        BY <2>7, <4>2
      <4>4. CASE k \in Outside
        <5>1. G = Q /\ r \notin Decided
          BY <2>4, <2>5, <3>4, <4>1, <4>4 DEF Outside, CarrierOf
        <5> QED
          BY <3>2, <4>3, <5>1 DEF G
      <4>5. CASE k \notin Outside
        <5>1. G = {} /\ r \in Decided
          BY <2>4, <2>5, <2>9, <4>1, <4>5 DEF Outside, CarrierOf, Positions
        <5> QED
          BY <4>3, <5>1 DEF G
      <4> QED
        BY <4>4, <4>5
    <3> QED
      BY <3>3, <3>4
  <2> QED
    BY <2>8, <2>9
<1>2. Inv => OnePlace
  BY <1>1 DEF OnePlace
<1> QED
  BY <1>2, PositionsAgree, PTL

(* The requests of a queued event of a node are those at its position.       *)
LEMMA HandedOver ==
  ASSUME Inv, NEW n, NEW types \in SUBSET {"PREFILL_START", "PREFILL_COMPLETE", "DECODE_COMPLETE"}
  PROVE  /\ \A r \in HandedTo(n, types) :
              r \in Requests /\ \E e \in Queued : e.req = r /\ e.type \in types /\ e.node = n /\ Fits(e)
         /\ \A e \in Queued : e.type \in types /\ e.node = n => e.req \in HandedTo(n, types)
<1>1. \A i \in DOMAIN events : events[i] \in Queued /\ Fits(events[i])
  BY QueueByIndex DEF Inv
<1>2. \A i \in DOMAIN events : events[i].type \in types => events[i].req \in Requests
  BY <1>1 DEF Fits
<1> QED
  BY <1>1, <1>2, QueueByIndex DEF HandedTo

(* The slots of a node are taken by exactly the requests in its stages, and  *)
(* nobody waits while one is free.                                           *)
THEOREM SlotsAccounted == Spec => []Slots
<1>1. ASSUME Inv
      PROVE  /\ \A n \in Nodes : WellFormed(nodes[n])
             /\ \A r \in Decided : decisions[r].prefill \in PrefillNodes
                                   /\ decisions[r].decode \in DecodeNodes
  BY <1>1 DEF Inv, Typed
<1>2. ASSUME Inv, NEW p \in PrefillNodes
      PROVE  /\ nodes[p].decoding = {}
             /\ nodes[p].queue # <<>> => ~HasRoom(nodes[p])
             /\ ToSet(nodes[p].running)
                  = Prefilling(nodes[p]) \cup HandedTo(p, {"PREFILL_START", "PREFILL_COMPLETE"})
  <2>1. p \in Nodes /\ p \notin DecodeNodes /\ WellFormed(nodes[p])
    BY <1>1, <1>2, Constants
  <2>2. Running(nodes[p]) \subseteq Requests /\ nodes[p].decoding \subseteq Requests
    BY <2>1, NodeTypes
  <2>3. ASSUME NEW r \in Requests, NEW k \in Positions, At(r, k)
        PROVE  /\ r \notin nodes[p].decoding
               /\ r \in Running(nodes[p]) =>
                    k \in {"starting", "prefilling", "prefilled"} /\ p = decisions[r].prefill
               /\ r \in Prefilling(nodes[p]) => r \in Running(nodes[p])
               /\ k = "prefilling" /\ p = decisions[r].prefill => r \in Prefilling(nodes[p])
    <3>1. k \notin Outside => decisions[r].decode # p
      BY <1>1, <1>2, <2>1, <2>3 DEF At, Booked
    <3>2. k \in {"decoding", "decoded"} => k \notin Outside
      BY DEF Outside
    <3> QED
      BY <2>1, <2>3, <3>1, <3>2 DEF At, Placed
  <2>4. nodes[p].decoding = {}
    BY <1>2, <2>2, <2>3 DEF Inv
  <2>5. ASSUME NEW r \in Running(nodes[p])
        PROVE  r \in Prefilling(nodes[p])
                 \cup HandedTo(p, {"PREFILL_START", "PREFILL_COMPLETE"})
    <3>1. PICK k \in Positions : At(r, k)
      BY <1>2, <2>2 DEF Inv
    <3>2. k \in {"starting", "prefilling", "prefilled"} /\ p = decisions[r].prefill
      BY <2>2, <2>3, <3>1
    <3>3. CASE k = "prefilling"
      BY <2>2, <2>3, <3>1, <3>2, <3>3
    <3>4. CASE k # "prefilling"
      <4>1. Has(r, "PREFILL_START") \/ Has(r, "PREFILL_COMPLETE")
        BY <3>1, <3>2, <3>4 DEF At, Carried
      <4>2. PICK e \in Queued : e.req = r /\ e.type \in {"PREFILL_START", "PREFILL_COMPLETE"}
        BY <4>1 DEF Has, HasIn
      <4>3. e.node = p
        BY <1>2, <3>2, <4>2 DEF Inv, Fits
      <4> QED
        BY <1>2, <4>2, <4>3, HandedOver
    <3> QED
      BY <3>3, <3>4
  <2>6. ASSUME NEW r \in HandedTo(p, {"PREFILL_START", "PREFILL_COMPLETE"})
        PROVE  r \in Running(nodes[p])
    <3>1. PICK e \in Queued : /\ r \in Requests /\ e.req = r /\ e.node = p /\ Fits(e)
                              /\ e.type \in {"PREFILL_START", "PREFILL_COMPLETE"}
      BY <1>2, HandedOver
    <3>2. PICK k \in Positions : At(r, k)
      BY <1>2, <3>1 DEF Inv
    <3>3. k \in {"starting", "prefilled"} /\ p = decisions[r].prefill
      BY <3>1, <3>2 DEF At, Carried, Has, HasIn, Fits
    <3> QED
      BY <2>1, <3>2, <3>3 DEF At, Placed
  <2>7. Prefilling(nodes[p]) \subseteq Running(nodes[p])
    BY <2>1 DEF WellFormed
  <2>8. ToSet(nodes[p].running)
          = Prefilling(nodes[p]) \cup HandedTo(p, {"PREFILL_START", "PREFILL_COMPLETE"})
    BY <2>5, <2>6, <2>7 DEF Running
  <2> QED
    BY <2>1, <2>4, <2>8 DEF WellFormed
<1>3. ASSUME Inv, NEW d \in DecodeNodes
      PROVE  /\ nodes[d].prefill = <<>> /\ nodes[d].queue = <<>>
             /\ ToSet(nodes[d].running) = nodes[d].decoding \cup HandedTo(d, {"DECODE_COMPLETE"})
  <2>1. d \in Nodes /\ d \notin PrefillNodes /\ WellFormed(nodes[d])
    BY <1>1, <1>3, Constants
  <2>2. /\ Running(nodes[d]) \subseteq Requests /\ Waiting(nodes[d]) \subseteq Requests
        /\ Prefilling(nodes[d]) \subseteq Requests /\ nodes[d].queue \in Seq(Requests)
    BY <2>1, NodeTypes
  <2>3. ASSUME NEW r \in Requests, NEW k \in Positions, At(r, k)
        PROVE  /\ r \notin Waiting(nodes[d]) /\ r \notin Prefilling(nodes[d])
               /\ r \in Running(nodes[d]) =>
                    k \in {"decoding", "decoded"} /\ d = decisions[r].decode
               /\ k = "decoding" /\ d = decisions[r].decode => r \in nodes[d].decoding
    <3>1. k \notin Outside => decisions[r].prefill # d
      BY <1>1, <1>3, <2>1, <2>3 DEF At, Booked
    <3>2. k \in {"waiting", "starting", "prefilling", "prefilled"} => k \notin Outside
      BY DEF Outside
    <3> QED
      BY <2>1, <2>3, <3>1, <3>2 DEF At, Placed
  <2>4. Waiting(nodes[d]) = {} /\ Prefilling(nodes[d]) = {}
    BY <1>3, <2>2, <2>3 DEF Inv
  <2>5. nodes[d].queue = <<>>
    <3>1. nodes[d].queue # <<>> => Head(nodes[d].queue) \in Waiting(nodes[d])
      BY <2>2, PopFacts DEF Waiting
    <3> QED
      BY <2>4, <3>1
  <2>6. nodes[d].prefill = <<>>
    BY <2>1, <2>4, HasWorkFacts
  <2>7. ASSUME NEW r \in Running(nodes[d])
        PROVE  r \in nodes[d].decoding \cup HandedTo(d, {"DECODE_COMPLETE"})
    <3>1. PICK k \in Positions : At(r, k)
      BY <1>3, <2>2 DEF Inv
    <3>2. k \in {"decoding", "decoded"} /\ d = decisions[r].decode
      BY <2>2, <2>3, <3>1
    <3>3. CASE k = "decoding"
      BY <2>2, <2>3, <3>1, <3>2, <3>3
    <3>4. CASE k # "decoding"
      <4>1. Has(r, "DECODE_COMPLETE")
        BY <3>1, <3>2, <3>4 DEF At, Carried
      <4>2. PICK e \in Queued : e.req = r /\ e.type \in {"DECODE_COMPLETE"}
        BY <4>1 DEF Has, HasIn
      <4>3. e.node = d
        BY <1>3, <3>2, <4>2 DEF Inv, Fits
      <4> QED
        BY <1>3, <4>2, <4>3, HandedOver
    <3> QED
      BY <3>3, <3>4
  <2>8. ASSUME NEW r \in HandedTo(d, {"DECODE_COMPLETE"})
        PROVE  r \in Running(nodes[d])
    <3>1. PICK e \in Queued : /\ r \in Requests /\ e.req = r /\ e.node = d /\ Fits(e)
                              /\ e.type \in {"DECODE_COMPLETE"}
      BY <1>3, HandedOver
    <3>2. PICK k \in Positions : At(r, k)
      BY <1>3, <3>1 DEF Inv
    <3>3. k = "decoded" /\ d = decisions[r].decode
      BY <3>1, <3>2 DEF At, Carried, Has, HasIn, Fits
    <3> QED
      BY <2>1, <3>2, <3>3 DEF At, Placed
  <2>9. nodes[d].decoding \subseteq Running(nodes[d])
    BY <2>1 DEF WellFormed
  <2>10. ToSet(nodes[d].running) = nodes[d].decoding \cup HandedTo(d, {"DECODE_COMPLETE"})
    BY <2>7, <2>8, <2>9 DEF Running
  <2> QED
    BY <2>5, <2>6, <2>10
<1>4. Inv => Slots
  <2> SUFFICES ASSUME Inv
               PROVE  Slots
    OBVIOUS
  <2>1. \A n \in Nodes : Len(nodes[n].running) <= NodeCapacity
    BY <1>1 DEF WellFormed
  <2> QED
    BY <1>2, <1>3, <2>1 DEF Slots
<1> QED
  BY <1>4, PositionsAgree, PTL
=============================================================================
