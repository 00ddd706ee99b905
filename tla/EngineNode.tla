------------------------------ MODULE EngineNode ------------------------------
(***************************************************************************)
(* One engine node (engine/mock_node.py), as operators on a node value N.  *)
(*                                                                         *)
(*   running, queue   running_requests and queue, in order                 *)
(*   decoding         the requests of the decode batch                     *)
(*   prefill          _prefill_remaining in insertion order                *)
(*   tokens           _output_tokens (0 outside running)                   *)
(*   inFlight         _batch_step_in_flight                                *)
(*   phase, uncached  the fields of _states that wait estimates read       *)
(*                                                                         *)
(* _expected_output repeats the request's own field, here ExpectedOutput.  *)
(* Of NodeRequestState, generated_tokens repeats _output_tokens,           *)
(* uncached_remaining repeats _prefill_remaining while it is read, and     *)
(* blocks_prefill_slot is false exactly in phase "prefill_done".           *)
(***************************************************************************)
EXTENDS Integers, Sequences, FiniteSets, SequencesExt

CONSTANTS
  Requests,         (* Request ids, numbers in the order of arrival.         *)
  ExpectedOutput,   (* Request.expected_output_len; a trace may ask for 0.   *)
  NodeCapacity,     (* NodeConfig.capacity: concurrent requests per node.    *)
  ChunkSize,        (* ModelConfig.prefill_chunk_size, in tokens.            *)
  PrefillCost,      (* ModelConfig.prefill_cost_per_token_ms.                *)
  DecodeBase,       (* ModelConfig.decode_base_ms.                           *)
  MarginalDecode    (* ModelConfig.marginal_decode_ms.                       *)

ASSUME NodeAssumption ==
  /\ Requests \subseteq Nat
  /\ ExpectedOutput \in [Requests -> Nat]
  /\ {NodeCapacity, ChunkSize, PrefillCost, DecodeBase, MarginalDecode} \subseteq Nat \ {0}

EmptyNode ==
  [running |-> <<>>, queue |-> <<>>, decoding |-> {}, prefill |-> <<>>,
   tokens |-> [r \in Requests |-> 0], inFlight |-> FALSE,
   phase |-> [r \in Requests |-> "none"], uncached |-> [r \in Requests |-> 0]]

HasRoom(N) == Len(N.running) < NodeCapacity

(* Mutant of HasWork: a node that only prefills is not woken.                *)
HasWorkDecoding(N) == N.decoding # {}

HasWork(N) == N.decoding # {} \/ N.prefill # <<>>
Prefilling(N) == {N.prefill[i].req : i \in DOMAIN N.prefill}

-----------------------------------------------------------------------------
(* Request lifecycle.                                                        *)

(* Mutant of Admit: the newest request goes to the front of the queue.       *)
AdmitLifo(N, r, uncached) ==
  LET known == [N EXCEPT !.uncached[r] = uncached]
  IN IF HasRoom(N)
     THEN [known EXCEPT !.running = Append(@, r), !.phase[r] = "admitted", !.tokens[r] = 0]
     ELSE [known EXCEPT !.queue = <<r>> \o @, !.phase[r] = "queued"]

(* admit: into running_requests if there is room, else into queue.           *)
Admit(N, r, uncached) ==
  LET known == [N EXCEPT !.uncached[r] = uncached]
  IN IF HasRoom(N)
     THEN [known EXCEPT !.running = Append(@, r), !.phase[r] = "admitted", !.tokens[r] = 0]
     ELSE [known EXCEPT !.queue = Append(@, r), !.phase[r] = "queued"]

StartDecode(N, r) ==
  [N EXCEPT !.decoding = @ \cup {r}, !.phase[r] = "decoding"]

EnterPrefill(N, r, uncached) ==
  [N EXCEPT !.prefill = Append(@, [req |-> r, left |-> uncached]),
            !.phase[r] = "prefilling", !.uncached[r] = uncached]

MarkPrefillDone(N, r) ==
  [N EXCEPT !.phase[r] = "prefill_done", !.uncached[r] = 0]

InitPromoted(N, r, uncached) ==
  [N EXCEPT !.tokens[r] = 0, !.phase[r] = "admitted", !.uncached[r] = uncached]

(* The request that complete(r) promotes from the queue, if any.             *)
Promoted(N) == IF N.queue = <<>> THEN {} ELSE {Head(N.queue)}

(* Tokens a request ends up with: a step makes one before it looks.          *)
AnswerLength(r) == Max({1, ExpectedOutput[r]})

(* complete, for a running request: forget it and promote the next one.      *)
Complete(N, r) ==
  LET rest == RemoveFirst(N.running, r)
      gone == [N EXCEPT !.running = rest,
                        !.tokens[r] = 0, !.phase[r] = "none", !.uncached[r] = 0,
                        !.decoding = @ \ {r},
                        !.prefill = RemoveFirstMatch(@, LAMBDA e : e.req = r)]
  IN IF N.queue = <<>> THEN gone
     ELSE [gone EXCEPT !.running = Append(rest, Head(N.queue)),
                       !.queue = Tail(@),
                       !.phase[Head(N.queue)] = "admitted"]

-----------------------------------------------------------------------------
(* tick_batch_step: one prefill chunk, in FIFO order, and one token for      *)
(* every decode stream.                                                      *)

Chunk(N) ==
  IF N.prefill = <<>> THEN 0
  ELSE IF Head(N.prefill).left < ChunkSize THEN Head(N.prefill).left ELSE ChunkSize

StepTime(N) ==
  Chunk(N) * PrefillCost
    + (IF N.decoding = {} THEN 0
       ELSE DecodeBase + Cardinality(N.decoding) * MarginalDecode)

(* completed_decode_ids and prefill_completed_id, as sets.                   *)
DecodeFinished(N) == {r \in N.decoding : N.tokens[r] + 1 >= ExpectedOutput[r]}
PrefillFinished(N) ==
  IF N.prefill # <<>> /\ Head(N.prefill).left <= ChunkSize THEN {Head(N.prefill).req} ELSE {}

(* Mutant of TickBatchStep: finished streams stay in the batch until their   *)
(* DECODE_COMPLETE.                                                          *)
TickKeepsFinished(N) ==
  LET left == Head(N.prefill).left - Chunk(N)
      ticked == [N EXCEPT !.tokens = [r \in Requests |->
                                        IF r \in N.decoding THEN @[r] + 1 ELSE @[r]]]
  IN IF N.prefill = <<>> THEN ticked
     ELSE IF left = 0
          THEN MarkPrefillDone([ticked EXCEPT !.prefill = Tail(@)], Head(N.prefill).req)
     ELSE [ticked EXCEPT !.prefill[1].left = left]

TickBatchStep(N) ==
  LET left == Head(N.prefill).left - Chunk(N)
      ticked == [N EXCEPT !.tokens = [r \in Requests |->
                                        IF r \in N.decoding THEN @[r] + 1 ELSE @[r]],
                          !.decoding = @ \ DecodeFinished(N)]
  IN IF N.prefill = <<>> THEN ticked
     ELSE IF left = 0
          THEN MarkPrefillDone([ticked EXCEPT !.prefill = Tail(@)], Head(N.prefill).req)
     ELSE [ticked EXCEPT !.prefill[1].left = left]

-----------------------------------------------------------------------------
(* queue_wait_time.                                                          *)

(* _wait_decode_step_ms: decoding is part of running.                        *)
WaitDecodeStep(N) ==
  DecodeBase + (IF N.running = <<>> THEN 1 ELSE Len(N.running)) * MarginalDecode

(* _remaining_lifecycle_ms.                                                  *)
RemainingLifecycle(N, r) ==
  LET decode == Max({0, ExpectedOutput[r] - N.tokens[r]}) * WaitDecodeStep(N)
      left == CHOOSE n \in {N.prefill[i].left : i \in {i \in DOMAIN N.prefill : N.prefill[i].req = r}} : TRUE
  IN CASE N.phase[r] = "prefill_done" -> 0
       [] N.phase[r] = "decoding" -> decode
       [] N.phase[r] = "prefilling" -> left * PrefillCost + decode
       [] OTHER -> N.uncached[r] * PrefillCost + decode

(* The queued requests take the earliest slot releases in FIFO order, a new  *)
(* one takes the next.                                                       *)
QueueWaitTime(N) ==
  LET release == [i \in DOMAIN N.running |-> RemainingLifecycle(N, N.running[i])]
      first(s) == CHOOSE i \in DOMAIN s : \A j \in DOMAIN s : s[i] <= s[j]
      occupy(s, r) == [s EXCEPT ![first(s)] = @ + RemainingLifecycle(N, r)]
      slots == FoldLeft(occupy, release, N.queue)
  IN IF HasRoom(N) THEN 0 ELSE slots[first(slots)]
=============================================================================
