------------------------------- MODULE Policies -------------------------------
(***************************************************************************)
(* The five scheduling policies (scheduler/*.py) and the estimates they    *)
(* share (scheduler/base.py, engine/mock_node.py), as operators on the     *)
(* state of Serving.  A policy reads the nodes, the lanes and what         *)
(* lookup_all says of the request on each decode node:                     *)
(*                                                                         *)
(*   matched   CacheLookup.matched_tokens                                  *)
(*   cost      CacheLookup.transfer_cost_ms                                *)
(*   free      free_blocks(node, "gpu")                                    *)
(*                                                                         *)
(* All nodes have the same capacity (one NodeConfig), so loads are         *)
(* compared by the number of running requests, and scores are multiplied   *)
(* by the capacity to stay with whole numbers.  All prompts have the same  *)
(* length.                                                                 *)
(***************************************************************************)
EXTENDS Serving

CONSTANTS
  PrefillOrder, DecodeOrder,        (* The pools as lists; node ids are in   *)
                                    (* the same order.                       *)
  PromptLen,                        (* len(token_ids).                       *)
  BlockSize,                        (* ModelConfig.block_size.               *)
  MinHitPercent,                    (* min_hit_ratio of PrefixGreedy.        *)
  Alpha, Beta, Gamma,               (* Weights of the Conductor.             *)
  WHistorical, WEviction, WRun,     (* Weights of E2.                        *)
  SloTtft, SloTbt                   (* SLOConfig.                            *)

ASSUME PolicyAssumption ==
  /\ PrefillNodes # {} /\ DecodeNodes # {}
  /\ PrefillOrder \in Seq(PrefillNodes) /\ DecodeOrder \in Seq(DecodeNodes)
  /\ ToSet(PrefillOrder) = PrefillNodes /\ Len(PrefillOrder) = Cardinality(PrefillNodes)
  /\ ToSet(DecodeOrder) = DecodeNodes /\ Len(DecodeOrder) = Cardinality(DecodeNodes)
  /\ {PromptLen, BlockSize} \subseteq Nat \ {0}
  /\ {MinHitPercent, Alpha, Beta, Gamma, WHistorical, WEviction, WRun, SloTtft, SloTbt} \subseteq Nat
  /\ MinHitPercent <= 100

-----------------------------------------------------------------------------
(* Estimates.                                                                *)

(* Mutant of EstimatePrefillTime: the chunks are rounded down.               *)
EstimatePrefillTimeFloor(uncached, batch) ==
  (uncached \div ChunkSize)
    * (ChunkSize * PrefillCost + DecodeBase + batch * MarginalDecode)

(* estimate_prefill_time with a batch_size_hint: every chunk counts as full. *)
EstimatePrefillTime(uncached, batch) ==
  ((uncached + ChunkSize - 1) \div ChunkSize)
    * (ChunkSize * PrefillCost + DecodeBase + batch * MarginalDecode)

EstimateDecodeTime(batch) == DecodeBase + batch * MarginalDecode

(* Mutant of LaneWait: the backlog is taken as a duration, not as a time.    *)
LaneWaitAbsolute(p, d, t) == Later(egressAvailableAt[p], ingressAvailableAt[d])

(* Both lanes are taken at once, so the longer of the two waits counts.      *)
LaneWait(p, d, t) ==
  Later(Later(0, egressAvailableAt[p] - t), Later(0, ingressAvailableAt[d] - t))

(* compute_est_ttft and compute_est_tbt.                                     *)
EstTtft(p, d, hit, t) ==
  EstimatePrefillTime(PromptLen - hit.matched, Cardinality(nodes[p].decoding) + 1)
    + QueueWaitTime(nodes[p])
    + TransferCost + LaneWait(p, d, t)
    + hit.cost
    + EstimateDecodeTime(Cardinality(nodes[d].decoding) + 1)

EstTbt(d) == EstimateDecodeTime(Cardinality(nodes[d].decoding) + 1)

-----------------------------------------------------------------------------
(* Choices.                                                                  *)

(* min(S, key = (Key(n), node_id)), for nodes S of a pool.                   *)
FirstMin(pool, S, Key(_)) ==
  LET listed == {i \in DOMAIN pool : pool[i] \in S}
  IN pool[CHOOSE i \in listed : \A j \in listed :
            Key(pool[i]) < Key(pool[j]) \/ (Key(pool[i]) = Key(pool[j]) /\ i <= j)]

(* Mutant of LeastLoaded: max for min.                                       *)
MostLoaded(pool, S) == FirstMin(pool, S, LAMBDA n : -Len(nodes[n].running))

LeastLoaded(pool, S) == FirstMin(pool, S, LAMBDA n : Len(nodes[n].running))

(* RoundRobin: each pool has a cursor of its own.                            *)
AtCursor(pool, cursor) == pool[(cursor % Len(pool)) + 1]

(* PrefixGreedy: the least loaded of the best hits, if these are good enough.*)
GreedyDecode(lookups) ==
  LET best == Max({lookups[d].matched : d \in DecodeNodes})
  IN IF 100 * best < MinHitPercent * PromptLen
     THEN LeastLoaded(DecodeOrder, DecodeNodes)
     ELSE LeastLoaded(DecodeOrder, {d \in DecodeNodes : lookups[d].matched = best})

(* E2: historical load, eviction cost and run cost, the least total wins.    *)
E2Decode(p, lookups, t) ==
  LET newBlocks(d) == Later(0, PromptLen \div BlockSize - lookups[d].matched \div BlockSize)
      shortage(d) == Later(0, newBlocks(d) - lookups[d].free)
      score(d) == WHistorical * Len(nodes[d].running) * PromptLen * PrefillCost
                    + NodeCapacity * (WEviction * shortage(d) * BlockSize * PrefillCost
                                       + WRun * EstTtft(p, d, lookups[d], t))
  IN FirstMin(DecodeOrder, DecodeNodes, score)

(* Mutant of ConductorDecode: the load counts in favour of a node.           *)
ConductorDecodeSigns(lookups) ==
  LET load(d) == Len(nodes[d].running) * PromptLen * PrefillCost
                   + NodeCapacity * QueueWaitTime(nodes[d])
      score(d) == NodeCapacity * (Alpha * lookups[d].matched * PrefillCost - Gamma * lookups[d].cost)
                    + Beta * load(d)
  IN FirstMin(DecodeOrder, DecodeNodes, LAMBDA d : -score(d))

(* MooncakeConductor: cache benefit less load and tier-migration penalties,  *)
(* the highest score wins.                                                   *)
ConductorDecode(lookups) ==
  LET load(d) == Len(nodes[d].running) * PromptLen * PrefillCost
                   + NodeCapacity * QueueWaitTime(nodes[d])
      score(d) == NodeCapacity * (Alpha * lookups[d].matched * PrefillCost - Gamma * lookups[d].cost)
                    - Beta * load(d)
  IN FirstMin(DecodeOrder, DecodeNodes, LAMBDA d : -score(d))

(* Its gate: reject what the estimates put above the SLO.                    *)
SloExceeded(p, d, hit, t) == EstTtft(p, d, hit, t) > SloTtft \/ EstTbt(d) > SloTbt
=============================================================================
