------------------------------- MODULE Cluster -------------------------------
(***************************************************************************)
(* Serving with the real cache of its decode node: module CacheManager     *)
(* answers the lookups of the event handlers, materializes the block table *)
(* when a transfer ends and releases it when a request completes.  One     *)
(* decode node, since each has a cache of its own.                         *)
(*                                                                         *)
(* The cache call of a handler runs while its event is at the head of the  *)
(* queue: first the steps of the call, then the action of Serving, which   *)
(* pops the event and uses the answer.  A call that raises RuntimeError    *)
(* ends the program: nothing catches it.                                   *)
(***************************************************************************)
EXTENDS Serving

CONSTANTS
  Blocks, GpuBlocks, CpuBlocks, DiskBlocks, BlockSize,    (* CacheManager's. *)
  NoRequest,
  Prompts       (* The prompts of the workload, all of one length and not    *)
                (* shorter than a block.                                     *)

ASSUME ClusterAssumption ==
  /\ Cardinality(DecodeNodes) = 1
  /\ \A p, q \in Prompts : Len(p) = Len(q) /\ Len(p) >= BlockSize
  /\ \A p \in Prompts : 0..Len(p) = Uncached /\ p \in Seq(ToSet(p))
  /\ IsFiniteSet(Blocks) /\ NoRequest \notin Requests
  /\ GpuBlocks \in Nat /\ CpuBlocks \in Nat /\ DiskBlocks \in Nat
  /\ BlockSize \in Nat \ {0}

VARIABLES
  allocated, blockTier, pinCount, tree, call,   (* CacheManager's.           *)
  blockTables,  (* _block_tables, `tables` in CacheManager.                  *)
  prompt,       (* token_ids of the requests that have arrived.              *)
  answered      (* The cache call of the event at the head is over.          *)

cacheVars == <<allocated, blockTier, pinCount, tree, call, blockTables>>
clusterVars == <<vars, cacheVars, prompt, answered>>

(* The simulated clock of the cache: the time of the event being handled,    *)
(* in halves of a millisecond, since demote_lru stamps a leaf just after it. *)
CacheTime == 2 * (IF events = <<>> THEN now ELSE Head(events).time)

Cache == INSTANCE CacheManager WITH tables <- blockTables, now <- CacheTime

ClusterInit ==
  /\ Init
  /\ Cache!PoolInit
  /\ tree = Cache!EmptyTree
  /\ blockTables = [r \in Requests |-> Cache!NoTable]
  /\ call = Cache!Idle
  /\ prompt = [r \in Requests |-> <<>>]
  /\ answered = FALSE

-----------------------------------------------------------------------------
(* The cache calls of the handlers.                                          *)

(* The event at the head is of this type and its cache call is to be made.   *)
Asks(type) ==
  /\ events # <<>> /\ Head(events).type = type
  /\ ~answered

(* on_arrive: a request with any prompt; the policy and the handler look it  *)
(* up.                                                                       *)
LookOnArrive ==
  /\ Asks("REQUEST_ARRIVE")
  /\ \E toks \in Prompts :
       /\ prompt' = [prompt EXCEPT ![Req] = toks]
       /\ UNCHANGED vars
       /\ Cache!Lookup(toks)
  /\ answered' = TRUE

(* on_prefill_start looks its own request up, on_prefill_complete the one it *)
(* promotes.                                                                 *)
LookOnPrefill ==
  /\ UNCHANGED <<vars, prompt>>
  /\ \/ Asks("PREFILL_START") /\ Cache!Lookup(prompt[Req])
     \/ /\ Asks("PREFILL_COMPLETE") /\ Promoted(nodes[Node]) # {}
        /\ Cache!Lookup(prompt[Head(nodes[Node].queue)])
  /\ answered' = TRUE

(* on_kv_transfer_complete, when the decode node has room.                   *)
MaterializeCall ==
  /\ Asks("KV_TRANSFER_COMPLETE") /\ HasRoom(nodes[decisions[Req].decode])
  /\ UNCHANGED <<vars, prompt>>
  /\ Cache!MaterializeBegin(Req, prompt[Req])
  /\ UNCHANGED answered

(* The call runs on until it returns or raises.                              *)
MaterializeStep ==
  /\ UNCHANGED <<vars, prompt>>
  /\ Cache!CallStep
  /\ answered' = (call'.pc = "idle")

(* on_decode_complete; KeyError, when there is no table, is caught.          *)
ReleaseCall ==
  /\ Asks("DECODE_COMPLETE") /\ Req \in Cache!Active
  /\ UNCHANGED <<vars, prompt>>
  /\ Cache!Release(Req)
  /\ answered' = TRUE

-----------------------------------------------------------------------------
(* The handlers, with the answers.                                           *)

UncachedOf(r) == Len(prompt[r]) - Cache!LookupTokens(prompt[r])

(* The rest of the handler: the call is over, the event is popped.           *)
Handled ==
  /\ call.pc = "idle"
  /\ answered' = FALSE
  /\ UNCHANGED <<cacheVars, prompt>>

OnArrive ==
  /\ answered
  /\ \/ ArriveRejected
     \/ \E p \in PrefillNodes, d \in DecodeNodes :
          ArriveRouted(p, d) /\ nodes'[p].uncached[Req] = UncachedOf(Req)
  /\ Handled

OnPrefillStart ==
  /\ answered
  /\ PrefillStartCached \/ PrefillStartChunked
  /\ nodes'[Node].uncached[Req] = UncachedOf(Req)
  /\ Handled

OnPrefillComplete ==
  /\ PrefillComplete
  /\ \A q \in Promoted(nodes[Node]) : answered /\ nodes'[Node].uncached[q] = UncachedOf(q)
  /\ Handled

OnTransferComplete ==
  /\ \/ TransferRejected
     \/ answered /\ TransferAdmitted /\ tables' = Cache!Active
  /\ Handled

OnDecodeComplete ==
  /\ DecodeComplete
  /\ Req \notin Cache!Active
  /\ Handled

OnOther ==
  /\ Scheduled \/ Rejected \/ TransferStarts \/ BatchStep \/ TokenGenerated
  /\ Handled

ClusterNext ==
  \/ LookOnArrive \/ LookOnPrefill \/ MaterializeCall \/ MaterializeStep \/ ReleaseCall
  \/ OnArrive \/ OnPrefillStart \/ OnPrefillComplete \/ OnTransferComplete
  \/ OnDecodeComplete \/ OnOther

ClusterSpec == ClusterInit /\ [][ClusterNext]_clusterVars

-----------------------------------------------------------------------------
(* Properties.                                                               *)

Crashed == call.pc = "crashed"

(* The cache drains with the cluster: when the last event is handled no      *)
(* block is pinned and no table is left, whichever materialize calls failed  *)
(* and however requests shared blocks, so every block can be evicted again.  *)
CacheDrains ==
  events = <<>> =>
    /\ Cache!Pinned = {} /\ Cache!Active = {}
    /\ Cache!Alive \subseteq Cache!BlocksOf(tree)

(* While a request decodes with a block table its blocks stay where they     *)
(* are, through every eviction that other transfers cause on the node.       *)
DecodesInPlace ==
  [][\A r \in tables : r \in ToSet(nodes[decisions[r].decode].running) =>
       \A b \in ToSet(blockTables[r].bids) :
         (~Crashed' /\ r \in tables') => blockTier'[b] = blockTier[b] /\ b \in Cache!Alive]_clusterVars

(* A running request keeps its prompt cached: as long as it decodes with a   *)
(* table, a lookup of the same prompt is a full hit.                         *)
SharedPromptHits ==
  \A r \in tables : call.pc = "idle" => UncachedOf(r) = 0

(* No event handler is left by an exception: materialize_request raises      *)
(* nothing but the MemoryError that its caller catches.                      *)
HandlersReturn == ~Crashed
=============================================================================
