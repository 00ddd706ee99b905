----------------------------- MODULE CacheManager -----------------------------
(***************************************************************************)
(* The KV cache of one decode node (kv_cache/cache_manager.py): a radix    *)
(* tree over prompts, the tiered block pool that backs it, and the block   *)
(* tables of the requests that run on the node.  CacheManager keeps one    *)
(* independent tree and pool per node, so one node is modelled.            *)
(*                                                                         *)
(* The simulator is single threaded: a call runs to its end before the     *)
(* next begins.  A materialize_request that has to evict is long, though,  *)
(* and raises from several places, so it is modelled in the steps of the   *)
(* code, one pool operation each; `call` is its stack frame, and no other  *)
(* action is enabled until it is back to idle.                             *)
(***************************************************************************)
EXTENDS BlockPool, RadixTree

CONSTANTS
  Requests,     (* Request ids.                                              *)
  Prompts,      (* The prompts requests come with: sequences of tokens.      *)
  NoRequest     (* The caller of a direct admit().                           *)

ASSUME CacheAssumption ==
  /\ IsFiniteSet(Requests) /\ NoRequest \notin Requests
  /\ \A p \in Prompts : p \in Seq(ToSet(p))

VARIABLES
  tree,         (* _trees[node], a value of RadixTree.                       *)
  tables,       (* _block_tables: per request the aligned tokens it asked    *)
                (* for and the block_ids of its table, or NoTable.           *)
  call,         (* The call in progress: where it is, for whom, its tokens,  *)
                (* the blocks it has pinned so far, the victim's blocks it   *)
                (* still has to demote, and the exception it is raising.     *)
  now           (* The simulated clock, up to order (see Tick).              *)

vars == <<poolVars, tree, tables, call, now>>

NoTable == [toks |-> <<>>, bids |-> <<>>, active |-> FALSE]
Table(toks, bids) == [toks |-> toks, bids |-> bids, active |-> TRUE]
Active == {r \in Requests : tables[r].active}

Frame(pc, r, toks) ==
  [pc |-> pc, req |-> r, toks |-> toks, retained |-> <<>>, victims |-> <<>>, err |-> "none"]
Idle == Frame("idle", NoRequest, <<>>)

Init ==
  /\ PoolInit
  /\ tree = EmptyTree
  /\ tables = [r \in Requests |-> NoTable]
  /\ call = Idle
  /\ now = 0

-----------------------------------------------------------------------------
(* Helpers.                                                                  *)

(* _aligned_tokens: the part of a prompt that fills whole blocks.            *)
AlignedTokens(toks) == SubSeq(toks, 1, (Len(toks) \div BlockSize) * BlockSize)
TotalBlocks(toks) == Len(toks) \div BlockSize

(* The matched blocks that lookup and _live_prefix_block_ids look at.        *)
MatchedPath(toks) ==
  SubSeq(PathBlocks(tree, toks), 1, MatchedLen(tree, toks) \div BlockSize)

(* _live_prefix_block_ids: stops at the first dead block.                    *)
LivePrefix(toks) ==
  LET path == MatchedPath(toks)
  IN SubSeq(path, 1, Max({n \in 0..Len(path) : \A i \in 1..n : path[i] \in Alive}))

(* matched_tokens of lookup: the live blocks among the matched ones.         *)
LookupTokens(toks) ==
  LET path == MatchedPath(toks)
  IN BlockSize * Cardinality({i \in DOMAIN path : path[i] \in Alive})

(* The ids that neither the pool nor the tree knows.                         *)
UnusedIds == Blocks \ (Alive \cup BlocksOf(tree))

(* uuid4() in _mint: n ids that are in use nowhere.  An id that is in use    *)
(* nowhere cannot be told from a new one.                                    *)
FreshIds(n) == CHOOSE ids \in [1..n -> UnusedIds] : IsInjective(ids)

Raise(err) == call' = [call EXCEPT !.pc = "unwind", !.err = err, !.victims = <<>>]

(* admit() returns: to materialize_request, or to a direct caller.           *)
AdmitReturns ==
  call' = IF call.req = NoRequest THEN Idle
          ELSE [call EXCEPT !.pc = "rematch", !.victims = <<>>]

-----------------------------------------------------------------------------
(* lookup() and the simulated clock.                                         *)

(* lookup is read-only but for the time stamps of the matched nodes.         *)
Lookup(toks) ==
  /\ call.pc = "idle"
  /\ tree' = Touch(tree, toks, now)
  /\ UNCHANGED <<poolVars, tables, call, now>>

(* The clock moves between calls.  The code only compares time stamps, so    *)
(* they are renumbered in order and the new time is put above them all.      *)
Tick ==
  LET stamps == {tree[p].last : p \in TreeNodes(tree)}
      rank(t) == Cardinality({s \in stamps : s < t})
  IN /\ call.pc = "idle"
     /\ tree' = [p \in TreeNodes(tree) |-> [tree[p] EXCEPT !.last = rank(@)]]
     /\ now' = Cardinality(stamps)
     /\ UNCHANGED <<poolVars, tables, call>>

-----------------------------------------------------------------------------
(* materialize_request() and release_request().                              *)

(* A prompt shorter than a block gets an empty table.                        *)
MaterializeShort(r, toks) ==
  /\ call.pc = "idle" /\ r \notin Active
  /\ TotalBlocks(toks) = 0
  /\ tables' = [tables EXCEPT ![r] = Table(<<>>, <<>>)]
  /\ UNCHANGED <<poolVars, tree, call, now>>

(* Pin the live cached prefix before anything can be evicted.                *)
MaterializeBegin(r, toks) ==
  LET t == AlignedTokens(toks)
      prefix == LivePrefix(t)
  IN /\ call.pc = "idle" /\ r \notin Active
     /\ TotalBlocks(toks) > 0
     /\ tree' = Touch(tree, t, now)
     /\ Pin(ToSet(prefix))
     /\ call' = [Frame(IF Len(prefix) < TotalBlocks(t) THEN "admit" ELSE "rematch", r, t)
                   EXCEPT !.retained = prefix]
     /\ UNCHANGED <<tables, now>>

(* Mutant of Rematch: pins the whole table, the retained prefix once more.   *)
RematchRepins ==
  LET path == PathBlocks(tree, call.toks)
      total == TotalBlocks(call.toks)
      bids == SubSeq(path, 1, total)
  IN /\ call.pc = "rematch"
     /\ MatchedLen(tree, call.toks) \div BlockSize >= total
     /\ ToSet(bids) \subseteq Alive
     /\ tree' = Touch(tree, call.toks, now)
     /\ Pin(ToSet(bids))
     /\ tables' = [tables EXCEPT ![call.req] = Table(call.toks, bids)]
     /\ call' = Idle
     /\ UNCHANGED now

(* Mutant of Rematch: the newly inserted blocks are not pinned.              *)
RematchForgetsNew ==
  LET path == PathBlocks(tree, call.toks)
      total == TotalBlocks(call.toks)
      bids == SubSeq(path, 1, total)
  IN /\ call.pc = "rematch"
     /\ MatchedLen(tree, call.toks) \div BlockSize >= total
     /\ ToSet(bids) \subseteq Alive
     /\ tree' = Touch(tree, call.toks, now)
     /\ tables' = [tables EXCEPT ![call.req] = Table(call.toks, bids)]
     /\ call' = Idle
     /\ UNCHANGED <<poolVars, now>>

(* After admit(): match again, pin what is not pinned yet, record the table. *)
Rematch ==
  LET path == PathBlocks(tree, call.toks)
      total == TotalBlocks(call.toks)
      bids == SubSeq(path, 1, total)
  IN /\ call.pc = "rematch"
     /\ MatchedLen(tree, call.toks) \div BlockSize >= total
     /\ ToSet(bids) \subseteq Alive
     /\ tree' = Touch(tree, call.toks, now)
     /\ Pin(ToSet(bids) \ ToSet(call.retained))
     /\ tables' = [tables EXCEPT ![call.req] = Table(call.toks, bids)]
     /\ call' = Idle
     /\ UNCHANGED now

(* "materialized path contains freed blocks" (or is still too short).        *)
RematchFails ==
  LET path == PathBlocks(tree, call.toks)
      total == TotalBlocks(call.toks)
  IN /\ call.pc = "rematch"
     /\ ~ /\ MatchedLen(tree, call.toks) \div BlockSize >= total
          /\ ToSet(SubSeq(path, 1, total)) \subseteq Alive
     /\ tree' = Touch(tree, call.toks, now)
     /\ Raise("MemoryError")
     /\ UNCHANGED <<poolVars, tables, now>>

(* Mutant of Unwind: the except clause forgets to release.                   *)
UnwindLeaks ==
  /\ call.pc = "unwind"
  /\ call' = IF call.err = "MemoryError" THEN Idle
             ELSE [Idle EXCEPT !.pc = "crashed", !.err = call.err]
  /\ UNCHANGED <<poolVars, tree, tables, now>>

(* The except clause: release what was pinned and re-raise.  The event       *)
(* handler that called catches MemoryError; nothing catches RuntimeError.    *)
Unwind ==
  /\ call.pc = "unwind"
  /\ Unpin(ToSet(call.retained))
  /\ call' = IF call.err = "MemoryError" THEN Idle
             ELSE [Idle EXCEPT !.pc = "crashed", !.err = call.err]
  /\ UNCHANGED <<tree, tables, now>>

Release(r) ==
  /\ call.pc = "idle" /\ r \in Active
  /\ Unpin(ToSet(tables[r].bids))
  /\ tables' = [tables EXCEPT ![r] = NoTable]
  /\ UNCHANGED <<tree, call, now>>

-----------------------------------------------------------------------------
(* admit(): fast path, purge of a path with dead blocks, eviction, insert.   *)

(* A direct call of the public method.  The event handlers reach admit only  *)
(* through materialize_request.                                              *)
AdmitBegin(toks) ==
  /\ call.pc = "idle"
  /\ TotalBlocks(toks) > 0
  /\ call' = Frame("admit", NoRequest, AlignedTokens(toks))
  /\ UNCHANGED <<poolVars, tree, tables, now>>

FullyMatched == MatchedLen(tree, call.toks) \div BlockSize >= TotalBlocks(call.toks)
AllLive == ToSet(SubSeq(PathBlocks(tree, call.toks), 1, TotalBlocks(call.toks))) \subseteq Alive

AdmitCached ==
  /\ call.pc = "admit" /\ FullyMatched /\ AllLive
  /\ tree' = Touch(tree, call.toks, now)
  /\ AdmitReturns
  /\ UNCHANGED <<poolVars, tables, now>>

AdmitMiss ==
  /\ call.pc = "admit" /\ ~FullyMatched
  /\ tree' = Touch(tree, call.toks, now)
  /\ call' = [call EXCEPT !.pc = "evict"]
  /\ UNCHANGED <<poolVars, tables, now>>

(* Mutant of AdmitPurge: the live blocks of the severed nodes stay behind.   *)
AdmitPurgeLeaks ==
  /\ call.pc = "admit" /\ FullyMatched /\ ~AllLive
  /\ SeveredAlive(tree, call.toks, Alive) \cap Pinned = {}
  /\ tree' = Touch(RemoveNodes(tree, SeveredNodes(tree, call.toks, Alive)), call.toks, now)
  /\ call' = [call EXCEPT !.pc = "evict"]
  /\ UNCHANGED <<poolVars, tables, now>>

(* The whole prompt is in the tree but some of its blocks are dead: sever    *)
(* the path there and give the live blocks below back to the pool ...        *)
AdmitPurge ==
  /\ call.pc = "admit" /\ FullyMatched /\ ~AllLive
  /\ FreeBlocks(SeveredAlive(tree, call.toks, Alive))
  /\ tree' = Touch(RemoveNodes(tree, SeveredNodes(tree, call.toks, Alive)), call.toks, now)
  /\ call' = [call EXCEPT !.pc = "evict"]
  /\ UNCHANGED <<tables, now>>

(* ... which pool.free refuses, with RuntimeError, when one is pinned.  How  *)
(* much of the purge came before is not kept: the program ends here.         *)
AdmitPurgeFails ==
  /\ call.pc = "admit" /\ FullyMatched /\ ~AllLive
  /\ SeveredAlive(tree, call.toks, Alive) \cap Pinned # {}
  /\ tree' = Touch(tree, call.toks, now)
  /\ Raise("RuntimeError")
  /\ UNCHANGED <<poolVars, tables, now>>

WorstCaseNew == Min({TotalBlocks(call.toks) + 1, GpuBlocks})
TooLarge == TotalBlocks(call.toks) > GpuBlocks
MustEvict == Used("gpu") + WorstCaseNew > GpuBlocks

AdmitTooLarge ==
  /\ call.pc = "evict" /\ TooLarge
  /\ Raise("MemoryError")
  /\ UNCHANGED <<poolVars, tree, tables, now>>

(* demote_lru finds every leaf pinned.                                       *)
NothingToEvict ==
  /\ call.pc = "evict" /\ ~TooLarge /\ MustEvict
  /\ DemotionCandidates(tree, Pinned) = {}
  /\ Raise("MemoryError")
  /\ UNCHANGED <<poolVars, tree, tables, now>>

(* Mutant of DropZombie: the zombie leaf is skipped but stays in the tree.   *)
DropZombieKeeps ==
  /\ call.pc = "evict" /\ ~TooLarge /\ MustEvict
  /\ \E v \in LruVictims(tree, Pinned) :
      /\ ToSet(tree[v].bids) \cap Alive = {}
      /\ tree' = [tree EXCEPT ![v].last = now + 1]
      /\ UNCHANGED <<poolVars, tables, call, now>>

(* demote_lru meets a leaf whose blocks are all dead: drop it, scan on.      *)
DropZombie ==
  /\ call.pc = "evict" /\ ~TooLarge /\ MustEvict
  /\ \E v \in LruVictims(tree, Pinned) :
      /\ ToSet(tree[v].bids) \cap Alive = {}
      /\ tree' = RemoveNodes(tree, {v})
      /\ UNCHANGED <<poolVars, tables, call, now>>

(* Mutant of SelectVictim: the stamp is advanced from itself, not from now.  *)
SelectVictimDrifts ==
  /\ call.pc = "evict" /\ ~TooLarge /\ MustEvict
  /\ \E v \in LruVictims(tree, Pinned) :
      /\ ToSet(tree[v].bids) \cap Alive # {}
      /\ tree' = [tree EXCEPT ![v].last = @ + 1]
      /\ call' = [call EXCEPT !.pc = "demote", !.victims = tree[v].bids]
      /\ UNCHANGED <<poolVars, tables, now>>

(* demote_lru selects a victim and stamps it now + 1e-9, which is after now  *)
(* or, in floating point from 2^24 ms on, now itself.                        *)
SelectVictim ==
  /\ call.pc = "evict" /\ ~TooLarge /\ MustEvict
  /\ \E v \in LruVictims(tree, Pinned) :
      /\ ToSet(tree[v].bids) \cap Alive # {}
      /\ \E stamp \in {now, now + 1} : tree' = [tree EXCEPT ![v].last = stamp]
      /\ call' = [call EXCEPT !.pc = "demote", !.victims = tree[v].bids]
      /\ UNCHANGED <<poolVars, tables, now>>

(* The rest of the victim's blocks, or back to the loop test.                *)
NextVictimBlock ==
  call' = [call EXCEPT !.victims = Tail(@),
                       !.pc = IF Len(call.victims) = 1 THEN "evict" ELSE "demote"]

(* The tier _demote_block moves a block of tier t to: the next slower tier   *)
(* with a free slot, or None.                                                *)
DemotionTarget(t) ==
  IF t = "gpu" /\ Free("cpu") > 0 THEN "cpu"
  ELSE IF t \in {"gpu", "cpu"} /\ Free("disk") > 0 THEN "disk"
  ELSE None

(* _demote_block on a block that is dead already.  Its test for a pinned     *)
(* block cannot succeed: demote_lru passes over leaves with pinned blocks.   *)
DemoteDead ==
  /\ call.pc = "demote" /\ Head(call.victims) \notin Alive
  /\ NextVictimBlock
  /\ UNCHANGED <<poolVars, tree, tables, now>>

DemoteDown ==
  LET b == Head(call.victims)
      to == DemotionTarget(blockTier[b])
  IN /\ call.pc = "demote" /\ b \in Alive
     /\ to # None
     /\ Move(b, blockTier[b], to)
     /\ NextVictimBlock
     /\ UNCHANGED <<tree, tables, now>>

(* No slower tier has room: free the block and purge_block_ids its leaf.     *)
DemoteOut ==
  LET b == Head(call.victims)
  IN /\ call.pc = "demote" /\ b \in Alive
     /\ DemotionTarget(blockTier[b]) = None
     /\ FreeBlocks({b})
     /\ tree' = PurgeBlocks(tree, {b}, Alive \ {b})
     /\ NextVictimBlock
     /\ UNCHANGED <<tables, now>>

(* tree.insert: mint for the split, split, mint for the leaf, add it.  The   *)
(* second mint can fail when the first took the last free slot, and leaves   *)
(* the split in place.  Blocks bounds the ids: Insert waits for unused ones. *)
(* The ids are bound once, by \E over the one choice that there is.          *)
Insert ==
  LET touched == Touch(tree, call.toks, now)
      extra == SplitMint(tree, call.toks)
      leaf == LeafMint(tree, call.toks)
      fits == extra + leaf <= Free("gpu")
      n == IF fits THEN extra + leaf ELSE extra
  IN /\ call.pc = "evict" /\ ~TooLarge /\ ~MustEvict
     /\ n <= Cardinality(UnusedIds)
     /\ \E ids \in {FreshIds(n)} :
          LET split == Split(touched, call.toks, SubSeq(ids, 1, extra), now)
          IN /\ Allocate(ToSet(ids), "gpu")
             /\ IF fits
                THEN /\ tree' = AddLeaf(split, call.toks, SubSeq(ids, extra + 1, n), now)
                     /\ AdmitReturns
                ELSE /\ tree' = split
                     /\ Raise("MemoryError")
     /\ UNCHANGED <<tables, now>>

-----------------------------------------------------------------------------
(* The running call, and the specification.                                  *)

CallStep ==
  \/ AdmitCached \/ AdmitMiss \/ AdmitPurge \/ AdmitPurgeFails
  \/ AdmitTooLarge \/ NothingToEvict \/ DropZombie \/ SelectVictim
  \/ DemoteDead \/ DemoteDown \/ DemoteOut
  \/ Insert \/ Rematch \/ RematchFails \/ Unwind

(* The calls the event handlers make.                                        *)
HandlerCall ==
  \/ Tick
  \/ \E toks \in Prompts : Lookup(toks)
  \/ \E r \in Requests, toks \in Prompts : MaterializeShort(r, toks) \/ MaterializeBegin(r, toks)
  \/ \E r \in Requests : Release(r)

Next == CallStep \/ HandlerCall

Spec == Init /\ [][Next]_vars

(* A call that has begun runs on: Python does not stop in the middle.        *)
FairSpec == Spec /\ WF_vars(CallStep)

(* The same with direct calls of the public admit method.                    *)
ApiNext == Next \/ \E toks \in Prompts : AdmitBegin(toks)
ApiSpec == Init /\ [][ApiNext]_vars

-----------------------------------------------------------------------------
(* Properties.                                                               *)

(* Type invariant: the pool, the tree over token sequences, the tables and   *)
(* the frame of the running call.                                            *)
TypeOK ==
  /\ PoolTypeOK
  /\ now \in Nat
  /\ \A p \in TreeNodes(tree) :
       /\ p # <<>>
       /\ tree[p].bids \in Seq(Blocks)
       /\ tree[p].last \in 0..(now + 1)
  /\ \A r \in Requests : tables[r].bids \in Seq(Blocks) /\ tables[r].active \in BOOLEAN
  /\ call.pc \in {"idle", "admit", "evict", "demote", "rematch", "unwind", "crashed"}
  /\ call.retained \in Seq(Blocks) /\ call.victims \in Seq(Blocks)

Holders(b) == {r \in Active : b \in ToSet(tables[r].bids)}

(* A block's pin count is the number of active block tables that contain it, *)
(* plus one while the running materialize_request holds it: no error path    *)
(* (MemoryError from admit or from the re-match) leaks or drops a pin.       *)
PinAccounting ==
  \A b \in Blocks :
    pinCount[b] = Cardinality(Holders(b)) + (IF b \in ToSet(call.retained) THEN 1 ELSE 0)

(* A step that leaves every block of every active table on its tier.         *)
TableBlocksStay ==
  \A r \in Active : \A b \in ToSet(tables[r].bids) :
    b \in Alive /\ blockTier'[b] = blockTier[b]

(* What a decoding request relies on: no step of any later call, eviction    *)
(* included, moves or frees a block of its table.                            *)
TablesStayPut == [][TableBlocksStay]_vars

(* insert, split and the purges keep a radix tree: edges part at nodes, each *)
(* node owns the blocks its key needs, no block is owned twice.              *)
TreeWellFormed == Branching(tree) /\ SizedNodes(tree) /\ OwnedOnce(tree)

(* No tier slot leaks: every allocated block is owned by a tree node, so     *)
(* eviction can reach it.  Purging a node must return its live blocks.       *)
NoLeak == Alive \subseteq BlocksOf(tree)

(* With prompts that split at block boundaries a table is the tree path of   *)
(* its prompt, block for block, for as long as the request is active.        *)
TableIsPath ==
  \A r \in Active : tables[r].bids = PathBlocks(tree, tables[r].toks)

(* Every call ends: the eviction loop of admit makes progress until there is *)
(* room or nothing left to evict.                                            *)
CallsReturn == (call.pc # "idle") ~> (call.pc \in {"idle", "crashed"})

(* lookup's matched_tokens are tokens that materialize_request would reuse:  *)
(* the live blocks that lead the prompt.                                     *)
LookupIsReusable ==
  call.pc = "idle" =>
    \A toks \in Prompts : LookupTokens(toks) <= BlockSize * Len(LivePrefix(AlignedTokens(toks)))
=============================================================================
