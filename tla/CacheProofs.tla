---------------------------- MODULE CacheProofs ----------------------------
(***************************************************************************)
(* The block pool, and the cache manager that uses it, for every set of    *)
(* prompts, every block size and every tier size.                          *)
(*                                                                         *)
(* The pool keeps its promises to any client.  PoolInv is the conjunction  *)
(* of its four invariants: the capacity of the source and destination      *)
(* tiers is only preserved because the two indexes agree, and freeing is   *)
(* only safe for the pins because both indexes and the pin counts change   *)
(* together.                                                               *)
(*                                                                         *)
(* The block tables of active requests stay where they are.  Nothing is    *)
(* assumed of the radix tree there: its operators stay unexpanded, so the  *)
(* result does not depend on what is matched, split, evicted or purged,    *)
(* only on how the cache manager pins and on what the pool refuses to do   *)
(* with a pinned block.                                                    *)
(*                                                                         *)
(* Then the tree.  WholeInv says that it is a radix tree which owns every  *)
(* allocated block once, and that what the running call retains is, in     *)
(* order, on the matched path of its prompt: a split keeps the blocks of   *)
(* that path, and what is pinned is neither evicted nor severed.  From it  *)
(* come the well-formed tree, the absence of leaks, the types and, since   *)
(* the re-match pins all of the table but what is retained, exact pin      *)
(* counts.                                                                 *)
(*                                                                         *)
(* Last, when prompts part between blocks, a table is the path of its      *)
(* prompt: PathsInv says that every node then ends between blocks, so a    *)
(* split mints nothing new and an insert puts no block in front of those   *)
(* of a table, and what is removed has no pinned block.                    *)
(***************************************************************************)
EXTENDS CacheManager, FiniteSetTheorems, SequenceTheorems, WellFoundedInduction, TLAPS

-----------------------------------------------------------------------------
(* The block pool.                                                           *)

PoolInv == PoolTypeOK /\ IndexAgreement /\ WithinCapacity /\ PinnedAreAllocated

(* The blocks of a tier are finitely many, so Used is a number.              *)
LEMMA TierFinite ==
  ASSUME PoolTypeOK, NEW t \in Tiers
  PROVE  /\ IsFiniteSet(allocated[t])
         /\ Used(t) \in Nat
         /\ Capacity[t] \in Nat
<1>1. IsFiniteSet(allocated[t])
  BY FS_Subset, PoolAssumption DEF PoolTypeOK
<1>2. Used(t) \in Nat
  BY <1>1, FS_CardinalityType DEF Used
<1>3. Capacity[t] \in Nat
  BY PoolAssumption DEF Capacity, Tiers
<1> QED
  BY <1>1, <1>2, <1>3

(* allocate: the new blocks are unpinned and fit into the tier.              *)
LEMMA AllocatePreserves ==
  ASSUME PoolInv, NEW ids \in SUBSET Blocks, NEW t \in Tiers, Allocate(ids, t)
  PROVE  PoolInv'
<1>1. PoolTypeOK'
  BY DEF PoolInv, PoolTypeOK, Allocate, Tiers, None
<1>2. IndexAgreement'
  BY DEF PoolInv, PoolTypeOK, IndexAgreement, Allocate, Alive, Tiers, None
<1>3. WithinCapacity'
  <2> SUFFICES ASSUME NEW u \in Tiers
               PROVE  Cardinality(allocated'[u]) <= Capacity[u]
    BY DEF WithinCapacity, Used
  <2>1. /\ IsFiniteSet(allocated[u]) /\ Used(u) \in Nat /\ Capacity[u] \in Nat
        /\ Used(u) <= Capacity[u]
    BY TierFinite DEF PoolInv, WithinCapacity
  <2>2. CASE u # t
    BY <2>1, <2>2 DEF PoolInv, PoolTypeOK, Allocate, Used
  <2>3. CASE u = t
    <3>1. allocated'[u] = allocated[u] \cup ids
      BY <2>3 DEF PoolInv, PoolTypeOK, Allocate
    <3>2. IsFiniteSet(ids)
      BY FS_Subset, PoolAssumption
    <3>3. /\ Cardinality(allocated[u] \cup ids)
               = Cardinality(allocated[u]) + Cardinality(ids)
                   - Cardinality(allocated[u] \cap ids)
      BY <2>1, <3>2, FS_Union
    <3>4. /\ Cardinality(ids) \in Nat
          /\ Cardinality(allocated[u] \cap ids) \in Nat
      BY <2>1, <3>2, FS_CardinalityType, FS_Intersection
    <3>5. Cardinality(ids) <= Capacity[u] - Used(u)
      BY <2>3 DEF Allocate, Free
    <3> QED
      BY <2>1, <3>1, <3>3, <3>4, <3>5 DEF Used
  <2> QED
    BY <2>2, <2>3
<1>4. PinnedAreAllocated'
  BY DEF PoolInv, PoolTypeOK, PinnedAreAllocated, Allocate, Alive, Pinned, Tiers, None
<1> QED
  BY <1>1, <1>2, <1>3, <1>4 DEF PoolInv

(* free: tiers only shrink, and no freed block was pinned.                   *)
LEMMA FreePreserves ==
  ASSUME PoolInv, NEW ids \in SUBSET Blocks, FreeBlocks(ids)
  PROVE  PoolInv'
<1>1. PoolTypeOK'
  BY DEF PoolInv, PoolTypeOK, FreeBlocks
<1>2. IndexAgreement'
  BY DEF PoolInv, PoolTypeOK, IndexAgreement, FreeBlocks, Alive, Tiers, None
<1>3. WithinCapacity'
  <2> SUFFICES ASSUME NEW u \in Tiers
               PROVE  Cardinality(allocated'[u]) <= Capacity[u]
    BY DEF WithinCapacity, Used
  <2>1. /\ IsFiniteSet(allocated[u]) /\ Used(u) \in Nat /\ Capacity[u] \in Nat
        /\ Used(u) <= Capacity[u]
    BY TierFinite DEF PoolInv, WithinCapacity
  <2>2. allocated'[u] \subseteq allocated[u]
    BY DEF FreeBlocks
  <2>3. Cardinality(allocated'[u]) \in Nat /\ Cardinality(allocated'[u]) <= Cardinality(allocated[u])
    BY <2>1, <2>2, FS_Subset, FS_CardinalityType
  <2> QED
    BY <2>1, <2>3 DEF Used
<1>4. PinnedAreAllocated'
  BY DEF PoolInv, PoolTypeOK, PinnedAreAllocated, FreeBlocks, Alive, Pinned, Tiers, None
<1> QED
  BY <1>1, <1>2, <1>3, <1>4 DEF PoolInv

(* pin and unpin change the pins of allocated blocks only, and unpin never   *)
(* takes a count below zero.                                                 *)
LEMMA PinPreserves ==
  ASSUME PoolInv, NEW ids \in SUBSET Blocks, Pin(ids) \/ Unpin(ids)
  PROVE  PoolInv'
<1>1. \A b \in Blocks : /\ pinCount[b] \in Nat /\ pinCount'[b] \in Nat
                        /\ pinCount'[b] > 0 => pinCount[b] > 0 \/ b \in Alive
  BY DEF PoolInv, PoolTypeOK, Pin, Unpin, Pinned
<1>2. UNCHANGED <<allocated, blockTier>>
  BY DEF Pin, Unpin
<1>3. PoolTypeOK'
  BY <1>1, <1>2 DEF PoolInv, PoolTypeOK, Pin, Unpin
<1>4. IndexAgreement' /\ WithinCapacity'
  BY <1>2 DEF PoolInv, IndexAgreement, WithinCapacity, Used
<1>5. PinnedAreAllocated'
  BY <1>1, <1>2 DEF PoolInv, PinnedAreAllocated, Pinned, Alive
<1> QED
  BY <1>3, <1>4, <1>5 DEF PoolInv

(* _move: the destination had a free slot, the source gives one up.          *)
LEMMA MovePreserves ==
  ASSUME PoolInv, NEW b \in Blocks, NEW from \in Tiers, NEW to \in Tiers, Move(b, from, to)
  PROVE  PoolInv'
<1>1. PoolTypeOK'
  BY DEF PoolInv, PoolTypeOK, Move, Tiers
<1>2. IndexAgreement'
  BY DEF PoolInv, PoolTypeOK, IndexAgreement, Move, Tiers, None
<1>3. WithinCapacity'
  <2> SUFFICES ASSUME NEW u \in Tiers
               PROVE  Cardinality(allocated'[u]) <= Capacity[u]
    BY DEF WithinCapacity, Used
  <2>1. /\ IsFiniteSet(allocated[u]) /\ Used(u) \in Nat /\ Capacity[u] \in Nat
        /\ Used(u) <= Capacity[u]
    BY TierFinite DEF PoolInv, WithinCapacity
  <2>2. CASE u = to
    <3>1. allocated'[u] = allocated[u] \cup {b}
      BY <2>2 DEF Move
    <3>2. \/ Cardinality(allocated'[u]) = Cardinality(allocated[u])
          \/ Cardinality(allocated'[u]) = Cardinality(allocated[u]) + 1
      BY <2>1, <3>1, FS_AddElement
    <3>3. Capacity[u] - Used(u) >= 1
      BY <2>2 DEF Move, Free
    <3> QED
      BY <2>1, <3>2, <3>3 DEF Used
  <2>3. CASE u # to
    <3>1. allocated'[u] \subseteq allocated[u]
      BY <2>3 DEF Move
    <3>2. /\ Cardinality(allocated'[u]) \in Nat
          /\ Cardinality(allocated'[u]) <= Cardinality(allocated[u])
      BY <2>1, <3>1, FS_Subset, FS_CardinalityType
    <3> QED
      BY <2>1, <3>2 DEF Used
  <2> QED
    BY <2>2, <2>3
<1>4. PinnedAreAllocated'
  BY DEF PoolInv, PoolTypeOK, PinnedAreAllocated, Move, Alive, Pinned, Tiers, None
<1> QED
  BY <1>1, <1>2, <1>3, <1>4 DEF PoolInv

(* The empty pool satisfies the invariant.                                   *)
LEMMA PoolInitInv == PoolInit => PoolInv
<1> SUFFICES ASSUME PoolInit PROVE PoolInv
  OBVIOUS
<1>1. PoolTypeOK /\ IndexAgreement /\ PinnedAreAllocated
  BY DEF PoolInit, PoolTypeOK, IndexAgreement, PinnedAreAllocated, Pinned, Alive, Tiers, None
<1>2. WithinCapacity
  <2> SUFFICES ASSUME NEW t \in Tiers PROVE Cardinality(allocated[t]) <= Capacity[t]
    BY DEF WithinCapacity, Used
  <2>1. allocated[t] = {} /\ Cardinality({}) = 0
    BY FS_EmptySet DEF PoolInit
  <2> QED
    BY <1>1, <2>1, TierFinite
<1> QED
  BY <1>1, <1>2 DEF PoolInv

(* The invariant speaks of the pool's variables only.                        *)
LEMMA PoolStutter ==
  ASSUME PoolInv, UNCHANGED poolVars
  PROVE  PoolInv'
BY DEF PoolInv, poolVars, PoolTypeOK, IndexAgreement, WithinCapacity, Used,
       PinnedAreAllocated, Pinned, Alive

(* Every call of a pool method preserves the invariant.                      *)
LEMMA PoolNextPreserves ==
  ASSUME PoolInv, [PoolNext]_poolVars
  PROVE  PoolInv'
BY AllocatePreserves, FreePreserves, PinPreserves, MovePreserves, PoolStutter DEF PoolNext

(* For every client, every tier stays within its capacity, the two indexes   *)
(* agree and no pin outlives its block.                                      *)
THEOREM PoolSafe == PoolSpec => [](IndexAgreement /\ WithinCapacity /\ PinnedAreAllocated)
<1>1. PoolInv /\ [PoolNext]_poolVars => PoolInv'
  BY PoolNextPreserves
<1>2. PoolInv => IndexAgreement /\ WithinCapacity /\ PinnedAreAllocated
  BY DEF PoolInv
<1> QED
  BY PoolInitInv, <1>1, <1>2, PTL DEF PoolSpec

(* No pin outlives its block, whatever the client does: free and _move       *)
(* refuse pinned blocks.                                                     *)
THEOREM PinsOnAllocated == PoolSpec => []PinnedAreAllocated
<1>1. IndexAgreement /\ WithinCapacity /\ PinnedAreAllocated => PinnedAreAllocated
  OBVIOUS
<1> QED
  BY PoolSafe, <1>1, PTL

(* The pool's maps keep their types.                                         *)
THEOREM PoolTypeCorrect == PoolSpec => []PoolTypeOK
<1>1. PoolInv /\ [PoolNext]_poolVars => PoolInv'
  BY PoolNextPreserves
<1>2. PoolInv => PoolTypeOK
  BY DEF PoolInv
<1> QED
  BY PoolInitInv, <1>1, <1>2, PTL DEF PoolSpec

-----------------------------------------------------------------------------
(* The pins of the cache manager.                                            *)

(* Every table that contains a block, and the running call that retains it,  *)
(* has its own pin.  That no pin is left over (PinAccounting) rests on the   *)
(* tree as well and comes last; this half does not need it.                  *)
PinsCover ==
  \A b \in Blocks :
    pinCount[b] >= Cardinality(Holders(b)) + (IF b \in ToSet(call.retained) THEN 1 ELSE 0)

CallShape ==
  /\ call = [pc |-> call.pc, req |-> call.req, toks |-> call.toks,
             retained |-> call.retained, victims |-> call.victims, err |-> call.err]
  /\ ToSet(call.retained) \subseteq Blocks
  /\ call.pc \in {"idle", "crashed"} => call.retained = <<>>
  /\ call.pc \notin {"idle", "crashed"} => call.req \in Requests \ Active

TableShape ==
  /\ tables = [r \in Requests |-> tables[r]]
  /\ \A r \in Requests : tables[r].active \in BOOLEAN
  /\ \A r \in Active : ToSet(tables[r].bids) \subseteq Blocks

CacheInv == PoolInv /\ CallShape /\ TableShape /\ PinsCover

-----------------------------------------------------------------------------
(* ToSet of the empty sequence.                                              *)
LEMMA ToSetEmpty == ToSet(<<>>) = {}
BY DEF ToSet

(* The holders of a block are finitely many.                                 *)
LEMMA HoldersFinite ==
  ASSUME NEW b
  PROVE  IsFiniteSet(Holders(b)) /\ Cardinality(Holders(b)) \in Nat
<1>1. Holders(b) \subseteq Requests
  BY DEF Holders, Active
<1> QED
  BY <1>1, FS_Subset, FS_CardinalityType, CacheAssumption

(* A block that a table contains, or that the running call retains, is       *)
(* pinned and therefore allocated.                                           *)
LEMMA HeldIsPinned ==
  ASSUME CacheInv, NEW b \in Blocks, Holders(b) # {} \/ b \in ToSet(call.retained)
  PROVE  b \in Pinned /\ b \in Alive
<1>1. Cardinality(Holders(b)) \in Nat /\ (Holders(b) # {} => Cardinality(Holders(b)) >= 1)
  BY HoldersFinite, FS_EmptySet
<1>2. pinCount[b] >= 1 /\ pinCount[b] \in Nat
  BY <1>1 DEF CacheInv, PinsCover, PoolInv, PoolTypeOK
<1> QED
  BY <1>2 DEF CacheInv, PoolInv, PinnedAreAllocated, Pinned

-----------------------------------------------------------------------------
(* What a step of the cache manager does to the pool.                        *)

(* The pool part of a step that neither pins nor unpins: allocate, free,     *)
(* move, or nothing.  Each leaves pinned blocks alone.                       *)
QuietPool ==
  \/ \E ids \in SUBSET Blocks, t \in Tiers : Allocate(ids, t)
  \/ \E ids \in SUBSET Blocks : FreeBlocks(ids)
  \/ \E b \in Blocks, from, to \in Tiers : Move(b, from, to)
  \/ UNCHANGED poolVars

(* A quiet step keeps the tier and the pins of every pinned block.           *)
LEMMA QuietKeepsPinned ==
  ASSUME PoolInv, QuietPool, NEW b \in Pinned
  PROVE  blockTier'[b] = blockTier[b] /\ pinCount'[b] = pinCount[b]
<1>0. b \in Blocks /\ b \in Alive
  BY DEF PoolInv, PinnedAreAllocated, Pinned
<1>1. ASSUME NEW ids \in SUBSET Blocks, NEW t \in Tiers, Allocate(ids, t)
      PROVE  blockTier'[b] = blockTier[b] /\ pinCount'[b] = pinCount[b]
  BY <1>0, <1>1 DEF Allocate
<1>2. ASSUME NEW ids \in SUBSET Blocks, FreeBlocks(ids)
      PROVE  blockTier'[b] = blockTier[b] /\ pinCount'[b] = pinCount[b]
  BY <1>0, <1>2 DEF FreeBlocks
<1>3. ASSUME NEW c \in Blocks, NEW from \in Tiers, NEW to \in Tiers, Move(c, from, to)
      PROVE  blockTier'[b] = blockTier[b] /\ pinCount'[b] = pinCount[b]
  BY <1>0, <1>3 DEF Move, PoolInv, PoolTypeOK
<1>4. CASE UNCHANGED poolVars
  BY <1>4 DEF poolVars
<1> QED
  BY <1>1, <1>2, <1>3, <1>4 DEF QuietPool

(* A quiet step preserves the pool's invariant, and PinsCover if the tables  *)
(* and the retained blocks stay the same.                                    *)
LEMMA QuietPreserves ==
  ASSUME CacheInv, QuietPool, UNCHANGED tables, call'.retained = call.retained
  PROVE  PoolInv' /\ PinsCover'
<1>1. PoolInv'
  BY PoolNextPreserves DEF CacheInv, QuietPool, PoolNext
<1>2. PinsCover'
  <2> SUFFICES ASSUME NEW b \in Blocks
               PROVE  pinCount'[b] >= Cardinality(Holders(b)')
                                        + (IF b \in ToSet(call'.retained) THEN 1 ELSE 0)
    BY DEF PinsCover
  <2>1. Holders(b)' = Holders(b)
    BY DEF Holders, Active
  <2>2. pinCount'[b] \in Nat /\ Cardinality(Holders(b)) \in Nat
    BY <1>1, HoldersFinite DEF PoolInv, PoolTypeOK
  <2>3. CASE b \in Pinned
    BY <2>1, <2>3, QuietKeepsPinned DEF CacheInv, PinsCover
  <2>4. CASE b \notin Pinned
    <3>1. Holders(b) = {} /\ b \notin ToSet(call.retained)
      BY <2>4, HeldIsPinned
    <3> QED
      BY <2>1, <2>2, <3>1, FS_EmptySet
  <2> QED
    BY <2>3, <2>4
<1> QED
  BY <1>1, <1>2

(* The steps of a call that has begun, but for its end.                      *)
InnerStep ==
  \/ AdmitCached \/ AdmitMiss \/ AdmitPurge \/ AdmitPurgeFails
  \/ AdmitTooLarge \/ NothingToEvict \/ DropZombie \/ SelectVictim
  \/ DemoteDead \/ DemoteDown \/ DemoteOut
  \/ Insert \/ RematchFails

(* They are quiet, and leave the tables and what the call retains alone.     *)
LEMMA InnerStepIsQuiet ==
  ASSUME CacheInv, InnerStep
  PROVE  /\ QuietPool /\ UNCHANGED tables
         /\ call.pc \notin {"idle", "crashed"}
         /\ call'.pc \notin {"idle", "crashed"}
         /\ call'.retained = call.retained /\ call'.req = call.req
         /\ CallShape'
<1> DEFINE Goal == /\ QuietPool /\ UNCHANGED tables
                   /\ call.pc \notin {"idle", "crashed"}
                   /\ call'.pc \notin {"idle", "crashed"}
                   /\ call'.retained = call.retained /\ call'.req = call.req
                   /\ call' = [pc |-> call'.pc, req |-> call'.req, toks |-> call'.toks,
                               retained |-> call'.retained, victims |-> call'.victims,
                               err |-> call'.err]
<1>0. /\ call = [pc |-> call.pc, req |-> call.req, toks |-> call.toks,
                 retained |-> call.retained, victims |-> call.victims, err |-> call.err]
      /\ call.pc \notin {"idle", "crashed"} => call.req # NoRequest
  BY CacheAssumption DEF CacheInv, CallShape
<1>1. Goal
  <2>1. CASE AdmitCached
    BY <1>0, <2>1 DEF AdmitCached, AdmitReturns, QuietPool
  <2>2. CASE AdmitMiss
    BY <1>0, <2>2 DEF AdmitMiss, QuietPool
  <2>3. CASE AdmitPurge
    <3>1. SeveredAlive(tree, call.toks, Alive) \in SUBSET Blocks
      BY <2>3 DEF AdmitPurge, FreeBlocks, Alive
    <3> QED
      BY <1>0, <2>3, <3>1 DEF AdmitPurge, QuietPool
  <2>4. CASE AdmitPurgeFails
    BY <1>0, <2>4 DEF AdmitPurgeFails, Raise, QuietPool
  <2>5. CASE AdmitTooLarge
    BY <1>0, <2>5 DEF AdmitTooLarge, Raise, QuietPool
  <2>6. CASE NothingToEvict
    BY <1>0, <2>6 DEF NothingToEvict, Raise, QuietPool
  <2>7. CASE DropZombie
    BY <1>0, <2>7 DEF DropZombie, QuietPool
  <2>8. CASE SelectVictim
    BY <1>0, <2>8 DEF SelectVictim, QuietPool
  <2>9. CASE DemoteDead
    BY <1>0, <2>9 DEF DemoteDead, NextVictimBlock, QuietPool
  <2>10. CASE DemoteDown
    <3> DEFINE b == Head(call.victims)
               to == DemotionTarget(blockTier[b])
    <3>1. b \in Blocks /\ blockTier[b] \in Tiers /\ to \in Tiers
      BY <2>10 DEF DemoteDown, Alive, CacheInv, PoolInv, PoolTypeOK, DemotionTarget, Tiers, None
    <3>2. Move(b, blockTier[b], to)
      BY <2>10 DEF DemoteDown
    <3>3. QuietPool
      BY <3>1, <3>2 DEF QuietPool
    <3> QED
      BY <1>0, <2>10, <3>3 DEF DemoteDown, NextVictimBlock
  <2>11. CASE DemoteOut
    <3>1. {Head(call.victims)} \in SUBSET Blocks
      BY <2>11 DEF DemoteOut, Alive
    <3> QED
      BY <1>0, <2>11, <3>1 DEF DemoteOut, NextVictimBlock, QuietPool
  <2>12. CASE Insert
    <3>1. PICK ids : /\ Allocate(ids, "gpu")
                     /\ AdmitReturns \/ Raise("MemoryError")
                     /\ call.pc = "evict" /\ UNCHANGED tables
      BY <2>12 DEF Insert
    <3>2. QuietPool
      BY <3>1 DEF Allocate, QuietPool, Tiers
    <3> QED
      BY <1>0, <3>1, <3>2 DEF AdmitReturns, Raise
  <2>13. CASE RematchFails
    BY <1>0, <2>13 DEF RematchFails, Raise, QuietPool
  <2> QED
    BY <2>1, <2>2, <2>3, <2>4, <2>5, <2>6, <2>7, <2>8, <2>9, <2>10, <2>11, <2>12, <2>13
       DEF InnerStep
<1>2. CallShape'
  BY <1>1 DEF CacheInv, CallShape, Active
<1> QED
  BY <1>1, <1>2

-----------------------------------------------------------------------------
(* The steps that pin and unpin.                                             *)

(* materialize_request pins the live prefix of a request without a table,    *)
(* while no other call is running.                                           *)
LEMMA MaterializeBeginPreserves ==
  ASSUME CacheInv, NEW r \in Requests, NEW toks, MaterializeBegin(r, toks)
  PROVE  CacheInv'
<1>1. PICK prefix :
        /\ Pin(ToSet(prefix))
        /\ \E pc \in {"admit", "rematch"} :
             call' = [pc |-> pc, req |-> r, toks |-> AlignedTokens(toks),
                      retained |-> prefix, victims |-> <<>>, err |-> "none"]
        /\ call.pc = "idle" /\ r \notin Active /\ UNCHANGED tables
  BY DEF MaterializeBegin, Frame
<1>2. ToSet(prefix) \in SUBSET Blocks
  BY <1>1 DEF Pin, Alive
<1>3. PoolInv'
  BY <1>1, <1>2, PinPreserves DEF CacheInv
<1>4. CallShape' /\ TableShape'
  BY <1>1, <1>2 DEF CacheInv, CallShape, TableShape, Active
<1>5. PinsCover'
  <2> SUFFICES ASSUME NEW b \in Blocks
               PROVE  pinCount'[b] >= Cardinality(Holders(b)')
                                        + (IF b \in ToSet(call'.retained) THEN 1 ELSE 0)
    BY DEF PinsCover
  <2>1. Holders(b)' = Holders(b) /\ call'.retained = prefix
    BY <1>1 DEF Holders, Active
  <2>2. pinCount[b] \in Nat /\ Cardinality(Holders(b)) \in Nat
    BY HoldersFinite DEF CacheInv, PoolInv, PoolTypeOK
  <2>3. pinCount[b] >= Cardinality(Holders(b))
    BY <1>1, <2>2 DEF CacheInv, PinsCover
  <2>4. pinCount'[b] = IF b \in ToSet(prefix) THEN pinCount[b] + 1 ELSE pinCount[b]
    BY <1>1 DEF Pin
  <2> QED
    BY <2>1, <2>2, <2>3, <2>4
<1> QED
  BY <1>3, <1>4, <1>5 DEF CacheInv

(* The re-match turns the retained pins into pins of the new table and adds  *)
(* the missing ones.                                                         *)
LEMMA RematchPreserves ==
  ASSUME CacheInv, Rematch
  PROVE  CacheInv'
<1> DEFINE r == call.req
<1>1. PICK bids :
        /\ Pin(ToSet(bids) \ ToSet(call.retained))
        /\ ToSet(bids) \subseteq Alive
        /\ tables' = [tables EXCEPT ![r] = [toks |-> call.toks, bids |-> bids, active |-> TRUE]]
        /\ call' = Idle /\ call.pc = "rematch"
  BY DEF Rematch, Table
<1>2. r \in Requests /\ r \notin Active
  BY <1>1 DEF CacheInv, CallShape
<1>3. ToSet(bids) \subseteq Blocks
  BY <1>1 DEF Alive
<1>4. PoolInv'
  BY <1>1, <1>3, PinPreserves DEF CacheInv
<1>5. /\ tables' = [q \in Requests |-> tables'[q]]
      /\ tables'[r].active = TRUE /\ tables'[r].bids = bids
      /\ \A q \in Requests : q # r => tables'[q] = tables[q]
  BY <1>1, <1>2 DEF CacheInv, TableShape
<1> HIDE DEF r
<1>6. TableShape'
  BY <1>2, <1>3, <1>5 DEF CacheInv, TableShape, Active
<1>7. CallShape'
  BY <1>1, ToSetEmpty DEF CallShape, Idle, Frame
<1>8. PinsCover'
  <2> SUFFICES ASSUME NEW b \in Blocks
               PROVE  pinCount'[b] >= Cardinality(Holders(b)')
                                        + (IF b \in ToSet(call'.retained) THEN 1 ELSE 0)
    BY DEF PinsCover
  <2>1. b \notin ToSet(call'.retained)
    BY <1>1, ToSetEmpty DEF Idle, Frame
  <2>2. Holders(b)' = IF b \in ToSet(bids) THEN Holders(b) \cup {r} ELSE Holders(b)
    BY <1>2, <1>5 DEF Holders, Active
  <2>3. r \notin Holders(b)
    BY <1>2 DEF Holders
  <2>4. /\ Cardinality(Holders(b)) \in Nat
        /\ Cardinality(Holders(b) \cup {r}) = Cardinality(Holders(b)) + 1
    BY <2>3, HoldersFinite, FS_AddElement
  <2>5. /\ pinCount[b] \in Nat
        /\ pinCount[b] >= Cardinality(Holders(b))
                            + (IF b \in ToSet(call.retained) THEN 1 ELSE 0)
    BY DEF CacheInv, PinsCover, PoolInv, PoolTypeOK
  <2>6. pinCount'[b] = IF b \in ToSet(bids) \ ToSet(call.retained)
                       THEN pinCount[b] + 1 ELSE pinCount[b]
    BY <1>1 DEF Pin
  <2> QED
    BY <2>1, <2>2, <2>4, <2>5, <2>6
<1> QED
  BY <1>4, <1>6, <1>7, <1>8 DEF CacheInv

(* The except clause gives the retained pins back.                           *)
LEMMA UnwindPreserves ==
  ASSUME CacheInv, Unwind
  PROVE  CacheInv'
<1>1. /\ Unpin(ToSet(call.retained)) /\ UNCHANGED tables
      /\ \E pc \in {"idle", "crashed"} : \E err :
           call' = [pc |-> pc, req |-> NoRequest, toks |-> <<>>,
                    retained |-> <<>>, victims |-> <<>>, err |-> err]
  BY DEF Unwind, Idle, Frame
<1>2. PoolInv'
  BY <1>1, PinPreserves DEF CacheInv, CallShape
<1>3. CallShape' /\ TableShape'
  BY <1>1, ToSetEmpty DEF CacheInv, CallShape, TableShape, Active
<1>4. PinsCover'
  <2> SUFFICES ASSUME NEW b \in Blocks
               PROVE  pinCount'[b] >= Cardinality(Holders(b)')
                                        + (IF b \in ToSet(call'.retained) THEN 1 ELSE 0)
    BY DEF PinsCover
  <2>1. Holders(b)' = Holders(b) /\ b \notin ToSet(call'.retained)
    BY <1>1, ToSetEmpty DEF Holders, Active
  <2>2. /\ pinCount[b] \in Nat /\ Cardinality(Holders(b)) \in Nat
        /\ pinCount[b] >= Cardinality(Holders(b))
                            + (IF b \in ToSet(call.retained) THEN 1 ELSE 0)
    BY HoldersFinite DEF CacheInv, PinsCover, PoolInv, PoolTypeOK
  <2>3. pinCount'[b] = IF b \in ToSet(call.retained) THEN pinCount[b] - 1 ELSE pinCount[b]
    BY <1>1 DEF Unpin
  <2> QED
    BY <2>1, <2>2, <2>3
<1> QED
  BY <1>2, <1>3, <1>4 DEF CacheInv

(* release_request gives up the pins of one table.                           *)
LEMMA ReleasePreserves ==
  ASSUME CacheInv, NEW r \in Requests, Release(r)
  PROVE  CacheInv'
<1>1. /\ Unpin(ToSet(tables[r].bids)) /\ r \in Active
      /\ tables' = [tables EXCEPT ![r] = NoTable]
      /\ UNCHANGED call /\ call.pc = "idle"
  BY DEF Release
<1>2. ToSet(tables[r].bids) \in SUBSET Blocks
  BY <1>1 DEF CacheInv, TableShape
<1>3. PoolInv'
  BY <1>1, <1>2, PinPreserves DEF CacheInv
<1>4. /\ tables' = [q \in Requests |-> tables'[q]]
      /\ tables'[r].active = FALSE
      /\ \A q \in Requests : q # r => tables'[q] = tables[q]
  BY <1>1 DEF CacheInv, TableShape, NoTable
<1>5. TableShape' /\ CallShape'
  BY <1>1, <1>4 DEF CacheInv, TableShape, CallShape, Active
<1>6. PinsCover'
  <2> SUFFICES ASSUME NEW b \in Blocks
               PROVE  pinCount'[b] >= Cardinality(Holders(b)')
                                        + (IF b \in ToSet(call'.retained) THEN 1 ELSE 0)
    BY DEF PinsCover
  <2>1. b \notin ToSet(call'.retained) /\ b \notin ToSet(call.retained)
    BY <1>1, ToSetEmpty DEF CacheInv, CallShape
  <2>2. Holders(b)' = Holders(b) \ {r}
    BY <1>4 DEF Holders, Active
  <2>3. r \in Holders(b) <=> b \in ToSet(tables[r].bids)
    BY <1>1 DEF Holders
  <2>4. /\ Cardinality(Holders(b)) \in Nat
        /\ Cardinality(Holders(b) \ {r})
             = IF r \in Holders(b) THEN Cardinality(Holders(b)) - 1 ELSE Cardinality(Holders(b))
    BY HoldersFinite, FS_RemoveElement
  <2>5. pinCount[b] \in Nat /\ pinCount[b] >= Cardinality(Holders(b))
    BY <2>1, <2>4 DEF CacheInv, PinsCover, PoolInv, PoolTypeOK
  <2>6. pinCount'[b] = IF b \in ToSet(tables[r].bids) THEN pinCount[b] - 1 ELSE pinCount[b]
    BY <1>1 DEF Unpin
  <2> QED
    BY <2>1, <2>2, <2>3, <2>4, <2>5, <2>6
<1> QED
  BY <1>3, <1>5, <1>6 DEF CacheInv

(* A prompt shorter than a block gets a table without blocks.                *)
LEMMA MaterializeShortPreserves ==
  ASSUME CacheInv, NEW r \in Requests, NEW toks, MaterializeShort(r, toks)
  PROVE  CacheInv'
<1>1. /\ tables' = [tables EXCEPT ![r] = [toks |-> <<>>, bids |-> <<>>, active |-> TRUE]]
      /\ UNCHANGED <<poolVars, call>> /\ call.pc = "idle" /\ r \notin Active
  BY DEF MaterializeShort, Table
<1>2. PoolInv'
  BY <1>1, PoolStutter DEF CacheInv
<1>3. /\ tables' = [q \in Requests |-> tables'[q]]
      /\ tables'[r].active = TRUE /\ tables'[r].bids = <<>>
      /\ \A q \in Requests : q # r => tables'[q] = tables[q]
  BY <1>1 DEF CacheInv, TableShape
<1>4. TableShape' /\ CallShape'
  BY <1>1, <1>3, ToSetEmpty DEF CacheInv, TableShape, CallShape, Active
<1>5. \A b \in Blocks : Holders(b)' = Holders(b)
  BY <1>1, <1>3, ToSetEmpty DEF Holders, Active
<1>6. PinsCover'
  BY <1>1, <1>5 DEF CacheInv, PinsCover, poolVars
<1> QED
  BY <1>2, <1>4, <1>6 DEF CacheInv

-----------------------------------------------------------------------------
(* The theorems.                                                             *)

(* The start, whatever time it is.                                           *)
Start ==
  /\ PoolInit
  /\ tree = EmptyTree
  /\ tables = [r \in Requests |-> NoTable]
  /\ call = Idle

(* Nothing is pinned, nobody has a table.                                    *)
LEMMA CacheStartInv == Start => CacheInv
<1> SUFFICES ASSUME Start PROVE CacheInv
  OBVIOUS
<1>1. PoolInv
  BY PoolInitInv DEF Start
<1>2. Active = {}
  BY DEF Start, NoTable, Active
<1>3. CallShape /\ TableShape
  BY <1>2, ToSetEmpty DEF Start, CallShape, TableShape, Idle, Frame, NoTable
<1>4. PinsCover
  <2>1. \A b \in Blocks : Holders(b) = {} /\ b \notin ToSet(call.retained)
    BY <1>2, ToSetEmpty DEF Holders, Start, Idle, Frame
  <2>2. \A b \in Blocks : pinCount[b] = 0
    BY DEF Start, PoolInit
  <2>3. Cardinality({}) = 0
    BY FS_EmptySet
  <2> QED
    BY <2>1, <2>2, <2>3 DEF PinsCover
<1> QED
  BY <1>1, <1>3, <1>4 DEF CacheInv

(* In particular at time 0.                                                  *)
LEMMA CacheInitInv == Init => CacheInv
BY CacheStartInv DEF Init, Start

(* Every step of the cache manager preserves the invariant.                  *)
LEMMA CacheNextPreserves ==
  ASSUME CacheInv, [Next]_vars
  PROVE  CacheInv'
<1>1. CASE InnerStep
  <2>1. TableShape'
    BY <1>1, InnerStepIsQuiet DEF CacheInv, TableShape, Active
  <2> QED
    BY <1>1, <2>1, InnerStepIsQuiet, QuietPreserves DEF CacheInv
<1>2. CASE Rematch
  BY <1>2, RematchPreserves
<1>3. CASE Unwind
  BY <1>3, UnwindPreserves
<1>4. ASSUME UNCHANGED <<poolVars, tables, call>> PROVE CacheInv'
  BY <1>4, PoolStutter
     DEF CacheInv, CallShape, TableShape, PinsCover, Holders, Active, poolVars
<1>5. CASE Tick
  BY <1>4, <1>5 DEF Tick
<1>6. ASSUME NEW toks \in Prompts, Lookup(toks) PROVE CacheInv'
  BY <1>4, <1>6 DEF Lookup
<1>7. CASE UNCHANGED vars
  BY <1>4, <1>7 DEF vars
<1> QED
  BY <1>1, <1>2, <1>3, <1>5, <1>6, <1>7, MaterializeShortPreserves,
     MaterializeBeginPreserves, ReleasePreserves
     DEF Next, CallStep, HandlerCall, InnerStep

(* The pool half of a step of the cache manager is a call of a pool method.  *)
LEMMA CacheStepIsPoolStep ==
  ASSUME CacheInv, [Next]_vars
  PROVE  [PoolNext]_poolVars
<1>1. CASE InnerStep
  BY <1>1, InnerStepIsQuiet DEF QuietPool, PoolNext
<1>2. CASE Rematch
  <2>1. PICK ids : Pin(ids)
    BY <1>2 DEF Rematch
  <2> QED
    BY <2>1 DEF Pin, PoolNext, Alive
<1>3. CASE Unwind
  <2>1. PICK ids : Unpin(ids)
    BY <1>3 DEF Unwind
  <2> QED
    BY <2>1 DEF Unpin, PoolNext, Alive
<1>4. ASSUME NEW r \in Requests, NEW toks \in Prompts, MaterializeBegin(r, toks)
      PROVE  [PoolNext]_poolVars
  <2>1. PICK ids : Pin(ids)
    BY <1>4 DEF MaterializeBegin
  <2> QED
    BY <2>1 DEF Pin, PoolNext, Alive
<1>5. ASSUME NEW r \in Requests, Release(r) PROVE [PoolNext]_poolVars
  <2>1. PICK ids : Unpin(ids)
    BY <1>5 DEF Release
  <2> QED
    BY <2>1 DEF Unpin, PoolNext, Alive
<1>6. CASE UNCHANGED poolVars
  BY <1>6
<1>7. ASSUME NEW r \in Requests, NEW toks \in Prompts, MaterializeShort(r, toks)
      PROVE  UNCHANGED poolVars
  BY <1>7 DEF MaterializeShort
<1>8. Tick \/ (\E toks \in Prompts : Lookup(toks)) \/ UNCHANGED vars => UNCHANGED poolVars
  BY DEF Tick, Lookup, vars
<1> QED
  BY <1>1, <1>2, <1>3, <1>4, <1>5, <1>6, <1>7, <1>8 DEF Next, CallStep, HandlerCall, InnerStep

(* No step, of any call, moves or frees a block of an active table.          *)
LEMMA StepKeepsTables ==
  ASSUME CacheInv, [Next]_vars
  PROVE  TableBlocksStay
<1> SUFFICES ASSUME NEW r \in Active, NEW b \in ToSet(tables[r].bids)
             PROVE  b \in Alive /\ blockTier'[b] = blockTier[b]
  BY DEF TableBlocksStay
<1>1. b \in Blocks /\ Holders(b) # {}
  BY DEF CacheInv, TableShape, Holders
<1>2. b \in Pinned /\ b \in Alive
  BY <1>1, HeldIsPinned
<1>3. CASE QuietPool
  BY <1>2, <1>3, QuietKeepsPinned DEF CacheInv
<1>4. CASE \E ids \in SUBSET Blocks : Pin(ids) \/ Unpin(ids)
  BY <1>2, <1>4 DEF Pin, Unpin
<1> QED
  BY <1>2, <1>3, <1>4, CacheStepIsPoolStep DEF PoolNext, QuietPool

(* The blocks of an active request's table are never moved or freed.         *)
THEOREM TablesPinned == Spec => TablesStayPut
<1>1. CacheInv /\ [Next]_vars => CacheInv'
  BY CacheNextPreserves
<1>2. CacheInv /\ [Next]_vars => [TableBlocksStay]_vars
  BY StepKeepsTables
<1> QED
  BY CacheInitInv, <1>1, <1>2, PTL DEF Spec, TablesStayPut

(* The cache manager is a client of the pool and nothing else: what the pool *)
(* promises to every client (PoolSafe) holds in it.                          *)
THEOREM CacheImplementsPool == Spec => PoolSpec
<1>1. CacheInv /\ [Next]_vars => CacheInv'
  BY CacheNextPreserves
<1>2. CacheInv /\ [Next]_vars => [PoolNext]_poolVars
  BY CacheStepIsPoolStep
<1>3. Init => PoolInit
  BY DEF Init
<1> QED
  BY CacheInitInv, <1>1, <1>2, <1>3, PTL DEF Spec, PoolSpec

(* Inside the cache manager, with its evictions, purges and failed calls,    *)
(* the indexes of the pool agree, no tier is overfull and no pin outlives    *)
(* its block.                                                                *)
THEOREM PoolSafeInCache == Spec => [](IndexAgreement /\ WithinCapacity /\ PinnedAreAllocated)
BY CacheImplementsPool, PoolSafe, PTL

-----------------------------------------------------------------------------
(* Numbers.                                                                  *)

(* A nonempty set of natural numbers has a least element.                    *)
LEMMA LeastOf ==
  ASSUME NEW T \in SUBSET Nat, T # {}
  PROVE  \E x \in T : \A y \in T : x <= y
<1> DEFINE R == {ss \in Nat \X Nat : ss[1] < ss[2]}
<1>1. IsWellFoundedOn(R, Nat)
  <2>1. OpToRel(<, Nat) = R
    BY DEF OpToRel
  <2> QED
    BY <2>1, NatLessThanWellFounded
<1>2. PICK x \in T : \A y \in T : ~(<<y, x>> \in R)
  <2> HIDE DEF R
  <2> QED
    BY <1>1, WFMin
<1>3. ASSUME NEW y \in T PROVE x <= y
  <2>1. <<y, x>> \notin R /\ y \in Nat /\ x \in Nat
    BY <1>2
  <2> QED
    BY <2>1
<1> QED
  BY <1>3

(* A nonempty set of numbers up to n has a largest one, which Max finds.     *)
LEMMA MaxFacts ==
  ASSUME NEW n \in Nat, NEW S \in SUBSET (0..n), S # {}
  PROVE  Max(S) \in S /\ Max(S) \in 0..n /\ \A x \in S : x <= Max(S)
<1> DEFINE T == {n - x : x \in S}
<1>1. T \in SUBSET Nat /\ T # {}
  <2>1. PICK x \in S : TRUE
    OBVIOUS
  <2>2. n - x \in T /\ \A y \in S : n - y \in Nat
    BY <2>1
  <2> QED
    BY <2>2
<1>2. PICK t \in T : \A y \in T : t <= y
  <2> HIDE DEF T
  <2> QED
    BY <1>1, LeastOf
<1>3. PICK x \in S : t = n - x
  BY <1>2
<1>4. ASSUME NEW y \in S PROVE x >= y
  <2>1. n - y \in T
    OBVIOUS
  <2>2. n - x <= n - y
    BY <1>2, <1>3, <2>1
  <2> QED
    BY <2>2
<1>5. \E m \in S : \A y \in S : m >= y
  BY <1>4
<1>6. Max(S) \in S /\ \A y \in S : Max(S) >= y
  BY <1>5 DEF Max
<1> QED
  BY <1>6

(* Induction, as a property of sets: what holds of 0 and carries over.       *)
LEMMA UpTo ==
  ASSUME NEW N \in Nat, NEW G, 0 \in G, \A n \in 1..N : n - 1 \in G => n \in G
  PROVE  \A n \in 0..N : n \in G
<1> DEFINE Bad == (0..N) \ G
<1> SUFFICES ASSUME Bad # {} PROVE FALSE
  OBVIOUS
<1>1. PICK n \in Bad : \A m \in Bad : n <= m
  <2>1. Bad \in SUBSET Nat
    OBVIOUS
  <2> HIDE DEF Bad
  <2> QED
    BY <2>1, LeastOf
<1>2. n \in 1..N /\ n - 1 \in 0..N /\ ~(n <= n - 1)
  BY <1>1
<1>3. n - 1 \notin Bad
  <2> HIDE DEF Bad
  <2> QED
    BY <1>1, <1>2
<1> QED
  BY <1>2, <1>3

-----------------------------------------------------------------------------
(* Sequences that start alike.                                               *)

(* The first n tokens of s and t are the same.                               *)
Agree(s, t, n) ==
  /\ n <= Len(s) /\ n <= Len(t)
  /\ \A i \in 1..n : s[i] = t[i]

(* Starting alike is an equivalence, and weaker for fewer tokens.            *)
LEMMA AgreeFacts ==
  ASSUME NEW A, NEW s \in Seq(A), NEW t \in Seq(A), NEW n \in Nat, Agree(s, t, n)
  PROVE  /\ Agree(t, s, n)
         /\ \A m \in 0..n : Agree(s, t, m)
         /\ \A u \in Seq(A) : Agree(t, u, n) => Agree(s, u, n)
         /\ n = Len(s) /\ n = Len(t) => s = t
<1>1. Len(s) \in Nat /\ Len(t) \in Nat
  OBVIOUS
<1>2. n = Len(s) /\ n = Len(t) => s = t
  BY SeqEqual DEF Agree
<1> QED
  BY <1>1, <1>2 DEF Agree

(* Starting alike is symmetric.                                              *)
LEMMA AgreeSym ==
  ASSUME NEW s, NEW t, NEW n, Agree(s, t, n)
  PROVE  Agree(t, s, n)
BY DEF Agree

(* Starting alike is transitive.                                             *)
LEMMA AgreeTrans ==
  ASSUME NEW s, NEW t, NEW u, NEW n, Agree(s, t, n), Agree(t, u, n)
  PROVE  Agree(s, u, n)
BY DEF Agree

(* Sequences that start alike do so for fewer tokens.                        *)
LEMMA AgreeFewer ==
  ASSUME NEW s, NEW t, Len(s) \in Nat, Len(t) \in Nat, NEW n \in Nat, Agree(s, t, n), NEW m \in 0..n
  PROVE  Agree(s, t, m)
BY DEF Agree

(* Any two sequences agree on no token, and one agrees with itself.          *)
LEMMA AgreeTrivial ==
  ASSUME NEW A, NEW s \in Seq(A), NEW t \in Seq(A)
  PROVE  Agree(s, t, 0) /\ Agree(s, s, Len(s))
BY DEF Agree

(* A prefix of a sequence starts like it.                                    *)
LEMMA PrefixAgrees ==
  ASSUME NEW A, NEW s \in Seq(A), NEW t \in Seq(A)
  PROVE  IsPrefix(s, t) <=> Agree(s, t, Len(s))
<1>1. Len(s) \in Nat /\ Len(t) \in Nat
  OBVIOUS
<1>2. ASSUME Len(s) <= Len(t)
      PROVE  SubSeq(s, 1, Len(s)) = SubSeq(t, 1, Len(s)) <=> \A i \in 1..Len(s) : s[i] = t[i]
  <2>1. /\ SubSeq(s, 1, Len(s)) \in Seq(A) /\ SubSeq(t, 1, Len(s)) \in Seq(A)
        /\ Len(SubSeq(s, 1, Len(s))) = Len(s) /\ Len(SubSeq(t, 1, Len(s))) = Len(s)
        /\ \A i \in 1..Len(s) : SubSeq(s, 1, Len(s))[i] = s[i]
        /\ \A i \in 1..Len(s) : SubSeq(t, 1, Len(s))[i] = t[i]
    BY <1>1, <1>2
  <2>2. (\A i \in 1..Len(s) : s[i] = t[i]) => SubSeq(s, 1, Len(s)) = SubSeq(t, 1, Len(s))
    BY <2>1, SeqEqual
  <2> QED
    BY <2>1, <2>2
<1> QED
  BY <1>1, <1>2 DEF IsPrefix, Agree

(* The first n tokens of t.                                                  *)
LEMMA FirstTokens ==
  ASSUME NEW A, NEW t \in Seq(A), NEW n \in 0..Len(t)
  PROVE  /\ SubSeq(t, 1, n) \in Seq(A) /\ Len(SubSeq(t, 1, n)) = n
         /\ Agree(SubSeq(t, 1, n), t, n)
         /\ \A s \in Seq(A) : Agree(s, t, n) /\ Len(s) = n => s = SubSeq(t, 1, n)
<1>1. Len(t) \in Nat /\ n \in Nat
  OBVIOUS
<1>2. /\ SubSeq(t, 1, n) \in Seq(A) /\ Len(SubSeq(t, 1, n)) = n
      /\ \A i \in 1..n : SubSeq(t, 1, n)[i] = t[i]
  BY <1>1
<1>3. ASSUME NEW s \in Seq(A), Agree(s, t, n), Len(s) = n
      PROVE  s = SubSeq(t, 1, n)
  BY <1>2, <1>3, SeqEqual DEF Agree
<1> QED
  BY <1>1, <1>2, <1>3 DEF Agree

(* _cp_len: the longest start that two paths share.                          *)
LEMMA CommonPrefixFacts ==
  ASSUME NEW A, NEW s \in Seq(A), NEW t \in Seq(A)
  PROVE  /\ CpLen(s, t) \in 0..Len(s) /\ Agree(s, t, CpLen(s, t))
         /\ \A n \in Nat : Agree(s, t, n) => n <= CpLen(s, t)
         /\ LongestCommonPrefix({s, t}) = SubSeq(s, 1, CpLen(s, t))
<1> DEFINE C == CommonPrefixes({s, t})
           N == {n \in 0..Len(s) : Agree(s, t, n)}
<1>1. Len(s) \in Nat /\ Len(t) \in Nat
  OBVIOUS
<1>2. N \in SUBSET (0..Len(s)) /\ 0 \in N
  BY <1>1, AgreeTrivial
<1>3. PICK m \in N : \A n \in N : n <= m
  <2> HIDE DEF N
  <2> QED
    BY <1>1, <1>2, MaxFacts
<1>4. ASSUME NEW n \in Nat, Agree(s, t, n) PROVE n <= m
  BY <1>1, <1>3, <1>4 DEF Agree
<1>5. ASSUME NEW c \in C
      PROVE  c \in Seq(A) /\ IsPrefix(c, s) /\ IsPrefix(c, t)
  <2>1. PICK u \in {s, t} : c \in Prefixes(u)
    BY DEF CommonPrefixes
  <2>2. c \in Seq(A)
    BY <2>1, <1>1 DEF Prefixes
  <2> QED
    BY <2>2 DEF CommonPrefixes
<1>6. ASSUME NEW n \in Nat, Agree(s, t, n) PROVE SubSeq(s, 1, n) \in C
  <2>1. n \in 0..Len(s) /\ n \in 0..Len(t)
    BY <1>1, <1>6 DEF Agree
  <2> DEFINE p == SubSeq(s, 1, n)
  <2>2. p \in Seq(A) /\ Len(p) = n /\ Agree(p, s, n)
    BY <2>1, FirstTokens
  <2>3. Agree(p, t, n)
    BY <1>6, <2>2, AgreeFacts
  <2>4. IsPrefix(p, s) /\ IsPrefix(p, t)
    BY <2>2, <2>3, PrefixAgrees
  <2>5. p \in Prefixes(s)
    BY <2>1, <1>1 DEF Prefixes
  <2> HIDE DEF p
  <2> QED
    <3>1. p \in UNION {Prefixes(seq) : seq \in {s, t}}
      BY <2>5
    <3>2. \A u \in {s, t} : IsPrefix(p, u)
      BY <2>4
    <3> PICK P : P = UNION {Prefixes(seq) : seq \in {s, t}}
      OBVIOUS
    <3>3. C = {c \in P : \A u \in {s, t} : IsPrefix(c, u)}
      BY DEF CommonPrefixes
    <3> HIDE DEF C
    <3>4. p \in P
      BY <3>1
    <3>5. p \in C
      BY <3>2, <3>3, <3>4
    <3> QED
      BY <3>5 DEF p
<1>7. ASSUME NEW c \in C
      PROVE  Len(c) \in Nat /\ Agree(s, t, Len(c)) /\ c = SubSeq(s, 1, Len(c)) /\ Len(c) <= m
  <2>0. c \in Seq(A) /\ IsPrefix(c, s) /\ IsPrefix(c, t)
    BY <1>5
  <2>1. c \in Seq(A) /\ Agree(c, s, Len(c)) /\ Agree(c, t, Len(c)) /\ Len(c) \in Nat
    BY <2>0, PrefixAgrees
  <2>2. Agree(s, t, Len(c))
    BY <2>1, AgreeFacts
  <2>3. Len(c) \in 0..Len(s)
    BY <1>1, <2>1, <2>2 DEF Agree
  <2>4. c = SubSeq(s, 1, Len(c))
    BY <2>1, <2>3, FirstTokens
  <2> QED
    BY <1>4, <2>1, <2>2, <2>4
<1> DEFINE best == SubSeq(s, 1, m)
<1>8. best \in C /\ Len(best) = m
  <2>1. m \in Nat /\ m \in 0..Len(s) /\ Agree(s, t, m)
    BY <1>1, <1>3
  <2>2. Len(best) = m
    BY <2>1, FirstTokens
  <2> HIDE DEF C
  <2> QED
    BY <1>6, <2>1, <2>2
<1> HIDE DEF C, best
<1>9. LongestCommonPrefix({s, t}) \in C
      /\ \A c \in C : Len(c) <= Len(LongestCommonPrefix({s, t}))
  <2>1. \E l \in C : \A c \in C : Len(c) <= Len(l)
    BY <1>7, <1>8
  <2> QED
    BY <2>1 DEF LongestCommonPrefix, C
<1>10. CpLen(s, t) = m
  <2>1. Len(LongestCommonPrefix({s, t})) >= m /\ Len(LongestCommonPrefix({s, t})) <= m
    BY <1>3, <1>7, <1>8, <1>9
  <2> QED
    BY <1>3, <1>7, <1>9, <2>1 DEF CpLen
<1> QED
  BY <1>3, <1>4, <1>7, <1>9, <1>10 DEF CpLen

-----------------------------------------------------------------------------
(* The tree.                                                                 *)

Tokens == UNION {ToSet(p) : p \in Prompts}

(* A tree is finite, its nodes are paths of at least one token.              *)
IsTree(T) ==
  /\ T \in [TreeNodes(T) -> [bids : Seq(Blocks), last : Nat]]
  /\ TreeNodes(T) \subseteq Seq(Tokens) \ {<<>>}
  /\ IsFiniteSet(TreeNodes(T))

(* A prompt is a sequence of tokens.                                         *)
LEMMA PromptIsSeq ==
  ASSUME NEW p \in Prompts
  PROVE  p \in Seq(Tokens) /\ Len(p) \in Nat
<1>1. p \in Seq(ToSet(p))
  BY CacheAssumption
<1>2. ToSet(p) \subseteq Tokens
  BY DEF Tokens
<1>3. p \in Seq(Tokens)
  <2> PICK S : S = ToSet(p)
    OBVIOUS
  <2> QED
    BY <1>1, <1>2, SeqMonotonic
<1> QED
  BY <1>3

(* What a node holds.                                                        *)
LEMMA NodeFacts ==
  ASSUME NEW T, IsTree(T), NEW p \in TreeNodes(T)
  PROVE  /\ p \in Seq(Tokens) /\ Len(p) \in Nat /\ Len(p) > 0
         /\ T[p].bids \in Seq(Blocks) /\ Len(T[p].bids) \in Nat
         /\ ToSet(T[p].bids) \subseteq Blocks
         /\ T[p].last \in Nat
         /\ T[p] = [bids |-> T[p].bids, last |-> T[p].last]
<1>1. p \in Seq(Tokens) /\ p # <<>>
  BY DEF IsTree
<1>2. Len(p) \in Nat /\ Len(p) > 0
  BY <1>1, EmptySeq
<1>3. T[p] \in [bids : Seq(Blocks), last : Nat]
  BY DEF IsTree
<1>4. T[p].bids \in Seq(Blocks)
  BY <1>3
<1>5. Len(T[p].bids) \in Nat /\ ToSet(T[p].bids) \subseteq Blocks
  BY <1>4 DEF ToSet
<1> QED
  BY <1>1, <1>2, <1>3, <1>4, <1>5

(* MatchedLen: the deepest node that toks covers.                            *)
LEMMA MatchedFacts ==
  ASSUME NEW T, IsTree(T), NEW toks \in Seq(Tokens)
  PROVE  /\ MatchedLen(T, toks) \in 0..Len(toks)
         /\ MatchedLen(T, toks) # 0 => SubSeq(toks, 1, MatchedLen(T, toks)) \in TreeNodes(T)
         /\ \A p \in TreeNodes(T) : Agree(p, toks, Len(p)) => Len(p) <= MatchedLen(T, toks)
<1> DEFINE L == {Len(p) : p \in {p \in TreeNodes(T) : IsPrefix(p, toks)}}
           S == {0} \cup L
<1>1. Len(toks) \in Nat
  OBVIOUS
<1>2. ASSUME NEW p \in TreeNodes(T)
      PROVE  /\ IsPrefix(p, toks) <=> Agree(p, toks, Len(p))
             /\ Agree(p, toks, Len(p)) => Len(p) \in 0..Len(toks) /\ p = SubSeq(toks, 1, Len(p))
  <2>1. p \in Seq(Tokens) /\ Len(p) \in Nat
    BY NodeFacts
  <2>2. Agree(p, toks, Len(p)) => Len(p) \in 0..Len(toks)
    BY <1>1, <2>1 DEF Agree
  <2> QED
    BY <2>1, <2>2, PrefixAgrees, FirstTokens
<1>3. S \in SUBSET (0..Len(toks)) /\ S # {}
  BY <1>1, <1>2
<1>4. MatchedLen(T, toks) = Max(S)
  BY DEF MatchedLen
<1>5. Max(S) \in S /\ Max(S) \in 0..Len(toks) /\ \A x \in S : x <= Max(S)
  <2> HIDE DEF S
  <2> QED
    BY <1>1, <1>3, MaxFacts
<1>6. ASSUME NEW p \in TreeNodes(T), Agree(p, toks, Len(p)) PROVE Len(p) \in S
  BY <1>2, <1>6
<1>7. ASSUME Max(S) # 0 PROVE SubSeq(toks, 1, Max(S)) \in TreeNodes(T)
  <2>1. PICK p \in TreeNodes(T) : IsPrefix(p, toks) /\ Max(S) = Len(p)
    BY <1>5, <1>7
  <2> QED
    BY <1>2, <2>1
<1> HIDE DEF S
<1> QED
  BY <1>4, <1>5, <1>6, <1>7

(* ParentLen: where the edge to p begins.                                    *)
LEMMA ParentFacts ==
  ASSUME NEW T, IsTree(T), NEW p \in Seq(Tokens), Len(p) > 0
  PROVE  /\ ParentLen(T, p) \in 0..Len(p) - 1
         /\ ParentLen(T, p) # 0 => SubSeq(p, 1, ParentLen(T, p)) \in TreeNodes(T)
         /\ \A q \in TreeNodes(T) :
              Agree(q, p, Len(q)) /\ Len(q) < Len(p) => Len(q) <= ParentLen(T, p)
<1> DEFINE L == {Len(q) : q \in {q \in TreeNodes(T) : IsStrictPrefix(q, p)}}
           S == {0} \cup L
<1>1. Len(p) \in Nat /\ Len(p) - 1 \in Nat
  OBVIOUS
<1>2. ASSUME NEW q \in TreeNodes(T)
      PROVE  /\ IsStrictPrefix(q, p) <=> Agree(q, p, Len(q)) /\ Len(q) < Len(p)
             /\ Agree(q, p, Len(q)) => Len(q) \in 0..Len(p) /\ q = SubSeq(p, 1, Len(q))
             /\ Len(q) \in Nat
  <2>1. q \in Seq(Tokens) /\ Len(q) \in Nat
    BY NodeFacts
  <2>2. Agree(q, p, Len(q)) => Len(q) \in 0..Len(p)
    BY <1>1, <2>1 DEF Agree
  <2>3. Agree(q, p, Len(q)) /\ Len(q) = Len(p) => q = p
    BY <2>1, AgreeFacts
  <2>4. IsPrefix(q, p) <=> Agree(q, p, Len(q))
    BY <2>1, PrefixAgrees
  <2>5. Agree(q, p, Len(q)) => q = SubSeq(p, 1, Len(q))
    BY <2>1, <2>2, FirstTokens
  <2>6. IsStrictPrefix(q, p) <=> Agree(q, p, Len(q)) /\ q # p
    BY <2>4 DEF IsStrictPrefix
  <2> QED
    BY <1>1, <2>1, <2>2, <2>3, <2>5, <2>6
<1>3. S \in SUBSET (0..Len(p) - 1) /\ S # {}
  BY <1>1, <1>2
<1>4. ParentLen(T, p) = Max(S)
  BY DEF ParentLen
<1>5. Max(S) \in S /\ Max(S) \in 0..Len(p) - 1 /\ \A x \in S : x <= Max(S)
  <2> HIDE DEF S
  <2> QED
    BY <1>1, <1>3, MaxFacts
<1>6. ASSUME NEW q \in TreeNodes(T), Agree(q, p, Len(q)), Len(q) < Len(p) PROVE Len(q) \in S
  BY <1>2, <1>6
<1>7. ASSUME Max(S) # 0 PROVE SubSeq(p, 1, Max(S)) \in TreeNodes(T)
  <2>1. PICK q \in TreeNodes(T) : IsStrictPrefix(q, p) /\ Max(S) = Len(q)
    BY <1>5, <1>7
  <2> QED
    BY <1>2, <2>1
<1> HIDE DEF S
<1> QED
  BY <1>4, <1>5, <1>6, <1>7

(* SharedLen: how far toks runs along the edges of the tree.                 *)
LEMMA SharedFacts ==
  ASSUME NEW T, IsTree(T), NEW toks \in Seq(Tokens)
  PROVE  /\ SharedLen(T, toks) \in 0..Len(toks)
         /\ SharedLen(T, toks) # 0 => \E p \in TreeNodes(T) : Agree(p, toks, SharedLen(T, toks))
         /\ \A p \in TreeNodes(T) : \A n \in Nat : Agree(p, toks, n) => n <= SharedLen(T, toks)
         /\ MatchedLen(T, toks) <= SharedLen(T, toks)
<1> DEFINE L == {CpLen(p, toks) : p \in TreeNodes(T)}
           S == {0} \cup L
<1>1. Len(toks) \in Nat
  OBVIOUS
<1>2. ASSUME NEW p \in TreeNodes(T)
      PROVE  /\ CpLen(p, toks) \in 0..Len(toks) /\ Agree(p, toks, CpLen(p, toks))
             /\ \A n \in Nat : Agree(p, toks, n) => n <= CpLen(p, toks)
  <2>1. p \in Seq(Tokens) /\ Len(p) \in Nat
    BY NodeFacts
  <2>2. /\ CpLen(p, toks) \in 0..Len(p) /\ Agree(p, toks, CpLen(p, toks))
        /\ \A n \in Nat : Agree(p, toks, n) => n <= CpLen(p, toks)
    BY <2>1, CommonPrefixFacts
  <2>3. CpLen(p, toks) <= Len(toks)
    BY <2>2 DEF Agree
  <2> QED
    BY <1>1, <2>1, <2>2, <2>3
<1>3. S \in SUBSET (0..Len(toks)) /\ S # {}
  BY <1>1, <1>2
<1>4. SharedLen(T, toks) = Max(S)
  BY DEF SharedLen
<1>5. Max(S) \in S /\ Max(S) \in 0..Len(toks) /\ \A x \in S : x <= Max(S)
  <2> HIDE DEF S
  <2> QED
    BY <1>1, <1>3, MaxFacts
<1>6. ASSUME NEW p \in TreeNodes(T), NEW n \in Nat, Agree(p, toks, n) PROVE n <= Max(S)
  <2>1. CpLen(p, toks) \in S /\ n <= CpLen(p, toks) /\ CpLen(p, toks) \in Nat
    BY <1>2, <1>6
  <2>2. CpLen(p, toks) <= Max(S) /\ Max(S) \in Nat
    BY <1>1, <1>5, <2>1
  <2> HIDE DEF S
  <2> QED
    BY <2>1, <2>2
<1>7. ASSUME Max(S) # 0 PROVE \E p \in TreeNodes(T) : Agree(p, toks, Max(S))
  <2>1. PICK p \in TreeNodes(T) : Max(S) = CpLen(p, toks)
    BY <1>5, <1>7
  <2> QED
    BY <1>2, <2>1
<1>8. MatchedLen(T, toks) <= Max(S)
  <2> DEFINE m == MatchedLen(T, toks)
  <2>1. m \in 0..Len(toks) /\ (m # 0 => SubSeq(toks, 1, m) \in TreeNodes(T))
    BY MatchedFacts
  <2>2. CASE m = 0
    BY <1>1, <1>5, <2>2
  <2>3. CASE m # 0
    <3>1. Agree(SubSeq(toks, 1, m), toks, m)
      BY <2>1, FirstTokens
    <3>2. m <= Max(S)
      <4>1. m \in Nat /\ SubSeq(toks, 1, m) \in TreeNodes(T)
        BY <2>1, <2>3
      <4> HIDE DEF m, S
      <4> QED
        BY <1>6, <3>1, <4>1
    <3> QED
      BY <3>2
  <2> QED
    BY <2>2, <2>3
<1> HIDE DEF S
<1> QED
  BY <1>4, <1>5, <1>6, <1>7, <1>8

(* Branching, with the length of the common prefix: where two paths of the   *)
(* tree part there is a node.                                                *)
LEMMA BranchingMeans ==
  ASSUME NEW T, IsTree(T)
  PROVE  Branching(T) <=>
           \A p, q \in TreeNodes(T) : CpLen(p, q) > 0 => SubSeq(p, 1, CpLen(p, q)) \in TreeNodes(T)
<1> SUFFICES ASSUME NEW p \in TreeNodes(T), NEW q \in TreeNodes(T)
             PROVE  (LongestCommonPrefix({p, q}) # <<>> => LongestCommonPrefix({p, q}) \in TreeNodes(T))
                      <=> (CpLen(p, q) > 0 => SubSeq(p, 1, CpLen(p, q)) \in TreeNodes(T))
  BY DEF Branching
<1>1. p \in Seq(Tokens) /\ q \in Seq(Tokens) /\ Len(p) \in Nat
  BY NodeFacts
<1> DEFINE n == CpLen(p, q)
<1>2. n \in 0..Len(p) /\ LongestCommonPrefix({p, q}) = SubSeq(p, 1, n)
  BY <1>1, CommonPrefixFacts
<1>3. SubSeq(p, 1, n) \in Seq(Tokens) /\ Len(SubSeq(p, 1, n)) = n
  BY <1>1, <1>2, FirstTokens
<1>4. SubSeq(p, 1, n) # <<>> <=> n > 0
  <2> HIDE DEF n
  <2>1. n \in Nat
    BY <1>1, <1>2
  <2>2. CASE n = 0
    BY <1>1, <2>2, SubSeqEmpty
  <2>3. CASE n # 0
    <3>1. PICK s : s = SubSeq(p, 1, n)
      OBVIOUS
    <3>2. s \in Seq(Tokens) /\ Len(s) # 0
      BY <1>3, <2>3, <3>1
    <3>3. s # <<>>
      BY <3>2
    <3> QED
      BY <2>1, <2>3, <3>1, <3>3
  <2> QED
    BY <2>1, <2>2, <2>3
<1> HIDE DEF n
<1> QED
  BY <1>2, <1>4 DEF n

(* toks parts from the tree at `mid`, after n tokens, inside the edge that   *)
(* ends at `child`.                                                          *)
SplitPoint(T, toks, n, mid, child) ==
  /\ n \in Nat /\ 0 < n /\ n <= Len(toks) /\ MatchedLen(T, toks) < n
  /\ mid \in Seq(Tokens) /\ Len(mid) = n /\ Agree(mid, toks, n)
  /\ mid \notin TreeNodes(T)
  /\ child \in TreeNodes(T) /\ child \in Seq(Tokens) /\ Agree(mid, child, n)
  /\ Len(child) \in Nat /\ Len(child) > n
  /\ ~Agree(child, toks, Len(child))
  /\ \A q \in TreeNodes(T) : Agree(mid, q, n) => Len(child) <= Len(q)

(* The edge that insert splits passes the split point and ends at the        *)
(* shortest node below it.                                                   *)
LEMMA SplitFacts ==
  ASSUME NEW T, IsTree(T), NEW toks \in Seq(Tokens), NeedsSplit(T, toks),
         NEW n, n = SharedLen(T, toks), NEW mid, mid = SubSeq(toks, 1, n),
         NEW child, child = SplitChild(T, toks)
  PROVE  SplitPoint(T, toks, n, mid, child)
<1> DEFINE m == MatchedLen(T, toks)
<1>1. Len(toks) \in Nat
  OBVIOUS
<1>2. m \in 0..Len(toks) /\ m <= n /\ n \in 0..Len(toks)
  BY MatchedFacts, SharedFacts
<1>3. m < n /\ n \in Nat /\ 0 < n /\ n <= Len(toks) /\ m \in Nat
  BY <1>1, <1>2 DEF NeedsSplit
<1>4. mid \in Seq(Tokens) /\ Len(mid) = n /\ Agree(mid, toks, n)
  BY <1>2, FirstTokens
<1>5. ASSUME NEW p \in TreeNodes(T), Agree(p, toks, Len(p)) PROVE Len(p) < n
  <2>1. Len(p) <= m /\ Len(p) \in Nat
    BY <1>5, MatchedFacts, NodeFacts
  <2> QED
    BY <1>3, <2>1
<1>6. mid \notin TreeNodes(T)
  <2> SUFFICES ASSUME mid \in TreeNodes(T) PROVE FALSE
    OBVIOUS
  <2>1. Len(mid) < n
    BY <1>4, <1>5
  <2> QED
    BY <1>3, <1>4, <2>1
<1> DEFINE B == Subtree(T, mid)
<1>7. \A q : q \in B <=> q \in TreeNodes(T) /\ Agree(mid, q, n)
  <2> SUFFICES ASSUME NEW q \in TreeNodes(T) PROVE IsPrefix(mid, q) <=> Agree(mid, q, n)
    BY DEF Subtree
  <2> QED
    BY <1>4, NodeFacts, PrefixAgrees
<1>8. PICK p \in TreeNodes(T) : Agree(p, toks, n)
  BY <1>3, SharedFacts
<1>9. Agree(mid, p, n)
  <2>1. p \in Seq(Tokens)
    BY NodeFacts
  <2>2. Agree(toks, p, n)
    BY <1>8, AgreeSym
  <2> QED
    BY <1>4, <2>2, AgreeTrans
<1>10. \E c \in B : \A q \in B : Len(c) <= Len(q)
  <2> DEFINE L == {Len(q) : q \in B}
  <2>1. L \in SUBSET Nat /\ L # {}
    <3>1. p \in B /\ \A q \in B : Len(q) \in Nat
      BY <1>7, <1>8, <1>9, NodeFacts
    <3> HIDE DEF B
    <3> QED
      BY <3>1
  <2>2. PICK l \in L : \A k \in L : l <= k
    <3> HIDE DEF L
    <3> QED
      BY <2>1, LeastOf
  <2>3. PICK c \in B : Len(c) = l
    BY <2>2
  <2>4. ASSUME NEW q \in B PROVE Len(c) <= Len(q)
    <3>1. Len(q) \in L
      OBVIOUS
    <3> HIDE DEF L
    <3> QED
      BY <2>2, <2>3, <3>1
  <2> QED
    BY <2>4
<1>11. child \in B /\ \A q \in B : Len(child) <= Len(q)
  <2>1. child = CHOOSE c \in B : \A q \in B : Len(c) <= Len(q)
    BY DEF SplitChild
  <2> HIDE DEF B
  <2> QED
    BY <1>10, <2>1
<1> HIDE DEF B
<1>12. child \in TreeNodes(T) /\ Agree(mid, child, n) /\ child \in Seq(Tokens) /\ Len(child) \in Nat
  BY <1>7, <1>11, NodeFacts
<1>13. Len(child) > n
  <2>1. n <= Len(child)
    BY <1>12 DEF Agree
  <2>2. Len(child) # n
    <3> SUFFICES ASSUME Len(child) = n PROVE FALSE
      OBVIOUS
    <3>1. mid = child
      BY <1>3, <1>4, <1>12, AgreeFacts
    <3> QED
      BY <1>6, <1>12, <3>1
  <2> QED
    BY <1>3, <1>12, <2>1, <2>2
<1>14. ~Agree(child, toks, Len(child))
  BY <1>3, <1>5, <1>12, <1>13
<1> QED
  BY <1>3, <1>4, <1>6, <1>7, <1>11, <1>12, <1>13, <1>14 DEF SplitPoint

(* In a tree that branches at nodes, every node below the split point is     *)
(* below `child`, and the edge to `child` begins at the matched node.        *)
LEMMA SplitEdge ==
  ASSUME NEW T, IsTree(T), Branching(T), NEW toks \in Seq(Tokens), NeedsSplit(T, toks),
         NEW n, n = SharedLen(T, toks), NEW mid, mid = SubSeq(toks, 1, n),
         NEW child, child = SplitChild(T, toks)
  PROVE  /\ \A q \in TreeNodes(T) : Agree(mid, q, n) => Agree(child, q, Len(child))
         /\ ParentLen(T, child) = MatchedLen(T, toks)
<1> DEFINE m == MatchedLen(T, toks)
<1>1. /\ n \in Nat /\ 0 < n /\ n <= Len(toks) /\ m < n
      /\ mid \in Seq(Tokens) /\ Len(mid) = n /\ Agree(mid, toks, n)
      /\ child \in TreeNodes(T) /\ child \in Seq(Tokens) /\ Agree(mid, child, n)
      /\ Len(child) \in Nat /\ Len(child) > n
      /\ \A q \in TreeNodes(T) : Agree(mid, q, n) => Len(child) <= Len(q)
  <2>1. SplitPoint(T, toks, n, mid, child)
    BY SplitFacts
  <2> QED
    BY <2>1 DEF SplitPoint
<1>2. ASSUME NEW q \in TreeNodes(T), Agree(mid, q, n)
      PROVE  Agree(child, q, Len(child))
  <2>1. q \in Seq(Tokens) /\ Len(q) \in Nat
    BY NodeFacts
  <2> DEFINE c == CpLen(child, q)
  <2>2. /\ c \in 0..Len(child) /\ Agree(child, q, c)
        /\ \A k \in Nat : Agree(child, q, k) => k <= c
    BY <1>1, <2>1, CommonPrefixFacts
  <2>3. Agree(child, q, n)
    <3>1. Agree(child, mid, n)
      BY <1>1, AgreeSym
    <3> QED
      BY <1>2, <3>1, AgreeTrans
  <2>4. n <= c
    BY <1>1, <2>2, <2>3
  <2> SUFFICES ASSUME c # Len(child) PROVE FALSE
    BY <2>2
  <2> DEFINE meet == SubSeq(child, 1, c)
  <2>5. meet \in TreeNodes(T)
    <3>1. c > 0
      BY <1>1, <2>2, <2>4
    <3> QED
      BY <1>1, <3>1, BranchingMeans
  <2>6. meet \in Seq(Tokens) /\ Len(meet) = c /\ Agree(meet, child, c)
    BY <1>1, <2>2, FirstTokens
  <2> HIDE DEF meet, c
  <2>7. Agree(mid, meet, n)
    <3>1. c \in Nat /\ n \in 0..c
      BY <1>1, <2>2, <2>4
    <3>2. Agree(child, meet, c)
      BY <1>1, <2>6, <3>1, AgreeFacts
    <3>3. Agree(child, meet, n)
      BY <1>1, <2>6, <3>1, <3>2, AgreeFacts
    <3> QED
      BY <1>1, <3>3, AgreeTrans
  <2>8. Len(child) <= c
    BY <1>1, <2>5, <2>6, <2>7
  <2> QED
    BY <1>1, <2>2, <2>8
<1>3. ParentLen(T, child) = m
  <2> DEFINE k == ParentLen(T, child)
  <2>1. /\ k \in 0..Len(child) - 1
        /\ k # 0 => SubSeq(child, 1, k) \in TreeNodes(T)
        /\ \A q \in TreeNodes(T) : Agree(q, child, Len(q)) /\ Len(q) < Len(child) => Len(q) <= k
    BY <1>1, ParentFacts
  <2>2. /\ m \in 0..Len(toks)
        /\ m # 0 => SubSeq(toks, 1, m) \in TreeNodes(T)
        /\ \A q \in TreeNodes(T) : Agree(q, toks, Len(q)) => Len(q) <= m
    BY MatchedFacts
  <2>3. m \in Nat /\ k \in Nat
    BY <1>1, <2>1, <2>2
  <2> HIDE DEF k, m
  <2>4. m <= k
    <3>1. CASE m = 0
      BY <2>3, <3>1
    <3>2. CASE m # 0
      <4> DEFINE p == SubSeq(toks, 1, m)
      <4>1. p \in TreeNodes(T) /\ p \in Seq(Tokens) /\ Len(p) = m /\ Agree(p, toks, m)
        BY <2>2, <3>2, FirstTokens
      <4> HIDE DEF p
      <4>2. Agree(toks, child, m)
        <5>1. Agree(toks, mid, n)
          BY <1>1, AgreeSym
        <5>2. Agree(toks, child, n)
          BY <1>1, <5>1, AgreeTrans
        <5>3. m \in 0..n
          BY <1>1, <2>3
        <5> QED
          BY <1>1, <5>2, <5>3, AgreeFacts
      <4>3. Agree(p, child, m)
        BY <4>1, <4>2, AgreeTrans
      <4>4. m < Len(child)
        BY <1>1, <2>3
      <4> QED
        BY <2>1, <4>1, <4>3, <4>4
    <3> QED
      BY <3>1, <3>2
  <2>5. k <= m
    <3>1. CASE k = 0
      BY <2>3, <3>1
    <3>2. CASE k # 0
      <4> DEFINE p == SubSeq(child, 1, k)
      <4>1. k \in 0..Len(child) /\ k < Len(child)
        BY <1>1, <2>1
      <4>2. p \in TreeNodes(T) /\ p \in Seq(Tokens) /\ Len(p) = k /\ Agree(p, child, k)
        BY <1>1, <2>1, <3>2, <4>1, FirstTokens
      <4> HIDE DEF p
      <4>3. k < n
        <5> SUFFICES ASSUME n <= k PROVE FALSE
          BY <1>1, <2>3
        <5>0. n \in 0..k
          BY <1>1, <2>3
        <5>1. Agree(child, p, k)
          BY <1>1, <2>3, <4>2, AgreeFacts
        <5>2. Agree(child, p, n)
          BY <1>1, <2>3, <4>2, <5>0, <5>1, AgreeFacts
        <5>3. Agree(mid, p, n)
          BY <1>1, <5>2, AgreeTrans
        <5>4. Len(child) <= k
          BY <1>1, <4>2, <5>3
        <5> QED
          BY <1>1, <2>3, <4>1, <5>4
      <4>4. Agree(child, toks, k)
        <5>1. Agree(child, mid, n)
          BY <1>1, AgreeSym
        <5>2. Agree(child, toks, n)
          BY <1>1, <5>1, AgreeTrans
        <5>3. k \in 0..n
          BY <1>1, <2>3, <4>3
        <5> QED
          BY <1>1, <5>2, <5>3, AgreeFacts
      <4>5. Agree(p, toks, k)
        BY <4>2, <4>4, AgreeTrans
      <4> QED
        BY <2>2, <4>2, <4>5
    <3> QED
      BY <3>1, <3>2
  <2>6. k = m
    BY <2>3, <2>4, <2>5
  <2> QED
    BY <2>6 DEF k, m
<1> QED
  BY <1>2, <1>3

-----------------------------------------------------------------------------
(* Blocks of tokens.                                                         *)

(* A multiple below the next multiple of y is at most y's.                   *)
LEMMA FewerMultiples ==
  ASSUME NEW b \in Nat \ {0}, NEW x \in Int, NEW y \in Int, x * b < y * b + b
  PROVE  x <= y
<1> SUFFICES ASSUME x > y PROVE FALSE
  OBVIOUS
<1>1. PICK d \in Nat : x = y + 1 + d
  <2>1. x - y - 1 \in Nat /\ x = y + 1 + (x - y - 1)
    OBVIOUS
  <2> QED
    BY <2>1
<1>2. x * b = y * b + b + d * b
  BY <1>1
<1>3. d * b \in Nat
  OBVIOUS
<1>4. y * b \in Int
  OBVIOUS
<1> QED
  BY <1>2, <1>3, <1>4

(* Division by a positive number.                                            *)
LEMMA DivFacts ==
  ASSUME NEW b \in Nat \ {0}, NEW n \in Nat
  PROVE  n \div b \in Nat /\ (n \div b) * b <= n /\ n < (n \div b) * b + b
<1>1. n \div b \in Int
  OBVIOUS
<1>2. n % b \in 0..b - 1
  OBVIOUS
<1>3. n = b * (n \div b) + (n % b)
  OBVIOUS
<1>4. PICK q \in Int, r \in 0..b - 1 : q = n \div b /\ r = n % b
  BY <1>1, <1>2
<1>5. n = b * q + r /\ q * b = b * q /\ q * b \in Int
  BY <1>3, <1>4
<1>6. q * b <= n /\ n < q * b + b
  BY <1>4, <1>5
<1>7. 0 <= q
  <2>1. 0 * b < q * b + b
    BY <1>5, <1>6
  <2> QED
    BY <2>1, FewerMultiples
<1> QED
  BY <1>4, <1>6, <1>7

(* _n_blocks: the fewest blocks that hold n tokens.                          *)
LEMMA CeilFacts ==
  ASSUME NEW n \in Nat
  PROVE  /\ CeilDiv(n) \in Nat /\ n <= CeilDiv(n) * BlockSize
         /\ CeilDiv(n) * BlockSize < n + BlockSize
<1>1. BlockSize \in Nat \ {0} /\ n + BlockSize - 1 \in Nat
  BY BlockSizeAssumption
<1>2. PICK c : c = CeilDiv(n)
  OBVIOUS
<1>3. c \in Nat /\ c * BlockSize <= n + BlockSize - 1 /\ n + BlockSize - 1 < c * BlockSize + BlockSize
  BY <1>1, <1>2, DivFacts DEF CeilDiv
<1>4. c * BlockSize \in Int
  BY <1>1, <1>3
<1> QED
  BY <1>1, <1>2, <1>3, <1>4

(* It is the only such number.                                               *)
LEMMA CeilUnique ==
  ASSUME NEW n \in Nat, NEW c \in Int, n <= c * BlockSize, c * BlockSize < n + BlockSize
  PROVE  c = CeilDiv(n)
<1>1. BlockSize \in Nat \ {0}
  BY BlockSizeAssumption
<1>2. PICK d : d = CeilDiv(n)
  OBVIOUS
<1>3. d \in Nat /\ n <= d * BlockSize /\ d * BlockSize < n + BlockSize
  BY <1>2, CeilFacts
<1>4. c * BlockSize \in Int /\ d * BlockSize \in Int
  BY <1>1, <1>3
<1>5. c * BlockSize < d * BlockSize + BlockSize /\ d * BlockSize < c * BlockSize + BlockSize
  BY <1>1, <1>3, <1>4
<1>6. c <= d /\ d <= c
  BY <1>1, <1>3, <1>5, FewerMultiples
<1> QED
  BY <1>2, <1>3, <1>6

(* No tokens need no block, others at least one.                             *)
LEMMA CeilZero ==
  ASSUME NEW n \in Nat
  PROVE  CeilDiv(n) = 0 <=> n = 0
<1>1. BlockSize \in Nat \ {0}
  BY BlockSizeAssumption
<1>2. ASSUME n = 0 PROVE CeilDiv(n) = 0
  <2>1. n <= 0 * BlockSize /\ 0 * BlockSize < n + BlockSize
    BY <1>1, <1>2
  <2> QED
    BY <2>1, CeilUnique
<1>3. ASSUME CeilDiv(n) = 0 PROVE n = 0
  <2>1. n <= 0 * BlockSize
    BY <1>3, CeilFacts
  <2> QED
    BY <1>1, <2>1
<1> QED
  BY <1>2, <1>3

(* A key that is cut in two needs as many blocks as before, or one more: the *)
(* boundary block is then in both halves (needs_extra).                      *)
LEMMA CeilSplit ==
  ASSUME NEW a \in Nat, NEW b \in Nat
  PROVE  /\ CeilDiv(a) <= CeilDiv(a + b)
         /\ \/ CeilDiv(a) + CeilDiv(b) = CeilDiv(a + b)
            \/ CeilDiv(a) + CeilDiv(b) = CeilDiv(a + b) + 1
<1>1. BlockSize \in Nat \ {0} /\ a + b \in Nat
  BY BlockSizeAssumption
<1>2. PICK x, y, z : x = CeilDiv(a) /\ y = CeilDiv(b) /\ z = CeilDiv(a + b)
  OBVIOUS
<1>3. x \in Nat /\ a <= x * BlockSize /\ x * BlockSize < a + BlockSize
  BY <1>2, CeilFacts
<1>4. y \in Nat /\ b <= y * BlockSize /\ y * BlockSize < b + BlockSize
  BY <1>2, CeilFacts
<1>5. z \in Nat /\ a + b <= z * BlockSize /\ z * BlockSize < a + b + BlockSize
  BY <1>1, <1>2, CeilFacts
<1>6. /\ x * BlockSize \in Int /\ y * BlockSize \in Int /\ z * BlockSize \in Int
      /\ (x + y) * BlockSize = x * BlockSize + y * BlockSize
      /\ (z + 1) * BlockSize = z * BlockSize + BlockSize
  BY <1>1, <1>3, <1>4, <1>5
<1>7. x <= z
  <2>1. x * BlockSize < z * BlockSize + BlockSize
    BY <1>1, <1>3, <1>5, <1>6
  <2> QED
    BY <1>1, <1>3, <1>5, <2>1, FewerMultiples
<1>8. z <= x + y
  <2>1. z * BlockSize < (x + y) * BlockSize + BlockSize
    BY <1>1, <1>3, <1>4, <1>5, <1>6
  <2>2. x + y \in Int
    BY <1>3, <1>4
  <2> QED
    BY <1>1, <1>5, <2>1, <2>2, FewerMultiples
<1>9. x + y <= z + 1
  <2>1. (x + y) * BlockSize < (z + 1) * BlockSize + BlockSize
    BY <1>1, <1>3, <1>4, <1>5, <1>6
  <2>2. x + y \in Int /\ z + 1 \in Int
    BY <1>3, <1>4, <1>5
  <2> QED
    BY <1>1, <2>1, <2>2, FewerMultiples
<1>10. x <= z /\ (x + y = z \/ x + y = z + 1)
  BY <1>3, <1>4, <1>5, <1>7, <1>8, <1>9
<1> QED
  BY <1>2, <1>10

-----------------------------------------------------------------------------
(* Well-formed trees.                                                        *)

TreeOK(T) == IsTree(T) /\ Branching(T) /\ SizedNodes(T)

(* Two trees with the same nodes and blocks: only time stamps differ.        *)
SameBlocks(T, U) ==
  /\ TreeNodes(U) = TreeNodes(T)
  /\ \A p \in TreeNodes(T) : U[p].bids = T[p].bids

(* Sequences that start alike have the same first tokens.                    *)
LEMMA SameStart ==
  ASSUME NEW A, NEW s \in Seq(A), NEW t \in Seq(A), NEW n \in Nat, Agree(s, t, n)
  PROVE  SubSeq(s, 1, n) = SubSeq(t, 1, n)
<1>1. n \in 0..Len(s) /\ n \in 0..Len(t)
  BY DEF Agree
<1> DEFINE u == SubSeq(s, 1, n)
<1>2. u \in Seq(A) /\ Len(u) = n /\ Agree(u, s, n)
  BY <1>1, FirstTokens
<1>3. Agree(u, t, n)
  BY <1>2, AgreeTrans
<1> HIDE DEF u
<1>4. u = SubSeq(t, 1, n)
  BY <1>1, <1>2, <1>3, FirstTokens
<1> QED
  BY <1>4 DEF u

(* The length of a common prefix is the one place where two paths part.      *)
LEMMA CpIs ==
  ASSUME NEW A, NEW s \in Seq(A), NEW t \in Seq(A), NEW n \in Nat,
         Agree(s, t, n), ~Agree(s, t, n + 1)
  PROVE  CpLen(s, t) = n
<1> DEFINE c == CpLen(s, t)
<1>1. c \in 0..Len(s) /\ Agree(s, t, c) /\ \A k \in Nat : Agree(s, t, k) => k <= c
  BY CommonPrefixFacts
<1> HIDE DEF c
<1>2. c \in Nat /\ n <= c /\ Len(s) \in Nat /\ Len(t) \in Nat
  BY <1>1
<1>3. ASSUME n # c PROVE FALSE
  <2>1. n + 1 \in 0..c
    BY <1>2, <1>3
  <2> QED
    BY <1>1, <1>2, <2>1, AgreeFewer
<1> QED
  BY <1>3 DEF c

(* A path that parts from s before s and t part, parts from t there too.     *)
LEMMA CpThrough ==
  ASSUME NEW A, NEW s \in Seq(A), NEW t \in Seq(A), NEW q \in Seq(A), NEW n \in Nat,
         Agree(s, t, n), CpLen(s, q) < n
  PROVE  CpLen(t, q) = CpLen(s, q) /\ SubSeq(t, 1, CpLen(s, q)) = SubSeq(s, 1, CpLen(s, q))
<1> DEFINE c == CpLen(s, q)
<1>1. c \in 0..Len(s) /\ Agree(s, q, c) /\ \A k \in Nat : Agree(s, q, k) => k <= c
  BY CommonPrefixFacts
<1>2. c < n
  OBVIOUS
<1> HIDE DEF c
<1>3. c \in Nat /\ c \in 0..n /\ c + 1 \in 0..n /\ c + 1 \in Nat
  BY <1>1, <1>2
<1>4. Len(s) \in Nat /\ Len(t) \in Nat
  OBVIOUS
<1>5. Agree(s, t, c) /\ Agree(s, t, c + 1)
  BY <1>3, <1>4, AgreeFewer
<1>6. Agree(t, q, c)
  BY <1>1, <1>5, AgreeSym, AgreeTrans
<1>7. ~Agree(t, q, c + 1)
  <2> SUFFICES ASSUME Agree(t, q, c + 1) PROVE FALSE
    OBVIOUS
  <2>1. Agree(s, q, c + 1)
    BY <1>5, AgreeTrans
  <2> QED
    BY <1>1, <1>3, <2>1
<1>8. CpLen(t, q) = c
  BY <1>3, <1>6, <1>7, CpIs
<1>9. SubSeq(t, 1, c) = SubSeq(s, 1, c)
  BY <1>3, <1>5, SameStart
<1> QED
  BY <1>8, <1>9 DEF c

(* The common prefix does not depend on the order of the paths.              *)
LEMMA CpSym ==
  ASSUME NEW A, NEW s \in Seq(A), NEW t \in Seq(A)
  PROVE  CpLen(t, s) = CpLen(s, t) /\ SubSeq(t, 1, CpLen(s, t)) = SubSeq(s, 1, CpLen(s, t))
<1> DEFINE c == CpLen(s, t)
<1>1. c \in 0..Len(s) /\ Agree(s, t, c) /\ \A k \in Nat : Agree(s, t, k) => k <= c
  BY CommonPrefixFacts
<1> HIDE DEF c
<1>2. c \in Nat /\ Agree(t, s, c)
  BY <1>1, AgreeSym
<1>3. ~Agree(t, s, c + 1)
  <2> SUFFICES ASSUME Agree(t, s, c + 1) PROVE FALSE
    OBVIOUS
  <2>1. Agree(s, t, c + 1) /\ c + 1 \in Nat
    BY <1>2, AgreeSym
  <2> QED
    BY <1>1, <1>2, <2>1
<1>4. CpLen(t, s) = c
  BY <1>2, <1>3, CpIs
<1>5. SubSeq(t, 1, c) = SubSeq(s, 1, c)
  BY <1>2, SameStart
<1> QED
  BY <1>4, <1>5 DEF c

(* ParentLen is the only number with its properties.                         *)
LEMMA ParentIs ==
  ASSUME NEW T, IsTree(T), NEW p \in Seq(Tokens), Len(p) > 0, NEW k \in Nat, k < Len(p),
         k # 0 => SubSeq(p, 1, k) \in TreeNodes(T),
         \A q \in TreeNodes(T) : Agree(q, p, Len(q)) /\ Len(q) < Len(p) => Len(q) <= k
  PROVE  ParentLen(T, p) = k
<1> DEFINE l == ParentLen(T, p)
<1>1. /\ l \in 0..Len(p) - 1
      /\ l # 0 => SubSeq(p, 1, l) \in TreeNodes(T)
      /\ \A q \in TreeNodes(T) : Agree(q, p, Len(q)) /\ Len(q) < Len(p) => Len(q) <= l
  BY ParentFacts
<1> HIDE DEF l
<1>2. l \in Nat /\ l < Len(p) /\ Len(p) \in Nat /\ l \in 0..Len(p) /\ k \in 0..Len(p)
  BY <1>1
<1>3. l <= k
  <2>1. CASE l = 0
    BY <2>1
  <2>2. CASE l # 0
    <3>1. Len(SubSeq(p, 1, l)) = l /\ Agree(SubSeq(p, 1, l), p, l)
      BY <1>2, FirstTokens
    <3> QED
      BY <1>1, <1>2, <2>2, <3>1
  <2> QED
    BY <2>1, <2>2
<1>4. k <= l
  <2>1. CASE k = 0
    BY <1>2, <2>1
  <2>2. CASE k # 0
    <3>1. Len(SubSeq(p, 1, k)) = k /\ Agree(SubSeq(p, 1, k), p, k)
      BY <1>2, FirstTokens
    <3> QED
      BY <1>1, <1>2, <2>2, <3>1
  <2> QED
    BY <2>1, <2>2
<1>5. l = k
  BY <1>2, <1>3, <1>4
<1> QED
  BY <1>5 DEF l

(* A tree that differs in time stamps only is as good.                       *)
LEMMA SameBlocksOK ==
  ASSUME NEW T, TreeOK(T), NEW U, IsTree(U), SameBlocks(T, U)
  PROVE  TreeOK(U) /\ BlocksOf(U) = BlocksOf(T)
<1>1. Branching(U)
  BY DEF TreeOK, SameBlocks, Branching
<1>2. SizedNodes(U)
  <2>1. \A p : ParentLen(U, p) = ParentLen(T, p)
    BY DEF SameBlocks, ParentLen
  <2> QED
    BY <2>1 DEF TreeOK, SameBlocks, SizedNodes, KeyLen
<1>3. BlocksOf(U) = BlocksOf(T)
  BY DEF SameBlocks, BlocksOf
<1> QED
  BY <1>1, <1>2, <1>3 DEF TreeOK

(* The walk of a match changes time stamps only.                             *)
LEMMA TouchSame ==
  ASSUME NEW T, IsTree(T), NEW toks, NEW t \in Nat
  PROVE  IsTree(Touch(T, toks, t)) /\ SameBlocks(T, Touch(T, toks, t))
<1> DEFINE U == Touch(T, toks, t)
<1>1. TreeNodes(U) = TreeNodes(T)
  BY DEF Touch, TreeNodes
<1>2. ASSUME NEW p \in TreeNodes(T)
      PROVE  U[p] \in [bids : Seq(Blocks), last : Nat] /\ U[p].bids = T[p].bids
  <2>1. /\ T[p].bids \in Seq(Blocks) /\ T[p].last \in Nat
        /\ T[p] = [bids |-> T[p].bids, last |-> T[p].last]
    BY NodeFacts
  <2>2. U[p] = IF IsPrefix(p, toks) THEN [T[p] EXCEPT !.last = t] ELSE T[p]
    BY DEF Touch
  <2>3. [T[p] EXCEPT !.last = t] = [bids |-> T[p].bids, last |-> t]
    BY <2>1
  <2> HIDE DEF U
  <2> QED
    BY <2>1, <2>2, <2>3
<1>3. U \in [TreeNodes(U) -> [bids : Seq(Blocks), last : Nat]]
  BY <1>1, <1>2 DEF Touch, TreeNodes
<1> HIDE DEF U
<1>4. IsTree(U) /\ SameBlocks(T, U)
  BY <1>1, <1>2, <1>3 DEF IsTree, SameBlocks
<1> QED
  BY <1>4 DEF U

(* A set of nodes that has with a node everything below it.                  *)
Severable(T, gone) ==
  \A p \in gone, q \in TreeNodes(T) : IsPrefix(p, q) => q \in gone

(* Removing such a set leaves a well-formed tree.                            *)
LEMMA RemoveOK ==
  ASSUME NEW T, TreeOK(T), NEW gone, gone \subseteq TreeNodes(T), Severable(T, gone)
  PROVE  /\ TreeOK(RemoveNodes(T, gone))
         /\ TreeNodes(RemoveNodes(T, gone)) = TreeNodes(T) \ gone
         /\ \A p \in TreeNodes(T) \ gone : RemoveNodes(T, gone)[p] = T[p]
<1> DEFINE U == RemoveNodes(T, gone)
<1>1. TreeNodes(U) = TreeNodes(T) \ gone /\ \A p \in TreeNodes(T) \ gone : U[p] = T[p]
  BY DEF RemoveNodes, TreeNodes
<1>2. IsTree(U)
  <2>1. IsFiniteSet(TreeNodes(T) \ gone)
    BY FS_Subset DEF TreeOK, IsTree
  <2>2. \A p \in TreeNodes(T) \ gone : T[p] \in [bids : Seq(Blocks), last : Nat]
    BY DEF TreeOK, IsTree
  <2>3. U \in [TreeNodes(U) -> [bids : Seq(Blocks), last : Nat]]
    BY <2>2 DEF RemoveNodes, TreeNodes
  <2> QED
    BY <1>1, <2>1, <2>3 DEF TreeOK, IsTree
<1> HIDE DEF U
<1>3. Branching(U)
  <2> SUFFICES ASSUME NEW p \in TreeNodes(U), NEW q \in TreeNodes(U), CpLen(p, q) > 0
               PROVE  SubSeq(p, 1, CpLen(p, q)) \in TreeNodes(U)
    BY <1>2, BranchingMeans
  <2> DEFINE c == CpLen(p, q)
             m == SubSeq(p, 1, c)
  <2>1. p \in Seq(Tokens) /\ q \in Seq(Tokens) /\ p \in TreeNodes(T) /\ q \in TreeNodes(T)
    BY <1>1, NodeFacts DEF TreeOK
  <2>2. m \in TreeNodes(T)
    BY <2>1, BranchingMeans DEF TreeOK
  <2>3. c \in 0..Len(p)
    BY <2>1, CommonPrefixFacts
  <2>4. m \in Seq(Tokens) /\ Len(m) = c /\ Agree(m, p, c)
    BY <2>1, <2>3, FirstTokens
  <2>5. IsPrefix(m, p)
    BY <2>1, <2>4, PrefixAgrees
  <2> HIDE DEF m
  <2>6. m \notin gone
    BY <1>1, <2>1, <2>5 DEF Severable
  <2> QED
    BY <1>1, <2>2, <2>6 DEF m
<1>4. SizedNodes(U)
  <2> SUFFICES ASSUME NEW p \in TreeNodes(U) PROVE Len(U[p].bids) = CeilDiv(KeyLen(U, p))
    BY DEF SizedNodes
  <2>1. p \in TreeNodes(T) /\ p \notin gone /\ U[p] = T[p]
    BY <1>1
  <2>2. {q \in TreeNodes(U) : IsStrictPrefix(q, p)} = {q \in TreeNodes(T) : IsStrictPrefix(q, p)}
    BY <1>1, <2>1 DEF Severable, IsStrictPrefix
  <2>3. KeyLen(U, p) = KeyLen(T, p)
    BY <2>2 DEF KeyLen, ParentLen
  <2> QED
    BY <2>1, <2>3 DEF TreeOK, SizedNodes
<1>5. TreeOK(U)
  BY <1>2, <1>3, <1>4 DEF TreeOK
<1> QED
  BY <1>1, <1>5 DEF U

-----------------------------------------------------------------------------
(* insert.                                                                   *)

(* The elements of a sequence that is cut in two, and of two put together.   *)
LEMMA ToSetParts ==
  ASSUME NEW A, NEW s \in Seq(A), NEW t \in Seq(A), NEW n \in 0..Len(s)
  PROVE  /\ ToSet(s \o t) = ToSet(s) \cup ToSet(t)
         /\ ToSet(SubSeq(s, 1, n)) \cup ToSet(SubSeq(s, n + 1, Len(s))) = ToSet(s)
<1>1. Len(s) \in Nat /\ Len(t) \in Nat /\ n \in Nat
  OBVIOUS
<1>2. ToSet(s \o t) = ToSet(s) \cup ToSet(t)
  <2>1. DOMAIN (s \o t) = 1..Len(s) + Len(t)
    OBVIOUS
  <2>2. \A i \in 1..Len(s) : (s \o t)[i] = s[i] /\ i \in 1..Len(s) + Len(t)
    OBVIOUS
  <2>3. \A i \in 1..Len(t) : (s \o t)[Len(s) + i] = t[i] /\ Len(s) + i \in 1..Len(s) + Len(t)
    OBVIOUS
  <2>4. \A i \in 1..Len(s) + Len(t) :
          (i \in 1..Len(s) /\ (s \o t)[i] = s[i])
            \/ (i - Len(s) \in 1..Len(t) /\ (s \o t)[i] = t[i - Len(s)])
    OBVIOUS
  <2>5. DOMAIN s = 1..Len(s) /\ DOMAIN t = 1..Len(t)
    OBVIOUS
  <2>6. PICK u : u = s \o t
    OBVIOUS
  <2>7. ToSet(u) \subseteq ToSet(s) \cup ToSet(t)
    BY <2>1, <2>4, <2>5, <2>6 DEF ToSet
  <2>8. ToSet(s) \subseteq ToSet(u)
    BY <2>1, <2>2, <2>5, <2>6 DEF ToSet
  <2>9. ToSet(t) \subseteq ToSet(u)
    BY <2>1, <2>3, <2>5, <2>6 DEF ToSet
  <2> QED
    BY <2>6, <2>7, <2>8, <2>9
<1>3. ToSet(SubSeq(s, 1, n)) \cup ToSet(SubSeq(s, n + 1, Len(s))) = ToSet(s)
  <2>1. PICK u, v : u = SubSeq(s, 1, n) /\ v = SubSeq(s, n + 1, Len(s))
    OBVIOUS
  <2>2. DOMAIN s = 1..Len(s)
    OBVIOUS
  <2>3. DOMAIN u = 1..n /\ \A i \in 1..n : u[i] = s[i]
    BY <1>1, <2>1
  <2>4. DOMAIN v = 1..Len(s) - n /\ \A i \in 1..Len(s) - n : v[i] = s[n + i]
    BY <1>1, <2>1
  <2>5. ToSet(u) \subseteq ToSet(s)
    BY <1>1, <2>2, <2>3 DEF ToSet
  <2>6. ToSet(v) \subseteq ToSet(s)
    BY <1>1, <2>2, <2>4, SMTT(40) DEF ToSet
  <2>7. ASSUME NEW i \in 1..Len(s) PROVE s[i] \in ToSet(u) \cup ToSet(v)
    <3>1. CASE i <= n
      BY <1>1, <2>3, <3>1 DEF ToSet
    <3>2. CASE i > n
      <4>1. i - n \in 1..Len(s) - n /\ v[i - n] = s[i]
        BY <1>1, <2>4, <3>2
      <4> QED
        BY <2>4, <4>1 DEF ToSet
    <3> QED
      BY <1>1, <3>1, <3>2
  <2>8. ToSet(s) \subseteq ToSet(u) \cup ToSet(v)
    BY <2>2, <2>7 DEF ToSet
  <2> QED
    BY <2>1, <2>5, <2>6, <2>8
<1> QED
  BY <1>2, <1>3

(* The tree after a split, node by node.                                     *)
SplitTree(T, U, toks, extra, mid, child, cut) ==
  /\ TreeNodes(U) = TreeNodes(T) \cup {mid}
  /\ U[mid].bids = SubSeq(T[child].bids, 1, cut)
  /\ U[child].bids = extra \o SubSeq(T[child].bids, cut + 1, Len(T[child].bids))
  /\ \A p \in TreeNodes(T) : p # child => U[p].bids = T[p].bids
  /\ cut \in 0..Len(T[child].bids)
  /\ cut = CeilDiv(Len(mid) - MatchedLen(T, toks))
  /\ Len(T[child].bids) = CeilDiv(Len(child) - MatchedLen(T, toks))
  /\ Len(extra) = CeilDiv(Len(mid) - MatchedLen(T, toks)) + CeilDiv(Len(child) - Len(mid))
                    - CeilDiv(Len(child) - MatchedLen(T, toks))

(* The split gives `mid` the first blocks of the edge and `child` the rest,  *)
(* behind the extra block that the boundary may need.                        *)
LEMMA SplitShape ==
  ASSUME NEW T, TreeOK(T), NEW toks \in Seq(Tokens), NeedsSplit(T, toks),
         NEW extra \in Seq(Blocks), Len(extra) = SplitMint(T, toks), NEW t \in Nat,
         NEW U, U = Split(T, toks, extra, t)
  PROVE  \E mid, child, cut :
           /\ SplitPoint(T, toks, SharedLen(T, toks), mid, child)
           /\ mid = SubSeq(toks, 1, SharedLen(T, toks)) /\ child = SplitChild(T, toks)
           /\ SplitTree(T, U, toks, extra, mid, child, cut)
           /\ IsTree(U)
<1>1. PICK n, mid, child, m, old :
        /\ n = SharedLen(T, toks) /\ mid = SubSeq(toks, 1, n) /\ child = SplitChild(T, toks)
        /\ m = MatchedLen(T, toks) /\ old = T[child].bids
  OBVIOUS
<1>2. SplitPoint(T, toks, n, mid, child)
  BY <1>1, SplitFacts DEF TreeOK
<1>3. /\ n \in Nat /\ n > 0 /\ m < n /\ mid \in Seq(Tokens) /\ Len(mid) = n
      /\ mid \notin TreeNodes(T) /\ child \in TreeNodes(T)
      /\ Len(child) \in Nat /\ Len(child) > n
  BY <1>1, <1>2 DEF SplitPoint
<1>4. m \in Nat
  BY <1>1, MatchedFacts DEF TreeOK
<1>5. ParentLen(T, child) = m
  BY <1>1, SplitEdge DEF TreeOK
<1>6. /\ old \in Seq(Blocks) /\ Len(old) \in Nat /\ T[child].last \in Nat
      /\ T[child] = [bids |-> old, last |-> T[child].last]
  BY <1>1, <1>3, NodeFacts DEF TreeOK
<1>7. Len(old) = CeilDiv(Len(child) - m)
  BY <1>1, <1>3, <1>5 DEF TreeOK, SizedNodes, KeyLen
<1>8. PICK a \in Nat, b \in Nat : a = n - m /\ b = Len(child) - n /\ a + b = Len(child) - m
  <2>1. n - m \in Nat /\ Len(child) - n \in Nat /\ (n - m) + (Len(child) - n) = Len(child) - m
    BY <1>3, <1>4
  <2> QED
    BY <2>1
<1>9. PICK cut, tail : cut = CeilDiv(a) /\ tail = CeilDiv(b)
  OBVIOUS
<1>10. /\ cut \in Nat /\ tail \in Nat /\ cut <= Len(old)
       /\ cut + tail = Len(old) \/ cut + tail = Len(old) + 1
  <2>1. Len(old) = CeilDiv(a + b)
    BY <1>7, <1>8
  <2>2. cut \in Nat /\ tail \in Nat
    BY <1>9, CeilFacts
  <2>3. /\ cut <= CeilDiv(a + b)
        /\ cut + tail = CeilDiv(a + b) \/ cut + tail = CeilDiv(a + b) + 1
    BY <1>9, CeilSplit
  <2> QED
    BY <2>1, <2>2, <2>3
<1>11. Len(extra) = cut + tail - Len(old)
  <2>1. SplitMint(T, toks) = IF cut + tail > Len(old) THEN 1 ELSE 0
    BY <1>1, <1>8, <1>9 DEF SplitMint, NBlocks
  <2> QED
    BY <1>6, <1>10, <2>1
<1>12. U = [p \in TreeNodes(T) \cup {mid} |->
              IF p = mid THEN [bids |-> SubSeq(old, 1, cut), last |-> t]
              ELSE IF p = child
                   THEN [T[p] EXCEPT !.bids = extra \o SubSeq(old, cut + 1, Len(old))]
              ELSE T[p]]
  BY <1>1, <1>8, <1>9 DEF Split, NBlocks
<1>13. PICK first, rest : first = SubSeq(old, 1, cut) /\ rest = extra \o SubSeq(old, cut + 1, Len(old))
  OBVIOUS
<1>14. first \in Seq(Blocks) /\ rest \in Seq(Blocks)
  BY <1>6, <1>10, <1>13
<1>15. /\ TreeNodes(U) = TreeNodes(T) \cup {mid}
       /\ U[mid] = [bids |-> first, last |-> t]
       /\ U[child] = [bids |-> rest, last |-> T[child].last]
       /\ \A p \in TreeNodes(T) : p # child => U[p] = T[p]
  <2>1. TreeNodes(U) = TreeNodes(T) \cup {mid}
    BY <1>12 DEF TreeNodes
  <2>2. U[mid] = [bids |-> first, last |-> t]
    BY <1>12, <1>13
  <2>3. child # mid /\ \A p \in TreeNodes(T) : p # mid
    BY <1>3
  <2>4. U[child] = [T[child] EXCEPT !.bids = rest]
    BY <1>3, <1>12, <1>13, <2>3
  <2>5. [T[child] EXCEPT !.bids = rest] = [bids |-> rest, last |-> T[child].last]
    BY <1>6
  <2>6. \A p \in TreeNodes(T) : p # child => U[p] = T[p]
    BY <1>12, <2>3
  <2> QED
    BY <2>1, <2>2, <2>4, <2>5, <2>6
<1>16. IsTree(U)
  <2>1. \A p \in TreeNodes(T) : T[p] \in [bids : Seq(Blocks), last : Nat]
    BY DEF TreeOK, IsTree
  <2>2. \A p \in TreeNodes(U) : U[p] \in [bids : Seq(Blocks), last : Nat]
    BY <1>6, <1>14, <1>15, <2>1
  <2>3. U \in [TreeNodes(U) -> [bids : Seq(Blocks), last : Nat]]
    <3>1. U = [p \in TreeNodes(U) |-> U[p]]
      BY <1>12, <1>15
    <3> QED
      BY <2>2, <3>1
  <2>4. mid # <<>>
    BY <1>3
  <2>5. TreeNodes(U) \subseteq Seq(Tokens) \ {<<>>}
    BY <1>3, <1>15, <2>4 DEF TreeOK, IsTree
  <2>6. IsFiniteSet(TreeNodes(U))
    <3>1. PICK N : N = TreeNodes(T)
      OBVIOUS
    <3>2. IsFiniteSet(N)
      BY <3>1 DEF TreeOK, IsTree
    <3> QED
      BY <1>15, <3>1, <3>2, FS_AddElement
  <2> QED
    BY <2>3, <2>5, <2>6 DEF IsTree
<1>17. SplitTree(T, U, toks, extra, mid, child, cut)
  <2>1. U[mid].bids = first /\ U[child].bids = rest
    BY <1>15
  <2>2. cut \in 0..Len(old)
    BY <1>6, <1>10
  <2>3. cut = CeilDiv(Len(mid) - m) /\ tail = CeilDiv(Len(child) - Len(mid))
    BY <1>3, <1>8, <1>9
  <2>4. Len(extra) = CeilDiv(Len(mid) - m) + CeilDiv(Len(child) - Len(mid)) - CeilDiv(Len(child) - m)
    BY <1>7, <1>11, <2>3
  <2> QED
    BY <1>1, <1>7, <1>13, <1>15, <2>1, <2>2, <2>3, <2>4 DEF SplitTree
<1> QED
  BY <1>1, <1>2, <1>16, <1>17

(* The rest of a sequence behind its first c elements.                       *)
LEMMA RestOf ==
  ASSUME NEW S, NEW s \in Seq(S), NEW c \in 0..Len(s)
  PROVE  /\ SubSeq(s, c + 1, Len(s)) \in Seq(S)
         /\ Len(SubSeq(s, c + 1, Len(s))) = Len(s) - c
         /\ \A i \in 1..Len(s) - c : SubSeq(s, c + 1, Len(s))[i] = s[i + c]
<1>1. PICK n, a : n = Len(s) /\ a = c + 1
  OBVIOUS
<1>2. n \in Nat /\ c \in Nat /\ c <= n /\ a \in Int /\ n \in Int
  BY <1>1
<1>3. \A i \in a..n : s[i] \in S
  <2>1. \A i \in 1..n : s[i] \in S
    BY <1>1
  <2>2. \A i \in a..n : i \in 1..n
    BY <1>1, <1>2
  <2> QED
    BY <2>1, <2>2
<1>4. PICK r : r = SubSeq(s, a, n)
  OBVIOUS
<1>5. /\ r \in Seq(S) /\ Len(r) = (IF a <= n THEN n - a + 1 ELSE 0)
      /\ \A i \in 1..n - a + 1 : r[i] = s[a + i - 1]
  BY <1>2, <1>3, <1>4, SubSeqProperties
<1>6. n - a + 1 = n - c /\ (a <= n \/ n - c = 0)
  BY <1>1, <1>2
<1>7. \A i \in 1..n - c : i \in Nat /\ a + i - 1 = i + c
  BY <1>1, <1>2
<1>8. Len(r) = n - c
  BY <1>1, <1>2, <1>5, <1>6
<1>9. \A i \in 1..n - c : r[i] = s[i + c]
  BY <1>5, <1>6, <1>7
<1> QED
  BY <1>1, <1>4, <1>5, <1>8, <1>9

(* The split leaves a well-formed tree, which toks matches up to the split   *)
(* point, with the extra block as its only new one.                          *)
LEMMA SplitOK ==
  ASSUME NEW T, TreeOK(T), NEW toks \in Seq(Tokens),
         NEW extra \in Seq(Blocks), Len(extra) = SplitMint(T, toks), NEW t \in Nat,
         NEW U, U = Split(T, toks, extra, t)
  PROVE  /\ TreeOK(U) /\ BlocksOf(U) = BlocksOf(T) \cup ToSet(extra)
         /\ MatchedLen(U, toks) = SharedLen(T, toks) /\ SharedLen(U, toks) = SharedLen(T, toks)
<1>1. CASE ~NeedsSplit(T, toks)
  <2>1. U = T
    BY <1>1 DEF Split
  <2>2. Len(extra) = 0
    BY <1>1 DEF SplitMint
  <2>3. extra = <<>>
    BY <2>2
  <2>4. ToSet(extra) = {}
    BY <2>3, ToSetEmpty
  <2>5. MatchedLen(T, toks) = SharedLen(T, toks)
    <3>1. /\ MatchedLen(T, toks) \in 0..Len(toks) /\ SharedLen(T, toks) \in 0..Len(toks)
          /\ MatchedLen(T, toks) <= SharedLen(T, toks)
      BY MatchedFacts, SharedFacts DEF TreeOK
    <3> QED
      BY <1>1, <3>1 DEF NeedsSplit
  <2> QED
    BY <2>1, <2>4, <2>5
<1>2. CASE NeedsSplit(T, toks)
  <2>1. PICK mid, child, cut :
          /\ SplitPoint(T, toks, SharedLen(T, toks), mid, child)
          /\ mid = SubSeq(toks, 1, SharedLen(T, toks)) /\ child = SplitChild(T, toks)
          /\ SplitTree(T, U, toks, extra, mid, child, cut)
          /\ IsTree(U)
    BY <1>2, SplitShape
  <2>2. PICK n, m, old : n = SharedLen(T, toks) /\ m = MatchedLen(T, toks) /\ old = T[child].bids
    OBVIOUS
  <2>3. /\ n \in Nat /\ 0 < n /\ n <= Len(toks) /\ m < n
        /\ mid \in Seq(Tokens) /\ Len(mid) = n /\ Agree(mid, toks, n)
        /\ mid \notin TreeNodes(T)
        /\ child \in TreeNodes(T) /\ child \in Seq(Tokens) /\ Agree(mid, child, n)
        /\ Len(child) \in Nat /\ Len(child) > n
    BY <2>1, <2>2 DEF SplitPoint
  <2>4. /\ TreeNodes(U) = TreeNodes(T) \cup {mid}
        /\ U[mid].bids = SubSeq(old, 1, cut)
        /\ U[child].bids = extra \o SubSeq(old, cut + 1, Len(old))
        /\ \A p \in TreeNodes(T) : p # child => U[p].bids = T[p].bids
        /\ cut \in 0..Len(old) /\ cut = CeilDiv(n - m) /\ Len(old) = CeilDiv(Len(child) - m)
        /\ Len(extra) = cut + CeilDiv(Len(child) - n) - Len(old)
    BY <2>1, <2>2, <2>3 DEF SplitTree
  <2>5. /\ \A q \in TreeNodes(T) : Agree(mid, q, n) => Agree(child, q, Len(child))
        /\ ParentLen(T, child) = m
    BY <1>2, <2>1, <2>2, SplitEdge, ZenonT(40) DEF TreeOK
  <2>6. /\ m \in Nat /\ m \in 0..Len(toks) /\ (m # 0 => SubSeq(toks, 1, m) \in TreeNodes(T))
        /\ \A p \in TreeNodes(T) : Agree(p, toks, Len(p)) => Len(p) <= m
    BY <2>2, MatchedFacts DEF TreeOK
  <2>7. old \in Seq(Blocks) /\ Len(old) \in Nat
    BY <2>2, <2>3, NodeFacts DEF TreeOK
  <2>8. IsTree(U) /\ IsTree(T)
    BY <2>1 DEF TreeOK
  <2>9. \A p \in TreeNodes(U) : p \in Seq(Tokens) /\ Len(p) \in Nat /\ Len(p) > 0
    BY <2>8, NodeFacts
  <2>10. Branching(U)
    <3>1. ASSUME NEW q \in TreeNodes(T), CpLen(mid, q) > 0
          PROVE  SubSeq(mid, 1, CpLen(mid, q)) \in TreeNodes(U)
      <4>1. q \in Seq(Tokens)
        BY <2>8, NodeFacts
      <4>2. CpLen(mid, q) \in 0..n
        BY <2>3, <4>1, CommonPrefixFacts
      <4>3. CASE CpLen(mid, q) = n
        <5>1. SubSeq(mid, 1, n) = mid
          BY <2>3, SubSeqFull
        <5> QED
          BY <2>4, <4>3, <5>1
      <4>4. CASE CpLen(mid, q) < n
        <5>1. /\ CpLen(child, q) = CpLen(mid, q)
              /\ SubSeq(child, 1, CpLen(mid, q)) = SubSeq(mid, 1, CpLen(mid, q))
          BY <2>3, <4>1, <4>4, CpThrough
        <5>2. SubSeq(child, 1, CpLen(child, q)) \in TreeNodes(T)
          BY <2>3, <2>8, <3>1, <5>1, BranchingMeans DEF TreeOK
        <5> QED
          BY <2>4, <5>1, <5>2
      <4> QED
        BY <2>3, <4>2, <4>3, <4>4
    <3>2. ASSUME NEW p \in TreeNodes(U), NEW q \in TreeNodes(U), CpLen(p, q) > 0
          PROVE  SubSeq(p, 1, CpLen(p, q)) \in TreeNodes(U)
      <4>1. CASE p = mid /\ q = mid
        <5>1. CpLen(mid, mid) \in 0..n /\ \A k \in Nat : Agree(mid, mid, k) => k <= CpLen(mid, mid)
          BY <2>3, CommonPrefixFacts
        <5>2. Agree(mid, mid, n)
          BY <2>3, AgreeTrivial
        <5>3. CpLen(mid, mid) = n
          BY <2>3, <5>1, <5>2
        <5>4. SubSeq(mid, 1, n) = mid
          BY <2>3, SubSeqFull
        <5> QED
          BY <2>4, <4>1, <5>3, <5>4
      <4>2. CASE p = mid /\ q # mid
        BY <2>4, <3>1, <3>2, <4>2
      <4>3. CASE p # mid /\ q = mid
        <5>1. p \in TreeNodes(T) /\ p \in Seq(Tokens)
          BY <2>4, <2>9, <4>3
        <5>2. CpLen(p, mid) = CpLen(mid, p) /\ SubSeq(p, 1, CpLen(mid, p)) = SubSeq(mid, 1, CpLen(mid, p))
          BY <2>3, <5>1, CpSym
        <5> QED
          BY <3>1, <3>2, <4>3, <5>1, <5>2
      <4>4. CASE p # mid /\ q # mid
        BY <2>4, <2>8, <3>2, <4>4, BranchingMeans DEF TreeOK
      <4> QED
        BY <4>1, <4>2, <4>3, <4>4
    <3> QED
      BY <2>8, <3>2, BranchingMeans
  <2>11. ParentLen(U, mid) = m
    <3>1. m # 0 => SubSeq(mid, 1, m) \in TreeNodes(U)
      <4>1. m \in 0..n
        BY <2>3, <2>6
      <4>2. Agree(mid, toks, m)
        BY <2>3, <4>1, AgreeFewer
      <4>3. SubSeq(mid, 1, m) = SubSeq(toks, 1, m)
        BY <2>3, <2>6, <4>2, SameStart
      <4> QED
        BY <2>4, <2>6, <4>3
    <3>2. ASSUME NEW q \in TreeNodes(U), Agree(q, mid, Len(q)), Len(q) < Len(mid) PROVE Len(q) <= m
      <4>1. q \in TreeNodes(T) /\ Len(q) \in Nat
        BY <2>4, <2>9, <3>2
      <4>2. Len(q) \in 0..n
        BY <2>3, <3>2, <4>1
      <4>3. Agree(mid, toks, Len(q))
        BY <2>3, <4>2, AgreeFewer
      <4>4. Agree(q, toks, Len(q))
        BY <3>2, <4>3, AgreeTrans
      <4> QED
        BY <2>6, <4>1, <4>4
    <3> QED
      BY <2>3, <2>6, <2>8, <3>1, <3>2, ParentIs
  <2>12. ParentLen(U, child) = n
    <3>1. SubSeq(child, 1, n) \in TreeNodes(U)
      <4>1. SubSeq(mid, 1, n) = mid
        BY <2>3, SubSeqFull
      <4>2. SubSeq(mid, 1, n) = SubSeq(child, 1, n)
        BY <2>3, SameStart
      <4> QED
        BY <2>4, <4>1, <4>2
    <3>2. ASSUME NEW q \in TreeNodes(U), Agree(q, child, Len(q)), Len(q) < Len(child) PROVE Len(q) <= n
      <4>1. CASE q = mid
        BY <2>3, <4>1
      <4>2. CASE q # mid
        <5>1. q \in TreeNodes(T) /\ Len(q) \in Nat
          BY <2>4, <2>9, <4>2
        <5>2. Len(q) <= m
          BY <2>3, <2>5, <2>8, <3>2, <5>1, ParentFacts
        <5> QED
          BY <2>3, <2>6, <5>1, <5>2
      <4> QED
        BY <4>1, <4>2
    <3>3. Len(child) > 0 /\ n < Len(child)
      BY <2>3
    <3> QED
      BY <2>3, <2>8, <3>1, <3>2, <3>3, ParentIs
  <2>13. ASSUME NEW p \in TreeNodes(T), p # child PROVE ParentLen(U, p) = ParentLen(T, p)
    <3>1. PICK k : k = ParentLen(T, p)
      OBVIOUS
    <3>2. p \in Seq(Tokens) /\ Len(p) \in Nat /\ Len(p) > 0 /\ p \in TreeNodes(U)
      BY <2>4, <2>9
    <3>3. /\ k \in 0..Len(p) - 1 /\ (k # 0 => SubSeq(p, 1, k) \in TreeNodes(T))
          /\ \A q \in TreeNodes(T) : Agree(q, p, Len(q)) /\ Len(q) < Len(p) => Len(q) <= k
      BY <2>8, <3>1, <3>2, ParentFacts
    <3>4. ASSUME NEW q \in TreeNodes(U), Agree(q, p, Len(q)), Len(q) < Len(p) PROVE Len(q) <= k
      <4>1. CASE q # mid
        BY <2>4, <3>3, <3>4, <4>1
      <4>2. CASE q = mid
        <5>1. Agree(child, p, Len(child))
          BY <2>3, <2>5, <3>4, <4>2
        <5>2. Len(child) # Len(p)
          BY <2>3, <2>13, <3>2, <5>1, AgreeFacts
        <5>3. Len(child) < Len(p)
          BY <2>3, <3>2, <5>1, <5>2 DEF Agree
        <5>4. Len(child) <= k
          BY <2>3, <3>3, <5>1, <5>3
        <5> QED
          BY <2>3, <3>2, <3>3, <4>2, <5>4
      <4> QED
        BY <4>1, <4>2
    <3>5. k \in Nat /\ k < Len(p)
      BY <3>2, <3>3
    <3>6. ParentLen(U, p) = k
      BY <2>4, <2>8, <3>2, <3>3, <3>4, <3>5, ParentIs
    <3> QED
      BY <3>1, <3>6
  <2>14. SizedNodes(U)
    <3> SUFFICES ASSUME NEW p \in TreeNodes(U) PROVE Len(U[p].bids) = CeilDiv(Len(p) - ParentLen(U, p))
      BY DEF SizedNodes, KeyLen
    <3>1. CASE p = mid
      <4>1. Len(SubSeq(old, 1, cut)) = cut
        BY <2>4, <2>7
      <4> QED
        BY <2>3, <2>4, <2>11, <3>1, <4>1
    <3>2. CASE p = child
      <4>1. PICK rest : rest = SubSeq(old, cut + 1, Len(old))
        OBVIOUS
      <4>2. rest \in Seq(Blocks) /\ Len(rest) = Len(old) - cut
        BY <2>4, <2>7, <4>1, RestOf
      <4>3. Len(extra \o rest) = Len(extra) + Len(rest)
        BY <4>2
      <4>4. PICK tail : tail = CeilDiv(Len(child) - n)
        OBVIOUS
      <4>5. tail \in Nat
        <5>1. Len(child) - n \in Nat
          BY <2>3
        <5> QED
          BY <4>4, <5>1, CeilFacts
      <4>6. Len(extra) + Len(rest) = tail
        <5>1. Len(extra) = cut + tail - Len(old)
          BY <2>4, <4>4
        <5>2. cut \in Nat /\ Len(old) \in Nat
          BY <2>4, <2>7
        <5> QED
          BY <4>2, <4>5, <5>1, <5>2
      <4> QED
        BY <2>4, <2>12, <3>2, <4>1, <4>3, <4>4, <4>6
    <3>3. CASE p # mid /\ p # child
      <4>1. p \in TreeNodes(T) /\ U[p].bids = T[p].bids
        BY <2>4, <3>3
      <4> QED
        BY <2>13, <3>3, <4>1 DEF TreeOK, SizedNodes, KeyLen
    <3> QED
      BY <3>1, <3>2, <3>3
  <2>15. BlocksOf(U) = BlocksOf(T) \cup ToSet(extra)
    <3>1. PICK first, rest : first = SubSeq(old, 1, cut) /\ rest = SubSeq(old, cut + 1, Len(old))
      OBVIOUS
    <3>2. first \in Seq(Blocks) /\ rest \in Seq(Blocks)
      BY <2>4, <2>7, <3>1, SMTT(40)
    <3>3. ToSet(first) \cup ToSet(rest) = ToSet(old)
      BY <2>4, <2>7, <3>1, ToSetParts
    <3>4. ToSet(extra \o rest) = ToSet(extra) \cup ToSet(rest)
      <4>1. 0 \in 0..Len(extra)
        OBVIOUS
      <4> QED
        BY <3>2, <4>1, ToSetParts
    <3>5. ToSet(U[mid].bids) = ToSet(first) /\ ToSet(U[child].bids) = ToSet(extra) \cup ToSet(rest)
      BY <2>4, <3>1, <3>4
    <3>6. ASSUME NEW b PROVE b \in BlocksOf(U) <=> b \in BlocksOf(T) \/ b \in ToSet(extra)
      <4>1. b \in BlocksOf(U) <=> \E p \in TreeNodes(U) : b \in ToSet(U[p].bids)
        BY DEF BlocksOf
      <4>2. b \in BlocksOf(T) <=> \E p \in TreeNodes(T) : b \in ToSet(T[p].bids)
        BY DEF BlocksOf
      <4>3. ASSUME NEW p \in TreeNodes(U), b \in ToSet(U[p].bids)
            PROVE  (\E q \in TreeNodes(T) : b \in ToSet(T[q].bids)) \/ b \in ToSet(extra)
        <5>1. CASE p = mid
          BY <2>2, <2>3, <3>3, <3>5, <4>3, <5>1
        <5>2. CASE p = child
          BY <2>2, <2>3, <3>3, <3>5, <4>3, <5>2
        <5>3. CASE p # mid /\ p # child
          BY <2>4, <4>3, <5>3
        <5> QED
          BY <5>1, <5>2, <5>3
      <4>4. ASSUME NEW q \in TreeNodes(T), b \in ToSet(T[q].bids)
            PROVE  \E p \in TreeNodes(U) : b \in ToSet(U[p].bids)
        <5>1. CASE q = child
          BY <2>2, <2>3, <2>4, <3>3, <3>5, <4>4, <5>1
        <5>2. CASE q # child
          BY <2>4, <4>4, <5>2
        <5> QED
          BY <5>1, <5>2
      <4>5. b \in ToSet(extra) => \E p \in TreeNodes(U) : b \in ToSet(U[p].bids)
        BY <2>3, <2>4, <3>5
      <4> QED
        BY <4>1, <4>2, <4>3, <4>4, <4>5
    <3> QED
      BY <3>6
  <2>16. SharedLen(U, toks) = n /\ MatchedLen(U, toks) = n
    <3>1. PICK x, y : x = SharedLen(U, toks) /\ y = MatchedLen(U, toks)
      OBVIOUS
    <3>2. /\ x \in 0..Len(toks) /\ y \in 0..Len(toks) /\ y <= x
          /\ x # 0 => \E p \in TreeNodes(U) : Agree(p, toks, x)
          /\ \A p \in TreeNodes(U) : Agree(p, toks, Len(p)) => Len(p) <= y
      BY <2>8, <3>1, SharedFacts, MatchedFacts
    <3>3. n <= y
      BY <2>3, <2>4, <3>2
    <3>4. x <= n
      <4>1. CASE x = 0
        BY <2>3, <4>1
      <4>2. CASE x # 0
        <5>1. PICK p \in TreeNodes(U) : Agree(p, toks, x)
          BY <3>2, <4>2
        <5>2. CASE p = mid
          BY <2>3, <5>1, <5>2 DEF Agree
        <5>3. CASE p # mid
          BY <2>2, <2>4, <2>8, <3>2, <5>1, <5>3, SharedFacts
        <5> QED
          BY <5>2, <5>3
      <4> QED
        BY <4>1, <4>2
    <3> QED
      BY <2>3, <3>1, <3>2, <3>3, <3>4
  <2> QED
    BY <2>2, <2>8, <2>10, <2>14, <2>15, <2>16 DEF TreeOK
<1> QED
  BY <1>1, <1>2

(* The tree after a leaf for toks was added.                                 *)
LeafTree(U, W, toks, bids) ==
  IF bids = <<>> THEN W = U
  ELSE /\ toks \notin TreeNodes(U)
       /\ TreeNodes(W) = TreeNodes(U) \cup {toks}
       /\ W[toks].bids = bids
       /\ \A p \in TreeNodes(U) : W[p] = U[p]

(* The leaf for the rest of toks, below its deepest match, leaves a          *)
(* well-formed tree with its blocks as the only new ones.                    *)
LEMMA LeafOK ==
  ASSUME NEW U, TreeOK(U), NEW toks \in Seq(Tokens), Len(toks) > 0,
         MatchedLen(U, toks) = SharedLen(U, toks),
         NEW bids \in Seq(Blocks), Len(bids) = CeilDiv(Len(toks) - SharedLen(U, toks)), NEW t \in Nat,
         NEW W, W = AddLeaf(U, toks, bids, t)
  PROVE  /\ TreeOK(W) /\ BlocksOf(W) = BlocksOf(U) \cup ToSet(bids)
         /\ LeafTree(U, W, toks, bids)
<1>1. CASE bids = <<>>
  <2>1. W = U
    BY <1>1 DEF AddLeaf
  <2>2. ToSet(bids) = {}
    BY <1>1, ToSetEmpty
  <2> QED
    BY <1>1, <2>1, <2>2 DEF LeafTree
<1>2. CASE bids # <<>>
  <2>1. PICK n : n = SharedLen(U, toks)
    OBVIOUS
  <2>2. IsTree(U)
    BY DEF TreeOK
  <2>3. /\ n \in 0..Len(toks) /\ (n # 0 => SubSeq(toks, 1, n) \in TreeNodes(U))
        /\ \A p \in TreeNodes(U) : Agree(p, toks, Len(p)) => Len(p) <= n
        /\ \A p \in TreeNodes(U) : \A k \in Nat : Agree(p, toks, k) => k <= n
    BY <2>1, <2>2, MatchedFacts, SharedFacts
  <2>4. n \in Nat /\ Len(toks) \in Nat /\ n < Len(toks)
    <3>1. n \in Nat /\ Len(toks) \in Nat /\ n <= Len(toks)
      BY <2>3
    <3>2. Len(bids) # 0
      BY <1>2
    <3>3. Len(toks) - n # 0
      <4>1. Len(toks) - n \in Nat
        BY <3>1
      <4>2. CeilDiv(Len(toks) - n) # 0
        BY <2>1, <3>2
      <4> QED
        BY <4>1, <4>2, CeilZero
    <3> QED
      BY <3>1, <3>3
  <2>5. ASSUME NEW p \in TreeNodes(U) PROVE ~Agree(toks, p, Len(toks))
    <3> SUFFICES ASSUME Agree(toks, p, Len(toks)) PROVE FALSE
      OBVIOUS
    <3>1. Agree(p, toks, Len(toks))
      BY AgreeSym
    <3>2. Len(toks) <= n
      BY <2>3, <2>4, <3>1
    <3> QED
      BY <2>4, <3>2
  <2>6. toks \notin TreeNodes(U)
    BY <2>5, AgreeTrivial
  <2>7. W = [p \in TreeNodes(U) \cup {toks} |->
               IF p = toks THEN [bids |-> bids, last |-> t] ELSE U[p]]
    BY <1>2 DEF AddLeaf
  <2>8. /\ TreeNodes(W) = TreeNodes(U) \cup {toks} /\ W[toks] = [bids |-> bids, last |-> t]
        /\ \A p \in TreeNodes(U) : W[p] = U[p]
    BY <2>6, <2>7 DEF TreeNodes
  <2>9. IsTree(W)
    <3>1. \A p \in TreeNodes(U) : U[p] \in [bids : Seq(Blocks), last : Nat]
      BY <2>2 DEF IsTree
    <3>2. \A p \in TreeNodes(W) : W[p] \in [bids : Seq(Blocks), last : Nat]
      BY <2>8, <3>1
    <3>3. W = [p \in TreeNodes(W) |-> W[p]]
      BY <2>7, <2>8
    <3>4. W \in [TreeNodes(W) -> [bids : Seq(Blocks), last : Nat]]
      BY <3>2, <3>3
    <3>5. TreeNodes(W) \subseteq Seq(Tokens) \ {<<>>}
      <4>1. toks # <<>>
        BY <2>4
      <4> QED
        BY <2>2, <2>8, <4>1 DEF IsTree
    <3>6. IsFiniteSet(TreeNodes(W))
      <4>1. PICK N : N = TreeNodes(U)
        OBVIOUS
      <4>2. IsFiniteSet(N)
        BY <2>2, <4>1 DEF IsTree
      <4> QED
        BY <2>8, <4>1, <4>2, FS_AddElement
    <3> QED
      BY <3>4, <3>5, <3>6 DEF IsTree
  <2>10. \A p \in TreeNodes(W) : p \in Seq(Tokens) /\ Len(p) \in Nat /\ Len(p) > 0
    BY <2>9, NodeFacts
  <2>11. Branching(W)
    <3>1. ASSUME NEW q \in TreeNodes(U), CpLen(toks, q) > 0
          PROVE  SubSeq(toks, 1, CpLen(toks, q)) \in TreeNodes(W)
      <4>1. q \in Seq(Tokens)
        BY <2>8, <2>10
      <4>2. PICK c : c = CpLen(toks, q)
        OBVIOUS
      <4>3. c \in 0..Len(toks) /\ Agree(toks, q, c) /\ c > 0 /\ c \in Nat
        <5>1. c \in 0..Len(toks) /\ Agree(toks, q, c)
          BY <4>1, <4>2, CommonPrefixFacts
        <5> QED
          BY <2>4, <3>1, <4>2, <5>1
      <4>4. c <= n
        <5>1. Agree(q, toks, c)
          BY <4>3, AgreeSym
        <5> QED
          BY <2>3, <4>3, <5>1
      <4>5. CASE c = n
        BY <2>3, <2>8, <4>2, <4>3, <4>5
      <4>6. CASE c < n
        <5>1. PICK s : s = SubSeq(toks, 1, n)
          OBVIOUS
        <5>2. s \in TreeNodes(U) /\ s \in Seq(Tokens) /\ Agree(s, toks, n)
          BY <2>3, <4>3, <4>6, <5>1, FirstTokens
        <5>3. Agree(toks, s, n)
          BY <5>2, AgreeSym
        <5>4. CpLen(s, q) = c /\ SubSeq(s, 1, c) = SubSeq(toks, 1, c)
          BY <2>4, <4>1, <4>2, <4>6, <5>2, <5>3, CpThrough
        <5>5. SubSeq(s, 1, CpLen(s, q)) \in TreeNodes(U)
          BY <2>2, <4>3, <5>2, <5>4, BranchingMeans DEF TreeOK
        <5> QED
          BY <2>8, <4>2, <5>4, <5>5
      <4> QED
        BY <2>4, <4>3, <4>4, <4>5, <4>6
    <3>2. ASSUME NEW p \in TreeNodes(W), NEW q \in TreeNodes(W), CpLen(p, q) > 0
          PROVE  SubSeq(p, 1, CpLen(p, q)) \in TreeNodes(W)
      <4>1. CASE p = toks /\ q = toks
        <5>1. /\ CpLen(toks, toks) \in 0..Len(toks)
              /\ \A k \in Nat : Agree(toks, toks, k) => k <= CpLen(toks, toks)
          BY CommonPrefixFacts
        <5>2. Agree(toks, toks, Len(toks))
          BY AgreeTrivial
        <5>3. CpLen(toks, toks) = Len(toks)
          BY <2>4, <5>1, <5>2
        <5>4. SubSeq(toks, 1, Len(toks)) = toks
          BY SubSeqFull
        <5> QED
          BY <2>8, <4>1, <5>3, <5>4
      <4>2. CASE p = toks /\ q # toks
        BY <2>8, <3>1, <3>2, <4>2
      <4>3. CASE p # toks /\ q = toks
        <5>1. p \in TreeNodes(U) /\ p \in Seq(Tokens)
          BY <2>8, <2>10, <4>3
        <5>2. /\ CpLen(p, toks) = CpLen(toks, p)
              /\ SubSeq(p, 1, CpLen(toks, p)) = SubSeq(toks, 1, CpLen(toks, p))
          BY <5>1, CpSym
        <5> QED
          BY <3>1, <3>2, <4>3, <5>1, <5>2
      <4>4. CASE p # toks /\ q # toks
        BY <2>2, <2>8, <3>2, <4>4, BranchingMeans DEF TreeOK
      <4> QED
        BY <4>1, <4>2, <4>3, <4>4
    <3> QED
      BY <2>9, <3>2, BranchingMeans
  <2>12. ParentLen(W, toks) = n
    <3>1. n # 0 => SubSeq(toks, 1, n) \in TreeNodes(W)
      BY <2>3, <2>8
    <3>2. \A q \in TreeNodes(W) : Agree(q, toks, Len(q)) /\ Len(q) < Len(toks) => Len(q) <= n
      BY <2>3, <2>4, <2>8
    <3> QED
      BY <2>4, <2>9, <3>1, <3>2, ParentIs
  <2>13. ASSUME NEW p \in TreeNodes(U) PROVE ParentLen(W, p) = ParentLen(U, p)
    <3>1. p \in Seq(Tokens)
      BY <2>8, <2>10
    <3>2. ~IsStrictPrefix(toks, p)
      BY <2>5, <3>1, PrefixAgrees DEF IsStrictPrefix
    <3>3. {q \in TreeNodes(W) : IsStrictPrefix(q, p)} = {q \in TreeNodes(U) : IsStrictPrefix(q, p)}
      BY <2>8, <3>2
    <3> QED
      BY <3>3 DEF ParentLen
  <2>14. SizedNodes(W)
    <3>1. Len(W[toks].bids) = CeilDiv(Len(toks) - ParentLen(W, toks))
      BY <2>1, <2>8, <2>12
    <3>2. \A p \in TreeNodes(U) : Len(W[p].bids) = CeilDiv(Len(p) - ParentLen(W, p))
      BY <2>8, <2>13 DEF TreeOK, SizedNodes, KeyLen
    <3> QED
      BY <2>8, <3>1, <3>2 DEF SizedNodes, KeyLen
  <2>15. BlocksOf(W) = BlocksOf(U) \cup ToSet(bids)
    <3>1. W[toks].bids = bids
      BY <2>8
    <3> QED
      BY <2>8, <3>1 DEF BlocksOf
  <2> QED
    BY <1>2, <2>6, <2>8, <2>9, <2>11, <2>14, <2>15 DEF TreeOK, LeafTree
<1> QED
  BY <1>1, <1>2

-----------------------------------------------------------------------------
(* No block is owned twice.                                                  *)

(* OwnedOnce, position by position.                                          *)
LEMMA OwnedMeans ==
  ASSUME NEW T, IsTree(T)
  PROVE  OwnedOnce(T) <=>
           \A p, q \in TreeNodes(T) : \A i \in 1..Len(T[p].bids), j \in 1..Len(T[q].bids) :
             T[p].bids[i] = T[q].bids[j] => p = q /\ i = j
<1>1. \A p \in TreeNodes(T) : DOMAIN T[p].bids = 1..Len(T[p].bids)
  BY NodeFacts
<1>2. ASSUME OwnedOnce(T),
             NEW p \in TreeNodes(T), NEW q \in TreeNodes(T),
             NEW i \in 1..Len(T[p].bids), NEW j \in 1..Len(T[q].bids),
             T[p].bids[i] = T[q].bids[j]
      PROVE  p = q /\ i = j
  <2>1. T[p].bids[i] \in ToSet(T[p].bids) /\ T[q].bids[j] \in ToSet(T[q].bids)
    BY <1>1 DEF ToSet
  <2>2. p = q
    BY <1>2, <2>1 DEF OwnedOnce
  <2> QED
    BY <1>1, <1>2, <2>2 DEF OwnedOnce, IsInjective
<1>3. ASSUME \A p, q \in TreeNodes(T) : \A i \in 1..Len(T[p].bids), j \in 1..Len(T[q].bids) :
               T[p].bids[i] = T[q].bids[j] => p = q /\ i = j
      PROVE  OwnedOnce(T)
  <2>1. ASSUME NEW p \in TreeNodes(T) PROVE IsInjective(T[p].bids)
    BY <1>1, <1>3 DEF IsInjective
  <2>2. ASSUME NEW p \in TreeNodes(T), NEW q \in TreeNodes(T), p # q
        PROVE  ToSet(T[p].bids) \cap ToSet(T[q].bids) = {}
    BY <1>1, <1>3, <2>2, SMTT(40) DEF ToSet
  <2> QED
    BY <2>1, <2>2 DEF OwnedOnce
<1> QED
  BY <1>2, <1>3

(* Splitting an edge hands each of its blocks to one of the two halves; the  *)
(* extra block is new.                                                       *)
LEMMA SplitOwned ==
  ASSUME NEW T, TreeOK(T), OwnedOnce(T), NEW toks \in Seq(Tokens),
         NEW extra \in Seq(Blocks), Len(extra) = SplitMint(T, toks), NEW t \in Nat,
         IsInjective(extra), ToSet(extra) \cap BlocksOf(T) = {},
         NEW U, U = Split(T, toks, extra, t)
  PROVE  OwnedOnce(U)
<1>1. CASE ~NeedsSplit(T, toks)
  BY <1>1 DEF Split
<1>2. CASE NeedsSplit(T, toks)
  <2>1. PICK mid, child, cut :
          /\ SplitPoint(T, toks, SharedLen(T, toks), mid, child)
          /\ SplitTree(T, U, toks, extra, mid, child, cut) /\ IsTree(U)
    BY <1>2, SplitShape
  <2>2. PICK old : old = T[child].bids
    OBVIOUS
  <2>3. IsTree(T) /\ IsTree(U) /\ child \in TreeNodes(T) /\ mid \notin TreeNodes(T)
    BY <2>1 DEF TreeOK, SplitPoint
  <2>4. /\ TreeNodes(U) = TreeNodes(T) \cup {mid}
        /\ U[mid].bids = SubSeq(old, 1, cut)
        /\ U[child].bids = extra \o SubSeq(old, cut + 1, Len(old))
        /\ \A p \in TreeNodes(T) : p # child => U[p].bids = T[p].bids
        /\ cut \in 0..Len(old)
    BY <2>1, <2>2 DEF SplitTree
  <2>5. old \in Seq(Blocks) /\ Len(old) \in Nat /\ cut \in Nat /\ Len(extra) \in Nat
    <3>1. old \in Seq(Blocks)
      BY <2>2, <2>3, NodeFacts
    <3>2. Len(old) \in Nat /\ Len(extra) \in Nat
      BY <3>1
    <3> QED
      BY <2>4, <3>1, <3>2
  <2>6. Len(U[mid].bids) = cut /\ \A i \in 1..cut : U[mid].bids[i] = old[i]
    BY <2>4, <2>5
  <2>7. /\ Len(U[child].bids) = Len(extra) + (Len(old) - cut)
        /\ \A i \in 1..Len(U[child].bids) :
             U[child].bids[i] = IF i <= Len(extra) THEN extra[i] ELSE old[i - Len(extra) + cut]
    <3>1. PICK rest : rest = SubSeq(old, cut + 1, Len(old))
      OBVIOUS
    <3>2. /\ rest \in Seq(Blocks) /\ Len(rest) = Len(old) - cut
          /\ \A i \in 1..Len(old) - cut : rest[i] = old[i + cut]
      <4>1. old \in Seq(Blocks) /\ cut \in 0..Len(old)
        BY <2>4, <2>5
      <4> QED
        BY ONLY <3>1, <4>1, RestOf
    <3>3. /\ Len(extra \o rest) = Len(extra) + Len(rest)
          /\ \A i \in 1..Len(extra) + Len(rest) :
               (extra \o rest)[i] = IF i <= Len(extra) THEN extra[i] ELSE rest[i - Len(extra)]
      BY <3>2, ConcatProperties
    <3>4. PICK both : both = extra \o rest
      OBVIOUS
    <3>5. /\ Len(both) = Len(extra) + (Len(old) - cut)
          /\ \A i \in 1..Len(both) :
               both[i] = IF i <= Len(extra) THEN extra[i] ELSE old[i - Len(extra) + cut]
      <4>1. Len(both) = Len(extra) + (Len(old) - cut)
        BY <3>2, <3>3, <3>4
      <4>2. ASSUME NEW i \in 1..Len(both), ~(i <= Len(extra))
            PROVE  both[i] = old[i - Len(extra) + cut]
        <5>1. i - Len(extra) \in 1..Len(old) - cut
          BY <2>4, <2>5, <4>1, <4>2
        <5> QED
          BY <3>2, <3>3, <3>4, <4>1, <4>2, <5>1
      <4>3. ASSUME NEW i \in 1..Len(both), i <= Len(extra) PROVE both[i] = extra[i]
        BY <3>2, <3>3, <3>4, <4>1, <4>3
      <4> QED
        BY <4>1, <4>2, <4>3
    <3> QED
      BY <2>4, <3>1, <3>4, <3>5
  <2> DEFINE New(p, i) == p = child /\ i <= Len(extra)
             From(p, i, x, k) ==
               /\ x \in TreeNodes(T) /\ k \in 1..Len(T[x].bids) /\ U[p].bids[i] = T[x].bids[k]
               /\ p = mid => x = child /\ k = i /\ k <= cut
               /\ p = child => x = child /\ k = i - Len(extra) + cut /\ k > cut
               /\ p \notin {mid, child} => x = p /\ k = i
  <2>8. ASSUME NEW p \in TreeNodes(U), NEW i \in 1..Len(U[p].bids), ~New(p, i)
        PROVE  \E x, k : From(p, i, x, k)
    <3>1. CASE p = mid
      <4>1. From(p, i, child, i)
        BY <2>2, <2>3, <2>4, <2>5, <2>6, <3>1
      <4> QED
        BY <4>1
    <3>2. CASE p = child
      <4>1. PICK k : k = i - Len(extra) + cut
        OBVIOUS
      <4>2. k \in 1..Len(old) /\ k > cut /\ U[p].bids[i] = old[k]
        <5>1. i \in 1..Len(extra) + (Len(old) - cut) /\ ~(i <= Len(extra))
          BY <2>7, <2>8, <3>2
        <5>2. k \in 1..Len(old) /\ k > cut
          BY <2>4, <2>5, <4>1, <5>1, SMTT(40)
        <5> QED
          BY <2>7, <3>2, <4>1, <5>1, <5>2
      <4>3. From(p, i, child, k)
        BY <2>2, <2>3, <3>2, <4>1, <4>2
      <4> QED
        BY <4>3
    <3>3. CASE p \notin {mid, child}
      <4>1. p \in TreeNodes(T) /\ U[p].bids = T[p].bids
        BY <2>4, <3>3
      <4>2. From(p, i, p, i)
        BY <3>3, <4>1
      <4> QED
        BY <4>2
    <3> QED
      BY <3>1, <3>2, <3>3
  <2>9. ASSUME NEW p \in TreeNodes(U), NEW i \in 1..Len(U[p].bids), New(p, i)
        PROVE  i \in 1..Len(extra) /\ U[p].bids[i] = extra[i] /\ U[p].bids[i] \in ToSet(extra)
    <3>1. i \in 1..Len(extra) /\ U[p].bids[i] = extra[i]
      BY <2>5, <2>7, <2>9
    <3>2. DOMAIN extra = 1..Len(extra)
      OBVIOUS
    <3> QED
      BY <3>1, <3>2 DEF ToSet
  <2>10. ASSUME NEW p \in TreeNodes(U), NEW i \in 1..Len(U[p].bids), ~New(p, i)
         PROVE  U[p].bids[i] \in BlocksOf(T)
    <3>1. PICK x, k : From(p, i, x, k)
      BY <2>8, <2>10
    <3>2. T[x].bids[k] \in ToSet(T[x].bids)
      BY <2>3, <3>1, NodeFacts DEF ToSet
    <3> QED
      BY <3>1, <3>2 DEF BlocksOf
  <2>11. ASSUME NEW p \in TreeNodes(U), NEW q \in TreeNodes(U),
                NEW i \in 1..Len(U[p].bids), NEW j \in 1..Len(U[q].bids),
                U[p].bids[i] = U[q].bids[j]
         PROVE  p = q /\ i = j
    <3>1. New(p, i) <=> New(q, j)
      <4> HIDE DEF New
      <4> QED
        BY <2>9, <2>10, <2>11
    <3>2. CASE New(p, i)
      <4>1. i \in 1..Len(extra) /\ j \in 1..Len(extra) /\ extra[i] = extra[j] /\ p = q
        BY <2>9, <2>11, <3>1, <3>2
      <4>2. DOMAIN extra = 1..Len(extra)
        OBVIOUS
      <4> QED
        BY <4>1, <4>2 DEF IsInjective
    <3>3. CASE ~New(p, i)
      <4>1. PICK x, k : From(p, i, x, k)
        BY <2>8, <3>3
      <4>2. PICK y, l : From(q, j, y, l)
        BY <2>8, <3>1, <3>3
      <4>3. x = y /\ k = l
        <5>1. \A v, w \in TreeNodes(T) : \A a \in 1..Len(T[v].bids), b \in 1..Len(T[w].bids) :
                T[v].bids[a] = T[w].bids[b] => v = w /\ a = b
          <6>1. IsTree(T) /\ OwnedOnce(T)
            BY <2>3
          <6> QED
            BY ONLY <6>1, OwnedMeans
        <5>2. /\ x \in TreeNodes(T) /\ k \in 1..Len(T[x].bids)
              /\ y \in TreeNodes(T) /\ l \in 1..Len(T[y].bids)
              /\ T[x].bids[k] = T[y].bids[l]
          BY <2>11, <4>1, <4>2
        <5> QED
          BY ONLY <5>1, <5>2
      <4>4. i \in Nat /\ j \in Nat
        <5>1. U[p].bids \in Seq(Blocks) /\ U[q].bids \in Seq(Blocks)
          BY <2>3, NodeFacts
        <5> QED
          BY <5>1
      <4>5. p = q
        BY <2>3, <2>5, <4>1, <4>2, <4>3, <4>4
      <4> QED
        BY <2>5, <4>1, <4>2, <4>3, <4>4, <4>5
    <3> QED
      BY <3>2, <3>3
  <2>12. \A p, q \in TreeNodes(U) : \A i \in 1..Len(U[p].bids), j \in 1..Len(U[q].bids) :
           U[p].bids[i] = U[q].bids[j] => p = q /\ i = j
    BY <2>11
  <2>13. IsTree(U)
    BY <2>3
  <2> QED
    BY ONLY <2>12, <2>13, OwnedMeans
<1> QED
  BY <1>1, <1>2

(* The blocks of a new leaf are new.                                         *)
LEMMA LeafOwned ==
  ASSUME NEW U, IsTree(U), OwnedOnce(U), NEW W, NEW toks, NEW bids,
         LeafTree(U, W, toks, bids), IsInjective(bids), ToSet(bids) \cap BlocksOf(U) = {}
  PROVE  OwnedOnce(W)
<1>1. CASE bids = <<>>
  BY <1>1 DEF LeafTree
<1>2. CASE bids # <<>>
  <2>1. /\ toks \notin TreeNodes(U) /\ TreeNodes(W) = TreeNodes(U) \cup {toks}
        /\ W[toks].bids = bids /\ \A p \in TreeNodes(U) : W[p] = U[p]
    BY <1>2 DEF LeafTree
  <2>2. \A p \in TreeNodes(W) : IsInjective(W[p].bids)
    BY <2>1 DEF OwnedOnce
  <2>3. \A p \in TreeNodes(U) : ToSet(U[p].bids) \subseteq BlocksOf(U)
    BY DEF BlocksOf
  <2>4. ASSUME NEW p \in TreeNodes(W), NEW q \in TreeNodes(W), p # q
        PROVE  ToSet(W[p].bids) \cap ToSet(W[q].bids) = {}
    <3>1. CASE p = toks
      BY <2>1, <2>3, <2>4, <3>1
    <3>2. CASE q = toks
      BY <2>1, <2>3, <2>4, <3>2
    <3>3. CASE p # toks /\ q # toks
      BY <2>1, <2>4, <3>3 DEF OwnedOnce
    <3> QED
      BY <3>1, <3>2, <3>3
  <2> QED
    BY <2>2, <2>4 DEF OwnedOnce
<1> QED
  BY <1>1, <1>2

(* What insert computes does not depend on time stamps.                      *)
LEMMA SameBlocksSame ==
  ASSUME NEW T, IsTree(T), NEW U, SameBlocks(T, U), NEW toks \in Seq(Tokens)
  PROVE  /\ MatchedLen(U, toks) = MatchedLen(T, toks) /\ SharedLen(U, toks) = SharedLen(T, toks)
         /\ NeedsSplit(U, toks) <=> NeedsSplit(T, toks)
         /\ SplitMint(U, toks) = SplitMint(T, toks) /\ LeafMint(U, toks) = LeafMint(T, toks)
         /\ OwnedOnce(U) <=> OwnedOnce(T)
<1>1. MatchedLen(U, toks) = MatchedLen(T, toks) /\ SharedLen(U, toks) = SharedLen(T, toks)
  BY DEF SameBlocks, MatchedLen, SharedLen
<1>2. NeedsSplit(U, toks) <=> NeedsSplit(T, toks)
  BY <1>1 DEF NeedsSplit
<1>3. \A s : Subtree(U, s) = Subtree(T, s)
  BY DEF SameBlocks, Subtree
<1>4. SplitChild(U, toks) = SplitChild(T, toks)
  BY <1>1, <1>3 DEF SplitChild
<1>5. SplitMint(U, toks) = SplitMint(T, toks)
  <2>1. CASE NeedsSplit(T, toks)
    <3>1. PICK child : child = SplitChild(T, toks)
      OBVIOUS
    <3>2. SplitPoint(T, toks, SharedLen(T, toks), SubSeq(toks, 1, SharedLen(T, toks)), child)
      BY <2>1, <3>1, SplitFacts
    <3>3. U[child].bids = T[child].bids
      BY <3>2 DEF SplitPoint, SameBlocks
    <3> QED
      BY <1>1, <1>2, <1>4, <2>1, <3>1, <3>3 DEF SplitMint
  <2>2. CASE ~NeedsSplit(T, toks)
    BY <1>2, <2>2 DEF SplitMint
  <2> QED
    BY <2>1, <2>2
<1>6. LeafMint(U, toks) = LeafMint(T, toks)
  BY <1>1 DEF LeafMint
<1>7. OwnedOnce(U) <=> OwnedOnce(T)
  BY DEF SameBlocks, OwnedOnce
<1> QED
  BY <1>1, <1>2, <1>5, <1>6, <1>7

(* u and v are the two parts of a sequence of n distinct ids.                *)
CutIds(A, n, x, ids, u, v) ==
  /\ u \in Seq(A) /\ Len(u) = x /\ IsInjective(u)
  /\ v \in Seq(A) /\ Len(v) = n - x /\ IsInjective(v)
  /\ ToSet(u) \cup ToSet(v) = ToSet(ids) /\ ToSet(u) \cap ToSet(v) = {}
  /\ x = n => ToSet(u) = ToSet(ids)

(* The ids for the split and those for the leaf.                             *)
LEMMA IdParts ==
  ASSUME NEW A, NEW n \in Nat, NEW x \in 0..n, NEW ids \in [1..n -> A], IsInjective(ids),
         NEW u, u = SubSeq(ids, 1, x), NEW v, v = SubSeq(ids, x + 1, n)
  PROVE  CutIds(A, n, x, ids, u, v)
<1>1. ids \in Seq(A) /\ Len(ids) = n /\ DOMAIN ids = 1..n
  OBVIOUS
<1>2. x \in Nat /\ x <= n
  OBVIOUS
<1>3. u \in Seq(A) /\ Len(u) = x /\ DOMAIN u = 1..x /\ \A i \in 1..x : u[i] = ids[i]
  BY <1>1, <1>2
<1>4. v \in Seq(A) /\ Len(v) = n - x /\ DOMAIN v = 1..n - x /\ \A i \in 1..n - x : v[i] = ids[x + i]
  BY <1>1, <1>2
<1>5. IsInjective(u)
  BY <1>1, <1>2, <1>3 DEF IsInjective
<1>6. IsInjective(v)
  <2> SUFFICES ASSUME NEW i \in 1..n - x, NEW j \in 1..n - x, v[i] = v[j] PROVE i = j
    BY <1>4 DEF IsInjective
  <2>1. x + i \in 1..n /\ x + j \in 1..n /\ ids[x + i] = ids[x + j]
    BY <1>2, <1>4
  <2>2. x + i = x + j
    BY <1>1, <2>1 DEF IsInjective
  <2> QED
    BY <1>2, <2>2
<1>7. ToSet(u) \cup ToSet(v) = ToSet(ids)
  BY <1>1, <1>2, ToSetParts
<1>8. ToSet(u) \cap ToSet(v) = {}
  <2> SUFFICES ASSUME NEW b \in ToSet(u), b \in ToSet(v) PROVE FALSE
    OBVIOUS
  <2>0. PICK i \in 1..x, j \in 1..n - x : u[i] = b /\ v[j] = b
    BY <1>3, <1>4 DEF ToSet
  <2>1. i \in 1..n /\ x + j \in 1..n /\ ids[i] = ids[x + j]
    BY <1>2, <1>3, <1>4, <2>0
  <2>2. i = x + j
    BY <1>1, <2>1 DEF IsInjective
  <2> QED
    BY <1>2, <2>2
<1>9. ASSUME x = n PROVE ToSet(u) = ToSet(ids)
  BY <1>1, <1>3, <1>9, ZenonT(40) DEF ToSet
<1> QED
  BY <1>3, <1>4, <1>5, <1>6, <1>7, <1>8, <1>9 DEF CutIds

(* How many blocks insert mints.                                             *)
LEMMA MintFacts ==
  ASSUME NEW T, IsTree(T), NEW toks \in Seq(Tokens)
  PROVE  /\ SplitMint(T, toks) \in Nat
         /\ LeafMint(T, toks) \in Nat
         /\ LeafMint(T, toks) = CeilDiv(Len(toks) - SharedLen(T, toks))
<1>1. SplitMint(T, toks) \in Nat
  BY DEF SplitMint
<1>2. Len(toks) - SharedLen(T, toks) \in Nat
  BY SharedFacts
<1>3. LeafMint(T, toks) = CeilDiv(Len(toks) - SharedLen(T, toks))
  BY DEF LeafMint, NBlocks
<1> QED
  BY <1>1, <1>2, <1>3, CeilFacts

(* insert as a whole, up to the split (V) and with the leaf (W).             *)
LEMMA InsertOK ==
  ASSUME NEW T, TreeOK(T), OwnedOnce(T), NEW toks \in Seq(Tokens), Len(toks) > 0, NEW t \in Nat,
         NEW x, x = SplitMint(T, toks), NEW n \in Nat, n = x \/ n = x + LeafMint(T, toks),
         NEW ids \in [1..n -> Blocks], IsInjective(ids), ToSet(ids) \cap BlocksOf(T) = {},
         NEW V, V = Split(Touch(T, toks, t), toks, SubSeq(ids, 1, x), t),
         NEW W, W = AddLeaf(V, toks, SubSeq(ids, x + 1, n), t)
  PROVE  /\ TreeOK(V) /\ OwnedOnce(V)
         /\ n = x => BlocksOf(V) = BlocksOf(T) \cup ToSet(ids)
         /\ n = x + LeafMint(T, toks) =>
              TreeOK(W) /\ OwnedOnce(W) /\ BlocksOf(W) = BlocksOf(T) \cup ToSet(ids)
<1>1. PICK P, u, v, l : /\ P = Touch(T, toks, t) /\ u = SubSeq(ids, 1, x) /\ v = SubSeq(ids, x + 1, n)
                        /\ l = LeafMint(T, toks)
  OBVIOUS
<1>2. IsTree(T) /\ IsTree(P) /\ SameBlocks(T, P)
  BY <1>1, TouchSame DEF TreeOK
<1>3. TreeOK(P) /\ BlocksOf(P) = BlocksOf(T)
  BY <1>2, SameBlocksOK
<1>4. SplitMint(P, toks) = x /\ SharedLen(P, toks) = SharedLen(T, toks) /\ OwnedOnce(P)
  BY <1>2, SameBlocksSame
<1>5. x \in Nat /\ l \in Nat /\ l = CeilDiv(Len(toks) - SharedLen(T, toks))
  BY <1>1, <1>2, MintFacts
<1>6. x \in 0..n
  BY <1>1, <1>5
<1>7. /\ u \in Seq(Blocks) /\ Len(u) = x /\ IsInjective(u)
      /\ v \in Seq(Blocks) /\ Len(v) = n - x /\ IsInjective(v)
      /\ ToSet(u) \cup ToSet(v) = ToSet(ids) /\ ToSet(u) \cap ToSet(v) = {}
      /\ x = n => ToSet(u) = ToSet(ids)
  <2>1. CutIds(Blocks, n, x, ids, u, v)
    BY <1>1, <1>6, IdParts
  <2> QED
    BY <2>1 DEF CutIds
<1>8. V = Split(P, toks, u, t)
  BY <1>1
<1>9. /\ TreeOK(V) /\ BlocksOf(V) = BlocksOf(P) \cup ToSet(u)
      /\ MatchedLen(V, toks) = SharedLen(P, toks) /\ SharedLen(V, toks) = SharedLen(P, toks)
  BY <1>3, <1>4, <1>7, <1>8, SplitOK
<1>10. OwnedOnce(V)
  <2>1. ToSet(u) \cap BlocksOf(P) = {}
    BY <1>3, <1>7
  <2> QED
    BY <1>3, <1>4, <1>7, <1>8, <2>1, SplitOwned
<1>11. ASSUME n = x + l
       PROVE  TreeOK(W) /\ OwnedOnce(W) /\ BlocksOf(W) = BlocksOf(T) \cup ToSet(ids)
  <2>1. Len(v) = CeilDiv(Len(toks) - SharedLen(V, toks))
    BY <1>4, <1>5, <1>7, <1>9, <1>11
  <2>2. W = AddLeaf(V, toks, v, t)
    BY <1>1
  <2>3. /\ TreeOK(W) /\ BlocksOf(W) = BlocksOf(V) \cup ToSet(v) /\ LeafTree(V, W, toks, v)
    BY <1>7, <1>9, <2>1, <2>2, LeafOK
  <2>4. ToSet(v) \cap BlocksOf(V) = {}
    BY <1>3, <1>7, <1>9
  <2>5. OwnedOnce(W)
    BY <1>7, <1>9, <1>10, <2>3, <2>4, LeafOwned DEF TreeOK
  <2> QED
    BY <1>3, <1>7, <1>9, <2>3, <2>5
<1>12. n = x => BlocksOf(V) = BlocksOf(T) \cup ToSet(ids)
  BY <1>3, <1>7, <1>9
<1> QED
  BY <1>1, <1>9, <1>10, <1>11, <1>12

(* While enough ids are unused, FreshIds finds distinct ones.                *)
LEMMA FreshFacts ==
  ASSUME NEW n \in Nat, n <= Cardinality(UnusedIds)
  PROVE  FreshIds(n) \in [1..n -> UnusedIds] /\ IsInjective(FreshIds(n))
<1>1. PICK S : S = UnusedIds
  OBVIOUS
<1>2. IsFiniteSet(S)
  BY <1>1, PoolAssumption, FS_Subset DEF UnusedIds
<1>3. PICK c : c = Cardinality(S)
  OBVIOUS
<1>4. c \in Nat /\ n <= c /\ ExistsBijection(1..c, S)
  BY <1>1, <1>2, <1>3, FS_CardinalityType
<1>5. PICK f : f \in Bijection(1..c, S)
  BY <1>4 DEF ExistsBijection
<1>6. f \in [1..c -> S] /\ \A i, j \in 1..c : f[i] = f[j] => i = j
  BY <1>5 DEF Bijection, Injection, IsInjective
<1> DEFINE g == [i \in 1..n |-> f[i]]
<1>7. g \in [1..n -> S] /\ IsInjective(g)
  BY <1>4, <1>6 DEF IsInjective
<1> HIDE DEF g
<1>8. \E ids \in [1..n -> S] : IsInjective(ids)
  BY <1>7
<1> QED
  BY <1>1, <1>8 DEF FreshIds

-----------------------------------------------------------------------------
(* The tree of the cache manager.                                            *)

(* A well-formed tree that owns the blocks of A.                             *)
GoodTree(T, A) == TreeOK(T) /\ OwnedOnce(T) /\ A \subseteq BlocksOf(T)

(* Its time stamps are not after n, or just after it (demote_lru).           *)
Stamped(T, n) == \A p \in TreeNodes(T) : T[p].last <= n + 1

TreeInv == now \in Nat /\ GoodTree(tree, Alive)
StampInv == Stamped(tree, now)

(* The frame of the running call, and the tables.                            *)
FrameInv ==
  /\ call.pc \in {"idle", "admit", "evict", "demote", "rematch", "unwind", "crashed"}
  /\ call.retained \in Seq(Blocks) /\ call.victims \in Seq(Blocks)
  /\ call.pc \notin {"idle", "crashed"} => call.toks \in Seq(Tokens) /\ Len(call.toks) > 0
  /\ call.pc = "demote" => call.victims # <<>>
  /\ \A r \in Requests : tables[r].bids \in Seq(Blocks) /\ tables[r].active \in BOOLEAN

(* New time stamps do no harm.                                               *)
LEMMA RestampGood ==
  ASSUME NEW T, NEW A, GoodTree(T, A), NEW U, IsTree(U), SameBlocks(T, U)
  PROVE  GoodTree(U, A)
<1>1. TreeOK(U) /\ BlocksOf(U) = BlocksOf(T)
  BY SameBlocksOK DEF GoodTree
<1>2. OwnedOnce(U)
  BY DEF SameBlocks, OwnedOnce, GoodTree
<1> QED
  BY <1>1, <1>2 DEF GoodTree

(* The walk of a match stamps nodes with the present time.                   *)
LEMMA TouchGood ==
  ASSUME NEW T, NEW n \in Nat, NEW A, GoodTree(T, A), NEW toks, NEW U, U = Touch(T, toks, n)
  PROVE  GoodTree(U, A) /\ SameBlocks(T, U) /\ (Stamped(T, n) => Stamped(U, n))
<1>1. IsTree(U) /\ SameBlocks(T, U)
  BY TouchSame DEF GoodTree, TreeOK
<1>2. ASSUME Stamped(T, n), NEW p \in TreeNodes(U) PROVE U[p].last <= n + 1
  <2>1. p \in TreeNodes(T) /\ T[p].last \in Nat /\ T[p].last <= n + 1
        /\ T[p] = [bids |-> T[p].bids, last |-> T[p].last]
    BY <1>1, <1>2, NodeFacts DEF SameBlocks, GoodTree, TreeOK, Stamped
  <2>2. U[p] = IF IsPrefix(p, toks) THEN [T[p] EXCEPT !.last = n] ELSE T[p]
    BY <2>1 DEF Touch
  <2>3. U[p].last = n \/ U[p].last = T[p].last
    BY <2>1, <2>2
  <2> QED
    BY <2>1, <2>3
<1> QED
  BY <1>1, <1>2, RestampGood DEF Stamped

(* A removal takes nodes with everything below them, and no live block.      *)
LEMMA RemoveGood ==
  ASSUME NEW T, NEW A, GoodTree(T, A),
         NEW gone, gone \subseteq TreeNodes(T), Severable(T, gone),
         NEW B, B \subseteq A, \A p \in gone : ToSet(T[p].bids) \cap B = {},
         NEW U, U = RemoveNodes(T, gone)
  PROVE  GoodTree(U, B) /\ \A n : Stamped(T, n) => Stamped(U, n)
<1>1. TreeOK(U) /\ TreeNodes(U) = TreeNodes(T) \ gone /\ \A p \in TreeNodes(T) \ gone : U[p] = T[p]
  BY RemoveOK DEF GoodTree
<1>2. OwnedOnce(U)
  BY <1>1 DEF OwnedOnce, GoodTree
<1>3. B \subseteq BlocksOf(U)
  <2> SUFFICES ASSUME NEW b \in B PROVE b \in BlocksOf(U)
    OBVIOUS
  <2>1. PICK p \in TreeNodes(T) : b \in ToSet(T[p].bids)
    BY DEF GoodTree, BlocksOf
  <2>2. p \in TreeNodes(U) /\ U[p] = T[p]
    BY <1>1, <2>1
  <2> QED
    BY <2>1, <2>2 DEF BlocksOf
<1> QED
  BY <1>1, <1>2, <1>3 DEF GoodTree, Stamped

(* A leaf has nothing below it.                                              *)
LEMMA LeavesSeverable ==
  ASSUME NEW T, NEW gone, gone \subseteq TreeNodes(T), \A p \in gone : IsLeaf(T, p)
  PROVE  Severable(T, gone)
BY DEF Severable, IsLeaf, Subtree

(* What is severed with a path has everything below it.                      *)
LEMMA SeveredSeverable ==
  ASSUME NEW T, IsTree(T), NEW toks, NEW A
  PROVE  SeveredNodes(T, toks, A) \subseteq TreeNodes(T) /\ Severable(T, SeveredNodes(T, toks, A))
<1>1. SeveredNodes(T, toks, A) \subseteq TreeNodes(T)
  BY DEF SeveredNodes, Subtree
<1>2. ASSUME NEW p \in SeveredNodes(T, toks, A), NEW q \in TreeNodes(T), IsPrefix(p, q)
      PROVE  q \in SeveredNodes(T, toks, A)
  <2>1. PICK d \in DeadOnPath(T, toks, A) : p \in TreeNodes(T) /\ IsPrefix(d, p)
    BY DEF SeveredNodes, Subtree
  <2>2. d \in TreeNodes(T)
    BY DEF DeadOnPath
  <2>3. d \in Seq(Tokens) /\ p \in Seq(Tokens) /\ q \in Seq(Tokens)
        /\ Len(d) \in Nat /\ Len(p) \in Nat /\ Len(q) \in Nat
    BY <2>1, <2>2, NodeFacts
  <2>4. Agree(d, p, Len(d)) /\ Agree(p, q, Len(p))
    BY <1>2, <2>1, <2>3, PrefixAgrees
  <2>5. Len(d) \in 0..Len(p)
    BY <2>3, <2>4 DEF Agree
  <2>6. Agree(p, q, Len(d))
    BY <2>3, <2>4, <2>5, AgreeFewer
  <2>7. Agree(d, q, Len(d))
    BY <2>4, <2>6, AgreeTrans
  <2>8. IsPrefix(d, q)
    BY <2>3, <2>7, PrefixAgrees
  <2> QED
    BY <2>8 DEF SeveredNodes, Subtree
<1> QED
  BY <1>1, <1>2 DEF Severable

(* The blocks of a prompt that are whole.                                    *)
LEMMA AlignedFacts ==
  ASSUME NEW toks \in Prompts, TotalBlocks(toks) > 0
  PROVE  /\ AlignedTokens(toks) \in Seq(Tokens) /\ Len(AlignedTokens(toks)) > 0
         /\ Len(AlignedTokens(toks)) = TotalBlocks(toks) * BlockSize
<1>1. toks \in Seq(Tokens) /\ Len(toks) \in Nat
  BY PromptIsSeq
<1>2. BlockSize \in Nat \ {0}
  BY BlockSizeAssumption
<1>3. PICK k : k = Len(toks) \div BlockSize
  OBVIOUS
<1>4. k \in Nat /\ k * BlockSize <= Len(toks) /\ k > 0
  BY <1>1, <1>2, <1>3, DivFacts DEF TotalBlocks
<1>5. k * BlockSize > 0 /\ k * BlockSize \in Nat
  BY <1>2, <1>4
<1>6. k * BlockSize \in 0..Len(toks)
  BY <1>1, <1>4, <1>5
<1>7. PICK m : m = k * BlockSize
  OBVIOUS
<1>8. SubSeq(toks, 1, m) \in Seq(Tokens) /\ Len(SubSeq(toks, 1, m)) = m
  BY <1>1, <1>6, <1>7, FirstTokens
<1> QED
  BY <1>3, <1>5, <1>7, <1>8 DEF AlignedTokens, TotalBlocks

-----------------------------------------------------------------------------
(* The blocks on the path of a prompt.                                       *)

(* The blocks of p if it is a node.                                          *)
Held(T, p) == IF p \in TreeNodes(T) THEN T[p].bids ELSE <<>>

(* f[n] are the blocks on the path of the first n tokens.                    *)
IsPath(f, T, toks) ==
  f = [n \in 0..Len(toks) |->
         IF n = 0 THEN <<>> ELSE f[n - 1] \o Held(T, SubSeq(toks, 1, n))]

(* The recursion of PathBlocks defines a function.                           *)
LEMMA PathExists ==
  ASSUME NEW T, NEW toks \in Seq(Tokens)
  PROVE  \E f : IsPath(f, T, toks) /\ PathBlocks(T, toks) = f[Len(toks)]
<1> DEFINE H(n) == Held(T, SubSeq(toks, 1, n))
           G(n, f) == f = [m \in 0..n |-> IF m = 0 THEN <<>> ELSE f[m - 1] \o H(m)]
           Good == {n \in Nat : \E f : G(n, f)}
<1>0. Len(toks) \in Nat
  OBVIOUS
<1> HIDE DEF H
<1>1. 0 \in Good
  <2> DEFINE f == [m \in 0..0 |-> <<>>]
  <2>1. G(0, f)
    OBVIOUS
  <2> QED
    BY <2>1
<1>2. ASSUME NEW n \in 1..Len(toks), n - 1 \in Good
      PROVE  n \in Good
  <2>1. n \in Nat /\ n # 0
    BY <1>0
  <2>2. PICK f : G(n - 1, f)
    BY <1>2
  <2> DEFINE g == [m \in 0..n |-> IF m = n THEN f[n - 1] \o H(n) ELSE f[m]]
  <2>3. ASSUME NEW m \in 0..n
        PROVE  g[m] = IF m = 0 THEN <<>> ELSE g[m - 1] \o H(m)
    <3>1. CASE m = n
      <4>1. n \in 0..n /\ n - 1 \in 0..n /\ n - 1 # n
        BY <2>1
      <4>2. g[n] = f[n - 1] \o H(n) /\ g[n - 1] = f[n - 1]
        BY <4>1
      <4> QED
        BY <2>1, <3>1, <4>2
    <3>2. CASE m # n
      <4>1. m \in 0..n - 1 /\ (m # 0 => m - 1 \in 0..n /\ m - 1 # n)
        BY <2>1, <3>2
      <4>2. f[m] = IF m = 0 THEN <<>> ELSE f[m - 1] \o H(m)
        BY <2>2, <4>1
      <4> QED
        BY <3>2, <4>1, <4>2
    <3> QED
      BY <3>1, <3>2
  <2>4. G(n, g)
    <3> DEFINE h == [m \in 0..n |-> IF m = 0 THEN <<>> ELSE g[m - 1] \o H(m)]
    <3>1. \A m \in 0..n : g[m] = h[m]
      BY <2>3
    <3> QED
      BY <3>1
  <2> QED
    BY <2>1, <2>4
<1>3. Len(toks) \in Good
  <2> HIDE DEF Good
  <2>1. \A n \in 0..Len(toks) : n \in Good
    BY <1>0, <1>1, <1>2, UpTo
  <2> QED
    BY <1>0, <2>1
<1>4. \E f : IsPath(f, T, toks)
  BY <1>3 DEF IsPath, H
<1> DEFINE c == CHOOSE f : IsPath(f, T, toks)
<1>5. IsPath(c, T, toks)
  BY <1>4
<1>6. PathBlocks(T, toks) = c[Len(toks)]
  BY DEF PathBlocks, IsPath, Held
<1> QED
  BY <1>5, <1>6

(* One step of the recursion.                                                *)
LEMMA PathStep ==
  ASSUME NEW T, IsTree(T), NEW toks \in Seq(Tokens), NEW f, IsPath(f, T, toks)
  PROVE  /\ f[0] = <<>>
         /\ \A n \in 1..Len(toks) : n - 1 \in 0..Len(toks)
              /\ f[n] = f[n - 1] \o Held(T, SubSeq(toks, 1, n))
         /\ \A n \in 1..Len(toks) : Held(T, SubSeq(toks, 1, n)) \in Seq(Blocks)
         /\ \A n \in 0..Len(toks) : f[n] \in Seq(Blocks)
<1>0. Len(toks) \in Nat
  OBVIOUS
<1>1. f[0] = <<>>
  BY <1>0 DEF IsPath
<1>2. ASSUME NEW n \in 1..Len(toks)
      PROVE  n - 1 \in 0..Len(toks) /\ f[n] = f[n - 1] \o Held(T, SubSeq(toks, 1, n))
  <2>1. n \in 0..Len(toks) /\ n # 0 /\ n - 1 \in 0..Len(toks)
    BY <1>0
  <2> QED
    BY <2>1 DEF IsPath
<1>3. ASSUME NEW n \in 1..Len(toks) PROVE Held(T, SubSeq(toks, 1, n)) \in Seq(Blocks)
  <2>1. <<>> \in Seq(Blocks)
    OBVIOUS
  <2>2. PICK p : p = SubSeq(toks, 1, n)
    OBVIOUS
  <2>3. p \in TreeNodes(T) => T[p].bids \in Seq(Blocks)
    BY NodeFacts
  <2> QED
    BY <2>1, <2>2, <2>3 DEF Held
<1> DEFINE G == {n \in 0..Len(toks) : f[n] \in Seq(Blocks)}
<1>4. 0 \in G
  <2>1. <<>> \in Seq(Blocks) /\ 0 \in 0..Len(toks)
    BY <1>0
  <2> QED
    BY <1>1, <2>1
<1>5. ASSUME NEW n \in 1..Len(toks), n - 1 \in G PROVE n \in G
  <2>1. n \in 0..Len(toks)
    BY <1>0
  <2>2. f[n - 1] \in Seq(Blocks)
    BY <1>5
  <2>3. PICK h : h = Held(T, SubSeq(toks, 1, n))
    OBVIOUS
  <2>4. f[n] = f[n - 1] \o h /\ h \in Seq(Blocks)
    BY <1>2, <1>3, <2>3
  <2>5. f[n] \in Seq(Blocks)
    BY <2>2, <2>4
  <2> QED
    BY <2>1, <2>5
<1> HIDE DEF G
<1>6. \A n \in 0..Len(toks) : n \in G
  BY <1>0, <1>4, <1>5, UpTo
<1> QED
  BY <1>1, <1>2, <1>3, <1>6 DEF G

(* The first K elements of a sequence.                                       *)
StartsWith(s, K, R) == K <= Len(s) /\ \A i \in 1..K : s[i] = R[i]

(* What a sequence starts with survives an append.                           *)
LEMMA StartsAppend ==
  ASSUME NEW A, NEW s \in Seq(A), NEW t \in Seq(A), NEW K \in Nat, NEW R, StartsWith(s, K, R)
  PROVE  StartsWith(s \o t, K, R)
<1>1. s \o t \in Seq(A) /\ Len(s \o t) = Len(s) + Len(t) /\ Len(s) \in Nat /\ Len(t) \in Nat
  OBVIOUS
<1>2. \A i \in 1..Len(s) : (s \o t)[i] = s[i]
  OBVIOUS
<1>3. K <= Len(s) /\ \A i \in 1..K : s[i] = R[i]
  BY DEF StartsWith
<1>4. K <= Len(s \o t)
  BY <1>1, <1>3
<1>5. ASSUME NEW i \in 1..K PROVE (s \o t)[i] = R[i]
  BY <1>1, <1>2, <1>3
<1> QED
  BY <1>4, <1>5 DEF StartsWith

(* The path of more tokens starts with the path of fewer.                    *)
LEMMA PathGrows ==
  ASSUME NEW T, IsTree(T), NEW toks \in Seq(Tokens), NEW f, IsPath(f, T, toks),
         NEW m \in 0..Len(toks), NEW N \in m..Len(toks)
  PROVE  StartsWith(f[N], Len(f[m]), f[m])
<1>0. Len(toks) \in Nat /\ m \in Nat /\ Len(toks) - m \in Nat
  OBVIOUS
<1>1. /\ \A n \in 1..Len(toks) : f[n] = f[n - 1] \o Held(T, SubSeq(toks, 1, n))
      /\ \A n \in 1..Len(toks) : Held(T, SubSeq(toks, 1, n)) \in Seq(Blocks)
      /\ \A n \in 0..Len(toks) : f[n] \in Seq(Blocks)
  BY PathStep
<1> DEFINE G == {n \in 0..Len(toks) - m : StartsWith(f[m + n], Len(f[m]), f[m])}
<1>2. 0 \in G
  BY <1>0 DEF StartsWith
<1>3. ASSUME NEW n \in 1..Len(toks) - m, n - 1 \in G PROVE n \in G
  <2>1. m + n \in 1..Len(toks) /\ m + n - 1 \in 0..Len(toks) /\ n \in 0..Len(toks) - m
        /\ m + (n - 1) = m + n - 1
    BY <1>0
  <2>2. StartsWith(f[m + n - 1], Len(f[m]), f[m])
    BY <1>3, <2>1
  <2>3. f[m + n] = f[m + n - 1] \o Held(T, SubSeq(toks, 1, m + n))
    <3>1. PICK k : k = m + n
      OBVIOUS
    <3>2. k \in 1..Len(toks) /\ k - 1 = m + n - 1
      BY <1>0, <2>1, <3>1
    <3>3. f[k] = f[k - 1] \o Held(T, SubSeq(toks, 1, k))
      BY <1>1, <3>2
    <3> QED
      BY <3>1, <3>2, <3>3
  <2>4. f[m + n - 1] \in Seq(Blocks) /\ Held(T, SubSeq(toks, 1, m + n)) \in Seq(Blocks)
        /\ f[m] \in Seq(Blocks)
    BY <1>1, <2>1
  <2>5. Len(f[m]) \in Nat
    BY <2>4
  <2>6. StartsWith(f[m + n], Len(f[m]), f[m])
    BY <2>2, <2>3, <2>4, <2>5, StartsAppend
  <2> QED
    BY <2>1, <2>6
<1> HIDE DEF G
<1>4. \A n \in 0..Len(toks) - m : n \in G
  BY <1>0, <1>2, <1>3, UpTo
<1>5. N - m \in 0..Len(toks) - m /\ m + (N - m) = N
  BY <1>0
<1> QED
  BY <1>4, <1>5 DEF G

(* The path is long enough for what is matched.                              *)
LEMMA PathCovers ==
  ASSUME NEW T, TreeOK(T), NEW toks \in Seq(Tokens)
  PROVE  /\ PathBlocks(T, toks) \in Seq(Blocks)
         /\ MatchedLen(T, toks) <= Len(PathBlocks(T, toks)) * BlockSize
<1>0. Len(toks) \in Nat /\ IsTree(T) /\ BlockSize \in Nat \ {0}
  BY BlockSizeAssumption DEF TreeOK
<1>1. PICK f : IsPath(f, T, toks) /\ PathBlocks(T, toks) = f[Len(toks)]
  BY PathExists
<1>2. /\ f[0] = <<>>
      /\ \A n \in 1..Len(toks) : f[n] = f[n - 1] \o Held(T, SubSeq(toks, 1, n))
      /\ \A n \in 1..Len(toks) : Held(T, SubSeq(toks, 1, n)) \in Seq(Blocks)
      /\ \A n \in 0..Len(toks) : f[n] \in Seq(Blocks)
  BY <1>0, <1>1, PathStep
<1> DEFINE Node(m) == m = 0 \/ SubSeq(toks, 1, m) \in TreeNodes(T)
           G == {n \in 0..Len(toks) : \A m \in 0..n : Node(m) => m <= Len(f[n]) * BlockSize}
<1>3. 0 \in G
  BY <1>0, <1>2
<1>4. ASSUME NEW n \in 1..Len(toks), n - 1 \in G PROVE n \in G
  <2>1. n \in 0..Len(toks) /\ n - 1 \in 0..Len(toks) /\ n \in Nat /\ n # 0
    BY <1>0
  <2> DEFINE p == SubSeq(toks, 1, n)
             a == Len(f[n - 1])
             h == Len(Held(T, p))
  <2>2. a \in Nat /\ h \in Nat /\ Len(f[n]) = a + h
    <3>1. f[n - 1] \in Seq(Blocks) /\ Held(T, p) \in Seq(Blocks) /\ f[n] = f[n - 1] \o Held(T, p)
      BY <1>2, <2>1
    <3> QED
      BY <3>1
  <2>3. \A m \in 0..n - 1 : Node(m) => m <= a * BlockSize
    BY <1>4
  <2>4. (a + h) * BlockSize = a * BlockSize + h * BlockSize /\ a * BlockSize \in Nat
        /\ h * BlockSize \in Nat
    <3> HIDE DEF a, h
    <3> QED
      BY <1>0, <2>2
  <2>5. ASSUME NEW m \in 0..n, Node(m), m # n PROVE m <= (a + h) * BlockSize
    <3>1. m \in 0..n - 1
      BY <2>1, <2>5
    <3>2. m <= a * BlockSize
      BY <2>3, <2>5, <3>1
    <3> HIDE DEF a, h, Node
    <3> QED
      BY <2>4, <3>1, <3>2
  <2>6. ASSUME Node(n) PROVE n <= (a + h) * BlockSize
    <3>1. p \in TreeNodes(T) /\ p \in Seq(Tokens) /\ Len(p) = n /\ Len(p) > 0
      BY <1>0, <2>1, <2>6, FirstTokens
    <3>2. PICK l : l = ParentLen(T, p)
      OBVIOUS
    <3>3. l \in 0..n - 1 /\ (l # 0 => SubSeq(p, 1, l) \in TreeNodes(T))
      BY <1>0, <3>1, <3>2, ParentFacts
    <3>4. SubSeq(p, 1, l) = SubSeq(toks, 1, l)
      <4>1. l \in 0..n /\ n \in 0..Len(toks) /\ l \in Nat
        BY <2>1, <3>3
      <4>2. Agree(p, toks, n)
        BY <4>1, FirstTokens
      <4>3. Agree(p, toks, l)
        BY <1>0, <2>1, <3>1, <4>1, <4>2, AgreeFewer
      <4> HIDE DEF p
      <4> QED
        BY <3>1, <4>1, <4>3, SameStart
    <3>5. Node(l)
      BY <3>3, <3>4
    <3>6. l <= a * BlockSize
      BY <2>3, <3>3, <3>5
    <3>7. h = CeilDiv(n - l)
      BY <3>1, <3>2 DEF Held, TreeOK, SizedNodes, KeyLen
    <3>8. n - l \in Nat
      BY <2>1, <3>3
    <3>9. n - l <= h * BlockSize
      BY <3>7, <3>8, CeilFacts
    <3> HIDE DEF a, h, Node, p
    <3> QED
      BY <2>1, <2>4, <3>3, <3>6, <3>9
  <2>7. \A m \in 0..n : Node(m) => m <= Len(f[n]) * BlockSize
    <3> HIDE DEF a, h, Node
    <3> QED
      BY <2>2, <2>5, <2>6
  <2> QED
    BY <2>1, <2>7
<1>5. \A n \in 0..Len(toks) : n \in G
  <2> HIDE DEF G
  <2> QED
    BY <1>0, <1>3, <1>4, UpTo
<1>6. PICK m : m = MatchedLen(T, toks)
  OBVIOUS
<1>7. m \in 0..Len(toks) /\ Node(m)
  BY <1>0, <1>6, MatchedFacts
<1>8. m <= Len(f[Len(toks)]) * BlockSize
  BY <1>0, <1>5, <1>7
<1> QED
  BY <1>0, <1>1, <1>2, <1>6, <1>8

(* The blocks a call retains are the first ones on the path of its prompt.   *)
OnPath(T, toks, R) ==
  /\ R \in Seq(Blocks) /\ Len(R) <= TotalBlocks(toks)
  /\ StartsWith(PathBlocks(T, toks), Len(R), R)

(* The first n elements.                                                     *)
LEMMA FirstBlocks ==
  ASSUME NEW A, NEW s \in Seq(A), NEW n \in 0..Len(s)
  PROVE  /\ SubSeq(s, 1, n) \in Seq(A) /\ Len(SubSeq(s, 1, n)) = n
         /\ StartsWith(s, n, SubSeq(s, 1, n))
         /\ ToSet(SubSeq(s, 1, n)) \subseteq ToSet(s)
<1>1. n \in Nat /\ n <= Len(s) /\ Len(s) \in Nat
  OBVIOUS
<1>2. PICK u : u = SubSeq(s, 1, n)
  OBVIOUS
<1>3. u \in Seq(A) /\ Len(u) = n /\ DOMAIN u = 1..n /\ \A i \in 1..n : u[i] = s[i]
  BY <1>1, <1>2
<1>4. ToSet(u) \subseteq ToSet(s)
  BY <1>1, <1>3 DEF ToSet
<1> QED
  BY <1>1, <1>2, <1>3, <1>4 DEF StartsWith

(* _live_prefix_block_ids returns the first blocks of the path, all live.    *)
LEMMA LiveFacts ==
  ASSUME TreeOK(tree), NEW toks \in Seq(Tokens)
  PROVE  OnPath(tree, toks, LivePrefix(toks)) /\ ToSet(LivePrefix(toks)) \subseteq Alive
<1>1. PICK s, k : s = PathBlocks(tree, toks) /\ k = MatchedLen(tree, toks) \div BlockSize
  OBVIOUS
<1>2. BlockSize \in Nat \ {0} /\ IsTree(tree)
  BY BlockSizeAssumption DEF TreeOK
<1>3. PICK m : m = MatchedLen(tree, toks)
  OBVIOUS
<1>4. s \in Seq(Blocks) /\ m \in 0..Len(toks) /\ m <= Len(s) * BlockSize /\ m \in Nat
      /\ Len(s) \in Nat /\ Len(toks) \in Nat
  <2>1. s \in Seq(Blocks) /\ m <= Len(s) * BlockSize
    BY <1>1, <1>3, PathCovers
  <2>2. m \in 0..Len(toks)
    BY <1>2, <1>3, MatchedFacts
  <2> QED
    BY <2>1, <2>2
<1>5. k \in Nat /\ k * BlockSize <= m
  BY <1>1, <1>2, <1>3, <1>4, DivFacts
<1>6. k <= Len(s)
  <2>1. k * BlockSize < Len(s) * BlockSize + BlockSize
    BY <1>2, <1>4, <1>5
  <2> QED
    BY <1>2, <1>4, <1>5, <2>1, FewerMultiples
<1>7. PICK c : c = TotalBlocks(toks)
  OBVIOUS
<1>8. c \in Nat /\ Len(toks) < c * BlockSize + BlockSize
  BY <1>2, <1>4, <1>7, DivFacts DEF TotalBlocks
<1>9. k <= c
  <2>1. k * BlockSize < c * BlockSize + BlockSize
    BY <1>2, <1>4, <1>5, <1>8
  <2> QED
    BY <1>2, <1>5, <1>8, <2>1, FewerMultiples
<1>10. PICK u : u = SubSeq(s, 1, k)
  OBVIOUS
<1>11. u \in Seq(Blocks) /\ Len(u) = k /\ StartsWith(s, k, u)
  BY <1>4, <1>5, <1>6, <1>10, FirstBlocks
<1>12. MatchedPath(toks) = u
  BY <1>1, <1>10 DEF MatchedPath
<1> DEFINE Q == {n \in 0..Len(u) : \A i \in 1..n : u[i] \in Alive}
<1>13. Q \in SUBSET (0..k) /\ Q # {}
  <2>1. 0 \in 0..Len(u) /\ 1..0 = {}
    BY <1>5, <1>11
  <2>2. 0 \in Q
    BY <2>1
  <2> QED
    BY <1>11, <2>2
<1>14. PICK d : d = Max(Q)
  OBVIOUS
<1>15. d \in Q /\ d \in 0..k
  <2> HIDE DEF Q
  <2> QED
    BY <1>5, <1>13, <1>14, MaxFacts
<1>16. PICK R : R = SubSeq(u, 1, d)
  OBVIOUS
<1>17. LivePrefix(toks) = R
  BY <1>12, <1>14, <1>16 DEF LivePrefix
<1>18. R \in Seq(Blocks) /\ Len(R) = d /\ StartsWith(u, d, R)
  BY <1>11, <1>15, <1>16, FirstBlocks
<1>19. d \in Nat /\ d <= k
  BY <1>5, <1>15
<1>20. ASSUME NEW i \in 1..d PROVE R[i] = u[i] /\ s[i] = R[i] /\ R[i] \in Alive
  <2>1. i \in 1..k
    BY <1>5, <1>19
  <2> QED
    BY <1>11, <1>15, <1>18, <2>1 DEF StartsWith
<1>21. StartsWith(s, d, R)
  BY <1>4, <1>5, <1>6, <1>19, <1>20 DEF StartsWith
<1>22. ToSet(R) \subseteq Alive
  BY <1>18, <1>20 DEF ToSet
<1>23. Len(R) <= c
  BY <1>5, <1>8, <1>9, <1>18, <1>19
<1> QED
  BY <1>1, <1>7, <1>17, <1>18, <1>21, <1>22, <1>23 DEF OnPath

(* A prompt that is matched to its last block has a path of that many blocks.*)
LEMMA MatchedBids ==
  ASSUME NEW T, TreeOK(T), NEW toks \in Seq(Tokens),
         MatchedLen(T, toks) \div BlockSize >= TotalBlocks(toks),
         NEW bids, bids = SubSeq(PathBlocks(T, toks), 1, TotalBlocks(toks))
  PROVE  /\ bids \in Seq(Blocks) /\ Len(bids) = TotalBlocks(toks)
         /\ \A R : OnPath(T, toks, R) => ToSet(R) \subseteq ToSet(bids)
<1>1. PICK s, k, c, m : /\ s = PathBlocks(T, toks) /\ k = MatchedLen(T, toks) \div BlockSize
                        /\ c = TotalBlocks(toks) /\ m = MatchedLen(T, toks)
  OBVIOUS
<1>2. BlockSize \in Nat \ {0} /\ IsTree(T)
  BY BlockSizeAssumption DEF TreeOK
<1>3. s \in Seq(Blocks) /\ m \in Nat /\ m <= Len(s) * BlockSize /\ Len(s) \in Nat
      /\ Len(toks) \in Nat
  <2>1. s \in Seq(Blocks) /\ m <= Len(s) * BlockSize
    BY <1>1, PathCovers
  <2>2. m \in 0..Len(toks)
    BY <1>1, <1>2, MatchedFacts
  <2> QED
    BY <2>1, <2>2
<1>4. k \in Nat /\ k * BlockSize <= m
  BY <1>1, <1>2, <1>3, DivFacts
<1>5. k <= Len(s)
  <2>1. k * BlockSize < Len(s) * BlockSize + BlockSize
    <3>1. PICK x, y : x = k * BlockSize /\ y = Len(s) * BlockSize
      OBVIOUS
    <3>2. x \in Nat /\ y \in Nat
      BY <1>2, <1>3, <1>4, <3>1
    <3>3. x <= m /\ m <= y
      BY <1>3, <1>4, <3>1
    <3>4. x < y + BlockSize
      BY <1>2, <1>3, <3>2, <3>3
    <3> QED
      BY <3>1, <3>4
  <2> QED
    BY <1>2, <1>3, <1>4, <2>1, FewerMultiples
<1>6. c \in Nat /\ c <= k
  <2>1. c \in Nat
    BY <1>1, <1>2, <1>3, DivFacts DEF TotalBlocks
  <2> QED
    BY <1>1, <2>1
<1>7. bids \in Seq(Blocks) /\ Len(bids) = c /\ StartsWith(s, c, bids)
  <2>1. c \in 0..Len(s)
    BY <1>3, <1>4, <1>5, <1>6
  <2> QED
    BY <1>1, <1>3, <2>1, FirstBlocks
<1>8. ASSUME NEW R, OnPath(T, toks, R) PROVE ToSet(R) \subseteq ToSet(bids)
  <2>1. R \in Seq(Blocks) /\ Len(R) <= c /\ StartsWith(s, Len(R), R) /\ Len(R) \in Nat
    BY <1>1, <1>8 DEF OnPath
  <2>2. ASSUME NEW i \in 1..Len(R) PROVE R[i] = bids[i] /\ i \in 1..c
    <3>1. i \in 1..c
      BY <1>6, <2>1
    <3> QED
      BY <1>7, <2>1, <3>1 DEF StartsWith
  <2>3. DOMAIN R = 1..Len(R) /\ DOMAIN bids = 1..c
    BY <1>7, <2>1
  <2> QED
    BY <2>2, <2>3 DEF ToSet
<1> QED
  BY <1>1, <1>7, <1>8

-----------------------------------------------------------------------------
(* What a call retains stays at the head of its path.                        *)

(* It does when nodes change only behind the blocks retained.                *)
LEMMA PathKeeps ==
  ASSUME NEW T, IsTree(T), NEW U, IsTree(U), NEW toks \in Seq(Tokens),
         NEW f, IsPath(f, T, toks), NEW R \in Seq(Blocks),
         StartsWith(f[Len(toks)], Len(R), R),
         \A n \in 1..Len(toks) : \/ Held(U, SubSeq(toks, 1, n)) = Held(T, SubSeq(toks, 1, n))
                                 \/ Len(R) <= Len(f[n - 1])
  PROVE  StartsWith(PathBlocks(U, toks), Len(R), R)
<1>0. PICK N, K : N = Len(toks) /\ K = Len(R)
  OBVIOUS
<1>1. N \in Nat /\ K \in Nat
  BY <1>0
<1>2. PICK g : IsPath(g, U, toks) /\ PathBlocks(U, toks) = g[N]
  BY <1>0, PathExists
<1>3. /\ f[0] = <<>>
      /\ \A n \in 1..N : f[n] = f[n - 1] \o Held(T, SubSeq(toks, 1, n))
      /\ \A n \in 0..N : f[n] \in Seq(Blocks)
  BY <1>0, PathStep
<1>4. /\ g[0] = <<>>
      /\ \A n \in 1..N : g[n] = g[n - 1] \o Held(U, SubSeq(toks, 1, n))
      /\ \A n \in 1..N : Held(U, SubSeq(toks, 1, n)) \in Seq(Blocks)
      /\ \A n \in 0..N : g[n] \in Seq(Blocks)
  BY <1>0, <1>2, PathStep
<1> DEFINE G == {n \in 0..N : g[n] = f[n] \/ StartsWith(g[n], K, R)}
<1>5. 0 \in G
  BY <1>1, <1>3, <1>4
<1>6. ASSUME NEW n \in 1..N, n - 1 \in G PROVE n \in G
  <2>1. n \in 0..N /\ n - 1 \in 0..N /\ n - 1 \in Nat
    BY <1>1
  <2>2. PICK h : h = Held(U, SubSeq(toks, 1, n))
    OBVIOUS
  <2>3. g[n] = g[n - 1] \o h /\ h \in Seq(Blocks) /\ g[n - 1] \in Seq(Blocks)
    BY <1>4, <2>1, <2>2
  <2>4. ASSUME StartsWith(g[n - 1], K, R) PROVE n \in G
    <3>1. StartsWith(g[n], K, R)
      BY <1>1, <2>3, <2>4, StartsAppend
    <3> QED
      BY <2>1, <3>1
  <2>5. ASSUME g[n - 1] = f[n - 1], h = Held(T, SubSeq(toks, 1, n)) PROVE n \in G
    <3>1. g[n] = f[n]
      BY <1>3, <2>3, <2>5
    <3> QED
      BY <2>1, <3>1
  <2>6. ASSUME g[n - 1] = f[n - 1], K <= Len(f[n - 1]) PROVE n \in G
    <3>1. StartsWith(f[N], Len(f[n - 1]), f[n - 1])
      <4>1. N \in (n - 1)..N
        BY <1>1, <2>1
      <4> QED
        BY <1>0, <2>1, <4>1, PathGrows
    <3>2. f[n - 1] \in Seq(Blocks) /\ Len(f[n - 1]) \in Nat
      BY <1>3, <2>1
    <3>3. ASSUME NEW i \in 1..K PROVE f[n - 1][i] = R[i]
      <4>1. i \in 1..Len(f[n - 1])
        BY <1>1, <2>6, <3>2
      <4>2. f[N][i] = f[n - 1][i]
        BY <3>1, <4>1 DEF StartsWith
      <4>3. f[N][i] = R[i]
        BY <1>0 DEF StartsWith
      <4> QED
        BY <4>2, <4>3
    <3>4. StartsWith(g[n - 1], K, R)
      BY <2>6, <3>3 DEF StartsWith
    <3> QED
      BY <2>4, <3>4
  <2>7. g[n - 1] = f[n - 1] \/ StartsWith(g[n - 1], K, R)
    BY <1>6
  <2> HIDE DEF G
  <2> QED
    BY <1>0, <2>2, <2>4, <2>5, <2>6, <2>7
<1>7. N \in G
  <2> HIDE DEF G
  <2>1. \A n \in 0..N : n \in G
    BY <1>1, <1>5, <1>6, UpTo
  <2> QED
    BY <1>1, <2>1
<1> QED
  BY <1>0, <1>2, <1>7

(* Time stamps do not matter.                                                *)
LEMMA SameKeeps ==
  ASSUME NEW T, IsTree(T), NEW U, IsTree(U), SameBlocks(T, U), NEW toks \in Seq(Tokens),
         NEW R, OnPath(T, toks, R)
  PROVE  OnPath(U, toks, R)
<1>1. PICK f : IsPath(f, T, toks) /\ PathBlocks(T, toks) = f[Len(toks)]
  BY PathExists
<1>2. R \in Seq(Blocks) /\ StartsWith(f[Len(toks)], Len(R), R) /\ Len(R) <= TotalBlocks(toks)
  BY <1>1 DEF OnPath
<1>3. \A p : Held(U, p) = Held(T, p)
  BY DEF Held, SameBlocks
<1>4. StartsWith(PathBlocks(U, toks), Len(R), R)
  BY <1>1, <1>2, <1>3, PathKeeps
<1> QED
  BY <1>2, <1>4 DEF OnPath

(* Removing nodes does not matter when they hold nothing that is retained.   *)
LEMMA RemoveKeeps ==
  ASSUME NEW T, IsTree(T), NEW gone, NEW U, IsTree(U), U = RemoveNodes(T, gone),
         NEW toks \in Seq(Tokens), NEW R, OnPath(T, toks, R),
         \A p \in gone : ToSet(T[p].bids) \cap ToSet(R) = {}
  PROVE  OnPath(U, toks, R)
<1>1. PICK f : IsPath(f, T, toks) /\ PathBlocks(T, toks) = f[Len(toks)]
  BY PathExists
<1>2. R \in Seq(Blocks) /\ StartsWith(f[Len(toks)], Len(R), R) /\ Len(R) <= TotalBlocks(toks)
  BY <1>1 DEF OnPath
<1>3. TreeNodes(U) = TreeNodes(T) \ gone /\ \A p \in TreeNodes(T) \ gone : U[p] = T[p]
  BY DEF RemoveNodes, TreeNodes
<1>4. PICK N, K : N = Len(toks) /\ K = Len(R)
  OBVIOUS
<1>5. N \in Nat /\ K \in Nat
  BY <1>2, <1>4
<1>6. ASSUME NEW n \in 1..N
      PROVE  \/ Held(U, SubSeq(toks, 1, n)) = Held(T, SubSeq(toks, 1, n))
             \/ Len(R) <= Len(f[n - 1])
  <2>1. PICK p : p = SubSeq(toks, 1, n)
    OBVIOUS
  <2>2. CASE p \notin TreeNodes(T) \/ p \notin gone
    BY <1>3, <2>1, <2>2 DEF Held
  <2>3. CASE p \in TreeNodes(T) /\ p \in gone
    <3>1. PICK h, s : h = T[p].bids /\ s = f[n - 1]
      OBVIOUS
    <3>2. Held(U, p) = <<>> /\ Held(T, p) = h
      BY <1>3, <2>3, <3>1 DEF Held
    <3>3. n \in 0..N /\ n - 1 \in 0..N
      BY <1>5
    <3>4. h \in Seq(Blocks) /\ s \in Seq(Blocks) /\ f[n] = s \o h /\ f[n] \in Seq(Blocks)
      <4>1. /\ \A k \in 1..N : f[k] = f[k - 1] \o Held(T, SubSeq(toks, 1, k))
            /\ \A k \in 1..N : Held(T, SubSeq(toks, 1, k)) \in Seq(Blocks)
            /\ \A k \in 0..N : f[k] \in Seq(Blocks)
        <5>1. IsPath(f, T, toks)
          BY <1>1
        <5>2. /\ \A k \in 1..Len(toks) : f[k] = f[k - 1] \o Held(T, SubSeq(toks, 1, k))
              /\ \A k \in 1..Len(toks) : Held(T, SubSeq(toks, 1, k)) \in Seq(Blocks)
              /\ \A k \in 0..Len(toks) : f[k] \in Seq(Blocks)
          BY <5>1, PathStep
        <5> QED
          BY <1>4, <5>2
      <4> QED
        BY <2>1, <3>1, <3>2, <3>3, <4>1
    <3>5. CASE h = <<>>
      BY <2>1, <3>2, <3>5
    <3>6. CASE h # <<>> /\ K > Len(s)
      <4>1. PICK i : i = Len(s) + 1
        OBVIOUS
      <4>2. Len(h) >= 1 /\ Len(s) \in Nat /\ Len(f[n]) = Len(s) + Len(h) /\ Len(h) \in Nat
        BY <3>4, <3>6
      <4>3. i \in 1..K /\ i \in 1..Len(f[n])
        BY <1>5, <3>6, <4>1, <4>2
      <4>4. f[n][i] = h[1]
        BY <3>4, <4>1, <4>2
      <4>5. StartsWith(f[N], Len(f[n]), f[n])
        <5>1. N \in n..N
          BY <1>5
        <5> QED
          BY <1>1, <1>4, <3>3, <5>1, PathGrows
      <4>6. f[N][i] = f[n][i] /\ f[N][i] = R[i]
        BY <1>2, <1>4, <4>3, <4>5 DEF StartsWith
      <4>7. h[1] = R[i] /\ 1 \in DOMAIN h /\ i \in DOMAIN R
        BY <1>2, <1>4, <3>4, <4>2, <4>3, <4>4, <4>6
      <4>8. R[i] \in ToSet(h) /\ R[i] \in ToSet(R)
        BY <4>7 DEF ToSet
      <4> QED
        BY <2>3, <3>1, <4>8
    <3>7. K \in Nat /\ Len(s) \in Nat
      BY <1>5, <3>4
    <3> QED
      BY <1>4, <3>1, <3>5, <3>6, <3>7
  <2> QED
    BY <2>2, <2>3
<1>7. StartsWith(PathBlocks(U, toks), Len(R), R)
  BY <1>1, <1>2, <1>4, <1>6, PathKeeps
<1> QED
  BY <1>2, <1>7 DEF OnPath

(* The path ends where the match ends.                                       *)
LEMMA PathEnds ==
  ASSUME NEW T, IsTree(T), NEW toks \in Seq(Tokens), NEW f, IsPath(f, T, toks),
         NEW n \in 0..Len(toks), MatchedLen(T, toks) <= n
  PROVE  f[n] = f[Len(toks)]
<1>0. PICK N, m : N = Len(toks) /\ m = MatchedLen(T, toks)
  OBVIOUS
<1>1. N \in Nat /\ m \in Nat /\ m <= n /\ n \in Nat /\ n <= N /\ N - n \in Nat
  BY <1>0, MatchedFacts
<1>2. /\ \A k \in 1..N : f[k] = f[k - 1] \o Held(T, SubSeq(toks, 1, k))
      /\ \A k \in 0..N : f[k] \in Seq(Blocks)
  BY <1>0, PathStep
<1> DEFINE G == {k \in 0..N - n : f[n + k] = f[n]}
<1>3. 0 \in G
  BY <1>1
<1>4. ASSUME NEW k \in 1..N - n, k - 1 \in G PROVE k \in G
  <2>1. PICK l : l = n + k
    OBVIOUS
  <2>2. l \in 1..N /\ l > m /\ l \in Nat /\ l - 1 = n + (k - 1) /\ l - 1 \in 0..N /\ l \in 0..N
    BY <1>1, <2>1
  <2>3. PICK p : p = SubSeq(toks, 1, l)
    OBVIOUS
  <2>4. p \in Seq(Tokens) /\ Len(p) = l /\ Agree(p, toks, l)
    BY <1>0, <2>2, <2>3, FirstTokens
  <2>5. p \notin TreeNodes(T)
    BY <1>0, <1>1, <2>2, <2>4, MatchedFacts
  <2>6. f[l] = f[l - 1] \o <<>> /\ f[l - 1] \in Seq(Blocks)
    BY <1>2, <2>2, <2>3, <2>5 DEF Held
  <2>7. f[l] = f[l - 1]
    BY <2>6
  <2>8. f[l - 1] = f[n]
    BY <1>4, <2>2
  <2> QED
    BY <2>1, <2>7, <2>8
<1> HIDE DEF G
<1>5. \A k \in 0..N - n : k \in G
  BY <1>1, <1>3, <1>4, UpTo
<1>6. N - n \in 0..N - n /\ n + (N - n) = N
  BY <1>1
<1> QED
  BY <1>0, <1>5, <1>6 DEF G

(* Changes behind the match do not matter.                                   *)
LEMMA BehindKeeps ==
  ASSUME NEW T, IsTree(T), NEW U, IsTree(U), NEW toks \in Seq(Tokens), NEW R, OnPath(T, toks, R),
         \A n \in 1..MatchedLen(T, toks) :
           Held(U, SubSeq(toks, 1, n)) = Held(T, SubSeq(toks, 1, n))
  PROVE  OnPath(U, toks, R)
<1>1. PICK f : IsPath(f, T, toks) /\ PathBlocks(T, toks) = f[Len(toks)]
  BY PathExists
<1>2. R \in Seq(Blocks) /\ StartsWith(f[Len(toks)], Len(R), R) /\ Len(R) <= TotalBlocks(toks)
  BY <1>1 DEF OnPath
<1>3. PICK N, m : N = Len(toks) /\ m = MatchedLen(T, toks)
  OBVIOUS
<1>4. N \in Nat /\ m \in 0..N /\ m \in Nat
  BY <1>3, MatchedFacts
<1>5. ASSUME NEW n \in 1..N
      PROVE  \/ Held(U, SubSeq(toks, 1, n)) = Held(T, SubSeq(toks, 1, n))
             \/ Len(R) <= Len(f[n - 1])
  <2>1. CASE n <= m
    BY <1>3, <1>4, <2>1
  <2>2. CASE n > m
    <3>1. n - 1 \in 0..N /\ m <= n - 1
      BY <1>4, <2>2
    <3>2. f[n - 1] = f[N]
      BY <1>1, <1>3, <3>1, PathEnds
    <3> QED
      BY <1>2, <1>3, <3>2 DEF StartsWith
  <2> QED
    BY <1>4, <2>1, <2>2
<1>6. StartsWith(PathBlocks(U, toks), Len(R), R)
  BY <1>1, <1>2, <1>3, <1>5, PathKeeps
<1> QED
  BY <1>2, <1>6 DEF OnPath

(* insert changes the path of its prompt behind the match only.              *)
LEMMA InsertKeeps ==
  ASSUME NEW T, TreeOK(T), NEW toks \in Seq(Tokens), Len(toks) > 0, NEW t \in Nat,
         NEW u \in Seq(Blocks), Len(u) = SplitMint(T, toks), NEW V, V = Split(T, toks, u, t), IsTree(V),
         NEW v, NEW W, LeafTree(V, W, toks, v), IsTree(W),
         NEW R, OnPath(T, toks, R)
  PROVE  OnPath(V, toks, R) /\ OnPath(W, toks, R)
<1>0. IsTree(T)
  BY DEF TreeOK
<1>1. PICK N, m : N = Len(toks) /\ m = MatchedLen(T, toks)
  OBVIOUS
<1>2. /\ N \in Nat /\ N > 0 /\ m \in 0..N /\ m \in Nat
      /\ m # 0 => SubSeq(toks, 1, m) \in TreeNodes(T)
  BY <1>0, <1>1, MatchedFacts
<1>3. ASSUME NEW n \in 1..m
      PROVE  /\ Held(V, SubSeq(toks, 1, n)) = Held(T, SubSeq(toks, 1, n))
             /\ SubSeq(toks, 1, n) \in TreeNodes(T) => SubSeq(toks, 1, n) \in TreeNodes(V)
  <2>1. CASE ~NeedsSplit(T, toks)
    BY <2>1 DEF Split
  <2>2. CASE NeedsSplit(T, toks)
    <3>1. PICK mid, child, cut :
            /\ SplitPoint(T, toks, SharedLen(T, toks), mid, child)
            /\ SplitTree(T, V, toks, u, mid, child, cut)
      BY <2>2, SplitShape
    <3>2. PICK p : p = SubSeq(toks, 1, n)
      OBVIOUS
    <3>3. n \in 0..N /\ n \in Nat /\ n <= m
      BY <1>2
    <3>4. Len(p) = n /\ Agree(p, toks, Len(p))
      BY <1>1, <3>2, <3>3, FirstTokens
    <3>5. p # child /\ p # mid
      BY <1>1, <1>2, <3>1, <3>3, <3>4 DEF SplitPoint
    <3> QED
      BY <3>1, <3>2, <3>5 DEF SplitTree, Held
  <2> QED
    BY <2>1, <2>2
<1>4. OnPath(V, toks, R)
  BY <1>0, <1>1, <1>3, BehindKeeps
<1>5. ASSUME NEW n \in 1..m PROVE Held(W, SubSeq(toks, 1, n)) = Held(V, SubSeq(toks, 1, n))
  <2>1. CASE v = <<>>
    BY <2>1 DEF LeafTree
  <2>2. CASE v # <<>>
    <3>1. PICK p : p = SubSeq(toks, 1, n)
      OBVIOUS
    <3>2. p # toks
      <4> SUFFICES ASSUME p = toks PROVE FALSE
        OBVIOUS
      <4>1. n \in 0..N
        BY <1>2
      <4>2. Len(p) = n
        BY <1>1, <3>1, <4>1, FirstTokens
      <4>3. n = m /\ m # 0
        BY <1>1, <1>2, <4>2
      <4>4. p \in TreeNodes(T)
        BY <1>2, <3>1, <4>3
      <4>5. p \in TreeNodes(V)
        BY <1>3, <3>1, <4>4
      <4> QED
        BY <2>2, <4>5 DEF LeafTree
    <3> QED
      BY <2>2, <3>1, <3>2 DEF LeafTree, Held
  <2> QED
    BY <2>1, <2>2
<1>6. \A n \in 1..MatchedLen(T, toks) :
        Held(W, SubSeq(toks, 1, n)) = Held(T, SubSeq(toks, 1, n))
  BY <1>1, <1>3, <1>5
<1>7. OnPath(W, toks, R)
  BY <1>0, <1>6, BehindKeeps
<1> QED
  BY <1>4, <1>7

-----------------------------------------------------------------------------
(* The live blocks after each pool method.                                   *)
LEMMA AliveAfter ==
  ASSUME PoolTypeOK
  PROVE  /\ \A ids \in SUBSET Blocks : Allocate(ids, "gpu") => Alive' = Alive \cup ids
         /\ \A ids \in SUBSET Blocks : FreeBlocks(ids) => Alive' = Alive \ ids
         /\ \A ids \in SUBSET Blocks : Pin(ids) \/ Unpin(ids) => Alive' = Alive
         /\ \A b \in Blocks, from, to \in Tiers : Move(b, from, to) => Alive' = Alive
         /\ UNCHANGED poolVars => Alive' = Alive
<1>1. ASSUME NEW ids \in SUBSET Blocks, Allocate(ids, "gpu") PROVE Alive' = Alive \cup ids
  BY <1>1 DEF Allocate, Alive, None
<1>2. ASSUME NEW ids \in SUBSET Blocks, FreeBlocks(ids) PROVE Alive' = Alive \ ids
  BY <1>2 DEF FreeBlocks, Alive
<1>3. ASSUME NEW ids \in SUBSET Blocks, Pin(ids) \/ Unpin(ids) PROVE Alive' = Alive
  BY <1>3 DEF Pin, Unpin, Alive
<1>4. ASSUME NEW b \in Blocks, NEW from \in Tiers, NEW to \in Tiers, Move(b, from, to)
      PROVE  Alive' = Alive
  <2>1. blockTier[b] # None /\ to # None
    BY <1>4 DEF Move, Tiers, None
  <2>2. blockTier' = [blockTier EXCEPT ![b] = to]
    BY <1>4 DEF Move
  <2>3. blockTier \in [Blocks -> Tiers \cup {None}]
    BY DEF PoolTypeOK
  <2>4. \A c \in Blocks : blockTier'[c] # None <=> blockTier[c] # None
    BY <2>1, <2>2, <2>3
  <2> QED
    BY <2>4 DEF Alive
<1>5. UNCHANGED poolVars => Alive' = Alive
  BY DEF poolVars, Alive
<1> QED
  BY <1>1, <1>2, <1>3, <1>4, <1>5

(* The call in progress retains the head of its path.                        *)
PathInv == call.pc \notin {"idle", "crashed"} => OnPath(tree, call.toks, call.retained)

(* What the steps below preserve.                                            *)
WholeInv == TreeInv /\ FrameInv /\ PathInv

(* A step that changes the tree by time stamps alone.                        *)
LEMMA TouchStep ==
  ASSUME WholeInv, NEW toks, tree' = Touch(tree, toks, now), now' = now, Alive' = Alive
  PROVE  /\ TreeInv' /\ (StampInv => StampInv')
         /\ \A u \in Seq(Tokens), R \in Seq(Blocks) : OnPath(tree, u, R) => OnPath(tree', u, R)
<1>1. GoodTree(tree', Alive) /\ SameBlocks(tree, tree') /\ (Stamped(tree, now) => Stamped(tree', now))
  BY TouchGood DEF WholeInv, TreeInv
<1>2. TreeInv' /\ (StampInv => StampInv')
  BY <1>1 DEF WholeInv, TreeInv, StampInv
<1>3. IsTree(tree) /\ IsTree(tree')
  BY <1>1 DEF WholeInv, TreeInv, GoodTree, TreeOK
<1> QED
  BY <1>1, <1>2, <1>3, SameKeeps

(* A step that leaves the tree and the live blocks alone.                    *)
LEMMA StillStep ==
  ASSUME WholeInv, tree' = tree, now' = now, Alive' = Alive
  PROVE  /\ TreeInv' /\ (StampInv => StampInv')
         /\ \A u, R : OnPath(tree, u, R) => OnPath(tree', u, R)
BY DEF WholeInv, TreeInv, StampInv

(* A removal of nodes that are left without live blocks.                     *)
LEMMA RemoveStep ==
  ASSUME CacheInv, WholeInv, call.pc \notin {"idle", "crashed"},
         NEW gone, gone \subseteq TreeNodes(tree), Severable(tree, gone),
         NEW B, B \subseteq Alive, Pinned \subseteq B,
         \A p \in gone : ToSet(tree[p].bids) \cap B = {},
         NEW X, X = RemoveNodes(tree, gone)
  PROVE  /\ GoodTree(X, B) /\ OnPath(X, call.toks, call.retained)
         /\ Stamped(tree, now) => Stamped(X, now)
<1>1. GoodTree(X, B) /\ (Stamped(tree, now) => Stamped(X, now))
  BY RemoveGood DEF WholeInv, TreeInv
<1>2. IsTree(tree) /\ IsTree(X) /\ call.toks \in Seq(Tokens)
      /\ OnPath(tree, call.toks, call.retained)
  BY <1>1 DEF WholeInv, TreeInv, GoodTree, TreeOK, FrameInv, PathInv
<1>3. ToSet(call.retained) \subseteq Pinned
  BY HeldIsPinned DEF CacheInv, CallShape
<1>4. \A p \in gone : ToSet(tree[p].bids) \cap ToSet(call.retained) = {}
  BY <1>3
<1>5. OnPath(X, call.toks, call.retained)
  BY <1>2, <1>4, RemoveKeeps
<1> QED
  BY <1>1, <1>5

-----------------------------------------------------------------------------
(* The steps of a call.                                                      *)

(* A nonempty sequence without its head.                                     *)
LEMMA TailFacts ==
  ASSUME NEW A, NEW s \in Seq(A), s # <<>>
  PROVE  Tail(s) \in Seq(A) /\ (Len(s) # 1 => Tail(s) # <<>>)
<1>1. Len(s) \in Nat /\ Len(s) # 0
  OBVIOUS
<1>2. Tail(s) \in Seq(A) /\ Len(Tail(s)) = Len(s) - 1
  BY <1>1
<1>3. ASSUME Tail(s) = <<>> PROVE Len(s) = 1
  <2>1. Len(s) - 1 = 0
    BY <1>2, <1>3
  <2> QED
    BY <1>1, <2>1
<1> QED
  BY <1>2, <1>3

(* The frame after a step of the call, but for its end.                      *)
LEMMA InnerFrame ==
  ASSUME CacheInv, WholeInv, InnerStep
  PROVE  FrameInv' /\ call'.toks = call.toks /\ call'.retained = call.retained
         /\ call.pc \notin {"idle", "crashed"} /\ tables' = tables
<1>0. /\ call = [pc |-> call.pc, req |-> call.req, toks |-> call.toks,
                 retained |-> call.retained, victims |-> call.victims, err |-> call.err]
      /\ call.pc \notin {"idle", "crashed"} => call.req # NoRequest
  BY CacheAssumption DEF CacheInv, CallShape
<1>1. /\ call.pc \notin {"idle", "crashed"}
      /\ call'.retained = call.retained /\ tables' = tables
  BY InnerStepIsQuiet
<1>2. <<>> \in Seq(Blocks)
  OBVIOUS
<1> DEFINE Goal == /\ call'.toks = call.toks
                   /\ call'.pc \in {"evict", "demote", "rematch", "unwind"}
                   /\ call'.victims \in Seq(Blocks)
                   /\ call'.pc = "demote" => call'.victims # <<>>
<1>3. call.victims \in Seq(Blocks) /\ (call.pc = "demote" => call.victims # <<>>)
  BY DEF WholeInv, FrameInv
<1>4. ASSUME NextVictimBlock, call.pc = "demote" PROVE Goal
  <2>1. Tail(call.victims) \in Seq(Blocks)
        /\ (Len(call.victims) # 1 => Tail(call.victims) # <<>>)
    BY <1>3, <1>4, TailFacts
  <2>2. /\ call'.toks = call.toks /\ call'.victims = Tail(call.victims)
        /\ call'.pc = IF Len(call.victims) = 1 THEN "evict" ELSE "demote"
    BY <1>0, <1>4 DEF NextVictimBlock
  <2> QED
    BY <2>1, <2>2
<1>5. ASSUME NEW e, Raise(e) PROVE Goal
  BY <1>0, <1>2, <1>5 DEF Raise
<1>6. ASSUME AdmitReturns PROVE Goal
  BY <1>0, <1>1, <1>2, <1>6 DEF AdmitReturns
<1>7. ASSUME call' = [call EXCEPT !.pc = "evict"] PROVE Goal
  BY <1>0, <1>3, <1>7
<1>8. ASSUME SelectVictim PROVE Goal
  <2>1. PICK v \in LruVictims(tree, Pinned) :
          /\ ToSet(tree[v].bids) \cap Alive # {}
          /\ call' = [call EXCEPT !.pc = "demote", !.victims = tree[v].bids]
    BY <1>8 DEF SelectVictim
  <2>2. v \in TreeNodes(tree)
    BY DEF LruVictims, DemotionCandidates
  <2>3. tree[v].bids \in Seq(Blocks)
    BY <2>2, NodeFacts DEF WholeInv, TreeInv, GoodTree, TreeOK
  <2>4. tree[v].bids # <<>>
    BY <2>1, ToSetEmpty
  <2> QED
    BY <1>0, <2>1, <2>3, <2>4
<1>9. ASSUME DropZombie PROVE Goal
  BY <1>0, <1>3, <1>9 DEF DropZombie
<1>10. Goal
  <2>1. AdmitCached => AdmitReturns
    BY DEF AdmitCached
  <2>2. AdmitMiss \/ AdmitPurge => call' = [call EXCEPT !.pc = "evict"]
    BY DEF AdmitMiss, AdmitPurge
  <2>3. AdmitPurgeFails \/ AdmitTooLarge \/ NothingToEvict \/ RematchFails =>
          Raise("MemoryError") \/ Raise("RuntimeError")
    BY DEF AdmitPurgeFails, AdmitTooLarge, NothingToEvict, RematchFails
  <2>4. DemoteDead \/ DemoteDown \/ DemoteOut => NextVictimBlock /\ call.pc = "demote"
    BY DEF DemoteDead, DemoteDown, DemoteOut
  <2>5. Insert => AdmitReturns \/ Raise("MemoryError")
    BY DEF Insert
  <2> HIDE DEF Goal
  <2> QED
    BY <2>1, <2>2, <2>3, <2>4, <2>5, <1>4, <1>5, <1>6, <1>7, <1>8, <1>9 DEF InnerStep
<1>11. call.toks \in Seq(Tokens) /\ Len(call.toks) > 0
  BY <1>1 DEF WholeInv, FrameInv
<1>12. FrameInv'
  BY <1>1, <1>10, <1>11 DEF WholeInv, FrameInv
<1> QED
  BY <1>1, <1>10, <1>12

(* A leaf of the eviction loop that goes without a live block.               *)
LEMMA DropZombieStep ==
  ASSUME CacheInv, WholeInv, DropZombie
  PROVE  TreeInv' /\ (StampInv => StampInv') /\ OnPath(tree', call.toks, call.retained)
<1>1. PICK v \in LruVictims(tree, Pinned) :
        /\ ToSet(tree[v].bids) \cap Alive = {} /\ tree' = RemoveNodes(tree, {v})
        /\ UNCHANGED <<poolVars, now>> /\ call.pc = "evict"
  BY DEF DropZombie
<1>2. v \in TreeNodes(tree) /\ IsLeaf(tree, v)
  BY DEF LruVictims, DemotionCandidates
<1>3. Severable(tree, {v})
  BY <1>2, LeavesSeverable
<1>4. Pinned \subseteq Alive /\ Alive' = Alive
  BY <1>1 DEF CacheInv, PoolInv, PinnedAreAllocated, poolVars, Alive
<1>5. GoodTree(tree', Alive) /\ OnPath(tree', call.toks, call.retained)
      /\ (Stamped(tree, now) => Stamped(tree', now))
  BY <1>1, <1>2, <1>3, <1>4, RemoveStep
<1> QED
  BY <1>1, <1>4, <1>5 DEF WholeInv, TreeInv, StampInv

(* A block freed for good takes its leaf along if it was the last live one.  *)
LEMMA DemoteOutStep ==
  ASSUME CacheInv, WholeInv, DemoteOut
  PROVE  TreeInv' /\ (StampInv => StampInv') /\ OnPath(tree', call.toks, call.retained)
<1>1. PICK b : b = Head(call.victims)
  OBVIOUS
<1>2. /\ call.pc = "demote" /\ b \in Alive /\ FreeBlocks({b}) /\ now' = now
      /\ tree' = PurgeBlocks(tree, {b}, Alive \ {b})
  BY <1>1 DEF DemoteOut
<1>3. Alive' = Alive \ {b} /\ Pinned \subseteq Alive \ {b}
  <2>1. {b} \in SUBSET Blocks
    BY <1>2 DEF Alive
  <2>2. Alive' = Alive \ {b}
    BY <1>2, <2>1, AliveAfter DEF CacheInv, PoolInv
  <2>3. b \notin Pinned /\ Pinned \subseteq Alive
    BY <1>2 DEF FreeBlocks, CacheInv, PoolInv, PinnedAreAllocated
  <2> QED
    BY <2>2, <2>3
<1> DEFINE gone == {p \in TreeNodes(tree) : /\ IsLeaf(tree, p)
                                        /\ ToSet(tree[p].bids) \cap {b} # {}
                                        /\ ToSet(tree[p].bids) \cap (Alive \ {b}) = {}}
<1>4. tree' = RemoveNodes(tree, gone)
  BY <1>2 DEF PurgeBlocks
<1>5. gone \subseteq TreeNodes(tree) /\ \A p \in gone : IsLeaf(tree, p)
  OBVIOUS
<1>6. \A p \in gone : ToSet(tree[p].bids) \cap (Alive \ {b}) = {}
  OBVIOUS
<1> HIDE DEF gone
<1>7. Severable(tree, gone)
  BY <1>5, LeavesSeverable
<1>8. GoodTree(tree', Alive \ {b}) /\ OnPath(tree', call.toks, call.retained)
      /\ (Stamped(tree, now) => Stamped(tree', now))
  BY <1>2, <1>3, <1>4, <1>5, <1>6, <1>7, RemoveStep
<1> QED
  BY <1>2, <1>3, <1>8 DEF WholeInv, TreeInv, StampInv

(* The purge of a path with dead blocks frees the live ones below.           *)
LEMMA AdmitPurgeStep ==
  ASSUME CacheInv, WholeInv, AdmitPurge
  PROVE  TreeInv' /\ (StampInv => StampInv') /\ OnPath(tree', call.toks, call.retained)
<1>1. PICK gone, out, X : /\ gone = SeveredNodes(tree, call.toks, Alive)
                          /\ out = SeveredAlive(tree, call.toks, Alive)
                          /\ X = RemoveNodes(tree, gone)
  OBVIOUS
<1>2. /\ call.pc = "admit" /\ FreeBlocks(out) /\ now' = now
      /\ tree' = Touch(X, call.toks, now)
  BY <1>1 DEF AdmitPurge
<1>3. IsTree(tree) /\ call.toks \in Seq(Tokens) /\ now \in Nat
  BY <1>2 DEF WholeInv, TreeInv, GoodTree, TreeOK, FrameInv
<1>4. gone \subseteq TreeNodes(tree) /\ Severable(tree, gone)
  BY <1>1, <1>3, SeveredSeverable
<1>5. Alive' = Alive \ out /\ Pinned \subseteq Alive \ out
  <2>1. out \in SUBSET Blocks
    BY <1>2 DEF FreeBlocks, Alive
  <2>2. Alive' = Alive \ out
    BY <1>2, <2>1, AliveAfter DEF CacheInv, PoolInv
  <2>3. Pinned \subseteq Alive /\ out \cap Pinned = {}
    BY <1>2 DEF FreeBlocks, CacheInv, PoolInv, PinnedAreAllocated
  <2> QED
    BY <2>2, <2>3
<1>6. \A p \in gone : ToSet(tree[p].bids) \cap (Alive \ out) = {}
  BY <1>1 DEF SeveredAlive
<1>7. GoodTree(X, Alive \ out) /\ OnPath(X, call.toks, call.retained)
      /\ (Stamped(tree, now) => Stamped(X, now))
  BY <1>1, <1>2, <1>4, <1>5, <1>6, RemoveStep
<1>8. GoodTree(tree', Alive \ out) /\ SameBlocks(X, tree')
      /\ (Stamped(X, now) => Stamped(tree', now))
  BY <1>2, <1>3, <1>7, TouchGood
<1>9. IsTree(X) /\ IsTree(tree')
  BY <1>7, <1>8 DEF GoodTree, TreeOK
<1>10. OnPath(tree', call.toks, call.retained)
  BY <1>3, <1>7, <1>8, <1>9, SameKeeps
<1> QED
  BY <1>2, <1>3, <1>5, <1>7, <1>8, <1>10 DEF TreeInv, StampInv

(* The stamp of a victim changes nothing else.                               *)
LEMMA SelectVictimStep ==
  ASSUME CacheInv, WholeInv, SelectVictim
  PROVE  TreeInv' /\ (StampInv => StampInv') /\ OnPath(tree', call.toks, call.retained)
<1>1. PICK v \in LruVictims(tree, Pinned), stamp \in {now, now + 1} :
        /\ tree' = [tree EXCEPT ![v].last = stamp] /\ UNCHANGED <<poolVars, now>>
        /\ call.pc = "evict"
  BY DEF SelectVictim
<1>2. v \in TreeNodes(tree) /\ Alive' = Alive
  BY <1>1 DEF LruVictims, DemotionCandidates, poolVars, Alive
<1>3. IsTree(tree) /\ now \in Nat /\ stamp \in Nat /\ stamp <= now + 1
      /\ call.toks \in Seq(Tokens)
  BY <1>1 DEF WholeInv, TreeInv, GoodTree, TreeOK, FrameInv
<1>4. TreeNodes(tree') = TreeNodes(tree)
  BY <1>1 DEF TreeNodes
<1>5. ASSUME NEW p \in TreeNodes(tree)
      PROVE  /\ tree'[p] \in [bids : Seq(Blocks), last : Nat] /\ tree'[p].bids = tree[p].bids
             /\ tree'[p].last = stamp \/ tree'[p].last = tree[p].last
  <2>1. /\ tree[p].bids \in Seq(Blocks) /\ tree[p].last \in Nat
        /\ tree[p] = [bids |-> tree[p].bids, last |-> tree[p].last]
    BY <1>3, NodeFacts
  <2>2. tree'[p] = IF p = v THEN [tree[p] EXCEPT !.last = stamp] ELSE tree[p]
    BY <1>1, <1>2 DEF TreeNodes
  <2>3. [tree[p] EXCEPT !.last = stamp] = [bids |-> tree[p].bids, last |-> stamp]
    BY <2>1
  <2> QED
    BY <1>3, <2>1, <2>2, <2>3
<1>6. tree' \in [TreeNodes(tree') -> [bids : Seq(Blocks), last : Nat]]
  <2>1. tree' = [p \in DOMAIN tree' |-> tree'[p]]
    BY <1>1
  <2> QED
    BY <1>4, <1>5, <2>1 DEF TreeNodes
<1>7. IsTree(tree') /\ SameBlocks(tree, tree')
  BY <1>3, <1>4, <1>5, <1>6 DEF IsTree, SameBlocks
<1>8. GoodTree(tree', Alive) /\ (Stamped(tree, now) => Stamped(tree', now))
  BY <1>3, <1>4, <1>5, <1>7, RestampGood DEF WholeInv, TreeInv, Stamped
<1>9. OnPath(tree', call.toks, call.retained)
  BY <1>1, <1>3, <1>7, SameKeeps DEF WholeInv, PathInv
<1> QED
  BY <1>1, <1>2, <1>3, <1>8, <1>9 DEF TreeInv, StampInv

(* insert keeps the tree whole: the blocks it allocates are the ones it adds.*)
LEMMA InsertStep ==
  ASSUME CacheInv, WholeInv, Insert
  PROVE  TreeInv' /\ (StampInv => StampInv') /\ OnPath(tree', call.toks, call.retained)
<1>1. PICK toks, P, x, l, n, ids, V, W :
        /\ toks = call.toks /\ P = Touch(tree, toks, now)
        /\ x = SplitMint(tree, toks) /\ l = LeafMint(tree, toks)
        /\ n = (IF x + l <= Free("gpu") THEN x + l ELSE x)
        /\ ids = FreshIds(n)
        /\ V = Split(P, toks, SubSeq(ids, 1, x), now)
        /\ W = AddLeaf(V, toks, SubSeq(ids, x + 1, n), now)
  OBVIOUS
<1>2. /\ call.pc = "evict" /\ n <= Cardinality(UnusedIds) /\ Allocate(ToSet(ids), "gpu")
      /\ now' = now /\ tree' = (IF x + l <= Free("gpu") THEN W ELSE V)
  BY <1>1 DEF Insert
<1>3. /\ TreeOK(tree) /\ OwnedOnce(tree) /\ IsTree(tree) /\ now \in Nat
      /\ toks \in Seq(Tokens) /\ Len(toks) > 0
      /\ OnPath(tree, toks, call.retained) /\ GoodTree(tree, Alive)
  BY <1>1, <1>2 DEF WholeInv, TreeInv, GoodTree, TreeOK, FrameInv, PathInv
<1>4. x \in Nat /\ l \in Nat /\ n \in Nat /\ (n = x \/ n = x + l)
  <2>1. x \in Nat /\ l \in Nat
    BY <1>1, <1>3, MintFacts
  <2> QED
    BY <1>1, <2>1
<1>5. ids \in [1..n -> UnusedIds] /\ IsInjective(ids)
  BY <1>1, <1>2, <1>4, FreshFacts
<1>6. ids \in [1..n -> Blocks] /\ ToSet(ids) \cap BlocksOf(tree) = {} /\ ToSet(ids) \in SUBSET Blocks
  BY <1>5 DEF UnusedIds, ToSet
<1>7. /\ TreeOK(V) /\ OwnedOnce(V)
      /\ n = x => BlocksOf(V) = BlocksOf(tree) \cup ToSet(ids)
      /\ n = x + l => TreeOK(W) /\ OwnedOnce(W) /\ BlocksOf(W) = BlocksOf(tree) \cup ToSet(ids)
  <2>1. /\ x = SplitMint(tree, toks) /\ (n = x \/ n = x + LeafMint(tree, toks))
        /\ V = Split(Touch(tree, toks, now), toks, SubSeq(ids, 1, x), now)
        /\ W = AddLeaf(V, toks, SubSeq(ids, x + 1, n), now)
    BY <1>1, <1>4
  <2>2. /\ TreeOK(V) /\ OwnedOnce(V)
        /\ n = x => BlocksOf(V) = BlocksOf(tree) \cup ToSet(ids)
        /\ n = x + LeafMint(tree, toks) =>
             TreeOK(W) /\ OwnedOnce(W) /\ BlocksOf(W) = BlocksOf(tree) \cup ToSet(ids)
    BY <1>3, <1>4, <1>5, <1>6, <2>1, InsertOK
  <2> QED
    BY <1>1, <2>2
<1>8. Alive' = Alive \cup ToSet(ids)
  BY <1>2, <1>6, AliveAfter DEF CacheInv, PoolInv
<1>9. TreeOK(P) /\ SameBlocks(tree, P) /\ IsTree(P) /\ OnPath(P, toks, call.retained)
      /\ SplitMint(P, toks) = x /\ SharedLen(P, toks) = SharedLen(tree, toks)
      /\ (Stamped(tree, now) => Stamped(P, now))
  <2>1. GoodTree(P, Alive) /\ SameBlocks(tree, P) /\ (Stamped(tree, now) => Stamped(P, now))
    BY <1>1, <1>3, TouchGood
  <2>2. IsTree(P) /\ TreeOK(P)
    BY <2>1 DEF GoodTree, TreeOK
  <2>3. OnPath(P, toks, call.retained)
    BY <1>3, <2>1, <2>2, SameKeeps
  <2>4. SplitMint(P, toks) = x /\ SharedLen(P, toks) = SharedLen(tree, toks)
    BY <1>1, <1>3, <2>1, SameBlocksSame
  <2> QED
    BY <2>1, <2>2, <2>3, <2>4
<1>10. PICK u, v : u = SubSeq(ids, 1, x) /\ v = SubSeq(ids, x + 1, n)
  OBVIOUS
<1>11. u \in Seq(Blocks) /\ Len(u) = x /\ v \in Seq(Blocks) /\ Len(v) = n - x
  <2>1. x \in 0..n
    BY <1>4
  <2>2. CutIds(Blocks, n, x, ids, u, v)
    BY <1>4, <1>5, <1>6, <1>10, <2>1, IdParts
  <2> QED
    BY <2>2 DEF CutIds
<1>12. V = Split(P, toks, u, now) /\ W = AddLeaf(V, toks, v, now)
  BY <1>1, <1>10
<1>13. /\ MatchedLen(V, toks) = SharedLen(P, toks) /\ SharedLen(V, toks) = SharedLen(P, toks)
  BY <1>3, <1>9, <1>11, <1>12, SplitOK
<1>14. Stamped(P, now) => Stamped(V, now)
  <2>1. ASSUME ~NeedsSplit(P, toks) PROVE V = P
    BY <1>12, <2>1 DEF Split
  <2>2. ASSUME NeedsSplit(P, toks), NEW p \in TreeNodes(V)
        PROVE  V[p].last = now \/ (p \in TreeNodes(P) /\ V[p].last = P[p].last)
    <3>0. PICK child, mid, cut, old :
            /\ child = SplitChild(P, toks) /\ mid = SubSeq(toks, 1, SharedLen(P, toks))
            /\ cut = NBlocks(SharedLen(P, toks) - MatchedLen(P, toks)) /\ old = P[child].bids
      OBVIOUS
    <3>1. V = [q \in TreeNodes(P) \cup {mid} |->
                 IF q = mid THEN [bids |-> SubSeq(old, 1, cut), last |-> now]
                 ELSE IF q = child
                      THEN [P[q] EXCEPT !.bids = u \o SubSeq(old, cut + 1, Len(old))]
                 ELSE P[q]]
      BY <1>12, <2>2, <3>0 DEF Split
    <3>2. p \in TreeNodes(P) \cup {mid}
      BY <2>2, <3>1 DEF TreeNodes
    <3>3. CASE p = mid
      BY <3>1, <3>2, <3>3
    <3>4. CASE p # mid
      <4>1. P[p] = [bids |-> P[p].bids, last |-> P[p].last]
        BY <1>9, <3>2, <3>4, NodeFacts
      <4>2. V[p] = (IF p = child THEN [P[p] EXCEPT !.bids = u \o SubSeq(old, cut + 1, Len(old))]
                    ELSE P[p])
        BY <3>1, <3>2, <3>4
      <4>3. V[p].last = P[p].last
        BY <4>1, <4>2
      <4> QED
        BY <3>2, <3>4, <4>3
    <3> QED
      BY <3>3, <3>4
  <2> QED
    BY <1>3, <2>1, <2>2 DEF Stamped
<1>15. ASSUME n = x + l
       PROVE  /\ GoodTree(W, Alive') /\ OnPath(W, toks, call.retained)
              /\ Stamped(V, now) => Stamped(W, now)
  <2>1. Len(v) = CeilDiv(Len(toks) - SharedLen(V, toks))
    <3>1. l = CeilDiv(Len(toks) - SharedLen(tree, toks))
      BY <1>1, <1>3, MintFacts
    <3> QED
      BY <1>4, <1>9, <1>11, <1>13, <1>15, <3>1
  <2>2. LeafTree(V, W, toks, v)
    BY <1>3, <1>7, <1>11, <1>12, <1>13, <2>1, LeafOK
  <2>3. IsTree(V) /\ IsTree(W)
    BY <1>7, <1>15 DEF TreeOK
  <2>4. OnPath(W, toks, call.retained)
    BY <1>3, <1>9, <1>11, <1>12, <2>2, <2>3, InsertKeeps
  <2>5. ASSUME Stamped(V, now), NEW p \in TreeNodes(W) PROVE W[p].last <= now + 1
    <3>1. CASE v = <<>>
      BY <1>12, <2>5, <3>1 DEF AddLeaf, Stamped
    <3>2. CASE v # <<>>
      <4>1. W = [q \in TreeNodes(V) \cup {toks} |->
                   IF q = toks THEN [bids |-> v, last |-> now] ELSE V[q]]
        BY <1>12, <3>2 DEF AddLeaf
      <4>2. p \in TreeNodes(V) \cup {toks}
        BY <2>5, <4>1 DEF TreeNodes
      <4>3. W[p].last = now \/ (p \in TreeNodes(V) /\ W[p].last = V[p].last)
        BY <4>1, <4>2
      <4> QED
        BY <1>3, <2>5, <4>3 DEF Stamped
    <3> QED
      BY <3>1, <3>2
  <2>6. Alive' \subseteq BlocksOf(W)
    BY <1>3, <1>7, <1>8, <1>15 DEF GoodTree
  <2> QED
    BY <1>7, <1>15, <2>4, <2>5, <2>6 DEF GoodTree, Stamped
<1>16. ASSUME n = x PROVE GoodTree(V, Alive') /\ OnPath(V, toks, call.retained)
  <2>1. Alive' \subseteq BlocksOf(V)
    BY <1>3, <1>7, <1>8, <1>16 DEF GoodTree
  <2>2. IsTree(V) /\ LeafTree(V, V, toks, <<>>)
    BY <1>7 DEF TreeOK, LeafTree
  <2>3. OnPath(V, toks, call.retained)
    BY <1>3, <1>9, <1>11, <1>12, <2>2, InsertKeeps
  <2> QED
    BY <1>7, <2>1, <2>3 DEF GoodTree
<1>17. GoodTree(tree', Alive') /\ OnPath(tree', toks, call.retained)
       /\ (Stamped(tree, now) => Stamped(tree', now))
  BY <1>1, <1>2, <1>9, <1>14, <1>15, <1>16
<1> QED
  BY <1>1, <1>2, <1>3, <1>17 DEF TreeInv, StampInv

(* The renumbered time stamps stay below the new time.                       *)
LEMMA TickStep ==
  ASSUME WholeInv, Tick
  PROVE  TreeInv' /\ StampInv' /\ SameBlocks(tree, tree')
<1>1. PICK S : S = {tree[p].last : p \in TreeNodes(tree)}
  OBVIOUS
<1> DEFINE rank(t) == Cardinality({s \in S : s < t})
<1>2. /\ tree' = [p \in TreeNodes(tree) |-> [tree[p] EXCEPT !.last = rank(tree[p].last)]]
      /\ now' = Cardinality(S) /\ UNCHANGED poolVars
  BY <1>1 DEF Tick
<1>3. IsTree(tree) /\ IsFiniteSet(TreeNodes(tree)) /\ GoodTree(tree, Alive)
  BY DEF WholeInv, TreeInv, GoodTree, TreeOK, IsTree
<1>4. IsFiniteSet(S)
  <2>1. PICK D : D = TreeNodes(tree)
    OBVIOUS
  <2> DEFINE f == [p \in D |-> tree[p].last]
  <2>2. f \in Surjection(D, S)
    BY <1>1, <2>1 DEF Surjection
  <2>3. IsFiniteSet(D)
    BY <1>3, <2>1
  <2> HIDE DEF f
  <2> QED
    BY <2>2, <2>3, FS_Surjection
<1>5. Cardinality(S) \in Nat
  BY <1>4, FS_CardinalityType
<1>6. ASSUME NEW t PROVE rank(t) \in Nat /\ rank(t) <= Cardinality(S)
  <2>1. PICK E : E = {s \in S : s < t}
    OBVIOUS
  <2>2. E \subseteq S
    BY <2>1
  <2>3. IsFiniteSet(E) /\ Cardinality(E) <= Cardinality(S)
    BY <1>4, <2>2, FS_Subset
  <2>4. Cardinality(E) \in Nat
    BY <2>3, FS_CardinalityType
  <2> QED
    BY <2>1, <2>3, <2>4
<1> HIDE DEF rank
<1>7. TreeNodes(tree') = TreeNodes(tree)
  BY <1>2 DEF TreeNodes
<1>8. ASSUME NEW p \in TreeNodes(tree)
      PROVE  /\ tree'[p] \in [bids : Seq(Blocks), last : Nat] /\ tree'[p].bids = tree[p].bids
             /\ tree'[p].last <= now' + 1
  <2>1. /\ tree[p].bids \in Seq(Blocks)
        /\ tree[p] = [bids |-> tree[p].bids, last |-> tree[p].last]
    BY <1>3, NodeFacts
  <2>2. PICK k : k = rank(tree[p].last)
    OBVIOUS
  <2>3. tree'[p] = [tree[p] EXCEPT !.last = k]
    BY <1>2, <2>2
  <2>4. tree'[p] = [bids |-> tree[p].bids, last |-> k]
    BY <2>1, <2>3
  <2>5. k \in Nat /\ k <= Cardinality(S)
    BY <1>6, <2>2
  <2>6. k <= now' + 1
    BY <1>2, <1>5, <2>5
  <2> QED
    BY <2>1, <2>4, <2>5, <2>6
<1>9. tree' \in [TreeNodes(tree') -> [bids : Seq(Blocks), last : Nat]]
  <2>1. tree' = [p \in DOMAIN tree' |-> tree'[p]]
    BY <1>2
  <2> QED
    BY <1>7, <1>8, <2>1 DEF TreeNodes
<1>10. IsTree(tree') /\ SameBlocks(tree, tree')
  BY <1>3, <1>7, <1>8, <1>9 DEF IsTree, SameBlocks
<1>11. GoodTree(tree', Alive) /\ StampInv'
  BY <1>3, <1>7, <1>8, <1>10, RestampGood DEF StampInv, Stamped
<1>12. Alive' = Alive
  BY <1>2 DEF poolVars, Alive
<1> QED
  BY <1>2, <1>5, <1>10, <1>11, <1>12 DEF TreeInv

(* The steps of a call that has begun, but for its end.                      *)
LEMMA WholeInner ==
  ASSUME CacheInv, WholeInv, InnerStep
  PROVE  WholeInv' /\ (StampInv => StampInv')
<1>1. FrameInv' /\ call'.toks = call.toks /\ call'.retained = call.retained
      /\ call.pc \notin {"idle", "crashed"}
  BY InnerFrame
<1>2. /\ OnPath(tree, call.toks, call.retained) /\ call.toks \in Seq(Tokens)
      /\ call.retained \in Seq(Blocks)
  BY <1>1 DEF WholeInv, PathInv, FrameInv
<1> DEFINE Goal == TreeInv' /\ (StampInv => StampInv') /\ OnPath(tree', call.toks, call.retained)
<1>3. ASSUME tree' = Touch(tree, call.toks, now), now' = now, UNCHANGED poolVars PROVE Goal
  <2>1. Alive' = Alive
    BY <1>3 DEF poolVars, Alive
  <2> QED
    BY <1>2, <1>3, <2>1, TouchStep
<1>4. ASSUME tree' = tree, now' = now, Alive' = Alive PROVE Goal
  BY <1>2, <1>4, StillStep
<1>5. UNCHANGED poolVars => Alive' = Alive
  BY DEF poolVars, Alive
<1>6. AdmitCached \/ AdmitMiss \/ AdmitPurgeFails \/ RematchFails => Goal
  BY <1>3 DEF AdmitCached, AdmitMiss, AdmitPurgeFails, RematchFails
<1>7. AdmitTooLarge \/ NothingToEvict \/ DemoteDead => Goal
  BY <1>4, <1>5 DEF AdmitTooLarge, NothingToEvict, DemoteDead
<1>8. ASSUME DemoteDown PROVE Goal
  <2>1. PICK b, to : b = Head(call.victims) /\ to = DemotionTarget(blockTier[b])
    OBVIOUS
  <2>2. b \in Alive /\ to # None /\ Move(b, blockTier[b], to) /\ tree' = tree /\ now' = now
    BY <1>8, <2>1 DEF DemoteDown
  <2>3. b \in Blocks /\ blockTier[b] \in Tiers /\ to \in Tiers
    BY <2>1, <2>2 DEF Alive, CacheInv, PoolInv, PoolTypeOK, DemotionTarget, Tiers, None
  <2>4. Alive' = Alive
    BY <2>2, <2>3, AliveAfter DEF CacheInv, PoolInv
  <2> QED
    BY <1>4, <2>2, <2>4
<1>9. Goal
  <2> HIDE DEF Goal
  <2>1. AdmitPurge \/ DropZombie \/ SelectVictim \/ DemoteOut \/ Insert => Goal
    BY AdmitPurgeStep, DropZombieStep, SelectVictimStep, DemoteOutStep, InsertStep DEF Goal
  <2> QED
    BY <1>6, <1>7, <1>8, <2>1 DEF InnerStep
<1> QED
  BY <1>1, <1>9 DEF WholeInv, PathInv

(* The re-match records a table.                                             *)
LEMMA WholeRematch ==
  ASSUME CacheInv, WholeInv, Rematch
  PROVE  /\ WholeInv' /\ (StampInv => StampInv')
         /\ ToSet(call.retained) \subseteq ToSet(tables'[call.req].bids)
<1>1. PICK toks, bids : toks = call.toks /\ bids = SubSeq(PathBlocks(tree, toks), 1, TotalBlocks(toks))
  OBVIOUS
<1>2. /\ call.pc = "rematch" /\ MatchedLen(tree, toks) \div BlockSize >= TotalBlocks(toks)
      /\ tree' = Touch(tree, toks, now) /\ now' = now
      /\ ToSet(bids) \subseteq Alive /\ Pin(ToSet(bids) \ ToSet(call.retained))
      /\ tables' = [tables EXCEPT ![call.req] = [toks |-> toks, bids |-> bids, active |-> TRUE]]
      /\ call' = Idle
  BY <1>1 DEF Rematch, Table
<1>3. toks \in Seq(Tokens) /\ TreeOK(tree) /\ OnPath(tree, toks, call.retained)
  BY <1>1, <1>2 DEF WholeInv, FrameInv, PathInv, TreeInv, GoodTree
<1>4. bids \in Seq(Blocks) /\ ToSet(call.retained) \subseteq ToSet(bids)
  <2>1. MatchedLen(tree, toks) \div BlockSize >= TotalBlocks(toks)
        /\ bids = SubSeq(PathBlocks(tree, toks), 1, TotalBlocks(toks))
    BY <1>1, <1>2
  <2>2. bids \in Seq(Blocks) /\ \A R : OnPath(tree, toks, R) => ToSet(R) \subseteq ToSet(bids)
    BY <1>3, <2>1, MatchedBids
  <2> QED
    BY <1>3, <2>2
<1>5. Alive' = Alive
  BY <1>2 DEF Pin, Alive
<1>6. TreeInv' /\ (StampInv => StampInv')
  BY <1>2, <1>5, TouchStep
<1>7. call.req \in Requests /\ tables = [q \in Requests |-> tables[q]]
  BY <1>2 DEF CacheInv, CallShape, TableShape
<1>8. tables'[call.req].bids = bids
  BY <1>2, <1>7
<1>9. \A q \in Requests : tables'[q].bids \in Seq(Blocks) /\ tables'[q].active \in BOOLEAN
  <2>1. \A q \in Requests : q # call.req => tables'[q] = tables[q]
    BY <1>2, <1>7
  <2>2. tables'[call.req].active = TRUE
    BY <1>2, <1>7
  <2> QED
    BY <1>4, <1>8, <2>1, <2>2 DEF WholeInv, FrameInv
<1>10. FrameInv' /\ PathInv'
  <2>1. /\ call'.pc = "idle" /\ call'.retained = <<>> /\ call'.victims = <<>>
        /\ <<>> \in Seq(Blocks)
    BY <1>2 DEF Idle, Frame
  <2> QED
    BY <1>9, <2>1 DEF FrameInv, PathInv
<1> QED
  BY <1>4, <1>6, <1>8, <1>10 DEF WholeInv

(* materialize_request begins.                                               *)
LEMMA WholeBegin ==
  ASSUME CacheInv, WholeInv, NEW r \in Requests, NEW toks \in Prompts, MaterializeBegin(r, toks)
  PROVE  WholeInv' /\ (StampInv => StampInv')
<1>1. PICK t, prefix : t = AlignedTokens(toks) /\ prefix = LivePrefix(t)
  OBVIOUS
<1>2. /\ TotalBlocks(toks) > 0 /\ tree' = Touch(tree, t, now) /\ now' = now
      /\ Pin(ToSet(prefix)) /\ tables' = tables
      /\ \E pc \in {"admit", "rematch"} :
           call' = [pc |-> pc, req |-> r, toks |-> t, retained |-> prefix,
                    victims |-> <<>>, err |-> "none"]
  BY <1>1 DEF MaterializeBegin, Frame
<1>3. t \in Seq(Tokens) /\ Len(t) > 0
  BY <1>1, <1>2, AlignedFacts
<1>4. OnPath(tree, t, prefix) /\ prefix \in Seq(Blocks)
  BY <1>1, <1>3, LiveFacts DEF WholeInv, TreeInv, GoodTree, OnPath
<1>5. Alive' = Alive
  BY <1>2 DEF Pin, Alive
<1>6. TreeInv' /\ (StampInv => StampInv') /\ OnPath(tree', t, prefix)
  BY <1>2, <1>3, <1>4, <1>5, TouchStep
<1>7. /\ call'.pc \in {"admit", "rematch"} /\ call'.toks = t /\ call'.retained = prefix
      /\ call'.victims = <<>> /\ <<>> \in Seq(Blocks)
  BY <1>2
<1>8. FrameInv'
  BY <1>2, <1>3, <1>4, <1>7 DEF WholeInv, FrameInv
<1> QED
  BY <1>6, <1>7, <1>8 DEF WholeInv, PathInv

(* The calls that leave the tree alone, and the end of a failed one.         *)
LEMMA WholeQuiet ==
  ASSUME CacheInv, WholeInv,
         \/ Unwind
         \/ \E r \in Requests : Release(r)
         \/ \E r \in Requests : \E toks : MaterializeShort(r, toks)
  PROVE  WholeInv' /\ (StampInv => StampInv')
<1>0. <<>> \in Seq(Blocks) /\ tables = [q \in Requests |-> tables[q]]
  BY DEF CacheInv, TableShape
<1>1. tree' = tree /\ now' = now /\ Alive' = Alive
  BY DEF Unwind, Release, MaterializeShort, Unpin, poolVars, Alive
<1>2. TreeInv' /\ (StampInv => StampInv')
  BY <1>1, StillStep
<1>3. CASE Unwind
  <2>1. /\ call'.pc \in {"idle", "crashed"} /\ call'.retained = <<>> /\ call'.victims = <<>>
        /\ tables' = tables
    BY <1>3 DEF Unwind, Idle, Frame
  <2> QED
    BY <1>0, <1>2, <2>1 DEF WholeInv, FrameInv, PathInv
<1>4. ASSUME NEW r \in Requests, NEW bids, bids = <<>>, NEW b \in BOOLEAN,
             tables' = [tables EXCEPT ![r] = [toks |-> <<>>, bids |-> bids, active |-> b]],
             call' = call, call.pc = "idle"
      PROVE  FrameInv' /\ PathInv'
  <2>1. \A q \in Requests : IF q = r THEN tables'[q].bids = <<>> /\ tables'[q].active = b
                            ELSE tables'[q] = tables[q]
    BY <1>0, <1>4
  <2>2. \A q \in Requests : tables'[q].bids \in Seq(Blocks) /\ tables'[q].active \in BOOLEAN
    BY <1>0, <1>4, <2>1 DEF WholeInv, FrameInv
  <2> QED
    BY <1>4, <2>2 DEF WholeInv, FrameInv, PathInv
<1>5. ASSUME NEW r \in Requests, Release(r) PROVE WholeInv' /\ (StampInv => StampInv')
  <2>1. FrameInv' /\ PathInv'
    BY <1>4, <1>5 DEF Release, NoTable
  <2> QED
    BY <1>2, <2>1 DEF WholeInv
<1>6. ASSUME NEW r \in Requests, NEW toks, MaterializeShort(r, toks)
      PROVE  WholeInv' /\ (StampInv => StampInv')
  <2>1. FrameInv' /\ PathInv'
    BY <1>4, <1>6 DEF MaterializeShort, Table
  <2> QED
    BY <1>2, <2>1 DEF WholeInv
<1> QED
  BY <1>3, <1>5, <1>6

(* lookup.                                                                   *)
LEMMA WholeLookup ==
  ASSUME WholeInv, NEW toks, Lookup(toks)
  PROVE  WholeInv' /\ (StampInv => StampInv')
<1>1. /\ call.pc = "idle" /\ tree' = Touch(tree, toks, now) /\ now' = now /\ Alive' = Alive
      /\ call' = call /\ tables' = tables
  BY DEF Lookup, poolVars, Alive
<1>2. TreeInv' /\ (StampInv => StampInv')
  BY <1>1, TouchStep
<1> QED
  BY <1>1, <1>2 DEF WholeInv, FrameInv, PathInv

(* Every step keeps the tree, the frame and the path of the call.            *)
LEMMA WholeNext ==
  ASSUME CacheInv, WholeInv, [Next]_vars
  PROVE  WholeInv' /\ (StampInv => StampInv')
<1>1. CASE Tick
  <2>1. TreeInv' /\ StampInv' /\ call' = call /\ tables' = tables /\ call.pc = "idle"
    BY <1>1, TickStep DEF Tick
  <2> QED
    BY <2>1 DEF WholeInv, FrameInv, PathInv
<1>2. CASE UNCHANGED vars
  BY <1>2 DEF vars, poolVars, WholeInv, TreeInv, FrameInv, PathInv, StampInv, Alive
<1> QED
  BY <1>1, <1>2, WholeInner, WholeRematch, WholeBegin, WholeQuiet, WholeLookup
     DEF Next, CallStep, HandlerCall, InnerStep

(* The empty tree owns the blocks of an empty pool.                          *)
LEMMA WholeStart == Start /\ now \in Nat => WholeInv /\ StampInv
<1> SUFFICES ASSUME Start, now \in Nat PROVE WholeInv /\ StampInv
  OBVIOUS
<1>1. TreeNodes(tree) = {} /\ tree = [p \in {} |-> p] /\ now \in Nat
  BY DEF Start, EmptyTree, TreeNodes
<1>2. IsTree(tree)
  BY <1>1, FS_EmptySet DEF IsTree, TreeNodes
<1>3. TreeOK(tree) /\ OwnedOnce(tree)
  BY <1>1, <1>2 DEF TreeOK, Branching, SizedNodes, OwnedOnce
<1>4. Alive = {}
  BY DEF Start, PoolInit, Alive
<1>5. TreeInv /\ StampInv
  BY <1>1, <1>3, <1>4 DEF TreeInv, GoodTree, StampInv, Stamped
<1>6. FrameInv /\ PathInv
  <2>1. <<>> \in Seq(Blocks)
    OBVIOUS
  <2> QED
    BY <2>1 DEF Start, FrameInv, PathInv, Idle, Frame, NoTable
<1> QED
  BY <1>5, <1>6 DEF WholeInv

(* In particular at time 0.                                                  *)
LEMMA WholeInit == Init => WholeInv /\ StampInv
BY WholeStart DEF Init, Start

(* The tree stays a radix tree: edges part at nodes, a node owns the blocks  *)
(* its key needs, no block is owned twice.                                   *)
THEOREM TreeStaysWellFormed == Spec => []TreeWellFormed
<1>1. CacheInv /\ WholeInv /\ [Next]_vars => CacheInv' /\ WholeInv'
  BY CacheNextPreserves, WholeNext
<1>2. WholeInv => TreeWellFormed
  BY DEF WholeInv, TreeInv, GoodTree, TreeOK, TreeWellFormed
<1> QED
  BY CacheInitInv, WholeInit, <1>1, <1>2, PTL DEF Spec

(* No tier slot leaks: every allocated block is owned by a tree node, after  *)
(* splits, purges, evictions and inserts that failed half way.               *)
THEOREM NothingLeaks == Spec => []NoLeak
<1>1. CacheInv /\ WholeInv /\ [Next]_vars => CacheInv' /\ WholeInv'
  BY CacheNextPreserves, WholeNext
<1>2. WholeInv => NoLeak
  BY DEF WholeInv, TreeInv, GoodTree, NoLeak
<1> QED
  BY CacheInitInv, WholeInit, <1>1, <1>2, PTL DEF Spec

(* Type correctness of the cache manager.                                    *)
THEOREM CacheTypeCorrect == Spec => []TypeOK
<1>1. CacheInv /\ WholeInv /\ StampInv /\ [Next]_vars => CacheInv' /\ WholeInv' /\ StampInv'
  BY CacheNextPreserves, WholeNext
<1>2. CacheInv /\ WholeInv /\ StampInv => TypeOK
  <2> SUFFICES ASSUME CacheInv, WholeInv, StampInv PROVE TypeOK
    OBVIOUS
  <2>1. ASSUME NEW p \in TreeNodes(tree)
        PROVE  p # <<>> /\ tree[p].bids \in Seq(Blocks) /\ tree[p].last \in 0..(now + 1)
    <3>1. IsTree(tree) /\ now \in Nat /\ tree[p].last <= now + 1
      BY DEF WholeInv, TreeInv, GoodTree, TreeOK, StampInv, Stamped
    <3>2. p # <<>> /\ tree[p].bids \in Seq(Blocks) /\ tree[p].last \in Nat
      BY <3>1, NodeFacts DEF IsTree
    <3> QED
      BY <3>1, <3>2
  <2> QED
    BY <2>1 DEF CacheInv, PoolInv, WholeInv, TreeInv, FrameInv, TypeOK
<1> QED
  BY CacheInitInv, WholeInit, <1>1, <1>2, PTL DEF Spec

-----------------------------------------------------------------------------
(* Exact pin counts.                                                         *)

(* PinsCover is one half; the other is that no pin is left over.             *)
LEMMA PinStep ==
  ASSUME CacheInv, PinAccounting, NEW b \in Blocks
  PROVE  /\ pinCount[b] \in Nat /\ Cardinality(Holders(b)) \in Nat
         /\ pinCount[b] = Cardinality(Holders(b)) + (IF b \in ToSet(call.retained) THEN 1 ELSE 0)
BY HoldersFinite DEF CacheInv, PoolInv, PoolTypeOK, PinAccounting

(* A quiet step leaves no pin on a block that had none.                      *)
LEMMA QuietExact ==
  ASSUME CacheInv, PinAccounting, QuietPool, UNCHANGED tables, call'.retained = call.retained
  PROVE  PinAccounting'
<1> SUFFICES ASSUME NEW b \in Blocks
             PROVE  pinCount'[b] = Cardinality(Holders(b)')
                                     + (IF b \in ToSet(call'.retained) THEN 1 ELSE 0)
  BY DEF PinAccounting
<1>1. Holders(b)' = Holders(b)
  BY DEF Holders, Active
<1>2. CASE b \in Pinned
  BY <1>1, <1>2, QuietKeepsPinned, PinStep DEF CacheInv
<1>3. CASE b \notin Pinned
  <2>1. pinCount[b] = 0
    BY <1>3 DEF Pinned, CacheInv, PoolInv, PoolTypeOK
  <2>2. Holders(b) = {} /\ b \notin ToSet(call.retained)
    BY <1>3, HeldIsPinned
  <2>3. pinCount'[b] = 0
    <3>1. ASSUME NEW ids \in SUBSET Blocks, NEW t \in Tiers, Allocate(ids, t) PROVE pinCount'[b] = 0
      BY <2>1, <3>1 DEF Allocate
    <3>2. ASSUME NEW ids \in SUBSET Blocks, FreeBlocks(ids) PROVE pinCount'[b] = 0
      BY <2>1, <3>2 DEF FreeBlocks
    <3>3. ASSUME NEW c \in Blocks, NEW from \in Tiers, NEW to \in Tiers, Move(c, from, to)
          PROVE  pinCount'[b] = 0
      BY <2>1, <3>3 DEF Move
    <3>4. CASE UNCHANGED poolVars
      BY <2>1, <3>4 DEF poolVars
    <3> QED
      BY <3>1, <3>2, <3>3, <3>4 DEF QuietPool
  <2> QED
    BY <1>1, <2>2, <2>3, FS_EmptySet
<1> QED
  BY <1>2, <1>3

(* materialize_request pins what it retains, once.                           *)
LEMMA BeginExact ==
  ASSUME CacheInv, PinAccounting, NEW r \in Requests, NEW toks, MaterializeBegin(r, toks)
  PROVE  PinAccounting'
<1> SUFFICES ASSUME NEW b \in Blocks
             PROVE  pinCount'[b] = Cardinality(Holders(b)')
                                     + (IF b \in ToSet(call'.retained) THEN 1 ELSE 0)
  BY DEF PinAccounting
<1>1. PICK prefix :
        /\ Pin(ToSet(prefix)) /\ call'.retained = prefix
        /\ call.pc = "idle" /\ UNCHANGED tables
  BY DEF MaterializeBegin, Frame
<1>2. Holders(b)' = Holders(b) /\ b \notin ToSet(call.retained)
  BY <1>1, ToSetEmpty DEF Holders, Active, CacheInv, CallShape
<1>3. pinCount'[b] = IF b \in ToSet(prefix) THEN pinCount[b] + 1 ELSE pinCount[b]
  BY <1>1 DEF Pin
<1> QED
  BY <1>1, <1>2, <1>3, PinStep

(* The re-match pins the rest of the table: what it retained is part of it.  *)
LEMMA RematchExact ==
  ASSUME CacheInv, WholeInv, PinAccounting, Rematch
  PROVE  PinAccounting'
<1> SUFFICES ASSUME NEW b \in Blocks
             PROVE  pinCount'[b] = Cardinality(Holders(b)')
                                     + (IF b \in ToSet(call'.retained) THEN 1 ELSE 0)
  BY DEF PinAccounting
<1>1. PICK r, bids :
        /\ r = call.req /\ Pin(ToSet(bids) \ ToSet(call.retained))
        /\ tables' = [tables EXCEPT ![r] = [toks |-> call.toks, bids |-> bids, active |-> TRUE]]
        /\ call' = Idle /\ call.pc = "rematch"
  BY DEF Rematch, Table
<1>2. r \in Requests /\ r \notin Active
  BY <1>1 DEF CacheInv, CallShape
<1>3. /\ tables'[r].active = TRUE /\ tables'[r].bids = bids
      /\ \A q \in Requests : q # r => tables'[q] = tables[q]
  BY <1>1, <1>2 DEF CacheInv, TableShape
<1>4. ToSet(call.retained) \subseteq ToSet(bids)
  BY <1>1, <1>3, WholeRematch
<1>5. b \notin ToSet(call'.retained)
  BY <1>1, ToSetEmpty DEF Idle, Frame
<1>6. Holders(b)' = IF b \in ToSet(bids) THEN Holders(b) \cup {r} ELSE Holders(b)
  BY <1>2, <1>3 DEF Holders, Active
<1>7. r \notin Holders(b)
  BY <1>2 DEF Holders
<1>8. Cardinality(Holders(b) \cup {r}) = Cardinality(Holders(b)) + 1
  BY <1>7, HoldersFinite, FS_AddElement
<1>9. pinCount'[b] = IF b \in ToSet(bids) \ ToSet(call.retained)
                     THEN pinCount[b] + 1 ELSE pinCount[b]
  BY <1>1 DEF Pin
<1> QED
  BY <1>4, <1>5, <1>6, <1>8, <1>9, PinStep

(* The except clause gives every retained pin back.                          *)
LEMMA UnwindExact ==
  ASSUME CacheInv, PinAccounting, Unwind
  PROVE  PinAccounting'
<1> SUFFICES ASSUME NEW b \in Blocks
             PROVE  pinCount'[b] = Cardinality(Holders(b)')
                                     + (IF b \in ToSet(call'.retained) THEN 1 ELSE 0)
  BY DEF PinAccounting
<1>1. Unpin(ToSet(call.retained)) /\ UNCHANGED tables /\ call'.retained = <<>>
  BY DEF Unwind, Idle, Frame
<1>2. Holders(b)' = Holders(b) /\ b \notin ToSet(call'.retained)
  BY <1>1, ToSetEmpty DEF Holders, Active
<1>3. pinCount'[b] = IF b \in ToSet(call.retained) THEN pinCount[b] - 1 ELSE pinCount[b]
  BY <1>1 DEF Unpin
<1> QED
  BY <1>2, <1>3, PinStep

(* release_request gives back one pin for each block of the table.           *)
LEMMA ReleaseExact ==
  ASSUME CacheInv, PinAccounting, NEW r \in Requests, Release(r)
  PROVE  PinAccounting'
<1> SUFFICES ASSUME NEW b \in Blocks
             PROVE  pinCount'[b] = Cardinality(Holders(b)')
                                     + (IF b \in ToSet(call'.retained) THEN 1 ELSE 0)
  BY DEF PinAccounting
<1>1. /\ Unpin(ToSet(tables[r].bids)) /\ r \in Active
      /\ tables' = [tables EXCEPT ![r] = NoTable]
      /\ UNCHANGED call /\ call.pc = "idle"
  BY DEF Release
<1>2. /\ tables'[r].active = FALSE /\ \A q \in Requests : q # r => tables'[q] = tables[q]
  BY <1>1 DEF CacheInv, TableShape, NoTable
<1>3. b \notin ToSet(call'.retained) /\ b \notin ToSet(call.retained)
  BY <1>1, ToSetEmpty DEF CacheInv, CallShape
<1>4. Holders(b)' = Holders(b) \ {r} /\ (r \in Holders(b) <=> b \in ToSet(tables[r].bids))
  BY <1>1, <1>2 DEF Holders, Active
<1>5. Cardinality(Holders(b) \ {r})
        = IF r \in Holders(b) THEN Cardinality(Holders(b)) - 1 ELSE Cardinality(Holders(b))
  BY HoldersFinite, FS_RemoveElement
<1>6. pinCount'[b] = IF b \in ToSet(tables[r].bids) THEN pinCount[b] - 1 ELSE pinCount[b]
  BY <1>1 DEF Unpin
<1> QED
  BY <1>3, <1>4, <1>5, <1>6, PinStep

(* A step that touches neither the pool nor who holds what.                  *)
LEMMA SameExact ==
  ASSUME CacheInv, PinAccounting, UNCHANGED <<poolVars, call>>,
         tables' = tables \/ \E r \in Requests : \E toks : MaterializeShort(r, toks)
  PROVE  PinAccounting'
<1>1. ASSUME tables' = tables PROVE \A b \in Blocks : Holders(b)' = Holders(b)
  BY <1>1 DEF Holders, Active
<1>2. ASSUME NEW r \in Requests, NEW toks, MaterializeShort(r, toks)
      PROVE  \A b \in Blocks : Holders(b)' = Holders(b)
  <2>1. r \notin Active /\ tables' = [tables EXCEPT ![r] = [toks |-> <<>>, bids |-> <<>>, active |-> TRUE]]
    BY <1>2 DEF MaterializeShort, Table
  <2>2. tables'[r].bids = <<>> /\ \A q \in Requests : q # r => tables'[q] = tables[q]
    BY <2>1 DEF CacheInv, TableShape
  <2> QED
    BY <2>1, <2>2, ToSetEmpty DEF Holders, Active
<1>3. \A b \in Blocks : Holders(b)' = Holders(b)
  BY <1>1, <1>2
<1> QED
  BY <1>3 DEF PinAccounting, poolVars

(* Every step keeps the counts exact.                                        *)
LEMMA ExactNext ==
  ASSUME CacheInv, WholeInv, PinAccounting, [Next]_vars
  PROVE  PinAccounting'
<1>1. CASE InnerStep
  BY <1>1, InnerStepIsQuiet, QuietExact
<1>2. CASE Tick \/ (\E toks \in Prompts : Lookup(toks)) \/ UNCHANGED vars
  BY <1>2, SameExact DEF Tick, Lookup, vars
<1>3. ASSUME NEW r \in Requests, NEW toks \in Prompts, MaterializeShort(r, toks) PROVE PinAccounting'
  BY <1>3, SameExact DEF MaterializeShort
<1> QED
  BY <1>1, <1>2, <1>3, RematchExact, UnwindExact, BeginExact, ReleaseExact
     DEF Next, CallStep, HandlerCall, InnerStep

(* Nothing is pinned at the start.                                           *)
LEMMA ExactStart == Start => PinAccounting
<1> SUFFICES ASSUME Start PROVE PinAccounting
  OBVIOUS
<1>1. Active = {}
  BY DEF Start, NoTable, Active
<1>2. \A b \in Blocks : Holders(b) = {} /\ b \notin ToSet(call.retained)
  BY <1>1, ToSetEmpty DEF Holders, Start, Idle, Frame
<1>3. \A b \in Blocks : pinCount[b] = 0
  BY DEF Start, PoolInit
<1> QED
  BY <1>2, <1>3, FS_EmptySet DEF PinAccounting

(* A block's pin count is the number of active tables that contain it, plus  *)
(* one while the running materialize_request holds it: no path of a call,    *)
(* failed or not, leaks or drops a pin.                                      *)
THEOREM PinsExact == Spec => []PinAccounting
<1>1. CacheInv /\ WholeInv /\ PinAccounting /\ [Next]_vars => CacheInv' /\ WholeInv' /\ PinAccounting'
  BY CacheNextPreserves, WholeNext, ExactNext
<1>2. Init => PinAccounting
  BY ExactStart DEF Init, Start
<1> QED
  BY CacheInitInv, WholeInit, <1>1, <1>2, PTL DEF Spec

-----------------------------------------------------------------------------
(* What the callers of the cache rely on.                                    *)

(* A request without an active table has no blocks.                          *)
IdleTablesEmpty == \A r \in Requests : ~tables[r].active => tables[r].bids = <<>>

(* All of the invariant.  It does not depend on the clock, but for its type. *)
ManagerInv == CacheInv /\ WholeInv /\ PinAccounting /\ IdleTablesEmpty

(* What a step of materialize_request does: it goes on, it records the table *)
(* and returns, or it returns or ends the program without one.               *)
LEMMA CallStepEffect ==
  ASSUME CacheInv, CallStep
  PROVE  /\ call.pc \notin {"idle", "crashed"} /\ call.req \in Requests \ Active
         /\ \/ /\ tables' = tables /\ call'.pc \notin {"idle", "crashed"}
               /\ call'.req = call.req
            \/ /\ \E t : t.active = TRUE /\ tables' = [tables EXCEPT ![call.req] = t]
               /\ call'.pc = "idle"
            \/ tables' = tables /\ call'.pc \in {"idle", "crashed"}
<1>1. call.pc \notin {"idle", "crashed"} => call.req \in Requests \ Active
  BY DEF CacheInv, CallShape
<1>2. CASE InnerStep
  BY <1>1, <1>2, InnerStepIsQuiet
<1>3. CASE Rematch
  <2>1. PICK t : t.active = TRUE /\ tables' = [tables EXCEPT ![call.req] = t]
    BY <1>3 DEF Rematch, Table
  <2>2. call.pc = "rematch" /\ call'.pc = "idle"
    BY <1>3 DEF Rematch, Idle, Frame
  <2> QED
    BY <1>1, <2>1, <2>2
<1>4. CASE Unwind
  BY <1>1, <1>4 DEF Unwind, Idle, Frame
<1> QED
  BY <1>2, <1>3, <1>4 DEF CallStep, InnerStep

(* The steps of a call keep the invariant.                                   *)
LEMMA ManagerCallStep ==
  ASSUME ManagerInv, CallStep
  PROVE  ManagerInv' /\ TableBlocksStay
<1>1. CacheInv' /\ WholeInv' /\ PinAccounting' /\ TableBlocksStay
  BY CacheNextPreserves, WholeNext, ExactNext, StepKeepsTables DEF ManagerInv, Next
<1>2. ASSUME tables' = tables PROVE IdleTablesEmpty'
  BY <1>2 DEF ManagerInv, IdleTablesEmpty
<1>3. ASSUME NEW t, t.active = TRUE, tables' = [tables EXCEPT ![call.req] = t] PROVE IdleTablesEmpty'
  <2>1. tables = [q \in Requests |-> tables[q]]
    BY DEF ManagerInv, CacheInv, TableShape
  <2>2. \A q \in Requests : tables'[q] = tables[q] \/ tables'[q] = t
    BY <1>3, <2>1
  <2> QED
    BY <1>3, <2>2 DEF ManagerInv, IdleTablesEmpty
<1> QED
  BY <1>1, <1>2, <1>3, CallStepEffect DEF ManagerInv

(* So do the calls of the event handlers.                                    *)
LEMMA ManagerLookup ==
  ASSUME ManagerInv, NEW toks, Lookup(toks)
  PROVE  ManagerInv' /\ TableBlocksStay /\ call.pc = "idle" /\ call' = call /\ tables' = tables
<1>1. UNCHANGED <<poolVars, tables, call>> /\ call.pc = "idle"
  BY DEF Lookup
<1>2. WholeInv'
  BY WholeLookup DEF ManagerInv
<1>3. CacheInv'
  BY <1>1, PoolStutter
     DEF ManagerInv, CacheInv, CallShape, TableShape, PinsCover, Holders, Active, poolVars
<1>4. PinAccounting' /\ IdleTablesEmpty'
  BY <1>1, SameExact DEF ManagerInv, IdleTablesEmpty
<1>5. TableBlocksStay
  <2> SUFFICES ASSUME NEW r \in Active, NEW b \in ToSet(tables[r].bids) PROVE b \in Alive
    BY <1>1 DEF TableBlocksStay, poolVars
  <2>1. b \in Blocks /\ Holders(b) # {}
    BY DEF ManagerInv, CacheInv, TableShape, Holders
  <2> QED
    BY <2>1, HeldIsPinned DEF ManagerInv
<1> QED
  BY <1>1, <1>2, <1>3, <1>4, <1>5 DEF ManagerInv

(* A call of materialize_request begins; its prompt is not empty.            *)
LEMMA ManagerBegin ==
  ASSUME ManagerInv, NEW r \in Requests, NEW toks \in Prompts \cup {<<>>}, MaterializeBegin(r, toks)
  PROVE  /\ ManagerInv' /\ TableBlocksStay
         /\ call.pc = "idle" /\ r \notin Active /\ tables' = tables
         /\ call'.pc \notin {"idle", "crashed"} /\ call'.req = r
<1>1. toks \in Prompts
  <2>1. TotalBlocks(toks) > 0
    BY DEF MaterializeBegin
  <2>2. TotalBlocks(<<>>) = 0
    BY BlockSizeAssumption DEF TotalBlocks
  <2> QED
    BY <2>1, <2>2
<1>2. Next
  BY <1>1 DEF Next, HandlerCall
<1>3. CacheInv' /\ WholeInv' /\ PinAccounting' /\ TableBlocksStay
  BY <1>2, CacheNextPreserves, WholeNext, ExactNext, StepKeepsTables DEF ManagerInv
<1>4. /\ call.pc = "idle" /\ r \notin Active /\ tables' = tables
      /\ call'.pc \notin {"idle", "crashed"} /\ call'.req = r
  BY DEF MaterializeBegin, Frame
<1> QED
  BY <1>3, <1>4 DEF ManagerInv, IdleTablesEmpty

(* A table is released.                                                      *)
LEMMA ManagerRelease ==
  ASSUME ManagerInv, NEW r \in Requests, Release(r)
  PROVE  /\ ManagerInv' /\ TableBlocksStay
         /\ call.pc = "idle" /\ call' = call /\ Active' = Active \ {r}
<1>1. CacheInv' /\ WholeInv' /\ PinAccounting' /\ TableBlocksStay
  BY CacheNextPreserves, WholeNext, ExactNext, StepKeepsTables DEF ManagerInv, Next, HandlerCall
<1>2. /\ call.pc = "idle" /\ call' = call
      /\ tables' = [tables EXCEPT ![r] = [toks |-> <<>>, bids |-> <<>>, active |-> FALSE]]
  BY DEF Release, NoTable
<1>3. /\ tables'[r].bids = <<>> /\ tables'[r].active = FALSE
      /\ \A q \in Requests : q # r => tables'[q] = tables[q]
  BY <1>2 DEF ManagerInv, CacheInv, TableShape
<1>4. IdleTablesEmpty' /\ Active' = Active \ {r}
  BY <1>3 DEF ManagerInv, IdleTablesEmpty, Active
<1> QED
  BY <1>1, <1>2, <1>4 DEF ManagerInv

(* The clock of the event loop may move between calls.                       *)
LEMMA ManagerIdle ==
  ASSUME ManagerInv, UNCHANGED <<poolVars, tree, tables, call>>, now' \in Nat
  PROVE  ManagerInv' /\ Active' = Active
<1>1. CacheInv'
  BY PoolStutter
     DEF ManagerInv, CacheInv, CallShape, TableShape, PinsCover, Holders, Active, poolVars
<1>2. WholeInv'
  BY DEF ManagerInv, WholeInv, TreeInv, FrameInv, PathInv, Alive, poolVars
<1>3. PinAccounting' /\ IdleTablesEmpty' /\ Active' = Active
  BY SameExact DEF ManagerInv, IdleTablesEmpty, Active
<1> QED
  BY <1>1, <1>2, <1>3 DEF ManagerInv

(* At the start, whatever time it is.                                        *)
LEMMA ManagerInit ==
  ASSUME Start, now \in Nat
  PROVE  ManagerInv /\ Active = {}
<1>1. Active = {}
  BY DEF Start, NoTable, Active
<1>2. IdleTablesEmpty
  BY DEF Start, NoTable, IdleTablesEmpty
<1> QED
  BY <1>1, <1>2, CacheStartInv, WholeStart, ExactStart DEF ManagerInv

(* A block of a table, active or not, is allocated.                          *)
LEMMA TableIsAlive ==
  ASSUME ManagerInv, NEW r \in Requests, NEW b \in ToSet(tables[r].bids)
  PROVE  r \in Active /\ b \in Alive
<1>1. r \in Active
  BY ToSetEmpty DEF ManagerInv, IdleTablesEmpty, Active
<1>2. b \in Blocks /\ Holders(b) # {}
  BY <1>1 DEF ManagerInv, CacheInv, TableShape, Holders
<1> QED
  BY <1>1, <1>2, HeldIsPinned DEF ManagerInv

(* With no table and no call there is no pin.                                *)
LEMMA NothingPinned ==
  ASSUME ManagerInv, Active = {}, call.pc = "idle"
  PROVE  Pinned = {} /\ NoLeak
<1>1. \A b \in Blocks : Holders(b) = {} /\ b \notin ToSet(call.retained)
  BY ToSetEmpty DEF Holders, ManagerInv, CacheInv, CallShape
<1>2. \A b \in Blocks : pinCount[b] = 0
  BY <1>1, FS_EmptySet DEF ManagerInv, PinAccounting
<1> QED
  BY <1>2 DEF Pinned, ManagerInv, WholeInv, TreeInv, GoodTree, NoLeak

-----------------------------------------------------------------------------
(* A table is the path of its prompt, when prompts part between blocks.      *)

(* The same blocks at every step make the same path.                         *)
LEMMA SamePath ==
  ASSUME NEW T, IsTree(T), NEW U, IsTree(U), NEW toks \in Seq(Tokens),
         \A n \in 1..Len(toks) : Held(U, SubSeq(toks, 1, n)) = Held(T, SubSeq(toks, 1, n))
  PROVE  PathBlocks(U, toks) = PathBlocks(T, toks)
<1>0. PICK N : N = Len(toks)
  OBVIOUS
<1>1. N \in Nat
  BY <1>0
<1>2. PICK f : IsPath(f, T, toks) /\ PathBlocks(T, toks) = f[N]
  BY <1>0, PathExists
<1>3. PICK g : IsPath(g, U, toks) /\ PathBlocks(U, toks) = g[N]
  BY <1>0, PathExists
<1>4. f[0] = <<>> /\ \A n \in 1..N : f[n] = f[n - 1] \o Held(T, SubSeq(toks, 1, n))
  BY <1>0, <1>2, PathStep
<1>5. g[0] = <<>> /\ \A n \in 1..N : g[n] = g[n - 1] \o Held(U, SubSeq(toks, 1, n))
  BY <1>0, <1>3, PathStep
<1> DEFINE G == {n \in 0..N : g[n] = f[n]}
<1>6. 0 \in G
  BY <1>1, <1>4, <1>5
<1>7. ASSUME NEW n \in 1..N, n - 1 \in G PROVE n \in G
  <2>1. n \in 0..N /\ g[n - 1] = f[n - 1]
    BY <1>1, <1>7
  <2>2. g[n] = f[n]
    BY <1>0, <1>4, <1>5, <2>1
  <2> QED
    BY <2>1, <2>2
<1> HIDE DEF G
<1>8. \A n \in 0..N : n \in G
  BY <1>1, <1>6, <1>7, UpTo
<1>9. N \in G
  BY <1>1, <1>8
<1> QED
  BY <1>2, <1>3, <1>9 DEF G

(* The blocks of the nodes on a path are on it, and every node has some.     *)
LEMMA NodeOnPath ==
  ASSUME NEW T, TreeOK(T), NEW toks \in Seq(Tokens), NEW n \in 1..Len(toks),
         SubSeq(toks, 1, n) \in TreeNodes(T)
  PROVE  /\ ToSet(T[SubSeq(toks, 1, n)].bids) # {}
         /\ ToSet(T[SubSeq(toks, 1, n)].bids) \subseteq ToSet(PathBlocks(T, toks))
<1>0. PICK N, p : N = Len(toks) /\ p = SubSeq(toks, 1, n)
  OBVIOUS
<1>1. N \in Nat /\ IsTree(T) /\ n \in 0..N /\ n - 1 \in 0..N /\ N \in n..N
  BY <1>0 DEF TreeOK
<1>2. PICK f : IsPath(f, T, toks) /\ PathBlocks(T, toks) = f[N]
  BY <1>0, PathExists
<1>3. PICK s, h, t : s = f[n - 1] /\ h = T[p].bids /\ t = f[N]
  OBVIOUS
<1>4. f[n] = s \o h /\ s \in Seq(Blocks) /\ h \in Seq(Blocks) /\ t \in Seq(Blocks)
  <2>1. /\ \A k \in 1..Len(toks) : f[k] = f[k - 1] \o Held(T, SubSeq(toks, 1, k))
        /\ \A k \in 1..Len(toks) : Held(T, SubSeq(toks, 1, k)) \in Seq(Blocks)
        /\ \A k \in 0..Len(toks) : f[k] \in Seq(Blocks)
    BY <1>1, <1>2, PathStep
  <2>2. Held(T, SubSeq(toks, 1, n)) = h
    BY <1>0, <1>3 DEF Held
  <2>3. f[n] = f[n - 1] \o h /\ h \in Seq(Blocks)
    BY <2>1, <2>2
  <2>4. f[n - 1] \in Seq(Blocks) /\ f[N] \in Seq(Blocks)
    BY <1>0, <1>1, <2>1
  <2> QED
    BY <1>3, <2>3, <2>4
<1>5. StartsWith(t, Len(f[n]), f[n])
  BY <1>0, <1>1, <1>2, <1>3, PathGrows
<1>6. ASSUME NEW i \in 1..Len(h) PROVE h[i] \in ToSet(t)
  <2>1. Len(s) \in Nat /\ Len(h) \in Nat /\ Len(f[n]) = Len(s) + Len(h) /\ Len(t) \in Nat
    BY <1>4
  <2>2. PICK j : j = Len(s) + i
    OBVIOUS
  <2>3. j \in 1..Len(f[n]) /\ (s \o h)[j] = h[i]
    BY <1>4, <2>1, <2>2
  <2>4. t[j] = h[i] /\ Len(f[n]) <= Len(t)
    BY <1>4, <1>5, <2>3 DEF StartsWith
  <2>5. j \in 1..Len(t)
    BY <2>1, <2>3, <2>4
  <2>6. j \in DOMAIN t
    BY <1>4, <2>5
  <2> QED
    BY <2>4, <2>6 DEF ToSet
<1>7. ToSet(h) \subseteq ToSet(t)
  <2>1. DOMAIN h = 1..Len(h)
    BY <1>4
  <2> QED
    BY <1>6, <2>1 DEF ToSet
<1>8. Len(h) # 0 /\ Len(h) \in Nat
  <2>1. p \in Seq(Tokens) /\ Len(p) \in Nat /\ Len(p) > 0
    BY <1>0, <1>1, NodeFacts
  <2>2. PICK l : l = ParentLen(T, p)
    OBVIOUS
  <2>3. l \in 0..Len(p) - 1
    BY <1>1, <2>1, <2>2, ParentFacts
  <2>4. Len(p) - l \in Nat /\ Len(p) - l # 0
    BY <2>1, <2>3
  <2>5. Len(h) = CeilDiv(Len(p) - l)
    BY <1>0, <1>3, <2>2 DEF TreeOK, SizedNodes, KeyLen
  <2> QED
    BY <1>4, <2>4, <2>5, CeilZero
<1>9. ToSet(h) # {}
  <2>1. 1 \in DOMAIN h
    BY <1>4, <1>8
  <2> QED
    BY <2>1 DEF ToSet
<1> QED
  BY <1>0, <1>2, <1>3, <1>7, <1>9

(* The prompt is a node, and R are the blocks on its path.                   *)
Owns(T, toks, R) == toks \in TreeNodes(T) /\ R = PathBlocks(T, toks)

(* Time stamps do not matter.                                                *)
LEMMA SameOwns ==
  ASSUME NEW T, IsTree(T), NEW U, IsTree(U), SameBlocks(T, U), NEW toks, NEW R, Owns(T, toks, R)
  PROVE  Owns(U, toks, R)
<1>1. toks \in Seq(Tokens) /\ toks \in TreeNodes(T) /\ R = PathBlocks(T, toks)
  BY NodeFacts DEF Owns
<1>2. \A p : Held(U, p) = Held(T, p)
  BY DEF Held, SameBlocks
<1>3. PathBlocks(U, toks) = PathBlocks(T, toks)
  BY <1>1, <1>2, SamePath
<1> QED
  BY <1>1, <1>3 DEF Owns, SameBlocks

(* Nodes without a block of R may go.                                        *)
LEMMA RemoveOwns ==
  ASSUME NEW T, TreeOK(T), NEW gone, NEW U, IsTree(U), U = RemoveNodes(T, gone),
         NEW toks, NEW R, Owns(T, toks, R),
         \A p \in gone : ToSet(T[p].bids) \cap ToSet(R) = {}
  PROVE  Owns(U, toks, R)
<1>0. IsTree(T)
  BY DEF TreeOK
<1>1. toks \in Seq(Tokens) /\ toks \in TreeNodes(T) /\ R = PathBlocks(T, toks)
      /\ Len(toks) \in Nat /\ Len(toks) > 0
  BY <1>0, NodeFacts DEF Owns
<1>2. TreeNodes(U) = TreeNodes(T) \ gone /\ \A p \in TreeNodes(T) \ gone : U[p] = T[p]
  BY DEF RemoveNodes, TreeNodes
<1>3. ASSUME NEW n \in 1..Len(toks), SubSeq(toks, 1, n) \in TreeNodes(T)
      PROVE  SubSeq(toks, 1, n) \notin gone
  <2>1. PICK p : p = SubSeq(toks, 1, n)
    OBVIOUS
  <2>2. ToSet(T[p].bids) # {} /\ ToSet(T[p].bids) \subseteq ToSet(R)
    BY <1>1, <1>3, <2>1, NodeOnPath
  <2> QED
    BY <2>1, <2>2
<1>4. \A n \in 1..Len(toks) : Held(U, SubSeq(toks, 1, n)) = Held(T, SubSeq(toks, 1, n))
  BY <1>2, <1>3 DEF Held
<1>5. PathBlocks(U, toks) = PathBlocks(T, toks)
  BY <1>0, <1>1, <1>4, SamePath
<1>6. toks \in TreeNodes(U)
  <2>1. Len(toks) \in 0..Len(toks) /\ Len(toks) \in 1..Len(toks)
    BY <1>1
  <2>2. Agree(toks, toks, Len(toks))
    BY <1>1 DEF Agree
  <2>3. toks = SubSeq(toks, 1, Len(toks))
    BY <1>1, <2>1, <2>2, FirstTokens
  <2>4. PICK n : n = Len(toks)
    OBVIOUS
  <2>5. n \in 1..Len(toks) /\ toks = SubSeq(toks, 1, n)
    BY <2>1, <2>3, <2>4
  <2>6. SubSeq(toks, 1, n) \in TreeNodes(T)
    BY <1>1, <2>5
  <2>7. SubSeq(toks, 1, n) \notin gone
    BY <1>3, <2>5, <2>6
  <2>8. toks \notin gone
    BY <2>5, <2>7
  <2> QED
    BY <1>1, <1>2, <2>8
<1> QED
  BY <1>1, <1>5, <1>6 DEF Owns

(* The two parts of an edge hold the blocks of the edge in order.            *)
LEMMA CutJoins ==
  ASSUME NEW S, NEW s \in Seq(S), NEW c \in 0..Len(s)
  PROVE  SubSeq(s, 1, c) \o SubSeq(s, c + 1, Len(s)) = s
<1>1. PICK u, v : u = SubSeq(s, 1, c) /\ v = SubSeq(s, c + 1, Len(s))
  OBVIOUS
<1>2. Len(s) \in Nat /\ c \in Nat /\ c <= Len(s)
  OBVIOUS
<1>3. u \in Seq(S) /\ Len(u) = c /\ \A i \in 1..c : u[i] = s[i]
  BY <1>1, FirstBlocks DEF StartsWith
<1>4. v \in Seq(S) /\ Len(v) = Len(s) - c /\ \A i \in 1..Len(s) - c : v[i] = s[i + c]
  BY <1>1, RestOf
<1>5. u \o v \in Seq(S) /\ Len(u \o v) = Len(s)
  <2>1. u \o v \in Seq(S) /\ Len(u \o v) = Len(u) + Len(v)
    BY <1>3, <1>4
  <2> QED
    BY <1>2, <1>3, <1>4, <2>1
<1>6. ASSUME NEW i \in 1..Len(s) PROVE (u \o v)[i] = s[i]
  <2>1. CASE i <= c
    <3>1. i \in 1..c /\ i \in 1..Len(u)
      BY <1>2, <1>3, <2>1
    <3>2. (u \o v)[i] = u[i]
      BY <1>3, <1>4, <3>1
    <3> QED
      BY <1>3, <3>1, <3>2
  <2>2. CASE i > c
    <3>1. PICK j : j = i - c
      OBVIOUS
    <3>2. j \in 1..Len(s) - c /\ i = Len(u) + j /\ j + c = i /\ j \in 1..Len(v)
      BY <1>2, <1>3, <1>4, <2>2, <3>1
    <3>3. (u \o v)[i] = v[j]
      BY <1>3, <1>4, <3>2
    <3> QED
      BY <1>4, <3>2, <3>3
  <2>3. i \in Nat
    BY <1>2
  <2>4. i <= c \/ i > c
    BY <1>2, <2>3
  <2> QED
    BY <2>1, <2>2, <2>4
<1> QED
  BY <1>1, <1>5, <1>6, SeqEqual

(* n tokens fill whole blocks.                                               *)
FillsBlocks(n) == \E k \in Nat : n = k * BlockSize

(* The aligned parts of two prompts part between blocks.                     *)
PromptsPartBetweenBlocks ==
  \A p, q \in Prompts : FillsBlocks(CpLen(AlignedTokens(p), AlignedTokens(q)))

(* The nodes end between blocks, on the way of a prompt.                     *)
BlockTree(T) ==
  \A p \in TreeNodes(T) :
    /\ FillsBlocks(Len(p))
    /\ \E q \in Prompts : Agree(p, AlignedTokens(q), Len(p))

(* The aligned part of a prompt fills whole blocks.                          *)
LEMMA AlignedFills ==
  ASSUME NEW q \in Prompts
  PROVE  AlignedTokens(q) \in Seq(Tokens) /\ FillsBlocks(Len(AlignedTokens(q)))
<1>1. q \in Seq(Tokens) /\ Len(q) \in Nat /\ BlockSize \in Nat \ {0}
  BY PromptIsSeq, BlockSizeAssumption
<1>2. PICK k : k = Len(q) \div BlockSize
  OBVIOUS
<1>3. k \in Nat /\ k * BlockSize <= Len(q)
  BY <1>1, <1>2, DivFacts
<1>4. PICK m : m = k * BlockSize
  OBVIOUS
<1>5. m \in 0..Len(q)
  BY <1>1, <1>3, <1>4
<1>6. SubSeq(q, 1, m) \in Seq(Tokens) /\ Len(SubSeq(q, 1, m)) = m
  BY <1>1, <1>5, FirstTokens
<1> QED
  BY <1>2, <1>3, <1>4, <1>6 DEF AlignedTokens, FillsBlocks

(* What insert shares with the tree, and what it matches, fills whole blocks.*)
LEMMA SharedFills ==
  ASSUME PromptsPartBetweenBlocks, NEW T, IsTree(T), BlockTree(T), NEW q \in Prompts,
         NEW toks, toks = AlignedTokens(q)
  PROVE  FillsBlocks(SharedLen(T, toks)) /\ FillsBlocks(MatchedLen(T, toks))
<1>1. toks \in Seq(Tokens) /\ Len(toks) \in Nat /\ BlockSize \in Nat \ {0}
  BY AlignedFills, BlockSizeAssumption
<1>2. FillsBlocks(0)
  <2>1. 0 = 0 * BlockSize /\ 0 \in Nat
    BY <1>1
  <2> QED
    BY <2>1 DEF FillsBlocks
<1>3. PICK n, m : n = SharedLen(T, toks) /\ m = MatchedLen(T, toks)
  OBVIOUS
<1>4. FillsBlocks(m)
  <2>1. m \in 0..Len(toks) /\ (m # 0 => SubSeq(toks, 1, m) \in TreeNodes(T))
    BY <1>1, <1>3, MatchedFacts
  <2>2. Len(SubSeq(toks, 1, m)) = m
    BY <1>1, <2>1, FirstTokens
  <2>3. PICK p : p = SubSeq(toks, 1, m)
    OBVIOUS
  <2> QED
    BY <1>2, <2>1, <2>2, <2>3 DEF BlockTree
<1>5. ASSUME n # 0 PROVE FillsBlocks(n)
  <2>1. PICK p \in TreeNodes(T) : Agree(p, toks, n)
    BY <1>1, <1>3, <1>5, SharedFacts
  <2>2. n \in 0..Len(toks) /\ n \in Nat /\ \A k \in Nat : Agree(p, toks, k) => k <= n
    <3>1. n \in 0..Len(toks) /\ \A k \in Nat : Agree(p, toks, k) => k <= n
      BY <1>1, <1>3, <2>1, SharedFacts
    <3> QED
      BY <1>1, <3>1
  <2>3. p \in Seq(Tokens) /\ Len(p) \in Nat /\ FillsBlocks(Len(p))
    BY <2>1, NodeFacts DEF BlockTree
  <2>4. PICK r \in Prompts : Agree(p, AlignedTokens(r), Len(p))
    BY <2>1 DEF BlockTree
  <2>5. PICK a, c : a = AlignedTokens(r) /\ c = CpLen(a, toks)
    OBVIOUS
  <2>6. a \in Seq(Tokens) /\ Len(a) \in Nat
    BY <2>4, <2>5, AlignedFills
  <2>7. c \in 0..Len(a) /\ Agree(a, toks, c) /\ (\A k \in Nat : Agree(a, toks, k) => k <= c) /\ c \in Nat
    <3>1. c \in 0..Len(a) /\ Agree(a, toks, c) /\ \A k \in Nat : Agree(a, toks, k) => k <= c
      BY <1>1, <2>5, <2>6, CommonPrefixFacts
    <3> QED
      BY <2>6, <3>1
  <2>8. FillsBlocks(c)
    BY <2>4, <2>5 DEF PromptsPartBetweenBlocks
  <2>9. n <= Len(p)
    BY <2>1 DEF Agree
  <2>10. CASE n = Len(p)
    BY <2>3, <2>10
  <2>11. CASE n # Len(p)
    <3>1. n + 1 \in 0..Len(p) /\ n \in 0..Len(p) /\ n + 1 \in Nat
      BY <2>2, <2>3, <2>9, <2>11
    <3>2. Agree(p, a, n) /\ Agree(p, a, n + 1)
      BY <2>3, <2>4, <2>5, <2>6, <3>1, AgreeFewer
    <3>3. Agree(a, toks, n)
      BY <2>1, <3>2, AgreeSym, AgreeTrans
    <3>4. n <= c
      BY <2>2, <2>7, <3>3
    <3>5. ASSUME n + 1 <= c PROVE FALSE
      <4>1. n + 1 \in 0..c
        BY <2>7, <3>1, <3>5
      <4>2. Agree(a, toks, n + 1)
        BY <1>1, <2>6, <2>7, <4>1, AgreeFewer
      <4>3. Agree(p, toks, n + 1)
        BY <3>2, <4>2, AgreeTrans
      <4>4. n + 1 <= n
        BY <2>2, <3>1, <4>3
      <4> QED
        BY <2>2, <4>4
    <3>6. n = c
      BY <2>2, <2>7, <3>4, <3>5
    <3> QED
      BY <2>8, <3>6
  <2> QED
    BY <2>10, <2>11
<1> QED
  BY <1>2, <1>3, <1>4, <1>5

(* Whole blocks need no rounding.                                            *)
LEMMA CeilWhole ==
  ASSUME NEW a \in Nat, NEW b \in Nat, FillsBlocks(a), FillsBlocks(b), a <= b
  PROVE  /\ b - a \in Nat /\ FillsBlocks(b - a)
         /\ CeilDiv(b - a) * BlockSize = b - a
<1>1. PICK i \in Nat, j \in Nat : a = i * BlockSize /\ b = j * BlockSize
  BY DEF FillsBlocks
<1>2. BlockSize \in Nat \ {0}
  BY BlockSizeAssumption
<1>3. b - a \in Nat
  OBVIOUS
<1>4. i <= j
  <2>1. i * BlockSize < j * BlockSize + BlockSize
    BY <1>1, <1>2
  <2> QED
    BY <1>1, <1>2, <2>1, FewerMultiples
<1>5. PICK k \in Nat : k = j - i
  <2>1. j - i \in Nat
    BY <1>1, <1>4
  <2> QED
    BY <2>1
<1>6. b - a = k * BlockSize
  <2>1. (j - i) * BlockSize = j * BlockSize - i * BlockSize
    BY <1>1, <1>2
  <2> QED
    BY <1>1, <1>5, <2>1
<1>7. k = CeilDiv(b - a)
  <2>1. k \in Int /\ b - a <= k * BlockSize /\ k * BlockSize < (b - a) + BlockSize
    BY <1>2, <1>3, <1>5, <1>6
  <2> QED
    BY <1>3, <2>1, CeilUnique
<1> QED
  BY <1>3, <1>5, <1>6, <1>7 DEF FillsBlocks

(* A split between blocks shares none.                                       *)
LEMMA NoExtra ==
  ASSUME NEW m \in Nat, NEW n \in Nat, NEW c \in Nat, m <= n, n <= c,
         FillsBlocks(m), FillsBlocks(n), FillsBlocks(c)
  PROVE  CeilDiv(n - m) + CeilDiv(c - n) - CeilDiv(c - m) = 0
<1>1. BlockSize \in Nat \ {0}
  BY BlockSizeAssumption
<1>2. PICK x, y, z : x = CeilDiv(n - m) /\ y = CeilDiv(c - n) /\ z = CeilDiv(c - m)
  OBVIOUS
<1>3. m <= c
  OBVIOUS
<1>4. x * BlockSize = n - m /\ y * BlockSize = c - n /\ z * BlockSize = c - m
      /\ n - m \in Nat /\ c - n \in Nat /\ c - m \in Nat
  BY <1>2, <1>3, CeilWhole
<1>5. x \in Nat /\ y \in Nat /\ z \in Nat
  BY <1>2, <1>4, CeilFacts
<1>6. PICK w : w = x + y
  OBVIOUS
<1>7. w \in Nat /\ w * BlockSize = z * BlockSize
  <2>1. (x + y) * BlockSize = x * BlockSize + y * BlockSize
    BY <1>1, <1>5
  <2> QED
    BY <1>4, <1>5, <1>6, <2>1
<1>8. w <= z /\ z <= w
  <2>1. w * BlockSize < z * BlockSize + BlockSize /\ z * BlockSize < w * BlockSize + BlockSize
    BY <1>1, <1>5, <1>7
  <2>2. w \in Int /\ z \in Int
    BY <1>5, <1>7
  <2> QED
    BY <1>1, <2>1, <2>2, FewerMultiples
<1> QED
  BY <1>2, <1>5, <1>6, <1>7, <1>8

(* Appending is associative.                                                 *)
LEMMA JoinThree ==
  ASSUME NEW S, NEW s \in Seq(S), NEW t \in Seq(S), NEW u \in Seq(S)
  PROVE  (s \o t) \o u = s \o (t \o u)
OBVIOUS

(* A split inside the path of a node, between two blocks, leaves its blocks. *)
LEMMA SplitPath ==
  ASSUME NEW T, IsTree(T), NEW U, IsTree(U), NEW own \in Seq(Tokens), NEW toks, NEW cut,
         NEW i \in 1..Len(own), NEW j \in 1..Len(own), i < j,
         NEW mid, mid = SubSeq(own, 1, i), NEW child, child = SubSeq(own, 1, j),
         mid \notin TreeNodes(T), child \in TreeNodes(T), mid # child,
         \A n \in 1..Len(own) : i < n /\ n < j => SubSeq(own, 1, n) \notin TreeNodes(T),
         SplitTree(T, U, toks, <<>>, mid, child, cut)
  PROVE  PathBlocks(U, own) = PathBlocks(T, own)
<1>0. PICK N, old, a, b : /\ N = Len(own) /\ old = T[child].bids
                          /\ a = SubSeq(old, 1, cut) /\ b = SubSeq(old, cut + 1, Len(old))
  OBVIOUS
<1>1. N \in Nat /\ i \in 1..N /\ j \in 1..N /\ i \in Nat /\ j \in Nat
  BY <1>0
<1>2. PICK f : IsPath(f, T, own) /\ PathBlocks(T, own) = f[N]
  BY <1>0, PathExists
<1>3. PICK g : IsPath(g, U, own) /\ PathBlocks(U, own) = g[N]
  BY <1>0, PathExists
<1>4. /\ f[0] = <<>> /\ \A n \in 0..N : f[n] \in Seq(Blocks)
      /\ \A n \in 1..N : f[n] = f[n - 1] \o Held(T, SubSeq(own, 1, n))
  BY <1>0, <1>2, PathStep, ZenonT(40)
<1>5. /\ g[0] = <<>> /\ \A n \in 0..N : g[n] \in Seq(Blocks)
      /\ \A n \in 1..N : g[n] = g[n - 1] \o Held(U, SubSeq(own, 1, n))
  BY <1>0, <1>3, PathStep, ZenonT(40)
<1>6. old \in Seq(Blocks) /\ cut \in 0..Len(old)
  BY <1>0, NodeFacts DEF SplitTree
<1>7. a \in Seq(Blocks) /\ b \in Seq(Blocks) /\ a \o b = old /\ <<>> \o b = b
  <2>1. a \in Seq(Blocks)
    BY <1>0, <1>6, FirstBlocks
  <2>2. b \in Seq(Blocks)
    BY <1>0, <1>6, RestOf
  <2>3. a \o b = old
    BY <1>0, <1>6, CutJoins
  <2> QED
    BY <2>1, <2>2, <2>3
<1>8. ASSUME NEW n \in 1..N, NEW p, p = SubSeq(own, 1, n)
      PROVE  /\ n # i /\ n # j => p # mid /\ p # child
             /\ n = i => Held(T, p) = <<>> /\ Held(U, p) = a
             /\ n = j => Held(T, p) = old /\ Held(U, p) = b
             /\ n # i /\ n # j => Held(U, p) = Held(T, p)
             /\ i < n /\ n < j => Held(T, p) = <<>>
  <2>1. Len(p) = n /\ Len(mid) = i /\ Len(child) = j
    <3>1. n \in 0..Len(own) /\ i \in 0..Len(own) /\ j \in 0..Len(own)
      BY <1>0, <1>1
    <3> QED
      BY <1>8, <3>1, FirstTokens
  <2>2. n # i /\ n # j => p # mid /\ p # child
    BY <2>1
  <2>3. n = i => p = mid
    BY <1>8
  <2>4. n = j => p = child
    BY <1>8
  <2>5. Held(T, mid) = <<>> /\ Held(U, mid) = a
    BY <1>0 DEF Held, SplitTree
  <2>6. Held(T, child) = old /\ Held(U, child) = b
    <3>1. U[child].bids = <<>> \o b /\ child \in TreeNodes(U)
      BY <1>0 DEF SplitTree
    <3> QED
      BY <1>0, <1>7, <3>1 DEF Held
  <2>7. p # mid /\ p # child => Held(U, p) = Held(T, p)
    BY DEF Held, SplitTree
  <2>8. i < n /\ n < j => Held(T, p) = <<>>
    BY <1>0, <1>8 DEF Held
  <2> QED
    BY <2>2, <2>3, <2>4, <2>5, <2>6, <2>7, <2>8
<1> DEFINE G == {n \in 0..N : g[n] = IF i <= n /\ n < j THEN f[n] \o a ELSE f[n]}
<1>9. 0 \in G
  BY <1>1, <1>4, <1>5
<1>10. ASSUME NEW n \in 1..N, n - 1 \in G PROVE n \in G
  <2>1. n \in 0..N /\ n - 1 \in 0..N /\ n \in Nat
    BY <1>1
  <2>2. PICK p, s, h, k : p = SubSeq(own, 1, n) /\ s = f[n - 1] /\ h = Held(T, p) /\ k = Held(U, p)
    OBVIOUS
  <2>3. f[n] = s \o h /\ g[n] = g[n - 1] \o k /\ s \in Seq(Blocks)
    BY <1>4, <1>5, <2>1, <2>2
  <2>0. /\ n = i => h = <<>> /\ k = a
        /\ n = j => h = old /\ k = b
        /\ n # i /\ n # j => h = k
        /\ i < n /\ n < j => h = <<>>
    BY <1>8, <2>2
  <2>4. g[n - 1] = IF i <= n - 1 /\ n - 1 < j THEN s \o a ELSE s
    BY <1>10, <2>2
  <2>5. s \o <<>> = s /\ (s \o a) \o b = s \o old /\ (s \o a) \o <<>> = s \o a
    <3>0. s \in Seq(Blocks) /\ a \in Seq(Blocks) /\ b \in Seq(Blocks)
      BY <1>7, <2>3
    <3>1. (s \o a) \o b = s \o (a \o b)
      BY <3>0, JoinThree
    <3>2. s \o a \in Seq(Blocks)
      BY <1>7, <2>3
    <3>3. s \o <<>> = s /\ (s \o a) \o <<>> = s \o a
      BY <2>3, <3>2, ConcatEmptySeq
    <3> QED
      BY <1>7, <3>1, <3>3
  <2>6. CASE n < i \/ n > j
    <3>1. h = k /\ ~(i <= n /\ n < j) /\ ~(i <= n - 1 /\ n - 1 < j)
      BY ONLY <1>1, <2>0, <2>1, <2>6, i < j
    <3>2. g[n] = f[n]
      BY <2>3, <2>4, <3>1
    <3> QED
      BY <2>1, <3>1, <3>2
  <2>7. CASE n = i
    <3>1. h = <<>> /\ k = a /\ (i <= n /\ n < j) /\ ~(i <= n - 1 /\ n - 1 < j)
      BY ONLY <1>1, <2>0, <2>1, <2>7, i < j
    <3>2. g[n] = s \o a /\ f[n] = s
      BY <2>3, <2>4, <2>5, <3>1
    <3> QED
      BY <2>1, <3>1, <3>2
  <2>8. CASE i < n /\ n < j
    <3>1. h = <<>> /\ k = <<>> /\ (i <= n /\ n < j) /\ (i <= n - 1 /\ n - 1 < j)
      BY ONLY <1>1, <2>0, <2>1, <2>8, i < j
    <3>2. g[n] = s \o a /\ f[n] = s
      BY <2>3, <2>4, <2>5, <3>1
    <3> QED
      BY <2>1, <3>1, <3>2
  <2>9. CASE n = j
    <3>1. h = old /\ k = b /\ ~(i <= n /\ n < j) /\ (i <= n - 1 /\ n - 1 < j)
      BY ONLY <1>1, <2>0, <2>1, <2>9, i < j
    <3>2. g[n] = s \o old /\ f[n] = s \o old
      BY <2>3, <2>4, <2>5, <3>1
    <3> QED
      BY <2>1, <3>1, <3>2
  <2> QED
    BY <1>1, <2>1, <2>6, <2>7, <2>8, <2>9
<1>11. N \in G
  <2> HIDE DEF G
  <2>1. \A n \in 0..N : n \in G
    BY <1>1, <1>9, <1>10, UpTo
  <2> QED
    BY <1>1, <2>1
<1>12. ~(i <= N /\ N < j)
  BY <1>1
<1> QED
  BY <1>2, <1>3, <1>11, <1>12

(* insert splits between blocks: every node keeps its path.                  *)
LEMMA SplitOwns ==
  ASSUME PromptsPartBetweenBlocks, NEW T, TreeOK(T), BlockTree(T), NEW q \in Prompts,
         NEW toks, toks = AlignedTokens(q), NEW t \in Nat,
         NEW u \in Seq(Blocks), Len(u) = SplitMint(T, toks), NEW V, V = Split(T, toks, u, t), IsTree(V)
  PROVE  BlockTree(V) /\ \A own, R : Owns(T, own, R) => Owns(V, own, R)
<1>0. IsTree(T) /\ toks \in Seq(Tokens) /\ Len(toks) \in Nat
  BY AlignedFills DEF TreeOK
<1>1. CASE ~NeedsSplit(T, toks)
  <2>1. V = T
    BY <1>1 DEF Split
  <2> QED
    BY <2>1
<1>2. CASE NeedsSplit(T, toks)
  <2>1. PICK mid, child, cut :
          /\ SplitPoint(T, toks, SharedLen(T, toks), mid, child)
          /\ mid = SubSeq(toks, 1, SharedLen(T, toks)) /\ child = SplitChild(T, toks)
          /\ SplitTree(T, V, toks, u, mid, child, cut)
    BY <1>0, <1>2, SplitShape
  <2>2. PICK n, m : n = SharedLen(T, toks) /\ m = MatchedLen(T, toks)
    OBVIOUS
  <2>3. /\ n \in Nat /\ 0 < n /\ n <= Len(toks) /\ m < n
        /\ mid \in Seq(Tokens) /\ Len(mid) = n /\ Agree(mid, toks, n) /\ mid \notin TreeNodes(T)
        /\ child \in TreeNodes(T) /\ child \in Seq(Tokens) /\ Agree(mid, child, n)
        /\ Len(child) \in Nat /\ Len(child) > n
        /\ \A p \in TreeNodes(T) : Agree(mid, p, n) => Len(child) <= Len(p)
    BY <2>1, <2>2 DEF SplitPoint
  <2>4. \A p \in TreeNodes(T) : Agree(mid, p, n) => Agree(child, p, Len(child))
    <3>1. Branching(T) /\ mid = SubSeq(toks, 1, n) /\ child = SplitChild(T, toks)
      BY <2>1, <2>2 DEF TreeOK
    <3> QED
      BY ONLY <1>0, <1>2, <2>2, <3>1, SplitEdge, ZenonT(40)
  <2>5. m \in Nat
    BY <1>0, <2>2, MatchedFacts
  <2>6. FillsBlocks(n) /\ FillsBlocks(m) /\ FillsBlocks(Len(child))
    BY <1>0, <2>2, <2>3, SharedFills DEF BlockTree
  <2>7. u = <<>>
    <3>1. Len(u) = CeilDiv(n - m) + CeilDiv(Len(child) - n) - CeilDiv(Len(child) - m)
      BY <2>1, <2>2, <2>3 DEF SplitTree
    <3>2. m <= n /\ n <= Len(child)
      BY <2>3, <2>5
    <3>3. Len(u) = 0
      BY <2>3, <2>5, <2>6, <3>1, <3>2, NoExtra
    <3> QED
      BY <3>3
  <2>8. SplitTree(T, V, toks, <<>>, mid, child, cut)
    BY <2>1, <2>7
  <2>9. BlockTree(V)
    <3>1. TreeNodes(V) = TreeNodes(T) \cup {mid}
      BY <2>1 DEF SplitTree
    <3>2. FillsBlocks(Len(mid)) /\ Agree(mid, AlignedTokens(q), Len(mid))
      BY <2>3, <2>6
    <3> QED
      BY <3>1, <3>2 DEF BlockTree
  <2>10. ASSUME NEW own, NEW R, Owns(T, own, R) PROVE Owns(V, own, R)
    <3>1. own \in TreeNodes(T) /\ own \in Seq(Tokens) /\ Len(own) \in Nat /\ R = PathBlocks(T, own)
      BY <1>0, <2>10, NodeFacts DEF Owns
    <3>2. own \in TreeNodes(V)
      BY <2>1, <3>1 DEF SplitTree
    <3>3. CASE Agree(mid, own, n)
      <4>1. Agree(child, own, Len(child)) /\ Len(child) <= Len(own)
        BY <2>3, <2>4, <3>1, <3>3
      <4>2. n \in 0..Len(own) /\ Len(child) \in 0..Len(own)
            /\ n \in 1..Len(own) /\ Len(child) \in 1..Len(own)
        BY <2>3, <3>1, <4>1
      <4>3. mid = SubSeq(own, 1, n)
        BY <2>3, <3>1, <3>3, <4>2, FirstTokens
      <4>4. child = SubSeq(own, 1, Len(child))
        BY <2>3, <3>1, <4>1, <4>2, FirstTokens
      <4>5. PICK j : j = Len(child)
        OBVIOUS
      <4>6. ASSUME NEW k \in 1..Len(own), n < k, k < j PROVE SubSeq(own, 1, k) \notin TreeNodes(T)
        <5>1. PICK p : p = SubSeq(own, 1, k)
          OBVIOUS
        <5>2. k \in 0..Len(own) /\ k \in Nat
          BY <3>1
        <5>3. p \in Seq(Tokens) /\ Len(p) = k /\ Agree(p, own, k)
          BY <3>1, <5>1, <5>2, FirstTokens
        <5>4. n \in 0..k
          BY <2>3, <4>6, <5>2
        <5>5. Agree(p, own, n)
          BY <3>1, <5>2, <5>3, <5>4, AgreeFewer
        <5>6. Agree(mid, p, n)
          BY <3>3, <5>5, AgreeSym, AgreeTrans
        <5>7. p \in TreeNodes(T) => j <= k
          BY <2>3, <4>5, <5>3, <5>6
        <5>8. j \in Nat
          BY <2>3, <4>5
        <5> QED
          BY <4>6, <5>1, <5>2, <5>7, <5>8
      <4>7. /\ n \in 1..Len(own) /\ j \in 1..Len(own) /\ n < j /\ child = SubSeq(own, 1, j)
            /\ mid # child
        BY <2>3, <4>2, <4>4, <4>5
      <4>8. PathBlocks(V, own) = PathBlocks(T, own)
        BY <1>0, <2>3, <2>8, <3>1, <4>3, <4>6, <4>7, SplitPath
      <4> QED
        BY <3>1, <3>2, <4>8 DEF Owns
    <3>4. CASE ~Agree(mid, own, n)
      <4>1. ASSUME NEW k \in 1..Len(own)
            PROVE  Held(V, SubSeq(own, 1, k)) = Held(T, SubSeq(own, 1, k))
        <5>1. PICK p : p = SubSeq(own, 1, k)
          OBVIOUS
        <5>2. k \in 0..Len(own) /\ k \in Nat
          BY <3>1
        <5>3. p \in Seq(Tokens) /\ Len(p) = k /\ Agree(p, own, k)
          BY <3>1, <5>1, <5>2, FirstTokens
        <5>4. p # mid
          BY <2>3, <3>4, <5>3
        <5>5. p # child
          <6> SUFFICES ASSUME p = child PROVE FALSE
            OBVIOUS
          <6>1. n \in 0..k
            BY <2>3, <5>3
          <6>2. Agree(child, own, n)
            BY <3>1, <5>2, <5>3, <6>1, AgreeFewer
          <6>3. Agree(mid, own, n)
            BY <2>3, <6>2, AgreeTrans
          <6> QED
            BY <3>4, <6>3
        <5>6. Held(V, p) = Held(T, p)
          BY <2>8, <5>4, <5>5 DEF Held, SplitTree
        <5> QED
          BY <5>1, <5>6
      <4>2. PathBlocks(V, own) = PathBlocks(T, own)
        BY <1>0, <3>1, <4>1, SamePath
      <4> QED
        BY <3>1, <3>2, <4>2 DEF Owns
    <3> QED
      BY <3>3, <3>4
  <2> QED
    BY <2>9, <2>10
<1> QED
  BY <1>1, <1>2

(* The new leaf is on no path of an older node.                              *)
LEMMA LeafOwns ==
  ASSUME NEW T, IsTree(T), NEW V, IsTree(V), BlockTree(V), NEW q \in Prompts,
         NEW toks, toks = AlignedTokens(q), NEW v \in Seq(Blocks),
         v = <<>> \/ Len(v) = LeafMint(T, toks),
         NEW W, LeafTree(V, W, toks, v), IsTree(W)
  PROVE  /\ BlockTree(W)
         /\ \A own, R : Owns(T, own, R) /\ Owns(V, own, R) => Owns(W, own, R)
<1>0. toks \in Seq(Tokens) /\ Len(toks) \in Nat /\ FillsBlocks(Len(toks))
  BY AlignedFills
<1>1. CASE v = <<>>
  BY <1>1 DEF LeafTree
<1>2. CASE v # <<>>
  <2>1. /\ toks \notin TreeNodes(V) /\ TreeNodes(W) = TreeNodes(V) \cup {toks}
        /\ \A p \in TreeNodes(V) : W[p] = V[p]
    BY <1>2 DEF LeafTree
  <2>2. Agree(toks, AlignedTokens(q), Len(toks))
    BY <1>0, AgreeTrivial
  <2>3. BlockTree(W)
    BY <1>0, <2>1, <2>2 DEF BlockTree
  <2>4. ASSUME NEW own, NEW R, Owns(T, own, R), Owns(V, own, R) PROVE Owns(W, own, R)
    <3>1. own \in TreeNodes(T) /\ own \in TreeNodes(V) /\ own \in Seq(Tokens) /\ Len(own) \in Nat
          /\ R = PathBlocks(V, own)
      BY <2>4, NodeFacts DEF Owns
    <3>2. ASSUME NEW k \in 1..Len(own)
          PROVE  Held(W, SubSeq(own, 1, k)) = Held(V, SubSeq(own, 1, k))
      <4>1. PICK p : p = SubSeq(own, 1, k)
        OBVIOUS
      <4>2. k \in 0..Len(own)
        BY <3>1
      <4>3. Len(p) = k /\ Agree(p, own, k)
        BY <3>1, <4>1, <4>2, FirstTokens
      <4>4. p # toks
        <5> SUFFICES ASSUME p = toks PROVE FALSE
          OBVIOUS
        <5>1. Agree(own, toks, Len(toks))
          BY <4>3, AgreeSym
        <5>2. PICK n : n = SharedLen(T, toks)
          OBVIOUS
        <5>3. n \in 0..Len(toks) /\ Len(toks) <= n
          BY <1>0, <3>1, <5>1, <5>2, SharedFacts
        <5>4. Len(toks) - n = 0 /\ 0 \in Nat
          BY <1>0, <5>3
        <5>5. LeafMint(T, toks) = 0
          BY <1>0, <5>2, <5>4, MintFacts, CeilZero
        <5>6. Len(v) = 0
          BY <1>2, <5>5
        <5> QED
          BY <1>2, <5>6
      <4> QED
        BY <2>1, <4>1, <4>4 DEF Held
    <3>3. PathBlocks(W, own) = PathBlocks(V, own)
      BY <3>1, <3>2, SamePath
    <3> QED
      BY <2>1, <3>1, <3>3 DEF Owns
  <2> QED
    BY <2>3, <2>4
<1> QED
  BY <1>1, <1>2

(* In a tree that parts between blocks a path has no more blocks than its    *)
(* tokens fill.                                                              *)
LEMMA PathFits ==
  ASSUME NEW T, TreeOK(T), BlockTree(T), NEW toks \in Seq(Tokens)
  PROVE  Len(PathBlocks(T, toks)) * BlockSize <= Len(toks)
<1>0. Len(toks) \in Nat /\ IsTree(T) /\ BlockSize \in Nat \ {0}
  BY BlockSizeAssumption DEF TreeOK
<1>1. PICK f : IsPath(f, T, toks) /\ PathBlocks(T, toks) = f[Len(toks)]
  BY PathExists
<1>2. /\ f[0] = <<>>
      /\ \A n \in 1..Len(toks) : f[n] = f[n - 1] \o Held(T, SubSeq(toks, 1, n))
      /\ \A n \in 1..Len(toks) : Held(T, SubSeq(toks, 1, n)) \in Seq(Blocks)
      /\ \A n \in 0..Len(toks) : f[n] \in Seq(Blocks)
  BY <1>0, <1>1, PathStep
<1> DEFINE Node(m) == m = 0 \/ SubSeq(toks, 1, m) \in TreeNodes(T)
           G == {n \in 0..Len(toks) : \E m \in 0..n : Node(m) /\ Len(f[n]) * BlockSize <= m}
<1>3. 0 \in G
  BY <1>0, <1>2
<1>4. ASSUME NEW n \in 1..Len(toks), n - 1 \in G PROVE n \in G
  <2>1. n \in 0..Len(toks) /\ n - 1 \in 0..Len(toks) /\ n \in Nat /\ n # 0 /\ n - 1 \in Nat
    BY <1>0
  <2>2. PICK p, a, h : /\ p = SubSeq(toks, 1, n) /\ a = Len(f[n - 1])
                       /\ h = Len(Held(T, p))
    OBVIOUS
  <2>3. a \in Nat /\ h \in Nat /\ Len(f[n]) = a + h
    <3>1. f[n - 1] \in Seq(Blocks) /\ Held(T, p) \in Seq(Blocks) /\ f[n] = f[n - 1] \o Held(T, p)
      BY <1>2, <2>1, <2>2
    <3> QED
      BY <2>2, <3>1
  <2>4. PICK m \in 0..n - 1 : Node(m) /\ a * BlockSize <= m
    BY <1>4, <2>2
  <2>5. m \in Nat /\ m <= n - 1 /\ m \in 0..n
    BY <2>1, <2>4
  <2>6. (a + h) * BlockSize = a * BlockSize + h * BlockSize /\ a * BlockSize \in Nat
        /\ h * BlockSize \in Nat
    BY <1>0, <2>3
  <2>7. CASE p \notin TreeNodes(T)
    <3>1. h = 0
      BY <2>2, <2>7 DEF Held
    <3>2. Len(f[n]) * BlockSize <= m
      BY <1>0, <2>3, <2>4, <3>1
    <3> QED
      BY <2>1, <2>4, <2>5, <3>2
  <2>8. CASE p \in TreeNodes(T)
    <3>1. p \in Seq(Tokens) /\ Len(p) = n /\ Len(p) > 0 /\ Agree(p, toks, n)
      <4>1. p \in Seq(Tokens) /\ Len(p) = n /\ Agree(p, toks, n)
        BY <2>1, <2>2, FirstTokens
      <4> QED
        BY <2>1, <4>1
    <3>2. PICK l : l = ParentLen(T, p)
      OBVIOUS
    <3>3. /\ l \in 0..n - 1 /\ (l # 0 => SubSeq(p, 1, l) \in TreeNodes(T))
          /\ \A q \in TreeNodes(T) : Agree(q, p, Len(q)) /\ Len(q) < n => Len(q) <= l
      BY <1>0, <3>1, <3>2, ParentFacts
    <3>4. l \in Nat /\ l <= n
      BY <2>1, <3>3
    <3>5. m <= l
      <4>1. CASE m = 0
        BY <3>4, <4>1
      <4>2. CASE m # 0
        <5>1. PICK q : q = SubSeq(toks, 1, m)
          OBVIOUS
        <5>2. m \in 0..Len(toks)
          BY <1>0, <2>1, <2>5
        <5>3. q \in TreeNodes(T) /\ Len(q) = m /\ Agree(q, toks, m)
          BY <2>4, <4>2, <5>1, <5>2, FirstTokens
        <5>4. Agree(p, toks, m)
          BY <1>0, <2>1, <2>5, <3>1, AgreeFewer
        <5>5. Agree(q, p, Len(q))
          BY <5>3, <5>4, AgreeSym, AgreeTrans
        <5>6. Len(q) < n
          BY <2>1, <2>5, <5>3
        <5> QED
          BY <3>3, <5>3, <5>5, <5>6
      <4> QED
        BY <4>1, <4>2
    <3>6. FillsBlocks(n) /\ FillsBlocks(l)
      <4>1. FillsBlocks(n)
        BY <2>8, <3>1 DEF BlockTree
      <4>2. CASE l = 0
        <5>1. 0 = 0 * BlockSize /\ 0 \in Nat
          BY <1>0
        <5> QED
          BY <4>1, <4>2, <5>1 DEF FillsBlocks
      <4>3. CASE l # 0
        <5>1. l \in 0..Len(p)
          BY <2>1, <3>1, <3>4
        <5>2. Len(SubSeq(p, 1, l)) = l
          BY <3>1, <5>1, FirstTokens
        <5>3. PICK q : q = SubSeq(p, 1, l)
          OBVIOUS
        <5> QED
          BY <3>3, <4>1, <4>3, <5>2, <5>3 DEF BlockTree
      <4> QED
        BY <4>2, <4>3
    <3>7. h = CeilDiv(n - l)
      BY <2>2, <2>8, <3>1, <3>2 DEF Held, TreeOK, SizedNodes, KeyLen
    <3>8. h * BlockSize = n - l
      BY <2>1, <3>4, <3>6, <3>7, CeilWhole
    <3>9. Len(f[n]) * BlockSize <= n
      <4>1. PICK x, y : x = a * BlockSize /\ y = h * BlockSize
        OBVIOUS
      <4>2. x \in Nat /\ y \in Nat /\ x <= m /\ y = n - l
        BY <2>4, <2>6, <3>8, <4>1
      <4>3. x + y <= n
        BY <2>1, <2>5, <3>4, <3>5, <4>2
      <4> QED
        BY <2>3, <2>6, <4>1, <4>3
    <3>10. Node(n) /\ n \in 0..n
      BY <2>1, <2>2, <2>8
    <3> QED
      BY <2>1, <3>9, <3>10
  <2> QED
    BY <2>7, <2>8
<1>5. Len(toks) \in G
  <2> HIDE DEF G
  <2>1. \A n \in 0..Len(toks) : n \in G
    BY <1>0, <1>3, <1>4, UpTo
  <2> QED
    BY <1>0, <2>1
<1>6. PICK m \in 0..Len(toks) : Len(f[Len(toks)]) * BlockSize <= m
  BY <1>5
<1>7. Len(f[Len(toks)]) \in Nat
  BY <1>0, <1>2
<1>8. PICK x : x = Len(f[Len(toks)]) * BlockSize
  OBVIOUS
<1>9. x \in Nat /\ x <= m /\ m \in Nat /\ m <= Len(toks)
  BY <1>0, <1>6, <1>7, <1>8
<1>10. x <= Len(toks)
  BY <1>0, <1>9
<1> QED
  BY <1>1, <1>8, <1>10

(* A prompt that is matched to its last block is a node, and its path has as *)
(* many blocks as it fills.                                                  *)
LEMMA FullMatchOwns ==
  ASSUME NEW T, TreeOK(T), BlockTree(T), NEW q \in Prompts, NEW toks, toks = AlignedTokens(q),
         Len(toks) > 0, MatchedLen(T, toks) \div BlockSize >= TotalBlocks(toks)
  PROVE  /\ Owns(T, toks, SubSeq(PathBlocks(T, toks), 1, TotalBlocks(toks)))
         /\ Len(PathBlocks(T, toks)) = TotalBlocks(toks)
<1>0. toks \in Seq(Tokens) /\ Len(toks) \in Nat /\ IsTree(T) /\ BlockSize \in Nat \ {0}
  BY AlignedFills, BlockSizeAssumption DEF TreeOK
<1>1. PICK k \in Nat : Len(toks) = k * BlockSize
  BY AlignedFills DEF FillsBlocks
<1>2. PICK c, m, d, s : /\ c = TotalBlocks(toks) /\ m = MatchedLen(T, toks)
                        /\ d = m \div BlockSize /\ s = PathBlocks(T, toks)
  OBVIOUS
<1>3. c = k
  <2>1. c \in Nat /\ c * BlockSize <= k * BlockSize /\ k * BlockSize < c * BlockSize + BlockSize
    BY <1>0, <1>1, <1>2, DivFacts DEF TotalBlocks
  <2>2. c * BlockSize < k * BlockSize + BlockSize
    <3>1. PICK x, y : x = c * BlockSize /\ y = k * BlockSize
      OBVIOUS
    <3>2. x \in Nat /\ y \in Nat
      BY <1>0, <1>1, <2>1, <3>1
    <3> QED
      BY <1>0, <2>1, <3>1, <3>2
  <2>3. c <= k /\ k <= c
    BY <1>0, <1>1, <2>1, <2>2, FewerMultiples
  <2> QED
    BY <1>1, <2>1, <2>3
<1>4. m \in 0..Len(toks) /\ (m # 0 => SubSeq(toks, 1, m) \in TreeNodes(T)) /\ m \in Nat
  <2>1. m \in 0..Len(toks) /\ (m # 0 => SubSeq(toks, 1, m) \in TreeNodes(T))
    BY <1>0, <1>2, MatchedFacts
  <2> QED
    BY <1>0, <2>1
<1>5. d \in Nat /\ d * BlockSize <= m /\ k <= d
  <2>1. d \in Nat /\ d * BlockSize <= m
    BY <1>0, <1>2, <1>4, DivFacts
  <2> QED
    BY <1>1, <1>2, <1>3, <2>1
<1>6. m = Len(toks)
  <2>1. PICK e \in Nat : d = k + e
    <3>1. d - k \in Nat /\ d = k + (d - k)
      BY <1>1, <1>5
    <3> QED
      BY <3>1
  <2>2. (k + e) * BlockSize = k * BlockSize + e * BlockSize /\ e * BlockSize \in Nat
    BY <1>0, <1>1, <2>1
  <2>3. PICK x : x = e * BlockSize
    OBVIOUS
  <2>4. Len(toks) + x <= m /\ x \in Nat
    BY <1>1, <1>5, <2>1, <2>2, <2>3
  <2> QED
    BY <1>0, <1>4, <2>4
<1>7. toks \in TreeNodes(T)
  <2>1. Len(toks) \in 0..Len(toks)
    BY <1>0
  <2>2. Agree(toks, toks, Len(toks))
    BY <1>0, AgreeTrivial
  <2>3. toks = SubSeq(toks, 1, Len(toks))
    BY <1>0, <2>1, <2>2, FirstTokens
  <2>4. m # 0 /\ SubSeq(toks, 1, m) = toks
    BY <1>0, <1>6, <2>3
  <2> QED
    BY <1>4, <2>4
<1>8. s \in Seq(Blocks) /\ Len(s) \in Nat /\ m <= Len(s) * BlockSize /\ Len(s) * BlockSize <= Len(toks)
  <2>1. s \in Seq(Blocks) /\ m <= Len(s) * BlockSize
    BY <1>0, <1>2, PathCovers
  <2>2. Len(s) * BlockSize <= Len(toks)
    BY <1>0, <1>2, PathFits
  <2> QED
    BY <2>1, <2>2
<1>9. Len(s) = k
  <2>1. PICK x, y : x = Len(s) * BlockSize /\ y = k * BlockSize
    OBVIOUS
  <2>2. x \in Nat /\ y \in Nat /\ x = y
    BY <1>0, <1>1, <1>4, <1>6, <1>8, <2>1
  <2>3. x < y + BlockSize /\ y < x + BlockSize
    BY <1>0, <2>2
  <2>4. Len(s) <= k /\ k <= Len(s)
    BY <1>0, <1>1, <1>8, <2>1, <2>3, FewerMultiples
  <2> QED
    BY <1>1, <1>8, <2>4
<1>10. SubSeq(s, 1, k) = s
  <2>1. Len(s) \in 0..Len(s)
    BY <1>8
  <2>2. Agree(s, s, Len(s))
    BY <1>8, AgreeTrivial
  <2>3. s = SubSeq(s, 1, Len(s))
    BY <1>8, <2>1, <2>2, FirstTokens
  <2> QED
    BY <1>9, <2>3
<1> QED
  BY <1>2, <1>3, <1>7, <1>9, <1>10 DEF Owns

(* The tables of active requests are paths of nodes, but for empty ones.     *)
TablesOwn ==
  \A r \in Active :
    \/ tables[r].toks = <<>> /\ tables[r].bids = <<>>
    \/ Owns(tree, tables[r].toks, tables[r].bids)

(* The running call has the aligned tokens of a prompt.                      *)
CallAligned ==
  call.pc \notin {"idle", "crashed"} => \E q \in Prompts : call.toks = AlignedTokens(q)

(* What makes tables paths, when prompts part between blocks.                *)
PathsInv == BlockTree(tree) /\ CallAligned /\ TablesOwn

(* A tree that keeps the paths of all tables.                                *)
KeepsPaths(U) ==
  /\ BlockTree(U)
  /\ \A r \in Active : Owns(tree, tables[r].toks, tables[r].bids) =>
                         Owns(U, tables[r].toks, tables[r].bids)

(* New time stamps do.                                                       *)
LEMMA KeepSame ==
  ASSUME WholeInv, PathsInv, NEW X, IsTree(X), KeepsPaths(X), NEW U, IsTree(U), SameBlocks(X, U)
  PROVE  KeepsPaths(U)
<1>1. BlockTree(U)
  BY DEF KeepsPaths, BlockTree, SameBlocks
<1>2. ASSUME NEW r \in Active, Owns(tree, tables[r].toks, tables[r].bids)
      PROVE  Owns(U, tables[r].toks, tables[r].bids)
  <2>1. Owns(X, tables[r].toks, tables[r].bids)
    BY <1>2 DEF KeepsPaths
  <2> QED
    BY <2>1, SameOwns
<1> QED
  BY <1>1, <1>2 DEF KeepsPaths

(* So does the removal of nodes without a pinned block.                      *)
LEMMA KeepRemove ==
  ASSUME CacheInv, WholeInv, PathsInv, NEW gone, NEW U, IsTree(U), U = RemoveNodes(tree, gone),
         \A p \in gone : ToSet(tree[p].bids) \cap Pinned = {}
  PROVE  KeepsPaths(U)
<1>1. TreeNodes(U) = TreeNodes(tree) \ gone
  BY DEF RemoveNodes, TreeNodes
<1>2. BlockTree(U)
  BY <1>1 DEF PathsInv, BlockTree
<1>3. ASSUME NEW r \in Active, Owns(tree, tables[r].toks, tables[r].bids)
      PROVE  Owns(U, tables[r].toks, tables[r].bids)
  <2>1. ToSet(tables[r].bids) \subseteq Pinned
    <3> SUFFICES ASSUME NEW b \in ToSet(tables[r].bids) PROVE b \in Pinned
      OBVIOUS
    <3>1. b \in Blocks /\ Holders(b) # {}
      BY DEF CacheInv, TableShape, Holders
    <3> QED
      BY <3>1, HeldIsPinned
  <2>2. \A p \in gone : ToSet(tree[p].bids) \cap ToSet(tables[r].bids) = {}
    BY <2>1
  <2>3. TreeOK(tree)
    BY DEF WholeInv, TreeInv, GoodTree
  <2> QED
    BY <1>3, <2>2, <2>3, RemoveOwns
<1> QED
  BY <1>2, <1>3 DEF KeepsPaths

(* The steps that only set time stamps, or nothing.                          *)
LEMMA KeepTouch ==
  ASSUME WholeInv, PathsInv
  PROVE  /\ KeepsPaths(tree)
         /\ \A toks : KeepsPaths(Touch(tree, toks, now)) /\ IsTree(Touch(tree, toks, now))
<1>1. IsTree(tree) /\ now \in Nat
  BY DEF WholeInv, TreeInv, GoodTree, TreeOK
<1>2. KeepsPaths(tree)
  BY DEF PathsInv, KeepsPaths
<1>3. ASSUME NEW toks PROVE KeepsPaths(Touch(tree, toks, now)) /\ IsTree(Touch(tree, toks, now))
  <2>1. PICK U : U = Touch(tree, toks, now)
    OBVIOUS
  <2>2. IsTree(U) /\ SameBlocks(tree, U)
    BY <1>1, <2>1, TouchSame
  <2> QED
    BY <1>1, <1>2, <2>1, <2>2, KeepSame
<1> QED
  BY <1>2, <1>3

(* The stamp of a victim.                                                    *)
LEMMA KeepSelect ==
  ASSUME CacheInv, WholeInv, PathsInv, SelectVictim, IsTree(tree')
  PROVE  KeepsPaths(tree')
<1>1. PICK v \in LruVictims(tree, Pinned), stamp \in {now, now + 1} :
        tree' = [tree EXCEPT ![v].last = stamp]
  BY DEF SelectVictim
<1>2. v \in TreeNodes(tree) /\ IsTree(tree)
  BY <1>1 DEF LruVictims, DemotionCandidates, WholeInv, TreeInv, GoodTree, TreeOK
<1>3. TreeNodes(tree') = TreeNodes(tree)
  BY <1>1 DEF TreeNodes
<1>4. ASSUME NEW p \in TreeNodes(tree) PROVE tree'[p].bids = tree[p].bids
  <2>1. tree[p] = [bids |-> tree[p].bids, last |-> tree[p].last]
    BY <1>2, NodeFacts
  <2>2. tree'[p] = IF p = v THEN [tree[p] EXCEPT !.last = stamp] ELSE tree[p]
    BY <1>1, <1>2 DEF TreeNodes
  <2> QED
    BY <2>1, <2>2
<1>5. SameBlocks(tree, tree')
  BY <1>3, <1>4 DEF SameBlocks
<1>6. KeepsPaths(tree)
  BY KeepTouch
<1> QED
  BY <1>2, <1>5, <1>6, KeepSame

(* A zombie leaf dropped.                                                    *)
LEMMA KeepDrop ==
  ASSUME CacheInv, WholeInv, PathsInv, DropZombie, IsTree(tree')
  PROVE  KeepsPaths(tree')
<1>1. PICK v \in LruVictims(tree, Pinned) : tree' = RemoveNodes(tree, {v})
  BY DEF DropZombie
<1>2. \A p \in {v} : ToSet(tree[p].bids) \cap Pinned = {}
  BY <1>1 DEF LruVictims, DemotionCandidates
<1> QED
  BY <1>1, <1>2, KeepRemove

(* A block pushed out of the last tier, with its leaf.                       *)
LEMMA KeepDemoteOut ==
  ASSUME CacheInv, WholeInv, PathsInv, DemoteOut, IsTree(tree')
  PROVE  KeepsPaths(tree')
<1>1. PICK b : b = Head(call.victims)
  OBVIOUS
<1>2. b \in Alive /\ FreeBlocks({b}) /\ tree' = PurgeBlocks(tree, {b}, Alive \ {b})
  BY <1>1 DEF DemoteOut
<1>3. Pinned \subseteq Alive \ {b}
  BY <1>2 DEF FreeBlocks, CacheInv, PoolInv, PinnedAreAllocated
<1> DEFINE gone == {p \in TreeNodes(tree) : /\ IsLeaf(tree, p)
                                        /\ ToSet(tree[p].bids) \cap {b} # {}
                                        /\ ToSet(tree[p].bids) \cap (Alive \ {b}) = {}}
<1>4. tree' = RemoveNodes(tree, gone)
  BY <1>2 DEF PurgeBlocks
<1>5. \A p \in gone : ToSet(tree[p].bids) \cap Pinned = {}
  BY <1>3
<1> HIDE DEF gone
<1> QED
  BY <1>4, <1>5, KeepRemove

(* A path severed at its first dead block.                                   *)
LEMMA KeepPurge ==
  ASSUME CacheInv, WholeInv, PathsInv, AdmitPurge, IsTree(tree')
  PROVE  KeepsPaths(tree')
<1>1. PICK gone, out, X : /\ gone = SeveredNodes(tree, call.toks, Alive)
                          /\ out = SeveredAlive(tree, call.toks, Alive)
                          /\ X = RemoveNodes(tree, gone)
  OBVIOUS
<1>2. FreeBlocks(out) /\ tree' = Touch(X, call.toks, now)
  BY <1>1 DEF AdmitPurge
<1>3. TreeOK(tree) /\ IsTree(tree) /\ now \in Nat
  BY DEF WholeInv, TreeInv, GoodTree, TreeOK
<1>4. gone \subseteq TreeNodes(tree) /\ Severable(tree, gone)
  BY <1>1, <1>3, SeveredSeverable
<1>5. IsTree(X)
  BY <1>1, <1>3, <1>4, RemoveOK DEF TreeOK
<1>6. out \cap Pinned = {} /\ Pinned \subseteq Alive
  BY <1>2 DEF FreeBlocks, CacheInv, PoolInv, PinnedAreAllocated
<1>7. \A p \in gone : ToSet(tree[p].bids) \cap Pinned = {}
  BY <1>1, <1>6 DEF SeveredAlive
<1>8. KeepsPaths(X)
  BY <1>1, <1>5, <1>7, KeepRemove
<1>9. SameBlocks(X, tree')
  BY <1>2, <1>3, <1>5, TouchSame
<1> QED
  BY <1>5, <1>8, <1>9, KeepSame

(* insert: the split and the leaf of one prompt keep the paths of the others.*)
LEMMA KeepInsert ==
  ASSUME PromptsPartBetweenBlocks, CacheInv, WholeInv, PathsInv, Insert, IsTree(tree')
  PROVE  KeepsPaths(tree')
<1>1. PICK toks, P, x, l, n, ids, u, v, V, W :
        /\ toks = call.toks /\ P = Touch(tree, toks, now)
        /\ x = SplitMint(tree, toks) /\ l = LeafMint(tree, toks)
        /\ n = (IF x + l <= Free("gpu") THEN x + l ELSE x)
        /\ ids = FreshIds(n)
        /\ u = SubSeq(ids, 1, x) /\ v = SubSeq(ids, x + 1, n)
        /\ V = Split(P, toks, u, now)
        /\ W = AddLeaf(V, toks, v, now)
  OBVIOUS
<1>2. /\ call.pc = "evict" /\ n <= Cardinality(UnusedIds)
      /\ tree' = (IF x + l <= Free("gpu") THEN W ELSE V)
  BY <1>1 DEF Insert
<1>3. /\ TreeOK(tree) /\ IsTree(tree) /\ now \in Nat
      /\ toks \in Seq(Tokens) /\ Len(toks) > 0 /\ GoodTree(tree, Alive)
  BY <1>1, <1>2 DEF WholeInv, TreeInv, GoodTree, TreeOK, FrameInv
<1>4. PICK q \in Prompts : toks = AlignedTokens(q)
  BY <1>1, <1>2 DEF PathsInv, CallAligned
<1>5. x \in Nat /\ l \in Nat /\ n \in Nat /\ (n = x \/ n = x + l) /\ x \in 0..n
  <2>1. x \in Nat /\ l \in Nat
    BY <1>1, <1>3, MintFacts
  <2>2. n \in Nat /\ (n = x \/ n = x + l)
    BY <1>1, <2>1
  <2>3. x \in 0..n
    BY <2>1, <2>2
  <2> QED
    BY <2>1, <2>2, <2>3
<1>6. ids \in [1..n -> Blocks] /\ IsInjective(ids)
  BY <1>1, <1>2, <1>5, FreshFacts DEF UnusedIds
<1>7. u \in Seq(Blocks) /\ Len(u) = x /\ v \in Seq(Blocks) /\ Len(v) = n - x
  <2>1. CutIds(Blocks, n, x, ids, u, v)
    BY <1>1, <1>5, <1>6, IdParts
  <2> QED
    BY <2>1 DEF CutIds
<1>8. TreeOK(P) /\ IsTree(P) /\ KeepsPaths(P)
      /\ SplitMint(P, toks) = x /\ SharedLen(P, toks) = SharedLen(tree, toks) /\ LeafMint(P, toks) = l
  <2>1. GoodTree(P, Alive) /\ SameBlocks(tree, P)
    BY <1>1, <1>3, TouchGood
  <2>2. SplitMint(P, toks) = x /\ SharedLen(P, toks) = SharedLen(tree, toks) /\ LeafMint(P, toks) = l
    BY <1>1, <1>3, <2>1, SameBlocksSame
  <2>3. KeepsPaths(P)
    BY <1>1, KeepTouch
  <2> QED
    BY <2>1, <2>2, <2>3 DEF GoodTree, TreeOK
<1>9. /\ TreeOK(V) /\ IsTree(V)
      /\ MatchedLen(V, toks) = SharedLen(P, toks) /\ SharedLen(V, toks) = SharedLen(P, toks)
  <2>1. /\ TreeOK(V)
        /\ MatchedLen(V, toks) = SharedLen(P, toks) /\ SharedLen(V, toks) = SharedLen(P, toks)
    <3>1. Len(u) = SplitMint(P, toks) /\ V = Split(P, toks, u, now)
      BY <1>1, <1>7, <1>8
    <3>2. TreeOK(P) /\ toks \in Seq(Tokens) /\ u \in Seq(Blocks) /\ now \in Nat
      BY <1>3, <1>7, <1>8
    <3> QED
      BY ONLY <3>1, <3>2, SplitOK
  <2> QED
    BY <2>1 DEF TreeOK
<1>10. BlockTree(P)
  BY <1>8 DEF KeepsPaths
<1>11. BlockTree(V) /\ \A own, R : Owns(P, own, R) => Owns(V, own, R)
  <2>1. Len(u) = SplitMint(P, toks) /\ V = Split(P, toks, u, now)
    BY <1>1, <1>7, <1>8
  <2> QED
    BY <1>3, <1>4, <1>7, <1>8, <1>9, <1>10, <2>1, SplitOwns
<1>12. KeepsPaths(V)
  BY <1>8, <1>11 DEF KeepsPaths
<1>13. CASE n = x + l
  <2>1. Len(v) = l
    BY <1>5, <1>7, <1>13
  <2>2. Len(v) = CeilDiv(Len(toks) - SharedLen(V, toks))
    <3>1. l = CeilDiv(Len(toks) - SharedLen(tree, toks))
      BY <1>1, <1>3, MintFacts
    <3>2. SharedLen(V, toks) = SharedLen(tree, toks)
      BY <1>8, <1>9
    <3> QED
      BY ONLY <2>1, <3>1, <3>2
  <2>3. TreeOK(W) /\ LeafTree(V, W, toks, v)
    <3>1. W = AddLeaf(V, toks, v, now) /\ MatchedLen(V, toks) = SharedLen(V, toks) /\ TreeOK(V)
      BY <1>1, <1>9
    <3>2. toks \in Seq(Tokens) /\ Len(toks) > 0 /\ v \in Seq(Blocks) /\ now \in Nat
      BY <1>3, <1>7
    <3> QED
      BY ONLY <2>2, <3>1, <3>2, LeafOK
  <2>4. IsTree(W) /\ Len(v) = LeafMint(P, toks)
    BY <1>8, <2>1, <2>3 DEF TreeOK
  <2>5. /\ BlockTree(W)
        /\ \A own, R : Owns(P, own, R) /\ Owns(V, own, R) => Owns(W, own, R)
    BY <1>4, <1>7, <1>8, <1>9, <1>11, <2>3, <2>4, LeafOwns
  <2>6. KeepsPaths(W)
    BY <1>8, <1>11, <2>5 DEF KeepsPaths
  <2> QED
    BY <1>2, <1>12, <2>6
<1>14. CASE x + l > Free("gpu") \/ ~(x + l <= Free("gpu"))
  BY <1>2, <1>12, <1>14, <1>1, <1>13
<1> QED
  BY <1>1, <1>13, <1>14

(* Every step of a call keeps the paths of the tables.                       *)
LEMMA KeepCallStep ==
  ASSUME PromptsPartBetweenBlocks, CacheInv, WholeInv, PathsInv, CallStep, IsTree(tree')
  PROVE  KeepsPaths(tree')
<1>1. CASE AdmitCached \/ AdmitMiss \/ AdmitPurgeFails \/ RematchFails \/ Rematch
  <2>1. tree' = Touch(tree, call.toks, now)
    BY <1>1 DEF AdmitCached, AdmitMiss, AdmitPurgeFails, RematchFails, Rematch
  <2> QED
    BY <2>1, KeepTouch
<1>2. CASE AdmitTooLarge \/ NothingToEvict \/ DemoteDead \/ DemoteDown \/ Unwind
  <2>1. tree' = tree
    BY <1>2 DEF AdmitTooLarge, NothingToEvict, DemoteDead, DemoteDown, Unwind
  <2> QED
    BY <2>1, KeepTouch
<1> QED
  BY <1>1, <1>2, KeepPurge, KeepDrop, KeepSelect, KeepDemoteOut, KeepInsert DEF CallStep

(* So the tables that stay as they are stay paths.                           *)
LEMMA TablesStayPaths ==
  ASSUME PathsInv, KeepsPaths(tree'), NEW r \in Active, tables'[r] = tables[r]
  PROVE  \/ tables'[r].toks = <<>> /\ tables'[r].bids = <<>>
         \/ Owns(tree', tables'[r].toks, tables'[r].bids)
BY DEF PathsInv, TablesOwn, KeepsPaths

(* A step of a call.                                                         *)
LEMMA PathsCallStep ==
  ASSUME PromptsPartBetweenBlocks, CacheInv, WholeInv, PathsInv, CallStep
  PROVE  PathsInv' /\ (call'.pc \notin {"idle", "crashed"} => call'.toks = call.toks)
<1>1. WholeInv' /\ CacheInv'
  BY CacheNextPreserves, WholeNext DEF Next
<1>2. IsTree(tree')
  BY <1>1 DEF WholeInv, TreeInv, GoodTree, TreeOK
<1>3. KeepsPaths(tree')
  BY <1>2, KeepCallStep
<1>4. BlockTree(tree)'
  BY <1>3 DEF KeepsPaths, BlockTree
<1>5. CASE InnerStep
  <2>1. call'.toks = call.toks /\ call.pc \notin {"idle", "crashed"} /\ tables' = tables
    BY <1>5, InnerFrame
  <2>2. CallAligned'
    BY <2>1 DEF PathsInv, CallAligned
  <2>3. TablesOwn'
    BY <1>3, <2>1, TablesStayPaths DEF TablesOwn, Active
  <2> QED
    BY <1>4, <2>1, <2>2, <2>3 DEF PathsInv
<1>6. CASE Unwind
  <2>1. call'.pc \in {"idle", "crashed"} /\ tables' = tables
    BY <1>6 DEF Unwind, Idle, Frame
  <2>2. CallAligned'
    BY <2>1 DEF CallAligned
  <2>3. TablesOwn'
    BY <1>3, <2>1, TablesStayPaths DEF TablesOwn, Active
  <2> QED
    BY <1>4, <2>1, <2>2, <2>3 DEF PathsInv
<1>7. CASE Rematch
  <2>1. PICK toks, bids : toks = call.toks /\ bids = SubSeq(PathBlocks(tree, toks), 1, TotalBlocks(toks))
    OBVIOUS
  <2>2. /\ call.pc = "rematch" /\ MatchedLen(tree, toks) \div BlockSize >= TotalBlocks(toks)
        /\ tree' = Touch(tree, toks, now)
        /\ tables' = [tables EXCEPT ![call.req] = [toks |-> toks, bids |-> bids, active |-> TRUE]]
        /\ call'.pc = "idle"
    BY <1>7, <2>1 DEF Rematch, Table, Idle, Frame
  <2>3. TreeOK(tree) /\ IsTree(tree) /\ BlockTree(tree) /\ Len(toks) > 0 /\ now \in Nat
    BY <2>1, <2>2 DEF WholeInv, FrameInv, TreeInv, GoodTree, TreeOK, PathsInv
  <2>4. PICK q \in Prompts : toks = AlignedTokens(q)
    BY <2>1, <2>2 DEF PathsInv, CallAligned
  <2>5. Owns(tree, toks, bids)
    BY <2>1, <2>2, <2>3, <2>4, FullMatchOwns
  <2>6. SameBlocks(tree, tree')
    BY <2>2, <2>3, TouchSame
  <2>7. Owns(tree', toks, bids)
    BY <1>2, <2>3, <2>5, <2>6, SameOwns
  <2>8. tables = [r \in Requests |-> tables[r]] /\ call.req \in Requests
    BY <2>2 DEF CacheInv, TableShape, CallShape
  <2>9. /\ tables'[call.req].toks = toks /\ tables'[call.req].bids = bids
        /\ \A r \in Requests : r # call.req => tables'[r] = tables[r]
    BY <2>2, <2>8
  <2>10. TablesOwn'
    <3> SUFFICES ASSUME NEW r \in Active'
                 PROVE  \/ tables'[r].toks = <<>> /\ tables'[r].bids = <<>>
                        \/ Owns(tree', tables'[r].toks, tables'[r].bids)
      BY DEF TablesOwn, Owns
    <3>1. CASE r = call.req
      BY <2>7, <2>9, <3>1
    <3>2. CASE r # call.req
      <4>1. r \in Active /\ tables'[r] = tables[r]
        BY <2>9, <3>2 DEF Active
      <4> QED
        BY <1>3, <4>1, TablesStayPaths
    <3> QED
      BY <3>1, <3>2
  <2>11. CallAligned'
    BY <2>2 DEF CallAligned
  <2> QED
    BY <1>4, <2>2, <2>10, <2>11 DEF PathsInv
<1> QED
  BY <1>5, <1>6, <1>7 DEF CallStep, InnerStep

(* A step that keeps the paths, and gives out no table but an empty one.     *)
LEMMA PathsQuiet ==
  ASSUME PathsInv, KeepsPaths(tree'), CallAligned',
         \A r \in Active' : \/ r \in Active /\ tables'[r] = tables[r]
                            \/ tables'[r].toks = <<>> /\ tables'[r].bids = <<>>
  PROVE  PathsInv'
<1>1. BlockTree(tree)'
  BY DEF KeepsPaths, BlockTree
<1>2. TablesOwn'
  <2> SUFFICES ASSUME NEW r \in Active'
               PROVE  \/ tables'[r].toks = <<>> /\ tables'[r].bids = <<>>
                      \/ Owns(tree', tables'[r].toks, tables'[r].bids)
    BY DEF TablesOwn, Owns
  <2> QED
    BY TablesStayPaths
<1> QED
  BY <1>1, <1>2 DEF PathsInv

(* lookup.                                                                   *)
LEMMA PathsLookup ==
  ASSUME WholeInv, PathsInv, NEW toks, Lookup(toks)
  PROVE  PathsInv'
<1>1. tree' = Touch(tree, toks, now) /\ call' = call /\ tables' = tables
  BY DEF Lookup
<1>2. KeepsPaths(tree')
  BY <1>1, KeepTouch
<1>3. CallAligned'
  BY <1>1 DEF PathsInv, CallAligned
<1> QED
  BY <1>1, <1>2, <1>3, PathsQuiet DEF Active

(* materialize_request begins, with the aligned tokens of its prompt.        *)
LEMMA PathsBegin ==
  ASSUME WholeInv, PathsInv, NEW r \in Requests, NEW toks \in Prompts, MaterializeBegin(r, toks)
  PROVE  PathsInv' /\ call'.toks = AlignedTokens(toks)
<1>1. /\ tree' = Touch(tree, AlignedTokens(toks), now) /\ tables' = tables
      /\ call'.toks = AlignedTokens(toks)
  BY DEF MaterializeBegin, Frame
<1>2. KeepsPaths(tree')
  BY <1>1, KeepTouch
<1>3. CallAligned'
  BY <1>1 DEF CallAligned
<1> QED
  BY <1>1, <1>2, <1>3, PathsQuiet DEF Active

(* A prompt shorter than a block.                                            *)
LEMMA PathsShort ==
  ASSUME CacheInv, WholeInv, PathsInv, NEW r \in Requests, NEW toks, MaterializeShort(r, toks)
  PROVE  PathsInv'
<1>1. /\ tree' = tree /\ call' = call
      /\ tables' = [tables EXCEPT ![r] = [toks |-> <<>>, bids |-> <<>>, active |-> TRUE]]
  BY DEF MaterializeShort, Table
<1>2. /\ tables'[r].toks = <<>> /\ tables'[r].bids = <<>>
      /\ \A q \in Requests : q # r => tables'[q] = tables[q]
  BY <1>1 DEF CacheInv, TableShape
<1>3. KeepsPaths(tree')
  BY <1>1, KeepTouch
<1>4. CallAligned'
  BY <1>1 DEF PathsInv, CallAligned
<1>5. ASSUME NEW q \in Active'
      PROVE  \/ q \in Active /\ tables'[q] = tables[q]
             \/ tables'[q].toks = <<>> /\ tables'[q].bids = <<>>
  BY <1>2 DEF Active
<1> QED
  BY <1>3, <1>4, <1>5, PathsQuiet

(* release_request.                                                          *)
LEMMA PathsRelease ==
  ASSUME CacheInv, WholeInv, PathsInv, NEW r \in Requests, Release(r)
  PROVE  PathsInv'
<1>1. tree' = tree /\ call' = call /\ tables' = [tables EXCEPT ![r] = NoTable]
  BY DEF Release
<1>2. ~tables'[r].active /\ \A q \in Requests : q # r => tables'[q] = tables[q]
  BY <1>1 DEF CacheInv, TableShape, NoTable
<1>3. KeepsPaths(tree')
  BY <1>1, KeepTouch
<1>4. CallAligned'
  BY <1>1 DEF PathsInv, CallAligned
<1>5. \A q \in Active' : q \in Active /\ tables'[q] = tables[q]
  BY <1>2 DEF Active
<1> QED
  BY <1>3, <1>4, <1>5, PathsQuiet

(* The clock.                                                                *)
LEMMA PathsTick ==
  ASSUME WholeInv, PathsInv, Tick
  PROVE  PathsInv'
<1>1. call' = call /\ tables' = tables
  BY DEF Tick
<1>2. SameBlocks(tree, tree') /\ IsTree(tree) /\ IsTree(tree')
  BY TickStep DEF WholeInv, TreeInv, GoodTree, TreeOK
<1>3. KeepsPaths(tree')
  BY <1>2, KeepTouch, KeepSame
<1>4. CallAligned'
  BY <1>1 DEF PathsInv, CallAligned
<1> QED
  BY <1>1, <1>3, <1>4, PathsQuiet DEF Active

(* A step in which nothing of the cache but the clock changes.               *)
LEMMA PathsSame ==
  ASSUME PathsInv, tree' = tree, call' = call, tables' = tables
  PROVE  PathsInv'
<1>1. KeepsPaths(tree')
  BY DEF PathsInv, KeepsPaths
<1>2. CallAligned'
  BY DEF PathsInv, CallAligned
<1> QED
  BY <1>1, <1>2, PathsQuiet DEF Active

(* The start.                                                                *)
LEMMA PathsStart == Start => PathsInv
<1> SUFFICES ASSUME Start PROVE PathsInv
  OBVIOUS
<1>1. Active = {} /\ TreeNodes(tree) = {} /\ call.pc = "idle"
  BY DEF Start, NoTable, Active, TreeNodes, EmptyTree, Idle, Frame
<1> QED
  BY <1>1 DEF PathsInv, BlockTree, CallAligned, TablesOwn

(* Every step.                                                               *)
LEMMA PathsNext ==
  ASSUME PromptsPartBetweenBlocks, CacheInv, WholeInv, PathsInv, [Next]_vars
  PROVE  PathsInv'
<1>1. CASE CallStep
  BY <1>1, PathsCallStep
<1>2. CASE UNCHANGED vars
  BY <1>2, PathsSame DEF vars
<1> QED
  BY <1>1, <1>2, PathsTick, PathsLookup, PathsShort, PathsBegin, PathsRelease DEF Next, HandlerCall

(* The empty path has no blocks.                                             *)
LEMMA EmptyPath ==
  ASSUME NEW T, IsTree(T)
  PROVE  PathBlocks(T, <<>>) = <<>>
<1>1. <<>> \in Seq(Tokens) /\ Len(<<>>) = 0
  OBVIOUS
<1>2. PICK toks : toks = <<>>
  OBVIOUS
<1>3. PICK f : IsPath(f, T, toks) /\ PathBlocks(T, toks) = f[Len(toks)]
  BY <1>1, <1>2, PathExists
<1>4. f[0] = <<>>
  BY <1>1, <1>2, <1>3, PathStep
<1> QED
  BY <1>1, <1>2, <1>3, <1>4

(* So the tables are paths.                                                  *)
LEMMA PathsGiveTables ==
  ASSUME WholeInv, PathsInv
  PROVE  TableIsPath
<1>1. PathBlocks(tree, <<>>) = <<>>
  BY EmptyPath DEF WholeInv, TreeInv, GoodTree, TreeOK
<1> QED
  BY <1>1 DEF PathsInv, TablesOwn, Owns, TableIsPath

(* When the prompts of a workload part between blocks, the block table of    *)
(* every active request stays the path of its prompt through the tree, split,*)
(* purged and evicted under it by whatever other requests do.                *)
THEOREM TablesArePaths ==
  ASSUME PromptsPartBetweenBlocks
  PROVE  Spec => []TableIsPath
<1>1. CacheInv /\ WholeInv /\ PathsInv /\ [Next]_vars => CacheInv' /\ WholeInv' /\ PathsInv'
  BY CacheNextPreserves, WholeNext, PathsNext
<1>2. Init => PathsInv
  BY PathsStart DEF Init, Start
<1>3. WholeInv /\ PathsInv => TableIsPath
  BY PathsGiveTables
<1> QED
  BY CacheInitInv, WholeInit, <1>1, <1>2, <1>3, PTL DEF Spec

(* The tree has all of toks, on live blocks.                                 *)
FullHit(toks) == toks \in TreeNodes(tree) /\ ToSet(PathBlocks(tree, toks)) \subseteq Alive

(* An active request keeps its tokens in the tree, and on live blocks.       *)
LEMMA TableHits ==
  ASSUME ManagerInv, PathsInv, NEW r \in Active, tables[r].toks # <<>>
  PROVE  FullHit(tables[r].toks)
<1>1. Owns(tree, tables[r].toks, tables[r].bids)
  BY DEF PathsInv, TablesOwn
<1>2. r \in Requests
  BY DEF Active
<1>3. \A b \in ToSet(tables[r].bids) : b \in Alive
  BY <1>2, TableIsAlive
<1> QED
  BY <1>1, <1>3 DEF Owns, FullHit

(* A step of a call gives out no table but that of its request and tokens.   *)
LEMMA CallTables ==
  ASSUME CacheInv, CallStep, NEW r \in Active'
  PROVE  \/ r \in Active /\ tables'[r] = tables[r]
         \/ r = call.req /\ tables'[r].toks = call.toks
<1>1. CASE InnerStep
  <2>1. tables' = tables
    BY <1>1, InnerStepIsQuiet
  <2> QED
    BY <2>1 DEF Active
<1>2. CASE Unwind
  BY <1>2 DEF Unwind, Active
<1>3. CASE Rematch
  <2>1. PICK bids : tables' = [tables EXCEPT ![call.req] = [toks |-> call.toks, bids |-> bids, active |-> TRUE]]
    BY <1>3 DEF Rematch, Table
  <2>2. call.req \in Requests
    BY <1>3 DEF Rematch, CacheInv, CallShape
  <2>3. /\ tables'[call.req].toks = call.toks
        /\ \A q \in Requests : q # call.req => tables'[q] = tables[q]
    BY <2>1, <2>2 DEF CacheInv, TableShape
  <2> QED
    BY <2>3 DEF Active
<1> QED
  BY <1>1, <1>2, <1>3 DEF CallStep, InnerStep

(* A prompt of whole blocks is its own aligned part.                         *)
LEMMA WholeIsAligned ==
  ASSUME NEW p \in Prompts, FillsBlocks(Len(p))
  PROVE  /\ AlignedTokens(p) = p /\ TotalBlocks(p) \in Nat
         /\ Len(p) = TotalBlocks(p) * BlockSize
<1>1. p \in Seq(Tokens) /\ Len(p) \in Nat /\ BlockSize \in Nat \ {0}
  BY PromptIsSeq, BlockSizeAssumption
<1>2. PICK k \in Nat : Len(p) = k * BlockSize
  BY DEF FillsBlocks
<1>3. Len(p) \div BlockSize = k
  <2>1. PICK n, d : n = Len(p) /\ d = n \div BlockSize
    OBVIOUS
  <2>2. d \in Nat /\ d * BlockSize <= n /\ n < d * BlockSize + BlockSize
    BY <1>1, <2>1, DivFacts
  <2>3. d * BlockSize <= k * BlockSize /\ k * BlockSize < (d + 1) * BlockSize
    BY <1>1, <1>2, <2>1, <2>2
  <2>4. d <= k /\ k < d + 1
    BY <1>1, <2>2, <2>3
  <2> QED
    BY <2>1, <2>2, <2>4
<1>4. SubSeq(p, 1, Len(p)) = p
  BY <1>1
<1> QED
  BY <1>2, <1>3, <1>4 DEF AlignedTokens, TotalBlocks

(* What is hit is hit whole: lookup counts every token of a prompt that      *)
(* fills its blocks.                                                         *)
LEMMA HitIsWhole ==
  ASSUME WholeInv, PathsInv, NEW p \in Prompts, FillsBlocks(Len(p)), Len(p) > 0, FullHit(p)
  PROVE  LookupTokens(p) = Len(p)
<1>1. p \in Seq(Tokens) /\ Len(p) \in Nat /\ BlockSize \in Nat \ {0}
  BY PromptIsSeq, BlockSizeAssumption
<1>2. PICK k : k = TotalBlocks(p)
  OBVIOUS
<1>3. k \in Nat /\ Len(p) = k * BlockSize /\ Len(p) \div BlockSize = k
  BY <1>2, WholeIsAligned DEF TotalBlocks
<1>4. AlignedTokens(p) = p
  BY WholeIsAligned
<1>5. TreeOK(tree) /\ IsTree(tree) /\ BlockTree(tree)
  BY DEF WholeInv, TreeInv, GoodTree, TreeOK, PathsInv
<1>6. MatchedLen(tree, p) = Len(p)
  <2>1. Agree(p, p, Len(p)) /\ p \in TreeNodes(tree)
    BY <1>1 DEF FullHit, Agree
  <2>2. Len(p) <= MatchedLen(tree, p) /\ MatchedLen(tree, p) \in 0..Len(p)
    BY <1>1, <1>5, <2>1, MatchedFacts
  <2> QED
    BY <1>1, <2>2
<1>7. TotalBlocks(p) = k /\ MatchedLen(tree, p) \div BlockSize >= TotalBlocks(p)
  BY <1>2, <1>3, <1>6
<1>8. PICK s : s = PathBlocks(tree, p)
  OBVIOUS
<1>9. Owns(tree, p, SubSeq(s, 1, k)) /\ Len(s) = k
  <2>1. p = AlignedTokens(p)
    BY <1>4
  <2> QED
    BY <1>5, <1>7, <1>8, <2>1, FullMatchOwns
<1>10. SubSeq(s, 1, k) = s
  BY <1>8, <1>9 DEF Owns
<1>11. MatchedPath(p) = s
  BY <1>3, <1>6, <1>8, <1>10 DEF MatchedPath
<1>12. s \in Seq(Blocks)
  <2>1. PICK f : IsPath(f, tree, p) /\ PathBlocks(tree, p) = f[Len(p)]
    BY <1>1, <1>5, PathExists
  <2>2. \A n \in 0..Len(p) : f[n] \in Seq(Blocks)
    BY <1>1, <1>5, <2>1, PathStep
  <2> QED
    BY <1>1, <1>8, <2>1, <2>2
<1>13. {i \in DOMAIN s : s[i] \in Alive} = 1..k
  <2>1. DOMAIN s = 1..k
    BY <1>9, <1>12
  <2>2. \A i \in DOMAIN s : s[i] \in Alive
    BY <1>8 DEF FullHit, ToSet
  <2> QED
    BY <2>1, <2>2
<1>14. Cardinality(1..k) = k
  BY <1>3, FS_Interval
<1>15. LookupTokens(p) = BlockSize * k
  BY <1>11, <1>13, <1>14 DEF LookupTokens
<1> QED
  BY <1>1, <1>3, <1>15
=============================================================================
