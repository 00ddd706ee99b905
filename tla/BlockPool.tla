------------------------------ MODULE BlockPool ------------------------------
(***************************************************************************)
(* The metadata-only block pool of one node (kv_cache/block_pool.py): KV   *)
(* cache slots on three storage tiers, and the pins that active requests   *)
(* hold on them.                                                           *)
(*                                                                         *)
(* Every method validates all of its arguments before it assigns anything, *)
(* so a call that raises changes nothing: an action below is a call that   *)
(* returns, and the negation of its guard is a call that raises.           *)
(*                                                                         *)
(* The module is used twice: on its own (PoolSpec), with an arbitrary      *)
(* client, and as the pool half of CacheManager, whose steps are built     *)
(* from the same actions.                                                  *)
(***************************************************************************)
EXTENDS Integers, FiniteSets

CONSTANTS
  Blocks,      (* The block ids the model may hand out (UUIDs in the code).  *)
  GpuBlocks,   (* Capacity of each tier: NodeConfig.gpu_blocks, ...          *)
  CpuBlocks,
  DiskBlocks

Tiers == {"gpu", "cpu", "disk"}
Capacity == [gpu |-> GpuBlocks, cpu |-> CpuBlocks, disk |-> DiskBlocks]

(* tier_of(b) of a block that is not in _block_tier: freed, or never used.   *)
None == "none"

ASSUME PoolAssumption ==
  /\ IsFiniteSet(Blocks)
  /\ GpuBlocks \in Nat /\ CpuBlocks \in Nat /\ DiskBlocks \in Nat

VARIABLES
  allocated,   (* _TierState.allocated: the block ids each tier holds.       *)
  blockTier,   (* _block_tier: the tier of each block, None if unallocated.  *)
  pinCount     (* _pin_count.  _ref_count is written wherever _pin_count is, *)
               (* with the same value, and is not kept twice.                *)

poolVars == <<allocated, blockTier, pinCount>>

-----------------------------------------------------------------------------
(* Queries.                                                                  *)

(* used(tier), and the `free` column of stats().                             *)
Used(tier) == Cardinality(allocated[tier])
Free(tier) == Capacity[tier] - Used(tier)

(* The blocks for which tier_of is not None.                                 *)
Alive == {b \in Blocks : blockTier[b] # None}

Pinned == {b \in Blocks : pinCount[b] > 0}

-----------------------------------------------------------------------------
(* Methods.                                                                  *)

PoolInit ==
  /\ allocated = [t \in Tiers |-> {}]
  /\ blockTier = [b \in Blocks |-> None]
  /\ pinCount = [b \in Blocks |-> 0]

(* allocate(len(ids), tier): uuid4() never repeats an id, so the new ids are *)
(* not allocated.  MemoryError if the tier has fewer free slots.             *)
Allocate(ids, tier) ==
  /\ ids \subseteq Blocks \ Alive
  /\ Cardinality(ids) <= Free(tier)
  /\ allocated' = [allocated EXCEPT ![tier] = @ \cup ids]
  /\ blockTier' = [b \in Blocks |-> IF b \in ids THEN tier ELSE blockTier[b]]
  /\ pinCount' = [b \in Blocks |-> IF b \in ids THEN 0 ELSE pinCount[b]]

(* Mutant of FreeBlocks: the pin check dropped, the counter left behind.     *)
FreePinned(ids) ==
  /\ ids \subseteq Alive
  /\ allocated' = [t \in Tiers |-> allocated[t] \ ids]
  /\ blockTier' = [b \in Blocks |-> IF b \in ids THEN None ELSE blockTier[b]]
  /\ UNCHANGED pinCount

(* free(ids): KeyError for an unknown id, RuntimeError for a pinned one.     *)
FreeBlocks(ids) ==
  /\ ids \subseteq Alive \ Pinned
  /\ allocated' = [t \in Tiers |-> allocated[t] \ ids]
  /\ blockTier' = [b \in Blocks |-> IF b \in ids THEN None ELSE blockTier[b]]
  /\ pinCount' = [b \in Blocks |-> IF b \in ids THEN 0 ELSE pinCount[b]]

(* pin(ids): KeyError for an unknown id.                                     *)
Pin(ids) ==
  /\ ids \subseteq Alive
  /\ pinCount' = [b \in Blocks |-> IF b \in ids THEN pinCount[b] + 1 ELSE pinCount[b]]
  /\ UNCHANGED <<allocated, blockTier>>

(* unpin(ids): KeyError for an unknown id, RuntimeError for an unpinned one. *)
Unpin(ids) ==
  /\ ids \subseteq Alive \cap Pinned
  /\ pinCount' = [b \in Blocks |-> IF b \in ids THEN pinCount[b] - 1 ELSE pinCount[b]]
  /\ UNCHANGED <<allocated, blockTier>>

(* Mutant of Move: the block is not discarded from the source tier.          *)
MoveKeepsSource(b, from, to) ==
  /\ blockTier[b] = from
  /\ b \notin Pinned
  /\ Free(to) >= 1
  /\ allocated' = [allocated EXCEPT ![to] = @ \cup {b}]
  /\ blockTier' = [blockTier EXCEPT ![b] = to]
  /\ UNCHANGED pinCount

(* _move, behind move, promote and demote: KeyError if the block is not on   *)
(* the source tier, RuntimeError if pinned, MemoryError if the destination   *)
(* has no free slot.                                                         *)
Move(b, from, to) ==
  /\ blockTier[b] = from
  /\ b \notin Pinned
  /\ Free(to) >= 1
  /\ allocated' = [t \in Tiers |->
                     IF t = to THEN allocated[t] \cup {b}
                     ELSE IF t = from THEN allocated[t] \ {b}
                     ELSE allocated[t]]
  /\ blockTier' = [blockTier EXCEPT ![b] = to]
  /\ UNCHANGED pinCount

PoolNext ==
  \/ \E ids \in SUBSET Blocks, t \in Tiers : Allocate(ids, t)
  \/ \E ids \in SUBSET Blocks : FreeBlocks(ids)
  \/ \E ids \in SUBSET Blocks : Pin(ids)
  \/ \E ids \in SUBSET Blocks : Unpin(ids)
  \/ \E b \in Blocks, from, to \in Tiers : Move(b, from, to)

PoolSpec == PoolInit /\ [][PoolNext]_poolVars

-----------------------------------------------------------------------------
(* Properties.                                                               *)

(* Type invariant of the pool's three maps.                                  *)
PoolTypeOK ==
  /\ allocated \in [Tiers -> SUBSET Blocks]
  /\ blockTier \in [Blocks -> Tiers \cup {None}]
  /\ pinCount \in [Blocks -> Nat]

(* The two indexes of the pool agree after any sequence of allocate, free    *)
(* and _move calls: a tier's block set holds exactly the blocks that         *)
(* _block_tier sends to it.  free and _move update them one after the other. *)
IndexAgreement ==
  \A t \in Tiers, b \in Blocks : b \in allocated[t] <=> blockTier[b] = t

(* No tier ever holds more blocks than NodeConfig gives it, whether they     *)
(* came by allocate or by _move.                                             *)
WithinCapacity ==
  \A t \in Tiers : Used(t) <= Capacity[t]

(* A pin is held on an allocated block only: free and _move refuse pinned    *)
(* blocks and a recycled slot starts unpinned, so no pin outlives its block. *)
PinnedAreAllocated ==
  Pinned \subseteq Alive
=============================================================================
