------------------------------ MODULE RadixTree ------------------------------
(***************************************************************************)
(* The radix tree of one node (kv_cache/radix_tree.py), as operators on a  *)
(* tree value.                                                             *)
(*                                                                         *)
(* A tree is a function from the nodes to [bids, last]: `bids` are a       *)
(* node's block_ids and `last` its last_access_time.  A node is named by   *)
(* its full token path from the root, so the edge structure needs no       *)
(* pointers: the parent of p is the longest node that is a strict prefix   *)
(* of p (the root, <<>>, is implicit), key is the rest of p, and children  *)
(* that start with the same token would share that token's prefix, which   *)
(* Branching below excludes.  RadixNode.ref_count is written nowhere in    *)
(* the program and every guard on it is true.                              *)
(***************************************************************************)
EXTENDS Integers, Sequences, FiniteSets, SequencesExt

CONSTANTS
  BlockSize     (* Tokens per KV block: ModelConfig.block_size.              *)

ASSUME BlockSizeAssumption == BlockSize \in Nat \ {0}

EmptyTree == [p \in {} |-> p]

CeilDiv(n) == (n + BlockSize - 1) \div BlockSize

(* _n_blocks(key) for a key of n tokens.                                     *)
NBlocks(n) == CeilDiv(n)

TreeNodes(T) == DOMAIN T
ParentLen(T, p) == Max({0} \cup {Len(q) : q \in {q \in TreeNodes(T) : IsStrictPrefix(q, p)}})
KeyLen(T, p) == Len(p) - ParentLen(T, p)
Subtree(T, p) == {q \in TreeNodes(T) : IsPrefix(p, q)}
IsLeaf(T, p) == Subtree(T, p) = {p}
BlocksOf(T) == UNION {ToSet(T[p].bids) : p \in TreeNodes(T)}

(* _cp_len of two paths.                                                     *)
CpLen(s, t) == Len(LongestCommonPrefix({s, t}))

-----------------------------------------------------------------------------
(* Matching: match_prefix_path walks down the edges that toks covers fully.  *)

MatchedLen(T, toks) == Max({0} \cup {Len(p) : p \in {p \in TreeNodes(T) : IsPrefix(p, toks)}})

(* The concatenated block_ids of the fully matched nodes, root to deepest.   *)
PathBlocks(T, toks) ==
  LET upTo[n \in 0..Len(toks)] ==
        IF n = 0 THEN <<>>
        ELSE LET p == SubSeq(toks, 1, n)
             IN upTo[n - 1] \o (IF p \in TreeNodes(T) THEN T[p].bids ELSE <<>>)
  IN upTo[Len(toks)]

(* The side effect of every walk: the matched nodes are stamped with `now`.  *)
Touch(T, toks, now) ==
  [p \in TreeNodes(T) |-> IF IsPrefix(p, toks) THEN [T[p] EXCEPT !.last = now] ELSE T[p]]

-----------------------------------------------------------------------------
(* insert.  After the matched nodes it meets a fresh edge (a new leaf), an   *)
(* edge it shares only in part (a split, then a leaf for the rest, if any),  *)
(* or the end of toks (nothing to do).                                       *)

(* How far toks runs along any edge of T: the split point, or the match.     *)
SharedLen(T, toks) == Max({0} \cup {CpLen(p, toks) : p \in TreeNodes(T)})

NeedsSplit(T, toks) == SharedLen(T, toks) > MatchedLen(T, toks)

(* The edge to split ends at the shortest node below the split point.        *)
SplitChild(T, toks) ==
  CHOOSE p \in Subtree(T, SubSeq(toks, 1, SharedLen(T, toks))) :
    \A q \in Subtree(T, SubSeq(toks, 1, SharedLen(T, toks))) : Len(p) <= Len(q)

(* Blocks minted for the split: one when the boundary block is shared by the *)
(* two halves (needs_extra), and for the leaf that holds the rest of toks.   *)
SplitMint(T, toks) ==
  IF ~NeedsSplit(T, toks) THEN 0
  ELSE LET child == SplitChild(T, toks)
           cpBlocks == NBlocks(SharedLen(T, toks) - MatchedLen(T, toks))
           tailBlocks == NBlocks(Len(child) - SharedLen(T, toks))
       IN IF cpBlocks + tailBlocks > Len(T[child].bids) THEN 1 ELSE 0

LeafMint(T, toks) == NBlocks(Len(toks) - SharedLen(T, toks))

(* Mutant of Split: child keeps the blocks that went to mid as well.         *)
SplitKeepsAll(T, toks, extra, now) ==
  IF ~NeedsSplit(T, toks) THEN T
  ELSE LET child == SplitChild(T, toks)
           mid == SubSeq(toks, 1, SharedLen(T, toks))
           cpBlocks == NBlocks(SharedLen(T, toks) - MatchedLen(T, toks))
       IN [p \in TreeNodes(T) \cup {mid} |->
             IF p = mid THEN [bids |-> SubSeq(T[child].bids, 1, cpBlocks), last |-> now]
             ELSE T[p]]

(* The irreversible split: mid takes the blocks of the shared prefix, child  *)
(* keeps the others behind the fresh head block, if there is one.            *)
Split(T, toks, extra, now) ==
  IF ~NeedsSplit(T, toks) THEN T
  ELSE LET child == SplitChild(T, toks)
           mid == SubSeq(toks, 1, SharedLen(T, toks))
           cpBlocks == NBlocks(SharedLen(T, toks) - MatchedLen(T, toks))
           old == T[child].bids
       IN [p \in TreeNodes(T) \cup {mid} |->
             IF p = mid THEN [bids |-> SubSeq(old, 1, cpBlocks), last |-> now]
             ELSE IF p = child
                  THEN [T[p] EXCEPT !.bids = extra \o SubSeq(old, cpBlocks + 1, Len(old))]
             ELSE T[p]]

AddLeaf(T, toks, bids, now) ==
  IF bids = <<>> THEN T
  ELSE [p \in TreeNodes(T) \cup {toks} |->
          IF p = toks THEN [bids |-> bids, last |-> now] ELSE T[p]]

-----------------------------------------------------------------------------
(* Removal.                                                                  *)

RemoveNodes(T, gone) == [p \in TreeNodes(T) \ gone |-> T[p]]

(* Mutant of PurgeBlocks: a leaf goes when any of its blocks was freed.      *)
PurgeTouched(T, freed, alive) ==
  RemoveNodes(T, {p \in TreeNodes(T) : IsLeaf(T, p) /\ ToSet(T[p].bids) \cap freed # {}})

(* purge_block_ids: the leaves that own a freed block and no live one.       *)
PurgeBlocks(T, freed, alive) ==
  RemoveNodes(T, {p \in TreeNodes(T) : /\ IsLeaf(T, p)
                                   /\ ToSet(T[p].bids) \cap freed # {}
                                   /\ ToSet(T[p].bids) \cap alive = {}})

(* purge_path_with_any_dead severs the path at its first node with a dead    *)
(* block; everything below goes with it (_purge_subtree_alive).              *)
DeadOnPath(T, toks, alive) ==
  {p \in TreeNodes(T) : IsPrefix(p, toks) /\ ~(ToSet(T[p].bids) \subseteq alive)}

SeveredNodes(T, toks, alive) == UNION {Subtree(T, p) : p \in DeadOnPath(T, toks, alive)}

(* The live blocks of the severed nodes, which go back to the pool.          *)
SeveredAlive(T, toks, alive) ==
  alive \cap UNION {ToSet(T[p].bids) : p \in SeveredNodes(T, toks, alive)}

(* demote_lru's candidates: leaves without a pinned block, and among them    *)
(* the least recently used.  Ties, which Python breaks by dict order, are    *)
(* left open.                                                                *)
DemotionCandidates(T, pinned) ==
  {p \in TreeNodes(T) : IsLeaf(T, p) /\ ToSet(T[p].bids) \cap pinned = {}}

LruVictims(T, pinned) ==
  {p \in DemotionCandidates(T, pinned) :
     \A q \in DemotionCandidates(T, pinned) : T[p].last <= T[q].last}

-----------------------------------------------------------------------------
(* Well-formedness.                                                          *)

(* No two edges out of a node start alike: two nodes part at a node or root. *)
Branching(T) ==
  \A p, q \in TreeNodes(T) :
    LET cp == LongestCommonPrefix({p, q}) IN cp # <<>> => cp \in TreeNodes(T)

(* A node owns exactly the blocks its key needs.                             *)
SizedNodes(T) == \A p \in TreeNodes(T) : Len(T[p].bids) = CeilDiv(KeyLen(T, p))

(* No block id occurs twice in the tree.                                     *)
OwnedOnce(T) ==
  /\ \A p \in TreeNodes(T) : IsInjective(T[p].bids)
  /\ \A p, q \in TreeNodes(T) : p # q => ToSet(T[p].bids) \cap ToSet(T[q].bids) = {}
=============================================================================
