---------------------------- MODULE ClusterProofs ----------------------------
(***************************************************************************)
(* The cluster with the real cache of its decode node, for any number of   *)
(* requests and nodes, any prompts and any sizes of the cache.             *)
(*                                                                         *)
(* Two facts carry the composition.  A cache call changes nothing that the *)
(* handlers see, so Cluster implements Serving and keeps what is proved of *)
(* it; and between two calls only the clock of the cache moves, which its  *)
(* invariant does not depend on, so the cache keeps what CacheProofs says  *)
(* of it.  What is left is that the two agree on who has a block table:    *)
(* ClusterInv says where they may differ, while the answer of a call waits *)
(* for the handler that asked.                                             *)
(*                                                                         *)
(* Last, a request that decodes keeps its prompt cached.  CachedInv says   *)
(* that every table, and the one a running call is after, is that of its   *)
(* request's prompt; what CacheProofs says of tables as paths does the     *)
(* rest.                                                                   *)
(***************************************************************************)
EXTENDS Cluster, LedgerProofs

(* The cache manager again, with what is proved of it.                       *)
CP == INSTANCE CacheProofs WITH tables <- blockTables, now <- CacheTime

-----------------------------------------------------------------------------
(* Cluster is a way to run Serving.                                          *)

(* A cache call changes nothing that the handlers see, and a handler acts as *)
(* it does in Serving, with the answer of the cache as one of the answers    *)
(* that Serving allows.                                                      *)
LEMMA ClusterStepIsStep ==
  ASSUME [ClusterNext]_clusterVars
  PROVE  [Next]_vars
<1>1. CASE LookOnArrive \/ LookOnPrefill \/ MaterializeCall \/ MaterializeStep \/ ReleaseCall
  BY <1>1 DEF LookOnArrive, LookOnPrefill, MaterializeCall, MaterializeStep, ReleaseCall
<1>2. CASE OnArrive
  BY <1>2 DEF OnArrive, Next
<1>3. CASE OnPrefillStart \/ OnPrefillComplete \/ OnTransferComplete \/ OnDecodeComplete \/ OnOther
  BY <1>3 DEF OnPrefillStart, OnPrefillComplete, OnTransferComplete, OnDecodeComplete, OnOther, Next
<1>4. CASE UNCHANGED clusterVars
  BY <1>4 DEF clusterVars
<1> QED
  BY <1>1, <1>2, <1>3, <1>4 DEF ClusterNext

(* The cluster with the real cache implements the cluster with any cache.    *)
THEOREM ClusterIsServing == ClusterSpec => Spec
<1>1. ClusterInit => Init
  BY DEF ClusterInit
<1>2. [ClusterNext]_clusterVars => [Next]_vars
  BY ClusterStepIsStep
<1> QED
  BY <1>1, <1>2, PTL DEF ClusterSpec, Spec

-----------------------------------------------------------------------------
(* The two copies of the cache manager are one.                              *)

(* Its assumptions.                                                          *)
LEMMA CacheConstants == CP!PoolAssumption /\ CP!BlockSizeAssumption /\ CP!CacheAssumption
<1>1. CP!IsFiniteSet(Blocks) /\ CP!IsFiniteSet(Requests)
  BY ClusterAssumption, ServingAssumption DEF IsFiniteSet, CP!IsFiniteSet
<1>2. \A p \in Prompts : p \in Seq(CP!ToSet(p))
  BY ClusterAssumption DEF ToSet, CP!ToSet
<1> QED
  BY <1>1, <1>2, ClusterAssumption

(* Its state.                                                                *)
LEMMA SameState ==
  /\ Cache!Active = CP!Active /\ Cache!Alive = CP!Alive /\ Cache!Pinned = CP!Pinned
  /\ Cache!BlocksOf(tree) = CP!BlocksOf(tree)
BY DEF Cache!Active, CP!Active, Cache!Alive, CP!Alive, Cache!Pinned, CP!Pinned,
       Cache!BlocksOf, CP!BlocksOf, Cache!TreeNodes, CP!TreeNodes, Cache!None, CP!None,
       Cache!ToSet, CP!ToSet

(* Its start.                                                                *)
LEMMA SameInit ==
  ASSUME ClusterInit
  PROVE  CP!Start
BY DEF ClusterInit, CP!Start, Cache!PoolInit, CP!PoolInit, Cache!EmptyTree, CP!EmptyTree,
       Cache!NoTable, CP!NoTable, Cache!Idle, CP!Idle, Cache!Frame, CP!Frame,
       Cache!Tiers, CP!Tiers, Cache!None, CP!None

(* lookup.                                                                   *)
LEMMA SameLookup ==
  ASSUME NEW toks, Cache!Lookup(toks)
  PROVE  CP!Lookup(toks)
BY DEF Cache!Lookup, CP!Lookup, Cache!Touch, CP!Touch, Cache!TreeNodes, CP!TreeNodes,
       Cache!IsPrefix, CP!IsPrefix, Cache!poolVars, CP!poolVars

(* release_request.                                                          *)
LEMMA SameRelease ==
  ASSUME NEW r, Cache!Release(r)
  PROVE  CP!Release(r)
BY DEF Cache!Release, CP!Release, Cache!Unpin, CP!Unpin, Cache!Active, CP!Active,
       Cache!Alive, CP!Alive, Cache!Pinned, CP!Pinned, Cache!None, CP!None,
       Cache!NoTable, CP!NoTable, Cache!ToSet, CP!ToSet

(* materialize_request begins.                                               *)
LEMMA SameBegin ==
  ASSUME NEW r, NEW toks, Cache!MaterializeBegin(r, toks)
  PROVE  CP!MaterializeBegin(r, toks)
BY DEF Cache!MaterializeBegin, CP!MaterializeBegin, Cache!AlignedTokens,
       CP!AlignedTokens, Cache!LivePrefix, CP!LivePrefix, Cache!Active,
       CP!Active, Cache!TotalBlocks, CP!TotalBlocks, Cache!Touch, CP!Touch,
       Cache!Pin, CP!Pin, Cache!ToSet, CP!ToSet, Cache!Frame, CP!Frame,
       Cache!MatchedPath, CP!MatchedPath, Cache!Max, CP!Max, Cache!Alive,
       CP!Alive, Cache!TreeNodes, CP!TreeNodes, Cache!IsPrefix, CP!IsPrefix,
       Cache!PathBlocks, CP!PathBlocks, Cache!MatchedLen, CP!MatchedLen,
       Cache!None, CP!None

(* What an insert reads of the tree.                                         *)
LEMMA SameReads ==
  /\ \A T, toks : /\ Cache!SharedLen(T, toks) = CP!SharedLen(T, toks)
                  /\ Cache!MatchedLen(T, toks) = CP!MatchedLen(T, toks)
  /\ \A n : Cache!NBlocks(n) = CP!NBlocks(n)
  /\ \A T : Cache!TreeNodes(T) = CP!TreeNodes(T)
  /\ \A T, toks : /\ Cache!NeedsSplit(T, toks) <=> CP!NeedsSplit(T, toks)
                  /\ Cache!SplitChild(T, toks) = CP!SplitChild(T, toks)
<1>1. \A T, toks : /\ Cache!SharedLen(T, toks) = CP!SharedLen(T, toks)
                   /\ Cache!MatchedLen(T, toks) = CP!MatchedLen(T, toks)
  BY DEF Cache!SharedLen, CP!SharedLen, Cache!MatchedLen, CP!MatchedLen,
         Cache!TreeNodes, CP!TreeNodes, Cache!Max, CP!Max, Cache!CpLen,
         CP!CpLen, Cache!IsPrefix, CP!IsPrefix, Cache!LongestCommonPrefix,
         CP!LongestCommonPrefix, Cache!CommonPrefixes, CP!CommonPrefixes,
         Cache!Prefixes, CP!Prefixes
<1>2. /\ \A n : Cache!NBlocks(n) = CP!NBlocks(n)
      /\ \A T : Cache!TreeNodes(T) = CP!TreeNodes(T)
      /\ \A T, p : Cache!Subtree(T, p) = CP!Subtree(T, p)
  BY DEF Cache!NBlocks, CP!NBlocks, Cache!CeilDiv, CP!CeilDiv,
         Cache!TreeNodes, CP!TreeNodes, Cache!Subtree, CP!Subtree,
         Cache!IsPrefix, CP!IsPrefix
<1>3. \A T, toks : /\ Cache!NeedsSplit(T, toks) <=> CP!NeedsSplit(T, toks)
                   /\ Cache!SplitChild(T, toks) = CP!SplitChild(T, toks)
  BY <1>1, <1>2 DEF Cache!NeedsSplit, CP!NeedsSplit, Cache!SplitChild, CP!SplitChild
<1> QED
  BY <1>1, <1>2, <1>3

(* tree.insert.                                                              *)
LEMMA SameInsert ==
  ASSUME Cache!Insert
  PROVE  CP!Insert
<1>1. \A T, toks, t : Cache!Touch(T, toks, t) = CP!Touch(T, toks, t)
  BY DEF Cache!Touch, CP!Touch, Cache!TreeNodes, CP!TreeNodes, Cache!IsPrefix,
         CP!IsPrefix
<1>2. \A T, toks : Cache!SplitMint(T, toks) = CP!SplitMint(T, toks)
  BY SameReads DEF Cache!SplitMint, CP!SplitMint
<1>3. \A T, toks : Cache!LeafMint(T, toks) = CP!LeafMint(T, toks)
  BY DEF Cache!LeafMint, CP!LeafMint, Cache!NBlocks, CP!NBlocks,
         Cache!SharedLen, CP!SharedLen, Cache!CeilDiv, CP!CeilDiv, Cache!Max,
         CP!Max, Cache!CpLen, CP!CpLen, Cache!TreeNodes, CP!TreeNodes,
         Cache!LongestCommonPrefix, CP!LongestCommonPrefix,
         Cache!CommonPrefixes, CP!CommonPrefixes, Cache!Prefixes, CP!Prefixes,
         Cache!IsPrefix, CP!IsPrefix
<1>4. \A T, toks, x, t : Cache!Split(T, toks, x, t) = CP!Split(T, toks, x, t)
  <2>1. \A T, toks : /\ Cache!SharedLen(T, toks) = CP!SharedLen(T, toks)
                     /\ Cache!MatchedLen(T, toks) = CP!MatchedLen(T, toks)
    BY SameReads
  <2>2. /\ \A n : Cache!NBlocks(n) = CP!NBlocks(n)
        /\ \A T : Cache!TreeNodes(T) = CP!TreeNodes(T)
    BY SameReads
  <2>3. \A T, toks : /\ Cache!NeedsSplit(T, toks) <=> CP!NeedsSplit(T, toks)
                     /\ Cache!SplitChild(T, toks) = CP!SplitChild(T, toks)
    BY SameReads
  <2> SUFFICES ASSUME NEW T, NEW toks, NEW x, NEW t
               PROVE  Cache!Split(T, toks, x, t) = CP!Split(T, toks, x, t)
    OBVIOUS
  <2>4. PICK m, k, c, ns :
          m = CP!SharedLen(T, toks) /\ c = CP!SplitChild(T, toks) /\ ns = CP!TreeNodes(T)
          /\ k = CP!NBlocks(m - CP!MatchedLen(T, toks))
    OBVIOUS
  <2>5. /\ Cache!SharedLen(T, toks) = m /\ Cache!SplitChild(T, toks) = c /\ Cache!TreeNodes(T) = ns
        /\ Cache!NBlocks(m - Cache!MatchedLen(T, toks)) = k
        /\ Cache!NeedsSplit(T, toks) <=> CP!NeedsSplit(T, toks)
    BY <2>1, <2>2, <2>3, <2>4
  <2>6. CASE ~CP!NeedsSplit(T, toks)
    BY <2>5, <2>6 DEF Cache!Split, CP!Split
  <2>7. CASE CP!NeedsSplit(T, toks)
    <3> DEFINE split ==
          [p \in ns \cup {SubSeq(toks, 1, m)} |->
             IF p = SubSeq(toks, 1, m) THEN [bids |-> SubSeq(T[c].bids, 1, k), last |-> t]
             ELSE IF p = c
                  THEN [T[p] EXCEPT !.bids = x \o SubSeq(T[c].bids, k + 1, Len(T[c].bids))]
             ELSE T[p]]
    <3>1. CP!Split(T, toks, x, t) = split
      BY <2>4, <2>7 DEF CP!Split
    <3>2. Cache!Split(T, toks, x, t) = split
      BY <2>5, <2>7 DEF Cache!Split
    <3> QED
      BY <3>1, <3>2
  <2> QED
    BY <2>6, <2>7
<1>5. \A T, toks, x, t : Cache!AddLeaf(T, toks, x, t) = CP!AddLeaf(T, toks, x, t)
  BY DEF Cache!AddLeaf, CP!AddLeaf, Cache!TreeNodes, CP!TreeNodes
<1>6. \A n : Cache!FreshIds(n) = CP!FreshIds(n)
  BY DEF Cache!FreshIds, CP!FreshIds, Cache!UnusedIds, CP!UnusedIds,
         Cache!IsInjective, CP!IsInjective, Cache!Alive, CP!Alive,
         Cache!BlocksOf, CP!BlocksOf, Cache!None, CP!None, Cache!ToSet,
         CP!ToSet, Cache!TreeNodes, CP!TreeNodes
<1>7. Cache!Cardinality(Cache!UnusedIds) = CP!Cardinality(CP!UnusedIds)
  BY DEF Cache!UnusedIds, CP!UnusedIds, Cache!Cardinality, CP!Cardinality,
         Cache!Alive, CP!Alive, Cache!BlocksOf, CP!BlocksOf, Cache!None,
         CP!None, Cache!ToSet, CP!ToSet, Cache!TreeNodes, CP!TreeNodes
<1>8. \A s : Cache!Allocate(Cache!ToSet(s), "gpu") <=> CP!Allocate(CP!ToSet(s), "gpu")
  BY DEF Cache!Allocate, CP!Allocate, Cache!ToSet, CP!ToSet, Cache!Alive,
         CP!Alive, Cache!Cardinality, CP!Cardinality, Cache!Free, CP!Free,
         Cache!None, CP!None, Cache!Capacity, CP!Capacity, Cache!Used, CP!Used
<1>9. Cache!Free("gpu") = CP!Free("gpu") /\ (Cache!MustEvict <=> CP!MustEvict)
  BY DEF Cache!Free, CP!Free, Cache!MustEvict, CP!MustEvict, Cache!Capacity,
         CP!Capacity, Cache!Used, CP!Used, Cache!WorstCaseNew, CP!WorstCaseNew,
         Cache!Cardinality, CP!Cardinality, Cache!Min, CP!Min,
         Cache!TotalBlocks, CP!TotalBlocks
<1> QED
  BY <1>1, <1>2, <1>3, <1>4, <1>5, <1>6, <1>7, <1>8, <1>9
     DEF Cache!Insert, CP!Insert, Cache!AdmitReturns, CP!AdmitReturns,
         Cache!Raise, CP!Raise, Cache!TooLarge, CP!TooLarge, Cache!Idle,
         CP!Idle, Cache!TotalBlocks, CP!TotalBlocks, Cache!Frame, CP!Frame

(* The other steps of the call.                                              *)
LEMMA SameCallStep ==
  ASSUME Cache!CallStep
  PROVE  CP!CallStep
<1>1. Cache!AdmitCached => CP!AdmitCached
  BY DEF Cache!AdmitCached, CP!AdmitCached, Cache!FullyMatched,
         CP!FullyMatched, Cache!AllLive, CP!AllLive, Cache!Touch, CP!Touch,
         Cache!AdmitReturns, CP!AdmitReturns, Cache!poolVars, CP!poolVars,
         Cache!MatchedLen, CP!MatchedLen, Cache!TotalBlocks, CP!TotalBlocks,
         Cache!ToSet, CP!ToSet, Cache!PathBlocks, CP!PathBlocks, Cache!Alive,
         CP!Alive, Cache!TreeNodes, CP!TreeNodes, Cache!IsPrefix, CP!IsPrefix,
         Cache!Idle, CP!Idle, Cache!Max, CP!Max, Cache!None, CP!None,
         Cache!Frame, CP!Frame
<1>2. Cache!AdmitMiss => CP!AdmitMiss
  BY DEF Cache!AdmitMiss, CP!AdmitMiss, Cache!FullyMatched, CP!FullyMatched,
         Cache!Touch, CP!Touch, Cache!poolVars, CP!poolVars, Cache!MatchedLen,
         CP!MatchedLen, Cache!TotalBlocks, CP!TotalBlocks, Cache!TreeNodes,
         CP!TreeNodes, Cache!IsPrefix, CP!IsPrefix, Cache!Max, CP!Max
<1>3. Cache!AdmitPurge => CP!AdmitPurge
  BY DEF Cache!AdmitPurge, CP!AdmitPurge, Cache!FullyMatched, CP!FullyMatched,
         Cache!AllLive, CP!AllLive, Cache!FreeBlocks, CP!FreeBlocks,
         Cache!SeveredAlive, CP!SeveredAlive, Cache!Alive, CP!Alive,
         Cache!Touch, CP!Touch, Cache!RemoveNodes, CP!RemoveNodes,
         Cache!SeveredNodes, CP!SeveredNodes, Cache!MatchedLen, CP!MatchedLen,
         Cache!TotalBlocks, CP!TotalBlocks, Cache!ToSet, CP!ToSet,
         Cache!PathBlocks, CP!PathBlocks, Cache!Pinned, CP!Pinned, Cache!Tiers,
         CP!Tiers, Cache!None, CP!None, Cache!TreeNodes, CP!TreeNodes,
         Cache!IsPrefix, CP!IsPrefix, Cache!Subtree, CP!Subtree,
         Cache!DeadOnPath, CP!DeadOnPath, Cache!Max, CP!Max
<1>4. Cache!AdmitPurgeFails => CP!AdmitPurgeFails
  BY DEF Cache!AdmitPurgeFails, CP!AdmitPurgeFails, Cache!FullyMatched,
         CP!FullyMatched, Cache!AllLive, CP!AllLive, Cache!SeveredAlive,
         CP!SeveredAlive, Cache!Alive, CP!Alive, Cache!Pinned, CP!Pinned,
         Cache!Touch, CP!Touch, Cache!Raise, CP!Raise, Cache!poolVars,
         CP!poolVars, Cache!MatchedLen, CP!MatchedLen, Cache!TotalBlocks,
         CP!TotalBlocks, Cache!ToSet, CP!ToSet, Cache!PathBlocks,
         CP!PathBlocks, Cache!SeveredNodes, CP!SeveredNodes, Cache!None,
         CP!None, Cache!TreeNodes, CP!TreeNodes, Cache!IsPrefix, CP!IsPrefix,
         Cache!Max, CP!Max, Cache!Subtree, CP!Subtree, Cache!DeadOnPath,
         CP!DeadOnPath
<1>5. Cache!AdmitTooLarge => CP!AdmitTooLarge
  BY DEF Cache!AdmitTooLarge, CP!AdmitTooLarge, Cache!TooLarge, CP!TooLarge,
         Cache!Raise, CP!Raise, Cache!poolVars, CP!poolVars, Cache!TotalBlocks,
         CP!TotalBlocks
<1>6. Cache!NothingToEvict => CP!NothingToEvict
  BY DEF Cache!NothingToEvict, CP!NothingToEvict, Cache!TooLarge, CP!TooLarge,
         Cache!MustEvict, CP!MustEvict, Cache!DemotionCandidates,
         CP!DemotionCandidates, Cache!Pinned, CP!Pinned, Cache!Raise, CP!Raise,
         Cache!poolVars, CP!poolVars, Cache!TotalBlocks, CP!TotalBlocks,
         Cache!Used, CP!Used, Cache!WorstCaseNew, CP!WorstCaseNew,
         Cache!TreeNodes, CP!TreeNodes, Cache!IsLeaf, CP!IsLeaf, Cache!ToSet,
         CP!ToSet, Cache!Cardinality, CP!Cardinality, Cache!Min, CP!Min,
         Cache!Subtree, CP!Subtree, Cache!IsPrefix, CP!IsPrefix
<1>7. Cache!DropZombie => CP!DropZombie
  BY DEF Cache!DropZombie, CP!DropZombie, Cache!TooLarge, CP!TooLarge,
         Cache!MustEvict, CP!MustEvict, Cache!LruVictims, CP!LruVictims,
         Cache!Pinned, CP!Pinned, Cache!ToSet, CP!ToSet, Cache!Alive, CP!Alive,
         Cache!RemoveNodes, CP!RemoveNodes, Cache!poolVars, CP!poolVars,
         Cache!TotalBlocks, CP!TotalBlocks, Cache!Used, CP!Used,
         Cache!WorstCaseNew, CP!WorstCaseNew, Cache!DemotionCandidates,
         CP!DemotionCandidates, Cache!None, CP!None, Cache!TreeNodes,
         CP!TreeNodes, Cache!Cardinality, CP!Cardinality, Cache!Min, CP!Min,
         Cache!IsLeaf, CP!IsLeaf, Cache!Subtree, CP!Subtree, Cache!IsPrefix,
         CP!IsPrefix
<1>8. Cache!SelectVictim => CP!SelectVictim
  BY DEF Cache!SelectVictim, CP!SelectVictim, Cache!TooLarge, CP!TooLarge,
         Cache!MustEvict, CP!MustEvict, Cache!LruVictims, CP!LruVictims,
         Cache!Pinned, CP!Pinned, Cache!ToSet, CP!ToSet, Cache!Alive, CP!Alive,
         Cache!poolVars, CP!poolVars, Cache!TotalBlocks, CP!TotalBlocks,
         Cache!Used, CP!Used, Cache!WorstCaseNew, CP!WorstCaseNew,
         Cache!DemotionCandidates, CP!DemotionCandidates, Cache!None, CP!None,
         Cache!Cardinality, CP!Cardinality, Cache!Min, CP!Min, Cache!TreeNodes,
         CP!TreeNodes, Cache!IsLeaf, CP!IsLeaf, Cache!Subtree, CP!Subtree,
         Cache!IsPrefix, CP!IsPrefix
<1>9. Cache!DemoteDead => CP!DemoteDead
  BY DEF Cache!DemoteDead, CP!DemoteDead, Cache!Alive, CP!Alive,
         Cache!NextVictimBlock, CP!NextVictimBlock, Cache!poolVars,
         CP!poolVars, Cache!None, CP!None
<1>10. Cache!DemoteDown => CP!DemoteDown
  BY DEF Cache!DemoteDown, CP!DemoteDown, Cache!DemotionTarget,
         CP!DemotionTarget, Cache!Alive, CP!Alive, Cache!None, CP!None,
         Cache!Move, CP!Move, Cache!NextVictimBlock, CP!NextVictimBlock,
         Cache!Free, CP!Free, Cache!Pinned, CP!Pinned, Cache!Tiers, CP!Tiers,
         Cache!Capacity, CP!Capacity, Cache!Used, CP!Used, Cache!Cardinality,
         CP!Cardinality
<1>11. Cache!DemoteOut => CP!DemoteOut
  BY DEF Cache!DemoteOut, CP!DemoteOut, Cache!Alive, CP!Alive,
         Cache!DemotionTarget, CP!DemotionTarget, Cache!None, CP!None,
         Cache!FreeBlocks, CP!FreeBlocks, Cache!PurgeBlocks, CP!PurgeBlocks,
         Cache!NextVictimBlock, CP!NextVictimBlock, Cache!Free, CP!Free,
         Cache!Pinned, CP!Pinned, Cache!Tiers, CP!Tiers, Cache!RemoveNodes,
         CP!RemoveNodes, Cache!TreeNodes, CP!TreeNodes, Cache!IsLeaf,
         CP!IsLeaf, Cache!ToSet, CP!ToSet, Cache!Capacity, CP!Capacity,
         Cache!Used, CP!Used, Cache!Subtree, CP!Subtree, Cache!Cardinality,
         CP!Cardinality, Cache!IsPrefix, CP!IsPrefix
<1>12. Cache!Rematch => CP!Rematch
  BY DEF Cache!Rematch, CP!Rematch, Cache!PathBlocks, CP!PathBlocks,
         Cache!TotalBlocks, CP!TotalBlocks, Cache!MatchedLen, CP!MatchedLen,
         Cache!ToSet, CP!ToSet, Cache!Alive, CP!Alive, Cache!Touch, CP!Touch,
         Cache!Pin, CP!Pin, Cache!Table, CP!Table, Cache!Idle, CP!Idle,
         Cache!TreeNodes, CP!TreeNodes, Cache!Max, CP!Max, Cache!IsPrefix,
         CP!IsPrefix, Cache!None, CP!None, Cache!Frame, CP!Frame
<1>13. Cache!RematchFails => CP!RematchFails
  BY DEF Cache!RematchFails, CP!RematchFails, Cache!PathBlocks, CP!PathBlocks,
         Cache!TotalBlocks, CP!TotalBlocks, Cache!MatchedLen, CP!MatchedLen,
         Cache!ToSet, CP!ToSet, Cache!Alive, CP!Alive, Cache!Touch, CP!Touch,
         Cache!Raise, CP!Raise, Cache!poolVars, CP!poolVars, Cache!TreeNodes,
         CP!TreeNodes, Cache!Max, CP!Max, Cache!IsPrefix, CP!IsPrefix,
         Cache!None, CP!None
<1>14. Cache!Unwind => CP!Unwind
  BY DEF Cache!Unwind, CP!Unwind, Cache!Unpin, CP!Unpin, Cache!ToSet, CP!ToSet,
         Cache!Idle, CP!Idle, Cache!Alive, CP!Alive, Cache!Pinned, CP!Pinned,
         Cache!Frame, CP!Frame, Cache!None, CP!None
<1> QED
  BY <1>1, <1>2, <1>3, <1>4, <1>5, <1>6, <1>7, <1>8, <1>9, <1>10, <1>11, <1>12,
     <1>13, <1>14, SameInsert DEF Cache!CallStep, CP!CallStep

-----------------------------------------------------------------------------
(* The handlers and the cache agree.                                         *)

(* While materialize_request runs, the end of its transfer is at the head of *)
(* the queue, and its decode node still has the room the handler saw.        *)
Calling ==
  call.pc # "idle" =>
    /\ events # <<>> /\ Head(events).type = "KV_TRANSFER_COMPLETE" /\ ~answered
    /\ HasRoom(nodes[decisions[Req].decode])
    /\ call.pc # "crashed" => call.req = Req

(* An answer waits for the handler of the event at the head.                 *)
Waits ==
  answered =>
    /\ events # <<>>
    /\ Head(events).type = "KV_TRANSFER_COMPLETE" => HasRoom(nodes[decisions[Req].decode])

(* The tables of the cache are those that Serving knows of, but for the one  *)
(* that the handler of the event at the head has just made or released.      *)
InStep ==
  IF answered /\ Head(events).type = "KV_TRANSFER_COMPLETE"
  THEN CP!Active \in {tables, tables \cup {Req}}
  ELSE IF answered /\ Head(events).type = "DECODE_COMPLETE"
  THEN CP!Active = tables \ {Req}
  ELSE CP!Active = tables

Agreed == Calling /\ Waits /\ InStep

(* The inductive invariant of the cluster.                                   *)
ClusterInv ==
  /\ Inv
  /\ CP!ManagerInv
  /\ prompt \in [Requests -> Prompts \cup {<<>>}]
  /\ Agreed

(* The event at the head.                                                    *)
LEMMA HeadEvent ==
  ASSUME Inv, events # <<>>
  PROVE  /\ Head(events).time \in Nat
         /\ Head(events).type # "DECODE_BATCH_STEP" => Req \in Requests
<1>1. events \in Seq(Event)
  BY DEF Inv, Typed
<1>2. Head(events) \in Event /\ Head(events) \in Queued
  BY <1>1 DEF Queued, ToSet
<1>3. Fits(Head(events))
  BY <1>2 DEF Inv
<1> QED
  BY <1>2, <1>3 DEF Event, Fits, Req

(* The clock of the cache is a time.                                         *)
LEMMA CacheClock == Inv => CacheTime \in Nat
<1> SUFFICES ASSUME Inv PROVE CacheTime \in Nat
  OBVIOUS
<1>1. now \in Nat
  BY DEF Inv, Typed
<1> QED
  BY <1>1, HeadEvent DEF CacheTime

(* Everything starts out empty.                                              *)
LEMMA ClusterInitInv == ClusterInit => ClusterInv
<1> SUFFICES ASSUME ClusterInit PROVE ClusterInv
  OBVIOUS
<1>1. Inv
  BY InitInv DEF ClusterInit
<1>2. CP!ManagerInv /\ CP!Active = {}
  BY <1>1, CacheClock, SameInit, CacheConstants, CP!ManagerInit
<1>3. prompt \in [Requests -> Prompts \cup {<<>>}]
  BY DEF ClusterInit
<1>4. call.pc = "idle" /\ ~answered /\ tables = {}
  BY DEF ClusterInit, Init, Cache!Idle, Cache!Frame
<1> QED
  BY <1>1, <1>2, <1>3, <1>4 DEF ClusterInv, Agreed, Calling, Waits, InStep

(* A handler uses the answer and pops the event.                             *)
LEMMA HandledInv ==
  ASSUME ClusterInv, Inv', Handled, CP!Active = tables'
  PROVE  ClusterInv' /\ CP!Active' = CP!Active
<1>1. /\ call.pc = "idle" /\ ~answered' /\ prompt' = prompt
      /\ UNCHANGED <<allocated, blockTier, pinCount, tree, call, blockTables>>
  BY DEF Handled, cacheVars
<1>2. (CacheTime \in Nat)'
  BY CacheClock, PTL
<1>3. UNCHANGED <<CP!poolVars, tree, blockTables, call>>
  BY <1>1 DEF CP!poolVars
<1>4. CP!ManagerInv' /\ CP!Active' = CP!Active
  BY <1>2, <1>3, CacheConstants, CP!ManagerIdle DEF ClusterInv
<1>5. Agreed'
  BY <1>1, <1>4 DEF Agreed, Calling, Waits, InStep
<1> QED
  BY <1>1, <1>4, <1>5 DEF ClusterInv

(* What the event at the head names, and the clock, while a cache call runs. *)
LEMMA StillHead ==
  ASSUME UNCHANGED vars
  PROVE  /\ events' = events /\ Req' = Req /\ tables' = tables /\ nodes' = nodes
         /\ decisions' = decisions /\ (Inv => Inv')
<1>1. [Next]_vars
  OBVIOUS
<1>2. Inv => Inv'
  BY <1>1, NextInv
<1> QED
  BY <1>2 DEF vars, Req

(* No step of the cluster moves a block of a table.                          *)
KeepsTables ==
  \A r \in tables : \A b \in ToSet(blockTables[r].bids) :
    blockTier'[b] = blockTier[b] /\ b \in Cache!Alive

(* A request that Serving takes to have a table has one, or an empty list of *)
(* blocks.                                                                   *)
LEMMA TablesKept ==
  ASSUME ClusterInv, CP!TableBlocksStay \/ blockTier' = blockTier
  PROVE  KeepsTables
<1> SUFFICES ASSUME NEW r \in tables, NEW b \in ToSet(blockTables[r].bids)
             PROVE  blockTier'[b] = blockTier[b] /\ b \in Cache!Alive
  BY DEF KeepsTables
<1>1. r \in Requests
  BY DEF ClusterInv, Inv, Typed
<1>2. b \in CP!ToSet(blockTables[r].bids)
  BY DEF ToSet, CP!ToSet
<1>3. r \in CP!Active /\ b \in CP!Alive
  BY <1>1, <1>2, CacheConstants, CP!TableIsAlive DEF ClusterInv
<1> QED
  BY <1>2, <1>3, SameState DEF CP!TableBlocksStay

(* The lookups of the handlers.                                              *)
LEMMA LookupInv ==
  ASSUME ClusterInv, NEW toks, Cache!Lookup(toks), UNCHANGED vars, answered' = TRUE,
         prompt' \in [Requests -> Prompts \cup {<<>>}], ~answered, events # <<>>,
         Head(events).type \notin {"KV_TRANSFER_COMPLETE", "DECODE_COMPLETE"}
  PROVE  ClusterInv' /\ KeepsTables
<1>1. /\ events' = events /\ Req' = Req /\ tables' = tables /\ nodes' = nodes
      /\ decisions' = decisions /\ Inv'
  BY StillHead DEF ClusterInv
<1>2. CP!Lookup(toks)
  BY SameLookup
<1>3. /\ CP!ManagerInv' /\ CP!TableBlocksStay /\ call.pc = "idle" /\ call' = call
      /\ blockTables' = blockTables
  BY <1>2, CacheConstants, CP!ManagerLookup DEF ClusterInv
<1>4. CP!Active' = CP!Active
  BY <1>3 DEF CP!Active
<1>5. Agreed'
  BY <1>1, <1>3, <1>4 DEF ClusterInv, Agreed, Calling, Waits, InStep
<1> QED
  BY <1>1, <1>3, <1>5, TablesKept DEF ClusterInv

(* materialize_request begins.                                               *)
LEMMA MaterializeCallInv ==
  ASSUME ClusterInv, MaterializeCall
  PROVE  ClusterInv' /\ KeepsTables
<1>1. /\ events # <<>> /\ Head(events).type = "KV_TRANSFER_COMPLETE" /\ ~answered
      /\ HasRoom(nodes[decisions[Req].decode]) /\ UNCHANGED vars /\ prompt' = prompt
      /\ Cache!MaterializeBegin(Req, prompt[Req]) /\ answered' = answered
  BY DEF MaterializeCall, Asks
<1>2. /\ events' = events /\ Req' = Req /\ tables' = tables /\ nodes' = nodes
      /\ decisions' = decisions /\ Inv'
  BY <1>1, StillHead DEF ClusterInv
<1>3. Req \in Requests /\ prompt[Req] \in Prompts \cup {<<>>}
  BY <1>1, HeadEvent DEF ClusterInv
<1>4. CP!MaterializeBegin(Req, prompt[Req])
  BY <1>1, SameBegin
<1>5. /\ CP!ManagerInv' /\ CP!TableBlocksStay /\ blockTables' = blockTables
      /\ call'.pc \notin {"idle", "crashed"} /\ call'.req = Req
  BY <1>3, <1>4, CacheConstants, CP!ManagerBegin DEF ClusterInv
<1>6. CP!Active' = CP!Active
  BY <1>5 DEF CP!Active
<1>7. Agreed'
  BY <1>1, <1>2, <1>5, <1>6 DEF ClusterInv, Agreed, Calling, Waits, InStep
<1> QED
  BY <1>1, <1>2, <1>5, <1>7, TablesKept DEF ClusterInv

(* A step of materialize_request.                                            *)
LEMMA MaterializeStepInv ==
  ASSUME ClusterInv, MaterializeStep
  PROVE  ClusterInv' /\ KeepsTables
<1>1. UNCHANGED vars /\ prompt' = prompt /\ Cache!CallStep /\ answered' = (call'.pc = "idle")
  BY DEF MaterializeStep
<1>2. /\ events' = events /\ Req' = Req /\ tables' = tables /\ nodes' = nodes
      /\ decisions' = decisions /\ Inv'
  BY <1>1, StillHead DEF ClusterInv
<1>3. CP!CallStep
  BY <1>1, SameCallStep
<1>4. CP!ManagerInv' /\ CP!TableBlocksStay
  BY <1>3, CacheConstants, CP!ManagerCallStep DEF ClusterInv
<1>5. CP!CacheInv
  BY DEF ClusterInv, CP!ManagerInv
<1>6. /\ call.pc \notin {"idle", "crashed"} /\ call.req \in Requests \ CP!Active
      /\ \/ /\ blockTables' = blockTables /\ call'.pc \notin {"idle", "crashed"}
            /\ call'.req = call.req
         \/ /\ \E t : t.active = TRUE /\ blockTables' = [blockTables EXCEPT ![call.req] = t]
            /\ call'.pc = "idle"
         \/ blockTables' = blockTables /\ call'.pc \in {"idle", "crashed"}
  BY <1>3, <1>5, CacheConstants, CP!CallStepEffect
<1>7. /\ events # <<>> /\ Head(events).type = "KV_TRANSFER_COMPLETE" /\ ~answered
      /\ HasRoom(nodes[decisions[Req].decode]) /\ call.req = Req /\ CP!Active = tables
  BY <1>6 DEF ClusterInv, Agreed, Calling, InStep
<1>8. blockTables' = blockTables => CP!Active' = CP!Active
  BY DEF CP!Active
<1>9. ASSUME NEW t, t.active = TRUE, blockTables' = [blockTables EXCEPT ![Req] = t]
      PROVE  CP!Active' = CP!Active \cup {Req}
  <2>1. blockTables = [r \in Requests |-> blockTables[r]]
    BY <1>5 DEF CP!CacheInv, CP!TableShape
  <2>2. /\ blockTables'[Req].active = TRUE
        /\ \A r \in Requests : r # Req => blockTables'[r] = blockTables[r]
    BY <1>6, <1>7, <1>9, <2>1
  <2> QED
    BY <1>6, <1>7, <2>2 DEF CP!Active
<1>10. CP!Active' = tables \/ (call'.pc = "idle" /\ CP!Active' = tables \cup {Req})
  BY <1>6, <1>7, <1>8, <1>9
<1>11. Agreed'
  BY <1>1, <1>2, <1>6, <1>7, <1>10 DEF Agreed, Calling, Waits, InStep
<1> QED
  BY <1>1, <1>2, <1>4, <1>11, TablesKept DEF ClusterInv

(* release_request.                                                          *)
LEMMA ReleaseCallInv ==
  ASSUME ClusterInv, ReleaseCall
  PROVE  ClusterInv' /\ KeepsTables
<1>1. /\ events # <<>> /\ Head(events).type = "DECODE_COMPLETE" /\ ~answered
      /\ UNCHANGED vars /\ prompt' = prompt /\ Cache!Release(Req) /\ answered' = TRUE
  BY DEF ReleaseCall, Asks
<1>2. /\ events' = events /\ Req' = Req /\ tables' = tables /\ nodes' = nodes
      /\ decisions' = decisions /\ Inv'
  BY <1>1, StillHead DEF ClusterInv
<1>3. Req \in Requests
  BY <1>1, HeadEvent DEF ClusterInv
<1>4. CP!Release(Req)
  BY <1>1, SameRelease
<1>5. /\ CP!ManagerInv' /\ CP!TableBlocksStay
      /\ call.pc = "idle" /\ call' = call /\ CP!Active' = CP!Active \ {Req}
  BY <1>3, <1>4, CacheConstants, CP!ManagerRelease DEF ClusterInv
<1>6. CP!Active = tables
  BY <1>1 DEF ClusterInv, Agreed, InStep
<1>7. Agreed'
  BY <1>1, <1>2, <1>5, <1>6 DEF Agreed, Calling, Waits, InStep
<1> QED
  BY <1>1, <1>2, <1>5, <1>7, TablesKept DEF ClusterInv

(* The rest of a handler: what it does to the tables of Serving is what the  *)
(* cache has done to its own.                                                *)
LEMMA HandlerTables ==
  ASSUME ClusterInv,
         OnArrive \/ OnPrefillStart \/ OnPrefillComplete \/ OnTransferComplete
           \/ OnDecodeComplete \/ OnOther
  PROVE  Handled /\ CP!Active = tables'
<1>1. CASE OnArrive
  <2>1. Handled /\ tables' = tables /\ Head(events).type = "REQUEST_ARRIVE"
    BY <1>1 DEF OnArrive, ArriveRejected, ArriveRouted, Pop
  <2> QED
    BY <2>1 DEF ClusterInv, Agreed, InStep
<1>2. CASE OnPrefillStart
  <2>1. Handled /\ tables' = tables /\ Head(events).type = "PREFILL_START"
    BY <1>2 DEF OnPrefillStart, PrefillStartCached, PrefillStartChunked, Pop
  <2> QED
    BY <2>1 DEF ClusterInv, Agreed, InStep
<1>3. CASE OnPrefillComplete
  <2>1. Handled /\ tables' = tables /\ Head(events).type = "PREFILL_COMPLETE"
    BY <1>3 DEF OnPrefillComplete, PrefillComplete, Pop
  <2> QED
    BY <2>1 DEF ClusterInv, Agreed, InStep
<1>4. CASE OnOther
  <2>1. Handled /\ tables' = tables
        /\ Head(events).type \notin {"KV_TRANSFER_COMPLETE", "DECODE_COMPLETE"}
    BY <1>4 DEF OnOther, Scheduled, Rejected, TransferStarts, BatchStep, TokenGenerated, Pop
  <2> QED
    BY <2>1 DEF ClusterInv, Agreed, InStep
<1>5. CASE OnTransferComplete
  <2>1. CASE TransferRejected
    <3>1. /\ tables' = tables /\ Head(events).type = "KV_TRANSFER_COMPLETE"
          /\ ~HasRoom(nodes[decisions[Req].decode])
      BY <2>1 DEF TransferRejected, Pop
    <3> QED
      BY <1>5, <3>1 DEF OnTransferComplete, ClusterInv, Agreed, Waits, InStep
  <2>2. CASE tables' = Cache!Active
    BY <1>5, <2>2, SameState DEF OnTransferComplete
  <2> QED
    BY <1>5, <2>1, <2>2 DEF OnTransferComplete
<1>6. CASE OnDecodeComplete
  <2>1. /\ Handled /\ tables' = tables \ {Req} /\ Head(events).type = "DECODE_COMPLETE"
        /\ Req \notin CP!Active
    BY <1>6, SameState DEF OnDecodeComplete, DecodeComplete, Pop
  <2> QED
    BY <2>1 DEF ClusterInv, Agreed, InStep
<1> QED
  BY <1>1, <1>2, <1>3, <1>4, <1>5, <1>6

(* Every step of the cluster keeps the agreement, and the blocks of tables.  *)
LEMMA ClusterNextInv ==
  ASSUME ClusterInv, [ClusterNext]_clusterVars
  PROVE  ClusterInv' /\ KeepsTables
<1>1. Inv'
  BY ClusterStepIsStep, NextInv DEF ClusterInv
<1>2. CASE LookOnArrive
  <2>1. PICK toks \in Prompts :
          /\ events # <<>> /\ Head(events).type = "REQUEST_ARRIVE" /\ ~answered
          /\ prompt' = [prompt EXCEPT ![Req] = toks] /\ UNCHANGED vars
          /\ Cache!Lookup(toks) /\ answered' = TRUE
    BY <1>2 DEF LookOnArrive, Asks
  <2>2. prompt' \in [Requests -> Prompts \cup {<<>>}]
    BY <2>1 DEF ClusterInv
  <2>3. Head(events).type \notin {"KV_TRANSFER_COMPLETE", "DECODE_COMPLETE"}
    BY <2>1
  <2> QED
    BY <2>1, <2>2, <2>3, LookupInv
<1>3. CASE LookOnPrefill
  <2>1. /\ UNCHANGED vars /\ prompt' = prompt /\ answered' = TRUE /\ ~answered /\ events # <<>>
        /\ Head(events).type \in {"PREFILL_START", "PREFILL_COMPLETE"}
        /\ \E toks : Cache!Lookup(toks)
    BY <1>3 DEF LookOnPrefill, Asks
  <2>2. prompt' \in [Requests -> Prompts \cup {<<>>}]
    BY <2>1 DEF ClusterInv
  <2>3. Head(events).type \notin {"KV_TRANSFER_COMPLETE", "DECODE_COMPLETE"}
    BY <2>1
  <2> QED
    BY <2>1, <2>2, <2>3, LookupInv
<1>4. CASE \/ OnArrive \/ OnPrefillStart \/ OnPrefillComplete \/ OnTransferComplete
           \/ OnDecodeComplete \/ OnOther
  <2>1. Handled /\ CP!Active = tables'
    BY <1>4, HandlerTables
  <2>2. blockTier' = blockTier
    BY <2>1 DEF Handled, cacheVars
  <2> QED
    BY <1>1, <2>1, <2>2, HandledInv, TablesKept
<1>5. CASE UNCHANGED clusterVars
  <2>1. UNCHANGED vars /\ prompt' = prompt /\ answered' = answered
        /\ UNCHANGED <<allocated, blockTier, pinCount, tree, call, blockTables>>
    BY <1>5 DEF clusterVars, cacheVars
  <2>2. /\ events' = events /\ Req' = Req /\ tables' = tables /\ nodes' = nodes
        /\ decisions' = decisions
    BY <2>1, StillHead
  <2>3. (CacheTime \in Nat)'
    BY <1>1, CacheClock, PTL
  <2>4. CP!ManagerInv' /\ CP!Active' = CP!Active
    BY <2>1, <2>3, CacheConstants, CP!ManagerIdle DEF ClusterInv, CP!poolVars
  <2>5. Agreed'
    BY <2>1, <2>2, <2>4 DEF ClusterInv, Agreed, Calling, Waits, InStep
  <2> QED
    BY <1>1, <2>1, <2>4, <2>5, TablesKept DEF ClusterInv
<1> QED
  BY <1>2, <1>3, <1>4, <1>5, MaterializeCallInv, MaterializeStepInv, ReleaseCallInv
     DEF ClusterNext

-----------------------------------------------------------------------------
(* The theorems.                                                             *)

(* The handlers and the cache agree on who has a table, whichever            *)
(* materialize calls fail, and the cache under the cluster keeps all that is *)
(* proved of it alone.                                                       *)
THEOREM ClusterAgrees == ClusterSpec => []ClusterInv
<1>1. ClusterInv /\ [ClusterNext]_clusterVars => ClusterInv'
  BY ClusterNextInv
<1> QED
  BY ClusterInitInv, <1>1, PTL DEF ClusterSpec

(* When the last event is handled no block is pinned, no table is left and   *)
(* every block can be evicted again.                                         *)
THEOREM CacheAlwaysDrains == ClusterSpec => []CacheDrains
<1>1. ClusterInv /\ CleanEnd => CacheDrains
  <2> SUFFICES ASSUME ClusterInv, CleanEnd, events = <<>>
               PROVE  /\ Cache!Pinned = {} /\ Cache!Active = {}
                      /\ Cache!Alive \subseteq Cache!BlocksOf(tree)
    BY DEF CacheDrains
  <2>1. tables = {}
    BY DEF CleanEnd
  <2>2. call.pc = "idle" /\ CP!Active = {}
    BY <2>1 DEF ClusterInv, Agreed, Calling, Waits, InStep
  <2>3. CP!Pinned = {} /\ CP!NoLeak
    BY <2>2, CacheConstants, CP!NothingPinned DEF ClusterInv
  <2> QED
    BY <2>2, <2>3, SameState DEF CP!NoLeak
<1> QED
  BY <1>1, ClusterAgrees, ClusterIsServing, NothingLeftBehind, PTL

(* While a request decodes with a block table its blocks stay where they     *)
(* are.                                                                      *)
THEOREM AlwaysDecodesInPlace == ClusterSpec => DecodesInPlace
<1>1. ClusterInv /\ [ClusterNext]_clusterVars =>
        [\A r \in tables : r \in ToSet(nodes[decisions[r].decode].running) =>
           \A b \in ToSet(blockTables[r].bids) :
             (~Crashed' /\ r \in tables')
               => blockTier'[b] = blockTier[b] /\ b \in Cache!Alive]_clusterVars
  BY ClusterNextInv DEF KeepsTables
<1> QED
  BY <1>1, ClusterAgrees, PTL DEF ClusterSpec, DecodesInPlace

(* What the handlers promise with any answers they keep with the answers of  *)
(* the real cache: no wake-up is lost, every token is counted once and the   *)
(* latencies add up.                                                         *)
THEOREM ServingHoldsInCluster == ClusterSpec => [](StepsInFlight /\ TokensCounted /\ LatenciesAddUp)
BY ClusterIsServing, NoLostWakeUp, ThroughputExact, LatenciesRight, PTL

-----------------------------------------------------------------------------
(* A running request keeps its prompt cached.                                *)

(* Prompts are made of whole blocks, and part between them.                  *)
WholeBlockPrompts ==
  /\ CP!PromptsPartBetweenBlocks
  /\ \A p \in Prompts : CP!FillsBlocks(Len(p))

(* A table is that of its request's prompt.                                  *)
TablesOfPrompts ==
  \A r \in CP!Active :
    prompt[r] \in Prompts /\ blockTables[r].toks = CP!AlignedTokens(prompt[r])

(* So is the one that the running call is after.                             *)
CallOfPrompt ==
  call.pc \notin {"idle", "crashed"} =>
    prompt[call.req] \in Prompts /\ call.toks = CP!AlignedTokens(prompt[call.req])

(* A request that has just released its table, but is not gone yet, still    *)
(* has its prompt in the cache.                                              *)
ReleasedHits ==
  answered /\ Head(events).type = "DECODE_COMPLETE" /\ Req \in tables =>
    prompt[Req] \in Prompts /\ CP!FullHit(prompt[Req])

(* What keeps a prompt cached.                                               *)
CachedInv == CP!PathsInv /\ TablesOfPrompts /\ CallOfPrompt /\ ReleasedHits

(* A prompt of whole blocks is its own aligned part, and is not empty.       *)
LEMMA WholePrompt ==
  ASSUME WholeBlockPrompts, NEW p \in Prompts
  PROVE  CP!AlignedTokens(p) = p /\ Len(p) > 0 /\ p # <<>>
<1>1. CP!FillsBlocks(Len(p)) /\ Len(p) >= BlockSize /\ BlockSize \in Nat \ {0} /\ p \in Seq(ToSet(p))
  BY ClusterAssumption DEF WholeBlockPrompts
<1>2. Len(p) \in Nat /\ Len(p) > 0 /\ p # <<>>
  BY <1>1
<1>3. CP!AlignedTokens(p) = p
  BY <1>1, <1>2, CacheConstants, CP!WholeIsAligned
<1> QED
  BY <1>2, <1>3

(* The start.                                                                *)
LEMMA CachedInit == ClusterInit => CachedInv
<1> SUFFICES ASSUME ClusterInit PROVE CachedInv
  OBVIOUS
<1>1. ClusterInv /\ Inv
  BY ClusterInitInv DEF ClusterInv
<1>2. CP!PathsInv /\ CP!Active = {}
  BY <1>1, CacheClock, SameInit, CacheConstants, CP!PathsStart, CP!ManagerInit
<1>3. call.pc = "idle" /\ ~answered
  BY DEF ClusterInit, Cache!Idle, Cache!Frame
<1> QED
  BY <1>2, <1>3 DEF CachedInv, TablesOfPrompts, CallOfPrompt, ReleasedHits

(* A request that arrives has no table.                                      *)
LEMMA ArrivesWithoutTable ==
  ASSUME Inv, events # <<>>, Head(events).type = "REQUEST_ARRIVE"
  PROVE  Req \notin tables
<1>1. events \in Seq(Event)
  BY DEF Inv, Typed
<1>2. Head(events) \in Queued
  BY <1>1 DEF Queued, ToSet
<1>3. Req \in Requests /\ Has(Req, "REQUEST_ARRIVE")
  BY <1>2, HeadEvent DEF Has, HasIn, Req
<1>4. PICK k \in Positions : At(Req, k)
  BY <1>3 DEF Inv
<1> QED
  BY <1>3, <1>4 DEF At, Carried, Booked

(* A lookup, of a request that arrives or of another.                        *)
LEMMA CachedLookup ==
  ASSUME WholeBlockPrompts, ClusterInv, CachedInv, NEW toks, Cache!Lookup(toks), UNCHANGED vars,
         events # <<>>, Head(events).type # "DECODE_COMPLETE",
         \A r \in CP!Active : prompt'[r] = prompt[r]
  PROVE  CachedInv'
<1>1. CP!Lookup(toks) /\ CP!ManagerInv /\ CP!WholeInv
  BY SameLookup DEF ClusterInv, CP!ManagerInv
<1>2. CP!PathsInv'
  BY <1>1, CacheConstants, CP!PathsLookup DEF CachedInv
<1>3. call.pc = "idle" /\ call' = call /\ blockTables' = blockTables
  BY <1>1 DEF CP!Lookup
<1>4. CP!Active' = CP!Active
  BY <1>3 DEF CP!Active
<1>5. TablesOfPrompts'
  BY <1>3, <1>4 DEF CachedInv, TablesOfPrompts
<1>6. CallOfPrompt' /\ ReleasedHits'
  BY <1>3, StillHead DEF CallOfPrompt, ReleasedHits
<1> QED
  BY <1>2, <1>5, <1>6 DEF CachedInv

(* materialize_request begins with the prompt of its request.                *)
LEMMA CachedBegin ==
  ASSUME WholeBlockPrompts, ClusterInv, CachedInv, MaterializeCall
  PROVE  CachedInv'
<1>1. /\ events # <<>> /\ Head(events).type = "KV_TRANSFER_COMPLETE"
      /\ UNCHANGED vars /\ prompt' = prompt /\ Cache!MaterializeBegin(Req, prompt[Req])
  BY DEF MaterializeCall, Asks
<1>2. Req \in Requests /\ prompt[Req] \in Prompts \cup {<<>>}
  BY <1>1, HeadEvent DEF ClusterInv
<1>3. CP!MaterializeBegin(Req, prompt[Req])
  BY <1>1, SameBegin
<1>4. prompt[Req] \in Prompts
  <2>1. CP!TotalBlocks(prompt[Req]) > 0
    BY <1>3 DEF CP!MaterializeBegin
  <2>2. CP!TotalBlocks(<<>>) = 0
    BY ClusterAssumption DEF CP!TotalBlocks
  <2> QED
    BY <1>2, <2>1, <2>2
<1>5. CP!WholeInv /\ CP!PathsInv
  BY DEF ClusterInv, CP!ManagerInv, CachedInv
<1>6. CP!PathsInv' /\ call'.toks = CP!AlignedTokens(prompt[Req])
  BY <1>2, <1>3, <1>4, <1>5, CacheConstants, CP!PathsBegin
<1>7. call'.req = Req /\ blockTables' = blockTables
  BY <1>3 DEF CP!MaterializeBegin, CP!Frame
<1>8. CP!Active' = CP!Active
  BY <1>7 DEF CP!Active
<1>9. TablesOfPrompts' /\ CallOfPrompt'
  BY <1>1, <1>4, <1>6, <1>7, <1>8 DEF CachedInv, TablesOfPrompts, CallOfPrompt
<1>10. ReleasedHits'
  BY <1>1, StillHead DEF ReleasedHits
<1> QED
  BY <1>6, <1>9, <1>10 DEF CachedInv

(* The call runs on.                                                         *)
LEMMA CachedStep ==
  ASSUME WholeBlockPrompts, ClusterInv, CachedInv, MaterializeStep
  PROVE  CachedInv'
<1>1. UNCHANGED vars /\ prompt' = prompt /\ CP!CallStep
  BY SameCallStep DEF MaterializeStep
<1>2. CP!CacheInv /\ CP!WholeInv /\ CP!PathsInv /\ CP!PromptsPartBetweenBlocks
  BY DEF ClusterInv, CP!ManagerInv, CachedInv, WholeBlockPrompts
<1>3. CP!PathsInv' /\ (call'.pc \notin {"idle", "crashed"} => call'.toks = call.toks)
  BY <1>1, <1>2, CacheConstants, CP!PathsCallStep
<1>4. /\ call.pc \notin {"idle", "crashed"}
      /\ call'.pc \notin {"idle", "crashed"} => call'.req = call.req
  BY <1>1, <1>2, CacheConstants, CP!CallStepEffect
<1>5. prompt[call.req] \in Prompts /\ call.toks = CP!AlignedTokens(prompt[call.req])
  BY <1>4 DEF CachedInv, CallOfPrompt
<1>6. ASSUME NEW r \in CP!Active'
      PROVE  prompt'[r] \in Prompts /\ blockTables'[r].toks = CP!AlignedTokens(prompt'[r])
  <2>1. \/ r \in CP!Active /\ blockTables'[r] = blockTables[r]
        \/ r = call.req /\ blockTables'[r].toks = call.toks
    BY <1>1, <1>2, <1>6, CacheConstants, CP!CallTables
  <2> QED
    BY <1>1, <1>5, <2>1 DEF CachedInv, TablesOfPrompts
<1>7. TablesOfPrompts'
  BY <1>6 DEF TablesOfPrompts
<1>8. CallOfPrompt'
  BY <1>1, <1>3, <1>4, <1>5 DEF CallOfPrompt
<1>9. events' = events /\ Head(events).type = "KV_TRANSFER_COMPLETE"
  BY <1>1, <1>4, StillHead DEF ClusterInv, Agreed, Calling
<1>10. ReleasedHits'
  BY <1>9 DEF ReleasedHits
<1> QED
  BY <1>3, <1>7, <1>8, <1>10 DEF CachedInv

(* release_request leaves the tree, and what is alive, as they are.          *)
LEMMA CachedRelease ==
  ASSUME WholeBlockPrompts, ClusterInv, CachedInv, ReleaseCall
  PROVE  CachedInv'
<1>1. /\ events # <<>> /\ Head(events).type = "DECODE_COMPLETE"
      /\ UNCHANGED vars /\ prompt' = prompt /\ Cache!Release(Req)
  BY DEF ReleaseCall, Asks
<1>2. Req \in Requests
  BY <1>1, HeadEvent DEF ClusterInv
<1>3. CP!Release(Req)
  BY <1>1, SameRelease
<1>4. CP!CacheInv /\ CP!WholeInv /\ CP!PathsInv /\ CP!ManagerInv
  BY DEF ClusterInv, CP!ManagerInv, CachedInv
<1>5. CP!PathsInv'
  BY <1>2, <1>3, <1>4, CacheConstants, CP!PathsRelease
<1>6. /\ Req \in CP!Active /\ tree' = tree /\ blockTier' = blockTier /\ call' = call /\ call.pc = "idle"
      /\ blockTables' = [blockTables EXCEPT ![Req] = CP!NoTable]
  BY <1>3 DEF CP!Release, CP!Unpin
<1>7. ~blockTables'[Req].active /\ \A r \in Requests : r # Req => blockTables'[r] = blockTables[r]
  BY <1>2, <1>4, <1>6 DEF CP!CacheInv, CP!TableShape, CP!NoTable
<1>8. TablesOfPrompts'
  BY <1>1, <1>7 DEF CachedInv, TablesOfPrompts, CP!Active
<1>9. CallOfPrompt'
  BY <1>6 DEF CallOfPrompt
<1>10. prompt[Req] \in Prompts /\ CP!FullHit(prompt[Req])
  <2>1. prompt[Req] \in Prompts /\ blockTables[Req].toks = prompt[Req] /\ prompt[Req] # <<>>
    BY <1>6, WholePrompt DEF CachedInv, TablesOfPrompts
  <2>2. CP!FullHit(blockTables[Req].toks)
    BY <1>4, <1>6, <2>1, CacheConstants, CP!TableHits
  <2> QED
    BY <2>1, <2>2
<1>11. (CP!FullHit(prompt[Req]))'
  <2>1. Req' = Req
    BY <1>1, StillHead
  <2>2. tree' = tree /\ blockTier' = blockTier /\ prompt' = prompt
    BY <1>1, <1>6
  <2>3. (CP!FullHit(prompt[Req]))' <=> CP!FullHit(prompt[Req])
    BY <2>1, <2>2 DEF CP!FullHit, CP!Alive, CP!TreeNodes, CP!PathBlocks
  <2> QED
    BY <1>10, <2>3
<1>12. ReleasedHits'
  BY <1>1, <1>10, <1>11, StillHead DEF ReleasedHits
<1> QED
  BY <1>5, <1>8, <1>9, <1>12 DEF CachedInv

(* A handler goes on, or nothing happens.                                    *)
LEMMA CachedIdle ==
  ASSUME ClusterInv, CachedInv, UNCHANGED <<cacheVars, prompt>>,
         ~answered' \/ UNCHANGED clusterVars
  PROVE  CachedInv'
<1>1. /\ tree' = tree /\ call' = call /\ blockTables' = blockTables /\ blockTier' = blockTier
      /\ prompt' = prompt
  BY DEF cacheVars
<1>2. CP!PathsInv'
  BY <1>1, CacheConstants, CP!PathsSame DEF CachedInv
<1>3. CP!Active' = CP!Active
  BY <1>1 DEF CP!Active
<1>4. TablesOfPrompts' /\ CallOfPrompt'
  BY <1>1, <1>3 DEF CachedInv, TablesOfPrompts, CallOfPrompt
<1>5. ASSUME UNCHANGED clusterVars PROVE ReleasedHits'
  <2>1. UNCHANGED vars /\ answered' = answered
    BY <1>5 DEF clusterVars
  <2>2. events' = events /\ Req' = Req /\ tables' = tables
    BY <2>1, StillHead
  <2>3. (CP!FullHit(prompt[Req]))' <=> CP!FullHit(prompt[Req])
    BY <1>1, <2>2 DEF CP!FullHit, CP!Alive, CP!TreeNodes, CP!PathBlocks
  <2> QED
    BY <1>1, <2>1, <2>2, <2>3 DEF CachedInv, ReleasedHits
<1>6. ASSUME ~answered' PROVE ReleasedHits'
  BY <1>6 DEF ReleasedHits
<1> QED
  BY <1>2, <1>4, <1>5, <1>6 DEF CachedInv

(* Every step.                                                               *)
LEMMA CachedNext ==
  ASSUME WholeBlockPrompts, ClusterInv, CachedInv, [ClusterNext]_clusterVars
  PROVE  CachedInv'
<1>1. CASE LookOnArrive
  <2>1. PICK toks \in Prompts :
          /\ events # <<>> /\ Head(events).type = "REQUEST_ARRIVE" /\ ~answered
          /\ prompt' = [prompt EXCEPT ![Req] = toks] /\ UNCHANGED vars /\ Cache!Lookup(toks)
    BY <1>1 DEF LookOnArrive, Asks
  <2>2. Req \notin CP!Active
    BY <2>1, ArrivesWithoutTable DEF ClusterInv, Agreed, InStep
  <2>3. \A r \in CP!Active : prompt'[r] = prompt[r]
    BY <2>1, <2>2 DEF ClusterInv, CP!Active
  <2> QED
    BY <2>1, <2>3, CachedLookup
<1>2. CASE LookOnPrefill
  <2>1. /\ UNCHANGED vars /\ prompt' = prompt /\ events # <<>>
        /\ Head(events).type \in {"PREFILL_START", "PREFILL_COMPLETE"}
        /\ \E toks : Cache!Lookup(toks)
    BY <1>2 DEF LookOnPrefill, Asks
  <2> QED
    BY <2>1, CachedLookup
<1>3. CASE \/ OnArrive \/ OnPrefillStart \/ OnPrefillComplete \/ OnTransferComplete
           \/ OnDecodeComplete \/ OnOther
  <2>1. UNCHANGED <<cacheVars, prompt>> /\ ~answered'
    BY <1>3, HandlerTables DEF Handled
  <2> QED
    BY <2>1, CachedIdle
<1>4. CASE UNCHANGED clusterVars
  <2>1. UNCHANGED <<cacheVars, prompt>>
    BY <1>4 DEF clusterVars
  <2> QED
    BY <1>4, <2>1, CachedIdle
<1> QED
  BY <1>1, <1>2, <1>3, <1>4, CachedBegin, CachedStep, CachedRelease DEF ClusterNext

(* The lookups of the two copies of the cache.                               *)
LEMMA SameLookupTokens ==
  ASSUME NEW toks
  PROVE  Cache!LookupTokens(toks) = CP!LookupTokens(toks)
BY DEF Cache!LookupTokens, CP!LookupTokens, Cache!MatchedPath, CP!MatchedPath,
       Cache!PathBlocks, CP!PathBlocks, Cache!MatchedLen, CP!MatchedLen, Cache!Max, CP!Max,
       Cache!TreeNodes, CP!TreeNodes, Cache!IsPrefix, CP!IsPrefix, Cache!Alive, CP!Alive,
       Cache!None, CP!None, Cache!Cardinality, CP!Cardinality

(* So whoever has a table is hit whole.                                      *)
LEMMA CachedHits ==
  ASSUME WholeBlockPrompts, ClusterInv, CachedInv
  PROVE  SharedPromptHits
<1> SUFFICES ASSUME NEW r \in tables, call.pc = "idle" PROVE UncachedOf(r) = 0
  BY DEF SharedPromptHits
<1>1. CP!ManagerInv /\ CP!WholeInv /\ CP!PathsInv
  BY DEF ClusterInv, CP!ManagerInv, CachedInv
<1>2. prompt[r] \in Prompts /\ CP!FullHit(prompt[r])
  <2>1. CASE r \in CP!Active
    <3>1. prompt[r] \in Prompts /\ blockTables[r].toks = prompt[r] /\ prompt[r] # <<>>
      BY <2>1, WholePrompt DEF CachedInv, TablesOfPrompts
    <3>2. CP!FullHit(blockTables[r].toks)
      BY <1>1, <2>1, <3>1, CacheConstants, CP!TableHits
    <3> QED
      BY <3>1, <3>2
  <2>2. CASE r \notin CP!Active
    <3>1. answered /\ Head(events).type = "DECODE_COMPLETE" /\ r = Req
      BY <2>2 DEF ClusterInv, Agreed, InStep
    <3> QED
      BY <3>1 DEF CachedInv, ReleasedHits
  <2> QED
    BY <2>1, <2>2
<1>3. CP!FillsBlocks(Len(prompt[r])) /\ Len(prompt[r]) > 0
  BY <1>2, WholePrompt DEF WholeBlockPrompts
<1>4. CP!LookupTokens(prompt[r]) = Len(prompt[r])
  BY <1>1, <1>2, <1>3, CacheConstants, CP!HitIsWhole
<1>5. Len(prompt[r]) \in Nat
  BY <1>2, ClusterAssumption
<1> QED
  BY <1>4, <1>5, SameLookupTokens DEF UncachedOf

(* A running request keeps its prompt cached, as long as it decodes with a   *)
(* table: when prompts are made of whole blocks, and part between them, a    *)
(* lookup of the same prompt is a full hit, whatever other transfers evict.  *)
THEOREM PromptsStayCached ==
  ASSUME WholeBlockPrompts
  PROVE  ClusterSpec => []SharedPromptHits
<1>1. ClusterInv /\ CachedInv /\ [ClusterNext]_clusterVars => CachedInv'
  BY CachedNext
<1>2. ClusterInv /\ CachedInv => SharedPromptHits
  BY CachedHits
<1> QED
  BY CachedInit, ClusterAgrees, <1>1, <1>2, PTL DEF ClusterSpec
=============================================================================
