# nano-kvrouter in TLA+

nano-kvrouter simulates the control plane of an LLM serving cluster: requests
arrive, a policy picks a prefill and a decode node, the prompt is prefilled in
chunks, its KV cache moves to the decode node, tokens are decoded in batches,
and a tiered KV cache with prefix sharing lives on every decode node. These
modules model that core, check it with TLC and prove much of it with TLAPS.
Paths below are relative to `src/src/nano_kvrouter/`.

## The system

| Component | State | Operations | Talks to |
|---|---|---|---|
| Block pool, `kv_cache/block_pool.py` | block ids per tier, tier per block, pin and ref counts | allocate, free, pin, unpin, move/promote/demote | called by the tree (mint, free) and the cache manager |
| Radix tree, `kv_cache/radix_tree.py` | nodes with key, block ids, access time | insert (with edge split), match, purge_block_ids, purge_path_with_any_dead, demote_lru | mints from and frees into the pool by callbacks; reads the clock |
| Cache manager, `kv_cache/cache_manager.py`, `block_table.py` | one tree and pool per decode node, block tables of active requests | lookup, admit, materialize_request, release_request | called by the policies (lookup) and the handlers |
| Transfer lanes, `simulator/transfer_model.py` | time each egress and ingress lane is free | request_transfer, peek_backlog | handlers reserve, policies peek |
| Event loop, `simulator/engine.py`, `event.py` | heap by (time, insertion), clock | schedule, run | runs every handler |
| Engine node, `engine/mock_node.py` | running, queue, decode set, prefill remainders, token counts, in-flight flag, phases | admit, start_decode, enter_prefill, mark_prefill_done, init_promoted, tick_batch_step, complete, queue_wait_time | called by the handlers, read by the policies |
| Handlers, `cli.py` `_wire_simulator` | decisions, requests, pending transfers | one handler per event type | everything above |
| Collector, `metrics/collector.py` | counters, live sets, samples | one handler per event type | second subscriber of each event |
| Generator, `simulator/generator.py` | bucket prefixes, request counter | attach, arrival chain | third subscriber of REQUEST_ARRIVE |
| Trace replay, `simulator/trace_generator.py` | open file, request counter | attach, _schedule_next, arrival chain | as the generator; asks the prefix synthesis |
| Prefix synthesis, `simulator/prefix_synthesis.py` | bucket prefixes, window of recent buckets | assign_prefix_tokens | called by the trace replay |
| Policies, `scheduler/` | round-robin cursors | schedule | read nodes, lanes, cache |
| Conversion, `scripts/convert_*.py` of the repository | time base | convert | make trace files |
| Configuration, reports, sweeps | - | - | build the input, print the output |

The program is single threaded. What is hard in it is not preemption but the
order of events: a handler takes a decision, and what it looked at has changed
when the event it scheduled is handled. Five kinds of trouble follow, and the
hazards in `PROJECT.json` list each at its line:

* **wake-ups**: a node has work from three handlers and a flag decides who
  schedules its next step; events of one step share a time stamp;
* **stale views**: the node chosen at arrival is full when the transfer ends, the
  cache answers differently at arrival, at prefill start and at promotion, tree
  nodes outlive the blocks they name;
* **half-done calls**: materialize_request pins, evicts, splits, mints and can
  raise in between;
* **limits**: full tiers, single slots, blocks split in the middle, answers of no
  token, a window entry exactly at its edge;
* **chains**: every arrival schedules the next one, so a path that forgets to, or
  one that does it twice, ends or multiplies the workload.

What makes each part correct: the pool never loses a block, exceeds a tier or
moves a pinned block; the tree owns each block once and every live block has an
owner; a table's blocks stay where they are until release; every call returns;
transfers on a lane do not overlap; a node with work has exactly one step
scheduled; each request is in one place until it is completed or rejected; the
collector sees each token once and in order, and its latencies add up; estimates
cover what an undisturbed request meets and forget load that is gone; a trace is
replayed record by record and prompts share exactly the blocks they should;
nothing is left when the run ends.

## Modules

| Module | Models | State and actions |
|---|---|---|
| `BlockPool` | the pool | `allocated`, `blockTier`, `pinCount`; one action per method. A method that raises changes nothing, so a call that raises is a guard that is false. `_ref_count` always equals `_pin_count`. |
| `RadixTree` | the tree | operators on a tree value: a function from nodes, named by their token path, to block ids and access time. The `_nodes` index is the domain of that function; `ref_count` is never written by the program. |
| `CacheManager` | cache manager + tree + pool of one decode node | a call is a sequence of steps, `call` is its frame; no other call starts before it is idle again. Extends `BlockPool`, whose actions are the pool operations of each step. |
| `TransferModel`, `TransferClient` | the lanes; the lanes under an arbitrary caller | `request_transfer` for both contention models; the client records every answer. |
| `EventLoop` | schedule | the heap as a sequence in order of time, ties by insertion. |
| `EngineNode` | a node | operators on a node value, one per method. |
| `Metrics` | the collector | operators on a collector value, one per handler. |
| `Serving` | the handlers on loop, nodes, lanes and collector | one action per event (two where the handler branches). The actions include what all subscribers of the event do. |
| `RequestLifecycle` | what the cluster promises of a request | stages, route and tokens sent, without events, queues, batches or time. `Serving` implements it. |
| `Policies` | estimates and choices of the five policies | operators on the state of `Serving` and on what `lookup_all` says. |
| `RoutedServing` | `Serving` under one of the policies | `cursors` of RoundRobin, `warm` nodes, and the `forecast` a decision carries. |
| `Cluster` | `Serving` with `CacheManager` as the cache of its decode node | a handler's cache call runs step by step while its event is at the head of the queue, then the action of `Serving` takes the answer. |
| `PrefixSynthesis` | the shared parts of prompts | operators: bucket prefixes and their growth, the window, the expansion of hash ids. |
| `TraceConversion` | the two conversion scripts | operators on a log, a sequence of rows. |
| `Workload` | Poisson generator and trace replay on the event loop | `file`, `pos`, `open`, `made`, `buckets`, `recent`; attach and one action per arrival; the rest of the system is one event per arrival. |
| `MC*` | instances for TLC | prompts, output lengths, bounds. |
| `CacheProofs`, `TransferProofs` | theorems about the pool, the tree, the cache manager; about the lanes | |
| `LoopProofs` | lemmas about the event queue | what `ScheduleAll` does, for any queue |
| `ServingProofs`, `LedgerProofs` | theorems about the nodes and the cluster | each extends the one before; the invariants `Inv`; `Ledger`, `Samples`, `Throughput` and `InQueueOrder` |
| `RoutedProofs` | theorems about the policies | extends `RoutedServing` and `LedgerProofs`; `RoutedInv`, `Turns`, `Backlog` |
| `WorkloadProofs` | theorems about generators, replay, synthesis and conversion | extends `Workload` and `LoopProofs`; `ReplayInv`, `WindowInv`, `SharingInv`, `SourceOK` |
| `ClusterProofs` | theorems about the handlers with the real cache | extends `Cluster` and `LedgerProofs`, instantiates `CacheProofs`; `ClusterInv`, `CachedInv` |

How the modules fit together:

* `CacheManager` extends `BlockPool` and implements its specification (proved).
* `Serving` uses `EventLoop`, `EngineNode`, `TransferModel` and `Metrics`, and
  implements `RequestLifecycle` under the mapping `Life` (proved): the stage of a
  request is read off queue, slots, pending transfers and decisions.
* `RoutedServing` and `Cluster` implement `Serving` (proved): both conjoin the actions
  of `Serving` with what narrows its choices, a policy or a cache. What is proved of
  `Serving`, which leaves policy and cache open, therefore holds of both.
* `Workload` stands beside `Serving`, which takes its arrivals as given.

Abstractions, and why they are sound for the properties:

* Tokens and ids are opaque. Time stamps of tree nodes are compared only, so
  `Tick` renumbers them in order and puts `now` above them: the model has all
  interleavings of equal and later times with finitely many stamps. The stamp
  `now + 1e-9` of a demoted leaf is `now` or later (floating point absorbs the
  difference from 2^24 ms on).
* Ties of the LRU choice, which Python resolves by dict order, are left open.
* A fresh id is any id that neither pool nor tree knows: a dead id that is still
  named by the tree is never handed out again, as with UUIDs.
* When pool.free raises in the purge of admit, how far the purge had got is not
  kept: nobody catches the RuntimeError and the program ends (`crashed`).
* `Serving` sees the policy through its answer (any pair of nodes or a
  rejection) and the cache through its answers (any uncached count of a set, a
  table or a MemoryError). Everything it shows holds for all five policies.
* `RoutedServing` takes any answers of the cache, with one restriction: nothing is
  found on a node before something was materialized there, and a request that
  has shared its nodes with no other one finds at its prefill what it was told on
  arrival, since only materialize_request changes what a lookup finds.
* `Cluster` has one decode node, since each node has a cache of its own and no call
  reads two. Its cache clock counts halves, for the stamp just after `now`.
* A random token is its place in the stream of random numbers it is drawn from: two
  tokens are equal only if they are the same number of one stream. Buckets and
  suffixes are drawn by two `random.Random` objects. `oneSeed` says whether these have
  the same seed, as they do by default and in `configs/trace_burstgpt.yaml`: then both
  draw the same stream, else two that have nothing in common. Sampled choices (layer,
  bucket, gap) are any choice, and those of the synthesis model take up some of its
  stream (`ChoiceDraws`).
* A trace line is malformed, broken (lacks a field) or a record. A record raises when
  it lacks what it needs (`raised = "record"`) or when `make_request` cannot pack the
  first block of its prompt into four bytes per token (`"struct"`, from `TokenLimit` =
  2^32 on). What it had drawn before is not kept, since the program ends there. Random
  tokens always fit (`vocab_size` is taken to be at most 2^32), and hash ids are natural
  numbers, as the traces have them.
* Prompts of the cluster have one length, so that the cost of a transfer, which the
  handler computes from it (`cli.py:350-351`), is one constant, `TransferCost`.
* Scores of the policies are multiplied by the node capacity, and ratios are
  pairs or percentages, to stay with whole numbers.
* Costs and times are whole numbers; the workload has a fixed number of
  arrivals. The order in which a step announces its streams, a Python set, is left
  open (`SetToSeq`; TLC picks one order, the proofs hold for all): events of
  different requests at one time stamp touch different entries.

## Runs

| Run | What it shows | Bounds |
|---|---|---|
| `cache_aligned` | the pool's indexes agree, pin counts are exact on every path, no slot leaks, a table is its path and stays put, every call of a handler ends | 2 requests, 5 prompts: one of two blocks, one that extends it to fill the GPU tier, one that shares its first block, one of one block apart, and one beyond the tier; 3 GPU + 1 CPU blocks, 1-token blocks: demotion, zombies, purges and failures all occur |
| `cache_sub_block` | pin counts, well-formed tree and no leak with splits inside a block, a disk tier and direct calls of admit (`ApiSpec`) | 2-token blocks, 2 + 1 + 1 blocks |
| `transfer_lanes` | transfers that share a lane never overlap, peek_backlog covers them | 3 nodes, `MaxTransfers` = 3, costs 1 and 3, `MaxClock` = 2: partly shared lanes need three transfers |
| `serving_queueing` | one place per request, exact slots, owned tables, ordered tokens, matched transfers, conserved arrivals, a clean end; the handlers implement `RequestLifecycle`; every routed request is completed or rejected | 3 requests, one of which asks for no token, 1 prefill and 2 decode nodes with one slot: queueing, promotion, lane waits, late rejection |
| `routed` | the TTFT estimate covers a request that is alone on its nodes; estimates forget load that is gone; rotation is exact; nobody queues while another node has room; no score passes over a better node | 4 requests, all five policies, 2 + 2 nodes with one slot, three kinds of cache answers, an SLO that some requests miss |
| `cluster` | no lost or double wake-up, throughput, token and latency accounts with batches of two; blocks stay put and prompts stay cached while requests decode; the cache drains | 4 requests, 3 prompts of which two share a block, 3 GPU + 1 CPU blocks: two requests without a common block do not fit, so transfers evict and fail under running ones. |
| `workload` | one chain of arrivals, exact replay and locality, sharing of exactly what is meant (with one seed: no less, and more only by what a suffix can repeat), clean traces and converted logs replayed to the end | all traces of up to 4 of 8 lines and all logs of up to 4 of 6 rows, some with hash ids that struct refuses (`TokenLimit` = 16), cap of 3 requests, `Window` and `EndTime` hit exactly, one draw per choice |
| `cluster_returns`, `cache_lookup`, `serving_overlap`, `serving_slot_estimate`, `workload_large_ids` | the disagreements below | as above |

The wake-up property is checked where requests join and leave batches
(`cluster`); in `serving_queueing` a missed wake-up would show in `RequestsResolve`.

In `cluster` and `cache_sub_block` the worst case of every insert is the whole GPU tier, so
that admit inserts only into an emptied GPU: a call that has to insert fails as long as
another request pins a GPU block. In `cache_aligned` the prompt of one block is also
inserted beside a pinned GPU block (of a table whose other block is on the CPU tier).
The proofs have no such bound.

The sets of ids are as large as what can be live at once: in the cache runs a
tier's blocks plus the dead ids the tree can still name never exceed `Blocks`.
An insert waits for unused ids, a bound of the model that never bites in the
runs (a call that waits for ever would violate `CallsReturn`). Deadlock checking is off where
the program really stops: after an exception nobody catches, and when the event
queue is empty.

**Mutants.** A definition whose comment begins "Mutant of" is a plausible bug in
the definition it follows up on (a dropped guard, a missing release, an unstable
queue). It takes part in no specification; put in place of the original it makes
TLC violate the property that `PROJECT.json` pairs it with, which shows that the
property can see such a bug.

**Fairness.** `WF_vars(CallStep)` in `CacheManager` (`FairSpec`): a Python call runs to its end.
`WF_vars(Next)` in `Serving` and in `Workload`: `run()` pops events for as long as
there are any. Nothing is assumed of the policy, the arrivals or the cache.

## Where code and documentation disagree

1. `HandlersReturn` (code): eviction may free part of a node's blocks. A later
   request for that prompt pins the live head of the node, calls admit, and admit's
   purge of the node frees what the call has just pinned: RuntimeError, which
   on_kv_transfer_complete does not catch. Four requests are enough, through the
   event handlers and not only by calling the cache.
2. `LookupIsReusable`: lookup counts live blocks behind a freed one as reusable.
3. `StepsDoNotOverlap`: the in-flight flag is cleared when a step begins; a request
   that joins during the last step of a batch starts the next one early.
4. `SlotEstimateHolds`: the wait estimate counts nothing for a request in its last
   prefill chunk, which holds its slot until the chunk ends.
5. `LargeIdsAreSafe`: hash ids become tokens `hid * block_size + offset`, which the
   docstring calls safe beyond `vocab_size` since tokens are compared for equality only;
   `make_request` packs the first block with `struct`, which refuses 2^32 and more. A
   complete record whose first hash id is 2^32 / block_size or more (about 8.4 million
   for blocks of 512) ends the run.

The findings in `PROJECT.json` quote the lines. The models also show
four smaller things. A "private" prompt (a layer of ratio 0, as in the 30 % of
`README.md:129` of the repository) is not always private: both generators have seed 42 by
default (`config.py:208`, `prefix_synthesis.py:58`) and in
`configs/trace_burstgpt.yaml:55,78`, so the suffix of an early request repeats the
beginning of bucket 0 and shares whole blocks with later prompts of that bucket
(`SharesAsMeant` says what else it can share, and that it loses nothing). After a split inside a block a path has more blocks than
its tokens fill, so that the table, cut to the latter, leaves the rest
unpinned; no property covers that: `TablesStayPut` speaks of the blocks in the table, and
its run has no such splits. An answer of no token
still has one (`AnswerLength`). And an arrival in the past, which engine.schedule
refuses, ends a replay with the trace file open (`OneAhead` makes that exception).

## Proofs

All theorems hold for every value of the constants under the named assumptions
(`PoolAssumption`: finitely many blocks and natural capacities;
`BlockSizeAssumption`; `CacheAssumption`: finitely many requests, prompts are
sequences; `LaneAssumption`; `CostAssumption`; `NodeAssumption`: positive
capacity, chunk size and costs per token and step, natural output lengths, zero
included; `ServingAssumption`: disjoint pools of nodes, requests numbered from 1,
natural gaps and cache answers; `PolicyAssumption`: no pool is empty and the
orders list each node once, weights and thresholds are natural;
`AnswerAssumption`: no lookup answers more than the prompt; `ClusterAssumption`: one
decode node, prompts of one length, at least a block; `SynthesisAssumption` and
`ConversionAssumption`: positive block sizes and numbers of buckets;
`WorkloadAssumption`: ratios are at most one, as `config.py` and `prefix_synthesis.py`
validate, records and rows have fields of the right types, hash ids of any size among them,
and times are multiples of the speedup, so that they stay whole numbers). In the modules about the cluster that means any number
of nodes and requests, any policy, any answers of the cache, and any ties between
events.

* **`CacheProofs`**, in the order of the layers, about `Spec`: the calls that the
  handlers make. Direct calls of admit (`ApiSpec`) are checked by TLC (`cache_sub_block`).
  *Pool*: `PoolSafe`, `PinsOnAllocated`, `PoolTypeCorrect`. The invariant `PoolInv` is
  the conjunction of the four properties. Capacity needs `IndexAgreement`: Move
  adds to a tier a block it did not hold, and cardinalities follow from finiteness.
  *Calls on the pool*: `CacheImplementsPool` (every step is a pool call or leaves
  the pool alone), hence `PoolSafeInCache`; and `TablesPinned` (`TablesStayPut`). A
  table's block stays put because it is pinned and Move and FreeBlocks refuse pinned
  blocks; that it is pinned is `PinsCover`, a lower bound on pin counts (holders plus
  the running call) that must survive the release of another holder.
  *Tree*: `TreeStaysWellFormed`, `NothingLeaks`, `CacheTypeCorrect`. Lemmas say
  what split, insert, purge and eviction do to any tree; `TreeInv` says that a node
  owns the blocks its key needs, none is owned twice, and every live block has an
  owner.
  *Exact pins*: `PinsExact` (`PinAccounting`). The re-match pins what is not yet
  retained, so the count is right only if what is retained lies on the path that the
  re-match finds: `PathInv`, which evictions of unpinned leaves and the insert keep
  because the nodes of the path have pinned blocks.
  *Paths*: `TablesArePaths` (`TableIsPath`), under the hypothesis
  `PromptsPartBetweenBlocks`: two prompts, cut to whole blocks, agree on a whole
  number of blocks. Blocks of one token satisfy it (the run `cache_aligned`), and so
  do prompts that are put together from hashed blocks; without it a split inside a
  block gives a path more blocks than its tokens fill and the property is false.
  `PathsInv`: nodes end at block boundaries and lie on prompts, and a table owns its
  path node by node.
* **`TransferProofs`**: `LanesSerializeAlways`, `BacklogCoversAlways`,
  `ClientTypeCorrect`, all from the invariant `LaneInv`. `LanesSerialize` alone is
  not inductive, since the step looks at two numbers and not at the history;
  `BacklogCovers` says that those numbers dominate it.
* **`LoopProofs`**: the lemmas below the proofs of the cluster and of the workload.
  Scheduling a list of events adds exactly these, keeps the queue in order of time
  and keeps the relative order of old events and of new ones, so that an order which
  holds between events of equal time goes on to hold. Induction over lists is by
  least counterexample, from the well-foundedness of `<` on the naturals.
* **`ServingProofs`** begins with the nodes: each method keeps a node
  well formed (slots, queue and batches without repetition or overlap, never over
  capacity, nobody waiting beside a free slot) and moves the requests it names.
  Then `PositionsAgree`, from which `NeverLostNorTwice` (`OnePlace`),
  `NoLostWakeUp` (`StepsInFlight`), `SlotsAccounted` (`Slots`), `TablesReleased`
  (`TablesOwned`) and `TypeCorrect` (`ServingTypeOK`). None of these is inductive: a
  handler acts on its event and trusts what it finds. `Inv` gives every request
  one of ten positions and says what decision, nodes, pending transfers, tables and
  queued events look like there (`At`); no two events that carry the same request,
  or step the same node, are queued (`Apart`); flag and queued step of a node
  agree with its work (`Awake`); requests behind the next arrival have left no
  trace (`Ahead`). One lemma per handler moves a request from one position to the
  next.
* **`LedgerProofs`**: `LedgerAgrees`, from which `NoStaleTransfer`
  (`TransfersMatched`), `EveryArrivalCounted` (`ArrivalsConserved`) and
  `NothingLeftBehind` (`CleanEnd`). `Ledger` is about what `Inv` leaves out, the
  collector and the events that only it reads: transfer starts and tokens are
  queued at most once and before the completion they belong to, also when the times
  are equal (`Notices`); a pending transfer is announced or seen, not both
  (`Transfers`); arrivals are completed, rejected or live (`Counts`); the live sets
  name requests in the right slots (`Marks`).
  *Answers*: `SamplesAgree`, from which `TokensSampledInOrder`
  (`TokensInOrder`) and `LatenciesRight` (`LatenciesAddUp`); with `Throughput`,
  `ThroughputExact` (`TokensCounted`). `Samples` ties three
  counts of tokens together: a stream's own count is the number sampled plus the
  one on the way (`Streams`), a queued token carries the next number and a
  completion the time of the last token (`Told`), and TTFT plus TBT samples
  always reach to the last sample (`Clocked`). `Throughput` is a sum over all
  requests: the library's fold is shown to follow its recursion on the subsets of
  a finite set, and a step that sends one token for each stream of a batch adds
  the size of the batch.
  `LifecycleImplemented` (`ImplementsLifecycle`): the life cycle hands a free prefill
  slot to the waiting request with the least id, the code to the head of a queue;
  that these agree is `InQueueOrder`, proved from the order of arrivals. Each
  handler is then a step of the life cycle or, for SCHEDULED, PREFILL_START,
  KV_TRANSFER_START, DECODE_BATCH_STEP and REQUEST_REJECTED, a stuttering step. It
  needs all the invariants: that the token handled is one the answer still lacks
  and that a completion finds it whole come from `Samples`, that an arrival is the
  next one from `Ledger`.
* **`RoutedProofs`**: `RoutedIsServing`, hence every theorem above for each of the five
  policies. A policy takes the least of computed scores, so the invariant
  `RoutedInv` must give it numbers: the phases of a node agree with its lists
  (`PhasesAgree`), so that the fold that estimates the wait is a natural number. `WaitsAreNeeded` (`NoNeedlessWait`) follows from the order in which the
  load-aware policies compare nodes. `RotationExact` (`RotationIsExact`) needs
  `Turns`: the cursors count the arrivals. `GateAlwaysRecovers` (`GateRecovers`) needs
  `Backlog`: a lane is busy beyond `now` only while a transfer on it is queued.
  `NoBetterNode` (`NeverTheWorse`), under the hypothesis `Weighted`: the weights of load
  and hits are not zero, since with a weight of zero the nodes tie and the order of the
  list decides. The chosen node has the least score, and each part of a score is
  monotone: chunks and shortage through a division, estimates through lanes, batch
  and chunks, the total through the weights.
  `EstimateIsSafe` (`AloneMeetsEstimate`) bounds the time of a token by a forecast made
  many events before. `Timely` carries the bound along: whatever holds a request that
  shares no node (an event, the prefill list, the decode batch) leaves time for what
  is still to do before arrival plus estimate (`OnTime`), and while it has its prefill
  slot its lanes will be free in time (`Punctual`). The handlers of others
  leave its nodes, lanes and events alone (`Undisturbed`); each of its own spends at
  most what its bound had set aside.
* **`ClusterProofs`**: `ClusterIsServing`: a step of a cache call changes nothing that
  the handlers see, and a handler with the cache's answer acts as in `Serving`, so
  `ServingHoldsInCluster`. `ClusterAgrees`: the tables that the handlers know of are
  those of the cache, but for the one whose answer waits for its handler
  (`Calling`, `Waits`, `InStep`); the invariant of `CacheProofs` holds although the
  clock moves between calls. From it `CacheAlwaysDrains` (`CacheDrains`) and
  `AlwaysDecodesInPlace` (`DecodesInPlace`). `PromptsStayCached`
  (`SharedPromptHits`), under `WholeBlockPrompts` (the hypothesis of `TablesArePaths`,
  and prompts of whole blocks: a remainder of a prompt is never cached), needs
  `CachedInv`: the table of a request is the path of its own prompt, and between the
  release and the end of its handler the prompt is still found.
* **`WorkloadProofs`**: `ReplayAgrees`, from which `OneChain` (`OneAhead`) and
  `ReplayExact` (`ReplayIsExact`). `ReplayInv` says that an open file has its next
  arrival queued and only then (`Chain`), that all requests made but the last have
  arrived in order (`Numbered`), and that each stands for one record and arrives at
  its time (`Traced`). Which record is the i-th is said by counting the records up to
  a line, so that reading on does not change it. Three invariants stand on it.
  `WindowInv`, for `WindowExact` (`WindowIsExact`): the window holds buckets of earlier
  requests in order of time, the latest of them included, so that purging its old end
  loses nothing. `SharingInv`, for `SharingAsMeant` (`SharesAsMeant`): buckets have no
  token in common at the same place and only grow at their end, a prompt begins as its
  bucket does, no two suffixes have a token in common, and with streams of their own
  none has one in common with a bucket; the blocks of a hash id are its own.
  With one stream a suffix can go on like a bucket, but what two prompts then share ends
  with the longer of their prefixes, since both go on with suffixes there. `SourceOK`,
  for `ConvertedReplays` (`ConversionReplays`): the rows that a
  script keeps are a subsequence of the log, so that in a log in order of time none
  lies before the first one, nor a record before the clock; what can still end its
  replay is a row whose first hash id struct refuses (`CleanEnd`).

Model-checked only, and why:

* `TableIsPath` and `SharedPromptHits` for prompts that part inside a block, of
  which they are false, and `TreeWellFormed` etc. also there by TLC
  (`cache_sub_block`), as a check of the statements.
* Liveness (`CallsReturn`, `RequestsResolve`, `CleanTraceReplays`): out of the
  prover's reach.

## Not modelled

* `evict_lru`, `stop()`, `complete()` of a queued request and the legacy wait
  estimates have no caller in the program.
* The statistics of `summary()` and the counters that only it reads (hits per tier,
  goodput, percentiles): arithmetic on samples whose collection is modelled.
* Configuration: validated records, which appear here as constants and
  assumptions. Reports, sweeps and sensitivity runs: one simulation after another
  in one process without shared state, and formatting.
* Python's recursion limit, which many malformed trace lines in a row exceed.
* The distributions of random choices (exponential gaps, Zipf weights, layers).
* The scheduler's test doubles.

## Plan

1. (done) `BlockPool`, `RadixTree`, `CacheManager`: the cache, its most delicate part.
2. (done) `TransferModel`, `EngineNode`, `EventLoop`, `Metrics`, `Serving`.
3. (done) proofs of the pool, the lanes, pinned tables, and the cache as an
   implementation of the pool.
4. (done) `Policies`, `RoutedServing`.
5. (done) `RequestLifecycle` and the refinement; `Cluster`, the composition of `Serving`
   and `CacheManager`.
6. (done) `PrefixSynthesis`, `TraceConversion`, `Workload`.
7. (done) proofs of `Serving`: positions, collector, answers, and the refinement of
   `RequestLifecycle`.
8. (done) proofs of `RoutedServing` and `Cluster` as implementations of `Serving`, of the
   policies, of the tree, exact pins and paths in the cache.
9. (done) proofs of `Workload`, of `NeverTheWorse` and of `AloneMeetsEstimate`.

Every safety property that a passing run checks is proved, `TableIsPath`,
`SharedPromptHits` and `NeverTheWorse` under the hypotheses stated above.
