------------------------------- MODULE Workload -------------------------------
(***************************************************************************)
(* Where requests come from: the Poisson generator (simulator/generator.py)*)
(* and the replay of a trace file (simulator/trace_generator.py), each     *)
(* attached to the event loop, where the handler of an arrival schedules   *)
(* the next one.  A trace is any file of lines, or what a script made of a *)
(* published log.  The rest of the system is one event per arrival, which  *)
(* on_arrive schedules before the chain handler runs.                      *)
(***************************************************************************)
EXTENDS PrefixSynthesis, TraceConversion, EventLoop, FiniteSets

CONSTANTS
  Traces,       (* Trace files, as sequences of lines.                       *)
  Logs,         (* Published logs, for the scripts to convert.               *)
  Speedup,      (* TraceConfig.speedup.                                      *)
  MaxRequests,  (* TraceConfig.max_requests.                                 *)
  Ratios,       (* The ratios of sharing_layers, pairs.                      *)
  LocalDraws,   (* The outcomes of random() < p_local: {TRUE} for p_local 1. *)
  ChoiceDraws,  (* How many draws of a stream the choices of a layer and of a*)
                (* bucket take up.                                           *)
  TokenLimit,   (* 2^32: the tokens that struct packs into four bytes.       *)
  PromptLen,    (* WorkloadConfig.avg_prompt_len.                            *)
  SharingRatio, (* WorkloadConfig.prefix_sharing_ratio, a pair.              *)
  Gaps,         (* Samples of the inter-arrival time.                        *)
  EndTime,      (* WorkloadConfig.duration_s, in ms.                         *)
  WorkDelay     (* When the system is done with an arrival.                  *)

(* A line is malformed JSON, a record that lacks a field, or a record.       *)
Lines == UNION {ToSet(t) : t \in Traces}
Rows == UNION {ToSet(log) : log \in Logs}

ASSUME WorkloadAssumption ==
  /\ Speedup \in Nat \ {0} /\ MaxRequests \in Nat \ {0}
  /\ Gaps \subseteq Nat \ {0} /\ EndTime \in Nat /\ WorkDelay \in Nat
  /\ LocalDraws \subseteq BOOLEAN /\ LocalDraws # {}
  /\ ChoiceDraws \subseteq Nat /\ ChoiceDraws # {} /\ TokenLimit \in Nat
  /\ PromptLen \in Nat
  /\ \A ratio \in Ratios \cup {SharingRatio} :
       ratio \in Nat \X (Nat \ {0}) /\ ratio[1] <= ratio[2]
  /\ \A t \in Traces \cup Logs : t \in Seq(ToSet(t))
  /\ \A l \in Lines : l.kind \in {"malformed", "broken", "record"}
  /\ \A l \in Lines : l.kind = "record" =>
       /\ l.at \in Int /\ l.at % Speedup = 0 /\ l.len \in Nat
       /\ l.hashes = NoHashes \/ l.hashes \in Seq(Nat)
  /\ \A row \in Rows : row.kind = "full" =>
       /\ row.ts \in Int /\ row.ts % Speedup = 0 /\ row.len \in Nat
       /\ row.hashes \in Seq(Nat)

VARIABLES
  mode,         (* prefix_mode of a trace, or "poisson".                     *)
  oneSeed,      (* The prefix synthesis has the seed of the trace generator. *)
  origin,       (* The script that made the trace, or "none".                *)
  log,          (* What it made it from.                                     *)
  file,         (* The lines of the trace.                                   *)
  pos,          (* Lines read.                                               *)
  open,         (* _file is not None.                                        *)
  attached,     (* _attached.                                                *)
  made,         (* The Request objects made so far, in order; _idx and       *)
                (* _next_request_id are its length.                          *)
  now, events,  (* The event loop.                                           *)
  delivered,    (* The requests whose REQUEST_ARRIVE was handled.            *)
  buckets,      (* _bucket_prefixes.                                         *)
  recent,       (* _recent.                                                  *)
  drawn,        (* Draws from the streams of the buckets and the suffixes.   *)
  raised        (* The exception that ended the program.                     *)

setup == <<mode, oneSeed, origin, log, file>>
vars == <<setup, pos, open, attached, made, now, events, delivered, buckets, recent,
          drawn, raised>>

PrefixLen == AlignedPrefixLen(SharingRatio, PromptLen)
InitialLen == IF mode = "poisson" THEN PrefixLen ELSE InitialPrefixLen(PromptLen)

(* A trace has one of three prefix modes; without one there is no file, and  *)
(* the one generator that there is draws nothing twice.                      *)
Init ==
  /\ oneSeed \in BOOLEAN /\ (oneSeed => mode = "synthesis")
  /\ \/ mode = "poisson" /\ file = <<>> /\ origin = "none" /\ log = <<>>
     \/ /\ mode \in {"none", "hash_ids", "synthesis"}
        /\ \/ file \in Traces /\ origin = "none" /\ log = <<>>
           \/ log \in Logs /\ origin = "mooncake" /\ file = ConvertMooncake(log)
           \/ log \in Logs /\ origin = "burstgpt" /\ file = ConvertBurstGPT(log)
  /\ pos = 0 /\ open = FALSE /\ attached = FALSE
  /\ made = <<>> /\ delivered = <<>>
  /\ now = 0 /\ events = <<>>
  /\ buckets = BucketPrefixes(InitialLen)
  /\ recent = <<>>
  /\ drawn = [bucket |-> NumBuckets * InitialLen, suffix |-> 0]
  /\ raised = "none"

(* A request: where its line asks for it, its prompt and, for the            *)
(* properties, how the prompt came about.                                    *)
Request(at, tokens, bucket, shared, local) ==
  [at |-> at, tokens |-> tokens, bucket |-> bucket, shared |-> shared, local |-> local]

NoBucket == -1
Arrival(time, id) == [time |-> time, type |-> "REQUEST_ARRIVE", req |-> id]
Work(time, id) == [time |-> time, type |-> "WORK", req |-> id]

Draw(n, k) == drawn' = [bucket |-> drawn.bucket + n, suffix |-> drawn.suffix + k]

-----------------------------------------------------------------------------
(* _build_token_ids_from_record and make_request, for a record.              *)

BuildUnshared(line) ==
  /\ mode = "none"
  /\ made' = Append(made, Request(line.at, SuffixDraws(oneSeed, drawn.suffix, line.len), NoBucket, 0, FALSE))
  /\ Draw(0, line.len)
  /\ UNCHANGED <<buckets, recent>>

BuildFromHashes(line) ==
  /\ mode = "hash_ids"
  /\ made' = Append(made, Request(line.at, BuildTokenIds(line.hashes, line.len, drawn.suffix),
                                  NoBucket, Expanded(line.hashes, line.len), FALSE))
  /\ Draw(0, line.len - Expanded(line.hashes, line.len))
  /\ UNCHANGED <<buckets, recent>>

(* assign_prefix_tokens returns early when the layer leaves no whole block.  *)
BuildWithoutPrefix(line) ==
  /\ mode = "synthesis"
  /\ \E ratio \in Ratios : AlignedPrefixLen(ratio, line.len) = 0
  /\ made' = Append(made, Request(line.at, SuffixDraws(oneSeed, drawn.suffix, line.len), NoBucket, 0, FALSE))
  /\ \E choice \in ChoiceDraws : Draw(choice, line.len)
  /\ UNCHANGED <<buckets, recent>>

(* Its three stages: a layer, a bucket (a recent one, or any), its prefix.   *)
(* The window is in the time of the trace, before the speedup.               *)
BuildFromBucket(line) ==
  /\ mode = "synthesis"
  /\ \E ratio \in Ratios, drawLocal \in LocalDraws, choice \in ChoiceDraws :
       LET n == AlignedPrefixLen(ratio, line.len)
           live == PurgeExpired(recent, line.at)
           local == drawLocal /\ live # <<>>
       IN /\ n > 0
          /\ \E b \in IF local THEN {live[i].bucket : i \in DOMAIN live} ELSE Buckets :
               LET bucket == Extended(buckets[b], n, drawn.bucket + choice)
               IN /\ buckets' = [buckets EXCEPT ![b] = bucket]
                  /\ recent' = Append(live, [bucket |-> b, at |-> line.at])
                  /\ made' = Append(made,
                       Request(line.at,
                               SubSeq(bucket, 1, n) \o SuffixDraws(oneSeed, drawn.suffix, line.len - n),
                               b, n, local))
                  /\ Draw(choice + Max({0, n - Len(buckets[b])}), line.len - n)

-----------------------------------------------------------------------------
(* _schedule_next at time t, with queue q.  It is called only while the file *)
(* is open: see OneAhead.                                                    *)

(* Mutant of NextLine: a malformed line is taken for the end of the file.    *)
NextLineStops ==
  IF pos < Len(file) /\ file[pos + 1].kind # "malformed" THEN pos + 1 ELSE Len(file) + 1

(* The next line that is JSON; malformed ones are skipped.                   *)
NextLine ==
  LET ahead == {i \in (pos + 1)..Len(file) : file[i].kind # "malformed"}
  IN IF ahead = {} THEN Len(file) + 1 ELSE Min(ahead)

AtCap == Len(made) >= MaxRequests
AtEof == ~AtCap /\ NextLine > Len(file)
Lacks(line) == line.kind = "broken" \/ (mode = "hash_ids" /\ line.hashes = NoHashes)

(* _hash_prefix packs the first block of a prompt; struct refuses a token    *)
(* that is too large.  Random tokens are below vocab_size and never are.     *)
Overflows(line) ==
  /\ mode = "hash_ids" /\ ~Lacks(line)
  /\ Expanded(line.hashes, line.len) > 0
  /\ HashToken(line.hashes[1], BlockSize - 1) >= TokenLimit

(* max_requests reached, or the end of the file: close it.                   *)
TraceEnds(q, t) ==
  /\ AtCap \/ AtEof
  /\ open' = FALSE
  /\ pos' = IF AtCap THEN pos ELSE Len(file)
  /\ events' = q
  /\ UNCHANGED <<made, buckets, recent, drawn, raised>>

(* A record without a field it needs, or one that make_request cannot hash:  *)
(* close and raise.  What was drawn for it before is not kept: the program   *)
(* ends here.                                                                *)
RecordRaises(q, t) ==
  /\ ~AtCap /\ ~AtEof
  /\ Lacks(file[NextLine]) \/ Overflows(file[NextLine])
  /\ open' = FALSE
  /\ pos' = NextLine
  /\ raised' = IF Lacks(file[NextLine]) THEN "record" ELSE "struct"
  /\ events' = q
  /\ UNCHANGED <<made, buckets, recent, drawn>>

(* Mutant of SimTime: a time stamp is taken for a gap after the last one.    *)
SimTimeFromNow(line) == now' + line.at \div Speedup

(* arrival_ms / speedup; the traces are multiples of it.                     *)
SimTime(line) == line.at \div Speedup

(* The request is made; engine.schedule refuses an arrival in the past, with *)
(* a ValueError that leaves the file open.                                   *)
RecordScheduled(q, t) ==
  LET line == file[NextLine]
      at == SimTime(line)
  IN /\ ~AtCap /\ ~AtEof
     /\ ~Lacks(line) /\ ~Overflows(line)
     /\ BuildUnshared(line) \/ BuildFromHashes(line) \/ BuildWithoutPrefix(line)
          \/ BuildFromBucket(line)
     /\ pos' = NextLine
     /\ \/ at >= t /\ events' = Schedule(q, Arrival(at, Len(made'))) /\ raised' = raised
        \/ at < t /\ events' = q /\ raised' = "past"
     /\ open' = TRUE

ScheduleNext(q, t) == TraceEnds(q, t) \/ RecordRaises(q, t) \/ RecordScheduled(q, t)

-----------------------------------------------------------------------------
(* RequestGenerator: _enqueue_arrival if the time is before the end.         *)

(* _build_request: any bucket's prefix and a random suffix.                  *)
BuildRequest(at) ==
  \E b \in Buckets :
    /\ made' = Append(made, Request(at,
                 buckets[b] \o SuffixDraws(oneSeed, drawn.suffix, PromptLen - PrefixLen), b, PrefixLen, FALSE))
    /\ Draw(0, PromptLen - PrefixLen)
    /\ UNCHANGED <<buckets, recent>>

EnqueueArrival(q, at) ==
  \/ /\ at < EndTime
     /\ BuildRequest(at)
     /\ events' = Schedule(q, Arrival(at, Len(made')))
  \/ /\ at >= EndTime
     /\ events' = q
     /\ UNCHANGED <<made, buckets, recent, drawn>>

-----------------------------------------------------------------------------
(* The actions: attach, once, and the events.                                *)

(* RequestGenerator.attach and _on_arrive_chain.                             *)
AttachPoisson ==
  /\ mode = "poisson" /\ ~attached
  /\ attached' = TRUE
  /\ \E gap \in Gaps : EnqueueArrival(events, gap)
  /\ UNCHANGED <<setup, pos, open, now, delivered, raised>>

(* An arrival is popped: on_arrive runs first.                               *)
PopArrival ==
  /\ raised = "none" /\ events # <<>>
  /\ Head(events).type = "REQUEST_ARRIVE"
  /\ now' = Head(events).time
  /\ delivered' = Append(delivered, [id |-> Head(events).req, time |-> now'])
  /\ UNCHANGED <<setup, attached>>

AfterOnArrive == Schedule(Tail(events), Work(now' + WorkDelay, Head(events).req))

(* Mutant of ArrivePoisson: the chain handler is registered twice.           *)
ArrivePoissonTwice ==
  /\ mode = "poisson"
  /\ PopArrival
  /\ \E gap \in Gaps :
       /\ now' + gap < EndTime
       /\ BuildRequest(now' + gap)
       /\ events' = ScheduleAll(AfterOnArrive, <<Arrival(now' + gap, Len(made')),
                                                 Arrival(now' + gap, Len(made'))>>)
  /\ UNCHANGED <<pos, open, raised>>

ArrivePoisson ==
  /\ mode = "poisson"
  /\ PopArrival
  /\ \E gap \in Gaps : EnqueueArrival(AfterOnArrive, now' + gap)
  /\ UNCHANGED <<pos, open, raised>>

(* TraceGenerator.attach and _on_arrive_chain.                               *)
AttachTrace ==
  /\ mode # "poisson" /\ ~attached
  /\ attached' = TRUE
  /\ UNCHANGED <<setup, now, delivered>>
  /\ ScheduleNext(events, now)

ArriveTrace ==
  /\ mode # "poisson"
  /\ PopArrival
  /\ ScheduleNext(AfterOnArrive, now')

WorkDone ==
  /\ raised = "none" /\ events # <<>>
  /\ Head(events).type = "WORK"
  /\ now' = Head(events).time
  /\ events' = Tail(events)
  /\ UNCHANGED <<setup, pos, open, attached, made, delivered, buckets, recent, drawn, raised>>

Next == AttachPoisson \/ ArrivePoisson \/ AttachTrace \/ ArriveTrace \/ WorkDone

(* _run_one attaches the generator, then run() pops events while there are   *)
(* any.                                                                      *)
Spec == Init /\ [][Next]_vars /\ WF_vars(Next)

-----------------------------------------------------------------------------
(* Properties.                                                               *)

(* Where arrivals are in the queue.                                          *)
Pending == {i \in DOMAIN events : events[i].type = "REQUEST_ARRIVE"}

(* The arrivals form one chain: never two of them in the queue, and while    *)
(* the trace file is open there is one, so that it is read on: _schedule_next*)
(* never meets a closed file, and the cap, the end of the file and a broken  *)
(* record all close it.  Only an arrival in the past leaves it open.         *)
OneAhead ==
  /\ Cardinality(Pending) <= 1
  /\ open /\ raised # "past" => Cardinality(Pending) = 1
  /\ (mode # "poisson" /\ Pending # {}) => open

(* The i-th record of what has been read.                                    *)
RecordsTo(k) == Cardinality({j \in 1..k : file[j].kind = "record"})
RecordOf(i) == file[CHOOSE k \in 1..pos : file[k].kind = "record" /\ RecordsTo(k) = i]

(* Requests arrive in the order in which they are numbered, each at its own  *)
(* time and in that of its trace line: skipped lines, the cap and events of  *)
(* the same time neither lose, repeat nor reorder one.                       *)
ReplayIsExact ==
  /\ \A i \in DOMAIN delivered : delivered[i].id = i
  /\ Len(made) = Len(delivered) + Cardinality(Pending) + (IF raised = "past" THEN 1 ELSE 0)
  /\ mode # "poisson" =>
       /\ \A i \in DOMAIN made : made[i].at = RecordOf(i).at /\ Len(made[i].tokens) = RecordOf(i).len
       /\ \A i \in DOMAIN delivered : delivered[i].time * Speedup = RecordOf(i).at

(* Leading whole blocks that two prompts have in common.                     *)
CommonBlocks(s, t) ==
  Max({n \in 0..(Min({Len(s), Len(t)}) \div BlockSize) :
         \A i \in 1..(n * BlockSize) : s[i] = t[i]})
CommonHashes(g, h) ==
  Max({n \in 0..Min({Len(g), Len(h)}) : \A i \in 1..n : g[i] = h[i]})

(* The blocks that two prompts are meant to share: the common hash ids of    *)
(* their records that both expand, or the shorter prefix from the same       *)
(* bucket, however much the bucket has grown in between.                     *)
Meant(i, j) ==
  LET both == Min({made[i].shared, made[j].shared}) \div BlockSize
  IN IF mode = "hash_ids" THEN Min({CommonHashes(RecordOf(i).hashes, RecordOf(j).hashes), both})
     ELSE IF made[i].bucket = made[j].bucket THEN both
     ELSE 0

(* The blocks that they may share when suffixes are drawn from the stream of *)
(* the buckets: a suffix can repeat a bucket, and then the prompt with the   *)
(* shorter prefix, or with none, goes on like the other one's bucket, but    *)
(* never beyond the longer prefix.                                           *)
AtMost(i, j) ==
  IF made[i].bucket = made[j].bucket \/ 0 \in {made[i].shared, made[j].shared}
  THEN Max({made[i].shared, made[j].shared}) \div BlockSize
  ELSE 0

(* Two prompts share exactly the blocks they are meant to, and no block      *)
(* otherwise; with one seed for both generators they share no less, and more *)
(* only by what a suffix repeats of a bucket.                                *)
SharesAsMeant ==
  \A i, j \in DOMAIN made : i < j =>
    LET common == CommonBlocks(made[i].tokens, made[j].tokens)
    IN IF oneSeed THEN Meant(i, j) <= common /\ common <= AtMost(i, j)
       ELSE common = Meant(i, j)

(* The locality window: with p_local = 1 a prompt takes up a bucket used at  *)
(* most Window before it if there is one, and only such a bucket.            *)
UsedBefore(i) ==
  {made[j].bucket : j \in {j \in 1..(i - 1) :
     made[j].bucket # NoBucket /\ made[i].at - made[j].at <= Window}}
WindowIsExact ==
  mode = "synthesis" =>
    \A i \in DOMAIN made : made[i].bucket # NoBucket =>
      /\ made[i].local => made[i].bucket \in UsedBefore(i)
      /\ LocalDraws = {TRUE} => (made[i].local <=> UsedBefore(i) # {})

(* A trace in order of time whose records are complete and whose first hash  *)
(* ids struct can pack is replayed to its end or to the cap, malformed lines *)
(* or not.                                                                   *)
AllRecords == SelectSeq(file, LAMBDA l : l.kind = "record")
CompleteTrace ==
  /\ \A i \in DOMAIN file : file[i].kind # "malformed" => ~Lacks(file[i])
  /\ \A i, j \in DOMAIN AllRecords :
       AllRecords[i].at >= 0 /\ (i < j => AllRecords[i].at <= AllRecords[j].at)
CleanTrace == CompleteTrace /\ \A i \in DOMAIN file : ~Overflows(file[i])
Over == attached /\ (events = <<>> \/ raised # "none")
CleanTraceReplays ==
  (mode # "poisson" /\ CleanTrace)
    ~> (Over /\ ~open /\ Len(delivered) = Min({MaxRequests, Len(AllRecords)}))

(* Hash ids of any size are replayed: as _build_token_ids says, tokens beyond*)
(* vocab_size are compared for equality only.  (make_request packs them.)    *)
LargeIdsAreSafe == CompleteTrace => raised = "none"

(* A log in order of time survives its conversion and replay: no row that    *)
(* the script lets through ends the run, unless its first hash id is too     *)
(* large for struct, and requests are as far apart as the rows they come     *)
(* from.  BurstGPT logs have no hash ids to replay.                          *)
Source == IF origin = "mooncake" THEN MooncakeRows(log) ELSE BurstRows(log)
Ticks == IF origin = "mooncake" THEN 1 ELSE MsPerSecond
ConversionReplays ==
  (/\ origin # "none"
   /\ \A i, j \in DOMAIN log : i < j => log[i].ts <= log[j].ts
   /\ origin = "burstgpt" => mode # "hash_ids") =>
    /\ raised = "none" \/ (raised = "struct" /\ Overflows(file[pos]))
    /\ \A i \in DOMAIN delivered :
         delivered[i].time * Speedup = Ticks * (Source[i].ts - Source[1].ts)
=============================================================================
