--------------------------- MODULE PrefixSynthesis ---------------------------
(***************************************************************************)
(* The parts of prompts that requests share: bucket prefixes that grow on  *)
(* demand (simulator/prefix_synthesis.py), prefixes expanded from the hash *)
(* ids of a trace (_build_token_ids), and the sliding window of recently   *)
(* used buckets.                                                           *)
(*                                                                         *)
(* A random token is named by its place in the stream of random numbers    *)
(* that it is drawn from, so that two tokens are equal only when they are  *)
(* the same number of one stream.  Buckets and suffixes are drawn by two   *)
(* random.Random instances.  With different seeds these have streams of    *)
(* their own (suffix tokens are then negative); with the same seed, as in  *)
(* configs/trace_burstgpt.yaml and by default, both draw the same numbers. *)
(***************************************************************************)
EXTENDS Integers, Sequences, SequencesExt

CONSTANTS
  BlockSize,        (* ModelConfig.block_size.                               *)
  NumBuckets,       (* num_buckets.                                          *)
  Window            (* local_window_s, in ms of the trace.                   *)

ASSUME SynthesisAssumption ==
  /\ BlockSize \in Nat \ {0} /\ NumBuckets \in Nat \ {0} /\ Window \in Nat

Buckets == 0..(NumBuckets - 1)

(* n tokens of a stream, the first d of which have been drawn.               *)
BucketDraws(d, n) == [i \in 1..n |-> d + i - 1]
SuffixDraws(oneSeed, d, n) ==
  IF oneSeed THEN BucketDraws(d, n) ELSE [i \in 1..n |-> -(d + i)]

(* __init__: the bucket prefixes, all of length n, drawn one after another.  *)
BucketPrefixes(n) == [b \in Buckets |-> BucketDraws(b * n, n)]

(* The initial length in PrefixSynthesisModel: whole blocks, one at least.   *)
InitialPrefixLen(promptLen) ==
  BlockSize * Max({1, (promptLen + BlockSize - 1) \div BlockSize})

(* int(ratio * prompt_len), aligned down; a ratio is a pair.                 *)
AlignedPrefixLen(ratio, promptLen) ==
  (((ratio[1] * promptLen) \div ratio[2]) \div BlockSize) * BlockSize

(* Mutant of Extended: a bucket that is too short is drawn anew.             *)
ExtendedAnew(bucket, n, d) == IF n > Len(bucket) THEN BucketDraws(d, n) ELSE bucket

(* The lazy extension of a bucket to n tokens, after d draws.                *)
Extended(bucket, n, d) == bucket \o BucketDraws(d, Max({0, n - Len(bucket)}))

(* Mutant of PurgeExpired: `<=` for `<`.                                     *)
PurgeExpiredEarly(recent, at) ==
  LET kept == {i \in DOMAIN recent : recent[i].at > at - Window}
  IN IF kept = {} THEN <<>> ELSE SubSeq(recent, Min(kept), Len(recent))

(* _purge_expired: drop entries from the front up to the first recent one.   *)
PurgeExpired(recent, at) ==
  LET kept == {i \in DOMAIN recent : recent[i].at >= at - Window}
  IN IF kept = {} THEN <<>> ELSE SubSeq(recent, Min(kept), Len(recent))

HashToken(hid, offset) == hid * BlockSize + offset

(* _build_token_ids: hash ids expanded for as many whole blocks as the       *)
(* prompt has, then random tokens.  There are no buckets in this mode.       *)
Expanded(hashes, len) == Min({Len(hashes), len \div BlockSize}) * BlockSize
BuildTokenIds(hashes, len, d) ==
  [i \in 1..Expanded(hashes, len) |->
     HashToken(hashes[(i - 1) \div BlockSize + 1], (i - 1) % BlockSize)]
    \o SuffixDraws(FALSE, d, len - Expanded(hashes, len))
=============================================================================
