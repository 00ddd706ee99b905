------------------------------- MODULE Metrics -------------------------------
(***************************************************************************)
(* The bookkeeping of MetricsCollector (metrics/collector.py), one         *)
(* operator per event handler, on a collector value M.                     *)
(*                                                                         *)
(*   arrived, completed, rejected   _total_arrived, _completed_count,      *)
(*                                  _rejected_count                        *)
(*   decodeTokens                   _total_decode_tokens                   *)
(*   prefills, decodes              _active_prefills, _active_decodes      *)
(*   chunks                         the keys of _request_n_chunks          *)
(*   seen, transfers                _seen_transfer_ids, and the length of  *)
(*                                  _kv_transfer_cost_samples              *)
(*   arrivedAt                      arrival_time in _requests              *)
(*   ttft, e2e                      the two latencies of a request         *)
(*   tbt, tbtTime                   the number of its _tbt_samples, and    *)
(*                                  their sum                              *)
(*   lastStep                       _last_decode_step_time                 *)
(*   skipped                        TBT samples dropped with a warning     *)
(*                                                                         *)
(* The statistics of summary() and the counters that only they read are    *)
(* left out.                                                               *)
(***************************************************************************)
EXTENDS Integers

CONSTANTS
  Requests

None == -1     (* No value yet. *)
NoTimes == [r \in Requests |-> None]

NoMetrics ==
  [arrived |-> 0, completed |-> 0, rejected |-> 0, decodeTokens |-> 0,
   prefills |-> {}, decodes |-> {}, chunks |-> {}, seen |-> {}, transfers |-> 0,
   arrivedAt |-> NoTimes, ttft |-> NoTimes, lastStep |-> NoTimes, e2e |-> NoTimes,
   tbt |-> [r \in Requests |-> 0], tbtTime |-> [r \in Requests |-> 0], skipped |-> 0]

CountArrive(M, r, t) == [M EXCEPT !.arrived = @ + 1, !.arrivedAt[r] = t]

(* Mutant of CountRejected: the n_chunks entry stays.                        *)
CountRejectedLeaks(M, r) == [M EXCEPT !.rejected = @ + 1]

CountRejected(M, r) ==
  [M EXCEPT !.rejected = @ + 1, !.chunks = @ \ {r}, !.prefills = @ \ {r}]

CountPrefillStart(M, r) == [M EXCEPT !.chunks = @ \cup {r}, !.prefills = @ \cup {r}]

CountPrefillComplete(M, r) == [M EXCEPT !.prefills = @ \ {r}]

(* Mutant of CountTransferStart: the transfer id is not remembered.          *)
CountTransferStartForgets(M, r) == M

CountTransferStart(M, r) == [M EXCEPT !.seen = @ \cup {r}]

(* A transfer whose start was not seen is dropped as stale.                  *)
CountTransferComplete(M, r) ==
  IF r \in M.seen THEN [M EXCEPT !.seen = @ \ {r}, !.transfers = @ + 1] ELSE M

(* Mutant of CountToken: the time of the last step is not moved on.          *)
CountTokenStale(M, r, step, t) ==
  CASE step = 0 /\ M.ttft[r] # None -> M
    [] step = 0 /\ M.ttft[r] = None ->
         [M EXCEPT !.ttft[r] = t - M.arrivedAt[r], !.lastStep[r] = t, !.decodes = @ \cup {r}]
    [] step > 0 /\ M.lastStep[r] = None -> [M EXCEPT !.lastStep[r] = t, !.skipped = @ + 1]
    [] OTHER -> [M EXCEPT !.tbt[r] = @ + 1, !.tbtTime[r] = @ + t - M.lastStep[r]]

(* TOKEN_GENERATED: the first token is the TTFT, later ones are TBT samples. *)
CountToken(M, r, step, t) ==
  CASE step = 0 /\ M.ttft[r] # None -> M
    [] step = 0 /\ M.ttft[r] = None ->
         [M EXCEPT !.ttft[r] = t - M.arrivedAt[r], !.lastStep[r] = t, !.decodes = @ \cup {r}]
    [] step > 0 /\ M.lastStep[r] = None -> [M EXCEPT !.lastStep[r] = t, !.skipped = @ + 1]
    [] OTHER -> [M EXCEPT !.tbt[r] = @ + 1, !.tbtTime[r] = @ + t - M.lastStep[r],
                          !.lastStep[r] = t]

(* Mutant of CountBatchStep: one token per step, whatever the batch.         *)
CountBatchStepOnce(M, batchSize) ==
  [M EXCEPT !.decodeTokens = IF batchSize = 0 THEN @ ELSE @ + 1]

CountBatchStep(M, batchSize) == [M EXCEPT !.decodeTokens = @ + batchSize]

CountDecodeComplete(M, r, t) ==
  [M EXCEPT !.completed = @ + 1, !.e2e[r] = t - M.arrivedAt[r],
            !.chunks = @ \ {r}, !.decodes = @ \ {r}]
=============================================================================
