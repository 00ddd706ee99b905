--------------------------- MODULE TraceConversion ---------------------------
(***************************************************************************)
(* The two scripts that make trace files from published logs, as operators *)
(* on a log, a sequence of rows: scripts/convert_mooncake.py and           *)
(* scripts/convert_burstgpt.py.  A row is                                  *)
(*                                                                         *)
(*   kind      "malformed" (does not parse), "partial" (lacks a field) or  *)
(*             "full"                                                      *)
(*   ts        its time stamp                                              *)
(*   len, out  prompt and answer length                                    *)
(*   hashes    its hash ids (Mooncake)                                     *)
(*   session   whether it has a session id (BurstGPT)                      *)
(***************************************************************************)
EXTENDS Integers, Sequences, SequencesExt

CONSTANTS
  MooncakeBlock,    (* MOONCAKE_BLOCK_SIZE.                                  *)
  MsPerSecond,      (* BurstGPT time stamps are seconds.                     *)
  Limit,            (* --limit of convert_burstgpt.py.                       *)
  RequireSession    (* Its --require-session-id.                             *)

ASSUME ConversionAssumption ==
  /\ MooncakeBlock \in Nat \ {0} /\ MsPerSecond \in Nat \ {0} /\ Limit \in Nat
  /\ RequireSession \in BOOLEAN

(* hash_ids optional in a trace: BurstGPT has none.                          *)
NoHashes == <<-1>>

(* What each script lets through.                                            *)
MooncakeValid(row) ==
  /\ row.kind = "full"
  /\ Len(row.hashes) = (row.len + MooncakeBlock - 1) \div MooncakeBlock

BurstValid(row) ==
  /\ row.kind = "full"
  /\ row.len > 0 /\ row.out > 0
  /\ RequireSession => row.session

(* Mutant of ZeroBased: the first row of the log is the base, kept or not.   *)
ZeroBasedOnLog(kept, log, i) == kept[i].ts - log[1].ts

(* Times from the first row that is written.                                 *)
ZeroBased(kept, log, i) == kept[i].ts - kept[1].ts

Line(row, at, hashes) ==
  [kind |-> "record", at |-> at, len |-> row.len, hashes |-> hashes]

(* The loop of both scripts: a row is written or passed over.                *)
RowsIn(log, valid) ==
  LET kept[n \in 0..Len(log)] ==
        IF n = 0 THEN <<>>
        ELSE IF n \in valid THEN Append(kept[n - 1], log[n])
        ELSE kept[n - 1]
  IN kept[Len(log)]

MooncakeRows(log) == RowsIn(log, {i \in DOMAIN log : MooncakeValid(log[i])})
BurstRows(log) == RowsIn(log, {i \in DOMAIN log : BurstValid(log[i])})

ConvertMooncake(log) ==
  LET kept == MooncakeRows(log)
  IN [i \in DOMAIN kept |-> Line(kept[i], ZeroBased(kept, log, i), kept[i].hashes)]

ConvertBurstGPT(log) ==
  LET valid == BurstRows(log)
      kept == SubSeq(valid, 1, Min({Limit, Len(valid)}))
  IN [i \in DOMAIN kept |-> Line(kept[i], MsPerSecond * ZeroBased(kept, log, i), NoHashes)]
=============================================================================
