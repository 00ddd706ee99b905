------------------------------ MODULE MCWorkload ------------------------------
(***************************************************************************)
(* Workload for TLC.                                                       *)
(***************************************************************************)
EXTENDS Workload

Rec(at, len, hashes) == [kind |-> "record", at |-> at, len |-> len, hashes |-> hashes]
NoRecord(kind) == [kind |-> kind, at |-> 0, len |-> 0, hashes |-> NoHashes]

(* Lines that share, part from and outgrow each other's prompts, one of them *)
(* before time zero and without hash ids; times on both sides of the window; *)
(* a hash id that struct refuses, as the first one and as a later one.       *)
SomeLines ==
  {NoRecord("malformed"), NoRecord("broken"),
   Rec(0, 4, <<1, 2>>), Rec(-2, 3, NoHashes), Rec(4, 7, <<1, 2, 9>>), Rec(4, 2, <<1, 3>>),
   Rec(8, 5, <<2>>), Rec(10, 4, <<9, 2>>)}

(* All traces of at most four of them.                                       *)
SomeTraces == UNION {[1..n -> SomeLines] : n \in 0..4}

(* Rows of a log, in and out of shape, with times that need a base, one with *)
(* a first hash id that struct refuses.                                      *)
Row(ts, len, out, hashes, session) ==
  [kind |-> "full", ts |-> ts, len |-> len, out |-> out, hashes |-> hashes, session |-> session]
SomeRows ==
  {[Row(2, 0, 0, <<>>, FALSE) EXCEPT !.kind = k] : k \in {"malformed", "partial"}}
    \cup {Row(2, 4, 1, <<1, 2>>, TRUE), Row(4, 3, 0, <<1, 3>>, TRUE), Row(6, 2, 2, <<1, 2>>, TRUE),
          Row(8, 4, 1, <<9, 3>>, FALSE)}
SomeLogs == UNION {[1..n -> SomeRows] : n \in 0..4}

SomeRatios == {<<0, 1>>, <<1, 2>>, <<1, 1>>}
MostShared == <<3, 4>>
=============================================================================
