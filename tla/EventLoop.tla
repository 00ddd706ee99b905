------------------------------ MODULE EventLoop ------------------------------
(***************************************************************************)
(* The queue of the discrete-event engine (simulator/engine.py), as        *)
(* operators on a sequence of events.  The heap pops events by (time, seq) *)
(* and seq counts the schedule calls, so the queue is a sequence in order  *)
(* of time in which a new event goes behind those of the same time.        *)
(***************************************************************************)
EXTENDS Integers, Sequences, FiniteSets, SequencesExt

(* Mutant of Schedule: the queue is not kept in order of time.               *)
ScheduleLast(queue, e) == Append(queue, e)

(* Mutant of Schedule: events of the same time come out last in, first out.  *)
ScheduleUnstable(queue, e) ==
  LET i == Len(SelectSeq(queue, LAMBDA f : f.time < e.time))
  IN InsertAt(queue, i + 1, e)

(* schedule: behind the events that are not later.  (A function of the queue *)
(* lets TLC evaluate the queue once.)                                        *)
Schedule(queue, e) ==
  [q \in {queue} |->
     InsertAt(q, 1 + Cardinality({i \in DOMAIN q : q[i].time <= e.time}), e)][queue]

(* Several schedule calls of one handler, in order.                          *)
ScheduleAll(queue, es) ==
  LET after[n \in 0..Len(es)] == IF n = 0 THEN queue ELSE Schedule(after[n - 1], es[n])
  IN after[Len(es)]
=============================================================================
