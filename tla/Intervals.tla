----------------------------- MODULE Intervals -----------------------------
(***************************************************************************)
(* The statistic of one sender or receiver thread and its interval outputs *)
(* (statistic.rs: StatisticInterval; sender.rs and receiver.rs: run).  The *)
(* statistic is reduced to its number of datagrams; time is counted in     *)
(* intervals from the start of the measurement.                            *)
(***************************************************************************)
EXTENDS Integers, Sequences, Functions

(* now: the time; last: last_send_instant; count: the current statistic;   *)
(* outputs: the interval statistics, whose interval_id is their position.  *)
NodeStatistic == [now : Nat, last : Nat, count : Nat, outputs : Seq(Nat)]

\* start(offset)
Started(offset) == [now |-> 0, last |-> offset, count |-> 0, outputs |-> <<>>]

(* total_interval_outputs, 0 without an output_interval: the floor of a    *)
(* quotient of two f64.  The interval divides the time, but short says     *)
(* that the quotient came out just below the whole number (33 s / 1.1 s).  *)
TotalOutputs(interval, time, short) ==
  IF interval = 0 THEN 0 ELSE time \div interval - (IF short THEN 1 ELSE 0)

(* Bug: one interval too many.                                             *)
FinishedLate(s, total) == Len(s.outputs) > total

(* finished(): all total_interval_outputs have been made.                  *)
Finished(s, total) == Len(s.outputs) >= total

(* calculate_interval(): after the last interval only the instant moves.   *)
Calculated(s, total) ==
  [s EXCEPT !.last = s.now, !.outputs = IF Finished(s, total) THEN @ ELSE Append(@, s.count)]

(* The check at the head of both loops at time t.  The statistic starts    *)
(* again, also when calculate_interval() has kept nothing of it.           *)
Checked(s, interval, total, t) ==
  LET at == [s EXCEPT !.now = t]
  IN  IF interval > 0 /\ t >= s.last + interval
      THEN [Calculated(at, total) EXCEPT !.count = 0] ELSE at

(* Bug: no last interval after the loop.                                   *)
NoLastInterval(s, interval, total) == s

(* The sender makes its last interval after the loop, if it is missing.    *)
WithLastInterval(s, interval, total) ==
  IF interval > 0 /\ ~Finished(s, total) THEN Calculated(s, total) ELSE s

(* Statistic::add, of what is left of a statistic.                         *)
Add(count, other) == count + other

(* The final statistic is the sum of the intervals, if there are any.      *)
FinalCount(s) == IF s.outputs = <<>> THEN s.count ELSE SumFunction(s.outputs)
=============================================================================
