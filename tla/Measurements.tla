---------------------------- MODULE Measurements ----------------------------
(***************************************************************************)
(* The receiver's list of measurements, one per test id: how a message of  *)
(* each type changes it (parse_message_type), and when the receiver takes  *)
(* the session for finished (all_measurements_finished).  Test ids start   *)
(* at 0, so test t is element t + 1.                                       *)
(***************************************************************************)
EXTENDS Naturals, Sequences

CONSTANT MaxTestId
ASSUME MaxTestIdAssumption == MaxTestId \in Nat \ {0}

Message == [type : {"INIT", "MEASUREMENT", "LAST"}, test : Nat]

Measurement == [first : BOOLEAN, last : BOOLEAN]
NewMeasurement == [first |-> FALSE, last |-> FALSE]

(* Bug: resize(test_id) leaves no room for the test itself.                *)
ResizedShort(ms, t) ==
  [i \in 1 .. (IF Len(ms) <= t THEN t ELSE Len(ms)) |->
     IF i <= Len(ms) THEN ms[i] ELSE NewMeasurement]

(* measurements.resize(test_id + 1): older tests keep their entries, every *)
(* id in between gets an empty one.                                        *)
Resized(ms, t) ==
  [i \in 1 .. (IF Len(ms) <= t THEN t + 1 ELSE Len(ms)) |->
     IF i <= Len(ms) THEN ms[i] ELSE NewMeasurement]

(* What parse_message_type returns, "panic" being its failing expect().    *)
ParseResult(ms, m) ==
  IF m.test >= MaxTestId THEN "ERROR"
  ELSE CASE m.type = "INIT" -> "INIT"
         [] m.type = "MEASUREMENT" -> "OK"
         [] m.type = "LAST" -> IF m.test < Len(ms) THEN "LAST" ELSE "panic"

(* The list after a message.                                               *)
Parsed(ms, m) ==
  CASE ParseResult(ms, m) \in {"ERROR", "panic"} -> ms
    [] ParseResult(ms, m) = "INIT" -> Resized(ms, m.test)
    [] ParseResult(ms, m) = "OK" -> [Resized(ms, m.test) EXCEPT ![m.test + 1].first = TRUE]
    [] ParseResult(ms, m) = "LAST" -> [ms EXCEPT ![m.test + 1].last = TRUE]

(* Bug: the entries that resizing put in for other test ids are waited for. *)
AllEnded(ms) == \A i \in DOMAIN ms : ms[i].last

(* Bug: the first test that ends finishes the session.                     *)
AnyFinished(ms) == \E i \in DOMAIN ms : ms[i].last

(* A test that never sent a packet does not keep the receiver waiting.     *)
AllFinished(ms) == \A i \in DOMAIN ms : ms[i].first => ms[i].last
=============================================================================
