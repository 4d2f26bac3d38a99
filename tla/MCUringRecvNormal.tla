-------------------------- MODULE MCUringRecvNormal --------------------------
(***************************************************************************)
(* Small rings for TLC: two entries and three buffers (the code has four   *)
(* buffers per entry; fewer make an exhausted pool more likely).           *)
(***************************************************************************)
EXTENDS UringRecvNormal

Config(fill, burst, sqpoll) ==
  [uring |-> [ring |-> 2, burst |-> burst, buffer |-> 3, fill |-> fill, sqpoll |-> sqpoll],
   tests |-> {0}, faults |-> FALSE]

Topup == Config("Topup", 1, FALSE)

EveryMode == {Config(f, 1, s) : f \in FillMode, s \in BOOLEAN}
OtherBursts == {Config("Topup", 2, FALSE), Config("Syscall", 2, TRUE),
                Config("TopupNoWait", 0, FALSE), Config("Syscall", 0, FALSE)}
\* errors and loss, a test id above 0, and one that is out of range
Unusual == {[Topup EXCEPT !.faults = TRUE],
            [Topup EXCEPT !.tests = {1}], [Topup EXCEPT !.tests = {2}]}
TwoTests == {[Topup EXCEPT !.tests = {0, 1}]}

MCConfigs == EveryMode \cup OtherBursts \cup Unusual \cup TwoTests
=============================================================================
