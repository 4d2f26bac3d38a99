------------------------- MODULE MCUringRecvBuffers -------------------------
(***************************************************************************)
(* Small rings for TLC: two entries and three buffers for provided         *)
(* buffers, two buffers for multishot so that the ring runs empty.         *)
(***************************************************************************)
EXTENDS UringRecvBuffers

Config(mode, fill, burst, buffer, sqpoll) ==
  [mode |-> mode,
   uring |-> [ring |-> 2, burst |-> burst, buffer |-> buffer, fill |-> fill, sqpoll |-> sqpoll],
   tests |-> {0}, faults |-> FALSE]

ProvidedTopup == Config("ProvidedBuffer", "Topup", 1, 3, FALSE)
OneMultishot == Config("Multishot", "Topup", 1, 2, FALSE)

EveryMode == {Config("ProvidedBuffer", f, 1, 3, s) : f \in FillMode, s \in BOOLEAN}
               \cup {Config("Multishot", "Topup", 1, 2, s) : s \in BOOLEAN}
OtherBursts == {Config("ProvidedBuffer", "Topup", 2, 3, FALSE),
                Config("ProvidedBuffer", "Syscall", 2, 3, TRUE),
                Config("ProvidedBuffer", "TopupNoWait", 0, 3, FALSE)}
\* errors and loss, a test id above 0, one that is out of range, two tests
Unusual == UNION {{[c EXCEPT !.faults = TRUE], [c EXCEPT !.tests = {1}], [c EXCEPT !.tests = {2}],
                   [c EXCEPT !.tests = {0, 1}]} : c \in {ProvidedTopup, OneMultishot}}

MCConfigs == EveryMode \cup OtherBursts \cup Unusual
=============================================================================
