----------------------------- MODULE MCUringSend -----------------------------
(***************************************************************************)
(* Small rings for TLC: two entries and three buffers.                     *)
(***************************************************************************)
EXTENDS UringSend

Config(zerocopy, fill, burst, sqpoll) ==
  [uring |-> [ring |-> 2, burst |-> burst, buffer |-> 3, fill |-> fill, sqpoll |-> sqpoll],
   zerocopy |-> zerocopy, packets |-> 1, deferred |-> FALSE, faults |-> FALSE,
   notifyFailed |-> FALSE]

Normal == Config(FALSE, "Topup", 1, FALSE)
ZeroCopy == Config(TRUE, "Topup", 1, FALSE)

EveryMode == {Config(z, f, 1, s) : z \in BOOLEAN, f \in FillMode, s \in BOOLEAN}
OtherBursts == {Config(TRUE, "Topup", 2, FALSE), Config(TRUE, "Syscall", 2, TRUE),
                Config(FALSE, "TopupNoWait", 0, FALSE)}
\* two packets per message, requests that are put off or fail
Unusual == UNION {{[c EXCEPT !.packets = 2], [c EXCEPT !.deferred = TRUE],
                   [c EXCEPT !.faults = TRUE]} : c \in {Normal, ZeroCopy}}
Failing == {[ZeroCopy EXCEPT !.faults = TRUE, !.notifyFailed = TRUE]}

MCConfigs == EveryMode \cup OtherBursts \cup Unusual \cup Failing

\* the configuration in which a buffer is rewritten
Polled == {Config(FALSE, "Topup", 1, TRUE)}
=============================================================================
