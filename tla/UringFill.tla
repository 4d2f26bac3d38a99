------------------------------ MODULE UringFill ------------------------------
(***************************************************************************)
(* How many requests the io_uring loops submit per round, and for how many *)
(* completions they wait (io_uring/mod.rs: calc_sq_fill_mode), over the    *)
(* parameters that parameter_check lets through.                           *)
(***************************************************************************)
EXTENDS Naturals

FillMode == {"Topup", "TopupNoWait", "Syscall"}

(* A ring of `ring' entries, Mult times as many buffers (4 in the code),   *)
(* and a burst no larger than the ring.                                    *)
UringParameter ==
  {p \in [ring : Nat \ {0}, burst : Nat, buffer : Nat, fill : FillMode, sqpoll : BOOLEAN] :
     p.burst <= p.ring /\ p.ring <= p.buffer}

(* URING_BURST_SIZE_DIVIDEND                                               *)
DefaultBurst(p) == p.ring \div 4

NoBuffers(inflight, p) == inflight > p.buffer - p.burst

(* Bug: the ring is topped up without a look at the buffers left.          *)
ToSubmitRingOnly(inflight, sqLen, p) ==
  IF NoBuffers(inflight, p) THEN 0
  ELSE IF p.fill # "Syscall" THEN p.ring - sqLen
       ELSE IF inflight = 0 THEN p.burst ELSE 0

(* Requests to submit when sqLen entries of the ring are in use.           *)
ToSubmit(inflight, sqLen, p) ==
  IF NoBuffers(inflight, p) THEN 0
  ELSE IF p.fill = "Syscall"
         THEN IF inflight = 0 THEN p.burst ELSE 0
         ELSE IF p.buffer - inflight < p.ring - sqLen
                THEN p.buffer - inflight
                ELSE p.ring - sqLen

(* Completions to wait for.                                                *)
MinComplete(inflight, cqEmpty, p) ==
  IF NoBuffers(inflight, p)
    THEN IF ~cqEmpty THEN 0
         ELSE IF p.burst = 0 THEN DefaultBurst(p) ELSE p.burst
    ELSE IF p.sqpoll \/ p.fill = "TopupNoWait" THEN 0 ELSE p.burst

(* fill_sq_and_submit returns without io_uring_enter.                      *)
SkipEnter(inflight, sqLen, cqEmpty, p) ==
  ToSubmit(inflight, sqLen, p) = 0 /\ MinComplete(inflight, cqEmpty, p) = 0
=============================================================================
