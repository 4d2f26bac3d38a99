----------------------------- MODULE UringQueues -----------------------------
(***************************************************************************)
(* Words for what the properties of the io_uring loops say about queues:   *)
(* which completions are still to be read, and in what order their         *)
(* messages must be.                                                       *)
(***************************************************************************)
EXTENDS Naturals, Sequences

ToSet(s) == {s[i] : i \in DOMAIN s}

(* Where behind position p of the queue q completions with a result in R   *)
(* are.                                                                    *)
Places(q, p, R) == {i \in p + 1 .. Len(q) : q[i].res \in R}

(* What was handled is the beginning of what was taken, and the rest of it *)
(* is, in this order, what the completions at the places U stand for.      *)
InOrder(U, message, taken, handled) ==
  /\ Len(handled) <= Len(taken)
  /\ \A k \in 1 .. Len(handled) : taken[k] = handled[k]
  /\ \E nth \in [U -> Len(handled) + 1 .. Len(taken)] :
       /\ \A i, j \in U : i < j => nth[i] < nth[j]
       /\ \A k \in Len(handled) + 1 .. Len(taken) : \E i \in U : nth[i] = k
       /\ \A i \in U : message[i] = taken[nth[i]]
=============================================================================
