----------------------------- MODULE MCDatapath -----------------------------
(***************************************************************************)
(* Instances of the datapath for TLC.  A configuration is a combination of *)
(* command line options of sender and receiver and of a network.           *)
(***************************************************************************)
EXTENDS Datapath

Plain == [sendFn |-> "msg", batch |-> 1, perMsg |-> 1, gso |-> FALSE,
          recvFn |-> "msg", take |-> 1, slots |-> 1,
          inOrder |-> FALSE, loss |-> TRUE, dup |-> FALSE]

\* sendmsg() with GSO to recvmsg() with GRO
Offload == [Plain EXCEPT !.perMsg = 2, !.gso = TRUE, !.take = 2]
\* sendmmsg() with GSO, two messages a call, to recvmmsg() with two
Mmsg == [Plain EXCEPT !.sendFn = "mmsg", !.batch = 2, !.perMsg = 2, !.gso = TRUE,
                      !.recvFn = "mmsg", !.take = 2]
\* send() to recv()
SendRecv == [Plain EXCEPT !.sendFn = "normal", !.recvFn = "normal"]
\* recv() into a buffer with room for more than it gets; the packets of a packed
\* datagram are found by recv() alone
Roomy == [SendRecv EXCEPT !.slots = 2]
RoomyPacked == [Plain EXCEPT !.perMsg = 2, !.recvFn = "normal", !.slots = 3]
\* a perfect network, and one that also duplicates
Perfect == [Mmsg EXCEPT !.inOrder = TRUE, !.loss = FALSE]
Copying == [Offload EXCEPT !.dup = TRUE]

LosslessConfigs == {[Plain EXCEPT !.inOrder = TRUE, !.loss = FALSE]}
AllConfigs == {Offload, Mmsg, SendRecv, Roomy, RoomyPacked, Perfect, Copying}
\* several packets in one UDP datagram (--with-mss above --datagram-size)
PackedConfigs == {[Plain EXCEPT !.perMsg = 2, !.inOrder = TRUE, !.loss = FALSE]}
=============================================================================
