------------------------------ MODULE MCSession ------------------------------
(***************************************************************************)
(* Sessions of up to three threads a side, in ticks of 200 ms.             *)
(***************************************************************************)
EXTENDS Session

Single == [senders |-> 1, receivers |-> 1, port |-> "individual", busy |-> FALSE,
           take |-> 1, skew |-> 0, loss |-> FALSE]

Pair == [Single EXCEPT !.senders = 2, !.receivers = 2, !.skew = 1]
Sharded == [Pair EXCEPT !.port = "sharding", !.skew = 3]
(* A third receiver, so that closing one socket can move a flow.           *)
ThreeShards == [Sharded EXCEPT !.receivers = 3]
OneReceiver == [Sharded EXCEPT !.receivers = 1]
Shared == [Pair EXCEPT !.port = "sharing", !.senders = 1, !.skew = 0]
(* The socket may be closed under the sender that sends LAST second.       *)
SharedByTwo == [Pair EXCEPT !.port = "sharing"]

MCConfigs ==
  {Pair, Sharded, ThreeShards, OneReceiver,
   Shared, SharedByTwo, [SharedByTwo EXCEPT !.senders = 3], [SharedByTwo EXCEPT !.take = 2],
   [Pair EXCEPT !.busy = TRUE], [Pair EXCEPT !.loss = TRUE], [Sharded EXCEPT !.take = 2],
   [OneReceiver EXCEPT !.loss = TRUE], [OneReceiver EXCEPT !.take = 2]}
SharedConfigs == {Shared}
BusyConfigs == {[Shared EXCEPT !.busy = TRUE]}
=============================================================================
