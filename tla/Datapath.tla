------------------------------ MODULE Datapath ------------------------------
(***************************************************************************)
(* Senders and one receiver thread on one port, joined by the network:     *)
(* what the senders transmit is what the receiver's counters are about.    *)
(***************************************************************************)
EXTENDS DatapathParams, Integers, Sequences, FiniteSets, Functions

VARIABLES cfg, net, sent,
          nextId, sentDatagrams, spc, sndbuf, handed,
          copies, next, stats, rpc, cur, todo, amount, rbuf, seen

S == INSTANCE SenderIds
R == INSTANCE PacketAccounting

senderVars == <<nextId, sentDatagrams, spc, sndbuf, handed>>
receiverVars == <<copies, next, stats, rpc, cur, todo, amount, rbuf, seen>>
vars == <<cfg, net, sent, senderVars, receiverVars>>

Init == S!Init /\ R!Init

SenderStep == S!Next /\ UNCHANGED receiverVars
ReceiverStep == R!ReceiverStep /\ UNCHANGED senderVars
NetworkStep == R!NetworkStep /\ UNCHANGED senderVars

Next == SenderStep \/ ReceiverStep \/ NetworkStep

Spec == Init /\ [][Next]_vars
-----------------------------------------------------------------------------
TypeOK == S!TypeOK /\ R!TypeOK

(* See SenderIds: the socket gets every id in order and once.              *)
IdsExact == S!IdsExact

(* See PacketAccounting: omitted datagrams are exactly the missing ids.    *)
LossExact == R!LossExact

(* See PacketAccounting: the counters of a test balance.                   *)
LedgerBalances == R!LedgerBalances

(* See PacketAccounting: a perfect network yields no loss report.          *)
NoPhantomLoss == R!NoPhantomLoss

(* The senders are an instance of the network the receiver was specified   *)
(* with: they never put an id of a test on the network twice.              *)
FeedsReceiver == R!Spec

(* What the receiver of one test has processed, the sender has really      *)
(* handed over, whatever is lost, reordered or duplicated: also where      *)
(* recv() walks over more packets than it received (receiver.rs 75-87), it *)
(* finds ids of earlier datagrams in its buffer, or the 0 the buffer       *)
(* starts with, which no datagram came before.                             *)
SeenWasHanded == \A t \in Tests :
  Tests = {t} => seen[t] \subseteq Range(handed[t])
=============================================================================
