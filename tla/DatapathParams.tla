--------------------------- MODULE DatapathParams ---------------------------
(***************************************************************************)
(* The parameters of the datapath: which tests run, how sender and         *)
(* receiver were started, and what the network may do.  A configuration is *)
(* chosen in the initial state and never changes, so that one run covers   *)
(* several command lines.                                                  *)
(***************************************************************************)
EXTENDS Naturals

CONSTANTS Tests,    \* the test ids, one sender thread each
          Configs,  \* the configurations a behaviour may start in
          MaxId,    \* bound: no sender allocates an id above MaxId
          SndBuf,   \* messages the send buffer of one socket holds
          MaxCopies \* bound: datagrams the network duplicates

ExchangeFunction == {"normal", "msg", "mmsg"}

Config == [sendFn  : ExchangeFunction,
           batch   : Nat \ {0},  \* mmsghdr_vec.len() of the sender
           perMsg  : Nat \ {0},  \* packets_amount_per_msghdr = ceil(mss/datagram_size)
           gso     : BOOLEAN,    \* the kernel cuts a message into its packets
           recvFn  : ExchangeFunction,
           take    : Nat \ {0},  \* datagrams one receive call can return
           slots   : Nat \ {0},  \* packets that fit the buffer recv() reads into
           inOrder : BOOLEAN,    \* the network keeps the order of each test
           loss    : BOOLEAN,    \* the network may lose datagrams
           dup     : BOOLEAN]    \* the network may duplicate datagrams

ASSUME ConfigsAssumption ==
  /\ Configs \subseteq Config
  /\ \A c \in Configs : c.sendFn # "mmsg" => c.batch = 1

ASSUME BoundsAssumption ==
  MaxId \in Nat /\ SndBuf \in Nat \ {0} /\ MaxCopies \in Nat

(* Packets in one UDP datagram.  send() passes datagram_size bytes only;   *)
(* without GSO a message of several packets is one UDP datagram.           *)
PacketsPerDatagram(c) == IF c.sendFn = "normal" \/ c.gso THEN 1 ELSE c.perMsg

Datagram == [test : Tests, first : Nat, len : Nat \ {0}]

PacketIds(d) == d.first .. (d.first + d.len - 1)

(* The n datagrams of len packets each that carry the ids from first on.   *)
Segments(t, first, len, n) ==
  {[test |-> t, first |-> first + i * len, len |-> len] : i \in 0 .. (n - 1)}
=============================================================================
