-------------------------- MODULE PacketAccounting --------------------------
(***************************************************************************)
(* One receiver thread's datapath (node/receiver.rs: recv, recvmsg,        *)
(* recvmmsg; process_packet_number and its callers in util): what a call    *)
(* returns, the loop over its packets, and the counters of the tests.  The *)
(* network is any network: it loses, reorders and duplicates as cfg says.  *)
(***************************************************************************)
EXTENDS DatapathParams, Integers, Sequences, FiniteSets, Functions

VARIABLES cfg,    \* the command line, fixed
          net,    \* datagrams on the way to this receiver, or in its socket
          sent,   \* history: all datagrams ever put on the network
          copies, \* number of datagrams the network has duplicated
          next,   \* Receiver.next_packet_id, one for all tests
          stats,  \* measurements[test].statistic
          rpc,    \* "recv" between receive calls, "packets" inside the loop
          cur,    \* the test the current call is accounted to
          todo,   \* packet ids of the current call still to be processed
          amount, \* packets counted so far in the current call
          rbuf,   \* packet ids in the buffer recv() reads into
          seen    \* history: seen[t], packet ids processed for test t

vars == <<cfg, net, sent, copies, next, stats, rpc, cur, todo, amount, rbuf, seen>>
callVars == <<next, stats, rpc, cur, todo, amount, rbuf, seen>>

Statistic == [omitted : Int, reordered : Nat, duplicated : Nat, datagrams : Nat]
NoStatistic == [omitted |-> 0, reordered |-> 0, duplicated |-> 0, datagrams |-> 0]

Normal == cfg.recvFn = "normal"
-----------------------------------------------------------------------------
(* Bug: the packet itself is not counted.                                  *)
AdvanceByGap(id, expected) == IF id >= expected THEN id - expected ELSE 0

(* Bug: a late packet moves the expected id back.                          *)
AdvanceSigned(id, expected) == id - expected + 1

(* process_packet_number: by how much the expected id advances ...         *)
Advance(id, expected) == IF id >= expected THEN id - expected + 1 ELSE 0

(* Bug: the packet that closes a gap leaves it counted as omitted.         *)
AccountKeepsOmitted(s, id, expected) ==
  IF id >= expected
    THEN [s EXCEPT !.omitted = @ + (id - expected)]
    ELSE IF s.omitted > 0
           THEN [s EXCEPT !.reordered = @ + 1]
           ELSE [s EXCEPT !.duplicated = @ + 1]

(* Bug: the gap includes the packet itself.                                *)
AccountGapTooLarge(s, id, expected) ==
  IF id >= expected
    THEN [s EXCEPT !.omitted = @ + (id - expected) + 1]
    ELSE IF s.omitted > 0
           THEN [s EXCEPT !.omitted = @ - 1, !.reordered = @ + 1]
           ELSE [s EXCEPT !.duplicated = @ + 1]

(* ... and what it does to the counters of the test.                       *)
Account(s, id, expected) ==
  IF id >= expected
    THEN [s EXCEPT !.omitted = @ + (id - expected)]
    ELSE IF s.omitted > 0
           THEN [s EXCEPT !.omitted = @ - 1, !.reordered = @ + 1]
           ELSE [s EXCEPT !.duplicated = @ + 1]
-----------------------------------------------------------------------------
(* What one receive call can return: different datagrams in the order they *)
(* arrived.  GRO joins datagrams of one flow only, that is of one test;    *)
(* recvmmsg() fills one message after the other from any flow.             *)
Batches ==
  {s \in UNION {[1 .. n -> net] : n \in 1 .. cfg.take} :
     /\ IsInjective(s)
     /\ cfg.recvFn # "mmsg" => \A i \in DOMAIN s : s[i].test = s[1].test
     /\ cfg.inOrder => \A i \in DOMAIN s, d \in net :
          d.test = s[i].test /\ d.first < s[i].first => \E j \in 1 .. (i - 1) : s[j] = d}

(* Bug: the rest of the buffer is taken for the packets that follow.       *)
OverwriteAll(s) ==
  LET len == PacketsPerDatagram(cfg)
      last == s[Len(s)].first + len - 1
  IN  [i \in 1 .. cfg.slots |-> last + i - Len(s) * len]

(* recv() writes the packets it got over the front of its buffer and       *)
(* leaves the rest as it was.                                              *)
Overwrite(s) ==
  LET len == PacketsPerDatagram(cfg)
      id(i) == s[((i - 1) \div len) + 1].first + ((i - 1) % len)
  IN  [i \in 1 .. cfg.slots |-> IF i <= Len(s) * len THEN id(i) ELSE rbuf[i]]

(* A receive call returns.  recv() then walks over its whole buffer in     *)
(* steps of datagram_size; the other two over the received bytes in steps  *)
(* of the GRO segment size, reading the id at the front of each.  The test *)
(* is taken from the first message only.                                   *)
Receive ==
  /\ rpc = "recv"
  /\ \E s \in Batches :
       /\ Normal => Len(s) * PacketsPerDatagram(cfg) <= cfg.slots
       /\ net' = net \ Range(s)
       /\ cur' = s[1].test
       /\ rbuf' = IF Normal THEN Overwrite(s) ELSE rbuf
       /\ todo' = IF Normal THEN Overwrite(s) ELSE [i \in 1 .. Len(s) |-> s[i].first]
  /\ amount' = 0
  /\ rpc' = "packets"
  /\ UNCHANGED <<cfg, sent, copies, next, stats, seen>>

(* One round of the loop in process_packet_msghdr, which advances the      *)
(* expected id, or of the one in process_packet_buffer, which does not.    *)
ProcessPacket ==
  /\ rpc = "packets"
  /\ todo # <<>>
  /\ LET id == Head(todo)
     IN  /\ stats' = [stats EXCEPT ![cur] = Account(@, id, next)]
         /\ next' = IF Normal THEN next ELSE next + Advance(id, next)
         /\ amount' = amount + (IF Normal THEN Advance(id, next) ELSE 1)
         /\ seen' = [seen EXCEPT ![cur] = @ \cup {id}]
  /\ todo' = Tail(todo)
  /\ UNCHANGED <<cfg, net, sent, copies, rpc, cur, rbuf>>

(* The end of recv(), recvmsg() and recvmmsg().                            *)
FinishCall ==
  /\ rpc = "packets"
  /\ todo = <<>>
  /\ stats' = [stats EXCEPT ![cur].datagrams = @ + amount]
  /\ next' = IF Normal THEN next + amount ELSE next
  /\ amount' = 0
  /\ rpc' = "recv"
  /\ UNCHANGED <<cfg, net, sent, copies, cur, todo, rbuf, seen>>
-----------------------------------------------------------------------------
(* The senders put datagrams with new packet ids on the network.           *)
Emit ==
  /\ \E t \in Tests, first \in 0 .. MaxId, n \in 1 .. (MaxId + 1) :
       LET D == Segments(t, first, PacketsPerDatagram(cfg), n)
       IN  /\ \A d \in D, e \in sent :
                e.test = t => PacketIds(d) \cap PacketIds(e) = {}
           /\ net' = net \cup D
           /\ sent' = sent \cup D
  /\ UNCHANGED <<cfg, copies, callVars>>

(* A full receive buffer, or the network, drops a datagram.                *)
Lose ==
  /\ cfg.loss
  /\ \E d \in net : net' = net \ {d}
  /\ UNCHANGED <<cfg, sent, copies, callVars>>

Duplicate ==
  /\ cfg.dup
  /\ copies < MaxCopies
  /\ \E d \in sent \ net : net' = net \cup {d}
  /\ copies' = copies + 1
  /\ UNCHANGED <<cfg, sent, callVars>>

ReceiverStep == Receive \/ ProcessPacket \/ FinishCall
NetworkStep == Lose \/ Duplicate

Init ==
  /\ cfg \in Configs
  /\ net = {}
  /\ sent = {}
  /\ copies = 0
  /\ next = 0
  /\ stats = [t \in Tests |-> NoStatistic]
  /\ rpc = "recv"
  /\ cur \in Tests
  /\ todo = <<>>
  /\ amount = 0
  /\ rbuf = [i \in 1 .. cfg.slots |-> 0]
  /\ seen = [t \in Tests |-> {}]

Next == ReceiverStep \/ NetworkStep \/ Emit

Spec == Init /\ [][Next]_vars
-----------------------------------------------------------------------------
TypeOK ==
  /\ cfg \in Configs
  /\ sent \subseteq Datagram
  /\ net \subseteq sent
  /\ copies \in Nat
  /\ next \in Nat
  /\ stats \in [Tests -> Statistic]
  /\ rpc \in {"recv", "packets"}
  /\ cur \in Tests
  /\ todo \in Seq(Nat)
  /\ amount \in Nat
  /\ rbuf \in [1 .. cfg.slots -> Nat]
  /\ seen \in [Tests -> SUBSET Nat]

(* The id the next packet is expected to have, also inside recv(), which   *)
(* adds what it counted only at its end.                                   *)
Expected == next + (IF Normal THEN amount ELSE 0)

(* The ids below an expected one that are not among the ones received.     *)
Missing(expected, received) == {i \in 0 .. (expected - 1) : i \notin received}

(* The command lines the counters are made for: a receive call looks at    *)
(* every packet it got, and at nothing else.                               *)
EveryPacketRead(c) ==
  /\ PacketsPerDatagram(c) = 1
  /\ c.recvFn = "normal" => c.slots = 1

(* For one test, and a network that does not duplicate: the omitted        *)
(* datagrams are exactly the ids below the highest one received that have  *)
(* not arrived (yet), and nothing is taken for a duplicate.                *)
LossExact == \A t \in Tests :
  EveryPacketRead(cfg) /\ ~cfg.dup /\ Tests = {t} =>
    /\ stats[t].omitted = Cardinality(Missing(Expected, seen[t]))
    /\ stats[t].duplicated = 0

(* The counters of a test balance: every id below the expected one was     *)
(* received or is omitted, and what was received beyond that is duplicate. *)
(* This also holds when the network duplicates, reorders and loses.        *)
LedgerBalances == \A t \in Tests :
  ~Normal /\ Tests = {t} =>
    next + stats[t].duplicated
      = stats[t].datagrams + amount + stats[t].omitted

(* A network that keeps order and loses and duplicates nothing gives a     *)
(* receiver no reason to report an omitted, reordered or duplicated one.   *)
NoPhantomLoss == \A t \in Tests :
  cfg.inOrder /\ ~cfg.loss /\ ~cfg.dup =>
    stats[t].omitted = 0 /\ stats[t].reordered = 0 /\ stats[t].duplicated = 0
=============================================================================
