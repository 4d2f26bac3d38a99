------------------------------ MODULE SenderIds ------------------------------
(***************************************************************************)
(* The senders' non-uring path (node/sender.rs: send, sendmsg, sendmmsg).  *)
(* Each call stamps fresh packet ids into all its buffers, offers them to  *)
(* a nonblocking UDP socket, and takes back the ids of what the socket did *)
(* not accept.  Every sender thread has its own socket, buffers, and id    *)
(* counter; the threads share only the network.                            *)
(***************************************************************************)
EXTENDS DatapathParams, Sequences, FiniteSets

VARIABLES cfg,           \* the command line, fixed
          nextId,        \* Sender.next_packet_id
          sentDatagrams, \* Sender.statistic.amount_datagrams
          spc,           \* where Sender::run is
          sndbuf,        \* messages in the socket's send buffer, oldest first
          handed,        \* history: the packet ids the socket accepted, in order
          net,           \* datagrams on the way to the receiver
          sent           \* history: all datagrams ever put on the network

ownVars == <<nextId, sentDatagrams, spc, sndbuf, handed>>
vars == <<cfg, nextId, sentDatagrams, spc, sndbuf, handed, net, sent>>

Message == [first : Nat, len : Nat \ {0}]

(* Packets of a message that reach the socket: send() offers the first     *)
(* datagram_size bytes only, sendmsg() and sendmmsg() the whole buffer.    *)
PerMessage == IF cfg.sendFn = "normal" THEN 1 ELSE cfg.perMsg

(* add_packet_ids stamps every packet of every buffer.                     *)
Stamped == cfg.batch * cfg.perMsg

Room(t) == SndBuf - Len(sndbuf[t])

(* The messages, and their packet ids, that k stamped buffers hold.        *)
Messages(t, k) ==
  [i \in 1 .. k |-> [first |-> nextId[t] + (i - 1) * cfg.perMsg, len |-> PerMessage]]
HandedIds(t, k) == [i \in 1 .. (k * PerMessage) |-> nextId[t] + i - 1]

(* What the counters and the socket see of the k accepted messages.        *)
Accepted(t, k) ==
  /\ sentDatagrams' = [sentDatagrams EXCEPT ![t] = @ + k * cfg.perMsg]
  /\ sndbuf' = [sndbuf EXCEPT ![t] = @ \o Messages(t, k)]
  /\ handed' = [handed EXCEPT ![t] = @ \o HandedIds(t, k)]
  /\ UNCHANGED spc

(* Bug: a partial send takes back all ids.                                 *)
AcceptTakesAllBack(t, k) ==
  /\ nextId' = [nextId EXCEPT ![t] = IF k < cfg.batch THEN @ ELSE @ + Stamped]
  /\ Accepted(t, k)

(* The socket accepts the first k messages; the ids of the others are      *)
(* taken back and stamped again by the next call.                          *)
Accept(t, k) ==
  /\ nextId' = [nextId EXCEPT ![t] = @ + Stamped - (cfg.batch - k) * cfg.perMsg]
  /\ Accepted(t, k)

(* Bug: the ids of a refused call are not taken back.                      *)
WouldBlockKeepsIds(t) ==
  /\ Room(t) = 0
  /\ nextId' = [nextId EXCEPT ![t] = @ + Stamped]
  /\ spc' = [spc EXCEPT ![t] = "wait"]
  /\ UNCHANGED <<sentDatagrams, sndbuf, handed>>

(* EAGAIN: the send buffer is full.  All ids are taken back, and io_wait   *)
(* blocks until the socket is writable.                                    *)
WouldBlock(t) ==
  /\ Room(t) = 0
  /\ nextId' = [nextId EXCEPT ![t] = @ + Stamped - Stamped]
  /\ spc' = [spc EXCEPT ![t] = "wait"]
  /\ UNCHANGED <<sentDatagrams, sndbuf, handed>>

(* ECONNREFUSED, EMSGSIZE or another error ends the measurement; the ids   *)
(* stay allocated.                                                         *)
Abort(t) ==
  /\ nextId' = [nextId EXCEPT ![t] = @ + Stamped]
  /\ spc' = [spc EXCEPT ![t] = "aborted"]
  /\ UNCHANGED <<sentDatagrams, sndbuf, handed>>

Calling(t, fn) ==
  /\ spc[t] = "send"
  /\ cfg.sendFn = fn
  /\ nextId[t] + Stamped <= MaxId + 1   \* bound on the ids of a behaviour
  /\ UNCHANGED <<cfg, net, sent>>

Send(t) ==
  /\ Calling(t, "normal")
  /\ (Room(t) > 0 /\ Accept(t, 1)) \/ WouldBlock(t) \/ Abort(t)

SendMsg(t) ==
  /\ Calling(t, "msg")
  /\ (Room(t) > 0 /\ Accept(t, 1)) \/ WouldBlock(t) \/ Abort(t)

(* sendmmsg() stops at the first message the socket does not take and      *)
(* reports an error only if it took none.                                  *)
SendMmsg(t) ==
  /\ Calling(t, "mmsg")
  /\ \/ \E k \in 1 .. cfg.batch : k <= Room(t) /\ Accept(t, k)
     \/ WouldBlock(t)
     \/ Abort(t)

(* io_wait returns: select() or poll() found the socket writable, or       *)
(* failed, which ends the measurement.                                     *)
Writable(t) ==
  /\ spc[t] = "wait"
  /\ \/ Room(t) > 0 /\ spc' = [spc EXCEPT ![t] = "send"]
     \/ spc' = [spc EXCEPT ![t] = "aborted"]
  /\ UNCHANGED <<cfg, nextId, sentDatagrams, sndbuf, handed, net, sent>>

(* run_time_length is over: the measurement loop ends.                     *)
Stop(t) ==
  /\ spc[t] = "send"
  /\ spc' = [spc EXCEPT ![t] = "stopped"]
  /\ UNCHANGED <<cfg, nextId, sentDatagrams, sndbuf, handed, net, sent>>

(* The kernel takes the oldest message off the send buffer and puts it on  *)
(* the network, with GSO as one datagram per packet.                       *)
Transmit(t) ==
  /\ sndbuf[t] # <<>>
  /\ LET m == Head(sndbuf[t])
         len == PacketsPerDatagram(cfg)
         D == Segments(t, m.first, len, m.len \div len)
     IN  /\ net' = net \cup D
         /\ sent' = sent \cup D
  /\ sndbuf' = [sndbuf EXCEPT ![t] = Tail(@)]
  /\ UNCHANGED <<cfg, nextId, sentDatagrams, spc, handed>>

Init ==
  /\ cfg \in Configs
  /\ nextId = [t \in Tests |-> 0]
  /\ sentDatagrams = [t \in Tests |-> 0]
  /\ spc = [t \in Tests |-> "send"]
  /\ sndbuf = [t \in Tests |-> <<>>]
  /\ handed = [t \in Tests |-> <<>>]
  /\ net = {}
  /\ sent = {}

Next == \E t \in Tests :
  Send(t) \/ SendMsg(t) \/ SendMmsg(t) \/ Writable(t) \/ Stop(t) \/ Transmit(t)

(* The network takes datagrams away and may bring copies back.             *)
NetworkStep == net' \subseteq sent /\ UNCHANGED <<cfg, sent, ownVars>>

Spec == Init /\ [][Next \/ NetworkStep]_vars
-----------------------------------------------------------------------------
TypeOK ==
  /\ cfg \in Configs
  /\ nextId \in [Tests -> Nat]
  /\ sentDatagrams \in [Tests -> Nat]
  /\ spc \in [Tests -> {"send", "wait", "aborted", "stopped"}]
  /\ sndbuf \in [Tests -> Seq(Message)]
  /\ \A t \in Tests : Len(sndbuf[t]) <= SndBuf
  /\ handed \in [Tests -> Seq(Nat)]
  /\ net \subseteq sent

(* The socket gets the ids 0, 1, 2, ... of a test in this order and each   *)
(* once, however many calls are partial or refused with EAGAIN, and the    *)
(* reported number of datagrams is the number of ids the socket got.       *)
IdsExact == \A t \in Tests :
  /\ handed[t] = [i \in 1 .. Len(handed[t]) |-> i - 1]
  /\ sentDatagrams[t] = Len(handed[t])

(* While a sender runs, the id it stamps next follows the last accepted.   *)
NextIdFollows == \A t \in Tests : spc[t] # "aborted" => nextId[t] = Len(handed[t])
=============================================================================
