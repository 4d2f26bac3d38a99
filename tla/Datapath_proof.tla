---------------------------- MODULE Datapath_proof ----------------------------
(***************************************************************************)
(* Proofs about senders and receiver together, put together from the ones  *)
(* about each of them.  The receiver's counters were proved right for any  *)
(* network on which a packet id of a test appears in one datagram only;    *)
(* here the real senders are shown to be such a network, so that the loss  *)
(* report is right about what the program really sends.  All theorems      *)
(* assume command lines under which a message reaches the socket with all  *)
(* its packets (Packable).                                                 *)
(***************************************************************************)
EXTENDS Datapath, SequenceTheorems, WellFoundedInduction, TLAPS

RP == INSTANCE PacketAccounting_proof

(* send() offers the socket one packet only, so it may not be combined     *)
(* with messages of several packets (--with-mss above --datagram-size).    *)
Packable(c) == c.sendFn = "normal" => c.perMsg = 1

(* The inductive invariant: the history is 0, 1, 2, ..., the counter of    *)
(* the statistic is its length, and so is the next id of a live sender.    *)
IdsInv == S!TypeOK /\ S!IdsExact /\ S!NextIdFollows

(* What the socket refused is taken back exactly.                          *)
LEMMA TakenBack ==
  ASSUME NEW b \in Nat, NEW p \in Nat, NEW n \in Nat, NEW k \in 0 .. b
  PROVE  n + b * p - (b - k) * p = n + k * p
<1>1. (b - k) * p = b * p - k * p  OBVIOUS
<1>2. b * p \in Nat /\ k * p \in Nat  OBVIOUS
<1> QED BY <1>1, <1>2

LEMMA ProductNat ==
  ASSUME NEW a \in Nat, NEW b \in Nat
  PROVE  a * b \in Nat
OBVIOUS

(* Appending the next n ids to 0, 1, 2, ... gives such a sequence again.   *)
LEMMA ExtendIds ==
  ASSUME NEW s \in Seq(Nat), s = [i \in 1 .. Len(s) |-> i - 1],
         NEW n \in Nat,
         NEW u, u = s \o [i \in 1 .. n |-> Len(s) + i - 1]
  PROVE  /\ u \in Seq(Nat)
         /\ Len(u) = Len(s) + n
         /\ u = [i \in 1 .. Len(u) |-> i - 1]
<1> DEFINE e == [i \in 1 .. n |-> Len(s) + i - 1]
<1>1. Len(s) \in Nat  BY LenProperties
<1>2. e \in Seq(Nat) /\ Len(e) = n
  <2>1. \A i \in 1 .. n : Len(s) + i - 1 \in Nat  BY <1>1
  <2>2. e \in [1 .. n -> Nat]  BY <2>1
  <2> QED BY <2>2
<1>3. u \in Seq(Nat) /\ Len(u) = Len(s) + n  BY <1>2
<1>4. \A i \in 1 .. Len(u) : u[i] = i - 1
  <2> TAKE i \in 1 .. Len(u)
  <2>1. CASE i \in 1 .. Len(s)  BY <2>1, <1>2
  <2>2. CASE i \notin 1 .. Len(s)
    <3>1. i - Len(s) \in 1 .. n  BY <2>2, <1>1, <1>3
    <3>2. u[i] = e[i - Len(s)]  BY <2>2, <1>1, <1>2, <1>3, <3>1
    <3> QED BY <3>1, <3>2, <1>1
  <2> QED BY <2>1, <2>2
<1>5. u = [i \in 1 .. Len(u) |-> u[i]]  BY <1>3
<1> QED BY <1>3, <1>4, <1>5

(* The part of the invariant about the sender that made the step.          *)
LEMMA AcceptKeepsIds ==
  ASSUME IdsInv, Packable(cfg), NEW t \in Tests,
         NEW k \in 1 .. cfg.batch, k <= S!Room(t), S!Accept(t, k), spc[t] = "send",
         UNCHANGED <<cfg, net, sent>>
  PROVE  IdsInv'
<1> USE ConfigsAssumption DEF IdsInv, S!TypeOK, S!IdsExact, S!NextIdFollows
<1>1. cfg \in Config  OBVIOUS
<1>2. cfg.batch \in Nat /\ cfg.perMsg \in Nat \ {0}  BY <1>1 DEF Config
<1>3. S!PerMessage = cfg.perMsg  BY <1>2 DEF S!PerMessage, Packable
<1>4. k \in 0 .. cfg.batch  BY <1>2
<1>5. nextId[t] \in Nat /\ nextId[t] = Len(handed[t]) /\ handed[t] \in Seq(Nat)
  OBVIOUS
<1> DEFINE n == k * cfg.perMsg
<1>6. n \in Nat  BY <1>2, <1>4
<1>7. nextId' = [nextId EXCEPT ![t] = nextId[t] + n]
  <2>1. nextId[t] + cfg.batch * cfg.perMsg - (cfg.batch - k) * cfg.perMsg
          = nextId[t] + k * cfg.perMsg
    BY <1>2, <1>4, <1>5, TakenBack
  <2> QED BY <2>1 DEF S!Accept, S!Accepted, S!Stamped
<1>8. handed'[t] = handed[t] \o [i \in 1 .. n |-> Len(handed[t]) + i - 1]
  BY <1>3, <1>5 DEF S!Accept, S!Accepted, S!HandedIds
<1>9. /\ handed'[t] \in Seq(Nat)
      /\ Len(handed'[t]) = Len(handed[t]) + n
      /\ handed'[t] = [i \in 1 .. Len(handed'[t]) |-> i - 1]
  <2>1. handed[t] = [i \in 1 .. Len(handed[t]) |-> i - 1]  OBVIOUS
  <2> HIDE DEF n, IdsInv, S!TypeOK, S!IdsExact, S!NextIdFollows
  <2> QED BY <1>5, <1>6, <1>8, <2>1, ExtendIds
<1>10. /\ sndbuf' \in [Tests -> Seq(S!Message)]
       /\ \A u \in Tests : Len(sndbuf'[u]) <= SndBuf
  <2> DEFINE m == S!Messages(t, k)
  <2>1. \A i \in 1 .. k : (i - 1) * cfg.perMsg \in Nat
    <3> TAKE i \in 1 .. k
    <3>1. i - 1 \in Nat  OBVIOUS
    <3> QED BY <3>1, <1>2, ProductNat
  <2>2. m \in [1 .. k -> S!Message]
    BY <1>2, <1>3, <1>5, <2>1 DEF S!Messages, S!Message
  <2>3. m \in Seq(S!Message) /\ Len(m) = k  BY <2>2 DEF S!Messages
  <2>4. sndbuf' = [sndbuf EXCEPT ![t] = sndbuf[t] \o m]  BY DEF S!Accept, S!Accepted
  <2>5. sndbuf[t] \o m \in Seq(S!Message) /\ Len(sndbuf[t] \o m) = Len(sndbuf[t]) + k
    <3>1. sndbuf[t] \in Seq(S!Message)  OBVIOUS
    <3> HIDE DEF m, IdsInv, S!TypeOK, S!IdsExact, S!NextIdFollows
    <3> QED BY <2>3, <3>1, ConcatProperties
  <2>6. Len(sndbuf[t]) + k <= SndBuf  BY BoundsAssumption DEF S!Room
  <2> QED BY <2>4, <2>5, <2>6
<1>11. S!TypeOK'
  <2>1. handed' \in [Tests -> Seq(Nat)]  BY <1>9 DEF S!Accept, S!Accepted
  <2>2. nextId' \in [Tests -> Nat]  BY <1>5, <1>6, <1>7
  <2>3. sentDatagrams' \in [Tests -> Nat]  BY <1>6 DEF S!Accept, S!Accepted
  <2> QED BY <1>10, <2>1, <2>2, <2>3 DEF S!Accept, S!Accepted
<1>12. S!IdsExact'
  <2> SUFFICES ASSUME NEW u \in Tests
               PROVE  /\ handed'[u] = [i \in 1 .. Len(handed'[u]) |-> i - 1]
                      /\ sentDatagrams'[u] = Len(handed'[u])
    OBVIOUS
  <2>1. CASE u = t  BY <2>1, <1>6, <1>9 DEF S!Accept, S!Accepted
  <2>2. CASE u # t  BY <2>2 DEF S!Accept, S!Accepted
  <2> QED BY <2>1, <2>2
<1>13. S!NextIdFollows'
  <2> SUFFICES ASSUME NEW u \in Tests, spc[u] # "aborted"
               PROVE  nextId'[u] = Len(handed'[u])
    BY DEF S!Accept, S!Accepted
  <2>1. CASE u = t  BY <2>1, <1>5, <1>7, <1>9
  <2>2. CASE u # t  BY <2>2, <1>7 DEF S!Accept, S!Accepted
  <2> QED BY <2>1, <2>2
<1> QED BY <1>11, <1>12, <1>13

LEMMA WouldBlockKeepsIds ==
  ASSUME IdsInv, NEW t \in Tests, S!WouldBlock(t), spc[t] = "send",
         UNCHANGED <<cfg, net, sent>>
  PROVE  IdsInv'
<1>1. cfg.batch \in Nat /\ cfg.perMsg \in Nat
  BY ConfigsAssumption DEF IdsInv, S!TypeOK, Config
<1>2. S!Stamped \in Nat  BY <1>1 DEF S!Stamped
<1>3. nextId' = nextId  BY <1>2 DEF S!WouldBlock, IdsInv, S!TypeOK
<1>4. S!TypeOK'  BY <1>3 DEF S!WouldBlock, IdsInv, S!TypeOK
<1>5. S!IdsExact'  BY DEF S!WouldBlock, IdsInv, S!IdsExact
<1>6. S!NextIdFollows'
  BY <1>3 DEF S!WouldBlock, IdsInv, S!TypeOK, S!NextIdFollows
<1> QED BY <1>4, <1>5, <1>6 DEF IdsInv

LEMMA AbortKeepsIds ==
  ASSUME IdsInv, NEW t \in Tests, S!Abort(t), UNCHANGED <<cfg, net, sent>>
  PROVE  IdsInv'
<1>1. cfg.batch \in Nat /\ cfg.perMsg \in Nat
  BY ConfigsAssumption DEF IdsInv, S!TypeOK, Config
<1>2. S!Stamped \in Nat  BY <1>1 DEF S!Stamped
<1> QED BY <1>2 DEF S!Abort, IdsInv, S!TypeOK, S!IdsExact, S!NextIdFollows

LEMMA TransmitKeepsIds ==
  ASSUME IdsInv, NEW t \in Tests, S!Transmit(t)
  PROVE  IdsInv'
<1>1. Tail(sndbuf[t]) \in Seq(S!Message) /\ Len(Tail(sndbuf[t])) <= SndBuf
  BY BoundsAssumption DEF S!Transmit, IdsInv, S!TypeOK
<1> QED BY <1>1 DEF S!Transmit, IdsInv, S!TypeOK, S!IdsExact, S!NextIdFollows

LEMMA InitIds == S!Init => IdsInv
BY ConfigsAssumption, BoundsAssumption DEF S!Init, IdsInv, S!TypeOK, S!IdsExact, S!NextIdFollows

LEMMA StepIds ==
  ASSUME IdsInv, Packable(cfg), [S!Next \/ S!NetworkStep]_S!vars
  PROVE  IdsInv'
<1> USE ConfigsAssumption DEF S!Calling
<1>1. ASSUME NEW t \in Tests, S!Send(t)  PROVE IdsInv'
  <2>1. cfg.batch = 1  BY <1>1 DEF S!Send, IdsInv, S!TypeOK
  <2>2. CASE S!Room(t) > 0 /\ S!Accept(t, 1)
    <3>1. S!Room(t) \in Int  BY BoundsAssumption DEF S!Room, IdsInv, S!TypeOK
    <3>2. 1 \in 1 .. cfg.batch /\ 1 <= S!Room(t)  BY <2>1, <2>2, <3>1
    <3> QED BY <1>1, <2>2, <3>2, AcceptKeepsIds DEF S!Send
  <2> QED BY <1>1, <2>2, WouldBlockKeepsIds, AbortKeepsIds DEF S!Send
<1>2. ASSUME NEW t \in Tests, S!SendMsg(t)  PROVE IdsInv'
  <2>1. cfg.batch = 1  BY <1>2 DEF S!SendMsg, IdsInv, S!TypeOK
  <2>2. CASE S!Room(t) > 0 /\ S!Accept(t, 1)
    <3>1. S!Room(t) \in Int  BY BoundsAssumption DEF S!Room, IdsInv, S!TypeOK
    <3>2. 1 \in 1 .. cfg.batch /\ 1 <= S!Room(t)  BY <2>1, <2>2, <3>1
    <3> QED BY <1>2, <2>2, <3>2, AcceptKeepsIds DEF S!SendMsg
  <2> QED BY <1>2, <2>2, WouldBlockKeepsIds, AbortKeepsIds DEF S!SendMsg
<1>3. ASSUME NEW t \in Tests, S!SendMmsg(t)  PROVE IdsInv'
  BY <1>3, AcceptKeepsIds, WouldBlockKeepsIds, AbortKeepsIds DEF S!SendMmsg
<1>4. ASSUME NEW t \in Tests, S!Writable(t)  PROVE IdsInv'
  BY <1>4 DEF S!Writable, IdsInv, S!TypeOK, S!IdsExact, S!NextIdFollows
<1>5. ASSUME NEW t \in Tests, S!Stop(t)  PROVE IdsInv'
  BY <1>5 DEF S!Stop, IdsInv, S!TypeOK, S!IdsExact, S!NextIdFollows
<1>6. ASSUME NEW t \in Tests, S!Transmit(t)  PROVE IdsInv'
  BY <1>6, TransmitKeepsIds
<1>7. CASE S!NetworkStep
  BY <1>7 DEF S!NetworkStep, S!ownVars, IdsInv, S!TypeOK, S!IdsExact, S!NextIdFollows
<1>8. CASE UNCHANGED S!vars
  BY <1>8 DEF S!vars, IdsInv, S!TypeOK, S!IdsExact, S!NextIdFollows
<1> QED BY <1>1, <1>2, <1>3, <1>4, <1>5, <1>6, <1>7, <1>8 DEF S!Next

(* For every number of senders and every packable command line: the socket *)
(* gets the ids 0, 1, 2, ... in order and once, whatever it refuses.       *)
THEOREM SenderIdsExact ==
  ASSUME \A c \in Configs : Packable(c)
  PROVE  S!Spec => [](S!TypeOK /\ S!IdsExact /\ S!NextIdFollows)
<1>1. S!Init => IdsInv  BY InitIds
<1>2. IdsInv /\ [S!Next \/ S!NetworkStep]_S!vars => IdsInv'
  BY StepIds DEF IdsInv, S!TypeOK
<1>3. IdsInv <=> (S!TypeOK /\ S!IdsExact /\ S!NextIdFollows)  BY DEF IdsInv
<1> QED BY <1>1, <1>2, <1>3, PTL DEF S!Spec

-----------------------------------------------------------------------------
(* The module with the proofs about the receiver is an instance of its     *)
(* own: its specification is the one that Datapath is made of.             *)
(* The assumptions on the configurations are those of the two proofs.      *)
LEMMA SameConfigs == Configs \subseteq RP!Config
BY ConfigsAssumption
   DEF Config, RP!Config, ExchangeFunction, RP!ExchangeFunction

LEMMA SameReceiver == R!Spec <=> RP!Spec
<1>1. R!Init <=> RP!Init  BY DEF R!Init, RP!Init, R!NoStatistic, RP!NoStatistic
<1>2. R!Receive <=> RP!Receive
  <2>1. R!Batches = RP!Batches  BY DEF R!Batches, RP!Batches, R!IsInjective, RP!IsInjective
  <2>2. \A s : R!Overwrite(s) = RP!Overwrite(s)
    BY DEF R!Overwrite, RP!Overwrite, R!PacketsPerDatagram, RP!PacketsPerDatagram
  <2> QED BY <2>1, <2>2
    DEF R!Receive, RP!Receive, R!Range, RP!Range, R!Normal, RP!Normal, R!PacketsPerDatagram, RP!PacketsPerDatagram
<1>3. R!ProcessPacket <=> RP!ProcessPacket
  BY DEF R!ProcessPacket, RP!ProcessPacket, R!Account, RP!Account,
     R!Advance, RP!Advance, R!Normal, RP!Normal
<1>4. R!FinishCall <=> RP!FinishCall
  BY DEF R!FinishCall, RP!FinishCall, R!Normal, RP!Normal
<1>5. R!Emit <=> RP!Emit
  BY DEF R!Emit, RP!Emit, R!Segments, RP!Segments, R!PacketsPerDatagram, RP!PacketsPerDatagram,
     R!PacketIds, RP!PacketIds, R!callVars, RP!callVars
<1>6. (R!Lose <=> RP!Lose) /\ (R!Duplicate <=> RP!Duplicate)
  BY DEF R!Lose, RP!Lose, R!Duplicate, RP!Duplicate, R!callVars, RP!callVars
<1>7. [R!Next]_R!vars <=> [RP!Next]_RP!vars
  BY <1>2, <1>3, <1>4, <1>5, <1>6
  DEF R!Next, RP!Next, R!ReceiverStep, RP!ReceiverStep, R!NetworkStep, RP!NetworkStep, R!vars, RP!vars
<1> QED BY <1>1, <1>7, PTL DEF R!Spec, RP!Spec
-----------------------------------------------------------------------------
(* What the senders need to know of the network and the receiver: they     *)
(* take datagrams and bring back none that was not sent.                   *)
NetIsSent == net \subseteq sent

(* Every step of the whole is one of the senders or of their network.      *)
LEMMA StepNet ==
  ASSUME NetIsSent, [Next]_vars
  PROVE  /\ NetIsSent'
         /\ [S!Next \/ S!NetworkStep]_S!vars
<1>1. CASE SenderStep
  <2>1. ASSUME NEW t \in Tests, S!Transmit(t)  PROVE NetIsSent'
    BY <2>1 DEF S!Transmit, NetIsSent
  <2>2. ASSUME NEW t \in Tests, ~S!Transmit(t),
               \/ S!Send(t) \/ S!SendMsg(t) \/ S!SendMmsg(t) \/ S!Writable(t) \/ S!Stop(t)
        PROVE  NetIsSent'
    BY <2>2 DEF S!Send, S!SendMsg, S!SendMmsg, S!Calling, S!Writable, S!Stop, NetIsSent
  <2> QED BY <1>1, <2>1, <2>2 DEF SenderStep, S!Next
<1>2. ASSUME net' \subseteq sent, UNCHANGED <<cfg, sent, senderVars>>
      PROVE  NetIsSent' /\ S!NetworkStep
  BY <1>2 DEF NetIsSent, S!NetworkStep, S!ownVars, senderVars
<1>3. CASE ReceiverStep
  <2>1. net' \subseteq sent /\ UNCHANGED <<cfg, sent, senderVars>>
    BY <1>3 DEF ReceiverStep, R!ReceiverStep, R!Receive, R!ProcessPacket, R!FinishCall, NetIsSent
  <2> QED BY <2>1, <1>2
<1>4. CASE NetworkStep
  <2>1. net' \subseteq sent /\ UNCHANGED <<cfg, sent, senderVars>>
    BY <1>4 DEF NetworkStep, R!NetworkStep, R!Lose, R!Duplicate, NetIsSent
  <2> QED BY <2>1, <1>2
<1>5. CASE UNCHANGED vars
  BY <1>5 DEF vars, senderVars, S!vars, S!ownVars, NetIsSent
<1> QED BY <1>1, <1>3, <1>4, <1>5 DEF Next, SenderStep

(* Whatever the receiver does, the senders behave as specified alone.      *)
LEMMA SendersRun == Spec => S!Spec
<1>1. Init => S!Init /\ NetIsSent  BY DEF Init, S!Init, NetIsSent
<1>2. NetIsSent /\ [Next]_vars => NetIsSent' /\ [S!Next \/ S!NetworkStep]_S!vars
  BY StepNet
<1> QED BY <1>1, <1>2, PTL DEF Spec, S!Spec

(* In the presence of the receiver and for every number of senders: the    *)
(* socket gets the ids of a test in order and once, whatever it refuses.   *)
THEOREM IdsAreExact ==
  ASSUME \A c \in Configs : Packable(c)
  PROVE  Spec => []IdsExact
BY SenderIdsExact, SendersRun, PTL DEF IdsExact

-----------------------------------------------------------------------------
(* The id after the last one of a message or a datagram.                   *)
End(m) == m.first + m.len

(* What is used of the senders' own invariant.                             *)
SendersInv == S!TypeOK /\ S!NextIdFollows

(* The messages of a send buffer carry disjoint ids in increasing order,   *)
(* above all that is sent and below what was handed to the socket.         *)
Buffered == \A t \in Tests : \A i \in DOMAIN sndbuf[t] :
  /\ sndbuf[t][i].len = cfg.perMsg
  /\ End(sndbuf[t][i]) <= Len(handed[t])
  /\ \A j \in DOMAIN sndbuf[t] : i < j => End(sndbuf[t][i]) <= sndbuf[t][j].first
  /\ \A d \in sent : d.test = t => End(d) <= sndbuf[t][i].first

(* The ids on the network are those of handed messages, within the bound.  *)
Emitted ==
  /\ \A t \in Tests : Len(handed[t]) <= MaxId + 1
  /\ sent \subseteq Datagram
  /\ \A d \in sent : End(d) <= Len(handed[d.test])

(* Products of counts are counts, and monotonic.                           *)
LEMMA Products ==
  ASSUME NEW p \in Nat, NEW k \in Nat, NEW b \in Nat, k <= b
  PROVE  k * p \in Nat /\ b * p \in Nat /\ k * p <= b * p
OBVIOUS

(* The senders' invariant holds in the whole system.                       *)
LEMMA SendersKeep ==
  ASSUME \A c \in Configs : Packable(c)
  PROVE  Spec => []SendersInv
<1>1. S!TypeOK /\ S!NextIdFollows => SendersInv  BY DEF SendersInv
<1> QED BY <1>1, SenderIdsExact, SendersRun, PTL

(* Messages the socket accepts go behind all others, and their ids follow. *)
LEMMA AcceptKeeps ==
  ASSUME SendersInv, Buffered, Emitted, Packable(cfg), NEW t \in Tests,
         NEW k \in 1 .. cfg.batch, S!Accept(t, k), spc[t] = "send",
         nextId[t] + S!Stamped <= MaxId + 1, UNCHANGED <<cfg, net, sent>>
  PROVE  Buffered' /\ Emitted'
<1>1. cfg.batch \in Nat /\ cfg.perMsg \in Nat \ {0} /\ k \in Nat
  BY ConfigsAssumption DEF SendersInv, S!TypeOK, Config
<1>2. S!PerMessage = cfg.perMsg  BY <1>1 DEF S!PerMessage, Packable
<1>3. nextId[t] \in Nat /\ nextId[t] = Len(handed[t]) /\ handed \in [Tests -> Seq(Nat)]
  BY DEF SendersInv, S!TypeOK, S!NextIdFollows
<1> DEFINE n == k * cfg.perMsg
           old == sndbuf[t]
           new == S!Messages(t, k)
<1>4. n \in Nat /\ Len(handed[t]) + n <= MaxId + 1
  <2>1. n \in Nat /\ n <= cfg.batch * cfg.perMsg /\ cfg.batch * cfg.perMsg \in Nat
    BY <1>1, Products
  <2>2. Len(handed[t]) + cfg.batch * cfg.perMsg <= MaxId + 1
    BY <1>3 DEF S!Stamped
  <2> HIDE DEF n
  <2> QED BY <2>1, <2>2, <1>3, BoundsAssumption
<1>5. /\ handed' = [handed EXCEPT ![t] = handed[t] \o S!HandedIds(t, k)]
      /\ Len(handed'[t]) = Len(handed[t]) + n
  <2>1. handed' = [handed EXCEPT ![t] = handed[t] \o S!HandedIds(t, k)]
    BY DEF S!Accept, S!Accepted
  <2>2. S!HandedIds(t, k) \in Seq(Int) /\ Len(S!HandedIds(t, k)) = n
    <3>1. S!HandedIds(t, k) = [i \in 1 .. n |-> nextId[t] + i - 1]
      BY <1>2 DEF S!HandedIds
    <3>2. [i \in 1 .. n |-> nextId[t] + i - 1] \in [1 .. n -> Int]
      BY <1>3
    <3> HIDE DEF n
    <3> QED BY <3>1, <3>2, <1>4
  <2>3. handed'[t] = handed[t] \o S!HandedIds(t, k) /\ handed[t] \in Seq(Int)
    BY <2>1, <1>3
  <2> HIDE DEF n
  <2>4. Len(handed'[t]) = Len(handed[t]) + Len(S!HandedIds(t, k))
    BY <2>2, <2>3, ConcatProperties
  <2> QED BY <2>1, <2>2, <2>4
<1>6. /\ sndbuf' = [sndbuf EXCEPT ![t] = old \o new]
      /\ old \in Seq(S!Message)
      /\ sndbuf \in [Tests -> Seq(S!Message)]
  BY DEF S!Accept, S!Accepted, SendersInv, S!TypeOK
<1>7. ASSUME NEW i \in 1 .. k
      PROVE  /\ new[i].first \in Nat /\ new[i].first >= Len(handed[t])
             /\ new[i].len = cfg.perMsg
             /\ End(new[i]) <= Len(handed[t]) + n
             /\ \A j \in 1 .. k : i < j => End(new[i]) <= new[j].first
  <2>1. \A j \in 1 .. k : /\ new[j].first = Len(handed[t]) + (j - 1) * cfg.perMsg
                          /\ new[j].len = cfg.perMsg
    BY <1>2, <1>3 DEF S!Messages
  <2>2. \A j \in 1 .. k : (j - 1) * cfg.perMsg \in Nat /\ j * cfg.perMsg = (j - 1) * cfg.perMsg + cfg.perMsg
    BY <1>1
  <2>3. i * cfg.perMsg <= n
    BY <1>1, Products
  <2>4. ASSUME NEW j \in 1 .. k, i < j  PROVE i * cfg.perMsg <= (j - 1) * cfg.perMsg
    BY <1>1, <2>4, Products
  <2> HIDE DEF n, new
  <2>5. ASSUME NEW j \in 1 .. k
        PROVE  /\ new[j].first \in Nat /\ new[j].first >= Len(handed[t])
               /\ End(new[j]) = Len(handed[t]) + j * cfg.perMsg
    <3>1. new[j].first = Len(handed[t]) + (j - 1) * cfg.perMsg /\ new[j].len = cfg.perMsg
      BY <2>1
    <3>2. (j - 1) * cfg.perMsg \in Nat /\ j * cfg.perMsg = (j - 1) * cfg.perMsg + cfg.perMsg
      BY <2>2
    <3>3. Len(handed[t]) \in Nat  BY <1>3
    <3> QED BY <3>1, <3>2, <3>3, <1>1, SMTT(30) DEF End
  <2>6. \A j \in 1 .. k : i < j => End(new[i]) <= new[j].first
    <3> SUFFICES ASSUME NEW j \in 1 .. k, i < j  PROVE End(new[i]) <= new[j].first
      OBVIOUS
    <3>1. i * cfg.perMsg <= (j - 1) * cfg.perMsg  BY <2>4
    <3>2. i * cfg.perMsg \in Nat /\ (j - 1) * cfg.perMsg \in Nat  BY <2>2, <1>1
    <3> QED BY <3>1, <3>2, <2>1, <2>5, <1>3
  <2>7. End(new[i]) <= Len(handed[t]) + n
    <3>1. i * cfg.perMsg \in Nat  BY <2>2, <1>1
    <3> QED BY <3>1, <2>3, <2>5, <1>3, <1>4
  <2> QED BY <2>1, <2>5, <2>6, <2>7
<1>8. Emitted'
  <2>1. \A u \in Tests : Len(handed[u]) \in Nat /\ Len(handed[u]) <= Len(handed'[u])
    BY <1>3, <1>4, <1>5
  <2>2. \A u \in Tests : Len(handed'[u]) <= MaxId + 1
    BY <1>4, <1>5, <1>3 DEF Emitted
  <2>3. \A d \in sent : End(d) \in Nat /\ d.test \in Tests
    BY DEF Emitted, Datagram, End
  <2>4. \A d \in sent : End(d) <= Len(handed'[d.test])
    <3> TAKE d \in sent
    <3>1. End(d) <= Len(handed[d.test])  BY DEF Emitted
    <3> QED BY <3>1, <2>1, <2>3, <1>5
  <2> QED BY <2>2, <2>4 DEF Emitted, End
<1>9. Buffered'
  <2> SUFFICES ASSUME NEW u \in Tests, NEW i \in DOMAIN sndbuf'[u]
               PROVE  /\ sndbuf'[u][i].len = cfg.perMsg
                      /\ End(sndbuf'[u][i]) <= Len(handed'[u])
                      /\ \A j \in DOMAIN sndbuf'[u] :
                           i < j => End(sndbuf'[u][i]) <= sndbuf'[u][j].first
                      /\ \A d \in sent : d.test = u => End(d) <= sndbuf'[u][i].first
    BY DEF Buffered, End
  <2>1. CASE u # t
    <3>1. sndbuf'[u] = sndbuf[u] /\ handed'[u] = handed[u]
      BY <2>1, <1>5, <1>6, <1>3
    <3> QED BY <3>1 DEF Buffered
  <2>2. CASE u = t
    <3>1. sndbuf'[u] = old \o new  BY <2>2, <1>6
    <3>2. new = [j \in 1 .. k |-> new[j]] /\ Len(new) = k
      BY <1>1 DEF S!Messages
    <3>3. /\ DOMAIN sndbuf'[u] = 1 .. Len(old) + k
          /\ Len(old) \in Nat
          /\ \A j \in 1 .. Len(old) + k :
               (old \o new)[j] = IF j <= Len(old) THEN old[j] ELSE new[j - Len(old)]
      BY <3>1, <3>2, <1>1, <1>6
    <3>4. \A j \in 1 .. Len(old) : /\ old[j].first \in Nat /\ old[j].len = cfg.perMsg
                                   /\ End(old[j]) \in Nat
                                   /\ End(old[j]) <= Len(handed[t])
                                   /\ \A l \in 1 .. Len(old) : j < l => End(old[j]) <= old[l].first
                                   /\ \A d \in sent : d.test = t => End(d) <= old[j].first
      <4>1. \A j \in 1 .. Len(old) : old[j] \in S!Message  BY <1>6
      <4> QED BY <4>1, <1>6, SMTT(30) DEF Buffered, S!Message, End
    <3>5. \A j \in (Len(old) + 1) .. (Len(old) + k) : j - Len(old) \in 1 .. k
      BY <3>3, <1>1
    <3>6. \A d \in sent : d.test = t => End(d) \in Nat /\ End(d) <= Len(handed[t])
      BY DEF Emitted, Datagram, End
    <3> HIDE DEF old, new, n
    <3>7. CASE i <= Len(old)
      <4>1. i \in 1 .. Len(old) /\ sndbuf'[u][i] = old[i]  BY <3>7, <3>1, <3>3
      <4>2. ASSUME NEW j \in DOMAIN sndbuf'[u], i < j
            PROVE  End(old[i]) <= sndbuf'[u][j].first
        <5>1. CASE j <= Len(old)
          BY <5>1, <4>1, <4>2, <3>1, <3>3, <3>4
        <5>2. CASE j > Len(old)
          <6>1. j - Len(old) \in 1 .. k /\ sndbuf'[u][j] = new[j - Len(old)]
            BY <5>2, <3>1, <3>3
          <6> QED BY <6>1, <4>1, <3>4, <1>7, <1>3
        <5> QED BY <5>1, <5>2, <3>3
      <4> QED BY <4>1, <4>2, <3>4, <1>3, <1>4, <1>5, <2>2
    <3>8. CASE i > Len(old)
      <4> DEFINE l == i - Len(old)
      <4>1. l \in 1 .. k /\ sndbuf'[u][i] = new[l]
        BY <3>8, <3>1, <3>3
      <4>2. ASSUME NEW j \in DOMAIN sndbuf'[u], i < j
            PROVE  End(new[l]) <= sndbuf'[u][j].first
        <5>1. j - Len(old) \in 1 .. k /\ sndbuf'[u][j] = new[j - Len(old)]
          BY <4>2, <3>8, <3>1, <3>3
        <5>2. l < j - Len(old)  BY <4>2, <3>3
        <5> QED BY <5>1, <5>2, <4>1, <1>7
      <4>3. \A d \in sent : d.test = u => End(d) <= new[l].first
        BY <4>1, <3>6, <1>7, <1>3, <2>2
      <4> QED BY <4>1, <4>2, <4>3, <1>5, <1>7, <2>2
    <3> QED BY <3>3, <3>7, <3>8
  <2> QED BY <2>1, <2>2
<1> QED BY <1>8, <1>9

(* A message is sent in one datagram, or with GSO in one per packet, and   *)
(* none has an id outside of the message.                                  *)
LEMMA SegmentsWithin ==
  ASSUME NEW t \in Tests, NEW first \in Nat, NEW p \in Nat \ {0}, NEW len \in {1, p},
         NEW d \in S!Segments(t, first, len, p \div len)
  PROVE  /\ d \in Datagram /\ d.test = t
         /\ d.first >= first
         /\ End(d) <= first + p
<1>1. PICK i \in 0 .. ((p \div len) - 1) : d = [test |-> t, first |-> first + i * len, len |-> len]
  BY DEF S!Segments
<1>2. CASE len = 1
  <2>1. p \div len = p  BY <1>2
  <2>2. i * len = i /\ i \in 0 .. (p - 1)  BY <2>1, <1>2
  <2> QED BY <1>1, <1>2, <2>2 DEF Datagram, End
<1>3. CASE len = p
  <2>1. p \div len = 1  BY <1>3
  <2>2. i = 0 /\ i * len = 0  BY <2>1, <1>3
  <2> QED BY <1>1, <1>3, <2>2 DEF Datagram, End
<1> QED BY <1>2, <1>3

(* A message that leaves the send buffer brings new ids to the network: it *)
(* is what the receiver's specification calls Emit.                        *)
LEMMA TransmitKeeps ==
  ASSUME SendersInv, Buffered, Emitted, NEW t \in Tests, S!Transmit(t),
         UNCHANGED receiverVars
  PROVE  Buffered' /\ Emitted' /\ R!Emit
<1> DEFINE p == cfg.perMsg
           m == sndbuf[t][1]
           len == S!PacketsPerDatagram(cfg)
           n == p \div len
           D == S!Segments(t, m.first, len, n)
<1>1. p \in Nat \ {0} /\ len \in {1, p}
  BY ConfigsAssumption DEF SendersInv, S!TypeOK, Config, S!PacketsPerDatagram
<1>2. /\ sndbuf \in [Tests -> Seq(S!Message)] /\ handed \in [Tests -> Seq(Nat)]
      /\ sndbuf[t] \in Seq(S!Message) /\ sndbuf[t] # <<>>
  BY DEF SendersInv, S!TypeOK, S!Transmit
<1>3. 1 \in DOMAIN sndbuf[t] /\ Head(sndbuf[t]) = m /\ m \in S!Message
  BY <1>2
<1>4. m.first \in Nat /\ m.len = p /\ End(m) = m.first + p
  BY <1>3 DEF S!Message, Buffered, End
<1>5. /\ net' = net \cup D /\ sent' = sent \cup D
      /\ sndbuf' = [sndbuf EXCEPT ![t] = Tail(@)]
      /\ UNCHANGED <<cfg, handed>>
  BY <1>3, <1>4 DEF S!Transmit
<1>6. \A d \in D : d \in Datagram /\ d.test = t /\ d.first >= m.first /\ End(d) <= End(m)
  <2> HIDE DEF p, m, len
  <2> QED BY <1>1, <1>4, SegmentsWithin
<1>7. End(m) <= Len(handed[t]) /\ Len(handed[t]) <= MaxId + 1 /\ Len(handed[t]) \in Nat
  BY <1>2, <1>3 DEF Buffered, Emitted
<1> HIDE DEF p, m, len, n, D
<1>8. Emitted'
  <2>1. sent' \subseteq Datagram  BY <1>5, <1>6 DEF Emitted
  <2>2. \A d \in D : End(d) \in Nat /\ End(m) \in Nat
    BY <1>1, <1>4, <1>6 DEF Datagram, End
  <2>3. \A d \in sent' : End(d) <= Len(handed[d.test])
    BY <1>5, <1>6, <1>7, <2>2 DEF Emitted
  <2> QED BY <2>1, <2>3, <1>5 DEF Emitted, End
<1>9. Buffered'
  <2> SUFFICES ASSUME NEW u \in Tests, NEW i \in DOMAIN sndbuf'[u]
               PROVE  /\ sndbuf'[u][i].len = cfg.perMsg
                      /\ End(sndbuf'[u][i]) <= Len(handed[u])
                      /\ \A j \in DOMAIN sndbuf'[u] :
                           i < j => End(sndbuf'[u][i]) <= sndbuf'[u][j].first
                      /\ \A d \in sent' : d.test = u => End(d) <= sndbuf'[u][i].first
    BY <1>5 DEF Buffered, End
  <2>1. CASE u # t
    <3>1. sndbuf'[u] = sndbuf[u]  BY <2>1, <1>2, <1>5
    <3>2. \A d \in sent' : d.test = u => d \in sent  BY <2>1, <1>5, <1>6
    <3> QED BY <3>1, <3>2 DEF Buffered
  <2>2. CASE u = t
    <3>1. sndbuf'[u] = Tail(sndbuf[t])  BY <2>2, <1>2, <1>5
    <3>2. \A j \in DOMAIN sndbuf'[u] : /\ j \in Nat /\ j + 1 \in DOMAIN sndbuf[t] /\ 1 < j + 1
                                       /\ sndbuf'[u][j] = sndbuf[t][j + 1]
      BY <3>1, <1>2
    <3>3. /\ sndbuf[t][i + 1] \in S!Message /\ i + 1 \in DOMAIN sndbuf[t]
          /\ End(m) <= sndbuf[t][i + 1].first
      BY <3>2, <1>2, <1>3 DEF Buffered, m
    <3>4. \A d \in D : End(d) <= sndbuf[t][i + 1].first
      <4>1. \A d \in D : End(d) \in Nat /\ End(m) \in Nat
        BY <1>1, <1>4, <1>6 DEF Datagram, End
      <4> QED BY <4>1, <3>3, <1>6 DEF S!Message
    <3>5. \A d \in sent' : d.test = u => End(d) <= sndbuf[t][i + 1].first
      BY <3>3, <3>4, <2>2, <1>5 DEF Buffered
    <3>6. ASSUME NEW j \in DOMAIN sndbuf'[u], i < j
          PROVE  End(sndbuf[t][i + 1]) <= sndbuf[t][j + 1].first
      <4>1. i + 1 < j + 1 /\ j + 1 \in DOMAIN sndbuf[t] /\ i + 1 \in DOMAIN sndbuf[t]
        BY <3>2, <3>6
      <4> QED BY <4>1 DEF Buffered
    <3> QED BY <3>2, <3>3, <3>5, <3>6, <2>2 DEF Buffered
  <2> QED BY <2>1, <2>2
<1>10. R!Emit
  <2>1. n \in 1 .. (MaxId + 1) /\ m.first \in 0 .. MaxId
    <3>1. n \in Nat /\ 1 <= n /\ n <= p
      <4>1. CASE len = 1  BY <4>1, <1>1 DEF n
      <4>2. CASE len = p  BY <4>2, <1>1 DEF n
      <4> QED BY <4>1, <4>2, <1>1
    <3> QED BY <3>1, <1>1, <1>4, <1>7, BoundsAssumption
  <2>2. D = R!Segments(t, m.first, R!PacketsPerDatagram(cfg), n)
    BY DEF D, len, R!Segments, S!Segments, R!PacketsPerDatagram, S!PacketsPerDatagram
  <2>3. ASSUME NEW d \in D, NEW e \in sent, e.test = t
        PROVE  R!PacketIds(d) \cap R!PacketIds(e) = {}
    <3>1. End(e) <= m.first  BY <2>3, <1>3 DEF Buffered, m
    <3>2. d.first \in Nat /\ d.len \in Nat /\ e.first \in Nat /\ e.len \in Nat
      BY <1>6 DEF Emitted, Datagram
    <3>3. e.first + e.len <= d.first  BY <3>1, <3>2, <1>4, <1>6 DEF End
    <3> QED BY <3>2, <3>3 DEF R!PacketIds
  <2>4. UNCHANGED <<cfg, copies, R!callVars>>
    BY <1>5 DEF receiverVars, R!callVars
  <2> QED BY <2>1, <2>2, <2>3, <2>4, <1>5 DEF R!Emit
<1> QED BY <1>8, <1>9, <1>10

(* The inductive invariant of the composition, next to the two of its parts. *)
Composed == Buffered /\ Emitted

(* Every step keeps it, and is one of the receiver's specification.        *)
LEMMA StepComposed ==
  ASSUME SendersInv, Composed, \A c \in Configs : Packable(c), [Next]_vars
  PROVE  Composed' /\ [R!Next]_R!vars
<1> USE DEF Composed
<1>1. cfg \in Config /\ Packable(cfg) /\ (cfg.sendFn # "mmsg" => cfg.batch = 1)
  BY ConfigsAssumption DEF SendersInv, S!TypeOK
<1>2. \A t \in Tests : S!Room(t) \in Int
  BY BoundsAssumption DEF S!Room, SendersInv, S!TypeOK
<1>3. ASSUME UNCHANGED <<cfg, sent, senderVars>>  PROVE Composed'
  BY <1>3 DEF senderVars, Buffered, Emitted, End
<1>4. CASE SenderStep
  <2>1. ASSUME NEW t \in Tests, S!Transmit(t)  PROVE Composed' /\ [R!Next]_R!vars
    BY <2>1, <1>4, TransmitKeeps DEF SenderStep, R!Next
  <2>2. ASSUME NEW t \in Tests,
               \/ S!Send(t) \/ S!SendMsg(t) \/ S!SendMmsg(t) \/ S!Writable(t) \/ S!Stop(t)
        PROVE  Composed' /\ [R!Next]_R!vars
    <3>1. UNCHANGED R!vars
      BY <2>2, <1>4 DEF SenderStep, S!Send, S!SendMsg, S!SendMmsg, S!Calling, S!Writable, S!Stop,
         receiverVars, R!vars
    <3>2. ASSUME NEW k \in 1 .. cfg.batch, S!Accept(t, k), NEW fn, S!Calling(t, fn)
          PROVE  Composed'
      BY <3>2, <1>1, AcceptKeeps DEF S!Calling
    <3>3. ASSUME S!WouldBlock(t) \/ S!Abort(t), NEW fn, S!Calling(t, fn)
          PROVE  Composed'
      BY <3>3 DEF S!WouldBlock, S!Abort, S!Calling, Buffered, Emitted, End
    <3>4. ASSUME S!Writable(t) \/ S!Stop(t)  PROVE Composed'
      BY <3>4 DEF S!Writable, S!Stop, Buffered, Emitted, End
    <3>5. ASSUME S!Send(t) \/ S!SendMsg(t)  PROVE Composed'
      <4>1. cfg.batch = 1 /\ 1 \in 1 .. cfg.batch
        BY <3>5, <1>1 DEF S!Send, S!SendMsg, S!Calling
      <4> QED BY <3>5, <4>1, <3>2, <3>3 DEF S!Send, S!SendMsg
    <3>6. ASSUME S!SendMmsg(t)  PROVE Composed'
      BY <3>6, <3>2, <3>3 DEF S!SendMmsg
    <3> QED BY <2>2, <3>1, <3>4, <3>5, <3>6
  <2> QED BY <1>4, <2>1, <2>2 DEF SenderStep, S!Next
<1>5. CASE ReceiverStep
  <2>1. UNCHANGED <<cfg, sent, senderVars>>
    BY <1>5 DEF ReceiverStep, R!ReceiverStep, R!Receive, R!ProcessPacket, R!FinishCall
  <2> QED BY <2>1, <1>3, <1>5 DEF ReceiverStep, R!Next
<1>6. CASE NetworkStep
  <2>1. UNCHANGED <<cfg, sent, senderVars>>
    BY <1>6 DEF NetworkStep, R!NetworkStep, R!Lose, R!Duplicate
  <2> QED BY <2>1, <1>3, <1>6 DEF NetworkStep, R!Next
<1>7. CASE UNCHANGED vars
  BY <1>7, <1>3 DEF vars, receiverVars, R!vars
<1> QED BY <1>4, <1>5, <1>6, <1>7 DEF Next

LEMMA InitComposed == Init => Composed
BY BoundsAssumption DEF Init, S!Init, Composed, Buffered, Emitted

(* It holds in every state.                                                *)
LEMMA AlwaysComposed ==
  ASSUME \A c \in Configs : Packable(c)
  PROVE  Spec => []Composed
<1>1. Init => Composed  BY InitComposed
<1>2. SendersInv /\ Composed /\ [Next]_vars => Composed'  BY StepComposed
<1> QED BY <1>1, <1>2, SendersKeep, PTL DEF Spec

(* The real senders are an instance of the network for which the           *)
(* receiver's counters were proved: no id of a test is sent twice.         *)
THEOREM SendersFeedReceiver ==
  ASSUME \A c \in Configs : Packable(c)
  PROVE  Spec => FeedsReceiver
<1>1. Init => R!Init  BY DEF Init
<1>2. SendersInv /\ Composed /\ [Next]_vars => [R!Next]_R!vars
  BY StepComposed
<1> QED BY <1>1, <1>2, SendersKeep, AlwaysComposed, PTL DEF Spec, R!Spec, FeedsReceiver

(* Senders, network and receiver keep their types.                         *)
THEOREM TypeCorrect ==
  ASSUME \A c \in Configs : Packable(c)
  PROVE  Spec => []TypeOK
<1>1. RP!TypeOK <=> R!TypeOK
  BY DEF R!TypeOK, RP!TypeOK, R!Statistic, RP!Statistic, R!Datagram, RP!Datagram
<1>2. RP!Spec => []RP!TypeOK
  BY RP!TypeCorrect, SameConfigs, ConfigsAssumption, BoundsAssumption
<1>3. SendersInv /\ R!TypeOK => TypeOK  BY DEF SendersInv, TypeOK
<1> QED BY <1>1, <1>2, <1>3, SendersKeep, SendersFeedReceiver, SameReceiver, PTL DEF FeedsReceiver

(* With the real senders, every id below the expected one was received or  *)
(* is omitted, and what was received beyond that is duplicate.             *)
THEOREM LedgerCorrect ==
  ASSUME \A c \in Configs : Packable(c)
  PROVE  Spec => []LedgerBalances
<1>1. RP!LedgerBalances <=> LedgerBalances
  BY DEF LedgerBalances, R!LedgerBalances, RP!LedgerBalances, R!Normal, RP!Normal
<1>2. RP!Spec => []RP!LedgerBalances
  BY RP!LedgerCorrect, SameConfigs, ConfigsAssumption, BoundsAssumption
<1> QED BY <1>1, <1>2, SendersFeedReceiver, SameReceiver, PTL DEF FeedsReceiver

(* With the real senders and any network that does not duplicate, the      *)
(* omitted counter is exactly the number of missing ids.                   *)
THEOREM LossIsExact ==
  ASSUME \A c \in Configs : Packable(c)
  PROVE  Spec => []LossExact
<1>1. RP!LossExact <=> LossExact
  <2>1. \A e, received : R!Missing(e, received) = RP!Missing(e, received)
    BY DEF R!Missing, RP!Missing
  <2>2. \A T : R!Cardinality(T) = RP!Cardinality(T)
    BY DEF R!Cardinality, RP!Cardinality
  <2>3. R!Expected = RP!Expected /\ (R!EveryPacketRead(cfg) <=> RP!EveryPacketRead(cfg))
    BY DEF R!Expected, RP!Expected, R!Normal, RP!Normal, R!EveryPacketRead, RP!EveryPacketRead,
       R!PacketsPerDatagram, RP!PacketsPerDatagram
  <2> QED BY <2>1, <2>2, <2>3 DEF LossExact, R!LossExact, RP!LossExact
<1>2. RP!Spec => []RP!LossExact
  BY RP!LossIsExact, SameConfigs, ConfigsAssumption, BoundsAssumption
<1> QED BY <1>1, <1>2, SendersFeedReceiver, SameReceiver, PTL DEF FeedsReceiver
-----------------------------------------------------------------------------
(* The ids that datagrams ever sent carry, and the 0 that a fresh buffer   *)
(* holds, once anything was sent.                                          *)
Readable == IF sent = {} THEN {} ELSE {0} \cup UNION {PacketIds(d) : d \in sent}

(* What the receiver has in its buffers, reads and has processed was sent; *)
(* all datagrams have the same number of packets.                          *)
ReadIsSent ==
  /\ \A d \in sent : d.len = R!PacketsPerDatagram(cfg)
  /\ \A i \in DOMAIN todo : todo[i] \in Readable
  /\ \A i \in DOMAIN rbuf : rbuf[i] \in {0} \cup Readable
  /\ \A t \in Tests : seen[t] \subseteq Readable

(* An offset within a buffer is a datagram and a packet of it.             *)
LEMMA PacketOf ==
  ASSUME NEW len \in Nat \ {0}, NEW n \in Nat, NEW i \in 1 .. n * len
  PROVE  /\ ((i - 1) \div len) + 1 \in 1 .. n
         /\ (i - 1) % len \in 0 .. len - 1
<1> DEFINE q == (i - 1) \div len
           r == (i - 1) % len
<1>1. n * len \in Nat  OBVIOUS
<1>2. i \in Nat /\ 1 <= i /\ i <= n * len  BY <1>1
<1>3. q \in Nat /\ r \in 0 .. len - 1 /\ i - 1 = q * len + r  BY <1>2
<1> HIDE DEF q, r
<1>4. q * len < n * len
  <2>1. q * len \in Nat  BY <1>3
  <2> QED BY <1>1, <1>2, <1>3, <2>1
<1>5. q < n
  <2>1. SUFFICES ASSUME n <= q PROVE FALSE  BY <1>3
  <2>2. n * len <= q * len  BY <1>3, <2>1
  <2> QED BY <1>1, <1>3, <1>4, <2>2
<1> QED BY <1>3, <1>5 DEF q, r

(* recv() may read the stale rest of its buffer: the ids of datagrams that *)
(* came before, or the 0 it started with.                                  *)
LEMMA ReceiveReadsSent ==
  ASSUME R!TypeOK, ReadIsSent, R!Receive
  PROVE  ReadIsSent'
<1> DEFINE len == R!PacketsPerDatagram(cfg)
<1>1. cfg.take \in Nat /\ len \in Nat \ {0} /\ sent \subseteq R!Datagram /\ net \subseteq sent
  BY ConfigsAssumption DEF R!TypeOK, Config, R!PacketsPerDatagram
<1> HIDE DEF len
<1>2. PICK s \in R!Batches :
        /\ rbuf' = IF R!Normal THEN R!Overwrite(s) ELSE rbuf
        /\ todo' = IF R!Normal THEN R!Overwrite(s) ELSE [i \in 1 .. Len(s) |-> s[i].first]
  BY DEF R!Receive
<1>3. PICK n \in 1 .. cfg.take : s \in [1 .. n -> net]
  BY DEF R!Batches
<1>4. Len(s) = n /\ n \in Nat /\ 1 <= n  BY <1>1, <1>3
<1>5. UNCHANGED <<cfg, sent, seen>>  BY DEF R!Receive
<1>6. Readable' = Readable  BY <1>5 DEF Readable
<1>7. ASSUME NEW j \in 1 .. n, NEW k \in 0 .. len - 1
      PROVE  s[j].first + k \in Readable /\ s[j].first \in Readable /\ 0 \in Readable
  <2>1. s[j] \in sent /\ s[j].len = len /\ s[j].first \in Nat
    BY <1>1, <1>3 DEF ReadIsSent, R!Datagram, len
  <2>2. s[j].first + k \in PacketIds(s[j]) /\ s[j].first \in PacketIds(s[j])
    BY <1>1, <2>1 DEF PacketIds
  <2>3. PacketIds(s[j]) \subseteq UNION {PacketIds(d) : d \in sent}  BY <2>1, Zenon
  <2>4. sent # {}  BY <2>1
  <2>5. Readable = {0} \cup UNION {PacketIds(d) : d \in sent}  BY <2>4, Zenon DEF Readable
  <2> QED BY <2>2, <2>3, <2>5, Zenon
<1>8. 0 \in Readable
  <2>1. 1 \in 1 .. n /\ 0 \in 0 .. len - 1  BY <1>1, <1>4
  <2> QED BY <1>7, <2>1
<1>9. CASE R!Normal
  <2> DEFINE id(i) == s[((i - 1) \div len) + 1].first + ((i - 1) % len)
  <2>1. R!Overwrite(s) = [i \in 1 .. cfg.slots |-> IF i <= n * len THEN id(i) ELSE rbuf[i]]
    BY <1>4 DEF R!Overwrite, len
  <2>2. DOMAIN rbuf = 1 .. cfg.slots  BY DEF R!TypeOK
  <2>3. ASSUME NEW i \in 1 .. cfg.slots
        PROVE  (IF i <= n * len THEN id(i) ELSE rbuf[i]) \in Readable
    <3>1. CASE i <= n * len
      <4>1. n * len \in Nat  BY <1>1, <1>4
      <4>2. i \in 1 .. n * len
        <5>1. i \in Int /\ 1 <= i
          BY ConfigsAssumption DEF R!TypeOK, Config
        <5> QED BY <3>1, <4>1, <5>1
      <4>3. ((i - 1) \div len) + 1 \in 1 .. n /\ (i - 1) % len \in 0 .. len - 1
        BY <1>1, <1>4, <4>2, PacketOf
      <4>4. id(i) \in Readable  BY <1>7, <4>3
      <4> QED BY <3>1, <4>4
    <3>2. CASE ~ (i <= n * len)
      <4>1. rbuf[i] \in {0} \cup Readable  BY <2>2 DEF ReadIsSent
      <4> QED BY <1>8, <3>2, <4>1
    <3> QED BY <3>1, <3>2
  <2> HIDE DEF id
  <2>4. rbuf' = R!Overwrite(s) /\ todo' = R!Overwrite(s)  BY <1>2, <1>9
  <2>5. \A i \in 1 .. cfg.slots : R!Overwrite(s)[i] \in Readable  BY <2>1, <2>3
  <2>6. DOMAIN R!Overwrite(s) = 1 .. cfg.slots  BY <2>1
  <2> QED BY <1>5, <1>6, <2>4, <2>5, <2>6 DEF ReadIsSent, R!PacketsPerDatagram
<1>10. CASE ~R!Normal
  <2>1. todo' = [i \in 1 .. n |-> s[i].first] /\ rbuf' = rbuf  BY <1>2, <1>4, <1>10
  <2>2. \A i \in 1 .. n : s[i].first \in Readable
    <3>1. 0 \in 0 .. len - 1  BY <1>1
    <3> QED BY <1>7, <3>1
  <2>3. \A i \in DOMAIN todo' : todo'[i] \in Readable  BY <2>1, <2>2
  <2> QED BY <1>5, <1>6, <2>1, <2>3 DEF ReadIsSent, R!PacketsPerDatagram
<1> QED BY <1>9, <1>10

LEMMA EmitReadsSent ==
  ASSUME R!TypeOK, ReadIsSent, R!Emit
  PROVE  ReadIsSent'
<1> DEFINE len == R!PacketsPerDatagram(cfg)
<1>1. UNCHANGED <<cfg, todo, rbuf, seen>>  BY DEF R!Emit, R!callVars
<1>2. PICK t \in Tests, first \in 0 .. MaxId, n \in 1 .. (MaxId + 1) :
        sent' = sent \cup R!Segments(t, first, len, n)
  BY DEF R!Emit
<1>3. \A d \in R!Segments(t, first, len, n) : d.len = len  BY DEF R!Segments
<1>4. \A d \in sent' : d.len = len  BY <1>2, <1>3 DEF ReadIsSent
<1>5. Readable \subseteq Readable'  BY <1>2 DEF Readable
<1> QED BY <1>1, <1>4, <1>5 DEF ReadIsSent, R!PacketsPerDatagram

LEMMA StepReadsSent ==
  ASSUME R!TypeOK, ReadIsSent, [R!Next]_R!vars
  PROVE  ReadIsSent'
<1>1. ASSUME UNCHANGED <<cfg, sent, todo, rbuf, seen>>  PROVE ReadIsSent'
  BY <1>1 DEF ReadIsSent, Readable, R!PacketsPerDatagram
<1>2. CASE R!NetworkStep \/ UNCHANGED R!vars
  BY <1>1, <1>2 DEF R!NetworkStep, R!Lose, R!Duplicate, R!callVars, R!vars
<1>3. CASE R!ProcessPacket
  <2>1. todo \in Seq(Nat) /\ todo # <<>> /\ seen \in [Tests -> SUBSET Nat] /\ cur \in Tests
    BY <1>3 DEF R!ProcessPacket, R!TypeOK
  <2>2. /\ Head(todo) = todo[1] /\ 1 \in DOMAIN todo
        /\ \A i \in DOMAIN Tail(todo) : i + 1 \in DOMAIN todo /\ Tail(todo)[i] = todo[i + 1]
    BY <2>1
  <2>3. /\ todo' = Tail(todo) /\ seen' = [seen EXCEPT ![cur] = @ \cup {todo[1]}]
        /\ UNCHANGED <<cfg, sent, rbuf>>
    BY <1>3, <2>2 DEF R!ProcessPacket
  <2>4. Readable' = Readable  BY <2>3 DEF Readable
  <2>5. \A i \in DOMAIN todo' : todo'[i] \in Readable  BY <2>2, <2>3 DEF ReadIsSent
  <2>6. \A t \in Tests : seen'[t] \subseteq Readable  BY <2>1, <2>2, <2>3 DEF ReadIsSent
  <2> QED BY <2>3, <2>4, <2>5, <2>6 DEF ReadIsSent, R!PacketsPerDatagram
<1>4. CASE R!FinishCall
  BY <1>4, <1>1 DEF R!FinishCall
<1> QED BY <1>2, <1>3, <1>4, ReceiveReadsSent, EmitReadsSent DEF R!Next, R!ReceiverStep

(* The receive buffers make up no packet id: what the receiver processed   *)
(* was handed over by the sender, also what recv() finds in the part of    *)
(* its buffer that it did not receive (receiver.rs 75-87).                 *)
THEOREM NothingMadeUp ==
  ASSUME \A c \in Configs : Packable(c)
  PROVE  Spec => []SeenWasHanded
<1>1. R!Init => ReadIsSent
  <2> SUFFICES ASSUME R!Init PROVE ReadIsSent
    OBVIOUS
  <2>1. sent = {} /\ todo = <<>> /\ rbuf = [i \in 1 .. cfg.slots |-> 0] /\ seen = [t \in Tests |-> {}]
    BY DEF R!Init
  <2>2. DOMAIN todo = {} /\ \A i \in DOMAIN rbuf : rbuf[i] = 0  BY <2>1
  <2> QED BY <2>1, <2>2 DEF ReadIsSent
<1>2. R!TypeOK /\ ReadIsSent /\ [R!Next]_R!vars => ReadIsSent'  BY StepReadsSent
<1>3. TypeOK /\ Composed /\ IdsExact /\ ReadIsSent => SeenWasHanded
  <2> SUFFICES ASSUME TypeOK, Composed, IdsExact, ReadIsSent, NEW t \in Tests,
                      Tests = {t}, NEW id \in seen[t]
               PROVE  id \in Range(handed[t])
    BY DEF SeenWasHanded
  <2>1. id \in Readable  BY DEF ReadIsSent
  <2>2. \A d \in sent : /\ d.test = t /\ d.first \in Nat /\ d.len \in Nat \ {0}
                        /\ d.first + d.len <= Len(handed[t])
    BY DEF Composed, Emitted, Datagram, End
  <2>3. handed[t] = [i \in 1 .. Len(handed[t]) |-> i - 1] /\ Len(handed[t]) \in Nat
    BY DEF IdsExact, S!IdsExact, TypeOK, S!TypeOK
  <2>4. PICK d \in sent : id = 0 \/ id \in PacketIds(d)  BY <2>1 DEF Readable
  <2>5. id \in Nat /\ id < Len(handed[t])  BY <2>2, <2>3, <2>4 DEF PacketIds
  <2>6. id + 1 \in 1 .. Len(handed[t])  BY <2>3, <2>5
  <2>7. id + 1 \in DOMAIN handed[t] /\ handed[t][id + 1] = id
    BY <2>3, <2>5, <2>6
  <2> QED BY <2>7 DEF Range
<1>4. TypeOK => R!TypeOK  BY DEF TypeOK
<1>5. Spec => R!Spec  BY SendersFeedReceiver DEF FeedsReceiver
<1> QED BY <1>1, <1>2, <1>3, <1>4, <1>5, AlwaysComposed, TypeCorrect, IdsAreExact, PTL DEF R!Spec
-----------------------------------------------------------------------------
(* Where the ids that are still in the send buffer begin.                  *)
Front(t) == IF sndbuf[t] = <<>> THEN Len(handed[t]) ELSE sndbuf[t][1].first

(* The messages of a send buffer follow one another without a gap, and the *)
(* last one ends at what was handed to the socket.                         *)
Chained == \A t \in Tests :
  /\ \A i, j \in DOMAIN sndbuf[t] : j = i + 1 => sndbuf[t][j].first = End(sndbuf[t][i])
  /\ sndbuf[t] # <<>> => End(sndbuf[t][Len(sndbuf[t])]) = Len(handed[t])

(* Where every datagram has one packet, what was sent is all ids below.    *)
OnWire == R!EveryPacketRead(cfg) =>
  \A t \in Tests : {d \in sent : d.test = t}
                     = {[test |-> t, first |-> i, len |-> 1] : i \in 0 .. (Front(t) - 1)}

(* The messages of one call follow one another.                            *)
LEMMA MessagesChain ==
  ASSUME SendersInv, Packable(cfg), NEW t \in Tests, spc[t] = "send",
         NEW k \in 1 .. cfg.batch, NEW new, new = S!Messages(t, k)
  PROVE  /\ new \in Seq(S!Message) /\ Len(new) = k
         /\ new[1].first = Len(handed[t])
         /\ \A i, j \in 1 .. k : j = i + 1 => new[j].first = End(new[i])
         /\ End(new[k]) = Len(handed[t]) + k * cfg.perMsg
<1>1. cfg.batch \in Nat /\ cfg.perMsg \in Nat \ {0} /\ k \in Nat
  BY ConfigsAssumption DEF SendersInv, S!TypeOK, Config
<1>2. S!PerMessage = cfg.perMsg  BY <1>1 DEF S!PerMessage, Packable
<1>3. nextId[t] \in Nat /\ nextId[t] = Len(handed[t])
  BY DEF SendersInv, S!TypeOK, S!NextIdFollows
<1>4. new = [i \in 1 .. k |-> [first |-> nextId[t] + (i - 1) * cfg.perMsg, len |-> cfg.perMsg]]
  BY <1>2 DEF S!Messages
<1>5. \A i \in 1 .. k : /\ (i - 1) * cfg.perMsg \in Nat
                        /\ i * cfg.perMsg = (i - 1) * cfg.perMsg + cfg.perMsg
  BY <1>1
<1>6. \A i \in 1 .. k : new[i] \in S!Message
  <2> TAKE i \in 1 .. k
  <2>1. (i - 1) * cfg.perMsg \in Nat  BY <1>5
  <2>2. nextId[t] + (i - 1) * cfg.perMsg \in Nat  BY <1>3, <2>1
  <2> QED BY <1>1, <1>4, <2>2 DEF S!Message
<1>7. new \in Seq(S!Message) /\ Len(new) = k  BY <1>1, <1>4, <1>6
<1>8. new[1].first = Len(handed[t])  BY <1>1, <1>3, <1>4
<1>9. \A i \in 1 .. k : End(new[i]) = nextId[t] + i * cfg.perMsg
  <2> TAKE i \in 1 .. k
  <2>1. new[i].first = nextId[t] + (i - 1) * cfg.perMsg /\ new[i].len = cfg.perMsg
    BY <1>4
  <2> QED BY <1>1, <1>3, <1>5, <2>1 DEF End
<1>10. ASSUME NEW i \in 1 .. k, NEW j \in 1 .. k, j = i + 1
       PROVE  new[j].first = End(new[i])
  <2>1. j - 1 = i  BY <1>10
  <2>2. new[j].first = nextId[t] + (j - 1) * cfg.perMsg  BY <1>4
  <2> QED BY <1>9, <2>1, <2>2
<1> QED BY <1>1, <1>3, <1>7, <1>8, <1>9, <1>10

(* What the socket accepts prolongs the chain at its end.                  *)
LEMMA AcceptChains ==
  ASSUME SendersInv, SendersInv', Chained, Packable(cfg), NEW t \in Tests,
         NEW k \in 1 .. cfg.batch, S!Accept(t, k), spc[t] = "send", UNCHANGED cfg
  PROVE  Chained' /\ \A u \in Tests : Front(u)' = Front(u)
<1> DEFINE old == sndbuf[t]
           new == S!Messages(t, k)
           n == k * cfg.perMsg
<1>1. cfg.batch \in Nat /\ cfg.perMsg \in Nat \ {0} /\ k \in Nat /\ 1 <= k /\ k <= cfg.batch
  BY ConfigsAssumption DEF SendersInv, S!TypeOK, Config
<1>2. /\ new \in Seq(S!Message) /\ Len(new) = k
      /\ new[1].first = Len(handed[t])
      /\ \A i, j \in 1 .. k : j = i + 1 => new[j].first = End(new[i])
      /\ End(new[k]) = Len(handed[t]) + n
  BY MessagesChain
<1>3. /\ old \in Seq(S!Message) /\ sndbuf \in [Tests -> Seq(S!Message)]
      /\ sndbuf' = [sndbuf EXCEPT ![t] = old \o new]
      /\ handed \in [Tests -> Seq(Nat)]
      /\ handed' = [handed EXCEPT ![t] = handed[t] \o S!HandedIds(t, k)]
  BY DEF S!Accept, S!Accepted, SendersInv, S!TypeOK
<1>4. Len(handed'[t]) = Len(handed[t]) + n
  <2>1. nextId[t] \in Nat /\ nextId \in [Tests -> Nat] /\ nextId[t] = Len(handed[t])
    BY DEF SendersInv, S!TypeOK, S!NextIdFollows
  <2>2. nextId'[t] = Len(handed'[t])
    BY DEF SendersInv, S!NextIdFollows, S!Accept, S!Accepted
  <2>3. nextId'[t] = nextId[t] + cfg.batch * cfg.perMsg - (cfg.batch - k) * cfg.perMsg
    BY <2>1 DEF S!Accept, S!Stamped
  <2>4. k \in 0 .. cfg.batch  BY <1>1
  <2>5. nextId[t] + cfg.batch * cfg.perMsg - (cfg.batch - k) * cfg.perMsg = nextId[t] + n
    BY <1>1, <2>1, <2>4, TakenBack
  <2> QED BY <2>1, <2>2, <2>3, <2>5
<1> HIDE DEF new, n
<1>5. \A u \in Tests \ {t} : sndbuf'[u] = sndbuf[u] /\ handed'[u] = handed[u]
  BY <1>3
<1>6. /\ sndbuf'[t] = old \o new /\ Len(old) \in Nat
      /\ Len(old \o new) = Len(old) + k /\ DOMAIN (old \o new) = 1 .. Len(old) + k
      /\ \A i \in 1 .. Len(old) + k :
           (old \o new)[i] = IF i <= Len(old) THEN old[i] ELSE new[i - Len(old)]
  <2>1. sndbuf'[t] = old \o new /\ Len(old) \in Nat  BY <1>3
  <2>2. old \in Seq(S!Message) /\ new \in Seq(S!Message)  BY <1>2, <1>3
  <2> HIDE DEF old
  <2>3. /\ Len(old \o new) = Len(old) + k /\ DOMAIN (old \o new) = 1 .. Len(old) + k
        /\ \A i \in 1 .. Len(old) + k :
             (old \o new)[i] = IF i <= Len(old) THEN old[i] ELSE new[i - Len(old)]
    BY <1>1, <1>2, <2>2
  <2> QED BY <2>1, <2>3
<1>7. Front(t)' = Front(t)
  <2>1. (old \o new) # <<>>  BY <1>1, <1>6
  <2>2. Front(t)' = (old \o new)[1].first  BY <1>6, <2>1 DEF Front
  <2>3. CASE old = <<>>
    BY <1>1, <1>2, <1>6, <2>2, <2>3 DEF Front
  <2>4. CASE old # <<>>
    <3>1. Len(old) >= 1  BY <1>3, <2>4
    <3> QED BY <1>1, <1>6, <2>2, <2>4, <3>1 DEF Front
  <2> QED BY <2>3, <2>4
<1>8. ASSUME NEW i \in 1 .. Len(old) + k, NEW j \in 1 .. Len(old) + k, j = i + 1
      PROVE  (old \o new)[j].first = End((old \o new)[i])
  <2>1. CASE j <= Len(old)
    <3>1. i \in DOMAIN old /\ j \in DOMAIN old  BY <1>3, <1>8, <2>1
    <3> QED BY <1>6, <1>8, <2>1, <3>1 DEF Chained
  <2>2. CASE i = Len(old)
    <3>1. old # <<>> /\ End(old[Len(old)]) = Len(handed[t])  BY <1>3, <2>2 DEF Chained
    <3>2. (old \o new)[j] = new[1] /\ (old \o new)[i] = old[i]  BY <1>1, <1>6, <1>8, <2>2
    <3> QED BY <1>2, <2>2, <3>1, <3>2
  <2>3. CASE i > Len(old)
    <3>1. i - Len(old) \in 1 .. k /\ j - Len(old) \in 1 .. k
          /\ j - Len(old) = (i - Len(old)) + 1
      BY <1>1, <1>6, <1>8, <2>3
    <3>2. (old \o new)[j] = new[j - Len(old)] /\ (old \o new)[i] = new[i - Len(old)]
      BY <1>6, <1>8, <2>3
    <3> QED BY <1>2, <3>1, <3>2
  <2>4. i \in Nat /\ j = i + 1 /\ Len(old) \in Nat  BY <1>1, <1>6, <1>8
  <2> HIDE DEF old
  <2>5. j <= Len(old) \/ i = Len(old) \/ i > Len(old)  BY <2>4
  <2> QED BY <2>1, <2>2, <2>3, <2>5
<1>9. End((old \o new)[Len(old) + k]) = Len(handed'[t])
  <2>1. (old \o new)[Len(old) + k] = new[k]  BY <1>1, <1>6
  <2> QED BY <1>2, <1>4, <2>1
<1>10. Chained'
  <2> SUFFICES ASSUME NEW u \in Tests
               PROVE  /\ \A i, j \in DOMAIN sndbuf'[u] :
                           j = i + 1 => sndbuf'[u][j].first = End(sndbuf'[u][i])
                      /\ sndbuf'[u] # <<>> => End(sndbuf'[u][Len(sndbuf'[u])]) = Len(handed'[u])
    BY DEF Chained, End
  <2>1. CASE u # t  BY <1>5, <2>1 DEF Chained
  <2>2. CASE u = t  BY <1>6, <1>8, <1>9, <2>2
  <2> QED BY <2>1, <2>2
<1>11. ASSUME NEW u \in Tests \ {t}  PROVE Front(u)' = Front(u)
  BY <1>5 DEF Front
<1>12. ASSUME NEW u \in Tests  PROVE Front(u)' = Front(u)
  BY <1>7, <1>11
<1> QED BY <1>10, <1>12

(* A message that leaves the send buffer carries on where what was sent    *)
(* ends.                                                                   *)
LEMMA TransmitChains ==
  ASSUME SendersInv, Buffered, Chained, OnWire, NEW t \in Tests, S!Transmit(t)
  PROVE  /\ Chained' /\ OnWire'
         /\ \A u \in Tests : Front(u) \in Nat /\ Front(u)' \in Nat /\ Front(u) <= Front(u)'
         /\ \E D : /\ net' = net \cup D /\ sent' = sent \cup D
                   /\ R!EveryPacketRead(cfg) => \A d \in D : d.first \in Nat /\ d.first >= Front(t)
<1> DEFINE p == cfg.perMsg
           m == sndbuf[t][1]
           rest == Tail(sndbuf[t])
           len == S!PacketsPerDatagram(cfg)
           D == S!Segments(t, m.first, len, p \div len)
<1>1. p \in Nat \ {0}
  BY ConfigsAssumption DEF SendersInv, S!TypeOK, Config
<1>2. /\ sndbuf \in [Tests -> Seq(S!Message)] /\ handed \in [Tests -> Seq(Nat)]
      /\ sndbuf[t] \in Seq(S!Message) /\ sndbuf[t] # <<>>
  BY DEF SendersInv, S!TypeOK, S!Transmit
<1>3. 1 \in DOMAIN sndbuf[t] /\ Head(sndbuf[t]) = m /\ m \in S!Message
  BY <1>2
<1>4. m.first \in Nat /\ m.len = p /\ End(m) = m.first + p
  BY <1>3 DEF S!Message, Buffered, End
<1>5. /\ net' = net \cup D /\ sent' = sent \cup D
      /\ sndbuf' = [sndbuf EXCEPT ![t] = rest]
      /\ UNCHANGED <<cfg, handed>>
  BY <1>3, <1>4 DEF S!Transmit
<1>6. /\ sndbuf'[t] = rest /\ rest \in Seq(S!Message) /\ Len(rest) = Len(sndbuf[t]) - 1
      /\ DOMAIN rest = 1 .. Len(rest) /\ Len(sndbuf[t]) \in Nat
      /\ \A i \in DOMAIN rest : i + 1 \in DOMAIN sndbuf[t] /\ rest[i] = sndbuf[t][i + 1]
      /\ \A u \in Tests \ {t} : sndbuf'[u] = sndbuf[u]
  BY <1>2, <1>5
<1>7. Front(t) = m.first  BY <1>2 DEF Front
<1>8. Front(t)' = End(m)
  <2>1. CASE rest = <<>>
    <3>1. Len(sndbuf[t]) = 1
      <4> HIDE DEF rest
      <4>1. Len(rest) = 0  BY <2>1
      <4> QED BY <1>6, <4>1
    <3>2. End(sndbuf[t][1]) = Len(handed[t])  BY <1>2, <3>1 DEF Chained
    <3> QED BY <1>5, <1>6, <2>1, <3>2 DEF Front
  <2>2. CASE rest # <<>>
    <3>1. 1 \in DOMAIN rest  BY <1>6, <2>2
    <3>2. 2 \in DOMAIN sndbuf[t] /\ rest[1] = sndbuf[t][2]  BY <1>6, <3>1
    <3>3. sndbuf[t][2].first = End(m)
      <4>1. \A i, j \in DOMAIN sndbuf[t] : j = i + 1 => sndbuf[t][j].first = End(sndbuf[t][i])
        BY DEF Chained
      <4>2. 2 = 1 + 1  OBVIOUS
      <4> QED BY <1>3, <3>2, <4>1, <4>2
    <3> QED BY <1>6, <2>2, <3>2, <3>3 DEF Front
  <2> QED BY <2>1, <2>2
<1> HIDE DEF p, m, rest, len, D
<1>9. Chained'
  <2> SUFFICES ASSUME NEW u \in Tests
               PROVE  /\ \A i, j \in DOMAIN sndbuf'[u] :
                           j = i + 1 => sndbuf'[u][j].first = End(sndbuf'[u][i])
                      /\ sndbuf'[u] # <<>> => End(sndbuf'[u][Len(sndbuf'[u])]) = Len(handed'[u])
    BY DEF Chained, End
  <2>1. CASE u # t  BY <1>5, <1>6, <2>1 DEF Chained
  <2>2. CASE u = t
    <3>1. ASSUME NEW i \in DOMAIN rest, NEW j \in DOMAIN rest, j = i + 1
          PROVE  rest[j].first = End(rest[i])
      <4>1. i + 1 \in DOMAIN sndbuf[t] /\ j + 1 \in DOMAIN sndbuf[t] /\ j + 1 = (i + 1) + 1
        BY <1>6, <3>1
      <4> QED BY <1>6, <4>1 DEF Chained
    <3>2. ASSUME rest # <<>>  PROVE End(rest[Len(rest)]) = Len(handed[t])
      <4>1. Len(rest) \in DOMAIN rest  BY <1>6, <3>2
      <4>2. rest[Len(rest)] = sndbuf[t][Len(sndbuf[t])]  BY <1>6, <4>1
      <4> QED BY <1>2, <4>2 DEF Chained
    <3> QED BY <1>5, <1>6, <2>2, <3>1, <3>2
  <2> QED BY <2>1, <2>2
<1>10. ASSUME NEW u \in Tests
       PROVE  /\ Front(u) \in Nat /\ Front(u)' \in Nat /\ Front(u) <= Front(u)'
              /\ u # t => Front(u)' = Front(u)
  <2>1. CASE u = t  BY <1>1, <1>4, <1>7, <1>8, <2>1
  <2>2. CASE u # t
    <3>1. Front(u)' = Front(u)  BY <1>5, <1>6, <2>2 DEF Front
    <3>2. sndbuf[u] \in Seq(S!Message) /\ Len(handed[u]) \in Nat  BY <1>2
    <3>3. sndbuf[u] # <<>> => sndbuf[u][1] \in S!Message  BY <3>2
    <3>4. Front(u) \in Nat  BY <3>2, <3>3 DEF Front, S!Message
    <3> QED BY <2>2, <3>1, <3>4
  <2> QED BY <2>1, <2>2
<1>11. ASSUME R!EveryPacketRead(cfg)
       PROVE  D = {[test |-> t, first |-> i, len |-> 1] : i \in m.first .. (End(m) - 1)}
  <2>1. len = 1
    BY <1>11 DEF len, R!EveryPacketRead, R!PacketsPerDatagram, S!PacketsPerDatagram
  <2>2. p \div len = p  BY <1>1, <2>1
  <2>3. D = {[test |-> t, first |-> m.first + i * 1, len |-> 1] : i \in 0 .. (p - 1)}
    BY <2>1, <2>2 DEF D, S!Segments
  <2>4. \A i \in 0 .. (p - 1) : m.first + i * 1 \in m.first .. (End(m) - 1)
    BY <1>1, <1>4
  <2>5. \A i \in m.first .. (End(m) - 1) : i - m.first \in 0 .. (p - 1) /\ m.first + (i - m.first) * 1 = i
    BY <1>1, <1>4
  <2> HIDE DEF D
  <2>6. \A d \in D : d \in {[test |-> t, first |-> i, len |-> 1] : i \in m.first .. (End(m) - 1)}
    BY <2>3, <2>4
  <2>7. \A i \in m.first .. (End(m) - 1) : [test |-> t, first |-> i, len |-> 1] \in D
    BY <2>3, <2>5
  <2> QED BY <2>6, <2>7
<1>12. OnWire'
  <2>1. R!EveryPacketRead(cfg)' <=> R!EveryPacketRead(cfg)
    BY <1>5 DEF R!EveryPacketRead, R!PacketsPerDatagram
  <2> SUFFICES ASSUME R!EveryPacketRead(cfg), NEW u \in Tests
               PROVE  {d \in sent' : d.test = u}
                        = {[test |-> u, first |-> i, len |-> 1] : i \in 0 .. (Front(u)' - 1)}
    BY <2>1 DEF OnWire
  <2>2. {d \in sent : d.test = u} = {[test |-> u, first |-> i, len |-> 1] : i \in 0 .. (Front(u) - 1)}
    BY DEF OnWire
  <2>3. \A d \in D : d.test = t  BY <1>11
  <2>4. CASE u # t
    BY <1>5, <1>10, <2>2, <2>3, <2>4
  <2>5. CASE u = t
    <3>1. {d \in sent' : d.test = u} = {d \in sent : d.test = u} \cup D
      BY <1>5, <2>3, <2>5
    <3>2. 0 .. (End(m) - 1) = (0 .. (m.first - 1)) \cup (m.first .. (End(m) - 1))
      BY <1>1, <1>4
    <3> QED BY <1>7, <1>8, <1>11, <2>2, <2>5, <3>1, <3>2
  <2> QED BY <2>4, <2>5
<1>13. R!EveryPacketRead(cfg) => \A d \in D : d.first \in Nat /\ d.first >= Front(t)
  BY <1>1, <1>4, <1>7, <1>11
<1> QED BY <1>5, <1>9, <1>10, <1>12, <1>13

(* A network that keeps the order and neither loses nor duplicates.        *)
Faultless(c) == c.inOrder /\ ~c.loss /\ ~c.dup

(* The first id that is not yet in a receive call.                         *)
Ahead == R!Expected + Len(todo)

(* Over such a network the packets of the current call are the next ones   *)
(* expected, those on the way follow them, and no counter of a fault moves. *)
Undisturbed == Faultless(cfg) /\ R!EveryPacketRead(cfg) =>
  /\ \A i \in DOMAIN todo : todo[i] = R!Expected + i - 1
  /\ \A d \in sent : d \in net <=> d.first >= Ahead
  /\ R!Normal => Len(todo) + amount <= 1
  /\ rpc = "recv" => todo = <<>> /\ amount = 0
  /\ \A t \in Tests : /\ Ahead <= Front(t)
                      /\ stats[t].omitted = 0 /\ stats[t].reordered = 0 /\ stats[t].duplicated = 0

LEMMA LeastNumber ==
  ASSUME NEW W, W \subseteq Nat, W # {}
  PROVE  \E x \in W : \A y \in W : x <= y
<1> DEFINE Below == OpToRel(<, Nat)
<1>1. IsWellFoundedOn(Below, Nat)  BY NatLessThanWellFounded
<1>2. \A x, y \in Nat : y < x => <<y, x>> \in Below  BY DEF OpToRel
<1> HIDE DEF Below
<1>3. PICK x \in W : \A y \in W : ~ (<<y, x>> \in Below)  BY <1>1, WFMin, Zenon
<1>4. ASSUME NEW y \in W PROVE x <= y
  <2>1. x \in Nat /\ y \in Nat /\ ~ (y < x)  BY <1>2, <1>3
  <2> QED BY <2>1
<1> QED BY <1>4

(* A receive call gets the next datagrams of a network that keeps order.   *)
LEMMA BatchIsNext ==
  ASSUME R!TypeOK, cfg.inOrder, NEW t, next \in Nat, Front(t) \in Nat,
         \A d \in net : /\ d = [test |-> t, first |-> d.first, len |-> 1]
                        /\ d.first \in next .. (Front(t) - 1),
         \A i \in next .. (Front(t) - 1) : [test |-> t, first |-> i, len |-> 1] \in net,
         NEW s \in R!Batches
  PROVE  /\ Len(s) \in Nat \ {0} /\ DOMAIN s = 1 .. Len(s)
         /\ \A i \in 1 .. Len(s) : s[i] = [test |-> t, first |-> next + i - 1, len |-> 1]
         /\ next + Len(s) <= Front(t)
<1>1. PICK n \in 1 .. cfg.take : s \in [1 .. n -> net]
  BY DEF R!Batches
<1>2. /\ R!IsInjective(s)
      /\ \A i \in DOMAIN s, d \in net :
           d.test = s[i].test /\ d.first < s[i].first => \E j \in 1 .. (i - 1) : s[j] = d
  BY DEF R!Batches
<1>3. n \in Nat \ {0} /\ Len(s) = n /\ DOMAIN s = 1 .. n
  BY <1>1, ConfigsAssumption DEF R!TypeOK, Config
<1>4. \A i \in 1 .. n : /\ s[i] = [test |-> t, first |-> s[i].first, len |-> 1]
                        /\ s[i].first \in next .. (Front(t) - 1)
  BY <1>1
<1>5. ASSUME NEW y \in 1 .. n, s[y].first # next + y - 1  PROVE FALSE
  <2> DEFINE W == {i \in 1 .. n : s[i].first # next + i - 1}
  <2>1. W \subseteq Nat /\ W # {}  BY <1>5
  <2>2. PICK x \in W : \A z \in W : x <= z
    <3> HIDE DEF W
    <3> QED BY <2>1, LeastNumber
  <2>3. x \in 1 .. n /\ x \in Nat /\ s[x].first # next + x - 1  OBVIOUS
  <2>4. \A i \in 1 .. (x - 1) : i \in 1 .. n /\ s[i].first = next + i - 1
    <3> TAKE i \in 1 .. (x - 1)
    <3>1. i \in 1 .. n /\ ~ (x <= i)  BY <1>3, <2>3
    <3>2. i \notin W  BY <2>2, <3>1
    <3> QED BY <3>1, <3>2
  <2> HIDE DEF W
  <2>5. /\ s[x] = [test |-> t, first |-> s[x].first, len |-> 1]
        /\ s[x].first \in next .. (Front(t) - 1) /\ s[x].first \in Int
    BY <1>4, <2>3
  <2>6. CASE s[x].first < next + x - 1
    <3> DEFINE j == s[x].first - next + 1
    <3>1. j \in 1 .. (x - 1)  BY <2>3, <2>5, <2>6
    <3>2. j \in 1 .. n /\ s[j].first = next + j - 1 /\ j # x  BY <2>3, <2>4, <3>1
    <3>3. s[j].first = s[x].first  BY <2>5, <3>2
    <3> HIDE DEF j
    <3>4. s[j] = [test |-> t, first |-> s[j].first, len |-> 1]  BY <1>4, <3>2
    <3>5. s[j] = s[x]  BY <2>5, <3>3, <3>4
    <3> QED BY <1>2, <1>3, <2>3, <3>2, <3>5 DEF R!IsInjective
  <2>7. CASE s[x].first > next + x - 1
    <3> DEFINE d == [test |-> t, first |-> next + x - 1, len |-> 1]
    <3>1. next + x - 1 \in next .. (Front(t) - 1)  BY <2>3, <2>5, <2>7
    <3>2. d \in net  BY <3>1
    <3>3. s[x].test = t  BY <2>5
    <3>4. PICK j \in 1 .. (x - 1) : s[j] = d  BY <1>2, <1>3, <2>3, <2>7, <3>2, <3>3
    <3>5. s[j].first = next + x - 1  BY <3>4
    <3>6. s[j].first = next + j - 1  BY <2>4
    <3> QED BY <2>3, <3>5, <3>6
  <2> QED BY <2>3, <2>5, <2>6, <2>7
<1>6. \A i \in 1 .. n : s[i] = [test |-> t, first |-> next + i - 1, len |-> 1]
  <2> TAKE i \in 1 .. n
  <2>1. s[i].first = next + i - 1  BY <1>5
  <2> QED BY <1>4, <2>1
<1>7. next + n <= Front(t)
  <2>1. n \in 1 .. n /\ s[n].first = next + n - 1 /\ s[n].first \in next .. (Front(t) - 1)
    BY <1>3, <1>4, <1>6
  <2> QED BY <1>3, <2>1
<1> QED BY <1>3, <1>6, <1>7

(* What a receive call takes is what the receiver expects.                 *)
LEMMA ReceiveIsNext ==
  ASSUME R!TypeOK, OnWire, Undisturbed, NEW t, Tests = {t}, Front(t) \in Nat, R!Receive,
         UNCHANGED senderVars
  PROVE  Undisturbed'
<1>1. UNCHANGED <<cfg, sent, stats, next, Front(t)>> /\ amount' = 0 /\ rpc' = "packets"
  BY DEF R!Receive, senderVars, Front
<1>2. Faultless(cfg)' = Faultless(cfg) /\ R!EveryPacketRead(cfg)' = R!EveryPacketRead(cfg)
  BY <1>1 DEF Faultless, R!EveryPacketRead, R!PacketsPerDatagram
<1> SUFFICES ASSUME Faultless(cfg), R!EveryPacketRead(cfg)
             PROVE  /\ \A i \in DOMAIN todo' : todo'[i] = R!Expected' + i - 1
                    /\ \A d \in sent : d \in net' <=> d.first >= Ahead'
                    /\ R!Normal => Len(todo') + amount' <= 1
                    /\ Ahead' <= Front(t)
                    /\ \A u \in Tests : stats[u].omitted = 0 /\ stats[u].reordered = 0
                                        /\ stats[u].duplicated = 0
  BY <1>1, <1>2 DEF Undisturbed, R!Normal
<1>3. /\ next \in Nat /\ net \subseteq sent /\ cfg.take \in Nat \ {0}
      /\ R!PacketsPerDatagram(cfg) = 1 /\ (R!Normal => cfg.slots = 1)
  BY ConfigsAssumption DEF R!TypeOK, Config, R!EveryPacketRead, R!Normal
<1>4. rpc = "recv" /\ todo = <<>> /\ amount = 0
  BY DEF R!Receive, Undisturbed
<1>5. R!Expected = next /\ Ahead = next /\ R!Expected' = next
  BY <1>1, <1>3, <1>4 DEF R!Expected, Ahead
<1>6. sent = {[test |-> t, first |-> i, len |-> 1] : i \in 0 .. (Front(t) - 1)}
  <2>1. {d \in sent : d.test = t} = {[test |-> t, first |-> i, len |-> 1] : i \in 0 .. (Front(t) - 1)}
    BY DEF OnWire
  <2>2. \A d \in sent : d.test = t  BY DEF R!TypeOK, R!Datagram
  <2> QED BY <2>1, <2>2
<1>7. \A d \in sent : d \in net <=> d.first >= next
  BY <1>5 DEF Undisturbed
<1>8. /\ \A d \in net : /\ d = [test |-> t, first |-> d.first, len |-> 1]
                        /\ d.first \in next .. (Front(t) - 1)
      /\ \A i \in next .. (Front(t) - 1) : [test |-> t, first |-> i, len |-> 1] \in net
  <2>1. ASSUME NEW d \in net
        PROVE  /\ d = [test |-> t, first |-> d.first, len |-> 1]
               /\ d.first \in next .. (Front(t) - 1)
    <3>1. PICK i \in 0 .. (Front(t) - 1) : d = [test |-> t, first |-> i, len |-> 1]
      BY <1>3, <1>6
    <3>2. d.first = i /\ i >= next  BY <1>3, <1>7, <3>1
    <3>3. i \in next .. (Front(t) - 1)  BY <1>3, <3>2
    <3> QED BY <3>1, <3>2, <3>3
  <2>2. \A i \in next .. (Front(t) - 1) : [test |-> t, first |-> i, len |-> 1] \in net
    <3> TAKE i \in next .. (Front(t) - 1)
    <3> DEFINE d == [test |-> t, first |-> i, len |-> 1]
    <3>1. i \in 0 .. (Front(t) - 1) /\ i >= next  BY <1>3
    <3>2. d \in sent /\ d.first >= next  BY <1>6, <3>1
    <3> QED BY <1>7, <3>2
  <2> QED BY <2>1, <2>2
<1>9. PICK s \in R!Batches :
        /\ R!Normal => Len(s) * R!PacketsPerDatagram(cfg) <= cfg.slots
        /\ net' = net \ R!Range(s)
        /\ todo' = IF R!Normal THEN R!Overwrite(s) ELSE [i \in 1 .. Len(s) |-> s[i].first]
  BY DEF R!Receive
<1> DEFINE n == Len(s)
<1>10. /\ n \in Nat \ {0} /\ DOMAIN s = 1 .. n
       /\ \A i \in 1 .. n : s[i] = [test |-> t, first |-> next + i - 1, len |-> 1]
       /\ next + n <= Front(t)
  <2>1. cfg.inOrder  BY DEF Faultless
  <2> QED BY <1>3, <1>8, <2>1, BatchIsNext
<1>11. R!Normal => n = 1  BY <1>3, <1>9, <1>10
<1> HIDE DEF n
<1>12. todo' = [i \in 1 .. n |-> s[i].first]
  <2>1. CASE R!Normal
    <3>1. todo' = [i \in 1 .. 1 |->
                     IF i <= n * 1 THEN s[((i - 1) \div 1) + 1].first + ((i - 1) % 1) ELSE rbuf[i]]
      BY <1>3, <1>9, <2>1 DEF R!Overwrite, n
    <3>2. s[1].first \in Nat  BY <1>3, <1>10
    <3> QED BY <1>11, <2>1, <3>1, <3>2
  <2>2. CASE ~R!Normal  BY <1>9, <2>2 DEF n
  <2> QED BY <2>1, <2>2
<1>13. Len(todo') = n /\ DOMAIN todo' = 1 .. n /\ \A i \in 1 .. n : todo'[i] = next + i - 1
  BY <1>10, <1>12
<1>14. Ahead' = next + n  BY <1>5, <1>13 DEF Ahead
<1>15. ASSUME NEW d \in sent  PROVE d \in net' <=> d.first >= next + n
  <2>1. PICK j \in 0 .. (Front(t) - 1) : d = [test |-> t, first |-> j, len |-> 1]
    BY <1>6
  <2>2. d \in net <=> j >= next  BY <1>7, <2>1
  <2>3. R!Range(s) = {s[i] : i \in 1 .. n}  BY <1>10 DEF R!Range
  <2>4. d \in R!Range(s) <=> j >= next /\ j < next + n
    <3>1. ASSUME d \in R!Range(s)  PROVE j >= next /\ j < next + n
      <4>1. PICK i \in 1 .. n : d = s[i]  BY <2>3, <3>1
      <4>2. j = next + i - 1
        <5>1. d.first = j  BY <2>1
        <5>2. s[i].first = next + i - 1  BY <1>10
        <5> QED BY <4>1, <5>1, <5>2
      <4> QED BY <1>3, <1>10, <4>2
    <3>2. ASSUME j >= next, j < next + n  PROVE d \in R!Range(s)
      <4> DEFINE i == j - next + 1
      <4>1. i \in 1 .. n /\ next + i - 1 = j  BY <1>3, <1>10, <3>2
      <4> HIDE DEF i
      <4>2. s[i] = d  BY <1>10, <2>1, <4>1
      <4> QED BY <2>3, <4>1, <4>2
    <3> QED BY <3>1, <3>2
  <2>5. d.first = j  BY <2>1
  <2> QED BY <1>3, <1>9, <1>10, <2>2, <2>4, <2>5
<1>16. R!Normal => Len(todo') + amount' <= 1  BY <1>1, <1>11, <1>13
<1>17. \A u \in Tests : stats[u].omitted = 0 /\ stats[u].reordered = 0 /\ stats[u].duplicated = 0
  BY DEF Undisturbed
<1> QED BY <1>5, <1>10, <1>13, <1>14, <1>15, <1>16, <1>17

(* Processing what is expected moves the expected id by one and no counter *)
(* of a fault; the end of a call moves nothing.                            *)
LEMMA ProcessIsNext ==
  ASSUME R!TypeOK, Undisturbed, R!ProcessPacket \/ R!FinishCall, UNCHANGED senderVars
  PROVE  Undisturbed'
<1>1. UNCHANGED <<cfg, sent, net>> /\ \A t \in Tests : Front(t)' = Front(t)
  BY DEF R!ProcessPacket, R!FinishCall, senderVars, Front
<1>2. Faultless(cfg)' = Faultless(cfg) /\ R!EveryPacketRead(cfg)' = R!EveryPacketRead(cfg)
      /\ R!Normal' = R!Normal
  BY <1>1 DEF Faultless, R!EveryPacketRead, R!PacketsPerDatagram, R!Normal
<1> SUFFICES ASSUME Faultless(cfg), R!EveryPacketRead(cfg)  PROVE Undisturbed'
  BY <1>2 DEF Undisturbed
<1>3. /\ next \in Nat /\ amount \in Nat /\ todo \in Seq(Nat) /\ cur \in Tests
      /\ stats \in [Tests -> R!Statistic]
  BY DEF R!TypeOK
<1>4. /\ \A i \in DOMAIN todo : todo[i] = R!Expected + i - 1
      /\ \A d \in sent : d \in net <=> d.first >= Ahead
      /\ R!Normal => Len(todo) + amount <= 1
      /\ \A t \in Tests :
           /\ Ahead <= Front(t)
           /\ stats[t].omitted = 0 /\ stats[t].reordered = 0 /\ stats[t].duplicated = 0
  BY DEF Undisturbed
<1>5. CASE R!ProcessPacket
  <2> DEFINE id == todo[1]
             rest == Tail(todo)
  <2>1. todo # <<>> /\ Head(todo) = id /\ 1 \in DOMAIN todo /\ id = R!Expected
    <3>1. todo # <<>>  BY <1>5 DEF R!ProcessPacket
    <3>2. Head(todo) = id /\ 1 \in DOMAIN todo  BY <1>3, <3>1
    <3> QED BY <1>3, <1>4, <3>1, <3>2 DEF R!Expected
  <2>2. /\ Len(rest) = Len(todo) - 1 /\ Len(todo) \in Nat \ {0}
        /\ \A i \in DOMAIN rest : i \in Nat /\ i + 1 \in DOMAIN todo /\ rest[i] = todo[i + 1]
    BY <1>3, <2>1
  <2>3. id = next /\ (R!Normal => amount = 0)
    BY <1>3, <1>4, <2>1, <2>2 DEF R!Expected
  <2>4. /\ stats' = [stats EXCEPT ![cur] = R!Account(@, id, next)]
        /\ next' = IF R!Normal THEN next ELSE next + R!Advance(id, next)
        /\ amount' = amount + (IF R!Normal THEN R!Advance(id, next) ELSE 1)
        /\ todo' = rest /\ rpc' = "packets"
    BY <1>5, <2>1 DEF R!ProcessPacket
  <2>5. R!Advance(id, next) = 1  BY <1>3, <2>3 DEF R!Advance
  <2>6. \A t \in Tests : stats'[t].omitted = 0 /\ stats'[t].reordered = 0 /\ stats'[t].duplicated = 0
    <3> TAKE t \in Tests
    <3>1. CASE t # cur  BY <1>3, <1>4, <2>4, <3>1
    <3>2. CASE t = cur
      <4>1. stats[t] \in R!Statistic  BY <1>3
      <4>2. stats'[t] = [stats[t] EXCEPT !.omitted = @ + (id - next)]
        BY <1>3, <2>3, <2>4, <3>2 DEF R!Account
      <4> QED BY <1>3, <1>4, <2>3, <4>1, <4>2 DEF R!Statistic
    <3> QED BY <3>1, <3>2
  <2>7. R!Expected' = R!Expected + 1 /\ R!Expected \in Nat
    BY <1>2, <1>3, <2>3, <2>4, <2>5 DEF R!Expected, R!Normal
  <2> HIDE DEF id, rest
  <2>8. Ahead' = Ahead  BY <2>2, <2>4, <2>7 DEF Ahead
  <2>9. \A i \in DOMAIN todo' : todo'[i] = R!Expected' + i - 1
    <3> TAKE i \in DOMAIN todo'
    <3>1. i \in Nat /\ i + 1 \in DOMAIN todo /\ todo'[i] = todo[i + 1]  BY <2>2, <2>4
    <3>2. todo[i + 1] = R!Expected + (i + 1) - 1  BY <1>4, <3>1
    <3> QED BY <2>7, <3>1, <3>2
  <2>10. R!Normal => Len(todo') + amount' <= 1
    BY <1>3, <1>4, <2>2, <2>3, <2>4, <2>5
  <2> QED BY <1>1, <1>2, <1>4, <2>4, <2>6, <2>8, <2>9, <2>10 DEF Undisturbed
<1>6. CASE R!FinishCall
  <2>1. /\ todo = <<>> /\ todo' = todo /\ amount' = 0 /\ rpc' = "recv"
        /\ next' = IF R!Normal THEN next + amount ELSE next
        /\ stats' = [stats EXCEPT ![cur].datagrams = @ + amount]
    BY <1>6 DEF R!FinishCall
  <2>2. R!Expected' = R!Expected
    BY <1>2, <1>3, <2>1 DEF R!Expected
  <2>3. Ahead' = Ahead  BY <2>1, <2>2 DEF Ahead
  <2>4. \A t \in Tests : stats'[t].omitted = 0 /\ stats'[t].reordered = 0 /\ stats'[t].duplicated = 0
    <3> TAKE t \in Tests
    <3>1. stats[t] \in R!Statistic  BY <1>3
    <3> QED BY <1>3, <1>4, <2>1, <3>1 DEF R!Statistic
  <2>5. Len(todo') = 0 /\ \A i \in DOMAIN todo' : FALSE  BY <2>1
  <2> QED BY <1>1, <1>2, <1>4, <2>1, <2>3, <2>4, <2>5 DEF Undisturbed
<1> QED BY <1>5, <1>6

(* The inductive invariant, next to the ones above.                        *)
Streamed == Chained /\ OnWire /\ Undisturbed

LEMMA FrontIsNat ==
  ASSUME SendersInv, NEW t \in Tests
  PROVE  Front(t) \in Nat
<1>1. sndbuf[t] \in Seq(S!Message) /\ Len(handed[t]) \in Nat
  BY DEF SendersInv, S!TypeOK
<1>2. sndbuf[t] # <<>> => sndbuf[t][1] \in S!Message  BY <1>1
<1> QED BY <1>1, <1>2 DEF Front, S!Message

LEMMA StepStreamed ==
  ASSUME NEW t, Tests = {t}, \A c \in Configs : Packable(c),
         R!TypeOK, SendersInv, SendersInv', Buffered, Streamed, [Next]_vars
  PROVE  Streamed'
<1> USE DEF Streamed
<1>1. cfg \in Config /\ Packable(cfg) /\ (cfg.sendFn # "mmsg" => cfg.batch = 1)
  BY ConfigsAssumption DEF SendersInv, S!TypeOK
<1>2. /\ next \in Nat /\ amount \in Nat /\ Len(todo) \in Nat /\ net \subseteq sent
      /\ Ahead \in Nat /\ \A d \in sent : d.first \in Nat
  BY DEF R!TypeOK, Ahead, R!Expected, R!Datagram
<1>3. ASSUME UNCHANGED <<cfg, sent>>, \A u \in Tests : Front(u)' = Front(u)
      PROVE  OnWire'
  BY <1>3 DEF OnWire, R!EveryPacketRead, R!PacketsPerDatagram
<1>4. ASSUME UNCHANGED <<cfg, receiverVars>>, \A u \in Tests : Front(u)' = Front(u),
             UNCHANGED <<sent, net>>
      PROVE  Undisturbed'
  BY <1>4 DEF Undisturbed, Faultless, Ahead, R!Expected, R!Normal, R!EveryPacketRead,
     R!PacketsPerDatagram, receiverVars
<1>5. ASSUME UNCHANGED senderVars  PROVE Chained' /\ \A u \in Tests : Front(u)' = Front(u)
  BY <1>5 DEF senderVars, Chained, Front, End
<1>6. CASE SenderStep
  <2>1. UNCHANGED receiverVars  BY <1>6 DEF SenderStep
  <2>2. ASSUME NEW u \in Tests, S!Transmit(u)  PROVE Streamed'
    <3>1. /\ Chained' /\ OnWire'
          /\ Front(t) \in Nat /\ Front(t)' \in Nat /\ Front(t) <= Front(t)'
      BY <2>2, TransmitChains
    <3>2. PICK D : /\ net' = net \cup D /\ sent' = sent \cup D
                   /\ R!EveryPacketRead(cfg) => \A d \in D : d.first \in Nat /\ d.first >= Front(t)
      BY <2>2, TransmitChains
    <3>3. UNCHANGED <<cfg, next, stats, rpc, todo, amount>> /\ Ahead' = Ahead
      BY <2>1, <2>2 DEF S!Transmit, receiverVars, Ahead, R!Expected, R!Normal
    <3>4. /\ Faultless(cfg)' = Faultless(cfg) /\ R!EveryPacketRead(cfg)' = R!EveryPacketRead(cfg)
          /\ R!Normal' = R!Normal /\ R!Expected' = R!Expected
      BY <3>3 DEF Faultless, R!EveryPacketRead, R!PacketsPerDatagram, R!Normal, R!Expected
    <3>5. Undisturbed'
      <4> SUFFICES ASSUME Faultless(cfg), R!EveryPacketRead(cfg)  PROVE Undisturbed'
        BY <3>4 DEF Undisturbed
      <4>1. Ahead <= Front(t)  BY DEF Undisturbed
      <4>2. \A d \in sent : d \in net <=> d.first >= Ahead  BY DEF Undisturbed
      <4>3. \A d \in sent' : d \in net' <=> d.first >= Ahead
        <5>1. \A d \in D : d.first >= Ahead  BY <1>2, <3>1, <3>2, <4>1
        <5> QED BY <1>2, <3>2, <4>2, <5>1
      <4>4. Ahead <= Front(t)'  BY <1>2, <3>1, <4>1
      <4> QED BY <3>3, <3>4, <4>3, <4>4 DEF Undisturbed
    <3> QED BY <3>1, <3>5
  <2>3. ASSUME NEW u \in Tests, NEW fn, S!Calling(u, fn), NEW k \in 1 .. cfg.batch, S!Accept(u, k)
        PROVE  Streamed'
    <3>1. UNCHANGED <<cfg, sent, net>> /\ spc[u] = "send"  BY <2>3 DEF S!Calling
    <3>2. Chained' /\ \A v \in Tests : Front(v)' = Front(v)
      BY <1>1, <2>3, <3>1, AcceptChains
    <3> QED BY <1>3, <1>4, <2>1, <3>1, <3>2
  <2>4. ASSUME UNCHANGED <<cfg, sent, net, sndbuf, handed>>  PROVE Streamed'
    <3>1. Chained' /\ \A v \in Tests : Front(v)' = Front(v)
      BY <2>4 DEF Chained, Front, End
    <3> QED BY <1>3, <1>4, <2>1, <2>4, <3>1
  <2>5. ASSUME NEW u \in Tests,
               S!Send(u) \/ S!SendMsg(u) \/ S!SendMmsg(u) \/ S!Writable(u) \/ S!Stop(u)
        PROVE  Streamed'
    <3>1. ASSUME NEW fn, S!Calling(u, fn), S!WouldBlock(u) \/ S!Abort(u)  PROVE Streamed'
      BY <2>4, <3>1 DEF S!Calling, S!WouldBlock, S!Abort
    <3>2. ASSUME S!Send(u) \/ S!SendMsg(u)  PROVE Streamed'
      <4>1. 1 \in 1 .. cfg.batch
        BY <1>1, <3>2 DEF S!Send, S!SendMsg, S!Calling
      <4> QED BY <2>3, <3>1, <3>2, <4>1 DEF S!Send, S!SendMsg
    <3>3. ASSUME S!SendMmsg(u)  PROVE Streamed'
      BY <2>3, <3>1, <3>3 DEF S!SendMmsg
    <3>4. ASSUME S!Writable(u) \/ S!Stop(u)  PROVE Streamed'
      BY <2>4, <3>4 DEF S!Writable, S!Stop
    <3> QED BY <2>5, <3>2, <3>3, <3>4
  <2> QED BY <1>6, <2>2, <2>5 DEF SenderStep, S!Next
<1>7. CASE ReceiverStep
  <2>1. UNCHANGED <<cfg, sent, senderVars>>
    BY <1>7 DEF ReceiverStep, R!ReceiverStep, R!Receive, R!ProcessPacket, R!FinishCall
  <2>2. Undisturbed'
    <3>1. Front(t) \in Nat  BY FrontIsNat
    <3> QED BY <1>7, <3>1, ReceiveIsNext, ProcessIsNext DEF ReceiverStep, R!ReceiverStep
  <2> QED BY <1>3, <1>5, <2>1, <2>2
<1>8. CASE NetworkStep
  <2>1. UNCHANGED <<cfg, sent, senderVars>> /\ ~Faultless(cfg)
    BY <1>8 DEF NetworkStep, R!NetworkStep, R!Lose, R!Duplicate, Faultless
  <2>2. Undisturbed'  BY <2>1 DEF Undisturbed, Faultless
  <2> QED BY <1>3, <1>5, <2>1, <2>2
<1>9. CASE UNCHANGED vars
  BY <1>3, <1>4, <1>5, <1>9 DEF vars, senderVars
<1> QED BY <1>6, <1>7, <1>8, <1>9 DEF Next

LEMMA InitStreamed == Init => Streamed
<1> SUFFICES ASSUME Init  PROVE Streamed
  OBVIOUS
<1>1. \A t \in Tests : sndbuf[t] = <<>> /\ handed[t] = <<>> /\ Front(t) = 0
  BY DEF Init, S!Init, Front
<1>2. Chained
  <2>1. DOMAIN <<>> = {}  OBVIOUS
  <2> QED BY <1>1, <2>1 DEF Chained
<1>3. OnWire
  <2>1. sent = {} /\ 0 .. (0 - 1) = {}  BY DEF Init, S!Init
  <2> QED BY <1>1, <2>1 DEF OnWire
<1>4. todo = <<>> /\ Len(todo) = 0 /\ amount = 0 /\ next = 0 /\ sent = {}
  BY DEF Init, R!Init, S!Init
<1>5. Ahead = 0  BY <1>4 DEF Ahead, R!Expected
<1>6. Undisturbed
  BY <1>1, <1>4, <1>5 DEF Undisturbed, Init, R!Init, R!NoStatistic
<1> QED BY <1>2, <1>3, <1>6 DEF Streamed

(* A network that keeps the order and loses and duplicates nothing gives   *)
(* the receiver no fault to report: for one test, and a receiver that      *)
(* reads every packet it is sent.                                          *)
THEOREM NoFaultMadeUp ==
  ASSUME NEW t, Tests = {t}, \A c \in Configs : Packable(c),
         \A c \in Configs : Faultless(c) => R!EveryPacketRead(c)
  PROVE  Spec => []NoPhantomLoss
<1>1. Init => Streamed  BY InitStreamed
<1>2. TypeOK /\ SendersInv /\ SendersInv' /\ Composed /\ Streamed /\ [Next]_vars => Streamed'
  BY StepStreamed DEF TypeOK, Composed
<1>3. TypeOK /\ Streamed => NoPhantomLoss
  BY DEF TypeOK, R!TypeOK, Streamed, Undisturbed, NoPhantomLoss, R!NoPhantomLoss, Faultless
<1> QED BY <1>1, <1>2, <1>3, AlwaysComposed, SendersKeep, TypeCorrect, PTL DEF Spec
=============================================================================
