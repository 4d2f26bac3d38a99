---------------------------- MODULE Session_proof ----------------------------
(***************************************************************************)
(* Proofs about Session for every number of threads, every port mode and   *)
(* every length of the pauses that keeps to TimesAssumption.               *)
(***************************************************************************)
EXTENDS Session, CommonLemmas, TLAPS

LEMMA Times ==
  /\ WaitControl \in Nat /\ PollTimeout \in Nat /\ InitialTimeout \in Nat /\ Data \in Nat
  /\ 0 < WaitControl /\ 2 * WaitControl < PollTimeout /\ PollTimeout < InitialTimeout
BY TimesAssumption

LEMMA Threads ==
  ASSUME cfg \in Configs
  PROVE  /\ cfg.senders \in Nat \ {0} /\ cfg.receivers \in Nat \ {0} /\ cfg.take \in Nat \ {0}
         /\ cfg.skew \in Nat /\ cfg.loss \in BOOLEAN /\ cfg.busy \in BOOLEAN
         /\ cfg.port \in PortMode
         /\ cfg.port = "individual" => Senders \subseteq Receivers
         /\ Senders \subseteq Nat \ {0} /\ 1 \in Receivers
         /\ \A r \in Receivers : Sock(r) \in Receivers
         /\ \A s \in Senders : TestOf(s) \in Nat /\ TestOf(s) \in TestIds
BY ConfigsAssumption DEF Senders, Receivers, Sock, TestOf, TestIds

(* A message goes to the socket the sender is routed to, or is lost.       *)
LEMMA DeliverType ==
  ASSUME TypeOK, NEW s \in Senders, NEW type \in {"INIT", "MEASUREMENT", "LAST"}, Deliver(s, type)
  PROVE  queue' \in [Receivers -> Seq(Message)]
<1> DEFINE k == Sock(route[s])
           m == [type |-> type, test |-> TestOf(s)]
<1>1. k \in Receivers  BY Threads DEF TypeOK
<1>2. m \in Message  BY Threads DEF TypeOK, Message
<1>3. Append(queue[k], m) \in Seq(Message)  BY <1>1, <1>2, AppendProperties DEF TypeOK
<1> QED BY <1>1, <1>3 DEF Deliver, TypeOK

(* The command line is fixed, and with it who takes part.                  *)
LEMMA Frame ==
  ASSUME cfg' = cfg
  PROVE  /\ Senders' = Senders /\ Receivers' = Receivers /\ TestIds' = TestIds
         /\ \A s : TestOf(s)' = TestOf(s)
         /\ \A r : Sock(r)' = Sock(r)
BY DEF Senders, Receivers, TestIds, TestOf, Sock

SenderPc == {"start", "data", "drain", "done", "aborted"}
ReceiverPc == {"initial", "run", "wait", "leave", "done", "failed"}

LEMMA SenderMoves ==
  ASSUME TypeOK, NEW s \in Senders, NEW pc \in SenderPc, NEW n \in Nat, SenderGoesTo(s, pc, n)
  PROVE  spc' \in [Senders -> SenderPc] /\ stimer' \in [Senders -> Nat]
BY DEF TypeOK, SenderGoesTo, SenderPc

LEMMA ReceiverMoves ==
  ASSUME TypeOK, NEW r \in Receivers, NEW pc \in ReceiverPc, NEW n \in Nat,
         ReceiverGoesTo(r, pc, n)
  PROVE  rpc' \in [Receivers -> ReceiverPc] /\ rtimer' \in [Receivers -> Nat]
BY DEF TypeOK, ReceiverGoesTo, ReceiverPc

LEMMA SenderType == ASSUME TypeOK, NEW s \in Senders, SenderStep(s) PROVE TypeOK'
<1>1. WaitControl \in Nat  BY Times
<1>2. spc' \in [Senders -> SenderPc] /\ stimer' \in [Senders -> Nat]
  BY <1>1, SenderMoves
  DEF SenderStep, SendInit, SendData, StopSending, SendLast, Refused, SenderPc
<1>3. queue' \in [Receivers -> Seq(Message)]
  <2>1. CASE UNCHANGED queue  BY <2>1 DEF TypeOK
  <2>2. CASE Deliver(s, "INIT") \/ Deliver(s, "MEASUREMENT") \/ Deliver(s, "LAST")
    BY <2>2, DeliverType
  <2> QED BY <2>1, <2>2
        DEF SenderStep, SendInit, SendData, StopSending, SendLast, Refused, socketVars
<1>4. left' \in [Senders -> Nat] /\ sentData' \in Nat
  <2>1. CASE SendData(s)  BY <2>1 DEF SendData, MoreToSend, TypeOK
  <2>2. CASE UNCHANGED <<left, sentData>>  BY <2>2 DEF TypeOK
  <2> QED BY <2>1, <2>2 DEF SenderStep, SendInit, StopSending, SendLast, Refused
<1>5. UNCHANGED <<cfg, open, route, receiverVars>>
  BY DEF SenderStep, SendInit, SendData, StopSending, SendLast, Refused, socketVars
<1> QED BY <1>2, <1>3, <1>4, <1>5, Frame DEF TypeOK, SenderPc, receiverVars

LEMMA LeaveType ==
  ASSUME TypeOK, NEW r \in Receivers, Leave(r)
  PROVE  rpc' \in [Receivers -> ReceiverPc] /\ rtimer' \in [Receivers -> Nat]
<1>1. 2 * WaitControl \in Nat  BY Times
<1> QED BY <1>1, ReceiverMoves DEF Leave, ReceiverPc

(* What a call to recv takes from the socket.                              *)
Taken(r) == Min({cfg.take, Len(Inbox(r))})

LEMMA TakenRange ==
  ASSUME TypeOK, NEW r \in Receivers, Inbox(r) # <<>>
  PROVE  /\ Inbox(r) \in Seq(Message) /\ Len(Inbox(r)) \in Nat
         /\ Taken(r) \in 1 .. Len(Inbox(r)) /\ Head(Inbox(r)) \in Message
         /\ cfg.take = 1 => Taken(r) = 1
<1>1. Inbox(r) \in Seq(Message)  BY Threads DEF TypeOK, Inbox
<1>2. Len(Inbox(r)) \in Nat /\ Len(Inbox(r)) > 0 /\ Head(Inbox(r)) \in Message
  BY <1>1, LenProperties, EmptySeq, HeadTailProperties
<1>3. cfg.take \in Nat \ {0}  BY Threads DEF TypeOK
<1> DEFINE n == Len(Inbox(r))
<1> HIDE DEF n
<1>4. n \in Nat \ {0}  BY <1>2 DEF n
<1>5. \E x \in {cfg.take, n} : \A y \in {cfg.take, n} : x <= y  BY <1>3, <1>4
<1>6. Min({cfg.take, n}) \in {cfg.take, n} /\ \A y \in {cfg.take, n} : Min({cfg.take, n}) <= y
  BY <1>5 DEF Min
<1> QED BY <1>1, <1>2, <1>3, <1>4, <1>6 DEF Taken, n

(* Receive, without the case distinction on its result.                    *)
LEMMA ReceiveParts ==
  ASSUME TypeOK, NEW r \in Receivers, Receive(r)
  PROVE  LET m == Head(Inbox(r))
             result == ParseResult(ms[r], m)
         IN  /\ rpc[r] = "run" /\ Inbox(r) # <<>>
             /\ Taken(r) \in 1 .. Len(Inbox(r)) /\ m \in Message
             /\ Inbox(r) \in Seq(Message) /\ Len(Inbox(r)) \in Nat
             /\ queue' = [queue EXCEPT ![Sock(r)] = SubSeq(@, Taken(r) + 1, Len(@))]
             /\ ms' = [ms EXCEPT ![r] = Parsed(@, m)]
             /\ counted' = [counted EXCEPT ![r] = @ + (IF result = "OK" THEN Taken(r) ELSE 0)]
             /\ handlers' = [handlers EXCEPT ![m.test] = @ \cup {r}]
             /\ \/ result = "LAST" /\ AllFinished(ms'[r]) /\ Leave(r)
                \/ result \in {"panic", "ERROR"} /\ ReceiverGoesTo(r, "failed", 0)
                \/ result \notin {"panic", "ERROR"} /\ UNCHANGED <<rpc, rtimer>>
             /\ UNCHANGED <<cfg, senderVars, open, route>>
BY TakenRange DEF Receive, Taken

LEMMA CutType ==
  ASSUME NEW q \in Seq(Message), NEW n \in 1 .. Len(q)
  PROVE  /\ SubSeq(q, n + 1, Len(q)) \in Seq(Message)
         /\ Len(SubSeq(q, n + 1, Len(q))) = Len(q) - n
         /\ \A i \in 1 .. (Len(q) - n) : SubSeq(q, n + 1, Len(q))[i] = q[n + i]
<1>1. Len(q) \in Nat /\ \A i \in 1 .. Len(q) : q[i] \in Message  BY LenProperties, ElementOfSeq
<1>2. n + 1 \in Int /\ Len(q) \in Int /\ \A i \in (n + 1) .. Len(q) : q[i] \in Message  BY <1>1
<1>3. /\ SubSeq(q, n + 1, Len(q)) \in Seq(Message)
      /\ Len(SubSeq(q, n + 1, Len(q))) = IF n + 1 <= Len(q) THEN Len(q) - (n + 1) + 1 ELSE 0
      /\ \A i \in 1 .. (Len(q) - (n + 1) + 1) : SubSeq(q, n + 1, Len(q))[i] = q[(n + 1) + i - 1]
  BY <1>2, SubSeqProperties
<1> QED BY <1>1, <1>3

LEMMA ReceiveType == ASSUME TypeOK, NEW r \in Receivers, Receive(r) PROVE TypeOK'
<1> DEFINE m == Head(Inbox(r))
<1>1. /\ m \in Message /\ Inbox(r) \in Seq(Message) /\ Taken(r) \in 1 .. Len(Inbox(r))
      /\ queue' = [queue EXCEPT ![Sock(r)] = SubSeq(@, Taken(r) + 1, Len(@))]
      /\ ms' = [ms EXCEPT ![r] = Parsed(@, m)]
      /\ counted' = [counted EXCEPT ![r] =
                       @ + (IF ParseResult(ms[r], m) = "OK" THEN Taken(r) ELSE 0)]
      /\ handlers' = [handlers EXCEPT ![m.test] = @ \cup {r}]
      /\ UNCHANGED <<cfg, senderVars, open, route>>
  BY ReceiveParts
<1>2. rpc' \in [Receivers -> ReceiverPc] /\ rtimer' \in [Receivers -> Nat]
  <2>1. \/ Leave(r) \/ ReceiverGoesTo(r, "failed", 0)
        \/ UNCHANGED <<rpc, rtimer>>
    BY ReceiveParts
  <2>2. CASE UNCHANGED <<rpc, rtimer>>  BY <2>2 DEF TypeOK, ReceiverPc
  <2> QED BY <2>1, <2>2, LeaveType, ReceiverMoves DEF ReceiverPc
<1> HIDE DEF m
<1>3. queue' \in [Receivers -> Seq(Message)]
  <2>1. Sock(r) \in Receivers  BY Threads DEF TypeOK
  <2>2. SubSeq(queue[Sock(r)], Taken(r) + 1, Len(queue[Sock(r)])) \in Seq(Message)
    BY <1>1, CutType DEF Inbox
  <2> QED BY <1>1, <2>1, <2>2 DEF TypeOK
<1>4. ms' \in [Receivers -> Seq(Measurement)]
  <2>1. Parsed(ms[r], m) \in Seq(Measurement)  BY <1>1, ParsedType DEF TypeOK
  <2> QED BY <1>1, <2>1 DEF TypeOK
<1>5. counted' \in [Receivers -> Nat]  BY <1>1 DEF TypeOK
<1>6. handlers' \in [TestIds -> SUBSET Receivers]  BY <1>1 DEF TypeOK
<1> QED BY <1>1, <1>2, <1>3, <1>4, <1>5, <1>6, Frame DEF TypeOK, ReceiverPc, senderVars

LEMMA CloseType == ASSUME TypeOK, NEW r \in Receivers, Close(r) PROVE TypeOK'
<1>1. rpc' \in [Receivers -> ReceiverPc] /\ rtimer' \in [Receivers -> Nat]
  BY ReceiverMoves DEF Close, ReceiverPc
<1>2. open' \in [Receivers -> BOOLEAN]  BY DEF Close, TypeOK
<1>3. queue' \in [Receivers -> Seq(Message)]
  <2>1. <<>> \in Seq(Message)  BY EmptySeq
  <2> QED BY <2>1 DEF Close, TypeOK
<1>4. route' \in [Senders -> Receivers]
  <2>1. CASE UNCHANGED route  BY <2>1 DEF TypeOK
  <2>2. CASE route' \in [Senders -> {k \in Receivers : open'[k]}]  BY <2>2
  <2> QED BY <2>1, <2>2 DEF Close, Reroute
<1>5. UNCHANGED <<cfg, senderVars, ms, counted, handlers>>  BY DEF Close
<1> QED BY <1>1, <1>2, <1>3, <1>4, <1>5, Frame DEF TypeOK, ReceiverPc, senderVars

(* What main's close changes.                                              *)
LEMMA MainParts ==
  ASSUME TypeOK, MainCloses
  PROVE  /\ cfg.port = "sharing" /\ Ended /\ 1 \in Receivers
         /\ open'[1] = FALSE /\ queue'[1] = <<>>
         /\ \A r \in Receivers : r # 1 => queue'[r] = queue[r] /\ open'[r] = open[r]
         /\ UNCHANGED <<cfg, route, senderVars, receiverVars>>
BY Threads DEF MainCloses, MainMayClose, TypeOK

LEMMA MainType == ASSUME TypeOK, MainCloses PROVE TypeOK'
<1>1. open' \in [Receivers -> BOOLEAN]  BY DEF MainCloses, TypeOK
<1>2. queue' \in [Receivers -> Seq(Message)]
  <2>1. <<>> \in Seq(Message)  BY EmptySeq
  <2> QED BY <2>1 DEF MainCloses, TypeOK
<1>3. UNCHANGED <<cfg, route, senderVars, receiverVars>>  BY DEF MainCloses
<1> QED BY <1>1, <1>2, <1>3, Frame DEF TypeOK, senderVars, receiverVars

(* The steps of a receiver that only move it.                              *)
Moves(r) == FirstMessage(r) \/ NoMessage(r) \/ Block(r) \/ Readable(r) \/ Timeout(r)

LEMMA MovesParts ==
  ASSUME NEW r \in Receivers, Moves(r)
  PROVE  UNCHANGED <<cfg, senderVars, socketVars, ms, counted, handlers>>
BY DEF Moves, FirstMessage, NoMessage, Block, Readable, Timeout

LEMMA MovesType == ASSUME TypeOK, NEW r \in Receivers, Moves(r) PROVE TypeOK'
<1>1. rpc' \in [Receivers -> ReceiverPc] /\ rtimer' \in [Receivers -> Nat]
  <2>1. PollTimeout \in Nat  BY Times
  <2>2. \/ ReceiverGoesTo(r, "run", 0) \/ ReceiverGoesTo(r, "done", 0)
        \/ ReceiverGoesTo(r, "wait", PollTimeout) \/ Leave(r)
    BY DEF Moves, FirstMessage, NoMessage, Block, Readable, Timeout
  <2> QED BY <2>1, <2>2, ReceiverMoves, LeaveType DEF ReceiverPc
<1> QED BY <1>1, MovesParts, Frame DEF TypeOK, ReceiverPc, senderVars, socketVars

LEMMA RanDown ==
  ASSUME NEW S, NEW timer \in [S -> Nat]
  PROVE  /\ RunDown(timer) \in [S -> Nat]
         /\ \A i \in S : RunDown(timer)[i] = IF timer[i] > 0 THEN timer[i] - 1 ELSE 0
BY DEF RunDown

LEMMA TickType == ASSUME TypeOK, Tick PROVE TypeOK'
<1>1. stimer' \in [Senders -> Nat] /\ rtimer' \in [Receivers -> Nat]
  BY RanDown DEF Tick, TypeOK
<1> QED BY <1>1, Frame DEF Tick, TypeOK, socketVars

LEMMA InitType == ASSUME Init PROVE TypeOK
<1>1. <<>> \in Seq(Message) /\ <<>> \in Seq(Measurement)  BY EmptySeq
<1>2. InitialTimeout \in Nat /\ Data \in Nat  BY Times
<1>3. \A n \in 0 .. cfg.skew : n \in Nat  BY Threads DEF Init
<1> QED BY <1>1, <1>2, <1>3 DEF Init, TypeOK

LEMMA NextType == ASSUME TypeOK, [Next]_vars PROVE TypeOK'
<1>1. CASE \E s \in Senders : SenderStep(s)  BY <1>1, SenderType
<1>2. ASSUME NEW r \in Receivers, ReceiverStep(r) PROVE TypeOK'
  BY <1>2, ReceiveType, CloseType, MovesType DEF ReceiverStep, Moves
<1>3. CASE Tick  BY <1>3, TickType
<1>4. CASE UNCHANGED vars
  BY <1>4, Frame DEF vars, senderVars, receiverVars, socketVars, TypeOK
<1> QED BY <1>1, <1>2, <1>3, <1>4, MainType DEF Next

(* Type correctness: the countdowns, the counters and the measurements of  *)
(* the receivers stay in range for every port mode (receiver.rs 174-231,   *)
(* 584-672; sender.rs 331-428).                                            *)
THEOREM TypeCorrect == Spec => []TypeOK
<1>1. Init => TypeOK  BY InitType
<1>2. TypeOK /\ [Next]_vars => TypeOK'  BY NextType
<1> QED BY <1>1, <1>2, PTL DEF Spec
-----------------------------------------------------------------------------
(* Where time stands: the ticks until a sender sends LAST, and those until *)
(* it sends anything again.                                                *)

Active(s) == spc[s] \in {"start", "data", "drain"}
AllDone == \A s \in Senders : ~Active(s)

RestOf(pc, timer, n) ==
  CASE pc = "start" -> timer + n + 2 * WaitControl
    [] pc = "data" -> timer + n + WaitControl
    [] pc = "drain" -> timer
    [] OTHER -> 0

Rest(s) == RestOf(spc[s], stimer[s], left[s])

UntilNext(s) ==
  IF spc[s] = "data" /\ left[s] = 0 THEN stimer[s] + WaitControl ELSE stimer[s]

Clocks ==
  \A s \in Senders :
    /\ left[s] <= Data
    /\ spc[s] = "start" => left[s] = Data /\ stimer[s] <= cfg.skew
    /\ spc[s] \in {"data", "drain"} => stimer[s] <= WaitControl
    /\ ~Active(s) => stimer[s] = 0

Routes ==
  /\ cfg.port = "individual" => \A s \in Senders : route[s] = s
  /\ cfg.port = "sharing" =>
       (\A s \in Senders : route[s] = 1) /\ (\A r \in Receivers : rpc[r] # "leave")

LEMMA RestIs ==
  ASSUME NEW pc \in SenderPc, NEW timer \in Nat, NEW n \in Nat
  PROVE  /\ pc = "start" => RestOf(pc, timer, n) = timer + n + 2 * WaitControl
         /\ pc = "data" => RestOf(pc, timer, n) = timer + n + WaitControl
         /\ pc = "drain" => RestOf(pc, timer, n) = timer
         /\ pc \in {"done", "aborted"} => RestOf(pc, timer, n) = 0
         /\ RestOf(pc, timer, n) \in Nat
BY Times DEF RestOf, SenderPc

LEMMA SenderRange ==
  ASSUME TypeOK, NEW s \in Senders
  PROVE  spc[s] \in SenderPc /\ stimer[s] \in Nat /\ left[s] \in Nat /\ Rest(s) \in Nat
<1>1. spc[s] \in SenderPc /\ stimer[s] \in Nat /\ left[s] \in Nat  BY DEF TypeOK, SenderPc
<1> QED BY <1>1, RestIs DEF Rest

(* A step of a sender, whichever it is: it sends a message or not, and no  *)
(* step but giving up changes when LAST is due.                            *)
LEMMA SenderParts ==
  ASSUME TypeOK, NEW s \in Senders, SenderStep(s)
  PROVE  /\ UNCHANGED <<cfg, open, route, receiverVars>>
         /\ Active(s) /\ stimer[s] = 0
         /\ spc' \in [Senders -> SenderPc] /\ stimer' \in [Senders -> Nat]
         /\ left' \in [Senders -> Nat]
         /\ \A u \in Senders : u # s => /\ spc'[u] = spc[u] /\ stimer'[u] = stimer[u]
                                        /\ left'[u] = left[u]
         /\ \/ /\ spc[s] = "start" /\ Deliver(s, "INIT")
               /\ spc'[s] = "data" /\ stimer'[s] = WaitControl /\ left'[s] = left[s]
            \/ /\ spc[s] = "data" /\ left[s] > 0 /\ Deliver(s, "MEASUREMENT")
               /\ spc'[s] = "data" /\ stimer'[s] = 1 /\ left'[s] = left[s] - 1
            \/ /\ spc[s] = "data" /\ ~(left[s] > 0) /\ UNCHANGED queue
               /\ spc'[s] = "drain" /\ stimer'[s] = WaitControl /\ left'[s] = left[s]
            \/ /\ spc[s] = "drain" /\ Deliver(s, "LAST")
               /\ spc'[s] = "done" /\ stimer'[s] = 0 /\ left'[s] = left[s]
            \/ /\ ~open[Sock(route[s])] /\ UNCHANGED queue
               /\ spc'[s] = "aborted" /\ stimer'[s] = 0 /\ left'[s] = left[s]
<1>1. spc' \in [Senders -> SenderPc] /\ stimer' \in [Senders -> Nat] /\ left' \in [Senders -> Nat]
  <2>1. TypeOK'  BY SenderType
  <2>2. cfg' = cfg
    BY DEF SenderStep, SendInit, SendData, StopSending, SendLast, Refused
  <2> QED BY <2>1, <2>2, Frame DEF TypeOK, SenderPc
<1>2. spc \in [Senders -> SenderPc] /\ stimer \in [Senders -> Nat] /\ left \in [Senders -> Nat]
  BY DEF TypeOK, SenderPc
<1>3. CASE SendInit(s)  BY <1>1, <1>2, <1>3 DEF SendInit, SenderAt, SenderGoesTo, Active
<1>4. CASE SendData(s)
  BY <1>1, <1>2, <1>4 DEF SendData, SenderAt, SenderGoesTo, Active, MoreToSend
<1>5. CASE StopSending(s)
  BY <1>1, <1>2, <1>5 DEF StopSending, SenderAt, SenderGoesTo, Active, MoreToSend, socketVars
<1>6. CASE SendLast(s)  BY <1>1, <1>2, <1>6 DEF SendLast, SenderAt, SenderGoesTo, Active
<1>7. CASE Refused(s)
  BY <1>1, <1>2, <1>7 DEF Refused, SenderAt, SenderGoesTo, Active, socketVars
<1> QED BY <1>3, <1>4, <1>5, <1>6, <1>7 DEF SenderStep

LEMMA TickParts ==
  ASSUME TypeOK, Tick
  PROVE  /\ UNCHANGED <<cfg, spc, left, sentData, socketVars, rpc, ms, counted, handlers>>
         /\ \A s \in Senders : stimer'[s] = IF stimer[s] > 0 THEN stimer[s] - 1 ELSE 0
         /\ \A r \in Receivers : rtimer'[r] = IF rtimer[r] > 0 THEN rtimer[r] - 1 ELSE 0
         /\ \A s \in Senders : Active(s) => stimer[s] > 0
         /\ \A r \in Receivers : rpc[r] = "leave" => rtimer[r] > 0
         /\ \A r \in Receivers : rpc[r] = "wait" => Inbox(r) = <<>> /\ rtimer[r] > 0
         /\ \A r \in Receivers : rpc[r] \in {"initial", "run"} => Inbox(r) = <<>>
<1>1. Quiet /\ stimer' = RunDown(stimer) /\ rtimer' = RunDown(rtimer)  BY DEF Tick
<1>2. /\ \A s \in Senders : stimer'[s] = IF stimer[s] > 0 THEN stimer[s] - 1 ELSE 0
      /\ \A r \in Receivers : rtimer'[r] = IF rtimer[r] > 0 THEN rtimer[r] - 1 ELSE 0
  <2>1. stimer \in [Senders -> Nat] /\ rtimer \in [Receivers -> Nat]  BY DEF TypeOK
  <2>2. \A s \in Senders : RunDown(stimer)[s] = IF stimer[s] > 0 THEN stimer[s] - 1 ELSE 0
    BY <2>1, RanDown
  <2>3. \A r \in Receivers : RunDown(rtimer)[r] = IF rtimer[r] > 0 THEN rtimer[r] - 1 ELSE 0
    BY <2>1, RanDown
  <2> QED BY <1>1, <2>2, <2>3
<1>3. \A s \in Senders : Active(s) => stimer[s] > 0  BY <1>1 DEF Quiet, Active
<1>4. ASSUME NEW r \in Receivers
      PROVE  /\ rpc[r] = "leave" => rtimer[r] > 0
             /\ rpc[r] = "wait" => Inbox(r) = <<>> /\ rtimer[r] > 0
             /\ rpc[r] \in {"initial", "run"} => Inbox(r) = <<>>
  <2>1. \/ rpc[r] \in {"done", "failed"}
        \/ rpc[r] = "leave" /\ rtimer[r] > 0
        \/ rpc[r] \in {"initial", "wait"} /\ Inbox(r) = <<>> /\ rtimer[r] > 0
        \/ rpc[r] = "run" /\ Inbox(r) = <<>> /\ cfg.busy
    BY <1>1 DEF Quiet
  <2> QED BY <2>1
<1>5. UNCHANGED <<cfg, spc, left, sentData, socketVars, rpc, ms, counted, handlers>>  BY DEF Tick
<1> QED BY <1>2, <1>3, <1>4, <1>5

LEMMA StepClocks == ASSUME TypeOK, Clocks, [Next]_vars PROVE Clocks'
<1>1. ASSUME NEW s \in Senders, SenderStep(s) PROVE Clocks'
  <2> SUFFICES ASSUME NEW u \in Senders
               PROVE  /\ left'[u] <= Data
                      /\ spc'[u] = "start" => left'[u] = Data /\ stimer'[u] <= cfg.skew
                      /\ spc'[u] \in {"data", "drain"} => stimer'[u] <= WaitControl
                      /\ ~Active(u)' => stimer'[u] = 0
    BY <1>1, SenderParts, Frame DEF Clocks
  <2>1. CASE u # s  BY <1>1, <2>1, SenderParts DEF Clocks, Active
  <2>2. CASE u = s  BY <1>1, <2>2, SenderParts, SenderRange, Times DEF Clocks, Active
  <2> QED BY <2>1, <2>2
<1>2. CASE Tick
  <2> SUFFICES ASSUME NEW u \in Senders
               PROVE  /\ left'[u] <= Data
                      /\ spc'[u] = "start" => left'[u] = Data /\ stimer'[u] <= cfg.skew
                      /\ spc'[u] \in {"data", "drain"} => stimer'[u] <= WaitControl
                      /\ ~Active(u)' => stimer'[u] = 0
    BY <1>2, TickParts, Frame DEF Clocks
  <2>1. stimer'[u] <= stimer[u] /\ (stimer[u] = 0 => stimer'[u] = 0) /\ stimer'[u] \in Int
    BY <1>2, TickParts, SenderRange
  <2>2. stimer[u] \in Nat /\ WaitControl \in Nat /\ cfg.skew \in Nat
    BY SenderRange, Times, Threads DEF TypeOK
  <2> QED BY <1>2, <2>1, <2>2, TickParts DEF Clocks, Active
<1>3. CASE UNCHANGED <<cfg, senderVars>>
  BY <1>3, Frame DEF Clocks, Active, senderVars
<1>4. ASSUME NEW r \in Receivers, ReceiverStep(r) PROVE UNCHANGED <<cfg, senderVars>>
  BY <1>4, MovesParts, ReceiveParts DEF ReceiverStep, Moves, Close
<1> QED BY <1>1, <1>2, <1>3, <1>4, MainParts DEF Next, vars

LEMMA LeaveParts ==
  ASSUME TypeOK, NEW r \in Receivers, Leave(r)
  PROVE  /\ \A q \in Receivers : q # r => rpc'[q] = rpc[q] /\ rtimer'[q] = rtimer[q]
         /\ cfg.port = "sharing" => rpc'[r] = "done"
         /\ cfg.port = "sharding" => rpc'[r] = "leave" /\ rtimer'[r] = 2 * WaitControl
         /\ cfg.port = "individual" => rpc'[r] = "leave"
BY Threads DEF Leave, ReceiverGoesTo, TypeOK, PortMode

(* What a step of a receiver may do to where receivers are.                *)
LEMMA ReceiverPlaces ==
  ASSUME TypeOK, NEW r \in Receivers, ReceiverStep(r)
  PROVE  /\ UNCHANGED <<cfg, senderVars>>
         /\ \A q \in Receivers : q # r => rpc'[q] = rpc[q] /\ rtimer'[q] = rtimer[q]
         /\ rpc'[r] = "leave" => rpc[r] = "leave" \/ Leave(r)
         /\ ~Close(r) => UNCHANGED <<open, route>>
<1>1. CASE Moves(r)
  <2>1. UNCHANGED <<cfg, senderVars, open, route>>  BY <1>1, MovesParts DEF socketVars
  <2>2. CASE Leave(r)  BY <2>1, <2>2, LeaveParts
  <2>3. ASSUME NEW pc \in ReceiverPc, pc # "leave", NEW n \in Nat, ReceiverGoesTo(r, pc, n)
        PROVE  /\ \A q \in Receivers : q # r => rpc'[q] = rpc[q] /\ rtimer'[q] = rtimer[q]
               /\ rpc'[r] # "leave"
    BY <2>3 DEF ReceiverGoesTo, TypeOK
  <2>4. PollTimeout \in Nat  BY Times
  <2>5. \/ ReceiverGoesTo(r, "run", 0) \/ ReceiverGoesTo(r, "done", 0)
        \/ ReceiverGoesTo(r, "wait", PollTimeout) \/ Leave(r)
    BY <1>1 DEF Moves, FirstMessage, NoMessage, Block, Readable, Timeout
  <2> QED BY <2>1, <2>2, <2>3, <2>4, <2>5 DEF ReceiverPc
<1>2. CASE Receive(r)
  <2>1. UNCHANGED <<cfg, senderVars, open, route>>  BY <1>2, ReceiveParts
  <2>2. Leave(r) \/ ReceiverGoesTo(r, "failed", 0) \/ UNCHANGED <<rpc, rtimer>>
    BY <1>2, ReceiveParts
  <2>3. CASE Leave(r)  BY <2>1, <2>3, LeaveParts
  <2>4. CASE ReceiverGoesTo(r, "failed", 0)  BY <2>1, <2>4 DEF ReceiverGoesTo, TypeOK
  <2>5. CASE UNCHANGED <<rpc, rtimer>>  BY <2>1, <2>5
  <2> QED BY <2>2, <2>3, <2>4, <2>5
<1>3. CASE Close(r)
  BY <1>3 DEF Close, ReceiverGoesTo, TypeOK
<1> QED BY <1>1, <1>2, <1>3 DEF ReceiverStep, Moves

LEMMA StepRoutes == ASSUME TypeOK, Routes, [Next]_vars PROVE Routes'
<1>1. ASSUME UNCHANGED <<cfg, route, rpc>> PROVE Routes'
  BY <1>1, Frame DEF Routes
<1>2. ASSUME NEW s \in Senders, SenderStep(s) PROVE Routes'
  BY <1>1, <1>2, SenderParts DEF receiverVars
<1>3. CASE Tick \/ MainCloses \/ UNCHANGED vars
  BY <1>1, <1>3, TickParts, MainParts DEF socketVars, vars, receiverVars
<1>4. ASSUME NEW r \in Receivers, ReceiverStep(r), ~Close(r) PROVE Routes'
  <2>1. cfg.port = "sharing" => rpc'[r] # "leave"
    BY <1>4, ReceiverPlaces, LeaveParts DEF Routes
  <2> QED BY <1>4, <2>1, ReceiverPlaces, Frame DEF Routes
<1>5. ASSUME NEW r \in Receivers, Close(r) PROVE Routes'
  <2>1. cfg.port # "sharing" /\ cfg' = cfg  BY <1>5 DEF Routes, Close
  <2>2. cfg.port = "individual" => UNCHANGED route  BY <1>5 DEF Close, Reroute
  <2> QED BY <2>1, <2>2, Frame DEF Routes
<1> QED BY <1>2, <1>3, <1>4, <1>5 DEF Next, ReceiverStep
-----------------------------------------------------------------------------
(* Nothing is lost on the way, and the senders start together: then they   *)
(* stay together, and what a receiver that leaves knows of one of them it  *)
(* knows of all.                                                           *)

Reliable == ~cfg.loss /\ StartTogether

(* No sender's messages are lost, now or later, with the socket of r.      *)
Clear(r) == \A u \in Senders : Active(u) => cfg.port # "sharding" /\ route[u] # r

NoneAborted == \A s \in Senders : spc[s] # "aborted"

Spread == \A s, u \in Senders : Rest(u) <= Rest(s) + cfg.skew

(* A receiver waits longer before it closes its socket than any sender     *)
(* needs; one with a port of its own has nothing to wait for.              *)
Leaving ==
  \A r \in Receivers : rpc[r] = "leave" =>
    /\ cfg.port = "sharding" => \A u \in Senders : Active(u) => Rest(u) < rtimer[r]
    /\ cfg.port = "individual" => Clear(r)

Closed == \A r \in Receivers : ~open[r] => Clear(r)

(* A receiver that has got a message has a sender.                         *)
Begun ==
  \A r \in Receivers : rpc[r] \in {"run", "wait"} \/ queue[r] # <<>> =>
    AllDone \/ \E s \in Senders : route[s] = r /\ spc[s] # "start"

(* Where LAST is, its sender is done.                                      *)
Sent ==
  \A r \in Receivers : \A i \in DOMAIN queue[r] : queue[r][i].type = "LAST" =>
    \E s \in Senders : spc[s] = "done" /\ (cfg.port = "individual" => s = r)

(* A receiver that waits gets a message before it times out, unless all    *)
(* the senders it has heard of are done.                                   *)
Waits ==
  \A r \in Receivers : rpc[r] = "wait" /\ queue[r] = <<>> =>
    \A s \in Senders : route[s] = r /\ spc[s] \in {"data", "drain"} => UntilNext(s) < rtimer[r]

OwnSockets == Leaving /\ Closed /\ Begun /\ Sent /\ Waits

Calm == Reliable /\ cfg.port # "sharing" => NoneAborted /\ Spread /\ OwnSockets

LEMMA StillOpen ==
  ASSUME TypeOK, Calm, Reliable, cfg.port # "sharing", NEW s \in Senders, Active(s)
  PROVE  open[Sock(route[s])]
<1>1. Sock(route[s]) = route[s] /\ route[s] \in Receivers  BY DEF Sock, TypeOK
<1> QED BY <1>1 DEF Calm, OwnSockets, Closed, Clear

(* A step of a sender does not change when LAST is due.                    *)
LEMMA SenderRest ==
  ASSUME TypeOK, NEW s \in Senders, SenderStep(s), spc'[s] = "aborted" => Rest(s) = 0
  PROVE  \A u \in Senders : Rest(u)' = Rest(u)
<1>1. /\ spc[s] \in SenderPc /\ left[s] \in Nat /\ WaitControl \in Nat
      /\ spc'[s] \in SenderPc /\ stimer'[s] \in Nat /\ left'[s] \in Nat /\ stimer[s] = 0
  BY SenderRange, SenderParts, Times
<1>2. /\ spc[s] = "start" => Rest(s) = stimer[s] + left[s] + 2 * WaitControl
      /\ spc[s] = "data" => Rest(s) = stimer[s] + left[s] + WaitControl
      /\ spc[s] = "drain" => Rest(s) = stimer[s]
  BY <1>1 DEF Rest, RestOf, SenderPc
<1>3. /\ spc'[s] = "data" => Rest(s)' = stimer'[s] + left'[s] + WaitControl
      /\ spc'[s] = "drain" => Rest(s)' = stimer'[s]
      /\ spc'[s] \in {"done", "aborted"} => Rest(s)' = 0
  BY <1>1 DEF Rest, RestOf, SenderPc
<1>4. Rest(s)' = Rest(s)  BY <1>1, <1>2, <1>3, SenderParts
<1>5. \A u \in Senders : u # s => Rest(u)' = Rest(u)  BY SenderParts DEF Rest
<1> QED BY <1>4, <1>5

Message_(type, s) == [type |-> type, test |-> TestOf(s)]

(* A step of a sender when nothing is lost.                                *)
LEMMA SenderReliable ==
  ASSUME TypeOK, Calm, Reliable, cfg.port # "sharing", NEW s \in Senders, SenderStep(s)
  PROVE  /\ \A u \in Senders : /\ Rest(u)' = Rest(u)
                               /\ Active(u)' => Active(u)
                               /\ spc'[u] # "aborted"
                               /\ spc[u] # "start" => spc'[u] # "start"
                               /\ spc[u] = "done" => spc'[u] = "done"
         /\ spc'[s] # "start"
         /\ \/ /\ UNCHANGED queue /\ spc[s] = "data" /\ left[s] = 0 /\ stimer[s] = 0
               /\ spc'[s] = "drain" /\ stimer'[s] = WaitControl
            \/ \E type \in {"INIT", "MEASUREMENT", "LAST"} :
                 /\ queue' = [queue EXCEPT ![Sock(route[s])] = Append(@, Message_(type, s))]
                 /\ type = "LAST" => spc'[s] = "done"
                 /\ type = "INIT" => spc[s] = "start"
                 /\ type = "MEASUREMENT" => spc[s] = "data"
<1>1. Active(s) /\ open[Sock(route[s])] /\ stimer[s] = 0  BY SenderParts, StillOpen
<1>2. \A type : Deliver(s, type) =>
        queue' = [queue EXCEPT ![Sock(route[s])] = Append(@, Message_(type, s))]
  BY <1>1 DEF Deliver, Reliable, Message_
<1>3. /\ spc[s] \in SenderPc /\ left[s] \in Nat /\ WaitControl \in Nat
      /\ spc'[s] \in SenderPc /\ stimer'[s] \in Nat /\ left'[s] \in Nat
  BY SenderRange, SenderParts, Times
<1>4. \A u \in Senders : Rest(u)' = Rest(u)  BY <1>1, SenderParts, SenderRest
<1>5. \A u \in Senders : u # s => spc'[u] = spc[u]  BY SenderParts
<1>6. \A u \in Senders : /\ Rest(u)' = Rest(u)
                         /\ Active(u)' => Active(u)
                         /\ spc'[u] # "aborted"
                         /\ spc[u] # "start" => spc'[u] # "start"
                         /\ spc[u] = "done" => spc'[u] = "done"
  <2> TAKE u \in Senders
  <2>1. CASE u # s  BY <1>4, <1>5, <2>1 DEF Active, Calm, NoneAborted
  <2>2. CASE u = s  BY <1>1, <1>4, <2>2, SenderParts DEF Active
  <2> QED BY <2>1, <2>2
<1>7. spc'[s] # "start"  BY <1>1, SenderParts
<1>8. \/ /\ UNCHANGED queue /\ spc[s] = "data" /\ left[s] = 0 /\ stimer[s] = 0
         /\ spc'[s] = "drain" /\ stimer'[s] = WaitControl
      \/ \E type \in {"INIT", "MEASUREMENT", "LAST"} :
           /\ queue' = [queue EXCEPT ![Sock(route[s])] = Append(@, Message_(type, s))]
           /\ type = "LAST" => spc'[s] = "done"
           /\ type = "INIT" => spc[s] = "start"
           /\ type = "MEASUREMENT" => spc[s] = "data"
  BY <1>1, <1>2, <1>3, SenderParts
<1> QED BY <1>6, <1>7, <1>8

LEMMA SenderCalm ==
  ASSUME TypeOK, Clocks, Routes, Calm, Reliable, cfg.port # "sharing",
         NEW s \in Senders, SenderStep(s)
  PROVE  NoneAborted' /\ Spread' /\ OwnSockets'
<1>1. UNCHANGED <<cfg, open, route, rpc, rtimer>> /\ Senders' = Senders /\ Receivers' = Receivers
  BY SenderParts, Frame DEF receiverVars
<1>2. \A u \in Senders : /\ Rest(u)' = Rest(u)
                         /\ Active(u)' => Active(u)
                         /\ spc'[u] # "aborted"
                         /\ spc[u] # "start" => spc'[u] # "start"
                         /\ spc[u] = "done" => spc'[u] = "done"
  BY SenderReliable
<1>3. NoneAborted' /\ Spread'  BY <1>1, <1>2 DEF NoneAborted, Spread, Calm
<1>4. OwnSockets'
  <2>1. Leaving /\ Closed /\ Begun /\ Sent /\ Waits /\ \A r : Sock(r) = r
    BY DEF Calm, OwnSockets, Sock
  <2>2. \A r : Clear(r) => Clear(r)'  BY <1>1, <1>2 DEF Clear
  <2>3. Leaving' /\ Closed'  BY <1>1, <1>2, <2>1, <2>2 DEF Leaving, Closed
  <2>4. route[s] \in Receivers /\ queue[route[s]] \in Seq(Message)
        /\ Len(queue[route[s]]) \in Nat /\ DOMAIN queue[route[s]] = 1 .. Len(queue[route[s]])
    BY LenProperties DEF TypeOK
  <2>5. CASE /\ UNCHANGED queue /\ spc[s] = "data" /\ left[s] = 0 /\ stimer[s] = 0
             /\ spc'[s] = "drain" /\ stimer'[s] = WaitControl
    <3>1. Begun'  BY <1>1, <1>2, <2>1, <2>5 DEF Begun, AllDone
    <3>2. Sent'  BY <1>1, <1>2, <2>1, <2>5 DEF Sent
    <3>3. \A u \in Senders : spc'[u] \in {"data", "drain"} =>
            spc[u] \in {"data", "drain"} /\ UntilNext(u)' = UntilNext(u)
      <4> TAKE u \in Senders
      <4>1. CASE u # s  BY <4>1, SenderParts DEF UntilNext
      <4>2. CASE u = s  BY <2>5, <4>2, Times DEF UntilNext
      <4> QED BY <4>1, <4>2
    <3>4. Waits'  BY <1>1, <2>1, <2>5, <3>3 DEF Waits
    <3> QED BY <2>3, <3>1, <3>2, <3>4 DEF OwnSockets
  <2>6. CASE \E type \in {"INIT", "MEASUREMENT", "LAST"} :
               /\ queue' = [queue EXCEPT ![Sock(route[s])] = Append(@, Message_(type, s))]
               /\ type = "LAST" => spc'[s] = "done"
    <3>1. PICK type \in {"INIT", "MEASUREMENT", "LAST"} :
               /\ queue' = [queue EXCEPT ![Sock(route[s])] = Append(@, Message_(type, s))]
               /\ type = "LAST" => spc'[s] = "done"
      BY <2>6
    <3> DEFINE k == route[s]
               m == Message_(type, s)
    <3>2. m \in Message /\ m.type = type  BY Threads DEF Message_, Message, TypeOK
    <3>3. /\ \A r \in Receivers : r # k => queue'[r] = queue[r]
          /\ queue'[k] = Append(queue[k], m)
      BY <2>1, <2>4, <3>1 DEF TypeOK
    <3>4. /\ Append(queue[k], m) \in Seq(Message) /\ Len(Append(queue[k], m)) = Len(queue[k]) + 1
          /\ \A i \in 1 .. Len(queue[k]) : Append(queue[k], m)[i] = queue[k][i]
          /\ Append(queue[k], m)[Len(queue[k]) + 1] = m
      BY <2>4, <3>2, AppendProperties
    <3>5. queue'[k] # <<>> /\ DOMAIN queue'[k] = 1 .. (Len(queue[k]) + 1)
      BY <2>4, <3>3, <3>4, EmptySeq, LenProperties
    <3>6. spc'[s] # "start"  BY SenderReliable
    <3>7. Begun'
      <4> SUFFICES ASSUME NEW r \in Receivers, rpc[r] \in {"run", "wait"} \/ queue'[r] # <<>>
                   PROVE  AllDone' \/ \E w \in Senders : route[w] = r /\ spc'[w] # "start"
        BY <1>1 DEF Begun
      <4>1. CASE r = k  BY <3>6, <4>1
      <4>2. CASE r # k  BY <1>1, <1>2, <2>1, <3>3, <4>2 DEF Begun, AllDone
      <4> QED BY <4>1, <4>2
    <3>8. Sent'
      <4> SUFFICES ASSUME NEW r \in Receivers, NEW i \in DOMAIN queue'[r], queue'[r][i].type = "LAST"
                   PROVE  \E w \in Senders : spc'[w] = "done" /\ (cfg.port = "individual" => w = r)
        BY <1>1 DEF Sent
      <4>1. CASE r # k \/ i \in DOMAIN queue[k]
        <5>1. i \in DOMAIN queue[r] /\ queue[r][i] = queue'[r][i]
          BY <2>4, <3>3, <3>4, <4>1
        <5> QED BY <1>2, <2>1, <5>1 DEF Sent
      <4>2. CASE r = k /\ i = Len(queue[k]) + 1
        <5>1. spc'[s] = "done"  BY <3>1, <3>2, <3>3, <3>4, <4>2
        <5>2. cfg.port = "individual" => s = r  BY <4>2 DEF Routes
        <5> QED BY <5>1, <5>2
      <4> QED BY <2>4, <3>5, <4>1, <4>2
    <3>9. Waits'
      <4> SUFFICES ASSUME NEW r \in Receivers, rpc[r] = "wait", queue'[r] = <<>>,
                          NEW u \in Senders, route[u] = r, spc'[u] \in {"data", "drain"}
                   PROVE  UntilNext(u)' < rtimer[r]
        BY <1>1 DEF Waits
      <4>1. r # k /\ u # s /\ queue[r] = <<>>  BY <3>3, <3>5
      <4>2. spc'[u] = spc[u] /\ UntilNext(u)' = UntilNext(u)  BY <4>1, SenderParts DEF UntilNext
      <4> QED BY <2>1, <4>1, <4>2 DEF Waits
    <3> QED BY <2>3, <3>7, <3>8, <3>9 DEF OwnSockets
  <2> QED BY <2>5, <2>6, SenderReliable
<1> QED BY <1>3, <1>4

(* Time goes on for everyone alike.                                        *)
LEMMA TickRest ==
  ASSUME TypeOK, Tick, NEW u \in Senders
  PROVE  /\ Rest(u) \in Nat /\ Rest(u)' \in Int
         /\ Active(u) => Rest(u)' = Rest(u) - 1 /\ Rest(u) > 0
         /\ ~Active(u) => Rest(u)' = 0 /\ Rest(u) = 0
         /\ Active(u) => UntilNext(u)' = UntilNext(u) - 1 /\ UntilNext(u) \in Nat
<1>1. spc[u] \in SenderPc /\ stimer[u] \in Nat /\ left[u] \in Nat /\ WaitControl \in Nat
  BY SenderRange, Times
<1>2. /\ Active(u) => stimer[u] > 0 /\ stimer'[u] = stimer[u] - 1
      /\ spc'[u] = spc[u] /\ left'[u] = left[u]
  BY TickParts
<1>3. Active(u) => Rest(u)' = Rest(u) - 1 /\ Rest(u) > 0 /\ Rest(u) \in Nat
  BY <1>1, <1>2 DEF Rest, RestOf, Active, SenderPc
<1>4. ~Active(u) => Rest(u)' = 0 /\ Rest(u) = 0
  BY <1>1, <1>2 DEF Rest, RestOf, Active, SenderPc
<1>5. Active(u) => UntilNext(u)' = UntilNext(u) - 1 /\ UntilNext(u) \in Nat
  BY <1>1, <1>2 DEF UntilNext
<1> QED BY <1>3, <1>4, <1>5

LEMMA TickSpread == ASSUME TypeOK, Spread, Tick PROVE Spread'
<1>1. Senders' = Senders /\ cfg' = cfg  BY TickParts, Frame
<1> SUFFICES ASSUME NEW s \in Senders, NEW u \in Senders
             PROVE  Rest(u)' <= Rest(s)' + cfg.skew
  BY <1>1 DEF Spread
<1>2. Rest(u) <= Rest(s) + cfg.skew /\ cfg.skew \in Nat  BY Threads DEF Spread, TypeOK
<1> QED BY <1>2, TickRest

LEMMA TickCalm ==
  ASSUME TypeOK, Clocks, Routes, Calm, Reliable, cfg.port # "sharing", Tick
  PROVE  NoneAborted' /\ Spread' /\ OwnSockets'
<1>1. UNCHANGED <<cfg, spc, left, queue, open, route, rpc>>
      /\ Senders' = Senders /\ Receivers' = Receivers
  BY TickParts, Frame DEF socketVars
<1>2. \A u \in Senders : Active(u)' = Active(u)  BY <1>1 DEF Active
<1>3. \A u \in Senders :
        /\ Rest(u) \in Nat /\ Rest(u)' \in Int
        /\ Active(u) => Rest(u)' = Rest(u) - 1 /\ Rest(u) > 0
        /\ ~Active(u) => Rest(u)' = 0 /\ Rest(u) = 0
        /\ Active(u) => UntilNext(u)' = UntilNext(u) - 1 /\ UntilNext(u) \in Nat
  BY TickRest
<1>4. NoneAborted'  BY <1>1 DEF NoneAborted, Calm
<1>5. Spread'  BY TickSpread DEF Calm
<1>6. OwnSockets'
  <2>1. Leaving /\ Closed /\ Begun /\ Sent /\ Waits  BY DEF Calm, OwnSockets
  <2>2. \A r : Clear(r)' = Clear(r)  BY <1>1, <1>2 DEF Clear
  <2>3. Leaving'
    <3> SUFFICES ASSUME NEW r \in Receivers, rpc[r] = "leave"
                 PROVE  /\ cfg.port = "sharding" =>
                             \A u \in Senders : Active(u) => Rest(u)' < rtimer'[r]
                        /\ cfg.port = "individual" => Clear(r)
      BY <1>1, <1>2, <2>2 DEF Leaving
    <3>1. rtimer'[r] = rtimer[r] - 1 /\ rtimer[r] \in Nat  BY TickParts DEF TypeOK
    <3> QED BY <1>3, <2>1, <3>1 DEF Leaving
  <2>4. Closed' /\ Sent'  BY <1>1, <2>1, <2>2 DEF Closed, Sent
  <2>5. Begun'  BY <1>1, <1>2, <2>1 DEF Begun, AllDone
  <2>6. Waits'
    <3> SUFFICES ASSUME NEW r \in Receivers, rpc[r] = "wait", queue[r] = <<>>,
                        NEW s \in Senders, route[s] = r, spc[s] \in {"data", "drain"}
                 PROVE  UntilNext(s)' < rtimer'[r]
      BY <1>1 DEF Waits
    <3>1. rtimer'[r] = rtimer[r] - 1 /\ rtimer[r] \in Nat  BY TickParts DEF TypeOK
    <3> QED BY <1>3, <2>1, <3>1 DEF Waits, Active
  <2> QED BY <2>3, <2>4, <2>5, <2>6 DEF OwnSockets
<1> QED BY <1>4, <1>5, <1>6

(* A receiver leaves: its senders are done, or one that is tells it when   *)
(* the others will be.                                                     *)
LEMMA LeaveCalm ==
  ASSUME TypeOK, Routes, Reliable, NoneAborted, Spread, Leaving, cfg.port # "sharing",
         NEW r \in Receivers, Leave(r), UNCHANGED <<cfg, senderVars, route>>,
         AllDone \/ \E s \in Senders : spc[s] = "done" /\ (cfg.port = "individual" => s = r)
  PROVE  Leaving'
<1>1. Senders' = Senders /\ Receivers' = Receivers  BY Frame
<1>2. \A u : Rest(u)' = Rest(u) /\ Active(u)' = Active(u) /\ Clear(u)' = Clear(u)
  BY <1>1 DEF senderVars, Rest, Active, Clear
<1>3. \A q \in Receivers : q # r => rpc'[q] = rpc[q] /\ rtimer'[q] = rtimer[q]  BY LeaveParts
<1>4. ASSUME cfg.port = "sharding", NEW u \in Senders, Active(u)
      PROVE  Rest(u) < rtimer'[r]
  <2>1. PICK s \in Senders : spc[s] = "done"  BY <1>4 DEF AllDone
  <2>2. Rest(s) = 0  BY <2>1, SenderRange, RestIs DEF Rest
  <2>3. Rest(u) <= Rest(s) + cfg.skew  BY DEF Spread
  <2>4. cfg.skew < 2 * WaitControl  BY DEF Reliable, StartTogether
  <2>5. rtimer'[r] = 2 * WaitControl  BY <1>4, LeaveParts
  <2>6. Rest(u) \in Nat /\ cfg.skew \in Nat /\ WaitControl \in Nat
    BY SenderRange, Threads, Times DEF TypeOK
  <2> QED BY <2>2, <2>3, <2>4, <2>5, <2>6
<1>5. cfg.port = "individual" => Clear(r)
  BY DEF AllDone, Clear, Routes, Active
<1> QED BY <1>1, <1>2, <1>3, <1>4, <1>5 DEF Leaving

LEMMA MovesCalm ==
  ASSUME TypeOK, Clocks, Routes, Calm, Reliable, cfg.port # "sharing",
         NEW r \in Receivers, Moves(r)
  PROVE  OwnSockets'
<1>1. UNCHANGED <<cfg, senderVars, queue, open, route>>
      /\ Senders' = Senders /\ Receivers' = Receivers
  BY MovesParts, Frame DEF socketVars
<1>2. NoneAborted /\ Spread /\ Leaving /\ Closed /\ Begun /\ Sent /\ Waits
  BY DEF Calm, OwnSockets
<1>3. \A u : /\ Rest(u)' = Rest(u) /\ Active(u)' = Active(u) /\ Clear(u)' = Clear(u)
             /\ UntilNext(u)' = UntilNext(u)
  BY <1>1 DEF senderVars, Rest, Active, Clear, UntilNext
<1>4. Inbox(r) = queue[r] /\ spc' = spc  BY <1>1 DEF Inbox, Sock, senderVars
<1>5. Closed' /\ Sent'  BY <1>1, <1>2, <1>3, <1>4 DEF Closed, Sent
<1>6. \A q \in Receivers : q # r => rpc'[q] = rpc[q] /\ rtimer'[q] = rtimer[q]
  BY ReceiverPlaces DEF ReceiverStep, Moves
<1>7. Begun'
  <2>1. rpc'[r] \in {"run", "wait"} => rpc[r] \in {"run", "wait"} \/ queue[r] # <<>>
    <3>1. CASE Leave(r)  BY <3>1, LeaveParts, Threads DEF TypeOK, PortMode
    <3>2. CASE ~Leave(r)
      BY <1>4, <3>2
      DEF Moves, FirstMessage, NoMessage, Block, Readable, Timeout, ReceiverGoesTo, TypeOK
    <3> QED BY <3>1, <3>2
  <2> QED BY <1>1, <1>2, <1>3, <1>4, <1>6, <2>1 DEF Begun, AllDone
<1>8. Waits'
  <2> SUFFICES ASSUME rpc'[r] = "wait", NEW s \in Senders, route[s] = r, spc[s] \in {"data", "drain"}
               PROVE  UntilNext(s) < rtimer'[r]
    BY <1>1, <1>2, <1>3, <1>4, <1>6 DEF Waits
  <2>1. ~Leave(r)  BY LeaveParts, Threads DEF TypeOK, PortMode
  <2>2. rtimer'[r] = PollTimeout
    BY <2>1 DEF Moves, FirstMessage, NoMessage, Block, Readable, Timeout, ReceiverGoesTo, TypeOK
  <2>3. UntilNext(s) <= 2 * WaitControl
    BY SenderRange, Times DEF Clocks, UntilNext
  <2>4. UntilNext(s) \in Nat  BY SenderRange, Times DEF UntilNext
  <2> QED BY <2>2, <2>3, <2>4, Times
<1>9. Leaving'
  <2>1. CASE Timeout(r)
    <3>1. Leave(r) /\ rpc[r] = "wait" /\ queue[r] = <<>> /\ rtimer[r] = 0
      BY <1>4, <2>1 DEF Timeout
    <3>2. \A s \in Senders : route[s] = r /\ spc[s] # "start" => spc[s] = "done"
      <4> TAKE s \in Senders
      <4> HAVE route[s] = r /\ spc[s] # "start"
      <4>1. UntilNext(s) \in Nat  BY SenderRange, Times DEF UntilNext
      <4>2. spc[s] \notin {"data", "drain"}  BY <1>2, <3>1, <4>1 DEF Waits
      <4> QED BY <1>2, <4>2, SenderRange DEF NoneAborted, SenderPc
    <3>3. AllDone \/ \E s \in Senders : spc[s] = "done" /\ (cfg.port = "individual" => s = r)
      BY <1>2, <3>1, <3>2 DEF Begun, Routes
    <3> QED BY <1>1, <1>2, <3>1, <3>3, LeaveCalm
  <2>2. CASE ~Timeout(r)
    <3>1. rpc'[r] # "leave"
      BY <2>2 DEF Moves, FirstMessage, NoMessage, Block, Readable, ReceiverGoesTo, TypeOK
    <3> QED BY <1>1, <1>2, <1>3, <1>6, <3>1 DEF Leaving
  <2> QED BY <2>1, <2>2
<1> QED BY <1>5, <1>7, <1>8, <1>9 DEF OwnSockets

LEMMA ReceiveCalm ==
  ASSUME TypeOK, Clocks, Routes, Calm, Reliable, cfg.port # "sharing",
         NEW r \in Receivers, Receive(r)
  PROVE  OwnSockets'
<1> DEFINE n == Taken(r)
<1>1. UNCHANGED <<cfg, senderVars, open, route>>
      /\ Senders' = Senders /\ Receivers' = Receivers
  BY ReceiveParts, Frame
<1>2. NoneAborted /\ Spread /\ Leaving /\ Closed /\ Begun /\ Sent /\ Waits
  BY DEF Calm, OwnSockets
<1>3. \A u : /\ Rest(u)' = Rest(u) /\ Active(u)' = Active(u) /\ Clear(u)' = Clear(u)
             /\ UntilNext(u)' = UntilNext(u)
  BY <1>1 DEF senderVars, Rest, Active, Clear, UntilNext
<1>4. Inbox(r) = queue[r] /\ spc' = spc /\ Sock(r) = r  BY <1>1 DEF Inbox, Sock, senderVars
<1>5. /\ rpc[r] = "run" /\ queue[r] # <<>> /\ queue[r] \in Seq(Message)
      /\ n \in 1 .. Len(queue[r]) /\ Len(queue[r]) \in Nat
      /\ queue' = [queue EXCEPT ![r] = SubSeq(@, n + 1, Len(@))]
  BY <1>4, ReceiveParts
<1> HIDE DEF n
<1>6. \A q \in Receivers : q # r => rpc'[q] = rpc[q] /\ rtimer'[q] = rtimer[q] /\ queue'[q] = queue[q]
  BY <1>5, ReceiverPlaces DEF ReceiverStep
<1>7. rpc'[r] # "wait"
  <2>1. CASE Leave(r)  BY <2>1, LeaveParts, Threads DEF TypeOK, PortMode
  <2>2. CASE ReceiverGoesTo(r, "failed", 0) \/ UNCHANGED <<rpc, rtimer>>
    BY <1>5, <2>2 DEF ReceiverGoesTo, TypeOK
  <2> QED BY <2>1, <2>2, ReceiveParts
<1>8. Closed'  BY <1>1, <1>2, <1>3 DEF Closed
<1>9. Begun'  BY <1>1, <1>2, <1>3, <1>4, <1>5, <1>6 DEF Begun, AllDone
<1>10. Waits'  BY <1>1, <1>2, <1>3, <1>4, <1>6, <1>7 DEF Waits
<1>11. Sent'
  <2>1. /\ SubSeq(queue[r], n + 1, Len(queue[r])) \in Seq(Message)
        /\ Len(SubSeq(queue[r], n + 1, Len(queue[r]))) = Len(queue[r]) - n
        /\ \A i \in 1 .. (Len(queue[r]) - n) :
             SubSeq(queue[r], n + 1, Len(queue[r]))[i] = queue[r][n + i]
    BY <1>5, CutType
  <2>2. queue'[r] = SubSeq(queue[r], n + 1, Len(queue[r]))  BY <1>5 DEF TypeOK
  <2>3. DOMAIN queue'[r] = 1 .. (Len(queue[r]) - n) /\ DOMAIN queue[r] = 1 .. Len(queue[r])
    BY <1>5, <2>1, <2>2, LenProperties
  <2>4. \A i \in DOMAIN queue'[r] : n + i \in DOMAIN queue[r] /\ queue'[r][i] = queue[r][n + i]
    BY <1>5, <2>1, <2>2, <2>3
  <2> QED BY <1>1, <1>2, <1>4, <1>6, <2>4 DEF Sent
<1>12. Leaving'
  <2>1. CASE Leave(r)
    <3>1. CASE ParseResult(ms[r], Head(Inbox(r))) = "LAST"
      <4>1. Head(queue[r]) \in Message /\ Head(queue[r]) = queue[r][1] /\ 1 \in DOMAIN queue[r]
        BY <1>5, HeadTailProperties, LenProperties
      <4>2. Head(queue[r]).type = "LAST"  BY <1>4, <3>1, <4>1 DEF ParseResult, Message
      <4>3. \E s \in Senders : spc[s] = "done" /\ (cfg.port = "individual" => s = r)
        BY <1>2, <4>1, <4>2 DEF Sent
      <4> QED BY <1>1, <1>2, <2>1, <4>3, LeaveCalm
    <3>2. CASE ParseResult(ms[r], Head(Inbox(r))) # "LAST"
      <4>1. ReceiverGoesTo(r, "failed", 0) \/ UNCHANGED <<rpc, rtimer>>
        BY <3>2, ReceiveParts
      <4>2. rpc'[r] # "leave"  BY <1>5, <4>1 DEF ReceiverGoesTo, TypeOK
      <4> QED BY <1>1, <1>2, <1>3, <1>6, <4>2 DEF Leaving
    <3> QED BY <3>1, <3>2
  <2>2. CASE ~Leave(r)
    <3>1. rpc'[r] # "leave"  BY <1>5, <2>2, ReceiverPlaces DEF ReceiverStep
    <3> QED BY <1>1, <1>2, <1>3, <1>6, <3>1 DEF Leaving
  <2> QED BY <2>1, <2>2
<1> QED BY <1>8, <1>9, <1>10, <1>11, <1>12 DEF OwnSockets

LEMMA CloseParts ==
  ASSUME TypeOK, NEW r \in Receivers, Close(r)
  PROVE  /\ rpc[r] = "leave" /\ rtimer[r] = 0 /\ rpc'[r] = "done"
         /\ \A q \in Receivers : q # r => /\ rpc'[q] = rpc[q] /\ rtimer'[q] = rtimer[q]
                                          /\ queue'[q] = queue[q] /\ open'[q] = open[q]
         /\ open'[r] = FALSE /\ queue'[r] = <<>>
         /\ cfg.port # "sharding" => UNCHANGED route
         /\ UNCHANGED <<cfg, senderVars, ms, counted, handlers>>
BY DEF Close, Reroute, ReceiverGoesTo, TypeOK

(* A receiver that closes a sharded port's socket has waited for all.      *)
LEMMA ClosesAfterAll ==
  ASSUME TypeOK, Calm, Reliable, NEW r \in Receivers, Close(r), cfg.port = "sharding"
  PROVE  AllDone
<1> SUFFICES ASSUME NEW u \in Senders, Active(u) PROVE FALSE
  BY DEF AllDone
<1>1. Rest(u) < rtimer[r]  BY CloseParts DEF Calm, OwnSockets, Leaving
<1>2. rtimer[r] = 0 /\ Rest(u) \in Nat  BY CloseParts, SenderRange
<1> QED BY <1>1, <1>2

LEMMA CloseCalm ==
  ASSUME TypeOK, Clocks, Routes, Calm, Reliable, cfg.port # "sharing",
         NEW r \in Receivers, Close(r)
  PROVE  OwnSockets'
<1>1. UNCHANGED <<cfg, senderVars>> /\ Senders' = Senders /\ Receivers' = Receivers
  BY CloseParts, Frame
<1>2. Leaving /\ Closed /\ Begun /\ Sent /\ Waits  BY DEF Calm, OwnSockets
<1>3. \A u : /\ Rest(u)' = Rest(u) /\ Active(u)' = Active(u) /\ UntilNext(u)' = UntilNext(u)
  BY <1>1 DEF senderVars, Rest, Active, UntilNext
<1>4. spc' = spc /\ DOMAIN <<>> = {}  BY <1>1 DEF senderVars
<1>5. Sent'
  <2> SUFFICES ASSUME NEW q \in Receivers, NEW i \in DOMAIN queue'[q], queue'[q][i].type = "LAST"
               PROVE  \E s \in Senders : spc[s] = "done" /\ (cfg.port = "individual" => s = q)
    BY <1>1, <1>4 DEF Sent
  <2>1. q # r  BY <1>4, CloseParts
  <2> QED BY <1>2, <2>1, CloseParts DEF Sent
<1>6. CASE AllDone
  <2>1. AllDone'  BY <1>1, <1>3, <1>6 DEF AllDone
  <2>2. \A q : Clear(q)'  BY <2>1 DEF AllDone, Clear
  <2>3. \A u \in Senders : ~Active(u)  BY <1>6 DEF AllDone
  <2>4. Leaving'  BY <1>1, <1>3, <2>2, <2>3 DEF Leaving
  <2>5. Closed' /\ Begun'  BY <2>1, <2>2 DEF Closed, Begun
  <2>6. Waits'  BY <1>1, <1>4, <2>3 DEF Waits, Active
  <2> QED BY <1>5, <2>4, <2>5, <2>6 DEF OwnSockets
<1>7. CASE cfg.port = "individual"
  <2>1. route' = route  BY <1>7, CloseParts
  <2>2. \A q : Clear(q)' = Clear(q)  BY <1>1, <1>3, <2>1 DEF Clear
  <2>3. Clear(r)  BY <1>2, <1>7, CloseParts DEF Leaving
  <2>4. Leaving'  BY <1>1, <1>2, <1>3, <2>2, CloseParts DEF Leaving
  <2>5. Closed'  BY <1>1, <1>2, <2>2, <2>3, CloseParts DEF Closed
  <2>6. Begun'
    <3> SUFFICES ASSUME NEW q \in Receivers, rpc'[q] \in {"run", "wait"} \/ queue'[q] # <<>>
                 PROVE  AllDone \/ \E s \in Senders : route[s] = q /\ spc[s] # "start"
      BY <1>1, <1>3, <1>4, <2>1 DEF Begun, AllDone
    <3>1. q # r  BY CloseParts
    <3>2. rpc'[q] = rpc[q] /\ queue'[q] = queue[q]  BY <3>1, CloseParts
    <3> QED BY <1>2, <3>2 DEF Begun
  <2>7. Waits'
    <3> SUFFICES ASSUME NEW q \in Receivers, rpc'[q] = "wait", queue'[q] = <<>>,
                        NEW s \in Senders, route[s] = q, spc[s] \in {"data", "drain"}
                 PROVE  UntilNext(s) < rtimer'[q]
      BY <1>1, <1>3, <1>4, <2>1 DEF Waits
    <3>1. q # r  BY CloseParts
    <3> QED BY <1>2, <3>1, CloseParts DEF Waits
  <2> QED BY <1>5, <2>4, <2>5, <2>6, <2>7 DEF OwnSockets
<1> QED BY <1>6, <1>7, ClosesAfterAll, Threads DEF TypeOK, PortMode

LEMMA CfgFixed == ASSUME TypeOK, [Next]_vars PROVE cfg' = cfg
BY SenderParts, ReceiverPlaces, TickParts, MainParts DEF Next, vars

LEMMA StepCalm == ASSUME TypeOK, Clocks, Routes, Calm, [Next]_vars PROVE Calm'
<1>1. cfg' = cfg /\ Senders' = Senders  BY CfgFixed, Frame
<1> SUFFICES ASSUME Reliable, cfg.port # "sharing" PROVE NoneAborted' /\ Spread' /\ OwnSockets'
  BY <1>1 DEF Calm, Reliable, StartTogether
<1>2. ASSUME NEW r \in Receivers, ReceiverStep(r) PROVE NoneAborted' /\ Spread' /\ OwnSockets'
  <2>1. UNCHANGED senderVars  BY <1>2, ReceiverPlaces
  <2>2. NoneAborted' /\ Spread'
    BY <1>1, <2>1 DEF Calm, NoneAborted, Spread, Rest, senderVars
  <2>3. OwnSockets'
    BY <1>2, MovesCalm, ReceiveCalm, CloseCalm DEF ReceiverStep, Moves
  <2> QED BY <2>2, <2>3
<1>3. CASE UNCHANGED vars
  BY <1>1, <1>3, Frame
  DEF Calm, NoneAborted, Spread, OwnSockets, Leaving, Closed, Begun, Sent, Waits, AllDone, Active, Rest,
      UntilNext, Clear, vars, senderVars, receiverVars, socketVars
<1> QED BY <1>2, <1>3, SenderCalm, TickCalm, MainParts DEF Next
-----------------------------------------------------------------------------
(* The socket that all receivers share.  main closes it when none of them  *)
(* is left.                                                                *)

Live(r) == rpc[r] \in {"initial", "run", "wait"}

OpenForLive == open[1] \/ \A r \in Receivers : ~Live(r)

(* Receiver r is there, and gets a message before its poll() times out.    *)
Holds(r) ==
  /\ Live(r)
  /\ \/ queue[1] # <<>> \/ rpc[r] = "run"
     \/ \A s \in Senders : NeedsSocket(s) => UntilNext(s) < rtimer[r]

HeldOpen == (\E s \in Senders : NeedsSocket(s)) => \E r \in Receivers : Holds(r)

(* Behind a LAST there is nothing but LAST, and its sender is done.        *)
LastsEnd ==
  \A i \in DOMAIN queue[1] :
    /\ queue[1][i].test = 0
    /\ queue[1][i].type = "LAST" =>
         /\ \E d \in Senders : spc[d] = "done"
         /\ \A j \in DOMAIN queue[1] : j > i => queue[1][j].type = "LAST"

(* Someone is there to read the datagrams of the measurement.              *)
DataRead ==
  (\E i \in DOMAIN queue[1] : queue[1][i].type = "MEASUREMENT") => \E r \in Receivers : Live(r)

OneSocket == Spread /\ OpenForLive /\ HeldOpen /\ LastsEnd /\ DataRead

SharedRun == Reliable /\ cfg.port = "sharing" /\ EndTogether
SharedCalm == SharedRun => OneSocket

LEMMA SharedPlaces ==
  ASSUME TypeOK, Routes, cfg.port = "sharing"
  PROVE  /\ 1 \in Receivers /\ queue[1] \in Seq(Message)
         /\ \A r \in Receivers : Sock(r) = 1 /\ Inbox(r) = queue[1] /\ rpc[r] # "leave"
         /\ \A s \in Senders : Sock(route[s]) = 1 /\ TestOf(s) = 0
         /\ OneSender <=> cfg.senders = 1
         /\ cfg.senders = 1 => \A s \in Senders : s = 1
<1>1. 1 \in Receivers /\ cfg.senders \in Nat  BY Threads DEF TypeOK
<1>2. cfg.senders = 1 => \A s \in Senders : s = 1  BY <1>1 DEF Senders
<1> QED BY <1>1, <1>2 DEF TypeOK, Sock, Inbox, TestOf, OneSender, Routes

(* The senders end together: once one is done, no other sends data.        *)
LEMMA NobodyNeeds ==
  ASSUME TypeOK, Routes, SharedRun, Spread, NEW d \in Senders, spc[d] = "done"
  PROVE  \A s \in Senders : ~NeedsSocket(s)
<1> SUFFICES ASSUME NEW s \in Senders, NeedsSocket(s) PROVE FALSE
  OBVIOUS
<1>1. CASE OneSender
  <2>1. s = d  BY <1>1, SharedPlaces DEF SharedRun
  <2> QED BY <2>1 DEF NeedsSocket
<1>2. CASE ~OneSender
  <2>1. cfg.skew < WaitControl /\ spc[s] \in {"start", "data"}
    BY <1>2 DEF SharedRun, EndTogether, NeedsSocket
  <2>2. /\ spc[s] \in SenderPc /\ stimer[s] \in Nat /\ left[s] \in Nat
        /\ spc[d] \in SenderPc /\ stimer[d] \in Nat /\ left[d] \in Nat
    BY SenderRange
  <2>3. Rest(d) = 0 /\ Rest(s) >= WaitControl  BY <2>1, <2>2, Times DEF Rest, RestOf
  <2>4. Rest(s) <= Rest(d) + cfg.skew  BY DEF Spread
  <2>5. cfg.skew \in Nat /\ WaitControl \in Nat /\ Rest(s) \in Nat
    BY Threads, Times, SenderRange DEF TypeOK
  <2> QED BY <2>1, <2>3, <2>4, <2>5
<1> QED BY <1>1, <1>2

LEMMA SharedOpen ==
  ASSUME TypeOK, Routes, SharedCalm, SharedRun, NEW s \in Senders, NeedsSocket(s)
  PROVE  open[1] /\ open[Sock(route[s])] /\ \E r \in Receivers : Live(r)
BY SharedPlaces DEF SharedCalm, SharedRun, OneSocket, HeldOpen, Holds, OpenForLive

(* What the next steps of a sender cost it is bounded by two pauses.       *)
LEMMA NextBound ==
  ASSUME TypeOK, Clocks, Reliable, NEW s \in Senders
  PROVE  UntilNext(s) \in Nat /\ (NeedsSocket(s) => UntilNext(s) < PollTimeout)
<1>1. /\ stimer[s] \in Nat /\ left[s] \in Nat /\ WaitControl \in Nat /\ PollTimeout \in Nat
      /\ cfg.skew \in Nat /\ cfg.skew < 2 * WaitControl /\ 2 * WaitControl < PollTimeout
  BY SenderRange, Times, Threads DEF TypeOK, Reliable, StartTogether
<1>2. /\ spc[s] = "start" => stimer[s] <= cfg.skew
      /\ spc[s] \in {"data", "drain"} => stimer[s] <= WaitControl
  BY DEF Clocks
<1>3. UntilNext(s) \in Nat  BY <1>1 DEF UntilNext
<1>4. NeedsSocket(s) => UntilNext(s) < PollTimeout
  BY <1>1, <1>2 DEF NeedsSocket, UntilNext
<1> QED BY <1>3, <1>4

LEMMA SenderShared ==
  ASSUME TypeOK, Clocks, Routes, SharedRun, OneSocket, NEW s \in Senders, SenderStep(s)
  PROVE  OneSocket'
<1>1. UNCHANGED <<cfg, open, route, rpc, rtimer>> /\ Senders' = Senders /\ Receivers' = Receivers
  BY SenderParts, Frame DEF receiverVars
<1>2. Spread /\ OpenForLive /\ HeldOpen /\ LastsEnd /\ DataRead  BY DEF OneSocket
<1>3. \A r : Live(r)' <=> Live(r)  BY <1>1 DEF Live
<1>4. NeedsSocket(s) => open[1] /\ \E r \in Receivers : Live(r)  BY SharedOpen DEF SharedCalm
<1>5. Active(s) /\ stimer[s] = 0 /\ (\A u \in Senders : u # s => spc'[u] = spc[u])
  BY SenderParts
<1>6. /\ 1 \in Receivers /\ queue[1] \in Seq(Message) /\ Sock(route[s]) = 1 /\ TestOf(s) = 0
      /\ Len(queue[1]) \in Nat /\ DOMAIN queue[1] = 1 .. Len(queue[1])
  BY SharedPlaces, LenProperties DEF SharedRun
<1>7. Spread'
  <2>1. spc'[s] = "aborted" => ~NeedsSocket(s) /\ spc[s] = "drain"
    <3>1. spc'[s] = "aborted" => ~open[1]  BY <1>6, SenderParts
    <3> QED BY <1>4, <1>5, <3>1 DEF NeedsSocket, Active
  <2>2. spc'[s] = "aborted" => Rest(s) = 0  BY <1>5, <2>1 DEF Rest, RestOf
  <2>3. \A u \in Senders : Rest(u)' = Rest(u)  BY <2>2, SenderRest
  <2> QED BY <1>1, <1>2, <2>3 DEF Spread
<1>8. OpenForLive'  BY <1>1, <1>2, <1>3 DEF OpenForLive
<1>9. \A u \in Senders : NeedsSocket(u)' => NeedsSocket(u)
  <2>1. OneSender' = OneSender  BY <1>1 DEF OneSender
  <2> QED BY <1>5, <2>1, SenderParts DEF NeedsSocket
<1>10. \A d \in Senders : spc[d] = "done" => spc'[d] = "done"  BY <1>5 DEF Active
<1>11. CASE UNCHANGED queue
  <2>1. LastsEnd' /\ DataRead'  BY <1>1, <1>2, <1>3, <1>10, <1>11 DEF LastsEnd, DataRead
  <2>2. HeldOpen'
    <3> SUFFICES ASSUME NEW v \in Senders, NeedsSocket(v)'
                 PROVE  \E r \in Receivers : Holds(r)'
      BY <1>1 DEF HeldOpen
    <3>1. PICK r \in Receivers : Holds(r)  BY <1>2, <1>9 DEF HeldOpen
    <3>2. \A u \in Senders : NeedsSocket(u)' => UntilNext(u)' = UntilNext(u)
      <4> TAKE u \in Senders
      <4> HAVE NeedsSocket(u)'
      <4>1. CASE u # s  BY <4>1, SenderParts DEF UntilNext
      <4>2. CASE u = s
        <5>1. NeedsSocket(s) /\ open[1]  BY <1>4, <1>9, <4>2
        <5>2. \A type : ~Deliver(s, type)
          <6>1. \A type : Deliver(s, type) => Len(queue'[1]) = Len(queue[1]) + 1
            <7> TAKE type
            <7> HAVE Deliver(s, type)
            <7>1. queue'[1] = Append(queue[1], [type |-> type, test |-> TestOf(s)])
              BY <1>6, <5>1 DEF Deliver, SharedRun, Reliable, TypeOK
            <7> QED BY <1>6, <7>1
          <6> QED BY <1>6, <1>11, <6>1
        <5>3. spc[s] = "data" /\ left[s] = 0 /\ spc'[s] = "drain" /\ stimer'[s] = WaitControl
          BY <1>6, <5>1, <5>2, SenderParts, SenderRange
        <5> QED BY <1>5, <4>2, <5>3, Times DEF UntilNext
      <4> QED BY <4>1, <4>2
    <3> QED BY <1>1, <1>3, <1>9, <1>11, <3>1, <3>2 DEF Holds
  <2> QED BY <1>7, <1>8, <2>1, <2>2 DEF OneSocket
<1>12. ASSUME NEW type \in {"INIT", "MEASUREMENT", "LAST"},
              queue' = [queue EXCEPT ![1] = Append(@, Message_(type, s))],
              type = "LAST" => spc'[s] = "done",
              type # "LAST" => spc[s] \in {"start", "data"}
       PROVE  OneSocket'
  <2> DEFINE m == Message_(type, s)
             a == Append(queue[1], m)
             n == Len(queue[1]) + 1
  <2>1. m \in Message /\ m.type = type /\ m.test = 0
    BY <1>6 DEF Message_, Message
  <2>2. queue'[1] = a  BY <1>6, <1>12 DEF TypeOK
  <2>3. /\ a \in Seq(Message) /\ Len(a) = n /\ a[n] = m
        /\ \A i \in 1 .. Len(queue[1]) : a[i] = queue[1][i]
    BY <1>6, <2>1, AppendProperties
  <2>4. a # <<>> /\ DOMAIN a = DOMAIN queue[1] \cup {n} /\ n \notin DOMAIN queue[1]
    BY <1>6, <2>3, EmptySeq, LenProperties
  <2> HIDE DEF m, a
  <2>5. type # "LAST" => NeedsSocket(s) /\ \A d \in Senders : spc[d] # "done"
    BY <1>2, <1>12, NobodyNeeds DEF NeedsSocket
  <2>6. \A i \in DOMAIN queue[1] : queue[1][i].type = "LAST" => type = "LAST"
    BY <1>2, <2>5 DEF LastsEnd
  <2>7. LastsEnd'
    <3> SUFFICES ASSUME NEW i \in DOMAIN a
                 PROVE  /\ a[i].test = 0
                        /\ a[i].type = "LAST" =>
                             /\ \E d \in Senders : spc'[d] = "done"
                             /\ \A j \in DOMAIN a : j > i => a[j].type = "LAST"
      BY <1>1, <2>2 DEF LastsEnd
    <3>1. CASE i \in DOMAIN queue[1]
      <4>1. a[i] = queue[1][i]  BY <1>6, <2>3, <3>1
      <4>2. a[i].type = "LAST" => \A j \in DOMAIN queue[1] : j > i => a[j].type = "LAST"
        BY <1>2, <1>6, <2>3, <3>1, <4>1 DEF LastsEnd
      <4>3. a[i].type = "LAST" => a[n].type = "LAST"  BY <2>1, <2>3, <2>6, <3>1, <4>1
      <4> QED BY <1>2, <1>10, <2>4, <3>1, <4>1, <4>2, <4>3 DEF LastsEnd
    <3>2. CASE i = n
      <4>1. \A j \in DOMAIN a : ~(j > n)  BY <1>6, <2>4
      <4> QED BY <1>12, <2>1, <2>3, <3>2, <4>1
    <3> QED BY <2>4, <3>1, <3>2
  <2>8. DataRead'
    <3> SUFFICES ASSUME NEW i \in DOMAIN a, a[i].type = "MEASUREMENT"
                 PROVE  \E r \in Receivers : Live(r)
      BY <1>1, <1>3, <2>2 DEF DataRead
    <3>1. CASE i \in DOMAIN queue[1]  BY <1>2, <1>6, <2>3, <3>1 DEF DataRead
    <3>2. CASE i = n  BY <1>4, <2>1, <2>3, <2>5, <3>2
    <3> QED BY <2>4, <3>1, <3>2
  <2>9. HeldOpen'
    <3> SUFFICES ASSUME NEW v \in Senders, NeedsSocket(v)'
                 PROVE  \E r \in Receivers : Holds(r)'
      BY <1>1 DEF HeldOpen
    <3>1. PICK r \in Receivers : Live(r)  BY <1>2, <1>9 DEF HeldOpen, Holds
    <3> QED BY <1>3, <2>2, <2>4, <3>1 DEF Holds
  <2> QED BY <1>7, <1>8, <2>7, <2>8, <2>9 DEF OneSocket
<1>13. \/ UNCHANGED queue
       \/ \E type \in {"INIT", "MEASUREMENT", "LAST"} :
            /\ queue' = [queue EXCEPT ![1] = Append(@, Message_(type, s))]
            /\ type = "LAST" => spc'[s] = "done"
            /\ type # "LAST" => spc[s] \in {"start", "data"}
  BY <1>6, SenderParts DEF Deliver, Message_
<1> QED BY <1>11, <1>12, <1>13

LEMMA TickShared ==
  ASSUME TypeOK, Clocks, Routes, SharedRun, OneSocket, Tick
  PROVE  OneSocket'
<1>1. UNCHANGED <<cfg, spc, left, queue, open, route, rpc>>
      /\ Senders' = Senders /\ Receivers' = Receivers
  BY TickParts, Frame DEF socketVars
<1>2. Spread /\ OpenForLive /\ HeldOpen /\ LastsEnd /\ DataRead  BY DEF OneSocket
<1>3. \A r : Live(r)' <=> Live(r)  BY <1>1 DEF Live
<1>4. \A s \in Senders : NeedsSocket(s)' <=> NeedsSocket(s)  BY <1>1 DEF NeedsSocket, OneSender
<1>5. Spread' /\ OpenForLive' /\ LastsEnd' /\ DataRead'
  BY <1>1, <1>2, <1>3, TickSpread DEF OpenForLive, LastsEnd, DataRead
<1>6. HeldOpen'
  <2> SUFFICES ASSUME NEW v \in Senders, NeedsSocket(v) PROVE \E r \in Receivers : Holds(r)'
    BY <1>1, <1>4 DEF HeldOpen
  <2>1. PICK r \in Receivers : Holds(r)  BY <1>2 DEF HeldOpen
  <2>2. rtimer[r] \in Nat /\ rtimer'[r] = IF rtimer[r] > 0 THEN rtimer[r] - 1 ELSE 0
    BY TickParts DEF TypeOK
  <2>3. \A s \in Senders : NeedsSocket(s) =>
          UntilNext(s)' = UntilNext(s) - 1 /\ UntilNext(s) \in Nat
    BY TickRest DEF NeedsSocket, Active
  <2>4. CASE queue[1] # <<>> \/ rpc[r] = "run"  BY <1>1, <1>3, <2>1, <2>4 DEF Holds
  <2>5. CASE \A s \in Senders : NeedsSocket(s) => UntilNext(s) < rtimer[r]
    <3>1. \A s \in Senders : NeedsSocket(s) => UntilNext(s)' < rtimer'[r]  BY <2>2, <2>3, <2>5
    <3> QED BY <1>1, <1>3, <1>4, <2>1, <3>1 DEF Holds
  <2> QED BY <2>1, <2>4, <2>5 DEF Holds
<1> QED BY <1>5, <1>6 DEF OneSocket

LEMMA MovesShared ==
  ASSUME TypeOK, Clocks, Routes, SharedRun, OneSocket, NEW r \in Receivers, Moves(r)
  PROVE  OneSocket'
<1>1. UNCHANGED <<cfg, spc, stimer, left, queue, open, route>>
      /\ Senders' = Senders /\ Receivers' = Receivers
  BY MovesParts, Frame DEF socketVars, senderVars
<1>2. Spread /\ OpenForLive /\ HeldOpen /\ LastsEnd /\ DataRead  BY DEF OneSocket
<1>3. /\ \A s : /\ NeedsSocket(s)' <=> NeedsSocket(s)
                /\ UntilNext(s)' = UntilNext(s) /\ Rest(s)' = Rest(s)
      /\ cfg.port = "sharing" /\ Reliable /\ Inbox(r) = queue[1]
  BY <1>1, SharedPlaces DEF NeedsSocket, OneSender, UntilNext, Rest, SharedRun
<1>4. /\ \A q \in Receivers : q # r => rpc'[q] = rpc[q] /\ rtimer'[q] = rtimer[q]
      /\ Live(r) /\ rpc \in [Receivers -> ReceiverPc] /\ rtimer \in [Receivers -> Nat]
  BY ReceiverPlaces
  DEF ReceiverStep, Moves, FirstMessage, NoMessage, Block, Readable, Timeout, Live, TypeOK, ReceiverPc
<1>5. \/ rpc'[r] = "run"
      \/ rpc'[r] = "wait" /\ rtimer'[r] = PollTimeout
      \/ rpc[r] \in {"initial", "wait"} /\ queue[1] = <<>> /\ rtimer[r] = 0
  BY <1>3, <1>4 DEF Moves, FirstMessage, NoMessage, Block, Readable, Timeout, ReceiverGoesTo
<1>6. \A q \in Receivers : Live(q)' => Live(q)  BY <1>4 DEF Live
<1>7. Spread' /\ OpenForLive' /\ LastsEnd'
  BY <1>1, <1>2, <1>3, <1>6 DEF Spread, OpenForLive, LastsEnd
<1>8. CASE rpc'[r] = "run" \/ (rpc'[r] = "wait" /\ rtimer'[r] = PollTimeout)
  <2>1. Live(r)'  BY <1>8 DEF Live
  <2>2. Holds(r)'  BY <1>1, <1>3, <1>8, <2>1, NextBound DEF Holds
  <2> QED BY <1>1, <1>7, <2>1, <2>2 DEF OneSocket, HeldOpen, DataRead
<1>9. CASE rpc[r] \in {"initial", "wait"} /\ queue[1] = <<>> /\ rtimer[r] = 0
  <2>1. DataRead'  BY <1>1, <1>9 DEF DataRead
  <2>2. HeldOpen'
    <3> SUFFICES ASSUME NEW v \in Senders, NeedsSocket(v) PROVE \E q \in Receivers : Holds(q)'
      BY <1>1, <1>3 DEF HeldOpen
    <3>1. PICK q \in Receivers : Holds(q)  BY <1>2 DEF HeldOpen
    <3>2. q # r
      <4>1. UntilNext(v) \in Nat  BY <1>3, NextBound
      <4> QED BY <1>9, <3>1, <4>1 DEF Holds
    <3> QED BY <1>1, <1>3, <1>4, <3>1, <3>2 DEF Holds, Live
  <2> QED BY <1>7, <2>1, <2>2 DEF OneSocket
<1> QED BY <1>5, <1>8, <1>9

LEMMA ReceiveShared ==
  ASSUME TypeOK, Clocks, Routes, SharedRun, OneSocket, NEW r \in Receivers, Receive(r)
  PROVE  OneSocket'
<1> DEFINE q == queue[1]
           n == Taken(r)
           m == Head(q)
           c == SubSeq(q, n + 1, Len(q))
<1>1. /\ 1 \in Receivers /\ Sock(r) = 1 /\ Inbox(r) = q /\ q \in Seq(Message)
      /\ cfg.port = "sharing" /\ Reliable
  BY SharedPlaces DEF SharedRun
<1>2. /\ rpc[r] = "run" /\ q # <<>> /\ n \in 1 .. Len(q) /\ Len(q) \in Nat /\ m \in Message
      /\ queue' = [queue EXCEPT ![1] = SubSeq(@, n + 1, Len(@))]
      /\ UNCHANGED <<cfg, senderVars, open, route>>
      /\ \/ ParseResult(ms[r], m) = "LAST"
         \/ ParseResult(ms[r], m) \in {"panic", "ERROR"}
         \/ UNCHANGED <<rpc, rtimer>>
  <2> HIDE DEF n, m, q
  <2> QED BY <1>1, ReceiveParts DEF n, m, q
<1>3. Spread /\ OpenForLive /\ HeldOpen /\ LastsEnd /\ DataRead  BY DEF OneSocket
<1>4. UNCHANGED <<spc, stimer, left>> /\ Senders' = Senders /\ Receivers' = Receivers
  BY <1>2, Frame DEF senderVars
<1>5. \A s : /\ NeedsSocket(s)' <=> NeedsSocket(s)
             /\ UntilNext(s)' = UntilNext(s) /\ Rest(s)' = Rest(s)
  BY <1>2, <1>4 DEF NeedsSocket, OneSender, UntilNext, Rest
<1>6. /\ m = q[1] /\ 1 \in DOMAIN q /\ DOMAIN q = 1 .. Len(q) /\ c \in Seq(Message)
      /\ Len(c) = Len(q) - n /\ \A i \in 1 .. (Len(q) - n) : c[i] = q[n + i]
  BY <1>1, <1>2, HeadTailProperties, LenProperties, CutType
<1>7. queue'[1] = c /\ DOMAIN c = 1 .. (Len(q) - n)
  BY <1>1, <1>2, <1>6, LenProperties DEF TypeOK
<1> HIDE DEF q, n, m, c
<1>8. \A i \in DOMAIN c : n + i \in DOMAIN q /\ c[i] = q[n + i] /\ n + i > 1 /\ i \in Nat
  BY <1>2, <1>6, <1>7
<1>9. \A p \in Receivers : p # r => rpc'[p] = rpc[p]
  BY ReceiverPlaces DEF ReceiverStep
<1>10. Live(r) /\ \A p \in Receivers : Live(p)' => Live(p)  BY <1>2, <1>9 DEF Live
<1>11. Spread' /\ OpenForLive'
  BY <1>2, <1>3, <1>4, <1>5, <1>10 DEF Spread, OpenForLive
<1>12. LastsEnd'
  <2> SUFFICES ASSUME NEW i \in DOMAIN c
               PROVE  /\ c[i].test = 0
                      /\ c[i].type = "LAST" =>
                           /\ \E d \in Senders : spc[d] = "done"
                           /\ \A j \in DOMAIN c : j > i => c[j].type = "LAST"
    BY <1>4, <1>7 DEF LastsEnd
  <2>1. \A j \in DOMAIN c : j > i => n + j > n + i  BY <1>2, <1>8
  <2> QED BY <1>3, <1>8, <2>1 DEF LastsEnd, q
<1>13. CASE m.type = "LAST"
  <2>1. \E d \in Senders : spc[d] = "done"  BY <1>3, <1>6, <1>13 DEF LastsEnd, q
  <2>2. \A s \in Senders : ~NeedsSocket(s)  BY <1>3, <2>1, NobodyNeeds
  <2>3. HeldOpen'  BY <1>4, <1>5, <2>2 DEF HeldOpen
  <2>4. \A i \in DOMAIN c : c[i].type = "LAST"
    BY <1>3, <1>6, <1>8, <1>13 DEF LastsEnd, q
  <2>5. DataRead'  BY <1>7, <2>4 DEF DataRead
  <2> QED BY <1>11, <1>12, <2>3, <2>5 DEF OneSocket
<1>14. CASE m.type # "LAST"
  <2>1. m.test = 0  BY <1>3, <1>6 DEF LastsEnd, q
  <2>2. ParseResult(ms[r], m) \notin {"LAST", "panic", "ERROR"}
    BY <1>2, <1>14, <2>1, MaxTestIdAssumption DEF ParseResult, Message
  <2>3. rpc' = rpc  BY <1>2, <2>2
  <2>4. Live(r)' /\ Holds(r)'  BY <1>2, <1>10, <2>3 DEF Live, Holds
  <2> QED BY <1>4, <1>11, <1>12, <2>4 DEF OneSocket, HeldOpen, DataRead
<1> QED BY <1>13, <1>14

(* main closes the socket when nobody needs it.                            *)
LEMMA MainShared ==
  ASSUME TypeOK, Routes, SharedRun, OneSocket, MainCloses
  PROVE  OneSocket'
<1>1. /\ Ended /\ 1 \in Receivers /\ open'[1] = FALSE /\ queue'[1] = <<>>
      /\ UNCHANGED <<cfg, spc, stimer, left, rpc, rtimer>>
      /\ Senders' = Senders /\ Receivers' = Receivers
  BY MainParts, Frame DEF senderVars, receiverVars
<1>2. \A r \in Receivers : ~Live(r)  BY <1>1 DEF Ended, Live
<1>3. /\ \A r : Live(r)' <=> Live(r)
      /\ \A s : (NeedsSocket(s)' <=> NeedsSocket(s)) /\ Rest(s)' = Rest(s)
  BY <1>1 DEF Live, NeedsSocket, OneSender, Rest
<1>4. Spread /\ HeldOpen  BY DEF OneSocket
<1>5. \A s \in Senders : ~NeedsSocket(s)  BY <1>2, <1>4 DEF HeldOpen, Holds
<1>6. DOMAIN <<>> = {}  OBVIOUS
<1> QED BY <1>1, <1>2, <1>3, <1>4, <1>5, <1>6
        DEF OneSocket, Spread, OpenForLive, HeldOpen, LastsEnd, DataRead

LEMMA StepShared == ASSUME TypeOK, Clocks, Routes, SharedCalm, [Next]_vars PROVE SharedCalm'
<1>1. cfg' = cfg /\ Senders' = Senders /\ Receivers' = Receivers  BY CfgFixed, Frame
<1> SUFFICES ASSUME SharedRun PROVE OneSocket'
  BY <1>1 DEF SharedCalm, SharedRun, Reliable, StartTogether, EndTogether, OneSender
<1>2. OneSocket  BY DEF SharedCalm
<1>3. ASSUME NEW r \in Receivers, ReceiverStep(r) PROVE OneSocket'
  <2>1. ~Close(r)  BY CloseParts DEF Routes, SharedRun
  <2> QED BY <1>2, <1>3, <2>1, MovesShared, ReceiveShared DEF ReceiverStep, Moves
<1>4. CASE UNCHANGED vars
  BY <1>1, <1>2, <1>4
  DEF OneSocket, Spread, OpenForLive, HeldOpen, Holds, LastsEnd, DataRead, Live, NeedsSocket, OneSender,
      UntilNext, Rest, vars, senderVars, receiverVars, socketVars
<1> QED BY <1>2, <1>3, <1>4, SenderShared, TickShared, MainShared DEF Next
-----------------------------------------------------------------------------
LEMMA InitCalm == ASSUME Init PROVE TypeOK /\ Clocks /\ Routes /\ Calm /\ SharedCalm
<1>1. TypeOK  BY InitType
<1>2. cfg.skew \in Nat /\ Data \in Nat /\ WaitControl \in Nat /\ cfg.port \in PortMode
  BY <1>1, Threads, Times DEF TypeOK
<1>3. \A s \in Senders : spc[s] = "start" /\ left[s] = Data /\ stimer[s] \in 0 .. cfg.skew
  BY DEF Init
<1>4. Clocks  BY <1>2, <1>3 DEF Clocks, Active
<1>5. Routes  BY DEF Init, Routes
<1>6. Spread
  <2>1. \A s \in Senders : Rest(s) = stimer[s] + Data + 2 * WaitControl
    BY <1>3 DEF Rest, RestOf
  <2> QED BY <1>2, <1>3, <2>1 DEF Spread
<1>7. OwnSockets
  BY <1>3 DEF Init, OwnSockets, Leaving, Closed, Begun, Sent, Waits
<1>8. SharedCalm
  <2>1. DOMAIN <<>> = {} /\ 1 \in Receivers  BY <1>1, Threads DEF TypeOK
  <2>2. /\ queue[1] = <<>> /\ \A r \in Receivers : open[r]
        /\ rpc[1] = "initial" /\ rtimer[1] = InitialTimeout
    BY <2>1 DEF Init
  <2>3. ASSUME Reliable PROVE Holds(1)
    <3>1. cfg.skew < InitialTimeout /\ InitialTimeout \in Nat
      BY <1>2, <2>3, Times DEF Reliable, StartTogether
    <3>2. \A s \in Senders : UntilNext(s) < InitialTimeout  BY <1>2, <1>3, <3>1 DEF UntilNext
    <3> QED BY <2>2, <3>2 DEF Holds, Live
  <2> QED BY <1>6, <2>1, <2>2, <2>3
          DEF SharedCalm, SharedRun, OneSocket, OpenForLive, HeldOpen, LastsEnd, DataRead
<1> QED BY <1>1, <1>3, <1>4, <1>5, <1>6, <1>7, <1>8 DEF Calm, NoneAborted

SessionInv == TypeOK /\ Clocks /\ Routes /\ Calm /\ SharedCalm

LEMMA AlwaysSession == Spec => []SessionInv
<1>1. Init => SessionInv  BY InitCalm DEF SessionInv
<1>2. SessionInv /\ [Next]_vars => SessionInv'
  BY NextType, StepClocks, StepRoutes, StepCalm, StepShared DEF SessionInv
<1> QED BY <1>1, <1>2, PTL DEF Spec

(* Without losses no socket is closed under a sender that still sends      *)
(* data, nor, with a socket of its own, under one that has not sent LAST.  *)
(* A receiver that leaves a port of its own or a sharded one has seen one  *)
(* of its senders end, the others end at most the spread of their starts   *)
(* later, and the pause before it closes the socket of a sharded port is   *)
(* longer (receiver.rs 633-672, sender.rs 352-356 and 403-407).  A shared  *)
(* socket main closes when no receiver is left (executor.rs 77-112): while *)
(* a sender sends, one that has just read a message waits for the next for *)
(* longer than the sender pauses.                                          *)
THEOREM SendersAreHeardOut == Spec => []NoEarlyClose
<1>1. SessionInv => NoEarlyClose
  <2> SUFFICES ASSUME SessionInv, Reliable, EndTogether, NEW s \in Senders, NeedsSocket(s)
               PROVE  open[Sock(route[s])]
    BY DEF NoEarlyClose, Reliable
  <2>1. CASE cfg.port = "sharing"  BY <2>1, SharedOpen DEF SessionInv, SharedRun
  <2>2. CASE cfg.port # "sharing"
    BY <2>2, StillOpen DEF SessionInv, NeedsSocket, Active
  <2> QED BY <2>1, <2>2
<1> QED BY <1>1, AlwaysSession, PTL
-----------------------------------------------------------------------------
(* Who receives a test.                                                    *)

IsHome(s, h) ==
  /\ handlers[TestOf(s)] \subseteq {h}
  /\ \A q \in Receivers : \A i \in DOMAIN queue[q] : queue[q][i].test = TestOf(s) => q = h
  /\ Active(s) => route[s] = h

FixedFlows == cfg.port = "individual" \/ (cfg.port = "sharding" /\ Reliable)

Home == FixedFlows => \A s \in Senders : \E h \in Receivers : IsHome(s, h)

(* A step that takes messages out of sockets, at most.                     *)
LEMMA FewerMessages ==
  ASSUME Home, FixedFlows, UNCHANGED <<cfg, handlers>>,
         \A q \in Receivers : \A i \in DOMAIN queue'[q] :
           \E j \in DOMAIN queue[q] : queue'[q][i] = queue[q][j],
         \A s \in Senders : Active(s)' => Active(s) /\ route'[s] = route[s]
  PROVE  Home'
<1>1. Senders' = Senders /\ Receivers' = Receivers /\ \A s : TestOf(s)' = TestOf(s)  BY Frame
<1>2. ASSUME NEW s \in Senders PROVE \E h \in Receivers : IsHome(s, h)'
  <2>1. PICK h \in Receivers : IsHome(s, h)  BY DEF Home
  <2>2. \A q \in Receivers : \A i \in DOMAIN queue'[q] : queue'[q][i].test = TestOf(s) => q = h
    BY <2>1 DEF IsHome
  <2> QED BY <1>1, <2>1, <2>2 DEF IsHome
<1> QED BY <1>1, <1>2 DEF Home

(* A receiver takes the first messages from its socket.                    *)
LEMMA ReceiveTakes ==
  ASSUME TypeOK, cfg.port # "sharing", NEW r \in Receivers, Receive(r)
  PROVE  /\ Head(queue[r]) = queue[r][1] /\ 1 \in DOMAIN queue[r] /\ Head(queue[r]) \in Message
         /\ \A q \in Receivers : \A i \in DOMAIN queue'[q] :
              \E j \in DOMAIN queue[q] : queue'[q][i] = queue[q][j]
         /\ handlers' = [handlers EXCEPT ![Head(queue[r]).test] = @ \cup {r}]
         /\ UNCHANGED <<cfg, senderVars, open, route>>
<1> DEFINE n == Taken(r)
<1>1. Inbox(r) = queue[r] /\ Sock(r) = r  BY DEF Inbox, Sock
<1>2. /\ queue[r] # <<>> /\ queue[r] \in Seq(Message)
      /\ n \in 1 .. Len(queue[r]) /\ Len(queue[r]) \in Nat
      /\ queue' = [queue EXCEPT ![r] = SubSeq(@, n + 1, Len(@))]
      /\ handlers' = [handlers EXCEPT ![Head(queue[r]).test] = @ \cup {r}]
      /\ UNCHANGED <<cfg, senderVars, open, route>>
  BY <1>1, ReceiveParts
<1> HIDE DEF n
<1>3. Head(queue[r]) \in Message /\ Head(queue[r]) = queue[r][1]
      /\ DOMAIN queue[r] = 1 .. Len(queue[r]) /\ 1 \in DOMAIN queue[r]
  BY <1>2, HeadTailProperties, LenProperties
<1>4. /\ SubSeq(queue[r], n + 1, Len(queue[r])) \in Seq(Message)
      /\ Len(SubSeq(queue[r], n + 1, Len(queue[r]))) = Len(queue[r]) - n
      /\ \A i \in 1 .. (Len(queue[r]) - n) :
           SubSeq(queue[r], n + 1, Len(queue[r]))[i] = queue[r][n + i]
  BY <1>2, CutType
<1>5. queue'[r] = SubSeq(queue[r], n + 1, Len(queue[r])) /\ \A q \in Receivers : q # r => queue'[q] = queue[q]
  BY <1>2 DEF TypeOK
<1>6. DOMAIN queue'[r] = 1 .. (Len(queue[r]) - n)  BY <1>2, <1>4, <1>5, LenProperties
<1>7. \A i \in DOMAIN queue'[r] : n + i \in DOMAIN queue[r] /\ queue'[r][i] = queue[r][n + i]
  BY <1>2, <1>3, <1>4, <1>5, <1>6
<1>8. ASSUME NEW q \in Receivers, NEW i \in DOMAIN queue'[q]
      PROVE  \E j \in DOMAIN queue[q] : queue'[q][i] = queue[q][j]
  <2>1. CASE q = r  BY <1>7, <2>1
  <2>2. CASE q # r  BY <1>5, <2>2
  <2> QED BY <2>1, <2>2
<1> QED BY <1>2, <1>3, <1>8

LEMMA ReceiveHome ==
  ASSUME TypeOK, Home, FixedFlows, NEW r \in Receivers, Receive(r)
  PROVE  Home'
<1> DEFINE m == Head(queue[r])
<1>1. cfg.port # "sharing"  BY DEF FixedFlows
<1>2. /\ m = queue[r][1] /\ 1 \in DOMAIN queue[r]
      /\ \A q \in Receivers : \A i \in DOMAIN queue'[q] :
           \E j \in DOMAIN queue[q] : queue'[q][i] = queue[q][j]
      /\ handlers' = [handlers EXCEPT ![m.test] = @ \cup {r}]
      /\ UNCHANGED <<cfg, senderVars, route>>
  BY <1>1, ReceiveTakes
<1> HIDE DEF m
<1>3. Senders' = Senders /\ Receivers' = Receivers /\ \A s : TestOf(s)' = TestOf(s)
  BY <1>2, Frame
<1>4. ASSUME NEW s \in Senders PROVE \E h \in Receivers : IsHome(s, h)'
  <2>1. PICK h \in Receivers : IsHome(s, h)  BY DEF Home
  <2>2. handlers'[TestOf(s)] \subseteq {h}
    <3>1. TestOf(s) \in DOMAIN handlers  BY Threads DEF TypeOK
    <3>2. CASE m.test = TestOf(s)
      <4>1. r = h  BY <1>2, <2>1, <3>2 DEF IsHome
      <4> QED BY <1>2, <2>1, <3>1, <3>2, <4>1 DEF IsHome
    <3>3. CASE m.test # TestOf(s)  BY <1>2, <2>1, <3>1, <3>3 DEF IsHome
    <3> QED BY <3>2, <3>3
  <2>3. \A q \in Receivers : \A i \in DOMAIN queue'[q] : queue'[q][i].test = TestOf(s) => q = h
    BY <1>2, <2>1 DEF IsHome
  <2>4. Active(s)' => route'[s] = h  BY <1>2, <2>1 DEF IsHome, Active, senderVars
  <2> QED BY <1>3, <2>1, <2>2, <2>3, <2>4 DEF IsHome
<1> QED BY <1>3, <1>4 DEF Home

LEMMA SenderHome ==
  ASSUME TypeOK, Home, FixedFlows, NEW s \in Senders, SenderStep(s)
  PROVE  Home'
<1>1. UNCHANGED <<cfg, route, handlers>> /\ Active(s)  BY SenderParts DEF receiverVars
<1>2. \A u \in Senders : Active(u)' => Active(u)
  BY SenderParts DEF Active
<1>3. CASE UNCHANGED queue  BY <1>1, <1>2, <1>3, FewerMessages
<1>4. ASSUME NEW type \in {"INIT", "MEASUREMENT", "LAST"},
             queue' = [queue EXCEPT ![Sock(route[s])] = Append(@, Message_(type, s))]
      PROVE  Home'
  <2> DEFINE k == route[s]
             m == Message_(type, s)
  <2>1. /\ k \in Receivers /\ queue[k] \in Seq(Message) /\ m.test = TestOf(s)
        /\ Len(queue[k]) \in Nat /\ DOMAIN queue[k] = 1 .. Len(queue[k]) /\ m \in Message
    BY LenProperties, Threads DEF TypeOK, Message_, Message
  <2>2. queue'[k] = Append(queue[k], m) /\ \A q \in Receivers : q # k => queue'[q] = queue[q]
    BY <1>4, <2>1 DEF FixedFlows, Sock, TypeOK
  <2> HIDE DEF k, m
  <2>3. /\ Append(queue[k], m) \in Seq(Message) /\ Len(Append(queue[k], m)) = Len(queue[k]) + 1
        /\ \A i \in 1 .. Len(queue[k]) : Append(queue[k], m)[i] = queue[k][i]
        /\ Append(queue[k], m)[Len(queue[k]) + 1] = m
    BY <2>1, AppendProperties
  <2>4. DOMAIN queue'[k] = 1 .. (Len(queue[k]) + 1)  BY <2>1, <2>2, <2>3, LenProperties
  <2>5. Senders' = Senders /\ Receivers' = Receivers /\ \A u : TestOf(u)' = TestOf(u)
    BY <1>1, Frame
  <2>6. ASSUME NEW u \in Senders PROVE \E h \in Receivers : IsHome(u, h)'
    <3>1. PICK h \in Receivers : IsHome(u, h)  BY DEF Home
    <3>2. TestOf(s) = TestOf(u) => h = k
      <4>1. s \in Nat /\ u \in Nat /\ cfg.port # "sharing"
        BY Threads DEF TypeOK, FixedFlows
      <4>2. TestOf(s) = TestOf(u) => s = u  BY <4>1 DEF TestOf
      <4> QED BY <1>1, <3>1, <4>2 DEF IsHome, k
    <3>3. \A q \in Receivers : \A i \in DOMAIN queue'[q] : queue'[q][i].test = TestOf(u) => q = h
      <4> TAKE q \in Receivers
      <4> TAKE i \in DOMAIN queue'[q]
      <4>1. CASE q # k \/ i \in DOMAIN queue[k]
        <5>1. i \in DOMAIN queue[q] /\ queue'[q][i] = queue[q][i]  BY <2>1, <2>2, <2>3, <4>1
        <5> QED BY <3>1, <5>1 DEF IsHome
      <4>2. CASE q = k /\ i = Len(queue[k]) + 1  BY <2>1, <2>2, <2>3, <3>2, <4>2
      <4> QED BY <2>1, <2>4, <4>1, <4>2
    <3> QED BY <1>1, <1>2, <2>5, <3>1, <3>3 DEF IsHome
  <2> QED BY <2>5, <2>6 DEF Home
<1>5. \/ UNCHANGED queue
      \/ \E type \in {"INIT", "MEASUREMENT", "LAST"} :
           queue' = [queue EXCEPT ![Sock(route[s])] = Append(@, Message_(type, s))]
  BY SenderParts DEF Deliver, Message_
<1> QED BY <1>3, <1>4, <1>5

LEMMA StepHome == ASSUME SessionInv, Home, [Next]_vars PROVE Home'
<1>1. cfg' = cfg  BY CfgFixed DEF SessionInv
<1> SUFFICES ASSUME FixedFlows PROVE Home'
  BY <1>1 DEF Home, FixedFlows, Reliable, StartTogether
<1>2. ASSUME NEW s \in Senders, SenderStep(s) PROVE Home'  BY <1>2, SenderHome DEF SessionInv
<1>3. ASSUME NEW r \in Receivers, Receive(r) PROVE Home'  BY <1>3, ReceiveHome DEF SessionInv
<1>4. ASSUME NEW r \in Receivers, Close(r) PROVE Home'
  <2>1. DOMAIN <<>> = {}  OBVIOUS
  <2>2. \A q \in Receivers : \A i \in DOMAIN queue'[q] :
          \E j \in DOMAIN queue[q] : queue'[q][i] = queue[q][j]
    BY <1>4, <2>1, CloseParts DEF SessionInv
  <2>3. UNCHANGED <<cfg, senderVars, handlers>>  BY <1>4, CloseParts DEF SessionInv
  <2>4. \A s \in Senders : Active(s)' => Active(s) /\ route'[s] = route[s]
    <3>1. CASE cfg.port = "sharding"
      <4>1. AllDone  BY <1>4, <3>1, ClosesAfterAll DEF SessionInv, FixedFlows
      <4> QED BY <2>3, <4>1 DEF AllDone, Active, senderVars
    <3>2. CASE cfg.port # "sharding"
      BY <1>4, <2>3, <3>2, CloseParts DEF SessionInv, Active, senderVars
    <3> QED BY <3>1, <3>2
  <2> QED BY <2>2, <2>3, <2>4, FewerMessages
<1>5. CASE Tick \/ UNCHANGED vars \/ \E r \in Receivers : Moves(r)
  <2>1. UNCHANGED <<cfg, queue, handlers, spc, route>>
    BY <1>5, TickParts, MovesParts
    DEF SessionInv, vars, senderVars, receiverVars, socketVars
  <2> QED BY <2>1, FewerMessages DEF Active
<1>6. ~MainCloses  BY MainParts DEF FixedFlows, SessionInv
<1> QED BY <1>2, <1>3, <1>4, <1>5, <1>6 DEF Next, ReceiverStep, Moves

LEMMA InitHome == ASSUME Init PROVE Home
<1>1. ASSUME NEW s \in Senders PROVE \E h \in Receivers : IsHome(s, h)
  <2>1. route[s] \in Receivers /\ TestOf(s) \in TestIds
    BY InitType, Threads DEF TypeOK
  <2>2. IsHome(s, route[s])  BY <2>1 DEF Init, IsHome
  <2> QED BY <2>1, <2>2
<1> QED BY <1>1 DEF Home

(* A test is received by one thread, for its whole life: flows are fixed   *)
(* with individual ports, and with a sharded port the kernel distributes   *)
(* them anew only after the last sender is done (receiver.rs 650-665).     *)
THEOREM TestsStayWithOneThread == Spec => []OneThreadPerTest
<1>1. Home => OneThreadPerTest
  <2> SUFFICES ASSUME FixedFlows, Home, NEW t \in TestIds,
                      NEW q \in handlers[t], NEW r \in handlers[t]
               PROVE  q = r
    BY DEF OneThreadPerTest, FixedFlows, Reliable
  <2>1. PICK s \in Senders : t = TestOf(s)  BY DEF TestIds
  <2> QED BY <2>1 DEF Home, IsHome
<1>2. Init => Home  BY InitHome
<1>3. SessionInv /\ Home /\ [Next]_vars => Home'  BY StepHome
<1> QED BY <1>1, <1>2, <1>3, AlwaysSession, PTL DEF Spec
-----------------------------------------------------------------------------
(* A receiver with len measurements has one for test t, or will have one   *)
(* when it has read the first n messages of q.                             *)
Knows(len, q, t, n) ==
  t < len \/ \E j \in DOMAIN q : j <= n /\ q[j].type = "INIT" /\ q[j].test = t

(* INIT is ahead of whatever else there is of its test.                    *)
InitLeads(len, q) ==
  \A i \in DOMAIN q :
    q[i].test < MaxTestId /\ (q[i].type # "INIT" => Knows(len, q, q[i].test, i - 1))

InitFirst == \A r \in Receivers : InitLeads(Len(ms[r]), queue[r])

InitSent ==
  \A s \in Senders : spc[s] \in {"data", "drain"} =>
    Knows(Len(ms[route[s]]), queue[route[s]], TestOf(s), Len(queue[route[s]]))

Smooth ==
  NothingLost /\ StartTogether /\ cfg.port # "sharing" /\ cfg.senders <= MaxTestId

NoneFailed == \A r \in Receivers : rpc[r] # "failed"

Announced == Smooth => NoneFailed /\ InitFirst /\ InitSent

(* A message joins the queue.                                              *)
LEMMA OrderOfAppend ==
  ASSUME NEW len \in Nat, NEW q \in Seq(Message), NEW m \in Message,
         InitLeads(len, q), m.test < MaxTestId,
         m.type # "INIT" => Knows(len, q, m.test, Len(q))
  PROVE  /\ InitLeads(len, Append(q, m))
         /\ \A t : Knows(len, q, t, Len(q)) =>
                     Knows(len, Append(q, m), t, Len(Append(q, m)))
         /\ m.type = "INIT" => Knows(len, Append(q, m), m.test, Len(Append(q, m)))
<1> DEFINE a == Append(q, m)
<1>1. Len(q) \in Nat /\ DOMAIN q = 1 .. Len(q)  BY LenProperties
<1>2. /\ a \in Seq(Message) /\ Len(a) = Len(q) + 1
      /\ \A i \in 1 .. Len(q) : a[i] = q[i]
      /\ a[Len(q) + 1] = m
  BY AppendProperties
<1>3. DOMAIN a = 1 .. (Len(q) + 1)  BY <1>2, LenProperties
<1> HIDE DEF a
<1>4. \A t, n : Knows(len, q, t, n) => Knows(len, a, t, n)
  BY <1>1, <1>2, <1>3 DEF Knows
<1>5. \A t : Knows(len, q, t, Len(q)) => Knows(len, a, t, Len(a))
  BY <1>1, <1>2, <1>3 DEF Knows
<1>6. m.type = "INIT" => Knows(len, a, m.test, Len(a))
  BY <1>1, <1>2, <1>3 DEF Knows
<1>7. ASSUME NEW i \in DOMAIN a
      PROVE  a[i].test < MaxTestId /\ (a[i].type # "INIT" => Knows(len, a, a[i].test, i - 1))
  <2>1. CASE i \in DOMAIN q  BY <1>1, <1>2, <1>4, <2>1 DEF InitLeads
  <2>2. CASE i = Len(q) + 1
    <3>1. a[i] = m /\ i - 1 = Len(q)  BY <1>1, <1>2, <2>2
    <3> QED BY <1>4, <3>1
  <2> QED BY <1>1, <1>3, <2>1, <2>2
<1> QED BY <1>5, <1>6, <1>7 DEF InitLeads, a

(* The first message leaves the queue and is parsed.                       *)
LEMMA OrderOfCut ==
  ASSUME NEW len \in Nat, NEW more \in Nat, len <= more, NEW q \in Seq(Message), q # <<>>,
         InitLeads(len, q), Head(q).type = "INIT" => Head(q).test < more
  PROVE  /\ Head(q).test < MaxTestId
         /\ Head(q).type # "INIT" => Head(q).test < len
         /\ InitLeads(more, SubSeq(q, 2, Len(q)))
         /\ \A t \in Nat : Knows(len, q, t, Len(q)) =>
              Knows(more, SubSeq(q, 2, Len(q)), t, Len(SubSeq(q, 2, Len(q))))
<1> DEFINE c == SubSeq(q, 2, Len(q))
<1>1. /\ Len(q) \in Nat /\ Len(q) > 0 /\ DOMAIN q = 1 .. Len(q) /\ Head(q) = q[1]
      /\ \A i \in DOMAIN q : q[i] \in Message
  BY LenProperties, EmptySeq, HeadTailProperties, ElementOfSeq
<1>2. 1 \in 1 .. Len(q) /\ 1 + 1 = 2  BY <1>1
<1>3. /\ c \in Seq(Message) /\ Len(c) = Len(q) - 1
      /\ \A i \in 1 .. (Len(q) - 1) : c[i] = q[1 + i]
  BY <1>2, CutType
<1>4. DOMAIN c = 1 .. (Len(q) - 1)  BY <1>3, LenProperties
<1> HIDE DEF c
<1>5. ASSUME NEW t \in Nat, NEW n \in Nat, Knows(len, q, t, n + 1) PROVE Knows(more, c, t, n)
  <2>1. CASE t < len  BY <2>1 DEF Knows
  <2>2. CASE ~(t < len)
    <3>1. PICK j \in DOMAIN q : j <= n + 1 /\ q[j].type = "INIT" /\ q[j].test = t
      BY <1>5, <2>2 DEF Knows
    <3>2. CASE j = 1  BY <1>1, <3>1, <3>2 DEF Knows
    <3>3. CASE j # 1
      <4>1. j - 1 \in DOMAIN c /\ 1 + (j - 1) = j /\ j - 1 <= n  BY <1>1, <1>4, <3>1, <3>3
      <4>2. c[j - 1] = q[j]  BY <1>3, <1>4, <4>1
      <4> QED BY <3>1, <4>1, <4>2 DEF Knows
    <3> QED BY <3>2, <3>3
  <2> QED BY <2>1, <2>2
<1>6. /\ Head(q).test < MaxTestId
      /\ Head(q).type # "INIT" => Knows(len, q, Head(q).test, 0)
  BY <1>1, <1>2 DEF InitLeads
<1>7. \A t : Knows(len, q, t, 0) => t < len  BY <1>1 DEF Knows
<1>8. ASSUME NEW i \in DOMAIN c
      PROVE  c[i].test < MaxTestId /\ (c[i].type # "INIT" => Knows(more, c, c[i].test, i - 1))
  <2>1. i + 1 \in DOMAIN q /\ c[i] = q[i + 1] /\ i - 1 \in Nat /\ (i + 1) - 1 = (i - 1) + 1
    BY <1>1, <1>3, <1>4
  <2>2. c[i].test \in Nat  BY <1>1, <2>1 DEF Message
  <2>3. /\ c[i].test < MaxTestId
        /\ c[i].type # "INIT" => Knows(len, q, c[i].test, (i - 1) + 1)
    BY <2>1 DEF InitLeads
  <2> QED BY <1>5, <2>1, <2>2, <2>3
<1>9. \A t \in Nat : Knows(len, q, t, Len(q)) => Knows(more, c, t, Len(c))
  <2>1. Len(c) \in Nat /\ Len(c) + 1 = Len(q)  BY <1>1, <1>3
  <2> QED BY <1>5, <2>1
<1> QED BY <1>6, <1>7, <1>8, <1>9 DEF InitLeads, c

LEMMA ParsedLength ==
  ASSUME NEW s \in Seq(Measurement), NEW m \in Message, m.test < MaxTestId,
         m.type = "LAST" => m.test < Len(s)
  PROVE  /\ ParseResult(s, m) \in {"INIT", "OK", "LAST"}
         /\ Len(Parsed(s, m)) \in Nat /\ Len(s) \in Nat /\ Len(Parsed(s, m)) >= Len(s)
         /\ m.type = "INIT" => m.test < Len(Parsed(s, m))
<1>1. Len(s) \in Nat /\ DOMAIN s = 1 .. Len(s)  BY LenProperties
<1>2. m.test \in Nat /\ m.type \in {"INIT", "MEASUREMENT", "LAST"}  BY DEF Message
<1>3. Parsed(s, m) \in Seq(Measurement)  BY ParsedType
<1>4. Len(Parsed(s, m)) \in Nat /\ DOMAIN Parsed(s, m) = 1 .. Len(Parsed(s, m))
  BY <1>3, LenProperties
<1>5. /\ m.type = "INIT" => ParseResult(s, m) = "INIT"
      /\ m.type = "MEASUREMENT" => ParseResult(s, m) = "OK"
      /\ m.type = "LAST" => ParseResult(s, m) = "LAST"
  BY <1>1, <1>2, MaxTestIdAssumption DEF ParseResult
<1> DEFINE n == IF Len(s) <= m.test THEN m.test + 1 ELSE Len(s)
<1>6. n \in Nat /\ n >= Len(s) /\ m.test < n  BY <1>1, <1>2
<1>7. DOMAIN Resized(s, m.test) = 1 .. n  BY DEF Resized
<1> HIDE DEF n
<1>8. m.type # "LAST" => DOMAIN Parsed(s, m) = 1 .. n
  BY <1>2, <1>5, <1>7 DEF Parsed
<1>9. m.type = "LAST" => DOMAIN Parsed(s, m) = 1 .. Len(s)
  BY <1>1, <1>5 DEF Parsed
<1>10. \A a, b \in Nat : 1 .. a = 1 .. b => a = b
  <2> SUFFICES ASSUME NEW a \in Nat, NEW b \in Nat, 1 .. a = 1 .. b PROVE a = b
    OBVIOUS
  <2>1. a > 0 => a \in 1 .. b  OBVIOUS
  <2>2. b > 0 => b \in 1 .. a  OBVIOUS
  <2> QED BY <2>1, <2>2
<1>11. m.type # "LAST" => Len(Parsed(s, m)) = n  BY <1>4, <1>6, <1>8, <1>10
<1>12. m.type = "LAST" => Len(Parsed(s, m)) = Len(s)  BY <1>1, <1>4, <1>9, <1>10
<1>13. m.type = "INIT" \/ m.type = "MEASUREMENT" \/ m.type = "LAST"  BY <1>2
<1> DEFINE p == Len(Parsed(s, m))
<1>14. ParseResult(s, m) \in {"INIT", "OK", "LAST"}  BY <1>5, <1>13
<1> HIDE DEF p
<1>15. p \in Nat /\ (m.type # "LAST" => p = n) /\ (m.type = "LAST" => p = Len(s))
  BY <1>4, <1>11, <1>12 DEF p
<1>16. p >= Len(s) /\ (m.type = "INIT" => m.test < p)
  <2>1. CASE m.type # "LAST"  BY <1>6, <1>15, <2>1
  <2>2. CASE m.type = "LAST"
    <3>1. p = Len(s)  BY <1>15, <2>2
    <3>2. \A x \in Nat : x >= x  OBVIOUS
    <3>3. m.type # "INIT"  BY <2>2
    <3> QED BY <1>1, <3>1, <3>2, <3>3
  <2> QED BY <2>1, <2>2
<1> QED BY <1>1, <1>14, <1>15, <1>16 DEF p

(* A sender's message is appended to the queue of its receiver.            *)
LEMMA SenderAnnounces ==
  ASSUME SessionInv, Announced, Smooth, NEW s \in Senders, SenderStep(s)
  PROVE  NoneFailed' /\ InitFirst' /\ InitSent'
<1>1. /\ UNCHANGED <<cfg, route, rpc, ms>> /\ Senders' = Senders /\ Receivers' = Receivers
      /\ \A u : TestOf(u)' = TestOf(u)
  BY SenderParts, Frame DEF receiverVars, SessionInv
<1>2. NoneFailed /\ InitFirst /\ InitSent /\ NoneFailed'
  BY <1>1 DEF Announced, NoneFailed
<1>3. Reliable /\ cfg.port # "sharing" /\ Sock(route[s]) = route[s]
  BY DEF Smooth, NothingLost, Reliable, Sock
<1>4. \A u \in Senders : u # s => spc'[u] = spc[u]  BY SenderParts DEF SessionInv
<1> DEFINE k == route[s]
           len == Len(ms[k])
           m(type) == Message_(type, s)
<1>5. /\ k \in Receivers /\ queue[k] \in Seq(Message) /\ len \in Nat
      /\ \A u \in Senders : route[u] \in Receivers
  BY LenProperties DEF SessionInv, TypeOK
<1>6. CASE UNCHANGED queue /\ spc[s] = "data"
  <2>1. InitFirst'  BY <1>1, <1>2, <1>6 DEF InitFirst
  <2>2. InitSent'  BY <1>1, <1>2, <1>4, <1>6 DEF InitSent
  <2> QED BY <1>2, <2>1, <2>2
<1>7. ASSUME NEW type \in {"INIT", "MEASUREMENT", "LAST"},
             queue' = [queue EXCEPT ![k] = Append(@, m(type))],
             type = "INIT" => spc[s] = "start",
             type # "INIT" => spc[s] \in {"data", "drain"}
      PROVE  NoneFailed' /\ InitFirst' /\ InitSent'
  <2>1. /\ m(type) \in Message /\ m(type).test = TestOf(s) /\ m(type).type = type
        /\ m(type).test < MaxTestId
    <3>1. TestOf(s) \in Nat /\ TestOf(s) < MaxTestId
      BY <1>3, Threads, MaxTestIdAssumption
      DEF SessionInv, TypeOK, Smooth, TestOf, Senders
    <3> QED BY <3>1 DEF Message_, Message
  <2>2. queue'[k] = Append(queue[k], m(type))
        /\ \A q \in Receivers : q # k => queue'[q] = queue[q]
    BY <1>5, <1>7 DEF SessionInv, TypeOK
  <2>3. InitLeads(len, queue[k])  BY <1>2, <1>5 DEF InitFirst
  <2>4. type # "INIT" => Knows(len, queue[k], TestOf(s), Len(queue[k]))
    BY <1>2, <1>7 DEF InitSent
  <2>5. /\ InitLeads(len, queue'[k])
        /\ \A t : Knows(len, queue[k], t, Len(queue[k])) =>
                    Knows(len, queue'[k], t, Len(queue'[k]))
        /\ type = "INIT" => Knows(len, queue'[k], TestOf(s), Len(queue'[k]))
    BY <1>5, <2>1, <2>2, <2>3, <2>4, OrderOfAppend
  <2>6. InitFirst'  BY <1>1, <1>2, <2>2, <2>5 DEF InitFirst
  <2>7. ASSUME NEW u \in Senders, spc'[u] \in {"data", "drain"}
        PROVE  Knows(Len(ms[route[u]]), queue'[route[u]], TestOf(u), Len(queue'[route[u]]))
    <3>1. CASE u = s
      <4>1. Knows(len, queue'[k], TestOf(s), Len(queue'[k]))  BY <2>4, <2>5
      <4> QED BY <3>1, <4>1
    <3>2. CASE u # s
      <4>1. Knows(Len(ms[route[u]]), queue[route[u]], TestOf(u), Len(queue[route[u]]))
        BY <1>2, <1>4, <2>7, <3>2 DEF InitSent
      <4> QED BY <1>5, <2>2, <2>5, <4>1
    <3> QED BY <3>1, <3>2
  <2>8. InitSent'  BY <1>1, <2>7 DEF InitSent
  <2> QED BY <1>2, <2>6, <2>8
<1>8. \/ UNCHANGED queue /\ spc[s] = "data"
      \/ \E type \in {"INIT", "MEASUREMENT", "LAST"} :
           /\ queue' = [queue EXCEPT ![k] = Append(@, Message_(type, s))]
           /\ type = "INIT" => spc[s] = "start"
           /\ type # "INIT" => spc[s] \in {"data", "drain"}
  <2>1. open[k] /\ ~cfg.loss  BY <1>3, SenderParts, StillOpen DEF SessionInv, Reliable
  <2>2. ASSUME NEW type, Deliver(s, type)
        PROVE  queue' = [queue EXCEPT ![k] = Append(@, Message_(type, s))]
    BY <1>3, <2>1, <2>2 DEF Deliver, Message_
  <2>3. open[Sock(route[s])] /\ TypeOK  BY <1>3, <2>1 DEF SessionInv
  <2>4. \/ UNCHANGED queue /\ spc[s] = "data"
        \/ spc[s] = "start" /\ Deliver(s, "INIT")
        \/ spc[s] = "data" /\ Deliver(s, "MEASUREMENT")
        \/ spc[s] = "drain" /\ Deliver(s, "LAST")
    BY <2>3, SenderParts
  <2> QED BY <2>2, <2>4
<1> QED BY <1>6, <1>7, <1>8

(* A receiver parses the first message of its socket.                      *)
LEMMA ReceiveAnnounces ==
  ASSUME SessionInv, Announced, Smooth, NEW r \in Receivers, Receive(r)
  PROVE  NoneFailed' /\ InitFirst' /\ InitSent'
<1> DEFINE m == Head(Inbox(r))
           q == queue[r]
           len == Len(ms[r])
           more == Len(ms'[r])
           c == SubSeq(q, 2, Len(q))
<1>1. NoneFailed /\ InitFirst /\ InitSent /\ TypeOK /\ cfg.take = 1 /\ Sock(r) = r /\ Inbox(r) = q
  BY DEF Announced, SessionInv, Smooth, NothingLost, Sock, Inbox
<1>2. /\ q # <<>> /\ m \in Message /\ m = Head(q) /\ Taken(r) = 1
      /\ queue' = [queue EXCEPT ![r] = SubSeq(@, 1 + 1, Len(@))]
      /\ ms' = [ms EXCEPT ![r] = Parsed(@, m)]
      /\ UNCHANGED <<cfg, senderVars, open, route>>
  BY <1>1, ReceiveParts, TakenRange
<1>3. /\ Senders' = Senders /\ Receivers' = Receivers /\ \A u : TestOf(u)' = TestOf(u)
      /\ UNCHANGED <<spc, route>>
  BY <1>2, Frame DEF senderVars
<1>4. q \in Seq(Message) /\ ms[r] \in Seq(Measurement) /\ len \in Nat
  BY <1>1, LenProperties DEF TypeOK
<1>5. InitLeads(len, q)  BY <1>1 DEF InitFirst
<1>6. m.test < MaxTestId /\ (m.type # "INIT" => m.test < len)
  <2>1. ms[r] \in Seq(Measurement) /\ len + m.test + 1 \in Nat /\ len <= len + m.test + 1
        /\ m.test < len + m.test + 1
    BY <1>2, <1>4 DEF Message
  <2> QED BY <1>2, <1>4, <1>5, <2>1, OrderOfCut
<1>7. /\ ms'[r] = Parsed(ms[r], m) /\ queue'[r] = c
      /\ \A p \in Receivers : p # r => ms'[p] = ms[p] /\ queue'[p] = queue[p]
  BY <1>1, <1>2 DEF TypeOK
<1>8. /\ ParseResult(ms[r], m) \in {"INIT", "OK", "LAST"}
      /\ more \in Nat /\ len <= more /\ (m.type = "INIT" => m.test < more)
  BY <1>2, <1>4, <1>6, <1>7, ParsedLength
<1>9. /\ InitLeads(more, c)
      /\ \A t \in Nat : Knows(len, q, t, Len(q)) => Knows(more, c, t, Len(c))
  BY <1>2, <1>4, <1>5, <1>8, OrderOfCut
<1>10. NoneFailed'
  <2>1. rpc' = rpc \/ \E pc \in {"done", "leave"} : rpc' = [rpc EXCEPT ![r] = pc]
    BY <1>1, <1>8, ReceiveParts DEF Leave, ReceiverGoesTo
  <2> QED BY <1>1, <1>3, <2>1 DEF NoneFailed, TypeOK
<1> HIDE DEF m, q, len, more, c
<1>11. InitFirst'
  <2>1. \A p \in Receivers : InitLeads(Len(ms'[p]), queue'[p])
    BY <1>1, <1>7, <1>9 DEF InitFirst, more
  <2> QED BY <1>3, <2>1 DEF InitFirst
<1>12. InitSent'
  <2>1. ASSUME NEW u \in Senders, spc[u] \in {"data", "drain"}
        PROVE  Knows(Len(ms'[route[u]]), queue'[route[u]], TestOf(u), Len(queue'[route[u]]))
    <3>1. route[u] \in Receivers /\ TestOf(u) \in Nat  BY <1>1, Threads DEF TypeOK
    <3>2. Knows(Len(ms[route[u]]), queue[route[u]], TestOf(u), Len(queue[route[u]]))
      BY <1>1, <2>1 DEF InitSent
    <3> QED BY <1>7, <1>9, <3>1, <3>2 DEF q, len, more
  <2> QED BY <1>3, <2>1 DEF InitSent
<1> QED BY <1>10, <1>11, <1>12

(* A closed socket is empty, and no sender needs it any more.              *)
LEMMA CloseAnnounces ==
  ASSUME SessionInv, Announced, Smooth, NEW r \in Receivers, Close(r)
  PROVE  NoneFailed' /\ InitFirst' /\ InitSent'
<1>1. /\ NoneFailed /\ InitFirst /\ InitSent /\ TypeOK /\ Reliable
      /\ Calm /\ cfg.port \in {"individual", "sharding"}
  BY Threads
  DEF Announced, SessionInv, Smooth, NothingLost, Reliable, TypeOK, PortMode
<1>2. /\ rpc'[r] = "done"
      /\ \A q \in Receivers : q # r => rpc'[q] = rpc[q] /\ queue'[q] = queue[q]
      /\ queue'[r] = <<>>
      /\ cfg.port # "sharding" => UNCHANGED route
      /\ UNCHANGED <<cfg, spc, ms>>
  BY <1>1, CloseParts DEF senderVars
<1>3. Senders' = Senders /\ Receivers' = Receivers /\ \A u : TestOf(u)' = TestOf(u)
  BY <1>2, Frame
<1>4. NoneFailed'  BY <1>1, <1>2, <1>3 DEF NoneFailed
<1>5. InitFirst'
  <2>1. \A n : InitLeads(n, <<>>)
    <3>1. DOMAIN <<>> = {}  OBVIOUS
    <3> QED BY <3>1 DEF InitLeads
  <2>2. \A q \in Receivers : InitLeads(Len(ms[q]), queue'[q])  BY <1>1, <1>2, <2>1 DEF InitFirst
  <2> QED BY <1>2, <1>3, <2>2 DEF InitFirst
<1>6. InitSent'
  <2>1. CASE cfg.port = "sharding"
    <3>1. AllDone  BY <1>1, <2>1, ClosesAfterAll
    <3> QED BY <1>2, <1>3, <3>1 DEF InitSent, AllDone, Active
  <2>2. CASE cfg.port = "individual"
    <3>1. route' = route /\ Clear(r)
      BY <1>1, <1>2, <2>2, CloseParts DEF Calm, OwnSockets, Leaving
    <3>2. ASSUME NEW u \in Senders, spc[u] \in {"data", "drain"}
          PROVE  Knows(Len(ms[route[u]]), queue'[route[u]], TestOf(u), Len(queue'[route[u]]))
      <4>1. route[u] # r /\ route[u] \in Receivers  BY <1>1, <3>1, <3>2 DEF Clear, Active, TypeOK
      <4> QED BY <1>1, <1>2, <3>2, <4>1 DEF InitSent
    <3> QED BY <1>2, <1>3, <3>1, <3>2 DEF InitSent
  <2> QED BY <1>1, <2>1, <2>2
<1> QED BY <1>4, <1>5, <1>6

LEMMA StepAnnounced == ASSUME SessionInv, Announced, [Next]_vars PROVE Announced'
<1>1. cfg' = cfg  BY CfgFixed DEF SessionInv
<1> SUFFICES ASSUME Smooth PROVE NoneFailed' /\ InitFirst' /\ InitSent'
  BY <1>1 DEF Announced, Smooth, NothingLost, StartTogether
<1>2. CASE Tick \/ UNCHANGED vars \/ \E r \in Receivers : Moves(r)
  <2>1. /\ UNCHANGED <<cfg, queue, ms, spc, route>>
        /\ rpc' = rpc \/ \E r \in Receivers : \E pc \in ReceiverPc \ {"failed"} :
                           rpc' = [rpc EXCEPT ![r] = pc]
    <3>1. ASSUME NEW r \in Receivers, Moves(r)
          PROVE  \E pc \in ReceiverPc \ {"failed"} : rpc' = [rpc EXCEPT ![r] = pc]
      BY <3>1
      DEF Moves, FirstMessage, NoMessage, Block, Readable, Timeout, Leave, ReceiverGoesTo, ReceiverPc
    <3> QED BY <1>2, <3>1, TickParts, MovesParts
        DEF SessionInv, vars, senderVars, receiverVars, socketVars
  <2>2. Senders' = Senders /\ Receivers' = Receivers /\ \A u : TestOf(u)' = TestOf(u)
    BY <2>1, Frame
  <2>3. NoneFailed'  BY <2>1, <2>2 DEF Announced, NoneFailed, SessionInv, TypeOK
  <2>4. InitFirst' /\ InitSent'  BY <2>1, <2>2 DEF Announced, InitFirst, InitSent
  <2> QED BY <2>3, <2>4
<1>3. ~MainCloses  BY MainParts DEF Smooth, SessionInv
<1> QED BY <1>2, <1>3, SenderAnnounces, ReceiveAnnounces, CloseAnnounces
        DEF Next, ReceiverStep, Moves

LEMMA InitAnnounced == ASSUME Init PROVE Announced
<1>1. DOMAIN <<>> = {}  OBVIOUS
<1> QED BY <1>1 DEF Init, Announced, NoneFailed, InitFirst, InitSent, InitLeads

(* No thread with a socket of its own fails, as long as nothing is lost    *)
(* and each message is parsed: INIT is read before LAST, so that LAST      *)
(* finds the measurement of its test (receiver.rs 203-231), also after the *)
(* flows of a sharded port were distributed anew.                          *)
THEOREM NoReceiverFails == Spec => []NoFailure
<1>1. Announced => NoFailure  BY DEF Announced, Smooth, NoneFailed, NoFailure
<1>2. Init => Announced  BY InitAnnounced
<1>3. SessionInv /\ Announced /\ [Next]_vars => Announced'  BY StepAnnounced
<1> QED BY <1>1, <1>2, <1>3, AlwaysSession, PTL DEF Spec
-----------------------------------------------------------------------------
(* What a socket holds of the measurement, as messages come and go.        *)

UnreadAt(q) == {i \in DOMAIN q : q[i].type = "MEASUREMENT"}

LEMMA UnreadType ==
  ASSUME NEW q \in Seq(Message)
  PROVE  /\ IsFiniteSet(UnreadAt(q)) /\ Unread(q) \in Nat /\ Unread(q) = Cardinality(UnreadAt(q))
         /\ (\A i \in DOMAIN q : q[i].type # "MEASUREMENT") => Unread(q) = 0
<1>1. DOMAIN q = 1 .. Len(q) /\ Len(q) \in Int  BY LenProperties
<1>2. IsFiniteSet(DOMAIN q)  BY <1>1, FS_Interval
<1>3. UnreadAt(q) \subseteq DOMAIN q  BY DEF UnreadAt
<1>4. IsFiniteSet(UnreadAt(q)) /\ Cardinality(UnreadAt(q)) \in Nat
  BY <1>2, <1>3, FS_Subset, FS_CardinalityType
<1>5. Unread(q) = Cardinality(UnreadAt(q))  BY DEF Unread, UnreadAt
<1>6. (\A i \in DOMAIN q : q[i].type # "MEASUREMENT") => UnreadAt(q) = {}  BY DEF UnreadAt
<1> QED BY <1>4, <1>5, <1>6, FS_EmptySet

LEMMA UnreadNone == Unread(<<>>) = 0
<1>1. <<>> \in Seq(Message) /\ DOMAIN <<>> = {}  BY EmptySeq
<1> QED BY <1>1, UnreadType

LEMMA UnreadAppend ==
  ASSUME NEW q \in Seq(Message), NEW m \in Message
  PROVE  Unread(Append(q, m)) = Unread(q) + (IF m.type = "MEASUREMENT" THEN 1 ELSE 0)
<1> DEFINE a == Append(q, m)
           n == Len(q) + 1
<1>1. /\ Len(q) \in Nat /\ DOMAIN q = 1 .. Len(q)
      /\ a \in Seq(Message) /\ Len(a) = n
      /\ \A i \in 1 .. Len(q) : a[i] = q[i]
      /\ a[n] = m
  BY LenProperties, AppendProperties
<1>2. DOMAIN a = 1 .. n  BY <1>1, LenProperties
<1> HIDE DEF a
<1>3. DOMAIN a = DOMAIN q \cup {n} /\ n \notin DOMAIN q  BY <1>1, <1>2
<1>4. /\ m.type = "MEASUREMENT" => UnreadAt(a) = UnreadAt(q) \cup {n}
      /\ m.type # "MEASUREMENT" => UnreadAt(a) = UnreadAt(q)
      /\ n \notin UnreadAt(q)
  <2> HIDE DEF n
  <2> QED BY <1>1, <1>3 DEF UnreadAt
<1>5. IsFiniteSet(UnreadAt(q)) /\ Unread(q) = Cardinality(UnreadAt(q)) /\ Unread(q) \in Nat
      /\ Unread(a) = Cardinality(UnreadAt(a))
  BY <1>1, UnreadType
<1>6. Cardinality(UnreadAt(q) \cup {n}) = Cardinality(UnreadAt(q)) + 1  BY <1>4, <1>5, AddOne
<1>7. Unread(a) = Unread(q) + (IF m.type = "MEASUREMENT" THEN 1 ELSE 0)
  <2>1. CASE m.type = "MEASUREMENT"  BY <1>4, <1>5, <1>6, <2>1
  <2>2. CASE m.type # "MEASUREMENT"  BY <1>4, <1>5, <2>2
  <2> QED BY <2>1, <2>2
<1> QED BY <1>7 DEF a

LEMMA UnreadCut ==
  ASSUME NEW q \in Seq(Message), q # <<>>
  PROVE  Unread(q) = Unread(SubSeq(q, 2, Len(q))) + (IF Head(q).type = "MEASUREMENT" THEN 1 ELSE 0)
<1> DEFINE c == SubSeq(q, 2, Len(q))
           U == UnreadAt(q) \ {1}
           f == [i \in UnreadAt(c) |-> i + 1]
<1>1. Len(q) \in Nat /\ Len(q) > 0 /\ DOMAIN q = 1 .. Len(q) /\ Head(q) = q[1] /\ 1 \in 1 .. Len(q)
      /\ 1 + 1 = 2
  BY LenProperties, EmptySeq, HeadTailProperties
<1>2. /\ c \in Seq(Message) /\ Len(c) = Len(q) - 1
      /\ \A i \in 1 .. (Len(q) - 1) : c[i] = q[1 + i]
  BY <1>1, CutType
<1>3. DOMAIN c = 1 .. (Len(q) - 1)  BY <1>2, LenProperties
<1> HIDE DEF c
<1>4. \A i \in UnreadAt(c) : i \in Nat /\ i + 1 \in U  BY <1>1, <1>2, <1>3 DEF UnreadAt
<1>5. \A j \in U : j - 1 \in UnreadAt(c) /\ (j - 1) + 1 = j  BY <1>1, <1>2, <1>3 DEF UnreadAt
<1>6. f \in Bijection(UnreadAt(c), U)
  <2>1. f \in [UnreadAt(c) -> U]  BY <1>4
  <2>2. \A i, j \in UnreadAt(c) : f[i] = f[j] => i = j  BY <1>4
  <2>3. \A j \in U : \E i \in UnreadAt(c) : f[i] = j  BY <1>5
  <2> HIDE DEF f, U
  <2>4. f \in Injection(UnreadAt(c), U)  BY <2>1, <2>2 DEF Injection, IsInjective
  <2>5. f \in Surjection(UnreadAt(c), U)  BY <2>1, <2>3 DEF Surjection
  <2> QED BY <2>4, <2>5 DEF Bijection
<1>7. /\ IsFiniteSet(UnreadAt(q)) /\ Unread(q) = Cardinality(UnreadAt(q)) /\ Unread(q) \in Nat
      /\ IsFiniteSet(UnreadAt(c)) /\ Unread(c) = Cardinality(UnreadAt(c)) /\ Unread(c) \in Nat
  BY <1>2, UnreadType
<1>8. Cardinality(U) = Cardinality(UnreadAt(c))
  <2>1. ExistsBijection(UnreadAt(c), U)  BY <1>6 DEF ExistsBijection
  <2> QED BY <1>7, <2>1, FS_Bijection
<1>9. 1 \in UnreadAt(q) <=> Head(q).type = "MEASUREMENT"  BY <1>1 DEF UnreadAt
<1>10. 1 \in UnreadAt(q) => Cardinality(U) = Cardinality(UnreadAt(q)) - 1
  BY <1>7, FS_RemoveElement
<1>11. 1 \notin UnreadAt(q) => U = UnreadAt(q)  OBVIOUS
<1> HIDE DEF U
<1>12. Unread(q) = Unread(c) + (IF Head(q).type = "MEASUREMENT" THEN 1 ELSE 0)
  <2>1. CASE 1 \in UnreadAt(q)  BY <1>7, <1>8, <1>9, <1>10, <2>1
  <2>2. CASE 1 \notin UnreadAt(q)  BY <1>7, <1>8, <1>9, <1>11, <2>2
  <2> QED BY <2>1, <2>2
<1> QED BY <1>12 DEF c

(* What a message does to the marks of the measurements.                   *)
HasFirst(s, i) == i \in DOMAIN s /\ s[i].first

LEMMA ParsedMarks ==
  ASSUME NEW s \in Seq(Measurement), NEW m \in Message
  PROVE  /\ \A i : HasFirst(s, i) => HasFirst(Parsed(s, m), i)
         /\ \A i \in DOMAIN Parsed(s, m) : Parsed(s, m)[i].last =>
              \/ i \in DOMAIN s /\ s[i].last
              \/ m.type = "LAST" /\ i = m.test + 1
         /\ m.type = "MEASUREMENT" /\ m.test < MaxTestId => HasFirst(Parsed(s, m), m.test + 1)
<1>1. Len(s) \in Nat /\ DOMAIN s = 1 .. Len(s) /\ \A i \in DOMAIN s : s[i] \in Measurement
  BY LenProperties, ElementOfSeq
<1>2. m.test \in Nat /\ m.type \in {"INIT", "MEASUREMENT", "LAST"}  BY DEF Message
<1> DEFINE R == Resized(s, m.test)
<1>3. /\ DOMAIN R = 1 .. (IF Len(s) <= m.test THEN m.test + 1 ELSE Len(s))
      /\ \A i \in DOMAIN R : R[i] = IF i <= Len(s) THEN s[i] ELSE NewMeasurement
      /\ R = [i \in DOMAIN R |-> R[i]]
  BY DEF Resized
<1>4. /\ DOMAIN s \subseteq DOMAIN R /\ m.test + 1 \in DOMAIN R
      /\ \A i \in DOMAIN s : R[i] = s[i]
      /\ \A i \in DOMAIN R : i \notin DOMAIN s => R[i] = NewMeasurement
      /\ \A i \in DOMAIN R : R[i] \in Measurement
  <2> HIDE DEF R
  <2>1. DOMAIN s \subseteq DOMAIN R /\ m.test + 1 \in DOMAIN R  BY <1>1, <1>2, <1>3
  <2>2. \A i \in DOMAIN R : i \in Int /\ (i <= Len(s) <=> i \in DOMAIN s)  BY <1>1, <1>2, <1>3
  <2>3. \A i \in DOMAIN s : R[i] = s[i]  BY <1>3, <2>1, <2>2
  <2>4. \A i \in DOMAIN R : i \notin DOMAIN s => R[i] = NewMeasurement  BY <1>3, <2>2
  <2>5. NewMeasurement \in Measurement  BY DEF NewMeasurement, Measurement
  <2>6. \A i \in DOMAIN R : R[i] \in Measurement  BY <1>1, <2>3, <2>4, <2>5
  <2> QED BY <2>1, <2>3, <2>4, <2>6
<1> HIDE DEF R
<1>5. CASE Parsed(s, m) = s /\ m.type # "MEASUREMENT"
  BY <1>5
<1>6. CASE Parsed(s, m) = s /\ ~(m.test < MaxTestId)
  BY <1>6
<1>7. CASE Parsed(s, m) = R /\ m.type # "MEASUREMENT"
  BY <1>4, <1>7 DEF HasFirst, NewMeasurement
<1>8. CASE Parsed(s, m) = [R EXCEPT ![m.test + 1].first = TRUE]
  <2> DEFINE P == [R EXCEPT ![m.test + 1].first = TRUE]
  <2>1. /\ DOMAIN P = DOMAIN R
        /\ \A i \in DOMAIN R : i # m.test + 1 => P[i] = R[i]
        /\ P[m.test + 1].first = TRUE /\ P[m.test + 1].last = R[m.test + 1].last
    BY <1>3, <1>4 DEF Measurement
  <2> HIDE DEF P
  <2>2. \A i \in DOMAIN R : (R[i].first => P[i].first) /\ P[i].last = R[i].last  BY <2>1
  <2>3. Parsed(s, m) = P  BY <1>8 DEF P
  <2>4. HasFirst(P, m.test + 1)  BY <1>4, <2>1 DEF HasFirst
  <2>5. \A i : HasFirst(s, i) => HasFirst(P, i)  BY <1>4, <2>1, <2>2 DEF HasFirst
  <2>6. \A i \in DOMAIN P : P[i].last => i \in DOMAIN s /\ s[i].last
    BY <1>4, <2>1, <2>2 DEF NewMeasurement
  <2> QED BY <2>3, <2>4, <2>5, <2>6
<1>9. CASE Parsed(s, m) = [s EXCEPT ![m.test + 1].last = TRUE] /\ m.type = "LAST"
  <2> DEFINE P == [s EXCEPT ![m.test + 1].last = TRUE]
  <2>1. /\ DOMAIN P = DOMAIN s
        /\ \A i \in DOMAIN s : i # m.test + 1 => P[i] = s[i]
        /\ \A i \in DOMAIN s : P[i].first = s[i].first
    BY <1>1 DEF Measurement
  <2> HIDE DEF P
  <2>2. Parsed(s, m) = P  BY <1>9 DEF P
  <2> QED BY <1>9, <2>1, <2>2 DEF HasFirst
<1>10. \/ Parsed(s, m) = s /\ m.type # "MEASUREMENT"
       \/ Parsed(s, m) = s /\ ~(m.test < MaxTestId)
       \/ Parsed(s, m) = R /\ m.type # "MEASUREMENT"
       \/ Parsed(s, m) = [R EXCEPT ![m.test + 1].first = TRUE]
       \/ Parsed(s, m) = [s EXCEPT ![m.test + 1].last = TRUE] /\ m.type = "LAST"
  BY <1>1, <1>2, MaxTestIdAssumption DEF Parsed, ParseResult, R
<1> QED BY <1>5, <1>6, <1>7, <1>8, <1>9, <1>10
-----------------------------------------------------------------------------
(* Nothing is left in a socket that a thread closes.  While a receiver     *)
(* lives, a MEASUREMENT message in its socket is one that its sender sent  *)
(* just now, and it has marked the tests of all that it heard before.      *)

Tidy ==
  /\ NothingLost /\ StartTogether /\ EndTogether /\ cfg.skew < WaitControl + Data
  /\ cfg.senders <= MaxTestId

FreshAt(r, m) ==
  /\ m.test + 1 \in Senders
  /\ m.type = "LAST" => spc[m.test + 1] = "done"
  /\ m.type = "MEASUREMENT" /\ Live(r) =>
       spc[m.test + 1] = "data" /\ stimer[m.test + 1] = 1 /\ route[m.test + 1] = r

Fresh == \A r \in Receivers : \A m \in Range(queue[r]) : FreshAt(r, m)

DataOf(s, m) == m.type = "MEASUREMENT" /\ m.test = TestOf(s)

FirstUnread(s) ==
  /\ left[s] = Data - 1 /\ stimer[s] = 1
  /\ \E m \in Range(queue[route[s]]) : DataOf(s, m)

Heard ==
  \A s \in Senders : spc[s] = "data" /\ Live(route[s]) /\ left[s] < Data =>
    HasFirst(ms[route[s]], s) \/ FirstUnread(s)

LastHeard ==
  \A r \in Receivers : \A i \in DOMAIN ms[r] : ms[r][i].last => i \in Senders /\ spc[i] = "done"

NoneSends(r) == \A s \in Senders : route[s] = r => spc[s] \notin {"start", "data"}

LeftBehind ==
  \A r \in Receivers : rpc[r] = "leave" =>
    NoneSends(r) /\ \A m \in Range(queue[r]) : m.type # "MEASUREMENT"

Orderly == Fresh /\ Heard /\ LastHeard /\ LeftBehind
Timely == Tidy /\ cfg.port # "sharing" => Orderly

LEMMA Appended ==
  ASSUME NEW q \in Seq(Message), NEW m \in Message
  PROVE  Range(Append(q, m)) = Range(q) \cup {m}
<1> DEFINE a == Append(q, m)
<1>1. /\ Len(q) \in Nat /\ DOMAIN q = 1 .. Len(q)
      /\ a \in Seq(Message) /\ Len(a) = Len(q) + 1
      /\ \A i \in 1 .. Len(q) : a[i] = q[i]
      /\ a[Len(q) + 1] = m
  BY LenProperties, AppendProperties
<1>2. DOMAIN a = 1 .. (Len(q) + 1)  BY <1>1, LenProperties
<1> HIDE DEF a
<1>3. DOMAIN a = DOMAIN q \cup {Len(q) + 1}  BY <1>1, <1>2
<1>4. Range(a) = Range(q) \cup {m}  BY <1>1, <1>3 DEF Range
<1> QED BY <1>4 DEF a

LEMMA CutFirst ==
  ASSUME NEW q \in Seq(Message), q # <<>>
  PROVE  Head(q) \in Message /\ Range(q) = Range(SubSeq(q, 2, Len(q))) \cup {Head(q)}
<1> DEFINE c == SubSeq(q, 2, Len(q))
<1>1. /\ Len(q) \in Nat /\ Len(q) > 0 /\ DOMAIN q = 1 .. Len(q) /\ Head(q) = q[1] /\ 1 \in 1 .. Len(q)
      /\ 1 + 1 = 2 /\ Head(q) \in Message
  BY LenProperties, EmptySeq, HeadTailProperties
<1>2. /\ c \in Seq(Message) /\ Len(c) = Len(q) - 1
      /\ \A i \in 1 .. (Len(q) - 1) : c[i] = q[1 + i]
  BY <1>1, CutType
<1>3. DOMAIN c = 1 .. (Len(q) - 1)  BY <1>2, LenProperties
<1> HIDE DEF c
<1>4. \A i \in DOMAIN c : i + 1 \in DOMAIN q /\ c[i] = q[i + 1]  BY <1>1, <1>2, <1>3
<1>5. \A j \in DOMAIN q : j # 1 => j - 1 \in DOMAIN c /\ c[j - 1] = q[j]  BY <1>1, <1>2, <1>3
<1>6. Range(q) = Range(c) \cup {Head(q)}  BY <1>1, <1>4, <1>5 DEF Range
<1> QED BY <1>1, <1>6 DEF c

(* Nothing but time brings a sender from its start to the end of its data. *)
LEMMA TooEarly ==
  ASSUME SessionInv, Tidy, cfg.port # "sharing",
         NEW d \in Senders, spc[d] = "done", NEW s \in Senders
  PROVE  /\ spc[s] # "start"
         /\ spc[s] = "data" => left[s] + stimer[s] < Data
<1>1. /\ Rest(d) = 0 /\ Rest(s) \in Nat /\ spc[s] \in SenderPc /\ stimer[s] \in Nat /\ left[s] \in Nat
      /\ spc[s] = "start" => Rest(s) = stimer[s] + left[s] + 2 * WaitControl
      /\ spc[s] = "data" => Rest(s) = stimer[s] + left[s] + WaitControl
  <2>1. TypeOK  BY DEF SessionInv
  <2>2. spc[s] \in SenderPc /\ stimer[s] \in Nat /\ left[s] \in Nat /\ Rest(s) \in Nat
    BY <2>1, SenderRange
  <2>3. spc[d] \in SenderPc /\ stimer[d] \in Nat /\ left[d] \in Nat  BY <2>1, SenderRange
  <2>4. Rest(d) = 0  BY <2>3, RestIs DEF Rest
  <2> QED BY <2>2, <2>4, RestIs DEF Rest
<1>2. Rest(s) <= Rest(d) + cfg.skew  BY DEF SessionInv, Calm, Spread, Tidy, NothingLost, Reliable
<1>3. cfg.skew < WaitControl + Data /\ (spc[s] = "start" => left[s] = Data)
  BY DEF Tidy, SessionInv, Clocks
<1>4. cfg.skew \in Nat /\ WaitControl \in Nat /\ Data \in Nat  BY Threads, Times DEF SessionInv, TypeOK
<1>5. spc[s] # "start"  BY <1>1, <1>2, <1>3, <1>4
<1>6. spc[s] = "data" => left[s] + stimer[s] < Data  BY <1>1, <1>2, <1>3, <1>4
<1> QED BY <1>5, <1>6

LEMMA SenderTimely ==
  ASSUME SessionInv, Orderly, Tidy, cfg.port # "sharing", NEW s \in Senders, SenderStep(s)
  PROVE  Orderly'
<1> DEFINE k == route[s]
<1>1. /\ UNCHANGED <<cfg, route, rpc, ms>> /\ Senders' = Senders /\ Receivers' = Receivers
      /\ \A u : TestOf(u)' = TestOf(u)
  BY SenderParts, Frame DEF receiverVars, SessionInv
<1>2. Fresh /\ Heard /\ LastHeard /\ LeftBehind /\ Reliable /\ TypeOK
  BY DEF Orderly, Tidy, NothingLost, Reliable, SessionInv
<1>3. /\ k \in Receivers /\ queue[k] \in Seq(Message)
      /\ \A u \in Senders : route[u] \in Receivers
      /\ Sock(k) = k
  BY <1>2 DEF TypeOK, Sock
<1>4. /\ Active(s) /\ stimer[s] = 0 /\ open[k] /\ stimer[s] # 1
      /\ \A u \in Senders : u # s => spc'[u] = spc[u] /\ stimer'[u] = stimer[u] /\ left'[u] = left[u]
  BY <1>2, <1>3, SenderParts, StillOpen DEF SessionInv
<1>5. \A type : Deliver(s, type) => queue' = [queue EXCEPT ![k] = Append(@, Message_(type, s))]
  BY <1>2, <1>3, <1>4 DEF Deliver, Reliable, Message_
<1>6. \A r : Live(r)' <=> Live(r)  BY <1>1 DEF Live
<1>7. \A u \in Senders : spc[u] = "done" => spc'[u] = "done"  BY <1>4 DEF Active
<1>8. ASSUME NEW r \in Receivers, NEW m, FreshAt(r, m) PROVE FreshAt(r, m)'
  <2>1. m.test + 1 = s => m.type # "LAST" /\ ~(m.type = "MEASUREMENT" /\ Live(r))
    BY <1>4, <1>8 DEF FreshAt, Active
  <2> QED BY <1>1, <1>4, <1>6, <1>7, <1>8, <2>1 DEF FreshAt
<1>9. LastHeard'  BY <1>1, <1>2, <1>7 DEF LastHeard
<1>10. ASSUME UNCHANGED queue, spc[s] = "data", spc'[s] = "drain"
       PROVE  Orderly'
  <2>1. Fresh'  BY <1>1, <1>2, <1>8, <1>10 DEF Fresh
  <2>2. Heard'
    <3> SUFFICES ASSUME NEW u \in Senders, spc'[u] = "data", Live(route[u]), left'[u] < Data
                 PROVE  HasFirst(ms[route[u]], u) \/ FirstUnread(u)'
      BY <1>1, <1>6 DEF Heard
    <3>1. u # s  BY <1>10
    <3>2. HasFirst(ms[route[u]], u) \/ FirstUnread(u)  BY <1>2, <1>4, <3>1 DEF Heard
    <3> QED BY <1>1, <1>4, <1>10, <3>1, <3>2 DEF FirstUnread, DataOf
  <2>3. LeftBehind'
    BY <1>1, <1>2, <1>4, <1>10 DEF LeftBehind, NoneSends
  <2> QED BY <1>9, <2>1, <2>2, <2>3 DEF Orderly
<1>11. ASSUME NEW type \in {"INIT", "MEASUREMENT", "LAST"},
              queue' = [queue EXCEPT ![k] = Append(@, Message_(type, s))],
              type = "INIT" => spc[s] = "start" /\ spc'[s] = "data" /\ left'[s] = left[s],
              type = "MEASUREMENT" => /\ spc[s] = "data" /\ spc'[s] = "data"
                                      /\ stimer'[s] = 1 /\ left'[s] = left[s] - 1,
              type = "LAST" => spc[s] = "drain" /\ spc'[s] = "done"
       PROVE  Orderly'
  <2> DEFINE m == Message_(type, s)
             a == Append(queue[k], m)
  <2>1. /\ m \in Message /\ m.type = type /\ m.test = TestOf(s) /\ m.test + 1 = s
    <3>1. TestOf(s) \in Nat /\ s \in Nat /\ TestOf(s) = s - 1
      BY <1>2, Threads DEF TypeOK, TestOf
    <3> QED BY <3>1 DEF Message_, Message
  <2>2. /\ queue'[k] = a /\ \A q \in Receivers : q # k => queue'[q] = queue[q]
    BY <1>2, <1>3, <1>11 DEF TypeOK
  <2>3. Range(a) = Range(queue[k]) \cup {m}  BY <1>3, <2>1, Appended
  <2> HIDE DEF m, a
  <2>4. Fresh'
    <3>1. ASSUME NEW r \in Receivers, NEW x \in Range(queue'[r]) PROVE FreshAt(r, x)'
      <4>1. CASE x \in Range(queue[r])  BY <1>2, <1>8, <4>1 DEF Fresh
      <4>2. CASE r = k /\ x = m
        <5>1. x.type = type /\ x.test + 1 = s  BY <2>1, <4>2
        <5> QED BY <1>1, <1>11, <4>2, <5>1 DEF FreshAt
      <4> QED BY <2>2, <2>3, <4>1, <4>2
    <3> QED BY <1>1, <3>1 DEF Fresh
  <2>6. Heard'
    <3> SUFFICES ASSUME NEW u \in Senders, spc'[u] = "data", Live(route[u]), left'[u] < Data
                 PROVE  HasFirst(ms[route[u]], u) \/ FirstUnread(u)'
      BY <1>1, <1>6 DEF Heard
    <3>1. CASE u # s
      <4>1. HasFirst(ms[route[u]], u) \/ FirstUnread(u)  BY <1>2, <1>4, <3>1 DEF Heard
      <4> QED BY <1>1, <1>3, <1>4, <2>2, <2>3, <3>1, <4>1 DEF FirstUnread, DataOf
    <3>2. CASE u = s
      <4>1. type # "LAST"  BY <1>11, <3>2
      <4>2. type # "INIT"
        <5>1. type = "INIT" => left[s] = Data  BY <1>11 DEF SessionInv, Clocks
        <5>2. ~(Data < Data)  BY Times
        <5> QED BY <1>11, <3>2, <5>1, <5>2
      <4>3. type = "MEASUREMENT"  BY <4>1, <4>2
      <4>4. CASE left[s] < Data
        <5>1. HasFirst(ms[k], s) \/ FirstUnread(s)
          BY <1>2, <1>11, <3>2, <4>3, <4>4 DEF Heard
        <5> QED BY <1>4, <3>2, <5>1 DEF FirstUnread
      <4>5. CASE ~(left[s] < Data)
        <5>1. left[s] <= Data /\ left[s] \in Nat /\ Data \in Nat
          BY Times DEF SessionInv, Clocks, TypeOK
        <5>2. left'[s] = Data - 1 /\ stimer'[s] = 1  BY <1>11, <4>3, <4>5, <5>1
        <5>3. \E x \in Range(queue'[k]) : DataOf(s, x)
          BY <2>1, <2>2, <2>3, <4>3 DEF DataOf
        <5> QED BY <1>1, <3>2, <5>2, <5>3 DEF FirstUnread, DataOf
      <4> QED BY <4>4, <4>5
    <3> QED BY <3>1, <3>2
  <2>7. LeftBehind'
    <3> SUFFICES ASSUME NEW r \in Receivers, rpc[r] = "leave"
                 PROVE  NoneSends(r)' /\ \A x \in Range(queue'[r]) : x.type # "MEASUREMENT"
      BY <1>1 DEF LeftBehind
    <3>1. NoneSends(r) /\ \A x \in Range(queue[r]) : x.type # "MEASUREMENT"
      BY <1>2 DEF LeftBehind
    <3>2. k = r => type = "LAST"  BY <1>11, <3>1 DEF NoneSends
    <3>3. NoneSends(r)'  BY <1>1, <1>4, <1>11, <3>1, <3>2 DEF NoneSends
    <3>4. \A x \in Range(queue'[r]) : x.type # "MEASUREMENT"
      BY <2>1, <2>2, <2>3, <3>1, <3>2
    <3> QED BY <3>3, <3>4
  <2> QED BY <1>9, <2>4, <2>6, <2>7 DEF Orderly
<1>12. \/ UNCHANGED queue /\ spc[s] = "data" /\ spc'[s] = "drain"
       \/ \E type \in {"INIT", "MEASUREMENT", "LAST"} :
            /\ queue' = [queue EXCEPT ![k] = Append(@, Message_(type, s))]
            /\ type = "INIT" => spc[s] = "start" /\ spc'[s] = "data" /\ left'[s] = left[s]
            /\ type = "MEASUREMENT" => /\ spc[s] = "data" /\ spc'[s] = "data"
                                       /\ stimer'[s] = 1 /\ left'[s] = left[s] - 1
            /\ type = "LAST" => spc[s] = "drain" /\ spc'[s] = "done"
  <2>1. \/ /\ spc[s] = "start" /\ Deliver(s, "INIT")
           /\ spc'[s] = "data" /\ left'[s] = left[s]
        \/ /\ spc[s] = "data" /\ Deliver(s, "MEASUREMENT")
           /\ spc'[s] = "data" /\ stimer'[s] = 1 /\ left'[s] = left[s] - 1
        \/ spc[s] = "data" /\ UNCHANGED queue /\ spc'[s] = "drain"
        \/ spc[s] = "drain" /\ Deliver(s, "LAST") /\ spc'[s] = "done"
    BY <1>2, <1>3, <1>4, SenderParts
  <2> QED BY <1>5, <2>1
<1> QED BY <1>10, <1>11, <1>12
(* Nobody is late: a receiver that lives has read all there is.            *)
LEMMA TickTimely ==
  ASSUME SessionInv, Orderly, cfg.port # "sharing", Tick
  PROVE  Orderly'
<1>1. /\ UNCHANGED <<cfg, spc, left, queue, open, route, rpc, ms>> /\ TypeOK
      /\ Senders' = Senders /\ Receivers' = Receivers /\ \A u : TestOf(u)' = TestOf(u)
  BY TickParts, Frame DEF SessionInv, socketVars
<1>2. Fresh /\ Heard /\ LastHeard /\ LeftBehind  BY DEF Orderly
<1>3. \A r \in Receivers : Live(r) => Range(queue[r]) = {}
  <2> SUFFICES ASSUME NEW r \in Receivers, Live(r) PROVE Range(queue[r]) = {}
    OBVIOUS
  <2>1. Inbox(r) = queue[r]  BY DEF Inbox, Sock
  <2>2. queue[r] = <<>>  BY <1>1, <2>1, TickParts DEF Live
  <2> QED BY <2>2 DEF Range
<1>4. \A r : Live(r)' <=> Live(r)  BY <1>1 DEF Live
<1>5. Fresh'
  <2> SUFFICES ASSUME NEW r \in Receivers, NEW m \in Range(queue[r]) PROVE FreshAt(r, m)'
    BY <1>1 DEF Fresh
  <2> QED BY <1>1, <1>2, <1>3, <1>4 DEF Fresh, FreshAt
<1>6. Heard'
  <2> SUFFICES ASSUME NEW s \in Senders, spc[s] = "data", Live(route[s]), left[s] < Data
               PROVE  HasFirst(ms[route[s]], s)
    BY <1>1, <1>4 DEF Heard
  <2>1. route[s] \in Receivers  BY <1>1 DEF TypeOK
  <2> QED BY <1>2, <1>3, <2>1 DEF Heard, FirstUnread
<1>7. LastHeard' /\ LeftBehind'  BY <1>1, <1>2 DEF LastHeard, LeftBehind, NoneSends
<1> QED BY <1>5, <1>6, <1>7 DEF Orderly

(* A receiver leaves: none of its senders has anything left to say but     *)
(* LAST, because one of them is done.                                      *)
LEMMA LeaveTimely ==
  ASSUME SessionInv, Orderly, Tidy, cfg.port # "sharing", NEW r \in Receivers, Live(r),
         \E d \in Senders : spc[d] = "done",
         \A s \in Senders : spc[s] = "data" => ~HasFirst(ms[r], s)
  PROVE  NoneSends(r) /\ \A m \in Range(queue[r]) : m.type # "MEASUREMENT"
<1>1. PICK d \in Senders : spc[d] = "done"  OBVIOUS
<1>2. Fresh /\ Heard /\ TypeOK  BY DEF Orderly, SessionInv
<1>3. ASSUME NEW s \in Senders, route[s] = r, spc[s] = "data" PROVE FALSE
  <2>1. left[s] + stimer[s] < Data /\ left[s] \in Nat /\ stimer[s] \in Nat /\ Data \in Nat
    BY <1>1, <1>2, <1>3, TooEarly, SenderRange, Times
  <2>2. HasFirst(ms[r], s) \/ FirstUnread(s)  BY <1>2, <1>3, <2>1 DEF Heard
  <2>3. ~FirstUnread(s)  BY <2>1 DEF FirstUnread
  <2> QED BY <1>3, <2>2, <2>3
<1>4. NoneSends(r)  BY <1>1, <1>3, TooEarly DEF NoneSends
<1>5. \A m \in Range(queue[r]) : m.type # "MEASUREMENT"  BY <1>2, <1>3 DEF Fresh, FreshAt
<1> QED BY <1>4, <1>5

LEMMA MovesTimely ==
  ASSUME SessionInv, Orderly, Tidy, cfg.port # "sharing", NEW r \in Receivers, Moves(r)
  PROVE  Orderly'
<1>1. /\ UNCHANGED <<cfg, spc, stimer, left, queue, open, route, ms>> /\ TypeOK
      /\ Senders' = Senders /\ Receivers' = Receivers /\ \A u : TestOf(u)' = TestOf(u)
  BY MovesParts, Frame DEF SessionInv, socketVars, senderVars
<1>2. /\ Fresh /\ Heard /\ LastHeard /\ LeftBehind /\ Inbox(r) = queue[r]
      /\ NoneAborted /\ Begun /\ Waits
  BY DEF Orderly, Inbox, Sock, SessionInv, Calm, OwnSockets, Tidy, NothingLost, Reliable
<1>3. \A q \in Receivers : q # r => rpc'[q] = rpc[q]
  BY <1>1, ReceiverPlaces DEF ReceiverStep, Moves
<1>4. \A q \in Receivers : Live(q)' => Live(q)
  <2>1. Live(r)  BY DEF Moves, FirstMessage, NoMessage, Block, Readable, Timeout, Live
  <2> QED BY <1>3, <2>1 DEF Live
<1>5. Fresh'
  <2> SUFFICES ASSUME NEW q \in Receivers, NEW m \in Range(queue[q]) PROVE FreshAt(q, m)'
    BY <1>1 DEF Fresh
  <2> QED BY <1>1, <1>2, <1>4 DEF Fresh, FreshAt
<1>6. Heard'
  <2> SUFFICES ASSUME NEW s \in Senders, spc[s] = "data", Live(route[s])', left[s] < Data
               PROVE  HasFirst(ms[route[s]], s) \/ FirstUnread(s)'
    BY <1>1 DEF Heard
  <2>1. route[s] \in Receivers /\ Live(route[s])
    <3>1. route[s] \in Receivers /\ route'[s] = route[s]  BY <1>1 DEF TypeOK
    <3> QED BY <1>1, <1>4, <3>1 DEF Live
  <2>2. HasFirst(ms[route[s]], s) \/ FirstUnread(s)  BY <1>2, <2>1 DEF Heard
  <2> QED BY <1>1, <2>2 DEF FirstUnread, DataOf
<1>7. LastHeard'  BY <1>1, <1>2 DEF LastHeard
<1>8. LeftBehind'
  <2>1. CASE rpc'[r] = "leave"
    <3>1. Timeout(r) /\ rpc[r] = "wait" /\ queue[r] = <<>> /\ rtimer[r] = 0
      <4>1. Timeout(r)
        BY <1>1, <2>1
        DEF Moves, FirstMessage, NoMessage, Block, Readable, ReceiverGoesTo, TypeOK
      <4> QED BY <1>2, <4>1 DEF Timeout
    <3>2. Range(queue[r]) = {}  BY <3>1 DEF Range
    <3>3. \A s \in Senders : route[s] = r => spc[s] \notin {"data", "drain"}
      <4> TAKE s \in Senders
      <4> HAVE route[s] = r
      <4>1. UntilNext(s) \in Nat  BY <1>1, SenderRange, Times DEF UntilNext
      <4> QED BY <1>2, <3>1, <4>1 DEF Waits
    <3>4. AllDone \/ \E w \in Senders : spc[w] = "done"
      <4>1. \A s \in Senders : spc[s] \in SenderPc  BY <1>1, SenderRange
      <4> QED BY <1>2, <3>1, <3>3, <4>1 DEF Begun, NoneAborted, SenderPc
    <3>5. NoneSends(r)
      <4>1. CASE AllDone  BY <4>1 DEF AllDone, Active, NoneSends
      <4>2. CASE \E w \in Senders : spc[w] = "done"
        BY <3>3, <4>2, TooEarly DEF NoneSends
      <4> QED BY <3>4, <4>1, <4>2
    <3> QED BY <1>1, <1>2, <1>3, <3>2, <3>5 DEF LeftBehind, NoneSends
  <2>2. CASE rpc'[r] # "leave"  BY <1>1, <1>2, <1>3, <2>2 DEF LeftBehind, NoneSends
  <2> QED BY <2>1, <2>2
<1> QED BY <1>5, <1>6, <1>7, <1>8 DEF Orderly

LEMMA ReceiveTimely ==
  ASSUME SessionInv, Orderly, Tidy, cfg.port # "sharing", NEW r \in Receivers, Receive(r)
  PROVE  Orderly'
<1> DEFINE m == Head(queue[r])
           c == SubSeq(queue[r], 2, Len(queue[r]))
           p == Parsed(ms[r], m)
<1>1. TypeOK /\ cfg.take = 1 /\ Sock(r) = r /\ Inbox(r) = queue[r]
  BY DEF SessionInv, Tidy, NothingLost, Sock, Inbox
<1>2. /\ rpc[r] = "run" /\ queue[r] # <<>> /\ queue[r] \in Seq(Message) /\ ms[r] \in Seq(Measurement)
      /\ Taken(r) = 1 /\ 1 + 1 = 2
      /\ queue' = [queue EXCEPT ![r] = SubSeq(@, 1 + 1, Len(@))]
      /\ ms' = [ms EXCEPT ![r] = p]
      /\ UNCHANGED <<cfg, senderVars, open, route>>
  <2>1. ms[r] \in Seq(Measurement)  BY <1>1 DEF TypeOK
  <2>2. rpc[r] = "run" /\ queue[r] # <<>> /\ queue[r] \in Seq(Message)  BY <1>1, ReceiveParts
  <2>3. Taken(r) = 1  BY <1>1, <2>2, TakenRange
  <2>4. /\ queue' = [queue EXCEPT ![r] = SubSeq(@, Taken(r) + 1, Len(@))]
        /\ ms' = [ms EXCEPT ![r] = p]
        /\ UNCHANGED <<cfg, senderVars, open, route>>
    BY <1>1, ReceiveParts
  <2> HIDE DEF p
  <2> QED BY <2>1, <2>2, <2>3, <2>4
<1>3. /\ queue'[r] = c /\ ms'[r] = p
      /\ \A q \in Receivers : q # r => queue'[q] = queue[q] /\ ms'[q] = ms[q]
  BY <1>1, <1>2 DEF TypeOK
<1>4. m \in Message /\ Range(queue[r]) = Range(c) \cup {m}  BY <1>2, CutFirst
<1>5. /\ \A i : HasFirst(ms[r], i) => HasFirst(p, i)
      /\ \A i \in DOMAIN p : p[i].last =>
           \/ i \in DOMAIN ms[r] /\ ms[r][i].last
           \/ m.type = "LAST" /\ i = m.test + 1
      /\ m.type = "MEASUREMENT" /\ m.test < MaxTestId => HasFirst(p, m.test + 1)
  BY <1>2, <1>4, ParsedMarks
<1>6. /\ UNCHANGED <<cfg, spc, stimer, left, route>>
      /\ Senders' = Senders /\ Receivers' = Receivers /\ \A u : TestOf(u)' = TestOf(u)
  BY <1>2, Frame DEF senderVars
<1>7. \/ ParseResult(ms[r], m) = "LAST" /\ AllFinished(p) /\ Leave(r)
      \/ ReceiverGoesTo(r, "failed", 0)
      \/ UNCHANGED rpc
  BY <1>1, <1>3, ReceiveParts
<1>8. ParseResult(ms[r], m) = "LAST" => m.type = "LAST"  BY <1>4 DEF ParseResult, Message
<1> HIDE DEF m, c, p
<1>9. Fresh /\ Heard /\ LastHeard /\ LeftBehind  BY DEF Orderly
<1>10. FreshAt(r, m)  BY <1>4, <1>9 DEF Fresh
<1>11. m.test < MaxTestId
  <2>1. m.test \in Nat /\ cfg.senders \in Nat  BY <1>1, <1>4, Threads DEF Message, TypeOK
  <2>2. m.test + 1 <= cfg.senders  BY <1>10, <2>1 DEF FreshAt, Senders
  <2>3. cfg.senders <= MaxTestId  BY DEF Tidy
  <2> QED BY <2>1, <2>2, <2>3, MaxTestIdAssumption
<1>12. \A q \in Receivers : Range(queue'[q]) \subseteq Range(queue[q])  BY <1>3, <1>4
<1>13. \A q \in Receivers : q # r => rpc'[q] = rpc[q]  BY <1>1, ReceiverPlaces DEF ReceiverStep
<1>14. \A q \in Receivers : Live(q)' => Live(q)  BY <1>2, <1>13 DEF Live
<1>15. Fresh'
  <2> SUFFICES ASSUME NEW q \in Receivers, NEW x \in Range(queue'[q]) PROVE FreshAt(q, x)'
    BY <1>6 DEF Fresh
  <2> QED BY <1>6, <1>9, <1>12, <1>14 DEF Fresh, FreshAt
<1>16. Heard'
  <2> SUFFICES ASSUME NEW s \in Senders, spc[s] = "data", Live(route[s])', left[s] < Data
               PROVE  HasFirst(ms'[route[s]], s) \/ FirstUnread(s)'
    BY <1>6 DEF Heard
  <2>1. route[s] \in Receivers /\ Live(route[s])
    <3>1. route[s] \in Receivers /\ route'[s] = route[s]  BY <1>1, <1>6 DEF TypeOK
    <3> QED BY <1>6, <1>14, <3>1 DEF Live
  <2>2. CASE HasFirst(ms[route[s]], s)  BY <1>3, <1>5, <2>1, <2>2
  <2>3. CASE FirstUnread(s)
    <3>1. PICK x \in Range(queue[route[s]]) : DataOf(s, x)  BY <2>3 DEF FirstUnread
    <3>2. CASE x \in Range(queue'[route[s]])  BY <1>6, <2>3, <3>1, <3>2 DEF FirstUnread, DataOf
    <3>3. CASE x \notin Range(queue'[route[s]])
      <4>1. route[s] = r /\ x = m  BY <1>3, <1>4, <2>1, <3>3
      <4>2. m.type = "MEASUREMENT" /\ m.test + 1 = s
        <5>1. s \in Nat /\ TestOf(s) = s - 1  BY <1>1, Threads DEF TypeOK, TestOf
        <5> QED BY <3>1, <4>1, <5>1 DEF DataOf
      <4>3. HasFirst(p, s)  BY <1>5, <1>11, <4>2
      <4> QED BY <1>3, <4>1, <4>3
    <3> QED BY <3>2, <3>3
  <2>4. HasFirst(ms[route[s]], s) \/ FirstUnread(s)  BY <1>9, <2>1 DEF Heard
  <2> QED BY <2>2, <2>3, <2>4
<1>17. \A i \in DOMAIN p : p[i].last => i \in Senders /\ spc[i] = "done"
  BY <1>5, <1>9, <1>10 DEF LastHeard, FreshAt
<1>18. LastHeard'
  <2> SUFFICES ASSUME NEW q \in Receivers, NEW i \in DOMAIN ms'[q], ms'[q][i].last
               PROVE  i \in Senders /\ spc[i] = "done"
    BY <1>6 DEF LastHeard
  <2> QED BY <1>3, <1>9, <1>17 DEF LastHeard
<1>19. LeftBehind'
  <2>1. CASE rpc'[r] = "leave"
    <3>1. m.type = "LAST" /\ AllFinished(p)
      BY <1>1, <1>2, <1>7, <1>8, <2>1 DEF ReceiverGoesTo, TypeOK
    <3>2. \E d \in Senders : spc[d] = "done"  BY <1>10, <3>1 DEF FreshAt
    <3>3. \A s \in Senders : spc[s] = "data" => ~HasFirst(ms[r], s)
      BY <1>5, <1>17, <3>1 DEF AllFinished, HasFirst
    <3>4. NoneSends(r) /\ \A x \in Range(queue[r]) : x.type # "MEASUREMENT"
      BY <1>2, <3>2, <3>3, LeaveTimely DEF Live
    <3>5. NoneSends(r)' /\ \A x \in Range(queue'[r]) : x.type # "MEASUREMENT"
      BY <1>6, <1>12, <3>4 DEF NoneSends
    <3> QED BY <1>3, <1>6, <1>9, <1>13, <3>5 DEF LeftBehind, NoneSends
  <2>2. CASE rpc'[r] # "leave"
    BY <1>3, <1>6, <1>9, <1>13, <2>2 DEF LeftBehind, NoneSends
  <2> QED BY <2>1, <2>2
<1> QED BY <1>15, <1>16, <1>18, <1>19 DEF Orderly

LEMMA CloseTimely ==
  ASSUME SessionInv, Orderly, Tidy, cfg.port # "sharing", NEW r \in Receivers, Close(r)
  PROVE  Orderly'
<1>1. /\ UNCHANGED <<cfg, spc, stimer, left, ms>> /\ TypeOK
      /\ rpc[r] = "leave" /\ rpc'[r] = "done" /\ queue'[r] = <<>> /\ Range(<<>>) = {}
      /\ \A q \in Receivers : q # r => rpc'[q] = rpc[q] /\ queue'[q] = queue[q]
      /\ Senders' = Senders /\ Receivers' = Receivers /\ \A u : TestOf(u)' = TestOf(u)
  <2>1. TypeOK  BY DEF SessionInv
  <2>2. Range(<<>>) = {}  BY DEF Range
  <2>3. UNCHANGED <<cfg, spc, stimer, left, ms>>  BY <2>1, CloseParts DEF senderVars
  <2> QED BY <2>1, <2>2, <2>3, CloseParts, Frame
<1>2. Fresh /\ Heard /\ LastHeard /\ LeftBehind  BY DEF Orderly
<1>3. \A s \in Senders : spc[s] \in {"start", "data"} => route'[s] = route[s]
  <2>1. CASE cfg.port = "sharding"
    <3>1. AllDone
      BY <2>1, ClosesAfterAll DEF SessionInv, Tidy, NothingLost, Reliable
    <3> QED BY <3>1 DEF AllDone, Active
  <2>2. CASE cfg.port # "sharding"
    <3>1. route' = route  BY <1>1, <2>2, CloseParts
    <3> QED BY <3>1
  <2> QED BY <2>1, <2>2
<1>4. \A q \in Receivers : Live(q)' => q # r /\ Live(q)  BY <1>1 DEF Live
<1>5. Fresh'
  <2> SUFFICES ASSUME NEW q \in Receivers, NEW m \in Range(queue'[q]) PROVE FreshAt(q, m)'
    BY <1>1 DEF Fresh
  <2>1. m \in Range(queue[q])  BY <1>1
  <2> QED BY <1>1, <1>2, <1>3, <1>4, <2>1 DEF Fresh, FreshAt
<1>6. Heard'
  <2> SUFFICES ASSUME NEW s \in Senders, spc[s] = "data", Live(route[s])', left[s] < Data
               PROVE  HasFirst(ms[route[s]], s) \/ FirstUnread(s)'
    BY <1>1, <1>3 DEF Heard
  <2>1. route'[s] = route[s] /\ route[s] \in Receivers  BY <1>1, <1>3 DEF TypeOK
  <2>2. Live(route[s]) /\ route[s] # r  BY <1>4, <2>1 DEF Live
  <2>3. HasFirst(ms[route[s]], s) \/ FirstUnread(s)  BY <1>2, <2>2 DEF Heard
  <2> QED BY <1>1, <2>1, <2>2, <2>3 DEF FirstUnread, DataOf
<1>7. LastHeard'  BY <1>1, <1>2 DEF LastHeard
<1>8. LeftBehind'  BY <1>1, <1>2, <1>3 DEF LeftBehind, NoneSends
<1> QED BY <1>5, <1>6, <1>7, <1>8 DEF Orderly

LEMMA StepTimely == ASSUME SessionInv, Timely, [Next]_vars PROVE Timely'
<1>1. cfg' = cfg  BY CfgFixed DEF SessionInv
<1> SUFFICES ASSUME Tidy, cfg.port # "sharing" PROVE Orderly'
  BY <1>1 DEF Timely, Tidy, NothingLost, StartTogether, EndTogether, OneSender
<1>2. Orderly  BY DEF Timely
<1>3. CASE UNCHANGED vars
  BY <1>1, <1>2, <1>3, Frame
  DEF Orderly, Fresh, FreshAt, Heard, FirstUnread, DataOf, LastHeard, LeftBehind, NoneSends, Live,
      vars, senderVars, receiverVars, socketVars
<1>4. ~MainCloses  BY MainParts DEF SessionInv
<1> QED BY <1>2, <1>3, <1>4, SenderTimely, TickTimely, MovesTimely, ReceiveTimely, CloseTimely
        DEF Next, ReceiverStep, Moves

LEMMA InitTimely == ASSUME Init PROVE Timely
<1>1. DOMAIN <<>> = {}  OBVIOUS
<1> QED BY <1>1
        DEF Init, Timely, Orderly, Fresh, Heard, LastHeard, LeftBehind, NoneSends, Range
-----------------------------------------------------------------------------
(* What each receiver has of the measurement, counted or still to be read. *)

Shares(c, q) == [r \in Receivers |-> c[r] + Unread(q[r])]

KnownTests == Tidy => \A r \in Receivers : \A m \in Range(queue[r]) : m.test \in TestIds

(* A step that changes at most the share of one receiver.                  *)
Touches(c, q, d, p, r) ==
  /\ {c, d} \subseteq [Receivers -> Nat] /\ {p, q} \subseteq [Receivers -> Seq(Message)]
  /\ r \in Receivers
  /\ \A i \in Receivers : i # r => d[i] = c[i] /\ p[i] = q[i]

LEMMA OneShareChanges ==
  ASSUME cfg \in Configs, NEW c, NEW q, NEW d, NEW p, NEW r, Touches(c, q, d, p, r)
  PROVE  /\ SumFunction(Shares(d, p)) =
              SumFunction(Shares(c, q)) + ((d[r] + Unread(p[r])) - (c[r] + Unread(q[r])))
         /\ SumFunction(Shares(c, q)) \in Int
         /\ Unread(p[r]) \in Nat /\ Unread(q[r]) \in Nat
<1>1. IsFiniteSet(Receivers)  BY Threads, FS_Interval DEF Receivers
<1>2. /\ c \in [Receivers -> Nat] /\ d \in [Receivers -> Nat]
      /\ p \in [Receivers -> Seq(Message)] /\ q \in [Receivers -> Seq(Message)]
      /\ r \in Receivers /\ \A i \in Receivers : i # r => d[i] = c[i] /\ p[i] = q[i]
  BY DEF Touches
<1> DEFINE e == Shares(c, q)
           f == Shares(d, p)
<1>3. \A i \in Receivers : Unread(q[i]) \in Nat /\ Unread(p[i]) \in Nat  BY <1>2, UnreadType
<1>4. /\ \A i \in Receivers : e[i] = c[i] + Unread(q[i]) /\ f[i] = d[i] + Unread(p[i])
      /\ SumFunction(e) = SumFunctionOnSet(e, Receivers)
      /\ SumFunction(f) = SumFunctionOnSet(f, Receivers)
  BY DEF Shares, SumFunction
<1> HIDE DEF e, f
<1>5. \A i \in Receivers : c[i] \in Nat /\ d[i] \in Nat  BY <1>2
<1>6. OneChange(e, f, Receivers, r)
  <2>1. \A i \in Receivers : e[i] \in Int /\ f[i] \in Int  BY <1>3, <1>4, <1>5
  <2>2. \A i \in Receivers : i # r => f[i] = e[i]  BY <1>2, <1>4
  <2> QED BY <1>2, <2>1, <2>2 DEF OneChange
<1>7. /\ SumFunctionOnSet(f, Receivers) = SumFunctionOnSet(e, Receivers) + (f[r] - e[r])
      /\ SumFunctionOnSet(e, Receivers) \in Int
  BY <1>1, <1>6, SumChanges
<1> QED BY <1>2, <1>3, <1>4, <1>7 DEF e, f

(* n datagrams go from the socket k to the count of r.                     *)
Counts(c, q, d, p, r, k, n) ==
  /\ {c, d} \subseteq [Receivers -> Nat] /\ {p, q} \subseteq [Receivers -> Seq(Message)]
  /\ r \in Receivers /\ k \in Receivers /\ n \in Nat
  /\ d[r] = c[r] + n /\ \A i \in Receivers : i # r => d[i] = c[i]
  /\ Unread(q[k]) = Unread(p[k]) + n /\ \A i \in Receivers : i # k => p[i] = q[i]

LEMMA SharesMove ==
  ASSUME cfg \in Configs, NEW c, NEW q, NEW d, NEW p, NEW r, NEW k, NEW n,
         Counts(c, q, d, p, r, k, n)
  PROVE  SumFunction(Shares(d, p)) = SumFunction(Shares(c, q))
<1>1. /\ c \in [Receivers -> Nat] /\ d \in [Receivers -> Nat]
      /\ p \in [Receivers -> Seq(Message)] /\ q \in [Receivers -> Seq(Message)]
      /\ r \in Receivers /\ k \in Receivers /\ n \in Nat
      /\ d[r] = c[r] + n /\ \A i \in Receivers : i # r => d[i] = c[i]
      /\ Unread(q[k]) = Unread(p[k]) + n /\ \A i \in Receivers : i # k => p[i] = q[i]
  BY DEF Counts
<1> DEFINE x == SumFunction(Shares(c, q))
           y == SumFunction(Shares(c, p))
           z == SumFunction(Shares(d, p))
<1>2. y = x + ((c[k] + Unread(p[k])) - (c[k] + Unread(q[k]))) /\ x \in Int /\ Unread(p[k]) \in Nat
  <2>1. Touches(c, q, c, p, k)  BY <1>1 DEF Touches
  <2> QED BY <2>1, OneShareChanges
<1>3. z = y + ((d[r] + Unread(p[r])) - (c[r] + Unread(p[r]))) /\ y \in Int /\ Unread(p[r]) \in Nat
  <2>1. Touches(c, p, d, p, r)  BY <1>1 DEF Touches
  <2> QED BY <2>1, OneShareChanges
<1>4. /\ n \in Nat /\ c[k] \in Nat /\ c[r] \in Nat
      /\ d[r] = c[r] + n /\ Unread(q[k]) = Unread(p[k]) + n
  BY <1>1
<1> HIDE DEF x, y, z
<1>5. y = x - n  BY <1>2, <1>4
<1>6. z = y + n  BY <1>3, <1>4
<1>7. z = x  BY <1>2, <1>4, <1>5, <1>6
<1> QED BY <1>7 DEF x, z

(* Nothing is lost on the way to a socket.                                 *)
LEMMA SenderConserves ==
  ASSUME SessionInv, Tidy, KnownTests, NEW s \in Senders, SenderStep(s),
         sentData = SumFunction(Shares(counted, queue))
  PROVE  KnownTests' /\ sentData' = SumFunction(Shares(counted', queue'))
<1> DEFINE k == Sock(route[s])
<1>1. /\ UNCHANGED <<cfg, route, rpc, ms, counted>> /\ Senders' = Senders /\ Receivers' = Receivers
      /\ TestIds' = TestIds
  BY SenderParts, Frame DEF receiverVars, SessionInv
<1>2. Reliable /\ TypeOK /\ TypeOK'
  BY SenderType DEF Tidy, NothingLost, Reliable, SessionInv
<1>3. /\ k \in Receivers /\ queue[k] \in Seq(Message) /\ queue \in [Receivers -> Seq(Message)]
      /\ counted \in [Receivers -> Nat] /\ queue' \in [Receivers -> Seq(Message)]
      /\ cfg \in Configs
  BY <1>1, <1>2, Threads DEF TypeOK
<1>4. spc[s] \in {"start", "data"} => open[k]
  <2>1. CASE cfg.port = "sharing"
    BY <1>2, <2>1, SharedOpen DEF SessionInv, SharedRun, Tidy, NeedsSocket
  <2>2. CASE cfg.port # "sharing"  BY <1>2, <2>2, StillOpen DEF SessionInv, Active
  <2> QED BY <2>1, <2>2
<1>5. ASSUME UNCHANGED <<queue, sentData>>
      PROVE  KnownTests' /\ sentData' = SumFunction(Shares(counted', queue'))
  BY <1>1, <1>5 
       DEF KnownTests, Tidy, NothingLost, StartTogether, EndTogether, OneSender
<1>6. ASSUME NEW type \in {"INIT", "MEASUREMENT", "LAST"},
             queue' = [queue EXCEPT ![k] = Append(@, Message_(type, s))],
             sentData' = sentData + (IF type = "MEASUREMENT" THEN 1 ELSE 0)
      PROVE  KnownTests' /\ sentData' = SumFunction(Shares(counted', queue'))
  <2> DEFINE m == Message_(type, s)
             a == Append(queue[k], m)
  <2>1. m \in Message /\ m.type = type /\ m.test = TestOf(s) /\ m.test \in TestIds
    BY <1>3, Threads DEF Message_, Message
  <2>2. queue'[k] = a /\ \A i \in Receivers : i # k => queue'[i] = queue[i]
    <3>1. queue' = [queue EXCEPT ![k] = Append(@, m)]  BY <1>6
    <3> HIDE DEF m, k
    <3> QED BY <1>3, <3>1
  <2>3. /\ Range(a) = Range(queue[k]) \cup {m}
        /\ Unread(a) = Unread(queue[k]) + (IF type = "MEASUREMENT" THEN 1 ELSE 0)
    BY <1>3, <2>1, Appended, UnreadAppend
  <2> HIDE DEF m, a, k
  <2>4. KnownTests'  BY <1>1, <2>1, <2>2, <2>3 
       DEF KnownTests, Tidy, NothingLost, StartTogether, EndTogether, OneSender
  <2>5. /\ SumFunction(Shares(counted, queue')) =
             SumFunction(Shares(counted, queue))
               + ((counted[k] + Unread(queue'[k])) - (counted[k] + Unread(queue[k])))
        /\ SumFunction(Shares(counted, queue)) \in Int
        /\ Unread(queue'[k]) \in Nat /\ Unread(queue[k]) \in Nat
    <3>1. Touches(counted, queue, counted, queue', k)  BY <1>3, <2>2 DEF Touches
    <3> QED BY <1>3, <3>1, OneShareChanges
  <2>6. counted[k] \in Nat  BY <1>3
  <2>7. sentData' = sentData + (IF type = "MEASUREMENT" THEN 1 ELSE 0)  BY <1>6
  <2>8. sentData' = SumFunction(Shares(counted, queue'))
    BY <2>2, <2>3, <2>5, <2>6, <2>7
  <2> QED BY <1>1, <2>4, <2>8
<1>7. \/ UNCHANGED <<queue, sentData>>
      \/ \E type \in {"INIT", "MEASUREMENT", "LAST"} :
           /\ queue' = [queue EXCEPT ![k] = Append(@, Message_(type, s))]
           /\ sentData' = sentData + (IF type = "MEASUREMENT" THEN 1 ELSE 0)
  <2>1. sentData \in Nat /\ sentData + 0 = sentData  BY <1>2 DEF TypeOK
  <2>2. CASE SendData(s)
    <3>1. spc[s] = "data" /\ open[k]  BY <1>4, <2>2 DEF SendData, SenderAt
    <3>2. queue' = [queue EXCEPT ![k] = Append(@, Message_("MEASUREMENT", s))]
      BY <1>2, <2>2, <3>1 DEF SendData, Deliver, Reliable, Message_
    <3>3. queue' # queue
      <4>1. queue'[k] = Append(queue[k], Message_("MEASUREMENT", s))
        BY <1>3, <3>2
      <4>2. Message_("MEASUREMENT", s) \in Message  BY <1>3, Threads DEF Message_, Message
      <4>3. Len(Append(queue[k], Message_("MEASUREMENT", s))) = Len(queue[k]) + 1
            /\ Len(queue[k]) \in Nat
        BY <1>3, <4>2, AppendProperties, LenProperties
      <4> QED BY <4>1, <4>3
    <3> QED BY <2>2, <3>2, <3>3 DEF SendData
  <2>3. CASE SendInit(s)  BY <2>1, <2>3 DEF SendInit, Deliver, Message_
  <2>4. CASE SendLast(s)  BY <2>1, <2>4 DEF SendLast, Deliver, Message_
  <2>5. CASE StopSending(s) \/ Refused(s)  BY <2>5 DEF StopSending, Refused, socketVars
  <2> QED BY <2>2, <2>3, <2>4, <2>5 DEF SenderStep
<1> QED BY <1>5, <1>6, <1>7

(* A receiver that reads a message of the measurement counts it.           *)
LEMMA ReceiveConserves ==
  ASSUME SessionInv, Tidy, KnownTests, NEW r \in Receivers, Receive(r),
         sentData = SumFunction(Shares(counted, queue))
  PROVE  KnownTests' /\ sentData' = SumFunction(Shares(counted', queue'))
<1> DEFINE k == Sock(r)
           m == Head(queue[k])
           c == SubSeq(queue[k], 2, Len(queue[k]))
           n == IF m.type = "MEASUREMENT" THEN 1 ELSE 0
<1>1. TypeOK /\ TypeOK' /\ cfg \in Configs /\ cfg.take = 1 /\ k \in Receivers /\ Inbox(r) = queue[k]
  BY ReceiveType, Threads DEF SessionInv, TypeOK, Tidy, NothingLost, Inbox
<1>2. queue[k] # <<>> /\ queue[k] \in Seq(Message) /\ Taken(r) = 1 /\ 1 + 1 = 2
  <2>1. queue[k] # <<>> /\ queue[k] \in Seq(Message)  BY <1>1, ReceiveParts
  <2> QED BY <1>1, <2>1, TakenRange
<1>3. /\ UNCHANGED <<cfg, sentData>> /\ Receivers' = Receivers /\ TestIds' = TestIds
      /\ queue \in [Receivers -> Seq(Message)] /\ queue' \in [Receivers -> Seq(Message)]
      /\ counted \in [Receivers -> Nat] /\ counted' \in [Receivers -> Nat]
  <2>1. UNCHANGED <<cfg, senderVars>>  BY <1>1, ReceiveParts
  <2>2. Receivers' = Receivers /\ TestIds' = TestIds  BY <2>1, Frame
  <2> QED BY <1>1, <2>1, <2>2 DEF senderVars, TypeOK
<1>4. m \in Message /\ Range(queue[k]) = Range(c) \cup {m}  BY <1>2, CutFirst
<1>5. Unread(queue[k]) = Unread(c) + n  BY <1>2, UnreadCut
<1>6. ParseResult(ms[r], m) = "OK" <=> m.type = "MEASUREMENT"
  <2>1. m.test \in TestIds  BY <1>1, <1>4 DEF KnownTests
  <2>2. m.test < MaxTestId /\ m.test \in Nat
    <3>1. PICK s \in Senders : m.test = TestOf(s)  BY <2>1 DEF TestIds
    <3>2. s \in 1 .. cfg.senders /\ cfg.senders \in Nat /\ cfg.senders <= MaxTestId
      BY <1>1, Threads DEF Senders, Tidy
    <3> HIDE DEF m
    <3> QED BY <3>1, <3>2, MaxTestIdAssumption DEF TestOf
  <2>3. m.type \in {"INIT", "MEASUREMENT", "LAST"}  BY <1>4 DEF Message
  <2>4. ~(m.test >= MaxTestId)
    <3> HIDE DEF m
    <3> QED BY <2>2, MaxTestIdAssumption
  <2> HIDE DEF m
  <2> QED BY <2>3, <2>4 DEF ParseResult
<1>7. /\ queue' = [queue EXCEPT ![k] = SubSeq(@, 1 + 1, Len(@))]
      /\ counted' = [counted EXCEPT ![r] = @ + (IF ParseResult(ms[r], m) = "OK" THEN 1 ELSE 0)]
  BY <1>1, <1>2, ReceiveParts
<1>8. queue'[k] = c /\ \A i \in Receivers : i # k => queue'[i] = queue[i]
  <2>1. queue' = [queue EXCEPT ![k] = SubSeq(@, 2, Len(@))]  BY <1>2, <1>7
  <2> HIDE DEF k
  <2> QED BY <1>1, <1>3, <2>1
<1>9. counted'[r] = counted[r] + n /\ \A i \in Receivers : i # r => counted'[i] = counted[i]
  <2> HIDE DEF m
  <2> QED BY <1>3, <1>6, <1>7
<1>10. n \in Nat  OBVIOUS
<1> HIDE DEF k, m, c, n
<1>11. KnownTests'  BY <1>3, <1>1, <1>4, <1>8 
       DEF KnownTests, Tidy, NothingLost, StartTogether, EndTogether, OneSender
<1>12. Unread(queue[k]) = Unread(queue'[k]) + n  BY <1>5, <1>8
<1>13. SumFunction(Shares(counted', queue')) = SumFunction(Shares(counted, queue))
  <2>1. Counts(counted, queue, counted', queue', r, k, n)
    BY <1>1, <1>3, <1>8, <1>9, <1>10, <1>12 DEF Counts
  <2> QED BY <1>1, <2>1, SharesMove
<1> QED BY <1>3, <1>11, <1>13

(* A socket that a receiver closes holds nothing of the measurement.       *)
LEMMA CloseConserves ==
  ASSUME SessionInv, Timely, Tidy, KnownTests, NEW r \in Receivers, Close(r),
         sentData = SumFunction(Shares(counted, queue))
  PROVE  KnownTests' /\ sentData' = SumFunction(Shares(counted', queue'))
<1>1. /\ UNCHANGED <<cfg, sentData, counted>> /\ TypeOK /\ TypeOK' /\ cfg \in Configs
      /\ rpc[r] = "leave" /\ queue'[r] = <<>>
      /\ \A q \in Receivers : q # r => queue'[q] = queue[q]
      /\ Receivers' = Receivers /\ TestIds' = TestIds
  BY CloseParts, CloseType, Frame DEF senderVars, SessionInv, TypeOK
<1>2. cfg.port # "sharing"  BY <1>1 DEF SessionInv, Routes
<1>3. \A m \in Range(queue[r]) : m.type # "MEASUREMENT"
  BY <1>1, <1>2 DEF Timely, Orderly, LeftBehind
<1>4. queue[r] \in Seq(Message) /\ \A i \in DOMAIN queue[r] : queue[r][i].type # "MEASUREMENT"
  BY <1>1, <1>3 DEF TypeOK, Range
<1>5. Unread(queue[r]) = 0 /\ Unread(queue'[r]) = 0  BY <1>1, <1>4, UnreadType, UnreadNone
<1>6. Range(<<>>) = {}  BY DEF Range
<1>7. KnownTests'  BY <1>1, <1>6 DEF KnownTests
<1>8. /\ queue \in [Receivers -> Seq(Message)] /\ queue' \in [Receivers -> Seq(Message)]
      /\ counted \in [Receivers -> Nat] /\ counted[r] \in Nat
  BY <1>1 DEF TypeOK
<1>9. /\ SumFunction(Shares(counted, queue')) =
           SumFunction(Shares(counted, queue))
             + ((counted[r] + Unread(queue'[r])) - (counted[r] + Unread(queue[r])))
      /\ SumFunction(Shares(counted, queue)) \in Int
  <2>1. Touches(counted, queue, counted, queue', r)  BY <1>1, <1>8 DEF Touches
  <2> QED BY <1>1, <2>1, OneShareChanges
<1>10. SumFunction(Shares(counted, queue')) = SumFunction(Shares(counted, queue))
  BY <1>5, <1>8, <1>9
<1> QED BY <1>1, <1>7, <1>10

(* Nor does the shared socket hold any when main closes it.                *)
LEMMA MainConserves ==
  ASSUME SessionInv, Tidy, KnownTests, MainCloses,
         sentData = SumFunction(Shares(counted, queue))
  PROVE  KnownTests' /\ sentData' = SumFunction(Shares(counted', queue'))
<1>1. /\ UNCHANGED <<cfg, sentData, counted>> /\ TypeOK /\ TypeOK' /\ cfg \in Configs
      /\ Ended /\ 1 \in Receivers /\ queue'[1] = <<>> /\ cfg.port = "sharing"
      /\ \A q \in Receivers : q # 1 => queue'[q] = queue[q]
      /\ Receivers' = Receivers /\ TestIds' = TestIds
  BY MainParts, MainType, Frame DEF senderVars, receiverVars, SessionInv, TypeOK
<1>2. DataRead
  BY <1>1 DEF SessionInv, SharedCalm, SharedRun, OneSocket, Tidy, NothingLost, Reliable
<1>3. queue[1] \in Seq(Message) /\ \A i \in DOMAIN queue[1] : queue[1][i].type # "MEASUREMENT"
  BY <1>1, <1>2 DEF DataRead, Live, Ended, TypeOK
<1>4. Unread(queue[1]) = 0 /\ Unread(queue'[1]) = 0  BY <1>1, <1>3, UnreadType, UnreadNone
<1>5. Range(<<>>) = {}  BY DEF Range
<1>6. KnownTests'  BY <1>1, <1>5 DEF KnownTests
<1>7. /\ queue \in [Receivers -> Seq(Message)] /\ queue' \in [Receivers -> Seq(Message)]
      /\ counted \in [Receivers -> Nat] /\ counted[1] \in Nat
  BY <1>1 DEF TypeOK
<1>8. /\ SumFunction(Shares(counted, queue')) =
           SumFunction(Shares(counted, queue))
             + ((counted[1] + Unread(queue'[1])) - (counted[1] + Unread(queue[1])))
      /\ SumFunction(Shares(counted, queue)) \in Int
  <2>1. Touches(counted, queue, counted, queue', 1)  BY <1>1, <1>7 DEF Touches
  <2> QED BY <1>1, <2>1, OneShareChanges
<1>9. SumFunction(Shares(counted, queue')) = SumFunction(Shares(counted, queue))
  BY <1>4, <1>7, <1>8
<1> QED BY <1>1, <1>6, <1>9

Conserved == KnownTests /\ (Tidy => sentData = SumFunction(Shares(counted, queue)))

LEMMA StepConserved ==
  ASSUME SessionInv, Timely, Conserved, [Next]_vars PROVE Conserved'
<1>1. cfg' = cfg /\ Receivers' = Receivers /\ TestIds' = TestIds
  BY CfgFixed, Frame DEF SessionInv
<1> SUFFICES ASSUME Tidy
             PROVE  KnownTests' /\ sentData' = SumFunction(Shares(counted', queue'))
  <2>1. Shares(counted, queue)' = Shares(counted', queue')  BY <1>1 DEF Shares
  <2>2. Tidy' = Tidy  BY <1>1 DEF Tidy, NothingLost, StartTogether, EndTogether, OneSender
  <2>3. CASE ~Tidy  BY <2>2, <2>3 DEF Conserved, KnownTests
  <2>4. CASE Tidy  BY <2>1, <2>4 DEF Conserved
  <2> QED BY <2>3, <2>4
<1>2. KnownTests /\ sentData = SumFunction(Shares(counted, queue))  BY DEF Conserved
<1>3. ASSUME UNCHANGED <<queue, counted, sentData>>
      PROVE  KnownTests' /\ sentData' = SumFunction(Shares(counted', queue'))
  BY <1>1, <1>2, <1>3 DEF KnownTests
<1>4. CASE Tick  BY <1>3, <1>4, TickParts DEF SessionInv, socketVars
<1>5. ASSUME NEW r \in Receivers, Moves(r) PROVE UNCHANGED <<queue, counted, sentData>>
  BY <1>5, MovesParts DEF socketVars, senderVars
<1>6. CASE UNCHANGED vars
  BY <1>3, <1>6 DEF vars, senderVars, receiverVars, socketVars
<1> QED BY <1>2, <1>3, <1>4, <1>5, <1>6, SenderConserves, ReceiveConserves, CloseConserves,
           MainConserves
        DEF Next, ReceiverStep, Moves

LEMMA InitConserved == ASSUME Init PROVE Conserved
<1>1. cfg \in Configs /\ sentData = 0 /\ queue = [r \in Receivers |-> <<>>]
      /\ counted = [r \in Receivers |-> 0]
  BY DEF Init
<1>2. IsFiniteSet(Receivers)  BY <1>1, Threads, FS_Interval DEF Receivers
<1> DEFINE f == Shares(counted, queue)
<1>3. \A r \in Receivers : f[r] = 0  BY <1>1, UnreadNone DEF Shares
<1>4. SumFunction(f) = SumFunctionOnSet(f, Receivers)  BY DEF Shares, SumFunction
<1> HIDE DEF f
<1>5. SumFunction(f) = 0  BY <1>2, <1>3, <1>4, SumOfZeros
<1>6. KnownTests
  <2>1. Range(<<>>) = {}  BY DEF Range
  <2> QED BY <1>1, <2>1 DEF KnownTests
<1> QED BY <1>1, <1>5, <1>6 DEF f, Conserved

(* No datagram of the measurement is discarded with a socket that a thread *)
(* or main closes: every one that reached a socket is counted by the       *)
(* receiver that reads it, or still waits there.  A receiver leaves when   *)
(* the tests it has heard of have ended (receiver.rs 633-672), and by then *)
(* every sender whose flow comes to it has been heard (receiver.rs         *)
(* 203-231, sender.rs 341-356 and 403-407).  main closes a shared socket   *)
(* when no receiver is left (executor.rs 77-112), and the last one has     *)
(* read what was there before the LAST that ended it.                      *)
THEOREM DatagramsAreConserved == Spec => []DataConserved
<1>1. Conserved => DataConserved  BY DEF Conserved, DataConserved, Tidy, Shares
<1>2. Init => Timely /\ Conserved  BY InitTimely, InitConserved
<1>3. SessionInv /\ Timely /\ Conserved /\ [Next]_vars => Timely' /\ Conserved'
  BY StepTimely, StepConserved
<1> QED BY <1>1, <1>2, <1>3, AlwaysSession, PTL DEF Spec
=============================================================================
