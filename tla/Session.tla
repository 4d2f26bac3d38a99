------------------------------- MODULE Session -------------------------------
(***************************************************************************)
(* One measurement session: the sender threads and the receiver threads of *)
(* one executor round each, from INIT to LAST (Sender::run, Receiver::run, *)
(* parse_message_type, and the sockets that executor.rs and the two        *)
(* constructors set up for a port mode).  Time is discrete: it advances    *)
(* when no thread can run, which is to say that the hosts keep up.         *)
(***************************************************************************)
EXTENDS Measurements, Functions, FiniteSetsExt

CONSTANTS
  Configs,          \* the command lines a behaviour may start with
  WaitControl,      \* WAIT_CONTROL_MESSAGE, in ticks
  PollTimeout,      \* IN_MEASUREMENT_POLL_TIMEOUT, in ticks
  InitialTimeout,   \* INITIAL_POLL_TIMEOUT, in ticks
  Data              \* bound: MEASUREMENT messages per test, one a tick

PortMode == {"individual", "sharding", "sharing"}

ASSUME ConfigsAssumption ==
  \A c \in Configs :
    /\ c.senders \in Nat \ {0} /\ c.receivers \in Nat \ {0}  \* --parallel
    /\ c.port \in PortMode       \* --multiplex-port-receiver
    /\ c.port = "individual" => c.senders <= c.receivers
    /\ c.busy \in BOOLEAN        \* --io-model busy-waiting
    /\ c.take \in Nat \ {0}      \* messages recvmmsg() may return
    /\ c.skew \in Nat            \* ticks between the starts of the senders
    /\ c.loss \in BOOLEAN        \* messages may be lost

ASSUME TimesAssumption ==
  /\ {WaitControl, PollTimeout, InitialTimeout, Data} \subseteq Nat
  /\ 0 < WaitControl /\ 2 * WaitControl < PollTimeout /\ PollTimeout < InitialTimeout

VARIABLES cfg,      \* the command line, fixed
          spc,      \* where each sender is
          stimer,   \* ticks until it goes on
          left,     \* MEASUREMENT messages it still sends
          route,    \* the receiver the kernel delivers its messages to
          queue,    \* messages in the socket of each receiver
          open,     \* which sockets are open
          rpc,      \* where each receiver is
          rtimer,   \* ticks until its poll or sleep ends
          ms,       \* its measurements
          counted,  \* its datagrams (statistic.amount_datagrams)
          sentData, \* history: MEASUREMENT messages sent
          handlers  \* history: the receivers that parsed a message of a test

senderVars == <<spc, stimer, left, sentData>>
receiverVars == <<rpc, rtimer, ms, counted, handlers>>
socketVars == <<queue, open, route>>
vars == <<cfg, senderVars, receiverVars, socketVars>>

Senders == 1 .. cfg.senders
Receivers == 1 .. cfg.receivers

(* With a shared receiver port all senders simulate one connection.        *)
TestOf(s) == IF cfg.port = "sharing" THEN 0 ELSE s - 1
TestIds == {TestOf(s) : s \in Senders}

(* The socket a receiver reads from: one for all if the port is shared.    *)
Sock(r) == IF cfg.port = "sharing" THEN 1 ELSE r
-----------------------------------------------------------------------------
(* A message of s goes to the socket its flow is routed to, or nowhere.    *)
Deliver(s, type) ==
  LET k == Sock(route[s])
  IN  \/ open[k] /\ queue' = [queue EXCEPT ![k] = Append(@, [type |-> type, test |-> TestOf(s)])]
      \/ (cfg.loss \/ ~open[k]) /\ UNCHANGED queue

SenderAt(s, pc) == spc[s] = pc /\ stimer[s] = 0

SenderGoesTo(s, pc, ticks) ==
  /\ spc' = [spc EXCEPT ![s] = pc]
  /\ stimer' = [stimer EXCEPT ![s] = ticks]

(* send_control_message(INIT), then sleep.                                 *)
SendInit(s) ==
  /\ SenderAt(s, "start")
  /\ Deliver(s, "INIT")
  /\ SenderGoesTo(s, "data", WaitControl)
  /\ UNCHANGED <<cfg, left, sentData, open, route, receiverVars>>

(* Bug: one round too many.                                                *)
OneMore(s) == left[s] >= 0

(* run_time_length is not over.                                            *)
MoreToSend(s) == left[s] > 0

SendData(s) ==
  /\ SenderAt(s, "data")
  /\ MoreToSend(s)
  /\ Deliver(s, "MEASUREMENT")
  /\ left' = [left EXCEPT ![s] = @ - 1]
  /\ sentData' = sentData + (IF queue' = queue THEN 0 ELSE 1)
  /\ SenderGoesTo(s, "data", 1)
  /\ UNCHANGED <<cfg, open, route, receiverVars>>

(* The loop ends; sleep before LAST.                                       *)
StopSending(s) ==
  /\ SenderAt(s, "data")
  /\ ~MoreToSend(s)
  /\ SenderGoesTo(s, "drain", WaitControl)
  /\ UNCHANGED <<cfg, left, sentData, socketVars, receiverVars>>

SendLast(s) ==
  /\ SenderAt(s, "drain")
  /\ Deliver(s, "LAST")
  /\ SenderGoesTo(s, "done", 0)
  /\ UNCHANGED <<cfg, left, sentData, open, route, receiverVars>>

(* ECONNREFUSED: no socket is open at the receiver; the sender gives up.   *)
Refused(s) ==
  /\ \E pc \in {"start", "data", "drain"} : SenderAt(s, pc)
  /\ ~open[Sock(route[s])]
  /\ SenderGoesTo(s, "aborted", 0)
  /\ UNCHANGED <<cfg, left, sentData, socketVars, receiverVars>>
-----------------------------------------------------------------------------
Inbox(r) == queue[Sock(r)]

ReceiverGoesTo(r, pc, ticks) ==
  /\ rpc' = [rpc EXCEPT ![r] = pc]
  /\ rtimer' = [rtimer EXCEPT ![r] = ticks]

(* The initial poll() finds a message.  Sharing threads all wake up.       *)
FirstMessage(r) ==
  /\ rpc[r] = "initial"
  /\ Inbox(r) # <<>>
  /\ ReceiverGoesTo(r, "run", 0)
  /\ UNCHANGED <<cfg, senderVars, socketVars, ms, counted, handlers>>

(* The initial poll() times out: run returns without closing the socket.   *)
NoMessage(r) ==
  /\ rpc[r] = "initial"
  /\ Inbox(r) = <<>>
  /\ rtimer[r] = 0
  /\ ReceiverGoesTo(r, "done", 0)
  /\ UNCHANGED <<cfg, senderVars, socketVars, ms, counted, handlers>>

(* Bug: the socket is closed without waiting for the other threads.        *)
LeaveAtOnce(r) ==
  IF cfg.port = "sharing" THEN ReceiverGoesTo(r, "done", 0) ELSE ReceiverGoesTo(r, "leave", 0)

(* The loop is left.  A shared socket is left to main, one of a sharded    *)
(* port is closed after a while only.                                      *)
Leave(r) ==
  IF cfg.port = "sharing" THEN ReceiverGoesTo(r, "done", 0)
  ELSE ReceiverGoesTo(r, "leave", IF cfg.port = "sharding" THEN 2 * WaitControl ELSE 0)

(* recv_messages: the first of the received messages decides what happens  *)
(* to all of them.                                                         *)
Receive(r) ==
  LET n == Min({cfg.take, Len(Inbox(r))})
      m == Head(Inbox(r))
      result == ParseResult(ms[r], m)
  IN
  /\ rpc[r] = "run"
  /\ Inbox(r) # <<>>
  /\ queue' = [queue EXCEPT ![Sock(r)] = SubSeq(@, n + 1, Len(@))]
  /\ ms' = [ms EXCEPT ![r] = Parsed(@, m)]
  /\ counted' = [counted EXCEPT ![r] = @ + (IF result = "OK" THEN n ELSE 0)]
  /\ handlers' = [handlers EXCEPT ![m.test] = @ \cup {r}]
  /\ CASE result = "LAST" /\ AllFinished(ms'[r]) -> Leave(r)
       [] result \in {"panic", "ERROR"} -> ReceiverGoesTo(r, "failed", 0)
       [] OTHER -> UNCHANGED <<rpc, rtimer>>
  /\ UNCHANGED <<cfg, senderVars, open, route>>

(* EAGAIN: io_wait blocks in select() or poll().  With busy waiting it     *)
(* returns at once, and the state is the same.                             *)
Block(r) ==
  /\ rpc[r] = "run"
  /\ Inbox(r) = <<>>
  /\ ~cfg.busy
  /\ ReceiverGoesTo(r, "wait", PollTimeout)
  /\ UNCHANGED <<cfg, senderVars, socketVars, ms, counted, handlers>>

Readable(r) ==
  /\ rpc[r] = "wait"
  /\ Inbox(r) # <<>>
  /\ ReceiverGoesTo(r, "run", 0)
  /\ UNCHANGED <<cfg, senderVars, socketVars, ms, counted, handlers>>

(* Bug: a timeout is taken for another EAGAIN.                             *)
TimeoutRetries(r) ==
  /\ rpc[r] = "wait"
  /\ Inbox(r) = <<>>
  /\ rtimer[r] = 0
  /\ ReceiverGoesTo(r, "run", 0)
  /\ UNCHANGED <<cfg, senderVars, socketVars, ms, counted, handlers>>

(* select() or poll() times out: the loop is left.                         *)
Timeout(r) ==
  /\ rpc[r] = "wait"
  /\ Inbox(r) = <<>>
  /\ rtimer[r] = 0
  /\ Leave(r)
  /\ UNCHANGED <<cfg, senderVars, socketVars, ms, counted, handlers>>

(* The flows of a sharded port are distributed anew over the open sockets. *)
Reroute ==
  LET K == {k \in Receivers : open'[k]}
  IN  IF cfg.port = "sharding" /\ K # {} THEN route' \in [Senders -> K] ELSE UNCHANGED route

(* The socket is closed; what it still holds is lost.                      *)
Close(r) ==
  /\ rpc[r] = "leave"
  /\ rtimer[r] = 0
  /\ open' = [open EXCEPT ![r] = FALSE]
  /\ queue' = [queue EXCEPT ![r] = <<>>]
  /\ Reroute
  /\ ReceiverGoesTo(r, "done", 0)
  /\ UNCHANGED <<cfg, senderVars, ms, counted, handlers>>
-----------------------------------------------------------------------------
Ended == \A r \in Receivers : rpc[r] \in {"done", "failed"}

(* Bug: main waits for the first thread only.                              *)
OneHasEnded ==
  cfg.port = "sharing" /\ open[1] /\ \E r \in Receivers : rpc[r] \in {"done", "failed"}

(* main has joined all threads, and the socket they shared is still open.  *)
MainMayClose == cfg.port = "sharing" /\ open[1] /\ Ended

(* main closes the socket that it made for all threads.                    *)
MainCloses ==
  /\ MainMayClose
  /\ open' = [open EXCEPT ![1] = FALSE]
  /\ queue' = [queue EXCEPT ![1] = <<>>]
  /\ UNCHANGED <<cfg, route, senderVars, receiverVars>>

(* No thread can take a step now, and some wait for their time.            *)
Quiet ==
  /\ ~MainMayClose
  /\ \A s \in Senders : spc[s] \in {"done", "aborted"} \/ stimer[s] > 0
  /\ \A r \in Receivers :
       \/ rpc[r] \in {"done", "failed"}
       \/ rpc[r] = "leave" /\ rtimer[r] > 0
       \/ rpc[r] \in {"initial", "wait"} /\ Inbox(r) = <<>> /\ rtimer[r] > 0
       \/ rpc[r] = "run" /\ Inbox(r) = <<>> /\ cfg.busy
  /\ \/ \E s \in Senders : stimer[s] > 0
     \/ \E r \in Receivers : rtimer[r] > 0

RunDown(timer) == [i \in DOMAIN timer |-> IF timer[i] > 0 THEN timer[i] - 1 ELSE 0]

Tick ==
  /\ Quiet
  /\ stimer' = RunDown(stimer)
  /\ rtimer' = RunDown(rtimer)
  /\ UNCHANGED <<cfg, spc, left, sentData, socketVars, rpc, ms, counted, handlers>>

SenderStep(s) == SendInit(s) \/ SendData(s) \/ StopSending(s) \/ SendLast(s) \/ Refused(s)

ReceiverStep(r) ==
  \/ FirstMessage(r) \/ NoMessage(r) \/ Receive(r) \/ Block(r) \/ Readable(r) \/ Timeout(r)
  \/ Close(r)

(* The sockets are bound and the receivers poll before a sender starts.    *)
Init ==
  /\ cfg \in Configs
  /\ spc = [s \in Senders |-> "start"]
  /\ stimer \in [Senders -> 0 .. cfg.skew]
  /\ left = [s \in Senders |-> Data]
  /\ route \in [Senders -> Receivers]
  /\ cfg.port = "individual" => \A s \in Senders : route[s] = s
  /\ cfg.port = "sharing" => \A s \in Senders : route[s] = 1
  /\ queue = [r \in Receivers |-> <<>>]
  /\ open = [r \in Receivers |-> TRUE]
  /\ rpc = [r \in Receivers |-> "initial"]
  /\ rtimer = [r \in Receivers |-> InitialTimeout]
  /\ ms = [r \in Receivers |-> <<>>]
  /\ counted = [r \in Receivers |-> 0]
  /\ sentData = 0
  /\ handlers = [t \in TestIds |-> {}]

Next ==
  \/ \E s \in Senders : SenderStep(s)
  \/ \E r \in Receivers : ReceiverStep(r)
  \/ MainCloses
  \/ Tick

Spec == Init /\ [][Next]_vars

(* Every thread that can run eventually does, and time goes on.  A config  *)
(* has at most MaxThreads threads of a kind.                               *)
MaxThreads == 3
FairSpec ==
  /\ Spec
  /\ \A i \in 1 .. MaxThreads :
       /\ WF_vars(i \in Senders /\ SenderStep(i))
       /\ WF_vars(i \in Receivers /\ ReceiverStep(i))
  /\ WF_vars(MainCloses)
  /\ WF_vars(Tick)
-----------------------------------------------------------------------------
TypeOK ==
  /\ cfg \in Configs
  /\ spc \in [Senders -> {"start", "data", "drain", "done", "aborted"}]
  /\ stimer \in [Senders -> Nat]
  /\ left \in [Senders -> Nat]
  /\ route \in [Senders -> Receivers]
  /\ queue \in [Receivers -> Seq(Message)]
  /\ open \in [Receivers -> BOOLEAN]
  /\ rpc \in [Receivers -> {"initial", "run", "wait", "leave", "done", "failed"}]
  /\ rtimer \in [Receivers -> Nat]
  /\ ms \in [Receivers -> Seq(Measurement)]
  /\ counted \in [Receivers -> Nat]
  /\ sentData \in Nat
  /\ handlers \in [TestIds -> SUBSET Receivers]

(* The network loses nothing, and every message is parsed on its own.      *)
NothingLost == ~cfg.loss /\ cfg.take = 1

(* The senders, which are spawned in a loop, start within two pauses.      *)
StartTogether == cfg.skew < 2 * WaitControl

(* No receiver thread fails, if each has its own socket, reads message by  *)
(* message, and none is lost: LAST always finds the test's measurement.    *)
NoFailure ==
  NothingLost /\ StartTogether /\ cfg.port # "sharing" /\ cfg.senders <= MaxTestId =>
    \A r \in Receivers : rpc[r] # "failed"

(* "we assume that the thread has received at least one MEASUREMENT        *)
(* message before" (receiver.rs:211), for every port mode.                 *)
LastIsExpected == ~cfg.loss => \A r \in Receivers : rpc[r] # "failed"

(* A test is received by one thread only, although closing a socket        *)
(* redistributes the flows of a sharded port: no thread closes before the  *)
(* last sender is done, unless losses keep it waiting for too long.        *)
OneThreadPerTest ==
  \/ cfg.port = "individual"
  \/ cfg.port = "sharding" /\ ~cfg.loss /\ StartTogether
  => \A t \in TestIds : \A q, r \in handlers[t] : q = r

(* What the datagrams that wait in a socket hold of the measurement.       *)
Unread(q) == Cardinality({i \in DOMAIN q : q[i].type = "MEASUREMENT"})

(* The first LAST on a shared socket ends the thread that reads it, and    *)
(* main closes the socket when all have ended: its senders must have sent  *)
(* all their data by then, and LAST too if there is only one.              *)
OneSender == cfg.port = "sharing" => cfg.senders = 1
EndTogether == OneSender \/ cfg.skew < WaitControl

(* Every datagram that reached a socket is counted or still to be read:    *)
(* none is discarded with a socket that a thread or main closes.           *)
DataConserved ==
  /\ NothingLost /\ StartTogether /\ EndTogether /\ cfg.skew < WaitControl + Data
  /\ cfg.senders <= MaxTestId
  => sentData = SumFunction([r \in Receivers |-> counted[r] + Unread(queue[r])])

(* What a sender still needs its receiver's socket for.                    *)
NeedsSocket(s) == spc[s] \in {"start", "data"} \/ (spc[s] = "drain" /\ OneSender)

(* No socket is closed under a sender before the end of its data, although *)
(* no receiver knows who sends to it, or is going to; nor before LAST,     *)
(* unless senders share the socket.                                        *)
NoEarlyClose ==
  ~cfg.loss /\ StartTogether /\ EndTogether =>
    \A s \in Senders : NeedsSocket(s) => open[Sock(route[s])]

(* Every receiver returns, also one that never gets LAST: "To avoid that   *)
(* the thread waits forever, we need to return here" (receiver.rs:634).    *)
ReceiversEnd == ~cfg.busy => <>Ended
ReceiversAlwaysEnd == <>Ended
=============================================================================
