--------------------------- MODULE UringRecvBuffers ---------------------------
(***************************************************************************)
(* The receiver's io_uring loops with a buffer ring (receiver.rs:          *)
(* io_uring_complete_provided_buffers, io_uring_complete_multishot;        *)
(* io_uring/provided_buffer.rs, io_uring/multishot.rs).  A request names   *)
(* no buffer: the kernel takes the oldest one of the ring when a datagram  *)
(* arrives, and the loop gives it back when it has parsed the message.     *)
(* With provided buffers a request receives one datagram, and the loop     *)
(* counts the requests in flight; a multishot request receives until it is *)
(* disarmed, and the loop remembers whether one is armed.                  *)
(***************************************************************************)
EXTENDS Measurements, UringFill, UringQueues, Integers, FiniteSets

CONSTANTS Configs, \* the command lines a behaviour may start with
          Data     \* bound: MEASUREMENT messages of a test

ASSUME ConfigsAssumption ==
  \A c \in Configs :
    /\ c.mode \in {"ProvidedBuffer", "Multishot"}
    /\ c.uring \in UringParameter
    /\ c.tests \subseteq Nat  \* ids of the tests sent to this receiver
    /\ c.faults \in BOOLEAN   \* datagrams may be lost, requests may fail

VARIABLES cfg,        \* the command line, fixed
          progress,   \* per test, the messages its sender has sent
          sockq,      \* messages in the receiver's socket
          ring,       \* buffers the kernel may take, oldest first
          sq,         \* requests in the submission queue
          kern,       \* requests the kernel works on
          cq,         \* completion queue, oldest first
          content,    \* the message in each buffer
          pc,         \* where the loop is
          snap,       \* completions that get_bufs_and_cq() saw
          pos,        \* completions of these already iterated over
          recycled,   \* bufs: buffers given back, not yet visible to the kernel
          completed,  \* completion_count (provided buffers)
          inflight,   \* amount_inflight (provided buffers)
          stillArmed, \* multishot_armed of the current drain (multishot)
          armed,      \* the loop's own armed (multishot)
          ms,         \* measurements
          taken,      \* history: messages in the order the kernel received them
          handled     \* history: messages in the order the loop parsed them

kernelVars == <<ring, sq, kern, cq, content, taken>>
loopVars == <<pc, snap, pos, recycled, completed, inflight, stillArmed, armed, ms, handled>>
sendVars == <<progress, sockq>>
vars == <<cfg, sendVars, kernelVars, loopVars>>

Buffers == 0 .. (cfg.uring.buffer - 1)
TestIds == cfg.tests
Provided == cfg.mode = "ProvidedBuffer"
Multishot == cfg.mode = "Multishot"

(* The messages of a test: INIT, then its data, then LAST.                 *)
NthMessage(t, n) ==
  [type |-> IF n = 0 THEN "INIT" ELSE IF n <= Data THEN "MEASUREMENT" ELSE "LAST",
   test |-> t]

NoMessage == [type |-> "MEASUREMENT", test |-> 0]

(* A completion; one that carries an error has no buffer (0 stands there). *)
Completion(b, res, more) == [buf |-> b, res |-> res, more |-> more]
-----------------------------------------------------------------------------
(* A datagram of test t arrives, or is lost on the way; each test's        *)
(* datagrams keep their order.                                             *)
Arrive(t) ==
  /\ progress[t] < Data + 2
  /\ \/ sockq' = Append(sockq, NthMessage(t, progress[t]))
     \/ cfg.faults /\ UNCHANGED sockq
  /\ progress' = [progress EXCEPT ![t] = @ + 1]
  /\ UNCHANGED <<cfg, kernelVars, loopVars>>

(* The kernel thread of SQPOLL takes requests off the queue by itself.     *)
SqThread ==
  /\ cfg.uring.sqpoll
  /\ sq > 0
  /\ sq' = sq - 1
  /\ kern' = kern + 1
  /\ UNCHANGED <<cfg, sendVars, ring, cq, content, taken, loopVars>>

(* A request receives the oldest datagram into the oldest buffer.  It is   *)
(* done, or with multishot stays armed (IORING_CQE_F_MORE).  (A kernel may *)
(* also end a multishot request with a datagram, if the completion queue   *)
(* is full: left out.)                                                     *)
KernelReceive ==
  /\ kern > 0
  /\ sockq # <<>>
  /\ ring # <<>>
  /\ kern' = IF Multishot THEN kern ELSE kern - 1
  /\ content' = [content EXCEPT ![Head(ring)] = Head(sockq)]
  /\ cq' = Append(cq, Completion(Head(ring), "bytes", Multishot))
  /\ ring' = Tail(ring)
  /\ taken' = Append(taken, Head(sockq))
  /\ sockq' = Tail(sockq)
  /\ UNCHANGED <<cfg, progress, sq, loopVars>>

(* A datagram is there but no buffer: the request ends with ENOBUFS, the   *)
(* datagram stays in the socket.                                           *)
KernelNoBuffer ==
  /\ kern > 0
  /\ sockq # <<>>
  /\ ring = <<>>
  /\ kern' = kern - 1
  /\ cq' = Append(cq, Completion(0, "ENOBUFS", FALSE))
  /\ UNCHANGED <<cfg, sendVars, ring, sq, content, taken, loopVars>>

(* A request ends with EAGAIN or another negated error code.               *)
KernelFail ==
  /\ cfg.faults
  /\ kern > 0
  /\ kern' = kern - 1
  /\ \E e \in {"EAGAIN", "errno"} : cq' = Append(cq, Completion(0, e, FALSE))
  /\ UNCHANGED <<cfg, sendVars, ring, sq, content, taken, loopVars>>
-----------------------------------------------------------------------------
(* Provided buffers: fill_sq_and_submit up to io_uring_enter.  A full      *)
(* queue ends the submission, what was pushed counts.                      *)
Fill ==
  LET p == cfg.uring
      n == ToSubmit(inflight, sq, p)
      room == p.ring - sq
      pushed == IF n < room THEN n ELSE room
  IN
  /\ Provided
  /\ pc = "fill"
  /\ sq' = sq + pushed
  /\ inflight' = inflight + pushed
  /\ pc' = IF SkipEnter(inflight, sq, cq = <<>>, p) THEN "drain" ELSE "enter"
  /\ UNCHANGED <<cfg, sendVars, ring, kern, cq, content, taken, snap, pos, recycled, completed,
                 stillArmed, armed, ms, handled>>

(* Multishot: a request is pushed unless one is armed; a full queue is an  *)
(* error.                                                                  *)
Arm ==
  /\ Multishot
  /\ pc = "fill"
  /\ IF armed
       THEN sq' = sq /\ pc' = "enter"
       ELSE IF sq < cfg.uring.ring
              THEN sq' = sq + 1 /\ pc' = "enter"
              ELSE sq' = sq /\ pc' = "failed"
  /\ UNCHANGED <<cfg, sendVars, ring, kern, cq, content, taken, snap, pos, recycled, completed,
                 inflight, stillArmed, armed, ms, handled>>

(* io_uring_enter hands the queue to the kernel; with SQPOLL it only wakes *)
(* the thread.  It returns after some completions or 10 ms, or with an     *)
(* error that ends the loop.                                               *)
Enter ==
  /\ pc = "enter"
  /\ \/ /\ pc' = "drain"
        /\ IF cfg.uring.sqpoll
             THEN UNCHANGED <<sq, kern>>
             ELSE sq' = 0 /\ kern' = kern + sq
     \/ /\ cfg.faults
        /\ pc' = "failed"
        /\ UNCHANGED <<sq, kern>>
  /\ UNCHANGED <<cfg, sendVars, ring, cq, content, taken, snap, pos, recycled, completed, inflight,
                 stillArmed, armed, ms, handled>>

(* The iterator sees the completions that are there now.                   *)
BeginDrain ==
  /\ pc = "drain"
  /\ snap' = Len(cq)
  /\ pos' = 0
  /\ recycled' = <<>>
  /\ completed' = 0
  /\ stillArmed' = TRUE
  /\ pc' = "cqe"
  /\ UNCHANGED <<cfg, sendVars, kernelVars, inflight, armed, ms, handled>>

(* Bug: the last completion that was iterated over stays in the queue.     *)
ReleaseTooFew(n) == cq' = SubSeq(cq, IF n = 0 THEN 1 ELSE n, Len(cq))

(* Bug: the whole snapshot is released, whatever the loop got to see of it. *)
ReleaseSnapshot(n) == cq' = SubSeq(cq, snap + 1, Len(cq))

(* The iterator is dropped: the kernel gets back the slots of the          *)
(* completions that were iterated over, and only those.                    *)
ReleaseSlots(n) == cq' = SubSeq(cq, n + 1, Len(cq))

AtCqe == pc = "cqe" /\ pos < snap
Cqe == cq[pos + 1]
CqeMessage == content[Cqe.buf]
CqeResult == ParseResult(ms, CqeMessage)

(* Bug: a completion is counted by parse_received_bytes and by its caller.  *)
CountTwice == completed' = IF Provided THEN completed + 2 ELSE completed

(* completion_count: only the loop for provided buffers has one.           *)
Count == completed' = IF Provided THEN completed + 1 ELSE completed

(* Bug: ENOBUFS continues with the next completion before the flag is read. *)
NoteArmedUnlessError ==
  stillArmed' = IF Cqe.res = "ENOBUFS" THEN stillArmed ELSE stillArmed /\ Cqe.more

(* multishot_armed &= check_multishot_status(): one completion without     *)
(* MORE is enough.                                                         *)
NoteArmed == stillArmed' = IF Multishot THEN stillArmed /\ Cqe.more ELSE stillArmed

(* The complete function returns early with the buffers `bs' dropped: what *)
(* it counted and noted is lost, but all buffers reach the kernel again.   *)
EarlyReturn(bs) ==
  /\ ReleaseSlots(pos + 1)
  /\ ring' = ring \o recycled \o bs
  /\ snap' = 0
  /\ pos' = 0
  /\ recycled' = <<>>
  /\ completed' = 0
  /\ stillArmed' = TRUE
  /\ UNCHANGED <<inflight, armed>>

Parse ==
  /\ ms' = Parsed(ms, CqeMessage)
  /\ handled' = Append(handled, CqeMessage)

(* MEASUREMENT: the buffer goes back when `buf' is dropped.                *)
HandleData ==
  /\ AtCqe
  /\ Cqe.res = "bytes"
  /\ CqeResult = "OK"
  /\ Parse
  /\ Count
  /\ NoteArmed
  /\ recycled' = Append(recycled, Cqe.buf)
  /\ pos' = pos + 1
  /\ UNCHANGED <<cfg, sendVars, kernelVars, pc, snap, inflight, armed>>

(* ENOBUFS: counts as a completion, the next one follows.                  *)
HandleNoBuffer ==
  /\ AtCqe
  /\ Cqe.res = "ENOBUFS"
  /\ Count
  /\ NoteArmed
  /\ pos' = pos + 1
  /\ UNCHANGED <<cfg, sendVars, kernelVars, pc, snap, recycled, inflight, armed, ms, handled>>

(* INIT or LAST: both modes return early, unlike the normal one, which     *)
(* goes on after INIT.                                                     *)
HandleControl ==
  /\ AtCqe
  /\ Cqe.res = "bytes"
  /\ CqeResult \in {"INIT", "LAST"}
  /\ Parse
  /\ EarlyReturn(<<Cqe.buf>>)
  /\ pc' = IF CqeResult = "LAST" /\ AllFinished(ms') THEN "done" ELSE "fill"
  /\ UNCHANGED <<cfg, sendVars, sq, kern, content, taken>>

(* A test id out of range ends the run, a LAST of an unknown test panics.  *)
HandleBad ==
  /\ AtCqe
  /\ Cqe.res = "bytes"
  /\ CqeResult \in {"ERROR", "panic"}
  /\ Parse
  /\ EarlyReturn(<<Cqe.buf>>)
  /\ pc' = IF CqeResult = "panic" THEN "panicked" ELSE "failed"
  /\ UNCHANGED <<cfg, sendVars, sq, kern, content, taken>>

(* An error code: EAGAIN is counted and the loop goes on, anything else    *)
(* ends it.                                                                *)
HandleError ==
  /\ AtCqe
  /\ Cqe.res \in {"EAGAIN", "errno"}
  /\ EarlyReturn(<<>>)
  /\ pc' = IF Cqe.res = "EAGAIN" THEN "fill" ELSE "failed"
  /\ UNCHANGED <<cfg, sendVars, sq, kern, content, taken, ms, handled>>

(* The whole snapshot was handled: amount_inflight -= completed, or        *)
(* armed = multishot_armed.                                                *)
EndDrain ==
  /\ pc = "cqe"
  /\ pos = snap
  /\ ReleaseSlots(pos)
  /\ ring' = ring \o recycled
  /\ inflight' = inflight - completed
  /\ armed' = IF Multishot THEN stillArmed ELSE armed
  /\ recycled' = <<>>
  /\ completed' = 0
  /\ stillArmed' = TRUE
  /\ snap' = 0
  /\ pos' = 0
  /\ pc' = "fill"
  /\ UNCHANGED <<cfg, sendVars, sq, kern, content, taken, ms, handled>>

LoopStep ==
  \/ Fill \/ Arm \/ Enter \/ BeginDrain
  \/ HandleData \/ HandleNoBuffer \/ HandleControl \/ HandleBad \/ HandleError
  \/ EndDrain

KernelStep == SqThread \/ KernelReceive \/ KernelNoBuffer \/ KernelFail

Init ==
  /\ cfg \in Configs
  /\ progress = [t \in TestIds |-> 0]
  /\ sockq = <<>>
  /\ ring = [i \in 1 .. cfg.uring.buffer |-> i - 1]
  /\ sq = 0
  /\ kern = 0
  /\ cq = <<>>
  /\ content = [b \in Buffers |-> NoMessage]
  /\ pc = "fill"
  /\ snap = 0
  /\ pos = 0
  /\ recycled = <<>>
  /\ completed = 0
  /\ inflight = 0
  /\ stillArmed = TRUE
  /\ armed = FALSE
  /\ ms = <<>>
  /\ taken = <<>>
  /\ handled = <<>>

Next == LoopStep \/ KernelStep \/ \E t \in TestIds : Arrive(t)

Spec == Init /\ [][Next]_vars

(* The receiver thread and the kernel keep running, and the senders send   *)
(* all their messages.                                                     *)
FairSpec ==
  /\ Spec
  /\ WF_vars(LoopStep)
  /\ WF_vars(SqThread)
  /\ WF_vars(KernelReceive \/ KernelNoBuffer)
  /\ WF_vars(\E t \in TestIds : Arrive(t))
-----------------------------------------------------------------------------
Cqe_ == [buf : Buffers, res : {"bytes", "ENOBUFS", "EAGAIN", "errno"}, more : BOOLEAN]

(* Types; amount_inflight, an unsigned count, never goes below 0.          *)
TypeOK ==
  /\ cfg \in Configs
  /\ progress \in [TestIds -> Nat]
  /\ sockq \in Seq(Message)
  /\ ring \in Seq(Buffers) /\ recycled \in Seq(Buffers)
  /\ sq \in 0 .. cfg.uring.ring
  /\ kern \in Nat
  /\ cq \in Seq(Cqe_)
  /\ content \in [Buffers -> Message]
  /\ pc \in {"fill", "enter", "drain", "cqe", "done", "failed", "panicked"}
  /\ snap \in 0 .. Len(cq)
  /\ pos \in 0 .. snap
  /\ completed \in Nat /\ inflight \in Nat
  /\ stillArmed \in BOOLEAN /\ armed \in BOOLEAN
  /\ ms \in Seq(Measurement)
  /\ taken \in Seq(Message) /\ handled \in Seq(Message)

(* The completions whose message is not parsed yet.                        *)
Unparsed == Places(cq, pos, {"bytes"})

(* Every buffer is at every moment in exactly one place, the kernel's, the *)
(* loop's or a completion's: none leaks on an early return, none is given  *)
(* to the kernel while its message is still to be parsed.                  *)
EachBufferOnce ==
  /\ Len(ring) + Len(recycled) + Cardinality(Unparsed) = cfg.uring.buffer
  /\ ToSet(ring) \cup ToSet(recycled) \cup {cq[i].buf : i \in Unparsed} = Buffers

(* amount_inflight is never below the requests that are queued, with the   *)
(* kernel or completed but not released: an early return may let it drift  *)
(* up, never down.  So no more requests are in flight than buffers exist,  *)
(* and the completion queue (create_ring: "to avoid overflows") is large   *)
(* enough.                                                                 *)
InflightCovers ==
  Provided => sq + kern + Len(cq) <= inflight /\ inflight <= cfg.uring.buffer

(* With provided buffers no request ever finds the buffer ring empty, also *)
(* while given back buffers are not visible to the kernel yet: the         *)
(* completions the loop has iterated over still count as in flight.        *)
NeverOutOfBuffers == Provided => kern <= Len(ring)

(* Every datagram the kernel delivered is parsed, once, in order, and with *)
(* the content it had.                                                     *)
HandledInOrder == InOrder(Unparsed, [i \in Unparsed |-> content[cq[i].buf]], taken, handled)

(* A receiver that believes its multishot request armed has one armed, or  *)
(* will still read that it is not: an early return may lose the news of a  *)
(* disarmed request, but never of the last one, since nothing completes    *)
(* behind it.  (An EAGAIN completion is lost itself, hence ~faults.)       *)
NotDeaf ==
  Multishot /\ ~cfg.faults /\ pc = "fill" /\ armed =>
    sq + kern > 0 \/ \E i \in DOMAIN cq : ~cq[i].more

(* With one test, the loop ends once the test has sent LAST.  Provided     *)
(* buffers in Syscall mode are excepted: the completion of INIT is never   *)
(* subtracted from amount_inflight, and only at 0 does this mode submit.   *)
Terminates ==
  /\ Cardinality(cfg.tests) = 1
  /\ \A t \in cfg.tests : t < MaxTestId
  /\ ~cfg.faults
  /\ ~(Provided /\ cfg.uring.fill = "Syscall")
  => <>(pc = "done")
=============================================================================
