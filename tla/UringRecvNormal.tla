--------------------------- MODULE UringRecvNormal ---------------------------
(***************************************************************************)
(* The receiver's io_uring loop in normal mode (receiver.rs: io_uring_loop *)
(* and io_uring_complete_normal; io_uring/normal.rs; packet_buffer.rs).    *)
(* Every receive request owns one message buffer: it is taken from the     *)
(* index pool, pushed on the submission queue, filled by the kernel with a *)
(* datagram, found again through its completion, and given back when the   *)
(* completion queue has been drained.  The kernel runs concurrently.       *)
(***************************************************************************)
EXTENDS Measurements, UringFill, UringQueues, Integers, FiniteSets

CONSTANTS Configs, \* the command lines a behaviour may start with
          Data     \* bound: MEASUREMENT messages of a test

ASSUME ConfigsAssumption ==
  \A c \in Configs :
    /\ c.uring \in UringParameter
    /\ c.tests \subseteq Nat  \* ids of the tests sent to this receiver
    /\ c.faults \in BOOLEAN   \* datagrams may be lost, requests may fail

VARIABLES cfg,       \* the command line, fixed
          progress,  \* per test, the messages its sender has sent
          sockq,     \* messages in the receiver's socket
          pool,      \* packet_buffer.index_pool
          sq,        \* buffers of the requests in the submission queue
          kern,      \* buffers of the requests the kernel works on
          cq,        \* completion queue, oldest first
          content,   \* the message in each buffer
          pc,        \* where the loop is
          snap,      \* completions that get_cq() saw
          pos,       \* completions of these already iterated over
          indexPool, \* io_uring_complete_normal's index_pool
          completed, \* its completion_count
          inflight,  \* io_uring_loop's amount_inflight
          ms,        \* measurements
          taken,     \* history: messages in the order the kernel received them
          handled    \* history: messages in the order the loop parsed them

ringVars == <<sq, kern, cq, content, taken>>
loopVars == <<pool, pc, snap, pos, indexPool, completed, inflight, ms, handled>>
sendVars == <<progress, sockq>>
vars == <<cfg, sendVars, ringVars, loopVars>>

Buffers == 0 .. (cfg.uring.buffer - 1)
TestIds == cfg.tests

(* The messages of a test: INIT, then its data, then LAST.                 *)
NthMessage(t, n) ==
  [type |-> IF n = 0 THEN "INIT" ELSE IF n <= Data THEN "MEASUREMENT" ELSE "LAST",
   test |-> t]

NoMessage == [type |-> "MEASUREMENT", test |-> 0]

(* get_pool_inflight(): capacity minus length of the pool.                 *)
PoolInflight == cfg.uring.buffer - Cardinality(pool)
-----------------------------------------------------------------------------
(* A datagram of test t arrives, or is lost on the way; each test's        *)
(* datagrams keep their order.                                             *)
Arrive(t) ==
  /\ progress[t] < Data + 2
  /\ \/ sockq' = Append(sockq, NthMessage(t, progress[t]))
     \/ cfg.faults /\ UNCHANGED sockq
  /\ progress' = [progress EXCEPT ![t] = @ + 1]
  /\ UNCHANGED <<cfg, ringVars, loopVars>>

(* The kernel thread of SQPOLL takes requests off the queue by itself.     *)
SqThread ==
  /\ cfg.uring.sqpoll
  /\ \E b \in sq : sq' = sq \ {b} /\ kern' = kern \cup {b}
  /\ UNCHANGED <<cfg, sendVars, cq, content, taken, loopVars>>

(* A request receives the oldest datagram and completes.                   *)
KernelReceive ==
  /\ sockq # <<>>
  /\ \E b \in kern :
       /\ kern' = kern \ {b}
       /\ content' = [content EXCEPT ![b] = Head(sockq)]
       /\ cq' = Append(cq, [buf |-> b, res |-> "bytes"])
  /\ taken' = Append(taken, Head(sockq))
  /\ sockq' = Tail(sockq)
  /\ UNCHANGED <<cfg, progress, sq, loopVars>>

(* A request completes with EAGAIN or another negated error code.  The two *)
(* codes that parse_received_bytes takes for success cannot occur here:    *)
(* ENOBUFS needs provided buffers, EMSGSIZE a send.                        *)
KernelFail ==
  /\ cfg.faults
  /\ \E b \in kern, e \in {"EAGAIN", "errno"} :
       /\ kern' = kern \ {b}
       /\ cq' = Append(cq, [buf |-> b, res |-> e])
  /\ UNCHANGED <<cfg, sendVars, sq, content, taken, loopVars>>
-----------------------------------------------------------------------------
(* fill_sq_and_submit up to io_uring_enter: take buffers from the pool and *)
(* push a request for each.  A full queue ends the loop, an empty pool is  *)
(* an error.                                                               *)
Fill ==
  LET p == cfg.uring
      n == ToSubmit(PoolInflight, Cardinality(sq), p)
      room == p.ring - Cardinality(sq)
  IN
  /\ pc = "fill"
  /\ IF n > Cardinality(pool)
       THEN /\ pc' = "failed"
            /\ UNCHANGED <<pool, sq, inflight>>
       ELSE /\ \E B \in SUBSET pool :
                 /\ Cardinality(B) = (IF n < room THEN n ELSE room)
                 /\ pool' = pool \ B
                 /\ sq' = sq \cup B
                 /\ inflight' = inflight + Cardinality(B)
            /\ pc' = IF SkipEnter(PoolInflight, Cardinality(sq), cq = <<>>, p)
                       THEN "drain" ELSE "enter"
  /\ UNCHANGED <<cfg, sendVars, kern, cq, content, taken, snap, pos, indexPool, completed, ms,
                 handled>>

(* io_uring_enter hands the queue to the kernel; with SQPOLL it only wakes *)
(* the thread.  It returns after min_complete completions or 10 ms, so     *)
(* whatever the kernel does meanwhile.  An error ends the loop.            *)
Enter ==
  /\ pc = "enter"
  /\ \/ /\ pc' = "drain"
        /\ IF cfg.uring.sqpoll
             THEN UNCHANGED <<sq, kern>>
             ELSE sq' = {} /\ kern' = kern \cup sq
     \/ /\ cfg.faults
        /\ pc' = "failed"
        /\ UNCHANGED <<sq, kern>>
  /\ UNCHANGED <<cfg, sendVars, cq, content, taken, pool, snap, pos, indexPool, completed,
                 inflight, ms, handled>>

(* get_cq(): the iterator sees the completions that are there now.         *)
BeginDrain ==
  /\ pc = "drain"
  /\ snap' = Len(cq)
  /\ pos' = 0
  /\ indexPool' = {}
  /\ completed' = 0
  /\ pc' = "cqe"
  /\ UNCHANGED <<cfg, sendVars, ringVars, pool, inflight, ms, handled>>

(* Bug: the last completion that was iterated over stays in the queue.     *)
ReleaseTooFew(n) == cq' = SubSeq(cq, IF n = 0 THEN 1 ELSE n, Len(cq))

(* Bug: the whole snapshot is released, whatever the loop got to see of it. *)
ReleaseSnapshot(n) == cq' = SubSeq(cq, snap + 1, Len(cq))

(* The iterator is dropped: the kernel gets back the slots of the          *)
(* completions that were iterated over, and only those.                    *)
ReleaseSlots(n) == cq' = SubSeq(cq, n + 1, Len(cq))

(* A completion is at hand.                                                *)
AtCqe == pc = "cqe" /\ pos < snap
Cqe == cq[pos + 1]
CqeMessage == content[Cqe.buf]
CqeResult == ParseResult(ms, CqeMessage)

(* Bug: a completion is counted by parse_received_bytes and by its caller.  *)
CountTwice == completed' = completed + 2

(* parse_received_bytes: a completion without an error counts.             *)
Count == completed' = completed + 1

(* Bug: the buffer of an INIT message is not collected.                    *)
CollectUnlessInit ==
  indexPool' = IF CqeResult = "INIT" THEN indexPool ELSE indexPool \cup {Cqe.buf}

(* The buffer is to be returned to the pool, also that of an INIT message. *)
Collect == indexPool' = indexPool \cup {Cqe.buf}

(* io_uring_complete_normal returns early; what it collected is dropped.   *)
EarlyReturn ==
  /\ ReleaseSlots(pos + 1)
  /\ snap' = 0
  /\ pos' = 0
  /\ indexPool' = {}
  /\ completed' = 0

Parse ==
  /\ ms' = Parsed(ms, CqeMessage)
  /\ handled' = Append(handled, CqeMessage)

(* INIT or MEASUREMENT: the completion counts, its buffer is to be         *)
(* returned.                                                               *)
HandleData ==
  /\ AtCqe
  /\ Cqe.res = "bytes"
  /\ CqeResult \in {"INIT", "OK"}
  /\ Parse
  /\ Count
  /\ Collect
  /\ pos' = pos + 1
  /\ UNCHANGED <<cfg, sendVars, ringVars, pool, pc, snap, inflight>>

(* LAST: the loop ends if all measurements are finished.                   *)
HandleLast ==
  /\ AtCqe
  /\ Cqe.res = "bytes"
  /\ CqeResult = "LAST"
  /\ Parse
  /\ EarlyReturn
  /\ pc' = IF AllFinished(ms') THEN "done" ELSE "fill"
  /\ UNCHANGED <<cfg, sendVars, sq, kern, content, taken, pool, inflight>>

(* A test id out of range ends the run, a LAST of an unknown test panics.  *)
HandleBad ==
  /\ AtCqe
  /\ Cqe.res = "bytes"
  /\ CqeResult \in {"ERROR", "panic"}
  /\ Parse
  /\ EarlyReturn
  /\ pc' = IF CqeResult = "panic" THEN "panicked" ELSE "failed"
  /\ UNCHANGED <<cfg, sendVars, sq, kern, content, taken, pool, inflight>>

(* parse_received_bytes found an error code: EAGAIN is counted and the     *)
(* loop goes on, anything else ends it.                                    *)
HandleError ==
  /\ AtCqe
  /\ Cqe.res # "bytes"
  /\ EarlyReturn
  /\ pc' = IF Cqe.res = "EAGAIN" THEN "fill" ELSE "failed"
  /\ UNCHANGED <<cfg, sendVars, sq, kern, content, taken, pool, inflight, ms, handled>>

(* return_buffer_index, and amount_inflight -= completed.                  *)
EndDrain ==
  /\ pc = "cqe"
  /\ pos = snap
  /\ ReleaseSlots(pos)
  /\ pool' = pool \cup indexPool
  /\ inflight' = inflight - completed
  /\ indexPool' = {}
  /\ completed' = 0
  /\ snap' = 0
  /\ pos' = 0
  /\ pc' = "fill"
  /\ UNCHANGED <<cfg, sendVars, sq, kern, content, taken, ms, handled>>

LoopStep ==
  \/ Fill \/ Enter \/ BeginDrain
  \/ HandleData \/ HandleLast \/ HandleBad \/ HandleError
  \/ EndDrain

KernelStep == SqThread \/ KernelReceive \/ KernelFail

Init ==
  /\ cfg \in Configs
  /\ progress = [t \in TestIds |-> 0]
  /\ sockq = <<>>
  /\ pool = Buffers
  /\ sq = {}
  /\ kern = {}
  /\ cq = <<>>
  /\ content = [b \in Buffers |-> NoMessage]
  /\ pc = "fill"
  /\ snap = 0
  /\ pos = 0
  /\ indexPool = {}
  /\ completed = 0
  /\ inflight = 0
  /\ ms = <<>>
  /\ taken = <<>>
  /\ handled = <<>>

Next == LoopStep \/ KernelStep \/ \E t \in TestIds : Arrive(t)

Spec == Init /\ [][Next]_vars

(* The receiver thread and the kernel keep running, and the senders send   *)
(* all their messages.                                                     *)
FairSpec ==
  /\ Spec
  /\ WF_vars(LoopStep)
  /\ WF_vars(SqThread)
  /\ WF_vars(KernelReceive)
  /\ WF_vars(\E t \in TestIds : Arrive(t))
-----------------------------------------------------------------------------
Cqe_ == [buf : Buffers, res : {"bytes", "EAGAIN", "errno"}]

TypeOK ==
  /\ cfg \in Configs
  /\ progress \in [TestIds -> Nat]
  /\ sockq \in Seq(Message)
  /\ pool \subseteq Buffers /\ sq \subseteq Buffers /\ kern \subseteq Buffers
  /\ indexPool \subseteq Buffers
  /\ cq \in Seq(Cqe_)
  /\ content \in [Buffers -> Message]
  /\ pc \in {"fill", "enter", "drain", "cqe", "done", "failed", "panicked"}
  /\ snap \in 0 .. Len(cq)
  /\ pos \in 0 .. snap
  /\ completed \in Nat
  /\ inflight \in Nat
  /\ ms \in Seq(Measurement)
  /\ taken \in Seq(Message) /\ handled \in Seq(Message)

(* The buffers that completions in the queue refer to.                     *)
CqBuffers == {cq[i].buf : i \in DOMAIN cq}

(* A buffer is free, or queued, or with the kernel, or belongs to exactly  *)
(* one completion: the kernel never writes to a buffer the loop reads.     *)
SingleOwner ==
  /\ pool \cap sq = {} /\ pool \cap kern = {} /\ sq \cap kern = {}
  /\ CqBuffers \cap (pool \cup sq \cup kern) = {}
  /\ \A i, j \in DOMAIN cq : cq[i].buf = cq[j].buf => i = j

(* submit() never fails for want of a buffer: what calc_sq_fill_mode       *)
(* allows is always in the pool.                                           *)
NoExhaustion ==
  pc = "fill" => ToSubmit(PoolInflight, Cardinality(sq), cfg.uring) <= Cardinality(pool)

(* The completion queue is made for as many completions as there are       *)
(* buffers (create_ring: "to avoid overflows"): the requests that have     *)
(* completed or still may, never exceed that.                              *)
NoOverflow == Cardinality(kern) + Len(cq) <= cfg.uring.buffer

(* The loop's own count of requests in flight and the one derived from the *)
(* pool never disagree between two rounds (the first is reported, and may  *)
(* not underflow; the second drives the submissions).                      *)
CountersAgree == pc = "fill" => inflight = PoolInflight

(* The completions whose message is not parsed yet.                        *)
Unparsed == Places(cq, pos, {"bytes"})

(* Every datagram the kernel delivered is parsed, once, in order, and with *)
(* the content it had: neither an early return nor the release of queue    *)
(* slots skips or repeats a completion.                                    *)
HandledInOrder == InOrder(Unparsed, [i \in Unparsed |-> content[cq[i].buf]], taken, handled)

(* Every buffer of a running loop is in the pool or on its way back to it. *)
AllReturned ==
  pc \in {"fill", "enter", "drain", "cqe"} =>
    Buffers = pool \cup sq \cup kern \cup CqBuffers

(* As long as no request fails and no test ends, no path through the loop  *)
(* loses a buffer.                                                         *)
NoLeakBeforeLast ==
  ~cfg.faults /\ (\A i \in DOMAIN handled : handled[i].type # "LAST") => AllReturned

(* "Returns used buffers to the buffer ring" (receiver.rs:259), also when  *)
(* the first of several tests ends.                                        *)
NoLeak == ~cfg.faults => AllReturned

(* With one test, the loop ends once the test has sent LAST, in every fill *)
(* mode that submits requests at all.                                      *)
Terminates ==
  /\ Cardinality(cfg.tests) = 1
  /\ \A t \in cfg.tests : t < MaxTestId
  /\ ~cfg.faults
  /\ cfg.uring.fill = "Syscall" => cfg.uring.burst > 0
  => <>(pc = "done")
=============================================================================
