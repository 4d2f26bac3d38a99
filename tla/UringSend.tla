------------------------------ MODULE UringSend ------------------------------
(***************************************************************************)
(* The sender's io_uring loop (sender.rs: io_uring_loop,                   *)
(* io_uring_complete_send, io_uring_complete_send_zc; io_uring/send.rs;    *)
(* packet_buffer.rs).  Both modes stamp packet ids into message buffers    *)
(* and queue a send request for each.  In normal mode every round uses the *)
(* buffers from the first one on; a zero-copy request takes its buffer     *)
(* from the index pool, which gets it back with the notification that the  *)
(* kernel has done with it.  The kernel runs concurrently.                 *)
(***************************************************************************)
EXTENDS UringFill, UringQueues, Integers, Sequences, FiniteSets

CONSTANTS Configs, \* the command lines a behaviour may start with
          MaxId    \* bound: packet ids that are given out

ASSUME ConfigsAssumption ==
  \A c \in Configs :
    /\ c.uring \in UringParameter
    /\ c.zerocopy \in BOOLEAN
    /\ c.packets \in Nat \ {0}     \* packets_amount_per_msghdr
    /\ c.deferred \in BOOLEAN      \* the kernel may send after io_uring_enter (full send buffer)
    /\ c.faults \in BOOLEAN        \* requests may fail
    /\ c.notifyFailed \in BOOLEAN  \* a failed zero-copy request is notified, too

ASSUME MaxIdAssumption == MaxId \in Nat

VARIABLES cfg,       \* the command line, fixed
          nextId,    \* next_packet_id
          stamp,     \* the first packet id in each buffer
          pool,      \* packet_buffer.index_pool, a stack
          capacity,  \* capacity of this Vec
          sq,        \* submission queue: buffer and first id of each request
          kern,      \* requests the kernel has put off
          held,      \* zero-copy requests whose notification is outstanding
          cq,        \* completion queue, oldest first
          pc,        \* where the loop is
          snap,      \* completions that get_cq() saw
          pos,       \* completions of these already iterated over
          indexPool, \* io_uring_complete_send_zc's index_pool
          completed, \* completion_count
          inflight,  \* io_uring_loop's amount_inflight
          datagrams, \* statistic.amount_datagrams
          omitted,   \* statistic.amount_omitted_datagrams
          wire,      \* history: first ids in the order the kernel sent them
          dropped    \* history: first ids of the requests that failed

kernelVars == <<sq, kern, held, cq, wire, dropped>>
bufferVars == <<stamp, pool, capacity>>
countVars == <<inflight, datagrams, omitted>>
drainVars == <<snap, pos, indexPool, completed>>
vars == <<cfg, nextId, bufferVars, kernelVars, pc, drainVars, countVars>>

Buffers == 0 .. (cfg.uring.buffer - 1)
Request == [buf : Buffers, id : Nat]
Completion == [buf : Buffers, res : {"bytes", "EAGAIN", "errno", "notif"}]

(* get_pool_inflight(): capacity minus length.  In normal mode nothing is  *)
(* ever taken from the pool, so it is 0.                                   *)
PoolInflight == capacity - Len(pool)
-----------------------------------------------------------------------------
(* The kernel sends what the buffer holds at this moment, or the request   *)
(* fails.  A zero-copy buffer stays in use until its notification.         *)
Execute(r) ==
  \/ /\ wire' = Append(wire, stamp[r.buf])
     /\ cq' = Append(cq, [buf |-> r.buf, res |-> "bytes"])
     /\ held' = IF cfg.zerocopy THEN held \cup {r} ELSE held
     /\ UNCHANGED dropped
  \/ /\ cfg.faults
     /\ \E e \in {"EAGAIN", "errno"} : cq' = Append(cq, [buf |-> r.buf, res |-> e])
     /\ held' = IF cfg.zerocopy /\ cfg.notifyFailed THEN held \cup {r} ELSE held
     /\ dropped' = dropped \cup {r.id}
     /\ UNCHANGED wire

(* The kernel takes the oldest request off the queue, during               *)
(* io_uring_enter or with SQPOLL at any time, and sends it now or later.   *)
Issue ==
  /\ cfg.uring.sqpoll \/ pc = "enter"
  /\ sq # <<>>
  /\ sq' = Tail(sq)
  /\ \/ Execute(Head(sq)) /\ UNCHANGED kern
     \/ /\ cfg.deferred
        /\ kern' = kern \cup {Head(sq)}
        /\ UNCHANGED <<held, cq, wire, dropped>>
  /\ UNCHANGED <<cfg, nextId, bufferVars, pc, drainVars, countVars>>

(* A request that was put off is sent, in any order.                       *)
SendLater ==
  /\ \E r \in kern : kern' = kern \ {r} /\ Execute(r)
  /\ UNCHANGED <<cfg, nextId, bufferVars, sq, pc, drainVars, countVars>>

(* The notification of a zero-copy request: result 0, or                   *)
(* IORING_NOTIF_USAGE_ZC_COPIED, which is handled alike.                   *)
Notify ==
  /\ \E r \in held : held' = held \ {r} /\ cq' = Append(cq, [buf |-> r.buf, res |-> "notif"])
  /\ UNCHANGED <<cfg, nextId, bufferVars, sq, kern, wire, dropped, pc, drainVars, countVars>>
-----------------------------------------------------------------------------
Room == cfg.uring.ring - Len(sq)

(* What calc_sq_fill_mode allows, capped by the ids left.                  *)
Wanted ==
  LET n == ToSubmit(PoolInflight, Len(sq), cfg.uring)
      left == (MaxId - nextId) \div cfg.packets
  IN  IF n < left THEN n ELSE left

AfterFill ==
  pc' = IF SkipEnter(PoolInflight, Len(sq), cq = <<>>, cfg.uring) THEN "drain" ELSE "enter"

(* Bug: a request takes one id, however many packets it carries.           *)
AdvanceByRequest(n, pushed) ==
  /\ inflight' = inflight + pushed
  /\ nextId' = nextId + pushed

(* The loop counts what was submitted: n requests were wanted.             *)
Advance(n, pushed) ==
  /\ inflight' = inflight + pushed
  /\ nextId' = nextId + pushed * cfg.packets

(* submit(): stamps the first n buffers, whoever may still use them, and   *)
(* pushes a request for each until the queue is full.                      *)
FillNormal ==
  LET n == Wanted
      pushed == IF n < Room THEN n ELSE Room
  IN
  /\ ~cfg.zerocopy
  /\ pc = "fill"
  /\ stamp' = [b \in Buffers |-> IF b < n THEN nextId + b * cfg.packets ELSE stamp[b]]
  /\ sq' = sq \o [i \in 1 .. pushed |-> [buf |-> i - 1, id |-> nextId + (i - 1) * cfg.packets]]
  /\ Advance(n, pushed)
  /\ AfterFill
  /\ UNCHANGED <<cfg, pool, capacity, kern, held, cq, wire, dropped, drainVars, datagrams, omitted>>

(* submit_zc(): pops a buffer index, stamps the buffer and pushes, until   *)
(* the queue is full; the index whose push failed is not put back.  An     *)
(* empty pool is an error.                                                 *)
FillZc ==
  LET n == Wanted
      pushed == IF n < Room THEN n ELSE Room
      popped == IF n <= Room THEN n ELSE Room + 1
      Popped(i) == pool[Len(pool) + 1 - i]
      IdOf(i) == nextId + (i - 1) * cfg.packets
  IN
  /\ cfg.zerocopy
  /\ pc = "fill"
  /\ IF popped > Len(pool)
       THEN /\ pc' = "failed"
            /\ UNCHANGED <<nextId, stamp, pool, sq, inflight>>
       ELSE /\ pool' = SubSeq(pool, 1, Len(pool) - popped)
            /\ stamp' = [b \in Buffers |->
                           LET at == {i \in 1 .. popped : Popped(i) = b}
                           IN  IF at = {} THEN stamp[b]
                               ELSE IdOf(CHOOSE i \in at : \A j \in at : j <= i)]
            /\ sq' = sq \o [i \in 1 .. pushed |-> [buf |-> Popped(i), id |-> IdOf(i)]]
            /\ Advance(n, pushed)
            /\ AfterFill
  /\ UNCHANGED <<cfg, capacity, kern, held, cq, wire, dropped, drainVars, datagrams, omitted>>

(* io_uring_enter returns: without SQPOLL it has handed over the queue.    *)
EnterReturns ==
  /\ pc = "enter"
  /\ cfg.uring.sqpoll \/ sq = <<>>
  /\ pc' = "drain"
  /\ UNCHANGED <<cfg, nextId, bufferVars, kernelVars, drainVars, countVars>>

(* get_cq(): the iterator sees the completions that are there now.         *)
BeginDrain ==
  /\ pc = "drain"
  /\ snap' = Len(cq)
  /\ pos' = 0
  /\ indexPool' = <<>>
  /\ completed' = 0
  /\ pc' = "cqe"
  /\ UNCHANGED <<cfg, nextId, bufferVars, kernelVars, countVars>>

AtCqe == pc = "cqe" /\ pos < snap
Cqe == cq[pos + 1]

(* Bug: a buffer is taken for free when its packets were sent.             *)
ReturnsWhenSent(res) == res \in {"bytes", "EAGAIN", "notif"}

(* Bug: a request that would block keeps its buffer.                       *)
ReturnsUnlessBlocked(res) == res = "notif"

(* The completions that make a zero-copy buffer free again.                *)
Returns(res) == res \in {"EAGAIN", "notif"}

Collect ==
  indexPool' = IF cfg.zerocopy /\ Returns(Cqe.res) THEN Append(indexPool, Cqe.buf) ELSE indexPool

(* Bug: both completions of a zero-copy request count.                     *)
CompletesTwice(res) == res \in {"bytes", "notif"}

(* "Completion count should only be increased when the buffer is           *)
(* returned": with its notification, in normal mode when it was sent.      *)
Completes(res) == res = IF cfg.zerocopy THEN "notif" ELSE "bytes"

CountIt == completed' = IF Completes(Cqe.res) THEN completed + 1 ELSE completed

(* Bytes were sent.                                                        *)
HandleSent ==
  /\ AtCqe
  /\ Cqe.res = "bytes"
  /\ datagrams' = datagrams + cfg.packets
  /\ Collect
  /\ CountIt
  /\ pos' = pos + 1
  /\ UNCHANGED <<cfg, nextId, bufferVars, kernelVars, pc, snap, inflight, omitted>>

(* Bug: the packets of a request that would block are forgotten.           *)
OmitNothing == omitted' = omitted

(* The packets are not sent again, they count as omitted.                  *)
OmitRequest == omitted' = omitted + cfg.packets

(* EAGAIN: no completion is counted, a zero-copy buffer is free again.     *)
HandleAgain ==
  /\ AtCqe
  /\ Cqe.res = "EAGAIN"
  /\ OmitRequest
  /\ Collect
  /\ CountIt
  /\ pos' = pos + 1
  /\ UNCHANGED <<cfg, nextId, bufferVars, kernelVars, pc, snap, inflight, datagrams>>

(* The completion with NOTIF and without MORE.                             *)
HandleNotif ==
  /\ AtCqe
  /\ Cqe.res = "notif"
  /\ Collect
  /\ CountIt
  /\ pos' = pos + 1
  /\ UNCHANGED <<cfg, nextId, bufferVars, kernelVars, pc, snap, countVars>>

(* Any other error ends the measurement.                                   *)
HandleFatal ==
  /\ AtCqe
  /\ Cqe.res = "errno"
  /\ pc' = "failed"
  /\ UNCHANGED <<cfg, nextId, bufferVars, kernelVars, drainVars, countVars>>

(* The Vec doubles when it has to grow.                                    *)
Grown(len) ==
  IF len <= capacity THEN capacity ELSE IF len < 2 * capacity THEN 2 * capacity ELSE len

(* The snapshot was handled: slots released, completions counted, and      *)
(* return_buffer_index() appends, so that the last index is the next used. *)
EndDrain ==
  /\ pc = "cqe"
  /\ pos = snap
  /\ cq' = SubSeq(cq, pos + 1, Len(cq))
  /\ pool' = pool \o indexPool
  /\ capacity' = Grown(Len(pool'))
  /\ inflight' = inflight - completed
  /\ snap' = 0
  /\ pos' = 0
  /\ indexPool' = <<>>
  /\ completed' = 0
  /\ pc' = "fill"
  /\ UNCHANGED <<cfg, nextId, stamp, sq, kern, held, wire, dropped, datagrams, omitted>>

(* The run time is over: what is still in flight is not waited for.        *)
Stop ==
  /\ pc = "fill"
  /\ pc' = "done"
  /\ UNCHANGED <<cfg, nextId, bufferVars, kernelVars, drainVars, countVars>>

LoopStep ==
  \/ FillNormal \/ FillZc \/ EnterReturns \/ BeginDrain
  \/ HandleSent \/ HandleAgain \/ HandleNotif \/ HandleFatal
  \/ EndDrain

KernelStep == Issue \/ SendLater \/ Notify

Init ==
  /\ cfg \in Configs
  /\ nextId = 0
  /\ stamp = [b \in Buffers |-> 0]
  /\ pool = [i \in 1 .. cfg.uring.buffer |-> i - 1]
  /\ capacity = cfg.uring.buffer
  /\ sq = <<>>
  /\ kern = {}
  /\ held = {}
  /\ cq = <<>>
  /\ pc = "fill"
  /\ snap = 0
  /\ pos = 0
  /\ indexPool = <<>>
  /\ completed = 0
  /\ inflight = 0
  /\ datagrams = 0
  /\ omitted = 0
  /\ wire = <<>>
  /\ dropped = {}

Next == LoopStep \/ KernelStep \/ Stop

Spec == Init /\ [][Next]_vars

(* The thread runs until it is stopped, which need not happen, and the     *)
(* kernel sends and notifies.                                              *)
FairSpec ==
  /\ Spec
  /\ WF_vars(LoopStep)
  /\ WF_vars(Issue)
  /\ WF_vars(SendLater)
  /\ WF_vars(Notify)
-----------------------------------------------------------------------------
(* Types; amount_inflight, an unsigned count, never goes below 0.          *)
TypeOK ==
  /\ cfg \in Configs
  /\ nextId \in Nat
  /\ stamp \in [Buffers -> Nat]
  /\ pool \in Seq(Buffers) /\ indexPool \in Seq(Buffers)
  /\ capacity \in Nat
  /\ Len(pool) <= capacity
  /\ sq \in Seq(Request) /\ Len(sq) <= cfg.uring.ring
  /\ kern \subseteq Request /\ held \subseteq Request
  /\ cq \in Seq(Completion)
  /\ pc \in {"fill", "enter", "drain", "cqe", "done", "failed"}
  /\ snap \in 0 .. Len(cq)
  /\ pos \in 0 .. snap
  /\ completed \in Nat /\ inflight \in Nat /\ datagrams \in Nat /\ omitted \in Nat
  /\ wire \in Seq(Nat) /\ dropped \subseteq Nat

Running == pc \notin {"done", "failed"}
Unhandled(results) == Places(cq, pos, results)

(* The sender's report is complete: the packets it counts as sent or as    *)
(* omitted, and those of the requests it has not heard of, are all the ids *)
(* it has given out, whatever the order of completions.  (What a stopped   *)
(* sender reports falls short by the requests still in flight.)            *)
SendLedger ==
  nextId = datagrams + omitted
             + cfg.packets * (Len(sq) + Cardinality(kern)
                                + Cardinality(Unhandled({"bytes", "EAGAIN", "errno"})))

(* The configurations in which a buffer is not stamped again while it is   *)
(* in use: zero-copy, as long as a failed request is not notified as well  *)
(* (its buffer would be returned twice), and the normal mode if every      *)
(* request is sent before io_uring_enter returns.                          *)
Guarded ==
  IF cfg.zerocopy THEN ~(cfg.faults /\ cfg.notifyFailed)
                  ELSE ~cfg.uring.sqpoll /\ ~cfg.deferred

(* "we need to know which buffers can be reused" (packet_buffer.rs:10): as *)
(* long as the kernel may read a buffer, it holds the ids it was queued    *)
(* with.                                                                   *)
BuffersStable == \A r \in ToSet(sq) \cup kern \cup held : stamp[r.buf] = r.id
StableIfGuarded == Guarded => BuffersStable

(* Every id given out is on the wire, on its way there or failed, exactly  *)
(* once: none is sent twice and none is lost between two rounds.           *)
IdsAccounted ==
  LET underway == {r.id : r \in ToSet(sq) \cup kern}
  IN
  Guarded =>
    /\ Len(wire) + Len(sq) + Cardinality(kern) + Cardinality(dropped) = nextId \div cfg.packets
    /\ ToSet(wire) \cup underway \cup dropped = {i \in 0 .. nextId - 1 : i % cfg.packets = 0}

(* A zero-copy buffer is in exactly one place: the pool, a request, or a   *)
(* completion that returns it.  In particular no push fails, which would   *)
(* leak the index, and the pool never runs dry in a submission.            *)
EachBufferOnce ==
  LET back == Unhandled({"notif", "EAGAIN", "errno"})
  IN
  cfg.zerocopy /\ Guarded =>
    /\ Len(pool) + Len(indexPool) + Len(sq) + Cardinality(kern) + Cardinality(held)
         + Cardinality(back) = cfg.uring.buffer
    /\ ToSet(pool) \cup ToSet(indexPool) \cup {r.buf : r \in ToSet(sq) \cup kern \cup held}
         \cup {cq[i].buf : i \in back} = Buffers

(* A buffer that a zero-copy request took gets back to the pool as long as *)
(* the sender runs.                                                        *)
BuffersReturn ==
  \A b \in UNION {0 .. c.uring.buffer - 1 : c \in Configs} :
    cfg.zerocopy /\ b \in Buffers /\ b \notin ToSet(pool) ~> (b \in ToSet(pool) \/ ~Running)
=============================================================================
