----------------------- MODULE UringRecvBuffers_proof -----------------------
(***************************************************************************)
(* Proofs about UringRecvBuffers for every ring, number of buffers, burst, *)
(* fill mode, set of tests, and number of messages.                        *)
(***************************************************************************)
EXTENDS UringRecvBuffers, CommonLemmas, FiniteSetTheorems, SequenceTheorems, TLAPS

(* The books of the loop.  The third line of Safe weighs the buffers the   *)
(* kernel will get, as they are now and when the drain ends, against the   *)
(* requests that need one: it does not mention what the completions carry. *)
Requests == sq + kern
Demand == cfg.uring.buffer + pos + Requests
Supply == Len(ring) + Len(recycled) + inflight

Safe ==
  /\ Requests + Len(cq) <= inflight
  /\ inflight <= cfg.uring.buffer
  /\ Demand <= Supply

NoneFailed == \A i \in 1 .. Len(cq) : cq[i].res # "ENOBUFS"

Books ==
  /\ pc # "cqe" => pos = 0
  /\ completed = IF Provided THEN pos ELSE 0
  /\ Len(recycled) <= pos
  /\ Provided => Safe /\ NoneFailed

Inv == TypeOK /\ Books
-----------------------------------------------------------------------------
(* What the books are about are natural numbers.                           *)
Numbers ==
  /\ cfg.uring.buffer \in Nat /\ Requests \in Nat /\ inflight \in Nat
  /\ Len(ring) \in Nat /\ Len(recycled) \in Nat /\ Len(cq) \in Nat
  /\ pos \in Nat /\ pos <= Len(cq)

LEMMA Parameter ==
  ASSUME cfg \in Configs
  PROVE  /\ cfg.uring.ring \in Nat \ {0} /\ cfg.uring.burst \in Nat /\ cfg.uring.buffer \in Nat \ {0}
         /\ cfg.uring.burst <= cfg.uring.ring /\ cfg.uring.ring <= cfg.uring.buffer
         /\ cfg.mode \in {"ProvidedBuffer", "Multishot"}
         /\ cfg.tests \subseteq Nat
<1>1. /\ cfg.uring.ring \in Nat \ {0} /\ cfg.uring.burst \in Nat /\ cfg.uring.buffer \in Nat
      /\ cfg.uring.burst <= cfg.uring.ring /\ cfg.uring.ring <= cfg.uring.buffer
  BY ConfigsAssumption DEF UringParameter
<1>2. cfg.mode \in {"ProvidedBuffer", "Multishot"} /\ cfg.tests \subseteq Nat  BY ConfigsAssumption
<1> QED BY <1>1, <1>2

LEMMA NumbersHold ==
  ASSUME TypeOK
  PROVE  /\ Numbers
         /\ sq \in Nat /\ sq <= cfg.uring.ring /\ kern \in Nat /\ completed \in Nat
         /\ snap \in Nat /\ pos <= snap /\ snap <= Len(cq)
<1>1. Len(cq) \in Nat /\ Len(ring) \in Nat /\ Len(recycled) \in Nat  BY LenProperties DEF TypeOK
<1>2. cfg.uring.ring \in Nat /\ cfg.uring.buffer \in Nat  BY Parameter DEF TypeOK
<1>3. sq \in Nat /\ sq <= cfg.uring.ring /\ kern \in Nat  BY <1>2 DEF TypeOK
<1>4. snap \in Nat /\ pos \in Nat /\ pos <= snap /\ snap <= Len(cq)  BY <1>1 DEF TypeOK
<1>5. Requests \in Nat  BY <1>3 DEF Requests
<1> QED BY <1>1, <1>2, <1>3, <1>4, <1>5 DEF TypeOK, Numbers

(* The completion the loop is at.                                          *)
LEMMA AtCompletion ==
  ASSUME TypeOK, AtCqe
  PROVE  /\ pos + 1 \in 1 .. Len(cq) /\ Cqe = cq[pos + 1] /\ Cqe \in Cqe_ /\ CqeMessage \in Message
         /\ Cqe.buf \in Buffers /\ pos < snap
<1>1. pos + 1 \in 1 .. Len(cq) /\ pos < snap  BY NumbersHold DEF AtCqe, Numbers
<1>2. cq[pos + 1] \in Cqe_  BY <1>1, ElementOfSeq DEF TypeOK
<1>3. Cqe.buf \in Buffers  BY <1>2 DEF Cqe, Cqe_
<1> QED BY <1>1, <1>2, <1>3 DEF Cqe, CqeMessage, TypeOK

LEMMA AppendCompletion ==
  ASSUME NEW q \in Seq(Cqe_), NEW c \in Cqe_
  PROVE  /\ Append(q, c) \in Seq(Cqe_)
         /\ Len(Append(q, c)) = Len(q) + 1
         /\ \A i \in 1 .. Len(q) : Append(q, c)[i] = q[i]
         /\ Append(q, c)[Len(q) + 1] = c
BY AppendProperties

LEMMA Release ==
  ASSUME cq \in Seq(Cqe_), NEW n \in 0 .. Len(cq), ReleaseSlots(n)
  PROVE  /\ cq' \in Seq(Cqe_)
         /\ Len(cq') = Len(cq) - n
         /\ \A i \in 1 .. (Len(cq) - n) : cq'[i] = cq[n + i]
<1>1. Len(cq) \in Nat /\ \A i \in 1 .. Len(cq) : cq[i] \in Cqe_  BY LenProperties, ElementOfSeq
<1>2. n + 1 \in Int /\ Len(cq) \in Int /\ \A i \in (n + 1) .. Len(cq) : cq[i] \in Cqe_  BY <1>1
<1>3. /\ SubSeq(cq, n + 1, Len(cq)) \in Seq(Cqe_)
      /\ Len(SubSeq(cq, n + 1, Len(cq))) = IF n + 1 <= Len(cq) THEN Len(cq) - (n + 1) + 1 ELSE 0
      /\ \A i \in 1 .. (Len(cq) - (n + 1) + 1) :
           SubSeq(cq, n + 1, Len(cq))[i] = cq[(n + 1) + i - 1]
  BY <1>2, SubSeqProperties
<1> QED BY <1>1, <1>3 DEF ReleaseSlots

(* A release brings no ENOBUFS into the queue.                             *)
LEMMA ReleaseKeepsClean ==
  ASSUME TypeOK, NEW n \in 0 .. Len(cq), ReleaseSlots(n),
         \A i \in 1 .. Len(cq) : cq[i].res # "ENOBUFS"
  PROVE  \A i \in 1 .. Len(cq') : cq'[i].res # "ENOBUFS"
<1>1. /\ Len(cq) \in Nat /\ Len(cq') = Len(cq) - n
      /\ \A i \in 1 .. (Len(cq) - n) : cq'[i] = cq[n + i]
  BY NumbersHold, Release DEF TypeOK, Numbers
<1> SUFFICES ASSUME NEW i \in 1 .. Len(cq') PROVE cq'[i].res # "ENOBUFS"
  OBVIOUS
<1>2. n + i \in 1 .. Len(cq) /\ i \in 1 .. (Len(cq) - n)  BY <1>1
<1>3. cq'[i] = cq[n + i]  BY <1>1, <1>2
<1> QED BY <1>2, <1>3

LEMMA Joined ==
  ASSUME NEW a \in Seq(Buffers), NEW b \in Seq(Buffers)
  PROVE  a \o b \in Seq(Buffers) /\ Len(a \o b) = Len(a) + Len(b)
BY ConcatProperties
-----------------------------------------------------------------------------
(* A step that moves the books by given amounts.                           *)

LEMMA DemandMoves ==
  ASSUME cfg.uring.buffer \in Nat, pos \in Nat, Requests \in Nat, UNCHANGED cfg,
         NEW p \in Int, NEW n \in Int, pos' = pos + p, Requests' = Requests + n
  PROVE  Demand \in Nat /\ Demand' = Demand + (p + n)
BY DEF Demand

LEMMA SupplyMoves ==
  ASSUME Len(ring) \in Nat, Len(recycled) \in Nat, inflight \in Nat,
         NEW r \in Int, NEW c \in Int, NEW i \in Int,
         Len(ring') = Len(ring) + r, Len(recycled') = Len(recycled) + c, inflight' = inflight + i
  PROVE  Supply \in Nat /\ Supply' = Supply + (r + c + i)
BY DEF Supply

Moved(p, n, q, r, c, i) ==
  /\ pos' = pos + p /\ Requests' = Requests + n /\ Len(cq') = Len(cq) + q
  /\ Len(ring') = Len(ring) + r /\ Len(recycled') = Len(recycled) + c /\ inflight' = inflight + i

Balanced(p, n, q, r, c, i) ==
  /\ {p, n, q, r, c, i} \subseteq Int
  /\ n + q <= i /\ inflight + i <= cfg.uring.buffer
  /\ p + n <= r + c + i

LEMMA SafeMoves ==
  ASSUME Numbers, Safe, UNCHANGED cfg, NEW p, NEW n, NEW q, NEW r, NEW c, NEW i,
         Moved(p, n, q, r, c, i), Balanced(p, n, q, r, c, i)
  PROVE  Safe'
<1>0. /\ p \in Int /\ n \in Int /\ q \in Int /\ r \in Int /\ c \in Int /\ i \in Int
      /\ n + q <= i /\ inflight + i <= cfg.uring.buffer /\ p + n <= r + c + i
  BY DEF Balanced
<1>1. /\ pos' = pos + p /\ Requests' = Requests + n /\ Len(cq') = Len(cq) + q
      /\ Len(ring') = Len(ring) + r /\ Len(recycled') = Len(recycled) + c /\ inflight' = inflight + i
  BY DEF Moved
<1>2. Requests' + Len(cq') <= inflight'
  <2>1. Requests + Len(cq) <= inflight  BY DEF Safe
  <2> QED BY <1>0, <1>1, <2>1 DEF Numbers
<1>3. inflight' <= cfg.uring.buffer'  BY <1>0, <1>1
<1>4. Demand \in Nat /\ Demand' = Demand + (p + n)  BY <1>0, <1>1, DemandMoves DEF Numbers
<1>5. Supply \in Nat /\ Supply' = Supply + (r + c + i)  BY <1>0, <1>1, SupplyMoves, ZenonT(60) DEF Numbers
<1>6. Demand <= Supply  BY DEF Safe
<1>7. Demand' <= Supply'  BY <1>0, <1>4, <1>5, <1>6
<1> QED BY <1>2, <1>3, <1>7 DEF Safe

(* A request becomes a completion that is not ENOBUFS, with or without a    *)
(* buffer.                                                                 *)
LEMMA CompletionBooks ==
  ASSUME Inv, NEW c \in Cqe_, Provided => c.res # "ENOBUFS", cq' = Append(cq, c),
         Provided => Requests' = Requests - 1,
         Len(ring') \in {Len(ring), Len(ring) - 1}, UNCHANGED <<cfg, loopVars>>
  PROVE  Books' /\ cq' \in Seq(Cqe_) /\ snap' \in 0 .. Len(cq')
<1>a. TypeOK /\ Books /\ Numbers  BY NumbersHold DEF Inv
<1>1. /\ cq' \in Seq(Cqe_) /\ Len(cq') = Len(cq) + 1
      /\ \A i \in 1 .. Len(cq) : cq'[i] = cq[i]
      /\ cq'[Len(cq) + 1] = c
  BY <1>a, AppendCompletion DEF TypeOK
<1>2. UNCHANGED <<pc, snap, pos, recycled, completed, inflight>>  BY DEF loopVars
<1>3. snap' \in 0 .. Len(cq')  BY <1>a, <1>1, <1>2 DEF TypeOK, Numbers
<1>4. ASSUME Provided PROVE NoneFailed'
  <2>1. NoneFailed /\ Len(cq) \in Nat  BY <1>a, <1>4 DEF Books, Numbers
  <2> SUFFICES ASSUME NEW i \in 1 .. Len(cq') PROVE cq'[i].res # "ENOBUFS"
    BY DEF NoneFailed
  <2>2. i \in 1 .. Len(cq) \/ i = Len(cq) + 1  BY <1>1, <2>1
  <2> QED BY <1>1, <1>4, <2>1, <2>2 DEF NoneFailed
<1>5. ASSUME Provided PROVE Safe'
  <2>1. Safe /\ inflight \in Nat /\ inflight <= cfg.uring.buffer
    BY <1>a, <1>5 DEF Books, Safe, Numbers
  <2>2. PICK r \in {0, -1} : Len(ring') = Len(ring) + r
    <3>1. Len(ring) \in Nat  BY <1>a DEF Numbers
    <3> QED BY <3>1
  <2>3. /\ pos' = pos + 0 /\ Len(recycled') = Len(recycled) + 0 /\ inflight' = inflight + 0
    BY <1>a, <1>2 DEF Numbers
  <2>4. Requests' = Requests + (-1)
    <3>1. Requests \in Nat  BY <1>a DEF Numbers
    <3> QED BY <1>5, <3>1
  <2>5. Moved(0, -1, 1, r, 0, 0)  BY <1>1, <2>2, <2>3, <2>4 DEF Moved
  <2>6. Balanced(0, -1, 1, r, 0, 0)  BY <2>1, <2>2 DEF Balanced
  <2> QED BY <1>a, <2>1, <2>5, <2>6, SafeMoves
<1>6. Books'  BY <1>a, <1>2, <1>4, <1>5 DEF Books, Provided
<1> QED BY <1>1, <1>3, <1>6
-----------------------------------------------------------------------------
LEMMA InitInv == ASSUME Init PROVE Inv
<1>1. /\ cfg \in Configs /\ cfg.uring.buffer \in Nat \ {0} /\ cfg.uring.ring \in Nat \ {0}
      /\ cfg.tests \subseteq Nat
  BY ConfigsAssumption DEF Init, UringParameter
<1>2. NoMessage \in Message  BY DEF NoMessage, Message
<1> DEFINE r == [i \in 1 .. cfg.uring.buffer |-> i - 1]
<1>3. r \in [1 .. cfg.uring.buffer -> Buffers]  BY <1>1 DEF Buffers
<1>4. r \in Seq(Buffers) /\ Len(r) = cfg.uring.buffer
  <2>1. r \in [1 .. cfg.uring.buffer -> Buffers] /\ cfg.uring.buffer \in Nat  BY <1>1, <1>3
  <2> HIDE DEF r
  <2>2. r \in Seq(Buffers)  BY <2>1, SeqDef
  <2> QED BY <2>1, <2>2, LenProperties
<1>5. ring = r  BY DEF Init
<1>6. ring \in Seq(Buffers) /\ Len(ring) = cfg.uring.buffer  BY <1>4, <1>5
<1>7. progress \in [TestIds -> Nat] /\ content \in [Buffers -> Message]  BY <1>2 DEF Init
<1>8. /\ cq = <<>> /\ cq \in Seq(Cqe_) /\ Len(cq) = 0
      /\ recycled = <<>> /\ recycled \in Seq(Buffers) /\ Len(recycled) = 0
  BY DEF Init
<1>9. TypeOK
  <2>1. sq \in 0 .. cfg.uring.ring /\ snap \in 0 .. Len(cq) /\ pos \in 0 .. snap
    BY <1>1, <1>8 DEF Init
  <2> HIDE DEF r
  <2>2. kern \in Nat /\ completed \in Nat /\ inflight \in Nat  BY DEF Init
  <2>3. sockq \in Seq(Message) /\ ms \in Seq(Measurement) /\ taken \in Seq(Message)
        /\ handled \in Seq(Message)
    BY DEF Init
  <2>4. pc = "fill" /\ stillArmed \in BOOLEAN /\ armed \in BOOLEAN  BY DEF Init
  <2> QED BY <1>1, <1>6, <1>7, <1>8, <2>1, <2>2, <2>3, <2>4 DEF TypeOK
<1>10. Books
  <2>1. Requests = 0  BY DEF Init, Requests
  <2>2. Len(ring) = cfg.uring.buffer /\ Len(recycled) = 0 /\ Len(cq) = 0 /\ pos = 0 /\ inflight = 0
    BY <1>6, <1>8 DEF Init
  <2>3. Requests + Len(cq) <= inflight /\ inflight <= cfg.uring.buffer  BY <1>1, <2>1, <2>2
  <2>4. Demand = cfg.uring.buffer /\ Supply = cfg.uring.buffer
    BY <1>1, <2>1, <2>2 DEF Demand, Supply
  <2>5. Safe  BY <1>1, <2>2, <2>3, <2>4 DEF Safe
  <2>6. NoneFailed  BY <2>2 DEF NoneFailed
  <2> QED BY <1>8, <2>5, <2>6 DEF Init, Books
<1> QED BY <1>9, <1>10 DEF Inv
-----------------------------------------------------------------------------
(* The steps of senders and kernel.                                        *)

LEMMA ArriveInv == ASSUME Inv, NEW t \in TestIds, Arrive(t) PROVE Inv'
<1>1. NthMessage(t, progress[t]) \in Message
  BY ConfigsAssumption DEF Inv, TypeOK, NthMessage, Message, TestIds
<1>2. sockq' \in Seq(Message)
  <2>1. CASE UNCHANGED sockq  BY <2>1 DEF Inv, TypeOK
  <2>2. CASE sockq' = Append(sockq, NthMessage(t, progress[t]))
    BY <2>2, <1>1, AppendProperties DEF Inv, TypeOK
  <2> QED BY <2>1, <2>2 DEF Arrive
<1>3. progress' \in [TestIds' -> Nat]  BY DEF Arrive, Inv, TypeOK, TestIds
<1>4. TypeOK'
  BY <1>2, <1>3 DEF Arrive, Inv, TypeOK, kernelVars, loopVars, Buffers, Cqe_
<1>5. Books'  BY DEF Arrive, Inv, Books, Safe, NoneFailed, Requests, Demand, Supply, Provided,
              kernelVars, loopVars
<1> QED BY <1>4, <1>5 DEF Inv

LEMMA SqThreadInv == ASSUME Inv, SqThread PROVE Inv'
<1>a. TypeOK /\ Books /\ Numbers  BY NumbersHold DEF Inv
<1>1. sq \in Nat /\ sq <= cfg.uring.ring /\ kern \in Nat /\ cfg.uring.ring \in Nat
  BY <1>a, NumbersHold, Parameter DEF TypeOK
<1>2. sq' \in 0 .. cfg.uring.ring /\ kern' \in Nat  BY <1>1 DEF SqThread
<1>3. TypeOK'
  BY <1>a, <1>2 DEF SqThread, TypeOK, loopVars, sendVars, Buffers, TestIds, Cqe_
<1>4. Requests' = Requests  BY <1>1 DEF SqThread, Requests
<1>5. UNCHANGED <<cfg, cq, ring, recycled, pos, inflight, completed, pc>>
  BY DEF SqThread, loopVars
<1>6. Books'
  BY <1>a, <1>4, <1>5 DEF Books, Provided, Safe, NoneFailed, Demand, Supply
<1> QED BY <1>3, <1>6 DEF Inv

LEMMA KernelReceiveInv == ASSUME Inv, KernelReceive PROVE Inv'
<1>a. TypeOK /\ Books /\ Numbers /\ kern \in Nat /\ sq \in Nat  BY NumbersHold DEF Inv
<1>1. /\ Head(ring) \in Buffers /\ Tail(ring) \in Seq(Buffers) /\ Len(Tail(ring)) = Len(ring) - 1
      /\ Head(sockq) \in Message /\ Tail(sockq) \in Seq(Message)
  BY <1>a, HeadTailProperties DEF KernelReceive, TypeOK
<1> DEFINE c == Completion(Head(ring), "bytes", Multishot)
<1>2. c \in Cqe_ /\ c.res # "ENOBUFS"  BY <1>1 DEF Completion, Cqe_, Multishot
<1>3. cq' = Append(cq, c) /\ UNCHANGED <<cfg, loopVars>>  BY DEF KernelReceive
<1> HIDE DEF c
<1>4. kern' \in Nat /\ (Provided => kern' = kern - 1)
  BY <1>a DEF KernelReceive, Provided, Multishot
<1>5. Provided => Requests' = Requests - 1  BY <1>a, <1>4 DEF KernelReceive, Requests
<1>6. Len(ring') \in {Len(ring), Len(ring) - 1}  BY <1>1 DEF KernelReceive
<1>7. Books' /\ cq' \in Seq(Cqe_) /\ snap' \in 0 .. Len(cq')
  BY <1>2, <1>3, <1>5, <1>6, CompletionBooks
<1>8. taken' \in Seq(Message)  BY <1>a, <1>1, AppendProperties DEF KernelReceive, TypeOK
<1>9. content' \in [Buffers -> Message]  BY <1>a, <1>1 DEF KernelReceive, TypeOK
<1>10. TypeOK'
  BY <1>a, <1>1, <1>4, <1>7, <1>8, <1>9
     DEF KernelReceive, TypeOK, loopVars, Buffers, TestIds, Cqe_
<1> QED BY <1>7, <1>10 DEF Inv

(* With provided buffers the ring is never empty when a request needs one. *)
LEMMA BufferForRequest ==
  ASSUME Inv, Provided
  PROVE  kern <= Len(ring)
<1>a. Books /\ Numbers /\ Safe /\ sq \in Nat /\ kern \in Nat  BY NumbersHold DEF Inv, Books
<1>1. cfg.uring.buffer + pos + Requests <= Len(ring) + Len(recycled) + inflight
  BY <1>a DEF Safe, Demand, Supply
<1>2. Requests <= Len(ring)  BY <1>a, <1>1 DEF Books, Safe, Numbers
<1> QED BY <1>a, <1>2 DEF Requests, Numbers

(* A request ends with an error: the completion c enters the queue.        *)
LEMMA CompleteInv ==
  ASSUME Inv, NEW c \in Cqe_, Provided => c.res # "ENOBUFS",
         kern > 0, kern' = kern - 1, cq' = Append(cq, c),
         UNCHANGED <<cfg, sendVars, ring, sq, content, taken, loopVars>>
  PROVE  Inv'
<1>a. TypeOK /\ Numbers /\ kern \in Nat /\ sq \in Nat  BY NumbersHold DEF Inv
<1>1. kern' \in Nat /\ Requests' = Requests - 1  BY <1>a DEF Requests
<1>2. Len(ring') \in {Len(ring), Len(ring) - 1}  OBVIOUS
<1>3. Books' /\ cq' \in Seq(Cqe_) /\ snap' \in 0 .. Len(cq')
  BY <1>1, <1>2, CompletionBooks
<1>4. TypeOK'
  BY <1>a, <1>1, <1>3 DEF TypeOK, loopVars, sendVars, Buffers, TestIds, Cqe_
<1> QED BY <1>3, <1>4 DEF Inv

LEMMA KernelNoBufferInv == ASSUME Inv, KernelNoBuffer PROVE Inv'
<1> DEFINE c == Completion(0, "ENOBUFS", FALSE)
<1>1. c \in Cqe_  BY Parameter DEF Inv, TypeOK, Completion, Cqe_, Buffers
<1>2. ~Provided
  <2> SUFFICES ASSUME Provided PROVE FALSE
    OBVIOUS
  <2>1. Len(ring) = 0  BY DEF KernelNoBuffer
  <2> QED BY <2>1, BufferForRequest, NumbersHold DEF KernelNoBuffer, Inv, Numbers
<1> QED BY <1>1, <1>2, CompleteInv DEF KernelNoBuffer

LEMMA KernelFailInv == ASSUME Inv, KernelFail PROVE Inv'
<1>1. PICK e \in {"EAGAIN", "errno"} : cq' = Append(cq, Completion(0, e, FALSE))
  BY DEF KernelFail
<1> DEFINE c == Completion(0, e, FALSE)
<1>2. c \in Cqe_ /\ c.res # "ENOBUFS"  BY Parameter DEF Inv, TypeOK, Completion, Cqe_, Buffers
<1> QED BY <1>1, <1>2, CompleteInv DEF KernelFail
-----------------------------------------------------------------------------
(* The steps of the loop.                                                  *)

LEMMA ToSubmitBound ==
  ASSUME NEW p, p.ring \in Nat, p.burst \in Nat, p.buffer \in Nat, p.burst <= p.ring,
         NEW f \in Nat, f <= p.buffer, NEW q \in Nat, q <= p.ring
  PROVE  ToSubmit(f, q, p) \in Nat /\ ToSubmit(f, q, p) <= p.buffer - f
<1>1. CASE NoBuffers(f, p)  BY <1>1 DEF ToSubmit
<1>2. CASE ~NoBuffers(f, p) /\ p.fill = "Syscall"
  <2>1. p.burst <= p.buffer - f  BY <1>2 DEF NoBuffers
  <2>2. ToSubmit(f, q, p) = IF f = 0 THEN p.burst ELSE 0  BY <1>2 DEF ToSubmit
  <2> QED BY <2>1, <2>2
<1>3. CASE ~NoBuffers(f, p) /\ p.fill # "Syscall"
  <2>1. ToSubmit(f, q, p) = IF p.buffer - f < p.ring - q THEN p.buffer - f ELSE p.ring - q
    BY <1>3 DEF ToSubmit
  <2> QED BY <2>1
<1> QED BY <1>1, <1>2, <1>3

LEMMA FillInv == ASSUME Inv, Fill PROVE Inv'
<1>a. TypeOK /\ Books /\ Numbers /\ Safe  BY NumbersHold DEF Inv, Books, Fill
<1> DEFINE n == ToSubmit(inflight, sq, cfg.uring)
           room == cfg.uring.ring - sq
           pushed == IF n < room THEN n ELSE room
<1>1. /\ sq \in Nat /\ sq <= cfg.uring.ring /\ kern \in Nat /\ cfg.uring.ring \in Nat
      /\ cfg.uring.buffer \in Nat /\ inflight \in Nat /\ inflight <= cfg.uring.buffer
  BY <1>a, NumbersHold, Parameter DEF TypeOK, Numbers, Safe
<1>2. n \in Nat /\ n <= cfg.uring.buffer - inflight
  BY <1>a, <1>1, Parameter, ToSubmitBound DEF TypeOK
<1>3. sq' = sq + pushed /\ inflight' = inflight + pushed  BY DEF Fill
<1> HIDE DEF n
<1>4. pushed \in Nat /\ pushed <= room /\ pushed <= cfg.uring.buffer - inflight  BY <1>1, <1>2
<1> HIDE DEF pushed
<1>5. sq' \in 0 .. cfg.uring.ring /\ inflight' \in Nat  BY <1>1, <1>3, <1>4
<1>6. pc' \in {"drain", "enter"}  BY DEF Fill
<1>7. TypeOK'
  BY <1>a, <1>5, <1>6 DEF Fill, TypeOK, sendVars, Buffers, TestIds, Cqe_
<1>8. Requests' = Requests + pushed  BY <1>1, <1>3, <1>4 DEF Fill, Requests
<1>9. UNCHANGED <<cfg, cq, ring, recycled, pos, completed>>  BY DEF Fill
<1>10. Safe'
  <2>1. Moved(0, pushed, 0, 0, 0, pushed)  BY <1>a, <1>3, <1>8, <1>9 DEF Moved, Numbers
  <2>2. Balanced(0, pushed, 0, 0, 0, pushed)  BY <1>1, <1>4 DEF Balanced
  <2> QED BY <1>a, <1>9, <2>1, <2>2, SafeMoves
<1>11. NoneFailed' /\ pos = 0  BY <1>a, <1>9 DEF Books, Fill, NoneFailed
<1>12. Books'  BY <1>a, <1>9, <1>10, <1>11 DEF Books, Provided
<1> QED BY <1>7, <1>12 DEF Inv

LEMMA ArmInv == ASSUME Inv, Arm PROVE Inv'
<1>a. /\ TypeOK /\ Books /\ sq \in Nat /\ sq <= cfg.uring.ring /\ kern \in Nat
      /\ cfg.uring.ring \in Nat
  BY NumbersHold, Parameter DEF Inv, TypeOK
<1>1. sq' \in 0 .. cfg.uring.ring /\ pc' \in {"enter", "failed"}  BY <1>a DEF Arm
<1>2. TypeOK'  BY <1>a, <1>1 DEF Arm, TypeOK, sendVars, Buffers, TestIds, Cqe_
<1>3. Books'  BY <1>a, <1>1 DEF Arm, Books, Provided, Multishot
<1> QED BY <1>2, <1>3 DEF Inv

LEMMA EnterInv == ASSUME Inv, Enter PROVE Inv'
<1>a. /\ TypeOK /\ Books /\ sq \in Nat /\ sq <= cfg.uring.ring /\ kern \in Nat
      /\ cfg.uring.ring \in Nat
  BY NumbersHold, Parameter DEF Inv, TypeOK
<1>1. sq' \in 0 .. cfg.uring.ring /\ kern' \in Nat  BY <1>a DEF Enter
<1>2. TypeOK'  BY <1>a, <1>1 DEF Enter, TypeOK, sendVars, Buffers, TestIds, Cqe_
<1>3. Requests' = Requests  BY <1>a DEF Enter, Requests
<1>4. UNCHANGED <<cfg, cq, ring, recycled, pos, inflight, completed>>  BY DEF Enter
<1>5. pos = 0  BY <1>a DEF Enter, Books
<1>6. Books'
  BY <1>a, <1>3, <1>4, <1>5 DEF Books, Provided, Safe, NoneFailed, Demand, Supply
<1> QED BY <1>2, <1>6 DEF Inv

LEMMA BeginDrainInv == ASSUME Inv, BeginDrain PROVE Inv'
<1>a. TypeOK /\ Books /\ Numbers  BY NumbersHold DEF Inv
<1>1. /\ UNCHANGED <<cfg, sq, kern, cq, ring, inflight>>
      /\ snap' = Len(cq) /\ pos' = 0 /\ recycled' = <<>> /\ completed' = 0
  BY DEF BeginDrain, kernelVars
<1>2. pos = 0 /\ Len(recycled) = 0 /\ Len(recycled') = 0  BY <1>a, <1>1 DEF BeginDrain, Books, Numbers
<1>3. snap' \in 0 .. Len(cq') /\ pos' \in 0 .. snap' /\ recycled' \in Seq(Buffers)
  BY <1>a, <1>1 DEF Numbers
<1>4. TypeOK'
  BY <1>a, <1>1, <1>3 DEF BeginDrain, TypeOK, sendVars, kernelVars, Buffers, TestIds, Cqe_
<1>5. Requests' = Requests /\ Demand' = Demand /\ Supply' = Supply
  BY <1>1, <1>2 DEF Requests, Demand, Supply
<1>6. Books'  BY <1>a, <1>1, <1>2, <1>5 DEF Books, Provided, Safe, NoneFailed
<1> QED BY <1>4, <1>6 DEF Inv

LEMMA HandleDataInv == ASSUME Inv, HandleData PROVE Inv'
<1>a. TypeOK /\ Books /\ Numbers /\ completed \in Nat  BY NumbersHold DEF Inv
<1>b. /\ pos \in Nat /\ pos + 1 \in 1 .. snap /\ pc = "cqe"
      /\ Cqe \in Cqe_ /\ CqeMessage \in Message /\ Cqe.buf \in Buffers
  BY <1>a, AtCompletion, NumbersHold DEF HandleData, AtCqe, Numbers
<1>1. recycled' \in Seq(Buffers) /\ Len(recycled') = Len(recycled) + 1
  BY <1>a, <1>b, AppendProperties DEF HandleData, TypeOK
<1>2. ms' \in Seq(Measurement) /\ handled' \in Seq(Message)
  BY <1>a, <1>b, ParsedType, AppendProperties DEF HandleData, TypeOK, Parse
<1>3. /\ completed' = IF Provided THEN completed + 1 ELSE completed
      /\ completed' \in Nat
  BY <1>a DEF HandleData, Count
<1>4. stillArmed' \in BOOLEAN  BY <1>a, <1>b DEF HandleData, NoteArmed, TypeOK, Cqe_
<1>5. UNCHANGED <<cfg, sq, kern, cq, ring, inflight, pc, snap>> /\ pos' = pos + 1
  BY DEF HandleData, kernelVars
<1>6. TypeOK'
  <2>1. pos' \in 0 .. snap'  BY <1>b, <1>5
  <2> QED BY <1>a, <1>1, <1>2, <1>3, <1>4, <1>5, <2>1
          DEF HandleData, TypeOK, sendVars, kernelVars, Buffers, TestIds, Cqe_
<1>7. ASSUME Provided PROVE Safe' /\ NoneFailed'
  <2>1. Safe /\ NoneFailed /\ inflight \in Nat /\ inflight <= cfg.uring.buffer
    BY <1>a, <1>7 DEF Books, Safe, Numbers
  <2>2. Requests' = Requests  BY <1>5 DEF Requests
  <2>3. Moved(1, 0, 0, 0, 1, 0)  BY <1>a, <1>1, <1>5, <2>2 DEF Moved, Numbers
  <2>4. Balanced(1, 0, 0, 0, 1, 0)  BY <2>1 DEF Balanced
  <2>5. Safe'  BY <1>a, <1>5, <2>1, <2>3, <2>4, SafeMoves
  <2> QED BY <1>5, <2>1, <2>5 DEF NoneFailed
<1>8. Len(recycled') <= pos'  BY <1>a, <1>1, <1>5 DEF Books, Numbers
<1>9. completed' = IF Provided THEN pos' ELSE 0  BY <1>a, <1>3, <1>5 DEF Books
<1>10. Books'  BY <1>b, <1>5, <1>7, <1>8, <1>9 DEF Books, Provided
<1> QED BY <1>6, <1>10 DEF Inv

LEMMA HandleNoBufferInv == ASSUME Inv, HandleNoBuffer PROVE Inv'
<1>a. TypeOK /\ Books /\ Numbers /\ completed \in Nat  BY NumbersHold DEF Inv
<1>b. /\ pos \in Nat /\ pos + 1 \in 1 .. snap /\ pos + 1 \in 1 .. Len(cq) /\ pc = "cqe"
      /\ Cqe = cq[pos + 1] /\ Cqe \in Cqe_
  BY <1>a, AtCompletion, NumbersHold DEF HandleNoBuffer, AtCqe, Numbers
<1>1. ~Provided  BY <1>a, <1>b DEF HandleNoBuffer, Books, NoneFailed
<1>2. completed' = completed  BY <1>1 DEF HandleNoBuffer, Count
<1>3. stillArmed' \in BOOLEAN  BY <1>a, <1>b DEF HandleNoBuffer, NoteArmed, TypeOK, Cqe_
<1>4. UNCHANGED <<cfg, recycled, pc, snap, cq>> /\ pos' = pos + 1
  BY DEF HandleNoBuffer, kernelVars
<1>5. TypeOK'
  <2>1. pos' \in 0 .. snap'  BY <1>b, <1>4
  <2> QED BY <1>a, <1>2, <1>3, <1>4, <2>1
          DEF HandleNoBuffer, TypeOK, sendVars, kernelVars, Buffers, TestIds, Cqe_
<1>6. Len(recycled') <= pos'  BY <1>a, <1>4 DEF Books, Numbers
<1>7. Books'  BY <1>a, <1>b, <1>1, <1>2, <1>4, <1>6 DEF Books, Provided
<1> QED BY <1>5, <1>7 DEF Inv

(* A drain ends: n completions leave the queue, the buffers given back and *)
(* b more become visible to the kernel.                                    *)
Ended(n, b) ==
  /\ Len(cq') = Len(cq) - n
  /\ pos' = 0 /\ Len(recycled') = 0
  /\ Len(ring') = Len(ring) + Len(recycled) + b

LEMMA ReleaseSafe ==
  ASSUME Numbers, Safe, UNCHANGED <<cfg, sq, kern>>, NEW n \in Nat, NEW b \in Nat,
         Ended(n, b),
         inflight' = inflight \/ (inflight' = inflight - pos /\ n = pos)
  PROVE  Safe'
<1>1. Requests' = Requests  BY DEF Requests
<1> DEFINE i == IF inflight' = inflight THEN 0 ELSE -pos
           l == Len(recycled)
<1>2. pos \in Nat /\ l \in Nat /\ inflight \in Nat  BY DEF Numbers
<1>3. i \in Int /\ inflight' = inflight + i /\ i <= 0 /\ -n <= i /\ -pos <= i  BY <1>2
<1> HIDE DEF i
<1>4. Len(cq') = Len(cq) + (-n) /\ pos' = pos + (-pos)  BY DEF Numbers, Ended
<1>5. Len(ring') = Len(ring) + (l + b) /\ Len(recycled') = Len(recycled) + (-l)
  BY <1>2 DEF Numbers, Ended
<1>6. Requests' = Requests + 0  BY <1>1 DEF Numbers
<1> HIDE DEF l
<1>7. Moved(-pos, 0, -n, l + b, -l, i)  BY <1>3, <1>4, <1>5, <1>6 DEF Moved
<1>8. inflight + i <= cfg.uring.buffer
  <2>1. inflight <= cfg.uring.buffer /\ cfg.uring.buffer \in Nat  BY DEF Safe, Numbers
  <2> QED BY <1>2, <1>3, <2>1
<1>9. Balanced(-pos, 0, -n, l + b, -l, i)  BY <1>2, <1>3, <1>8 DEF Balanced
<1> QED BY <1>7, <1>9, SafeMoves

(* What every early return does to the queue and the ring.                 *)
LEMMA EarlyReturnInv ==
  ASSUME Inv, AtCqe, NEW bs \in Seq(Buffers), EarlyReturn(bs), ms' \in Seq(Measurement),
         handled' \in Seq(Message), pc' \in {"fill", "done", "failed", "panicked"},
         UNCHANGED <<cfg, sendVars, sq, kern, content, taken>>
  PROVE  Inv'
<1>a. TypeOK /\ Books /\ Numbers  BY NumbersHold DEF Inv
<1>1. pos + 1 \in 0 .. Len(cq) /\ pos \in Nat /\ Len(cq) \in Nat
  BY <1>a, AtCompletion DEF Numbers
<1>2. cq' \in Seq(Cqe_) /\ Len(cq') = Len(cq) - (pos + 1)
  BY <1>a, <1>1, Release DEF EarlyReturn, TypeOK
<1>3. /\ ring' \in Seq(Buffers) /\ Len(bs) \in Nat
      /\ Len(ring') = Len(ring) + Len(recycled) + Len(bs)
  <2>1. /\ ring \o recycled \in Seq(Buffers)
        /\ Len(ring \o recycled) = Len(ring) + Len(recycled)
    BY <1>a, Joined DEF TypeOK
  <2>2. /\ ring \o recycled \o bs \in Seq(Buffers)
        /\ Len(ring \o recycled \o bs) = Len(ring \o recycled) + Len(bs)
    BY <2>1, Joined
  <2> QED BY <2>1, <2>2, LenProperties DEF EarlyReturn
<1>4. /\ snap' = 0 /\ pos' = 0 /\ recycled' = <<>> /\ Len(recycled') = 0 /\ completed' = 0
      /\ stillArmed' = TRUE /\ UNCHANGED <<inflight, armed, cfg, sq, kern>>
  BY DEF EarlyReturn
<1>5. TypeOK'
  <2>1. snap' \in 0 .. Len(cq') /\ pos' \in 0 .. snap'  BY <1>1, <1>2, <1>4
  <2>2. recycled' \in Seq(Buffers)  BY <1>4
  <2> QED BY <1>a, <1>2, <1>3, <1>4, <2>1, <2>2
          DEF TypeOK, sendVars, Buffers, TestIds, Cqe_
<1>6. ASSUME Provided PROVE Safe' /\ NoneFailed'
  <2>1. Safe /\ NoneFailed  BY <1>a, <1>6 DEF Books
  <2>2. NoneFailed'  BY <1>a, <1>1, <2>1, ReleaseKeepsClean DEF EarlyReturn, NoneFailed
  <2> DEFINE n == pos + 1
             b == Len(bs)
  <2>3. n \in Nat /\ b \in Nat /\ Ended(n, b)  BY <1>1, <1>2, <1>3, <1>4 DEF Ended
  <2> HIDE DEF n, b
  <2>4. Safe'  BY <1>a, <1>4, <2>1, <2>3, ReleaseSafe
  <2> QED BY <2>2, <2>4
<1>7. Books'  BY <1>4, <1>6 DEF Books, Provided
<1> QED BY <1>5, <1>7 DEF Inv

LEMMA HandleControlInv == ASSUME Inv, HandleControl PROVE Inv'
<1>1. AtCqe /\ CqeMessage \in Message /\ Cqe.buf \in Buffers
  BY AtCompletion DEF HandleControl, Inv
<1>2. <<Cqe.buf>> \in Seq(Buffers)  BY <1>1
<1>3. ms' \in Seq(Measurement) /\ handled' \in Seq(Message)
  BY <1>1, ParsedType, AppendProperties DEF Inv, TypeOK, Parse, HandleControl
<1>4. pc' \in {"fill", "done"}  BY DEF HandleControl
<1> QED BY <1>1, <1>2, <1>3, <1>4, EarlyReturnInv DEF HandleControl

LEMMA HandleBadInv == ASSUME Inv, HandleBad PROVE Inv'
<1>1. AtCqe /\ CqeMessage \in Message /\ Cqe.buf \in Buffers
  BY AtCompletion DEF HandleBad, Inv
<1>2. <<Cqe.buf>> \in Seq(Buffers)  BY <1>1
<1>3. ms' \in Seq(Measurement) /\ handled' \in Seq(Message)
  BY <1>1, ParsedType, AppendProperties DEF Inv, TypeOK, Parse, HandleBad
<1>4. pc' \in {"failed", "panicked"}  BY DEF HandleBad
<1> QED BY <1>1, <1>2, <1>3, <1>4, EarlyReturnInv DEF HandleBad

LEMMA HandleErrorInv == ASSUME Inv, HandleError PROVE Inv'
<1>1. AtCqe /\ <<>> \in Seq(Buffers)  BY DEF HandleError
<1>2. ms' \in Seq(Measurement) /\ handled' \in Seq(Message)  BY DEF HandleError, Inv, TypeOK
<1>3. pc' \in {"fill", "failed"}  BY DEF HandleError
<1> QED BY <1>1, <1>2, <1>3, EarlyReturnInv DEF HandleError

LEMMA EndDrainInv == ASSUME Inv, EndDrain PROVE Inv'
<1>a. TypeOK /\ Books /\ Numbers /\ completed \in Nat  BY NumbersHold DEF Inv
<1>1. pos \in 0 .. Len(cq) /\ pos \in Nat /\ Len(cq) \in Nat  BY <1>a DEF Numbers
<1>2. cq' \in Seq(Cqe_) /\ Len(cq') = Len(cq) - pos
  BY <1>a, <1>1, Release DEF EndDrain, TypeOK
<1>3. ring' \in Seq(Buffers) /\ Len(ring') = Len(ring) + Len(recycled)
  BY <1>a, Joined DEF EndDrain, TypeOK
<1>4. /\ snap' = 0 /\ pos' = 0 /\ recycled' = <<>> /\ Len(recycled') = 0 /\ completed' = 0
      /\ stillArmed' = TRUE /\ inflight' = inflight - completed /\ UNCHANGED <<cfg, sq, kern>>
  BY DEF EndDrain
<1>5. Provided => completed = pos /\ Safe /\ NoneFailed /\ pos <= inflight
  <2> SUFFICES ASSUME Provided PROVE completed = pos /\ Safe /\ NoneFailed /\ pos <= inflight
    OBVIOUS
  <2>1. completed = pos /\ Safe /\ NoneFailed  BY <1>a DEF Books
  <2>2. Requests + Len(cq) <= inflight  BY <2>1 DEF Safe
  <2>3. pos <= inflight  BY <1>a, <2>2 DEF Numbers
  <2> QED BY <2>1, <2>3
<1>6. inflight' \in Nat
  <2>1. inflight \in Nat  BY <1>a DEF Numbers
  <2>2. ~Provided => completed = 0  BY <1>a DEF Books
  <2> QED BY <1>1, <1>4, <1>5, <2>1, <2>2
<1>7. TypeOK'
  <2>1. snap' \in 0 .. Len(cq') /\ pos' \in 0 .. snap'  BY <1>1, <1>2, <1>4
  <2>2. recycled' \in Seq(Buffers)  BY <1>4
  <2>3. armed' \in BOOLEAN  BY <1>a DEF EndDrain, TypeOK
  <2> QED BY <1>a, <1>2, <1>3, <1>4, <1>6, <2>1, <2>2, <2>3
          DEF EndDrain, TypeOK, sendVars, Buffers, TestIds, Cqe_
<1>8. ASSUME Provided PROVE Safe' /\ NoneFailed'
  <2>1. NoneFailed'  BY <1>a, <1>1, <1>5, <1>8, ReleaseKeepsClean DEF EndDrain, NoneFailed
  <2>2. Len(ring') = Len(ring) + Len(recycled) + 0
    <3>1. Len(ring) \in Nat /\ Len(recycled) \in Nat  BY <1>a DEF Numbers
    <3> QED BY <1>3, <3>1
  <2>3. Ended(pos, 0)  BY <1>2, <1>4, <2>2 DEF Ended
  <2>4. inflight' = inflight - pos  BY <1>4, <1>5, <1>8
  <2>5. Safe'  BY <1>a, <1>1, <1>4, <1>5, <1>8, <2>3, <2>4, ReleaseSafe
  <2> QED BY <2>1, <2>5
<1>9. Books'  BY <1>4, <1>8 DEF Books, Provided
<1> QED BY <1>7, <1>9 DEF Inv
-----------------------------------------------------------------------------
LEMMA NextInv == ASSUME Inv, [Next]_vars PROVE Inv'
<1>1. CASE Next
  BY <1>1, ArriveInv, SqThreadInv, KernelReceiveInv, KernelNoBufferInv, KernelFailInv, FillInv,
     ArmInv, EnterInv, BeginDrainInv, HandleDataInv, HandleNoBufferInv, HandleControlInv,
     HandleBadInv, HandleErrorInv, EndDrainInv
  DEF Next, LoopStep, KernelStep
<1>2. CASE UNCHANGED vars
  BY <1>2 DEF vars, sendVars, kernelVars, loopVars, Inv, TypeOK, Books, Safe, NoneFailed, Requests,
              Demand, Supply, Provided, Buffers,
              TestIds, Cqe_
<1> QED BY <1>1, <1>2

LEMMA AlwaysInv == Spec => []Inv
BY InitInv, NextInv, PTL DEF Spec

(* Type correctness: in particular amount_inflight, which is unsigned, is  *)
(* never decreased below 0 by a drain (receiver.rs 502-505).               *)
THEOREM TypeCorrect == Spec => []TypeOK
<1>1. Inv => TypeOK  BY DEF Inv
<1> QED BY <1>1, AlwaysInv, PTL

(* amount_inflight never falls short of the requests that are queued, with *)
(* the kernel or completed, and never exceeds the number of buffers, which *)
(* is the size of the completion queue, whatever returns early             *)
(* (provided_buffer.rs 46-69, receiver.rs 278-318).                        *)
THEOREM InflightIsSafe == Spec => []InflightCovers
<1>1. Inv => InflightCovers  BY DEF Inv, Books, Safe, Requests, InflightCovers
<1> QED BY <1>1, AlwaysInv, PTL

(* With provided buffers every request the kernel works on finds a buffer: *)
(* the code's case for ENOBUFS (receiver.rs 285-290) is never taken.       *)
THEOREM BuffersSuffice == Spec => []NeverOutOfBuffers
<1>1. Inv => NeverOutOfBuffers  BY BufferForRequest DEF NeverOutOfBuffers
<1> QED BY <1>1, AlwaysInv, PTL
-----------------------------------------------------------------------------
(* Who has a buffer.                                                       *)

(* The buffers of the completions behind position p of a queue.            *)
Held(q, p) == {q[i].buf : i \in Places(q, p, Bytes)}
HeldApart(q, p) == \A i, j \in Places(q, p, Bytes) : q[i].buf = q[j].buf => i = j

Owned ==
  /\ NoRepeats(ring) /\ NoRepeats(recycled) /\ HeldApart(cq, pos)
  /\ ToSet(ring) \cap ToSet(recycled) = {}
  /\ Held(cq, pos) \cap (ToSet(ring) \cup ToSet(recycled)) = {}
  /\ ToSet(ring) \cup ToSet(recycled) \cup Held(cq, pos) = Buffers
  /\ Len(ring) + Len(recycled) + Cardinality(Places(cq, pos, Bytes)) = cfg.uring.buffer

LEMMA HeldAppend ==
  ASSUME NEW q \in Seq(Cqe_), NEW c \in Cqe_, NEW p \in 0 .. Len(q)
  PROVE  /\ Held(Append(q, c), p) = Held(q, p) \cup (IF c.res = "bytes" THEN {c.buf} ELSE {})
         /\ HeldApart(q, p) /\ (c.res = "bytes" => c.buf \notin Held(q, p))
              => HeldApart(Append(q, c), p)
<1> DEFINE r == Append(q, c)
           n == Len(q)
           U == Places(q, p, Bytes)
           V == Places(r, p, Bytes)
<1>1. V = U \cup (IF c.res = "bytes" THEN {n + 1} ELSE {})
  BY PlacesAppend DEF Bytes
<1>2. n \in Nat /\ r[n + 1] = c /\ \A i \in 1 .. n : r[i] = q[i]
  BY AppendProperties, LenProperties
<1>3. \A i \in U : i \in 1 .. n /\ i # n + 1  BY <1>2 DEF Places
<1> HIDE DEF r, n, U, V
<1>4. \A i \in U : r[i] = q[i]  BY <1>2, <1>3
<1>5. {r[i].buf : i \in V} = {q[i].buf : i \in U} \cup (IF c.res = "bytes" THEN {c.buf} ELSE {})
  BY <1>1, <1>2, <1>4
<1>6. ASSUME \A i, j \in U : q[i].buf = q[j].buf => i = j,
             c.res = "bytes" => c.buf \notin {q[i].buf : i \in U}
      PROVE  \A i, j \in V : r[i].buf = r[j].buf => i = j
  BY <1>1, <1>2, <1>4, <1>6
<1> QED BY <1>5, <1>6 DEF Held, HeldApart, r, U, V

LEMMA HeldNext ==
  ASSUME NEW q \in Seq(Cqe_), NEW p \in Nat, p < Len(q)
  PROVE  /\ HeldApart(q, p) => HeldApart(q, p + 1)
         /\ q[p + 1].res # "bytes" => Held(q, p + 1) = Held(q, p)
         /\ q[p + 1].res = "bytes" =>
              /\ q[p + 1].buf \in Held(q, p)
              /\ HeldApart(q, p) => Held(q, p + 1) = Held(q, p) \ {q[p + 1].buf}
<1>1. /\ Places(q, p + 1, Bytes) = Places(q, p, Bytes) \ {p + 1}
      /\ q[p + 1].res = "bytes" <=> p + 1 \in Places(q, p, Bytes)
  BY PlacesNext DEF Bytes
<1> QED BY <1>1 DEF Held, HeldApart

LEMMA HeldShift ==
  ASSUME NEW q \in Seq(Cqe_), NEW p \in 0 .. Len(q)
  PROVE  LET rest == SubSeq(q, p + 1, Len(q))
         IN  /\ Held(rest, 0) = Held(q, p)
             /\ HeldApart(q, p) => HeldApart(rest, 0)
             /\ Cardinality(Places(rest, 0, Bytes)) = Cardinality(Places(q, p, Bytes))
<1> DEFINE rest == SubSeq(q, p + 1, Len(q))
           U == Places(q, p, Bytes)
           V == Places(rest, 0, Bytes)
<1>1. /\ \A i \in 1 .. Len(q) - p : rest[i] = q[p + i]
      /\ \A i : i \in V <=> i \in Nat /\ p + i \in U
      /\ Cardinality(V) = Cardinality(U)
  BY PlacesShift
<1>2. Len(q) \in Nat /\ p \in Nat  BY LenProperties
<1>3. \A i \in U : i \in p + 1 .. Len(q)  BY DEF Places
<1> HIDE DEF rest, U, V
<1>4. \A i \in V : i \in Nat /\ p + i \in U /\ rest[i] = q[p + i]
  <2> TAKE i \in V
  <2>1. i \in Nat /\ p + i \in U  BY <1>1
  <2>2. i \in 1 .. Len(q) - p  BY <1>2, <1>3, <2>1
  <2> QED BY <1>1, <2>1, <2>2
<1>5. \A i \in U : i - p \in V /\ p + (i - p) = i
  <2> TAKE i \in U
  <2>1. i - p \in Nat /\ p + (i - p) = i  BY <1>2, <1>3
  <2> QED BY <1>1, <2>1
<1>6. {rest[i].buf : i \in V} = {q[i].buf : i \in U}
  <2>1. {rest[i].buf : i \in V} \subseteq {q[i].buf : i \in U}  BY <1>4
  <2>2. {q[i].buf : i \in U} \subseteq {rest[i].buf : i \in V}
    <3> SUFFICES ASSUME NEW i \in U PROVE q[i].buf \in {rest[k].buf : k \in V}
      OBVIOUS
    <3>1. i - p \in V /\ p + (i - p) = i  BY <1>5
    <3>2. rest[i - p] = q[i]  BY <1>4, <3>1
    <3> QED BY <3>1, <3>2
  <2> QED BY <2>1, <2>2
<1>7. ASSUME \A i, j \in U : q[i].buf = q[j].buf => i = j
      PROVE  \A i, j \in V : rest[i].buf = rest[j].buf => i = j
  <2> TAKE i, j \in V
  <2> HAVE rest[i].buf = rest[j].buf
  <2>1. p + i = p + j  BY <1>4, <1>7
  <2>2. i \in Nat /\ j \in Nat  BY <1>4
  <2> QED BY <1>2, <2>1, <2>2
<1> QED BY <1>1, <1>6, <1>7 DEF Held, HeldApart, U, V, rest

LEMMA OwnedInit == ASSUME Init PROVE Owned
<1>1. /\ cfg.uring.buffer \in Nat /\ ring = [i \in 1 .. cfg.uring.buffer |-> i - 1]
      /\ recycled = <<>> /\ cq = <<>> /\ pos = 0
  BY Parameter DEF Init
<1> DEFINE n == cfg.uring.buffer
<1> HIDE DEF n
<1>2. n \in Nat /\ ring = [i \in 1 .. n |-> i - 1]  BY <1>1 DEF n
<1>3. DOMAIN ring = 1 .. n /\ Len(ring) = n /\ \A i \in 1 .. n : ring[i] = i - 1
  <2>1. DOMAIN ring = 1 .. n /\ \A i \in 1 .. n : ring[i] = i - 1 /\ ring[i] \in Int  BY <1>2
  <2>2. ring \in [1 .. n -> Int]  BY <1>2
  <2>3. ring \in Seq(Int)  BY <1>2, <2>2, SeqDef
  <2>4. Len(ring) \in Nat /\ DOMAIN ring = 1 .. Len(ring)  BY <2>3, LenProperties
  <2>5. Len(ring) = n  BY <1>2, <2>1, <2>4
  <2> QED BY <2>1, <2>5
<1>4. NoRepeats(ring)
  <2>1. \A i, j \in 1 .. n : i - 1 = j - 1 => i = j  BY <1>2
  <2> QED BY <1>3, <2>1 DEF NoRepeats
<1>5. ToSet(ring) = 0 .. n - 1
  <2>1. ToSet(ring) = {i - 1 : i \in 1 .. n}  BY <1>2, <1>3 DEF ToSet
  <2>2. \A b \in 0 .. n - 1 : b + 1 \in 1 .. n /\ (b + 1) - 1 = b  BY <1>2
  <2>3. \A i \in 1 .. n : i - 1 \in 0 .. n - 1  BY <1>2
  <2> QED BY <2>1, <2>2, <2>3
<1>6. Places(cq, pos, Bytes) = {} /\ Cardinality(Places(cq, pos, Bytes)) = 0
  <2>1. Places(cq, pos, Bytes) = {}  BY <1>1 DEF Places
  <2> QED BY <2>1, FS_EmptySet
<1>7. Held(cq, pos) = {} /\ HeldApart(cq, pos)  BY <1>6 DEF Held, HeldApart
<1>8. ToSet(recycled) = {} /\ NoRepeats(recycled) /\ Len(recycled) = 0
  BY <1>1 DEF ToSet, NoRepeats
<1>9. ToSet(ring) = Buffers  BY <1>5 DEF Buffers, n
<1>10. Len(ring) + Len(recycled) + Cardinality(Places(cq, pos, Bytes)) = cfg.uring.buffer
  BY <1>2, <1>3, <1>6, <1>8 DEF n
<1> QED BY <1>4, <1>7, <1>8, <1>9, <1>10 DEF Owned

(* Steps that touch neither the buffers nor the queue.                     *)
LEMMA QuietOwned ==
  ASSUME Owned, UNCHANGED <<cfg, ring, recycled, cq, pos>>
  PROVE  Owned'
BY DEF Owned, Held, HeldApart, Buffers

(* A drain begins after one that ended, with nothing to give back.         *)
LEMMA BeginDrainKeeps ==
  ASSUME Inv, BeginDrain
  PROVE  UNCHANGED <<cfg, ring, recycled, cq, pos>> /\ pos = 0
<1>1. pos = 0 /\ Len(recycled) = 0 /\ recycled \in Seq(Buffers)
  <2>1. pos = 0 /\ Len(recycled) <= pos /\ recycled \in Seq(Buffers)
    BY DEF Inv, Books, TypeOK, BeginDrain
  <2> QED BY <2>1, LenProperties
<1>2. recycled = <<>>  BY <1>1, EmptySeq
<1> QED BY <1>1, <1>2 DEF BeginDrain, kernelVars

LEMMA KernelReceiveOwned == ASSUME Inv, Owned, KernelReceive PROVE Owned'
<1>a. TypeOK /\ pos \in 0 .. Len(cq)  BY NumbersHold DEF Inv, Numbers
<1> DEFINE h == Head(ring)
           c == Completion(h, "bytes", Multishot)
<1>1. /\ ring \in Seq(Buffers) /\ ring # <<>> /\ ring' = Tail(ring)
      /\ cq' = Append(cq, c) /\ UNCHANGED <<cfg, recycled, pos>>
  BY <1>a DEF KernelReceive, TypeOK, loopVars
<1>2. /\ h \in Buffers /\ Len(ring') = Len(ring) - 1 /\ NoRepeats(ring')
      /\ h \in ToSet(ring) /\ ToSet(ring') = ToSet(ring) \ {h}
  BY <1>1, HeadApart DEF Owned
<1>3. c \in Cqe_ /\ c.res = "bytes" /\ c.buf = h
  BY <1>2 DEF Completion, Cqe_, Multishot
<1> HIDE DEF h, c
<1>4. h \notin Held(cq, pos)  BY <1>2 DEF Owned
<1>5. Held(cq', pos') = Held(cq, pos) \cup {h} /\ HeldApart(cq', pos')
  BY <1>a, <1>1, <1>3, <1>4, HeldAppend DEF TypeOK, Owned
<1>6. Cardinality(Places(cq', pos', Bytes)) = Cardinality(Places(cq, pos, Bytes)) + 1
  BY <1>a, <1>1, <1>3, PlacesAppend DEF TypeOK, Bytes
<1>7. /\ Cardinality(Places(cq, pos, Bytes)) \in Nat /\ Len(ring) \in Nat /\ Len(recycled) \in Nat
      /\ cfg.uring.buffer \in Nat
  BY <1>a, NumbersHold, PlacesFinite DEF TypeOK, Numbers
<1>8. Len(ring') + Len(recycled') + Cardinality(Places(cq', pos', Bytes)) = cfg'.uring.buffer
  BY <1>1, <1>2, <1>6, <1>7 DEF Owned
<1> QED BY <1>1, <1>2, <1>4, <1>5, <1>8 DEF Owned, Buffers

(* A completion without a buffer.                                          *)
LEMMA CompleteOwned ==
  ASSUME Inv, Owned, NEW c \in Cqe_, c.res # "bytes", cq' = Append(cq, c),
         UNCHANGED <<cfg, ring, recycled, pos>>
  PROVE  Owned'
<1>a. cq \in Seq(Cqe_) /\ pos \in 0 .. Len(cq)  BY NumbersHold DEF Inv, Numbers, TypeOK
<1>1. Held(cq', pos') = Held(cq, pos) /\ HeldApart(cq', pos')
  BY <1>a, HeldAppend DEF Owned
<1>2. /\ Cardinality(Places(cq', pos', Bytes)) = Cardinality(Places(cq, pos, Bytes)) + 0
      /\ Cardinality(Places(cq, pos, Bytes)) \in Nat
  BY <1>a, PlacesAppend, PlacesFinite DEF Bytes
<1> QED BY <1>1, <1>2 DEF Owned, Buffers

(* What the completions without a buffer are.                              *)
LEMMA NoBufferCompletion ==
  ASSUME TypeOK, NEW e \in {"ENOBUFS", "EAGAIN", "errno"}
  PROVE  LET c == Completion(0, e, FALSE) IN c \in Cqe_ /\ c.res = e /\ c.res # "bytes" /\ c.more = FALSE
BY Parameter DEF TypeOK, Completion, Cqe_, Buffers

LEMMA HandleDataOwned == ASSUME Inv, Owned, HandleData PROVE Owned'
<1>a. TypeOK /\ AtCqe  BY DEF Inv, HandleData
<1>1. /\ pos + 1 \in 1 .. Len(cq) /\ Cqe = cq[pos + 1] /\ Cqe.buf \in Buffers
      /\ pos \in Nat /\ pos < Len(cq)
  BY <1>a, AtCompletion, NumbersHold DEF Numbers
<1> DEFINE b == Cqe.buf
<1>2. /\ cq[pos + 1].res = "bytes" /\ recycled' = Append(recycled, b) /\ pos' = pos + 1
      /\ UNCHANGED <<cfg, ring, cq>> /\ b = cq[pos + 1].buf
  BY <1>1 DEF HandleData, kernelVars
<1> HIDE DEF b
<1>3. b \in Held(cq, pos) /\ Held(cq', pos') = Held(cq, pos) \ {b} /\ HeldApart(cq', pos')
  BY <1>a, <1>1, <1>2, HeldNext DEF TypeOK, Owned
<1>4. b \notin ToSet(recycled) /\ b \notin ToSet(ring) /\ b \in Buffers  BY <1>3 DEF Owned
<1>5. /\ NoRepeats(recycled') /\ ToSet(recycled') = ToSet(recycled) \cup {b}
      /\ Len(recycled') = Len(recycled) + 1
  BY <1>a, <1>2, <1>4, AppendApart DEF TypeOK, Owned
<1>6. /\ Cardinality(Places(cq', pos', Bytes)) = Cardinality(Places(cq, pos, Bytes)) - 1
      /\ Cardinality(Places(cq, pos, Bytes)) \in Nat
  BY <1>a, <1>1, <1>2, PlacesNext, PlacesFinite DEF TypeOK, Bytes
<1>7. Len(ring) \in Nat /\ Len(recycled) \in Nat /\ cfg.uring.buffer \in Nat
  BY <1>a, NumbersHold DEF Numbers
<1>8. Len(ring') + Len(recycled') + Cardinality(Places(cq', pos', Bytes)) = cfg'.uring.buffer
  BY <1>2, <1>5, <1>6, <1>7 DEF Owned
<1> QED BY <1>2, <1>3, <1>4, <1>5, <1>8 DEF Owned, Buffers

LEMMA HandleNoBufferOwned == ASSUME Inv, Owned, HandleNoBuffer PROVE Owned'
<1>a. TypeOK /\ AtCqe  BY DEF Inv, HandleNoBuffer
<1>1. pos \in Nat /\ pos < Len(cq) /\ Cqe = cq[pos + 1]
  BY <1>a, AtCompletion, NumbersHold DEF Numbers
<1>2. /\ cq[pos + 1].res # "bytes" /\ pos' = pos + 1 /\ UNCHANGED <<cfg, ring, recycled, cq>>
  BY <1>1 DEF HandleNoBuffer, kernelVars
<1>3. Held(cq', pos') = Held(cq, pos) /\ HeldApart(cq', pos')
  BY <1>a, <1>1, <1>2, HeldNext DEF TypeOK, Owned
<1>4. /\ Cardinality(Places(cq', pos', Bytes)) = Cardinality(Places(cq, pos, Bytes)) - 0
      /\ Cardinality(Places(cq, pos, Bytes)) \in Nat
  BY <1>a, <1>1, <1>2, PlacesNext, PlacesFinite DEF TypeOK, Bytes
<1> QED BY <1>2, <1>3, <1>4 DEF Owned, Buffers

(* Buffers given back by the loop become visible to the kernel.            *)
LEMMA Joins ==
  ASSUME NEW s \in Seq(Buffers), NEW t \in Seq(Buffers), NoRepeats(s), NoRepeats(t),
         ToSet(s) \cap ToSet(t) = {}
  PROVE  /\ s \o t \in Seq(Buffers) /\ NoRepeats(s \o t)
         /\ ToSet(s \o t) = ToSet(s) \cup ToSet(t) /\ Len(s \o t) = Len(s) + Len(t)
BY ConcatApart, ConcatProperties

LEMMA One ==
  ASSUME NEW b \in Buffers
  PROVE  <<b>> \in Seq(Buffers) /\ NoRepeats(<<b>>) /\ ToSet(<<b>>) = {b} /\ Len(<<b>>) = 1
BY DEF NoRepeats, ToSet

(* A drain ends behind completion p, and the ring grows by what the loop   *)
(* has given back; if one more buffer is, then because its completion is   *)
(* the last one that was iterated over.                                    *)
LEMMA EndsOwned ==
  ASSUME TypeOK, NEW p \in 0 .. Len(cq), ReleaseSlots(p), NEW r \in Seq(Buffers), ring' = r,
         recycled' = <<>>, pos' = 0, UNCHANGED cfg,
         NoRepeats(r), HeldApart(cq, p), ToSet(r) \cap Held(cq, p) = {},
         ToSet(r) \cup Held(cq, p) = Buffers,
         Len(r) + Cardinality(Places(cq, p, Bytes)) = cfg.uring.buffer
  PROVE  Owned'
<1>1. /\ Held(cq', 0) = Held(cq, p) /\ HeldApart(cq', 0)
      /\ Cardinality(Places(cq', 0, Bytes)) = Cardinality(Places(cq, p, Bytes))
  BY HeldShift DEF TypeOK, ReleaseSlots
<1>2. ToSet(recycled') = {} /\ NoRepeats(recycled') /\ Len(recycled') = 0
  BY DEF ToSet, NoRepeats
<1>3. Cardinality(Places(cq, p, Bytes)) \in Nat /\ Len(r) \in Nat
  BY PlacesFinite, LenProperties DEF TypeOK
<1>4. Len(r) + 0 = Len(r)  BY <1>3
<1> QED BY <1>1, <1>2, <1>4 DEF Owned, Buffers

LEMMA EarlyReturnOwned ==
  ASSUME Inv, Owned, AtCqe, NEW bs, EarlyReturn(bs), UNCHANGED cfg,
         bs = IF Cqe.res = "bytes" THEN <<Cqe.buf>> ELSE <<>>
  PROVE  Owned'
<1>a. TypeOK  BY DEF Inv
<1>1. /\ pos \in Nat /\ pos < Len(cq) /\ Cqe = cq[pos + 1] /\ Cqe.buf \in Buffers
      /\ pos + 1 \in 0 .. Len(cq) /\ Len(cq) \in Nat
  BY <1>a, AtCompletion, NumbersHold DEF Numbers
<1> DEFINE b == cq[pos + 1].buf
           s == ring \o recycled
           U == Places(cq, pos, Bytes)
           V == Places(cq, pos + 1, Bytes)
<1>2. /\ s \in Seq(Buffers) /\ NoRepeats(s) /\ ToSet(s) = ToSet(ring) \cup ToSet(recycled)
      /\ Len(s) = Len(ring) + Len(recycled)
  BY <1>a, Joins DEF Owned, TypeOK
<1>3. ReleaseSlots(pos + 1) /\ recycled' = <<>> /\ pos' = 0 /\ ring' = s \o bs
  BY DEF EarlyReturn
<1>4. HeldApart(cq, pos + 1)  BY <1>a, <1>1, HeldNext DEF TypeOK, Owned
<1>5. /\ Cardinality(V) = Cardinality(U) - (IF cq[pos + 1].res = "bytes" THEN 1 ELSE 0)
      /\ Cardinality(U) \in Nat
  BY <1>a, <1>1, PlacesNext, PlacesFinite DEF TypeOK, Bytes
<1>6. Len(ring) \in Nat /\ Len(recycled) \in Nat /\ cfg.uring.buffer \in Nat
  BY <1>a, NumbersHold DEF Numbers
<1>7. CASE Cqe.res = "bytes"
  <2>1. b \in Held(cq, pos) /\ Held(cq, pos + 1) = Held(cq, pos) \ {b} /\ b \in Buffers
    BY <1>a, <1>1, <1>7, HeldNext DEF TypeOK, Owned
  <2>2. b \notin ToSet(s)  BY <1>2, <2>1 DEF Owned
  <2> DEFINE r == s \o <<b>>
  <2>3. ring' = r  BY <1>1, <1>3, <1>7
  <2> HIDE DEF s
  <2>4. /\ r \in Seq(Buffers) /\ NoRepeats(r) /\ ToSet(r) = ToSet(s) \cup {b}
        /\ Len(r) = Len(s) + 1
    <3>1. /\ <<b>> \in Seq(Buffers) /\ NoRepeats(<<b>>) /\ ToSet(<<b>>) = {b} /\ Len(<<b>>) = 1
      BY <2>1, One
    <3>2. ToSet(s) \cap ToSet(<<b>>) = {}  BY <2>2, <3>1
    <3> HIDE DEF b
    <3> QED BY <1>2, <3>1, <3>2, Joins
  <2> HIDE DEF r, b, U, V
  <2>5. ToSet(r) \cap Held(cq, pos + 1) = {} /\ ToSet(r) \cup Held(cq, pos + 1) = Buffers
    BY <1>2, <2>1, <2>4 DEF Owned
  <2>6. Len(r) + Cardinality(V) = cfg.uring.buffer
    <3>1. Len(ring) + Len(recycled) + Cardinality(U) = cfg.uring.buffer  BY DEF Owned, U
    <3>2. Cardinality(V) = Cardinality(U) - 1  BY <1>1, <1>5, <1>7
    <3> QED BY <1>2, <1>5, <1>6, <2>4, <3>1, <3>2
  <2> QED BY <1>a, <1>1, <1>3, <1>4, <2>3, <2>4, <2>5, <2>6, EndsOwned DEF V
<1>8. CASE Cqe.res # "bytes"
  <2>1. Held(cq, pos + 1) = Held(cq, pos)
    BY <1>a, <1>1, <1>8, HeldNext DEF TypeOK
  <2>2. ring' = s
    <3>1. bs = <<>>  BY <1>8
    <3> HIDE DEF s
    <3>2. s \o <<>> = s  BY <1>2, ConcatEmptySeq
    <3> QED BY <1>3, <3>1, <3>2
  <2> HIDE DEF s, b, U, V
  <2>3. ToSet(s) \cap Held(cq, pos + 1) = {} /\ ToSet(s) \cup Held(cq, pos + 1) = Buffers
    BY <1>2, <2>1 DEF Owned
  <2>4. Len(s) + Cardinality(V) = cfg.uring.buffer
    <3>1. Len(ring) + Len(recycled) + Cardinality(U) = cfg.uring.buffer  BY DEF Owned, U
    <3>2. Cardinality(V) = Cardinality(U)  BY <1>1, <1>5, <1>8
    <3> QED BY <1>2, <1>5, <1>6, <3>1, <3>2
  <2> QED BY <1>a, <1>1, <1>2, <1>3, <1>4, <2>2, <2>3, <2>4, EndsOwned DEF V
<1> QED BY <1>7, <1>8

LEMMA EndDrainOwned == ASSUME Inv, Owned, EndDrain PROVE Owned'
<1>a. TypeOK  BY DEF Inv
<1>1. /\ pos \in 0 .. Len(cq) /\ ReleaseSlots(pos) /\ ring' = ring \o recycled /\ recycled' = <<>>
      /\ pos' = 0 /\ UNCHANGED cfg
  BY <1>a, NumbersHold DEF EndDrain, Numbers
<1> DEFINE s == ring \o recycled
<1>2. /\ s \in Seq(Buffers) /\ NoRepeats(s) /\ ToSet(s) = ToSet(ring) \cup ToSet(recycled)
      /\ Len(s) = Len(ring) + Len(recycled)
  BY <1>a, Joins DEF Owned, TypeOK
<1>3. ring' = s  BY <1>1
<1> HIDE DEF s
<1>4. /\ HeldApart(cq, pos) /\ ToSet(s) \cap Held(cq, pos) = {} /\ ToSet(s) \cup Held(cq, pos) = Buffers
      /\ Len(s) + Cardinality(Places(cq, pos, Bytes)) = cfg.uring.buffer
  BY <1>2 DEF Owned
<1> QED BY <1>a, <1>1, <1>2, <1>3, <1>4, EndsOwned

LEMMA StepOwned == ASSUME Inv, Owned, [Next]_vars PROVE Owned'
<1>1. CASE UNCHANGED vars \/ SqThread \/ \E t \in TestIds : Arrive(t)
  BY <1>1, QuietOwned DEF vars, kernelVars, loopVars, SqThread, Arrive
<1>2. CASE Fill \/ Arm \/ Enter \/ BeginDrain
  BY <1>2, QuietOwned, BeginDrainKeeps DEF Fill, Arm, Enter
<1>3. CASE KernelReceive  BY <1>3, KernelReceiveOwned
<1>4. CASE KernelNoBuffer \/ KernelFail
  <2>1. PICK e \in {"ENOBUFS", "EAGAIN", "errno"} : cq' = Append(cq, Completion(0, e, FALSE))
    BY <1>4 DEF KernelNoBuffer, KernelFail
  <2>2. UNCHANGED <<cfg, ring, recycled, pos>>  BY <1>4 DEF KernelNoBuffer, KernelFail, loopVars
  <2> QED BY <2>1, <2>2, NoBufferCompletion, CompleteOwned DEF Inv
<1>5. CASE HandleData  BY <1>5, HandleDataOwned
<1>6. CASE HandleNoBuffer  BY <1>6, HandleNoBufferOwned
<1>7. CASE HandleControl  BY <1>7, EarlyReturnOwned DEF HandleControl
<1>8. CASE HandleBad  BY <1>8, EarlyReturnOwned DEF HandleBad
<1>9. CASE HandleError
  BY <1>9, EarlyReturnOwned DEF HandleError
<1>10. CASE EndDrain  BY <1>10, EndDrainOwned
<1> QED BY <1>1, <1>2, <1>3, <1>4, <1>5, <1>6, <1>7, <1>8, <1>9, <1>10 DEF Next, LoopStep, KernelStep

LEMMA AlwaysOwned == Spec => [](Inv /\ Owned)
<1>1. Init => Inv /\ Owned  BY InitInv, OwnedInit
<1>2. Inv /\ Owned /\ [Next]_vars => (Inv /\ Owned)'  BY NextInv, StepOwned
<1> QED BY <1>1, <1>2, PTL DEF Spec

(* Every buffer is in one place at every moment, whatever returns early:   *)
(* the ring's, the loop's or a completion's (receiver.rs 259-318).         *)
THEOREM BuffersAreConserved == Spec => []EachBufferOnce
<1>1. Owned => EachBufferOnce  BY DEF Owned, EachBufferOnce, Held, Unparsed, Bytes
<1> QED BY <1>1, AlwaysOwned, PTL
-----------------------------------------------------------------------------
(* The order in which messages are parsed.                                 *)

LEMMA OrderIs ==
  /\ HandledInOrder = Ordered(cq, pos, content, taken, handled)
  /\ HandledInOrder' = Ordered(cq', pos', content', taken', handled')
BY DEF HandledInOrder, Ordered, Unparsed, Waiting, Messages, Bytes

LEMMA QueueNumbers ==
  ASSUME Inv
  PROVE  /\ cq \in Seq(Cqe_) /\ content \in [Buffers -> Message]
         /\ taken \in Seq(Message) /\ handled \in Seq(Message)
         /\ Len(cq) \in Nat /\ pos \in Nat /\ pos <= Len(cq)
BY NumbersHold DEF Inv, Numbers, TypeOK

LEMMA QuietOrder ==
  ASSUME HandledInOrder, UNCHANGED <<cq, pos, content, taken, handled>>
  PROVE  HandledInOrder'
BY OrderIs

(* The kernel writes to a buffer of the ring, and no message that is still *)
(* to be parsed is in one.                                                 *)
LEMMA KernelReceiveOrder ==
  ASSUME Inv, Owned, HandledInOrder, KernelReceive
  PROVE  HandledInOrder'
<1> DEFINE h == Head(ring)
           x == Head(sockq)
           c == Completion(h, "bytes", Multishot)
<1>1. h \in Buffers /\ h \in ToSet(ring) /\ x \in Message
  BY HeadApart, HeadTailProperties DEF KernelReceive, Inv, TypeOK, Owned
<1>2. /\ cq' = Append(cq, c) /\ c \in Cqe_ /\ c.res = "bytes" /\ c.buf = h /\ pos' = pos
      /\ content' = [content EXCEPT ![h] = x] /\ taken' = Append(taken, x) /\ handled' = handled
  BY <1>1 DEF KernelReceive, loopVars, Completion, Cqe_, Multishot
<1> HIDE DEF h, x, c
<1>3. \A i \in Waiting(cq, pos) : content'[cq[i].buf] = content[cq[i].buf]
  <2> TAKE i \in Waiting(cq, pos)
  <2>1. cq[i].buf \in Held(cq, pos)  BY DEF Held, Waiting
  <2>2. cq[i].buf \in Buffers /\ cq[i].buf # h  BY <1>1, <2>1 DEF Owned
  <2> QED BY <1>2, <2>2, QueueNumbers
<1>4. content'[c.buf] = x  BY <1>1, <1>2, QueueNumbers
<1>5. Ordered(cq, pos, content, taken, handled)  BY OrderIs
<1>6. Ordered(Append(cq, c), pos, content', Append(taken, x), handled)
  BY <1>1, <1>2, <1>3, <1>4, <1>5, QueueNumbers, OrderedReceive
<1> QED BY <1>2, <1>6, OrderIs

LEMMA CompleteOrder ==
  ASSUME Inv, HandledInOrder, NEW c \in Cqe_, c.res # "bytes", cq' = Append(cq, c),
         UNCHANGED <<pos, content, taken, handled>>
  PROVE  HandledInOrder'
<1>1. Ordered(cq, pos, content, taken, handled)  BY OrderIs
<1>2. Ordered(Append(cq, c), pos, content, taken, handled)
  BY <1>1, QueueNumbers, OrderedSkip
<1> QED BY <1>2, OrderIs

(* The loop has iterated over the completion at hand: what it parsed is    *)
(* in order, before anything is released.                                  *)
Read == IF Cqe.res = "bytes" THEN Append(handled, CqeMessage) ELSE handled

LEMMA ReadInOrder ==
  ASSUME Inv, HandledInOrder, AtCqe
  PROVE  /\ Ordered(cq, pos + 1, content, taken, Read) /\ Read \in Seq(Message)
         /\ pos + 1 \in Nat /\ pos + 1 <= Len(cq)
<1>1. /\ pos \in Nat /\ pos < Len(cq) /\ pos + 1 \in Nat /\ pos + 1 <= Len(cq)
      /\ Cqe = cq[pos + 1] /\ CqeMessage \in Message
      /\ CqeMessage = content[cq[pos + 1].buf]
  BY AtCompletion, QueueNumbers DEF Inv, CqeMessage
<1>2. Ordered(cq, pos, content, taken, handled)  BY OrderIs
<1>3. Ordered(cq, pos + 1, content, taken, Read)
  BY <1>1, <1>2, QueueNumbers, OrderedRead DEF Read
<1> QED BY <1>1, <1>3, QueueNumbers, AppendProperties DEF Read

LEMMA ReleaseInOrder ==
  ASSUME Inv, NEW p \in Nat, p <= Len(cq), ReleaseSlots(p), NEW done \in Seq(Message),
         Ordered(cq, p, content, taken, done), pos' = 0, handled' = done, UNCHANGED <<content, taken>>
  PROVE  HandledInOrder'
<1>1. Ordered(SubSeq(cq, p + 1, Len(cq)), 0, content, taken, done)
  BY QueueNumbers, OrderedRelease
<1> QED BY <1>1, OrderIs DEF ReleaseSlots

LEMMA StepOrder ==
  ASSUME Inv, Owned, HandledInOrder, [Next]_vars
  PROVE  HandledInOrder'
<1>1. CASE UNCHANGED vars \/ SqThread \/ \E t \in TestIds : Arrive(t)
  BY <1>1, QuietOrder DEF vars, kernelVars, loopVars, SqThread, Arrive
<1>2. CASE Fill \/ Arm \/ Enter
  BY <1>2, QuietOrder DEF Fill, Arm, Enter
<1>3. CASE BeginDrain
  BY <1>3, QuietOrder, BeginDrainKeeps DEF BeginDrain, kernelVars
<1>4. CASE KernelReceive  BY <1>4, KernelReceiveOrder
<1>5. CASE KernelNoBuffer \/ KernelFail
  <2>1. PICK e \in {"ENOBUFS", "EAGAIN", "errno"} : cq' = Append(cq, Completion(0, e, FALSE))
    BY <1>5 DEF KernelNoBuffer, KernelFail
  <2>2. UNCHANGED <<pos, content, taken, handled>>  BY <1>5 DEF KernelNoBuffer, KernelFail, loopVars
  <2> QED BY <2>1, <2>2, NoBufferCompletion, CompleteOrder DEF Inv
<1>6. CASE HandleData \/ HandleNoBuffer
  <2>1. AtCqe /\ pos' = pos + 1 /\ handled' = Read /\ UNCHANGED <<cq, content, taken>>
    BY <1>6 DEF HandleData, HandleNoBuffer, Parse, Read, kernelVars
  <2> QED BY <2>1, ReadInOrder, OrderIs
<1>7. CASE HandleControl \/ HandleBad \/ HandleError
  <2>1. /\ AtCqe /\ ReleaseSlots(pos + 1) /\ pos' = 0 /\ handled' = Read
        /\ UNCHANGED <<content, taken>>
    BY <1>7 DEF HandleControl, HandleBad, HandleError, EarlyReturn, Parse, Read
  <2> QED BY <2>1, ReadInOrder, ReleaseInOrder
<1>8. CASE EndDrain
  <2>1. ReleaseSlots(pos) /\ pos' = 0 /\ handled' = handled /\ UNCHANGED <<content, taken>>
    BY <1>8 DEF EndDrain
  <2> QED BY <2>1, OrderIs, QueueNumbers, ReleaseInOrder
<1> QED BY <1>1, <1>2, <1>3, <1>4, <1>5, <1>6, <1>7, <1>8 DEF Next, LoopStep, KernelStep

LEMMA InitOrder == ASSUME Init PROVE HandledInOrder
BY OrderedNone, OrderIs DEF Init

(* Every datagram the kernel delivered is parsed once, in order, and as it *)
(* was delivered: no early return skips or repeats a completion, and the   *)
(* kernel never overwrites a message that is still to be parsed            *)
(* (receiver.rs 259-318, provided_buffer.rs 46-69).                        *)
THEOREM MessagesKeepTheirOrder == Spec => []HandledInOrder
<1>1. Init => HandledInOrder  BY InitOrder
<1>2. (Inv /\ Owned) /\ HandledInOrder /\ [Next]_vars => HandledInOrder'  BY StepOrder
<1> QED BY <1>1, <1>2, AlwaysOwned, PTL DEF Spec
-----------------------------------------------------------------------------
(* A multishot receiver hears of every datagram.  While no request fails,  *)
(* a completion with data says that its request is still armed, one with   *)
(* ENOBUFS that it is not, and nothing follows on the last request's.      *)

Alive(p) == Requests > 0 \/ \E i \in p + 1 .. Len(cq) : ~cq[i].more

Reliable == Multishot /\ ~cfg.faults

Listening ==
  Reliable =>
    /\ \A i \in 1 .. Len(cq) : cq[i].res \in {"bytes", "ENOBUFS"} /\ (cq[i].res = "bytes" => cq[i].more)
    /\ Requests = 0 /\ Len(cq) > 0 => ~cq[Len(cq)].more
    /\ pc \in {"enter", "drain"} \/ (pc = "fill" /\ armed) => Alive(0)
    /\ pc = "cqe" /\ stillArmed => Alive(pos)

LEMMA Kinds ==
  ASSUME Inv
  PROVE  /\ Requests \in Nat /\ sq \in Nat /\ kern \in Nat /\ Len(cq) \in Nat /\ pos \in Nat /\ pos <= Len(cq)
         /\ \A i \in 1 .. Len(cq) : cq[i].more \in BOOLEAN
         /\ cfg.faults \in BOOLEAN /\ armed \in BOOLEAN /\ stillArmed \in BOOLEAN
<1>1. cfg.faults \in BOOLEAN /\ armed \in BOOLEAN /\ stillArmed \in BOOLEAN
  BY ConfigsAssumption DEF Inv, TypeOK
<1>2. \A i \in 1 .. Len(cq) : cq[i].more \in BOOLEAN
  <2>1. \A i \in 1 .. Len(cq) : cq[i] \in Cqe_  BY ElementOfSeq DEF Inv, TypeOK
  <2> QED BY <2>1 DEF Cqe_
<1> QED BY <1>1, <1>2, NumbersHold DEF Inv, Numbers

LEMMA QuietListening ==
  ASSUME Listening, Requests' = Requests, UNCHANGED <<cfg, cq, pos, pc, stillArmed, armed>>
  PROVE  Listening'
BY DEF Listening, Alive, Reliable, Multishot

(* A request gets a completion, or is done.                                *)
LEMMA KernelListening ==
  ASSUME Inv, Listening, KernelReceive \/ KernelNoBuffer \/ KernelFail
  PROVE  Listening'
<1> SUFFICES ASSUME Reliable' PROVE Listening'
  BY DEF Listening
<1>1. UNCHANGED <<cfg, pos, pc, stillArmed, armed, sq>> /\ kern > 0
  BY DEF KernelReceive, KernelNoBuffer, KernelFail, loopVars
<1>2. Reliable  BY <1>1 DEF Reliable, Multishot
<1>3. PICK c \in Cqe_ :
        /\ cq' = Append(cq, c)
        /\ \/ c.res = "bytes" /\ c.more /\ kern' = kern
           \/ c.res = "ENOBUFS" /\ ~c.more
  <2>1. CASE KernelReceive
    <3>1. Head(ring) \in Buffers  BY <2>1, HeadTailProperties DEF KernelReceive, Inv, TypeOK
    <3> DEFINE c == Completion(Head(ring), "bytes", Multishot)
    <3>2. c \in Cqe_ /\ c.res = "bytes" /\ c.more  BY <1>2, <3>1 DEF Completion, Cqe_, Multishot, Reliable
    <3>3. kern' = kern /\ cq' = Append(cq, c)  BY <1>2, <2>1 DEF KernelReceive, Reliable
    <3> QED BY <3>2, <3>3
  <2>2. CASE KernelNoBuffer
    <3>1. cq' = Append(cq, Completion(0, "ENOBUFS", FALSE))  BY <2>2 DEF KernelNoBuffer
    <3> QED BY <3>1, NoBufferCompletion DEF Inv
  <2>3. CASE KernelFail  BY <1>2, <2>3 DEF KernelFail, Reliable
  <2> QED BY <2>1, <2>2, <2>3
<1>4. /\ Len(cq) \in Nat /\ pos \in Nat /\ pos <= Len(cq) /\ sq \in Nat /\ kern \in Nat
      /\ \A i \in 1 .. Len(cq) : cq[i].more \in BOOLEAN
  BY Kinds
<1>5. /\ Len(cq') = Len(cq) + 1 /\ \A i \in 1 .. Len(cq) : cq'[i] = cq[i]
      /\ cq'[Len(cq) + 1] = c
  BY <1>3, AppendCompletion DEF Inv, TypeOK
<1>6. \A i \in 1 .. Len(cq') : cq'[i].res \in {"bytes", "ENOBUFS"} /\ (cq'[i].res = "bytes" => cq'[i].more)
  <2> TAKE i \in 1 .. Len(cq')
  <2>1. CASE i \in 1 .. Len(cq)  BY <1>2, <1>5, <2>1 DEF Listening
  <2>2. CASE i = Len(cq) + 1  BY <1>3, <1>5, <2>2
  <2> QED BY <1>4, <1>5, <2>1, <2>2
<1>7. Requests' > 0 \/ ~cq'[Len(cq')].more
  BY <1>1, <1>3, <1>4, <1>5 DEF Requests
<1>8. \A p \in 0 .. Len(cq) : Requests' > 0 \/ \E i \in p + 1 .. Len(cq') : ~cq'[i].more
  <2> TAKE p \in 0 .. Len(cq)
  <2>1. Len(cq') \in p + 1 .. Len(cq')  BY <1>4, <1>5
  <2> QED BY <1>7, <2>1
<1>9. Alive(0)' /\ Alive(pos)'  BY <1>1, <1>4, <1>8 DEF Alive
<1> QED BY <1>4, <1>6, <1>7, <1>9 DEF Listening

(* What was true of the queue behind position p is true after its release. *)
LEMMA ReleaseListening ==
  ASSUME Inv, Listening, Reliable, NEW p \in 0 .. Len(cq), ReleaseSlots(p), UNCHANGED <<sq, kern>>
  PROVE  /\ \A i \in 1 .. Len(cq') :
              cq'[i].res \in {"bytes", "ENOBUFS"} /\ (cq'[i].res = "bytes" => cq'[i].more)
         /\ Requests' = 0 /\ Len(cq') > 0 => ~cq'[Len(cq')].more
         /\ Alive(p) => Alive(0)'
<1>1. Len(cq) \in Nat /\ p \in Nat /\ Requests \in Nat /\ Requests' = Requests
  BY Kinds DEF Requests
<1>2. /\ Len(cq') = Len(cq) - p
      /\ \A i \in 1 .. (Len(cq) - p) : cq'[i] = cq[p + i]
  BY Release DEF Inv, TypeOK
<1>3. /\ \A i \in 1 .. Len(cq) : cq[i].res \in {"bytes", "ENOBUFS"} /\ (cq[i].res = "bytes" => cq[i].more)
      /\ Requests = 0 /\ Len(cq) > 0 => ~cq[Len(cq)].more
  BY DEF Listening
<1>4. \A i \in 1 .. Len(cq') : cq'[i] = cq[p + i] /\ p + i \in 1 .. Len(cq)  BY <1>1, <1>2
<1>5. Len(cq') > 0 => cq'[Len(cq')] = cq[Len(cq)] /\ Len(cq) > 0
  <2> HAVE Len(cq') > 0
  <2>1. Len(cq') \in 1 .. Len(cq') /\ p + Len(cq') = Len(cq)  BY <1>1, <1>2
  <2> QED BY <1>1, <1>2, <1>4, <2>1
<1>6. Alive(p) => Alive(0)'
  <2> SUFFICES ASSUME NEW i \in p + 1 .. Len(cq), ~cq[i].more
               PROVE  \E j \in 0 + 1 .. Len(cq') : ~cq'[j].more
    BY <1>1 DEF Alive
  <2>1. i - p \in 0 + 1 .. Len(cq') /\ p + (i - p) = i  BY <1>1, <1>2
  <2>2. cq'[i - p] = cq[i]  BY <1>1, <1>2, <2>1
  <2> QED BY <2>1, <2>2
<1> QED BY <1>1, <1>3, <1>4, <1>5, <1>6

(* Reading a completion that leaves its request armed loses nothing.       *)
LEMMA ReadListening ==
  ASSUME Inv, Listening, Reliable, AtCqe, Cqe.more
  PROVE  /\ Alive(pos) => Alive(pos + 1)
         /\ Alive(pos + 1)
<1>1. /\ pos \in Nat /\ pos + 1 \in 1 .. Len(cq) /\ Cqe = cq[pos + 1] /\ Len(cq) \in Nat
      /\ Requests \in Nat
  BY AtCompletion, Kinds DEF Inv
<1>2. Requests = 0 => ~cq[Len(cq)].more  BY <1>1 DEF Listening, Reliable
<1>3. CASE Requests = 0
  <2>1. Len(cq) # pos + 1  BY <1>1, <1>2, <1>3
  <2>2. Len(cq) \in (pos + 1) + 1 .. Len(cq)  BY <1>1, <2>1
  <2> QED BY <1>2, <1>3, <2>2 DEF Alive
<1>4. CASE Requests > 0  BY <1>4 DEF Alive
<1> QED BY <1>1, <1>3, <1>4

LEMMA LoopListening ==
  ASSUME Inv, Listening, Arm \/ Enter \/ BeginDrain \/ HandleData \/ HandleNoBuffer
  PROVE  Listening'
<1> SUFFICES ASSUME Reliable' PROVE Listening'
  BY DEF Listening
<1>1. UNCHANGED <<cfg, cq>>
  BY DEF Arm, Enter, BeginDrain, HandleData, HandleNoBuffer, kernelVars
<1>2. Reliable /\ Multishot  BY <1>1 DEF Reliable, Multishot
<1>3. sq \in Nat /\ kern \in Nat /\ Requests \in Nat /\ Len(cq) \in Nat  BY Kinds
<1>4. /\ \A i \in 1 .. Len(cq) : cq[i].res \in {"bytes", "ENOBUFS"} /\ (cq[i].res = "bytes" => cq[i].more)
      /\ Requests = 0 /\ Len(cq) > 0 => ~cq[Len(cq)].more
      /\ pc \in {"enter", "drain"} \/ (pc = "fill" /\ armed) => Alive(0)
      /\ pc = "cqe" /\ stillArmed => Alive(pos)
  BY <1>2 DEF Listening
<1>5. CASE Arm
  <2>1. UNCHANGED <<pos, stillArmed, armed>> /\ pc = "fill" /\ pc' \in {"enter", "failed"}
    BY <1>5 DEF Arm
  <2>2. Requests' >= Requests /\ (pc' = "enter" => armed \/ Requests' > 0)
    BY <1>3, <1>5 DEF Arm, Requests
  <2>3. pc' = "enter" => Alive(0)'
    <3>1. Requests' \in Nat  BY <1>3, <1>5 DEF Arm, Requests
    <3>2. armed => Alive(0)  BY <1>4, <2>1
    <3>3. Alive(0) => Alive(0)'  BY <1>1, <1>3, <2>2, <3>1 DEF Alive
    <3>4. Requests' > 0 => Alive(0)'  BY DEF Alive
    <3> QED BY <2>2, <3>2, <3>3, <3>4
  <2>4. Requests' = 0 => Requests = 0  BY <1>3, <2>2, <1>5 DEF Arm, Requests
  <2> QED BY <1>1, <1>4, <2>1, <2>3, <2>4 DEF Listening
<1>6. CASE Enter
  <2>1. Requests' = Requests  BY <1>3, <1>6 DEF Enter, Requests
  <2>2. pc = "enter" /\ pc' = "drain"  BY <1>2, <1>6 DEF Enter, Reliable
  <2>3. Alive(0)'  BY <1>1, <1>4, <2>1, <2>2 DEF Alive
  <2> QED BY <1>1, <1>4, <2>1, <2>2, <2>3 DEF Listening
<1>7. CASE BeginDrain
  <2>1. Requests' = Requests  BY <1>7 DEF BeginDrain, kernelVars, Requests
  <2>2. pc = "drain" /\ pc' = "cqe" /\ pos' = 0  BY <1>7 DEF BeginDrain
  <2>3. Alive(pos)'  BY <1>1, <1>4, <2>1, <2>2 DEF Alive
  <2> QED BY <1>1, <1>4, <2>1, <2>2, <2>3 DEF Listening
<1>8. CASE HandleData \/ HandleNoBuffer
  <2>1. /\ Requests' = Requests /\ AtCqe /\ pc = "cqe" /\ pc' = pc /\ pos' = pos + 1
        /\ stillArmed' = (stillArmed /\ Cqe.more)
    BY <1>2, <1>8 DEF HandleData, HandleNoBuffer, kernelVars, Requests, AtCqe, NoteArmed
  <2>2. stillArmed' => Alive(pos + 1)  BY <1>2, <2>1, ReadListening
  <2>3. stillArmed' => Alive(pos)'  BY <1>1, <2>1, <2>2 DEF Alive
  <2> QED BY <1>1, <1>4, <2>1, <2>3 DEF Listening
<1> QED BY <1>5, <1>6, <1>7, <1>8

LEMMA ReturnListening ==
  ASSUME Inv, Listening, HandleControl \/ HandleBad \/ HandleError \/ EndDrain
  PROVE  Listening'
<1> SUFFICES ASSUME Reliable' PROVE Listening'
  BY DEF Listening
<1>1. UNCHANGED <<cfg, sq, kern>> /\ pc' \notin {"enter", "drain", "cqe"} /\ pc = "cqe"
  BY DEF HandleControl, HandleBad, HandleError, EndDrain, AtCqe
<1>2. Reliable /\ Multishot  BY <1>1 DEF Reliable, Multishot
<1>3. \A i \in 1 .. Len(cq) : cq[i].res \in {"bytes", "ENOBUFS"} /\ (cq[i].res = "bytes" => cq[i].more)
  BY <1>2 DEF Listening
<1>4. CASE HandleControl \/ HandleBad \/ HandleError
  <2>1. AtCqe /\ ReleaseSlots(pos + 1) /\ armed' = armed
    BY <1>4 DEF HandleControl, HandleBad, HandleError, EarlyReturn
  <2>2. pos + 1 \in 0 .. Len(cq) /\ pos + 1 \in 1 .. Len(cq) /\ Cqe = cq[pos + 1]
    BY <2>1, AtCompletion, Kinds DEF Inv
  <2>3. Cqe.more  BY <1>3, <1>4, <2>2 DEF HandleControl, HandleBad, HandleError
  <2>4. Alive(pos + 1)  BY <1>2, <2>1, <2>3, ReadListening
  <2>5. /\ \A i \in 1 .. Len(cq') :
             cq'[i].res \in {"bytes", "ENOBUFS"} /\ (cq'[i].res = "bytes" => cq'[i].more)
        /\ Requests' = 0 /\ Len(cq') > 0 => ~cq'[Len(cq')].more
        /\ Alive(0)'
    BY <1>1, <1>2, <2>1, <2>2, <2>4, ReleaseListening
  <2> QED BY <1>1, <2>5 DEF Listening
<1>5. CASE EndDrain
  <2>1. ReleaseSlots(pos) /\ armed' = stillArmed  BY <1>2, <1>5 DEF EndDrain
  <2>2. pos \in 0 .. Len(cq)  BY Kinds
  <2>3. stillArmed => Alive(pos)  BY <1>1, <1>2 DEF Listening
  <2>4. /\ \A i \in 1 .. Len(cq') :
             cq'[i].res \in {"bytes", "ENOBUFS"} /\ (cq'[i].res = "bytes" => cq'[i].more)
        /\ Requests' = 0 /\ Len(cq') > 0 => ~cq'[Len(cq')].more
        /\ Alive(pos) => Alive(0)'
    BY <1>1, <1>2, <2>1, <2>2, ReleaseListening
  <2> QED BY <1>1, <2>1, <2>3, <2>4 DEF Listening
<1> QED BY <1>4, <1>5

LEMMA StepListening == ASSUME Inv, Listening, [Next]_vars PROVE Listening'
<1>1. CASE UNCHANGED vars \/ SqThread \/ \E t \in TestIds : Arrive(t)
  <2>1. UNCHANGED <<cfg, cq, pos, pc, stillArmed, armed>>
    BY <1>1 DEF vars, kernelVars, loopVars, SqThread, Arrive
  <2>2. Requests' = Requests
    BY <1>1, Kinds DEF vars, kernelVars, SqThread, Arrive, Requests
  <2> QED BY <2>1, <2>2, QuietListening
<1>2. CASE Fill
  <2>1. ~Multishot' BY <1>2 DEF Fill, Provided, Multishot
  <2> QED BY <2>1 DEF Listening, Reliable
<1>3. CASE KernelReceive \/ KernelNoBuffer \/ KernelFail  BY <1>3, KernelListening
<1>4. CASE Arm \/ Enter \/ BeginDrain \/ HandleData \/ HandleNoBuffer  BY <1>4, LoopListening
<1>5. CASE HandleControl \/ HandleBad \/ HandleError \/ EndDrain  BY <1>5, ReturnListening
<1> QED BY <1>1, <1>2, <1>3, <1>4, <1>5 DEF Next, LoopStep, KernelStep

(* A receiver that believes its multishot request armed has one armed, or  *)
(* the news that it is not is still to come: an early return may drop what *)
(* it noted, but never the last of it (receiver.rs 321-385, 436-470).     *)
THEOREM NeverDeaf == Spec => []NotDeaf
<1>1. Init => Listening
  <2> HAVE Init
  <2>1. Len(cq) = 0 /\ pc = "fill" /\ armed = FALSE  BY DEF Init
  <2> QED BY <2>1 DEF Listening
<1>2. Inv /\ Listening /\ [Next]_vars => Listening'  BY StepListening
<1>3. Inv /\ Listening => NotDeaf
  <2> SUFFICES ASSUME Inv, Listening, Reliable, pc = "fill", armed
               PROVE  sq + kern > 0 \/ \E i \in DOMAIN cq : ~cq[i].more
    BY DEF NotDeaf, Reliable
  <2>1. Alive(0) /\ DOMAIN cq = 1 .. Len(cq)  BY LenProperties DEF Listening, Inv, TypeOK
  <2> QED BY <2>1 DEF Alive, Requests
<1> QED BY <1>1, <1>2, <1>3, AlwaysInv, PTL DEF Spec
=============================================================================
