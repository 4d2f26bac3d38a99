------------------------ MODULE UringRecvNormal_proof ------------------------
(***************************************************************************)
(* Proofs about UringRecvNormal for every ring, number of buffers, burst,  *)
(* fill mode, set of tests, and number of messages.                        *)
(***************************************************************************)
EXTENDS UringRecvNormal, CommonLemmas, FiniteSetTheorems, SequenceTheorems, TLAPS

(* The books of the loop: what it collected is what the completions it has *)
(* iterated over refer to, and amount_inflight is what the pool lacks.     *)
Books ==
  /\ pc # "cqe" => pos = 0
  /\ indexPool = {cq[i].buf : i \in 1 .. pos}
  /\ Cardinality(indexPool) = completed
  /\ inflight = PoolInflight

Inv == TypeOK /\ SingleOwner /\ Books
-----------------------------------------------------------------------------
LEMMA BuffersFinite ==
  ASSUME TypeOK
  PROVE  /\ IsFiniteSet(Buffers)
         /\ Cardinality(Buffers) = cfg.uring.buffer
         /\ cfg.uring.buffer \in Nat \ {0}
<1>1. cfg.uring.buffer \in Nat /\ cfg.uring.ring \in Nat \ {0} /\ cfg.uring.ring <= cfg.uring.buffer
  BY ConfigsAssumption DEF TypeOK, UringParameter
<1> DEFINE n == cfg.uring.buffer
<1>2. n \in Nat \ {0}  BY <1>1
<1> HIDE DEF n
<1>3. n - 1 \in Int /\ 0 \in Int /\ ~(0 > n - 1) /\ (n - 1) - 0 + 1 = n  BY <1>2
<1>4. IsFiniteSet(0 .. (n - 1)) /\ Cardinality(0 .. (n - 1)) = n  BY <1>3, FS_Interval
<1> QED BY <1>2, <1>4 DEF Buffers, n

(* Any set of buffers is finite and no larger than the pool at the start.  *)
LEMMA BufferSetFinite ==
  ASSUME TypeOK, NEW B \in SUBSET Buffers
  PROVE  /\ IsFiniteSet(B)
         /\ Cardinality(B) \in Nat
         /\ Cardinality(B) <= cfg.uring.buffer
BY BuffersFinite, FS_Subset, FS_CardinalityType

(* A subset that is taken away leaves the rest.                            *)
LEMMA TakeAway ==
  ASSUME NEW S, IsFiniteSet(S), NEW T \in SUBSET S
  PROVE  Cardinality(S \ T) = Cardinality(S) - Cardinality(T)
<1>1. IsFiniteSet(T) /\ IsFiniteSet(S \ T)  BY FS_Subset
<1>2. S = (S \ T) \cup T /\ (S \ T) \cap T = {}  OBVIOUS
<1>3. Cardinality(S) = Cardinality(S \ T) + Cardinality(T) - Cardinality((S \ T) \cap T)
  BY <1>1, <1>2, FS_Union
<1>4. Cardinality(S \ T) \in Nat /\ Cardinality(T) \in Nat  BY <1>1, FS_CardinalityType
<1> QED BY <1>2, <1>3, <1>4, FS_EmptySet

LEMMA AppendCompletion ==
  ASSUME NEW q \in Seq(Cqe_), NEW c \in Cqe_
  PROVE  /\ Append(q, c) \in Seq(Cqe_)
         /\ Len(Append(q, c)) = Len(q) + 1
         /\ \A i \in 1 .. Len(q) : Append(q, c)[i] = q[i]
         /\ Append(q, c)[Len(q) + 1] = c
BY AppendProperties

LEMMA Release ==
  ASSUME cq \in Seq(Cqe_), NEW n \in 0 .. Len(cq), ReleaseSlots(n)
  PROVE  /\ cq' \in Seq(Cqe_)
         /\ Len(cq') = Len(cq) - n
         /\ \A i \in 1 .. (Len(cq) - n) : cq'[i] = cq[n + i]
<1>1. Len(cq) \in Nat /\ \A i \in 1 .. Len(cq) : cq[i] \in Cqe_  BY LenProperties, ElementOfSeq
<1>2. n + 1 \in Int /\ Len(cq) \in Int /\ \A i \in (n + 1) .. Len(cq) : cq[i] \in Cqe_  BY <1>1
<1>3. /\ SubSeq(cq, n + 1, Len(cq)) \in Seq(Cqe_)
      /\ Len(SubSeq(cq, n + 1, Len(cq))) = IF n + 1 <= Len(cq) THEN Len(cq) - (n + 1) + 1 ELSE 0
      /\ \A i \in 1 .. (Len(cq) - (n + 1) + 1) :
           SubSeq(cq, n + 1, Len(cq))[i] = cq[(n + 1) + i - 1]
  BY <1>2, SubSeqProperties
<1> QED BY <1>1, <1>3 DEF ReleaseSlots

(* What a release of slots means for the buffers in the queue.             *)
LEMMA ReleaseOwners ==
  ASSUME Inv, NEW n \in 0 .. Len(cq), ReleaseSlots(n), pool' = pool \cup indexPool \/ pool' = pool,
         pool' # pool => n = pos, sq' = sq, kern' = kern
  PROVE  SingleOwner'
<1>1. cq \in Seq(Cqe_) /\ Len(cq) \in Nat /\ DOMAIN cq = 1 .. Len(cq)
  BY LenProperties DEF Inv, TypeOK
<1>2. /\ cq' \in Seq(Cqe_)
      /\ Len(cq') = Len(cq) - n
      /\ \A i \in 1 .. (Len(cq) - n) : cq'[i] = cq[n + i]
  BY <1>1, Release
<1>3. DOMAIN cq' = 1 .. (Len(cq) - n)  BY <1>2, LenProperties
<1>4. \A i \in DOMAIN cq' : n + i \in DOMAIN cq /\ cq'[i] = cq[n + i]  BY <1>1, <1>2, <1>3
<1>5. CqBuffers' \subseteq CqBuffers  BY <1>4 DEF CqBuffers
<1>6. \A i, j \in DOMAIN cq' : cq'[i].buf = cq'[j].buf => i = j
  <2> SUFFICES ASSUME NEW i \in DOMAIN cq', NEW j \in DOMAIN cq', cq'[i].buf = cq'[j].buf
               PROVE  i = j
    OBVIOUS
  <2>1. n + i = n + j  BY <1>4 DEF Inv, SingleOwner
  <2> QED BY <2>1, <1>1, <1>3
<1>7. pos \in Nat /\ pos <= Len(cq)  BY <1>1 DEF Inv, TypeOK
<1>8. indexPool \subseteq CqBuffers  BY <1>1, <1>7 DEF Inv, Books, CqBuffers
<1>9. pool' # pool => CqBuffers' \cap indexPool = {}
  <2> SUFFICES ASSUME n = pos, NEW i \in DOMAIN cq', NEW j \in 1 .. pos, cq'[i].buf = cq[j].buf
               PROVE  FALSE
    BY DEF CqBuffers, Inv, Books
  <2>1. j \in DOMAIN cq  BY <1>1, <1>7
  <2>2. n + i = j  BY <2>1, <1>4 DEF Inv, SingleOwner
  <2> QED BY <2>2, <1>1, <1>3, <1>7
<1>10. /\ pool' \cap sq' = {} /\ pool' \cap kern' = {} /\ sq' \cap kern' = {}
       /\ CqBuffers' \cap (pool' \cup sq' \cup kern') = {}
  BY <1>5, <1>8, <1>9 DEF Inv, SingleOwner
<1> QED BY <1>6, <1>10 DEF SingleOwner, CqBuffers
-----------------------------------------------------------------------------
LEMMA InitInv == ASSUME Init PROVE Inv
<1>1. cfg \in Configs /\ cfg.uring.buffer \in Nat /\ cfg.tests \subseteq Nat
  BY ConfigsAssumption DEF Init, UringParameter
<1>2. NoMessage \in Message  BY DEF NoMessage, Message
<1>3. cq = <<>> /\ Len(cq) = 0 /\ DOMAIN cq = {} /\ cq \in Seq(Cqe_)  BY DEF Init
<1>4. TypeOK  BY <1>1, <1>2, <1>3 DEF Init, TypeOK
<1>5. SingleOwner  BY <1>3 DEF Init, SingleOwner, CqBuffers
<1>6. PoolInflight = 0  BY <1>1, <1>4, BuffersFinite DEF Init, PoolInflight
<1>7. {cq[i].buf : i \in 1 .. pos} = {}  BY DEF Init
<1>8. Books  BY <1>6, <1>7, FS_EmptySet DEF Init, Books
<1> QED BY <1>4, <1>5, <1>8 DEF Inv
-----------------------------------------------------------------------------
(* The steps of senders and kernel.                                        *)

LEMMA ArriveInv == ASSUME Inv, NEW t \in TestIds, Arrive(t) PROVE Inv'
<1>1. NthMessage(t, progress[t]) \in Message
  BY ConfigsAssumption DEF Inv, TypeOK, NthMessage, Message, TestIds
<1>2. sockq' \in Seq(Message)
  <2>1. CASE UNCHANGED sockq  BY <2>1 DEF Inv, TypeOK
  <2>2. CASE sockq' = Append(sockq, NthMessage(t, progress[t]))
    BY <2>2, <1>1, AppendProperties DEF Inv, TypeOK
  <2> QED BY <2>1, <2>2 DEF Arrive
<1>3. progress' \in [TestIds' -> Nat]  BY DEF Arrive, Inv, TypeOK, TestIds
<1>4. TypeOK'
  BY <1>2, <1>3 DEF Arrive, Inv, TypeOK, ringVars, loopVars, Buffers, Cqe_
<1>5. SingleOwner' /\ Books'
  BY DEF Arrive, Inv, SingleOwner, Books, CqBuffers, PoolInflight, ringVars, loopVars
<1> QED BY <1>4, <1>5 DEF Inv

LEMMA SqThreadInv == ASSUME Inv, SqThread PROVE Inv'
<1>1. TypeOK'  BY DEF SqThread, Inv, TypeOK, loopVars, sendVars, Buffers, TestIds, Cqe_
<1>2. SingleOwner'  BY DEF SqThread, Inv, SingleOwner, CqBuffers, loopVars
<1>3. Books'  BY DEF SqThread, Inv, Books, PoolInflight, loopVars
<1> QED BY <1>1, <1>2, <1>3 DEF Inv

(* A request b leaves the kernel and its completion c enters the queue.    *)
LEMMA CompleteInv ==
  ASSUME Inv, NEW b \in kern, NEW c \in Cqe_, c.buf = b,
         kern' = kern \ {b}, cq' = Append(cq, c), UNCHANGED <<cfg, sq, loopVars>>
  PROVE  /\ kern' \subseteq Buffers' /\ cq' \in Seq(Cqe_') /\ snap' \in 0 .. Len(cq')
         /\ SingleOwner'
         /\ Books'
<1>1. cq \in Seq(Cqe_) /\ Len(cq) \in Nat /\ DOMAIN cq = 1 .. Len(cq)
  BY LenProperties DEF Inv, TypeOK
<1>2. /\ cq' \in Seq(Cqe_) /\ Len(cq') = Len(cq) + 1
      /\ \A i \in 1 .. Len(cq) : cq'[i] = cq[i]
      /\ cq'[Len(cq) + 1] = c
  BY <1>1, AppendCompletion
<1>3. DOMAIN cq' = DOMAIN cq \cup {Len(cq) + 1} /\ Len(cq) + 1 \notin DOMAIN cq
  BY <1>1, <1>2, LenProperties
<1>4. CqBuffers' = CqBuffers \cup {b}  BY <1>1, <1>2, <1>3 DEF CqBuffers
<1>5. b \notin CqBuffers  BY DEF Inv, SingleOwner
<1>6. \A i, j \in DOMAIN cq' : cq'[i].buf = cq'[j].buf => i = j
  BY <1>1, <1>2, <1>3, <1>5 DEF CqBuffers, Inv, SingleOwner
<1>7. SingleOwner'
  BY <1>4, <1>5, <1>6 DEF Inv, SingleOwner, loopVars
<1>8. pos \in Nat /\ pos <= Len(cq) /\ snap \in 0 .. Len(cq)  BY <1>1 DEF Inv, TypeOK
<1>9. {cq'[i].buf : i \in 1 .. pos} = {cq[i].buf : i \in 1 .. pos}
  <2>1. \A i \in 1 .. pos : cq'[i] = cq[i]  BY <1>1, <1>2, <1>8
  <2> QED BY <2>1
<1>10. Books'  BY <1>9 DEF Inv, Books, PoolInflight, loopVars
<1>11. Cqe_' = Cqe_ /\ Buffers' = Buffers  BY DEF Cqe_, Buffers
<1>12. snap' \in 0 .. Len(cq')  BY <1>1, <1>2, <1>8 DEF loopVars
<1>13. kern' \subseteq Buffers'  BY <1>11 DEF Inv, TypeOK
<1> QED BY <1>2, <1>7, <1>10, <1>11, <1>12, <1>13

LEMMA KernelReceiveInv == ASSUME Inv, KernelReceive PROVE Inv'
<1>1. PICK b \in kern : /\ kern' = kern \ {b}
                        /\ content' = [content EXCEPT ![b] = Head(sockq)]
                        /\ cq' = Append(cq, [buf |-> b, res |-> "bytes"])
  BY DEF KernelReceive
<1>2. [buf |-> b, res |-> "bytes"] \in Cqe_  BY DEF Cqe_, Inv, TypeOK
<1>3. UNCHANGED <<cfg, sq, loopVars>> /\ UNCHANGED progress  BY DEF KernelReceive
<1>4. /\ kern' \subseteq Buffers' /\ cq' \in Seq(Cqe_') /\ snap' \in 0 .. Len(cq')
      /\ SingleOwner' /\ Books'
  <2>1. [buf |-> b, res |-> "bytes"].buf = b  OBVIOUS
  <2> QED BY <1>1, <1>2, <1>3, <2>1, CompleteInv
<1>5. Head(sockq) \in Message /\ Tail(sockq) \in Seq(Message)
  BY HeadTailProperties DEF KernelReceive, Inv, TypeOK
<1>6. content' \in [Buffers' -> Message]
  BY <1>1, <1>3, <1>5 DEF Inv, TypeOK, Buffers
<1>7. taken' \in Seq(Message)
  BY <1>5, AppendProperties DEF KernelReceive, Inv, TypeOK
<1>8. sockq' \in Seq(Message)  BY <1>5 DEF KernelReceive
<1>9. TypeOK'
  BY <1>3, <1>4, <1>6, <1>7, <1>8 DEF Inv, TypeOK, loopVars, Buffers, TestIds
<1> QED BY <1>4, <1>9 DEF Inv

LEMMA KernelFailInv == ASSUME Inv, KernelFail PROVE Inv'
<1>1. PICK b \in kern, e \in {"EAGAIN", "errno"} :
        kern' = kern \ {b} /\ cq' = Append(cq, [buf |-> b, res |-> e])
  BY DEF KernelFail
<1>2. [buf |-> b, res |-> e] \in Cqe_  BY DEF Cqe_, Inv, TypeOK
<1>3. UNCHANGED <<cfg, sq, loopVars>> /\ UNCHANGED <<sendVars, content, taken>>
  BY DEF KernelFail
<1>4. /\ kern' \subseteq Buffers' /\ cq' \in Seq(Cqe_') /\ snap' \in 0 .. Len(cq')
      /\ SingleOwner' /\ Books'
  <2>1. [buf |-> b, res |-> e].buf = b  OBVIOUS
  <2> QED BY <1>1, <1>2, <1>3, <2>1, CompleteInv
<1>5. TypeOK'
  BY <1>3, <1>4 DEF Inv, TypeOK, loopVars, sendVars, Buffers, TestIds
<1> QED BY <1>4, <1>5 DEF Inv
-----------------------------------------------------------------------------
(* The steps of the loop.                                                  *)

LEMMA FillInv == ASSUME Inv, Fill PROVE Inv'
<1>1. cfg' = cfg /\ UNCHANGED <<sendVars, kern, cq, content, taken, snap, pos, indexPool,
                               completed, ms, handled>>
  BY DEF Fill
<1>2. pc = "fill" /\ pc' \in {"failed", "drain", "enter"}  BY DEF Fill
<1>3. CASE UNCHANGED <<pool, sq, inflight>>
  <2>1. TypeOK'
    BY <1>1, <1>2, <1>3 DEF Inv, TypeOK, sendVars, Buffers, TestIds, Cqe_
  <2> QED BY <1>1, <1>2, <1>3, <2>1 DEF Inv, SingleOwner, Books, CqBuffers, PoolInflight
<1>4. CASE \E B \in SUBSET pool : /\ pool' = pool \ B
                                 /\ sq' = sq \cup B
                                 /\ inflight' = inflight + Cardinality(B)
  <2>1. PICK B \in SUBSET pool : /\ pool' = pool \ B
                                /\ sq' = sq \cup B
                                /\ inflight' = inflight + Cardinality(B)
    BY <1>4
  <2>2. /\ IsFiniteSet(pool) /\ Cardinality(pool) \in Nat
        /\ Cardinality(B) \in Nat
        /\ cfg.uring.buffer \in Nat
    <3>1. pool \in SUBSET Buffers /\ B \in SUBSET Buffers  BY DEF Inv, TypeOK
    <3> QED BY <3>1, BufferSetFinite, BuffersFinite DEF Inv
  <2>3. Cardinality(pool \ B) = Cardinality(pool) - Cardinality(B)  BY <2>2, TakeAway
  <2>4. inflight' = PoolInflight'
    BY <1>1, <2>1, <2>2, <2>3 DEF Inv, Books, PoolInflight
  <2>5. inflight' \in Nat  BY <2>1, <2>2 DEF Inv, TypeOK
  <2>6. TypeOK'
    BY <1>1, <1>2, <2>1, <2>5 DEF Inv, TypeOK, sendVars, Buffers, TestIds, Cqe_
  <2>7. SingleOwner'  BY <1>1, <2>1 DEF Inv, SingleOwner, CqBuffers
  <2>8. Books'  BY <1>1, <1>2, <2>4 DEF Inv, Books
  <2> QED BY <2>6, <2>7, <2>8 DEF Inv
<1> QED BY <1>3, <1>4 DEF Fill

LEMMA EnterInv == ASSUME Inv, Enter PROVE Inv'
<1>1. TypeOK'  BY DEF Enter, Inv, TypeOK, sendVars, Buffers, TestIds, Cqe_
<1>2. SingleOwner'  BY DEF Enter, Inv, SingleOwner, CqBuffers
<1>3. Books'  BY DEF Enter, Inv, Books, PoolInflight
<1> QED BY <1>1, <1>2, <1>3 DEF Inv

LEMMA BeginDrainInv == ASSUME Inv, BeginDrain PROVE Inv'
<1>1. Len(cq) \in Nat  BY LenProperties DEF Inv, TypeOK
<1>2. TypeOK'
  BY <1>1 DEF BeginDrain, Inv, TypeOK, sendVars, ringVars, Buffers, TestIds, Cqe_
<1>3. SingleOwner'  BY DEF BeginDrain, Inv, SingleOwner, CqBuffers, ringVars
<1>4. {cq'[i].buf : i \in 1 .. pos'} = {}  BY DEF BeginDrain
<1>5. Books'  BY <1>4, FS_EmptySet DEF BeginDrain, Inv, Books, PoolInflight, ringVars
<1> QED BY <1>2, <1>3, <1>5 DEF Inv

(* The completion at hand is of the right type, and so is its message.     *)
LEMMA AtCqeType ==
  ASSUME Inv, AtCqe
  PROVE  /\ pos \in Nat /\ pos + 1 \in 1 .. Len(cq) /\ Len(cq) \in Nat
         /\ DOMAIN cq = 1 .. Len(cq)
         /\ Cqe \in Cqe_ /\ Cqe.buf \in Buffers
         /\ CqeMessage \in Message
<1>1. cq \in Seq(Cqe_) /\ Len(cq) \in Nat /\ DOMAIN cq = 1 .. Len(cq)
  BY LenProperties DEF Inv, TypeOK
<1>2. pos \in Nat /\ pos + 1 \in 1 .. Len(cq)  BY <1>1 DEF Inv, TypeOK, AtCqe
<1>3. Cqe \in Cqe_  BY <1>1, <1>2, ElementOfSeq DEF Cqe
<1> QED BY <1>1, <1>2, <1>3 DEF Cqe_, CqeMessage, Inv, TypeOK

LEMMA ParseType ==
  ASSUME Inv, AtCqe, Parse
  PROVE  ms' \in Seq(Measurement) /\ handled' \in Seq(Message)
<1>1. CqeMessage \in Message  BY AtCqeType
<1>2. ms \in Seq(Measurement) /\ handled \in Seq(Message)  BY DEF Inv, TypeOK
<1> QED BY <1>1, <1>2, ParsedType, AppendProperties DEF Parse

LEMMA HandleDataInv == ASSUME Inv, HandleData PROVE Inv'
<1>1. AtCqe /\ Parse /\ Count /\ Collect /\ pos' = pos + 1
  BY DEF HandleData
<1>2. UNCHANGED <<cfg, sendVars, ringVars, pool, pc, snap, inflight>>  BY DEF HandleData
<1>3. /\ pos \in Nat /\ pos + 1 \in 1 .. Len(cq) /\ Len(cq) \in Nat
      /\ DOMAIN cq = 1 .. Len(cq) /\ Cqe.buf \in Buffers
  BY <1>1, AtCqeType
<1>4. ms' \in Seq(Measurement) /\ handled' \in Seq(Message)  BY <1>1, ParseType
<1>5. snap \in Nat /\ snap <= Len(cq) /\ pos + 1 <= snap
  BY <1>1, <1>3 DEF Inv, TypeOK, AtCqe
<1>6. indexPool' = {cq[i].buf : i \in 1 .. (pos + 1)}
  <2>1. 1 .. (pos + 1) = (1 .. pos) \cup {pos + 1}  BY <1>3
  <2> QED BY <1>1, <2>1 DEF Collect, Cqe, Inv, Books
<1>7. Cqe.buf \notin indexPool
  <2> SUFFICES ASSUME NEW i \in 1 .. pos, cq[i].buf = cq[pos + 1].buf PROVE FALSE
    BY DEF Inv, Books, Cqe
  <2>1. i \in DOMAIN cq /\ pos + 1 \in DOMAIN cq  BY <1>3
  <2>2. i = pos + 1  BY <2>1 DEF Inv, SingleOwner
  <2> QED BY <2>2, <1>3
<1>8. IsFiniteSet(indexPool)  BY BufferSetFinite DEF Inv, TypeOK
<1>9. Cardinality(indexPool') = completed'
  BY <1>1, <1>7, <1>8, FS_AddElement DEF Collect, Count, Inv, Books
<1>10. TypeOK'
  <2>1. completed' \in Nat  BY <1>1 DEF Count, Inv, TypeOK
  <2>2. indexPool' \subseteq Buffers'  BY <1>1, <1>2, <1>3 DEF Collect, Inv, TypeOK, Buffers
  <2>3. pos' \in 0 .. snap'  BY <1>1, <1>2, <1>3, <1>5
  <2> QED BY <1>2, <1>4, <2>1, <2>2, <2>3
        DEF Inv, TypeOK, sendVars, ringVars, Buffers, TestIds, Cqe_
<1>11. SingleOwner'  BY <1>2 DEF Inv, SingleOwner, CqBuffers, ringVars
<1>12. Books'
  BY <1>1, <1>2, <1>6, <1>9 DEF AtCqe, Inv, Books, PoolInflight, ringVars
<1> QED BY <1>10, <1>11, <1>12 DEF Inv

(* An early return keeps the books: what it forgets is in no one's hands.  *)
LEMMA EarlyReturnInv ==
  ASSUME Inv, AtCqe, EarlyReturn, pc' \in {"done", "fill", "failed", "panicked"},
         ms' \in Seq(Measurement), handled' \in Seq(Message),
         UNCHANGED <<cfg, sendVars, sq, kern, content, taken, pool, inflight>>
  PROVE  Inv'
<1>1. pos + 1 \in 0 .. Len(cq)  BY AtCqeType
<1>2. cq' \in Seq(Cqe_) /\ Len(cq') \in Nat
  BY <1>1, Release, LenProperties DEF Inv, TypeOK, EarlyReturn
<1>3. TypeOK'
  BY <1>2 DEF EarlyReturn, Inv, TypeOK, sendVars, Buffers, TestIds, Cqe_
<1>4. SingleOwner'  BY <1>1, ReleaseOwners DEF EarlyReturn
<1>5. {cq'[i].buf : i \in 1 .. pos'} = {}  BY DEF EarlyReturn
<1>6. Books'  BY <1>5, FS_EmptySet DEF EarlyReturn, Inv, Books, PoolInflight
<1> QED BY <1>3, <1>4, <1>6 DEF Inv

LEMMA EndDrainInv == ASSUME Inv, EndDrain PROVE Inv'
<1>1. /\ ReleaseSlots(pos) /\ pool' = pool \cup indexPool /\ inflight' = inflight - completed
      /\ indexPool' = {} /\ completed' = 0 /\ snap' = 0 /\ pos' = 0 /\ pc' = "fill"
      /\ UNCHANGED <<cfg, sendVars, sq, kern, content, taken, ms, handled>>
  BY DEF EndDrain
<1>2. cq \in Seq(Cqe_) /\ Len(cq) \in Nat /\ pos \in 0 .. Len(cq) /\ DOMAIN cq = 1 .. Len(cq)
  BY LenProperties DEF Inv, TypeOK
<1>3. cq' \in Seq(Cqe_) /\ Len(cq') \in Nat  BY <1>1, <1>2, Release, LenProperties
<1>4. SingleOwner'  BY <1>1, <1>2, ReleaseOwners
<1>5. indexPool \cap pool = {}
  <2>1. indexPool \subseteq CqBuffers  BY <1>2 DEF Inv, Books, CqBuffers
  <2> QED BY <2>1 DEF Inv, SingleOwner
<1>6. /\ IsFiniteSet(pool) /\ IsFiniteSet(indexPool)
      /\ Cardinality(pool) \in Nat /\ Cardinality(indexPool) \in Nat
      /\ cfg.uring.buffer \in Nat
  BY BufferSetFinite, BuffersFinite DEF Inv, TypeOK
<1>7. Cardinality(pool') = Cardinality(pool) + Cardinality(indexPool)
  BY <1>1, <1>5, <1>6, FS_Union, FS_EmptySet
<1>8. inflight' = PoolInflight'
  BY <1>1, <1>6, <1>7 DEF Inv, Books, PoolInflight
<1>9. inflight' \in Nat
  <2>1. pool' \in SUBSET Buffers  BY <1>1 DEF Inv, TypeOK
  <2>2. Cardinality(pool') \in Nat /\ Cardinality(pool') <= cfg.uring.buffer
    BY <2>1, BufferSetFinite DEF Inv
  <2> QED BY <1>1, <1>6, <1>8, <2>2 DEF PoolInflight
<1>10. TypeOK'
  BY <1>1, <1>3, <1>9 DEF Inv, TypeOK, sendVars, Buffers, TestIds, Cqe_
<1>11. {cq'[i].buf : i \in 1 .. pos'} = {}  BY <1>1
<1>12. Books'  BY <1>1, <1>8, <1>11, FS_EmptySet DEF Books
<1> QED BY <1>4, <1>10, <1>12 DEF Inv

LEMMA StepInv == ASSUME Inv, [Next]_vars PROVE Inv'
<1>1. CASE Fill  BY <1>1, FillInv
<1>2. CASE Enter  BY <1>2, EnterInv
<1>3. CASE BeginDrain  BY <1>3, BeginDrainInv
<1>4. CASE HandleData  BY <1>4, HandleDataInv
<1>5. CASE HandleLast  BY <1>5, EarlyReturnInv, ParseType DEF HandleLast
<1>6. CASE HandleBad  BY <1>6, EarlyReturnInv, ParseType DEF HandleBad
<1>7. CASE HandleError
  <2>1. ms' \in Seq(Measurement) /\ handled' \in Seq(Message)
    BY <1>7 DEF HandleError, Inv, TypeOK
  <2> QED BY <1>7, <2>1, EarlyReturnInv DEF HandleError
<1>8. CASE EndDrain  BY <1>8, EndDrainInv
<1>9. CASE SqThread  BY <1>9, SqThreadInv
<1>10. CASE KernelReceive  BY <1>10, KernelReceiveInv
<1>11. CASE KernelFail  BY <1>11, KernelFailInv
<1>12. CASE \E t \in TestIds : Arrive(t)  BY <1>12, ArriveInv
<1>13. CASE UNCHANGED vars
  BY <1>13 DEF vars, sendVars, ringVars, loopVars, Inv, TypeOK, SingleOwner, Books, CqBuffers,
               PoolInflight, Buffers, TestIds, Cqe_
<1> QED
  BY <1>1, <1>2, <1>3, <1>4, <1>5, <1>6, <1>7, <1>8, <1>9, <1>10, <1>11, <1>12, <1>13
  DEF Next, LoopStep, KernelStep
-----------------------------------------------------------------------------
(* The completion queue never overflows: as completions have different     *)
(* buffers, there are no more of them than buffers.                        *)
LEMMA InvNoOverflow == ASSUME Inv PROVE NoOverflow
<1>1. cq \in Seq(Cqe_) /\ Len(cq) \in Nat /\ DOMAIN cq = 1 .. Len(cq)
  BY LenProperties DEF Inv, TypeOK
<1>2. \A i \in DOMAIN cq : cq[i] \in Cqe_  BY <1>1, ElementOfSeq
<1>3. CqBuffers \subseteq Buffers  BY <1>2 DEF CqBuffers, Cqe_
<1> DEFINE f == [i \in 1 .. Len(cq) |-> cq[i].buf]
<1>4. f \in Injection(1 .. Len(cq), CqBuffers)
  BY <1>1 DEF Inv, SingleOwner, CqBuffers, Injection, IsInjective
<1>5. IsFiniteSet(CqBuffers) /\ Cardinality(CqBuffers) \in Nat
  BY <1>3, BufferSetFinite DEF Inv
<1>6. IsFiniteSet(1 .. Len(cq)) /\ Cardinality(1 .. Len(cq)) = Len(cq)
  <2>1. 1 \in Int /\ Len(cq) \in Int  BY <1>1
  <2> QED BY <1>1, <2>1, FS_Interval
<1>7. Len(cq) <= Cardinality(CqBuffers)  BY <1>4, <1>5, <1>6, FS_Injection
<1>8. IsFiniteSet(kern) /\ Cardinality(kern) \in Nat  BY BufferSetFinite DEF Inv, TypeOK
<1>9. Cardinality(kern \cup CqBuffers) = Cardinality(kern) + Cardinality(CqBuffers)
  <2>1. kern \cap CqBuffers = {}  BY DEF Inv, SingleOwner
  <2> QED BY <1>5, <1>8, <2>1, FS_Union, FS_EmptySet
<1>10. Cardinality(kern \cup CqBuffers) <= cfg.uring.buffer
  <2>1. kern \cup CqBuffers \in SUBSET Buffers  BY <1>3 DEF Inv, TypeOK
  <2> QED BY <2>1, BufferSetFinite DEF Inv
<1>11. cfg.uring.buffer \in Nat  BY BuffersFinite DEF Inv
<1> QED BY <1>1, <1>5, <1>7, <1>8, <1>9, <1>10, <1>11 DEF NoOverflow

LEMMA InvNoExhaustion == ASSUME Inv PROVE NoExhaustion
<1> DEFINE p == cfg.uring
           free == Cardinality(pool)
           used == Cardinality(sq)
<1>1. /\ p.buffer \in Nat /\ p.burst \in Nat /\ p.ring \in Nat /\ p.burst <= p.ring
      /\ p.ring <= p.buffer
  BY ConfigsAssumption DEF Inv, TypeOK, UringParameter
<1>2. free \in Nat /\ free <= p.buffer /\ used \in Nat
  BY BufferSetFinite DEF Inv, TypeOK
<1> HIDE DEF p, free, used
<1>3. ToSubmit(p.buffer - free, used, p) <= free
  BY <1>1, <1>2 DEF ToSubmit, NoBuffers
<1> QED BY <1>3 DEF NoExhaustion, PoolInflight, p, free, used

LEMMA AlwaysInv == Spec => []Inv
BY InitInv, StepInv, PTL DEF Spec

(* Type correctness; in particular amount_inflight does not underflow.     *)
THEOREM TypeCorrect == Spec => []TypeOK
<1>1. Inv => TypeOK  BY DEF Inv
<1> QED BY <1>1, AlwaysInv, PTL

(* A buffer always has one owner: the kernel never writes to a message     *)
(* that the receiver reads or may submit again.                            *)
THEOREM BuffersHaveOneOwner == Spec => []SingleOwner
<1>1. Inv => SingleOwner  BY DEF Inv
<1> QED BY <1>1, AlwaysInv, PTL

(* The completion queue never overflows, whatever errors and early returns *)
(* the loop sees (create_ring sizes it for that).                          *)
THEOREM QueuesNeverOverrun == Spec => []NoOverflow
<1>1. Inv => NoOverflow  BY InvNoOverflow
<1> QED BY <1>1, AlwaysInv, PTL

(* A submission round never asks the pool for more buffers than it has:    *)
(* the error of get_buffer_index() on an empty pool, which would end the    *)
(* measurement, is out of reach.                                           *)
THEOREM PoolNeverExhausted == Spec => []NoExhaustion
<1>1. Inv => NoExhaustion  BY InvNoExhaustion
<1> QED BY <1>1, AlwaysInv, PTL

(* amount_inflight and the pool agree about the requests in flight.        *)
THEOREM CountsOfRequestsAgree == Spec => []CountersAgree
<1>1. Inv => CountersAgree  BY DEF Inv, Books, CountersAgree
<1> QED BY <1>1, AlwaysInv, PTL
-----------------------------------------------------------------------------
(* The order in which messages are parsed.                                 *)

LEMMA OrderIs ==
  /\ HandledInOrder = Ordered(cq, pos, content, taken, handled)
  /\ HandledInOrder' = Ordered(cq', pos', content', taken', handled')
BY DEF HandledInOrder, Ordered, Unparsed, Waiting, Messages, Bytes

LEMMA QueueNumbers ==
  ASSUME Inv
  PROVE  /\ cq \in Seq(Cqe_) /\ content \in [Buffers -> Message]
         /\ taken \in Seq(Message) /\ handled \in Seq(Message)
         /\ Len(cq) \in Nat /\ DOMAIN cq = 1 .. Len(cq) /\ pos \in Nat /\ pos <= Len(cq)
<1>1. Len(cq) \in Nat /\ DOMAIN cq = 1 .. Len(cq)  BY LenProperties DEF Inv, TypeOK
<1>2. pos \in Nat /\ pos <= Len(cq)  BY <1>1 DEF Inv, TypeOK
<1> QED BY <1>1, <1>2 DEF Inv, TypeOK

LEMMA QuietOrder ==
  ASSUME HandledInOrder, UNCHANGED <<cq, pos, content, taken, handled>>
  PROVE  HandledInOrder'
BY OrderIs

(* The kernel writes to a buffer that no completion refers to.             *)
LEMMA KernelReceiveOrder == ASSUME Inv, HandledInOrder, KernelReceive PROVE HandledInOrder'
<1> DEFINE x == Head(sockq)
<1>1. PICK b \in kern : /\ content' = [content EXCEPT ![b] = x]
                        /\ cq' = Append(cq, [buf |-> b, res |-> "bytes"])
  BY DEF KernelReceive
<1> DEFINE c == [buf |-> b, res |-> "bytes"]
<1>2. x \in Message  BY HeadTailProperties DEF KernelReceive, Inv, TypeOK
<1>3. b \in Buffers /\ b \notin CqBuffers  BY DEF Inv, TypeOK, SingleOwner
<1>4. c \in Cqe_ /\ c.res = "bytes" /\ c.buf = b  BY <1>3 DEF Cqe_
<1>5. cq' = Append(cq, c) /\ pos' = pos /\ taken' = Append(taken, x) /\ handled' = handled
  BY <1>1 DEF KernelReceive, loopVars
<1> HIDE DEF x, c
<1>6. \A i \in Waiting(cq, pos) : i \in DOMAIN cq  BY QueueNumbers, WaitingRange
<1>7. \A i \in Waiting(cq, pos) : content'[cq[i].buf] = content[cq[i].buf]
  <2> TAKE i \in Waiting(cq, pos)
  <2>1. cq[i].buf # b  BY <1>3, <1>6 DEF CqBuffers
  <2>2. cq[i] \in Cqe_  BY <1>6, QueueNumbers, ElementOfSeq
  <2>3. cq[i].buf \in Buffers  BY <2>2 DEF Cqe_
  <2> QED BY <1>1, <2>1, <2>3, QueueNumbers
<1>8. content'[c.buf] = x  BY <1>1, <1>3, <1>4, QueueNumbers
<1>9. Ordered(cq, pos, content, taken, handled)  BY OrderIs
<1>10. Ordered(Append(cq, c), pos, content', Append(taken, x), handled)
  BY <1>2, <1>4, <1>7, <1>8, <1>9, QueueNumbers, OrderedReceive
<1> QED BY <1>5, <1>10, OrderIs

LEMMA KernelFailOrder == ASSUME Inv, HandledInOrder, KernelFail PROVE HandledInOrder'
<1>1. PICK b \in kern, e \in {"EAGAIN", "errno"} : cq' = Append(cq, [buf |-> b, res |-> e])
  BY DEF KernelFail
<1> DEFINE c == [buf |-> b, res |-> e]
<1>2. c \in Cqe_ /\ c.res # "bytes" /\ cq' = Append(cq, c)
  BY <1>1 DEF Cqe_, Inv, TypeOK
<1>3. UNCHANGED <<pos, content, taken, handled>>  BY DEF KernelFail, loopVars
<1> HIDE DEF c
<1>4. Ordered(cq, pos, content, taken, handled)  BY OrderIs
<1>5. Ordered(Append(cq, c), pos, content, taken, handled)
  BY <1>2, <1>4, QueueNumbers, OrderedSkip
<1> QED BY <1>2, <1>3, <1>5, OrderIs

(* The loop has iterated over the completion at hand: what it parsed is    *)
(* in order, before anything is released.                                  *)
Read == IF Cqe.res = "bytes" THEN Append(handled, CqeMessage) ELSE handled

LEMMA ReadInOrder ==
  ASSUME Inv, HandledInOrder, AtCqe
  PROVE  Ordered(cq, pos + 1, content, taken, Read) /\ Read \in Seq(Message)
<1>1. /\ pos < Len(cq) /\ Cqe = cq[pos + 1] /\ CqeMessage \in Message
      /\ CqeMessage = content[cq[pos + 1].buf]
  BY AtCqeType DEF Cqe, CqeMessage
<1>2. Ordered(cq, pos, content, taken, handled)  BY OrderIs
<1>3. Ordered(cq, pos + 1, content, taken, Read)
  BY <1>1, <1>2, QueueNumbers, OrderedRead DEF Read
<1> QED BY <1>1, <1>3, QueueNumbers, AppendProperties DEF Read

LEMMA ReleaseInOrder ==
  ASSUME Inv, NEW p \in Nat, p <= Len(cq), ReleaseSlots(p), NEW done \in Seq(Message),
         Ordered(cq, p, content, taken, done), pos' = 0, handled' = done, UNCHANGED <<content, taken>>
  PROVE  HandledInOrder'
<1>1. Ordered(SubSeq(cq, p + 1, Len(cq)), 0, content, taken, done)
  BY QueueNumbers, OrderedRelease
<1> QED BY <1>1, OrderIs DEF ReleaseSlots

LEMMA StepOrder == ASSUME Inv, HandledInOrder, [Next]_vars PROVE HandledInOrder'
<1>1. CASE UNCHANGED vars \/ SqThread \/ \E t \in TestIds : Arrive(t)
  BY <1>1, QuietOrder DEF vars, ringVars, loopVars, SqThread, Arrive
<1>2. CASE Fill \/ Enter  BY <1>2, QuietOrder DEF Fill, Enter
<1>3. CASE BeginDrain
  <2>1. pos = 0  BY <1>3 DEF Inv, Books, BeginDrain
  <2> QED BY <1>3, <2>1, QuietOrder DEF BeginDrain, ringVars
<1>4. CASE KernelReceive  BY <1>4, KernelReceiveOrder
<1>5. CASE KernelFail  BY <1>5, KernelFailOrder
<1>6. CASE HandleData
  <2>1. AtCqe /\ pos' = pos + 1 /\ handled' = Read /\ UNCHANGED <<cq, content, taken>>
    BY <1>6 DEF HandleData, Parse, Read, ringVars
  <2> QED BY <2>1, ReadInOrder, OrderIs
<1>7. CASE HandleLast \/ HandleBad \/ HandleError
  <2>1. /\ AtCqe /\ ReleaseSlots(pos + 1) /\ pos' = 0 /\ handled' = Read
        /\ UNCHANGED <<content, taken>>
    BY <1>7 DEF HandleLast, HandleBad, HandleError, EarlyReturn, Parse, Read
  <2>2. pos + 1 \in Nat /\ pos + 1 <= Len(cq)  BY <2>1, AtCqeType
  <2> QED BY <2>1, <2>2, ReadInOrder, ReleaseInOrder
<1>8. CASE EndDrain
  <2>1. /\ ReleaseSlots(pos) /\ pos' = 0 /\ handled' = handled /\ UNCHANGED <<content, taken>>
    BY <1>8 DEF EndDrain
  <2> QED BY <2>1, OrderIs, QueueNumbers, ReleaseInOrder
<1> QED BY <1>1, <1>2, <1>3, <1>4, <1>5, <1>6, <1>7, <1>8 DEF Next, LoopStep, KernelStep

LEMMA InitOrder == ASSUME Init PROVE HandledInOrder
BY OrderedNone, OrderIs DEF Init

(* Every datagram the kernel delivered is parsed once, in order, and as it *)
(* was delivered: neither an early return nor the release of queue slots   *)
(* skips or repeats a completion (receiver.rs 218-257).                    *)
THEOREM MessagesKeepTheirOrder == Spec => []HandledInOrder
<1>1. Init => HandledInOrder  BY InitOrder
<1>2. Inv /\ HandledInOrder /\ [Next]_vars => HandledInOrder'  BY StepOrder
<1> QED BY <1>1, <1>2, AlwaysInv, PTL DEF Spec
-----------------------------------------------------------------------------
(* Where buffers are, as long as nothing fails and no test has ended.      *)

NoLast == \A i \in DOMAIN handled : handled[i].type # "LAST"

AllBytes == \A i \in DOMAIN cq : cq[i].res = "bytes"

Whole == ~cfg.faults => AllBytes /\ (NoLast => AllReturned)

Running == {"fill", "enter", "drain", "cqe"}

(* What was parsed stays parsed.                                           *)
LEMMA LastRemains ==
  ASSUME Inv, NEW m \in Message, handled' = Append(handled, m), NoLast'
  PROVE  NoLast /\ m.type # "LAST"
<1>1. handled \in Seq(Message) /\ Len(handled) \in Nat /\ DOMAIN handled = 1 .. Len(handled)
  BY LenProperties DEF Inv, TypeOK
<1>2. /\ Append(handled, m) \in Seq(Message) /\ Len(Append(handled, m)) = Len(handled) + 1
      /\ \A i \in 1 .. Len(handled) : Append(handled, m)[i] = handled[i]
      /\ Append(handled, m)[Len(handled) + 1] = m
  BY <1>1, AppendProperties
<1>3. DOMAIN Append(handled, m) = 1 .. (Len(handled) + 1)  BY <1>2, LenProperties
<1>4. m.type # "LAST"
  <2>1. Len(handled) + 1 \in DOMAIN handled'  BY <1>1, <1>3
  <2> QED BY <2>1, <1>2 DEF NoLast
<1>5. \A i \in DOMAIN handled : i \in DOMAIN handled' /\ handled'[i] = handled[i]
  BY <1>1, <1>2, <1>3
<1> QED BY <1>4, <1>5 DEF NoLast

(* Completions that leave the queue are not replaced by others.            *)
LEMMA ReleaseBytes ==
  ASSUME Inv, AllBytes, NEW n \in 0 .. Len(cq), ReleaseSlots(n)
  PROVE  AllBytes'
<1>1. cq \in Seq(Cqe_) /\ Len(cq) \in Nat /\ DOMAIN cq = 1 .. Len(cq)
  BY LenProperties DEF Inv, TypeOK
<1>2. /\ cq' \in Seq(Cqe_) /\ Len(cq') = Len(cq) - n
      /\ \A i \in 1 .. (Len(cq) - n) : cq'[i] = cq[n + i]
  BY <1>1, Release
<1>3. DOMAIN cq' = 1 .. (Len(cq) - n)  BY <1>2, LenProperties
<1>4. \A i \in DOMAIN cq' : n + i \in DOMAIN cq /\ cq'[i] = cq[n + i]  BY <1>1, <1>2, <1>3
<1> QED BY <1>4 DEF AllBytes

LEMMA QuietWhole ==
  ASSUME Whole, UNCHANGED <<cfg, pool, sq, kern, cq, handled>>,
         pc' \in Running => pc \in Running
  PROVE  Whole'
BY DEF Whole, AllBytes, NoLast, AllReturned, CqBuffers, Buffers, Running

LEMMA SubmitWhole ==
  ASSUME Whole, SqThread \/ Fill \/ Enter
  PROVE  Whole'
<1>1. UNCHANGED <<cfg, cq, handled>>  BY DEF SqThread, Fill, Enter, loopVars
<1>2. pc' \in Running => pc \in Running  BY DEF SqThread, Fill, Enter, loopVars, Running
<1>3. pc' \in Running => pool' \cup sq' \cup kern' = pool \cup sq \cup kern
  <2>1. CASE SqThread  BY <2>1 DEF SqThread, loopVars
  <2>2. CASE Fill  BY <2>2 DEF Fill, Running
  <2>3. CASE Enter  BY <2>3 DEF Enter
  <2> QED BY <2>1, <2>2, <2>3
<1>4. CqBuffers' = CqBuffers /\ Buffers' = Buffers  BY <1>1 DEF CqBuffers, Buffers
<1>5. AllReturned => AllReturned'
  BY <1>2, <1>3, <1>4 DEF AllReturned, Running
<1> QED BY <1>1, <1>5 DEF Whole, AllBytes, NoLast

LEMMA ReceiveWhole ==
  ASSUME Inv, Whole, KernelReceive
  PROVE  Whole'
<1>1. PICK b \in kern : /\ kern' = kern \ {b}
                        /\ cq' = Append(cq, [buf |-> b, res |-> "bytes"])
  BY DEF KernelReceive
<1> DEFINE c == [buf |-> b, res |-> "bytes"]
<1>2. c \in Cqe_ /\ c.buf = b /\ c.res = "bytes" /\ cq' = Append(cq, c)
  BY <1>1 DEF Cqe_, Inv, TypeOK
<1> HIDE DEF c
<1>3. UNCHANGED <<cfg, pool, sq, handled, pc>>  BY DEF KernelReceive, loopVars
<1>4. /\ Append(cq, c) \in Seq(Cqe_) /\ Len(Append(cq, c)) = Len(cq) + 1
      /\ \A i \in 1 .. Len(cq) : Append(cq, c)[i] = cq[i]
      /\ Append(cq, c)[Len(cq) + 1] = c
  BY <1>2, QueueNumbers, AppendCompletion
<1>5. DOMAIN cq' = DOMAIN cq \cup {Len(cq) + 1}
  BY <1>2, <1>4, QueueNumbers, LenProperties
<1>6. AllBytes => AllBytes'  BY <1>2, <1>4, <1>5, QueueNumbers DEF AllBytes
<1>7. CqBuffers' = CqBuffers \cup {b}  BY <1>2, <1>4, <1>5, QueueNumbers DEF CqBuffers
<1>8. AllReturned => AllReturned'  BY <1>1, <1>3, <1>7 DEF AllReturned, Buffers
<1> QED BY <1>3, <1>6, <1>8 DEF Whole, NoLast

LEMMA EarlyReturnWhole ==
  ASSUME Inv, Whole, AtCqe, EarlyReturn, cfg' = cfg,
         cfg.faults \/ pc' \notin Running \/ ~NoLast'
  PROVE  Whole'
<1>1. pos + 1 \in 0 .. Len(cq)  BY AtCqeType
<1>2. AllBytes => AllBytes'  BY <1>1, ReleaseBytes DEF EarlyReturn
<1>3. ~cfg'.faults => (NoLast' => AllReturned')  BY DEF AllReturned, Running
<1> QED BY <1>2, <1>3 DEF Whole

(* The buffers that the drain collected go back, the other completions     *)
(* stay.                                                                   *)
LEMMA EndDrainWhole == ASSUME Inv, Whole, EndDrain PROVE Whole'
<1>1. /\ pc = "cqe" /\ ReleaseSlots(pos) /\ pool' = pool \cup indexPool
      /\ UNCHANGED <<cfg, sq, kern, handled>>
  BY DEF EndDrain
<1>2. pos \in 0 .. Len(cq)  BY QueueNumbers
<1>3. AllBytes => AllBytes'  BY <1>1, <1>2, ReleaseBytes
<1>4. /\ cq' \in Seq(Cqe_) /\ Len(cq') = Len(cq) - pos
      /\ \A i \in 1 .. (Len(cq) - pos) : cq'[i] = cq[pos + i]
  BY <1>1, <1>2, QueueNumbers, Release
<1>5. DOMAIN cq' = 1 .. (Len(cq) - pos)  BY <1>4, LenProperties
<1>6. CqBuffers = indexPool \cup CqBuffers'
  <2>1. \A i \in DOMAIN cq' : pos + i \in DOMAIN cq /\ cq'[i] = cq[pos + i]
    BY <1>4, <1>5, QueueNumbers
  <2>2. \A i \in DOMAIN cq : i \in 1 .. pos \/ (i - pos \in DOMAIN cq' /\ cq'[i - pos] = cq[i])
    <3> TAKE i \in DOMAIN cq
    <3>1. i \in 1 .. pos \/ i - pos \in 1 .. (Len(cq) - pos)  BY QueueNumbers
    <3>2. i - pos \in 1 .. (Len(cq) - pos) => pos + (i - pos) = i  BY QueueNumbers
    <3> QED BY <3>1, <3>2, <1>4, <1>5
  <2>3. indexPool = {cq[i].buf : i \in 1 .. pos} /\ 1 .. pos \subseteq DOMAIN cq
    BY QueueNumbers DEF Inv, Books
  <2> QED BY <2>1, <2>2, <2>3 DEF CqBuffers
<1>7. AllReturned => AllReturned'
  BY <1>1, <1>6 DEF AllReturned, Buffers
<1> QED BY <1>1, <1>3, <1>7 DEF Whole, NoLast

LEMMA StepWhole == ASSUME Inv, Whole, [Next]_vars PROVE Whole'
<1>1. CASE UNCHANGED vars \/ BeginDrain \/ \E t \in TestIds : Arrive(t)
  BY <1>1, QuietWhole DEF vars, ringVars, loopVars, BeginDrain, Arrive, Running
<1>2. CASE SqThread \/ Fill \/ Enter  BY <1>2, SubmitWhole
<1>3. CASE KernelReceive  BY <1>3, ReceiveWhole
<1>4. CASE KernelFail  BY <1>4 DEF KernelFail, Whole
<1>5. CASE HandleData
  <2>1. /\ UNCHANGED <<cfg, pool, sq, kern, cq, pc>> /\ CqeMessage \in Message
        /\ handled' = Append(handled, CqeMessage)
    BY <1>5, AtCqeType DEF HandleData, Parse, ringVars
  <2>2. NoLast' => NoLast  BY <2>1, LastRemains
  <2> QED BY <2>1, <2>2 DEF Whole, AllBytes, AllReturned, CqBuffers, Buffers
<1>6. CASE HandleLast
  <2>1. AtCqe /\ EarlyReturn /\ cfg' = cfg /\ CqeMessage \in Message
        /\ handled' = Append(handled, CqeMessage) /\ CqeResult = "LAST"
    BY <1>6, AtCqeType DEF HandleLast, Parse
  <2>2. CqeMessage.type = "LAST"
    BY <2>1 DEF CqeResult, ParseResult, Message
  <2>3. ~NoLast'  BY <2>1, <2>2, LastRemains
  <2> QED BY <2>1, <2>3, EarlyReturnWhole
<1>7. CASE HandleBad
  <2>1. AtCqe /\ EarlyReturn /\ cfg' = cfg /\ pc' \notin Running
    BY <1>7 DEF HandleBad, Running
  <2> QED BY <2>1, EarlyReturnWhole
<1>8. CASE HandleError
  <2>1. AtCqe /\ EarlyReturn /\ cfg' = cfg /\ Cqe.res # "bytes"
    BY <1>8 DEF HandleError
  <2>2. ~AllBytes  BY <2>1, AtCqeType DEF AllBytes, Cqe
  <2>3. cfg.faults  BY <2>2 DEF Whole
  <2> QED BY <2>1, <2>3, EarlyReturnWhole
<1>9. CASE EndDrain  BY <1>9, EndDrainWhole
<1> QED BY <1>1, <1>2, <1>3, <1>4, <1>5, <1>6, <1>7, <1>8, <1>9 DEF Next, LoopStep, KernelStep

LEMMA InitWhole == ASSUME Init PROVE Whole
BY DEF Init, Whole, AllBytes, AllReturned, CqBuffers

(* As long as no request fails and no test has ended, every buffer is in   *)
(* the pool or on its way back to it: also the buffers of INIT messages    *)
(* and those of a drain that saw only a part of the queue are returned     *)
(* (receiver.rs 218-257, packet_buffer.rs 123-127).                       *)
THEOREM NoBufferIsLost == Spec => []NoLeakBeforeLast
<1>1. Init => Whole  BY InitWhole
<1>2. Inv /\ Whole /\ [Next]_vars => Whole'  BY StepWhole
<1>3. Whole => NoLeakBeforeLast  BY DEF Whole, NoLast, NoLeakBeforeLast
<1> QED BY <1>1, <1>2, <1>3, AlwaysInv, PTL DEF Spec
=============================================================================
