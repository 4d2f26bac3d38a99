--------------------------- MODULE UringSend_proof ---------------------------
(***************************************************************************)
(* Proofs about UringSend for every ring, number of buffers, burst, fill   *)
(* mode, number of packets per message, and for both modes of sending.     *)
(***************************************************************************)
EXTENDS UringSend, CommonLemmas, FiniteSetTheorems, SequenceTheorems, TLAPS

(* What the types leave open.                                              *)
Bounds ==
  /\ IsFiniteSet(kern) /\ IsFiniteSet(held) /\ IsFiniteSet(dropped)
  /\ nextId <= MaxId
  /\ pc \notin {"cqe", "failed"} => pos = 0 /\ completed = 0 /\ indexPool = <<>>
  /\ ~cfg.zerocopy => held = {}

(* Every completion that will still be counted has a request that counts   *)
(* as in flight.                                                           *)
Queued == Len(sq) + Cardinality(kern)
Covered ==
  /\ cfg.zerocopy => completed + Queued + Cardinality(held) + Cardinality(Unhandled({"notif"})) <= inflight
  /\ ~cfg.zerocopy => completed + Queued + Cardinality(Unhandled({"bytes"})) <= inflight

Types == TypeOK /\ Bounds /\ Covered
-----------------------------------------------------------------------------
(* What a completion may carry.                                            *)
Results == {"bytes", "EAGAIN", "errno", "notif"}
-----------------------------------------------------------------------------
LEMMA Parameter ==
  ASSUME cfg \in Configs
  PROVE  /\ cfg.uring.ring \in Nat \ {0} /\ cfg.uring.burst \in Nat /\ cfg.uring.buffer \in Nat \ {0}
         /\ cfg.uring.burst <= cfg.uring.ring /\ cfg.uring.ring <= cfg.uring.buffer
         /\ cfg.packets \in Nat \ {0}
         /\ cfg.zerocopy \in BOOLEAN
<1>1. /\ cfg.uring.ring \in Nat \ {0} /\ cfg.uring.burst \in Nat /\ cfg.uring.buffer \in Nat
      /\ cfg.uring.burst <= cfg.uring.ring /\ cfg.uring.ring <= cfg.uring.buffer
  BY ConfigsAssumption DEF UringParameter
<1>2. cfg.packets \in Nat \ {0} /\ cfg.zerocopy \in BOOLEAN  BY ConfigsAssumption
<1> QED BY <1>1, <1>2

LEMMA UnhandledType ==
  ASSUME TypeOK, NEW R
  PROVE  /\ Len(cq) \in Nat /\ pos \in Nat /\ snap \in Nat /\ pos <= snap /\ snap <= Len(cq)
         /\ Unhandled(R) = Places(cq, pos, R)
         /\ IsFiniteSet(Unhandled(R)) /\ Cardinality(Unhandled(R)) \in Nat
<1>1. Len(cq) \in Nat  BY LenProperties DEF TypeOK
<1>2. pos \in Nat /\ snap \in Nat /\ pos <= snap /\ snap <= Len(cq)  BY <1>1 DEF TypeOK
<1>3. Unhandled(R) = Places(cq, pos, R)  BY DEF Unhandled, Places
<1> QED BY <1>1, <1>2, <1>3, PlacesFinite DEF TypeOK

(* Quantities that the counts are made of.                                 *)
LEMMA Quantities ==
  ASSUME TypeOK, IsFiniteSet(kern), IsFiniteSet(held)
  PROVE  /\ Len(sq) \in Nat /\ Cardinality(kern) \in Nat /\ Cardinality(held) \in Nat
         /\ Len(pool) \in Nat /\ Len(indexPool) \in Nat
         /\ Queued \in Nat
<1>1. /\ Len(sq) \in Nat /\ Cardinality(kern) \in Nat /\ Cardinality(held) \in Nat
      /\ Len(pool) \in Nat /\ Len(indexPool) \in Nat
  BY LenProperties, FS_CardinalityType DEF TypeOK
<1> QED BY <1>1 DEF Queued

(* A completion arrives.                                                   *)
LEMMA Arrives ==
  ASSUME TypeOK, NEW b \in Buffers, NEW res \in Results, NEW R,
         cq' = Append(cq, [buf |-> b, res |-> res]), UNCHANGED <<cfg, pos>>
  PROVE  /\ cq' \in Seq(Completion)
         /\ Len(cq') = Len(cq) + 1
         /\ \A i \in 1 .. Len(cq) : cq'[i] = cq[i]
         /\ cq'[Len(cq) + 1] = [buf |-> b, res |-> res]
         /\ Unhandled(R)' = Unhandled(R) \cup (IF res \in R THEN {Len(cq) + 1} ELSE {})
         /\ Cardinality(Unhandled(R)') = Cardinality(Unhandled(R)) + (IF res \in R THEN 1 ELSE 0)
<1> DEFINE c == [buf |-> b, res |-> res]
<1>1. c \in Completion /\ c.res = res  BY DEF Completion, Results
<1>2. cq \in Seq(Completion) /\ pos \in 0 .. Len(cq)  BY UnhandledType DEF TypeOK
<1>3. cq' = Append(cq, c)  OBVIOUS
<1> HIDE DEF c
<1>4. Unhandled(R)' = Places(Append(cq, c), pos, R)  BY <1>3 DEF Unhandled, Places
<1>5. Unhandled(R) = Places(cq, pos, R)  BY DEF Unhandled, Places
<1>6. /\ Places(Append(cq, c), pos, R)
           = Places(cq, pos, R) \cup (IF c.res \in R THEN {Len(cq) + 1} ELSE {})
      /\ Cardinality(Places(Append(cq, c), pos, R))
           = Cardinality(Places(cq, pos, R)) + (IF c.res \in R THEN 1 ELSE 0)
  BY <1>1, <1>2, PlacesAppend
<1>7. /\ cq' \in Seq(Completion) /\ Len(cq') = Len(cq) + 1
      /\ \A i \in 1 .. Len(cq) : cq'[i] = cq[i] /\ cq'[Len(cq) + 1] = c
  BY <1>1, <1>2, <1>3, AppendProperties
<1>8. cq'[Len(cq) + 1] = c  BY <1>1, <1>2, <1>3, AppendProperties
<1> QED BY <1>1, <1>4, <1>5, <1>6, <1>7, <1>8 DEF c

(* The loop gets to the next completion.                                   *)
LEMMA Passes ==
  ASSUME TypeOK, AtCqe, pos' = pos + 1, UNCHANGED cq, NEW R
  PROVE  /\ pos + 1 \in 1 .. snap /\ Cqe \in Completion
         /\ Unhandled(R)' = Unhandled(R) \ {pos + 1}
         /\ Cqe.res \in R <=> pos + 1 \in Unhandled(R)
         /\ Cardinality(Unhandled(R)')
              = Cardinality(Unhandled(R)) - (IF Cqe.res \in R THEN 1 ELSE 0)
         /\ Cardinality(Unhandled(R)') \in Nat
<1>1. cq \in Seq(Completion) /\ pos \in Nat /\ snap \in Nat /\ pos < snap /\ pos < Len(cq)
  BY UnhandledType DEF TypeOK, AtCqe
<1>2. Unhandled(R) = Places(cq, pos, R) /\ Unhandled(R)' = Places(cq, pos + 1, R)
  BY DEF Unhandled, Places
<1>3. pos + 1 \in 1 .. Len(cq)  BY <1>1, UnhandledType
<1>4. Cqe \in Completion  BY <1>1, <1>3, ElementOfSeq DEF Cqe
<1>5. Cardinality(Places(cq, pos + 1, R)) \in Nat  BY <1>1, PlacesFinite
<1> QED BY <1>1, <1>2, <1>4, <1>5, PlacesNext DEF Cqe

(* The snapshot was handled.                                               *)
LEMMA Released ==
  ASSUME TypeOK, EndDrain, NEW R
  PROVE  /\ cq' \in Seq(Completion)
         /\ Len(cq') = Len(cq) - pos
         /\ \A i \in 1 .. Len(cq) - pos : cq'[i] = cq[pos + i]
         /\ \A i : i \in Unhandled(R)' <=> i \in Nat /\ pos + i \in Unhandled(R)
         /\ Cardinality(Unhandled(R)') = Cardinality(Unhandled(R))
<1>1. cq \in Seq(Completion) /\ pos \in 0 .. Len(cq)  BY UnhandledType DEF TypeOK
<1>2. cq' = SubSeq(cq, pos + 1, Len(cq)) /\ pos' = 0  BY DEF EndDrain
<1>3. Unhandled(R) = Places(cq, pos, R) /\ Unhandled(R)' = Places(cq', 0, R)
  BY <1>2 DEF Unhandled, Places
<1> QED BY <1>1, <1>2, <1>3, PlacesShift
-----------------------------------------------------------------------------
(* Types.                                                                  *)

LEMMA InitTypes == ASSUME Init PROVE Types
<1>1. cfg \in Configs /\ cfg.uring.buffer \in Nat /\ cfg.uring.ring \in Nat  BY Parameter DEF Init
<1>2. /\ cq = <<>> /\ Len(cq) = 0 /\ cq \in Seq(Completion)
      /\ sq = <<>> /\ Len(sq) = 0 /\ sq \in Seq(Request)
      /\ wire \in Seq(Nat) /\ indexPool \in Seq(Buffers)
  BY DEF Init
<1> DEFINE n == cfg.uring.buffer
<1>3. /\ pool \in Seq(Buffers) /\ Len(pool) = n
  <2>1. pool = [i \in 1 .. n |-> i - 1]  BY DEF Init
  <2>2. n \in Nat /\ Buffers = 0 .. (n - 1)  BY <1>1 DEF Buffers
  <2> HIDE DEF n
  <2> QED BY <2>1, <2>2
<1>4. TypeOK  BY <1>1, <1>2, <1>3 DEF Init, TypeOK
<1>5. Bounds  BY FS_EmptySet, MaxIdAssumption DEF Init, Bounds
<1>6. \A R : Unhandled(R) = {}  BY <1>2 DEF Unhandled, Places, Init
<1>7. Covered
  <2>1. Len(sq) = 0 /\ Cardinality(kern) = 0 /\ Cardinality(held) = 0
        /\ \A R : Cardinality(Unhandled(R)) = 0
    BY <1>2, <1>6, FS_EmptySet DEF Init
  <2> QED BY <2>1 DEF Init, Covered, Queued
<1> QED BY <1>4, <1>5, <1>7 DEF Types

(* What a request that the kernel executes does.                           *)
Effect(r, res) ==
  /\ cq' = Append(cq, [buf |-> r.buf, res |-> res])
  /\ held' \in {held, held \cup {r}}
  /\ ~cfg.zerocopy => held' = held
  /\ res = "bytes" => wire' = Append(wire, stamp[r.buf]) /\ dropped' = dropped
  /\ res = "bytes" /\ cfg.zerocopy => held' = held \cup {r}
  /\ res # "bytes" => wire' = wire /\ dropped' = dropped \cup {r.id}
  /\ res # "bytes" /\ Guarded => held' = held

LEMMA ExecuteEffect ==
  ASSUME TypeOK, NEW r, Execute(r)
  PROVE  \E res \in {"bytes", "EAGAIN", "errno"} : Effect(r, res)
<1>1. CASE /\ wire' = Append(wire, stamp[r.buf])
           /\ cq' = Append(cq, [buf |-> r.buf, res |-> "bytes"])
           /\ held' = IF cfg.zerocopy THEN held \cup {r} ELSE held
           /\ UNCHANGED dropped
  <2>1. ~cfg.zerocopy => held' = held  BY <1>1
  <2>2. cfg.zerocopy => held' = held \cup {r}  BY <1>1
  <2>3. Effect(r, "bytes")  BY <2>1, <2>2, <1>1 DEF Effect
  <2> QED BY <2>3
<1>2. CASE /\ cfg.faults
           /\ \E e \in {"EAGAIN", "errno"} : cq' = Append(cq, [buf |-> r.buf, res |-> e])
           /\ held' = IF cfg.zerocopy /\ cfg.notifyFailed THEN held \cup {r} ELSE held
           /\ dropped' = dropped \cup {r.id}
           /\ UNCHANGED wire
  <2>1. PICK e \in {"EAGAIN", "errno"} : cq' = Append(cq, [buf |-> r.buf, res |-> e])
    BY <1>2
  <2>2. held' \in {held, held \cup {r}} /\ (~cfg.zerocopy => held' = held)  BY <1>2
  <2>3. Guarded => held' = held  BY <1>2 DEF Guarded
  <2>4. wire' = wire /\ dropped' = dropped \cup {r.id} /\ e # "bytes"  BY <1>2
  <2>5. Effect(r, e)  BY <2>1, <2>2, <2>3, <2>4 DEF Effect
  <2> QED BY <2>5
<1> QED BY <1>1, <1>2 DEF Execute

(* A request that leaves the queue, or those put off, and is executed.     *)
LEMMA ExecuteTypes ==
  ASSUME Types, NEW r \in Request, NEW res \in {"bytes", "EAGAIN", "errno"}, Effect(r, res),
         sq' \in Seq(Request), kern' \subseteq kern,
         Queued' = Queued - 1, Len(sq') <= Len(sq),
         UNCHANGED <<cfg, nextId, bufferVars, pc, drainVars, countVars>>
  PROVE  Types'
<1>a. TypeOK /\ Bounds /\ Covered  BY DEF Types
<1>2. r.buf \in Buffers /\ r.id \in Nat /\ res \in Results  BY DEF Request, Results
<1>3. UNCHANGED <<cfg, pos>> /\ cq' = Append(cq, [buf |-> r.buf, res |-> res])
  BY DEF drainVars, Effect
<1>4. /\ cq' \in Seq(Completion) /\ Len(cq') = Len(cq) + 1
      /\ \A R : Cardinality(Unhandled(R)')
           = Cardinality(Unhandled(R)) + (IF res \in R THEN 1 ELSE 0)
  BY <1>a, <1>2, <1>3, Arrives
<1>6. wire' \in Seq(Nat) /\ dropped' \subseteq Nat /\ IsFiniteSet(dropped')
  <2>1. stamp[r.buf] \in Nat /\ wire \in Seq(Nat) /\ dropped \subseteq Nat /\ IsFiniteSet(dropped)
    BY <1>a, <1>2 DEF TypeOK, Bounds
  <2>2. Append(wire, stamp[r.buf]) \in Seq(Nat)  BY <2>1, AppendProperties
  <2>3. IsFiniteSet(dropped \cup {r.id})  BY <2>1, AddOne
  <2>4. CASE res = "bytes"
    <3>1. wire' = Append(wire, stamp[r.buf]) /\ dropped' = dropped  BY <2>4 DEF Effect
    <3> QED BY <2>1, <2>2, <3>1
  <2>5. CASE res # "bytes"
    <3>1. wire' = wire /\ dropped' = dropped \cup {r.id}  BY <2>5 DEF Effect
    <3> QED BY <1>2, <2>1, <2>3, <3>1
  <2> QED BY <2>4, <2>5
<1>7. held' \subseteq Request /\ IsFiniteSet(held') /\ Cardinality(held') <= Cardinality(held) + 1
      /\ (~cfg.zerocopy => held' = held) /\ Cardinality(held') \in Nat
  <2>1. Cardinality(held) \in Nat /\ held \subseteq Request /\ IsFiniteSet(held)
    BY <1>a, Quantities DEF Bounds, TypeOK
  <2>2. IsFiniteSet(held \cup {r}) /\ Cardinality(held \cup {r}) <= Cardinality(held) + 1
         /\ Cardinality(held \cup {r}) \in Nat
    BY <2>1, AddOne
  <2>3. CASE held' = held  BY <2>1, <2>3
  <2>4. CASE held' = held \cup {r}
    <3>1. ~cfg.zerocopy => held' = held  BY DEF Effect
    <3> QED BY <2>1, <2>2, <2>4, <3>1
  <2> QED BY <2>3, <2>4 DEF Effect
<1>8. kern' \subseteq Request /\ IsFiniteSet(kern') /\ Cardinality(kern') \in Nat
  BY <1>a, FS_Subset, FS_CardinalityType DEF TypeOK, Bounds
<1>9. TypeOK'
  <2>1. snap \in 0 .. Len(cq')  BY <1>a, <1>4, UnhandledType
  <2>2. Len(sq') <= cfg.uring.ring
    BY <1>a, Quantities, LenProperties, Parameter DEF TypeOK, Bounds
  <2> QED BY <1>a, <1>4, <1>6, <1>7, <1>8, <2>1, <2>2
          DEF TypeOK, bufferVars, drainVars, countVars, Buffers, Request, Completion
<1>10. Bounds'
  BY <1>a, <1>6, <1>7, <1>8 DEF Bounds, drainVars
<1>11. Covered'
  <2>1. /\ Queued \in Nat /\ Cardinality(held) \in Nat /\ completed \in Nat /\ inflight \in Nat
        /\ \A R : Cardinality(Unhandled(R)) \in Nat
    BY <1>a, Quantities, UnhandledType DEF Bounds, TypeOK
  <2>2. UNCHANGED <<cfg, completed, inflight>>  BY DEF drainVars, countVars
  <2>3. CASE cfg.zerocopy
    <3>1. Cardinality(Unhandled({"notif"})') = Cardinality(Unhandled({"notif"}))  BY <1>4, <2>1
    <3> QED BY <1>a, <2>1, <2>2, <2>3, <3>1, <1>7 DEF Covered
  <2>4. CASE ~cfg.zerocopy
    <3>1. Cardinality(Unhandled({"bytes"})') <= Cardinality(Unhandled({"bytes"})) + 1
          /\ Cardinality(Unhandled({"bytes"})') \in Nat
      BY <1>4, <2>1
    <3> QED BY <1>a, <2>1, <2>2, <2>4, <3>1 DEF Covered
  <2> QED BY <2>3, <2>4
<1> QED BY <1>9, <1>10, <1>11 DEF Types

LEMMA QueueHead ==
  ASSUME TypeOK, sq # <<>>
  PROVE  /\ Head(sq) \in Request /\ Tail(sq) \in Seq(Request)
         /\ Len(sq) \in Nat /\ Len(sq) > 0 /\ Len(Tail(sq)) = Len(sq) - 1
         /\ Head(sq) = sq[1]
         /\ \A i \in 1 .. Len(sq) - 1 : Tail(sq)[i] = sq[i + 1]
<1>1. sq \in Seq(Request) /\ Len(sq) \in Nat  BY LenProperties DEF TypeOK
<1>2. /\ Head(sq) \in Request /\ Tail(sq) \in Seq(Request)
      /\ Len(Tail(sq)) = Len(sq) - 1 /\ Len(Tail(sq)) \in Nat
      /\ \A i \in 1 .. Len(Tail(sq)) : Tail(sq)[i] = sq[i + 1]
  BY <1>1, HeadTailProperties, LenProperties
<1>3. Head(sq) = sq[1]  BY <1>1
<1> QED BY <1>1, <1>2, <1>3

(* A request in the hands of the kernel: Issue executes the oldest of the  *)
(* queue or puts it off, SendLater executes one that was put off.          *)
LEMMA IssueTypes ==
  ASSUME Types, Issue
  PROVE  Types'
<1>a. TypeOK /\ Bounds /\ Covered /\ sq # <<>> /\ sq' = Tail(sq)  BY DEF Types, Issue
<1>1. /\ Head(sq) \in Request /\ sq' \in Seq(Request) /\ Len(sq') = Len(sq) - 1 /\ Len(sq) \in Nat
      /\ Cardinality(kern) \in Nat
  BY <1>a, QueueHead, Quantities DEF Bounds
<1>2. CASE Execute(Head(sq)) /\ UNCHANGED kern
  <2>1. PICK res \in {"bytes", "EAGAIN", "errno"} : Effect(Head(sq), res)
    BY <1>a, <1>2, ExecuteEffect
  <2>2. kern' \subseteq kern /\ Queued' = Queued - 1 /\ Len(sq') <= Len(sq)
    BY <1>1, <1>2 DEF Queued
  <2>3. UNCHANGED <<cfg, nextId, bufferVars, pc, drainVars, countVars>>  BY DEF Issue
  <2> QED BY <1>1, <2>1, <2>2, <2>3, ExecuteTypes
<1>3. CASE /\ cfg.deferred
           /\ kern' = kern \cup {Head(sq)}
           /\ UNCHANGED <<held, cq, wire, dropped>>
  <2>1. UNCHANGED <<cfg, nextId, bufferVars, pc, drainVars, countVars>>  BY DEF Issue
  <2>2. /\ kern' \subseteq Request /\ IsFiniteSet(kern') /\ Cardinality(kern') \in Nat
        /\ Cardinality(kern') <= Cardinality(kern) + 1
    BY <1>a, <1>1, <1>3, AddOne DEF TypeOK, Bounds
  <2>3. Len(sq') <= cfg.uring.ring  BY <1>a, <1>1, Parameter DEF TypeOK
  <2>4. TypeOK'
    BY <1>a, <1>1, <1>3, <2>1, <2>2, <2>3
       DEF TypeOK, bufferVars, drainVars, countVars, Buffers, Request, Completion
  <2>5. Bounds'  BY <1>a, <1>3, <2>1, <2>2 DEF Bounds, drainVars
  <2>6. Covered'
    <3>1. Queued \in Nat /\ Queued' \in Nat /\ Queued' <= Queued  BY <1>1, <2>2 DEF Queued
    <3>2. \A R : Unhandled(R)' = Unhandled(R)  BY <1>3, <2>1 DEF Unhandled, drainVars
    <3>3. /\ \A R : Cardinality(Unhandled(R)) \in Nat
          /\ Cardinality(held) \in Nat /\ completed \in Nat /\ inflight \in Nat
      BY <1>a, UnhandledType, Quantities DEF TypeOK, Bounds
    <3> QED BY <1>a, <1>3, <2>1, <3>1, <3>2, <3>3 DEF Covered, drainVars, countVars
  <2> QED BY <2>4, <2>5, <2>6 DEF Types
<1> QED BY <1>2, <1>3 DEF Issue

LEMMA PutOff ==
  ASSUME TypeOK, Bounds, NEW r \in kern, kern' = kern \ {r}, UNCHANGED sq
  PROVE  r \in Request /\ kern' \subseteq kern /\ Queued' = Queued - 1
<1>1. Cardinality(kern \ {r}) = Cardinality(kern) - 1  BY FS_RemoveElement DEF Bounds
<1>2. Cardinality(kern) \in Nat /\ Len(sq) \in Nat  BY Quantities DEF Bounds
<1> QED BY <1>1, <1>2 DEF TypeOK, Queued

LEMMA SendLaterTypes ==
  ASSUME Types, SendLater
  PROVE  Types'
<1>a. TypeOK /\ Bounds  BY DEF Types
<1>1. PICK r \in kern : kern' = kern \ {r} /\ Execute(r)  BY DEF SendLater
<1>2. UNCHANGED <<cfg, nextId, bufferVars, sq, pc, drainVars, countVars>>  BY DEF SendLater
<1>3. r \in Request /\ kern' \subseteq kern /\ Queued' = Queued - 1  BY <1>a, <1>1, <1>2, PutOff
<1>4. PICK res \in {"bytes", "EAGAIN", "errno"} : Effect(r, res)  BY <1>a, <1>1, ExecuteEffect
<1>5. sq' \in Seq(Request) /\ Len(sq') <= Len(sq)  BY <1>a, <1>2, LenProperties DEF TypeOK
<1> QED BY <1>2, <1>3, <1>4, <1>5, ExecuteTypes

LEMMA NotifyTypes ==
  ASSUME Types, Notify
  PROVE  Types'
<1>a. TypeOK /\ Bounds /\ Covered  BY DEF Types
<1>1. PICK r \in held : held' = held \ {r} /\ cq' = Append(cq, [buf |-> r.buf, res |-> "notif"])
  BY DEF Notify
<1>2. UNCHANGED <<cfg, nextId, bufferVars, sq, kern, wire, dropped, pc, drainVars, countVars>>
  BY DEF Notify
<1>3. r.buf \in Buffers /\ "notif" \in Results  BY <1>a DEF TypeOK, Request, Results
<1>4. /\ cq' \in Seq(Completion) /\ Len(cq') = Len(cq) + 1
      /\ \A R : Cardinality(Unhandled(R)')
           = Cardinality(Unhandled(R)) + (IF "notif" \in R THEN 1 ELSE 0)
  BY <1>a, <1>1, <1>2, <1>3, Arrives DEF drainVars
<1>5. /\ Cardinality(held') = Cardinality(held) - 1 /\ Cardinality(held) \in Nat
      /\ held' \subseteq Request /\ IsFiniteSet(held')
  BY <1>a, <1>1, FS_RemoveElement, FS_CardinalityType DEF TypeOK, Bounds
<1>6. snap \in 0 .. Len(cq')  BY <1>a, <1>4, UnhandledType
<1>7. TypeOK'
  BY <1>a, <1>2, <1>4, <1>5, <1>6
     DEF TypeOK, bufferVars, drainVars, countVars, Buffers, Request, Completion
<1>8. cfg.zerocopy  BY <1>a, <1>1 DEF Bounds
<1>9. Bounds'  BY <1>a, <1>2, <1>5, <1>8 DEF Bounds, drainVars
<1>10. Covered'
  <2>1. /\ Queued' = Queued /\ Queued \in Nat /\ completed' = completed /\ inflight' = inflight
        /\ completed \in Nat /\ inflight \in Nat
    BY <1>a, <1>2, Quantities DEF Queued, drainVars, countVars, TypeOK, Bounds
  <2>2. /\ Cardinality(Unhandled({"notif"})') = Cardinality(Unhandled({"notif"})) + 1
        /\ Cardinality(Unhandled({"notif"})) \in Nat
    BY <1>a, <1>4, UnhandledType
  <2> QED BY <1>a, <1>2, <1>5, <1>8, <2>1, <2>2 DEF Covered
<1> QED BY <1>7, <1>9, <1>10 DEF Types

LEMMA ToSubmitNat ==
  ASSUME NEW p, p.ring \in Nat, p.burst \in Nat, p.buffer \in Nat,
         NEW f \in Nat, NEW q \in Nat, q <= p.ring
  PROVE  ToSubmit(f, q, p) \in Nat
<1>1. CASE NoBuffers(f, p)  BY <1>1 DEF ToSubmit
<1>2. CASE ~NoBuffers(f, p) /\ p.fill = "Syscall"
  <2>1. ToSubmit(f, q, p) = IF f = 0 THEN p.burst ELSE 0  BY <1>2 DEF ToSubmit
  <2> QED BY <2>1
<1>3. CASE ~NoBuffers(f, p) /\ p.fill # "Syscall"
  <2>1. ToSubmit(f, q, p) = IF p.buffer - f < p.ring - q THEN p.buffer - f ELSE p.ring - q
    BY <1>3 DEF ToSubmit
  <2>2. f <= p.buffer - p.burst  BY <1>3 DEF NoBuffers
  <2> QED BY <2>1, <2>2
<1> QED BY <1>1, <1>2, <1>3

LEMMA IdNat ==
  ASSUME NEW n \in Nat, NEW j \in Nat, NEW p \in Nat
  PROVE  j * p \in Nat /\ n + j * p \in Nat
OBVIOUS

LEMMA QuotientFits ==
  ASSUME NEW a \in Nat, NEW p \in Nat \ {0}, NEW k \in Nat, k <= a \div p
  PROVE  k * p <= a
<1>1. a \div p \in Nat /\ (a \div p) * p <= a  OBVIOUS
<1> QED BY <1>1

LEMMA WantedType ==
  ASSUME TypeOK, Bounds
  PROVE  /\ PoolInflight \in Nat
         /\ Wanted \in Nat /\ Room \in Nat /\ Room <= cfg.uring.ring /\ Room = cfg.uring.ring - Len(sq)
         /\ Wanted <= ToSubmit(PoolInflight, Len(sq), cfg.uring)
         /\ \A k \in Nat : k <= Wanted => k * cfg.packets \in Nat /\ nextId + k * cfg.packets <= MaxId
<1>1. /\ cfg \in Configs /\ cfg.packets \in Nat \ {0} /\ cfg.uring.ring \in Nat
      /\ Len(sq) \in Nat /\ Len(sq) <= cfg.uring.ring
      /\ Len(pool) \in Nat /\ capacity \in Nat /\ Len(pool) <= capacity
      /\ nextId \in Nat /\ nextId <= MaxId /\ MaxId \in Nat
  BY Parameter, LenProperties, MaxIdAssumption DEF TypeOK, Bounds
<1>2. PoolInflight \in Nat /\ Room \in Nat /\ Room <= cfg.uring.ring  BY <1>1 DEF PoolInflight, Room
<1> DEFINE n == ToSubmit(PoolInflight, Len(sq), cfg.uring)
           left == (MaxId - nextId) \div cfg.packets
<1>3. n \in Nat  BY <1>1, <1>2, Parameter, ToSubmitNat
<1>4. MaxId - nextId \in Nat  BY <1>1
<1>5. left \in Nat  BY <1>1, <1>4, SMTT(30)
<1>6. \A k \in Nat : k <= left => k * cfg.packets <= MaxId - nextId
  BY <1>1, <1>4, QuotientFits
<1>7. Wanted = IF n < left THEN n ELSE left  BY DEF Wanted
<1> HIDE DEF n, left
<1>8. Wanted \in Nat /\ Wanted <= n /\ Wanted <= left  BY <1>3, <1>5, <1>7
<1>9. \A k \in Nat : k * cfg.packets \in Nat  BY <1>1
<1>10. \A k \in Nat : k <= Wanted => k <= left  BY <1>5, <1>8
<1>11. \A k \in Nat : k <= Wanted => nextId + k * cfg.packets <= MaxId
  <2> SUFFICES ASSUME NEW k \in Nat, k <= Wanted PROVE nextId + k * cfg.packets <= MaxId
    OBVIOUS
  <2> DEFINE m == k * cfg.packets
  <2>1. m \in Nat /\ m <= MaxId - nextId  BY <1>6, <1>9, <1>10
  <2> HIDE DEF m
  <2>2. nextId + m <= MaxId  BY <2>1, <1>1
  <2> QED BY <2>2 DEF m
<1> QED BY <1>2, <1>8, <1>9, <1>11 DEF n, Room

(* Requests that a submission queues.                                      *)
LEMMA Pushed ==
  ASSUME TypeOK, NEW k \in Nat, NEW s \in Seq(Request), Len(s) = k, sq' = sq \o s
  PROVE  /\ sq' \in Seq(Request) /\ Len(sq') = Len(sq) + k
         /\ \A i \in 1 .. Len(sq) : sq'[i] = sq[i]
         /\ \A i \in 1 .. k : sq'[Len(sq) + i] = s[i]
<1>1. sq \in Seq(Request) /\ Len(sq) \in Nat  BY LenProperties DEF TypeOK
<1>2. /\ sq \o s \in Seq(Request) /\ Len(sq \o s) = Len(sq) + Len(s)
      /\ \A i \in 1 .. Len(sq) + Len(s) :
           (sq \o s)[i] = IF i <= Len(sq) THEN sq[i] ELSE s[i - Len(sq)]
  BY <1>1, ConcatProperties
<1>3. \A i \in 1 .. Len(sq) : i \in 1 .. Len(sq) + k /\ i <= Len(sq)  BY <1>1
<1>4. \A i \in 1 .. k : Len(sq) + i \in 1 .. Len(sq) + k /\ ~(Len(sq) + i <= Len(sq))
                        /\ (Len(sq) + i) - Len(sq) = i
  BY <1>1
<1> QED BY <1>1, <1>2, <1>3, <1>4

(* What a submission leaves of the types, once its queue is known.         *)
LEMMA SubmittedTypes ==
  ASSUME Types, NEW k \in Nat, k <= Wanted, k <= Room,
         sq' \in Seq(Request), Len(sq') = Len(sq) + k,
         inflight' = inflight + k, nextId' = nextId + k * cfg.packets,
         stamp' \in [Buffers -> Nat], pool' \in Seq(Buffers), Len(pool') <= capacity,
         pc = "fill", AfterFill,
         UNCHANGED <<cfg, capacity, kern, held, cq, wire, dropped, drainVars, datagrams, omitted>>
  PROVE  Types'
<1>a. TypeOK /\ Bounds /\ Covered  BY DEF Types
<1>1. UNCHANGED <<cfg, kern, held, cq, pos, completed>>  BY DEF drainVars
<1>2. nextId' \in Nat /\ nextId' <= MaxId
  <2>1. cfg.packets \in Nat /\ nextId \in Nat  BY <1>a, Parameter DEF TypeOK
  <2>2. nextId + k * cfg.packets <= MaxId  BY <1>a, WantedType
  <2> QED BY <2>1, <2>2, IdNat
<1>3. /\ Len(sq) \in Nat /\ Len(sq') <= cfg.uring.ring /\ inflight' \in Nat /\ Queued \in Nat
      /\ Cardinality(kern) \in Nat
  <2>1. /\ Len(sq) \in Nat /\ Queued \in Nat /\ Cardinality(kern) \in Nat
        /\ inflight \in Nat /\ cfg.uring.ring \in Nat /\ Len(sq) <= cfg.uring.ring
    BY <1>a, Quantities, Parameter DEF TypeOK, Bounds
  <2>2. k <= cfg.uring.ring - Len(sq)  BY <1>a, WantedType
  <2> QED BY <2>1, <2>2
<1>4. pc' \in {"drain", "enter"}  BY DEF AfterFill
<1>5. TypeOK'
  BY <1>a, <1>2, <1>3, <1>4 DEF TypeOK, drainVars, Buffers, Request, Completion
<1>6. Bounds'  BY <1>a, <1>2 DEF Bounds, drainVars
<1>7. Covered'
  <2>1. Queued' = Queued + k  BY <1>1, <1>3 DEF Queued
  <2>2. \A R : Unhandled(R)' = Unhandled(R) /\ Cardinality(Unhandled(R)) \in Nat
    BY <1>a, <1>1, UnhandledType DEF Unhandled
  <2>3. Cardinality(held) \in Nat /\ completed \in Nat /\ inflight \in Nat
    BY <1>a, Quantities DEF TypeOK, Bounds
  <2> QED BY <1>a, <1>1, <1>3, <2>1, <2>2, <2>3 DEF Covered
<1> QED BY <1>5, <1>6, <1>7 DEF Types

LEMMA FillNormalQueue ==
  ASSUME Types, FillNormal
  PROVE  \E k \in Nat :
           /\ k <= Wanted /\ k <= Room /\ Len(sq') = Len(sq) + k /\ sq' \in Seq(Request)
           /\ \A i \in 1 .. Len(sq) : sq'[i] = sq[i]
           /\ \A i \in 1 .. k : /\ i - 1 \in Buffers /\ i - 1 < Wanted
                                /\ sq'[Len(sq) + i] = [buf |-> i - 1, id |-> nextId + (i - 1) * cfg.packets]
           /\ inflight' = inflight + k /\ nextId' = nextId + k * cfg.packets
<1>a. TypeOK /\ Bounds  BY DEF Types
<1> DEFINE n == Wanted
           k == IF n < Room THEN n ELSE Room
           s == [i \in 1 .. k |-> [buf |-> i - 1, id |-> nextId + (i - 1) * cfg.packets]]
<1>1. n \in Nat /\ Room \in Nat /\ Room <= cfg.uring.ring  BY <1>a, WantedType
<1>2. sq' = sq \o s /\ inflight' = inflight + k /\ nextId' = nextId + k * cfg.packets
  BY DEF FillNormal, Advance
<1>3. k \in Nat /\ k <= n /\ k <= Room  BY <1>1
<1> HIDE DEF n, k
<1>4. \A i \in 1 .. k : i - 1 \in Buffers /\ i - 1 < n
  BY <1>a, <1>1, <1>3, Parameter DEF Buffers, TypeOK
<1>5. \A i \in 1 .. k : nextId + (i - 1) * cfg.packets \in Nat
  <2>1. \A i \in 1 .. k : i - 1 \in Nat  BY <1>3
  <2>2. cfg.packets \in Nat /\ nextId \in Nat  BY <1>a, Parameter DEF TypeOK
  <2> QED BY <2>1, <2>2, IdNat
<1>6. s \in Seq(Request) /\ Len(s) = k /\ \A i \in 1 .. k : s[i] = [buf |-> i - 1, id |-> nextId + (i - 1) * cfg.packets]
  BY <1>3, <1>4, <1>5 DEF Request
<1> HIDE DEF s
<1>7. /\ sq' \in Seq(Request) /\ Len(sq') = Len(sq) + k
      /\ \A i \in 1 .. Len(sq) : sq'[i] = sq[i]
      /\ \A i \in 1 .. k : sq'[Len(sq) + i] = s[i]
  BY <1>a, <1>2, <1>3, <1>6, Pushed
<1> QED BY <1>2, <1>3, <1>4, <1>6, <1>7 DEF n

LEMMA FillNormalTypes ==
  ASSUME Types, FillNormal
  PROVE  Types'
<1>a. TypeOK /\ Bounds  BY DEF Types
<1>1. PICK k \in Nat : /\ k <= Wanted /\ k <= Room /\ Len(sq') = Len(sq) + k /\ sq' \in Seq(Request)
                       /\ inflight' = inflight + k /\ nextId' = nextId + k * cfg.packets
  BY FillNormalQueue
<1>2. stamp' \in [Buffers -> Nat]
  <2>1. stamp' = [b \in Buffers |-> IF b < Wanted THEN nextId + b * cfg.packets ELSE stamp[b]]
    BY DEF FillNormal
  <2>2. \A b \in Buffers : b \in Nat /\ stamp[b] \in Nat
    <3>1. \A b \in Buffers : stamp[b] \in Nat  BY <1>a DEF TypeOK
    <3>2. cfg.uring.buffer \in Nat  BY <1>a, Parameter DEF TypeOK
    <3>3. \A b \in Buffers : b \in Nat  BY <3>2 DEF Buffers
    <3> QED BY <3>1, <3>3
  <2>3. cfg.packets \in Nat /\ nextId \in Nat  BY <1>a, Parameter DEF TypeOK
  <2>4. \A b \in Buffers : nextId + b * cfg.packets \in Nat  BY <2>2, <2>3, IdNat
  <2> QED BY <2>1, <2>2, <2>4
<1>3. /\ pc = "fill" /\ AfterFill
      /\ UNCHANGED <<cfg, pool, capacity, kern, held, cq, wire, dropped, drainVars, datagrams, omitted>>
  BY DEF FillNormal
<1>4. pool' \in Seq(Buffers) /\ Len(pool') <= capacity  BY <1>a, <1>3 DEF TypeOK
<1> QED BY <1>1, <1>2, <1>3, <1>4, SubmittedTypes

(* A nonempty set of positions has a last one.                             *)
LEMMA LastPosition ==
  ASSUME NEW m \in Nat, NEW A \in SUBSET (1 .. m), A # {}
  PROVE  LET i == CHOOSE i \in A : \A j \in A : j <= i
         IN  i \in A /\ \A j \in A : j <= i
<1> DEFINE T == {m - i : i \in A}
<1>1. T \subseteq Nat /\ T # {}
  <2>1. \A i \in A : m - i \in Nat  OBVIOUS
  <2> QED BY <2>1
<1>2. PICK x \in T : \A y \in T : ~(<<y, x>> \in OpToRel(<, Nat))
  <2>1. IsWellFoundedOn(OpToRel(<, Nat), Nat)  BY NatLessThanWellFounded
  <2> HIDE DEF T
  <2> QED BY <1>1, <2>1, WFMin
<1>3. PICK i \in A : x = m - i  OBVIOUS
<1>4. \A j \in A : j <= i
  <2> SUFFICES ASSUME NEW j \in A, j > i PROVE FALSE  OBVIOUS
  <2>1. m - j \in T /\ m - j \in Nat /\ x \in Nat /\ m - j < x  BY <1>3
  <2> QED BY <2>1, <1>2 DEF OpToRel
<1> QED BY <1>4

FillZcQueue(m, k) ==
  /\ m \in Nat /\ k \in Nat /\ k <= m /\ m <= Len(pool) /\ m <= Wanted /\ k <= Room
  /\ m <= Room => k = m
  /\ pool' \in Seq(Buffers) /\ Len(pool') = Len(pool) - m
  /\ \A i \in 1 .. Len(pool) - m : pool'[i] = pool[i]
  /\ sq' \in Seq(Request) /\ Len(sq') = Len(sq) + k
  /\ \A i \in 1 .. Len(sq) : sq'[i] = sq[i]
  /\ \A i \in 1 .. k : /\ Len(pool) + 1 - i \in 1 .. Len(pool)
                       /\ sq'[Len(sq) + i]
                            = [buf |-> pool[Len(pool) + 1 - i], id |-> nextId + (i - 1) * cfg.packets]
  /\ stamp' \in [Buffers -> Nat]
  /\ \A b \in Buffers :
       \/ stamp'[b] = stamp[b] /\ \A i \in 1 .. m : pool[Len(pool) + 1 - i] # b
       \/ \E i \in 1 .. m : pool[Len(pool) + 1 - i] = b /\ stamp'[b] = nextId + (i - 1) * cfg.packets
  /\ inflight' = inflight + k /\ nextId' = nextId + k * cfg.packets

Failed ==
  /\ pc' = "failed"
  /\ UNCHANGED <<cfg, nextId, bufferVars, kernelVars, drainVars, countVars>>

LEMMA FillZcCases ==
  ASSUME Types, FillZc
  PROVE  /\ (IF Wanted <= Room THEN Wanted ELSE Room + 1) > Len(pool) => Failed
         /\ (IF Wanted <= Room THEN Wanted ELSE Room + 1) <= Len(pool)
              => AfterFill /\ \E m, k \in Nat : FillZcQueue(m, k)
<1>a. TypeOK /\ Bounds  BY DEF Types
<1> DEFINE n == Wanted
           k == IF n < Room THEN n ELSE Room
           m == IF n <= Room THEN n ELSE Room + 1
           Popped(i) == pool[Len(pool) + 1 - i]
           IdOf(i) == nextId + (i - 1) * cfg.packets
           s == [i \in 1 .. k |-> [buf |-> Popped(i), id |-> IdOf(i)]]
           at(b) == {i \in 1 .. m : Popped(i) = b}
<1>1. n \in Nat /\ Room \in Nat  BY <1>a, WantedType
<1>2. CASE m > Len(pool)
  <2>1. pc' = "failed" /\ UNCHANGED <<nextId, stamp, pool, sq, inflight>>  BY <1>2 DEF FillZc
  <2>2. UNCHANGED <<cfg, capacity, kern, held, cq, wire, dropped, drainVars, datagrams, omitted>>
    BY DEF FillZc
  <2>3. Failed  BY <2>1, <2>2 DEF Failed, bufferVars, kernelVars, countVars
  <2>4. Len(pool) \in Nat /\ m \in Nat  BY <1>a, <1>1, LenProperties DEF TypeOK
  <2>5. ~(m <= Len(pool))  BY <1>2, <2>4
  <2> QED BY <2>3, <2>5
<1>3. CASE ~(m > Len(pool))
  <2>1. /\ pool' = SubSeq(pool, 1, Len(pool) - m)
        /\ stamp' = [b \in Buffers |->
                       IF at(b) = {} THEN stamp[b]
                       ELSE IdOf(CHOOSE i \in at(b) : \A j \in at(b) : j <= i)]
        /\ sq' = sq \o s
        /\ Advance(n, k) /\ AfterFill
    BY <1>3 DEF FillZc
  <2>2. /\ m \in Nat /\ k \in Nat /\ k <= m /\ m <= n /\ k <= Room /\ (m <= Room => k = m)
        /\ Len(pool) \in Nat /\ m <= Len(pool)
    BY <1>a, <1>1, <1>3, LenProperties DEF TypeOK
  <2> HIDE DEF n, m, k
  <2>3. /\ pool' \in Seq(Buffers) /\ Len(pool') = Len(pool) - m
        /\ \A i \in 1 .. Len(pool) - m : pool'[i] = pool[i]
    <3>1. 1 \in Int /\ Len(pool) - m \in Nat /\ \A i \in 1 .. Len(pool) - m : pool[i] \in Buffers
      BY <1>a, <2>2, ElementOfSeq DEF TypeOK
    <3> DEFINE l == Len(pool) - m
    <3> HIDE DEF l
    <3>2. /\ SubSeq(pool, 1, l) \in Seq(Buffers)
          /\ Len(SubSeq(pool, 1, l)) = IF 1 <= l THEN l - 1 + 1 ELSE 0
          /\ \A i \in 1 .. l - 1 + 1 : SubSeq(pool, 1, l)[i] = pool[1 + i - 1]
      BY <3>1, SubSeqProperties DEF l
    <3> QED BY <2>1, <3>1, <3>2 DEF l
  <2>4. \A i \in 1 .. m : Len(pool) + 1 - i \in 1 .. Len(pool) /\ Popped(i) \in Buffers
    BY <1>a, <2>2, ElementOfSeq, SMTT(30) DEF TypeOK
  <2>5. \A i \in 1 .. m : IdOf(i) \in Nat
    <3>1. \A i \in 1 .. m : i - 1 \in Nat  BY <2>2
    <3>2. cfg.packets \in Nat /\ nextId \in Nat  BY <1>a, Parameter DEF TypeOK
    <3> QED BY <3>1, <3>2, IdNat
  <2> HIDE DEF Popped, IdOf
  <2>6. 1 .. k \subseteq 1 .. m  BY <2>2
  <2>7. s \in Seq(Request) /\ Len(s) = k /\ \A i \in 1 .. k : s[i] = [buf |-> Popped(i), id |-> IdOf(i)]
    BY <2>2, <2>4, <2>5, <2>6 DEF Request
  <2> HIDE DEF s
  <2>8. /\ sq' \in Seq(Request) /\ Len(sq') = Len(sq) + k
        /\ \A i \in 1 .. Len(sq) : sq'[i] = sq[i]
        /\ \A i \in 1 .. k : sq'[Len(sq) + i] = s[i]
    BY <1>a, <2>1, <2>2, <2>7, Pushed
  <2>9. \A b \in Buffers :
          \/ stamp'[b] = stamp[b] /\ \A i \in 1 .. m : Popped(i) # b
          \/ \E i \in 1 .. m : Popped(i) = b /\ stamp'[b] = IdOf(i)
    <3> TAKE b \in Buffers
    <3>1. CASE at(b) = {}  BY <3>1, <2>1
    <3>2. CASE at(b) # {}
      <4> DEFINE l == CHOOSE i \in at(b) : \A j \in at(b) : j <= i
      <4>1. at(b) \in SUBSET (1 .. m)  OBVIOUS
      <4>2. stamp'[b] = IdOf(l)  BY <3>2, <2>1
      <4> HIDE DEF at
      <4>3. l \in at(b)  BY <2>2, <3>2, <4>1, LastPosition
      <4> HIDE DEF l
      <4> QED BY <4>2, <4>3 DEF at
    <3> QED BY <3>1, <3>2
  <2>10. stamp' \in [Buffers -> Nat]
    <3>1. stamp' = [b \in Buffers |-> stamp'[b]]  BY <2>1
    <3>2. \A b \in Buffers : stamp'[b] \in Nat  BY <1>a, <2>5, <2>9 DEF TypeOK
    <3> QED BY <3>1, <3>2
  <2>11. FillZcQueue(m, k)
    <3>1. \A i \in 1 .. k : /\ Len(pool) + 1 - i \in 1 .. Len(pool)
                            /\ sq'[Len(sq) + i] = [buf |-> Popped(i), id |-> IdOf(i)]
      BY <2>4, <2>6, <2>7, <2>8
    <3>2. inflight' = inflight + k /\ nextId' = nextId + k * cfg.packets  BY <2>1 DEF Advance
    <3>3. m <= Wanted  BY <2>2 DEF n
    <3> QED BY <2>2, <2>3, <2>8, <2>9, <2>10, <3>1, <3>2, <3>3 DEF FillZcQueue, Popped, IdOf
  <2>12. AfterFill /\ \E m_1, k_1 \in Nat : FillZcQueue(m_1, k_1)
    <3>1. m \in Nat /\ k \in Nat /\ FillZcQueue(m, k)  BY <2>2, <2>11
    <3> QED BY <2>1, <3>1
  <2>13. ~(m > Len(pool))  BY <1>3
  <2> QED BY <2>12, <2>13 DEF m, n
<1> QED BY <1>2, <1>3

LEMMA FailedTypes == ASSUME Types, Failed, pc = "fill" PROVE Types'
<1>a. TypeOK /\ Bounds /\ Covered  BY DEF Types
<1>1. UNCHANGED <<cfg, nextId, bufferVars, kernelVars, drainVars, countVars>>  BY DEF Failed
<1>2. TypeOK'
  BY <1>a, <1>1 DEF Failed, TypeOK, bufferVars, kernelVars, drainVars, countVars, Buffers, Request, Completion
<1>3. Bounds'  BY <1>a, <1>1 DEF Bounds, kernelVars, drainVars
<1>4. Covered'  BY <1>a, <1>1 DEF Covered, Queued, Unhandled, kernelVars, drainVars, countVars
<1> QED BY <1>2, <1>3, <1>4 DEF Types

LEMMA FillZcTypes ==
  ASSUME Types, FillZc
  PROVE  Types'
<1>a. TypeOK /\ Bounds  BY DEF Types
<1> DEFINE m == IF Wanted <= Room THEN Wanted ELSE Room + 1
<1>1. m \in Nat /\ Len(pool) \in Nat /\ Len(pool) <= capacity /\ capacity \in Nat
  BY <1>a, WantedType, LenProperties DEF TypeOK
<1>2. pc = "fill" /\ UNCHANGED <<cfg, capacity, kern, held, cq, wire, dropped, drainVars, datagrams, omitted>>
  BY DEF FillZc
<1>3. CASE m > Len(pool)
  <2>1. Failed  BY <1>3, FillZcCases
  <2> QED BY <1>2, <2>1, FailedTypes
<1>4. CASE ~(m > Len(pool))
  <2>1. AfterFill /\ \E i, k \in Nat : FillZcQueue(i, k)  BY <1>1, <1>4, FillZcCases
  <2>2. PICK i \in Nat, k \in Nat : FillZcQueue(i, k)  BY <2>1
  <2>3. i \in Nat /\ k \in Nat /\ k <= i /\ i <= Wanted /\ Wanted \in Nat /\ k <= Room
        /\ Len(pool') = Len(pool) - i
    BY <1>a, <2>2, WantedType DEF FillZcQueue
  <2>4. k <= Wanted /\ Len(pool') <= capacity  BY <1>1, <2>3
  <2> QED BY <1>2, <2>1, <2>2, <2>3, <2>4, SubmittedTypes DEF FillZcQueue
<1> QED BY <1>3, <1>4

LEMMA EnterReturnsTypes == ASSUME Types, EnterReturns PROVE Types'
<1>a. TypeOK /\ Bounds /\ Covered  BY DEF Types
<1>1. UNCHANGED <<cfg, nextId, bufferVars, kernelVars, drainVars, countVars>>  BY DEF EnterReturns
<1>2. TypeOK'
  BY <1>a, <1>1 DEF EnterReturns, TypeOK, bufferVars, kernelVars, drainVars, countVars, Buffers, Request, Completion
<1>3. Bounds'  BY <1>a, <1>1 DEF EnterReturns, Bounds, kernelVars, drainVars
<1>4. Covered'  BY <1>a, <1>1 DEF Covered, Queued, Unhandled, kernelVars, drainVars, countVars
<1> QED BY <1>2, <1>3, <1>4 DEF Types

LEMMA StopTypes == ASSUME Types, Stop PROVE Types'
<1>a. TypeOK /\ Bounds /\ Covered  BY DEF Types
<1>1. UNCHANGED <<cfg, nextId, bufferVars, kernelVars, drainVars, countVars>>  BY DEF Stop
<1>2. TypeOK'
  BY <1>a, <1>1 DEF Stop, TypeOK, bufferVars, kernelVars, drainVars, countVars, Buffers, Request, Completion
<1>3. Bounds'  BY <1>a, <1>1 DEF Stop, Bounds, kernelVars, drainVars
<1>4. Covered'  BY <1>a, <1>1 DEF Covered, Queued, Unhandled, kernelVars, drainVars, countVars
<1> QED BY <1>2, <1>3, <1>4 DEF Types

LEMMA BeginDrainTypes == ASSUME Types, BeginDrain PROVE Types'
<1>a. TypeOK /\ Bounds /\ Covered  BY DEF Types
<1>1. UNCHANGED <<cfg, nextId, bufferVars, kernelVars, countVars>>  BY DEF BeginDrain
<1>2. pos = 0 /\ completed = 0 /\ indexPool = <<>>  BY <1>a DEF BeginDrain, Bounds
<1>3. UNCHANGED <<pos, completed, indexPool>> /\ snap' = Len(cq) /\ pc' = "cqe"
  BY <1>2 DEF BeginDrain
<1>4. Len(cq) \in Nat  BY <1>a, UnhandledType
<1>5. snap' \in 0 .. Len(cq) /\ pos' \in 0 .. snap'  BY <1>2, <1>3, <1>4
<1>6. TypeOK'
  BY <1>a, <1>1, <1>3, <1>5 DEF TypeOK, bufferVars, kernelVars, countVars, Buffers, Request, Completion
<1>7. Bounds'  BY <1>a, <1>1, <1>3 DEF Bounds, kernelVars
<1>8. Covered'  BY <1>a, <1>1, <1>3 DEF Covered, Queued, Unhandled, kernelVars, countVars
<1> QED BY <1>6, <1>7, <1>8 DEF Types

(* A completion is handled: its buffer may be collected, its request may   *)
(* count as completed.                                                     *)
LEMMA HandleTypes ==
  ASSUME Types, AtCqe, Collect, CountIt, pos' = pos + 1,
         datagrams' \in Nat, omitted' \in Nat,
         UNCHANGED <<cfg, nextId, bufferVars, kernelVars, pc, snap, inflight>>
  PROVE  Types'
<1>a. TypeOK /\ Bounds /\ Covered  BY DEF Types
<1>1. UNCHANGED <<cfg, sq, kern, held, cq>>  BY DEF kernelVars
<1>2. /\ pos + 1 \in 1 .. snap /\ Cqe \in Completion
      /\ \A R : Cardinality(Unhandled(R)')
                  = Cardinality(Unhandled(R)) - (IF Cqe.res \in R THEN 1 ELSE 0)
      /\ \A R : Cardinality(Unhandled(R)') \in Nat
  BY <1>a, <1>1, Passes
<1>3. pos' \in 0 .. snap  BY <1>a, <1>2, UnhandledType
<1>4. indexPool' \in Seq(Buffers)
  <2>1. indexPool \in Seq(Buffers) /\ Cqe.buf \in Buffers  BY <1>a, <1>2 DEF TypeOK, Completion
  <2>2. Append(indexPool, Cqe.buf) \in Seq(Buffers)  BY <2>1, AppendProperties
  <2> QED BY <2>1, <2>2 DEF Collect
<1>5. completed \in Nat /\ completed' \in Nat /\ inflight \in Nat  BY <1>a DEF CountIt, TypeOK
<1>6. TypeOK'
  BY <1>a, <1>3, <1>4, <1>5 DEF TypeOK, bufferVars, kernelVars, Buffers, Request, Completion
<1>7. Bounds'  BY <1>a DEF Bounds, kernelVars, AtCqe
<1>8. Covered'
  <2>1. Queued' = Queued /\ Queued \in Nat /\ Cardinality(held) \in Nat /\ inflight' = inflight
    BY <1>a, <1>1, Quantities DEF Queued, Bounds
  <2>2. \A R : Cardinality(Unhandled(R)) \in Nat  BY <1>a, UnhandledType
  <2>3. CASE cfg.zerocopy
    <3>1. completed' = IF Cqe.res = "notif" THEN completed + 1 ELSE completed
      BY <2>3 DEF CountIt, Completes
    <3>2. completed' + Cardinality(Unhandled({"notif"})') = completed + Cardinality(Unhandled({"notif"}))
      BY <1>2, <1>5, <2>2, <3>1
    <3>3. Cardinality(Unhandled({"notif"})') \in Nat  BY <1>2
    <3> QED BY <1>a, <1>1, <1>5, <2>1, <2>2, <2>3, <3>2, <3>3 DEF Covered
  <2>4. CASE ~cfg.zerocopy
    <3>1. completed' = IF Cqe.res = "bytes" THEN completed + 1 ELSE completed
      BY <2>4 DEF CountIt, Completes
    <3>2. completed' + Cardinality(Unhandled({"bytes"})') = completed + Cardinality(Unhandled({"bytes"}))
      BY <1>2, <1>5, <2>2, <3>1
    <3>3. Cardinality(Unhandled({"bytes"})') \in Nat  BY <1>2
    <3> QED BY <1>a, <1>1, <1>5, <2>1, <2>2, <2>4, <3>2, <3>3 DEF Covered
  <2> QED BY <2>3, <2>4
<1> QED BY <1>6, <1>7, <1>8 DEF Types

LEMMA HandleSentTypes == ASSUME Types, HandleSent PROVE Types'
<1>1. datagrams' \in Nat /\ omitted' \in Nat  BY Parameter DEF HandleSent, Types, TypeOK
<1> QED BY <1>1, HandleTypes DEF HandleSent

LEMMA HandleAgainTypes == ASSUME Types, HandleAgain PROVE Types'
<1>1. datagrams' \in Nat /\ omitted' \in Nat  BY Parameter DEF HandleAgain, OmitRequest, Types, TypeOK
<1> QED BY <1>1, HandleTypes DEF HandleAgain

LEMMA HandleNotifTypes == ASSUME Types, HandleNotif PROVE Types'
<1>1. datagrams' \in Nat /\ omitted' \in Nat  BY DEF HandleNotif, countVars, Types, TypeOK
<1> QED BY <1>1, HandleTypes DEF HandleNotif, countVars

LEMMA HandleFatalTypes == ASSUME Types, HandleFatal PROVE Types'
<1>a. TypeOK /\ Bounds /\ Covered  BY DEF Types
<1>1. UNCHANGED <<cfg, nextId, bufferVars, kernelVars, drainVars, countVars>>  BY DEF HandleFatal
<1>2. TypeOK'
  BY <1>a, <1>1 DEF HandleFatal, TypeOK, bufferVars, kernelVars, drainVars, countVars, Buffers, Request, Completion
<1>3. Bounds'  BY <1>a, <1>1 DEF HandleFatal, Bounds, kernelVars, drainVars
<1>4. Covered'  BY <1>a, <1>1 DEF Covered, Queued, Unhandled, kernelVars, drainVars, countVars
<1> QED BY <1>2, <1>3, <1>4 DEF Types

LEMMA EndDrainTypes == ASSUME Types, EndDrain PROVE Types'
<1>a. TypeOK /\ Bounds /\ Covered  BY DEF Types
<1>1. UNCHANGED <<cfg, nextId, stamp, sq, kern, held, wire, dropped, datagrams, omitted>>
  BY DEF EndDrain
<1>2. /\ cq' \in Seq(Completion) /\ Len(cq') = Len(cq) - pos
      /\ \A R : Cardinality(Unhandled(R)') = Cardinality(Unhandled(R))
  BY <1>a, Released
<1>3. /\ Len(cq) \in Nat /\ pos \in Nat /\ pos <= Len(cq)
      /\ \A R : Cardinality(Unhandled(R)) \in Nat
  BY <1>a, UnhandledType
<1>4. pool' \in Seq(Buffers) /\ Len(pool') = Len(pool) + Len(indexPool) /\ Len(pool') \in Nat
  <2>1. pool \in Seq(Buffers) /\ indexPool \in Seq(Buffers)  BY <1>a DEF TypeOK
  <2>2. pool' = pool \o indexPool  BY DEF EndDrain
  <2> QED BY <2>1, <2>2, ConcatProperties, LenProperties
<1>5. capacity' \in Nat /\ Len(pool') <= capacity'
  <2>1. capacity' = Grown(Len(pool')) /\ capacity \in Nat  BY <1>a DEF EndDrain, TypeOK
  <2> QED BY <1>4, <2>1 DEF Grown
<1>6. /\ completed + Queued <= inflight /\ Queued \in Nat /\ Cardinality(held) \in Nat
      /\ completed \in Nat /\ inflight \in Nat
  <2>1. /\ Queued \in Nat /\ Cardinality(held) \in Nat /\ completed \in Nat /\ inflight \in Nat
        /\ Cardinality(Unhandled({"notif"})) \in Nat /\ Cardinality(Unhandled({"bytes"})) \in Nat
    BY <1>a, <1>3, Quantities DEF TypeOK, Bounds
  <2>2. CASE cfg.zerocopy
    <3>1. completed + Queued + Cardinality(held) + Cardinality(Unhandled({"notif"})) <= inflight
      BY <1>a, <2>2 DEF Covered
    <3> QED BY <2>1, <3>1
  <2>3. CASE ~cfg.zerocopy
    <3>1. completed + Queued + Cardinality(Unhandled({"bytes"})) <= inflight
      BY <1>a, <2>3 DEF Covered
    <3> QED BY <2>1, <3>1
  <2> QED BY <2>2, <2>3
<1>7. inflight' = inflight - completed /\ completed' = 0 /\ pos' = 0 /\ snap' = 0
      /\ indexPool' = <<>> /\ pc' = "fill"
  BY DEF EndDrain
<1>8. inflight' \in Nat  BY <1>6, <1>7
<1>9. 0 \in 0 .. Len(cq') /\ indexPool' \in Seq(Buffers)  BY <1>2, <1>3, <1>7
<1>10. TypeOK'
  BY <1>a, <1>1, <1>2, <1>4, <1>5, <1>7, <1>8, <1>9 DEF TypeOK, Buffers, Request, Completion
<1>11. Bounds'  BY <1>a, <1>1, <1>7 DEF Bounds
<1>12. Covered'
  <2>1. Queued' = Queued  BY <1>1 DEF Queued
  <2> QED BY <1>a, <1>1, <1>2, <1>3, <1>6, <1>7, <2>1, SMTT(30) DEF Covered
<1> QED BY <1>10, <1>11, <1>12 DEF Types

LEMMA StutterTypes == ASSUME Types, UNCHANGED vars PROVE Types'
<1>a. TypeOK /\ Bounds /\ Covered  BY DEF Types
<1>2. TypeOK'
  BY <1>a DEF vars, TypeOK, bufferVars, kernelVars, drainVars, countVars, Buffers, Request, Completion
<1>3. Bounds'  BY <1>a DEF vars, Bounds, kernelVars, drainVars
<1>4. Covered'  BY <1>a DEF vars, Covered, Queued, Unhandled, kernelVars, drainVars, countVars
<1> QED BY <1>2, <1>3, <1>4 DEF Types

LEMMA StepTypes == ASSUME Types, [Next]_vars PROVE Types'
BY IssueTypes, SendLaterTypes, NotifyTypes, FillNormalTypes, FillZcTypes, EnterReturnsTypes,
   BeginDrainTypes, HandleSentTypes, HandleAgainTypes, HandleNotifTypes, HandleFatalTypes,
   EndDrainTypes, StopTypes, StutterTypes
   DEF Next, LoopStep, KernelStep

LEMMA AlwaysTypes == Spec => []Types
<1> QED BY InitTypes, StepTypes, PTL DEF Spec

(* The types; in particular amount_inflight, which counts completions off  *)
(* requests, never wraps below 0.                                          *)
THEOREM TypeCorrect == Spec => []TypeOK
<1>1. Types => TypeOK  BY DEF Types
<1> QED BY <1>1, AlwaysTypes, PTL
-----------------------------------------------------------------------------
(* The order of ids: a request in the queue is younger than those before   *)
(* it, those put off and those that failed, so that taking it out of the   *)
(* queue adds to them.                                                     *)

Order(q, K, D, n) ==
  /\ \A i \in 1 .. Len(q) : q[i].id < n
  /\ \A i, j \in 1 .. Len(q) : i < j => q[i].id < q[j].id
  /\ \A r \in K : r.id < n /\ \A i \in 1 .. Len(q) : r.id < q[i].id
  /\ \A d \in D : d < n /\ \A i \in 1 .. Len(q) : d < q[i].id
  /\ \A r, s \in K : r.id = s.id => r = s
  /\ \A r \in K : r.id \notin D

(* The request that the kernel has at hand is none of the others.          *)
AtHand(r, q, K, D, n) ==
  /\ r.id < n
  /\ \A i \in 1 .. Len(q) : r.id < q[i].id
  /\ r.id \notin D
  /\ \A s \in K : s.id # r.id

IdsOrdered == Order(sq, kern, dropped, nextId)
Ledger == IdsOrdered /\ SendLedger

LEMMA OrderTail ==
  ASSUME TypeOK, IdsOrdered, sq # <<>>
  PROVE  Order(Tail(sq), kern, dropped, nextId) /\ AtHand(Head(sq), Tail(sq), kern, dropped, nextId)
<1> DEFINE t == Tail(sq)
           h == Head(sq)
<1>1. /\ Len(sq) \in Nat /\ Len(sq) > 0 /\ Len(t) = Len(sq) - 1 /\ h = sq[1]
      /\ \A i \in 1 .. Len(sq) - 1 : t[i] = sq[i + 1]
  BY QueueHead
<1> HIDE DEF t, h
<1>2. \A i \in 1 .. Len(t) : t[i] = sq[i + 1] /\ i + 1 \in 1 .. Len(sq) /\ 1 < i + 1  BY <1>1
<1>3. 1 \in 1 .. Len(sq)  BY <1>1
<1>4. \A i \in 1 .. Len(sq) : sq[i] \in Request  BY ElementOfSeq DEF TypeOK
<1>5. Order(t, kern, dropped, nextId)
  <2>1. \A i, j \in 1 .. Len(t) : i < j => t[i].id < t[j].id
    <3> SUFFICES ASSUME NEW i \in 1 .. Len(t), NEW j \in 1 .. Len(t), i < j
                 PROVE  t[i].id < t[j].id
      OBVIOUS
    <3>1. i + 1 < j + 1  OBVIOUS
    <3> QED BY <1>2, <3>1 DEF IdsOrdered, Order
  <2> QED BY <1>2, <2>1 DEF IdsOrdered, Order
<1>6. AtHand(h, t, kern, dropped, nextId)
  <2>1. h.id < nextId /\ \A i \in 1 .. Len(t) : h.id < t[i].id
    BY <1>1, <1>2, <1>3 DEF IdsOrdered, Order
  <2>2. h.id \in Nat  BY <1>1, <1>3, <1>4 DEF Request
  <2>3. \A d \in dropped : d < h.id  BY <1>1, <1>3 DEF IdsOrdered, Order
  <2>4. \A s \in kern : s.id < h.id  BY <1>1, <1>3 DEF IdsOrdered, Order
  <2> QED BY <2>1, <2>2, <2>3, <2>4 DEF AtHand
<1> QED BY <1>5, <1>6 DEF t, h

LEMMA OrderPutOff ==
  ASSUME IdsOrdered, NEW r \in kern
  PROVE  Order(sq, kern \ {r}, dropped, nextId) /\ AtHand(r, sq, kern \ {r}, dropped, nextId)
<1>1. Order(sq, kern \ {r}, dropped, nextId)  BY DEF IdsOrdered, Order
<1>2. AtHand(r, sq, kern \ {r}, dropped, nextId)  BY DEF IdsOrdered, Order, AtHand
<1> QED BY <1>1, <1>2

LEMMA OrderJoin ==
  ASSUME NEW q, NEW K, NEW D, NEW n, NEW r, Order(q, K, D, n), AtHand(r, q, K, D, n)
  PROVE  Order(q, K \cup {r}, D, n) /\ Order(q, K, D \cup {r.id}, n)
BY DEF Order, AtHand

LEMMA Distribute ==
  ASSUME NEW p \in Nat, NEW a \in Int, NEW b \in Int
  PROVE  p * (a + b) = p * a + p * b /\ p * a \in Int
OBVIOUS

Pending == {"bytes", "EAGAIN", "errno"}

(* The ledger reads these quantities.                                      *)
LEMMA LedgerNumbers ==
  ASSUME Types
  PROVE  /\ cfg.packets \in Nat /\ nextId \in Nat /\ datagrams \in Nat /\ omitted \in Nat
         /\ Queued \in Nat /\ Cardinality(Unhandled(Pending)) \in Nat
         /\ SendLedger <=> nextId = datagrams + omitted
                             + cfg.packets * (Queued + Cardinality(Unhandled(Pending)))
<1>1. /\ cfg.packets \in Nat /\ nextId \in Nat /\ datagrams \in Nat /\ omitted \in Nat
      /\ Queued \in Nat /\ Cardinality(Unhandled(Pending)) \in Nat
  BY Quantities, UnhandledType, Parameter DEF Types, TypeOK, Bounds
<1>2. Pending = {"bytes", "EAGAIN", "errno"}  BY DEF Pending
<1> QED BY <1>1, <1>2 DEF SendLedger, Queued

(* The ledger after a step that moves d requests to the completions and    *)
(* settles s of them.                                                      *)
LEMMA LedgerMoves ==
  ASSUME Types, SendLedger, cfg' = cfg, NEW d \in Int, NEW s \in Int,
         datagrams' + omitted' = datagrams + omitted + cfg.packets * s,
         Queued' + Cardinality(Unhandled(Pending)') = Queued + Cardinality(Unhandled(Pending)) + d,
         nextId' = nextId + cfg.packets * (d + s)
  PROVE  SendLedger'
<1>1. /\ cfg.packets \in Nat /\ nextId \in Nat /\ datagrams \in Nat /\ omitted \in Nat
      /\ Queued \in Nat /\ Cardinality(Unhandled(Pending)) \in Nat
      /\ nextId = datagrams + omitted + cfg.packets * (Queued + Cardinality(Unhandled(Pending)))
  BY LedgerNumbers
<1> DEFINE p == cfg.packets
           a == Queued + Cardinality(Unhandled(Pending))
<1>2. p \in Nat /\ a \in Int /\ nextId = datagrams + omitted + p * a  BY <1>1
<1>3. Queued' + Cardinality(Unhandled(Pending)') = a + d  OBVIOUS
<1> HIDE DEF p, a
<1>4. /\ p * (a + d) = p * a + p * d /\ p * (d + s) = p * d + p * s
      /\ p * a \in Int /\ p * d \in Int /\ p * s \in Int
  BY <1>2, Distribute
<1>5. datagrams' + omitted' = datagrams + omitted + p * s /\ nextId' = nextId + p * (d + s)
  BY DEF p
<1>6. nextId' = datagrams' + omitted' + p * (a + d)  BY <1>1, <1>2, <1>4, <1>5
<1>7. nextId' = datagrams' + omitted' + cfg.packets' * (Queued' + Cardinality(Unhandled(Pending)'))
  BY <1>3, <1>6 DEF p
<1> QED BY <1>7 DEF SendLedger, Queued, Pending, Unhandled

LEMMA ExecuteLedger ==
  ASSUME Types, SendLedger, NEW r \in Request, NEW res \in {"bytes", "EAGAIN", "errno"}, Effect(r, res),
         Queued' = Queued - 1,
         Order(sq', kern', dropped, nextId), AtHand(r, sq', kern', dropped, nextId),
         UNCHANGED <<cfg, nextId, bufferVars, pc, drainVars, countVars>>
  PROVE  Ledger'
<1>1. r.buf \in Buffers /\ res \in Results /\ TypeOK  BY DEF Request, Results, Types
<1>2. UNCHANGED <<cfg, pos>> /\ cq' = Append(cq, [buf |-> r.buf, res |-> res])
  BY DEF drainVars, Effect
<1>3. Cardinality(Unhandled(Pending)') = Cardinality(Unhandled(Pending)) + (IF res \in Pending THEN 1 ELSE 0)
  BY <1>1, <1>2, Arrives
<1>4. Queued' + Cardinality(Unhandled(Pending)') = Queued + Cardinality(Unhandled(Pending)) + 0
  BY <1>3, LedgerNumbers DEF Pending
<1>5. cfg.packets * 0 = 0 /\ cfg.packets * (0 + 0) = 0  BY LedgerNumbers
<1>6. /\ datagrams' + omitted' = datagrams + omitted + cfg.packets * 0
      /\ nextId' = nextId + cfg.packets * (0 + 0)
  BY <1>5, LedgerNumbers DEF countVars
<1>7. SendLedger'  BY <1>4, <1>6, LedgerMoves
<1>8. dropped' \in {dropped, dropped \cup {r.id}}  BY DEF Effect
<1>9. IdsOrdered'
  <2>1. Order(sq', kern', dropped \cup {r.id}, nextId)  BY OrderJoin
  <2>2. Order(sq', kern', dropped', nextId)  BY <1>8, <2>1
  <2> QED BY <2>2 DEF IdsOrdered
<1> QED BY <1>7, <1>9 DEF Ledger

LEMMA IssueLedger == ASSUME Types, Ledger, Issue PROVE Ledger'
<1>a. TypeOK /\ Bounds /\ IdsOrdered /\ SendLedger /\ sq # <<>> /\ sq' = Tail(sq)
  BY DEF Types, Ledger, Issue
<1>1. Head(sq) \in Request /\ Len(sq') = Len(sq) - 1 /\ Len(sq) \in Nat /\ Cardinality(kern) \in Nat
  BY <1>a, QueueHead, Quantities DEF Bounds
<1>2. Order(sq', kern, dropped, nextId) /\ AtHand(Head(sq), sq', kern, dropped, nextId)
  BY <1>a, OrderTail
<1>3. UNCHANGED <<cfg, nextId, bufferVars, pc, drainVars, countVars>>  BY DEF Issue
<1>4. CASE Execute(Head(sq)) /\ UNCHANGED kern
  <2>1. PICK res \in {"bytes", "EAGAIN", "errno"} : Effect(Head(sq), res)
    BY <1>a, <1>4, ExecuteEffect
  <2>2. Queued' = Queued - 1  BY <1>1, <1>4 DEF Queued
  <2> QED BY <1>a, <1>1, <1>2, <1>3, <1>4, <2>1, <2>2, ExecuteLedger
<1>5. CASE /\ cfg.deferred
           /\ kern' = kern \cup {Head(sq)}
           /\ UNCHANGED <<held, cq, wire, dropped>>
  <2>1. Head(sq) \notin kern  BY <1>2 DEF AtHand
  <2>2. Cardinality(kern') = Cardinality(kern) + 1  BY <1>a, <1>5, <2>1, AddOne DEF Bounds
  <2>3. Queued' = Queued  BY <1>1, <2>2 DEF Queued
  <2>4. Unhandled(Pending)' = Unhandled(Pending)  BY <1>3, <1>5 DEF Unhandled, Pending, drainVars
  <2>5. SendLedger'
    BY <1>a, <1>3, <2>3, <2>4 DEF SendLedger, Queued, Unhandled, Pending, countVars
  <2>6. IdsOrdered'
    <3>1. Order(sq', kern \cup {Head(sq)}, dropped, nextId)  BY <1>2, OrderJoin
    <3> QED BY <1>3, <1>5, <3>1 DEF IdsOrdered
  <2> QED BY <2>5, <2>6 DEF Ledger
<1> QED BY <1>4, <1>5 DEF Issue

LEMMA SendLaterLedger == ASSUME Types, Ledger, SendLater PROVE Ledger'
<1>a. TypeOK /\ Bounds /\ IdsOrdered /\ SendLedger  BY DEF Types, Ledger
<1>1. PICK r \in kern : kern' = kern \ {r} /\ Execute(r)  BY DEF SendLater
<1>2. UNCHANGED <<cfg, nextId, bufferVars, sq, pc, drainVars, countVars>>  BY DEF SendLater
<1>3. r \in Request /\ Queued' = Queued - 1  BY <1>a, <1>1, <1>2, PutOff
<1>4. PICK res \in {"bytes", "EAGAIN", "errno"} : Effect(r, res)  BY <1>a, <1>1, ExecuteEffect
<1>5. Order(sq', kern', dropped, nextId) /\ AtHand(r, sq', kern', dropped, nextId)
  BY <1>a, <1>1, <1>2, OrderPutOff
<1> QED BY <1>a, <1>2, <1>3, <1>4, <1>5, ExecuteLedger

LEMMA NotifyLedger == ASSUME Types, Ledger, Notify PROVE Ledger'
<1>a. TypeOK /\ Bounds /\ IdsOrdered /\ SendLedger  BY DEF Types, Ledger
<1>1. PICK r \in held : held' = held \ {r} /\ cq' = Append(cq, [buf |-> r.buf, res |-> "notif"])
  BY DEF Notify
<1>2. UNCHANGED <<cfg, nextId, bufferVars, sq, kern, wire, dropped, pc, drainVars, countVars>>
  BY DEF Notify
<1>3. r.buf \in Buffers /\ "notif" \in Results  BY <1>a DEF TypeOK, Request, Results
<1>4. Cardinality(Unhandled(Pending)')
        = Cardinality(Unhandled(Pending)) + (IF "notif" \in Pending THEN 1 ELSE 0)
  BY <1>a, <1>1, <1>2, <1>3, Arrives DEF drainVars
<1>5. Cardinality(Unhandled(Pending)') = Cardinality(Unhandled(Pending))
  BY <1>4, LedgerNumbers DEF Pending
<1>6. SendLedger'
  BY <1>a, <1>2, <1>5 DEF SendLedger, Queued, Unhandled, Pending, countVars
<1>7. IdsOrdered'  BY <1>a, <1>2 DEF IdsOrdered
<1> QED BY <1>6, <1>7 DEF Ledger

(* New requests take ids above all the others.                             *)
LEMMA SubmitLedger ==
  ASSUME Types, Ledger, NEW k \in Nat,
         sq' \in Seq(Request), Len(sq') = Len(sq) + k,
         \A i \in 1 .. Len(sq) : sq'[i] = sq[i],
         \A i \in 1 .. k : sq'[Len(sq) + i].id = nextId + (i - 1) * cfg.packets,
         nextId' = nextId + k * cfg.packets,
         UNCHANGED <<cfg, kern, held, cq, wire, dropped, drainVars, datagrams, omitted>>
  PROVE  Ledger'
<1>a. TypeOK /\ Bounds /\ IdsOrdered /\ SendLedger  BY DEF Types, Ledger
<1>1. cfg.packets \in Nat \ {0} /\ nextId \in Nat /\ Len(sq) \in Nat
  BY <1>a, Parameter, LenProperties DEF TypeOK
<1> DEFINE p == cfg.packets
           l == Len(sq)
<1>2. p \in Nat \ {0} /\ l \in Nat /\ nextId' = nextId + k * p  BY <1>1
<1>3. \A i \in 1 .. k : sq'[l + i].id = nextId + (i - 1) * p  OBVIOUS
<1>4. Len(sq') = l + k /\ \A i \in 1 .. l : sq'[i] = sq[i]  OBVIOUS
<1>5. IdsOrdered'
  <2> HIDE DEF p, l
  <2>1. \A i \in 1 .. l + k : i \in 1 .. l \/ \E j \in 1 .. k : i = l + j
    <3> SUFFICES ASSUME NEW i \in 1 .. l + k, i \notin 1 .. l PROVE \E j \in 1 .. k : i = l + j
      OBVIOUS
    <3>1. i - l \in 1 .. k /\ i = l + (i - l)  BY <1>2
    <3> QED BY <3>1
  <2>2. \A i \in 1 .. k : nextId <= sq'[l + i].id /\ sq'[l + i].id < nextId' /\ sq'[l + i].id \in Nat
    <3> TAKE i \in 1 .. k
    <3>1. i - 1 \in Nat /\ i - 1 < k  OBVIOUS
    <3>2. (i - 1) * p \in Nat /\ (i - 1) * p < k * p /\ k * p \in Nat  BY <1>2, <3>1
    <3> DEFINE m == (i - 1) * p
               e == k * p
    <3>3. sq'[l + i].id = nextId + m /\ nextId' = nextId + e  BY <1>2, <1>3
    <3>4. m \in Nat /\ m < e /\ e \in Nat  BY <3>2
    <3> HIDE DEF m, e
    <3> QED BY <1>1, <3>3, <3>4
  <2>3. \A i, j \in 1 .. k : i < j => sq'[l + i].id < sq'[l + j].id
    <3> TAKE i, j \in 1 .. k
    <3> HAVE i < j
    <3>1. i - 1 \in Nat /\ j - 1 \in Nat /\ i - 1 < j - 1  OBVIOUS
    <3>2. (i - 1) * p \in Nat /\ (j - 1) * p \in Nat /\ (i - 1) * p < (j - 1) * p  BY <1>2, <3>1
    <3> DEFINE m == (i - 1) * p
               e == (j - 1) * p
    <3>3. sq'[l + i].id = nextId + m /\ sq'[l + j].id = nextId + e  BY <1>3
    <3>4. m \in Nat /\ m < e /\ e \in Nat  BY <3>2
    <3> HIDE DEF m, e
    <3> QED BY <1>1, <3>3, <3>4
  <2>4. /\ \A i \in 1 .. l : sq[i] \in Request /\ sq[i].id \in Nat
        /\ \A r \in kern : r.id \in Nat
        /\ \A d \in dropped : d \in Nat
    <3>1. \A i \in 1 .. l : sq[i] \in Request  BY <1>a, ElementOfSeq DEF TypeOK, l
    <3> QED BY <1>a, <3>1 DEF TypeOK, Request
  <2>5. /\ \A i \in 1 .. l : sq[i].id < nextId
        /\ \A i, j \in 1 .. l : i < j => sq[i].id < sq[j].id
        /\ \A r \in kern : r.id < nextId /\ \A i \in 1 .. l : r.id < sq[i].id
        /\ \A d \in dropped : d < nextId /\ \A i \in 1 .. l : d < sq[i].id
        /\ \A r, s \in kern : r.id = s.id => r = s
        /\ \A r \in kern : r.id \notin dropped
    BY <1>a DEF IdsOrdered, Order, l
  <2>6. nextId' \in Nat /\ nextId <= nextId'
    <3>1. k * p \in Nat  BY <1>2
    <3> QED BY <1>1, <1>2, <3>1
  <2>7. \A i \in 1 .. l + k : sq'[i].id < nextId'
    <3> TAKE i \in 1 .. l + k
    <3>1. CASE i \in 1 .. l
      <4>1. sq'[i].id < nextId /\ sq'[i].id \in Nat  BY <3>1, <1>4, <2>4, <2>5
      <4> QED BY <4>1, <1>1, <2>6
    <3>2. CASE i \notin 1 .. l
      <4>1. PICK j \in 1 .. k : i = l + j  BY <2>1, <3>2
      <4> QED BY <4>1, <2>2
    <3> QED BY <3>1, <3>2
  <2>8. \A i, j \in 1 .. l + k : i < j => sq'[i].id < sq'[j].id
    <3> TAKE i, j \in 1 .. l + k
    <3> HAVE i < j
    <3>1. CASE j \in 1 .. l
      <4>1. i \in 1 .. l  BY <1>2, <3>1
      <4> QED BY <3>1, <4>1, <1>4, <2>5
    <3>2. CASE j \notin 1 .. l
      <4>1. PICK b \in 1 .. k : j = l + b  BY <2>1, <3>2
      <4>2. CASE i \in 1 .. l
        <5>1. sq'[i].id < nextId /\ sq'[i].id \in Nat  BY <4>2, <1>4, <2>4, <2>5
        <5>2. nextId <= sq'[j].id /\ sq'[j].id \in Nat  BY <4>1, <2>2
        <5> QED BY <1>1, <5>1, <5>2
      <4>3. CASE i \notin 1 .. l
        <5>1. PICK c \in 1 .. k : i = l + c  BY <2>1, <4>3
        <5>2. c < b  BY <4>1, <5>1, <1>2
        <5> QED BY <4>1, <5>1, <5>2, <2>3
      <4> QED BY <4>2, <4>3
    <3> QED BY <3>1, <3>2
  <2>9. \A v \in Nat : v < nextId /\ (\A i \in 1 .. l : v < sq[i].id)
          => v < nextId' /\ \A i \in 1 .. l + k : v < sq'[i].id
    <3> TAKE v \in Nat
    <3> HAVE v < nextId /\ (\A i \in 1 .. l : v < sq[i].id)
    <3>1. v < nextId'  BY <1>1, <2>6
    <3>2. ASSUME NEW i \in 1 .. l + k PROVE v < sq'[i].id
      <4>1. CASE i \in 1 .. l  BY <4>1, <1>4
      <4>2. CASE i \notin 1 .. l
        <5>1. PICK j \in 1 .. k : i = l + j  BY <2>1, <4>2
        <5> QED BY <5>1, <2>2, <1>1
      <4> QED BY <4>1, <4>2
    <3> QED BY <3>1, <3>2
  <2>10. /\ \A r \in kern : r.id < nextId' /\ \A i \in 1 .. l + k : r.id < sq'[i].id
         /\ \A d \in dropped : d < nextId' /\ \A i \in 1 .. l + k : d < sq'[i].id
    BY <2>4, <2>5, <2>9
  <2>11. Order(sq', kern, dropped, nextId')  BY <1>4, <2>5, <2>7, <2>8, <2>10 DEF Order
  <2> QED BY <2>11 DEF IdsOrdered
<1>6. SendLedger'
  <2>1. Unhandled(Pending)' = Unhandled(Pending)  BY DEF Unhandled, Pending, drainVars
  <2>2. Queued' + Cardinality(Unhandled(Pending)') = Queued + Cardinality(Unhandled(Pending)) + k
    BY <1>a, <1>1, <2>1, LedgerNumbers, Quantities, SMTT(30) DEF Queued, Bounds
  <2>3. cfg.packets * 0 = 0 /\ cfg.packets * (k + 0) = k * cfg.packets  BY <1>1
  <2>4. /\ datagrams' + omitted' = datagrams + omitted + cfg.packets * 0
        /\ nextId' = nextId + cfg.packets * (k + 0)
    BY <2>3, LedgerNumbers
  <2> QED BY <1>a, <2>2, <2>4, LedgerMoves
<1> QED BY <1>5, <1>6 DEF Ledger

LEMMA FillNormalLedger == ASSUME Types, Ledger, FillNormal PROVE Ledger'
<1>1. PICK k \in Nat :
        /\ sq' \in Seq(Request) /\ Len(sq') = Len(sq) + k
        /\ \A i \in 1 .. Len(sq) : sq'[i] = sq[i]
        /\ \A i \in 1 .. k : sq'[Len(sq) + i] = [buf |-> i - 1, id |-> nextId + (i - 1) * cfg.packets]
        /\ nextId' = nextId + k * cfg.packets
  BY FillNormalQueue
<1>2. \A i \in 1 .. k : sq'[Len(sq) + i].id = nextId + (i - 1) * cfg.packets
  <2> TAKE i \in 1 .. k
  <2> DEFINE e == nextId + (i - 1) * cfg.packets
  <2>1. sq'[Len(sq) + i] = [buf |-> i - 1, id |-> e]  BY <1>1
  <2> HIDE DEF e
  <2>2. sq'[Len(sq) + i].id = e  BY <2>1
  <2> QED BY <2>2 DEF e
<1>3. UNCHANGED <<cfg, kern, held, cq, wire, dropped, drainVars, datagrams, omitted>>
  BY DEF FillNormal
<1> QED BY <1>1, <1>2, <1>3, SubmitLedger

(* Steps that touch neither requests nor counts.                           *)
LEMMA KeepLedger ==
  ASSUME Ledger, UNCHANGED <<cfg, nextId, sq, kern, cq, dropped, pos, datagrams, omitted>>
  PROVE  Ledger'
BY DEF Ledger, IdsOrdered, SendLedger, Unhandled

LEMMA FillZcLedger == ASSUME Types, Ledger, FillZc PROVE Ledger'
<1>1. UNCHANGED <<cfg, kern, held, cq, wire, dropped, drainVars, datagrams, omitted>>
  BY DEF FillZc
<1>2. CASE Failed  BY <1>2, KeepLedger DEF Failed, kernelVars, drainVars, countVars
<1>3. ASSUME NEW m \in Nat, NEW k \in Nat, FillZcQueue(m, k) PROVE Ledger'
  <2>1. /\ sq' \in Seq(Request) /\ Len(sq') = Len(sq) + k
        /\ \A i \in 1 .. Len(sq) : sq'[i] = sq[i]
        /\ nextId' = nextId + k * cfg.packets
    BY <1>3 DEF FillZcQueue
  <2>2. \A i \in 1 .. k : sq'[Len(sq) + i].id = nextId + (i - 1) * cfg.packets
    <3> TAKE i \in 1 .. k
    <3> DEFINE e == nextId + (i - 1) * cfg.packets
    <3>1. sq'[Len(sq) + i] = [buf |-> pool[Len(pool) + 1 - i], id |-> e]
      BY <1>3 DEF FillZcQueue
    <3> HIDE DEF e
    <3>2. sq'[Len(sq) + i].id = e  BY <3>1
    <3> QED BY <3>2 DEF e
  <2> QED BY <1>1, <2>1, <2>2, SubmitLedger
<1>4. DEFINE m == IF Wanted <= Room THEN Wanted ELSE Room + 1
<1>5. m \in Nat /\ Len(pool) \in Nat  BY WantedType, LenProperties DEF Types, TypeOK
<1>6. m > Len(pool) \/ m <= Len(pool)  BY <1>5
<1> QED BY <1>2, <1>3, <1>6, FillZcCases

(* A completion of a request is entered into the books, all at once.       *)
LEMMA HandleLedger ==
  ASSUME Types, Ledger, AtCqe, pos' = pos + 1, NEW s \in {0, 1},
         s = IF Cqe.res \in Pending THEN 1 ELSE 0,
         datagrams' + omitted' = datagrams + omitted + cfg.packets * s,
         UNCHANGED <<cfg, nextId, kernelVars>>
  PROVE  Ledger'
<1>1. UNCHANGED <<cfg, nextId, sq, kern, cq, dropped>>  BY DEF kernelVars
<1>2. IdsOrdered'  BY <1>1 DEF Ledger, IdsOrdered
<1>3. Cardinality(Unhandled(Pending)') = Cardinality(Unhandled(Pending)) - s
  BY <1>1, Passes DEF Types
<1>4. Queued' = Queued  BY <1>1 DEF Queued
<1>5. Queued' + Cardinality(Unhandled(Pending)') = Queued + Cardinality(Unhandled(Pending)) + (-s)
  BY <1>3, <1>4, LedgerNumbers
<1>6. nextId' = nextId + cfg.packets * ((-s) + s) /\ -s \in Int
  <2>1. (-s) + s = 0 /\ cfg.packets * 0 = 0  BY LedgerNumbers
  <2> QED BY <1>1, <2>1, LedgerNumbers
<1>7. SendLedger'  BY <1>1, <1>5, <1>6, LedgerMoves DEF Ledger
<1> QED BY <1>2, <1>7 DEF Ledger

LEMMA HandleSentLedger == ASSUME Types, Ledger, HandleSent PROVE Ledger'
<1>1. Cqe.res \in Pending  BY DEF HandleSent, Pending
<1>2. datagrams' + omitted' = datagrams + omitted + cfg.packets * 1
  BY LedgerNumbers DEF HandleSent
<1> QED BY <1>1, <1>2, HandleLedger DEF HandleSent

LEMMA HandleAgainLedger == ASSUME Types, Ledger, HandleAgain PROVE Ledger'
<1>1. Cqe.res \in Pending  BY DEF HandleAgain, Pending
<1>2. datagrams' + omitted' = datagrams + omitted + cfg.packets * 1
  BY LedgerNumbers DEF HandleAgain, OmitRequest
<1> QED BY <1>1, <1>2, HandleLedger DEF HandleAgain

LEMMA HandleNotifLedger == ASSUME Types, Ledger, HandleNotif PROVE Ledger'
<1>1. Cqe.res \notin Pending  BY DEF HandleNotif, Pending
<1>2. datagrams' + omitted' = datagrams + omitted + cfg.packets * 0
  <2>1. cfg.packets * 0 = 0  BY LedgerNumbers
  <2> QED BY <2>1, LedgerNumbers DEF HandleNotif, countVars
<1> QED BY <1>1, <1>2, HandleLedger DEF HandleNotif

LEMMA EndDrainLedger == ASSUME Types, Ledger, EndDrain PROVE Ledger'
<1>1. Cardinality(Unhandled(Pending)') = Cardinality(Unhandled(Pending))  BY Released DEF Types
<1>2. UNCHANGED <<cfg, nextId, sq, kern, dropped, datagrams, omitted>>  BY DEF EndDrain
<1>3. SendLedger'  BY <1>1, <1>2 DEF Ledger, SendLedger, Pending, Unhandled
<1>4. IdsOrdered'  BY <1>2 DEF Ledger, IdsOrdered
<1> QED BY <1>3, <1>4 DEF Ledger

LEMMA QuietLedger ==
  ASSUME Types, Ledger, EnterReturns \/ BeginDrain \/ HandleFatal \/ Stop \/ UNCHANGED vars
  PROVE  Ledger'
<1>1. UNCHANGED <<cfg, nextId, kernelVars, countVars>>
  BY DEF EnterReturns, BeginDrain, HandleFatal, Stop, vars
<1>2. UNCHANGED pos
  BY DEF EnterReturns, BeginDrain, HandleFatal, Stop, vars, drainVars, Types, Bounds
<1> QED BY <1>1, <1>2, KeepLedger DEF kernelVars, countVars

LEMMA StepLedger == ASSUME Types, Ledger, [Next]_vars PROVE Ledger'
BY IssueLedger, SendLaterLedger, NotifyLedger, FillNormalLedger, FillZcLedger,
   HandleSentLedger, HandleAgainLedger, HandleNotifLedger, EndDrainLedger, QuietLedger
   DEF Next, LoopStep, KernelStep

LEMMA InitLedger == ASSUME Init PROVE Ledger
<1>1. sq = <<>> /\ Len(sq) = 0 /\ kern = {} /\ dropped = {} /\ cq = <<>> /\ Len(cq) = 0  BY DEF Init
<1>2. IdsOrdered  BY <1>1 DEF IdsOrdered, Order
<1>3. Unhandled(Pending) = {}  BY <1>1 DEF Unhandled, Places, Init
<1>4. Types  BY InitTypes
<1>5. Queued + Cardinality(Unhandled(Pending)) = 0  BY <1>1, <1>3, FS_EmptySet DEF Queued
<1>6. cfg.packets * 0 = 0  BY <1>4, LedgerNumbers
<1>7. SendLedger  BY <1>4, <1>5, <1>6, LedgerNumbers DEF Init
<1> QED BY <1>2, <1>7 DEF Ledger

LEMMA AlwaysLedger == Spec => []Ledger
<1>1. Init => Ledger  BY InitLedger
<1>2. Types /\ Ledger /\ [Next]_vars => Ledger'  BY StepLedger
<1> QED BY <1>1, <1>2, AlwaysTypes, PTL DEF Spec

(* The sender's books balance: whatever the order in which requests are    *)
(* put off, sent, refused and notified, what was counted as sent or        *)
(* omitted and what is still underway make up the ids given out.           *)
THEOREM SentIsAccounted == Spec => []SendLedger
<1>1. Ledger => SendLedger  BY DEF Ledger
<1> QED BY <1>1, AlwaysLedger, PTL
-----------------------------------------------------------------------------
(* Zero-copy: every buffer has one owner.  The owners and their buffers:   *)

Kinds == {"pool", "indexPool", "sq", "kern", "held", "back"}
Back == {"notif", "EAGAIN", "errno"}
Bufs(R) == {r.buf : r \in R}

BackBufs == {cq[i].buf : i \in Unhandled(Back)}

Owner == [pool |-> ToSet(pool), indexPool |-> ToSet(indexPool), sq |-> Bufs(ToSet(sq)),
          kern |-> Bufs(kern), held |-> Bufs(held),
          back |-> BackBufs]

Partition(S, F) ==
  /\ UNION {F[k] : k \in Kinds} = S
  /\ \A k, l \in Kinds : k # l => F[k] \cap F[l] = {}

(* None of them has a buffer twice.                                        *)
OneRequestEach(R) == \A r, s \in R : r.buf = s.buf => r = s
SqApart(q) == \A i, j \in 1 .. Len(q) : q[i].buf = q[j].buf => i = j
BackApart == \A i, j \in Unhandled(Back) : cq[i].buf = cq[j].buf => i = j

Apart == /\ NoRepeats(pool) /\ NoRepeats(indexPool) /\ SqApart(sq)
         /\ OneRequestEach(kern) /\ OneRequestEach(held) /\ BackApart

Total == Len(pool) + Len(indexPool) + Queued + Cardinality(held) + Cardinality(Unhandled(Back))

Owned ==
  /\ capacity = cfg.uring.buffer
  /\ Total = cfg.uring.buffer
  /\ Partition(Buffers, Owner)
  /\ Apart

Exclusive == cfg.zerocopy /\ Guarded

(* Buffers change hands.                                                   *)
LEMMA Moved ==
  ASSUME NEW S, NEW F, NEW G, Partition(S, F),
         NEW a \in Kinds, NEW b \in Kinds, a # b, NEW X, X \subseteq F[a],
         G[a] = F[a] \ X, G[b] = F[b] \cup X,
         \A k \in Kinds \ {a, b} : G[k] = F[k]
  PROVE  Partition(S, G)
<1>1. UNION {G[k] : k \in Kinds} = S
  <2>1. \A x : (\E k \in Kinds : x \in G[k]) <=> (\E k \in Kinds : x \in F[k])  OBVIOUS
  <2>2. \A x : x \in S <=> \E k \in Kinds : x \in F[k]  BY DEF Partition
  <2> QED BY <2>1, <2>2
<1>2. \A k, l \in Kinds : k # l => F[k] \cap F[l] = {}  BY DEF Partition
<1>3. \A k, l \in Kinds : k # l => G[k] \cap G[l] = {}
  <2> TAKE k, l \in Kinds
  <2> HAVE k # l
  <2>1. CASE k \in {a, b} /\ l \in {a, b}  BY <2>1, <1>2
  <2>2. CASE k \in {a, b} /\ l \notin {a, b}  BY <2>2, <1>2
  <2>3. CASE k \notin {a, b} /\ l \in {a, b}  BY <2>3, <1>2
  <2>4. CASE k \notin {a, b} /\ l \notin {a, b}  BY <2>4, <1>2
  <2> QED BY <2>1, <2>2, <2>3, <2>4
<1> QED BY <1>1, <1>3 DEF Partition

LEMMA HeadLeaves ==
  ASSUME NEW q \in Seq(Request), q # <<>>
  PROVE  /\ ToSet(q) = ToSet(Tail(q)) \cup {Head(q)}
         /\ SqApart(q) => /\ SqApart(Tail(q))
                          /\ Bufs(ToSet(Tail(q))) = Bufs(ToSet(q)) \ {Head(q).buf}
<1> DEFINE t == Tail(q)
           h == Head(q)
<1>1. /\ Len(q) \in Nat /\ Len(q) > 0 /\ t \in Seq(Request) /\ Len(t) = Len(q) - 1 /\ h = q[1]
      /\ \A i \in 1 .. Len(t) : t[i] = q[i + 1]
  BY HeadTailProperties, LenProperties
<1> HIDE DEF t, h
<1>2. ToSet(q) = {q[i] : i \in 1 .. Len(q)} /\ ToSet(t) = {t[i] : i \in 1 .. Len(t)}
  BY <1>1, Members
<1>3. \A i \in 1 .. Len(t) : t[i] = q[i + 1] /\ i + 1 \in 1 .. Len(q) /\ i + 1 # 1  BY <1>1
<1>4. \A i \in 1 .. Len(q) : i = 1 \/ (i - 1 \in 1 .. Len(t) /\ q[i] = t[i - 1])
  <2> TAKE i \in 1 .. Len(q)
  <2>1. i = 1 \/ i - 1 \in 1 .. Len(t)  BY <1>1
  <2>2. i - 1 \in 1 .. Len(t) => t[i - 1] = q[(i - 1) + 1]  BY <1>1
  <2>3. (i - 1) + 1 = i  OBVIOUS
  <2> QED BY <2>1, <2>2, <2>3
<1>5. 1 \in 1 .. Len(q)  BY <1>1
<1>6. ToSet(q) = ToSet(t) \cup {h}
  <2>1. ToSet(t) \cup {h} \subseteq ToSet(q)  BY <1>1, <1>2, <1>3, <1>5
  <2>2. ToSet(q) \subseteq ToSet(t) \cup {h}  BY <1>1, <1>2, <1>4
  <2> QED BY <2>1, <2>2
<1>7. ASSUME SqApart(q) PROVE SqApart(t) /\ Bufs(ToSet(t)) = Bufs(ToSet(q)) \ {h.buf}
  <2>1. SqApart(t)
    <3> SUFFICES ASSUME NEW i \in 1 .. Len(t), NEW j \in 1 .. Len(t), t[i].buf = t[j].buf
                 PROVE  i = j
      BY DEF SqApart
    <3>1. i + 1 = j + 1  BY <1>3, <1>7 DEF SqApart
    <3> QED BY <3>1
  <2>2. \A r \in ToSet(t) : r.buf # h.buf
    <3> TAKE r \in ToSet(t)
    <3>1. PICK i \in 1 .. Len(t) : r = t[i]  BY <1>2
    <3> QED BY <3>1, <1>1, <1>3, <1>5, <1>7 DEF SqApart
  <2> QED BY <1>6, <2>1, <2>2 DEF Bufs
<1> QED BY <1>6, <1>7 DEF t, h

LEMMA RequestLeaves ==
  ASSUME NEW R, OneRequestEach(R), NEW r \in R
  PROVE  /\ OneRequestEach(R \ {r}) /\ r.buf \in Bufs(R)
         /\ Bufs(R \ {r}) = Bufs(R) \ {r.buf}
BY DEF OneRequestEach, Bufs

LEMMA RequestJoins ==
  ASSUME NEW R, OneRequestEach(R), NEW r, r.buf \notin Bufs(R)
  PROVE  OneRequestEach(R \cup {r}) /\ Bufs(R \cup {r}) = Bufs(R) \cup {r.buf} /\ r \notin R
BY DEF OneRequestEach, Bufs

LEMMA OwnerIs ==
  /\ Owner["pool"] = ToSet(pool) /\ Owner["indexPool"] = ToSet(indexPool)
  /\ Owner["sq"] = Bufs(ToSet(sq)) /\ Owner["kern"] = Bufs(kern)
  /\ Owner["held"] = Bufs(held) /\ Owner["back"] = BackBufs
BY DEF Owner

LEMMA OwnerWillBe ==
  /\ Owner'["pool"] = ToSet(pool') /\ Owner'["indexPool"] = ToSet(indexPool')
  /\ Owner'["sq"] = Bufs(ToSet(sq')) /\ Owner'["kern"] = Bufs(kern')
  /\ Owner'["held"] = Bufs(held') /\ Owner'["back"] = BackBufs'
BY DEF Owner

LEMMA BackArrives ==
  ASSUME TypeOK, BackApart, NEW b \in Buffers, NEW res \in Results, b \notin BackBufs,
         cq' = Append(cq, [buf |-> b, res |-> res]), UNCHANGED <<cfg, pos>>
  PROVE  /\ BackApart'
         /\ BackBufs' = BackBufs \cup (IF res \in Back THEN {b} ELSE {})
         /\ Cardinality(Unhandled(Back)') = Cardinality(Unhandled(Back)) + (IF res \in Back THEN 1 ELSE 0)
         /\ Cardinality(Unhandled(Back)') \in Nat
<1>1. /\ \A i \in 1 .. Len(cq) : cq'[i] = cq[i]
      /\ cq'[Len(cq) + 1] = [buf |-> b, res |-> res]
      /\ Unhandled(Back)' = Unhandled(Back) \cup (IF res \in Back THEN {Len(cq) + 1} ELSE {})
      /\ Cardinality(Unhandled(Back)') = Cardinality(Unhandled(Back)) + (IF res \in Back THEN 1 ELSE 0)
  BY Arrives
<1>2. Len(cq) \in Nat /\ pos \in Nat /\ Cardinality(Unhandled(Back)) \in Nat  BY UnhandledType
<1>3. \A i \in Unhandled(Back) : i \in 1 .. Len(cq)  BY <1>2 DEF Unhandled, Places
<1>4. \A i \in Unhandled(Back) : cq'[i].buf = cq[i].buf  BY <1>1, <1>3
<1>5. cq'[Len(cq) + 1].buf = b  BY <1>1
<1>6. CASE res \in Back
  <2>1. Unhandled(Back)' = Unhandled(Back) \cup {Len(cq) + 1}  BY <1>1, <1>6
  <2>2. BackApart'
    <3>1. \A i \in Unhandled(Back) : cq[i].buf # b  BY DEF BackBufs
    <3>2. \A i, j \in Unhandled(Back)' : cq'[i].buf = cq'[j].buf => i = j
      BY <2>1, <3>1, <1>4, <1>5 DEF BackApart
    <3> QED BY <3>2 DEF BackApart, Back, Unhandled
  <2>3. BackBufs' = BackBufs \cup {b}
    <3>1. BackBufs' = {cq'[i].buf : i \in Unhandled(Back)'}  BY DEF BackBufs, Unhandled, Back
    <3> QED BY <2>1, <3>1, <1>4, <1>5, ZenonT(60) DEF BackBufs
  <2> QED BY <1>1, <1>2, <1>6, <2>2, <2>3
<1>7. CASE res \notin Back
  <2>1. Unhandled(Back)' = Unhandled(Back)  BY <1>1, <1>7
  <2>2. BackApart'
    <3>1. \A i, j \in Unhandled(Back)' : cq'[i].buf = cq'[j].buf => i = j
      BY <2>1, <1>4 DEF BackApart
    <3> QED BY <3>1 DEF BackApart, Back, Unhandled
  <2>3. BackBufs' = BackBufs
    <3>1. BackBufs' = {cq'[i].buf : i \in Unhandled(Back)'}  BY DEF BackBufs, Unhandled, Back
    <3> QED BY <2>1, <3>1, <1>4 DEF BackBufs
  <2> QED BY <1>1, <1>2, <1>7, <2>2, <2>3
<1> QED BY <1>6, <1>7

LEMMA ExecuteOwned ==
  ASSUME Types, Exclusive, Owned,
         NEW r \in Request, NEW res \in {"bytes", "EAGAIN", "errno"}, Effect(r, res),
         NEW a \in {"sq", "kern"}, r.buf \in Owner[a],
         Owner'[a] = Owner[a] \ {r.buf},
         \A k \in {"sq", "kern"} \ {a} : Owner'[k] = Owner[k],
         SqApart(sq'), OneRequestEach(kern'), Queued' = Queued - 1,
         UNCHANGED <<cfg, nextId, bufferVars, pc, drainVars, countVars>>
  PROVE  Owned'
<1>a. TypeOK /\ Bounds  BY DEF Types
<1>1. UNCHANGED <<cfg, pos, pool, indexPool, capacity>> /\ cq' = Append(cq, [buf |-> r.buf, res |-> res])
      /\ r.buf \in Buffers /\ res \in Results
  BY DEF bufferVars, drainVars, Effect, Request, Results
<1>2. /\ Partition(Buffers, Owner) /\ NoRepeats(pool) /\ NoRepeats(indexPool)
      /\ OneRequestEach(held) /\ BackApart /\ capacity = cfg.uring.buffer /\ Total = cfg.uring.buffer
  BY DEF Owned, Apart
<1>3. r.buf \notin Bufs(held) /\ r.buf \notin BackBufs
  <2>1. a \in Kinds /\ "held" \in Kinds /\ "back" \in Kinds /\ a # "held" /\ a # "back"  BY DEF Kinds
  <2>2. Owner[a] \cap Owner["held"] = {} /\ Owner[a] \cap Owner["back"] = {}
    BY <1>2, <2>1 DEF Partition
  <2> QED BY <2>2, OwnerIs
<1>4. /\ BackApart'
      /\ BackBufs' = BackBufs \cup (IF res \in Back THEN {r.buf} ELSE {})
      /\ Cardinality(Unhandled(Back)') = Cardinality(Unhandled(Back)) + (IF res \in Back THEN 1 ELSE 0)
      /\ Cardinality(Unhandled(Back)') \in Nat
  BY <1>a, <1>1, <1>2, <1>3, BackArrives
<1>5. /\ Len(pool) \in Nat /\ Len(indexPool) \in Nat /\ Queued \in Nat /\ Cardinality(held) \in Nat
      /\ Cardinality(Unhandled(Back)) \in Nat
  BY <1>a, Quantities, UnhandledType DEF Bounds
<1>6. a \in Kinds /\ Kinds = {"pool", "indexPool", "sq", "kern", "held", "back"}  BY DEF Kinds
<1>7. Owner'["pool"] = Owner["pool"] /\ Owner'["indexPool"] = Owner["indexPool"]
  BY <1>1, OwnerIs, OwnerWillBe
<1>8. CASE res = "bytes"
  <2>1. held' = held \cup {r}  BY <1>8 DEF Effect, Exclusive
  <2>2. OneRequestEach(held') /\ Bufs(held') = Bufs(held) \cup {r.buf} /\ r \notin held
    BY <1>2, <1>3, <2>1, RequestJoins
  <2>3. Cardinality(held') = Cardinality(held) + 1  BY <1>a, <2>1, <2>2, AddOne DEF Bounds
  <2>4. res \notin Back  BY <1>8 DEF Back
  <2>5. BackBufs' = BackBufs /\ Cardinality(Unhandled(Back)') = Cardinality(Unhandled(Back))
    BY <1>4, <1>5, <2>4
  <2>6. Owner'["held"] = Owner["held"] \cup {r.buf} /\ Owner'["back"] = Owner["back"]
    BY <2>2, <2>5, OwnerIs, OwnerWillBe
  <2>7. \A k \in Kinds \ {a, "held"} : Owner'[k] = Owner[k]  BY <1>6, <1>7, <2>6
  <2>8. {r.buf} \subseteq Owner[a] /\ "held" \in Kinds /\ a # "held"  BY <1>6
  <2>9. Partition(Buffers, Owner')  BY <1>2, <1>6, <2>6, <2>7, <2>8, Moved, ZenonT(60)
  <2>10. Total' = Total  BY <1>1, <1>5, <2>3, <2>5 DEF Total
  <2> QED BY <1>1, <1>2, <1>4, <2>2, <2>9, <2>10 DEF Owned, Apart, Buffers
<1>9. CASE res # "bytes"
  <2>1. held' = held  BY <1>9 DEF Effect, Exclusive
  <2>2. res \in Back  BY <1>9 DEF Back
  <2>3. BackBufs' = BackBufs \cup {r.buf} /\ Cardinality(Unhandled(Back)') = Cardinality(Unhandled(Back)) + 1
    BY <1>4, <1>5, <2>2
  <2>4. Owner'["back"] = Owner["back"] \cup {r.buf} /\ Owner'["held"] = Owner["held"]
    BY <2>1, <2>3, OwnerIs, OwnerWillBe
  <2>5. \A k \in Kinds \ {a, "back"} : Owner'[k] = Owner[k]  BY <1>6, <1>7, <2>4
  <2>6. {r.buf} \subseteq Owner[a] /\ "back" \in Kinds /\ a # "back"  BY <1>6
  <2>7. Partition(Buffers, Owner')  BY <1>2, <1>6, <2>4, <2>5, <2>6, Moved, ZenonT(60)
  <2>8. Total' = Total  BY <1>1, <1>5, <2>1, <2>3 DEF Total
  <2> QED BY <1>1, <1>2, <1>4, <2>1, <2>7, <2>8 DEF Owned, Apart, Buffers
<1> QED BY <1>8, <1>9

LEMMA IssueOwned == ASSUME Types, Ledger, Exclusive, Owned, Issue PROVE Owned'
<1>a. TypeOK /\ Bounds /\ sq # <<>> /\ sq' = Tail(sq) /\ sq \in Seq(Request)  BY DEF Types, Issue, TypeOK
<1>1. /\ Head(sq) \in Request /\ Len(sq') = Len(sq) - 1 /\ Len(sq) \in Nat /\ Cardinality(kern) \in Nat
  BY <1>a, QueueHead, Quantities DEF Bounds
<1>2. /\ SqApart(sq) /\ OneRequestEach(kern) /\ Partition(Buffers, Owner) /\ NoRepeats(pool)
      /\ NoRepeats(indexPool) /\ OneRequestEach(held) /\ BackApart
  BY DEF Owned, Apart
<1>3. /\ SqApart(sq') /\ Bufs(ToSet(sq')) = Bufs(ToSet(sq)) \ {Head(sq).buf}
      /\ Head(sq).buf \in Bufs(ToSet(sq))
  <2>1. ToSet(sq) = ToSet(sq') \cup {Head(sq)}  BY <1>a, HeadLeaves
  <2> QED BY <1>a, <1>2, <2>1, HeadLeaves DEF Bufs
<1>4. UNCHANGED <<cfg, nextId, bufferVars, pc, drainVars, countVars>>  BY DEF Issue
<1>5. Head(sq).buf \in Owner["sq"] /\ Owner'["sq"] = Owner["sq"] \ {Head(sq).buf}
  BY <1>3, OwnerIs, OwnerWillBe
<1>6. CASE Execute(Head(sq)) /\ UNCHANGED kern
  <2>1. PICK res \in {"bytes", "EAGAIN", "errno"} : Effect(Head(sq), res)
    BY <1>a, <1>6, ExecuteEffect
  <2>2. Queued' = Queued - 1  BY <1>1, <1>6 DEF Queued
  <2>3. \A k \in {"sq", "kern"} \ {"sq"} : Owner'[k] = Owner[k]  BY <1>6, OwnerIs, OwnerWillBe
  <2>4. OneRequestEach(kern')  BY <1>2, <1>6
  <2> QED BY <1>1, <1>3, <1>4, <1>5, <2>1, <2>2, <2>3, <2>4, ExecuteOwned
<1>7. CASE /\ cfg.deferred
           /\ kern' = kern \cup {Head(sq)}
           /\ UNCHANGED <<held, cq, wire, dropped>>
  <2>1. UNCHANGED <<cfg, pos, pool, indexPool, capacity>>  BY <1>4 DEF bufferVars, drainVars
  <2>2. "sq" \in Kinds /\ "kern" \in Kinds /\ "sq" # "kern"  BY DEF Kinds
  <2>3. Head(sq).buf \notin Bufs(kern)
    <3>1. Owner["sq"] \cap Owner["kern"] = {}  BY <1>2, <2>2 DEF Partition
    <3> QED BY <1>5, <3>1, OwnerIs
  <2>4. OneRequestEach(kern') /\ Bufs(kern') = Bufs(kern) \cup {Head(sq).buf} /\ Head(sq) \notin kern
    BY <1>2, <1>7, <2>3, RequestJoins
  <2>5. Cardinality(kern') = Cardinality(kern) + 1  BY <1>a, <1>7, <2>4, AddOne DEF Bounds
  <2>6. Queued' = Queued  BY <1>1, <2>5 DEF Queued
  <2>7. Unhandled(Back)' = Unhandled(Back) /\ BackBufs' = BackBufs
    BY <1>7, <2>1 DEF Unhandled, BackBufs, Back
  <2>8. Owner'["kern"] = Owner["kern"] \cup {Head(sq).buf}  BY <2>4, OwnerIs, OwnerWillBe
  <2>9. \A k \in Kinds \ {"sq", "kern"} : Owner'[k] = Owner[k]
    BY <1>7, <2>1, <2>7, OwnerIs, OwnerWillBe DEF Kinds
  <2>10. {Head(sq).buf} \subseteq Owner["sq"]  BY <1>5
  <2>11. Partition(Buffers, Owner')
    <3> DEFINE X == {Head(sq).buf}
    <3>1. /\ X \subseteq Owner["sq"] /\ Owner'["sq"] = Owner["sq"] \ X
          /\ Owner'["kern"] = Owner["kern"] \cup X
      BY <1>5, <2>8, <2>10
    <3> HIDE DEF X
    <3>2. Partition(Buffers, Owner)  BY <1>2
    <3> QED BY <2>2, <2>9, <3>1, <3>2, Moved
  <2>12. Total' = Total  BY <1>7, <2>1, <2>6, <2>7 DEF Total
  <2>13. BackApart'  BY <1>2, <1>7, <2>7 DEF BackApart, Unhandled, Back
  <2> QED BY <1>2, <1>3, <1>7, <2>1, <2>4, <2>11, <2>12, <2>13 DEF Owned, Apart, Buffers
<1> QED BY <1>6, <1>7 DEF Issue

LEMMA SendLaterOwned == ASSUME Types, Exclusive, Owned, SendLater PROVE Owned'
<1>a. TypeOK /\ Bounds  BY DEF Types
<1>1. PICK r \in kern : kern' = kern \ {r} /\ Execute(r)  BY DEF SendLater
<1>2. UNCHANGED <<cfg, nextId, bufferVars, sq, pc, drainVars, countVars>>  BY DEF SendLater
<1>3. r \in Request /\ Queued' = Queued - 1  BY <1>a, <1>1, <1>2, PutOff
<1>4. PICK res \in {"bytes", "EAGAIN", "errno"} : Effect(r, res)  BY <1>a, <1>1, ExecuteEffect
<1>5. OneRequestEach(kern) /\ SqApart(sq)  BY DEF Owned, Apart
<1>6. OneRequestEach(kern') /\ r.buf \in Bufs(kern) /\ Bufs(kern') = Bufs(kern) \ {r.buf}
  BY <1>1, <1>5, RequestLeaves
<1>7. /\ r.buf \in Owner["kern"] /\ Owner'["kern"] = Owner["kern"] \ {r.buf}
      /\ \A k \in {"sq", "kern"} \ {"kern"} : Owner'[k] = Owner[k]
  BY <1>2, <1>6, OwnerIs, OwnerWillBe
<1>8. SqApart(sq')  BY <1>2, <1>5
<1> QED BY <1>2, <1>3, <1>4, <1>6, <1>7, <1>8, ExecuteOwned

LEMMA NotifyOwned == ASSUME Types, Exclusive, Owned, Notify PROVE Owned'
<1>a. TypeOK /\ Bounds  BY DEF Types
<1>1. PICK r \in held : held' = held \ {r} /\ cq' = Append(cq, [buf |-> r.buf, res |-> "notif"])
  BY DEF Notify
<1>2. UNCHANGED <<cfg, nextId, bufferVars, sq, kern, wire, dropped, pc, drainVars, countVars>>
  BY DEF Notify
<1>3. UNCHANGED <<cfg, pos, pool, indexPool, capacity, sq, kern>>  BY <1>2 DEF bufferVars, drainVars
<1>4. r.buf \in Buffers /\ "notif" \in Results /\ "notif" \in Back
  BY <1>a DEF TypeOK, Request, Results, Back
<1>5. OneRequestEach(held) /\ BackApart /\ Partition(Buffers, Owner)  BY DEF Owned, Apart
<1>6. OneRequestEach(held') /\ r.buf \in Bufs(held) /\ Bufs(held') = Bufs(held) \ {r.buf}
  BY <1>1, <1>5, RequestLeaves
<1>7. "held" \in Kinds /\ "back" \in Kinds /\ "held" # "back"  BY DEF Kinds
<1>8. r.buf \notin BackBufs
  <2>1. Owner["held"] \cap Owner["back"] = {}  BY <1>5, <1>7 DEF Partition
  <2> QED BY <1>6, <2>1, OwnerIs
<1>9. /\ BackApart' /\ BackBufs' = BackBufs \cup {r.buf}
      /\ Cardinality(Unhandled(Back)') = Cardinality(Unhandled(Back)) + 1
  BY <1>a, <1>1, <1>3, <1>4, <1>5, <1>8, BackArrives
<1>10. Partition(Buffers, Owner')
  <2> DEFINE X == {r.buf}
  <2>1. X \subseteq Owner["held"] /\ Owner'["held"] = Owner["held"] \ X /\ Owner'["back"] = Owner["back"] \cup X
    BY <1>6, <1>9, OwnerIs, OwnerWillBe
  <2>2. \A k \in Kinds \ {"held", "back"} : Owner'[k] = Owner[k]
    BY <1>3, OwnerIs, OwnerWillBe DEF Kinds
  <2> HIDE DEF X
  <2> QED BY <1>5, <1>7, <2>1, <2>2, Moved
<1>11. Cardinality(held') = Cardinality(held) - 1  BY <1>a, <1>1, FS_RemoveElement DEF Bounds
<1>12. Total' = Total
  <2>1. /\ Len(pool) \in Nat /\ Len(indexPool) \in Nat /\ Queued \in Nat /\ Cardinality(held) \in Nat
        /\ Cardinality(Unhandled(Back)) \in Nat
    BY <1>a, Quantities, UnhandledType DEF Bounds
  <2>2. Queued' = Queued  BY <1>3 DEF Queued
  <2> QED BY <1>3, <1>9, <1>11, <2>1, <2>2 DEF Total
<1> QED BY <1>3, <1>6, <1>9, <1>10, <1>12 DEF Owned, Apart, Buffers

(* With l buffers left in the pool and q in the queue of the ring.         *)
LEMMA ToSubmitFits ==
  ASSUME NEW p, p.ring \in Nat, p.burst \in Nat, p.buffer \in Nat,
         p.burst <= p.ring, p.ring <= p.buffer,
         NEW l \in Nat, NEW q \in Nat, q <= p.ring, l + q <= p.buffer
  PROVE  /\ ToSubmit(p.buffer - l, q, p) \in Nat
         /\ ToSubmit(p.buffer - l, q, p) <= l /\ ToSubmit(p.buffer - l, q, p) <= p.ring - q
<1> DEFINE f == p.buffer - l
<1>1. f \in Nat /\ p.buffer - f = l /\ (f = 0 => q = 0 /\ l = p.buffer)  OBVIOUS
<1> HIDE DEF f
<1>2. CASE NoBuffers(f, p)
  <2>1. ToSubmit(f, q, p) = 0  BY <1>2 DEF ToSubmit
  <2> QED BY <2>1 DEF f
<1>3. CASE ~NoBuffers(f, p) /\ p.fill = "Syscall"
  <2>1. ToSubmit(f, q, p) = IF f = 0 THEN p.burst ELSE 0  BY <1>3 DEF ToSubmit
  <2>2. ToSubmit(f, q, p) \in Nat /\ ToSubmit(f, q, p) <= l /\ ToSubmit(f, q, p) <= p.ring - q
    BY <1>1, <2>1
  <2> QED BY <2>2 DEF f
<1>4. CASE ~NoBuffers(f, p) /\ p.fill # "Syscall"
  <2>1. ToSubmit(f, q, p) = IF p.buffer - f < p.ring - q THEN p.buffer - f ELSE p.ring - q
    BY <1>4 DEF ToSubmit
  <2>2. ToSubmit(f, q, p) \in Nat /\ ToSubmit(f, q, p) <= l /\ ToSubmit(f, q, p) <= p.ring - q
    BY <1>1, <2>1
  <2> QED BY <2>2 DEF f
<1> QED BY <1>2, <1>3, <1>4

(* As long as every buffer has one owner, a submission finds what it wants *)
(* in the pool and in the queue.                                           *)
LEMMA SubmissionFits ==
  ASSUME Types, Owned
  PROVE  Wanted <= Room /\ Wanted <= Len(pool)
<1>a. TypeOK /\ Bounds  BY DEF Types
<1>1. /\ Wanted \in Nat /\ Wanted <= ToSubmit(PoolInflight, Len(sq), cfg.uring)
      /\ Room = cfg.uring.ring - Len(sq)
  BY <1>a, WantedType
<1>2. /\ cfg.uring.ring \in Nat /\ cfg.uring.burst \in Nat /\ cfg.uring.buffer \in Nat
      /\ cfg.uring.burst <= cfg.uring.ring /\ cfg.uring.ring <= cfg.uring.buffer
      /\ Len(sq) \in Nat /\ Len(sq) <= cfg.uring.ring
  BY <1>a, Parameter, LenProperties DEF TypeOK
<1>3. /\ Len(pool) \in Nat /\ Len(indexPool) \in Nat /\ Queued \in Nat /\ Cardinality(held) \in Nat
      /\ Cardinality(Unhandled(Back)) \in Nat /\ Cardinality(kern) \in Nat
  BY <1>a, Quantities, UnhandledType DEF Bounds
<1>4. capacity = cfg.uring.buffer /\ Len(pool) + Len(sq) <= cfg.uring.buffer
  BY <1>2, <1>3 DEF Owned, Total, Queued
<1>5. PoolInflight = cfg.uring.buffer - Len(pool)  BY <1>4 DEF PoolInflight
<1>6. /\ ToSubmit(PoolInflight, Len(sq), cfg.uring) \in Nat
      /\ ToSubmit(PoolInflight, Len(sq), cfg.uring) <= Len(pool)
      /\ ToSubmit(PoolInflight, Len(sq), cfg.uring) <= cfg.uring.ring - Len(sq)
  BY <1>2, <1>3, <1>4, <1>5, ToSubmitFits
<1> QED BY <1>1, <1>2, <1>3, <1>6

LEMMA FillZcPops ==
  ASSUME Types, Owned, FillZc
  PROVE  \E k \in Nat : FillZcQueue(k, k)
<1>1. Wanted <= Room /\ Wanted <= Len(pool)  BY SubmissionFits
<1>2. \E m, k \in Nat : FillZcQueue(m, k)  BY <1>1, FillZcCases
<1>3. PICK m \in Nat, k \in Nat : FillZcQueue(m, k)  BY <1>2
<1>4. m <= Wanted /\ (m <= Room => k = m)  BY <1>3 DEF FillZcQueue
<1>5. Wanted \in Nat /\ Room \in Nat  BY WantedType DEF Types
<1>6. k = m  BY <1>1, <1>4, <1>5
<1> QED BY <1>3, <1>6

(* Buffers move from the end of the pool into the queue.                   *)
LEMMA FillZcOwned == ASSUME Types, Exclusive, Owned, FillZc PROVE Owned'
<1>a. TypeOK /\ Bounds /\ pool \in Seq(Buffers) /\ sq \in Seq(Request)  BY DEF Types, TypeOK
<1>1. PICK k \in Nat : FillZcQueue(k, k)  BY FillZcPops
<1>2. UNCHANGED <<cfg, capacity, kern, held, cq, pos, indexPool>>  BY DEF FillZc, drainVars
<1> DEFINE l == Len(pool)
           n == Len(sq)
           X == {pool[i] : i \in l - k + 1 .. l}
<1>3. /\ pool' \in Seq(Buffers) /\ Len(pool') = l - k /\ k <= l
      /\ \A i \in 1 .. l - k : pool'[i] = pool[i]
      /\ sq' \in Seq(Request) /\ Len(sq') = n + k
      /\ \A i \in 1 .. n : sq'[i] = sq[i]
      /\ \A i \in 1 .. k : l + 1 - i \in 1 .. l /\ sq'[n + i].buf = pool[l + 1 - i]
  <2>1. \A i \in 1 .. k : l + 1 - i \in 1 .. l /\ sq'[n + i].buf = pool[l + 1 - i]
    <3> TAKE i \in 1 .. k
    <3> DEFINE e == nextId + (i - 1) * cfg.packets
    <3>1. l + 1 - i \in 1 .. l /\ sq'[n + i] = [buf |-> pool[l + 1 - i], id |-> e]
      BY <1>1 DEF FillZcQueue
    <3> HIDE DEF e
    <3> QED BY <3>1
  <2> QED BY <1>1, <2>1 DEF FillZcQueue
<1>4. l \in Nat /\ n \in Nat  BY <1>a, LenProperties
<1>5. /\ NoRepeats(pool) /\ NoRepeats(indexPool) /\ SqApart(sq)
      /\ OneRequestEach(kern) /\ OneRequestEach(held) /\ BackApart /\ Partition(Buffers, Owner)
  BY DEF Owned, Apart
<1>6. /\ ToSet(pool) = {pool[i] : i \in 1 .. l} /\ ToSet(pool') = {pool'[i] : i \in 1 .. l - k}
      /\ ToSet(sq) = {sq[i] : i \in 1 .. n} /\ ToSet(sq') = {sq'[i] : i \in 1 .. n + k}
  BY <1>a, <1>3, Members
<1>7. "pool" \in Kinds /\ "sq" \in Kinds /\ "pool" # "sq"  BY DEF Kinds
<1>8. ToSet(pool) \cap Bufs(ToSet(sq)) = {}
  <2>1. Owner["pool"] \cap Owner["sq"] = {}  BY <1>5, <1>7 DEF Partition
  <2> QED BY <2>1, OwnerIs
<1>9. \A i, j \in 1 .. l : pool[i] = pool[j] => i = j  BY <1>5 DEF NoRepeats
<1>10. \A i, j \in 1 .. n : sq[i].buf = sq[j].buf => i = j  BY <1>5 DEF SqApart
<1>11. \A i \in 1 .. n, j \in 1 .. l : sq[i].buf # pool[j]  BY <1>6, <1>8 DEF Bufs
<1> HIDE DEF l, n
<1>12. ToSet(pool') = ToSet(pool) \ X /\ X \subseteq ToSet(pool)
  <2>1. \A i \in 1 .. l : i \in 1 .. l - k \/ i \in l - k + 1 .. l  BY <1>3, <1>4
  <2>2. \A i \in 1 .. l - k : i \in 1 .. l /\ pool'[i] = pool[i] /\ i \notin l - k + 1 .. l
    BY <1>3, <1>4
  <2>3. \A i \in l - k + 1 .. l : i \in 1 .. l  BY <1>3, <1>4
  <2>4. X \subseteq ToSet(pool)  BY <1>6, <2>3
  <2>5. ToSet(pool') \subseteq ToSet(pool) \ X  BY <1>6, <1>9, <2>2, <2>3
  <2>6. ToSet(pool) \ X \subseteq ToSet(pool')  BY <1>6, <2>1, <2>2
  <2> QED BY <2>4, <2>5, <2>6
<1>13. \A i \in 1 .. n + k : i \in 1 .. n \/ \E j \in 1 .. k : i = n + j
  <2> SUFFICES ASSUME NEW i \in 1 .. n + k, i \notin 1 .. n PROVE \E j \in 1 .. k : i = n + j
    OBVIOUS
  <2>1. i - n \in 1 .. k /\ i = n + (i - n)  BY <1>4
  <2> QED BY <2>1
<1>14. \A j \in 1 .. k : /\ l + 1 - j \in 1 .. l /\ l + 1 - j \in l - k + 1 .. l
                         /\ sq'[n + j].buf = pool[l + 1 - j] /\ n + j \in 1 .. n + k
  BY <1>3, <1>4
<1>15. Bufs(ToSet(sq')) = Bufs(ToSet(sq)) \cup X
  <2>0. /\ Bufs(ToSet(sq')) = {sq'[i].buf : i \in 1 .. n + k}
        /\ Bufs(ToSet(sq)) = {sq[i].buf : i \in 1 .. n}
    BY <1>6 DEF Bufs
  <2>1. ASSUME NEW i \in 1 .. n + k PROVE sq'[i].buf \in Bufs(ToSet(sq)) \cup X
    <3>1. CASE i \in 1 .. n  BY <3>1, <1>3, <2>0
    <3>2. CASE i \notin 1 .. n
      <4>1. PICK j \in 1 .. k : i = n + j  BY <1>13, <3>2
      <4> QED BY <4>1, <1>14
    <3> QED BY <3>1, <3>2
  <2>2. ASSUME NEW i \in 1 .. n PROVE sq[i].buf \in Bufs(ToSet(sq'))
    <3>1. i \in 1 .. n + k  BY <1>4
    <3> QED BY <3>1, <1>3, <2>0
  <2>3. ASSUME NEW i \in l - k + 1 .. l PROVE pool[i] \in Bufs(ToSet(sq'))
    <3>1. l + 1 - i \in 1 .. k /\ l + 1 - (l + 1 - i) = i  BY <1>3, <1>4
    <3>2. sq'[n + (l + 1 - i)].buf = pool[i] /\ n + (l + 1 - i) \in 1 .. n + k  BY <3>1, <1>14
    <3> QED BY <3>2, <2>0
  <2>4. Bufs(ToSet(sq')) \subseteq Bufs(ToSet(sq)) \cup X  BY <2>0, <2>1
  <2>5. Bufs(ToSet(sq)) \subseteq Bufs(ToSet(sq'))  BY <2>0, <2>2
  <2>6. X \subseteq Bufs(ToSet(sq'))  BY <2>3
  <2> QED BY <2>4, <2>5, <2>6
<1>16. SqApart(sq')
  <2> SUFFICES ASSUME NEW i \in 1 .. n + k, NEW j \in 1 .. n + k, sq'[i].buf = sq'[j].buf
               PROVE  i = j
    BY <1>3 DEF SqApart
  <2>1. CASE i \in 1 .. n /\ j \in 1 .. n  BY <2>1, <1>3, <1>10
  <2>2. CASE i \in 1 .. n /\ j \notin 1 .. n
    <3>1. PICK b \in 1 .. k : j = n + b  BY <1>13, <2>2
    <3> QED BY <2>2, <3>1, <1>3, <1>11, <1>14
  <2>3. CASE i \notin 1 .. n /\ j \in 1 .. n
    <3>1. PICK b \in 1 .. k : i = n + b  BY <1>13, <2>3
    <3> QED BY <2>3, <3>1, <1>3, <1>11, <1>14
  <2>4. CASE i \notin 1 .. n /\ j \notin 1 .. n
    <3>1. PICK b \in 1 .. k : i = n + b  BY <1>13, <2>4
    <3>2. PICK c \in 1 .. k : j = n + c  BY <1>13, <2>4
    <3>3. l + 1 - b = l + 1 - c  BY <3>1, <3>2, <1>9, <1>14
    <3> QED BY <3>1, <3>2, <3>3, <1>4
  <2> QED BY <2>1, <2>2, <2>3, <2>4
<1>17. NoRepeats(pool')
  <2>1. \A i \in 1 .. l - k : i \in 1 .. l  BY <1>3, <1>4
  <2> QED BY <1>3, <1>9, <2>1 DEF NoRepeats
<1>18. Unhandled(Back)' = Unhandled(Back) /\ BackBufs' = BackBufs
  BY <1>2 DEF Unhandled, BackBufs, Back
<1>19. Partition(Buffers, Owner')
  <2>1. X \subseteq Owner["pool"] /\ Owner'["pool"] = Owner["pool"] \ X /\ Owner'["sq"] = Owner["sq"] \cup X
    BY <1>12, <1>15, OwnerIs, OwnerWillBe
  <2>2. \A i \in Kinds \ {"pool", "sq"} : Owner'[i] = Owner[i]
    BY <1>2, <1>18, OwnerIs, OwnerWillBe DEF Kinds
  <2> HIDE DEF X
  <2> QED BY <1>5, <1>7, <2>1, <2>2, Moved
<1>20. Total' = Total
  <2>1. /\ Len(pool) \in Nat /\ Len(indexPool) \in Nat /\ Cardinality(kern) \in Nat /\ Len(sq) \in Nat
        /\ Cardinality(held) \in Nat /\ Cardinality(Unhandled(Back)) \in Nat
    BY <1>a, Quantities, UnhandledType DEF Bounds
  <2>2. Len(pool') = Len(pool) - k /\ Len(sq') = Len(sq) + k  BY <1>3 DEF l, n
  <2> QED BY <1>2, <1>18, <2>1, <2>2 DEF Total, Queued
<1>21. BackApart'  BY <1>2, <1>5, <1>18 DEF BackApart, Unhandled, Back
<1> QED BY <1>2, <1>5, <1>16, <1>17, <1>19, <1>20, <1>21 DEF Owned, Apart, Buffers

(* A completion that returns a buffer.                                     *)
LEMMA CollectOwned ==
  ASSUME Types, Exclusive, Owned, AtCqe, Collect, Cqe.res \in {"EAGAIN", "notif"}, pos' = pos + 1,
         UNCHANGED <<cfg, bufferVars, kernelVars>>
  PROVE  Owned'
<1>a. TypeOK /\ Bounds /\ indexPool \in Seq(Buffers)  BY DEF Types, TypeOK
<1>1. UNCHANGED <<cfg, pool, capacity, sq, kern, held, cq>>  BY DEF bufferVars, kernelVars
<1>2. /\ Cqe \in Completion /\ Unhandled(Back)' = Unhandled(Back) \ {pos + 1}
      /\ pos + 1 \in Unhandled(Back)
      /\ Cardinality(Unhandled(Back)') = Cardinality(Unhandled(Back)) - 1
  <2>1. Cqe.res \in Back  BY DEF Back
  <2> QED BY <1>a, <1>1, <2>1, Passes
<1>3. /\ NoRepeats(pool) /\ NoRepeats(indexPool) /\ SqApart(sq)
      /\ OneRequestEach(kern) /\ OneRequestEach(held) /\ BackApart /\ Partition(Buffers, Owner)
  BY DEF Owned, Apart
<1> DEFINE b == cq[pos + 1].buf
<1>4. indexPool' = Append(indexPool, b) /\ b \in Buffers
  BY <1>2 DEF Collect, Returns, Cqe, Exclusive, Completion
<1>5. b \in BackBufs  BY <1>2 DEF BackBufs
<1>6. "indexPool" \in Kinds /\ "back" \in Kinds /\ "indexPool" # "back"  BY DEF Kinds
<1>7. b \notin ToSet(indexPool)
  <2>1. Owner["indexPool"] \cap Owner["back"] = {}  BY <1>3, <1>6 DEF Partition
  <2> QED BY <1>5, <2>1, OwnerIs
<1>8. /\ NoRepeats(indexPool') /\ ToSet(indexPool') = ToSet(indexPool) \cup {b}
      /\ Len(indexPool') = Len(indexPool) + 1
  BY <1>a, <1>3, <1>4, <1>7, AppendApart
<1>9. BackBufs' = BackBufs \ {b} /\ BackApart'
  <2>1. BackBufs' = {cq[i].buf : i \in Unhandled(Back)'}  BY <1>1 DEF BackBufs, Unhandled, Back
  <2>2. \A i \in Unhandled(Back) \ {pos + 1} : cq[i].buf # b  BY <1>2, <1>3 DEF BackApart
  <2>3. \A i, j \in Unhandled(Back)' : cq'[i].buf = cq'[j].buf => i = j
    BY <1>1, <1>2, <1>3 DEF BackApart
  <2>4. BackApart'  BY <2>3 DEF BackApart, Unhandled, Back
  <2>5. BackBufs = {cq[i].buf : i \in Unhandled(Back) \ {pos + 1}} \cup {b}
    BY <1>2 DEF BackBufs
  <2>6. b \notin {cq[i].buf : i \in Unhandled(Back) \ {pos + 1}}  BY <2>2
  <2>7. BackBufs' = {cq[i].buf : i \in Unhandled(Back) \ {pos + 1}}  BY <1>2, <2>1
  <2> QED BY <2>4, <2>5, <2>6, <2>7
<1>10. Partition(Buffers, Owner')
  <2> DEFINE X == {b}
  <2>1. /\ X \subseteq Owner["back"] /\ Owner'["back"] = Owner["back"] \ X
        /\ Owner'["indexPool"] = Owner["indexPool"] \cup X
    BY <1>5, <1>8, <1>9, OwnerIs, OwnerWillBe
  <2>2. \A k \in Kinds \ {"back", "indexPool"} : Owner'[k] = Owner[k]
    BY <1>1, OwnerIs, OwnerWillBe DEF Kinds
  <2> HIDE DEF X
  <2> QED BY <1>3, <1>6, <2>1, <2>2, Moved
<1>11. Total' = Total
  <2>1. /\ Len(pool) \in Nat /\ Len(indexPool) \in Nat /\ Queued \in Nat /\ Cardinality(held) \in Nat
        /\ Cardinality(Unhandled(Back)) \in Nat
    BY <1>a, Quantities, UnhandledType DEF Bounds
  <2>2. Queued' = Queued  BY <1>1 DEF Queued
  <2> QED BY <1>1, <1>2, <1>8, <2>1, <2>2 DEF Total
<1> QED BY <1>1, <1>3, <1>8, <1>9, <1>10, <1>11 DEF Owned, Apart, Buffers

(* Steps that move no buffer.                                              *)
LEMMA KeepOwned ==
  ASSUME Owned, UNCHANGED <<cfg, pool, capacity, indexPool, sq, kern, held, cq>>,
         Unhandled(Back)' = Unhandled(Back)
  PROVE  Owned'
<1>1. BackBufs' = BackBufs /\ BackApart'
  BY DEF BackBufs, Unhandled, Back, BackApart, Owned, Apart
<1>2. Owner' = Owner  BY <1>1 DEF Owner
<1>3. Total' = Total  BY DEF Total, Queued
<1> QED BY <1>1, <1>2, <1>3 DEF Owned, Apart, Buffers

LEMMA HandleSentOwned == ASSUME Types, Exclusive, Owned, HandleSent PROVE Owned'
<1>a. TypeOK /\ AtCqe /\ pos' = pos + 1  BY DEF Types, HandleSent
<1>1. UNCHANGED <<cfg, pool, capacity, sq, kern, held, cq>>
  BY DEF HandleSent, bufferVars, kernelVars
<1>2. Cqe.res = "bytes" /\ Cqe.res \notin Back  BY DEF HandleSent, Back
<1>3. UNCHANGED indexPool  BY <1>2 DEF HandleSent, Collect, Returns
<1>4. Unhandled(Back)' = Unhandled(Back)  BY <1>a, <1>1, <1>2, Passes
<1> QED BY <1>1, <1>3, <1>4, KeepOwned

LEMMA HandleBackOwned ==
  ASSUME Types, Exclusive, Owned, HandleAgain \/ HandleNotif
  PROVE  Owned'
<1>1. /\ AtCqe /\ Collect /\ Cqe.res \in {"EAGAIN", "notif"} /\ pos' = pos + 1
      /\ UNCHANGED <<cfg, bufferVars, kernelVars>>
  BY DEF HandleAgain, HandleNotif
<1> QED BY <1>1, CollectOwned

LEMMA QuietOwned ==
  ASSUME Types, Owned, EnterReturns \/ BeginDrain \/ HandleFatal \/ Stop \/ UNCHANGED vars
  PROVE  Owned'
<1>1. UNCHANGED <<cfg, bufferVars, kernelVars>>
  BY DEF EnterReturns, BeginDrain, HandleFatal, Stop, vars
<1>2. UNCHANGED <<pos, indexPool>>
  BY DEF EnterReturns, BeginDrain, HandleFatal, Stop, vars, drainVars, Types, Bounds
<1>3. Unhandled(Back)' = Unhandled(Back)  BY <1>1, <1>2 DEF kernelVars, Unhandled, Back
<1> QED BY <1>1, <1>2, <1>3, KeepOwned DEF bufferVars, kernelVars

LEMMA EndDrainOwned == ASSUME Types, Exclusive, Owned, EndDrain PROVE Owned'
<1>a. TypeOK /\ Bounds /\ pool \in Seq(Buffers) /\ indexPool \in Seq(Buffers)  BY DEF Types, TypeOK
<1>1. UNCHANGED <<cfg, sq, kern, held>> /\ pool' = pool \o indexPool /\ indexPool' = <<>>
      /\ capacity' = Grown(Len(pool'))
  BY DEF EndDrain
<1>2. /\ \A i \in 1 .. Len(cq) - pos : cq'[i] = cq[pos + i]
      /\ \A i : i \in Unhandled(Back)' <=> i \in Nat /\ pos + i \in Unhandled(Back)
      /\ Cardinality(Unhandled(Back)') = Cardinality(Unhandled(Back))
  BY <1>a, Released
<1>3. /\ NoRepeats(pool) /\ NoRepeats(indexPool) /\ SqApart(sq)
      /\ OneRequestEach(kern) /\ OneRequestEach(held) /\ BackApart /\ Partition(Buffers, Owner)
      /\ capacity = cfg.uring.buffer /\ Total = cfg.uring.buffer
  BY DEF Owned, Apart
<1>4. "indexPool" \in Kinds /\ "pool" \in Kinds /\ "indexPool" # "pool"  BY DEF Kinds
<1>5. ToSet(pool) \cap ToSet(indexPool) = {}
  <2>1. Owner["pool"] \cap Owner["indexPool"] = {}  BY <1>3, <1>4 DEF Partition
  <2> QED BY <2>1, OwnerIs
<1>6. /\ NoRepeats(pool') /\ ToSet(pool') = ToSet(pool) \cup ToSet(indexPool)
      /\ Len(pool') = Len(pool) + Len(indexPool)
  BY <1>a, <1>1, <1>3, <1>5, ConcatApart
<1>7. Len(indexPool') = 0 /\ ToSet(indexPool') = {} /\ NoRepeats(indexPool')
  BY <1>1 DEF ToSet, NoRepeats
<1>8. Len(cq) \in Nat /\ pos \in Nat  BY <1>a, UnhandledType
<1>9. \A i \in Unhandled(Back)' : cq'[i] = cq[pos + i] /\ pos + i \in Unhandled(Back) /\ i \in Nat
  <2> TAKE i \in Unhandled(Back)'
  <2>1. i \in Nat /\ pos + i \in Unhandled(Back)  BY <1>2
  <2>2. i \in 1 .. Len(cq) - pos  BY <1>8, <2>1 DEF Unhandled, Places
  <2> QED BY <1>2, <2>1, <2>2
<1>10. \A j \in Unhandled(Back) : j - pos \in Unhandled(Back)' /\ cq'[j - pos] = cq[j]
  <2> TAKE j \in Unhandled(Back)
  <2>1. j - pos \in Nat /\ pos + (j - pos) = j  BY <1>8 DEF Unhandled, Places
  <2>2. j - pos \in Unhandled(Back)'  BY <1>2, <2>1
  <2> QED BY <1>9, <2>1, <2>2
<1>11. BackBufs' = BackBufs
  <2>1. BackBufs' = {cq'[i].buf : i \in Unhandled(Back)'}  BY DEF BackBufs, Unhandled, Back
  <2>2. BackBufs' \subseteq BackBufs  BY <2>1, <1>9 DEF BackBufs
  <2>3. BackBufs \subseteq BackBufs'  BY <2>1, <1>10 DEF BackBufs
  <2> QED BY <2>2, <2>3
<1>12. BackApart'
  <2>1. ASSUME NEW i \in Unhandled(Back)', NEW j \in Unhandled(Back)', cq'[i].buf = cq'[j].buf
        PROVE  i = j
    <3>1. pos + i = pos + j  BY <2>1, <1>3, <1>9 DEF BackApart
    <3> QED BY <3>1, <1>8, <1>9
  <2> QED BY <2>1 DEF BackApart, Unhandled, Back
<1>13. Partition(Buffers, Owner')
  <2> DEFINE X == ToSet(indexPool)
  <2>1. /\ X \subseteq Owner["indexPool"] /\ Owner'["indexPool"] = Owner["indexPool"] \ X
        /\ Owner'["pool"] = Owner["pool"] \cup X
    BY <1>6, <1>7, OwnerIs, OwnerWillBe
  <2>2. \A k \in Kinds \ {"indexPool", "pool"} : Owner'[k] = Owner[k]
    BY <1>1, <1>11, OwnerIs, OwnerWillBe DEF Kinds
  <2> HIDE DEF X
  <2> QED BY <1>3, <1>4, <2>1, <2>2, Moved
<1>14. /\ Len(pool) \in Nat /\ Len(indexPool) \in Nat /\ Queued \in Nat /\ Cardinality(held) \in Nat
       /\ Cardinality(Unhandled(Back)) \in Nat
  BY <1>a, Quantities, UnhandledType DEF Bounds
<1>15. Total' = Total
  <2>1. Queued' = Queued  BY <1>1 DEF Queued
  <2> QED BY <1>1, <1>2, <1>6, <1>7, <1>14, <2>1 DEF Total
<1>16. capacity' = capacity
  <2>1. Len(pool) + Len(indexPool) <= capacity  BY <1>3, <1>14 DEF Total
  <2> QED BY <1>1, <1>6, <2>1 DEF Grown
<1> QED BY <1>1, <1>3, <1>6, <1>7, <1>12, <1>13, <1>15, <1>16 DEF Owned, Apart, Buffers

LEMMA InitOwned == ASSUME Init PROVE Owned
<1>a. TypeOK  BY InitTypes DEF Types
<1> DEFINE n == cfg.uring.buffer
<1>1. n \in Nat  BY <1>a, Parameter DEF TypeOK
<1>2. /\ pool = [i \in 1 .. n |-> i - 1] /\ capacity = n
      /\ sq = <<>> /\ kern = {} /\ held = {} /\ cq = <<>> /\ indexPool = <<>> /\ pos = 0
      /\ Buffers = 0 .. (n - 1)
  BY DEF Init, Buffers
<1>3. pool \in Seq(Buffers)  BY <1>a DEF TypeOK
<1> HIDE DEF n
<1>4. Len(pool) = n  BY <1>1, <1>2, <1>3
<1>5. ToSet(pool) = Buffers
  <2>1. ToSet(pool) = {pool[i] : i \in 1 .. n}  BY <1>3, <1>4, Members
  <2>2. \A i \in 1 .. n : pool[i] = i - 1  BY <1>2
  <2>3. \A b \in 0 .. (n - 1) : b + 1 \in 1 .. n /\ pool[b + 1] = b  BY <1>1, <2>2
  <2>4. Buffers \subseteq ToSet(pool)  BY <1>2, <2>1, <2>3
  <2> QED BY <1>3, <2>4, Members
<1>6. NoRepeats(pool)  BY <1>1, <1>2, <1>4 DEF NoRepeats
<1>7. Unhandled(Back) = {}  BY <1>2 DEF Unhandled, Places
<1>8. /\ NoRepeats(indexPool) /\ SqApart(sq) /\ OneRequestEach(kern) /\ OneRequestEach(held) /\ BackApart
  BY <1>2, <1>7 DEF NoRepeats, SqApart, OneRequestEach, BackApart
<1>9. Total = n  BY <1>1, <1>2, <1>4, <1>7, FS_EmptySet DEF Total, Queued
<1>10. /\ Owner["pool"] = Buffers
       /\ \A k \in Kinds \ {"pool"} : Owner[k] = {}
  BY <1>2, <1>5, <1>7, OwnerIs DEF Kinds, ToSet, Bufs, BackBufs
<1>11. Partition(Buffers, Owner)  BY <1>10 DEF Partition, Kinds
<1> QED BY <1>2, <1>6, <1>8, <1>9, <1>11 DEF Owned, Apart, n

ExclusiveOwned == Exclusive => Owned

LEMMA StepOwned == ASSUME Types, Ledger, ExclusiveOwned, [Next]_vars PROVE ExclusiveOwned'
<1>1. cfg' = cfg
  BY DEF Next, LoopStep, KernelStep, FillNormal, FillZc, EnterReturns, BeginDrain, HandleSent,
         HandleAgain, HandleNotif, HandleFatal, EndDrain, Issue, SendLater, Notify, Stop, vars
<1> SUFFICES ASSUME Exclusive PROVE Owned'
  BY <1>1 DEF ExclusiveOwned, Exclusive, Guarded
<1>2. Owned  BY DEF ExclusiveOwned
<1>3. ~FillNormal  BY DEF FillNormal, Exclusive
<1> QED
  BY <1>2, <1>3, IssueOwned, SendLaterOwned, NotifyOwned, FillZcOwned, HandleSentOwned,
     HandleBackOwned, EndDrainOwned, QuietOwned
     DEF Next, LoopStep, KernelStep

LEMMA AlwaysOwned == Spec => []ExclusiveOwned
<1>1. Init => ExclusiveOwned  BY InitOwned DEF ExclusiveOwned
<1>2. Types /\ Ledger /\ ExclusiveOwned /\ [Next]_vars => ExclusiveOwned'  BY StepOwned
<1> QED BY <1>1, <1>2, AlwaysTypes, AlwaysLedger, PTL DEF Spec

LEMMA OwnedOnce == ASSUME Types, ExclusiveOwned PROVE EachBufferOnce
<1> SUFFICES ASSUME Exclusive
             PROVE  LET back == Unhandled({"notif", "EAGAIN", "errno"})
                    IN  /\ Len(pool) + Len(indexPool) + Len(sq) + Cardinality(kern) + Cardinality(held)
                             + Cardinality(back) = cfg.uring.buffer
                        /\ ToSet(pool) \cup ToSet(indexPool)
                             \cup {r.buf : r \in ToSet(sq) \cup kern \cup held}
                             \cup {cq[i].buf : i \in back} = Buffers
  BY DEF EachBufferOnce, Exclusive
<1>1. Owned /\ Back = {"notif", "EAGAIN", "errno"}  BY DEF ExclusiveOwned, Back
<1>2. /\ Len(pool) \in Nat /\ Len(indexPool) \in Nat /\ Len(sq) \in Nat /\ Cardinality(kern) \in Nat
      /\ Cardinality(held) \in Nat /\ Cardinality(Unhandled(Back)) \in Nat
  BY Quantities, UnhandledType DEF Types, Bounds
<1>3. Len(pool) + Len(indexPool) + Len(sq) + Cardinality(kern) + Cardinality(held)
        + Cardinality(Unhandled(Back)) = cfg.uring.buffer
  BY <1>1, <1>2 DEF Owned, Total, Queued
<1>4. UNION {Owner[k] : k \in Kinds} = Buffers  BY <1>1 DEF Owned, Partition
<1>5. UNION {Owner[k] : k \in Kinds} = Owner["pool"] \cup Owner["indexPool"] \cup Owner["sq"]
         \cup Owner["kern"] \cup Owner["held"] \cup Owner["back"]
  BY DEF Kinds
<1>6. Bufs(ToSet(sq)) \cup Bufs(kern) \cup Bufs(held) = {r.buf : r \in ToSet(sq) \cup kern \cup held}
  BY DEF Bufs
<1>7. ToSet(pool) \cup ToSet(indexPool) \cup {r.buf : r \in ToSet(sq) \cup kern \cup held}
        \cup BackBufs = Buffers
  BY <1>4, <1>5, <1>6, OwnerIs
<1> QED BY <1>1, <1>3, <1>7 DEF BackBufs

(* No buffer of the zero-copy mode is lost and none is given out twice,    *)
(* however completions and notifications arrive.                           *)
THEOREM BuffersAreConserved == Spec => []EachBufferOnce
<1>1. Types /\ ExclusiveOwned => EachBufferOnce  BY OwnedOnce
<1> QED BY <1>1, AlwaysTypes, AlwaysOwned, PTL
-----------------------------------------------------------------------------
(* A buffer keeps its ids as long as a request refers to it: in zero-copy  *)
(* mode because only buffers of the pool are stamped, in normal mode       *)
(* because nothing is left of the last round.                              *)

Requests == ToSet(sq) \cup kern \cup held
Quiet == ~cfg.zerocopy => kern = {} /\ held = {} /\ (pc # "enter" => sq = <<>>)
Settled == Guarded => Quiet /\ BuffersStable

LEMMA RequestsStay ==
  ASSUME BuffersStable, stamp' = stamp, Requests' \subseteq Requests
  PROVE  BuffersStable'
BY DEF BuffersStable, Requests

LEMMA IssueSettled == ASSUME Types, Guarded, Quiet, BuffersStable, Issue PROVE Quiet' /\ BuffersStable'
<1>a. TypeOK /\ sq # <<>> /\ sq' = Tail(sq) /\ sq \in Seq(Request)  BY DEF Types, Issue, TypeOK
<1>1. UNCHANGED <<cfg, stamp, pc>>  BY DEF Issue, bufferVars
<1>2. ToSet(sq) = ToSet(sq') \cup {Head(sq)}  BY <1>a, HeadLeaves
<1>3. CASE Execute(Head(sq)) /\ UNCHANGED kern
  <2>1. PICK res \in {"bytes", "EAGAIN", "errno"} : Effect(Head(sq), res)
    BY <1>a, <1>3, ExecuteEffect
  <2>2. held' \subseteq held \cup {Head(sq)} /\ (~cfg.zerocopy => held' = held)
    BY <2>1 DEF Effect
  <2>3. Requests' \subseteq Requests  BY <1>2, <1>3, <2>2 DEF Requests
  <2>4. ~cfg.zerocopy => pc = "enter"  BY DEF Issue, Guarded
  <2> QED BY <1>1, <1>3, <2>2, <2>3, <2>4, RequestsStay DEF Quiet
<1>4. CASE /\ cfg.deferred
           /\ kern' = kern \cup {Head(sq)}
           /\ UNCHANGED <<held, cq, wire, dropped>>
  <2>1. Requests' \subseteq Requests  BY <1>2, <1>4 DEF Requests
  <2>2. cfg.zerocopy  BY <1>4 DEF Guarded
  <2> QED BY <1>1, <2>1, <2>2, RequestsStay DEF Quiet
<1> QED BY <1>3, <1>4 DEF Issue

LEMMA SendLaterSettled ==
  ASSUME Types, Quiet, BuffersStable, SendLater
  PROVE  Quiet' /\ BuffersStable'
<1>1. PICK r \in kern : kern' = kern \ {r} /\ Execute(r)  BY DEF SendLater
<1>2. UNCHANGED <<cfg, stamp, sq, pc>>  BY DEF SendLater, bufferVars
<1>3. PICK res \in {"bytes", "EAGAIN", "errno"} : Effect(r, res)  BY <1>1, ExecuteEffect DEF Types
<1>4. held' \subseteq held \cup {r}  BY <1>3 DEF Effect
<1>5. Requests' \subseteq Requests  BY <1>1, <1>2, <1>4 DEF Requests
<1>6. cfg.zerocopy  BY <1>1 DEF Quiet
<1> QED BY <1>2, <1>5, <1>6, RequestsStay DEF Quiet

LEMMA NotifySettled == ASSUME Quiet, BuffersStable, Notify PROVE Quiet' /\ BuffersStable'
<1>1. UNCHANGED <<cfg, stamp, sq, kern, pc>> /\ held' \subseteq held  BY DEF Notify, bufferVars
<1>2. Requests' \subseteq Requests  BY <1>1 DEF Requests
<1> QED BY <1>1, <1>2, RequestsStay DEF Quiet

LEMMA FillNormalSettled ==
  ASSUME Types, Guarded, Quiet, FillNormal
  PROVE  Quiet' /\ BuffersStable'
<1>1. /\ ~cfg.zerocopy /\ UNCHANGED <<cfg, kern, held>> /\ AfterFill
      /\ sq = <<>> /\ kern = {} /\ held = {}
  BY DEF FillNormal, Quiet
<1>2. PICK k \in Nat :
        /\ k <= Wanted /\ Len(sq') = Len(sq) + k /\ sq' \in Seq(Request)
        /\ \A i \in 1 .. k : /\ i - 1 \in Buffers /\ i - 1 < Wanted
                             /\ sq'[Len(sq) + i] = [buf |-> i - 1, id |-> nextId + (i - 1) * cfg.packets]
  BY FillNormalQueue
<1>3. Len(sq') = k /\ \A i \in 1 .. k : Len(sq) + i = i  BY <1>1, <1>2
<1>4. stamp' = [b \in Buffers |-> IF b < Wanted THEN nextId + b * cfg.packets ELSE stamp[b]]
  BY DEF FillNormal
<1>5. BuffersStable'
  <2>1. Requests' = ToSet(sq') /\ ToSet(sq') = {sq'[i] : i \in 1 .. k}
    BY <1>1, <1>2, <1>3, Members DEF Requests
  <2>2. \A i \in 1 .. k : stamp'[sq'[i].buf] = sq'[i].id
    <3> TAKE i \in 1 .. k
    <3> DEFINE e == nextId + (i - 1) * cfg.packets
    <3>1. stamp'[i - 1] = e /\ sq'[i] = [buf |-> i - 1, id |-> e]  BY <1>2, <1>3, <1>4
    <3> HIDE DEF e
    <3> QED BY <3>1
  <2> QED BY <2>1, <2>2 DEF BuffersStable, Requests
<1>6. Quiet'
  <2> SUFFICES ASSUME pc' # "enter" PROVE sq' = <<>>
    BY <1>1 DEF Quiet
  <2>1. SkipEnter(PoolInflight, Len(sq), cq = <<>>, cfg.uring)  BY <1>1 DEF AfterFill
  <2>2. ToSubmit(PoolInflight, Len(sq), cfg.uring) = 0  BY <2>1 DEF SkipEnter
  <2>3. Wanted \in Nat /\ Wanted <= 0  BY <2>2, WantedType DEF Types
  <2>4. Len(sq') = 0  BY <1>2, <1>3, <2>3
  <2> QED BY <1>2, <2>4, EmptySeq
<1> QED BY <1>5, <1>6

LEMMA FillZcSettled ==
  ASSUME Types, Exclusive, Owned, BuffersStable, FillZc
  PROVE  Quiet' /\ BuffersStable'
<1>a. TypeOK /\ pool \in Seq(Buffers) /\ sq \in Seq(Request)  BY DEF Types, TypeOK
<1>1. PICK k \in Nat : FillZcQueue(k, k)  BY FillZcPops
<1>2. UNCHANGED <<cfg, kern, held>> /\ cfg.zerocopy  BY DEF FillZc
<1>3. Quiet'  BY <1>2 DEF Quiet
<1> DEFINE l == Len(pool)
           n == Len(sq)
           Popped(i) == pool[l + 1 - i]
           IdOf(i) == nextId + (i - 1) * cfg.packets
<1>4. /\ sq' \in Seq(Request) /\ Len(sq') = n + k /\ \A i \in 1 .. n : sq'[i] = sq[i]
      /\ \A i \in 1 .. k : l + 1 - i \in 1 .. l /\ sq'[n + i] = [buf |-> Popped(i), id |-> IdOf(i)]
      /\ \A b \in Buffers :
           \/ stamp'[b] = stamp[b] /\ \A i \in 1 .. k : Popped(i) # b
           \/ \E i \in 1 .. k : Popped(i) = b /\ stamp'[b] = IdOf(i)
  BY <1>1 DEF FillZcQueue
<1>5. n \in Nat /\ l \in Nat  BY <1>a, LenProperties
<1>6. NoRepeats(pool) /\ Partition(Buffers, Owner)  BY DEF Owned, Apart
<1>7. ToSet(pool) \cap {r.buf : r \in Requests} = {}
  <2>1. {"pool", "sq", "kern", "held"} \subseteq Kinds  BY DEF Kinds
  <2>2. /\ Owner["pool"] \cap Owner["sq"] = {} /\ Owner["pool"] \cap Owner["kern"] = {}
        /\ Owner["pool"] \cap Owner["held"] = {}
    BY <1>6, <2>1 DEF Partition
  <2> QED BY <2>2, OwnerIs DEF Bufs, Requests
<1>8. /\ ToSet(pool) = {pool[i] : i \in 1 .. l} /\ ToSet(sq) = {sq[i] : i \in 1 .. n}
      /\ ToSet(sq') = {sq'[i] : i \in 1 .. n + k}
  BY <1>a, <1>4, Members
<1>9. \A i, j \in 1 .. k : Popped(i) = Popped(j) => i = j
  <2> TAKE i, j \in 1 .. k
  <2> HAVE Popped(i) = Popped(j)
  <2>1. l + 1 - i = l + 1 - j  BY <1>4, <1>6 DEF NoRepeats
  <2> QED BY <1>5, <2>1
<1>10. \A i \in 1 .. k : Popped(i) \in ToSet(pool) /\ Popped(i) \in Buffers
  <2> TAKE i \in 1 .. k
  <2>1. l + 1 - i \in 1 .. l  BY <1>4
  <2>2. Popped(i) \in ToSet(pool)  BY <1>8, <2>1
  <2> QED BY <1>a, <2>2, Members
<1>11. \A r \in Requests : r.buf \in Buffers /\ r.buf \notin ToSet(pool)
  <2>1. Requests \subseteq Request  BY <1>a, Members DEF Requests, TypeOK
  <2> QED BY <1>7, <2>1 DEF Request
<1> HIDE DEF Popped, IdOf, l
<1>12. \A r \in Requests : stamp'[r.buf] = r.id
  BY <1>4, <1>10, <1>11 DEF BuffersStable, Requests
<1> HIDE DEF n
<1>13. \A i \in 1 .. k : stamp'[sq'[n + i].buf] = sq'[n + i].id
  <2> TAKE i \in 1 .. k
  <2>0. sq'[n + i] = [buf |-> Popped(i), id |-> IdOf(i)]  BY <1>4
  <2>1. sq'[n + i].buf = Popped(i) /\ sq'[n + i].id = IdOf(i)  BY <2>0
  <2>2. stamp'[Popped(i)] = IdOf(i)  BY <1>4, <1>9, <1>10
  <2> QED BY <2>1, <2>2
<1>14. \A i \in 1 .. n + k : i \in 1 .. n \/ \E j \in 1 .. k : i = n + j
  <2> SUFFICES ASSUME NEW i \in 1 .. n + k, i \notin 1 .. n PROVE \E j \in 1 .. k : i = n + j
    OBVIOUS
  <2>1. i - n \in 1 .. k /\ i = n + (i - n)  BY <1>5
  <2> QED BY <2>1
<1>15. \A r \in ToSet(sq') : stamp'[r.buf] = r.id
  <2> TAKE r \in ToSet(sq')
  <2>1. PICK i \in 1 .. n + k : r = sq'[i]  BY <1>8
  <2>2. CASE i \in 1 .. n
    <3>1. r \in Requests  BY <1>4, <1>8, <2>1, <2>2 DEF Requests
    <3> QED BY <1>12, <3>1
  <2>3. CASE i \notin 1 .. n  BY <1>13, <1>14, <2>1, <2>3
  <2> QED BY <2>2, <2>3
<1>16. BuffersStable'  BY <1>2, <1>12, <1>15 DEF BuffersStable, Requests
<1> QED BY <1>3, <1>16

LEMMA QuietSettled ==
  ASSUME Quiet, BuffersStable,
         \/ EnterReturns \/ BeginDrain \/ HandleSent \/ HandleAgain \/ HandleNotif \/ HandleFatal
         \/ EndDrain \/ Stop \/ UNCHANGED vars,
         Guarded
  PROVE  Quiet' /\ BuffersStable'
<1>1. UNCHANGED <<cfg, stamp, sq, kern, held>>
  BY DEF EnterReturns, BeginDrain, HandleSent, HandleAgain, HandleNotif, HandleFatal, EndDrain,
         Stop, vars, bufferVars, kernelVars
<1>2. BuffersStable'  BY <1>1 DEF BuffersStable
<1>3. ~cfg.zerocopy => (pc # "enter" \/ pc' = "enter" \/ sq = <<>>)
  BY DEF EnterReturns, BeginDrain, HandleSent, HandleAgain, HandleNotif, HandleFatal, EndDrain,
         Stop, vars, Guarded, AtCqe
<1> QED BY <1>1, <1>2, <1>3 DEF Quiet

LEMMA ConfigFixed == ASSUME [Next]_vars PROVE cfg' = cfg
BY DEF Next, LoopStep, KernelStep, FillNormal, FillZc, EnterReturns, BeginDrain, HandleSent,
       HandleAgain, HandleNotif, HandleFatal, EndDrain, Issue, SendLater, Notify, Stop, vars

LEMMA StepSettled ==
  ASSUME Types, ExclusiveOwned, Settled, [Next]_vars
  PROVE  Settled'
<1> SUFFICES ASSUME Guarded PROVE Quiet' /\ BuffersStable'
  BY ConfigFixed DEF Settled, Guarded
<1>1. Quiet /\ BuffersStable  BY DEF Settled
<1>2. ASSUME FillZc PROVE Quiet' /\ BuffersStable'
  <2>1. Exclusive /\ Owned  BY <1>2 DEF FillZc, Exclusive, ExclusiveOwned
  <2> QED BY <1>1, <1>2, <2>1, FillZcSettled
<1> QED
  BY <1>1, <1>2, IssueSettled, SendLaterSettled, NotifySettled, FillNormalSettled, QuietSettled
     DEF Next, LoopStep, KernelStep

LEMMA AlwaysSettled == Spec => []Settled
<1>1. Init => Settled
  <2> SUFFICES ASSUME Init PROVE Quiet /\ BuffersStable  BY DEF Settled
  <2>1. ToSet(sq) = {} /\ kern = {} /\ held = {} /\ sq = <<>>  BY DEF Init, ToSet
  <2> QED BY <2>1 DEF Quiet, BuffersStable
<1>2. Types /\ ExclusiveOwned /\ Settled /\ [Next]_vars => Settled'  BY StepSettled
<1> QED BY <1>1, <1>2, AlwaysTypes, AlwaysOwned, PTL DEF Spec

(* A buffer that a request refers to is not stamped again.                 *)
THEOREM BuffersKeepIds == Spec => []StableIfGuarded
<1>1. Settled => StableIfGuarded  BY DEF Settled, StableIfGuarded
<1> QED BY <1>1, AlwaysSettled, PTL
-----------------------------------------------------------------------------
(* The ids given out are the first multiples of cfg.packets; each is on    *)
(* the wire, in a request or failed.                                       *)

Underway == {r.id : r \in ToSet(sq) \cup kern}
Count == Len(wire) + Queued + Cardinality(dropped)
AllIds == ToSet(wire) \cup Underway \cup dropped
Multiples(p, c) == {p * j : j \in 0 .. c - 1}
Numbered == nextId = cfg.packets * Count /\ AllIds = Multiples(cfg.packets, Count)
Accounted == Guarded => Numbered

LEMMA Quotient ==
  ASSUME NEW p \in Nat \ {0}, NEW c \in Nat
  PROVE  (p * c) \div p = c /\ (p * c) % p = 0 /\ p * c \in Nat
OBVIOUS

LEMMA MultiplesAre ==
  ASSUME NEW p \in Nat \ {0}, NEW c \in Nat
  PROVE  Multiples(p, c) = {i \in 0 .. p * c - 1 : i % p = 0}
<1>1. ASSUME NEW j \in 0 .. c - 1 PROVE p * j \in 0 .. p * c - 1 /\ (p * j) % p = 0
  <2>1. p * j \in Nat /\ p * c \in Nat /\ p * j < p * c  BY <1>1
  <2>2. (p * j) % p = 0  BY Quotient
  <2> QED BY <2>1, <2>2
<1>2. ASSUME NEW i \in 0 .. p * c - 1, i % p = 0 PROVE \E j \in 0 .. c - 1 : i = p * j
  <2>1. i \in Nat /\ p * c \in Nat /\ i < p * c  OBVIOUS
  <2> DEFINE j == i \div p
  <2>2. j \in Nat /\ i = p * j + (i % p)  BY <2>1
  <2> HIDE DEF j
  <2>3. i = p * j  BY <1>2, <2>2
  <2>4. j < c  BY <2>1, <2>2, <2>3
  <2>5. j \in 0 .. c - 1  BY <2>2, <2>4
  <2> QED BY <2>3, <2>5, Zenon
<1> QED BY <1>1, <1>2 DEF Multiples

LEMMA AppendToSet ==
  ASSUME NEW S, NEW s \in Seq(S), NEW x \in S
  PROVE  Len(Append(s, x)) = Len(s) + 1 /\ ToSet(Append(s, x)) = ToSet(s) \cup {x}
<1> DEFINE t == Append(s, x)
           n == Len(s)
<1>1. /\ t \in Seq(S) /\ Len(t) = n + 1 /\ n \in Nat
      /\ \A i \in 1 .. n : t[i] = s[i]
  BY AppendProperties, LenProperties
<1>2. t[n + 1] = x  BY AppendProperties
<1>3. ToSet(s) = {s[i] : i \in 1 .. n} /\ ToSet(t) = {t[i] : i \in 1 .. n + 1}
  BY <1>1, Members
<1> HIDE DEF t, n
<1>4. /\ \A i \in 1 .. n + 1 : i \in 1 .. n \/ i = n + 1
      /\ \A i \in 1 .. n : i \in 1 .. n + 1 /\ t[i] = s[i]
      /\ n + 1 \in 1 .. n + 1
  BY <1>1
<1>5. ToSet(t) \subseteq ToSet(s) \cup {x}  BY <1>2, <1>3, <1>4
<1>6. ToSet(s) \cup {x} \subseteq ToSet(t)  BY <1>2, <1>3, <1>4
<1> QED BY <1>1, <1>5, <1>6 DEF t, n

LEMMA CountNat ==
  ASSUME TypeOK, Bounds
  PROVE  Count \in Nat /\ Len(wire) \in Nat /\ Queued \in Nat /\ Cardinality(dropped) \in Nat
<1>1. Cardinality(dropped) \in Nat  BY FS_CardinalityType DEF Bounds
<1> QED BY <1>1, Quantities, LenProperties, SMTT(30) DEF TypeOK, Count, Bounds

(* A request that was underway is sent, with its own ids, or fails.        *)
LEMMA ExecuteNumbered ==
  ASSUME Types, Numbered, NEW r \in Request, NEW res \in {"bytes", "EAGAIN", "errno"}, Effect(r, res),
         stamp[r.buf] = r.id, r.id \notin dropped, Queued' = Queued - 1,
         Underway = Underway' \cup {r.id}, UNCHANGED <<cfg, nextId>>
  PROVE  Numbered'
<1>a. TypeOK /\ Bounds /\ wire \in Seq(Nat) /\ IsFiniteSet(dropped)  BY DEF Types, TypeOK, Bounds
<1>1. Count \in Nat /\ Len(wire) \in Nat /\ Queued \in Nat /\ Cardinality(dropped) \in Nat
  BY <1>a, CountNat
<1>2. CASE res = "bytes"
  <2>1. wire' = Append(wire, r.id) /\ dropped' = dropped  BY <1>2 DEF Effect
  <2>2. r.id \in Nat  BY DEF Request
  <2>3. Len(wire') = Len(wire) + 1 /\ ToSet(wire') = ToSet(wire) \cup {r.id}
    BY <1>a, <2>1, <2>2, AppendToSet
  <2>4. Count' = Count  BY <1>1, <2>1, <2>3 DEF Count
  <2>5. AllIds' = AllIds  BY <2>1, <2>3 DEF AllIds
  <2> QED BY <2>4, <2>5 DEF Numbered
<1>3. CASE res # "bytes"
  <2>1. wire' = wire /\ dropped' = dropped \cup {r.id}  BY <1>3 DEF Effect
  <2>2. Cardinality(dropped') = Cardinality(dropped) + 1  BY <1>a, <2>1, AddOne
  <2>3. Count' = Count  BY <1>1, <2>1, <2>2 DEF Count
  <2>4. AllIds' = AllIds  BY <2>1 DEF AllIds
  <2> QED BY <2>3, <2>4 DEF Numbered
<1> QED BY <1>2, <1>3

LEMMA IssueNumbered ==
  ASSUME Types, IdsOrdered, BuffersStable, Numbered, Issue
  PROVE  Numbered'
<1>a. /\ TypeOK /\ Bounds /\ sq # <<>> /\ sq' = Tail(sq) /\ sq \in Seq(Request)
      /\ UNCHANGED <<cfg, nextId>>
  BY DEF Types, Issue, TypeOK
<1>1. Head(sq) \in Request /\ Len(sq') = Len(sq) - 1 /\ Len(sq) \in Nat /\ Cardinality(kern) \in Nat
  BY <1>a, QueueHead, Quantities DEF Bounds
<1>2. ToSet(sq) = ToSet(sq') \cup {Head(sq)}  BY <1>a, HeadLeaves
<1>3. Head(sq).id \notin dropped /\ Head(sq) \notin kern  BY <1>a, OrderTail DEF AtHand
<1>4. CASE Execute(Head(sq)) /\ UNCHANGED kern
  <2>1. PICK res \in {"bytes", "EAGAIN", "errno"} : Effect(Head(sq), res)
    BY <1>a, <1>4, ExecuteEffect
  <2>2. Queued' = Queued - 1  BY <1>1, <1>4 DEF Queued
  <2>3. stamp[Head(sq).buf] = Head(sq).id  BY <1>2 DEF BuffersStable
  <2>4. Underway = Underway' \cup {Head(sq).id}  BY <1>2, <1>4 DEF Underway
  <2> QED BY <1>a, <1>1, <1>3, <2>1, <2>2, <2>3, <2>4, ExecuteNumbered
<1>5. CASE /\ cfg.deferred
           /\ kern' = kern \cup {Head(sq)}
           /\ UNCHANGED <<held, cq, wire, dropped>>
  <2>1. Cardinality(kern') = Cardinality(kern) + 1  BY <1>a, <1>3, <1>5, AddOne DEF Bounds
  <2>2. Queued' = Queued  BY <1>1, <2>1 DEF Queued
  <2>3. Underway' = Underway  BY <1>2, <1>5 DEF Underway
  <2> QED BY <1>a, <1>5, <2>2, <2>3 DEF Numbered, Count, AllIds
<1> QED BY <1>4, <1>5 DEF Issue

LEMMA SendLaterNumbered ==
  ASSUME Types, IdsOrdered, BuffersStable, Numbered, SendLater
  PROVE  Numbered'
<1>a. TypeOK /\ Bounds  BY DEF Types
<1>1. PICK r \in kern : kern' = kern \ {r} /\ Execute(r)  BY DEF SendLater
<1>2. UNCHANGED <<cfg, nextId, sq>>  BY DEF SendLater
<1>3. r \in Request /\ Queued' = Queued - 1  BY <1>a, <1>1, <1>2, PutOff
<1>4. PICK res \in {"bytes", "EAGAIN", "errno"} : Effect(r, res)  BY <1>a, <1>1, ExecuteEffect
<1>5. r.id \notin dropped  BY OrderPutOff DEF AtHand
<1>6. stamp[r.buf] = r.id  BY DEF BuffersStable
<1>7. Underway = Underway' \cup {r.id}  BY <1>1, <1>2 DEF Underway
<1> QED BY <1>2, <1>3, <1>4, <1>5, <1>6, <1>7, ExecuteNumbered

(* New requests take the next multiples.                                   *)
LEMMA SubmitNumbered ==
  ASSUME Types, Numbered, NEW k \in Nat,
         sq' \in Seq(Request), Len(sq') = Len(sq) + k,
         \A i \in 1 .. Len(sq) : sq'[i] = sq[i],
         \A i \in 1 .. k : sq'[Len(sq) + i].id = nextId + (i - 1) * cfg.packets,
         nextId' = nextId + k * cfg.packets,
         UNCHANGED <<cfg, kern, wire, dropped>>
  PROVE  Numbered'
<1>a. TypeOK /\ Bounds /\ sq \in Seq(Request)  BY DEF Types, TypeOK
<1> DEFINE p == cfg.packets
           n == Len(sq)
           c == Count
<1>1. p \in Nat \ {0} /\ n \in Nat /\ c \in Nat  BY <1>a, CountNat, Parameter, LenProperties DEF TypeOK
<1>2. nextId = p * c /\ AllIds = Multiples(p, c)  BY DEF Numbered
<1>3. \A j \in Nat : p * c + j * p = p * (c + j)  BY <1>1
<1>4. Count' = c + k
  <2>1. Len(wire) \in Nat /\ Cardinality(dropped) \in Nat /\ Cardinality(kern) \in Nat
    BY <1>a, CountNat, Quantities DEF Bounds
  <2> QED BY <1>1, <2>1 DEF Count, Queued
<1>5. nextId' = p * (c + k)  BY <1>2, <1>3
<1>6. \A i \in 1 .. k : sq'[n + i].id = p * (c + (i - 1))
  <2> TAKE i \in 1 .. k
  <2>1. i - 1 \in Nat /\ sq'[n + i].id = nextId + (i - 1) * p  OBVIOUS
  <2> QED BY <1>2, <1>3, <2>1
<1>7. ToSet(sq) = {sq[i] : i \in 1 .. n} /\ ToSet(sq') = {sq'[i] : i \in 1 .. n + k}
  BY <1>a, Members
<1>8. \A i \in 1 .. n : sq'[i] = sq[i]  OBVIOUS
<1> HIDE DEF p, n, c
<1> DEFINE f(j) == p * j
           New == {f(c + (i - 1)) : i \in 1 .. k}
<1>m. \A d, x : x \in Multiples(p, d) <=> \E j \in 0 .. d - 1 : x = f(j)  BY DEF Multiples
<1>f. \A i \in 1 .. k : sq'[n + i].id = f(c + (i - 1))  BY <1>6
<1> HIDE DEF f
<1>9. \A i \in 1 .. n + k : i \in 1 .. n \/ \E j \in 1 .. k : i = n + j
  <2> SUFFICES ASSUME NEW i \in 1 .. n + k, i \notin 1 .. n PROVE \E j \in 1 .. k : i = n + j
    OBVIOUS
  <2>1. i - n \in 1 .. k /\ i = n + (i - n)  BY <1>1
  <2> QED BY <2>1
<1>10. {r.id : r \in ToSet(sq')} = {r.id : r \in ToSet(sq)} \cup New
  <2>1. ASSUME NEW i \in 1 .. n + k PROVE sq'[i].id \in {r.id : r \in ToSet(sq)} \cup New
    <3>1. CASE i \in 1 .. n  BY <3>1, <1>7, <1>8
    <3>2. CASE i \notin 1 .. n  BY <3>2, <1>f, <1>9, SMTT(30)
    <3> QED BY <3>1, <3>2
  <2>2. ASSUME NEW i \in 1 .. n PROVE sq[i].id \in {r.id : r \in ToSet(sq')}
    <3>1. i \in 1 .. n + k  BY <1>1
    <3> QED BY <3>1, <1>7, <1>8
  <2>3. ASSUME NEW i \in 1 .. k PROVE f(c + (i - 1)) \in {r.id : r \in ToSet(sq')}
    <3>1. n + i \in 1 .. n + k  BY <1>1
    <3> QED BY <3>1, <1>f, <1>7
  <2>4. {r.id : r \in ToSet(sq')} \subseteq {r.id : r \in ToSet(sq)} \cup New  BY <1>7, <2>1
  <2>5. {r.id : r \in ToSet(sq)} \subseteq {r.id : r \in ToSet(sq')}  BY <1>7, <2>2
  <2>6. New \subseteq {r.id : r \in ToSet(sq')}  BY <2>3
  <2> QED BY <2>4, <2>5, <2>6
<1>11. AllIds' = AllIds \cup New
  <2> HIDE DEF New
  <2>1. /\ Underway = {r.id : r \in ToSet(sq)} \cup {r.id : r \in kern}
        /\ Underway' = {r.id : r \in ToSet(sq')} \cup {r.id : r \in kern}
    BY DEF Underway
  <2>2. Underway' = Underway \cup New  BY <1>10, <2>1
  <2> QED BY <2>2 DEF AllIds
<1>12. Multiples(p, c + k) = Multiples(p, c) \cup New
  <2>1. ASSUME NEW j \in 0 .. (c + k) - 1 PROVE f(j) \in Multiples(p, c) \cup New
    <3>1. CASE j < c
      <4>1. j \in 0 .. c - 1  BY <1>1, <3>1
      <4> QED BY <4>1, <1>m
    <3>2. CASE ~(j < c)
      <4>1. j - c + 1 \in 1 .. k /\ c + ((j - c + 1) - 1) = j  BY <1>1, <3>2
      <4> QED BY <4>1
    <3> QED BY <3>1, <3>2
  <2>2. 0 .. c - 1 \subseteq 0 .. (c + k) - 1  BY <1>1
  <2>3. \A i \in 1 .. k : c + (i - 1) \in 0 .. (c + k) - 1  BY <1>1
  <2>4. New \subseteq Multiples(p, c + k)  BY <2>3, <1>m
  <2>5. Multiples(p, c) \subseteq Multiples(p, c + k)  BY <2>2, <1>m
  <2>6. Multiples(p, c + k) \subseteq Multiples(p, c) \cup New
    <3> SUFFICES ASSUME NEW x \in Multiples(p, c + k) PROVE x \in Multiples(p, c) \cup New
      OBVIOUS
    <3>1. PICK j \in 0 .. (c + k) - 1 : x = f(j)  BY <1>m
    <3> QED BY <2>1, <3>1
  <2> QED BY <2>4, <2>5, <2>6
<1>13. AllIds' = Multiples(p, c + k)  BY <1>2, <1>11, <1>12
<1> QED BY <1>4, <1>5, <1>13 DEF Numbered, p

LEMMA FillNumbered ==
  ASSUME Types, ExclusiveOwned, Guarded, Numbered, FillNormal \/ FillZc
  PROVE  Numbered'
<1>1. UNCHANGED <<cfg, kern, wire, dropped>>  BY DEF FillNormal, FillZc
<1>2. CASE FillNormal
  <2>1. PICK k \in Nat :
          /\ sq' \in Seq(Request) /\ Len(sq') = Len(sq) + k
          /\ \A i \in 1 .. Len(sq) : sq'[i] = sq[i]
          /\ \A i \in 1 .. k : sq'[Len(sq) + i] = [buf |-> i - 1, id |-> nextId + (i - 1) * cfg.packets]
          /\ nextId' = nextId + k * cfg.packets
    BY <1>2, FillNormalQueue
  <2>2. \A i \in 1 .. k : sq'[Len(sq) + i].id = nextId + (i - 1) * cfg.packets
    <3> TAKE i \in 1 .. k
    <3> DEFINE e == nextId + (i - 1) * cfg.packets
    <3>1. sq'[Len(sq) + i] = [buf |-> i - 1, id |-> e]  BY <2>1
    <3> HIDE DEF e
    <3>2. sq'[Len(sq) + i].id = e  BY <3>1
    <3> QED BY <3>2 DEF e
  <2> QED BY <1>1, <2>1, <2>2, SubmitNumbered
<1>3. CASE FillZc
  <2>1. Owned  BY <1>3 DEF FillZc, Exclusive, ExclusiveOwned
  <2>2. PICK k \in Nat : FillZcQueue(k, k)  BY <1>3, <2>1, FillZcPops
  <2>3. /\ sq' \in Seq(Request) /\ Len(sq') = Len(sq) + k
        /\ \A i \in 1 .. Len(sq) : sq'[i] = sq[i]
        /\ nextId' = nextId + k * cfg.packets
    BY <2>2 DEF FillZcQueue
  <2>4. \A i \in 1 .. k : sq'[Len(sq) + i].id = nextId + (i - 1) * cfg.packets
    <3> TAKE i \in 1 .. k
    <3> DEFINE e == nextId + (i - 1) * cfg.packets
    <3>1. sq'[Len(sq) + i] = [buf |-> pool[Len(pool) + 1 - i], id |-> e]
      BY <2>2 DEF FillZcQueue
    <3> HIDE DEF e
    <3>2. sq'[Len(sq) + i].id = e  BY <3>1
    <3> QED BY <3>2 DEF e
  <2> QED BY <1>1, <2>3, <2>4, SubmitNumbered
<1> QED BY <1>2, <1>3

LEMMA QuietNumbered ==
  ASSUME Numbered,
         \/ EnterReturns \/ BeginDrain \/ HandleSent \/ HandleAgain \/ HandleNotif \/ HandleFatal
         \/ EndDrain \/ Notify \/ Stop \/ UNCHANGED vars
  PROVE  Numbered'
<1>1. UNCHANGED <<cfg, nextId, sq, kern, wire, dropped>>
  BY DEF EnterReturns, BeginDrain, HandleSent, HandleAgain, HandleNotif, HandleFatal, EndDrain,
         Notify, Stop, vars, kernelVars
<1> QED BY <1>1 DEF Numbered, Count, AllIds, Underway, Queued

LEMMA StepNumbered ==
  ASSUME Types, IdsOrdered, ExclusiveOwned, Settled, Accounted, [Next]_vars
  PROVE  Accounted'
<1> SUFFICES ASSUME Guarded PROVE Numbered'
  BY ConfigFixed DEF Accounted, Guarded
<1>1. Numbered /\ BuffersStable  BY DEF Accounted, Settled
<1> QED
  BY <1>1, IssueNumbered, SendLaterNumbered, FillNumbered, QuietNumbered
     DEF Next, LoopStep, KernelStep

LEMMA InitNumbered == ASSUME Init PROVE Numbered
<1>a. Types  BY InitTypes
<1>1. sq = <<>> /\ kern = {} /\ wire = <<>> /\ dropped = {} /\ nextId = 0  BY DEF Init
<1>2. Count = 0  BY <1>1, FS_EmptySet DEF Count, Queued
<1>3. AllIds = {}  BY <1>1 DEF AllIds, Underway, ToSet
<1>4. 0 .. Count - 1 = {}  BY <1>2
<1>5. Multiples(cfg.packets, Count) = {}  BY <1>4 DEF Multiples
<1>6. cfg.packets \in Nat  BY <1>a, Parameter DEF Types, TypeOK
<1>7. nextId = cfg.packets * Count  BY <1>1, <1>2, <1>6
<1> QED BY <1>3, <1>5, <1>7 DEF Numbered

LEMMA AlwaysNumbered == Spec => []Accounted
<1>1. Init => Accounted  BY InitNumbered DEF Accounted
<1>2. Types /\ Ledger /\ ExclusiveOwned /\ Settled /\ Accounted /\ [Next]_vars => Accounted'
  BY StepNumbered DEF Ledger
<1> QED BY <1>1, <1>2, AlwaysTypes, AlwaysLedger, AlwaysOwned, AlwaysSettled, PTL DEF Spec

LEMMA NumberedOnce == ASSUME Types, Accounted PROVE IdsAccounted
<1> SUFFICES ASSUME Guarded
             PROVE  LET underway == {r.id : r \in ToSet(sq) \cup kern}
                    IN  /\ Len(wire) + Len(sq) + Cardinality(kern) + Cardinality(dropped)
                             = nextId \div cfg.packets
                        /\ ToSet(wire) \cup underway \cup dropped
                             = {i \in 0 .. nextId - 1 : i % cfg.packets = 0}
  BY DEF IdsAccounted
<1> DEFINE p == cfg.packets
           c == Count
<1>1. p \in Nat \ {0} /\ c \in Nat  BY CountNat, Parameter DEF Types, TypeOK
<1>2. nextId = p * c /\ AllIds = Multiples(p, c)  BY DEF Accounted, Numbered
<1>3. (p * c) \div p = c  BY <1>1, Quotient
<1>4. Multiples(p, c) = {i \in 0 .. p * c - 1 : i % p = 0}  BY <1>1, MultiplesAre
<1>5. c = Len(wire) + Len(sq) + Cardinality(kern) + Cardinality(dropped)
  <2>1. /\ Len(wire) \in Nat /\ Cardinality(dropped) \in Nat /\ Cardinality(kern) \in Nat
        /\ Len(sq) \in Nat
    BY CountNat, Quantities DEF Bounds, Types
  <2> QED BY <2>1 DEF Count, Queued
<1>6. AllIds = ToSet(wire) \cup {r.id : r \in ToSet(sq) \cup kern} \cup dropped
  BY DEF AllIds, Underway
<1> HIDE DEF c
<1>7. c = nextId \div p  BY <1>2, <1>3
<1>8. AllIds = {i \in 0 .. nextId - 1 : i % p = 0}  BY <1>2, <1>4
<1> QED BY <1>5, <1>6, <1>7, <1>8

(* Every id given out is on the wire, in a request or failed, exactly once *)
(* in the guarded configurations: none is sent twice and none is lost.     *)
THEOREM IdsAreAccounted == Spec => []IdsAccounted
<1>1. Types /\ Accounted => IdsAccounted  BY NumberedOnce
<1> QED BY <1>1, AlwaysTypes, AlwaysNumbered, PTL
=============================================================================
