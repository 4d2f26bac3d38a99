----------------------- MODULE PacketAccounting_proof -----------------------
(***************************************************************************)
(* Proofs about the receiver's counters, for any command line, any number  *)
(* of packets, and any behaviour of the network cfg allows.                *)
(***************************************************************************)
EXTENDS PacketAccounting, FiniteSetTheorems, SequenceTheorems, TLAPS

(* Counting a packet keeps the statistic well-formed and moves omitted,    *)
(* duplicated, and the expected id together.                               *)
LEMMA AccountBalance ==
  ASSUME NEW s \in Statistic, NEW id \in Nat, NEW e \in Nat
  PROVE  /\ Advance(id, e) \in Nat
         /\ Account(s, id, e) \in Statistic
         /\ Account(s, id, e).datagrams = s.datagrams
         /\ Advance(id, e) + Account(s, id, e).duplicated - s.duplicated
              = 1 + Account(s, id, e).omitted - s.omitted
<1>1. s = [omitted |-> s.omitted, reordered |-> s.reordered,
           duplicated |-> s.duplicated, datagrams |-> s.datagrams]
      /\ s.omitted \in Int /\ s.reordered \in Nat /\ s.duplicated \in Nat
      /\ s.datagrams \in Nat
  BY DEF Statistic
<1>2. CASE id >= e
  <2>1. Account(s, id, e)
          = [omitted |-> s.omitted + (id - e), reordered |-> s.reordered,
             duplicated |-> s.duplicated, datagrams |-> s.datagrams]
    BY <1>1, <1>2 DEF Account
  <2>2. Advance(id, e) = id - e + 1 /\ id - e \in Nat  BY <1>2 DEF Advance
  <2> QED BY <1>1, <2>1, <2>2 DEF Statistic
<1>3. CASE ~(id >= e) /\ s.omitted > 0
  <2>1. Account(s, id, e)
          = [omitted |-> s.omitted - 1, reordered |-> s.reordered + 1,
             duplicated |-> s.duplicated, datagrams |-> s.datagrams]
    BY <1>1, <1>3 DEF Account
  <2>2. Advance(id, e) = 0  BY <1>3 DEF Advance
  <2> QED BY <1>1, <2>1, <2>2 DEF Statistic
<1>4. CASE ~(id >= e) /\ ~(s.omitted > 0)
  <2>1. Account(s, id, e)
          = [omitted |-> s.omitted, reordered |-> s.reordered,
             duplicated |-> s.duplicated + 1, datagrams |-> s.datagrams]
    BY <1>1, <1>4 DEF Account
  <2>2. Advance(id, e) = 0  BY <1>4 DEF Advance
  <2> QED BY <1>1, <2>1, <2>2 DEF Statistic
<1> QED BY <1>2, <1>3, <1>4

LEMMA DivBound ==
  ASSUME NEW a \in Nat, NEW b \in Nat, NEW c \in Nat \ {0}, a < b * c
  PROVE  a \div c \in Nat /\ a \div c < b /\ a % c \in Nat
OBVIOUS

-----------------------------------------------------------------------------
LEMMA InitTypeOK == Init => TypeOK
BY ConfigsAssumption DEF Init, TypeOK, Statistic, NoStatistic, Config

(* What a receive call leaves to be processed is a sequence of ids.        *)
LEMMA ReceiveTypeOK ==
  ASSUME TypeOK, Receive
  PROVE  TypeOK'
<1>1. cfg \in Config  BY ConfigsAssumption DEF TypeOK
<1> DEFINE len == PacketsPerDatagram(cfg)
<1>2. len \in Nat \ {0} /\ cfg.slots \in Nat /\ cfg.take \in Nat
  BY <1>1 DEF PacketsPerDatagram, Config
<1>3. PICK s \in Batches :
        /\ net' = net \ Range(s)
        /\ cur' = s[1].test
        /\ rbuf' = IF Normal THEN Overwrite(s) ELSE rbuf
        /\ todo' = IF Normal THEN Overwrite(s) ELSE [i \in 1 .. Len(s) |-> s[i].first]
  BY DEF Receive
<1>4. PICK n \in 1 .. cfg.take : s \in [1 .. n -> net]
  BY <1>3 DEF Batches
<1>5. Len(s) = n /\ n \in Nat \ {0}  BY <1>2, <1>4
<1>6. \A i \in 1 .. n : s[i] \in Datagram  BY <1>4 DEF TypeOK
<1>7. [i \in 1 .. Len(s) |-> s[i].first] \in Seq(Nat)
  <2>1. \A i \in 1 .. n : s[i].first \in Nat  BY <1>6 DEF Datagram
  <2> QED BY <1>5, <2>1
<1>8. Overwrite(s) \in [1 .. cfg.slots -> Nat]
  <2> DEFINE id(i) == s[((i - 1) \div len) + 1].first + ((i - 1) % len)
  <2>1. ASSUME NEW i \in 1 .. cfg.slots, i <= n * len
        PROVE  id(i) \in Nat
    <3>1. i - 1 \in Nat /\ n * len \in Nat  BY <1>2, <1>5
    <3>2. i - 1 < n * len  BY <2>1, <1>2, <3>1
    <3> HIDE DEF len
    <3>3. /\ (i - 1) \div len \in Nat
          /\ (i - 1) \div len < n
          /\ (i - 1) % len \in Nat
      BY <1>2, <1>5, <3>1, <3>2, DivBound
    <3>4. ((i - 1) \div len) + 1 \in 1 .. n  BY <1>5, <3>3
    <3> QED BY <1>6, <3>3, <3>4 DEF Datagram
  <2>2. \A i \in 1 .. cfg.slots : rbuf[i] \in Nat  BY DEF TypeOK
  <2>3. \A i \in 1 .. cfg.slots : (IF i <= Len(s) * len THEN id(i) ELSE rbuf[i]) \in Nat
    BY <1>5, <2>1, <2>2
  <2> QED BY <2>3 DEF Overwrite
<1>9. Overwrite(s) \in Seq(Nat)  BY <1>2, <1>8
<1>10. cur' \in Tests
  <2>1. 1 \in 1 .. n  BY <1>5
  <2> QED BY <1>3, <1>6, <2>1 DEF Datagram
<1>11. todo' \in Seq(Nat) /\ rbuf' \in [1 .. cfg.slots -> Nat]
  BY <1>3, <1>7, <1>8, <1>9 DEF TypeOK
<1> QED BY <1>3, <1>10, <1>11 DEF TypeOK, Receive

LEMMA ProcessTypeOK ==
  ASSUME TypeOK, ProcessPacket
  PROVE  TypeOK'
<1> DEFINE id == Head(todo)
<1>1. id \in Nat /\ Tail(todo) \in Seq(Nat)
  BY HeadTailProperties DEF TypeOK, ProcessPacket
<1>2. stats[cur] \in Statistic /\ next \in Nat /\ amount \in Nat  BY DEF TypeOK
<1>3. Advance(id, next) \in Nat /\ Account(stats[cur], id, next) \in Statistic
  BY <1>1, <1>2, AccountBalance
<1>4. next' \in Nat /\ amount' \in Nat  BY <1>2, <1>3 DEF ProcessPacket
<1>5. stats' \in [Tests -> Statistic]  BY <1>3 DEF ProcessPacket, TypeOK
<1>6. seen' \in [Tests -> SUBSET Nat]  BY <1>1 DEF ProcessPacket, TypeOK
<1> QED BY <1>1, <1>4, <1>5, <1>6 DEF ProcessPacket, TypeOK

LEMMA FinishTypeOK ==
  ASSUME TypeOK, FinishCall
  PROVE  TypeOK'
<1>1. stats' \in [Tests -> Statistic]
  <2>1. [stats[cur] EXCEPT !.datagrams = @ + amount] \in Statistic
    <3>1. stats[cur] \in Statistic /\ amount \in Nat  BY DEF TypeOK
    <3> QED BY <3>1 DEF Statistic
  <2> QED BY <2>1 DEF FinishCall, TypeOK
<1> QED BY <1>1 DEF FinishCall, TypeOK

LEMMA EmitTypeOK ==
  ASSUME TypeOK, Emit
  PROVE  TypeOK'
<1>1. cfg \in Config  BY ConfigsAssumption DEF TypeOK
<1> DEFINE len == PacketsPerDatagram(cfg)
<1>2. len \in Nat \ {0}  BY <1>1 DEF PacketsPerDatagram, Config
<1>3. PICK t \in Tests, first \in 0 .. MaxId, n \in 1 .. (MaxId + 1) :
        /\ net' = net \cup Segments(t, first, len, n)
        /\ sent' = sent \cup Segments(t, first, len, n)
  BY DEF Emit
<1>4. Segments(t, first, len, n) \subseteq Datagram
  <2>1. first \in Nat /\ n \in Nat  BY BoundsAssumption
  <2>2. ASSUME NEW i \in 0 .. (n - 1)  PROVE first + i * len \in Nat
    <3>1. i \in Nat  BY <2>1
    <3>2. i * len \in Nat  BY <1>2, <3>1
    <3> QED BY <2>1, <3>2
  <2> HIDE DEF len
  <2> QED BY <1>2, <2>2 DEF Segments, Datagram
<1> QED BY <1>3, <1>4 DEF Emit, callVars, TypeOK

LEMMA StepTypeOK == TypeOK /\ [Next]_vars => TypeOK'
<1> SUFFICES ASSUME TypeOK, [Next]_vars PROVE TypeOK'
  OBVIOUS
<1>1. CASE Lose  BY <1>1 DEF Lose, callVars, TypeOK
<1>2. CASE Duplicate  BY <1>2 DEF Duplicate, callVars, TypeOK
<1>3. CASE UNCHANGED vars  BY <1>3 DEF vars, TypeOK
<1> QED BY <1>1, <1>2, <1>3, ReceiveTypeOK, ProcessTypeOK, FinishTypeOK, EmitTypeOK
        DEF Next, ReceiverStep, NetworkStep

(* The counters, buffers and histories keep their types.                   *)
THEOREM TypeCorrect == Spec => []TypeOK
BY InitTypeOK, StepTypeOK, PTL DEF Spec
-----------------------------------------------------------------------------
(* The ledger is inductive once it is known that a call starts with        *)
(* nothing counted.                                                        *)
AmountReset == rpc = "recv" => amount = 0

LedgerInv == AmountReset /\ LedgerBalances

LEMMA StepLedger ==
  ASSUME TypeOK, LedgerInv, [Next]_vars
  PROVE  LedgerInv'
<1>1. CASE Receive
  BY <1>1 DEF Receive, LedgerInv, AmountReset, LedgerBalances, Normal
<1>2. CASE ProcessPacket
  <2> SUFFICES ASSUME NEW t \in Tests, ~Normal, Tests = {t}
               PROVE  next' + stats'[t].duplicated
                        = stats'[t].datagrams + amount' + stats'[t].omitted
    BY <1>2 DEF ProcessPacket, LedgerInv, AmountReset, LedgerBalances, Normal
  <2> DEFINE id == Head(todo)
             s == stats[t]
  <2>1. id \in Nat  BY <1>2, HeadTailProperties DEF TypeOK, ProcessPacket
  <2>2. s \in Statistic /\ next \in Nat /\ amount \in Nat /\ cur = t
    BY DEF TypeOK
  <2>3. /\ Advance(id, next) \in Nat
        /\ Account(s, id, next) \in Statistic
        /\ Account(s, id, next).datagrams = s.datagrams
        /\ Advance(id, next) + Account(s, id, next).duplicated - s.duplicated
             = 1 + Account(s, id, next).omitted - s.omitted
    BY <2>1, <2>2, AccountBalance
  <2>4. next + s.duplicated = s.datagrams + amount + s.omitted
    BY DEF LedgerInv, LedgerBalances
  <2>5. /\ stats'[t] = Account(s, id, next)
        /\ next' = next + Advance(id, next)
        /\ amount' = amount + 1
    BY <1>2, <2>2 DEF ProcessPacket, TypeOK
  <2> HIDE DEF id, s
  <2> QED BY <2>2, <2>3, <2>4, <2>5 DEF Statistic
<1>3. CASE FinishCall
  <2> SUFFICES ASSUME NEW t \in Tests, ~Normal, Tests = {t}
               PROVE  next' + stats'[t].duplicated
                        = stats'[t].datagrams + amount' + stats'[t].omitted
    BY <1>3 DEF FinishCall, LedgerInv, AmountReset, LedgerBalances, Normal
  <2>1. cur = t /\ stats[t] \in Statistic /\ amount \in Nat /\ next \in Nat
    BY DEF TypeOK
  <2>2. stats'[t] = [stats[t] EXCEPT !.datagrams = @ + amount]
    BY <1>3, <2>1 DEF FinishCall, TypeOK
  <2>3. next' = next /\ amount' = 0  BY <1>3 DEF FinishCall
  <2>4. next + stats[t].duplicated = stats[t].datagrams + amount + stats[t].omitted
    BY DEF LedgerInv, LedgerBalances
  <2> QED BY <2>1, <2>2, <2>3, <2>4 DEF Statistic
<1>4. CASE Emit \/ Lose \/ Duplicate \/ UNCHANGED vars
  BY <1>4 DEF Emit, Lose, Duplicate, vars, callVars, LedgerInv, AmountReset,
              LedgerBalances, Normal
<1> QED BY <1>1, <1>2, <1>3, <1>4 DEF Next, ReceiverStep, NetworkStep

(* Whatever the network does, no received packet is dropped from or added  *)
(* to the books of a single test: ids passed = received + omitted - dups.  *)
THEOREM LedgerCorrect == Spec => []LedgerBalances
<1>1. Init => LedgerInv
  <2> SUFFICES ASSUME Init, NEW t \in Tests
               PROVE  next + stats[t].duplicated
                        = stats[t].datagrams + amount + stats[t].omitted
    BY DEF Init, LedgerInv, AmountReset, LedgerBalances
  <2> QED BY DEF Init, NoStatistic
<1>2. TypeOK /\ LedgerInv /\ [Next]_vars => LedgerInv'  BY StepLedger
<1>3. LedgerInv => LedgerBalances  BY DEF LedgerInv
<1> QED BY <1>1, <1>2, <1>3, TypeCorrect, PTL DEF Spec
-----------------------------------------------------------------------------
(* The ids below the expected one are finitely many.                       *)
LEMMA MissingFinite ==
  ASSUME NEW e \in Nat, NEW R
  PROVE  IsFiniteSet(Missing(e, R))
<1>1. Missing(e, R) \subseteq 0 .. (e - 1)  BY DEF Missing
<1>2. IsFiniteSet(0 .. (e - 1))  BY FS_Interval
<1> QED BY <1>1, <1>2, FS_Subset

(* A packet at or above the expected id makes the ids it skips missing.    *)
LEMMA MissingGrows ==
  ASSUME NEW e \in Nat, NEW R \in SUBSET (0 .. (e - 1)),
         NEW id \in Nat, id >= e
  PROVE  Cardinality(Missing(id + 1, R \cup {id})) = Cardinality(Missing(e, R)) + (id - e)
<1> DEFINE G == e .. (id - 1)
<1>1. Missing(id + 1, R \cup {id}) = Missing(e, R) \cup G  BY DEF Missing
<1>2. Missing(e, R) \cap G = {}  BY DEF Missing
<1>3. IsFiniteSet(G) /\ Cardinality(G) = id - e
  <2>1. IsFiniteSet(G) /\ Cardinality(G) = IF e > id - 1 THEN 0 ELSE (id - 1) - e + 1
    BY FS_Interval
  <2> HIDE DEF G
  <2> QED BY <2>1
<1>4. IsFiniteSet(Missing(e, R))  BY MissingFinite
<1> HIDE DEF G
<1>5. Cardinality(Missing(e, R) \cup G)
        = Cardinality(Missing(e, R)) + Cardinality(G) - Cardinality(Missing(e, R) \cap G)
  BY <1>3, <1>4, FS_Union
<1>6. Cardinality(Missing(e, R) \cap G) = 0  BY <1>2, FS_EmptySet
<1>7. Cardinality(Missing(e, R)) \in Nat  BY <1>4, FS_CardinalityType
<1>8. Cardinality(Missing(id + 1, R \cup {id})) = Cardinality(Missing(e, R) \cup G)
  BY <1>1
<1>9. id - e \in Nat  OBVIOUS
<1> QED BY <1>3, <1>5, <1>6, <1>7, <1>8, <1>9

(* A late packet is one of the missing ones, and then no longer missing.   *)
LEMMA MissingShrinks ==
  ASSUME NEW e \in Nat, NEW R \in SUBSET (0 .. (e - 1)),
         NEW id \in Nat, id < e, id \notin R
  PROVE  /\ Cardinality(Missing(e, R)) > 0
         /\ Cardinality(Missing(e, R \cup {id})) = Cardinality(Missing(e, R)) - 1
<1>1. id \in Missing(e, R)  BY DEF Missing
<1>2. Missing(e, R \cup {id}) = Missing(e, R) \ {id}  BY DEF Missing
<1>3. IsFiniteSet(Missing(e, R))  BY MissingFinite
<1>4. Cardinality(Missing(e, R)) \in Nat  BY <1>3, FS_CardinalityType
<1>5. Cardinality(Missing(e, R)) # 0  BY <1>1, <1>3, FS_EmptySet
<1>6. Cardinality(Missing(e, R) \ {id}) = Cardinality(Missing(e, R)) - 1
  BY <1>1, <1>3, FS_RemoveElement
<1> QED BY <1>2, <1>4, <1>5, <1>6

(* Under which command lines and networks the loss report is exact.        *)
Exact == EveryPacketRead(cfg) /\ ~cfg.dup

(* Why it is: every packet id is on its way, waits in the current call, or *)
(* was processed, never two of them and never twice.                       *)
EachIdOnce(t) ==
  /\ \A d \in sent : d.len = 1 /\ d.test = t
  /\ IsInjective(todo)
  /\ \A i \in DOMAIN todo : todo[i] \notin seen[t]
  /\ \A d \in net : d.first \notin seen[t] /\ \A i \in DOMAIN todo : todo[i] # d.first
  /\ \A i \in DOMAIN todo : \E d \in sent : d.first = todo[i]
  /\ \A id \in seen[t] : \E d \in sent : d.first = id

(* recv() has one packet to process, and nothing counted before it.        *)
OnePacketCall ==
  Normal /\ todo # <<>> => Len(todo) = 1 /\ amount = 0

Counted(t) ==
  /\ seen[t] \subseteq 0 .. (Expected - 1)
  /\ stats[t].omitted = Cardinality(Missing(Expected, seen[t]))
  /\ stats[t].duplicated = 0

LossInv ==
  /\ rpc = "recv" => amount = 0 /\ todo = <<>>
  /\ \A t \in Tests : Exact /\ Tests = {t} => EachIdOnce(t) /\ OnePacketCall /\ Counted(t)

LEMMA ReceiveLoss ==
  ASSUME TypeOK, LossInv, Receive, NEW t \in Tests, Exact, Tests = {t}
  PROVE  EachIdOnce(t)' /\ OnePacketCall' /\ Counted(t)'
<1>1. cfg \in Config /\ PacketsPerDatagram(cfg) = 1 /\ (Normal => cfg.slots = 1)
  BY ConfigsAssumption DEF TypeOK, Exact, EveryPacketRead, Normal
<1>2. EachIdOnce(t) /\ Counted(t) /\ amount = 0 /\ todo = <<>>
  BY DEF LossInv, Receive
<1>3. PICK s \in Batches :
        /\ Normal => Len(s) * PacketsPerDatagram(cfg) <= cfg.slots
        /\ net' = net \ Range(s)
        /\ todo' = IF Normal THEN Overwrite(s) ELSE [i \in 1 .. Len(s) |-> s[i].first]
  BY DEF Receive
<1>4. PICK n \in 1 .. cfg.take : s \in [1 .. n -> net]
  BY <1>3 DEF Batches
<1>5. Len(s) = n /\ n \in Nat \ {0}  BY <1>1, <1>4 DEF Config
<1>6. IsInjective(s)  BY <1>3 DEF Batches
<1>7. todo' = [i \in 1 .. n |-> s[i].first] /\ (Normal => n = 1)
  <2>1. CASE ~Normal  BY <2>1, <1>3, <1>5
  <2>2. CASE Normal
    <3>1. n = 1 /\ cfg.slots = 1  BY <2>2, <1>1, <1>3, <1>5
    <3>2. s[1].first \in Nat
      <4>1. s[1] \in Datagram  BY <1>4, <3>1 DEF TypeOK
      <4> QED BY <4>1 DEF Datagram
    <3>3. Overwrite(s)
            = [i \in 1 .. 1 |-> IF i <= 1 * 1
                 THEN s[((i - 1) \div 1) + 1].first + ((i - 1) % 1) ELSE rbuf[i]]
      BY <1>1, <1>5, <3>1 DEF Overwrite
    <3>4. Overwrite(s) = [i \in 1 .. 1 |-> s[i].first]
      <4>1. \A i \in 1 .. 1 :
              (IF i <= 1 * 1 THEN s[((i - 1) \div 1) + 1].first + ((i - 1) % 1) ELSE rbuf[i])
                = s[i].first
        BY <3>2
      <4> QED BY <3>3, <4>1
    <3> QED BY <2>2, <1>3, <3>1, <3>4
  <2> QED BY <2>1, <2>2
<1>8. \A d \in net : d \in Datagram /\ d \in sent /\ d.len = 1 /\ d.test = t
  BY <1>2 DEF TypeOK, EachIdOnce
<1>9. \A d, e \in net : d.first = e.first => d = e
  BY <1>8 DEF Datagram
<1>10. \A i \in 1 .. n : s[i] \in net  BY <1>4
<1>11. \A d \in net' : d \in net /\ \A i \in 1 .. n : d # s[i]
  BY <1>3, <1>4 DEF Range
<1>12. DOMAIN todo' = 1 .. n /\ \A i \in 1 .. n : todo'[i] = s[i].first
  BY <1>7
<1>13. sent' = sent /\ seen' = seen /\ stats' = stats /\ next' = next /\ amount' = 0
       /\ cfg' = cfg
  BY DEF Receive
<1>14. EachIdOnce(t)'
  <2>1. IsInjective(todo')
    <3>1. \A i, j \in 1 .. n : s[i] = s[j] => i = j  BY <1>4, <1>6 DEF IsInjective
    <3> QED BY <3>1, <1>9, <1>10, <1>12 DEF IsInjective
  <2>2. \A i \in 1 .. n : todo'[i] \notin seen[t]
    BY <1>2, <1>10, <1>12 DEF EachIdOnce
  <2>3. \A d \in net' : d.first \notin seen[t] /\ \A i \in 1 .. n : todo'[i] # d.first
    BY <1>2, <1>9, <1>10, <1>11, <1>12 DEF EachIdOnce
  <2>4. \A i \in 1 .. n : \E d \in sent : d.first = todo'[i]
    BY <1>8, <1>10, <1>12
  <2> QED BY <2>1, <2>2, <2>3, <2>4, <1>2, <1>12, <1>13 DEF EachIdOnce
<1>15. OnePacketCall'  BY <1>5, <1>7, <1>13 DEF OnePacketCall, Normal
<1>16. Counted(t)'
  <2>1. Expected' = Expected  BY <1>2, <1>13 DEF Expected, Normal
  <2> QED BY <1>2, <1>13, <2>1 DEF Counted
<1> QED BY <1>14, <1>15, <1>16

LEMMA ProcessLoss ==
  ASSUME TypeOK, LossInv, ProcessPacket, NEW t \in Tests, Exact, Tests = {t}
  PROVE  EachIdOnce(t)' /\ OnePacketCall' /\ Counted(t)'
<1> DEFINE id == Head(todo)
           s == stats[t]
<1>1. EachIdOnce(t) /\ OnePacketCall /\ Counted(t)  BY DEF LossInv
<1>2. /\ todo \in Seq(Nat) /\ todo # <<>>
      /\ id \in Nat /\ todo' = Tail(todo) /\ Tail(todo) \in Seq(Nat)
      /\ Len(Tail(todo)) = Len(todo) - 1
      /\ \A i \in 1 .. Len(Tail(todo)) : Tail(todo)[i] = todo[i + 1]
  BY HeadTailProperties DEF TypeOK, ProcessPacket
<1>3. cur = t /\ s \in Statistic /\ next \in Nat /\ amount \in Nat  BY DEF TypeOK
<1>4. /\ stats'[t] = Account(s, id, next)
      /\ seen'[t] = seen[t] \cup {id}
      /\ next' = IF Normal THEN next ELSE next + Advance(id, next)
      /\ amount' = amount + (IF Normal THEN Advance(id, next) ELSE 1)
      /\ UNCHANGED <<cfg, net, sent>>
  BY <1>3 DEF ProcessPacket, TypeOK
<1>5. DOMAIN todo = 1 .. Len(todo) /\ Len(todo) \in Nat \ {0} /\ todo[1] = id
  BY <1>2
<1>6. DOMAIN todo' = 1 .. Len(todo') /\ \A i \in DOMAIN todo' :
        i + 1 \in DOMAIN todo /\ todo'[i] = todo[i + 1]
  BY <1>2, <1>5
<1>7. id \notin seen[t]  BY <1>1, <1>5 DEF EachIdOnce
<1>8. \A i \in DOMAIN todo' : todo'[i] # id
  <2> TAKE i \in DOMAIN todo'
  <2>1. i + 1 \in DOMAIN todo /\ 1 \in DOMAIN todo /\ i + 1 # 1  BY <1>5, <1>6
  <2>2. todo[i + 1] # todo[1]  BY <1>1, <2>1 DEF EachIdOnce, IsInjective
  <2> QED BY <2>2, <1>5, <1>6
<1>9. EachIdOnce(t)'
  <2>1. IsInjective(todo')
    <3> SUFFICES ASSUME NEW i \in DOMAIN todo', NEW j \in DOMAIN todo', todo'[i] = todo'[j]
                 PROVE  i = j
      BY DEF IsInjective
    <3>1. i + 1 = j + 1  BY <1>1, <1>6 DEF EachIdOnce, IsInjective
    <3>2. i \in Int /\ j \in Int  BY <1>6
    <3> QED BY <3>1, <3>2
  <2>2. \A i \in DOMAIN todo' : todo'[i] \notin seen'[t]
    BY <1>1, <1>4, <1>6, <1>8 DEF EachIdOnce
  <2>3. \A d \in net : d.first # id  BY <1>1, <1>5 DEF EachIdOnce
  <2>4. \A d \in net' : d.first \notin seen'[t] /\ \A i \in DOMAIN todo' : todo'[i] # d.first
    BY <1>1, <1>4, <1>6, <2>3 DEF EachIdOnce
  <2>5. \A i \in DOMAIN todo' : \E d \in sent' : d.first = todo'[i]
    BY <1>1, <1>4, <1>6 DEF EachIdOnce
  <2>6. \A x \in seen'[t] : \E d \in sent' : d.first = x
    BY <1>1, <1>4, <1>5 DEF EachIdOnce
  <2>7. \A d \in sent' : d.len = 1 /\ d.test = t  BY <1>1, <1>4 DEF EachIdOnce
  <2> QED BY <2>1, <2>2, <2>4, <2>5, <2>6, <2>7 DEF EachIdOnce
<1>10. OnePacketCall'
  <2>1. Normal => todo' = <<>>  BY <1>1, <1>2 DEF OnePacketCall
  <2> QED BY <2>1, <1>4 DEF OnePacketCall, Normal
<1>11. Counted(t)'
  <2> DEFINE e == next
             R == seen[t]
  <2>1. Expected = e  BY <1>1, <1>2, <1>3 DEF Expected, OnePacketCall
  <2>2. Expected' = e + Advance(id, e)
    <3>1. Advance(id, e) \in Nat  BY <1>2, <1>3, AccountBalance
    <3> QED BY <1>1, <1>2, <1>3, <1>4, <3>1 DEF Expected, OnePacketCall, Normal
  <2>3. /\ R \in SUBSET (0 .. (e - 1))
        /\ s.omitted = Cardinality(Missing(e, R))
        /\ s.duplicated = 0
    BY <1>1, <2>1 DEF Counted
  <2>4. s.omitted \in Int  BY <1>3 DEF Statistic
  <2> HIDE DEF s, id
  <2>5. CASE id >= e
    <3>1. Advance(id, e) = id - e + 1  BY <2>5 DEF Advance
    <3>2. Expected' = id + 1  BY <2>2, <3>1, <1>2, <1>3
    <3>3. Account(s, id, e).omitted = s.omitted + (id - e) /\ Account(s, id, e).duplicated = 0
      BY <2>3, <2>5, <1>3 DEF Account, Statistic
    <3>4. Cardinality(Missing(id + 1, R \cup {id})) = Cardinality(Missing(e, R)) + (id - e)
      BY <2>3, <2>5, <1>2, <1>3, MissingGrows
    <3>5. seen'[t] \subseteq 0 .. id  BY <2>3, <2>5, <1>2, <1>3, <1>4
    <3>6. (id + 1) - 1 = id  BY <1>2
    <3> QED BY <2>3, <3>2, <3>3, <3>4, <3>5, <3>6, <1>4 DEF Counted
  <2>6. CASE ~(id >= e)
    <3>1. id < e /\ id \notin R  BY <2>6, <1>2, <1>3, <1>7
    <3>2. Advance(id, e) = 0  BY <2>6 DEF Advance
    <3>3. Expected' = e  BY <2>2, <3>2, <1>3
    <3>4. /\ Cardinality(Missing(e, R)) > 0
          /\ Cardinality(Missing(e, R \cup {id})) = Cardinality(Missing(e, R)) - 1
      BY <2>3, <3>1, <1>2, <1>3, MissingShrinks, ZenonT(60)
    <3>5. Account(s, id, e).omitted = s.omitted - 1 /\ Account(s, id, e).duplicated = 0
      BY <2>3, <2>6, <3>4, <1>3 DEF Account, Statistic
    <3>6. seen'[t] \subseteq 0 .. (e - 1)  BY <2>3, <3>1, <1>2, <1>3, <1>4
    <3> QED BY <2>3, <3>3, <3>4, <3>5, <3>6, <1>4 DEF Counted
  <2> QED BY <2>5, <2>6
<1> QED BY <1>9, <1>10, <1>11

LEMMA FinishLoss ==
  ASSUME TypeOK, LossInv, FinishCall, NEW t \in Tests, Exact, Tests = {t}
  PROVE  EachIdOnce(t)' /\ OnePacketCall' /\ Counted(t)'
<1>1. EachIdOnce(t) /\ Counted(t)  BY DEF LossInv
<1>2. cur = t /\ stats[t] \in Statistic /\ amount \in Nat /\ next \in Nat  BY DEF TypeOK
<1>3. stats'[t] = [stats[t] EXCEPT !.datagrams = @ + amount]
  BY <1>2 DEF FinishCall, TypeOK
<1>4. stats'[t].omitted = stats[t].omitted /\ stats'[t].duplicated = stats[t].duplicated
  BY <1>2, <1>3 DEF Statistic
<1>5. Expected' = Expected  BY <1>2 DEF Expected, FinishCall, Normal
<1>6. EachIdOnce(t)'  BY <1>1 DEF EachIdOnce, FinishCall
<1>7. OnePacketCall'  BY DEF OnePacketCall, FinishCall, Normal
<1>8. Counted(t)'  BY <1>1, <1>4, <1>5 DEF Counted, FinishCall
<1> QED BY <1>6, <1>7, <1>8

LEMMA EmitLoss ==
  ASSUME TypeOK, LossInv, Emit, NEW t \in Tests, Exact, Tests = {t}
  PROVE  EachIdOnce(t)' /\ OnePacketCall' /\ Counted(t)'
<1>1. EachIdOnce(t) /\ OnePacketCall /\ Counted(t)  BY DEF LossInv
<1>2. PacketsPerDatagram(cfg) = 1  BY DEF Exact, EveryPacketRead
<1>3. PICK u \in Tests, first \in 0 .. MaxId, n \in 1 .. (MaxId + 1) :
        LET D == Segments(u, first, 1, n)
        IN  /\ \A d \in D, e \in sent : e.test = u => PacketIds(d) \cap PacketIds(e) = {}
            /\ net' = net \cup D
            /\ sent' = sent \cup D
  BY <1>2 DEF Emit
<1> DEFINE D == Segments(u, first, 1, n)
<1>4. u = t  OBVIOUS
<1>5. \A d \in D : d.len = 1 /\ d.test = t /\ d.first \in Nat
  <2>1. first \in Nat /\ n \in Nat  BY BoundsAssumption
  <2>2. \A i \in 0 .. (n - 1) : first + i * 1 \in Nat  BY <2>1
  <2> QED BY <1>4, <2>2 DEF Segments
<1>6. \A d \in D, e \in sent : d.first # e.first
  <2> TAKE d \in D, e \in sent
  <2>1. e.len = 1 /\ e.test = u /\ e.first \in Nat
    BY <1>1, <1>4 DEF EachIdOnce, TypeOK, Datagram
  <2>2. d.first \in PacketIds(d) /\ e.first \in PacketIds(e)
    BY <1>5, <2>1 DEF PacketIds
  <2>3. PacketIds(d) \cap PacketIds(e) = {}  BY <1>3, <2>1
  <2> QED BY <2>2, <2>3
<1>7. UNCHANGED <<cfg, next, stats, rpc, cur, todo, amount, seen>>
  BY DEF Emit, callVars
<1> HIDE DEF D
<1>8. EachIdOnce(t)'
  <2>1. \A d \in D : d.first \notin seen[t]  BY <1>1, <1>6 DEF EachIdOnce
  <2>2. \A d \in D : \A i \in DOMAIN todo : todo[i] # d.first
    BY <1>1, <1>6 DEF EachIdOnce
  <2>3. net' = net \cup D /\ sent' = sent \cup D  BY <1>3 DEF D
  <2> QED BY <1>1, <1>5, <1>7, <2>1, <2>2, <2>3 DEF EachIdOnce
<1>9. OnePacketCall' /\ Counted(t)'
  BY <1>1, <1>7 DEF OnePacketCall, Counted, Expected, Normal
<1> QED BY <1>8, <1>9

LEMMA StepLoss ==
  ASSUME TypeOK, LossInv, [Next]_vars
  PROVE  LossInv'
<1>1. (rpc = "recv" => amount = 0 /\ todo = <<>>)'
  <2>1. CASE Receive \/ ProcessPacket \/ FinishCall
    BY <2>1 DEF Receive, ProcessPacket, FinishCall, LossInv
  <2>2. CASE Emit \/ Lose \/ Duplicate \/ UNCHANGED vars
    BY <2>2 DEF Emit, Lose, Duplicate, vars, callVars, LossInv
  <2> QED BY <2>1, <2>2 DEF Next, ReceiverStep, NetworkStep
<1>2. cfg' = cfg
  BY DEF Next, ReceiverStep, NetworkStep, Receive, ProcessPacket, FinishCall, Emit, Lose,
         Duplicate, vars
<1> SUFFICES ASSUME NEW t \in Tests, Exact, Tests = {t}
             PROVE  EachIdOnce(t)' /\ OnePacketCall' /\ Counted(t)'
  BY <1>1, <1>2 DEF LossInv, Exact
<1>3. EachIdOnce(t) /\ OnePacketCall /\ Counted(t)  BY DEF LossInv
<1>4. CASE Lose
  <2>1. net' \subseteq net /\ UNCHANGED <<cfg, sent, next, stats, todo, amount, seen>>
    BY <1>4 DEF Lose, callVars
  <2> QED BY <1>3, <2>1 DEF EachIdOnce, OnePacketCall, Counted, Expected, Normal
<1>5. CASE Duplicate  BY <1>5 DEF Duplicate, Exact
<1>6. CASE UNCHANGED vars
  BY <1>3, <1>6 DEF vars, EachIdOnce, OnePacketCall, Counted, Expected, Normal
<1> QED BY <1>4, <1>5, <1>6, ReceiveLoss, ProcessLoss, FinishLoss, EmitLoss
        DEF Next, ReceiverStep, NetworkStep

LEMMA InitLoss == Init => LossInv
<1> SUFFICES ASSUME Init PROVE LossInv
  OBVIOUS
<1>1. rpc = "recv" /\ amount = 0 /\ todo = <<>> /\ sent = {} /\ net = {} /\ next = 0
  BY DEF Init
<1>2. ASSUME NEW t \in Tests
      PROVE  EachIdOnce(t) /\ OnePacketCall /\ Counted(t)
  <2>1. seen[t] = {} /\ stats[t].omitted = 0 /\ stats[t].duplicated = 0
    BY DEF Init, NoStatistic
  <2>2. Expected = 0  BY <1>1 DEF Expected
  <2>3. Missing(0, {}) = {}  BY DEF Missing
  <2>4. Cardinality(Missing(0, {})) = 0  BY <2>3, FS_EmptySet
  <2>5. EachIdOnce(t)  BY <1>1, <2>1 DEF EachIdOnce, IsInjective
  <2>6. Counted(t)  BY <2>1, <2>2, <2>4 DEF Counted
  <2> QED BY <1>1, <2>5, <2>6 DEF OnePacketCall
<1> QED BY <1>1, <1>2 DEF LossInv

(* For one test on a network that loses and reorders but does not          *)
(* duplicate: the omitted datagrams the receiver reports are exactly the   *)
(* ids below the highest received that are missing, at every moment.       *)
THEOREM LossIsExact == Spec => []LossExact
<1>1. LossInv => LossExact  BY DEF LossInv, LossExact, Exact, Counted
<1>2. TypeOK /\ LossInv /\ [Next]_vars => LossInv'  BY StepLoss
<1> QED BY <1>1, <1>2, InitLoss, TypeCorrect, PTL DEF Spec
=============================================================================
