---------------------------- MODULE Executor_proof ----------------------------
(***************************************************************************)
(* Proofs about Executor for every number of threads and rounds, every     *)
(* machine, and every length of time and interval.                         *)
(***************************************************************************)
EXTENDS Executor, CommonLemmas

Before == {"start", "open", "wait"}
Running == Before \cup {"run"}

(* The main thread and its threads.                                        *)
Rounded ==
  /\ main \in {"spawn", "join", "done"}
  /\ main = "spawn" => round < Rounds
  /\ DOMAIN th \in {{}, Threads} /\ th = [i \in DOMAIN th |-> th[i]]
  /\ main = "join" => DOMAIN th = Threads
  /\ main # "join" => \A i \in DOMAIN th : th[i].pc \in Ended
  /\ 1 .. joined \subseteq DOMAIN th
  /\ \A i \in 1 .. joined : th[i].pc \in Ended

(* Who has a port, and who left it bound.                                  *)
Sockets ==
  /\ ~OwnsPort => bound = {} /\ left = {}
  /\ OwnsPort =>
       /\ \A i \in DOMAIN th : th[i].pc \in {"wait", "run"} => i \in bound \ left
       /\ \A i \in bound : i \in left \/ (i \in DOMAIN th /\ th[i].pc \in {"wait", "run"})

(* A sender that has all the interval outputs its time has room for.       *)
Divides == ~IsReceiver /\ cfg.interval > 0 /\ ~cfg.short

(* What a running thread has counted is in its outputs and its statistic,  *)
(* up to the last output that main has room for.                           *)
Counts(t) ==
  /\ t.kept = SumFunction(t.stat.outputs)
  /\ t.kept + t.stat.count <= t.work
  /\ Len(t.stat.outputs) < Total \/ cfg.interval = 0 => t.kept + t.stat.count = t.work
  /\ ~IsReceiver => /\ t.stat.last <= t.stat.now
                    /\ Len(t.stat.outputs) * cfg.interval <= t.stat.last
  /\ Divides /\ Len(t.stat.outputs) >= Total => t.work <= t.kept + 1

Returns(t) ==
  /\ t.result = FinalCount(t.stat)
  /\ t.result \in t.kept .. t.work
  /\ cfg.interval = 0 => t.result = t.work
  /\ Divides => t.work - t.result <= 1
  /\ ~IsReceiver /\ Total > 0 => t.stat.outputs # <<>>

BookOf(t) ==
  /\ t.pc \in Before => t = [NewThread EXCEPT !.pc = t.pc, !.core = t.core]
  /\ t.pc \in Running => Counts(t)
  /\ t.pc = "ok" => Returns(t)

Books == \A i \in DOMAIN th : BookOf(th[i])

ResultOf(t) == IF t.pc = "ok" THEN t.result ELSE 0

AddedUp ==
  /\ finals \in [1 .. Total -> Nat]
  /\ SumFunction(finals) <= final
  /\ ~IsReceiver /\ Total > 0 => SumFunction(finals) = final
  /\ final = SumFunction([i \in 1 .. joined |-> ResultOf(th[i])])

Lanes == IF cfg.machine.numa THEN Len(cfg.machine.nodes) ELSE 1
Cores == AmountCpus(cfg.machine)
Managers == [core : 0 .. Cores - 1, node : 0 .. Lanes - 1]
Place(m) == (IF IsReceiver THEN Cores - 1 - m.core ELSE m.core) * Lanes + m.node

Pinned ==
  EvenNodes /\ handed <= TotalCores(cfg.machine) =>
    /\ handed < TotalCores(cfg.machine) => manager \in Managers /\ Place(manager) = handed
    /\ ~poisoned
    /\ \A i \in DOMAIN th :
         /\ th[i].core # <<>> =>
              \E m \in Managers : Place(m) < handed /\ th[i].core = Bound(cfg.machine, m)
         /\ th[i].pc = "stillborn" => i \in left
         /\ \A j \in DOMAIN th \ {i} : th[i].core # <<>> => th[i].core # th[j].core

-----------------------------------------------------------------------------
(* What the assumptions give for a configuration.                          *)
LEMMA Side ==
  ASSUME cfg \in Configs
  PROVE  /\ cfg \in Config /\ cfg.threads \in Nat \ {0} /\ cfg.threads <= MaxThreads
         /\ cfg.time \in Nat /\ cfg.interval \in Nat /\ cfg.wait \in Nat
         /\ Total \in Nat
         /\ cfg.interval > 0 /\ ~cfg.short => Total * cfg.interval = cfg.time
         /\ cfg.interval = 0 => Total = 0
         /\ Threads \subseteq Nat \ {0} /\ IsFiniteSet(Threads)
<1>1. cfg \in Config /\ cfg.threads <= MaxThreads /\ Accepted(cfg)  BY ConfigsAssumption
<1>2. /\ cfg.threads \in Nat \ {0} /\ cfg.time \in Nat /\ cfg.interval \in Nat /\ cfg.wait \in Nat
      /\ cfg.short \in BOOLEAN
  BY <1>1 DEF Config
<1> DEFINE q == cfg.time \div cfg.interval
<1>3. cfg.interval > 0 => q \in Nat /\ q * cfg.interval = cfg.time
  BY <1>1, <1>2 DEF Accepted
<1>4. Total \in Nat /\ (cfg.interval > 0 /\ ~cfg.short => Total * cfg.interval = cfg.time)
  <2>1. CASE cfg.interval = 0  BY <2>1 DEF Total, TotalOutputs
  <2>2. CASE cfg.interval > 0 /\ ~cfg.short  BY <1>2, <1>3, <2>2 DEF Total, TotalOutputs
  <2>3. CASE cfg.interval > 0 /\ cfg.short
    <3>1. Total = q - 1  BY <2>3 DEF Total, TotalOutputs
    <3>2. cfg.time > 0  BY <1>1, <1>2, <2>3 DEF Accepted
    <3>3. q # 0
      <4> HIDE DEF q
      <4> QED BY <1>2, <1>3, <2>3, <3>2
    <3> HIDE DEF q
    <3> QED BY <1>3, <2>3, <3>1, <3>3
  <2> QED BY <1>2, <2>1, <2>2, <2>3
<1>5. cfg.interval = 0 => Total = 0  BY DEF Total, TotalOutputs
<1>6. Threads \subseteq Nat \ {0} /\ IsFiniteSet(Threads)
  <2>1. 1 \in Int /\ cfg.threads \in Int  BY <1>2
  <2>2. IsFiniteSet(Threads)  BY <2>1, FS_Interval DEF Threads
  <2> QED BY <1>2, <2>2 DEF Threads
<1> QED BY <1>1, <1>2, <1>4, <1>5, <1>6

LEMMA Frame ==
  ASSUME cfg' = cfg
  PROVE  /\ Threads' = Threads /\ IsReceiver' = IsReceiver /\ Total' = Total /\ OwnsPort' = OwnsPort
         /\ \A t : BookOf(t)' <=> BookOf(t)
BY DEF Threads, IsReceiver, Total, OwnsPort, BookOf, Counts, Returns, Divides

LEMMA SumOfSeq ==
  ASSUME NEW q \in Seq(Nat)
  PROVE  /\ SumFunction(q) \in Nat
         /\ q = <<>> => SumFunction(q) = 0
         /\ \A x \in Nat : SumFunction(Append(q, x)) = SumFunction(q) + x
<1>1. Len(q) \in Nat /\ DOMAIN q = 1 .. Len(q) /\ \A i \in 1 .. Len(q) : q[i] \in Nat
  BY LenProperties, ElementOfSeq
<1>2. IsFiniteSet(DOMAIN q)  BY <1>1, FS_Interval
<1>3. SumFunction(q) \in Nat  BY <1>1, <1>2, SumNatural DEF SumFunction
<1>4. q = <<>> => SumFunction(q) = 0
  <2>1. q = <<>> => DOMAIN q = {}  OBVIOUS
  <2> QED BY <2>1, SumOfNone DEF SumFunction
<1>5. ASSUME NEW x \in Nat PROVE SumFunction(Append(q, x)) = SumFunction(q) + x
  <2> DEFINE a == Append(q, x)
             n == Len(q) + 1
  <2>1. /\ a \in Seq(Nat) /\ Len(a) = n /\ a[n] = x /\ \A i \in 1 .. Len(q) : a[i] = q[i]
    BY <1>1, AppendProperties
  <2>2. DOMAIN a = 1 .. n  BY <2>1, LenProperties
  <2> HIDE DEF a
  <2>3. n \notin DOMAIN q /\ DOMAIN a = DOMAIN q \cup {n}  BY <1>1, <2>2
  <2>4. IntegralOn(a, DOMAIN q \cup {n})
    <3>1. \A i \in DOMAIN a : a[i] \in Nat  BY <2>1, ElementOfSeq, <2>2
    <3> QED BY <2>3, <3>1 DEF IntegralOn
  <2>5. /\ SumFunctionOnSet(a, DOMAIN q) \in Int
        /\ SumFunctionOnSet(a, DOMAIN q \cup {n}) = a[n] + SumFunctionOnSet(a, DOMAIN q)
    <3> HIDE DEF n
    <3> QED BY <1>2, <2>3, <2>4, SumGrows
  <2>6. SumFunctionOnSet(a, DOMAIN q) = SumFunctionOnSet(q, DOMAIN q)
    <3>1. \A i \in DOMAIN q : q[i] \in Int /\ a[i] = q[i]  BY <1>1, <2>1
    <3> QED BY <1>2, <3>1, SumAgrees
  <2> QED BY <1>3, <2>1, <2>3, <2>5, <2>6 DEF SumFunction, a
<1> QED BY <1>3, <1>4, <1>5
-----------------------------------------------------------------------------
(* The check at the head of the loop: nothing, an interval output, or the  *)
(* statistic starts again after the last output.                           *)
CheckedFrom(c, s, interval, total, t) ==
  /\ c \in NodeStatistic /\ c.now = t /\ Len(c.outputs) <= total
  /\ \/ c.last = s.last /\ c.count = s.count /\ c.outputs = s.outputs
     \/ /\ interval > 0 /\ t >= s.last + interval
        /\ c.last = t /\ c.count = 0
        /\ \/ Len(s.outputs) < total /\ c.outputs = Append(s.outputs, s.count)
           \/ Len(s.outputs) = total /\ c.outputs = s.outputs

LEMMA CheckedParts ==
  ASSUME NEW s \in NodeStatistic, NEW interval \in Nat, NEW total \in Nat, NEW t \in Nat,
         Len(s.outputs) <= total
  PROVE  CheckedFrom(Checked(s, interval, total, t), s, interval, total, t)
<1> DEFINE at == [s EXCEPT !.now = t]
<1>1. /\ s.outputs \in Seq(Nat) /\ s.count \in Nat /\ s.last \in Nat /\ s.now \in Nat
      /\ Len(s.outputs) \in Nat
  BY LenProperties DEF NodeStatistic
<1>2. /\ at \in NodeStatistic /\ at.now = t /\ at.last = s.last /\ at.count = s.count
      /\ at.outputs = s.outputs
  BY DEF NodeStatistic
<1> HIDE DEF at
<1>3. CASE ~ (interval > 0 /\ t >= s.last + interval)
  <2>1. Checked(s, interval, total, t) = at  BY <1>3 DEF Checked, at
  <2> QED BY <1>2, <2>1 DEF CheckedFrom
<1>4. CASE interval > 0 /\ t >= s.last + interval
  <2> DEFINE o == IF Finished(at, total) THEN at.outputs ELSE Append(at.outputs, at.count)
             c == [now |-> t, last |-> t, count |-> 0, outputs |-> o]
  <2>1. Checked(s, interval, total, t) = c
    <3>1. Checked(s, interval, total, t) = [Calculated(at, total) EXCEPT !.count = 0]
      BY <1>4 DEF Checked, at
    <3> QED BY <1>2, <3>1 DEF Calculated, NodeStatistic
  <2>2. o \in Seq(Nat)
    BY <1>1, <1>2, AppendProperties
  <2>3. \/ Len(s.outputs) < total /\ o = Append(s.outputs, s.count) /\ Len(o) = Len(s.outputs) + 1
        \/ Len(s.outputs) = total /\ o = s.outputs
    BY <1>1, <1>2, AppendProperties DEF Finished
  <2> HIDE DEF o
  <2>4. Len(o) <= total  BY <1>1, <2>3
  <2>5. c \in NodeStatistic  BY <2>2 DEF NodeStatistic
  <2> QED BY <1>4, <2>1, <2>3, <2>4, <2>5 DEF CheckedFrom
<1> QED BY <1>3, <1>4

LEMMA ThreadType ==
  ASSUME NEW t \in Thread
  PROVE  /\ t.pc \in Pc /\ t.core \in Seq(Nat) /\ t.stat \in NodeStatistic
         /\ t.work \in Nat /\ t.kept \in Nat /\ t.result \in Nat
         /\ t.stat.now \in Nat /\ t.stat.last \in Nat /\ t.stat.count \in Nat
         /\ t.stat.outputs \in Seq(Nat) /\ Len(t.stat.outputs) \in Nat
BY LenProperties DEF Thread, NodeStatistic

(* A sender that is still in its loop has an output to make, if it has     *)
(* them all: every output moves last by an interval.                       *)
LEMMA OutputsInTime ==
  ASSUME cfg \in Configs, NEW t \in Thread, Counts(t), Len(t.stat.outputs) <= Total,
         Divides, t.stat.now < cfg.time
  PROVE  Len(t.stat.outputs) < Total
<1>1. cfg.interval \in Nat /\ cfg.time \in Nat /\ Total \in Nat /\ Total * cfg.interval = cfg.time
  BY Side DEF Divides
<1>2. /\ t.stat.last <= t.stat.now /\ Len(t.stat.outputs) * cfg.interval <= t.stat.last
  BY DEF Counts, Divides
<1>3. t.stat.last \in Nat /\ t.stat.now \in Nat /\ Len(t.stat.outputs) \in Nat  BY ThreadType
<1> SUFFICES ASSUME Len(t.stat.outputs) = Total PROVE FALSE
  BY <1>1, <1>3
<1>4. cfg.time <= t.stat.last  BY <1>1, <1>2
<1> QED BY <1>1, <1>2, <1>3, <1>4

LEMMA OneMoreOutput ==
  ASSUME NEW n \in Nat, NEW interval \in Nat, NEW last \in Nat, NEW at \in Nat,
         n * interval <= last, last + interval <= at
  PROVE  (n + 1) * interval <= at
<1>1. (n + 1) * interval = n * interval + interval  OBVIOUS
<1>2. n * interval \in Nat  OBVIOUS
<1> DEFINE p == n * interval
<1> HIDE DEF p
<1>3. p + interval <= at /\ p \in Nat  BY <1>2 DEF p
<1> QED BY <1>1, <1>3 DEF p

LEMMA LookedCounts ==
  ASSUME cfg \in Configs, NEW t \in Thread, t.pc = "run", Counts(t),
         Len(t.stat.outputs) <= Total, ~IsReceiver => t.stat.now < cfg.time,
         NEW at \in Nat, t.stat.now <= at
  PROVE  LET u == Looked(t, at)
         IN  /\ u \in Thread /\ u.pc = "run" /\ u.core = t.core /\ u.stat.now = at
             /\ Len(u.stat.outputs) <= Total /\ Counts(u)
             /\ Divides /\ Len(u.stat.outputs) >= Total => u.work <= u.kept
<1> DEFINE u == Looked(t, at)
           s == Checked(t.stat, cfg.interval, Total, at)
           o == t.stat.outputs
           n == Len(o)
<1>1. cfg.interval \in Nat /\ cfg.time \in Nat /\ Total \in Nat  BY Side
<1>2. /\ t.stat \in NodeStatistic /\ t.work \in Nat /\ t.kept \in Nat
      /\ t.stat.now \in Nat /\ t.stat.last \in Nat /\ t.stat.count \in Nat
      /\ o \in Seq(Nat) /\ n \in Nat
  BY ThreadType
<1>3. /\ s \in NodeStatistic /\ s.now = at /\ Len(s.outputs) <= Total
      /\ \/ s.last = t.stat.last /\ s.count = t.stat.count /\ s.outputs = o
         \/ /\ cfg.interval > 0 /\ at >= t.stat.last + cfg.interval
            /\ s.last = at /\ s.count = 0
            /\ \/ n < Total /\ s.outputs = Append(o, t.stat.count)
               \/ n = Total /\ s.outputs = o
  <2> DEFINE st == t.stat
             interval == cfg.interval
             total == Total
  <2>1. st \in NodeStatistic /\ interval \in Nat /\ total \in Nat /\ Len(st.outputs) <= total
    BY <1>1, <1>2
  <2> HIDE DEF st, interval, total
  <2>2. CheckedFrom(Checked(st, interval, total, at), st, interval, total, at)
    BY <2>1, CheckedParts
  <2> QED BY <2>2 DEF CheckedFrom, st, interval, total
<1> HIDE DEF s
<1>4. /\ u.stat = s /\ u.pc = "run" /\ u.core = t.core /\ u.work = t.work
      /\ u.kept = (IF s.outputs # o THEN t.work ELSE t.kept)
      /\ u \in Thread
  BY <1>2, <1>3 DEF Looked, Thread, s
<1> HIDE DEF u
<1>5. /\ t.kept = SumFunction(o)
      /\ t.kept + t.stat.count <= t.work
      /\ n < Total \/ cfg.interval = 0 => t.kept + t.stat.count = t.work
      /\ ~IsReceiver => t.stat.last <= t.stat.now /\ n * cfg.interval <= t.stat.last
      /\ Divides /\ n >= Total => t.work <= t.kept + 1
  BY DEF Counts
<1>6. Divides => n < Total  BY OutputsInTime DEF Divides
<1>7. CASE s.last = t.stat.last /\ s.count = t.stat.count /\ s.outputs = o
  <2>1. u.kept = t.kept  BY <1>4, <1>7
  <2>2. ~IsReceiver => s.last <= s.now  BY <1>2, <1>3, <1>5, <1>7
  <2>3. Divides => ~(n >= Total)  BY <1>1, <1>2, <1>6
  <2>4. Counts(u)
    <3> HIDE DEF n, o
    <3> QED BY <1>3, <1>4, <1>5, <1>7, <2>1, <2>2, <2>3 DEF Counts, n
  <2> QED BY <1>3, <1>4, <1>7, <2>3, <2>4 DEF u
<1>8. CASE /\ cfg.interval > 0 /\ at >= t.stat.last + cfg.interval /\ s.last = at /\ s.count = 0
           /\ n < Total /\ s.outputs = Append(o, t.stat.count)
  <2>1. Len(s.outputs) = n + 1 /\ s.outputs # o  BY <1>2, <1>8, AppendProperties
  <2>2. u.kept = t.work /\ t.work = t.kept + t.stat.count  BY <1>4, <1>5, <1>8, <2>1
  <2>3. SumFunction(s.outputs) = u.kept  BY <1>2, <1>5, <1>8, <2>2, SumOfSeq
  <2>4. ~IsReceiver => (n + 1) * cfg.interval <= at
    <3> HIDE DEF n, o
    <3>1. SUFFICES ASSUME ~IsReceiver PROVE (n + 1) * cfg.interval <= at
      OBVIOUS
    <3>2. n * cfg.interval <= t.stat.last  BY <1>5, <3>1
    <3>3. t.stat.last + cfg.interval <= at  BY <1>1, <1>2, <1>8
    <3> QED BY <1>1, <1>2, <3>2, <3>3, OneMoreOutput
  <2>5. u.kept + s.count = u.work /\ u.kept \in Nat /\ u.work <= u.kept /\ u.work <= u.kept + 1
    BY <1>2, <1>4, <1>8, <2>2
  <2>6. s.last <= s.now  BY <1>3, <1>8
  <2>7. u.kept + s.count <= u.work  BY <1>2, <1>4, <2>5
  <2>8. Counts(u)
    <3> HIDE DEF n, o
    <3> QED BY <1>4, <1>8, <2>1, <2>3, <2>4, <2>5, <2>6, <2>7 DEF Counts
  <2> QED BY <1>3, <1>4, <2>5, <2>8 DEF u
<1>9. CASE /\ cfg.interval > 0 /\ at >= t.stat.last + cfg.interval /\ s.last = at /\ s.count = 0
           /\ n = Total /\ s.outputs = o
  <2>1. u.kept = t.kept /\ ~Divides  BY <1>1, <1>4, <1>6, <1>9
  <2>2. t.kept <= t.work  BY <1>2, <1>5
  <2>3. ~IsReceiver => n * cfg.interval <= at
    <3> DEFINE p == n * cfg.interval
    <3>1. p \in Nat  BY <1>1, <1>2
    <3>2. ~IsReceiver => p <= t.stat.last  BY <1>5
    <3> HIDE DEF p
    <3>3. ~IsReceiver => p <= at  BY <1>1, <1>2, <1>9, <3>1, <3>2
    <3> QED BY <3>3 DEF p
  <2>4. u.kept + s.count <= u.work /\ s.last <= s.now  BY <1>2, <1>3, <1>4, <1>9, <2>1, <2>2
  <2>5. ~ (Len(s.outputs) < Total) /\ cfg.interval # 0  BY <1>1, <1>9
  <2>6. Counts(u)
    <3> HIDE DEF n, o
    <3> QED BY <1>4, <1>5, <1>9, <2>1, <2>3, <2>4, <2>5 DEF Counts, n
  <2> QED BY <1>3, <1>4, <2>1, <2>6 DEF u
<1> QED BY <1>3, <1>7, <1>8, <1>9

(* A turn that counts one more.                                            *)
LEMMA WorkCounts ==
  ASSUME cfg \in Configs, NEW u \in Thread, u.pc = "run", Counts(u),
         Divides /\ Len(u.stat.outputs) >= Total => u.work <= u.kept
  PROVE  LET v == [u EXCEPT !.stat.count = @ + 1, !.work = @ + 1]
         IN  /\ v \in Thread /\ v.pc = "run" /\ v.core = u.core /\ Counts(v)
             /\ v.stat.outputs = u.stat.outputs
<1> DEFINE v == [u EXCEPT !.stat.count = @ + 1, !.work = @ + 1]
<1>1. /\ u.stat \in NodeStatistic /\ u.work \in Nat /\ u.kept \in Nat
      /\ u.stat.now \in Nat /\ u.stat.last \in Nat /\ u.stat.count \in Nat
  BY ThreadType
<1> DEFINE stat == [u.stat EXCEPT !.count = u.stat.count + 1]
<1>2. /\ stat \in NodeStatistic /\ stat.count = u.stat.count + 1
      /\ stat.outputs = u.stat.outputs /\ stat.last = u.stat.last /\ stat.now = u.stat.now
  BY <1>1 DEF NodeStatistic
<1>3. v = [u EXCEPT !.stat = stat, !.work = u.work + 1]
  BY DEF Thread, NodeStatistic
<1> HIDE DEF stat, v
<1>4. /\ v.pc = u.pc /\ v.core = u.core /\ v.kept = u.kept /\ v.work = u.work + 1
      /\ v.stat = stat /\ v \in Thread
  <2>1. u.work + 1 \in Nat  BY <1>1
  <2>2. v.pc = u.pc /\ v.core = u.core /\ v.kept = u.kept /\ v.result = u.result
    BY <1>3 DEF Thread
  <2>3. v.work = u.work + 1 /\ v.stat = stat  BY <1>3 DEF Thread
  <2>4. v \in Thread  BY <1>2, <1>3, <2>1 DEF Thread
  <2> QED BY <2>2, <2>3, <2>4
<1>5. Counts(v)
  <2>1. /\ v.kept = SumFunction(v.stat.outputs)
        /\ ~IsReceiver => /\ v.stat.last <= v.stat.now
                          /\ Len(v.stat.outputs) * cfg.interval <= v.stat.last
    BY <1>2, <1>4 DEF Counts
  <2>2. v.kept + v.stat.count <= v.work  BY <1>1, <1>2, <1>4 DEF Counts
  <2>3. Len(v.stat.outputs) < Total \/ cfg.interval = 0 => v.kept + v.stat.count = v.work
    BY <1>1, <1>2, <1>4 DEF Counts
  <2>4. Divides /\ Len(v.stat.outputs) >= Total => v.work <= v.kept + 1
    BY <1>1, <1>2, <1>4
  <2> QED BY <2>1, <2>2, <2>3, <2>4 DEF Counts
<1> QED BY <1>2, <1>4, <1>5 DEF v
-----------------------------------------------------------------------------
LEMMA StartedCounts ==
  ASSUME cfg \in Configs, NEW t \in Thread, NEW offset \in Nat, t.stat = Started(offset),
         t.work = 0, t.kept = 0, ~IsReceiver => offset = 0
  PROVE  Counts(t) /\ Len(t.stat.outputs) = 0
<1>1. /\ t.stat.outputs = <<>> /\ t.stat.count = 0 /\ t.stat.now = 0 /\ t.stat.last = offset
  BY DEF Started
<1>2. <<>> \in Seq(Nat) /\ Len(t.stat.outputs) = 0  BY <1>1
<1>3. SumFunction(t.stat.outputs) = 0  BY <1>1, <1>2, SumOfSeq
<1>4. Len(t.stat.outputs) * cfg.interval = 0  BY <1>2, Side
<1> QED BY <1>1, <1>2, <1>3, <1>4 DEF Counts

(* A thread that has not come to its loop has counted nothing.             *)
LEMMA Fresh ==
  ASSUME cfg \in Configs, NEW pc \in Before, NEW core \in Seq(Nat)
  PROVE  LET t == [NewThread EXCEPT !.pc = pc, !.core = core]
         IN  /\ t \in Thread /\ t.pc = pc /\ t.core = core /\ t.stat = Started(0)
             /\ t.work = 0 /\ t.kept = 0 /\ t.result = 0
             /\ BookOf(t)
<1> DEFINE t == [NewThread EXCEPT !.pc = pc, !.core = core]
<1>1. Started(0) \in NodeStatistic /\ pc \in Pc
  BY DEF Started, NodeStatistic, Before, Pc
<1>2. /\ t \in Thread /\ t.pc = pc /\ t.core = core /\ t.stat = Started(0)
      /\ t.work = 0 /\ t.kept = 0 /\ t.result = 0
  BY <1>1 DEF NewThread, Thread
<1> HIDE DEF t
<1>3. Counts(t)  BY <1>2, StartedCounts
<1>4. t.pc \notin {"ok"} /\ t.pc \in Running  BY <1>2 DEF Before, Running
<1>5. t = [NewThread EXCEPT !.pc = t.pc, !.core = t.core]  BY <1>2 DEF t
<1>6. BookOf(t)  BY <1>3, <1>4, <1>5 DEF BookOf
<1> QED BY <1>2, <1>6 DEF t

(* What a thread returns, from what it has counted.                        *)
LEMMA Returned ==
  ASSUME NEW t \in Thread, FinalCount(t.stat) \in Nat,
         t.kept <= FinalCount(t.stat), FinalCount(t.stat) <= t.work,
         cfg.interval = 0 => FinalCount(t.stat) = t.work,
         Divides => t.work <= FinalCount(t.stat) + 1,
         ~IsReceiver /\ Total > 0 => t.stat.outputs # <<>>
  PROVE  /\ Returning(t) \in Thread /\ Returning(t).pc = "ok"
         /\ Returning(t).core = t.core /\ Returning(t).stat = t.stat
         /\ BookOf(Returning(t))
<1> DEFINE u == Returning(t)
           n == FinalCount(t.stat)
<1>1. n \in Nat /\ t.work \in Nat /\ t.kept \in Nat  BY ThreadType
<1> HIDE DEF n
<1>2. u = [t EXCEPT !.pc = "ok", !.result = n]  BY DEF Returning, n
<1> HIDE DEF u
<1>3. /\ u \in Thread /\ u.pc = "ok" /\ u.core = t.core /\ u.stat = t.stat
      /\ u.result = n /\ u.work = t.work /\ u.kept = t.kept
  BY <1>1, <1>2 DEF Thread, Pc, Ended
<1>4. u.result \in u.kept .. u.work
  <2>1. t.kept <= n /\ n <= t.work  BY DEF n
  <2> QED BY <1>1, <1>3, <2>1
<1>5. Divides => u.work - u.result <= 1
  <2>1. Divides => t.work <= n + 1  BY DEF n
  <2> QED BY <1>1, <1>3, <2>1
<1>6. u.result = FinalCount(u.stat) /\ (cfg.interval = 0 => u.result = u.work)  BY <1>3 DEF n
<1>7. Returns(u)  BY <1>3, <1>4, <1>5, <1>6 DEF Returns
<1>8. BookOf(u)  BY <1>3, <1>7 DEF BookOf, Running, Before
<1> QED BY <1>3, <1>8 DEF u

LEMMA ReceiverReturns ==
  ASSUME cfg \in Configs, IsReceiver, NEW t \in Thread, Counts(t), Len(t.stat.outputs) <= Total
  PROVE  /\ Returning(t) \in Thread /\ Returning(t).pc = "ok"
         /\ Returning(t).core = t.core /\ Returning(t).stat = t.stat
         /\ BookOf(Returning(t))
<1>1. /\ t.work \in Nat /\ t.kept \in Nat /\ t.stat.count \in Nat
      /\ t.stat.outputs \in Seq(Nat) /\ Len(t.stat.outputs) \in Nat
  BY ThreadType
<1>2. t.kept = SumFunction(t.stat.outputs) /\ t.kept + t.stat.count <= t.work  BY DEF Counts
<1>3. cfg.interval = 0 =>
        t.stat.outputs = <<>> /\ t.kept = 0 /\ t.kept + t.stat.count = t.work
  <2>1. cfg.interval = 0 => Len(t.stat.outputs) = 0  BY <1>1, Side
  <2>2. cfg.interval = 0 => t.stat.outputs = <<>>  BY <1>1, <2>1, EmptySeq
  <2> QED BY <1>1, <1>2, <2>2, SumOfSeq DEF Counts
<1>4. CASE t.stat.outputs = <<>>
  <2>1. FinalCount(t.stat) = t.stat.count /\ t.kept = 0
    BY <1>1, <1>2, <1>4, SumOfSeq DEF FinalCount
  <2> QED BY <1>1, <1>2, <1>3, <2>1, Returned DEF Divides
<1>5. CASE t.stat.outputs # <<>>
  <2>1. FinalCount(t.stat) = t.kept  BY <1>2, <1>5 DEF FinalCount
  <2>2. t.kept <= t.work  BY <1>1, <1>2
  <2> QED BY <1>1, <1>3, <1>5, <2>1, <2>2, Returned DEF Divides
<1> QED BY <1>4, <1>5

(* The sender's last interval.                                             *)
LEMMA SenderReturns ==
  ASSUME cfg \in Configs, ~IsReceiver, NEW t \in Thread, Counts(t),
         Len(t.stat.outputs) <= Total, NEW at \in Nat
  PROVE  LET s == WithLastInterval([t.stat EXCEPT !.now = at], cfg.interval, Total)
             u == [t EXCEPT !.stat = s]
         IN  /\ u \in Thread /\ u.pc = t.pc /\ u.core = t.core
             /\ Len(u.stat.outputs) <= Total
             /\ Returning(u) \in Thread /\ Returning(u).pc = "ok"
             /\ Returning(u).core = t.core /\ Returning(u).stat = u.stat
             /\ BookOf(Returning(u))
<1> DEFINE n == [t.stat EXCEPT !.now = at]
           s == WithLastInterval(n, cfg.interval, Total)
           u == [t EXCEPT !.stat = s]
<1>1. /\ t.stat \in NodeStatistic /\ t.work \in Nat /\ t.kept \in Nat /\ t.stat.count \in Nat
      /\ t.stat.outputs \in Seq(Nat) /\ Len(t.stat.outputs) \in Nat
  BY ThreadType
<1>2. cfg.interval \in Nat /\ Total \in Nat /\ (cfg.interval = 0 => Total = 0)  BY Side
<1>3. /\ t.kept = SumFunction(t.stat.outputs) /\ t.kept + t.stat.count <= t.work
      /\ (Len(t.stat.outputs) < Total \/ cfg.interval = 0 => t.kept + t.stat.count = t.work)
      /\ (Divides /\ Len(t.stat.outputs) >= Total => t.work <= t.kept + 1)
  BY DEF Counts
<1>4. /\ n \in NodeStatistic /\ n.count = t.stat.count /\ n.outputs = t.stat.outputs
  BY <1>1 DEF NodeStatistic
<1> HIDE DEF n
<1>5. CASE cfg.interval > 0 /\ Len(t.stat.outputs) < Total
  <2> DEFINE o == Append(t.stat.outputs, t.stat.count)
  <2>1. /\ o \in Seq(Nat) /\ Len(o) = Len(t.stat.outputs) + 1 /\ o # <<>>
        /\ SumFunction(o) = t.kept + t.stat.count
    <3>1. o \in Seq(Nat) /\ Len(o) = Len(t.stat.outputs) + 1  BY <1>1, AppendProperties
    <3>2. SumFunction(o) = SumFunction(t.stat.outputs) + t.stat.count  BY <1>1, SumOfSeq
    <3>3. o # <<>>
      <4> HIDE DEF o
      <4> QED BY <1>1, <3>1
    <3> QED BY <1>3, <3>1, <3>2, <3>3
  <2>2. s = [n EXCEPT !.last = n.now, !.outputs = o]
    <3>1. ~Finished(n, Total)  BY <1>1, <1>2, <1>4, <1>5 DEF Finished
    <3> QED BY <1>4, <1>5, <3>1 DEF WithLastInterval, Calculated, NodeStatistic
  <2> HIDE DEF o, s
  <2>3. s \in NodeStatistic /\ s.outputs = o  BY <1>4, <2>1, <2>2 DEF NodeStatistic
  <2>4. /\ u \in Thread /\ u.pc = t.pc /\ u.core = t.core /\ u.stat = s
        /\ u.work = t.work /\ u.kept = t.kept
    BY <2>3 DEF Thread
  <2> HIDE DEF u
  <2>5. FinalCount(u.stat) = t.work  BY <1>3, <1>5, <2>1, <2>3, <2>4 DEF FinalCount
  <2>6. Len(u.stat.outputs) <= Total  BY <1>1, <1>2, <1>5, <2>1, <2>3, <2>4
  <2>7. t.kept <= t.work  BY <1>1, <1>3
  <2>8. u.stat.outputs # <<>>  BY <2>1, <2>3, <2>4
  <2>9. /\ Returning(u) \in Thread /\ Returning(u).pc = "ok"
        /\ Returning(u).core = u.core /\ Returning(u).stat = u.stat
        /\ BookOf(Returning(u))
    BY <1>1, <2>4, <2>5, <2>7, <2>8, Returned
  <2> QED BY <2>4, <2>6, <2>9 DEF u, s, n
<1>6. CASE ~ (cfg.interval > 0 /\ Len(t.stat.outputs) < Total)
  <2>1. s = n
    <3>1. ~ (cfg.interval > 0) \/ Finished(n, Total)  BY <1>1, <1>2, <1>4, <1>6 DEF Finished
    <3> QED BY <3>1 DEF WithLastInterval
  <2> HIDE DEF s
  <2>2. /\ u \in Thread /\ u.pc = t.pc /\ u.core = t.core /\ u.stat = n
        /\ u.work = t.work /\ u.kept = t.kept
    BY <1>4, <2>1 DEF Thread
  <2> HIDE DEF u
  <2>3. Len(t.stat.outputs) = Total  BY <1>1, <1>2, <1>6
  <2>4. Len(u.stat.outputs) <= Total  BY <1>1, <1>4, <2>2, <2>3
  <2>5. /\ FinalCount(u.stat) \in Nat /\ t.kept <= FinalCount(u.stat)
        /\ FinalCount(u.stat) <= t.work
        /\ cfg.interval = 0 => FinalCount(u.stat) = t.work
        /\ Divides => t.work <= FinalCount(u.stat) + 1
        /\ Total > 0 => u.stat.outputs # <<>>
    <3>1. CASE Total > 0
      <4>1. t.stat.outputs # <<>>  BY <2>3, <3>1
      <4>2. FinalCount(u.stat) = t.kept  BY <1>3, <1>4, <2>2, <4>1 DEF FinalCount
      <4>3. Divides => t.work <= t.kept + 1  BY <1>2, <1>3, <2>3
      <4>4. t.kept <= t.work /\ cfg.interval # 0  BY <1>1, <1>2, <1>3, <3>1
      <4> QED BY <1>1, <1>4, <2>2, <4>1, <4>2, <4>3, <4>4
    <3>2. CASE Total = 0
      <4>1. t.stat.outputs = <<>>  BY <1>1, <2>3, <3>2, EmptySeq
      <4>2. FinalCount(u.stat) = t.stat.count /\ t.kept = 0
        BY <1>1, <1>3, <1>4, <2>2, <4>1, SumOfSeq DEF FinalCount
      <4>3. Divides => t.work <= 1  BY <1>2, <1>3, <2>3, <4>2
      <4>4. cfg.interval = 0 => t.stat.count = t.work  BY <1>1, <1>3, <4>2
      <4>5. t.stat.count <= t.work  BY <1>1, <1>3, <4>2
      <4> QED BY <1>1, <3>2, <4>2, <4>3, <4>4, <4>5
    <3> QED BY <1>2, <3>1, <3>2
  <2>6. /\ Returning(u) \in Thread /\ Returning(u).pc = "ok"
        /\ Returning(u).core = u.core /\ Returning(u).stat = u.stat
        /\ BookOf(Returning(u))
    BY <2>2, <2>5, Returned
  <2> QED BY <2>2, <2>4, <2>6 DEF u, s, n
<1> QED BY <1>5, <1>6
-----------------------------------------------------------------------------
(* A step of a thread changes that thread alone, and keeps its books.      *)
Moves(i, u) ==
  /\ i \in DOMAIN th /\ th[i].pc \in Running
  /\ th' = [th EXCEPT ![i] = u]
  /\ u \in Thread /\ Len(u.stat.outputs) <= Total /\ BookOf(u)
  /\ UNCHANGED <<cfg, main, round, joined, final, finals>>

LEMMA BoundCore ==
  ASSUME TypeOK
  PROVE  /\ Len(cfg.machine.nodes) \in Nat \ {0}
         /\ ForwardNode(cfg.machine, manager) \in 0 .. Len(cfg.machine.nodes) - 1
         /\ Bound(cfg.machine, manager) \in Seq(Nat)
         /\ Bound(cfg.machine, manager) # <<>>
<1>1. cfg \in Configs /\ manager.core \in Nat /\ manager.node \in 0 .. Len(cfg.machine.nodes) - 1
  BY UsizeMaxAssumption DEF TypeOK
<1>2. cfg.machine \in Topology  BY <1>1, Side DEF Config
<1> DEFINE n == Len(cfg.machine.nodes)
<1>3. n \in Nat \ {0}  BY <1>2, LenProperties DEF Topology
<1> HIDE DEF n
<1>4. manager.node \in 0 .. n - 1  BY <1>1 DEF n
<1>5. (manager.node + 1) % n \in 0 .. n - 1  BY <1>3, <1>4
<1>6. ForwardNode(cfg.machine, manager) \in 0 .. n - 1  BY <1>4, <1>5 DEF ForwardNode, n
<1> DEFINE f == ForwardNode(cfg.machine, manager)
<1> HIDE DEF f
<1>7. f \in Nat  BY <1>3, <1>6 DEF f
<1>8. <<f, manager.core>> \in Seq(Nat) /\ <<f, manager.core>> # <<>>  BY <1>1, <1>7
<1> QED BY <1>3, <1>6, <1>8 DEF n, Bound, f

LEMMA Typed ==
  ASSUME TypeOK, Books, NEW i \in DOMAIN th
  PROVE  /\ cfg \in Configs /\ th[i] \in Thread /\ Len(th[i].stat.outputs) <= Total
         /\ BookOf(th[i])
         /\ th[i].pc \in Before =>
               /\ th[i] = [NewThread EXCEPT !.pc = th[i].pc, !.core = th[i].core]
               /\ th[i].core \in Seq(Nat)
         /\ th[i].pc \in Running => Counts(th[i])
BY ThreadType DEF TypeOK, Books, BookOf

LEMMA Stopped ==
  ASSUME NEW t, t.pc \in {"err", "panic", "stillborn"}
  PROVE  BookOf(t)
BY DEF BookOf, Before, Running

LEMMA PinMoves ==
  ASSUME TypeOK, Books, NEW i \in DOMAIN th, Pin(i)
  PROVE  \E u : Moves(i, u) /\ u.pc \in {"open", "stillborn"}
<1> DEFINE t == th[i]
<1>1. /\ cfg \in Configs /\ t.pc = "start" /\ t.pc \in Before /\ t.core \in Seq(Nat)
      /\ t = [NewThread EXCEPT !.pc = t.pc, !.core = t.core]
      /\ Len(t.stat.outputs) <= Total /\ t \in Thread
      /\ UNCHANGED <<cfg, main, round, joined, final, finals>>
  BY Typed DEF Pin, Before
<1>2. t.pc \in Running  BY <1>1 DEF Running
<1>3. PICK core \in Seq(Nat), pc \in {"open", "stillborn"} :
        th' = [th EXCEPT ![i] = [t EXCEPT !.pc = pc, !.core = core]]
  <2>1. [t EXCEPT !.pc = "open"] = [t EXCEPT !.pc = "open", !.core = t.core]
    BY <1>1 DEF Thread
  <2>2. [t EXCEPT !.pc = "stillborn"] = [t EXCEPT !.pc = "stillborn", !.core = t.core]
    BY <1>1 DEF Thread
  <2>3. Bound(cfg.machine, manager) \in Seq(Nat)  BY BoundCore
  <2>4. CASE th' = [th EXCEPT ![i].pc = "open"]  BY <1>1, <2>1, <2>4
  <2>5. CASE th' = [th EXCEPT ![i].pc = "stillborn"]  BY <1>1, <2>2, <2>5
  <2>6. CASE th' = [th EXCEPT ![i].pc = "open", ![i].core = Bound(cfg.machine, manager)]
    BY <1>1, <2>3, <2>6
  <2> QED BY <2>4, <2>5, <2>6 DEF Pin
<1> DEFINE u == [t EXCEPT !.pc = pc, !.core = core]
<1>4. u \in Thread /\ u.pc = pc /\ u.core = core /\ u.stat = t.stat
  BY <1>1 DEF Thread, Pc, Ended
<1>5. BookOf(u)
  <2>1. CASE pc = "open"
    <3>1. u = [NewThread EXCEPT !.pc = "open", !.core = core]
      BY <1>1, <2>1 DEF NewThread
    <3> HIDE DEF u
    <3> QED BY <1>1, <3>1, Fresh DEF Before
  <2>2. CASE pc = "stillborn"
    <3> HIDE DEF u
    <3> QED BY <1>4, <2>2, Stopped
  <2> QED BY <2>1, <2>2
<1>6. Moves(i, u)  BY <1>1, <1>2, <1>3, <1>4, <1>5 DEF Moves, u
<1> QED BY <1>4, <1>6

LEMMA OpenMoves ==
  ASSUME TypeOK, Books, NEW i \in DOMAIN th, Open(i)
  PROVE  \E u : /\ Moves(i, u) /\ u.core = th[i].core
               /\ u.pc = IF OwnsPort /\ i \in bound THEN "stillborn" ELSE "wait"
<1> DEFINE t == th[i]
           pc == IF OwnsPort /\ i \in bound THEN "stillborn" ELSE "wait"
           u == [t EXCEPT !.pc = pc]
<1>1. /\ cfg \in Configs /\ t.pc \in Before /\ t.pc \in Running /\ t.core \in Seq(Nat)
      /\ t = [NewThread EXCEPT !.pc = t.pc, !.core = t.core]
      /\ Len(t.stat.outputs) <= Total /\ t \in Thread
      /\ UNCHANGED <<cfg, main, round, joined, final, finals>>
      /\ th' = [th EXCEPT ![i] = u]
  BY Typed DEF Open, Before, Running
<1>2. pc \in {"wait", "stillborn"}  OBVIOUS
<1> HIDE DEF pc
<1>3. u \in Thread /\ u.pc = pc /\ u.stat = t.stat /\ u.core = t.core
  BY <1>1, <1>2 DEF Thread, Pc, Ended
<1>4. BookOf(u)
  <2>1. CASE pc = "wait"
    <3>1. u = [NewThread EXCEPT !.pc = "wait", !.core = t.core]
      BY <1>1, <2>1 DEF NewThread
    <3> HIDE DEF u
    <3> QED BY <1>1, <3>1, Fresh DEF Before
  <2>2. CASE pc = "stillborn"
    <3> HIDE DEF u
    <3> QED BY <1>3, <2>2, Stopped
  <2> QED BY <1>2, <2>1, <2>2
<1> HIDE DEF u
<1>5. Moves(i, u)  BY <1>1, <1>3, <1>4 DEF Moves
<1> QED BY <1>3, <1>5 DEF pc

LEMMA BeginMoves ==
  ASSUME TypeOK, Books, NEW i \in DOMAIN th, Begin(i)
  PROVE  \E u : Moves(i, u) /\ u.core = th[i].core /\ u.pc = "run"
<1> DEFINE t == th[i]
           offset == IF IsReceiver THEN cfg.wait ELSE 0
           u == [t EXCEPT !.pc = "run", !.stat = Started(offset)]
<1>1. /\ cfg \in Configs /\ t.pc \in Before /\ t.pc \in Running /\ t.core \in Seq(Nat)
      /\ t = [NewThread EXCEPT !.pc = t.pc, !.core = t.core] /\ t \in Thread
      /\ UNCHANGED <<cfg, main, round, joined, final, finals>>
      /\ th' = [th EXCEPT ![i] = u]
  BY Typed DEF Begin, Before, Running
<1>2. offset \in Nat /\ (~IsReceiver => offset = 0)  BY <1>1, Side
<1> HIDE DEF offset
<1>3. Started(offset) \in NodeStatistic /\ t.work = 0 /\ t.kept = 0
  <2>1. Started(offset) \in NodeStatistic  BY <1>2 DEF Started, NodeStatistic
  <2>2. t.work = 0 /\ t.kept = 0  BY <1>1 DEF NewThread
  <2> QED BY <2>1, <2>2
<1>4. /\ u \in Thread /\ u.pc = "run" /\ u.core = t.core /\ u.stat = Started(offset)
      /\ u.work = 0 /\ u.kept = 0
  BY <1>1, <1>3 DEF Thread, Pc
<1> HIDE DEF u
<1>5. Counts(u) /\ Len(u.stat.outputs) = 0  BY <1>1, <1>2, <1>4, StartedCounts
<1>6. BookOf(u)  BY <1>4, <1>5 DEF BookOf, Before
<1>7. Moves(i, u)  BY <1>1, <1>4, <1>5, <1>6, Side DEF Moves
<1> QED BY <1>4, <1>7

LEMMA NoBeginMoves ==
  ASSUME TypeOK, Books, NEW i \in DOMAIN th, NoBegin(i)
  PROVE  \E u : Moves(i, u) /\ u.core = th[i].core /\ u.pc \in {"ok", "err"}
<1> DEFINE t == th[i]
<1>1. PICK pc \in IF IsReceiver THEN {"ok", "err"} ELSE {"err"} :
        th' = [th EXCEPT ![i] = [t EXCEPT !.pc = pc]]
  BY DEF NoBegin, Leave
<1> DEFINE u == [t EXCEPT !.pc = pc]
<1>2. /\ cfg \in Configs /\ t.pc \in Before /\ t.pc \in Running /\ t.core \in Seq(Nat)
      /\ t = [NewThread EXCEPT !.pc = t.pc, !.core = t.core] /\ t \in Thread
      /\ Len(t.stat.outputs) <= Total
      /\ UNCHANGED <<cfg, main, round, joined, final, finals>>
  BY Typed DEF NoBegin, Before, Running
<1>3. t.stat = Started(0) /\ t.work = 0 /\ t.kept = 0 /\ t.result = 0  BY <1>2 DEF NewThread
<1>4. /\ u \in Thread /\ u.pc = pc /\ u.core = t.core /\ u.stat = Started(0)
      /\ u.work = 0 /\ u.kept = 0 /\ u.result = 0
  BY <1>1, <1>2, <1>3 DEF Thread, Pc, Ended
<1>5. BookOf(u)
  <2> HIDE DEF u
  <2>1. CASE pc = "ok"
    <3>1. IsReceiver  BY <1>1, <2>1
    <3>2. FinalCount(u.stat) = 0  BY <1>4 DEF FinalCount, Started
    <3>3. Returns(u)  BY <1>4, <3>1, <3>2 DEF Returns, Divides
    <3> QED BY <1>4, <2>1, <3>3 DEF BookOf, Before, Running
  <2>2. CASE pc = "err"  BY <1>4, <2>2, Stopped
  <2> QED BY <1>1, <2>1, <2>2
<1>6. Len(u.stat.outputs) <= Total  BY <1>2, <1>3, <1>4
<1> HIDE DEF u
<1>7. Moves(i, u)  BY <1>1, <1>2, <1>4, <1>5, <1>6 DEF Moves, u
<1> QED BY <1>1, <1>4, <1>7

(* A turn of the loop, whatever comes of it.                               *)
LEMMA TurnLooks ==
  ASSUME TypeOK, Books, NEW i \in DOMAIN th, InLoop(th[i]), NEW at \in Later(i)
  PROVE  LET u == Looked(th[i], at)
         IN  /\ cfg \in Configs /\ th[i].pc \in Running
             /\ u \in Thread /\ u.pc = "run" /\ u.core = th[i].core
             /\ Len(u.stat.outputs) <= Total /\ Counts(u) /\ BookOf(u)
             /\ Divides /\ Len(u.stat.outputs) >= Total => u.work <= u.kept
<1>1. /\ cfg \in Configs /\ th[i] \in Thread /\ Len(th[i].stat.outputs) <= Total
      /\ th[i].pc = "run" /\ th[i].pc \in Running /\ Counts(th[i])
      /\ ~IsReceiver => th[i].stat.now < cfg.time
  BY Typed DEF InLoop, Running
<1>2. at \in Nat /\ th[i].stat.now <= at  BY <1>1, ThreadType, BoundsAssumption DEF Later
<1> DEFINE u == Looked(th[i], at)
<1>3. /\ u \in Thread /\ u.pc = "run" /\ u.core = th[i].core
      /\ Len(u.stat.outputs) <= Total /\ Counts(u)
      /\ Divides /\ Len(u.stat.outputs) >= Total => u.work <= u.kept
  BY <1>1, <1>2, LookedCounts
<1> HIDE DEF u
<1>4. BookOf(u)  BY <1>3 DEF BookOf, Before
<1> QED BY <1>1, <1>3, <1>4 DEF u

LEMMA WorkMoves ==
  ASSUME TypeOK, Books, NEW i \in DOMAIN th, Work(i)
  PROVE  \E u : Moves(i, u) /\ u.core = th[i].core /\ u.pc = "run"
<1>1. PICK at \in Later(i) :
        th' = [th EXCEPT ![i] = [Looked(th[i], at) EXCEPT !.stat.count = @ + 1, !.work = @ + 1]]
  BY DEF Work
<1> DEFINE t == Looked(th[i], at)
           u == [t EXCEPT !.stat.count = @ + 1, !.work = @ + 1]
<1>2. InLoop(th[i]) /\ UNCHANGED <<cfg, main, round, joined, final, finals>>  BY DEF Work
<1>3. /\ cfg \in Configs /\ th[i].pc \in Running
      /\ t \in Thread /\ t.pc = "run" /\ t.core = th[i].core
      /\ Len(t.stat.outputs) <= Total /\ Counts(t)
      /\ Divides /\ Len(t.stat.outputs) >= Total => t.work <= t.kept
  BY <1>2, TurnLooks
<1> HIDE DEF t
<1>4. /\ u \in Thread /\ u.pc = "run" /\ u.core = t.core /\ Counts(u)
      /\ u.stat.outputs = t.stat.outputs
  BY <1>3, WorkCounts
<1>5. th' = [th EXCEPT ![i] = u]  BY <1>1 DEF t
<1> HIDE DEF u
<1>6. BookOf(u)  BY <1>4 DEF BookOf, Before
<1>7. Moves(i, u)  BY <1>2, <1>3, <1>4, <1>5, <1>6 DEF Moves
<1> QED BY <1>3, <1>4, <1>7

LEMMA IdleMoves ==
  ASSUME TypeOK, Books, NEW i \in DOMAIN th, Idle(i)
  PROVE  \E u : Moves(i, u) /\ u.core = th[i].core /\ u.pc = "run"
<1>1. PICK at \in Later(i) : th' = [th EXCEPT ![i] = Looked(th[i], at)]  BY DEF Idle
<1> DEFINE u == Looked(th[i], at)
<1>2. InLoop(th[i]) /\ UNCHANGED <<cfg, main, round, joined, final, finals>>  BY DEF Idle
<1>3. /\ th[i].pc \in Running /\ u \in Thread /\ u.pc = "run" /\ u.core = th[i].core
      /\ Len(u.stat.outputs) <= Total /\ BookOf(u)
  BY <1>2, TurnLooks
<1>4. Moves(i, u)  BY <1>1, <1>2, <1>3 DEF Moves
<1> QED BY <1>3, <1>4

LEMMA FailMoves ==
  ASSUME TypeOK, Books, NEW i \in DOMAIN th, Fail(i)
  PROVE  \E u : Moves(i, u) /\ u.core = th[i].core /\ u.pc \in {"err", "panic"}
<1>1. PICK at \in Later(i), pc \in IF IsReceiver THEN {"err", "panic"} ELSE {"err"} :
        th' = [th EXCEPT ![i] = [Looked(th[i], at) EXCEPT !.pc = pc]]
  BY DEF Fail, Leave
<1> DEFINE t == Looked(th[i], at)
           u == [t EXCEPT !.pc = pc]
<1>2. InLoop(th[i]) /\ UNCHANGED <<cfg, main, round, joined, final, finals>>  BY DEF Fail
<1>3. /\ th[i].pc \in Running /\ t \in Thread /\ t.core = th[i].core
      /\ Len(t.stat.outputs) <= Total
  BY <1>2, TurnLooks
<1>4. th' = [th EXCEPT ![i] = u] /\ pc \in {"err", "panic"}  BY <1>1
<1> HIDE DEF t
<1>5. u \in Thread /\ u.pc = pc /\ u.core = t.core /\ u.stat = t.stat
  BY <1>3, <1>4 DEF Thread, Pc, Ended
<1> HIDE DEF u
<1>6. BookOf(u)  BY <1>4, <1>5, Stopped
<1>7. Moves(i, u)  BY <1>2, <1>3, <1>4, <1>5, <1>6 DEF Moves
<1> QED BY <1>3, <1>4, <1>5, <1>7

LEMMA EndReceiverMoves ==
  ASSUME TypeOK, Books, NEW i \in DOMAIN th, EndReceiver(i)
  PROVE  \E u : Moves(i, u) /\ u.core = th[i].core /\ u.pc = "ok"
<1>1. PICK at \in Later(i) : th' = [th EXCEPT ![i] = Returning(Looked(th[i], at))]
  BY DEF EndReceiver
<1> DEFINE t == Looked(th[i], at)
           u == Returning(t)
<1>2. /\ IsReceiver /\ InLoop(th[i]) /\ UNCHANGED <<cfg, main, round, joined, final, finals>>
  BY DEF EndReceiver
<1>3. /\ cfg \in Configs /\ th[i].pc \in Running /\ t \in Thread /\ t.core = th[i].core
      /\ Len(t.stat.outputs) <= Total /\ Counts(t)
  BY <1>2, TurnLooks
<1>4. th' = [th EXCEPT ![i] = u]  BY <1>1
<1> HIDE DEF t
<1>5. u \in Thread /\ u.pc = "ok" /\ u.core = t.core /\ u.stat = t.stat /\ BookOf(u)
  BY <1>2, <1>3, ReceiverReturns
<1> HIDE DEF u
<1>6. Moves(i, u)  BY <1>2, <1>3, <1>4, <1>5 DEF Moves
<1> QED BY <1>3, <1>5, <1>6

LEMMA EndSenderMoves ==
  ASSUME TypeOK, Books, NEW i \in DOMAIN th, EndSender(i)
  PROVE  \E u : Moves(i, u) /\ u.core = th[i].core /\ u.pc \in {"ok", "err"}
<1> DEFINE s(at) == WithLastInterval([th[i].stat EXCEPT !.now = at], cfg.interval, Total)
           t(at) == [th[i] EXCEPT !.stat = s(at)]
<1>1. PICK at \in Later(i), pc \in {"ok", "err"} :
        th' = [th EXCEPT ![i] = IF pc = "ok" THEN Returning(t(at)) ELSE [t(at) EXCEPT !.pc = pc]]
  BY DEF EndSender
<1>2. /\ ~IsReceiver /\ th[i].pc = "run" /\ th[i].pc \in Running
      /\ UNCHANGED <<cfg, main, round, joined, final, finals>>
  BY DEF EndSender, Running
<1>3. cfg \in Configs /\ th[i] \in Thread /\ Len(th[i].stat.outputs) <= Total /\ Counts(th[i])
  BY <1>2, Typed
<1>4. at \in Nat  BY <1>3, ThreadType, BoundsAssumption DEF Later
<1> DEFINE v == t(at)
<1>5. /\ v \in Thread /\ v.core = th[i].core /\ Len(v.stat.outputs) <= Total
      /\ Returning(v) \in Thread /\ Returning(v).pc = "ok" /\ Returning(v).core = th[i].core
      /\ Returning(v).stat = v.stat /\ BookOf(Returning(v))
  BY <1>2, <1>3, <1>4, SenderReturns
<1>6. th' = [th EXCEPT ![i] = IF pc = "ok" THEN Returning(v) ELSE [v EXCEPT !.pc = pc]]
  BY <1>1
<1> HIDE DEF v
<1>7. CASE pc = "ok"
  <2>1. Moves(i, Returning(v))  BY <1>2, <1>5, <1>6, <1>7 DEF Moves
  <2> QED BY <1>5, <2>1
<1>8. CASE pc = "err"
  <2> DEFINE u == [v EXCEPT !.pc = "err"]
  <2>1. u \in Thread /\ u.pc = "err" /\ u.core = v.core /\ u.stat = v.stat
    BY <1>5 DEF Thread, Pc, Ended
  <2>2. th' = [th EXCEPT ![i] = u]  BY <1>6, <1>8
  <2> HIDE DEF u
  <2>3. BookOf(u)  BY <2>1, Stopped
  <2>4. Moves(i, u)  BY <1>2, <1>5, <2>1, <2>2, <2>3 DEF Moves
  <2> QED BY <1>5, <2>1, <2>4
<1> QED BY <1>7, <1>8

LEMMA ThreadMoves ==
  ASSUME TypeOK, Books, NEW i \in DOMAIN th, ThreadStep(i)
  PROVE  \E u : Moves(i, u)
BY PinMoves, OpenMoves, BeginMoves, NoBeginMoves, WorkMoves, IdleMoves, FailMoves,
   EndReceiverMoves, EndSenderMoves DEF ThreadStep
-----------------------------------------------------------------------------
(* After a thread's step: the main thread still waits for it.              *)
LEMMA AfterMove ==
  ASSUME TypeOK, Rounded, Books, NEW i, NEW u, Moves(i, u)
  PROVE  /\ main = "join" /\ i \in Threads /\ i \notin 1 .. joined /\ DOMAIN th = Threads
         /\ DOMAIN th' = DOMAIN th /\ th'[i] = u /\ \A j \in DOMAIN th \ {i} : th'[j] = th[j]
         /\ \A j \in DOMAIN th : th'[j] \in Thread /\ Len(th'[j].stat.outputs) <= Total
         /\ Rounded' /\ Books'
<1>1. /\ i \in DOMAIN th /\ th[i].pc \in Running /\ th' = [th EXCEPT ![i] = u]
      /\ u \in Thread /\ Len(u.stat.outputs) <= Total /\ BookOf(u)
      /\ UNCHANGED <<cfg, main, round, joined, final, finals>>
  BY DEF Moves
<1>2. th[i].pc \notin Ended  BY <1>1 DEF Running, Before, Ended
<1>3. main = "join" /\ DOMAIN th = Threads /\ i \notin 1 .. joined
  BY <1>1, <1>2 DEF Rounded
<1>4. /\ DOMAIN th' = DOMAIN th /\ th'[i] = u /\ \A j \in DOMAIN th \ {i} : th'[j] = th[j]
      /\ th' = [j \in DOMAIN th' |-> th'[j]]
  BY <1>1
<1>5. \A j \in DOMAIN th : th'[j] \in Thread /\ Len(th'[j].stat.outputs) <= Total /\ BookOf(th'[j])
  BY <1>1, <1>4 DEF TypeOK, Books
<1>6. Threads' = Threads /\ \A t : BookOf(t)' <=> BookOf(t)
  <2>1. cfg' = cfg  BY <1>1
  <2> QED BY <2>1, Frame
<1>7. Books'
  <2>1. \A j \in DOMAIN th' : BookOf(th[j])'
    <3>1. SUFFICES ASSUME NEW j \in DOMAIN th' PROVE BookOf(th[j])'
      OBVIOUS
    <3>2. BookOf(th'[j])  BY <1>4, <1>5
    <3>3. cfg' = cfg  BY <1>1
    <3> QED BY <3>2, <3>3
         DEF BookOf, Counts, Returns, Divides, IsReceiver, Total
  <2> QED BY <2>1 DEF Books
<1>8. Rounded'
  <2>1. main' = "join" /\ DOMAIN th' = Threads' /\ joined' = joined  BY <1>1, <1>3, <1>4, <1>6
  <2>2. 1 .. joined \subseteq DOMAIN th /\ \A j \in 1 .. joined : th[j].pc \in Ended
    BY DEF Rounded
  <2>3. \A j \in 1 .. joined' : th'[j].pc \in Ended  BY <1>3, <1>4, <2>1, <2>2
  <2> QED BY <1>4, <2>1, <2>2, <2>3 DEF Rounded
<1> QED BY <1>1, <1>3, <1>4, <1>5, <1>7, <1>8

(* Main's sums do not change with a thread's step.                         *)
LEMMA MoveAddsUp ==
  ASSUME TypeOK, Rounded, Books, AddedUp, NEW i, NEW u, Moves(i, u)
  PROVE  AddedUp'
<1>1. /\ i \notin 1 .. joined /\ 1 .. joined \subseteq DOMAIN th
      /\ \A j \in DOMAIN th \ {i} : th'[j] = th[j]
  BY AfterMove DEF Rounded
<1>2. UNCHANGED <<cfg, joined, final, finals>>  BY DEF Moves
<1>3. \A j \in 1 .. joined : th'[j] = th[j]  BY <1>1
<1>4. [j \in 1 .. joined |-> ResultOf(th[j])]' = [j \in 1 .. joined |-> ResultOf(th[j])]
  BY <1>2, <1>3 DEF ResultOf
<1>5. Total' = Total /\ IsReceiver' = IsReceiver
  <2>1. cfg' = cfg  BY <1>2
  <2> QED BY <2>1, Frame
<1> QED BY <1>2, <1>4, <1>5 DEF AddedUp

(* The sum over the threads that were joined, with one more.               *)
JoinedSum(n) == SumFunction([i \in 1 .. n |-> ResultOf(th[i])])

LEMMA JoinedSums ==
  ASSUME \A i \in DOMAIN th : th[i] \in Thread, NEW n \in Nat, 1 .. n + 1 \subseteq DOMAIN th
  PROVE  /\ JoinedSum(n) \in Nat /\ ResultOf(th[n + 1]) \in Nat
         /\ JoinedSum(n + 1) = JoinedSum(n) + ResultOf(th[n + 1])
<1> DEFINE f == [i \in 1 .. n + 1 |-> ResultOf(th[i])]
           g == [i \in 1 .. n |-> ResultOf(th[i])]
<1>1. \A i \in 1 .. n + 1 : ResultOf(th[i]) \in Nat
  BY ThreadType DEF ResultOf
<1>2. 1 .. n + 1 = (1 .. n) \cup {n + 1} /\ n + 1 \notin 1 .. n /\ 1 .. n \subseteq 1 .. n + 1
  OBVIOUS
<1>3. IsFiniteSet(1 .. n)
  <2>1. 1 \in Int /\ n \in Int  OBVIOUS
  <2> QED BY <2>1, FS_Interval
<1>4. /\ DOMAIN f = 1 .. n + 1 /\ DOMAIN g = 1 .. n
      /\ \A i \in 1 .. n + 1 : f[i] = ResultOf(th[i]) /\ f[i] \in Nat
      /\ \A i \in 1 .. n : g[i] = f[i] /\ g[i] \in Nat
  BY <1>1, <1>2
<1> HIDE DEF f, g
<1>5. IntegralOn(f, (1 .. n) \cup {n + 1})  BY <1>2, <1>4 DEF IntegralOn
<1>6. /\ SumFunctionOnSet(f, 1 .. n) \in Int
      /\ SumFunctionOnSet(f, (1 .. n) \cup {n + 1}) = f[n + 1] + SumFunctionOnSet(f, 1 .. n)
  BY <1>2, <1>3, <1>5, SumGrows
<1>7. SumFunctionOnSet(g, 1 .. n) = SumFunctionOnSet(f, 1 .. n)
  <2>1. \A i \in 1 .. n : g[i] \in Int /\ f[i] = g[i]  BY <1>4
  <2> QED BY <1>3, <2>1, SumAgrees
<1>8. SumFunctionOnSet(g, 1 .. n) \in Nat  BY <1>3, <1>4, SumNatural
<1>9. n + 1 \in 1 .. n + 1 /\ f[n + 1] \in Nat  BY <1>4
<1>10. JoinedSum(n) = SumFunctionOnSet(g, 1 .. n)  BY <1>4 DEF JoinedSum, SumFunction, g
<1>11. JoinedSum(n + 1) = SumFunctionOnSet(f, (1 .. n) \cup {n + 1})
  BY <1>2, <1>4 DEF JoinedSum, SumFunction, f
<1> QED BY <1>1, <1>4, <1>6, <1>7, <1>8, <1>9, <1>10, <1>11

(* Adding the intervals of a thread adds their sum.                        *)
LEMMA AddedSum ==
  ASSUME NEW n \in Nat, NEW sums \in [1 .. n -> Nat], NEW q \in Seq(Nat), Len(q) <= n
  PROVE  /\ Added(sums, q) \in [1 .. n -> Nat]
         /\ SumFunction(sums) \in Nat
         /\ SumFunction(Added(sums, q)) = SumFunction(sums) + SumFunction(q)
<1> DEFINE f == [k \in 1 .. n |-> IF k <= Len(q) THEN q[k] ELSE 0]
           a == Added(sums, q)
<1>1. Len(q) \in Nat /\ DOMAIN q = 1 .. Len(q) /\ \A k \in 1 .. Len(q) : q[k] \in Nat
  BY LenProperties, ElementOfSeq
<1>2. IsFiniteSet(1 .. n) /\ IsFiniteSet(1 .. Len(q))
  <2>1. 1 \in Int /\ n \in Int /\ Len(q) \in Int  BY <1>1
  <2> QED BY <2>1, FS_Interval
<1>3. \A k \in 1 .. n : f[k] \in Nat /\ f[k] = (IF k <= Len(q) THEN q[k] ELSE 0)  BY <1>1
<1>4. DOMAIN a = 1 .. n /\ \A k \in 1 .. n : a[k] = sums[k] + f[k] /\ a[k] \in Nat
  BY <1>3 DEF Added, Add
<1>5. a \in [1 .. n -> Nat]  BY <1>4 DEF Added, Add
<1> HIDE DEF f, a
<1>6. SumFunctionOnSet(a, 1 .. n) = SumFunctionOnSet(sums, 1 .. n) + SumFunctionOnSet(f, 1 .. n)
  <2>1. SumOfTwo(a, sums, f, 1 .. n)  BY <1>3, <1>4 DEF SumOfTwo
  <2> QED BY <1>2, <2>1, SumAdds
<1>7. SumFunctionOnSet(f, 1 .. n) = SumFunctionOnSet(f, 1 .. Len(q))
  <2>1. 1 .. Len(q) \in SUBSET (1 .. n)  BY <1>1
  <2>2. \A k \in (1 .. n) \ (1 .. Len(q)) : f[k] = 0  BY <1>1, <1>3
  <2>3. IntegralOn(f, 1 .. n)  BY <1>3 DEF IntegralOn
  <2> QED BY <1>2, <2>1, <2>2, <2>3, SumWithin
<1>8. SumFunctionOnSet(q, 1 .. Len(q)) = SumFunctionOnSet(f, 1 .. Len(q))
  <2>1. \A k \in 1 .. Len(q) : q[k] \in Int /\ f[k] = q[k]  BY <1>1, <1>3
  <2> QED BY <1>2, <2>1, SumAgrees
<1>9. SumFunctionOnSet(sums, 1 .. n) \in Nat
  <2>1. \A k \in 1 .. n : sums[k] \in Nat  OBVIOUS
  <2> QED BY <1>2, <2>1, SumNatural
<1>10. /\ SumFunction(sums) = SumFunctionOnSet(sums, 1 .. n)
       /\ SumFunction(a) = SumFunctionOnSet(a, 1 .. n)
       /\ SumFunction(q) = SumFunctionOnSet(q, 1 .. Len(q))
  BY <1>1, <1>4 DEF SumFunction
<1> QED BY <1>5, <1>6, <1>7, <1>8, <1>9, <1>10 DEF a

LEMMA ResultsIntervals ==
  ASSUME cfg \in Configs, NEW t \in Thread, t.pc = "ok", BookOf(t)
  PROVE  /\ t.result \in Nat /\ SumFunction(t.stat.outputs) \in Nat
         /\ SumFunction(t.stat.outputs) <= t.result
         /\ ~IsReceiver /\ Total > 0 => SumFunction(t.stat.outputs) = t.result
<1>1. t.stat.outputs \in Seq(Nat) /\ t.result \in Nat  BY ThreadType
<1>2. /\ SumFunction(t.stat.outputs) \in Nat
      /\ t.stat.outputs = <<>> => SumFunction(t.stat.outputs) = 0
  BY <1>1, SumOfSeq
<1>3. /\ t.result = FinalCount(t.stat)
      /\ ~IsReceiver /\ Total > 0 => t.stat.outputs # <<>>
  BY DEF BookOf, Returns
<1>4. t.stat.outputs # <<>> => t.result = SumFunction(t.stat.outputs)
  BY <1>3 DEF FinalCount
<1> QED BY <1>1, <1>2, <1>3, <1>4

LEMMA JoinAddsUp ==
  ASSUME TypeOK, Rounded, Books, AddedUp, Join
  PROVE  /\ main' = "join" /\ joined' \in 0 .. cfg.threads
         /\ Rounded' /\ Books' /\ AddedUp' /\ final' \in Nat
<1> DEFINE n == joined + 1
           t == th[n]
           q == t.stat.outputs
<1>1. /\ main = "join" /\ joined < cfg.threads /\ joined \in 0 .. cfg.threads
      /\ t.pc \in Ended /\ joined' = n /\ UNCHANGED <<cfg, round, th>>
  BY DEF Join, TypeOK
<1>2. /\ cfg \in Configs /\ cfg.threads \in Nat /\ Total \in Nat /\ DOMAIN th = Threads
  BY <1>1, Side DEF TypeOK, Rounded
<1>3. joined \in Nat /\ n \in DOMAIN th /\ 1 .. n \subseteq DOMAIN th /\ n \in 0 .. cfg.threads
  BY <1>1, <1>2 DEF Threads
<1>4. t \in Thread /\ Len(q) <= Total /\ BookOf(t) /\ q \in Seq(Nat) /\ Len(q) \in Nat
  BY <1>3, ThreadType DEF TypeOK, Books
<1>5. /\ main' = main /\ final' = final + ResultOf(t)
      /\ t.pc # "ok" => finals' = finals
      /\ t.pc = "ok" => finals' = Added(finals, q)
  <2>1. final \in Nat  BY DEF TypeOK
  <2>2. ~ (Total > 0 /\ Len(q) > Total)  BY <1>2, <1>4
  <2>3. CASE t.pc # "ok"  BY <2>1, <2>3 DEF Join, ResultOf, Add
  <2>4. CASE t.pc = "ok"  BY <2>2, <2>4 DEF Join, ResultOf, Add
  <2> QED BY <2>3, <2>4
<1>6. /\ JoinedSum(joined) \in Nat /\ ResultOf(t) \in Nat
      /\ JoinedSum(n) = JoinedSum(joined) + ResultOf(t)
  <2>1. \A i \in DOMAIN th : th[i] \in Thread  BY DEF TypeOK
  <2> QED BY <1>3, <2>1, JoinedSums
<1>7. final = JoinedSum(joined) /\ finals \in [1 .. Total -> Nat]  BY DEF AddedUp, JoinedSum
<1>8. Threads' = Threads /\ IsReceiver' = IsReceiver /\ Total' = Total
  <2>1. cfg' = cfg  BY <1>1
  <2> QED BY <2>1, Frame
<1>9. Rounded'
  <2>1. \A i \in 1 .. n : th[i].pc \in Ended
    <3>1. 1 .. n = (1 .. joined) \cup {n}  BY <1>3
    <3> QED BY <1>1, <3>1 DEF Rounded
  <2> QED BY <1>1, <1>2, <1>3, <1>5, <1>8, <2>1 DEF Rounded
<1>10. Books'
  <2>1. SUFFICES ASSUME NEW i \in DOMAIN th' PROVE BookOf(th[i])'
    BY DEF Books
  <2>2. BookOf(th[i])  BY <1>1 DEF Books
  <2> QED BY <1>1, <2>2 DEF BookOf, Counts, Returns, Divides, IsReceiver, Total
<1>11. final' = SumFunction([i \in 1 .. joined |-> ResultOf(th[i])])'
  <2>1. final' = JoinedSum(n)  BY <1>5, <1>6, <1>7
  <2> QED BY <1>1, <2>1 DEF JoinedSum, ResultOf
<1>12. final \in Nat /\ final' \in Nat  BY <1>5, <1>6, <1>7
<1>13. /\ finals' \in [1 .. Total -> Nat] /\ SumFunction(finals') <= final'
       /\ ~IsReceiver /\ Total > 0 => SumFunction(finals') = final'
  <2>1. /\ SumFunction(finals) <= final
        /\ ~IsReceiver /\ Total > 0 => SumFunction(finals) = final
    BY DEF AddedUp
  <2>2. CASE t.pc # "ok"
    <3>1. final' = final /\ finals' = finals  BY <1>5, <1>12, <2>2 DEF ResultOf
    <3> QED BY <1>7, <2>1, <3>1
  <2>3. CASE t.pc = "ok"
    <3>1. finals' = Added(finals, q) /\ final' = final + t.result
      BY <1>5, <2>3 DEF ResultOf
    <3>2. /\ t.result \in Nat /\ SumFunction(q) \in Nat /\ SumFunction(q) <= t.result
          /\ ~IsReceiver /\ Total > 0 => SumFunction(q) = t.result
      BY <1>2, <1>4, <2>3, ResultsIntervals
    <3>3. /\ Added(finals, q) \in [1 .. Total -> Nat] /\ SumFunction(finals) \in Nat
          /\ SumFunction(Added(finals, q)) = SumFunction(finals) + SumFunction(q)
      BY <1>2, <1>4, <1>7, AddedSum
    <3> HIDE DEF q, t
    <3>4. SumFunction(finals') = SumFunction(finals) + SumFunction(q)  BY <3>1, <3>3
    <3> QED BY <1>12, <2>1, <3>1, <3>2, <3>3, <3>4
  <2> QED BY <2>2, <2>3
<1>14. AddedUp'  BY <1>8, <1>11, <1>13 DEF AddedUp
<1> QED BY <1>1, <1>3, <1>5, <1>9, <1>10, <1>12, <1>14
-----------------------------------------------------------------------------
(* The start and the end of a round.                                       *)
LEMMA NoSums ==
  ASSUME cfg \in Configs
  PROVE  LET zeros == [n \in 1 .. Total |-> 0]
         IN  zeros \in [1 .. Total -> Nat] /\ SumFunction(zeros) = 0
<1> DEFINE zeros == [n \in 1 .. Total |-> 0]
<1>1. DOMAIN zeros = 1 .. Total /\ zeros \in [1 .. Total -> Nat]
      /\ \A n \in 1 .. Total : zeros[n] = 0
  OBVIOUS
<1>2. IsFiniteSet(1 .. Total)
  <2>1. 1 \in Int /\ Total \in Int  BY Side
  <2> QED BY <2>1, FS_Interval
<1> HIDE DEF zeros
<1>3. SumFunctionOnSet(zeros, 1 .. Total) = 0  BY <1>1, <1>2, SumOfZeros
<1> QED BY <1>1, <1>3 DEF SumFunction, zeros

LEMMA NewBook ==
  ASSUME cfg \in Configs
  PROVE  /\ NewThread \in Thread /\ NewThread.pc = "start" /\ NewThread.core = <<>>
         /\ Len(NewThread.stat.outputs) <= Total /\ BookOf(NewThread)
<1>1. NewThread \in Thread /\ NewThread.core \in Seq(Nat)
  BY DEF NewThread, Thread, Started, NodeStatistic, Pc
<1>2. /\ NewThread.stat.outputs = <<>> /\ NewThread.pc = "start" /\ NewThread.core = <<>>
      /\ NewThread.pc \in Before
  BY DEF NewThread, Started, Before
<1>3. NewThread = [NewThread EXCEPT !.pc = NewThread.pc, !.core = NewThread.core]
  BY <1>1 DEF Thread
<1>4. BookOf(NewThread)  BY <1>1, <1>2, <1>3, Fresh
<1>5. Len(NewThread.stat.outputs) = 0  BY <1>2
<1> QED BY <1>1, <1>2, <1>4, <1>5, Side

LEMMA StartFacts ==
  ASSUME TypeOK, Rounded, Start
  PROVE  /\ cfg' = cfg /\ round' \in 0 .. Rounds /\ joined' = 0
         /\ DOMAIN th' = Threads /\ \A i \in Threads : th'[i] = NewThread
         /\ Rounded' /\ Books' /\ AddedUp' /\ final' = 0
<1>1. /\ main = "spawn" /\ main' = "join" /\ round' = round + 1 /\ joined' = 0
      /\ th' = [i \in Threads |-> NewThread] /\ final' = 0
      /\ finals' = [n \in 1 .. Total |-> 0] /\ cfg' = cfg
  BY DEF Start
<1>2. cfg \in Configs /\ Threads' = Threads /\ Total' = Total /\ IsReceiver' = IsReceiver
  BY <1>1, Frame DEF TypeOK
<1>3. round' \in 0 .. Rounds  BY <1>1, BoundsAssumption DEF TypeOK, Rounded
<1>4. DOMAIN th' = Threads /\ \A i \in Threads : th'[i] = NewThread  BY <1>1
<1>5. 1 .. joined' = {}  BY <1>1
<1>6. Rounded'  BY <1>1, <1>2, <1>4, <1>5 DEF Rounded
<1>7. Books'
  <2>1. SUFFICES ASSUME NEW i \in DOMAIN th' PROVE BookOf(th[i])'
    BY DEF Books
  <2>2. BookOf(NewThread) /\ th'[i] = NewThread  BY <1>2, <1>4, NewBook
  <2> QED BY <1>1, <2>2 DEF BookOf, Counts, Returns, Divides, IsReceiver, Total
<1>8. SumFunction([i \in 1 .. joined |-> ResultOf(th[i])])' = 0
  <2> DEFINE f == [i \in 1 .. 0 |-> ResultOf(th'[i])]
  <2>1. DOMAIN f = {}  OBVIOUS
  <2>2. SumFunction(f) = 0
    <3> HIDE DEF f
    <3> QED BY <2>1, SumOfNone DEF SumFunction
  <2>3. [i \in 1 .. joined |-> ResultOf(th[i])]' = f  BY <1>1 DEF ResultOf
  <2> QED BY <2>2, <2>3
<1>9. finals' \in [1 .. Total -> Nat] /\ SumFunction(finals') = 0  BY <1>1, <1>2, NoSums
<1>10. AddedUp'
  <2>1. final' = 0 /\ SumFunction(finals') <= 0  BY <1>1, <1>9
  <2> QED BY <1>2, <1>8, <1>9, <2>1 DEF AddedUp
<1> QED BY <1>1, <1>3, <1>4, <1>6, <1>7, <1>10

LEMMA ReportFacts ==
  ASSUME TypeOK, Rounded, Books, AddedUp, Report
  PROVE  /\ UNCHANGED <<cfg, round, joined, th, manager, poisoned, handed, bound, left,
                     final, finals>>
         /\ main' \in {"spawn", "done"} /\ Rounded' /\ Books' /\ AddedUp'
<1>1. /\ UNCHANGED <<cfg, round, joined, th, manager, poisoned, handed, bound, left, final, finals>>
      /\ main' \in {"spawn", "done"} /\ (main' = "spawn" => round' < Rounds)
      /\ main = "join" /\ joined = cfg.threads
  BY DEF Report
<1>2. Threads' = Threads /\ Total' = Total /\ IsReceiver' = IsReceiver
  BY <1>1, Frame
<1>3. \A i \in DOMAIN th : th[i].pc \in Ended  BY <1>1 DEF Rounded, Threads
<1>4. Rounded'  BY <1>1, <1>2, <1>3 DEF Rounded
<1>5. Books'
  <2>1. SUFFICES ASSUME NEW i \in DOMAIN th' PROVE BookOf(th[i])'
    BY DEF Books
  <2>2. BookOf(th[i])  BY <1>1 DEF Books
  <2> QED BY <1>1, <2>2 DEF BookOf, Counts, Returns, Divides, IsReceiver, Total
<1>6. AddedUp'
  <2>1. [i \in 1 .. joined |-> ResultOf(th[i])]' = [i \in 1 .. joined |-> ResultOf(th[i])]
    BY <1>1 DEF ResultOf
  <2> QED BY <1>1, <1>2, <2>1 DEF AddedUp
<1> QED BY <1>1, <1>4, <1>5, <1>6
-----------------------------------------------------------------------------
(* A machine has cores; the manager's numbers stay within usize.           *)
LEMMA MachineHasCores ==
  ASSUME NEW t \in Topology
  PROVE  /\ Len(t.nodes) \in Nat \ {0} /\ DOMAIN t.nodes = 1 .. Len(t.nodes)
         /\ \A k \in 1 .. Len(t.nodes) : t.nodes[k] \in Nat \ {0}
         /\ TotalCores(t) \in Nat \ {0} /\ AmountCpus(t) \in Nat \ {0}
<1>1. t.nodes \in Seq(Nat \ {0}) /\ Len(t.nodes) > 0  BY DEF Topology
<1>2. /\ Len(t.nodes) \in Nat \ {0} /\ DOMAIN t.nodes = 1 .. Len(t.nodes)
      /\ \A k \in 1 .. Len(t.nodes) : t.nodes[k] \in Nat \ {0}
  BY <1>1, LenProperties, ElementOfSeq
<1> DEFINE q == t.nodes
           S == 1 .. Len(q)
<1>3. IsFiniteSet(S)
  <2>1. 1 \in Int /\ Len(q) \in Int  BY <1>2
  <2> QED BY <2>1, FS_Interval
<1>4. 1 \in S /\ DOMAIN q = S /\ \A k \in S : q[k] \in Nat \ {0}  BY <1>2
<1> HIDE DEF q, S
<1>5. SumFunctionOnSet(q, S) = q[1] + SumFunctionOnSet(q, S \ {1})
  <2>1. \A k \in S : q[k] \in Int  BY <1>4
  <2> QED BY <1>3, <1>4, <2>1, SumTakes
<1>6. SumFunctionOnSet(q, S \ {1}) \in Nat
  <2>1. IsFiniteSet(S \ {1})  BY <1>3, FS_RemoveElement
  <2>2. \A k \in S \ {1} : q[k] \in Nat  BY <1>4
  <2> QED BY <2>1, <2>2, SumNatural
<1>7. TotalCores(t) = SumFunctionOnSet(q, S)  BY <1>4 DEF TotalCores, SumFunction, q
<1>8. TotalCores(t) \in Nat \ {0} /\ q[1] \in Nat \ {0}  BY <1>4, <1>5, <1>6, <1>7
<1> QED BY <1>2, <1>8 DEF AmountCpus, q

LEMMA RemBounds ==
  ASSUME NEW x \in Int, NEW n \in Nat \ {0}
  PROVE  /\ Rem(x, n) \in Int /\ -n < Rem(x, n) /\ Rem(x, n) < n
         /\ 0 <= x /\ x < n => Rem(x, n) = x
<1>1. CASE x < 0
  <2>1. (-x) % n \in 0 .. n - 1  BY <1>1
  <2> DEFINE r == (-x) % n
  <2> HIDE DEF r
  <2>2. r \in 0 .. n - 1  BY <2>1 DEF r
  <2>3. Rem(x, n) = -r  BY <1>1 DEF Rem, r
  <2> QED BY <1>1, <2>2, <2>3
<1>2. CASE x >= 0
  <2>1. Rem(x, n) = x % n  BY <1>2 DEF Rem
  <2>2. x % n \in 0 .. n - 1 /\ (x < n => x % n = x)  BY <1>2
  <2> QED BY <1>2, <2>1, <2>2
<1> QED BY <1>1, <1>2

LEMMA NextCoreType ==
  ASSUME NEW t, AmountCpus(t) \in Nat \ {0}, AmountCpus(t) <= UsizeMax \div 2,
         NEW mode, NEW core \in 0 .. UsizeMax
  PROVE  NextCore(t, mode, core) \in 0 .. UsizeMax
<1> DEFINE n == AmountCpus(t)
           x == AsIsize(core) + (IF mode = "receiver" THEN -1 ELSE 1)
           r == Rem(x, n)
<1>1. UsizeMax \in Nat /\ n \in Nat \ {0} /\ n <= UsizeMax
  <2>1. UsizeMax \in Nat /\ UsizeMax \div 2 <= UsizeMax /\ UsizeMax \div 2 \in Nat
    BY UsizeMaxAssumption
  <2> QED BY <2>1
<1>2. x \in Int  BY <1>1 DEF AsIsize
<1> HIDE DEF n, x
<1>3. r \in Int /\ -n < r /\ r < n  BY <1>1, <1>2, RemBounds
<1>4. NextCore(t, mode, core) = AsUsize(r)  BY DEF NextCore, x, n
<1> HIDE DEF r
<1> QED BY <1>1, <1>3, <1>4 DEF AsUsize

LEMMA PinTypes ==
  ASSUME TypeOK, NEW i, Pin(i)
  PROVE  /\ manager'.core \in 0 .. UsizeMax
         /\ manager'.node \in 0 .. Len(cfg.machine.nodes) - 1
         /\ poisoned' \in BOOLEAN /\ handed' \in Nat
<1>1. /\ cfg \in Configs /\ manager.core \in 0 .. UsizeMax
      /\ manager.node \in 0 .. Len(cfg.machine.nodes) - 1 /\ poisoned \in BOOLEAN /\ handed \in Nat
  BY DEF TypeOK
<1>2. cfg.machine \in Topology  BY <1>1, Side DEF Config
<1>3. AmountCpus(cfg.machine) \in Nat \ {0} /\ AmountCpus(cfg.machine) <= UsizeMax \div 2
  BY <1>1, <1>2, MachineHasCores, MachinesAssumption
<1>4. CASE UNCHANGED <<manager, poisoned, handed>>  BY <1>1, <1>4
<1>5. CASE /\ manager' = Advanced(cfg.machine, cfg.mode, manager) /\ handed' = handed + 1
           /\ poisoned' = poisoned \/ poisoned' = TRUE
  <2> DEFINE node == ForwardNode(cfg.machine, manager)
             core == NextCore(cfg.machine, cfg.mode, manager.core)
  <2>1. node \in 0 .. Len(cfg.machine.nodes) - 1  BY BoundCore
  <2>2. core \in 0 .. UsizeMax  BY <1>1, <1>3, NextCoreType
  <2>3. /\ manager'.node = node
        /\ manager'.core = (IF cfg.machine.numa /\ node # 0 THEN manager.core ELSE core)
    BY <1>5 DEF Advanced
  <2> HIDE DEF node, core
  <2>4. manager'.core \in 0 .. UsizeMax  BY <1>1, <2>2, <2>3
  <2>5. handed' \in Nat  BY <1>1, <1>5
  <2>6. poisoned' \in BOOLEAN  BY <1>1, <1>5, Zenon
  <2> QED BY <2>1, <2>3, <2>4, <2>5, <2>6
<1> QED BY <1>4, <1>5 DEF Pin
-----------------------------------------------------------------------------
(* A thread's step and the ports.                                          *)
LEMMA MoveTypes ==
  ASSUME TypeOK, Rounded, Books, NEW i, NEW u, Moves(i, u),
         manager'.core \in 0 .. UsizeMax, manager'.node \in 0 .. Len(cfg.machine.nodes) - 1,
         poisoned' \in BOOLEAN, handed' \in Nat,
         bound' \subseteq Threads, left' \subseteq bound'
  PROVE  TypeOK'
<1>1. UNCHANGED <<cfg, main, round, joined, final, finals>>  BY DEF Moves
<1>2. Threads' = Threads /\ Total' = Total  BY <1>1, Frame
<1>3. \A j \in DOMAIN th' : th'[j] \in Thread /\ Len(th'[j].stat.outputs) <= Total
  BY AfterMove
<1>4. /\ cfg' \in Configs /\ main' \in {"spawn", "join", "panic", "done"}
      /\ round' \in 0 .. Rounds /\ joined' \in 0 .. cfg'.threads
      /\ final' \in Nat /\ DOMAIN finals' = 1 .. Total
  BY <1>1 DEF TypeOK
<1> QED BY <1>1, <1>2, <1>3, <1>4 DEF TypeOK

LEMMA StaysTyped ==
  ASSUME TypeOK, Rounded, Books, NEW i, NEW u, Moves(i, u),
         UNCHANGED <<manager, poisoned, handed>>,
         bound' \subseteq Threads, left' \subseteq bound'
  PROVE  TypeOK'
<1>1. /\ manager'.core \in 0 .. UsizeMax /\ manager'.node \in 0 .. Len(cfg.machine.nodes) - 1
      /\ poisoned' \in BOOLEAN /\ handed' \in Nat
  BY DEF TypeOK
<1> QED BY <1>1, MoveTypes

(* Where the threads have ports: i keeps its port, has left it or closed it. *)
LEMMA MoveSockets ==
  ASSUME TypeOK, Rounded, Sockets, Books, NEW i, NEW u, Moves(i, u),
         ~OwnsPort => UNCHANGED <<bound, left>>,
         OwnsPort => /\ \A j \in DOMAIN th \ {i} : /\ j \in bound' <=> j \in bound
                                                   /\ j \in left' <=> j \in left
                     /\ bound' \subseteq bound \cup {i} /\ left' \subseteq left \cup {i}
                     /\ u.pc \in {"wait", "run"} => i \in bound' \ left'
                     /\ i \in bound' => i \in left' \/ u.pc \in {"wait", "run"}
  PROVE  Sockets'
<1>1. /\ i \in DOMAIN th /\ DOMAIN th' = DOMAIN th /\ th'[i] = u /\ DOMAIN th = Threads
      /\ \A j \in DOMAIN th \ {i} : th'[j] = th[j]
  BY AfterMove DEF Moves
<1>2. OwnsPort' = OwnsPort
  <2>1. cfg' = cfg  BY DEF Moves
  <2> QED BY <2>1, Frame
<1>3. ~OwnsPort => bound' = {} /\ left' = {}  BY DEF Sockets
<1>4. ASSUME OwnsPort, NEW j \in DOMAIN th', th'[j].pc \in {"wait", "run"}
      PROVE  j \in bound' \ left'
  BY <1>1, <1>4 DEF Sockets
<1>5. ASSUME OwnsPort, NEW j \in bound'
      PROVE  j \in left' \/ (j \in DOMAIN th' /\ th'[j].pc \in {"wait", "run"})
  <2>1. CASE j = i  BY <1>1, <1>5, <2>1
  <2>2. CASE j # i
    <3>1. j \in bound /\ bound \subseteq Threads  BY <1>5, <2>2 DEF TypeOK
    <3> QED BY <1>1, <1>5, <2>2, <3>1 DEF Sockets
  <2> QED BY <2>1, <2>2
<1> QED BY <1>2, <1>3, <1>4, <1>5 DEF Sockets

(* The cores that are handed out stay as they are in a step that binds no  *)
(* thread.                                                                 *)
LEMMA MovePinned ==
  ASSUME TypeOK, Rounded, Books, Pinned, NEW i, NEW u, Moves(i, u),
         UNCHANGED <<manager, poisoned, handed>>, u.core = th[i].core,
         u.pc = "stillborn" => i \in left', left \subseteq left'
  PROVE  Pinned'
<1>1. /\ DOMAIN th' = DOMAIN th /\ i \in DOMAIN th /\ th'[i] = u
      /\ \A j \in DOMAIN th \ {i} : th'[j] = th[j]
      /\ cfg' = cfg
  BY AfterMove DEF Moves
<1>2. \A j \in DOMAIN th : th'[j].core = th[j].core  BY <1>1
<1>3. \A j \in DOMAIN th : th'[j].pc = "stillborn" =>
        (th[j].pc = "stillborn" /\ j # i) \/ j \in left'
  BY <1>1
<1>4. /\ EvenNodes' = EvenNodes /\ Managers' = Managers /\ Lanes' = Lanes /\ Cores' = Cores
      /\ IsReceiver' = IsReceiver
  BY <1>1 DEF EvenNodes, Nodes, Managers, Lanes, Cores, IsReceiver
<1>5. \A m : Place(m)' = Place(m)  BY <1>4 DEF Place
<1>6. SUFFICES ASSUME EvenNodes, handed <= TotalCores(cfg.machine)
               PROVE  Pinned'
  BY <1>1, <1>4 DEF Pinned
<1>7. /\ handed < TotalCores(cfg.machine) => manager \in Managers /\ Place(manager) = handed
      /\ ~poisoned
      /\ \A j \in DOMAIN th :
           /\ th[j].core # <<>> =>
                \E m \in Managers : Place(m) < handed /\ th[j].core = Bound(cfg.machine, m)
           /\ th[j].pc = "stillborn" => j \in left
           /\ \A k \in DOMAIN th \ {j} : th[j].core # <<>> => th[j].core # th[k].core
  BY <1>6 DEF Pinned
<1>8. \A j \in DOMAIN th' :
        /\ th'[j].core # <<>> =>
             \E m \in Managers : Place(m) < handed /\ th'[j].core = Bound(cfg.machine, m)
        /\ th'[j].pc = "stillborn" => j \in left'
        /\ \A k \in DOMAIN th' \ {j} : th'[j].core # <<>> => th'[j].core # th'[k].core
  <2>1. SUFFICES ASSUME NEW j \in DOMAIN th
                 PROVE  /\ th'[j].core # <<>> =>
                             \E m \in Managers : /\ Place(m) < handed
                                                 /\ th'[j].core = Bound(cfg.machine, m)
                        /\ th'[j].pc = "stillborn" => j \in left'
                        /\ \A k \in DOMAIN th \ {j} :
                             th'[j].core # <<>> => th'[j].core # th'[k].core
    BY <1>1
  <2>2. th'[j].core # <<>> =>
          \E m \in Managers : Place(m) < handed /\ th'[j].core = Bound(cfg.machine, m)
    BY <1>2, <1>7
  <2>3. th'[j].pc = "stillborn" => j \in left'  BY <1>3, <1>7
  <2>4. \A k \in DOMAIN th \ {j} : th'[j].core # <<>> => th'[j].core # th'[k].core
    BY <1>2, <1>7
  <2> QED BY <2>2, <2>3, <2>4
<1>9. /\ handed' = handed /\ manager' = manager /\ poisoned' = poisoned
      /\ cfg'.machine = cfg.machine
  BY <1>1
<1> QED BY <1>4, <1>5, <1>7, <1>8, <1>9 DEF Pinned

Safe == TypeOK /\ Rounded /\ Sockets /\ Books /\ AddedUp /\ Pinned

(* A step of a thread that is not its binding.                             *)
Keeps(i, u) ==
  /\ Moves(i, u)
  /\ UNCHANGED <<manager, poisoned, handed>> /\ u.core = th[i].core
  /\ u.pc = "stillborn" => i \in left'
  /\ left \subseteq left' /\ left' \subseteq left \cup {i}
  /\ \A j \in Threads \ {i} : j \in bound' <=> j \in bound
  /\ bound' \subseteq bound \cup {i}
  /\ i \in left' => i \in bound'
  /\ ~OwnsPort => UNCHANGED <<bound, left>>
  /\ OwnsPort => /\ u.pc \in {"wait", "run"} => i \in bound' \ left'
                 /\ i \in bound' => i \in left' \/ u.pc \in {"wait", "run"}

LEMMA KeepsSafe ==
  ASSUME Safe, NEW i, NEW u, Keeps(i, u)
  PROVE  Safe'
<1>1. TypeOK /\ Rounded /\ Sockets /\ Books /\ AddedUp /\ Pinned  BY DEF Safe
<1>2. Moves(i, u)  BY DEF Keeps
<1>3. i \in Threads /\ DOMAIN th = Threads /\ Rounded' /\ Books'  BY <1>1, <1>2, AfterMove
<1>4. AddedUp'  BY <1>1, <1>2, MoveAddsUp
<1>5. bound' \subseteq Threads /\ left' \subseteq bound'
  <2>1. bound \subseteq Threads /\ left \subseteq bound  BY <1>1 DEF TypeOK
  <2> QED BY <1>3, <2>1 DEF Keeps
<1>6. TypeOK'
  <2>1. UNCHANGED <<manager, poisoned, handed>>  BY DEF Keeps
  <2> QED BY <1>1, <1>2, <1>5, <2>1, StaysTyped
<1>7. Sockets'
  <2>1. ~OwnsPort => UNCHANGED <<bound, left>>  BY DEF Keeps
  <2>2. OwnsPort => /\ \A j \in DOMAIN th \ {i} : /\ j \in bound' <=> j \in bound
                                                  /\ j \in left' <=> j \in left
                    /\ bound' \subseteq bound \cup {i} /\ left' \subseteq left \cup {i}
                    /\ u.pc \in {"wait", "run"} => i \in bound' \ left'
                    /\ i \in bound' => i \in left' \/ u.pc \in {"wait", "run"}
    BY <1>3 DEF Keeps
  <2> QED BY <1>1, <1>2, <2>1, <2>2, MoveSockets
<1>8. Pinned'
  <2>1. /\ UNCHANGED <<manager, poisoned, handed>> /\ u.core = th[i].core
        /\ (u.pc = "stillborn" => i \in left') /\ left \subseteq left'
    BY DEF Keeps
  <2> QED BY <1>1, <1>2, <2>1, MovePinned
<1> QED BY <1>3, <1>4, <1>6, <1>7, <1>8 DEF Safe

(* Where the thread has its socket before a step.                          *)
LEMMA HasPort ==
  ASSUME Safe, NEW i \in DOMAIN th
  PROVE  /\ TypeOK /\ Books /\ left \subseteq bound
         /\ ~OwnsPort => bound = {} /\ left = {}
         /\ OwnsPort /\ th[i].pc \in {"wait", "run"} => i \in bound /\ i \notin left
         /\ OwnsPort /\ th[i].pc \notin {"wait", "run"} /\ i \in bound => i \in left
BY DEF Safe, TypeOK, Sockets

LEMMA OpenSafe ==
  ASSUME Safe, NEW i \in DOMAIN th, Open(i)
  PROVE  Safe'
<1>1. PICK u : /\ Moves(i, u) /\ u.core = th[i].core
               /\ u.pc = IF OwnsPort /\ i \in bound THEN "stillborn" ELSE "wait"
  BY HasPort, OpenMoves
<1>2. /\ th[i].pc = "open" /\ UNCHANGED <<manager, poisoned, handed, left>>
      /\ bound' = IF OwnsPort THEN bound \cup {i} ELSE bound
  BY DEF Open
<1>3. Keeps(i, u)  BY <1>1, <1>2, HasPort DEF Keeps
<1> QED BY <1>3, KeepsSafe

LEMMA RunSafe ==
  ASSUME Safe, NEW i \in DOMAIN th, Begin(i) \/ Work(i) \/ Idle(i)
  PROVE  Safe'
<1>1. PICK u : Moves(i, u) /\ u.core = th[i].core /\ u.pc = "run"
  BY HasPort, BeginMoves, WorkMoves, IdleMoves
<1>2. th[i].pc \in {"wait", "run"} /\ UNCHANGED <<manager, poisoned, handed, bound, left>>
  BY DEF Begin, Work, Idle, InLoop
<1>3. Keeps(i, u)  BY <1>1, <1>2, HasPort DEF Keeps
<1> QED BY <1>3, KeepsSafe

LEMMA LeaveSafe ==
  ASSUME Safe, NEW i \in DOMAIN th, NoBegin(i) \/ Fail(i)
  PROVE  Safe'
<1>1. PICK u : Moves(i, u) /\ u.core = th[i].core /\ u.pc \in {"ok", "err", "panic"}
  BY HasPort, NoBeginMoves, FailMoves
<1>2. /\ th[i].pc \in {"wait", "run"} /\ UNCHANGED <<manager, poisoned, handed, bound>>
      /\ left' = IF OwnsPort THEN left \cup {i} ELSE left
  BY DEF NoBegin, Fail, Leave, InLoop
<1>3. Keeps(i, u)  BY <1>1, <1>2, HasPort DEF Keeps
<1> QED BY <1>3, KeepsSafe

LEMMA EndSafe ==
  ASSUME Safe, NEW i \in DOMAIN th, EndReceiver(i) \/ EndSender(i)
  PROVE  Safe'
<1>1. PICK u : Moves(i, u) /\ u.core = th[i].core /\ u.pc \in {"ok", "err"}
  BY HasPort, EndReceiverMoves, EndSenderMoves
<1>2. /\ th[i].pc \in {"wait", "run"} /\ UNCHANGED <<manager, poisoned, handed, left>>
      /\ bound' = IF OwnsPort THEN bound \ {i} ELSE bound
  BY DEF EndReceiver, EndSender, InLoop, Closed, OwnsPort
<1>3. Keeps(i, u)  BY <1>1, <1>2, HasPort DEF Keeps
<1> QED BY <1>3, KeepsSafe
-----------------------------------------------------------------------------
(* On a machine with even nodes every place of the manager is a core.      *)
LEMMA EvenMachine ==
  ASSUME cfg \in Configs, EvenNodes
  PROVE  /\ Cores \in Nat \ {0} /\ Lanes \in Nat \ {0} /\ Cores <= UsizeMax \div 2
         /\ TotalCores(cfg.machine) = Lanes * Cores
         /\ cfg.machine.numa => \A k \in 1 .. Lanes : cfg.machine.nodes[k] = Cores
         /\ ~cfg.machine.numa => Lanes = 1 /\ TotalCores(cfg.machine) = Cores
<1> DEFINE q == cfg.machine.nodes
           S == 1 .. Len(q)
<1>1. cfg.machine \in Topology  BY Side DEF Config
<1>2. /\ Len(q) \in Nat \ {0} /\ DOMAIN q = S /\ \A k \in S : q[k] \in Nat \ {0}
      /\ TotalCores(cfg.machine) \in Nat \ {0} /\ Cores \in Nat \ {0}
  BY <1>1, MachineHasCores DEF Cores
<1>3. Cores <= UsizeMax \div 2  BY MachinesAssumption DEF Cores
<1>4. CASE ~cfg.machine.numa
  <2>1. Lanes = 1 /\ Cores = TotalCores(cfg.machine)  BY <1>4 DEF Lanes, Cores, AmountCpus
  <2> QED BY <1>2, <1>3, <1>4, <2>1
<1>5. CASE cfg.machine.numa
  <2>1. Lanes = Len(q) /\ Cores = q[1]  BY <1>5 DEF Lanes, Cores, AmountCpus
  <2>2. IsFiniteSet(S) /\ Cardinality(S) = Len(q)
    <3>1. 1 \in Int /\ Len(q) \in Int  BY <1>2
    <3> QED BY <1>2, <3>1, FS_Interval
  <2>3. Nodes = {q[k] : k \in S}  BY <1>2 DEF Nodes
  <2> HIDE DEF q
  <2>4. IsFiniteSet({q[k] : k \in S})
    <3> DEFINE T == {q[k] : k \in S}
               f == [k \in S |-> q[k]]
    <3>1. f \in Surjection(S, T)  BY DEF Surjection
    <3>2. ExistsSurjection(1 .. Len(q), T)  BY <3>1 DEF ExistsSurjection
    <3> QED BY <1>2, <3>2, FS_NatSurjection
  <2>5. PICK x : Nodes = {x}
    <3>1. Cardinality(Nodes) = 1  BY <1>5 DEF EvenNodes
    <3> QED BY <2>3, <2>4, <3>1, FS_Singleton
  <2>6. \A k \in S : q[k] = x  BY <2>3, <2>5
  <2>7. 1 \in S  BY <1>2
  <2>8. \A k \in S : q[k] = Cores  BY <2>1, <2>6, <2>7
  <2>9. SumFunctionOnSet(q, S) = Lanes * Cores
    <3>1. SumFunctionOnSet(q, S) = Cardinality(S) * Cores
      <4>1. Cores \in Nat  BY <1>2
      <4> HIDE DEF S
      <4> QED BY <2>2, <2>8, <4>1, SumOfSame
    <3> QED BY <2>1, <2>2, <3>1
  <2>10. TotalCores(cfg.machine) = SumFunctionOnSet(q, S)
    BY <1>2 DEF TotalCores, SumFunction, q
  <2> QED BY <1>2, <1>3, <1>5, <2>1, <2>8, <2>9, <2>10 DEF q
<1> QED BY <1>4, <1>5

LEMMA Successor ==
  ASSUME NEW n \in Nat \ {0}, NEW a \in 0 .. n - 1
  PROVE  (a + 1) % n = IF a + 1 = n THEN 0 ELSE a + 1
OBVIOUS

LEMMA Forward ==
  ASSUME cfg \in Configs, EvenNodes, NEW m \in Managers
  PROVE  /\ m.core \in 0 .. Cores - 1 /\ m.node \in 0 .. Lanes - 1
         /\ ForwardNode(cfg.machine, m) = IF m.node + 1 = Lanes THEN 0 ELSE m.node + 1
         /\ ForwardNode(cfg.machine, m) \in 0 .. Lanes - 1
<1>1. Lanes \in Nat \ {0}  BY EvenMachine
<1>2. m.core \in 0 .. Cores - 1 /\ m.node \in 0 .. Lanes - 1  BY DEF Managers
<1>3. CASE cfg.machine.numa
  <2>1. ForwardNode(cfg.machine, m) = (m.node + 1) % Lanes  BY <1>3 DEF ForwardNode, Lanes
  <2> QED BY <1>1, <1>2, <2>1, Successor
<1>4. CASE ~cfg.machine.numa
  <2>1. Lanes = 1 /\ ForwardNode(cfg.machine, m) = m.node  BY <1>4 DEF ForwardNode, Lanes
  <2> QED BY <1>2, <2>1
<1> QED BY <1>3, <1>4

LEMMA BindsApart ==
  ASSUME cfg \in Configs, EvenNodes, NEW m \in Managers, NEW n \in Managers,
         Bound(cfg.machine, m) = Bound(cfg.machine, n)
  PROVE  m = n
<1>1. m.core = n.core /\ ForwardNode(cfg.machine, m) = ForwardNode(cfg.machine, n)
  BY DEF Bound
<1>2. Lanes \in Nat \ {0}  BY EvenMachine
<1>3. m.node = n.node  BY <1>1, <1>2, Forward
<1> QED BY <1>1, <1>3 DEF Managers

LEMMA BindsWell ==
  ASSUME cfg \in Configs, EvenNodes, NEW m \in Managers
  PROVE  CanBind(cfg.machine, m)
<1>1. /\ Lanes \in Nat \ {0} /\ Cores \in Nat \ {0}
      /\ m.core \in 0 .. Cores - 1 /\ ForwardNode(cfg.machine, m) \in 0 .. Lanes - 1
  BY EvenMachine, Forward
<1>2. CASE cfg.machine.numa
  <2>1. ForwardNode(cfg.machine, m) + 1 \in 1 .. Lanes  BY <1>1
  <2>2. cfg.machine.nodes[ForwardNode(cfg.machine, m) + 1] = Cores  BY <1>2, <2>1, EvenMachine
  <2> QED BY <1>1, <1>2, <2>2 DEF CanBind
<1>3. CASE ~cfg.machine.numa
  <2>1. TotalCores(cfg.machine) = Cores  BY <1>3, EvenMachine
  <2> QED BY <1>1, <1>3, <2>1 DEF CanBind
<1> QED BY <1>2, <1>3

LEMMA SmallerFactor ==
  ASSUME NEW a \in Nat, NEW b \in Nat, NEW n \in Nat \ {0}, a * n < n * b
  PROVE  a < b
<1>1. SUFFICES ASSUME b <= a PROVE FALSE
  OBVIOUS
<1> DEFINE d == a - b
<1>2. d \in Nat /\ a = b + d  BY <1>1
<1> HIDE DEF d
<1>3. a * n = b * n + d * n  BY <1>2
<1>4. b * n \in Nat /\ d * n \in Nat /\ n * b = b * n  BY <1>2
<1> QED BY <1>3, <1>4

\* how many cores of its node the manager has gone through
Gone(m) == IF IsReceiver THEN Cores - 1 - m.core ELSE m.core

LEMMA PlaceOf ==
  ASSUME cfg \in Configs, EvenNodes, NEW m \in Managers
  PROVE  /\ Gone(m) \in 0 .. Cores - 1 /\ Gone(m) * Lanes \in Nat
         /\ Place(m) = Gone(m) * Lanes + m.node /\ Place(m) \in Nat
<1>1. /\ Cores \in Nat \ {0} /\ Lanes \in Nat \ {0} /\ m.core \in 0 .. Cores - 1 /\ m.node \in Nat
  BY EvenMachine, Forward
<1>2. Gone(m) \in 0 .. Cores - 1  BY <1>1 DEF Gone
<1> DEFINE g == Gone(m)
<1>3. Place(m) = g * Lanes + m.node  BY DEF Place, Gone
<1> HIDE DEF g
<1>4. g \in Nat  BY <1>1, <1>2 DEF g
<1>5. g * Lanes \in Nat  BY <1>1, <1>4
<1> QED BY <1>1, <1>2, <1>3, <1>5 DEF g

LEMMA PlaceNext ==
  ASSUME cfg \in Configs, EvenNodes, NEW m \in Managers,
         Place(m) + 1 < TotalCores(cfg.machine)
  PROVE  LET next == Advanced(cfg.machine, cfg.mode, m)
         IN  next \in Managers /\ Place(next) = Place(m) + 1
<1> DEFINE next == Advanced(cfg.machine, cfg.mode, m)
           node == ForwardNode(cfg.machine, m)
           g == Gone(m)
<1>1. /\ Cores \in Nat \ {0} /\ Lanes \in Nat \ {0} /\ Cores <= UsizeMax \div 2
      /\ TotalCores(cfg.machine) = Lanes * Cores
      /\ m.core \in 0 .. Cores - 1 /\ m.node \in 0 .. Lanes - 1
      /\ node = (IF m.node + 1 = Lanes THEN 0 ELSE m.node + 1)
  BY EvenMachine, Forward
<1>2. /\ g \in 0 .. Cores - 1 /\ g * Lanes \in Nat /\ Place(m) = g * Lanes + m.node
  BY PlaceOf
<1>3. next.node = node /\ next = [core |-> next.core, node |-> next.node]  BY DEF Advanced
<1> HIDE DEF node, g
<1>4. CASE m.node + 1 < Lanes
  <2>1. node = m.node + 1 /\ node # 0  BY <1>1, <1>4
  <2>2. cfg.machine.numa  BY <1>1, <1>4 DEF Lanes
  <2>3. next.core = m.core  BY <2>1, <2>2 DEF Advanced, node
  <2> HIDE DEF next
  <2>4. next \in Managers  BY <1>1, <1>3, <1>4, <2>1, <2>3 DEF Managers
  <2>5. Gone(next) = g  BY <2>3 DEF Gone, g
  <2> DEFINE p == g * Lanes
  <2>6. Place(next) = p + next.node  BY <2>4, <2>5, PlaceOf
  <2>7. Place(m) = p + m.node /\ p \in Nat  BY <1>2
  <2> HIDE DEF p
  <2>8. Place(next) = Place(m) + 1  BY <1>1, <1>3, <2>1, <2>6, <2>7
  <2> QED BY <2>4, <2>8 DEF next
<1>5. CASE m.node + 1 = Lanes
  <2>1. node = 0  BY <1>1, <1>5
  <2>2. next.core = NextCore(cfg.machine, cfg.mode, m.core)  BY <2>1 DEF Advanced, node
  <2> HIDE DEF next
  <2>3. (g + 1) * Lanes = Place(m) + 1
    <3> DEFINE p == g * Lanes
    <3>1. (g + 1) * Lanes = p + Lanes  BY <1>1, <1>2
    <3>2. Place(m) = p + m.node /\ p \in Nat  BY <1>2
    <3> HIDE DEF p
    <3> QED BY <1>1, <1>5, <3>1, <3>2
  <2>4. g + 1 < Cores
    <3>1. (g + 1) * Lanes < Lanes * Cores  BY <1>1, <2>3
    <3>2. g + 1 \in Nat /\ Cores \in Nat  BY <1>1, <1>2
    <3> DEFINE h == g + 1
    <3> HIDE DEF h
    <3>3. h < Cores
      <4>1. h * Lanes < Lanes * Cores /\ h \in Nat  BY <3>1, <3>2 DEF h
      <4> QED BY <1>1, <3>2, <4>1, SmallerFactor
    <3> QED BY <3>3 DEF h
  <2> DEFINE x == m.core + (IF cfg.mode = "receiver" THEN -1 ELSE 1)
  <2>5. x \in 0 .. Cores - 1
    <3>1. g = (IF cfg.mode = "receiver" THEN Cores - 1 - m.core ELSE m.core)
      BY DEF Gone, g, IsReceiver
    <3> QED BY <1>1, <2>4, <3>1
  <2>6. next.core = x
    <3>1. AsIsize(m.core) = m.core
      <4>1. UsizeMax \div 2 \in Nat  BY UsizeMaxAssumption
      <4> DEFINE h == UsizeMax \div 2
      <4>2. AsIsize(m.core) = IF m.core > h THEN m.core - UsizeMax - 1 ELSE m.core
        BY DEF AsIsize
      <4>3. h \in Nat /\ Cores <= h  BY <1>1, <4>1
      <4> HIDE DEF h
      <4> QED BY <1>1, <4>2, <4>3
    <3>2. NextCore(cfg.machine, cfg.mode, m.core) = AsUsize(Rem(x, Cores))
      BY <3>1 DEF NextCore, Cores
    <3> HIDE DEF x
    <3>3. Rem(x, Cores) = x
      <4>1. x \in Int /\ 0 <= x /\ x < Cores  BY <1>1, <2>5
      <4> QED BY <1>1, <4>1, RemBounds
    <3> QED BY <1>1, <2>2, <2>5, <3>2, <3>3 DEF AsUsize
  <2>7. next \in Managers
    <3> HIDE DEF x
    <3>1. 0 \in 0 .. Lanes - 1  BY <1>1
    <3> QED BY <1>3, <2>1, <2>5, <2>6, <3>1 DEF Managers
  <2>8. Gone(next) = g + 1
    BY <1>1, <2>6 DEF Gone, g, IsReceiver
  <2>9. Place(next) = (g + 1) * Lanes
    <3>1. Place(next) = (g + 1) * Lanes + 0  BY <1>3, <2>1, <2>7, <2>8, PlaceOf
    <3>2. (g + 1) * Lanes \in Nat  BY <2>7, <2>8, PlaceOf
    <3> QED BY <3>1, <3>2
  <2> QED BY <2>3, <2>7, <2>9 DEF next
<1> QED BY <1>1, <1>4, <1>5

(* A thread that is bound gets a core no thread before it got.             *)
LEMMA PinPinned ==
  ASSUME Safe, NEW i \in DOMAIN th, Pin(i)
  PROVE  Pinned'
<1>1. /\ TypeOK /\ Rounded /\ Books /\ Pinned /\ cfg \in Configs /\ handed \in Nat
      /\ th[i] \in Thread
  BY DEF Safe, TypeOK
<1>2. PICK u : Moves(i, u)  BY <1>1, PinMoves
<1>3. /\ th' = [th EXCEPT ![i] = u] /\ cfg' = cfg /\ u = th'[i] /\ DOMAIN th' = DOMAIN th
      /\ \A j \in DOMAIN th \ {i} : th'[j] = th[j]
  BY <1>1, <1>2, AfterMove DEF Moves
<1>4. /\ EvenNodes' = EvenNodes /\ Managers' = Managers /\ Lanes' = Lanes /\ Cores' = Cores
      /\ IsReceiver' = IsReceiver /\ cfg'.machine = cfg.machine
  BY <1>3 DEF EvenNodes, Nodes, Managers, Lanes, Cores, IsReceiver
<1>5. \A m : Place(m)' = Place(m)  BY <1>4 DEF Place
<1>6. left' = left  BY DEF Pin
<1>7. CASE ~cfg.affinity
  <2>1. u.core = th[i].core /\ u.pc = "open" /\ UNCHANGED <<manager, poisoned, handed>>
    BY <1>1, <1>3, <1>7 DEF Pin, Thread
  <2> QED BY <1>1, <1>2, <1>6, <2>1, MovePinned
<1>8. SUFFICES ASSUME EvenNodes, handed' <= TotalCores(cfg.machine), cfg.affinity
               PROVE  Pinned'
  BY <1>4, <1>7 DEF Pinned
<1>9. handed <= TotalCores(cfg.machine)
  <2>1. TotalCores(cfg.machine) \in Int  BY <1>1, <1>8, EvenMachine
  <2>2. handed' = handed \/ handed' = handed + 1  BY DEF Pin
  <2> QED BY <1>1, <1>8, <2>1, <2>2
<1>10. /\ handed < TotalCores(cfg.machine) => manager \in Managers /\ Place(manager) = handed
       /\ ~poisoned
       /\ \A j \in DOMAIN th :
            /\ th[j].core # <<>> =>
                 \E m \in Managers : Place(m) < handed /\ th[j].core = Bound(cfg.machine, m)
            /\ th[j].pc = "stillborn" => j \in left
            /\ \A k \in DOMAIN th \ {j} : th[j].core # <<>> => th[j].core # th[k].core
  BY <1>1, <1>8, <1>9 DEF Pinned
<1>11. manager' = Advanced(cfg.machine, cfg.mode, manager) /\ handed' = handed + 1
  BY <1>8, <1>10 DEF Pin
<1>12. handed < TotalCores(cfg.machine) /\ manager \in Managers /\ Place(manager) = handed
  <2>1. TotalCores(cfg.machine) \in Int  BY <1>1, <1>8, EvenMachine
  <2> QED BY <1>1, <1>8, <1>10, <1>11, <2>1
<1>13. CanBind(cfg.machine, manager)  BY <1>1, <1>8, <1>12, BindsWell
<1>14. u.pc = "open" /\ u.core = Bound(cfg.machine, manager) /\ poisoned' = poisoned
  <2>1. /\ th' = [th EXCEPT ![i].pc = "open", ![i].core = Bound(cfg.machine, manager)]
        /\ poisoned' = poisoned
    BY <1>8, <1>10, <1>13 DEF Pin
  <2>2. u = [th[i] EXCEPT !.pc = "open", !.core = Bound(cfg.machine, manager)]
    BY <1>3, <2>1
  <2>3. u.pc = "open" /\ u.core = Bound(cfg.machine, manager)
    BY <1>1, <2>2 DEF Thread
  <2> QED BY <2>1, <2>3, Zenon
<1>15. handed' < TotalCores(cfg.machine) => manager' \in Managers /\ Place(manager') = handed'
  BY <1>1, <1>8, <1>11, <1>12, PlaceNext
<1>16. \A j \in DOMAIN th \ {i} :
         th[j].core # <<>> => \E m \in Managers : /\ Place(m) < handed /\ m # manager
                                                  /\ th[j].core = Bound(cfg.machine, m)
  BY <1>1, <1>8, <1>10, <1>12, PlaceOf
<1>17. \A j \in DOMAIN th \ {i} : th[j].core # u.core
  <2>1. SUFFICES ASSUME NEW j \in DOMAIN th \ {i}, th[j].core = u.core PROVE FALSE
    OBVIOUS
  <2>2. u.core # <<>>  BY <1>1, <1>14, BoundCore
  <2>3. PICK m \in Managers : m # manager /\ u.core = Bound(cfg.machine, m)
    BY <1>16, <2>1, <2>2
  <2> QED BY <1>1, <1>8, <1>12, <1>14, <2>3, BindsApart
<1>18. \A j \in DOMAIN th' :
         /\ th'[j].core # <<>> =>
              \E m \in Managers : Place(m) < handed' /\ th'[j].core = Bound(cfg.machine, m)
         /\ th'[j].pc = "stillborn" => j \in left'
         /\ \A k \in DOMAIN th' \ {j} : th'[j].core # <<>> => th'[j].core # th'[k].core
  <2>1. SUFFICES ASSUME NEW j \in DOMAIN th
                 PROVE  /\ th'[j].core # <<>> =>
                             \E m \in Managers : /\ Place(m) < handed'
                                                 /\ th'[j].core = Bound(cfg.machine, m)
                        /\ th'[j].pc = "stillborn" => j \in left'
                        /\ \A k \in DOMAIN th \ {j} :
                             th'[j].core # <<>> => th'[j].core # th'[k].core
    BY <1>3
  <2>2. CASE j = i
    <3>1. Place(manager) < handed'  BY <1>1, <1>11, <1>12
    <3>2. th'[j].core = Bound(cfg.machine, manager) /\ th'[j].pc = "open"
      BY <1>3, <1>14, <2>2
    <3>3. \A k \in DOMAIN th \ {j} : th'[j].core # th'[k].core  BY <1>3, <1>17, <2>2
    <3> QED BY <1>12, <3>1, <3>2, <3>3
  <2>3. CASE j # i
    <3>1. th'[j] = th[j]  BY <1>3, <2>3
    <3>2. th'[j].core # <<>> =>
            \E m \in Managers : Place(m) < handed' /\ th'[j].core = Bound(cfg.machine, m)
      <4>1. SUFFICES ASSUME th[j].core # <<>>
                     PROVE  \E m \in Managers : /\ Place(m) < handed'
                                                /\ th[j].core = Bound(cfg.machine, m)
        BY <3>1
      <4>2. PICK m \in Managers : Place(m) < handed /\ th[j].core = Bound(cfg.machine, m)
        BY <1>10, <4>1
      <4>3. Place(m) \in Nat  BY <1>1, <1>8, PlaceOf
      <4>4. Place(m) < handed'  BY <1>1, <1>11, <4>2, <4>3
      <4> QED BY <4>2, <4>4
    <3>3. th'[j].pc = "stillborn" => j \in left'  BY <1>6, <1>10, <3>1
    <3>4. \A k \in DOMAIN th \ {j} : th'[j].core # <<>> => th'[j].core # th'[k].core
      BY <1>3, <1>10, <1>17, <2>3, <3>1
    <3> QED BY <3>2, <3>3, <3>4
  <2> QED BY <2>2, <2>3
<1>19. ~poisoned'  BY <1>10, <1>14
<1> QED BY <1>4, <1>5, <1>15, <1>18, <1>19 DEF Pinned

LEMMA PinSafe ==
  ASSUME Safe, NEW i \in DOMAIN th, Pin(i)
  PROVE  Safe'
<1>1. TypeOK /\ Rounded /\ Sockets /\ Books /\ AddedUp  BY DEF Safe
<1>2. PICK u : Moves(i, u) /\ u.pc \in {"open", "stillborn"}  BY <1>1, PinMoves
<1>3. th[i].pc = "start" /\ UNCHANGED <<bound, left>>  BY DEF Pin
<1>4. Rounded' /\ Books' /\ AddedUp'  BY <1>1, <1>2, AfterMove, MoveAddsUp
<1>5. TypeOK'
  <2>1. bound' \subseteq Threads /\ left' \subseteq bound'  BY <1>1, <1>3 DEF TypeOK
  <2> QED BY <1>1, <1>2, <2>1, PinTypes, MoveTypes
<1>6. Sockets'
  <2>1. OwnsPort /\ i \in bound' => i \in left'  BY <1>3, HasPort
  <2> QED BY <1>1, <1>2, <1>3, <2>1, MoveSockets
<1>7. Pinned'  BY PinPinned
<1> QED BY <1>4, <1>5, <1>6, <1>7 DEF Safe
-----------------------------------------------------------------------------
(* The main thread's steps, and the initial state.                         *)
LEMMA MainKeeps ==
  ASSUME Sockets, Pinned, UNCHANGED <<cfg, th, manager, poisoned, handed, bound, left>>
  PROVE  Sockets' /\ Pinned'
<1>1. Sockets'  BY DEF Sockets, OwnsPort, IsReceiver
<1>2. Pinned'
  BY DEF Pinned, EvenNodes, Nodes, Managers, Lanes, Cores, IsReceiver, Place
<1> QED BY <1>1, <1>2

LEMMA JoinSafe ==
  ASSUME Safe, Join
  PROVE  Safe'
<1>1. /\ TypeOK /\ Sockets /\ Pinned
      /\ UNCHANGED <<cfg, round, th, manager, poisoned, handed, bound, left>>
  BY DEF Safe, Join
<1>2. /\ main' = "join" /\ joined' \in 0 .. cfg.threads
      /\ Rounded' /\ Books' /\ AddedUp' /\ final' \in Nat
  BY JoinAddsUp DEF Safe
<1>3. Sockets' /\ Pinned'  BY <1>1, MainKeeps
<1>4. TypeOK'
  <2>1. Threads' = Threads /\ Total' = Total  BY <1>1, Frame
  <2>2. DOMAIN finals' = 1 .. Total'  BY <1>2 DEF AddedUp
  <2> QED BY <1>1, <1>2, <2>1, <2>2 DEF TypeOK
<1> QED BY <1>2, <1>3, <1>4 DEF Safe

LEMMA ReportSafe ==
  ASSUME Safe, Report
  PROVE  Safe'
<1>1. /\ UNCHANGED <<cfg, round, joined, th, manager, poisoned, handed, bound, left, final, finals>>
      /\ main' \in {"spawn", "done"} /\ Rounded' /\ Books' /\ AddedUp'
  BY ReportFacts DEF Safe
<1>2. Sockets' /\ Pinned'  BY <1>1, MainKeeps DEF Safe
<1>3. TypeOK'
  <2>1. Threads' = Threads /\ Total' = Total  BY <1>1, Frame
  <2> QED BY <1>1, <2>1 DEF Safe, TypeOK
<1> QED BY <1>1, <1>2, <1>3 DEF Safe

LEMMA StartSafe ==
  ASSUME Safe, Start
  PROVE  Safe'
<1>1. /\ cfg' = cfg /\ round' \in 0 .. Rounds /\ joined' = 0
      /\ DOMAIN th' = Threads /\ \A i \in Threads : th'[i] = NewThread
      /\ Rounded' /\ Books' /\ AddedUp' /\ final' = 0
  BY StartFacts DEF Safe
<1>2. /\ main = "spawn" /\ main' = "join"
      /\ UNCHANGED <<manager, poisoned, handed, bound, left>>
  BY DEF Start
<1>3. TypeOK /\ Rounded /\ Sockets /\ Pinned /\ cfg \in Configs  BY DEF Safe, TypeOK
<1>4. Threads' = Threads /\ Total' = Total /\ OwnsPort' = OwnsPort  BY <1>1, Frame
<1>5. \A i \in Threads : /\ th'[i] \in Thread /\ Len(th'[i].stat.outputs) <= Total
                         /\ th'[i].pc = "start" /\ th'[i].core = <<>>
  BY <1>1, <1>3, NewBook
<1>6. TypeOK'
  <2>1. DOMAIN finals' = 1 .. Total'  BY <1>1 DEF AddedUp
  <2>2. joined' \in 0 .. cfg'.threads  BY <1>1, <1>3, Side
  <2>3. poisoned' \in BOOLEAN  BY <1>2, <1>3, Zenon DEF TypeOK
  <2> QED BY <1>1, <1>2, <1>3, <1>4, <1>5, <2>1, <2>2, <2>3 DEF TypeOK
<1>7. Sockets'
  <2>1. \A i \in DOMAIN th : th[i].pc \notin {"wait", "run"}
    BY <1>2, <1>3 DEF Rounded, Ended
  <2> QED BY <1>1, <1>2, <1>3, <1>4, <1>5, <2>1 DEF Sockets
<1>8. Pinned'
  <2>1. /\ EvenNodes' = EvenNodes /\ Managers' = Managers /\ Lanes' = Lanes /\ Cores' = Cores
        /\ IsReceiver' = IsReceiver /\ cfg'.machine = cfg.machine
    BY <1>1 DEF EvenNodes, Nodes, Managers, Lanes, Cores, IsReceiver
  <2>2. \A m : Place(m)' = Place(m)  BY <2>1 DEF Place
  <2>3. \A i \in DOMAIN th' : th'[i].core = <<>> /\ th'[i].pc # "stillborn"  BY <1>1, <1>5
  <2> QED BY <1>2, <1>3, <2>1, <2>2, <2>3 DEF Pinned
<1> QED BY <1>1, <1>6, <1>7, <1>8 DEF Safe

LEMMA InitSafe ==
  ASSUME Init
  PROVE  Safe
<1>1. /\ cfg \in Configs /\ main = "spawn" /\ round = 0 /\ joined = 0
      /\ DOMAIN th = {} /\ th = [i \in DOMAIN th |-> th[i]]
      /\ manager = NewManager(cfg.machine, cfg.mode)
      /\ poisoned = FALSE /\ handed = 0 /\ bound = {} /\ left = {}
      /\ final = 0 /\ finals = [n \in 1 .. Total |-> 0]
  BY DEF Init
<1>2. /\ cfg.machine \in Topology /\ cfg.threads \in Nat  BY <1>1, Side DEF Config
<1>3. /\ AmountCpus(cfg.machine) \in Nat \ {0} /\ AmountCpus(cfg.machine) <= UsizeMax \div 2
      /\ Len(cfg.machine.nodes) \in Nat \ {0} /\ TotalCores(cfg.machine) \in Nat \ {0}
  BY <1>1, <1>2, MachineHasCores, MachinesAssumption
<1>4. /\ manager.node = 0 /\ manager = [core |-> manager.core, node |-> 0]
      /\ manager.core = (IF IsReceiver THEN Cores - 1 ELSE 0)
      /\ manager.core \in 0 .. Cores - 1
  BY <1>1, <1>3 DEF NewManager, IsReceiver, Cores
<1>5. finals \in [1 .. Total -> Nat] /\ SumFunction(finals) = 0  BY <1>1, NoSums
<1>6. TypeOK
  <2>1. Cores <= UsizeMax /\ UsizeMax \in Nat
    <3>1. UsizeMax \div 2 \in Nat /\ UsizeMax \div 2 <= UsizeMax /\ UsizeMax \in Nat
      BY UsizeMaxAssumption
    <3> QED BY <1>3, <3>1 DEF Cores
  <2>2. manager.core \in 0 .. UsizeMax  BY <1>3, <1>4, <2>1 DEF Cores
  <2>3. round \in 0 .. Rounds /\ joined \in 0 .. cfg.threads  BY <1>1, <1>2, BoundsAssumption
  <2>4. manager.node \in 0 .. Len(cfg.machine.nodes) - 1  BY <1>3, <1>4
  <2> QED BY <1>1, <2>2, <2>3, <2>4 DEF TypeOK
<1>7. Rounded
  <2>1. 1 .. joined = {}  BY <1>1
  <2>2. round < Rounds  BY <1>1, BoundsAssumption
  <2> QED BY <1>1, <2>1, <2>2 DEF Rounded
<1>8. Sockets  BY <1>1 DEF Sockets
<1>9. Books  BY <1>1 DEF Books
<1>10. AddedUp
  <2> DEFINE f == [i \in 1 .. joined |-> ResultOf(th[i])]
  <2>1. DOMAIN f = {}  BY <1>1
  <2>2. SumFunction(f) = 0
    <3> HIDE DEF f
    <3> QED BY <2>1, SumOfNone DEF SumFunction
  <2> QED BY <1>1, <1>5, <2>2 DEF AddedUp
<1>11. Pinned
  <2>1. SUFFICES ASSUME EvenNodes PROVE manager \in Managers /\ Place(manager) = handed
    BY <1>1 DEF Pinned
  <2>2. Lanes \in Nat \ {0} /\ Cores \in Nat \ {0}  BY <1>1, <2>1, EvenMachine
  <2>3. manager \in Managers
    <3>1. 0 \in 0 .. Lanes - 1  BY <2>2
    <3> QED BY <1>4, <3>1 DEF Managers
  <2>4. Gone(manager) = 0  BY <1>4, <2>2 DEF Gone
  <2>5. Place(manager) = 0 * Lanes + 0  BY <1>1, <1>4, <2>1, <2>3, <2>4, PlaceOf
  <2> QED BY <1>1, <2>2, <2>3, <2>5
<1> QED BY <1>6, <1>7, <1>8, <1>9, <1>10, <1>11 DEF Safe

LEMMA NextSafe ==
  ASSUME Safe, [Next]_vars
  PROVE  Safe'
<1>1. ASSUME NEW i \in DOMAIN th, ThreadStep(i) PROVE Safe'
  BY <1>1, PinSafe, OpenSafe, RunSafe, LeaveSafe, EndSafe DEF ThreadStep
<1>2. CASE MainStep  BY <1>2, StartSafe, JoinSafe, ReportSafe DEF MainStep
<1>3. CASE UNCHANGED vars
  <2>1. UNCHANGED <<cfg, main, round, joined, th, manager, poisoned, handed, bound, left,
                    final, finals>>
    BY <1>3 DEF vars
  <2>2. Threads' = Threads /\ Total' = Total /\ IsReceiver' = IsReceiver  BY <2>1, Frame
  <2>3. TypeOK' /\ Rounded'  BY <2>1, <2>2 DEF Safe, TypeOK, Rounded
  <2>4. Sockets' /\ Pinned'  BY <2>1, MainKeeps DEF Safe
  <2>5. Books'
    <3>1. SUFFICES ASSUME NEW i \in DOMAIN th' PROVE BookOf(th[i])'
      BY DEF Books
    <3>2. BookOf(th[i])  BY <2>1 DEF Safe, Books
    <3> QED BY <2>1, <3>2 DEF BookOf, Counts, Returns, Divides, IsReceiver, Total
  <2>6. AddedUp'
    <3>1. [i \in 1 .. joined |-> ResultOf(th[i])]' = [i \in 1 .. joined |-> ResultOf(th[i])]
      BY <2>1 DEF ResultOf
    <3> QED BY <2>1, <2>2, <3>1 DEF Safe, AddedUp
  <2> QED BY <2>3, <2>4, <2>5, <2>6 DEF Safe
<1> QED BY <1>1, <1>2, <1>3 DEF Next

LEMMA AlwaysSafe == Spec => []Safe
BY InitSafe, NextSafe, PTL DEF Spec

(* The type invariant; among others, a thread makes no more interval       *)
(* outputs than main has places for, so that summing them up never goes    *)
(* out of range (executor.rs 80-98), and the manager's number of a core    *)
(* stays a usize.                                                          *)
THEOREM TypeCorrect == Spec => []TypeOK
<1>1. Safe => TypeOK  BY DEF Safe
<1> QED BY <1>1, AlwaysSafe, PTL

(* Every thread is started on a core of its own, but for the exceptions    *)
(* that ThreadsStart names (executor.rs 119-143): with even nodes the      *)
(* manager goes through all cores before it repeats one                    *)
(* (core_affinity_manager.rs 65-107).                                      *)
THEOREM ThreadsGetStarted == Spec => []ThreadsStart
<1>1. Safe => ThreadsStart  BY DEF Safe, Pinned, ThreadsStart
<1> QED BY <1>1, AlwaysSafe, PTL

(* What a thread counted up to its last output is in the result it         *)
(* returns, for every length of the test and of the intervals, whether the *)
(* f64 quotient of the two is exact or just too small; a sender loses at   *)
(* most one turn where it is exact (sender.rs 363-400, statistic.rs 45).   *)
THEOREM ReportsAreComplete == Spec => []ReportComplete
<1>1. Safe => ReportComplete
  BY DEF Safe, Books, BookOf, Returns, Divides, ReportComplete
<1> QED BY <1>1, AlwaysSafe, PTL

(* The sum of the intervals that main prints is within its final           *)
(* statistic, that of the joined threads (executor.rs 80-98).              *)
THEOREM IntervalsAdd == Spec => []IntervalsAddUp
<1>1. Safe => IntervalsAddUp
  BY DEF Safe, Rounded, AddedUp, ResultOf, IntervalsAddUp
<1> QED BY <1>1, AlwaysSafe, PTL
=============================================================================
