---------------------------- MODULE CommonLemmas ----------------------------
(***************************************************************************)
(* What several proofs share: facts about completion queues, about         *)
(* sequences in which nothing occurs twice, about the order of messages,   *)
(* about the measurements of the receivers, and about sums.                *)
(***************************************************************************)
EXTENDS Measurements, UringQueues, Integers, Functions, FiniteSetTheorems, SequenceTheorems,
        WellFoundedInduction, TLAPS

(* Completions that are still to be read.                                  *)

LEMMA AddOne ==
  ASSUME NEW S, IsFiniteSet(S), NEW x
  PROVE  /\ IsFiniteSet(S \cup {x}) /\ Cardinality(S) \in Nat /\ Cardinality(S \cup {x}) \in Nat
         /\ Cardinality(S \cup {x}) <= Cardinality(S) + 1
         /\ x \notin S => Cardinality(S \cup {x}) = Cardinality(S) + 1
<1>1. /\ IsFiniteSet(S \cup {x})
      /\ Cardinality(S \cup {x}) = IF x \in S THEN Cardinality(S) ELSE Cardinality(S) + 1
  BY FS_AddElement
<1>2. Cardinality(S) \in Nat  BY FS_CardinalityType
<1> QED BY <1>1, <1>2

LEMMA PlacesFinite ==
  ASSUME NEW S, NEW q \in Seq(S), NEW p \in Nat, NEW R
  PROVE  IsFiniteSet(Places(q, p, R)) /\ Cardinality(Places(q, p, R)) \in Nat
<1>1. p + 1 \in Int /\ Len(q) \in Int  BY LenProperties
<1>2. IsFiniteSet((p + 1) .. Len(q))  BY <1>1, FS_Interval
<1>3. Places(q, p, R) \subseteq (p + 1) .. Len(q)  BY DEF Places
<1> QED BY <1>2, <1>3, FS_Subset, FS_CardinalityType

LEMMA PlacesAppend ==
  ASSUME NEW S, NEW q \in Seq(S), NEW c \in S, NEW p \in 0 .. Len(q), NEW R
  PROVE  /\ Places(Append(q, c), p, R)
              = Places(q, p, R) \cup (IF c.res \in R THEN {Len(q) + 1} ELSE {})
         /\ Cardinality(Places(Append(q, c), p, R))
              = Cardinality(Places(q, p, R)) + (IF c.res \in R THEN 1 ELSE 0)
<1>1. Len(q) \in Nat /\ p \in Nat  BY LenProperties
<1>2. /\ Len(Append(q, c)) = Len(q) + 1
      /\ \A i \in 1 .. Len(q) : Append(q, c)[i] = q[i]
      /\ Append(q, c)[Len(q) + 1] = c
  BY AppendProperties
<1>3. Places(Append(q, c), p, R)
        = Places(q, p, R) \cup (IF c.res \in R THEN {Len(q) + 1} ELSE {})
  <2> SUFFICES ASSUME NEW i
               PROVE  i \in Places(Append(q, c), p, R)
                        <=> i \in Places(q, p, R) \/ (c.res \in R /\ i = Len(q) + 1)
    OBVIOUS
  <2>1. CASE i = Len(q) + 1  BY <2>1, <1>1, <1>2 DEF Places
  <2>2. CASE i # Len(q) + 1  BY <2>2, <1>1, <1>2 DEF Places
  <2> QED BY <2>1, <2>2
<1>4. IsFiniteSet(Places(q, p, R)) /\ Cardinality(Places(q, p, R)) \in Nat
  BY <1>1, PlacesFinite
<1>5. Len(q) + 1 \notin Places(q, p, R)  BY <1>1 DEF Places
<1>6. Cardinality(Places(q, p, R) \cup {Len(q) + 1}) = Cardinality(Places(q, p, R)) + 1
  BY <1>4, <1>5, FS_AddElement
<1>7. CASE c.res \in R  BY <1>3, <1>6, <1>7
<1>8. CASE c.res \notin R
  <2>1. Places(Append(q, c), p, R) = Places(q, p, R)  BY <1>3, <1>8
  <2> QED BY <2>1, <1>4, <1>8
<1> QED BY <1>7, <1>8

LEMMA PlacesSkip ==
  ASSUME NEW S, NEW q \in Seq(S), NEW c \in S, NEW p \in 0 .. Len(q), NEW R, c.res \notin R
  PROVE  Places(Append(q, c), p, R) = Places(q, p, R)
<1>1. (IF c.res \in R THEN {Len(q) + 1} ELSE {}) = {}  OBVIOUS
<1>2. Places(Append(q, c), p, R) = Places(q, p, R) \cup (IF c.res \in R THEN {Len(q) + 1} ELSE {})
  BY PlacesAppend
<1> QED BY <1>1, <1>2

LEMMA PlacesNext ==
  ASSUME NEW S, NEW q \in Seq(S), NEW p \in Nat, p < Len(q), NEW R
  PROVE  /\ Places(q, p + 1, R) = Places(q, p, R) \ {p + 1}
         /\ q[p + 1].res \in R <=> p + 1 \in Places(q, p, R)
         /\ Cardinality(Places(q, p + 1, R))
              = Cardinality(Places(q, p, R)) - (IF q[p + 1].res \in R THEN 1 ELSE 0)
<1>1. Len(q) \in Nat  BY LenProperties
<1>2. Places(q, p + 1, R) = Places(q, p, R) \ {p + 1}  BY <1>1 DEF Places
<1>3. IsFiniteSet(Places(q, p, R)) /\ Cardinality(Places(q, p, R)) \in Nat  BY PlacesFinite
<1>4. q[p + 1].res \in R <=> p + 1 \in Places(q, p, R)  BY <1>1 DEF Places
<1> QED BY <1>2, <1>3, <1>4, FS_RemoveElement

LEMMA PlacesShift ==
  ASSUME NEW S, NEW q \in Seq(S), NEW p \in 0 .. Len(q), NEW R
  PROVE  LET rest == SubSeq(q, p + 1, Len(q))
         IN  /\ rest \in Seq(S)
             /\ Len(rest) = Len(q) - p
             /\ \A i \in 1 .. Len(q) - p : rest[i] = q[p + i]
             /\ \A i : i \in Places(rest, 0, R) <=> i \in Nat /\ p + i \in Places(q, p, R)
             /\ Cardinality(Places(rest, 0, R)) = Cardinality(Places(q, p, R))
<1> DEFINE rest == SubSeq(q, p + 1, Len(q))
<1>1. Len(q) \in Nat /\ p \in Nat /\ p <= Len(q) /\ \A i \in 1 .. Len(q) : q[i] \in S
  BY LenProperties, ElementOfSeq
<1>2. p + 1 \in Int /\ Len(q) \in Int /\ \A i \in (p + 1) .. Len(q) : q[i] \in S  BY <1>1
<1>3. /\ rest \in Seq(S)
      /\ Len(rest) = IF p + 1 <= Len(q) THEN Len(q) - (p + 1) + 1 ELSE 0
      /\ \A i \in 1 .. Len(q) - (p + 1) + 1 : rest[i] = q[(p + 1) + i - 1]
  BY <1>2, SubSeqProperties
<1> HIDE DEF rest
<1>4. Len(rest) = Len(q) - p /\ \A i \in 1 .. Len(q) - p : rest[i] = q[p + i]  BY <1>1, <1>3
<1>5. \A i : i \in Places(rest, 0, R) <=> i \in Nat /\ p + i \in Places(q, p, R)
  BY <1>1, <1>4 DEF Places
<1> DEFINE f == [i \in Places(q, p, R) |-> i - p]
<1>6. f \in Bijection(Places(q, p, R), Places(rest, 0, R))
  <2>1. \A i \in Places(q, p, R) : i \in Nat /\ i - p \in Nat /\ p + (i - p) = i
    BY <1>1 DEF Places
  <2>2. f \in [Places(q, p, R) -> Places(rest, 0, R)]  BY <2>1, <1>5
  <2>3. \A i, j \in Places(q, p, R) : f[i] = f[j] => i = j  BY <2>1, <1>1
  <2>4. \A k \in Places(rest, 0, R) : p + k \in Places(q, p, R) /\ f[p + k] = k
    BY <1>1, <1>5
  <2> HIDE DEF f
  <2>5. f \in Injection(Places(q, p, R), Places(rest, 0, R))  BY <2>2, <2>3 DEF Injection, IsInjective
  <2>6. f \in Surjection(Places(q, p, R), Places(rest, 0, R))
    BY <2>2, <2>4 DEF Surjection
  <2> QED BY <2>5, <2>6 DEF Bijection
<1>7. IsFiniteSet(Places(q, p, R))  BY <1>1, PlacesFinite
<1>8. ExistsBijection(Places(q, p, R), Places(rest, 0, R))  BY <1>6 DEF ExistsBijection
<1>9. Cardinality(Places(rest, 0, R)) = Cardinality(Places(q, p, R))
  BY <1>7, <1>8, FS_Bijection
<1> QED BY <1>3, <1>4, <1>5, <1>9 DEF rest
-----------------------------------------------------------------------------
(* Sequences in which nothing occurs twice.                                *)

NoRepeats(s) == \A i, j \in 1 .. Len(s) : s[i] = s[j] => i = j

LEMMA Members ==
  ASSUME NEW S, NEW s \in Seq(S)
  PROVE  /\ ToSet(s) = {s[i] : i \in 1 .. Len(s)} /\ ToSet(s) \subseteq S
         /\ Len(s) \in Nat
<1>1. DOMAIN s = 1 .. Len(s) /\ Len(s) \in Nat /\ \A i \in 1 .. Len(s) : s[i] \in S
  BY LenProperties, ElementOfSeq
<1> QED BY <1>1 DEF ToSet

LEMMA AppendApart ==
  ASSUME NEW S, NEW s \in Seq(S), NoRepeats(s), NEW x \in S, x \notin ToSet(s)
  PROVE  /\ NoRepeats(Append(s, x)) /\ ToSet(Append(s, x)) = ToSet(s) \cup {x}
         /\ Len(Append(s, x)) = Len(s) + 1
<1> DEFINE t == Append(s, x)
           n == Len(s)
<1>1. /\ t \in Seq(S) /\ Len(t) = n + 1 /\ n \in Nat
      /\ \A i \in 1 .. n : t[i] = s[i] /\ t[n + 1] = x
  BY AppendProperties, LenProperties
<1>2. t[n + 1] = x  BY AppendProperties
<1>3. ToSet(s) = {s[i] : i \in 1 .. n} /\ ToSet(t) = {t[i] : i \in 1 .. n + 1}
  BY <1>1, Members
<1>4. \A i, j \in 1 .. n : s[i] = s[j] => i = j  BY DEF NoRepeats
<1>5. \A i \in 1 .. n : s[i] # x  BY <1>3
<1> HIDE DEF t, n
<1>6. \A i \in 1 .. n + 1 : i \in 1 .. n \/ i = n + 1  BY <1>1
<1>7. \A i \in 1 .. n : i \in 1 .. n + 1 /\ t[i] = s[i]  BY <1>1
<1>8. n + 1 \in 1 .. n + 1  BY <1>1
<1>9. \A i, j \in 1 .. n + 1 : t[i] = t[j] => i = j  BY <1>2, <1>4, <1>5, <1>6, <1>7
<1>10. ToSet(t) = ToSet(s) \cup {x}  BY <1>2, <1>3, <1>6, <1>7, <1>8
<1> QED BY <1>1, <1>9, <1>10 DEF NoRepeats, t, n

LEMMA ConcatApart ==
  ASSUME NEW S, NEW s \in Seq(S), NEW t \in Seq(S), NoRepeats(s), NoRepeats(t),
         ToSet(s) \cap ToSet(t) = {}
  PROVE  /\ NoRepeats(s \o t) /\ ToSet(s \o t) = ToSet(s) \cup ToSet(t)
         /\ Len(s \o t) = Len(s) + Len(t)
<1> DEFINE u == s \o t
           n == Len(s)
           m == Len(t)
<1>1. /\ u \in Seq(S) /\ Len(u) = n + m /\ n \in Nat /\ m \in Nat
      /\ \A i \in 1 .. n + m : u[i] = IF i <= n THEN s[i] ELSE t[i - n]
  BY ConcatProperties, LenProperties
<1>2. /\ ToSet(s) = {s[i] : i \in 1 .. n} /\ ToSet(t) = {t[i] : i \in 1 .. m}
      /\ ToSet(u) = {u[i] : i \in 1 .. n + m}
  BY <1>1, Members
<1>3. \A i, j \in 1 .. n : s[i] = s[j] => i = j  BY DEF NoRepeats
<1>4. \A i, j \in 1 .. m : t[i] = t[j] => i = j  BY DEF NoRepeats
<1>5. \A i \in 1 .. n, j \in 1 .. m : s[i] # t[j]  BY <1>2
<1> HIDE DEF u, n, m
<1>6. \A i \in 1 .. n + m : \/ i \in 1 .. n /\ u[i] = s[i]
                            \/ i - n \in 1 .. m /\ i \notin 1 .. n /\ u[i] = t[i - n]
  BY <1>1
<1>7. \A i \in 1 .. n : i \in 1 .. n + m /\ u[i] = s[i]  BY <1>1
<1>8. \A i \in 1 .. m : n + i \in 1 .. n + m /\ u[n + i] = t[i]
  <2> TAKE i \in 1 .. m
  <2>1. n + i \in 1 .. n + m /\ ~(n + i <= n) /\ (n + i) - n = i  BY <1>1
  <2> QED BY <1>1, <2>1
<1>9. \A i, j \in 1 .. n + m : u[i] = u[j] => i = j
  <2> TAKE i, j \in 1 .. n + m
  <2> HAVE u[i] = u[j]
  <2>1. CASE i \in 1 .. n /\ j \in 1 .. n  BY <2>1, <1>3, <1>7
  <2>2. CASE i \notin 1 .. n /\ j \notin 1 .. n
    <3>1. i - n = j - n  BY <2>2, <1>4, <1>6
    <3> QED BY <3>1, <1>1
  <2>3. CASE i \in 1 .. n /\ j \notin 1 .. n  BY <2>3, <1>5, <1>6
  <2>4. CASE i \notin 1 .. n /\ j \in 1 .. n  BY <2>4, <1>5, <1>6
  <2> QED BY <2>1, <2>2, <2>3, <2>4
<1>10. ToSet(u) = ToSet(s) \cup ToSet(t)
  <2>1. ToSet(u) \subseteq ToSet(s) \cup ToSet(t)  BY <1>2, <1>6
  <2>2. ToSet(s) \subseteq ToSet(u)  BY <1>2, <1>7
  <2>3. ToSet(t) \subseteq ToSet(u)  BY <1>2, <1>8
  <2> QED BY <2>1, <2>2, <2>3
<1> QED BY <1>1, <1>9, <1>10 DEF NoRepeats, u, n, m

LEMMA HeadApart ==
  ASSUME NEW S, NEW s \in Seq(S), s # <<>>, NoRepeats(s)
  PROVE  /\ Head(s) \in S /\ Tail(s) \in Seq(S) /\ Len(Tail(s)) = Len(s) - 1
         /\ NoRepeats(Tail(s)) /\ Head(s) \in ToSet(s) /\ ToSet(Tail(s)) = ToSet(s) \ {Head(s)}
<1> DEFINE t == Tail(s)
           h == Head(s)
           n == Len(s)
<1>1. /\ n \in Nat /\ n > 0 /\ t \in Seq(S) /\ Len(t) = n - 1 /\ h = s[1] /\ h \in S
      /\ \A i \in 1 .. n - 1 : t[i] = s[i + 1]
  BY HeadTailProperties, LenProperties
<1>2. ToSet(s) = {s[i] : i \in 1 .. n} /\ ToSet(t) = {t[i] : i \in 1 .. n - 1}
  BY <1>1, Members
<1>3. \A i, j \in 1 .. n : s[i] = s[j] => i = j  BY DEF NoRepeats
<1> HIDE DEF t, h, n
<1>4. \A i \in 1 .. n - 1 : t[i] = s[i + 1] /\ i + 1 \in 1 .. n /\ i + 1 # 1  BY <1>1
<1>5. \A i \in 1 .. n : i = 1 \/ (i - 1 \in 1 .. n - 1 /\ (i - 1) + 1 = i)  BY <1>1
<1>6. 1 \in 1 .. n  BY <1>1
<1>7. \A i, j \in 1 .. n - 1 : t[i] = t[j] => i = j
  <2> TAKE i, j \in 1 .. n - 1
  <2> HAVE t[i] = t[j]
  <2>1. i + 1 = j + 1  BY <1>3, <1>4
  <2> QED BY <1>1, <2>1
<1>8. ToSet(t) \subseteq ToSet(s) \ {h}  BY <1>1, <1>2, <1>3, <1>4, <1>6
<1>9. ToSet(s) \ {h} \subseteq ToSet(t)
  <2> SUFFICES ASSUME NEW i \in 1 .. n, s[i] # h PROVE s[i] \in ToSet(t)
    BY <1>2
  <2>1. i - 1 \in 1 .. n - 1 /\ (i - 1) + 1 = i  BY <1>1, <1>5
  <2>2. t[i - 1] = s[i]  BY <1>1, <2>1
  <2> QED BY <1>2, <2>1, <2>2
<1>10. h \in ToSet(s)  BY <1>1, <1>2, <1>6
<1>11. NoRepeats(t)  BY <1>1, <1>7 DEF NoRepeats
<1> QED BY <1>1, <1>8, <1>9, <1>10, <1>11 DEF t, h, n
-----------------------------------------------------------------------------
(* The measurements keep their type.                                       *)
LEMMA ParsedType ==
  ASSUME NEW s \in Seq(Measurement), NEW m \in Message
  PROVE  Parsed(s, m) \in Seq(Measurement)
<1>1. Len(s) \in Nat /\ DOMAIN s = 1 .. Len(s) /\ \A i \in 1 .. Len(s) : s[i] \in Measurement
  BY LenProperties, ElementOfSeq
<1>2. m.test \in Nat /\ m.type \in {"INIT", "MEASUREMENT", "LAST"}  BY DEF Message
<1>3. NewMeasurement \in Measurement  BY DEF NewMeasurement, Measurement
<1> DEFINE n == IF Len(s) <= m.test THEN m.test + 1 ELSE Len(s)
<1>4. n \in Nat  BY <1>1, <1>2
<1>5. Resized(s, m.test) \in [1 .. n -> Measurement]  BY <1>1, <1>3 DEF Resized
<1>6. Resized(s, m.test) \in Seq(Measurement)  BY <1>4, <1>5, SeqDef
<1>7. [Resized(s, m.test) EXCEPT ![m.test + 1].first = TRUE] \in [1 .. n -> Measurement]
  BY <1>5 DEF Measurement
<1>8. [Resized(s, m.test) EXCEPT ![m.test + 1].first = TRUE] \in Seq(Measurement)
  <2> DEFINE f == [Resized(s, m.test) EXCEPT ![m.test + 1].first = TRUE]
  <2>1. f \in [1 .. n -> Measurement]  BY <1>7
  <2> HIDE DEF f, n
  <2>2. f \in Seq(Measurement)  BY <1>4, <2>1, SeqDef
  <2> QED BY <2>2 DEF f
<1>9. s \in [1 .. Len(s) -> Measurement]  BY <1>1
<1>10. [s EXCEPT ![m.test + 1].last = TRUE] \in [1 .. Len(s) -> Measurement]
  BY <1>9 DEF Measurement
<1>11. [s EXCEPT ![m.test + 1].last = TRUE] \in Seq(Measurement)
  <2> DEFINE f == [s EXCEPT ![m.test + 1].last = TRUE]
  <2>1. f \in [1 .. Len(s) -> Measurement] /\ Len(s) \in Nat  BY <1>1, <1>10
  <2> HIDE DEF f
  <2>2. f \in Seq(Measurement)  BY <2>1, SeqDef
  <2> QED BY <2>2 DEF f
<1>12. ParseResult(s, m) \in {"ERROR", "panic", "INIT", "OK", "LAST"}  BY <1>2 DEF ParseResult
<1> QED BY <1>6, <1>8, <1>11, <1>12 DEF Parsed
-----------------------------------------------------------------------------
(* The order of messages.                                                  *)

(* Nothing was taken yet.                                                  *)
LEMMA NoneInOrder ==
  ASSUME NEW taken, NEW handled, Len(taken) = 0, Len(handled) = 0, NEW message
  PROVE  InOrder({}, message, taken, handled)
<1> DEFINE none == [i \in {} |-> 0]
<1>1. none \in [{} -> Len(handled) + 1 .. Len(taken)]  OBVIOUS
<1>2. Len(handled) + 1 .. Len(taken) = {}  OBVIOUS
<1> HIDE DEF none
<1>3. \E nth \in [{} -> Len(handled) + 1 .. Len(taken)] :
        /\ \A i, j \in {} : i < j => nth[i] < nth[j]
        /\ \A k \in Len(handled) + 1 .. Len(taken) : \E i \in {} : nth[i] = k
        /\ \A i \in {} : message[i] = taken[nth[i]]
  BY <1>1, <1>2
<1>4. Len(handled) <= Len(taken) /\ \A k \in 1 .. Len(handled) : taken[k] = handled[k]
  OBVIOUS
<1> QED BY <1>3, <1>4 DEF InOrder

(* A message is taken from the socket: its completion is behind all others.*)
Behind(U, message, n, x, later) ==
  /\ U \subseteq Nat /\ n \in Nat /\ later[n] = x
  /\ \A i \in U : i < n /\ later[i] = message[i]

LEMMA TakeInOrder ==
  ASSUME NEW S, NEW taken \in Seq(S), NEW handled \in Seq(S), NEW x \in S,
         NEW U, NEW message, NEW n, NEW later, Behind(U, message, n, x, later),
         InOrder(U, message, taken, handled)
  PROVE  InOrder(U \cup {n}, later, Append(taken, x), handled)
<1> USE DEF Behind
<1> DEFINE more == Append(taken, x)
           t == Len(taken)
           h == Len(handled)
<1>1. /\ t \in Nat /\ h \in Nat /\ Len(more) = t + 1 /\ \A k \in 1 .. t : more[k] = taken[k]
      /\ more[t + 1] = x
  BY AppendProperties, LenProperties
<1>2. h <= t /\ \A k \in 1 .. h : taken[k] = handled[k]  BY DEF InOrder
<1>3. PICK nth \in [U -> h + 1 .. t] :
        /\ \A i, j \in U : i < j => nth[i] < nth[j]
        /\ \A k \in h + 1 .. t : \E i \in U : nth[i] = k
        /\ \A i \in U : message[i] = taken[nth[i]]
  BY DEF InOrder
<1> DEFINE next == [i \in U \cup {n} |-> IF i = n THEN t + 1 ELSE nth[i]]
<1> HIDE DEF more, t, h
<1>4. \A i \in U : i # n /\ next[i] = nth[i] /\ nth[i] \in h + 1 .. t  BY <1>3
<1>5. next[n] = t + 1  OBVIOUS
<1>6. next \in [U \cup {n} -> h + 1 .. t + 1]  BY <1>1, <1>2, <1>3
<1> HIDE DEF next
<1>7. \A i, j \in U \cup {n} : i < j => next[i] < next[j]
  <2> TAKE i, j \in U \cup {n}
  <2> HAVE i < j
  <2>1. CASE i \in U /\ j \in U  BY <2>1, <1>3, <1>4
  <2>2. CASE i \in U /\ j = n  BY <2>2, <1>1, <1>4, <1>5
  <2>3. CASE i = n /\ j \in U
    <3>1. i \in Nat /\ j \in Nat /\ j < i  BY <2>3
    <3> QED BY <3>1
  <2>4. CASE i = n /\ j = n  BY <2>4
  <2> QED BY <2>1, <2>2, <2>3, <2>4
<1>8. \A k \in h + 1 .. t + 1 : \E i \in U \cup {n} : next[i] = k
  <2> TAKE k \in h + 1 .. t + 1
  <2>1. k \in h + 1 .. t \/ k = t + 1  BY <1>1
  <2> QED BY <2>1, <1>3, <1>4, <1>5
<1>9. \A i \in U \cup {n} : later[i] = more[next[i]]
  <2>1. \A i \in U : more[nth[i]] = taken[nth[i]]
    <3> TAKE i \in U
    <3>1. nth[i] \in 1 .. t  BY <1>1, <1>4
    <3> QED BY <3>1, <1>1
  <2> QED BY <2>1, <1>1, <1>3, <1>4, <1>5
<1>10. h <= t + 1 /\ \A k \in 1 .. h : more[k] = handled[k]
  <2>1. \A k \in 1 .. h : k \in 1 .. t  BY <1>1, <1>2
  <2> QED BY <2>1, <1>1, <1>2
<1>11. \E f \in [U \cup {n} -> h + 1 .. t + 1] :
         /\ \A i, j \in U \cup {n} : i < j => f[i] < f[j]
         /\ \A k \in h + 1 .. t + 1 : \E i \in U \cup {n} : f[i] = k
         /\ \A i \in U \cup {n} : later[i] = more[f[i]]
  BY <1>6, <1>7, <1>8, <1>9
<1>12. Len(more) = t + 1  BY <1>1
<1>13. InOrder(U \cup {n}, later, more, handled)  BY <1>10, <1>11, <1>12, ZenonT(60) DEF InOrder, h
<1> QED BY <1>13 DEF more

(* The first of the completions still to be read is read.                  *)
LEMMA HandleInOrder ==
  ASSUME NEW S, NEW taken \in Seq(S), NEW handled \in Seq(S),
         NEW U \in SUBSET Nat, NEW message, NEW u \in U, \A i \in U : u <= i, message[u] \in S,
         NEW later, \A i \in U \ {u} : later[i] = message[i],
         InOrder(U, message, taken, handled)
  PROVE  InOrder(U \ {u}, later, taken, Append(handled, message[u]))
<1> DEFINE more == Append(handled, message[u])
           t == Len(taken)
           h == Len(handled)
<1>1. /\ t \in Nat /\ h \in Nat /\ Len(more) = h + 1 /\ \A k \in 1 .. h : more[k] = handled[k]
      /\ more[h + 1] = message[u]
  BY AppendProperties, LenProperties
<1>2. h <= t /\ \A k \in 1 .. h : taken[k] = handled[k]  BY DEF InOrder
<1>3. PICK nth \in [U -> h + 1 .. t] :
        /\ \A i, j \in U : i < j => nth[i] < nth[j]
        /\ \A k \in h + 1 .. t : \E i \in U : nth[i] = k
        /\ \A i \in U : message[i] = taken[nth[i]]
  BY DEF InOrder
<1> HIDE DEF more, t, h
<1>4. \A i \in U : nth[i] \in Nat /\ h + 1 <= nth[i] /\ nth[i] <= t  BY <1>1, <1>3
<1>5. nth[u] = h + 1
  <2>1. h + 1 \in h + 1 .. t  BY <1>1, <1>4
  <2>2. PICK i \in U : nth[i] = h + 1  BY <1>3, <2>1
  <2>3. i = u \/ u < i
    <3>1. i \in Nat /\ u \in Nat /\ u <= i  OBVIOUS
    <3> QED BY <3>1
  <2>4. u < i => nth[u] < h + 1  BY <1>3, <2>2
  <2> QED BY <1>1, <1>4, <2>2, <2>3, <2>4
<1>6. \A i \in U \ {u} : nth[i] > h + 1
  <2> TAKE i \in U \ {u}
  <2>1. u < i
    <3>1. i \in Nat /\ u \in Nat /\ u <= i /\ i # u  OBVIOUS
    <3> QED BY <3>1
  <2>2. nth[u] < nth[i]  BY <1>3, <2>1
  <2> QED BY <1>1, <1>4, <1>5, <2>2
<1> DEFINE next == [i \in U \ {u} |-> nth[i]]
<1>7. next \in [U \ {u} -> (h + 1) + 1 .. t]
  <2>1. \A i \in U \ {u} : nth[i] \in (h + 1) + 1 .. t  BY <1>1, <1>4, <1>6
  <2> QED BY <2>1
<1>8. \A i \in U \ {u} : next[i] = nth[i]  OBVIOUS
<1> HIDE DEF next
<1>9. \A i, j \in U \ {u} : i < j => next[i] < next[j]  BY <1>3, <1>8
<1>10. \A k \in (h + 1) + 1 .. t : \E i \in U \ {u} : next[i] = k
  <2> TAKE k \in (h + 1) + 1 .. t
  <2>1. k \in h + 1 .. t /\ k # h + 1  BY <1>1
  <2>2. PICK i \in U : nth[i] = k  BY <1>3, <2>1
  <2> QED BY <1>5, <1>8, <2>1, <2>2
<1>11. \A i \in U \ {u} : later[i] = taken[next[i]]  BY <1>3, <1>8
<1>12. h + 1 <= t  BY <1>1, <1>4, <1>5
<1>13. \A k \in 1 .. h + 1 : taken[k] = more[k]
  <2> TAKE k \in 1 .. h + 1
  <2>1. k \in 1 .. h \/ k = h + 1  BY <1>1
  <2> QED BY <2>1, <1>1, <1>2, <1>3, <1>5
<1>14. \E f \in [U \ {u} -> (h + 1) + 1 .. t] :
         /\ \A i, j \in U \ {u} : i < j => f[i] < f[j]
         /\ \A k \in (h + 1) + 1 .. t : \E i \in U \ {u} : f[i] = k
         /\ \A i \in U \ {u} : later[i] = taken[f[i]]
  BY <1>7, <1>9, <1>10, <1>11
<1>15. Len(more) = h + 1  BY <1>1
<1> QED BY <1>12, <1>13, <1>14, <1>15, ZenonT(60) DEF InOrder, more, t

(* The completions that were read leave the queue, the others move up.     *)
MovedUp(U, message, p, V, later) ==
  /\ U \in SUBSET Nat /\ V \in SUBSET Nat /\ \A i \in U : p < i
  /\ \A i \in Nat : i \in V <=> p + i \in U
  /\ \A i \in V : later[i] = message[p + i]

LEMMA ShiftInOrder ==
  ASSUME NEW S, NEW taken \in Seq(S), NEW handled \in Seq(S), NEW p \in Nat,
         NEW U, NEW message, NEW V, NEW later, MovedUp(U, message, p, V, later),
         InOrder(U, message, taken, handled)
  PROVE  InOrder(V, later, taken, handled)
<1>0. /\ U \in SUBSET Nat /\ V \in SUBSET Nat /\ \A i \in U : p < i
      /\ \A i \in Nat : i \in V <=> p + i \in U
      /\ \A i \in V : later[i] = message[p + i]
  BY DEF MovedUp
<1> DEFINE t == Len(taken)
           h == Len(handled)
<1>1. t \in Nat /\ h \in Nat  BY LenProperties
<1>2. h <= t /\ \A k \in 1 .. h : taken[k] = handled[k]  BY DEF InOrder
<1>3. PICK nth \in [U -> h + 1 .. t] :
        /\ \A i, j \in U : i < j => nth[i] < nth[j]
        /\ \A k \in h + 1 .. t : \E i \in U : nth[i] = k
        /\ \A i \in U : message[i] = taken[nth[i]]
  BY DEF InOrder
<1> HIDE DEF t, h
<1> DEFINE next == [i \in V |-> nth[p + i]]
<1>4. \A i \in V : next[i] = nth[p + i] /\ p + i \in U /\ i \in Nat  BY <1>0
<1>5. next \in [V -> h + 1 .. t]  BY <1>3, <1>4
<1> HIDE DEF next
<1>6. \A i, j \in V : i < j => next[i] < next[j]
  <2> TAKE i, j \in V
  <2> HAVE i < j
  <2>1. p + i < p + j  BY <1>4
  <2> QED BY <1>3, <1>4, <2>1
<1>7. \A k \in h + 1 .. t : \E i \in V : next[i] = k
  <2> TAKE k \in h + 1 .. t
  <2>1. PICK i \in U : nth[i] = k  BY <1>3
  <2>2. i - p \in Nat /\ p + (i - p) = i
    <3>1. i \in Nat /\ p < i  BY <1>0
    <3> QED BY <3>1
  <2>3. i - p \in V  BY <1>0, <2>2
  <2> QED BY <1>4, <2>1, <2>2, <2>3
<1>8. \A i \in V : later[i] = taken[next[i]]  BY <1>0, <1>3, <1>4, ZenonT(60)
<1> QED BY <1>2, <1>5, <1>6, <1>7, <1>8 DEF InOrder, t, h

(* What nothing is read or taken from keeps its order.                     *)
LEMMA SameInOrder ==
  ASSUME NEW taken, NEW handled, NEW U, NEW message, NEW later,
         \A i \in U : later[i] = message[i], InOrder(U, message, taken, handled)
  PROVE  InOrder(U, later, taken, handled)
BY DEF InOrder

(* The messages of the completions of a queue q behind position p, which   *)
(* are in the buffers `text'.                                              *)
Bytes == {"bytes"}
Waiting(q, p) == Places(q, p, Bytes)
Messages(q, p, text) == [i \in Waiting(q, p) |-> text[q[i].buf]]
Ordered(q, p, text, taken, handled) == InOrder(Waiting(q, p), Messages(q, p, text), taken, handled)

LEMMA WaitingRange ==
  ASSUME NEW S, NEW q \in Seq(S), NEW p \in Nat, NEW text
  PROVE  /\ Waiting(q, p) \in SUBSET Nat
         /\ \A i \in Waiting(q, p) : /\ i \in 1 .. Len(q) /\ p < i
                                     /\ Messages(q, p, text)[i] = text[q[i].buf]
<1>1. Len(q) \in Nat  BY LenProperties
<1>2. \A i \in Waiting(q, p) : i \in 1 .. Len(q) /\ p < i  BY <1>1 DEF Waiting, Places
<1> QED BY <1>1, <1>2 DEF Messages

(* The queue is empty.                                                     *)
LEMMA OrderedNone ==
  ASSUME NEW text
  PROVE  Ordered(<<>>, 0, text, <<>>, <<>>)
<1>1. Waiting(<<>>, 0) = {}  BY DEF Waiting, Places
<1>2. Len(<<>>) = 0  OBVIOUS
<1>3. InOrder({}, Messages(<<>>, 0, text), <<>>, <<>>)  BY <1>2, NoneInOrder
<1> QED BY <1>1, <1>3 DEF Ordered

(* A message x is received into a buffer that no message waits in.         *)
LEMMA OrderedReceive ==
  ASSUME NEW S, NEW q \in Seq(S), NEW c \in S, NEW p \in Nat, p <= Len(q), c.res = "bytes",
         NEW M, NEW taken \in Seq(M), NEW handled \in Seq(M), NEW x \in M,
         NEW text, NEW next, next[c.buf] = x,
         \A i \in Waiting(q, p) : next[q[i].buf] = text[q[i].buf],
         Ordered(q, p, text, taken, handled)
  PROVE  Ordered(Append(q, c), p, next, Append(taken, x), handled)
<1> DEFINE U == Waiting(q, p)
           n == Len(q) + 1
           r == Append(q, c)
           later == Messages(r, p, next)
<1>1. Len(q) \in Nat /\ p \in 0 .. Len(q) /\ n \in Nat  BY LenProperties
<1>2. Waiting(r, p) = U \cup {n}
  <2>1. (IF c.res \in Bytes THEN {Len(q) + 1} ELSE {}) = {n}  BY DEF Bytes
  <2>2. Places(r, p, Bytes) = Places(q, p, Bytes) \cup (IF c.res \in Bytes THEN {Len(q) + 1} ELSE {})
    BY <1>1, PlacesAppend
  <2> QED BY <2>1, <2>2 DEF Waiting
<1>3. /\ U \in SUBSET Nat
      /\ \A i \in U : i \in 1 .. Len(q) /\ Messages(q, p, text)[i] = text[q[i].buf]
  BY WaitingRange
<1>4. r[n] = c /\ \A i \in 1 .. Len(q) : r[i] = q[i]  BY AppendProperties
<1>5. \A i \in U \cup {n} : later[i] = next[r[i].buf]  BY <1>2 DEF Messages
<1>6. \A i \in U : i < n  BY <1>1, <1>3
<1> HIDE DEF U, n, r, later
<1>7. \A i \in U : later[i] = Messages(q, p, text)[i]  BY <1>3, <1>4, <1>5 DEF U
<1>8. later[n] = x  BY <1>4, <1>5
<1>9. InOrder(U, Messages(q, p, text), taken, handled)  BY DEF Ordered, U
<1>10. InOrder(U \cup {n}, later, Append(taken, x), handled)
  <2>1. Behind(U, Messages(q, p, text), n, x, later)
    BY <1>1, <1>3, <1>6, <1>7, <1>8 DEF Behind
  <2> QED BY <1>9, <2>1, TakeInOrder
<1> QED BY <1>2, <1>10 DEF Ordered, r, later

(* A completion without a message arrives.                                 *)
LEMMA OrderedSkip ==
  ASSUME NEW S, NEW q \in Seq(S), NEW c \in S, NEW p \in Nat, p <= Len(q), c.res # "bytes",
         NEW taken, NEW handled, NEW text, Ordered(q, p, text, taken, handled)
  PROVE  Ordered(Append(q, c), p, text, taken, handled)
<1> DEFINE U == Waiting(q, p)
           r == Append(q, c)
           later == Messages(r, p, text)
<1>1. p \in 0 .. Len(q) /\ c.res \notin Bytes  BY LenProperties DEF Bytes
<1>2. Waiting(r, p) = U  BY <1>1, PlacesSkip DEF Waiting
<1>3. \A i \in U : i \in 1 .. Len(q) /\ Messages(q, p, text)[i] = text[q[i].buf]
  BY WaitingRange
<1>4. \A i \in 1 .. Len(q) : r[i] = q[i]  BY AppendProperties
<1>5. \A i \in U : later[i] = Messages(q, p, text)[i]  BY <1>2, <1>3, <1>4 DEF Messages
<1> HIDE DEF U, later
<1>6. InOrder(U, later, taken, handled)  BY <1>5, SameInOrder DEF Ordered, U
<1> QED BY <1>2, <1>6 DEF Ordered, later

(* The next completion is read, and its message, if it has one, parsed.    *)
LEMMA OrderedRead ==
  ASSUME NEW S, NEW q \in Seq(S), NEW p \in Nat, p < Len(q),
         NEW M, NEW taken \in Seq(M), NEW handled \in Seq(M), NEW text,
         text[q[p + 1].buf] \in M, Ordered(q, p, text, taken, handled)
  PROVE  Ordered(q, p + 1, text, taken,
                 IF q[p + 1].res = "bytes" THEN Append(handled, text[q[p + 1].buf]) ELSE handled)
<1> DEFINE u == p + 1
           U == Waiting(q, p)
           V == Waiting(q, u)
           message == Messages(q, p, text)
           later == Messages(q, u, text)
<1>1. V = U \ {u} /\ (q[u].res = "bytes" <=> u \in U)
  BY PlacesNext DEF Waiting, Bytes
<1>2. /\ U \in SUBSET Nat
      /\ \A i \in U : i \in 1 .. Len(q) /\ p < i /\ message[i] = text[q[i].buf]
  BY WaitingRange
<1>3. \A i \in V : later[i] = text[q[i].buf]  BY DEF Messages
<1>4. \A i \in V : later[i] = message[i]  BY <1>1, <1>2, <1>3
<1>5. InOrder(U, message, taken, handled)  BY DEF Ordered
<1>6. \A i \in U : u <= i  BY <1>2
<1>7. text[q[u].buf] \in M  OBVIOUS
<1> HIDE DEF u, U, V, message, later
<1>8. CASE q[u].res = "bytes"
  <2>1. message[u] = text[q[u].buf]  BY <1>1, <1>2, <1>8
  <2>2. InOrder(U \ {u}, later, taken, Append(handled, message[u]))
    BY <1>1, <1>2, <1>4, <1>5, <1>6, <1>7, <1>8, <2>1, HandleInOrder
  <2> QED BY <1>1, <1>8, <2>1, <2>2 DEF Ordered, u, V, later
<1>9. CASE q[u].res # "bytes"
  <2>1. V = U  BY <1>1, <1>9
  <2>2. InOrder(U, later, taken, handled)  BY <1>4, <1>5, <2>1, SameInOrder
  <2> QED BY <1>9, <2>1, <2>2 DEF Ordered, u, V, later
<1> QED BY <1>8, <1>9

(* What was read is released, and the other completions move up.           *)
LEMMA OrderedRelease ==
  ASSUME NEW S, NEW q \in Seq(S), NEW p \in Nat, p <= Len(q),
         NEW M, NEW taken \in Seq(M), NEW handled \in Seq(M), NEW text,
         Ordered(q, p, text, taken, handled)
  PROVE  Ordered(SubSeq(q, p + 1, Len(q)), 0, text, taken, handled)
<1> DEFINE r == SubSeq(q, p + 1, Len(q))
           U == Waiting(q, p)
           V == Waiting(r, 0)
           message == Messages(q, p, text)
           later == Messages(r, 0, text)
<1>1. Len(q) \in Nat /\ p \in 0 .. Len(q)  BY LenProperties
<1>2. /\ \A i \in 1 .. Len(q) - p : r[i] = q[p + i]
      /\ \A i : i \in V <=> i \in Nat /\ p + i \in U
  BY <1>1, PlacesShift DEF Waiting
<1>3. /\ U \in SUBSET Nat
      /\ \A i \in U : i \in 1 .. Len(q) /\ p < i /\ message[i] = text[q[i].buf]
  BY WaitingRange
<1>4. \A i \in V : later[i] = text[r[i].buf]  BY DEF Messages
<1> HIDE DEF r, U, V, message, later
<1>5. \A i \in V : later[i] = message[p + i]
  <2> TAKE i \in V
  <2>1. i \in Nat /\ p + i \in U  BY <1>2
  <2>2. i \in 1 .. Len(q) - p  BY <1>1, <1>3, <2>1
  <2> QED BY <1>2, <1>3, <1>4, <2>1, <2>2
<1>6. V \in SUBSET Nat /\ \A i \in U : p < i  BY <1>2, <1>3
<1>7. \A i \in Nat : i \in V <=> p + i \in U  BY <1>2
<1>8. MovedUp(U, message, p, V, later)  BY <1>3, <1>5, <1>6, <1>7 DEF MovedUp
<1>9. InOrder(U, message, taken, handled)  BY DEF Ordered, U, message
<1>10. InOrder(V, later, taken, handled)  BY <1>8, <1>9, ShiftInOrder
<1> QED BY <1>10 DEF Ordered, V, later, r
-----------------------------------------------------------------------------
(* Sums of functions over finite sets.  The provers cannot use an induction *)
(* rule that takes a predicate, so induction here is about sets of numbers. *)

Below == OpToRel(<, Nat)

LEMMA Smallest ==
  ASSUME NEW T, T \subseteq Nat, T # {}
  PROVE  \E x \in T : \A y \in T : x <= y
<1>1. IsWellFoundedOn(Below, Nat)  BY NatLessThanWellFounded DEF Below
<1>2. \A x, y \in Nat : y < x => <<y, x>> \in Below  BY DEF OpToRel, Below
<1> HIDE DEF Below
<1>3. PICK x \in T : \A y \in T : ~ (<<y, x>> \in Below)  BY <1>1, WFMin, Zenon
<1>4. ASSUME NEW y \in T PROVE x <= y
  <2>1. x \in Nat /\ y \in Nat /\ ~ (y < x)  BY <1>2, <1>3
  <2> QED BY <2>1
<1> QED BY <1>4

(* Induction, for the set of the numbers with a property.                  *)
LEMMA SetInduction ==
  ASSUME NEW T, 0 \in T, \A n \in Nat : n \in T => n + 1 \in T
  PROVE  Nat \subseteq T
<1> SUFFICES ASSUME Nat \ T # {} PROVE FALSE
  OBVIOUS
<1>1. PICK x \in Nat \ T : \A y \in Nat \ T : x <= y  BY Smallest
<1>2. x # 0 /\ x - 1 \in Nat /\ (x - 1) + 1 = x  BY <1>1
<1>3. x - 1 \in T  BY <1>1, <1>2
<1> QED BY <1>1, <1>2, <1>3

(* The element with which a sum over s goes on, and one step of the sum of *)
(* f over s, when g has the sums over smaller sets.                        *)
Chosen(s) == CHOOSE x \in s : TRUE
SumStep(g, f, s) == IF s = {} THEN 0 ELSE f[Chosen(s)] + g[s \ {Chosen(s)}]

(* g has the sums of f over all subsets of S.                              *)
Sums(g, f, S) == g = [s \in SUBSET S |-> SumStep(g, f, s)]
Integral(g, S) == g \in [SUBSET S -> Int]

LEMMA SumIs ==
  ASSUME NEW f, NEW S
  PROVE  SumFunctionOnSet(f, S) = (CHOOSE g : Sums(g, f, S))[S]
BY DEF SumFunctionOnSet, FoldFunctionOnSet, MapThenFoldSet, Sums, SumStep, Chosen

LEMMA WithoutChosen ==
  ASSUME NEW S, IsFiniteSet(S), NEW s \in SUBSET S, NEW n \in Nat, Cardinality(s) <= n + 1
  PROVE  /\ s = {} <=> Cardinality(s) = 0
         /\ Cardinality(s) \in Nat
         /\ \A x \in s : s \ {x} \in SUBSET S /\ Cardinality(s \ {x}) <= n
         /\ s # {} => Chosen(s) \in s
<1>1. IsFiniteSet(s)  BY FS_Subset
<1>2. Cardinality(s) \in Nat  BY <1>1, FS_CardinalityType
<1>3. s = {} <=> Cardinality(s) = 0  BY <1>1, FS_EmptySet
<1>4. ASSUME NEW x \in s PROVE Cardinality(s \ {x}) <= n
  <2>1. Cardinality(s \ {x}) = Cardinality(s) - 1  BY <1>1, FS_RemoveElement
  <2> QED BY <1>2, <2>1
<1> QED BY <1>2, <1>3, <1>4 DEF Chosen

LEMMA NoMoreThanNone ==
  ASSUME NEW S, IsFiniteSet(S), NEW s \in SUBSET S, Cardinality(s) <= 0
  PROVE  s = {}
<1>1. IsFiniteSet(s)  BY FS_Subset
<1>2. Cardinality(s) \in Nat  BY <1>1, FS_CardinalityType
<1>3. Cardinality(s) = 0  BY <1>2
<1> QED BY <1>1, <1>3, FS_EmptySet

(* The sums over sets of at most n elements.                               *)
Small(S, n) == {s \in SUBSET S : Cardinality(s) <= n}

SmallSums(g, f, S, n) ==
  g \in [Small(S, n) -> Int] /\ \A s \in Small(S, n) : g[s] = SumStep(g, f, s)

LEMMA MoreSums ==
  ASSUME NEW S, IsFiniteSet(S), NEW f, \A i \in S : f[i] \in Int, NEW n \in Nat,
         NEW g, SmallSums(g, f, S, n)
  PROVE  \E h : SmallSums(h, f, S, n + 1)
<1> DEFINE h == [s \in Small(S, n + 1) |-> IF s \in Small(S, n) THEN g[s] ELSE SumStep(g, f, s)]
<1>1. ASSUME NEW s \in Small(S, n + 1)
      PROVE  h[s] \in Int /\ h[s] = SumStep(h, f, s)
  <2>1. s \in SUBSET S /\ Cardinality(s) <= n + 1  BY DEF Small
  <2>2. CASE s = {}
    <3>1. Cardinality(s) <= n  BY <2>1, <2>2, WithoutChosen
    <3>2. s \in Small(S, n)  BY <2>1, <3>1 DEF Small
    <3>3. h[s] = g[s]  BY <3>2
    <3>4. g[s] = 0  BY <2>2, <3>2 DEF SmallSums, SumStep
    <3> QED BY <2>2, <3>3, <3>4 DEF SumStep
  <2>3. CASE s # {}
    <3> DEFINE x == Chosen(s)
    <3>1. x \in s /\ s \ {x} \in SUBSET S /\ Cardinality(s \ {x}) <= n  BY <2>1, <2>3, WithoutChosen
    <3>2. s \ {x} \in Small(S, n)  BY <3>1 DEF Small
    <3>3. s \ {x} \in Small(S, n + 1)
      <4>1. Cardinality(s \ {x}) \in Nat
        <5>1. IsFiniteSet(s \ {x})  BY <3>1, FS_Subset
        <5> QED BY <5>1, FS_CardinalityType
      <4>2. Cardinality(s \ {x}) <= n + 1  BY <3>1, <4>1
      <4> QED BY <3>1, <4>2 DEF Small
    <3>4. h[s \ {x}] = g[s \ {x}] /\ g[s \ {x}] \in Int  BY <3>2, <3>3 DEF SmallSums
    <3>5. SumStep(g, f, s) = f[x] + g[s \ {x}] /\ SumStep(h, f, s) = f[x] + h[s \ {x}]
      BY <2>3 DEF SumStep
    <3>6. f[x] \in Int  BY <2>1, <3>1
    <3>7. h[s] = SumStep(g, f, s)  BY DEF SmallSums
    <3> HIDE DEF h, x
    <3> QED BY <3>4, <3>5, <3>6, <3>7
  <2> QED BY <2>2, <2>3
<1>2. h \in [Small(S, n + 1) -> Int] /\ \A s \in Small(S, n + 1) : h[s] = SumStep(h, f, s)
  BY <1>1
<1> HIDE DEF h
<1> QED BY <1>2 DEF SmallSums

LEMMA SumsExist ==
  ASSUME NEW S, IsFiniteSet(S), NEW f, \A i \in S : f[i] \in Int
  PROVE  \E g : Integral(g, S) /\ Sums(g, f, S)
<1> DEFINE T == {n \in Nat : \E g : SmallSums(g, f, S, n)}
<1>1. 0 \in T
  <2> DEFINE g == [s \in Small(S, 0) |-> 0]
  <2>1. \A s \in Small(S, 0) : s = {}  BY NoMoreThanNone DEF Small
  <2>2. SmallSums(g, f, S, 0)  BY <2>1 DEF SmallSums, SumStep
  <2> HIDE DEF g
  <2> QED BY <2>2
<1>2. \A n \in Nat : n \in T => n + 1 \in T  BY MoreSums
<1>3. Nat \subseteq T
  <2> HIDE DEF T
  <2> QED BY <1>1, <1>2, SetInduction
<1>4. Cardinality(S) \in Nat  BY FS_CardinalityType
<1>5. PICK g : SmallSums(g, f, S, Cardinality(S))  BY <1>3, <1>4
<1>6. Small(S, Cardinality(S)) = SUBSET S  BY FS_Subset DEF Small
<1>7. g \in [SUBSET S -> Int] /\ \A s \in SUBSET S : g[s] = SumStep(g, f, s)
  BY <1>5, <1>6 DEF SmallSums
<1>8. g = [s \in SUBSET S |-> SumStep(g, f, s)]  BY <1>7
<1> QED BY <1>7, <1>8 DEF Sums, Integral

(* Only the values on the set count, and not how the sum came about.       *)
LEMMA SumsAgree ==
  ASSUME NEW S, IsFiniteSet(S), NEW T \in SUBSET S, NEW e, NEW f, \A i \in T : e[i] = f[i],
         NEW g, NEW h, Sums(g, e, S), Sums(h, f, T)
  PROVE  g[T] = h[T]
<1> DEFINE N == {n \in Nat : \A s \in SUBSET T : Cardinality(s) <= n => g[s] = h[s]}
<1>1. \A s \in SUBSET T : g[s] = SumStep(g, e, s) /\ h[s] = SumStep(h, f, s)
  BY DEF Sums
<1>2. IsFiniteSet(T)  BY FS_Subset
<1>3. 0 \in N
  <2>1. \A s \in SUBSET T : Cardinality(s) <= 0 => s = {}  BY <1>2, NoMoreThanNone
  <2> QED BY <1>1, <2>1 DEF SumStep
<1>4. ASSUME NEW n \in Nat, n \in N PROVE n + 1 \in N
  <2>1. ASSUME NEW s \in SUBSET T, Cardinality(s) <= n + 1 PROVE g[s] = h[s]
    <3>1. CASE s = {}  BY <1>1, <3>1 DEF SumStep
    <3>2. CASE s # {}
      <4> DEFINE x == Chosen(s)
      <4>1. x \in s /\ s \ {x} \in SUBSET T /\ Cardinality(s \ {x}) <= n
        BY <1>2, <2>1, <3>2, WithoutChosen
      <4>2. g[s \ {x}] = h[s \ {x}] /\ e[x] = f[x]  BY <1>4, <4>1
      <4> QED BY <1>1, <3>2, <4>2 DEF SumStep
    <3> QED BY <3>1, <3>2
  <2> QED BY <2>1
<1>5. Nat \subseteq N
  <2> HIDE DEF N
  <2> QED BY <1>3, <1>4, SetInduction
<1>6. Cardinality(T) \in Nat /\ T \in SUBSET T  BY <1>2, FS_CardinalityType
<1>7. Cardinality(T) \in N  BY <1>5, <1>6
<1>8. Cardinality(T) <= Cardinality(T)  BY <1>6
<1> QED BY <1>6, <1>7, <1>8

(* The sum over a part of a set.                                           *)
LEMMA SumIn ==
  ASSUME NEW S, IsFiniteSet(S), NEW f, \A i \in S : f[i] \in Int, NEW g, Sums(g, f, S),
         NEW T \in SUBSET S
  PROVE  SumFunctionOnSet(f, T) = g[T]
<1>1. IsFiniteSet(T) /\ \A i \in T : f[i] \in Int  BY FS_Subset
<1>2. \E h : Sums(h, f, T)  BY <1>1, SumsExist
<1>3. Sums(CHOOSE h : Sums(h, f, T), f, T)  BY <1>2
<1> DEFINE h == CHOOSE k : Sums(k, f, T)
<1>4. Sums(h, f, T)  BY <1>3
<1>5. SumFunctionOnSet(f, T) = h[T]  BY SumIs
<1> HIDE DEF h
<1>6. g[T] = h[T]  BY <1>4, SumsAgree
<1> QED BY <1>5, <1>6

(* Any element may be added last.                                          *)
LEMMA SumsTake ==
  ASSUME NEW S, IsFiniteSet(S), NEW f, \A i \in S : f[i] \in Int,
         NEW g, Integral(g, S), Sums(g, f, S)
  PROVE  \A y \in S : g[S] = f[y] + g[S \ {y}]
<1> DEFINE N == {n \in Nat : \A s \in SUBSET S : Cardinality(s) <= n =>
                               \A x \in s : g[s] = f[x] + g[s \ {x}]}
<1>1. \A s \in SUBSET S : g[s] = SumStep(g, f, s) /\ g[s] \in Int
  BY DEF Sums, Integral
<1>2. 0 \in N
  <2>1. \A s \in SUBSET S : Cardinality(s) <= 0 => s = {}  BY NoMoreThanNone
  <2> QED BY <2>1
<1>3. ASSUME NEW n \in Nat, n \in N PROVE n + 1 \in N
  <2>1. ASSUME NEW s \in SUBSET S, Cardinality(s) <= n + 1, NEW x \in s
        PROVE  g[s] = f[x] + g[s \ {x}]
    <3> DEFINE c == Chosen(s)
    <3>1. c \in s /\ s # {}  BY DEF Chosen
    <3>2. g[s] = f[c] + g[s \ {c}]  BY <1>1, <3>1 DEF SumStep
    <3>3. CASE c = x  BY <3>2, <3>3
    <3>4. CASE c # x
      <4> HIDE DEF c
      <4>1. /\ s \ {c} \in SUBSET S /\ Cardinality(s \ {c}) <= n
            /\ s \ {x} \in SUBSET S /\ Cardinality(s \ {x}) <= n
        BY <2>1, <3>1, WithoutChosen
      <4>2. x \in s \ {c} /\ c \in s \ {x} /\ (s \ {c}) \ {x} = (s \ {x}) \ {c}
        BY <3>1, <3>4
      <4>3. \A u \in SUBSET S : Cardinality(u) <= n => \A z \in u : g[u] = f[z] + g[u \ {z}]
        BY <1>3
      <4>4. g[s \ {c}] = f[x] + g[(s \ {c}) \ {x}]  BY <4>1, <4>2, <4>3
      <4>5. g[s \ {x}] = f[c] + g[(s \ {c}) \ {x}]
        <5>1. g[s \ {x}] = f[c] + g[(s \ {x}) \ {c}]  BY <4>1, <4>2, <4>3
        <5> QED BY <4>2, <5>1
      <4>6. f[x] \in Int /\ f[c] \in Int /\ g[(s \ {c}) \ {x}] \in Int
        BY <1>1, <3>1
      <4> QED BY <3>2, <4>4, <4>5, <4>6
    <3> QED BY <3>3, <3>4
  <2> QED BY <2>1
<1>4. Nat \subseteq N
  <2> HIDE DEF N
  <2> QED BY <1>2, <1>3, SetInduction
<1>5. Cardinality(S) \in Nat  BY FS_CardinalityType
<1>6. Cardinality(S) \in N /\ Cardinality(S) <= Cardinality(S)  BY <1>4, <1>5
<1> QED BY <1>6

(* What the proofs use: a sum over a finite set of integers.               *)
LEMMA SumOfNone == ASSUME NEW f PROVE SumFunctionOnSet(f, {}) = 0
<1>1. IsFiniteSet({})  BY FS_EmptySet
<1>2. PICK g : Sums(g, f, {})  BY <1>1, SumsExist
<1>3. SumFunctionOnSet(f, {}) = g[{}]  BY <1>1, <1>2, SumIn
<1>4. g[{}] = SumStep(g, f, {})  BY <1>2 DEF Sums
<1> QED BY <1>3, <1>4 DEF SumStep

LEMMA SumTakes ==
  ASSUME NEW S, IsFiniteSet(S), NEW f, \A i \in S : f[i] \in Int
  PROVE  /\ SumFunctionOnSet(f, S) \in Int
         /\ \A x \in S : /\ SumFunctionOnSet(f, S \ {x}) \in Int
                         /\ SumFunctionOnSet(f, S) = f[x] + SumFunctionOnSet(f, S \ {x})
<1>1. PICK g : Integral(g, S) /\ Sums(g, f, S)  BY SumsExist
<1>2. \A T \in SUBSET S : SumFunctionOnSet(f, T) = g[T] /\ g[T] \in Int
  BY <1>1, SumIn DEF Integral
<1>3. S \in SUBSET S /\ \A x \in S : S \ {x} \in SUBSET S  OBVIOUS
<1>4. \A x \in S : g[S] = f[x] + g[S \ {x}]  BY <1>1, SumsTake
<1> QED BY <1>2, <1>3, <1>4

LEMMA SumAgrees ==
  ASSUME NEW S, IsFiniteSet(S), NEW e, NEW f, \A i \in S : e[i] \in Int /\ f[i] = e[i]
  PROVE  SumFunctionOnSet(e, S) = SumFunctionOnSet(f, S)
<1>1. PICK g : Sums(g, e, S)  BY SumsExist
<1>2. PICK h : Sums(h, f, S)  BY SumsExist
<1>3. S \in SUBSET S /\ \A i \in S : e[i] = f[i]  OBVIOUS
<1>4. g[S] = h[S]  BY <1>1, <1>2, <1>3, SumsAgree
<1> QED BY <1>1, <1>2, <1>3, <1>4, SumIn

(* One value changes.                                                      *)
OneChange(e, f, S, r) ==
  /\ r \in S
  /\ \A i \in S : e[i] \in Int /\ f[i] \in Int /\ (i # r => f[i] = e[i])

LEMMA SumChanges ==
  ASSUME NEW S, IsFiniteSet(S), NEW e, NEW f, NEW r, OneChange(e, f, S, r)
  PROVE  /\ SumFunctionOnSet(f, S) = SumFunctionOnSet(e, S) + (f[r] - e[r])
         /\ SumFunctionOnSet(e, S) \in Int
<1>0. r \in S /\ \A i \in S : e[i] \in Int /\ f[i] \in Int /\ (i # r => f[i] = e[i])
  BY DEF OneChange
<1>1. IsFiniteSet(S \ {r}) /\ \A i \in S \ {r} : e[i] \in Int /\ f[i] = e[i]
  BY <1>0, FS_RemoveElement
<1>2. SumFunctionOnSet(e, S \ {r}) = SumFunctionOnSet(f, S \ {r})  BY <1>1, SumAgrees
<1>3. /\ SumFunctionOnSet(e, S) \in Int
      /\ SumFunctionOnSet(e, S \ {r}) \in Int
      /\ SumFunctionOnSet(e, S) = e[r] + SumFunctionOnSet(e, S \ {r})
      /\ SumFunctionOnSet(f, S) = f[r] + SumFunctionOnSet(f, S \ {r})
  BY <1>0, SumTakes
<1>4. e[r] \in Int /\ f[r] \in Int  BY <1>0
<1> QED BY <1>2, <1>3, <1>4

(* Nothing but zeros.                                                      *)
LEMMA SumOfZeros ==
  ASSUME NEW S, IsFiniteSet(S), NEW f, \A i \in S : f[i] = 0
  PROVE  SumFunctionOnSet(f, S) = 0
<1> DEFINE g == [s \in SUBSET S |-> 0]
<1>1. ASSUME NEW s \in SUBSET S PROVE g[s] = SumStep(g, f, s)
  <2>1. CASE s = {}  BY <2>1 DEF SumStep
  <2>2. CASE s # {}
    <3>1. Chosen(s) \in s  BY <2>2 DEF Chosen
    <3> QED BY <2>2, <3>1 DEF SumStep
  <2> QED BY <2>1, <2>2
<1>2. g \in [SUBSET S -> Int]  OBVIOUS
<1>3. Sums(g, f, S)  BY <1>1 DEF Sums
<1>4. g[S] = 0  OBVIOUS
<1> HIDE DEF g
<1> QED BY <1>3, <1>4, SumIn

(* Induction over the subsets of a finite set, for the set of those with a *)
(* property.                                                               *)
LEMMA SubsetInduction ==
  ASSUME NEW S, IsFiniteSet(S), NEW P, {} \in P, \A T \in P : \A x \in S \ T : T \cup {x} \in P
  PROVE  S \in P
<1> DEFINE N == {n \in Nat : \A T \in SUBSET S : Cardinality(T) <= n => T \in P}
<1>1. 0 \in N
  <2>1. \A T \in SUBSET S : Cardinality(T) <= 0 => T = {}  BY NoMoreThanNone
  <2> QED BY <2>1
<1>2. ASSUME NEW n \in Nat, n \in N PROVE n + 1 \in N
  <2>1. ASSUME NEW T \in SUBSET S, Cardinality(T) <= n + 1, T # {} PROVE T \in P
    <3>1. PICK x : x \in T  BY <2>1
    <3>2. T \ {x} \in SUBSET S /\ Cardinality(T \ {x}) <= n  BY <2>1, <3>1, WithoutChosen
    <3>3. T \ {x} \in P  BY <1>2, <3>2
    <3>4. x \in S \ (T \ {x}) /\ T = (T \ {x}) \cup {x}  BY <3>1
    <3> QED BY <3>3, <3>4
  <2>2. ASSUME NEW T \in SUBSET S, Cardinality(T) <= n + 1 PROVE T \in P
    BY <2>1, <2>2
  <2>3. n + 1 \in Nat  OBVIOUS
  <2> QED BY <2>2, <2>3
<1>3. Nat \subseteq N
  <2> HIDE DEF N
  <2> QED BY <1>1, <1>2, SetInduction
<1>4. Cardinality(S) \in Nat  BY FS_CardinalityType
<1>5. Cardinality(S) \in N /\ Cardinality(S) <= Cardinality(S)  BY <1>3, <1>4
<1> QED BY <1>5

IntegralOn(f, S) == \A i \in S : f[i] \in Int

LEMMA SumGrows ==
  ASSUME NEW T, IsFiniteSet(T), NEW x, x \notin T, NEW f, IntegralOn(f, T \cup {x})
  PROVE  /\ SumFunctionOnSet(f, T) \in Int /\ f[x] \in Int
         /\ SumFunctionOnSet(f, T \cup {x}) = f[x] + SumFunctionOnSet(f, T)
<1>1. IsFiniteSet(T \cup {x}) /\ (T \cup {x}) \ {x} = T /\ x \in T \cup {x}
  BY FS_AddElement
<1>2. \A i \in T \cup {x} : f[i] \in Int  BY DEF IntegralOn
<1> QED BY <1>1, <1>2, SumTakes

LEMMA SumNatural ==
  ASSUME NEW S, IsFiniteSet(S), NEW f, \A i \in S : f[i] \in Nat
  PROVE  SumFunctionOnSet(f, S) \in Nat
<1> DEFINE P == {T \in SUBSET S : SumFunctionOnSet(f, T) \in Nat}
<1>1. {} \in P  BY SumOfNone
<1>2. ASSUME NEW T \in P, NEW x \in S \ T PROVE T \cup {x} \in P
  <2>1. IsFiniteSet(T) /\ T \cup {x} \subseteq S /\ x \notin T /\ f[x] \in Nat  BY FS_Subset
  <2>2. IntegralOn(f, T \cup {x})  BY <2>1 DEF IntegralOn
  <2>3. SumFunctionOnSet(f, T \cup {x}) = f[x] + SumFunctionOnSet(f, T)  BY <2>1, <2>2, SumGrows
  <2> QED BY <2>1, <2>3
<1> HIDE DEF P
<1>3. S \in P  BY <1>1, <1>2, SubsetInduction
<1> QED BY <1>3 DEF P

(* Two functions are added up.                                             *)
SumOfTwo(g, e, f, S) == \A i \in S : e[i] \in Int /\ f[i] \in Int /\ g[i] = e[i] + f[i]

LEMMA SumAdds ==
  ASSUME NEW S, IsFiniteSet(S), NEW e, NEW f, NEW g, SumOfTwo(g, e, f, S)
  PROVE  SumFunctionOnSet(g, S) = SumFunctionOnSet(e, S) + SumFunctionOnSet(f, S)
<1> DEFINE P == {T \in SUBSET S : SumFunctionOnSet(g, T) =
                                    SumFunctionOnSet(e, T) + SumFunctionOnSet(f, T)}
<1>1. {} \in P  BY SumOfNone
<1>2. ASSUME NEW T \in P, NEW x \in S \ T PROVE T \cup {x} \in P
  <2>1. IsFiniteSet(T) /\ T \cup {x} \subseteq S /\ x \notin T  BY FS_Subset
  <2>2. \A i \in T \cup {x} : e[i] \in Int /\ f[i] \in Int /\ g[i] = e[i] + f[i]
    BY <2>1 DEF SumOfTwo
  <2>3. IntegralOn(e, T \cup {x}) /\ IntegralOn(f, T \cup {x}) /\ IntegralOn(g, T \cup {x})
    BY <2>2 DEF IntegralOn
  <2>4. /\ SumFunctionOnSet(e, T) \in Int /\ e[x] \in Int
        /\ SumFunctionOnSet(e, T \cup {x}) = e[x] + SumFunctionOnSet(e, T)
    BY <2>1, <2>3, SumGrows
  <2>5. /\ SumFunctionOnSet(f, T) \in Int /\ f[x] \in Int
        /\ SumFunctionOnSet(f, T \cup {x}) = f[x] + SumFunctionOnSet(f, T)
    BY <2>1, <2>3, SumGrows
  <2>6. SumFunctionOnSet(g, T \cup {x}) = g[x] + SumFunctionOnSet(g, T)
    BY <2>1, <2>3, SumGrows
  <2> QED BY <2>1, <2>2, <2>4, <2>5, <2>6
<1> HIDE DEF P
<1>3. S \in P  BY <1>1, <1>2, SubsetInduction
<1> QED BY <1>3 DEF P

(* What is 0 does not count.                                               *)
LEMMA SumWithin ==
  ASSUME NEW S, IsFiniteSet(S), NEW f, IntegralOn(f, S), NEW T \in SUBSET S,
         \A i \in S \ T : f[i] = 0
  PROVE  SumFunctionOnSet(f, S) = SumFunctionOnSet(f, T)
<1> DEFINE P == {U \in SUBSET (S \ T) : SumFunctionOnSet(f, T \cup U) = SumFunctionOnSet(f, T)}
<1>1. {} \in P
  <2>1. T \cup {} = T  OBVIOUS
  <2> QED BY <2>1
<1>2. ASSUME NEW U \in P, NEW x \in (S \ T) \ U PROVE U \cup {x} \in P
  <2>1. /\ IsFiniteSet(T \cup U) /\ (T \cup U) \cup {x} \subseteq S /\ x \notin T \cup U
        /\ (T \cup U) \cup {x} = T \cup (U \cup {x}) /\ f[x] = 0
    <3>1. T \cup U \subseteq S  OBVIOUS
    <3> QED BY <3>1, FS_Subset
  <2>2. IntegralOn(f, (T \cup U) \cup {x})  BY <2>1 DEF IntegralOn
  <2>3. /\ SumFunctionOnSet(f, T \cup U) \in Int
        /\ SumFunctionOnSet(f, (T \cup U) \cup {x}) = f[x] + SumFunctionOnSet(f, T \cup U)
    BY <2>1, <2>2, SumGrows
  <2> QED BY <2>1, <2>3
<1> HIDE DEF P
<1>3. S \ T \in P
  <2>1. IsFiniteSet(S \ T)  BY FS_Difference
  <2> QED BY <1>1, <1>2, <2>1, SubsetInduction
<1>4. T \cup (S \ T) = S  OBVIOUS
<1> QED BY <1>3, <1>4 DEF P

(* The same value everywhere.                                              *)
LEMMA SumOfSame ==
  ASSUME NEW S, IsFiniteSet(S), NEW c \in Nat, NEW f, \A i \in S : f[i] = c
  PROVE  SumFunctionOnSet(f, S) = Cardinality(S) * c
<1> DEFINE P == {T \in SUBSET S : SumFunctionOnSet(f, T) = Cardinality(T) * c}
<1>1. {} \in P
  <2>1. Cardinality({}) = 0 /\ 0 * c = 0  BY FS_EmptySet
  <2> QED BY <2>1, SumOfNone
<1>2. ASSUME NEW T \in P, NEW x \in S \ T PROVE T \cup {x} \in P
  <2>1. IsFiniteSet(T) /\ T \cup {x} \subseteq S /\ x \notin T /\ f[x] = c  BY FS_Subset
  <2>2. IntegralOn(f, T \cup {x})  BY <2>1 DEF IntegralOn
  <2>3. SumFunctionOnSet(f, T \cup {x}) = f[x] + SumFunctionOnSet(f, T)  BY <2>1, <2>2, SumGrows
  <2>4. Cardinality(T \cup {x}) = Cardinality(T) + 1 /\ Cardinality(T) \in Nat
    BY <2>1, FS_AddElement, FS_CardinalityType
  <2>5. (Cardinality(T) + 1) * c = c + Cardinality(T) * c
    <3> DEFINE k == Cardinality(T)
    <3>1. k \in Nat  BY <2>4
    <3> HIDE DEF k
    <3>2. (k + 1) * c = c + k * c  BY <3>1
    <3> QED BY <3>2 DEF k
  <2> QED BY <2>1, <2>3, <2>4, <2>5
<1> HIDE DEF P
<1>3. S \in P  BY <1>1, <1>2, SubsetInduction
<1> QED BY <1>3 DEF P
=============================================================================
