------------------------------ MODULE WireProofs ------------------------------
(***************************************************************************)
(* The three properties of Wire, for every input that WireAssumption       *)
(* allows.  Each rests on what a recursion computes.  TLA+ defines a       *)
(* recursive function f[x \in S] == e as a CHOSEN f with f = [x \in S |-> e]: *)
(* nothing is known of it before one is shown to exist.  LEMMAS Encode-,   *)
(* Chunks-, Sums-, Curn- and UpTo- show that, from a function on the       *)
(* numbers that Iteration provides or from a form without recursion.       *)
(* Induction is about a set of numbers (NumbersBelow, NextNumber).         *)
(***************************************************************************)
EXTENDS Wire, SequenceTheorems, FiniteSetTheorems, WellFoundedInduction, TLAPS

-----------------------------------------------------------------------------
(* Numbers: induction and iteration *)

\* A set of numbers has a least element: finite sets are well-founded.
LEMMA LeastOf ==
    ASSUME NEW S \in SUBSET Nat, S # {}
    PROVE  \E m \in S : \A n \in S : m <= n
<1>. DEFINE T == {0..n : n \in S}
<1>1. T \subseteq FiniteSubsetsOf(Nat) /\ T # {}
  <2>1. ASSUME NEW n \in S PROVE 0..n \in SUBSET Nat /\ IsFiniteSet(0..n)
    BY FS_Interval
  <2> QED
    BY <2>1 DEF FiniteSubsetsOf
<1>2. PICK I \in T : \A J \in T : <<J, I>> \notin StrictSubsetOrdering(Nat)
  <2>. HIDE DEF T
  <2> QED
    BY <1>1, FS_StrictSubsetOrderingWellFounded, WFMin
<1>3. PICK m \in S : I = 0..m
  OBVIOUS
<1>4. ASSUME NEW n \in S PROVE m <= n
  <2>1. 0..n \in T /\ I \in SUBSET Nat /\ 0..n \in SUBSET Nat
    BY <1>1 DEF FiniteSubsetsOf
  <2>2. ~(0..n \subseteq 0..m /\ 0..n # 0..m)
    BY <1>2, <1>3, <2>1 DEF StrictSubsetOrdering
  <2>3. n < m => 0..n \subseteq 0..m /\ m \notin 0..n /\ m \in 0..m
    OBVIOUS
  <2> QED
    BY <2>2, <2>3
<1> QED
  BY <1>4

\* Complete induction, for a property given as the set of numbers that have it.
LEMMA NumbersBelow ==
    ASSUME NEW S, \A n \in Nat : (\A m \in 0..(n - 1) : m \in S) => n \in S
    PROVE  \A n \in Nat : n \in S
<1>. SUFFICES ASSUME Nat \ S # {} PROVE FALSE
  OBVIOUS
<1>1. PICK n \in Nat \ S : \A m \in Nat \ S : n <= m
  BY LeastOf
<1>2. \A m \in 0..(n - 1) : m \in S
  BY <1>1
<1> QED
  BY <1>1, <1>2

\* Induction from one number to the next.
LEMMA NextNumber ==
    ASSUME NEW S, 0 \in S, \A n \in Nat : n \in S => n + 1 \in S
    PROVE  \A n \in Nat : n \in S
<1>1. ASSUME NEW n \in Nat, \A m \in 0..(n - 1) : m \in S PROVE n \in S
  <2>1. CASE n = 0
    BY <2>1
  <2>2. CASE n # 0
    <3>1. n - 1 \in Nat /\ n - 1 \in 0..(n - 1) /\ (n - 1) + 1 = n
      BY <2>2
    <3> QED
      BY <1>1, <3>1
  <2> QED
    BY <2>1, <2>2
<1> QED
  BY <1>1, NumbersBelow

\* h is the sequence a, step[0, a], step[1, step[0, a]], ... up to the m-th.
Iterates(h, m, S, a, step) ==
    /\ h \in [0..m -> S] /\ h[0] = a
    /\ \A n \in 0..(m - 1) : h[n + 1] = step[<<n, h[n]>>]

\* Any two agree where both are defined.
LEMMA IteratesAgree ==
    ASSUME NEW S, NEW a, NEW step, NEW k \in Nat, NEW m \in Nat, NEW g, NEW h,
           Iterates(g, k, S, a, step), Iterates(h, m, S, a, step)
    PROVE  \A n \in Nat : n <= k /\ n <= m => g[n] = h[n]
<1>. DEFINE T == {n \in Nat : n <= k /\ n <= m => g[n] = h[n]}
<1>1. 0 \in T
  BY DEF Iterates
<1>2. ASSUME NEW n \in Nat, n \in T PROVE n + 1 \in T
  <2>. SUFFICES ASSUME n + 1 <= k, n + 1 <= m PROVE g[n + 1] = h[n + 1]
    OBVIOUS
  <2>1. n \in 0..(k - 1) /\ n \in 0..(m - 1) /\ n <= k /\ n <= m
    OBVIOUS
  <2>2. g[n] = h[n]
    BY <1>2, <2>1
  <2> QED
    BY <2>1, <2>2 DEF Iterates
<1>. HIDE DEF T
<1>3. \A n \in Nat : n \in T
  BY <1>1, <1>2, NextNumber
<1> QED
  BY <1>3 DEF T

\* The sequence a, step[0, a], step[1, step[0, a]], ... without an end.
Iterable(S, a, step) ==
    \E f \in [Nat -> S] : f[0] = a /\ \A n \in Nat : f[n + 1] = step[<<n, f[n]>>]

\* A function on the numbers may be defined by its value at 0 and the step from
\* one value to the next.
LEMMA Iteration ==
    ASSUME NEW S, NEW a \in S, NEW step \in [Nat \X S -> S]
    PROVE  Iterable(S, a, step)
<1>. DEFINE T == {m \in Nat : \E h : Iterates(h, m, S, a, step)}
<1>1. 0 \in T
  <2>1. PICK h : h = [n \in 0..0 |-> a]
    OBVIOUS
  <2>2. \A n \in 0..(0 - 1) : FALSE
    OBVIOUS
  <2>3. Iterates(h, 0, S, a, step)
    BY <2>1, <2>2 DEF Iterates
  <2> QED
    BY <2>3
<1>2. ASSUME NEW m \in Nat, m \in T PROVE m + 1 \in T
  <2>1. PICK h : Iterates(h, m, S, a, step)
    BY <1>2
  <2>2. h \in [0..m -> S] /\ m \in 0..m /\ h[m] \in S
    BY <2>1 DEF Iterates
  <2>3. PICK v \in S : v = step[<<m, h[m]>>]
    BY <2>2
  <2>4. PICK g : g = [n \in 0..(m + 1) |-> IF n = m + 1 THEN v ELSE h[n]]
    OBVIOUS
  <2>5. g \in [0..(m + 1) -> S]
    <3>1. \A n \in 0..(m + 1) : n # m + 1 => n \in 0..m
      OBVIOUS
    <3> QED
      BY <2>2, <2>4, <3>1
  <2>6. \A n \in 0..m : g[n] = h[n]
    <3>1. \A n \in 0..m : n \in 0..(m + 1) /\ n # m + 1
      OBVIOUS
    <3> QED
      BY <2>4, <3>1
  <2>7. ASSUME NEW n \in 0..((m + 1) - 1) PROVE g[n + 1] = step[<<n, g[n]>>]
    <3>1. n \in 0..m /\ n + 1 \in 0..(m + 1)
      OBVIOUS
    <3>2. CASE n = m
      BY <2>3, <2>4, <2>6, <3>1, <3>2
    <3>3. CASE n # m
      <4>1. n \in 0..(m - 1) /\ n + 1 \in 0..m
        BY <3>1, <3>3
      <4> QED
        BY <2>1, <2>6, <3>1, <4>1 DEF Iterates
    <3> QED
      BY <3>2, <3>3
  <2>8. g[0] = a
    BY <2>1, <2>6 DEF Iterates
  <2>9. Iterates(g, m + 1, S, a, step)
    BY <2>5, <2>7, <2>8 DEF Iterates
  <2> QED
    BY <2>9
<1>. HIDE DEF T
<1>3. \A m \in Nat : m \in T
  BY <1>1, <1>2, NextNumber
<1>. USE DEF T
<1>4. PICK pick : pick = [m \in Nat |-> CHOOSE h : Iterates(h, m, S, a, step)]
  OBVIOUS
<1>5. \A m \in Nat : Iterates(pick[m], m, S, a, step)
  BY <1>3, <1>4
<1>6. PICK f : f = [m \in Nat |-> pick[m][m]]
  OBVIOUS
<1>7. \A m \in Nat : pick[m] \in [0..m -> S] /\ m \in 0..m
  BY <1>5 DEF Iterates
<1>8. f \in [Nat -> S]
  BY <1>6, <1>7
<1>9. f[0] = a
  BY <1>5, <1>6 DEF Iterates
<1>10. ASSUME NEW n \in Nat PROVE f[n + 1] = step[<<n, f[n]>>]
  <2>1. PICK k \in Nat : k = n + 1
    OBVIOUS
  <2>2. n \in 0..(k - 1) /\ n <= n /\ n <= k
    BY <2>1
  <2>3. pick[k][n + 1] = step[<<n, pick[k][n]>>]
    BY <1>5, <2>2 DEF Iterates
  <2>4. pick[k][n] = pick[n][n]
    <3>1. PICK g, h : g = pick[k] /\ h = pick[n]
      OBVIOUS
    <3>2. Iterates(g, k, S, a, step) /\ Iterates(h, n, S, a, step)
      BY <1>5, <3>1
    <3> QED
      <4>1. \A i \in Nat : i <= k /\ i <= n => g[i] = h[i]
        BY <3>2, IteratesAgree
      <4> QED
        BY <2>2, <3>1, <4>1
  <2> QED
    BY <1>6, <2>1, <2>3, <2>4
<1> QED
  BY <1>8, <1>9, <1>10 DEF Iterable

-----------------------------------------------------------------------------
(* Lengths: what is written *)

\* The right-hand side of MQTTPacket_encode, for any function in place of it.
Digits(f, n) == IF n < 128 THEN <<n>> ELSE <<128 + (n % 128)>> \o f[n \div 128]

Encodes(f, top) == f = [n \in 0..top |-> Digits(f, n)]

\* A number's digits before the last are those of a smaller number.
LEMMA Quotient ==
    ASSUME NEW n \in Nat
    PROVE  /\ n \div 128 \in Nat /\ n % 128 \in 0..127
           /\ n = 128 * (n \div 128) + (n % 128)
           /\ n >= 128 => n \div 128 \in 0..(n - 1)
  OBVIOUS

\* The value of such a function at a number.
LEMMA EncodesAt ==
    ASSUME NEW f, NEW top, Encodes(f, top), NEW n \in 0..top
    PROVE  f[n] = Digits(f, n)
<1>1. f = [m \in 0..top |-> Digits(f, m)]
  BY DEF Encodes
<1>2. PICK g : g = [m \in 0..top |-> Digits(f, m)]
  OBVIOUS
<1>3. g[n] = Digits(f, n)
  BY <1>2
<1> QED
  BY <1>1, <1>2, <1>3, Zenon

\* There is such a function up to any number.
LEMMA EncodesExist == \A top \in Nat : \E f : Encodes(f, top)
<1>. DEFINE S == {top \in Nat : \E f : Encodes(f, top)}
<1>1. ASSUME NEW n \in Nat, \A m \in 0..(n - 1) : m \in S PROVE n \in S
  <2>1. PICK f : n > 0 => Encodes(f, n - 1)
    <3>1. CASE n > 0
      <4>1. n - 1 \in S
        BY <1>1, <3>1
      <4> QED
        BY <4>1
    <3> QED
      BY <1>1, <3>1
  <2>2. PICK g : g = [m \in 0..n |-> IF m = n THEN Digits(f, n) ELSE f[m]]
    OBVIOUS
  <2>3. ASSUME NEW m \in 0..n PROVE g[m] = Digits(f, m) /\ Digits(f, m) = Digits(g, m)
    <3>1. g[m] = Digits(f, m)
      <4>1. CASE m = n
        BY <2>2, <4>1
      <4>2. CASE m # n
        <5>1. n > 0 /\ m \in 0..(n - 1)
          BY <4>2
        <5>2. f[m] = Digits(f, m)
          BY <2>1, <5>1, EncodesAt
        <5> QED
          BY <2>2, <4>2, <5>2
      <4> QED
        BY <4>1, <4>2
    <3>2. m >= 128 => g[m \div 128] = f[m \div 128]
      <4>1. SUFFICES ASSUME m >= 128 PROVE g[m \div 128] = f[m \div 128]
        OBVIOUS
      <4>2. m \div 128 \in 0..n /\ m \div 128 # n
        BY <4>1
      <4> QED
        BY <2>2, <4>2
    <3>3. ~(m < 128) => m >= 128
      OBVIOUS
    <3> QED
      BY <3>1, <3>2, <3>3 DEF Digits
  <2>4. g = [m \in 0..n |-> Digits(g, m)]
    BY <2>2, <2>3
  <2> QED
    BY <1>1, <2>4 DEF Encodes
<1>. HIDE DEF S
<1>2. \A n \in Nat : n \in S
  BY <1>1, NumbersBelow
<1> QED
  BY <1>2 DEF S

\* Any two agree where both are defined.
LEMMA EncodesAgree ==
    ASSUME NEW f, NEW g, NEW a \in Nat, NEW b \in Nat, Encodes(f, a), Encodes(g, b)
    PROVE  \A n \in Nat : n <= a /\ n <= b => f[n] = g[n]
<1>. DEFINE S == {n \in Nat : n <= a /\ n <= b => f[n] = g[n]}
<1>1. ASSUME NEW n \in Nat, \A m \in 0..(n - 1) : m \in S PROVE n \in S
  <2>. SUFFICES ASSUME n <= a, n <= b PROVE f[n] = g[n]
    OBVIOUS
  <2>1. f[n] = Digits(f, n) /\ g[n] = Digits(g, n)
    <3>1. n \in 0..a /\ n \in 0..b
      OBVIOUS
    <3> QED
      BY <3>1, EncodesAt
  <2>2. n >= 128 => f[n \div 128] = g[n \div 128]
    <3>. SUFFICES ASSUME n >= 128 PROVE f[n \div 128] = g[n \div 128]
      OBVIOUS
    <3>1. n \div 128 \in 0..(n - 1)
      OBVIOUS
    <3>2. n \div 128 \in S /\ n \div 128 <= a /\ n \div 128 <= b
      BY <1>1, <3>1
    <3> QED
      BY <3>2
  <2>3. ~(n < 128) => n >= 128
    OBVIOUS
  <2> QED
    BY <2>1, <2>2, <2>3 DEF Digits
<1>. HIDE DEF S
<1>2. \A n \in Nat : n \in S
  BY <1>1, NumbersBelow
<1> QED
  BY <1>2 DEF S

\* So MQTTPacket_encode is what its definition says.
LEMMA EncodeUnfolds ==
    ASSUME NEW n \in Nat
    PROVE  MQTTPacket_encode[n] = Digits(MQTTPacket_encode, n)
<1>1. PICK pick : pick = [m \in Nat |-> CHOOSE f : Encodes(f, m)]
  OBVIOUS
<1>2. \A m \in Nat : Encodes(pick[m], m)
  BY <1>1, EncodesExist
<1>3. PICK g : g = [m \in Nat |-> pick[m][m]]
  OBVIOUS
<1>4. ASSUME NEW m \in Nat PROVE g[m] = Digits(g, m)
  <2>1. pick[m][m] = Digits(pick[m], m)
    BY <1>2, EncodesAt
  <2>2. m >= 128 => pick[m][m \div 128] = g[m \div 128]
    <3>. SUFFICES ASSUME m >= 128 PROVE pick[m][m \div 128] = g[m \div 128]
      OBVIOUS
    <3>1. PICK d \in Nat : d = m \div 128 /\ d <= m
      <4>1. m \div 128 \in 0..(m - 1)
        OBVIOUS
      <4> QED
        BY <4>1
    <3>2. PICK h, k : h = pick[m] /\ k = pick[d]
      OBVIOUS
    <3>3. Encodes(h, m) /\ Encodes(k, d)
      BY <1>2, <3>2
    <3>4. h[d] = k[d]
      BY <3>1, <3>3, EncodesAgree
    <3> QED
      BY <1>3, <3>1, <3>2, <3>4
  <2>3. ~(m < 128) => m >= 128
    OBVIOUS
  <2> QED
    BY <1>3, <2>1, <2>2, <2>3 DEF Digits
<1>5. g = [m \in Nat |-> Digits(g, m)]
  BY <1>3, <1>4
<1>6. MQTTPacket_encode = [m \in Nat |-> Digits(MQTTPacket_encode, m)]
  BY <1>5, ZenonT(40) DEF MQTTPacket_encode, Digits
<1>. HIDE DEF MQTTPacket_encode
<1> QED
  BY <1>6

\* The first byte of a length, and what follows it.
LEMMA EncodeFirst ==
    ASSUME NEW n \in Nat
    PROVE  /\ n < 128 => MQTTPacket_encode[n] = <<n>>
           /\ n >= 128 =>
                MQTTPacket_encode[n] = <<128 + (n % 128)>> \o MQTTPacket_encode[n \div 128]
<1>1. n >= 128 => ~(n < 128)
  OBVIOUS
<1>. HIDE DEF MQTTPacket_encode
<1> QED
  BY <1>1, EncodeUnfolds DEF Digits

\* Its bytes are bytes.
LEMMA EncodeTyped ==
    \A n \in Nat : MQTTPacket_encode[n] \in Seq(Nat) /\ Len(MQTTPacket_encode[n]) \in Nat
<1>. DEFINE S == {n \in Nat : /\ MQTTPacket_encode[n] \in Seq(Nat)
                              /\ Len(MQTTPacket_encode[n]) \in Nat}
<1>. HIDE DEF MQTTPacket_encode
<1>1. ASSUME NEW n \in Nat, \A m \in 0..(n - 1) : m \in S PROVE n \in S
  <2>1. CASE n < 128
    <3>1. PICK s : s = <<n>> /\ s \in Seq(Nat)
      <4>1. <<n>> \in Seq(Nat)
        OBVIOUS
      <4> QED
        BY <4>1
    <3>2. Len(s) \in Nat
      BY <3>1, LenProperties
    <3> QED
      BY <2>1, <3>1, <3>2, EncodeFirst
  <2>2. CASE n >= 128
    <3>1. PICK d : d = n \div 128 /\ d \in S
      BY <1>1, <2>2, Quotient
    <3>2. PICK b \in Nat : b = 128 + (n % 128)
      BY Quotient
    <3>3. PICK x, y, s : x = <<b>> /\ y = MQTTPacket_encode[d] /\ s = x \o y
      OBVIOUS
    <3>4. x \in Seq(Nat) /\ y \in Seq(Nat)
      BY <3>1, <3>3
    <3>5. s \in Seq(Nat) /\ Len(s) \in Nat
      BY <3>3, <3>4, ConcatProperties, LenProperties
    <3>6. MQTTPacket_encode[n] = s
      BY <2>2, <3>1, <3>2, <3>3, EncodeFirst
    <3> QED
      BY <3>5, <3>6
  <2> QED
    BY <2>1, <2>2
<1>. HIDE DEF S
<1>2. \A n \in Nat : n \in S
  BY <1>1, NumbersBelow
<1> QED
  BY <1>2 DEF S

\* Every byte but the last stands for seven bits.
LEMMA LongerLength ==
    ASSUME NEW n \in Nat
    PROVE  /\ n < 128 => Len(MQTTPacket_encode[n]) = 1
           /\ n >= 128 => Len(MQTTPacket_encode[n]) = 1 + Len(MQTTPacket_encode[n \div 128])
<1>. HIDE DEF MQTTPacket_encode
<1>1. n < 128 => Len(MQTTPacket_encode[n]) = 1
  <2>1. PICK s : s = <<n>>
    OBVIOUS
  <2>2. Len(s) = 1
    BY <2>1
  <2> QED
    BY <2>1, <2>2, EncodeFirst
<1>2. PICK d \in Nat, b \in Nat : d = n \div 128 /\ b = 128 + (n % 128)
  BY Quotient
<1>3. PICK x, y : x = <<b>> /\ y = MQTTPacket_encode[d]
  OBVIOUS
<1>4. x \in Seq(Nat) /\ Len(x) = 1 /\ y \in Seq(Nat)
  BY <1>2, <1>3, EncodeTyped
<1>5. Len(x \o y) = 1 + Len(y)
  BY <1>4, ConcatProperties, ZenonT(40)
<1> QED
  BY <1>1, <1>2, <1>3, <1>5, EncodeFirst, ZenonT(40)

\* The number of bytes that a length takes.
Bytes(n) == IF n < 128 THEN 1 ELSE IF n < 16384 THEN 2 ELSE IF n < 2097152 THEN 3 ELSE 4

\* How many bytes MQTTPacket_encode writes.
LEMMA EncodedLength ==
    ASSUME NEW n \in Nat, n <= MaxRemainingLength
    PROVE  Len(MQTTPacket_encode[n]) = Bytes(n)
<1>. HIDE DEF MQTTPacket_encode
<1>1. PICK k \in Nat, l \in Nat, m \in Nat : k = n \div 128 /\ l = k \div 128 /\ m = l \div 128
  BY SMT
<1>2. m < 128
  BY <1>1, SMT DEF MaxRemainingLength
<1>3. /\ n >= 128 => Len(MQTTPacket_encode[n]) = 1 + Len(MQTTPacket_encode[k])
      /\ k >= 128 => Len(MQTTPacket_encode[k]) = 1 + Len(MQTTPacket_encode[l])
      /\ l >= 128 => Len(MQTTPacket_encode[l]) = 1 + Len(MQTTPacket_encode[m])
  BY <1>1, LongerLength
<1>4. \A i \in {k, l, m, n} : i < 128 => Len(MQTTPacket_encode[i]) = 1
  BY LongerLength
<1>5. /\ n >= 128 /\ n < 16384 <=> n >= 128 /\ k < 128
      /\ n >= 16384 /\ n < 2097152 <=> n >= 128 /\ k >= 128 /\ l < 128
      /\ n >= 2097152 <=> n >= 128 /\ k >= 128 /\ l >= 128
  BY <1>1, SMT
<1>6. CASE n < 128
  BY <1>4, <1>6 DEF Bytes
<1>7. CASE n >= 128 /\ k < 128
  <2>1. Len(MQTTPacket_encode[n]) = 2
    <3>1. Len(MQTTPacket_encode[k]) = 1 /\ Len(MQTTPacket_encode[n]) = 1 + Len(MQTTPacket_encode[k])
      BY <1>3, <1>4, <1>7
    <3> QED
      BY <3>1
  <2> QED
    BY <1>5, <1>7, <2>1, SMT DEF Bytes
<1>8. CASE n >= 128 /\ k >= 128 /\ l < 128
  <2>1. Len(MQTTPacket_encode[n]) = 3
    <3>1. /\ Len(MQTTPacket_encode[n]) = 1 + Len(MQTTPacket_encode[k])
          /\ Len(MQTTPacket_encode[k]) = 1 + Len(MQTTPacket_encode[l])
          /\ Len(MQTTPacket_encode[l]) = 1
      BY <1>3, <1>4, <1>8
    <3> QED
      BY <3>1
  <2> QED
    BY <1>5, <1>8, <2>1, SMT DEF Bytes
<1>9. CASE n >= 128 /\ k >= 128 /\ l >= 128
  <2>1. l >= 128 /\ Len(MQTTPacket_encode[m]) = 1
    BY <1>2, <1>4, <1>9
  <2>2. Len(MQTTPacket_encode[n]) = 4
    <3>1. /\ Len(MQTTPacket_encode[n]) = 1 + Len(MQTTPacket_encode[k])
          /\ Len(MQTTPacket_encode[k]) = 1 + Len(MQTTPacket_encode[l])
          /\ Len(MQTTPacket_encode[l]) = 1 + Len(MQTTPacket_encode[m])
      BY <1>3, <1>9
    <3> QED
      BY <2>1, <3>1
  <2> QED
    BY <1>5, <1>9, <2>2, SMT DEF Bytes
<1> QED
  BY <1>1, <1>6, <1>7, <1>8, <1>9, SMT

-----------------------------------------------------------------------------
(* Lengths: what is read *)

\* What decodePacket's loop adds from a byte on, if a later byte's value is v.
AddedAt(bytes, i, v) ==
    IF i > MaxLengthBytes \/ i > Len(bytes) THEN 0
    ELSE (bytes[i] % 128) * Multiplier[i] + (IF bytes[i] < 128 THEN 0 ELSE v)

\* There is a function that is as Added says, so Added is one.
LEMMA AddedUnfolds ==
    ASSUME NEW bytes
    PROVE  \A i \in 1..5 : Added(bytes)[i] = AddedAt(bytes, i, Added(bytes)[i + 1])
<1>1. PICK v5 : v5 = AddedAt(bytes, 5, 0)
  OBVIOUS
<1>2. PICK v4 : v4 = AddedAt(bytes, 4, v5)
  OBVIOUS
<1>3. PICK v3 : v3 = AddedAt(bytes, 3, v4)
  OBVIOUS
<1>4. PICK v2 : v2 = AddedAt(bytes, 2, v3)
  OBVIOUS
<1>5. PICK v1 : v1 = AddedAt(bytes, 1, v2)
  OBVIOUS
<1>6. PICK g : g = [i \in 1..5 |-> IF i = 5 THEN v5 ELSE IF i = 4 THEN v4
                                   ELSE IF i = 3 THEN v3 ELSE IF i = 2 THEN v2 ELSE v1]
  OBVIOUS
<1>7. g[1] = v1 /\ g[2] = v2 /\ g[3] = v3 /\ g[4] = v4 /\ g[5] = v5
  BY <1>6
<1>8. \A v : AddedAt(bytes, 5, v) = v5
  BY <1>1 DEF AddedAt, MaxLengthBytes
<1>9. \A i \in 1..5 : g[i] = AddedAt(bytes, i, g[i + 1])
  <2>1. g[1] = AddedAt(bytes, 1, g[2])
    BY <1>5, <1>7
  <2>2. g[2] = AddedAt(bytes, 2, g[3])
    BY <1>4, <1>7
  <2>3. g[3] = AddedAt(bytes, 3, g[4])
    BY <1>3, <1>7
  <2>4. g[4] = AddedAt(bytes, 4, g[5])
    BY <1>2, <1>7
  <2>5. g[5] = AddedAt(bytes, 5, g[6])
    BY <1>7, <1>8
  <2>6. \A i \in 1..5 : i = 1 \/ i = 2 \/ i = 3 \/ i = 4 \/ i = 5
    OBVIOUS
  <2> QED
    BY <2>1, <2>2, <2>3, <2>4, <2>5, <2>6
<1>10. g = [i \in 1..5 |-> AddedAt(bytes, i, g[i + 1])]
  BY <1>6, <1>9
<1>11. Added(bytes) = CHOOSE f : f = [i \in 1..(4 + 1) |-> AddedAt(bytes, i, f[i + 1])]
  BY DEF Added, AddedAt, MaxLengthBytes
<1>12. \A f : [i \in 1..5 |-> AddedAt(bytes, i, f[i + 1])] = [i \in 1..(4 + 1) |-> AddedAt(bytes, i, f[i + 1])]
  OBVIOUS
<1>13. \E f : f = [i \in 1..(4 + 1) |-> AddedAt(bytes, i, f[i + 1])]
  BY <1>10, <1>12
<1>14. PICK a : a = Added(bytes)
  OBVIOUS
<1>15. a = [i \in 1..(4 + 1) |-> AddedAt(bytes, i, a[i + 1])]
  BY <1>11, <1>13, <1>14, Zenon
<1>16. \A i \in 1..5 : a[i] = AddedAt(bytes, i, a[i + 1])
  <2>1. PICK b : b = [i \in 1..(4 + 1) |-> AddedAt(bytes, i, a[i + 1])]
    OBVIOUS
  <2>2. \A i \in 1..5 : b[i] = AddedAt(bytes, i, a[i + 1])
    BY <2>1
  <2> QED
    BY <1>15, <2>1, <2>2, Zenon
<1> QED
  BY <1>14, <1>16

\* Concatenation is associative.  (The provers find an instance of it by name.)
Regroups(a, b, c) == (a \o b) \o c = a \o (b \o c)

\* Concatenation is associative.
LEMMA ConcatThree ==
    ASSUME NEW S, NEW a \in Seq(S), NEW b \in Seq(S), NEW c \in Seq(S)
    PROVE  Regroups(a, b, c)
<1>1. a \in Seq(S) /\ b \in Seq(S) /\ c \in Seq(S)
  OBVIOUS
<1> QED
  BY <1>1, ConcatAssociative DEF Regroups

\* A byte with its top bit set.
LEMMA LowBits == \A b \in 0..127 : (128 + b) % 128 = b /\ ~(128 + b < 128)
  OBVIOUS

\* A digit more.
LEMMA Distribute ==
    ASSUME NEW m \in Nat, NEW d \in Nat, NEW b \in Nat, NEW q \in Nat, q = (128 * d) + b
    PROVE  b * m + d * (128 * m) = q * m
  OBVIOUS

\* The length of q begins at the i-th byte, and its rest behind it.
BeginsAt(bytes, i, q) ==
    /\ i <= Len(bytes)
    /\ bytes[i] = IF q < 128 THEN q ELSE 128 + (q % 128)
    /\ q >= 128 => \E r \in Seq(Nat) : Len(r) = i /\ bytes = r \o MQTTPacket_encode[q \div 128]

\* So it does when it is written behind i - 1 bytes.
LEMMA ByteAt ==
    ASSUME NEW p \in Seq(Nat), NEW q \in Nat, NEW bytes, bytes = p \o MQTTPacket_encode[q],
           NEW i \in Nat, Len(p) = i - 1
    PROVE  BeginsAt(bytes, i, q)
<1>. HIDE DEF MQTTPacket_encode
<1>1. PICK e \in Seq(Nat) : e = MQTTPacket_encode[q] /\ Len(e) \in Nat
  BY EncodeTyped
<1>2. PICK f \in Seq(Nat), d \in Nat : d = q \div 128 /\ f = MQTTPacket_encode[d]
  BY Quotient, EncodeTyped
<1>3. PICK b \in Nat : b = IF q < 128 THEN q ELSE 128 + (q % 128)
  BY Quotient
<1>4. PICK x \in Seq(Nat) : x = <<b>>
  <2>1. <<b>> \in Seq(Nat)
    OBVIOUS
  <2> QED
    BY <2>1
<1>5. Len(x) = 1 /\ x[1] = b
  BY <1>4
<1>6. q < 128 => e = x
  BY <1>1, <1>3, <1>4, EncodeFirst
<1>7. q >= 128 => e = x \o f
  <2>. SUFFICES ASSUME q >= 128 PROVE e = x \o f
    OBVIOUS
  <2>1. b = 128 + (q % 128)
    BY <1>3
  <2> QED
    BY <1>1, <1>2, <1>4, <2>1, EncodeFirst
<1>8. e[1] = b /\ Len(e) >= 1
  <2>1. CASE q < 128
    <3>1. e = x
      BY <1>6, <2>1
    <3>2. x[1] = b /\ Len(x) >= 1
      BY <1>5
    <3> QED
      BY <3>1, <3>2, Zenon
  <2>2. CASE q >= 128
    <3>1. /\ Len(x \o f) = Len(x) + Len(f) /\ Len(f) \in Nat
          /\ \A j \in 1..(Len(x) + Len(f)) : (x \o f)[j] = IF j <= Len(x) THEN x[j] ELSE f[j - Len(x)]
      BY ConcatProperties, LenProperties
    <3>2. 1 \in 1..(Len(x) + Len(f)) /\ 1 <= Len(x)
      BY <1>5, <3>1
    <3> QED
      BY <1>5, <1>7, <2>2, <3>1, <3>2
  <2> QED
    BY <2>1, <2>2
<1>9. i <= Len(bytes) /\ bytes[i] = b
  <2>1. /\ Len(bytes) = Len(p) + Len(e) /\ Len(p) \in Nat
        /\ \A j \in 1..(Len(p) + Len(e)) : bytes[j] = IF j <= Len(p) THEN p[j] ELSE e[j - Len(p)]
    BY <1>1, ConcatProperties, LenProperties
  <2>2. i \in 1..(Len(p) + Len(e)) /\ ~(i <= Len(p)) /\ i - Len(p) = 1
    BY <1>1, <1>8, <2>1
  <2>3. bytes[i] = e[1]
    BY <2>1, <2>2
  <2>4. i <= Len(bytes)
    BY <2>1, <2>2
  <2> QED
    BY <1>8, <2>3, <2>4
<1>10. ASSUME q >= 128
       PROVE  \E r \in Seq(Nat) : Len(r) = i /\ bytes = r \o MQTTPacket_encode[q \div 128]
  <2>1. PICK r \in Seq(Nat) : r = p \o x /\ Len(r) = Len(p) + Len(x)
    BY ConcatProperties
  <2>2. (p \o x) \o f = p \o (x \o f)
    <3>1. Regroups(p, x, f)
      BY ConcatThree
    <3> QED
      BY <3>1 DEF Regroups
  <2>3. bytes = r \o f
    BY <1>1, <1>7, <1>10, <2>1, <2>2
  <2>4. Len(r) = i
    BY <1>5, <2>1
  <2> QED
    BY <1>2, <2>3, <2>4
<1> QED
  BY <1>3, <1>9, <1>10 DEF BeginsAt

\* From its i-th byte on, a length that is less than top is read back.
ReadsBack(i, top) ==
    \A q \in Nat, p \in Seq(Nat) :
        q < top /\ Len(p) = i - 1 => Added(p \o MQTTPacket_encode[q])[i] = q * Multiplier[i]

\* A last byte.
LEMMA LastByteRead ==
    ASSUME NEW q \in Nat, q < 128, NEW p \in Seq(Nat), NEW i \in 1..4, Len(p) = i - 1
    PROVE  Added(p \o MQTTPacket_encode[q])[i] = q * Multiplier[i]
<1>. HIDE DEF MQTTPacket_encode
<1>1. PICK bytes : bytes = p \o MQTTPacket_encode[q]
  OBVIOUS
<1>2. i <= Len(bytes) /\ bytes[i] = q /\ i \in 1..5
  <2>1. i \in Nat /\ i \in 1..5
    OBVIOUS
  <2>2. BeginsAt(bytes, i, q)
    BY <1>1, <2>1, ByteAt
  <2> QED
    BY <2>1, <2>2 DEF BeginsAt
<1>3. Len(bytes) \in Nat
  <2>1. MQTTPacket_encode[q] \in Seq(Nat)
    BY EncodeTyped
  <2>2. bytes \in Seq(Nat)
    BY <1>1, <2>1, ConcatProperties
  <2> QED
    BY <2>2, LenProperties
<1>4. ~(i > MaxLengthBytes \/ i > Len(bytes))
  BY <1>2, <1>3 DEF MaxLengthBytes
<1>5. PICK m \in Nat : m = Multiplier[i]
  <2>1. i = 1 \/ i = 2 \/ i = 3 \/ i = 4
    OBVIOUS
  <2> QED
    BY <2>1, SMT DEF Multiplier
<1>6. Added(bytes)[i] = (q % 128) * m + 0
  BY <1>2, <1>4, <1>5, AddedUnfolds DEF AddedAt
<1>7. q % 128 = q
  OBVIOUS
<1> QED
  BY <1>1, <1>5, <1>6, <1>7

\* A byte that others follow.
LEMMA MoreBytesRead ==
    ASSUME NEW i \in 1..3, Multiplier[i] \in Nat, Multiplier[i + 1] = 128 * Multiplier[i],
           NEW top \in Nat, ReadsBack(i + 1, top)
    PROVE  ReadsBack(i, 128 * top)
<1>. HIDE DEF MQTTPacket_encode
<1>. SUFFICES ASSUME NEW q \in Nat, NEW p \in Seq(Nat), q < 128 * top, Len(p) = i - 1
              PROVE  Added(p \o MQTTPacket_encode[q])[i] = q * Multiplier[i]
  BY DEF ReadsBack
<1>1. PICK bytes : bytes = p \o MQTTPacket_encode[q]
  OBVIOUS
<1>2. CASE q < 128
  <2>1. i \in 1..4
    OBVIOUS
  <2> QED
    BY <1>2, <2>1, LastByteRead
<1>3. CASE q >= 128
  <2>1. PICK m \in Nat, d \in Nat, b \in Nat :
          m = Multiplier[i] /\ d = q \div 128 /\ b = q % 128 /\ q = 128 * d + b /\ d < top
    <3>1. q \div 128 \in Nat /\ q % 128 \in Nat /\ q = 128 * (q \div 128) + (q % 128)
      BY Quotient
    <3>2. q \div 128 < top
      BY <3>1
    <3> QED
      BY <3>1, <3>2
  <2>2. /\ i <= Len(bytes) /\ bytes[i] = 128 + b
        /\ \E r \in Seq(Nat) : Len(r) = i /\ bytes = r \o MQTTPacket_encode[d]
    <3>1. i \in Nat /\ ~(q < 128)
      BY <1>3
    <3>2. BeginsAt(bytes, i, q)
      BY <1>1, <3>1, ByteAt
    <3> QED
      BY <1>3, <2>1, <3>1, <3>2 DEF BeginsAt
  <2>3. PICK r \in Seq(Nat) : Len(r) = i /\ bytes = r \o MQTTPacket_encode[d]
    BY <2>2
  <2>4. Added(bytes)[i + 1] = d * (128 * m)
    <3>1. Len(r) = (i + 1) - 1
      BY <2>3
    <3>2. Added(r \o MQTTPacket_encode[d])[i + 1] = d * Multiplier[i + 1]
      BY <2>1, <3>1 DEF ReadsBack
    <3> QED
      BY <2>1, <2>3, <3>2
  <2>5. bytes[i] % 128 = b /\ ~(bytes[i] < 128)
    <3>1. b < 128
      BY <2>1
    <3>2. (128 + b) % 128 = b /\ ~(128 + b < 128)
      <4>1. b \in 0..127
        BY <3>1
      <4> QED
        BY <4>1, LowBits
    <3> QED
      BY <2>2, <3>2
  <2>6. Len(bytes) \in Nat
    <3>1. MQTTPacket_encode[q] \in Seq(Nat)
      BY EncodeTyped
    <3>2. bytes \in Seq(Nat)
      BY <1>1, <3>1, ConcatProperties
    <3> QED
      BY <3>2, LenProperties
  <2>7. ~(i > MaxLengthBytes \/ i > Len(bytes)) /\ i \in 1..5
    BY <2>2, <2>6 DEF MaxLengthBytes
  <2>8. Added(bytes)[i] = b * m + d * (128 * m)
    <3>1. Added(bytes)[i] = AddedAt(bytes, i, Added(bytes)[i + 1])
      BY <2>7, AddedUnfolds
    <3>2. AddedAt(bytes, i, Added(bytes)[i + 1]) = b * m + Added(bytes)[i + 1]
      BY <2>1, <2>5, <2>7 DEF AddedAt
    <3> QED
      BY <2>4, <3>1, <3>2
  <2>9. b * m + d * (128 * m) = q * m
    <3>1. m \in Nat /\ d \in Nat /\ b \in Nat /\ q = (128 * d) + b
      BY <2>1
    <3>2. \A x, y, z, w \in Nat : w = (128 * y) + z => z * x + y * (128 * x) = w * x
      BY Distribute
    <3> QED
      BY <3>1, <3>2
  <2> QED
    BY <1>1, <2>1, <2>8, <2>9
<1> QED
  BY <1>2, <1>3

\* What MQTTPacket_encode writes, MQTTPacket_decode reads.
LEMMA RoundTrip ==
    ASSUME NEW n \in Nat, n <= MaxRemainingLength
    PROVE  MQTTPacket_decode(MQTTPacket_encode[n]) = n
<1>. HIDE DEF MQTTPacket_encode
<1>1. /\ Multiplier[1] \in Nat /\ Multiplier[2] \in Nat /\ Multiplier[3] \in Nat
      /\ Multiplier[1] = 1
      /\ Multiplier[1 + 1] = 128 * Multiplier[1] /\ Multiplier[2 + 1] = 128 * Multiplier[2]
      /\ Multiplier[3 + 1] = 128 * Multiplier[3]
  BY SMT DEF Multiplier
<1>2. ReadsBack(3 + 1, 128)
  <2>1. 3 + 1 \in 1..4
    OBVIOUS
  <2> QED
    BY <2>1, LastByteRead DEF ReadsBack
<1>3. PICK t2 \in Nat, t3 \in Nat, t4 \in Nat :
        t2 = 128 * 128 /\ t3 = 128 * t2 /\ t4 = 128 * t3
  OBVIOUS
<1>4. ReadsBack(2 + 1, t2)
  BY <1>1, <1>2, <1>3, MoreBytesRead
<1>5. ReadsBack(1 + 1, t3)
  BY <1>1, <1>3, <1>4, MoreBytesRead
<1>6. ReadsBack(1, t4)
  BY <1>1, <1>3, <1>5, MoreBytesRead
<1>7. n < t4
  BY <1>3, SMT DEF MaxRemainingLength
<1>8. PICK e, s : e = <<>> /\ s = MQTTPacket_encode[n]
  OBVIOUS
<1>9. e \in Seq(Nat) /\ Len(e) = 1 - 1 /\ e \o s = s
  <2>1. s \in Seq(Nat)
    BY <1>8, EncodeTyped
  <2> QED
    BY <1>8, <2>1, EmptySeq, ConcatEmptySeq
<1>10. Added(e \o s)[1] = n * Multiplier[1]
  BY <1>6, <1>7, <1>8, <1>9 DEF ReadsBack
<1>11. n * Multiplier[1] = n
  BY <1>1
<1> QED
  BY <1>8, <1>9, <1>10, <1>11 DEF MQTTPacket_decode

\* The size that is tested and the size that is written.
LEMMA SizeIsEnough ==
    ASSUME NEW n \in Nat, n <= MaxRemainingLength
    PROVE  MQTTPacket_len(n) - BytesWritten(n) \in {0, 1}
<1>. HIDE DEF MQTTPacket_encode
<1>1. BytesWritten(n) = 1 + Bytes(n) + n
  BY EncodedLength DEF BytesWritten
<1>2. LengthField(n + 1) - Bytes(n) \in {0, 1} /\ LengthField(n + 1) \in Nat /\ Bytes(n) \in Nat
  BY SMT DEF LengthField, Bytes
<1> QED
  BY <1>1, <1>2 DEF MQTTPacket_len

-----------------------------------------------------------------------------
(* The three kinds of input *)

\* What an input of a kind is.
Known ==
    /\ Is("length") => input.value \in RemainingLengths
    /\ Is("topic") => input.value \in Filters
    /\ Is("compress") => input.value \in Texts

LEMMA KnownHolds == Spec => []Known
<1>1. Init => Known
  BY DEF Init, Known, None, Is
<1>2. Known /\ [Next]_input => Known'
  <2>. SUFFICES ASSUME Known, [Next]_input PROVE Known'
    OBVIOUS
  <2>1. CASE UNCHANGED input
    BY <2>1 DEF Known, Is
  <2>2. CASE Takes("length", RemainingLengths)
    BY <2>2 DEF Known, Takes, Is
  <2>3. CASE Takes("topic", Filters)
    BY <2>3 DEF Known, Takes, Is
  <2>4. CASE Takes("compress", Texts)
    BY <2>4 DEF Known, Takes, Is
  <2> QED
    BY <2>1, <2>2, <2>3, <2>4 DEF Next
<1> QED
  BY <1>1, <1>2, PTL DEF Spec

\* MQTTPacket_len's test against the send buffer is never too generous and too
\* strict by one byte at most, and MQTTPacket_decode reads the length that
\* MQTTPacket_encode wrote: for every length MQTT allows.
THEOREM LengthIsEnoughHolds == Spec => []LengthIsEnough
<1>1. Known => LengthIsEnough
  <2>. SUFFICES ASSUME Known, Is("length")
                PROVE  /\ MQTTPacket_len(input.value) - BytesWritten(input.value) \in {0, 1}
                       /\ MQTTPacket_decode(MQTTPacket_encode[input.value]) = input.value
    BY DEF LengthIsEnough
  <2>1. PICK n \in Nat : n = input.value /\ n <= MaxRemainingLength
    <3>1. input.value \in 0 .. MaxRemainingLength
      <4>1. RemainingLengths \subseteq 0 .. MaxRemainingLength
        BY WireAssumption, SMT
      <4> QED
        BY <4>1 DEF Known
    <3>2. MaxRemainingLength \in Nat
      BY SMT DEF MaxRemainingLength
    <3> QED
      BY <3>1, <3>2
  <2> QED
    BY <2>1, RoundTrip, SizeIsEnough
<1> QED
  BY <1>1, KnownHolds, PTL

-----------------------------------------------------------------------------
(* Frames *)

\* The chunks of a text, not as a recursion.
ChunkCount(n) == (n + (ChunkSize - 1)) \div ChunkSize
LastChunk(n) == n - ChunkSize * (ChunkCount(n) - 1)
ChunkList(n) ==
    [i \in 1..ChunkCount(n) |-> IF i < ChunkCount(n) THEN ChunkSize ELSE LastChunk(n)]

\* The right-hand side of Chunks, for any function in place of it.
Cuts(f, n) ==
    IF n = 0 THEN <<>>
    ELSE IF n > ChunkSize THEN <<ChunkSize>> \o f[n - ChunkSize] ELSE <<n>>

\* What is to be known of the count of a text's chunks, and of the last.
Counted(n) ==
    /\ ChunkCount(n) \in Nat /\ (n = 0 => ChunkCount(n) = 0)
    /\ n \in 1..3000 => ChunkCount(n) = 1
    /\ n > 3000 => ChunkCount(n) = 1 + ChunkCount(n - 3000)
    /\ n > 0 => ChunkCount(n) >= 1 /\ LastChunk(n) \in 1..3000 /\ LastChunk(n) \in Nat
    /\ n = 3000 * (ChunkCount(n) - 1) + LastChunk(n)
    /\ n <= 12000 => ChunkCount(n) <= 4

\* The last chunk has what the others leave.
LEMMA CountProperties == \A n \in Nat : Counted(n)
<1>. SUFFICES ASSUME NEW n \in Nat PROVE Counted(n)
  OBVIOUS
<1>1. PICK k \in Nat : k = (n + 2999) \div 3000
  OBVIOUS
<1>2. ChunkCount(n) = k
  BY <1>1 DEF ChunkCount, ChunkSize
<1>3. 3000 * k <= n + 2999 /\ n + 2999 < 3000 * k + 3000
  BY <1>1
<1>4. (n = 0 => k = 0) /\ (n \in 1..3000 => k = 1) /\ (n <= 12000 => k <= 4)
  <2>1. n = 0 => k = 0
    BY <1>3
  <2>2. n \in 1..3000 => k = 1
    BY <1>3
  <2>3. n <= 12000 => k <= 4
    BY <1>3
  <2> QED
    BY <2>1, <2>2, <2>3
<1>5. n > 0 => k >= 1 /\ n - 3000 * (k - 1) \in 1..3000 /\ n - 3000 * (k - 1) \in Nat
  BY <1>3
<1>6. ASSUME n > 3000 PROVE k = 1 + ChunkCount(n - 3000)
  <2>1. PICK l \in Nat : l = ((n - 3000) + 2999) \div 3000
    BY <1>6
  <2>2. 3000 * l <= (n - 3000) + 2999 /\ (n - 3000) + 2999 < 3000 * l + 3000
    BY <1>6, <2>1
  <2>3. ChunkCount(n - 3000) = l
    BY <2>1 DEF ChunkCount, ChunkSize
  <2> QED
    BY <1>3, <2>2, <2>3
<1>7. LastChunk(n) = n - 3000 * (k - 1)
  BY <1>2 DEF LastChunk, ChunkSize
<1>8. n = 3000 * (k - 1) + (n - 3000 * (k - 1))
  OBVIOUS
<1>9. n = 3000 * (ChunkCount(n) - 1) + LastChunk(n)
  BY <1>2, <1>7, <1>8
<1>10. n > 0 => ChunkCount(n) >= 1 /\ LastChunk(n) \in 1..3000 /\ LastChunk(n) \in Nat
  BY <1>2, <1>5, <1>7, SMTT(30)
<1>11. n > 3000 => ChunkCount(n) = 1 + ChunkCount(n - 3000)
  BY <1>2, <1>6
<1> QED
  BY <1>2, <1>4, <1>9, <1>10, <1>11 DEF Counted

\* A list of chunks is the first chunk and the list of the rest.
LEMMA ListCuts ==
    ASSUME NEW n \in Nat, NEW f, n > ChunkSize => f[n - ChunkSize] = ChunkList(n - ChunkSize)
    PROVE  ChunkList(n) = Cuts(f, n) /\ ChunkList(n) \in Seq(Nat)
<1>. USE DEF Counted
<1>0. Counted(n)
  BY CountProperties
<1>1. PICK k \in Nat : k = ChunkCount(n)
  BY <1>0
<1>2. PICK c : c = ChunkList(n)
  OBVIOUS
<1>3. c = [i \in 1..k |-> IF i < k THEN 3000 ELSE LastChunk(n)]
  BY <1>1, <1>2 DEF ChunkList, ChunkSize
<1>4. n > 0 => LastChunk(n) \in Nat
  BY <1>0
<1>5. c \in Seq(Nat) /\ Len(c) = k
  <2>1. \A i \in 1..k : c[i] \in Nat
    <3>1. n = 0 => k = 0
      BY <1>0, <1>1
    <3>2. k > 0 => n > 0
      BY <3>1
    <3>3. k > 0 => LastChunk(n) \in Nat
      BY <1>4, <3>2
    <3> QED
      BY <1>3, <3>3
  <2>2. \E m \in Nat : DOMAIN c = 1..m
    BY <1>3
  <2> QED
    BY <1>3, <2>1, IsASeq, LenProperties
<1>6. CASE n = 0
  <2>1. Len(c) = 0
    BY <1>0, <1>1, <1>5, <1>6
  <2>2. c = <<>>
    BY <1>5, <2>1, EmptySeq
  <2> QED
    BY <1>2, <1>5, <1>6, <2>2 DEF Cuts
<1>7. CASE n \in 1..3000
  <2>1. k = 1 /\ LastChunk(n) = n
    <3>1. k = 1 /\ n = 3000 * (ChunkCount(n) - 1) + LastChunk(n)
      BY <1>0, <1>1, <1>7
    <3>2. n > 0
      BY <1>7
    <3>3. LastChunk(n) \in Nat
      BY <1>4, <3>2
    <3> QED
      BY <1>1, <3>1, <3>3
  <2>2. c = <<n>>
    BY <1>3, <2>1
  <2>3. n # 0 /\ ~(n > ChunkSize)
    BY <1>7 DEF ChunkSize
  <2> QED
    BY <1>2, <1>5, <2>2, <2>3 DEF Cuts
<1>8. CASE n > 3000
  <2>1. PICK m \in Nat : m = n - 3000 /\ m > 0
    BY <1>8
  <2>0. Counted(m)
    <3>. HIDE DEF Counted
    <3> QED
      BY <2>1, CountProperties
  <2>2. PICK l \in Nat : l = ChunkCount(m) /\ k = 1 + l
    <3>1. ChunkCount(m) \in Nat /\ ChunkCount(n) = 1 + ChunkCount(n - 3000)
      BY <1>0, <1>8, <2>0
    <3> QED
      BY <1>1, <2>1, <3>1
  <2>3. LastChunk(m) = LastChunk(n) /\ LastChunk(m) \in Nat
    <3>1. LastChunk(m) = m - 3000 * (l - 1)
      BY <2>2 DEF LastChunk, ChunkSize
    <3>2. LastChunk(n) = n - 3000 * (k - 1)
      BY <1>1 DEF LastChunk, ChunkSize
    <3>3. LastChunk(m) \in 1..3000
      BY <2>0, <2>1
    <3>4. m - 3000 * (l - 1) = n - 3000 * (k - 1)
      BY <2>1, <2>2
    <3>5. LastChunk(m) = LastChunk(n)
      BY <3>1, <3>2, <3>4
    <3>6. m - 3000 * (l - 1) >= 1
      BY <3>1, <3>3, SMT
    <3>7. m - 3000 * (l - 1) \in Nat
      BY <3>6, SMT
    <3>8. LastChunk(m) \in Nat
      BY <3>1, <3>7
    <3> QED
      BY <3>5, <3>8
  <2>4. PICK d : d = ChunkList(m)
    OBVIOUS
  <2>5. d = [i \in 1..l |-> IF i < l THEN 3000 ELSE LastChunk(m)]
    BY <2>2, <2>4 DEF ChunkList, ChunkSize
  <2>6. d \in Seq(Nat) /\ Len(d) = l
    <3>1. \A i \in 1..l : d[i] \in Nat
      BY <2>3, <2>5
    <3> QED
      BY <2>5, <3>1, IsASeq, LenProperties
  <2>7. PICK w \in Nat : w = 3000
    OBVIOUS
  <2>71. PICK x : x = <<w>>
    OBVIOUS
  <2>70. x \in Seq(Nat) /\ Len(x) = 1 /\ x[1] = w
    BY <2>71
  <2>8. PICK y \in Seq(Nat) :
           /\ y = x \o d /\ Len(y) = 1 + l
           /\ \A i \in 1..(1 + l) : y[i] = IF i <= 1 THEN x[i] ELSE d[i - 1]
    <3>. HIDE DEF Counted
    <3>1. /\ x \o d \in Seq(Nat) /\ Len(x \o d) = Len(x) + Len(d)
          /\ \A i \in 1..(Len(x) + Len(d)) :
                (x \o d)[i] = IF i <= Len(x) THEN x[i] ELSE d[i - Len(x)]
      BY <2>6, <2>70, ConcatProperties
    <3>2. PICK z : z = x \o d
      OBVIOUS
    <3>3. /\ z \in Seq(Nat) /\ Len(z) = 1 + l
          /\ \A i \in 1..(1 + l) : z[i] = IF i <= 1 THEN x[i] ELSE d[i - 1]
      BY <2>6, <2>70, <3>1, <3>2
    <3> QED
      BY <3>2, <3>3
  <2>9. ASSUME NEW i \in 1..k PROVE c[i] = y[i]
    <3>1. CASE i = 1
      <4>1. l >= 1
        BY <2>0, <2>1, <2>2
      <4> QED
        BY <1>3, <2>2, <2>7, <2>70, <2>8, <3>1, <4>1
    <3>2. CASE i # 1
      <4>1. i - 1 \in 1..l /\ ~(i <= 1) /\ (i < k <=> i - 1 < l)
        BY <2>2, <3>2
      <4> QED
        BY <1>3, <2>2, <2>3, <2>5, <2>8, <4>1, SMTT(30)
    <3> QED
      BY <3>1, <3>2
  <2>10. c = y
    BY <1>5, <2>2, <2>8, <2>9, SeqEqual
  <2>11. Cuts(f, n) = <<3000>> \o f[n - 3000] /\ f[n - 3000] = d
    <3>1. n # 0 /\ n > ChunkSize /\ ChunkSize = 3000
      BY <1>8 DEF ChunkSize
    <3> QED
      BY <2>1, <2>4, <3>1 DEF Cuts
  <2> QED
    BY <1>2, <1>5, <2>7, <2>71, <2>70, <2>8, <2>10, <2>11
<1> QED
  BY <1>6, <1>7, <1>8

\* So Chunks is what its definition says, and no other function is.
LEMMA ChunksAreListed ==
    ASSUME NEW n \in Nat
    PROVE  Chunks[n] = ChunkList(n) /\ ChunkList(n) \in Seq(Nat)
<1>1. PICK g : g = [m \in Nat |-> ChunkList(m)]
  OBVIOUS
<1>2. ASSUME NEW m \in Nat PROVE g[m] = Cuts(g, m)
  <2>1. m > ChunkSize => m - ChunkSize \in Nat
    BY DEF ChunkSize
  <2>2. m > ChunkSize => g[m - ChunkSize] = ChunkList(m - ChunkSize)
    BY <1>1, <2>1
  <2>3. ChunkList(m) = Cuts(g, m)
    BY <2>2, ListCuts
  <2> QED
    BY <1>1, <2>3
<1>3. g = [m \in Nat |-> Cuts(g, m)]
  BY <1>1, <1>2
<1>4. Chunks = [m \in Nat |-> Cuts(Chunks, m)]
  BY <1>3 DEF Chunks, Cuts
<1>. HIDE DEF Chunks
<1>5. \A m \in Nat : Chunks[m] = Cuts(Chunks, m)
  <2>1. PICK h : h = [m \in Nat |-> Cuts(Chunks, m)]
    OBVIOUS
  <2>2. \A m \in Nat : h[m] = Cuts(Chunks, m)
    BY <2>1
  <2> QED
    BY <1>4, <2>1, <2>2, Zenon
<1>. DEFINE S == {m \in Nat : Chunks[m] = ChunkList(m)}
<1>6. ASSUME NEW m \in Nat, \A i \in 0..(m - 1) : i \in S PROVE m \in S
  <2>1. m > ChunkSize => m - ChunkSize \in 0..(m - 1)
    BY DEF ChunkSize
  <2>2. m > ChunkSize => Chunks[m - ChunkSize] = ChunkList(m - ChunkSize)
    BY <1>6, <2>1
  <2>3. ChunkList(m) = Cuts(Chunks, m)
    BY <2>2, ListCuts
  <2> QED
    BY <1>5, <2>3
<1>. HIDE DEF S
<1>7. \A m \in Nat : m \in S
  BY <1>6, NumbersBelow
<1>8. Chunks[n] = ChunkList(n)
  BY <1>7 DEF S
<1>9. ChunkList(n) \in Seq(Nat)
  <2>1. PICK h : h = [m \in Nat |-> ChunkList(m)]
    OBVIOUS
  <2>2. n > ChunkSize => h[n - ChunkSize] = ChunkList(n - ChunkSize)
    BY <2>1 DEF ChunkSize
  <2> QED
    BY <2>2, ListCuts
<1> QED
  BY <1>8, <1>9

\* What Sums is for a sequence of numbers.
LEMMA SumsUnfold ==
    ASSUME NEW s \in Seq(Nat)
    PROVE  /\ Sums(s)[0] = 0
           /\ \A i \in 1..Len(s) : Sums(s)[i] = Sums(s)[i - 1] + s[i]
<1>1. PICK len \in Nat : len = Len(s)
  BY LenProperties
<1>2. PICK at : at = [i \in Nat |-> IF i \in 1..len THEN s[i] ELSE 0]
  OBVIOUS
<1>3. at \in [Nat -> Nat]
  <2>1. \A i \in 1..len : s[i] \in Nat
    BY <1>1, ElementOfSeq
  <2> QED
    BY <1>2, <2>1
<1>4. PICK step \in [Nat \X Nat -> Nat] : step = [p \in Nat \X Nat |-> p[2] + at[p[1] + 1]]
  <2>1. PICK step : step = [p \in Nat \X Nat |-> p[2] + at[p[1] + 1]]
    OBVIOUS
  <2>2. ASSUME NEW p \in Nat \X Nat PROVE p[2] + at[p[1] + 1] \in Nat
    <3>1. PICK i \in Nat, j \in Nat : i = p[1] /\ j = p[2]
      OBVIOUS
    <3>2. i + 1 \in Nat
      OBVIOUS
    <3>3. at[i + 1] \in Nat
      BY <1>3, <3>2
    <3> QED
      BY <3>1, <3>3
  <2>3. step \in [Nat \X Nat -> Nat]
    BY <2>1, <2>2
  <2> QED
    BY <2>1, <2>3
<1>5. PICK f \in [Nat -> Nat] : f[0] = 0 /\ \A n \in Nat : f[n + 1] = step[<<n, f[n]>>]
  <2>1. 0 \in Nat
    OBVIOUS
  <2> QED
    <3>1. Iterable(Nat, 0, step)
      BY <1>4, <2>1, Iteration
    <3> QED
      BY <3>1 DEF Iterable
<1>6. \A n \in Nat : f[n + 1] = f[n] + at[n + 1]
  <2>1. ASSUME NEW n \in Nat PROVE f[n + 1] = f[n] + at[n + 1]
    <3>1. PICK p : p = <<n, f[n]>>
      OBVIOUS
    <3>2. f[n] \in Nat
      OBVIOUS
    <3>3. p \in Nat \X Nat /\ p[1] = n /\ p[2] = f[n]
      BY <3>1, <3>2
    <3>4. f[n + 1] = step[p]
      BY <1>5, <3>1
    <3>5. step[p] = p[2] + at[p[1] + 1]
      BY <1>4, <3>3
    <3> QED
      BY <3>3, <3>4, <3>5
  <2> QED
    BY <2>1
<1>7. PICK g : g = [i \in 0..len |-> f[i]]
  OBVIOUS
<1>8. ASSUME NEW i \in 0..len PROVE g[i] = IF i = 0 THEN 0 ELSE g[i - 1] + s[i]
  <2>1. CASE i = 0
    BY <1>5, <1>7, <2>1
  <2>2. CASE i # 0
    <3>1. i - 1 \in Nat /\ i - 1 \in 0..len /\ (i - 1) + 1 = i /\ i \in 1..len /\ i \in Nat
      BY <2>2
    <3>2. f[i] = f[i - 1] + at[i]
      BY <1>6, <3>1
    <3>3. at[i] = s[i]
      BY <1>2, <3>1
    <3> QED
      BY <1>7, <2>2, <3>1, <3>2, <3>3
  <2> QED
    BY <2>1, <2>2
<1>9. g = [i \in 0..Len(s) |-> IF i = 0 THEN 0 ELSE g[i - 1] + s[i]]
  BY <1>1, <1>7, <1>8
<1>10. Sums(s) = CHOOSE h : h = [i \in 0..Len(s) |-> IF i = 0 THEN 0 ELSE h[i - 1] + s[i]]
  BY DEF Sums
<1>11. PICK u : u = Sums(s)
  OBVIOUS
<1>12. u = [i \in 0..Len(s) |-> IF i = 0 THEN 0 ELSE u[i - 1] + s[i]]
  BY <1>9, <1>10, <1>11, Zenon
<1>13. PICK v : v = [i \in 0..Len(s) |-> IF i = 0 THEN 0 ELSE u[i - 1] + s[i]]
  OBVIOUS
<1>14. v[0] = 0 /\ \A i \in 1..len : v[i] = u[i - 1] + s[i]
  <2>1. \A i \in 1..len : i \in 0..Len(s) /\ i # 0
    BY <1>1
  <2>2. 0 \in 0..Len(s)
    BY <1>1
  <2> QED
    BY <1>13, <2>1, <2>2
<1>15. u = v
  BY <1>12, <1>13, Zenon
<1> QED
  BY <1>1, <1>11, <1>14, <1>15

\* What one frame takes, and what its body is.
FrameOf(us, cs, fr) ==
    /\ fr.us = us /\ fr.body \in 1..us /\ fr.len \in Nat
    /\ fr.len <= us + 7 /\ (us = 3000 => fr.len <= 3005)

\* Whatever the compressor answers within its room.
LEMMA FrameBounds ==
    ASSUME NEW us \in Nat, 1 <= us, us <= 3000, NEW cs \in Nat, cs <= Room(us)
    PROVE  FrameOf(us, cs, Frame(us, cs))
<1>1. PICK r \in Nat : r = Room(us) /\ r <= us /\ (us = 3000 => r = 2996)
  BY DEF Room
<1>2. PICK fr : fr = Frame(us, cs)
  OBVIOUS
<1>3. CASE cs = 0
  <2>1. fr = [type |-> 0, us |-> us, body |-> us, len |-> us + 5]
    BY <1>2, <1>3 DEF Frame, TYPE0_HDR_SIZE
  <2>2. fr.us = us /\ fr.body = us /\ fr.len = us + 5
    BY <2>1
  <2> QED
    BY <1>2, <2>2 DEF FrameOf
<1>4. CASE cs # 0
  <2>1. fr = [type |-> 1, us |-> us, body |-> cs, len |-> cs + 7]
    BY <1>2, <1>4 DEF Frame, TYPE1_HDR_SIZE
  <2>2. fr.us = us /\ fr.body = cs /\ fr.len = cs + 7
    BY <2>1
  <2>3. cs \in 1..us /\ (us = 3000 => cs <= 2996)
    BY <1>1, <1>4
  <2> QED
    BY <1>2, <2>2, <2>3 DEF FrameOf
<1> QED
  BY <1>3, <1>4

\* The sums of numbers that are all 3000 but the last.
LEMMA SumsOfFull ==
    ASSUME NEW s \in Seq(Nat), NEW k \in Nat, k < Len(s), \A i \in 1..k : s[i] = 3000
    PROVE  Sums(s)[k] = 3000 * k
<1>. DEFINE T == {i \in Nat : i <= k => Sums(s)[i] = 3000 * i}
<1>1. PICK u : u = Sums(s)
  OBVIOUS
<1>2. u[0] = 0 /\ \A i \in 1..Len(s) : u[i] = u[i - 1] + s[i]
  BY <1>1, SumsUnfold
<1>3. 0 \in T
  BY <1>1, <1>2
<1>4. ASSUME NEW i \in Nat, i \in T PROVE i + 1 \in T
  <2>. SUFFICES ASSUME i + 1 <= k PROVE u[i + 1] = 3000 * (i + 1)
    BY <1>1
  <2>1. i + 1 \in 1..Len(s) /\ i + 1 \in 1..k /\ (i + 1) - 1 = i
    BY LenProperties
  <2>2. u[i + 1] = u[i] + s[i + 1]
    BY <1>2, <2>1
  <2>3. u[i] = 3000 * i
    BY <1>1, <1>4
  <2> QED
    BY <2>1, <2>2, <2>3
<1>. HIDE DEF T
<1>5. \A i \in Nat : i \in T
  BY <1>3, <1>4, NextNumber, SMTT(30)
<1> QED
  BY <1>5 DEF T

\* As a name, for the lemma to be cited.
NotAbove(s, k) == Sums(s)[k] \in Nat /\ Sums(s)[k] <= 3005 * k

\* The sums of numbers of which no one but the last exceeds 3005.
LEMMA SumsOfFrames ==
    ASSUME NEW s \in Seq(Nat), NEW k \in Nat, k < Len(s), \A i \in 1..k : s[i] <= 3005
    PROVE  NotAbove(s, k)
<1>. DEFINE T == {i \in Nat : i <= k => Sums(s)[i] \in Nat /\ Sums(s)[i] <= 3005 * i}
<1>1. PICK u : u = Sums(s)
  OBVIOUS
<1>2. u[0] = 0 /\ \A i \in 1..Len(s) : u[i] = u[i - 1] + s[i]
  BY <1>1, SumsUnfold
<1>3. 0 \in T
  BY <1>1, <1>2
<1>4. ASSUME NEW i \in Nat, i \in T PROVE i + 1 \in T
  <2>. SUFFICES ASSUME i + 1 <= k PROVE u[i + 1] \in Nat /\ u[i + 1] <= 3005 * (i + 1)
    BY <1>1
  <2>1. i + 1 \in 1..Len(s) /\ i + 1 \in 1..k /\ (i + 1) - 1 = i
    BY LenProperties
  <2>2. u[i + 1] = u[i] + s[i + 1]
    BY <1>2, <2>1
  <2>3. u[i] \in Nat /\ u[i] <= 3005 * i
    BY <1>1, <1>4
  <2>4. s[i + 1] \in Nat /\ s[i + 1] <= 3005
    BY <2>1, ElementOfSeq
  <2> QED
    BY <2>2, <2>3, <2>4
<1>. HIDE DEF T
<1>5. \A i \in Nat : i \in T => i + 1 \in T
  BY <1>4
<1>6. \A i \in Nat : i \in T
  BY <1>3, <1>5, NextNumber, SMTT(30)
<1> QED
  BY <1>6 DEF T, NotAbove

\* The chunks of a text add up to it.
LEMMA ChunksAddUp ==
    ASSUME NEW n \in Nat
    PROVE  SumOf(ChunkList(n)) = n
<1>1. Counted(n)
  BY CountProperties
<1>2. PICK k \in Nat : k = ChunkCount(n)
  BY <1>1 DEF Counted
<1>3. PICK c \in Seq(Nat) : c = ChunkList(n)
  BY ChunksAreListed
<1>4. c = [i \in 1..k |-> IF i < k THEN 3000 ELSE LastChunk(n)]
  BY <1>2, <1>3 DEF ChunkList, ChunkSize
<1>5. Len(c) = k
  BY <1>4, LenProperties
<1>6. CASE k = 0
  <2>1. n = 0
    BY <1>1, <1>2, <1>6 DEF Counted
  <2>2. Sums(c)[0] = 0
    BY SumsUnfold
  <2> QED
    BY <1>3, <1>5, <1>6, <2>1, <2>2 DEF SumOf
<1>7. CASE k > 0
  <2>1. PICK j \in Nat : k = j + 1
    BY <1>7
  <2>2. \A i \in 1..j : c[i] = 3000
    BY <1>4, <2>1
  <2>3. Sums(c)[j] = 3000 * j
    BY <1>5, <2>1, <2>2, SumsOfFull
  <2>4. c[k] = LastChunk(n)
    BY <1>4, <2>1
  <2>5. k \in 1..Len(c) /\ k - 1 = j
    BY <1>5, <2>1
  <2>6. Sums(c)[k] = Sums(c)[j] + LastChunk(n)
    BY <2>4, <2>5, SumsUnfold
  <2>7. n = 3000 * j + LastChunk(n)
    BY <1>1, <1>2, <2>5 DEF Counted
  <2>8. Sums(c)[k] = n
    BY <2>3, <2>6, <2>7
  <2> QED
    BY <1>3, <1>5, <2>8 DEF SumOf
<1> QED
  BY <1>6, <1>7

\* One text.
Framed(t) ==
    LET frames == LZFcompress_data(t.length, t.answers) IN
    /\ SumOf([i \in DOMAIN frames |-> frames[i].us]) = t.length
    /\ \A i \in DOMAIN frames : frames[i].body \in 1 .. frames[i].us
    /\ t.length < BLOCKSIZE =>
         /\ Ends(t.length)
         /\ \A i \in DOMAIN frames : MAX_HDR_SIZE + frames[i].us <= BufferSize
         /\ BLOCKSIZE <= SafeBlock => OutputPtr(frames) + 1 <= BufferSize

\* Any text, whatever the compressor answers within its room.
LEMMA TextIsFramed ==
    ASSUME NEW t \in [length : Nat, answers : Seq(Nat)], IsText(t)
    PROVE  Framed(t)
<1>1. PICK n \in Nat, a \in Seq(Nat) : n = t.length /\ a = t.answers
  OBVIOUS
<1>2. Counted(n)
  BY CountProperties
<1>3. PICK k \in Nat : k = ChunkCount(n)
  BY <1>2 DEF Counted
<1>4. PICK c \in Seq(Nat) : c = Chunks[n] /\ c = ChunkList(n)
  BY ChunksAreListed
<1>. HIDE DEF Chunks
<1>5. c = [i \in 1..k |-> IF i < k THEN 3000 ELSE LastChunk(n)]
  BY <1>3, <1>4 DEF ChunkList, ChunkSize
<1>6. Len(c) = k /\ DOMAIN c = 1..k
  BY <1>5, LenProperties
<1>7. Len(a) = k /\ \A i \in DOMAIN a : a[i] <= Room(c[i])
  BY <1>1, <1>4, <1>6 DEF IsText
<1>8. ASSUME NEW i \in 1..k
      PROVE  c[i] \in Nat /\ 1 <= c[i] /\ c[i] <= 3000 /\ a[i] \in Nat /\ a[i] <= Room(c[i])
  <2>1. i \in DOMAIN a /\ a[i] \in Nat
    BY <1>7, LenProperties, ElementOfSeq
  <2>2. n > 0
    BY <1>2, <1>3 DEF Counted
  <2>3. LastChunk(n) \in 1..3000
    BY <1>2, <2>2 DEF Counted
  <2>4. PICK v \in Nat : v = c[i]
    <3>1. i \in 1..Len(c)
      BY <1>6
    <3> QED
      BY <3>1, ElementOfSeq
  <2>5. v = 3000 \/ v = LastChunk(n)
    BY <1>5, <2>4
  <2>6. 1 <= v /\ v <= 3000
    <3>1. CASE v = 3000
      BY <3>1
    <3>2. CASE v = LastChunk(n)
      <4>1. v \in 1..3000
        BY <2>3, <3>2
      <4> QED
        BY <4>1
    <3> QED
      BY <2>5, <3>1, <3>2
  <2>7. a[i] <= Room(c[i])
    BY <1>7, <2>1
  <2> QED
    BY <2>1, <2>4, <2>6, <2>7
<1>9. PICK fr : fr = [i \in 1..k |-> Frame(c[i], a[i])]
  OBVIOUS
<1>10. fr = LZFcompress_data(t.length, t.answers)
  BY <1>1, <1>4, <1>6, <1>9 DEF LZFcompress_data
<1>11. ASSUME NEW i \in 1..k PROVE FrameOf(c[i], a[i], fr[i])
  <2>1. c[i] \in Nat /\ 1 <= c[i] /\ c[i] <= 3000 /\ a[i] \in Nat /\ a[i] <= Room(c[i])
    BY <1>8
  <2>2. FrameOf(c[i], a[i], Frame(c[i], a[i]))
    BY <2>1, FrameBounds
  <2>3. fr[i] = Frame(c[i], a[i])
    BY <1>9
  <2> QED
    BY <2>2, <2>3
<1>12. DOMAIN fr = 1..k
  BY <1>9
<1>13. PICK us : us = [i \in DOMAIN fr |-> fr[i].us]
  OBVIOUS
<1>14. us = c
  <2>1. \A i \in 1..k : us[i] = c[i]
    BY <1>11, <1>12, <1>13 DEF FrameOf
  <2>2. us = [i \in 1..k |-> us[i]] /\ c = [i \in 1..k |-> c[i]]
    BY <1>5, <1>12, <1>13
  <2> QED
    BY <2>1, <2>2
<1>15. SumOf(us) = n
  BY <1>4, <1>14, ChunksAddUp
<1>16. \A i \in 1..k : fr[i].body \in 1..fr[i].us
  BY <1>11 DEF FrameOf
<1>17. PICK l : l = [i \in DOMAIN fr |-> fr[i].len]
  OBVIOUS
<1>18. \A i \in 1..k : l[i] \in Nat /\ l[i] <= c[i] + 7 /\ (c[i] = 3000 => l[i] <= 3005)
  BY <1>11, <1>12, <1>17 DEF FrameOf
<1>19. l \in Seq(Nat) /\ Len(l) = k
  <2>1. DOMAIN l = 1..k /\ l = [i \in 1..k |-> l[i]]
    BY <1>12, <1>17
  <2>2. \A i \in 1..k : l[i] \in Nat
    BY <1>18
  <2>3. l \in [1..k -> Nat]
    BY <2>1, <2>2
  <2>4. l \in Seq(Nat)
    BY <2>3, SeqDef
  <2> QED
    BY <2>1, <2>4, LenProperties
<1>20. ASSUME n < BLOCKSIZE, BLOCKSIZE <= SafeBlock
       PROVE  SumOf(l) + 1 <= BufferSize
  <2>1. BLOCKSIZE \in Nat /\ BLOCKSIZE <= 12001
    BY <1>20, WireAssumption DEF SafeBlock
  <2>2. BufferSize = BLOCKSIZE + 23
    BY <2>1 DEF BufferSize, MAX_HDR_SIZE
  <2>3. CASE k = 0
    <3>1. Sums(l)[0] = 0
      BY <1>19, SumsUnfold
    <3>2. SumOf(l) = 0
      BY <1>19, <2>3, <3>1 DEF SumOf
    <3> QED
      BY <2>1, <2>2, <3>2
  <2>4. CASE k > 0
    <3>1. PICK j \in Nat : k = j + 1
      BY <2>4
    <3>2. n <= 12000
      <4>1. n < BLOCKSIZE
        BY <1>20
      <4> QED
        BY <2>1, <4>1, SMT
    <3>3. k <= 4
      BY <1>2, <1>3, <3>2 DEF Counted
    <3>4. \A i \in 1..j : l[i] <= 3005
      <4>1. ASSUME NEW i \in 1..j PROVE i \in 1..k /\ c[i] = 3000
        BY <1>5, <3>1
      <4> QED
        BY <1>18, <4>1
    <3>5. Sums(l)[j] \in Nat /\ Sums(l)[j] <= 3005 * j
      <4>1. j < Len(l)
        BY <1>19, <3>1
      <4>2. l \in Seq(Nat) /\ j \in Nat
        BY <1>19
      <4>3. NotAbove(l, j)
        BY <3>4, <4>1, <4>2, SumsOfFrames
      <4> QED
        BY <4>3 DEF NotAbove
    <3>6. k \in 1..Len(l) /\ k - 1 = j /\ k \in 1..k
      BY <1>19, <3>1
    <3>7. Sums(l)[k] = Sums(l)[j] + l[k]
      BY <1>19, <3>6, SumsUnfold
    <3>8. PICK v \in Nat : v = c[k] /\ l[k] \in Nat /\ l[k] <= v + 7
      <4>1. c[k] \in Nat
        BY <1>8, <3>6
      <4> QED
        BY <1>18, <3>6, <4>1
    <3>9. n = 3000 * j + v
      <4>1. v = LastChunk(n)
        BY <1>5, <3>6, <3>8
      <4> QED
        BY <1>2, <1>3, <3>6, <4>1 DEF Counted
    <3>10. SumOf(l) = Sums(l)[k]
      BY <1>19 DEF SumOf
    <3>11. PICK x \in Nat, y \in Nat, w \in Nat : x = Sums(l)[j] /\ y = l[k] /\ w = x + y
      BY <3>5, <3>8, SMTT(30)
    <3>12. w = Sums(l)[k]
      BY <3>7, <3>11
    <3>13. x <= 3005 * j /\ y <= v + 7
      BY <3>5, <3>8, <3>11
    <3>14. w + 1 <= BLOCKSIZE + 23
      <4>1. n < BLOCKSIZE
        BY <1>20
      <4> QED
        <5>1. w <= 3005 * j + v + 7
          BY <3>11, <3>13, SMTT(30)
        <5>2. w <= n + 5 * j + 7
          BY <3>9, <5>1
        <5>3. j <= 3
          BY <3>1, <3>3
        <5>4. w <= n + 22
          BY <5>2, <5>3
        <5>5. PICK b \in Nat : b = BLOCKSIZE
          BY <2>1
        <5> QED
          BY <4>1, <5>4, <5>5
    <3> QED
      BY <2>2, <3>10, <3>12, <3>14
  <2> QED
    BY <2>3, <2>4
<1>21. OutputPtr(fr) = SumOf(l)
  BY <1>17 DEF OutputPtr
<1>22. ASSUME n < BLOCKSIZE
       PROVE  Ends(n) /\ \A i \in 1..k : MAX_HDR_SIZE + fr[i].us <= BufferSize
  <2>1. BLOCKSIZE \in Nat /\ n # BLOCKSIZE
    BY <1>22, WireAssumption
  <2>2. ASSUME NEW i \in 1..k PROVE c[i] \in Nat /\ c[i] <= n
    <3>1. c[i] \in Nat /\ k \in Nat \ {0} /\ n > 0
      BY <1>2, <1>3, <1>8 DEF Counted
    <3>2. n = 3000 * (k - 1) + LastChunk(n) /\ LastChunk(n) \in 1..3000
      BY <1>2, <1>3, <3>1 DEF Counted
    <3>3. PICK v \in Nat : v = c[i]
      BY <3>1
    <3>4. PICK last \in Nat : last = LastChunk(n)
      <4>1. LastChunk(n) \in Nat
        BY <1>2, <3>1 DEF Counted
      <4> QED
        BY <4>1
    <3>5. CASE i = k
      BY <1>5, <3>1, <3>2, <3>3, <3>4, <3>5
    <3>6. CASE i # k
      <4>1. v = 3000 /\ k >= 2
        BY <1>5, <3>3, <3>6
      <4> QED
        BY <3>1, <3>2, <3>3, <3>4, <4>1
    <3> QED
      BY <3>5, <3>6
  <2>3. ASSUME NEW i \in 1..k PROVE fr[i].us = c[i]
    <3>1. us[i] = fr[i].us
      BY <1>12, <1>13
    <3> QED
      BY <1>14, <3>1
  <2>4. ASSUME NEW i \in 1..k PROVE MAX_HDR_SIZE + fr[i].us <= BufferSize
    <3>1. PICK b \in Nat : b = BLOCKSIZE
      BY <2>1
    <3>2. PICK v \in Nat : v = fr[i].us /\ v <= n
      <4>1. c[i] \in Nat /\ c[i] <= n /\ fr[i].us = c[i]
        BY <2>2, <2>3
      <4> QED
        BY <4>1
    <3>3. n < b /\ BufferSize = b + 23
      BY <1>22, <3>1 DEF BufferSize, MAX_HDR_SIZE
    <3>4. 7 + v <= b + 23
      BY <3>2, <3>3
    <3> QED
      BY <3>2, <3>3, <3>4 DEF MAX_HDR_SIZE
  <2> QED
    BY <2>1, <2>4 DEF Ends
<1> QED
  BY <1>1, <1>10, <1>12, <1>13, <1>15, <1>16, <1>20, <1>21, <1>22 DEF Framed

\* Whatever the compressor answers and however long the text is, the frames of
\* LZFcompress_data add up to it and none is empty; for every text that is
\* shorter than a block it ends and writes beyond none of its arrays, those of
\* the caller included as long as BLOCKSIZE is at most SafeBlock.
THEOREM FramesFitHolds == Spec => []FramesFit
<1>1. Known => FramesFit
  <2>. SUFFICES ASSUME Known, Is("compress") PROVE Framed(input.value)
    BY DEF FramesFit, Framed
  <2>1. PICK t \in Texts : t = input.value
    BY DEF Known
  <2>2. t \in [length : Nat, answers : Seq(Nat)] /\ IsText(t)
    BY WireAssumption DEF WireAssumption
  <2>3. Framed(t)
    BY <2>2, TextIsFramed
  <2> QED
    BY <2>1, <2>3
<1> QED
  BY <1>1, KnownHolds, PTL

-----------------------------------------------------------------------------
(* Topics: the walk *)

\* e is the last position of the level that n is in.
Ending(name, n, e) ==
    /\ e \in Nat /\ n <= e /\ e <= Len(name)
    /\ \A i \in Nat : n < i /\ i <= e => name[i] # "/"
    /\ e < Len(name) => name[e + 1] = "/"

\* A finite set of numbers has a maximum, and Max chooses it.
LEMMA LevelEndIs ==
    ASSUME NEW C, NEW name \in Seq(C), NEW n \in Nat, 1 <= n, n <= Len(name)
    PROVE  Ending(name, n, LevelEnd(name, n))
<1>1. PICK len \in Nat : len = Len(name)
  BY LenProperties
<1>. DEFINE S == {e \in n .. Len(name) : \A i \in n + 1 .. e : name[i] # "/"}
            D == {len - e : e \in S}
<1>2. n \in S
  <2>1. \A i \in n + 1 .. n : FALSE
    OBVIOUS
  <2> QED
    BY <1>1, <2>1
<1>3. \A e \in S : e \in Nat /\ n <= e /\ e <= len
  BY <1>1
<1>4. PICK d \in D : \A c \in D : d <= c
  <2>1. D \in SUBSET Nat /\ D # {}
    BY <1>1, <1>2
  <2>. HIDE DEF D
  <2> QED
    BY <2>1, LeastOf
<1>5. PICK m \in S : d = len - m
  OBVIOUS
<1>6. \A e \in S : m >= e
  <2>1. ASSUME NEW e \in S PROVE m >= e
    <3>1. len - e \in D
      OBVIOUS
    <3>2. len - m <= len - e
      BY <1>4, <1>5, <3>1
    <3> QED
      BY <1>1, <1>3, <3>2
  <2> QED
    BY <2>1
<1>7. PICK e : e = LevelEnd(name, n)
  OBVIOUS
<1>8. e \in S /\ \A c \in S : e >= c
  <2>1. e = CHOOSE c \in S : \A b \in S : c >= b
    BY <1>7 DEF LevelEnd, Max
  <2>. HIDE DEF S
  <2> QED
    BY <1>6, <2>1
<1>9. e \in Nat /\ n <= e /\ e <= len
  BY <1>3, <1>8
<1>10. \A i \in Nat : n < i /\ i <= e => name[i] # "/"
  <2>1. \A i \in n + 1 .. e : name[i] # "/"
    BY <1>8
  <2>2. \A i \in Nat : n < i /\ i <= e => i \in n + 1 .. e
    BY <1>9
  <2> QED
    BY <2>1, <2>2
<1>11. ASSUME e < len, name[e + 1] # "/" PROVE FALSE
  <2>1. \A i \in n + 1 .. e + 1 : name[i] # "/"
    <3>1. \A i \in n + 1 .. e + 1 : i = e + 1 \/ (i \in Nat /\ n < i /\ i <= e)
      BY <1>9
    <3> QED
      BY <1>10, <1>11, <3>1
  <2>2. e + 1 \in n .. Len(name)
    BY <1>1, <1>9, <1>11
  <2>3. e + 1 \in S
    BY <2>1, <2>2
  <2> QED
    BY <1>8, <1>9, <2>3
<1> QED
  BY <1>1, <1>7, <1>9, <1>10, <1>11 DEF Ending

\* One turn of the loop, on character c of the filter.
Moved(name, c, n) ==
    IF n \in 1 .. Len(name) /\ Fits(c, name[n]) THEN Skip(name, c, n) + 1 ELSE 0

\* What Curn is.
Walk(filter, name, at) ==
    /\ at[1] = 1
    /\ \A f \in 1 .. Len(filter) : at[f] \in Nat /\ at[f + 1] = Moved(name, filter[f], at[f])

\* A turn yields a position or 0.
LEMMA MovedTyped ==
    ASSUME NEW C, NEW name \in Seq(C), NEW c, NEW n \in Nat
    PROVE  Moved(name, c, n) \in Nat
<1>1. PICK len \in Nat : len = Len(name)
  BY LenProperties
<1>2. CASE n \in 1..len
  <2>1. 1 <= n /\ n <= Len(name)
    BY <1>1, <1>2
  <2>2. LevelEnd(name, n) \in Nat
    BY <2>1, LevelEndIs DEF Ending
  <2>3. Skip(name, c, n) \in Nat
    BY <1>1, <2>2 DEF Skip
  <2> QED
    BY <2>3 DEF Moved
<1>3. CASE n \notin 1..len
  BY <1>1, <1>3 DEF Moved
<1> QED
  BY <1>2, <1>3

\* The recursion that Curn is chosen by has a solution, so Curn is one.
LEMMA CurnUnfolds ==
    ASSUME NEW C, NEW filter \in Seq(C), NEW name \in Seq(C)
    PROVE  Walk(filter, name, Curn(filter, name))
<1>1. PICK len \in Nat : len = Len(filter)
  BY LenProperties
<1>2. PICK c : c = [i \in Nat |-> filter[i + 1]]
  OBVIOUS
<1>3. PICK step : step = [p \in Nat \X Nat |-> Moved(name, c[p[1]], p[2])]
  OBVIOUS
<1>4. step \in [Nat \X Nat -> Nat]
  <2>1. ASSUME NEW p \in Nat \X Nat PROVE Moved(name, c[p[1]], p[2]) \in Nat
    <3>1. p[2] \in Nat
      OBVIOUS
    <3> QED
      BY <3>1, MovedTyped
  <2> QED
    BY <1>3, <2>1
<1>5. PICK h \in [Nat -> Nat] : h[0] = 1 /\ \A n \in Nat : h[n + 1] = step[<<n, h[n]>>]
  <2>1. 1 \in Nat
    OBVIOUS
  <2>2. Iterable(Nat, 1, step)
    BY <1>4, <2>1, Iteration
  <2> QED
    BY <2>2 DEF Iterable
<1>6. \A n \in Nat : h[n + 1] = Moved(name, filter[n + 1], h[n])
  <2>1. ASSUME NEW n \in Nat PROVE h[n + 1] = Moved(name, filter[n + 1], h[n])
    <3>1. PICK p : p = <<n, h[n]>>
      OBVIOUS
    <3>2. h[n] \in Nat
      OBVIOUS
    <3>3. p \in Nat \X Nat /\ p[1] = n /\ p[2] = h[n]
      BY <3>1, <3>2
    <3>4. h[n + 1] = step[p]
      BY <1>5, <3>1
    <3>5. step[p] = Moved(name, c[p[1]], p[2])
      BY <1>3, <3>3
    <3>6. c[n] = filter[n + 1]
      BY <1>2
    <3> QED
      BY <3>3, <3>4, <3>5, <3>6
  <2> QED
    BY <2>1
<1>7. PICK g : g = [f \in 1 .. len + 1 |-> h[f - 1]]
  OBVIOUS
<1>8. ASSUME NEW f \in 1 .. len + 1
      PROVE  g[f] = IF f = 1 THEN 1 ELSE Moved(name, filter[f - 1], g[f - 1])
  <2>1. CASE f = 1
    <3>1. g[1] = h[0]
      BY <1>7, <2>1
    <3> QED
      BY <1>5, <2>1, <3>1
  <2>2. CASE f # 1
    <3>1. PICK n \in Nat : n = f - 2
      BY <2>2
    <3>2. f - 1 = n + 1 /\ f - 1 \in 1 .. len + 1 /\ (f - 1) - 1 = n
      BY <2>2, <3>1
    <3>3. g[f] = h[n + 1] /\ g[f - 1] = h[n]
      BY <1>7, <3>2
    <3>4. h[n + 1] = Moved(name, filter[n + 1], h[n])
      BY <1>6
    <3> QED
      BY <2>2, <3>2, <3>3, <3>4
  <2> QED
    BY <2>1, <2>2
<1>9. g = [f \in 1 .. Len(filter) + 1 |->
             IF f = 1 THEN 1 ELSE Moved(name, filter[f - 1], g[f - 1])]
  BY <1>1, <1>7, <1>8
<1>10. Curn(filter, name) =
         CHOOSE k : k = [f \in 1 .. Len(filter) + 1 |->
                           IF f = 1 THEN 1 ELSE Moved(name, filter[f - 1], k[f - 1])]
  BY DEF Curn, Moved
<1>11. PICK u : u = Curn(filter, name)
  OBVIOUS
<1>12. u = [f \in 1 .. Len(filter) + 1 |->
              IF f = 1 THEN 1 ELSE Moved(name, filter[f - 1], u[f - 1])]
  BY <1>9, <1>10, <1>11, Zenon
<1>13. PICK v : v = [f \in 1 .. Len(filter) + 1 |->
                       IF f = 1 THEN 1 ELSE Moved(name, filter[f - 1], u[f - 1])]
  OBVIOUS
<1>14. v[1] = 1
  <2>1. 1 \in 1 .. Len(filter) + 1
    BY <1>1
  <2> QED
    BY <1>13, <2>1
<1>15. ASSUME NEW f \in 1 .. len PROVE v[f + 1] = Moved(name, filter[f], u[f])
  <2>1. f + 1 \in 1 .. Len(filter) + 1 /\ f + 1 # 1 /\ (f + 1) - 1 = f
    BY <1>1
  <2> QED
    BY <1>13, <2>1
<1>16. u = v
  BY <1>12, <1>13, Zenon
<1>. DEFINE T == {n \in Nat : n < len => u[n + 1] \in Nat}
<1>17. 0 \in T
  BY <1>14, <1>16, SMTT(30)
<1>18. ASSUME NEW n \in Nat, n \in T PROVE n + 1 \in T
  <2>. SUFFICES ASSUME n + 1 < len PROVE u[(n + 1) + 1] \in Nat
    OBVIOUS
  <2>1. u[n + 1] \in Nat /\ n + 1 \in 1 .. len
    BY <1>18
  <2>2. u[(n + 1) + 1] = Moved(name, filter[n + 1], u[n + 1])
    BY <1>15, <1>16, <2>1
  <2> QED
    BY <2>1, <2>2, MovedTyped
<1>. HIDE DEF T
<1>19. \A n \in Nat : n \in T
  BY <1>17, <1>18, NextNumber
<1>20. ASSUME NEW f \in 1 .. len PROVE u[f] \in Nat
  <2>1. f - 1 \in Nat /\ f - 1 < len /\ (f - 1) + 1 = f
    OBVIOUS
  <2> QED
    BY <1>19, <2>1 DEF T
<1> QED
  BY <1>1, <1>11, <1>14, <1>15, <1>16, <1>20 DEF Walk

-----------------------------------------------------------------------------
(* Topics: the texts *)

\* A text and one more level.
Extended(text, level) == text \o <<"/">> \o level

\* Where the text, the separator and the level are.
LEMMA ExtendedBy ==
    ASSUME NEW C, "/" \in C, NEW text \in Seq(C), NEW level \in Seq(C)
    PROVE  /\ Extended(text, level) \in Seq(C)
           /\ Len(Extended(text, level)) = Len(text) + 1 + Len(level)
           /\ \A i \in 1 .. Len(text) : Extended(text, level)[i] = text[i]
           /\ Extended(text, level)[Len(text) + 1] = "/"
           /\ \A i \in 1 .. Len(level) : Extended(text, level)[Len(text) + 1 + i] = level[i]
<1>1. PICK m \in Nat, n \in Nat : m = Len(text) /\ n = Len(level)
  BY LenProperties
<1>2. PICK sep : sep = <<"/">>
  OBVIOUS
<1>3. sep \in Seq(C) /\ Len(sep) = 1 /\ sep[1] = "/"
  BY <1>2
<1>4. PICK a : a = text \o sep
  OBVIOUS
<1>5. /\ a \in Seq(C) /\ Len(a) = m + 1
      /\ \A i \in 1 .. m + 1 : a[i] = IF i <= m THEN text[i] ELSE sep[i - m]
  <2>1. /\ text \o sep \in Seq(C) /\ Len(text \o sep) = Len(text) + Len(sep)
        /\ \A i \in 1..(Len(text) + Len(sep)) :
              (text \o sep)[i] = IF i <= Len(text) THEN text[i] ELSE sep[i - Len(text)]
    BY <1>3, ConcatProperties
  <2> QED
    BY <1>1, <1>3, <1>4, <2>1
<1>6. PICK b : b = a \o level
  OBVIOUS
<1>7. /\ b \in Seq(C) /\ Len(b) = m + 1 + n
      /\ \A i \in 1 .. m + 1 + n : b[i] = IF i <= m + 1 THEN a[i] ELSE level[i - (m + 1)]
  <2>1. /\ a \o level \in Seq(C) /\ Len(a \o level) = Len(a) + Len(level)
        /\ \A i \in 1..(Len(a) + Len(level)) :
              (a \o level)[i] = IF i <= Len(a) THEN a[i] ELSE level[i - Len(a)]
    BY <1>5, ConcatProperties
  <2> QED
    BY <1>1, <1>5, <1>6, <2>1
<1>8. b = Extended(text, level)
  BY <1>2, <1>4, <1>6 DEF Extended
<1>9. ASSUME NEW i \in 1 .. m PROVE b[i] = text[i]
  <2>1. i \in 1 .. m + 1 + n /\ i \in 1 .. m + 1 /\ i <= m /\ i <= m + 1
    OBVIOUS
  <2> QED
    BY <1>5, <1>7, <2>1
<1>10. b[m + 1] = "/"
  <2>1. m + 1 \in 1 .. m + 1 + n /\ m + 1 \in 1 .. m + 1 /\ ~(m + 1 <= m) /\ (m + 1) - m = 1
    OBVIOUS
  <2> QED
    BY <1>3, <1>5, <1>7, <2>1
<1>11. ASSUME NEW i \in 1 .. n PROVE b[m + 1 + i] = level[i]
  <2>1. m + 1 + i \in 1 .. m + 1 + n /\ ~(m + 1 + i <= m + 1) /\ (m + 1 + i) - (m + 1) = i
    OBVIOUS
  <2> QED
    BY <1>7, <2>1
<1> QED
  BY <1>1, <1>7, <1>8, <1>9, <1>10, <1>11

\* What UpTo is.
Growing(levels, C, u) ==
    /\ u[1] = levels[1]
    /\ \A k \in 1 .. Len(levels) : u[k] \in Seq(C)
    /\ \A k \in 1 .. Len(levels) - 1 : u[k + 1] = Extended(u[k], levels[k + 1])

\* The recursion that UpTo is chosen by has a solution, so UpTo is one.
LEMMA UpToUnfolds ==
    ASSUME NEW C, "/" \in C, NEW levels \in Seq(Seq(C)), Len(levels) >= 1
    PROVE  Growing(levels, C, UpTo(levels))
<1>1. PICK len \in Nat : len = Len(levels) /\ len >= 1
  BY LenProperties
<1>2. PICK l : l = [i \in Nat |-> IF i + 2 \in 1 .. len THEN levels[i + 2] ELSE <<>>]
  OBVIOUS
<1>3. \A i \in Nat : l[i] \in Seq(C)
  <2>1. \A i \in 1 .. len : levels[i] \in Seq(C)
    BY <1>1, ElementOfSeq
  <2>2. <<>> \in Seq(C)
    OBVIOUS
  <2> QED
    BY <1>2, <2>1, <2>2
<1>4. PICK step : step = [p \in Nat \X Seq(C) |-> Extended(p[2], l[p[1]])]
  OBVIOUS
<1>5. step \in [Nat \X Seq(C) -> Seq(C)]
  <2>1. ASSUME NEW p \in Nat \X Seq(C) PROVE Extended(p[2], l[p[1]]) \in Seq(C)
    <3>1. PICK i \in Nat, text \in Seq(C), level \in Seq(C) : i = p[1] /\ text = p[2] /\ level = l[i]
      BY <1>3
    <3>2. Extended(text, level) \in Seq(C)
      BY ExtendedBy
    <3> QED
      BY <3>1, <3>2
  <2> QED
    BY <1>4, <2>1
<1>6. PICK h \in [Nat -> Seq(C)] :
        h[0] = levels[1] /\ \A n \in Nat : h[n + 1] = step[<<n, h[n]>>]
  <2>1. levels[1] \in Seq(C)
    BY <1>1, ElementOfSeq
  <2>2. Iterable(Seq(C), levels[1], step)
    BY <1>5, <2>1, Iteration
  <2> QED
    BY <2>2 DEF Iterable
<1>7. \A n \in Nat : h[n + 1] = Extended(h[n], l[n])
  <2>1. ASSUME NEW n \in Nat PROVE h[n + 1] = Extended(h[n], l[n])
    <3>1. PICK p : p = <<n, h[n]>>
      OBVIOUS
    <3>2. h[n] \in Seq(C)
      OBVIOUS
    <3>3. p \in Nat \X Seq(C) /\ p[1] = n /\ p[2] = h[n]
      BY <3>1, <3>2
    <3>4. h[n + 1] = step[p]
      BY <1>6, <3>1
    <3>5. step[p] = Extended(p[2], l[p[1]])
      BY <1>4, <3>3
    <3> QED
      BY <3>3, <3>4, <3>5
  <2> QED
    BY <2>1
<1>8. PICK g : g = [k \in 1 .. len |-> h[k - 1]]
  OBVIOUS
<1>9. ASSUME NEW k \in 1 .. len
      PROVE  g[k] = IF k = 1 THEN levels[1] ELSE Extended(g[k - 1], levels[k])
  <2>1. CASE k = 1
    <3>1. g[1] = h[0]
      BY <1>8, <2>1
    <3> QED
      BY <1>6, <2>1, <3>1
  <2>2. CASE k # 1
    <3>1. PICK n \in Nat : n = k - 2
      BY <2>2
    <3>2. k - 1 = n + 1 /\ k - 1 \in 1 .. len /\ (k - 1) - 1 = n /\ n + 2 = k
      BY <2>2, <3>1
    <3>3. g[k] = h[n + 1] /\ g[k - 1] = h[n]
      BY <1>8, <3>2
    <3>4. l[n] = levels[k]
      BY <1>2, <3>2
    <3>5. h[n + 1] = Extended(h[n], l[n])
      BY <1>7
    <3> QED
      BY <2>2, <3>3, <3>4, <3>5
  <2> QED
    BY <2>1, <2>2
<1>10. g = [k \in 1 .. Len(levels) |->
              IF k = 1 THEN levels[1] ELSE Extended(g[k - 1], levels[k])]
  BY <1>1, <1>8, <1>9
<1>11. UpTo(levels) =
         CHOOSE f : f = [k \in 1 .. Len(levels) |->
                           IF k = 1 THEN levels[1] ELSE Extended(f[k - 1], levels[k])]
  BY DEF UpTo, Extended
<1>12. PICK u : u = UpTo(levels)
  OBVIOUS
<1>13. u = [k \in 1 .. Len(levels) |->
              IF k = 1 THEN levels[1] ELSE Extended(u[k - 1], levels[k])]
  BY <1>10, <1>11, <1>12, Zenon
<1>14. PICK v : v = [k \in 1 .. Len(levels) |->
                       IF k = 1 THEN levels[1] ELSE Extended(u[k - 1], levels[k])]
  OBVIOUS
<1>15. v[1] = levels[1]
  <2>1. 1 \in 1 .. Len(levels)
    BY <1>1
  <2> QED
    BY <1>14, <2>1
<1>16. ASSUME NEW k \in 1 .. len - 1 PROVE v[k + 1] = Extended(u[k], levels[k + 1])
  <2>1. k + 1 \in 1 .. Len(levels) /\ k + 1 # 1 /\ (k + 1) - 1 = k
    BY <1>1
  <2> QED
    BY <1>14, <2>1
<1>17. u = v
  BY <1>13, <1>14, Zenon
<1>. DEFINE T == {n \in Nat : n < len => u[n + 1] \in Seq(C)}
<1>18. 0 \in T
  <2>1. levels[1] \in Seq(C)
    BY <1>1, ElementOfSeq
  <2>2. u[1] \in Seq(C) /\ 0 + 1 = 1
    BY <1>15, <1>17, <2>1, SMTT(30)
  <2>3. u[0 + 1] \in Seq(C)
    BY <2>2
  <2> QED
    BY <2>3
<1>19. ASSUME NEW n \in Nat, n \in T PROVE n + 1 \in T
  <2>. SUFFICES ASSUME n + 1 < len PROVE u[(n + 1) + 1] \in Seq(C)
    OBVIOUS
  <2>0. n < len
    OBVIOUS
  <2>1. u[n + 1] \in Seq(C) /\ n + 1 \in 1 .. len - 1 /\ (n + 1) + 1 \in 1 .. Len(levels)
    <3>1. n + 1 \in 1 .. len - 1 /\ (n + 1) + 1 \in 1 .. Len(levels)
      BY <1>1
    <3>2. u[n + 1] \in Seq(C)
      BY <1>19, <2>0
    <3> QED
      BY <3>1, <3>2
  <2>2. u[(n + 1) + 1] = Extended(u[n + 1], levels[(n + 1) + 1])
    BY <1>16, <1>17, <2>1
  <2>3. levels[(n + 1) + 1] \in Seq(C)
    BY <2>1, ElementOfSeq
  <2>4. Extended(u[n + 1], levels[(n + 1) + 1]) \in Seq(C)
    BY <2>1, <2>3, ExtendedBy
  <2> QED
    BY <2>2, <2>4
<1>. HIDE DEF T
<1>20. \A n \in Nat : n \in T
  BY <1>18, <1>19, NextNumber
<1>21. ASSUME NEW k \in 1 .. len PROVE u[k] \in Seq(C)
  <2>1. k - 1 \in Nat /\ k - 1 < len /\ (k - 1) + 1 = k
    OBVIOUS
  <2> QED
    BY <1>20, <2>1 DEF T
<1> QED
  BY <1>1, <1>12, <1>15, <1>16, <1>17, <1>21 DEF Growing

\* Level k in the text: it begins at st[k], and a separator follows it, if a
\* level does.
LaidOut(text, levels, st, k) ==
    /\ st[k] >= 1 /\ st[k + 1] = st[k] + Len(levels[k]) + 1 /\ st[k + 1] <= Len(text) + 2
    /\ \A i \in 0 .. Len(levels[k]) - 1 : text[st[k] + i] = levels[k][i + 1]
    /\ k < Len(levels) => st[k + 1] <= Len(text) + 1 /\ text[st[k + 1] - 1] = "/"

Layout(text, levels, st) ==
    /\ st \in [1 .. Len(levels) + 1 -> Nat] /\ st[1] = 1
    /\ st[Len(levels) + 1] = Len(text) + 2
    /\ \A k \in 1 .. Len(levels) : LaidOut(text, levels, st, k)

\* The later texts begin with the earlier.
Begins(a, b) == Len(a) <= Len(b) /\ \A i \in 1 .. Len(a) : b[i] = a[i]

\* Each text is the beginning of all that come after it.
LEMMA TextsGrow ==
    ASSUME NEW C, "/" \in C, NEW levels \in Seq(Seq(C)), Len(levels) >= 1,
           NEW u, Growing(levels, C, u), NEW k \in 1 .. Len(levels)
    PROVE  \A m \in k .. Len(levels) : Begins(u[k], u[m])
<1>1. PICK len \in Nat : len = Len(levels) /\ len >= 1
  BY LenProperties
<1>. DEFINE T == {d \in Nat : k + d <= len => Begins(u[k], u[k + d])}
<1>2. \A m \in 1 .. len : u[m] \in Seq(C) /\ Len(u[m]) \in Nat
  BY <1>1, LenProperties DEF Growing
<1>3. 0 \in T
  <2>1. k + 0 = k /\ Len(u[k]) <= Len(u[k])
    BY <1>1, <1>2
  <2> QED
    BY <2>1 DEF Begins
<1>4. ASSUME NEW d \in Nat, d \in T PROVE d + 1 \in T
  <2>. SUFFICES ASSUME k + (d + 1) <= len PROVE Begins(u[k], u[k + (d + 1)])
    OBVIOUS
  <2>1. PICK m \in Nat : m = k + d
    OBVIOUS
  <2>2. m \in 1 .. len - 1 /\ m \in 1 .. len /\ m + 1 \in 1 .. len /\ k + (d + 1) = m + 1
    BY <1>1, <2>1
  <2>3. Begins(u[k], u[m])
    BY <1>4, <2>1, <2>2
  <2>4. PICK a \in Seq(C), b \in Seq(C), level \in Seq(C) :
           a = u[k] /\ b = u[m] /\ level = levels[m + 1]
    <3>1. levels[m + 1] \in Seq(C)
      BY <1>1, <2>2, ElementOfSeq
    <3>2. u[k] \in Seq(C) /\ u[m] \in Seq(C)
      BY <1>1, <1>2, <2>2
    <3> QED
      BY <3>1, <3>2
  <2>5. PICK c : c = Extended(b, level)
    OBVIOUS
  <2>6. u[m + 1] = c
    BY <1>1, <2>2, <2>4, <2>5 DEF Growing
  <2>7. Len(c) = Len(b) + 1 + Len(level) /\ \A i \in 1 .. Len(b) : c[i] = b[i]
    BY <2>5, ExtendedBy
  <2>8. Len(a) <= Len(b) /\ \A i \in 1 .. Len(a) : b[i] = a[i]
    BY <2>3, <2>4 DEF Begins
  <2>9. PICK x \in Nat, y \in Nat, z \in Nat : x = Len(a) /\ y = Len(b) /\ z = Len(level)
    BY LenProperties
  <2>10. x <= y /\ x <= y + 1 + z /\ \A i \in 1 .. x : i \in 1 .. y
    BY <2>8, <2>9
  <2>11. Len(a) <= Len(c) /\ \A i \in 1 .. Len(a) : c[i] = a[i]
    BY <2>7, <2>8, <2>9, <2>10
  <2> QED
    BY <2>2, <2>4, <2>6, <2>11 DEF Begins
<1>. HIDE DEF T
<1>5. \A d \in Nat : d \in T
  BY <1>3, <1>4, NextNumber
<1>6. ASSUME NEW m \in k .. Len(levels) PROVE Begins(u[k], u[m])
  <2>1. m - k \in Nat /\ k + (m - k) = m /\ m <= len
    BY <1>1
  <2> QED
    BY <1>5, <2>1 DEF T
<1> QED
  BY <1>6

\* The joined levels lie in the text one behind the other.
LEMMA JoinedLaidOut ==
    ASSUME NEW C, "/" \in C, NEW levels \in Seq(Seq(C)), Len(levels) >= 1
    PROVE  Joined(levels) \in Seq(C) /\ \E st : Layout(Joined(levels), levels, st)
<1>1. PICK len \in Nat : len = Len(levels) /\ len >= 1
  BY LenProperties
<1>2. PICK u : u = UpTo(levels) /\ Growing(levels, C, u)
  BY UpToUnfolds
<1>3. ASSUME NEW k \in 1 .. len PROVE u[k] \in Seq(C) /\ Len(u[k]) \in Nat
  BY <1>1, <1>2, LenProperties DEF Growing
<1>4. ASSUME NEW k \in 1 .. len PROVE levels[k] \in Seq(C) /\ Len(levels[k]) \in Nat
  BY <1>1, ElementOfSeq, LenProperties
<1>5. PICK x \in Seq(C) : x = u[len] /\ x = Joined(levels)
  BY <1>1, <1>2, <1>3 DEF Joined
<1>6. PICK st : st = [k \in 1 .. len + 1 |-> IF k = 1 THEN 1 ELSE Len(u[k - 1]) + 2]
  OBVIOUS
<1>7. st[1] = 1 /\ \A k \in 1 .. len : st[k + 1] = Len(u[k]) + 2
  <2>1. 1 \in 1 .. len + 1
    BY <1>1
  <2>2. \A k \in 1 .. len : k + 1 \in 1 .. len + 1 /\ k + 1 # 1 /\ (k + 1) - 1 = k
    OBVIOUS
  <2> QED
    BY <1>6, <2>1, <2>2
<1>8. st \in [1 .. Len(levels) + 1 -> Nat]
  <2>1. \A k \in 1 .. len + 1 : k = 1 \/ k - 1 \in 1 .. len
    OBVIOUS
  <2>2. \A k \in 1 .. len + 1 : (IF k = 1 THEN 1 ELSE Len(u[k - 1]) + 2) \in Nat
    BY <1>3, <2>1
  <2> QED
    BY <1>1, <1>6, <2>2
<1>9. ASSUME NEW k \in 1 .. len PROVE Begins(u[k], x)
  <2>1. k \in 1 .. Len(levels) /\ len \in k .. Len(levels)
    BY <1>1
  <2> QED
    BY <1>2, <1>5, <2>1, TextsGrow
<1>10. ASSUME NEW k \in 1 .. len PROVE LaidOut(x, levels, st, k)
  <2>1. PICK m \in Nat, n \in Nat, z \in Nat, b \in Nat :
           m = Len(u[k]) /\ n = Len(levels[k]) /\ z = Len(x) /\ b = st[k]
    <3>1. k \in 1 .. Len(levels) + 1
      BY <1>1
    <3>2. st[k] \in Nat
      BY <1>8, <3>1
    <3> QED
      BY <1>3, <1>4, <3>2, LenProperties
  <2>2. m <= z /\ \A i \in 1 .. m : x[i] = u[k][i]
    BY <1>9, <2>1 DEF Begins
  <2>3. b >= 1 /\ m + 2 = b + n + 1 /\ \A i \in 0 .. n - 1 : u[k][b + i] = levels[k][i + 1]
    <3>1. CASE k = 1
      <4>1. b = 1 /\ u[k] = levels[k]
        BY <1>2, <1>7, <2>1, <3>1 DEF Growing
      <4>2. m = n
        BY <2>1, <4>1
      <4>3. \A i \in 0 .. n - 1 : b + i = i + 1
        BY <4>1
      <4> QED
        BY <4>1, <4>2, <4>3
    <3>2. CASE k # 1
      <4>1. PICK j \in 1 .. len - 1 : k = j + 1
        <5>1. k - 1 \in 1 .. len - 1 /\ k = (k - 1) + 1
          BY <3>2
        <5> QED
          BY <5>1
      <4>2. PICK a \in Seq(C), level \in Seq(C) : a = u[j] /\ level = levels[k]
        <5>1. j \in 1 .. len
          OBVIOUS
        <5> QED
          BY <1>3, <1>4, <5>1
      <4>3. PICK e : e = Extended(a, level)
        OBVIOUS
      <4>4. u[k] = e
        BY <1>1, <1>2, <4>1, <4>2, <4>3 DEF Growing
      <4>5. /\ Len(e) = Len(a) + 1 + Len(level)
            /\ \A i \in 1 .. Len(level) : e[Len(a) + 1 + i] = level[i]
        <5>1. a \in Seq(C) /\ level \in Seq(C)
          OBVIOUS
        <5>2. /\ Len(Extended(a, level)) = Len(a) + 1 + Len(level)
              /\ \A i \in 1 .. Len(level) : Extended(a, level)[Len(a) + 1 + i] = level[i]
          BY <5>1, ExtendedBy
        <5> QED
          BY <4>3, <5>2
      <4>6. PICK q \in Nat : q = Len(a)
        BY LenProperties
      <4>7. b = q + 2
        <5>1. j \in 1 .. len
          OBVIOUS
        <5> QED
          BY <1>7, <2>1, <4>1, <4>2, <4>6, <5>1
      <4>8. m = q + 1 + n
        BY <2>1, <4>2, <4>4, <4>5, <4>6
      <4>9. ASSUME NEW i \in 0 .. n - 1 PROVE u[k][b + i] = levels[k][i + 1]
        <5>1. i + 1 \in 1 .. n /\ q + 1 + (i + 1) = b + i
          BY <4>7
        <5>2. e[q + 1 + (i + 1)] = level[i + 1]
          BY <2>1, <4>2, <4>5, <4>6, <5>1
        <5> QED
          BY <4>2, <4>4, <5>1, <5>2
      <4> QED
        BY <4>7, <4>8, <4>9
    <3> QED
      BY <3>1, <3>2
  <2>4. st[k + 1] = m + 2
    BY <1>7, <2>1
  <2>5. ASSUME NEW i \in 0 .. n - 1 PROVE x[b + i] = levels[k][i + 1]
    <3>1. b + i \in 1 .. m
      BY <2>3
    <3> QED
      BY <2>2, <2>3, <3>1
  <2>6. ASSUME k < len PROVE m + 2 <= z + 1 /\ x[(m + 2) - 1] = "/"
    <3>1. k + 1 \in 1 .. len /\ k \in 1 .. len - 1
      BY <2>6
    <3>2. PICK a \in Seq(C), level \in Seq(C) : a = u[k] /\ level = levels[k + 1]
      BY <1>3, <1>4, <3>1
    <3>3. PICK e : e = Extended(a, level)
      OBVIOUS
    <3>4. u[k + 1] = e
      BY <1>1, <1>2, <3>1, <3>2, <3>3 DEF Growing
    <3>5. Len(e) = Len(a) + 1 + Len(level) /\ e[Len(a) + 1] = "/"
      BY <3>3, ExtendedBy
    <3>6. PICK q \in Nat : q = Len(level)
      BY LenProperties
    <3>7. Len(e) = m + 1 + q /\ e[m + 1] = "/"
      BY <2>1, <3>2, <3>5, <3>6
    <3>8. Len(e) <= z /\ \A i \in 1 .. Len(e) : x[i] = e[i]
      BY <1>9, <2>1, <3>1, <3>4 DEF Begins
    <3>9. m + 1 \in 1 .. Len(e) /\ m + 2 <= z + 1 /\ (m + 2) - 1 = m + 1
      BY <3>7, <3>8
    <3> QED
      BY <3>7, <3>8, <3>9
  <2>7. m + 2 <= z + 2
    BY <2>2
  <2> QED
    BY <1>1, <2>1, <2>3, <2>4, <2>5, <2>6, <2>7 DEF LaidOut
<1>11. st[Len(levels) + 1] = Len(x) + 2
  <2>1. len \in 1 .. len
    BY <1>1
  <2>2. st[len + 1] = Len(u[len]) + 2
    BY <1>7, <2>1
  <2> QED
    BY <1>1, <1>5, <2>2
<1>12. Layout(x, levels, st)
  BY <1>1, <1>7, <1>8, <1>10, <1>11 DEF Layout
<1> QED
  BY <1>5, <1>12

-----------------------------------------------------------------------------
(* Topics: along the levels *)

\* One turn on a character that fits nothing but itself.
LEMMA MovedOn ==
    ASSUME NEW y, NEW c, NEW n, n \in 1 .. Len(y), c = y[n], c # "+", c # "#"
    PROVE  Moved(y, c, n) = n + 1
<1>1. Fits(c, y[n])
  BY DEF Fits
<1>2. Skip(y, c, n) = n
  BY DEF Skip
<1> QED
  BY <1>1, <1>2 DEF Moved

\* A turn that ends the loop.
LEMMA NotMoved ==
    ASSUME NEW y, NEW c, NEW n, c # "+", c # "#", n \notin 1 .. Len(y) \/ c # y[n]
    PROVE  Moved(y, c, n) = 0
  BY DEF Moved, Fits

\* A loop that has ended stays so.
LEMMA Ended ==
    ASSUME NEW C, NEW x \in Seq(C), NEW y \in Seq(C), NEW A, Walk(x, y, A),
           NEW f \in 1 .. Len(x), Moved(y, x[f], A[f]) = 0
    PROVE  A[Len(x) + 1] = 0
<1>1. PICK X \in Nat, N \in Nat : X = Len(x) /\ N = Len(y)
  BY LenProperties
<1>2. \A g \in 1 .. X : A[g + 1] = Moved(y, x[g], A[g])
  BY <1>1 DEF Walk
<1>3. \A c : Moved(y, c, 0) = 0
  BY <1>1 DEF Moved
<1>. DEFINE T == {d \in Nat : f + d <= X => A[(f + d) + 1] = 0}
<1>4. 0 \in T
  <2>1. f + 0 = f /\ A[f + 1] = 0
    BY <1>1, <1>2
  <2> QED
    BY <2>1
<1>5. ASSUME NEW d \in Nat, d \in T PROVE d + 1 \in T
  <2>. SUFFICES ASSUME f + (d + 1) <= X PROVE A[(f + (d + 1)) + 1] = 0
    OBVIOUS
  <2>1. PICK g \in Nat : g = f + d
    BY <1>1
  <2>2. g <= X /\ g + 1 \in 1 .. X /\ f + (d + 1) = g + 1
    BY <1>1, <2>1
  <2>3. A[g + 1] = 0
    BY <1>5, <2>1, <2>2
  <2>4. A[(g + 1) + 1] = Moved(y, x[g + 1], A[g + 1])
    BY <1>2, <2>2
  <2> QED
    BY <1>3, <2>2, <2>3, <2>4
<1>. HIDE DEF T
<1>6. \A d \in Nat : d \in T
  BY <1>4, <1>5, NextNumber
<1>7. X - f \in Nat /\ f + (X - f) = X /\ f + (X - f) <= X
  BY <1>1
<1>8. A[(f + (X - f)) + 1] = 0
  BY <1>6, <1>7 DEF T
<1> QED
  BY <1>1, <1>7, <1>8

\* From position f on, the filter has d characters as the name has them from n on.
Same(x, y, f, n, d) ==
    \A i \in 0 .. d - 1 : x[f + i] = y[n + i] /\ x[f + i] # "+" /\ x[f + i] # "#"

\* The walk goes along characters that are the same.
LEMMA PassedTogether ==
    ASSUME NEW C, NEW x \in Seq(C), NEW y \in Seq(C), NEW A, Walk(x, y, A),
           NEW f \in Nat, NEW n \in Nat, NEW d \in Nat, f >= 1, n >= 1,
           f + d <= Len(x) + 1, n + d <= Len(y) + 1, A[f] = n, Same(x, y, f, n, d)
    PROVE  A[f + d] = n + d
<1>1. PICK X \in Nat, N \in Nat : X = Len(x) /\ N = Len(y)
  BY LenProperties
<1>2. \A g \in 1 .. X : A[g + 1] = Moved(y, x[g], A[g])
  BY <1>1 DEF Walk
<1>. DEFINE T == {e \in Nat : e <= d => A[f + e] = n + e}
<1>3. 0 \in T
  <2>1. f + 0 = f /\ n + 0 = n
    OBVIOUS
  <2> QED
    BY <2>1
<1>4. ASSUME NEW e \in Nat, e \in T PROVE e + 1 \in T
  <2>. SUFFICES ASSUME e + 1 <= d PROVE A[f + (e + 1)] = n + (e + 1)
    OBVIOUS
  <2>1. PICK g \in Nat, m \in Nat : g = f + e /\ m = n + e
    OBVIOUS
  <2>2. e \in 0 .. d - 1 /\ g \in 1 .. X /\ m \in 1 .. N
        /\ f + (e + 1) = g + 1 /\ n + (e + 1) = m + 1 /\ e <= d
    BY <1>1, <2>1
  <2>3. A[g] = m
    BY <1>4, <2>1, <2>2
  <2>4. x[g] = y[m] /\ x[g] # "+" /\ x[g] # "#"
    BY <2>1, <2>2 DEF Same
  <2>5. Moved(y, x[g], m) = m + 1
    BY <1>1, <2>2, <2>4, MovedOn
  <2> QED
    BY <1>2, <2>2, <2>3, <2>5
<1>. HIDE DEF T
<1>5. \A e \in Nat : e \in T
  BY <1>3, <1>4, NextNumber
<1> QED
  BY <1>5 DEF T

\* A level without a wildcard.
Plain(level) ==
    Len(level) >= 1 /\ \A i \in 1 .. Len(level) : level[i] \notin {"/", "+", "#"}

\* A filter F and a name T, their texts x and y, where their levels begin, and
\* the walk along the two texts.
Setting(C, F, T, s, r, x, y, A) ==
    /\ "/" \in C /\ F \in Seq(Seq(C)) /\ T \in Seq(Seq(C)) /\ Len(F) >= 1 /\ Len(T) >= 1
    /\ \A k \in 1 .. Len(F) : Plain(F[k]) \/ F[k] = <<"+">> \/ (k = Len(F) /\ F[k] = <<"#">>)
    /\ \A k \in 1 .. Len(T) : Plain(T[k])
    /\ x \in Seq(C) /\ y \in Seq(C)
    /\ Layout(x, F, s) /\ Layout(y, T, r) /\ Walk(x, y, A)

\* Level k of a text: it begins at b, has the n characters of level, and e is
\* where the separator behind it is, or would be.
LevelAt(text, levels, st, k, level, b, n, e, len) ==
    /\ level = levels[k] /\ b = st[k] /\ n = Len(level) /\ e = st[k + 1] - 1 /\ len = Len(text)
    /\ b >= 1 /\ e = b + n /\ e <= len + 1
    /\ \A i \in 0 .. n - 1 : text[b + i] = level[i + 1]
    /\ k < Len(levels) => e <= len /\ text[e] = "/"
    /\ k = Len(levels) => e = len + 1

\* There are such numbers for every level of a text that is laid out.
LEMMA LevelHolds ==
    ASSUME NEW C, NEW text \in Seq(C), NEW levels \in Seq(Seq(C)), NEW st,
           Layout(text, levels, st), NEW k \in 1 .. Len(levels)
    PROVE  \E b \in Nat, n \in Nat, e \in Nat, len \in Nat :
             LevelAt(text, levels, st, k, levels[k], b, n, e, len)
<1>1. PICK K \in Nat, len \in Nat : K = Len(levels) /\ len = Len(text)
  BY LenProperties
<1>2. LaidOut(text, levels, st, k)
  BY DEF Layout
<1>3. PICK b \in Nat, c \in Nat, n \in Nat : b = st[k] /\ c = st[k + 1] /\ n = Len(levels[k])
  <2>1. k \in 1 .. K + 1 /\ k + 1 \in 1 .. K + 1
    BY <1>1
  <2>2. st[k] \in Nat /\ st[k + 1] \in Nat
    BY <1>1, <2>1 DEF Layout
  <2>3. levels[k] \in Seq(C)
    BY ElementOfSeq
  <2>4. Len(levels[k]) \in Nat
    BY <2>3, LenProperties
  <2> QED
    BY <2>2, <2>4
<1>4. /\ b >= 1 /\ c = b + n + 1 /\ c <= len + 2
      /\ \A i \in 0 .. n - 1 : text[b + i] = levels[k][i + 1]
      /\ k < K => c <= len + 1 /\ text[c - 1] = "/"
  BY <1>1, <1>2, <1>3 DEF LaidOut
<1>5. k = K => c = len + 2
  BY <1>1, <1>3 DEF Layout
<1>6. PICK e \in Nat : e = c - 1
  BY <1>4
<1>7. e = b + n /\ e <= len + 1 /\ (k < K => e <= len /\ text[e] = "/") /\ (k = K => e = len + 1)
  <2>1. e = b + n /\ e <= len + 1 /\ (k = K => e = len + 1)
    BY <1>4, <1>5, <1>6
  <2>2. k < K => e <= len
    BY <1>4, <1>6
  <2>3. k < K => text[e] = "/"
    BY <1>4, <1>6
  <2> QED
    BY <2>1, <2>2, <2>3
<1>8. LevelAt(text, levels, st, k, levels[k], b, n, e, len)
  BY <1>1, <1>3, <1>4, <1>6, <1>7 DEF LevelAt
<1> QED
  BY <1>8

\* Level k of the filter and level k of the name.
BothAt(F, T, s, r, x, y, k, b, n, e, X, c, m, d, N) ==
    /\ LevelAt(x, F, s, k, F[k], b, n, e, X) /\ LevelAt(y, T, r, k, T[k], c, m, d, N)
    /\ Plain(T[k])

\* There are such numbers for every level that both have.
LEMMA BothHold ==
    ASSUME NEW C, NEW F, NEW T, NEW s, NEW r, NEW x, NEW y, NEW A,
           Setting(C, F, T, s, r, x, y, A), NEW k \in 1 .. Len(F), k \in 1 .. Len(T)
    PROVE  \E b \in Nat, n \in Nat, e \in Nat, X \in Nat, c \in Nat, m \in Nat, d \in Nat, N \in Nat :
             BothAt(F, T, s, r, x, y, k, b, n, e, X, c, m, d, N)
<1>1. /\ F \in Seq(Seq(C)) /\ T \in Seq(Seq(C)) /\ x \in Seq(C) /\ y \in Seq(C)
      /\ Layout(x, F, s) /\ Layout(y, T, r)
  BY DEF Setting
<1>2. PICK b \in Nat, n \in Nat, e \in Nat, X \in Nat : LevelAt(x, F, s, k, F[k], b, n, e, X)
  BY <1>1, LevelHolds
<1>3. PICK c \in Nat, m \in Nat, d \in Nat, N \in Nat : LevelAt(y, T, r, k, T[k], c, m, d, N)
  BY <1>1, LevelHolds
<1>4. Plain(T[k])
  BY DEF Setting
<1> QED
  BY <1>2, <1>3, <1>4 DEF BothAt

\* The walk passes a level that matches.
LEMMA LevelPassed ==
    ASSUME NEW C, NEW F, NEW T, NEW s, NEW r, NEW x, NEW y, NEW A,
           Setting(C, F, T, s, r, x, y, A), NEW k \in 1 .. Len(F), k \in 1 .. Len(T),
           A[s[k]] = r[k], LevelMatches(F[k], T[k])
    PROVE  A[s[k + 1] - 1] = r[k + 1] - 1
<1>1. PICK b \in Nat, n \in Nat, e \in Nat, X \in Nat, c \in Nat, m \in Nat, d \in Nat, N \in Nat :
        BothAt(F, T, s, r, x, y, k, b, n, e, X, c, m, d, N)
  BY BothHold
<1>2. /\ b = s[k] /\ n = Len(F[k]) /\ e = s[k + 1] - 1 /\ X = Len(x)
      /\ b >= 1 /\ e = b + n /\ e <= X + 1
      /\ \A i \in 0 .. n - 1 : x[b + i] = F[k][i + 1]
  BY <1>1 DEF BothAt, LevelAt
<1>3. /\ c = r[k] /\ m = Len(T[k]) /\ d = r[k + 1] - 1 /\ N = Len(y)
      /\ c >= 1 /\ d = c + m /\ d <= N + 1
      /\ \A i \in 0 .. m - 1 : y[c + i] = T[k][i + 1]
  BY <1>1 DEF BothAt, LevelAt
<1>4. (k < Len(T) => d <= N /\ y[d] = "/") /\ (k = Len(T) => d = N + 1)
  BY <1>1 DEF BothAt, LevelAt
<1>5. m >= 1 /\ \A i \in 1 .. m : T[k][i] # "/" /\ T[k][i] # "+" /\ T[k][i] # "#"
  BY <1>1, <1>3 DEF BothAt, Plain
<1>6. x \in Seq(C) /\ y \in Seq(C) /\ Walk(x, y, A)
  BY DEF Setting
<1>7. A[b] = c
  BY <1>2, <1>3
<1>8. ASSUME NEW i \in 0 .. m - 1 PROVE y[c + i] # "/" /\ y[c + i] # "+" /\ y[c + i] # "#"
  <2>1. i + 1 \in 1 .. m
    OBVIOUS
  <2> QED
    BY <1>3, <1>5, <2>1
<1>. DEFINE Sizes == /\ b >= 1 /\ e = b + n /\ e <= X + 1 /\ X = Len(x)
                     /\ c >= 1 /\ d = c + m /\ d <= N + 1 /\ N = Len(y) /\ m >= 1
<1>11. Sizes
  BY <1>2, <1>3, <1>5
<1>9. CASE F[k] = <<"+">>
  <2>1. Len(F[k]) = 1 /\ F[k][1] = "+"
    BY <1>9
  <2>2. n = 1
    BY <1>2, <2>1
  <2>3. 0 \in 0 .. n - 1 /\ b + 0 = b /\ 0 + 1 = 1 /\ e = b + 1 /\ b \in 1 .. X
    BY <1>2, <2>2
  <2>4. x[b] = "+"
    BY <1>2, <2>1, <2>3
  <2>5. 0 \in 0 .. m - 1 /\ c + 0 = c /\ c \in 1 .. N /\ 1 <= c /\ c <= N
    BY <1>3, <1>5
  <2>6. y[c] # "/"
    BY <1>8, <2>5
  <2>7. PICK l \in Nat : l = LevelEnd(y, c) /\ Ending(y, c, l)
    <3>1. Ending(y, c, LevelEnd(y, c))
      BY <1>3, <1>6, <2>5, LevelEndIs
    <3> QED
      BY <3>1 DEF Ending
  <2>8. /\ c <= l /\ l <= N /\ (l < N => y[l + 1] = "/")
        /\ \A i \in Nat : c < i /\ i <= l => y[i] # "/"
    BY <1>3, <2>7 DEF Ending
  <2>9. l + 1 >= d
    <3>. SUFFICES ASSUME l + 1 < d PROVE FALSE
      BY <1>3
    <3>1. (l + 1) - c \in 0 .. m - 1 /\ c + ((l + 1) - c) = l + 1 /\ l < N
      <4>1. c <= l /\ l <= N
        BY <2>8
      <4> QED
        BY <1>11, <4>1
    <3>2. y[l + 1] # "/"
      BY <1>8, <3>1
    <3> QED
      BY <2>8, <3>1, <3>2
  <2>10. l + 1 <= d
    <3>. SUFFICES ASSUME d <= l PROVE FALSE
      BY <1>3
    <3>1. k < Len(T)
      <4>1. PICK M \in Nat : M = Len(T)
        <5>1. T \in Seq(Seq(C))
          BY DEF Setting
        <5> QED
          BY <5>1, LenProperties
      <4>2. k # M
        BY <1>4, <2>8, <4>1
      <4> QED
        BY <4>1, <4>2
    <3>2. y[d] = "/" /\ c < d
      BY <1>3, <1>4, <1>5, <3>1
    <3> QED
      BY <2>8, <3>2
  <2>11. l + 1 = d
    BY <2>9, <2>10
  <2>12. Moved(y, "+", c) = l + 1
    <3>1. Fits("+", y[c])
      BY <2>6 DEF Fits
    <3>2. Skip(y, "+", c) = l
      BY <2>7 DEF Skip
    <3> QED
      BY <1>3, <2>5, <3>1, <3>2 DEF Moved
  <2>13. A[b + 1] = Moved(y, x[b], A[b])
    BY <1>2, <1>6, <2>3 DEF Walk
  <2>14. A[e] = d
    BY <1>7, <2>3, <2>4, <2>11, <2>12, <2>13
  <2> QED
    BY <1>2, <1>3, <2>14
<1>10. CASE F[k] = T[k]
  <2>1. n = m
    BY <1>2, <1>3, <1>10
  <2>2. Same(x, y, b, c, n)
    <3>1. ASSUME NEW i \in 0 .. n - 1 PROVE x[b + i] = y[c + i]
      BY <1>2, <1>3, <1>10, <2>1
    <3> QED
      BY <1>8, <2>1, <3>1 DEF Same
  <2>3. b + n <= Len(x) + 1 /\ c + n <= Len(y) + 1
    BY <1>11, <2>1
  <2>4. A[b + n] = c + n
    BY <1>6, <1>7, <1>11, <2>2, <2>3, PassedTogether
  <2> QED
    BY <1>2, <1>3, <2>1, <2>4
<1> QED
  BY <1>9, <1>10 DEF LevelMatches

\* The walk does not come to the end of both if a level does not match.
LEMMA LevelFailed ==
    ASSUME NEW C, NEW F, NEW T, NEW s, NEW r, NEW x, NEW y, NEW A,
           Setting(C, F, T, s, r, x, y, A), NEW k \in 1 .. Len(F), k \in 1 .. Len(T),
           A[s[k]] = r[k], ~LevelMatches(F[k], T[k]), F[k] # <<"#">>
    PROVE  A[Len(x) + 1] # Len(y) + 1
<1>1. PICK b \in Nat, n \in Nat, e \in Nat, X \in Nat, c \in Nat, m \in Nat, d \in Nat, N \in Nat :
        BothAt(F, T, s, r, x, y, k, b, n, e, X, c, m, d, N)
  BY BothHold
<1>2. /\ b = s[k] /\ n = Len(F[k]) /\ e = s[k + 1] - 1 /\ X = Len(x)
      /\ b >= 1 /\ e = b + n /\ e <= X + 1
      /\ \A i \in 0 .. n - 1 : x[b + i] = F[k][i + 1]
  BY <1>1 DEF BothAt, LevelAt
<1>3. (k < Len(F) => e <= X /\ x[e] = "/") /\ (k = Len(F) => e = X + 1)
  BY <1>1 DEF BothAt, LevelAt
<1>4. /\ c = r[k] /\ m = Len(T[k]) /\ d = r[k + 1] - 1 /\ N = Len(y)
      /\ c >= 1 /\ d = c + m /\ d <= N + 1
      /\ \A i \in 0 .. m - 1 : y[c + i] = T[k][i + 1]
  BY <1>1 DEF BothAt, LevelAt
<1>5. (k < Len(T) => d <= N /\ y[d] = "/") /\ (k = Len(T) => d = N + 1)
  BY <1>1 DEF BothAt, LevelAt
<1>6. Plain(F[k]) /\ Plain(T[k])
  BY DEF Setting, LevelMatches
<1>7. \A i \in 1 .. n : F[k][i] # "/" /\ F[k][i] # "+" /\ F[k][i] # "#"
  BY <1>2, <1>6 DEF Plain
<1>8. \A i \in 1 .. m : T[k][i] # "/"
  BY <1>4, <1>6 DEF Plain
<1>9. x \in Seq(C) /\ y \in Seq(C) /\ Walk(x, y, A) /\ F \in Seq(Seq(C)) /\ T \in Seq(Seq(C))
  BY DEF Setting
<1>10. A[b] = c
  BY <1>2, <1>4
<1>. DEFINE Sizes == /\ b >= 1 /\ e = b + n /\ e <= X + 1 /\ X = Len(x)
                     /\ c >= 1 /\ d = c + m /\ d <= N + 1 /\ N = Len(y)
<1>23. Sizes
  BY <1>2, <1>4
<1>. DEFINE D == {i \in Nat : i >= 1 /\ ~(i <= n /\ i <= m /\ F[k][i] = T[k][i])}
<1>11. n + 1 \in D
  OBVIOUS
<1>12. PICK p \in D : \A i \in D : p <= i
  <2>1. D \in SUBSET Nat /\ D # {}
    BY <1>11
  <2>. HIDE DEF D
  <2> QED
    BY <2>1, LeastOf
<1>13. p \in Nat /\ p >= 1 /\ p <= n + 1 /\ ~(p <= n /\ p <= m /\ F[k][p] = T[k][p])
  BY <1>11, <1>12
<1>14. ASSUME NEW i \in Nat, 1 <= i, i < p PROVE i <= n /\ i <= m /\ F[k][i] = T[k][i]
  <2>1. i \notin D
    BY <1>12, <1>13, <1>14
  <2> QED
    BY <1>14, <2>1
<1>. HIDE DEF D
<1>15. PICK q \in Nat : q = p - 1
  BY <1>13
<1>16. q <= n /\ q <= m
  <2>1. CASE q = 0
    BY <2>1
  <2>2. CASE q # 0
    <3>1. 1 <= q /\ q < p
      BY <1>13, <1>15, <2>2
    <3> QED
      BY <1>14, <3>1
  <2> QED
    BY <2>1, <2>2
<1>17. A[b + q] = c + q
  <2>1. Same(x, y, b, c, q)
    <3>1. ASSUME NEW i \in 0 .. q - 1
          PROVE  x[b + i] = y[c + i] /\ x[b + i] # "+" /\ x[b + i] # "#"
      <4>1. i \in 0 .. n - 1 /\ i \in 0 .. m - 1 /\ i + 1 \in Nat /\ 1 <= i + 1 /\ i + 1 < p
            /\ i + 1 \in 1 .. n
        BY <1>13, <1>15, <1>16
      <4>2. F[k][i + 1] = T[k][i + 1]
        BY <1>14, <4>1
      <4> QED
        BY <1>2, <1>4, <1>7, <4>1, <4>2
    <3> QED
      BY <3>1 DEF Same
  <2>2. b + q <= Len(x) + 1 /\ c + q <= Len(y) + 1
    BY <1>16, <1>23
  <2> QED
    <3>1. x \in Seq(C) /\ y \in Seq(C) /\ Walk(x, y, A) /\ b \in Nat /\ c \in Nat /\ q \in Nat
      BY <1>9
    <3>2. b >= 1 /\ c >= 1
      BY <1>23
    <3>. HIDE DEF Sizes
    <3> QED
      BY <1>10, <2>1, <2>2, <3>1, <3>2, PassedTogether
<1>18. PICK K \in Nat, M \in Nat : K = Len(F) /\ M = Len(T)
  BY <1>9, LenProperties
<1>19. PICK g \in Nat, h \in Nat : g = b + q /\ h = c + q
  OBVIOUS
<1>20. ASSUME g <= X, Moved(y, x[g], h) = 0 PROVE A[X + 1] # N + 1
  <2>1. g \in 1 .. Len(x)
    BY <1>2, <1>19, <1>20
  <2>2. Moved(y, x[g], A[g]) = 0
    BY <1>17, <1>19, <1>20
  <2>3. A[Len(x) + 1] = 0
    BY <1>9, <2>1, <2>2, Ended
  <2> QED
    BY <1>2, <2>3
<1>21. CASE p <= n
  <2>1. g <= X /\ q \in 0 .. n - 1 /\ q + 1 = p /\ p \in 1 .. n
    <3>1. p \in Nat /\ p >= 1 /\ p <= n
      BY <1>13, <1>21
    <3> QED
      BY <1>15, <1>19, <1>23, <3>1
  <2>2. x[g] = F[k][p]
    BY <1>2, <1>19, <2>1
  <2>3. x[g] # "/" /\ x[g] # "+" /\ x[g] # "#"
    BY <1>7, <2>1, <2>2
  <2>4. h \notin 1 .. N \/ x[g] # y[h]
    <3>1. CASE p <= m
      <4>1. q \in 0 .. m - 1
        BY <1>13, <1>15, <3>1
      <4>2. y[h] = T[k][p]
        BY <1>4, <1>19, <2>1, <4>1
      <4> QED
        BY <1>13, <1>21, <2>2, <3>1, <4>2
    <3>2. CASE p > m
      <4>1. h = d
        <5>1. p \in Nat /\ q = p - 1 /\ q <= m
          BY <1>13, <1>15, <1>16
        <5>2. q = m
          BY <3>2, <5>1
        <5> QED
          BY <1>19, <1>23, <5>2
      <4>2. CASE k < M
        BY <1>5, <1>18, <2>3, <4>1, <4>2
      <4>3. CASE k = M
        <5>1. h = N + 1
          BY <1>5, <1>18, <4>1, <4>3
        <5> QED
          BY <5>1
      <4> QED
        BY <1>18, <4>2, <4>3
    <3> QED
      BY <1>13, <3>1, <3>2
  <2>5. Moved(y, x[g], h) = 0
    BY <1>4, <2>3, <2>4, NotMoved
  <2> QED
    BY <1>2, <1>4, <1>20, <2>1, <2>5
<1>22. CASE p > n
  <2>1. p = n + 1 /\ q = n /\ g = e
    <3>1. p \in Nat /\ n \in Nat /\ p <= n + 1
      BY <1>2, <1>13, <1>15
    <3>2. p = n + 1
      BY <1>22, <3>1
    <3> QED
      <4>1. q = n
        BY <1>15, <3>1, <3>2
      <4> QED
        BY <1>19, <1>23, <3>2, <4>1
  <2>2. CASE p <= m
    <3>1. q \in 0 .. m - 1 /\ q + 1 = p /\ p \in 1 .. m /\ h < d
      <4>1. p \in Nat /\ p >= 1
        BY <1>13
      <4> QED
        BY <1>15, <1>19, <1>23, <2>2, <4>1
    <3>2. y[h] # "/"
      BY <1>4, <1>8, <1>19, <3>1
    <3>3. CASE k < K
      <4>1. g <= X /\ x[g] = "/"
        BY <1>3, <1>18, <2>1, <3>3
      <4>2. Moved(y, x[g], h) = 0
        BY <3>2, <4>1, NotMoved
      <4> QED
        BY <1>2, <1>4, <1>20, <4>1, <4>2
    <3>4. CASE k = K
      <4>1. g = X + 1
        BY <1>3, <1>18, <2>1, <3>4
      <4>2. A[X + 1] = h /\ h # N + 1
        <5>1. A[g] = h
          BY <1>17, <1>19
        <5>2. h # N + 1
          BY <1>23, <3>1
        <5> QED
          BY <4>1, <5>1, <5>2
      <4> QED
        BY <1>2, <1>4, <4>2
    <3> QED
      BY <1>18, <3>3, <3>4
  <2>3. CASE p > m
    <3>1. n = m
      BY <1>13, <1>15, <1>16, <2>1, <2>3
    <3>2. F[k] \in Seq(C) /\ T[k] \in Seq(C)
      BY <1>9, ElementOfSeq
    <3>3. ASSUME NEW i \in 1 .. n PROVE F[k][i] = T[k][i]
      <4>1. i \in Nat /\ 1 <= i /\ i < p
        BY <2>1
      <4> QED
        BY <1>14, <4>1
    <3>4. F[k] = T[k]
      BY <1>2, <1>4, <3>1, <3>2, <3>3, SeqEqual
    <3> QED
      BY <3>4 DEF LevelMatches
  <2> QED
    BY <1>13, <2>2, <2>3
<1> QED
  BY <1>13, <1>21, <1>22

\* Behind levels that all match, the walk is at the beginning of a level in both.
LEMMA Synced ==
    ASSUME NEW C, NEW F, NEW T, NEW s, NEW r, NEW x, NEW y, NEW A,
           Setting(C, F, T, s, r, x, y, A), NEW p \in Nat, 1 <= p, p <= Len(F), p <= Len(T),
           \A i \in 1 .. p - 1 : LevelMatches(F[i], T[i])
    PROVE  A[s[p]] = r[p]
<1>1. PICK K \in Nat, M \in Nat : K = Len(F) /\ M = Len(T)
  <2>1. F \in Seq(Seq(C)) /\ T \in Seq(Seq(C))
    BY DEF Setting
  <2> QED
    BY <2>1, LenProperties
<1>. DEFINE S == {i \in Nat : i + 1 <= p => A[s[i + 1]] = r[i + 1]}
<1>2. 0 \in S
  <2>1. s[1] = 1 /\ r[1] = 1 /\ A[1] = 1
    BY DEF Setting, Layout, Walk
  <2>2. A[s[0 + 1]] = r[0 + 1]
    BY <2>1
  <2> QED
    BY <2>2
<1>3. ASSUME NEW i \in Nat, i \in S PROVE i + 1 \in S
  <2>. SUFFICES ASSUME (i + 1) + 1 <= p PROVE A[s[(i + 1) + 1]] = r[(i + 1) + 1]
    OBVIOUS
  <2>1. PICK k \in Nat : k = i + 1
    OBVIOUS
  <2>2. k \in 1 .. Len(F) /\ k \in 1 .. Len(T) /\ k < Len(F) /\ k < Len(T) /\ k \in 1 .. p - 1
    BY <1>1, <2>1
  <2>3. A[s[k]] = r[k]
    <3>1. i + 1 <= p
      OBVIOUS
    <3> QED
      BY <1>3, <2>1, <3>1
  <2>4. LevelMatches(F[k], T[k])
    BY <2>2
  <2>5. A[s[k + 1] - 1] = r[k + 1] - 1
    BY <2>2, <2>3, <2>4, LevelPassed
  <2>6. PICK b \in Nat, n \in Nat, e \in Nat, X \in Nat, c \in Nat, m \in Nat, d \in Nat, N \in Nat :
          BothAt(F, T, s, r, x, y, k, b, n, e, X, c, m, d, N)
    BY <2>2, BothHold
  <2>7. e = s[k + 1] - 1 /\ X = Len(x) /\ b >= 1 /\ e = b + n /\ e <= X /\ x[e] = "/"
    BY <2>2, <2>6 DEF BothAt, LevelAt
  <2>8. d = r[k + 1] - 1 /\ N = Len(y) /\ c >= 1 /\ d = c + m /\ d <= N /\ y[d] = "/"
    BY <2>2, <2>6 DEF BothAt, LevelAt
  <2>9. s[k + 1] \in Nat /\ r[k + 1] \in Nat
    <3>1. k + 1 \in 1 .. Len(F) + 1 /\ k + 1 \in 1 .. Len(T) + 1
      BY <1>1, <2>2
    <3>2. s \in [1 .. Len(F) + 1 -> Nat] /\ r \in [1 .. Len(T) + 1 -> Nat]
      BY DEF Setting, Layout
    <3> QED
      BY <3>1, <3>2
  <2>10. s[k + 1] = e + 1 /\ r[k + 1] = d + 1
    <3>1. PICK u \in Nat, v \in Nat : u = s[k + 1] /\ v = r[k + 1]
      BY <2>9
    <3>2. e = u - 1 /\ d = v - 1
      BY <2>7, <2>8, <3>1
    <3>3. u = e + 1 /\ v = d + 1
      BY <3>2
    <3> QED
      BY <3>1, <3>3
  <2>11. e \in 1 .. Len(x) /\ d \in 1 .. Len(y)
    BY <2>7, <2>8
  <2>12. A[e + 1] = Moved(y, x[e], A[e])
    BY <2>11 DEF Setting, Walk
  <2>13. A[e] = d
    BY <2>5, <2>7, <2>8
  <2>14. Moved(y, x[e], d) = d + 1
    BY <2>7, <2>8, <2>11, MovedOn
  <2>15. A[s[k + 1]] = r[k + 1]
    BY <2>10, <2>12, <2>13, <2>14
  <2> QED
    BY <2>1, <2>15
<1>. HIDE DEF S
<1>4. \A i \in Nat : i \in S
  BY <1>2, <1>3, NextNumber
<1>5. p - 1 \in Nat /\ (p - 1) + 1 = p /\ p <= p
  OBVIOUS
<1>6. A[s[(p - 1) + 1]] = r[(p - 1) + 1]
  BY <1>4, <1>5 DEF S
<1> QED
  BY <1>5, <1>6

\* "#" takes the rest.
LEMMA HashPassed ==
    ASSUME NEW C, NEW F, NEW T, NEW s, NEW r, NEW x, NEW y, NEW A,
           Setting(C, F, T, s, r, x, y, A), NEW k \in 1 .. Len(F), k \in 1 .. Len(T),
           k = Len(F), F[k] = <<"#">>, A[s[k]] = r[k]
    PROVE  A[Len(x) + 1] = Len(y) + 1
<1>1. PICK b \in Nat, n \in Nat, e \in Nat, X \in Nat, c \in Nat, m \in Nat, d \in Nat, N \in Nat :
        BothAt(F, T, s, r, x, y, k, b, n, e, X, c, m, d, N)
  BY BothHold
<1>2. /\ b = s[k] /\ n = Len(F[k]) /\ X = Len(x) /\ b >= 1 /\ e = b + n /\ e = X + 1
      /\ \A i \in 0 .. n - 1 : x[b + i] = F[k][i + 1]
  BY <1>1 DEF BothAt, LevelAt
<1>3. /\ c = r[k] /\ m = Len(T[k]) /\ N = Len(y) /\ c >= 1 /\ d = c + m /\ d <= N + 1
      /\ \A i \in 0 .. m - 1 : y[c + i] = T[k][i + 1]
  BY <1>1 DEF BothAt, LevelAt
<1>4. m >= 1 /\ \A i \in 1 .. m : T[k][i] # "/"
  BY <1>1, <1>3 DEF BothAt, Plain
<1>5. Len(F[k]) = 1 /\ F[k][1] = "#"
  OBVIOUS
<1>6. n = 1 /\ b >= 1 /\ X = b
  BY <1>2, <1>5
<1>7. 0 \in 0 .. n - 1 /\ b + 0 = b /\ 0 + 1 = 1 /\ b \in 1 .. X
  BY <1>6
<1>8. x[b] = "#"
  BY <1>2, <1>5, <1>7
<1>9. c >= 1 /\ d = c + m /\ d <= N + 1
  BY <1>3
<1>10. 0 \in 0 .. m - 1 /\ c + 0 = c /\ 0 + 1 = 1 /\ 1 \in 1 .. m /\ c \in 1 .. N
  BY <1>4, <1>9
<1>11. y[c] # "/"
  BY <1>3, <1>4, <1>10
<1>12. Moved(y, "#", c) = N + 1
  <2>1. Fits("#", y[c])
    BY <1>11 DEF Fits
  <2>2. Skip(y, "#", c) = N
    BY <1>3 DEF Skip
  <2> QED
    BY <1>3, <1>10, <2>1, <2>2 DEF Moved
<1>13. A[b + 1] = Moved(y, x[b], A[b])
  BY <1>2, <1>7 DEF Setting, Walk
<1>14. A[b] = c
  BY <1>2, <1>3
<1>15. A[X + 1] = N + 1
  BY <1>6, <1>8, <1>12, <1>13, <1>14
<1> QED
  BY <1>2, <1>3, <1>15

-----------------------------------------------------------------------------
(* Topics: the decision *)

\* The walk ends at the ends of both texts if and only if the levels match.
LEMMA WalkDecides ==
    ASSUME NEW C, NEW F, NEW T, NEW s, NEW r, NEW x, NEW y, NEW A,
           Setting(C, F, T, s, r, x, y, A)
    PROVE  A[Len(x) + 1] = Len(y) + 1 <=> Matches(F, T)
<1>1. /\ F \in Seq(Seq(C)) /\ T \in Seq(Seq(C)) /\ Len(F) >= 1 /\ Len(T) >= 1
      /\ x \in Seq(C) /\ y \in Seq(C)
  BY DEF Setting
<1>2. PICK K \in Nat, M \in Nat, X \in Nat, N \in Nat :
        K = Len(F) /\ M = Len(T) /\ X = Len(x) /\ N = Len(y)
  BY <1>1, LenProperties
<1>3. K >= 1 /\ M >= 1
  BY <1>1, <1>2
<1>4. ASSUME NEW i \in 1 .. K, F[i] = <<"#">> PROVE i = K
  <2>1. ~Plain(F[i])
    <3>1. Len(F[i]) = 1 /\ F[i][1] = "#"
      BY <1>4
    <3>2. 1 \in 1 .. 1 /\ "#" \in {"/", "+", "#"}
      OBVIOUS
    <3> QED
      BY <3>1, <3>2 DEF Plain
  <2>2. F[i] # <<"+">>
    <3>1. <<"#">>[1] = "#" /\ <<"+">>[1] = "+" /\ "#" # "+"
      OBVIOUS
    <3> QED
      BY <1>4, <3>1
  <2>3. Plain(F[i]) \/ F[i] = <<"+">> \/ i = Len(F)
    BY <1>2 DEF Setting
  <2> QED
    BY <1>2, <2>1, <2>2, <2>3
<1>. DEFINE Mis == {i \in Nat : 1 <= i /\ i <= K /\ i <= M /\ F[i] # <<"#">>
                                /\ ~LevelMatches(F[i], T[i])}
            Yes == A[Len(x) + 1] = Len(y) + 1
<1>5. Matches(F, T) <=> IF F[K] = <<"#">>
                        THEN K <= M /\ \A i \in 1 .. K - 1 : LevelMatches(F[i], T[i])
                        ELSE K = M /\ \A i \in 1 .. K : LevelMatches(F[i], T[i])
  BY <1>2 DEF Matches
<1>6. CASE Mis # {}
  <2>1. PICK p \in Mis : \A i \in Mis : p <= i
    <3>1. Mis \in SUBSET Nat
      OBVIOUS
    <3>. HIDE DEF Mis
    <3> QED
      BY <1>6, <3>1, LeastOf
  <2>2. p \in Nat /\ 1 <= p /\ p <= K /\ p <= M /\ F[p] # <<"#">> /\ ~LevelMatches(F[p], T[p])
    OBVIOUS
  <2>3. ASSUME NEW i \in 1 .. p - 1 PROVE LevelMatches(F[i], T[i])
    <3>1. i \in Nat /\ 1 <= i /\ i <= K /\ i <= M /\ i < p /\ i \in 1 .. K /\ i # K
      BY <2>2
    <3>2. i \notin Mis
      BY <2>1, <2>2, <3>1
    <3>3. F[i] # <<"#">>
      BY <1>4, <3>1
    <3> QED
      BY <3>1, <3>2, <3>3
  <2>. HIDE DEF Mis
  <2>4. A[s[p]] = r[p]
    BY <1>2, <2>2, <2>3, Synced
  <2>5. ~Yes
    <3>1. p \in 1 .. Len(F) /\ p \in 1 .. Len(T)
      BY <1>2, <2>2
    <3> QED
      BY <2>2, <2>4, <3>1, LevelFailed
  <2>6. ~Matches(F, T)
    <3>1. p \in 1 .. K
      BY <2>2
    <3>2. CASE F[K] = <<"#">>
      <4>1. p \in 1 .. K - 1
        <5>1. p # K
          BY <2>2, <3>2
        <5> QED
          BY <3>1, <5>1
      <4> QED
        BY <1>5, <2>2, <3>2, <4>1
    <3>3. CASE F[K] # <<"#">>
      BY <1>5, <2>2, <3>1, <3>3
    <3> QED
      BY <3>2, <3>3
  <2> QED
    BY <2>5, <2>6
<1>7. CASE Mis = {}
  <2>1. ASSUME NEW i \in Nat, 1 <= i, i <= K, i <= M, F[i] # <<"#">>
        PROVE  LevelMatches(F[i], T[i])
    BY <1>7, <2>1
  <2>. HIDE DEF Mis
  <2>2. ASSUME NEW i \in Nat, 1 <= i, i < K, i <= M PROVE LevelMatches(F[i], T[i])
    <3>1. i \in 1 .. K /\ i # K /\ i <= K
      BY <2>2
    <3>2. F[i] # <<"#">>
      BY <1>4, <3>1
    <3> QED
      BY <2>1, <2>2, <3>1, <3>2
  <2>3. ASSUME NEW k \in Nat, 1 <= k, k <= K, k <= M PROVE A[s[k]] = r[k]
    <3>1. ASSUME NEW i \in 1 .. k - 1 PROVE LevelMatches(F[i], T[i])
      <4>1. i \in Nat /\ 1 <= i /\ i < K /\ i <= M
        BY <2>3
      <4> QED
        BY <2>2, <4>1
    <3>2. k <= Len(F) /\ k <= Len(T)
      BY <1>2, <2>3
    <3> QED
      BY <2>3, <3>1, <3>2, Synced
  <2>4. ASSUME NEW k \in Nat, 1 <= k, k <= K, k <= M, F[k] # <<"#">>
        PROVE  A[s[k + 1] - 1] = r[k + 1] - 1
    <3>1. k \in 1 .. Len(F) /\ k \in 1 .. Len(T)
      BY <1>2, <2>4
    <3>2. A[s[k]] = r[k]
      BY <2>3, <2>4
    <3>3. LevelMatches(F[k], T[k])
      BY <2>1, <2>4
    <3> QED
      BY <3>1, <3>2, <3>3, LevelPassed
  <2>5. CASE K > M
    <3>1. F[M] # <<"#">>
      <4>1. M \in 1 .. K /\ M # K
        BY <1>3, <2>5
      <4> QED
        BY <1>4, <4>1
    <3>2. A[s[M + 1] - 1] = r[M + 1] - 1
      <4>1. 1 <= M /\ M <= K /\ M <= M
        BY <1>3, <2>5
      <4> QED
        BY <2>4, <3>1, <4>1
    <3>3. M \in 1 .. Len(F) /\ M \in 1 .. Len(T) /\ M < Len(F) /\ M = Len(T)
      BY <1>2, <1>3, <2>5
    <3>4. PICK b \in Nat, n \in Nat, e \in Nat, Xb \in Nat, c \in Nat, m \in Nat, d \in Nat, Nb \in Nat :
            BothAt(F, T, s, r, x, y, M, b, n, e, Xb, c, m, d, Nb)
      BY <3>3, BothHold
    <3>5. e = s[M + 1] - 1 /\ Xb = Len(x) /\ b >= 1 /\ e = b + n /\ e <= Xb /\ x[e] = "/"
      BY <3>3, <3>4 DEF BothAt, LevelAt
    <3>6. d = r[M + 1] - 1 /\ Nb = Len(y) /\ d = Nb + 1
      BY <3>3, <3>4 DEF BothAt, LevelAt
    <3>7. A[e] = d
      BY <3>2, <3>5, <3>6
    <3>8. e \in 1 .. Len(x) /\ d \notin 1 .. Len(y)
      BY <3>5, <3>6
    <3>9. Moved(y, x[e], A[e]) = 0
      BY <3>5, <3>7, <3>8, NotMoved
    <3>10. A[Len(x) + 1] = 0
      <4>1. Walk(x, y, A)
        BY DEF Setting
      <4> QED
        BY <1>1, <3>8, <3>9, <4>1, Ended
    <3>11. ~Yes
      BY <1>2, <3>10
    <3>12. ~Matches(F, T)
      BY <1>5, <2>5
    <3> QED
      BY <3>11, <3>12
  <2>6. CASE K <= M /\ F[K] = <<"#">>
    <3>1. K \in 1 .. Len(F) /\ K \in 1 .. Len(T) /\ K = Len(F)
      BY <1>2, <1>3, <2>6
    <3>2. A[s[K]] = r[K]
      <4>1. 1 <= K /\ K <= K /\ K <= M
        BY <1>3, <2>6
      <4> QED
        BY <2>3, <4>1
    <3>3. Yes
      BY <2>6, <3>1, <3>2, HashPassed
    <3>4. Matches(F, T)
      <4>1. ASSUME NEW i \in 1 .. K - 1 PROVE LevelMatches(F[i], T[i])
        <5>1. i \in Nat /\ 1 <= i /\ i < K /\ i <= M
          BY <2>6
        <5> QED
          BY <2>2, <5>1
      <4> QED
        BY <1>5, <2>6, <4>1
    <3> QED
      BY <3>3, <3>4
  <2>7. CASE K <= M /\ F[K] # <<"#">>
    <3>1. K \in 1 .. Len(F) /\ K \in 1 .. Len(T) /\ K = Len(F)
      BY <1>2, <1>3, <2>7
    <3>2. A[s[K + 1] - 1] = r[K + 1] - 1
      <4>1. 1 <= K /\ K <= K /\ K <= M
        BY <1>3, <2>7
      <4> QED
        BY <2>4, <2>7, <4>1
    <3>3. PICK b \in Nat, n \in Nat, e \in Nat, Xb \in Nat, c \in Nat, m \in Nat, d \in Nat, Nb \in Nat :
            BothAt(F, T, s, r, x, y, K, b, n, e, Xb, c, m, d, Nb)
      BY <3>1, BothHold
    <3>4. e = s[K + 1] - 1 /\ Xb = Len(x) /\ e = Xb + 1
      BY <3>1, <3>3 DEF BothAt, LevelAt
    <3>5. d = r[K + 1] - 1 /\ Nb = Len(y) /\ (K < Len(T) => d <= Nb) /\ (K = Len(T) => d = Nb + 1)
      BY <3>3 DEF BothAt, LevelAt
    <3>6. A[Xb + 1] = d
      BY <3>2, <3>4, <3>5
    <3>7. d = Nb + 1 <=> K = M
      BY <1>2, <2>7, <3>5
    <3>8. Yes <=> K = M
      BY <3>4, <3>5, <3>6, <3>7
    <3>9. Matches(F, T) <=> K = M
      <4>1. ASSUME K = M, NEW i \in 1 .. K PROVE LevelMatches(F[i], T[i])
        <5>1. i \in Nat /\ 1 <= i /\ i <= K /\ i <= M
          BY <4>1
        <5>2. F[i] # <<"#">>
          BY <1>4, <2>7
        <5> QED
          BY <2>1, <5>1, <5>2
      <4> QED
        BY <1>5, <2>7, <4>1
    <3> QED
      BY <3>8, <3>9
  <2> QED
    BY <2>5, <2>6, <2>7
<1> QED
  BY <1>6, <1>7

\* The characters of topics and filters.
Characters == Letters \cup {"/", "+", "#"}

\* A word has no wildcard and no separator in it.
LEMMA WordsArePlain == \A w \in Word : w \in Seq(Letters) /\ Plain(w)
<1>. SUFFICES ASSUME NEW w \in Word PROVE w \in Seq(Letters) /\ Plain(w)
  OBVIOUS
<1>1. w \in Seq(Letters) /\ w # <<>>
  BY DEF Word
<1>2. PICK n \in Nat : n = Len(w)
  BY <1>1, LenProperties
<1>3. n # 0
  BY <1>1, <1>2, EmptySeq
<1>4. Letters \cap {"/", "+", "#"} = {}
  BY WireAssumption
<1>5. ASSUME NEW i \in 1 .. Len(w) PROVE w[i] \notin {"/", "+", "#"}
  <2>1. w[i] \in Letters
    BY <1>1, ElementOfSeq
  <2> QED
    BY <1>4, <2>1
<1>6. Len(w) >= 1
  BY <1>2, <1>3
<1> QED
  BY <1>1, <1>5, <1>6 DEF Plain

\* A sequence over a set is one over a larger set.
LEMMA WiderSeq == ASSUME NEW S, NEW R, S \subseteq R PROVE Seq(S) \subseteq Seq(R)
<1>. SUFFICES ASSUME NEW q \in Seq(S) PROVE q \in Seq(R)
  OBVIOUS
<1>1. q \in [1 .. Len(q) -> S] /\ Len(q) \in Nat
  BY LenProperties
<1>2. q \in [1 .. Len(q) -> R]
  BY <1>1
<1> QED
  BY <1>1, <1>2, SeqDef

\* The levels of a sequence that is not empty.
LEMMA SomeLevel == ASSUME NEW S, NEW q \in Seq(S), q # <<>> PROVE Len(q) >= 1
<1>1. PICK n \in Nat : n = Len(q)
  BY LenProperties
<1>2. n # 0
  BY <1>1, EmptySeq
<1> QED
  BY <1>1, <1>2

\* The levels of a filter.
LEMMA FilterLevels ==
    ASSUME NEW F \in Filters
    PROVE  /\ F \in Seq(Seq(Characters)) /\ Len(F) >= 1
           /\ \A k \in 1 .. Len(F) :
                 Plain(F[k]) \/ F[k] = <<"+">> \/ (k = Len(F) /\ F[k] = <<"#">>)
<1>1. F \in Seq(Seq(Letters \cup {"+", "#"})) \ {<<>>} /\ IsFilter(F)
  BY WireAssumption
<1>2. Seq(Letters \cup {"+", "#"}) \subseteq Seq(Characters)
  <2>1. Letters \cup {"+", "#"} \subseteq Characters
    BY DEF Characters
  <2> QED
    BY <2>1, WiderSeq
<1>3. Seq(Seq(Letters \cup {"+", "#"})) \subseteq Seq(Seq(Characters))
  BY <1>2, WiderSeq
<1>4. F \in Seq(Seq(Characters)) /\ Len(F) >= 1
  BY <1>1, <1>3, SomeLevel
<1>5. ASSUME NEW k \in 1 .. Len(F)
      PROVE  Plain(F[k]) \/ F[k] = <<"+">> \/ (k = Len(F) /\ F[k] = <<"#">>)
  <2>1. k \in DOMAIN F
    BY <1>4, LenProperties
  <2>2. F[k] \in Word \/ F[k] = <<"+">> \/ (k = Len(F) /\ F[k] = <<"#">>)
    BY <1>1, <2>1 DEF IsFilter
  <2> QED
    BY <2>2, WordsArePlain
<1> QED
  BY <1>4, <1>5

\* The levels of a name.
LEMMA NameLevels ==
    ASSUME NEW T \in TopicNames
    PROVE  /\ T \in Seq(Seq(Characters)) /\ Len(T) >= 1
           /\ \A k \in 1 .. Len(T) : Plain(T[k])
<1>1. T \in Seq(Word) /\ T # <<>>
  BY WireAssumption
<1>2. Word \subseteq Seq(Characters)
  <2>1. Seq(Letters) \subseteq Seq(Characters)
    BY WiderSeq DEF Characters
  <2> QED
    BY <2>1, WordsArePlain
<1>3. T \in Seq(Seq(Characters)) /\ Len(T) >= 1
  BY <1>1, <1>2, WiderSeq, SomeLevel
<1>4. ASSUME NEW k \in 1 .. Len(T) PROVE Plain(T[k])
  BY <1>1, ElementOfSeq, WordsArePlain
<1> QED
  BY <1>3, <1>4

\* The walk of isTopicMatched along any filter and any name.
LEMMA Decided ==
    ASSUME NEW F \in Filters, NEW T \in TopicNames
    PROVE  isTopicMatched(Joined(F), Joined(T)) = Matches(F, T)
<1>1. PICK C : C = Characters
  OBVIOUS
<1>2. "/" \in C
  BY <1>1 DEF Characters
<1>3. /\ F \in Seq(Seq(C)) /\ Len(F) >= 1
      /\ \A k \in 1 .. Len(F) : Plain(F[k]) \/ F[k] = <<"+">> \/ (k = Len(F) /\ F[k] = <<"#">>)
  BY <1>1, FilterLevels
<1>4. T \in Seq(Seq(C)) /\ Len(T) >= 1 /\ \A k \in 1 .. Len(T) : Plain(T[k])
  BY <1>1, NameLevels
<1>5. PICK x, s : x = Joined(F) /\ x \in Seq(C) /\ Layout(x, F, s)
  BY <1>2, <1>3, JoinedLaidOut
<1>6. PICK y, r : y = Joined(T) /\ y \in Seq(C) /\ Layout(y, T, r)
  BY <1>2, <1>4, JoinedLaidOut
<1>7. PICK A : A = Curn(x, y) /\ Walk(x, y, A)
  <2>1. Walk(x, y, Curn(x, y))
    BY <1>5, <1>6, CurnUnfolds
  <2> QED
    BY <2>1
<1>8. Setting(C, F, T, s, r, x, y, A)
  BY <1>2, <1>3, <1>4, <1>5, <1>6, <1>7 DEF Setting
<1>9. A[Len(x) + 1] = Len(y) + 1 <=> Matches(F, T)
  BY <1>8, WalkDecides
<1>10. isTopicMatched(x, y) = (A[Len(x) + 1] = Len(y) + 1)
  BY <1>7 DEF isTopicMatched
<1>11. Matches(F, T) \in BOOLEAN
  BY DEF Matches
<1> QED
  BY <1>5, <1>6, <1>9, <1>10, <1>11

\* isTopicMatched's single walk over the characters decides what a comparison
\* level by level decides: for every filter and every name in correct format,
\* of any length.
THEOREM TopicsMatchHolds == Spec => []TopicsMatch
<1>1. Known => TopicsMatch
  <2>. SUFFICES ASSUME Known, Is("topic"), NEW name \in TopicNames
                PROVE  isTopicMatched(Joined(input.value), Joined(name)) = Matches(input.value, name)
    BY DEF TopicsMatch
  <2>1. input.value \in Filters
    BY DEF Known
  <2> QED
    BY <2>1, Decided
<1> QED
  BY <1>1, KnownHolds, PTL
=============================================================================
