--------------------------- MODULE TransportProofs ---------------------------
(***************************************************************************)
(* What sendPacket's result says about the bytes written, and that         *)
(* readPacket takes the packets from the stream as from a pipe: for every  *)
(* base, for packets of any length, and however write() and recv() cut     *)
(* them.                                                                   *)
(***************************************************************************)
EXTENDS Transport, SequenceTheorems, FiniteSetTheorems, WellFoundedInduction, TLAPS

(* The strengthening of SendOutcome.  What has been written is the beginning of
   buf, not only when the call has returned, and the loop has never been entered
   with the whole packet written. *)
WrittenFromBuf == \A i \in 1..Len(written) : written[i] = BufByte(i)

SendInv ==
    /\ SendTypeOK
    /\ WrittenFromBuf
    /\ written = <<>> \/ Len(written) < 2 * Len(frame)
    /\ sender = "SUCCESS" => Len(written) = Len(frame)
    /\ sender = "FAILURE" => Len(written) # Len(frame)

\* A call of sendPacket starts with nothing written.
LEMMA CallKeeps ==
    ASSUME SendInv, TransportAssumption, NEW f \in Frames, sendPacket(f)
    PROVE  SendInv'
<1>1. f \in Seq(Byte) /\ written' = <<>> /\ frame' = f /\ sender' = "sending"
  BY DEF sendPacket, TransportAssumption
<1>2. Len(written') = 0 /\ written' \in Seq(Byte \cup {Junk})
  BY <1>1, EmptySeq
<1>3. sends' \in Nat
  BY DEF sendPacket, SendInv, SendTypeOK
<1> QED
  BY <1>1, <1>2, <1>3 DEF SendInv, SendTypeOK, WrittenFromBuf

\* A write appends the next bytes of buf.
LEMMA WriteKeeps ==
    ASSUME SendInv, NEW k \in 1..Len(frame), linux_write(k)
    PROVE  SendInv'
<1>. DEFINE more == [i \in 1..k |-> BufByte(Len(written) + i)]
<1>1. /\ frame \in Seq(Byte) /\ Len(frame) \in Nat /\ k \in Nat
      /\ written \in Seq(Byte \cup {Junk}) /\ Len(written) \in Nat
  BY LenProperties DEF SendInv, SendTypeOK
<1>2. \A i \in Nat \ {0} : BufByte(i) \in Byte \cup {Junk}
  BY <1>1, ElementOfSeq DEF BufByte
<1>3. more \in Seq(Byte \cup {Junk}) /\ Len(more) = k
  <2>1. \A i \in 1..k : more[i] \in Byte \cup {Junk}
    BY <1>1, <1>2
  <2> QED
    BY <1>1, <2>1, IsASeq, LenProperties
<1>4. written' = written \o more
  BY DEF linux_write
<1>5. /\ written' \in Seq(Byte \cup {Junk})
      /\ Len(written') = Len(written) + k
      /\ \A i \in 1..(Len(written) + k) :
           written'[i] = IF i <= Len(written) THEN written[i] ELSE more[i - Len(written)]
  BY <1>1, <1>3, <1>4, ConcatProperties
<1>6. frame' = frame /\ sender' = sender /\ sends' = sends /\ sender = "sending"
  BY DEF linux_write
<1>7. WrittenFromBuf'
  <2>1. ASSUME NEW i \in 1..(Len(written) + k) PROVE written'[i] = BufByte(i)
    <3>1. CASE i <= Len(written)
      <4>1. i \in 1..Len(written)
        BY <1>1, <3>1
      <4>2. written[i] = BufByte(i)
        BY <4>1 DEF SendInv, WrittenFromBuf
      <4> QED
        BY <1>5, <3>1, <4>2
    <3>2. CASE i > Len(written)
      <4>1. i - Len(written) \in 1..k /\ Len(written) + (i - Len(written)) = i
        BY <1>1, <3>2
      <4>2. more[i - Len(written)] = BufByte(i)
        BY <4>1
      <4> QED
        BY <1>1, <1>5, <3>2, <4>2
    <3> QED
      BY <1>1, <3>1, <3>2
  <2>2. \A i : BufByte(i)' = BufByte(i)
    BY <1>6 DEF BufByte
  <2>. HIDE DEF more
  <2> QED
    BY <1>5, <2>1, <2>2 DEF WrittenFromBuf
<1>8. Len(written') < 2 * Len(frame)
  BY <1>1, <1>5 DEF linux_write
<1> QED
  BY <1>1, <1>5, <1>6, <1>7, <1>8 DEF SendInv, SendTypeOK

\* The reader's and the peer's steps do not touch the sender.
LEMMA OthersKeep ==
    ASSUME SendInv, UNCHANGED sendVars
    PROVE  SendInv'
  BY DEF SendInv, SendTypeOK, WrittenFromBuf, BufByte, sendVars

\* SendInv is inductive.
LEMMA NextKeeps ==
    ASSUME SendInv, TransportAssumption, [Next]_vars
    PROVE  SendInv'
<1>1. CASE SendReturns
  <2>1. /\ UNCHANGED <<frame, written, sends>>
        /\ sender' = IF Len(written) = Len(frame) THEN "SUCCESS" ELSE "FAILURE"
    BY <1>1 DEF SendReturns, AllWritten
  <2> QED
    BY <2>1 DEF SendInv, SendTypeOK, WrittenFromBuf, BufByte
<1>2. CASE ReadHeader \/ ReadLength \/ LengthTimesOut \/ BodyTimesOut \/ UNCHANGED vars
  <2>1. UNCHANGED sendVars
    BY <1>2 DEF ReadHeader, ReadLength, LengthTimesOut, BodyTimesOut, vars
  <2> QED
    BY <2>1, OthersKeep
<1>3. ASSUME NEW k, ReadBody(k) PROVE SendInv'
  BY <1>3, OthersKeep DEF ReadBody
<1>4. ASSUME NEW p, PeerSends(p) PROVE SendInv'
  BY <1>4, OthersKeep DEF PeerSends
<1> QED
  BY <1>1, <1>2, <1>3, <1>4, CallKeeps, WriteKeeps DEF Next, Sends, Reads

\* A prefix of the packet, or the packet with bytes behind it.
LEMMA InvImpliesOutcome ==
    ASSUME SendInv
    PROVE  SendOutcome
<1>1. /\ frame \in Seq(Byte) /\ Len(frame) \in Nat
      /\ written \in Seq(Byte \cup {Junk}) /\ Len(written) \in Nat
  BY LenProperties DEF SendInv, SendTypeOK
<1>2. \A i \in 1..Len(written) : i <= Len(frame) => written[i] = frame[i]
  BY <1>1 DEF SendInv, WrittenFromBuf, BufByte
<1>3. Len(written) = Len(frame) => written = frame
  <2>. SUFFICES ASSUME Len(written) = Len(frame) PROVE written = frame
    OBVIOUS
  <2>1. frame \in Seq(Byte \cup {Junk})
    BY <1>1
  <2>2. \A i \in 1..Len(written) : written[i] = frame[i]
    BY <1>1, <1>2
  <2> QED
    BY <1>1, <2>1, <2>2, SeqEqual
<1>4. Len(written) < Len(frame) => Begins(written, frame)
  BY <1>1, <1>2 DEF Begins
<1>5. Len(written) > Len(frame) => Begins(frame, written) /\ Len(written) < 2 * Len(frame)
  BY <1>1, <1>2 DEF Begins, SendInv
<1> QED
  BY <1>1, <1>3, <1>4, <1>5 DEF SendOutcome, SendInv

\* sendPacket: SUCCESS means that the packet, and nothing else, was written; a
\* failed call has written nothing, a part, or the packet and less than as much
\* again.
THEOREM SendOutcomeHolds == Spec => []SendOutcome
<1>1. Init => SendInv
  BY EmptySeq DEF Init, SendInv, SendTypeOK, WrittenFromBuf
<1>2. SendInv /\ [Next]_vars => SendInv'
  BY NextKeeps, TransportAssumption
<1>3. SendInv => SendOutcome
  BY InvImpliesOutcome
<1> QED
  BY <1>1, <1>2, <1>3, PTL DEF Spec

-----------------------------------------------------------------------------
(* Numbers *)

\* A set of numbers has a least element: finite sets are well-founded.
LEMMA LeastOf ==
    ASSUME NEW S \in SUBSET Nat, S # {}
    PROVE  \E m \in S : \A n \in S : m <= n
<1>. DEFINE T == {0..n : n \in S}
<1>1. T \subseteq FiniteSubsetsOf(Nat) /\ T # {}
  <2>1. ASSUME NEW n \in S PROVE 0..n \in SUBSET Nat /\ IsFiniteSet(0..n)
    BY FS_Interval
  <2> QED
    BY <2>1 DEF FiniteSubsetsOf
<1>2. PICK I \in T : \A J \in T : <<J, I>> \notin StrictSubsetOrdering(Nat)
  <2>. HIDE DEF T
  <2> QED
    BY <1>1, FS_StrictSubsetOrderingWellFounded, WFMin
<1>3. PICK m \in S : I = 0..m
  OBVIOUS
<1>4. ASSUME NEW n \in S PROVE m <= n
  <2>1. 0..n \in T /\ I \in SUBSET Nat /\ 0..n \in SUBSET Nat
    BY <1>1 DEF FiniteSubsetsOf
  <2>2. ~(0..n \subseteq 0..m /\ 0..n # 0..m)
    BY <1>2, <1>3, <2>1 DEF StrictSubsetOrdering
  <2>3. n < m => 0..n \subseteq 0..m /\ m \notin 0..n /\ m \in 0..m
    OBVIOUS
  <2> QED
    BY <2>2, <2>3
<1> QED
  BY <1>4

\* Complete induction, for a property given as the set of numbers that have it.
LEMMA NumbersBelow ==
    ASSUME NEW S, \A n \in Nat : (\A m \in 0..(n - 1) : m \in S) => n \in S
    PROVE  \A n \in Nat : n \in S
<1>. SUFFICES ASSUME Nat \ S # {} PROVE FALSE
  OBVIOUS
<1>1. PICK n \in Nat \ S : \A m \in Nat \ S : n <= m
  BY LeastOf
<1>2. \A m \in 0..(n - 1) : m \in S
  BY <1>1
<1> QED
  BY <1>1, <1>2

-----------------------------------------------------------------------------
(* The digits of a length *)

\* The right-hand side of encode, for any function in place of it.
Digits(f, n) == IF n < Base THEN <<n>> ELSE <<Base + (n % Base)>> \o f[n \div Base]

Encodes(f, top) == f = [n \in 0..top |-> Digits(f, n)]

\* A number's digits before the last are those of a smaller number.
LEMMA Quotient ==
    ASSUME TransportAssumption, NEW n \in Nat
    PROVE  /\ n \div Base \in Nat /\ n % Base \in 0..(Base - 1)
           /\ n = Base * (n \div Base) + (n % Base)
           /\ n >= Base => n \div Base \in 0..(n - 1)
<1>1. Base \in Nat \ {0, 1}
  BY DEF TransportAssumption
<1>2. n \div Base \in Nat /\ n % Base \in 0..(Base - 1) /\ n = Base * (n \div Base) + (n % Base)
  BY <1>1
<1>3. n >= Base => n \div Base < n
  BY <1>1
<1> QED
  BY <1>2, <1>3

\* The value of such a function at a number.
LEMMA EncodesAt ==
    ASSUME NEW f, NEW top, Encodes(f, top), NEW n \in 0..top
    PROVE  f[n] = Digits(f, n)
<1>1. f = [m \in 0..top |-> Digits(f, m)]
  BY DEF Encodes
<1>2. PICK g : g = [m \in 0..top |-> Digits(f, m)]
  OBVIOUS
<1>3. g[n] = Digits(f, n)
  BY <1>2
<1> QED
  BY <1>1, <1>2, <1>3, Zenon

\* There is such a function up to any number.
LEMMA EncodesExist ==
    ASSUME TransportAssumption
    PROVE  \A top \in Nat : \E f : Encodes(f, top)
<1>. DEFINE S == {top \in Nat : \E f : Encodes(f, top)}
<1>1. ASSUME NEW n \in Nat, \A m \in 0..(n - 1) : m \in S PROVE n \in S
  <2>1. PICK f : n > 0 => Encodes(f, n - 1)
    <3>1. CASE n > 0
      <4>1. n - 1 \in S
        BY <1>1, <3>1
      <4> QED
        BY <4>1
    <3> QED
      BY <1>1, <3>1
  <2>2. PICK g : g = [m \in 0..n |-> IF m = n THEN Digits(f, n) ELSE f[m]]
    OBVIOUS
  <2>3. ASSUME NEW m \in 0..n PROVE g[m] = Digits(f, m) /\ Digits(f, m) = Digits(g, m)
    <3>1. g[m] = Digits(f, m)
      <4>1. CASE m = n
        BY <2>2, <4>1
      <4>2. CASE m # n
        <5>1. n > 0 /\ m \in 0..(n - 1)
          BY <4>2
        <5>2. f[m] = Digits(f, m)
          BY <2>1, <5>1, EncodesAt
        <5> QED
          BY <2>2, <4>2, <5>2
      <4> QED
        BY <4>1, <4>2
    <3>2. m >= Base => g[m \div Base] = f[m \div Base]
      <4>1. SUFFICES ASSUME m >= Base PROVE g[m \div Base] = f[m \div Base]
        OBVIOUS
      <4>2. m \in Nat
        OBVIOUS
      <4>3. m \div Base \in 0..(m - 1)
        BY <4>1, <4>2, Quotient
      <4>4. m \div Base \in 0..n /\ m \div Base # n
        BY <4>2, <4>3
      <4> QED
        BY <2>2, <4>4
    <3>3. ~(m < Base) => m >= Base
      BY DEF TransportAssumption
    <3> QED
      BY <3>1, <3>2, <3>3 DEF Digits
  <2>4. g = [m \in 0..n |-> Digits(g, m)]
    BY <2>2, <2>3
  <2> QED
    BY <1>1, <2>4 DEF Encodes
<1>. HIDE DEF S
<1>2. \A n \in Nat : n \in S
  BY <1>1, NumbersBelow
<1> QED
  BY <1>2 DEF S

\* Any two agree where both are defined.
LEMMA EncodesAgree ==
    ASSUME TransportAssumption, NEW f, NEW g, NEW a \in Nat, NEW b \in Nat,
           Encodes(f, a), Encodes(g, b)
    PROVE  \A n \in Nat : n <= a /\ n <= b => f[n] = g[n]
<1>. DEFINE S == {n \in Nat : n <= a /\ n <= b => f[n] = g[n]}
<1>1. ASSUME NEW n \in Nat, \A m \in 0..(n - 1) : m \in S PROVE n \in S
  <2>. SUFFICES ASSUME n <= a, n <= b PROVE f[n] = g[n]
    OBVIOUS
  <2>1. f[n] = Digits(f, n) /\ g[n] = Digits(g, n)
    <3>1. n \in 0..a /\ n \in 0..b
      OBVIOUS
    <3> QED
      BY <3>1, EncodesAt
  <2>2. n >= Base => f[n \div Base] = g[n \div Base]
    <3>. SUFFICES ASSUME n >= Base PROVE f[n \div Base] = g[n \div Base]
      OBVIOUS
    <3>1. n \div Base \in 0..(n - 1)
      BY Quotient
    <3>2. n \div Base \in S /\ n \div Base <= a /\ n \div Base <= b
      BY <1>1, <3>1
    <3> QED
      BY <3>2
  <2>3. ~(n < Base) => n >= Base
    BY DEF TransportAssumption
  <2> QED
    BY <2>1, <2>2, <2>3 DEF Digits
<1>. HIDE DEF S
<1>2. \A n \in Nat : n \in S
  BY <1>1, NumbersBelow
<1> QED
  BY <1>2 DEF S

\* So encode is what its definition says.
LEMMA EncodeUnfolds ==
    ASSUME TransportAssumption, NEW n \in Nat
    PROVE  encode[n] = Digits(encode, n)
<1>1. PICK pick : pick = [m \in Nat |-> CHOOSE f : Encodes(f, m)]
  OBVIOUS
<1>2. \A m \in Nat : Encodes(pick[m], m)
  BY <1>1, EncodesExist
<1>3. PICK g : g = [m \in Nat |-> pick[m][m]]
  OBVIOUS
<1>4. ASSUME NEW m \in Nat PROVE g[m] = Digits(g, m)
  <2>1. pick[m][m] = Digits(pick[m], m)
    BY <1>2, EncodesAt
  <2>2. m >= Base => pick[m][m \div Base] = g[m \div Base]
    <3>. SUFFICES ASSUME m >= Base PROVE pick[m][m \div Base] = g[m \div Base]
      OBVIOUS
    <3>1. PICK d \in Nat : d = m \div Base /\ d <= m
      <4>1. m \div Base \in 0..(m - 1)
        BY Quotient
      <4> QED
        BY <4>1
    <3>2. pick[m][d] = pick[d][d]
      BY <1>2, <3>1, EncodesAgree
    <3> QED
      BY <1>3, <3>1, <3>2
  <2>3. ~(m < Base) => m >= Base
    BY DEF TransportAssumption
  <2> QED
    BY <1>3, <2>1, <2>2, <2>3 DEF Digits
<1>5. g = [m \in Nat |-> Digits(g, m)]
  BY <1>3, <1>4
<1>6. encode = [m \in Nat |-> Digits(encode, m)]
  BY <1>5 DEF encode, Digits
<1>. HIDE DEF encode
<1> QED
  BY <1>6

\* A length has one byte at least.
LEMMA EncodeTyped ==
    ASSUME TransportAssumption
    PROVE  \A n \in Nat : encode[n] \in Seq(Byte) /\ Len(encode[n]) \in Nat \ {0}
<1>. DEFINE S == {n \in Nat : encode[n] \in Seq(Byte) /\ Len(encode[n]) \in Nat \ {0}}
<1>0. Base \in Nat \ {0, 1}
  BY DEF TransportAssumption
<1>1. ASSUME NEW n \in Nat, \A m \in 0..(n - 1) : m \in S PROVE n \in S
  <2>1. CASE n < Base
    <3>1. PICK s : s = <<n>>
      OBVIOUS
    <3>2. n \in Byte
      BY <1>0, <2>1 DEF Byte
    <3>3. s \in Seq(Byte) /\ Len(s) = 1
      BY <3>1, <3>2
    <3>4. encode[n] = s
      BY <2>1, <3>1, EncodeUnfolds DEF Digits
    <3> QED
      BY <3>3, <3>4
  <2>2. CASE n >= Base
    <3>1. PICK d : d = n \div Base /\ d \in S
      BY <1>1, <2>2, Quotient
    <3>2. PICK b \in Byte : b = Base + (n % Base)
      <4>1. n % Base \in 0..(Base - 1)
        BY Quotient
      <4>2. Base + (n % Base) \in 0..(2 * Base - 1)
        BY <1>0, <4>1
      <4> QED
        BY <4>2 DEF Byte
    <3>3. encode[n] = <<b>> \o encode[d]
      <4>1. ~(n < Base)
        BY <1>0, <2>2
      <4> QED
        BY <3>1, <3>2, <4>1, EncodeUnfolds DEF Digits
    <3>4. <<b>> \in Seq(Byte) /\ Len(<<b>>) = 1
      OBVIOUS
    <3>5. encode[d] \in Seq(Byte) /\ Len(encode[d]) \in Nat
      BY <3>1
    <3>6. PICK s : s = <<b>> \o encode[d]
      OBVIOUS
    <3>7. s \in Seq(Byte) /\ Len(s) = 1 + Len(encode[d])
      BY <3>4, <3>5, <3>6, ConcatProperties
    <3>8. Len(s) \in Nat \ {0}
      BY <3>5, <3>7
    <3>9. encode[n] = s
      BY <3>3, <3>6
    <3> QED
      BY <3>7, <3>8, <3>9
  <2> QED
    BY <1>0, <2>1, <2>2
<1>. HIDE DEF S
<1>2. \A n \in Nat : n \in S
  BY <1>1, NumbersBelow
<1> QED
  BY <1>2 DEF S

-----------------------------------------------------------------------------
(* Sequences *)

\* The first element of a sequence, and what follows it.
LEMMA HeadRest ==
    ASSUME NEW S, NEW x \in S, NEW r \in Seq(S), NEW s, s = <<x>> \o r
    PROVE  /\ s \in Seq(S) /\ Len(s) = 1 + Len(r)
           /\ Head(s) = x /\ SubSeq(s, 2, Len(s)) = r
<1>1. <<x>> \in Seq(S) /\ Len(<<x>>) = 1 /\ <<x>>[1] = x /\ Len(r) \in Nat
  OBVIOUS
<1>2. /\ s \in Seq(S) /\ Len(s) = 1 + Len(r)
      /\ \A i \in 1..(1 + Len(r)) : s[i] = IF i <= 1 THEN <<x>>[i] ELSE r[i - 1]
  BY <1>1, ConcatProperties
<1>3. s # <<>> /\ Head(s) = x
  BY <1>1, <1>2, EmptySeq, HeadTailProperties
<1>4. PICK t : t = Tail(s)
  OBVIOUS
<1>5. t \in Seq(S) /\ Len(t) = Len(r) /\ \A i \in 1..Len(t) : t[i] = s[i + 1]
  BY <1>1, <1>2, <1>3, <1>4, HeadTailProperties
<1>6. \A i \in 1..Len(t) : t[i] = r[i]
  BY <1>1, <1>2, <1>5
<1>7. t = r
  BY <1>5, <1>6, SeqEqual
<1>8. t = SubSeq(s, 2, Len(s))
  BY <1>2, <1>3, <1>4, TailIsSubSeq
<1> QED
  BY <1>2, <1>3, <1>7, <1>8

\* The first k of the elements of u, when t follows u.
Cut(S, s, u, t, k) ==
    \E v, w \in Seq(S) :
        /\ v \o w = u /\ Len(v) = k /\ Len(w) = Len(u) - k
        /\ SubSeq(s, 1, k) = v /\ SubSeq(s, k + 1, Len(s)) = w \o t

\* A stream that begins with u can be cut anywhere in it.
LEMMA FirstOfTwo ==
    ASSUME NEW S, NEW u \in Seq(S), NEW t \in Seq(S), NEW s, s = u \o t, NEW k \in 0..Len(u)
    PROVE  Cut(S, s, u, t, k)
<1>1. Len(u) \in Nat /\ Len(t) \in Nat /\ k \in Nat
  BY LenProperties
<1>2. /\ s \in Seq(S) /\ Len(s) = Len(u) + Len(t)
      /\ \A i \in 1..Len(s) : s[i] = IF i <= Len(u) THEN u[i] ELSE t[i - Len(u)]
  BY <1>1, ConcatProperties
<1>3. PICK v, w : v = SubSeq(u, 1, k) /\ w = SubSeq(u, k + 1, Len(u))
  OBVIOUS
<1>4. \A i \in 1..Len(u) : u[i] \in S
  BY ElementOfSeq
<1>5. v \in Seq(S) /\ Len(v) = k /\ \A i \in 1..k : v[i] = u[i]
  BY <1>1, <1>3, <1>4, SubSeqProperties
<1>6. w \in Seq(S) /\ Len(w) = Len(u) - k /\ \A i \in 1..(Len(u) - k) : w[i] = u[k + i]
  <2>1. \A i \in (k + 1)..Len(u) : u[i] \in S
    BY <1>1, <1>4
  <2> QED
    BY <1>1, <1>3, <2>1, SubSeqProperties
<1>7. v \o w = u
  <2>1. /\ v \o w \in Seq(S) /\ Len(v \o w) = Len(u)
        /\ \A i \in 1..Len(u) : (v \o w)[i] = IF i <= k THEN v[i] ELSE w[i - k]
    BY <1>1, <1>5, <1>6, ConcatProperties
  <2>2. \A i \in 1..Len(u) : (v \o w)[i] = u[i]
    BY <1>1, <1>5, <1>6, <2>1
  <2> QED
    BY <2>1, <2>2, SeqEqual
<1>8. \A i \in 1..Len(s) : s[i] \in S
  BY <1>2, ElementOfSeq
<1>9. SubSeq(s, 1, k) = v
  <2>1. PICK x : x = SubSeq(s, 1, k)
    OBVIOUS
  <2>2. \A i \in 1..k : s[i] \in S /\ s[i] = u[i]
    BY <1>1, <1>2, <1>8
  <2>3. x \in Seq(S) /\ Len(x) = k /\ \A i \in 1..k : x[i] = s[i]
    BY <1>1, <2>1, <2>2, SubSeqProperties
  <2>4. \A i \in 1..Len(x) : x[i] = v[i]
    BY <1>5, <2>2, <2>3
  <2>5. x = v
    BY <1>5, <2>3, <2>4, SeqEqual
  <2> QED
    BY <2>1, <2>5
<1>10. SubSeq(s, k + 1, Len(s)) = w \o t
  <2>1. PICK x : x = SubSeq(s, k + 1, Len(s))
    OBVIOUS
  <2>2. \A i \in (k + 1)..Len(s) : s[i] \in S
    BY <1>1, <1>8
  <2>3. x \in Seq(S) /\ Len(x) = Len(s) - k /\ \A i \in 1..(Len(s) - k) : x[i] = s[k + i]
    BY <1>1, <1>2, <2>1, <2>2, SubSeqProperties
  <2>4. /\ w \o t \in Seq(S) /\ Len(w \o t) = Len(s) - k
        /\ \A i \in 1..(Len(s) - k) :
             (w \o t)[i] = IF i <= Len(u) - k THEN w[i] ELSE t[i - (Len(u) - k)]
    <3>1. /\ w \o t \in Seq(S) /\ Len(w \o t) = Len(w) + Len(t)
          /\ \A i \in 1..(Len(w) + Len(t)) :
               (w \o t)[i] = IF i <= Len(w) THEN w[i] ELSE t[i - Len(w)]
      BY <1>6, ConcatProperties
    <3>2. Len(w) + Len(t) = Len(s) - k
      BY <1>1, <1>2, <1>6
    <3> QED
      BY <1>6, <3>1, <3>2, Zenon
  <2>5. ASSUME NEW i \in 1..Len(x) PROVE x[i] = (w \o t)[i]
    <3>1. /\ i \in 1..(Len(s) - k) /\ k + i \in 1..Len(s)
          /\ (k + i) - Len(u) = i - (Len(u) - k)
      BY <1>1, <1>2, <2>3
    <3>2. CASE i <= Len(u) - k
      <4>1. k + i <= Len(u) /\ i \in 1..(Len(u) - k)
        BY <1>1, <3>2
      <4> QED
        BY <1>2, <1>6, <2>3, <2>4, <3>1, <3>2, <4>1
    <3>3. CASE ~(i <= Len(u) - k)
      <4>1. ~(k + i <= Len(u))
        BY <1>1, <3>1, <3>3
      <4> QED
        BY <1>2, <2>3, <2>4, <3>1, <3>3, <4>1
    <3> QED
      BY <3>2, <3>3
  <2>6. x = w \o t
    BY <2>3, <2>4, <2>5, SeqEqual
  <2> QED
    BY <2>1, <2>6
<1> QED
  BY <1>5, <1>6, <1>7, <1>9, <1>10 DEF Cut

-----------------------------------------------------------------------------
(* Types *)

\* The parts of a packet, and its bytes.
LEMMA FrameTyped ==
    ASSUME TransportAssumption, NEW p \in Packet
    PROVE  /\ p.type \in Byte /\ p.body \in Seq(Byte) /\ Len(p.body) \in Nat
           /\ p = [type |-> p.type, body |-> p.body]
           /\ encode[Len(p.body)] \in Seq(Byte)
           /\ FrameOf(p) = <<p.type>> \o (encode[Len(p.body)] \o p.body)
           /\ FrameOf(p) \in Seq(Byte)
<1>1. /\ p.type \in Byte /\ p.body \in Seq(Byte) /\ Len(p.body) \in Nat
      /\ p = [type |-> p.type, body |-> p.body]
  BY LenProperties DEF Packet, TransportAssumption
<1>2. PICK e : e = encode[Len(p.body)]
  OBVIOUS
<1>3. e \in Seq(Byte)
  BY <1>1, <1>2, EncodeTyped
<1>4. PICK x, b : x = <<p.type>> /\ b = p.body
  OBVIOUS
<1>5. x \in Seq(Byte) /\ b \in Seq(Byte)
  BY <1>1, <1>4
<1>6. (x \o e) \o b = x \o (e \o b)
  BY <1>3, <1>5, ConcatAssociative
<1>7. (x \o e) \o b \in Seq(Byte)
  BY <1>3, <1>5, ConcatProperties
<1>8. FrameOf(p) = (x \o e) \o b
  BY <1>2, <1>4 DEF FrameOf
<1> QED
  BY <1>1, <1>2, <1>3, <1>4, <1>6, <1>7, <1>8

\* What recv() leaves, and the byte it returns.
LEMMA RecvTyped ==
    ASSUME stream \in Seq(Byte), NEW k \in Nat, Recv(k)
    PROVE  /\ stream' \in Seq(Byte) /\ SubSeq(stream, 1, k) \in Seq(Byte)
           /\ Len(SubSeq(stream, 1, k)) = k
           /\ k = 1 => stream # <<>> /\ Head(stream) \in Byte
<1>1. Len(stream) \in Nat /\ k <= Len(stream) /\ \A i \in 1..Len(stream) : stream[i] \in Byte
  BY LenProperties, ElementOfSeq DEF Recv
<1>2. SubSeq(stream, k + 1, Len(stream)) \in Seq(Byte)
  <2>1. \A i \in (k + 1)..Len(stream) : stream[i] \in Byte
    BY <1>1
  <2> QED
    BY <1>1, <2>1, SubSeqProperties
<1>3. SubSeq(stream, 1, k) \in Seq(Byte) /\ Len(SubSeq(stream, 1, k)) = k
  <2>1. \A i \in 1..k : stream[i] \in Byte
    BY <1>1
  <2> QED
    BY <1>1, <2>1, SubSeqProperties
<1>4. k = 1 => stream # <<>>
  BY <1>1, EmptySeq
<1> QED
  BY <1>2, <1>3, <1>4, HeadTailProperties DEF Recv

\* A packet as readPacket returns it.
Read == [type : Byte, body : Seq(Byte)]

\* The reader's half of TypeOK.
ReadTypeOK ==
    /\ stream \in Seq(Byte)
    /\ reader \in Reader
    /\ Len(reader.body) <= reader.value
    /\ published \in Seq(Packet)
    /\ received \in Seq(Read)
    /\ torn \in BOOLEAN

\* TypeOK is its parts for the two directions.
LEMMA TypeParts == TypeOK <=> SendTypeOK /\ ReadTypeOK
  BY DEF TypeOK, ReadTypeOK, Read

\* The reader that no packet has reached is one.
LEMMA AtHeaderTyped ==
    ASSUME TransportAssumption
    PROVE  AtHeader \in Reader /\ Len(AtHeader.body) <= AtHeader.value
<1>1. 0 \in Byte
  BY DEF TransportAssumption, Byte
<1>2. PICK e : e = <<>> /\ e \in Seq(Byte) /\ Len(e) = 0
  BY EmptySeq
<1> QED
  BY <1>1, <1>2 DEF AtHeader, Reader

\* The parts of a reader.
LEMMA ReaderParts ==
    ASSUME NEW r \in Reader
    PROVE  /\ r.phase \in {"header", "length", "body"} /\ r.type \in Byte
           /\ r.value \in Nat /\ r.multiplier \in Nat /\ r.len \in Nat
           /\ r.body \in Seq(Byte) /\ Len(r.body) \in Nat
<1>1. /\ r.phase \in {"header", "length", "body"} /\ r.type \in Byte
      /\ r.value \in Nat /\ r.multiplier \in Nat /\ r.len \in Nat /\ r.body \in Seq(Byte)
  BY DEF Reader
<1> QED
  BY <1>1, LenProperties

\* A packet that readPacket returns.
LEMMA ReturnTyped ==
    ASSUME TransportAssumption, ReadTypeOK, NEW r \in Reader, PacketReturned(r)
    PROVE  /\ reader' \in Reader /\ Len(reader'.body) <= reader'.value
           /\ received' \in Seq(Read)
<1>1. PICK p : p = [type |-> r.type, body |-> r.body]
  OBVIOUS
<1>2. p \in Read
  BY <1>1, ReaderParts DEF Read
<1>3. received' = Append(received, p) /\ reader' = AtHeader
  BY <1>1 DEF PacketReturned
<1>4. received \in Seq(Read)
  BY DEF ReadTypeOK
<1> QED
  BY <1>2, <1>3, <1>4, AppendProperties, AtHeaderTyped

\* What readPacket does with a length.
LEMMA KnownTyped ==
    ASSUME TransportAssumption, ReadTypeOK, NEW r \in Reader, Len(r.body) <= r.value,
           LengthKnown(r)
    PROVE  /\ reader' \in Reader /\ Len(reader'.body) <= reader'.value
           /\ received' \in Seq(Read)
<1>1. CASE PacketReturned(r)
  BY <1>1, ReturnTyped
<1>2. CASE AwaitBody(r)
  <2>1. reader' = [r EXCEPT !.phase = "body"] /\ received' = received
    BY <1>2 DEF AwaitBody
  <2>2. reader' \in Reader /\ reader'.body = r.body /\ reader'.value = r.value
    BY <2>1 DEF Reader
  <2> QED
    BY <2>1, <2>2 DEF ReadTypeOK
<1> QED
  BY <1>1, <1>2 DEF LengthKnown

\* The reader after one more digit.
Digit(b) == [reader EXCEPT !.value = @ + (b % Base) * reader.multiplier,
                           !.multiplier = NextMultiplier, !.len = @ + 1]

\* It is a reader, and what the digit adds to its value.
LEMMA DigitTyped ==
    ASSUME TransportAssumption, ReadTypeOK, NEW b \in Byte, NEW r, r = Digit(b)
    PROVE  /\ r \in Reader /\ Len(r.body) <= r.value
           /\ r.phase = reader.phase /\ r.type = reader.type /\ r.body = reader.body
           /\ r.value = reader.value + (b % Base) * reader.multiplier
           /\ r.multiplier = reader.multiplier * Base
           /\ r.len = reader.len + 1
<1>1. reader \in Reader /\ Len(reader.body) <= reader.value /\ Base \in Nat \ {0} /\ b \in Nat
  BY DEF ReadTypeOK, TransportAssumption, Byte
<1>2. /\ reader.value \in Nat /\ reader.multiplier \in Nat /\ reader.len \in Nat
      /\ reader.body \in Seq(Byte) /\ Len(reader.body) \in Nat
  BY <1>1, ReaderParts
<1>3. PICK d \in Nat : d = b % Base
  BY <1>1
<1>4. PICK add \in Nat : add = d * reader.multiplier
  BY <1>2, <1>3
<1>5. PICK m \in Nat : m = reader.multiplier * Base
  BY <1>1, <1>2
<1>6. r = [reader EXCEPT !.value = reader.value + add, !.multiplier = m, !.len = reader.len + 1]
  BY <1>3, <1>4, <1>5 DEF Digit, NextMultiplier
<1>7. reader.value + add \in Nat /\ Len(reader.body) <= reader.value + add
  BY <1>1, <1>2
<1>8. r \in Reader
  <2>1. PICK v \in Nat, l \in Nat : v = reader.value + add /\ l = reader.len + 1
    BY <1>2
  <2>2. r = [phase |-> reader.phase, type |-> reader.type, value |-> v, multiplier |-> m,
             len |-> l, body |-> reader.body]
    BY <1>1, <1>6, <2>1 DEF Reader
  <2>3. reader.phase \in {"header", "length", "body"} /\ reader.type \in Byte
    BY <1>1, ReaderParts
  <2> QED
    BY <1>2, <2>2, <2>3 DEF Reader
<1>9. /\ r.value = reader.value + add /\ r.multiplier = m /\ r.len = reader.len + 1
      /\ r.phase = reader.phase /\ r.type = reader.type /\ r.body = reader.body
  BY <1>1, <1>6 DEF Reader
<1> QED
  BY <1>3, <1>4, <1>5, <1>7, <1>8, <1>9

\* What a turn of decodePacket's loop does, with the byte it reads.
LEMMA ReadLengthDoes ==
    ASSUME ReadLength
    PROVE  /\ reader.phase = "length" /\ Recv(1) /\ UNCHANGED <<sendVars, published, torn>>
           /\ LET b == Head(stream)
                  r == Digit(Head(stream))
              IN \/ b >= Base /\ r.len < MaxLengthBytes /\ reader' = r /\ UNCHANGED received
                 \/ (b < Base \/ r.len = MaxLengthBytes) /\ LengthKnown(r)
  BY DEF ReadLength, Digit

\* A turn of decodePacket's loop keeps the types, and so do the steps below.
LEMMA ReadLengthTyped ==
    ASSUME TransportAssumption, ReadTypeOK, ReadLength
    PROVE  ReadTypeOK'
<1>1. /\ UNCHANGED <<published, torn>> /\ Recv(1)
      /\ stream \in Seq(Byte) /\ published \in Seq(Packet) /\ torn \in BOOLEAN
      /\ received \in Seq(Read)
  BY ReadLengthDoes DEF ReadTypeOK
<1>2. stream' \in Seq(Byte) /\ Head(stream) \in Byte
  BY <1>1, RecvTyped
<1>3. PICK b : b = Head(stream)
  OBVIOUS
<1>4. PICK r : r = Digit(b)
  OBVIOUS
<1>5. r \in Reader /\ Len(r.body) <= r.value
  BY <1>2, <1>3, <1>4, DigitTyped
<1>6. (reader' = r /\ UNCHANGED received) \/ LengthKnown(r)
  BY <1>3, <1>4, ReadLengthDoes
<1>7. reader' \in Reader /\ Len(reader'.body) <= reader'.value /\ received' \in Seq(Read)
  <2>1. CASE reader' = r /\ UNCHANGED received
    BY <1>1, <1>5, <2>1
  <2>2. CASE LengthKnown(r)
    BY <1>5, <2>2, KnownTyped
  <2> QED
    BY <1>6, <2>1, <2>2
<1> QED
  BY <1>1, <1>2, <1>7 DEF ReadTypeOK

\* The reader after a part of the body.
More(k) == [reader EXCEPT !.body = @ \o SubSeq(stream, 1, k)]

\* It is a reader with k more bytes of its body.
LEMMA MoreTyped ==
    ASSUME ReadTypeOK, NEW k \in Nat, Recv(k), k <= Missing, NEW r, r = More(k)
    PROVE  /\ r \in Reader /\ Len(r.body) <= r.value
           /\ r.phase = reader.phase /\ r.type = reader.type /\ r.value = reader.value
           /\ r.body = reader.body \o SubSeq(stream, 1, k)
           /\ Len(r.body) = Len(reader.body) + k
<1>1. reader \in Reader /\ stream \in Seq(Byte)
  BY DEF ReadTypeOK
<1>2. reader.value \in Nat /\ reader.body \in Seq(Byte) /\ Len(reader.body) \in Nat
  BY <1>1, ReaderParts
<1>3. PICK s : s = SubSeq(stream, 1, k)
  OBVIOUS
<1>4. s \in Seq(Byte) /\ Len(s) = k
  BY <1>1, <1>3, RecvTyped
<1>5. PICK t : t = reader.body \o s
  OBVIOUS
<1>6. t \in Seq(Byte) /\ Len(t) = Len(reader.body) + k
  BY <1>2, <1>4, <1>5, ConcatProperties
<1>7. r = [reader EXCEPT !.body = t]
  BY <1>3, <1>5 DEF More
<1>8. r \in Reader /\ r.body = t
  BY <1>1, <1>6, <1>7 DEF Reader
<1>9. r.phase = reader.phase /\ r.type = reader.type /\ r.value = reader.value
  BY <1>1, <1>7 DEF Reader
<1>10. Len(t) <= reader.value
  BY <1>2, <1>6 DEF Missing
<1> QED
  BY <1>3, <1>5, <1>6, <1>8, <1>9, <1>10

\* What a turn of linux_read's loop does.
LEMMA ReadBodyDoes ==
    ASSUME NEW k, ReadBody(k)
    PROVE  /\ reader.phase = "body" /\ k <= Missing /\ Recv(k)
           /\ UNCHANGED <<sendVars, published, torn>>
           /\ \/ WholeBody(More(k)) /\ PacketReturned(More(k))
              \/ ~WholeBody(More(k)) /\ reader' = More(k) /\ UNCHANGED received
  BY DEF ReadBody, More

\* A part of the body.
LEMMA ReadBodyTyped ==
    ASSUME TransportAssumption, ReadTypeOK, NEW k \in Nat, ReadBody(k)
    PROVE  ReadTypeOK'
<1>1. /\ UNCHANGED <<published, torn>> /\ Recv(k) /\ k <= Missing
      /\ stream \in Seq(Byte) /\ published \in Seq(Packet) /\ torn \in BOOLEAN
      /\ received \in Seq(Read)
  BY ReadBodyDoes DEF ReadTypeOK
<1>2. stream' \in Seq(Byte)
  BY <1>1, RecvTyped
<1>3. PICK r : r = More(k)
  OBVIOUS
<1>4. r \in Reader /\ Len(r.body) <= r.value
  BY <1>1, <1>3, MoreTyped
<1>5. PacketReturned(r) \/ (reader' = r /\ UNCHANGED received)
  BY <1>3, ReadBodyDoes
<1>6. reader' \in Reader /\ Len(reader'.body) <= reader'.value /\ received' \in Seq(Read)
  <2>1. CASE PacketReturned(r)
    BY <1>4, <2>1, ReturnTyped
  <2>2. CASE reader' = r /\ UNCHANGED received
    BY <1>1, <1>4, <2>2
  <2> QED
    BY <1>5, <2>1, <2>2
<1> QED
  BY <1>1, <1>2, <1>6 DEF ReadTypeOK

\* The header byte.
LEMMA ReadHeaderTyped ==
    ASSUME TransportAssumption, ReadTypeOK, ReadHeader
    PROVE  ReadTypeOK' /\ reader' = [AtHeader EXCEPT !.phase = "length", !.type = Head(stream)]
<1>1. /\ Recv(1) /\ UNCHANGED <<published, received, torn>>
      /\ reader' = [AtHeader EXCEPT !.phase = "length", !.type = Head(stream)]
  BY DEF ReadHeader
<1>2. stream' \in Seq(Byte) /\ Head(stream) \in Byte
  BY <1>1, RecvTyped DEF ReadTypeOK
<1>3. PICK b \in Byte : b = Head(stream)
  BY <1>2
<1>4. reader' = [AtHeader EXCEPT !.phase = "length", !.type = b]
  BY <1>1, <1>3
<1>5. PICK e : e = <<>> /\ e \in Seq(Byte) /\ Len(e) = 0
  BY EmptySeq
<1>6. reader' \in Reader /\ Len(reader'.body) <= reader'.value
  <2>1. reader' = [phase |-> "length", type |-> b, value |-> 0, multiplier |-> 1, len |-> 0,
                   body |-> e]
    BY <1>4, <1>5 DEF AtHeader
  <2> QED
    BY <1>5, <2>1 DEF Reader
<1> QED
  BY <1>1, <1>2, <1>6 DEF ReadTypeOK

\* A packet from the peer.
LEMMA PeerTyped ==
    ASSUME TransportAssumption, ReadTypeOK, NEW p \in Packet, PeerSends(p)
    PROVE  ReadTypeOK'
<1>1. /\ published' = Append(published, p) /\ stream' = stream \o FrameOf(p)
      /\ UNCHANGED <<reader, received, torn>>
  BY DEF PeerSends
<1>2. PICK f : f = FrameOf(p) /\ f \in Seq(Byte)
  BY FrameTyped
<1>3. stream' \in Seq(Byte)
  <2>1. stream \in Seq(Byte) /\ stream' = stream \o f
    BY <1>1, <1>2 DEF ReadTypeOK
  <2> QED
    BY <1>2, <2>1, ConcatProperties
<1>4. published' \in Seq(Packet)
  BY <1>1, AppendProperties DEF ReadTypeOK
<1> QED
  BY <1>1, <1>3, <1>4 DEF ReadTypeOK

\* The reader's half of TypeOK is inductive.
LEMMA ReadTypesKept ==
    ASSUME TransportAssumption, ReadTypeOK, [Next]_vars
    PROVE  ReadTypeOK'
<1>1. CASE LengthTimesOut
  <2>1. LengthKnown(reader) /\ torn' = TRUE /\ UNCHANGED <<stream, published>>
    BY <1>1 DEF LengthTimesOut
  <2>2. reader' \in Reader /\ Len(reader'.body) <= reader'.value /\ received' \in Seq(Read)
    BY <2>1, KnownTyped DEF ReadTypeOK
  <2> QED
    BY <2>1, <2>2 DEF ReadTypeOK
<1>2. CASE BodyTimesOut
  <2>1. reader' = AtHeader /\ torn' = TRUE /\ UNCHANGED <<stream, published, received>>
    BY <1>2 DEF BodyTimesOut
  <2> QED
    BY <2>1, AtHeaderTyped DEF ReadTypeOK
<1>3. CASE UNCHANGED readVars
  BY <1>3 DEF readVars, ReadTypeOK
<1>4. ASSUME NEW f \in Frames, sendPacket(f) PROVE ReadTypeOK'
  BY <1>3, <1>4 DEF sendPacket
<1>5. CASE Sends
  BY <1>3, <1>5 DEF Sends, SendReturns, linux_write
<1>6. CASE Reads
  <2>1. ASSUME NEW k \in 1..Len(stream), ReadBody(k) PROVE ReadTypeOK'
    <3>1. k \in Nat
      OBVIOUS
    <3> QED
      BY <2>1, <3>1, ReadBodyTyped
  <2> QED
    BY <1>6, <2>1, ReadHeaderTyped, ReadLengthTyped DEF Reads
<1>7. CASE UNCHANGED vars
  BY <1>3, <1>7 DEF vars
<1> QED
  BY <1>1, <1>2, <1>4, <1>5, <1>6, <1>7, PeerTyped DEF Next

\* The types hold at the start.
LEMMA ReadTypesInit ==
    ASSUME TransportAssumption, Init
    PROVE  ReadTypeOK
  BY AtHeaderTyped, EmptySeq DEF Init, ReadTypeOK

-----------------------------------------------------------------------------
(* The packets in the stream *)

\* Concatenation is associative.  (The provers find an instance of it by name.)
Regroups(a, b, c) == (a \o b) \o c = a \o (b \o c)

LEMMA ConcatThree ==
    ASSUME NEW a \in Seq(Byte), NEW b \in Seq(Byte), NEW c \in Seq(Byte)
    PROVE  Regroups(a, b, c)
<1>1. a \in Seq(Byte) /\ b \in Seq(Byte) /\ c \in Seq(Byte)
  OBVIOUS
<1> QED
  BY <1>1, ConcatAssociative DEF Regroups

\* s is what is left of the stream of the packets pub when c of them have been
\* taken from it: f[j] is what is left after j packets.
Follows(pub, s, c) ==
    \E f \in [Nat -> Seq(Byte)] :
        /\ f[c] = s /\ f[Len(pub)] = <<>>
        /\ \A j \in c..(Len(pub) - 1) : f[j] = FrameOf(pub[j + 1]) \o f[j + 1]

\* Nothing is left when all have been taken.
LEMMA FollowsEnd ==
    ASSUME NEW pub, NEW s, Follows(pub, s, Len(pub))
    PROVE  s = <<>>
  BY DEF Follows

\* Otherwise the next packet comes first, and what follows it is left then.
LEMMA FollowsFirst ==
    ASSUME NEW pub \in Seq(Packet), NEW s, NEW c \in Nat, c < Len(pub), Follows(pub, s, c)
    PROVE  \E t \in Seq(Byte) : s = FrameOf(pub[c + 1]) \o t /\ Follows(pub, t, c + 1)
<1>1. PICK f \in [Nat -> Seq(Byte)] :
        /\ f[c] = s /\ f[Len(pub)] = <<>>
        /\ \A j \in c..(Len(pub) - 1) : f[j] = FrameOf(pub[j + 1]) \o f[j + 1]
  BY DEF Follows
<1>2. PICK t \in Seq(Byte) : t = f[c + 1]
  OBVIOUS
<1>3. Len(pub) \in Nat
  BY LenProperties
<1>4. c \in c..(Len(pub) - 1)
  BY <1>3
<1>5. s = FrameOf(pub[c + 1]) \o t
  BY <1>1, <1>2, <1>4
<1>6. \A j \in (c + 1)..(Len(pub) - 1) : f[j] = FrameOf(pub[j + 1]) \o f[j + 1]
  <2>1. \A j \in (c + 1)..(Len(pub) - 1) : j \in c..(Len(pub) - 1)
    BY <1>3
  <2> QED
    BY <1>1, <2>1
<1>7. Follows(pub, t, c + 1)
  BY <1>1, <1>2, <1>6 DEF Follows
<1> QED
  BY <1>5, <1>7

\* A packet that the peer sends comes last.
LEMMA FollowsAppend ==
    ASSUME TransportAssumption, NEW pub \in Seq(Packet), NEW s, NEW c \in Nat, c <= Len(pub),
           Follows(pub, s, c), NEW p \in Packet
    PROVE  Follows(Append(pub, p), s \o FrameOf(p), c)
<1>1. PICK f \in [Nat -> Seq(Byte)] :
        /\ f[c] = s /\ f[Len(pub)] = <<>>
        /\ \A j \in c..(Len(pub) - 1) : f[j] = FrameOf(pub[j + 1]) \o f[j + 1]
  BY DEF Follows
<1>2. PICK n \in Nat : n = Len(pub)
  BY LenProperties
<1>3. PICK F \in Seq(Byte) : F = FrameOf(p)
  BY FrameTyped
<1>4. PICK e \in Seq(Byte) : e = <<>>
  BY EmptySeq
<1>5. PICK pubs : /\ pubs = Append(pub, p) /\ pubs \in Seq(Packet) /\ Len(pubs) = n + 1
                  /\ pubs[n + 1] = p /\ \A i \in 1..n : pubs[i] = pub[i]
  <2>1. pub \in Seq(Packet) /\ p \in Packet
    OBVIOUS
  <2>2. PICK x : x = Append(pub, p)
    OBVIOUS
  <2>3. /\ x \in Seq(Packet) /\ Len(x) = Len(pub) + 1
        /\ \A i \in 1..Len(pub) : x[i] = pub[i]
        /\ x[Len(pub) + 1] = p
    BY <2>1, <2>2, AppendProperties
  <2> QED
    BY <1>2, <2>2, <2>3
<1>6. PICK g : g = [j \in Nat |-> IF j <= n THEN f[j] \o F ELSE e]
  OBVIOUS
<1>7. g \in [Nat -> Seq(Byte)]
  <2>1. \A j \in Nat : f[j] \o F \in Seq(Byte)
    BY ConcatProperties
  <2> QED
    BY <1>6, <2>1
<1>8. g[c] = s \o F
  BY <1>1, <1>2, <1>6
<1>9. n + 1 \in Nat /\ ~(n + 1 <= n) /\ g[n + 1] = e
  BY <1>6
<1>10. ASSUME NEW j \in c..n PROVE g[j] = FrameOf(pubs[j + 1]) \o g[j + 1]
  <2>0. j \in Nat /\ j <= n /\ j + 1 \in Nat
    BY <1>2
  <2>1. j \in Nat /\ j <= n /\ j + 1 \in Nat /\ g[j] = f[j] \o F
    BY <1>6, <2>0
  <2>2. CASE j < n
    <3>1. j \in c..(Len(pub) - 1) /\ j + 1 \in 1..n /\ j + 1 <= n
      BY <1>2, <2>1, <2>2
    <3>2. pubs[j + 1] = pub[j + 1] /\ pub[j + 1] \in Packet
      BY <1>2, <1>5, <3>1, ElementOfSeq
    <3>3. PICK h \in Seq(Byte) : h = FrameOf(pub[j + 1])
      BY <3>2, FrameTyped
    <3>4. PICK r \in Seq(Byte) : r = f[j + 1]
      BY <2>1
    <3>5. f[j] = h \o r /\ g[j + 1] = r \o F
      BY <1>1, <1>6, <2>1, <3>1, <3>3, <3>4
    <3>6. (h \o r) \o F = h \o (r \o F)
      <4>1. Regroups(h, r, F)
        BY ConcatThree
      <4> QED
        BY <4>1 DEF Regroups
    <3> QED
      BY <2>1, <3>2, <3>3, <3>5, <3>6
  <2>3. CASE j = n
    <3>1. f[j] = e /\ g[j + 1] = e /\ pubs[j + 1] = p
      BY <1>1, <1>2, <1>4, <1>5, <1>9, <2>3
    <3>2. e \o F = F /\ F \o e = F
      BY <1>4, ConcatEmptySeq
    <3> QED
      BY <1>3, <2>1, <3>1, <3>2
  <2>4. j < n \/ j = n
    BY <1>2, <2>0
  <2> QED
    BY <2>2, <2>3, <2>4
<1>11. Follows(pubs, s \o F, c)
  <2>1. Len(pubs) - 1 = n
    BY <1>5
  <2>2. \A j \in c..(Len(pubs) - 1) : g[j] = FrameOf(pubs[j + 1]) \o g[j + 1]
    BY <1>10, <2>1
  <2>3. g[Len(pubs)] = <<>>
    BY <1>4, <1>5, <1>9
  <2> QED
    BY <1>7, <1>8, <2>2, <2>3 DEF Follows
<1> QED
  BY <1>3, <1>5, <1>11

\* At the start nothing has been sent.
LEMMA FollowsNothing == Follows(<<>>, <<>>, 0)
<1>1. PICK f \in [Nat -> Seq(Byte)] : f = [j \in Nat |-> <<>>]
  <2>1. PICK e \in Seq(Byte) : e = <<>>
    BY EmptySeq
  <2>2. [j \in Nat |-> e] \in [Nat -> Seq(Byte)]
    OBVIOUS
  <2> QED
    BY <2>1, <2>2
<1>2. Len(<<>>) = 0 /\ f[0] = <<>>
  BY <1>1, EmptySeq
<1>3. \A j \in 0..(0 - 1) : FALSE
  OBVIOUS
<1> QED
  BY <1>2, <1>3 DEF Follows

-----------------------------------------------------------------------------
(* The reader's invariant *)

\* Some digits of the remaining length have been read; q is what is to come.
InLength(p, t) ==
    /\ reader.phase = "length" /\ reader.body = <<>>
    /\ \E q \in Nat :
         /\ reader.value + q * reader.multiplier = Len(p.body)
         /\ stream = encode[q] \o (p.body \o t)
         /\ reader.len + Len(encode[q]) <= MaxLengthBytes

\* A part of the body has been read; u is what is to come.
InBody(p, t) ==
    /\ reader.phase = "body" /\ reader.value = Len(p.body)
    /\ \E u \in Seq(Byte) : p.body = reader.body \o u /\ stream = u \o t

\* readPacket is at the beginning of a packet, or there is none.
Between ==
    /\ reader.phase = "header" /\ Len(received) <= Len(published)
    /\ Follows(published, stream, Len(received))

\* readPacket has read a part of the next packet, and t follows it.
Inside ==
    /\ Len(received) < Len(published)
    /\ \E t \in Seq(Byte) :
         /\ Follows(published, t, Len(received) + 1)
         /\ reader.type = published[Len(received) + 1].type
         /\ \/ InLength(published[Len(received) + 1], t)
            \/ InBody(published[Len(received) + 1], t)

ReadInv == ReadTypeOK /\ (torn \/ Between \/ Inside)

\* The packet that comes next.
LEMMA NextPacket ==
    ASSUME ReadTypeOK, Len(received) < Len(published)
    PROVE  /\ Len(received) \in Nat /\ Len(published) \in Nat
           /\ published[Len(received) + 1] \in Packet
<1>1. Len(received) \in Nat /\ Len(published) \in Nat /\ published \in Seq(Packet)
  BY LenProperties DEF ReadTypeOK
<1>2. Len(received) + 1 \in 1..Len(published)
  BY <1>1
<1> QED
  BY <1>1, <1>2, ElementOfSeq

\* When it has been returned, readPacket is between two packets again.
LEMMA ReturnKeeps ==
    ASSUME TransportAssumption, ReadTypeOK, Len(received) < Len(published), UNCHANGED published,
           NEW p, p = published[Len(received) + 1], Follows(published, stream', Len(received) + 1),
           NEW r, r.type = p.type, r.body = p.body, PacketReturned(r)
    PROVE  Between' /\ Pipe!Take
<1>1. p \in Packet /\ Len(received) \in Nat /\ Len(published) \in Nat
  BY NextPacket
<1>2. p = [type |-> p.type, body |-> p.body]
  BY <1>1, FrameTyped
<1>3. received' = Append(received, p) /\ reader' = AtHeader
  BY <1>2 DEF PacketReturned
<1>4. Len(received') = Len(received) + 1
  <2>1. p \in Read /\ received \in Seq(Read)
    BY <1>1, <1>2, FrameTyped DEF Read, ReadTypeOK
  <2> QED
    BY <1>3, <2>1, AppendProperties
<1>5. Between'
  BY <1>1, <1>3, <1>4 DEF Between, AtHeader
<1> QED
  BY <1>3, <1>5 DEF Pipe!Take

\* The header byte of the next packet.
LEMMA HeaderKeeps ==
    ASSUME TransportAssumption, LengthsFit, ReadTypeOK, Between, ReadHeader
    PROVE  Inside' /\ UNCHANGED <<published, received>>
<1>1. /\ stream \in Seq(Byte) /\ Recv(1) /\ UNCHANGED <<published, received, torn>>
      /\ published \in Seq(Packet) /\ Len(received) \in Nat /\ Len(published) \in Nat
  BY LenProperties DEF ReadHeader, ReadTypeOK
<1>2. reader' = [AtHeader EXCEPT !.phase = "length", !.type = Head(stream)]
  BY ReadHeaderTyped
<1>3. stream # <<>> /\ stream' = SubSeq(stream, 2, Len(stream))
  BY <1>1, RecvTyped DEF Recv
<1>4. Len(received) < Len(published)
  BY <1>1, <1>3, FollowsEnd DEF Between
<1>5. PICK p \in Packet : p = published[Len(received) + 1]
  BY <1>4, NextPacket
<1>6. PICK t \in Seq(Byte) : stream = FrameOf(p) \o t /\ Follows(published, t, Len(received) + 1)
  BY <1>1, <1>4, <1>5, FollowsFirst DEF Between
<1>7. PICK h \in Byte, e \in Seq(Byte), b \in Seq(Byte) :
        h = p.type /\ e = encode[Len(p.body)] /\ b = p.body /\ FrameOf(p) = <<h>> \o (e \o b)
  <2>1. /\ p.type \in Byte /\ encode[Len(p.body)] \in Seq(Byte) /\ p.body \in Seq(Byte)
        /\ FrameOf(p) = <<p.type>> \o (encode[Len(p.body)] \o p.body)
    BY FrameTyped
  <2> QED
    BY <2>1, Zenon
<1>8. stream = <<h>> \o (e \o (b \o t))
  <2>1. PICK x : x = <<h>> /\ x \in Seq(Byte)
    <3>1. <<h>> \in Seq(Byte)
      OBVIOUS
    <3> QED
      BY <3>1
  <2>2. e \o b \in Seq(Byte) /\ (e \o b) \o t = e \o (b \o t)
    BY ConcatProperties, ConcatAssociative
  <2>3. (x \o (e \o b)) \o t = x \o ((e \o b) \o t)
    BY <2>1, <2>2, ConcatAssociative
  <2> QED
    BY <1>6, <1>7, <2>1, <2>2, <2>3
<1>9. Head(stream) = h /\ stream' = e \o (b \o t)
  <2>1. e \o (b \o t) \in Seq(Byte)
    BY ConcatProperties
  <2> QED
    BY <1>3, <1>8, <2>1, HeadRest
<1>10. /\ reader'.phase = "length" /\ reader'.type = h /\ reader'.body = <<>>
       /\ reader'.value = 0 /\ reader'.multiplier = 1 /\ reader'.len = 0
  BY <1>2, <1>9 DEF AtHeader
<1>11. InLength(p, t)'
  <2>1. PICK q \in Nat : q = Len(p.body)
    BY FrameTyped
  <2>2. Len(encode[q]) <= MaxLengthBytes /\ Len(encode[q]) \in Nat
    <3>1. p.body \in Bodies
      BY DEF Packet
    <3> QED
      BY <2>1, <3>1, EncodeTyped DEF LengthsFit
  <2>3. 0 + q * 1 = q /\ 0 + Len(encode[q]) <= MaxLengthBytes
    BY <2>2
  <2>. HIDE DEF encode
  <2> QED
    BY <1>7, <1>9, <1>10, <2>1, <2>3 DEF InLength
<1> QED
  BY <1>1, <1>4, <1>5, <1>6, <1>7, <1>10, <1>11 DEF Inside

\* A digit has moved from what is to come to the value.
LEMMA Distribute ==
    ASSUME NEW v \in Nat, NEW m \in Nat, NEW q \in Nat, NEW d \in Nat, NEW b \in Nat,
           NEW n \in Nat, n = (b * d) + m, NEW x \in Nat
    PROVE  (v + m * x) + d * (x * b) = v + n * x
  OBVIOUS

\* One digit of the length.
LEMMA LengthKeeps ==
    ASSUME TransportAssumption, ReadTypeOK, Inside, ReadLength
    PROVE  \/ Inside' /\ UNCHANGED <<published, received>>
           \/ Between' /\ Pipe!Take
<1>. DEFINE p == published[Len(received) + 1]
<1>1. /\ stream \in Seq(Byte) /\ Recv(1) /\ UNCHANGED <<published, torn>>
      /\ reader.phase = "length" /\ reader \in Reader
  BY ReadLengthDoes DEF ReadTypeOK
<1>2. Len(received) < Len(published)
  BY DEF Inside
<1>3. /\ p \in Packet /\ p.body \in Seq(Byte) /\ Len(p.body) \in Nat
  BY <1>2, NextPacket, FrameTyped
<1>4. PICK t \in Seq(Byte) :
        Follows(published, t, Len(received) + 1) /\ reader.type = p.type /\ InLength(p, t)
  BY <1>1 DEF Inside, InBody
<1>5. PICK q \in Nat :
         /\ reader.value + q * reader.multiplier = Len(p.body)
         /\ stream = encode[q] \o (p.body \o t)
         /\ reader.len + Len(encode[q]) <= MaxLengthBytes
  BY <1>4 DEF InLength
<1>6. PICK rest \in Seq(Byte) : rest = p.body \o t
  BY <1>3, ConcatProperties
<1>7. stream # <<>> /\ stream' = SubSeq(stream, 2, Len(stream)) /\ Head(stream) \in Byte
  BY <1>1, RecvTyped DEF Recv
<1>8. PICK b \in Byte : b = Head(stream)
  BY <1>7
<1>9. PICK r : r = Digit(b)
  OBVIOUS
<1>10. /\ r \in Reader /\ r.phase = "length" /\ r.type = reader.type /\ r.body = <<>>
       /\ r.value = reader.value + (b % Base) * reader.multiplier
       /\ r.multiplier = reader.multiplier * Base /\ r.len = reader.len + 1
  BY <1>1, <1>4, <1>9, DigitTyped DEF InLength
<1>11. \/ b >= Base /\ r.len < MaxLengthBytes /\ reader' = r /\ UNCHANGED received
       \/ (b < Base \/ r.len = MaxLengthBytes) /\ LengthKnown(r)
  BY <1>8, <1>9, ReadLengthDoes
<1>12. /\ Base \in Nat \ {0, 1} /\ MaxLengthBytes \in Nat /\ b \in Nat
       /\ reader.value \in Nat /\ reader.multiplier \in Nat /\ reader.len \in Nat
  BY <1>1, ReaderParts DEF TransportAssumption, Byte
<1>13. CASE q < Base
  <2>1. encode[q] = <<q>>
    BY <1>13, EncodeUnfolds DEF Digits
  <2>2. q \in Byte
    BY <1>12, <1>13 DEF Byte
  <2>3. b = q /\ stream' = rest
    <3>1. stream = <<q>> \o rest
      BY <1>5, <1>6, <2>1
    <3> QED
      BY <1>7, <1>8, <2>2, <3>1, HeadRest
  <2>4. r.value = Len(p.body)
    <3>1. b % Base = q
      BY <1>12, <1>13, <2>3
    <3> QED
      BY <1>5, <1>10, <3>1
  <2>5. LengthKnown(r)
    BY <1>11, <1>12, <1>13, <2>3
  <2>6. CASE r.value = 0 /\ PacketReturned(r)
    <3>1. p.body = <<>>
      BY <1>3, <2>4, <2>6, EmptySeq
    <3>2. stream' = t
      BY <1>6, <2>3, <3>1, ConcatEmptySeq
    <3>. HIDE DEF p
    <3>3. r.type = p.type /\ r.body = p.body
      BY <1>4, <1>10, <3>1
    <3>. USE DEF p
    <3>4. Between' /\ Pipe!Take
      BY <1>1, <1>2, <1>4, <2>6, <3>2, <3>3, ReturnKeeps
    <3> QED
      BY <3>4
  <2>7. CASE AwaitBody(r)
    <3>1. reader' = [r EXCEPT !.phase = "body"] /\ received' = received
      BY <2>7 DEF AwaitBody
    <3>2. /\ reader'.phase = "body" /\ reader'.type = r.type /\ reader'.value = r.value
          /\ reader'.body = r.body
      BY <1>10, <3>1 DEF Reader
    <3>3. reader'.body \o p.body = p.body
      BY <1>3, <1>10, <3>2, ConcatEmptySeq
    <3>4. InBody(p, t)'
      BY <1>1, <1>3, <1>6, <2>3, <2>4, <3>1, <3>2, <3>3 DEF InBody
    <3> QED
      BY <1>1, <1>2, <1>4, <1>10, <3>1, <3>2, <3>4 DEF Inside
  <2> QED
    BY <2>5, <2>6, <2>7 DEF LengthKnown
<1>14. CASE q >= Base
  <2>1. PICK d \in Nat, m \in Nat :
           /\ d = q \div Base /\ m = q % Base /\ m < Base /\ q = (Base * d) + m
    <3>1. /\ q \div Base \in Nat /\ q % Base \in 0..(Base - 1)
          /\ q = Base * (q \div Base) + (q % Base)
      BY Quotient
    <3>2. q % Base \in Nat /\ q % Base < Base
      BY <1>12, <3>1
    <3> QED
      BY <3>1, <3>2
  <2>2. encode[q] = <<Base + m>> \o encode[d]
    <3>1. ~(q < Base)
      BY <1>12, <1>14
    <3> QED
      BY <2>1, <3>1, EncodeUnfolds DEF Digits
  <2>3. Base + m \in Byte /\ (Base + m) % Base = m
    <3>1. m \in Nat /\ m < Base
      BY <2>1
    <3>2. (Base + m) % Base = m
      BY <1>12, <3>1
    <3> QED
      BY <1>12, <3>1, <3>2 DEF Byte
  <2>4. PICK e \in Seq(Byte) : e = encode[d] /\ Len(e) \in Nat \ {0}
    BY EncodeTyped
  <2>5. stream = <<Base + m>> \o (e \o rest)
    <3>1. PICK x \in Seq(Byte) : x = <<Base + m>>
      <4>1. PICK c \in Byte : c = Base + m
        BY <2>3
      <4>2. <<c>> \in Seq(Byte)
        OBVIOUS
      <4> QED
        BY <4>1, <4>2
    <3>2. (x \o e) \o rest = x \o (e \o rest)
      <4>1. Regroups(x, e, rest)
        BY ConcatThree
      <4> QED
        BY <4>1 DEF Regroups
    <3> QED
      BY <1>5, <1>6, <2>2, <2>4, <3>1, <3>2
  <2>6. b = Base + m /\ stream' = e \o rest
    <3>1. e \o rest \in Seq(Byte)
      BY ConcatProperties
    <3> QED
      BY <1>7, <1>8, <2>3, <2>5, <3>1, HeadRest
  <2>7. Len(encode[q]) = 1 + Len(e)
    <3>1. e = e /\ encode[q] = <<Base + m>> \o e
      BY <2>2, <2>4
    <3> QED
      BY <2>3, <3>1, HeadRest
  <2>8. r.len + Len(e) <= MaxLengthBytes /\ r.len < MaxLengthBytes
    <3>1. PICK n \in Nat \ {0} : n = Len(e)
      BY <2>4
    <3>2. reader.len + (1 + n) <= MaxLengthBytes
      BY <1>5, <2>7, <3>1
    <3>3. PICK l \in Nat, max \in Nat : l = reader.len /\ max = MaxLengthBytes
      BY <1>12
    <3>4. (l + 1) + n <= max /\ l + 1 < max
      BY <3>2, <3>3
    <3> QED
      BY <1>10, <3>1, <3>3, <3>4
  <2>9. reader' = r /\ received' = received
    BY <1>11, <1>12, <2>1, <2>6, <2>8
  <2>10. r.value + d * r.multiplier = Len(p.body)
    <3>1. b % Base = m
      BY <2>3, <2>6
    <3>2. (reader.value + m * reader.multiplier) + d * (reader.multiplier * Base)
            = reader.value + q * reader.multiplier
      <4>1. PICK v \in Nat, x \in Nat : v = reader.value /\ x = reader.multiplier
        BY <1>12
      <4>2. PICK B \in Nat : B = Base
        BY <1>12
      <4>3. m \in Nat /\ d \in Nat /\ q \in Nat /\ q = (B * d) + m
        BY <2>1, <4>2
      <4>4. (v + m * x) + d * (x * B) = v + q * x
        BY <4>3, Distribute
      <4> QED
        BY <4>1, <4>2, <4>4
    <3> QED
      BY <1>5, <1>10, <3>1, <3>2
  <2>11. InLength(p, t)'
    <3>. HIDE DEF encode
    <3> QED
      BY <1>1, <1>6, <1>10, <2>4, <2>6, <2>8, <2>9, <2>10 DEF InLength
  <2> QED
    BY <1>1, <1>2, <1>4, <1>10, <2>9, <2>11 DEF Inside
<1> QED
  BY <1>12, <1>13, <1>14

\* A part of the body, or the last of it.
LEMMA BodyKeeps ==
    ASSUME TransportAssumption, ReadTypeOK, Inside, NEW k \in Nat, ReadBody(k)
    PROVE  \/ Inside' /\ UNCHANGED <<published, received>>
           \/ Between' /\ Pipe!Take
<1>. DEFINE p == published[Len(received) + 1]
<1>1. /\ stream \in Seq(Byte) /\ Recv(k) /\ k <= Missing /\ UNCHANGED <<published, torn>>
      /\ reader.phase = "body" /\ reader \in Reader
  BY ReadBodyDoes DEF ReadTypeOK
<1>2. Len(received) < Len(published)
  BY DEF Inside
<1>3. /\ p \in Packet /\ p.body \in Seq(Byte) /\ Len(p.body) \in Nat
  BY <1>2, NextPacket, FrameTyped
<1>4. PICK t \in Seq(Byte) :
        Follows(published, t, Len(received) + 1) /\ reader.type = p.type /\ InBody(p, t)
  BY <1>1 DEF Inside, InLength
<1>5. PICK u \in Seq(Byte) : p.body = reader.body \o u /\ stream = u \o t
  BY <1>4 DEF InBody
<1>6. PICK y \in Seq(Byte) : y = reader.body
  BY <1>1, ReaderParts
<1>7. Len(y) \in Nat /\ Len(u) \in Nat /\ Len(p.body) = Len(y) + Len(u)
  BY <1>5, <1>6, ConcatProperties, LenProperties
<1>8. reader.value = Len(p.body) /\ k \in 0..Len(u)
  BY <1>1, <1>4, <1>6, <1>7 DEF InBody, Missing
<1>9. PICK v \in Seq(Byte), w \in Seq(Byte) :
         /\ v \o w = u /\ Len(v) = k /\ Len(w) = Len(u) - k
         /\ SubSeq(stream, 1, k) = v /\ SubSeq(stream, k + 1, Len(stream)) = w \o t
  <2>1. u \in Seq(Byte) /\ t \in Seq(Byte)
    OBVIOUS
  <2>2. PICK s : s = stream /\ s = u \o t
    BY <1>5
  <2>3. Cut(Byte, s, u, t, k)
    <3>1. k \in 0..Len(u) /\ s = u \o t
      BY <1>8, <2>2
    <3> QED
      BY <2>1, <3>1, FirstOfTwo
  <2> QED
    BY <2>2, <2>3 DEF Cut
<1>10. stream' = w \o t
  BY <1>1, <1>9 DEF Recv
<1>11. PICK r : r = More(k)
  OBVIOUS
<1>12. /\ r \in Reader /\ r.phase = "body" /\ r.type = reader.type /\ r.value = reader.value
       /\ r.body = y \o v /\ Len(r.body) = Len(y) + k
  BY <1>1, <1>6, <1>9, <1>11, MoreTyped
<1>13. p.body = r.body \o w
  <2>1. (y \o v) \o w = y \o (v \o w)
    <3>1. Regroups(y, v, w)
      BY ConcatThree
    <3> QED
      BY <3>1 DEF Regroups
  <2> QED
    BY <1>5, <1>6, <1>9, <1>12, <2>1
<1>14. \/ WholeBody(r) /\ PacketReturned(r)
       \/ ~WholeBody(r) /\ reader' = r /\ UNCHANGED received
  BY <1>11, ReadBodyDoes
<1>15. CASE WholeBody(r) /\ PacketReturned(r)
  <2>1. Len(w) = 0
    BY <1>7, <1>8, <1>9, <1>12, <1>15 DEF WholeBody
  <2>2. w = <<>>
    BY <2>1, EmptySeq
  <2>3. r.body \in Seq(Byte)
    BY <1>12, ReaderParts
  <2>4. r.body = p.body /\ stream' = t
    BY <1>10, <1>13, <2>2, <2>3, ConcatEmptySeq
  <2>5. r.type = p.type
    BY <1>4, <1>12
  <2>6. Between' /\ Pipe!Take
    BY <1>1, <1>2, <1>4, <1>15, <2>4, <2>5, ReturnKeeps
  <2> QED
    BY <2>6
<1>16. CASE reader' = r /\ UNCHANGED received
  <2>1. InBody(p, t)'
    BY <1>1, <1>8, <1>10, <1>12, <1>13, <1>16 DEF InBody
  <2> QED
    BY <1>1, <1>2, <1>4, <1>12, <1>16, <2>1 DEF Inside
<1> QED
  BY <1>14, <1>15, <1>16

\* The peer sends another packet.
LEMMA PeerKeeps ==
    ASSUME TransportAssumption, ReadTypeOK, NEW p \in Packet, PeerSends(p), Between \/ Inside
    PROVE  Between' \/ Inside'
<1>1. /\ published' = Append(published, p) /\ UNCHANGED <<reader, received, torn>>
      /\ published \in Seq(Packet) /\ Len(received) \in Nat /\ Len(published) \in Nat
  BY LenProperties DEF PeerSends, ReadTypeOK
<1>2. PICK F \in Seq(Byte) : F = FrameOf(p)
  BY FrameTyped
<1>3. stream' = stream \o F
  BY <1>2 DEF PeerSends
<1>4. /\ Len(published') = Len(published) + 1
      /\ \A i \in 1..Len(published) : published'[i] = published[i]
  BY <1>1, AppendProperties
<1>5. CASE Between
  <2>1. Follows(published', stream', Len(received))
    BY <1>1, <1>2, <1>3, <1>5, FollowsAppend DEF Between
  <2> QED
    BY <1>1, <1>4, <1>5, <2>1 DEF Between
<1>6. CASE Inside
  <2>1. Len(received) < Len(published)
    BY <1>6 DEF Inside
  <2>2. PICK n \in Packet : n = published[Len(received) + 1]
    BY <2>1, NextPacket
  <2>3. PICK t \in Seq(Byte) :
          /\ Follows(published, t, Len(received) + 1) /\ reader.type = n.type
          /\ InLength(n, t) \/ InBody(n, t)
    BY <1>6, <2>2 DEF Inside
  <2>4. published'[Len(received) + 1] = n
    BY <1>1, <1>4, <2>1, <2>2
  <2>5. PICK s \in Seq(Byte) : s = t \o F
    BY ConcatProperties
  <2>6. Follows(published', s, Len(received) + 1)
    <3>1. Len(received) + 1 \in Nat /\ Len(received) + 1 <= Len(published)
      BY <1>1, <2>1
    <3> QED
      BY <1>1, <1>2, <2>3, <2>5, <3>1, FollowsAppend
  <2>7. n.body \in Seq(Byte)
    BY FrameTyped
  <2>8. InLength(n, t) => InLength(n, s)'
    <3>. SUFFICES ASSUME InLength(n, t) PROVE InLength(n, s)'
      OBVIOUS
    <3>1. PICK q \in Nat :
             /\ reader.value + q * reader.multiplier = Len(n.body)
             /\ stream = encode[q] \o (n.body \o t)
             /\ reader.len + Len(encode[q]) <= MaxLengthBytes
      BY DEF InLength
    <3>2. PICK e \in Seq(Byte) : e = encode[q]
      BY EncodeTyped
    <3>3. PICK b \in Seq(Byte) : b = n.body \o t
      BY <2>7, ConcatProperties
    <3>4. b \o F = n.body \o s
      <4>1. PICK c \in Seq(Byte) : c = n.body
        BY <2>7
      <4>2. (c \o t) \o F = c \o (t \o F)
        <5>1. Regroups(c, t, F)
          BY ConcatThree
        <5> QED
          BY <5>1 DEF Regroups
      <4> QED
        BY <2>5, <3>3, <4>1, <4>2
    <3>5. (e \o b) \o F = e \o (b \o F)
      <4>1. Regroups(e, b, F)
        BY ConcatThree
      <4> QED
        BY <4>1 DEF Regroups
    <3>6. stream' = encode[q] \o (n.body \o s)
      BY <1>3, <3>1, <3>2, <3>3, <3>4, <3>5
    <3>. HIDE DEF encode
    <3> QED
      BY <1>1, <3>1, <3>6 DEF InLength
  <2>9. InBody(n, t) => InBody(n, s)'
    <3>. SUFFICES ASSUME InBody(n, t) PROVE InBody(n, s)'
      OBVIOUS
    <3>1. PICK u \in Seq(Byte) : n.body = reader.body \o u /\ stream = u \o t
      BY DEF InBody
    <3>2. (u \o t) \o F = u \o s
      BY <2>5, ConcatAssociative
    <3>3. stream' = u \o s
      BY <1>3, <3>1, <3>2
    <3> QED
      BY <1>1, <3>1, <3>3 DEF InBody
  <2> QED
    BY <1>1, <1>4, <2>1, <2>3, <2>4, <2>6, <2>8, <2>9 DEF Inside
<1> QED
  BY <1>5, <1>6

-----------------------------------------------------------------------------
(* The theorems *)

\* Every step is the pipe's, or leaves it alone, unless a read has timed out.
PipeStep == torn' \/ Pipe!Next \/ UNCHANGED <<published, received>>

\* ReadInv is inductive, and what it says of a step.
LEMMA StepKeeps ==
    ASSUME TransportAssumption, LengthsFit, ReadInv, [Next]_vars
    PROVE  ReadInv' /\ PipeStep
<1>1. ReadTypeOK /\ ReadTypeOK'
  BY ReadTypesKept DEF ReadInv
<1>2. CASE LengthTimesOut \/ BodyTimesOut
  BY <1>1, <1>2 DEF LengthTimesOut, BodyTimesOut, ReadInv, PipeStep
<1>3. ASSUME UNCHANGED readVars PROVE ReadInv' /\ PipeStep
  <2>1. UNCHANGED <<stream, reader, published, received, torn>>
    BY <1>3 DEF readVars
  <2>2. Between => Between'
    BY <2>1 DEF Between
  <2>3. Inside => Inside'
    BY <2>1 DEF Inside, InLength, InBody
  <2> QED
    BY <1>1, <2>1, <2>2, <2>3 DEF ReadInv, PipeStep
<1>4. ASSUME NEW f \in Frames, sendPacket(f) PROVE ReadInv' /\ PipeStep
  BY <1>3, <1>4 DEF sendPacket
<1>5. CASE Sends
  BY <1>3, <1>5 DEF Sends, SendReturns, linux_write
<1>6. CASE UNCHANGED vars
  BY <1>3, <1>6 DEF vars
<1>7. ASSUME NEW p \in Packet, PeerSends(p) PROVE ReadInv' /\ PipeStep
  <2>1. Pipe!Put(p) /\ torn' = torn
    BY <1>7 DEF PeerSends, Pipe!Put
  <2>2. torn \/ Between' \/ Inside'
    BY <1>1, <1>7, PeerKeeps DEF ReadInv
  <2> QED
    BY <1>1, <2>1, <2>2 DEF ReadInv, PipeStep, Pipe!Next
<1>8. CASE torn /\ Reads
  <2>1. torn' = torn
    BY <1>8 DEF Reads, ReadHeader, ReadLength, ReadBody
  <2> QED
    BY <1>1, <1>8, <2>1 DEF ReadInv, PipeStep
<1>9. CASE ~torn /\ Reads
  <2>1. CASE ReadHeader
    <3>1. Between
      BY <1>9, <2>1 DEF ReadInv, ReadHeader, Inside, InLength, InBody
    <3> QED
      BY <1>1, <2>1, <3>1, HeaderKeeps DEF ReadInv, PipeStep
  <2>2. CASE ReadLength
    <3>1. Inside
      BY <1>9, <2>2, ReadLengthDoes DEF ReadInv, Between
    <3> QED
      BY <1>1, <2>2, <3>1, LengthKeeps DEF ReadInv, PipeStep, Pipe!Next
  <2>3. ASSUME NEW k \in Nat, ReadBody(k) PROVE ReadInv' /\ PipeStep
    <3>1. Inside
      BY <1>9, <2>3, ReadBodyDoes DEF ReadInv, Between
    <3> QED
      BY <1>1, <2>3, <3>1, BodyKeeps DEF ReadInv, PipeStep, Pipe!Next
  <2>4. \A k \in 1..Len(stream) : k \in Nat
    OBVIOUS
  <2> QED
    BY <1>9, <2>1, <2>2, <2>3, <2>4 DEF Reads
<1> QED
  BY <1>2, <1>4, <1>5, <1>6, <1>7, <1>8, <1>9 DEF Next

\* readPacket returns the packets the peer sent, whole, in their order and each
\* once, for every base, however their bytes come and as long as no read times
\* out inside a packet: Transport implements PacketPipe.
THEOREM InOrderHolds == Spec => InOrder
<1>1. Init => ReadInv /\ Pipe!Init
  <2>. SUFFICES ASSUME Init PROVE ReadInv /\ Pipe!Init
    OBVIOUS
  <2>1. /\ published = <<>> /\ received = <<>> /\ stream = <<>> /\ reader.phase = "header"
    BY DEF Init, AtHeader
  <2>2. Len(received) = 0 /\ Len(published) = 0
    BY <2>1, EmptySeq
  <2>3. Between
    BY <2>1, <2>2, FollowsNothing DEF Between
  <2> QED
    BY <2>1, <2>3, ReadTypesInit, TransportAssumption DEF ReadInv, Pipe!Init
<1>2. ReadInv /\ [Next]_vars => ReadInv' /\ [torn' \/ Pipe!Next]_<<published, received>>
  BY StepKeeps, TransportAssumption, LengthsFit DEF PipeStep
<1> QED
  BY <1>1, <1>2, PTL DEF Spec, InOrder

\* Every value has its type; in particular readPacket has at no moment more bytes
\* of a body than the length it has read says.
THEOREM TransportTypeCorrect == Spec => []TypeOK
<1>1. Init => SendInv /\ ReadTypeOK
  <2>1. Init => SendInv
    BY EmptySeq DEF Init, SendInv, SendTypeOK, WrittenFromBuf
  <2> QED
    BY <2>1, ReadTypesInit, TransportAssumption
<1>2. SendInv /\ ReadTypeOK /\ [Next]_vars => (SendInv /\ ReadTypeOK)'
  BY NextKeeps, ReadTypesKept, TransportAssumption
<1>3. SendInv /\ ReadTypeOK => TypeOK
  BY TypeParts DEF SendInv
<1> QED
  BY <1>1, <1>2, <1>3, PTL DEF Spec
=============================================================================
