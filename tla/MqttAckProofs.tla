----------------------------- MODULE MqttAckProofs -----------------------------
(***************************************************************************)
(* Proofs about MqttSystem: one ping at most is on its way, and a call of  *)
(* the client succeeds on the acknowledgement of the request it sent.      *)
(* Both count packets across the two directions of the connection: what is *)
(* in flight for a request is one packet, in up or in down, until the      *)
(* client has read the answer.                                             *)
(***************************************************************************)
EXTENDS MqttSystemProofs, FiniteSetTheorems

-----------------------------------------------------------------------------
(* Packets of a set A in a sequence of packets *)

Clear(s, A) == \A k \in DOMAIN s : s[k] \notin A
Lone(s, A) == \A j, k \in DOMAIN s : s[j] \in A /\ s[k] \in A => j = k

\* One packet at most is in flight: of A on the way up or of B on the way down.
OneInFlight(A, B) ==
    /\ Lone(up, A) /\ Lone(down, B)
    /\ Clear(up, A) \/ Clear(down, B)

Pings == {p \in UpPacket : p.type = "PINGREQ"}
Pongs == {p \in DownPacket : p.type = "PINGRESP"}

\* OnePing without arithmetic.
PingInv ==
    Heard =>
        /\ OneInFlight(Pings, Pongs)
        /\ ping_outstanding <=> ~(Clear(up, Pings) /\ Clear(down, Pongs))

\* What the client sends to get an acknowledgement of type T, and what comes
\* back: for PUBCOMP that is two exchanges.
UpFor(T) ==
    {p \in UpPacket :
        \/ T = "CONNACK" /\ p.type = "CONNECT"
        \/ T = "SUBACK" /\ p.type = "SUBSCRIBE"
        \/ T = "UNSUBACK" /\ p.type = "UNSUBSCRIBE"
        \/ T = "PUBACK" /\ p.type = "PUBLISH" /\ p.val = 1
        \/ T = "PUBCOMP" /\ p.type = "PUBLISH" /\ p.val = 2
        \/ T = "PUBCOMP" /\ p.type = "PUBREL"}
DownFor(T) ==
    {p \in DownPacket : p.type = T \/ (T = "PUBCOMP" /\ p.type = "PUBREC")}

\* The waits of stack s for an acknowledgement of type T.
WaitsFor(s, T) == {k \in DOMAIN s : s[k] \in WaitFrame /\ s[k].await = T}

\* A wait of stack s for T sent request p; a CONNACK carries no packet id.
Claimed(s, T, p) == \E k \in WaitsFor(s, T) : T = "CONNACK" \/ s[k].id = p.id

\* Unless a call has left acknowledgements of type T to come, one call at most
\* waits for T, one packet at most is in flight for it, and it carries the
\* packet id of the call that waits.
AckInvOf(T) ==
    /\ \A j, k \in WaitsFor(stack, T) : j = k
    /\ OneInFlight(UpFor(T), DownFor(T))
    /\ \A k \in DOMAIN up : up[k] \in UpFor(T) => Claimed(stack, T, up[k])
    /\ \A k \in DOMAIN down : down[k] \in DownFor(T) => Claimed(stack, T, down[k])

AckInv == \A T \in AckTypes \ orphaned : AckInvOf(T)

\* A frame waits for what its call is acknowledged with.
Paired(f) ==
    f \in WaitFrame =>
        /\ f.await = "CONNACK" => f.op = "connect"
        /\ f.op = "yield" => f.await = "none"
        /\ f.op = "subscribe" => f.await = "SUBACK"
PairedIn(s) == \A k \in DOMAIN s : Paired(s[k])

-----------------------------------------------------------------------------
(* Sequences of packets *)

\* What t holds of A was in s, and t holds one if s does.
Thins(s, t, A) ==
    /\ \A k \in DOMAIN t : t[k] \in A => \E j \in DOMAIN s : s[j] = t[k]
    /\ Lone(s, A) => Lone(t, A)

\* Appending what is not of A.
LEMMA AppendThins ==
    ASSUME NEW S, NEW s \in Seq(S), NEW p \in S, NEW A, p \notin A
    PROVE  /\ Thins(s, Append(s, p), A)
           /\ Clear(Append(s, p), A) => Clear(s, A)
<1>1. /\ DOMAIN s = 1..Len(s) /\ Len(s) \in Nat
      /\ DOMAIN Append(s, p) = 1..(Len(s) + 1)
      /\ \A i \in 1..Len(s) : Append(s, p)[i] = s[i]
      /\ Append(s, p)[Len(s) + 1] = p
  BY AppendProperties, LenProperties
<1>2. PICK t : t = Append(s, p)
  OBVIOUS
<1>3. \A k \in DOMAIN t : t[k] \in A => k \in DOMAIN s /\ s[k] = t[k]
  BY <1>1, <1>2
<1>4. \A k \in DOMAIN s : k \in DOMAIN t /\ t[k] = s[k]
  BY <1>1, <1>2
<1>5. Thins(s, t, A)
  BY <1>3 DEF Thins, Lone
<1>6. Clear(t, A) => Clear(s, A)
  BY <1>4 DEF Clear
<1> QED
  BY <1>2, <1>5, <1>6

\* Appending one of A where there is none.
LEMMA AppendLone ==
    ASSUME NEW S, NEW s \in Seq(S), NEW p \in S, NEW A, Clear(s, A)
    PROVE  /\ Lone(Append(s, p), A)
           /\ \A k \in DOMAIN Append(s, p) : Append(s, p)[k] \in A => Append(s, p)[k] = p
           /\ p \in A => ~Clear(Append(s, p), A)
<1>1. /\ DOMAIN s = 1..Len(s) /\ Len(s) \in Nat
      /\ DOMAIN Append(s, p) = 1..(Len(s) + 1)
      /\ \A i \in 1..Len(s) : Append(s, p)[i] = s[i]
      /\ Append(s, p)[Len(s) + 1] = p
  BY AppendProperties, LenProperties
<1>2. PICK t : t = Append(s, p)
  OBVIOUS
<1>3. \A k \in DOMAIN t : t[k] \in A => k = Len(s) + 1
  BY <1>1, <1>2 DEF Clear
<1>4. t[Len(s) + 1] = p /\ Len(s) + 1 \in DOMAIN t
  BY <1>1, <1>2
<1> QED
  BY <1>2, <1>3, <1>4 DEF Lone, Clear

\* The first packet, and what is left without it.
LEMMA TailFacts ==
    ASSUME NEW S, NEW s \in Seq(S), s # <<>>, NEW A
    PROVE  /\ Head(s) \in S /\ Tail(s) \in Seq(S)
           /\ 1 \in DOMAIN s /\ s[1] = Head(s)
           /\ Thins(s, Tail(s), A)
           /\ Head(s) \notin A /\ Clear(Tail(s), A) => Clear(s, A)
           /\ Head(s) \in A /\ Lone(s, A) => Clear(Tail(s), A)
<1>1. /\ Head(s) \in S /\ Tail(s) \in Seq(S)
      /\ Head(s) = s[1]
      /\ Len(Tail(s)) = Len(s) - 1
      /\ \A i \in 1..Len(Tail(s)) : Tail(s)[i] = s[i + 1]
  BY HeadTailProperties
<1>2. Len(s) \in Nat \ {0} /\ DOMAIN s = 1..Len(s)
  BY EmptySeq, LenProperties
<1>3. PICK t \in Seq(S) : t = Tail(s)
  BY <1>1
<1>4. DOMAIN t = 1..(Len(s) - 1) /\ \A k \in DOMAIN t : t[k] = s[k + 1]
  BY <1>1, <1>3, LenProperties
<1>5. 1 \in DOMAIN s /\ \A k \in DOMAIN t : k + 1 \in DOMAIN s /\ k + 1 # 1
  BY <1>2, <1>4
<1>6. \A k \in DOMAIN t : t[k] \in A => \E j \in DOMAIN s : s[j] = t[k]
  BY <1>4, <1>5
<1>7. ASSUME Lone(s, A) PROVE Lone(t, A)
  <2>. SUFFICES ASSUME NEW j \in DOMAIN t, NEW k \in DOMAIN t, t[j] \in A, t[k] \in A
                PROVE  j = k
    BY DEF Lone
  <2>1. j + 1 = k + 1
    BY <1>4, <1>5, <1>7 DEF Lone
  <2> QED
    BY <2>1, <1>2, <1>4
<1>8. ASSUME Head(s) \notin A, Clear(t, A) PROVE Clear(s, A)
  <2>. SUFFICES ASSUME NEW k \in DOMAIN s PROVE s[k] \notin A
    BY DEF Clear
  <2>1. CASE k = 1
    BY <1>1, <1>8, <2>1
  <2>2. CASE k # 1
    <3>1. k - 1 \in DOMAIN t /\ (k - 1) + 1 = k
      BY <1>2, <1>4, <2>2
    <3>2. t[k - 1] = s[k]
      BY <1>4, <3>1
    <3> QED
      BY <1>8, <3>1, <3>2 DEF Clear
  <2> QED
    BY <2>1, <2>2
<1>9. ASSUME Head(s) \in A, Lone(s, A) PROVE Clear(t, A)
  BY <1>1, <1>4, <1>5, <1>9 DEF Lone, Clear
<1> QED
  BY <1>1, <1>3, <1>5, <1>6, <1>7, <1>8, <1>9 DEF Thins

\* A prefix.
LEMMA PrefixThins ==
    ASSUME NEW S, NEW s \in Seq(S), NEW n \in Int, n <= Len(s), NEW A
    PROVE  Thins(s, SubSeq(s, 1, n), A)
<1>1. PICK t : t = SubSeq(s, 1, n)
  OBVIOUS
<1>2. \A k \in DOMAIN t : k \in DOMAIN s /\ t[k] = s[k]
  BY <1>1, PrefixType
<1> QED
  BY <1>1, <1>2 DEF Thins, Lone

\* A sequence of A without any.
LEMMA ThinsClear ==
    ASSUME NEW s, NEW t, NEW A, Thins(s, t, A), Clear(s, A)
    PROVE  Clear(t, A)
  BY DEF Thins, Clear

\* Nothing was added to either direction.
LEMMA FlightThins ==
    ASSUME NEW A, NEW B, OneInFlight(A, B), Thins(up, up', A), Thins(down, down', B)
    PROVE  OneInFlight(A, B)'
<1>1. Clear(up, A) => Clear(up', A)
  BY DEF Thins, Clear
<1>2. Clear(down, B) => Clear(down', B)
  BY DEF Thins, Clear
<1>3. Lone(up', A) /\ Lone(down', B)
  BY DEF OneInFlight, Thins
<1> QED
  BY <1>1, <1>2, <1>3 DEF OneInFlight

-----------------------------------------------------------------------------
(* What the client sends *)

\* The four outcomes of a write, as they change up.
LEMMA SendCases ==
    ASSUME LinkTypeOK, LinkAssumption, ClientAssumption, NEW p \in UpPacket, NEW outcome,
           NEW late, sendPacket(p, outcome, late)
    PROVE  /\ Garbage \in UpPacket
           /\ \/ up' = up /\ (Heard => outcome = "nothing")
              \/ Heard /\ outcome = "sent" /\ up' = Append(up, p)
              \/ Heard /\ outcome = "partial" /\ up' = Append(up, Garbage)
              \/ Heard /\ outcome = "overrun" /\ up' = Append(Append(up, p), Garbage)
<1>1. Garbage \in UpPacket
  BY DEF Garbage, Bare, Ack, MkPacket, UpPacket, Packet, PacketType, LinkAssumption
<1>2. outcome \in Outcomes /\ up \in Seq(UpPacket)
  BY DEF sendPacket, ClientAssumption, LinkTypeOK
<1>3. CASE ~Heard
  BY <1>1, <1>3 DEF sendPacket
<1>4. CASE Heard
  <2>0. up' = up \o OnWire(p, outcome)
    BY <1>4 DEF sendPacket
  <2>1. CASE outcome = "sent"
    <3>1. up' = up \o <<p>>
      BY <2>0, <2>1 DEF OnWire
    <3> QED
      BY <1>1, <1>2, <1>4, <2>1, <3>1, AppendIsConcat
  <2>2. CASE outcome = "nothing"
    <3>1. up' = up \o <<>>
      BY <2>0, <2>2 DEF OnWire
    <3> QED
      BY <1>1, <1>2, <2>2, <3>1, ConcatEmptySeq
  <2>3. CASE outcome = "partial"
    <3>1. up' = up \o <<Garbage>>
      BY <2>0, <2>3 DEF OnWire
    <3> QED
      BY <1>1, <1>2, <1>4, <2>3, <3>1, AppendIsConcat
  <2>4. CASE outcome = "overrun"
    <3>1. up' = up \o <<p, Garbage>>
      BY <2>0, <2>4 DEF OnWire
    <3>2. PICK g \in UpPacket : g = Garbage
      BY <1>1
    <3>3. up \o <<p, g>> = Append(Append(up, p), g)
      <4>1. <<p>> \o <<g>> = <<p, g>>
        <5>0. /\ <<p>> \in Seq(UpPacket) /\ <<g>> \in Seq(UpPacket)
              /\ <<p, g>> \in Seq(UpPacket)
          OBVIOUS
        <5>1. PICK a \in Seq(UpPacket) : a = <<p>>
          BY <5>0
        <5>2. PICK b \in Seq(UpPacket) : b = <<g>>
          BY <5>0
        <5>3. PICK c \in Seq(UpPacket) : c = <<p, g>>
          BY <5>0
        <5>4. /\ Len(a) = 1 /\ a[1] = p /\ Len(b) = 1 /\ b[1] = g
              /\ Len(c) = 2 /\ c[1] = p /\ c[2] = g
          BY <5>1, <5>2, <5>3
        <5>5. /\ a \o b \in Seq(UpPacket) /\ Len(a \o b) = 2
              /\ (a \o b)[1] = p /\ (a \o b)[2] = g
          <6>1. /\ a \o b \in Seq(UpPacket) /\ Len(a \o b) = Len(a) + Len(b)
                /\ \A i \in 1 .. Len(a) + Len(b) :
                     (a \o b)[i] = IF i <= Len(a) THEN a[i] ELSE b[i - Len(a)]
            BY ConcatProperties
          <6> QED
            BY <5>4, <6>1
        <5>6. a \o b = c
          BY <5>4, <5>5, SeqEqual
        <5> QED
          BY <5>1, <5>2, <5>3, <5>6
      <4>2. <<p>> \in Seq(UpPacket) /\ <<g>> \in Seq(UpPacket)
        OBVIOUS
      <4>3. (up \o <<p>>) \o <<g>> = up \o (<<p>> \o <<g>>)
        BY <1>2, <4>2, ConcatAssociative
      <4>4. Append(up, p) = up \o <<p>> /\ Append(up, p) \in Seq(UpPacket)
        BY <1>2, AppendIsConcat, AppendProperties
      <4>5. Append(Append(up, p), g) = Append(up, p) \o <<g>>
        <5>1. PICK s \in Seq(UpPacket) : s = Append(up, p)
          BY <4>4
        <5> QED
          BY <5>1, AppendIsConcat
      <4> QED
        BY <4>1, <4>3, <4>4, <4>5
    <3> QED
      BY <1>1, <1>4, <2>4, <3>1, <3>2, <3>3
  <2> QED
    BY <1>2, <2>1, <2>2, <2>3, <2>4 DEF Outcomes
<1> QED
  BY <1>3, <1>4

\* What a write does to the packets of a set A.
LEMMA SendFlight ==
    ASSUME LinkTypeOK, LinkAssumption, ClientAssumption, NEW p \in UpPacket, NEW outcome,
           NEW late, sendPacket(p, outcome, late), NEW A, Garbage \notin A
    PROVE  /\ p \notin A => Thins(up, up', A)
           /\ p \notin A => (Clear(up', A) => Clear(up, A))
           /\ Clear(up, A) => /\ Lone(up', A)
                              /\ \A k \in DOMAIN up' : up'[k] \in A => up'[k] = p
<1>1. /\ Garbage \in UpPacket /\ up \in Seq(UpPacket)
      /\ \/ up' = up
         \/ up' = Append(up, p)
         \/ up' = Append(up, Garbage)
         \/ up' = Append(Append(up, p), Garbage)
  BY SendCases DEF LinkTypeOK
<1>2. PICK g \in UpPacket : g = Garbage
  BY <1>1
<1>3. PICK u : u = up'
  OBVIOUS
<1>4. CASE u = up
  BY <1>3, <1>4 DEF Thins, Lone, Clear
<1>5. ASSUME NEW s \in Seq(UpPacket)
      PROVE  /\ Thins(s, Append(s, g), A)
             /\ Clear(Append(s, g), A) => Clear(s, A)
             /\ \A k \in DOMAIN Append(s, g) :
                  Append(s, g)[k] \in A => \E j \in DOMAIN s : s[j] = Append(s, g)[k]
  <2>1. Thins(s, Append(s, g), A) /\ (Clear(Append(s, g), A) => Clear(s, A))
    BY <1>2, AppendThins
  <2> QED
    BY <2>1 DEF Thins
<1>6. /\ p \notin A => Thins(up, Append(up, p), A) /\ (Clear(Append(up, p), A) => Clear(up, A))
      /\ Append(up, p) \in Seq(UpPacket)
  BY <1>1, AppendThins, AppendProperties
<1>7. Clear(up, A) =>
        /\ Lone(Append(up, p), A)
        /\ \A k \in DOMAIN Append(up, p) : Append(up, p)[k] \in A => Append(up, p)[k] = p
  BY <1>1, AppendLone
<1>8. CASE u = Append(up, g)
  <2>1. Thins(up, u, A) /\ (Clear(u, A) => Clear(up, A))
    BY <1>1, <1>5, <1>8
  <2>2. Clear(up, A) => Clear(u, A)
    BY <2>1, ThinsClear
  <2> QED
    BY <1>3, <2>1, <2>2 DEF Clear, Lone
<1>9. CASE u = Append(up, p)
  BY <1>3, <1>6, <1>7, <1>9
<1>10. CASE u = Append(Append(up, p), g)
  <2>1. PICK s \in Seq(UpPacket) : s = Append(up, p)
    BY <1>6
  <2>2. Thins(s, u, A) /\ (Clear(u, A) => Clear(s, A))
    BY <1>5, <1>10, <2>1
  <2>3. p \notin A => Thins(up, s, A) /\ (Clear(s, A) => Clear(up, A))
    BY <1>6, <2>1
  <2>4. p \notin A => Thins(up, u, A)
    BY <2>2, <2>3 DEF Thins
  <2>5. Clear(up, A) => Lone(s, A) /\ \A k \in DOMAIN s : s[k] \in A => s[k] = p
    BY <1>7, <2>1
  <2>6. Clear(up, A) => Lone(u, A) /\ \A k \in DOMAIN u : u[k] \in A => u[k] = p
    BY <2>2, <2>5 DEF Thins
  <2> QED
    BY <1>3, <2>2, <2>3, <2>4, <2>6
<1> QED
  BY <1>1, <1>2, <1>3, <1>4, <1>8, <1>9, <1>10

\* The broker can still read the connection after a write that was whole or
\* that wrote nothing.
LEMMA SendHeard ==
    ASSUME LinkTypeOK, LinkAssumption, ClientAssumption, NEW p \in UpPacket, NEW outcome,
           NEW late, sendPacket(p, outcome, late), link' = link, Heard'
    PROVE  /\ Heard
           /\ \/ outcome = "nothing" /\ up' = up
              \/ outcome = "sent" /\ up' = Append(up, p)
<1>1. /\ Garbage \in UpPacket /\ up \in Seq(UpPacket)
      /\ \/ up' = up /\ (Heard => outcome = "nothing")
         \/ Heard /\ outcome = "sent" /\ up' = Append(up, p)
         \/ Heard /\ outcome = "partial" /\ up' = Append(up, Garbage)
         \/ Heard /\ outcome = "overrun" /\ up' = Append(Append(up, p), Garbage)
  BY SendCases DEF LinkTypeOK
<1>2. \A k \in DOMAIN up' : up'[k] # Garbage
  BY DEF Heard
<1>3. ASSUME NEW s \in Seq(UpPacket), up' = Append(s, Garbage) PROVE FALSE
  <2>1. Len(s) + 1 \in DOMAIN Append(s, Garbage) /\ Append(s, Garbage)[Len(s) + 1] = Garbage
    <3>1. PICK g \in UpPacket : g = Garbage
      BY <1>1
    <3>2. PICK t \in Seq(UpPacket) : t = Append(s, g)
      BY AppendProperties
    <3>3. Len(t) = Len(s) + 1 /\ t[Len(s) + 1] = g /\ Len(s) \in Nat /\ DOMAIN t = 1..Len(t)
      BY <3>2, AppendProperties, LenProperties
    <3> QED
      BY <3>1, <3>2, <3>3
  <2> QED
    BY <1>2, <1>3, <2>1
<1>4. Append(up, p) \in Seq(UpPacket)
  BY <1>1, AppendProperties
<1>5. up' # Append(up, Garbage) /\ up' # Append(Append(up, p), Garbage)
  BY <1>1, <1>3, <1>4
<1>6. up' = up => Heard
  BY DEF Heard
<1> QED
  BY <1>1, <1>5, <1>6

-----------------------------------------------------------------------------
(* One ping *)

\* PingInv is OnePing: the packets it counts are none or one.
LEMMA PingInvGives ==
    ASSUME TypeOK, PingInv
    PROVE  OnePing
<1>. SUFFICES ASSUME Heard PROVE Count(up, "PINGREQ") + Count(down, "PINGRESP")
                                   = IF ping_outstanding THEN 1 ELSE 0
  BY DEF OnePing
<1>1. /\ up \in Seq(UpPacket) /\ down \in Seq(DownPacket)
      /\ \A k \in DOMAIN up : up[k] \in UpPacket
      /\ \A k \in DOMAIN down : down[k] \in DownPacket
  BY ElementOfSeq, LenProperties DEF TypeOK, LinkTypeOK
<1>2. PICK U : U = {k \in DOMAIN up : up[k].type = "PINGREQ"}
  OBVIOUS
<1>3. PICK D : D = {k \in DOMAIN down : down[k].type = "PINGRESP"}
  OBVIOUS
<1>4. /\ \A j, k \in U : j = k
      /\ \A j, k \in D : j = k
      /\ U = {} \/ D = {}
      /\ ping_outstanding <=> ~(U = {} /\ D = {})
  <2>1. \A k : k \in U <=> k \in DOMAIN up /\ up[k] \in Pings
    BY <1>1, <1>2 DEF Pings
  <2>2. \A k : k \in D <=> k \in DOMAIN down /\ down[k] \in Pongs
    BY <1>1, <1>3 DEF Pongs
  <2>3. (Clear(up, Pings) <=> U = {}) /\ (Clear(down, Pongs) <=> D = {})
    BY <2>1, <2>2 DEF Clear
  <2>4. /\ Lone(up, Pings) /\ Lone(down, Pongs)
        /\ Clear(up, Pings) \/ Clear(down, Pongs)
        /\ ping_outstanding <=> ~(Clear(up, Pings) /\ Clear(down, Pongs))
    BY DEF PingInv, OneInFlight
  <2>5. \A j, k \in U : j = k
    BY <2>1, <2>4 DEF Lone
  <2>6. \A j, k \in D : j = k
    BY <2>2, <2>4 DEF Lone
  <2> QED
    BY <2>3, <2>4, <2>5, <2>6
<1>5. Cardinality({}) = 0 /\ \A x : Cardinality({x}) = 1
  BY FS_EmptySet, FS_Singleton
<1>6. ASSUME NEW V, \A j, k \in V : j = k
      PROVE  /\ V = {} => Cardinality(V) = 0
             /\ V # {} => Cardinality(V) = 1
  <2>1. CASE V = {}
    BY <1>5, <2>1
  <2>2. CASE V # {}
    <3>1. PICK x : x \in V
      BY <2>2
    <3>2. V = {x}
      BY <1>6, <3>1
    <3> QED
      BY <1>5, <2>2, <3>2
  <2> QED
    BY <2>1, <2>2
<1>7. /\ U = {} => Cardinality(U) = 0
      /\ U # {} => Cardinality(U) = 1
      /\ D = {} => Cardinality(D) = 0
      /\ D # {} => Cardinality(D) = 1
  BY <1>4, <1>6
<1>8. Cardinality(U) + Cardinality(D) = IF U = {} /\ D = {} THEN 0 ELSE 1
  <2>1. CASE U = {} /\ D = {}
    BY <1>7, <2>1
  <2>2. CASE U = {} /\ D # {}
    BY <1>7, <2>2
  <2>3. CASE U # {} /\ D = {}
    BY <1>7, <2>3
  <2> QED
    BY <1>4, <2>1, <2>2, <2>3
<1>9. Cardinality(U) + Cardinality(D) = IF ping_outstanding THEN 1 ELSE 0
  <2>1. CASE ping_outstanding
    BY <1>4, <1>8, <2>1
  <2>2. CASE ~ping_outstanding
    BY <1>4, <1>8, <2>2
  <2> QED
    BY <2>1, <2>2
<1> QED
  BY <1>2, <1>3, <1>9 DEF Count

\* A step that neither adds a ping nor loses one.
LEMMA PingKeeps ==
    ASSUME PingInv, Heard' => Heard, ping_outstanding' = ping_outstanding,
           Thins(up, up', Pings), Thins(down, down', Pongs),
           Heard' => (Clear(up', Pings) => Clear(up, Pings)),
           Heard' => (Clear(down', Pongs) => Clear(down, Pongs))
    PROVE  PingInv'
<1>. SUFFICES ASSUME Heard'
              PROVE  /\ OneInFlight(Pings, Pongs)'
                     /\ ping_outstanding' <=> ~(Clear(up', Pings) /\ Clear(down', Pongs))
  BY DEF PingInv, Pings, Pongs
<1>1. /\ OneInFlight(Pings, Pongs)
      /\ ping_outstanding <=> ~(Clear(up, Pings) /\ Clear(down, Pongs))
  BY DEF PingInv
<1>2. /\ Clear(up, Pings) => Clear(up', Pings)
      /\ Clear(down, Pongs) => Clear(down', Pongs)
  BY DEF Thins, Clear
<1>3. OneInFlight(Pings, Pongs)'
  <2>1. PICK A : A = Pings
    OBVIOUS
  <2>2. PICK B : B = Pongs
    OBVIOUS
  <2>3. OneInFlight(A, B)'
    BY <1>1, <2>1, <2>2, FlightThins
  <2> QED
    BY <2>1, <2>2, <2>3 DEF OneInFlight, Pings, Pongs
<1> QED
  BY <1>1, <1>2, <1>3

\* What keepalive() does to PingInv, after a packet has been read or not.
LEMMA KeepalivePing ==
    ASSUME LinkTypeOK, LinkAssumption, ClientAssumption, NEW outstanding \in BOOLEAN,
           NEW outcome, keepalive(outstanding, outcome), link' = link,
           Heard => /\ Lone(up, Pings) /\ Lone(down', Pongs)
                    /\ Clear(up, Pings) \/ Clear(down', Pongs)
                    /\ outstanding <=> ~(Clear(up, Pings) /\ Clear(down', Pongs))
    PROVE  PingInv'
<1>. SUFFICES ASSUME Heard'
              PROVE  /\ Lone(up', Pings) /\ Lone(down', Pongs)
                     /\ Clear(up', Pings) \/ Clear(down', Pongs)
                     /\ ping_outstanding' <=> ~(Clear(up', Pings) /\ Clear(down', Pongs))
  BY DEF PingInv, OneInFlight, Pings, Pongs
<1>. DEFINE p == Bare("PINGREQ")
<1>1. p \in UpPacket /\ p \in Pings
  BY DEF Pings, Bare, Ack, MkPacket, UpPacket, Packet, PacketType, LinkAssumption
<1>2. CASE ~PingDue(outstanding)
  <2>1. up' = up /\ ping_outstanding' = outstanding
    BY <1>2 DEF keepalive
  <2>2. Heard
    BY <2>1 DEF Heard
  <2> QED
    BY <2>1, <2>2
<1>3. CASE PingDue(outstanding)
  <2>1. sendPacket(p, outcome, TRUE) /\ (ping_outstanding' <=> outcome = "sent") /\ ~outstanding
    BY <1>3 DEF keepalive, PingDue
  <2>2. /\ Heard
        /\ \/ outcome = "nothing" /\ up' = up
           \/ outcome = "sent" /\ up' = Append(up, p)
    BY <1>1, <2>1, SendHeard
  <2>3. Clear(up, Pings) /\ Clear(down', Pongs) /\ Lone(up, Pings) /\ Lone(down', Pongs)
    BY <2>1, <2>2
  <2>4. CASE outcome = "nothing" /\ up' = up
    BY <2>1, <2>3, <2>4
  <2>5. CASE outcome = "sent" /\ up' = Append(up, p)
    <3>1. up \in Seq(UpPacket)
      BY DEF LinkTypeOK
    <3>2. Lone(Append(up, p), Pings) /\ ~Clear(Append(up, p), Pings)
      BY <1>1, <2>3, <3>1, AppendLone
    <3> QED
      BY <2>1, <2>3, <2>5, <3>2
  <2> QED
    BY <2>2, <2>4, <2>5
<1> QED
  BY <1>2, <1>3

\* A packet that is no ping is sent.
LEMMA PingSend ==
    ASSUME PingInv, LinkTypeOK, LinkAssumption, ClientAssumption,
           NEW p \in UpPacket, p.type # "PINGREQ", NEW outcome, NEW late,
           sendPacket(p, outcome, late), link' = link, ping_outstanding' = ping_outstanding,
           Thins(down, down', Pongs), Clear(down', Pongs) => Clear(down, Pongs)
    PROVE  PingInv'
<1>1. p \notin Pings /\ Garbage \notin Pings
  BY DEF Pings, Garbage, Bare, Ack, MkPacket
<1>2. PICK A : A = Pings
  OBVIOUS
<1>3. Thins(up, up', A) /\ (Clear(up', A) => Clear(up, A))
  BY <1>1, <1>2, SendFlight
<1>4. Heard' => Heard
  BY SendHeard
<1> QED
  BY <1>2, <1>3, <1>4, PingKeeps

\* A packet that is no answer to a ping is read.
LEMMA ReadsThins ==
    ASSUME LinkTypeOK, NEW types, Reads(types)
    PROVE  /\ \A B : Thins(down, down', B)
           /\ \A B : Head(down) \notin B => (Clear(down', B) => Clear(down, B))
           /\ \A B : Head(down) \in B /\ Lone(down, B) => Clear(down', B)
           /\ 1 \in DOMAIN down /\ down[1] = Head(down) /\ Head(down) \in DownPacket
           /\ Head(down).type \in types /\ stack # <<>> /\ Top \in WaitFrame
           /\ down' \in Seq(DownPacket)
<1>1. down \in Seq(DownPacket) /\ down # <<>> /\ down' = Tail(down)
  BY DEF Reads, LinkTypeOK
<1>2. ASSUME NEW B
      PROVE  /\ Thins(down, down', B)
             /\ Head(down) \notin B => (Clear(down', B) => Clear(down, B))
             /\ Head(down) \in B /\ Lone(down, B) => Clear(down', B)
             /\ 1 \in DOMAIN down /\ down[1] = Head(down) /\ Head(down) \in DownPacket
             /\ down' \in Seq(DownPacket)
  BY <1>1, TailFacts
<1> QED
  BY <1>2 DEF Reads, Waiting

\* What each call asks the broker for, and how it is acknowledged.
Asks(p, op, await) ==
    \/ p.type = "CONNECT" /\ op = "connect" /\ await = "CONNACK"
    \/ p.type = "SUBSCRIBE" /\ op = "subscribe" /\ await = "SUBACK"
    \/ p.type = "UNSUBSCRIBE" /\ op = "unsubscribe" /\ await = "UNSUBACK"
    \/ p.type = "PUBLISH" /\ p.val = 0 /\ op = "publish" /\ await = "none"
    \/ p.type = "PUBLISH" /\ p.val = 1 /\ op = "publish" /\ await = "PUBACK"
    \/ p.type = "PUBLISH" /\ p.val = 2 /\ op = "publish" /\ await = "PUBCOMP"
    \/ p.type = "DISCONNECT" /\ op = "disconnect" /\ await = "none"

\* A SUBSCRIBE that is on the wire although sendPacket failed leaves its topic
\* without a handler.
NotesOverrun(p, outcome) ==
    /\ unheard \subseteq unheard'
    /\ p.type = "SUBSCRIBE" /\ outcome = "overrun" => p.body \in unheard'

\* Every call but MQTTYield makes one request.
LEMMA AppRequests ==
    ASSUME TypeOK, Assumptions, AppCalls
    PROVE  \/ MQTTYield
           \/ \E p \in UpPacket : \E op, await, outcome :
                /\ Request(p, op, await, outcome) /\ Asks(p, op, await)
                /\ NotesOverrun(p, outcome)
<1>. USE DEF TypeOK, Assumptions
<1>1. ASSUME NEW outcome, MQTTConnect(outcome)
      PROVE  \E p \in UpPacket : \E op, await, o :
               Request(p, op, await, o) /\ Asks(p, op, await) /\ NotesOverrun(p, o)
  <2>1. Bare("CONNECT") \in UpPacket /\ Asks(Bare("CONNECT"), "connect", "CONNACK")
    BY DEF Asks, Bare, Ack, MkPacket, UpPacket, Packet, PacketType, LinkAssumption
  <2>2. NotesOverrun(Bare("CONNECT"), outcome)
    BY <1>1 DEF NotesOverrun, MQTTConnect, Bare, Ack, MkPacket
  <2> QED
    BY <1>1, <2>1, <2>2 DEF MQTTConnect
<1>2. ASSUME NEW outcome, MQTTDisconnect(outcome)
      PROVE  \E p \in UpPacket : \E op, await, o :
               Request(p, op, await, o) /\ Asks(p, op, await) /\ NotesOverrun(p, o)
  <2>1. Bare("DISCONNECT") \in UpPacket /\ Asks(Bare("DISCONNECT"), "disconnect", "none")
    BY DEF Asks, Bare, Ack, MkPacket, UpPacket, Packet, PacketType, LinkAssumption
  <2>2. NotesOverrun(Bare("DISCONNECT"), outcome)
    BY <1>2 DEF NotesOverrun, MQTTDisconnect, Bare, Ack, MkPacket
  <2> QED
    BY <1>2, <2>1, <2>2 DEF MQTTDisconnect
<1>3. ASSUME NEW t \in Topics, NEW qos \in 0..2, NEW outcome, MQTTSubscribe(t, qos, outcome)
      PROVE  \E p \in UpPacket : \E op, await, o :
               Request(p, op, await, o) /\ Asks(p, op, await) /\ NotesOverrun(p, o)
  <2>. DEFINE p == MkPacket("SUBSCRIBE", getNextPacketId, qos, t)
  <2>1. p \in UpPacket /\ Asks(p, "subscribe", "SUBACK")
    BY PacketIdType DEF Asks, MkPacket, UpPacket, Packet, PacketType, PacketId
  <2>2. NotesOverrun(p, outcome)
    BY <1>3 DEF NotesOverrun, MQTTSubscribe, MkPacket
  <2> QED
    BY <1>3, <2>1, <2>2 DEF MQTTSubscribe
<1>4. ASSUME NEW t \in Topics, NEW outcome, MQTTUnsubscribe(t, outcome)
      PROVE  \E p \in UpPacket : \E op, await, o :
               Request(p, op, await, o) /\ Asks(p, op, await) /\ NotesOverrun(p, o)
  <2>. DEFINE p == MkPacket("UNSUBSCRIBE", getNextPacketId, 1, t)
  <2>1. p \in UpPacket /\ Asks(p, "unsubscribe", "UNSUBACK")
    BY PacketIdType DEF Asks, MkPacket, UpPacket, Packet, PacketType, PacketId
  <2>2. NotesOverrun(p, outcome)
    BY <1>4 DEF NotesOverrun, MQTTUnsubscribe, MkPacket
  <2> QED
    BY <1>4, <2>1, <2>2 DEF MQTTUnsubscribe
<1>5. ASSUME NEW qos \in 0..2, NEW outcome, MQTTPublish(qos, outcome)
      PROVE  \E p \in UpPacket : \E op, await, o :
               Request(p, op, await, o) /\ Asks(p, op, await) /\ NotesOverrun(p, o)
  <2>. DEFINE id == IF qos = 0 THEN 0 ELSE getNextPacketId
  <2>. DEFINE p == MkPacket("PUBLISH", id, qos, None)
  <2>1. p \in UpPacket /\ p.type = "PUBLISH" /\ p.val = qos
    BY PacketIdType DEF MkPacket, UpPacket, Packet, PacketType, PacketId, LinkAssumption
  <2>2. Asks(p, "publish", PublishAwait(qos))
    BY <2>1 DEF Asks, PublishAwait
  <2>3. NotesOverrun(p, outcome)
    BY <1>5, <2>1 DEF NotesOverrun, MQTTPublish
  <2> QED
    BY <1>5, <2>1, <2>2, <2>3 DEF MQTTPublish
<1> QED
  BY <1>1, <1>2, <1>3, <1>4, <1>5 DEF AppCalls, ClientAssumption

\* The client's calls and what it reads keep PingInv.
LEMMA ClientKeepsPing ==
    ASSUME TypeOK, Assumptions, PingInv, ClientNext
    PROVE  PingInv'
<1>. USE DEF TypeOK, Assumptions
<1>0. \A A : Thins(up, up, A) /\ Thins(down, down, A)
  BY DEF Thins
<1>00. ping_outstanding \in BOOLEAN
  BY DEF ClientTypeOK
<1>1. ASSUME UNCHANGED <<up, down, link, ping_outstanding>> PROVE PingInv'
  BY <1>1 DEF PingInv, OneInFlight, Heard, Pings, Pongs
<1>2. ASSUME NEW p \in UpPacket, NEW op, NEW await, NEW outcome,
             Request(p, op, await, outcome), Asks(p, op, await)
      PROVE  PingInv'
  <2>1. sendPacket(p, outcome, pingExpired /\ op # "connect") /\ p.type # "PINGREQ"
    BY <1>2 DEF Request, Asks
  <2>2. down' = down /\ link' = link /\ ping_outstanding' = ping_outstanding
    BY <1>2 DEF Request
  <2> QED
    BY <1>0, <2>1, <2>2, PingSend
<1>3. CASE AppCalls
  <2>1. MQTTYield => UNCHANGED <<up, down, link, ping_outstanding>>
    BY DEF MQTTYield, linkVars, pingVars
  <2> QED
    BY <1>1, <1>2, <1>3, <2>1, AppRequests
<1>4. ASSUME NEW types, NEW outcome, Reads(types), "PINGRESP" \notin types,
             keepalive(ping_outstanding, outcome), link' = link
      PROVE  PingInv'
  <2>1. Head(down) \notin Pongs
    BY <1>4, ReadsThins DEF Pongs
  <2>2. Thins(down, down', Pongs) /\ (Clear(down', Pongs) => Clear(down, Pongs))
    BY <1>4, <2>1, ReadsThins
  <2>3. Heard => /\ Lone(up, Pings) /\ Lone(down', Pongs)
                 /\ Clear(up, Pings) \/ Clear(down', Pongs)
                 /\ ping_outstanding <=> ~(Clear(up, Pings) /\ Clear(down', Pongs))
    BY <2>2, ThinsClear DEF PingInv, OneInFlight, Thins
  <2> QED
    BY <1>4, <1>00, <2>3, KeepalivePing
<1>5. ASSUME NEW outcome,
             \/ CompleteConnect(outcome) \/ CompleteSubscribe(outcome)
             \/ CompleteOther(outcome) \/ DropAck(outcome)
      PROVE  PingInv'
  <2>1. Reads(AckTypes) /\ keepalive(ping_outstanding, outcome) /\ link' = link
    BY <1>5 DEF CompleteConnect, CompleteSubscribe, CompleteOther, DropAck
  <2> QED
    BY <1>4, <2>1 DEF AckTypes
<1>6. ASSUME NEW outcome, ReadPingresp(outcome) PROVE PingInv'
  <2>1. Reads({"PINGRESP"}) /\ keepalive(FALSE, outcome) /\ link' = link
    BY <1>6 DEF ReadPingresp
  <2>2. Head(down) \in Pongs
    BY <2>1, ReadsThins DEF Pongs
  <2>3. 1 \in DOMAIN down /\ down[1] = Head(down)
    BY <2>1, ReadsThins
  <2>4. ~Clear(down, Pongs)
    BY <2>2, <2>3 DEF Clear
  <2>5. Lone(down, Pongs) => Clear(down', Pongs)
    BY <2>1, <2>2, ReadsThins
  <2>6. Heard => /\ Lone(up, Pings) /\ Lone(down', Pongs)
                 /\ Clear(up, Pings) /\ Clear(down', Pongs)
    BY <2>4, <2>5 DEF PingInv, OneInFlight, Lone, Clear
  <2> QED
    BY <2>1, <2>6, KeepalivePing
<1>7. ASSUME NEW types, Reads(types), "PINGRESP" \notin types
      PROVE  Thins(down, down', Pongs) /\ (Clear(down', Pongs) => Clear(down, Pongs))
  <2>1. Head(down) \notin Pongs
    BY <1>7, ReadsThins DEF Pongs
  <2> QED
    BY <1>7, <2>1, ReadsThins
<1>8. ASSUME NEW outcome, ReadPubrec(outcome) \/ ReadPubrel(outcome) PROVE PingInv'
  <2>1. PICK type \in {"PUBREL", "PUBCOMP"} :
           sendPacket(Ack(type, Head(down).id), outcome, pingExpired)
    BY <1>8 DEF ReadPubrec, ReadPubrel
  <2>2. PICK types : Reads(types) /\ "PINGRESP" \notin types
    BY <1>8 DEF ReadPubrec, ReadPubrel
  <2>3. PICK p : p = Ack(type, Head(down).id)
    OBVIOUS
  <2>4. p \in UpPacket /\ p.type # "PINGREQ"
    <3>1. Head(down) \in DownPacket /\ type \in PacketType /\ type # "SUBSCRIBE"
      BY <2>2, ReadsThins DEF PacketType, AckTypes
    <3>2. p \in UpPacket
      BY <2>3, <3>1, AckType
    <3>3. p.type # "PINGREQ"
      BY <2>3 DEF Ack, MkPacket
    <3> QED
      BY <3>2, <3>3
  <2>5. link' = link /\ ping_outstanding' = ping_outstanding
    BY <1>8 DEF ReadPubrec, ReadPubrel
  <2> QED
    BY <1>7, <2>1, <2>2, <2>3, <2>4, <2>5, PingSend
<1>9. CASE ReadPublish
  <2>1. Reads({"PUBLISH"}) /\ up' = up /\ link' = link /\ ping_outstanding' = ping_outstanding
    BY <1>9 DEF ReadPublish, pingVars
  <2>2. Heard' => Heard
    BY <2>1 DEF Heard
  <2> QED
    BY <1>0, <1>7, <2>1, <2>2, PingKeeps
<1>10. ASSUME NEW outcome, keepalive(ping_outstanding, outcome), down' = down, link' = link
       PROVE  PingInv'
  BY <1>00, <1>10, KeepalivePing DEF PingInv, OneInFlight
<1>11. ASSUME NEW outcome, AcknowledgePublish(outcome) PROVE PingInv'
  <2>1. down' = down /\ link' = link
    BY <1>11 DEF AcknowledgePublish
  <2>2. CASE Top.pkt.val = 0
    BY <1>10, <1>11, <2>1, <2>2 DEF AcknowledgePublish
  <2>3. CASE Top.pkt.val # 0
    <3>. DEFINE type == IF Top.pkt.val = 1 THEN "PUBACK" ELSE "PUBREC"
    <3>1. /\ sendPacket(Ack(type, Top.pkt.id), outcome, pingExpired)
          /\ ping_outstanding' = ping_outstanding
      BY <1>11, <2>3 DEF AcknowledgePublish
    <3>2. PICK p : p = Ack(type, Top.pkt.id)
      OBVIOUS
    <3>3. p \in UpPacket
      <4>1. Top.pkt \in DownPacket
        BY <1>11, DeliveringTypes DEF AcknowledgePublish, DeliverFrame
      <4> QED
        BY <3>2, <4>1, AckType DEF PacketType, AckTypes
    <3>4. p.type # "PINGREQ"
      BY <3>2 DEF Ack, MkPacket
    <3> QED
      BY <1>0, <2>1, <3>1, <3>2, <3>3, <3>4, PingSend
  <2> QED
    BY <2>2, <2>3
<1>12. ASSUME NEW outcome, CycleIdle(outcome) PROVE PingInv'
  BY <1>10, <1>12 DEF CycleIdle
<1>13. CASE CallHandler \/ HandlerReturns \/ WaitEnds \/ PingTimerExpires
            \/ \E i \in DOMAIN stack : TimerExpires(i)
  <2>1. UNCHANGED <<up, down, link, ping_outstanding>>
    BY <1>13 DEF CallHandler, HandlerReturns, WaitEnds, PingTimerExpires, TimerExpires,
         linkVars, pingVars
  <2> QED
    BY <1>1, <2>1
<1> QED
  BY <1>3, <1>5, <1>6, <1>8, <1>9, <1>11, <1>12, <1>13
     DEF ClientNext, CycleReads, Delivers, TimePasses

-----------------------------------------------------------------------------
(* What the broker does to the packets in flight *)

\* The broker's answer q to packet p.
Replies(p, q) ==
    \/ p.type = "CONNECT" /\ q.type = "CONNACK"
    \/ p.type = "SUBSCRIBE" /\ q.type = "SUBACK" /\ q.id = p.id
    \/ p.type = "UNSUBSCRIBE" /\ q.type = "UNSUBACK" /\ q.id = p.id
    \/ p.type = "PUBLISH" /\ p.val = 1 /\ q.type = "PUBACK" /\ q.id = p.id
    \/ p.type = "PUBLISH" /\ p.val = 2 /\ q.type = "PUBREC" /\ q.id = p.id
    \/ p.type = "PUBREL" /\ q.type = "PUBCOMP" /\ q.id = p.id
    \/ p.type = "PINGREQ" /\ q.type = "PINGRESP"
    \/ p.type = "PUBREC" /\ q.type = "PUBREL"

\* The broker takes a packet and answers it or not; only a ping is answered
\* in every case.
BrokerTakes ==
    /\ Takes(PacketType \ {"garbage"}) /\ link' = link
    /\ \/ down' = down /\ Head(up).type # "PINGREQ"
       \/ \E q \in DownPacket : down' = Append(down, q) /\ Replies(Head(up), q)

\* It sends of its own accord.
BrokerSends ==
    /\ up' = up /\ link' = link
    /\ \E q \in DownPacket : down' = Append(down, q) /\ q.type \in {"PUBLISH", "PUBREL"}

\* Each step of the broker is one of these, or the end of the connection, or it
\* stops or starts to read.
LEMMA BrokerSteps ==
    ASSUME TypeOK, Assumptions, BrokerNext
    PROVE  BrokerTakes \/ BrokerSends \/ Close \/ UNCHANGED linkVars
<1>. USE DEF TypeOK, Assumptions
<1>0. ASSUME NEW types, Takes(types), types \subseteq PacketType \ {"garbage"}
      PROVE  /\ Takes(PacketType \ {"garbage"})
             /\ Head(up) \in UpPacket /\ Head(up) \in Packet /\ Head(up).type \in types
  <2>1. Takes(PacketType \ {"garbage"})
    BY <1>0 DEF Takes
  <2> QED
    BY <1>0, <2>1, TakesTypes DEF UpPacket
<1>. DEFINE p == Head(up)
<1>1. CASE BrokerConnack
  <2>1. PICK rc \in {0, NotAuthorized} : down' = Append(down, MkPacket("CONNACK", 0, rc, None))
    BY <1>1 DEF BrokerConnack, Sends
  <2>2. PICK q : q = MkPacket("CONNACK", 0, rc, None)
    OBVIOUS
  <2>3. q \in DownPacket /\ q.type = "CONNACK"
    BY <2>1, <2>2 DEF MkPacket, DownPacket, Packet, PacketType, AckTypes, LinkAssumption
  <2>4. Takes({"CONNECT"}) /\ link' = link /\ down' = Append(down, q)
    BY <1>1, <2>1, <2>2 DEF BrokerConnack
  <2>5. Takes(PacketType \ {"garbage"}) /\ Head(up).type = "CONNECT"
    <3>1. {"CONNECT"} \subseteq PacketType \ {"garbage"}
      BY DEF PacketType
    <3>2. Takes({"CONNECT"})
      BY <2>4
    <3>3. Head(up).type \in {"CONNECT"}
      BY <3>2 DEF Takes
    <3> QED
      BY <1>0, <3>1, <3>2, <3>3
  <2> QED
    BY <2>3, <2>4, <2>5 DEF BrokerTakes, Replies
<1>2. CASE BrokerSuback
  <2>1. Takes({"SUBSCRIBE"}) /\ link' = link
    BY <1>2 DEF BrokerSuback
  <2>2. /\ Takes(PacketType \ {"garbage"}) /\ p \in UpPacket /\ p.type = "SUBSCRIBE"
        /\ p \in Packet
    BY <1>0, <2>1 DEF PacketType
  <2>3. PICK v \in {p.val, Refused} : down' = Append(down, MkPacket("SUBACK", p.id, v, None))
    BY <1>2 DEF BrokerSuback, Sends
  <2>4. PICK q : q = MkPacket("SUBACK", p.id, v, None)
    OBVIOUS
  <2>5. q \in DownPacket /\ q.type = "SUBACK" /\ q.id = p.id
    BY <2>2, <2>3, <2>4 DEF MkPacket, DownPacket, Packet, PacketType, AckTypes
  <2> QED
    BY <2>1, <2>2, <2>3, <2>4, <2>5 DEF BrokerTakes, Replies
<1>3. CASE BrokerUnsuback
  <2>1. Takes({"UNSUBSCRIBE"}) /\ link' = link
    BY <1>3 DEF BrokerUnsuback
  <2>2. /\ Takes(PacketType \ {"garbage"}) /\ p \in UpPacket /\ p.type = "UNSUBSCRIBE"
        /\ p \in Packet
    BY <1>0, <2>1 DEF PacketType
  <2>3. PICK q : q = Ack("UNSUBACK", p.id)
    OBVIOUS
  <2>4. down' = Append(down, q)
    BY <1>3, <2>3 DEF BrokerUnsuback, Sends
  <2>5. q \in DownPacket /\ q.type = "UNSUBACK" /\ q.id = p.id
    BY <2>2, <2>3 DEF Ack, MkPacket, DownPacket, Packet, PacketType, AckTypes
  <2> QED
    BY <2>1, <2>2, <2>4, <2>5 DEF BrokerTakes, Replies
<1>4. CASE BrokerAnswers
  <2>1. Takes({"PUBLISH", "PUBREL", "PINGREQ"}) /\ link' = link /\ down' = down \o Answer(p)
    BY <1>4 DEF BrokerAnswers
  <2>2. /\ Takes(PacketType \ {"garbage"}) /\ p \in UpPacket /\ p \in Packet
        /\ p.type \in {"PUBLISH", "PUBREL", "PINGREQ"}
    BY <1>0, <2>1 DEF PacketType
  <2>3. down \in Seq(DownPacket)
    BY DEF LinkTypeOK
  <2>4. ASSUME NEW q \in DownPacket, Answer(p) = <<q>>, Replies(p, q) PROVE BrokerTakes
    <3>1. down' = Append(down, q)
      BY <2>1, <2>3, <2>4, AppendIsConcat
    <3> QED
      BY <2>1, <2>2, <2>4, <3>1 DEF BrokerTakes
  <2>5. ASSUME NEW type \in {"PUBACK", "PUBREC", "PUBCOMP", "PINGRESP"}, NEW id \in {0, p.id}
        PROVE  /\ Ack(type, id) \in DownPacket
               /\ Ack(type, id).type = type /\ Ack(type, id).id = id
    BY <2>2 DEF Ack, MkPacket, DownPacket, Packet, PacketType, AckTypes, LinkAssumption
  <2>6. CASE p.type = "PUBLISH" /\ p.val = 0
    <3>1. Answer(p) = <<>>
      BY <2>6 DEF Answer
    <3>2. down' = down
      BY <2>1, <2>3, <3>1, ConcatEmptySeq
    <3> QED
      BY <2>1, <2>2, <2>6, <3>2 DEF BrokerTakes
  <2>7. CASE p.type = "PUBLISH" /\ p.val = 1
    <3>1. Answer(p) = <<Ack("PUBACK", p.id)>>
      BY <2>7 DEF Answer
    <3>2. Replies(p, Ack("PUBACK", p.id))
      BY <2>5, <2>7 DEF Replies
    <3> QED
      BY <2>4, <2>5, <3>1, <3>2
  <2>8. CASE p.type = "PUBLISH" /\ p.val = 2
    <3>1. Answer(p) = <<Ack("PUBREC", p.id)>>
      BY <2>8 DEF Answer
    <3>2. Replies(p, Ack("PUBREC", p.id))
      BY <2>5, <2>8 DEF Replies
    <3> QED
      BY <2>4, <2>5, <3>1, <3>2
  <2>9. CASE p.type = "PUBREL"
    <3>1. Answer(p) = <<Ack("PUBCOMP", p.id)>>
      BY <2>9 DEF Answer
    <3>2. Replies(p, Ack("PUBCOMP", p.id))
      BY <2>5, <2>9 DEF Replies
    <3> QED
      BY <2>4, <2>5, <3>1, <3>2
  <2>10. CASE p.type = "PINGREQ"
    <3>1. Answer(p) = <<Ack("PINGRESP", 0)>>
      BY <2>10 DEF Answer, Bare
    <3>2. Replies(p, Ack("PINGRESP", 0))
      BY <2>5, <2>10 DEF Replies
    <3> QED
      BY <2>4, <2>5, <3>1, <3>2
  <2>11. p.type = "PUBLISH" => p.val \in {0, 1, 2}
    BY <2>2 DEF UpPacket
  <2> QED
    BY <2>2, <2>6, <2>7, <2>8, <2>9, <2>10, <2>11
<1>5. CASE BrokerAcked
  <2>1. Takes({"PUBACK", "PUBREC", "PUBCOMP"}) /\ link' = link
    BY <1>5 DEF BrokerAcked
  <2>2. /\ Takes(PacketType \ {"garbage"}) /\ p \in UpPacket /\ p \in Packet
        /\ p.type \in {"PUBACK", "PUBREC", "PUBCOMP"}
    BY <1>0, <2>1 DEF PacketType, AckTypes
  <2>3. PICK q : q = Ack("PUBREL", p.id)
    OBVIOUS
  <2>4. down' = down \/ (p.type = "PUBREC" /\ down' = Append(down, q))
    BY <1>5, <2>3 DEF BrokerAcked
  <2>5. q \in DownPacket /\ q.type = "PUBREL"
    BY <2>2, <2>3 DEF Ack, MkPacket, DownPacket, Packet, PacketType, LinkAssumption
  <2> QED
    BY <2>1, <2>2, <2>4, <2>5 DEF BrokerTakes, Replies
<1>6. CASE BrokerCloses \/ LinkBreaks
  BY <1>6 DEF BrokerCloses, LinkBreaks
<1>7. ASSUME NEW m \in Msgs, BrokerPublishes(m) PROVE BrokerSends
  <2>1. up' = up /\ link' = link
    BY <1>7 DEF BrokerPublishes
  <2>2. CASE Sends(MkPacket("PUBLISH", 0, 0, m))
    <3>1. PICK q : q = MkPacket("PUBLISH", 0, 0, m)
      OBVIOUS
    <3>2. q \in DownPacket /\ q.type = "PUBLISH"
      BY <3>1 DEF MkPacket, DownPacket, Packet, PacketType, LinkAssumption
    <3> QED
      BY <2>1, <2>2, <3>1, <3>2 DEF BrokerSends, Sends
  <2>3. ASSUME NEW id \in BrokerIds,
               inflight' = [inflight EXCEPT ![id] = [msg |-> m, phase |-> "pub"]],
               Sends(Publish(id))
        PROVE  BrokerSends
    <3>1. inflight'[id].msg = m /\ id \in 0..MaxPacketId
      BY <2>3 DEF BrokerTypeOK, BrokerAssumption, PacketId
    <3>2. PICK q : q = MkPacket("PUBLISH", id, QosOf[m], m)
      OBVIOUS
    <3>3. q \in DownPacket /\ q.type = "PUBLISH"
      <4>1. q.type = "PUBLISH"
        BY <3>2 DEF MkPacket
      <4> QED
        BY <3>1, <3>2, <4>1, PublishType
    <3>4. down' = Append(down, q)
      BY <2>3, <3>1, <3>2 DEF Sends, Publish
    <3> QED
      BY <2>1, <3>3, <3>4 DEF BrokerSends
  <2> QED
    BY <1>7, <2>2, <2>3 DEF BrokerPublishes
<1>8. ASSUME NEW id \in BrokerIds, BrokerRetries(id) PROVE BrokerSends
  <2>1. up' = up /\ link' = link /\ id \in 0..MaxPacketId /\ inflight' = inflight
    <3>1. id \in 0..MaxPacketId
      BY DEF BrokerAssumption, PacketId
    <3> QED
      BY <1>8, <3>1 DEF BrokerRetries
  <2>2. CASE Sends(Ack("PUBREL", id))
    <3>1. PICK q : q = Ack("PUBREL", id)
      OBVIOUS
    <3>2. q \in DownPacket /\ q.type = "PUBREL"
      BY <2>1, <3>1 DEF Ack, MkPacket, DownPacket, Packet, PacketType, LinkAssumption
    <3> QED
      BY <2>1, <2>2, <3>1, <3>2 DEF BrokerSends, Sends
  <2>3. CASE inflight[id].phase = "pub" /\ Sends(Publish(id))
    <3>1. inflight[id].msg \in Msgs
      <4>1. inflight[id] \in InFlight
        BY DEF BrokerTypeOK
      <4> QED
        BY <2>3, <4>1 DEF InFlight, Idle
    <3>2. PICK m \in Msgs : m = inflight[id].msg
      BY <3>1
    <3>3. PICK q : q = MkPacket("PUBLISH", id, QosOf[m], m)
      OBVIOUS
    <3>4. q \in DownPacket /\ q.type = "PUBLISH"
      <4>1. q.type = "PUBLISH"
        BY <3>3 DEF MkPacket
      <4> QED
        BY <2>1, <3>3, <4>1, PublishType
    <3>5. down' = Append(down, q)
      BY <2>1, <2>3, <3>2, <3>3 DEF Sends, Publish
    <3> QED
      BY <2>1, <3>4, <3>5 DEF BrokerSends
  <2> QED
    BY <1>8, <2>2, <2>3 DEF BrokerRetries
<1>9. CASE PeerStalls \/ PeerReads
  BY <1>9 DEF PeerStalls, PeerReads, linkVars
<1> QED
  BY <1>1, <1>2, <1>3, <1>4, <1>5, <1>6, <1>7, <1>8, <1>9 DEF BrokerNext

\* What taking a packet does to those of a set A.
LEMMA TakesThins ==
    ASSUME LinkTypeOK, Takes(PacketType \ {"garbage"})
    PROVE  /\ \A A : Thins(up, up', A)
           /\ \A A : Head(up) \notin A => (Clear(up', A) => Clear(up, A))
           /\ \A A : Head(up) \in A /\ Lone(up, A) => Clear(up', A)
           /\ 1 \in DOMAIN up /\ up[1] = Head(up) /\ Head(up) \in UpPacket
           /\ (link' = link /\ Heard') => Heard
<1>1. up \in Seq(UpPacket) /\ up # <<>> /\ up' = Tail(up) /\ link = "open"
  BY DEF Takes, LinkTypeOK
<1>2. ASSUME NEW A
      PROVE  /\ Thins(up, up', A)
             /\ Head(up) \notin A => (Clear(up', A) => Clear(up, A))
             /\ Head(up) \in A /\ Lone(up, A) => Clear(up', A)
             /\ 1 \in DOMAIN up /\ up[1] = Head(up) /\ Head(up) \in UpPacket
  BY <1>1, TailFacts
<1>3. ASSUME Heard' PROVE Heard
  <2>1. PICK G : G = {Garbage}
    OBVIOUS
  <2>2. Head(up) \notin G
    BY <2>1 DEF Takes, Garbage, Bare, Ack, MkPacket
  <2>3. Clear(up', G)
    BY <1>3, <2>1 DEF Heard, Clear
  <2>4. Clear(up, G)
    BY <1>2, <2>2, <2>3
  <2> QED
    BY <1>1, <2>1, <2>4 DEF Heard, Clear
<1> QED
  BY <1>2, <1>3

\* The broker's steps keep PingInv.
LEMMA BrokerKeepsPing ==
    ASSUME TypeOK, Assumptions, PingInv, BrokerNext, ping_outstanding' = ping_outstanding
    PROVE  PingInv'
<1>. USE DEF TypeOK
<1>0. /\ \A A : Thins(up, up, A) /\ Thins(down, down, A)
      /\ down \in Seq(DownPacket)
  BY DEF Thins, LinkTypeOK
<1>1. CASE BrokerTakes
  <2>0. Takes(PacketType \ {"garbage"}) /\ link' = link
    BY <1>1 DEF BrokerTakes
  <2>1. /\ Thins(up, up', Pings)
        /\ Head(up) \notin Pings => (Clear(up', Pings) => Clear(up, Pings))
        /\ Head(up) \in Pings /\ Lone(up, Pings) => Clear(up', Pings)
        /\ 1 \in DOMAIN up /\ up[1] = Head(up) /\ Head(up) \in UpPacket
        /\ Heard' => Heard
    BY <2>0, TakesThins
  <2>2. CASE down' = down /\ Head(up).type # "PINGREQ"
    <3>1. Head(up) \notin Pings
      BY <2>2 DEF Pings
    <3> QED
      BY <1>0, <2>1, <2>2, <3>1, PingKeeps
  <2>3. ASSUME NEW q \in DownPacket, down' = Append(down, q), Replies(Head(up), q)
        PROVE  PingInv'
    <3>1. CASE Head(up).type # "PINGREQ"
      <4>1. Head(up) \notin Pings /\ q \notin Pongs
        BY <2>3, <3>1 DEF Pings, Pongs, Replies
      <4>2. Thins(down, down', Pongs) /\ (Clear(down', Pongs) => Clear(down, Pongs))
        BY <1>0, <2>3, <4>1, AppendThins
      <4> QED
        BY <2>1, <4>1, <4>2, PingKeeps
    <3>2. CASE Head(up).type = "PINGREQ"
      <4>1. Head(up) \in Pings /\ q \in Pongs
        BY <2>1, <2>3, <3>2 DEF Pings, Pongs, Replies
      <4>2. ~Clear(up, Pings)
        BY <2>1, <4>1 DEF Clear
      <4>. SUFFICES ASSUME Heard'
                    PROVE  /\ Lone(up', Pings) /\ Lone(down', Pongs)
                           /\ Clear(up', Pings) \/ Clear(down', Pongs)
                           /\ ping_outstanding' <=> ~(Clear(up', Pings) /\ Clear(down', Pongs))
        BY DEF PingInv, OneInFlight, Pings, Pongs
      <4>3. Lone(up, Pings) /\ Clear(down, Pongs) /\ ping_outstanding
        BY <2>1, <4>2 DEF PingInv, OneInFlight
      <4>4. Clear(up', Pings)
        BY <2>1, <4>1, <4>3
      <4>5. Lone(down', Pongs) /\ ~Clear(down', Pongs)
        BY <1>0, <2>3, <4>1, <4>3, AppendLone
      <4>6. Lone(up', Pings)
        BY <4>4 DEF Clear, Lone
      <4> QED
        BY <4>3, <4>4, <4>5, <4>6
    <3> QED
      BY <3>1, <3>2
  <2> QED
    BY <1>1, <2>2, <2>3 DEF BrokerTakes
<1>2. CASE BrokerSends
  <2>1. PICK q \in DownPacket : down' = Append(down, q) /\ q.type \in {"PUBLISH", "PUBREL"}
    BY <1>2 DEF BrokerSends
  <2>2. q \notin Pongs
    BY <2>1 DEF Pongs
  <2>3. Thins(down, down', Pongs) /\ (Clear(down', Pongs) => Clear(down, Pongs))
    BY <1>0, <2>1, <2>2, AppendThins
  <2>4. up' = up /\ (Heard' => Heard)
    BY <1>2 DEF BrokerSends, Heard
  <2> QED
    BY <1>0, <2>3, <2>4, PingKeeps
<1>3. CASE Close
  <2>1. ~Heard'
    BY <1>3 DEF Close, Heard
  <2> QED
    BY <2>1 DEF PingInv
<1>4. CASE UNCHANGED linkVars
  <2>1. up' = up /\ down' = down /\ (Heard' => Heard)
    BY <1>4 DEF linkVars, Heard
  <2> QED
    BY <1>0, <2>1, PingKeeps
<1> QED
  BY <1>1, <1>2, <1>3, <1>4, BrokerSteps

\* PingInv is inductive.
LEMMA NextKeepsPing ==
    ASSUME TypeOK, Assumptions, PingInv, [Next]_vars
    PROVE  PingInv'
<1>1. CASE Reconnect
  <2>1. up' = <<>> /\ down' = <<>> /\ ~ping_outstanding'
    BY <1>1 DEF Reconnect, NewConnection
  <2>2. Clear(up', Pings) /\ Clear(down', Pongs)
    BY <2>1 DEF Clear
  <2> QED
    BY <2>1, <2>2 DEF PingInv, OneInFlight, Lone, Clear, Pings, Pongs
<1>2. CASE Client
  BY <1>2, ClientKeepsPing DEF Client
<1>3. CASE Broker
  BY <1>3, BrokerKeepsPing DEF Broker, clientVars, pingVars
<1>4. CASE UNCHANGED vars
  BY <1>4 DEF vars, linkVars, clientVars, pingVars, PingInv, OneInFlight, Heard, Pings, Pongs
<1> QED
  BY <1>1, <1>2, <1>3, <1>4 DEF Next

\* keepalive() and its flag ping_outstanding: on a connection that is open and
\* whose stream is intact, at most one PINGREQ or its PINGRESP is on its way,
\* exactly when the flag is set.
THEOREM OnePingHolds == Spec => []OnePing
<1>. USE LinkAssumption, ClientAssumption, BrokerAssumption DEF Assumptions
<1>1. Init => PingInv
  BY DEF Init, LinkInit, PingInv, Heard
<1>2. TypeOK /\ PingInv /\ [Next]_vars => PingInv'
  BY NextKeepsPing
<1>3. TypeOK /\ PingInv => OnePing
  BY PingInvGives
<1> QED
  BY <1>1, <1>2, <1>3, TypeCorrect, PTL DEF Spec

-----------------------------------------------------------------------------
(* The waits on the stack *)

\* Stack t has the waits for T that s has.
SameWaits(s, t, T) ==
    /\ WaitsFor(t, T) = WaitsFor(s, T)
    /\ \A k \in WaitsFor(s, T) : t[k].id = s[k].id

\* A delivery waits for nothing.
LEMMA DeliverNoWait ==
    ASSUME NEW f \in DeliverFrame
    PROVE  f \notin WaitFrame /\ Paired(f)
  BY DEF DeliverFrame, WaitFrame, Op, Paired

\* Popping one frame.
LEMMA PopWaits ==
    ASSUME NEW s \in Seq(Frame), NEW t, t = SubSeq(s, 1, Len(s) - 1)
    PROVE  /\ PairedIn(s) => PairedIn(t)
           /\ \A k \in DOMAIN t : t[k] = s[k]
           /\ \A T : WaitsFor(t, T) = WaitsFor(s, T) \ {Len(s)}
           /\ s # <<>> => t # s
<1>1. Len(s) \in Nat /\ DOMAIN s = 1..Len(s) /\ s \in [1..Len(s) -> Frame]
  BY LenProperties
<1>2. t \in Seq(Frame) /\ \A k \in DOMAIN t : k \in DOMAIN s /\ t[k] = s[k]
  <2>1. Len(s) - 1 \in Int /\ Len(s) - 1 <= Len(s)
    BY <1>1
  <2> QED
    BY <2>1, PrefixType
<1>3. DOMAIN t = 1..(Len(s) - 1)
  <2>1. CASE s = <<>>
    <3>1. DOMAIN t = {}
      BY <1>1, <1>2, <2>1, EmptySeq
    <3>2. 1..(Len(s) - 1) = {}
      BY <2>1
    <3> QED
      BY <3>1, <3>2
  <2>2. CASE s # <<>>
    <3>1. Len(s) \in Nat \ {0}
      BY <2>2, EmptySeq
    <3>2. \A i \in 1..(Len(s) - 1) : s[i] \in Frame
      BY <1>1
    <3>3. Len(t) = Len(s) - 1
      BY <3>1, <3>2, <1>1, SubSeqProperties
    <3> QED
      BY <1>2, <3>3, LenProperties
  <2> QED
    BY <2>1, <2>2
<1>4. PairedIn(s) => PairedIn(t)
  BY <1>2 DEF PairedIn
<1>5. \A k : k \in DOMAIN t <=> k \in DOMAIN s /\ k # Len(s)
  BY <1>1, <1>3
<1>6. ASSUME NEW T PROVE WaitsFor(t, T) = WaitsFor(s, T) \ {Len(s)}
  BY <1>2, <1>5 DEF WaitsFor
<1>7. ASSUME s # <<>> PROVE t # s
  <2>1. Len(s) \in DOMAIN s
    BY <1>1, <1>7, EmptySeq
  <2> QED
    BY <1>5, <2>1
<1> QED
  BY <1>2, <1>4, <1>6, <1>7

\* Popping a frame that does not wait for T.
LEMMA PopSame ==
    ASSUME NEW s \in Seq(Frame), NEW t, t = SubSeq(s, 1, Len(s) - 1), NEW T,
           ~(s[Len(s)] \in WaitFrame /\ s[Len(s)].await = T)
    PROVE  SameWaits(s, t, T)
<1>0. \A U : WaitsFor(t, U) = WaitsFor(s, U) \ {Len(s)}
  BY ONLY PopWaits, s \in Seq(Frame), t = SubSeq(s, 1, Len(s) - 1)
<1>01. \A k \in DOMAIN t : t[k] = s[k]
  BY ONLY PopWaits, s \in Seq(Frame), t = SubSeq(s, 1, Len(s) - 1)
<1>1. WaitsFor(t, T) = WaitsFor(s, T) \ {Len(s)} /\ \A k \in DOMAIN t : t[k] = s[k]
  BY <1>0, <1>01
<1>2. Len(s) \notin WaitsFor(s, T)
  BY DEF WaitsFor
<1>3. \A k \in WaitsFor(t, T) : k \in DOMAIN t
  BY DEF WaitsFor
<1> QED
  BY <1>1, <1>2, <1>3 DEF SameWaits

\* A failed cycle ends MQTTYield, which waits for nothing.
LEMMA AfterCycleSame ==
    ASSUME NEW s \in Seq(Frame), PairedIn(s), NEW ok \in BOOLEAN, NEW T \in AckTypes
    PROVE  SameWaits(s, AfterCycle(s, ok), T) /\ PairedIn(AfterCycle(s, ok))
<1>1. PICK t : t = SubSeq(s, 1, Len(s) - 1)
  OBVIOUS
<1>2. CASE ~ok /\ s[Len(s)].op = "yield"
  <2>1. AfterCycle(s, ok) = t
    BY <1>1, <1>2 DEF AfterCycle
  <2>2. PairedIn(t)
    BY <1>1, PopWaits
  <2>3. CASE s = <<>>
    <3>1. DOMAIN s = {} /\ Len(s) = 0
      BY <2>3, EmptySeq, LenProperties
    <3>2. WaitsFor(s, T) = {}
      BY <3>1 DEF WaitsFor
    <3>3. WaitsFor(t, T) = {}
      <4>1. \A U : WaitsFor(t, U) = WaitsFor(s, U) \ {Len(s)}
        BY <1>1, PopWaits
      <4>2. WaitsFor(t, T) = WaitsFor(s, T) \ {Len(s)}
        BY <4>1
      <4> QED
        BY <3>2, <4>2
    <3> QED
      BY <2>1, <2>2, <3>2, <3>3 DEF SameWaits
  <2>4. CASE s # <<>>
    <3>1. Len(s) \in DOMAIN s
      BY <2>4, EmptySeq, LenProperties
    <3>2. ~(s[Len(s)] \in WaitFrame /\ s[Len(s)].await = T)
      BY <1>2, <3>1 DEF PairedIn, Paired, AckTypes
    <3>3. SameWaits(s, t, T)
      BY <1>1, <3>2, PopSame
    <3> QED
      BY <2>1, <2>2, <3>3
  <2> QED
    BY <2>3, <2>4
<1>3. CASE ~(~ok /\ s[Len(s)].op = "yield")
  BY <1>3 DEF AfterCycle, SameWaits
<1> QED
  BY <1>2, <1>3

\* Pushing a frame.
LEMMA PushWaits ==
    ASSUME NEW s \in Seq(Frame), NEW f \in Frame
    PROVE  /\ PairedIn(s) /\ Paired(f) => PairedIn(Append(s, f))
           /\ \A k \in DOMAIN s : Append(s, f)[k] = s[k]
           /\ Append(s, f)[Len(s) + 1] = f
           /\ \A T : ~(f \in WaitFrame /\ f.await = T) => SameWaits(s, Append(s, f), T)
           /\ \A T : f \in WaitFrame /\ f.await = T =>
                        WaitsFor(Append(s, f), T) = WaitsFor(s, T) \cup {Len(s) + 1}
<1>1. /\ DOMAIN s = 1..Len(s) /\ Len(s) \in Nat
      /\ DOMAIN Append(s, f) = 1..(Len(s) + 1)
      /\ \A i \in 1..Len(s) : Append(s, f)[i] = s[i]
      /\ Append(s, f)[Len(s) + 1] = f
  BY AppendProperties, LenProperties
<1>2. PICK t : t = Append(s, f)
  OBVIOUS
<1>3. \A k : k \in DOMAIN t <=> k \in DOMAIN s \/ k = Len(s) + 1
  BY <1>1, <1>2
<1>4. (\A k \in DOMAIN s : t[k] = s[k]) /\ t[Len(s) + 1] = f /\ Len(s) + 1 \notin DOMAIN s
  BY <1>1, <1>2
<1>5. PairedIn(s) /\ Paired(f) => PairedIn(t)
  BY <1>3, <1>4 DEF PairedIn
<1>6. ASSUME NEW T, ~(f \in WaitFrame /\ f.await = T) PROVE SameWaits(s, t, T)
  <2>1. WaitsFor(t, T) = WaitsFor(s, T)
    BY <1>3, <1>4, <1>6 DEF WaitsFor
  <2> QED
    BY <1>4, <2>1 DEF SameWaits, WaitsFor
<1>7. ASSUME NEW T, f \in WaitFrame, f.await = T
      PROVE  WaitsFor(t, T) = WaitsFor(s, T) \cup {Len(s) + 1}
  BY <1>3, <1>4, <1>7 DEF WaitsFor
<1> QED
  BY <1>2, <1>4, <1>5, <1>6, <1>7

\* Changing a frame without touching what it waits for.
LEMMA ReplaceWaits ==
    ASSUME NEW s \in Seq(Frame), NEW i \in DOMAIN s, NEW f,
           f \in WaitFrame <=> s[i] \in WaitFrame,
           f \in WaitFrame => f.await = s[i].await /\ f.id = s[i].id /\ f.op = s[i].op
    PROVE  /\ PairedIn(s) => PairedIn([s EXCEPT ![i] = f])
           /\ \A T : SameWaits(s, [s EXCEPT ![i] = f], T)
<1>1. PICK t : t = [s EXCEPT ![i] = f]
  OBVIOUS
<1>2. DOMAIN t = DOMAIN s /\ t[i] = f /\ \A k \in DOMAIN s : k # i => t[k] = s[k]
  BY <1>1, LenProperties
<1>3. PairedIn(s) => PairedIn(t)
  <2>. SUFFICES ASSUME PairedIn(s), NEW k \in DOMAIN t PROVE Paired(t[k])
    BY DEF PairedIn
  <2>1. Paired(s[k])
    BY <1>2 DEF PairedIn
  <2>2. CASE k = i
    BY <1>2, <2>1, <2>2 DEF Paired
  <2>3. CASE k # i
    BY <1>2, <2>1, <2>3
  <2> QED
    BY <2>2, <2>3
<1>4. ASSUME NEW T PROVE SameWaits(s, t, T)
  <2>1. \A k \in DOMAIN s : /\ t[k] \in WaitFrame <=> s[k] \in WaitFrame
                            /\ t[k] \in WaitFrame => t[k].await = s[k].await /\ t[k].id = s[k].id
    BY <1>2
  <2>2. WaitsFor(t, T) = WaitsFor(s, T)
    BY <1>2, <2>1 DEF WaitsFor
  <2> QED
    BY <2>1, <2>2 DEF SameWaits, WaitsFor
<1> QED
  BY <1>1, <1>3, <1>4

\* What a call does to the stack before it pushes its own frame.
LEMMA CallerWaits ==
    ASSUME ClientTypeOK, ClientAssumption, PairedIn(stack), NEW op, AppMayCall(op)
    PROVE  /\ PairedIn(CallerStack) /\ CallerStack \in Seq(Frame)
           /\ \A T : SameWaits(stack, CallerStack, T)
<1>0. CallerStack \in Seq(Frame)
  BY CallerOK DEF StackOK
<1>1. CASE stack = <<>>
  BY <1>0, <1>1 DEF CallerStack, SameWaits
<1>2. CASE stack # <<>>
  <2>1. Top \in DeliverFrame /\ Len(stack) \in DOMAIN stack /\ Top = stack[Len(stack)]
    BY <1>2, TopIndex DEF AppMayCall, InHandler, Delivering
  <2>2. PICK f : f = [Top EXCEPT !.left = @ - 1]
    OBVIOUS
  <2>3. f.op = "deliver"
    BY <2>1, <2>2 DEF DeliverFrame
  <2>4. f \notin WaitFrame /\ Top \notin WaitFrame
    BY <2>1, <2>3, DeliverNoWait DEF WaitFrame, Op
  <2>5. CallerStack = [stack EXCEPT ![Len(stack)] = f]
    BY <1>2, <2>2 DEF CallerStack, Top
  <2>6. stack \in Seq(Frame)
    BY DEF ClientTypeOK
  <2>7. /\ PairedIn([stack EXCEPT ![Len(stack)] = f])
        /\ \A T : SameWaits(stack, [stack EXCEPT ![Len(stack)] = f], T)
    BY <2>1, <2>4, <2>6, ReplaceWaits
  <2> QED
    BY <1>0, <2>5, <2>7
<1> QED
  BY <1>1, <1>2

-----------------------------------------------------------------------------
(* What is in flight for an acknowledgement *)

\* What is claimed stays claimed while the waits for T are the same.
LEMMA ClaimedSame ==
    ASSUME NEW s, NEW t, NEW T, SameWaits(s, t, T), NEW p, NEW q, Claimed(s, T, p),
           T = "CONNACK" \/ p.id = q.id
    PROVE  Claimed(t, T, q)
<1>1. PICK k \in WaitsFor(s, T) : T = "CONNACK" \/ s[k].id = p.id
  BY DEF Claimed
<1>2. k \in WaitsFor(t, T) /\ t[k].id = s[k].id
  BY DEF SameWaits
<1> QED
  BY <1>1, <1>2 DEF Claimed

\* Nothing for T was added, and the same calls wait for it.
LEMMA AckKeeps ==
    ASSUME NEW T, AckInvOf(T), SameWaits(stack, stack', T),
           Thins(up, up', UpFor(T)), Thins(down, down', DownFor(T))
    PROVE  AckInvOf(T)'
<1>1. PICK A : A = UpFor(T)
  OBVIOUS
<1>2. PICK B : B = DownFor(T)
  OBVIOUS
<1>3. OneInFlight(A, B)'
  BY <1>1, <1>2, FlightThins DEF AckInvOf
<1>4. OneInFlight(UpFor(T), DownFor(T))'
  BY <1>1, <1>2, <1>3 DEF OneInFlight, UpFor, DownFor
<1>5. \A j, k \in WaitsFor(stack', T) : j = k
  BY DEF AckInvOf, SameWaits
<1>6. ASSUME NEW k \in DOMAIN up', up'[k] \in UpFor(T) PROVE Claimed(stack', T, up'[k])
  <2>1. PICK j \in DOMAIN up : up[j] = up'[k]
    BY <1>6 DEF Thins
  <2>2. Claimed(stack, T, up[j])
    BY <1>6, <2>1 DEF AckInvOf
  <2> QED
    BY <2>1, <2>2, ClaimedSame
<1>7. ASSUME NEW k \in DOMAIN down', down'[k] \in DownFor(T) PROVE Claimed(stack', T, down'[k])
  <2>1. PICK j \in DOMAIN down : down[j] = down'[k]
    BY <1>7 DEF Thins
  <2>2. Claimed(stack, T, down[j])
    BY <1>7, <2>1 DEF AckInvOf
  <2> QED
    BY <2>1, <2>2, ClaimedSame
<1> QED
  BY <1>4, <1>5, <1>6, <1>7 DEF AckInvOf, UpFor, DownFor, WaitsFor, Claimed

\* Nothing for T is in flight any more.
LEMMA AckClear ==
    ASSUME NEW T, AckInvOf(T), WaitsFor(stack', T) \subseteq WaitsFor(stack, T),
           Clear(up', UpFor(T)), Clear(down', DownFor(T))
    PROVE  AckInvOf(T)'
  BY DEF AckInvOf, OneInFlight, Clear, Lone, UpFor, DownFor, WaitsFor

\* All there is for T is on the way up: packet p, claimed by a wait.
LEMMA AckUp ==
    ASSUME NEW T, NEW p, \A j, k \in WaitsFor(stack', T) : j = k,
           Clear(down', DownFor(T)), Lone(up', UpFor(T)),
           \A k \in DOMAIN up' : up'[k] \in UpFor(T) => up'[k] = p /\ Claimed(stack', T, p)
    PROVE  AckInvOf(T)'
  BY DEF AckInvOf, OneInFlight, Clear, Lone, UpFor, DownFor, WaitsFor, Claimed

\* All there is for T is on the way down.
LEMMA AckDown ==
    ASSUME NEW T, NEW p, \A j, k \in WaitsFor(stack', T) : j = k,
           Clear(up', UpFor(T)), Lone(down', DownFor(T)),
           \A k \in DOMAIN down' :
              down'[k] \in DownFor(T) => down'[k] = p /\ Claimed(stack', T, p)
    PROVE  AckInvOf(T)'
  BY DEF AckInvOf, OneInFlight, Clear, Lone, UpFor, DownFor, WaitsFor, Claimed

\* keepalive() and writes of anything but a request add nothing for T.
LEMMA KeepaliveAdds ==
    ASSUME LinkTypeOK, LinkAssumption, ClientAssumption, NEW outstanding, NEW outcome,
           keepalive(outstanding, outcome), NEW T
    PROVE  Thins(up, up', UpFor(T))
<1>1. PICK A : A = UpFor(T)
  OBVIOUS
<1>2. PICK p : p = Bare("PINGREQ")
  OBVIOUS
<1>3. p \in UpPacket /\ p \notin A /\ Garbage \notin A
  BY <1>1, <1>2 DEF UpFor, Garbage, Bare, Ack, MkPacket, UpPacket, Packet, PacketType,
                    LinkAssumption
<1>4. CASE PingDue(outstanding)
  BY <1>1, <1>2, <1>3, <1>4, SendFlight DEF keepalive
<1>5. CASE ~PingDue(outstanding)
  BY <1>5 DEF keepalive, Thins
<1> QED
  BY <1>4, <1>5

\* A write of a packet that is no request for T.
LEMMA SendAdds ==
    ASSUME LinkTypeOK, LinkAssumption, ClientAssumption, NEW p \in UpPacket, NEW outcome,
           NEW late, sendPacket(p, outcome, late), NEW T, p \notin UpFor(T)
    PROVE  Thins(up, up', UpFor(T))
<1>1. PICK A : A = UpFor(T)
  OBVIOUS
<1>2. p \notin A /\ Garbage \notin A
  BY <1>1 DEF UpFor, Garbage, Bare, Ack, MkPacket
<1> QED
  BY <1>1, <1>2, SendFlight

\* What is in flight for T is on one side.
LEMMA OneSide ==
    ASSUME NEW T, AckInvOf(T)
    PROVE  /\ ~Clear(down, DownFor(T)) => Clear(up, UpFor(T))
           /\ ~Clear(up, UpFor(T)) => Clear(down, DownFor(T))
           /\ Lone(up, UpFor(T)) /\ Lone(down, DownFor(T))
           /\ \A j, k \in WaitsFor(stack, T) : j = k
           /\ WaitsFor(stack, T) = {} => Clear(up, UpFor(T)) /\ Clear(down, DownFor(T))
<1>1. Lone(up, UpFor(T)) /\ Lone(down, DownFor(T)) /\ (Clear(up, UpFor(T)) \/ Clear(down, DownFor(T)))
  BY DEF AckInvOf, OneInFlight
<1>2. \A j, k \in WaitsFor(stack, T) : j = k
  BY DEF AckInvOf
<1>3. ASSUME WaitsFor(stack, T) = {} PROVE Clear(up, UpFor(T)) /\ Clear(down, DownFor(T))
  <2>1. \A p : ~Claimed(stack, T, p)
    BY <1>3 DEF Claimed
  <2> QED
    BY <2>1 DEF AckInvOf, Clear
<1> QED
  BY <1>1, <1>2, <1>3

-----------------------------------------------------------------------------
(* The client's steps *)

\* A sequence that did not change.
LEMMA SameThins == \A s, A : Thins(s, s, A)
  BY DEF Thins

\* A request: only what it asks for can be new, and its call waits for it.
LEMMA RequestKeepsAck ==
    ASSUME TypeOK, Assumptions, AckInv, PairedIn(stack),
           NEW p \in UpPacket, NEW op, NEW await, NEW outcome,
           Request(p, op, await, outcome), Asks(p, op, await)
    PROVE  AckInv' /\ PairedIn(stack')
<1>. USE DEF TypeOK, Assumptions
<1>1. /\ sendPacket(p, outcome, pingExpired /\ op # "connect")
      /\ down' = down /\ AppMayCall(op) /\ orphaned \subseteq orphaned'
  BY DEF Request
<1>2. PICK c : c = CallerStack
  OBVIOUS
<1>3. PairedIn(c) /\ c \in Seq(Frame) /\ \A T : SameWaits(stack, c, T)
  BY <1>1, <1>2, CallerWaits
<1>4. PICK f : f = [op |-> op, await |-> await, id |-> p.id, expired |-> FALSE,
                    topic |-> IF p.body \in Topics THEN p.body ELSE None]
  OBVIOUS
<1>5. /\ outcome = "sent" /\ await \in AckTypes => stack' = Append(c, f)
      /\ ~(outcome = "sent" /\ await \in AckTypes) => stack' = c
  BY <1>2, <1>4 DEF Request
<1>6. f.await = await /\ f.id = p.id /\ f.op = op
  BY <1>4
<1>7. await \in AckTypes => f \in Frame /\ f \in WaitFrame /\ Paired(f)
  <2>. SUFFICES ASSUME await \in AckTypes PROVE f \in Frame /\ f \in WaitFrame /\ Paired(f)
    OBVIOUS
  <2>1. op \in {"connect", "subscribe", "unsubscribe", "publish"}
    BY DEF Asks, AckTypes
  <2>2. f \in WaitFrame
    BY <1>4, <2>1 DEF WaitFrame, Op, UpPacket, Packet
  <2>3. f.op = "subscribe" => f.topic \in Topics
    BY <1>4 DEF Asks, UpPacket
  <2>4. Paired(f)
    BY <1>6, <2>1 DEF Paired, Asks
  <2> QED
    BY <2>2, <2>3, <2>4 DEF Frame
<1>8. PairedIn(stack')
  <2>1. CASE outcome = "sent" /\ await \in AckTypes
    <3>1. PairedIn(Append(c, f))
      BY <1>3, <1>7, <2>1, PushWaits
    <3> QED
      BY <1>5, <2>1, <3>1
  <2>2. CASE ~(outcome = "sent" /\ await \in AckTypes)
    BY <1>3, <1>5, <2>2
  <2> QED
    BY <2>1, <2>2
<1>9. ASSUME NEW T \in AckTypes \ orphaned' PROVE AckInvOf(T)'
  <2>1. AckInvOf(T)
    BY <1>1, <1>9 DEF AckInv
  <2>2. CASE T # await
    <3>1. p \notin UpFor(T)
      BY <2>2 DEF Asks, UpFor
    <3>2. Thins(up, up', UpFor(T))
      BY <1>1, <3>1, SendAdds
    <3>3. SameWaits(stack, stack', T)
      <4>1. SameWaits(stack, c, T)
        BY <1>3
      <4>2. CASE outcome = "sent" /\ await \in AckTypes
        <5>1. ~(f \in WaitFrame /\ f.await = T)
          BY <1>6, <2>2
        <5>2. \A U : ~(f \in WaitFrame /\ f.await = U) => SameWaits(c, Append(c, f), U)
          BY ONLY PushWaits, <1>3, <1>7, <4>2
        <5>3. SameWaits(c, Append(c, f), T)
          BY <5>1, <5>2
        <5>4. SameWaits(c, stack', T)
          BY <1>5, <4>2, <5>3
        <5> QED
          BY <4>1, <5>4 DEF SameWaits
      <4>3. CASE ~(outcome = "sent" /\ await \in AckTypes)
        BY <1>5, <4>1, <4>3
      <4> QED
        BY <4>2, <4>3
    <3>4. Thins(down, down', DownFor(T))
      BY <1>1, SameThins
    <3> QED
      BY <2>1, <3>2, <3>3, <3>4, AckKeeps
  <2>3. CASE T = await
    <3>1. ~LeavesOrphan(await, outcome)
      BY <1>9, <2>3 DEF Request
    <3>2. outcome # "overrun" /\ WaitsFor(stack, T) = {}
      BY <1>9, <2>3, <3>1 DEF LeavesOrphan, WaitsFor
    <3>3. Clear(up, UpFor(T)) /\ Clear(down, DownFor(T))
      BY <2>1, <3>2, OneSide
    <3>4. Clear(down', DownFor(T))
      BY <1>1, <3>3
    <3>5. SameWaits(stack, c, T)
      BY <1>3
    <3>6. WaitsFor(c, T) = {}
      BY <3>2, <3>5 DEF SameWaits
    <3>7. PICK A : A = UpFor(T)
      OBVIOUS
    <3>8. Garbage \notin A
      BY <3>7 DEF UpFor, Garbage, Bare, Ack, MkPacket
    <3>9. CASE outcome = "sent"
      <4>1. Lone(up', A) /\ \A k \in DOMAIN up' : up'[k] \in A => up'[k] = p
        BY <1>1, <3>3, <3>7, <3>8, SendFlight
      <4>2. stack' = Append(c, f) /\ f \in Frame /\ f \in WaitFrame /\ f.await = T
        BY <1>5, <1>6, <1>7, <1>9, <2>3, <3>9
      <4>3. WaitsFor(stack', T) = {Len(c) + 1} /\ stack'[Len(c) + 1] = f
        <5>1. /\ \A U : f \in WaitFrame /\ f.await = U =>
                          WaitsFor(Append(c, f), U) = WaitsFor(c, U) \cup {Len(c) + 1}
              /\ Append(c, f)[Len(c) + 1] = f
          BY ONLY PushWaits, <1>3, <4>2
        <5>2. WaitsFor(Append(c, f), T) = WaitsFor(c, T) \cup {Len(c) + 1}
          BY <4>2, <5>1
        <5> QED
          BY <3>6, <4>2, <5>1, <5>2
      <4>4. Claimed(stack', T, p)
        BY <1>6, <4>3 DEF Claimed
      <4>5. \A j, k \in WaitsFor(stack', T) : j = k
        BY <4>3
      <4> QED
        BY <3>4, <3>7, <4>1, <4>4, <4>5, AckUp
    <3>10. CASE outcome # "sent"
      <4>1. WaitsFor(stack', T) \subseteq WaitsFor(stack, T)
        BY <1>5, <3>6, <3>10
      <4>2. /\ Garbage \in UpPacket
            /\ up' = up \/ up' = Append(up, Garbage)
        BY <1>1, <3>2, <3>10, SendCases
      <4>3. Thins(up, up', A)
        <5>1. CASE up' = up
          BY <5>1, SameThins
        <5>2. CASE up' = Append(up, Garbage)
          <6>1. PICK g \in UpPacket : g = Garbage
            BY <4>2
          <6>2. up \in Seq(UpPacket)
            BY DEF LinkTypeOK
          <6> QED
            BY <3>8, <5>2, <6>1, <6>2, AppendThins
        <5> QED
          BY <4>2, <5>1, <5>2
      <4>4. Clear(up', UpFor(T))
        BY <3>3, <3>7, <4>3, ThinsClear
      <4> QED
        BY <2>1, <3>4, <4>1, <4>4, AckClear
    <3> QED
      BY <3>9, <3>10
  <2> QED
    BY <2>2, <2>3
<1> QED
  BY <1>8, <1>9 DEF AckInv

\* The application's calls.
LEMMA AppKeepsAck ==
    ASSUME TypeOK, Assumptions, AckInv, PairedIn(stack), AppCalls
    PROVE  AckInv' /\ PairedIn(stack')
<1>. USE DEF TypeOK, Assumptions
<1>1. CASE MQTTYield
  <2>1. PICK c : c = CallerStack
    OBVIOUS
  <2>2. PICK f : f = [op |-> "yield", await |-> "none", id |-> 0, topic |-> None,
                      expired |-> FALSE]
    OBVIOUS
  <2>3. PairedIn(c) /\ c \in Seq(Frame) /\ \A T : SameWaits(stack, c, T)
    BY <1>1, <2>1, CallerWaits DEF MQTTYield
  <2>4. stack' = Append(c, f) /\ f.await = "none" /\ Paired(f)
    BY <1>1, <2>1, <2>2 DEF MQTTYield, Paired
  <2>5. f \in Frame
    BY <2>2 DEF Frame, WaitFrame, Op, LinkAssumption
  <2>6. up' = up /\ down' = down /\ orphaned' = orphaned
    BY <1>1 DEF MQTTYield, linkVars, historyVars
  <2>7. /\ PairedIn(stack')
        /\ \A T : ~(f \in WaitFrame /\ f.await = T) => SameWaits(c, stack', T)
    BY <2>3, <2>4, <2>5, PushWaits
  <2>8. ASSUME NEW T \in AckTypes \ orphaned' PROVE AckInvOf(T)'
    <3>1. AckInvOf(T)
      BY <2>6, <2>8 DEF AckInv
    <3>2. SameWaits(c, stack', T) /\ SameWaits(stack, c, T)
      BY <2>3, <2>4, <2>7, <2>8 DEF AckTypes
    <3>3. SameWaits(stack, stack', T)
      BY <3>2 DEF SameWaits
    <3>4. Thins(up, up', UpFor(T)) /\ Thins(down, down', DownFor(T))
      BY <2>6, SameThins
    <3> QED
      BY <3>1, <3>3, <3>4, AckKeeps
  <2> QED
    BY <2>7, <2>8 DEF AckInv
<1> QED
  BY <1>1, AppRequests, RequestKeepsAck

\* A step that adds nothing to what is in flight.
LEMMA QuietKeepsAck ==
    ASSUME AckInv, orphaned \subseteq orphaned',
           \A T \in AckTypes \ orphaned' :
              /\ SameWaits(stack, stack', T)
              /\ Thins(up, up', UpFor(T)) /\ Thins(down, down', DownFor(T))
    PROVE  AckInv'
<1>1. ASSUME NEW T \in AckTypes \ orphaned' PROVE AckInvOf(T)'
  <2>1. AckInvOf(T)
    BY <1>1 DEF AckInv
  <2> QED
    BY <1>1, <2>1, AckKeeps
<1> QED
  BY <1>1 DEF AckInv

\* A stack has the waits it has.
LEMMA SameSame == \A s, T : SameWaits(s, s, T)
  BY DEF SameWaits

\* A call that takes its acknowledgement.
LEMMA CompleteKeepsAck ==
    ASSUME TypeOK, Assumptions, AckInv, PairedIn(stack), NEW outcome,
           CompleteConnect(outcome) \/ CompleteSubscribe(outcome) \/ CompleteOther(outcome)
    PROVE  /\ AckInv' /\ PairedIn(stack')
           /\ Head(down).type = Top.await
<1>. USE DEF TypeOK, Assumptions
<1>1. /\ Reads(AckTypes) /\ keepalive(ping_outstanding, outcome)
      /\ stack' = Below /\ orphaned' = orphaned
      /\ Head(down).type = Top.await
  BY DEF CompleteConnect, CompleteSubscribe, CompleteOther, Completes, historyVars
<1>2. /\ \A B : Thins(down, down', B)
      /\ \A B : Head(down) \in B /\ Lone(down, B) => Clear(down', B)
      /\ 1 \in DOMAIN down /\ down[1] = Head(down) /\ Head(down) \in DownPacket
      /\ Head(down).type \in AckTypes /\ stack # <<>> /\ Top \in WaitFrame
  BY <1>1, ReadsThins
<1>3. stack \in Seq(Frame) /\ stack' = SubSeq(stack, 1, Len(stack) - 1)
  BY <1>1 DEF ClientTypeOK, Below
<1>4. /\ PairedIn(stack')
      /\ \A T : WaitsFor(stack', T) = WaitsFor(stack, T) \ {Len(stack)}
  <2>1. PICK t : t = SubSeq(stack, 1, Len(stack) - 1)
    OBVIOUS
  <2>2. \A T : WaitsFor(t, T) = WaitsFor(stack, T) \ {Len(stack)}
    BY ONLY PopWaits, <1>3, <2>1
  <2>3. PairedIn(t)
    BY ONLY PopWaits, <1>3, <2>1, PairedIn(stack)
  <2> QED
    BY <1>3, <2>1, <2>2, <2>3
<1>5. ASSUME NEW T \in AckTypes \ orphaned' PROVE AckInvOf(T)'
  <2>1. AckInvOf(T)
    BY <1>1, <1>5 DEF AckInv
  <2>2. Thins(up, up', UpFor(T))
    BY <1>1, KeepaliveAdds
  <2>3. CASE T # Top.await
    <3>1. ~(stack[Len(stack)] \in WaitFrame /\ stack[Len(stack)].await = T)
      BY <2>3 DEF Top
    <3>2. SameWaits(stack, stack', T)
      BY <1>3, <3>1, PopSame
    <3> QED
      BY <1>2, <2>1, <2>2, <3>2, AckKeeps
  <2>4. CASE T = Top.await
    <3>1. Head(down) \in DownFor(T)
      BY <1>1, <1>2, <2>4 DEF DownFor
    <3>2. ~Clear(down, DownFor(T))
      BY <1>2, <3>1 DEF Clear
    <3>3. Clear(up, UpFor(T)) /\ Lone(down, DownFor(T))
      BY <2>1, <3>2, OneSide
    <3>4. Clear(down', DownFor(T))
      BY <1>2, <3>1, <3>3
    <3>5. Clear(up', UpFor(T))
      BY <2>2, <3>3, ThinsClear
    <3>6. WaitsFor(stack', T) \subseteq WaitsFor(stack, T)
      BY <1>4
    <3> QED
      BY <2>1, <3>4, <3>5, <3>6, AckClear
  <2> QED
    BY <2>3, <2>4
<1> QED
  BY <1>1, <1>4, <1>5 DEF AckInv

\* PUBREC is answered with PUBREL: the exchange goes on under the same id.
LEMMA PubrecKeepsAck ==
    ASSUME TypeOK, Assumptions, AckInv, PairedIn(stack), NEW outcome, ReadPubrec(outcome)
    PROVE  AckInv' /\ PairedIn(stack')
<1>. USE DEF TypeOK, Assumptions
<1>1. PICK p : p = Ack("PUBREL", Head(down).id)
  OBVIOUS
<1>2. /\ Reads({"PUBREC"}) /\ sendPacket(p, outcome, pingExpired) /\ orphaned' = orphaned
      /\ stack' = AfterCycle(stack, outcome = "sent")
  BY <1>1 DEF ReadPubrec, historyVars
<1>3. /\ \A B : Thins(down, down', B)
      /\ \A B : Head(down) \in B /\ Lone(down, B) => Clear(down', B)
      /\ 1 \in DOMAIN down /\ down[1] = Head(down) /\ Head(down) \in DownPacket
      /\ Head(down).type \in {"PUBREC"}
  BY <1>2, ReadsThins
<1>4. p \in UpPacket /\ p.type = "PUBREL" /\ p.id = Head(down).id
  <2>1. p.type = "PUBREL" /\ p.id = Head(down).id
    BY <1>1 DEF Ack, MkPacket
  <2> QED
    BY <1>1, <1>3, <2>1, AckType DEF PacketType
<1>5. PairedIn(stack') /\ \A T \in AckTypes : SameWaits(stack, stack', T)
  <2>1. PICK ok \in BOOLEAN : ok = (outcome = "sent")
    OBVIOUS
  <2>2. stack \in Seq(Frame)
    BY DEF ClientTypeOK
  <2>3. /\ PairedIn(AfterCycle(stack, ok))
        /\ \A T \in AckTypes : SameWaits(stack, AfterCycle(stack, ok), T)
    <3>1. ASSUME NEW T \in AckTypes
          PROVE  SameWaits(stack, AfterCycle(stack, ok), T) /\ PairedIn(AfterCycle(stack, ok))
      BY <2>2, AfterCycleSame
    <3> QED
      BY <3>1 DEF AckTypes
  <2> QED
    BY <1>2, <2>1, <2>3
<1>6. ASSUME NEW T \in AckTypes \ orphaned' PROVE AckInvOf(T)'
  <2>1. AckInvOf(T) /\ SameWaits(stack, stack', T)
    BY <1>2, <1>5, <1>6 DEF AckInv
  <2>2. CASE T # "PUBCOMP"
    <3>1. p \notin UpFor(T)
      BY <1>4, <2>2 DEF UpFor
    <3>2. Thins(up, up', UpFor(T))
      BY <1>2, <1>4, <3>1, SendAdds
    <3> QED
      BY <1>3, <2>1, <3>2, AckKeeps
  <2>3. CASE T = "PUBCOMP"
    <3>1. Head(down) \in DownFor(T)
      BY <1>3, <2>3 DEF DownFor
    <3>2. ~Clear(down, DownFor(T))
      BY <1>3, <3>1 DEF Clear
    <3>3. Clear(up, UpFor(T)) /\ Lone(down, DownFor(T)) /\ \A j, k \in WaitsFor(stack, T) : j = k
      BY <2>1, <3>2, OneSide
    <3>4. Clear(down', DownFor(T))
      BY <1>3, <3>1, <3>3
    <3>5. Claimed(stack, T, Head(down))
      BY <1>3, <2>1, <3>1 DEF AckInvOf
    <3>6. Claimed(stack', T, p)
      BY <1>4, <2>1, <3>5, ClaimedSame
    <3>7. PICK A : A = UpFor(T)
      OBVIOUS
    <3>8. Garbage \notin A
      BY <3>7 DEF UpFor, Garbage, Bare, Ack, MkPacket
    <3>9. Lone(up', A) /\ \A k \in DOMAIN up' : up'[k] \in A => up'[k] = p
      BY <1>2, <1>4, <3>3, <3>7, <3>8, SendFlight
    <3>10. \A j, k \in WaitsFor(stack', T) : j = k
      BY <2>1, <3>3 DEF SameWaits
    <3> QED
      BY <3>4, <3>6, <3>7, <3>9, <3>10, AckUp
  <2> QED
    BY <2>2, <2>3
<1> QED
  BY <1>5, <1>6 DEF AckInv

\* Everything else cycle() may read.
LEMMA CycleKeepsAck ==
    ASSUME TypeOK, Assumptions, AckInv, PairedIn(stack), CycleReads
    PROVE  AckInv' /\ PairedIn(stack')
<1>. USE DEF TypeOK, Assumptions
<1>0. stack \in Seq(Frame)
  BY DEF ClientTypeOK
<1>1. ASSUME NEW types, Reads(types) PROVE \A B : Thins(down, down', B)
  BY <1>1, ReadsThins
<1>2. ASSUME NEW outcome, DropAck(outcome) \/ ReadPingresp(outcome)
      PROVE  AckInv' /\ PairedIn(stack')
  <2>1. PICK types : Reads(types)
    BY <1>2 DEF DropAck, ReadPingresp
  <2>2. PICK outstanding : keepalive(outstanding, outcome)
    BY <1>2 DEF DropAck, ReadPingresp
  <2>3. stack' = stack /\ orphaned' = orphaned
    BY <1>2 DEF DropAck, ReadPingresp, historyVars
  <2>4. \A T : Thins(up, up', UpFor(T))
    BY <2>2, KeepaliveAdds
  <2>5. \A B : Thins(down, down', B)
    BY <1>1, <2>1
  <2>6. AckInv'
    BY <2>3, <2>4, <2>5, SameSame, QuietKeepsAck
  <2> QED
    BY <2>3, <2>6
<1>3. ASSUME NEW outcome, ReadPubrel(outcome) PROVE AckInv' /\ PairedIn(stack')
  <2>1. PICK p : p = Ack("PUBCOMP", Head(down).id)
    OBVIOUS
  <2>2. /\ Reads({"PUBREL"}) /\ sendPacket(p, outcome, pingExpired) /\ orphaned' = orphaned
        /\ stack' = AfterCycle(stack, outcome = "sent")
    BY <1>3, <2>1 DEF ReadPubrel, historyVars
  <2>3. p \in UpPacket /\ p.type = "PUBCOMP"
    <3>1. Head(down) \in DownPacket
      BY <2>2, ReadsThins
    <3>2. p.type = "PUBCOMP"
      BY <2>1 DEF Ack, MkPacket
    <3> QED
      BY <2>1, <3>1, <3>2, AckType DEF PacketType, AckTypes
  <2>4. \A T : Thins(up, up', UpFor(T))
    <3>1. \A T : p \notin UpFor(T)
      BY <2>3 DEF UpFor
    <3> QED
      BY <2>2, <2>3, <3>1, SendAdds
  <2>5. PICK ok \in BOOLEAN : ok = (outcome = "sent")
    OBVIOUS
  <2>6. ASSUME NEW T \in AckTypes
        PROVE  SameWaits(stack, AfterCycle(stack, ok), T) /\ PairedIn(AfterCycle(stack, ok))
    BY <1>0, AfterCycleSame
  <2>7. PairedIn(stack') /\ \A T \in AckTypes : SameWaits(stack, stack', T)
    BY <2>2, <2>5, <2>6 DEF AckTypes
  <2>8. \A B : Thins(down, down', B)
    BY <1>1, <2>2
  <2>9. AckInv'
    BY <2>2, <2>4, <2>7, <2>8, QuietKeepsAck
  <2> QED
    BY <2>7, <2>9
<1>4. CASE ReadPublish
  <2>1. Reads({"PUBLISH"}) /\ up' = up /\ orphaned' = orphaned
    BY <1>4 DEF ReadPublish
  <2>2. Head(down) \in DownPacket /\ Head(down).type = "PUBLISH"
    BY <2>1, ReadsThins
  <2>3. PICK slot \in Nat \ {0} : stack' = Append(stack, DeliverFrom(Head(down), slot))
    <3>1. NoHandler \in Nat \ {0}
      BY LenProperties DEF NoHandler, ClientTypeOK
    <3>2. Accept(Head(down)) \/ Ignore(Head(down))
      BY <1>4 DEF ReadPublish
    <3> QED
      BY <3>1, <3>2 DEF Accept, Ignore
  <2>4. PICK f : f = DeliverFrom(Head(down), slot)
    OBVIOUS
  <2>5. f \in DeliverFrame /\ f \in Frame
    BY <2>2, <2>4 DEF DeliverFrom, DeliverFrame, Frame, ClientAssumption
  <2>6. f \notin WaitFrame /\ Paired(f)
    BY <2>5, DeliverNoWait
  <2>7. PairedIn(Append(stack, f)) /\ \A T : SameWaits(stack, Append(stack, f), T)
    BY <1>0, <2>5, <2>6, PushWaits
  <2>8. PairedIn(stack') /\ \A T : SameWaits(stack, stack', T)
    BY <2>3, <2>4, <2>7
  <2>9. \A B : Thins(down, down', B)
    BY <1>1, <2>1
  <2>10. AckInv'
    BY <2>1, <2>8, <2>9, SameThins, QuietKeepsAck
  <2> QED
    BY <2>8, <2>10
<1> QED
  BY <1>2, <1>3, <1>4, CompleteKeepsAck, PubrecKeepsAck DEF CycleReads

\* Deliveries: no call waits on account of them.
LEMMA DeliversKeepsAck ==
    ASSUME TypeOK, Assumptions, AckInv, PairedIn(stack), Delivers \/ HandlerReturns
    PROVE  AckInv' /\ PairedIn(stack')
<1>. USE DEF TypeOK, Assumptions
<1>0. stack \in Seq(Frame) /\ Len(stack) \in Nat
  BY LenProperties DEF ClientTypeOK
<1>1. CASE CallHandler \/ HandlerReturns
  <2>1. Delivering /\ up' = up /\ down' = down /\ orphaned' = orphaned
    BY <1>1 DEF CallHandler, HandlerReturns, InHandler, linkVars, historyVars
  <2>2. /\ Len(stack) \in DOMAIN stack /\ Top = stack[Len(stack)]
        /\ Top \in DeliverFrame
    BY <2>1, DeliveringTypes
  <2>3. PICK f : stack' = [stack EXCEPT ![Len(stack)] = f] /\ f.op = Top.op
    <3>1. CASE HandlerReturns
      <4>1. PICK f : f = [Top EXCEPT !.running = FALSE]
        OBVIOUS
      <4>2. f.op = Top.op
        BY <2>2, <4>1 DEF DeliverFrame
      <4>3. stack' = [stack EXCEPT ![Len(stack)] = f]
        BY <3>1, <4>1 DEF HandlerReturns, Top
      <4> QED
        BY <4>2, <4>3
    <3>2. CASE CallHandler
      <4>1. PICK i : stack' = [stack EXCEPT ![Len(stack)] =
                                [@ EXCEPT !.slot = i + 1, !.left = HandlerCalls,
                                          !.running = (SeenTopic \in ReentrantTopics)]]
        BY <3>2 DEF CallHandler
      <4>2. PICK f : f = [Top EXCEPT !.slot = i + 1, !.left = HandlerCalls,
                                     !.running = (SeenTopic \in ReentrantTopics)]
        OBVIOUS
      <4>3. f.op = Top.op
        BY <2>2, <4>2 DEF DeliverFrame
      <4>4. stack' = [stack EXCEPT ![Len(stack)] = f]
        BY <4>1, <4>2 DEF Top
      <4> QED
        BY <4>3, <4>4
    <3> QED
      BY <1>1, <3>1, <3>2
  <2>4. f \notin WaitFrame /\ Top \notin WaitFrame
    BY <2>2, <2>3 DEF DeliverFrame, WaitFrame, Op
  <2>5. /\ PairedIn([stack EXCEPT ![Len(stack)] = f])
        /\ \A T : SameWaits(stack, [stack EXCEPT ![Len(stack)] = f], T)
    BY <1>0, <2>2, <2>4, ReplaceWaits
  <2>6. PairedIn(stack') /\ \A T : SameWaits(stack, stack', T)
    BY <2>3, <2>5
  <2>7. AckInv'
    BY <2>1, <2>6, SameThins, QuietKeepsAck
  <2> QED
    BY <2>6, <2>7
<1>2. ASSUME NEW outcome, AcknowledgePublish(outcome) PROVE AckInv' /\ PairedIn(stack')
  <2>1. Delivering /\ down' = down /\ orphaned' = orphaned
    BY <1>2 DEF AcknowledgePublish, historyVars
  <2>2. Top = stack[Len(stack)] /\ Top \in DeliverFrame /\ stack # <<>>
    BY <2>1, DeliveringTypes
  <2>3. Top \notin WaitFrame
    BY <2>2, DeliverNoWait
  <2>4. PICK b : b = SubSeq(stack, 1, Len(stack) - 1)
    OBVIOUS
  <2>5. b \in Seq(Frame)
    BY <2>2, <2>4, StackTypes DEF Below
  <2>6. PairedIn(b)
    BY ONLY PopWaits, <1>0, <2>4, PairedIn(stack)
  <2>7. \A T : SameWaits(stack, b, T)
    BY <1>0, <2>2, <2>3, <2>4, PopSame
  <2>8. PICK ok \in BOOLEAN : ok = (outcome = "sent")
    OBVIOUS
  <2>9. ASSUME NEW T \in AckTypes
        PROVE  SameWaits(b, AfterCycle(b, ok), T) /\ PairedIn(AfterCycle(b, ok))
    BY <2>5, <2>6, AfterCycleSame
  <2>10. /\ PairedIn(AfterCycle(b, ok))
         /\ \A T \in AckTypes : SameWaits(b, AfterCycle(b, ok), T)
    BY <2>9 DEF AckTypes
  <2>11. stack' = b \/ stack' = AfterCycle(b, ok)
    BY <1>2, <2>4, <2>8 DEF AcknowledgePublish, Below
  <2>12. PairedIn(stack') /\ \A T \in AckTypes : SameWaits(stack, stack', T)
    <3>1. CASE stack' = b
      BY <2>6, <2>7, <3>1
    <3>2. CASE stack' = AfterCycle(b, ok)
      BY <2>7, <2>10, <3>2 DEF SameWaits
    <3> QED
      BY <2>11, <3>1, <3>2
  <2>13. \A T : Thins(up, up', UpFor(T))
    <3>1. CASE Top.pkt.val = 0
      BY <1>2, <3>1, KeepaliveAdds DEF AcknowledgePublish
    <3>2. CASE Top.pkt.val # 0
      <4>1. PICK type \in {"PUBACK", "PUBREC"} :
               sendPacket(Ack(type, Top.pkt.id), outcome, pingExpired)
        BY <1>2, <3>2 DEF AcknowledgePublish
      <4>2. PICK p : p = Ack(type, Top.pkt.id)
        OBVIOUS
      <4>3. p.type = type
        BY <4>2 DEF Ack, MkPacket
      <4>4. p \in UpPacket
        <5>1. Top.pkt \in DownPacket
          BY <2>2 DEF DeliverFrame
        <5> QED
          BY <4>2, <5>1, AckType DEF PacketType, AckTypes
      <4>5. \A T : p \notin UpFor(T)
        BY <4>3 DEF UpFor
      <4> QED
        BY <4>1, <4>2, <4>4, <4>5, SendAdds
    <3> QED
      BY <3>1, <3>2
  <2>14. AckInv'
    BY <2>1, <2>12, <2>13, SameThins, QuietKeepsAck
  <2> QED
    BY <2>12, <2>14
<1> QED
  BY <1>1, <1>2 DEF Delivers

\* Time passes; a wait that ends leaves its acknowledgement to come.
LEMMA TimeKeepsAck ==
    ASSUME TypeOK, Assumptions, AckInv, PairedIn(stack), TimePasses \/ WaitEnds
    PROVE  AckInv' /\ PairedIn(stack')
<1>. USE DEF TypeOK, Assumptions
<1>0. stack \in Seq(Frame) /\ Len(stack) \in Nat
  BY LenProperties DEF ClientTypeOK
<1>1. CASE PingTimerExpires
  <2>1. up' = up /\ down' = down /\ stack' = stack /\ orphaned' = orphaned
    BY <1>1 DEF PingTimerExpires, linkVars, historyVars
  <2> QED
    BY <2>1, SameThins, SameSame, QuietKeepsAck
<1>2. ASSUME NEW i \in DOMAIN stack, stack[i] \in WaitFrame,
             stack' = [stack EXCEPT ![i].expired = TRUE]
      PROVE  PairedIn(stack') /\ \A T : SameWaits(stack, stack', T)
  <2>1. PICK f : f = [stack[i] EXCEPT !.expired = TRUE]
    OBVIOUS
  <2>2. f \in WaitFrame /\ f.await = stack[i].await /\ f.id = stack[i].id /\ f.op = stack[i].op
    BY <1>2, <2>1 DEF WaitFrame
  <2>3. /\ PairedIn([stack EXCEPT ![i] = f])
        /\ \A T : SameWaits(stack, [stack EXCEPT ![i] = f], T)
    BY <1>0, <1>2, <2>2, ReplaceWaits
  <2> QED
    BY <1>2, <2>1, <2>3
<1>3. ASSUME NEW outcome, CycleIdle(outcome) PROVE AckInv' /\ PairedIn(stack')
  <2>1. /\ keepalive(ping_outstanding, outcome) /\ down' = down /\ orphaned' = orphaned
        /\ stack # <<>> /\ Top \in WaitFrame
        /\ stack' = [stack EXCEPT ![Len(stack)].expired = TRUE]
    BY <1>3 DEF CycleIdle, Waiting, historyVars
  <2>2. Len(stack) \in DOMAIN stack /\ Top = stack[Len(stack)]
    BY <2>1, TopIndex
  <2>3. PairedIn(stack') /\ \A T : SameWaits(stack, stack', T)
    BY <1>2, <2>1, <2>2
  <2>4. \A T : Thins(up, up', UpFor(T))
    BY <2>1, KeepaliveAdds
  <2>5. AckInv'
    BY <2>1, <2>3, <2>4, SameThins, QuietKeepsAck
  <2> QED
    BY <2>3, <2>5
<1>4. ASSUME NEW i \in DOMAIN stack, TimerExpires(i) PROVE AckInv' /\ PairedIn(stack')
  <2>1. /\ up' = up /\ down' = down /\ orphaned' = orphaned /\ stack[i] \in WaitFrame
        /\ stack' = [stack EXCEPT ![i].expired = TRUE]
    BY <1>4 DEF TimerExpires, linkVars, historyVars
  <2>2. PairedIn(stack') /\ \A T : SameWaits(stack, stack', T)
    BY <1>2, <2>1
  <2>3. AckInv'
    BY <2>1, <2>2, SameThins, QuietKeepsAck
  <2> QED
    BY <2>2, <2>3
<1>5. CASE WaitEnds
  <2>1. /\ up' = up /\ down' = down
        /\ orphaned' = orphaned \cup ({Top.await} \ {"none"})
        /\ stack' = SubSeq(stack, 1, Len(stack) - 1)
    BY <1>5 DEF WaitEnds, linkVars, Below
  <2>2. PairedIn(stack')
    <3>1. PICK t : t = SubSeq(stack, 1, Len(stack) - 1)
      OBVIOUS
    <3>2. PairedIn(t)
      BY ONLY PopWaits, <1>0, <3>1, PairedIn(stack)
    <3> QED
      BY <2>1, <3>1, <3>2
  <2>3. ASSUME NEW T \in AckTypes \ orphaned' PROVE SameWaits(stack, stack', T)
    <3>1. T # Top.await
      BY <2>1, <2>3 DEF AckTypes
    <3>2. ~(stack[Len(stack)] \in WaitFrame /\ stack[Len(stack)].await = T)
      BY <3>1 DEF Top
    <3>3. PICK t : t = SubSeq(stack, 1, Len(stack) - 1)
      OBVIOUS
    <3>4. SameWaits(stack, t, T)
      BY <1>0, <3>2, <3>3, PopSame
    <3> QED
      BY <2>1, <3>3, <3>4
  <2>4. AckInv'
    BY <2>1, <2>3, SameThins, QuietKeepsAck
  <2> QED
    BY <2>2, <2>4
<1> QED
  BY <1>1, <1>3, <1>4, <1>5 DEF TimePasses

-----------------------------------------------------------------------------
(* The broker's steps, and the theorem *)

\* The broker answers under the id it was asked with.
LEMMA BrokerKeepsAck ==
    ASSUME TypeOK, Assumptions, AckInv, BrokerNext, UNCHANGED <<stack, orphaned>>
    PROVE  AckInv'
<1>. USE DEF TypeOK
<1>0. down \in Seq(DownPacket) /\ Len(down) \in Nat
  BY LenProperties DEF LinkTypeOK
<1>1. CASE BrokerTakes
  <2>1. Takes(PacketType \ {"garbage"})
    BY <1>1 DEF BrokerTakes
  <2>2. /\ \A A : Thins(up, up', A)
        /\ \A A : Head(up) \in A /\ Lone(up, A) => Clear(up', A)
        /\ 1 \in DOMAIN up /\ up[1] = Head(up) /\ Head(up) \in UpPacket
    BY <2>1, TakesThins
  <2>3. CASE down' = down
    BY <2>2, <2>3, SameThins, SameSame, QuietKeepsAck
  <2>4. ASSUME NEW q \in DownPacket, down' = Append(down, q), Replies(Head(up), q),
               NEW T \in AckTypes \ orphaned'
        PROVE  AckInvOf(T)'
    <3>1. AckInvOf(T) /\ SameWaits(stack, stack', T)
      BY <2>4, SameSame DEF AckInv
    <3>2. PICK B : B = DownFor(T)
      OBVIOUS
    <3>3. CASE q \notin B
      <4>1. Thins(down, down', B)
        BY <1>0, <2>4, <3>3, AppendThins
      <4> QED
        BY <2>2, <3>1, <3>2, <4>1, AckKeeps
    <3>4. CASE q \in B
      <4>1. Head(up) \in UpFor(T) /\ (T = "CONNACK" \/ Head(up).id = q.id)
        BY <2>2, <2>4, <3>2, <3>4 DEF Replies, DownFor, UpFor, AckTypes
      <4>2. ~Clear(up, UpFor(T))
        BY <2>2, <4>1 DEF Clear
      <4>3. Clear(down, B) /\ Lone(up, UpFor(T)) /\ \A j, k \in WaitsFor(stack, T) : j = k
        BY <3>1, <3>2, <4>2, OneSide
      <4>4. Clear(up', UpFor(T))
        BY <2>2, <4>1, <4>3
      <4>5. Lone(down', B) /\ \A k \in DOMAIN down' : down'[k] \in B => down'[k] = q
        BY <1>0, <2>4, <4>3, AppendLone
      <4>6. Claimed(stack, T, Head(up))
        BY <2>2, <3>1, <4>1 DEF AckInvOf
      <4>7. Claimed(stack', T, q)
        BY <3>1, <4>1, <4>6, ClaimedSame
      <4>8. \A j, k \in WaitsFor(stack', T) : j = k
        BY <3>1, <4>3 DEF SameWaits
      <4> QED
        BY <3>2, <4>4, <4>5, <4>7, <4>8, AckDown
    <3> QED
      BY <3>3, <3>4
  <2> QED
    BY <1>1, <2>3, <2>4 DEF BrokerTakes, AckInv
<1>2. CASE BrokerSends
  <2>1. PICK q \in DownPacket : down' = Append(down, q) /\ q.type \in {"PUBLISH", "PUBREL"}
    BY <1>2 DEF BrokerSends
  <2>2. up' = up
    BY <1>2 DEF BrokerSends
  <2>3. ASSUME NEW T \in AckTypes \ orphaned' PROVE Thins(down, down', DownFor(T))
    <3>1. PICK B : B = DownFor(T)
      OBVIOUS
    <3>2. q \notin B
      BY <2>1, <2>3, <3>1 DEF DownFor, AckTypes
    <3> QED
      BY <1>0, <2>1, <3>1, <3>2, AppendThins
  <2> QED
    BY <2>2, <2>3, SameThins, SameSame, QuietKeepsAck
<1>3. CASE Close
  <2>1. PICK n \in 0..Len(down) : down' = SubSeq(down, 1, n)
    BY <1>3 DEF Close
  <2>2. n \in Int /\ n <= Len(down)
    BY <1>0, <2>1
  <2>3. \A B : Thins(down, down', B)
    BY <1>0, <2>1, <2>2, PrefixThins
  <2>4. \A A : Thins(up, up', A)
    BY <1>3 DEF Close, Thins, Lone
  <2> QED
    BY <2>3, <2>4, SameSame, QuietKeepsAck
<1>4. CASE UNCHANGED linkVars
  BY <1>4, SameThins, SameSame, QuietKeepsAck DEF linkVars
<1> QED
  BY <1>1, <1>2, <1>3, <1>4, BrokerSteps

\* AckInv is inductive, with the pairing of calls and acknowledgements.
LEMMA NextKeepsAck ==
    ASSUME TypeOK, Assumptions, AckInv, PairedIn(stack), [Next]_vars
    PROVE  AckInv' /\ PairedIn(stack)'
<1>1. CASE Reconnect
  <2>1. up' = <<>> /\ down' = <<>> /\ stack' = <<>>
    BY <1>1 DEF Reconnect, NewConnection
  <2>2. \A A : Clear(up', A) /\ Clear(down', A) /\ Lone(up', A) /\ Lone(down', A)
    BY <2>1 DEF Clear, Lone
  <2>3. \A T : WaitsFor(stack', T) = {}
    BY <2>1 DEF WaitsFor
  <2>4. AckInv'
    BY <2>2, <2>3 DEF AckInv, AckInvOf, OneInFlight, Clear, UpFor, DownFor, WaitsFor
  <2> QED
    BY <2>1, <2>4 DEF PairedIn
<1>2. CASE Client
  BY <1>2, AppKeepsAck, CycleKeepsAck, DeliversKeepsAck, TimeKeepsAck
     DEF Client, ClientNext, PairedIn
<1>3. CASE Broker
  <2>1. UNCHANGED <<stack, orphaned>>
    BY <1>3 DEF Broker, clientVars, historyVars
  <2> QED
    BY <1>3, <2>1, BrokerKeepsAck DEF Broker, PairedIn
<1>4. CASE UNCHANGED vars
  <2>1. UNCHANGED <<up, down, stack, orphaned>>
    BY <1>4 DEF vars, linkVars, clientVars, historyVars
  <2> QED
    BY <2>1, SameThins, SameSame, QuietKeepsAck DEF PairedIn
<1> QED
  BY <1>1, <1>2, <1>3, <1>4 DEF Next

\* A step that reads a packet and ends the wait for an acknowledgement is one
\* that took it.
LEMMA CompletingSteps ==
    ASSUME TypeOK, Assumptions, PairedIn(stack), [Next]_vars, CompletesCommand
    PROVE  /\ UNCHANGED orphaned
           /\ \E outcome : \/ CompleteConnect(outcome) \/ CompleteSubscribe(outcome)
                           \/ CompleteOther(outcome)
<1>. USE DEF TypeOK
<1>1. /\ stack # <<>> /\ Top \in WaitFrame /\ Top.await \in AckTypes
      /\ stack' = Below /\ down' # down
  BY DEF CompletesCommand, Waiting
<1>2. stack \in Seq(Frame) /\ Below = SubSeq(stack, 1, Len(stack) - 1) /\ Len(stack) \in Nat
  BY LenProperties DEF ClientTypeOK, Below
<1>3. Below # stack
  <2>1. PICK t : t = Below
    OBVIOUS
  <2>2. t # stack
    BY ONLY PopWaits, <1>1, <1>2, <2>1
  <2> QED
    BY <2>1, <2>2
<1>4. Top.op # "yield"
  <2>1. Len(stack) \in DOMAIN stack /\ Top = stack[Len(stack)]
    BY <1>1, TopIndex
  <2>2. Paired(Top)
    BY <2>1 DEF PairedIn
  <2> QED
    BY <1>1, <2>2 DEF Paired, AckTypes
<1>5. stack' # stack
  BY <1>1, <1>3
<1>6. ~Reconnect
  BY <1>1 DEF Reconnect, NewConnection
<1>7. ~Broker
  BY <1>5 DEF Broker, clientVars
<1>8. ~UNCHANGED vars
  BY <1>5 DEF vars, clientVars
<1>9. ~AppCalls
  <2>1. ~MQTTYield
    BY <1>1 DEF MQTTYield, linkVars
  <2>2. \A p, op, await, outcome : ~Request(p, op, await, outcome)
    BY <1>1 DEF Request
  <2> QED
    BY <2>1, <2>2, AppRequests
<1>10. ~Delivers /\ ~HandlerReturns /\ ~TimePasses /\ ~WaitEnds
  BY <1>1 DEF Delivers, CallHandler, AcknowledgePublish, HandlerReturns, TimePasses,
       PingTimerExpires, CycleIdle, TimerExpires, WaitEnds, linkVars
<1>11. CycleReads
  BY <1>6, <1>7, <1>8, <1>9, <1>10 DEF Next, Client, ClientNext
<1>12. ~ReadPublish
  <2>. SUFFICES ASSUME ReadPublish PROVE FALSE
    OBVIOUS
  <2>1. PICK f : stack' = Append(stack, f)
    BY DEF ReadPublish, Accept, Ignore
  <2>2. f \in Frame
    <3>1. Len(stack') = Len(stack) + 1 /\ stack'[Len(stack) + 1] = f
      BY <1>2, <2>1
    <3>2. Len(Below) <= Len(stack) /\ Below \in Seq(Frame)
      BY <1>1, <1>2, StackTypes, SubSeqProperties, LenProperties
    <3> QED
      BY <1>1, <1>2, <3>1, <3>2
  <2>3. Len(Append(stack, f)) = Len(stack) + 1
    BY <1>2, <2>2, AppendProperties
  <2> QED
    BY <1>1, <1>2, <2>1, <2>3
<1>13. \A outcome : ~DropAck(outcome) /\ ~ReadPingresp(outcome)
  BY <1>5 DEF DropAck, ReadPingresp
<1>14. \A outcome : ~ReadPubrec(outcome) /\ ~ReadPubrel(outcome)
  <2>1. \A ok : AfterCycle(stack, ok) = stack
    BY <1>4 DEF AfterCycle, Top
  <2> QED
    BY <1>5, <2>1 DEF ReadPubrec, ReadPubrel
<1>15. PICK outcome : \/ CompleteConnect(outcome) \/ CompleteSubscribe(outcome)
                      \/ CompleteOther(outcome)
  BY <1>11, <1>12, <1>13, <1>14 DEF CycleReads
<1> QED
  BY <1>15 DEF CompleteConnect, CompleteSubscribe, CompleteOther, historyVars

\* The step of AckIsOurs.
LEMMA CompletesOwn ==
    ASSUME TypeOK, Assumptions, AckInv, PairedIn(stack), [Next]_vars, CompletesCommand
    PROVE  /\ Head(down).type = Top.await
           /\ \/ Top.op = "connect"
              \/ Head(down).id = Top.id
              \/ Top.await \in orphaned
<1>1. PICK outcome : \/ CompleteConnect(outcome) \/ CompleteSubscribe(outcome)
                     \/ CompleteOther(outcome)
  BY CompletingSteps
<1>2. Head(down).type = Top.await
  BY <1>1, CompleteKeepsAck
<1>3. Reads(AckTypes)
  BY <1>1 DEF CompleteConnect, CompleteSubscribe, CompleteOther
<1>4. /\ 1 \in DOMAIN down /\ down[1] = Head(down) /\ Head(down) \in DownPacket
      /\ Head(down).type \in AckTypes /\ stack # <<>> /\ Top \in WaitFrame
  BY <1>3, ReadsThins DEF TypeOK
<1>5. Len(stack) \in DOMAIN stack /\ Top = stack[Len(stack)]
  BY <1>4, TopIndex DEF TypeOK
<1>6. ASSUME Top.await \notin orphaned PROVE Top.op = "connect" \/ Head(down).id = Top.id
  <2>1. PICK T \in AckTypes \ orphaned : T = Top.await
    BY <1>2, <1>4, <1>6
  <2>2. AckInvOf(T)
    BY <2>1 DEF AckInv
  <2>3. Head(down) \in DownFor(T)
    BY <1>2, <1>4, <2>1 DEF DownFor
  <2>4. Claimed(stack, T, Head(down))
    BY <1>4, <2>2, <2>3 DEF AckInvOf
  <2>5. PICK k \in WaitsFor(stack, T) : T = "CONNACK" \/ stack[k].id = Head(down).id
    BY <2>4 DEF Claimed
  <2>6. Len(stack) \in WaitsFor(stack, T)
    BY <1>4, <1>5, <2>1 DEF WaitsFor
  <2>7. k = Len(stack)
    BY <2>2, <2>5, <2>6 DEF AckInvOf
  <2>8. Paired(Top)
    BY <1>5 DEF PairedIn
  <2> QED
    BY <1>4, <1>5, <2>1, <2>5, <2>7, <2>8 DEF Paired
<1> QED
  BY <1>2, <1>6

\* So what is said of acknowledgements is an invariant of the system.
LEMMA AckInvariance == Spec => [](TypeOK /\ AckInv /\ PairedIn(stack))
<1>. USE LinkAssumption, ClientAssumption, BrokerAssumption DEF Assumptions
<1>. DEFINE Inv == TypeOK /\ AckInv /\ PairedIn(stack)
<1>1. Init => Inv
  <2>. SUFFICES ASSUME Init PROVE Inv
    OBVIOUS
  <2>1. up = <<>> /\ down = <<>> /\ stack = <<>>
    BY DEF Init, LinkInit, ClientInit
  <2>2. \A A : Clear(up, A) /\ Clear(down, A) /\ Lone(up, A) /\ Lone(down, A)
    BY <2>1 DEF Clear, Lone
  <2>3. \A T : WaitsFor(stack, T) = {}
    BY <2>1 DEF WaitsFor
  <2>4. AckInv
    BY <2>2, <2>3 DEF AckInv, AckInvOf, OneInFlight, Clear
  <2> QED
    BY <2>1, <2>4, InitTypes DEF PairedIn
<1>2. Inv /\ [Next]_vars => Inv'
  BY NextTypes, NextKeepsAck
<1> QED
  BY <1>1, <1>2, PTL DEF Spec

\* waitfor() compares packet types only.  Even so MQTTSubscribe,
\* MQTTUnsubscribe and MQTTPublish succeed on the acknowledgement of their own
\* request, whatever is lost, cut short or timed out, unless a request of the
\* same kind was given up on this connection or waits further out.
THEOREM AckIsOursHolds == Spec => AckIsOurs
<1>. USE LinkAssumption, ClientAssumption, BrokerAssumption DEF Assumptions
<1>1. TypeOK /\ AckInv /\ PairedIn(stack) /\ [Next]_vars =>
        [CompletesCommand => /\ Head(down).type = Top.await
                             /\ \/ Top.op = "connect"
                                \/ Head(down).id = Top.id
                                \/ Top.await \in orphaned]_vars
  BY CompletesOwn
<1> QED
  BY <1>1, AckInvariance, PTL DEF Spec, AckIsOurs
=============================================================================
