---------------------------- MODULE LinkitProofs ----------------------------
(***************************************************************************)
(* The Linkit gateway and its connection table: types; what the two        *)
(* variables that stand for a connection, cli_fd and ReadyFlag, say of it; *)
(* and what the platform receives.                                         *)
(***************************************************************************)
EXTENDS Linkit, FiniteSetTheorems, SequenceTheorems, TLAPS

\* The least of a set of slots.  It is that of the smallest interval from 0 to
\* one of them: finite sets are well-founded.
LEMMA MinIsLeast ==
    ASSUME NEW S \in SUBSET Nat, S # {}
    PROVE  Min(S) \in S /\ \A x \in S : Min(S) <= x
<1>. DEFINE T == {0..n : n \in S}
<1>1. T \subseteq FiniteSubsetsOf(Nat) /\ T # {}
  <2>1. ASSUME NEW n \in S PROVE 0..n \in SUBSET Nat /\ IsFiniteSet(0..n)
    BY FS_Interval
  <2> QED
    BY <2>1 DEF FiniteSubsetsOf
<1>2. PICK I \in T : \A J \in T : <<J, I>> \notin StrictSubsetOrdering(Nat)
  <2>. HIDE DEF T
  <2> QED
    BY <1>1, FS_StrictSubsetOrderingWellFounded, WFMin
<1>3. PICK m \in S : I = 0..m
  OBVIOUS
<1>4. ASSUME NEW n \in S PROVE m <= n
  <2>1. 0..n \in T /\ I \in SUBSET Nat /\ 0..n \in SUBSET Nat
    BY <1>1 DEF FiniteSubsetsOf
  <2>2. ~(0..n \subseteq 0..m /\ 0..n # 0..m)
    BY <1>2, <1>3, <2>1 DEF StrictSubsetOrdering
  <2>3. n < m => 0..n \subseteq 0..m /\ m \notin 0..n /\ m \in 0..m
    OBVIOUS
  <2> QED
    BY <2>2, <2>3
<1> QED
  BY <1>4 DEF Min

\* The slot uip_connect takes is one that was not in use.
LEMMA TakesUnused ==
    ASSUME UipAssumption, NEW conns, Unused(conns) # {}
    PROVE  /\ Min(Unused(conns)) \in Slots
           /\ conns[Min(Unused(conns))].tcpstateflags = "CLOSED"
<1>1. Unused(conns) \in SUBSET Nat
  BY DEF Unused, Slots, UipAssumption
<1>2. Min(Unused(conns)) \in Unused(conns)
  BY <1>1, MinIsLeast
<1> QED
  BY <1>2 DEF Unused

\* The ports of the gateway's connections are none of the other two.
LEMMA PortsApart ==
    ASSUME LinkitAssumption
    PROVE  /\ HttpPorts \subseteq Nat \ {0, CliPort, SrvPort}
           /\ \A p \in HttpPorts : \A q \in Nat \ {0} : q <= p => q \in HttpPorts
  BY DEF LinkitAssumption, CliPort, SrvPort

-----------------------------------------------------------------------------
(* Connections and segments *)

Data == Requests \cup {NoData, 1}
Ports == HttpPorts \cup {0, CliPort, SrvPort}
AnySegment ==
    [port : Ports, flags : SUBSET {"SYN", "ACK", "FIN", "RST"},
     seq : Nat, ack : Nat, data : Data]

\* A connection is a record of these fields.
LEMMA ConnFields ==
    ASSUME NEW c
    PROVE  c \in Conn <=>
             /\ c = [tcpstateflags |-> c.tcpstateflags, lport |-> c.lport,
                     peer |-> c.peer, snd_nxt |-> c.snd_nxt, len |-> c.len,
                     rcv_nxt |-> c.rcv_nxt, nrtx |-> c.nrtx,
                     rexmit_buf |-> c.rexmit_buf]
             /\ c.tcpstateflags \in States /\ c.lport \in Ports /\ c.peer \in Peers
             /\ c.snd_nxt \in Nat /\ c.len \in {0, 1} /\ c.rcv_nxt \in Nat
             /\ c.nrtx \in Nat /\ c.rexmit_buf \in Data
  BY DEF Conn, Ports, Data

\* A connection that is not in use, and one that is opened in its slot.
LEMMA OpenTypes ==
    ASSUME NEW c \in Conn, NEW port \in Ports, NEW peer \in Peers
    PROVE  /\ Unopened \in Conn
           /\ [c EXCEPT !.tcpstateflags = "SYN_SENT", !.lport = port, !.peer = peer,
                        !.snd_nxt = 0, !.len = 1, !.nrtx = 0] \in Conn
<1>1. Unopened \in Conn
  BY DEF Unopened, Conn, States, Peers, NoData
<1>2. [c EXCEPT !.tcpstateflags = "SYN_SENT", !.lport = port, !.peer = peer,
                !.snd_nxt = 0, !.len = 1, !.nrtx = 0] \in Conn
  BY DEF Conn, States, Ports
<1> QED
  BY <1>1, <1>2

\* An acknowledgement leaves everything but the numbers of what is outstanding.
LEMMA AckedTypes ==
    ASSUME NEW c \in Conn, NEW seg
    PROVE  /\ Acked(c, seg) \in Conn
           /\ Acked(c, seg).tcpstateflags = c.tcpstateflags
           /\ Acked(c, seg).lport = c.lport
           /\ Acked(c, seg).peer = c.peer
           /\ Acked(c, seg).rcv_nxt = c.rcv_nxt
           /\ Acked(c, seg).rexmit_buf = c.rexmit_buf
           /\ AckData(c, seg) => /\ Acked(c, seg).len = 0
                                 /\ Acked(c, seg).snd_nxt = Plus(c, c.snd_nxt, c.len)
           /\ ~AckData(c, seg) => Acked(c, seg) = c
<1>1. Plus(c, c.snd_nxt, c.len) \in Nat
  BY DEF Plus, Conn
<1>2. CASE AckData(c, seg)
  <2>1. Acked(c, seg) = [c EXCEPT !.snd_nxt = Plus(c, c.snd_nxt, c.len), !.len = 0]
    BY <1>2 DEF Acked
  <2> QED
    BY <1>1, <1>2, <2>1 DEF Conn
<1>3. CASE ~AckData(c, seg)
  BY <1>3 DEF Acked
<1> QED
  BY <1>2, <1>3

\* What a segment makes of a connection keeps its ports and its peer.
LEMMA ReceivedTypes ==
    ASSUME NEW c \in Conn, NEW seg, seg.seq \in Nat
    PROVE  \A d \in {Accepted(c, seg), Connected(c, seg), PeerClosed(c, seg),
                     Received(c, seg)} :
             d \in Conn /\ d.lport = c.lport /\ d.peer = c.peer
<1>. DEFINE a == Acked(c, seg)
<1>1. a \in Conn /\ a.lport = c.lport /\ a.peer = c.peer /\ DataLen(seg) \in {0, 1}
  BY AckedTypes DEF DataLen
<1>2. /\ Plus(c, seg.seq, 1) \in Nat
      /\ Plus(c, a.rcv_nxt, DataLen(seg)) \in Nat
      /\ Plus(c, a.rcv_nxt, 1 + DataLen(seg)) \in Nat
  <2>1. a.rcv_nxt \in Nat
    BY <1>1 DEF Conn
  <2> QED
    BY <1>1, <2>1 DEF Plus
<1>. HIDE DEF a
<1>3. /\ Accepted(c, seg) \in Conn
      /\ Accepted(c, seg).lport = c.lport /\ Accepted(c, seg).peer = c.peer
  <2>1. PICK n \in Nat : n = Plus(c, a.rcv_nxt, DataLen(seg))
    BY <1>1, <1>2
  <2>2. PICK d : d = Accepted(c, seg)
    OBVIOUS
  <2>3. d = [a EXCEPT !.tcpstateflags = "ESTABLISHED", !.rcv_nxt = n, !.nrtx = 0]
    BY <2>1, <2>2 DEF Accepted, a
  <2>4. d \in Conn
    BY <1>1, <2>3 DEF Conn, States
  <2>5. d.lport = a.lport /\ d.peer = a.peer
    BY <1>1, <2>3 DEF Conn
  <2> QED
    BY <1>1, <2>2, <2>4, <2>5
<1>4. /\ Connected(c, seg) \in Conn
      /\ Connected(c, seg).lport = c.lport /\ Connected(c, seg).peer = c.peer
  <2>1. PICK n \in Nat : n = Plus(c, seg.seq, 1)
    BY <1>1, <1>2
  <2>2. PICK d : d = Connected(c, seg)
    OBVIOUS
  <2>3. d = [a EXCEPT !.tcpstateflags = "ESTABLISHED", !.rcv_nxt = n, !.nrtx = 0]
    BY <2>1, <2>2 DEF Connected, a
  <2>4. d \in Conn
    BY <1>1, <2>3 DEF Conn, States
  <2>5. d.lport = a.lport /\ d.peer = a.peer
    BY <1>1, <2>3 DEF Conn
  <2> QED
    BY <1>1, <2>2, <2>4, <2>5
<1>5. /\ PeerClosed(c, seg) \in Conn
      /\ PeerClosed(c, seg).lport = c.lport /\ PeerClosed(c, seg).peer = c.peer
  <2>1. PICK n \in Nat : n = Plus(c, a.rcv_nxt, 1 + DataLen(seg))
    BY <1>1, <1>2
  <2>2. PICK d : d = PeerClosed(c, seg)
    OBVIOUS
  <2>3. d = [a EXCEPT !.tcpstateflags = "LAST_ACK", !.len = 1, !.nrtx = 0,
                          !.rcv_nxt = n]
    BY <2>1, <2>2 DEF PeerClosed, a
  <2>4. d \in Conn
    BY <1>1, <2>3 DEF Conn, States
  <2>5. d.lport = a.lport /\ d.peer = a.peer
    BY <1>1, <2>3 DEF Conn
  <2> QED
    BY <1>1, <2>2, <2>4, <2>5
<1>6. /\ Received(c, seg) \in Conn
      /\ Received(c, seg).lport = c.lport /\ Received(c, seg).peer = c.peer
  <2>1. PICK n \in Nat : n = Plus(c, a.rcv_nxt, DataLen(seg))
    BY <1>1, <1>2
  <2>2. PICK d : d = Received(c, seg)
    OBVIOUS
  <2>3. d = [a EXCEPT !.rcv_nxt = n, !.nrtx = 0]
    BY <2>1, <2>2 DEF Received, a
  <2>4. d \in Conn
    BY <1>1, <2>3 DEF Conn
  <2>5. d.lport = a.lport /\ d.peer = a.peer
    BY <1>1, <2>3 DEF Conn
  <2> QED
    BY <1>1, <2>2, <2>4, <2>5
<1> QED
  BY <1>3, <1>4, <1>5, <1>6

\* What goes on the wire.
LEMMA OutgoingTypes ==
    ASSUME NEW c \in Conn
    PROVE  /\ \A flags \in SUBSET {"SYN", "ACK", "FIN", "RST"}, data \in Data :
                /\ Outgoing(c, flags, data) \in AnySegment
                /\ Outgoing(c, flags, data).port = c.lport
           /\ \A port \in Ports : Reset(port) \in AnySegment /\ Reset(port).port = port
           /\ c.tcpstateflags # "CLOSED" =>
                Rexmit(c) \in AnySegment /\ Rexmit(c).port = c.lport
<1>1. \A flags \in SUBSET {"SYN", "ACK", "FIN", "RST"}, data \in Data :
        /\ Outgoing(c, flags, data) \in AnySegment
        /\ Outgoing(c, flags, data).port = c.lport
  BY DEF Outgoing, AnySegment, Conn, Ports
<1>2. \A port \in Ports : Reset(port) \in AnySegment /\ Reset(port).port = port
  BY DEF Reset, AnySegment, Data
<1>3. ASSUME c.tcpstateflags # "CLOSED"
      PROVE  Rexmit(c) \in AnySegment /\ Rexmit(c).port = c.lport
  <2>1. /\ c.tcpstateflags \in {"SYN_RCVD", "SYN_SENT", "ESTABLISHED", "LAST_ACK"}
        /\ c.rexmit_buf \in Data /\ NoData \in Data
    BY <1>3 DEF Conn, States, Data
  <2>2. \E flags \in SUBSET {"SYN", "ACK", "FIN", "RST"}, data \in Data :
          Rexmit(c) = Outgoing(c, flags, data)
    <3>1. CASE c.tcpstateflags = "SYN_RCVD"
      BY <2>1, <3>1 DEF Rexmit
    <3>2. CASE c.tcpstateflags = "SYN_SENT"
      BY <2>1, <3>2 DEF Rexmit
    <3>3. CASE c.tcpstateflags = "ESTABLISHED"
      BY <2>1, <3>3 DEF Rexmit
    <3>4. CASE c.tcpstateflags = "LAST_ACK"
      BY <2>1, <3>4 DEF Rexmit
    <3> QED
      BY <2>1, <3>1, <3>2, <3>3, <3>4
  <2> QED
    BY <1>1, <2>2
<1> QED
  BY <1>1, <1>2, <1>3

-----------------------------------------------------------------------------
(* Types *)

\* In the environment of the platform every connection in use is one of the
\* gateway's, and in the other none is with the modelled platform.
ConnFits(c) ==
    /\ platform /\ c.tcpstateflags # "CLOSED" =>
         c.lport \in HttpPorts /\ c.peer = "platform" /\ c.tcpstateflags # "SYN_RCVD"
    /\ ~platform => c.peer = "anyone"

TypeInv == TypeOK /\ \A s \in Slots : ConnFits(uip_conns[s])

AppTypes ==
    /\ ReadyFlag \in BOOLEAN
    /\ MyHttpPort \in HttpPorts \cup {0}
    /\ local_my_web_data \in Requests \cup {NoData}
    /\ posted \in 0 .. MaxRequests
    /\ sent \in [HttpPorts -> Seq(Requests)]
    /\ lost \in {"no", "full", "timedout"}

ConnsTyped ==
    /\ uip_conns \in [Slots -> Conn]
    /\ \A s \in Slots : ConnFits(uip_conns[s])

NetTypes ==
    /\ toDev \subseteq Segment
    /\ srv \in [HttpPorts -> [state : {"listen", "open", "closing", "gone"},
                              rcv : Nat, nxt : Nat, log : Seq(Requests)]]

\* TypeInv in parts.
LEMMA TypeParts ==
    TypeInv <=> /\ environment \in Peers
                /\ TcpInit \in BOOLEAN
                /\ cli_fd \in Slots \cup {NoFd}
                /\ toSrv \subseteq Segment
                /\ AppTypes /\ ConnsTyped /\ NetTypes
  BY DEF TypeInv, TypeOK, AppTypes, ConnsTyped, NetTypes

\* TypeInv in the next state, variable by variable.
LEMMA TypePartsNext ==
    TypeInv' <=> /\ environment' \in Peers
                 /\ TcpInit' \in BOOLEAN
                 /\ cli_fd' \in Slots \cup {NoFd}
                 /\ toSrv' \subseteq Segment
                 /\ AppTypes' /\ ConnsTyped' /\ NetTypes'
  BY DEF TypeInv, TypeOK, AppTypes, ConnsTyped, NetTypes

\* A slot gets another record.
LEMMA BecomesTypes ==
    ASSUME ConnsTyped, UNCHANGED environment, NEW s \in Slots, NEW c \in Conn,
           ConnFits(c), Becomes(s, c)
    PROVE  ConnsTyped'
<1>1. \A t \in Slots : uip_conns'[t] = IF t = s THEN c ELSE uip_conns[t]
  BY DEF Becomes, ConnsTyped
<1>2. uip_conns' \in [Slots -> Conn]
  BY DEF Becomes, ConnsTyped
<1> QED
  BY <1>1, <1>2 DEF ConnsTyped, ConnFits, platform

\* A slot is closed.
LEMMA ClosedTypes ==
    ASSUME ConnsTyped, UNCHANGED environment, NEW s \in Slots, Closed(s)
    PROVE  ConnsTyped'
<1>1. PICK c \in Conn : c = Unopened
  BY DEF Unopened, Conn, States, Peers, NoData
<1>2. ConnFits(c) /\ Becomes(s, c)
  BY <1>1 DEF ConnFits, Unopened, Closed
<1> QED
  BY <1>2, BecomesTypes

\* The callback.
LEMMA CallbackTypes ==
    ASSUME AppTypes, cli_fd \in Slots \cup {NoFd}, NEW s, NEW flags,
           iot_tcp_appcall(s, flags)
    PROVE  AppTypes' /\ cli_fd' \in Slots \cup {NoFd}
  BY DEF AppTypes, iot_tcp_appcall, app_handle_connection, handle_tcp_app

\* Only segments of the gateway's connections are sent to the platform.
LEMMA EmitTypes ==
    ASSUME toSrv \subseteq Segment, LinkitAssumption,
           NEW segs \in SUBSET AnySegment, Emit(segs),
           platform => \A g \in segs : g.port \in HttpPorts
    PROVE  toSrv' \subseteq Segment
<1>1. ASSUME NEW h \in segs, platform PROVE [h EXCEPT !.ack = 0] \in Segment
  <2>1. h \in AnySegment /\ h.port \in HttpPorts
    BY <1>1
  <2> QED
    BY <2>1 DEF AnySegment, Segment, Data
<1> QED
  BY <1>1 DEF Emit

\* The gateway opens a connection.
LEMMA InitConnectionTypes ==
    ASSUME UipAssumption, LinkitAssumption, AppTypes, environment \in Peers,
           NEW conns \in [Slots -> Conn], \A s \in Slots : ConnFits(conns[s]),
           app_init_connection(conns), UNCHANGED environment
    PROVE  /\ ConnsTyped'
           /\ MyHttpPort' \in HttpPorts \cup {0}
           /\ lost' \in {"no", "full", "timedout"}
<1>1. PICK n \in Slots : n = Min(Unused(conns)) /\ Unused(conns) # {}
  BY TakesUnused DEF app_init_connection
<1>2. PICK c \in Conn : c = [conns[n] EXCEPT !.tcpstateflags = "SYN_SENT",
                                !.lport = MyHttpPort + 1, !.peer = environment,
                                !.snd_nxt = 0, !.len = 1, !.nrtx = 0]
  <2>1. conns[n] \in Conn /\ MyHttpPort + 1 \in Ports
    BY DEF app_init_connection, HasPort, Ports
  <2> QED
    BY <2>1, OpenTypes
<1>3. uip_conns' = [conns EXCEPT ![n] = c]
  BY <1>1, <1>2 DEF app_init_connection, uip_connect
<1>4. ConnFits(c)
  <2>1. c.tcpstateflags = "SYN_SENT" /\ c.lport = MyHttpPort + 1 /\ c.peer = environment
    BY <1>2 DEF Conn
  <2> QED
    BY <2>1 DEF ConnFits, platform, app_init_connection, HasPort, Peers
<1>5. \A t \in Slots : uip_conns'[t] = IF t = n THEN c ELSE conns[t]
  BY <1>3
<1>6. ConnsTyped'
  BY <1>3, <1>4, <1>5 DEF ConnsTyped, ConnFits, platform
<1> QED
  BY <1>6 DEF app_init_connection, HasPort

\* A request is posted.
LEMMA PostTypes ==
    ASSUME UipAssumption, LinkitAssumption, TypeInv, Post, UNCHANGED environment
    PROVE  TypeInv'
<1>. USE TypeParts
<1>1. /\ UNCHANGED <<TcpInit, cli_fd, sent, toSrv>> /\ NetTypes' /\ ReadyFlag' \in BOOLEAN
  BY DEF Post, net, NetTypes
<1>2. posted' \in 0..MaxRequests /\ posted + 1 \in Requests
  BY DEF Post, AppTypes, Requests, LinkitAssumption
<1>3. local_my_web_data' \in Requests \cup {NoData}
  BY <1>2 DEF Post, AppTypes
<1>4. /\ ConnsTyped'
      /\ MyHttpPort' \in HttpPorts \cup {0}
      /\ lost' \in {"no", "full", "timedout"}
  <2>1. CASE app_init_connection(uip_conns)
    <3>1. uip_conns \in [Slots -> Conn] /\ \A s \in Slots : ConnFits(uip_conns[s])
      BY DEF ConnsTyped
    <3> QED
      BY <2>1, <3>1, InitConnectionTypes
  <2>2. CASE UNCHANGED uip_conns /\ UNCHANGED MyHttpPort /\ lost' \in {lost, "full"}
    BY <2>2 DEF ConnsTyped, ConnFits, platform, AppTypes
  <2> QED
    BY <2>1, <2>2 DEF Post
<1>5. AppTypes'
  BY <1>1, <1>2, <1>3, <1>4 DEF AppTypes
<1> QED
  BY <1>1, <1>4, <1>5, TypePartsNext

\* The stack starts, the link goes down, and the timer opens a connection to the
\* IoT server.
LEMMA StackTypes ==
    ASSUME UipAssumption, LinkitAssumption, TypeInv, UNCHANGED environment,
           tcpip_init \/ iot_linkdown \/ CliTimer
    PROVE  TypeInv'
<1>. USE TypeParts
<1>1. CASE tcpip_init
  <2>. DEFINE conns == [s \in Slots |-> Unopened]
  <2>1. conns \in [Slots -> Conn] /\ \A s \in Slots : ConnFits(conns[s])
    BY OpenTypes, PortsApart DEF ConnFits, Unopened, Conn, States, Peers, NoData
  <2>2. app_init_connection(conns)
    BY <1>1 DEF tcpip_init
  <2>. HIDE DEF conns
  <2>3. /\ ConnsTyped'
        /\ MyHttpPort' \in HttpPorts \cup {0}
        /\ lost' \in {"no", "full", "timedout"}
    BY <2>1, <2>2, InitConnectionTypes
  <2>4. AppTypes' /\ NetTypes'
    BY <1>1, <2>3 DEF tcpip_init, AppTypes, net, NetTypes
  <2> QED
    BY <1>1, <2>3, <2>4, TypePartsNext DEF tcpip_init
<1>2. CASE iot_linkdown
  BY <1>2, TypePartsNext DEF iot_linkdown, app, net, AppTypes, NetTypes, ConnsTyped,
       ConnFits, platform
<1>3. CASE CliTimer
  <2>1. PICK n \in Slots : n = Min(Unused(uip_conns))
    BY <1>3, TakesUnused DEF CliTimer
  <2>2. PICK c \in Conn : c = [uip_conns[n] EXCEPT !.tcpstateflags = "SYN_SENT",
                                !.lport = CliPort, !.peer = "anyone",
                                !.snd_nxt = 0, !.len = 1, !.nrtx = 0]
    <3>1. uip_conns[n] \in Conn /\ CliPort \in Ports /\ "anyone" \in Peers
      BY DEF ConnsTyped, Ports, Peers
    <3> QED
      BY <3>1, OpenTypes
  <2>3. Becomes(n, c)
    BY <1>3, <2>1, <2>2 DEF CliTimer, uip_connect, Becomes
  <2>4. ConnFits(c)
    <3>1. c.peer = "anyone"
      BY <2>2 DEF Conn
    <3> QED
      BY <1>3, <3>1 DEF CliTimer, ConnFits
  <2>5. ConnsTyped'
    BY <2>3, <2>4, BecomesTypes
  <2>6. cli_fd' \in Slots
    BY <1>3, <2>1 DEF CliTimer
  <2>7. AppTypes' /\ NetTypes'
    BY <1>3 DEF CliTimer, app, net, AppTypes, NetTypes
  <2> QED
    BY <1>3, <2>5, <2>6, <2>7, TypePartsNext DEF CliTimer
<1> QED
  BY <1>1, <1>2, <1>3

\* A slot that is in use belongs, in the environment of the platform, to one of
\* the gateway's connections.
LEMMA InUse ==
    ASSUME ConnsTyped, NEW s \in Slots, uip_conns[s].tcpstateflags # "CLOSED"
    PROVE  /\ uip_conns[s] \in Conn
           /\ uip_conns[s].lport \in Ports
           /\ platform => uip_conns[s].lport \in HttpPorts
  BY DEF ConnsTyped, ConnFits, Conn, Ports

\* A record that keeps port and peer fits where it was, if it is in a state of
\* the environment.
LEMMA StillFits ==
    ASSUME ConnsTyped, NEW s \in Slots, uip_conns[s].tcpstateflags # "CLOSED",
           NEW d, d.lport = uip_conns[s].lport, d.peer = uip_conns[s].peer,
           platform => d.tcpstateflags # "SYN_RCVD"
    PROVE  ConnFits(d)
  BY DEF ConnsTyped, ConnFits

\* The periodic timer of a connection.
LEMMA PeriodicTypes ==
    ASSUME UipAssumption, LinkitAssumption, TypeInv, UNCHANGED environment,
           NEW s \in Slots, Periodic(s)
    PROVE  TypeInv'
<1>. USE TypeParts
<1>. DEFINE c == uip_conns[s]
<1>0. c.tcpstateflags # "CLOSED"
  BY DEF Periodic, TimedOut, Retransmit, Poll
<1>1. c \in Conn /\ c.lport \in Ports /\ (platform => c.lport \in HttpPorts)
  BY <1>0, InUse
<1>. HIDE DEF c
<1>2. CASE TimedOut(s)
  <2>1. ConnsTyped'
    BY <1>2, ClosedTypes DEF TimedOut
  <2>2. AppTypes' /\ cli_fd' \in Slots \cup {NoFd}
    BY <1>2, CallbackTypes DEF TimedOut
  <2>3. PICK r : r = Reset(c.lport)
    OBVIOUS
  <2>4. r \in AnySegment /\ r.port = c.lport /\ Emit({r})
    BY <1>1, <1>2, <2>3, OutgoingTypes DEF TimedOut, c
  <2>5. toSrv' \subseteq Segment
    BY <1>1, <2>4, EmitTypes
  <2>6. NetTypes'
    BY <1>2 DEF TimedOut, net, NetTypes
  <2> QED
    BY <1>2, <2>1, <2>2, <2>5, <2>6, TypePartsNext DEF TimedOut
<1>3. CASE Retransmit(s)
  <2>0. PICK n \in Nat : n = c.nrtx + 1
    BY <1>1 DEF Conn
  <2>1. PICK d : d = [c EXCEPT !.nrtx = n]
    OBVIOUS
  <2>2. d \in Conn
    BY <1>1, <2>1 DEF Conn
  <2>3. d.lport = c.lport /\ d.peer = c.peer /\ d.tcpstateflags = c.tcpstateflags
    BY <1>1, <2>1 DEF Conn
  <2>4. platform => d.tcpstateflags # "SYN_RCVD"
    BY <1>0, <2>3 DEF c, ConnsTyped, ConnFits
  <2>5. ConnFits(d)
    BY <1>0, <2>3, <2>4, StillFits DEF c
  <2>6. Becomes(s, d)
    BY <1>3, <2>0, <2>1 DEF Retransmit, c
  <2>7. ConnsTyped'
    BY <2>2, <2>5, <2>6, BecomesTypes
  <2>8. PICK r : r = Rexmit(c)
    OBVIOUS
  <2>9. r \in AnySegment /\ r.port = c.lport /\ Emit({r})
    BY <1>0, <1>1, <1>3, <2>8, OutgoingTypes DEF Retransmit, c
  <2>10. toSrv' \subseteq Segment
    BY <1>1, <2>9, EmitTypes
  <2>11. NetTypes' /\ AppTypes'
    BY <1>3 DEF Retransmit, net, NetTypes, app, AppTypes
  <2> QED
    BY <1>3, <2>7, <2>10, <2>11, TypePartsNext DEF Retransmit
<1>4. CASE Poll(s)
  <2>0. local_my_web_data \in Requests /\ local_my_web_data \in Data
    BY <1>4 DEF AppTypes, Poll, HasData, Data
  <2>1. PICK d : d = Sent(c, local_my_web_data)
    OBVIOUS
  <2>2. d = [c EXCEPT !.len = 1, !.nrtx = 0, !.rexmit_buf = local_my_web_data]
    BY <2>1 DEF Sent
  <2>3. d \in Conn
    BY <1>1, <2>0, <2>2 DEF Conn, Data
  <2>4. d.lport = c.lport /\ d.peer = c.peer /\ d.tcpstateflags = c.tcpstateflags
    BY <1>1, <2>2 DEF Conn
  <2>5. ConnFits(d)
    BY <1>0, <1>4, <2>4, StillFits DEF c, Poll
  <2>6. Becomes(s, d)
    BY <1>4, <2>1 DEF Poll, c
  <2>7. ConnsTyped'
    BY <2>3, <2>5, <2>6, BecomesTypes
  <2>8. PICK r : r = Outgoing(c, {"ACK"}, local_my_web_data)
    OBVIOUS
  <2>9. r \in AnySegment /\ r.port = c.lport
    BY <1>1, <2>0, <2>8, OutgoingTypes
  <2>10. Emit({r})
    BY <1>4, <2>8 DEF Poll, c
  <2>11. toSrv' \subseteq Segment
    BY <1>1, <2>9, <2>10, EmitTypes
  <2>12. sent' \in [HttpPorts -> Seq(Requests)]
    <3>1. sent \in [HttpPorts -> Seq(Requests)]
      BY DEF AppTypes
    <3>2. ASSUME NEW p \in HttpPorts PROVE Append(sent[p], local_my_web_data) \in Seq(Requests)
      BY <2>0, <3>1, AppendProperties
    <3>3. sent' = [sent EXCEPT ![MyHttpPort] = Append(sent[MyHttpPort], local_my_web_data)]
      BY <1>4 DEF Poll
    <3> QED
      BY <3>1, <3>2, <3>3
  <2>13. NetTypes'
    BY <1>4 DEF Poll, net, NetTypes
  <2>14. AppTypes'
    BY <1>4, <2>12 DEF Poll, AppTypes
  <2> QED
    BY <1>4, <2>7, <2>11, <2>13, <2>14, TypePartsNext DEF Poll
<1> QED
  BY <1>2, <1>3, <1>4 DEF Periodic

\* A segment for no connection, and a SYN for the listening port.
LEMMA ListenTypes ==
    ASSUME UipAssumption, LinkitAssumption, TypeInv, UNCHANGED environment,
           (\E seg \in toDev : NoConnection(seg)) \/ Accept
    PROVE  TypeInv'
<1>. USE TypeParts
<1>1. CASE \E seg \in toDev : NoConnection(seg)
  <2>1. PICK seg \in toDev : NoConnection(seg)
    BY <1>1
  <2>2. seg.port \in HttpPorts /\ seg.port \in Ports
    BY DEF NetTypes, Segment, Ports
  <2>3. PICK r : r = Reset(seg.port)
    OBVIOUS
  <2>4. r \in AnySegment /\ r.port = seg.port /\ Emit({r})
    BY <2>1, <2>2, <2>3, OpenTypes, OutgoingTypes DEF NoConnection, Reset, AnySegment, Data
  <2>5. toSrv' \subseteq Segment
    BY <2>2, <2>4, EmitTypes
  <2>6. NetTypes' /\ AppTypes' /\ ConnsTyped'
    BY <2>1 DEF NoConnection, net, NetTypes, app, AppTypes, ConnsTyped, ConnFits, platform
  <2> QED
    BY <2>1, <2>5, <2>6, TypePartsNext DEF NoConnection
<1>2. CASE Accept
  <2>1. PICK n \in Slots : n = Min(Unused(uip_conns))
    BY <1>2, TakesUnused DEF Accept
  <2>2. PICK c : c = [uip_conns[n] EXCEPT !.tcpstateflags = "SYN_RCVD",
                        !.lport = SrvPort, !.peer = "anyone", !.snd_nxt = 0,
                        !.len = 1, !.nrtx = 0, !.rcv_nxt = 0]
    OBVIOUS
  <2>3. Becomes(n, c)
    BY <1>2, <2>1, <2>2 DEF Accept, FoundListen
  <2>4. uip_conns[n] \in Conn
    BY DEF ConnsTyped
  <2>5. c \in Conn
    BY <2>2, <2>4 DEF Conn, States, Peers
  <2>6. c.peer = "anyone"
    BY <2>2, <2>4 DEF Conn
  <2>7. ConnFits(c)
    BY <1>2, <2>6 DEF Accept, ConnFits
  <2>8. ConnsTyped'
    BY <2>3, <2>5, <2>7, BecomesTypes
  <2>9. NetTypes' /\ AppTypes'
    BY <1>2 DEF Accept, net, NetTypes, app, AppTypes
  <2> QED
    BY <1>2, <2>8, <2>9, TypePartsNext DEF Accept
<1> QED
  BY <1>1, <1>2

\* A segment the device receives on a connection that is in use.
LEMMA IncomingTypes ==
    ASSUME UipAssumption, TypeInv, NEW s \in Slots, NEW seg \in Incoming(s)
    PROVE  /\ uip_conns[s].tcpstateflags # "CLOSED"
           /\ uip_conns[s].lport = seg.port
           /\ seg.seq \in Nat
<1>. USE TypeParts
<1>1. Found(s, seg.port)
  BY DEF Incoming
<1>2. uip_conns[s].tcpstateflags # "CLOSED" /\ uip_conns[s].lport = seg.port
  BY <1>1 DEF Found, Matches
<1>3. uip_conns[s].rcv_nxt \in Nat
  BY DEF ConnsTyped, Conn
<1>4. seg.seq \in Nat
  BY <1>3 DEF Incoming, Anything, NetTypes, Segment
<1> QED
  BY <1>2, <1>4

\* The states a connection in use has after a segment.
LEMMA ReceivedStates ==
    ASSUME NEW c \in Conn, NEW seg, seg.seq \in Nat
    PROVE  /\ Accepted(c, seg).tcpstateflags = "ESTABLISHED"
           /\ Connected(c, seg).tcpstateflags = "ESTABLISHED"
           /\ PeerClosed(c, seg).tcpstateflags = "LAST_ACK"
           /\ Received(c, seg).tcpstateflags = c.tcpstateflags
<1>. DEFINE a == Acked(c, seg)
<1>1. a \in Conn /\ a.tcpstateflags = c.tcpstateflags
  BY AckedTypes
<1>. HIDE DEF a
<1>2. \A n : [a EXCEPT !.tcpstateflags = "ESTABLISHED", !.rcv_nxt = n, !.nrtx = 0]
               .tcpstateflags = "ESTABLISHED"
  BY <1>1 DEF Conn
<1>3. \A n : [a EXCEPT !.tcpstateflags = "LAST_ACK", !.len = 1, !.nrtx = 0,
                       !.rcv_nxt = n].tcpstateflags = "LAST_ACK"
  BY <1>1 DEF Conn
<1>4. \A n : [a EXCEPT !.rcv_nxt = n, !.nrtx = 0].tcpstateflags = c.tcpstateflags
  BY <1>1 DEF Conn
<1> QED
  BY <1>2, <1>3, <1>4 DEF Accepted, Connected, PeerClosed, Received, a

\* The connection ends, and the application is told.
LEMMA EndTypes ==
    ASSUME UipAssumption, LinkitAssumption, TypeInv, UNCHANGED environment,
           NEW s \in Slots, NEW flags, UNCHANGED <<TcpInit, net>>,
           Closed(s), iot_tcp_appcall(s, flags), toSrv' \subseteq Segment
    PROVE  TypeInv'
<1>. USE TypeParts
<1>1. ConnsTyped'
  BY ClosedTypes
<1>2. AppTypes' /\ cli_fd' \in Slots \cup {NoFd}
  BY CallbackTypes
<1>3. NetTypes'
  BY DEF net, NetTypes
<1> QED
  BY <1>1, <1>2, <1>3, TypePartsNext

\* The connection goes on, and the application is told.
LEMMA GoOnTypes ==
    ASSUME UipAssumption, LinkitAssumption, TypeInv, UNCHANGED environment,
           NEW s \in Slots, NEW flags, UNCHANGED <<TcpInit, net>>,
           NEW d \in Conn, ConnFits(d), Becomes(s, d),
           iot_tcp_appcall(s, flags), toSrv' \subseteq Segment
    PROVE  TypeInv'
<1>. USE TypeParts
<1>1. ConnsTyped'
  BY BecomesTypes
<1>2. AppTypes' /\ cli_fd' \in Slots \cup {NoFd}
  BY CallbackTypes
<1>3. NetTypes'
  BY DEF net, NetTypes
<1> QED
  BY <1>1, <1>2, <1>3, TypePartsNext

\* A segment for a connection.
LEMMA ReceiveTypes ==
    ASSUME UipAssumption, LinkitAssumption, TypeInv, UNCHANGED environment,
           NEW s \in Slots, NEW seg \in Incoming(s), Receive(s, seg)
    PROVE  TypeInv'
<1>. USE TypeParts
<1>. DEFINE c == uip_conns[s]
<1>0. c.tcpstateflags # "CLOSED" /\ c.lport = seg.port /\ seg.seq \in Nat
  BY IncomingTypes
<1>1. c \in Conn /\ c.lport \in Ports /\ (platform => c.lport \in HttpPorts)
  BY <1>0, InUse
<1>. HIDE DEF c
<1>2. UNCHANGED <<TcpInit, net>>
  BY DEF Receive
<1>3. toSrv \subseteq Segment
  OBVIOUS
<1>4. ASSUME NEW d, d \in Conn, d.lport = c.lport, NEW flags \in SUBSET {"SYN", "ACK", "FIN", "RST"},
             Emit({Outgoing(d, flags, NoData)})
      PROVE  toSrv' \subseteq Segment
  <2>1. PICK r : r = Outgoing(d, flags, NoData)
    OBVIOUS
  <2>2. r \in AnySegment /\ r.port = c.lport /\ Emit({r})
    BY <1>4, <2>1, OutgoingTypes DEF Data
  <2> QED
    BY <1>1, <2>2, EmitTypes
<1>5. CASE ReceiveRst(s, seg)
  BY <1>2, <1>3, <1>5, EndTypes DEF ReceiveRst
<1>6. CASE ReceiveOutOfSequence(s, seg)
  <2>1. toSrv' \subseteq Segment
    BY <1>1, <1>4, <1>6 DEF ReceiveOutOfSequence, c
  <2>2. NetTypes' /\ AppTypes' /\ ConnsTyped'
    BY <1>2, <1>6 DEF ReceiveOutOfSequence, net, NetTypes, app, AppTypes, ConnsTyped,
         ConnFits, platform
  <2> QED
    BY <1>2, <1>6, <2>1, <2>2, TypePartsNext DEF ReceiveOutOfSequence
<1>7. CASE ReceiveAccepted(s, seg)
  <2>1. PICK d : d = Accepted(c, seg)
    OBVIOUS
  <2>2. d \in Conn /\ d.lport = c.lport /\ d.peer = c.peer
        /\ d.tcpstateflags = "ESTABLISHED"
    BY <1>0, <1>1, <2>1, ReceivedTypes, ReceivedStates
  <2>3. ConnFits(d)
    BY <1>0, <2>2, StillFits DEF c
  <2>4. Becomes(s, d) /\ iot_tcp_appcall(s, {"CONNECTED"}) /\ UNCHANGED toSrv
    BY <1>7, <2>1 DEF ReceiveAccepted, c
  <2> QED
    BY <1>2, <1>3, <2>2, <2>3, <2>4, GoOnTypes
<1>8. CASE ReceiveSynAck(s, seg)
  <2>1. PICK d : d = Connected(c, seg)
    OBVIOUS
  <2>2. d \in Conn /\ d.lport = c.lport /\ d.peer = c.peer
        /\ d.tcpstateflags = "ESTABLISHED"
    BY <1>0, <1>1, <2>1, ReceivedTypes, ReceivedStates
  <2>3. PICK e : e = IF d.lport = CliPort THEN Sent(d, 1) ELSE d
    OBVIOUS
  <2>4. e \in Conn /\ e.lport = c.lport /\ e.peer = c.peer
        /\ e.tcpstateflags = "ESTABLISHED"
    <3>1. CASE e = d
      BY <2>2, <3>1
    <3>2. CASE e = Sent(d, 1)
      <4>1. e = [d EXCEPT !.len = 1, !.nrtx = 0, !.rexmit_buf = 1]
        BY <3>2 DEF Sent
      <4>2. e \in Conn
        BY <2>2, <4>1 DEF Conn
      <4>3. e.lport = d.lport /\ e.peer = d.peer /\ e.tcpstateflags = d.tcpstateflags
        BY <2>2, <4>1 DEF Conn
      <4> QED
        BY <2>2, <4>2, <4>3
    <3> QED
      BY <2>3, <3>1, <3>2
  <2>5. ConnFits(e)
    BY <1>0, <2>4, StillFits DEF c
  <2>6. /\ Becomes(s, e)
        /\ iot_tcp_appcall(s, {"CONNECTED", "NEWDATA"})
        /\ Emit({Outgoing(d, {"ACK"}, NoData)})
    BY <1>8, <2>1, <2>3 DEF ReceiveSynAck, c
  <2>7. toSrv' \subseteq Segment
    BY <1>4, <2>2, <2>6
  <2> QED
    BY <1>2, <2>4, <2>5, <2>6, <2>7, GoOnTypes
<1>9. CASE ReceiveRefused(s, seg)
  <2>1. PICK r : r = Reset(c.lport)
    OBVIOUS
  <2>2. r \in AnySegment /\ r.port = c.lport /\ Emit({r})
    BY <1>0, <1>1, <1>9, <2>1, OutgoingTypes DEF ReceiveRefused
  <2>3. toSrv' \subseteq Segment
    BY <1>1, <2>2, EmitTypes
  <2> QED
    BY <1>2, <1>9, <2>3, EndTypes DEF ReceiveRefused
<1>10. CASE ReceiveFin(s, seg)
  <2>1. PICK d : d = PeerClosed(c, seg)
    OBVIOUS
  <2>2. d \in Conn /\ d.lport = c.lport /\ d.peer = c.peer
        /\ d.tcpstateflags = "LAST_ACK"
    BY <1>0, <1>1, <2>1, ReceivedTypes, ReceivedStates
  <2>3. ConnFits(d)
    BY <1>0, <2>2, StillFits DEF c
  <2>4. /\ Becomes(s, d)
        /\ iot_tcp_appcall(s, {"CLOSE"})
        /\ Emit({Outgoing(d, {"FIN", "ACK"}, NoData)})
    BY <1>10, <2>1 DEF ReceiveFin, c
  <2>5. toSrv' \subseteq Segment
    BY <1>4, <2>2, <2>4
  <2> QED
    BY <1>2, <2>2, <2>3, <2>4, <2>5, GoOnTypes
<1>11. CASE ReceiveData(s, seg)
  <2>1. PICK d : d = Received(c, seg)
    OBVIOUS
  <2>2. d \in Conn /\ d.lport = c.lport /\ d.peer = c.peer
        /\ d.tcpstateflags = c.tcpstateflags
    BY <1>0, <1>1, <2>1, ReceivedTypes, ReceivedStates
  <2>3. ConnFits(d)
    BY <1>0, <1>11, <2>2, StillFits DEF c, ReceiveData
  <2>4. /\ Becomes(s, d)
        /\ iot_tcp_appcall(s, {"NEWDATA", "ACKDATA"})
        /\ Emit(IF DataLen(seg) > 0 THEN {Outgoing(d, {"ACK"}, NoData)} ELSE {})
    BY <1>11, <2>1 DEF ReceiveData, c
  <2>5. toSrv' \subseteq Segment
    <3>1. CASE Emit({Outgoing(d, {"ACK"}, NoData)})
      BY <1>4, <2>2, <3>1
    <3>2. CASE Emit({})
      BY <3>2 DEF Emit
    <3> QED
      BY <2>4, <3>1, <3>2
  <2> QED
    BY <1>2, <2>2, <2>3, <2>4, <2>5, GoOnTypes
<1>12. CASE ReceiveLastAck(s, seg)
  BY <1>2, <1>3, <1>12, EndTypes DEF ReceiveLastAck
<1> QED
  BY <1>5, <1>6, <1>7, <1>8, <1>9, <1>10, <1>11, <1>12 DEF Receive

-----------------------------------------------------------------------------
(* The platform *)

ServerRecord ==
    [state : {"listen", "open", "closing", "gone"}, rcv : Nat, nxt : Nat,
     log : Seq(Requests)]

\* A step of the platform's end keeps the types, given those of what it writes.
LEMMA ServerStepTypes ==
    ASSUME TypeInv, UNCHANGED environment, NEW p \in HttpPorts,
           NEW record \in ServerRecord, NEW segs \in SUBSET Segment,
           ServerStep(p, record, segs)
    PROVE  TypeInv'
<1>. USE TypeParts
<1>1. srv \in [HttpPorts -> ServerRecord] /\ toDev \subseteq Segment
  BY DEF NetTypes, ServerRecord
<1>2. srv' \in [HttpPorts -> ServerRecord] /\ toDev' \subseteq Segment
  BY <1>1 DEF ServerStep
<1>3. NetTypes'
  BY <1>2 DEF NetTypes, ServerRecord
<1>4. AppTypes' /\ ConnsTyped' /\ UNCHANGED <<TcpInit, cli_fd, toSrv>>
  BY DEF ServerStep, app, AppTypes, ConnsTyped, ConnFits, platform
<1> QED
  BY <1>3, <1>4, TypePartsNext

\* What the platform answers.
LEMMA AnswerTypes ==
    ASSUME NEW p \in HttpPorts, srv \in [HttpPorts -> ServerRecord],
           NEW flags \in SUBSET {"SYN", "ACK", "FIN", "RST"}, NEW data \in {NoData, 1}
    PROVE  /\ Answer(p, flags, data) \in Segment
           /\ \A n \in Nat : [Answer(p, flags, data) EXCEPT !.ack = n] \in Segment
           /\ Answer(p, flags, data).ack = srv[p].rcv
<1>1. srv[p].rcv \in Nat /\ srv[p].nxt \in Nat
  BY DEF ServerRecord
<1>2. PICK a : a = Answer(p, flags, data)
  OBVIOUS
<1>3. a \in Segment /\ a.ack = srv[p].rcv
  BY <1>1, <1>2 DEF Answer, Segment
<1>4. \A n \in Nat : [a EXCEPT !.ack = n] \in Segment
  BY <1>3 DEF Segment
<1> QED
  BY <1>2, <1>3, <1>4

\* The same with the number of what was just taken.
LEMMA AckOneMore ==
    ASSUME NEW p \in HttpPorts, srv \in [HttpPorts -> ServerRecord]
    PROVE  [Answer(p, {"ACK"}, NoData) EXCEPT !.ack = @ + 1] \in Segment
<1>1. srv[p].rcv \in Nat
  BY DEF ServerRecord
<1>2. PICK a : a = Answer(p, {"ACK"}, NoData)
  OBVIOUS
<1>3. a.ack = srv[p].rcv /\ \A n \in Nat : [a EXCEPT !.ack = n] \in Segment
  BY <1>2, AnswerTypes
<1>4. PICK n \in Nat : n = srv[p].rcv + 1
  BY <1>1
<1>5. [a EXCEPT !.ack = a.ack + 1] = [a EXCEPT !.ack = n]
  BY <1>3, <1>4
<1> QED
  BY <1>2, <1>3, <1>5

\* Every step of the platform.
LEMMA ServerTypes ==
    ASSUME LinkitAssumption, TypeInv, UNCHANGED environment, NEW p \in HttpPorts, Server(p)
    PROVE  TypeInv'
<1>. DEFINE r == srv[p]
<1>1. srv \in [HttpPorts -> ServerRecord]
  BY DEF TypeInv, TypeOK, ServerRecord
<1>2. r \in ServerRecord
  BY <1>1
<1>3. toSrv \subseteq Segment
  BY DEF TypeInv, TypeOK
<1>. HIDE DEF r
<1>4. Gone(p) \in ServerRecord
  <2>1. [r EXCEPT !.state = "gone"] \in ServerRecord
    BY <1>2 DEF ServerRecord
  <2> QED
    BY <2>1 DEF Gone, r
<1>5. {Reset(p)} \subseteq Segment
  BY DEF Reset, Segment
<1>6. CASE ServerRespond(p)
  <2>1. PICK n \in Nat : n = r.nxt + 1
    BY <1>2 DEF ServerRecord
  <2>2. PICK d : d = [r EXCEPT !.nxt = n]
    OBVIOUS
  <2>3. d \in ServerRecord
    BY <1>2, <2>2 DEF ServerRecord
  <2>4. PICK a \in Segment : a = Answer(p, {"ACK"}, 1)
    BY <1>1, AnswerTypes
  <2>5. ServerStep(p, d, {a})
    BY <1>6, <2>1, <2>2, <2>4 DEF ServerRespond, r
  <2> QED
    BY <2>3, <2>5, ServerStepTypes
<1>7. CASE ServerClose(p)
  <2>1. PICK d : d = [r EXCEPT !.state = "closing"]
    OBVIOUS
  <2>2. d \in ServerRecord
    BY <1>2, <2>1 DEF ServerRecord
  <2>3. PICK a \in Segment : a = Answer(p, {"FIN", "ACK"}, NoData)
    BY <1>1, AnswerTypes
  <2>4. ServerStep(p, d, {a})
    BY <1>7, <2>1, <2>3 DEF ServerClose, r
  <2> QED
    BY <2>2, <2>4, ServerStepTypes
<1>8. CASE ServerReset(p)
  BY <1>4, <1>5, <1>8, ServerStepTypes DEF ServerReset
<1>9. ASSUME NEW seg \in toSrv, seg.port = p, ServerData(p, seg) PROVE TypeInv'
  <2>1. seg \in Segment /\ seg.data \in Requests
    BY <1>3, <1>9 DEF ServerData, Segment, Requests, LinkitAssumption
  <2>2. PICK n \in Nat : n = r.rcv + 1
    BY <1>2 DEF ServerRecord
  <2>3. PICK l \in Seq(Requests) : l = Append(r.log, seg.data)
    BY <1>2, <2>1, AppendProperties DEF ServerRecord
  <2>4. PICK d : d = [r EXCEPT !.rcv = n, !.log = l]
    OBVIOUS
  <2>5. d \in ServerRecord
    BY <1>2, <2>4 DEF ServerRecord
  <2>6. PICK a \in Segment : a = [Answer(p, {"ACK"}, NoData) EXCEPT !.ack = @ + 1]
    BY <1>1, AckOneMore
  <2>7. ServerStep(p, d, {a}) \/ ServerStep(p, Gone(p), {Reset(p)})
    BY <1>9, <2>2, <2>3, <2>4, <2>6 DEF ServerData, r
  <2> QED
    BY <1>4, <1>5, <2>5, <2>7, ServerStepTypes
<1>10. ASSUME NEW seg \in toSrv, seg.port = p, ServerRst(p, seg) PROVE TypeInv'
  BY <1>4, <1>10, ServerStepTypes DEF ServerRst
<1>11. ASSUME NEW seg \in toSrv, seg.port = p, ServerSyn(p, seg) PROVE TypeInv'
  <2>1. PICK d : d = [r EXCEPT !.state = "open", !.rcv = 1, !.nxt = 1]
    OBVIOUS
  <2>2. d \in ServerRecord
    BY <1>2, <2>1 DEF ServerRecord
  <2>3. PICK a \in Segment : a = [Answer(p, {"SYN", "ACK"}, NoData) EXCEPT !.ack = 1]
    BY <1>1, AnswerTypes
  <2>4. ServerStep(p, d, {a}) \/ ServerStep(p, Gone(p), {Reset(p)})
    BY <1>11, <2>1, <2>3 DEF ServerSyn, r
  <2> QED
    BY <1>4, <1>5, <2>2, <2>4, ServerStepTypes
<1>12. ASSUME NEW seg \in toSrv, seg.port = p, ServerFin(p, seg) PROVE TypeInv'
  <2>1. PICK a \in Segment : a = [Answer(p, {"ACK"}, NoData) EXCEPT !.ack = @ + 1]
    BY <1>1, AckOneMore
  <2>2. ServerStep(p, Gone(p), {a})
    BY <1>12, <2>1 DEF ServerFin
  <2> QED
    BY <1>4, <2>2, ServerStepTypes
<1>13. ASSUME NEW seg \in toSrv, seg.port = p, ServerNoConnection(p, seg) PROVE TypeInv'
  BY <1>2, <1>5, <1>13, ServerStepTypes DEF ServerNoConnection, r
<1> QED
  BY <1>6, <1>7, <1>8, <1>9, <1>10, <1>11, <1>12, <1>13 DEF Server

-----------------------------------------------------------------------------
(* Type correctness *)

\* The initial states are well typed.
LEMMA InitTypes ==
    ASSUME UipAssumption, LinkitAssumption, Init
    PROVE  TypeInv
<1>1. Unopened \in Conn /\ Unopened.tcpstateflags = "CLOSED" /\ Unopened.peer = "anyone"
  BY DEF Unopened, Conn, States, Peers, NoData
<1>2. uip_conns \in [Slots -> Conn] /\ \A s \in Slots : ConnFits(uip_conns[s])
  BY <1>1 DEF Init, ConnFits
<1>3. /\ environment \in Peers /\ TcpInit \in BOOLEAN /\ ReadyFlag \in BOOLEAN
      /\ MyHttpPort \in HttpPorts \cup {0} /\ local_my_web_data \in Requests \cup {NoData}
      /\ cli_fd \in Slots \cup {NoFd} /\ lost \in {"no", "full", "timedout"}
      /\ toDev \subseteq Segment /\ toSrv \subseteq Segment
  BY DEF Init, LinkitAssumption
<1>4. posted \in 0 .. MaxRequests
  BY DEF Init, LinkitAssumption
<1>5. sent \in [HttpPorts -> Seq(Requests)]
  BY DEF Init
<1>6. srv \in [HttpPorts -> [state : {"listen", "open", "closing", "gone"},
                              rcv : Nat, nxt : Nat, log : Seq(Requests)]]
  BY DEF Init
<1> QED
  BY <1>2, <1>3, <1>4, <1>5, <1>6 DEF TypeInv, TypeOK

\* Every step keeps the types.
LEMMA NextTypes ==
    ASSUME UipAssumption, LinkitAssumption, TypeInv, [Next]_vars
    PROVE  TypeInv'
<1>1. CASE UNCHANGED vars
  <2>1. /\ UNCHANGED <<environment, uip_conns, TcpInit, cli_fd, toSrv>>
        /\ UNCHANGED app /\ UNCHANGED net
    BY <1>1 DEF vars
  <2> QED
    BY <2>1, TypeParts, TypePartsNext DEF app, net, AppTypes, ConnsTyped, NetTypes,
         ConnFits, platform
<1>2. CASE Step /\ UNCHANGED environment
  BY <1>2, PostTypes, StackTypes, PeriodicTypes, ListenTypes, ReceiveTypes, ServerTypes
     DEF Step
<1> QED
  BY <1>1, <1>2 DEF Next

\* The variables of the stack, of the gateway and of the platform keep to their
\* sets of values, whoever the device talks to.
THEOREM LinkitTypeCorrect == Spec => []TypeOK
<1>1. Init => TypeInv
  BY InitTypes, UipAssumption, LinkitAssumption
<1>2. TypeInv /\ [Next]_vars => TypeInv'
  BY NextTypes, UipAssumption, LinkitAssumption
<1>3. TypeInv => TypeOK
  BY DEF TypeInv
<1> QED
  BY <1>1, <1>2, <1>3, PTL DEF Spec

-----------------------------------------------------------------------------
(* What cli_fd and ReadyFlag stand for *)

\* A connection that is open or being opened.
Up(c, port) == c.lport = port /\ c.tcpstateflags \in {"SYN_SENT", "ESTABLISHED"}

GatewayUp == \E s \in Slots : Up(uip_conns[s], MyHttpPort)
Expected == TcpInit /\ ReadyFlag /\ lost = "no"

Live ==
    /\ Expected => GatewayUp
    /\ cli_fd # NoFd => Up(uip_conns[cli_fd], CliPort)

\* The two properties and the parts of Live are the same.
LEMMA LiveForms == Live <=> StuckExplained /\ CliFdLive
  BY DEF Live, Expected, GatewayUp, StuckExplained, Stuck, CliFdLive, Up

\* One slot changes.
LEMMA OneSlot ==
    ASSUME uip_conns \in [Slots -> Conn], NEW s \in Slots, NEW d, Becomes(s, d)
    PROVE  \A t \in Slots : uip_conns'[t] = IF t = s THEN d ELSE uip_conns[t]
  BY DEF Becomes

\* A step that expects no more of the gateway's connection than was expected,
\* and of the other one either, keeps Live if every connection that was up is up.
LEMMA UpKeeps ==
    ASSUME TypeInv, Live,
           \A t \in Slots, port \in Ports : Up(uip_conns[t], port) => Up(uip_conns'[t], port),
           Expected' => Expected, UNCHANGED MyHttpPort, cli_fd' \in {cli_fd, NoFd}
    PROVE  Live'
<1>1. MyHttpPort \in Ports /\ CliPort \in Ports /\ cli_fd \in Slots \cup {NoFd}
  BY DEF TypeInv, TypeOK, Ports
<1>2. Expected' => GatewayUp'
  BY <1>1 DEF Live, GatewayUp
<1>3. cli_fd' # NoFd => Up(uip_conns'[cli_fd'], CliPort)
  BY <1>1 DEF Live
<1> QED
  BY <1>2, <1>3 DEF Live

\* An unused slot is taken.
LEMMA TakeKeepsUp ==
    ASSUME TypeInv, NEW s \in Slots, NEW d, Becomes(s, d),
           uip_conns[s].tcpstateflags = "CLOSED"
    PROVE  \A t \in Slots, port \in Ports : Up(uip_conns[t], port) => Up(uip_conns'[t], port)
<1>1. uip_conns \in [Slots -> Conn]
  BY DEF TypeInv, TypeOK
<1>2. \A t \in Slots : uip_conns'[t] = IF t = s THEN d ELSE uip_conns[t]
  BY <1>1, OneSlot
<1> QED
  BY <1>2 DEF Up

\* A connection goes on in another record.
LEMMA GoOnKeepsUp ==
    ASSUME TypeInv, NEW s \in Slots, NEW d, Becomes(s, d),
           d.lport = uip_conns[s].lport,
           d.tcpstateflags \in {uip_conns[s].tcpstateflags, "ESTABLISHED"}
    PROVE  \A t \in Slots, port \in Ports : Up(uip_conns[t], port) => Up(uip_conns'[t], port)
<1>1. uip_conns \in [Slots -> Conn]
  BY DEF TypeInv, TypeOK
<1>2. \A t \in Slots : uip_conns'[t] = IF t = s THEN d ELSE uip_conns[t]
  BY <1>1, OneSlot
<1> QED
  BY <1>2 DEF Up

\* A callback expects no more.
LEMMA CallbackExpects ==
    ASSUME NEW s \in Slots, NEW flags, iot_tcp_appcall(s, flags), UNCHANGED TcpInit
    PROVE  /\ Expected' => Expected
           /\ UNCHANGED MyHttpPort
           /\ cli_fd' \in {cli_fd, NoFd}
<1>1. ReadyFlag' => ReadyFlag
  BY DEF iot_tcp_appcall, app_handle_connection
<1>2. lost' = "no" => lost = "no"
  BY DEF iot_tcp_appcall, app_handle_connection
<1>3. UNCHANGED MyHttpPort /\ cli_fd' \in {cli_fd, NoFd}
  BY DEF iot_tcp_appcall, app_handle_connection, handle_tcp_app
<1>4. TcpInit' => TcpInit
  OBVIOUS
<1> QED
  BY <1>1, <1>2, <1>3, <1>4 DEF Expected

\* A connection ends with a callback: nothing is expected of it any more.
LEMMA EndKeeps ==
    ASSUME TypeInv, Live, NEW s \in Slots, NEW d, Becomes(s, d), UNCHANGED TcpInit,
           NEW flag \in {"TIMEDOUT", "ABORT", "CLOSE"}, iot_tcp_appcall(s, {flag})
    PROVE  Live'
<1>. DEFINE c == uip_conns[s]
<1>0. uip_conns \in [Slots -> Conn] /\ cli_fd \in Slots \cup {NoFd}
  BY DEF TypeInv, TypeOK
<1>1. \A t \in Slots : t # s => uip_conns'[t] = uip_conns[t]
  BY <1>0, OneSlot
<1>2. /\ Expected' => Expected
      /\ UNCHANGED MyHttpPort
      /\ cli_fd' \in {cli_fd, NoFd}
  BY CallbackExpects
<1>3. c.lport = MyHttpPort => ~Expected'
  <2>1. c.lport = MyHttpPort /\ flag = "TIMEDOUT" => lost' = "timedout"
    BY DEF iot_tcp_appcall, app_handle_connection
  <2>2. c.lport = MyHttpPort /\ flag \in {"ABORT", "CLOSE"} => ~ReadyFlag'
    BY DEF iot_tcp_appcall, app_handle_connection, ConnectionClosed
  <2> QED
    BY <2>1, <2>2 DEF Expected
<1>4. c.lport = CliPort => cli_fd' = NoFd
  BY DEF iot_tcp_appcall, handle_tcp_app
<1>. HIDE DEF c
<1>5. Expected' => GatewayUp'
  <2>1. ASSUME Expected' PROVE GatewayUp'
    <3>1. PICK t \in Slots : Up(uip_conns[t], MyHttpPort)
      BY <1>2, <2>1 DEF Live, GatewayUp
    <3>2. t # s
      BY <1>3, <2>1, <3>1 DEF Up, c
    <3> QED
      BY <1>1, <1>2, <3>1, <3>2 DEF GatewayUp
  <2> QED
    BY <2>1
<1>6. cli_fd' # NoFd => Up(uip_conns'[cli_fd'], CliPort)
  <2>1. ASSUME cli_fd' # NoFd PROVE Up(uip_conns'[cli_fd'], CliPort)
    <3>1. cli_fd' = cli_fd /\ cli_fd \in Slots /\ Up(uip_conns[cli_fd], CliPort)
      BY <1>0, <1>2, <2>1 DEF Live
    <3>2. cli_fd # s
      BY <1>4, <2>1, <3>1 DEF Up, c
    <3> QED
      BY <1>1, <3>1, <3>2
  <2> QED
    BY <2>1
<1> QED
  BY <1>5, <1>6 DEF Live

\* The gateway opens a connection: what is expected of it holds.
LEMMA InitConnectionUp ==
    ASSUME UipAssumption, LinkitAssumption, NEW conns \in [Slots -> Conn],
           app_init_connection(conns)
    PROVE  /\ GatewayUp'
           /\ \A t \in Slots : conns[t].tcpstateflags # "CLOSED" => uip_conns'[t] = conns[t]
<1>1. PICK n \in Slots : n = Min(Unused(conns)) /\ conns[n].tcpstateflags = "CLOSED"
  BY TakesUnused DEF app_init_connection
<1>2. PICK c : c = [conns[n] EXCEPT !.tcpstateflags = "SYN_SENT",
                       !.lport = MyHttpPort + 1, !.peer = environment,
                       !.snd_nxt = 0, !.len = 1, !.nrtx = 0]
  OBVIOUS
<1>3. uip_conns' = [conns EXCEPT ![n] = c]
  BY <1>1, <1>2 DEF app_init_connection, uip_connect
<1>4. conns[n] \in Conn
  OBVIOUS
<1>5. c.lport = MyHttpPort + 1 /\ c.tcpstateflags = "SYN_SENT"
  BY <1>2, <1>4 DEF Conn
<1>6. \A t \in Slots : uip_conns'[t] = IF t = n THEN c ELSE conns[t]
  BY <1>3
<1>7. GatewayUp'
  BY <1>5, <1>6 DEF GatewayUp, Up, app_init_connection
<1> QED
  BY <1>1, <1>6, <1>7

\* The application and the stack.
LEMMA StackKeepsLive ==
    ASSUME UipAssumption, LinkitAssumption, TypeInv, Live,
           Post \/ tcpip_init \/ iot_linkdown \/ CliTimer \/ Accept
    PROVE  Live'
<1>0. uip_conns \in [Slots -> Conn] /\ cli_fd \in Slots \cup {NoFd}
  BY DEF TypeInv, TypeOK
<1>1. CASE Post
  <2>1. UNCHANGED <<TcpInit, cli_fd>>
    BY <1>1 DEF Post
  <2>2. CASE ReadyFlag /\ UNCHANGED <<uip_conns, MyHttpPort, lost>>
    <3>1. Expected' => Expected
      BY <2>1, <2>2 DEF Expected
    <3> QED
      BY <2>1, <2>2, <3>1, UpKeeps
  <2>3. CASE app_init_connection(uip_conns)
    <3>1. GatewayUp'
      BY <1>0, <2>3, InitConnectionUp
    <3>2. \A t \in Slots : uip_conns[t].tcpstateflags # "CLOSED" => uip_conns'[t] = uip_conns[t]
      BY <1>0, <2>3, InitConnectionUp
    <3>3. cli_fd # NoFd => uip_conns'[cli_fd] = uip_conns[cli_fd]
      BY <1>0, <3>2 DEF Live, Up
    <3> QED
      BY <2>1, <3>1, <3>3 DEF Live
  <2>4. CASE lost' = "full" /\ UNCHANGED <<uip_conns, MyHttpPort>>
    <3>1. ~Expected'
      BY <2>4 DEF Expected
    <3> QED
      BY <2>1, <2>4, <3>1 DEF Live
  <2> QED
    BY <1>1, <2>2, <2>3, <2>4 DEF Post
<1>2. CASE tcpip_init
  <2>. DEFINE conns == [s \in Slots |-> Unopened]
  <2>1. conns \in [Slots -> Conn]
    BY DEF Unopened, Conn, States, Peers, NoData
  <2>2. app_init_connection(conns)
    BY <1>2 DEF tcpip_init
  <2>. HIDE DEF conns
  <2>3. GatewayUp'
    BY <2>1, <2>2, InitConnectionUp
  <2> QED
    BY <1>2, <2>3 DEF tcpip_init, Live
<1>3. CASE iot_linkdown
  <2>1. ~Expected'
    BY <1>3 DEF iot_linkdown, Expected
  <2> QED
    BY <1>3, <2>1 DEF iot_linkdown, Live
<1>4. CASE CliTimer
  <2>1. PICK n \in Slots :
          n = Min(Unused(uip_conns)) /\ uip_conns[n].tcpstateflags = "CLOSED"
    BY <1>4, TakesUnused DEF CliTimer
  <2>2. PICK c : c = [uip_conns[n] EXCEPT !.tcpstateflags = "SYN_SENT",
                        !.lport = CliPort, !.peer = "anyone",
                        !.snd_nxt = 0, !.len = 1, !.nrtx = 0]
    OBVIOUS
  <2>3. Becomes(n, c)
    BY <1>4, <2>1, <2>2 DEF CliTimer, uip_connect, Becomes
  <2>4. uip_conns[n] \in Conn
    BY <1>0
  <2>5. Up(c, CliPort)
    BY <2>2, <2>4 DEF Conn, Up
  <2>6. \A t \in Slots, port \in Ports : Up(uip_conns[t], port) => Up(uip_conns'[t], port)
    BY <2>1, <2>3, TakeKeepsUp
  <2>7. UNCHANGED <<TcpInit, ReadyFlag, lost, MyHttpPort>> /\ cli_fd' = n
    BY <1>4, <2>1 DEF CliTimer, app
  <2>8. MyHttpPort \in Ports
    BY DEF TypeInv, TypeOK, Ports
  <2>9. Expected' => GatewayUp'
    BY <2>6, <2>7, <2>8 DEF Live, Expected, GatewayUp
  <2>10. Up(uip_conns'[cli_fd'], CliPort)
    BY <1>0, <2>3, <2>5, <2>7, OneSlot
  <2> QED
    BY <2>9, <2>10 DEF Live
<1>5. CASE Accept
  <2>1. PICK n \in Slots :
          n = Min(Unused(uip_conns)) /\ uip_conns[n].tcpstateflags = "CLOSED"
    BY <1>5, TakesUnused DEF Accept
  <2>2. PICK c : Becomes(n, c)
    BY <1>5, <2>1 DEF Accept
  <2>3. \A t \in Slots, port \in Ports : Up(uip_conns[t], port) => Up(uip_conns'[t], port)
    BY <2>1, <2>2, TakeKeepsUp
  <2>4. UNCHANGED <<TcpInit, ReadyFlag, lost, MyHttpPort, cli_fd>>
    BY <1>5 DEF Accept, app
  <2>5. Expected' => Expected
    BY <2>4 DEF Expected
  <2> QED
    BY <2>3, <2>4, <2>5, UpKeeps
<1> QED
  BY <1>1, <1>2, <1>3, <1>4, <1>5

\* The timers of a connection.
LEMMA PeriodicKeepsLive ==
    ASSUME TypeInv, Live, NEW s \in Slots, Periodic(s)
    PROVE  Live'
<1>. DEFINE c == uip_conns[s]
<1>0. c \in Conn
  BY DEF TypeInv, TypeOK
<1>. HIDE DEF c
<1>1. CASE TimedOut(s)
  BY <1>1, EndKeeps DEF TimedOut, Closed
<1>2. ASSUME NEW d, Becomes(s, d), d.lport = c.lport, d.tcpstateflags = c.tcpstateflags,
             UNCHANGED <<TcpInit, ReadyFlag, lost, MyHttpPort, cli_fd>>
      PROVE  Live'
  <2>1. \A t \in Slots, port \in Ports : Up(uip_conns[t], port) => Up(uip_conns'[t], port)
    BY <1>2, GoOnKeepsUp DEF c
  <2>2. Expected' => Expected
    BY <1>2 DEF Expected
  <2> QED
    BY <1>2, <2>1, <2>2, UpKeeps
<1>3. CASE Retransmit(s)
  <2>1. PICK d : d = [c EXCEPT !.nrtx = @ + 1]
    OBVIOUS
  <2>2. d.lport = c.lport /\ d.tcpstateflags = c.tcpstateflags
    BY <1>0, <2>1 DEF Conn
  <2> QED
    BY <1>2, <1>3, <2>1, <2>2 DEF Retransmit, app, c
<1>4. CASE Poll(s)
  <2>1. PICK d : d = Sent(c, local_my_web_data)
    OBVIOUS
  <2>2. d.lport = c.lport /\ d.tcpstateflags = c.tcpstateflags
    BY <1>0, <2>1 DEF Conn, Sent
  <2> QED
    BY <1>2, <1>4, <2>1, <2>2 DEF Poll, c
<1> QED
  BY <1>1, <1>3, <1>4 DEF Periodic

\* A segment for a connection.
LEMMA ReceiveKeepsLive ==
    ASSUME UipAssumption, LinkitAssumption, TypeInv, Live,
           NEW s \in Slots, NEW seg \in Incoming(s), Receive(s, seg)
    PROVE  Live'
<1>. DEFINE c == uip_conns[s]
<1>0. c \in Conn /\ seg.seq \in Nat
  BY IncomingTypes DEF TypeInv, TypeOK
<1>. HIDE DEF c
<1>1. UNCHANGED TcpInit
  BY DEF Receive
<1>2. ASSUME NEW d, Becomes(s, d), d.lport = c.lport, NEW flags, iot_tcp_appcall(s, flags),
             d.tcpstateflags \in {c.tcpstateflags, "ESTABLISHED"}
      PROVE  Live'
  <2>1. \A t \in Slots, port \in Ports : Up(uip_conns[t], port) => Up(uip_conns'[t], port)
    BY <1>2, GoOnKeepsUp DEF c
  <2>2. (Expected' => Expected) /\ UNCHANGED MyHttpPort /\ cli_fd' \in {cli_fd, NoFd}
    BY <1>1, <1>2, CallbackExpects
  <2> QED
    BY <2>1, <2>2, UpKeeps
<1>3. CASE ReceiveRst(s, seg)
  BY <1>1, <1>3, EndKeeps DEF ReceiveRst, Closed
<1>4. CASE ReceiveOutOfSequence(s, seg)
  <2>1. Expected' => Expected
    BY <1>1, <1>4 DEF ReceiveOutOfSequence, app, Expected
  <2> QED
    BY <1>4, <2>1, UpKeeps DEF ReceiveOutOfSequence, app
<1>5. CASE ReceiveAccepted(s, seg)
  <2>1. PICK d : d = Accepted(c, seg)
    OBVIOUS
  <2>2. d.lport = c.lport /\ d.tcpstateflags = "ESTABLISHED"
    BY <1>0, <2>1, ReceivedTypes, ReceivedStates
  <2> QED
    BY <1>2, <1>5, <2>1, <2>2 DEF ReceiveAccepted, c
<1>6. CASE ReceiveSynAck(s, seg)
  <2>1. PICK d : d = Connected(c, seg)
    OBVIOUS
  <2>2. d \in Conn /\ d.lport = c.lport /\ d.tcpstateflags = "ESTABLISHED"
    BY <1>0, <2>1, ReceivedTypes, ReceivedStates
  <2>3. PICK e : e = IF d.lport = CliPort THEN Sent(d, 1) ELSE d
    OBVIOUS
  <2>4. e.lport = c.lport /\ e.tcpstateflags = "ESTABLISHED"
    BY <2>2, <2>3 DEF Conn, Sent
  <2> QED
    BY <1>2, <1>6, <2>1, <2>3, <2>4 DEF ReceiveSynAck, c
<1>7. CASE ReceiveRefused(s, seg)
  BY <1>1, <1>7, EndKeeps DEF ReceiveRefused, Closed
<1>8. CASE ReceiveFin(s, seg)
  BY <1>1, <1>8, EndKeeps DEF ReceiveFin
<1>9. CASE ReceiveData(s, seg)
  <2>1. PICK d : d = Received(c, seg)
    OBVIOUS
  <2>2. d.lport = c.lport /\ d.tcpstateflags = c.tcpstateflags
    BY <1>0, <2>1, ReceivedTypes, ReceivedStates
  <2> QED
    BY <1>2, <1>9, <2>1, <2>2 DEF ReceiveData, c
<1>10. CASE ReceiveLastAck(s, seg)
  BY <1>1, <1>10, EndKeeps DEF ReceiveLastAck, Closed
<1> QED
  BY <1>3, <1>4, <1>5, <1>6, <1>7, <1>8, <1>9, <1>10 DEF Receive

\* A step of the network or a peer changes nothing of the device.
LEMMA ServerLeavesDevice ==
    ASSUME NEW p, Server(p)
    PROVE  UNCHANGED <<uip_conns, TcpInit, cli_fd, app>>
<1>1. CASE ServerRespond(p) \/ ServerClose(p) \/ ServerReset(p)
  BY <1>1 DEF ServerRespond, ServerClose, ServerReset, ServerStep
<1>2. CASE \E seg \in toSrv : ServerData(p, seg) \/ ServerRst(p, seg)
  BY <1>2 DEF ServerData, ServerRst, ServerStep
<1>3. CASE \E seg \in toSrv : ServerSyn(p, seg) \/ ServerFin(p, seg) \/ ServerNoConnection(p, seg)
  BY <1>3 DEF ServerSyn, ServerFin, ServerNoConnection, ServerStep
<1> QED
  BY <1>1, <1>2, <1>3 DEF Server

\* Every step keeps Live.
LEMMA NextKeepsLive ==
    ASSUME UipAssumption, LinkitAssumption, TypeInv, Live, [Next]_vars
    PROVE  Live'
<1>1. ASSUME UNCHANGED <<uip_conns, TcpInit, cli_fd, app>> PROVE Live'
  <2>1. Expected' => Expected
    BY <1>1 DEF app, Expected
  <2> QED
    BY <1>1, <2>1, UpKeeps DEF app
<1>2. CASE UNCHANGED vars
  BY <1>1, <1>2 DEF vars
<1>3. CASE \E seg \in toDev : NoConnection(seg)
  BY <1>1, <1>3 DEF NoConnection
<1>4. CASE \E p \in HttpPorts : Server(p)
  <2>1. UNCHANGED <<uip_conns, TcpInit, cli_fd, app>>
    BY <1>4, ServerLeavesDevice
  <2> QED
    BY <1>1, <2>1
<1> QED
  BY <1>2, <1>3, <1>4, StackKeepsLive, PeriodicKeepsLive, ReceiveKeepsLive DEF Next, Step

\* So Live is an invariant of the gateway.
LEMMA LiveInvariance == Spec => [](TypeInv /\ Live)
<1>1. Init => TypeInv
  BY InitTypes, UipAssumption, LinkitAssumption
<1>2. Init => Live
  BY DEF Init, Live, Expected
<1>3. TypeInv /\ [Next]_vars => TypeInv'
  BY NextTypes, UipAssumption, LinkitAssumption
<1>4. TypeInv /\ Live /\ [Next]_vars => Live'
  BY NextKeepsLive, UipAssumption, LinkitAssumption
<1> QED
  BY <1>1, <1>2, <1>3, <1>4, PTL DEF Spec

\* A connection of the gateway is lost unnoticed in two ways only, through a
\* timeout and through a full table: after a reset, a refusal, a FIN, a late
\* callback of an earlier connection and a restart of the stack ReadyFlag says
\* whether there is a connection (app_handle_connection, encode_and_send_data).
THEOREM StuckExplainedHolds == Spec => []StuckExplained
<1>1. Live => StuckExplained
  BY LiveForms
<1> QED
  BY <1>1, LiveInvariance, PTL

\* cli_fd never names a slot whose connection has ended, or that another
\* connection has taken since (handle_tcp_app, cli_timer, tcpip_init).
THEOREM CliFdLiveHolds == Spec => []CliFdLive
<1>1. Live => CliFdLive
  BY LiveForms
<1> QED
  BY <1>1, LiveInvariance, PTL

-----------------------------------------------------------------------------
(***************************************************************************)
(* What TCP does for the gateway: the numbers of the two ends and of the   *)
(* segments between them, and the two properties of the requests the       *)
(* platform receives that follow from them.                                *)
(***************************************************************************)

\* A request is in the buffer or has been sent once.
SentOnce ==
    /\ local_my_web_data <= posted
    /\ \A p \in HttpPorts : \A i \in DOMAIN sent[p] :
          sent[p][i] <= posted /\ sent[p][i] # local_my_web_data
    /\ \A p, q \in HttpPorts : \A i \in DOMAIN sent[p], j \in DOMAIN sent[q] :
          sent[p][i] = sent[q][j] => p = q /\ i = j

InUseAt(s) == uip_conns[s].tcpstateflags # "CLOSED"

\* Ports are taken in order and no port is taken twice.
PortsUsed ==
    /\ \A s \in Slots : InUseAt(s) => uip_conns[s].lport <= MyHttpPort
    /\ \A s, t \in Slots :
          InUseAt(s) /\ InUseAt(t) /\ uip_conns[s].lport = uip_conns[t].lport => s = t
    /\ \A seg \in toSrv \cup toDev : seg.port <= MyHttpPort
    /\ \A p \in HttpPorts : p > MyHttpPort => sent[p] = <<>>

\* The device's end, for the requests m that were sent and the ones the
\* platform has, l: all but one are acknowledged, and that one is in rexmit_buf.
Numbered(c, m, l) ==
    /\ c.tcpstateflags = "SYN_SENT" => c.snd_nxt = 0 /\ c.len = 1 /\ m = <<>>
    /\ c.tcpstateflags = "ESTABLISHED" =>
          /\ c.snd_nxt + c.len = 1 + Len(m)
          /\ c.len = 1 => m # <<>> /\ c.rexmit_buf = m[Len(m)]
    /\ c.tcpstateflags = "LAST_ACK" => c.snd_nxt = 1 + Len(m) /\ c.len = 1
    /\ c.tcpstateflags \in {"ESTABLISHED", "LAST_ACK"} => c.snd_nxt <= 1 + Len(l)

ConnNumbers ==
    \A s \in Slots :
        InUseAt(s) => Numbered(uip_conns[s], sent[uip_conns[s].lport],
                               srv[uip_conns[s].lport].log)

\* The platform's end.
Taken(r, m) ==
    /\ Len(r.log) <= Len(m)
    /\ \A i \in 1 .. Len(r.log) : r.log[i] = m[i]
    /\ r.state = "listen" => r.rcv = 0 /\ r.log = <<>>
    /\ r.state \in {"open", "closing"} => r.rcv = 1 + Len(r.log)
    /\ r.rcv <= 1 + Len(r.log)

ServerNumbers == \A p \in HttpPorts : Taken(srv[p], sent[p])

\* The segments under way.  A FIN, and what acknowledges it, can only meet a
\* connection that is closing or gone.
UpOn(port) == \E s \in Slots : Up(uip_conns[s], port)

DataIsSent ==
    \A seg \in toSrv : seg.data # NoData =>
        seg.seq \in 1 .. Len(sent[seg.port]) /\ seg.data = sent[seg.port][seg.seq]
FinIsLast == \A seg \in toSrv : "FIN" \in seg.flags => ~UpOn(seg.port)
AckIsTaken ==
    \A seg \in toDev :
        "ACK" \in seg.flags => seg.ack <= srv[seg.port].rcv \/ ~UpOn(seg.port)

TcpInv ==
    platform => PortsUsed /\ ConnNumbers /\ ServerNumbers /\ DataIsSent /\ FinIsLast /\ AckIsTaken

-----------------------------------------------------------------------------
(* No request is sent twice *)

\* SentOnce says nothing of the stack.
LEMMA SentOnceQuiet ==
    ASSUME SentOnce, UNCHANGED <<posted, local_my_web_data, sent>>
    PROVE  SentOnce'
  BY DEF SentOnce

\* A request that is posted goes into an empty buffer or is dropped.
LEMMA PostKeepsSentOnce ==
    ASSUME TypeInv, SentOnce, Post
    PROVE  SentOnce'
<1>1. /\ UNCHANGED sent /\ posted' = posted + 1
      /\ local_my_web_data' = IF local_my_web_data = NoData THEN posted + 1
                              ELSE local_my_web_data
  BY DEF Post
<1>2. posted \in Nat /\ sent \in [HttpPorts -> Seq(Requests)]
      /\ local_my_web_data \in Nat /\ Requests \subseteq Nat
  BY DEF TypeInv, TypeOK, Requests, NoData
<1>3. local_my_web_data' <= posted'
  BY <1>1, <1>2 DEF SentOnce
<1>4. ASSUME NEW q \in HttpPorts, NEW i \in DOMAIN sent[q]
      PROVE  sent'[q][i] <= posted' /\ sent'[q][i] # local_my_web_data'
  <2>1. sent[q] \in Seq(Requests)
    BY <1>2
  <2>2. sent[q][i] \in Requests
    BY <2>1
  <2>3. sent[q][i] <= posted /\ sent[q][i] # local_my_web_data
    BY DEF SentOnce
  <2>4. PICK y \in Nat : y = sent[q][i]
    BY <1>2, <2>2
  <2>5. y <= posted' /\ y # local_my_web_data'
    BY <1>1, <1>2, <2>3, <2>4
  <2> QED
    BY <1>1, <2>4, <2>5
<1> QED
  BY <1>1, <1>3, <1>4 DEF SentOnce

\* SendData moves the request from the buffer to the end of what was sent.
LEMMA PollKeepsSentOnce ==
    ASSUME TypeInv, SentOnce, NEW s \in Slots, Poll(s), MyHttpPort \in HttpPorts
    PROVE  SentOnce'
<1>. DEFINE x == local_my_web_data
            m == sent[MyHttpPort]
<1>1. /\ sent' = [sent EXCEPT ![MyHttpPort] = Append(m, x)]
      /\ local_my_web_data' = NoData /\ UNCHANGED posted /\ x # NoData
  BY DEF Poll, HasData
<1>2. posted \in Nat /\ sent \in [HttpPorts -> Seq(Requests)] /\ x \in Requests
  BY <1>1 DEF TypeInv, TypeOK
<1>3. \A n \in Requests : n \in Nat /\ n # NoData
  BY DEF Requests, NoData
<1>4. m \in Seq(Requests) /\ sent'[MyHttpPort] = Append(m, x)
      /\ \A q \in HttpPorts : q # MyHttpPort => sent'[q] = sent[q]
  BY <1>1, <1>2
<1>. HIDE DEF m, x
<1>5. ASSUME NEW q \in HttpPorts, NEW i \in DOMAIN sent'[q]
      PROVE  /\ sent'[q][i] \in Requests
             /\ \/ i \in DOMAIN sent[q] /\ sent'[q][i] = sent[q][i]
                \/ q = MyHttpPort /\ i = Len(m) + 1 /\ sent'[q][i] = x
  <2>1. CASE q = MyHttpPort
    <3>1. i \in 1 .. Len(m) + 1 /\ sent'[q][i] = Append(m, x)[i]
      BY <1>2, <1>4, <1>5, <2>1, AppendProperties
    <3> QED
      BY <1>2, <1>4, <2>1, <3>1 DEF m
  <2>2. CASE q # MyHttpPort
    BY <1>2, <1>4, <1>5, <2>2
  <2> QED
    BY <2>1, <2>2
<1>6. local_my_web_data' <= posted'
  BY <1>1, <1>2 DEF NoData
<1>7. ASSUME NEW q \in HttpPorts, NEW i \in DOMAIN sent'[q]
      PROVE  sent'[q][i] <= posted' /\ sent'[q][i] # local_my_web_data'
  <2>1. sent'[q][i] \in Requests
    BY <1>5
  <2>2. sent'[q][i] <= posted
    BY <1>5 DEF SentOnce, x
  <2> QED
    BY <1>1, <1>3, <2>1, <2>2
<1>8. ASSUME NEW q \in HttpPorts, NEW r \in HttpPorts,
             NEW i \in DOMAIN sent'[q], NEW j \in DOMAIN sent'[r],
             sent'[q][i] = sent'[r][j]
      PROVE  q = r /\ i = j
  <2>1. \A o \in HttpPorts : \A k \in DOMAIN sent[o] : sent[o][k] # x
    BY DEF SentOnce, x
  <2> QED
    BY <1>5, <1>8, <2>1 DEF SentOnce
<1> QED
  BY <1>6, <1>7, <1>8 DEF SentOnce

\* Every step keeps SentOnce.
LEMMA NextKeepsSentOnce ==
    ASSUME LinkitAssumption, TypeInv, SentOnce, [Next]_vars
    PROVE  SentOnce'
<1>1. CASE UNCHANGED vars
  BY <1>1, SentOnceQuiet DEF vars, app
<1>2. CASE tcpip_init \/ iot_linkdown \/ CliTimer \/ Accept
  BY <1>2, SentOnceQuiet DEF tcpip_init, iot_linkdown, CliTimer, Accept, app
<1>3. ASSUME NEW s \in Slots, Periodic(s) PROVE SentOnce'
  <2>1. CASE TimedOut(s) \/ Retransmit(s)
    BY <2>1, SentOnceQuiet DEF TimedOut, Retransmit, app, iot_tcp_appcall,
         app_handle_connection
  <2>2. CASE Poll(s)
    <3>1. /\ uip_conns[s].lport = MyHttpPort /\ uip_conns[s].tcpstateflags # "CLOSED"
      BY <2>2 DEF Poll
    <3>2. CASE MyHttpPort \in HttpPorts
      BY <2>2, <3>2, PollKeepsSentOnce
    <3>3. CASE MyHttpPort \notin HttpPorts
      <4>1. sent' = sent
        BY <2>2, <3>3 DEF Poll, TypeInv, TypeOK
      <4>2. local_my_web_data' = NoData /\ UNCHANGED posted
        BY <2>2 DEF Poll
      <4>3. \A q \in HttpPorts : \A i \in DOMAIN sent[q] :
               sent[q][i] \in Requests /\ NoData \notin Requests
        BY DEF TypeInv, TypeOK, Requests, NoData
      <4>4. NoData <= posted
        BY DEF TypeInv, TypeOK, NoData
      <4> QED
        BY <4>1, <4>2, <4>3, <4>4 DEF SentOnce
    <3> QED
      BY <3>2, <3>3
  <2> QED
    BY <1>3, <2>1, <2>2 DEF Periodic
<1>4. CASE \E seg \in toDev : NoConnection(seg)
  BY <1>4, SentOnceQuiet DEF NoConnection, app
<1>5. CASE \E s \in Slots : \E seg \in Incoming(s) : Receive(s, seg)
  BY <1>5, SentOnceQuiet DEF Receive, ReceiveRst, ReceiveOutOfSequence, ReceiveAccepted,
       ReceiveSynAck, ReceiveRefused, ReceiveFin, ReceiveData, ReceiveLastAck, app,
       iot_tcp_appcall, app_handle_connection
<1>6. CASE \E p \in HttpPorts : Server(p)
  BY <1>6, ServerLeavesDevice, SentOnceQuiet DEF app
<1> QED
  BY <1>1, <1>2, <1>3, <1>4, <1>5, <1>6, PostKeepsSentOnce DEF Next, Step

-----------------------------------------------------------------------------
(* What a segment does to the numbers of the device's end *)

\* The numbers after a segment are those after its acknowledgement.
LEMMA ReceivedNumbers ==
    ASSUME NEW c \in Conn, NEW seg
    PROVE  /\ \A d \in {Connected(c, seg), Received(c, seg)} :
                /\ d.snd_nxt = Acked(c, seg).snd_nxt
                /\ d.len = Acked(c, seg).len
                /\ d.rexmit_buf = c.rexmit_buf
           /\ PeerClosed(c, seg).snd_nxt = Acked(c, seg).snd_nxt
           /\ PeerClosed(c, seg).len = 1
<1>. DEFINE a == Acked(c, seg)
<1>1. a \in Conn /\ a.rexmit_buf = c.rexmit_buf
  BY AckedTypes
<1>. HIDE DEF a
<1>2. \A n : LET d == [a EXCEPT !.tcpstateflags = "ESTABLISHED", !.rcv_nxt = n, !.nrtx = 0]
             IN  d.snd_nxt = a.snd_nxt /\ d.len = a.len /\ d.rexmit_buf = a.rexmit_buf
  BY <1>1 DEF Conn
<1>3. \A n : LET d == [a EXCEPT !.tcpstateflags = "LAST_ACK", !.len = 1, !.nrtx = 0,
                                !.rcv_nxt = n]
             IN  d.snd_nxt = a.snd_nxt /\ d.len = 1
  BY <1>1 DEF Conn
<1>4. \A n : LET d == [a EXCEPT !.rcv_nxt = n, !.nrtx = 0]
             IN  d.snd_nxt = a.snd_nxt /\ d.len = a.len /\ d.rexmit_buf = a.rexmit_buf
  BY <1>1 DEF Conn
<1> QED
  BY <1>1, <1>2, <1>3, <1>4 DEF Connected, PeerClosed, Received, a

\* A SYNACK for the SYN, and a segment on an open connection whose
\* acknowledgement, if it counts, is of what the platform has taken.
LEMMA SegmentNumbers ==
    ASSUME NEW c \in Conn, c.peer = "platform", NEW seg, seg.seq \in Nat,
           NEW m \in Seq(Requests), NEW l \in Seq(Requests), Numbered(c, m, l)
    PROVE  /\ c.tcpstateflags = "SYN_SENT" /\ AckData(c, seg) =>
                Numbered(Connected(c, seg), m, l)
           /\ /\ c.tcpstateflags = "ESTABLISHED"
              /\ AckData(c, seg) => seg.ack <= 1 + Len(l)
              => /\ Numbered(Received(c, seg), m, l)
                 /\ ~uip_outstanding(Acked(c, seg)) => Numbered(PeerClosed(c, seg), m, l)
<1>. DEFINE a == Acked(c, seg)
            d == Connected(c, seg)
            r == Received(c, seg)
            f == PeerClosed(c, seg)
<1>1. c.snd_nxt \in Nat /\ c.len \in {0, 1} /\ Len(m) \in Nat /\ Len(l) \in Nat
  BY DEF Conn
<1>2. /\ AckData(c, seg) => /\ a.len = 0 /\ a.snd_nxt = c.snd_nxt + c.len
                            /\ seg.ack = c.snd_nxt + c.len
      /\ ~AckData(c, seg) => a.len = c.len /\ a.snd_nxt = c.snd_nxt
  BY AckedTypes DEF Plus, AckData
<1>3. /\ d.tcpstateflags = "ESTABLISHED" /\ f.tcpstateflags = "LAST_ACK"
      /\ r.tcpstateflags = c.tcpstateflags
  BY ReceivedStates
<1>4. /\ d.snd_nxt = a.snd_nxt /\ d.len = a.len /\ d.rexmit_buf = c.rexmit_buf
      /\ r.snd_nxt = a.snd_nxt /\ r.len = a.len /\ r.rexmit_buf = c.rexmit_buf
      /\ f.snd_nxt = a.snd_nxt /\ f.len = 1
  BY ReceivedNumbers
<1>5. uip_outstanding(a) <=> a.len > 0
  BY DEF uip_outstanding
<1>. HIDE DEF a, d, r, f
<1>6. c.tcpstateflags = "SYN_SENT" /\ AckData(c, seg) => Numbered(d, m, l)
  BY <1>1, <1>2, <1>3, <1>4 DEF Numbered
<1>7. ASSUME c.tcpstateflags = "ESTABLISHED", AckData(c, seg) => seg.ack <= 1 + Len(l)
      PROVE  Numbered(r, m, l) /\ (~uip_outstanding(a) => Numbered(f, m, l))
  <2>1. c.snd_nxt + c.len = 1 + Len(m) /\ c.snd_nxt <= 1 + Len(l)
        /\ (c.len = 1 => m # <<>> /\ c.rexmit_buf = m[Len(m)])
    BY <1>7 DEF Numbered
  <2>2. a.snd_nxt + a.len = 1 + Len(m) /\ a.snd_nxt <= 1 + Len(l)
        /\ (a.len = 1 => m # <<>> /\ c.rexmit_buf = m[Len(m)]) /\ a.len \in {0, 1}
    BY <1>1, <1>2, <1>7, <2>1
  <2>3. Numbered(r, m, l)
    BY <1>3, <1>4, <1>7, <2>2 DEF Numbered
  <2>4. ~uip_outstanding(a) => a.len = 0
    BY <1>5, <2>2
  <2>5. a.snd_nxt \in Nat
    BY <1>1, <1>2
  <2>6. ~uip_outstanding(a) => f.snd_nxt = 1 + Len(m) /\ f.len = 1 /\ f.snd_nxt <= 1 + Len(l)
    BY <1>1, <1>4, <2>2, <2>4, <2>5
  <2>7. ~uip_outstanding(a) => Numbered(f, m, l)
    BY <1>3, <2>6 DEF Numbered
  <2> QED
    BY <2>3, <2>7
<1> QED
  BY <1>6, <1>7 DEF a, d, r, f

-----------------------------------------------------------------------------
(* Steps of the device *)

BeingUsed(c) == c.tcpstateflags \in {"SYN_SENT", "ESTABLISHED"}

\* What may become of a connection in a step that sends no new request.
Follows(c, d) ==
    d.tcpstateflags # "CLOSED" =>
        /\ c.tcpstateflags # "CLOSED"
        /\ d.lport = c.lport
        /\ Numbered(d, sent[c.lport], srv[c.lport].log)
        /\ BeingUsed(d) => BeingUsed(c)

\* What may be sent in such a step.
MaySend(g) ==
    /\ g.port <= MyHttpPort
    /\ g.data # NoData => g.seq \in 1 .. Len(sent[g.port]) /\ g.data = sent[g.port][g.seq]

\* Connections follow one another, and what is sent may be sent.
LEMMA DeviceStep ==
    ASSUME platform, TypeInv, TcpInv,
           UNCHANGED <<environment, MyHttpPort, sent, srv, toDev>>,
           \A t \in Slots : Follows(uip_conns[t], uip_conns'[t]),
           \A g \in toSrv' : \/ g \in toSrv
                             \/ MaySend(g) /\ ("FIN" \in g.flags => ~UpOn(g.port)')
    PROVE  TcpInv'
<1>0. PortsUsed /\ ConnNumbers /\ ServerNumbers /\ DataIsSent /\ FinIsLast /\ AckIsTaken
  BY DEF TcpInv
<1>1. \A port : UpOn(port)' => UpOn(port)
  BY DEF UpOn, Up, Follows, BeingUsed
<1>2. PortsUsed'
  <2>1. \A t \in Slots : InUseAt(t)' =>
           InUseAt(t) /\ uip_conns'[t].lport = uip_conns[t].lport
    BY DEF InUseAt, Follows
  <2>2. \A seg \in toSrv' \cup toDev' : seg.port <= MyHttpPort
    BY <1>0 DEF PortsUsed, MaySend
  <2> QED
    BY <1>0, <2>1, <2>2 DEF PortsUsed
<1>3. ConnNumbers'
  BY DEF ConnNumbers, InUseAt, Follows
<1>4. ServerNumbers'
  BY <1>0 DEF ServerNumbers
<1>5. DataIsSent'
  BY <1>0 DEF DataIsSent, MaySend
<1>6. FinIsLast'
  BY <1>0, <1>1 DEF FinIsLast
<1>7. AckIsTaken'
  BY <1>0, <1>1 DEF AckIsTaken
<1> QED
  BY <1>2, <1>3, <1>4, <1>5, <1>6, <1>7 DEF TcpInv

\* A connection that stays as it is.
LEMMA FollowsItself ==
    ASSUME platform, TcpInv, NEW t \in Slots
    PROVE  Follows(uip_conns[t], uip_conns[t])
  BY DEF TcpInv, ConnNumbers, InUseAt, Follows

\* One connection changes and the others stay.
LEMMA OneFollows ==
    ASSUME platform, TypeInv, TcpInv, NEW s \in Slots, NEW d, Becomes(s, d),
           Follows(uip_conns[s], d)
    PROVE  \A t \in Slots : Follows(uip_conns[t], uip_conns'[t])
<1>1. \A t \in Slots : uip_conns'[t] = IF t = s THEN d ELSE uip_conns[t]
  BY OneSlot DEF TypeInv, TypeOK
<1> QED
  BY <1>1, FollowsItself

\* A connection that ends.
LEMMA ClosedFollows ==
    ASSUME platform, TypeInv, TcpInv, NEW s \in Slots, Closed(s)
    PROVE  \A t \in Slots : Follows(uip_conns[t], uip_conns'[t])
<1>1. PICK d : d = Unopened
  OBVIOUS
<1>2. Follows(uip_conns[s], d)
  BY <1>1 DEF Follows, Unopened
<1> QED
  BY <1>1, <1>2, OneFollows DEF Closed

\* One segment is sent.
LEMMA EmitOne ==
    ASSUME NEW h \in AnySegment, Emit({h})
    PROVE  \A g \in toSrv' :
              g \in toSrv \/ (g.port = h.port /\ g.flags = h.flags /\ g.seq = h.seq
                              /\ g.data = h.data)
<1>1. PICK e : e = [h EXCEPT !.ack = 0]
  OBVIOUS
<1>2. e.port = h.port /\ e.flags = h.flags /\ e.seq = h.seq /\ e.data = h.data
  BY <1>1 DEF AnySegment
<1>3. \A g \in toSrv' : g \in toSrv \/ g = e
  BY <1>1 DEF Emit
<1> QED
  BY <1>2, <1>3

\* A segment without data or FIN may always be sent on a port that was taken.
LEMMA EmitBare ==
    ASSUME NEW h \in AnySegment, Emit({h}), h.port <= MyHttpPort, h.data = NoData,
           "FIN" \notin h.flags
    PROVE  \A g \in toSrv' : \/ g \in toSrv
                             \/ MaySend(g) /\ ("FIN" \in g.flags => ~UpOn(g.port)')
  BY EmitOne DEF MaySend

\* A connection in use, in the environment of the platform.
LEMMA InUsePlatform ==
    ASSUME platform, TypeInv, TcpInv, NEW s \in Slots,
           uip_conns[s].tcpstateflags # "CLOSED"
    PROVE  /\ uip_conns[s] \in Conn
           /\ uip_conns[s].lport \in HttpPorts
           /\ uip_conns[s].peer = "platform"
           /\ uip_conns[s].tcpstateflags \in {"SYN_SENT", "ESTABLISHED", "LAST_ACK"}
           /\ uip_conns[s].lport <= MyHttpPort
           /\ Numbered(uip_conns[s], sent[uip_conns[s].lport],
                                     srv[uip_conns[s].lport].log)
<1>1. uip_conns[s] \in Conn
  BY DEF TypeInv, TypeOK
<1>2. /\ uip_conns[s].lport \in HttpPorts
      /\ uip_conns[s].peer = "platform"
      /\ uip_conns[s].tcpstateflags # "SYN_RCVD"
  BY DEF TypeInv, ConnFits
<1>3. uip_conns[s].tcpstateflags \in {"SYN_SENT", "ESTABLISHED", "LAST_ACK"}
  BY <1>1, <1>2 DEF Conn, States
<1>4. uip_conns[s].lport <= MyHttpPort
  BY DEF TcpInv, PortsUsed, InUseAt
<1>5. Numbered(uip_conns[s], sent[uip_conns[s].lport], srv[uip_conns[s].lport].log)
  BY DEF TcpInv, ConnNumbers, InUseAt
<1> QED
  BY <1>1, <1>2, <1>3, <1>4, <1>5

\* The types of the histories of a port.
LEMMA HistoryTypes ==
    ASSUME TypeInv, NEW p \in HttpPorts
    PROVE  sent[p] \in Seq(Requests) /\ srv[p] \in ServerRecord
           /\ srv[p].log \in Seq(Requests) /\ srv[p].rcv \in Nat
<1>1. srv[p] \in ServerRecord /\ sent[p] \in Seq(Requests)
  BY DEF TypeInv, TypeOK, ServerRecord
<1> QED
  BY <1>1 DEF ServerRecord

\* Only one connection has a port: when it is none that is up, no one is.
LEMMA AloneOnPort ==
    ASSUME platform, TypeInv, TcpInv, NEW s \in Slots, NEW d, Becomes(s, d),
           uip_conns[s].tcpstateflags # "CLOSED", ~BeingUsed(d),
           NEW port, port = uip_conns[s].lport
    PROVE  ~UpOn(port)'
<1>1. \A t \in Slots : uip_conns'[t] = IF t = s THEN d ELSE uip_conns[t]
  BY OneSlot DEF TypeInv, TypeOK
<1>2. \A t \in Slots : InUseAt(t) /\ uip_conns[t].lport = uip_conns[s].lport => t = s
  BY DEF TcpInv, PortsUsed, InUseAt
<1>3. ASSUME NEW t \in Slots, Up(uip_conns'[t], port) PROVE FALSE
  <2>1. t # s
    BY <1>1, <1>3 DEF Up, BeingUsed
  <2>2. uip_conns[t].tcpstateflags # "CLOSED" /\ uip_conns[t].lport = uip_conns[s].lport
    BY <1>1, <1>3, <2>1 DEF Up
  <2> QED
    BY <1>2, <2>1, <2>2 DEF InUseAt
<1> QED
  BY <1>3 DEF UpOn

\* A timeout, and a retransmission: of the SYN, of the request in rexmit_buf or
\* of the FIN.
LEMMA TimerKeepsTcp ==
    ASSUME platform, TypeInv, TcpInv, UNCHANGED environment, NEW s \in Slots,
           TimedOut(s) \/ Retransmit(s)
    PROVE  TcpInv'
<1>. DEFINE c == uip_conns[s]
<1>1. c.tcpstateflags # "CLOSED"
  BY DEF TimedOut, Retransmit
<1>2. PICK p \in HttpPorts : p = c.lport
  BY <1>1, InUsePlatform
<1>3. PICK m \in Seq(Requests) : m = sent[p]
  BY HistoryTypes
<1>4. PICK l \in Seq(Requests) : l = srv[p].log
  BY HistoryTypes
<1>5. /\ c \in Conn /\ c.tcpstateflags \in {"SYN_SENT", "ESTABLISHED", "LAST_ACK"}
      /\ p <= MyHttpPort /\ p \in Ports /\ Numbered(c, m, l)
  BY <1>1, <1>2, <1>3, <1>4, InUsePlatform DEF Ports
<1>. HIDE DEF c
<1>6. UNCHANGED <<MyHttpPort, sent, srv, toDev>>
  BY DEF TimedOut, Retransmit, net, app, iot_tcp_appcall, app_handle_connection
<1>7. CASE TimedOut(s)
  <2>1. PICK r : r = Reset(p)
    OBVIOUS
  <2>2. r \in AnySegment /\ r.port = p /\ r.data = NoData /\ r.flags = {"RST"}
    BY <1>5, <2>1 DEF Reset, AnySegment, Data
  <2>3. Emit({r}) /\ Closed(s)
    BY <1>2, <1>7, <2>1 DEF TimedOut, c
  <2>4. \A g \in toSrv' : g \in toSrv \/ (MaySend(g) /\ ("FIN" \in g.flags => ~UpOn(g.port)'))
    BY <1>5, <2>2, <2>3, EmitBare
  <2>5. \A t \in Slots : Follows(uip_conns[t], uip_conns'[t])
    BY <2>3, ClosedFollows
  <2> QED
    BY <1>6, <2>4, <2>5, DeviceStep
<1>8. CASE Retransmit(s)
  <2>1. PICK d : d = [c EXCEPT !.nrtx = @ + 1]
    OBVIOUS
  <2>2. /\ d.tcpstateflags = c.tcpstateflags /\ d.lport = c.lport /\ d.snd_nxt = c.snd_nxt
        /\ d.len = c.len /\ d.rexmit_buf = c.rexmit_buf
    BY <1>5, <2>1 DEF Conn
  <2>3. Numbered(d, m, l)
    BY <1>5, <2>2 DEF Numbered
  <2>4. Becomes(s, d) /\ uip_outstanding(c)
    BY <1>8, <2>1 DEF Retransmit, c
  <2>5. Follows(c, d)
    BY <1>1, <1>2, <1>3, <1>4, <2>2, <2>3 DEF Follows, BeingUsed
  <2>6. \A t \in Slots : Follows(uip_conns[t], uip_conns'[t])
    BY <2>4, <2>5, OneFollows DEF c
  <2>7. PICK h : h = Rexmit(c)
    OBVIOUS
  <2>8. h \in AnySegment /\ h.port = p /\ Emit({h})
    BY <1>1, <1>2, <1>5, <1>8, <2>7, OutgoingTypes DEF Retransmit, c
  <2>9. CASE c.tcpstateflags = "SYN_SENT"
    <3>1. h.data = NoData /\ "FIN" \notin h.flags
      BY <2>7, <2>9 DEF Rexmit, Outgoing
    <3>2. \A g \in toSrv' : g \in toSrv \/ (MaySend(g) /\ ("FIN" \in g.flags => ~UpOn(g.port)'))
      BY <1>5, <2>8, <3>1, EmitBare
    <3> QED
      BY <1>6, <2>6, <3>2, DeviceStep
  <2>10. CASE c.tcpstateflags = "ESTABLISHED"
    <3>1. h.data = c.rexmit_buf /\ h.seq = c.snd_nxt /\ h.flags = {"ACK"}
      BY <2>7, <2>10 DEF Rexmit, Outgoing
    <3>2. c.len = 1
      BY <1>5, <2>4 DEF uip_outstanding, Conn
    <3>3. c.snd_nxt + 1 = 1 + Len(m) /\ m # <<>> /\ c.rexmit_buf = m[Len(m)]
          /\ c.snd_nxt \in Nat
      BY <1>5, <2>10, <3>2 DEF Numbered, Conn
    <3>4. h.seq \in 1 .. Len(m) /\ h.data = m[h.seq]
      <4>1. Len(m) \in Nat /\ Len(m) # 0
        BY <3>3, EmptySeq
      <4> QED
        BY <3>1, <3>3, <4>1
    <3>5. \A g \in toSrv' : g \in toSrv \/ (MaySend(g) /\ "FIN" \notin g.flags)
      BY <1>3, <1>5, <2>8, <3>1, <3>4, EmitOne DEF MaySend
    <3> QED
      BY <1>6, <2>6, <3>5, DeviceStep
  <2>11. CASE c.tcpstateflags = "LAST_ACK"
    <3>1. h.data = NoData
      BY <2>7, <2>11 DEF Rexmit, Outgoing
    <3>2. ~UpOn(p)'
      BY <1>1, <1>2, <2>2, <2>4, <2>11, AloneOnPort DEF BeingUsed, c
    <3>3. \A g \in toSrv' : g \in toSrv \/ (MaySend(g) /\ ~UpOn(g.port)')
      BY <1>5, <2>8, <3>1, <3>2, EmitOne DEF MaySend
    <3> QED
      BY <1>6, <2>6, <3>3, DeviceStep
  <2> QED
    BY <1>5, <2>9, <2>10, <2>11
<1> QED
  BY <1>7, <1>8

\* The next request is sent, with the number that follows the last one.
LEMMA PollKeepsTcp ==
    ASSUME platform, LinkitAssumption, TypeInv, TcpInv, UNCHANGED environment,
           NEW s \in Slots, Poll(s)
    PROVE  TcpInv'
<1>. DEFINE c == uip_conns[s]
            x == local_my_web_data
<1>1. c.tcpstateflags = "ESTABLISHED" /\ ~uip_outstanding(c) /\ c.lport = MyHttpPort
  BY DEF Poll
<1>2. PICK p \in HttpPorts : p = MyHttpPort
  BY <1>1, InUsePlatform
<1>3. PICK m \in Seq(Requests) : m = sent[p]
  BY HistoryTypes
<1>4. PICK l \in Seq(Requests) : l = srv[p].log
  BY HistoryTypes
<1>5. c \in Conn /\ p \in Ports /\ Numbered(c, m, l)
  BY <1>1, <1>2, <1>3, <1>4, InUsePlatform DEF Ports
<1>6. x \in Requests /\ x # NoData
  BY DEF Poll, HasData, TypeInv, TypeOK
<1>. PICK n : n = Append(m, x)
  OBVIOUS
<1>7. n \in Seq(Requests) /\ Len(n) = Len(m) + 1 /\ n # <<>> /\ n[Len(n)] = x
      /\ \A i \in 1 .. Len(m) : n[i] = m[i]
  BY <1>6
<1>. HIDE DEF x
<1>8. /\ sent' = [sent EXCEPT ![p] = n] /\ UNCHANGED <<MyHttpPort, srv, toDev>>
      /\ Becomes(s, Sent(c, x)) /\ Emit({Outgoing(c, {"ACK"}, x)})
  BY <1>2, <1>3 DEF Poll, net, c, x
<1>9. sent'[p] = n /\ \A q \in HttpPorts : q # p => sent'[q] = sent[q]
  BY <1>8 DEF TypeInv, TypeOK
<1>. HIDE DEF c
<1>10. c.len = 0 /\ c.snd_nxt = 1 + Len(m) /\ c.snd_nxt <= 1 + Len(l) /\ c.snd_nxt \in Nat
  BY <1>1, <1>5 DEF Numbered, Conn, uip_outstanding
<1>11. PICK d : d = Sent(c, x)
  OBVIOUS
<1>12. /\ d.tcpstateflags = "ESTABLISHED" /\ d.lport = p /\ d.len = 1
       /\ d.snd_nxt = c.snd_nxt /\ d.rexmit_buf = x
  BY <1>1, <1>2, <1>5, <1>11 DEF Sent, Conn
<1>13. Numbered(d, n, l)
  <2>1. d.snd_nxt + d.len = 1 + Len(n)
    BY <1>7, <1>10, <1>12
  <2> QED
    BY <1>7, <1>10, <1>12, <2>1 DEF Numbered
<1>14. \A t \in Slots : uip_conns'[t] = IF t = s THEN d ELSE uip_conns[t]
  BY <1>8, <1>11, OneSlot DEF TypeInv, TypeOK
<1>15. PortsUsed /\ ConnNumbers /\ ServerNumbers /\ DataIsSent /\ FinIsLast /\ AckIsTaken
  BY DEF TcpInv
<1>16. PICK h : h = Outgoing(c, {"ACK"}, x)
  OBVIOUS
<1>17. /\ h \in AnySegment /\ h.port = p /\ h.flags = {"ACK"} /\ h.data = x
       /\ h.seq = Len(n)
  <2>1. x \in Data
    BY <1>6 DEF Data
  <2>2. h \in AnySegment /\ h.port = c.lport
    BY <1>5, <1>16, <2>1, OutgoingTypes
  <2>3. h.flags = {"ACK"} /\ h.data = x /\ h.seq = c.snd_nxt
    BY <1>16 DEF Outgoing
  <2> QED
    BY <1>1, <1>2, <1>7, <1>10, <2>2, <2>3 DEF c
<1>18. \A g \in toSrv' : \/ g \in toSrv
                         \/ g.port = p /\ g.flags = {"ACK"} /\ g.data = x /\ g.seq = Len(n)
  BY <1>8, <1>16, <1>17, EmitOne
<1>19. \A port : UpOn(port)' => UpOn(port)
  BY <1>1, <1>2, <1>12, <1>14 DEF UpOn, Up, c
<1>20. PortsUsed'
  <2>1. \A t \in Slots : InUseAt(t)' =>
           InUseAt(t) /\ uip_conns'[t].lport = uip_conns[t].lport
    BY <1>1, <1>2, <1>12, <1>14 DEF InUseAt, c
  <2>2. MyHttpPort \in Nat /\ p <= MyHttpPort
    BY <1>2, PortsApart
  <2>3. \A seg \in toSrv' \cup toDev' : seg.port <= MyHttpPort
    BY <1>8, <1>15, <1>18, <2>2 DEF PortsUsed
  <2>4. \A q \in HttpPorts : q > MyHttpPort => sent'[q] = <<>>
    <3>1. \A q \in HttpPorts : q > MyHttpPort => q # p
      BY <1>2, <2>2, PortsApart
    <3> QED
      BY <1>9, <1>15, <3>1 DEF PortsUsed
  <2> QED
    BY <1>8, <1>15, <2>1, <2>3, <2>4 DEF PortsUsed
<1>21. ConnNumbers'
  <2>1. ASSUME NEW t \in Slots, InUseAt(t)'
        PROVE  Numbered(uip_conns'[t], sent'[uip_conns'[t].lport],
                                       srv'[uip_conns'[t].lport].log)
    <3>1. CASE t = s
      BY <1>4, <1>8, <1>9, <1>12, <1>13, <1>14, <3>1
    <3>2. CASE t # s
      <4>1. uip_conns'[t] = uip_conns[t] /\ InUseAt(t)
        BY <1>14, <2>1, <3>2 DEF InUseAt
      <4>2. uip_conns[t].lport \in HttpPorts
        BY <4>1, InUsePlatform DEF InUseAt
      <4>3. uip_conns[t].lport # p
        BY <1>1, <1>2, <1>15, <3>2, <4>1 DEF PortsUsed, InUseAt, c
      <4> QED
        BY <1>8, <1>9, <1>15, <4>1, <4>2, <4>3 DEF ConnNumbers
    <3> QED
      BY <3>1, <3>2
  <2> QED
    BY <2>1 DEF ConnNumbers
<1>22. ServerNumbers'
  <2>1. Taken(srv[p], m)
    BY <1>3, <1>15 DEF ServerNumbers
  <2>2. Taken(srv[p], n)
    <3>1. Len(l) \in Nat /\ Len(m) \in Nat
      OBVIOUS
    <3>2. Len(l) <= Len(m) /\ \A i \in 1 .. Len(l) : l[i] = m[i]
      BY <1>4, <2>1 DEF Taken
    <3>3. Len(l) <= Len(n) /\ \A i \in 1 .. Len(l) : l[i] = n[i]
      BY <1>7, <3>1, <3>2
    <3> QED
      BY <1>4, <2>1, <3>3 DEF Taken
  <2> QED
    BY <1>8, <1>9, <1>15, <2>2 DEF ServerNumbers
<1>23. DataIsSent'
  <2>1. ASSUME NEW g \in toSrv', g.data # NoData
        PROVE  g.seq \in 1 .. Len(sent'[g.port]) /\ g.data = sent'[g.port][g.seq]
    <3>1. CASE g \in toSrv
      <4>1. g.seq \in 1 .. Len(sent[g.port]) /\ g.data = sent[g.port][g.seq]
        BY <1>15, <2>1, <3>1 DEF DataIsSent
      <4>2. g.port \in HttpPorts
        BY <3>1 DEF TypeInv, TypeOK, Segment
      <4>3. CASE g.port = p
        BY <1>3, <1>7, <1>9, <4>1, <4>3
      <4> QED
        BY <1>9, <4>1, <4>2, <4>3
    <3>2. CASE g.port = p /\ g.data = x /\ g.seq = Len(n)
      <4>1. Len(n) \in 1 .. Len(n)
        BY <1>7
      <4> QED
        BY <1>7, <1>9, <3>2, <4>1
    <3> QED
      BY <1>18, <3>1, <3>2
  <2> QED
    BY <2>1 DEF DataIsSent
<1>24. FinIsLast'
  BY <1>15, <1>18, <1>19 DEF FinIsLast
<1>25. AckIsTaken'
  BY <1>8, <1>15, <1>19 DEF AckIsTaken
<1> QED
  BY <1>20, <1>21, <1>22, <1>23, <1>24, <1>25 DEF TcpInv

\* A segment from the platform.
LEMMA ReceiveKeepsTcp ==
    ASSUME platform, UipAssumption, LinkitAssumption, TypeInv, TcpInv,
           UNCHANGED environment, NEW s \in Slots, NEW seg \in Incoming(s), Receive(s, seg)
    PROVE  TcpInv'
<1>. DEFINE c == uip_conns[s]
<1>1. c.tcpstateflags # "CLOSED" /\ seg \in toDev /\ seg.seq \in Nat /\ c.lport = seg.port
  BY IncomingTypes DEF Incoming
<1>2. PICK p \in HttpPorts : p = c.lport
  BY <1>1, InUsePlatform
<1>3. PICK m \in Seq(Requests) : m = sent[p]
  BY HistoryTypes
<1>4. PICK l \in Seq(Requests) : l = srv[p].log
  BY HistoryTypes
<1>5. /\ c \in Conn /\ c.peer = "platform" /\ c.tcpstateflags # "SYN_RCVD"
      /\ p <= MyHttpPort /\ p \in Ports /\ Numbered(c, m, l)
  BY <1>1, <1>2, <1>3, <1>4, InUsePlatform DEF Ports
<1>6. UNCHANGED <<MyHttpPort, sent, srv, toDev>>
  BY DEF Receive, ReceiveRst, ReceiveOutOfSequence, ReceiveAccepted,
       ReceiveSynAck, ReceiveRefused, ReceiveFin, ReceiveData, ReceiveLastAck, app, net,
       iot_tcp_appcall, app_handle_connection
<1>7. c.tcpstateflags = "ESTABLISHED" /\ AckData(c, seg) => seg.ack <= 1 + Len(l)
  <2>1. ASSUME c.tcpstateflags = "ESTABLISHED", AckData(c, seg) PROVE seg.ack <= 1 + Len(l)
    <3>1. UpOn(p) /\ "ACK" \in seg.flags /\ seg.port = p
      BY <1>1, <1>2, <2>1 DEF UpOn, Up, AckData
    <3>2. seg.ack <= srv[p].rcv
      BY <1>1, <3>1 DEF TcpInv, AckIsTaken
    <3>3. srv[p].rcv <= 1 + Len(l)
      BY <1>4 DEF TcpInv, ServerNumbers, Taken
    <3>4. seg.ack \in Nat
      BY <1>1 DEF TypeInv, TypeOK, Segment
    <3>5. srv[p].rcv \in Nat /\ Len(l) \in Nat
      BY HistoryTypes
    <3> QED
      BY <3>2, <3>3, <3>4, <3>5
  <2> QED
    BY <2>1
<1>. HIDE DEF c
<1>8. ASSUME \A t \in Slots : Follows(uip_conns[t], uip_conns'[t]), UNCHANGED toSrv
      PROVE  TcpInv'
  BY <1>6, <1>8, DeviceStep
<1>9. ASSUME \A t \in Slots : Follows(uip_conns[t], uip_conns'[t]),
             NEW h \in AnySegment, Emit({h}), h.port = p, h.data = NoData,
             "FIN" \notin h.flags
      PROVE  TcpInv'
  <2>1. h.port <= MyHttpPort
    BY <1>5, <1>9
  <2>2. \A g \in toSrv' : \/ g \in toSrv
                          \/ MaySend(g) /\ ("FIN" \in g.flags => ~UpOn(g.port)')
    BY <1>9, <2>1, EmitBare
  <2> QED
    BY <1>6, <1>9, <2>2, DeviceStep
<1>10. \A d : d \in Conn /\ d.lport = p =>
          LET h == Outgoing(d, {"ACK"}, NoData) IN
          h \in AnySegment /\ h.port = p /\ h.data = NoData /\ "FIN" \notin h.flags
  <2>1. ASSUME NEW d \in Conn, d.lport = p, NEW h, h = Outgoing(d, {"ACK"}, NoData)
        PROVE  h \in AnySegment /\ h.port = p /\ h.data = NoData /\ "FIN" \notin h.flags
    <3>1. h \in AnySegment /\ h.port = p
      BY <2>1, OutgoingTypes DEF Data
    <3>2. h.data = NoData /\ h.flags = {"ACK"}
      BY <2>1 DEF Outgoing
    <3> QED
      BY <3>1, <3>2
  <2> QED
    BY <2>1
<1>11. CASE ReceiveRst(s, seg) \/ ReceiveLastAck(s, seg)
  BY <1>8, <1>11, ClosedFollows DEF ReceiveRst, ReceiveLastAck
<1>12. CASE ReceiveOutOfSequence(s, seg)
  <2>1. \A t \in Slots : Follows(uip_conns[t], uip_conns'[t])
    BY <1>12, FollowsItself DEF ReceiveOutOfSequence
  <2>2. PICK h : h = Outgoing(c, {"ACK"}, NoData)
    OBVIOUS
  <2>3. h \in AnySegment /\ h.port = p /\ h.data = NoData /\ "FIN" \notin h.flags
    BY <1>2, <1>5, <1>10, <2>2
  <2>4. Emit({h})
    BY <1>12, <2>2 DEF ReceiveOutOfSequence, c
  <2> QED
    BY <1>9, <2>1, <2>3, <2>4
<1>13. CASE ReceiveSynAck(s, seg)
  <2>1. PICK d : d = Connected(c, seg)
    OBVIOUS
  <2>2. c.tcpstateflags = "SYN_SENT" /\ AckData(c, seg)
    BY <1>13 DEF ReceiveSynAck, c
  <2>3. d \in Conn /\ d.lport = p /\ d.tcpstateflags = "ESTABLISHED"
    BY <1>1, <1>2, <1>5, <2>1, ReceivedTypes, ReceivedStates
  <2>4. Numbered(d, m, l)
    BY <1>1, <1>5, <2>1, <2>2, SegmentNumbers
  <2>5. Follows(c, d)
    BY <1>2, <1>3, <1>4, <2>2, <2>3, <2>4 DEF Follows, BeingUsed
  <2>6. p # CliPort
    BY PortsApart
  <2>7. Becomes(s, d) /\ Emit({Outgoing(d, {"ACK"}, NoData)})
    BY <1>13, <2>1, <2>3, <2>6 DEF ReceiveSynAck, c
  <2>8. \A t \in Slots : Follows(uip_conns[t], uip_conns'[t])
    BY <2>5, <2>7, OneFollows DEF c
  <2>9. PICK h : h = Outgoing(d, {"ACK"}, NoData)
    OBVIOUS
  <2>10. h \in AnySegment /\ h.port = p /\ h.data = NoData /\ "FIN" \notin h.flags
    BY <1>10, <2>3, <2>9
  <2> QED
    BY <1>9, <2>7, <2>8, <2>9, <2>10
<1>14. CASE ReceiveRefused(s, seg)
  <2>1. \A t \in Slots : Follows(uip_conns[t], uip_conns'[t])
    BY <1>14, ClosedFollows DEF ReceiveRefused
  <2>2. PICK h : h = Reset(p)
    OBVIOUS
  <2>3. h \in AnySegment /\ h.port = p /\ h.data = NoData /\ "FIN" \notin h.flags
    BY <1>5, <2>2 DEF Reset, AnySegment, Data
  <2>4. Emit({h})
    BY <1>1, <1>2, <1>14, <2>2 DEF ReceiveRefused
  <2> QED
    BY <1>9, <2>1, <2>3, <2>4
<1>15. CASE ReceiveFin(s, seg)
  <2>1. PICK d : d = PeerClosed(c, seg)
    OBVIOUS
  <2>2. c.tcpstateflags = "ESTABLISHED" /\ ~uip_outstanding(Acked(c, seg))
    BY <1>15 DEF ReceiveFin, c
  <2>3. d \in Conn /\ d.lport = p /\ d.tcpstateflags = "LAST_ACK"
    BY <1>1, <1>2, <1>5, <2>1, ReceivedTypes, ReceivedStates
  <2>4. Numbered(d, m, l)
    BY <1>1, <1>5, <1>7, <2>1, <2>2, SegmentNumbers
  <2>5. Follows(c, d)
    BY <1>2, <1>3, <1>4, <2>2, <2>3, <2>4 DEF Follows, BeingUsed
  <2>6. Becomes(s, d) /\ Emit({Outgoing(d, {"FIN", "ACK"}, NoData)})
    BY <1>15, <2>1 DEF ReceiveFin, c
  <2>7. \A t \in Slots : Follows(uip_conns[t], uip_conns'[t])
    BY <2>5, <2>6, OneFollows DEF c
  <2>8. PICK h : h = Outgoing(d, {"FIN", "ACK"}, NoData)
    OBVIOUS
  <2>9. h \in AnySegment /\ h.port = p /\ h.data = NoData
    <3>1. h \in AnySegment /\ h.port = p
      BY <2>3, <2>8, OutgoingTypes DEF Data
    <3>2. h.data = NoData
      BY <2>8 DEF Outgoing
    <3> QED
      BY <3>1, <3>2
  <2>10. ~UpOn(p)'
    BY <1>1, <1>2, <2>3, <2>6, AloneOnPort DEF BeingUsed, c
  <2>11. \A g \in toSrv' : g \in toSrv \/ (MaySend(g) /\ ~UpOn(g.port)')
    BY <1>5, <2>6, <2>8, <2>9, <2>10, EmitOne DEF MaySend
  <2> QED
    BY <1>6, <2>7, <2>11, DeviceStep
<1>16. CASE ReceiveData(s, seg)
  <2>1. PICK d : d = Received(c, seg)
    OBVIOUS
  <2>2. c.tcpstateflags = "ESTABLISHED"
    BY <1>16 DEF ReceiveData, c
  <2>3. d \in Conn /\ d.lport = p /\ d.tcpstateflags = "ESTABLISHED"
    BY <1>1, <1>2, <1>5, <2>1, <2>2, ReceivedTypes, ReceivedStates
  <2>4. Numbered(d, m, l)
    BY <1>1, <1>5, <1>7, <2>1, <2>2, SegmentNumbers
  <2>5. Follows(c, d)
    BY <1>2, <1>3, <1>4, <2>2, <2>3, <2>4 DEF Follows, BeingUsed
  <2>6. /\ Becomes(s, d)
        /\ Emit(IF DataLen(seg) > 0 THEN {Outgoing(d, {"ACK"}, NoData)} ELSE {})
    BY <1>16, <2>1 DEF ReceiveData, c
  <2>7. \A t \in Slots : Follows(uip_conns[t], uip_conns'[t])
    BY <2>5, <2>6, OneFollows DEF c
  <2>8. PICK h : h = Outgoing(d, {"ACK"}, NoData)
    OBVIOUS
  <2>9. h \in AnySegment /\ h.port = p /\ h.data = NoData /\ "FIN" \notin h.flags
    BY <1>10, <2>3, <2>8
  <2>10. CASE Emit({h})
    BY <1>9, <2>7, <2>9, <2>10
  <2>11. CASE Emit({})
    <3>1. UNCHANGED toSrv
      BY <2>11 DEF Emit
    <3> QED
      BY <1>8, <2>7, <3>1
  <2> QED
    BY <2>6, <2>8, <2>10, <2>11
<1>17. ~ReceiveAccepted(s, seg)
  BY <1>5 DEF ReceiveAccepted, c
<1> QED
  BY <1>11, <1>12, <1>13, <1>14, <1>15, <1>16, <1>17 DEF Receive

\* A segment for no connection is answered by a reset.
LEMMA NoConnectionKeepsTcp ==
    ASSUME platform, TypeInv, TcpInv, UNCHANGED environment,
           NEW seg \in toDev, NoConnection(seg)
    PROVE  TcpInv'
<1>1. seg.port \in HttpPorts /\ seg.port <= MyHttpPort
  BY DEF TypeInv, TypeOK, Segment, TcpInv, PortsUsed
<1>2. PICK h : h = Reset(seg.port)
  OBVIOUS
<1>3. h \in AnySegment /\ h.port = seg.port /\ h.data = NoData /\ "FIN" \notin h.flags
  BY <1>1, <1>2 DEF Reset, AnySegment, Data, Ports
<1>4. Emit({h}) /\ UNCHANGED <<uip_conns, MyHttpPort, sent, srv, toDev>>
  BY <1>2 DEF NoConnection, app, net
<1>5. \A g \in toSrv' : \/ g \in toSrv
                        \/ MaySend(g) /\ ("FIN" \in g.flags => ~UpOn(g.port)')
  BY <1>1, <1>3, <1>4, EmitBare
<1>6. \A t \in Slots : Follows(uip_conns[t], uip_conns'[t])
  BY <1>4, FollowsItself
<1> QED
  BY <1>4, <1>5, <1>6, DeviceStep

\* A new connection takes a new port, on which nothing has been sent.
LEMMA InitConnectionKeepsTcp ==
    ASSUME platform, UipAssumption, LinkitAssumption, TypeInv, TcpInv,
           NEW conns \in [Slots -> Conn],
           \A t \in Slots : conns[t].tcpstateflags = "CLOSED" \/ conns[t] = uip_conns[t],
           app_init_connection(conns), UNCHANGED <<environment, sent, srv, toDev, toSrv>>
    PROVE  TcpInv'
<1>1. PICK n \in Slots : n = Min(Unused(conns)) /\ conns[n].tcpstateflags = "CLOSED"
  BY TakesUnused DEF app_init_connection
<1>2. PICK p \in HttpPorts : p = MyHttpPort + 1
  BY DEF app_init_connection, HasPort
<1>3. MyHttpPort' = p /\ MyHttpPort \in Nat /\ HttpPorts \subseteq Nat
  BY <1>2, PortsApart DEF app_init_connection, TypeInv, TypeOK
<1>4. PICK d : d = [conns[n] EXCEPT !.tcpstateflags = "SYN_SENT",
                       !.lport = p, !.peer = environment,
                       !.snd_nxt = 0, !.len = 1, !.nrtx = 0]
  OBVIOUS
<1>5. d.lport = p /\ d.tcpstateflags = "SYN_SENT" /\ d.snd_nxt = 0 /\ d.len = 1
  <2>1. conns[n] \in Conn
    OBVIOUS
  <2> QED
    BY <1>4, <2>1 DEF Conn
<1>6. \A t \in Slots : uip_conns'[t] = IF t = n THEN d ELSE conns[t]
  BY <1>1, <1>2, <1>4 DEF app_init_connection, uip_connect
<1>7. PortsUsed /\ ConnNumbers /\ ServerNumbers /\ DataIsSent /\ FinIsLast /\ AckIsTaken
  BY DEF TcpInv
<1>8. sent[p] = <<>>
  BY <1>2, <1>3, <1>7 DEF PortsUsed
<1>9. \A t \in Slots : t # n /\ InUseAt(t)' =>
         /\ uip_conns'[t] = uip_conns[t] /\ InUseAt(t)
         /\ uip_conns[t].lport <= MyHttpPort /\ uip_conns[t].lport \in HttpPorts
  <2>1. ASSUME NEW t \in Slots, t # n, InUseAt(t)'
        PROVE  /\ uip_conns'[t] = uip_conns[t] /\ uip_conns[t].tcpstateflags # "CLOSED"
               /\ uip_conns[t].lport <= MyHttpPort /\ uip_conns[t].lport \in HttpPorts
    <3>1. uip_conns'[t] = uip_conns[t] /\ uip_conns[t].tcpstateflags # "CLOSED"
      BY <1>6, <2>1 DEF InUseAt
    <3> QED
      BY <3>1, InUsePlatform
  <2> QED
    BY <2>1 DEF InUseAt
<1>10. \A q \in HttpPorts : q <= MyHttpPort => q # p /\ q <= p
  BY <1>2, <1>3
<1>11. \A q \in HttpPorts : q <= MyHttpPort => (UpOn(q)' => UpOn(q))
  <2>1. ASSUME NEW q \in HttpPorts, q <= MyHttpPort, NEW t \in Slots, Up(uip_conns'[t], q)
        PROVE  UpOn(q)
    <3>1. t # n
      BY <1>5, <1>6, <1>10, <2>1 DEF Up
    <3>2. InUseAt(t)'
      BY <2>1 DEF Up, InUseAt
    <3> QED
      BY <1>9, <2>1, <3>1, <3>2 DEF UpOn
  <2> QED
    BY <2>1 DEF UpOn
<1>12. \A seg \in toSrv \cup toDev : seg.port \in HttpPorts /\ seg.port <= MyHttpPort
  BY <1>7 DEF TypeInv, TypeOK, Segment, PortsUsed
<1>13. PortsUsed'
  <2>1. \A t \in Slots : InUseAt(t)' => uip_conns'[t].lport <= p
    BY <1>3, <1>5, <1>6, <1>9, <1>10 DEF InUseAt
  <2>2. \A t \in Slots : t # n /\ InUseAt(t)' => uip_conns'[t].lport # uip_conns'[n].lport
    BY <1>5, <1>6, <1>9, <1>10
  <2>3. ASSUME NEW t \in Slots, NEW u \in Slots, InUseAt(t)', InUseAt(u)',
               uip_conns'[t].lport = uip_conns'[u].lport
        PROVE  t = u
    <3>1. t = n \/ u = n => t = u
      BY <2>2, <2>3
    <3>2. t # n /\ u # n => t = u
      BY <1>7, <1>9, <2>3 DEF PortsUsed
    <3> QED
      BY <3>1, <3>2
  <2>4. \A seg \in toSrv \cup toDev : seg.port <= p
    BY <1>10, <1>12
  <2>5. \A q \in HttpPorts : q > p => sent[q] = <<>>
    BY <1>2, <1>3, <1>7 DEF PortsUsed
  <2> QED
    BY <1>3, <2>1, <2>3, <2>4, <2>5 DEF PortsUsed
<1>14. ConnNumbers'
  <2>1. Numbered(d, <<>>, srv[p].log)
    BY <1>5 DEF Numbered
  <2> QED
    BY <1>5, <1>6, <1>7, <1>8, <1>9, <2>1 DEF ConnNumbers
<1>15. ServerNumbers' /\ DataIsSent'
  BY <1>7 DEF ServerNumbers, DataIsSent
<1>16. FinIsLast'
  BY <1>7, <1>11, <1>12 DEF FinIsLast
<1>17. AckIsTaken'
  BY <1>7, <1>11, <1>12 DEF AckIsTaken
<1> QED
  BY <1>13, <1>14, <1>15, <1>16, <1>17 DEF TcpInv

-----------------------------------------------------------------------------
(* Steps of the platform *)

\* The platform's record of a connection moves on, within what was sent; and
\* what it acknowledges it has taken.
LEMMA ServerStepKeepsTcp ==
    ASSUME platform, LinkitAssumption, TypeInv, TcpInv, UNCHANGED environment,
           NEW p \in HttpPorts, p <= MyHttpPort,
           NEW r \in ServerRecord, NEW segs, ServerStep(p, r, segs),
           Taken(r, sent[p]), r.rcv >= srv[p].rcv, Len(r.log) >= Len(srv[p].log),
           \A g \in segs : g.port = p /\ ("ACK" \in g.flags => g.ack <= r.rcv \/ ~UpOn(p))
    PROVE  TcpInv'
<1>1. PortsUsed /\ ConnNumbers /\ ServerNumbers /\ DataIsSent /\ FinIsLast /\ AckIsTaken
  BY DEF TcpInv
<1>2. /\ UNCHANGED <<uip_conns, MyHttpPort, sent, toSrv>>
      /\ toDev' = toDev \cup segs
  BY DEF ServerStep, app
<1>3. srv'[p] = r /\ \A q \in HttpPorts : q # p => srv'[q] = srv[q]
  BY DEF ServerStep, TypeInv, TypeOK
<1>4. PortsUsed'
  BY <1>1, <1>2 DEF PortsUsed, InUseAt
<1>5. ConnNumbers'
  <2>1. ASSUME NEW t \in Slots, InUseAt(t)
        PROVE  Numbered(uip_conns[t], sent[uip_conns[t].lport],
                                      srv'[uip_conns[t].lport].log)
    <3>1. PICK c \in Conn : c = uip_conns[t]
      BY DEF TypeInv, TypeOK
    <3>2. PICK q \in HttpPorts : q = c.lport
      BY <2>1, <3>1, InUsePlatform DEF InUseAt
    <3>3. Numbered(c, sent[q], srv[q].log)
      BY <1>1, <2>1, <3>1, <3>2 DEF ConnNumbers
    <3>4. CASE q = p
      <4>1. PICK l \in Seq(Requests) : l = srv[p].log
        BY HistoryTypes
      <4>2. PICK k \in Seq(Requests) : k = r.log
        BY DEF ServerRecord
      <4>3. Len(k) >= Len(l) /\ Len(k) \in Nat /\ Len(l) \in Nat /\ c.snd_nxt \in Nat
        BY <3>1, <4>1, <4>2 DEF Conn
      <4>4. c.snd_nxt <= 1 + Len(l) => c.snd_nxt <= 1 + Len(k)
        BY <4>3
      <4>5. Numbered(c, sent[q], k)
        BY <3>3, <3>4, <4>1, <4>4 DEF Numbered
      <4> QED
        BY <1>3, <3>1, <3>2, <3>4, <4>2, <4>5
    <3> QED
      BY <1>3, <3>1, <3>2, <3>3, <3>4
  <2> QED
    BY <1>2, <2>1 DEF ConnNumbers, InUseAt
<1>6. ServerNumbers'
  BY <1>1, <1>2, <1>3 DEF ServerNumbers
<1>7. DataIsSent' /\ FinIsLast'
  BY <1>1, <1>2 DEF DataIsSent, FinIsLast, UpOn
<1>8. AckIsTaken'
  <2>1. ASSUME NEW g \in toDev \cup segs, "ACK" \in g.flags, UpOn(g.port)
        PROVE  g.ack <= srv'[g.port].rcv
    <3>1. CASE g \in segs
      BY <1>3, <2>1, <3>1
    <3>2. CASE g \in toDev
      <4>1. g.ack <= srv[g.port].rcv
        BY <1>1, <2>1, <3>2 DEF AckIsTaken
      <4>2. g.port \in HttpPorts /\ g.ack \in Nat
        BY <3>2 DEF TypeInv, TypeOK, Segment
      <4>3. CASE g.port = p
        <5>1. srv[p].rcv \in Nat /\ r.rcv \in Nat
          BY HistoryTypes DEF ServerRecord
        <5>2. g.ack <= r.rcv
          BY <4>1, <4>2, <4>3, <5>1
        <5> QED
          BY <1>3, <4>3, <5>2
      <4> QED
        BY <1>3, <4>1, <4>2, <4>3
    <3> QED
      BY <2>1, <3>1, <3>2
  <2>2. \A g \in toDev \cup segs :
           "ACK" \in g.flags => g.ack <= srv'[g.port].rcv \/ ~UpOn(g.port)
    BY <2>1
  <2>3. \A port : UpOn(port)' <=> UpOn(port)
    BY <1>2 DEF UpOn
  <2> QED
    BY <1>2, <2>2, <2>3 DEF AckIsTaken
<1> QED
  BY <1>4, <1>5, <1>6, <1>7, <1>8 DEF TcpInv

\* What the platform has been sent is numbered as the gateway numbered it: the
\* segment it takes is the next request.
LEMMA TakesNext ==
    ASSUME NEW r \in ServerRecord, NEW m \in Seq(Requests), Taken(r, m),
           r.state \in {"open", "closing"}, r.rcv \in 1 .. Len(m),
           NEW d \in ServerRecord, d.state = r.state, d.rcv = r.rcv + 1,
           d.log = Append(r.log, m[r.rcv])
    PROVE  Taken(d, m) /\ Len(d.log) >= Len(r.log)
<1>1. PICK l \in Seq(Requests) : l = r.log
  BY DEF ServerRecord
<1>2. PICK x \in Requests : x = m[r.rcv]
  OBVIOUS
<1>3. PICK k \in Seq(Requests) : k = Append(l, x)
  <2>1. Append(l, x) \in Seq(Requests)
    OBVIOUS
  <2> QED
    BY <2>1
<1>4. Len(k) = Len(l) + 1 /\ k[Len(l) + 1] = x /\ \A i \in 1 .. Len(l) : k[i] = l[i]
  BY <1>3
<1>5. Len(l) \in Nat /\ Len(m) \in Nat /\ r.rcv = 1 + Len(l) /\ Len(l) <= Len(m)
      /\ \A i \in 1 .. Len(l) : l[i] = m[i]
  BY <1>1 DEF Taken
<1>6. Len(k) <= Len(m) /\ d.rcv = 1 + Len(k)
  BY <1>4, <1>5
<1>7. \A i \in 1 .. Len(k) : k[i] = m[i]
  <2>1. ASSUME NEW i \in 1 .. Len(k) PROVE i \in 1 .. Len(l) \/ i = Len(l) + 1
    BY <1>4, <1>5
  <2> QED
    BY <1>2, <1>4, <1>5, <2>1
<1>8. d.log = k
  BY <1>1, <1>2, <1>3
<1>9. d.rcv <= 1 + Len(k) /\ Len(k) >= Len(l)
  BY <1>4, <1>5, <1>6
<1> QED
  BY <1>1, <1>6, <1>7, <1>8, <1>9 DEF Taken

\* Every step of the platform.
LEMMA ServerKeepsTcp ==
    ASSUME platform, LinkitAssumption, TypeInv, TcpInv, UNCHANGED environment,
           NEW p \in HttpPorts, Server(p)
    PROVE  TcpInv'
<1>. DEFINE r == srv[p]
<1>1. PICK m \in Seq(Requests) : m = sent[p]
  BY HistoryTypes
<1>2. r \in ServerRecord /\ r.rcv \in Nat /\ r.log \in Seq(Requests) /\ Len(r.log) \in Nat
      /\ srv \in [HttpPorts -> ServerRecord]
  BY HistoryTypes DEF TypeInv, TypeOK, ServerRecord
<1>3. Taken(r, m)
  BY <1>1 DEF TcpInv, ServerNumbers
<1>4. \A seg \in toSrv : seg.port <= MyHttpPort
  BY DEF TcpInv, PortsUsed
<1>5. p <= MyHttpPort
  <2>1. CASE Matches(p) # {}
    BY <2>1, InUsePlatform DEF Matches
  <2>2. CASE \E seg \in toSrv : seg.port = p
    BY <1>4, <2>2
  <2> QED
    BY <2>1, <2>2 DEF Server
<1>. HIDE DEF r
<1>6. ASSUME NEW d \in ServerRecord, d.rcv = r.rcv, d.log = r.log,
             d.state = r.state \/ (d.state = "closing" /\ r.state = "open")
                               \/ d.state = "gone",
             NEW segs, ServerStep(p, d, segs),
             \A g \in segs : g.port = p /\ ("ACK" \in g.flags => g.ack <= d.rcv \/ ~UpOn(p))
      PROVE  TcpInv'
  <2>1. Taken(d, m)
    BY <1>3, <1>6 DEF Taken
  <2>2. d.rcv >= srv[p].rcv /\ Len(d.log) >= Len(srv[p].log)
    BY <1>2, <1>6 DEF r
  <2> QED
    BY <1>1, <1>5, <1>6, <2>1, <2>2, ServerStepKeepsTcp
<1>7. PICK gone : gone = Gone(p)
  OBVIOUS
<1>8. gone \in ServerRecord /\ gone.rcv = r.rcv /\ gone.log = r.log /\ gone.state = "gone"
  <2>1. gone = [r EXCEPT !.state = "gone"]
    BY <1>7 DEF Gone, r
  <2> QED
    BY <1>2, <2>1 DEF ServerRecord
<1>9. PICK rst : rst = Reset(p)
  OBVIOUS
<1>10. rst.port = p /\ "ACK" \notin rst.flags
  BY <1>9 DEF Reset
<1>11. ASSUME ServerStep(p, Gone(p), {Reset(p)}) \/ ServerStep(p, Gone(p), {})
              \/ ServerStep(p, srv[p], {Reset(p)})
       PROVE  TcpInv'
  <2>1. CASE ServerStep(p, gone, {rst})
    BY <1>6, <1>8, <1>10, <2>1
  <2>2. CASE ServerStep(p, gone, {})
    BY <1>6, <1>8, <2>2
  <2>3. CASE ServerStep(p, r, {rst})
    BY <1>2, <1>6, <1>10, <2>3
  <2> QED
    BY <1>7, <1>9, <1>11, <2>1, <2>2, <2>3 DEF r
<1>12. ASSUME NEW flags, NEW data PROVE
          /\ Answer(p, flags, data).port = p /\ Answer(p, flags, data).ack = r.rcv
          /\ Answer(p, flags, data).flags = flags
          /\ \A n : [Answer(p, flags, data) EXCEPT !.ack = n].port = p
          /\ \A n : [Answer(p, flags, data) EXCEPT !.ack = n].ack = n
  BY DEF Answer, r
<1>13. CASE ServerRespond(p)
  <2>1. PICK d : d = [r EXCEPT !.nxt = r.nxt + 1]
    OBVIOUS
  <2>2. r.nxt + 1 \in Nat
    BY <1>2 DEF ServerRecord
  <2>3. d \in ServerRecord /\ d.rcv = r.rcv /\ d.log = r.log /\ d.state = r.state
    <3>1. PICK n \in Nat : n = r.nxt + 1
      BY <2>2
    <3> QED
      BY <1>2, <2>1, <3>1 DEF ServerRecord
  <2>4. PICK a : a = Answer(p, {"ACK"}, 1)
    OBVIOUS
  <2>5. a.port = p /\ a.ack <= d.rcv
    BY <1>2, <1>12, <2>3, <2>4
  <2>6. ServerStep(p, d, {a})
    BY <1>13, <2>1, <2>4 DEF ServerRespond, r
  <2> QED
    BY <1>6, <2>3, <2>5, <2>6
<1>14. CASE ServerClose(p)
  <2>1. PICK d : d = [r EXCEPT !.state = "closing"]
    OBVIOUS
  <2>2. d \in ServerRecord /\ d.rcv = r.rcv /\ d.log = r.log /\ d.state = "closing"
    BY <1>2, <2>1 DEF ServerRecord
  <2>3. PICK a : a = Answer(p, {"FIN", "ACK"}, NoData)
    OBVIOUS
  <2>4. a.port = p /\ a.ack <= d.rcv
    BY <1>2, <1>12, <2>2, <2>3
  <2>5. ServerStep(p, d, {a}) /\ r.state = "open"
    BY <1>14, <2>1, <2>3 DEF ServerClose, r
  <2> QED
    BY <1>6, <2>2, <2>4, <2>5
<1>15. ASSUME NEW seg \in toSrv, seg.port = p, ServerData(p, seg) PROVE TcpInv'
  <2>1. /\ r.state \in {"open", "closing"} /\ seg.seq = r.rcv
        /\ seg.seq \in 1 .. Len(m) /\ seg.data = m[r.rcv]
    BY <1>1, <1>15 DEF ServerData, TcpInv, DataIsSent, r
  <2>2. CASE ServerStep(p, Gone(p), {Reset(seg.port)})
    BY <1>11, <1>15, <2>2
  <2>3. PICK n \in Nat : n = r.rcv + 1
    BY <1>2
  <2>4. PICK l \in Seq(Requests) : l = Append(r.log, seg.data)
    <3>1. seg.data \in Requests
      BY <2>1
    <3>2. Append(r.log, seg.data) \in Seq(Requests)
      BY <1>2, <3>1
    <3> QED
      BY <3>2
  <2>5. PICK d : d = [r EXCEPT !.rcv = n, !.log = l]
    OBVIOUS
  <2>6. d \in ServerRecord /\ d.rcv = n /\ d.log = l /\ d.state = r.state
    BY <1>2, <2>5 DEF ServerRecord
  <2>7. Taken(d, m) /\ Len(d.log) >= Len(r.log)
    BY <1>2, <1>3, <2>1, <2>3, <2>4, <2>6, TakesNext
  <2>8. PICK a : a = [Answer(p, {"ACK"}, NoData) EXCEPT !.ack = n]
    OBVIOUS
  <2>9. a.port = p /\ a.ack = n
    BY <1>12, <2>8
  <2>10. CASE ServerStep(p, d, {a})
    <3>1. d.rcv >= srv[p].rcv /\ a.ack <= d.rcv
      BY <1>2, <2>3, <2>6, <2>9 DEF r
    <3>2. Taken(d, sent[p]) /\ Len(d.log) >= Len(srv[p].log)
      BY <1>1, <2>7 DEF r
    <3>3. PICK segs : segs = {a}
      OBVIOUS
    <3>4. \A g \in segs : g.port = p /\ ("ACK" \in g.flags => g.ack <= d.rcv \/ ~UpOn(p))
      BY <2>9, <3>1, <3>3
    <3>5. ServerStep(p, d, segs)
      BY <2>10, <3>3
    <3> QED
      BY <1>5, <2>6, <3>1, <3>2, <3>4, <3>5, ServerStepKeepsTcp
  <2>11. a = [Answer(p, {"ACK"}, NoData) EXCEPT !.ack = @ + 1]
    BY <1>12, <2>3, <2>8
  <2> QED
    BY <1>15, <2>2, <2>3, <2>4, <2>5, <2>10, <2>11 DEF ServerData, r
<1>16. ASSUME NEW seg \in toSrv, seg.port = p, ServerSyn(p, seg) PROVE TcpInv'
  <2>1. r.state = "listen" /\ r.rcv = 0 /\ r.log = <<>>
    BY <1>3, <1>16 DEF ServerSyn, Taken, r
  <2>2. CASE ServerStep(p, Gone(p), {Reset(seg.port)})
    BY <1>11, <1>16, <2>2
  <2>3. PICK d : d = [r EXCEPT !.state = "open", !.rcv = 1, !.nxt = 1]
    OBVIOUS
  <2>4. d \in ServerRecord /\ d.rcv = 1 /\ d.log = <<>> /\ d.state = "open"
    BY <1>2, <2>1, <2>3 DEF ServerRecord
  <2>5. Taken(d, m)
    BY <2>4 DEF Taken
  <2>6. PICK a : a = [Answer(p, {"SYN", "ACK"}, NoData) EXCEPT !.ack = 1]
    OBVIOUS
  <2>7. a.port = p /\ a.ack = 1
    BY <1>12, <2>6
  <2>8. CASE ServerStep(p, d, {a})
    <3>1. d.rcv >= srv[p].rcv /\ a.ack <= d.rcv /\ Len(d.log) >= Len(srv[p].log)
      BY <2>1, <2>4, <2>7 DEF r
    <3>2. Taken(d, sent[p])
      BY <1>1, <2>5
    <3>3. PICK segs : segs = {a}
      OBVIOUS
    <3>4. \A g \in segs : g.port = p /\ ("ACK" \in g.flags => g.ack <= d.rcv \/ ~UpOn(p))
      BY <2>7, <3>1, <3>3
    <3>5. ServerStep(p, d, segs)
      BY <2>8, <3>3
    <3> QED
      BY <1>5, <2>4, <3>1, <3>2, <3>4, <3>5, ServerStepKeepsTcp
  <2> QED
    BY <1>16, <2>2, <2>3, <2>6, <2>8 DEF ServerSyn, r
<1>17. ASSUME NEW seg \in toSrv, seg.port = p, ServerFin(p, seg) PROVE TcpInv'
  <2>1. ~UpOn(p)
    BY <1>17 DEF ServerFin, TcpInv, FinIsLast
  <2>2. PICK n : n = r.rcv + 1
    OBVIOUS
  <2>3. PICK a : a = [Answer(p, {"ACK"}, NoData) EXCEPT !.ack = n]
    OBVIOUS
  <2>4. a.port = p
    BY <1>12, <2>3
  <2>5. a = [Answer(p, {"ACK"}, NoData) EXCEPT !.ack = @ + 1]
    BY <1>12, <2>2, <2>3
  <2>6. ServerStep(p, gone, {a})
    BY <1>7, <1>17, <2>5 DEF ServerFin
  <2> QED
    BY <1>6, <1>8, <2>1, <2>4, <2>6
<1>18. ASSUME NEW seg \in toSrv, seg.port = p, ServerRst(p, seg) \/ ServerNoConnection(p, seg)
       PROVE  TcpInv'
  BY <1>11, <1>18 DEF ServerRst, ServerNoConnection
<1>19. CASE ServerReset(p)
  BY <1>11, <1>19 DEF ServerReset
<1> QED
  BY <1>13, <1>14, <1>15, <1>16, <1>17, <1>18, <1>19 DEF Server

-----------------------------------------------------------------------------
(* The invariant and the theorems *)

\* Every step keeps TcpInv.
LEMMA NextKeepsTcp ==
    ASSUME UipAssumption, LinkitAssumption, TypeInv, TcpInv, [Next]_vars
    PROVE  TcpInv'
<1>0. UNCHANGED environment
  BY DEF Next, vars
<1>1. CASE ~platform
  BY <1>0, <1>1 DEF TcpInv, platform
<1>2. CASE platform
  <2>1. uip_conns \in [Slots -> Conn]
    BY DEF TypeInv, TypeOK
  <2>2. ASSUME UNCHANGED <<uip_conns, MyHttpPort, sent, srv, toDev, toSrv>> PROVE TcpInv'
    BY <1>0, <1>2, <2>2, FollowsItself, DeviceStep
  <2>3. CASE UNCHANGED vars
    BY <2>2, <2>3 DEF vars, app, net
  <2>4. CASE Post
    <3>1. UNCHANGED <<sent, srv, toDev, toSrv>>
      BY <2>4 DEF Post, net
    <3>2. CASE app_init_connection(uip_conns)
      BY <1>0, <1>2, <2>1, <3>1, <3>2, InitConnectionKeepsTcp
    <3>3. CASE UNCHANGED <<uip_conns, MyHttpPort>>
      BY <2>2, <3>1, <3>3
    <3> QED
      BY <2>4, <3>2, <3>3 DEF Post
  <2>5. CASE tcpip_init
    <3>1. PICK conns : conns = [s \in Slots |-> Unopened]
      OBVIOUS
    <3>2. conns \in [Slots -> Conn] /\ \A t \in Slots : conns[t].tcpstateflags = "CLOSED"
      BY <3>1 DEF Unopened, Conn, States, Peers, NoData
    <3>3. app_init_connection(conns) /\ UNCHANGED <<sent, srv, toDev, toSrv>>
      BY <2>5, <3>1 DEF tcpip_init, net
    <3> QED
      BY <1>0, <1>2, <3>2, <3>3, InitConnectionKeepsTcp
  <2>6. CASE iot_linkdown
    BY <2>2, <2>6 DEF iot_linkdown, app, net
  <2>7. ~CliTimer /\ ~Accept
    BY <1>2 DEF CliTimer, Accept
  <2> QED
    BY <1>0, <1>2, <2>3, <2>4, <2>5, <2>6, <2>7, TimerKeepsTcp, PollKeepsTcp,
       ReceiveKeepsTcp, NoConnectionKeepsTcp, ServerKeepsTcp DEF Next, Step, Periodic
<1> QED
  BY <1>1, <1>2

\* Nothing has been sent at the start.
LEMMA InitTcp ==
    ASSUME LinkitAssumption, Init
    PROVE  SentOnce /\ TcpInv
<1>1. \A s \in Slots : uip_conns[s].tcpstateflags = "CLOSED"
  BY DEF Init, Unopened
<1>2. \A p \in HttpPorts : sent[p] = <<>> /\ srv[p] = [state |-> "listen", rcv |-> 0,
                                                     nxt |-> 0, log |-> <<>>]
  BY DEF Init
<1>3. SentOnce
  BY <1>2 DEF Init, SentOnce, NoData
<1>4. PortsUsed /\ ConnNumbers
  BY <1>1, <1>2 DEF Init, PortsUsed, ConnNumbers, InUseAt
<1>5. ServerNumbers
  BY <1>2 DEF ServerNumbers, Taken
<1>6. DataIsSent /\ FinIsLast /\ AckIsTaken
  BY DEF Init, DataIsSent, FinIsLast, AckIsTaken
<1> QED
  BY <1>3, <1>4, <1>5, <1>6 DEF TcpInv

\* So both are invariants.
LEMMA TcpInvariance == Spec => [](TypeInv /\ SentOnce /\ TcpInv)
<1>1. Init => TypeInv /\ SentOnce /\ TcpInv
  BY InitTypes, InitTcp, UipAssumption, LinkitAssumption
<1>2. TypeInv /\ SentOnce /\ TcpInv /\ [Next]_vars => TypeInv' /\ SentOnce' /\ TcpInv'
  BY NextTypes, NextKeepsSentOnce, NextKeepsTcp, UipAssumption, LinkitAssumption
<1> QED
  BY <1>1, <1>2, PTL DEF Spec

\* The platform receives, on each connection, a beginning of what SendData gave
\* to uip_send on it, however segments are lost, repeated and delayed; and no
\* request is sent on two connections (SendData, uip_process).
THEOREM ReceivedInOrderHolds == Spec => []ReceivedInOrder
<1>1. TypeInv /\ SentOnce /\ TcpInv => ReceivedInOrder
  <2>1. ASSUME TypeInv, TcpInv, platform, NEW p \in HttpPorts
        PROVE  IsPrefix(srv[p].log, sent[p])
    <3>1. PICK l \in Seq(Requests) : l = srv[p].log
      BY <2>1, HistoryTypes
    <3>2. PICK m \in Seq(Requests) : m = sent[p]
      BY <2>1, HistoryTypes
    <3>3. Len(l) <= Len(m) /\ \A i \in 1 .. Len(l) : l[i] = m[i]
      BY <2>1, <3>1, <3>2 DEF TcpInv, ServerNumbers, Taken
    <3>4. SubSeq(l, 1, Len(l)) = SubSeq(m, 1, Len(l))
      BY <3>3
    <3> QED
      BY <3>1, <3>2, <3>3, <3>4 DEF IsPrefix
  <2> QED
    BY <2>1 DEF ReceivedInOrder, SentOnce
<1> QED
  BY <1>1, TcpInvariance, PTL

\* A request whose copy in rexmit_buf has been given up, on a connection that
\* was not aborted, has reached the platform: the acknowledgement that cleared
\* it was the platform's, of that request (_uip_process).
THEOREM DeliveredWasReceivedHolds == Spec => []DeliveredWasReceived
<1>1. TypeInv /\ TcpInv => DeliveredWasReceived
  <2>1. ASSUME TypeInv, TcpInv, NEW s \in Slots, NEW c, c = uip_conns[s],
               c.peer = "platform", c.tcpstateflags \in {"ESTABLISHED", "LAST_ACK"}
        PROVE  Len(srv[c.lport].log) >= TakenAsDelivered(c)
    <3>1. platform
      BY <2>1 DEF TypeInv, ConnFits
    <3>2. PICK p \in HttpPorts : p = c.lport
      BY <2>1, <3>1, InUsePlatform
    <3>3. PICK l \in Seq(Requests) : l = srv[p].log
      BY <2>1, HistoryTypes
    <3>4. PICK m \in Seq(Requests) : m = sent[p]
      BY <2>1, HistoryTypes
    <3>5. c \in Conn /\ Numbered(c, m, l)
      BY <2>1, <3>1, <3>2, <3>3, <3>4, InUsePlatform
    <3>6. c.snd_nxt \in Nat /\ c.len \in {0, 1} /\ Len(l) \in Nat /\ Len(m) \in Nat
      BY <3>5 DEF Conn
    <3>7. CASE c.tcpstateflags = "ESTABLISHED"
      <4>1. c.snd_nxt + c.len = 1 + Len(m) /\ c.snd_nxt <= 1 + Len(l)
        BY <3>5, <3>7 DEF Numbered
      <4>2. TakenAsDelivered(c) = Len(m) - c.len
        <5>1. CASE c.len = 0
          BY <3>2, <3>4, <3>6, <5>1 DEF TakenAsDelivered, uip_outstanding
        <5>2. CASE c.len = 1
          BY <3>2, <3>4, <3>6, <3>7, <5>2 DEF TakenAsDelivered, uip_outstanding
        <5> QED
          BY <3>6, <5>1, <5>2
      <4>3. Len(l) >= Len(m) - c.len
        BY <3>6, <4>1
      <4> QED
        BY <3>2, <3>3, <4>2, <4>3
    <3>8. CASE c.tcpstateflags = "LAST_ACK"
      BY <3>2, <3>3, <3>4, <3>5, <3>6, <3>8 DEF TakenAsDelivered, Numbered
    <3> QED
      BY <2>1, <3>7, <3>8
  <2> QED
    BY <2>1 DEF DeliveredWasReceived
<1> QED
  BY <1>1, TcpInvariance, PTL
=============================================================================
