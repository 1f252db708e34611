------------------------------- MODULE Linkit -------------------------------
(***************************************************************************)
(* The Datonis gateway of the Linkit 7681 over HTTP.  One thread           *)
(* (wifiTASK_LowPrioTask) receives segments, runs the TCP timers and calls *)
(* the application in turn; uIP calls the gateway back from the first two. *)
(* The gateway has one buffer for a request, one flag that says whether    *)
(* the connection can be used, and shares the connection table with the    *)
(* connection to the IoT server (port 7682) and with clients of the        *)
(* listening port 7681.                                                    *)
(*                                                                         *)
(* There are two environments.  In the first the device has only its       *)
(* connection to the platform, over a network that loses, delays,          *)
(* duplicates and reorders: a segment once sent may be received at any     *)
(* time, any number of times.  In the second there are connections on all  *)
(* ports, and whoever is at their other ends sends anything at any time.   *)
(***************************************************************************)
EXTENDS Uip, Sequences, SequencesExt

CONSTANTS
    Environments,  \* "platform", "anyone", or both
    HttpPorts,     \* the local ports of connections to the platform
    MaxRequests,   \* requests the application posts
    MaxResponses   \* segments of data the platform sends on one connection

CliPort == 7682
SrvPort == 7681
NoFd == -1
Requests == 1 .. MaxRequests

\* Local ports are numbered in the order in which they are taken.
ASSUME LinkitAssumption ==
    /\ Environments \subseteq Peers
    /\ \E n \in 1 .. 100 : HttpPorts = 1 .. n
    /\ MaxRequests \in Nat \ {0}
    /\ MaxResponses \in Nat

VARIABLES
    environment,        \* who the device talks to; never changes
    uip_conns,          \* uip.c: the connection table
    TcpInit,            \* pIoTMlme->TcpInit
    ReadyFlag,          \* aliotgateway_http.c
    MyHttpPort,         \* the port of the gateway's connection, 0 at first
    local_my_web_data,  \* the request that waits to be sent, or NoData
    cli_fd,             \* tcpip_main.c: slot of the connection to the IoT server
    posted,             \* requests posted so far
    sent,               \* history: requests given to uip_send, by port
    lost,               \* history: how the gateway's connection was lost unnoticed
    toDev, toSrv,       \* segments that were sent, to the device and to the platform
    srv                 \* the platform's end of each connection

platform == environment = "platform"
app == <<ReadyFlag, MyHttpPort, local_my_web_data, posted, sent, lost>>
net == <<toDev, srv>>
vars == <<environment, uip_conns, TcpInit, cli_fd, app, toSrv, net>>

Init ==
    /\ environment \in Environments
    /\ uip_conns = [s \in Slots |-> Unopened]
    /\ TcpInit = FALSE
    /\ ReadyFlag = TRUE
    /\ MyHttpPort = 0
    /\ local_my_web_data = NoData
    /\ cli_fd = NoFd
    /\ posted = 0
    /\ sent = [p \in HttpPorts |-> <<>>]
    /\ lost = "no"
    /\ toDev = {}
    /\ toSrv = {}
    /\ srv = [p \in HttpPorts |-> [state |-> "listen", rcv |-> 0, nxt |-> 0, log |-> <<>>]]

----------------------------------------------------------------------------
(***************************************************************************)
(* Callbacks: iot_tcp_appcall() for slot s, with the flags of the event.   *)
(* The gateway's handler does not look at TIMEDOUT; the handler of the     *)
(* other connections, which is called after it, does.                      *)
(***************************************************************************)

\* Slip: a connection the platform closes is not noticed.
ConnectionAborted(s, flags) ==
    uip_conns[s].lport = MyHttpPort /\ "ABORT" \in flags
ConnectionClosed(s, flags) ==
    /\ uip_conns[s].lport = MyHttpPort
    /\ flags \cap {"ABORT", "CLOSE"} # {}

app_handle_connection(s, flags) ==
    /\ ReadyFlag' = (ReadyFlag /\ ~ConnectionClosed(s, flags))
    /\ lost' = IF uip_conns[s].lport = MyHttpPort /\ "TIMEDOUT" \in flags
               THEN "timedout" ELSE lost
    /\ UNCHANGED <<MyHttpPort, local_my_web_data, posted, sent>>

\* Slip: TIMEDOUT is forgotten, as it is in the gateway's handler.
handle_closed_only(s, flags) ==
    cli_fd' = IF uip_conns[s].lport = CliPort /\ flags \cap {"ABORT", "CLOSE"} # {}
              THEN NoFd ELSE cli_fd
handle_tcp_app(s, flags) ==
    cli_fd' = IF /\ uip_conns[s].lport = CliPort
                 /\ flags \cap {"ABORT", "TIMEDOUT", "CLOSE"} # {}
              THEN NoFd ELSE cli_fd

iot_tcp_appcall(s, flags) ==
    /\ app_handle_connection(s, flags)
    /\ handle_tcp_app(s, flags)

\* What goes out to the platform, without what its model does not read:
\* acknowledgements.
Emit(segs) ==
    toSrv' = toSrv \cup {[g EXCEPT !.ack = 0] : g \in
        {h \in segs : platform /\ (h.flags # {"ACK"} \/ h.data # NoData)}}

Becomes(s, c) == uip_conns' = [uip_conns EXCEPT ![s] = c]

\* What a closed connection leaves in its slot is set anew when the slot is
\* taken, or (rcv_nxt) equals no number of the next peer.
Closed(s) == Becomes(s, Unopened)

----------------------------------------------------------------------------
(***************************************************************************)
(* The application.                                                        *)
(***************************************************************************)

\* The port is one that no connection has; within the bound on ports it
\* is a new one.
HasPort == MyHttpPort + 1 \in HttpPorts

app_init_connection(conns) ==
    /\ HasPort
    /\ Unused(conns) # {}
    /\ uip_conns' = uip_connect(conns, MyHttpPort + 1, environment)
    /\ MyHttpPort' = MyHttpPort + 1
    /\ lost' = "no"

\* The last port is kept for tcpip_init, so that the bound on ports does
\* not stop the device.
CanReconnect == TcpInit \/ MyHttpPort + 2 \in HttpPorts

\* encode_and_send_data: it does not look at the result of
\* app_init_connection, so it does not learn that the table is full.  A
\* request that finds the buffer in use is dropped.  The caller is told
\* neither.
Post ==
    /\ posted < MaxRequests
    /\ posted' = posted + 1
    /\ \/ /\ ReadyFlag
          /\ UNCHANGED <<uip_conns, MyHttpPort, lost>>
       \/ /\ ~ReadyFlag
          /\ CanReconnect
          /\ app_init_connection(uip_conns)
       \/ /\ ~ReadyFlag
          /\ Unused(uip_conns) = {}
          /\ lost' = "full"
          /\ UNCHANGED <<uip_conns, MyHttpPort>>
    /\ ReadyFlag' = TRUE
    /\ local_my_web_data' =
          IF local_my_web_data = NoData THEN posted + 1 ELSE local_my_web_data
    /\ UNCHANGED <<TcpInit, cli_fd, sent, toSrv, net>>

\* tcpip_init: the table is cleared, no callback is made, and the gateway
\* gets a new connection, whatever ReadyFlag says.
tcpip_init ==
    /\ ~TcpInit
    /\ TcpInit' = TRUE
    /\ app_init_connection([s \in Slots |-> Unopened])
    /\ cli_fd' = NoFd
    /\ UNCHANGED <<ReadyFlag, local_my_web_data, posted, sent, toSrv, net>>

\* The Wi-Fi link goes down: tcpip_init runs again when it is back.
iot_linkdown ==
    /\ TcpInit
    /\ HasPort
    /\ TcpInit' = FALSE
    /\ UNCHANGED <<uip_conns, cli_fd, app, toSrv, net>>

\* tcpip_periodic_timer, cli_timer: the connection to the IoT server.
CliTimer ==
    /\ ~platform
    /\ TcpInit
    /\ cli_fd = NoFd
    /\ Unused(uip_conns) # {}
    /\ uip_conns' = uip_connect(uip_conns, CliPort, "anyone")
    /\ cli_fd' = Min(Unused(uip_conns))
    /\ UNCHANGED <<TcpInit, app, toSrv, net>>

----------------------------------------------------------------------------
(***************************************************************************)
(* The periodic timer of a connection.                                     *)
(***************************************************************************)

TimedOut(s) ==
    /\ TcpInit
    /\ uip_conns[s].tcpstateflags # "CLOSED"
    /\ uip_outstanding(uip_conns[s])
    /\ GivesUp(uip_conns[s])
    /\ Closed(s)
    /\ iot_tcp_appcall(s, {"TIMEDOUT"})
    /\ Emit({Reset(uip_conns[s].lport)})
    /\ UNCHANGED <<TcpInit, net>>

\* Slip: retransmissions are not counted.
RetransmitForEver(s) ==
    /\ TcpInit
    /\ uip_conns[s].tcpstateflags # "CLOSED"
    /\ uip_outstanding(uip_conns[s])
    /\ ~GivesUp(uip_conns[s])
    /\ Emit({Rexmit(uip_conns[s])})
    /\ UNCHANGED <<uip_conns, TcpInit, cli_fd, app, net>>
Retransmit(s) ==
    /\ TcpInit
    /\ uip_conns[s].tcpstateflags # "CLOSED"
    /\ uip_outstanding(uip_conns[s])
    /\ ~GivesUp(uip_conns[s])
    /\ Becomes(s, [uip_conns[s] EXCEPT !.nrtx = @ + 1])
    /\ Emit({Rexmit(uip_conns[s])})
    /\ UNCHANGED <<TcpInit, cli_fd, app, net>>

\* SendData has something to hand over.
\* Slip: it does not look whether the buffer is in use.
MayHandOver == TRUE
HasData == local_my_web_data # NoData

\* Nothing is outstanding: the application is asked for data.  SendData
\* empties the buffer when it hands the request over.
Poll(s) ==
    LET c == uip_conns[s] IN
    /\ TcpInit
    /\ c.tcpstateflags = "ESTABLISHED"
    /\ ~uip_outstanding(c)
    /\ c.lport = MyHttpPort
    /\ HasData
    /\ Becomes(s, Sent(c, local_my_web_data))
    /\ Emit({Outgoing(c, {"ACK"}, local_my_web_data)})
    /\ sent' = [sent EXCEPT ![MyHttpPort] = Append(@, local_my_web_data)]
    /\ local_my_web_data' = NoData
    /\ UNCHANGED <<TcpInit, cli_fd, ReadyFlag, MyHttpPort, posted, lost, net>>

\* Slip: a connection without outstanding data is not polled.
PeriodicUnpolled(s) == TimedOut(s) \/ Retransmit(s)
Periodic(s) == TimedOut(s) \/ Retransmit(s) \/ Poll(s)

----------------------------------------------------------------------------
(***************************************************************************)
(* Input: one action for each way a segment is dealt with.                 *)
(***************************************************************************)

\* The connection a segment belongs to: the first in the table with its
\* ports.  Clients of the listening port have ports of their own.
Matches(port) ==
    {s \in Slots : uip_conns[s].tcpstateflags # "CLOSED" /\ uip_conns[s].lport = port}

Found(s, port) ==
    /\ s \in Matches(port)
    /\ port # SrvPort => s = Min(Matches(port))

\* What anyone may send: what an acknowledgement hits, or does not.  Out of
\* sequence it would change nothing.
Anything(c) ==
    [port : {c.lport}, seq : {c.rcv_nxt}, data : {NoData, 1},
     ack : {c.snd_nxt + c.len, c.snd_nxt + c.len + 1},
     flags : {{"SYN"}, {"SYN", "ACK"}, {"ACK"}, {"FIN", "ACK"}, {"RST"}}]

Incoming(s) ==
    IF platform
    THEN {seg \in toDev : Found(s, seg.port)}
    ELSE {seg \in Anything(uip_conns[s]) : Found(s, seg.port)}

\* An answer to a segment without a connection.
NoConnection(seg) ==
    /\ Matches(seg.port) = {}
    /\ "RST" \notin seg.flags
    /\ Emit({Reset(seg.port)})
    /\ UNCHANGED <<uip_conns, TcpInit, cli_fd, app, net>>

Accept ==
    LET s == Min(Unused(uip_conns))
        seg == [port |-> SrvPort, seq |-> 0, ack |-> 0, data |-> NoData, flags |-> {"SYN"}]
    IN
    /\ ~platform
    /\ Unused(uip_conns) # {}
    /\ Becomes(s, FoundListen(uip_conns[s], seg))
    /\ UNCHANGED <<TcpInit, cli_fd, app, toSrv, net>>

ReceiveRst(s, seg) ==
    /\ "RST" \in seg.flags
    /\ Closed(s)
    /\ iot_tcp_appcall(s, {"ABORT"})
    /\ UNCHANGED toSrv

ReceiveOutOfSequence(s, seg) ==
    /\ "RST" \notin seg.flags
    /\ OutOfSequence(uip_conns[s], seg)
    /\ Emit({Outgoing(uip_conns[s], {"ACK"}, NoData)})
    /\ UNCHANGED <<uip_conns, cli_fd, app>>

InSequence(s, seg) ==
    "RST" \notin seg.flags /\ ~OutOfSequence(uip_conns[s], seg)

\* SYN_RCVD.
ReceiveAccepted(s, seg) ==
    LET c == Accepted(uip_conns[s], seg) IN
    /\ InSequence(s, seg)
    /\ uip_conns[s].tcpstateflags = "SYN_RCVD"
    /\ AckData(uip_conns[s], seg)
    /\ Becomes(s, c)
    /\ iot_tcp_appcall(s, {"CONNECTED"})
    /\ UNCHANGED toSrv

\* SYN_SENT.  The IoT server is sent a logon message at once.
ReceiveSynAck(s, seg) ==
    LET c == Connected(uip_conns[s], seg) IN
    /\ uip_conns[s].tcpstateflags = "SYN_SENT"
    /\ IsSynAck(seg)
    /\ AckData(uip_conns[s], seg)
    /\ Becomes(s, IF c.lport = CliPort THEN Sent(c, 1) ELSE c)
    /\ iot_tcp_appcall(s, {"CONNECTED", "NEWDATA"})
    /\ Emit({Outgoing(c, {"ACK"}, NoData)})

ReceiveRefused(s, seg) ==
    /\ InSequence(s, seg)
    /\ uip_conns[s].tcpstateflags = "SYN_SENT"
    /\ ~(IsSynAck(seg) /\ AckData(uip_conns[s], seg))
    /\ Closed(s)
    /\ iot_tcp_appcall(s, {"ABORT"})
    /\ Emit({Reset(seg.port)})

\* ESTABLISHED.  A FIN that comes while data is outstanding is ignored.
ReceiveFin(s, seg) ==
    LET c == PeerClosed(uip_conns[s], seg) IN
    /\ InSequence(s, seg)
    /\ uip_conns[s].tcpstateflags = "ESTABLISHED"
    /\ "FIN" \in seg.flags
    /\ ~uip_outstanding(Acked(uip_conns[s], seg))
    /\ Becomes(s, c)
    /\ iot_tcp_appcall(s, {"CLOSE"})
    /\ Emit({Outgoing(c, {"FIN", "ACK"}, NoData)})

ReceiveData(s, seg) ==
    LET c == Received(uip_conns[s], seg) IN
    /\ InSequence(s, seg)
    /\ uip_conns[s].tcpstateflags = "ESTABLISHED"
    /\ "FIN" \notin seg.flags
    /\ DataLen(seg) > 0 \/ AckData(uip_conns[s], seg)
    /\ Becomes(s, c)
    /\ iot_tcp_appcall(s, {"NEWDATA", "ACKDATA"})
    /\ Emit(IF DataLen(seg) > 0 THEN {Outgoing(c, {"ACK"}, NoData)} ELSE {})

\* LAST_ACK.
ReceiveLastAck(s, seg) ==
    /\ InSequence(s, seg)
    /\ uip_conns[s].tcpstateflags = "LAST_ACK"
    /\ AckData(uip_conns[s], seg)
    /\ Closed(s)
    /\ iot_tcp_appcall(s, {"CLOSE"})
    /\ UNCHANGED toSrv

Receive(s, seg) ==
    /\ \/ ReceiveRst(s, seg)
       \/ ReceiveOutOfSequence(s, seg)
       \/ ReceiveAccepted(s, seg)
       \/ ReceiveSynAck(s, seg)
       \/ ReceiveRefused(s, seg)
       \/ ReceiveFin(s, seg)
       \/ ReceiveData(s, seg)
       \/ ReceiveLastAck(s, seg)
    /\ UNCHANGED <<TcpInit, net>>

----------------------------------------------------------------------------
(***************************************************************************)
(* The platform's end of a connection: any TCP, that accepts or refuses    *)
(* it, takes each unit of data once and in order, answers, closes and      *)
(* resets when it likes, or falls silent.                                  *)
(***************************************************************************)

\* uIP does not read the sequence number of an acknowledgement alone.
Answer(p, flags, data) ==
    [port |-> p, flags |-> flags, ack |-> srv[p].rcv, data |-> data,
     seq |-> IF flags = {"ACK"} /\ data = NoData THEN 0 ELSE srv[p].nxt]

ServerStep(p, record, segs) ==
    /\ srv' = [srv EXCEPT ![p] = record]
    /\ toDev' = toDev \cup segs
    /\ UNCHANGED <<uip_conns, TcpInit, cli_fd, app, toSrv>>

Gone(p) == [srv[p] EXCEPT !.state = "gone"]

ServerSyn(p, seg) ==
    /\ seg.flags = {"SYN"}
    /\ srv[p].state = "listen"
    /\ \/ ServerStep(p, [srv[p] EXCEPT !.state = "open", !.rcv = 1, !.nxt = 1],
                     {[Answer(p, {"SYN", "ACK"}, NoData) EXCEPT !.ack = 1]})
       \/ ServerStep(p, Gone(p), {Reset(seg.port)})

ServerData(p, seg) ==
    /\ seg.data # NoData
    /\ srv[p].state \in {"open", "closing"}
    /\ seg.seq = srv[p].rcv
    /\ \/ ServerStep(p, [srv[p] EXCEPT !.rcv = @ + 1, !.log = Append(@, seg.data)],
                     {[Answer(p, {"ACK"}, NoData) EXCEPT !.ack = @ + 1]})
       \/ srv[p].state = "closing" /\ ServerStep(p, Gone(p), {Reset(seg.port)})

ServerRespond(p) ==
    /\ srv[p].state = "open"
    /\ srv[p].nxt <= MaxResponses
    /\ ServerStep(p, [srv[p] EXCEPT !.nxt = @ + 1], {Answer(p, {"ACK"}, 1)})

ServerClose(p) ==
    /\ srv[p].state = "open"
    /\ ServerStep(p, [srv[p] EXCEPT !.state = "closing"],
                  {Answer(p, {"FIN", "ACK"}, NoData)})

ServerReset(p) ==
    /\ srv[p].state = "open"
    /\ ServerStep(p, Gone(p), {Reset(p)})

ServerFin(p, seg) ==
    /\ "FIN" \in seg.flags
    /\ srv[p].state = "closing"
    /\ seg.seq = srv[p].rcv
    /\ ServerStep(p, Gone(p), {[Answer(p, {"ACK"}, NoData) EXCEPT !.ack = @ + 1]})

ServerRst(p, seg) ==
    /\ "RST" \in seg.flags
    /\ srv[p].state \in {"open", "closing"}
    /\ ServerStep(p, Gone(p), {})

ServerNoConnection(p, seg) ==
    /\ "RST" \notin seg.flags
    /\ srv[p].state = "gone"
    /\ ServerStep(p, srv[p], {Reset(seg.port)})

\* Once the device has given the connection up, what matters is only the
\* data that arrives late.
Server(p) ==
    \/ /\ Matches(p) # {}
       /\ ServerRespond(p) \/ ServerClose(p) \/ ServerReset(p)
    \/ \E seg \in toSrv :
          /\ seg.port = p
          /\ \/ ServerData(p, seg)
             \/ ServerRst(p, seg)
             \/ /\ Matches(p) # {}
                /\ ServerSyn(p, seg) \/ ServerFin(p, seg) \/ ServerNoConnection(p, seg)
----------------------------------------------------------------------------

Step ==
    \/ Post
    \/ tcpip_init
    \/ iot_linkdown
    \/ CliTimer
    \/ \E s \in Slots : Periodic(s)
    \/ \E seg \in toDev : NoConnection(seg)
    \/ Accept
    \/ \E s \in Slots : \E seg \in Incoming(s) : Receive(s, seg)
    \/ \E p \in HttpPorts : Server(p)

Next == Step /\ UNCHANGED environment

Spec == Init /\ [][Next]_vars

\* The thread's loop runs the timers again and again, and tcpip_init when it
\* is due.  Nothing is assumed of the network, of the peers or of the
\* application.
FairSpec ==
    /\ Spec
    /\ WF_vars(tcpip_init /\ UNCHANGED environment)
    /\ \A s \in Slots : WF_vars(Periodic(s) /\ UNCHANGED environment)

----------------------------------------------------------------------------
(***************************************************************************)
(* Properties.                                                             *)
(***************************************************************************)

Conn ==
    [tcpstateflags : States, lport : HttpPorts \cup {0, CliPort, SrvPort}, peer : Peers,
     snd_nxt : Nat, len : {0, 1}, rcv_nxt : Nat, nrtx : Nat,
     rexmit_buf : Requests \cup {NoData, 1}]

Segment ==
    [port : HttpPorts, flags : SUBSET {"SYN", "ACK", "FIN", "RST"},
     seq : Nat, ack : Nat, data : Requests \cup {NoData, 1}]

\* The values the variables of the stack, the gateway and the platform take.
TypeOK ==
    /\ environment \in Peers
    /\ uip_conns \in [Slots -> Conn]
    /\ TcpInit \in BOOLEAN
    /\ ReadyFlag \in BOOLEAN
    /\ MyHttpPort \in HttpPorts \cup {0}
    /\ local_my_web_data \in Requests \cup {NoData}
    /\ cli_fd \in Slots \cup {NoFd}
    /\ posted \in 0 .. MaxRequests
    /\ sent \in [HttpPorts -> Seq(Requests)]
    /\ lost \in {"no", "full", "timedout"}
    /\ toDev \subseteq Segment
    /\ toSrv \subseteq Segment
    /\ srv \in [HttpPorts -> [state : {"listen", "open", "closing", "gone"},
                              rcv : Nat, nxt : Nat, log : Seq(Requests)]]

\* What the platform receives on a connection is a beginning of what the
\* gateway sent on it: nothing twice, nothing out of order and nothing that
\* rexmit_buf held from another message or another use of the slot, however
\* often segments are retransmitted, duplicated or delayed.  And no request
\* is sent on two connections.  (Of a request longer than the peer's window, what
\* is sent is the part that fits.)
ReceivedInOrder ==
    /\ \A p \in HttpPorts : platform => IsPrefix(srv[p].log, sent[p])
    /\ \A p, q \in HttpPorts : \A i \in DOMAIN sent[p], j \in DOMAIN sent[q] :
          sent[p][i] = sent[q][j] => p = q /\ i = j

\* Requests the stack no longer keeps on a connection that is still up:
\* all but the one that is outstanding.
TakenAsDelivered(c) ==
    Len(sent[c.lport])
        - IF c.tcpstateflags = "ESTABLISHED" /\ uip_outstanding(c) THEN 1 ELSE 0

\* A request whose copy in rexmit_buf the stack has given up, on a
\* connection that was not aborted, has reached the platform as it was sent: an
\* old or duplicated acknowledgement, or a FIN, never stands for its own.
DeliveredWasReceived ==
    \A s \in Slots :
        LET c == uip_conns[s] IN
        c.peer = "platform" /\ c.tcpstateflags \in {"ESTABLISHED", "LAST_ACK"}
            => Len(srv[c.lport].log) >= TakenAsDelivered(c)

\* The gateway holds its connection to be usable although it is not open
\* and not being opened: no request is sent any more, and none is refused.
Stuck ==
    /\ TcpInit
    /\ ReadyFlag
    /\ \A s \in Slots :
          ~ /\ uip_conns[s].lport = MyHttpPort
            /\ uip_conns[s].tcpstateflags \in {"SYN_SENT", "ESTABLISHED"}

\* The ways into that state are a connection that timed out, which
\* app_handle_connection does not look for, and app_init_connection finding
\* the table full, whose result encode_and_send_data ignores.  A reset, a
\* refusal, a FIN, a late callback of an earlier connection and a restart of
\* the stack are all noticed.
StuckExplained == Stuck => lost # "no"

\* cli_fd, while it names a slot, names a live connection to the IoT server:
\* every end of that connection is noticed, so that the timer opens another.
CliFdLive ==
    cli_fd # NoFd =>
        /\ uip_conns[cli_fd].lport = CliPort
        /\ uip_conns[cli_fd].tcpstateflags \in {"SYN_SENT", "ESTABLISHED"}

Waiting(s) == uip_conns[s].tcpstateflags \in {"SYN_SENT", "SYN_RCVD", "LAST_ACK"}

\* No slot waits for its peer for ever: handshakes and closings end, whatever
\* arrives or does not arrive.
SlotsReleased == \A s \in Slots : Waiting(s) ~> ~Waiting(s)

\* A request in the buffer is sent, unless the gateway is stuck or waits for
\* the next request to open a connection again.  The platform sends no more
\* than MaxResponses: data that keeps coming without an acknowledgement
\* resets nrtx each time (Received), and the connection never gives up.
BufferedIsSent ==
    platform /\ local_my_web_data # NoData ~> local_my_web_data = NoData \/ Stuck \/ ~ReadyFlag
=============================================================================
