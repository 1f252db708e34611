-------------------------------- MODULE Uip --------------------------------
(***************************************************************************)
(* The TCP connections of the uIP stack on the Linkit 7681                 *)
(* (Linkit 7681 SDK/Src/cust/tcpip/uip.c): the fields of a connection and  *)
(* what _uip_process() makes of them.  Everything here is an operator on   *)
(* connection records and segments; Linkit.tla has the state.              *)
(*                                                                         *)
(* Lengths are counted in units: a SYN, a FIN and one message of an        *)
(* application each take one sequence number, and every connection starts  *)
(* at number 0.  The retransmission timer is not counted: when a segment   *)
(* is outstanding its timer may expire at any tick.  The states a          *)
(* connection reaches only through uip_close() are absent, as no           *)
(* application of this build calls it (ATCMD_TCPIP_SUPPORT=0 in            *)
(* mak/MT7681/flags_sta.mk): FIN_WAIT_1, FIN_WAIT_2, CLOSING, TIME_WAIT.   *)
(***************************************************************************)
EXTENDS Integers, FiniteSets, FiniteSetsExt

CONSTANTS
    UIP_CONNS,      \* size of the connection table
    UIP_MAXRTX,     \* retransmissions of data or a FIN before giving up
    UIP_MAXSYNRTX   \* retransmissions of a SYN or SYNACK before giving up

ASSUME UipAssumption ==
    /\ UIP_CONNS \in Nat \ {0}
    /\ UIP_MAXRTX \in Nat
    /\ UIP_MAXSYNRTX \in Nat

Slots == 0 .. UIP_CONNS - 1

States == {"CLOSED", "SYN_SENT", "SYN_RCVD", "ESTABLISHED", "LAST_ACK"}

\* Who is at the other end (ripaddr and rport): the platform as it is
\* modelled in Linkit.tla, or a peer that sends anything at any time.
Peers == {"platform", "anyone"}

\* uip_init: a connection that is not in use.
NoData == 0
Unopened == [tcpstateflags |-> "CLOSED", lport |-> 0, peer |-> "anyone", snd_nxt |-> 0,
             len |-> 0, rcv_nxt |-> 0, nrtx |-> 0, rexmit_buf |-> NoData]

\* What _uip_process() puts on the wire for connection c.  The number
\* acknowledged means nothing without the ACK flag.
Outgoing(c, flags, data) ==
    [port |-> c.lport, flags |-> flags, seq |-> c.snd_nxt,
     ack |-> IF "ACK" \in flags THEN c.rcv_nxt ELSE 0, data |-> data]

\* The answer to a segment that no connection wants.  No receiver looks at
\* the numbers of an RST.
Reset(port) ==
    [port |-> port, flags |-> {"RST"}, seq |-> 0, ack |-> 0, data |-> NoData]

\* Sequence numbers only advance where the peer is modelled.  Elsewhere a
\* segment hits or misses the expected number by choice.
Plus(c, n, k) == IF c.peer = "platform" THEN n + k ELSE n

DataLen(seg) == IF seg.data = NoData THEN 0 ELSE 1

uip_outstanding(c) == c.len > 0

----------------------------------------------------------------------------
(***************************************************************************)
(* Opening.                                                                *)
(***************************************************************************)

Unused(conns) == {s \in Slots : conns[s].tcpstateflags = "CLOSED"}

\* The first unused slot is taken.
uip_connect(conns, port, peer) ==
    [conns EXCEPT ![Min(Unused(conns))] =
        [@ EXCEPT !.tcpstateflags = "SYN_SENT", !.lport = port, !.peer = peer,
                  !.snd_nxt = 0, !.len = 1, !.nrtx = 0]]

\* found_listen: a SYN for a listening port takes a slot in the same way.
FoundListen(c, seg) ==
    [c EXCEPT !.tcpstateflags = "SYN_RCVD", !.lport = seg.port, !.peer = "anyone",
              !.snd_nxt = 0, !.len = 1, !.nrtx = 0, !.rcv_nxt = seg.seq]

----------------------------------------------------------------------------
(***************************************************************************)
(* Receiving.                                                              *)
(***************************************************************************)

IsSynAck(seg) == seg.flags = {"SYN", "ACK"}

\* Data, a SYN or a FIN that is not the next one expected.
OutOfSequence(c, seg) ==
    /\ ~(c.tcpstateflags = "SYN_SENT" /\ IsSynAck(seg))
    /\ DataLen(seg) > 0 \/ seg.flags \cap {"SYN", "FIN"} # {}
    /\ seg.seq # c.rcv_nxt

\* All that is outstanding is acknowledged, or nothing is.
\* Slip: any acknowledgement will do.
AckAny(c, seg) == "ACK" \in seg.flags /\ uip_outstanding(c)
AckData(c, seg) ==
    /\ "ACK" \in seg.flags
    /\ uip_outstanding(c)
    /\ seg.ack = c.snd_nxt + c.len

Acked(c, seg) ==
    IF AckData(c, seg)
    THEN [c EXCEPT !.snd_nxt = Plus(c, @, c.len), !.len = 0]
    ELSE c

\* SYN_RCVD and SYN_SENT become ESTABLISHED.
Accepted(c, seg) ==
    [Acked(c, seg) EXCEPT !.tcpstateflags = "ESTABLISHED",
                          !.rcv_nxt = Plus(c, @, DataLen(seg)), !.nrtx = 0]

Connected(c, seg) ==
    [Acked(c, seg) EXCEPT !.tcpstateflags = "ESTABLISHED",
                          !.rcv_nxt = Plus(c, seg.seq, 1), !.nrtx = 0]

\* ESTABLISHED, a FIN: the peer's end is closed and so is ours.
PeerClosed(c, seg) ==
    [Acked(c, seg) EXCEPT !.tcpstateflags = "LAST_ACK", !.len = 1, !.nrtx = 0,
                          !.rcv_nxt = Plus(c, @, 1 + DataLen(seg))]

\* ESTABLISHED, anything else the application is told of.
Received(c, seg) ==
    [Acked(c, seg) EXCEPT !.rcv_nxt = Plus(c, @, DataLen(seg)), !.nrtx = 0]

----------------------------------------------------------------------------
(***************************************************************************)
(* Sending and the retransmission timer.                                   *)
(***************************************************************************)

\* uip_send() in a callback, and appsend after it: data is what is sent of a
\* request, after appsend has cut it to the peer's window and mss, and what is
\* kept for retransmission; the stack forgets the rest.
\* Slip: the buffer keeps what was sent before.
SentUnsaved(c, data) ==
    [c EXCEPT !.len = 1, !.nrtx = 0, !.rexmit_buf = IF @ = NoData THEN data ELSE @]
Sent(c, data) == [c EXCEPT !.len = 1, !.nrtx = 0, !.rexmit_buf = data]

GivesUp(c) ==
    \/ c.nrtx = UIP_MAXRTX
    \/ c.tcpstateflags \in {"SYN_SENT", "SYN_RCVD"} /\ c.nrtx = UIP_MAXSYNRTX

Rexmit(c) ==
    CASE c.tcpstateflags = "SYN_RCVD"    -> Outgoing(c, {"SYN", "ACK"}, NoData)
      [] c.tcpstateflags = "SYN_SENT"    -> Outgoing(c, {"SYN"}, NoData)
      [] c.tcpstateflags = "ESTABLISHED" -> Outgoing(c, {"ACK"}, c.rexmit_buf)
      [] c.tcpstateflags = "LAST_ACK"    -> Outgoing(c, {"FIN", "ACK"}, NoData)
=============================================================================
