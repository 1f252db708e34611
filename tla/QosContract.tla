------------------------------ MODULE QosContract ------------------------------
(***************************************************************************)
(* What the quality of service of a message promises at the end that       *)
(* receives it: QoS 0 at most once, 1 at least once, 2 exactly once.  The  *)
(* sender takes a message for settled only when it has been delivered, or  *)
(* when the receiver had no room to keep its packet id.                    *)
(***************************************************************************)
EXTENDS Naturals

CONSTANTS
    Msgs,           \* application messages
    QosOf           \* the QoS of each

VARIABLES
    pending,        \* messages not yet sent
    delivered,      \* times delivered, per message
    refused,        \* messages there was no room for
    settled         \* messages acknowledged in this session

contractVars == <<pending, delivered, refused, settled>>

Init ==
    /\ pending = Msgs
    /\ delivered = [m \in Msgs |-> 0]
    /\ refused = {}
    /\ settled = {}

Send(m) ==
    /\ m \in pending
    /\ pending' = pending \ {m}
    /\ UNCHANGED <<delivered, refused, settled>>

\* Nothing is delivered before it was sent, and again only with QoS 1.
Deliver(m) ==
    /\ m \notin pending
    /\ QosOf[m] = 1 \/ delivered[m] = 0
    /\ delivered' = [delivered EXCEPT ![m] = @ + 1]
    /\ UNCHANGED <<pending, refused, settled>>

Refuse(m) ==
    /\ m \notin pending
    /\ QosOf[m] = 2
    /\ refused' = refused \cup {m}
    /\ UNCHANGED <<pending, delivered, settled>>

Settle(m) ==
    /\ QosOf[m] > 0
    /\ delivered[m] > 0 \/ m \in refused
    /\ settled' = settled \cup {m}
    /\ UNCHANGED <<pending, delivered, refused>>

\* The next connection starts with nothing settled.
NewSession ==
    /\ settled' = {}
    /\ UNCHANGED <<pending, delivered, refused>>

Next ==
    \/ \E m \in Msgs : Send(m) \/ Deliver(m) \/ Refuse(m) \/ Settle(m)
    \/ NewSession

Spec == Init /\ [][Next]_contractVars
=============================================================================
