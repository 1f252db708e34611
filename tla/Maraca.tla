------------------------------- MODULE Maraca -------------------------------
(***************************************************************************)
(* The Connected Maraca (connected_maraca/src/main.c): the application     *)
(* thread keeps a connection to the cloud, and the callbacks of the Wi-Fi  *)
(* station, which run in a thread of the SDK, tell it by device_state when *)
(* to make it again.  The two threads share device_state and mqtt_client   *)
(* without a lock.                                                         *)
(*                                                                         *)
(* The station is external and behaves as wmsdk.h says: one callback at a  *)
(* time, and it makes connection attempts for ever.  So is the AWS client: *)
(* a connect succeeds or fails, and succeeds only with a link; disconnect  *)
(* takes down a connection that is up and nothing else.                    *)
(***************************************************************************)
EXTENDS Naturals

\* enum state; device_state is 0 at first.
\* Slip: the enumerators are not numbered from 1.
AWS_LINK_LOST == 4
AWS_CONNECTED == 1
AWS_RECONNECTED == 2
AWS_DISCONNECTED == 3

VARIABLES
    device_state,   \* shared by the two threads
    pc,             \* where connected_maraca is, "none" before it is created
    link,           \* external: the station is associated
    callback,       \* the callback the station is in, and how far, or "idle"
    cloud,          \* external: mqtt_client's connection is up
    renewed,        \* history: a callback has written device_state since
                    \* the thread last read it
    causes          \* history: why the cloud may stay off although there is
                    \* a link; emptied when the thread starts and
                    \* when it reconnects

thread == <<pc, cloud>>
station == <<link, callback>>
vars == <<device_state, thread, station, renewed, causes>>

Init ==
    /\ device_state = 0
    /\ pc = "none"
    /\ link = FALSE
    /\ callback = "idle"
    /\ cloud = FALSE
    /\ renewed = FALSE
    /\ causes = {}

----------------------------------------------------------------------------
(***************************************************************************)
(* The application thread.                                                 *)
(***************************************************************************)

Ends ==
    /\ pc' = "out"
    /\ causes' = causes \cup {"ended"}

\* Reading the configuration and aws_iot_shadow_init, which may each fail.
Start ==
    /\ pc = "start"
    /\ \/ pc' = "connect" /\ UNCHANGED causes
       \/ Ends
    /\ UNCHANGED <<device_state, cloud, station, renewed>>

\* aws_iot_shadow_connect returns, the first time (connect) or in the loop.
Connect ==
    /\ pc \in {"connect", "reconnect"}
    /\ \/ /\ link
          /\ cloud' = TRUE
          /\ pc' = IF pc = "connect" THEN "loop" ELSE "store"
          /\ UNCHANGED causes
       \/ Ends /\ UNCHANGED cloud
    /\ UNCHANGED <<device_state, station, renewed>>

\* The top of the loop; aws_iot_shadow_init may fail.
Loop ==
    /\ pc = "loop"
    /\ \/ /\ device_state = AWS_RECONNECTED
          /\ renewed' = FALSE
          /\ \/ pc' = "reconnect" /\ causes' = {}
             \/ Ends
       \/ /\ device_state # AWS_RECONNECTED
          /\ pc' = "yield"
          /\ UNCHANGED <<renewed, causes>>
    /\ UNCHANGED <<device_state, cloud, station>>

\* After aws_iot_shadow_connect, whatever device_state has become since.
Store ==
    /\ pc = "store"
    /\ device_state' = AWS_CONNECTED
    /\ causes' = IF renewed THEN causes \cup {"overwritten"} ELSE causes
    /\ pc' = "yield"
    /\ UNCHANGED <<cloud, station, renewed>>

\* aws_iot_shadow_yield and publishing: whether they fail is not looked at.
Yield ==
    /\ pc = "yield"
    /\ pc' = "loop"
    /\ UNCHANGED <<device_state, cloud, station, renewed, causes>>

connected_maraca == Start \/ Connect \/ Loop \/ Store \/ Yield

----------------------------------------------------------------------------
(***************************************************************************)
(* The callbacks.                                                          *)
(***************************************************************************)

Returns == callback' = "idle" /\ UNCHANGED link

Write(state) ==
    /\ device_state' = state
    /\ renewed' = TRUE

\* wlan_event_normal_link_lost and wlan_event_normal_connect_failed, which
\* have the same body.  A connect that is under way may go on (Connect) or
\* fail, which it may at any time.
Disconnect ==
    /\ callback = "lost"
    /\ cloud' = FALSE
    /\ callback' = "disconnected"
    /\ UNCHANGED <<device_state, pc, link, renewed, causes>>

\* Slip: device_state is left as it is.
DisconnectedUntold ==
    /\ callback = "disconnected"
    /\ causes' = IF pc = "none" THEN causes \cup {"not started"} ELSE causes
    /\ Returns
    /\ UNCHANGED <<device_state, thread, renewed>>
Disconnected ==
    /\ callback = "disconnected"
    /\ Write(AWS_DISCONNECTED)
    /\ causes' = IF pc = "none" THEN causes \cup {"not started"} ELSE causes
    /\ Returns
    /\ UNCHANGED thread

\* wlan_event_normal_connected: the thread is created the first time.
\* Slip: also when the link comes back.
ThreadNeeded == device_state \in {0, AWS_DISCONNECTED}
NoThreadYet == device_state = 0

CreateThread ==
    /\ callback = "connected"
    /\ \/ /\ NoThreadYet
          /\ pc' = "start"
          /\ callback' = "created"
          /\ causes' = {}
          /\ UNCHANGED link
       \/ /\ NoThreadYet
          /\ Returns
          /\ causes' = causes \cup {"not started"}
          /\ UNCHANGED pc
       \/ /\ ~NoThreadYet
          /\ callback' = "created"
          /\ UNCHANGED <<pc, link, causes>>
    /\ UNCHANGED <<device_state, cloud, renewed>>

\* Between the test of device_state and the assignment the thread may run.
Test ==
    /\ callback = "created"
    /\ \/ device_state = 0 /\ callback' = "first" /\ UNCHANGED link
       \/ device_state = AWS_DISCONNECTED /\ callback' = "again" /\ UNCHANGED link
       \/ device_state \notin {0, AWS_DISCONNECTED} /\ Returns
    /\ UNCHANGED <<device_state, thread, renewed, causes>>

\* Slip: the thread is not told to connect again.
AssignConnected ==
    /\ callback \in {"first", "again"}
    /\ Write(AWS_CONNECTED)
    /\ Returns
    /\ UNCHANGED <<thread, causes>>
Assign ==
    /\ callback \in {"first", "again"}
    /\ Write(IF callback = "first" THEN AWS_CONNECTED ELSE AWS_RECONNECTED)
    /\ Returns
    /\ UNCHANGED <<thread, causes>>

Callback == Disconnect \/ Disconnected \/ CreateThread \/ Test \/ Assign

----------------------------------------------------------------------------
(***************************************************************************)
(* The station and the cloud.                                              *)
(***************************************************************************)

Event(up, name) ==
    /\ callback = "idle"
    /\ link' = up
    /\ callback' = name
    /\ UNCHANGED <<device_state, thread, renewed, causes>>

LinkUp == ~link /\ Event(TRUE, "connected")
LinkLost == link /\ Event(FALSE, "lost")
ConnectFailed == ~link /\ Event(FALSE, "lost")

\* The connection ends while there is a link: the server closes it, or its
\* keep-alive runs out.
CloudDrops ==
    /\ cloud
    /\ cloud' = FALSE
    /\ causes' = causes \cup {"dropped"}
    /\ UNCHANGED <<device_state, pc, station, renewed>>

Station == LinkUp \/ LinkLost \/ ConnectFailed

Next == connected_maraca \/ Callback \/ Station \/ CloudDrops

Spec == Init /\ [][Next]_vars

\* Both threads are scheduled again and again, and calls of the AWS client
\* return.  Nothing is assumed of the station and of the cloud.
FairSpec == Spec /\ WF_vars(connected_maraca) /\ WF_vars(Callback)

----------------------------------------------------------------------------
(***************************************************************************)
(* Properties.                                                             *)
(***************************************************************************)

\* The values of the shared state and of the threads' positions.
TypeOK ==
    /\ device_state \in {0, 1, 2, 3}
    /\ pc \in {"none", "start", "connect", "loop", "reconnect", "store", "yield", "out"}
    /\ link \in BOOLEAN
    /\ callback \in {"idle", "lost", "disconnected", "connected", "created", "first", "again"}
    /\ cloud \in BOOLEAN
    /\ renewed \in BOOLEAN
    /\ causes \subseteq {"ended", "not started", "overwritten", "dropped"}

\* aws_starter_thread and its stack are given to one thread only, once:
\* device_state is 0 until the thread exists, and never again.
ThreadOnce == [][pc' = "start" => pc \in {"none", "start"}]_vars

\* The link is up, no callback runs, and the thread does nothing that could
\* bring the cloud connection up.
Offline ==
    /\ link
    /\ callback = "idle"
    /\ ~cloud
    /\ \/ pc \in {"none", "out"}
       \/ pc \in {"loop", "yield"} /\ device_state # AWS_RECONNECTED

\* There are four ways into that state: the thread ended because a call
\* failed; it was never created, as the first attempt to associate failed or
\* os_thread_create did; the thread's store has overwritten what a callback
\* had written meanwhile; or the cloud connection ended under a link that
\* stayed.  A link that is lost and comes back at any other point is noticed,
\* however the callbacks and the thread interleave.
OfflineExplained == Offline => causes # {}

\* If the link stays up from some time on, then the cloud is connected from
\* some time on, unless one of these four has happened.
CloudComesBack == <>[]link => <>[](cloud \/ causes # {})
=============================================================================
