---------------------------- MODULE MaracaProofs ----------------------------
(***************************************************************************)
(* Proofs about the Connected Maraca: what TLC finds in the reachable      *)
(* states of Maraca follows from an inductive invariant, that says at each *)
(* point of the two threads what the shared device_state stands for.       *)
(***************************************************************************)
EXTENDS Maraca, TLAPS

\* The station calls connected with the link up and the other two with the
\* link down, and the link does not change during a call.
LinkOfCallback ==
    /\ callback \in {"lost", "disconnected"} => ~link
    /\ callback \in {"connected", "created", "first", "again"} => link

\* device_state is 0 until the thread exists, except that the callback that
\* has created it has yet to assign it.
ZeroMeansNone ==
    device_state = 0 /\ callback \notin {"created", "first"} => pc = "none"

\* AWS_RECONNECTED stands in device_state from the return of the callback that
\* wrote it until the next callback for a lost link writes it.
ReconnectedWhen ==
    device_state = AWS_RECONNECTED =>
        \/ callback = "idle" /\ link
        \/ callback \in {"lost", "disconnected"}

\* The thread, from its read of AWS_RECONNECTED to its store of AWS_CONNECTED,
\* with no write of a callback in between.
StoreIsFresh ==
    pc \in {"reconnect", "store"} /\ ~renewed =>
        /\ device_state = AWS_RECONNECTED
        /\ pc = "store" /\ ~cloud => causes # {} \/ callback = "disconnected"

\* Until there is a thread, every attempt that failed is a cause.
NotStarted ==
    pc = "none" /\ causes = {} => device_state = 0 /\ (~link \/ callback = "connected")

Ended == pc = "out" => causes # {}

\* In the loop without a connection and without a cause: the thread has been
\* told to reconnect, or a callback that is running or yet to come tells it.
WillBeTold ==
    pc \in {"loop", "yield"} /\ ~cloud /\ causes = {} =>
        \/ device_state = AWS_RECONNECTED
        \/ callback \in {"disconnected", "again"}
        \/ device_state = AWS_DISCONNECTED
             /\ (~link \/ callback \in {"connected", "created"})

Inv ==
    /\ TypeOK
    /\ LinkOfCallback
    /\ ZeroMeansNone
    /\ ReconnectedWhen
    /\ StoreIsFresh
    /\ NotStarted
    /\ Ended
    /\ WillBeTold

-----------------------------------------------------------------------------
(* The thread. *)

\* A step of the thread keeps the types, and never changes what the station and
\* the callbacks say.
LEMMA ThreadTypes == ASSUME TypeOK, connected_maraca PROVE TypeOK'
<1>1. CASE Start
  BY <1>1 DEF Start, Ends, station, TypeOK
<1>2. CASE Connect
  BY <1>2 DEF Connect, Ends, station, TypeOK
<1>3. CASE Loop
  BY <1>3 DEF Loop, Ends, station, TypeOK
<1>4. CASE Store
  BY <1>4 DEF Store, station, TypeOK, AWS_CONNECTED
<1>5. CASE Yield
  BY <1>5 DEF Yield, station, TypeOK
<1> QED
  BY <1>1, <1>2, <1>3, <1>4, <1>5 DEF connected_maraca

\* Start, and a return of aws_iot_shadow_connect.
LEMMA StartKeeps == ASSUME Inv, Start PROVE Inv'
<1>1. TypeOK'
  BY ThreadTypes DEF Inv, connected_maraca
<1> QED
  BY <1>1 DEF Start, Ends, station, Inv, LinkOfCallback, ZeroMeansNone,
              ReconnectedWhen, StoreIsFresh, NotStarted, Ended, WillBeTold

\* The thread connects, or fails to.
LEMMA ConnectKeeps == ASSUME Inv, Connect PROVE Inv'
<1>1. TypeOK'
  BY ThreadTypes DEF Inv, connected_maraca
<1> QED
  BY <1>1 DEF Connect, Ends, station, Inv, LinkOfCallback, ZeroMeansNone,
              ReconnectedWhen, StoreIsFresh, NotStarted, Ended, WillBeTold

\* The top of the loop: the read of device_state makes the store fresh.
LEMMA LoopKeeps == ASSUME Inv, Loop PROVE Inv'
<1>1. TypeOK'
  BY ThreadTypes DEF Inv, connected_maraca
<1> QED
  BY <1>1 DEF Loop, Ends, station, Inv, LinkOfCallback, ZeroMeansNone,
              ReconnectedWhen, StoreIsFresh, NotStarted, Ended, WillBeTold

\* A fresh store that leaves the cloud off comes before a write of the callback
\* that has taken it off; any other is a cause.
LEMMA StoreKeeps == ASSUME Inv, Store PROVE Inv'
<1>1. TypeOK'
  BY ThreadTypes DEF Inv, connected_maraca
<1>2. device_state' = 1 /\ AWS_RECONNECTED = 2 /\ AWS_DISCONNECTED = 3
  BY DEF Store, AWS_CONNECTED, AWS_RECONNECTED, AWS_DISCONNECTED
<1>3. WillBeTold'
  BY DEF Store, station, Inv, StoreIsFresh, WillBeTold, TypeOK
<1> QED
  BY <1>1, <1>2, <1>3 DEF Store, station, Inv, LinkOfCallback, ZeroMeansNone,
              ReconnectedWhen, StoreIsFresh, NotStarted, Ended

\* The thread yields.
LEMMA YieldKeeps == ASSUME Inv, Yield PROVE Inv'
<1>1. TypeOK'
  BY ThreadTypes DEF Inv, connected_maraca
<1> QED
  BY <1>1 DEF Yield, station, Inv, LinkOfCallback, ZeroMeansNone,
              ReconnectedWhen, StoreIsFresh, NotStarted, Ended, WillBeTold

-----------------------------------------------------------------------------
(* The callbacks. *)

\* A step of a callback keeps the types.
LEMMA CallbackTypes == ASSUME TypeOK, Callback PROVE TypeOK'
<1>1. CASE Disconnect
  BY <1>1 DEF Disconnect, TypeOK
<1>2. CASE Disconnected
  BY <1>2 DEF Disconnected, Write, Returns, thread, TypeOK, AWS_DISCONNECTED
<1>3. CASE CreateThread
  BY <1>3 DEF CreateThread, Returns, TypeOK
<1>4. CASE Test
  BY <1>4 DEF Test, Returns, thread, TypeOK
<1>5. CASE Assign
  BY <1>5 DEF Assign, Write, Returns, thread, TypeOK, AWS_CONNECTED, AWS_RECONNECTED
<1> QED
  BY <1>1, <1>2, <1>3, <1>4, <1>5 DEF Callback

\* A callback disconnects the client.
LEMMA DisconnectKeeps == ASSUME Inv, Disconnect PROVE Inv'
<1>1. TypeOK'
  BY CallbackTypes DEF Inv, Callback
<1> QED
  BY <1>1 DEF Disconnect, Inv, LinkOfCallback, ZeroMeansNone,
              ReconnectedWhen, StoreIsFresh, NotStarted, Ended, WillBeTold

\* AWS_DISCONNECTED is written with the link down, so connected is yet to come.
LEMMA DisconnectedKeeps == ASSUME Inv, Disconnected PROVE Inv'
<1>1. TypeOK'
  BY CallbackTypes DEF Inv, Callback
<1>2. device_state' = 3 /\ renewed'
  BY DEF Disconnected, Write, AWS_DISCONNECTED
<1>3. /\ ~link /\ pc' = pc /\ cloud' = cloud
      /\ callback' = "idle" /\ link' = link
      /\ causes' = IF pc = "none" THEN causes \cup {"not started"} ELSE causes
  BY DEF Disconnected, Returns, thread, Inv, LinkOfCallback
<1>4. LinkOfCallback' /\ StoreIsFresh'
  BY <1>2, <1>3 DEF LinkOfCallback, StoreIsFresh
<1>5. ReconnectedWhen' /\ ZeroMeansNone'
  BY <1>2 DEF ReconnectedWhen, ZeroMeansNone, AWS_RECONNECTED
<1>6. NotStarted' /\ Ended' /\ WillBeTold'
  BY <1>2, <1>3 DEF Inv, NotStarted, Ended, WillBeTold, AWS_DISCONNECTED
<1> QED
  BY <1>1, <1>4, <1>5, <1>6 DEF Inv

\* The thread is created only if there is none.
LEMMA CreateThreadKeeps == ASSUME Inv, CreateThread PROVE Inv'
<1>1. TypeOK'
  BY CallbackTypes DEF Inv, Callback
<1> QED
  BY <1>1 DEF CreateThread, NoThreadYet, Returns, Inv, LinkOfCallback, ZeroMeansNone,
              ReconnectedWhen, StoreIsFresh, NotStarted, Ended, WillBeTold,
              AWS_RECONNECTED, AWS_DISCONNECTED

\* What the test finds is 0 or 3 unless the thread has stored meanwhile.
LEMMA TestKeeps == ASSUME Inv, Test PROVE Inv'
<1>1. TypeOK'
  BY CallbackTypes DEF Inv, Callback
<1>2. /\ link /\ link' = link /\ device_state' = device_state /\ pc' = pc
      /\ cloud' = cloud /\ renewed' = renewed /\ causes' = causes
      /\ callback = "created" /\ callback' \in {"first", "again", "idle"}
  BY DEF Test, Returns, thread, Inv, LinkOfCallback
<1>3. /\ device_state = 0 => callback' = "first"
      /\ device_state = 3 => callback' = "again"
      /\ callback' = "idle" => device_state # 0 /\ device_state # 3
  BY DEF Test, Returns, AWS_DISCONNECTED
<1>4. device_state # 2
  BY <1>2 DEF Inv, ReconnectedWhen, AWS_RECONNECTED
<1>5. LinkOfCallback' /\ ReconnectedWhen' /\ StoreIsFresh'
  BY <1>2, <1>4 DEF Inv, LinkOfCallback, ReconnectedWhen, StoreIsFresh, AWS_RECONNECTED
<1>6. ZeroMeansNone' /\ NotStarted' /\ Ended'
  BY <1>2, <1>3 DEF Inv, ZeroMeansNone, NotStarted, Ended
<1>7. WillBeTold'
  BY <1>2, <1>3, <1>4 DEF Inv, WillBeTold, AWS_RECONNECTED, AWS_DISCONNECTED
<1> QED
  BY <1>1, <1>5, <1>6, <1>7 DEF Inv

\* The callback that tells the thread to reconnect returns with the link up.
LEMMA AssignKeeps == ASSUME Inv, Assign PROVE Inv'
<1>1. TypeOK'
  BY CallbackTypes DEF Inv, Callback
<1> QED
  BY <1>1 DEF Assign, Write, Returns, thread, Inv, LinkOfCallback, ZeroMeansNone,
              ReconnectedWhen, StoreIsFresh, NotStarted, Ended, WillBeTold,
              AWS_CONNECTED, AWS_RECONNECTED, AWS_DISCONNECTED

-----------------------------------------------------------------------------
(* The station and the cloud. *)

\* The events of the Wi-Fi station.
LEMMA StationKeeps == ASSUME Inv, Station PROVE Inv'
<1>1. TypeOK'
  BY DEF Station, LinkUp, LinkLost, ConnectFailed, Event, thread, Inv, TypeOK
<1> QED
  BY <1>1 DEF Station, LinkUp, LinkLost, ConnectFailed, Event, thread, Inv,
              LinkOfCallback, ZeroMeansNone, ReconnectedWhen, StoreIsFresh,
              NotStarted, Ended, WillBeTold, AWS_RECONNECTED, AWS_DISCONNECTED

\* The cloud ends the connection.
LEMMA CloudDropsKeeps == ASSUME Inv, CloudDrops PROVE Inv'
<1>1. TypeOK' /\ causes' # {}
  BY DEF CloudDrops, station, Inv, TypeOK
<1> QED
  BY <1>1 DEF CloudDrops, station, Inv, LinkOfCallback, ZeroMeansNone,
              ReconnectedWhen, StoreIsFresh, NotStarted, Ended, WillBeTold

-----------------------------------------------------------------------------
\* The invariant holds in every reachable state.
LEMMA Invariance == Spec => []Inv
<1>1. Init => Inv
  <2>1. SUFFICES ASSUME Init PROVE Inv
    OBVIOUS
  <2>2. TypeOK /\ ~link
    BY <2>1 DEF Init, TypeOK
  <2> QED
    BY <2>1, <2>2 DEF Init, Inv, LinkOfCallback, ZeroMeansNone, ReconnectedWhen,
       StoreIsFresh, NotStarted, Ended, WillBeTold, AWS_RECONNECTED
<1>2. ASSUME Inv, [Next]_vars PROVE Inv'
  <2>1. CASE connected_maraca
    BY <1>2, <2>1, StartKeeps, ConnectKeeps, LoopKeeps, StoreKeeps, YieldKeeps
       DEF connected_maraca
  <2>2. CASE Callback
    BY <1>2, <2>2, DisconnectKeeps, DisconnectedKeeps, CreateThreadKeeps, TestKeeps,
       AssignKeeps DEF Callback
  <2>3. CASE Station \/ CloudDrops
    BY <1>2, <2>3, StationKeeps, CloudDropsKeeps
  <2>4. CASE UNCHANGED vars
    <3>1. UNCHANGED <<device_state, pc, cloud, link, callback, renewed, causes>>
      BY <2>4 DEF vars, thread, station
    <3>2. TypeOK'
      BY <1>2, <3>1 DEF Inv, TypeOK
    <3>3. LinkOfCallback' /\ ZeroMeansNone' /\ ReconnectedWhen'
      BY <1>2, <3>1 DEF Inv, LinkOfCallback, ZeroMeansNone, ReconnectedWhen
    <3>4. StoreIsFresh' /\ NotStarted' /\ Ended' /\ WillBeTold'
      BY <1>2, <3>1 DEF Inv, StoreIsFresh, NotStarted, Ended, WillBeTold
    <3> QED
      BY <3>2, <3>3, <3>4 DEF Inv
  <2> QED
    BY <1>2, <2>1, <2>2, <2>3, <2>4 DEF Next
<1> QED
  BY <1>1, <1>2, PTL DEF Spec

\* The two threads' positions and device_state keep their types.
THEOREM MaracaTypeCorrect == Spec => []TypeOK
BY Invariance, PTL DEF Inv

\* wlan_event_normal_connected gives aws_starter_thread to one thread only: the
\* test of device_state is enough, however often the link comes and goes and
\* wherever the thread stores AWS_CONNECTED meanwhile.
THEOREM ThreadOnceHolds == Spec => ThreadOnce
<1>1. ASSUME Inv, [Next]_vars PROVE [pc' = "start" => pc \in {"none", "start"}]_vars
  <2>1. SUFFICES ASSUME Next, pc' = "start", pc # "start" PROVE pc = "none"
    BY <1>1
  <2>2. callback = "connected" /\ device_state = 0
    BY <2>1 DEF Next, connected_maraca, Start, Connect, Loop, Store, Yield, Ends,
       Callback, Disconnect, Disconnected, CreateThread, NoThreadYet, Test, Assign,
       Station, LinkUp, LinkLost, ConnectFailed, Event, CloudDrops, thread
  <2> QED
    BY <1>1, <2>2 DEF Inv, ZeroMeansNone
<1> QED
  BY <1>1, Invariance, PTL DEF Spec, ThreadOnce

\* A link that is lost and comes back is noticed by the thread, however the
\* callbacks and the thread interleave, unless one of the four causes is there.
THEOREM OfflineExplainedHolds == Spec => []OfflineExplained
<1>1. Inv => OfflineExplained
  BY DEF Inv, OfflineExplained, Offline, NotStarted, Ended, WillBeTold,
         AWS_RECONNECTED, AWS_DISCONNECTED
<1> QED
  BY <1>1, Invariance, PTL
=============================================================================
