----------------------------- MODULE TgnetProofs -----------------------------
(* Proofs about two small parts of tgnet, a connection and a configuration   *)
(* file, for any number of tasks and writes, and whatever fails.             *)
EXTENDS Connection, ConfigStore, TLAPS

-----------------------------------------------------------------------------
(* A connection and the loop that drives it: the reconnect timer always ends *)
(* the wait, a token means a socket, a suspended connection has none, and a  *)
(* lost socket is noticed; and where connect() does not fail before it       *)
(* returns, no socket leaks and a stream has one first packet.               *)
(*                                                                            *)
(* The first four need each other: a suspended connection keeps waitFor-     *)
(* ReconnectTimer as it is when it is disconnected, which is right because   *)
(* it has no timer and so does not wait.                                     *)

(* The facts about the connection alone, in the middle of a handler.         *)
Sound(k) ==
    /\ k \in ConnectionType
    /\ k.wait => k.timer
    /\ k.token => k.open /\ k.state = "Connected"
    /\ k.state = "Suspended" => ~k.open /\ ~k.timer

Lost(k) == k.state \in {"Connecting", "Connected"} /\ ~k.open

Pending(queue) == \E i \in 1..Len(queue) : queue[i] = "disconnected"

(* A handler that started with a lost socket or without one.                 *)
Noticed(k, pending) == Lost(k) => k.failed \/ pending

LoopType ==
    /\ network \in BOOLEAN
    /\ \E i \in 1..Len(Phases) : phase = Phases[i]
    /\ tasks \in Seq(Tasks) /\ budget \in Nat
    /\ batch \in Seq(Masks) /\ mask \in Masks
    /\ mask # {} => phase = "events"

Inv ==
    /\ LoopType
    /\ Sound(c) /\ ~c.failed
    /\ Noticed(c, Pending(tasks))

-----------------------------------------------------------------------------
(* The operations keep a connection sound.                                   *)
LEMMA CloseSocketSound ==
    ASSUME NEW k \in ConnectionType
    PROVE  /\ CloseSocket(k) \in ConnectionType
           /\ CloseSocket(k).state = k.state /\ CloseSocket(k).wait = k.wait
           /\ CloseSocket(k).timer = k.timer /\ ~CloseSocket(k).open
           /\ CloseSocket(k).token = k.token /\ CloseSocket(k).failed = k.failed
  <1>1. CloseSocket(k) \in ConnectionType
    <2>1. 0 \in 0..2
      OBVIOUS
    <2>2. QED
      BY <2>1, ZenonT(30) DEF CloseSocket, ConnectionType
  <1>2. /\ CloseSocket(k).state = k.state /\ CloseSocket(k).wait = k.wait
        /\ CloseSocket(k).timer = k.timer /\ CloseSocket(k).token = k.token
        /\ CloseSocket(k).failed = k.failed
    BY DEF CloseSocket, ConnectionType
  <1>3. CloseSocket(k).open = FALSE
    BY DEF CloseSocket, ConnectionType
  <1>4. QED
    BY <1>1, <1>2, <1>3

(* Unless it is suspended, the connection waits to reconnect.                *)
LEMMA OnDisconnectedInternalSound ==
    ASSUME NEW k \in ConnectionType, NEW reset \in BOOLEAN,
           k.state = "Suspended" => ~k.open /\ ~k.wait
    PROVE  /\ Sound(OnDisconnectedInternal(k, reset))
           /\ ~Lost(OnDisconnectedInternal(k, reset))
  <1>1. CASE k.state = "Suspended"
    BY <1>1 DEF OnDisconnectedInternal, Sound, Lost, ConnectionType, States
  <1>2. CASE k.state # "Suspended"
    <2> DEFINE again == reset \/ k.persistent
               stopped(on) == [k EXCEPT !.timer = on, !.firstSent = FALSE, !.token = FALSE,
                                        !.state = "Reconnecting", !.wait = reset]
    <2>1. again \in BOOLEAN /\ (reset => again)
      BY DEF ConnectionType
    <2>2. ASSUME NEW on \in BOOLEAN, reset => on
          PROVE  Sound(stopped(on)) /\ ~Lost(stopped(on))
      BY <2>2 DEF Sound, Lost, ConnectionType, States
    <2>3. OnDisconnectedInternal(k, reset) = stopped(again)
      BY <1>2 DEF OnDisconnectedInternal, ConnectionType
    <2>4. QED
      <3> HIDE DEF again, stopped
      <3>1. QED
        BY <2>1, <2>2, <2>3
  <1>3. QED
    BY <1>1, <1>2

LEMMA DisconnectSound ==
    ASSUME NEW k \in ConnectionType, NEW reset \in BOOLEAN,
           k.state = "Suspended" => ~k.wait
    PROVE  Sound(Disconnect(k, reset)) /\ ~Lost(Disconnect(k, reset))
  BY CloseSocketSound, OnDisconnectedInternalSound DEF Disconnect

LEMMA SuspendConnectionSound ==
    ASSUME NEW k, Sound(k), NEW idle \in BOOLEAN
    PROVE  Sound(SuspendConnection(k, idle)) /\ ~Lost(SuspendConnection(k, idle))
  <1> DEFINE stopped == [k EXCEPT !.timer = FALSE, !.wait = FALSE]
             marked == [stopped EXCEPT !.state = IF idle THEN "Idle" ELSE "Suspended"]
  <1>1. CASE k.state \in {"Idle", "Suspended"}
    <2>1. SuspendConnection(k, idle) = stopped
      BY <1>1 DEF SuspendConnection
    <2>2. Sound(stopped) /\ ~Lost(stopped)
      BY <1>1 DEF Sound, Lost, ConnectionType, States
    <2>3. QED
      BY <2>1, <2>2
  <1>2. CASE k.state \notin {"Idle", "Suspended"}
    <2>1. SuspendConnection(k, idle) = Disconnect(marked, FALSE)
      BY <1>2 DEF SuspendConnection
    <2>2. marked \in ConnectionType /\ ~marked.wait
      BY DEF Sound, ConnectionType, States
    <2>3. QED
      BY <2>1, <2>2, DisconnectSound
  <1>3. QED
    BY <1>1, <1>2

(* A connect() that fails leaves the mark that becomes a task.               *)
LEMMA ConnectSound ==
    ASSUME NEW k, Sound(k), NEW ok \in BOOLEAN, NEW pending, Noticed(k, pending)
    PROVE  Sound(Connect(k, ok)) /\ Noticed(Connect(k, ok), pending)
  <1> DEFINE started == [k EXCEPT !.state = "Connecting", !.timer = FALSE, !.firstSent = FALSE]
             failure == ~ok
             count == IF started.open /\ started.leaked < MaxLeaked
                      THEN started.leaked + 1 ELSE started.leaked
             fresh == [started EXCEPT !.open = TRUE, !.established = FALSE,
                                      !.failed = failure, !.leaked = count]
  <1>1. CASE ~CanConnect(k)
    BY <1>1 DEF Connect
  <1>2. CASE CanConnect(k)
    <2>1. started \in ConnectionType /\ ~started.wait /\ ~started.token
      BY <1>2 DEF CanConnect, Sound, ConnectionType, States
    <2>2. /\ fresh \in ConnectionType /\ ~fresh.wait /\ ~fresh.token
          /\ fresh.state = "Connecting" /\ fresh.open /\ fresh.failed = failure
      <3>1. failure \in BOOLEAN
        OBVIOUS
      <3>2. started.state = "Connecting"
        BY DEF Sound, ConnectionType
      <3> HIDE DEF started
      <3>3. count \in 0..MaxLeaked
        <4>1. started.leaked \in 0..MaxLeaked
          BY <2>1 DEF ConnectionType
        <4>2. QED
          BY <4>1, ConnectionAssumption DEF ConnectionAssumption
      <3> HIDE DEF failure, count
      <3>4. fresh \in ConnectionType
        BY <2>1, <3>1, <3>3 DEF ConnectionType
      <3>5. fresh.open = TRUE
        BY <2>1 DEF ConnectionType
      <3>6. QED
        BY <2>1, <3>2, <3>4, <3>5 DEF ConnectionType
    <2>3. Connect(k, ok) = IF ok THEN fresh ELSE CloseSocket(fresh)
      BY <1>2 DEF Connect, OpenConnection
    <2>4. CASE ok
      BY <2>2, <2>3, <2>4 DEF Sound, Noticed, Lost
    <2>5. CASE ~ok
      <3> HIDE DEF fresh
      <3>1. CloseSocket(fresh).failed /\ ~CloseSocket(fresh).token
        BY <2>2, <2>5, CloseSocketSound
      <3>2. QED
        BY <2>2, <2>3, <2>5, <3>1, CloseSocketSound DEF Sound, Noticed, Lost
    <2>6. QED
      BY <2>4, <2>5
  <1>3. QED
    BY <1>1, <1>2

LEMMA SendDataSound ==
    ASSUME NEW k, Sound(k), NEW ok \in BOOLEAN, NEW pending, Noticed(k, pending)
    PROVE  Sound(SendData(k, ok)) /\ Noticed(SendData(k, ok), pending)
  <1> DEFINE ready == IF k.state \in {"Connecting", "Connected"} THEN k ELSE Connect(k, ok)
  <1>1. Sound(ready) /\ Noticed(ready, pending)
    BY ConnectSound
  <1> DEFINE count == IF ~ready.firstSent /\ ready.headers < 2
                      THEN ready.headers + 1 ELSE ready.headers
             sending == [ready EXCEPT !.firstSent = TRUE, !.headers = count]
  <1>2. SendData(k, ok) = IF ~ready.open THEN ready ELSE sending
    BY DEF SendData
  <1> HIDE DEF ready
  <1>3. count \in 0..2
    BY <1>1 DEF Sound, ConnectionType
  <1> HIDE DEF count
  <1>4. sending \in ConnectionType
    BY <1>1, <1>3 DEF Sound, ConnectionType
  <1>5. /\ sending.state = ready.state /\ sending.open = ready.open
        /\ sending.wait = ready.wait /\ sending.timer = ready.timer
        /\ sending.token = ready.token /\ sending.failed = ready.failed
    BY <1>1 DEF Sound, ConnectionType
  <1> HIDE DEF sending
  <1>6. QED
    BY <1>1, <1>2, <1>4, <1>5 DEF Sound, Noticed, Lost

LEMMA ReconnectSound ==
    ASSUME NEW k, Sound(k), NEW ok \in BOOLEAN
    PROVE  Sound(Reconnect(k, ok)) /\ Noticed(Reconnect(k, ok), FALSE)
  BY SuspendConnectionSound, ConnectSound DEF Reconnect, Noticed

LEMMA RestartSound ==
    ASSUME NEW k, Sound(k), NEW ok \in BOOLEAN
    PROVE  Sound(Restart(k, ok)) /\ Noticed(Restart(k, ok), FALSE)
  <1> DEFINE suspended == SuspendConnection(k, FALSE)
             connected == Connect(suspended, ok)
  <1>1. Sound(suspended) /\ Noticed(suspended, FALSE)
    BY SuspendConnectionSound DEF Noticed
  <1>2. Sound(connected) /\ Noticed(connected, FALSE)
    BY <1>1, ConnectSound
  <1>3. Restart(k, ok) = SendData(connected, TRUE)
    BY DEF Restart
  <1> HIDE DEF connected
  <1>4. QED
    BY <1>2, <1>3, SendDataSound

-----------------------------------------------------------------------------
(* The end of a handler: a failed connect() has become a task.               *)
LEMMA BecomesSound ==
    ASSUME NEW k, NEW rest \in Seq(Tasks), Sound(k), Noticed(k, Pending(rest)),
           Becomes(k, rest)
    PROVE  /\ Sound(c') /\ ~c'.failed
           /\ Noticed(c', Pending(tasks')) /\ tasks' \in Seq(Tasks)
  <1>1. c' = [k EXCEPT !.failed = FALSE]
    BY DEF Becomes
  <1>2. c'.failed = FALSE /\ c' \in ConnectionType
    BY <1>1 DEF Sound, ConnectionType
  <1>3. /\ c'.state = k.state /\ c'.open = k.open /\ c'.wait = k.wait
        /\ c'.timer = k.timer /\ c'.token = k.token
    BY <1>1 DEF Sound, ConnectionType
  <1>4. Sound(c')
    BY <1>2, <1>3 DEF Sound
  <1>5. tasks' \in Seq(Tasks)
    BY DEF Becomes, Tasks
  <1>6. Lost(c') => Pending(tasks')
    <2>1. CASE k.failed
      <3>1. tasks' = Append(rest, "disconnected")
        BY <2>1 DEF Becomes
      <3>2. /\ Len(rest) + 1 \in 1..Len(tasks')
            /\ tasks'[Len(rest) + 1] = "disconnected"
        BY <3>1 DEF Tasks
      <3>3. QED
        BY <3>2 DEF Pending
    <2>2. CASE ~k.failed
      <3>1. tasks' = rest
        BY <2>2 DEF Becomes
      <3>2. QED
        BY <1>3, <2>2, <3>1 DEF Noticed, Lost
    <2>3. QED
      BY <2>1, <2>2
  <1>7. QED
    BY <1>2, <1>4, <1>5, <1>6 DEF Noticed

LEMMA OutcomesAreBoolean == \A ok \in Outcomes : ok \in BOOLEAN
  BY DEF Outcomes

(* The turns of the loop that neither start nor leave the events.            *)
LEMMA TurnType ==
    ASSUME NEW p, \E i \in 1..Len(Phases) : p = Phases[i]
    PROVE  \E i \in 1..Len(Phases) : After(p) = Phases[i]
  <1> DEFINE i == CHOOSE j \in 1..Len(Phases) : Phases[j] = p
             n == 1 + (i % Len(Phases))
  <1>1. Len(Phases) = 9
    BY DEF Phases
  <1>2. i \in 1..Len(Phases)
    OBVIOUS
  <1> HIDE DEF i
  <1>3. n \in 1..Len(Phases)
    BY <1>1, <1>2
  <1>4. After(p) = Phases[n]
    BY DEF After, i
  <1>5. QED
    BY <1>3, <1>4

LEMMA InitInv == Init => Inv
  <1> SUFFICES ASSUME Init
               PROVE  Inv
    OBVIOUS
  <1>1. LoopType
    <2>1. phase = Phases[1] /\ 1 \in 1..Len(Phases)
      BY DEF Init, Phases
    <2>2. mask = {} /\ mask \in Masks
      BY DEF Init, Masks
    <2>3. QED
      BY <2>1, <2>2 DEF Init, LoopType
  <1>2. c \in ConnectionType
    BY ConnectionAssumption DEF Init, ConnectionType, States, ConnectionAssumption
  <1>3. c.state = "Idle" /\ c.wait = FALSE /\ c.token = FALSE /\ c.failed = FALSE
    BY DEF Init
  <1>4. QED
    BY <1>1, <1>2, <1>3 DEF Inv, Sound, Noticed, Lost

-----------------------------------------------------------------------------
(* The actions.                                                              *)

(* Handlers of the loop that end with Becomes and keep the waiting tasks.    *)
LEMMA HandlerKeepsInv ==
    ASSUME Inv, NEW k, Sound(k), Noticed(k, Pending(tasks)), Becomes(k, tasks),
           UNCHANGED <<network, loopVars>>
    PROVE  Inv'
  <1>1. /\ Sound(c') /\ ~c'.failed
        /\ Noticed(c', Pending(tasks')) /\ tasks' \in Seq(Tasks)
    BY BecomesSound DEF Inv, LoopType
  <1>2. LoopType'
    BY <1>1 DEF Inv, LoopType, loopVars
  <1>3. QED
    BY <1>1, <1>2 DEF Inv, Noticed, Lost, Sound, Pending

(* Parts of an event: the mask gets smaller.                                 *)
LEMMA PartKeepsInv ==
    ASSUME Inv, NEW k, Sound(k), Noticed(k, Pending(tasks)), Becomes(k, tasks),
           phase = "events", mask' \in Masks, UNCHANGED <<network, phase, budget, batch>>
    PROVE  Inv'
  <1>1. /\ Sound(c') /\ ~c'.failed
        /\ Noticed(c', Pending(tasks')) /\ tasks' \in Seq(Tasks)
    BY BecomesSound DEF Inv, LoopType
  <1>2. LoopType'
    BY <1>1 DEF Inv, LoopType
  <1>3. QED
    BY <1>1, <1>2 DEF Inv, Noticed, Lost, Sound, Pending

LEMMA GoOnKeepsInv == Inv /\ GoOn => Inv'
  <1> SUFFICES ASSUME Inv, GoOn
               PROVE  Inv'
    OBVIOUS
  <1>1. mask = {}
    BY DEF Inv, LoopType, GoOn, TaskPhases
  <1>2. \E i \in 1..Len(Phases) : phase' = Phases[i]
    BY TurnType DEF Inv, LoopType, GoOn
  <1>3. LoopType'
    BY <1>1, <1>2 DEF Inv, LoopType, GoOn
  <1>4. QED
    BY <1>3 DEF Inv, GoOn, Noticed, Lost, Sound, Pending

(* A task that is not the deferred disconnect leaves the one that waits.     *)
LEMMA RunTaskKeepsInv == Inv /\ RunTask => Inv'
  <1> SUFFICES ASSUME Inv, RunTask
               PROVE  Inv'
    OBVIOUS
  <1> DEFINE Result(ok) ==
        CASE Head(tasks) = "disconnected" -> OnDisconnectedInternal(c, FALSE)
          [] Head(tasks) = "suspend" -> SuspendConnection(c, FALSE)
          [] Head(tasks) = "connect" -> Connect(c, ok)
          [] Head(tasks) = "restart" -> Restart(c, ok)
  <1>1. PICK ok \in Outcomes : Becomes(Result(ok), Tail(tasks))
    BY DEF RunTask
  <1>2. ok \in BOOLEAN /\ Sound(c)
    BY OutcomesAreBoolean DEF Inv
  <1>3. /\ tasks \in Seq(Tasks) /\ tasks # <<>>
        /\ Head(tasks) \in Tasks /\ Tail(tasks) \in Seq(Tasks)
    BY DEF Inv, LoopType, RunTask
  <1>4. Head(tasks) # "disconnected" => (Pending(tasks) => Pending(Tail(tasks)))
    <2> SUFFICES ASSUME Head(tasks) # "disconnected", Pending(tasks)
                 PROVE  Pending(Tail(tasks))
      OBVIOUS
    <2>1. PICK i \in 1..Len(tasks) : tasks[i] = "disconnected"
      BY DEF Pending
    <2>2. i # 1
      BY <1>3, <2>1
    <2> DEFINE j == i - 1
    <2>3. j \in 1..Len(Tail(tasks)) /\ Tail(tasks)[j] = tasks[i]
      BY <1>3, <2>1, <2>2
    <2>4. QED
      BY <2>1, <2>3 DEF Pending
  <1>5. Sound(Result(ok)) /\ Noticed(Result(ok), Pending(Tail(tasks)))
    <2>1. CASE Head(tasks) = "disconnected"
      <3>1. Result(ok) = OnDisconnectedInternal(c, FALSE)
        BY <2>1
      <3>2. c.state = "Suspended" => ~c.open /\ ~c.wait
        BY <1>2 DEF Sound
      <3>3. Sound(OnDisconnectedInternal(c, FALSE)) /\ ~Lost(OnDisconnectedInternal(c, FALSE))
        BY <1>2, <3>2, OnDisconnectedInternalSound DEF Sound
      <3>4. QED
        BY <3>1, <3>3 DEF Noticed
    <2>2. CASE Head(tasks) = "suspend"
      <3>1. Result(ok) = SuspendConnection(c, FALSE)
        BY <2>2
      <3>2. QED
        BY <1>2, <3>1, SuspendConnectionSound DEF Noticed
    <2>3. CASE Head(tasks) = "connect"
      <3>1. Result(ok) = Connect(c, ok)
        BY <2>3
      <3>2. Noticed(c, Pending(Tail(tasks)))
        BY <1>4, <2>3 DEF Inv, Noticed
      <3>3. QED
        BY <1>2, <3>1, <3>2, ConnectSound
    <2>4. CASE Head(tasks) = "restart"
      <3>1. Result(ok) = Restart(c, ok)
        BY <2>4
      <3>2. QED
        BY <1>2, <3>1, RestartSound DEF Noticed
    <2>5. QED
      BY <1>3, <2>1, <2>2, <2>3, <2>4 DEF Tasks, Calls
  <1> HIDE DEF Result
  <1>6. /\ Sound(c') /\ ~c'.failed
        /\ Noticed(c', Pending(tasks')) /\ tasks' \in Seq(Tasks)
    BY <1>1, <1>3, <1>5, BecomesSound
  <1>7. budget' \in Nat
    <2>1. CASE budget = 0
      BY <1>3, <2>1 DEF RunTask
    <2>2. CASE budget # 0
      BY <2>2 DEF RunTask, Inv, LoopType
    <2>3. QED
      BY <2>1, <2>2
  <1>8. LoopType'
    BY <1>6, <1>7 DEF Inv, LoopType, RunTask
  <1>9. QED
    BY <1>6, <1>8 DEF Inv, Noticed, Lost, Sound, Pending

LEMMA EpollWaitKeepsInv == Inv /\ EpollWait => Inv'
  <1> SUFFICES ASSUME Inv, EpollWait
               PROVE  Inv'
    OBVIOUS
  <1>1. batch' \in Seq(Masks)
    <2>1. PICK own \in OwnEvents \cup {{}}, other \in (IF c.leaked > 0 THEN Masks ELSE {{}}) :
            batch' = Occurring(own) \o Occurring(other)
      BY DEF EpollWait
    <2>2. own \in Masks /\ other \in Masks
      BY DEF OwnEvents, Masks
    <2>3. Occurring(own) \in Seq(Masks) /\ Occurring(other) \in Seq(Masks)
      BY <2>2 DEF Occurring
    <2>4. QED
      BY <2>1, <2>3
  <1>2. mask = {} /\ \E i \in 1..Len(Phases) : phase' = Phases[i]
    BY TurnType DEF Inv, LoopType, EpollWait
  <1>3. LoopType'
    BY <1>1, <1>2 DEF Inv, LoopType, EpollWait
  <1>4. QED
    BY <1>3 DEF Inv, EpollWait, Noticed, Lost, Sound, Pending

LEMMA NextEventKeepsInv == Inv /\ NextEvent => Inv'
  <1> SUFFICES ASSUME Inv, NextEvent
               PROVE  Inv'
    OBVIOUS
  <1>1. batch \in Seq(Masks) /\ batch # <<>>
    BY DEF Inv, LoopType, NextEvent
  <1>2. mask' \in Masks /\ batch' \in Seq(Masks)
    BY <1>1 DEF NextEvent
  <1>3. LoopType'
    BY <1>2 DEF Inv, LoopType, NextEvent
  <1>4. QED
    BY <1>3 DEF Inv, NextEvent, Noticed, Lost, Sound, Pending

(* A connection is disconnected from whatever state it is in.                *)
LEMMA DisconnectFromSound ==
    ASSUME NEW k, Sound(k), NEW reset \in BOOLEAN, NEW pending
    PROVE  Sound(Disconnect(k, reset)) /\ Noticed(Disconnect(k, reset), pending)
  <1>1. k \in ConnectionType /\ (k.state = "Suspended" => ~k.wait)
    BY DEF Sound
  <1>2. QED
    BY <1>1, DisconnectSound DEF Noticed

LEMMA FailsKeepsInv ==
    ASSUME Inv, phase = "events", Fails, UNCHANGED <<network, phase, budget, batch>>
    PROVE  Inv'
  <1>1. PICK reset \in BOOLEAN : Becomes(Disconnect(c, reset), tasks)
    BY DEF Fails
  <1>2. Sound(Disconnect(c, reset)) /\ Noticed(Disconnect(c, reset), Pending(tasks))
    BY DisconnectFromSound DEF Inv
  <1>3. mask' \in Masks
    BY DEF Fails, Masks
  <1>4. QED
    BY <1>1, <1>2, <1>3, PartKeepsInv

LEMMA EventInKeepsInv == Inv /\ EventIn => Inv'
  <1> SUFFICES ASSUME Inv, EventIn
               PROVE  Inv'
    OBVIOUS
  <1>1. phase = "events" /\ UNCHANGED <<network, phase, budget, batch>>
    BY DEF EventIn
  <1>2. (mask \ {"in"}) \in Masks /\ {} \in Masks
    BY DEF Inv, LoopType, Masks
  <1>3. CASE Fails
    BY <1>1, <1>3, FailsKeepsInv
  <1>4. CASE mask' = mask \ {"in"} /\ UNCHANGED <<c, tasks>>
    <2>1. LoopType'
      BY <1>1, <1>2, <1>4 DEF Inv, LoopType
    <2>2. QED
      BY <1>4, <2>1 DEF Inv, Noticed, Lost, Sound, Pending
  <1>5. ASSUME NEW ok \in Outcomes,
               mask' = mask \ {"in"} /\ Becomes(Reconnect(c, ok), tasks)
        PROVE  Inv'
    <2>1. ok \in BOOLEAN
      BY OutcomesAreBoolean
    <2>2. Sound(Reconnect(c, ok)) /\ Noticed(Reconnect(c, ok), Pending(tasks))
      BY <2>1, ReconnectSound DEF Inv, Noticed
    <2>3. QED
      BY <1>1, <1>2, <1>5, <2>2, PartKeepsInv
  <1>6. ASSUME NEW ok \in Outcomes,
               mask' = {} /\ Becomes(Disconnect(Reconnect(c, ok), FALSE), tasks)
        PROVE  Inv'
    <2>1. ok \in BOOLEAN
      BY OutcomesAreBoolean
    <2>2. Sound(Reconnect(c, ok))
      BY <2>1, ReconnectSound DEF Inv
    <2>3. /\ Sound(Disconnect(Reconnect(c, ok), FALSE))
          /\ Noticed(Disconnect(Reconnect(c, ok), FALSE), Pending(tasks))
      BY <2>2, DisconnectFromSound
    <2>4. QED
      BY <1>1, <1>2, <1>6, <2>3, PartKeepsInv
  <1>7. QED
    BY <1>3, <1>4, <1>5, <1>6 DEF EventIn

(* onConnected only runs for a connection that has a socket.                 *)
LEMMA EventOutKeepsInv == Inv /\ EventOut => Inv'
  <1> SUFFICES ASSUME Inv, EventOut
               PROVE  Inv'
    OBVIOUS
  <1>1. phase = "events" /\ UNCHANGED <<network, phase, budget, batch>>
    BY DEF EventOut
  <1>2. (mask \ {"out"}) \in Masks /\ {} \in Masks
    BY DEF Inv, LoopType, Masks
  <1>3. CASE Fails
    BY <1>1, <1>3, FailsKeepsInv
  <1>4. ASSUME c.open,
               NEW k \in IF c.connectedSent THEN {c}
                         ELSE {OnConnected(c), SendData(OnConnected(c), TRUE)}
        PROVE  Sound(k) /\ Noticed(k, Pending(tasks))
    <2>1. Sound(c) /\ Noticed(c, Pending(tasks))
      BY DEF Inv
    <2>2. Sound(OnConnected(c)) /\ Noticed(OnConnected(c), Pending(tasks))
      <3>1. OnConnected(c) \in ConnectionType
        BY <2>1 DEF OnConnected, Sound, ConnectionType, States
      <3>2. /\ OnConnected(c).state = "Connected" /\ OnConnected(c).open = c.open
            /\ OnConnected(c).wait = c.wait /\ OnConnected(c).timer = c.timer
        BY <2>1 DEF OnConnected, Sound, ConnectionType
      <3>3. QED
        BY <1>4, <2>1, <3>1, <3>2 DEF Sound, Noticed, Lost
    <2>3. /\ Sound(SendData(OnConnected(c), TRUE))
          /\ Noticed(SendData(OnConnected(c), TRUE), Pending(tasks))
      BY <2>2, SendDataSound
    <2>4. QED
      BY <1>4, <2>1, <2>2, <2>3
  <1>5. ASSUME NEW k, Sound(k), Noticed(k, Pending(tasks)), mask' = mask \ {"out"},
               Becomes([k EXCEPT !.connectedSent = TRUE], tasks)
        PROVE  Inv'
    <2> DEFINE sent == [k EXCEPT !.connectedSent = TRUE]
    <2>1. sent \in ConnectionType
      BY <1>5 DEF Sound, ConnectionType
    <2>2. /\ sent.state = k.state /\ sent.open = k.open /\ sent.wait = k.wait
          /\ sent.timer = k.timer /\ sent.token = k.token /\ sent.failed = k.failed
      BY <1>5 DEF Sound, ConnectionType
    <2> HIDE DEF sent
    <2>3. Sound(sent) /\ Noticed(sent, Pending(tasks))
      BY <1>5, <2>1, <2>2 DEF Sound, Noticed, Lost
    <2>4. Becomes(sent, tasks)
      BY <1>5 DEF sent
    <2>5. QED
      BY <1>1, <1>2, <1>5, <2>3, <2>4, PartKeepsInv
  <1>6. ASSUME NEW k, Sound(k), mask' = {}, Becomes(Disconnect(k, FALSE), tasks)
        PROVE  Inv'
    <2>1. /\ Sound(Disconnect(k, FALSE))
          /\ Noticed(Disconnect(k, FALSE), Pending(tasks))
      BY <1>6, DisconnectFromSound
    <2>2. QED
      BY <1>1, <1>2, <1>6, <2>1, PartKeepsInv
  <1>7. QED
    BY <1>3, <1>4, <1>5, <1>6 DEF EventOut

LEMMA EventHupKeepsInv == Inv /\ EventHup => Inv'
  <1> SUFFICES ASSUME Inv, EventHup
               PROVE  Inv'
    OBVIOUS
  <1>1. Sound(Disconnect(c, FALSE)) /\ Noticed(Disconnect(c, FALSE), Pending(tasks))
    BY DisconnectFromSound DEF Inv
  <1>2. mask' \in Masks
    BY DEF EventHup, Masks
  <1>3. QED
    BY <1>1, <1>2, PartKeepsInv DEF EventHup

LEMMA TimerFiresKeepsInv == Inv /\ TimerFires => Inv'
  <1> SUFFICES ASSUME Inv, TimerFires
               PROVE  Inv'
    OBVIOUS
  <1> DEFINE fired == [c EXCEPT !.timer = FALSE, !.wait = FALSE]
  <1>1. PICK ok \in Outcomes : Becomes(Connect(fired, ok), tasks)
    BY DEF TimerFires
  <1>2. Sound(fired) /\ Noticed(fired, Pending(tasks))
    <2>1. fired \in ConnectionType
      BY DEF Inv, Sound, ConnectionType
    <2>2. /\ fired.state = c.state /\ fired.open = c.open /\ fired.token = c.token
          /\ fired.wait = FALSE /\ fired.timer = FALSE /\ fired.failed = c.failed
      BY DEF Inv, Sound, ConnectionType
    <2> HIDE DEF fired
    <2>3. QED
      BY <2>1, <2>2 DEF Inv, Sound, Noticed, Lost
  <1> HIDE DEF fired
  <1>3. Sound(Connect(fired, ok)) /\ Noticed(Connect(fired, ok), Pending(tasks))
    BY <1>2, ConnectSound, OutcomesAreBoolean
  <1>4. QED
    BY <1>1, <1>3, HandlerKeepsInv DEF TimerFires

LEMMA CheckTimeoutKeepsInv == Inv /\ CheckTimeout => Inv'
  <1> SUFFICES ASSUME Inv, CheckTimeout
               PROVE  Inv'
    OBVIOUS
  <1>1. Sound(Disconnect(c, FALSE)) /\ Noticed(Disconnect(c, FALSE), Pending(tasks))
    BY DisconnectFromSound DEF Inv
  <1>2. QED
    BY <1>1, HandlerKeepsInv DEF CheckTimeout

LEMMA PassKeepsInv == Inv /\ (PassConnects \/ PassSends) => Inv'
  <1>1. ASSUME Inv, PassConnects
        PROVE  Inv'
    <2>1. PICK ok \in Outcomes : Becomes(Connect(c, ok), tasks)
      BY <1>1 DEF PassConnects
    <2>2. Sound(Connect(c, ok)) /\ Noticed(Connect(c, ok), Pending(tasks))
      BY <1>1, ConnectSound, OutcomesAreBoolean DEF Inv
    <2>3. QED
      BY <1>1, <2>1, <2>2, HandlerKeepsInv DEF PassConnects
  <1>2. ASSUME Inv, PassSends
        PROVE  Inv'
    <2>1. Sound(SendData(c, TRUE)) /\ Noticed(SendData(c, TRUE), Pending(tasks))
      BY <1>2, SendDataSound DEF Inv
    <2>2. QED
      BY <1>2, <2>1, HandlerKeepsInv DEF PassSends
  <1>3. QED
    BY <1>1, <1>2

LEMMA SleepKeepsInv == Inv /\ Sleep => Inv'
  <1> SUFFICES ASSUME Inv, Sleep
               PROVE  Inv'
    OBVIOUS
  <1> DEFINE k == SuspendConnection(c, FALSE)
  <1>1. Sound(k) /\ Noticed(k, Pending(tasks))
    BY SuspendConnectionSound DEF Inv, Noticed
  <1> HIDE DEF k
  <1>2. Becomes(k, tasks)
    BY DEF Sleep, k
  <1>3. /\ Sound(c') /\ ~c'.failed
        /\ Noticed(c', Pending(tasks')) /\ tasks' \in Seq(Tasks)
    BY <1>1, <1>2, BecomesSound DEF Inv, LoopType
  <1>4. mask = {} /\ phase' = Phases[1] /\ 1 \in 1..Len(Phases)
    BY DEF Inv, LoopType, Sleep, Phases
  <1>5. LoopType'
    BY <1>3, <1>4 DEF Inv, LoopType, Sleep
  <1>6. QED
    BY <1>3, <1>5 DEF Inv, Noticed, Lost, Sound, Pending

LEMMA OthersKeepInv == Inv /\ (ScheduleTask \/ NetworkChanges \/ Establish) => Inv'
  <1>1. ASSUME Inv, ScheduleTask
        PROVE  Inv'
    <2>1. PICK t \in Calls : tasks' = Append(tasks, t)
      BY <1>1 DEF ScheduleTask
    <2>2. tasks' \in Seq(Tasks) /\ (Pending(tasks) => Pending(tasks'))
      BY <1>1, <2>1 DEF Inv, LoopType, Tasks, Pending
    <2>3. UNCHANGED <<c, network, phase, budget, batch, mask>>
      BY <1>1 DEF ScheduleTask, loopVars
    <2>4. LoopType'
      BY <1>1, <2>2, <2>3 DEF Inv, LoopType
    <2>5. QED
      BY <1>1, <2>2, <2>3, <2>4 DEF Inv, Noticed, Lost, Sound
  <1>2. ASSUME Inv, NetworkChanges
        PROVE  Inv'
    <2>1. LoopType'
      BY <1>2 DEF Inv, LoopType, NetworkChanges, loopVars
    <2>2. QED
      BY <1>2, <2>1 DEF Inv, NetworkChanges, Noticed, Lost, Sound, Pending
  <1>3. ASSUME Inv, Establish
        PROVE  Inv'
    <2>1. c' = [c EXCEPT !.established = TRUE] /\ UNCHANGED <<network, tasks, loopVars>>
      BY <1>3 DEF Establish
    <2>2. c' \in ConnectionType
      BY <1>3, <2>1 DEF Inv, Sound, ConnectionType
    <2>3. /\ c'.state = c.state /\ c'.open = c.open /\ c'.wait = c.wait
          /\ c'.timer = c.timer /\ c'.token = c.token /\ c'.failed = c.failed
      BY <1>3, <2>1 DEF Inv, Sound, ConnectionType
    <2>4. LoopType'
      BY <1>3, <2>1 DEF Inv, LoopType, loopVars
    <2>5. Pending(tasks') <=> Pending(tasks)
      BY <2>1 DEF Pending
    <2>6. QED
      BY <1>3, <2>2, <2>3, <2>4, <2>5 DEF Inv, Noticed, Lost, Sound
  <1>4. QED
    BY <1>1, <1>2, <1>3

LEMMA NextKeepsInv == Inv /\ [Next]_vars => Inv'
  <1> SUFFICES ASSUME Inv, [Next]_vars
               PROVE  Inv'
    OBVIOUS
  <1>1. CASE Loop
    BY <1>1, GoOnKeepsInv, RunTaskKeepsInv, EpollWaitKeepsInv, NextEventKeepsInv,
       EventInKeepsInv, EventOutKeepsInv, EventHupKeepsInv DEF Loop
  <1>2. CASE TimerFires \/ CheckTimeout \/ PassConnects \/ PassSends \/ Sleep
    BY <1>2, TimerFiresKeepsInv, CheckTimeoutKeepsInv, PassKeepsInv, SleepKeepsInv
  <1>3. CASE ScheduleTask \/ NetworkChanges \/ Establish
    BY <1>3, OthersKeepInv
  <1>4. CASE UNCHANGED vars
    BY <1>4 DEF vars, loopVars, Inv, LoopType, Noticed, Lost, Sound, Pending
  <1>5. QED
    BY <1>1, <1>2, <1>3, <1>4 DEF Next

LEMMA SpecInv == Spec => []Inv
  BY InitInv, NextKeepsInv, PTL DEF Spec

-----------------------------------------------------------------------------
(* Every variable keeps its type, an event is only dispatched in its turn,   *)
(* and no handler ends with a failed connect() that is not a task.           *)
THEOREM TypeCorrect == Spec => []TypeOK
  <1>1. Inv => TypeOK
    BY DEF Inv, LoopType, Sound, TypeOK
  <1>2. QED
    BY <1>1, SpecInv, PTL

(* A connection never waits for a reconnect timer that is not running:       *)
(* otherwise connect() would return at once for ever.                        *)
THEOREM TheWaitEnds == Spec => []WaitEnds
  <1>1. Inv => WaitEnds
    BY DEF Inv, Sound, WaitEnds
  <1>2. QED
    BY <1>1, SpecInv, PTL

(* The token that requests are sent with belongs to a connection that has a  *)
(* socket, whatever stale event or deferred disconnect came before.          *)
THEOREM ATokenMeansASocket == Spec => []TokenMeansSocket
  <1>1. Inv => TokenMeansSocket
    BY DEF Inv, Sound, TokenMeansSocket
  <1>2. QED
    BY <1>1, SpecInv, PTL

(* suspendConnection leaves neither a socket nor a timer, and no task or     *)
(* event brings one back before the next connect().                          *)
THEOREM ASuspendedConnectionIsClosed == Spec => []SuspendedIsClosed
  <1>1. Inv => SuspendedIsClosed
    BY DEF Inv, Sound, SuspendedIsClosed
  <1>2. QED
    BY <1>1, SpecInv, PTL

(* A connection whose socket is gone although its state says otherwise has a *)
(* deferred onDisconnected in the queue, however many tasks come first.      *)
THEOREM ALossIsNoticed == Spec => []LossIsNoticed
  <1>1. Inv => LossIsNoticed
    BY DEF Inv, Noticed, Lost, Pending, LossIsNoticed
  <1>2. QED
    BY <1>1, SpecInv, PTL
-----------------------------------------------------------------------------
(* Where connect() does not fail before it returns, the state tells whether  *)
(* there is a socket, and the stream has at most one first packet.  A        *)
(* deferred disconnect would break this: there is none.                      *)
Orderly(k) ==
    ~k.syncFailures =>
        /\ k.leaked = 0 /\ ~k.failed
        /\ k.open <=> k.state \in {"Connecting", "Connected"}
        /\ k.headers = IF k.firstSent THEN 1 ELSE 0
        /\ k.firstSent => k.open

InOrder == Orderly(c) /\ (~c.syncFailures => ~Pending(tasks))

LEMMA DisconnectOrderly ==
    ASSUME NEW k \in ConnectionType, NEW reset \in BOOLEAN,
           ~k.syncFailures => k.leaked = 0 /\ ~k.failed
    PROVE  /\ Orderly(Disconnect(k, reset))
           /\ Disconnect(k, reset).syncFailures = k.syncFailures
  <1> DEFINE closed == CloseSocket(k)
  <1>1. /\ closed \in ConnectionType /\ closed.state = k.state
        /\ closed.leaked = k.leaked /\ closed.failed = k.failed
        /\ closed.syncFailures = k.syncFailures /\ closed.headers = 0
        /\ closed.open = FALSE
    BY CloseSocketSound DEF CloseSocket, ConnectionType
  <1>2. Disconnect(k, reset) = OnDisconnectedInternal(closed, reset)
    BY DEF Disconnect
  <1> HIDE DEF closed
  <1> DEFINE d == OnDisconnectedInternal(closed, reset)
  <1>3. /\ d.leaked = k.leaked /\ d.failed = k.failed /\ d.syncFailures = k.syncFailures
        /\ d.headers = 0 /\ d.open = FALSE /\ d.firstSent = FALSE
        /\ d.state \in {"Suspended", "Reconnecting"}
    BY <1>1 DEF OnDisconnectedInternal, ConnectionType
  <1> HIDE DEF d
  <1>4. QED
    BY <1>2, <1>3 DEF Orderly, d

LEMMA SuspendConnectionOrderly ==
    ASSUME NEW k \in ConnectionType, Orderly(k), NEW idle \in BOOLEAN
    PROVE  /\ Orderly(SuspendConnection(k, idle))
           /\ SuspendConnection(k, idle).syncFailures = k.syncFailures
  <1> DEFINE stopped == [k EXCEPT !.timer = FALSE, !.wait = FALSE]
             marked == [stopped EXCEPT !.state = IF idle THEN "Idle" ELSE "Suspended"]
  <1>1. /\ stopped.leaked = k.leaked /\ stopped.failed = k.failed
        /\ stopped.syncFailures = k.syncFailures /\ stopped.open = k.open
        /\ stopped.state = k.state /\ stopped.headers = k.headers
        /\ stopped.firstSent = k.firstSent
    BY DEF ConnectionType
  <1>2. /\ marked \in ConnectionType /\ marked.leaked = k.leaked
        /\ marked.failed = k.failed /\ marked.syncFailures = k.syncFailures
    BY DEF ConnectionType, States
  <1>3. SuspendConnection(k, idle) =
            IF k.state \in {"Idle", "Suspended"} THEN stopped ELSE Disconnect(marked, FALSE)
    BY DEF SuspendConnection
  <1> HIDE DEF stopped, marked
  <1>4. CASE k.state \in {"Idle", "Suspended"}
    BY <1>1, <1>3, <1>4 DEF Orderly
  <1>5. CASE k.state \notin {"Idle", "Suspended"}
    <2>1. ~marked.syncFailures => marked.leaked = 0 /\ ~marked.failed
      BY <1>2 DEF Orderly
    <2>2. Orderly(Disconnect(marked, FALSE)) /\ Disconnect(marked, FALSE).syncFailures = k.syncFailures
      BY <1>2, <2>1, DisconnectOrderly
    <2>3. QED
      BY <1>3, <1>5, <2>2
  <1>6. QED
    BY <1>4, <1>5

LEMMA ConnectOrderly ==
    ASSUME NEW k \in ConnectionType, Orderly(k), NEW ok \in BOOLEAN, k.syncFailures \/ ok
    PROVE  /\ Orderly(Connect(k, ok))
           /\ Connect(k, ok).syncFailures = k.syncFailures
  <1> DEFINE started == [k EXCEPT !.state = "Connecting", !.timer = FALSE, !.firstSent = FALSE]
             failure == ~ok
             count == IF started.open /\ started.leaked < MaxLeaked
                      THEN started.leaked + 1 ELSE started.leaked
             fresh == [started EXCEPT !.open = TRUE, !.established = FALSE,
                                      !.failed = failure, !.leaked = count]
  <1>1. CASE ~CanConnect(k)
    BY <1>1 DEF Connect
  <1>2. CASE CanConnect(k)
    <2>1. /\ started.open = k.open /\ started.leaked = k.leaked /\ started.headers = k.headers
          /\ started.syncFailures = k.syncFailures /\ started.state = "Connecting"
          /\ started.firstSent = FALSE
      BY DEF ConnectionType
    <2>2. /\ fresh.open = TRUE /\ fresh.failed = failure /\ fresh.leaked = count
          /\ fresh.headers = started.headers /\ fresh.syncFailures = started.syncFailures
          /\ fresh.state = started.state /\ fresh.firstSent = started.firstSent
      BY DEF ConnectionType
    <2>3. Connect(k, ok) = IF ok THEN fresh ELSE CloseSocket(fresh)
      BY <1>2 DEF Connect, OpenConnection
    <2>4. CloseSocket(fresh).syncFailures = fresh.syncFailures
      BY DEF CloseSocket, ConnectionType
    <2>5. k.state \notin {"Connecting", "Connected"}
      BY <1>2 DEF CanConnect
    <2>6. ~k.syncFailures => ~k.open /\ k.leaked = 0 /\ k.headers = 0 /\ ok
      BY <2>5 DEF Orderly
    <2>7. ~k.syncFailures => count = 0
      BY <2>1, <2>6
    <2> HIDE DEF fresh, started, count
    <2>8. ~k.syncFailures => Orderly(fresh)
      BY <2>1, <2>2, <2>6, <2>7 DEF Orderly
    <2>9. QED
      BY <2>1, <2>2, <2>3, <2>4, <2>6, <2>8 DEF Orderly
  <1>3. QED
    BY <1>1, <1>2

LEMMA SendDataOrderly ==
    ASSUME NEW k, Sound(k), Orderly(k), NEW ok \in BOOLEAN, k.syncFailures \/ ok
    PROVE  /\ Orderly(SendData(k, ok))
           /\ SendData(k, ok).syncFailures = k.syncFailures
  <1> DEFINE ready == IF k.state \in {"Connecting", "Connected"} THEN k ELSE Connect(k, ok)
  <1>1. ready \in ConnectionType
    BY ConnectSound DEF Sound, Noticed, Lost
  <1>2. Orderly(ready) /\ ready.syncFailures = k.syncFailures
    BY ConnectOrderly DEF Sound
  <1> DEFINE count == IF ~ready.firstSent /\ ready.headers < 2
                      THEN ready.headers + 1 ELSE ready.headers
             sending == [ready EXCEPT !.firstSent = TRUE, !.headers = count]
  <1>3. SendData(k, ok) = IF ~ready.open THEN ready ELSE sending
    BY DEF SendData
  <1> HIDE DEF ready
  <1>4. /\ sending.leaked = ready.leaked /\ sending.failed = ready.failed
        /\ sending.open = ready.open /\ sending.state = ready.state
        /\ sending.firstSent = TRUE /\ sending.headers = count
        /\ sending.syncFailures = ready.syncFailures
    BY <1>1 DEF ConnectionType
  <1>5. ~ready.syncFailures => count = 1
    BY <1>2 DEF Orderly
  <1> HIDE DEF sending, count
  <1>6. ready.open => Orderly(sending)
    BY <1>2, <1>4, <1>5 DEF Orderly
  <1>7. QED
    BY <1>2, <1>3, <1>4, <1>6

LEMMA ReconnectOrderly ==
    ASSUME NEW k, Sound(k), Orderly(k), NEW ok \in BOOLEAN, k.syncFailures \/ ok
    PROVE  /\ Orderly(Reconnect(k, ok))
           /\ Reconnect(k, ok).syncFailures = k.syncFailures
  <1> DEFINE suspended == SuspendConnection(k, TRUE)
  <1>1. suspended \in ConnectionType
    BY SuspendConnectionSound DEF Sound
  <1>2. Orderly(suspended) /\ suspended.syncFailures = k.syncFailures
    BY SuspendConnectionOrderly DEF Sound
  <1>3. Reconnect(k, ok) = Connect(suspended, ok)
    BY DEF Reconnect
  <1> HIDE DEF suspended
  <1>4. QED
    BY <1>1, <1>2, <1>3, ConnectOrderly

LEMMA RestartOrderly ==
    ASSUME NEW k, Sound(k), Orderly(k), NEW ok \in BOOLEAN, k.syncFailures \/ ok
    PROVE  /\ Orderly(Restart(k, ok))
           /\ Restart(k, ok).syncFailures = k.syncFailures
  <1> DEFINE suspended == SuspendConnection(k, FALSE)
             connected == Connect(suspended, ok)
  <1>1. Sound(suspended) /\ Noticed(suspended, FALSE)
    BY SuspendConnectionSound DEF Noticed
  <1>2. Orderly(suspended) /\ suspended.syncFailures = k.syncFailures
    BY SuspendConnectionOrderly DEF Sound
  <1> HIDE DEF suspended
  <1>3. Sound(connected)
    BY <1>1, ConnectSound
  <1>4. Orderly(connected) /\ connected.syncFailures = k.syncFailures
    BY <1>1, <1>2, ConnectOrderly DEF Sound
  <1>5. Restart(k, ok) = SendData(connected, TRUE)
    BY DEF Restart, suspended
  <1> HIDE DEF connected
  <1>6. QED
    BY <1>3, <1>4, <1>5, SendDataOrderly

(* A handler that is orderly schedules no disconnect.                        *)
LEMMA BecomesOrderly ==
    ASSUME NEW k \in ConnectionType, NEW rest, Orderly(k),
           ~k.syncFailures => ~Pending(rest), Becomes(k, rest)
    PROVE  InOrder'
  <1>1. c' = [k EXCEPT !.failed = FALSE]
    BY DEF Becomes
  <1>2. /\ c'.failed = FALSE /\ c'.leaked = k.leaked /\ c'.open = k.open
        /\ c'.state = k.state /\ c'.headers = k.headers /\ c'.firstSent = k.firstSent
        /\ c'.syncFailures = k.syncFailures
    BY <1>1 DEF ConnectionType
  <1>3. Orderly(c')
    BY <1>2 DEF Orderly
  <1>4. ~k.syncFailures => tasks' = rest
    BY DEF Becomes, Orderly
  <1>5. ~c'.syncFailures => ~Pending(tasks')
    BY <1>2, <1>4
  <1>6. QED
    BY <1>3, <1>5 DEF InOrder, Orderly, Pending

LEMMA OutcomesWithoutFailure ==
    \A ok \in Outcomes : ok \in BOOLEAN /\ (c.syncFailures \/ ok)
  BY DEF Outcomes

LEMMA UnchangedInOrder == InOrder /\ UNCHANGED <<c, tasks>> => InOrder'
  BY DEF InOrder, Orderly, Pending

LEMMA RunTaskInOrder == Inv /\ InOrder /\ RunTask => InOrder'
  <1> SUFFICES ASSUME Inv, InOrder, RunTask
               PROVE  InOrder'
    OBVIOUS
  <1> DEFINE Result(ok) ==
        CASE Head(tasks) = "disconnected" -> OnDisconnectedInternal(c, FALSE)
          [] Head(tasks) = "suspend" -> SuspendConnection(c, FALSE)
          [] Head(tasks) = "connect" -> Connect(c, ok)
          [] Head(tasks) = "restart" -> Restart(c, ok)
  <1>1. PICK ok \in Outcomes : Becomes(Result(ok), Tail(tasks))
    BY DEF RunTask
  <1>2. ok \in BOOLEAN /\ (c.syncFailures \/ ok)
    BY OutcomesWithoutFailure
  <1>3. Sound(c) /\ Orderly(c) /\ c \in ConnectionType
    BY DEF Inv, InOrder, Sound
  <1>4. tasks \in Seq(Tasks) /\ tasks # <<>> /\ Head(tasks) \in Tasks
    BY DEF Inv, LoopType, RunTask
  <1>5. Pending(Tail(tasks)) => Pending(tasks)
    <2> SUFFICES ASSUME Pending(Tail(tasks))
                 PROVE  Pending(tasks)
      OBVIOUS
    <2>1. PICK i \in 1..Len(Tail(tasks)) : Tail(tasks)[i] = "disconnected"
      BY DEF Pending
    <2> DEFINE j == i + 1
    <2>2. j \in 1..Len(tasks) /\ tasks[j] = "disconnected"
      BY <1>4, <2>1
    <2>3. QED
      BY <2>2 DEF Pending
  <1>6. Head(tasks) = "disconnected" => c.syncFailures
    <2>1. 1 \in 1..Len(tasks) /\ Head(tasks) = tasks[1]
      BY <1>4
    <2>2. QED
      BY <2>1 DEF InOrder, Pending
  <1>7. /\ Result(ok) \in ConnectionType /\ Orderly(Result(ok))
        /\ Result(ok).syncFailures = c.syncFailures
    <2>1. CASE Head(tasks) = "disconnected"
      <3>1. Result(ok) = OnDisconnectedInternal(c, FALSE)
        BY <2>1
      <3>2. OnDisconnectedInternal(c, FALSE) \in ConnectionType
        BY <1>3, OnDisconnectedInternalSound DEF Sound
      <3>3. OnDisconnectedInternal(c, FALSE).syncFailures = c.syncFailures
        BY <1>3 DEF OnDisconnectedInternal, ConnectionType
      <3>4. QED
        BY <1>6, <2>1, <3>1, <3>2, <3>3 DEF Orderly
    <2>2. CASE Head(tasks) = "suspend"
      <3>1. Result(ok) = SuspendConnection(c, FALSE)
        BY <2>2
      <3>2. SuspendConnection(c, FALSE) \in ConnectionType
        BY <1>3, SuspendConnectionSound DEF Sound
      <3>3. QED
        BY <1>3, <3>1, <3>2, SuspendConnectionOrderly
    <2>3. CASE Head(tasks) = "connect"
      <3>1. Result(ok) = Connect(c, ok)
        BY <2>3
      <3>2. Connect(c, ok) \in ConnectionType
        BY <1>2, <1>3, ConnectSound DEF Sound, Inv
      <3>3. QED
        BY <1>2, <1>3, <3>1, <3>2, ConnectOrderly
    <2>4. CASE Head(tasks) = "restart"
      <3>1. Result(ok) = Restart(c, ok)
        BY <2>4
      <3>2. Restart(c, ok) \in ConnectionType
        BY <1>2, <1>3, RestartSound DEF Sound
      <3>3. QED
        BY <1>2, <1>3, <3>1, <3>2, RestartOrderly
    <2>5. QED
      BY <1>4, <2>1, <2>2, <2>3, <2>4 DEF Tasks, Calls
  <1> HIDE DEF Result
  <1>8. ~Result(ok).syncFailures => ~Pending(Tail(tasks))
    BY <1>5, <1>7 DEF InOrder
  <1>9. QED
    BY <1>1, <1>7, <1>8, BecomesOrderly

(* The handlers of the loop that keep the waiting tasks.                     *)
LEMMA HandlerInOrder ==
    ASSUME InOrder, NEW k \in ConnectionType, Orderly(k),
           k.syncFailures = c.syncFailures, Becomes(k, tasks)
    PROVE  InOrder'
  <1>1. ~k.syncFailures => ~Pending(tasks)
    BY DEF InOrder
  <1>2. QED
    BY <1>1, BecomesOrderly

LEMMA DisconnectInOrder ==
    ASSUME Inv, InOrder, NEW k, Sound(k), Orderly(k), k.syncFailures = c.syncFailures,
           NEW reset \in BOOLEAN, Becomes(Disconnect(k, reset), tasks)
    PROVE  InOrder'
  <1>1. k \in ConnectionType
    BY DEF Sound
  <1>2. Disconnect(k, reset) \in ConnectionType
    BY DisconnectFromSound DEF Sound
  <1>3. ~k.syncFailures => k.leaked = 0 /\ ~k.failed
    BY DEF Orderly
  <1>4. /\ Orderly(Disconnect(k, reset))
        /\ Disconnect(k, reset).syncFailures = c.syncFailures
    BY <1>1, <1>3, DisconnectOrderly
  <1>5. QED
    BY <1>2, <1>4, HandlerInOrder

LEMMA EventInInOrder == Inv /\ InOrder /\ EventIn => InOrder'
  <1> SUFFICES ASSUME Inv, InOrder, EventIn
               PROVE  InOrder'
    OBVIOUS
  <1>1. Sound(c) /\ Orderly(c)
    BY DEF Inv, InOrder
  <1>2. CASE Fails
    BY <1>1, <1>2, DisconnectInOrder DEF Fails
  <1>3. CASE UNCHANGED <<c, tasks>>
    BY <1>3, UnchangedInOrder
  <1>4. ASSUME NEW ok \in Outcomes
        PROVE  /\ Sound(Reconnect(c, ok)) /\ Orderly(Reconnect(c, ok))
               /\ Reconnect(c, ok).syncFailures = c.syncFailures
    <2>1. ok \in BOOLEAN /\ (c.syncFailures \/ ok)
      BY OutcomesWithoutFailure
    <2>2. QED
      BY <1>1, <2>1, ReconnectSound, ReconnectOrderly
  <1>5. ASSUME NEW ok \in Outcomes, Becomes(Reconnect(c, ok), tasks)
        PROVE  InOrder'
    <2>1. Reconnect(c, ok) \in ConnectionType
      BY <1>4 DEF Sound
    <2>2. QED
      BY <1>4, <1>5, <2>1, HandlerInOrder
  <1>6. ASSUME NEW ok \in Outcomes, Becomes(Disconnect(Reconnect(c, ok), FALSE), tasks)
        PROVE  InOrder'
    BY <1>4, <1>6, DisconnectInOrder
  <1>7. QED
    BY <1>2, <1>3, <1>5, <1>6 DEF EventIn

LEMMA EventOutInOrder == Inv /\ InOrder /\ EventOut => InOrder'
  <1> SUFFICES ASSUME Inv, InOrder, EventOut
               PROVE  InOrder'
    OBVIOUS
  <1>1. Sound(c) /\ Orderly(c) /\ c \in ConnectionType
    BY DEF Inv, InOrder, Sound
  <1>2. CASE Fails
    BY <1>1, <1>2, DisconnectInOrder DEF Fails
  <1>3. ASSUME c.open,
               NEW k \in IF c.connectedSent THEN {c}
                         ELSE {OnConnected(c), SendData(OnConnected(c), TRUE)}
        PROVE  Sound(k) /\ Orderly(k) /\ k.syncFailures = c.syncFailures
    <2> DEFINE on == OnConnected(c)
    <2>1. /\ on.state = "Connected" /\ on.open = c.open /\ on.leaked = c.leaked
          /\ on.failed = c.failed /\ on.headers = c.headers
          /\ on.firstSent = c.firstSent /\ on.syncFailures = c.syncFailures
          /\ on.wait = c.wait /\ on.timer = c.timer
      BY <1>1 DEF OnConnected, ConnectionType
    <2>2. on \in ConnectionType
      BY <1>1 DEF OnConnected, ConnectionType, States
    <2> HIDE DEF on
    <2>3. Sound(on) /\ Noticed(on, TRUE)
      BY <1>1, <1>3, <2>1, <2>2 DEF Sound, Noticed
    <2>4. c.state \in {"Connecting", "Connected"} \/ c.syncFailures
      BY <1>1, <1>3 DEF Orderly
    <2>5. Orderly(on)
      BY <1>1, <1>3, <2>1, <2>4 DEF Orderly
    <2>6. Sound(SendData(on, TRUE))
      BY <2>3, SendDataSound
    <2>7. Orderly(SendData(on, TRUE)) /\ SendData(on, TRUE).syncFailures = c.syncFailures
      BY <2>1, <2>3, <2>5, SendDataOrderly
    <2>8. k \in {c, on, SendData(on, TRUE)}
      BY DEF on
    <2>9. QED
      BY <1>1, <2>1, <2>3, <2>5, <2>6, <2>7, <2>8
  <1>4. ASSUME NEW k, Sound(k), Orderly(k), k.syncFailures = c.syncFailures,
               Becomes([k EXCEPT !.connectedSent = TRUE], tasks)
        PROVE  InOrder'
    <2> DEFINE done == [k EXCEPT !.connectedSent = TRUE]
    <2>1. done \in ConnectionType
      BY <1>4 DEF Sound, ConnectionType
    <2>2. /\ done.leaked = k.leaked /\ done.failed = k.failed /\ done.open = k.open
          /\ done.state = k.state /\ done.headers = k.headers
          /\ done.firstSent = k.firstSent /\ done.syncFailures = k.syncFailures
      BY <1>4 DEF Sound, ConnectionType
    <2>3. Becomes(done, tasks)
      BY <1>4
    <2> HIDE DEF done
    <2>4. Orderly(done)
      BY <1>4, <2>2 DEF Orderly
    <2>5. QED
      BY <1>4, <2>1, <2>2, <2>3, <2>4, HandlerInOrder
  <1>5. CASE c.open /\ ~Fails
    <2>1. PICK k \in IF c.connectedSent THEN {c}
                     ELSE {OnConnected(c), SendData(OnConnected(c), TRUE)} :
             \/ Becomes([k EXCEPT !.connectedSent = TRUE], tasks)
             \/ Becomes(Disconnect(k, FALSE), tasks)
      BY <1>5 DEF EventOut
    <2>2. Sound(k) /\ Orderly(k) /\ k.syncFailures = c.syncFailures
      BY <1>3, <1>5
    <2>3. QED
      BY <1>4, <2>1, <2>2, DisconnectInOrder
  <1>6. QED
    BY <1>2, <1>5 DEF EventOut

LEMMA TimerFiresInOrder == Inv /\ InOrder /\ TimerFires => InOrder'
  <1> SUFFICES ASSUME Inv, InOrder, TimerFires
               PROVE  InOrder'
    OBVIOUS
  <1> DEFINE fired == [c EXCEPT !.timer = FALSE, !.wait = FALSE]
  <1>1. PICK ok \in Outcomes : Becomes(Connect(fired, ok), tasks)
    BY DEF TimerFires
  <1>2. ok \in BOOLEAN /\ (c.syncFailures \/ ok)
    BY OutcomesWithoutFailure
  <1>3. fired \in ConnectionType
    BY DEF Inv, Sound, ConnectionType
  <1>4. /\ fired.state = c.state /\ fired.open = c.open /\ fired.token = c.token
        /\ fired.wait = FALSE /\ fired.timer = FALSE /\ fired.failed = c.failed
        /\ fired.leaked = c.leaked /\ fired.headers = c.headers
        /\ fired.firstSent = c.firstSent /\ fired.syncFailures = c.syncFailures
    BY DEF Inv, Sound, ConnectionType
  <1> HIDE DEF fired
  <1>5. Sound(fired) /\ Noticed(fired, TRUE)
    BY <1>3, <1>4 DEF Inv, Sound, Noticed
  <1>6. Orderly(fired)
    BY <1>4 DEF InOrder, Orderly
  <1>7. Connect(fired, ok) \in ConnectionType
    BY <1>2, <1>5, ConnectSound DEF Sound
  <1>8. Orderly(Connect(fired, ok)) /\ Connect(fired, ok).syncFailures = c.syncFailures
    BY <1>2, <1>3, <1>4, <1>6, ConnectOrderly
  <1>9. QED
    BY <1>1, <1>7, <1>8, HandlerInOrder

LEMMA PassInOrder == Inv /\ InOrder /\ (PassConnects \/ PassSends) => InOrder'
  <1> SUFFICES ASSUME Inv, InOrder, PassConnects \/ PassSends
               PROVE  InOrder'
    OBVIOUS
  <1>1. Sound(c) /\ Orderly(c) /\ c \in ConnectionType /\ Noticed(c, TRUE)
    BY DEF Inv, InOrder, Sound, Noticed
  <1>2. CASE PassConnects
    <2>1. PICK ok \in Outcomes : Becomes(Connect(c, ok), tasks)
      BY <1>2 DEF PassConnects
    <2>2. ok \in BOOLEAN /\ (c.syncFailures \/ ok)
      BY OutcomesWithoutFailure
    <2>3. Connect(c, ok) \in ConnectionType
      BY <1>1, <2>2, ConnectSound DEF Sound
    <2>4. Orderly(Connect(c, ok)) /\ Connect(c, ok).syncFailures = c.syncFailures
      BY <1>1, <2>2, ConnectOrderly
    <2>5. QED
      BY <2>1, <2>3, <2>4, HandlerInOrder
  <1>3. CASE PassSends
    <2>1. SendData(c, TRUE) \in ConnectionType
      BY <1>1, SendDataSound DEF Sound
    <2>2. Orderly(SendData(c, TRUE)) /\ SendData(c, TRUE).syncFailures = c.syncFailures
      BY <1>1, SendDataOrderly
    <2>3. QED
      BY <1>3, <2>1, <2>2, HandlerInOrder DEF PassSends
  <1>4. QED
    BY <1>2, <1>3

LEMMA SleepInOrder == Inv /\ InOrder /\ Sleep => InOrder'
  <1> SUFFICES ASSUME Inv, InOrder, Sleep
               PROVE  InOrder'
    OBVIOUS
  <1>1. Sound(c) /\ Orderly(c) /\ c \in ConnectionType
    BY DEF Inv, InOrder, Sound
  <1>2. SuspendConnection(c, FALSE) \in ConnectionType
    BY <1>1, SuspendConnectionSound DEF Sound
  <1>3. /\ Orderly(SuspendConnection(c, FALSE))
        /\ SuspendConnection(c, FALSE).syncFailures = c.syncFailures
    BY <1>1, SuspendConnectionOrderly
  <1>4. QED
    BY <1>2, <1>3, HandlerInOrder DEF Sleep

LEMMA OthersInOrder ==
    Inv /\ InOrder /\ (ScheduleTask \/ NetworkChanges \/ Establish) => InOrder'
  <1> SUFFICES ASSUME Inv, InOrder, ScheduleTask \/ NetworkChanges \/ Establish
               PROVE  InOrder'
    OBVIOUS
  <1>1. CASE ScheduleTask
    <2>1. PICK t \in Calls : tasks' = Append(tasks, t)
      BY <1>1 DEF ScheduleTask
    <2>2. t # "disconnected" /\ tasks \in Seq(Tasks) /\ t \in Tasks
      BY DEF Calls, Tasks, Inv, LoopType
    <2>3. Pending(tasks') => Pending(tasks)
      BY <2>1, <2>2 DEF Pending
    <2>4. c' = c
      BY <1>1 DEF ScheduleTask
    <2>5. QED
      BY <2>3, <2>4 DEF InOrder, Orderly
  <1>2. CASE NetworkChanges
    BY <1>2, UnchangedInOrder DEF NetworkChanges
  <1>3. CASE Establish
    <2>1. c' = [c EXCEPT !.established = TRUE] /\ tasks' = tasks
      BY <1>3 DEF Establish
    <2>2. /\ c'.failed = c.failed /\ c'.leaked = c.leaked /\ c'.open = c.open
          /\ c'.state = c.state /\ c'.headers = c.headers /\ c'.firstSent = c.firstSent
          /\ c'.syncFailures = c.syncFailures
      BY <2>1 DEF Inv, Sound, ConnectionType
    <2>3. QED
      BY <2>1, <2>2 DEF InOrder, Orderly, Pending
  <1>4. QED
    BY <1>1, <1>2, <1>3

LEMMA NextInOrder == Inv /\ InOrder /\ [Next]_vars => InOrder'
  <1> SUFFICES ASSUME Inv, InOrder, [Next]_vars
               PROVE  InOrder'
    OBVIOUS
  <1>1. Sound(c) /\ Orderly(c)
    BY DEF Inv, InOrder
  <1>2. CASE GoOn \/ EpollWait \/ NextEvent \/ UNCHANGED vars
    BY <1>2, UnchangedInOrder DEF GoOn, EpollWait, NextEvent, vars
  <1>3. CASE RunTask \/ EventIn \/ EventOut
    BY <1>3, RunTaskInOrder, EventInInOrder, EventOutInOrder
  <1>4. CASE EventHup \/ CheckTimeout
    BY <1>1, <1>4, DisconnectInOrder DEF EventHup, CheckTimeout
  <1>5. CASE TimerFires \/ PassConnects \/ PassSends \/ Sleep
    BY <1>5, TimerFiresInOrder, PassInOrder, SleepInOrder
  <1>6. CASE ScheduleTask \/ NetworkChanges \/ Establish
    BY <1>6, OthersInOrder
  <1>7. QED
    BY <1>2, <1>3, <1>4, <1>5, <1>6 DEF Next, Loop

LEMMA SpecInOrder == Spec => []InOrder
  <1>1. Init => InOrder
    <2> SUFFICES ASSUME Init
                 PROVE  InOrder
      OBVIOUS
    <2>1. /\ c.state = "Idle" /\ c.open = FALSE /\ c.firstSent = FALSE /\ c.headers = 0
          /\ c.leaked = 0 /\ c.failed = FALSE
      BY DEF Init
    <2>2. ~Pending(tasks)
      BY DEF Init, Pending
    <2>3. QED
      BY <2>1, <2>2 DEF InOrder, Orderly
  <1>2. QED
    BY <1>1, NextInOrder, SpecInv, PTL DEF Spec

(* Where connect() does not fail before it returns, the state tells whether  *)
(* there is a socket, and none is left open behind another.                  *)
THEOREM NoSocketLeaks == Spec => []OneSocket
  <1>1. InOrder => OneSocket
    BY DEF InOrder, Orderly, OneSocket
  <1>2. QED
    BY <1>1, SpecInOrder, PTL

(* There, too, a stream has the first packet once, and before all others.    *)
THEOREM OneFirstPacketPerStream == Spec => []OneFirstPacket
  <1>1. InOrder => OneFirstPacket
    BY DEF InOrder, Orderly, OneFirstPacket
  <1>2. QED
    BY <1>1, SpecInOrder, PTL

-----------------------------------------------------------------------------
(* A configuration file, for every number of writes and every set of file    *)
(* system calls that may fail.                                               *)
LEMMA BooleanValues == \A b : b = TRUE \/ b = FALSE => b \in BOOLEAN
OBVIOUS

LEMMA TypeStep ==
    ASSUME ConfigTypeOK, [ConfigNext]_configVars PROVE ConfigTypeOK'
<1> USE ConfigAssumption, BooleanValues DEF Exists, ConfigTypeOK, Files, Absent, Torn, Whole, Works, Failing
<1>1. CASE SetAside
  BY <1>1 DEF SetAside, SetAsideFiles, fileVars
<1>2. CASE OpenForWriting
  BY <1>2 DEF OpenForWriting, writeVars
<1>3. CASE WriteData
  BY <1>3 DEF WriteData, fileVars
<1>4. CASE SyncAndClose
  BY <1>4 DEF SyncAndClose
<1>5. CASE Finish
  BY <1>5 DEF Finish
<1>6. CASE Crash
  BY <1>6 DEF Crash
<1>7. CASE DropUnfinished
  BY <1>7 DEF DropUnfinished, writeVars
<1>8. CASE RestoreBackup
  BY <1>8 DEF RestoreBackup, writeVars, fileVars
<1>9. CASE ReadConfig
  BY <1>9 DEF ReadConfig, writeVars, fileVars, ReadResult
<1>10. CASE UNCHANGED configVars
  BY <1>10 DEF configVars, fileVars, writeVars
<1> QED
  BY <1>1, <1>2, <1>3, <1>4, <1>5, <1>6, <1>7, <1>8, <1>9, <1>10 DEF ConfigNext

(* The configuration file is always in one of the states the model names.   *)
THEOREM ConfigTypeCorrect == ConfigSpec => []ConfigTypeOK
<1>1. ConfigInit => ConfigTypeOK
  BY ConfigAssumption, BooleanValues DEF ConfigInit, ConfigTypeOK, Files, Absent
<1> QED
  BY <1>1, TypeStep, PTL DEF ConfigSpec

-----------------------------------------------------------------------------
(* What the code relies on between two calls: where writeConfig is tells     *)
(* which of the two files can hold a version worth keeping.                  *)
FilesInv ==
    /\ loaded <= version /\ acknowledged <= version
    /\ config.version <= version /\ backup.version <= version
    /\ pc = "open" => Exists(backup) \/ ~Exists(config)
    /\ pc \in {"write", "sync"} => config = Torn(version)
    /\ pc = "finish" /\ ~error => config = Whole(version)
    /\ pc = "finish" => config.version = version
    /\ pc = "restore" => Exists(backup)
    /\ pc = "read" /\ Exists(backup) => ~Exists(config)

(* While a write without a backup is under way there was nothing to lose.    *)
NothingToLose == Writing /\ ~Exists(backup) => loaded = 0

LoadedInv == ConfigTypeOK /\ FilesInv /\ NothingToLose /\ NeverBehindLastLoad

LEMMA FilesStep ==
    ASSUME ConfigTypeOK, FilesInv, [ConfigNext]_configVars PROVE FilesInv'
<1> USE ConfigAssumption, BooleanValues DEF Exists, ConfigTypeOK, FilesInv, Files, Absent, Torn, Whole,
      Works, Failing
<1>1. CASE SetAside
  BY <1>1 DEF SetAside, SetAsideFiles, fileVars
<1>2. CASE OpenForWriting
  BY <1>2 DEF OpenForWriting, writeVars
<1>3. CASE WriteData
  BY <1>3 DEF WriteData, fileVars
<1>4. CASE SyncAndClose
  BY <1>4 DEF SyncAndClose
<1>5. CASE Finish
  BY <1>5 DEF Finish
<1>6. CASE Crash
  BY <1>6 DEF Crash
<1>7. CASE DropUnfinished
  BY <1>7 DEF DropUnfinished, writeVars
<1>8. CASE RestoreBackup
  BY <1>8 DEF RestoreBackup, writeVars, fileVars
<1>9. CASE ReadConfig
  BY <1>9 DEF ReadConfig, writeVars, fileVars, ReadResult
<1>10. CASE UNCHANGED configVars
  BY <1>10 DEF configVars, fileVars, writeVars
<1> QED
  BY <1>1, <1>2, <1>3, <1>4, <1>5, <1>6, <1>7, <1>8, <1>9, <1>10 DEF ConfigNext

-----------------------------------------------------------------------------
LEMMA LoadedInit == ConfigInit => LoadedInv
BY ConfigAssumption, BooleanValues
   DEF ConfigInit, LoadedInv, ConfigTypeOK, FilesInv, NothingToLose, NeverBehindLastLoad, Files,
       Absent, Exists, Writing, Recoverable, ReadResult

LEMMA LoadedStep ==
    ASSUME LoadedInv, [ConfigNext]_configVars PROVE LoadedInv'
<1>1. ConfigTypeOK' /\ FilesInv'
  BY FilesStep, TypeStep DEF LoadedInv
<1>2. NothingToLose' /\ NeverBehindLastLoad'
  <2> USE ConfigAssumption DEF LoadedInv, ConfigTypeOK, FilesInv, NothingToLose,
        NeverBehindLastLoad, Files, Absent, Torn, Whole, Exists, Writing,
        Recoverable, ReadResult, Works, Failing
  <2>1. CASE SetAside
    BY <2>1 DEF SetAside, SetAsideFiles, fileVars
  <2>2. CASE OpenForWriting
    BY <2>2 DEF OpenForWriting, writeVars
  <2>3. CASE WriteData
    BY <2>3 DEF WriteData, fileVars
  <2>4. CASE SyncAndClose
    BY <2>4 DEF SyncAndClose
  <2>5. CASE Finish
    BY <2>5 DEF Finish
  <2>6. CASE Crash
    BY <2>6 DEF Crash
  <2>7. CASE DropUnfinished
    BY <2>7 DEF DropUnfinished, writeVars
  <2>8. CASE RestoreBackup
    BY <2>8 DEF RestoreBackup, writeVars, fileVars
  <2>9. CASE ReadConfig
    BY <2>9 DEF ReadConfig, writeVars, fileVars
  <2>10. CASE UNCHANGED configVars
    BY <2>10 DEF configVars, fileVars, writeVars
  <2> QED
    BY <2>1, <2>2, <2>3, <2>4, <2>5, <2>6, <2>7, <2>8, <2>9, <2>10 DEF ConfigNext
<1> QED
  BY <1>1, <1>2 DEF LoadedInv

(* What a restart would find is nothing older than what the previous start   *)
(* loaded, whatever calls fail and wherever the process dies.                *)
THEOREM NeverBehind == ConfigSpec => []NeverBehindLastLoad
<1>1. LoadedInv => NeverBehindLastLoad
  BY DEF LoadedInv
<1> QED
  BY <1>1, LoadedInit, LoadedStep, PTL DEF ConfigSpec

-----------------------------------------------------------------------------
(* Until a file system call fails, a backup only exists while the write that *)
(* made it is under way, or until the restart after it.                      *)
BackupInv ==
    /\ ~error
    /\ Exists(backup) => (Writing /\ hasBackupFile) \/ pc \in {"down", "restore"}
    /\ Writing /\ ~Exists(backup) => acknowledged = 0 /\ Recoverable \in {0, version}
    /\ Recoverable > 0 /\ pc = "open" => Exists(backup)

DurableInv ==
    ConfigTypeOK /\ FilesInv /\ (~failed => BackupInv /\ AcknowledgedIsDurable)

LEMMA DurableStep ==
    ASSUME DurableInv, [ConfigNext]_configVars PROVE DurableInv'
<1>1. ConfigTypeOK' /\ FilesInv'
  BY FilesStep, TypeStep DEF DurableInv
<1>2. ~failed' => BackupInv' /\ AcknowledgedIsDurable'
  <2> USE ConfigAssumption DEF DurableInv, ConfigTypeOK, FilesInv, BackupInv,
        AcknowledgedIsDurable, Files, Absent, Torn, Whole, Exists, Writing,
        Recoverable, ReadResult, Works, Failing
  <2>1. CASE SetAside
    BY <2>1 DEF SetAside, SetAsideFiles, fileVars
  <2>2. CASE OpenForWriting
    BY <2>2 DEF OpenForWriting, writeVars
  <2>3. CASE WriteData
    BY <2>3 DEF WriteData, fileVars
  <2>4. CASE SyncAndClose
    BY <2>4 DEF SyncAndClose
  <2>5. CASE Finish
    BY <2>5 DEF Finish
  <2>6. CASE Crash
    BY <2>6 DEF Crash
  <2>7. CASE DropUnfinished
    BY <2>7 DEF DropUnfinished, writeVars
  <2>8. CASE RestoreBackup
    BY <2>8 DEF RestoreBackup, writeVars, fileVars
  <2>9. CASE ReadConfig
    BY <2>9 DEF ReadConfig, writeVars, fileVars
  <2>10. CASE UNCHANGED configVars
    BY <2>10 DEF configVars, fileVars, writeVars
  <2> QED
    BY <2>1, <2>2, <2>3, <2>4, <2>5, <2>6, <2>7, <2>8, <2>9, <2>10 DEF ConfigNext
<1> QED
  BY <1>1, <1>2 DEF DurableInv

LEMMA DurableInit == ConfigInit => DurableInv
BY ConfigAssumption, BooleanValues
   DEF ConfigInit, DurableInv, ConfigTypeOK, FilesInv, BackupInv, AcknowledgedIsDurable, Files,
       Absent, Exists, Writing, Recoverable, ReadResult

(* A version reported as written survives every crash, as long as no file    *)
(* system call has failed.                                                   *)
THEOREM Durable == ConfigSpec => []DurableUntilFailure
<1>1. DurableInv => DurableUntilFailure
  BY DEF DurableInv, DurableUntilFailure
<1> QED
  BY <1>1, DurableInit, DurableStep, PTL DEF ConfigSpec

-----------------------------------------------------------------------------
(* The two files implement the register, whichever calls fail.               *)
THEOREM ImplementsRegister == ConfigSpec => AtomicRegister
<1>1. ConfigInit => Register!Init
  BY DEF ConfigInit, Register!Init, Recoverable, ReadResult, Absent, Exists, Writing
<1>2. ASSUME LoadedInv, LoadedInv', [ConfigNext]_configVars, failed'
      PROVE  Register!Fault
  <2>1. loaded' \in {0, loaded, Recoverable}
    <3>1. CASE ReadConfig
      BY <1>2, <3>1 DEF ReadConfig, LoadedInv, FilesInv, Recoverable, ReadResult, Exists
    <3>2. CASE UNCHANGED loaded
      BY <3>2
    <3> QED
      BY <1>2, <3>1, <3>2 DEF ConfigNext, configVars, SetAside, OpenForWriting, WriteData,
         SyncAndClose, Finish, Crash, DropUnfinished, RestoreBackup
  <2>2. /\ Recoverable' \in 0..MaxVersion /\ loaded' \in 0..MaxVersion
        /\ Recoverable' >= loaded'
    BY <1>2, ConfigAssumption
       DEF LoadedInv, NeverBehindLastLoad, ConfigTypeOK, Files, Recoverable, ReadResult
  <2>3. (IF Writing THEN version ELSE 0)' \in 0..MaxVersion
    BY <1>2, ConfigAssumption DEF LoadedInv, ConfigTypeOK
  <2>4. (pc \notin {"down", "restore", "read"})' \in BOOLEAN
    OBVIOUS
  <2>5. Recoverable' \in loaded'..MaxVersion
    BY <2>2, ConfigAssumption
  <2> QED
    BY <1>2, <2>1, <2>3, <2>4, <2>5 DEF Register!Fault
<1>3. ASSUME DurableInv, DurableInv', [ConfigNext]_configVars, ~failed'
      PROVE  Register!Next \/ UNCHANGED Register!vars
  <2> USE <1>3, ConfigAssumption DEF DurableInv, ConfigTypeOK, FilesInv, BackupInv,
        AcknowledgedIsDurable, Files, Absent, Torn, Whole, Exists, Writing,
        Recoverable, ReadResult, Works, Failing, Register!vars
  <2>1. CASE SetAside
    BY <2>1 DEF SetAside, SetAsideFiles, fileVars, Register!Next, Register!BeginWrite
  <2>2. CASE OpenForWriting
    BY <2>2 DEF OpenForWriting, writeVars
  <2>3. CASE WriteData
    BY <2>3 DEF WriteData, fileVars
  <2>4. CASE SyncAndClose
    BY <2>4 DEF SyncAndClose, Register!Next, Register!TakeEffect
  <2>5. CASE Finish
    BY <2>5 DEF Finish, Register!Next, Register!EndWrite
  <2>6. CASE Crash
    BY <2>6 DEF Crash, Register!Next, Register!Crash
  <2>7. CASE DropUnfinished
    BY <2>7 DEF DropUnfinished, writeVars
  <2>8. CASE RestoreBackup
    BY <2>8 DEF RestoreBackup, writeVars, fileVars
  <2>9. CASE ReadConfig
    BY <2>9 DEF ReadConfig, writeVars, fileVars, Register!Next, Register!Start
  <2>10. CASE UNCHANGED configVars
    BY <2>10 DEF configVars, fileVars, writeVars
  <2> QED
    BY <2>1, <2>2, <2>3, <2>4, <2>5, <2>6, <2>7, <2>8, <2>9, <2>10 DEF ConfigNext
<1>4. LoadedInv /\ LoadedInv' /\ DurableInv /\ DurableInv' /\ [ConfigNext]_configVars
        => [Register!Next]_(Register!vars)
  BY <1>2, <1>3 DEF Register!Next
<1> QED
  BY <1>1, <1>4, LoadedInit, LoadedStep, DurableInit, DurableStep, PTL
     DEF ConfigSpec, AtomicRegister, Register!Spec
=============================================================================
