----------------------------- MODULE Connection -------------------------------
(* One connection of tgnet and the loop of the network thread that drives it *)
(* (ConnectionsManager::select): tasks, timers, socket events, timeouts and  *)
(* the passes over the requests take turns, so that what one of them finds   *)
(* may be stale when the next one uses it.  The operating system's part of   *)
(* the sockets and the other threads are external.                           *)
(*                                                                            *)
(* A socket event holds a pointer to the connection and not the socket it is *)
(* about.  connect() may fail before it returns; onDisconnected is then a    *)
(* task for later, and other tasks may come first.                           *)
EXTENDS Naturals, Sequences

CONSTANTS
    Persistent,    \* TRUE for a generic connection of the current data center, or
                   \* one that is handshaking: reconnects by itself
    SyncFailures,  \* whether connect() may fail before it returns
    MaxTasks,      \* bound: tasks that wait
    MaxLeaked      \* bound: sockets nobody closed are counted up to here

\* A behavior is about one kind of connection, one value of each set.
ASSUME ConnectionAssumption ==
    /\ Persistent \subseteq BOOLEAN /\ SyncFailures \subseteq BOOLEAN
    /\ MaxTasks \in Nat /\ MaxLeaked \in Nat

VARIABLES
    c,       \* the connection (see ConnectionType)
    network, \* networkAvailable
    phase,   \* where select() is
    tasks,   \* pendingTasks
    budget,  \* count of checkPendingTasks: tasks this call may still run
    batch,   \* events of the last epoll_wait not dispatched yet
    mask     \* rest of the event being dispatched

loopVars == <<phase, budget, batch, mask>>
vars == <<c, network, tasks, loopVars>>

States == {"Idle", "Connecting", "Reconnecting", "Connected", "Suspended"}

ConnectionType == [
    state         : States,    \* connectionState
    token         : BOOLEAN,   \* connectionToken is not 0
    wait          : BOOLEAN,   \* waitForReconnectTimer
    timer         : BOOLEAN,   \* reconnectTimer is started
    open          : BOOLEAN,   \* socketFd >= 0
    established   : BOOLEAN,   \* external: connected for TCP
    connectedSent : BOOLEAN,   \* onConnectedSent
    firstSent     : BOOLEAN,   \* firstPacketSent
    headers       : 0..2,      \* first packets in outgoingByteStream since clean()
    leaked        : 0..MaxLeaked, \* sockets left open and registered
    failed        : BOOLEAN,   \* connect() has failed before it returned
    persistent    : BOOLEAN,   \* the kind: one of Persistent,
    syncFailures  : BOOLEAN]   \* ... and one of SyncFailures

\* The deferred onDisconnectedInternal, and what other threads ask for.
Calls == {"suspend", "connect", "restart"}
Tasks == {"disconnected"} \cup Calls

\* EPOLLIN, EPOLLOUT, EPOLLHUP or EPOLLRDHUP.
Masks == SUBSET {"in", "out", "hup"}

Phases == <<"tasks1", "timers1", "wait", "tasks2", "timers2", "events",
            "timeouts", "sleep", "pass">>
TaskPhases == {"tasks1", "tasks2"}

Init ==
    /\ \E p \in Persistent, f \in SyncFailures :
         c = [state |-> "Idle", token |-> FALSE, wait |-> FALSE, timer |-> FALSE,
              open |-> FALSE, established |-> FALSE, connectedSent |-> FALSE,
              firstSent |-> FALSE, headers |-> 0, leaked |-> 0, failed |-> FALSE,
              persistent |-> p, syncFailures |-> f]
    /\ network = TRUE
    /\ phase = "tasks1" /\ tasks = <<>> /\ budget = 0
    /\ batch = <<>> /\ mask = {}

-----------------------------------------------------------------------------
(* ConnectionSocket::closeSocket, up to onDisconnected.                      *)
CloseSocket(k) ==
    [k EXCEPT !.open = FALSE, !.established = FALSE, !.connectedSent = FALSE,
              !.headers = 0]

(* reset: the error is ECONNRESET or EHOSTUNREACH.                           *)
OnDisconnectedInternalKeepsToken(k, reset) ==
    LET stopped == [k EXCEPT !.timer = FALSE, !.firstSent = FALSE]
    IN IF k.state = "Suspended" THEN stopped
       ELSE [stopped EXCEPT !.state = "Reconnecting", !.wait = reset,
                            !.timer = reset \/ k.persistent]

OnDisconnectedInternal(k, reset) ==
    LET stopped == [k EXCEPT !.timer = FALSE, !.firstSent = FALSE, !.token = FALSE]
    IN IF k.state = "Suspended" THEN stopped
       ELSE [stopped EXCEPT !.state = "Reconnecting", !.wait = reset,
                            !.timer = reset \/ k.persistent]

Disconnect(k, reset) == OnDisconnectedInternal(CloseSocket(k), reset)

SuspendConnectionKeepsWait(k, idle) ==
    LET stopped == [k EXCEPT !.timer = FALSE]
        marked  == [stopped EXCEPT !.state = IF idle THEN "Idle" ELSE "Suspended"]
    IN IF k.state \in {"Idle", "Suspended"} THEN stopped
       ELSE Disconnect(marked, FALSE)

SuspendConnectionForgetsSocket(k, idle) ==
    LET stopped == [k EXCEPT !.timer = FALSE, !.wait = FALSE]
    IN IF k.state \in {"Idle", "Suspended"} THEN stopped
       ELSE [OnDisconnectedInternal(stopped, FALSE) EXCEPT
               !.state = IF idle THEN "Reconnecting" ELSE "Suspended"]

SuspendConnection(k, idle) ==
    LET stopped == [k EXCEPT !.timer = FALSE, !.wait = FALSE]
        marked  == [stopped EXCEPT !.state = IF idle THEN "Idle" ELSE "Suspended"]
    IN IF k.state \in {"Idle", "Suspended"} THEN stopped
       ELSE Disconnect(marked, FALSE)

(* connect() opens a socket without looking for one that is still open.      *)
CanConnect(k) ==
    network /\ ~k.wait /\ k.state \notin {"Connecting", "Connected"}

OpenConnection(k, ok) ==
    LET fresh == [k EXCEPT !.open = TRUE, !.established = FALSE, !.failed = ~ok,
                           !.leaked = IF k.open /\ @ < MaxLeaked THEN @ + 1 ELSE @]
    IN IF ok THEN fresh ELSE CloseSocket(fresh)

Connect(k, ok) ==
    IF ~CanConnect(k) THEN k
    ELSE OpenConnection([k EXCEPT !.state = "Connecting", !.timer = FALSE,
                                  !.firstSent = FALSE], ok)

ReconnectAtOnce(k, ok) == Connect([k EXCEPT !.state = "Idle", !.wait = FALSE], ok)

Reconnect(k, ok) == Connect(SuspendConnection(k, TRUE), ok)

SendDataAlwaysFirst(k, ok) ==
    LET ready == IF k.state \in {"Connecting", "Connected"} THEN k ELSE Connect(k, ok)
    IN IF ~ready.open THEN ready
       ELSE [ready EXCEPT !.firstSent = TRUE, !.headers = IF @ < 2 THEN @ + 1 ELSE @]

SendData(k, ok) ==
    LET ready == IF k.state \in {"Connecting", "Connected"} THEN k ELSE Connect(k, ok)
    IN IF ~ready.open THEN ready
       ELSE [ready EXCEPT !.firstSent = TRUE,
                          !.headers = IF ~ready.firstSent /\ @ < 2 THEN @ + 1 ELSE @]

(* Handshake::beginHandshake(true).                                          *)
Restart(k, ok) == SendData(Connect(SuspendConnection(k, FALSE), ok), TRUE)

OnConnected(k) == [k EXCEPT !.state = "Connected", !.token = TRUE]

-----------------------------------------------------------------------------
(* The connection becomes k; a connect() that failed is a task for later.    *)
BecomesQuietly(k, rest) ==
    /\ c' = [k EXCEPT !.failed = FALSE]
    /\ tasks' = rest

Becomes(k, rest) ==
    /\ c' = [k EXCEPT !.failed = FALSE]
    /\ tasks' = IF k.failed THEN Append(rest, "disconnected") ELSE rest

Outcomes == IF c.syncFailures THEN BOOLEAN ELSE {TRUE}

(* The turn of the loop that comes after this one.                           *)
After(p) ==
    LET i == CHOOSE j \in 1..Len(Phases) : Phases[j] = p
    IN Phases[1 + (i % Len(Phases))]

GoOnEarly ==
    /\ IF phase \in TaskPhases THEN tasks = <<>> \/ budget = 1
       ELSE phase # "wait" /\ (phase = "events" => batch = <<>>)
    /\ phase' = After(phase)
    /\ budget' = 0
    /\ UNCHANGED <<c, network, tasks, batch, mask>>

GoOn ==
    /\ \/ phase \in TaskPhases /\ (tasks = <<>> \/ budget = 1)
       \/ phase \in {"timers1", "timers2", "timeouts", "sleep", "pass"}
       \/ phase = "events" /\ batch = <<>> /\ mask = {}
    /\ phase' = After(phase)
    /\ budget' = 0
    /\ UNCHANGED <<c, network, tasks, batch, mask>>

(* checkPendingTasks: count is taken when the first task is found, that task *)
(* is not counted, and tasks scheduled meanwhile may run within it.          *)
RunTask ==
    /\ phase \in TaskPhases /\ tasks # <<>> /\ budget # 1
    /\ budget' = IF budget = 0 THEN Len(tasks) + 1 ELSE budget - 1
    /\ \E ok \in Outcomes :
          Becomes(CASE Head(tasks) = "disconnected" -> OnDisconnectedInternal(c, FALSE)
                    [] Head(tasks) = "suspend" -> SuspendConnection(c, FALSE)
                    [] Head(tasks) = "connect" -> Connect(c, ok)
                    [] Head(tasks) = "restart" -> Restart(c, ok), Tail(tasks))
    /\ UNCHANGED <<network, phase, batch, mask>>

(* The callback of reconnectTimer.                                           *)
TimerFiresKeepsWait ==
    /\ phase \in {"timers1", "timers2"} /\ c.timer
    /\ \E ok \in Outcomes : Becomes(Connect([c EXCEPT !.timer = FALSE], ok), tasks)
    /\ UNCHANGED <<network, loopVars>>

TimerFires ==
    /\ phase \in {"timers1", "timers2"} /\ c.timer
    /\ \E ok \in Outcomes :
          Becomes(Connect([c EXCEPT !.timer = FALSE, !.wait = FALSE], ok), tasks)
    /\ UNCHANGED <<network, loopVars>>

(* epoll_wait: an event of the open socket, and of one that has leaked.      *)
OwnEvents ==
    IF ~c.open THEN {}
    ELSE {m \in Masks \ {{}} : c.established \/ "in" \in m}

Occurring(m) == IF m = {} THEN <<>> ELSE <<m>>

EpollWait ==
    /\ phase = "wait"
    /\ phase' = After(phase)
    /\ \E own \in OwnEvents \cup {{}}, other \in (IF c.leaked > 0 THEN Masks ELSE {{}}) :
          batch' = Occurring(own) \o Occurring(other)
    /\ UNCHANGED <<c, network, tasks, budget, mask>>

NextEvent ==
    /\ phase = "events" /\ mask = {} /\ batch # <<>>
    /\ mask' = Head(batch) /\ batch' = Tail(batch)
    /\ UNCHANGED <<c, network, tasks, phase, budget>>

(* onEvent, one action per part.  A part that closes the socket returns, and *)
(* the others do not know that the socket has changed.  The error is not set *)
(* when there is no socket.                                                  *)
Fails ==
    /\ mask' = {}
    /\ \E reset \in BOOLEAN : Becomes(Disconnect(c, reset), tasks)

EventIn ==
    /\ phase = "events" /\ "in" \in mask
    /\ \/ Fails
       \/ /\ c.open /\ c.established
          /\ \/ mask' = mask \ {"in"} /\ UNCHANGED <<c, tasks>>
             \/ \E ok \in Outcomes :
                   \* what was received makes the client reconnect
                   \/ mask' = mask \ {"in"} /\ Becomes(Reconnect(c, ok), tasks)
                   \* and the buffer was full: recv() from the new socket
                   \/ mask' = {} /\ Becomes(Disconnect(Reconnect(c, ok), FALSE), tasks)
    /\ UNCHANGED <<network, phase, budget, batch>>

EventOut ==
    /\ phase = "events" /\ "out" \in mask /\ "in" \notin mask
    /\ \/ Fails
       \/ /\ c.open
          /\ mask' = mask \ {"out"}
          /\ \E k \in IF c.connectedSent THEN {c}
                      ELSE {OnConnected(c), SendData(OnConnected(c), TRUE)} :
                \/ /\ k.headers = 0 \/ c.established
                   /\ Becomes([k EXCEPT !.connectedSent = TRUE], tasks)
                \/ /\ k.headers > 0 /\ mask' = {}
                   /\ Becomes(Disconnect(k, FALSE), tasks)
    /\ UNCHANGED <<network, phase, budget, batch>>

EventHup ==
    /\ phase = "events" /\ mask = {"hup"}
    /\ mask' = {}
    /\ Becomes(Disconnect(c, FALSE), tasks)
    /\ UNCHANGED <<network, phase, budget, batch>>

(* checkTimeout: nothing came for too long.                                  *)
CheckTimeout ==
    /\ phase = "timeouts" /\ c.open
    /\ Becomes(Disconnect(c, FALSE), tasks)
    /\ UNCHANGED <<network, loopVars>>

(* A pass over the requests, or a ping: what is ready to send goes to a      *)
(* connection that has a token.                                              *)
PassConnects ==
    /\ phase = "pass"
    /\ \E ok \in Outcomes : Becomes(Connect(c, ok), tasks)
    /\ UNCHANGED <<network, loopVars>>

PassSends ==
    /\ phase = "pass" /\ c.token
    /\ Becomes(SendData(c, TRUE), tasks)
    /\ UNCHANGED <<network, loopVars>>

(* select() puts the network to sleep, and returns without a pass.           *)
Sleep ==
    /\ phase = "sleep" /\ phase' = "tasks1"
    /\ Becomes(SuspendConnection(c, FALSE), tasks)
    /\ UNCHANGED <<network, budget, batch, mask>>

-----------------------------------------------------------------------------
(* Other threads and the network.                                            *)
ScheduleTask ==
    /\ Len(tasks) < MaxTasks
    /\ \E t \in Calls : tasks' = Append(tasks, t)
    /\ UNCHANGED <<c, network, loopVars>>

NetworkChanges ==
    /\ network' = ~network
    /\ UNCHANGED <<c, tasks, loopVars>>

Establish ==
    /\ c.open /\ ~c.established
    /\ c' = [c EXCEPT !.established = TRUE]
    /\ UNCHANGED <<network, tasks, loopVars>>

Loop ==
    \/ GoOn \/ RunTask \/ EpollWait \/ NextEvent
    \/ EventIn \/ EventOut \/ EventHup

Next ==
    \/ Loop
    \/ TimerFires \/ CheckTimeout
    \/ PassConnects \/ PassSends \/ Sleep
    \/ ScheduleTask \/ NetworkChanges \/ Establish

Spec == Init /\ [][Next]_vars

(* The network thread keeps running, time passes, and a pass over the        *)
(* requests comes with each ping of select().                                *)
FairSpec == Spec /\ WF_vars(Loop) /\ SF_vars(TimerFires) /\ SF_vars(PassConnects)

-----------------------------------------------------------------------------
(* An event is only dispatched in its turn, and a connect() that failed has  *)
(* become a task by the end of the handler that called it.                   *)
TypeOK ==
    /\ c \in ConnectionType /\ ~c.failed
    /\ network \in BOOLEAN
    /\ \E i \in 1..Len(Phases) : phase = Phases[i]
    /\ tasks \in Seq(Tasks) /\ budget \in Nat
    /\ batch \in Seq(Masks) /\ mask \in Masks
    /\ mask # {} => phase = "events"

(* connect() returns at once while waitForReconnectTimer is set, so the      *)
(* timer that clears it is always running: stale events, deferred            *)
(* disconnects and suspensions stop the timer, but never that one alone.     *)
WaitEnds == c.wait => c.timer

(* Requests count as sent to a connection while it has a token: it then has  *)
(* a socket, and its state says so, whichever event closed the last one.     *)
TokenMeansSocket == c.token => c.open /\ c.state = "Connected"

(* A suspended connection has no socket that could wake it up, and no timer. *)
SuspendedIsClosed == c.state = "Suspended" => ~c.open /\ ~c.timer

(* connect() does nothing in these states, so a connection that lost its     *)
(* socket in one of them has a task waiting that takes it out of it.         *)
LossIsNoticed ==
    c.state \in {"Connecting", "Connected"} /\ ~c.open =>
        \E i \in 1..Len(tasks) : tasks[i] = "disconnected"

(* Without failures inside connect(), the state tells whether there is a     *)
(* socket, and no socket is left open when another one takes its place.      *)
OneSocket ==
    ~c.syncFailures => /\ c.leaked = 0
                       /\ c.open <=> c.state \in {"Connecting", "Connected"}

(* Without failures inside connect(), a stream starts with the first packet, *)
(* which holds the keys, and has no second one.                              *)
OneFirstPacket == ~c.syncFailures => c.headers = IF c.firstSent THEN 1 ELSE 0

(* A connection that waits to reconnect while there is a network gets to it, *)
(* unless it is suspended or the network is lost.                            *)
NotAbandoned == c.state = "Reconnecting" ~> (c.state # "Reconnecting" \/ ~network)
=============================================================================
