---------------------------- MODULE RequestQueue -----------------------------
(* The life of a request in ConnectionsManager (tgnet): scheduled by an      *)
(* application thread, queued, running, retransmitted, answered, given up,   *)
(* cancelled.  One datacenter, the current one, with one connection of each  *)
(* kind.  Everything but the scheduling of tasks happens on the network      *)
(* thread, one handler at a time; a handler is one action.                   *)
(*                                                                            *)
(* The server and the clock are left open: any message may arrive at any     *)
(* time, and any set of requests may have waited long enough to be retried.  *)
EXTENDS Naturals, Sequences, FiniteSets

CONSTANTS
    Requests,      \* every request of the run
    Generic,       \* those on the generic connection; the others download
    InvokeAfter,   \* RequestFlagInvokeAfter: must be executed in order
    WithoutLogin,  \* RequestFlagWithoutLogin: survive a logout
    Internal,      \* scheduled by the library itself, without a callback
    GenericLimit,  \* 60 in the code
    DownloadLimit, \* 16 in the code
    RetryMax,      \* 6 in the code: attempts before RETRY_LIMIT
    FloodRetryMax, \* 2 in the code: attempts after a flood wait
    Events,        \* the rarer events this instance lets happen
    MaxMsgId,      \* bound: message identifiers generated
    MaxToken,      \* bound: connections established
    MaxTasks       \* bound: tasks waiting for the network thread

ASSUME RequestAssumption ==
    /\ IsFiniteSet(Requests)
    /\ Generic \subseteq Requests
    /\ InvokeAfter \subseteq Generic
    /\ WithoutLogin \subseteq Requests
    /\ Internal \subseteq WithoutLogin \ InvokeAfter
    /\ GenericLimit \in Nat \ {0} /\ DownloadLimit \in Nat \ {0}
    /\ RetryMax \in Nat /\ FloodRetryMax \in Nat
    /\ Events \subseteq {"cancel", "logout", "network", "salt", "session", "badMsg", "key"}
    /\ MaxMsgId \in Nat /\ MaxToken \in Nat /\ MaxTasks \in Nat

(* One try is always left after a bad salt, and a flood wait leaves no more. *)
ASSUME RetryAssumption == RetryMax >= 2 /\ FloodRetryMax <= RetryMax

Kinds == {"generic", "download"}
Kind(r) == IF r \in Generic THEN "generic" ELSE "download"
Limit(k) == IF k = "generic" THEN GenericLimit ELSE DownloadLimit

(* Where a request is.  "answered" and "failed" are requests that have left  *)
(* the lists after their callback was called with a result or with an error. *)
Places == {"unsent", "task", "queue", "running", "answered", "failed", "cancelled"}

VARIABLES
    q,         \* the requests and both lists, a record (see QType)
    tasks,     \* pendingTasks: scheduled and not yet run
    conn,      \* connection token of each kind of connection, 0 if closed
    lastToken, \* lastConnectionToken
    network,   \* networkAvailable
    keyed,     \* the kinds of connections that have an auth key
    loggedIn,  \* currentUserId # 0
    wire       \* what the last step wrote to the connections

vars == <<q, tasks, conn, lastToken, network, keyed, loggedIn, wire>>

QType == [
    place       : [Requests -> Places],
    pos         : [Requests -> Nat],  \* order in requestsQueue or runningRequests
    lastPos     : Nat,
    msgId       : [Requests -> Nat],  \* messageId, 0 when it needs a new one
    token       : [Requests -> Nat],  \* connectionToken it was last sent on
    retries     : [Requests -> Nat],  \* retryCount, of downloads
    resendAfter : SUBSET Requests,    \* RequestFlagResendAfter
    saltFailed  : SUBSET Requests,    \* failedBySalt
    flooded     : SUBSET Requests,    \* failedByFloodWait # 0
    lastMsgId   : Nat,                \* lastOutgoingMessageId
    lastAfter   : Nat,                \* lastInvokeAfterMessageId
    callbacks   : [Requests -> Nat]]  \* calls of onCompleteRequestCallback

Tasks == [op : {"send", "cancel"}, req : Requests] \cup [op : {"cleanUp", "logIn"}]

-----------------------------------------------------------------------------
(* Reading the lists.                                                        *)
In(s, place) == {r \in Requests : s.place[r] = place}

(* Requests before r in the list r is in.                                    *)
Ahead(s, r) == {a \in Requests : s.place[a] = s.place[r] /\ s.pos[a] < s.pos[r]}

(* The order in which processRequestQueue visits: running first, then queue. *)
Visited(s, a, r) ==
    \/ s.place[a] = "running" /\ s.place[r] = "queue"
    \/ a \in Ahead(s, r)

(* A running request that waits for an answer to every earlier InvokeAfter.  *)
HeldBackAmongFlagged(s, r) == \* mutant: only flagged requests are waited for
    r \in s.resendAfter /\ Ahead(s, r) \cap InvokeAfter \cap s.resendAfter # {}
HeldBack(s, r) == r \in s.resendAfter /\ Ahead(s, r) \cap InvokeAfter # {}

RetryLimit(s, r) == IF r \in s.flooded THEN FloodRetryMax ELSE RetryMax

-----------------------------------------------------------------------------
(* processRequestQueue.  env is [conn, network, keyed]; force are the kinds  *)
(* whose requests are resent whatever their age; aged are the requests whose *)
(* timeout has passed; recent tells whether the last message chained with    *)
(* invokeAfterMsg is at most 5 seconds old.                                  *)

(* The loop over runningRequests: what is sent again.                        *)
Due(s, env, force, aged) ==
    {r \in In(s, "running") :
        /\ ~HeldBack(s, r)
        /\ Kind(r) \in env.keyed /\ env.network /\ env.conn[Kind(r)] # 0
        /\ \/ Kind(r) \in force
           \/ r \in aged /\ s.token[r] # env.conn[Kind(r)]}

(* Downloads that have been tried too often end with RETRY_LIMIT.            *)
GivenUpLate(s, due) == \* mutant: one attempt too many
    {r \in due \ (Generic \cup s.saltFailed) : s.retries[r] + 1 > RetryLimit(s, r)}
GivenUp(s, due) ==
    {r \in due \ (Generic \cup s.saltFailed) : s.retries[r] + 1 >= RetryLimit(s, r)}

(* The loop over requestsQueue: what is sent for the first time.             *)
Marked(s) ==
    IF In(s, "running") \cap s.resendAfter # {}
    THEN s.resendAfter \cup (In(s, "queue") \cap InvokeAfter)
    ELSE s.resendAfter

Waiting(s, r) ==
    /\ r \in Marked(s)
    /\ (In(s, "running") \cup Ahead(s, r)) \cap InvokeAfter # {}

Ready(s, env) ==
    {r \in In(s, "queue") :
        /\ ~Waiting(s, r)
        /\ Kind(r) \in env.keyed
        /\ r \in Generic => env.conn["generic"] # 0
        /\ r \notin Generic => env.network}

CountedSent(s, k) == \* mutant: requests waiting to be resent are not counted
    {r \in In(s, "running") : Kind(r) = k /\ ~HeldBack(s, r) /\ s.msgId[r] # 0}
Counted(s, k) == {r \in In(s, "running") : Kind(r) = k /\ ~HeldBack(s, r)}

Launched(s, env) ==
    LET ready == Ready(s, env) IN
    {r \in ready :
        Cardinality({a \in Counted(s, Kind(r)) \cup (ready \cap Ahead(s, r)) :
                       Kind(a) = Kind(r)}) < Limit(Kind(r))}

(* generateMessageId, for the requests sent that have no identifier yet.     *)
NewId(s, fresh, r) ==
    s.lastMsgId + 1 + Cardinality({a \in fresh : Visited(s, a, r)})

(* The chain of invokeAfterMsg through one batch for the generic connection: *)
(* each chained message names the one before it, and the first one names the *)
(* newest InvokeAfter message outside the batch.                             *)
MaxOf(ids) == CHOOSE m \in ids : \A i \in ids : i <= m

ChainBase(s, others, id, recent) ==
    MaxOf({0} \cup {i \in {s.lastAfter} : recent} \cup {id[r] : r \in others})

PreviousReversed(s, chain, r) == \* mutant: the batch is chained backwards
    {a \in chain : /\ Visited(s, r, a)
                   /\ \A b \in chain : Visited(s, r, b) => ~Visited(s, b, a)}
Previous(s, chain, r) ==
    {a \in chain : /\ Visited(s, a, r)
                   /\ \A b \in chain : Visited(s, a, b) => ~Visited(s, b, r)}

After(s, chain, base, id, r) ==
    IF r \notin chain THEN 0
    ELSE IF Previous(s, chain, r) # {} THEN id[CHOOSE a \in Previous(s, chain, r) : TRUE]
    ELSE IF base = id[r] THEN 0
    ELSE base

Pass(s, env, force, aged, recent) ==
    LET due     == Due(s, env, force, aged)
        givenUp == GivenUp(s, due)
        sent    == due \ givenUp
        new     == Launched(s, env)
        fresh   == new \cup {r \in sent : s.msgId[r] = 0}
        id      == [r \in Requests |-> IF r \in fresh THEN NewId(s, fresh, r) ELSE s.msgId[r]]
        chain   == ((sent \cup new) \cap InvokeAfter) \ Marked(s)
        others  == ((In(s, "running") \cup new) \cap InvokeAfter) \ chain
        base    == ChainBase(s, others, id, recent)
        last    == {r \in chain : \A a \in chain : ~Visited(s, r, a)}
    IN [q |-> [s EXCEPT
            !.place = [r \in Requests |-> IF r \in givenUp THEN "failed"
                                          ELSE IF r \in new THEN "running"
                                          ELSE s.place[r]],
            !.pos = [r \in Requests |-> IF r \notin new THEN s.pos[r]
                        ELSE s.lastPos + 1 + Cardinality(new \cap Ahead(s, r))],
            !.lastPos = s.lastPos + Cardinality(new),
            !.msgId = id,
            !.token = [r \in Requests |-> IF r \in sent \cup new THEN env.conn[Kind(r)]
                                          ELSE s.token[r]],
            !.retries = [r \in Requests |-> s.retries[r]
                                             + (IF r \in due \ Generic THEN 1 ELSE 0)],
            !.resendAfter = Marked(s),
            !.saltFailed = s.saltFailed \ due,
            !.lastMsgId = s.lastMsgId + Cardinality(fresh),
            !.lastAfter = IF chain = {} THEN s.lastAfter
                          ELSE id[CHOOSE r \in last : TRUE],
            !.callbacks = [r \in Requests |-> s.callbacks[r]
                             + (IF r \in givenUp \ Internal THEN 1 ELSE 0)]],
        wire |-> {[id |-> id[r], req |-> r, after |-> After(s, chain, base, id, r),
                   kind |-> Kind(r)] : r \in sent \cup new}]

Env == [conn |-> conn, network |-> network, keyed |-> keyed]

(* The rest of a handler that ends in processRequestQueue, from state s.     *)
ProcessRequestQueue(s, env, force) ==
    \E aged \in SUBSET {r \in In(s, "running") : s.token[r] # env.conn[Kind(r)]},
       recent \in {FALSE, s.lastAfter # 0} :
        LET p == Pass(s, env, force, aged, recent) IN
        /\ p.q.lastMsgId <= MaxMsgId
        /\ q' = p.q /\ wire' = p.wire

-----------------------------------------------------------------------------
Init ==
    /\ q = [place |-> [r \in Requests |-> "unsent"], pos |-> [r \in Requests |-> 0],
            lastPos |-> 0, msgId |-> [r \in Requests |-> 0],
            token |-> [r \in Requests |-> 0], retries |-> [r \in Requests |-> 0],
            resendAfter |-> {}, saltFailed |-> {}, flooded |-> {},
            lastMsgId |-> 0, lastAfter |-> 0, callbacks |-> [r \in Requests |-> 0]]
    /\ tasks = <<>>
    /\ conn = [k \in Kinds |-> 0] /\ lastToken = 0
    /\ network = TRUE /\ keyed = Kinds /\ loggedIn = TRUE
    /\ wire = {}

(* Application threads: sendRequest, cancelRequest and cleanUp only schedule *)
(* a task.                                                                   *)
Send(r) ==
    /\ q.place[r] = "unsent" /\ r \notin Internal
    /\ loggedIn \/ r \in WithoutLogin
    /\ Len(tasks) < MaxTasks
    /\ tasks' = Append(tasks, [op |-> "send", req |-> r])
    /\ q' = [q EXCEPT !.place[r] = "task"]
    /\ wire' = {}
    /\ UNCHANGED <<conn, lastToken, network, keyed, loggedIn>>

Cancel(r) ==
    /\ "cancel" \in Events
    /\ q.place[r] # "unsent" /\ r \notin Internal
    /\ Len(tasks) < MaxTasks
    /\ tasks' = Append(tasks, [op |-> "cancel", req |-> r])
    /\ wire' = {}
    /\ UNCHANGED <<q, conn, lastToken, network, keyed, loggedIn>>

CleanUp ==
    /\ "logout" \in Events
    /\ loggedIn /\ Len(tasks) < MaxTasks
    /\ tasks' = Append(tasks, [op |-> "cleanUp"])
    /\ wire' = {}
    /\ UNCHANGED <<q, conn, lastToken, network, keyed, loggedIn>>

LogIn ==
    /\ ~loggedIn /\ Len(tasks) < MaxTasks
    /\ tasks' = Append(tasks, [op |-> "logIn"])
    /\ wire' = {}
    /\ UNCHANGED <<q, conn, lastToken, network, keyed, loggedIn>>

-----------------------------------------------------------------------------
(* Tasks, run in order by checkPendingTasks on the network thread.           *)
NextTask(op) == tasks # <<>> /\ Head(tasks).op = op

Enqueue(s, r) ==
    [s EXCEPT !.place[r] = "queue", !.pos[r] = s.lastPos + 1, !.lastPos = s.lastPos + 1]

RunSend ==
    /\ NextTask("send")
    /\ tasks' = Tail(tasks)
    /\ LET s == Enqueue(q, Head(tasks).req) IN
       \/ ProcessRequestQueue(s, Env, {})   \* immediate
       \/ q' = s /\ wire' = {}
    /\ UNCHANGED <<conn, lastToken, network, keyed, loggedIn>>

(* cancelRequestInternal.  The server may be told to drop the answer, with a *)
(* request of the library's own.                                             *)
Dropped(s, r) == [s EXCEPT !.place[r] = "cancelled"]

RunCancel ==
    /\ NextTask("cancel")
    /\ wire' = {}
    /\ LET r == Head(tasks).req IN
       \/ /\ q.place[r] \in {"queue", "running"}
          /\ tasks' = Tail(tasks) /\ q' = Dropped(q, r)
       \/ /\ q.place[r] = "running"
          /\ \E d \in Internal :
                /\ q.place[d] = "unsent" /\ Kind(d) = Kind(r)
                /\ tasks' = Append(Tail(tasks), [op |-> "send", req |-> d])
                /\ q' = [Dropped(q, r) EXCEPT !.place[d] = "task"]
       \/ /\ q.place[r] \notin {"queue", "running"}
          /\ tasks' = Tail(tasks) /\ UNCHANGED q
    /\ UNCHANGED <<conn, lastToken, network, keyed, loggedIn>>

(* cleanUp: every request but the WithoutLogin ones fails.                   *)
RunCleanUpKeepsRunning == \* mutant: running requests fail but stay in the list
    /\ NextTask("cleanUp")
    /\ tasks' = Tail(tasks)
    /\ LET failed == (In(q, "queue") \cup In(q, "running")) \ WithoutLogin IN
       q' = [q EXCEPT
               !.place = [r \in Requests |-> IF r \in failed /\ q.place[r] = "queue"
                                             THEN "failed" ELSE q.place[r]],
               !.callbacks = [r \in Requests |->
                                q.callbacks[r] + (IF r \in failed THEN 1 ELSE 0)]]
    /\ loggedIn' = FALSE
    /\ keyed' \in {keyed, {}}
    /\ wire' = {}
    /\ UNCHANGED <<conn, lastToken, network>>
RunCleanUp ==
    /\ NextTask("cleanUp")
    /\ tasks' = Tail(tasks)
    /\ LET ended == (In(q, "queue") \cup In(q, "running")) \ WithoutLogin IN
       q' = [q EXCEPT
               !.place = [r \in Requests |-> IF r \in ended THEN "failed" ELSE q.place[r]],
               !.callbacks = [r \in Requests |->
                                q.callbacks[r] + (IF r \in ended THEN 1 ELSE 0)]]
    /\ loggedIn' = FALSE
    /\ keyed' \in {keyed, {}}               \* resetKeys
    /\ wire' = {}
    /\ UNCHANGED <<conn, lastToken, network>>

(* setUserId: the user logs in again.                                        *)
RunLogIn ==
    /\ NextTask("logIn")
    /\ tasks' = Tail(tasks)
    /\ loggedIn' = TRUE
    /\ wire' = {}
    /\ UNCHANGED <<q, conn, lastToken, network, keyed>>

SetNetworkAvailable ==
    /\ "network" \in Events
    /\ network' = ~network
    /\ wire' = {}
    /\ UNCHANGED <<q, tasks, conn, lastToken, keyed, loggedIn>>

-----------------------------------------------------------------------------
(* Connections.                                                              *)
ConnectionConnected(k) ==
    /\ conn[k] = 0 /\ lastToken < MaxToken
    /\ lastToken' = lastToken + 1
    /\ conn' = [conn EXCEPT ![k] = lastToken + 1]
    /\ IF k \in keyed /\ (k = "generic" => keyed = Kinds)
       THEN ProcessRequestQueue(q, [Env EXCEPT !.conn = conn'], {k})
       ELSE UNCHANGED q /\ wire' = {}
    /\ UNCHANGED <<tasks, network, keyed, loggedIn>>

ConnectionClosed(k) ==
    /\ conn[k] # 0
    /\ conn' = [conn EXCEPT ![k] = 0]
    /\ wire' = {}
    /\ UNCHANGED <<q, tasks, lastToken, network, keyed, loggedIn>>

(* The pass at the end of each turn of the event loop.                       *)
Select ==
    /\ "generic" \in keyed
    /\ ProcessRequestQueue(q, Env, {})
    /\ UNCHANGED <<tasks, conn, lastToken, network, keyed, loggedIn>>

-----------------------------------------------------------------------------
(* Messages from the server.                                                 *)

(* Request::clear: the next transmission gets a new identifier.              *)
ClearedKeepsToken(s, cleared) == \* mutant: the connection token is not reset
    [s EXCEPT !.msgId = [r \in Requests |-> IF r \in cleared THEN 0 ELSE s.msgId[r]]]
Cleared(s, cleared) ==
    [s EXCEPT !.msgId = [r \in Requests |-> IF r \in cleared THEN 0 ELSE s.msgId[r]],
              !.token = [r \in Requests |-> IF r \in cleared THEN 0 ELSE s.token[r]]]

Completed(s, r, place) ==
    [s EXCEPT !.place[r] = place,
              !.callbacks[r] = s.callbacks[r] + (IF r \in Internal THEN 0 ELSE 1)]

Results == {"ok", "error", "serverError", "waitFailed", "floodWait", "keyEmpty"}

(* What an rpc_result does to the request it answers.  Errors that are       *)
(* retried discard the answer; a request without a callback takes any.       *)
Answered(s, r, result) ==
    CASE result = "ok" -> Completed(s, r, "answered")
      [] result = "error" \/ (result # "ok" /\ r \in Internal) -> Completed(s, r, "failed")
      [] result = "waitFailed" /\ r \notin Internal ->
           [Cleared(s, {r}) EXCEPT !.resendAfter = s.resendAfter \cup {r}]
      [] result = "floodWait" /\ r \notin Internal ->
           [Cleared(s, {r}) EXCEPT !.flooded = s.flooded \cup {r}]
      [] OTHER -> Cleared(s, {r})

AnswersTo(s, id) == {r \in In(s, "running") : s.msgId[r] = id}

Forget(s, id) == [s EXCEPT !.lastAfter = IF s.lastAfter = id THEN 0 ELSE s.lastAfter]

RpcResultAnyTime(r, result) == \* mutant: requests that have ended are found too
    /\ q.msgId[r] # 0
    /\ keyed' = IF result = "keyEmpty" /\ r \notin Internal THEN keyed \ {Kind(r)} ELSE keyed
    /\ ProcessRequestQueue(Answered(Forget(q, q.msgId[r]), r, result),
                           [Env EXCEPT !.keyed = keyed'], {})
    /\ UNCHANGED <<tasks, conn, lastToken, network, loggedIn>>
RpcResult(r, result) ==
    /\ q.place[r] = "running" /\ q.msgId[r] # 0
    /\ keyed' = IF result = "keyEmpty" /\ r \notin Internal THEN keyed \ {Kind(r)} ELSE keyed
    /\ ProcessRequestQueue(Answered(Forget(q, q.msgId[r]), r, result),
                           [Env EXCEPT !.keyed = keyed'], {})
    /\ UNCHANGED <<tasks, conn, lastToken, network, loggedIn>>

(* Error 401 from the current datacenter logs the user out: every request is *)
(* to fail, but only once the task that fails them runs.                     *)
Unauthorized(r) ==
    /\ "logout" \in Events
    /\ q.place[r] = "running" /\ q.msgId[r] # 0 /\ r \in Generic \ Internal
    /\ loggedIn /\ Len(tasks) < MaxTasks
    /\ loggedIn' = FALSE
    /\ tasks' = Append(tasks, [op |-> "cleanUp"])
    /\ ProcessRequestQueue(Completed(Forget(q, q.msgId[r]), r, "failed"), Env, {})
    /\ UNCHANGED <<conn, lastToken, network, keyed>>

(* An rpc_result for an identifier no running request has any more.          *)
StaleResult(id) ==
    /\ AnswersTo(q, id) = {}
    /\ ProcessRequestQueue(Forget(q, id), Env, {})
    /\ UNCHANGED <<tasks, conn, lastToken, network, keyed, loggedIn>>

(* new_session_created: what was sent before the session is to be sent anew. *)
NewSessionCreated(firstMsgId, k) ==
    /\ "session" \in Events
    /\ conn[k] # 0
    /\ q' = Cleared(q, {r \in In(q, "running") : Kind(r) = k /\ q.msgId[r] < firstMsgId})
    /\ wire' = {}
    /\ UNCHANGED <<tasks, conn, lastToken, network, keyed, loggedIn>>

(* bad_msg_notification: a wrong clock or sequence number makes every        *)
(* running request start anew in new sessions, and the identifiers restart   *)
(* from the corrected clock, possibly an earlier one; code 20 concerns one   *)
(* message.                                                                  *)
BadMsgKeepsRequests == \* mutant: the identifiers restart under the running requests
    /\ "badMsg" \in Events
    /\ \/ \E id \in {0, q.lastMsgId} : q' = [q EXCEPT !.lastMsgId = id]
       \/ \E r \in In(q, "running") : q.msgId[r] # 0 /\ q' = Cleared(q, {r})
    /\ wire' = {}
    /\ UNCHANGED <<tasks, conn, lastToken, network, keyed, loggedIn>>
BadMsgNotification ==
    /\ "badMsg" \in Events
    /\ \/ \E id \in {0, q.lastMsgId} :
            q' = [Cleared(q, In(q, "running")) EXCEPT !.lastMsgId = id]
       \/ \E r \in In(q, "running") : q.msgId[r] # 0 /\ q' = Cleared(q, {r})
    /\ wire' = {}
    /\ UNCHANGED <<tasks, conn, lastToken, network, keyed, loggedIn>>

(* bad_server_salt: everything is sent again at once, with the new salt.     *)
BadServerSalt ==
    LET downloads == In(q, "running") \ Generic
        s == [q EXCEPT !.retries = [r \in Requests |->
                          IF r \in downloads THEN 0 ELSE q.retries[r]],
                       !.saltFailed = q.saltFailed \cup downloads]
    IN
    /\ "salt" \in Events
    /\ \E k \in Kinds : conn[k] # 0
    /\ IF "generic" \in keyed THEN ProcessRequestQueue(s, Env, Kinds)
       ELSE q' = s /\ wire' = {}
    /\ UNCHANGED <<tasks, conn, lastToken, network, keyed, loggedIn>>

(* Code -404: the server does not know the temporary auth key any more.      *)
AuthKeyLost(k) ==
    /\ "key" \in Events
    /\ conn[k] # 0 /\ k \in keyed
    /\ keyed' = keyed \ {k}
    /\ wire' = {}
    /\ UNCHANGED <<q, tasks, conn, lastToken, network, loggedIn>>

(* onDatacenterHandshakeComplete: new key, new sessions, everything anew.    *)
HandshakeComplete(k) ==
    /\ k \notin keyed
    /\ k = "generic" => conn[k] # 0
    /\ keyed' = keyed \cup {k}
    /\ ProcessRequestQueue(Cleared(q, {r \in In(q, "running") : Kind(r) = k}),
                           [Env EXCEPT !.keyed = keyed'], Kinds)
    /\ UNCHANGED <<tasks, conn, lastToken, network, loggedIn>>

-----------------------------------------------------------------------------
Application == (\E r \in Requests : Send(r) \/ Cancel(r)) \/ CleanUp \/ LogIn

NetworkThread ==
    \/ RunSend \/ RunCancel \/ RunCleanUp \/ RunLogIn
    \/ SetNetworkAvailable
    \/ \E k \in Kinds : ConnectionConnected(k) \/ ConnectionClosed(k)
    \/ Select

Server ==
    \/ \E r \in Requests, result \in Results : RpcResult(r, result)
    \/ \E r \in Requests : Unauthorized(r)
    \/ \E id \in 1..q.lastMsgId : StaleResult(id)
    \/ \E id \in 1..q.lastMsgId, k \in Kinds : NewSessionCreated(id, k)
    \/ BadMsgNotification \/ BadServerSalt
    \/ \E k \in Kinds : AuthKeyLost(k) \/ HandshakeComplete(k)

Next == Application \/ NetworkThread \/ Server

Spec == Init /\ [][Next]_vars

-----------------------------------------------------------------------------
(* The lists and counters stay within their types, and a request that needs  *)
(* a new identifier is not counted as sent on any connection.                *)
TypeOK ==
    /\ q \in QType
    /\ tasks \in Seq(Tasks)
    /\ conn \in [Kinds -> Nat] /\ lastToken \in Nat
    /\ network \in BOOLEAN /\ loggedIn \in BOOLEAN
    /\ keyed \subseteq Kinds
    /\ \A r \in Requests : q.msgId[r] = 0 => q.token[r] = 0

(* The callback of a request is called exactly once if the request ends with *)
(* an answer or an error, and never before that or after a cancellation:     *)
(* answers that arrive late, twice or for a request given up find nothing.   *)
CallbackOnce ==
    \A r \in Requests \ Internal :
        q.callbacks[r] = IF q.place[r] \in {"answered", "failed"} THEN 1 ELSE 0

(* No two running requests are ever known under one message identifier, so   *)
(* that an answer cannot reach the wrong request, whatever the clock does.   *)
IdsNotShared ==
    \A r, t \in In(q, "running") :
        q.msgId[r] # 0 /\ q.msgId[r] = q.msgId[t] => r = t

(* A request that failed to wait for another one on the server is only on    *)
(* its way again when no earlier InvokeAfter request is still running.       *)
ResentAfterOthers ==
    \A r \in In(q, "running") \cap q.resendAfter :
        q.msgId[r] # 0 => Ahead(q, r) \cap InvokeAfter = {}

(* The limits on running requests hold, but for the ones held back when they *)
(* were counted.                                                             *)
LimitsRespected ==
    \A k \in Kinds :
        Cardinality({r \in In(q, "running") \ q.resendAfter : Kind(r) = k}) <= Limit(k)

(* A download is tried RetryMax times at most before its caller is told, with *)
(* failures of the salt not counted against it.                              *)
RetriesBounded ==
    \A r \in In(q, "running") \ Generic : q.retries[r] < RetryMax

(* A message sent for the first time is only ever told to wait for an older  *)
(* one: the server never waits for a message that waits for this one.        *)
NewWaitsForOlder ==
    [][\A m \in wire' : q.place[m.req] # "running" => m.after < m.id]_vars

(* Once cancelled or completed, a request is never sent again.               *)
EndedIsFinal ==
    [][\A r \in Requests :
         q.place[r] \in {"answered", "failed", "cancelled"} =>
           /\ q'.place[r] = q.place[r]
           /\ \A m \in wire' : m.req # r]_vars
=============================================================================
