------------------------------- MODULE Updates --------------------------------
(* How MessagesController keeps up with the server.  The server numbers what *)
(* happens in three boxes, "seq", "pts" and "qts"; the client remembers how  *)
(* far it has come in each, applies an update that continues its box, keeps  *)
(* one that comes too early, and asks for the difference when a hole stays.  *)
(* Handlers run on the stage queue; what they write goes through the storage *)
(* queue, which a restart empties.  The server and the network are external: *)
(* an update may come late, twice or never.  Updates of one container that   *)
(* continue each other count as one, as lines 11352-11369 make them.         *)
EXTENDS Naturals, Sequences, FiniteSets, FiniteSetsExt, TLC

Boxes == {"seq", "pts", "qts"}
RareEvents == {"own", "incomplete", "slice", "tooLong", "error", "resetFails", "restart"}

CONSTANTS
    Worlds,   \* what a behavior may be made of: how far the server comes in each
              \* box (bound limit), and which of the RareEvents happen (rare)
    MaxTasks  \* bound: tasks that wait for the storage queue, see Room

ASSUME UpdatesAssumption ==
    /\ Worlds \subseteq [limit : [Boxes -> Nat], rare : SUBSET RareEvents]
    /\ \A w \in Worlds : w.limit["pts"] # 0
    /\ MaxTasks \in Nat \ {0}

Zero == [b \in Boxes |-> 0]
None == [kind |-> "none"]

VARIABLES
    sent,    \* server: the updates made so far
    results, \* server: own updates whose result is on its way
    c,       \* memory of MessagesController and of MessagesStorage (see Client)
    answer,  \* the answer to c.request on its way, or None
    tasks,   \* the storage queue
    ready,   \* parts of differences posted back to the stage queue
    disk,    \* the database: params in last, what was applied in units
    world    \* the one of Worlds this behavior happens in

vars == <<sent, results, c, answer, tasks, ready, disk, world>>

Limit == world.limit
rare == world.rare

-----------------------------------------------------------------------------
(* An update brings its box from hi - n to hi; own ones are consequences of  *)
(* requests of this client, which applies them itself.                       *)
Updates == {u \in [box : Boxes, hi : 1..Max(Range(Limit)), n : 1..2, own : BOOLEAN] :
              u.hi <= Limit[u.box] /\ u.n <= u.hi}

Points == [Boxes -> 0..Max(Range(Limit))]

Units(b, lo, hi) == {<<b, k>> : k \in lo + 1..hi}
UnitsOf(us) == UNION {Units(u.box, u.hi - u.n, u.hi) : u \in us}

Client == [
    last     : Points,                         \* lastSeqValue, lastPtsValue, lastQtsValue
    queue    : [Boxes -> SUBSET Updates],      \* updatesQueueSeq, ...Pts, ...Qts
    wait     : [Boxes -> {"none", "fresh", "due"}], \* updatesStartWaitTime...: 0, at most 1.5 s ago, longer
    getting  : BOOLEAN,                        \* gettingDifference
    request  : Points \cup {None}, \* the getDifference the server has
    reset    : [last : Points, dialogs : Nat] \cup {None},             \* what resetDialogs will set
    saved    : Points,                         \* lastSavedSeq, ...Pts
    base     : Points,          \* history: where the first qts began
    owed     : SUBSET Updates,  \* history: received, neither applied nor let go, see LetGo
    cover    : Points,          \* history: how far the difference under way reaches
    outrun   : BOOLEAN]         \* history: a request failed before an earlier slice was applied

Value(b) == Max({0} \cup {u.hi : u \in {v \in sent : v.box = b}})
Server == [b \in Boxes |-> Value(b)]

Memory(last) ==
    [last |-> last, queue |-> [b \in Boxes |-> {}], wait |-> [b \in Boxes |-> "none"],
     getting |-> FALSE, request |-> None, reset |-> None,
     saved |-> Zero, base |-> last, owed |-> {}, cover |-> last, outrun |-> FALSE]

(* A part of a difference, or the end of resetDialogs, on the stage queue;   *)
(* and the tasks of the storage queue.                                       *)
Kinds == {"slice", "difference", "empty", "reset"}
Parts == [kind : Kinds, from : Points, to : Points]
AnswerKinds == {"slice", "difference", "empty", "tooLong", "error"}
Stored == SUBSET (Boxes \X Nat)
StorageTasks == [op : {"write"}, put : Stored, last : Points, dated : BOOLEAN]
                \cup [op : {"part"}, part : Parts]
                \cup [op : {"reset"}, last : Points, upto : Nat]

(* The account has got its state from the server, in which pts is never 0.   *)
Init ==
    /\ sent = {[box |-> "pts", hi |-> 1, n |-> 1, own |-> FALSE]}
    /\ results = {}
    /\ world \in Worlds
    /\ c = Memory([Zero EXCEPT !["pts"] = 1])
    /\ answer = None /\ tasks = <<>> /\ ready = <<>>
    /\ disk = [last |-> c.last, units |-> {}]

-----------------------------------------------------------------------------
(* Updates that are neither kept nor brought by the difference under way:    *)
(* the code lets them go.                                                    *)
LetGo(d, us) ==
    [d EXCEPT !.owed = {u \in @ : u \in us => d.getting /\ u.hi <= d.cover[u.box]}]

Ask(d, from) == [d EXCEPT !.getting = TRUE, !.request = from, !.cover = Limit]

(* us is what the caller gives up in exchange for the difference.            *)
GetDifference(d, us) ==
    IF d.getting THEN LetGo(d, us) ELSE Ask(d, d.last)

Told(d, u) == [d EXCEPT !.owed = IF u.hi > d.last[u.box] THEN @ \cup {u} ELSE @]
Settled(d) == [d EXCEPT !.owed = {u \in @ : u.hi > d.last[u.box]}]

KeepWithoutTime(d, u) == [d EXCEPT !.queue[u.box] = @ \cup {u}]

(* An update that does not continue its box is kept while a difference or    *)
(* the time to wait is running.                                              *)
MayWait(d, b) == d.getting \/ d.wait[b] # "due"
Keep(d, u) == [d EXCEPT !.queue[u.box] = @ \cup {u},
                        !.wait[u.box] = IF @ = "none" THEN "fresh" ELSE @]

Continues(d, u) ==
    \/ d.last[u.box] + u.n = u.hi
    \/ u.box = "seq" /\ d.last["seq"] = u.hi
    \/ u.box = "qts" /\ d.last["qts"] = 0

(* The test whether a qts update has been applied compares with pts, 11416.  *)
Ignored(d, u) == d.last[IF u.box = "qts" THEN "pts" ELSE u.box] = u.hi

-----------------------------------------------------------------------------
(* processUpdatesQueue: in order, updates that continue the box are applied  *)
(* and old ones dropped, up to the first hole.  The one of missing, if it    *)
(* comes to that, cannot be applied, because of a user or chat the client    *)
(* does not know; that a difference is needed is not looked at, 11574.       *)
Chain(d, b) == {u \in d.queue[b] : /\ u.hi > d.last[b]
                                  /\ Units(b, d.last[b], u.hi) \subseteq UnitsOf(d.queue[b])}

Applied(d, b, missing) ==
    {u \in Chain(d, b) : \A m \in missing \cap Chain(d, b) : u.hi < m.hi}

(* What is left of a queue: nothing; or what is behind the hole, with new    *)
(* time to wait if something proceeded, or given up for the difference.      *)
AfterHoleForgets(d, b, proceeded, rest) ==
    IF rest = {} \/ proceeded THEN [d EXCEPT !.queue[b] = {}, !.wait[b] = "none"]
    ELSE IF d.wait[b] = "fresh" THEN [d EXCEPT !.queue[b] = rest]
    ELSE GetDifference([d EXCEPT !.queue[b] = {}, !.wait[b] = "none"], rest)

AfterHole(d, b, proceeded, rest) ==
    IF rest = {} THEN [d EXCEPT !.queue[b] = {}, !.wait[b] = "none"]
    ELSE IF d.wait[b] # "none" /\ (proceeded \/ d.wait[b] = "fresh")
    THEN [d EXCEPT !.queue[b] = rest, !.wait[b] = IF proceeded THEN "fresh" ELSE @]
    ELSE GetDifference([d EXCEPT !.queue[b] = {}, !.wait[b] = "none"], rest)

ProcessUpdatesQueue(d, b, missing) ==
    LET applied == Applied(d, b, missing)
        cut     == {m \in missing \cap Chain(d, b) : \A k \in missing \cap Chain(d, b) : m.hi <= k.hi}
        rest    == {u \in d.queue[b] : u.hi > d.last[b]} \ (applied \cup cut)
        again   == b = "seq" /\ \E u \in d.queue[b] : u.hi = d.last[b]
        after   == LetGo([d EXCEPT !.last[b] = Max({@} \cup {u.hi : u \in applied})], cut)
    IN IF d.queue[b] = {} THEN [d EXCEPT !.wait[b] = "none"]
       ELSE AfterHole(after, b, applied \cup cut # {} \/ again, rest)

(* All three, and what of them has been applied.                             *)
ProcessQueues(d, bs, missing) ==
    LET one == IF "seq" \in bs THEN ProcessUpdatesQueue(d, "seq", missing) ELSE d
        two == IF "pts" \in bs THEN ProcessUpdatesQueue(one, "pts", missing) ELSE one
    IN Settled(IF "qts" \in bs THEN ProcessUpdatesQueue(two, "qts", missing) ELSE two)

AppliedOf(d, bs, missing) == UNION {Applied(d, b, missing) : b \in bs}

-----------------------------------------------------------------------------
(* saveDiffParams comes last in a handler: the storage queue gets first what *)
(* was applied (own updates are written by whoever made the request).  A     *)
(* repeated save of what is about to be saved has no effect.                 *)
Saves == SelectSeq(tasks, LAMBDA t : t.op # "part")
Pending == IF Saves = <<>> THEN disk.last ELSE Saves[Len(Saves)].last

WriteParamsFirst(last, put, dated) ==
    LET params == [op |-> "write", put |-> {}, last |-> last, dated |-> dated]
    IN IF put = {} /\ last = Pending /\ ~dated THEN tasks
       ELSE tasks \o <<params, [params EXCEPT !.put = put]>>

Write(last, put, dated) ==
    IF put = {} /\ last = Pending /\ ~dated THEN tasks
    ELSE Append(tasks, [op |-> "write", put |-> put, last |-> last, dated |-> dated])

NotOwn(us) == UnitsOf({u \in us : ~u.own})

Room        == Len(tasks) < MaxTasks
RoomForPart == Len(tasks) + Len(ready) <= MaxTasks

(* A set of updates that cannot be applied from a queue now: one at most.    *)
Missing == {{}} \cup (IF "incomplete" \in rare
                      THEN {{u} : u \in {v \in c.queue["pts"] : ~v.own}} ELSE {})

(* processUpdates, for an update that comes from the server.                 *)
ReceiveUpdate(u, missing) ==
    LET d     == Told(c, u)
        fits  == Continues(d, u)
        late  == ~fits /\ ~Ignored(d, u)
        first == d.last["qts"] = 0 /\ u.box = "qts"
        place == IF fits THEN [d EXCEPT !.last[u.box] = u.hi,
                                        !.base[u.box] = IF first /\ u.hi - u.n > @ THEN u.hi - u.n ELSE @]
                 ELSE IF late /\ MayWait(d, u.box) THEN Keep(d, u)
                 ELSE IF late THEN d
                 ELSE LetGo(d, {u})
        now   == IF fits THEN {u} ELSE {}
    IN /\ Room /\ u \in sent /\ ~u.own
       /\ IF late /\ ~MayWait(d, u.box)
          THEN /\ missing = {}
               /\ c' = GetDifference(place, {u})
               /\ tasks' = Write(c.last, {}, FALSE)
          ELSE /\ missing \subseteq UNION {Chain(place, b) : b \in Boxes}
               /\ c' = ProcessQueues(place, Boxes, missing)
               /\ tasks' = Write(c'.last, NotOwn(now \cup AppliedOf(place, Boxes, missing)), FALSE)
       /\ UNCHANGED <<sent, results, answer, ready, disk, world>>

(* The same, when the update is about a user or a chat that is not known.    *)
ReceiveIncomplete(u) ==
    /\ "incomplete" \in rare /\ u \in sent /\ u.box = "pts" /\ ~u.own
    /\ c' = GetDifference(Told(c, u), {u})
    /\ UNCHANGED <<sent, results, answer, tasks, ready, disk, world>>

(* processNewDifferenceParams: the result of a request of this client.  The  *)
(* queues are not looked at.                                                 *)
ProcessNewDifferenceParams(u) ==
    LET d == Told(c, u)
    IN /\ Room /\ u \in results
       /\ results' = results \ {u}
       /\ c' = CASE d.last[u.box] + u.n = u.hi -> Settled([d EXCEPT !.last[u.box] = u.hi])
                 [] d.last[u.box] = u.hi -> d
                 [] OTHER -> IF MayWait(d, u.box) THEN Keep(d, u) ELSE GetDifference(d, {u})
       /\ tasks' = IF c'.last = c.last THEN tasks ELSE Write(c'.last, {}, FALSE)
       /\ UNCHANGED <<sent, answer, ready, disk, world>>

(* A new session, or updatesTooLong.                                         *)
SessionCreated ==
    /\ c' = GetDifference(c, {})
    /\ UNCHANGED <<sent, results, answer, tasks, ready, disk, world>>

TimePasses(b) ==
    /\ c.wait[b] = "fresh"
    /\ c' = [c EXCEPT !.wait[b] = "due"]
    /\ UNCHANGED <<sent, results, answer, tasks, ready, disk, world>>

(* updateTimerProc, once a second.                                           *)
UpdateTimerProc(missing) ==
    LET due == {b \in Boxes : c.wait[b] = "due"}
    IN /\ due # {}
       /\ missing \subseteq UNION {Chain(c, b) : b \in due}
       /\ c' = ProcessQueues(c, due, missing)
       /\ tasks' = Write(c'.last, NotOwn(AppliedOf(c, due, missing)), FALSE)
       /\ UNCHANGED <<sent, results, answer, ready, disk, world>>

-----------------------------------------------------------------------------
(* The server.                                                               *)
MakeUpdate(b, n, own) ==
    /\ Value(b) + n <= Limit[b]
    /\ n = 1 \/ b = "pts"
    /\ own => "own" \in rare /\ b = "pts"
    /\ sent' = sent \cup {[box |-> b, hi |-> Value(b) + n, n |-> n, own |-> own]}
    /\ results' = IF own THEN results \cup {[box |-> b, hi |-> Value(b) + n, n |-> n, own |-> TRUE]}
                  ELSE results
    /\ UNCHANGED <<c, answer, tasks, ready, disk, world>>

Boundaries(b, lo) == {k \in lo..Value(b) : k = lo \/ \E u \in sent : u.box = b /\ u.hi = k}

Answers(r) ==
    (IF r = Server THEN {[kind |-> "empty", from |-> r, to |-> r]}
     ELSE {[kind |-> "difference", from |-> r, to |-> Server]})
    \cup (IF "slice" \in rare
          THEN {[kind |-> "slice", from |-> r, to |-> [r EXCEPT !["pts"] = p, !["qts"] = q]] :
                  p \in Boundaries("pts", r["pts"]) \ {r["pts"], Value("pts")},
                  q \in Boundaries("qts", r["qts"])}
          ELSE {})
    \cup (IF "tooLong" \in rare /\ r["pts"] < Value("pts")
          THEN {[kind |-> "tooLong", from |-> r, to |-> Server]} ELSE {})
    \cup (IF "error" \in rare THEN {[kind |-> "error", from |-> r, to |-> r]} ELSE {})

AnswerDifference(a) ==
    /\ c.request # None /\ answer = None
    /\ answer' = a
    /\ c' = [c EXCEPT !.cover = IF a.kind \in {"empty", "difference"} THEN a.to ELSE @]
    /\ UNCHANGED <<sent, results, tasks, ready, disk, world>>

-----------------------------------------------------------------------------
(* The answer to getDifference, on the stage queue.  After a slice the next  *)
(* one is asked for before this one has been applied.                        *)
SliceOnItsWay == \/ \E i \in 1..Len(ready) : ready[i].kind = "slice"
                 \/ \E i \in 1..Len(tasks) : tasks[i].op = "part" /\ tasks[i].part.kind = "slice"

DifferenceArrives ==
    /\ c.request # None /\ answer # None /\ RoomForPart
    /\ c' = CASE answer.kind = "slice" -> Ask(c, answer.to)
              [] answer.kind = "error" ->
                    [c EXCEPT !.getting = FALSE, !.request = None,
                              !.owed = @ \cap UNION {c.queue[b] : b \in Boxes},
                              !.outrun = @ \/ SliceOnItsWay]
              [] answer.kind = "tooLong" ->
                    [c EXCEPT !.request = None,
                              !.reset = [last |-> [answer.to EXCEPT !["seq"] = c.last["seq"],
                                                                    !["qts"] = answer.from["qts"]],
                                         dialogs |-> 0]]
              [] OTHER -> [c EXCEPT !.request = None]
    /\ tasks' = IF answer.kind \in {"slice", "difference", "empty"}
                THEN Append(tasks, [op |-> "part", part |-> answer]) ELSE tasks
    /\ answer' = None
    /\ UNCHANGED <<sent, results, ready, disk, world>>

(* resetDialogs after differenceTooLong: the lists of dialogs that the server *)
(* gives have all there is then; or a request for them fails, and nothing     *)
(* more happens.                                                              *)
AnswerDialogs ==
    /\ c.reset # None /\ c.reset.dialogs = 0
    /\ c' = [c EXCEPT !.reset.dialogs = Value("pts")]
    /\ UNCHANGED <<sent, results, answer, tasks, ready, disk, world>>

ResetDialogs ==
    /\ c.reset # None /\ c.reset.dialogs # 0
    /\ tasks' = Append(tasks, [op |-> "reset", last |-> c.reset.last, upto |-> c.reset.dialogs])
    /\ c' = [c EXCEPT !.reset = None]
    /\ UNCHANGED <<sent, results, answer, ready, disk, world>>

ResetFails ==
    /\ "resetFails" \in rare /\ c.reset # None
    /\ c' = [c EXCEPT !.reset = None, !.cover = Zero,
                      !.owed = @ \cap UNION {c.queue[b] : b \in Boxes}]
    /\ UNCHANGED <<sent, results, answer, tasks, ready, disk, world>>

(* One task of the storage queue.  saveDiffParamsInternal compares qts with  *)
(* the present value where it means the saved one, 1951.                     *)
RunStorageTask ==
    LET t == Head(tasks)
        same == /\ t.op = "write" /\ ~t.dated
                /\ c.saved["seq"] = t.last["seq"] /\ c.saved["pts"] = t.last["pts"]
                /\ c.last["qts"] = t.last["qts"]
    IN /\ tasks # <<>>
       /\ tasks' = Tail(tasks)
       /\ disk' = CASE t.op = "write" -> [last  |-> IF same THEN disk.last ELSE t.last,
                                          units |-> disk.units \cup t.put]
                    [] t.op = "reset" -> [last  |-> t.last,
                                          units |-> Units("pts", 0, t.upto)
                                                    \cup {x \in disk.units : x[1] # "pts"}]
                    [] OTHER -> disk
       /\ c' = IF t.op = "part" \/ same THEN c ELSE [c EXCEPT !.saved = t.last]
       /\ ready' = CASE t.op = "part" -> Append(ready, t.part)
                     [] t.op = "reset" -> Append(ready, [kind |-> "reset", from |-> Zero, to |-> t.last])
                     [] OTHER -> ready
       /\ UNCHANGED <<sent, results, answer, world>>

EndsUnlessEmpty(p) == p.kind = "difference"
Ends(p) == p.kind # "slice"

(* A part of a difference is applied on the stage queue; the last one ends   *)
(* it, and the queues are processed.                                         *)
ApplyDifference(missing) ==
    LET p   == Head(ready)
        end == Ends(p)
        at  == [c EXCEPT !.getting = IF end THEN FALSE ELSE @,
                         !.last = [b \in Boxes |->
                             IF \/ p.kind = "difference"
                                \/ p.kind = "slice" /\ b # "seq"
                                \/ p.kind = "empty" /\ b = "seq"
                             THEN p.to[b] ELSE c.last[b]]]
        new == UNION {Units(b, p.from[b], p.to[b]) : b \in Boxes}
        d   == IF end THEN ProcessQueues(at, Boxes, missing) ELSE at
    IN /\ ready # <<>> /\ p.kind # "reset"
       /\ missing \subseteq IF end THEN UNION {Chain(at, b) : b \in Boxes} ELSE {}
       /\ c' = d
       /\ tasks' = Write(d.last, new \cup NotOwn(IF end THEN AppliedOf(at, Boxes, missing) ELSE {}), TRUE)
       /\ ready' = Tail(ready)
       /\ UNCHANGED <<sent, results, answer, disk, world>>

CompleteDialogsReset ==
    LET to == Head(ready).to
    IN /\ ready # <<>> /\ Head(ready).kind = "reset"
       /\ c' = GetDifference([c EXCEPT !.getting = FALSE,
                                !.last["pts"] = to["pts"], !.last["qts"] = to["qts"]], {})
       /\ ready' = Tail(ready)
       /\ UNCHANGED <<sent, results, answer, tasks, disk, world>>

(* The process is killed and started again.                                  *)
Restart ==
    /\ "restart" \in rare
    /\ c' = [Memory(disk.last) EXCEPT !.base = c.base]
    /\ answer' = None /\ tasks' = <<>> /\ ready' = <<>> /\ results' = {}
    /\ UNCHANGED <<sent, disk, world>>

-----------------------------------------------------------------------------
StageTask == DifferenceArrives \/ CompleteDialogsReset
             \/ \E m \in Missing : ApplyDifference(m)
Timer     == \E m \in Missing : UpdateTimerProc(m)
Answer    == c.request # None /\ \E a \in Answers(c.request) : AnswerDifference(a)
Dialogs   == AnswerDialogs \/ ResetDialogs \/ ResetFails

Next ==
    \/ StageTask \/ Timer \/ Answer \/ Dialogs \/ RunStorageTask
    \/ \E b \in Boxes : TimePasses(b)
    \/ \E u \in sent : \/ \E m \in Missing : ReceiveUpdate(u, m)
                       \/ ReceiveIncomplete(u)
    \/ \E u \in results : ProcessNewDifferenceParams(u)
    \/ SessionCreated
    \/ \E b \in Boxes, n \in 1..2, own \in BOOLEAN : MakeUpdate(b, n, own)
    \/ Restart

Spec == Init /\ [][Next]_vars

(* Both threads run what is posted to them, the timer is called every        *)
(* second, time passes, and requests are answered, not always by an error.   *)
FairSpec == Spec /\ WF_vars(StageTask) /\ WF_vars(RunStorageTask) /\ WF_vars(Timer)
                 /\ WF_vars(Dialogs) /\ SF_vars(Answer /\ answer'.kind # "error")
                 /\ \A b \in Boxes : WF_vars(TimePasses(b))

-----------------------------------------------------------------------------
(* Types; and a queue that is not empty has its time to wait running, so     *)
(* that the timer will look at it.                                           *)
TypeOK ==
    /\ world \in Worlds
    /\ sent \subseteq Updates /\ results \subseteq {u \in sent : u.own}
    /\ c \in Client
    /\ \A b \in Boxes : c.queue[b] \subseteq {u \in sent : u.box = b}
    /\ \A b \in Boxes : c.queue[b] # {} => c.wait[b] # "none"
    /\ answer \in [kind : AnswerKinds, from : Points, to : Points] \cup {None}
    /\ tasks \in Seq(StorageTasks) /\ ready \in Seq(Parts)
    /\ disk \in [last : Points, units : Stored]

OwnUnits == UnitsOf({u \in sent : u.own})

(* What the database says it has reached has been written to it, whenever    *)
(* the process is killed: a message that is counted is never missing.        *)
(* Excepted are the effects of this client's own requests, written elsewhere,*)
(* and differences that are too long: what is applied and saved between the  *)
(* list of dialogs and completeDialogsReset is wiped by resetDialogs, and a  *)
(* kill before the next difference loses it.                                 *)
SavedNotAhead ==
    "tooLong" \notin rare =>
        \A b \in Boxes : Units(b, c.base[b], disk.last[b]) \subseteq disk.units \cup OwnUnits

(* An update that was received and has not been applied is kept in its queue *)
(* or brought by the difference under way, up to the cases LetGo names.      *)
(* Excepted is what follows when a request fails before the slice that came  *)
(* before it has been applied: applied late, it puts the counters back.      *)
HoleRemembered ==
    ~c.outrun =>
        \A u \in c.owed : u \in c.queue[u.box] \/ (c.getting /\ u.hi <= c.cover[u.box])

(* No update waits for ever, unless resetDialogs has failed (cover is Zero)  *)
(* or a slice was outrun: again and again everything received has been       *)
(* applied or let go.                                                        *)
HoleClosed == []<>(c.owed = {} \/ c.cover = Zero \/ c.outrun)
=============================================================================
