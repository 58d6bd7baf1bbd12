------------------------------ MODULE FileUpload ------------------------------
(* Uploads: FileLoader starts them one after the other on its own queue; a   *)
(* FileUploadOperation reads its file and sends it in parts on the stage     *)
(* queue, several at once, and keeps in the preferences how far it has come. *)
(* Cancelling runs on the queue of FileLoader, next to the stage queue.  The *)
(* server, the network and the application are external.                     *)
EXTENDS Integers, Sequences, FiniteSets, SequencesExt, TLC

RareEvents == {"cancel", "error", "expired", "written"}

(* Lengths are in units; of these numbers only the order matters.            *)
HeadLength == 1                              \* 1024 bytes, kept back while a file is written
Chunk(slow) == IF slow THEN 20 ELSE 40       \* 32 and 128 KB
SaveTimes == 2                               \* 4
Megabyte == 1000

CONSTANTS
    Worlds,      \* what a behavior may be made of: uploads asked for one after the other
                 \* (of), how often the network gets slow or fast (switches) and the process is
                 \* killed (restarts), and RareEvents (rare)
    InitialFast, \* requests sent at the start, 8, and under way at most, 16, on a
    MaxFast      \* network that is not slow

(* A file that is still being written has an estimate, and once its length   *)
(* reported before it is complete.  A location is a path, encrypted or not.  *)
Uploads == [loc : STRING, enc : BOOLEAN, big : BOOLEAN, size : Nat, estimate : Nat, written : Nat]

ASSUME UploadAssumption ==
    /\ InitialFast \in Nat \ {0} /\ MaxFast \in Nat /\ InitialFast <= MaxFast
    /\ \A w \in Worlds :
          /\ w.of \in Seq(Uploads) /\ w.switches \in Nat /\ w.restarts \in Nat
          /\ w.rare \subseteq RareEvents
          /\ \A o \in DOMAIN w.of : w.of[o].written <= w.of[o].size
          /\ \A o, p \in DOMAIN w.of : w.of[o].loc = w.of[p].loc =>
                /\ w.of[o].enc = w.of[p].enc
                /\ w.of[o].estimate # 0 /\ w.of[p].estimate # 0 \* written there, the file has one length
                      => w.of[o].size = w.of[p].size

InitialRequests(slow) == IF slow THEN 1 ELSE InitialFast
MaxRequests(slow)     == IF slow THEN 1 ELSE MaxFast

VARIABLES
    world,  \* the one of Worlds this behavior happens in
    app,    \* what the application has done
    op,     \* the operations
    loader, \* FileLoader
    tasks,  \* fileLoaderQueue
    stage,  \* the stage queue
    at,     \* where the stage queue is inside a task
    prefs,  \* the preferences, by location
    wire,   \* requests not answered yet
    server, \* parts the server has
    made,   \* history: the identifiers given to files, each with the ways in which the file
            \* was cut for it, and whether from its start while it was being written
    mixed   \* history: locations whose point to resume from may be another upload's

vars == <<world, app, op, loader, tasks, stage, at, prefs, wire, server, made, mixed>>

Ids == DOMAIN world.of
Of(o) == world.of[o]
Locations == {Of(o).loc : o \in Ids}
Rare(e) == e \in world.rare

New(u, final) ==
    [state |-> 0, est |-> u.estimate # 0 /\ ~final, total |-> 0, avail |-> 0, slow |-> FALSE,
     max |-> 0, started |-> FALSE, open |-> FALSE, pos |-> 0, read |-> 0, part |-> 0,
     parts |-> 0, chunk |-> 0, last |-> FALSE, nextFirst |-> FALSE,
     later |-> u.estimate # 0 /\ ~final /\ ~u.enc,   \* uploadFirstPartLater
     busy |-> 0,                                     \* currentUploadRequetsCount
     savedPart |-> 0, times |-> 0, cached |-> {}, id |-> 0, guid |-> 0,
     result |-> {},      \* history: identifier and number of parts that were reported
     outcome |-> "none"] \* history: what the application has been told

(* The stage queue is about to call startUploadRequest, left times, or to    *)
(* finish; late: cancel has run since the task looked at the state.          *)
Idle == [kind |-> "idle", o |-> 1, left |-> 0, late |-> FALSE]
Sends(o, n) == [kind |-> "send", o |-> o, left |-> n, late |-> FALSE]
Finishes(o) == [kind |-> "finish", o |-> o, left |-> 1, late |-> FALSE]

NoPrefs == [size |-> 0, id |-> 0, uploaded |-> 0]

Init ==
    /\ world \in Worlds
    /\ app = [uploads |-> 0, written |-> [l \in Locations |-> 0], slow |-> FALSE,
              switches |-> world.switches, restarts |-> world.restarts,
              cancels |-> IF Rare("cancel") THEN Locations ELSE {}]
    /\ op = [o \in Ids |-> New(Of(o), FALSE)]
    /\ loader = [queue |-> <<>>, count |-> 0, paths |-> [l \in Locations |-> 0], sizes |-> {}]
    /\ tasks = <<>> /\ stage = <<>> /\ at = Idle
    /\ prefs = [l \in Locations |-> NoPrefs]
    /\ wire = {} /\ server = {} /\ made = <<>> /\ mixed = {}

-----------------------------------------------------------------------------
(* The application, on its threads.                                          *)
Post(task) == tasks' = Append(tasks, task)

UploadFile ==
    /\ app.uploads < Len(world.of)
    /\ app' = [app EXCEPT !.uploads = @ + 1]
    /\ Post([do |-> "upload", o |-> app.uploads + 1])
    /\ UNCHANGED <<world, op, loader, stage, at, prefs, wire, server, made, mixed>>

CancelFileUpload(l) ==
    /\ l \in app.cancels /\ \E o \in 1..app.uploads : Of(o).loc = l
    /\ app' = [app EXCEPT !.cancels = @ \ {l}]
    /\ Post([do |-> "cancel", loc |-> l])
    /\ UNCHANGED <<world, op, loader, stage, at, prefs, wire, server, made, mixed>>

(* More of a file has been written: part of it, then all.                    *)
CheckUploadNewDataAvailable(o) ==
    LET l == Of(o).loc
    IN /\ Of(o).estimate # 0 /\ app.written[l] < 2
       /\ app' = [app EXCEPT !.written[l] = @ + 1]
       /\ Post([do |-> "data", loc |-> l, avail |-> IF app.written[l] = 0 THEN Of(o).written ELSE Of(o).size,
                final |-> app.written[l] = 1])
       /\ UNCHANGED <<world, op, loader, stage, at, prefs, wire, server, made, mixed>>

OnNetworkChanged ==
    /\ app.switches > 0
    /\ app' = [app EXCEPT !.switches = @ - 1, !.slow = ~@]
    /\ Post([do |-> "network", slow |-> ~app.slow])
    /\ UNCHANGED <<world, op, loader, stage, at, prefs, wire, server, made, mixed>>

-----------------------------------------------------------------------------
(* The queue of FileLoader.                                                  *)
(* One at a time.                                                            *)
RunUpload(o) ==
    LET l == Of(o).loc
        u == New(Of(o), l \in loader.sizes)
    IN IF loader.paths[l] # 0
       THEN /\ op' = [op EXCEPT ![o].outcome = "refused"]
            /\ UNCHANGED <<loader, stage>>
       ELSE /\ loader' = [loader EXCEPT !.paths[l] = o,
                                        !.sizes = IF Of(o).estimate # 0 THEN @ \ {l} ELSE @,
                                        !.count = IF @ < 1 THEN @ + 1 ELSE @,
                                        !.queue = IF loader.count < 1 THEN @ ELSE Append(@, o)]
            /\ IF loader.count < 1
               THEN /\ op' = [op EXCEPT ![o] = [u EXCEPT !.state = 1]]
                    /\ stage' = Append(stage, [do |-> "start", o |-> o])
               ELSE op' = [op EXCEPT ![o] = u] /\ UNCHANGED stage

RunEndCountsLate(o, outcome) ==
    LET count == loader.count - 1
        next  == loader.count < 1 /\ loader.queue # <<>>
        ended == [op EXCEPT ![o].outcome = IF @ = "none" THEN outcome ELSE @]
        first == Head(loader.queue)
    IN /\ loader' = [loader EXCEPT !.paths[Of(o).loc] = 0,
                                   !.count = IF next THEN count + 1 ELSE count,
                                   !.queue = IF next THEN Tail(@) ELSE @]
       /\ op' = IF next THEN [ended EXCEPT ![first].state = IF @ = 0 THEN 1 ELSE @] ELSE ended
       /\ stage' = IF next /\ op[first].state = 0
                   THEN Append(stage, [do |-> "start", o |-> first]) ELSE stage

(* didFinishUploadingFile and didFailedUploadingFile: whoever has the path   *)
(* loses it, and the next one is started.                                    *)
RunEnd(o, outcome) ==
    LET count == loader.count - 1
        next  == count < 1 /\ loader.queue # <<>>
        ended == [op EXCEPT ![o].outcome = IF @ = "none" THEN outcome ELSE @]
        first == Head(loader.queue)
    IN /\ loader' = [loader EXCEPT !.paths[Of(o).loc] = 0,
                                   !.count = IF next THEN count + 1 ELSE count,
                                   !.queue = IF next THEN Tail(@) ELSE @]
       /\ op' = IF next THEN [ended EXCEPT ![first].state = IF @ = 0 THEN 1 ELSE @] ELSE ended
       /\ stage' = IF next /\ op[first].state = 0
                   THEN Append(stage, [do |-> "start", o |-> first]) ELSE stage

(* The name of the preferences is known once the file has been opened.       *)
CleanUp(o) == IF op[o].chunk # 0 THEN [prefs EXCEPT ![Of(o).loc] = NoPrefs] ELSE prefs

(* cancelFileUpload, with FileUploadOperation.cancel: unless the upload is   *)
(* done, it fails, also when it has not been started.  Only the path of an   *)
(* encrypted one is removed at once.                                         *)
RunCancel(l) ==
    LET o == loader.paths[l]
        cancelled == o # 0 /\ op[o].state # 3
    IN /\ loader' = [loader EXCEPT
                        !.sizes = @ \ {l},
                        !.queue = RemoveFirst(@, o),
                        !.paths[l] = IF o # 0 /\ Of(o).enc THEN 0 ELSE @]
       /\ IF cancelled
          THEN /\ op' = [op EXCEPT ![o].state = 2, ![o].open = FALSE]
               /\ stage' = Append(stage, [do |-> "cancel", o |-> o])
               /\ tasks' = Append(Tail(tasks), [do |-> "failed", o |-> o])
               /\ prefs' = CleanUp(o)
               /\ at' = IF at.o = o THEN [at EXCEPT !.late = @ \/ (at.kind # "idle" /\ op[o].state = 1)] ELSE at
          ELSE tasks' = Tail(tasks) /\ UNCHANGED <<op, stage, prefs, at>>

RunData(t) ==
    LET o == loader.paths[t.loc]
    IN /\ stage' = IF o = 0 THEN stage
                   ELSE Append(stage, [do |-> "data", o |-> o, avail |-> t.avail, final |-> t.final])
       /\ loader' = [loader EXCEPT !.sizes = IF o = 0 /\ t.final THEN @ \cup {t.loc} ELSE @]
       /\ UNCHANGED op

RunNetwork(slow) ==
    LET running == {o \in Ids : loader.paths[Of(o).loc] = o /\ op[o].state = 1}
    IN /\ \E order \in [1..Cardinality(running) -> running] :
             /\ \A o \in running : \E i \in DOMAIN order : order[i] = o
             /\ stage' = stage \o [i \in DOMAIN order |-> [do |-> "network", slow |-> slow, o |-> order[i]]]
       /\ UNCHANGED <<op, loader>>

(* An upload that starts while another one of the same file is running, or   *)
(* after it has lost the path, shares the preferences with another one.      *)
Mixing ==
    {Of(o).loc : o \in {p \in Ids :
        /\ op[p].state # 1 /\ op'[p].state = 1
        /\ \/ loader'.paths[Of(p).loc] # p
           \/ \E other \in Ids \ {p} : Of(other).loc = Of(p).loc /\ op[other].state = 1}}

RunLoaderTask ==
    LET t == Head(tasks)
    IN /\ tasks # <<>>
       /\ \/ t.do = "cancel" /\ RunCancel(t.loc)
          \/ /\ t.do # "cancel"
             /\ CASE t.do = "upload"   -> RunUpload(t.o)
                  [] t.do = "data"     -> RunData(t)
                  [] t.do = "network"  -> RunNetwork(t.slow)
                  [] OTHER             -> RunEnd(t.o, t.do)
             /\ tasks' = Tail(tasks) /\ UNCHANGED <<prefs, at>>
       /\ mixed' = mixed \cup Mixing
       /\ UNCHANGED <<world, app, wire, server, made>>

-----------------------------------------------------------------------------
(* The first call of startUploadRequest opens the file, and goes on from a   *)
(* saved point or takes a new identifier.                                    *)
CeilDiv(a, b) == (a + b - 1) \div b
HeadOf(u, big) == IF big THEN u.chunk ELSE HeadLength

CalcTotalPartsCountPlain(u, big) == CeilDiv(u.total, u.chunk)

CalcTotalPartsCount(u, big) ==
    IF u.later THEN 1 + CeilDiv(u.total - HeadOf(u, big), u.chunk) ELSE CeilDiv(u.total, u.chunk)

StoreFileUploadInfo(u) == [NoPrefs EXCEPT !.size = u.total, !.id = u.id]

Sized(u, f) ==
    LET v == [u EXCEPT !.open = TRUE, !.started = TRUE, !.chunk = Chunk(u.slow),
                       !.max = MaxRequests(u.slow),
                       !.total = IF u.est THEN f.estimate ELSE f.size]
    IN [v EXCEPT !.parts = CalcTotalPartsCount(v, f.big)]

(* The points a call may go on from: the saved one; none, under the same     *)
(* identifier, when it is too old; or none, under a new one.                 *)
Resumed(v, f, saved) ==
    LET n == saved.uploaded \div v.chunk
    IN [v EXCEPT !.id = saved.id, !.read = saved.uploaded, !.part = n, !.savedPart = n,
                 !.pos = IF f.big THEN saved.uploaded ELSE IF n * v.chunk < f.size THEN n * v.chunk ELSE f.size,
                 !.last = ~f.big /\ n > 0 /\ (n * v.chunk > f.size \/ v.parts = n + 1)]

Renewed(v, f) ==
    LET start == IF v.later THEN HeadOf(v, f.big) ELSE 0
    IN [v EXCEPT !.id = Len(made) + 1, !.pos = start, !.read = IF v.later THEN start ELSE @,
                 !.part = IF v.later THEN 1 ELSE @, !.savedPart = v.part]

Opened(o) ==
    LET f     == Of(o)
        v     == Sized(op[o], f)
        saved == prefs[f.loc]
        again == ~v.later /\ ~v.nextFirst /\ ~v.est /\ saved.size = v.total
    IN IF again
       THEN (IF Rare("expired") THEN {[v EXCEPT !.id = saved.id, !.pos = 0, !.savedPart = v.part]} ELSE {})
            \cup {IF saved.uploaded > 0 THEN Resumed(v, f, saved) ELSE Renewed(v, f)}
       ELSE {Renewed(v, f)}

(* What it reads then, if that much of the file is there: the next part, or  *)
(* the first one when it was kept back and the others have been read.        *)
Waits(v) == v.est /\ v.read + v.chunk > v.avail
Bytes(v, f) ==
    IF v.nextFirst THEN HeadOf(v, f.big)
    ELSE IF f.size - v.pos < v.chunk THEN f.size - v.pos ELSE v.chunk

ReadPart(v, f) ==
    LET bytes == Bytes(v, f)
        part  == IF v.nextFirst THEN 0 ELSE v.part
        ends  == v.nextFirst \/ bytes # v.chunk \/ (~v.est /\ v.parts = part + 1)
        first == v.nextFirst \/ (ends /\ v.later)
        last  == v.last \/ (ends /\ ~v.later)
        done  == last /\ first
    IN [v EXCEPT !.later = @ /\ ~ends, !.last = last, !.nextFirst = first /\ ~last,
                 !.part = IF done THEN v.parts ELSE part + 1,
                 !.pos = IF done THEN f.size ELSE IF v.nextFirst THEN bytes ELSE @ + bytes,
                 !.read = @ + bytes, !.busy = @ + 1]

Request(o, v) ==
    [o |-> o, guid |-> v.guid, id |-> v.id, part |-> IF v.nextFirst THEN 0 ELSE v.part,
     from |-> IF v.nextFirst THEN 0 ELSE v.pos, bytes |-> Bytes(v, Of(o)), written |-> FALSE,
     early |-> v.est /\ ~Of(o).enc] \* history: the file was still being written

(* How the file is cut for an identifier: the first of its parts may have    *)
(* another length than the others, so that part 0 would begin at origin.     *)
Cut(v, f) == [size |-> f.size, chunk |-> v.chunk, origin |-> v.pos - v.part * v.chunk]

Uses(v, f) ==
    IF v.id > Len(made)
    THEN Append(made, [cuts |-> {Cut(v, f)}, early |-> v.est /\ ~v.later /\ ~f.enc])
    ELSE [made EXCEPT ![v.id].cuts = @ \cup {Cut(v, f)}]

Called == [at EXCEPT !.left = @ - 1, !.late = FALSE, !.kind = IF at.left = 1 THEN "idle" ELSE @]

Fail(o) ==
    /\ op' = [op EXCEPT ![o].state = 4, ![o].open = FALSE]
    /\ tasks' = Append(tasks, [do |-> "failed", o |-> o])
    /\ prefs' = CleanUp(o)

(* The call itself.  When cancel comes after it has looked at the state, it  *)
(* may find the file closed, and fail, or open it again.                     *)
StartUploadRequest ==
    LET o == at.o
        f == Of(o)
    IN /\ at.kind = "send"
       /\ at' = Called
       /\ \/ /\ op[o].state # 1
             /\ UNCHANGED <<op, tasks, prefs, wire, made, mixed>>
          \/ /\ (op[o].state = 1 /\ Rare("error")) \/ at.late
             /\ Fail(o) /\ UNCHANGED <<wire, made, mixed>>
          \/ /\ op[o].state = 1 \/ at.late
             /\ \E v \in IF op[o].open THEN {op[o]} ELSE Opened(o) :
                   LET reads == ~Waits(v) /\ Bytes(v, f) > 0
                   IN /\ op' = [op EXCEPT ![o] = IF reads THEN ReadPart(v, f) ELSE v]
                      /\ wire' = IF reads THEN wire \cup {Request(o, v)} ELSE wire
                      /\ made' = IF op[o].open THEN made ELSE Uses(v, f)
                      /\ prefs' = IF v.id > Len(made) /\ ~v.later /\ ~v.nextFirst /\ ~v.est
                                  THEN [prefs EXCEPT ![f.loc] = StoreFileUploadInfo(v)] ELSE prefs
                      /\ mixed' = IF ~op[o].open /\ v.later /\ prefs[f.loc].id # 0
                                  THEN mixed \cup {f.loc} ELSE mixed
             /\ UNCHANGED tasks
       /\ UNCHANGED <<world, app, loader, stage, server>>

(* The end, when cancel may have come after the state was looked at.         *)
Finish ==
    LET o == at.o
    IN /\ at.kind = "finish"
       /\ at' = Idle
       /\ \/ /\ op[o].state = 1 \/ at.late
             /\ op' = [op EXCEPT ![o].state = 3, ![o].open = FALSE,
                                 ![o].result = {[id |-> op[o].id, parts |-> op[o].part]}]
             /\ tasks' = Append(tasks, [do |-> "finished", o |-> o])
             /\ prefs' = CleanUp(o)
          \/ /\ op[o].state # 1
             /\ UNCHANGED <<op, tasks, prefs>>
       /\ UNCHANGED <<world, app, loader, stage, wire, server, made, mixed>>

-----------------------------------------------------------------------------
(* Tasks of the stage queue.                                                 *)
More(o, u) == IF u.busy < u.max THEN Sends(o, 1) ELSE Idle

RunStart(o) ==
    /\ op' = [op EXCEPT ![o].slow = app.slow]
    /\ at' = Sends(o, InitialRequests(app.slow))
    /\ UNCHANGED <<prefs, wire, tasks>>

RunNewData(o, t) ==
    LET ends == op[o].est /\ t.final
        u    == [op[o] EXCEPT !.est = @ /\ ~ends, !.total = IF ends THEN t.avail ELSE @, !.avail = t.avail]
        v    == [u EXCEPT !.parts = IF ends /\ u.chunk # 0 THEN CalcTotalPartsCount(u, Of(o).big) ELSE @]
    IN /\ op' = [op EXCEPT ![o] = v]
       /\ prefs' = IF ends /\ ~v.later /\ v.started
                   THEN [prefs EXCEPT ![Of(o).loc] = StoreFileUploadInfo(v)] ELSE prefs
       /\ at' = More(o, v)
       /\ UNCHANGED <<wire, tasks>>

RunNetworkChangedKeepsBusy(o, slow) ==
    LET u == op[o]
    IN IF u.slow = slow THEN UNCHANGED <<op, at, prefs, wire, tasks>>
       ELSE /\ op' = [op EXCEPT ![o] = [u EXCEPT
                   !.slow = slow, !.open = FALSE, !.last = FALSE, !.nextFirst = FALSE, !.part = 0,
                   !.read = 0, !.pos = 0, !.times = 0, !.savedPart = 0, !.later = FALSE,
                   !.cached = {}, !.guid = @ + 1]]
            /\ prefs' = CleanUp(o)
            /\ wire' = {r \in wire : r.o # o}
            /\ at' = Sends(o, InitialRequests(slow))
            /\ UNCHANGED tasks

(* The speed of the network has changed: all is begun anew.                  *)
RunNetworkChanged(o, slow) ==
    LET u == op[o]
    IN IF u.slow = slow THEN UNCHANGED <<op, at, prefs, wire, tasks>>
       ELSE /\ op' = [op EXCEPT ![o] = [u EXCEPT
                   !.slow = slow, !.open = FALSE, !.last = FALSE, !.nextFirst = FALSE, !.part = 0,
                   !.read = 0, !.pos = 0, !.times = 0, !.busy = 0, !.savedPart = 0, !.later = FALSE,
                   !.cached = {}, !.guid = @ + 1]]
            /\ prefs' = CleanUp(o)
            /\ wire' = {r \in wire : r.o # o}
            /\ at' = Sends(o, InitialRequests(slow))
            /\ UNCHANGED tasks

(* A part has been confirmed: the point up to which all are is saved now and *)
(* then, in bytes that are the number of the part and its length.            *)
SaveTo(u, part) ==
    CHOOSE n \in part + 1..part + 1 + Cardinality(u.cached) :
        /\ \A k \in part + 1..n - 1 : \E x \in u.cached : x.part = k
        /\ \A x \in u.cached : x.part # n

SavedAnyPart(u, big, r) ==
    LET w     == [u EXCEPT !.times = IF @ >= SaveTimes THEN 1 ELSE @ + 1]
        n     == SaveTo(u, r.part)
        ends  == {x \in u.cached \cup {r} : x.part = n - 1}
        size  == CHOOSE b \in {x.part + x.bytes : x \in ends} : TRUE
        now   == IF big THEN size % Megabyte = 0 ELSE w.times = 1
    IN IF u.est \/ u.later \/ u.nextFirst THEN [u |-> u, size |-> 0]
       ELSE IF r.part < u.savedPart THEN [u |-> [w EXCEPT !.cached = @ \cup {r}], size |-> 0]
       ELSE [u |-> [w EXCEPT !.savedPart = n, !.cached = {x \in @ : x.part \notin r.part + 1..n - 1}],
             size |-> IF now THEN size ELSE 0]

Saved(u, big, r) ==
    LET w     == [u EXCEPT !.times = IF @ >= SaveTimes THEN 1 ELSE @ + 1]
        n     == SaveTo(u, r.part)
        ends  == {x \in u.cached \cup {r} : x.part = n - 1}
        size  == CHOOSE b \in {x.part + x.bytes : x \in ends} : TRUE
        now   == IF big THEN size % Megabyte = 0 ELSE w.times = 1
    IN IF u.est \/ u.later \/ u.nextFirst THEN [u |-> u, size |-> 0]
       ELSE IF r.part # u.savedPart THEN [u |-> [w EXCEPT !.cached = @ \cup {r}], size |-> 0]
       ELSE [u |-> [w EXCEPT !.savedPart = n, !.cached = {x \in @ : x.part \notin r.part + 1..n - 1}],
             size |-> IF now THEN size ELSE 0]

RunAnswer(o, r, ok) ==
    LET u == [op[o] EXCEPT !.busy = @ - 1]
        s == Saved(u, Of(o).big, r)
    IN \/ /\ r.guid # op[o].guid \/ (ok /\ op[o].state # 1)
          /\ UNCHANGED <<op, at, prefs, tasks>>
       \/ /\ r.guid = op[o].guid /\ ~ok
          /\ Fail(o) /\ UNCHANGED at
       \/ /\ r.guid = op[o].guid /\ ok /\ op[o].state = 1
          /\ IF u.last /\ u.busy = 0
             THEN /\ op' = [op EXCEPT ![o] = u]
                  /\ at' = Finishes(o) /\ UNCHANGED prefs
             ELSE IF u.busy < u.max
             THEN /\ op' = [op EXCEPT ![o] = s.u]
                  /\ at' = Sends(o, 1)
                  /\ prefs' = IF s.size > 0 THEN [prefs EXCEPT ![Of(o).loc].uploaded = s.size] ELSE prefs
             ELSE op' = [op EXCEPT ![o] = u] /\ UNCHANGED <<at, prefs>>
          /\ UNCHANGED tasks

RunStageTask ==
    LET t == Head(stage)
    IN /\ at.kind = "idle" /\ stage # <<>>
       /\ stage' = Tail(stage)
       /\ \/ t.do = "start"   /\ RunStart(t.o)
          \/ t.do = "data"    /\ RunNewData(t.o, t)
          \/ t.do = "network" /\ RunNetworkChanged(t.o, t.slow)
          \/ t.do = "answer"  /\ RunAnswer(t.o, t.r, t.ok) /\ UNCHANGED wire
          \/ /\ t.do = "cancel"
             /\ wire' = {r \in wire : r.o # t.o}
             /\ UNCHANGED <<op, at, prefs, tasks>>
          \/ /\ t.do = "written"
             /\ at' = More(t.o, op[t.o])
             /\ UNCHANGED <<op, prefs, wire, tasks>>
       /\ UNCHANGED <<world, app, loader, server, made, mixed>>

-----------------------------------------------------------------------------
(* The network and the server: a request is written to a socket, and         *)
(* answered; its part is then in the place of one with the same number.      *)
Put(parts, r) ==
    {p \in parts : p.id # r.id \/ p.part # r.part}
    \cup {[id |-> r.id, part |-> r.part, from |-> r.from, bytes |-> r.bytes,
            early |-> r.early]}

Written(r) ==
    /\ Rare("written") /\ ~r.written
    /\ wire' = (wire \ {r}) \cup {[r EXCEPT !.written = TRUE]}
    /\ stage' = Append(stage, [do |-> "written", o |-> r.o])
    /\ UNCHANGED <<world, app, op, loader, tasks, at, prefs, server, made, mixed>>

Answer(r, ok) ==
    /\ ok \/ Rare("error")
    /\ wire' = wire \ {r}
    /\ server' = IF ok THEN Put(server, r) ELSE server
    /\ stage' = Append(stage, [do |-> "answer", o |-> r.o, r |-> r, ok |-> ok])
    /\ UNCHANGED <<world, app, op, loader, tasks, at, prefs, made, mixed>>

(* The process is killed; what was asked for is asked for again, and what    *)
(* was being written is written anew.                                        *)
Restart ==
    /\ app.restarts > 0
    /\ op' = [o \in Ids |-> New(Of(o), FALSE)]
    /\ loader' = [queue |-> <<>>, count |-> 0, paths |-> [l \in Locations |-> 0], sizes |-> {}]
    /\ tasks' = <<>> /\ stage' = <<>> /\ at' = Idle /\ wire' = {}
    /\ app' = [app EXCEPT !.uploads = 0, !.written = [l \in Locations |-> 0], !.restarts = @ - 1]
    /\ UNCHANGED <<world, prefs, server, made, mixed>>

Loader == RunLoaderTask
Stage  == RunStageTask \/ StartUploadRequest \/ Finish

Next ==
    \/ UploadFile \/ OnNetworkChanged \/ Restart
    \/ \E l \in app.cancels : CancelFileUpload(l)
    \/ \E o \in Ids : CheckUploadNewDataAvailable(o)
    \/ Loader \/ Stage
    \/ \E r \in wire : Written(r) \/ Answer(r, TRUE) \/ Answer(r, FALSE)

Spec == Init /\ [][Next]_vars

(* Both queues run what is posted to them, files are written to their end,   *)
(* and requests answered.                                                    *)
FairSpec ==
    /\ Spec
    /\ WF_vars(Loader) /\ WF_vars(Stage)
    /\ WF_vars(\E o \in Ids : CheckUploadNewDataAvailable(o))
    /\ WF_vars(\E r \in wire : Written(r) \/ Answer(r, TRUE))

-----------------------------------------------------------------------------
InFlight(o) ==
    Cardinality({r \in wire : r.o = o /\ r.guid = op[o].guid})
    + Cardinality({i \in DOMAIN stage : /\ stage[i].do = "answer"
                                        /\ stage[i].r.o = o /\ stage[i].r.guid = op[o].guid})

(* Types; and a running operation knows how many of its requests are not     *)
(* answered, which decides when it is done.                                  *)
TypeOK ==
    /\ \A o \in Ids :
          /\ op[o].state \in 0..4
          /\ op[o].outcome \in {"none", "finished", "failed", "refused"}
          /\ op[o].state = 1 => op[o].busy = InFlight(o) /\ op[o].busy <= MaxFast
    /\ \A i \in DOMAIN loader.queue : loader.queue[i] \in Ids
    /\ at.kind \in {"idle", "send", "finish"} /\ at.left \in 0..MaxFast

(* The parts the server has for an identifier make the file, and the first   *)
(* one, which is written last, was not read too early.                       *)
Part(file, k) == CHOOSE p \in server : p.id = file.id /\ p.part = k

Complete(file, size) ==
    /\ \A k \in 0..file.parts - 1 : \E p \in server : p.id = file.id /\ p.part = k
    /\ \A k \in 0..file.parts - 1 :
          Part(file, k).from + Part(file, k).bytes
              = IF k = file.parts - 1 THEN size ELSE Part(file, k + 1).from
    /\ Part(file, 0).from = 0
    /\ Part(file, 0).early => made[file.id].early

(* An upload that is reported as finished is complete on the server, in the  *)
(* number of parts that is reported.  Excepted are an identifier for which   *)
(* the file was cut in two ways, after the network has become slow between   *)
(* two processes, and a first part that was sent before the file was written *)
(* to its end, after the network has changed.                                *)
CutOneWay(id) == Cardinality(made[id].cuts) = 1

FinishedIsComplete ==
    \A o \in Ids : \A file \in op[o].result :
        Of(o).loc \notin mixed /\ CutOneWay(file.id) => Complete(file, Of(o).size)

(* The point an upload will be gone on from, whenever the process is killed, *)
(* is not beyond what the server has confirmed, unless two uploads of the    *)
(* file have written to the preferences at the same time.                    *)
ResumePointConfirmed ==
    \A l \in Locations \ mixed : prefs[l].id # 0 /\ CutOneWay(prefs[l].id) =>
        \A cut \in made[prefs[l].id].cuts : \A k \in 0..prefs[l].uploaded \div cut.chunk - 1 :
            \E p \in server : p.id = prefs[l].id /\ p.part = k /\ p.bytes = cut.chunk

(* Every upload that the queue of FileLoader has is reported in the end.     *)
Asked(o) == app.uploads >= o
UploadEnds ==
    \A o \in 1..Max({Len(w.of) : w \in Worlds}) :
        Asked(o) ~> ~Asked(o) \/ op[o].outcome # "none"
=============================================================================
