--------------------------- MODULE UploadPartsProofs ---------------------------
(* Proofs about FileUpload: the point an upload is gone on from is confirmed *)
(* by the server, and a file that is reported as uploaded is complete there. *)
EXTENDS FileUploadProofs

-----------------------------------------------------------------------------
(* An upload that was cancelled while the stage queue was in a task of it    *)
(* does not run, and its file is closed until that task goes on.             *)
LateStopped == at.late => at.kind # "idle" /\ op[at.o].state # 1 /\ ~op[at.o].open

(* Once an upload runs whose location is not mixed, no other one of the      *)
(* location does: one that has been at work has lost the path, the data for  *)
(* it is ahead of the first task of the one that runs, and so is what the    *)
(* stage queue is still to do for it.                                        *)
AtWork(p) == op[p].started \/ (at.late /\ at.o = p)
StartAfter(s, o, i) == \E j \in DOMAIN s : i < j /\ Starts(s, o, j)

Apart(o, p) ==
    /\ op[p].state # 1
    /\ AtWork(p) => /\ loader.paths[Of(p).loc] # p
                    /\ \A i \in DOMAIN stage :
                          stage[i].do = "data" /\ stage[i].o = p => StartAfter(stage, o, i)
    /\ at.late /\ at.o = p => \E j \in DOMAIN stage : Starts(stage, o, j)

Alone ==
    \A o, p \in Ids : /\ o # p /\ Of(o).loc = Of(p).loc /\ Of(o).loc \notin mixed
                      /\ op[o].state = 1
                      => Apart(o, p)

(* Of a file that is being written there is never more than its length, and  *)
(* that is there in the end.                                                 *)
Holds(o, t) ==
    Of(o).estimate # 0 => t.avail <= Of(o).size /\ (t.final => t.avail = Of(o).size)
OpsHold ==
    \A o \in Ids : /\ op[o].est => Of(o).estimate # 0 /\ op[o].avail <= Of(o).size
                   /\ op[o].open => op[o].started
TasksHold ==
    \A i \in DOMAIN tasks : tasks[i].do = "data" =>
        \A o \in Ids : Of(o).loc = tasks[i].loc => Holds(o, tasks[i])
StageHolds == \A i \in DOMAIN stage : stage[i].do = "data" => Holds(stage[i].o, stage[i])

Apartness == LateStopped /\ Alone /\ OpsHold /\ TasksHold /\ StageHolds

LEMMA ApartnessInit == Init => Apartness
<1> SUFFICES ASSUME Init PROVE Apartness
  OBVIOUS
<1>1. at = Idle /\ tasks = <<>> /\ stage = <<>> /\ ~at.late
  BY DEF Init, Idle
<1>2. \A o \in Ids : /\ op[o].state = 0 /\ ~op[o].open /\ op[o].avail = 0
                     /\ op[o].est => Of(o).estimate # 0
  <2>1. \A o \in Ids : op[o] = New(Of(o), FALSE)
    BY DEF Init
  <2>2. \A f : /\ New(f, FALSE).state = 0 /\ ~New(f, FALSE).open /\ New(f, FALSE).avail = 0
               /\ New(f, FALSE).est => f.estimate # 0
    BY DEF New
  <2> QED
    BY <2>1, <2>2
<1>3. DOMAIN tasks = {} /\ DOMAIN stage = {}
  BY <1>1
<1>4. \A o \in Ids : Of(o).size \in Nat
  BY WorldFacts DEF Init, Uploads
<1>5. LateStopped /\ Alone
  BY <1>1, <1>2 DEF LateStopped, Alone
<1>6. OpsHold /\ TasksHold /\ StageHolds
  BY <1>2, <1>3, <1>4 DEF OpsHold, TasksHold, StageHolds
<1> QED
  BY <1>5, <1>6 DEF Apartness

(* Nobody begins to run, and the stage queue gets no data for anyone who has *)
(* lost the path.                                                            *)
Grown(s, t) ==
    /\ \A i \in DOMAIN s : i \in DOMAIN t /\ t[i] = s[i]
    /\ \A i \in DOMAIN t : i \notin DOMAIN s /\ t[i].do = "data" =>
          loader.paths[Of(t[i].o).loc] = t[i].o

LEMMA GrownAlone ==
    ASSUME Alone, world' = world, mixed \subseteq mixed', Grown(stage, stage'),
           \A p \in Ids : /\ op'[p].state = 1 => op[p].state = 1
                          /\ op'[p].started => AtWork(p) \/ op[p].state = 1
                          /\ loader'.paths[Of(p).loc] = p =>
                                \/ loader.paths[Of(p).loc] = p
                                \/ ~op'[p].started /\ ~(at'.late /\ at'.o = p)
                          /\ at'.late /\ at'.o = p => (at.late /\ at.o = p) \/ op[p].state = 1
    PROVE  Alone'
<1>1. Ids' = Ids /\ \A o : Of(o)' = Of(o)
  BY SameWorld
<1> SUFFICES ASSUME NEW o \in Ids, NEW p \in Ids, o # p, Of(o).loc = Of(p).loc,
                    Of(o).loc \notin mixed', op'[o].state = 1
             PROVE  Apart(o, p)'
  BY <1>1 DEF Alone
<1>2. op[o].state = 1 /\ Apart(o, p)
  BY DEF Alone
<1>3. op'[p].state # 1 /\ op[p].state # 1
  BY <1>2 DEF Apart
<1>4. AtWork(p)' => AtWork(p)
  BY <1>3 DEF AtWork
<1>5. ASSUME AtWork(p)'
      PROVE  /\ loader'.paths[Of(p).loc] # p
             /\ \A i \in DOMAIN stage' :
                   stage'[i].do = "data" /\ stage'[i].o = p => StartAfter(stage', o, i)
  <2>1. loader.paths[Of(p).loc] # p /\ loader'.paths[Of(p).loc] # p
    BY <1>2, <1>4, <1>5 DEF Apart, AtWork
  <2> SUFFICES ASSUME NEW i \in DOMAIN stage', stage'[i].do = "data", stage'[i].o = p
               PROVE  StartAfter(stage', o, i)
    BY <2>1
  <2>2. i \in DOMAIN stage
    BY <2>1 DEF Grown
  <2>3. stage[i].do = "data" /\ stage[i].o = p
    BY <2>2 DEF Grown
  <2>4. StartAfter(stage, o, i)
    BY <1>2, <1>4, <1>5, <2>2, <2>3 DEF Apart
  <2> QED
    BY <2>4 DEF StartAfter, Starts, Grown
<1>6. at'.late /\ at'.o = p => \E j \in DOMAIN stage' : Starts(stage', o, j)
  BY <1>2, <1>3 DEF Apart, Grown, Starts
<1> QED
  BY <1>1, <1>3, <1>4, <1>5, <1>6 DEF Apart

(* A task of the stage queue is run.                                         *)
LEMMA RunAlone ==
    ASSUME Alone, world' = world, mixed \subseteq mixed', stage \in Seq(StageTasks), stage # <<>>,
           stage' = Tail(stage), ~at'.late, loader' = loader,
           \A p \in Ids : /\ op'[p].state = 1 => op[p].state = 1
                          /\ op'[p].started => op[p].started
    PROVE  Alone'
<1>1. Ids' = Ids /\ \A o : Of(o)' = Of(o)
  BY SameWorld
<1>2. /\ DOMAIN stage' = 1..Len(stage) - 1 /\ DOMAIN stage = 1..Len(stage) /\ Len(stage) \in Nat
      /\ \A i \in DOMAIN stage' : i + 1 \in DOMAIN stage /\ stage'[i] = stage[i + 1]
      /\ \A i \in DOMAIN stage' : \A j \in DOMAIN stage : i + 1 < j =>
            j - 1 \in DOMAIN stage' /\ i < j - 1 /\ stage'[j - 1] = stage[j]
  <2>1. stage' = Tail(stage) /\ stage \in Seq(StageTasks) /\ stage # <<>>
    OBVIOUS
  <2> QED
    BY ONLY <2>1
<1> SUFFICES ASSUME NEW o \in Ids, NEW p \in Ids, o # p, Of(o).loc = Of(p).loc,
                    Of(o).loc \notin mixed', op'[o].state = 1
             PROVE  Apart(o, p)'
  BY <1>1 DEF Alone
<1>3. op[o].state = 1 /\ Apart(o, p) /\ op'[p].state # 1
  BY DEF Alone, Apart
<1>4. AtWork(p)' => AtWork(p)
  BY DEF AtWork
<1>5. ASSUME AtWork(p), NEW i \in DOMAIN stage', stage'[i].do = "data", stage'[i].o = p
      PROVE  StartAfter(stage', o, i)
  <2>1. i + 1 \in DOMAIN stage /\ stage[i + 1].do = "data" /\ stage[i + 1].o = p
    BY <1>2, <1>5
  <2>2. StartAfter(stage, o, i + 1)
    BY <1>3, <1>5, <2>1 DEF Apart
  <2>3. PICK j \in DOMAIN stage : i + 1 < j /\ Starts(stage, o, j)
    BY <2>2 DEF StartAfter
  <2> QED
    BY <1>2, <2>3 DEF StartAfter, Starts
<1>6. AtWork(p) => loader'.paths[Of(p).loc] # p
  BY <1>3 DEF Apart
<1> QED
  BY <1>1, <1>3, <1>4, <1>5, <1>6 DEF Apart

(* An upload begins to run: it has the path, and the others do not run.      *)
LEMMA StartedAlone ==
    ASSUME Alone, world' = world, mixed \subseteq mixed', stage \in Seq(StageTasks), Ids \subseteq Nat,
           NEW n \in Ids, NEW t, t.do = "start", t.o = n, stage' = Append(stage, t), at' = at,
           op[n].state = 0, ~op'[n].started, ~(at.late /\ at.o = n),
           \A p \in Ids : p # n => /\ op'[p].state = op[p].state /\ op'[p].started = op[p].started
                                   /\ loader'.paths[Of(p).loc] = p => loader.paths[Of(p).loc] = p,
           Of(n).loc \notin mixed' => /\ loader'.paths[Of(n).loc] = n
                                      /\ \A p \in Ids \ {n} : Of(p).loc = Of(n).loc => op[p].state # 1
    PROVE  Alone'
<1>1. Ids' = Ids /\ \A o : Of(o)' = Of(o)
  BY SameWorld
<1>2. /\ DOMAIN stage' = 1..Len(stage) + 1 /\ DOMAIN stage = 1..Len(stage) /\ Len(stage) \in Nat
      /\ \A i \in DOMAIN stage : stage'[i] = stage[i]
      /\ stage'[Len(stage) + 1] = t
  <2>1. stage' = Append(stage, t) /\ stage \in Seq(StageTasks)
    OBVIOUS
  <2> QED
    BY ONLY <2>1
<1>3. \A i \in DOMAIN stage' : stage'[i].do = "data" =>
          /\ i \in DOMAIN stage /\ stage[i] = stage'[i] /\ i < Len(stage) + 1
  BY <1>2
<1>4. Starts(stage', n, Len(stage) + 1) /\ Len(stage) + 1 \in DOMAIN stage'
  BY <1>2 DEF Starts
<1> SUFFICES ASSUME NEW o \in Ids, NEW p \in Ids, o # p, Of(o).loc = Of(p).loc,
                    Of(o).loc \notin mixed', op'[o].state = 1
             PROVE  Apart(o, p)'
  BY <1>1 DEF Alone
<1>5. CASE o = n
  <2>1. op'[p].state # 1 /\ loader'.paths[Of(p).loc] # p
    BY <1>5
  <2>2. \A i \in DOMAIN stage' : stage'[i].do = "data" => StartAfter(stage', o, i)
    BY <1>3, <1>4, <1>5 DEF StartAfter
  <2> QED
    BY <1>1, <1>4, <1>5, <2>1, <2>2 DEF Apart
<1>6. CASE p = n
  <2>1. op'[o].state = op[o].state /\ op[o].state # 1
    BY <1>6
  <2> QED
    BY <2>1
<1>7. CASE o # n /\ p # n
  <2>1. op[o].state = 1 /\ Apart(o, p) /\ op'[p].state # 1
    BY <1>7 DEF Alone, Apart
  <2>2. AtWork(p)' => AtWork(p)
    BY <1>7 DEF AtWork
  <2>3. ASSUME AtWork(p)
        PROVE  /\ loader'.paths[Of(p).loc] # p
               /\ \A i \in DOMAIN stage' :
                     stage'[i].do = "data" /\ stage'[i].o = p => StartAfter(stage', o, i)
    <3>1. loader'.paths[Of(p).loc] # p
      BY <1>7, <2>1, <2>3 DEF Apart
    <3>2. \A i \in DOMAIN stage : stage[i].do = "data" /\ stage[i].o = p => StartAfter(stage, o, i)
      BY <2>1, <2>3 DEF Apart
    <3>3. \A i \in DOMAIN stage : StartAfter(stage, o, i) => StartAfter(stage', o, i)
      BY <1>2 DEF StartAfter, Starts
    <3> QED
      BY <1>3, <3>1, <3>2, <3>3
  <2>4. at.late /\ at.o = p => \E j \in DOMAIN stage' : Starts(stage', o, j)
    BY <1>2, <2>1 DEF Apart, Starts
  <2> QED
    BY <1>1, <2>1, <2>2, <2>3, <2>4 DEF Apart
<1> QED
  BY <1>5, <1>6, <1>7

-----------------------------------------------------------------------------
(* The application posts tasks to FileLoader.                                *)
LEMMA PostedHolds ==
    ASSUME Types, TasksHold, world' = world, NEW t \in LoaderTasks, tasks' = Append(tasks, t),
           t.do = "data" => \A o \in Ids : Of(o).loc = t.loc => Holds(o, t)
    PROVE  TasksHold'
<1>1. /\ Ids' = Ids /\ (\A o : Of(o)' = Of(o)) /\ tasks \in Seq(LoaderTasks)
  BY SameWorld DEF Types, TasksType
<1>2. /\ DOMAIN tasks' = 1..Len(tasks) + 1 /\ DOMAIN tasks = 1..Len(tasks) /\ Len(tasks) \in Nat
      /\ (\A i \in DOMAIN tasks : tasks'[i] = tasks[i]) /\ tasks'[Len(tasks) + 1] = t
  <2>1. tasks \in Seq(LoaderTasks) /\ tasks' = Append(tasks, t)
    BY <1>1
  <2> QED
    BY ONLY <2>1
<1> SUFFICES ASSUME NEW i \in DOMAIN tasks', tasks'[i].do = "data", NEW o \in Ids,
                    Of(o).loc = tasks'[i].loc
             PROVE  Holds(o, tasks'[i])
  BY <1>1 DEF TasksHold, Holds
<1>3. CASE i \in DOMAIN tasks
  BY <1>2, <1>3 DEF TasksHold
<1>4. CASE i = Len(tasks) + 1
  BY <1>2, <1>4
<1> QED
  BY <1>2, <1>3, <1>4

LEMMA TakenHolds ==
    ASSUME Types, TasksHold, world' = world, tasks # <<>>, tasks' = Tail(tasks)
    PROVE  TasksHold'
<1>1. /\ Ids' = Ids /\ (\A o : Of(o)' = Of(o)) /\ tasks \in Seq(LoaderTasks)
  BY SameWorld DEF Types, TasksType
<1>2. \A i \in DOMAIN tasks' : i + 1 \in DOMAIN tasks /\ tasks'[i] = tasks[i + 1]
  <2>1. tasks \in Seq(LoaderTasks) /\ tasks # <<>> /\ tasks' = Tail(tasks)
    BY <1>1
  <2> QED
    BY ONLY <2>1
<1> QED
  BY <1>1, <1>2 DEF TasksHold, Holds

(* Nothing that is of concern here is different but the tasks.               *)
LEMMA SameApartness ==
    ASSUME Inv, Apartness, UNCHANGED <<world, op, loader, stage, at, mixed>>
    PROVE  LateStopped' /\ Alone' /\ OpsHold' /\ StageHolds'
<1>1. Ids' = Ids /\ \A o : Of(o)' = Of(o)
  BY SameWorld
<1>2. LateStopped' /\ OpsHold' /\ StageHolds'
  BY <1>1 DEF Apartness, LateStopped, OpsHold, StageHolds, Holds
<1>3. Alone'
  BY GrownAlone DEF Apartness, Grown, AtWork
<1> QED
  BY <1>2, <1>3

LEMMA PostedApartness ==
    ASSUME Inv, Apartness, UNCHANGED <<world, op, loader, stage, at, mixed>>,
           NEW t \in LoaderTasks, tasks' = Append(tasks, t),
           t.do = "data" => \A o \in Ids : Of(o).loc = t.loc => Holds(o, t)
    PROVE  Apartness'
BY SameApartness, PostedHolds DEF Inv, Apartness

LEMMA ApplicationApartness ==
    ASSUME Inv, Apartness,
           UploadFile \/ OnNetworkChanged \/ \E l \in app.cancels : CancelFileUpload(l)
    PROVE  Apartness'
<1>1. CASE UploadFile
  <2>1. [do |-> "upload", o |-> app.uploads + 1] \in LoaderTasks
    <3>1. /\ Ids = 1..Len(world.of) /\ Len(world.of) \in Nat /\ app.uploads \in 0..Len(world.of)
          /\ app.uploads < Len(world.of)
      BY <1>1, WorldFacts DEF Inv, Types, AppType, UploadFile
    <3> QED
      BY <3>1 DEF LoaderTasks
  <2> QED
    BY <1>1, <2>1, PostedApartness DEF UploadFile, Post
<1>2. CASE OnNetworkChanged
  <2>1. [do |-> "network", slow |-> ~app.slow] \in LoaderTasks
    BY DEF Inv, Types, AppType, LoaderTasks
  <2> QED
    BY <1>2, <2>1, PostedApartness DEF OnNetworkChanged, Post
<1>3. ASSUME NEW l \in app.cancels, CancelFileUpload(l) PROVE Apartness'
  <2>1. [do |-> "cancel", loc |-> l] \in LoaderTasks
    BY DEF Inv, Types, AppType, LoaderTasks
  <2> QED
    BY <1>3, <2>1, PostedApartness DEF CancelFileUpload, Post
<1> QED
  BY <1>1, <1>2, <1>3

(* What is written of a file is its length at most, and whoever writes to    *)
(* the location.                                                             *)
LEMMA CheckUploadNewDataAvailableApartness ==
    ASSUME Inv, Apartness, NEW o \in Ids, CheckUploadNewDataAvailable(o)
    PROVE  Apartness'
<1> DEFINE l == Of(o).loc
           t == [do |-> "data", loc |-> l, avail |-> IF app.written[l] = 0 THEN Of(o).written ELSE Of(o).size,
                 final |-> app.written[l] = 1]
<1>1. Of(o) \in Uploads /\ l \in Locations /\ Of(o).written <= Of(o).size
  BY WorldFacts DEF Inv, Types
<1>2. t \in LoaderTasks /\ t.avail <= Of(o).size
  BY <1>1 DEF LoaderTasks, Uploads
<1>3. ASSUME NEW p \in Ids, Of(p).loc = l, Of(p).estimate # 0 PROVE Of(p).size = Of(o).size
  <2>1. Of(o).estimate # 0 /\ world \in Worlds
    BY DEF CheckUploadNewDataAvailable, Inv, Types
  <2> QED
    BY <1>3, <2>1, UploadAssumption DEF Of, Ids
<1>4. t.loc = l /\ tasks' = Append(tasks, t)
  BY DEF CheckUploadNewDataAvailable, Post
<1>5. t.final => t.avail = Of(o).size
  <2>1. app.written[l] = 1 => app.written[l] # 0
    BY DEF Inv, Types, AppType
  <2> QED
    BY <2>1
<1>6. \A p \in Ids : Of(p).loc = t.loc => Holds(p, t)
  BY <1>2, <1>3, <1>4, <1>5 DEF Holds
<1> HIDE DEF t
<1> QED
  BY <1>2, <1>4, <1>6, PostedApartness DEF CheckUploadNewDataAvailable

LEMMA RestartApartness == Inv /\ Apartness /\ Restart => Apartness'
<1> SUFFICES ASSUME Inv, Restart PROVE Apartness'
  OBVIOUS
<1>1. world' = world /\ Ids' = Ids /\ \A o : Of(o)' = Of(o)
  BY SameWorld DEF Restart
<1>2. \A o \in Ids : /\ op'[o].state = 0 /\ ~op'[o].open /\ op'[o].avail = 0
                     /\ op'[o].est => Of(o).estimate # 0
  <2>1. \A o \in Ids : op'[o] = New(Of(o), FALSE)
    BY DEF Restart
  <2>2. \A f : /\ New(f, FALSE).state = 0 /\ ~New(f, FALSE).open /\ New(f, FALSE).avail = 0
               /\ New(f, FALSE).est => f.estimate # 0
    BY DEF New
  <2> QED
    BY <2>1, <2>2
<1>3. DOMAIN tasks' = {} /\ DOMAIN stage' = {} /\ ~at'.late
  BY DEF Restart, Idle
<1>4. \A o \in Ids : Of(o).size \in Nat
  BY WorldFacts DEF Inv, Types, Uploads
<1>5. LateStopped' /\ Alone'
  BY <1>1, <1>2, <1>3 DEF LateStopped, Alone
<1>6. OpsHold' /\ TasksHold' /\ StageHolds'
  BY <1>1, <1>2, <1>3, <1>4 DEF OpsHold, TasksHold, StageHolds
<1> QED
  BY <1>5, <1>6 DEF Apartness

-----------------------------------------------------------------------------
(* What a step does to an upload that it does not go on with: nothing that   *)
(* is of concern here, or its file is closed, or FileLoader makes it anew.   *)
Same(u, v) ==
    /\ v.state = u.state /\ v.est = u.est /\ v.avail = u.avail /\ v.started = u.started
    /\ v.open = u.open /\ v.pos = u.pos /\ v.read = u.read /\ v.part = u.part
    /\ v.chunk = u.chunk /\ v.last = u.last /\ v.nextFirst = u.nextFirst /\ v.later = u.later
    /\ v.savedPart = u.savedPart /\ v.cached = u.cached /\ v.id = u.id /\ v.guid = u.guid
    /\ v.parts = u.parts

Closed(u, v) ==
    /\ ~v.open /\ (v.state = 1 => u.state = 1) /\ (v.nextFirst => u.nextFirst)
    /\ v.est = u.est /\ v.avail = u.avail /\ v.started = u.started /\ v.id = u.id

Fresh(u, v, f) ==
    /\ u.state = 0 /\ v.state \in {0, 1} /\ Blank(v)
    /\ v.est => f.estimate # 0 /\ v.avail <= f.size

Quiet(u, v, f) == Same(u, v) \/ Closed(u, v) \/ Fresh(u, v, f)
QuietOps == \A p \in Ids : Quiet(op[p], op'[p], Of(p))

AnswersKept ==
    \A i \in DOMAIN stage' : stage'[i].do = "answer" => \E j \in DOMAIN stage : stage[j] = stage'[i]
PrefsKept == \A l \in Locations : prefs'[l] = prefs[l] \/ prefs'[l] = NoPrefs

LEMMA QuietHold ==
    ASSUME OpsHold, world' = world, QuietOps
    PROVE  OpsHold'
<1>1. Ids' = Ids /\ \A o : Of(o)' = Of(o)
  BY SameWorld
<1> SUFFICES ASSUME NEW o \in Ids
             PROVE  /\ op'[o].est => Of(o).estimate # 0 /\ op'[o].avail <= Of(o).size
                    /\ op'[o].open => op'[o].started
  BY <1>1 DEF OpsHold
<1>2. /\ op[o].est => Of(o).estimate # 0 /\ op[o].avail <= Of(o).size
      /\ op[o].open => op[o].started
  BY DEF OpsHold
<1> QED
  BY <1>2 DEF QuietOps, Quiet, Same, Closed, Fresh, Blank

LEMMA AppendedHolds ==
    ASSUME StageHolds, world' = world, stage \in Seq(StageTasks), NEW t, stage' = Append(stage, t),
           t.do = "data" => /\ Holds(t.o, t)
                            /\ loader.paths[Of(t.o).loc] = t.o,
           t.do # "answer"
    PROVE  StageHolds' /\ AnswersKept /\ Grown(stage, stage')
<1>1. /\ DOMAIN stage' = 1..Len(stage) + 1 /\ DOMAIN stage = 1..Len(stage) /\ Len(stage) \in Nat
      /\ \A i \in DOMAIN stage : stage'[i] = stage[i]
      /\ stage'[Len(stage) + 1] = t
  <2>1. stage' = Append(stage, t) /\ stage \in Seq(StageTasks)
    OBVIOUS
  <2> QED
    BY ONLY <2>1
<1>2. Ids' = Ids /\ \A o : Of(o)' = Of(o)
  BY SameWorld
<1>3. \A i \in DOMAIN stage' : i \in DOMAIN stage \/ stage'[i] = t
  BY <1>1
<1>4. StageHolds'
  <2> SUFFICES ASSUME NEW i \in DOMAIN stage', stage'[i].do = "data"
               PROVE  Holds(stage'[i].o, stage'[i])
    BY <1>2 DEF StageHolds, Holds
  <2> QED
    BY <1>1, <1>3 DEF StageHolds
<1>5. AnswersKept
  BY <1>1, <1>3 DEF AnswersKept
<1>6. Grown(stage, stage')
  BY <1>1, <1>3 DEF Grown
<1> QED
  BY <1>4, <1>5, <1>6

LEMMA SameStage ==
    ASSUME StageHolds, world' = world, stage' = stage
    PROVE  StageHolds' /\ AnswersKept /\ Grown(stage, stage')
BY SameWorld DEF StageHolds, Holds, AnswersKept, Grown

(* What is known of an upload of which nothing has been done.                *)
LEMMA UntakenIs ==
    ASSUME Inv, NEW o \in Ids, op[o].state = 0
    PROVE  Blank(op[o]) /\ (at.kind # "idle" => at.o # o)
<1>1. View(o, Of(o), op[o], Mine(wire, o), stage, Kind(o, at), Pending(o, at))
  BY DEF Inv, Views, ViewOf
<1> QED
  BY <1>1 DEF View, Untaken, Kind

LEMMA UntakenNotLate ==
    ASSUME Inv, LateStopped, NEW o \in Ids, op[o].state = 0
    PROVE  ~(at.late /\ at.o = o)
BY UntakenIs DEF LateStopped

-----------------------------------------------------------------------------
(* The queue of FileLoader.                                                  *)
Calm == QuietOps /\ AnswersKept /\ PrefsKept

LEMMA RunUploadApart ==
    ASSUME Inv, Apartness, tasks # <<>>, Head(tasks).do = "upload", RunUpload(Head(tasks).o),
           tasks' = Tail(tasks), UNCHANGED <<world, at, prefs>>, mixed' = mixed \cup Mixing
    PROVE  Apartness' /\ Calm
<1> DEFINE o == Head(tasks).o
           l == Of(o).loc
           u == New(Of(o), l \in loader.sizes)
<1>1. o \in Ids /\ Of(o) \in Uploads /\ l \in Locations /\ op[o].state = 0
  BY LoaderFacts, LoaderTaskFields, WorldFacts DEF Inv, Types, Unknown
<1>2. /\ loader \in [queue : Seq(Ids), count : Int, paths : [Locations -> Ids \cup {0}],
                     sizes : SUBSET Locations]
      /\ op \in [Ids -> Operations] /\ stage \in Seq(StageTasks) /\ Ids \subseteq Nat /\ 0 \notin Ids
      /\ \A p \in Ids : Of(p).loc \in Locations
  BY LoaderState
<1>3. LateStopped /\ Alone /\ OpsHold /\ TasksHold /\ StageHolds
  BY DEF Apartness
<1>4. ~(at.late /\ at.o = o)
  BY <1>1, <1>3, UntakenNotLate
<1>5. TasksHold'
  BY <1>3, TakenHolds DEF Inv
<1>6. mixed \subseteq mixed' /\ PrefsKept /\ world' = world /\ at' = at
  BY DEF PrefsKept
<1>7. CASE loader.paths[l] # 0
  <2>1. op' = [op EXCEPT ![o].outcome = "refused"] /\ loader' = loader /\ stage' = stage
    BY <1>7 DEF RunUpload
  <2>2. Same(op[o], op'[o])
    <3>1. op[o] \in Operations /\ op'[o] = [op[o] EXCEPT !.outcome = "refused"]
      BY <1>1, <1>2, <2>1
    <3> HIDE DEF o
    <3> QED
      BY <3>1 DEF Operations, Same
  <2>3. \A p \in Ids : Same(op[p], op'[p])
    <3>1. \A p \in Ids : p # o => op'[p] = op[p]
      BY <1>2, <2>1
    <3> QED
      BY <2>2, <3>1 DEF Same
  <2> HIDE DEF o
  <2>4. LateStopped'
    BY <1>3, <1>6, <2>3, StageState DEF LateStopped, Same
  <2>5. StageHolds' /\ AnswersKept /\ Grown(stage, stage')
    BY <1>3, <1>6, <2>1, SameStage
  <2>6. Alone'
    BY <1>3, <1>6, <2>1, <2>3, <2>5, GrownAlone DEF Same, AtWork
  <2>7. QuietOps /\ OpsHold'
    BY <1>3, <1>6, <2>3, QuietHold DEF QuietOps, Quiet
  <2> QED
    BY <1>5, <1>6, <2>4, <2>5, <2>6, <2>7 DEF Apartness, Calm
<1>8. CASE loader.paths[l] = 0
  <2> DEFINE now   == loader.count < 1
             paths == [loader.paths EXCEPT ![l] = o]
             v     == IF now THEN [u EXCEPT !.state = 1] ELSE u
             t     == [do |-> "start", o |-> o]
  <2>1. /\ loader'.paths = paths
        /\ op' = [op EXCEPT ![o] = v]
        /\ stage' = IF now THEN Append(stage, t) ELSE stage
    BY <1>2, <1>8 DEF RunUpload
  <2>2. /\ u \in Operations /\ Blank(u) /\ Flags(u) /\ u.state = 0
        /\ u.est => Of(o).estimate # 0
    <3>1. (l \in loader.sizes) \in BOOLEAN
      OBVIOUS
    <3> HIDE DEF l, o
    <3> QED
      BY <1>1, <3>1, NewFields
  <2>3. u.avail = 0
    BY DEF New
  <2>4. Blank(v) /\ v.state = (IF now THEN 1 ELSE 0) /\ v.est = u.est /\ v.avail = 0
    <3>1. CASE now
      <4> HIDE DEF u
      <4>1. v = [u EXCEPT !.state = 1]
        BY <3>1
      <4> HIDE DEF v, o, l
      <4>2. v.state = 1 /\ Blank(v)
        BY <2>2, <4>1, StartFields
      <4>3. v.est = u.est /\ v.avail = 0
        BY <2>2, <2>3, <4>1 DEF Operations
      <4> QED
        BY <3>1, <4>2, <4>3
    <3>2. CASE ~now
      BY <2>2, <2>3, <3>2
    <3> QED
      BY <3>1, <3>2
  <2>5. op'[o] = v /\ \A p \in Ids : p # o => op'[p] = op[p]
    BY <1>1, <1>2, <2>1
  <2>6. Of(o).size \in Nat
    BY <1>1 DEF Uploads
  <2>7. \A p \in Ids : p # o /\ loader'.paths[Of(p).loc] = p => loader.paths[Of(p).loc] = p
    BY <1>1, <1>2, <2>1
  <2>8. loader'.paths[l] = o
    BY <1>1, <1>2, <2>1
  <2> HIDE DEF u, v, t, paths
  <2>9. Fresh(op[o], op'[o], Of(o))
    BY <1>1, <2>2, <2>4, <2>5, <2>6 DEF Fresh
  <2>10. QuietOps /\ OpsHold'
    <3>1. \A p \in Ids : p # o => Same(op[p], op'[p])
      BY <2>5 DEF Same
    <3> QED
      BY <1>3, <1>6, <2>9, <3>1, QuietHold DEF QuietOps, Quiet
  <2>11. LateStopped'
    BY <1>3, <1>4, <1>6, <2>5, StageState DEF LateStopped
  <2>12. StageHolds' /\ AnswersKept /\ Grown(stage, stage')
    <3>1. CASE now
      <4>1. t.do = "start"
        BY DEF t
      <4> QED
        BY <1>2, <1>3, <1>6, <2>1, <3>1, <4>1, AppendedHolds
    <3>2. CASE ~now
      BY <1>3, <1>6, <2>1, <3>2, SameStage
    <3> QED
      BY <3>1, <3>2
  <2>13. Alone'
    <3>1. CASE now
      <4>1. t.do = "start" /\ t.o = o /\ stage' = Append(stage, t)
        BY <2>1, <3>1 DEF t
      <4>2. op'[o].state = 1 /\ ~op'[o].started
        BY <2>4, <2>5, <3>1 DEF Blank
      <4>3. Of(o).loc \notin mixed' => \A p \in Ids \ {o} : Of(p).loc = Of(o).loc => op[p].state # 1
        <5>1. op[o].state # 1 /\ o \in Ids
          BY <1>1
        <5> HIDE DEF o
        <5> QED
          BY <4>2, <5>1 DEF Mixing
      <4>4. \A p \in Ids : p # o => op'[p].state = op[p].state /\ op'[p].started = op[p].started
        BY <2>5
      <4> HIDE DEF o
      <4> QED
        <5>1. /\ stage \in Seq(StageTasks) /\ Ids \subseteq Nat /\ o \in Ids /\ op[o].state = 0
              /\ Alone /\ world' = world /\ mixed \subseteq mixed' /\ at' = at
              /\ ~(at.late /\ at.o = o)
          BY <1>1, <1>2, <1>3, <1>4, <1>6, <2>7, <2>8
        <5>2. \A p \in Ids : p # o => (loader'.paths[Of(p).loc] = p => loader.paths[Of(p).loc] = p)
          BY <1>1, <1>2, <1>3, <1>4, <1>6, <2>7, <2>8
        <5>3. Of(o).loc \notin mixed' => loader'.paths[Of(o).loc] = o
          BY <1>1, <1>2, <1>3, <1>4, <1>6, <2>7, <2>8
        <5> QED
          BY ONLY <4>1, <4>2, <4>3, <4>4, <5>1, <5>2, <5>3, StartedAlone
    <3>2. CASE ~now
      <4>1. op'[o].state = 0 /\ ~op'[o].started
        BY <2>4, <2>5, <3>2 DEF Blank
      <4>2. ~(at'.late /\ at'.o = o)
        BY <1>4, <1>6
      <4> HIDE DEF o
      <4>3. \A p \in Ids :
               /\ op'[p].state = 1 => op[p].state = 1
               /\ op'[p].started => op[p].started \/ op[p].state = 1
               /\ loader'.paths[Of(p).loc] = p =>
                     \/ loader.paths[Of(p).loc] = p
                     \/ ~op'[p].started /\ ~(at'.late /\ at'.o = p)
               /\ at'.late /\ at'.o = p => (at.late /\ at.o = p) \/ op[p].state = 1
        BY <1>6, <2>5, <2>7, <4>1, <4>2
      <4> QED
        BY <1>3, <1>6, <2>12, <4>3, GrownAlone DEF AtWork
    <3> QED
      BY <3>1, <3>2
  <2> QED
    BY <1>5, <1>6, <2>10, <2>11, <2>12, <2>13 DEF Apartness, Calm
<1> QED
  BY <1>7, <1>8

LEMMA RunDataApart ==
    ASSUME Inv, Apartness, tasks # <<>>, Head(tasks).do = "data", RunData(Head(tasks)),
           tasks' = Tail(tasks), UNCHANGED <<world, at, prefs>>, mixed' = mixed \cup Mixing
    PROVE  Apartness' /\ Calm
<1> DEFINE h == Head(tasks)
           o == loader.paths[h.loc]
           t == [do |-> "data", o |-> o, avail |-> h.avail, final |-> h.final]
<1>1. h.loc \in Locations
  BY LoaderFacts, LoaderTaskFields
<1>2. /\ o \in Ids \cup {0} /\ (o # 0 => Of(o).loc = h.loc) /\ stage \in Seq(StageTasks)
      /\ loader \in [queue : Seq(Ids), count : Int, paths : [Locations -> Ids \cup {0}],
                     sizes : SUBSET Locations]
  BY <1>1, LoaderState
<1>3. /\ op' = op /\ stage' = (IF o = 0 THEN stage ELSE Append(stage, t))
      /\ loader'.paths = loader.paths
  BY <1>2 DEF RunData
<1>4. LateStopped /\ Alone /\ OpsHold /\ TasksHold /\ StageHolds
  BY DEF Apartness
<1>5. o # 0 => Holds(o, h)
  <2>1. 1 \in DOMAIN tasks /\ tasks[1] = h
    <3>1. tasks \in Seq(LoaderTasks) /\ tasks # <<>>
      BY DEF Inv, Types, TasksType
    <3> QED
      BY <3>1
  <2> HIDE DEF o
  <2> QED
    BY <1>2, <1>4, <2>1 DEF TasksHold
<1>6. t.do = "data" /\ t.o = o /\ t.avail = h.avail /\ t.final = h.final
  OBVIOUS
<1>7. o # 0 => loader.paths[Of(o).loc] = o
  BY <1>2
<1>8. mixed \subseteq mixed' /\ PrefsKept /\ world' = world /\ at' = at
  BY DEF PrefsKept
<1> HIDE DEF t, o, h
<1>9. StageHolds' /\ AnswersKept /\ Grown(stage, stage')
  <2>1. CASE o = 0
    BY <1>3, <1>4, <1>8, <2>1, SameStage
  <2>2. CASE o # 0
    <3>1. stage' = Append(stage, t)
      BY <1>3, <2>2
    <3>2. Holds(t.o, t)
      BY <1>5, <1>6, <2>2 DEF Holds
    <3> QED
      BY <1>2, <1>4, <1>6, <1>7, <1>8, <2>2, <3>1, <3>2, AppendedHolds
  <2> QED
    BY <2>1, <2>2
<1>10. TasksHold'
  BY <1>4, TakenHolds DEF Inv
<1>11. QuietOps /\ OpsHold'
  <2>1. QuietOps
    BY <1>3 DEF QuietOps, Quiet, Same
  <2> QED
    BY <1>4, <1>8, <2>1, QuietHold
<1>12. LateStopped'
  BY <1>3, <1>4, <1>8 DEF LateStopped
<1>13. Alone'
  BY <1>3, <1>4, <1>8, <1>9, GrownAlone DEF AtWork
<1> QED
  BY <1>8, <1>9, <1>10, <1>11, <1>12, <1>13 DEF Apartness, Calm

LEMMA ConcatAt ==
    ASSUME NEW S, NEW s \in Seq(S), NEW c \in Nat, NEW more \in [1..c -> S], NEW t, t = s \o more
    PROVE  /\ DOMAIN t = 1..Len(s) + c /\ DOMAIN s = 1..Len(s) /\ Len(s) \in Nat
           /\ \A i \in DOMAIN s : t[i] = s[i]
           /\ \A i \in DOMAIN t : i \notin DOMAIN s =>
                 i - Len(s) \in 1..c /\ t[i] = more[i - Len(s)]
<1>1. more \in Seq(S) /\ Len(more) = c
  OBVIOUS
<1>2. Len(t) = Len(s) + c /\ t \in Seq(S) /\ Len(s) \in Nat /\ DOMAIN s = 1..Len(s)
  BY <1>1
<1>3. \A i \in 1..Len(s) + c : t[i] = IF i <= Len(s) THEN s[i] ELSE more[i - Len(s)]
  BY <1>1, <1>2
<1>4. DOMAIN t = 1..Len(s) + c
  BY <1>2
<1>5. \A i \in DOMAIN s : t[i] = s[i]
  BY <1>2, <1>3
<1>6. \A i \in DOMAIN t : i \notin DOMAIN s => i - Len(s) \in 1..c /\ t[i] = more[i - Len(s)]
  BY <1>2, <1>3, <1>4
<1> QED
  BY <1>2, <1>4, <1>5, <1>6

LEMMA RunNetworkAppends ==
    ASSUME Inv, tasks # <<>>, Head(tasks).do = "network", RunNetwork(Head(tasks).slow)
    PROVE  \E c \in Nat : \E more \in [1..c -> StageTasks] :
              stage' = stage \o more /\ \A i \in 1..c : more[i].do = "network"
<1> DEFINE slow == Head(tasks).slow
           running == {o \in Ids : loader.paths[Of(o).loc] = o /\ op[o].state = 1}
           c == Cardinality(running)
<1>1. c \in Nat
  <2>1. IsFiniteSet(Ids)
    BY LoaderState, FS_Interval
  <2>2. running \subseteq Ids
    OBVIOUS
  <2> HIDE DEF running
  <2> QED
    BY <2>1, <2>2, FS_Subset, FS_CardinalityType
<1>2. PICK order \in [1..c -> running] :
          stage' = stage \o [i \in DOMAIN order |-> [do |-> "network", slow |-> slow, o |-> order[i]]]
  BY DEF RunNetwork
<1> DEFINE more == [i \in 1..c |-> [do |-> "network", slow |-> slow, o |-> order[i]]]
<1>3. stage' = stage \o more /\ \A i \in 1..c : more[i].do = "network"
  BY <1>2
<1>4. more \in [1..c -> StageTasks]
  <2>1. slow \in BOOLEAN
    BY LoaderFacts, LoaderTaskFields
  <2>2. \A i \in 1..c : order[i] \in Nat
    BY <1>2, LoaderState
  <2> QED
    BY <2>1, <2>2 DEF StageTasks
<1> HIDE DEF more, c, slow, running
<1> QED
  BY <1>1, <1>3, <1>4

LEMMA RunNetworkApart ==
    ASSUME Inv, Apartness, tasks # <<>>, Head(tasks).do = "network", RunNetwork(Head(tasks).slow),
           tasks' = Tail(tasks), UNCHANGED <<world, at, prefs>>, mixed' = mixed \cup Mixing
    PROVE  Apartness' /\ Calm
<1>1. PICK c \in Nat : \E more \in [1..c -> StageTasks] :
          stage' = stage \o more /\ \A i \in 1..c : more[i].do = "network"
  BY RunNetworkAppends
<1>2. PICK more \in [1..c -> StageTasks] :
          stage' = stage \o more /\ \A i \in 1..c : more[i].do = "network"
  BY <1>1
<1>3. op' = op /\ loader' = loader
  BY DEF RunNetwork
<1>4. stage' = stage \o more /\ \A i \in 1..c : more[i].do = "network"
  BY <1>2
<1>5. more \in [1..c -> StageTasks]
  BY <1>2
<1>6. /\ DOMAIN stage' = 1..Len(stage) + c /\ DOMAIN stage = 1..Len(stage) /\ Len(stage) \in Nat
      /\ \A i \in DOMAIN stage : stage'[i] = stage[i]
      /\ \A i \in DOMAIN stage' : i \notin DOMAIN stage =>
            i - Len(stage) \in 1..c /\ stage'[i] = more[i - Len(stage)]
  <2>1. stage \in Seq(StageTasks) /\ stage' = stage \o more
    BY <1>4, LoaderState
  <2>2. c \in Nat
    OBVIOUS
  <2> QED
    BY ONLY <1>5, <2>1, <2>2, ConcatAt
<1>7. \A i \in DOMAIN stage' : i \in DOMAIN stage \/ stage'[i].do = "network"
  BY <1>4, <1>6
<1>8. LateStopped /\ Alone /\ OpsHold /\ TasksHold /\ StageHolds
  BY DEF Apartness
<1>9. mixed \subseteq mixed' /\ PrefsKept /\ world' = world /\ at' = at
  BY DEF PrefsKept
<1>10. \A o : Of(o)' = Of(o)
  BY SameWorld
<1>11. StageHolds' /\ AnswersKept /\ Grown(stage, stage')
  <2>1. Grown(stage, stage')
    BY <1>1, <1>6, <1>7 DEF Grown
  <2>2. StageHolds'
    BY <1>6, <1>7, <1>8, <1>10 DEF StageHolds, Holds
  <2>3. AnswersKept
    BY <1>6, <1>7 DEF AnswersKept
  <2> QED
    BY <2>1, <2>2, <2>3
<1>12. TasksHold'
  BY <1>8, TakenHolds DEF Inv
<1>13. QuietOps /\ OpsHold'
  <2>1. QuietOps
    BY <1>3 DEF QuietOps, Quiet, Same
  <2> QED
    BY <1>8, <1>9, <2>1, QuietHold
<1>14. LateStopped'
  BY <1>3, <1>8, <1>9 DEF LateStopped
<1>15. Alone'
  BY <1>3, <1>8, <1>9, <1>11, GrownAlone DEF AtWork
<1> QED
  BY <1>9, <1>11, <1>12, <1>13, <1>14, <1>15 DEF Apartness, Calm

LEMMA RunEndApart ==
    ASSUME Inv, Apartness, tasks # <<>>, Head(tasks).do \in {"failed", "finished"},
           RunEnd(Head(tasks).o, Head(tasks).do),
           tasks' = Tail(tasks), UNCHANGED <<world, at, prefs>>, mixed' = mixed \cup Mixing
    PROVE  Apartness' /\ Calm
<1> DEFINE o     == Head(tasks).o
           count == loader.count - 1
           next  == count < 1 /\ loader.queue # <<>>
           out   == IF op[o].outcome = "none" THEN Head(tasks).do ELSE op[o].outcome
           n     == Head(loader.queue)
           w     == [op[o] EXCEPT !.outcome = out]
           ended == [op EXCEPT ![o] = w]
           now   == next /\ op[n].state = 0
           t     == [do |-> "start", o |-> n]
<1>1. o \in Ids /\ Of(o).loc \in Locations /\ stage \in Seq(StageTasks) /\ Ids \subseteq Nat
  BY LoaderFacts, LoaderTaskFields, LoaderState
<1>2. /\ loader'.paths = [loader.paths EXCEPT ![Of(o).loc] = 0]
      /\ op' = (IF next THEN [ended EXCEPT ![n].state = IF @ = 0 THEN 1 ELSE @] ELSE ended)
      /\ stage' = (IF now THEN Append(stage, t) ELSE stage)
  BY LoaderState DEF RunEnd
<1>3. /\ Same(op[o], w) /\ w \in Operations
      /\ w.busy = op[o].busy /\ w.max = op[o].max /\ w.times = op[o].times
  <2>1. op[o] \in Operations
    BY <1>1, LoaderState
  <2>2. out \in {"none", "finished", "failed", "refused"}
    BY <2>1 DEF Operations
  <2> HIDE DEF out, o
  <2> QED
    BY <2>1, <2>2 DEF Operations, Same
<1> HIDE DEF w, out
<1>4. /\ ended \in [Ids -> Operations]
      /\ \A p \in Ids : /\ Same(op[p], ended[p]) /\ ended[p].state = op[p].state
                        /\ ended[p].busy = op[p].busy /\ ended[p].max = op[p].max
                        /\ ended[p].times = op[p].times
  <2>1. \A p \in Ids : ended[p] = IF p = o THEN w ELSE op[p]
    BY <1>1, LoaderState
  <2>2. op \in [Ids -> Operations]
    BY LoaderState
  <2> HIDE DEF o
  <2>3. ended \in [Ids -> Operations]
    BY <1>1, <1>3, <2>2
  <2> HIDE DEF ended
  <2> QED
    BY <1>3, <2>1, <2>3 DEF Same
<1>5. next => n \in Ids
  <2>1. loader.queue \in Seq(Ids)
    BY LoaderState
  <2> QED
    BY <2>1
<1>6. \A k \in Locations : loader'.paths[k] = 0 \/ loader'.paths[k] = loader.paths[k]
  BY <1>1, <1>2, LoaderState
<1> HIDE DEF ended, o
<1> DEFINE v == [ended[n] EXCEPT !.state = 1]
<1>7. \A p \in Ids : op'[p] = IF now /\ p = n THEN v ELSE ended[p]
  <2>1. CASE now
    <3>1. op' = [ended EXCEPT ![n] = [ended[n] EXCEPT !.state = IF @ = 0 THEN 1 ELSE @]]
      BY <1>2, <2>1
    <3>2. ended[n].state = 0 /\ n \in Ids
      BY <1>4, <1>5, <2>1
    <3>3. op' = [ended EXCEPT ![n] = v]
      BY <3>1, <3>2
    <3> HIDE DEF v, n, next
    <3> QED
      BY <1>4, <2>1, <3>2, <3>3
  <2>2. CASE next /\ ~now
    <3>1. op' = [ended EXCEPT ![n] = [ended[n] EXCEPT !.state = IF @ = 0 THEN 1 ELSE @]]
      BY <1>2, <2>2
    <3>2. ended[n].state # 0 /\ ended[n] \in Operations
      BY <1>4, <1>5, <2>2
    <3> HIDE DEF n
    <3>3. [ended[n] EXCEPT !.state = IF @ = 0 THEN 1 ELSE @] = ended[n]
      BY <3>2 DEF Operations
    <3>4. op' = ended
      BY <1>4, <3>1, <3>3
    <3> QED
      BY <1>4, <2>2, <3>4
  <2>3. CASE ~next
    BY <1>2, <1>4, <2>3
  <2> QED
    BY <2>1, <2>2, <2>3
<1>8. LateStopped /\ Alone /\ OpsHold /\ TasksHold /\ StageHolds
  BY DEF Apartness
<1>9. mixed \subseteq mixed' /\ PrefsKept /\ world' = world /\ at' = at
  BY DEF PrefsKept
<1>10. now => /\ op[n].state = 0 /\ Blank(op[n]) /\ ~(at.late /\ at.o = n) /\ n \in Ids
              /\ v.state = 1 /\ Blank(v) /\ v.est = op[n].est /\ v.avail = op[n].avail
  <2> SUFFICES ASSUME now
               PROVE  /\ op[n].state = 0 /\ Blank(op[n]) /\ ~(at.late /\ at.o = n) /\ n \in Ids
                      /\ v.state = 1 /\ Blank(v) /\ v.est = op[n].est /\ v.avail = op[n].avail
    OBVIOUS
  <2>1. op[n].state = 0 /\ n \in Ids
    BY <1>5
  <2> HIDE DEF n, next
  <2>2. Blank(op[n]) /\ ~(at.late /\ at.o = n)
    BY <1>8, <2>1, UntakenIs, UntakenNotLate
  <2>3. ended[n] \in Operations /\ Same(op[n], ended[n])
    BY <1>4, <2>1
  <2> DEFINE x == ended[n]
  <2>4. v.state = 1 /\ v.est = x.est /\ v.avail = x.avail
    BY <2>3 DEF Operations
  <2>5. /\ v.busy = x.busy /\ v.max = x.max /\ v.open = x.open /\ v.started = x.started
        /\ v.guid = x.guid /\ v.part = x.part /\ v.read = x.read /\ v.pos = x.pos
        /\ v.chunk = x.chunk /\ v.last = x.last /\ v.nextFirst = x.nextFirst
        /\ v.savedPart = x.savedPart /\ v.times = x.times /\ v.cached = x.cached /\ v.id = x.id
    BY <2>3 DEF Operations
  <2>6. x.busy = op[n].busy /\ x.max = op[n].max /\ x.times = op[n].times
    BY <1>4, <2>1
  <2> HIDE DEF v, x
  <2> QED
    BY <2>1, <2>2, <2>3, <2>4, <2>5, <2>6 DEF Same, Blank, x
<1> HIDE DEF v, n, next, count
<1>11. QuietOps /\ OpsHold'
  <2>1. \A p \in Ids : ~(now /\ p = n) => Same(op[p], op'[p])
    BY <1>4, <1>7
  <2>2. now => Fresh(op[n], op'[n], Of(n))
    BY <1>7, <1>8, <1>10 DEF Fresh, OpsHold
  <2>3. QuietOps
    BY <2>1, <2>2 DEF QuietOps, Quiet
  <2> QED
    BY <1>8, <1>9, <2>3, QuietHold
<1>12. LateStopped'
  <2>1. \A p \in Ids : ~(now /\ p = n) => op'[p].state = op[p].state /\ op'[p].open = op[p].open
    BY <1>4, <1>7 DEF Same
  <2>2. at.late => at.o \in Ids /\ ~(now /\ at.o = n)
    BY <1>8, <1>10, StageState DEF LateStopped
  <2> QED
    BY <1>8, <1>9, <2>1, <2>2 DEF LateStopped
<1>13. now => t.do = "start" /\ t.o = n /\ stage' = Append(stage, t)
  BY <1>2
<1> HIDE DEF t
<1>14. StageHolds' /\ AnswersKept /\ Grown(stage, stage')
  <2>1. CASE now
    BY <1>1, <1>8, <1>9, <1>13, <2>1, AppendedHolds
  <2>2. CASE ~now
    BY <1>2, <1>8, <1>9, <2>2, SameStage
  <2> QED
    BY <2>1, <2>2
<1>15. TasksHold'
  BY <1>8, TakenHolds DEF Inv
<1>16. \A p \in Ids : loader'.paths[Of(p).loc] = p => loader.paths[Of(p).loc] = p
  BY <1>6, LoaderState
<1>17. \A p \in Ids : ~(now /\ p = n) => op'[p].state = op[p].state /\ op'[p].started = op[p].started
  BY <1>4, <1>7 DEF Same
<1>18. Alone'
  <2>1. CASE ~now
    BY <1>8, <1>9, <1>14, <1>16, <1>17, <2>1, GrownAlone DEF AtWork
  <2>2. CASE now
    <3>1. op'[n].state = 1 /\ op[n].state # 1 /\ n \in Ids /\ ~op'[n].started
      BY <1>7, <1>10, <2>2 DEF Blank
    <3>2. Of(n).loc \notin mixed' => /\ loader'.paths[Of(n).loc] = n
                                     /\ \A p \in Ids \ {n} : Of(p).loc = Of(n).loc => op[p].state # 1
      BY <3>1 DEF Mixing
    <3> QED
      BY <1>1, <1>8, <1>9, <1>10, <1>13, <1>16, <1>17, <2>2, <3>1, <3>2, StartedAlone
  <2> QED
    BY <2>1, <2>2
<1> QED
  BY <1>9, <1>11, <1>12, <1>14, <1>15, <1>18 DEF Apartness, Calm

(* Cancelling closes the file; the upload loses its place in the stage queue *)
(* only if it was running.                                                   *)
LEMMA RunCancelApart ==
    ASSUME Inv, Apartness, tasks # <<>>, Head(tasks).do = "cancel", RunCancel(Head(tasks).loc),
           world' = world, mixed' = mixed \cup Mixing
    PROVE  Apartness' /\ Calm
<1> DEFINE l     == Head(tasks).loc
           o     == loader.paths[l]
           now   == o # 0 /\ op[o].state # 3
           v     == Stops(op[o], 2)
           t     == [do |-> "cancel", o |-> o]
           told  == [do |-> "failed", o |-> o]
           late  == at.late \/ (at.kind # "idle" /\ op[o].state = 1)
<1>1. l \in Locations /\ tasks \in Seq(LoaderTasks)
  BY LoaderFacts, LoaderTaskFields DEF Inv, Types, TasksType
<1>2. o # 0 => o \in Ids /\ Of(o).loc = l
  BY <1>1, LoaderState
<1>3. /\ \A k \in Locations : loader'.paths[k] = 0 \/ loader'.paths[k] = loader.paths[k]
      /\ now => /\ op' = [op EXCEPT ![o] = v] /\ stage' = Append(stage, t)
                /\ tasks' = Append(Tail(tasks), told) /\ prefs' = CleanUp(o)
                /\ at' = IF at.o = o THEN [at EXCEPT !.late = late] ELSE at
      /\ ~now => op' = op /\ stage' = stage /\ tasks' = Tail(tasks) /\ prefs' = prefs /\ at' = at
  <2>1. \A k \in Locations : loader'.paths[k] = 0 \/ loader'.paths[k] = loader.paths[k]
    BY <1>1, LoaderState DEF RunCancel
  <2>2. /\ now => /\ op' = [op EXCEPT ![o] = v] /\ stage' = Append(stage, t)
                  /\ tasks' = Append(Tail(tasks), told) /\ prefs' = CleanUp(o)
                  /\ at' = IF at.o = o THEN [at EXCEPT !.late = late] ELSE at
        /\ ~now => op' = op /\ stage' = stage /\ tasks' = Tail(tasks) /\ prefs' = prefs /\ at' = at
    BY DEF RunCancel, Stops
  <2> QED
    BY <2>1, <2>2
<1>4. LateStopped /\ Alone /\ OpsHold /\ TasksHold /\ StageHolds
  BY DEF Apartness
<1>5. mixed \subseteq mixed' /\ world' = world
  OBVIOUS
<1>6. 0 \notin Ids /\ stage \in Seq(StageTasks) /\ \A p \in Ids : Of(p).loc \in Locations
  BY LoaderState
<1>7. \A p \in Ids : loader'.paths[Of(p).loc] = p => loader.paths[Of(p).loc] = p
  BY <1>3, <1>6
<1>8. CASE ~now
  <2>1. op' = op /\ stage' = stage /\ tasks' = Tail(tasks) /\ prefs' = prefs /\ at' = at
    BY <1>3, <1>8
  <2>2. StageHolds' /\ AnswersKept /\ Grown(stage, stage')
    BY <1>4, <1>5, <2>1, SameStage
  <2>3. QuietOps /\ PrefsKept /\ OpsHold'
    <3>1. QuietOps /\ PrefsKept
      BY <2>1 DEF QuietOps, Quiet, Same, PrefsKept
    <3> QED
      BY <1>4, <1>5, <3>1, QuietHold
  <2>4. LateStopped' /\ TasksHold'
    BY <1>4, <1>5, <2>1, TakenHolds DEF LateStopped, Inv
  <2>5. Alone'
    BY <1>4, <1>5, <1>7, <2>1, <2>2, GrownAlone DEF AtWork
  <2> QED
    BY <2>2, <2>3, <2>4, <2>5 DEF Apartness, Calm
<1>9. CASE now
  <2>1. o \in Ids /\ o # 0
    BY <1>2, <1>9
  <2>2. /\ v.state = 2 /\ ~v.open /\ v.est = op[o].est /\ v.avail = op[o].avail
        /\ v.started = op[o].started /\ v.id = op[o].id /\ v.nextFirst = op[o].nextFirst
    <3>1. op[o] \in Operations
      BY <2>1, LoaderState
    <3> HIDE DEF o
    <3> QED
      BY <3>1 DEF Stops, Operations
  <2>3. t.do = "cancel" /\ stage' = Append(stage, t)
    BY <1>3, <1>9
  <2>4. at'.kind = at.kind /\ at'.o = at.o /\ at'.late = IF at.o = o THEN late ELSE at.late
    <3>1. at \in Places
      BY StageState
    <3>2. late \in BOOLEAN
      BY <3>1 DEF Places
    <3> HIDE DEF late, o
    <3> QED
      BY <1>3, <1>9, <3>1, <3>2 DEF Places
  <2>5. TasksHold'
    <3>1. told.do = "failed"
      OBVIOUS
    <3>2. Tail(tasks) \in Seq(LoaderTasks)
      BY <1>1
    <3> HIDE DEF told
    <3>3. /\ DOMAIN tasks' = 1..Len(Tail(tasks)) + 1 /\ DOMAIN Tail(tasks) = 1..Len(Tail(tasks))
          /\ (\A i \in DOMAIN Tail(tasks) : tasks'[i] = Tail(tasks)[i])
          /\ tasks'[Len(Tail(tasks)) + 1] = told
      <4>1. tasks' = Append(Tail(tasks), told)
        BY <1>3, <1>9
      <4> QED
        BY ONLY <3>2, <4>1
    <3>4. \A i \in DOMAIN Tail(tasks) : i + 1 \in DOMAIN tasks /\ Tail(tasks)[i] = tasks[i + 1]
      BY <1>1
    <3>5. \A i \in DOMAIN tasks' : tasks'[i].do = "data" =>
             i + 1 \in DOMAIN tasks /\ tasks'[i] = tasks[i + 1]
      <4>1. Len(Tail(tasks)) \in Nat
        BY <3>2
      <4> QED
        BY <3>1, <3>3, <3>4, <4>1
    <3>6. Ids' = Ids /\ \A p : Of(p)' = Of(p)
      BY <1>5, SameWorld
    <3> QED
      BY <1>4, <3>5, <3>6 DEF TasksHold, Holds
  <2> HIDE DEF v, t, told
  <2>6. op'[o] = v /\ \A p \in Ids : p # o => op'[p] = op[p]
    <3>1. op \in [Ids -> Operations] /\ op' = [op EXCEPT ![o] = v] /\ o \in Ids
      BY <1>3, <1>9, <2>1, LoaderState
    <3> QED
      BY ONLY <3>1
  <2>7. PrefsKept
    <3>1. prefs \in [Locations -> Preferences] /\ prefs' = CleanUp(o)
      BY <1>3, <1>9 DEF Inv, Types, PrefsType
    <3> HIDE DEF o
    <3> QED
      BY <3>1 DEF CleanUp, PrefsKept
  <2> HIDE DEF o, l, now
  <2>8. QuietOps /\ OpsHold'
    <3>1. Closed(op[o], op'[o])
      BY <2>2, <2>6 DEF Closed
    <3>2. \A p \in Ids : p # o => Same(op[p], op'[p])
      BY <2>6 DEF Same
    <3>3. QuietOps
      BY <3>1, <3>2 DEF QuietOps, Quiet
    <3> QED
      BY <1>4, <1>5, <3>3, QuietHold
  <2>9. StageHolds' /\ AnswersKept /\ Grown(stage, stage')
    BY <1>4, <1>5, <1>6, <2>3, AppendedHolds
  <2>10. LateStopped'
    <3> SUFFICES ASSUME at'.late
                 PROVE  at'.kind # "idle" /\ op'[at'.o].state # 1 /\ ~op'[at'.o].open
      BY DEF LateStopped
    <3>1. at.kind # "idle" /\ at.o \in Ids
      BY <1>4, <2>4, StageState DEF LateStopped
    <3>2. CASE at.o = o
      BY <2>2, <2>4, <2>6, <3>1, <3>2
    <3>3. CASE at.o # o
      BY <1>4, <2>4, <2>6, <3>1, <3>3 DEF LateStopped
    <3> QED
      BY <3>2, <3>3
  <2>11. Alone'
    <3>1. \A p \in Ids : (op'[p].state = 1 => op[p].state = 1) /\ (op'[p].started => op[p].started)
      BY <2>2, <2>6
    <3>2. at'.late => at.late \/ (at.o = o /\ op[o].state = 1)
      BY <2>4
    <3> QED
      BY <1>4, <1>5, <1>7, <2>4, <2>9, <3>1, <3>2, GrownAlone DEF AtWork
  <2> QED
    BY <2>5, <2>7, <2>8, <2>9, <2>10, <2>11 DEF Apartness, Calm
<1> QED
  BY <1>8, <1>9

LEMMA RunLoaderTaskApart ==
    ASSUME Inv, Apartness, RunLoaderTask
    PROVE  Apartness' /\ Calm
<1> DEFINE t == Head(tasks)
<1>1. /\ tasks # <<>> /\ mixed' = mixed \cup Mixing /\ world' = world
  BY DEF RunLoaderTask
<1>2. t \in LoaderTasks
  BY <1>1, LoaderFacts
<1>3. CASE t.do = "cancel"
  <2>1. RunCancel(t.loc)
    BY <1>3 DEF RunLoaderTask
  <2> QED
    BY <1>1, <1>3, <2>1, RunCancelApart
<1>4. CASE t.do # "cancel"
  <2>1. tasks' = Tail(tasks) /\ prefs' = prefs /\ at' = at
    BY <1>4 DEF RunLoaderTask
  <2>2. CASE t.do = "upload"
    <3>1. RunUpload(t.o)
      BY <2>2 DEF RunLoaderTask
    <3> QED
      BY <1>1, <2>1, <2>2, <3>1, RunUploadApart
  <2>3. CASE t.do = "data"
    <3>1. RunData(t)
      BY <2>3 DEF RunLoaderTask
    <3> QED
      BY <1>1, <2>1, <2>3, <3>1, RunDataApart
  <2>4. CASE t.do = "network"
    <3>1. RunNetwork(t.slow)
      BY <2>4 DEF RunLoaderTask
    <3> QED
      BY <1>1, <2>1, <2>4, <3>1, RunNetworkApart
  <2>5. CASE t.do \in {"failed", "finished"}
    <3>1. RunEnd(t.o, t.do)
      BY <2>5 DEF RunLoaderTask
    <3> QED
      BY <1>1, <2>1, <2>5, <3>1, RunEndApart
  <2> QED
    BY <1>2, <1>4, <2>2, <2>3, <2>4, <2>5, LoaderTaskFields
<1> QED
  BY <1>3, <1>4

-----------------------------------------------------------------------------
(* The stage queue.                                                          *)
Posts == tasks' = tasks \/ \E t \in LoaderTasks : t.do # "data" /\ tasks' = Append(tasks, t)

LEMMA StageApart ==
    ASSUME Inv, Apartness, UNCHANGED <<world, loader>>, mixed \subseteq mixed', ~at'.late, Posts,
           OpsHold', \A p \in Ids : op'[p].state = 1 => op[p].state = 1,
           \/ /\ stage' = stage
              /\ \A p \in Ids : op'[p].started => AtWork(p) \/ op[p].state = 1
           \/ /\ stage # <<>> /\ stage' = Tail(stage)
              /\ \A p \in Ids : op'[p].started => op[p].started
    PROVE  Apartness' /\ AnswersKept
<1>1. LateStopped /\ Alone /\ OpsHold /\ TasksHold /\ StageHolds
  BY DEF Apartness
<1>2. TasksHold'
  <2>1. CASE tasks' = tasks
    BY <1>1, <2>1, SameWorld DEF TasksHold, Holds
  <2>2. ASSUME NEW t \in LoaderTasks, t.do # "data", tasks' = Append(tasks, t) PROVE TasksHold'
    BY <1>1, <2>2, PostedHolds DEF Inv
  <2> QED
    BY <2>1, <2>2 DEF Posts
<1>3. LateStopped'
  BY DEF LateStopped
<1>4. CASE stage' = stage /\ \A p \in Ids : op'[p].started => AtWork(p) \/ op[p].state = 1
  <2>1. StageHolds' /\ AnswersKept /\ Grown(stage, stage')
    BY <1>1, <1>4, SameStage
  <2>2. Alone'
    BY <1>1, <1>4, <2>1, GrownAlone
  <2> QED
    BY <1>2, <1>3, <2>1, <2>2 DEF Apartness
<1>5. CASE /\ stage # <<>> /\ stage' = Tail(stage)
           /\ \A p \in Ids : op'[p].started => op[p].started
  <2>1. stage \in Seq(StageTasks)
    BY StageState
  <2>2. \A i \in DOMAIN stage' : i + 1 \in DOMAIN stage /\ stage'[i] = stage[i + 1]
    BY ONLY <1>5, <2>1
  <2>3. StageHolds' /\ AnswersKept
    BY <1>1, <2>2, SameWorld DEF StageHolds, AnswersKept, Holds
  <2>4. Alone'
    BY <1>1, <1>5, <2>1, RunAlone
  <2> QED
    BY <1>2, <1>3, <2>3, <2>4 DEF Apartness
<1> QED
  BY <1>4, <1>5

(* The same, when the upload is not gone on with.                            *)
LEMMA CalmApart ==
    ASSUME Inv, Apartness, UNCHANGED <<world, loader>>, mixed \subseteq mixed', ~at'.late, Posts,
           stage' = stage \/ (stage # <<>> /\ stage' = Tail(stage)), PrefsKept,
           \A p \in Ids : Same(op[p], op'[p]) \/ Closed(op[p], op'[p])
    PROVE  Apartness' /\ Calm
<1>1. QuietOps /\ OpsHold'
  <2>1. QuietOps
    BY DEF QuietOps, Quiet
  <2> QED
    BY <2>1, QuietHold DEF Apartness
<1>2. \A p \in Ids : (op'[p].state = 1 => op[p].state = 1) /\ (op'[p].started => op[p].started)
  BY DEF Same, Closed
<1>3. Apartness' /\ AnswersKept
  BY <1>1, <1>2, StageApart DEF AtWork
<1> QED
  BY <1>1, <1>3 DEF Calm

LEMMA CleanUpKeeps ==
    ASSUME Inv, NEW o \in Ids, prefs' = CleanUp(o)
    PROVE  PrefsKept
<1>1. prefs \in [Locations -> Preferences]
  BY DEF Inv, Types, PrefsType
<1> QED
  BY <1>1 DEF CleanUp, PrefsKept

LEMMA StopCloses ==
    ASSUME NEW u \in Operations, NEW state \in 2..4
    PROVE  Closed(u, Stops(u, state))
BY DEF Stops, Closed, Operations

(* An upload fails: whoever calls Fail has not begun to run it again.        *)
LEMMA FailCloses ==
    ASSUME Inv, NEW o \in Ids, Fail(o)
    PROVE  /\ \A p \in Ids : Same(op[p], op'[p]) \/ Closed(op[p], op'[p])
           /\ Posts /\ PrefsKept
<1>1. op \in [Ids -> Operations] /\ op' = [op EXCEPT ![o] = Stops(op[o], 4)]
  BY LoaderState DEF Fail, Stops
<1> DEFINE v == Stops(op[o], 4)
<1>2. Closed(op[o], v)
  BY <1>1, StopCloses
<1> HIDE DEF v
<1>3. op'[o] = v /\ \A p \in Ids : p # o => op'[p] = op[p]
  BY <1>1 DEF v
<1>4. \A p \in Ids : Same(op[p], op'[p]) \/ Closed(op[p], op'[p])
  BY <1>2, <1>3 DEF Same
<1>5. PrefsKept
  BY CleanUpKeeps DEF Fail
<1>6. Posts
  <2>1. [do |-> "failed", o |-> o] \in LoaderTasks
    BY DEF LoaderTasks
  <2> QED
    BY <2>1 DEF Posts, Fail
<1> QED
  BY <1>4, <1>5, <1>6

LEMMA FinishApart ==
    ASSUME Inv, Apartness, Finish
    PROVE  Apartness' /\ Calm
<1> DEFINE o == at.o
           v == [op[o] EXCEPT !.state = 3, !.open = FALSE,
                              !.result = {[id |-> op[o].id, parts |-> op[o].part]}]
<1>1. o \in Ids /\ op[o] \in Operations /\ op \in [Ids -> Operations]
  BY StageState, LoaderState DEF Finish
<1>2. ~at'.late
  BY DEF Finish, Idle
<1>3. UNCHANGED <<world, loader, stage, mixed>>
  BY DEF Finish
<1>4. CASE op' = [op EXCEPT ![o] = v] /\ prefs' = CleanUp(o)
           /\ tasks' = Append(tasks, [do |-> "finished", o |-> o])
  <2>1. Closed(op[o], v)
    <3> HIDE DEF o
    <3> QED
      BY <1>1 DEF Closed, Operations
  <2> HIDE DEF v
  <2>2. op'[o] = v /\ \A p \in Ids : p # o => op'[p] = op[p]
    BY <1>1, <1>4
  <2>3. \A p \in Ids : Same(op[p], op'[p]) \/ Closed(op[p], op'[p])
    BY <2>1, <2>2 DEF Same
  <2>4. PrefsKept
    <3> HIDE DEF o
    <3> QED
      BY <1>1, <1>4, CleanUpKeeps
  <2>5. Posts
    <3>1. [do |-> "finished", o |-> o] \in LoaderTasks
      BY <1>1 DEF LoaderTasks
    <3> QED
      BY <1>4, <3>1 DEF Posts
  <2> QED
    BY <1>2, <1>3, <2>3, <2>4, <2>5, CalmApart
<1>5. CASE UNCHANGED <<op, tasks, prefs>>
  <2>1. \A p \in Ids : Same(op[p], op'[p])
    BY <1>5 DEF Same
  <2>2. Posts /\ PrefsKept
    BY <1>5 DEF Posts, PrefsKept
  <2> QED
    BY <1>2, <1>3, <2>1, <2>2, CalmApart
<1> QED
  BY <1>4, <1>5 DEF Finish

(* The third case of startUploadRequest: v is the operation with its file    *)
(* open.                                                                     *)
Reads(v, f) == ~Waits(v) /\ Bytes(v, f) > 0
After(v, f) == IF Reads(v, f) THEN ReadPart(v, f) ELSE v

Calls(o, v) ==
    /\ at.kind = "send" /\ at.o = o /\ (op[o].state = 1 \/ at.late)
    /\ v \in IF op[o].open THEN {op[o]} ELSE Opened(o)
    /\ op' = [op EXCEPT ![o] = After(v, Of(o))]
    /\ wire' = IF Reads(v, Of(o)) THEN wire \cup {Request(o, v)} ELSE wire
    /\ made' = IF op[o].open THEN made ELSE Uses(v, Of(o))
    /\ prefs' = IF v.id > Len(made) /\ ~v.later /\ ~v.nextFirst /\ ~v.est
                THEN [prefs EXCEPT ![Of(o).loc] = StoreFileUploadInfo(v)] ELSE prefs
    /\ mixed' = IF ~op[o].open /\ v.later /\ prefs[Of(o).loc].id # 0
                THEN mixed \cup {Of(o).loc} ELSE mixed
    /\ UNCHANGED <<world, loader, stage, tasks, server>>

LEMMA CallFields ==
    ASSUME Inv, NEW o \in Ids, NEW v, v \in IF op[o].open THEN {op[o]} ELSE Opened(o)
    PROVE  LET w == After(v, Of(o))
           IN /\ v \in Operations /\ w \in Operations /\ v.open /\ w.open
              /\ v.state = op[o].state /\ v.est = op[o].est /\ v.avail = op[o].avail
              /\ w.state = op[o].state /\ w.est = op[o].est /\ w.avail = op[o].avail
              /\ w.started = v.started /\ (~op[o].open => v.started)
              /\ op[o].open => v = op[o]
              /\ w.id = v.id /\ w.guid = v.guid /\ w.savedPart = v.savedPart /\ w.cached = v.cached
              /\ w.chunk = v.chunk
<1> DEFINE f == Of(o)
           w == After(v, f)
<1>1. /\ op[o] \in Operations /\ f \in Uploads /\ Len(made) \in Nat
      /\ prefs[f.loc] \in Preferences
  BY LoaderState, StageState
<1>2. /\ v \in Operations /\ v.open /\ v.state = op[o].state /\ v.est = op[o].est
      /\ v.avail = op[o].avail /\ (~op[o].open => v.started) /\ (op[o].open => v = op[o])
  <2>1. CASE op[o].open
    BY <1>1, <2>1
  <2>2. CASE ~op[o].open
    <3>1. v \in Opened(o) /\ Opens(op[o], f, v)
      BY <1>1, <2>2, OpenedOpens
    <3> DEFINE u == Sized(op[o], f)
    <3>2. u \in Operations /\ u.avail = op[o].avail /\ u.chunk \in {20, 40} /\ u.chunk \in Nat
      BY <1>1, SizedFields, ChunkType
    <3>3. \/ v = Resumed(u, f, prefs[f.loc]) \/ v = Renewed(u, f)
          \/ v = [u EXCEPT !.id = prefs[f.loc].id, !.pos = 0, !.savedPart = u.part]
      BY <3>1 DEF Opened
    <3> HIDE DEF u, f
    <3>4. SameRest(u, v)
      BY <1>1, <3>2, <3>3, ResumedFields, RenewedFields, ExpiredFields
    <3> QED
      BY <2>2, <3>1, <3>2, <3>4 DEF Opens, SameRest
  <2> QED
    BY <2>1, <2>2
<1>3. CASE ~Reads(v, f)
  BY <1>2, <1>3 DEF After
<1>4. CASE Reads(v, f)
  <2>1. w = ReadPart(v, f) /\ Bytes(v, f) > 0
    BY <1>4 DEF After, Reads
  <2> HIDE DEF w, f
  <2>2. w \in Operations /\ SameFile(v, w)
    BY <1>1, <1>2, <2>1, ReadFields
  <2> QED
    BY <1>2, <2>2 DEF SameFile, w, f
<1> QED
  BY <1>3, <1>4

LEMMA CallsApart ==
    ASSUME Inv, Apartness, NEW o \in Ids, NEW v, Calls(o, v), at' = Called
    PROVE  Apartness' /\ AnswersKept
<1> DEFINE w == After(v, Of(o))
<1>1. /\ w.state = op[o].state /\ w.est = op[o].est /\ w.avail = op[o].avail
      /\ w.open => w.started
      /\ w.started => op[o].started \/ ~op[o].open
  <2>1. op[o].open => op[o].started
    BY DEF Apartness, OpsHold
  <2> QED
    BY <2>1, CallFields DEF Calls
<1>2. op' = [op EXCEPT ![o] = w] /\ op \in [Ids -> Operations]
  BY LoaderState DEF Calls
<1> HIDE DEF w
<1>3. op'[o] = w /\ \A p \in Ids : p # o => op'[p] = op[p]
  BY <1>2
<1>4. UNCHANGED <<world, loader, stage>> /\ mixed \subseteq mixed' /\ Posts
      /\ at.o = o /\ (op[o].state = 1 \/ at.late)
  BY DEF Calls, Posts
<1>5. ~at'.late
  <2>1. at \in Places
    BY StageState
  <2> QED
    BY <2>1 DEF Called, Places
<1>6. OpsHold'
  BY <1>1, <1>3, <1>4, SameWorld DEF Apartness, OpsHold
<1>7. \A p \in Ids : /\ op'[p].state = 1 => op[p].state = 1
                     /\ op'[p].started => AtWork(p) \/ op[p].state = 1
  BY <1>1, <1>3, <1>4 DEF AtWork
<1> QED
  BY <1>4, <1>5, <1>6, <1>7, StageApart

LEMMA StartUploadRequestApart ==
    ASSUME Inv, Apartness, StartUploadRequest
    PROVE  /\ Apartness' /\ AnswersKept
           /\ \/ Calm /\ UNCHANGED <<wire, made, server, mixed>>
              \/ \E o \in Ids : \E v : Calls(o, v)
<1> DEFINE o == at.o
<1>1. at.kind = "send" /\ o \in Ids /\ at' = Called /\ at \in Places
      /\ UNCHANGED <<world, loader, stage, server>>
  BY StageState DEF StartUploadRequest
<1>2. ~at'.late
  BY <1>1 DEF Called, Places
<1>3. CASE UNCHANGED <<op, tasks, prefs, wire, made, mixed>>
  <2>1. (\A p \in Ids : Same(op[p], op'[p])) /\ Posts /\ PrefsKept
    BY <1>3 DEF Same, Posts, PrefsKept
  <2> QED
    BY <1>1, <1>2, <1>3, <2>1, CalmApart DEF Calm
<1>4. CASE Fail(o) /\ UNCHANGED <<wire, made, mixed>>
  <2> HIDE DEF o
  <2>1. /\ \A p \in Ids : Same(op[p], op'[p]) \/ Closed(op[p], op'[p])
        /\ Posts /\ PrefsKept
    BY <1>1, <1>4, FailCloses
  <2> QED
    BY <1>1, <1>2, <1>4, <2>1, CalmApart DEF Calm
<1>5. ASSUME NEW v, Calls(o, v)
      PROVE  Apartness' /\ AnswersKept
  <2> HIDE DEF o
  <2> QED
    BY <1>1, <1>5, CallsApart
<1>6. \/ UNCHANGED <<op, tasks, prefs, wire, made, mixed>>
      \/ Fail(o) /\ UNCHANGED <<wire, made, mixed>>
      \/ \E v : Calls(o, v)
  <2> SUFFICES ASSUME op[o].state = 1 \/ at.late, tasks' = tasks,
                      NEW v \in IF op[o].open THEN {op[o]} ELSE Opened(o),
                      LET reads == ~Waits(v) /\ Bytes(v, Of(o)) > 0
                      IN /\ op' = [op EXCEPT ![o] = IF reads THEN ReadPart(v, Of(o)) ELSE v]
                         /\ wire' = IF reads THEN wire \cup {Request(o, v)} ELSE wire
                         /\ made' = IF op[o].open THEN made ELSE Uses(v, Of(o))
                         /\ prefs' = IF v.id > Len(made) /\ ~v.later /\ ~v.nextFirst /\ ~v.est
                                     THEN [prefs EXCEPT ![Of(o).loc] = StoreFileUploadInfo(v)] ELSE prefs
                         /\ mixed' = IF ~op[o].open /\ v.later /\ prefs[Of(o).loc].id # 0
                                     THEN mixed \cup {Of(o).loc} ELSE mixed
               PROVE  Calls(o, v)
    BY <1>1 DEF StartUploadRequest
  <2> QED
    BY <1>1 DEF Calls, Reads, After
<1> QED
  BY <1>1, <1>3, <1>4, <1>5, <1>6 DEF Calm

LEMMA StageTaskApart ==
    ASSUME Inv, Apartness, at.kind = "idle", stage # <<>>
    PROVE  ~at.late
BY DEF Apartness, LateStopped

LEMMA RunStartApart ==
    ASSUME Inv, Apartness, at.kind = "idle", stage # <<>>, stage' = Tail(stage),
           RunStart(Head(stage).o), UNCHANGED <<world, loader, mixed>>
    PROVE  Apartness' /\ Calm
<1> DEFINE o == Head(stage).o
           v == [op[o] EXCEPT !.slow = app.slow]
<1>1. /\ op' = [op EXCEPT ![o] = v] /\ ~at'.late /\ prefs' = prefs /\ tasks' = tasks
  BY DEF RunStart, Sends
<1>2. o \in Ids /\ op[o] \in Operations /\ op \in [Ids -> Operations]
  BY StageTaskState
<1> HIDE DEF o
<1>3. Same(op[o], v)
  BY <1>2 DEF Operations, Same
<1> HIDE DEF v
<1>4. op'[o] = v /\ \A p \in Ids : p # o => op'[p] = op[p]
  BY <1>1, <1>2
<1>5. \A p \in Ids : Same(op[p], op'[p])
  BY <1>3, <1>4 DEF Same
<1>6. Posts /\ PrefsKept
  BY <1>1 DEF Posts, PrefsKept
<1> QED
  BY <1>1, <1>5, <1>6, CalmApart

LEMMA RunNetworkChangedApart ==
    ASSUME Inv, Apartness, at.kind = "idle", stage # <<>>, stage' = Tail(stage),
           RunNetworkChanged(Head(stage).o, Head(stage).slow), UNCHANGED <<world, loader, mixed>>
    PROVE  Apartness' /\ Calm /\ wire' \subseteq wire
<1> DEFINE o == Head(stage).o
           slow == Head(stage).slow
<1>1. o \in Ids /\ op[o] \in Operations /\ op \in [Ids -> Operations] /\ ~at.late
  BY StageTaskState, StageTaskApart
<1>2. RunNetworkChanged(o, slow)
  OBVIOUS
<1> HIDE DEF o, slow
<1>3. CASE op[o].slow = slow
  <2>1. UNCHANGED <<op, at, prefs, wire, tasks>>
    BY <1>2, <1>3 DEF RunNetworkChanged
  <2>2. (\A p \in Ids : Same(op[p], op'[p])) /\ Posts /\ PrefsKept
    BY <2>1 DEF Same, Posts, PrefsKept
  <2> QED
    BY <1>1, <2>1, <2>2, CalmApart
<1>4. CASE op[o].slow # slow
  <2> DEFINE v == [op[o] EXCEPT
                !.slow = slow, !.open = FALSE, !.last = FALSE, !.nextFirst = FALSE, !.part = 0,
                !.read = 0, !.pos = 0, !.times = 0, !.busy = 0, !.savedPart = 0, !.later = FALSE,
                !.cached = {}, !.guid = @ + 1]
  <2>1. op' = [op EXCEPT ![o] = v]
    BY <1>2, <1>4 DEF RunNetworkChanged
  <2>2. Closed(op[o], v)
    BY <1>1 DEF Closed, Operations
  <2> HIDE DEF v
  <2>3. /\ prefs' = CleanUp(o) /\ wire' = {r \in wire : r.o # o} /\ tasks' = tasks
        /\ at' = Sends(o, InitialRequests(slow))
    BY <1>2, <1>4 DEF RunNetworkChanged
  <2>4. op'[o] = v /\ \A p \in Ids : p # o => op'[p] = op[p]
    BY <1>1, <2>1
  <2>5. \A p \in Ids : Same(op[p], op'[p]) \/ Closed(op[p], op'[p])
    BY <2>2, <2>4 DEF Same
  <2>6. PrefsKept /\ Posts
    BY <1>1, <2>3, CleanUpKeeps DEF Posts
  <2>7. ~at'.late
    BY <2>3 DEF Sends
  <2> QED
    BY <2>3, <2>5, <2>6, <2>7, CalmApart
<1> QED
  BY <1>3, <1>4

(* What new data changes.                                                    *)
SameButData(u, v) ==
    /\ v.state = u.state /\ v.started = u.started /\ v.open = u.open /\ v.pos = u.pos
    /\ v.read = u.read /\ v.part = u.part /\ v.chunk = u.chunk /\ v.last = u.last
    /\ v.nextFirst = u.nextFirst /\ v.later = u.later /\ v.savedPart = u.savedPart
    /\ v.cached = u.cached /\ v.id = u.id /\ v.guid = u.guid

Informed(o, v, t) ==
    /\ op' = [op EXCEPT ![o] = v] /\ v \in Operations /\ SameButData(op[o], v)
    /\ v.avail = t.avail /\ v.est = (op[o].est /\ ~t.final)
    /\ prefs' = IF op[o].est /\ t.final /\ ~v.later /\ v.started
                THEN [prefs EXCEPT ![Of(o).loc] = StoreFileUploadInfo(v)] ELSE prefs

LEMMA InformedIs ==
    ASSUME Inv, NEW o \in Ids, NEW t, t.avail \in Nat, t.final \in BOOLEAN, RunNewData(o, t)
    PROVE  \E v : Informed(o, v, t)
<1> DEFINE ends == op[o].est /\ t.final
           est  == op[o].est /\ ~ends
           total == IF ends THEN t.avail ELSE op[o].total
           u    == [op[o] EXCEPT !.est = est, !.total = total, !.avail = t.avail]
           parts == IF ends /\ u.chunk # 0 THEN CalcTotalPartsCount(u, Of(o).big) ELSE u.parts
           v    == [u EXCEPT !.parts = parts]
<1>1. op[o] \in Operations
  BY LoaderState
<1>2. /\ op' = [op EXCEPT ![o] = v]
      /\ prefs' = (IF ends /\ ~v.later /\ v.started
                   THEN [prefs EXCEPT ![Of(o).loc] = StoreFileUploadInfo(v)] ELSE prefs)
  BY DEF RunNewData
<1>3. est \in BOOLEAN /\ total \in Nat
  BY <1>1 DEF Operations
<1>4. est = (op[o].est /\ ~t.final)
  OBVIOUS
<1> HIDE DEF ends, est, total
<1>5. u \in Operations /\ SameButData(op[o], u) /\ u.avail = t.avail /\ u.est = est
  <2>1. Fields(op[o]) /\ Shaped(op[o])
    BY <1>1, OperationForm
  <2>2. /\ u.est = est /\ u.total = total /\ u.avail = t.avail /\ SameButData(op[o], u)
        /\ u.parts = op[o].parts /\ u.slow = op[o].slow /\ u.result = op[o].result
        /\ u.outcome = op[o].outcome /\ u.max = op[o].max /\ u.busy = op[o].busy
        /\ u.times = op[o].times
    BY <1>1 DEF Operations, SameButData
  <2>3. Shaped(u)
    BY <1>1 DEF Operations, Shaped
  <2> HIDE DEF u
  <2>4. Fields(u)
    BY <1>3, <2>1, <2>2 DEF Fields, SameButData
  <2> QED
    BY <2>2, <2>3, <2>4, OperationForm
<1> HIDE DEF u
<1>6. parts \in Int
  <2>1. u.chunk # 0 => CalcTotalPartsCount(u, Of(o).big) \in Int
    BY <1>5, PartsType
  <2>2. u.parts \in Int
    BY <1>5 DEF Operations
  <2> QED
    BY <2>1, <2>2
<1> HIDE DEF parts
<1>7. v \in Operations /\ SameButData(u, v) /\ v.avail = u.avail /\ v.est = u.est
  BY <1>5, <1>6 DEF Operations, SameButData
<1> HIDE DEF v
<1>8. SameButData(op[o], v)
  BY <1>5, <1>7 DEF SameButData
<1>9. Informed(o, v, t)
  BY <1>2, <1>4, <1>5, <1>7, <1>8 DEF Informed, ends
<1> QED
  BY <1>9

LEMMA RunNewDataApart ==
    ASSUME Inv, Apartness, at.kind = "idle", stage # <<>>, stage' = Tail(stage),
           Head(stage).do = "data", RunNewData(Head(stage).o, Head(stage)),
           UNCHANGED <<world, loader, mixed>>
    PROVE  /\ Apartness' /\ AnswersKept
           /\ \E v : Informed(Head(stage).o, v, Head(stage))
<1> DEFINE t == Head(stage)
           o == t.o
<1>1. /\ o \in Ids /\ op[o] \in Operations /\ op \in [Ids -> Operations] /\ t \in StageTasks
      /\ stage \in Seq(StageTasks) /\ Of(o).size \in Nat
  BY StageTaskState DEF Uploads
<1>2. t.avail \in Nat /\ t.final \in BOOLEAN
  BY <1>1, StageTaskFields
<1>3. RunNewData(o, t) /\ t.o = o
  OBVIOUS
<1>4. Holds(o, t)
  <2>1. 1 \in DOMAIN stage /\ stage[1] = t
    BY <1>1
  <2> QED
    BY <2>1 DEF Apartness, StageHolds
<1>5. tasks' = tasks /\ ~at'.late
  BY DEF RunNewData, More, Sends, Idle
<1> HIDE DEF o
<1>6. PICK v : Informed(o, v, t)
  BY <1>1, <1>2, <1>3, InformedIs
<1> HIDE DEF t
<1>7. op'[o] = v /\ \A p \in Ids : p # o => op'[p] = op[p]
  BY <1>1, <1>6 DEF Informed
<1>8. OpsHold'
  <2>1. /\ v.est => Of(o).estimate # 0 /\ v.avail <= Of(o).size
        /\ v.open => v.started
    BY <1>1, <1>4, <1>6 DEF Apartness, OpsHold, Holds, Informed, SameButData
  <2> QED
    BY <1>7, <2>1, SameWorld DEF Apartness, OpsHold
<1>9. \A p \in Ids : (op'[p].state = 1 => op[p].state = 1) /\ (op'[p].started => op[p].started)
  BY <1>6, <1>7 DEF Informed, SameButData
<1>10. Posts
  BY <1>5 DEF Posts
<1>11. Apartness' /\ AnswersKept
  BY <1>5, <1>8, <1>9, <1>10, StageApart
<1> QED
  BY <1>6, <1>11 DEF o, t

(* An answer that is counted: u is the operation that has one request less   *)
(* under way, and s what is saved.                                           *)
Confirmed(o, r, u, s) ==
    /\ r.guid = op[o].guid /\ op[o].state = 1
    /\ Same(op[o], u) /\ SameButSaved(u, s.u) /\ SavesAs(u, r, s) /\ s.size \in Int
    /\ op' = [op EXCEPT ![o] = s.u]
    /\ prefs' = IF s.size > 0 THEN [prefs EXCEPT ![Of(o).loc].uploaded = s.size] ELSE prefs

LEMMA RunAnswerApart ==
    ASSUME Inv, Apartness, at.kind = "idle", stage # <<>>, stage' = Tail(stage),
           Head(stage).do = "answer", RunAnswer(Head(stage).o, Head(stage).r, Head(stage).ok),
           UNCHANGED <<world, loader, mixed>>
    PROVE  /\ Apartness' /\ AnswersKept
           /\ Calm \/ /\ Head(stage).ok
                      /\ \E u, s : Confirmed(Head(stage).o, Head(stage).r, u, s)
<1> DEFINE t == Head(stage)
           o == t.o
           r == t.r
           u == [op[o] EXCEPT !.busy = @ - 1]
           s == Saved(u, Of(o).big, r)
<1>1. /\ o \in Ids /\ op[o] \in Operations /\ op \in [Ids -> Operations] /\ t \in StageTasks
      /\ stage \in Seq(StageTasks)
  BY StageTaskState
<1>2. ~at.late
  BY StageTaskApart
<1>3. r \in Requests /\ RunAnswer(o, r, t.ok)
  BY <1>1, StageTaskFields
<1>4. o = Head(stage).o /\ r = Head(stage).r /\ t = Head(stage)
  OBVIOUS
<1> HIDE DEF t, o, r
<1>5. CASE UNCHANGED <<op, at, prefs, tasks>>
  <2>1. (\A p \in Ids : Same(op[p], op'[p])) /\ Posts /\ PrefsKept
    BY <1>5 DEF Same, Posts, PrefsKept
  <2> QED
    BY <1>2, <1>5, <2>1, CalmApart DEF Calm
<1>6. CASE Fail(o) /\ UNCHANGED at
  <2>1. /\ \A p \in Ids : Same(op[p], op'[p]) \/ Closed(op[p], op'[p])
        /\ Posts /\ PrefsKept
    BY <1>1, <1>6, FailCloses
  <2> QED
    BY <1>2, <1>6, <2>1, CalmApart DEF Calm
<1>7. CASE /\ r.guid = op[o].guid /\ t.ok /\ op[o].state = 1 /\ tasks' = tasks
           /\ IF u.last /\ u.busy = 0
              THEN /\ op' = [op EXCEPT ![o] = u]
                   /\ at' = Finishes(o) /\ UNCHANGED prefs
              ELSE IF u.busy < u.max
              THEN /\ op' = [op EXCEPT ![o] = s.u]
                   /\ at' = Sends(o, 1)
                   /\ prefs' = IF s.size > 0 THEN [prefs EXCEPT ![Of(o).loc].uploaded = s.size] ELSE prefs
              ELSE op' = [op EXCEPT ![o] = u] /\ UNCHANGED <<at, prefs>>
  <2>1. u \in Operations /\ Same(op[o], u)
    <3>1. op[o].busy - 1 \in Int
      BY <1>1, OperationForm DEF Fields
    <3> QED
      BY <1>1, <3>1 DEF Operations, Same
  <2>2. s.u \in Operations /\ SameButSaved(u, s.u) /\ s.size \in Int /\ SavesAs(u, r, s)
    BY <1>3, <2>1, SavedSteps
  <2> HIDE DEF u, s
  <2>3. ~at'.late
    BY <1>2, <1>7 DEF Finishes, Sends
  <2>4. Posts
    BY <1>7 DEF Posts
  <2>5. CASE op' = [op EXCEPT ![o] = u] /\ prefs' = prefs
    <3>1. op'[o] = u /\ \A p \in Ids : p # o => op'[p] = op[p]
      BY <1>1, <2>5
    <3>2. (\A p \in Ids : Same(op[p], op'[p])) /\ PrefsKept
      BY <2>1, <2>5, <3>1 DEF Same, PrefsKept
    <3> QED
      BY <2>3, <2>4, <3>2, CalmApart DEF Calm
  <2>6. CASE /\ op' = [op EXCEPT ![o] = s.u]
             /\ prefs' = IF s.size > 0 THEN [prefs EXCEPT ![Of(o).loc].uploaded = s.size] ELSE prefs
    <3>1. Confirmed(o, r, u, s)
      BY <1>7, <2>1, <2>2, <2>6 DEF Confirmed
    <3>2. op'[o] = s.u /\ \A p \in Ids : p # o => op'[p] = op[p]
      BY <1>1, <2>6
    <3>3. /\ s.u.state = op[o].state /\ s.u.started = op[o].started /\ s.u.open = op[o].open
          /\ s.u.est = op[o].est /\ s.u.avail = op[o].avail
      BY <2>1, <2>2 DEF Same, SameButSaved
    <3>4. OpsHold'
      BY <3>2, <3>3, SameWorld DEF Apartness, OpsHold
    <3>5. \A p \in Ids : (op'[p].state = 1 => op[p].state = 1) /\ (op'[p].started => op[p].started)
      BY <3>2, <3>3
    <3>6. Apartness' /\ AnswersKept
      BY <2>3, <2>4, <3>4, <3>5, StageApart
    <3> QED
      BY <1>4, <1>7, <3>1, <3>6
  <2> QED
    BY <1>7, <2>5, <2>6
<1> QED
  BY <1>3, <1>5, <1>6, <1>7 DEF RunAnswer

(* What a task of the stage queue does.                                      *)
LEMMA RunStageTaskApart ==
    ASSUME Inv, Apartness, RunStageTask
    PROVE  /\ Apartness' /\ AnswersKept /\ wire' \subseteq wire
           /\ \/ Calm
              \/ Head(stage).do = "data" /\ \E v : Informed(Head(stage).o, v, Head(stage))
              \/ /\ Head(stage).do = "answer" /\ Head(stage).ok
                 /\ \E u, s : Confirmed(Head(stage).o, Head(stage).r, u, s)
<1> DEFINE t == Head(stage)
<1>1. /\ at.kind = "idle" /\ stage # <<>> /\ stage' = Tail(stage)
      /\ UNCHANGED <<world, loader, server, made, mixed>>
  BY DEF RunStageTask
<1>2. CASE t.do = "start" /\ RunStart(t.o)
  <2>1. wire' = wire
    BY <1>2 DEF RunStart
  <2> QED
    BY <1>1, <1>2, <2>1, RunStartApart DEF Calm
<1>3. CASE t.do = "data" /\ RunNewData(t.o, t)
  <2>1. wire' = wire
    BY <1>3 DEF RunNewData
  <2> QED
    BY <1>1, <1>3, <2>1, RunNewDataApart
<1>4. CASE t.do = "network" /\ RunNetworkChanged(t.o, t.slow)
  BY <1>1, <1>4, RunNetworkChangedApart DEF Calm
<1>5. CASE t.do = "answer" /\ RunAnswer(t.o, t.r, t.ok) /\ UNCHANGED wire
  BY <1>1, <1>5, RunAnswerApart
<1>6. CASE \/ t.do = "cancel" /\ wire' = {r \in wire : r.o # t.o} /\ UNCHANGED <<op, at, prefs, tasks>>
           \/ t.do = "written" /\ at' = More(t.o, op[t.o]) /\ UNCHANGED <<op, prefs, wire, tasks>>
  <2>1. (\A p \in Ids : Same(op[p], op'[p])) /\ Posts /\ PrefsKept
    BY <1>6 DEF Same, Posts, PrefsKept
  <2>2. ~at'.late
    BY <1>1, <1>6, StageTaskApart DEF More, Sends, Idle
  <2>3. wire' \subseteq wire
    BY <1>6
  <2> QED
    BY <1>1, <2>1, <2>2, <2>3, CalmApart DEF Calm
<1> QED
  BY <1>2, <1>3, <1>4, <1>5, <1>6 DEF RunStageTask

(* Requests are written and answered.                                        *)
LEMMA NetworkApart ==
    ASSUME Inv, Apartness, NEW r \in wire, NEW t, t.do # "data", stage' = Append(stage, t),
           UNCHANGED <<world, op, loader, tasks, at, mixed>>
    PROVE  Apartness'
<1>1. LateStopped /\ Alone /\ OpsHold /\ TasksHold /\ StageHolds
  BY DEF Apartness
<1>2. /\ Ids' = Ids /\ (\A o : Of(o)' = Of(o)) /\ stage \in Seq(StageTasks)
  BY SameWorld, StageState
<1>3. /\ DOMAIN stage' = 1..Len(stage) + 1 /\ DOMAIN stage = 1..Len(stage) /\ Len(stage) \in Nat
      /\ \A i \in DOMAIN stage : stage'[i] = stage[i]
      /\ stage'[Len(stage) + 1] = t
  <2>1. stage' = Append(stage, t) /\ stage \in Seq(StageTasks)
    BY <1>2
  <2> QED
    BY ONLY <2>1
<1>4. \A i \in DOMAIN stage' : i \in DOMAIN stage \/ stage'[i] = t
  BY <1>3
<1>5. Grown(stage, stage')
  BY <1>3, <1>4 DEF Grown
<1>6. Alone'
  BY <1>1, <1>5, GrownAlone DEF AtWork
<1>7. LateStopped' /\ OpsHold' /\ TasksHold'
  BY <1>1, <1>2 DEF LateStopped, OpsHold, TasksHold, Holds
<1>8. StageHolds'
  BY <1>1, <1>2, <1>3, <1>4 DEF StageHolds, Holds
<1> QED
  BY <1>6, <1>7, <1>8 DEF Apartness

LEMMA ApartnessStep == Inv /\ Apartness /\ [Next]_vars => Apartness'
<1> SUFFICES ASSUME Inv, Apartness, [Next]_vars PROVE Apartness'
  OBVIOUS
<1>1. CASE UploadFile \/ OnNetworkChanged \/ \E l \in app.cancels : CancelFileUpload(l)
  BY <1>1, ApplicationApartness
<1>2. CASE Restart
  BY <1>2, RestartApartness
<1>3. CASE \E o \in Ids : CheckUploadNewDataAvailable(o)
  BY <1>3, CheckUploadNewDataAvailableApartness
<1>4. CASE Loader
  BY <1>4, RunLoaderTaskApart DEF Loader
<1>5. CASE Stage
  BY <1>5, RunStageTaskApart, StartUploadRequestApart, FinishApart DEF Stage
<1>6. ASSUME NEW r \in wire, Written(r) PROVE Apartness'
  <2>1. [do |-> "written", o |-> r.o].do # "data"
    OBVIOUS
  <2> QED
    BY <1>6, <2>1, NetworkApart DEF Written
<1>7. ASSUME NEW r \in wire, NEW ok \in BOOLEAN, Answer(r, ok) PROVE Apartness'
  <2>1. [do |-> "answer", o |-> r.o, r |-> r, ok |-> ok].do # "data"
    OBVIOUS
  <2> QED
    BY <1>7, <2>1, NetworkApart DEF Answer
<1>8. CASE UNCHANGED vars
  <2>1. UNCHANGED <<world, op, loader, stage, at, tasks, mixed>>
    BY <1>8 DEF vars
  <2>2. TasksHold'
    BY <2>1, SameWorld DEF Apartness, TasksHold, Holds
  <2> QED
    BY <2>1, <2>2, SameApartness DEF Apartness
<1> QED
  BY <1>1, <1>2, <1>3, <1>4, <1>5, <1>6, <1>7, <1>8 DEF Next

-----------------------------------------------------------------------------
(* Parts.  The k-th part of a file that is cut in one way, unless it was     *)
(* gone on with from a point between two parts.                              *)
On(id, k) == \E q \in server : q.id = id /\ q.part = k

Less(a, b) == IF a < b THEN a ELSE b
StartIn(cut, k)  == IF k = 0 THEN 0 ELSE cut.origin + k * cut.chunk
LengthIn(cut, k) ==
    IF k = 0 /\ cut.origin # 0 THEN cut.origin + cut.chunk
    ELSE Less(cut.chunk, cut.size - StartIn(cut, k))
Proper(cut) == cut.origin = 0 \/ cut.origin = HeadLength - cut.chunk

Fits(r, cut) == Proper(cut) => r.from = StartIn(cut, r.part) /\ r.bytes = LengthIn(cut, r.part)
Fit(r) == r.id \in 1..Len(made) /\ r.bytes > 0 /\ \E cut \in made[r.id].cuts : Fits(r, cut)

(* Every request, and every part of the server, fits a way its file was cut. *)
Fitting ==
    /\ \A r \in wire : Fit(r)
    /\ \A q \in server : Fit(q)
    /\ \A i \in DOMAIN stage : stage[i].do = "answer" =>
          Fit(stage[i].r) /\ (stage[i].ok => On(stage[i].r.id, stage[i].r.part))

Ways(cuts) == cuts # {} /\ IsFiniteSet(cuts) /\ \A cut \in cuts : cut.chunk \in {20, 40}

Numbered ==
    /\ \A i \in 1..Len(made) : Ways(made[i].cuts)
    /\ \A o \in Ids : op[o].id <= Len(made) /\ (op[o].started /\ op[o].est => op[o].id # 0)
    /\ \A l \in Locations : prefs[l].id <= Len(made) /\ (prefs[l].id = 0 => prefs[l].size = 0)

(* The only way in which the file of an identifier was cut.                  *)
Clean(l, id, cut) == l \notin mixed /\ id # 0 /\ made[id].cuts = {cut}

(* The point in the preferences is behind whole parts that the server has.   *)
Resumable ==
    \A l \in Locations : prefs[l].uploaded > 0 =>
        \A cut : Clean(l, prefs[l].id, cut) =>
            /\ cut.origin = 0
            /\ \A k \in 0..prefs[l].uploaded \div cut.chunk - 1 :
                  On(prefs[l].id, k) /\ LengthIn(cut, k) = cut.chunk

(* Where a running upload is in its file.                                    *)
Running(u) == u.state = 1 /\ u.open

Track(u, f, cut) ==
    /\ cut.size = f.size /\ cut.chunk = u.chunk
    /\ u.nextFirst \/ u.pos = cut.origin + u.part * cut.chunk \/ u.pos >= f.size
    /\ u.later \/ u.nextFirst => cut.origin = HeadOf(u, f.big) - cut.chunk
    /\ u.nextFirst => HeadOf(u, f.big) < f.size
    /\ u.est => u.pos = u.read /\ ~u.nextFirst /\ ~u.last /\ (~u.later => cut.origin = 0)

Tracks(u, f, ways) ==
    \/ u.id = 0 /\ f.size = 0 /\ ~u.later /\ ~u.nextFirst /\ ~u.est
    \/ u.id # 0 /\ \E cut \in ways[u.id].cuts : Track(u, f, cut)

(* What it has under way or has kept is of its identifier.                   *)
Gathers(o) ==
    /\ \A r \in wire : r.o = o /\ r.guid = op[o].guid => r.id = op[o].id
    /\ \A i \in DOMAIN stage : stage[i].do = "answer" /\ stage[i].o = o /\ stage[i].r.guid = op[o].guid
                                   => stage[i].r.id = op[o].id
    /\ \A x \in op[o].cached : x.id = op[o].id /\ Fit(x) /\ On(x.id, x.part)

(* The parts up to the saved one are on the server.                          *)
Covers(o) ==
    \A cut : Clean(Of(o).loc, op[o].id, cut) => \A k \in 0..op[o].savedPart - 1 : On(op[o].id, k)

(* The preferences of a location that is not mixed are those of the upload   *)
(* that runs, unless its first part or its length are still to come.         *)
Owns(o) ==
    Of(o).loc \notin mixed =>
        \/ prefs[Of(o).loc].id = 0
        \/ op[o].est /\ ~op[o].later
        \/ /\ prefs[Of(o).loc].id = op[o].id /\ ~op[o].later /\ ~op[o].nextFirst
           /\ \A cut : Clean(Of(o).loc, op[o].id, cut) => cut.origin = 0

Known(o) == Running(op[o]) => Tracks(op[o], Of(o), made) /\ Gathers(o) /\ Covers(o) /\ Owns(o)

Progress == Fitting /\ Numbered /\ Resumable /\ \A o \in Ids : Known(o)

LEMMA ProgressInit == Init => Progress
<1> SUFFICES ASSUME Init PROVE Progress
  OBVIOUS
<1>1. Inv
  BY InitInv
<1>2. /\ wire = {} /\ server = {} /\ DOMAIN stage = {} /\ Len(made) = 0
      /\ \A l \in Locations : prefs[l].id = 0 /\ prefs[l].size = 0 /\ prefs[l].uploaded = 0
  BY DEF Init, NoPrefs
<1>3. \A o \in Ids : op[o].id = 0 /\ ~op[o].started /\ ~op[o].open
  <2>1. \A o \in Ids : op[o] = New(Of(o), FALSE)
    BY DEF Init
  <2>2. \A f : New(f, FALSE).id = 0 /\ ~New(f, FALSE).started /\ ~New(f, FALSE).open
    BY DEF New
  <2> QED
    BY <2>1, <2>2
<1> QED
  BY <1>2, <1>3 DEF Progress, Fitting, Numbered, Resumable, Known, Running

-----------------------------------------------------------------------------
(* Identifiers, ways to cut a file, and parts on the server only become      *)
(* more.                                                                     *)
Grows ==
    /\ world' = world /\ mixed \subseteq mixed'
    /\ Len(made) <= Len(made') /\ \A i \in 1..Len(made) : made[i].cuts \subseteq made'[i].cuts
    /\ \A id, k : On(id, k) => On(id, k)'

LEMMA FitKept ==
    ASSUME Inv, Inv', Grows
    PROVE  \A r : Fit(r) => Fit(r)'
<1>1. Len(made) \in Nat /\ Len(made') \in Nat
  BY DEF Inv, Types, MadeType
<1> QED
  BY <1>1 DEF Grows, Fit

LEMMA CleanKept ==
    ASSUME Inv, Inv', Numbered, Grows
    PROVE  \A l, id, cut : id \in Nat /\ id <= Len(made) /\ Clean(l, id, cut)' => Clean(l, id, cut)
<1> SUFFICES ASSUME NEW l, NEW id \in Nat, NEW cut, id <= Len(made), Clean(l, id, cut)'
             PROVE  Clean(l, id, cut)
  OBVIOUS
<1>1. id \in 1..Len(made) /\ l \notin mixed /\ id # 0
  BY DEF Clean, Grows, Inv, Types, MadeType
<1>2. made[id].cuts # {} /\ made[id].cuts \subseteq made'[id].cuts /\ made'[id].cuts = {cut}
  BY <1>1 DEF Clean, Grows, Numbered, Ways
<1> QED
  BY <1>1, <1>2 DEF Clean

(* What a step leaves of the requests and the answers to them.               *)
Copy(r, x) ==
    /\ r.o = x.o /\ r.guid = x.guid /\ r.id = x.id /\ r.part = x.part /\ r.from = x.from
    /\ r.bytes = x.bytes
RequestsKept(o) == \A r \in wire' : r.o = o => \E x \in wire : Copy(r, x)
AnswersAdded ==
    \A i \in DOMAIN stage' : stage'[i].do = "answer" =>
        \/ \E j \in DOMAIN stage : stage[j] = stage'[i]
        \/ \E x \in wire : /\ stage'[i].r = x /\ stage'[i].o = x.o
                           /\ stage'[i].ok => On(x.id, x.part)'

LEMMA FittingStep ==
    ASSUME Inv, Inv', Fitting, Grows, AnswersAdded,
           \A r \in wire' : (\E x \in wire : Copy(r, x)) \/ Fit(r)',
           \A q \in server' : q \in server \/ Fit(q)'
    PROVE  Fitting'
<1>1. \A r : Fit(r) => Fit(r)'
  BY FitKept
<1>2. \A r, x : Copy(r, x) /\ Fit(x)' => Fit(r)'
  BY DEF Copy, Fit, Fits
<1>3. \A r \in wire' : Fit(r)'
  BY <1>1, <1>2 DEF Fitting
<1>4. \A q \in server' : Fit(q)'
  BY <1>1 DEF Fitting
<1>5. ASSUME NEW i \in DOMAIN stage', NEW t, t = stage'[i], t.do = "answer"
      PROVE  Fit(t.r)' /\ (t.ok => On(t.r.id, t.r.part)')
  <2>1. CASE \E j \in DOMAIN stage : stage[j] = t
    <3>1. Fit(t.r) /\ (t.ok => On(t.r.id, t.r.part))
      BY <1>5, <2>1 DEF Fitting
    <3>2. \A id, k : On(id, k) => On(id, k)'
      BY DEF Grows
    <3> QED
      BY ONLY <1>1, <3>1, <3>2
  <2>2. CASE \E x \in wire : t.r = x /\ (t.ok => On(x.id, x.part)')
    BY <1>1, <2>2 DEF Fitting
  <2> QED
    BY <1>5, <2>1, <2>2 DEF AnswersAdded
<1> QED
  BY <1>3, <1>4, <1>5 DEF Fitting

LEMMA ResumableStep ==
    ASSUME Inv, Inv', Numbered, Resumable, Grows, NEW l \in Locations, NEW saved,
           saved = prefs[l] \/ saved.uploaded = 0, saved.uploaded > 0
    PROVE  \A cut : Clean(l, saved.id, cut)' =>
              /\ cut.origin = 0
              /\ \A k \in 0..saved.uploaded \div cut.chunk - 1 :
                    On(saved.id, k)' /\ LengthIn(cut, k) = cut.chunk
<1>1. saved = prefs[l]
  OBVIOUS
<1>2. saved.id \in Nat /\ saved.id <= Len(made)
  BY <1>1 DEF Inv, Types, PrefsType, Preferences, Numbered
<1>3. \A id, k : On(id, k) => On(id, k)'
  BY DEF Grows
<1>4. \A cut : Clean(l, saved.id, cut)' => Clean(l, saved.id, cut)
  BY <1>2, CleanKept
<1> QED
  BY <1>1, <1>3, <1>4 DEF Resumable

(* An upload that the step does not go on with.                              *)
SamePlace(u, v) ==
    /\ v.id = u.id /\ (v.est => u.est) /\ v.pos = u.pos /\ v.read = u.read /\ v.part = u.part
    /\ v.chunk = u.chunk /\ v.last = u.last /\ v.nextFirst = u.nextFirst /\ v.later = u.later

LEMMA TracksKept ==
    ASSUME Inv, Grows, NEW u \in Operations, u.id <= Len(made), NEW f, Tracks(u, f, made),
           NEW v, SamePlace(u, v)
    PROVE  Tracks(v, f, made')
<1>1. \A cut : Track(u, f, cut) => Track(v, f, cut)
  BY DEF Track, SamePlace, HeadOf
<1>2. CASE u.id = 0 /\ f.size = 0 /\ ~u.later /\ ~u.nextFirst /\ ~u.est
  BY <1>2 DEF Tracks, SamePlace
<1>3. CASE u.id # 0 /\ \E cut \in made[u.id].cuts : Track(u, f, cut)
  <2>1. u.id \in 1..Len(made) /\ v.id = u.id
    BY <1>3 DEF Operations, Inv, Types, MadeType, SamePlace
  <2>2. made[u.id].cuts \subseteq made'[u.id].cuts
    BY <2>1 DEF Grows
  <2> QED
    BY <1>1, <1>3, <2>1, <2>2 DEF Tracks
<1> QED
  BY <1>2, <1>3 DEF Tracks

SameWork(u, v) ==
    v.id = u.id /\ v.guid = u.guid /\ v.cached = u.cached /\ v.savedPart = u.savedPart

LEMMA GathersKept ==
    ASSUME Inv, Inv', Grows, AnswersAdded, NEW o \in Ids, Gathers(o), SameWork(op[o], op'[o]),
           RequestsKept(o)
    PROVE  Gathers(o)'
<1>1. op'[o].id = op[o].id /\ op'[o].guid = op[o].guid /\ op'[o].cached = op[o].cached
  BY DEF SameWork
<1>2. \A r : Fit(r) => Fit(r)'
  BY FitKept
<1>3. \A id, k : On(id, k) => On(id, k)'
  BY DEF Grows
<1>4. \A r \in wire' : r.o = o /\ r.guid = op[o].guid => r.id = op[o].id
  BY DEF Gathers, RequestsKept, Copy
<1>5. ASSUME NEW i \in DOMAIN stage', NEW t, t = stage'[i], t.do = "answer", t.o = o,
             t.r.guid = op[o].guid
      PROVE  t.r.id = op[o].id
  BY <1>5 DEF AnswersAdded, Gathers
<1>6. ASSUME NEW x \in op[o].cached
      PROVE  x.id = op[o].id /\ Fit(x)' /\ On(x.id, x.part)'
  BY <1>2, <1>3 DEF Gathers
<1> QED
  BY <1>1, <1>4, <1>5, <1>6 DEF Gathers

LEMMA CoversKept ==
    ASSUME Inv, Inv', Numbered, Grows, NEW o \in Ids, Covers(o), SameWork(op[o], op'[o])
    PROVE  Covers(o)'
<1>1. op'[o].id = op[o].id /\ op'[o].savedPart = op[o].savedPart /\ Of(o)' = Of(o)
  BY SameWorld DEF SameWork, Grows
<1>2. op[o].id \in Nat /\ op[o].id <= Len(made)
  BY DEF Inv, Types, OpType, Operations, Numbered
<1>3. \A id, k : On(id, k) => On(id, k)'
  BY DEF Grows
<1>4. \A cut : Clean(Of(o).loc, op[o].id, cut)' => Clean(Of(o).loc, op[o].id, cut)
  BY <1>1, <1>2, CleanKept
<1> QED
  BY <1>1, <1>3, <1>4 DEF Covers

LEMMA OwnsKept ==
    ASSUME Inv, Inv', Numbered, Grows, NEW o \in Ids, Owns(o), Same(op[o], op'[o]),
           Of(o).loc \in mixed \/ prefs'[Of(o).loc].id \in {prefs[Of(o).loc].id, 0}
    PROVE  Owns(o)'
<1>1. /\ op'[o].id = op[o].id /\ op'[o].est = op[o].est /\ op'[o].later = op[o].later
      /\ op'[o].nextFirst = op[o].nextFirst /\ Of(o)' = Of(o)
  BY SameWorld DEF Same, Grows
<1>2. op[o].id \in Nat /\ op[o].id <= Len(made)
  BY DEF Inv, Types, OpType, Operations, Numbered
<1>3. \A cut : Clean(Of(o).loc, op[o].id, cut)' => Clean(Of(o).loc, op[o].id, cut)
  BY <1>1, <1>2, CleanKept
<1>4. mixed \subseteq mixed'
  BY DEF Grows
<1> QED
  BY <1>1, <1>3, <1>4 DEF Owns

LEMMA KnownStep ==
    ASSUME Inv, Inv', Numbered, Grows, AnswersAdded, NEW o \in Ids, Known(o), RequestsKept(o),
           Same(op[o], op'[o]) \/ ~op'[o].open,
           Of(o).loc \in mixed \/ prefs'[Of(o).loc].id \in {prefs[Of(o).loc].id, 0}
    PROVE  Known(o)'
<1>1. CASE ~Running(op'[o])
  BY <1>1 DEF Known
<1>2. CASE Running(op'[o])
  <2>1. Same(op[o], op'[o]) /\ Running(op[o])
    BY <1>2 DEF Running, Same
  <2>2. Tracks(op[o], Of(o), made) /\ Gathers(o) /\ Covers(o) /\ Owns(o)
    BY <2>1 DEF Known
  <2>3. op[o] \in Operations /\ op[o].id <= Len(made) /\ Of(o)' = Of(o)
    BY SameWorld DEF Inv, Types, OpType, Numbered, Grows
  <2>4. Tracks(op'[o], Of(o), made')
    BY <2>1, <2>2, <2>3, TracksKept DEF Same, SamePlace
  <2>5. Gathers(o)' /\ Covers(o)' /\ Owns(o)'
    BY <2>1, <2>2, GathersKept, CoversKept, OwnsKept DEF Same, SameWork
  <2> QED
    BY <2>3, <2>4, <2>5 DEF Known
<1> QED
  BY <1>1, <1>2

-----------------------------------------------------------------------------
(* A step that goes on with no upload.                                       *)
Idles(u, v) ==
    \/ Same(u, v)
    \/ ~v.open /\ v.id = u.id /\ v.started = u.started /\ v.est = u.est
    \/ ~v.open /\ v.id = 0 /\ ~v.started

LEMMA QuietIdles ==
    ASSUME QuietOps
    PROVE  \A p \in Ids : Idles(op[p], op'[p])
BY DEF QuietOps, Quiet, Closed, Fresh, Blank, Idles

LEMMA AnswersKeptAdded == AnswersKept => AnswersAdded
BY DEF AnswersKept, AnswersAdded

LEMMA IdleProgress ==
    ASSUME Inv, Inv', Progress, UNCHANGED <<world, made>>, mixed \subseteq mixed',
           \A id, k : On(id, k) => On(id, k)', AnswersAdded,
           \A r \in wire' : \E x \in wire : Copy(r, x), \A q \in server' : q \in server \/ Fit(q),
           PrefsKept, \A p \in Ids : Idles(op[p], op'[p])
    PROVE  Progress'
<1>1. Fitting /\ Numbered /\ Resumable /\ \A o \in Ids : Known(o)
  BY DEF Progress
<1>2. Grows /\ Ids' = Ids /\ Locations' = Locations
  BY SameWorld DEF Grows
<1>3. Fitting'
  <2>1. \A q \in server' : q \in server \/ Fit(q)'
    BY <1>2, FitKept
  <2> QED
    BY <1>1, <1>2, <2>1, FittingStep
<1>4. Numbered'
  <2>1. \A o \in Ids : op'[o].id <= Len(made) /\ (op'[o].started /\ op'[o].est => op'[o].id # 0)
    <3> SUFFICES ASSUME NEW o \in Ids
                 PROVE  op'[o].id <= Len(made) /\ (op'[o].started /\ op'[o].est => op'[o].id # 0)
      OBVIOUS
    <3>1. op[o].id <= Len(made) /\ (op[o].started /\ op[o].est => op[o].id # 0) /\ Len(made) \in Nat
      BY <1>1 DEF Numbered, Inv, Types, MadeType
    <3> QED
      BY <3>1 DEF Idles, Same
  <2>2. \A l \in Locations : prefs'[l].id <= Len(made) /\ (prefs'[l].id = 0 => prefs'[l].size = 0)
    BY <1>1 DEF Numbered, PrefsKept, NoPrefs, Inv, Types, MadeType
  <2> QED
    BY <1>1, <1>2, <2>1, <2>2 DEF Numbered
<1>5. Resumable'
  <2>1. ASSUME NEW l \in Locations, NEW saved, saved = prefs'[l], saved.uploaded > 0
        PROVE  \A cut : Clean(l, saved.id, cut)' =>
                  /\ cut.origin = 0
                  /\ \A k \in 0..saved.uploaded \div cut.chunk - 1 :
                        On(saved.id, k)' /\ LengthIn(cut, k) = cut.chunk
    <3>1. saved = prefs[l] \/ saved.uploaded = 0
      BY <2>1 DEF PrefsKept, NoPrefs
    <3> QED
      BY <1>1, <1>2, <2>1, <3>1, ResumableStep
  <2> QED
    BY <1>2, <2>1 DEF Resumable
<1>6. ASSUME NEW o \in Ids PROVE Known(o)'
  <2>1. Same(op[o], op'[o]) \/ ~op'[o].open
    BY DEF Idles
  <2>2. prefs'[Of(o).loc].id \in {prefs[Of(o).loc].id, 0} /\ RequestsKept(o)
    BY WorldFacts DEF Inv, Types, PrefsKept, NoPrefs, RequestsKept
  <2> QED
    BY <1>1, <1>2, <2>1, <2>2, KnownStep
<1> QED
  BY <1>2, <1>3, <1>4, <1>5, <1>6 DEF Progress

LEMMA CalmProgress ==
    ASSUME Inv, Inv', Progress, Calm, UNCHANGED <<world, made, server>>, mixed \subseteq mixed',
           wire' \subseteq wire
    PROVE  Progress'
<1>1. AnswersAdded /\ PrefsKept /\ \A p \in Ids : Idles(op[p], op'[p])
  BY AnswersKeptAdded, QuietIdles DEF Calm
<1>2. \A id, k : On(id, k) => On(id, k)'
  BY DEF On
<1>3. \A r \in wire' : \E x \in wire : Copy(r, x)
  BY DEF Copy
<1> QED
  BY <1>1, <1>2, <1>3, IdleProgress

-----------------------------------------------------------------------------
(* The parts in front of a saved point: it is the number of a part, m, and   *)
(* its length, which is less than the parts up to that one are long.         *)
LEMMA WholeParts ==
    ASSUME NEW cut \in Cuts, cut.chunk \in {20, 40}, NEW x \in Requests, x.part \in Nat, x.bytes > 0,
           x.bytes = Less(cut.chunk, cut.size - x.part * cut.chunk),
           NEW k \in 0..(x.part + x.bytes) \div cut.chunk - 1
    PROVE  k <= x.part /\ Less(cut.chunk, cut.size - k * cut.chunk) = cut.chunk
<1>1. x.part \in Nat /\ x.bytes \in Nat /\ cut.size \in Nat
  BY DEF Requests, Cuts
<1>2. CASE cut.chunk = 20
  <2>1. 20 * (k + 1) <= x.part + x.bytes /\ x.bytes <= 20 /\ x.bytes <= cut.size - 20 * x.part
    BY <1>1, <1>2 DEF Less
  <2>2. k < x.part \/ (x.part = 0 /\ k = 0 /\ x.bytes = 20)
    BY <1>1, <2>1
  <2>3. 20 <= cut.size - 20 * k
    BY <1>1, <2>1, <2>2
  <2> QED
    BY <1>1, <1>2, <2>2, <2>3 DEF Less
<1>3. CASE cut.chunk = 40
  <2>1. 40 * (k + 1) <= x.part + x.bytes /\ x.bytes <= 40 /\ x.bytes <= cut.size - 40 * x.part
    BY <1>1, <1>3 DEF Less
  <2>2. k < x.part \/ (x.part = 0 /\ k = 0 /\ x.bytes = 40)
    BY <1>1, <2>1
  <2>3. 40 <= cut.size - 40 * k
    BY <1>1, <2>1, <2>2
  <2> QED
    BY <1>1, <1>3, <2>2, <2>3 DEF Less
<1> QED
  BY <1>2, <1>3

LEMMA OriginParts ==
    ASSUME NEW cut \in Cuts, cut.origin = 0, cut.chunk \in {20, 40}, NEW k \in Int
    PROVE  StartIn(cut, k) = k * cut.chunk /\ LengthIn(cut, k) = Less(cut.chunk, cut.size - k * cut.chunk)
<1>1. cut.chunk \in Int /\ cut.origin = 0
  OBVIOUS
<1>2. k = 0 => k * cut.chunk = 0
  BY <1>1
<1>3. 0 + k * cut.chunk = k * cut.chunk
  BY <1>1
<1>4. StartIn(cut, k) = k * cut.chunk
  BY <1>1, <1>2, <1>3 DEF StartIn
<1> QED
  BY <1>1, <1>4 DEF LengthIn

(* What an answer that is counted finds: the upload runs, and its part,      *)
(* which is of its identifier, is on the server.                             *)
LEMMA ConfirmedFinds ==
    ASSUME Inv, Progress, at.kind = "idle", stage # <<>>, NEW o, o = Head(stage).o,
           NEW r, r = Head(stage).r, Head(stage).do = "answer", Head(stage).ok,
           NEW u, NEW s, Confirmed(o, r, u, s)
    PROVE  /\ o \in Ids /\ op[o] \in Operations /\ Running(op[o]) /\ Known(o)
           /\ r \in Requests /\ r.id = op[o].id /\ Fit(r) /\ On(r.id, r.part)
<1>1. /\ o \in Ids /\ op[o] \in Operations /\ stage \in Seq(StageTasks) /\ Head(stage) \in StageTasks
      /\ Typed(o, Of(o), op[o], Mine(wire, o), stage, "idle", 0)
      /\ View(o, Of(o), op[o], Mine(wire, o), stage, "idle", 0)
  BY StageTaskState
<1>2. 1 \in DOMAIN stage /\ stage[1] = Head(stage)
  BY <1>1
<1>3. r \in Requests
  BY <1>1, StageTaskFields
<1>4. Running(op[o])
  BY <1>1, NothingPrepared DEF Running, Confirmed
<1>5. Fit(r) /\ On(r.id, r.part)
  BY <1>2 DEF Progress, Fitting
<1>6. Known(o) /\ Gathers(o)
  BY <1>1, <1>4 DEF Progress, Known
<1>7. r.id = op[o].id
  BY <1>2, <1>6 DEF Gathers, Confirmed
<1> QED
  BY <1>1, <1>3, <1>4, <1>5, <1>6, <1>7

(* Nothing but what the upload has kept, and the point in its preferences,   *)
(* is different.                                                             *)
LEMMA ConfirmedSaves ==
    ASSUME Inv, Inv', UNCHANGED <<world, made, server, mixed>>, NEW o \in Ids, op[o] \in Operations,
           NEW r, NEW u, NEW s, Confirmed(o, r, u, s)
    PROVE  /\ op'[o] = s.u /\ (\A p \in Ids : p # o => op'[p] = op[p])
           /\ s.u.state = op[o].state /\ s.u.est = op[o].est /\ s.u.started = op[o].started
           /\ s.u.open = op[o].open /\ s.u.pos = op[o].pos /\ s.u.read = op[o].read
           /\ s.u.part = op[o].part /\ s.u.chunk = op[o].chunk /\ s.u.last = op[o].last
           /\ s.u.nextFirst = op[o].nextFirst /\ s.u.later = op[o].later
           /\ s.u.id = op[o].id /\ s.u.guid = op[o].guid /\ s.u.parts = op[o].parts
           /\ u.cached = op[o].cached /\ u.savedPart = op[o].savedPart
           /\ \A l \in Locations : /\ prefs'[l].id = prefs[l].id /\ prefs'[l].size = prefs[l].size
                                   /\ prefs'[l] = prefs[l] \/ (l = Of(o).loc /\ prefs'[l].uploaded = s.size)
           /\ s.size = 0 => prefs' = prefs
<1>1. op \in [Ids -> Operations] /\ prefs \in [Locations -> Preferences]
  BY DEF Inv, Types, OpType, PrefsType
<1>2. op'[o] = s.u /\ (\A p \in Ids : p # o => op'[p] = op[p])
  BY <1>1 DEF Confirmed
<1>3. /\ u.cached = op[o].cached /\ u.savedPart = op[o].savedPart
      /\ s.u.state = op[o].state /\ s.u.est = op[o].est /\ s.u.started = op[o].started
      /\ s.u.open = op[o].open /\ s.u.pos = op[o].pos /\ s.u.read = op[o].read
      /\ s.u.part = op[o].part /\ s.u.chunk = op[o].chunk /\ s.u.last = op[o].last
      /\ s.u.nextFirst = op[o].nextFirst /\ s.u.later = op[o].later
      /\ s.u.id = op[o].id /\ s.u.guid = op[o].guid /\ s.u.parts = op[o].parts
  BY DEF Confirmed, Same, SameButSaved
<1>4. ASSUME NEW l \in Locations
      PROVE  /\ prefs'[l].id = prefs[l].id /\ prefs'[l].size = prefs[l].size
             /\ prefs'[l] = prefs[l] \/ (l = Of(o).loc /\ prefs'[l].uploaded = s.size)
  BY <1>1 DEF Confirmed, Preferences
<1>5. s.size = 0 => prefs' = prefs
  BY DEF Confirmed
<1> QED
  BY <1>2, <1>3, <1>4, <1>5

LEMMA ConfirmedCovers ==
    ASSUME Inv, Inv', UNCHANGED <<world, made, server, mixed>>, NEW o \in Ids, op[o] \in Operations,
           NEW r \in Requests, r.id = op[o].id, On(r.id, r.part), Gathers(o), Covers(o),
           NEW u, NEW s, Confirmed(o, r, u, s), s.u \in Operations
    PROVE  Covers(o)'
<1>1. /\ op'[o] = s.u /\ s.u.id = op[o].id /\ u.cached = op[o].cached /\ u.savedPart = op[o].savedPart
      /\ Of(o)' = Of(o)
  BY ConfirmedSaves, SameWorld
<1>2. \A l, id, cut : Clean(l, id, cut)' <=> Clean(l, id, cut)
  BY DEF Clean
<1>3. \A id, k : On(id, k)' <=> On(id, k)
  BY DEF On
<1> SUFFICES ASSUME NEW cut, Clean(Of(o).loc, op[o].id, cut), NEW k \in 0..s.u.savedPart - 1
             PROVE  On(op[o].id, k)
  BY <1>1, <1>2, <1>3 DEF Covers
<1>4. \A j \in 0..op[o].savedPart - 1 : On(op[o].id, j)
  BY DEF Covers
<1>5. op[o].savedPart \in Int /\ s.u.savedPart \in Int /\ r.part \in Int
  BY DEF Operations, Requests
<1>6. \A x \in op[o].cached : On(op[o].id, x.part)
  BY DEF Gathers
<1>7. CASE s.u.savedPart = op[o].savedPart
  BY <1>4, <1>7
<1>8. CASE /\ r.part = u.savedPart
           /\ \A j \in r.part + 1..s.u.savedPart - 1 : \E x \in u.cached : x.part = j
  <2>1. k \in 0..op[o].savedPart - 1 \/ k = r.part \/ k \in r.part + 1..s.u.savedPart - 1
    BY <1>1, <1>5, <1>8
  <2> QED
    BY <1>1, <1>4, <1>6, <1>8, <2>1
<1> QED
  BY <1>1, <1>7, <1>8 DEF Confirmed, SavesAs

LEMMA ConfirmedPoint ==
    ASSUME Inv, Inv', Fitting, Numbered, UNCHANGED <<world, made, server, mixed>>, NEW o \in Ids,
           op[o] \in Operations, NEW r \in Requests, Fit(r), Gathers(o), Owns(o), Covers(o)',
           r.id = op[o].id,
           NEW u, NEW s, Confirmed(o, r, u, s), s.size > 0, NEW l, l = Of(o).loc, NEW id,
           id = prefs[l].id, NEW cut, Clean(l, id, cut)
    PROVE  /\ cut.origin = 0
           /\ \A k \in 0..s.size \div cut.chunk - 1 :
                 On(id, k)' /\ LengthIn(cut, k) = cut.chunk
<1>1. op'[o] = s.u /\ s.u.id = op[o].id /\ u.cached = op[o].cached /\ Of(o)' = Of(o)
  BY ConfirmedSaves, SameWorld
<1>2. PICK n \in Int : /\ ~u.est /\ ~u.later /\ ~u.nextFirst
                       /\ s.u.savedPart = n
                       /\ \E x \in LastOnes(u, r, n) : s.size = x.part + x.bytes
  BY DEF Confirmed, SavesAs
<1>3. id = op[o].id /\ cut.origin = 0
  <2>1. l \notin mixed /\ id # 0
    BY DEF Clean
  <2>2. u.est = op[o].est /\ u.later = op[o].later /\ u.nextFirst = op[o].nextFirst
    BY DEF Confirmed, Same
  <2> QED
    BY <1>2, <2>1, <2>2 DEF Owns
<1>4. PICK x \in LastOnes(u, r, n) : s.size = x.part + x.bytes
  BY <1>2
<1>5. x \in Requests /\ x.id = id /\ Fit(x) /\ x.part = n - 1
  <2>1. x \in op[o].cached \cup {r} /\ x.part = n - 1
    BY <1>1, <1>4 DEF LastOnes
  <2>2. op[o].cached \subseteq Requests
    BY DEF Operations, Caches
  <2> QED
    BY <1>3, <2>1, <2>2 DEF Gathers
<1>6. id \in 1..Len(made) /\ made[id].cuts = {cut} /\ cut \in Cuts /\ cut.chunk \in {20, 40}
  <2>1. made[id].cuts = {cut} /\ id \in 1..Len(made)
    BY <1>3, <1>5 DEF Clean, Fit
  <2>2. made[id] \in Identifiers
    BY <2>1 DEF Inv, Types, MadeType
  <2> QED
    BY <2>1, <2>2 DEF Identifiers, Numbered, Ways
<1>7. x.from = x.part * cut.chunk /\ x.bytes = Less(cut.chunk, cut.size - x.part * cut.chunk) /\ x.bytes > 0
  <2>1. Fits(x, cut) /\ x.bytes > 0
    BY <1>5, <1>6 DEF Fit
  <2>2. x.part \in Int
    BY <1>5 DEF Requests
  <2> QED
    BY <1>3, <1>6, <2>1, <2>2, OriginParts DEF Fits, Proper
<1>8. x.part \in Nat /\ x.bytes \in Nat /\ x.from \in Nat
  <2>1. x.part \in Int /\ x.bytes \in Nat /\ x.from \in Nat
    BY <1>5 DEF Requests
  <2>2. CASE cut.chunk = 20
    BY <1>7, <2>1, <2>2
  <2>3. CASE cut.chunk = 40
    BY <1>7, <2>1, <2>3
  <2> QED
    BY <1>6, <2>2, <2>3
<1>9. ASSUME NEW k \in 0..s.size \div cut.chunk - 1
      PROVE  On(id, k)' /\ LengthIn(cut, k) = cut.chunk
  <2>1. k \in 0..(x.part + x.bytes) \div cut.chunk - 1 /\ cut.size \in Nat
    BY <1>4, <1>6, <1>9 DEF Cuts
  <2>2. k <= x.part /\ Less(cut.chunk, cut.size - k * cut.chunk) = cut.chunk
    BY <1>5, <1>6, <1>7, <1>8, <2>1, WholeParts
  <2>3. LengthIn(cut, k) = cut.chunk
    BY <1>3, <1>6, <2>2, OriginParts
  <2>4. k \in 0..s.u.savedPart - 1
    BY <1>2, <1>5, <1>8, <2>2
  <2>5. Clean(l, id, cut)'
    BY DEF Clean
  <2>6. On(id, k)'
    BY <1>1, <1>3, <2>4, <2>5 DEF Covers
  <2> QED
    BY <2>3, <2>6
<1> QED
  BY <1>3, <1>9

LEMMA ConfirmedProgress ==
    ASSUME Inv, Inv', Progress, at.kind = "idle", stage # <<>>, NEW o, o = Head(stage).o,
           NEW r, r = Head(stage).r, Head(stage).do = "answer", Head(stage).ok,
           NEW u, NEW s, Confirmed(o, r, u, s), AnswersKept, wire' \subseteq wire,
           UNCHANGED <<world, made, server, mixed>>
    PROVE  Progress'
<1>1. Fitting /\ Numbered /\ Resumable /\ \A p \in Ids : Known(p)
  BY DEF Progress
<1>2. /\ o \in Ids /\ op[o] \in Operations /\ Running(op[o])
      /\ r \in Requests /\ r.id = op[o].id /\ Fit(r) /\ On(r.id, r.part)
      /\ Tracks(op[o], Of(o), made) /\ Gathers(o) /\ Covers(o) /\ Owns(o)
  BY ConfirmedFinds DEF Known
<1>3. /\ op'[o] = s.u /\ (\A p \in Ids : p # o => op'[p] = op[p])
      /\ s.u.state = op[o].state /\ s.u.est = op[o].est /\ s.u.started = op[o].started
      /\ s.u.open = op[o].open /\ s.u.pos = op[o].pos /\ s.u.read = op[o].read
      /\ s.u.part = op[o].part /\ s.u.chunk = op[o].chunk /\ s.u.last = op[o].last
      /\ s.u.nextFirst = op[o].nextFirst /\ s.u.later = op[o].later
      /\ s.u.id = op[o].id /\ s.u.guid = op[o].guid /\ u.cached = op[o].cached
      /\ \A l \in Locations : /\ prefs'[l].id = prefs[l].id /\ prefs'[l].size = prefs[l].size
                              /\ prefs'[l] = prefs[l] \/ (l = Of(o).loc /\ prefs'[l].uploaded = s.size)
      /\ s.size = 0 => prefs' = prefs
  BY <1>2, ConfirmedSaves
<1>4. /\ Grows /\ AnswersAdded /\ Ids' = Ids /\ Locations' = Locations /\ (\A p : Of(p)' = Of(p))
      /\ \A p \in Ids : RequestsKept(p)
  BY SameWorld, AnswersKeptAdded DEF Grows, On, RequestsKept, Copy
<1>5. Fitting'
  BY <1>1, <1>4, FittingStep DEF Copy
<1>6. Numbered'
  BY <1>1, <1>3, <1>4 DEF Numbered
<1>7. s.u \in Operations
  BY <1>2, <1>3, <1>4 DEF Inv, Types, OpType
<1>8. Covers(o)'
  BY <1>2, <1>7, ConfirmedCovers
<1>9. Resumable'
  <2>1. ASSUME NEW l \in Locations, NEW saved, saved = prefs'[l], saved.uploaded > 0
        PROVE  \A cut : Clean(l, saved.id, cut)' =>
                  /\ cut.origin = 0
                  /\ \A k \in 0..saved.uploaded \div cut.chunk - 1 :
                        On(saved.id, k)' /\ LengthIn(cut, k) = cut.chunk
    <3>1. CASE saved = prefs[l]
      BY <1>1, <1>4, <2>1, <3>1, ResumableStep
    <3>2. CASE l = Of(o).loc /\ saved.uploaded = s.size
      <4>1. saved.id = prefs[l].id /\ s.size > 0
        BY <1>3, <2>1, <3>2
      <4>2. \A cut : Clean(l, saved.id, cut)' => Clean(l, saved.id, cut)
        BY DEF Clean
      <4> DEFINE id == saved.id
      <4>3. ASSUME NEW cut, Clean(l, id, cut)
            PROVE  /\ cut.origin = 0
                   /\ \A k \in 0..s.size \div cut.chunk - 1 :
                         On(id, k)' /\ LengthIn(cut, k) = cut.chunk
        <5> HIDE DEF id
        <5>1. id = prefs[l].id /\ l = Of(o).loc /\ s.size > 0
          BY <3>2, <4>1 DEF id
        <5>2. UNCHANGED <<world, made, server, mixed>>
          OBVIOUS
        <5>3. /\ Fitting /\ Numbered /\ o \in Ids /\ op[o] \in Operations /\ r \in Requests /\ Fit(r)
              /\ Gathers(o) /\ Owns(o) /\ Covers(o)' /\ r.id = op[o].id /\ Confirmed(o, r, u, s)
          BY <1>1, <1>2, <1>8
        <5> QED
          BY ONLY Inv, Inv', <4>3, <5>1, <5>2, <5>3, ConfirmedPoint
      <4>4. saved.uploaded = s.size
        BY <3>2
      <4> HIDE DEF id
      <4>5. \A cut : Clean(l, id, cut)' => Clean(l, id, cut)
        BY <4>2 DEF id
      <4>6. \A cut : Clean(l, id, cut)' =>
               /\ cut.origin = 0
               /\ \A k \in 0..saved.uploaded \div cut.chunk - 1 :
                     On(id, k)' /\ LengthIn(cut, k) = cut.chunk
        BY ONLY <4>3, <4>4, <4>5
      <4> QED
        BY <4>6 DEF id
    <3> QED
      BY <1>3, <2>1, <3>1, <3>2
  <2> QED
    BY <1>4, <2>1 DEF Resumable
<1>10. ASSUME NEW p \in Ids, p # o PROVE Known(p)'
  <2>1. Same(op[p], op'[p]) /\ prefs'[Of(p).loc].id \in {prefs[Of(p).loc].id, 0}
    BY <1>3, <1>10, WorldFacts DEF Same, Inv, Types
  <2> QED
    BY <1>1, <1>4, <2>1, KnownStep
<1>11. Known(o)'
  <2>1. Tracks(op'[o], Of(o), made')
    <3>1. SamePlace(op[o], op'[o])
      BY <1>3 DEF SamePlace
    <3>2. op[o].id <= Len(made)
      BY <1>1, <1>2 DEF Numbered
    <3> QED
      BY <1>2, <1>4, <3>1, <3>2, TracksKept
  <2>2. Gathers(o)'
    <3>1. /\ \A x : Fit(x) => Fit(x)'
          /\ \A id, k : On(id, k) => On(id, k)'
      BY <1>4, FitKept DEF Grows
    <3>2. s.u.cached \subseteq op[o].cached \cup {r}
      BY <1>3 DEF Confirmed, SavesAs
    <3>3. \A x \in s.u.cached : x.id = op[o].id /\ Fit(x)' /\ On(x.id, x.part)'
      BY <1>2, <3>1, <3>2 DEF Gathers
    <3>4. ASSUME NEW i \in DOMAIN stage', NEW t, t = stage'[i], t.do = "answer", t.o = o,
                 t.r.guid = op[o].guid
          PROVE  t.r.id = op[o].id
      <4>1. PICK j \in DOMAIN stage : stage[j] = t
        BY <3>4 DEF AnswersKept
      <4> QED
        BY <1>2, <3>4, <4>1 DEF Gathers
    <3>5. \A x \in wire' : x.o = o /\ x.guid = op[o].guid => x.id = op[o].id
      BY <1>2 DEF Gathers
    <3>6. op'[o].id = op[o].id /\ op'[o].guid = op[o].guid /\ op'[o].cached = s.u.cached
      BY <1>3
    <3> QED
      BY ONLY <3>3, <3>4, <3>5, <3>6 DEF Gathers
  <2>3. Owns(o)'
    <3>1. prefs'[Of(o).loc].id = prefs[Of(o).loc].id
      <4>1. Of(o).loc \in Locations
        BY <1>2, StageState
      <4> QED
        BY <1>3, <4>1
    <3>2. \A l, id, cut : Clean(l, id, cut)' <=> Clean(l, id, cut)
      BY DEF Clean
    <3>3. /\ op'[o].id = op[o].id /\ op'[o].est = op[o].est /\ op'[o].later = op[o].later
          /\ op'[o].nextFirst = op[o].nextFirst /\ mixed' = mixed /\ Of(o)' = Of(o)
      BY <1>3, <1>4
    <3>4. Owns(o)
      BY <1>2
    <3> QED
      BY ONLY <3>1, <3>2, <3>3, <3>4 DEF Owns
  <2> QED
    BY <1>4, <1>8, <2>1, <2>2, <2>3 DEF Known
<1> QED
  BY <1>4, <1>5, <1>6, <1>9, <1>10, <1>11 DEF Progress

-----------------------------------------------------------------------------
(* New data: the length of the file is known, so that an upload with the     *)
(* first part read before writes its identifier to the preferences.          *)
LEMMA InformedStores ==
    ASSUME Inv, Inv', world' = world, NEW o \in Ids, NEW v, NEW t, Informed(o, v, t)
    PROVE  /\ op'[o] = v /\ (\A p \in Ids : p # o => op'[p] = op[p])
           /\ \A l \in Locations :
                 \/ prefs'[l] = prefs[l]
                 \/ /\ l = Of(o).loc /\ op[o].est /\ op[o].started /\ ~op[o].later
                    /\ prefs'[l].id = op[o].id /\ prefs'[l].uploaded = 0
           /\ op[o].est /\ t.final /\ ~op[o].later /\ op[o].started =>
                 prefs'[Of(o).loc].id = op[o].id
<1>1. /\ op \in [Ids -> Operations] /\ prefs \in [Locations -> Preferences] /\ Of(o).loc \in Locations
  BY WorldFacts DEF Inv, Types, OpType, PrefsType
<1>2. op'[o] = v /\ (\A p \in Ids : p # o => op'[p] = op[p])
  BY <1>1 DEF Informed
<1>3. v.later = op[o].later /\ v.started = op[o].started /\ v.id = op[o].id
  BY DEF Informed, SameButData
<1>4. StoreFileUploadInfo(v).id = v.id /\ StoreFileUploadInfo(v).uploaded = 0
  BY DEF StoreFileUploadInfo, NoPrefs
<1>5. prefs' = IF op[o].est /\ t.final /\ ~v.later /\ v.started
               THEN [prefs EXCEPT ![Of(o).loc] = StoreFileUploadInfo(v)] ELSE prefs
  BY DEF Informed
<1> QED
  BY <1>1, <1>2, <1>3, <1>4, <1>5

(* No other upload of the location runs while it is not mixed.               *)
LEMMA InformedAlone ==
    ASSUME Inv, Apartness, stage # <<>>, NEW o, o = Head(stage).o, o \in Ids, Head(stage).do = "data",
           op[o].started, NEW p \in Ids, p # o, Of(p).loc = Of(o).loc, Of(o).loc \notin mixed
    PROVE  ~Running(op[p])
<1> SUFFICES ASSUME Running(op[p]) PROVE FALSE
  OBVIOUS
<1>1. stage \in Seq(StageTasks) /\ 1 \in DOMAIN stage /\ stage[1] = Head(stage)
  BY StageState
<1>2. Apart(p, o)
  BY DEF Apartness, Alone, Running
<1>3. PICK j \in DOMAIN stage : Starts(stage, p, j)
  BY <1>1, <1>2 DEF Apart, AtWork, StartAfter
<1>4. Blank(op[p])
  BY <1>3, LoaderState DEF View, Prepared
<1> QED
  BY <1>4 DEF Blank, Running

LEMMA InformedOwns ==
    ASSUME Inv, Inv', Apartness, Numbered, UNCHANGED <<world, made, mixed>>, NEW o \in Ids, NEW v, NEW t,
           Informed(o, v, t), Running(op[o]), Tracks(op[o], Of(o), made), Owns(o)
    PROVE  Owns(o)'
<1>1. /\ op'[o] = v /\ Of(o)' = Of(o) /\ Of(o).loc \in Locations
      /\ v.id = op[o].id /\ v.later = op[o].later /\ v.nextFirst = op[o].nextFirst
      /\ v.est = (op[o].est /\ ~t.final)
  <2>1. op'[o] = v /\ Of(o)' = Of(o) /\ Of(o).loc \in Locations
    BY InformedStores, SameWorld, WorldFacts DEF Inv, Types
  <2> QED
    BY <2>1 DEF Informed, SameButData
<1>2. op[o].started
  BY DEF Apartness, OpsHold, Running
<1>3. \A l, id, cut : Clean(l, id, cut)' <=> Clean(l, id, cut)
  BY DEF Clean
<1>4. CASE op[o].est /\ ~op[o].later /\ t.final
  <2>1. prefs'[Of(o).loc].id = op[o].id
    BY <1>2, <1>4, InformedStores
  <2>2. ~op[o].nextFirst /\ \A cut : Clean(Of(o).loc, op[o].id, cut) => cut.origin = 0
    BY <1>2, <1>4 DEF Numbered, Tracks, Track, Clean
  <2> QED
    BY <1>1, <1>3, <1>4, <2>1, <2>2 DEF Owns
<1>5. CASE ~(op[o].est /\ ~op[o].later /\ t.final)
  <2>1. prefs' = prefs
    BY <1>1, <1>5 DEF Informed
  <2> QED
    BY <1>1, <1>3, <1>5, <2>1 DEF Owns
<1> QED
  BY <1>4, <1>5

LEMMA InformedProgress ==
    ASSUME Inv, Inv', Apartness, Progress, at.kind = "idle", stage # <<>>,
           NEW o, o = Head(stage).o, Head(stage).do = "data", NEW v, NEW t, Informed(o, v, t),
           AnswersKept, wire' \subseteq wire, UNCHANGED <<world, made, server, mixed>>
    PROVE  Progress'
<1>1. Fitting /\ Numbered /\ Resumable /\ \A p \in Ids : Known(p)
  BY DEF Progress
<1>2. /\ o \in Ids /\ Of(o).loc \in Locations
  BY StageTaskState
<1>3. /\ op'[o] = v /\ (\A p \in Ids : p # o => op'[p] = op[p])
      /\ \A l \in Locations :
            \/ prefs'[l] = prefs[l]
            \/ /\ l = Of(o).loc /\ op[o].est /\ op[o].started /\ ~op[o].later
               /\ prefs'[l].id = op[o].id /\ prefs'[l].uploaded = 0
  BY <1>2, InformedStores
<1>4. SameButData(op[o], v) /\ (v.est => op[o].est)
  BY DEF Informed
<1>5. /\ Grows /\ AnswersAdded /\ Ids' = Ids /\ Locations' = Locations /\ (\A p : Of(p)' = Of(p))
      /\ \A p \in Ids : RequestsKept(p)
  BY SameWorld, AnswersKeptAdded DEF Grows, On, RequestsKept, Copy
<1>6. Fitting'
  BY <1>1, <1>5, FittingStep DEF Copy
<1>7. Numbered'
  <2>1. \A p \in Ids : op'[p].id <= Len(made) /\ (op'[p].started /\ op'[p].est => op'[p].id # 0)
    BY <1>1, <1>3, <1>4 DEF Numbered, SameButData
  <2>2. \A l \in Locations : prefs'[l].id <= Len(made) /\ (prefs'[l].id = 0 => prefs'[l].size = 0)
    BY <1>1, <1>2, <1>3 DEF Numbered
  <2> QED
    BY <1>1, <1>5, <2>1, <2>2 DEF Numbered
<1>8. Resumable'
  <2>1. ASSUME NEW l \in Locations, NEW saved, saved = prefs'[l], saved.uploaded > 0
        PROVE  \A cut : Clean(l, saved.id, cut)' =>
                  /\ cut.origin = 0
                  /\ \A k \in 0..saved.uploaded \div cut.chunk - 1 :
                        On(saved.id, k)' /\ LengthIn(cut, k) = cut.chunk
    BY <1>1, <1>3, <1>5, <2>1, ResumableStep
  <2> QED
    BY <1>5, <2>1 DEF Resumable
<1>9. ASSUME NEW p \in Ids, p # o PROVE Known(p)'
  <2>1. op'[p] = op[p] /\ Of(p).loc \in Locations
    BY <1>3, <1>9, WorldFacts DEF Inv, Types
  <2>2. CASE prefs'[Of(p).loc] = prefs[Of(p).loc] \/ Of(p).loc \in mixed
    BY <1>1, <1>5, <2>1, <2>2, KnownStep DEF Same
  <2>3. CASE Of(p).loc = Of(o).loc /\ op[o].started /\ Of(o).loc \notin mixed
    BY <1>2, <1>9, <2>1, <2>3, InformedAlone DEF Known
  <2> QED
    BY <1>3, <2>1, <2>2, <2>3
<1>10. Known(o)'
  <2> SUFFICES ASSUME Running(op'[o]) PROVE Known(o)'
    BY DEF Known
  <2>1. Running(op[o])
    BY <1>3, <1>4 DEF Running, SameButData
  <2>2. Tracks(op[o], Of(o), made) /\ Gathers(o) /\ Covers(o) /\ Owns(o)
    BY <1>1, <1>2, <2>1 DEF Known
  <2>3. SamePlace(op[o], op'[o]) /\ SameWork(op[o], op'[o])
    BY <1>3, <1>4 DEF SameButData, SamePlace, SameWork
  <2>4. op[o] \in Operations /\ op[o].id <= Len(made)
    BY <1>1, <1>2 DEF Inv, Types, OpType, Numbered
  <2>5. Tracks(op'[o], Of(o), made')
    BY <1>5, <2>2, <2>3, <2>4, TracksKept
  <2>6. Gathers(o)' /\ Covers(o)'
    BY <1>1, <1>2, <1>5, <2>2, <2>3, GathersKept, CoversKept
  <2>7. Owns(o)'
    BY <1>1, <1>2, <2>1, <2>2, InformedOwns
  <2> QED
    BY <1>5, <2>5, <2>6, <2>7 DEF Known
<1> QED
  BY <1>5, <1>6, <1>7, <1>8, <1>9, <1>10 DEF Progress

-----------------------------------------------------------------------------
(* The application, the network, and a restart.                              *)
LEMMA ApplicationProgress ==
    ASSUME Inv, Inv', Progress,
           UNCHANGED <<world, op, stage, prefs, wire, server, made, mixed>>
    PROVE  Progress'
<1>1. QuietOps /\ AnswersKept /\ PrefsKept
  BY DEF QuietOps, Quiet, Same, AnswersKept, PrefsKept
<1> QED
  BY <1>1, CalmProgress DEF Calm

LEMMA RestartProgress ==
    ASSUME Inv, Inv', Progress, Restart
    PROVE  Progress'
<1>1. /\ UNCHANGED <<world, made, mixed>> /\ prefs' = prefs /\ server' = server /\ wire' = {}
      /\ DOMAIN stage' = {}
  BY DEF Restart
<1>2. \A o \in Ids : op'[o].id = 0 /\ ~op'[o].started /\ ~op'[o].open
  <2>1. \A o \in Ids : op'[o] = New(Of(o), FALSE)
    BY DEF Restart
  <2>2. \A f : New(f, FALSE).id = 0 /\ ~New(f, FALSE).started /\ ~New(f, FALSE).open
    BY DEF New
  <2> QED
    BY <2>1, <2>2
<1>3. \A id, k : On(id, k) => On(id, k)'
  BY <1>1 DEF On
<1>4. AnswersAdded /\ PrefsKept /\ \A o \in Ids : Idles(op[o], op'[o])
  BY <1>1, <1>2 DEF AnswersAdded, PrefsKept, Idles
<1> QED
  BY <1>1, <1>3, <1>4, IdleProgress

(* A task that has been added to the stage queue.                            *)
LEMMA StageAdded ==
    ASSUME Inv, NEW t, stage' = Append(stage, t)
    PROVE  \A i \in DOMAIN stage' : (i \in DOMAIN stage /\ stage'[i] = stage[i]) \/ stage'[i] = t
<1>1. stage \in Seq(StageTasks)
  BY StageState
<1> QED
  BY ONLY <1>1, stage' = Append(stage, t)

LEMMA WrittenProgress ==
    ASSUME Inv, Inv', Progress, NEW r \in wire, Written(r)
    PROVE  Progress'
<1>1. /\ UNCHANGED <<world, made, mixed>> /\ prefs' = prefs /\ server' = server /\ op' = op
      /\ wire' = (wire \ {r}) \cup {[r EXCEPT !.written = TRUE]}
      /\ stage' = Append(stage, [do |-> "written", o |-> r.o])
  BY DEF Written
<1>2. \A x \in wire' : \E y \in wire : Copy(x, y)
  <2>1. r \in Requests
    BY StageState
  <2>2. Copy([r EXCEPT !.written = TRUE], r)
    BY <2>1 DEF Copy, Requests
  <2> QED
    BY <1>1, <2>2 DEF Copy
<1>3. \A id, k : On(id, k) => On(id, k)'
  BY <1>1 DEF On
<1>4. AnswersAdded
  <2>1. [do |-> "written", o |-> r.o].do # "answer"
    OBVIOUS
  <2> QED
    BY <1>1, <2>1, StageAdded DEF AnswersAdded
<1>5. PrefsKept /\ \A o \in Ids : Idles(op[o], op'[o])
  BY <1>1 DEF PrefsKept, Idles, Same
<1> QED
  BY <1>1, <1>2, <1>3, <1>4, <1>5, IdleProgress

(* The part takes the place of the one with its number.                      *)
LEMMA PutOn ==
    ASSUME NEW r, server' = Put(server, r)
    PROVE  /\ \A id, k : On(id, k) => On(id, k)'
           /\ On(r.id, r.part)'
           /\ Fit(r) => \A q \in server' : q \in server \/ Fit(q)
<1> DEFINE new == [id |-> r.id, part |-> r.part, from |-> r.from, bytes |-> r.bytes, early |-> r.early]
<1>1. server' = {p \in server : p.id # r.id \/ p.part # r.part} \cup {new}
  BY DEF Put
<1>2. new.id = r.id /\ new.part = r.part /\ new.from = r.from /\ new.bytes = r.bytes
  OBVIOUS
<1> HIDE DEF new
<1>3. On(r.id, r.part)'
  BY <1>1, <1>2 DEF On
<1>4. \A id, k : On(id, k) => On(id, k)'
  BY <1>1, <1>2 DEF On
<1>5. Fit(r) => Fit(new)
  BY <1>2 DEF Fit, Fits
<1> QED
  BY <1>1, <1>3, <1>4, <1>5

LEMMA AnswerProgress ==
    ASSUME Inv, Inv', Progress, NEW r \in wire, NEW ok \in BOOLEAN, Answer(r, ok)
    PROVE  Progress'
<1>1. /\ UNCHANGED <<world, made, mixed>> /\ prefs' = prefs /\ op' = op /\ wire' = wire \ {r}
      /\ server' = IF ok THEN Put(server, r) ELSE server
      /\ stage' = Append(stage, [do |-> "answer", o |-> r.o, r |-> r, ok |-> ok])
  BY DEF Answer
<1>2. \A x \in wire' : \E y \in wire : Copy(x, y)
  BY <1>1 DEF Copy
<1>3. /\ \A id, k : On(id, k) => On(id, k)'
      /\ ok => On(r.id, r.part)'
      /\ \A q \in server' : q \in server \/ Fit(q)
  <2>1. Fit(r)
    BY DEF Progress, Fitting
  <2>2. CASE ok
    BY <1>1, <2>1, <2>2, PutOn
  <2>3. CASE ~ok
    BY <1>1, <2>3 DEF On
  <2> QED
    BY <2>2, <2>3
<1>4. AnswersAdded
  <2> DEFINE t == [do |-> "answer", o |-> r.o, r |-> r, ok |-> ok]
  <2>1. t.r = r /\ t.o = r.o /\ t.ok = ok /\ stage' = Append(stage, t)
    BY <1>1
  <2> HIDE DEF t
  <2>2. \A i \in DOMAIN stage' : (i \in DOMAIN stage /\ stage'[i] = stage[i]) \/ stage'[i] = t
    BY <2>1, StageAdded
  <2> QED
    BY <1>3, <2>1, <2>2 DEF AnswersAdded
<1>5. PrefsKept /\ \A o \in Ids : Idles(op[o], op'[o])
  BY <1>1 DEF PrefsKept, Idles, Same
<1> QED
  BY <1>1, <1>2, <1>3, <1>4, <1>5, IdleProgress

-----------------------------------------------------------------------------
(* A call of startUploadRequest: what it reads fits the way the file is cut, *)
(* and it is then further on in the same way.                                *)
LEMMA TrackedBytes ==
    ASSUME NEW v \in Operations, NEW f \in Uploads, Bytes(v, f) > 0, NEW cut \in Cuts,
           cut.chunk \in {20, 40}, Track(v, f, cut), ~v.nextFirst
    PROVE  /\ v.pos < f.size /\ v.pos = cut.origin + v.part * cut.chunk
           /\ Bytes(v, f) = Less(cut.chunk, f.size - v.pos)
<1>1. v.pos \in Nat /\ f.size \in Nat /\ v.chunk = cut.chunk /\ cut.chunk \in Nat
  BY DEF Operations, Uploads, Track
<1>2. Bytes(v, f) = Less(cut.chunk, f.size - v.pos)
  BY <1>1 DEF Bytes, Less
<1>3. v.pos < f.size
  BY <1>1, <1>2 DEF Less
<1> QED
  BY <1>1, <1>2, <1>3 DEF Track

LEMMA RequestFits ==
    ASSUME NEW v \in Operations, NEW f \in Uploads, Bytes(v, f) > 0, NEW cut \in Cuts,
           cut.chunk \in {20, 40}, Track(v, f, cut), NEW r, NEW o, RequestFor(r, o, f, v)
    PROVE  Fits(r, cut)
<1> SUFFICES ASSUME Proper(cut) PROVE r.from = StartIn(cut, r.part) /\ r.bytes = LengthIn(cut, r.part)
  BY DEF Fits
<1>1. /\ cut.origin \in Int /\ cut.size = f.size /\ f.size \in Nat /\ v.chunk = cut.chunk
      /\ v.part \in Int /\ v.pos \in Nat /\ cut.chunk \in Nat
  BY DEF Cuts, Track, Operations, Uploads
<1>2. CASE v.nextFirst
  <2>1. r.part = 0 /\ r.from = 0 /\ r.bytes = HeadOf(v, f.big)
    BY <1>2 DEF RequestFor, Bytes
  <2>2. cut.origin = HeadOf(v, f.big) - cut.chunk /\ HeadOf(v, f.big) < cut.size
    BY <1>1, <1>2 DEF Track
  <2>3. HeadOf(v, f.big) \in Nat
    BY <1>1 DEF HeadOf, HeadLength
  <2> QED
    BY <1>1, <2>1, <2>2, <2>3 DEF StartIn, LengthIn, Less
<1>3. CASE ~v.nextFirst
  <2>1. r.part = v.part /\ r.from = v.pos /\ r.bytes = Bytes(v, f)
    BY <1>3 DEF RequestFor
  <2>2. v.pos = cut.origin + v.part * cut.chunk /\ Bytes(v, f) = Less(cut.chunk, f.size - v.pos)
    BY <1>3, TrackedBytes
  <2>3. v.part = 0 => v.pos = cut.origin
    BY <1>1, <2>2
  <2>4. v.part = 0 => cut.origin = 0
    BY <1>1, <2>3 DEF Proper, HeadLength
  <2> QED
    BY <1>1, <2>1, <2>2, <2>3, <2>4 DEF StartIn, LengthIn
<1> QED
  BY <1>2, <1>3

(* The same when the file has just been opened, which may have been by a     *)
(* call that comes after cancel.                                             *)
LEMMA OpeningFits ==
    ASSUME NEW v \in Operations, NEW f \in Uploads, v.chunk \in {20, 40}, Bytes(v, f) > 0,
           v.nextFirst => v.pos = 0 /\ v.part >= 1, NEW r, NEW o, RequestFor(r, o, f, v)
    PROVE  Fits(r, Cut(v, f))
<1> DEFINE cut == Cut(v, f)
<1>1. /\ cut.origin = v.pos - v.part * v.chunk /\ cut.size = f.size /\ cut.chunk = v.chunk
      /\ v.part \in Int /\ v.pos \in Nat /\ f.size \in Nat
  BY DEF Cut, Operations, Uploads
<1> HIDE DEF cut
<1>2. v.part * v.chunk \in Int /\ cut.origin + v.part * v.chunk = v.pos
  BY <1>1
<1> SUFFICES ASSUME Proper(cut) PROVE r.from = StartIn(cut, r.part) /\ r.bytes = LengthIn(cut, r.part)
  BY DEF Fits, cut
<1>3. CASE v.nextFirst
  <2>1. CASE v.chunk = 20
    BY <1>1, <1>3, <2>1 DEF Proper, HeadLength
  <2>2. CASE v.chunk = 40
    BY <1>1, <1>3, <2>2 DEF Proper, HeadLength
  <2> QED
    BY <2>1, <2>2
<1>4. CASE ~v.nextFirst
  <2>1. r.part = v.part /\ r.from = v.pos /\ r.bytes = Less(cut.chunk, f.size - v.pos)
    BY <1>1, <1>4 DEF RequestFor, Bytes, Less
  <2>2. v.part = 0 => v.pos = cut.origin
    BY <1>1
  <2>3. v.part = 0 => cut.origin = 0
    BY <1>1, <2>2 DEF Proper, HeadLength
  <2> QED
    BY <1>1, <1>2, <2>1, <2>2, <2>3 DEF StartIn, LengthIn
<1> QED
  BY <1>3, <1>4

LEMMA ReadTracks ==
    ASSUME NEW v \in Operations, NEW f \in Uploads, Reads(v, f), NEW cut \in Cuts,
           cut.chunk \in {20, 40}, Track(v, f, cut), v.est => v.avail <= f.size,
           v.later => v.part >= 1
    PROVE  Track(ReadPart(v, f), f, cut)
<1> DEFINE w == ReadPart(v, f)
           done == EndOfFile(v, f) /\ HeadIsDue(v, f)
<1>1. Bytes(v, f) > 0 /\ ~Waits(v)
  BY DEF Reads
<1>2. /\ SameFile(v, w) /\ Bytes(v, f) \in Nat
      /\ w.later = (v.later /\ ~Ends(v, f)) /\ w.last = EndOfFile(v, f)
      /\ w.nextFirst = (HeadIsDue(v, f) /\ ~EndOfFile(v, f))
      /\ w.part = (IF done THEN v.parts ELSE IF v.nextFirst THEN 1 ELSE v.part + 1)
      /\ w.pos = (IF done THEN f.size ELSE IF v.nextFirst THEN Bytes(v, f) ELSE v.pos + Bytes(v, f))
      /\ w.read = v.read + Bytes(v, f)
  BY <1>1, ReadFields
<1>3. w.chunk = v.chunk /\ w.est = v.est
  BY <1>2 DEF SameFile
<1> HIDE DEF w
<1>4. /\ v.pos \in Nat /\ v.read \in Nat /\ v.part \in Int /\ f.size \in Nat /\ cut.origin \in Int
      /\ cut.chunk \in Nat /\ v.chunk = cut.chunk /\ cut.size = f.size /\ v.avail \in Nat
  BY DEF Operations, Uploads, Cuts, Track
<1>5. ~v.nextFirst => /\ v.pos < f.size /\ v.pos = cut.origin + v.part * cut.chunk
                      /\ Bytes(v, f) = Less(cut.chunk, f.size - v.pos)
  BY <1>1, TrackedBytes
<1>6. cut.origin + (v.part + 1) * cut.chunk = (cut.origin + v.part * cut.chunk) + cut.chunk
  <2>1. CASE cut.chunk = 20
    BY <1>4, <2>1
  <2>2. CASE cut.chunk = 40
    BY <1>4, <2>2
  <2> QED
    BY <2>1, <2>2
<1>7. w.nextFirst \/ w.pos = cut.origin + w.part * cut.chunk \/ w.pos >= f.size
  <2>1. CASE done
    BY <1>2, <1>4, <2>1
  <2>2. CASE ~done /\ v.nextFirst
    BY <1>2, <2>2 DEF HeadIsDue
  <2>3. CASE ~done /\ ~v.nextFirst
    <3>1. w.pos = v.pos + Bytes(v, f) /\ w.part = v.part + 1
      BY <1>2, <2>3
    <3>2. Bytes(v, f) = cut.chunk \/ v.pos + Bytes(v, f) = f.size
      BY <1>4, <1>5, <2>3 DEF Less
    <3> QED
      BY <1>4, <1>5, <1>6, <2>3, <3>1, <3>2
  <2> QED
    BY <2>1, <2>2, <2>3
<1>8. HeadOf(w, f.big) = HeadOf(v, f.big) /\ HeadOf(v, f.big) \in Nat
  BY <1>3, <1>4 DEF HeadOf, HeadLength
<1>9. w.later \/ w.nextFirst => cut.origin = HeadOf(v, f.big) - cut.chunk
  BY <1>2 DEF HeadIsDue, Track
<1>10. w.nextFirst => HeadOf(v, f.big) < f.size
  <2>1. CASE v.nextFirst
    BY <2>1 DEF Track
  <2>2. CASE ~v.nextFirst /\ v.later
    <3>1. v.part >= 1 /\ cut.origin = HeadOf(v, f.big) - cut.chunk
      BY <2>2 DEF Track
    <3>2. v.part * cut.chunk >= cut.chunk
      <4>1. CASE cut.chunk = 20
        BY <1>4, <3>1, <4>1
      <4>2. CASE cut.chunk = 40
        BY <1>4, <3>1, <4>2
      <4> QED
        BY <4>1, <4>2
    <3>3. v.part * cut.chunk \in Int
      BY <1>4
    <3> QED
      BY <1>4, <1>5, <1>8, <2>2, <3>1, <3>2, <3>3
  <2>3. CASE ~v.nextFirst /\ ~v.later
    BY <1>2, <2>3 DEF HeadIsDue
  <2> QED
    BY <2>1, <2>2, <2>3
<1>11. w.est => w.pos = w.read /\ ~w.nextFirst /\ ~w.last /\ (~w.later => cut.origin = 0)
  <2> SUFFICES ASSUME v.est
               PROVE  w.pos = w.read /\ ~w.nextFirst /\ ~w.last /\ (~w.later => cut.origin = 0)
    BY <1>3
  <2>1. v.pos = v.read /\ ~v.nextFirst /\ ~v.last /\ (~v.later => cut.origin = 0)
    BY DEF Track
  <2>2. v.pos + cut.chunk <= f.size
    BY <1>1, <1>4, <2>1 DEF Waits
  <2>3. Bytes(v, f) = v.chunk
    BY <1>4, <1>5, <2>1, <2>2 DEF Less
  <2>4. ~Ends(v, f)
    BY <2>1, <2>3 DEF Ends
  <2>5. ~EndOfFile(v, f) /\ ~HeadIsDue(v, f)
    BY <2>1, <2>4 DEF EndOfFile, HeadIsDue
  <2> QED
    BY <1>2, <1>4, <2>1, <2>3, <2>4, <2>5
<1> QED
  BY <1>3, <1>4, <1>7, <1>8, <1>9, <1>10, <1>11 DEF Track, w

-----------------------------------------------------------------------------
(* Opening the file, under a new identifier or one from the preferences.     *)
NewOne(u, f, v) ==
    /\ v.id = Len(made) + 1 /\ v.savedPart = u.part /\ v.last = u.last
    /\ u.later => v.pos = HeadOf(v, f.big) /\ v.read = v.pos /\ v.part = 1
    /\ ~u.later => v.pos = 0 /\ v.read = u.read /\ v.part = u.part

GoneOn(u, f, saved, v) ==
    /\ ~u.later /\ ~u.nextFirst /\ ~u.est /\ v.id = saved.id /\ saved.size = f.size
    /\ \/ v.pos = 0 /\ v.part = u.part /\ v.savedPart = u.part
       \/ saved.uploaded > 0 /\ v.savedPart = saved.uploaded \div v.chunk

Expired(u, saved) == [u EXCEPT !.id = saved.id, !.pos = 0, !.savedPart = u.part]

LEMMA ExpiredIs ==
    ASSUME NEW u \in Operations, NEW saved \in Preferences
    PROVE  LET v == Expired(u, saved)
           IN /\ v \in Operations /\ SameRest(u, v)
              /\ v.id = saved.id /\ v.pos = 0 /\ v.read = u.read /\ v.part = u.part
              /\ v.savedPart = u.part /\ v.last = u.last
<1> DEFINE v == Expired(u, saved)
<1>1. /\ v.id = saved.id /\ v.pos = 0 /\ v.read = u.read /\ v.part = u.part
      /\ v.savedPart = u.part /\ v.last = u.last /\ SameRest(u, v)
  BY DEF Expired, Operations, SameRest
<1>2. Shaped(v)
  BY DEF Expired, Shaped, Operations
<1>3. Fields(u) /\ saved.id \in Nat
  BY OperationForm DEF Preferences
<1> HIDE DEF v
<1>4. Fields(v)
  BY <1>1, <1>3 DEF Fields, SameRest
<1>5. v \in Operations
  BY <1>2, <1>4, OperationForm
<1> QED
  BY <1>1, <1>5 DEF v

LEMMA OpenedIs ==
    ASSUME Inv, NEW o \in Ids, NEW v \in Opened(o)
    PROVE  /\ Opens(op[o], Of(o), v) /\ v.chunk \in {20, 40} /\ v.cached = op[o].cached
           /\ NewOne(op[o], Of(o), v) \/ GoneOn(op[o], Of(o), prefs[Of(o).loc], v)
<1> DEFINE u     == op[o]
           f     == Of(o)
           x     == Sized(u, f)
           saved == prefs[f.loc]
<1>1. u \in Operations /\ f \in Uploads /\ Len(made) \in Nat /\ saved \in Preferences
  BY LoaderState, StageState
<1>2. Opens(u, f, v)
  BY <1>1, OpenedOpens
<1>3. /\ x \in Operations /\ x.chunk \in {20, 40} /\ x.chunk \in Nat
      /\ x.total = (IF u.est THEN f.estimate ELSE f.size) /\ x.est = u.est /\ x.read = u.read
      /\ x.part = u.part /\ x.last = u.last /\ x.nextFirst = u.nextFirst /\ x.later = u.later
      /\ x.cached = u.cached
  BY <1>1, SizedFields, ChunkType
<1>4. \/ v = Renewed(x, f)
      \/ /\ ~x.later /\ ~x.nextFirst /\ ~x.est /\ saved.size = x.total
         /\ \/ saved.uploaded > 0 /\ v = Resumed(x, f, saved)
            \/ v = [x EXCEPT !.id = saved.id, !.pos = 0, !.savedPart = x.part]
  BY DEF Opened
<1> HIDE DEF x, saved, u, f
<1>5. CASE v = Renewed(x, f)
  <2>1. /\ SameRest(x, v) /\ v.id = Len(made) + 1 /\ v.savedPart = x.part /\ v.last = x.last
        /\ x.later => v.pos = HeadOf(x, f.big) /\ v.read = HeadOf(x, f.big) /\ v.part = 1
        /\ ~x.later => v.pos = 0 /\ v.read = x.read /\ v.part = x.part
    BY <1>1, <1>3, <1>5, RenewedFields
  <2>2. v.chunk = x.chunk /\ v.cached = x.cached /\ HeadOf(v, f.big) = HeadOf(x, f.big)
    BY <2>1 DEF SameRest, HeadOf
  <2>3. NewOne(u, f, v)
    BY <1>3, <2>1, <2>2 DEF NewOne
  <2> QED
    BY <1>2, <1>3, <2>2, <2>3 DEF u, f
<1>6. CASE /\ ~x.later /\ ~x.nextFirst /\ ~x.est /\ saved.size = x.total
           /\ saved.uploaded > 0 /\ v = Resumed(x, f, saved)
  <2>1. /\ SameRest(x, v) /\ v.id = saved.id /\ v.savedPart = saved.uploaded \div x.chunk
    BY <1>1, <1>3, <1>6, ResumedFields
  <2>2. v.chunk = x.chunk /\ v.cached = x.cached
    BY <2>1 DEF SameRest
  <2>3. GoneOn(u, f, saved, v)
    BY <1>3, <1>6, <2>1, <2>2 DEF GoneOn
  <2> QED
    BY <1>2, <1>3, <2>2, <2>3 DEF u, f, saved
<1>7. CASE /\ ~x.later /\ ~x.nextFirst /\ ~x.est /\ saved.size = x.total
           /\ v = [x EXCEPT !.id = saved.id, !.pos = 0, !.savedPart = x.part]
  <2>1. /\ SameRest(x, v) /\ v.id = saved.id /\ v.pos = 0 /\ v.part = x.part /\ v.savedPart = x.part
    <3>1. x \in Operations /\ saved \in Preferences
      BY <1>1, <1>3
    <3>2. v = Expired(x, saved)
      BY <1>7 DEF Expired
    <3>3. /\ v \in Operations /\ SameRest(x, v)
          /\ v.id = saved.id /\ v.pos = 0 /\ v.read = x.read /\ v.part = x.part
          /\ v.savedPart = x.part /\ v.last = x.last
      BY ONLY <3>1, <3>2, ExpiredIs
    <3> QED
      BY ONLY <3>3
  <2>2. v.chunk = x.chunk /\ v.cached = x.cached
    BY <2>1 DEF SameRest
  <2>3. GoneOn(u, f, saved, v)
    BY <1>3, <1>7, <2>1 DEF GoneOn
  <2> QED
    BY <1>2, <1>3, <2>2, <2>3 DEF u, f, saved
<1> QED
  BY <1>4, <1>5, <1>6, <1>7

(* The identifier gets the way in which the file is cut.                     *)
LEMMA UsesGrows ==
    ASSUME Inv, NEW v \in Operations, v.id <= Len(made) + 1, NEW f \in Uploads, made' = Uses(v, f)
    PROVE  /\ Len(made') = (IF v.id > Len(made) THEN Len(made) + 1 ELSE Len(made))
           /\ \A i \in 1..Len(made) : made[i].cuts \subseteq made'[i].cuts
           /\ \A i \in 1..Len(made) : i # v.id => made'[i] = made[i]
           /\ v.id \in 1..Len(made) => made'[v.id].cuts = made[v.id].cuts \cup {Cut(v, f)}
           /\ v.id = Len(made) + 1 => made'[v.id].cuts = {Cut(v, f)}
<1>1. made \in Seq(Identifiers) /\ Len(made) \in Nat /\ v.id \in Nat
  BY StageState DEF Operations
<1>2. CASE v.id > Len(made)
  <2> DEFINE x == [cuts |-> {Cut(v, f)}, early |-> v.est /\ ~v.later /\ ~f.enc]
  <2>1. made' = Append(made, x) /\ x.cuts = {Cut(v, f)}
    BY <1>2 DEF Uses
  <2> HIDE DEF x
  <2>2. /\ Len(made') = Len(made) + 1 /\ made'[Len(made) + 1] = x
        /\ \A i \in 1..Len(made) : made'[i] = made[i]
    BY ONLY <1>1, <2>1
  <2>3. v.id = Len(made) + 1
    BY <1>1, <1>2
  <2> QED
    BY <1>1, <1>2, <2>1, <2>2, <2>3
<1>3. CASE ~(v.id > Len(made))
  <2> DEFINE cuts == made[v.id].cuts \cup {Cut(v, f)}
             x    == [made[v.id] EXCEPT !.cuts = cuts]
  <2>1. made' = [made EXCEPT ![v.id] = x]
    BY <1>3 DEF Uses
  <2>2. v.id \in 1..Len(made) => x.cuts = cuts
    BY <1>1 DEF Identifiers
  <2> HIDE DEF x
  <2>3. /\ Len(made') = Len(made)
        /\ \A i \in 1..Len(made) : i # v.id => made'[i] = made[i]
        /\ v.id \in 1..Len(made) => made'[v.id] = x
    BY <1>1, <2>1
  <2>4. \A i \in 1..Len(made) : made[i].cuts \subseteq made'[i].cuts
    BY <2>2, <2>3
  <2> QED
    BY <1>1, <1>3, <2>2, <2>3, <2>4
<1> QED
  BY <1>2, <1>3

-----------------------------------------------------------------------------
(* What such a call leaves.                                                  *)
LEMMA CallsLeave ==
    ASSUME Inv, Inv', Apartness, Numbered, NEW o \in Ids, NEW v, Calls(o, v)
    PROVE  /\ Grows /\ v.id <= Len(made) + 1
           /\ op[o].open => /\ op[o].state = 1 /\ v = op[o] /\ made' = made /\ mixed' = mixed
                            /\ prefs' = prefs
           /\ ~op[o].open => v \in Opened(o) /\ made' = Uses(v, Of(o))
<1>1. v \in Operations /\ Of(o) \in Uploads /\ Len(made) \in Nat
  BY CallFields, StageState DEF Calls
<1>2. /\ world' = world /\ server' = server /\ mixed \subseteq mixed' /\ at.o = o
      /\ made' = (IF op[o].open THEN made ELSE Uses(v, Of(o)))
      /\ v \in IF op[o].open THEN {op[o]} ELSE Opened(o)
  BY DEF Calls
<1>3. CASE op[o].open
  <2>1. v = op[o] /\ made' = made /\ op[o].id <= Len(made)
    BY <1>2, <1>3 DEF Numbered
  <2>2. op[o].state = 1
    <3>1. at.o = o /\ (op[o].state = 1 \/ at.late)
      BY DEF Calls
    <3> QED
      BY <1>3, <3>1 DEF Apartness, LateStopped
  <2>3. prefs' = prefs /\ mixed' = mixed
    <3>1. ~(v.id > Len(made))
      <4>1. \A a, b \in Nat : a <= b => ~(a > b)
        OBVIOUS
      <4>2. v.id \in Nat
        BY <1>1, OperationForm DEF Fields
      <4> QED
        BY <1>1, <2>1, <4>1, <4>2
    <3> QED
      BY <1>3, <3>1 DEF Calls
  <2>4. Grows
    BY <1>1, <1>2, <2>1 DEF Grows, On
  <2>5. v.id <= Len(made) + 1
    <3>1. v.id \in Nat /\ v.id <= Len(made)
      BY <1>1, <2>1, OperationForm DEF Fields
    <3> QED
      BY <1>1, <3>1
  <2> QED
    BY <1>3, <2>1, <2>2, <2>3, <2>4, <2>5
<1>4. CASE ~op[o].open
  <2>1. v \in Opened(o) /\ made' = Uses(v, Of(o))
    BY <1>2, <1>4
  <2>2. v.id <= Len(made) + 1
    <3>1. prefs[Of(o).loc].id <= Len(made) /\ prefs[Of(o).loc].id \in Nat
      BY StageState DEF Numbered, Preferences
    <3> QED
      BY <1>1, <2>1, <3>1, OpenedIs DEF NewOne, GoneOn
  <2>3. Grows
    BY <1>1, <1>2, <2>1, <2>2, UsesGrows DEF Grows, On
  <2> QED
    BY <1>4, <2>1, <2>2, <2>3
<1> QED
  BY <1>3, <1>4

LEMMA CallsFields ==
    ASSUME Inv, Inv', NEW o \in Ids, NEW v, Calls(o, v)
    PROVE  /\ v \in Operations /\ Of(o) \in Uploads /\ op[o] \in Operations
           /\ op'[o] = After(v, Of(o)) /\ op'[o] \in Operations
           /\ (\A p \in Ids : p # o => op'[p] = op[p])
           /\ op'[o].state = op[o].state /\ op'[o].est = v.est /\ v.est = op[o].est /\ op'[o].open
           /\ op'[o].id = v.id /\ op'[o].guid = op[o].guid /\ v.guid = op[o].guid
           /\ op'[o].savedPart = v.savedPart /\ op'[o].cached = op[o].cached /\ v.avail = op[o].avail
<1> DEFINE w == After(v, Of(o))
<1>1. /\ v \in Operations /\ w \in Operations /\ w.open
      /\ w.state = op[o].state /\ w.est = v.est /\ v.est = op[o].est /\ v.avail = op[o].avail
      /\ w.id = v.id /\ w.guid = v.guid /\ w.savedPart = v.savedPart /\ w.cached = v.cached
      /\ op[o].open => v = op[o]
  BY CallFields DEF Calls
<1>2. op \in [Ids -> Operations] /\ Of(o) \in Uploads
  BY LoaderState, StageState
<1>3. op' = [op EXCEPT ![o] = w]
  BY DEF Calls
<1> HIDE DEF w
<1>4. op'[o] = w /\ \A p \in Ids : p # o => op'[p] = op[p]
  BY <1>2, <1>3
<1>5. v.guid = op[o].guid /\ v.cached = op[o].cached
  <2>1. CASE op[o].open
    BY <1>1, <2>1
  <2>2. CASE ~op[o].open
    <3>1. v \in Opened(o)
      BY <2>2 DEF Calls
    <3> QED
      BY <3>1, OpenedIs DEF Opens
  <2> QED
    BY <2>1, <2>2
<1> QED
  BY <1>1, <1>2, <1>4, <1>5 DEF w

(* Of a file of no length nothing is read.                                   *)
LEMMA NothingToRead ==
    ASSUME NEW v \in Operations, NEW f, f.size = 0, ~v.nextFirst
    PROVE  ~(Bytes(v, f) > 0)
<1>1. v.pos \in Nat /\ v.chunk \in Nat
  BY DEF Operations
<1> QED
  BY <1>1 DEF Bytes

(* When an upload that runs opens its file, it has nothing under way and has *)
(* kept nothing.                                                             *)
LEMMA OpensAnew ==
    ASSUME Inv, NEW o \in Ids, op[o].state = 1, ~op[o].open
    PROVE  /\ Rewound(op[o])
           /\ \A r \in wire : ~(r.o = o /\ r.guid = op[o].guid)
           /\ \A i \in DOMAIN stage :
                 ~(stage[i].do = "answer" /\ stage[i].o = o /\ stage[i].r.guid = op[o].guid)
<1> DEFINE u == op[o]
           m == Mine(wire, o)
<1>1. /\ stage \in Seq(StageTasks) /\ IsFiniteSet(m) /\ u \in Operations
      /\ View(o, Of(o), u, m, stage, Kind(o, at), Pending(o, at))
  BY LoaderState DEF Typed
<1>2. Rewound(u) /\ u.busy = Flying(o, u.guid, m, stage)
  BY <1>1 DEF View, Rewinding, Counted
<1>3. /\ Cardinality(Sent(m, u.guid)) \in Nat /\ IsFiniteSet(Sent(m, u.guid))
      /\ Count(stage, Answers(o, u.guid)) \in Nat
      /\ IsFiniteSet({i \in DOMAIN stage : stage[i] \in Answers(o, u.guid)})
  BY <1>1, SentFinite, CountType
<1>4. Cardinality(Sent(m, u.guid)) = 0 /\ Count(stage, Answers(o, u.guid)) = 0
  BY <1>2, <1>3 DEF Flying, Rewound
<1>5. Sent(m, u.guid) = {}
  BY <1>3, <1>4, FS_EmptySet
<1>6. {i \in DOMAIN stage : stage[i] \in Answers(o, u.guid)} = {}
  BY <1>3, <1>4, FS_EmptySet DEF Count
<1>7. \A r \in wire : ~(r.o = o /\ r.guid = u.guid)
  BY <1>5 DEF Sent, Mine
<1>8. ASSUME NEW i \in DOMAIN stage, stage[i].do = "answer", stage[i].o = o, stage[i].r.guid = u.guid
      PROVE  FALSE
  <2>1. stage[i] \in StageTasks
    BY <1>1
  <2>2. stage[i].r.o = o
    BY <1>8, <2>1, StageTaskFields
  <2>3. stage[i] \in Answers(o, u.guid)
    BY <1>8, <2>1, <2>2 DEF Answers
  <2> QED
    BY <1>6, <2>3
<1> QED
  BY <1>2, <1>7, <1>8

(* The operation with its file open is where its file says.                  *)
LEMMA OpenTracks ==
    ASSUME Inv, Inv', Apartness, Progress, NEW o \in Ids, NEW v, Calls(o, v), op[o].state = 1
    PROVE  /\ Tracks(v, Of(o), made') /\ v.id <= Len(made') /\ (v.id # 0 => v.chunk \in {20, 40})
           /\ v.later => v.part >= 1
<1> DEFINE f == Of(o)
           u == op[o]
<1>1. Fitting /\ Numbered /\ Resumable /\ Known(o)
  BY DEF Progress
<1>2. v \in Operations /\ u \in Operations /\ f \in Uploads /\ Len(made) \in Nat /\ Flags(u)
  BY CallsFields, LoaderState, StageState DEF View
<1>3. CASE u.open
  <2>1. v = u /\ made' = made
    BY <1>1, <1>3, CallsLeave
  <2>2. Tracks(u, f, made) /\ u.id <= Len(made)
    BY <1>1, <1>3 DEF Known, Running, Numbered
  <2>3. u.later => u.part >= 1
    BY <1>2, <1>3 DEF Flags
  <2>4. u.id # 0 => u.chunk \in {20, 40}
    <3> SUFFICES ASSUME u.id # 0 PROVE u.chunk \in {20, 40}
      OBVIOUS
    <3> DEFINE id == u.id
    <3>0. id \in Nat
      BY <1>2 DEF Operations
    <3>1. id \in 1..Len(made)
      <4> HIDE DEF id
      <4>1. id <= Len(made) /\ id # 0
        BY <2>2 DEF id
      <4> QED
        BY ONLY <1>2, <3>0, <4>1
    <3>2. PICK cut \in made[u.id].cuts : Track(u, f, cut)
      BY <2>2 DEF Tracks
    <3>3. Ways(made[u.id].cuts)
      BY <1>1, <3>1 DEF Numbered
    <3> QED
      BY <3>2, <3>3 DEF Track, Ways
  <2> QED
    BY <2>1, <2>2, <2>3, <2>4
<1>4. CASE ~u.open
  <2>1. v \in Opened(o) /\ made' = Uses(v, f) /\ v.id <= Len(made) + 1
    BY <1>1, <1>4, CallsLeave
  <2>2. Rewound(u)
    BY <1>4, OpensAnew
  <2>3. /\ Opens(u, f, v) /\ v.chunk \in {20, 40}
        /\ NewOne(u, f, v) \/ GoneOn(u, f, prefs[f.loc], v)
    BY <2>1, OpenedIs
  <2>4. v.later = u.later /\ ~v.nextFirst /\ v.est = u.est /\ (u.later => v.part = 1)
    BY <2>2, <2>3 DEF Opens, Rewound
  <2>5. v.pos \in Nat /\ v.part \in Int /\ v.id \in Nat /\ f.size \in Nat /\ HeadOf(v, f.big) \in Nat
    BY <1>2 DEF Operations, Uploads, HeadOf, HeadLength
  <2>6. CASE v.id = 0
    <3>1. GoneOn(u, f, prefs[f.loc], v)
      BY <1>2, <2>3, <2>6 DEF NewOne
    <3>2. f.size = 0
      BY <1>1, <1>2, <2>6, <3>1 DEF GoneOn, Numbered, Uploads, Locations
    <3>3. Tracks(v, f, made')
      BY <2>4, <2>6, <3>1, <3>2 DEF Tracks, GoneOn
    <3>4. Len(made') \in Nat
      BY DEF Inv, Types, MadeType
    <3> QED
      BY <2>3, <2>4, <2>6, <3>3, <3>4
  <2>7. CASE v.id # 0
    <3>1. v.id \in 1..Len(made') /\ Cut(v, f) \in made'[v.id].cuts
      BY <1>2, <2>1, <2>5, <2>7, UsesGrows
    <3> DEFINE cut == Cut(v, f)
    <3>2. cut.size = f.size /\ cut.chunk = v.chunk /\ cut.origin = v.pos - v.part * v.chunk
      BY DEF Cut
    <3> HIDE DEF cut
    <3>3. v.part * v.chunk \in Int /\ v.pos = cut.origin + v.part * cut.chunk
      BY <2>3, <2>5, <3>2
    <3>4. v.later => cut.origin = HeadOf(v, f.big) - cut.chunk
      <4> SUFFICES ASSUME v.later PROVE cut.origin = HeadOf(v, f.big) - cut.chunk
        OBVIOUS
      <4>1. v.pos = HeadOf(v, f.big) /\ v.part = 1
        BY <2>3, <2>4 DEF NewOne, GoneOn
      <4> QED
        BY <2>3, <2>5, <3>2, <4>1
    <3>5. v.est => v.pos = v.read /\ ~v.last /\ (~v.later => cut.origin = 0)
      <4> SUFFICES ASSUME v.est PROVE v.pos = v.read /\ ~v.last /\ (~v.later => cut.origin = 0)
        OBVIOUS
      <4>1. NewOne(u, f, v)
        BY <2>3, <2>4 DEF GoneOn
      <4>2. ~v.last /\ v.pos = v.read
        BY <2>2, <2>4, <4>1 DEF NewOne, Rewound
      <4>3. ~v.later => v.pos = 0 /\ v.part = 0
        BY <2>2, <2>4, <4>1 DEF NewOne, Rewound
      <4> QED
        BY <2>3, <3>2, <4>2, <4>3
    <3>6. Track(v, f, cut)
      BY <2>4, <3>2, <3>3, <3>4, <3>5 DEF Track
    <3> QED
      BY <2>3, <2>4, <2>7, <3>1, <3>6 DEF Tracks, cut
  <2> QED
    BY <2>6, <2>7
<1> QED
  BY <1>3, <1>4

LEMMA CallsTracks ==
    ASSUME Inv, Inv', Apartness, Progress, NEW o \in Ids, NEW v, Calls(o, v), op[o].state = 1
    PROVE  Tracks(op'[o], Of(o), made')
<1> DEFINE f == Of(o)
<1>1. /\ v \in Operations /\ f \in Uploads /\ op'[o] = After(v, f) /\ op'[o].id = v.id
      /\ v.est = op[o].est /\ v.avail = op[o].avail
  BY CallsFields
<1>2. /\ Tracks(v, f, made') /\ v.id <= Len(made') /\ (v.id # 0 => v.chunk \in {20, 40})
      /\ v.later => v.part >= 1
  BY OpenTracks
<1>3. CASE ~Reads(v, f)
  BY <1>1, <1>2, <1>3 DEF After
<1>4. CASE Reads(v, f)
  <2>1. op'[o] = ReadPart(v, f) /\ Bytes(v, f) > 0
    BY <1>1, <1>4 DEF After, Reads
  <2>2. v.id # 0
    BY <1>1, <1>2, <2>1, NothingToRead DEF Tracks
  <2>3. PICK cut \in made'[v.id].cuts : Track(v, f, cut)
    BY <1>2, <2>2 DEF Tracks
  <2>4. cut \in Cuts /\ cut.chunk \in {20, 40}
    <3>1. v.id \in 1..Len(made') /\ made' \in Seq(Identifiers)
      <4>1. v.id \in Nat
        BY <1>1, OperationForm DEF Fields
      <4>2. made' \in Seq(Identifiers)
        BY DEF Inv, Types, MadeType
      <4>3. Len(made') \in Nat
        BY <4>2
      <4> QED
        BY <1>2, <2>2, <4>1, <4>2, <4>3
    <3>2. made'[v.id] \in Identifiers
      BY <3>1
    <3> QED
      BY <1>2, <2>2, <2>3, <3>2 DEF Identifiers, Track
  <2>5. v.est => v.avail <= f.size
    BY <1>1 DEF Apartness, OpsHold
  <2>6. Track(ReadPart(v, f), f, cut)
    BY <1>1, <1>2, <1>4, <2>3, <2>4, <2>5, ReadTracks
  <2> QED
    BY <1>1, <2>1, <2>2, <2>3, <2>6 DEF Tracks
<1> QED
  BY <1>3, <1>4

(* The identifier with which the file has been opened has this way to cut    *)
(* it, and none but an empty file goes on without an identifier.             *)
LEMMA OpenedUses ==
    ASSUME Inv, Inv', Apartness, Numbered, NEW o \in Ids, NEW v, Calls(o, v), ~op[o].open
    PROVE  /\ Len(made') = (IF v.id = Len(made) + 1 THEN Len(made) + 1 ELSE Len(made))
           /\ v.id <= Len(made') /\ v.chunk \in {20, 40}
           /\ \A i \in 1..Len(made) : i # v.id => made'[i] = made[i]
           /\ v.id \in 1..Len(made) => made'[v.id].cuts = made[v.id].cuts \cup {Cut(v, Of(o))}
           /\ v.id = Len(made) + 1 => made'[v.id].cuts = {Cut(v, Of(o))}
           /\ v.id # 0 => v.id \in 1..Len(made') /\ Cut(v, Of(o)) \in made'[v.id].cuts
           /\ v.id = 0 => Of(o).size = 0 /\ ~v.nextFirst
           /\ Opens(op[o], Of(o), v)
           /\ \/ NewOne(op[o], Of(o), v)
              \/ GoneOn(op[o], Of(o), prefs[Of(o).loc], v) /\ v.id <= Len(made)
<1> DEFINE f == Of(o)
           u == op[o]
           id == v.id
           n == Len(made)
<1>1. v \in Operations /\ f \in Uploads /\ f.loc \in Locations /\ n \in Nat
  BY CallsFields, StageState
<1>2. v \in Opened(o) /\ made' = Uses(v, f) /\ id <= n + 1
  BY CallsLeave
<1>3. /\ Opens(u, f, v) /\ v.chunk \in {20, 40}
      /\ NewOne(u, f, v) \/ GoneOn(u, f, prefs[f.loc], v)
  BY <1>2, OpenedIs
<1>4. GoneOn(u, f, prefs[f.loc], v) => id <= n /\ (id = 0 => f.size = 0 /\ ~v.nextFirst)
  BY <1>1, <1>3 DEF GoneOn, Numbered, Opens
<1>5. NewOne(u, f, v) => id = n + 1
  BY DEF NewOne
<1>6. id \in Nat
  BY <1>1 DEF Operations
<1>7. /\ Len(made') = (IF id > n THEN n + 1 ELSE n)
      /\ \A i \in 1..n : i # id => made'[i] = made[i]
      /\ id \in 1..n => made'[id].cuts = made[id].cuts \cup {Cut(v, f)}
      /\ id = n + 1 => made'[id].cuts = {Cut(v, f)}
  BY <1>1, <1>2, UsesGrows
<1> HIDE DEF f, u, id, n
<1>8. Len(made') = (IF id = n + 1 THEN n + 1 ELSE n) /\ id <= Len(made')
  BY ONLY <1>1, <1>2, <1>6, <1>7
<1>9. id # 0 => id \in 1..Len(made') /\ Cut(v, f) \in made'[id].cuts
  BY ONLY <1>1, <1>2, <1>6, <1>7
<1>10. id = 0 => f.size = 0 /\ ~v.nextFirst
  BY <1>1, <1>3, <1>4, <1>5
<1> QED
  BY <1>3, <1>4, <1>7, <1>8, <1>9, <1>10 DEF f, u, id, n

(* What is read fits a way in which the file is cut.                         *)
LEMMA CallsFit ==
    ASSUME Inv, Inv', Apartness, Progress, NEW o \in Ids, NEW v, Calls(o, v), Reads(v, Of(o)),
           NEW r, r = Request(o, v)
    PROVE  Fit(r)' /\ r.o = o /\ r.guid = op[o].guid /\ r.id = v.id
<1> DEFINE f == Of(o)
           u == op[o]
<1>1. Numbered
  BY DEF Progress
<1>2. /\ v \in Operations /\ f \in Uploads /\ v.guid = u.guid /\ o \in Nat /\ Flags(u)
  BY CallsFields, LoaderState DEF View
<1>3. Bytes(v, f) > 0
  BY DEF Reads
<1>4. RequestFor(r, o, f, v)
  BY <1>2, <1>3, RequestIs
<1>5. r.o = o /\ r.guid = v.guid /\ r.id = v.id /\ r.bytes > 0
  BY <1>3, <1>4 DEF RequestFor
<1>6. CASE u.state = 1
  <2>1. Tracks(v, f, made') /\ v.id <= Len(made')
    BY <1>6, OpenTracks
  <2>2. v.id # 0
    BY <1>2, <1>3, <2>1, NothingToRead DEF Tracks
  <2>3. PICK cut \in made'[v.id].cuts : Track(v, f, cut)
    BY <2>1, <2>2 DEF Tracks
  <2>4. v.id \in 1..Len(made')
    <3>1. v.id \in Nat /\ Len(made') \in Nat
      BY <1>2 DEF Operations, Inv, Types, MadeType
    <3> QED
      BY <2>1, <2>2, <3>1
  <2>5. cut \in Cuts
    <3>1. made' \in Seq(Identifiers)
      BY DEF Inv, Types, MadeType
    <3>2. made'[v.id] \in Identifiers
      BY <2>4, <3>1
    <3> QED
      BY <2>3, <3>2 DEF Identifiers
  <2>6. cut.chunk \in {20, 40}
    BY <1>6, <2>2, <2>3, OpenTracks DEF Track
  <2>7. Fits(r, cut)
    BY <1>2, <1>3, <1>4, <2>3, <2>5, <2>6, RequestFits
  <2> QED
    BY <1>2, <1>5, <2>3, <2>4, <2>7 DEF Fit
<1>7. CASE u.state # 1
  <2>1. ~u.open
    BY <1>1, <1>7, CallsLeave
  <2>2. /\ v.chunk \in {20, 40} /\ Opens(u, f, v)
        /\ v.id # 0 => v.id \in 1..Len(made') /\ Cut(v, f) \in made'[v.id].cuts
        /\ v.id = 0 => f.size = 0 /\ ~v.nextFirst
        /\ NewOne(u, f, v) \/ GoneOn(u, f, prefs[f.loc], v)
    BY <1>1, <2>1, OpenedUses
  <2>3. v.id # 0
    BY <1>2, <1>3, <2>2, NothingToRead
  <2>4. v.nextFirst => v.pos = 0 /\ v.part >= 1
    BY <1>2, <2>2 DEF NewOne, GoneOn, Opens, Flags
  <2>5. Fits(r, Cut(v, f))
    BY <1>2, <1>3, <1>4, <2>2, <2>4, OpeningFits
  <2> QED
    BY <1>2, <1>5, <2>2, <2>3, <2>5 DEF Fit
<1> QED
  BY <1>6, <1>7

(* The preferences, which get a new identifier when the file is not being    *)
(* written.                                                                  *)
LEMMA CallsPrefs ==
    ASSUME Inv, Inv', Apartness, Numbered, NEW o \in Ids, NEW v, Calls(o, v)
    PROVE  /\ \A l \in Locations :
                 \/ prefs'[l] = prefs[l]
                 \/ /\ l = Of(o).loc /\ ~op[o].open /\ v.id = Len(made) + 1
                    /\ prefs'[l].id = v.id /\ prefs'[l].uploaded = 0
           /\ v.id = Len(made) + 1 /\ ~v.later /\ ~v.nextFirst /\ ~v.est => prefs'[Of(o).loc].id = v.id
           /\ v.later => prefs' = prefs
<1> DEFINE f == Of(o)
           i == StoreFileUploadInfo(v)
<1>1. /\ v \in Operations /\ f.loc \in Locations /\ prefs \in [Locations -> Preferences]
      /\ Len(made) \in Nat /\ v.id \in Nat
  <2>1. v \in Operations
    BY CallsFields
  <2> QED
    BY <2>1, StageState, OperationForm DEF Fields
<1>2. i.id = v.id /\ i.uploaded = 0
  BY DEF StoreFileUploadInfo, NoPrefs
<1>3. v.id > Len(made) => v.id = Len(made) + 1 /\ ~op[o].open
  <2> DEFINE n == Len(made)
             id == v.id
             k == op[o].id
  <2>1. id <= n + 1 /\ k <= n /\ (op[o].open => id = k)
    BY CallsLeave DEF Numbered
  <2>2. id \in Nat /\ n \in Nat
    BY <1>1
  <2>3. k \in Nat
    BY CallsFields DEF Operations
  <2> HIDE DEF n, id, k
  <2>4. id > n => id = n + 1 /\ ~op[o].open
    BY ONLY <2>1, <2>2, <2>3
  <2> QED
    BY <2>4 DEF n, id
<1> HIDE DEF i
<1>4. prefs' = IF v.id > Len(made) /\ ~v.later /\ ~v.nextFirst /\ ~v.est
               THEN [prefs EXCEPT ![f.loc] = i] ELSE prefs
  BY DEF Calls, i
<1>5. CASE v.id > Len(made) /\ ~v.later /\ ~v.nextFirst /\ ~v.est
  BY <1>1, <1>2, <1>3, <1>4, <1>5
<1>6. CASE ~(v.id > Len(made) /\ ~v.later /\ ~v.nextFirst /\ ~v.est)
  BY <1>1, <1>4, <1>6
<1> QED
  BY <1>5, <1>6

LEMMA CallsNumbered ==
    ASSUME Inv, Inv', Apartness, Numbered, NEW o \in Ids, NEW v, Calls(o, v)
    PROVE  Numbered'
<1> DEFINE f == Of(o)
           u == op[o]
<1>1. /\ v \in Operations /\ v.id \in Nat /\ Len(made) \in Nat /\ f.loc \in Locations
      /\ op'[o].id = v.id /\ op'[o].est = u.est /\ v.est = u.est
      /\ \A p \in Ids : p # o => op'[p] = op[p]
  <2>1. /\ v \in Operations /\ op'[o].id = v.id /\ op'[o].est = u.est /\ v.est = u.est
        /\ \A p \in Ids : p # o => op'[p] = op[p]
    BY CallsFields
  <2> QED
    BY <2>1, StageState, OperationForm DEF Fields
<1>2. u.open => op'[o].started = u.started /\ v = u
  BY CallFields DEF Calls
<1>3. Ids' = Ids /\ Locations' = Locations /\ Len(made) <= Len(made') /\ Len(made') \in Nat
  BY CallsLeave, SameWorld DEF Grows, Inv, Types, MadeType
<1>4. v.id <= Len(made') /\ (u.est /\ ~u.open => v.id # 0)
  <2>1. CASE u.open
    BY <1>2, <2>1, CallsLeave DEF Numbered
  <2>2. CASE ~u.open
    BY <1>1, <2>2, OpenedUses DEF NewOne, GoneOn
  <2> QED
    BY <2>1, <2>2
<1>5. \A i \in 1..Len(made') : Ways(made'[i].cuts)
  <2>1. CASE u.open
    BY <2>1, CallsLeave DEF Numbered
  <2>2. CASE ~u.open
    <3> DEFINE c == Cut(v, f)
               n == Len(made)
               id == v.id
    <3>1. c.chunk \in {20, 40}
      BY <2>2, OpenedUses DEF Cut
    <3>2. /\ Len(made') = (IF id = n + 1 THEN n + 1 ELSE n)
          /\ \A i \in 1..n : i # id => made'[i] = made[i]
          /\ id \in 1..n => made'[id].cuts = made[id].cuts \cup {c}
          /\ id = n + 1 => made'[id].cuts = {c}
      BY <2>2, OpenedUses
    <3>3. \A i \in 1..n : Ways(made[i].cuts)
      BY DEF Numbered
    <3> HIDE DEF c, n, id
    <3>4. \A cuts : Ways(cuts) => Ways(cuts \cup {c})
      <4> SUFFICES ASSUME NEW cuts, Ways(cuts) PROVE Ways(cuts \cup {c})
        OBVIOUS
      <4>1. IsFiniteSet(cuts \cup {c})
        BY FS_AddElement DEF Ways
      <4> QED
        BY <3>1, <4>1 DEF Ways
    <3>5. Ways({c})
      BY <3>1, FS_Singleton DEF Ways
    <3>6. n \in Nat /\ id \in Nat
      BY <1>1 DEF n, id
    <3>7. ASSUME NEW i \in 1..Len(made') PROVE Ways(made'[i].cuts)
      <4>1. CASE i = n + 1
        <5>1. id = n + 1
          BY <3>2, <3>6, <4>1
        <5> QED
          BY <3>2, <3>5, <4>1, <5>1
      <4>2. CASE i \in 1..n
        BY <3>2, <3>3, <3>4, <4>2
      <4>3. i = n + 1 \/ i \in 1..n
        BY <3>2, <3>6
      <4> QED
        BY <4>1, <4>2, <4>3
    <3> QED
      BY <3>7
  <2> QED
    BY <2>1, <2>2
<1>6. \A p \in Ids : op'[p].id <= Len(made') /\ (op'[p].started /\ op'[p].est => op'[p].id # 0)
  <2>1. ASSUME NEW p \in Ids, p # o
        PROVE  op'[p].id <= Len(made') /\ (op'[p].started /\ op'[p].est => op'[p].id # 0)
    <3>1. op'[p].id \in Nat /\ op'[p] = op[p]
      BY <1>1, <1>3, <2>1 DEF Inv, Types, OpType, Operations
    <3> QED
      BY <1>1, <1>3, <3>1 DEF Numbered
  <2>2. op'[o].id <= Len(made') /\ (op'[o].started /\ op'[o].est => op'[o].id # 0)
    BY <1>1, <1>2, <1>4 DEF Numbered
  <2> QED
    BY <2>1, <2>2
<1>7. \A l \in Locations : prefs'[l].id <= Len(made') /\ (prefs'[l].id = 0 => prefs'[l].size = 0)
  <2> SUFFICES ASSUME NEW l \in Locations
               PROVE  prefs'[l].id <= Len(made') /\ (prefs'[l].id = 0 => prefs'[l].size = 0)
    OBVIOUS
  <2>1. prefs'[l].id \in Nat
    BY <1>3 DEF Inv, Types, PrefsType, Preferences
  <2>2. CASE prefs'[l] = prefs[l]
    BY <1>1, <1>3, <2>1, <2>2 DEF Numbered
  <2>3. CASE v.id = Len(made) + 1 /\ prefs'[l].id = v.id
    BY <1>1, <1>4, <2>3
  <2> QED
    BY <2>2, <2>3, CallsPrefs
<1> QED
  BY <1>3, <1>5, <1>6, <1>7 DEF Numbered

LEMMA CallsResumable ==
    ASSUME Inv, Inv', Apartness, Numbered, Resumable, NEW o \in Ids, NEW v, Calls(o, v)
    PROVE  Resumable'
<1>1. Grows /\ Locations' = Locations
  BY CallsLeave, SameWorld DEF Grows
<1>2. ASSUME NEW l \in Locations, NEW saved, saved = prefs'[l], saved.uploaded > 0
      PROVE  \A cut : Clean(l, saved.id, cut)' =>
                /\ cut.origin = 0
                /\ \A k \in 0..saved.uploaded \div cut.chunk - 1 :
                      On(saved.id, k)' /\ LengthIn(cut, k) = cut.chunk
  <2>1. saved = prefs[l] \/ saved.uploaded = 0
    BY <1>2, CallsPrefs
  <2> QED
    BY <1>1, <1>2, <2>1, ResumableStep
<1> QED
  BY <1>1, <1>2 DEF Resumable

LEMMA CallsGathers ==
    ASSUME Inv, Inv', Apartness, Progress, NEW o \in Ids, NEW v, Calls(o, v), Running(op'[o])
    PROVE  Gathers(o)'
<1> DEFINE u == op[o]
<1>1. Numbered /\ Known(o)
  BY DEF Progress
<1>2. /\ u.state = 1 /\ op'[o].id = v.id /\ op'[o].guid = u.guid /\ op'[o].cached = u.cached
  BY CallsFields DEF Running
<1>3. Grows /\ (u.open => v = u) /\ stage' = stage
  BY <1>1, CallsLeave DEF Calls
<1>4. u.open => Gathers(o)
  BY <1>1, <1>2 DEF Known, Running
<1>5. ~u.open => /\ u.cached = {}
                 /\ \A r \in wire : ~(r.o = o /\ r.guid = u.guid)
                 /\ \A i \in DOMAIN stage :
                      ~(stage[i].do = "answer" /\ stage[i].o = o /\ stage[i].r.guid = u.guid)
  BY <1>2, OpensAnew DEF Rewound
<1>6. ASSUME NEW r \in wire', r.o = o, r.guid = u.guid
      PROVE  r.id = v.id
  <2>1. CASE r \in wire
    BY <1>3, <1>4, <1>5, <1>6, <2>1 DEF Gathers
  <2>2. CASE Reads(v, Of(o)) /\ r = Request(o, v)
    BY <2>2, CallsFit
  <2> QED
    BY <2>1, <2>2 DEF Calls
<1>7. ASSUME NEW i \in DOMAIN stage', stage'[i].do = "answer", stage'[i].o = o,
             stage'[i].r.guid = u.guid
      PROVE  stage'[i].r.id = v.id
  BY <1>3, <1>4, <1>5, <1>7 DEF Gathers
<1>8. ASSUME NEW x \in u.cached PROVE x.id = v.id /\ Fit(x)' /\ On(x.id, x.part)'
  <2>1. u.open /\ x.id = v.id /\ Fit(x) /\ On(x.id, x.part)
    BY <1>3, <1>4, <1>5, <1>8 DEF Gathers
  <2> QED
    BY <1>3, <2>1, FitKept DEF Grows
<1> QED
  BY <1>2, <1>6, <1>7, <1>8 DEF Gathers

(* The only way in which the file is cut for the identifier is this one.     *)
LEMMA CallsClean ==
    ASSUME Inv, Inv', Apartness, Numbered, NEW o \in Ids, NEW v, Calls(o, v), ~op[o].open,
           NEW l, l = Of(o).loc, NEW cut, Clean(l, v.id, cut)'
    PROVE  /\ cut.chunk = v.chunk /\ cut.origin = v.pos - v.part * v.chunk
           /\ l \notin mixed
           /\ v.id <= Len(made) => Clean(l, v.id, cut)
<1>1. v.id # 0 /\ made'[v.id].cuts = {cut}
  BY DEF Clean
<1>2. Cut(v, Of(o)) \in made'[v.id].cuts
  BY <1>1, OpenedUses
<1>3. cut = Cut(v, Of(o))
  BY <1>1, <1>2
<1>4. Grows /\ v.id \in Nat
  BY CallsLeave, CallsFields DEF Operations
<1>5. l \notin mixed'
  BY DEF Clean
<1>6. v.id <= Len(made) => Clean(l, v.id, cut)
  BY <1>4, CleanKept
<1> QED
  BY <1>3, <1>4, <1>5, <1>6 DEF Cut, Grows

LEMMA CallsCovers ==
    ASSUME Inv, Inv', Apartness, Progress, NEW o \in Ids, NEW v, Calls(o, v), Running(op'[o])
    PROVE  Covers(o)'
<1> DEFINE u == op[o]
           f == Of(o)
<1>1. Numbered /\ Known(o) /\ Resumable
  BY DEF Progress
<1>2. /\ u.state = 1 /\ op'[o].id = v.id /\ op'[o].guid = u.guid /\ op'[o].cached = u.cached
      /\ op'[o].savedPart = v.savedPart /\ f.loc \in Locations
  BY CallsFields, StageState DEF Running
<1>3. Grows /\ (u.open => v = u) /\ f' = f
  BY <1>1, CallsLeave, SameWorld DEF Grows
<1>4. CASE u.open
  <2>1. Covers(o) /\ SameWork(u, op'[o])
    BY <1>1, <1>2, <1>3, <1>4 DEF Known, Running, SameWork
  <2> QED
    BY <1>1, <1>3, <2>1, CoversKept
<1>5. CASE ~u.open
  <2>1. u.part = 0
    BY <1>2, <1>5, OpensAnew DEF Rewound
  <2>2. NewOne(u, f, v) \/ (GoneOn(u, f, prefs[f.loc], v) /\ v.id <= Len(made))
    BY <1>1, <1>5, OpenedUses
  <2> DEFINE saved == prefs[f.loc]
  <2>3. \/ v.savedPart = 0
        \/ /\ v.id <= Len(made) /\ saved.uploaded > 0 /\ v.savedPart = saved.uploaded \div v.chunk
           /\ v.id = saved.id
    BY <2>1, <2>2 DEF NewOne, GoneOn
  <2>4. ASSUME NEW l, l = f.loc, NEW cut, Clean(l, v.id, cut)', NEW k \in 0..v.savedPart - 1
        PROVE  On(v.id, k)'
    <3>1. v.id <= Len(made) /\ saved.uploaded > 0 /\ v.savedPart = saved.uploaded \div v.chunk
          /\ v.id = saved.id
      BY <2>3, <2>4
    <3>2. Clean(l, v.id, cut) /\ cut.chunk = v.chunk
      BY <1>1, <1>5, <2>4, <3>1, CallsClean
    <3>3. On(saved.id, k)
      <4>1. Clean(f.loc, saved.id, cut) /\ k \in 0..saved.uploaded \div cut.chunk - 1
        BY <2>4, <3>1, <3>2
      <4> QED
        BY <1>1, <1>2, <3>1, <4>1 DEF Resumable
    <3> QED
      BY <1>3, <3>1, <3>3 DEF Grows
  <2> QED
    BY <1>2, <1>3, <2>4 DEF Covers
<1> QED
  BY <1>4, <1>5

(* Reading brings back neither of the two flags.                             *)
LEMMA AfterFlags ==
    ASSUME NEW v \in Operations, NEW f
    PROVE  /\ After(v, f).later => v.later
           /\ ~v.later /\ ~v.nextFirst => ~After(v, f).nextFirst
           /\ After(v, f).est = v.est
<1>1. CASE Reads(v, f)
  <2> DEFINE w == ReadPart(v, f)
  <2>1. /\ w.later => v.later
        /\ ~v.later /\ ~v.nextFirst => ~w.nextFirst
        /\ w.est = v.est
    BY DEF ReadPart, Operations
  <2> QED
    BY <1>1, <2>1 DEF After
<1>2. CASE ~Reads(v, f)
  BY <1>2 DEF After
<1> QED
  BY <1>1, <1>2

LEMMA CallsOwns ==
    ASSUME Inv, Inv', Apartness, Progress, NEW o \in Ids, NEW v, Calls(o, v), Running(op'[o])
    PROVE  Owns(o)'
<1> DEFINE u == op[o]
           f == Of(o)
           w == op'[o]
<1>1. Numbered /\ Known(o) /\ Resumable
  BY DEF Progress
<1>2. /\ u.state = 1 /\ w.id = v.id /\ f.loc \in Locations /\ v.est = u.est
      /\ w.later => v.later
      /\ ~v.later /\ ~v.nextFirst => ~w.nextFirst
      /\ w.est = v.est
  BY CallsFields, StageState, AfterFlags DEF Running
<1>3. Grows /\ (u.open => v = u /\ prefs' = prefs /\ made' = made /\ mixed' = mixed) /\ f' = f
  BY <1>1, CallsLeave, SameWorld DEF Grows
<1> SUFFICES ASSUME NEW l, l = f.loc, l \notin mixed'
             PROVE  \/ prefs'[l].id = 0
                    \/ v.est /\ ~v.later
                    \/ /\ prefs'[l].id = v.id /\ ~v.later /\ ~v.nextFirst
                       /\ \A cut : Clean(l, v.id, cut)' => cut.origin = 0
  BY <1>2, <1>3 DEF Owns
<1>4. l \notin mixed
  BY <1>3 DEF Grows
<1>5. CASE u.open
  <2>1. Owns(o)
    BY <1>1, <1>2, <1>5 DEF Known, Running
  <2>2. \A cut : Clean(l, v.id, cut)' <=> Clean(l, v.id, cut)
    BY <1>3, <1>5 DEF Clean
  <2> QED
    BY <1>3, <1>4, <1>5, <2>1, <2>2 DEF Owns
<1>6. CASE ~u.open
  <2>1. u.part = 0 /\ ~u.nextFirst
    BY <1>2, <1>6, OpensAnew DEF Rewound
  <2>2. /\ NewOne(u, f, v) \/ (GoneOn(u, f, prefs[f.loc], v) /\ v.id <= Len(made))
        /\ v.later = u.later /\ v.nextFirst = u.nextFirst /\ v.chunk \in {20, 40}
    BY <1>1, <1>6, OpenedUses DEF Opens
  <2>3. CASE v.later
    <3>1. prefs' = prefs
      BY <1>1, <2>3, CallsPrefs
    <3>2. prefs[f.loc].id = 0
      BY <1>6, <2>3 DEF Calls
    <3> QED
      BY <3>1, <3>2
  <2>4. CASE v.est /\ ~v.later
    BY <2>4
  <2>5. CASE ~v.est /\ ~v.later /\ NewOne(u, f, v)
    <3>1. prefs'[l].id = v.id
      BY <1>1, <2>1, <2>2, <2>5, CallsPrefs DEF NewOne
    <3>2. ASSUME NEW cut, Clean(l, v.id, cut)' PROVE cut.origin = 0
      <4>1. cut.origin = v.pos - v.part * v.chunk
        BY <1>1, <1>6, <3>2, CallsClean
      <4>2. v.pos = 0 /\ v.part = 0
        BY <2>1, <2>2, <2>5 DEF NewOne
      <4> QED
        BY <2>2, <4>1, <4>2
    <3> QED
      BY <2>1, <2>2, <2>5, <3>1, <3>2
  <2>6. CASE ~v.est /\ ~v.later /\ GoneOn(u, f, prefs[f.loc], v) /\ v.id <= Len(made)
    <3>1. prefs'[l] = prefs[l]
      <4>1. v.id # Len(made) + 1
        <5> DEFINE n == Len(made)
                   id == v.id
        <5>1. n \in Nat /\ id <= n
          BY <2>6, StageState
        <5>2. id \in Nat
          BY CallsFields DEF Operations
        <5> HIDE DEF n, id
        <5>3. id # n + 1
          BY <5>1, <5>2
        <5> QED
          BY <5>3 DEF n, id
      <4> QED
        BY <1>1, <1>2, <4>1, CallsPrefs
    <3>2. ASSUME NEW cut, Clean(l, v.id, cut)' PROVE cut.origin = 0
      <4>1. cut.origin = v.pos - v.part * v.chunk /\ Clean(l, v.id, cut)
        BY <1>1, <1>6, <2>6, <3>2, CallsClean
      <4>2. CASE v.pos = 0 /\ v.part = u.part
        BY <2>1, <2>2, <4>1, <4>2
      <4>3. CASE prefs[l].uploaded > 0
        <5>1. Clean(l, prefs[l].id, cut)
          BY <2>6, <4>1 DEF GoneOn
        <5> QED
          BY <1>1, <1>2, <4>3, <5>1 DEF Resumable
      <4> QED
        BY <2>6, <4>2, <4>3 DEF GoneOn
    <3> QED
      BY <2>1, <2>2, <2>6, <3>1, <3>2 DEF GoneOn
  <2> QED
    BY <2>2, <2>3, <2>4, <2>5, <2>6
<1> QED
  BY <1>5, <1>6

(* No other upload of the location runs while it is not mixed.               *)
LEMMA CallsAlone ==
    ASSUME Inv, Apartness, NEW o \in Ids, NEW v, Calls(o, v), NEW p \in Ids, p # o,
           Of(p).loc = Of(o).loc, Of(o).loc \notin mixed
    PROVE  ~Running(op[p])
<1> SUFFICES ASSUME Running(op[p]) PROVE FALSE
  OBVIOUS
<1>1. Apart(p, o)
  BY DEF Apartness, Alone, Running
<1>2. PICK j \in DOMAIN stage : Starts(stage, p, j)
  BY <1>1 DEF Apart, Calls
<1>3. Blank(op[p])
  BY <1>2, LoaderState DEF View, Prepared
<1> QED
  BY <1>3 DEF Blank, Running

LEMMA CallsProgress ==
    ASSUME Inv, Inv', Apartness, Progress, NEW o \in Ids, NEW v, Calls(o, v)
    PROVE  Progress'
<1>1. Fitting /\ Numbered /\ Resumable /\ \A p \in Ids : Known(p)
  BY DEF Progress
<1>2. /\ Grows /\ stage' = stage /\ server' = server
      /\ Ids' = Ids /\ Locations' = Locations /\ (\A p : Of(p)' = Of(p))
      /\ \A p \in Ids : Of(p).loc \in Locations
  BY <1>1, CallsLeave, StageState, SameWorld DEF Calls, Grows
<1>3. AnswersAdded
  BY <1>2 DEF AnswersAdded
<1>4. \A r \in wire' : r \in wire \/ (Fit(r)' /\ r.o = o)
  <2> SUFFICES ASSUME NEW r \in wire', r \notin wire PROVE Fit(r)' /\ r.o = o
    OBVIOUS
  <2>1. Reads(v, Of(o)) /\ r = Request(o, v)
    BY DEF Calls
  <2> QED
    BY <2>1, CallsFit
<1>5. Fitting'
  <2>1. \A r \in wire' : (\E x \in wire : Copy(r, x)) \/ Fit(r)'
    BY <1>4 DEF Copy
  <2> QED
    BY <1>1, <1>2, <1>3, <2>1, FittingStep
<1>6. Numbered' /\ Resumable'
  BY <1>1, CallsNumbered, CallsResumable
<1>7. ASSUME NEW p \in Ids, p # o PROVE Known(p)'
  <2>1. op'[p] = op[p]
    BY <1>7, CallsFields
  <2>2. RequestsKept(p)
    BY <1>4, <1>7 DEF RequestsKept, Copy
  <2>3. CASE prefs'[Of(p).loc] = prefs[Of(p).loc] \/ Of(p).loc \in mixed
    BY <1>1, <1>2, <1>3, <2>1, <2>2, <2>3, KnownStep DEF Same
  <2>4. CASE Of(p).loc = Of(o).loc /\ Of(p).loc \notin mixed
    BY <1>7, <2>1, <2>4, CallsAlone DEF Known
  <2> QED
    BY <1>1, <1>2, <2>3, <2>4, CallsPrefs
<1>8. Known(o)'
  <2> SUFFICES ASSUME Running(op'[o]) PROVE Known(o)'
    BY DEF Known
  <2>1. op[o].state = 1
    BY CallsFields DEF Running
  <2>2. Tracks(op'[o], Of(o), made') /\ Gathers(o)' /\ Covers(o)' /\ Owns(o)'
    BY <2>1, CallsTracks, CallsGathers, CallsCovers, CallsOwns
  <2> QED
    BY <1>2, <2>2 DEF Known
<1> QED
  BY <1>2, <1>5, <1>6, <1>7, <1>8 DEF Progress

-----------------------------------------------------------------------------
LEMMA ProgressStep == Inv /\ Inv' /\ Apartness /\ Progress /\ [Next]_vars => Progress'
<1> SUFFICES ASSUME Inv, Inv', Apartness, Progress, [Next]_vars PROVE Progress'
  OBVIOUS
<1>1. CASE UploadFile \/ OnNetworkChanged \/ \E l \in app.cancels : CancelFileUpload(l)
  BY <1>1, ApplicationProgress DEF UploadFile, OnNetworkChanged, CancelFileUpload
<1>2. CASE \E o \in Ids : CheckUploadNewDataAvailable(o)
  BY <1>2, ApplicationProgress DEF CheckUploadNewDataAvailable
<1>3. CASE Restart
  BY <1>3, RestartProgress
<1>4. CASE RunLoaderTask
  <2>1. Calm
    BY <1>4, RunLoaderTaskApart
  <2>2. UNCHANGED <<world, made, server, wire>> /\ mixed \subseteq mixed'
    BY <1>4 DEF RunLoaderTask
  <2> QED
    BY <2>1, <2>2, CalmProgress
<1>5. CASE Finish
  <2>1. Calm
    BY <1>5, FinishApart
  <2>2. UNCHANGED <<world, made, server, wire, mixed>>
    BY <1>5 DEF Finish
  <2> QED
    BY <2>1, <2>2, CalmProgress
<1>6. CASE StartUploadRequest
  <2>1. UNCHANGED world
    BY <1>6 DEF StartUploadRequest
  <2>2. CASE Calm /\ UNCHANGED <<wire, made, server, mixed>>
    BY <2>1, <2>2, CalmProgress
  <2>3. CASE \E o \in Ids : \E v : Calls(o, v)
    BY <2>3, CallsProgress
  <2> QED
    BY <1>6, <2>2, <2>3, StartUploadRequestApart
<1>7. CASE RunStageTask
  <2>1. at.kind = "idle" /\ stage # <<>> /\ UNCHANGED <<world, made, server, mixed>>
    BY <1>7 DEF RunStageTask
  <2>2. AnswersKept /\ wire' \subseteq wire
    BY <1>7, RunStageTaskApart
  <2>3. CASE Calm
    BY <2>1, <2>2, <2>3, CalmProgress
  <2>4. CASE Head(stage).do = "data" /\ \E v : Informed(Head(stage).o, v, Head(stage))
    <3> DEFINE t == Head(stage)
    <3>1. PICK v : Informed(t.o, v, t)
      BY <2>4
    <3>2. ASSUME NEW o, o = t.o, NEW x, x = t PROVE Progress'
      BY <2>1, <2>2, <2>4, <3>1, <3>2, InformedProgress
    <3> QED
      BY <3>2
  <2>5. CASE /\ Head(stage).do = "answer" /\ Head(stage).ok
             /\ \E u, s : Confirmed(Head(stage).o, Head(stage).r, u, s)
    <3> DEFINE t == Head(stage)
    <3>1. PICK u, s : Confirmed(t.o, t.r, u, s)
      BY <2>5
    <3>2. ASSUME NEW o, o = t.o, NEW r, r = t.r PROVE Progress'
      BY <2>1, <2>2, <2>5, <3>1, <3>2, ConfirmedProgress
    <3> QED
      BY <3>2
  <2> QED
    BY <1>7, <2>3, <2>4, <2>5, RunStageTaskApart
<1>8. CASE \E r \in wire : Written(r) \/ Answer(r, TRUE) \/ Answer(r, FALSE)
  BY <1>8, WrittenProgress, AnswerProgress
<1>9. CASE UNCHANGED vars
  BY <1>9, ApplicationProgress DEF vars
<1> QED
  BY <1>1, <1>2, <1>3, <1>4, <1>5, <1>6, <1>7, <1>8, <1>9 DEF Next, Loader, Stage

(* The point is behind whole parts that the server has, each as long as the  *)
(* way in which the file was cut makes it.                                   *)
LEMMA ProgressConfirms == Inv /\ Progress => ResumePointConfirmed
<1> SUFFICES ASSUME Inv, Progress, NEW l \in Locations \ mixed, prefs[l].id # 0,
                    CutOneWay(prefs[l].id), NEW cut \in made[prefs[l].id].cuts,
                    NEW k \in 0..prefs[l].uploaded \div cut.chunk - 1
             PROVE  \E p \in server : p.id = prefs[l].id /\ p.part = k /\ p.bytes = cut.chunk
  BY DEF ResumePointConfirmed
<1> DEFINE id == prefs[l].id
           cuts == made[id].cuts
           n == Len(made)
<1>1. Fitting /\ Numbered /\ Resumable
  BY DEF Progress
<1>2. prefs[l] \in Preferences /\ n \in Nat
  BY StageState
<1>3. id \in Nat /\ prefs[l].uploaded \in Nat
  BY <1>2 DEF Preferences
<1>4. id <= n
  BY <1>1 DEF Numbered
<1>5. id \in 1..n
  <2> HIDE DEF id, n
  <2>1. id # 0
    BY DEF id
  <2> QED
    BY ONLY <1>2, <1>3, <1>4, <2>1
<1>6. Ways(cuts)
  BY <1>1, <1>5 DEF Numbered
<1>7. cuts = {cut}
  <2>1. Cardinality(cuts) = 1
    BY DEF CutOneWay
  <2> QED
    BY <1>6, <2>1, FS_Singleton DEF Ways
<1>8. Clean(l, id, cut)
  BY <1>7 DEF Clean
<1>9. cut.chunk \in {20, 40}
  BY <1>6 DEF Ways
<1>10. prefs[l].uploaded > 0
  <2> SUFFICES ASSUME prefs[l].uploaded = 0 PROVE FALSE
    BY <1>3
  <2>1. 0 \div cut.chunk = 0
    BY <1>9
  <2> QED
    BY <2>1
<1>11. cut.origin = 0 /\ On(id, k) /\ LengthIn(cut, k) = cut.chunk
  BY <1>1, <1>8, <1>10 DEF Resumable
<1>12. PICK p \in server : p.id = id /\ p.part = k
  BY <1>11 DEF On
<1>13. Fits(p, cut)
  <2>1. Fit(p)
    BY <1>1 DEF Fitting
  <2> QED
    BY <1>7, <1>12, <2>1 DEF Fit
<1>14. p.bytes = cut.chunk
  BY <1>11, <1>12, <1>13 DEF Fits, Proper
<1> QED
  BY <1>12, <1>14

(* The point that an upload goes on from after the process was killed, which *)
(* storeFileUploadInfo and the answers of startUploadRequest write to the    *)
(* preferences, is never beyond the parts that the server has confirmed.     *)
THEOREM ResumeConfirmed == Spec => []ResumePointConfirmed
<1>1. Init => Inv /\ Apartness /\ Progress
  BY InitInv, ApartnessInit, ProgressInit
<1>2. Inv /\ Apartness /\ Progress /\ [Next]_vars => (Inv /\ Apartness /\ Progress)'
  BY StepInv, ApartnessStep, ProgressStep
<1>3. Inv /\ Apartness /\ Progress => ResumePointConfirmed
  BY ProgressConfirms
<1> QED
  BY <1>1, <1>2, <1>3, PTL DEF Spec

-----------------------------------------------------------------------------
(* Parts that make a file: how many there are in the way it is cut, and two  *)
(* at least when the first one has another length than the others.           *)
CountOf(cut)   == CeilDiv(cut.size - cut.origin, cut.chunk)
Filled(cut, n) == cut.size > 0 /\ n = CountOf(cut) /\ (cut.origin # 0 => n >= 2)

(* A request of an upload that is not answered, or whose answer has not been *)
(* run.                                                                      *)
Flies(o, k) ==
    \/ \E r \in wire : r.o = o /\ r.guid = op[o].guid /\ r.part = k
    \/ \E i \in DOMAIN stage : /\ stage[i].do = "answer" /\ stage[i].o = o
                               /\ stage[i].r.guid = op[o].guid /\ stage[i].r.part = k

(* A running upload knows how many parts its file has, or that it has read   *)
(* them all, and all that it has read are on the server or under way.        *)
Plan(u, cut) ==
    /\ Proper(cut)
    /\ u.later \/ u.nextFirst \/ u.last \/ cut.origin = 0
    /\ u.est \/ u.parts = CountOf(cut)
    /\ u.nextFirst \/ u.last => Filled(cut, u.part)

Gone(u) == {k \in 0..u.part - 1 : k = 0 => ~u.later /\ ~u.nextFirst}

Whole(o) ==
    Running(op[o]) =>
        \A cut : Clean(Of(o).loc, op[o].id, cut) =>
            /\ Plan(op[o], cut)
            /\ \A k \in Gone(op[o]) : On(op[o].id, k) \/ Flies(o, k)

(* The server has the n parts of an identifier, which make the file.         *)
Over(o, id, n) ==
    /\ id \in 1..Len(made)
    /\ \A cut : Clean(Of(o).loc, id, cut) =>
        /\ cut.size = Of(o).size /\ Proper(cut) /\ Filled(cut, n)
        /\ \A k \in 0..n - 1 : On(id, k)

Ended == \A o \in Ids : \A file \in op[o].result : Over(o, file.id, file.parts)
Overs ==
    /\ at.kind = "finish" => Over(at.o, op[at.o].id, op[at.o].part)
    /\ Ended

(* No first part is read while the file is being written, unless it is known *)
(* that it will be.                                                          *)
Timed(r) == r.part = 0 /\ r.early => made[r.id].early
OpTimed(o) ==
    /\ op[o].nextFirst => ~op[o].est
    /\ Running(op[o]) /\ op[o].est /\ ~op[o].later /\ ~Of(o).enc => made[op[o].id].early
Timely ==
    /\ \A r \in wire : Timed(r)
    /\ \A q \in server : Timed(q)
    /\ \A o \in Ids : OpTimed(o)

Finishing == (\A o \in Ids : Whole(o)) /\ Overs /\ Timely

-----------------------------------------------------------------------------
(* The number of parts is the least with which nothing is left.              *)
LEMMA CountIs ==
    ASSUME NEW cut \in Cuts, cut.chunk \in {20, 40}, NEW n \in Int
    PROVE  /\ CountOf(cut) \in Int
           /\ n = CountOf(cut) <=> /\ (n - 1) * cut.chunk < cut.size - cut.origin
                                   /\ cut.size - cut.origin <= n * cut.chunk
<1> DEFINE d == cut.size - cut.origin
<1>1. d \in Int /\ CountOf(cut) = (d + cut.chunk - 1) \div cut.chunk
  BY DEF Cuts, CountOf, CeilDiv
<1> HIDE DEF d
<1>2. CASE cut.chunk = 20
  <2>1. CountOf(cut) = (d + 19) \div 20
    BY <1>1, <1>2
  <2>2. /\ (d + 19) \div 20 \in Int
        /\ n = (d + 19) \div 20 <=> (n - 1) * 20 < d /\ d <= n * 20
    BY ONLY <1>1, n \in Int
  <2> QED
    BY <1>2, <2>1, <2>2 DEF d
<1>3. CASE cut.chunk = 40
  <2>1. CountOf(cut) = (d + 39) \div 40
    BY <1>1, <1>3
  <2>2. /\ (d + 39) \div 40 \in Int
        /\ n = (d + 39) \div 40 <=> (n - 1) * 40 < d /\ d <= n * 40
    BY ONLY <1>1, n \in Int
  <2> QED
    BY <1>3, <2>1, <2>2 DEF d
<1> QED
  BY <1>2, <1>3

(* Where the parts of a filled cut begin and end.                            *)
LEMMA FilledJoins ==
    ASSUME NEW cut \in Cuts, cut.chunk \in {20, 40}, Proper(cut), NEW n \in Int, Filled(cut, n),
           NEW k \in 0..n - 1
    PROVE  /\ n >= 1
           /\ StartIn(cut, k) + LengthIn(cut, k) = (IF k = n - 1 THEN cut.size ELSE StartIn(cut, k + 1))
<1>1. /\ cut.size \in Nat /\ cut.origin \in Int /\ cut.size > 0 /\ (cut.origin # 0 => n >= 2)
      /\ (n - 1) * cut.chunk < cut.size - cut.origin /\ cut.size - cut.origin <= n * cut.chunk
  BY CountIs DEF Cuts, Filled
<1>2. cut.origin = 0 \/ cut.origin = 1 - cut.chunk
  BY DEF Proper, HeadLength
<1> DEFINE s == cut.size
           b == cut.origin
<1>3. CASE cut.chunk = 20
  <2>1. /\ s \in Nat /\ b \in {0, -19} /\ s > 0 /\ (b # 0 => n >= 2)
        /\ (n - 1) * 20 < s - b /\ s - b <= n * 20
    BY <1>1, <1>2, <1>3
  <2>2. /\ StartIn(cut, k) = (IF k = 0 THEN 0 ELSE b + k * 20)
        /\ StartIn(cut, k + 1) = (IF k + 1 = 0 THEN 0 ELSE b + (k + 1) * 20)
        /\ LengthIn(cut, k) = (IF k = 0 /\ b # 0 THEN b + 20 ELSE Less(20, s - StartIn(cut, k)))
    BY <1>3 DEF StartIn, LengthIn
  <2> HIDE DEF s, b
  <2>3. LengthIn(cut, k) = (IF k = 0 /\ b # 0 THEN b + 20
                            ELSE IF 20 < s - StartIn(cut, k) THEN 20 ELSE s - StartIn(cut, k))
    BY <2>2 DEF Less
  <2>4. n >= 1 /\ StartIn(cut, k) + LengthIn(cut, k) = (IF k = n - 1 THEN s ELSE StartIn(cut, k + 1))
    BY ONLY <2>1, <2>2, <2>3, n \in Int, k \in 0..n - 1
  <2> QED
    BY <2>4 DEF s
<1>4. CASE cut.chunk = 40
  <2>1. /\ s \in Nat /\ b \in {0, -39} /\ s > 0 /\ (b # 0 => n >= 2)
        /\ (n - 1) * 40 < s - b /\ s - b <= n * 40
    BY <1>1, <1>2, <1>4
  <2>2. /\ StartIn(cut, k) = (IF k = 0 THEN 0 ELSE b + k * 40)
        /\ StartIn(cut, k + 1) = (IF k + 1 = 0 THEN 0 ELSE b + (k + 1) * 40)
        /\ LengthIn(cut, k) = (IF k = 0 /\ b # 0 THEN b + 40 ELSE Less(40, s - StartIn(cut, k)))
    BY <1>4 DEF StartIn, LengthIn
  <2> HIDE DEF s, b
  <2>3. LengthIn(cut, k) = (IF k = 0 /\ b # 0 THEN b + 40
                            ELSE IF 40 < s - StartIn(cut, k) THEN 40 ELSE s - StartIn(cut, k))
    BY <2>2 DEF Less
  <2>4. n >= 1 /\ StartIn(cut, k) + LengthIn(cut, k) = (IF k = n - 1 THEN s ELSE StartIn(cut, k + 1))
    BY ONLY <2>1, <2>2, <2>3, n \in Int, k \in 0..n - 1
  <2> QED
    BY <2>4 DEF s
<1> QED
  BY <1>3, <1>4

LEMMA FilledSome ==
    ASSUME NEW cut \in Cuts, cut.chunk \in {20, 40}, Proper(cut), NEW n \in Int, Filled(cut, n)
    PROVE  n >= 1
<1>1. cut.size \in Nat /\ cut.origin \in Int /\ cut.size > 0 /\ cut.size - cut.origin <= n * cut.chunk
  BY CountIs DEF Cuts, Filled
<1>2. cut.origin <= 0
  BY DEF Proper, HeadLength
<1>3. CASE cut.chunk = 20
  BY ONLY <1>1, <1>2, <1>3, n \in Int
<1>4. CASE cut.chunk = 40
  BY ONLY <1>1, <1>2, <1>4, n \in Int
<1> QED
  BY <1>3, <1>4

(* What the server has for an identifier with one cut is complete.           *)
LEMMA OverComplete ==
    ASSUME Inv, Fitting, Numbered, Timely, NEW o \in Ids, NEW file \in Results,
           Over(o, file.id, file.parts), Of(o).loc \notin mixed, CutOneWay(file.id)
    PROVE  Complete(file, Of(o).size)
<1> DEFINE id == file.id
           n == file.parts
           cuts == made[id].cuts
<1>1. id \in 1..Len(made) /\ n \in Int /\ id \in Nat
  BY DEF Over, Results
<1>2. Ways(cuts)
  BY <1>1 DEF Numbered
<1>3. PICK cut : cuts = {cut}
  <2>1. Cardinality(cuts) = 1 /\ IsFiniteSet(cuts)
    BY <1>2 DEF CutOneWay, Ways
  <2>2. PICK cut : cut \in cuts
    BY <1>2 DEF Ways
  <2> QED
    BY <2>1, <2>2, FS_Singleton
<1>4. cut \in Cuts /\ cut.chunk \in {20, 40}
  <2>1. made[id] \in Identifiers
    BY <1>1, StageState
  <2> QED
    BY <1>2, <1>3, <2>1 DEF Ways, Identifiers
<1>5. Clean(Of(o).loc, id, cut)
  <2>1. id # 0
    BY <1>1
  <2> QED
    BY <1>3, <2>1 DEF Clean
<1>6. /\ cut.size = Of(o).size /\ Proper(cut) /\ Filled(cut, n)
      /\ \A k \in 0..n - 1 : On(id, k)
  BY <1>5 DEF Over
<1>7. ASSUME NEW k \in 0..n - 1
      PROVE  /\ Part(file, k) \in server /\ Part(file, k).id = id /\ Part(file, k).part = k
             /\ Part(file, k).from = StartIn(cut, k) /\ Part(file, k).bytes = LengthIn(cut, k)
  <2>1. \E p \in server : p.id = file.id /\ p.part = k
    BY <1>6 DEF On
  <2>2. Part(file, k) \in server /\ Part(file, k).id = id /\ Part(file, k).part = k
    BY <2>1 DEF Part
  <2>3. Fits(Part(file, k), cut)
    <3>1. Fit(Part(file, k))
      BY <2>2 DEF Fitting
    <3> QED
      BY <1>3, <2>2, <3>1 DEF Fit
  <2> QED
    BY <1>6, <2>2, <2>3 DEF Fits
<1>8. n >= 1
  BY <1>1, <1>4, <1>6, FilledSome
<1>9. \A k \in 0..n - 1 : \E p \in server : p.id = id /\ p.part = k
  BY <1>6 DEF On
<1>10. ASSUME NEW k \in 0..n - 1
       PROVE  Part(file, k).from + Part(file, k).bytes
                  = IF k = n - 1 THEN Of(o).size ELSE Part(file, k + 1).from
  <2>1. StartIn(cut, k) + LengthIn(cut, k) = (IF k = n - 1 THEN cut.size ELSE StartIn(cut, k + 1))
    BY <1>1, <1>4, <1>6, FilledJoins
  <2>2. k # n - 1 => k + 1 \in 0..n - 1
    BY <1>1
  <2>3. k # n - 1 => Part(file, k + 1).from = StartIn(cut, k + 1)
    BY <1>7, <2>2
  <2> QED
    BY <1>6, <1>7, <2>1, <2>3
<1>11. Part(file, 0).from = 0 /\ (Part(file, 0).early => made[id].early)
  <2>1. 0 \in 0..n - 1
    BY <1>1, <1>8
  <2>2. Part(file, 0) \in server /\ Part(file, 0).id = id /\ Part(file, 0).part = 0
    BY <1>7, <2>1
  <2>3. Timed(Part(file, 0))
    BY <2>2 DEF Timely
  <2>4. Part(file, 0).from = StartIn(cut, 0)
    BY <1>7, <2>1
  <2> QED
    BY <2>2, <2>3, <2>4 DEF Timed, StartIn
<1> QED
  BY <1>9, <1>10, <1>11 DEF Complete

LEMMA FinishingComplete == Inv /\ Progress /\ Finishing => FinishedIsComplete
<1> SUFFICES ASSUME Inv, Progress, Finishing, NEW o \in Ids, NEW file \in op[o].result,
                    Of(o).loc \notin mixed, CutOneWay(file.id)
             PROVE  Complete(file, Of(o).size)
  BY DEF FinishedIsComplete
<1>1. file \in Results
  <2>1. op[o] \in Operations
    BY LoaderState
  <2> QED
    BY <2>1 DEF Operations
<1>2. Over(o, file.id, file.parts)
  BY DEF Finishing, Overs, Ended
<1> QED
  BY <1>1, <1>2, OverComplete DEF Progress, Finishing

LEMMA FinishingInit == Init => Finishing
<1> SUFFICES ASSUME Init PROVE Finishing
  OBVIOUS
<1>1. at.kind = "idle" /\ wire = {} /\ server = {}
  BY DEF Init, Idle
<1>2. ASSUME NEW o \in Ids
      PROVE  ~op[o].open /\ ~op[o].nextFirst /\ op[o].result = {}
  <2>1. op[o] = New(Of(o), FALSE)
    BY DEF Init
  <2> QED
    BY <2>1 DEF New
<1>3. \A o \in Ids : Whole(o)
  BY <1>2 DEF Whole, Running
<1>4. Overs
  BY <1>1, <1>2 DEF Overs, Ended
<1>5. Timely
  BY <1>1, <1>2 DEF Timely, OpTimed, Running
<1> QED
  BY <1>3, <1>4, <1>5 DEF Finishing

-----------------------------------------------------------------------------
(* What remains true when a step does not go on with an upload.              *)
SamePlan(u, v) ==
    /\ v.state = u.state /\ v.open = u.open /\ v.id = u.id /\ v.later = u.later
    /\ v.nextFirst = u.nextFirst /\ v.last = u.last /\ v.est = u.est /\ v.parts = u.parts
    /\ v.part = u.part

FlightsKept(o) ==
    \A id, k : id = op[o].id /\ Flies(o, k) => Flies(o, k)' \/ On(id, k)'

MadeEarly == \A i \in 1..Len(made) : made'[i].early = made[i].early

LEMMA WholeStep ==
    ASSUME Inv, Inv', Numbered, Grows, NEW o \in Ids, Whole(o),
           SamePlan(op[o], op'[o]) \/ ~op'[o].open, Running(op'[o]) => FlightsKept(o)
    PROVE  Whole(o)'
<1>1. /\ Of(o)' = Of(o) /\ (\A id, k : On(id, k) => On(id, k)')
  BY SameWorld DEF Grows
<1> SUFFICES ASSUME Running(op'[o]), NEW cut, NEW id, id = op'[o].id, Clean(Of(o).loc, id, cut)'
             PROVE  /\ Plan(op'[o], cut)
                    /\ \A k \in Gone(op'[o]) : (On(id, k) \/ Flies(o, k))'
  BY DEF Whole
<1>2. SamePlan(op[o], op'[o]) /\ Running(op[o]) /\ FlightsKept(o)
  BY DEF Running, SamePlan
<1>3. op[o].id = id /\ id \in Nat /\ id <= Len(made)
  <2>1. op[o] \in Operations
    BY LoaderState
  <2> QED
    BY <1>2, <2>1 DEF SamePlan, Numbered, Operations
<1>4. Clean(Of(o).loc, id, cut)
  <2>1. ASSUME NEW l, l = Of(o).loc PROVE Clean(l, id, cut)
    <3>1. Clean(l, id, cut)'
      BY <1>1, <2>1
    <3> QED
      BY <1>3, <3>1, CleanKept
  <2> QED
    BY <2>1
<1>5. /\ Plan(op[o], cut)
      /\ \A k \in Gone(op[o]) : On(id, k) \/ Flies(o, k)
  BY <1>2, <1>3, <1>4 DEF Whole
<1>6. Plan(op'[o], cut) /\ Gone(op'[o]) = Gone(op[o])
  BY <1>2, <1>5 DEF Plan, Gone, SamePlan
<1>7. \A k \in Gone(op[o]) : On(id, k)' \/ Flies(o, k)'
  BY <1>1, <1>2, <1>3, <1>5 DEF FlightsKept
<1> QED
  BY <1>6, <1>7

LEMMA OverKept ==
    ASSUME Inv, Inv', Numbered, Grows, NEW o \in Ids, NEW id, NEW n, Over(o, id, n)
    PROVE  Over(o, id, n)'
<1>1. Of(o)' = Of(o) /\ Len(made) \in Nat /\ Len(made') \in Nat /\ Len(made) <= Len(made')
  BY SameWorld, StageState DEF Grows, Inv, Types, MadeType
<1>2. id \in 1..Len(made) /\ id \in Nat /\ id <= Len(made)
  BY <1>1 DEF Over
<1>3. id \in 1..Len(made')
  BY <1>1, <1>2
<1> SUFFICES ASSUME NEW l, l = Of(o).loc, NEW cut, Clean(l, id, cut)'
             PROVE  /\ cut.size = Of(o).size /\ Proper(cut) /\ Filled(cut, n)
                    /\ \A k \in 0..n - 1 : On(id, k)'
  BY <1>1, <1>3 DEF Over
<1>4. Clean(l, id, cut)
  BY <1>1, <1>2, CleanKept
<1> QED
  BY <1>4 DEF Over, Grows

LEMMA OversStep ==
    ASSUME Inv, Inv', Numbered, Grows, Overs,
           at'.kind = "finish" => \E o \in Ids : \E id, n :
              /\ at'.o = o /\ op'[o].id = id /\ op'[o].part = n
              /\ \/ Over(o, id, n)'
                 \/ at.kind = "finish" /\ at.o = o /\ op[o].id = id /\ op[o].part = n,
           \A o \in Ids : \A file : file \in op'[o].result =>
              file \in op[o].result \/ Over(o, file.id, file.parts)'
    PROVE  Overs'
<1>1. Ids' = Ids
  BY SameWorld DEF Grows
<1>2. ASSUME NEW o \in Ids, NEW file, file \in op'[o].result PROVE Over(o, file.id, file.parts)'
  <2>1. file \in op[o].result => Over(o, file.id, file.parts)
    BY DEF Overs, Ended
  <2> QED
    BY <1>2, <2>1, OverKept
<1>3. ASSUME at'.kind = "finish" PROVE Over(at.o, op[at.o].id, op[at.o].part)'
  <2>1. PICK o \in Ids : \E id, n :
           /\ at'.o = o /\ op'[o].id = id /\ op'[o].part = n
           /\ \/ Over(o, id, n)'
              \/ at.kind = "finish" /\ at.o = o /\ op[o].id = id /\ op[o].part = n
    BY <1>3
  <2>2. PICK id, n : /\ at'.o = o /\ op'[o].id = id /\ op'[o].part = n
                     /\ \/ Over(o, id, n)'
                        \/ at.kind = "finish" /\ at.o = o /\ op[o].id = id /\ op[o].part = n
    BY <2>1
  <2>3. Over(o, id, n)'
    <3>1. CASE at.kind = "finish" /\ at.o = o /\ op[o].id = id /\ op[o].part = n
      <4>1. Over(o, id, n)
        BY <3>1 DEF Overs
      <4> QED
        BY <4>1, OverKept
    <3> QED
      BY <2>2, <3>1
  <2> QED
    BY <2>2, <2>3
<1> QED
  BY <1>1, <1>2, <1>3 DEF Overs, Ended

LEMMA OpTimedStep ==
    ASSUME Inv, Numbered, OpsHold, world' = world, MadeEarly, NEW o \in Ids, OpTimed(o),
           SamePlan(op[o], op'[o]) \/ (~op'[o].open /\ (op'[o].nextFirst => ~op'[o].est))
    PROVE  OpTimed(o)'
<1>1. Of(o)' = Of(o)
  BY SameWorld
<1>2. CASE SamePlan(op[o], op'[o])
  <2>1. op'[o].nextFirst => ~op'[o].est
    BY <1>2 DEF SamePlan, OpTimed
  <2>2. ASSUME Running(op[o]), op[o].est PROVE op[o].id \in 1..Len(made)
    <3>1. op[o].id \in Nat /\ Len(made) \in Nat
      <4>1. op[o] \in Operations
        BY LoaderState
      <4> QED
        BY <4>1, StageState DEF Operations
    <3>2. op[o].id # 0 /\ op[o].id <= Len(made)
      BY <2>2 DEF Running, OpsHold, Numbered
    <3> QED
      BY <3>1, <3>2
  <2>3. ASSUME Running(op'[o]), op'[o].est, ~op'[o].later, ~Of(o).enc
        PROVE  made'[op'[o].id].early
    <3>1. Running(op[o]) /\ op[o].est /\ ~op[o].later /\ op'[o].id = op[o].id
      BY <1>2, <2>3 DEF SamePlan, Running
    <3>2. made[op[o].id].early /\ op[o].id \in 1..Len(made)
      BY <2>2, <2>3, <3>1 DEF OpTimed
    <3> QED
      BY <3>1, <3>2 DEF MadeEarly
  <2> QED
    BY <1>1, <2>1, <2>3 DEF OpTimed
<1>3. CASE ~op'[o].open /\ (op'[o].nextFirst => ~op'[o].est)
  BY <1>3 DEF OpTimed, Running
<1> QED
  BY <1>2, <1>3

LEMMA TimelyStep ==
    ASSUME Inv, Inv', Fitting, Timely, world' = world, MadeEarly,
           \A r \in wire' : Timed(r)' \/ \E x \in wire : r.id = x.id /\ r.part = x.part /\ r.early = x.early,
           \A q \in server' : Timed(q)' \/ q \in server, \A o \in Ids : OpTimed(o)'
    PROVE  Timely'
<1>1. Ids' = Ids
  BY SameWorld
<1>2. ASSUME NEW r, r.id \in 1..Len(made), Timed(r) PROVE Timed(r)'
  BY <1>2 DEF Timed, MadeEarly
<1>3. ASSUME NEW r \in wire' PROVE Timed(r)'
  <2>1. ASSUME NEW x \in wire, r.id = x.id, r.part = x.part, r.early = x.early PROVE Timed(r)'
    <3>1. x.id \in 1..Len(made) /\ Timed(x)
      BY DEF Fitting, Fit, Timely
    <3>2. Timed(r)
      BY <2>1, <3>1 DEF Timed
    <3> QED
      BY <1>2, <2>1, <3>1, <3>2
  <2> QED
    BY <2>1
<1>4. ASSUME NEW q \in server' PROVE Timed(q)'
  <2>1. q \in server => q.id \in 1..Len(made) /\ Timed(q)
    BY DEF Fitting, Fit, Timely
  <2> QED
    BY <1>2, <2>1
<1> QED
  BY <1>1, <1>3, <1>4 DEF Timely

(* A step that goes on with no upload.                                       *)
LEMMA QuietPlan ==
    ASSUME QuietOps, NEW o \in Ids, OpTimed(o)
    PROVE  /\ SamePlan(op[o], op'[o]) \/ (~op'[o].open /\ (op'[o].nextFirst => ~op'[o].est))
           /\ Running(op'[o]) => Same(op[o], op'[o]) /\ SamePlan(op[o], op'[o])
<1>1. Same(op[o], op'[o]) => SamePlan(op[o], op'[o])
  BY DEF Same, SamePlan
<1>2. \/ Same(op[o], op'[o])
      \/ ~op'[o].open /\ (op'[o].nextFirst => ~op'[o].est)
  BY DEF QuietOps, Quiet, Closed, Fresh, Blank, OpTimed
<1> QED
  BY <1>1, <1>2 DEF Running

LEMMA CalmFinishing ==
    ASSUME Inv, Inv', Apartness, Progress, Finishing, QuietOps,
           UNCHANGED <<world, made>>, mixed \subseteq mixed', \A id, k : On(id, k) => On(id, k)',
           \A r \in wire' : \E x \in wire : r.id = x.id /\ r.part = x.part /\ r.early = x.early,
           \A q \in server' : Timed(q) \/ q \in server,
           \A o \in Ids : Running(op'[o]) /\ Same(op[o], op'[o]) => FlightsKept(o), Overs'
    PROVE  Finishing'
<1>1. Grows /\ MadeEarly /\ Ids' = Ids
  <2>1. Len(made) \in Nat
    BY StageState
  <2> QED
    BY <2>1, SameWorld DEF Grows, MadeEarly
<1>2. Fitting /\ Numbered /\ OpsHold
  BY DEF Progress, Apartness
<1>3. ASSUME NEW o \in Ids PROVE Whole(o)' /\ OpTimed(o)'
  <2>1. Whole(o) /\ OpTimed(o)
    BY DEF Finishing, Timely
  <2>2. /\ SamePlan(op[o], op'[o]) \/ (~op'[o].open /\ (op'[o].nextFirst => ~op'[o].est))
        /\ Running(op'[o]) => Same(op[o], op'[o]) /\ SamePlan(op[o], op'[o])
    BY <2>1, QuietPlan
  <2>3. Whole(o)'
    BY <1>1, <1>2, <2>1, <2>2, WholeStep
  <2>4. OpTimed(o)'
    BY <1>1, <1>2, <2>1, <2>2, OpTimedStep
  <2> QED
    BY <2>3, <2>4
<1>4. Timely'
  <2>1. \A q \in server' : Timed(q)' \/ q \in server
    BY DEF Timed
  <2>2. Timely
    BY DEF Finishing
  <2> QED
    BY <1>1, <1>2, <1>3, <2>1, <2>2, TimelyStep
<1> QED
  BY <1>1, <1>3, <1>4 DEF Finishing

LEMMA FlightsGrown ==
    ASSUME NEW o, op'[o].guid = op[o].guid,
           \A r \in wire : r.o = o => \E x \in wire' : Copy(r, x),
           \A i \in DOMAIN stage : stage[i].do = "answer" /\ stage[i].o = o
              => \E j \in DOMAIN stage' : stage'[j] = stage[i]
    PROVE  FlightsKept(o)
<1> SUFFICES ASSUME NEW k, Flies(o, k) PROVE Flies(o, k)'
  BY DEF FlightsKept
<1>1. ASSUME NEW r \in wire, r.o = o, r.guid = op[o].guid, r.part = k PROVE Flies(o, k)'
  <2>1. PICK x \in wire' : Copy(r, x)
    BY <1>1
  <2> QED
    BY <1>1, <2>1 DEF Copy, Flies
<1>2. ASSUME NEW i \in DOMAIN stage, stage[i].do = "answer", stage[i].o = o,
             stage[i].r.guid = op[o].guid, stage[i].r.part = k
      PROVE  Flies(o, k)'
  <2>1. PICK j \in DOMAIN stage' : stage'[j] = stage[i]
    BY <1>2
  <2> QED
    BY <1>2, <2>1 DEF Flies
<1> QED
  BY <1>1, <1>2 DEF Flies

-----------------------------------------------------------------------------
(* FileLoader changes neither what was reported of an upload nor, once it    *)
(* has been started, where it is in its file.                                *)
Keeps(u, v) ==
    /\ \A file : file \in v.result => file \in u.result
    /\ u.state # 0 => v.id = u.id /\ v.part = u.part

LEMMA StateKeeps ==
    ASSUME NEW g \in [Ids -> Operations], NEW n, NEW x, NEW h, h = [g EXCEPT ![n].state = x]
    PROVE  \A p \in Ids : h[p].result = g[p].result /\ h[p].id = g[p].id /\ h[p].part = g[p].part
<1> SUFFICES ASSUME NEW p \in Ids
             PROVE  h[p].result = g[p].result /\ h[p].id = g[p].id /\ h[p].part = g[p].part
  OBVIOUS
<1>1. CASE p = n
  <2>1. g[p] \in Operations /\ h[p] = [g[p] EXCEPT !.state = x]
    BY <1>1
  <2> QED
    BY <2>1 DEF Operations
<1>2. CASE p # n
  BY <1>2
<1> QED
  BY <1>1, <1>2

LEMMA OutcomeKeeps ==
    ASSUME NEW g \in [Ids -> Operations], NEW n \in Ids,
           NEW x \in {"none", "finished", "failed", "refused"}, NEW h, h = [g EXCEPT ![n].outcome = x]
    PROVE  /\ h \in [Ids -> Operations]
           /\ \A p \in Ids : /\ h[p].result = g[p].result /\ h[p].id = g[p].id
                             /\ h[p].part = g[p].part /\ h[p].state = g[p].state
<1>1. DEFINE w == [g[n] EXCEPT !.outcome = x]
<1>2. /\ w \in Operations /\ w.result = g[n].result /\ w.id = g[n].id /\ w.part = g[n].part
      /\ w.state = g[n].state
  <2>1. g[n] \in Operations
    OBVIOUS
  <2> QED
    BY <2>1 DEF Operations
<1>3. h = [g EXCEPT ![n] = w]
  OBVIOUS
<1> HIDE DEF w
<1> QED
  BY <1>2, <1>3

LEMMA RunUploadKeeps ==
    ASSUME Inv, tasks # <<>>, Head(tasks).do = "upload", RunUpload(Head(tasks).o)
    PROVE  \A p \in Ids : Keeps(op[p], op'[p])
<1> DEFINE o == Head(tasks).o
           u == New(Of(o), Of(o).loc \in loader.sizes)
<1>1. o \in Ids /\ op[o].state = 0 /\ op \in [Ids -> Operations]
  BY LoaderFacts, LoaderTaskFields, LoaderState DEF Unknown
<1>2. CASE loader.paths[Of(o).loc] # 0
  <2>1. op' = [op EXCEPT ![o].outcome = "refused"]
    BY <1>2 DEF RunUpload
  <2> HIDE DEF o
  <2> QED
    BY <1>1, <2>1, OutcomeKeeps DEF Keeps
<1>3. CASE loader.paths[Of(o).loc] = 0
  <2>1. op' = [op EXCEPT ![o] = u] \/ op' = [op EXCEPT ![o] = [u EXCEPT !.state = 1]]
    BY <1>3 DEF RunUpload
  <2>2. u.result = {} /\ [u EXCEPT !.state = 1].result = {}
    BY DEF New
  <2> HIDE DEF o, u
  <2> QED
    BY <1>1, <2>1, <2>2 DEF Keeps
<1> QED
  BY <1>2, <1>3

LEMMA RunEndKeeps ==
    ASSUME Inv, tasks # <<>>, Head(tasks).do \in {"failed", "finished"},
           RunEnd(Head(tasks).o, Head(tasks).do)
    PROVE  \A p \in Ids : Keeps(op[p], op'[p])
<1> DEFINE o     == Head(tasks).o
           out   == IF op[o].outcome = "none" THEN Head(tasks).do ELSE op[o].outcome
           ended == [op EXCEPT ![o].outcome = out]
           n     == Head(loader.queue)
           x     == IF ended[n].state = 0 THEN 1 ELSE ended[n].state
<1>1. o \in Ids /\ op \in [Ids -> Operations]
  BY LoaderFacts, LoaderTaskFields, LoaderState
<1>2. op' = ended \/ op' = [ended EXCEPT ![n].state = x]
  BY DEF RunEnd
<1>3. out \in {"none", "finished", "failed", "refused"}
  <2>1. op[o] \in Operations
    BY <1>1
  <2> HIDE DEF o
  <2> QED
    BY <2>1 DEF Operations
<1>4. ended = [op EXCEPT ![o].outcome = out]
  OBVIOUS
<1>5. op' = [ended EXCEPT ![n].state = x] \/ op' = ended
  BY <1>2
<1> HIDE DEF o, out, ended, n, x
<1>6. /\ ended \in [Ids -> Operations]
      /\ \A p \in Ids : ended[p].result = op[p].result /\ ended[p].id = op[p].id /\ ended[p].part = op[p].part
  BY <1>1, <1>3, <1>4, OutcomeKeeps
<1>7. \A p \in Ids : /\ op'[p].result = ended[p].result /\ op'[p].id = ended[p].id
                     /\ op'[p].part = ended[p].part
  <2>1. CASE op' = [ended EXCEPT ![n].state = x]
    BY <1>6, <2>1, StateKeeps
  <2>2. CASE op' = ended
    BY <2>2
  <2> QED
    BY <1>5, <2>1, <2>2
<1> QED
  BY <1>6, <1>7 DEF Keeps

LEMMA RunCancelKeeps ==
    ASSUME Inv, tasks # <<>>, Head(tasks).do = "cancel", RunCancel(Head(tasks).loc)
    PROVE  /\ \A p \in Ids : Keeps(op[p], op'[p])
           /\ at'.kind = at.kind /\ at'.o = at.o
<1> DEFINE o == loader.paths[Head(tasks).loc]
           v == Stops(op[o], 2)
           late == at.late \/ (at.kind # "idle" /\ op[o].state = 1)
<1>1. op \in [Ids -> Operations] /\ at \in Places /\ o \in Ids \cup {0}
  BY LoaderFacts, LoaderTaskFields, LoaderState, StageState
<1>2. \/ op' = op /\ at' = at
      \/ /\ o \in Ids /\ op' = [op EXCEPT ![o] = v]
         /\ at' = IF at.o = o THEN [at EXCEPT !.late = late] ELSE at
  BY <1>1 DEF RunCancel, Stops
<1>3. at'.kind = at.kind /\ at'.o = at.o
  <2> HIDE DEF o, late
  <2> QED
    BY <1>1, <1>2 DEF Places
<1>4. o \in Ids => v.result = op[o].result /\ v.id = op[o].id /\ v.part = op[o].part
  <2> SUFFICES ASSUME o \in Ids PROVE v.result = op[o].result /\ v.id = op[o].id /\ v.part = op[o].part
    OBVIOUS
  <2>1. op[o] \in Operations
    BY <1>1
  <2> HIDE DEF o
  <2> QED
    BY <2>1 DEF Stops, Operations
<1> HIDE DEF o, v
<1>5. \A p \in Ids : op'[p].result = op[p].result /\ op'[p].id = op[p].id /\ op'[p].part = op[p].part
  BY <1>1, <1>2, <1>4
<1> QED
  BY <1>3, <1>5 DEF Keeps

(* The stage queue has what it had.                                          *)
StageKept == \A i \in DOMAIN stage : \E j \in DOMAIN stage' : stage'[j] = stage[i]

LEMMA AddedKept ==
    ASSUME Inv, NEW t, stage' = Append(stage, t)
    PROVE  StageKept
<1>1. stage \in Seq(StageTasks)
  BY StageState
<1>2. \A i \in DOMAIN stage : i \in DOMAIN Append(stage, t) /\ Append(stage, t)[i] = stage[i]
  BY ONLY <1>1
<1> QED
  BY <1>2 DEF StageKept

LEMMA RunLoaderTaskKeeps ==
    ASSUME Inv, RunLoaderTask
    PROVE  (\A p \in Ids : Keeps(op[p], op'[p])) /\ at'.kind = at.kind /\ at'.o = at.o /\ StageKept
<1> DEFINE t == Head(tasks)
<1>1. tasks # <<>> /\ t.do \in {"upload", "failed", "finished", "cancel", "data", "network"}
  BY LoaderFacts, LoaderTaskFields DEF RunLoaderTask
<1>2. stage' = stage => StageKept
  BY DEF StageKept
<1>3. op' = op => \A p \in Ids : Keeps(op[p], op'[p])
  BY DEF Keeps
<1>4. CASE t.do = "upload"
  <2>1. RunUpload(t.o) /\ at' = at
    BY <1>4 DEF RunLoaderTask
  <2>2. stage' = stage \/ \E x : stage' = Append(stage, x)
    BY <2>1 DEF RunUpload
  <2> QED
    BY <1>1, <1>2, <1>4, <2>1, <2>2, RunUploadKeeps, AddedKept
<1>5. CASE t.do \in {"failed", "finished"}
  <2>1. RunEnd(t.o, t.do) /\ at' = at
    BY <1>5 DEF RunLoaderTask
  <2>2. stage' = stage \/ \E x : stage' = Append(stage, x)
    BY <2>1 DEF RunEnd
  <2> QED
    BY <1>1, <1>2, <1>5, <2>1, <2>2, RunEndKeeps, AddedKept
<1>6. CASE t.do = "cancel"
  <2>1. RunCancel(t.loc)
    BY <1>6 DEF RunLoaderTask
  <2>2. stage' = stage \/ \E x : stage' = Append(stage, x)
    BY <2>1 DEF RunCancel
  <2> QED
    BY <1>1, <1>2, <1>6, <2>1, <2>2, RunCancelKeeps, AddedKept
<1>7. CASE t.do = "data"
  <2>1. RunData(t) /\ at' = at
    BY <1>7 DEF RunLoaderTask
  <2>2. op' = op /\ (stage' = stage \/ \E x : stage' = Append(stage, x))
    BY <2>1 DEF RunData
  <2> QED
    BY <1>2, <1>3, <2>1, <2>2, AddedKept
<1>8. CASE t.do = "network"
  <2>1. RunNetwork(t.slow) /\ at' = at
    BY <1>8 DEF RunLoaderTask
  <2>2. op' = op
    BY <2>1 DEF RunNetwork
  <2>3. StageKept
    <3>1. PICK c \in Nat : \E more \in [1..c -> StageTasks] : stage' = stage \o more
      BY <1>1, <1>7, <1>8, <2>1, RunNetworkAppends
    <3>2. stage \in Seq(StageTasks)
      BY StageState
    <3>3. PICK more \in [1..c -> StageTasks] : stage' = stage \o more
      BY <3>1
    <3>4. /\ DOMAIN stage' = 1..Len(stage) + c /\ DOMAIN stage = 1..Len(stage) /\ Len(stage) \in Nat
          /\ \A i \in DOMAIN stage : stage'[i] = stage[i]
      BY ONLY <3>2, <3>3, ConcatAt
    <3> QED
      BY <3>4 DEF StageKept
  <2> QED
    BY <1>3, <2>1, <2>2, <2>3
<1> QED
  BY <1>1, <1>4, <1>5, <1>6, <1>7, <1>8

LEMMA SameGrows ==
    ASSUME Inv, UNCHANGED <<world, made>>, mixed \subseteq mixed', \A id, k : On(id, k) => On(id, k)'
    PROVE  Grows
<1>1. Len(made) \in Nat
  BY StageState
<1> QED
  BY <1>1 DEF Grows

LEMMA KeptOvers ==
    ASSUME Inv, Inv', Numbered, Grows, Overs, \A p \in Ids : Keeps(op[p], op'[p]),
           at'.kind = "finish" => at'.kind = at.kind /\ at'.o = at.o
    PROVE  Overs'
<1>1. ASSUME at'.kind = "finish"
      PROVE  \E o \in Ids : \E id, n :
                /\ at'.o = o /\ op'[o].id = id /\ op'[o].part = n
                /\ at.kind = "finish" /\ at.o = o /\ op[o].id = id /\ op[o].part = n
  <2>1. at.kind = "finish" /\ at'.o = at.o /\ at.o \in Ids
    BY <1>1, StageState
  <2>2. op[at.o].state # 0
    <3> DEFINE o == at.o
    <3>1. View(o, Of(o), op[o], Mine(wire, o), stage, Kind(o, at), Pending(o, at))
      BY <2>1, LoaderState
    <3>2. Kind(o, at) # "idle"
      BY <2>1 DEF Kind
    <3> HIDE DEF o
    <3>3. op[o].state # 0
      BY <3>1, <3>2, Inside
    <3> QED
      BY <3>3 DEF o
  <2> QED
    BY <2>1, <2>2 DEF Keeps
<1>2. \A o \in Ids : \A file : file \in op'[o].result => file \in op[o].result
  BY DEF Keeps
<1> QED
  BY <1>1, <1>2, OversStep

LEMMA RunLoaderTaskFinishing ==
    ASSUME Inv, Inv', Apartness, Progress, Finishing, RunLoaderTask
    PROVE  Finishing'
<1>1. UNCHANGED <<world, made, server, wire>> /\ mixed \subseteq mixed'
  BY DEF RunLoaderTask
<1>2. QuietOps
  BY RunLoaderTaskApart DEF Calm
<1>3. (\A p \in Ids : Keeps(op[p], op'[p])) /\ at'.kind = at.kind /\ at'.o = at.o /\ StageKept
  BY RunLoaderTaskKeeps
<1>4. \A id, k : On(id, k) => On(id, k)'
  BY <1>1 DEF On
<1>5. Overs'
  BY <1>1, <1>3, <1>4, SameGrows, KeptOvers DEF Finishing, Progress
<1>6. ASSUME NEW o \in Ids, Same(op[o], op'[o]) PROVE FlightsKept(o)
  <2>1. op'[o].guid = op[o].guid
    BY <1>6 DEF Same
  <2>2. \A r \in wire : \E x \in wire' : Copy(r, x)
    BY <1>1 DEF Copy
  <2> QED
    BY <1>3, <2>1, <2>2, FlightsGrown DEF StageKept
<1> QED
  BY <1>1, <1>2, <1>4, <1>5, <1>6, CalmFinishing

LEMMA ApplicationFinishing ==
    ASSUME Inv, Inv', Apartness, Progress, Finishing,
           UNCHANGED <<world, op, stage, at, wire, server, made, mixed>>
    PROVE  Finishing'
<1>1. QuietOps
  BY DEF QuietOps, Quiet, Same
<1>2. \A id, k : On(id, k) => On(id, k)'
  BY DEF On
<1>3. Overs'
  BY <1>2, SameGrows, KeptOvers DEF Finishing, Progress, Keeps
<1>4. ASSUME NEW o \in Ids PROVE FlightsKept(o)
  BY FlightsGrown DEF Copy
<1> QED
  BY <1>1, <1>2, <1>3, <1>4, CalmFinishing

LEMMA RestartFinishing ==
    ASSUME Inv, Inv', Progress, Finishing, Restart
    PROVE  Finishing'
<1>1. /\ UNCHANGED <<world, made, server>> /\ at'.kind = "idle" /\ wire' = {} /\ mixed' = mixed
      /\ op' = [o \in Ids |-> New(Of(o), FALSE)]
  BY DEF Restart, Idle
<1>2. Ids' = Ids
  BY <1>1, SameWorld
<1>3. ASSUME NEW o \in Ids
      PROVE  ~op'[o].open /\ ~op'[o].nextFirst /\ op'[o].result = {}
  BY <1>1 DEF New
<1>4. \A o \in Ids : Whole(o)'
  BY <1>3 DEF Whole, Running
<1>5. Overs'
  BY <1>1, <1>2, <1>3 DEF Overs, Ended
<1>6. Timely'
  <2>1. \A q \in server : Timed(q)'
    BY <1>1 DEF Finishing, Timely, Timed
  <2> QED
    BY <1>1, <1>2, <1>3, <2>1 DEF Timely, OpTimed, Running
<1> QED
  BY <1>2, <1>4, <1>5, <1>6 DEF Finishing

(* A request is written, or answered.                                        *)
LEMMA WrittenFinishing ==
    ASSUME Inv, Inv', Apartness, Progress, Finishing, NEW r \in wire, Written(r)
    PROVE  Finishing'
<1> DEFINE w == [r EXCEPT !.written = TRUE]
<1>1. /\ UNCHANGED <<world, op, at, server, made, mixed>> /\ wire' = (wire \ {r}) \cup {w}
      /\ \E t : stage' = Append(stage, t)
  BY DEF Written
<1>2. r \in Requests
  BY StageState
<1>3. Copy(w, r) /\ Copy(r, w) /\ w.id = r.id /\ w.part = r.part /\ w.early = r.early
  BY <1>2 DEF Requests, Copy
<1> HIDE DEF w
<1>4. QuietOps
  BY <1>1 DEF QuietOps, Quiet, Same
<1>5. \A id, k : On(id, k) => On(id, k)'
  BY <1>1 DEF On
<1>6. Overs'
  BY <1>1, <1>5, SameGrows, KeptOvers DEF Finishing, Progress, Keeps
<1>7. ASSUME NEW o \in Ids PROVE FlightsKept(o)
  <2>1. \A x \in wire : \E y \in wire' : Copy(x, y)
    BY <1>1, <1>3 DEF Copy
  <2>2. StageKept
    BY <1>1, AddedKept
  <2> QED
    BY <1>1, <2>1, <2>2, FlightsGrown DEF StageKept
<1>8. \A x \in wire' : \E y \in wire : x.id = y.id /\ x.part = y.part /\ x.early = y.early
  BY <1>1, <1>3
<1> QED
  BY <1>1, <1>4, <1>5, <1>6, <1>7, <1>8, CalmFinishing

LEMMA AnswerFinishing ==
    ASSUME Inv, Inv', Apartness, Progress, Finishing, NEW r \in wire, NEW ok \in BOOLEAN, Answer(r, ok)
    PROVE  Finishing'
<1> DEFINE t == [do |-> "answer", o |-> r.o, r |-> r, ok |-> ok]
<1>1. /\ UNCHANGED <<world, op, at, made, mixed>> /\ wire' = wire \ {r}
      /\ stage' = Append(stage, t) /\ server' = IF ok THEN Put(server, r) ELSE server
  BY DEF Answer
<1>2. t.do = "answer" /\ t.o = r.o /\ t.r = r
  OBVIOUS
<1> HIDE DEF t
<1>3. QuietOps
  BY <1>1 DEF QuietOps, Quiet, Same
<1>4. \A id, k : On(id, k) => On(id, k)'
  <2>1. CASE ok
    BY <1>1, <2>1, PutOn
  <2>2. CASE ~ok
    BY <1>1, <2>2 DEF On
  <2> QED
    BY <2>1, <2>2
<1>5. Overs'
  BY <1>1, <1>4, SameGrows, KeptOvers DEF Finishing, Progress, Keeps
<1>6. StageKept /\ \E j \in DOMAIN stage' : stage'[j] = t
  <2>1. stage \in Seq(StageTasks)
    BY StageState
  <2>2. Len(stage) + 1 \in DOMAIN Append(stage, t) /\ Append(stage, t)[Len(stage) + 1] = t
    BY ONLY <2>1
  <2> QED
    BY <1>1, <2>2, AddedKept
<1>7. ASSUME NEW o \in Ids PROVE FlightsKept(o)
  <2> SUFFICES ASSUME NEW k, Flies(o, k) PROVE Flies(o, k)'
    BY DEF FlightsKept
  <2>1. ASSUME NEW x \in wire, x.o = o, x.guid = op[o].guid, x.part = k PROVE Flies(o, k)'
    <3>1. CASE x = r
      BY <1>1, <1>2, <1>6, <2>1, <3>1 DEF Flies
    <3>2. CASE x # r
      BY <1>1, <2>1, <3>2 DEF Flies
    <3> QED
      BY <3>1, <3>2
  <2>2. ASSUME NEW i \in DOMAIN stage, stage[i].do = "answer", stage[i].o = o,
               stage[i].r.guid = op[o].guid, stage[i].r.part = k
        PROVE  Flies(o, k)'
    <3>1. PICK j \in DOMAIN stage' : stage'[j] = stage[i]
      BY <1>6 DEF StageKept
    <3> QED
      BY <1>1, <2>2, <3>1 DEF Flies
  <2> QED
    BY <2>1, <2>2 DEF Flies
<1>8. \A q \in server' : Timed(q) \/ q \in server
  <2>1. Timed(r)
    BY DEF Finishing, Timely
  <2>2. ASSUME NEW q, q = [id |-> r.id, part |-> r.part, from |-> r.from, bytes |-> r.bytes,
                           early |-> r.early]
        PROVE  Timed(q)
    BY <2>1, <2>2 DEF Timed
  <2> QED
    BY <1>1, <2>2 DEF Put
<1> QED
  BY <1>1, <1>3, <1>4, <1>5, <1>7, <1>8, CalmFinishing

-----------------------------------------------------------------------------
(* What is reported is what the end of the upload was decided for.           *)
LEMMA FinishResult ==
    ASSUME Inv, Finish
    PROVE  \A p \in Ids : \A file : file \in op'[p].result =>
              \/ file \in op[p].result
              \/ /\ at.kind = "finish" /\ at.o = p
                 /\ file.id = op[p].id /\ file.parts = op[p].part
<1> DEFINE o == at.o
           file0 == [id |-> op[o].id, parts |-> op[o].part]
           v == [op[o] EXCEPT !.state = 3, !.open = FALSE, !.result = {file0}]
<1>1. at.kind = "finish" /\ (op' = op \/ op' = [op EXCEPT ![o] = v])
  BY DEF Finish
<1>2. op[o] \in Operations /\ op \in [Ids -> Operations]
  BY <1>1, LoaderState, StageState
<1>3. v.result = {file0} /\ file0.id = op[o].id /\ file0.parts = op[o].part
  <2> HIDE DEF o, file0
  <2>1. v.result = {file0}
    BY <1>2 DEF Operations
  <2>2. file0.id = op[o].id /\ file0.parts = op[o].part
    BY DEF file0
  <2> QED
    BY <2>1, <2>2
<1> HIDE DEF v, file0
<1>4. ASSUME NEW p \in Ids, NEW file, file \in op'[p].result
      PROVE  file \in op[p].result \/ (o = p /\ file = file0)
  <2>1. CASE op' = op
    BY <1>4, <2>1
  <2>2. CASE op' = [op EXCEPT ![o] = v]
    <3>1. op'[p] = (IF p = o THEN v ELSE op[p])
      BY <1>2, <2>2
    <3> QED
      BY <1>3, <1>4, <3>1
  <2> QED
    BY <1>1, <2>1, <2>2
<1> QED
  BY <1>1, <1>3, <1>4

LEMMA FinishFinishing ==
    ASSUME Inv, Inv', Apartness, Progress, Finishing, Finish
    PROVE  Finishing'
<1>1. UNCHANGED <<world, stage, wire, server, made, mixed>> /\ at'.kind = "idle"
  BY DEF Finish, Idle
<1>2. QuietOps
  BY FinishApart DEF Calm
<1>3. \A id, k : On(id, k) => On(id, k)'
  BY <1>1 DEF On
<1>4. Grows
  BY <1>1, <1>3, SameGrows
<1>5. ASSUME NEW p \in Ids, NEW file, file \in op'[p].result
      PROVE  file \in op[p].result \/ Over(p, file.id, file.parts)'
  <2>1. file \in op[p].result \/ Over(p, file.id, file.parts)
    BY <1>5, FinishResult DEF Finishing, Overs
  <2> QED
    BY <1>4, <2>1, OverKept DEF Progress
<1>6. Overs'
  BY <1>1, <1>4, <1>5, OversStep DEF Progress, Finishing
<1>7. ASSUME NEW o \in Ids, Same(op[o], op'[o]) PROVE FlightsKept(o)
  BY <1>1, <1>7, FlightsGrown DEF Copy, Same
<1> QED
  BY <1>1, <1>2, <1>3, <1>6, <1>7, CalmFinishing

-----------------------------------------------------------------------------
(* A call of startUploadRequest reports nothing; the number of parts is      *)
(* computed when the file is opened.                                         *)
Computed(v, f) ==
    /\ v.total = (IF v.est THEN f.estimate ELSE f.size)
    /\ v.parts = CalcTotalPartsCount(v, f.big)

(* Where a file is opened by an upload that is at its beginning.             *)
Begins(v, f, saved) ==
    \/ v.later /\ ~v.last /\ v.part = 1 /\ v.pos = HeadOf(v, f.big)
    \/ ~v.later /\ ~v.last /\ v.part = 0 /\ v.pos = 0
    \/ /\ ~v.later /\ ~v.est /\ v.id = saved.id /\ saved.uploaded > 0
       /\ v.part = saved.uploaded \div v.chunk
       /\ v.last => v.part > 0 /\ (v.part * v.chunk > f.size \/ v.parts = v.part + 1)

LEMMA OpenedComputes ==
    ASSUME Inv, NEW o \in Ids, NEW v \in Opened(o)
    PROVE  /\ Computed(v, Of(o)) /\ v.result = op[o].result
           /\ Rewound(op[o]) => Begins(v, Of(o), prefs[Of(o).loc])
           /\ v.est => v.id = Len(made) + 1
<1> DEFINE u     == op[o]
           f     == Of(o)
           x     == Sized(u, f)
           saved == prefs[f.loc]
<1>1. u \in Operations /\ f \in Uploads /\ Len(made) \in Nat /\ saved \in Preferences
  BY LoaderState, StageState
<1>2. /\ x \in Operations /\ x.chunk \in {20, 40} /\ x.chunk \in Nat
      /\ x.total = (IF u.est THEN f.estimate ELSE f.size) /\ x.parts = CalcTotalPartsCount(x, f.big)
      /\ x.est = u.est /\ x.part = u.part /\ x.last = u.last /\ x.later = u.later
      /\ x.result = u.result
  BY <1>1, SizedFields, ChunkType
<1>3. \/ v = Renewed(x, f)
      \/ /\ ~x.later /\ ~x.est
         /\ \/ saved.uploaded > 0 /\ v = Resumed(x, f, saved)
            \/ v = Expired(x, saved)
  BY DEF Opened, Expired
<1> HIDE DEF x, saved, u, f
<1>4. ASSUME SameRest(x, v)
      PROVE  /\ Computed(v, f) /\ v.result = u.result /\ v.est = x.est /\ v.later = x.later
             /\ v.chunk = x.chunk /\ v.parts = x.parts /\ HeadOf(v, f.big) = HeadOf(x, f.big)
  BY <1>2, <1>4 DEF SameRest, Computed, CalcTotalPartsCount, HeadOf
<1>5. CASE v = Renewed(x, f)
  <2>1. /\ SameRest(x, v) /\ v.id = Len(made) + 1 /\ v.last = x.last
        /\ x.later => v.pos = HeadOf(x, f.big) /\ v.part = 1
        /\ ~x.later => v.pos = 0 /\ v.part = x.part
    BY <1>1, <1>2, <1>5, RenewedFields
  <2>2. Rewound(u) => Begins(v, f, saved)
    BY <1>2, <1>4, <2>1 DEF Rewound, Begins
  <2> QED
    BY <1>4, <2>1, <2>2 DEF u, f, saved
<1>6. CASE ~x.later /\ ~x.est /\ saved.uploaded > 0 /\ v = Resumed(x, f, saved)
  <2>1. /\ SameRest(x, v) /\ v.id = saved.id /\ v.part = saved.uploaded \div x.chunk
        /\ v.last => v.part > 0 /\ (v.part * x.chunk > f.size \/ x.parts = v.part + 1)
    <3> DEFINE n == saved.uploaded \div x.chunk
    <3>1. /\ SameRest(x, v) /\ v.id = saved.id /\ v.part = n
          /\ v.last = (~f.big /\ n > 0 /\ (n * x.chunk > f.size \/ x.parts = n + 1))
      BY <1>1, <1>2, <1>6, ResumedFields
    <3> HIDE DEF n
    <3>2. v.last => v.part > 0 /\ (v.part * x.chunk > f.size \/ x.parts = v.part + 1)
      BY <3>1
    <3> QED
      BY <3>1, <3>2 DEF n
  <2>2. Begins(v, f, saved)
    BY <1>4, <1>6, <2>1 DEF Begins
  <2> QED
    BY <1>4, <1>6, <2>1, <2>2 DEF u, f, saved
<1>7. CASE ~x.later /\ ~x.est /\ v = Expired(x, saved)
  <2>1. SameRest(x, v) /\ v.id = saved.id /\ v.pos = 0 /\ v.part = x.part /\ v.last = x.last
    <3>1. x \in Operations /\ saved \in Preferences
      BY <1>1, <1>2
    <3>2. v = Expired(x, saved)
      BY <1>7
    <3>3. /\ v \in Operations /\ SameRest(x, v)
          /\ v.id = saved.id /\ v.pos = 0 /\ v.read = x.read /\ v.part = x.part
          /\ v.savedPart = x.part /\ v.last = x.last
      BY ONLY <3>1, <3>2, ExpiredIs
    <3> QED
      BY ONLY <3>3
  <2>2. Rewound(u) => Begins(v, f, saved)
    BY <1>2, <1>4, <1>7, <2>1 DEF Rewound, Begins
  <2> QED
    BY <1>4, <1>7, <2>1, <2>2 DEF u, f, saved
<1> QED
  BY <1>3, <1>5, <1>6, <1>7

LEMMA CallResult ==
    ASSUME Inv, NEW o \in Ids, NEW v, v \in IF op[o].open THEN {op[o]} ELSE Opened(o)
    PROVE  /\ After(v, Of(o)).result = op[o].result
           /\ After(v, Of(o)).parts = v.parts
<1> DEFINE f == Of(o)
           w == After(v, f)
<1>1. v \in Operations /\ f \in Uploads
  BY CallFields, StageState
<1>2. v.result = op[o].result
  BY OpenedComputes
<1>3. CASE ~Reads(v, f)
  BY <1>2, <1>3 DEF After
<1>4. CASE Reads(v, f)
  <2>1. w = ReadPart(v, f) /\ Bytes(v, f) > 0
    BY <1>4 DEF After, Reads
  <2> HIDE DEF w, f
  <2>2. SameFile(v, w)
    BY <1>1, <2>1, ReadFields
  <2> QED
    BY <1>2, <2>2 DEF SameFile, w, f
<1> QED
  BY <1>3, <1>4

LEMMA StartUploadRequestResult ==
    ASSUME Inv, StartUploadRequest
    PROVE  at'.kind # "finish" /\ \A p \in Ids : op'[p].result = op[p].result
<1> DEFINE o == at.o
<1>1. at.kind = "send" /\ o \in Ids /\ at' = Called /\ at \in Places /\ op \in [Ids -> Operations]
  BY StageState, LoaderState DEF StartUploadRequest
<1>2. at'.kind # "finish"
  BY <1>1 DEF Called, Places
<1>3. \/ op' = op
      \/ op' = [op EXCEPT ![o] = Stops(op[o], 4)]
      \/ \E v \in IF op[o].open THEN {op[o]} ELSE Opened(o) : op' = [op EXCEPT ![o] = After(v, Of(o))]
  BY <1>1 DEF StartUploadRequest, Fail, Stops, After, Reads
<1> HIDE DEF o
<1>4. Stops(op[o], 4).result = op[o].result
  <2>1. op[o] \in Operations
    BY <1>1
  <2> QED
    BY <2>1 DEF Stops, Operations
<1>5. \A p \in Ids : op'[p].result = op[p].result
  <2>1. CASE op' = [op EXCEPT ![o] = Stops(op[o], 4)]
    BY <1>1, <1>4, <2>1
  <2>2. ASSUME NEW v \in IF op[o].open THEN {op[o]} ELSE Opened(o), op' = [op EXCEPT ![o] = After(v, Of(o))]
        PROVE  \A p \in Ids : op'[p].result = op[p].result
    <3>1. After(v, Of(o)).result = op[o].result
      BY <1>1, <2>2, CallResult
    <3> QED
      BY <1>1, <2>2, <3>1
  <2> QED
    BY <1>3, <2>1, <2>2
<1> QED
  BY <1>2, <1>5

-----------------------------------------------------------------------------
(* What a running upload whose file is open knows before it reads: as Plan,  *)
(* but it may have been gone on with in front of the last part.              *)
Almost(u, cut) ==
    /\ Proper(cut)
    /\ u.later \/ u.nextFirst \/ u.last \/ cut.origin = 0
    /\ u.est \/ u.parts = CountOf(cut)
    /\ u.nextFirst => Filled(cut, u.part)
    /\ u.last => \/ Filled(cut, u.part)
                 \/ Filled(cut, u.part + 1) /\ u.pos = cut.origin + u.part * cut.chunk

Ordered(u) ==
    /\ ~(u.later /\ u.nextFirst) /\ (u.last => ~u.later /\ ~u.nextFirst)
    /\ u.later => u.part >= 1

LEMMA CountNext ==
    ASSUME NEW cut \in Cuts, cut.chunk \in {20, 40}, NEW n \in Int
    PROVE  /\ n + 1 = CountOf(cut) <=> /\ n * cut.chunk < cut.size - cut.origin
                                       /\ cut.size - cut.origin <= n * cut.chunk + cut.chunk
           /\ n = CountOf(cut) => cut.size - cut.origin <= n * cut.chunk
           /\ n * cut.chunk \in Int
<1> DEFINE d == cut.size - cut.origin
<1>1. n + 1 \in Int /\ (n + 1) - 1 = n /\ d \in Int
  BY DEF Cuts
<1>2. /\ n + 1 = CountOf(cut) <=> n * cut.chunk < d /\ d <= (n + 1) * cut.chunk
      /\ n = CountOf(cut) => d <= n * cut.chunk
  BY <1>1, CountIs
<1> HIDE DEF d
<1>3. n * cut.chunk \in Int /\ (n + 1) * cut.chunk = n * cut.chunk + cut.chunk
  <2>1. CASE cut.chunk = 20
    BY <2>1
  <2>2. CASE cut.chunk = 40
    BY <2>2
  <2> QED
    BY <2>1, <2>2
<1> QED
  BY <1>2, <1>3 DEF d

(* Where a part is read, unless it is the first one that was kept back.      *)
LEMMA ReadsAt ==
    ASSUME NEW v \in Operations, NEW f \in Uploads, Reads(v, f), NEW cut \in Cuts,
           cut.chunk \in {20, 40}, Track(v, f, cut), v.est => v.avail <= f.size, ~v.nextFirst
    PROVE  /\ cut.size > 0 /\ v.part * cut.chunk < cut.size - cut.origin
           /\ v.part # CountOf(cut)
           /\ Bytes(v, f) # v.chunk => ~v.est /\ v.part + 1 = CountOf(cut)
<1> DEFINE m == v.part * cut.chunk
<1>1. /\ v.pos < f.size /\ v.pos = cut.origin + m /\ cut.size = f.size /\ cut.chunk = v.chunk
      /\ Bytes(v, f) = Less(cut.chunk, f.size - v.pos) /\ (v.est => v.pos = v.read)
  <2>1. Bytes(v, f) > 0
    BY DEF Reads
  <2> QED
    BY <2>1, TrackedBytes DEF Track
<1>2. /\ v.pos \in Nat /\ f.size \in Nat /\ v.part \in Int /\ v.read \in Nat /\ v.avail \in Nat
      /\ cut.origin \in Int /\ cut.size \in Nat
  BY DEF Operations, Uploads, Cuts
<1>3. /\ v.part + 1 = CountOf(cut) <=> m < cut.size - cut.origin /\ cut.size - cut.origin <= m + cut.chunk
      /\ v.part = CountOf(cut) => cut.size - cut.origin <= m
      /\ m \in Int
  BY <1>2, CountNext
<1> HIDE DEF m
<1>4. cut.size > 0 /\ m < cut.size - cut.origin /\ v.part # CountOf(cut)
  BY <1>1, <1>2, <1>3
<1>5. ASSUME v.est PROVE Bytes(v, f) = v.chunk
  <2>1. v.read + v.chunk <= v.avail
    <3>1. ~(v.read + v.chunk > v.avail) /\ v.chunk \in Nat
      BY <1>1, <1>5 DEF Reads, Waits
    <3> QED
      BY <1>2, <3>1
  <2>2. v.chunk <= f.size - v.pos
    BY <1>1, <1>2, <1>5, <2>1
  <2> QED
    BY <1>1, <1>2, <2>2 DEF Less
<1>6. ASSUME Bytes(v, f) # v.chunk PROVE v.part + 1 = CountOf(cut)
  <2>1. f.size - v.pos < cut.chunk
    BY <1>1, <1>2, <1>6 DEF Less
  <2> QED
    BY <1>1, <1>2, <1>3, <1>4, <2>1
<1> QED
  BY <1>4, <1>5, <1>6 DEF m

LEMMA ReadsPlan ==
    ASSUME NEW v \in Operations, NEW f \in Uploads, Reads(v, f), NEW cut \in Cuts,
           cut.chunk \in {20, 40}, Track(v, f, cut), v.est => v.avail <= f.size,
           Ordered(v), Almost(v, cut), NEW w, w = ReadPart(v, f)
    PROVE  /\ Plan(w, cut)
           /\ Gone(w) \subseteq Gone(v) \cup {IF v.nextFirst THEN 0 ELSE v.part}
           /\ w.nextFirst => ~w.est
           /\ v.later /\ w.est => w.later
<1> DEFINE n == v.part
<1>1. v.part \in Int /\ (v.est => ~v.nextFirst) /\ v.parts \in Int
  BY DEF Operations, Track
<1>2. /\ w.later = (v.later /\ ~Ends(v, f)) /\ w.last = EndOfFile(v, f)
      /\ w.nextFirst = (HeadIsDue(v, f) /\ ~EndOfFile(v, f))
      /\ w.part = (IF EndOfFile(v, f) /\ HeadIsDue(v, f) THEN v.parts ELSE IF v.nextFirst THEN 1 ELSE n + 1)
      /\ w.est = v.est /\ w.parts = v.parts /\ w \in Operations
  <2>1. Bytes(v, f) > 0
    BY DEF Reads
  <2> QED
    BY <2>1, ReadFields DEF SameFile
<1>3. CASE v.nextFirst
  <2>1. ~v.later /\ ~v.last /\ ~v.est /\ Filled(cut, n) /\ v.parts = CountOf(cut)
    BY <1>1, <1>3 DEF Ordered, Almost
  <2>2. Ends(v, f) /\ HeadIsDue(v, f) /\ EndOfFile(v, f)
    BY <1>3, <2>1 DEF Ends, HeadIsDue, EndOfFile
  <2>3. ~w.later /\ w.last /\ ~w.nextFirst /\ w.part = v.parts /\ v.parts = n
    BY <1>2, <2>1, <2>2 DEF Filled
  <2>4. Plan(w, cut)
    BY <1>2, <2>1, <2>3 DEF Plan, Almost
  <2>5. Gone(w) \subseteq Gone(v) \cup {0}
    BY <1>1, <2>1, <2>3 DEF Gone
  <2> QED
    BY <1>3, <2>1, <2>3, <2>4, <2>5
<1>4. CASE ~v.nextFirst
  <2>1. /\ cut.size > 0 /\ n # CountOf(cut) /\ n * cut.chunk < cut.size - cut.origin
        /\ Bytes(v, f) # v.chunk => ~v.est /\ n + 1 = CountOf(cut)
    BY <1>4, ReadsAt
  <2>2. v.last => Filled(cut, n + 1)
    BY <2>1 DEF Almost, Filled
  <2>3. Ends(v, f) => ~v.est /\ n + 1 = CountOf(cut)
    BY <1>4, <2>1 DEF Ends, Almost
  <2>4. ASSUME Ends(v, f) PROVE Filled(cut, n + 1)
    <3>1. CASE cut.origin # 0
      <4>1. v.later \/ v.last
        BY <1>4, <3>1 DEF Almost
      <4>2. v.later => n + 1 >= 2
        BY <1>1 DEF Ordered
      <4> QED
        BY <2>1, <2>2, <2>3, <2>4, <4>1, <4>2 DEF Filled
    <3>2. CASE cut.origin = 0
      BY <2>1, <2>3, <2>4, <3>2 DEF Filled
    <3> QED
      BY <3>1, <3>2
  <2>5. ~(EndOfFile(v, f) /\ HeadIsDue(v, f)) /\ w.part = n + 1
    <3>1. ~(EndOfFile(v, f) /\ HeadIsDue(v, f))
      BY <1>4 DEF EndOfFile, HeadIsDue, Ordered
    <3> QED
      BY <1>2, <1>4, <3>1
  <2>6. CASE ~Ends(v, f)
    <3>1. w.later = v.later /\ w.last = v.last /\ ~w.nextFirst
      <4>1. v.later \in BOOLEAN /\ v.last \in BOOLEAN
        BY DEF Operations
      <4> QED
        BY <1>2, <1>4, <2>6, <4>1 DEF HeadIsDue, EndOfFile
    <3>2. Plan(w, cut)
      BY <1>2, <1>4, <2>2, <2>5, <3>1 DEF Plan, Almost
    <3>3. Gone(w) \subseteq Gone(v) \cup {n}
      BY <1>1, <1>4, <2>5, <3>1 DEF Gone
    <3> QED
      BY <1>4, <3>1, <3>2, <3>3
  <2>7. CASE Ends(v, f)
    <3>1. Filled(cut, n + 1) /\ ~v.est
      BY <2>3, <2>4, <2>7
    <3>2. ~w.later /\ w.last = ~v.later /\ w.nextFirst = v.later
      <4>1. v.later \in BOOLEAN /\ v.last \in BOOLEAN
        BY DEF Operations
      <4> QED
        BY <1>2, <1>4, <2>7, <4>1 DEF HeadIsDue, EndOfFile, Ordered
    <3>3. Plan(w, cut)
      BY <1>2, <1>4, <2>5, <3>1, <3>2 DEF Plan, Almost
    <3>4. Gone(w) \subseteq Gone(v) \cup {n}
      BY <1>1, <1>4, <2>5, <3>2 DEF Gone
    <3> QED
      BY <1>2, <1>4, <3>1, <3>2, <3>3, <3>4
  <2> QED
    BY <2>6, <2>7
<1> QED
  BY <1>3, <1>4

(* Nothing is left to read.                                                  *)
LEMMA NoReadPlan ==
    ASSUME NEW v \in Operations, NEW f \in Uploads, ~Reads(v, f), NEW cut \in Cuts,
           cut.chunk \in {20, 40}, Track(v, f, cut), Ordered(v), Almost(v, cut)
    PROVE  Plan(v, cut)
<1> SUFFICES ASSUME v.last, Filled(cut, v.part + 1), v.pos = cut.origin + v.part * cut.chunk
             PROVE  FALSE
  BY DEF Almost, Plan
<1>1. ~v.est /\ ~v.nextFirst /\ cut.size = f.size /\ cut.chunk = v.chunk
  BY DEF Track, Ordered
<1>2. v.part * cut.chunk < cut.size - cut.origin /\ v.part * cut.chunk \in Int
  BY CountNext DEF Filled, Operations
<1>3. v.pos \in Nat /\ f.size \in Nat /\ cut.origin \in Int
  BY DEF Operations, Uploads, Cuts
<1>4. v.pos < f.size
  BY <1>1, <1>2, <1>3
<1>5. Bytes(v, f) > 0
  BY <1>1, <1>3, <1>4 DEF Bytes
<1> QED
  BY <1>1, <1>5 DEF Reads, Waits

(* A file is opened at the beginning, or at the point in the preferences.    *)
LEMMA CountComputed ==
    ASSUME NEW v \in Operations, NEW f \in Uploads, v.chunk \in {20, 40}, NEW cut \in Cuts,
           cut.size = f.size, cut.chunk = v.chunk, Computed(v, f), ~v.est,
           cut.origin = (IF v.later THEN HeadOf(v, f.big) - v.chunk ELSE 0)
    PROVE  v.parts = CountOf(cut)
<1> DEFINE h == HeadOf(v, f.big)
           s == f.size
<1>1. s \in Nat /\ h \in Nat
  BY DEF Uploads, HeadOf, HeadLength
<1>2. v.parts = (IF v.later THEN 1 + CeilDiv(s - h, v.chunk) ELSE CeilDiv(s, v.chunk))
  BY DEF Computed, CalcTotalPartsCount
<1>3. CountOf(cut) = (IF v.later THEN CeilDiv(s - (h - v.chunk), v.chunk) ELSE CeilDiv(s - 0, v.chunk))
  BY DEF CountOf
<1> HIDE DEF h, s
<1>4. CeilDiv(s - 0, v.chunk) = CeilDiv(s, v.chunk)
  BY <1>1
<1>5. CeilDiv(s - (h - v.chunk), v.chunk) = 1 + CeilDiv(s - h, v.chunk)
  <2>1. CASE v.chunk = 20
    <3>1. ((s - (h - 20)) + 20 - 1) \div 20 = 1 + ((s - h) + 20 - 1) \div 20
      BY ONLY <1>1
    <3> QED
      BY <2>1, <3>1 DEF CeilDiv
  <2>2. CASE v.chunk = 40
    <3>1. ((s - (h - 40)) + 40 - 1) \div 40 = 1 + ((s - h) + 40 - 1) \div 40
      BY ONLY <1>1
    <3> QED
      BY <2>2, <3>1 DEF CeilDiv
  <2> QED
    BY <2>1, <2>2
<1> QED
  BY <1>2, <1>3, <1>4, <1>5

LEMMA BeginsAlmost ==
    ASSUME NEW v \in Operations, NEW f \in Uploads, NEW saved \in Preferences, v.chunk \in {20, 40},
           NEW cut \in Cuts, cut.size = f.size, cut.chunk = v.chunk,
           cut.origin = v.pos - v.part * v.chunk, Computed(v, f), Begins(v, f, saved), ~v.nextFirst,
           saved.uploaded > 0 /\ v.id = saved.id =>
              /\ cut.origin = 0
              /\ \A k \in 0..saved.uploaded \div cut.chunk - 1 : LengthIn(cut, k) = cut.chunk
    PROVE  Almost(v, cut)
<1>1. v.chunk \in Nat /\ v.part \in Int /\ v.pos \in Nat
  BY DEF Operations
<1>2. CASE v.later /\ ~v.last /\ v.part = 1 /\ v.pos = HeadOf(v, f.big)
  <2>1. cut.origin = HeadOf(v, f.big) - v.chunk
    BY <1>1, <1>2
  <2>2. Proper(cut)
    BY <1>1, <2>1 DEF HeadOf, Proper
  <2>3. ~v.est => v.parts = CountOf(cut)
    BY <1>2, <2>1, CountComputed
  <2> QED
    BY <1>2, <2>2, <2>3 DEF Almost
<1>3. CASE ~v.later /\ ~v.last /\ v.part = 0 /\ v.pos = 0
  <2>1. cut.origin = 0
    BY <1>1, <1>3
  <2>2. ~v.est => v.parts = CountOf(cut)
    BY <1>3, <2>1, CountComputed
  <2> QED
    BY <1>3, <2>1, <2>2 DEF Almost, Proper
<1>4. CASE /\ ~v.later /\ ~v.est /\ v.id = saved.id /\ saved.uploaded > 0
           /\ v.part = saved.uploaded \div v.chunk
           /\ v.last => v.part > 0 /\ (v.part * v.chunk > f.size \/ v.parts = v.part + 1)
  <2>1. /\ cut.origin = 0
        /\ \A k \in 0..v.part - 1 : LengthIn(cut, k) = cut.chunk
    BY <1>4
  <2>2. v.parts = CountOf(cut)
    BY <1>4, <2>1, CountComputed
  <2>3. ASSUME v.last PROVE Filled(cut, v.part + 1) /\ v.pos = cut.origin + v.part * cut.chunk
    <3> DEFINE n == v.part
               m == n * cut.chunk
    <3>1. n > 0 /\ n - 1 \in 0..n - 1 /\ (m > f.size \/ v.parts = n + 1)
      BY <1>1, <1>4, <2>3
    <3>2. m \in Int /\ (n - 1) * cut.chunk = m - cut.chunk
      <4>1. CASE cut.chunk = 20
        BY <1>1, <4>1
      <4>2. CASE cut.chunk = 40
        BY <1>1, <4>2
      <4> QED
        BY <4>1, <4>2
    <3>3. Less(cut.chunk, cut.size - (n - 1) * cut.chunk) = cut.chunk
      <4>1. LengthIn(cut, n - 1) = cut.chunk
        BY <2>1, <3>1
      <4>2. n - 1 \in Int
        BY <1>1
      <4> QED
        BY <2>1, <4>1, <4>2, OriginParts
    <3>4. f.size \in Nat /\ cut.chunk \in Nat
      BY DEF Uploads
    <3>5. v.pos = m
      BY <1>1, <2>1, <3>2
    <3> HIDE DEF m, n
    <3>6. m <= f.size
      BY <3>2, <3>3, <3>4 DEF Less
    <3>7. v.parts = n + 1 /\ f.size > 0
      <4>1. m > 0
        <5>1. CASE cut.chunk = 20
          BY <1>1, <3>1, <5>1 DEF m, n
        <5>2. CASE cut.chunk = 40
          BY <1>1, <3>1, <5>2 DEF m, n
        <5> QED
          BY <5>1, <5>2
      <4> QED
        BY <3>1, <3>2, <3>4, <3>6, <4>1
    <3> QED
      BY <1>1, <2>1, <2>2, <3>2, <3>5, <3>7 DEF Filled, m, n
  <2> QED
    BY <1>4, <2>1, <2>2, <2>3 DEF Almost, Proper
<1> QED
  BY <1>2, <1>3, <1>4 DEF Begins

-----------------------------------------------------------------------------
(* The flags of the operation with its file open are in order.               *)
LEMMA CallsOrdered ==
    ASSUME Inv, NEW o \in Ids, NEW v, Calls(o, v)
    PROVE  /\ Ordered(v) /\ v.later = op[o].later /\ v.nextFirst = op[o].nextFirst
           /\ v.est = op[o].est
<1>1. /\ Of(o) \in Uploads /\ op[o] \in Operations /\ Len(made) \in Nat
      /\ prefs[Of(o).loc] \in Preferences
  BY StageState, LoaderState
<1>2. Flags(op[o])
  BY LoaderState DEF View
<1>3. CASE op[o].open
  BY <1>2, <1>3 DEF Calls, Flags, Ordered
<1>4. CASE ~op[o].open
  <2>1. Opens(op[o], Of(o), v)
    BY <1>1, <1>4, OpenedOpens DEF Calls
  <2> QED
    BY <1>2, <2>1 DEF Opens, Flags, Ordered
<1> QED
  BY <1>3, <1>4

(* The way in which its file is cut.                                         *)
LEMMA CallsTrack ==
    ASSUME Inv, Inv', Apartness, Progress, NEW o \in Ids, NEW v, Calls(o, v), op[o].state = 1,
           NEW l, NEW cut, Clean(l, v.id, cut)'
    PROVE  /\ cut \in Cuts /\ cut.chunk \in {20, 40} /\ cut.chunk = v.chunk
           /\ Track(v, Of(o), cut) /\ (v.est => v.avail <= Of(o).size)
<1>1. v.id # 0 /\ made'[v.id].cuts = {cut} /\ v.id \in Nat
  BY CallsFields DEF Clean, Operations
<1>2. /\ Tracks(v, Of(o), made') /\ v.id <= Len(made') /\ v.chunk \in {20, 40}
  BY <1>1, OpenTracks
<1>3. Track(v, Of(o), cut)
  BY <1>1, <1>2 DEF Tracks
<1>4. cut \in Cuts
  <2>1. made' \in Seq(Identifiers)
    BY DEF Inv, Types, MadeType
  <2>2. v.id \in 1..Len(made')
    BY <1>1, <1>2, <2>1
  <2>3. made'[v.id] \in Identifiers
    BY <2>1, <2>2
  <2> QED
    BY <1>1, <2>3 DEF Identifiers
<1>5. v.est => v.avail <= Of(o).size
  BY CallsFields DEF Apartness, OpsHold
<1> QED
  BY <1>2, <1>3, <1>4, <1>5 DEF Track

LEMMA CallsAlmost ==
    ASSUME Inv, Inv', Apartness, Progress, NEW o \in Ids, Whole(o), NEW v, Calls(o, v), op[o].state = 1,
           NEW l, l = Of(o).loc, NEW cut, Clean(l, v.id, cut)'
    PROVE  Almost(v, cut) /\ \A k \in Gone(v) : On(v.id, k) \/ (op[o].open /\ Flies(o, k))
<1>1. Numbered /\ Resumable /\ Grows /\ v.id \in Nat /\ l \in Locations
  BY CallsLeave, CallsFields, StageState DEF Progress, Operations
<1>2. CASE op[o].open
  <2>1. v = op[o] /\ v.id <= Len(made) /\ Running(v)
    BY <1>1, <1>2 DEF Calls, Numbered, Running
  <2>2. Clean(l, v.id, cut)
    BY <1>1, <2>1, CleanKept
  <2>3. Plan(v, cut) /\ \A k \in Gone(v) : On(v.id, k) \/ Flies(o, k)
    BY <2>1, <2>2 DEF Whole
  <2> QED
    BY <1>2, <2>3 DEF Plan, Almost
<1>3. CASE ~op[o].open
  <2> DEFINE f == Of(o)
             saved == prefs[l]
  <2>1. /\ v \in Operations /\ f \in Uploads /\ saved \in Preferences
    BY <1>1, CallsFields, StageState
  <2>2. v \in Opened(o) /\ Rewound(op[o])
    BY <1>3, OpensAnew DEF Calls
  <2>3. Computed(v, f) /\ Begins(v, f, saved)
    BY <2>2, OpenedComputes
  <2>4. ~v.nextFirst
    BY <2>2, CallsOrdered DEF Rewound
  <2>5. /\ cut.chunk = v.chunk /\ cut.origin = v.pos - v.part * v.chunk
        /\ v.id <= Len(made) => Clean(l, v.id, cut)
    BY <1>1, <1>3, CallsClean
  <2>6. /\ cut \in Cuts /\ v.chunk \in {20, 40} /\ cut.size = f.size
    BY CallsTrack DEF Track
  <2>7. saved.uploaded > 0 /\ v.id = saved.id =>
           /\ cut.origin = 0
           /\ \A k \in 0..saved.uploaded \div cut.chunk - 1 : On(v.id, k) /\ LengthIn(cut, k) = cut.chunk
    <3> SUFFICES ASSUME saved.uploaded > 0, v.id = saved.id
                 PROVE  /\ cut.origin = 0
                        /\ \A k \in 0..saved.uploaded \div cut.chunk - 1 :
                              On(v.id, k) /\ LengthIn(cut, k) = cut.chunk
      OBVIOUS
    <3>1. v.id <= Len(made)
      BY <1>1 DEF Numbered
    <3>2. Clean(l, saved.id, cut)
      BY <2>5, <3>1
    <3> QED
      BY <1>1, <3>2 DEF Resumable
  <2> HIDE DEF f, saved
  <2>8. Almost(v, cut)
    BY <2>1, <2>3, <2>4, <2>5, <2>6, <2>7, BeginsAlmost
  <2>9. ASSUME NEW k \in Gone(v) PROVE On(v.id, k)
    <3>1. k \in 0..v.part - 1 /\ (k = 0 => ~v.later) /\ v.part \in Int
      BY <2>1, <2>9 DEF Gone, Operations
    <3>2. /\ v.id = saved.id /\ saved.uploaded > 0 /\ v.part = saved.uploaded \div cut.chunk
      BY <2>3, <2>5, <3>1 DEF Begins
    <3> QED
      BY <2>7, <3>1, <3>2
  <2> QED
    BY <2>8, <2>9
<1> QED
  BY <1>2, <1>3

(* What was under way still is, with the request for what is read.           *)
LEMMA CallsFlights ==
    ASSUME Inv, Inv', NEW o \in Ids, NEW v, Calls(o, v), NEW p \in Ids
    PROVE  /\ FlightsKept(p)
           /\ p = o => \A k : Flies(p, k) => Flies(p, k)'
           /\ Reads(v, Of(o)) => Flies(o, IF v.nextFirst THEN 0 ELSE v.part)'
<1>1. wire \subseteq wire' /\ stage' = stage /\ op'[p].guid = op[p].guid
  <2>1. op'[p].guid = op[p].guid
    BY CallsFields
  <2> QED
    BY <2>1 DEF Calls
<1>2. \A k : Flies(p, k) => Flies(p, k)'
  BY <1>1 DEF Flies
<1>3. ASSUME Reads(v, Of(o)) PROVE Flies(o, IF v.nextFirst THEN 0 ELSE v.part)'
  <2>1. /\ v \in Operations /\ Of(o) \in Uploads /\ o \in Nat /\ v.guid = op[o].guid
        /\ op'[o].guid = op[o].guid
    BY LoaderState, CallsFields
  <2>2. RequestFor(Request(o, v), o, Of(o), v)
    BY <1>3, <2>1, RequestIs DEF Reads
  <2>3. Request(o, v) \in wire'
    BY <1>3 DEF Calls
  <2> QED
    BY <2>1, <2>2, <2>3 DEF RequestFor, Flies
<1> QED
  BY <1>2, <1>3 DEF FlightsKept

LEMMA CallsWhole ==
    ASSUME Inv, Inv', Apartness, Progress, NEW o \in Ids, Whole(o), NEW v, Calls(o, v)
    PROVE  Whole(o)'
<1>1. Of(o)' = Of(o) /\ server' = server
  BY SameWorld DEF Calls
<1> SUFFICES ASSUME Running(op'[o]), NEW l, l = Of(o).loc, NEW cut, NEW id, id = op'[o].id,
                    Clean(l, id, cut)'
             PROVE  /\ Plan(op'[o], cut)
                    /\ \A k \in Gone(op'[o]) : (On(id, k) \/ Flies(o, k))'
  BY <1>1 DEF Whole
<1> DEFINE f == Of(o)
           w == op'[o]
<1>2. /\ v \in Operations /\ f \in Uploads /\ id = v.id /\ op[o].state = 1 /\ w = After(v, f)
  BY CallsFields DEF Running
<1>3. /\ cut \in Cuts /\ cut.chunk \in {20, 40} /\ Track(v, f, cut) /\ (v.est => v.avail <= f.size)
  BY <1>2, CallsTrack
<1>4. Almost(v, cut) /\ \A k \in Gone(v) : On(v.id, k) \/ (op[o].open /\ Flies(o, k))
  BY <1>2, CallsAlmost
<1>5. Ordered(v)
  BY CallsOrdered
<1>6. \A k \in Gone(v) : (On(id, k) \/ Flies(o, k))'
  <2>1. \A k : Flies(o, k) => Flies(o, k)'
    BY CallsFlights
  <2> QED
    BY <1>1, <1>2, <1>4, <2>1 DEF On
<1>7. CASE ~Reads(v, f)
  <2>1. w = v
    BY <1>2, <1>7 DEF After
  <2>2. Plan(v, cut)
    BY <1>2, <1>3, <1>4, <1>5, <1>7, NoReadPlan
  <2> QED
    BY <1>6, <2>1, <2>2
<1>8. CASE Reads(v, f)
  <2>1. w = ReadPart(v, f)
    BY <1>2, <1>8 DEF After
  <2>2. Plan(w, cut) /\ Gone(w) \subseteq Gone(v) \cup {IF v.nextFirst THEN 0 ELSE v.part}
    <3> HIDE DEF w
    <3> QED
      BY <1>2, <1>3, <1>4, <1>5, <1>8, <2>1, ReadsPlan
  <2>3. Flies(o, IF v.nextFirst THEN 0 ELSE v.part)'
    BY <1>8, CallsFlights
  <2> QED
    BY <1>6, <2>2, <2>3
<1> QED
  BY <1>7, <1>8

-----------------------------------------------------------------------------
(* While the file is being written a call reads whole parts of it, and the   *)
(* first one only if that was planned when the identifier was given.         *)
LEMMA UsesEarly ==
    ASSUME Inv, NEW v \in Operations, v.id <= Len(made) + 1, NEW f \in Uploads, made' = Uses(v, f)
    PROVE  /\ MadeEarly
           /\ v.id = Len(made) + 1 => made'[v.id].early = (v.est /\ ~v.later /\ ~f.enc)
<1>1. made \in Seq(Identifiers) /\ Len(made) \in Nat /\ v.id \in Nat
  BY StageState DEF Operations
<1>2. CASE v.id > Len(made)
  <2> DEFINE x == [cuts |-> {Cut(v, f)}, early |-> v.est /\ ~v.later /\ ~f.enc]
  <2>1. made' = Append(made, x) /\ x.early = (v.est /\ ~v.later /\ ~f.enc)
    BY <1>2 DEF Uses
  <2> HIDE DEF x
  <2>2. /\ made'[Len(made) + 1] = x
        /\ \A i \in 1..Len(made) : made'[i] = made[i]
    BY ONLY <1>1, <2>1
  <2> QED
    BY <2>1, <2>2 DEF MadeEarly
<1>3. CASE ~(v.id > Len(made))
  <2> DEFINE cuts == made[v.id].cuts \cup {Cut(v, f)}
             x    == [made[v.id] EXCEPT !.cuts = cuts]
  <2>1. made' = [made EXCEPT ![v.id] = x]
    BY <1>3 DEF Uses
  <2>2. v.id \in 1..Len(made) => x.early = made[v.id].early
    BY <1>1 DEF Identifiers
  <2> HIDE DEF x
  <2>3. \A i \in 1..Len(made) : made'[i] = (IF i = v.id THEN x ELSE made[i])
    BY <1>1, <2>1
  <2>4. MadeEarly
    BY <2>2, <2>3 DEF MadeEarly
  <2> QED
    BY <1>1, <1>3, <2>4
<1> QED
  BY <1>2, <1>3

LEMMA CallsEarly ==
    ASSUME Inv, Inv', Apartness, Progress, NEW o \in Ids, OpTimed(o), NEW v, Calls(o, v)
    PROVE  /\ MadeEarly
           /\ v.est /\ ~v.later /\ ~Of(o).enc => made'[v.id].early
<1>1. /\ v \in Operations /\ Of(o) \in Uploads /\ v.id <= Len(made) + 1
      /\ op[o].open => op[o].state = 1 /\ v = op[o] /\ made' = made
      /\ ~op[o].open => v \in Opened(o) /\ made' = Uses(v, Of(o))
  BY CallsLeave, CallsFields DEF Progress
<1>2. CASE op[o].open
  BY <1>1, <1>2 DEF MadeEarly, OpTimed, Running
<1>3. CASE ~op[o].open
  <2>1. v.est => v.id = Len(made) + 1
    BY <1>1, <1>3, OpenedComputes
  <2> QED
    BY <1>1, <1>3, <2>1, UsesEarly
<1> QED
  BY <1>2, <1>3

LEMMA CallsAwait ==
    ASSUME Inv, Inv', Apartness, Progress, NEW o \in Ids, OpTimed(o), NEW v, Calls(o, v), v.est
    PROVE  /\ ~v.nextFirst /\ ~op'[o].nextFirst
           /\ v.later => op'[o].later
<1> DEFINE f == Of(o)
<1>1. /\ v \in Operations /\ f \in Uploads /\ op'[o] = After(v, f) /\ v.chunk \in Nat
      /\ v.avail = op[o].avail /\ v.est = op[o].est
  <2>1. /\ v \in Operations /\ f \in Uploads /\ op'[o] = After(v, f)
        /\ v.avail = op[o].avail /\ v.est = op[o].est
    BY CallsFields
  <2> QED
    BY <2>1 DEF Operations
<1>2. ~v.nextFirst /\ v.avail <= f.size
  BY <1>1, CallsOrdered DEF OpTimed, Apartness, OpsHold
<1>3. v.later => v.pos = v.read
  <2>1. CASE op[o].open
    <3>1. op[o].state = 1 /\ v = op[o]
      BY <2>1, CallsLeave DEF Progress
    <3>2. Tracks(v, f, made)
      BY <2>1, <3>1 DEF Progress, Known, Running
    <3> QED
      BY <3>2 DEF Tracks, Track
  <2>2. CASE ~op[o].open
    <3>1. v \in Opened(o)
      BY <2>2 DEF Calls
    <3> QED
      BY <3>1, CallsOrdered, OpenedIs DEF NewOne, GoneOn
  <2> QED
    BY <2>1, <2>2
<1> HIDE DEF f
<1>4. CASE ~Reads(v, f)
  BY <1>1, <1>2, <1>4 DEF After
<1>5. CASE Reads(v, f)
  <2> DEFINE w == ReadPart(v, f)
  <2>1. op'[o] = w
    BY <1>1, <1>5 DEF After
  <2>2. w.later = (v.later /\ ~Ends(v, f)) /\ w.nextFirst = (HeadIsDue(v, f) /\ ~EndOfFile(v, f))
    BY <1>1, <1>5, ReadFields DEF Reads
  <2> HIDE DEF w
  <2>3. v.later => ~Ends(v, f)
    <3> SUFFICES ASSUME v.later PROVE ~Ends(v, f)
      OBVIOUS
    <3>1. v.pos \in Nat /\ v.read \in Nat /\ v.avail \in Nat /\ f.size \in Nat
      BY <1>1 DEF Operations, Uploads
    <3>2. ~(v.read + v.chunk > v.avail)
      BY <1>5 DEF Reads, Waits
    <3>3. ~(f.size - v.pos < v.chunk)
      BY <1>1, <1>2, <1>3, <3>1, <3>2
    <3>4. Bytes(v, f) = v.chunk
      BY <1>2, <3>3 DEF Bytes
    <3> QED
      BY <1>2, <3>4 DEF Ends
  <2>4. ~w.nextFirst
    BY <1>2, <2>2, <2>3 DEF HeadIsDue
  <2> QED
    BY <1>2, <2>1, <2>2, <2>3, <2>4
<1> QED
  BY <1>4, <1>5

LEMMA CallsTimely ==
    ASSUME Inv, Inv', Apartness, Progress, Timely, NEW o \in Ids, NEW v, Calls(o, v)
    PROVE  MadeEarly /\ Timely'
<1>1. OpTimed(o) /\ world' = world /\ server' = server /\ Of(o)' = Of(o) /\ Fitting /\ Numbered /\ OpsHold
  BY SameWorld DEF Timely, Calls, Progress, Apartness
<1>2. /\ MadeEarly
      /\ v.est /\ ~v.later /\ ~Of(o).enc => made'[v.id].early
  BY <1>1, CallsEarly
<1>3. /\ v.est => ~v.nextFirst /\ ~op'[o].nextFirst /\ (v.later => op'[o].later)
      /\ op'[o].est = v.est /\ op'[o].id = v.id /\ Ordered(v)
  BY <1>1, CallsAwait, CallsFields, CallsOrdered
<1>4. OpTimed(o)'
  BY <1>1, <1>2, <1>3 DEF OpTimed
<1>5. ASSUME NEW p \in Ids PROVE OpTimed(p)'
  <2>1. CASE p = o
    BY <1>4, <2>1
  <2>2. CASE p # o
    <3>1. op'[p] = op[p] /\ OpTimed(p)
      BY <2>2, CallsFields DEF Timely
    <3> QED
      BY <1>1, <1>2, <3>1, OpTimedStep DEF SamePlan
  <2> QED
    BY <2>1, <2>2
<1>6. ASSUME NEW r \in wire', r \notin wire PROVE Timed(r)'
  <2>1. Reads(v, Of(o)) /\ r = Request(o, v)
    BY <1>6 DEF Calls
  <2>2. /\ v \in Operations /\ Of(o) \in Uploads /\ o \in Nat
    BY LoaderState, CallsFields
  <2>3. RequestFor(r, o, Of(o), v)
    BY <2>1, <2>2, RequestIs DEF Reads
  <2> SUFFICES ASSUME r.part = 0, r.early PROVE made'[r.id].early
    BY DEF Timed
  <2>4. v.est /\ ~Of(o).enc /\ v.part = 0
    BY <1>3, <2>3 DEF RequestFor
  <2>5. ~v.later
    BY <1>3, <2>4 DEF Ordered
  <2> QED
    BY <1>2, <2>3, <2>4, <2>5 DEF RequestFor
<1>7. Timely'
  <2>1. \A r \in wire' : Timed(r)' \/ \E x \in wire : r.id = x.id /\ r.part = x.part /\ r.early = x.early
    BY <1>6
  <2> QED
    BY <1>1, <1>2, <1>5, <2>1, TimelyStep
<1> QED
  BY <1>2, <1>7

LEMMA CallsFinishing ==
    ASSUME Inv, Inv', Apartness, Progress, Finishing, NEW o \in Ids, NEW v, Calls(o, v),
           at'.kind # "finish", \A p \in Ids : op'[p].result = op[p].result
    PROVE  Finishing'
<1>1. Fitting /\ Numbered /\ Grows /\ Ids' = Ids
  BY CallsLeave, SameWorld DEF Progress, Calls
<1>2. Timely'
  BY CallsTimely DEF Finishing
<1>3. Overs'
  BY <1>1, OversStep DEF Finishing
<1>4. ASSUME NEW p \in Ids PROVE Whole(p)'
  <2>1. Whole(p)
    BY DEF Finishing
  <2>2. CASE p = o
    BY <2>1, <2>2, CallsWhole
  <2>3. CASE p # o
    <3>1. op'[p] = op[p] /\ FlightsKept(p)
      BY <2>3, CallsFields, CallsFlights
    <3> QED
      BY <1>1, <2>1, <3>1, WholeStep DEF SamePlan
  <2> QED
    BY <2>2, <2>3
<1> QED
  BY <1>1, <1>2, <1>3, <1>4 DEF Finishing

LEMMA StartUploadRequestFinishing ==
    ASSUME Inv, Inv', Apartness, Progress, Finishing, StartUploadRequest
    PROVE  Finishing'
<1>1. at'.kind # "finish" /\ \A p \in Ids : op'[p].result = op[p].result
  BY StartUploadRequestResult
<1>2. CASE \E o \in Ids : \E v : Calls(o, v)
  BY <1>1, <1>2, CallsFinishing
<1>3. CASE Calm /\ UNCHANGED <<wire, made, server, mixed>>
  <2>1. UNCHANGED <<world, stage>>
    BY DEF StartUploadRequest
  <2>2. \A id, k : On(id, k) => On(id, k)'
    BY <1>3 DEF On
  <2>3. Grows
    BY <1>3, <2>1, <2>2, SameGrows
  <2>4. Overs'
    BY <1>1, <2>3, OversStep DEF Progress, Finishing
  <2>5. ASSUME NEW o \in Ids, Same(op[o], op'[o]) PROVE FlightsKept(o)
    BY <1>3, <2>1, <2>5, FlightsGrown DEF Copy, Same
  <2> QED
    BY <1>3, <2>1, <2>2, <2>4, <2>5, CalmFinishing DEF Calm
<1> QED
  BY <1>2, <1>3, StartUploadRequestApart

-----------------------------------------------------------------------------
(* A task of the stage queue reports nothing; the end of an upload is        *)
(* decided when the last of its requests is answered.                        *)
Decided(o, r) ==
    /\ at'.o = o /\ r.guid = op[o].guid /\ op[o].state = 1 /\ op[o].last
    /\ op'[o].state = 1 /\ op'[o].last /\ op'[o].busy = 0
    /\ op'[o].id = op[o].id /\ op'[o].part = op[o].part

SameResults == \A p \in Ids : op'[p].result = op[p].result

LEMMA ReplacedResult ==
    ASSUME op \in [Ids -> Operations], NEW o \in Ids, NEW v, v.result = op[o].result,
           op' = [op EXCEPT ![o] = v]
    PROVE  SameResults
BY DEF SameResults

LEMMA DataResult ==
    ASSUME Inv, NEW o \in Ids, NEW t, t.avail \in Nat, t.final \in BOOLEAN, RunNewData(o, t)
    PROVE  /\ SameResults /\ at'.kind # "finish"
           /\ op[o].est /\ t.final /\ op[o].chunk # 0 =>
                 op'[o].total = t.avail /\ op'[o].parts = CalcTotalPartsCount(op'[o], Of(o).big)
           /\ ~(op[o].est /\ t.final) => op'[o].parts = op[o].parts
<1> DEFINE ends == op[o].est /\ t.final
           est  == op[o].est /\ ~ends
           total == IF ends THEN t.avail ELSE op[o].total
           u    == [op[o] EXCEPT !.est = est, !.total = total, !.avail = t.avail]
           parts == IF ends /\ u.chunk # 0 THEN CalcTotalPartsCount(u, Of(o).big) ELSE u.parts
           v    == [u EXCEPT !.parts = parts]
<1>1. op[o] \in Operations /\ op \in [Ids -> Operations]
  BY LoaderState
<1>2. op' = [op EXCEPT ![o] = v] /\ at' = More(o, v)
  BY DEF RunNewData
<1>3. total = (IF ends THEN t.avail ELSE op[o].total)
  OBVIOUS
<1> HIDE DEF est, total
<1>4. /\ v.result = op[o].result /\ v.parts = parts /\ v.total = u.total /\ v.chunk = u.chunk
      /\ v.later = u.later /\ u.total = total /\ u.chunk = op[o].chunk /\ u.parts = op[o].parts
  BY <1>1 DEF Operations
<1> HIDE DEF u, v
<1>5. CalcTotalPartsCount(v, Of(o).big) = CalcTotalPartsCount(u, Of(o).big)
  BY <1>4 DEF CalcTotalPartsCount, HeadOf
<1>6. SameResults /\ op'[o] = v
  BY <1>1, <1>2, <1>4, ReplacedResult
<1>7. at'.kind # "finish"
  BY <1>2 DEF More, Sends, Idle
<1> QED
  BY <1>3, <1>4, <1>5, <1>6, <1>7

LEMMA AnswerResult ==
    ASSUME Inv, at.kind = "idle", stage # <<>>, Head(stage).do = "answer",
           RunAnswer(Head(stage).o, Head(stage).r, Head(stage).ok)
    PROVE  /\ SameResults
           /\ at'.kind = "finish" => Decided(Head(stage).o, Head(stage).r) /\ Head(stage).ok
           /\ op'[Head(stage).o].open /\ op'[Head(stage).o].state = 1
              /\ Head(stage).r.guid = op[Head(stage).o].guid => Head(stage).ok
<1> DEFINE t == Head(stage)
           o == t.o
           r == t.r
           u == [op[o] EXCEPT !.busy = @ - 1]
           s == Saved(u, Of(o).big, r)
<1>1. o \in Ids /\ op[o] \in Operations /\ op \in [Ids -> Operations] /\ t \in StageTasks
  BY StageTaskState
<1>2. r \in Requests /\ RunAnswer(o, r, t.ok)
  BY <1>1, StageTaskFields
<1>3. o = Head(stage).o /\ r = Head(stage).r /\ t = Head(stage)
  OBVIOUS
<1> HIDE DEF t, o, r
<1>4. CASE (r.guid # op[o].guid \/ (t.ok /\ op[o].state # 1)) /\ UNCHANGED <<op, at>>
  BY <1>1, <1>3, <1>4 DEF SameResults
<1>5. CASE Fail(o) /\ UNCHANGED at
  <2>1. op' = [op EXCEPT ![o] = Stops(op[o], 4)]
    BY <1>1, <1>5 DEF Fail, Stops
  <2>2. Stops(op[o], 4).result = op[o].result /\ Stops(op[o], 4).state = 4
    BY <1>1 DEF Stops, Operations
  <2>3. SameResults
    BY <1>1, <2>1, <2>2, ReplacedResult
  <2>4. op'[o].state = 4
    BY <1>1, <2>1, <2>2
  <2> QED
    BY <1>3, <1>5, <2>3, <2>4
<1>6. CASE /\ r.guid = op[o].guid /\ t.ok /\ op[o].state = 1
           /\ IF u.last /\ u.busy = 0
              THEN op' = [op EXCEPT ![o] = u] /\ at' = Finishes(o)
              ELSE IF u.busy < u.max
              THEN op' = [op EXCEPT ![o] = s.u] /\ at' = Sends(o, 1)
              ELSE op' = [op EXCEPT ![o] = u] /\ at' = at
  <2>1. u \in Operations /\ u.result = op[o].result
    <3>1. op[o].busy - 1 \in Int
      BY <1>1, OperationForm DEF Fields
    <3> QED
      BY <1>1, <3>1 DEF Operations
  <2>2. s.u.result = u.result
    <3>1. SameButSaved(u, s.u)
      BY <1>2, <2>1, SavedSteps
    <3> HIDE DEF u, s
    <3> QED
      BY <3>1 DEF SameButSaved
  <2>3. /\ u.state = op[o].state /\ u.guid = op[o].guid /\ u.last = op[o].last
        /\ u.id = op[o].id /\ u.part = op[o].part
    BY <1>1 DEF Operations
  <2> HIDE DEF u, s
  <2>4. SameResults
    <3>1. op' = [op EXCEPT ![o] = u] \/ op' = [op EXCEPT ![o] = s.u]
      BY <1>6
    <3>2. CASE op' = [op EXCEPT ![o] = u]
      BY <1>1, <2>1, <3>2, ReplacedResult
    <3>3. CASE op' = [op EXCEPT ![o] = s.u]
      BY <1>1, <2>1, <2>2, <3>3, ReplacedResult
    <3> QED
      BY <3>1, <3>2, <3>3
  <2>5. ASSUME at'.kind = "finish" PROVE Decided(o, r)
    <3>1. u.last /\ u.busy = 0 /\ op' = [op EXCEPT ![o] = u] /\ at' = Finishes(o)
      BY <1>6, <2>5 DEF Finishes, Sends
    <3>2. op'[o] = u /\ at'.o = o
      BY <1>1, <3>1 DEF Finishes
    <3> QED
      BY <1>6, <2>3, <3>1, <3>2 DEF Decided
  <2> QED
    BY <1>3, <1>6, <2>4, <2>5
<1> QED
  BY <1>2, <1>4, <1>5, <1>6 DEF RunAnswer

LEMMA StageTaskResult ==
    ASSUME Inv, RunStageTask
    PROVE  /\ SameResults
           /\ at'.kind = "finish" => /\ Head(stage).do = "answer" /\ Head(stage).ok
                                     /\ Decided(Head(stage).o, Head(stage).r)
<1> DEFINE t == Head(stage)
           o == t.o
<1>1. at.kind = "idle" /\ stage # <<>>
  BY DEF RunStageTask
<1>2. o \in Ids /\ op[o] \in Operations /\ op \in [Ids -> Operations] /\ t \in StageTasks
  BY <1>1, StageTaskState
<1>3. CASE t.do = "start" /\ RunStart(o)
  <2> DEFINE v == [op[o] EXCEPT !.slow = app.slow]
  <2>1. op' = [op EXCEPT ![o] = v] /\ at'.kind = "send"
    BY <1>3 DEF RunStart, Sends
  <2> HIDE DEF o
  <2>2. v.result = op[o].result
    BY <1>2 DEF Operations
  <2> HIDE DEF v
  <2> QED
    BY <1>2, <2>1, <2>2, ReplacedResult
<1>4. CASE t.do = "data" /\ RunNewData(o, t)
  <2>1. t.avail \in Nat /\ t.final \in BOOLEAN
    BY <1>2, <1>4, StageTaskFields
  <2> HIDE DEF o, t
  <2> QED
    BY <1>2, <1>4, <2>1, DataResult
<1>5. CASE t.do = "network" /\ RunNetworkChanged(o, t.slow)
  <2> DEFINE v == [op[o] EXCEPT
                !.slow = t.slow, !.open = FALSE, !.last = FALSE, !.nextFirst = FALSE, !.part = 0,
                !.read = 0, !.pos = 0, !.times = 0, !.busy = 0, !.savedPart = 0, !.later = FALSE,
                !.cached = {}, !.guid = @ + 1]
  <2>1. (op' = [op EXCEPT ![o] = v] /\ at'.kind = "send") \/ UNCHANGED <<op, at>>
    BY <1>5 DEF RunNetworkChanged, Sends
  <2> HIDE DEF o, t
  <2>2. v.result = op[o].result
    BY <1>2 DEF Operations
  <2> HIDE DEF v
  <2>3. CASE op' = [op EXCEPT ![o] = v] /\ at'.kind = "send"
    BY <1>2, <2>2, <2>3, ReplacedResult
  <2>4. CASE UNCHANGED <<op, at>>
    BY <1>1, <2>4 DEF SameResults
  <2> QED
    BY <2>1, <2>3, <2>4
<1>6. CASE t.do = "answer" /\ RunAnswer(o, t.r, t.ok)
  BY <1>1, <1>6, AnswerResult
<1>7. CASE t.do \in {"cancel", "written"} /\ op' = op /\ (at' = at \/ at' = More(o, op[o]))
  BY <1>1, <1>7 DEF SameResults, More, Sends, Idle
<1> QED
  BY <1>3, <1>4, <1>5, <1>6, <1>7 DEF RunStageTask

(* What a running upload has under way stays, but for the part whose answer  *)
(* is run, which the server has.                                             *)
LEMMA TailFlights ==
    ASSUME Inv, stage # <<>>, stage' = Tail(stage), NEW p \in Ids, op'[p].guid = op[p].guid,
           \A r \in wire : r.o = p => r \in wire', NEW t, t = Head(stage),
           t.do = "answer" /\ t.o = p /\ t.r.guid = op[p].guid =>
              t.r.id = op[p].id /\ On(t.r.id, t.r.part)'
    PROVE  FlightsKept(p)
<1> SUFFICES ASSUME NEW id, NEW k, id = op[p].id, Flies(p, k) PROVE Flies(p, k)' \/ On(id, k)'
  BY DEF FlightsKept
<1>1. stage \in Seq(StageTasks)
  BY StageState
<1>2. CASE \E r \in wire : r.o = p /\ r.guid = op[p].guid /\ r.part = k
  BY <1>2 DEF Flies
<1>3. ASSUME NEW i \in DOMAIN stage, stage[i].do = "answer", stage[i].o = p,
             stage[i].r.guid = op[p].guid, stage[i].r.part = k
      PROVE  Flies(p, k)' \/ On(id, k)'
  <2>1. CASE i = 1
    <3>1. stage[i] = t
      BY <1>1, <2>1
    <3> QED
      BY <1>3, <3>1
  <2>2. CASE i # 1
    <3>1. i - 1 \in DOMAIN Tail(stage) /\ Tail(stage)[i - 1] = stage[i]
      BY ONLY <1>1, <1>3, <2>2, stage # <<>>
    <3> QED
      BY <1>3, <3>1 DEF Flies
  <2> QED
    BY <2>1, <2>2
<1> QED
  BY <1>2, <1>3 DEF Flies

LEMMA StageTaskFlights ==
    ASSUME Inv, Apartness, Progress, RunStageTask, NEW p \in Ids, Running(op[p]), Running(op'[p]),
           op'[p].guid = op[p].guid
    PROVE  FlightsKept(p)
<1> SUFFICES ASSUME NEW t, t = Head(stage) PROVE FlightsKept(p)
  OBVIOUS
<1>1. /\ at.kind = "idle" /\ stage # <<>> /\ stage' = Tail(stage) /\ server' = server
  BY DEF RunStageTask
<1>2. /\ t \in StageTasks /\ t.o \in Ids /\ stage \in Seq(StageTasks) /\ op[t.o] \in Operations
      /\ op \in [Ids -> Operations] /\ Begun(t.o, op[t.o], Mine(wire, t.o), stage)
  BY <1>1, StageTaskState DEF View
<1>3. 1 \in DOMAIN stage /\ stage[1] = t
  BY <1>1, <1>2
<1>4. ASSUME NEW r \in wire, r.o = p PROVE r \in wire'
  <2>1. wire' = wire \/ (wire' = {x \in wire : x.o # t.o} /\ t.do \in {"network", "cancel"})
    BY DEF RunStageTask, RunStart, RunNewData, RunNetworkChanged
  <2>2. CASE wire' = {x \in wire : x.o # t.o} /\ t.do = "cancel"
    <3>1. op[t.o].state \in 2..4
      BY <1>2, <1>3, <2>2 DEF Begun
    <3> QED
      BY <1>4, <2>2, <3>1 DEF Running
  <2>3. CASE t.do = "network" /\ t.o = p
    <3>1. RunNetworkChanged(p, t.slow)
      BY <2>3 DEF RunStageTask
    <3>2. CASE op[p].slow = t.slow
      BY <1>4, <3>1, <3>2 DEF RunNetworkChanged
    <3>3. CASE op[p].slow # t.slow
      <4> DEFINE v == [op[p] EXCEPT
                !.slow = t.slow, !.open = FALSE, !.last = FALSE, !.nextFirst = FALSE, !.part = 0,
                !.read = 0, !.pos = 0, !.times = 0, !.busy = 0, !.savedPart = 0, !.later = FALSE,
                !.cached = {}, !.guid = @ + 1]
      <4>1. op' = [op EXCEPT ![p] = v]
        BY <3>1, <3>3 DEF RunNetworkChanged
      <4>2. ~v.open
        BY <1>2, <2>3 DEF Operations
      <4> HIDE DEF v
      <4>3. ~op'[p].open
        BY <1>2, <4>1, <4>2
      <4> QED
        BY <4>3 DEF Running
    <3> QED
      BY <3>2, <3>3
  <2> QED
    BY <1>4, <2>1, <2>2, <2>3
<1>5. ASSUME t.do = "answer", t.o = p, t.r.guid = op[p].guid
      PROVE  t.r.id = op[p].id /\ On(t.r.id, t.r.part)'
  <2>1. RunAnswer(t.o, t.r, t.ok)
    BY <1>5 DEF RunStageTask
  <2>2. t.ok
    <3>1. op'[t.o].open /\ op'[t.o].state = 1
      BY <1>5 DEF Running
    <3> QED
      BY <1>1, <1>5, <2>1, <3>1, AnswerResult
  <2>3. On(t.r.id, t.r.part)
    BY <1>3, <1>5, <2>2 DEF Progress, Fitting
  <2>4. Gathers(p)
    BY DEF Progress, Known
  <2>5. t.r.id = op[p].id
    BY <1>3, <1>5, <2>4 DEF Gathers
  <2> QED
    BY <1>1, <2>3, <2>5 DEF On
<1> QED
  BY <1>1, <1>4, <1>5, TailFlights

(* When the length of the file gets known, so does the number of its parts.  *)
LEMMA InformedWhole ==
    ASSUME Inv, Inv', Apartness, Progress, at.kind = "idle", stage # <<>>, NEW t, t = Head(stage),
           NEW o, o = t.o, t.do = "data", RunNewData(o, t), NEW v, Informed(o, v, t),
           UNCHANGED <<world, made, server, mixed>>, Whole(o), Running(op'[o]) => FlightsKept(o)
    PROVE  Whole(o)'
<1>1. /\ o \in Ids /\ op[o] \in Operations /\ Of(o) \in Uploads /\ op \in [Ids -> Operations]
      /\ t.avail \in Nat /\ t.final \in BOOLEAN /\ stage \in Seq(StageTasks)
  BY StageTaskState, StageTaskFields
<1>2. /\ op'[o] = v /\ v \in Operations /\ SameButData(op[o], v) /\ v.est = (op[o].est /\ ~t.final)
  BY <1>1 DEF Informed
<1>3. Of(o)' = Of(o)
  BY SameWorld
<1> SUFFICES ASSUME Running(v), NEW cut, NEW id, id = v.id, Clean(Of(o).loc, id, cut)'
             PROVE  Plan(v, cut) /\ \A k \in Gone(v) : (On(id, k) \/ Flies(o, k))'
  BY <1>2, <1>3 DEF Whole
<1>4. Running(op[o]) /\ FlightsKept(o) /\ op[o].id = id /\ id # 0
  BY <1>2 DEF Running, SameButData, Clean
<1>5. Clean(Of(o).loc, op[o].id, cut)
  BY <1>3, <1>4 DEF Clean
<1>6. Plan(op[o], cut) /\ \A k \in Gone(op[o]) : On(id, k) \/ Flies(o, k)
  BY <1>4, <1>5 DEF Whole
<1>7. Gone(v) = Gone(op[o])
  BY <1>2 DEF Gone, SameButData
<1>8. \A k \in Gone(v) : (On(id, k) \/ Flies(o, k))'
  BY <1>4, <1>6, <1>7 DEF FlightsKept, On
<1>9. v.est \/ v.parts = CountOf(cut)
  <2>1. CASE ~(op[o].est /\ t.final)
    BY <1>1, <1>2, <1>6, <2>1, DataResult DEF Plan
  <2>2. CASE op[o].est /\ t.final
    <3>1. Tracks(op[o], Of(o), made) /\ op[o].id # 0
      BY <1>1, <1>4 DEF Progress, Known
    <3>2. Track(op[o], Of(o), cut)
      BY <1>5, <3>1 DEF Tracks, Clean
    <3>3. cut \in Cuts /\ cut.chunk \in {20, 40}
      <4>1. op[o].id \in 1..Len(made)
        <5>1. op[o].id \in Nat /\ Len(made) \in Nat /\ op[o].id <= Len(made)
          BY <1>1, StageState DEF Progress, Numbered, Operations
        <5> QED
          BY <1>4, <5>1
      <4>2. made[op[o].id] \in Identifiers
        BY <4>1, StageState
      <4> QED
        BY <1>5, <4>1, <4>2 DEF Progress, Numbered, Ways, Identifiers, Clean
    <3>4. t.avail = Of(o).size
      <4>1. Of(o).estimate # 0
        BY <1>1, <2>2 DEF Apartness, OpsHold
      <4>2. 1 \in DOMAIN stage /\ stage[1] = t
        BY <1>1
      <4>3. Holds(o, t)
        BY <4>2 DEF Apartness, StageHolds
      <4> QED
        BY <2>2, <4>1, <4>3 DEF Holds
    <3>5. v.total = Of(o).size /\ v.parts = CalcTotalPartsCount(v, Of(o).big)
      <4>1. op[o].chunk # 0
        BY <3>2, <3>3 DEF Track
      <4> QED
        BY <1>1, <1>2, <2>2, <3>4, <4>1, DataResult
    <3>6. ~v.est /\ Computed(v, Of(o))
      BY <1>2, <2>2, <3>5 DEF Computed
    <3>7. /\ v.chunk \in {20, 40} /\ cut.chunk = v.chunk /\ cut.size = Of(o).size
          /\ cut.origin = (IF v.later THEN HeadOf(v, Of(o).big) - v.chunk ELSE 0)
      BY <1>2, <2>2, <3>2, <3>3 DEF Track, SameButData, HeadOf
    <3> QED
      BY <1>1, <1>2, <3>3, <3>6, <3>7, CountComputed
  <2> QED
    BY <2>1, <2>2
<1>10. Plan(v, cut)
  BY <1>2, <1>6, <1>9 DEF Plan, SameButData
<1> QED
  BY <1>8, <1>10

(* An upload all of whose parts were read, with none under way, has left the *)
(* whole file on the server.                                                 *)
LEMMA NoneFlies ==
    ASSUME NEW o, NEW g, NEW w, IsFiniteSet(w), NEW s \in Seq(StageTasks),
           Flying(o, g, Mine(w, o), s) = 0
    PROVE  /\ \A r \in w : ~(r.o = o /\ r.guid = g)
           /\ \A i \in DOMAIN s : ~(s[i].do = "answer" /\ s[i].o = o /\ s[i].r.guid = g)
<1> DEFINE m == Mine(w, o)
<1>1. IsFiniteSet(m)
  <2>1. m \subseteq w
    BY DEF Mine
  <2> QED
    BY <2>1, FS_Subset
<1>2. /\ Cardinality(Sent(m, g)) \in Nat /\ IsFiniteSet(Sent(m, g))
      /\ Count(s, Answers(o, g)) \in Nat
      /\ IsFiniteSet({i \in DOMAIN s : s[i] \in Answers(o, g)})
  BY <1>1, SentFinite, CountType
<1>3. Cardinality(Sent(m, g)) = 0 /\ Count(s, Answers(o, g)) = 0
  BY <1>2 DEF Flying
<1>4. Sent(m, g) = {}
  BY <1>2, <1>3, FS_EmptySet
<1>5. {i \in DOMAIN s : s[i] \in Answers(o, g)} = {}
  BY <1>2, <1>3, FS_EmptySet DEF Count
<1>6. \A r \in w : ~(r.o = o /\ r.guid = g)
  BY <1>4 DEF Sent, Mine
<1>7. ASSUME NEW i \in DOMAIN s, s[i].do = "answer", s[i].o = o, s[i].r.guid = g PROVE FALSE
  <2>1. s[i] \in StageTasks
    OBVIOUS
  <2>2. s[i].r.o = o
    BY <1>7, <2>1, StageTaskFields
  <2>3. s[i] \in Answers(o, g)
    BY <1>7, <2>1, <2>2 DEF Answers
  <2> QED
    BY <1>5, <2>3
<1> QED
  BY <1>6, <1>7

LEMMA LastOver ==
    ASSUME Inv', Progress', NEW o \in Ids', NEW l, l = Of(o)', Whole(o)', NEW id, id = op'[o].id,
           NEW n, n = op'[o].part, op'[o].state = 1, op'[o].last, op'[o].busy = 0, id # 0
    PROVE  Over(o, id, n)'
<1> DEFINE u == op'[o]
<1>1. /\ u \in Operations /\ stage' \in Seq(StageTasks) /\ IsFiniteSet(wire')
      /\ made' \in Seq(Identifiers) /\ Len(made') \in Nat
      /\ View(o, l, u, Mine(wire', o), stage', Kind(o, at'), Pending(o, at'))
  <2>1. ViewOf(o)'
    BY DEF Inv, Views
  <2>2. View(o, l, u, Mine(wire', o), stage', Kind(o, at'), Pending(o, at'))
    BY <2>1 DEF ViewOf
  <2>3. u \in Operations /\ stage' \in Seq(StageTasks) /\ IsFiniteSet(wire')
    BY DEF Inv, Types, OpType, StageType, WireType
  <2>4. made' \in Seq(Identifiers)
    BY DEF Inv, Types, MadeType
  <2> QED
    BY <2>2, <2>3, <2>4
<1>2. Running(u)
  BY <1>1 DEF View, Rewinding, Rewound, Running
<1>3. Tracks(u, l, made') /\ id \in 1..Len(made')
  <2>1. Tracks(u, l, made') /\ id <= Len(made')
    BY <1>2 DEF Progress, Known, Numbered
  <2>2. id \in Nat
    BY <1>1 DEF Operations
  <2> QED
    BY <1>1, <2>1, <2>2
<1>4. \A k : ~Flies(o, k)'
  <2>1. Flying(o, u.guid, Mine(wire', o), stage') = 0
    BY <1>1 DEF View, Counted
  <2> HIDE DEF u
  <2>2. ASSUME NEW g, g = u.guid, NEW w, w = wire', NEW s, s = stage'
        PROVE  /\ \A r \in w : ~(r.o = o /\ r.guid = g)
               /\ \A i \in DOMAIN s : ~(s[i].do = "answer" /\ s[i].o = o /\ s[i].r.guid = g)
    <3>1. IsFiniteSet(w) /\ s \in Seq(StageTasks) /\ Flying(o, g, Mine(w, o), s) = 0
      BY <1>1, <2>1, <2>2
    <3> QED
      BY ONLY <3>1, NoneFlies
  <2> QED
    BY <2>2 DEF Flies, u
<1>5. ASSUME NEW cut, Clean(l.loc, id, cut)'
      PROVE  /\ cut.size = l.size /\ Proper(cut) /\ Filled(cut, n)
             /\ \A k \in 0..n - 1 : On(id, k)'
  <2>1. Plan(u, cut) /\ \A k \in Gone(u) : (On(id, k) \/ Flies(o, k))'
    BY <1>2, <1>5 DEF Whole
  <2>2. ~u.later /\ ~u.nextFirst
    BY <1>1 DEF View, Flags
  <2>3. Track(u, l, cut)
    BY <1>3, <1>5 DEF Tracks, Clean
  <2> QED
    BY <1>4, <2>1, <2>2, <2>3 DEF Plan, Gone, Track
<1> QED
  BY <1>3, <1>5 DEF Over

LEMMA InformedTimed ==
    ASSUME world' = world, made' = made, NEW o \in Ids, NEW v, NEW t, Informed(o, v, t),
           op'[o] = v, OpTimed(o)
    PROVE  OpTimed(o)'
<1>1. Of(o)' = Of(o)
  BY SameWorld
<1>2. SameButData(op[o], v) /\ v.est = (op[o].est /\ ~t.final)
  BY DEF Informed
<1>3. v.nextFirst => ~v.est
  BY <1>2 DEF SameButData, OpTimed
<1>4. Running(v) /\ v.est /\ ~v.later /\ ~Of(o).enc => made[v.id].early
  BY <1>2 DEF SameButData, OpTimed, Running
<1> QED
  BY <1>1, <1>3, <1>4 DEF OpTimed

LEMMA RunStageTaskFinishing ==
    ASSUME Inv, Inv', Apartness, Progress, Progress', Finishing, RunStageTask
    PROVE  Finishing'
<1>1. /\ at.kind = "idle" /\ stage # <<>> /\ stage' = Tail(stage)
      /\ UNCHANGED <<world, server, made, mixed>>
  BY DEF RunStageTask
<1>2. wire' \subseteq wire /\ Fitting /\ Numbered /\ OpsHold /\ op \in [Ids -> Operations]
  BY <1>1, RunStageTaskApart, StageTaskState DEF Progress, Apartness
<1>3. Grows /\ MadeEarly /\ Ids' = Ids
  <2>1. \A id, k : On(id, k) => On(id, k)'
    BY <1>1 DEF On
  <2> QED
    BY <1>1, <2>1, SameGrows, SameWorld DEF MadeEarly
<1>4. ASSUME NEW p \in Ids, SamePlan(op[p], op'[p]), op'[p].guid = op[p].guid
      PROVE  Whole(p)' /\ OpTimed(p)'
  <2>1. Running(op'[p]) => FlightsKept(p)
    BY <1>4, StageTaskFlights DEF SamePlan, Running
  <2>2. Whole(p) /\ OpTimed(p)
    BY DEF Finishing, Timely
  <2>3. Whole(p)'
    BY <1>2, <1>3, <1>4, <2>1, <2>2, WholeStep
  <2>4. OpTimed(p)'
    BY <1>1, <1>2, <1>3, <1>4, <2>2, OpTimedStep
  <2> QED
    BY <2>3, <2>4
<1>5. ASSUME Calm, NEW p \in Ids PROVE Whole(p)' /\ OpTimed(p)'
  <2>1. Whole(p) /\ OpTimed(p) /\ QuietOps
    BY <1>5 DEF Finishing, Timely, Calm
  <2>2. /\ SamePlan(op[p], op'[p]) \/ (~op'[p].open /\ (op'[p].nextFirst => ~op'[p].est))
        /\ Running(op'[p]) => Same(op[p], op'[p]) /\ SamePlan(op[p], op'[p])
    BY <2>1, QuietPlan
  <2>3. CASE Running(op'[p])
    <3>1. SamePlan(op[p], op'[p]) /\ op'[p].guid = op[p].guid
      BY <2>2, <2>3 DEF Same
    <3> QED
      BY <1>4, <3>1
  <2>4. CASE ~Running(op'[p])
    <3>1. OpTimed(p)'
      BY <1>1, <1>2, <1>3, <2>1, <2>2, OpTimedStep
    <3> QED
      BY <2>4, <3>1 DEF Whole
  <2> QED
    BY <2>3, <2>4
<1>6. ASSUME NEW t, t = Head(stage), t.do = "data", NEW v, Informed(t.o, v, t), NEW p \in Ids
      PROVE  Whole(p)' /\ OpTimed(p)'
  <2> DEFINE o == t.o
  <2>1. op' = [op EXCEPT ![o] = v] /\ v.guid = op[o].guid /\ RunNewData(o, t) /\ Running(v) = Running(op[o])
    <3>1. RunNewData(o, t)
      BY <1>6 DEF RunStageTask
    <3>2. op' = [op EXCEPT ![o] = v] /\ SameButData(op[o], v)
      BY <1>6 DEF Informed
    <3> QED
      BY <3>1, <3>2 DEF SameButData, Running
  <2>2. CASE p # o
    <3>1. op'[p] = op[p]
      BY <1>2, <2>1, <2>2
    <3> QED
      BY <1>4, <3>1 DEF SamePlan
  <2>3. CASE p = o
    <3>1. op'[p] = v
      BY <1>2, <2>1, <2>3
    <3>2. Running(op'[p]) => FlightsKept(p)
      BY <2>1, <2>3, <3>1, StageTaskFlights
    <3>3. Whole(p) /\ OpTimed(p)
      BY DEF Finishing, Timely
    <3>4. Informed(p, v, t) /\ RunNewData(p, t) /\ p = t.o
      BY <1>6, <2>1, <2>3
    <3>5. Whole(p)'
      BY <1>1, <1>6, <3>2, <3>3, <3>4, InformedWhole
    <3>6. OpTimed(p)'
      BY <1>1, <3>1, <3>3, <3>4, InformedTimed
    <3> QED
      BY <3>5, <3>6
  <2> QED
    BY <2>2, <2>3
<1>7. ASSUME NEW o, o = Head(stage).o, NEW r, r = Head(stage).r, NEW u, NEW s, Confirmed(o, r, u, s),
             Head(stage).do = "answer", Head(stage).ok, NEW p \in Ids
      PROVE  Whole(p)' /\ OpTimed(p)'
  <2>1. o \in Ids /\ op[o] \in Operations
    BY <1>1, <1>7, ConfirmedFinds
  <2>2. SamePlan(op[p], op'[p]) /\ op'[p].guid = op[p].guid
    <3>1. /\ op'[o] = s.u /\ (\A q \in Ids : q # o => op'[q] = op[q])
          /\ s.u.state = op[o].state /\ s.u.est = op[o].est /\ s.u.open = op[o].open
          /\ s.u.part = op[o].part /\ s.u.last = op[o].last /\ s.u.parts = op[o].parts
          /\ s.u.nextFirst = op[o].nextFirst /\ s.u.later = op[o].later
          /\ s.u.id = op[o].id /\ s.u.guid = op[o].guid
      BY <1>1, <1>7, <2>1, ConfirmedSaves
    <3>2. CASE p = o
      BY <3>1, <3>2 DEF SamePlan
    <3>3. CASE p # o
      BY <3>1, <3>3 DEF SamePlan
    <3> QED
      BY <3>2, <3>3
  <2> QED
    BY <1>4, <2>2
<1>8. \A p \in Ids : Whole(p)' /\ OpTimed(p)'
  BY <1>1, <1>5, <1>6, <1>7, RunStageTaskApart
<1>9. Overs'
  <2>1. \A p \in Ids : \A file : file \in op'[p].result => file \in op[p].result
    BY StageTaskResult DEF SameResults
  <2>2. ASSUME at'.kind = "finish"
        PROVE  \E o \in Ids : \E id, n : /\ at'.o = o /\ op'[o].id = id /\ op'[o].part = n
                                         /\ Over(o, id, n)'
    <3>1. PICK t : t = Head(stage)
      OBVIOUS
    <3>2. t.do = "answer" /\ t.ok /\ Decided(t.o, t.r)
      BY <2>2, <3>1, StageTaskResult
    <3>3. /\ t.o \in Ids /\ stage \in Seq(StageTasks)
          /\ View(t.o, Of(t.o), op[t.o], Mine(wire, t.o), stage, "idle", 0)
      BY <1>1, <3>1, StageTaskState
    <3>4. Running(op[t.o])
      BY <3>2, <3>3 DEF View, Rewinding, Rewound, Running, Decided
    <3>5. 1 \in DOMAIN stage /\ stage[1] = t
      BY <1>1, <3>1, <3>3
    <3>6. t.r.id = op[t.o].id /\ Fit(t.r)
      <4>1. Gathers(t.o)
        BY <3>3, <3>4 DEF Progress, Known
      <4> QED
        BY <1>2, <3>2, <3>5, <4>1 DEF Gathers, Fitting, Decided
    <3>7. op[t.o].id # 0
      BY <3>6 DEF Fit
    <3> DEFINE o == t.o
    <3>8. op'[o].id # 0 /\ op'[o].state = 1 /\ op'[o].last /\ op'[o].busy = 0 /\ at'.o = o
      BY <3>2, <3>7 DEF Decided
    <3>9. ASSUME NEW id, id = op'[o].id, NEW n, n = op'[o].part PROVE Over(o, id, n)'
      <4>1. o \in Ids' /\ Whole(o)'
        BY <1>3, <1>8, <3>3
      <4> HIDE DEF o
      <4> QED
        BY <3>8, <3>9, <4>1, LastOver
    <3> QED
      BY <3>3, <3>8, <3>9
  <2> QED
    BY <1>2, <1>3, <2>1, <2>2, OversStep DEF Finishing
<1>10. Timely'
  <2>1. \A r \in wire' : \E x \in wire : r.id = x.id /\ r.part = x.part /\ r.early = x.early
    BY <1>2
  <2> QED
    BY <1>1, <1>2, <1>3, <1>8, <2>1, TimelyStep DEF Finishing
<1> QED
  BY <1>3, <1>8, <1>9, <1>10 DEF Finishing

-----------------------------------------------------------------------------
LEMMA FinishingStep ==
    Inv /\ Inv' /\ Apartness /\ Progress /\ Progress' /\ Finishing /\ [Next]_vars => Finishing'
<1> SUFFICES ASSUME Inv, Inv', Apartness, Progress, Progress', Finishing, [Next]_vars
             PROVE  Finishing'
  OBVIOUS
<1>1. CASE UploadFile \/ OnNetworkChanged \/ \E l \in app.cancels : CancelFileUpload(l)
  BY <1>1, ApplicationFinishing DEF UploadFile, OnNetworkChanged, CancelFileUpload
<1>2. CASE \E o \in Ids : CheckUploadNewDataAvailable(o)
  BY <1>2, ApplicationFinishing DEF CheckUploadNewDataAvailable
<1>3. CASE Restart
  BY <1>3, RestartFinishing
<1>4. CASE RunLoaderTask
  BY <1>4, RunLoaderTaskFinishing
<1>5. CASE Finish
  BY <1>5, FinishFinishing
<1>6. CASE StartUploadRequest
  BY <1>6, StartUploadRequestFinishing
<1>7. CASE RunStageTask
  BY <1>7, RunStageTaskFinishing
<1>8. CASE \E r \in wire : Written(r) \/ Answer(r, TRUE) \/ Answer(r, FALSE)
  BY <1>8, WrittenFinishing, AnswerFinishing
<1>9. CASE UNCHANGED vars
  BY <1>9, ApplicationFinishing DEF vars
<1> QED
  BY <1>1, <1>2, <1>3, <1>4, <1>5, <1>6, <1>7, <1>8, <1>9 DEF Next, Loader, Stage

(* When startUploadRequest has the answer to the last request of an upload   *)
(* and FileLoader is told of the file, the server has each of the parts that *)
(* are reported, and they join from the beginning of the file to its end,    *)
(* whatever was resumed, repeated, failed or cancelled before, if the file   *)
(* was cut in one way and no two uploads of it wrote to its preferences.     *)
THEOREM FinishedComplete == Spec => []FinishedIsComplete
<1>1. Init => Inv /\ Apartness /\ Progress /\ Finishing
  BY InitInv, ApartnessInit, ProgressInit, FinishingInit
<1>2. Inv /\ Apartness /\ Progress /\ Finishing /\ [Next]_vars
         => (Inv /\ Apartness /\ Progress /\ Finishing)'
  BY StepInv, ApartnessStep, ProgressStep, FinishingStep
<1>3. Inv /\ Progress /\ Finishing => FinishedIsComplete
  BY FinishingComplete
<1> QED
  BY <1>1, <1>2, <1>3, PTL DEF Spec

=============================================================================
