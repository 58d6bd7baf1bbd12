--------------------------- MODULE FileUploadProofs ---------------------------
(* Proofs about FileUpload: types, and that a running upload knows how many  *)
(* of its requests are not answered.                                         *)
EXTENDS FileUpload, FiniteSetTheorems, WellFoundedInduction, TLAPS

-----------------------------------------------------------------------------
(* Types.                                                                    *)
Requests ==
    [o : Nat, guid : Nat, id : Nat, part : Int, from : Nat, bytes : Nat,
     written : BOOLEAN, early : BOOLEAN]

StageTasks ==
    [do : {"start", "cancel", "written"}, o : Nat]
    \cup [do : {"data"}, o : Nat, avail : Nat, final : BOOLEAN]
    \cup [do : {"network"}, o : Nat, slow : BOOLEAN]
    \cup {t \in [do : {"answer"}, o : Nat, r : Requests, ok : BOOLEAN] : t.r.o = t.o}

LoaderTasks ==
    [do : {"upload", "failed", "finished"}, o : Ids]
    \cup [do : {"cancel"}, loc : Locations]
    \cup [do : {"data"}, loc : Locations, avail : Nat, final : BOOLEAN]
    \cup [do : {"network"}, slow : BOOLEAN]

Results == [id : Nat, parts : Int]

Caches == {c \in SUBSET Requests : IsFiniteSet(c)}

Operations ==
    [state : 0..4, est : BOOLEAN, total : Nat, avail : Nat, slow : BOOLEAN, max : Nat,
     started : BOOLEAN, open : BOOLEAN, pos : Nat, read : Nat, part : Int, parts : Int,
     chunk : Nat, last : BOOLEAN, nextFirst : BOOLEAN, later : BOOLEAN, busy : Int,
     savedPart : Int, times : Nat, cached : Caches, id : Nat,
     guid : Nat, result : SUBSET Results,
     outcome : {"none", "finished", "failed", "refused"}]

(* Membership in Operations, field by field.                                 *)
Shaped(u) ==
    u = [x \in {"state", "est", "total", "avail", "slow", "max", "started", "open", "pos",
                "read", "part", "parts", "chunk", "last", "nextFirst", "later", "busy",
                "savedPart", "times", "cached", "id", "guid", "result", "outcome"} |-> u[x]]

Fields(u) ==
    /\ u.state \in 0..4 /\ u.est \in BOOLEAN /\ u.total \in Nat /\ u.avail \in Nat
    /\ u.slow \in BOOLEAN /\ u.max \in Nat /\ u.started \in BOOLEAN /\ u.open \in BOOLEAN
    /\ u.pos \in Nat /\ u.read \in Nat /\ u.part \in Int /\ u.parts \in Int /\ u.chunk \in Nat
    /\ u.last \in BOOLEAN /\ u.nextFirst \in BOOLEAN /\ u.later \in BOOLEAN /\ u.busy \in Int
    /\ u.savedPart \in Int /\ u.times \in Nat /\ u.cached \in Caches /\ u.id \in Nat
    /\ u.guid \in Nat /\ u.result \in SUBSET Results
    /\ u.outcome \in {"none", "finished", "failed", "refused"}

LEMMA OperationForm == \A u : u \in Operations <=> Shaped(u) /\ Fields(u)
<1>1. ASSUME NEW u \in Operations PROVE Shaped(u) /\ Fields(u)
  <2>1. Shaped(u)
    BY DEF Shaped, Operations
  <2> QED
    BY <2>1 DEF Fields, Operations
<1>2. ASSUME NEW u, Shaped(u), Fields(u) PROVE u \in Operations
  BY <1>2 DEF Shaped, Fields, Operations
<1> QED
  BY <1>1, <1>2

Places == [kind : {"idle", "send", "finish"}, o : Nat, left : Int, late : BOOLEAN]

-----------------------------------------------------------------------------
(* How many of the entries of a sequence are in a set.                       *)
Count(s, T) == Cardinality({i \in DOMAIN s : s[i] \in T})

LEMMA CountType ==
    ASSUME NEW S, NEW T, NEW s \in Seq(S)
    PROVE  IsFiniteSet({i \in DOMAIN s : s[i] \in T}) /\ Count(s, T) \in Nat
<1>1. IsFiniteSet(1..Len(s))
  BY FS_Interval
<1>2. {i \in DOMAIN s : s[i] \in T} \subseteq 1..Len(s)
  OBVIOUS
<1> QED
  BY <1>1, <1>2, FS_Subset, FS_CardinalityType DEF Count

LEMMA CountEmpty == \A T : Count(<<>>, T) = 0
<1> SUFFICES ASSUME NEW T PROVE Count(<<>>, T) = 0
  OBVIOUS
<1>1. {i \in DOMAIN <<>> : <<>>[i] \in T} = {}
  OBVIOUS
<1> QED
  BY <1>1, FS_EmptySet DEF Count

LEMMA CountAppend ==
    ASSUME NEW S, NEW T, NEW s \in Seq(S), NEW t \in S
    PROVE  Count(Append(s, t), T) = IF t \in T THEN Count(s, T) + 1 ELSE Count(s, T)
<1> DEFINE places == {i \in DOMAIN s : s[i] \in T}
           more   == {i \in DOMAIN Append(s, t) : Append(s, t)[i] \in T}
<1>1. IsFiniteSet(places) /\ Len(s) + 1 \notin places
  <2>1. IsFiniteSet(places)
    BY CountType
  <2> QED
    BY <2>1
<1>2. CASE t \in T
  <2>1. more = places \cup {Len(s) + 1}
    BY <1>2
  <2> HIDE DEF places, more
  <2>2. Cardinality(more) = Cardinality(places) + 1
    BY <1>1, <2>1, FS_AddElement
  <2> QED
    BY <1>2, <2>2 DEF Count, places, more
<1>3. CASE t \notin T
  <2>1. more = places
    BY <1>3
  <2> QED
    BY <1>3, <2>1 DEF Count
<1> QED
  BY <1>2, <1>3

LEMMA CountTail ==
    ASSUME NEW S, NEW T, NEW s \in Seq(S), s # <<>>
    PROVE  Count(s, T) = IF Head(s) \in T THEN Count(Tail(s), T) + 1 ELSE Count(Tail(s), T)
<1> DEFINE places == {i \in DOMAIN s : s[i] \in T}
           rest   == {i \in DOMAIN Tail(s) : Tail(s)[i] \in T}
           back   == {i \in places : i # 1}
           down   == [i \in back |-> i - 1]
<1>1. IsFiniteSet(places) /\ IsFiniteSet(rest)
  <2>1. Tail(s) \in Seq(S)
    OBVIOUS
  <2> QED
    BY <2>1, CountType
<1>2. IsFiniteSet(back)
  BY <1>1, FS_Subset
<1>3. Cardinality(back) = Cardinality(rest)
  <2>1. down \in Bijection(back, rest)
    <3>1. down \in [back -> rest]
      OBVIOUS
    <3>2. \A a, b \in back : down[a] = down[b] => a = b
      OBVIOUS
    <3>3. \A j \in rest : j + 1 \in back /\ down[j + 1] = j
      OBVIOUS
    <3> HIDE DEF down, back, rest
    <3> QED
      BY <3>1, <3>2, <3>3 DEF Bijection, Injection, IsInjective, Surjection
  <2> HIDE DEF back, rest
  <2> QED
    BY <1>1, <1>2, <2>1, FS_Bijection DEF ExistsBijection
<1>4. CASE Head(s) \in T
  <2>1. places = back \cup {1} /\ 1 \notin back
    BY <1>4
  <2> HIDE DEF back, places
  <2>2. Cardinality(places) = Cardinality(back) + 1
    BY <1>2, <2>1, FS_AddElement
  <2> QED
    BY <1>3, <1>4, <2>2 DEF Count, places
<1>5. CASE Head(s) \notin T
  <2>1. places = back
    BY <1>5
  <2> HIDE DEF back
  <2> QED
    BY <1>3, <1>5, <2>1 DEF Count
<1> QED
  BY <1>4, <1>5

(* Entries of other kinds behind a sequence are not counted.                 *)
LEMMA CountConcat ==
    ASSUME NEW S, NEW T, NEW s \in Seq(S), NEW n \in Nat, NEW more \in [1..n -> S],
           \A i \in 1..n : more[i] \notin T
    PROVE  Count(s \o more, T) = Count(s, T)
<1>1. more \in Seq(S) /\ Len(more) = n
  OBVIOUS
<1>2. {i \in DOMAIN (s \o more) : (s \o more)[i] \in T} = {i \in DOMAIN s : s[i] \in T}
  <2> SUFFICES ASSUME NEW i \in 1..Len(s) + n, i > Len(s) PROVE (s \o more)[i] \notin T
    BY <1>1
  <2>1. (s \o more)[i] = more[i - Len(s)] /\ i - Len(s) \in 1..n
    BY <1>1
  <2> QED
    BY <2>1
<1> QED
  BY <1>2 DEF Count

LEMMA CountNone ==
    ASSUME NEW s, NEW T, \A i \in DOMAIN s : s[i] \notin T
    PROVE  Count(s, T) = 0
<1>1. {i \in DOMAIN s : s[i] \in T} = {}
  OBVIOUS
<1> QED
  BY <1>1, FS_EmptySet DEF Count

-----------------------------------------------------------------------------
(* What concerns one upload: u is its operation, f its file, m its requests  *)
(* on the wire and s the stage queue; k says what the stage queue is about   *)
(* to do for it, and n how many calls of startUploadRequest are left.        *)
Kind(o, a)    == IF a.o = o THEN a.kind ELSE "idle"
Pending(o, a) == IF a.o = o /\ a.kind = "send" THEN a.left ELSE 0
Mine(w, o)    == {r \in w : r.o = o}

Sent(m, g)      == {r \in m : r.guid = g}
Answers(o, g)   == {t \in StageTasks : t.do = "answer" /\ t.r.o = o /\ t.r.guid = g}
Flying(o, g, m, s) == Cardinality(Sent(m, g)) + Count(s, Answers(o, g))

Blank(u) ==
    /\ u.busy = 0 /\ u.max = 0 /\ ~u.open /\ ~u.started /\ u.guid = 0 /\ u.part = 0 /\ u.read = 0
    /\ u.pos = 0 /\ u.chunk = 0 /\ ~u.last /\ ~u.nextFirst /\ u.savedPart = 0 /\ u.times = 0
    /\ u.cached = {} /\ u.id = 0

Rewound(u) ==
    /\ u.part = 0 /\ u.read = 0 /\ u.pos = 0 /\ ~u.last /\ ~u.nextFirst /\ u.busy = 0
    /\ u.savedPart = 0 /\ u.cached = {}

Starts(s, o, j) == s[j].do = "start" /\ s[j].o = o

(* Nothing has happened to an upload that has not been started.              *)
Untaken(o, u, m, s, k) ==
    u.state = 0 => /\ Blank(u) /\ m = {} /\ k = "idle"
                   /\ \A i \in DOMAIN s : s[i].o = o => s[i].do = "data"

(* Nor to one whose first task is in the stage queue, where it is alone.     *)
Prepared(o, u, m, s, k) ==
    \A j \in DOMAIN s : Starts(s, o, j) =>
        /\ u.state \in {1, 2} /\ Blank(u) /\ m = {} /\ k = "idle"
        /\ \A i \in DOMAIN s : i # j /\ s[i].o = o =>
              s[i].do \in {"data", "network", "cancel"} /\ (i < j => s[i].do = "data")

(* No request is of a future beginning, and a cancelled upload has stopped.  *)
Begun(o, u, m, s) ==
    /\ \A i \in DOMAIN s : s[i].do = "cancel" /\ s[i].o = o => u.state \in 2..4
    /\ \A r \in m : r.guid <= u.guid
    /\ \A i \in DOMAIN s : s[i].do = "answer" /\ s[i].o = o => s[i].r.guid <= u.guid

(* A running upload counts its requests, and has room for those to come.     *)
Counted(o, u, m, s, n) ==
    u.state = 1 => u.busy = Flying(o, u.guid, m, s) /\ u.busy + n <= MaxFast

(* While its file is not open, it is about to be opened from the start.      *)
Rewinding(o, u, s, k) ==
    u.state = 1 /\ ~u.open => Rewound(u) /\ ((\E j \in DOMAIN s : Starts(s, o, j)) \/ k = "send")

(* The parts on the wire are behind the next one, or all have been read; the *)
(* first one is not among them when it is still to come.                     *)
AllRead(u, f) == ~u.nextFirst /\ u.pos >= f.size
Behind(u, f, m) ==
    u.state = 1 /\ u.open => \A r \in Sent(m, u.guid) :
        /\ r.part < u.part \/ AllRead(u, f)
        /\ u.later \/ u.nextFirst => r.part >= 1

(* A part is on the wire once.                                               *)
Once(u, m) == u.state = 1 => \A r, t \in Sent(m, u.guid) : r.part = t.part => r = t

Flags(u) ==
    /\ ~(u.later /\ u.nextFirst) /\ (u.last => ~u.later /\ ~u.nextFirst)
    /\ u.nextFirst => u.part >= 1
    /\ u.open /\ u.later => u.part >= 1
    /\ u.max # 0 => u.started
    /\ u.max <= MaxFast

View(o, f, u, m, s, k, n) ==
    /\ Untaken(o, u, m, s, k) /\ Prepared(o, u, m, s, k) /\ Begun(o, u, m, s)
    /\ Counted(o, u, m, s, n) /\ Rewinding(o, u, s, k) /\ Behind(u, f, m) /\ Once(u, m)
    /\ Flags(u)

Typed(o, f, u, m, s, k, n) ==
    /\ o \in Nat /\ f \in Uploads /\ u \in Operations
    /\ m \in SUBSET Requests /\ IsFiniteSet(m) /\ (\A r \in m : r.o = o)
    /\ s \in Seq(StageTasks) /\ k \in {"idle", "send", "finish"} /\ n \in Nat

LEMMA StageTaskFields ==
    ASSUME NEW t \in StageTasks
    PROVE  /\ t.o \in Nat /\ t.do \in {"start", "cancel", "written", "data", "network", "answer"}
           /\ t.do = "data" => t.avail \in Nat /\ t.final \in BOOLEAN
           /\ t.do = "network" => t.slow \in BOOLEAN
           /\ t.do = "answer" => t.r \in Requests /\ t.r.o = t.o /\ t.ok \in BOOLEAN
BY DEF StageTasks

LEMMA SentFinite ==
    ASSUME NEW m, IsFiniteSet(m)
    PROVE  \A g : IsFiniteSet(Sent(m, g)) /\ Cardinality(Sent(m, g)) \in Nat
<1>1. \A g : Sent(m, g) \subseteq m
  BY DEF Sent
<1> QED
  BY <1>1, FS_Subset, FS_CardinalityType

LEMMA FlyingType ==
    ASSUME NEW o, NEW g, NEW m, IsFiniteSet(m), NEW s \in Seq(StageTasks)
    PROVE  Flying(o, g, m, s) \in Nat /\ Count(s, Answers(o, g)) \in Nat
<1>1. Cardinality(Sent(m, g)) \in Nat /\ Count(s, Answers(o, g)) \in Nat
  BY SentFinite, CountType
<1> QED
  BY <1>1 DEF Flying

-----------------------------------------------------------------------------
(* What the stage queue gets or does for other uploads changes nothing.      *)
LEMMA OtherAppended ==
    ASSUME NEW o, NEW f, NEW u, NEW m, NEW s, NEW k, NEW n, Typed(o, f, u, m, s, k, n),
           View(o, f, u, m, s, k, n), NEW t \in StageTasks, t.o # o
    PROVE  View(o, f, u, m, Append(s, t), k, n)
<1> DEFINE q == Append(s, t)
<1>1. s \in Seq(StageTasks) /\ q \in Seq(StageTasks)
  BY DEF Typed
<1>2. /\ DOMAIN q = 1..Len(s) + 1 /\ DOMAIN s = 1..Len(s) /\ Len(s) \in Nat
      /\ \A i \in DOMAIN s : q[i] = s[i]
      /\ q[Len(s) + 1] = t
  BY <1>1
<1>3. \A g : Flying(o, g, m, q) = Flying(o, g, m, s)
  <2> SUFFICES ASSUME NEW g PROVE Flying(o, g, m, q) = Flying(o, g, m, s)
    OBVIOUS
  <2>1. t \notin Answers(o, g)
    BY StageTaskFields DEF Answers
  <2> QED
    BY <1>1, <2>1, CountAppend DEF Flying
<1> HIDE DEF q
<1>4. Untaken(o, u, m, q, k) /\ Prepared(o, u, m, q, k) /\ Begun(o, u, m, q)
  BY <1>2 DEF View, Untaken, Prepared, Begun, Starts
<1>5. Counted(o, u, m, q, n) /\ Rewinding(o, u, q, k)
  BY <1>2, <1>3 DEF View, Counted, Rewinding, Starts
<1> QED
  BY <1>4, <1>5 DEF View, q

LEMMA OtherRun ==
    ASSUME NEW o, NEW f, NEW u, NEW m, NEW s, NEW k, NEW n, Typed(o, f, u, m, s, k, n),
           View(o, f, u, m, s, k, n), s # <<>>, Head(s).o # o
    PROVE  View(o, f, u, m, Tail(s), k, n)
<1> DEFINE q == Tail(s)
<1>1. s \in Seq(StageTasks) /\ q \in Seq(StageTasks) /\ Head(s) \in StageTasks
  BY DEF Typed
<1>2. /\ DOMAIN q = 1..Len(s) - 1 /\ DOMAIN s = 1..Len(s) /\ Len(s) \in Nat
      /\ \A i \in DOMAIN q : i + 1 \in DOMAIN s /\ q[i] = s[i + 1]
      /\ \A i \in DOMAIN s : s[i].o = o => i - 1 \in DOMAIN q /\ q[i - 1] = s[i]
  BY <1>1
<1>3. \A g : Flying(o, g, m, q) = Flying(o, g, m, s)
  <2> SUFFICES ASSUME NEW g PROVE Flying(o, g, m, q) = Flying(o, g, m, s)
    OBVIOUS
  <2>1. Head(s) \notin Answers(o, g)
    BY <1>1, StageTaskFields DEF Answers
  <2> QED
    BY <1>1, <2>1, CountTail DEF Flying
<1> HIDE DEF q
<1>4. Untaken(o, u, m, q, k) /\ Prepared(o, u, m, q, k) /\ Begun(o, u, m, q)
  BY <1>2 DEF View, Untaken, Prepared, Begun, Starts
<1>5. Counted(o, u, m, q, n) /\ Rewinding(o, u, q, k)
  BY <1>2, <1>3 DEF View, Counted, Rewinding, Starts
<1> QED
  BY <1>4, <1>5 DEF View, q

-----------------------------------------------------------------------------
(* What FileLoader does to an upload.                                        *)
LEMMA OwnAppended ==
    ASSUME NEW o, NEW f, NEW u, NEW m, NEW s, NEW k, NEW n, Typed(o, f, u, m, s, k, n),
           View(o, f, u, m, s, k, n), NEW t \in StageTasks, t.o = o,
           t.do \in {"data", "network", "cancel", "written"},
           t.do # "data" => u.state # 0, t.do = "cancel" => u.state \in 2..4,
           t.do = "written" => m # {}
    PROVE  View(o, f, u, m, Append(s, t), k, n)
<1> DEFINE q == Append(s, t)
<1>1. s \in Seq(StageTasks) /\ q \in Seq(StageTasks)
  BY DEF Typed
<1>2. /\ DOMAIN q = 1..Len(s) + 1 /\ DOMAIN s = 1..Len(s) /\ Len(s) \in Nat
      /\ \A i \in DOMAIN s : q[i] = s[i]
      /\ q[Len(s) + 1] = t
  BY <1>1
<1>3. \A g : Flying(o, g, m, q) = Flying(o, g, m, s)
  <2> SUFFICES ASSUME NEW g PROVE Flying(o, g, m, q) = Flying(o, g, m, s)
    OBVIOUS
  <2>1. t \notin Answers(o, g)
    BY DEF Answers
  <2> QED
    BY <1>1, <2>1, CountAppend DEF Flying
<1> HIDE DEF q
<1>4. Untaken(o, u, m, q, k) /\ Prepared(o, u, m, q, k) /\ Begun(o, u, m, q)
  BY <1>2 DEF View, Untaken, Prepared, Begun, Starts
<1>5. Counted(o, u, m, q, n) /\ Rewinding(o, u, q, k)
  BY <1>2, <1>3 DEF View, Counted, Rewinding, Starts
<1> QED
  BY <1>4, <1>5 DEF View, q

LEMMA NetworkAppended ==
    ASSUME NEW o, NEW f, NEW u, NEW m, NEW s, NEW k, NEW n, Typed(o, f, u, m, s, k, n),
           View(o, f, u, m, s, k, n), NEW c \in Nat, NEW more \in [1..c -> StageTasks],
           \A i \in 1..c : more[i].do = "network" /\ (more[i].o = o => u.state = 1)
    PROVE  View(o, f, u, m, s \o more, k, n)
<1> DEFINE q == s \o more
<1>1. s \in Seq(StageTasks) /\ more \in Seq(StageTasks) /\ Len(more) = c /\ q \in Seq(StageTasks)
  BY DEF Typed
<1>2. /\ DOMAIN q = 1..Len(s) + c /\ DOMAIN s = 1..Len(s) /\ Len(s) \in Nat
      /\ \A i \in DOMAIN s : q[i] = s[i]
      /\ \A i \in DOMAIN q : i \notin DOMAIN s =>
            i > Len(s) /\ q[i].do = "network" /\ (q[i].o = o => u.state = 1)
  <2>1. \A i \in 1..Len(s) + c : i > Len(s) => q[i] = more[i - Len(s)] /\ i - Len(s) \in 1..c
    BY <1>1
  <2> QED
    BY <1>1, <2>1
<1>3. \A g : Flying(o, g, m, q) = Flying(o, g, m, s)
  <2> SUFFICES ASSUME NEW g PROVE Flying(o, g, m, q) = Flying(o, g, m, s)
    OBVIOUS
  <2>1. \A i \in 1..c : more[i] \notin Answers(o, g)
    BY DEF Answers
  <2> QED
    BY <1>1, <2>1, CountConcat DEF Flying
<1> HIDE DEF q
<1>4. Untaken(o, u, m, q, k) /\ Prepared(o, u, m, q, k) /\ Begun(o, u, m, q)
  BY <1>2 DEF View, Untaken, Prepared, Begun, Starts
<1>5. Counted(o, u, m, q, n) /\ Rewinding(o, u, q, k)
  BY <1>2, <1>3 DEF View, Counted, Rewinding, Starts
<1> QED
  BY <1>4, <1>5 DEF View, q

(* An upload is queued or started.                                           *)
LEMMA NothingFlies ==
    ASSUME NEW o, NEW s \in Seq(StageTasks),
           \A i \in DOMAIN s : s[i].o = o => s[i].do # "answer"
    PROVE  \A g : Flying(o, g, {}, s) = 0
<1> SUFFICES ASSUME NEW g PROVE Flying(o, g, {}, s) = 0
  OBVIOUS
<1>1. Sent({}, g) = {}
  BY DEF Sent
<1>2. \A i \in DOMAIN s : s[i] \notin Answers(o, g)
  <2> SUFFICES ASSUME NEW i \in DOMAIN s, s[i] \in Answers(o, g) PROVE FALSE
    OBVIOUS
  <2>1. s[i] \in StageTasks /\ s[i].do = "answer" /\ s[i].r.o = o
    BY DEF Answers
  <2>2. s[i].r.o = s[i].o
    BY <2>1, StageTaskFields
  <2> QED
    BY <2>1, <2>2
<1>3. Count(s, Answers(o, g)) = 0
  BY <1>2, CountNone
<1>4. Cardinality(Sent({}, g)) = 0
  BY <1>1, FS_EmptySet
<1> QED
  BY <1>3, <1>4 DEF Flying

LEMMA Queued ==
    ASSUME NEW o, NEW f, NEW u, NEW m, NEW s, NEW k, NEW n, Typed(o, f, u, m, s, k, n),
           View(o, f, u, m, s, k, n), u.state = 0,
           NEW v \in Operations, Blank(v), Flags(v), v.state = 0
    PROVE  View(o, f, v, m, s, k, n)
BY DEF View, Untaken, Prepared, Begun, Counted, Rewinding, Behind, Once, Blank, Typed

LEMMA Started ==
    ASSUME NEW o, NEW f, NEW u, NEW m, NEW s, NEW k, NEW n, Typed(o, f, u, m, s, k, n),
           View(o, f, u, m, s, k, n), u.state = 0, n = 0,
           NEW v \in Operations, Blank(v), Flags(v), v.state = 1
    PROVE  View(o, f, v, m, Append(s, [do |-> "start", o |-> o]), k, n)
<1> DEFINE t == [do |-> "start", o |-> o]
           q == Append(s, t)
<1>1. s \in Seq(StageTasks) /\ t \in StageTasks /\ q \in Seq(StageTasks)
  BY DEF Typed, StageTasks
<1>2. /\ DOMAIN q = 1..Len(s) + 1 /\ DOMAIN s = 1..Len(s) /\ Len(s) \in Nat
      /\ \A i \in DOMAIN s : q[i] = s[i]
      /\ q[Len(s) + 1] = t /\ t.o = o /\ t.do = "start"
  BY <1>1
<1>3. m = {} /\ k = "idle" /\ \A i \in DOMAIN s : s[i].o = o => s[i].do = "data"
  BY DEF View, Untaken
<1> HIDE DEF q, t
<1>4. \A g : Flying(o, g, m, q) = 0
  <2>1. \A i \in DOMAIN q : q[i].o = o => q[i].do # "answer"
    BY <1>2, <1>3
  <2> QED
    BY <1>1, <1>3, <2>1, NothingFlies
<1>5. Untaken(o, v, m, q, k) /\ Prepared(o, v, m, q, k) /\ Begun(o, v, m, q)
  BY <1>2, <1>3 DEF Untaken, Prepared, Begun, Starts
<1>6. Counted(o, v, m, q, n)
  BY <1>4, UploadAssumption DEF Blank, Counted
<1>7. Rewinding(o, v, q, k)
  BY <1>2 DEF Rewinding, Blank, Rewound, Starts
<1>8. Behind(v, f, m) /\ Once(v, m)
  BY <1>3 DEF Behind, Once, Sent
<1> QED
  BY <1>5, <1>6, <1>7, <1>8 DEF View, q, t

(* An upload is stopped: cancelled, failed or finished.                      *)
Stops(u, state) == [u EXCEPT !.state = state, !.open = FALSE]

LEMMA StopFields ==
    ASSUME NEW u \in Operations, NEW state \in 2..4
    PROVE  /\ Stops(u, state) \in Operations
           /\ Stops(u, state).state = state /\ ~Stops(u, state).open
           /\ Stops(u, state).guid = u.guid /\ (Blank(u) => Blank(Stops(u, state)))
           /\ Flags(u) => Flags(Stops(u, state))
<1> DEFINE v == Stops(u, state)
<1>1. Shaped(v)
  BY DEF Stops, Operations, Shaped
<1>2. /\ v.state = state /\ ~v.open /\ v.guid = u.guid /\ v.busy = u.busy /\ v.max = u.max
      /\ v.started = u.started /\ v.part = u.part /\ v.read = u.read /\ v.pos = u.pos
      /\ v.chunk = u.chunk /\ v.last = u.last /\ v.nextFirst = u.nextFirst /\ v.later = u.later
      /\ v.savedPart = u.savedPart /\ v.times = u.times /\ v.cached = u.cached /\ v.id = u.id
      /\ v.est = u.est
  BY DEF Stops, Operations
<1>3. Fields(v)
  BY DEF Stops, Operations, Fields
<1>4. v \in Operations
  BY <1>1, <1>3, OperationForm
<1> HIDE DEF v
<1> QED
  BY <1>2, <1>4 DEF Blank, Flags, v

LEMMA Stopped ==
    ASSUME NEW o, NEW f, NEW u, NEW m, NEW s, NEW k, NEW n, Typed(o, f, u, m, s, k, n),
           View(o, f, u, m, s, k, n), NEW v \in Operations, v.state \in 2..4,
           v.guid = u.guid, Blank(u) => Blank(v), Flags(v), NEW l, NEW c,
           v.state = 2 \/ \A j \in DOMAIN s : ~Starts(s, o, j), k = "idle" => l = "idle"
    PROVE  View(o, f, v, m, s, l, c)
<1>1. Untaken(o, v, m, s, l) /\ Counted(o, v, m, s, c) /\ Rewinding(o, v, s, l)
  BY DEF Untaken, Counted, Rewinding
<1>2. Prepared(o, v, m, s, l)
  BY DEF View, Prepared
<1>3. Begun(o, v, m, s)
  BY DEF View, Begun
<1>4. Behind(v, f, m) /\ Once(v, m)
  BY DEF Behind, Once
<1> QED
  BY <1>1, <1>2, <1>3, <1>4 DEF View

-----------------------------------------------------------------------------
(* What the stage queue does for an upload.                                  *)
LEMMA Turned ==
    ASSUME NEW o, NEW f, NEW u, NEW m, NEW s, NEW k, NEW n, Typed(o, f, u, m, s, k, n),
           View(o, f, u, m, s, k, n), NEW l, NEW c,
           l = "idle" \/ (u.state # 0 /\ \A j \in DOMAIN s : ~Starts(s, o, j)),
           u.state = 1 => u.busy + c <= MaxFast,
           u.state = 1 /\ ~u.open => l = "send" \/ \E j \in DOMAIN s : Starts(s, o, j)
    PROVE  View(o, f, u, m, s, l, c)
<1>1. Untaken(o, u, m, s, l) /\ Prepared(o, u, m, s, l)
  BY DEF View, Untaken, Prepared
<1>2. Counted(o, u, m, s, c) /\ Rewinding(o, u, s, l)
  BY DEF View, Counted, Rewinding
<1> QED
  BY <1>1, <1>2 DEF View

(* A task of it other than its first is taken from the stage queue.          *)
LEMMA OwnRun ==
    ASSUME NEW o, NEW f, NEW u, NEW m, NEW s, NEW k, NEW n, Typed(o, f, u, m, s, k, n),
           View(o, f, u, m, s, k, n), s # <<>>, Head(s).o = o, Head(s).do # "start",
           Head(s).do = "answer" => u.state # 1 \/ Head(s).r.guid # u.guid
    PROVE  View(o, f, u, m, Tail(s), k, n)
<1> DEFINE q == Tail(s)
<1>1. s \in Seq(StageTasks) /\ q \in Seq(StageTasks) /\ Head(s) \in StageTasks
  BY DEF Typed
<1>2. /\ DOMAIN q = 1..Len(s) - 1 /\ DOMAIN s = 1..Len(s) /\ Len(s) \in Nat
      /\ \A i \in DOMAIN q : i + 1 \in DOMAIN s /\ q[i] = s[i + 1]
      /\ \A i \in DOMAIN s : Starts(s, o, i) => i - 1 \in DOMAIN q /\ q[i - 1] = s[i]
  BY <1>1 DEF Starts
<1>3. u.state = 1 => Flying(o, u.guid, m, q) = Flying(o, u.guid, m, s)
  <2> SUFFICES ASSUME u.state = 1
               PROVE  Flying(o, u.guid, m, q) = Flying(o, u.guid, m, s)
    OBVIOUS
  <2>1. Head(s) \notin Answers(o, u.guid)
    BY DEF Answers
  <2> QED
    BY <1>1, <2>1, CountTail DEF Flying
<1> HIDE DEF q
<1>4. Untaken(o, u, m, q, k) /\ Prepared(o, u, m, q, k) /\ Begun(o, u, m, q)
  BY <1>2 DEF View, Untaken, Prepared, Begun, Starts
<1>5. Counted(o, u, m, q, n) /\ Rewinding(o, u, q, k)
  BY <1>2, <1>3 DEF View, Counted, Rewinding, Starts
<1> QED
  BY <1>4, <1>5 DEF View, q

LEMMA NothingPrepared ==
    ASSUME NEW o, NEW f, NEW u, NEW m, NEW s, NEW k, NEW n, Typed(o, f, u, m, s, k, n),
           View(o, f, u, m, s, k, n), s # <<>>, Head(s).o = o,
           Head(s).do \notin {"start", "data"}
    PROVE  /\ u.state # 0
           /\ \A j \in DOMAIN s : ~Starts(s, o, j)
           /\ \A j \in DOMAIN Tail(s) : ~Starts(Tail(s), o, j)
           /\ k = "idle" /\ u.state = 1 => u.open
<1>1. s \in Seq(StageTasks) /\ 1 \in DOMAIN s /\ Head(s) = s[1]
  BY DEF Typed
<1>2. u.state # 0
  BY <1>1 DEF View, Untaken
<1>3. \A j \in DOMAIN s : ~Starts(s, o, j)
  <2> SUFFICES ASSUME NEW j \in DOMAIN s, Starts(s, o, j) PROVE FALSE
    OBVIOUS
  <2>1. j # 1 /\ 1 < j
    BY <1>1 DEF Starts
  <2> QED
    BY <1>1, <2>1 DEF View, Prepared
<1>4. \A j \in DOMAIN Tail(s) : j + 1 \in DOMAIN s /\ Tail(s)[j] = s[j + 1]
  BY <1>1
<1> QED
  BY <1>2, <1>3, <1>4 DEF View, Rewinding, Starts

(* The same, when its answer or its network is what View does not depend on. *)
Alike(u, v) ==
    /\ v.state = u.state /\ v.busy = u.busy /\ v.max = u.max /\ v.started = u.started
    /\ v.open = u.open /\ v.guid = u.guid /\ v.part = u.part /\ v.read = u.read /\ v.pos = u.pos
    /\ v.chunk = u.chunk /\ v.last = u.last /\ v.nextFirst = u.nextFirst /\ v.later = u.later
    /\ v.savedPart = u.savedPart /\ v.times = u.times /\ v.cached = u.cached /\ v.id = u.id
    /\ v.est => u.est

LEMMA AlikeView ==
    ASSUME NEW o, NEW f, NEW u, NEW v, NEW m, NEW s, NEW k, NEW n,
           View(o, f, u, m, s, k, n), Alike(u, v)
    PROVE  View(o, f, v, m, s, k, n)
<1>1. Blank(v) <=> Blank(u)
  BY DEF Alike, Blank
<1>2. Untaken(o, v, m, s, k) /\ Prepared(o, v, m, s, k) /\ Begun(o, v, m, s)
  BY <1>1 DEF Alike, View, Untaken, Prepared, Begun
<1>3. Counted(o, v, m, s, n) /\ Rewinding(o, v, s, k)
  BY DEF Alike, View, Counted, Rewinding, Rewound
<1>4. Behind(v, f, m) /\ Once(v, m) /\ Flags(v)
  BY DEF Alike, View, Behind, AllRead, Once, Flags
<1> QED
  BY <1>2, <1>3, <1>4 DEF View

(* The first task.                                                           *)
LEMMA StartRun ==
    ASSUME NEW o, NEW f, NEW u, NEW m, NEW s, NEW k, NEW n, Typed(o, f, u, m, s, k, n),
           View(o, f, u, m, s, k, n), s # <<>>, Starts(s, o, 1), NEW v, Alike(u, v),
           NEW c \in Nat, c <= MaxFast
    PROVE  View(o, f, v, m, Tail(s), "send", c)
<1> DEFINE q == Tail(s)
<1>1. s \in Seq(StageTasks) /\ q \in Seq(StageTasks)
  BY DEF Typed
<1>2. /\ DOMAIN q = 1..Len(s) - 1 /\ DOMAIN s = 1..Len(s) /\ Len(s) \in Nat /\ 1 \in DOMAIN s
      /\ \A i \in DOMAIN q : i + 1 \in DOMAIN s /\ i + 1 # 1 /\ q[i] = s[i + 1]
  BY <1>1
<1>3. /\ u.state \in {1, 2} /\ Blank(u) /\ m = {}
      /\ \A i \in DOMAIN s : 1 # i /\ s[i].o = o => s[i].do \in {"data", "network", "cancel"}
  BY <1>2 DEF View, Prepared
<1> HIDE DEF q
<1>4. \A i \in DOMAIN q : q[i].o = o => q[i].do \in {"data", "network", "cancel"}
  BY <1>2, <1>3
<1>5. \A g : Flying(o, g, m, q) = 0
  BY <1>1, <1>3, <1>4, NothingFlies
<1>6. Blank(v) /\ v.state = u.state /\ Flags(v)
  BY <1>3 DEF View, Alike, Blank, Flags
<1>7. Untaken(o, v, m, q, "send") /\ Prepared(o, v, m, q, "send")
  BY <1>3, <1>4, <1>6 DEF Untaken, Prepared, Starts
<1>8. Begun(o, v, m, q)
  BY <1>2, <1>3, <1>4, <1>6 DEF View, Begun
<1>9. Counted(o, v, m, q, c)
  BY <1>5, <1>6, UploadAssumption DEF Counted, Blank
<1>10. Rewinding(o, v, q, "send")
  BY <1>6 DEF Rewinding, Blank, Rewound
<1>11. Behind(v, f, m) /\ Once(v, m)
  BY <1>3 DEF Behind, Once, Sent
<1> QED
  BY <1>6, <1>7, <1>8, <1>9, <1>10, <1>11 DEF View, q

(* All is begun anew, or nothing is left of a cancelled upload.              *)
LEMMA BegunAnew ==
    ASSUME NEW o, NEW f, NEW u, NEW m, NEW s, NEW k, NEW n, Typed(o, f, u, m, s, k, n),
           View(o, f, u, m, s, k, n), u.state # 0, \A j \in DOMAIN s : ~Starts(s, o, j),
           NEW v \in Operations, v.state = u.state, v.guid = u.guid + 1, ~v.open,
           Rewound(v), Flags(v), NEW c \in Nat, c <= MaxFast
    PROVE  View(o, f, v, {}, s, "send", c)
<1>1. s \in Seq(StageTasks) /\ u.guid \in Nat /\ IsFiniteSet(m)
  BY DEF Typed, Operations
<1>2. Flying(o, v.guid, {}, s) = 0
  <2>1. \A i \in DOMAIN s : s[i] \notin Answers(o, v.guid)
    <3> SUFFICES ASSUME NEW i \in DOMAIN s, s[i] \in Answers(o, v.guid) PROVE FALSE
      OBVIOUS
    <3>1. s[i] \in StageTasks /\ s[i].do = "answer" /\ s[i].r.o = o /\ s[i].r.guid = u.guid + 1
      BY DEF Answers
    <3>2. s[i].o = o /\ s[i].r.guid \in Nat
      BY <3>1, StageTaskFields DEF Requests
    <3>3. s[i].r.guid <= u.guid
      BY <3>1, <3>2 DEF View, Begun
    <3> QED
      BY <1>1, <3>1, <3>2, <3>3
  <2>2. Count(s, Answers(o, v.guid)) = 0
    BY <2>1, CountNone
  <2>3. Sent({}, v.guid) = {}
    BY DEF Sent
  <2>4. Cardinality(Sent({}, v.guid)) = 0
    BY <2>3, FS_EmptySet
  <2> QED
    BY <2>2, <2>4 DEF Flying
<1>3. Untaken(o, v, {}, s, "send") /\ Prepared(o, v, {}, s, "send")
  BY DEF Untaken, Prepared
<1>4. Begun(o, v, {}, s)
  <2> SUFFICES ASSUME NEW i \in DOMAIN s, s[i].do = "answer", s[i].o = o
               PROVE  s[i].r.guid <= v.guid
    BY DEF View, Begun
  <2>1. s[i].r.guid \in Nat
    BY <1>1, StageTaskFields DEF Requests
  <2>2. s[i].r.guid <= u.guid
    BY DEF View, Begun
  <2> QED
    BY <1>1, <2>1, <2>2
<1>5. Counted(o, v, {}, s, c)
  BY <1>2 DEF Counted, Rewound
<1>6. Rewinding(o, v, s, "send") /\ Behind(v, f, {}) /\ Once(v, {})
  BY DEF Rewinding, Behind, Once, Sent
<1> QED
  BY <1>3, <1>4, <1>5, <1>6 DEF View

LEMMA NothingLeft ==
    ASSUME NEW o, NEW f, NEW u, NEW m, NEW s, NEW k, NEW n, Typed(o, f, u, m, s, k, n),
           View(o, f, u, m, s, k, n), u.state \in 2..4
    PROVE  View(o, f, u, {}, s, k, n)
<1>1. Untaken(o, u, {}, s, k) /\ Prepared(o, u, {}, s, k) /\ Begun(o, u, {}, s)
  BY DEF View, Untaken, Prepared, Begun
<1>2. Counted(o, u, {}, s, n) /\ Behind(u, f, {}) /\ Once(u, {})
  BY DEF Counted, Behind, Once
<1> QED
  BY <1>1, <1>2 DEF View

(* A request is written to a socket, or answered.                            *)
LEMMA WrittenView ==
    ASSUME NEW o, NEW f, NEW u, NEW m, NEW s, NEW k, NEW n, Typed(o, f, u, m, s, k, n),
           View(o, f, u, m, s, k, n), NEW r \in m, ~r.written,
           NEW x, x = [r EXCEPT !.written = TRUE]
    PROVE  View(o, f, u, (m \ {r}) \cup {x}, s, k, n)
<1> DEFINE w == (m \ {r}) \cup {x}
<1>1. /\ r \in Requests /\ m \subseteq Requests /\ IsFiniteSet(m)
      /\ x.guid = r.guid /\ x.part = r.part /\ x.written /\ x.o = r.o /\ x.id = r.id
  BY DEF Typed, Requests
<1>2. u.state = 1 => Flying(o, u.guid, w, s) = Flying(o, u.guid, m, s)
  <2> SUFFICES ASSUME u.state = 1
               PROVE  Cardinality(Sent(w, u.guid)) = Cardinality(Sent(m, u.guid))
    BY DEF Flying
  <2>1. CASE r.guid # u.guid
    <3>1. Sent(w, u.guid) = Sent(m, u.guid)
      BY <1>1, <2>1 DEF Sent
    <3> QED
      BY <3>1
  <2>2. CASE r.guid = u.guid
    <3> DEFINE rest == Sent(m, u.guid) \ {r}
    <3>1. Sent(m, u.guid) = rest \cup {r} /\ r \notin rest
      BY <2>2 DEF Sent
    <3>2. Sent(w, u.guid) = rest \cup {x}
      BY <1>1, <2>2 DEF Sent
    <3>3. x \notin rest
      <4> SUFFICES ASSUME x \in rest PROVE FALSE
        OBVIOUS
      <4>1. x \in Sent(m, u.guid) /\ r \in Sent(m, u.guid) /\ x.part = r.part /\ x # r
        BY <1>1, <2>2 DEF Sent
      <4> QED
        BY <4>1 DEF View, Once
    <3>4. IsFiniteSet(rest)
      <4>1. rest \subseteq m
        BY DEF Sent
      <4> QED
        BY <1>1, <4>1, FS_Subset
    <3> HIDE DEF rest
    <3>5. Cardinality(rest \cup {r}) = Cardinality(rest) + 1
      BY <3>1, <3>4, FS_AddElement
    <3>6. Cardinality(rest \cup {x}) = Cardinality(rest) + 1
      BY <3>3, <3>4, FS_AddElement
    <3> QED
      BY <3>1, <3>2, <3>5, <3>6
  <2> QED
    BY <2>1, <2>2
<1>3. m # {} /\ \A y \in w : y \in m \/ y = x
  OBVIOUS
<1>4. Untaken(o, u, w, s, k) /\ Prepared(o, u, w, s, k)
  BY <1>3 DEF View, Untaken, Prepared
<1>5. Begun(o, u, w, s)
  BY <1>1, <1>3 DEF View, Begun
<1>6. Counted(o, u, w, s, n)
  BY <1>2 DEF View, Counted
<1>7. Behind(u, f, w)
  <2>1. \A y \in Sent(w, u.guid) : \E z \in Sent(m, u.guid) : z.part = y.part
    BY <1>1, <1>3 DEF Sent
  <2> HIDE DEF w
  <2> QED
    BY <2>1 DEF View, Behind
<1>8. Once(u, w)
  <2> SUFFICES ASSUME u.state = 1, NEW y \in Sent(w, u.guid), NEW z \in Sent(w, u.guid),
                      y.part = z.part
               PROVE  y = z
    BY DEF Once
  <2> DEFINE back(a) == IF a = x THEN r ELSE a
  <2>1. \A a \in Sent(w, u.guid) :
           back(a) \in Sent(m, u.guid) /\ back(a).part = a.part /\ (a # x => a # r)
    BY <1>1 DEF Sent
  <2>2. back(y) = back(z)
    BY <2>1 DEF View, Once
  <2>3. CASE y = x
    BY <2>1, <2>2, <2>3
  <2>4. CASE y # x
    BY <2>1, <2>2, <2>4
  <2> QED
    BY <2>3, <2>4
<1> HIDE DEF w
<1> QED
  BY <1>4, <1>5, <1>6, <1>7, <1>8 DEF View, w

LEMMA AnswerAppended ==
    ASSUME NEW o, NEW f, NEW u, NEW m, NEW s, NEW k, NEW n, Typed(o, f, u, m, s, k, n),
           View(o, f, u, m, s, k, n), NEW r \in m, NEW t \in StageTasks,
           t.do = "answer", t.o = o, t.r = r
    PROVE  View(o, f, u, m \ {r}, Append(s, t), k, n)
<1> DEFINE q == Append(s, t)
           w == m \ {r}
<1>1. /\ s \in Seq(StageTasks) /\ q \in Seq(StageTasks) /\ IsFiniteSet(m)
      /\ r.o = o /\ m # {}
  BY DEF Typed
<1>2. /\ DOMAIN q = 1..Len(s) + 1 /\ DOMAIN s = 1..Len(s) /\ Len(s) \in Nat
      /\ \A i \in DOMAIN s : q[i] = s[i]
      /\ q[Len(s) + 1] = t
  BY <1>1
<1>3. u.state = 1 => Flying(o, u.guid, w, q) = Flying(o, u.guid, m, s)
  <2> SUFFICES ASSUME u.state = 1
               PROVE  Flying(o, u.guid, w, q) = Flying(o, u.guid, m, s)
    OBVIOUS
  <2>1. Cardinality(Sent(m, u.guid)) \in Nat /\ Count(s, Answers(o, u.guid)) \in Nat
    BY <1>1, SentFinite, CountType
  <2>2. CASE r.guid # u.guid
    <3>1. Sent(w, u.guid) = Sent(m, u.guid)
      BY <2>2 DEF Sent
    <3>2. t \notin Answers(o, u.guid)
      BY <2>2 DEF Answers
    <3>3. Count(q, Answers(o, u.guid)) = Count(s, Answers(o, u.guid))
      BY <1>1, <3>2, CountAppend
    <3> QED
      BY <3>1, <3>3 DEF Flying
  <2>3. CASE r.guid = u.guid
    <3>1. r \in Sent(m, u.guid) /\ Sent(w, u.guid) = Sent(m, u.guid) \ {r}
      BY <2>3 DEF Sent
    <3>2. IsFiniteSet(Sent(m, u.guid))
      BY <1>1, SentFinite
    <3> HIDE DEF w
    <3>5. Cardinality(Sent(w, u.guid)) = Cardinality(Sent(m, u.guid)) - 1
      BY <3>1, <3>2, FS_RemoveElement
    <3>3. t \in Answers(o, u.guid)
      BY <1>1, <2>3 DEF Answers
    <3>4. Count(q, Answers(o, u.guid)) = Count(s, Answers(o, u.guid)) + 1
      BY <1>1, <3>3, CountAppend
    <3> HIDE DEF q, w
    <3> QED
      BY <2>1, <3>4, <3>5 DEF Flying
  <2> QED
    BY <2>2, <2>3
<1>4. w \subseteq m
  OBVIOUS
<1> HIDE DEF q, w
<1>5. Untaken(o, u, w, q, k) /\ Prepared(o, u, w, q, k)
  BY <1>1, <1>2 DEF View, Untaken, Prepared, Starts
<1>6. Begun(o, u, w, q)
  BY <1>2, <1>4 DEF View, Begun
<1>7. Counted(o, u, w, q, n) /\ Rewinding(o, u, q, k)
  BY <1>2, <1>3 DEF View, Counted, Rewinding, Starts
<1>8. Behind(u, f, w) /\ Once(u, w)
  BY <1>4 DEF View, Behind, Once, Sent
<1> QED
  BY <1>5, <1>6, <1>7, <1>8 DEF View, q, w

(* One of the requests that are counted is answered.                         *)
Answered(u, v) ==
    /\ v.state = u.state /\ v.busy = u.busy - 1 /\ v.max = u.max /\ v.started = u.started
    /\ v.open = u.open /\ v.guid = u.guid /\ v.part = u.part /\ v.read = u.read /\ v.pos = u.pos
    /\ v.chunk = u.chunk /\ v.last = u.last /\ v.nextFirst = u.nextFirst /\ v.later = u.later
    /\ v.id = u.id /\ v.est = u.est

LEMMA AnswerRun ==
    ASSUME NEW o, NEW f, NEW u, NEW m, NEW s, NEW k, NEW n, Typed(o, f, u, m, s, k, n),
           View(o, f, u, m, s, k, n), k = "idle", u.state = 1, s # <<>>, Head(s).o = o,
           Head(s).do = "answer", Head(s).r.guid = u.guid,
           NEW v, Answered(u, v), NEW l, NEW c, v.busy + c <= MaxFast
    PROVE  View(o, f, v, m, Tail(s), l, c)
<1> DEFINE q == Tail(s)
<1>1. s \in Seq(StageTasks) /\ q \in Seq(StageTasks) /\ Head(s) \in StageTasks
  BY DEF Typed
<1>2. /\ DOMAIN q = 1..Len(s) - 1 /\ DOMAIN s = 1..Len(s) /\ Len(s) \in Nat
      /\ \A i \in DOMAIN q : i + 1 \in DOMAIN s /\ q[i] = s[i + 1]
  BY <1>1
<1>3. u.open /\ \A j \in DOMAIN q : ~Starts(q, o, j)
  <2>1. Head(s).do \notin {"start", "data"}
    OBVIOUS
  <2> QED
    BY <2>1, NothingPrepared
<1>4. v.busy = Flying(o, v.guid, m, q)
  <2>1. Head(s) \in Answers(o, u.guid)
    BY <1>1, StageTaskFields DEF Answers
  <2>2. Count(s, Answers(o, u.guid)) = Count(q, Answers(o, u.guid)) + 1
    BY <1>1, <2>1, CountTail
  <2>3. Cardinality(Sent(m, u.guid)) \in Nat /\ Count(q, Answers(o, u.guid)) \in Nat
    BY <1>1, SentFinite, CountType DEF Typed
  <2>4. u.busy = Cardinality(Sent(m, u.guid)) + Count(s, Answers(o, u.guid))
    BY DEF View, Counted, Flying
  <2> HIDE DEF q
  <2> QED
    BY <2>2, <2>3, <2>4 DEF Answered, Flying
<1> HIDE DEF q
<1>5. Untaken(o, v, m, q, l) /\ Prepared(o, v, m, q, l)
  BY <1>3 DEF Answered, Untaken, Prepared
<1>6. Begun(o, v, m, q)
  BY <1>2 DEF Answered, View, Begun
<1>7. Counted(o, v, m, q, c) /\ Rewinding(o, v, q, l)
  BY <1>3, <1>4 DEF Answered, Counted, Rewinding
<1>8. Behind(v, f, m) /\ Once(v, m) /\ Flags(v)
  BY DEF Answered, View, Behind, AllRead, Once, Flags
<1> QED
  BY <1>5, <1>6, <1>7, <1>8 DEF View, q

-----------------------------------------------------------------------------
(* startUploadRequest opens the file.                                        *)
LEMMA ChunkType == \A slow : Chunk(slow) \in {20, 40}
BY DEF Chunk

LEMMA CeilType ==
    ASSUME NEW a \in Int, NEW b \in {20, 40}
    PROVE  CeilDiv(a, b) \in Int
<1>1. CASE b = 20
  BY <1>1 DEF CeilDiv
<1>2. CASE b = 40
  BY <1>2 DEF CeilDiv
<1> QED
  BY <1>1, <1>2

LEMMA RequestsType ==
    \A slow : MaxRequests(slow) \in Nat /\ MaxRequests(slow) <= MaxFast /\ MaxRequests(slow) >= 1
BY UploadAssumption DEF MaxRequests

LEMMA SizedFields ==
    ASSUME NEW u \in Operations, NEW f \in Uploads, NEW v, v = Sized(u, f)
    PROVE  /\ v \in Operations /\ v.open /\ v.started /\ v.chunk = Chunk(u.slow)
           /\ v.max = MaxRequests(u.slow) /\ v.total = (IF u.est THEN f.estimate ELSE f.size)
           /\ v.parts = CalcTotalPartsCount(v, f.big)
           /\ v.state = u.state /\ v.est = u.est /\ v.avail = u.avail /\ v.slow = u.slow
           /\ v.pos = u.pos /\ v.read = u.read /\ v.part = u.part /\ v.last = u.last
           /\ v.nextFirst = u.nextFirst /\ v.later = u.later /\ v.busy = u.busy
           /\ v.savedPart = u.savedPart /\ v.times = u.times /\ v.cached = u.cached
           /\ v.id = u.id /\ v.guid = u.guid /\ v.result = u.result /\ v.outcome = u.outcome
<1> DEFINE total == IF u.est THEN f.estimate ELSE f.size
           w     == [u EXCEPT !.open = TRUE, !.started = TRUE, !.chunk = Chunk(u.slow),
                              !.max = MaxRequests(u.slow), !.total = total]
           parts == CalcTotalPartsCount(w, f.big)
<1>1. v = [w EXCEPT !.parts = parts]
  BY DEF Sized
<1>2. Shaped(w)
  BY DEF Operations, Shaped
<1>3. /\ w.open = TRUE /\ w.started = TRUE /\ w.chunk = Chunk(u.slow) /\ w.max = MaxRequests(u.slow)
      /\ w.total = total /\ w.parts = u.parts
      /\ w.state = u.state /\ w.est = u.est /\ w.avail = u.avail /\ w.slow = u.slow
      /\ w.pos = u.pos /\ w.read = u.read /\ w.part = u.part /\ w.last = u.last
      /\ w.nextFirst = u.nextFirst /\ w.later = u.later /\ w.busy = u.busy
      /\ w.savedPart = u.savedPart /\ w.times = u.times /\ w.cached = u.cached
      /\ w.id = u.id /\ w.guid = u.guid /\ w.result = u.result /\ w.outcome = u.outcome
  BY DEF Operations
<1>4. total \in Nat
  BY DEF Uploads
<1> HIDE DEF w, total
<1>5. Chunk(u.slow) \in Nat /\ MaxRequests(u.slow) \in Nat
  BY ChunkType, RequestsType
<1>6. w \in Operations
  <2>1. Fields(u)
    BY OperationForm
  <2>2. Fields(w)
    BY <1>3, <1>4, <1>5, <2>1 DEF Fields
  <2> QED
    BY <1>2, <2>2, OperationForm
<1>7. parts \in Int
  <2>1. w.chunk \in {20, 40} /\ w.total \in Nat
    BY <1>3, <1>4, ChunkType
  <2>2. HeadOf(w, f.big) \in Int
    BY <2>1 DEF HeadOf, HeadLength
  <2>3. CeilDiv(w.total - HeadOf(w, f.big), w.chunk) \in Int /\ CeilDiv(w.total, w.chunk) \in Int
    BY <2>1, <2>2, CeilType
  <2> QED
    BY <2>3 DEF CalcTotalPartsCount
<1>8. parts = CalcTotalPartsCount(v, f.big)
  <2>1. v.later = w.later /\ v.total = w.total /\ v.chunk = w.chunk
    BY <1>1, <1>6 DEF Operations
  <2> QED
    BY <2>1 DEF CalcTotalPartsCount, HeadOf
<1> HIDE DEF parts
<1>9. v \in Operations
  BY <1>1, <1>6, <1>7 DEF Operations
<1>10. /\ v.open = w.open /\ v.started = w.started /\ v.chunk = w.chunk /\ v.max = w.max
       /\ v.total = w.total /\ v.parts = parts
       /\ v.state = w.state /\ v.est = w.est /\ v.avail = w.avail /\ v.slow = w.slow
       /\ v.pos = w.pos /\ v.read = w.read /\ v.part = w.part /\ v.last = w.last
       /\ v.nextFirst = w.nextFirst /\ v.later = w.later /\ v.busy = w.busy
       /\ v.savedPart = w.savedPart /\ v.times = w.times /\ v.cached = w.cached
       /\ v.id = w.id /\ v.guid = w.guid /\ v.result = w.result /\ v.outcome = w.outcome
  BY <1>1, <1>6 DEF Operations
<1> QED
  BY <1>3, <1>8, <1>9, <1>10 DEF total

Preferences == [size : Nat, id : Nat, uploaded : Nat]

(* What no way to open the file changes.                                     *)
SameRest(u, v) ==
    /\ v.state = u.state /\ v.est = u.est /\ v.total = u.total /\ v.avail = u.avail
    /\ v.slow = u.slow /\ v.max = u.max /\ v.started = u.started /\ v.open = u.open
    /\ v.parts = u.parts /\ v.chunk = u.chunk /\ v.nextFirst = u.nextFirst
    /\ v.later = u.later /\ v.busy = u.busy /\ v.times = u.times /\ v.cached = u.cached
    /\ v.guid = u.guid /\ v.result = u.result /\ v.outcome = u.outcome

LEMMA ResumedFields ==
    ASSUME NEW u \in Operations, u.chunk \in {20, 40}, NEW f \in Uploads,
           NEW saved \in Preferences, NEW v, v = Resumed(u, f, saved)
    PROVE  LET n == saved.uploaded \div u.chunk
           IN /\ v \in Operations /\ SameRest(u, v) /\ n \in Nat
              /\ v.id = saved.id /\ v.read = saved.uploaded /\ v.part = n /\ v.savedPart = n
              /\ v.pos = IF f.big THEN saved.uploaded
                         ELSE IF n * u.chunk < f.size THEN n * u.chunk ELSE f.size
              /\ v.last = (~f.big /\ n > 0 /\ (n * u.chunk > f.size \/ u.parts = n + 1))
<1> DEFINE n    == saved.uploaded \div u.chunk
           pos  == IF f.big THEN saved.uploaded ELSE IF n * u.chunk < f.size THEN n * u.chunk ELSE f.size
           last == ~f.big /\ n > 0 /\ (n * u.chunk > f.size \/ u.parts = n + 1)
<1>1. saved.uploaded \in Nat /\ saved.id \in Nat /\ f.size \in Nat
  BY DEF Preferences, Uploads
<1>2. n \in Nat /\ n * u.chunk \in Nat
  <2>1. CASE u.chunk = 20
    BY <1>1, <2>1
  <2>2. CASE u.chunk = 40
    BY <1>1, <2>2
  <2> QED
    BY <2>1, <2>2
<1>3. v = [u EXCEPT !.id = saved.id, !.read = saved.uploaded, !.part = n, !.savedPart = n,
                    !.pos = pos, !.last = last]
  BY DEF Resumed
<1>4. pos \in Nat /\ last \in BOOLEAN
  BY <1>1, <1>2
<1> HIDE DEF n, pos, last
<1>5. Shaped(v)
  BY <1>3 DEF Shaped, Operations
<1>6. /\ v.id = saved.id /\ v.read = saved.uploaded /\ v.part = n /\ v.savedPart = n
      /\ v.pos = pos /\ v.last = last /\ SameRest(u, v)
  BY <1>3 DEF Operations, SameRest
<1>7. v \in Operations
  <2>1. Fields(u)
    BY OperationForm
  <2>2. Fields(v)
    BY <1>1, <1>2, <1>4, <1>6, <2>1 DEF Fields, SameRest
  <2> QED
    BY <1>5, <2>2, OperationForm
<1> QED
  BY <1>2, <1>6, <1>7 DEF n, pos, last

LEMMA RenewedFields ==
    ASSUME NEW u \in Operations, u.chunk \in Nat, NEW f \in Uploads, Len(made) \in Nat,
           NEW v, v = Renewed(u, f)
    PROVE  LET start == IF u.later THEN HeadOf(u, f.big) ELSE 0
           IN /\ v \in Operations /\ SameRest(u, v)
              /\ v.id = Len(made) + 1 /\ v.pos = start
              /\ v.read = (IF u.later THEN start ELSE u.read)
              /\ v.part = (IF u.later THEN 1 ELSE u.part)
              /\ v.savedPart = u.part /\ v.last = u.last
<1> DEFINE start == IF u.later THEN HeadOf(u, f.big) ELSE 0
           read  == IF u.later THEN start ELSE u.read
           part  == IF u.later THEN 1 ELSE u.part
           id    == Len(made) + 1
<1>1. v = [u EXCEPT !.id = id, !.pos = start, !.read = read, !.part = part, !.savedPart = u.part]
  BY DEF Renewed
<1>2. start \in Nat /\ read \in Nat /\ part \in Int /\ id \in Nat
  BY DEF HeadOf, HeadLength, Operations
<1> HIDE DEF start, read, part, id
<1>3. Shaped(v)
  BY <1>1 DEF Shaped, Operations
<1>4. /\ v.id = id /\ v.read = read /\ v.part = part /\ v.savedPart = u.part
      /\ v.pos = start /\ v.last = u.last /\ SameRest(u, v)
  BY <1>1 DEF Operations, SameRest
<1>5. v \in Operations
  <2>1. Fields(u)
    BY OperationForm
  <2>2. Fields(v)
    BY <1>2, <1>4, <2>1 DEF Fields, SameRest
  <2> QED
    BY <1>3, <2>2, OperationForm
<1> QED
  BY <1>4, <1>5 DEF start, read, part, id

LEMMA ExpiredFields ==
    ASSUME NEW u \in Operations, NEW saved \in Preferences,
           NEW v, v = [u EXCEPT !.id = saved.id, !.pos = 0, !.savedPart = u.part]
    PROVE  /\ v \in Operations /\ SameRest(u, v)
           /\ v.id = saved.id /\ v.pos = 0 /\ v.read = u.read /\ v.part = u.part
           /\ v.savedPart = u.part /\ v.last = u.last
<1>1. Shaped(v)
  BY DEF Shaped, Operations
<1>2. /\ v.id = saved.id /\ v.pos = 0 /\ v.read = u.read /\ v.part = u.part
      /\ v.savedPart = u.part /\ v.last = u.last /\ SameRest(u, v)
  BY DEF Operations, SameRest
<1>3. v \in Operations
  <2>1. Fields(u) /\ saved.id \in Nat
    BY OperationForm DEF Preferences
  <2>2. Fields(v)
    BY <1>2, <2>1 DEF Fields, SameRest
  <2> QED
    BY <1>1, <2>2, OperationForm
<1> QED
  BY <1>2, <1>3

(* What holds however the file is opened.                                    *)
Opens(u, f, v) ==
    /\ v \in Operations /\ v.open /\ v.started /\ v.chunk = Chunk(u.slow)
    /\ v.max = MaxRequests(u.slow)
    /\ v.state = u.state /\ v.busy = u.busy /\ v.guid = u.guid /\ v.later = u.later
    /\ v.nextFirst = u.nextFirst /\ v.est = u.est
    /\ v.last = u.last \/ (~u.later /\ ~u.nextFirst /\ ~u.est)
    /\ u.later => v.part = 1
    /\ u.nextFirst => v.part = u.part \/ u.later

LEMMA OpenedOpens ==
    ASSUME NEW o \in Ids, op[o] \in Operations, Of(o) \in Uploads, Len(made) \in Nat,
           prefs[Of(o).loc] \in Preferences, NEW v \in Opened(o)
    PROVE  Opens(op[o], Of(o), v)
<1> DEFINE u     == op[o]
           f     == Of(o)
           x     == Sized(u, f)
           saved == prefs[f.loc]
<1>1. /\ x \in Operations /\ x.open /\ x.started /\ x.chunk = Chunk(u.slow)
      /\ x.max = MaxRequests(u.slow) /\ x.state = u.state /\ x.est = u.est /\ x.part = u.part
      /\ x.last = u.last /\ x.nextFirst = u.nextFirst /\ x.later = u.later /\ x.busy = u.busy
      /\ x.guid = u.guid /\ x.chunk \in {20, 40} /\ x.chunk \in Nat
  BY SizedFields, ChunkType
<1>2. saved \in Preferences /\ f \in Uploads
  OBVIOUS
<1>3. \/ v = Renewed(x, f)
      \/ /\ ~x.later /\ ~x.nextFirst /\ ~x.est
         /\ \/ v = Resumed(x, f, saved)
            \/ v = [x EXCEPT !.id = saved.id, !.pos = 0, !.savedPart = x.part]
  BY DEF Opened
<1> HIDE DEF x, saved
<1>4. CASE v = Renewed(x, f)
  BY <1>1, <1>2, <1>4, RenewedFields DEF SameRest, Opens
<1>5. CASE ~x.later /\ ~x.nextFirst /\ ~x.est /\ v = Resumed(x, f, saved)
  <2>1. v \in Operations /\ SameRest(x, v)
    BY <1>1, <1>2, <1>5, ResumedFields
  <2> QED
    BY <1>1, <1>5, <2>1 DEF SameRest, Opens
<1>6. CASE /\ ~x.later /\ ~x.nextFirst /\ ~x.est
           /\ v = [x EXCEPT !.id = saved.id, !.pos = 0, !.savedPart = x.part]
  <2>1. v \in Operations /\ SameRest(x, v) /\ v.last = x.last
    BY <1>1, <1>2, <1>6, ExpiredFields
  <2> QED
    BY <1>1, <1>6, <2>1 DEF SameRest, Opens
<1> QED
  BY <1>3, <1>4, <1>5, <1>6

LEMMA OpenedView ==
    ASSUME NEW o, NEW f, NEW u, NEW m, NEW s, NEW k, NEW n, Typed(o, f, u, m, s, k, n),
           View(o, f, u, m, s, k, n), k = "send", NEW v, Opens(u, f, v), ~u.open
    PROVE  View(o, f, v, m, s, k, n)
<1>1. u.state # 0 /\ \A j \in DOMAIN s : ~Starts(s, o, j)
  BY DEF View, Untaken, Prepared
<1>2. u.state = 1 => Sent(m, u.guid) = {}
  <2> SUFFICES ASSUME u.state = 1 PROVE Sent(m, u.guid) = {}
    OBVIOUS
  <2>1. Cardinality(Sent(m, u.guid)) \in Nat /\ Count(s, Answers(o, u.guid)) \in Nat
        /\ IsFiniteSet(Sent(m, u.guid))
    BY SentFinite, CountType DEF Typed
  <2>2. Cardinality(Sent(m, u.guid)) + Count(s, Answers(o, u.guid)) = 0
    BY DEF View, Counted, Rewinding, Rewound, Flying
  <2>3. Cardinality(Sent(m, u.guid)) = 0
    BY <2>1, <2>2
  <2> QED
    BY <2>1, <2>3, FS_EmptySet
<1>3. Untaken(o, v, m, s, k) /\ Prepared(o, v, m, s, k) /\ Begun(o, v, m, s)
  BY <1>1 DEF Opens, View, Untaken, Prepared, Begun
<1>4. Counted(o, v, m, s, n) /\ Rewinding(o, v, s, k)
  BY DEF Opens, View, Counted, Rewinding
<1>5. Behind(v, f, m) /\ Once(v, m)
  BY <1>2 DEF Opens, Behind, Once
<1>6. Flags(v)
  BY RequestsType DEF Opens, View, Flags
<1> QED
  BY <1>3, <1>4, <1>5, <1>6 DEF View

-----------------------------------------------------------------------------
(* startUploadRequest reads a part and sends it.                             *)
Ends(v, f)  == v.nextFirst \/ Bytes(v, f) # v.chunk \/ (~v.est /\ v.parts = v.part + 1)
EndOfFile(v, f)  == v.last \/ (Ends(v, f) /\ ~v.later)
HeadIsDue(v, f) == v.nextFirst \/ (Ends(v, f) /\ v.later)

(* What no reading changes.                                                  *)
SameFile(u, v) ==
    /\ v.state = u.state /\ v.est = u.est /\ v.total = u.total /\ v.avail = u.avail
    /\ v.slow = u.slow /\ v.max = u.max /\ v.started = u.started /\ v.open = u.open
    /\ v.parts = u.parts /\ v.chunk = u.chunk /\ v.savedPart = u.savedPart
    /\ v.times = u.times /\ v.cached = u.cached /\ v.id = u.id
    /\ v.guid = u.guid /\ v.result = u.result /\ v.outcome = u.outcome

LEMMA ReadFields ==
    ASSUME NEW v \in Operations, NEW f \in Uploads, Bytes(v, f) > 0, NEW w, w = ReadPart(v, f)
    PROVE  LET done == EndOfFile(v, f) /\ HeadIsDue(v, f)
           IN /\ w \in Operations /\ SameFile(v, w) /\ Bytes(v, f) \in Nat
              /\ w.later = (v.later /\ ~Ends(v, f))
              /\ w.last = EndOfFile(v, f)
              /\ w.nextFirst = (HeadIsDue(v, f) /\ ~EndOfFile(v, f))
              /\ w.part = (IF done THEN v.parts ELSE IF v.nextFirst THEN 1 ELSE v.part + 1)
              /\ w.pos = (IF done THEN f.size
                          ELSE IF v.nextFirst THEN Bytes(v, f) ELSE v.pos + Bytes(v, f))
              /\ w.read = v.read + Bytes(v, f)
              /\ w.busy = v.busy + 1
<1> DEFINE bytes == Bytes(v, f)
           done  == EndOfFile(v, f) /\ HeadIsDue(v, f)
           later == v.later /\ ~Ends(v, f)
           last  == EndOfFile(v, f)
           first == HeadIsDue(v, f) /\ ~EndOfFile(v, f)
           part  == IF done THEN v.parts ELSE IF v.nextFirst THEN 1 ELSE v.part + 1
           pos   == IF done THEN f.size ELSE IF v.nextFirst THEN bytes ELSE v.pos + bytes
           read  == v.read + bytes
           busy  == v.busy + 1
<1>1. Fields(v) /\ f.size \in Nat
  BY OperationForm DEF Uploads
<1>2. bytes \in Nat
  BY <1>1 DEF Fields, Bytes, HeadOf, HeadLength
<1>3. w = [v EXCEPT !.later = later, !.last = last, !.nextFirst = first, !.part = part,
                    !.pos = pos, !.read = read, !.busy = busy]
  <2> DEFINE p  == IF v.nextFirst THEN 0 ELSE v.part
             e  == v.nextFirst \/ bytes # v.chunk \/ (~v.est /\ v.parts = p + 1)
  <2>1. e = Ends(v, f)
    BY DEF Ends
  <2>2. p + 1 = IF v.nextFirst THEN 1 ELSE v.part + 1
    OBVIOUS
  <2> QED
    BY <2>1, <2>2 DEF ReadPart, EndOfFile, HeadIsDue
<1>4. /\ later \in BOOLEAN /\ last \in BOOLEAN /\ first \in BOOLEAN /\ part \in Int
      /\ pos \in Nat /\ read \in Nat /\ busy \in Int
  BY <1>1, <1>2 DEF Fields, EndOfFile, HeadIsDue, Ends
<1> HIDE DEF later, last, first, part, pos, read, busy, bytes
<1>5. Shaped(w)
  BY <1>3 DEF Shaped, Operations
<1>6. /\ w.later = later /\ w.last = last /\ w.nextFirst = first /\ w.part = part
      /\ w.pos = pos /\ w.read = read /\ w.busy = busy /\ SameFile(v, w)
  BY <1>3 DEF Operations, SameFile
<1>7. w \in Operations
  <2>1. Fields(w)
    BY <1>1, <1>4, <1>6 DEF Fields, SameFile
  <2> QED
    BY <1>5, <2>1, OperationForm
<1> QED
  BY <1>2, <1>6, <1>7 DEF later, last, first, part, pos, read, busy, bytes, done

(* The request for the part that is read.                                    *)
RequestFor(r, o, f, v) ==
    /\ r \in Requests /\ r.o = o /\ r.guid = v.guid /\ r.id = v.id
    /\ r.part = (IF v.nextFirst THEN 0 ELSE v.part)
    /\ r.from = (IF v.nextFirst THEN 0 ELSE v.pos) /\ r.bytes = Bytes(v, f)
    /\ ~r.written /\ r.early = (v.est /\ ~f.enc)

LEMMA RequestIs ==
    ASSUME NEW o \in Ids, o \in Nat, Of(o) \in Uploads, NEW v \in Operations, Bytes(v, Of(o)) > 0
    PROVE  RequestFor(Request(o, v), o, Of(o), v)
<1>1. Fields(v) /\ Of(o).size \in Nat /\ Of(o).enc \in BOOLEAN
  BY OperationForm DEF Uploads
<1>2. Bytes(v, Of(o)) \in Nat
  BY <1>1 DEF Fields, Bytes, HeadOf, HeadLength
<1>3. Request(o, v) \in Requests
  BY <1>1, <1>2 DEF Request, Requests, Fields
<1> QED
  BY <1>3 DEF RequestFor, Request

LEMMA ReadView ==
    ASSUME NEW o, NEW f, NEW u, NEW m, NEW s, NEW k, NEW n, Typed(o, f, u, m, s, k, n),
           View(o, f, u, m, s, k, n), k = "send", n >= 1, u.open, Bytes(u, f) > 0,
           NEW r, RequestFor(r, o, f, u), NEW v, v = ReadPart(u, f), NEW l
    PROVE  View(o, f, v, m \cup {r}, s, l, n - 1)
<1>1. /\ o \in Nat /\ f \in Uploads /\ u \in Operations /\ m \subseteq Requests /\ IsFiniteSet(m)
      /\ s \in Seq(StageTasks) /\ n \in Nat
  BY DEF Typed
<1>2. /\ v \in Operations /\ SameFile(u, v) /\ Bytes(u, f) \in Nat
      /\ v.later = (u.later /\ ~Ends(u, f)) /\ v.last = EndOfFile(u, f)
      /\ v.nextFirst = (HeadIsDue(u, f) /\ ~EndOfFile(u, f)) /\ v.busy = u.busy + 1
      /\ v.part = (IF EndOfFile(u, f) /\ HeadIsDue(u, f) THEN u.parts
                   ELSE IF u.nextFirst THEN 1 ELSE u.part + 1)
      /\ v.pos = (IF EndOfFile(u, f) /\ HeadIsDue(u, f) THEN f.size
                  ELSE IF u.nextFirst THEN Bytes(u, f) ELSE u.pos + Bytes(u, f))
  BY <1>1, ReadFields
<1>3. u.state # 0 /\ \A j \in DOMAIN s : ~Starts(s, o, j)
  BY DEF View, Untaken, Prepared
<1>4. Fields(u) /\ Fields(v) /\ f.size \in Nat /\ r.part \in Int
  BY <1>1, <1>2, OperationForm DEF Uploads, Requests, RequestFor
<1>5. Untaken(o, v, m \cup {r}, s, l) /\ Prepared(o, v, m \cup {r}, s, l)
  BY <1>2, <1>3 DEF SameFile, Untaken, Prepared
<1>6. Begun(o, v, m \cup {r}, s)
  BY <1>2, <1>4 DEF SameFile, View, Begun, RequestFor, Fields
<1>7. u.state = 1 => \A x \in Sent(m, u.guid) : x.part # r.part
  <2> SUFFICES ASSUME u.state = 1, NEW x \in Sent(m, u.guid), x.part = r.part PROVE FALSE
    OBVIOUS
  <2>1. x \in m /\ x.part \in Int
    BY <1>1 DEF Sent, Requests
  <2>2. x.part < u.part \/ AllRead(u, f)
    BY DEF View, Behind
  <2>3. u.nextFirst => x.part >= 1
    BY DEF View, Behind
  <2>4. ~AllRead(u, f)
    BY <1>4 DEF AllRead, Bytes, Fields
  <2> QED
    BY <1>4, <2>1, <2>2, <2>3, <2>4 DEF RequestFor, Fields
<1>8. u.state = 1 => /\ Sent(m \cup {r}, u.guid) = Sent(m, u.guid) \cup {r}
                     /\ r \notin Sent(m, u.guid)
  BY <1>7 DEF Sent, RequestFor
<1>9. Counted(o, v, m \cup {r}, s, n - 1)
  <2> SUFFICES ASSUME u.state = 1
               PROVE  v.busy = Flying(o, v.guid, m \cup {r}, s) /\ v.busy + (n - 1) <= MaxFast
    BY <1>2 DEF Counted, SameFile
  <2>1. IsFiniteSet(Sent(m, u.guid)) /\ Cardinality(Sent(m, u.guid)) \in Nat
        /\ Count(s, Answers(o, u.guid)) \in Nat
    BY <1>1, SentFinite, CountType
  <2>2. Cardinality(Sent(m \cup {r}, u.guid)) = Cardinality(Sent(m, u.guid)) + 1
    BY <1>8, <2>1, FS_AddElement
  <2>3. u.busy = Cardinality(Sent(m, u.guid)) + Count(s, Answers(o, u.guid)) /\ u.busy + n <= MaxFast
    BY DEF View, Counted, Flying
  <2>4. v.busy = Cardinality(Sent(m \cup {r}, u.guid)) + Count(s, Answers(o, u.guid))
    BY <1>2, <2>1, <2>2, <2>3
  <2>5. v.busy + (n - 1) <= MaxFast
    BY <1>1, <1>2, <1>4, <2>3, UploadAssumption DEF Fields
  <2> QED
    BY <1>2, <2>4, <2>5 DEF SameFile, Flying
<1>10. Rewinding(o, v, s, l)
  BY <1>2 DEF SameFile, Rewinding
<1>11. /\ ~(u.later /\ u.nextFirst) /\ (u.last => ~u.later /\ ~u.nextFirst)
       /\ (u.nextFirst => u.part >= 1) /\ (u.later => u.part >= 1)
  BY DEF View, Flags
<1>12. EndOfFile(u, f) /\ HeadIsDue(u, f) <=> u.nextFirst
  BY <1>11 DEF EndOfFile, HeadIsDue, Ends
<1>13. Behind(v, f, m \cup {r})
  <2> SUFFICES ASSUME u.state = 1, NEW x \in Sent(m \cup {r}, u.guid)
               PROVE  /\ x.part < v.part \/ AllRead(v, f)
                      /\ v.later \/ v.nextFirst => x.part >= 1
    BY <1>2 DEF Behind, SameFile
  <2>1. CASE u.nextFirst
    BY <1>2, <1>4, <1>12, <2>1, <1>11 DEF AllRead, Fields
  <2>2. CASE ~u.nextFirst /\ x = r
    <3>1. x.part = u.part /\ v.part = u.part + 1
      BY <1>2, <1>12, <2>2 DEF RequestFor
    <3>2. v.later \/ v.nextFirst => u.later
      BY <1>2, <2>2 DEF HeadIsDue
    <3> QED
      BY <1>4, <1>11, <3>1, <3>2 DEF Fields
  <2>3. CASE ~u.nextFirst /\ x # r
    <3>1. x \in Sent(m, u.guid) /\ x.part \in Int
      BY <1>1, <1>8, <2>3 DEF Sent, Requests
    <3>2. ~AllRead(u, f)
      BY <1>4, <2>3 DEF AllRead, Bytes, Fields
    <3>3. x.part < u.part /\ (u.later => x.part >= 1)
      BY <3>1, <3>2 DEF View, Behind
    <3>4. v.part = u.part + 1
      BY <1>2, <1>12, <2>3
    <3>5. v.later \/ v.nextFirst => u.later
      BY <1>2, <2>3 DEF HeadIsDue
    <3> QED
      BY <1>4, <3>1, <3>3, <3>4, <3>5 DEF Fields
  <2> QED
    BY <2>1, <2>2, <2>3
<1>14. Once(v, m \cup {r})
  <2> SUFFICES ASSUME u.state = 1, NEW x \in Sent(m, u.guid) \cup {r},
                      NEW y \in Sent(m, u.guid) \cup {r}, x.part = y.part
               PROVE  x = y
    BY <1>2, <1>8 DEF Once, SameFile
  <2> QED
    BY <1>7 DEF View, Once
<1>15. Flags(v)
  <2>1. ~(v.later /\ v.nextFirst) /\ (v.last => ~v.later /\ ~v.nextFirst)
    BY <1>2, <1>11 DEF EndOfFile, HeadIsDue, Ends
  <2>2. v.nextFirst => u.later /\ ~u.nextFirst
    BY <1>2, <1>11 DEF EndOfFile, HeadIsDue, Ends
  <2>3. (v.nextFirst \/ v.later) => v.part >= 1
    BY <1>2, <1>4, <1>11, <1>12, <2>2 DEF Fields
  <2>4. v.max = u.max /\ v.started = u.started
    BY <1>2 DEF SameFile
  <2>5. (u.max # 0 => u.started) /\ u.max <= MaxFast
    BY DEF View, Flags
  <2> QED
    BY <2>1, <2>3, <2>4, <2>5 DEF Flags
<1> QED
  BY <1>5, <1>6, <1>9, <1>10, <1>13, <1>14, <1>15 DEF View

-----------------------------------------------------------------------------
(* A finite set of integers has a least element.                             *)
LEMMA LeastExists ==
    ASSUME NEW I \in SUBSET Int, IsFiniteSet(I), I # {}
    PROVE  \E i \in I : \A j \in I : i <= j
<1> DEFINE below(i) == {j \in I : j < i}
           family   == {below(i) : i \in I}
<1>1. family \subseteq FiniteSubsetsOf(I)
  BY FS_Subset DEF FiniteSubsetsOf
<1>2. IsWellFoundedOn(StrictSubsetOrdering(I), FiniteSubsetsOf(I))
  BY FS_StrictSubsetOrderingWellFounded
<1>3. PICK u \in family : \A v \in family : <<v, u>> \notin StrictSubsetOrdering(I)
  <2>1. family # {}
    OBVIOUS
  <2> HIDE DEF family
  <2> QED
    BY <1>1, <1>2, <2>1, WFMin
<1>4. PICK i \in I : u = below(i)
  BY <1>3
<1>5. SUFFICES ASSUME NEW j \in I, j < i PROVE FALSE
  OBVIOUS
<1>6. below(j) \subseteq below(i) /\ j \in below(i) /\ j \notin below(j)
  <2>1. i \in Int /\ j \in Int /\ \A a \in I : a \in Int
    OBVIOUS
  <2>2. \A a \in I : a < j => a < i
    BY <1>5, <2>1
  <2>3. ~(j < j)
    BY <2>1
  <2> QED
    BY <1>5, <2>2, <2>3
<1>7. <<below(j), below(i)>> \in StrictSubsetOrdering(I)
  BY <1>6 DEF StrictSubsetOrdering
<1>8. below(j) \in family
  OBVIOUS
<1> HIDE DEF below, family
<1> QED
  BY <1>3, <1>4, <1>7, <1>8

LEMMA RemoveFirstType ==
    ASSUME NEW S, NEW s \in Seq(S), NEW e
    PROVE  RemoveFirst(s, e) \in Seq(S)
<1>1. CASE \E i \in 1..Len(s) : s[i] = e
  <2> DEFINE I == {i \in 1..Len(s) : s[i] = e}
             n == Min(I)
  <2>1. RemoveFirst(s, e) = SubSeq(s, 1, n - 1) \o SubSeq(s, n + 1, Len(s))
    <3>1. RemoveFirst(s, e) = RemoveAt(s, n)
      BY <1>1 DEF RemoveFirst, SelectInSeq
    <3> QED
      BY <3>1 DEF RemoveAt
  <2>2. \E i \in I : \A j \in I : i <= j
    <3>1. I \in SUBSET Int /\ I # {} /\ I \subseteq 1..Len(s)
      BY <1>1
    <3>2. IsFiniteSet(I)
      BY <3>1, FS_Interval, FS_Subset
    <3> HIDE DEF I
    <3> QED
      BY <3>1, <3>2, LeastExists
  <2>3. n \in 1..Len(s)
    BY <2>2 DEF Min
  <2> HIDE DEF n
  <2> QED
    BY <2>1, <2>3
<1>2. CASE ~\E i \in 1..Len(s) : s[i] = e
  BY <1>2 DEF RemoveFirst
<1> QED
  BY <1>1, <1>2

(* The first part, after one that has been confirmed, that is not cached.    *)
LEMMA SaveToFits ==
    ASSUME NEW u, u.cached \in Caches, NEW part \in Int
    PROVE  LET n == SaveTo(u, part)
           IN /\ n \in Int /\ n >= part + 1
              /\ \A k \in part + 1..n - 1 : \E x \in u.cached : x.part = k
              /\ \A x \in u.cached : x.part # n
<1> DEFINE C     == u.cached
           c     == Cardinality(C)
           P     == {x.part : x \in C}
           I     == part + 1..part + 1 + c
           gaps  == I \ P
<1>1. IsFiniteSet(C) /\ c \in Nat /\ C \subseteq Requests
  BY FS_CardinalityType DEF Caches
<1>2. IsFiniteSet(P) /\ Cardinality(P) <= c /\ Cardinality(P) \in Nat
  <2> DEFINE number == [x \in C |-> x.part]
  <2>1. number \in Surjection(C, P)
    BY DEF Surjection
  <2> HIDE DEF number, P, C
  <2>2. IsFiniteSet(P) /\ Cardinality(P) <= Cardinality(C)
    BY <1>1, <2>1, FS_Surjection DEF ExistsSurjection
  <2> QED
    BY <2>2, FS_CardinalityType
<1>3. IsFiniteSet(I) /\ Cardinality(I) = c + 1
  BY <1>1, FS_Interval
<1>4. gaps # {}
  <2> SUFFICES ASSUME gaps = {} PROVE FALSE
    OBVIOUS
  <2>1. I \subseteq P
    OBVIOUS
  <2>2. Cardinality(I) <= Cardinality(P)
    BY <1>2, <2>1, FS_Subset
  <2> HIDE DEF P, I, c
  <2> QED
    BY <1>1, <1>2, <1>3, <2>2
<1>5. PICK n \in gaps : \A j \in gaps : n <= j
  <2>1. gaps \in SUBSET Int
    BY <1>1
  <2>2. IsFiniteSet(gaps)
    BY <1>3, FS_Subset
  <2> HIDE DEF gaps
  <2> QED
    BY <1>4, <2>1, <2>2, LeastExists
<1>6. n \in I /\ n \in Int /\ n >= part + 1 /\ \A x \in C : x.part # n
  BY <1>1, <1>5
<1>7. \A k \in part + 1..n - 1 : \E x \in C : x.part = k
  <2> SUFFICES ASSUME NEW k \in part + 1..n - 1, k \notin P PROVE FALSE
    OBVIOUS
  <2>1. k \in I /\ k < n
    BY <1>1, <1>6
  <2> QED
    BY <1>5, <1>6, <2>1
<1>8. SaveTo(u, part) \in I /\ /\ \A k \in part + 1..SaveTo(u, part) - 1 : \E x \in C : x.part = k
                               /\ \A x \in C : x.part # SaveTo(u, part)
  BY <1>6, <1>7 DEF SaveTo
<1> HIDE DEF c
<1> QED
  BY <1>1, <1>8

(* What the saving of the point changes.                                     *)
SameButSaved(u, v) ==
    /\ v.state = u.state /\ v.est = u.est /\ v.total = u.total /\ v.avail = u.avail
    /\ v.slow = u.slow /\ v.max = u.max /\ v.started = u.started /\ v.open = u.open
    /\ v.pos = u.pos /\ v.read = u.read /\ v.part = u.part /\ v.parts = u.parts
    /\ v.chunk = u.chunk /\ v.last = u.last /\ v.nextFirst = u.nextFirst
    /\ v.later = u.later /\ v.busy = u.busy /\ v.id = u.id /\ v.guid = u.guid
    /\ v.result = u.result /\ v.outcome = u.outcome

LastOnes(u, r, n) == {x \in u.cached \cup {r} : x.part = n - 1}

SavesAs(u, r, s) ==
    \/ s.u = u /\ s.size = 0
    \/ /\ r.part # u.savedPart /\ s.size = 0
       /\ s.u.cached = u.cached \cup {r} /\ s.u.savedPart = u.savedPart
    \/ /\ r.part = u.savedPart /\ ~u.est /\ ~u.later /\ ~u.nextFirst
       /\ \E n \in Int :
             /\ n >= r.part + 1
             /\ \A k \in r.part + 1..n - 1 : \E x \in u.cached : x.part = k
             /\ s.u.savedPart = n
             /\ s.u.cached = {x \in u.cached : x.part \notin r.part + 1..n - 1}
             /\ s.size = 0 \/ \E x \in LastOnes(u, r, n) : s.size = x.part + x.bytes

LEMMA SavedSteps ==
    ASSUME NEW u \in Operations, NEW big, NEW r \in Requests, NEW s, s = Saved(u, big, r)
    PROVE  s.u \in Operations /\ SameButSaved(u, s.u) /\ s.size \in Int /\ SavesAs(u, r, s)
<1> DEFINE n     == SaveTo(u, r.part)
           times == IF u.times >= SaveTimes THEN 1 ELSE u.times + 1
           ends  == LastOnes(u, r, n)
           size  == CHOOSE b \in {x.part + x.bytes : x \in ends} : TRUE
           w     == [u EXCEPT !.times = times]
           now   == IF big THEN size % Megabyte = 0 ELSE times = 1
           more  == u.cached \cup {r}
           fewer == {x \in u.cached : x.part \notin r.part + 1..n - 1}
<1>1. Fields(u) /\ r.part \in Int /\ r.bytes \in Nat
  BY OperationForm DEF Requests
<1>2. u.cached \subseteq Requests /\ IsFiniteSet(u.cached) /\ u.cached \in Caches
  BY <1>1 DEF Fields, Caches
<1>3. /\ n \in Int /\ n >= r.part + 1
      /\ \A k \in r.part + 1..n - 1 : \E x \in u.cached : x.part = k
  BY <1>1, <1>2, SaveToFits
<1> HIDE DEF n
<1>4. times \in Nat
  BY <1>1 DEF Fields, SaveTimes
<1>5. more \in Caches /\ fewer \in Caches
  <2>1. IsFiniteSet(more)
    BY <1>2, FS_AddElement
  <2>2. IsFiniteSet(fewer)
    BY <1>2, FS_Subset
  <2> QED
    BY <1>2, <2>1, <2>2 DEF Caches
<1>6. ends # {} /\ size \in Int /\ \E x \in ends : size = x.part + x.bytes
  <2>1. ends # {}
    <3>1. CASE n - 1 = r.part
      BY <3>1 DEF LastOnes
    <3>2. CASE n - 1 # r.part
      <4>1. n - 1 \in r.part + 1..n - 1
        BY <1>1, <1>3, <3>2
      <4> QED
        BY <1>3, <4>1 DEF LastOnes
    <3> QED
      BY <3>1, <3>2
  <2>2. \A x \in ends : x.part + x.bytes \in Int
    BY <1>2 DEF Requests, LastOnes
  <2> HIDE DEF ends
  <2> QED
    BY <2>1, <2>2
<1>7. Saved(u, big, r) =
          IF u.est \/ u.later \/ u.nextFirst THEN [u |-> u, size |-> 0]
          ELSE IF r.part # u.savedPart THEN [u |-> [w EXCEPT !.cached = more], size |-> 0]
          ELSE [u |-> [w EXCEPT !.savedPart = n, !.cached = fewer], size |-> IF now THEN size ELSE 0]
  <2>1. [u EXCEPT !.times = IF u.times >= SaveTimes THEN 1 ELSE u.times + 1] = w
    OBVIOUS
  <2>2. w.cached = u.cached /\ w.times = times
    BY DEF Operations
  <2> QED
    BY <2>1, <2>2 DEF Saved, LastOnes, n
<1> HIDE DEF times, more, fewer, now, size, ends
<1>8. w \in Operations /\ w.times = times /\ w.cached = u.cached /\ w.savedPart = u.savedPart
      /\ SameButSaved(u, w)
  BY <1>4 DEF Operations, SameButSaved
<1> HIDE DEF w
<1>9. CASE u.est \/ u.later \/ u.nextFirst
  BY <1>7, <1>9 DEF SameButSaved, SavesAs
<1>10. CASE ~(u.est \/ u.later \/ u.nextFirst) /\ r.part # u.savedPart
  <2>1. s = [u |-> [w EXCEPT !.cached = more], size |-> 0]
    BY <1>7, <1>10
  <2>2. [w EXCEPT !.cached = more] \in Operations
    BY <1>5, <1>8 DEF Operations
  <2>3. /\ [w EXCEPT !.cached = more].cached = more
        /\ [w EXCEPT !.cached = more].savedPart = u.savedPart
        /\ SameButSaved(u, [w EXCEPT !.cached = more])
    BY <1>8 DEF Operations, SameButSaved
  <2>4. s.u = [w EXCEPT !.cached = more] /\ s.size = 0
    BY <2>1
  <2> QED
    BY <1>10, <2>2, <2>3, <2>4 DEF more, SavesAs
<1>11. CASE ~(u.est \/ u.later \/ u.nextFirst) /\ r.part = u.savedPart
  <2> DEFINE x == [w EXCEPT !.savedPart = n]
             y == [w EXCEPT !.savedPart = n, !.cached = fewer]
  <2>1. s = [u |-> y, size |-> IF now THEN size ELSE 0]
    BY <1>7, <1>11
  <2>2. y.cached = fewer /\ y.savedPart = n /\ SameButSaved(u, y) /\ y.times = times
    BY <1>8 DEF Operations, SameButSaved
  <2>3. Shaped(y)
    BY <1>8 DEF Operations, Shaped
  <2> HIDE DEF y
  <2>4. y \in Operations
    <3>1. Fields(y)
      BY <1>1, <1>3, <1>4, <1>5, <2>2 DEF Fields, SameButSaved
    <3> QED
      BY <2>3, <3>1, OperationForm
  <2>5. s.u = y /\ s.size \in {0, size}
    BY <2>1
  <2>6. s.size = 0 \/ \E e \in LastOnes(u, r, n) : s.size = e.part + e.bytes
    BY <1>6, <2>5 DEF ends
  <2>7. SavesAs(u, r, s)
    BY <1>3, <1>11, <2>2, <2>5, <2>6 DEF fewer, SavesAs
  <2> QED
    BY <1>6, <2>2, <2>4, <2>5, <2>7
<1> QED
  BY <1>9, <1>10, <1>11

-----------------------------------------------------------------------------
(* The invariant: types, the view of every upload, and that an upload is     *)
(* taken once.                                                               *)
Parts       == [id : Nat, part : Int, from : Nat, bytes : Nat, early : BOOLEAN]
Cuts        == [size : Nat, chunk : Nat, origin : Int]
Identifiers == [cuts : SUBSET Cuts, early : BOOLEAN]

AppType ==
    app \in [uploads : 0..Len(world.of), written : [Locations -> Nat], slow : BOOLEAN,
             switches : Nat, restarts : Nat, cancels : SUBSET Locations]
LoaderType ==
    /\ loader \in [queue : Seq(Ids), count : Int, paths : [Locations -> Ids \cup {0}],
                   sizes : SUBSET Locations]
    /\ \A l \in Locations : loader.paths[l] # 0 => Of(loader.paths[l]).loc = l
StageType == stage \in Seq(StageTasks) /\ \A i \in DOMAIN stage : stage[i].o \in Ids
AtType ==
    /\ at \in Places /\ at.left \in 0..MaxFast
    /\ at.kind # "idle" => at.o \in Ids
    /\ at.kind = "send" => at.left >= 1
WireType == wire \in SUBSET Requests /\ IsFiniteSet(wire) /\ \A r \in wire : r.o \in Ids

OpType     == op \in [Ids -> Operations]
TasksType  == tasks \in Seq(LoaderTasks)
PrefsType  == prefs \in [Locations -> Preferences]
ServerType == server \in SUBSET Parts
MadeType   == made \in Seq(Identifiers)
MixedType  == mixed \in SUBSET Locations

Types ==
    /\ world \in Worlds /\ AppType /\ OpType /\ LoaderType /\ TasksType /\ StageType /\ AtType
    /\ PrefsType /\ WireType /\ ServerType /\ MadeType /\ MixedType

ViewOf(o) == View(o, Of(o), op[o], Mine(wire, o), stage, Kind(o, at), Pending(o, at))
Views     == \A o \in Ids : ViewOf(o)

(* An upload that FileLoader has not been told of yet, with ts its tasks and *)
(* n uploads asked for, is not known to it; it is told of each one once.     *)
Waiting(o, ts, n) == o > n \/ \E i \in DOMAIN ts : ts[i].do = "upload" /\ ts[i].o = o
ToldOnce(ts, n) ==
    /\ \A i, j \in DOMAIN ts : i < j /\ ts[i].do = "upload" /\ ts[j].do = "upload" => ts[i].o # ts[j].o
    /\ \A i \in DOMAIN ts : ts[i].do = "upload" => ts[i].o <= n

Unknown(o) ==
    /\ op[o].state = 0 /\ loader.paths[Of(o).loc] # o
    /\ \A i \in DOMAIN loader.queue : loader.queue[i] # o

Untouched == \A o \in Ids : Waiting(o, tasks, app.uploads) => Unknown(o)
TakenOnce == ToldOnce(tasks, app.uploads)

Inv == Types /\ Views /\ Untouched /\ TakenOnce

(* The world stays, and with it all that is defined by it.                   *)
LEMMA SameWorld ==
    ASSUME world' = world
    PROVE  /\ Ids' = Ids /\ Locations' = Locations /\ LoaderTasks' = LoaderTasks
           /\ \A o : Of(o)' = Of(o)
           /\ AppType /\ app' = app => AppType'
           /\ OpType /\ op' = op => OpType'
           /\ LoaderType /\ loader' = loader => LoaderType'
           /\ TasksType /\ tasks' = tasks => TasksType'
           /\ StageType /\ stage' = stage => StageType'
           /\ AtType /\ at' = at => AtType'
           /\ PrefsType /\ prefs' = prefs => PrefsType'
           /\ WireType /\ wire' = wire => WireType'
           /\ ServerType /\ server' = server => ServerType'
           /\ MadeType /\ made' = made => MadeType'
           /\ MixedType /\ mixed' = mixed => MixedType'
<1>1. Ids' = Ids /\ \A o : Of(o)' = Of(o)
  BY DEF Ids, Of
<1>2. Locations' = Locations
  BY DEF Locations, Ids, Of
<1>3. LoaderTasks' = LoaderTasks
  BY <1>1, <1>2 DEF LoaderTasks
<1>4. AppType /\ app' = app => AppType'
  BY <1>2 DEF AppType
<1>5. OpType /\ op' = op => OpType'
  BY <1>1 DEF OpType
<1>6. LoaderType /\ loader' = loader => LoaderType'
  BY <1>1, <1>2 DEF LoaderType
<1>7. TasksType /\ tasks' = tasks => TasksType'
  BY <1>3 DEF TasksType
<1>8. StageType /\ stage' = stage => StageType'
  BY <1>1 DEF StageType
<1>9. AtType /\ at' = at => AtType'
  BY <1>1 DEF AtType
<1>10. PrefsType /\ prefs' = prefs => PrefsType'
  BY <1>2 DEF PrefsType
<1>11. WireType /\ wire' = wire => WireType'
  BY <1>1 DEF WireType
<1>12. /\ ServerType /\ server' = server => ServerType'
       /\ MadeType /\ made' = made => MadeType'
       /\ MixedType /\ mixed' = mixed => MixedType'
  BY <1>2 DEF ServerType, MadeType, MixedType
<1> QED
  BY <1>1, <1>2, <1>3, <1>4, <1>5, <1>6, <1>7, <1>8, <1>9, <1>10, <1>11, <1>12

LEMMA WorldFacts ==
    ASSUME world \in Worlds
    PROVE  /\ Ids = 1..Len(world.of) /\ Len(world.of) \in Nat /\ Ids \subseteq Nat /\ 0 \notin Ids
           /\ \A o \in Ids : /\ Of(o) \in Uploads /\ Of(o).loc \in Locations
                             /\ Of(o).written <= Of(o).size
           /\ world.switches \in Nat /\ world.restarts \in Nat
<1>1. /\ world.of \in Seq(Uploads) /\ world.switches \in Nat /\ world.restarts \in Nat
      /\ \A o \in DOMAIN world.of : world.of[o].written <= world.of[o].size
  BY UploadAssumption
<1>2. Ids = 1..Len(world.of) /\ Len(world.of) \in Nat
  BY <1>1 DEF Ids
<1> QED
  BY <1>1, <1>2 DEF Ids, Of, Locations

LEMMA AllTyped ==
    ASSUME Types
    PROVE  \A o \in Ids :
              Typed(o, Of(o), op[o], Mine(wire, o), stage, Kind(o, at), Pending(o, at))
<1> SUFFICES ASSUME NEW o \in Ids
             PROVE  Typed(o, Of(o), op[o], Mine(wire, o), stage, Kind(o, at), Pending(o, at))
  OBVIOUS
<1>1. o \in Nat /\ Of(o) \in Uploads
  BY WorldFacts DEF Types
<1>2. op[o] \in Operations /\ stage \in Seq(StageTasks)
  BY DEF Types, OpType, StageType
<1>3. Mine(wire, o) \in SUBSET Requests /\ IsFiniteSet(Mine(wire, o)) /\ \A r \in Mine(wire, o) : r.o = o
  <2>1. Mine(wire, o) \subseteq wire /\ IsFiniteSet(wire)
    BY DEF Mine, Types, WireType
  <2> QED
    BY <2>1, FS_Subset DEF Mine, Types, WireType
<1>4. Kind(o, at) \in {"idle", "send", "finish"} /\ Pending(o, at) \in Nat
  BY DEF Types, AtType, Places, Kind, Pending
<1> QED
  BY <1>1, <1>2, <1>3, <1>4 DEF Typed

LEMMA ViewsStep ==
    ASSUME Types, world' = world,
           \A p \in Ids : View(p, Of(p), op'[p], Mine(wire', p), stage', Kind(p, at'), Pending(p, at'))
    PROVE  Views'
<1>1. Ids' = Ids /\ \A p : Of(p)' = Of(p)
  BY SameWorld
<1> QED
  BY <1>1 DEF Views, ViewOf, Mine, Kind, Pending

LEMMA UntouchedStep ==
    ASSUME world' = world, Untouched,
           \A o \in Ids : Waiting(o, tasks', app'.uploads) =>
               Waiting(o, tasks, app.uploads) /\ (Unknown(o) => Unknown(o)')
    PROVE  Untouched'
<1>1. Ids' = Ids
  BY SameWorld
<1> QED
  BY <1>1 DEF Untouched, Waiting

(* A task other than an upload is posted to FileLoader, or the first one is  *)
(* taken from it.                                                            *)
LEMMA TaskPosted ==
    ASSUME NEW ts \in Seq(LoaderTasks), NEW t \in LoaderTasks, t.do # "upload", NEW n,
           ToldOnce(ts, n)
    PROVE  /\ Append(ts, t) \in Seq(LoaderTasks) /\ ToldOnce(Append(ts, t), n)
           /\ \A o : Waiting(o, Append(ts, t), n) => Waiting(o, ts, n)
<1> DEFINE q == Append(ts, t)
<1>1. /\ q \in Seq(LoaderTasks)
      /\ DOMAIN q = 1..Len(ts) + 1 /\ DOMAIN ts = 1..Len(ts) /\ Len(ts) \in Nat
      /\ \A i \in DOMAIN ts : q[i] = ts[i]
      /\ q[Len(ts) + 1] = t
  OBVIOUS
<1> HIDE DEF q
<1>2. \A i \in DOMAIN q : q[i].do = "upload" => i \in DOMAIN ts /\ q[i] = ts[i]
  BY <1>1
<1>3. ToldOnce(q, n)
  BY <1>2 DEF ToldOnce
<1>4. \A o : Waiting(o, q, n) => Waiting(o, ts, n)
  BY <1>2 DEF Waiting
<1> QED
  BY <1>1, <1>3, <1>4 DEF q

LEMMA TaskTaken ==
    ASSUME Ids \subseteq Nat, NEW ts \in Seq(LoaderTasks), ts # <<>>, NEW n \in Nat,
           ToldOnce(ts, n)
    PROVE  /\ Tail(ts) \in Seq(LoaderTasks) /\ ToldOnce(Tail(ts), n)
           /\ \A o : Waiting(o, Tail(ts), n) => Waiting(o, ts, n)
           /\ Head(ts).do = "upload" =>
                 Waiting(Head(ts).o, ts, n) /\ ~(Head(ts).o > n) /\ ~Waiting(Head(ts).o, Tail(ts), n)
<1> DEFINE q == Tail(ts)
<1>1. /\ q \in Seq(LoaderTasks) /\ 1 \in DOMAIN ts /\ Head(ts) = ts[1]
      /\ DOMAIN q = 1..Len(ts) - 1 /\ DOMAIN ts = 1..Len(ts) /\ Len(ts) \in Nat
      /\ \A i \in DOMAIN q : i + 1 \in DOMAIN ts /\ q[i] = ts[i + 1] /\ 1 < i + 1
      /\ \A i, j \in DOMAIN q : i < j => i + 1 < j + 1
  OBVIOUS
<1> HIDE DEF q
<1>2. ToldOnce(q, n)
  BY <1>1 DEF ToldOnce
<1>3. \A o : Waiting(o, q, n) => Waiting(o, ts, n)
  BY <1>1 DEF Waiting
<1>4. Head(ts).do = "upload" =>
          Waiting(Head(ts).o, ts, n) /\ ~(Head(ts).o > n) /\ ~Waiting(Head(ts).o, q, n)
  <2> SUFFICES ASSUME ts[1].do = "upload"
               PROVE  Waiting(ts[1].o, ts, n) /\ ~(ts[1].o > n) /\ ~Waiting(ts[1].o, q, n)
    BY <1>1
  <2>1. Waiting(ts[1].o, ts, n)
    BY <1>1 DEF Waiting
  <2>2. ts[1].o <= n /\ ts[1].o \in Ids
    BY <1>1 DEF ToldOnce, LoaderTasks
  <2>3. \A i \in DOMAIN q : q[i].do = "upload" => q[i].o # ts[1].o
    BY <1>1 DEF ToldOnce
  <2>4. ts[1].o \in Nat
    BY <2>2
  <2>5. ~(ts[1].o > n)
    BY <2>2, <2>4
  <2>6. ~Waiting(ts[1].o, q, n)
    BY <2>3, <2>5 DEF Waiting
  <2> QED
    BY <2>1, <2>5, <2>6
<1> QED
  BY <1>1, <1>2, <1>3, <1>4 DEF q

-----------------------------------------------------------------------------
(* The initial states.                                                       *)
LEMMA NewFields ==
    ASSUME NEW f \in Uploads, NEW final \in BOOLEAN
    PROVE  /\ New(f, final) \in Operations /\ Blank(New(f, final)) /\ Flags(New(f, final))
           /\ New(f, final).state = 0 /\ New(f, final).result = {}
           /\ New(f, final).est = (f.estimate # 0 /\ ~final)
<1>1. f.estimate \in Nat /\ f.enc \in BOOLEAN
  BY DEF Uploads
<1> DEFINE v == New(f, final)
<1>2. Shaped(v)
  BY DEF Shaped, New
<1>3. {} \in Caches
  BY FS_EmptySet DEF Caches
<1>4. Fields(v)
  BY <1>1, <1>3 DEF Fields, New
<1>5. v \in Operations
  BY <1>2, <1>4, OperationForm
<1>6. Blank(v) /\ v.state = 0 /\ v.result = {} /\ v.est = (f.estimate # 0 /\ ~final)
  BY DEF Blank, New
<1>7. Flags(v)
  BY UploadAssumption DEF Flags, New
<1> QED
  BY <1>5, <1>6, <1>7

LEMMA FreshView ==
    ASSUME NEW o, NEW f, NEW u \in Operations, Blank(u), Flags(u), u.state = 0
    PROVE  View(o, f, u, {}, <<>>, "idle", 0)
<1>1. DOMAIN <<>> = {}
  OBVIOUS
<1>2. Untaken(o, u, {}, <<>>, "idle") /\ Prepared(o, u, {}, <<>>, "idle") /\ Begun(o, u, {}, <<>>)
  BY <1>1 DEF Untaken, Prepared, Begun
<1>3. Counted(o, u, {}, <<>>, 0) /\ Rewinding(o, u, <<>>, "idle") /\ Behind(u, f, {}) /\ Once(u, {})
  BY DEF Counted, Rewinding, Behind, Once
<1> QED
  BY <1>2, <1>3 DEF View

LEMMA InitInv == Init => Inv
<1> SUFFICES ASSUME Init PROVE Inv
  OBVIOUS
<1>1. world \in Worlds
  BY DEF Init
<1>2. /\ Ids = 1..Len(world.of) /\ Len(world.of) \in Nat /\ 0 \notin Ids
      /\ \A o \in Ids : Of(o) \in Uploads /\ Of(o).loc \in Locations
      /\ world.switches \in Nat /\ world.restarts \in Nat
  BY <1>1, WorldFacts
<1>3. \A o \in Ids : /\ op[o] \in Operations /\ Blank(op[o]) /\ Flags(op[o]) /\ op[o].state = 0
  BY <1>2, NewFields DEF Init
<1>4. AppType /\ OpType
  <2>1. [l \in Locations |-> 0] \in [Locations -> Nat]
    OBVIOUS
  <2>2. 0 \in 0..Len(world.of)
    BY <1>2
  <2>3. AppType
    BY <1>2, <2>1, <2>2 DEF Init, AppType
  <2>4. op = [o \in Ids |-> New(Of(o), FALSE)]
    BY DEF Init
  <2> QED
    BY <1>3, <2>3, <2>4 DEF OpType
<1>5. LoaderType /\ TasksType /\ StageType
  BY DEF Init, LoaderType, TasksType, StageType
<1>6. AtType
  BY UploadAssumption DEF Init, AtType, Idle, Places
<1>7. PrefsType /\ WireType /\ ServerType /\ MadeType /\ MixedType
  BY FS_EmptySet DEF Init, PrefsType, Preferences, NoPrefs, WireType, ServerType, MadeType, MixedType
<1>8. Views
  <2> SUFFICES ASSUME NEW o \in Ids PROVE ViewOf(o)
    BY DEF Views
  <2>1. Mine(wire, o) = {} /\ stage = <<>> /\ Kind(o, at) = "idle" /\ Pending(o, at) = 0
    BY DEF Init, Mine, Kind, Pending, Idle
  <2> QED
    BY <1>3, <2>1, FreshView DEF ViewOf
<1>9. Untouched /\ TakenOnce
  <2>1. tasks = <<>> /\ loader.queue = <<>> /\ DOMAIN <<>> = {}
    BY DEF Init
  <2>2. TakenOnce
    BY <2>1 DEF TakenOnce, ToldOnce
  <2>3. \A o \in Ids : loader.paths[Of(o).loc] = 0 /\ o # 0
    BY <1>2 DEF Init
  <2>4. \A o \in Ids : Unknown(o)
    BY <1>3, <2>1, <2>3 DEF Unknown
  <2> QED
    BY <2>2, <2>4 DEF Untouched
<1> QED
  BY <1>1, <1>4, <1>5, <1>6, <1>7, <1>8, <1>9 DEF Inv, Types

-----------------------------------------------------------------------------
(* The application only posts tasks to FileLoader.                           *)
LEMMA ApplicationStep ==
    ASSUME Inv, UNCHANGED <<world, op, loader, stage, at, prefs, wire, server, made, mixed>>,
           AppType', TasksType',
           TakenOnce', \A o \in Ids : Waiting(o, tasks', app'.uploads) => Waiting(o, tasks, app.uploads)
    PROVE  Inv'
<1>1. Types'
  BY SameWorld DEF Inv, Types
<1>2. Views'
  <2>1. Types /\ world' = world
    BY DEF Inv
  <2>2. \A p \in Ids : View(p, Of(p), op'[p], Mine(wire', p), stage', Kind(p, at'), Pending(p, at'))
    BY DEF Inv, Views, ViewOf
  <2> QED
    BY <2>1, <2>2, ViewsStep
<1>3. Untouched'
  <2>1. \A o \in Ids : Unknown(o) => Unknown(o)'
    BY SameWorld DEF Unknown
  <2> QED
    BY <2>1, UntouchedStep DEF Inv
<1> QED
  BY <1>1, <1>2, <1>3 DEF Inv

LEMMA UploadFileInv == Inv /\ UploadFile => Inv'
<1> SUFFICES ASSUME Inv, UploadFile PROVE Inv'
  OBVIOUS
<1> DEFINE n == app.uploads
           t == [do |-> "upload", o |-> n + 1]
<1>1. /\ Ids = 1..Len(world.of) /\ Len(world.of) \in Nat
      /\ n \in 0..Len(world.of) /\ n < Len(world.of) /\ world' = world
      /\ tasks \in Seq(LoaderTasks) /\ TakenOnce
  BY WorldFacts DEF Inv, Types, AppType, TasksType, UploadFile
<1>2. t \in LoaderTasks
  BY <1>1 DEF LoaderTasks
<1>3. tasks' = Append(tasks, t) /\ app' = [app EXCEPT !.uploads = n + 1] /\ app'.uploads = n + 1
  BY DEF UploadFile, Post, Inv, Types, AppType
<1>4. AppType'
  <2>1. n + 1 \in 0..Len(world.of)
    BY <1>1
  <2> QED
    BY <1>3, <2>1, SameWorld DEF UploadFile, Inv, Types, AppType
<1> DEFINE q == Append(tasks, t)
<1>5. /\ q \in Seq(LoaderTasks) /\ DOMAIN q = 1..Len(tasks) + 1 /\ DOMAIN tasks = 1..Len(tasks)
      /\ Len(tasks) \in Nat /\ (\A i \in DOMAIN tasks : q[i] = tasks[i]) /\ q[Len(tasks) + 1] = t
  BY <1>1, <1>2
<1>6. t.do = "upload" /\ t.o = n + 1
  OBVIOUS
<1> HIDE DEF q, t, n
<1>7. TasksType'
  BY <1>1, <1>3, <1>5, SameWorld DEF TasksType, q
<1>8. n + 1 > n /\ \A i \in DOMAIN tasks : tasks[i].do = "upload" => tasks[i].o <= n /\ tasks[i].o \in Nat
  BY <1>1 DEF TakenOnce, ToldOnce, LoaderTasks, n
<1>9. TakenOnce'
  <2>1. ToldOnce(q, n + 1)
    <3>1. \A i, j \in DOMAIN q : i < j /\ q[i].do = "upload" /\ q[j].do = "upload" => q[i].o # q[j].o
      BY <1>1, <1>5, <1>6, <1>8 DEF TakenOnce, ToldOnce
    <3>2. \A i \in DOMAIN q : q[i].do = "upload" => q[i].o <= n + 1
      BY <1>1, <1>5, <1>6, <1>8
    <3> QED
      BY <3>1, <3>2 DEF ToldOnce
  <2> QED
    BY <1>3, <2>1 DEF TakenOnce, ToldOnce, q
<1>10. \A o \in Ids : Waiting(o, tasks', app'.uploads) => Waiting(o, tasks, app.uploads)
  <2> SUFFICES ASSUME NEW o \in Ids, Waiting(o, q, n + 1) PROVE Waiting(o, tasks, n)
    BY <1>3 DEF q, n
  <2>1. CASE o > n + 1
    BY <1>1, <2>1 DEF Waiting
  <2>2. CASE \E i \in DOMAIN q : q[i].do = "upload" /\ q[i].o = o
    <3>1. PICK i \in DOMAIN q : q[i].do = "upload" /\ q[i].o = o
      BY <2>2
    <3>2. CASE i \in DOMAIN tasks
      BY <1>5, <3>1, <3>2 DEF Waiting
    <3>3. CASE i = Len(tasks) + 1
      BY <1>1, <1>5, <1>6, <1>8, <3>1, <3>3 DEF Waiting
    <3> QED
      BY <1>5, <3>2, <3>3
  <2> QED
    BY <2>1, <2>2 DEF Waiting
<1> QED
  BY <1>4, <1>7, <1>9, <1>10, ApplicationStep DEF UploadFile

LEMMA PostedInv ==
    ASSUME Inv, UNCHANGED <<world, op, loader, stage, at, prefs, wire, server, made, mixed>>,
           AppType', app'.uploads = app.uploads, NEW t \in LoaderTasks, t.do # "upload", Post(t)
    PROVE  Inv'
<1>1. /\ tasks' \in Seq(LoaderTasks) /\ ToldOnce(tasks', app.uploads)
      /\ \A o : Waiting(o, tasks', app.uploads) => Waiting(o, tasks, app.uploads)
  BY TaskPosted DEF Post, Inv, Types, TasksType, TakenOnce
<1>2. TasksType' /\ TakenOnce'
  BY <1>1, SameWorld DEF TasksType, TakenOnce, ToldOnce
<1> QED
  BY <1>1, <1>2, ApplicationStep

LEMMA CancelFileUploadInv ==
    ASSUME Inv, NEW l \in app.cancels, CancelFileUpload(l)
    PROVE  Inv'
<1>1. [do |-> "cancel", loc |-> l] \in LoaderTasks
  BY DEF Inv, Types, AppType, LoaderTasks
<1>2. AppType' /\ app'.uploads = app.uploads
  BY SameWorld DEF CancelFileUpload, Inv, Types, AppType
<1> QED
  BY <1>1, <1>2, PostedInv DEF CancelFileUpload

LEMMA CheckUploadNewDataAvailableInv ==
    ASSUME Inv, NEW o \in Ids, CheckUploadNewDataAvailable(o)
    PROVE  Inv'
<1> DEFINE l == Of(o).loc
           t == [do |-> "data", loc |-> l, avail |-> IF app.written[l] = 0 THEN Of(o).written ELSE Of(o).size,
                 final |-> app.written[l] = 1]
<1>1. Of(o) \in Uploads /\ l \in Locations
  BY WorldFacts DEF Inv, Types
<1>2. t \in LoaderTasks
  BY <1>1 DEF LoaderTasks, Uploads
<1>3. app' = [app EXCEPT !.written[l] = @ + 1] /\ world' = world
  BY DEF CheckUploadNewDataAvailable
<1>4. AppType' /\ app'.uploads = app.uploads
  <2> HIDE DEF l
  <2>1. app.written[l] + 1 \in Nat
    BY <1>1 DEF Inv, Types, AppType
  <2>2. [app.written EXCEPT ![l] = @ + 1] \in [Locations -> Nat]
    BY <1>1, <2>1 DEF Inv, Types, AppType
  <2> QED
    BY <1>3, <2>2, SameWorld DEF Inv, Types, AppType
<1>5. Post(t)
  BY DEF CheckUploadNewDataAvailable
<1> QED
  BY <1>2, <1>4, <1>5, PostedInv DEF CheckUploadNewDataAvailable

LEMMA OnNetworkChangedInv == Inv /\ OnNetworkChanged => Inv'
<1> SUFFICES ASSUME Inv, OnNetworkChanged PROVE Inv'
  OBVIOUS
<1>1. [do |-> "network", slow |-> ~app.slow] \in LoaderTasks
  BY DEF Inv, Types, AppType, LoaderTasks
<1>2. AppType' /\ app'.uploads = app.uploads
  <2> DEFINE n == app.switches - 1
             slow == ~app.slow
  <2>1. n \in Nat
    BY DEF OnNetworkChanged, Inv, Types, AppType
  <2>2. slow \in BOOLEAN
    OBVIOUS
  <2>3. app' = [app EXCEPT !.switches = n, !.slow = slow] /\ world' = world
    BY DEF OnNetworkChanged
  <2> HIDE DEF n, slow
  <2> QED
    BY <2>1, <2>2, <2>3, SameWorld DEF Inv, Types, AppType
<1> QED
  BY <1>1, <1>2, PostedInv DEF OnNetworkChanged

LEMMA RestartInv == Inv /\ Restart => Inv'
<1> SUFFICES ASSUME Inv, Restart PROVE Inv'
  OBVIOUS
<1>1. world' = world /\ world \in Worlds
  BY DEF Restart, Inv, Types
<1>2. /\ Ids = 1..Len(world.of) /\ Len(world.of) \in Nat /\ 0 \notin Ids
      /\ \A o \in Ids : Of(o) \in Uploads /\ Of(o).loc \in Locations
  BY <1>1, WorldFacts
<1>3. /\ op' = [o \in Ids |-> New(Of(o), FALSE)]
      /\ \A o \in Ids : op'[o] \in Operations /\ Blank(op'[o]) /\ Flags(op'[o]) /\ op'[o].state = 0
  <2>1. op' = [o \in Ids |-> New(Of(o), FALSE)]
    BY DEF Restart
  <2> QED
    BY <1>2, <2>1, NewFields
<1>4. AppType'
  <2>1. [l \in Locations |-> 0] \in [Locations -> Nat]
    OBVIOUS
  <2>2. app.restarts - 1 \in Nat /\ 0 \in 0..Len(world.of)
    BY <1>2 DEF Restart, Inv, Types, AppType
  <2>3. app' = [app EXCEPT !.uploads = 0, !.written = [l \in Locations |-> 0], !.restarts = app.restarts - 1]
    BY DEF Restart
  <2> QED
    BY <1>1, <2>1, <2>2, <2>3, SameWorld DEF Inv, Types, AppType
<1>5. OpType'
  BY <1>1, <1>3, SameWorld DEF OpType
<1>6. LoaderType' /\ TasksType' /\ StageType'
  BY <1>1, SameWorld DEF Restart, LoaderType, TasksType, StageType
<1>7. AtType' /\ WireType'
  BY <1>1, UploadAssumption, SameWorld, FS_EmptySet DEF Restart, AtType, Idle, Places, WireType
<1>8. Types'
  BY <1>1, <1>4, <1>5, <1>6, <1>7, SameWorld DEF Restart, Inv, Types
<1>9. Views'
  <2>1. wire' = {} /\ stage' = <<>> /\ at' = Idle
    BY DEF Restart
  <2>2. \A p \in Ids : Mine(wire', p) = {} /\ Kind(p, at') = "idle" /\ Pending(p, at') = 0
    BY <2>1 DEF Mine, Kind, Pending, Idle
  <2>3. \A p \in Ids : View(p, Of(p), op'[p], Mine(wire', p), stage', Kind(p, at'), Pending(p, at'))
    BY <1>3, <2>1, <2>2, FreshView
  <2> QED
    BY <1>1, <2>3, ViewsStep DEF Inv
<1>10. TakenOnce' /\ Untouched'
  <2>1. tasks' = <<>> /\ loader'.queue = <<>> /\ DOMAIN <<>> = {}
    BY DEF Restart
  <2>2. TakenOnce'
    BY <2>1 DEF TakenOnce, ToldOnce
  <2>3. \A o \in Ids : loader'.paths[Of(o).loc] = 0 /\ o # 0
    BY <1>2 DEF Restart
  <2>4. \A o \in Ids : Unknown(o)'
    BY <1>1, <1>3, <2>1, <2>3, SameWorld DEF Unknown
  <2> QED
    BY <1>1, <2>2, <2>4, SameWorld DEF Untouched
<1> QED
  BY <1>8, <1>9, <1>10 DEF Inv

-----------------------------------------------------------------------------
(* The queue of FileLoader.                                                  *)
LEMMA LoaderTaskFields ==
    ASSUME NEW t \in LoaderTasks
    PROVE  /\ t.do \in {"upload", "failed", "finished", "cancel", "data", "network"}
           /\ t.do \in {"upload", "failed", "finished"} => t.o \in Ids
           /\ t.do \in {"cancel", "data"} => t.loc \in Locations
           /\ t.do = "data" => t.avail \in Nat /\ t.final \in BOOLEAN
           /\ t.do = "network" => t.slow \in BOOLEAN
BY DEF LoaderTasks

LEMMA MixingType ==
    ASSUME Inv, MixedType
    PROVE  mixed \cup Mixing \in SUBSET Locations
BY WorldFacts DEF Mixing, MixedType, Inv, Types

(* What remains to be shown of a task.                                       *)
LEMMA LoaderStep ==
    ASSUME Inv, UNCHANGED <<world, app, wire, server, made>>, mixed' = mixed \cup Mixing,
           op' \in [Ids -> Operations], LoaderType', tasks' \in Seq(LoaderTasks), StageType', AtType',
           prefs' \in [Locations -> Preferences], ToldOnce(tasks', app.uploads),
           \A p \in Ids :
              View(p, Of(p), op'[p], Mine(wire, p), stage', Kind(p, at'), Pending(p, at')),
           \A p \in Ids : Waiting(p, tasks', app.uploads) =>
              Waiting(p, tasks, app.uploads) /\ (Unknown(p) => Unknown(p)')
    PROVE  Inv'
<1>1. OpType' /\ TasksType' /\ PrefsType'
  BY SameWorld DEF OpType, TasksType, PrefsType
<1>2. MixedType'
  <2>1. mixed' \in SUBSET Locations
    BY MixingType DEF Inv, Types
  <2> QED
    BY <2>1, SameWorld DEF MixedType
<1>3. Types'
  BY <1>1, <1>2, SameWorld DEF Inv, Types
<1>4. Views'
  BY ViewsStep DEF Inv
<1>5. Untouched' /\ TakenOnce'
  <2>1. Untouched'
    BY UntouchedStep DEF Inv
  <2> QED
    BY <2>1 DEF TakenOnce, ToldOnce
<1> QED
  BY <1>3, <1>4, <1>5 DEF Inv

LEMMA LoaderFacts ==
    ASSUME Inv, tasks # <<>>
    PROVE  /\ Head(tasks) \in LoaderTasks
           /\ Tail(tasks) \in Seq(LoaderTasks) /\ ToldOnce(Tail(tasks), app.uploads)
           /\ \A o : Waiting(o, Tail(tasks), app.uploads) => Waiting(o, tasks, app.uploads)
           /\ Head(tasks).do = "upload" =>
                 Unknown(Head(tasks).o) /\ ~Waiting(Head(tasks).o, Tail(tasks), app.uploads)
<1>1. Ids \subseteq Nat /\ app.uploads \in Nat /\ tasks \in Seq(LoaderTasks)
  BY WorldFacts DEF Inv, Types, AppType, TasksType
<1>2. Head(tasks) \in LoaderTasks
  BY <1>1
<1>3. ToldOnce(tasks, app.uploads)
  BY DEF Inv, TakenOnce
<1>4. Head(tasks).do = "upload" => Head(tasks).o \in Ids
  BY <1>2, LoaderTaskFields
<1> HIDE DEF Inv
<1>5. Head(tasks).do = "upload" => Waiting(Head(tasks).o, tasks, app.uploads)
  BY <1>1, <1>3, TaskTaken
<1> QED
  BY <1>1, <1>2, <1>3, <1>4, <1>5, TaskTaken DEF Inv, Untouched

LEMMA StartFields ==
    ASSUME NEW u \in Operations, NEW v, v = [u EXCEPT !.state = 1]
    PROVE  /\ v \in Operations /\ v.state = 1
           /\ (Blank(u) => Blank(v)) /\ (Flags(u) => Flags(v))
<1>1. v \in Operations
  <2>1. 1 \in 0..4
    OBVIOUS
  <2>2. u.state \in 0..4
    BY DEF Operations
  <2> QED
    BY <2>1, <2>2 DEF Operations
<1>2. v.state = 1
  BY DEF Operations
<1>3. Blank(u) => Blank(v)
  BY DEF Operations, Blank
<1>4. Flags(u) => Flags(v)
  BY DEF Operations, Flags
<1> QED
  BY <1>1, <1>2, <1>3, <1>4

LEMMA RunUploadInv ==
    ASSUME Inv, tasks # <<>>, Head(tasks).do = "upload", RunUpload(Head(tasks).o),
           tasks' = Tail(tasks), UNCHANGED <<world, app, at, prefs, wire, server, made>>,
           mixed' = mixed \cup Mixing
    PROVE  Inv'
<1> DEFINE o == Head(tasks).o
           l == Of(o).loc
           u == New(Of(o), l \in loader.sizes)
<1>1. /\ o \in Ids /\ o # 0 /\ Of(o) \in Uploads /\ l \in Locations
      /\ Unknown(o) /\ ~Waiting(o, Tail(tasks), app.uploads)
      /\ Tail(tasks) \in Seq(LoaderTasks) /\ ToldOnce(Tail(tasks), app.uploads)
      /\ \A p : Waiting(p, Tail(tasks), app.uploads) => Waiting(p, tasks, app.uploads)
  BY LoaderFacts, LoaderTaskFields, WorldFacts DEF Inv, Types
<1>2. /\ loader \in [queue : Seq(Ids), count : Int, paths : [Locations -> Ids \cup {0}],
                     sizes : SUBSET Locations]
      /\ \A k \in Locations : loader.paths[k] # 0 => Of(loader.paths[k]).loc = k
      /\ op \in [Ids -> Operations] /\ stage \in Seq(StageTasks)
      /\ \A i \in DOMAIN stage : stage[i].o \in Ids
  BY DEF Inv, Types, LoaderType, OpType, StageType
<1>3. \A p \in Ids : /\ Typed(p, Of(p), op[p], Mine(wire, p), stage, Kind(p, at), Pending(p, at))
                     /\ View(p, Of(p), op[p], Mine(wire, p), stage, Kind(p, at), Pending(p, at))
  BY AllTyped DEF Inv, Views, ViewOf
<1>4. /\ at' = at /\ prefs' = prefs /\ wire' = wire /\ world' = world
      /\ AtType' /\ prefs' \in [Locations -> Preferences] /\ Ids' = Ids
  BY SameWorld DEF Inv, Types, PrefsType
<1>5. CASE loader.paths[l] # 0
  <2>1. op' = [op EXCEPT ![o].outcome = "refused"] /\ loader' = loader /\ stage' = stage
    BY <1>5 DEF RunUpload
  <2> DEFINE v == [op[o] EXCEPT !.outcome = "refused"]
  <2>2. v \in Operations /\ Alike(op[o], v) /\ v.state = op[o].state
    <3>1. op[o] \in Operations
      BY <1>1, <1>2
    <3> HIDE DEF o
    <3> QED
      BY <3>1 DEF Operations, Alike
  <2>3. op' = [op EXCEPT ![o] = v]
    BY <2>1
  <2> HIDE DEF v
  <2>4. op' \in [Ids -> Operations]
    BY <1>1, <1>2, <2>2, <2>3
  <2>5. \A p \in Ids : View(p, Of(p), op'[p], Mine(wire, p), stage', Kind(p, at'), Pending(p, at'))
    <3> SUFFICES ASSUME NEW p \in Ids
                 PROVE  View(p, Of(p), op'[p], Mine(wire, p), stage, Kind(p, at), Pending(p, at))
      BY <1>4, <2>1
    <3>1. CASE p = o
      <4>1. op'[p] = v
        BY <1>1, <1>2, <2>3, <3>1
      <4> HIDE DEF o
      <4> QED
        BY <1>3, <2>2, <3>1, <4>1, AlikeView
    <3>2. CASE p # o
      BY <1>2, <1>3, <2>3, <3>2
    <3> QED
      BY <3>1, <3>2
  <2>6. LoaderType' /\ StageType'
    BY <1>4, <2>1, SameWorld DEF Inv, Types
  <2>7. \A p \in Ids : Unknown(p) => Unknown(p)'
    <3> SUFFICES ASSUME NEW p \in Ids, Unknown(p) PROVE Unknown(p)'
      OBVIOUS
    <3>1. op'[p].state = op[p].state
      BY <1>2, <2>2, <2>3
    <3> QED
      BY <1>4, <2>1, <3>1, SameWorld DEF Unknown
  <2> QED
    BY <1>1, <1>4, <2>4, <2>5, <2>6, <2>7, LoaderStep
<1>6. CASE loader.paths[l] = 0
  <2> DEFINE now   == loader.count < 1
             queue == IF now THEN loader.queue ELSE Append(loader.queue, o)
             sizes == IF Of(o).estimate # 0 THEN loader.sizes \ {l} ELSE loader.sizes
             count == IF loader.count < 1 THEN loader.count + 1 ELSE loader.count
             paths == [loader.paths EXCEPT ![l] = o]
             v     == IF now THEN [u EXCEPT !.state = 1] ELSE u
  <2>1. /\ loader' = [loader EXCEPT !.paths = paths, !.sizes = sizes, !.count = count, !.queue = queue]
        /\ op' = [op EXCEPT ![o] = v]
        /\ stage' = IF now THEN Append(stage, [do |-> "start", o |-> o]) ELSE stage
    BY <1>6 DEF RunUpload
  <2>2. queue \in Seq(Ids) /\ (\A i \in DOMAIN queue : queue[i] = o \/ \E j \in DOMAIN loader.queue : loader.queue[j] = queue[i])
    <3>1. loader.queue \in Seq(Ids) /\ o \in Ids
      BY <1>1, <1>2
    <3> HIDE DEF o, now
    <3> QED
      BY <3>1
  <2>3. sizes \in SUBSET Locations /\ count \in Int /\ paths \in [Locations -> Ids \cup {0}]
    BY <1>1, <1>2
  <2>4. \A k \in Locations : /\ paths[k] # 0 => Of(paths[k]).loc = k
                             /\ paths[k] = o \/ paths[k] = loader.paths[k]
    BY <1>1, <1>2
  <2>5. /\ u \in Operations /\ Blank(u) /\ Flags(u) /\ u.state = 0
    <3>1. (l \in loader.sizes) \in BOOLEAN
      OBVIOUS
    <3> HIDE DEF l, o
    <3> QED
      BY <1>1, <3>1, NewFields
  <2>6. v \in Operations /\ Blank(v) /\ Flags(v) /\ v.state = (IF now THEN 1 ELSE 0)
    <3>1. CASE now
      <4> HIDE DEF u
      <4>1. v = [u EXCEPT !.state = 1]
        BY <3>1
      <4> HIDE DEF v, o, l
      <4> QED
        BY <2>5, <3>1, <4>1, StartFields
    <3>2. CASE ~now
      BY <2>5, <3>2
    <3> QED
      BY <3>1, <3>2
  <2> HIDE DEF u, v, queue, sizes, count, paths
  <2>7. /\ loader'.queue = queue /\ loader'.paths = paths
        /\ loader' \in [queue : Seq(Ids), count : Int, paths : [Locations -> Ids \cup {0}],
                        sizes : SUBSET Locations]
    BY <1>2, <2>1, <2>2, <2>3
  <2>8. LoaderType'
    BY <1>4, <2>4, <2>7, SameWorld DEF LoaderType
  <2>9. op' \in [Ids -> Operations] /\ op'[o] = v /\ \A p \in Ids : p # o => op'[p] = op[p]
    BY <1>1, <1>2, <2>1, <2>6
  <2> DEFINE t == [do |-> "start", o |-> o]
  <2>10. t \in StageTasks /\ t.o = o
    BY <1>1, <1>3 DEF StageTasks, Typed
  <2>11. /\ stage' \in Seq(StageTasks) /\ \A i \in DOMAIN stage' : stage'[i].o \in Ids
    <3> HIDE DEF t, now, o
    <3>1. stage' = (IF now THEN Append(stage, t) ELSE stage)
      BY <2>1 DEF t
    <3> QED
      BY <1>1, <1>2, <2>10, <3>1
  <2>12. StageType'
    BY <1>4, <2>11, SameWorld DEF StageType
  <2>13. \A p \in Ids : View(p, Of(p), op'[p], Mine(wire, p), stage', Kind(p, at'), Pending(p, at'))
    <3> SUFFICES ASSUME NEW p \in Ids
                 PROVE  View(p, Of(p), op'[p], Mine(wire, p), stage', Kind(p, at), Pending(p, at))
      BY <1>4
    <3> DEFINE m == Mine(wire, p)
               k == Kind(p, at)
               n == Pending(p, at)
    <3>1. Typed(p, Of(p), op[p], m, stage, k, n) /\ View(p, Of(p), op[p], m, stage, k, n)
      BY <1>3
    <3>2. k = "idle" => n = 0
      BY DEF Kind, Pending
    <3> HIDE DEF m, k, n
    <3>3. CASE p = o /\ now
      <4>1. op[p].state = 0 /\ op'[p] = v /\ v.state = 1
        BY <1>1, <2>6, <2>9, <3>3 DEF Unknown
      <4>2. n = 0
        BY <3>1, <3>2, <4>1 DEF View, Untaken
      <4>3. stage' = Append(stage, [do |-> "start", o |-> p])
        BY <2>1, <3>3
      <4> HIDE DEF o, now
      <4> QED
        BY <2>6, <3>1, <4>1, <4>2, <4>3, Started DEF m, k, n
    <3>4. CASE p = o /\ ~now
      <4>1. op[p].state = 0 /\ op'[p] = v /\ v.state = 0 /\ stage' = stage
        BY <1>1, <2>1, <2>6, <2>9, <3>4 DEF Unknown
      <4> HIDE DEF o, now
      <4> QED
        BY <2>6, <3>1, <4>1, Queued DEF m, k, n
    <3>5. CASE p # o /\ now
      <4>1. op'[p] = op[p] /\ stage' = Append(stage, t) /\ t.o # p
        BY <2>1, <2>9, <2>10, <3>5
      <4> HIDE DEF o, now, t
      <4> QED
        BY <2>10, <3>1, <4>1, OtherAppended DEF m, k, n
    <3>6. CASE p # o /\ ~now
      BY <2>1, <2>9, <3>1, <3>6 DEF m, k, n
    <3> QED
      BY <3>3, <3>4, <3>5, <3>6
  <2>14. \A p \in Ids : Waiting(p, tasks', app.uploads) =>
              Waiting(p, tasks, app.uploads) /\ (Unknown(p) => Unknown(p)')
    <3> SUFFICES ASSUME NEW p \in Ids, Waiting(p, Tail(tasks), app.uploads), Unknown(p)
                 PROVE  Unknown(p)'
      BY <1>1
    <3>1. p # o
      BY <1>1
    <3>2. op'[p].state = 0
      BY <2>9, <3>1 DEF Unknown
    <3>3. Of(p).loc \in Locations
      BY WorldFacts DEF Inv, Types
    <3>4. paths[Of(p).loc] # p
      BY <2>4, <3>1, <3>3 DEF Unknown
    <3>5. \A i \in DOMAIN queue : queue[i] # p
      BY <2>2, <3>1 DEF Unknown
    <3> QED
      BY <1>4, <2>7, <3>2, <3>4, <3>5, SameWorld DEF Unknown
  <2> QED
    BY <1>1, <1>4, <2>8, <2>9, <2>12, <2>13, <2>14, LoaderStep
<1> QED
  BY <1>5, <1>6

(* What every task of FileLoader finds.                                      *)
LEMMA LoaderState ==
    ASSUME Inv
    PROVE  /\ loader \in [queue : Seq(Ids), count : Int, paths : [Locations -> Ids \cup {0}],
                          sizes : SUBSET Locations]
           /\ \A k \in Locations : loader.paths[k] # 0 => Of(loader.paths[k]).loc = k
           /\ op \in [Ids -> Operations] /\ stage \in Seq(StageTasks)
           /\ (\A i \in DOMAIN stage : stage[i].o \in Ids)
           /\ 0 \notin Ids /\ Ids \subseteq Nat /\ Ids = 1..Len(world.of) /\ Len(world.of) \in Nat
           /\ (\A o \in Ids : Of(o).loc \in Locations)
           /\ \A p \in Ids : /\ Typed(p, Of(p), op[p], Mine(wire, p), stage, Kind(p, at), Pending(p, at))
                             /\ View(p, Of(p), op[p], Mine(wire, p), stage, Kind(p, at), Pending(p, at))
<1>1. /\ loader \in [queue : Seq(Ids), count : Int, paths : [Locations -> Ids \cup {0}],
                     sizes : SUBSET Locations]
      /\ \A k \in Locations : loader.paths[k] # 0 => Of(loader.paths[k]).loc = k
      /\ op \in [Ids -> Operations] /\ stage \in Seq(StageTasks)
      /\ \A i \in DOMAIN stage : stage[i].o \in Ids
  BY DEF Inv, Types, LoaderType, OpType, StageType
<1>2. \A p \in Ids : /\ Typed(p, Of(p), op[p], Mine(wire, p), stage, Kind(p, at), Pending(p, at))
                     /\ View(p, Of(p), op[p], Mine(wire, p), stage, Kind(p, at), Pending(p, at))
  BY AllTyped DEF Inv, Views, ViewOf
<1>3. /\ 0 \notin Ids /\ Ids \subseteq Nat /\ Ids = 1..Len(world.of) /\ Len(world.of) \in Nat
      /\ \A o \in Ids : Of(o).loc \in Locations
  BY WorldFacts DEF Inv, Types
<1> QED
  BY <1>1, <1>2, <1>3

LEMMA StageAppended ==
    ASSUME Inv, NEW t \in StageTasks, t.o \in Ids, world' = world, stage' = Append(stage, t)
    PROVE  StageType'
<1>1. stage \in Seq(StageTasks) /\ \A i \in DOMAIN stage : stage[i].o \in Ids
  BY DEF Inv, Types, StageType
<1>2. stage' \in Seq(StageTasks) /\ \A i \in DOMAIN stage' : stage'[i].o \in Ids
  BY <1>1
<1> QED
  BY <1>2, SameWorld DEF StageType

LEMMA RunDataInv ==
    ASSUME Inv, tasks # <<>>, Head(tasks).do = "data", RunData(Head(tasks)),
           tasks' = Tail(tasks), UNCHANGED <<world, app, at, prefs, wire, server, made>>,
           mixed' = mixed \cup Mixing
    PROVE  Inv'
<1> DEFINE h == Head(tasks)
           o == loader.paths[h.loc]
           t == [do |-> "data", o |-> o, avail |-> h.avail, final |-> h.final]
<1>1. /\ h.loc \in Locations /\ h.avail \in Nat /\ h.final \in BOOLEAN
      /\ Tail(tasks) \in Seq(LoaderTasks) /\ ToldOnce(Tail(tasks), app.uploads)
      /\ \A p : Waiting(p, Tail(tasks), app.uploads) => Waiting(p, tasks, app.uploads)
  BY LoaderFacts, LoaderTaskFields
<1>2. o \in Ids \cup {0}
  BY <1>1, LoaderState
<1>3. /\ op' = op /\ stage' = (IF o = 0 THEN stage ELSE Append(stage, t))
      /\ \E sizes \in SUBSET Locations : loader' = [loader EXCEPT !.sizes = sizes]
  <2>1. (IF o = 0 /\ h.final THEN loader.sizes \cup {h.loc} ELSE loader.sizes) \in SUBSET Locations
    BY <1>1, LoaderState
  <2> QED
    BY <2>1 DEF RunData
<1>4. LoaderType' /\ loader'.queue = loader.queue /\ loader'.paths = loader.paths
  BY <1>3, SameWorld DEF Inv, Types, LoaderType
<1>5. op' \in [Ids -> Operations] /\ prefs' \in [Locations -> Preferences] /\ AtType'
  BY <1>3, LoaderState, SameWorld DEF Inv, Types, PrefsType
<1>6. o # 0 => t \in StageTasks /\ t.o = o
  BY <1>1, <1>2, LoaderState DEF StageTasks
<1>7. t.do = "data"
  OBVIOUS
<1> HIDE DEF t, o, h
<1>8. StageType'
  <2>1. CASE o = 0
    BY <1>3, <2>1, SameWorld DEF Inv, Types
  <2>2. CASE o # 0
    BY <1>2, <1>3, <1>6, <2>2, StageAppended
  <2> QED
    BY <2>1, <2>2
<1>9. \A p \in Ids : View(p, Of(p), op'[p], Mine(wire, p), stage', Kind(p, at'), Pending(p, at'))
  <2> SUFFICES ASSUME NEW p \in Ids
               PROVE  View(p, Of(p), op[p], Mine(wire, p), stage', Kind(p, at), Pending(p, at))
    BY <1>3
  <2> DEFINE m == Mine(wire, p)
             k == Kind(p, at)
             n == Pending(p, at)
  <2>1. Typed(p, Of(p), op[p], m, stage, k, n) /\ View(p, Of(p), op[p], m, stage, k, n)
    BY LoaderState
  <2> HIDE DEF m, k, n
  <2>2. CASE o = 0
    BY <1>3, <2>1, <2>2 DEF m, k, n
  <2>3. CASE o # 0 /\ o = p
    BY <1>3, <1>6, <1>7, <2>1, <2>3, OwnAppended DEF m, k, n
  <2>4. CASE o # 0 /\ o # p
    BY <1>3, <1>6, <2>1, <2>4, OtherAppended DEF m, k, n
  <2> QED
    BY <2>2, <2>3, <2>4
<1>10. \A p \in Ids : Unknown(p) => Unknown(p)'
  BY <1>3, <1>4, SameWorld DEF Unknown
<1> QED
  BY <1>1, <1>4, <1>5, <1>8, <1>9, <1>10, LoaderStep

LEMMA RunNetworkInv ==
    ASSUME Inv, tasks # <<>>, Head(tasks).do = "network", RunNetwork(Head(tasks).slow),
           tasks' = Tail(tasks), UNCHANGED <<world, app, at, prefs, wire, server, made>>,
           mixed' = mixed \cup Mixing
    PROVE  Inv'
<1> DEFINE slow == Head(tasks).slow
           running == {o \in Ids : loader.paths[Of(o).loc] = o /\ op[o].state = 1}
           c == Cardinality(running)
<1>1. /\ slow \in BOOLEAN
      /\ Tail(tasks) \in Seq(LoaderTasks) /\ ToldOnce(Tail(tasks), app.uploads)
      /\ \A p : Waiting(p, Tail(tasks), app.uploads) => Waiting(p, tasks, app.uploads)
  BY LoaderFacts, LoaderTaskFields
<1>2. c \in Nat
  <2>1. IsFiniteSet(Ids)
    BY LoaderState, FS_Interval
  <2>2. running \subseteq Ids
    OBVIOUS
  <2> HIDE DEF running
  <2> QED
    BY <2>1, <2>2, FS_Subset, FS_CardinalityType
<1>3. PICK order \in [1..c -> running] :
          stage' = stage \o [i \in DOMAIN order |-> [do |-> "network", slow |-> slow, o |-> order[i]]]
  BY DEF RunNetwork
<1>4. op' = op /\ loader' = loader
  BY DEF RunNetwork
<1> DEFINE more == [i \in 1..c |-> [do |-> "network", slow |-> slow, o |-> order[i]]]
<1>5. stage' = stage \o more
  BY <1>3
<1>6. \A i \in 1..c : order[i] \in Ids /\ op[order[i]].state = 1
  BY <1>3
<1>7. more \in [1..c -> StageTasks]
  BY <1>1, <1>6, LoaderState DEF StageTasks
<1>8. \A i \in 1..c : more[i].do = "network" /\ more[i].o \in Ids /\ op[more[i].o].state = 1
  BY <1>6
<1> HIDE DEF more, c, slow, running
<1>9. StageType'
  <2>1. /\ stage \in Seq(StageTasks) /\ more \in Seq(StageTasks) /\ Len(more) = c
        /\ \A i \in DOMAIN stage : stage[i].o \in Ids
    BY <1>2, <1>7, LoaderState
  <2>2. stage' \in Seq(StageTasks)
    BY <1>5, <2>1
  <2>3. \A i \in DOMAIN stage' : stage'[i].o \in Ids
    <3> SUFFICES ASSUME NEW i \in 1..Len(stage) + c PROVE stage'[i].o \in Ids
      BY <1>5, <2>1
    <3>1. CASE i \in 1..Len(stage)
      BY <1>5, <2>1, <3>1
    <3>2. CASE i \notin 1..Len(stage)
      <4>1. i - Len(stage) \in 1..c /\ stage'[i] = more[i - Len(stage)]
        BY <1>2, <1>5, <2>1, <3>2
      <4> QED
        BY <1>8, <4>1
    <3> QED
      BY <3>1, <3>2
  <2> QED
    BY <2>2, <2>3, SameWorld DEF StageType
<1>10. \A p \in Ids : View(p, Of(p), op'[p], Mine(wire, p), stage', Kind(p, at'), Pending(p, at'))
  <2> SUFFICES ASSUME NEW p \in Ids
               PROVE  View(p, Of(p), op[p], Mine(wire, p), stage \o more, Kind(p, at), Pending(p, at))
    BY <1>4, <1>5
  <2>1. \A i \in 1..c : more[i].do = "network" /\ (more[i].o = p => op[p].state = 1)
    BY <1>8
  <2> QED
    BY <1>2, <1>7, <2>1, LoaderState, NetworkAppended
<1>11. op' \in [Ids -> Operations] /\ prefs' \in [Locations -> Preferences] /\ AtType' /\ LoaderType'
  BY <1>4, LoaderState, SameWorld DEF Inv, Types, PrefsType
<1>12. \A p \in Ids : Unknown(p) => Unknown(p)'
  BY <1>4, SameWorld DEF Unknown
<1> QED
  BY <1>1, <1>9, <1>10, <1>11, <1>12, LoaderStep

LEMMA RunEndInv ==
    ASSUME Inv, tasks # <<>>, Head(tasks).do \in {"failed", "finished"},
           RunEnd(Head(tasks).o, Head(tasks).do),
           tasks' = Tail(tasks), UNCHANGED <<world, app, at, prefs, wire, server, made>>,
           mixed' = mixed \cup Mixing
    PROVE  Inv'
<1> DEFINE o     == Head(tasks).o
           count == loader.count - 1
           next  == count < 1 /\ loader.queue # <<>>
           out   == IF op[o].outcome = "none" THEN Head(tasks).do ELSE op[o].outcome
           first == Head(loader.queue)
           w     == [op[o] EXCEPT !.outcome = out]
           ended == [op EXCEPT ![o] = w]
           now   == next /\ op[first].state = 0
           paths == [loader.paths EXCEPT ![Of(o).loc] = 0]
           c     == IF next THEN count + 1 ELSE count
           queue == IF next THEN Tail(loader.queue) ELSE loader.queue
<1>1. /\ o \in Ids
      /\ Tail(tasks) \in Seq(LoaderTasks) /\ ToldOnce(Tail(tasks), app.uploads)
      /\ \A p : Waiting(p, Tail(tasks), app.uploads) => Waiting(p, tasks, app.uploads)
  BY LoaderFacts, LoaderTaskFields
<1>2. /\ loader' = [loader EXCEPT !.paths = paths, !.count = c, !.queue = queue]
      /\ op' = (IF next THEN [ended EXCEPT ![first].state = IF @ = 0 THEN 1 ELSE @] ELSE ended)
      /\ stage' = (IF now THEN Append(stage, [do |-> "start", o |-> first]) ELSE stage)
  BY DEF RunEnd
<1>3. w \in Operations /\ Alike(op[o], w)
  <2>1. op[o] \in Operations
    BY <1>1, LoaderState
  <2>2. out \in {"none", "finished", "failed", "refused"}
    BY <2>1 DEF Operations
  <2> HIDE DEF out, o
  <2> QED
    BY <2>1, <2>2 DEF Operations, Alike
<1> HIDE DEF w, out
<1>4. ended \in [Ids -> Operations] /\ \A p \in Ids : Alike(op[p], ended[p]) /\ ended[p].state = op[p].state
  <2>1. \A p \in Ids : ended[p] = IF p = o THEN w ELSE op[p]
    BY <1>1, LoaderState
  <2>2. \A p \in Ids : Alike(op[p], op[p])
    BY DEF Alike
  <2>3. op \in [Ids -> Operations]
    BY LoaderState
  <2> HIDE DEF o
  <2>4. ended \in [Ids -> Operations]
    BY <1>1, <1>3, <2>3
  <2> HIDE DEF ended
  <2>5. \A p \in Ids : Alike(op[p], ended[p])
    BY <1>3, <2>1, <2>2
  <2> QED
    BY <2>4, <2>5 DEF Alike
<1> HIDE DEF ended, o
<1>5. next => first \in Ids /\ Tail(loader.queue) \in Seq(Ids)
              /\ 1 \in DOMAIN loader.queue /\ first = loader.queue[1]
  <2>1. loader.queue \in Seq(Ids)
    BY LoaderState
  <2> QED
    BY <2>1
<1>6. queue \in Seq(Ids) /\ \A i \in DOMAIN queue : \E j \in DOMAIN loader.queue : loader.queue[j] = queue[i]
  <2>1. loader.queue \in Seq(Ids)
    BY LoaderState
  <2>2. loader.queue # <<>> => \A i \in DOMAIN Tail(loader.queue) :
            i + 1 \in DOMAIN loader.queue /\ Tail(loader.queue)[i] = loader.queue[i + 1]
    BY <2>1
  <2> HIDE DEF count
  <2> QED
    BY <1>5, <2>1, <2>2
<1>7. /\ c \in Int /\ paths \in [Locations -> Ids \cup {0}]
      /\ \A k \in Locations : paths[k] = 0 \/ paths[k] = loader.paths[k]
  BY <1>1, LoaderState
<1> HIDE DEF queue, c, paths
<1>8. /\ loader'.queue = queue /\ loader'.paths = paths /\ LoaderType'
  <2>1. /\ loader'.queue = queue /\ loader'.paths = paths
        /\ loader' \in [queue : Seq(Ids), count : Int, paths : [Locations -> Ids \cup {0}],
                        sizes : SUBSET Locations]
    BY <1>2, <1>6, <1>7, LoaderState
  <2>2. \A k \in Locations : paths[k] # 0 => Of(paths[k]).loc = k
    BY <1>7, LoaderState
  <2> QED
    BY <2>1, <2>2, SameWorld DEF LoaderType
<1> DEFINE v == [ended[first] EXCEPT !.state = 1]
<1>9. op' \in [Ids -> Operations]
      /\ \A p \in Ids : op'[p] = IF now /\ p = first THEN v ELSE ended[p]
  <2>1. CASE now
    <3>1. op' = [ended EXCEPT ![first] = [ended[first] EXCEPT !.state = IF @ = 0 THEN 1 ELSE @]]
      BY <1>2, <2>1
    <3>2. ended[first].state = 0 /\ first \in Ids
      BY <1>4, <1>5, <2>1
    <3>3. op' = [ended EXCEPT ![first] = v]
      BY <3>1, <3>2
    <3>4. v \in Operations
      BY <1>4, <3>2, StartFields
    <3> HIDE DEF v, first, next
    <3> QED
      BY <1>4, <2>1, <3>2, <3>3, <3>4
  <2>2. CASE next /\ ~now
    <3>1. op' = [ended EXCEPT ![first] = [ended[first] EXCEPT !.state = IF @ = 0 THEN 1 ELSE @]]
      BY <1>2, <2>2
    <3>2. ended[first].state # 0 /\ ended[first] \in Operations
      BY <1>4, <1>5, <2>2
    <3> HIDE DEF first
    <3>3. [ended[first] EXCEPT !.state = IF @ = 0 THEN 1 ELSE @] = ended[first]
      BY <3>2 DEF Operations
    <3>4. op' = ended
      BY <1>4, <3>1, <3>3
    <3> QED
      BY <1>4, <2>2, <3>4
  <2>3. CASE ~next
    BY <1>2, <1>4, <2>3
  <2> QED
    BY <2>1, <2>2, <2>3
<1> DEFINE t == [do |-> "start", o |-> first]
<1>10. now => t \in StageTasks /\ t.o = first /\ first \in Ids
  BY <1>5, LoaderState DEF StageTasks
<1>11. StageType'
  <2>1. CASE now
    <3> HIDE DEF first
    <3> QED
      BY <1>2, <1>10, <2>1, StageAppended
  <2>2. CASE ~now
    BY <1>2, <2>2, SameWorld DEF Inv, Types
  <2> QED
    BY <2>1, <2>2
<1>12. \A p \in Ids : View(p, Of(p), op'[p], Mine(wire, p), stage', Kind(p, at'), Pending(p, at'))
  <2> SUFFICES ASSUME NEW p \in Ids
               PROVE  View(p, Of(p), op'[p], Mine(wire, p), stage', Kind(p, at), Pending(p, at))
    OBVIOUS
  <2> DEFINE m == Mine(wire, p)
             k == Kind(p, at)
             n == Pending(p, at)
             u == ended[p]
  <2>1. Typed(p, Of(p), op[p], m, stage, k, n) /\ View(p, Of(p), op[p], m, stage, k, n)
    BY LoaderState
  <2>2. k = "idle" => n = 0
    BY DEF Kind, Pending
  <2>3. u \in Operations /\ Alike(op[p], u) /\ u.state = op[p].state
    BY <1>4
  <2> HIDE DEF m, k, n, u
  <2>4. Typed(p, Of(p), u, m, stage, k, n) /\ View(p, Of(p), u, m, stage, k, n)
    BY <2>1, <2>3, AlikeView DEF Typed
  <2>5. CASE now /\ p = first
    <3>1. op'[p] = [u EXCEPT !.state = 1] /\ u.state = 0
      BY <1>9, <2>3, <2>5 DEF u
    <3>2. stage' = Append(stage, [do |-> "start", o |-> p])
      BY <1>2, <2>5
    <3>3. Blank(u) /\ Flags(u) /\ n = 0
      BY <2>2, <2>4, <3>1 DEF View, Untaken
    <3>4. op'[p] \in Operations /\ op'[p].state = 1 /\ Blank(op'[p]) /\ Flags(op'[p])
      BY <2>3, <3>1, <3>3, StartFields
    <3> HIDE DEF first, next
    <3> QED
      BY <2>4, <3>1, <3>2, <3>3, <3>4, Started DEF m, k, n
  <2>6. CASE now /\ p # first
    <3>1. op'[p] = u /\ stage' = Append(stage, t) /\ t.o # p
      BY <1>2, <1>9, <2>6 DEF u
    <3>2. t \in StageTasks
      BY <1>10, <2>6
    <3> HIDE DEF t, first, next
    <3> QED
      BY <2>4, <3>1, <3>2, OtherAppended DEF m, k, n
  <2>7. CASE ~now
    <3>1. op'[p] = u /\ stage' = stage
      BY <1>2, <1>9, <2>7 DEF u
    <3> QED
      BY <2>4, <3>1 DEF m, k, n
  <2> QED
    BY <2>5, <2>6, <2>7
<1>13. \A p \in Ids : Waiting(p, tasks', app.uploads) =>
            Waiting(p, tasks, app.uploads) /\ (Unknown(p) => Unknown(p)')
  <2> SUFFICES ASSUME NEW p \in Ids, Unknown(p) PROVE Unknown(p)'
    BY <1>1
  <2>1. p # first \/ ~now
    BY <1>5 DEF Unknown
  <2>2. op'[p].state = 0
    BY <1>4, <1>9, <2>1 DEF Unknown
  <2>3. Of(p).loc \in Locations /\ p # 0
    BY LoaderState
  <2>4. paths[Of(p).loc] # p
    BY <1>7, <2>3 DEF Unknown
  <2>5. \A i \in DOMAIN queue : queue[i] # p
    BY <1>6 DEF Unknown
  <2> QED
    BY <1>8, <2>2, <2>4, <2>5, SameWorld DEF Unknown
<1>14. prefs' \in [Locations -> Preferences] /\ AtType'
  BY SameWorld DEF Inv, Types, PrefsType
<1> QED
  BY <1>1, <1>8, <1>9, <1>11, <1>12, <1>13, <1>14, LoaderStep

LEMMA CleanUpType ==
    ASSUME Inv, NEW o \in Ids
    PROVE  CleanUp(o) \in [Locations -> Preferences]
<1>1. Of(o).loc \in Locations /\ prefs \in [Locations -> Preferences]
  BY LoaderState DEF Inv, Types, PrefsType
<1>2. NoPrefs \in Preferences
  BY DEF NoPrefs, Preferences
<1> QED
  BY <1>1, <1>2 DEF CleanUp

LEMMA RunCancelInv ==
    ASSUME Inv, tasks # <<>>, Head(tasks).do = "cancel", RunCancel(Head(tasks).loc),
           UNCHANGED <<world, app, wire, server, made>>, mixed' = mixed \cup Mixing
    PROVE  Inv'
<1> DEFINE l     == Head(tasks).loc
           o     == loader.paths[l]
           now   == o # 0 /\ op[o].state # 3
           sizes == loader.sizes \ {l}
           queue == RemoveFirst(loader.queue, o)
           paths == [loader.paths EXCEPT ![l] = IF o # 0 /\ Of(o).enc THEN 0 ELSE @]
           v     == Stops(op[o], 2)
           t     == [do |-> "cancel", o |-> o]
           told  == [do |-> "failed", o |-> o]
           late  == at.late \/ (at.kind # "idle" /\ op[o].state = 1)
<1>1. /\ l \in Locations
      /\ Tail(tasks) \in Seq(LoaderTasks) /\ ToldOnce(Tail(tasks), app.uploads)
      /\ \A p : Waiting(p, Tail(tasks), app.uploads) => Waiting(p, tasks, app.uploads)
  BY LoaderFacts, LoaderTaskFields
<1>2. o \in Ids \cup {0} /\ (o # 0 => o \in Ids /\ Of(o).loc = l)
  BY <1>1, LoaderState
<1>3. /\ loader' = [loader EXCEPT !.sizes = sizes, !.queue = queue, !.paths = paths]
      /\ now => /\ op' = [op EXCEPT ![o] = v] /\ stage' = Append(stage, t)
                /\ tasks' = Append(Tail(tasks), told) /\ prefs' = CleanUp(o)
                /\ at' = IF at.o = o THEN [at EXCEPT !.late = late] ELSE at
      /\ ~now => op' = op /\ stage' = stage /\ tasks' = Tail(tasks) /\ prefs' = prefs /\ at' = at
  BY DEF RunCancel, Stops
<1>4. /\ sizes \in SUBSET Locations /\ paths \in [Locations -> Ids \cup {0}]
      /\ \A k \in Locations : paths[k] = 0 \/ paths[k] = loader.paths[k]
  BY <1>1, LoaderState
<1>5. queue \in Seq(Ids) /\ \A p \in Ids : (\A i \in DOMAIN loader.queue : loader.queue[i] # p)
                                               => \A i \in DOMAIN queue : queue[i] # p
  <2>1. loader.queue \in Seq(Ids)
    BY LoaderState
  <2>2. ASSUME NEW p \in Ids, \A i \in DOMAIN loader.queue : loader.queue[i] # p
        PROVE  \A i \in DOMAIN queue : queue[i] # p
    <3>1. loader.queue \in Seq(Ids \ {p})
      BY <2>1, <2>2
    <3> HIDE DEF o
    <3>2. queue \in Seq(Ids \ {p})
      BY <3>1, RemoveFirstType
    <3> HIDE DEF queue
    <3> QED
      BY <3>2
  <2> HIDE DEF o
  <2> QED
    BY <2>1, <2>2, RemoveFirstType
<1> HIDE DEF sizes, queue, paths
<1>6. loader'.queue = queue /\ loader'.paths = paths /\ LoaderType'
  <2>1. /\ loader'.queue = queue /\ loader'.paths = paths
        /\ loader' \in [queue : Seq(Ids), count : Int, paths : [Locations -> Ids \cup {0}],
                        sizes : SUBSET Locations]
    BY <1>3, <1>4, <1>5, LoaderState
  <2>2. \A k \in Locations : paths[k] # 0 => Of(paths[k]).loc = k
    BY <1>4, LoaderState
  <2> QED
    BY <2>1, <2>2, SameWorld DEF LoaderType
<1>7. \A p \in Ids : Unknown(p) => /\ ~(now /\ p = o) /\ paths[Of(p).loc] # p
                                   /\ \A i \in DOMAIN queue : queue[i] # p
  <2> SUFFICES ASSUME NEW p \in Ids, Unknown(p)
               PROVE  ~(now /\ p = o) /\ paths[Of(p).loc] # p /\ \A i \in DOMAIN queue : queue[i] # p
    OBVIOUS
  <2>1. Of(p).loc \in Locations /\ p # 0
    BY LoaderState
  <2>2. ~(now /\ p = o)
    BY <1>2 DEF Unknown
  <2> HIDE DEF now, o
  <2> QED
    BY <1>4, <1>5, <2>1, <2>2 DEF Unknown
<1>8. CASE now
  <2>1. o \in Ids /\ o # 0
    BY <1>2, <1>8
  <2>2. v \in Operations /\ v.state = 2 /\ v.guid = op[o].guid /\ (Blank(op[o]) => Blank(v)) /\ Flags(v)
    <3>1. op[o] \in Operations /\ Flags(op[o])
      BY <2>1, LoaderState DEF View
    <3>2. 2 \in 2..4
      OBVIOUS
    <3> HIDE DEF o
    <3> QED
      BY <3>1, <3>2, StopFields
  <2>3. t \in StageTasks /\ t.o = o /\ t.do = "cancel"
    BY <2>1, LoaderState DEF StageTasks
  <2>4. told \in LoaderTasks /\ told.do # "upload"
    BY <2>1 DEF LoaderTasks
  <2>5. tasks' \in Seq(LoaderTasks) /\ ToldOnce(tasks', app.uploads)
        /\ \A p : Waiting(p, tasks', app.uploads) => Waiting(p, tasks, app.uploads)
    <3>1. app.uploads \in Nat
      BY LoaderState DEF Inv, Types, AppType
    <3> HIDE DEF told
    <3>2. /\ Append(Tail(tasks), told) \in Seq(LoaderTasks)
          /\ ToldOnce(Append(Tail(tasks), told), app.uploads)
          /\ \A p : Waiting(p, Append(Tail(tasks), told), app.uploads) => Waiting(p, Tail(tasks), app.uploads)
      BY <1>1, <2>4, <3>1, TaskPosted
    <3> QED
      BY <1>1, <1>3, <1>8, <3>2
  <2>6. AtType' /\ at'.kind = at.kind /\ at'.o = at.o /\ at'.left = at.left
    <3>1. at \in Places /\ AtType
      BY DEF Inv, Types, AtType
    <3>2. late \in BOOLEAN
      BY <3>1 DEF Places
    <3> HIDE DEF late, o
    <3>3. at' \in Places /\ at'.kind = at.kind /\ at'.o = at.o /\ at'.left = at.left
      BY <1>3, <1>8, <3>1, <3>2 DEF Places
    <3> QED
      BY <3>1, <3>3, SameWorld DEF AtType
  <2>7. StageType'
    <3> HIDE DEF t
    <3> QED
      BY <1>3, <1>8, <2>1, <2>3, StageAppended
  <2> HIDE DEF v
  <2>8. op' \in [Ids -> Operations] /\ op'[o] = v /\ \A p \in Ids : p # o => op'[p] = op[p]
    <3>1. op \in [Ids -> Operations] /\ op' = [op EXCEPT ![o] = v] /\ v \in Operations /\ o \in Ids
      BY <1>3, <1>8, <2>1, <2>2, LoaderState
    <3> QED
      BY ONLY <3>1
  <2>9. \A p \in Ids : View(p, Of(p), op'[p], Mine(wire, p), stage', Kind(p, at'), Pending(p, at'))
    <3> SUFFICES ASSUME NEW p \in Ids
                 PROVE  View(p, Of(p), op'[p], Mine(wire, p), Append(stage, t), Kind(p, at), Pending(p, at))
      BY <1>3, <1>8, <2>6 DEF Kind, Pending
    <3> DEFINE m == Mine(wire, p)
               k == Kind(p, at)
               n == Pending(p, at)
    <3>1. Typed(p, Of(p), op[p], m, stage, k, n) /\ View(p, Of(p), op[p], m, stage, k, n)
      BY LoaderState
    <3> HIDE DEF m, k, n, t
    <3>2. CASE p = o
      <4>1. op'[p] = v
        BY <2>8, <3>2
      <4> HIDE DEF o
      <4>2. View(p, Of(p), v, m, stage, k, n)
        BY <2>2, <3>1, <3>2, Stopped
      <4>3. Typed(p, Of(p), v, m, stage, k, n)
        BY <2>2, <3>1 DEF Typed
      <4> QED
        BY <2>2, <2>3, <3>2, <4>1, <4>2, <4>3, OwnAppended DEF m, k, n
    <3>3. CASE p # o
      <4>1. op'[p] = op[p]
        BY <2>8, <3>3
      <4> HIDE DEF o
      <4> QED
        BY <2>3, <3>1, <3>3, <4>1, OtherAppended DEF m, k, n
    <3> QED
      BY <3>2, <3>3
  <2>10. \A p \in Ids : Unknown(p) => Unknown(p)'
    <3> SUFFICES ASSUME NEW p \in Ids, Unknown(p) PROVE Unknown(p)'
      OBVIOUS
    <3>1. op'[p].state = 0
      BY <1>7, <1>8, <2>8 DEF Unknown
    <3> QED
      BY <1>6, <1>7, <3>1, SameWorld DEF Unknown
  <2>11. prefs' \in [Locations -> Preferences]
    BY <1>3, <1>8, <2>1, CleanUpType
  <2> HIDE DEF now, o
  <2> QED
    BY <1>6, <2>5, <2>6, <2>7, <2>8, <2>9, <2>10, <2>11, LoaderStep
<1>9. CASE ~now
  <2>1. op' = op /\ stage' = stage /\ tasks' = Tail(tasks) /\ prefs' = prefs /\ at' = at
    BY <1>3, <1>9
  <2> HIDE DEF now, o
  <2>2. /\ op' \in [Ids -> Operations] /\ prefs' \in [Locations -> Preferences]
        /\ AtType' /\ StageType'
    BY <2>1, LoaderState, SameWorld DEF Inv, Types, PrefsType
  <2>3. \A p \in Ids : View(p, Of(p), op'[p], Mine(wire, p), stage', Kind(p, at'), Pending(p, at'))
    BY <2>1, LoaderState
  <2>4. \A p \in Ids : Unknown(p) => Unknown(p)'
    BY <1>6, <1>7, <2>1, SameWorld DEF Unknown
  <2> QED
    BY <1>1, <1>6, <2>1, <2>2, <2>3, <2>4, LoaderStep
<1> QED
  BY <1>8, <1>9

LEMMA RunLoaderTaskInv == Inv /\ RunLoaderTask => Inv'
<1> SUFFICES ASSUME Inv, RunLoaderTask PROVE Inv'
  OBVIOUS
<1> DEFINE t == Head(tasks)
<1>1. /\ tasks # <<>> /\ mixed' = mixed \cup Mixing
      /\ UNCHANGED <<world, app, wire, server, made>>
  BY DEF RunLoaderTask
<1>2. t \in LoaderTasks
  BY <1>1, LoaderFacts
<1>3. CASE t.do = "cancel"
  <2>1. RunCancel(t.loc)
    BY <1>3 DEF RunLoaderTask
  <2> QED
    BY <1>1, <1>3, <2>1, RunCancelInv
<1>4. CASE t.do # "cancel"
  <2>1. tasks' = Tail(tasks) /\ prefs' = prefs /\ at' = at
    BY <1>4 DEF RunLoaderTask
  <2>2. CASE t.do = "upload"
    <3>1. RunUpload(t.o)
      BY <2>2 DEF RunLoaderTask
    <3> QED
      BY <1>1, <2>1, <2>2, <3>1, RunUploadInv
  <2>3. CASE t.do = "data"
    <3>1. RunData(t)
      BY <2>3 DEF RunLoaderTask
    <3> QED
      BY <1>1, <2>1, <2>3, <3>1, RunDataInv
  <2>4. CASE t.do = "network"
    <3>1. RunNetwork(t.slow)
      BY <2>4 DEF RunLoaderTask
    <3> QED
      BY <1>1, <2>1, <2>4, <3>1, RunNetworkInv
  <2>5. CASE t.do \in {"failed", "finished"}
    <3>1. RunEnd(t.o, t.do)
      BY <2>5 DEF RunLoaderTask
    <3> QED
      BY <1>1, <2>1, <2>5, <3>1, RunEndInv
  <2> QED
    BY <1>2, <1>4, <2>2, <2>3, <2>4, <2>5, LoaderTaskFields
<1> QED
  BY <1>3, <1>4

-----------------------------------------------------------------------------
(* The stage queue, the network and the server.                              *)
LEMMA StageStep ==
    ASSUME Inv, UNCHANGED <<world, app, loader>>, op' \in [Ids -> Operations],
           \A p \in Ids : op[p].state = 0 => op'[p].state = 0,
           tasks' = tasks \/ \E t \in LoaderTasks : t.do # "upload" /\ tasks' = Append(tasks, t),
           StageType', AtType', prefs' \in [Locations -> Preferences], WireType',
           server' \in SUBSET Parts, made' \in Seq(Identifiers), mixed' \in SUBSET Locations,
           \A p \in Ids :
              View(p, Of(p), op'[p], Mine(wire', p), stage', Kind(p, at'), Pending(p, at'))
    PROVE  Inv'
<1>1. /\ tasks' \in Seq(LoaderTasks) /\ ToldOnce(tasks', app.uploads)
      /\ \A p : Waiting(p, tasks', app.uploads) => Waiting(p, tasks, app.uploads)
  <2>1. tasks \in Seq(LoaderTasks) /\ ToldOnce(tasks, app.uploads)
    BY DEF Inv, Types, TasksType, TakenOnce
  <2>2. CASE tasks' = tasks
    BY <2>1, <2>2
  <2>3. CASE \E t \in LoaderTasks : t.do # "upload" /\ tasks' = Append(tasks, t)
    BY <2>1, <2>3, TaskPosted
  <2> QED
    BY <2>2, <2>3
<1>2. OpType' /\ TasksType' /\ PrefsType' /\ ServerType' /\ MadeType' /\ MixedType'
  BY <1>1, SameWorld DEF OpType, TasksType, PrefsType, ServerType, MadeType, MixedType
<1>3. Types'
  BY <1>2, SameWorld DEF Inv, Types
<1>4. Views'
  BY ViewsStep DEF Inv
<1>5. Untouched' /\ TakenOnce'
  <2>1. \A p \in Ids : Unknown(p) => Unknown(p)'
    BY SameWorld DEF Unknown
  <2>2. Untouched'
    BY <1>1, <2>1, UntouchedStep DEF Inv
  <2> QED
    BY <1>1, <2>2 DEF TakenOnce, ToldOnce
<1> QED
  BY <1>3, <1>4, <1>5 DEF Inv

(* The rest of the state stays.                                              *)
LEMMA StageState ==
    ASSUME Inv
    PROVE  /\ stage \in Seq(StageTasks) /\ at \in Places /\ at.left \in 0..MaxFast
           /\ (at.kind # "idle" => at.o \in Ids) /\ (at.kind = "send" => at.left >= 1)
           /\ prefs \in [Locations -> Preferences] /\ server \in SUBSET Parts
           /\ wire \in SUBSET Requests /\ IsFiniteSet(wire) /\ (\A r \in wire : r.o \in Ids)
           /\ made \in Seq(Identifiers) /\ Len(made) \in Nat /\ mixed \in SUBSET Locations
           /\ \A o \in Ids : Of(o) \in Uploads /\ Of(o).loc \in Locations
<1>1. made \in Seq(Identifiers)
  BY DEF Inv, Types, MadeType
<1>2. Len(made) \in Nat
  BY <1>1
<1>3. /\ stage \in Seq(StageTasks) /\ at \in Places /\ at.left \in 0..MaxFast
      /\ (at.kind # "idle" => at.o \in Ids) /\ (at.kind = "send" => at.left >= 1)
      /\ prefs \in [Locations -> Preferences] /\ server \in SUBSET Parts
  BY DEF Inv, Types, StageType, AtType, PrefsType, ServerType
<1>4. /\ wire \in SUBSET Requests /\ IsFiniteSet(wire) /\ (\A r \in wire : r.o \in Ids)
      /\ mixed \in SUBSET Locations
  BY DEF Inv, Types, WireType, MixedType
<1> QED
  BY <1>1, <1>2, <1>3, <1>4, WorldFacts DEF Inv, Types

LEMMA CalledIs ==
    ASSUME Inv, at.kind = "send", at' = Called, world' = world
    PROVE  /\ AtType'
           /\ Kind(at.o, at') \in {"idle", "send"} /\ (at.left = 1 => Kind(at.o, at') = "idle")
           /\ (at.left # 1 => Kind(at.o, at') = "send")
           /\ Pending(at.o, at') = at.left - 1
           /\ \A p : p # at.o => /\ Kind(p, at') = Kind(p, at) /\ Pending(p, at') = Pending(p, at)
<1>1. at \in Places /\ at.left \in 0..MaxFast /\ at.o \in Ids /\ at.left >= 1 /\ at.left \in Nat
  BY StageState
<1> DEFINE left == at.left - 1
           kind == IF at.left = 1 THEN "idle" ELSE at.kind
<1>2. left \in 0..MaxFast /\ left \in Int
  BY <1>1, UploadAssumption
<1>3. at' = [at EXCEPT !.left = left, !.late = FALSE, !.kind = kind]
  BY DEF Called
<1>4. kind \in {"idle", "send"}
  OBVIOUS
<1>5. at.left # 1 => kind = "send" /\ left >= 1
  BY <1>1
<1>6. at.left = 1 => kind = "idle" /\ left = 0
  BY <1>1
<1> HIDE DEF left, kind
<1>7. at' \in Places /\ at'.o = at.o /\ at'.left = left /\ at'.kind = kind
  BY <1>1, <1>2, <1>3, <1>4 DEF Places
<1>8. AtType'
  <2>1. at'.kind = "send" => at'.left >= 1
    BY <1>5, <1>6, <1>7
  <2> QED
    BY <1>1, <1>2, <1>7, <2>1, SameWorld DEF AtType
<1>9. Pending(at.o, at') = left
  BY <1>5, <1>6, <1>7 DEF Pending
<1>10. /\ Kind(at.o, at') = kind
       /\ \A p : p # at.o => /\ Kind(p, at') = Kind(p, at) /\ Pending(p, at') = Pending(p, at)
  BY <1>7 DEF Kind, Pending
<1> QED
  BY <1>4, <1>5, <1>6, <1>8, <1>9, <1>10 DEF left

(* An upload that the stage queue is about to do something for.              *)
LEMMA Inside ==
    ASSUME NEW o, NEW f, NEW u, NEW m, NEW s, NEW k, NEW n, View(o, f, u, m, s, k, n), k # "idle"
    PROVE  u.state # 0 /\ \A j \in DOMAIN s : ~Starts(s, o, j)
BY DEF View, Untaken, Prepared

LEMMA FailIs ==
    ASSUME Inv, NEW o \in Ids, op[o].state # 0, \A j \in DOMAIN stage : ~Starts(stage, o, j), Fail(o)
    PROVE  /\ op' \in [Ids -> Operations] /\ (\A p \in Ids : p # o => op'[p] = op[p])
           /\ op'[o] \in Operations /\ op'[o].state = 4 /\ op'[o].guid = op[o].guid
           /\ (Blank(op[o]) => Blank(op'[o])) /\ Flags(op'[o])
           /\ (\E t \in LoaderTasks : t.do # "upload" /\ tasks' = Append(tasks, t))
           /\ prefs' \in [Locations -> Preferences]
<1>1. op \in [Ids -> Operations] /\ op[o] \in Operations /\ Flags(op[o])
  BY LoaderState DEF View
<1>2. op' = [op EXCEPT ![o] = Stops(op[o], 4)]
  BY DEF Fail, Stops
<1>3. 4 \in 2..4
  OBVIOUS
<1> DEFINE v == Stops(op[o], 4)
<1>4. v \in Operations /\ v.state = 4 /\ v.guid = op[o].guid /\ (Blank(op[o]) => Blank(v)) /\ Flags(v)
  BY <1>1, <1>3, StopFields
<1> HIDE DEF v
<1>5. op' \in [Ids -> Operations] /\ op'[o] = v /\ \A p \in Ids : p # o => op'[p] = op[p]
  BY <1>1, <1>2, <1>4 DEF v
<1>6. \E t \in LoaderTasks : t.do # "upload" /\ tasks' = Append(tasks, t)
  <2>1. [do |-> "failed", o |-> o] \in LoaderTasks
    BY DEF LoaderTasks
  <2> QED
    BY <2>1 DEF Fail
<1>7. prefs' \in [Locations -> Preferences]
  BY CleanUpType DEF Fail
<1> QED
  BY <1>4, <1>5, <1>6, <1>7

LEMMA UsesType ==
    ASSUME Inv, NEW v \in Operations, NEW f \in Uploads
    PROVE  Uses(v, f) \in Seq(Identifiers)
<1>1. /\ v.pos \in Nat /\ v.part \in Int /\ v.chunk \in Nat /\ f.size \in Nat /\ v.id \in Nat
      /\ v.est \in BOOLEAN /\ v.later \in BOOLEAN /\ f.enc \in BOOLEAN
  BY OperationForm DEF Fields, Uploads
<1>2. v.pos - v.part * v.chunk \in Int
  BY <1>1
<1>3. Cut(v, f) \in Cuts
  BY <1>1, <1>2 DEF Cut, Cuts
<1>4. made \in Seq(Identifiers) /\ Len(made) \in Nat
  BY StageState
<1>5. CASE v.id > Len(made)
  <2>1. [cuts |-> {Cut(v, f)}, early |-> v.est /\ ~v.later /\ ~f.enc] \in Identifiers
    BY <1>1, <1>3 DEF Identifiers
  <2> QED
    BY <1>4, <1>5, <2>1 DEF Uses
<1>6. CASE ~(v.id > Len(made))
  <2> DEFINE cuts == made[v.id].cuts \cup {Cut(v, f)}
  <2>1. CASE v.id \in 1..Len(made)
    <3>1. made[v.id] \in Identifiers
      BY <1>4, <2>1
    <3>2. cuts \in SUBSET Cuts
      BY <1>3, <3>1 DEF Identifiers
    <3> HIDE DEF cuts
    <3>3. [made[v.id] EXCEPT !.cuts = cuts] \in Identifiers
      BY <3>1, <3>2 DEF Identifiers
    <3>4. Uses(v, f) = [made EXCEPT ![v.id] = [made[v.id] EXCEPT !.cuts = cuts]]
      BY <1>6 DEF Uses, cuts
    <3> QED
      BY <1>4, <2>1, <3>3, <3>4
  <2>2. CASE v.id \notin 1..Len(made)
    <3>1. Uses(v, f) = [made EXCEPT ![v.id].cuts = made[v.id].cuts \cup {Cut(v, f)}]
      BY <1>6 DEF Uses
    <3>2. Uses(v, f) = made
      BY <1>4, <2>2, <3>1
    <3> QED
      BY <1>4, <3>2
  <2> QED
    BY <2>1, <2>2
<1> QED
  BY <1>5, <1>6

(* What the third case of startUploadRequest does for the upload it is for.  *)
LEMMA CallView ==
    ASSUME Inv, at.kind = "send", NEW v,
           IF op[at.o].open THEN v = op[at.o] ELSE v \in Opened(at.o)
    PROVE  LET o     == at.o
               f     == Of(o)
               m     == Mine(wire, o)
               reads == ~Waits(v) /\ Bytes(v, f) > 0
           IN /\ v \in Operations /\ v.state = op[o].state
              /\ reads => /\ ReadPart(v, f) \in Operations /\ ReadPart(v, f).state = op[o].state
                          /\ Request(o, v) \in Requests /\ Request(o, v).o = o
              /\ \A l, c : (l = "idle" \/ l = "send") /\ c = at.left - 1 =>
                    View(o, f, IF reads THEN ReadPart(v, f) ELSE v,
                         IF reads THEN m \cup {Request(o, v)} ELSE m, stage, l, c)
<1> DEFINE o     == at.o
           f     == Of(o)
           u     == op[o]
           m     == Mine(wire, o)
           k     == Kind(o, at)
           n     == Pending(o, at)
           reads == ~Waits(v) /\ Bytes(v, f) > 0
<1>1. /\ o \in Ids /\ o \in Nat /\ f \in Uploads /\ u \in Operations /\ Len(made) \in Nat
      /\ prefs[f.loc] \in Preferences
      /\ Typed(o, f, u, m, stage, k, n) /\ View(o, f, u, m, stage, k, n)
  BY StageState, LoaderState
<1>2. k = "send" /\ n = at.left /\ n >= 1
  BY StageState DEF Kind, Pending
<1>3. n \in Nat
  BY <1>1 DEF Typed
<1> HIDE DEF f, u, m, k, n, o
<1>4. v \in Operations /\ v.state = u.state /\ v.open /\ View(o, f, v, m, stage, k, n)
  <2>1. CASE u.open
    BY <1>1, <2>1 DEF u, o
  <2>2. CASE ~u.open
    <3>1. Opens(u, f, v)
      BY <1>1, <2>2, OpenedOpens DEF u, f, o
    <3> QED
      BY <1>1, <1>2, <2>2, <3>1, OpenedView DEF Opens
  <2> QED
    BY <2>1, <2>2
<1>5. Typed(o, f, v, m, stage, k, n)
  BY <1>1, <1>4 DEF Typed
<1>6. v.state # 0 /\ \A j \in DOMAIN stage : ~Starts(stage, o, j)
  BY <1>2, <1>4, Inside
<1>7. CASE reads
  <2> DEFINE w == ReadPart(v, f)
             r == Request(o, v)
  <2>1. Bytes(v, f) > 0
    BY <1>7
  <2>2. w \in Operations /\ w.state = v.state
    BY <1>1, <1>4, <2>1, ReadFields DEF SameFile
  <2>3. RequestFor(r, o, f, v)
    BY <1>1, <1>4, <2>1, RequestIs DEF f
  <2>4. r \in Requests /\ r.o = o
    BY <2>3 DEF RequestFor
  <2> HIDE DEF w, r
  <2>5. \A l : View(o, f, w, m \cup {r}, stage, l, n - 1)
    BY <1>2, <1>4, <1>5, <2>1, <2>3, ReadView DEF w
  <2> QED
    BY <1>2, <1>4, <1>7, <2>2, <2>4, <2>5 DEF w, r, o, f, u, m
<1>8. CASE ~reads
  <2>1. v.state = 1 => v.busy + (n - 1) <= MaxFast
    <3>1. v.state = 1 => v.busy + n <= MaxFast
      BY <1>4 DEF View, Counted
    <3>2. v.busy \in Int
      BY <1>4 DEF Operations
    <3> QED
      BY <1>3, <3>1, <3>2, UploadAssumption
  <2>2. \A l, c : c = n - 1 => View(o, f, v, m, stage, l, c)
    <3> SUFFICES ASSUME NEW l, NEW c, c = n - 1 PROVE View(o, f, v, m, stage, l, c)
      OBVIOUS
    <3>1. v.state = 1 => v.busy + c <= MaxFast
      BY <2>1
    <3> QED
      BY <1>4, <1>5, <1>6, <3>1, Turned
  <2> QED
    BY <1>2, <1>4, <1>8, <2>2 DEF o, f, u, m
<1> QED
  BY <1>7, <1>8

LEMMA StartUploadRequestInv == Inv /\ StartUploadRequest => Inv'
<1> SUFFICES ASSUME Inv, StartUploadRequest PROVE Inv'
  OBVIOUS
<1> DEFINE o == at.o
           f == Of(o)
           k == Kind(o, at)
           n == Pending(o, at)
           l == Kind(o, at')
           c == Pending(o, at')
<1>1. /\ at.kind = "send" /\ at' = Called /\ UNCHANGED <<world, app, loader, stage, server>>
  BY DEF StartUploadRequest
<1>2. /\ o \in Ids /\ f \in Uploads /\ f.loc \in Locations /\ k = "send" /\ n = at.left /\ n \in Nat
      /\ stage \in Seq(StageTasks) /\ StageType'
      /\ server' \in SUBSET Parts
  BY <1>1, StageState, SameWorld DEF Kind, Pending, Inv, Types, StageType
<1>3. /\ AtType' /\ (l = "idle" \/ l = "send") /\ c = at.left - 1
      /\ \A p : p # o => Kind(p, at') = Kind(p, at) /\ Pending(p, at') = Pending(p, at)
  BY <1>1, CalledIs
<1>4. /\ op \in [Ids -> Operations]
      /\ \A p \in Ids : /\ Typed(p, Of(p), op[p], Mine(wire, p), stage, Kind(p, at), Pending(p, at))
                        /\ View(p, Of(p), op[p], Mine(wire, p), stage, Kind(p, at), Pending(p, at))
  BY LoaderState
<1>5. op[o].state # 0 /\ \A j \in DOMAIN stage : ~Starts(stage, o, j)
  BY <1>2, <1>4, Inside
<1> HIDE DEF o, f, k, n, l, c
<1>6. CASE op[o].state # 1 /\ UNCHANGED <<op, tasks, prefs, wire, made, mixed>>
  <2>1. \A p \in Ids : View(p, Of(p), op'[p], Mine(wire', p), stage', Kind(p, at'), Pending(p, at'))
    <3> SUFFICES ASSUME NEW p \in Ids
                 PROVE  View(p, Of(p), op[p], Mine(wire, p), stage, Kind(p, at'), Pending(p, at'))
      BY <1>1, <1>6
    <3>1. CASE p # o
      BY <1>3, <1>4, <3>1
    <3>2. CASE p = o
      BY <1>4, <1>5, <1>6, <3>2, Turned
    <3> QED
      BY <3>1, <3>2
  <2>2. /\ op' \in [Ids -> Operations] /\ prefs' \in [Locations -> Preferences] /\ WireType'
        /\ made' \in Seq(Identifiers) /\ mixed' \in SUBSET Locations
    BY <1>1, <1>4, <1>6, StageState, SameWorld DEF Inv, Types
  <2> QED
    BY <1>1, <1>2, <1>3, <1>6, <2>1, <2>2, StageStep
<1>7. CASE Fail(o) /\ UNCHANGED <<wire, made, mixed>>
  <2>1. /\ op' \in [Ids -> Operations] /\ (\A p \in Ids : p # o => op'[p] = op[p])
        /\ op'[o] \in Operations /\ op'[o].state = 4 /\ op'[o].guid = op[o].guid
        /\ (Blank(op[o]) => Blank(op'[o])) /\ Flags(op'[o])
        /\ (\E t \in LoaderTasks : t.do # "upload" /\ tasks' = Append(tasks, t))
        /\ prefs' \in [Locations -> Preferences]
    BY <1>2, <1>5, <1>7, FailIs
  <2>2. \A p \in Ids : View(p, Of(p), op'[p], Mine(wire', p), stage', Kind(p, at'), Pending(p, at'))
    <3> SUFFICES ASSUME NEW p \in Ids
                 PROVE  View(p, Of(p), op'[p], Mine(wire, p), stage, Kind(p, at'), Pending(p, at'))
      BY <1>1, <1>7
    <3>1. CASE p # o
      BY <1>3, <1>4, <2>1, <3>1
    <3>2. CASE p = o
      <4>1. Kind(p, at) # "idle"
        BY <1>2, <3>2 DEF k
      <4> QED
        BY <1>4, <1>5, <2>1, <3>2, <4>1, Stopped
    <3> QED
      BY <3>1, <3>2
  <2>3. /\ WireType' /\ made' \in Seq(Identifiers) /\ mixed' \in SUBSET Locations
    BY <1>1, <1>7, StageState, SameWorld DEF Inv, Types
  <2>4. \A p \in Ids : op[p].state = 0 => op'[p].state = 0
    BY <1>5, <2>1
  <2> QED
    BY <1>1, <1>2, <1>3, <2>1, <2>2, <2>3, <2>4, StageStep
<1>8. ASSUME NEW v \in IF op[o].open THEN {op[o]} ELSE Opened(o), tasks' = tasks,
             LET reads == ~Waits(v) /\ Bytes(v, f) > 0
             IN /\ op' = [op EXCEPT ![o] = IF reads THEN ReadPart(v, f) ELSE v]
                /\ wire' = IF reads THEN wire \cup {Request(o, v)} ELSE wire
                /\ made' = IF op[o].open THEN made ELSE Uses(v, f)
                /\ prefs' = IF v.id > Len(made) /\ ~v.later /\ ~v.nextFirst /\ ~v.est
                            THEN [prefs EXCEPT ![f.loc] = StoreFileUploadInfo(v)] ELSE prefs
                /\ mixed' = IF ~op[o].open /\ v.later /\ prefs[f.loc].id # 0
                            THEN mixed \cup {f.loc} ELSE mixed
      PROVE  Inv'
  <2> DEFINE m     == Mine(wire, o)
             reads == ~Waits(v) /\ Bytes(v, f) > 0
             w     == IF reads THEN ReadPart(v, f) ELSE v
             r     == Request(o, v)
             q     == IF reads THEN m \cup {r} ELSE m
  <2>1. /\ v \in Operations /\ v.state = op[o].state
        /\ w \in Operations /\ w.state = op[o].state
        /\ reads => r \in Requests /\ r.o = o
        /\ View(o, f, w, q, stage, l, c)
    <3>1. IF op[at.o].open THEN v = op[at.o] ELSE v \in Opened(at.o)
      BY DEF o
    <3> QED
      BY <1>1, <1>3, <3>1, CallView DEF o, f
  <2>2. /\ op' = [op EXCEPT ![o] = w]
        /\ wire' = (IF reads THEN wire \cup {r} ELSE wire)
    BY <1>8
  <2>3. prefs' \in [Locations -> Preferences]
    <3>1. StoreFileUploadInfo(v) \in Preferences
      BY <2>1 DEF StoreFileUploadInfo, Preferences, NoPrefs, Operations
    <3>2. prefs \in [Locations -> Preferences]
      BY StageState
    <3> QED
      BY <1>2, <1>8, <3>1, <3>2
  <2>4. made' \in Seq(Identifiers) /\ mixed' \in SUBSET Locations
    BY <1>2, <1>8, <2>1, StageState, UsesType
  <2> HIDE DEF w, reads, r
  <2>5. op' \in [Ids -> Operations] /\ op'[o] = w /\ \A p \in Ids : p # o => op'[p] = op[p]
    BY <1>2, <1>4, <2>1, <2>2
  <2>6. WireType'
    <3>1. wire \in SUBSET Requests /\ IsFiniteSet(wire) /\ \A x \in wire : x.o \in Ids
      BY StageState
    <3>2. IsFiniteSet(wire \cup {r})
      BY <3>1, FS_AddElement
    <3>3. wire' \in SUBSET Requests /\ IsFiniteSet(wire') /\ \A x \in wire' : x.o \in Ids
      BY <1>2, <2>1, <2>2, <3>1, <3>2
    <3> QED
      BY <1>1, <3>3, SameWorld DEF WireType
  <2>7. Mine(wire', o) = q /\ \A p \in Ids : p # o => Mine(wire', p) = Mine(wire, p)
    BY <2>1, <2>2 DEF Mine
  <2> HIDE DEF q
  <2>8. \A p \in Ids : View(p, Of(p), op'[p], Mine(wire', p), stage', Kind(p, at'), Pending(p, at'))
    <3> SUFFICES ASSUME NEW p \in Ids
                 PROVE  View(p, Of(p), op'[p], Mine(wire', p), stage, Kind(p, at'), Pending(p, at'))
      BY <1>1
    <3>1. CASE p # o
      BY <1>3, <1>4, <2>5, <2>7, <3>1
    <3>2. CASE p = o
      BY <2>1, <2>5, <2>7, <3>2 DEF l, c, f
    <3> QED
      BY <3>1, <3>2
  <2>9. \A p \in Ids : op[p].state = 0 => op'[p].state = 0
    BY <2>1, <2>5
  <2> QED
    BY <1>1, <1>2, <1>3, <1>8, <2>3, <2>4, <2>5, <2>6, <2>8, <2>9, StageStep
<1> QED
  BY <1>6, <1>7, <1>8 DEF StartUploadRequest, o, f

LEMMA IdleIs ==
    /\ \A p : Kind(p, Idle) = "idle" /\ Pending(p, Idle) = 0
    /\ Idle \in Places /\ Idle.kind = "idle" /\ Idle.left \in 0..MaxFast
BY UploadAssumption DEF Kind, Pending, Idle, Places

LEMMA FinishInv == Inv /\ Finish => Inv'
<1> SUFFICES ASSUME Inv, Finish PROVE Inv'
  OBVIOUS
<1> DEFINE o == at.o
<1>1. /\ at.kind = "finish" /\ at' = Idle
      /\ UNCHANGED <<world, app, loader, stage, wire, server, made, mixed>>
  BY DEF Finish
<1>2. o \in Ids /\ op \in [Ids -> Operations]
  BY <1>1, StageState, LoaderState
<1>3. \A p \in Ids : /\ Typed(p, Of(p), op[p], Mine(wire, p), stage, Kind(p, at), Pending(p, at))
                     /\ View(p, Of(p), op[p], Mine(wire, p), stage, Kind(p, at), Pending(p, at))
  BY LoaderState
<1>4. /\ Kind(o, at) = "finish" /\ \A p : p # o => Kind(p, at) = "idle" /\ Pending(p, at) = 0
      /\ \A p : Kind(p, at') = "idle" /\ Pending(p, at') = 0
  BY <1>1, IdleIs DEF Kind, Pending
<1>5. op[o].state # 0 /\ \A j \in DOMAIN stage : ~Starts(stage, o, j)
  BY <1>2, <1>3, <1>4, Inside
<1>6. /\ AtType' /\ StageType' /\ WireType' /\ server' \in SUBSET Parts
      /\ made' \in Seq(Identifiers) /\ mixed' \in SUBSET Locations
  <2>1. AtType'
    BY <1>1, IdleIs DEF AtType
  <2> QED
    BY <1>1, <2>1, StageState, SameWorld DEF Inv, Types
<1> HIDE DEF o
<1>7. CASE UNCHANGED <<op, tasks, prefs>> /\ op[o].state # 1
  <2>1. \A p \in Ids : View(p, Of(p), op'[p], Mine(wire', p), stage', Kind(p, at'), Pending(p, at'))
    <3> SUFFICES ASSUME NEW p \in Ids
                 PROVE  View(p, Of(p), op[p], Mine(wire, p), stage, Kind(p, at'), Pending(p, at'))
      BY <1>1, <1>7
    <3>1. CASE p # o
      BY <1>3, <1>4, <3>1
    <3>2. CASE p = o
      BY <1>3, <1>4, <1>7, <3>2, Turned
    <3> QED
      BY <3>1, <3>2
  <2>2. op' \in [Ids -> Operations] /\ prefs' \in [Locations -> Preferences]
    BY <1>2, <1>7, StageState
  <2> QED
    BY <1>1, <1>6, <1>7, <2>1, <2>2, StageStep
<1>8. CASE /\ op' = [op EXCEPT ![o].state = 3, ![o].open = FALSE,
                              ![o].result = {[id |-> op[o].id, parts |-> op[o].part]}]
           /\ tasks' = Append(tasks, [do |-> "finished", o |-> o])
           /\ prefs' = CleanUp(o)
  <2> DEFINE w   == Stops(op[o], 3)
             res == {[id |-> op[o].id, parts |-> op[o].part]}
             v   == [w EXCEPT !.result = res]
  <2>1. op[o] \in Operations /\ Flags(op[o])
    BY <1>2, <1>3 DEF View
  <2>2. w \in Operations /\ w.state = 3 /\ w.guid = op[o].guid /\ (Blank(op[o]) => Blank(w)) /\ Flags(w)
    <3>1. 3 \in 2..4
      OBVIOUS
    <3> QED
      BY <2>1, <3>1, StopFields
  <2>3. res \in SUBSET Results
    BY <2>1 DEF Results, Operations
  <2>4. op' = [op EXCEPT ![o] = v]
    BY <1>8 DEF Stops
  <2> HIDE DEF w, res
  <2>5. v \in Operations /\ v.state = 3 /\ v.guid = op[o].guid /\ (Blank(op[o]) => Blank(v)) /\ Flags(v)
    <3>1. v \in Operations
      BY <2>2, <2>3 DEF Operations
    <3>2. Blank(op[o]) => Blank(v)
      BY <2>2 DEF Operations, Blank
    <3>3. Flags(v)
      BY <2>2 DEF Operations, Flags
    <3> QED
      BY <2>2, <3>1, <3>2, <3>3 DEF Operations
  <2> HIDE DEF v
  <2>6. op' \in [Ids -> Operations] /\ op'[o] = v /\ \A p \in Ids : p # o => op'[p] = op[p]
    BY <1>2, <2>4, <2>5
  <2>7. \A p \in Ids : View(p, Of(p), op'[p], Mine(wire', p), stage', Kind(p, at'), Pending(p, at'))
    <3> SUFFICES ASSUME NEW p \in Ids
                 PROVE  View(p, Of(p), op'[p], Mine(wire, p), stage, Kind(p, at'), Pending(p, at'))
      BY <1>1
    <3>1. CASE p # o
      BY <1>3, <1>4, <2>6, <3>1
    <3>2. CASE p = o
      BY <1>3, <1>4, <1>5, <2>5, <2>6, <3>2, Stopped
    <3> QED
      BY <3>1, <3>2
  <2>8. \E t \in LoaderTasks : t.do # "upload" /\ tasks' = Append(tasks, t)
    <3>1. [do |-> "finished", o |-> o] \in LoaderTasks
      BY <1>2 DEF LoaderTasks
    <3> QED
      BY <1>8, <3>1
  <2>9. prefs' \in [Locations -> Preferences]
    BY <1>2, <1>8, CleanUpType
  <2>10. \A p \in Ids : op[p].state = 0 => op'[p].state = 0
    BY <1>5, <2>6
  <2> QED
    BY <1>1, <1>6, <2>6, <2>7, <2>8, <2>9, <2>10, StageStep
<1> QED
  BY <1>7, <1>8 DEF Finish, o

(* A request is written, or answered.                                        *)
LEMMA WrittenInv ==
    ASSUME Inv, NEW r \in wire, Written(r)
    PROVE  Inv'
<1> DEFINE x == [r EXCEPT !.written = TRUE]
           t == [do |-> "written", o |-> r.o]
<1>1. /\ ~r.written /\ wire' = (wire \ {r}) \cup {x} /\ stage' = Append(stage, t)
      /\ UNCHANGED <<world, app, op, loader, tasks, at, prefs, server, made, mixed>>
  BY DEF Written
<1>2. r \in Requests /\ r.o \in Ids /\ r.o \in Nat
  BY StageState DEF Requests
<1>3. x \in Requests /\ x.o = r.o
  BY <1>2 DEF Requests
<1>4. t \in StageTasks /\ t.o = r.o /\ t.do = "written"
  BY <1>2 DEF StageTasks
<1> HIDE DEF t
<1>5. StageType'
  BY <1>1, <1>2, <1>4, StageAppended
<1>6. x = [r EXCEPT !.written = TRUE]
  OBVIOUS
<1> HIDE DEF x
<1>7. WireType'
  <2>1. wire \in SUBSET Requests /\ IsFiniteSet(wire) /\ \A y \in wire : y.o \in Ids
    BY StageState
  <2>2. IsFiniteSet(wire \ {r})
    BY <2>1, FS_Subset
  <2>3. IsFiniteSet((wire \ {r}) \cup {x})
    BY <2>2, FS_AddElement
  <2>4. wire' \in SUBSET Requests /\ IsFiniteSet(wire') /\ \A y \in wire' : y.o \in Ids
    BY <1>1, <1>2, <1>3, <2>1, <2>3
  <2> QED
    BY <1>1, <2>4, SameWorld DEF WireType
<1>8. \A p \in Ids : View(p, Of(p), op'[p], Mine(wire', p), stage', Kind(p, at'), Pending(p, at'))
  <2> SUFFICES ASSUME NEW p \in Ids
               PROVE  View(p, Of(p), op[p], Mine(wire', p), Append(stage, t), Kind(p, at), Pending(p, at))
    BY <1>1
  <2> DEFINE m == Mine(wire, p)
             k == Kind(p, at)
             n == Pending(p, at)
             q == Mine(wire', p)
  <2>1. Typed(p, Of(p), op[p], m, stage, k, n) /\ View(p, Of(p), op[p], m, stage, k, n)
    BY LoaderState
  <2>2. CASE p = r.o
    <3>1. q = (m \ {r}) \cup {x} /\ r \in m
      BY <1>1, <1>3, <2>2 DEF Mine
    <3> HIDE DEF m, k, n, q
    <3>2. View(p, Of(p), op[p], q, stage, k, n)
      BY <1>1, <1>6, <2>1, <3>1, WrittenView
    <3>3. Typed(p, Of(p), op[p], q, stage, k, n)
      <4>1. IsFiniteSet(m \ {r})
        BY <2>1, FS_Subset DEF Typed
      <4>2. IsFiniteSet((m \ {r}) \cup {x})
        BY <4>1, FS_AddElement
      <4>3. q \in SUBSET Requests /\ IsFiniteSet(q) /\ \A y \in q : y.o = p
        BY <1>3, <2>1, <2>2, <3>1, <4>2 DEF Typed
      <4> QED
        BY <2>1, <4>3 DEF Typed
    <3>4. op[p].state # 0
      BY <2>1, <3>1 DEF View, Untaken
    <3>5. q # {}
      BY <3>1
    <3> QED
      BY <1>4, <2>2, <3>2, <3>3, <3>4, <3>5, OwnAppended DEF k, n, q
  <2>3. CASE p # r.o
    <3>1. q = m
      BY <1>1, <1>3, <2>3 DEF Mine
    <3> HIDE DEF m, k, n, q
    <3> QED
      BY <1>4, <2>1, <2>3, <3>1, OtherAppended DEF k, n, q
  <2> QED
    BY <2>2, <2>3
<1>9. /\ op' \in [Ids -> Operations] /\ AtType' /\ prefs' \in [Locations -> Preferences]
      /\ server' \in SUBSET Parts /\ made' \in Seq(Identifiers) /\ mixed' \in SUBSET Locations
  BY <1>1, LoaderState, StageState, SameWorld DEF Inv, Types
<1> QED
  BY <1>1, <1>5, <1>7, <1>8, <1>9, StageStep

LEMMA PutType ==
    ASSUME NEW parts \in SUBSET Parts, NEW r \in Requests
    PROVE  Put(parts, r) \in SUBSET Parts
<1>1. [id |-> r.id, part |-> r.part, from |-> r.from, bytes |-> r.bytes, early |-> r.early] \in Parts
  BY DEF Requests, Parts
<1> QED
  BY <1>1 DEF Put

LEMMA AnswerInv ==
    ASSUME Inv, NEW r \in wire, NEW ok \in BOOLEAN, Answer(r, ok)
    PROVE  Inv'
<1> DEFINE t == [do |-> "answer", o |-> r.o, r |-> r, ok |-> ok]
<1>1. /\ wire' = wire \ {r} /\ stage' = Append(stage, t)
      /\ server' = IF ok THEN Put(server, r) ELSE server
      /\ UNCHANGED <<world, app, op, loader, tasks, at, prefs, made, mixed>>
  BY DEF Answer
<1>2. r \in Requests /\ r.o \in Ids /\ r.o \in Nat
  BY StageState DEF Requests
<1>3. t \in StageTasks /\ t.o = r.o /\ t.do = "answer" /\ t.r = r
  BY <1>2 DEF StageTasks
<1> HIDE DEF t
<1>4. StageType'
  BY <1>1, <1>2, <1>3, StageAppended
<1>5. WireType'
  <2>1. wire \in SUBSET Requests /\ IsFiniteSet(wire) /\ \A y \in wire : y.o \in Ids
    BY StageState
  <2>2. IsFiniteSet(wire \ {r})
    BY <2>1, FS_Subset
  <2>3. wire' \in SUBSET Requests /\ IsFiniteSet(wire') /\ \A y \in wire' : y.o \in Ids
    BY <1>1, <2>1, <2>2
  <2> QED
    BY <1>1, <2>3, SameWorld DEF WireType
<1>6. \A p \in Ids : View(p, Of(p), op'[p], Mine(wire', p), stage', Kind(p, at'), Pending(p, at'))
  <2> SUFFICES ASSUME NEW p \in Ids
               PROVE  View(p, Of(p), op[p], Mine(wire', p), Append(stage, t), Kind(p, at), Pending(p, at))
    BY <1>1
  <2> DEFINE m == Mine(wire, p)
             k == Kind(p, at)
             n == Pending(p, at)
             q == Mine(wire', p)
  <2>1. Typed(p, Of(p), op[p], m, stage, k, n) /\ View(p, Of(p), op[p], m, stage, k, n)
    BY LoaderState
  <2>2. CASE p = r.o
    <3>1. q = m \ {r} /\ r \in m
      BY <1>1, <2>2 DEF Mine
    <3> HIDE DEF m, k, n, q
    <3> QED
      BY <1>3, <2>1, <2>2, <3>1, AnswerAppended DEF k, n, q
  <2>3. CASE p # r.o
    <3>1. q = m
      BY <1>1, <2>3 DEF Mine
    <3> HIDE DEF m, k, n, q
    <3> QED
      BY <1>3, <2>1, <2>3, <3>1, OtherAppended DEF k, n, q
  <2> QED
    BY <2>2, <2>3
<1>7. /\ op' \in [Ids -> Operations] /\ AtType' /\ prefs' \in [Locations -> Preferences]
      /\ server' \in SUBSET Parts /\ made' \in Seq(Identifiers) /\ mixed' \in SUBSET Locations
  BY <1>1, <1>2, LoaderState, StageState, SameWorld, PutType DEF Inv, Types
<1> QED
  BY <1>1, <1>4, <1>5, <1>6, <1>7, StageStep

(* A task of the stage queue concerns one upload.                            *)
LEMMA StageTaskStep ==
    ASSUME Inv, at.kind = "idle", stage # <<>>, stage' = Tail(stage),
           UNCHANGED <<world, app, loader, server, made, mixed>>,
           NEW o, o = Head(stage).o, op' \in [Ids -> Operations],
           \A p \in Ids : p # o => op'[p] = op[p], op[o].state = 0 => op'[o].state = 0,
           tasks' = tasks \/ \E t \in LoaderTasks : t.do # "upload" /\ tasks' = Append(tasks, t),
           at' \in Places, at'.left \in 0..MaxFast, at'.kind = "send" => at'.left >= 1,
           at'.kind = "idle" \/ at'.o = o,
           prefs' \in [Locations -> Preferences], wire' = wire \/ wire' = {r \in wire : r.o # o},
           View(o, Of(o), op'[o], Mine(wire', o), Tail(stage), Kind(o, at'), Pending(o, at'))
    PROVE  Inv'
<1>1. stage \in Seq(StageTasks) /\ (\A i \in DOMAIN stage : stage[i].o \in Ids)
  BY LoaderState
<1>2. Head(stage) \in StageTasks /\ o \in Ids /\ stage' \in Seq(StageTasks)
      /\ \A i \in DOMAIN stage' : stage'[i].o \in Ids
  BY <1>1
<1>3. StageType'
  BY <1>2, SameWorld DEF StageType
<1>4. AtType'
  BY <1>2, SameWorld DEF AtType
<1>5. WireType'
  <2>1. wire \in SUBSET Requests /\ IsFiniteSet(wire) /\ (\A r \in wire : r.o \in Ids) /\ wire' \subseteq wire
    BY StageState
  <2>2. IsFiniteSet(wire')
    BY <2>1, FS_Subset
  <2> QED
    BY <2>1, <2>2, SameWorld DEF WireType
<1>6. \A p \in Ids : p # o => Mine(wire', p) = Mine(wire, p)
  BY DEF Mine
<1>7. \A p : p # o => /\ Kind(p, at) = "idle" /\ Pending(p, at) = 0
                      /\ Kind(p, at') = "idle" /\ Pending(p, at') = 0
  BY DEF Kind, Pending
<1>8. \A p \in Ids : View(p, Of(p), op'[p], Mine(wire', p), stage', Kind(p, at'), Pending(p, at'))
  <2> SUFFICES ASSUME NEW p \in Ids, p # o
               PROVE  View(p, Of(p), op[p], Mine(wire, p), Tail(stage), Kind(p, at), Pending(p, at))
    BY <1>6, <1>7
  <2> QED
    BY LoaderState, OtherRun
<1>9. \A p \in Ids : op[p].state = 0 => op'[p].state = 0
  OBVIOUS
<1>10. server' \in SUBSET Parts /\ made' \in Seq(Identifiers) /\ mixed' \in SUBSET Locations
  BY StageState
<1> QED
  BY <1>3, <1>4, <1>5, <1>8, <1>9, <1>10, StageStep

(* What every task of the stage queue finds.                                 *)
LEMMA StageTaskState ==
    ASSUME Inv, at.kind = "idle", stage # <<>>
    PROVE  LET t == Head(stage)
               o == t.o
           IN /\ t \in StageTasks /\ o \in Ids /\ o \in Nat /\ Of(o) \in Uploads
              /\ op[o] \in Operations /\ op \in [Ids -> Operations] /\ Flags(op[o])
              /\ at \in Places /\ at.left \in 0..MaxFast
              /\ prefs \in [Locations -> Preferences] /\ Of(o).loc \in Locations
              /\ Kind(o, at) = "idle" /\ Pending(o, at) = 0
              /\ stage \in Seq(StageTasks) /\ Tail(stage) \in Seq(StageTasks)
              /\ Typed(o, Of(o), op[o], Mine(wire, o), stage, "idle", 0)
              /\ View(o, Of(o), op[o], Mine(wire, o), stage, "idle", 0)
<1> DEFINE t == Head(stage)
           o == t.o
<1>1. stage \in Seq(StageTasks) /\ (\A i \in DOMAIN stage : stage[i].o \in Ids)
  BY LoaderState
<1>2. t \in StageTasks /\ o \in Ids /\ Tail(stage) \in Seq(StageTasks)
  BY <1>1
<1>3. Kind(o, at) = "idle" /\ Pending(o, at) = 0
  BY DEF Kind, Pending
<1> HIDE DEF t, o
<1>4. /\ Typed(o, Of(o), op[o], Mine(wire, o), stage, "idle", 0)
      /\ View(o, Of(o), op[o], Mine(wire, o), stage, "idle", 0)
  BY <1>2, <1>3, LoaderState
<1>5. Flags(op[o]) /\ o \in Nat
  BY <1>4 DEF View, Typed
<1>6. op[o] \in Operations /\ op \in [Ids -> Operations]
  BY <1>2, LoaderState
<1>7. /\ at \in Places /\ at.left \in 0..MaxFast
      /\ prefs \in [Locations -> Preferences] /\ Of(o).loc \in Locations /\ Of(o) \in Uploads
  BY <1>2, StageState
<1> QED
  BY <1>1, <1>2, <1>3, <1>4, <1>5, <1>6, <1>7 DEF t, o

(* The places the stage queue goes to.                                       *)
LEMMA SendsIs ==
    ASSUME NEW o \in Nat, NEW c \in Nat
    PROVE  /\ Sends(o, c) \in Places /\ Sends(o, c).kind = "send" /\ Sends(o, c).left = c
           /\ Sends(o, c).o = o /\ Kind(o, Sends(o, c)) = "send" /\ Pending(o, Sends(o, c)) = c
BY DEF Sends, Places, Kind, Pending

LEMMA InitialType ==
    \A slow : /\ InitialRequests(slow) \in Nat /\ InitialRequests(slow) >= 1
              /\ InitialRequests(slow) <= MaxFast /\ InitialRequests(slow) \in 0..MaxFast
BY UploadAssumption DEF InitialRequests

LEMMA RunStartInv ==
    ASSUME Inv, at.kind = "idle", stage # <<>>, stage' = Tail(stage), Head(stage).do = "start",
           RunStart(Head(stage).o), UNCHANGED <<world, app, loader, server, made, mixed>>
    PROVE  Inv'
<1> DEFINE t == Head(stage)
           o == t.o
           c == InitialRequests(app.slow)
           v == [op[o] EXCEPT !.slow = app.slow]
<1>1. /\ op' = [op EXCEPT ![o] = v] /\ at' = Sends(o, c) /\ prefs' = prefs /\ wire' = wire
      /\ tasks' = tasks
  BY DEF RunStart
<1>2. /\ o \in Ids /\ o \in Nat
      /\ op[o] \in Operations /\ op \in [Ids -> Operations]
      /\ prefs \in [Locations -> Preferences]
      /\ stage \in Seq(StageTasks)
      /\ Typed(o, Of(o), op[o], Mine(wire, o), stage, "idle", 0)
      /\ View(o, Of(o), op[o], Mine(wire, o), stage, "idle", 0)
  BY StageTaskState
<1>3. Starts(stage, o, 1)
  BY <1>2 DEF Starts
<1>4. c \in Nat /\ c >= 1 /\ c <= MaxFast /\ c \in 0..MaxFast
  BY InitialType
<1> HIDE DEF o, c
<1>5. app.slow \in BOOLEAN
  BY DEF Inv, Types, AppType
<1>6. v \in Operations /\ Alike(op[o], v) /\ v.state = op[o].state
  BY <1>2, <1>5 DEF Operations, Alike
<1> HIDE DEF v
<1>7. op' \in [Ids -> Operations] /\ op'[o] = v /\ \A p \in Ids : p # o => op'[p] = op[p]
  BY <1>1, <1>2, <1>6
<1>8. View(o, Of(o), v, Mine(wire, o), Tail(stage), "send", c)
  BY <1>2, <1>3, <1>4, <1>6, StartRun
<1>9. /\ at' \in Places /\ at'.left = c /\ at'.o = o /\ Kind(o, at') = "send" /\ Pending(o, at') = c
  BY <1>1, <1>2, <1>4, SendsIs
<1>10. o = Head(stage).o
  BY DEF o
<1> QED
  BY <1>1, <1>2, <1>4, <1>6, <1>7, <1>8, <1>9, <1>10, StageTaskStep

(* After new data, or a request that is written, it sends if there is room.  *)
LEMMA MoreView ==
    ASSUME NEW o, NEW f, NEW u, NEW m, NEW s, Typed(o, f, u, m, s, "idle", 0),
           View(o, f, u, m, s, "idle", 0)
    PROVE  /\ View(o, f, u, m, s, Kind(o, More(o, u)), Pending(o, More(o, u)))
           /\ More(o, u) \in Places /\ More(o, u).left \in 0..MaxFast
           /\ (More(o, u).kind = "send" => More(o, u).left >= 1)
           /\ (More(o, u).kind = "idle" \/ More(o, u).o = o)
<1>1. u.busy \in Int /\ u.max \in Nat /\ u.max <= MaxFast /\ o \in Nat
  BY DEF Typed, View, Flags, Operations
<1>2. CASE u.busy < u.max
  <2>1. More(o, u) = Sends(o, 1)
    BY <1>2 DEF More
  <2>2. ~Blank(u)
    <3>1. Blank(u) => u.busy = 0 /\ u.max = 0
      BY DEF Blank
    <3> QED
      BY <1>2, <3>1
  <2>3. u.state # 0 /\ \A j \in DOMAIN s : ~Starts(s, o, j)
    BY <2>2 DEF View, Untaken, Prepared
  <2>4. u.busy + 1 <= MaxFast /\ 1 \in 0..MaxFast
    <3>1. u.busy + 1 <= u.max
      BY <1>1, <1>2
    <3> QED
      BY <1>1, <3>1, UploadAssumption
  <2>5. View(o, f, u, m, s, "send", 1)
    <3> DEFINE l == "send"
               c == 1
    <3>1. l = "send" /\ u.busy + c <= MaxFast
      BY <2>4
    <3> HIDE DEF l, c
    <3>2. View(o, f, u, m, s, l, c)
      BY <2>3, <3>1, Turned
    <3> QED
      BY <3>2 DEF l, c
  <2>6. /\ Sends(o, 1) \in Places /\ Sends(o, 1).kind = "send" /\ Sends(o, 1).left = 1
        /\ Sends(o, 1).o = o /\ Kind(o, Sends(o, 1)) = "send" /\ Pending(o, Sends(o, 1)) = 1
    BY <1>1, SendsIs
  <2> QED
    BY <2>1, <2>4, <2>5, <2>6
<1>3. CASE ~(u.busy < u.max)
  <2>1. More(o, u) = Idle
    BY <1>3 DEF More
  <2> QED
    BY <2>1, IdleIs
<1> QED
  BY <1>2, <1>3

LEMMA PartsType ==
    ASSUME NEW u \in Operations, u.chunk # 0, NEW big
    PROVE  CalcTotalPartsCount(u, big) \in Int
<1>1. u.total \in Nat /\ u.chunk \in Nat /\ u.chunk > 0
  BY DEF Operations
<1>2. HeadOf(u, big) \in Nat
  BY <1>1 DEF HeadOf, HeadLength
<1>3. \A a \in Int : CeilDiv(a, u.chunk) \in Int
  BY <1>1 DEF CeilDiv
<1>4. u.total - HeadOf(u, big) \in Int
  BY <1>1, <1>2
<1>5. CeilDiv(u.total - HeadOf(u, big), u.chunk) \in Int /\ CeilDiv(u.total, u.chunk) \in Int
  BY <1>1, <1>3, <1>4
<1> QED
  BY <1>5 DEF CalcTotalPartsCount

LEMMA RunNewDataInv ==
    ASSUME Inv, at.kind = "idle", stage # <<>>, stage' = Tail(stage), Head(stage).do = "data",
           RunNewData(Head(stage).o, Head(stage)), UNCHANGED <<world, app, loader, server, made, mixed>>
    PROVE  Inv'
<1> DEFINE t == Head(stage)
           o == t.o
           ends == op[o].est /\ t.final
           est  == op[o].est /\ ~ends
           total == IF ends THEN t.avail ELSE op[o].total
           u    == [op[o] EXCEPT !.est = est, !.total = total, !.avail = t.avail]
           parts == IF ends /\ u.chunk # 0 THEN CalcTotalPartsCount(u, Of(o).big) ELSE u.parts
           v    == [u EXCEPT !.parts = parts]
           m    == Mine(wire, o)
<1>1. /\ o \in Ids /\ o \in Nat /\ t \in StageTasks /\ t.do = "data"
      /\ op[o] \in Operations /\ op \in [Ids -> Operations]
      /\ prefs \in [Locations -> Preferences] /\ Of(o).loc \in Locations
      /\ stage \in Seq(StageTasks) /\ Tail(stage) \in Seq(StageTasks)
      /\ Typed(o, Of(o), op[o], m, stage, "idle", 0)
      /\ View(o, Of(o), op[o], m, stage, "idle", 0)
  BY StageTaskState
<1>2. /\ op' = [op EXCEPT ![o] = v] /\ at' = More(o, v)
      /\ prefs' = (IF ends /\ ~v.later /\ v.started
                   THEN [prefs EXCEPT ![Of(o).loc] = StoreFileUploadInfo(v)] ELSE prefs)
      /\ wire' = wire /\ tasks' = tasks
  BY DEF RunNewData
<1>3. t.avail \in Nat /\ t.final \in BOOLEAN
  BY <1>1, StageTaskFields
<1>4. est \in BOOLEAN /\ total \in Nat /\ (est => op[o].est)
  BY <1>1, <1>3 DEF Operations
<1> HIDE DEF o, t, ends
<1>5. u \in Operations /\ Alike(op[o], u)
  <2> HIDE DEF est, total
  <2>1. Fields(op[o]) /\ Shaped(op[o])
    BY <1>1, OperationForm
  <2>2. /\ u.est = est /\ u.total = total /\ u.avail = t.avail /\ Alike(op[o], u)
        /\ u.parts = op[o].parts /\ u.slow = op[o].slow /\ u.result = op[o].result
        /\ u.outcome = op[o].outcome
    BY <1>1, <1>4 DEF Operations, Alike
  <2>3. Shaped(u)
    BY <1>1 DEF Operations, Shaped
  <2> HIDE DEF u
  <2>4. Fields(u)
    BY <1>3, <1>4, <2>1, <2>2 DEF Fields, Alike
  <2> QED
    BY <2>2, <2>3, <2>4, OperationForm
<1> HIDE DEF u, est, total
<1>6. v \in Operations /\ Alike(op[o], v)
  <2>1. parts \in Int
    <3>1. CASE u.chunk # 0
      <4>1. CalcTotalPartsCount(u, Of(o).big) \in Int
        BY <1>5, <3>1, PartsType
      <4> QED
        BY <1>5, <4>1 DEF Operations
    <3>2. CASE u.chunk = 0
      BY <1>5, <3>2 DEF Operations
    <3> QED
      BY <3>1, <3>2
  <2> HIDE DEF parts
  <2>2. v \in Operations
    BY <1>5, <2>1 DEF Operations
  <2>3. Alike(u, v)
    BY <1>5 DEF Operations, Alike
  <2> QED
    BY <1>5, <2>2, <2>3 DEF Alike
<1> HIDE DEF v, m
<1>7. /\ View(o, Of(o), op[o], m, Tail(stage), "idle", 0)
      /\ Typed(o, Of(o), v, m, Tail(stage), "idle", 0)
  <2>1. Head(stage).o = o /\ Head(stage).do = "data"
    BY <1>1 DEF o, t
  <2> QED
    BY <1>1, <1>6, <2>1, OwnRun DEF Typed
<1>8. View(o, Of(o), v, m, Tail(stage), "idle", 0)
  BY <1>6, <1>7, AlikeView
<1>9. /\ View(o, Of(o), v, m, Tail(stage), Kind(o, at'), Pending(o, at'))
      /\ at' \in Places /\ at'.left \in 0..MaxFast
      /\ (at'.kind = "send" => at'.left >= 1)
      /\ (at'.kind = "idle" \/ at'.o = o)
  BY <1>2, <1>7, <1>8, MoreView
<1>10. op' \in [Ids -> Operations] /\ op'[o] = v /\ \A p \in Ids : p # o => op'[p] = op[p]
  BY <1>1, <1>2, <1>6
<1>11. prefs' \in [Locations -> Preferences]
  <2>1. StoreFileUploadInfo(v) \in Preferences
    BY <1>6 DEF StoreFileUploadInfo, Preferences, NoPrefs, Operations
  <2> QED
    BY <1>1, <1>2, <2>1
<1>12. op[o].state = 0 => op'[o].state = 0
  BY <1>6, <1>10 DEF Alike
<1>13. o = Head(stage).o
  BY DEF o, t
<1> QED
  BY <1>2, <1>9, <1>10, <1>11, <1>12, <1>13, StageTaskStep DEF m

LEMMA BegunAnewFields ==
    ASSUME NEW u \in Operations, NEW slow \in BOOLEAN, Flags(u),
           NEW v, v = [u EXCEPT
                !.slow = slow, !.open = FALSE, !.last = FALSE, !.nextFirst = FALSE, !.part = 0,
                !.read = 0, !.pos = 0, !.times = 0, !.busy = 0, !.savedPart = 0, !.later = FALSE,
                !.cached = {}, !.guid = @ + 1]
    PROVE  /\ v \in Operations /\ v.state = u.state /\ v.guid = u.guid + 1 /\ ~v.open
           /\ Rewound(v) /\ Flags(v)
<1>1. Fields(u) /\ Shaped(u)
  BY OperationForm
<1>2. /\ v.slow = slow /\ v.open = FALSE /\ v.last = FALSE /\ v.nextFirst = FALSE /\ v.part = 0
      /\ v.read = 0 /\ v.pos = 0 /\ v.times = 0 /\ v.busy = 0 /\ v.savedPart = 0 /\ v.later = FALSE
      /\ v.cached = {} /\ v.guid = u.guid + 1
      /\ v.state = u.state /\ v.est = u.est /\ v.total = u.total /\ v.avail = u.avail
      /\ v.max = u.max /\ v.started = u.started /\ v.parts = u.parts /\ v.chunk = u.chunk
      /\ v.id = u.id /\ v.result = u.result /\ v.outcome = u.outcome
  BY DEF Operations
<1>3. Shaped(v)
  BY ZenonT(60) DEF Operations, Shaped
<1>4. {} \in Caches /\ u.guid + 1 \in Nat
  BY <1>1, FS_EmptySet DEF Fields, Caches
<1>5. Fields(v)
  BY <1>1, <1>2, <1>4 DEF Fields
<1>6. v \in Operations
  BY <1>3, <1>5, OperationForm
<1>7. Rewound(v)
  BY <1>2 DEF Rewound
<1>8. Flags(v)
  BY <1>2 DEF Flags
<1> QED
  BY <1>2, <1>6, <1>7, <1>8

LEMMA RunNetworkChangedInv ==
    ASSUME Inv, at.kind = "idle", stage # <<>>, stage' = Tail(stage), Head(stage).do = "network",
           RunNetworkChanged(Head(stage).o, Head(stage).slow),
           UNCHANGED <<world, app, loader, server, made, mixed>>
    PROVE  Inv'
<1> DEFINE t == Head(stage)
           o == t.o
           m == Mine(wire, o)
           c == InitialRequests(t.slow)
<1>1. /\ o \in Ids /\ o \in Nat /\ t \in StageTasks /\ t.do = "network"
      /\ op[o] \in Operations /\ op \in [Ids -> Operations] /\ Flags(op[o])
      /\ at \in Places /\ at.left \in 0..MaxFast
      /\ prefs \in [Locations -> Preferences] /\ Of(o).loc \in Locations
      /\ stage \in Seq(StageTasks) /\ Tail(stage) \in Seq(StageTasks)
      /\ Kind(o, at) = "idle" /\ Pending(o, at) = 0
      /\ Typed(o, Of(o), op[o], m, stage, "idle", 0)
      /\ View(o, Of(o), op[o], m, stage, "idle", 0)
  BY StageTaskState
<1>2. t.slow \in BOOLEAN
  BY <1>1, StageTaskFields
<1>3. t = Head(stage) /\ o = t.o
  OBVIOUS
<1> HIDE DEF t, o, m
<1>4. /\ op[o].state # 0
      /\ \A j \in DOMAIN Tail(stage) : ~Starts(Tail(stage), o, j)
  BY <1>1, <1>3, NothingPrepared
<1>5. /\ View(o, Of(o), op[o], m, Tail(stage), "idle", 0)
      /\ Typed(o, Of(o), op[o], m, Tail(stage), "idle", 0)
  BY <1>1, <1>3, OwnRun DEF Typed
<1>6. CASE op[o].slow = t.slow
  <2>1. UNCHANGED <<op, at, prefs, wire, tasks>>
    BY <1>3, <1>6 DEF RunNetworkChanged
  <2> QED
    BY <1>1, <1>3, <1>5, <2>1, StageTaskStep DEF m
<1>7. CASE op[o].slow # t.slow
  <2> DEFINE v == [op[o] EXCEPT
                !.slow = t.slow, !.open = FALSE, !.last = FALSE, !.nextFirst = FALSE, !.part = 0,
                !.read = 0, !.pos = 0, !.times = 0, !.busy = 0, !.savedPart = 0, !.later = FALSE,
                !.cached = {}, !.guid = @ + 1]
  <2>1. /\ op' = [op EXCEPT ![o] = v] /\ prefs' = CleanUp(o)
        /\ wire' = {r \in wire : r.o # o} /\ at' = Sends(o, c) /\ tasks' = tasks
    <3>1. RunNetworkChanged(o, t.slow)
      BY <1>3
    <3> HIDE DEF c
    <3>2. op' = [op EXCEPT ![o] = v]
      BY <1>7, <3>1 DEF RunNetworkChanged
    <3> HIDE DEF v
    <3> QED
      BY <1>7, <3>1, <3>2 DEF RunNetworkChanged, c
  <2>2. /\ v \in Operations /\ v.state = op[o].state /\ v.guid = op[o].guid + 1 /\ ~v.open
        /\ Rewound(v) /\ Flags(v)
    BY <1>1, <1>2, BegunAnewFields, ZenonT(60)
  <2> HIDE DEF v
  <2>3. c \in Nat /\ c >= 1 /\ c <= MaxFast /\ c \in 0..MaxFast
    BY InitialType
  <2> HIDE DEF c
  <2>4. View(o, Of(o), v, {}, Tail(stage), "send", c)
    BY <1>4, <1>5, <2>2, <2>3, BegunAnew
  <2>5. Mine(wire', o) = {}
    BY <2>1 DEF Mine
  <2>6. /\ at' \in Places /\ at'.left = c /\ at'.o = o /\ Kind(o, at') = "send" /\ Pending(o, at') = c
    BY <1>1, <2>1, <2>3, SendsIs
  <2>7. op' \in [Ids -> Operations] /\ op'[o] = v /\ \A p \in Ids : p # o => op'[p] = op[p]
    BY <1>1, <2>1, <2>2
  <2>8. prefs' \in [Locations -> Preferences]
    BY <1>1, <2>1, CleanUpType
  <2>9. View(o, Of(o), op'[o], Mine(wire', o), Tail(stage), Kind(o, at'), Pending(o, at'))
    BY <2>4, <2>5, <2>6, <2>7
  <2>10. o = Head(stage).o
    BY <1>3
  <2> QED
    BY <1>4, <2>1, <2>3, <2>6, <2>7, <2>8, <2>9, <2>10, StageTaskStep
<1> QED
  BY <1>6, <1>7

LEMMA RunAnswerInv ==
    ASSUME Inv, at.kind = "idle", stage # <<>>, stage' = Tail(stage), Head(stage).do = "answer",
           RunAnswer(Head(stage).o, Head(stage).r, Head(stage).ok), wire' = wire,
           UNCHANGED <<world, app, loader, server, made, mixed>>
    PROVE  Inv'
<1> DEFINE t == Head(stage)
           o == t.o
           r == t.r
           m == Mine(wire, o)
           u == [op[o] EXCEPT !.busy = @ - 1]
           s == Saved(u, Of(o).big, r)
<1>1. /\ o \in Ids /\ o \in Nat /\ t \in StageTasks /\ t.do = "answer"
      /\ op[o] \in Operations /\ op \in [Ids -> Operations] /\ Flags(op[o])
      /\ at \in Places /\ at.left \in 0..MaxFast
      /\ prefs \in [Locations -> Preferences] /\ Of(o).loc \in Locations
      /\ stage \in Seq(StageTasks) /\ Tail(stage) \in Seq(StageTasks)
      /\ Kind(o, at) = "idle" /\ Pending(o, at) = 0
      /\ Typed(o, Of(o), op[o], m, stage, "idle", 0)
      /\ View(o, Of(o), op[o], m, stage, "idle", 0)
  BY StageTaskState
<1>2. r \in Requests /\ RunAnswer(o, r, t.ok) /\ Head(stage).r = r
  BY <1>1, StageTaskFields
<1>3. o = Head(stage).o
  OBVIOUS
<1> HIDE DEF t, o, m, r
<1>4. /\ op[o].state # 0 /\ \A j \in DOMAIN stage : ~Starts(stage, o, j)
  BY <1>1, <1>3, NothingPrepared
<1>5. CASE /\ r.guid # op[o].guid \/ (t.ok /\ op[o].state # 1)
           /\ UNCHANGED <<op, at, prefs, tasks>>
  <2>1. View(o, Of(o), op[o], m, Tail(stage), "idle", 0)
    BY <1>1, <1>2, <1>3, <1>5, OwnRun
  <2> QED
    BY <1>1, <1>3, <1>5, <2>1, StageTaskStep DEF m
<1>6. CASE /\ r.guid = op[o].guid /\ ~t.ok
           /\ Fail(o) /\ UNCHANGED at
  <2>1. /\ op' \in [Ids -> Operations] /\ (\A p \in Ids : p # o => op'[p] = op[p])
        /\ op'[o] \in Operations /\ op'[o].state = 4 /\ op'[o].guid = op[o].guid
        /\ (Blank(op[o]) => Blank(op'[o])) /\ Flags(op'[o])
        /\ (\E x \in LoaderTasks : x.do # "upload" /\ tasks' = Append(tasks, x))
        /\ prefs' \in [Locations -> Preferences]
    BY <1>1, <1>4, <1>6, FailIs
  <2> DEFINE v == op'[o]
  <2>2. View(o, Of(o), v, m, stage, "idle", 0)
    BY <1>1, <1>4, <2>1, Stopped
  <2>3. Typed(o, Of(o), v, m, stage, "idle", 0)
    BY <1>1, <2>1 DEF Typed
  <2>4. v.state # 1
    BY <2>1
  <2> HIDE DEF v
  <2>5. View(o, Of(o), v, m, Tail(stage), "idle", 0)
    BY <1>3, <2>2, <2>3, <2>4, <1>1, OwnRun DEF t
  <2> QED
    BY <1>1, <1>3, <1>4, <1>6, <2>1, <2>5, StageTaskStep DEF v, m
<1>7. CASE /\ r.guid = op[o].guid /\ t.ok /\ op[o].state = 1 /\ tasks' = tasks
           /\ IF u.last /\ u.busy = 0
              THEN /\ op' = [op EXCEPT ![o] = u]
                   /\ at' = Finishes(o) /\ UNCHANGED prefs
              ELSE IF u.busy < u.max
              THEN /\ op' = [op EXCEPT ![o] = s.u]
                   /\ at' = Sends(o, 1)
                   /\ prefs' = IF s.size > 0 THEN [prefs EXCEPT ![Of(o).loc].uploaded = s.size] ELSE prefs
              ELSE op' = [op EXCEPT ![o] = u] /\ UNCHANGED <<at, prefs>>
  <2>1. u \in Operations /\ Answered(op[o], u) /\ op[o].busy \in Int /\ u.busy = op[o].busy - 1
        /\ u.max \in Nat /\ u.max <= MaxFast /\ op[o].busy <= MaxFast
    <3>1. op[o].busy - 1 \in Int /\ op[o].busy \in Int /\ op[o].max \in Nat
      BY <1>1 DEF Operations
    <3>2. u \in Operations
      BY <1>1, <3>1 DEF Operations
    <3>3. Answered(op[o], u)
      BY <1>1 DEF Operations, Answered
    <3>4. op[o].busy + 0 <= MaxFast /\ op[o].max <= MaxFast
      BY <1>1, <1>7 DEF View, Counted, Flags
    <3> QED
      BY <3>1, <3>2, <3>3, <3>4 DEF Answered
  <2>2. s.u \in Operations /\ SameButSaved(u, s.u) /\ s.size \in Int
    BY <1>2, <2>1, SavedSteps
  <2> HIDE DEF u, s
  <2>3. Answered(op[o], s.u) /\ s.u.state = op[o].state
    BY <2>1, <2>2 DEF Answered, SameButSaved
  <2>4. \A v, l, c : Answered(op[o], v) /\ v.busy + c <= MaxFast => View(o, Of(o), v, m, Tail(stage), l, c)
    <3> SUFFICES ASSUME NEW v, NEW l, NEW c, Answered(op[o], v), v.busy + c <= MaxFast
                 PROVE  View(o, Of(o), v, m, Tail(stage), l, c)
      OBVIOUS
    <3>1. Head(stage).o = o /\ Head(stage).do = "answer" /\ Head(stage).r.guid = op[o].guid
      BY <1>2, <1>3, <1>7
    <3> QED
      BY <1>1, <1>7, <3>1, AnswerRun
  <2>5. u.busy + 0 <= MaxFast
    BY <2>1, UploadAssumption
  <2>6. CASE u.last /\ u.busy = 0
    <3>1. op' = [op EXCEPT ![o] = u] /\ at' = Finishes(o) /\ prefs' = prefs
      BY <1>7, <2>6
    <3>2. /\ at' \in Places /\ at'.kind = "finish" /\ at'.o = o /\ at'.left = 1
          /\ Kind(o, at') = "finish" /\ Pending(o, at') = 0
      BY <1>1, <3>1 DEF Finishes, Places, Kind, Pending
    <3>3. op' \in [Ids -> Operations] /\ op'[o] = u /\ \A p \in Ids : p # o => op'[p] = op[p]
      BY <1>1, <2>1, <3>1
    <3>4. View(o, Of(o), op'[o], Mine(wire', o), Tail(stage), Kind(o, at'), Pending(o, at'))
      BY <2>1, <2>4, <2>5, <3>2, <3>3 DEF m
    <3>5. 1 \in 0..MaxFast
      BY UploadAssumption
    <3>6. /\ prefs' \in [Locations -> Preferences] /\ tasks' = tasks /\ wire' = wire
          /\ (op[o].state = 0 => op'[o].state = 0) /\ at'.left \in 0..MaxFast
          /\ UNCHANGED <<world, app, loader, server, made, mixed>>
          /\ Inv /\ at.kind = "idle" /\ stage # <<>> /\ stage' = Tail(stage)
      BY <1>1, <1>4, <1>7, <3>1, <3>2, <3>5
    <3> QED
      BY ONLY <1>3, <3>2, <3>3, <3>4, <3>6, StageTaskStep
  <2>7. CASE ~(u.last /\ u.busy = 0) /\ u.busy < u.max
    <3>1. /\ op' = [op EXCEPT ![o] = s.u] /\ at' = Sends(o, 1)
          /\ prefs' = IF s.size > 0 THEN [prefs EXCEPT ![Of(o).loc].uploaded = s.size] ELSE prefs
      BY <1>7, <2>7
    <3>2. /\ at' \in Places /\ at'.kind = "send" /\ at'.o = o /\ at'.left = 1
          /\ Kind(o, at') = "send" /\ Pending(o, at') = 1
      BY <1>1, <3>1, SendsIs
    <3>3. op' \in [Ids -> Operations] /\ op'[o] = s.u /\ \A p \in Ids : p # o => op'[p] = op[p]
      BY <1>1, <2>2, <3>1
    <3>4. View(o, Of(o), op'[o], Mine(wire', o), Tail(stage), Kind(o, at'), Pending(o, at'))
      <4>1. s.u.busy + 1 <= MaxFast
        <5>1. s.u.busy = u.busy
          BY <2>2 DEF SameButSaved
        <5>2. u.busy + 1 <= MaxFast
          BY <2>1, <2>7, UploadAssumption
        <5> QED
          BY <5>1, <5>2
      <4> QED
        BY <2>3, <2>4, <3>2, <3>3, <4>1 DEF m
    <3>5. 1 \in 0..MaxFast
      BY UploadAssumption
    <3>6. prefs' \in [Locations -> Preferences]
      <4>1. CASE s.size > 0
        <5>1. prefs[Of(o).loc] \in Preferences /\ s.size \in Nat
          BY <1>1, <2>2, <4>1
        <5>2. [prefs[Of(o).loc] EXCEPT !.uploaded = s.size] \in Preferences
          BY <5>1 DEF Preferences
        <5> QED
          BY <1>1, <3>1, <4>1, <5>2
      <4>2. CASE ~(s.size > 0)
        BY <1>1, <3>1, <4>2
      <4> QED
        BY <4>1, <4>2
    <3>7. /\ tasks' = tasks /\ wire' = wire
          /\ (op[o].state = 0 => op'[o].state = 0) /\ at'.left \in 0..MaxFast
          /\ UNCHANGED <<world, app, loader, server, made, mixed>>
          /\ Inv /\ at.kind = "idle" /\ stage # <<>> /\ stage' = Tail(stage)
      BY <1>1, <1>4, <1>7, <3>2, <3>5
    <3> QED
      BY ONLY <1>3, <3>2, <3>3, <3>4, <3>6, <3>7, StageTaskStep
  <2>8. CASE ~(u.last /\ u.busy = 0) /\ ~(u.busy < u.max)
    <3>1. op' = [op EXCEPT ![o] = u] /\ at' = at /\ prefs' = prefs
      BY <1>7, <2>8
    <3>2. op' \in [Ids -> Operations] /\ op'[o] = u /\ \A p \in Ids : p # o => op'[p] = op[p]
      BY <1>1, <2>1, <3>1
    <3>3. View(o, Of(o), op'[o], Mine(wire', o), Tail(stage), Kind(o, at'), Pending(o, at'))
      BY <1>1, <2>1, <2>4, <2>5, <3>1, <3>2 DEF m
    <3>4. /\ prefs' \in [Locations -> Preferences] /\ tasks' = tasks /\ wire' = wire
          /\ (op[o].state = 0 => op'[o].state = 0)
          /\ at' \in Places /\ at'.left \in 0..MaxFast /\ at'.kind = "idle"
          /\ UNCHANGED <<world, app, loader, server, made, mixed>>
          /\ Inv /\ at.kind = "idle" /\ stage # <<>> /\ stage' = Tail(stage)
      BY <1>1, <1>4, <1>7, <3>1
    <3> QED
      BY ONLY <1>3, <3>2, <3>3, <3>4, StageTaskStep
  <2> QED
    BY <2>6, <2>7, <2>8
<1> QED
  BY <1>2, <1>5, <1>6, <1>7 DEF RunAnswer

LEMMA RunCancelledInv ==
    ASSUME Inv, at.kind = "idle", stage # <<>>, stage' = Tail(stage), Head(stage).do = "cancel",
           wire' = {r \in wire : r.o # Head(stage).o}, UNCHANGED <<op, at, prefs, tasks>>,
           UNCHANGED <<world, app, loader, server, made, mixed>>
    PROVE  Inv'
<1> DEFINE t == Head(stage)
           o == t.o
           m == Mine(wire, o)
<1>1. /\ o \in Ids /\ t \in StageTasks /\ t.do = "cancel"
      /\ op[o] \in Operations /\ op \in [Ids -> Operations]
      /\ at \in Places /\ at.left \in 0..MaxFast
      /\ prefs \in [Locations -> Preferences]
      /\ stage \in Seq(StageTasks) /\ Tail(stage) \in Seq(StageTasks)
      /\ Kind(o, at) = "idle" /\ Pending(o, at) = 0
      /\ Typed(o, Of(o), op[o], m, stage, "idle", 0)
      /\ View(o, Of(o), op[o], m, stage, "idle", 0)
  BY StageTaskState
<1>2. op[o].state \in 2..4
  <2>1. 1 \in DOMAIN stage /\ stage[1].do = "cancel" /\ stage[1].o = o
    BY <1>1
  <2> QED
    BY <1>1, <2>1 DEF View, Begun
<1>3. o = Head(stage).o /\ Head(stage).do # "start" /\ Head(stage).do # "answer"
  OBVIOUS
<1> HIDE DEF t, o, m
<1>4. /\ View(o, Of(o), op[o], m, Tail(stage), "idle", 0)
      /\ Typed(o, Of(o), op[o], m, Tail(stage), "idle", 0)
  BY <1>1, <1>3, OwnRun DEF Typed
<1>5. View(o, Of(o), op[o], {}, Tail(stage), "idle", 0)
  BY <1>2, <1>4, NothingLeft
<1>6. Mine(wire', o) = {}
  BY <1>3 DEF Mine
<1> QED
  BY <1>1, <1>3, <1>5, <1>6, StageTaskStep

LEMMA RunWrittenInv ==
    ASSUME Inv, at.kind = "idle", stage # <<>>, stage' = Tail(stage), Head(stage).do = "written",
           at' = More(Head(stage).o, op[Head(stage).o]), UNCHANGED <<op, prefs, wire, tasks>>,
           UNCHANGED <<world, app, loader, server, made, mixed>>
    PROVE  Inv'
<1> DEFINE t == Head(stage)
           o == t.o
           m == Mine(wire, o)
<1>1. /\ o \in Ids /\ t \in StageTasks /\ t.do = "written"
      /\ op[o] \in Operations /\ op \in [Ids -> Operations]
      /\ prefs \in [Locations -> Preferences]
      /\ stage \in Seq(StageTasks) /\ Tail(stage) \in Seq(StageTasks)
      /\ Typed(o, Of(o), op[o], m, stage, "idle", 0)
      /\ View(o, Of(o), op[o], m, stage, "idle", 0)
  BY StageTaskState
<1>2. o = Head(stage).o /\ Head(stage).do # "start" /\ Head(stage).do # "answer"
  OBVIOUS
<1> HIDE DEF t, o, m
<1>3. /\ View(o, Of(o), op[o], m, Tail(stage), "idle", 0)
      /\ Typed(o, Of(o), op[o], m, Tail(stage), "idle", 0)
  BY <1>1, <1>2, OwnRun DEF Typed
<1>4. at' = More(o, op[o])
  BY <1>2
<1>5. /\ View(o, Of(o), op[o], m, Tail(stage), Kind(o, at'), Pending(o, at'))
      /\ at' \in Places /\ at'.left \in 0..MaxFast
      /\ (at'.kind = "send" => at'.left >= 1)
      /\ (at'.kind = "idle" \/ at'.o = o)
  BY <1>3, <1>4, MoreView
<1> QED
  BY <1>1, <1>2, <1>5, StageTaskStep DEF m

LEMMA RunStageTaskInv == Inv /\ RunStageTask => Inv'
<1> SUFFICES ASSUME Inv, RunStageTask PROVE Inv'
  OBVIOUS
<1> DEFINE t == Head(stage)
<1>1. /\ at.kind = "idle" /\ stage # <<>> /\ stage' = Tail(stage)
      /\ UNCHANGED <<world, app, loader, server, made, mixed>>
  BY DEF RunStageTask
<1>2. CASE t.do = "start" /\ RunStart(t.o)
  BY <1>1, <1>2, RunStartInv
<1>3. CASE t.do = "data" /\ RunNewData(t.o, t)
  BY <1>1, <1>3, RunNewDataInv
<1>4. CASE t.do = "network" /\ RunNetworkChanged(t.o, t.slow)
  BY <1>1, <1>4, RunNetworkChangedInv
<1>5. CASE t.do = "answer" /\ RunAnswer(t.o, t.r, t.ok) /\ UNCHANGED wire
  BY <1>1, <1>5, RunAnswerInv
<1>6. CASE t.do = "cancel" /\ wire' = {r \in wire : r.o # t.o} /\ UNCHANGED <<op, at, prefs, tasks>>
  BY <1>1, <1>6, RunCancelledInv
<1>7. CASE t.do = "written" /\ at' = More(t.o, op[t.o]) /\ UNCHANGED <<op, prefs, wire, tasks>>
  BY <1>1, <1>7, RunWrittenInv
<1> QED
  BY <1>2, <1>3, <1>4, <1>5, <1>6, <1>7 DEF RunStageTask

-----------------------------------------------------------------------------
LEMMA StepInv == Inv /\ [Next]_vars => Inv'
<1> SUFFICES ASSUME Inv, [Next]_vars PROVE Inv'
  OBVIOUS
<1>1. CASE UploadFile
  BY <1>1, UploadFileInv
<1>2. CASE OnNetworkChanged
  BY <1>2, OnNetworkChangedInv
<1>3. CASE Restart
  BY <1>3, RestartInv
<1>4. CASE \E l \in app.cancels : CancelFileUpload(l)
  BY <1>4, CancelFileUploadInv
<1>5. CASE \E o \in Ids : CheckUploadNewDataAvailable(o)
  BY <1>5, CheckUploadNewDataAvailableInv
<1>6. CASE RunLoaderTask
  BY <1>6, RunLoaderTaskInv
<1>7. CASE RunStageTask \/ StartUploadRequest \/ Finish
  BY <1>7, RunStageTaskInv, StartUploadRequestInv, FinishInv
<1>8. CASE \E r \in wire : Written(r) \/ Answer(r, TRUE) \/ Answer(r, FALSE)
  BY <1>8, WrittenInv, AnswerInv
<1>9. CASE UNCHANGED vars
  <2>1. Types'
    BY <1>9, SameWorld DEF vars, Inv, Types
  <2>2. Views'
    BY <1>9, ViewsStep DEF vars, Inv, Views, ViewOf
  <2>3. Untouched' /\ TakenOnce'
    <3>1. \A o \in Ids : Unknown(o) => Unknown(o)'
      BY <1>9, SameWorld DEF vars, Unknown
    <3>2. Untouched'
      BY <1>9, <3>1, UntouchedStep DEF vars, Inv
    <3> QED
      BY <1>9, <3>2 DEF vars, Inv, TakenOnce, ToldOnce
  <2> QED
    BY <2>1, <2>2, <2>3 DEF Inv
<1> QED
  BY <1>1, <1>2, <1>3, <1>4, <1>5, <1>6, <1>7, <1>8, <1>9 DEF Next, Loader, Stage

LEMMA InvIsTypeOK == Inv => TypeOK
<1> SUFFICES ASSUME Inv PROVE TypeOK
  OBVIOUS
<1>1. ASSUME NEW o \in Ids, op[o].state = 1
      PROVE  op[o].busy = InFlight(o) /\ op[o].busy <= MaxFast
  <2> DEFINE m == Mine(wire, o)
             g == op[o].guid
  <2>1. /\ Typed(o, Of(o), op[o], m, stage, Kind(o, at), Pending(o, at))
        /\ View(o, Of(o), op[o], m, stage, Kind(o, at), Pending(o, at))
    BY LoaderState
  <2>2. Sent(m, g) = {r \in wire : r.o = o /\ r.guid = g}
    BY DEF Sent, Mine
  <2>3. {i \in DOMAIN stage : stage[i] \in Answers(o, g)}
            = {i \in DOMAIN stage : stage[i].do = "answer" /\ stage[i].r.o = o /\ stage[i].r.guid = g}
    <3>1. \A i \in DOMAIN stage : stage[i] \in StageTasks
      BY <2>1 DEF Typed
    <3> QED
      BY <3>1 DEF Answers
  <2>4. Flying(o, g, m, stage) = InFlight(o)
    BY <2>2, <2>3 DEF Flying, Count, InFlight
  <2>5. op[o].busy = Flying(o, g, m, stage) /\ op[o].busy + Pending(o, at) <= MaxFast
    BY <1>1, <2>1 DEF View, Counted
  <2>6. op[o].busy \in Int /\ Pending(o, at) \in Nat
    BY <2>1 DEF Typed, Operations
  <2> QED
    BY <2>4, <2>5, <2>6, UploadAssumption
<1>2. \A o \in Ids : op[o].state \in 0..4 /\ op[o].outcome \in {"none", "finished", "failed", "refused"}
  BY LoaderState DEF Operations
<1>3. \A i \in DOMAIN loader.queue : loader.queue[i] \in Ids
  <2>1. loader.queue \in Seq(Ids)
    BY LoaderState
  <2> QED
    BY <2>1
<1>4. at.kind \in {"idle", "send", "finish"} /\ at.left \in 0..MaxFast
  BY StageState DEF Places
<1> QED
  BY <1>1, <1>2, <1>3, <1>4 DEF TypeOK

(* Types; and whatever is cancelled, fails, begins anew or is answered late, *)
(* a running upload counts exactly its requests that are not answered, and   *)
(* never has more under way than there may be (currentUploadRequetsCount of  *)
(* FileUploadOperation).                                                     *)
THEOREM TypeCorrect == Spec => []TypeOK
<1>1. Inv /\ [Next]_vars => Inv'
  BY StepInv
<1> QED
  BY InitInv, <1>1, InvIsTypeOK, PTL DEF Spec
=============================================================================
