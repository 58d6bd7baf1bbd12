---------------------------- MODULE UpdatesProofs -----------------------------
(* Proofs about Updates: types, that no update is forgotten, and that the    *)
(* database is never ahead of what has been written to it.                   *)
EXTENDS Updates, FiniteSetTheorems, WellFoundedInduction, TLAPS

-----------------------------------------------------------------------------
(* The invariant, in named parts.                                            *)

(* Updates of one box do not overlap.                                        *)
Apart(us) ==
    \A u \in us, v \in us :
        u.box = v.box /\ u # v => u.hi <= v.hi - v.n \/ v.hi <= u.hi - u.n

SentInv == sent \subseteq Updates /\ Apart(sent)

(* A client in the middle of a handler too: what is in a queue is of its box *)
(* and makes the timer look at it; what is remembered was sent.              *)
Orderly(d) ==
    /\ d \in Client /\ d.owed \subseteq sent
    /\ \A b \in Boxes : /\ d.queue[b] \subseteq {u \in sent : u.box = b}
                        /\ d.queue[b] # {} => d.wait[b] # "none"

Remembered(d, u) == u \in d.queue[u.box] \/ (d.getting /\ u.hi <= d.cover[u.box])

(* HoleRemembered, and what it is in the middle of a handler, when updates   *)
(* that have just been applied have not been taken out of owed.              *)
AllRemembered(d) == \A u \in d.owed : Remembered(d, u)
AllKnown(d)      == \A u \in d.owed : Remembered(d, u) \/ u.hi <= d.last[u.box]

(* What is on its way to the stage queue, in its order: the parts posted to  *)
(* it, and behind them what the storage queue will post.                     *)
Nothing == [kind |-> "none", from |-> Zero, to |-> Zero]
PartOf(t) == CASE t.op = "part"  -> t.part
               [] t.op = "reset" -> [kind |-> "reset", from |-> Zero, to |-> t.last]
               [] OTHER          -> Nothing

Places == Nat \ {0}
WayOf(rs, ts) ==
    [k \in Places |-> IF k <= Len(rs) THEN rs[k]
                      ELSE IF k <= Len(rs) + Len(ts) THEN PartOf(ts[k - Len(rs)])
                      ELSE Nothing]
Way == WayOf(ready, tasks)

(* The last part of a difference has nothing behind it, and while it is on   *)
(* its way nothing else is asked for.                                        *)
Enders == {"difference", "empty", "reset"}
Alone(w, d) ==
    \A k \in Places : w[k].kind \in Enders =>
        /\ d.getting /\ d.request = None /\ d.reset = None
        /\ \A j \in Places : j > k => w[j].kind = "none"

(* It reaches as far as what was let wait for it.                            *)
Reaches(w, d) ==
    \A k \in Places :
        /\ w[k].kind \in {"difference", "empty"} => \A b \in Boxes : d.cover[b] <= w[k].to[b]
        /\ w[k].kind = "empty" => w[k].to = w[k].from

(* A request, its answer and a reset of dialogs belong to the difference     *)
(* under way.                                                                *)
Asked(d, a) ==
    /\ d.request # None => d.getting /\ d.reset = None
    /\ d.reset # None => d.getting /\ d.request = None
    /\ a # None => /\ d.request # None /\ a.from = d.request
                   /\ a.kind \in {"difference", "empty"} => d.cover = a.to
                   /\ a.kind = "empty" => a.to = a.from

(* When no difference is under way nothing of one is, unless it was outrun.  *)
Idle(w, d) == ~d.outrun /\ ~d.getting => \A k \in Places : w[k].kind = "none"

(* A difference is asked for from where the client is, or will be when the   *)
(* slices on their way have been applied; so that, if there is no difference,*)
(* the client knows all that the server had.                                 *)
Front(w, d, from) ==
    \A b \in {"pts", "qts"} :
        \/ from[b] <= d.last[b] /\ \A k \in Places : w[k].kind # "slice"
        \/ \E k \in Places : /\ w[k].kind = "slice" /\ from[b] <= w[k].to[b]
                             /\ \A j \in Places : j > k => w[j].kind # "slice"

Fronts(w, d) ==
    ~d.outrun => /\ d.request # None => Front(w, d, d.request)
                 /\ \A k \in Places : w[k].kind = "empty" => Front(w, d, w[k].from)

FlightInv(w, d, a) == Alone(w, d) /\ Reaches(w, d) /\ Asked(d, a) /\ Idle(w, d) /\ Fronts(w, d)

-----------------------------------------------------------------------------
(* Numbers.                                                                  *)

(* The largest of some numbers that are not above n is one of them.          *)
LEMMA MaxIsLargest ==
    ASSUME NEW S \in SUBSET Nat, S # {}, NEW n \in Nat, \A x \in S : x <= n
    PROVE  Max(S) \in S /\ \A x \in S : x <= Max(S)
<1> DEFINE gaps == {n - x : x \in S}
<1>1. gaps \subseteq Nat /\ gaps # {}
  <2>1. \A x \in S : x \in Nat /\ x <= n /\ n - x \in Nat /\ n - x \in gaps
    OBVIOUS
  <2> QED
    BY <2>1
<1>2. PICK g \in gaps : \A h \in gaps : <<h, g>> \notin OpToRel(<, Nat)
  <2> HIDE DEF gaps
  <2> QED
    BY <1>1, NatLessThanWellFounded, WFMin
<1>3. PICK m \in S : g = n - m
  BY <1>2
<1>4. \A x \in S : x <= m
  <2> SUFFICES ASSUME NEW x \in S, m < x PROVE FALSE
    OBVIOUS
  <2>1. n - x \in gaps /\ n - x \in Nat /\ g \in Nat /\ n - x < g
    BY <1>3
  <2> QED
    BY <1>2, <2>1 DEF OpToRel
<1>5. \E y \in S : \A x \in S : y >= x
  BY <1>4
<1>6. Max(S) \in S /\ \A x \in S : Max(S) >= x
  BY <1>5 DEF Max
<1> QED
  BY <1>6

(* The bounds of a world.                                                    *)
LEMMA LimitBounds ==
    ASSUME world \in Worlds
    PROVE  /\ Max(Range(Limit)) \in Nat /\ Limit["pts"] # 0
           /\ Limit \in [Boxes -> 0..Max(Range(Limit))]
<1>1. Limit \in [Boxes -> Nat] /\ Limit["pts"] # 0
  BY UpdatesAssumption DEF Limit
<1>2. Range(Limit) = {Limit["seq"], Limit["pts"], Limit["qts"]}
  BY <1>1 DEF Range, Boxes
<1>3. /\ Limit["seq"] \in Nat /\ Limit["pts"] \in Nat /\ Limit["qts"] \in Nat
  BY <1>1 DEF Boxes
<1> DEFINE n == Limit["seq"] + Limit["pts"] + Limit["qts"]
<1>4. n \in Nat /\ \A x \in Range(Limit) : x \in Nat /\ x <= n
  BY <1>2, <1>3
<1>5. Max(Range(Limit)) \in Range(Limit) /\ \A x \in Range(Limit) : x <= Max(Range(Limit))
  <2> HIDE DEF n
  <2> QED
    BY <1>2, <1>4, MaxIsLargest
<1>6. \A b \in Boxes : Limit[b] \in Range(Limit)
  BY <1>2 DEF Boxes
<1> QED
  BY <1>1, <1>4, <1>5, <1>6

(* An update, and the server's counters.                                     *)
LEMMA UpdateFields ==
    ASSUME world \in Worlds, NEW u \in Updates
    PROVE  /\ u.box \in Boxes /\ u.hi \in Nat /\ u.n \in 1..2 /\ u.own \in BOOLEAN
           /\ 0 < u.hi /\ u.hi <= Limit[u.box] /\ u.n <= u.hi /\ u.hi - u.n \in Nat
           /\ u.hi <= Max(Range(Limit)) /\ u.hi - u.n < u.hi
<1>1. /\ u.box \in Boxes /\ u.hi \in 1..Max(Range(Limit)) /\ u.n \in 1..2 /\ u.own \in BOOLEAN
      /\ u.hi <= Limit[u.box] /\ u.n <= u.hi
  BY DEF Updates
<1> QED
  BY <1>1, LimitBounds

LEMMA ValueBounds ==
    ASSUME world \in Worlds, sent \subseteq Updates, NEW b \in Boxes
    PROVE  /\ Value(b) \in 0..Limit[b]
           /\ \A u \in sent : u.box = b => u.hi <= Value(b)
           /\ Value(b) = 0 \/ \E u \in sent : u.box = b /\ u.hi = Value(b)
<1> DEFINE his == {0} \cup {u.hi : u \in {v \in sent : v.box = b}}
<1>1. Limit[b] \in Nat
  BY LimitBounds
<1>2. \A u \in sent : u.hi \in Nat /\ (u.box = b => u.hi <= Limit[b])
  BY UpdateFields
<1>3. his \in SUBSET Nat /\ his # {} /\ \A x \in his : x <= Limit[b]
  BY <1>1, <1>2
<1>4. Max(his) \in his /\ \A x \in his : x <= Max(his)
  <2> HIDE DEF his
  <2> QED
    BY <1>1, <1>3, MaxIsLargest
<1>5. Value(b) = Max(his)
  BY DEF Value
<1>6. \A u \in sent : u.box = b => u.hi \in his
  OBVIOUS
<1>7. Max(his) = 0 \/ \E u \in sent : u.box = b /\ u.hi = Max(his)
  BY <1>4
<1> HIDE DEF his
<1>8. Max(his) \in Nat /\ Max(his) <= Limit[b]
  <2>1. Max(his) \in Nat
    BY <1>3, <1>4
  <2> QED
    BY <1>3, <1>4, <2>1
<1>9. \A u \in sent : u.box = b => u.hi <= Value(b)
  BY <1>4, <1>5, <1>6
<1> QED
  BY <1>1, <1>5, <1>7, <1>8, <1>9

LEMMA ServerBounds ==
    ASSUME world \in Worlds, sent \subseteq Updates
    PROVE  Server \in Points /\ Limit \in Points /\ Zero \in Points /\ \A b \in Boxes : Server[b] = Value(b)
<1>1. \A b \in Boxes : Value(b) \in 0..Max(Range(Limit))
  BY ValueBounds, LimitBounds
<1> QED
  BY <1>1, LimitBounds DEF Server, Points, Zero

LEMMA UnitsMember ==
    ASSUME NEW b, NEW lo \in Nat, NEW hi \in Nat, NEW x
    PROVE  x \in Units(b, lo, hi) <=> \E k \in Nat : x = <<b, k>> /\ lo < k /\ k <= hi
BY DEF Units

LEMMA NoUnits ==
    ASSUME NEW b, NEW lo \in Nat
    PROVE  Units(b, lo, lo) = {}
<1>1. \A k \in lo + 1..lo : FALSE
  OBVIOUS
<1> QED
  BY <1>1 DEF Units

LEMMA UnitsJoin ==
    ASSUME NEW b, NEW lo \in Nat, NEW mid \in Nat, NEW hi \in Nat
    PROVE  Units(b, lo, hi) \subseteq Units(b, lo, mid) \cup Units(b, mid, hi)
<1> SUFFICES ASSUME NEW x \in Units(b, lo, hi)
             PROVE  x \in Units(b, lo, mid) \/ x \in Units(b, mid, hi)
  OBVIOUS
<1>1. PICK k \in Nat : x = <<b, k>> /\ lo < k /\ k <= hi
  BY UnitsMember
<1>2. k <= mid \/ mid < k
  BY <1>1
<1> QED
  BY <1>1, <1>2, UnitsMember

LEMMA UnitsShrink ==
    ASSUME NEW b, NEW lo \in Nat, NEW hi \in Nat, NEW low \in Nat, NEW high \in Nat,
           low <= lo, hi <= high
    PROVE  Units(b, lo, hi) \subseteq Units(b, low, high)
<1> SUFFICES ASSUME NEW x \in Units(b, lo, hi) PROVE x \in Units(b, low, high)
  OBVIOUS
<1>1. PICK k \in Nat : x = <<b, k>> /\ lo < k /\ k <= hi
  BY UnitsMember
<1>2. low < k /\ k <= high
  BY <1>1
<1> QED
  BY <1>1, <1>2, UnitsMember

-----------------------------------------------------------------------------
(* What the operations do to the client.                                     *)

LEMMA ClientFields ==
    ASSUME NEW d \in Client
    PROVE  /\ d.last \in Points /\ d.queue \in [Boxes -> SUBSET Updates]
           /\ d.wait \in [Boxes -> {"none", "fresh", "due"}] /\ d.getting \in BOOLEAN
           /\ d.request \in Points \cup {None}
           /\ d.reset \in [last : Points, dialogs : Nat] \cup {None}
           /\ d.saved \in Points /\ d.base \in Points /\ d.owed \in SUBSET Updates
           /\ d.cover \in Points /\ d.outrun \in BOOLEAN
BY DEF Client

(* A counter is a number.                                                    *)
LEMMA PointsAreNumbers ==
    ASSUME world \in Worlds, NEW p \in Points, NEW b \in Boxes
    PROVE  p[b] \in Nat /\ p[b] <= Max(Range(Limit))
BY LimitBounds DEF Points

(* Fields that only the updates of a box, or a restart, change.              *)
SameElse(d, n) ==
    n.base = d.base /\ n.saved = d.saved /\ n.reset = d.reset /\ n.outrun = d.outrun
SameQueues(d, n) == n.last = d.last /\ n.queue = d.queue /\ n.wait = d.wait

(* The difference under way is the same; or now one has been asked for, from *)
(* a point that has been reached.                                            *)
SameFlight(d, n) == n.getting = d.getting /\ n.request = d.request /\ n.cover = d.cover
AsksNow(d, n) ==
    /\ ~d.getting /\ n.getting /\ n.cover = Limit
    /\ n.request \in Points /\ \A b \in Boxes : n.request[b] <= n.last[b]

(* What handlers do to the client: it is never behind where it was, asks for *)
(* a difference if it has to, and knows of what it knew before.              *)
Proceeds(d, n) ==
    /\ Orderly(n)
    /\ SameElse(d, n)
    /\ \A b \in Boxes : d.last[b] <= n.last[b]
    /\ SameFlight(d, n) \/ AsksNow(d, n)
    /\ AllKnown(d) => AllKnown(n)

LEMMA ProceedsOn ==
    ASSUME world \in Worlds, NEW d, Orderly(d), NEW m, Proceeds(d, m), NEW n, Proceeds(m, n)
    PROVE  Proceeds(d, n)
<1>1. /\ d.last \in Points /\ m.last \in Points /\ n.last \in Points
  BY ClientFields DEF Proceeds, Orderly
<1>2. \A b \in Boxes : d.last[b] <= n.last[b]
  BY <1>1, PointsAreNumbers DEF Proceeds
<1>3. SameFlight(d, n) \/ AsksNow(d, n)
  <2>1. CASE SameFlight(d, m)
    BY <2>1 DEF Proceeds, SameFlight, AsksNow
  <2>2. CASE AsksNow(d, m)
    <3>1. SameFlight(m, n)
      BY <2>2 DEF Proceeds, AsksNow
    <3>2. \A b \in Boxes : n.request[b] <= n.last[b]
      <4> TAKE b \in Boxes
      <4>1. m.request[b] <= m.last[b] /\ m.last[b] <= n.last[b] /\ n.request[b] = m.request[b]
        BY <2>2, <3>1 DEF Proceeds, AsksNow, SameFlight
      <4> QED
        BY <1>1, <2>2, <4>1, PointsAreNumbers DEF AsksNow
    <3> QED
      BY <2>2, <3>1, <3>2 DEF AsksNow, SameFlight
  <2> QED
    BY <2>1, <2>2 DEF Proceeds
<1> QED
  BY <1>2, <1>3 DEF Proceeds, SameElse

(* LetGo forgets some of what is owed, and nothing else.                     *)
Forgets(d, n, us) ==
    /\ Orderly(n) /\ SameElse(d, n) /\ SameQueues(d, n) /\ SameFlight(d, n)
    /\ n.owed = {u \in d.owed : u \in us => d.getting /\ u.hi <= d.cover[u.box]}

LEMMA LetGoForgets ==
    ASSUME NEW d, Orderly(d), NEW us
    PROVE  Forgets(d, LetGo(d, us), us)
<1> DEFINE n == LetGo(d, us)
<1>1. d \in Client
  BY DEF Orderly
<1>2. /\ n.last = d.last /\ n.queue = d.queue /\ n.wait = d.wait /\ n.base = d.base
      /\ n.saved = d.saved /\ n.reset = d.reset /\ n.outrun = d.outrun
      /\ n.getting = d.getting /\ n.request = d.request /\ n.cover = d.cover
      /\ n.owed = {u \in d.owed : u \in us => d.getting /\ u.hi <= d.cover[u.box]}
  BY <1>1 DEF LetGo, Client
<1>3. n \in Client
  BY <1>1 DEF LetGo, Client
<1> HIDE DEF n
<1>4. Orderly(n)
  BY <1>2, <1>3 DEF Orderly
<1>5. Forgets(d, n, us)
  BY <1>2, <1>4 DEF Forgets, SameFlight, SameElse, SameQueues
<1> QED
  BY <1>5 DEF n

(* A difference that is asked for brings all that was received.              *)
Requests(d, n, from) ==
    /\ Orderly(n) /\ SameElse(d, n) /\ SameQueues(d, n) /\ n.owed = d.owed
    /\ n.getting = TRUE /\ n.request = from /\ n.cover = Limit
    /\ AllRemembered(n)

LEMMA AskRequests ==
    ASSUME world \in Worlds, NEW d, Orderly(d), NEW from \in Points
    PROVE  Requests(d, Ask(d, from), from)
<1> DEFINE n == Ask(d, from)
<1>1. d \in Client /\ Limit \in Points
  BY LimitBounds DEF Orderly, Points
<1>2. /\ n.last = d.last /\ n.queue = d.queue /\ n.wait = d.wait /\ n.base = d.base
      /\ n.saved = d.saved /\ n.reset = d.reset /\ n.outrun = d.outrun /\ n.owed = d.owed
      /\ n.getting = TRUE /\ n.request = from /\ n.cover = Limit
  BY <1>1 DEF Ask, Client
<1>3. n \in Client
  BY <1>1 DEF Ask, Client
<1> HIDE DEF n
<1>4. AllRemembered(n)
  BY <1>2, <1>3, UpdateFields, ClientFields DEF AllRemembered, Remembered
<1>5. Orderly(n)
  BY <1>2, <1>3 DEF Orderly
<1>6. Requests(d, n, from)
  BY <1>2, <1>4, <1>5 DEF Requests, SameElse, SameQueues
<1> QED
  BY <1>6 DEF n

(* A difference makes the client know of what the caller gives up for it, if *)
(* the rest was known.                                                       *)
GivesUp(d, n, us) ==
    /\ Orderly(n) /\ SameElse(d, n) /\ SameQueues(d, n)
    /\ SameFlight(d, n) \/ AsksNow(d, n)
    /\ (\A u \in d.owed \ us : Remembered(d, u) \/ u.hi <= d.last[u.box]) => AllKnown(n)
    /\ (\A u \in d.owed \ us : Remembered(d, u)) => AllRemembered(n)

LEMMA GetDifferenceGivesUp ==
    ASSUME world \in Worlds, NEW d, Orderly(d), NEW us
    PROVE  GivesUp(d, GetDifference(d, us), us)
<1>1. d \in Client /\ d.last \in Points /\ d.getting \in BOOLEAN
  BY ClientFields DEF Orderly
<1>2. CASE d.getting
  <2> DEFINE n == LetGo(d, us)
  <2>1. Forgets(d, n, us)
    BY LetGoForgets
  <2> HIDE DEF n
  <2>2. \A u \in n.owed : u \in d.owed /\ (u \in us => Remembered(n, u))
                           /\ (Remembered(d, u) => Remembered(n, u))
    BY <2>1 DEF Forgets, SameFlight, SameQueues, Remembered
  <2>3. GivesUp(d, n, us)
    BY <2>1, <2>2 DEF Forgets, GivesUp, SameQueues, AllKnown, AllRemembered
  <2> QED
    BY <1>2, <2>3 DEF n, GetDifference
<1>3. CASE ~d.getting
  <2> DEFINE n == Ask(d, d.last)
  <2>1. Requests(d, n, d.last)
    BY <1>1, AskRequests
  <2> HIDE DEF n
  <2>2. \A b \in Boxes : n.request[b] <= n.last[b]
    <3>1. \A b \in Boxes : d.last[b] \in Nat
      BY <1>1, PointsAreNumbers
    <3> QED
      BY <2>1, <3>1 DEF Requests, SameQueues
  <2>3. AsksNow(d, n)
    BY <1>1, <1>3, <2>1, <2>2 DEF AsksNow, Requests
  <2>4. GivesUp(d, n, us)
    BY <2>1, <2>3 DEF Requests, GivesUp, AllKnown, AllRemembered
  <2> QED
    BY <1>3, <2>4 DEF n, GetDifference
<1> QED
  BY <1>1, <1>2, <1>3

-----------------------------------------------------------------------------
(* processUpdatesQueue.                                                      *)

(* As far as the counter of a box gets.                                      *)
NewLast(d, b, missing) == Max({d.last[b]} \cup {u.hi : u \in Applied(d, b, missing)})

LEMMA NewLastBounds ==
    ASSUME world \in Worlds, NEW d, Orderly(d), NEW b \in Boxes, NEW missing
    PROVE  /\ Applied(d, b, missing) \subseteq d.queue[b]
           /\ NewLast(d, b, missing) \in 0..Max(Range(Limit))
           /\ d.last[b] \in Nat /\ d.last[b] <= NewLast(d, b, missing)
           /\ \A u \in Applied(d, b, missing) : u.hi <= NewLast(d, b, missing)
           /\ \/ NewLast(d, b, missing) = d.last[b]
              \/ \E u \in Applied(d, b, missing) : NewLast(d, b, missing) = u.hi
<1> DEFINE app == Applied(d, b, missing)
           his == {d.last[b]} \cup {u.hi : u \in app}
           top == Max(Range(Limit))
<1>1. d.last \in Points /\ d.queue \in [Boxes -> SUBSET Updates]
  BY ClientFields DEF Orderly
<1>2. app \subseteq d.queue[b]
  BY DEF Applied, Chain
<1>3. d.last[b] \in Nat /\ d.last[b] <= top /\ top \in Nat
  BY <1>1, PointsAreNumbers, LimitBounds
<1>4. \A u \in app : u.hi \in Nat /\ u.hi <= top
  BY <1>1, <1>2, UpdateFields
<1> HIDE DEF app, top
<1>5. his \in SUBSET Nat /\ his # {} /\ \A x \in his : x <= top
  BY <1>3, <1>4
<1>6. \A u \in app : u.hi \in his
  OBVIOUS
<1>7. \A x \in his : x = d.last[b] \/ \E u \in app : x = u.hi
  OBVIOUS
<1>8. d.last[b] \in his
  OBVIOUS
<1> HIDE DEF his
<1>9. Max(his) \in his /\ \A x \in his : x <= Max(his)
  BY <1>3, <1>5, MaxIsLargest
<1>10. Max(his) \in Nat /\ Max(his) <= top
  BY <1>5, <1>9
<1>11. NewLast(d, b, missing) = Max(his)
  BY DEF NewLast, his, app
<1>12. Max(his) \in 0..top
  BY <1>3, <1>10
<1>13. /\ d.last[b] <= Max(his) /\ \A u \in app : u.hi <= Max(his)
  BY <1>6, <1>8, <1>9
<1>14. Max(his) = d.last[b] \/ \E u \in app : Max(his) = u.hi
  BY <1>7, <1>9
<1> QED
  BY <1>2, <1>3, <1>11, <1>12, <1>13, <1>14 DEF app, top

(* What the counter passes is what was applied: no hole is jumped over.      *)
LEMMA AppliedCovers ==
    ASSUME world \in Worlds, SentInv, NEW d, Orderly(d), NEW b \in Boxes, NEW missing
    PROVE  Units(b, d.last[b], NewLast(d, b, missing)) \subseteq UnitsOf(Applied(d, b, missing))
<1> DEFINE hi == NewLast(d, b, missing)
<1>1. /\ Applied(d, b, missing) \subseteq d.queue[b] /\ hi \in Nat /\ d.last[b] \in Nat
      /\ hi = d.last[b] \/ \E u \in Applied(d, b, missing) : hi = u.hi
  <2>1. Max(Range(Limit)) \in Nat
    BY LimitBounds
  <2>2. /\ Applied(d, b, missing) \subseteq d.queue[b] /\ d.last[b] \in Nat
        /\ hi \in 0..Max(Range(Limit))
        /\ hi = d.last[b] \/ \E u \in Applied(d, b, missing) : hi = u.hi
    BY NewLastBounds
  <2> QED
    BY <2>1, <2>2
<1>2. \A v \in d.queue[b] : v \in sent /\ v.box = b
  BY DEF Orderly
<1>3. \A v \in sent : v.hi \in Nat /\ v.n \in Nat /\ v.hi - v.n \in Nat /\ v.box \in Boxes
  BY UpdateFields DEF SentInv
<1> HIDE DEF hi
<1>4. hi = d.last[b] => Units(b, d.last[b], hi) = {}
  BY <1>1, NoUnits
<1>5. ASSUME NEW u \in Applied(d, b, missing), hi = u.hi, NEW x \in Units(b, d.last[b], hi)
      PROVE  x \in UnitsOf(Applied(d, b, missing))
  <2>1. PICK k \in Nat : x = <<b, k>> /\ d.last[b] < k /\ k <= hi
    BY <1>1, <1>5, UnitsMember
  <2>2. /\ u \in Chain(d, b) /\ u \in sent /\ u.box = b
        /\ \A m \in missing \cap Chain(d, b) : u.hi < m.hi
    BY <1>1, <1>2, <1>5 DEF Applied
  <2>3. x \in UnitsOf(d.queue[b])
    BY <1>5, <2>2 DEF Chain
  <2>4. PICK v \in d.queue[b] : x \in Units(v.box, v.hi - v.n, v.hi)
    BY <2>3 DEF UnitsOf
  <2>5. v \in sent /\ v.box = b
    BY <1>2
  <2>6. v.hi - v.n < k /\ k <= v.hi
    <3>1. PICK j \in Nat : x = <<v.box, j>> /\ v.hi - v.n < j /\ j <= v.hi
      BY <1>3, <2>4, <2>5, UnitsMember
    <3> QED
      BY <2>1, <3>1
  <2>7. v.hi <= u.hi
    <3>1. u = v \/ u.hi <= v.hi - v.n \/ v.hi <= u.hi - u.n
      BY <2>2, <2>5 DEF SentInv, Apart
    <3> QED
      BY <1>3, <1>5, <2>1, <2>2, <2>5, <2>6, <3>1
  <2>8. d.last[b] < v.hi
    BY <1>1, <1>3, <2>1, <2>5, <2>6
  <2>9. Units(b, d.last[b], v.hi) \subseteq UnitsOf(d.queue[b])
    <3>1. Units(b, d.last[b], u.hi) \subseteq UnitsOf(d.queue[b])
      BY <2>2 DEF Chain
    <3>2. Units(b, d.last[b], v.hi) \subseteq Units(b, d.last[b], u.hi)
      BY <1>1, <1>3, <2>2, <2>5, <2>7 DEF Units
    <3> QED
      BY <3>1, <3>2
  <2>10. v \in Chain(d, b)
    BY <1>1, <1>3, <2>5, <2>8, <2>9 DEF Chain
  <2>11. \A m \in missing \cap Chain(d, b) : v.hi < m.hi
    <3> TAKE m \in missing \cap Chain(d, b)
    <3>1. m \in sent /\ u.hi < m.hi
      BY <1>2, <2>2 DEF Chain
    <3> QED
      BY <1>3, <2>2, <2>5, <2>7, <3>1
  <2>12. v \in Applied(d, b, missing)
    BY <2>10, <2>11 DEF Applied
  <2> QED
    BY <2>4, <2>12 DEF UnitsOf
<1> QED
  BY <1>1, <1>4, <1>5 DEF hi

(* What is left of the queue of a box is kept, or nothing is left that the   *)
(* client does not know, or a difference brings it.                          *)
LEMMA AfterHoleProceeds ==
    ASSUME world \in Worlds, NEW d, Orderly(d), NEW b \in Boxes, NEW proceeded \in BOOLEAN,
           NEW rest \in SUBSET d.queue[b],
           \A u \in d.owed \cap d.queue[b] :
               u \in rest \/ u.hi <= d.last[b] \/ (d.getting /\ u.hi <= d.cover[b])
    PROVE  /\ Proceeds(d, AfterHole(d, b, proceeded, rest))
           /\ AfterHole(d, b, proceeded, rest).last = d.last
           /\ \A a \in Boxes \ {b} : AfterHole(d, b, proceeded, rest).queue[a] = d.queue[a]
<1> DEFINE Goal(n) == /\ Proceeds(d, n) /\ n.last = d.last
                      /\ \A a \in Boxes \ {b} : n.queue[a] = d.queue[a]
<1>1. /\ d \in Client /\ d.queue \in [Boxes -> SUBSET Updates] /\ d.last \in Points
      /\ d.wait \in [Boxes -> {"none", "fresh", "due"}]
  BY ClientFields DEF Orderly
<1>2. \A a \in Boxes : d.last[a] \in Nat /\ d.last[a] <= d.last[a]
  BY <1>1, PointsAreNumbers
<1>3. \A u \in d.queue[b] : u \in sent /\ u.box = b
  BY DEF Orderly
<1>4. \A u \in d.owed : u.box = b /\ u \in d.queue[u.box] => u \in rest \/ u.hi <= d.last[b] \/ Remembered(d, u)
  BY DEF Remembered
<1> DEFINE gone == [d EXCEPT !.queue[b] = {}, !.wait[b] = "none"]
<1>5. /\ gone \in Client /\ SameElse(d, gone) /\ SameFlight(d, gone) /\ gone.last = d.last
      /\ gone.owed = d.owed
      /\ gone.queue = [d.queue EXCEPT ![b] = {}] /\ gone.wait = [d.wait EXCEPT ![b] = "none"]
  BY <1>1 DEF Client, SameElse, SameFlight
<1> HIDE DEF gone
<1>6. Orderly(gone)
  BY <1>1, <1>5 DEF Orderly
<1>7. \A u \in d.owed : u \in rest \/ ((Remembered(d, u) \/ u.hi <= d.last[u.box])
                                         => (Remembered(gone, u) \/ u.hi <= gone.last[u.box]))
  <2> TAKE u \in d.owed
  <2>1. u.box \in Boxes
    BY UpdateFields, ClientFields DEF Orderly
  <2>2. CASE u.box = b
    <3>1. u \in d.queue[u.box] => u \in rest \/ u.hi <= d.last[b] \/ (d.getting /\ u.hi <= d.cover[b])
      BY <2>2
    <3> QED
      BY <1>5, <2>2, <3>1 DEF Remembered, SameFlight
  <2>3. CASE u.box # b
    BY <1>1, <1>5, <2>1, <2>3 DEF Remembered, SameFlight
  <2> QED
    BY <2>2, <2>3
<1>8. CASE rest = {}
  <2>1. AllKnown(d) => AllKnown(gone)
    BY <1>5, <1>7, <1>8 DEF AllKnown
  <2>2. Goal(gone)
    BY <1>1, <1>2, <1>5, <1>6, <2>1 DEF Proceeds
  <2> QED
    BY <1>8, <2>2 DEF AfterHole, gone
<1> DEFINE stays == d.wait[b] # "none" /\ (proceeded \/ d.wait[b] = "fresh")
<1>9. CASE rest # {} /\ stays
  <2> DEFINE kept == [d EXCEPT !.queue[b] = rest, !.wait[b] = IF proceeded THEN "fresh" ELSE @]
  <2>1. /\ kept \in Client /\ SameElse(d, kept) /\ SameFlight(d, kept) /\ kept.last = d.last
        /\ kept.owed = d.owed /\ kept.queue = [d.queue EXCEPT ![b] = rest]
        /\ kept.wait = [d.wait EXCEPT ![b] = IF proceeded THEN "fresh" ELSE @]
    BY <1>1 DEF Client, SameElse, SameFlight
  <2> HIDE DEF kept
  <2>2. kept.queue[b] = rest /\ kept.wait[b] # "none"
    BY <1>1, <1>9, <2>1
  <2>3. \A a \in Boxes \ {b} : kept.queue[a] = d.queue[a] /\ kept.wait[a] = d.wait[a]
    BY <1>1, <2>1
  <2>4. Orderly(kept)
    BY <2>1, <2>2, <2>3 DEF Orderly
  <2>5. ASSUME NEW u \in d.owed, Remembered(d, u) \/ u.hi <= d.last[u.box]
        PROVE  Remembered(kept, u) \/ u.hi <= kept.last[u.box]
    <3>1. u.box \in Boxes
      BY UpdateFields, ClientFields DEF Orderly
    <3>2. CASE u.box = b
      <4>1. u \in d.queue[u.box] => u \in rest \/ u.hi <= d.last[b] \/ (d.getting /\ u.hi <= d.cover[b])
        BY <3>2
      <4> QED
        BY <2>1, <2>2, <2>5, <3>2, <4>1 DEF Remembered, SameFlight
    <3>3. CASE u.box # b
      BY <2>1, <2>3, <2>5, <3>1, <3>3 DEF Remembered, SameFlight
    <3> QED
      BY <3>2, <3>3
  <2>6. AllKnown(d) => AllKnown(kept)
    BY <2>1, <2>5 DEF AllKnown
  <2>7. Goal(kept)
    BY <1>2, <2>1, <2>3, <2>4, <2>6 DEF Proceeds
  <2> QED
    BY <1>9, <2>7 DEF AfterHole, kept
<1>10. CASE rest # {} /\ ~stays
  <2> DEFINE n == GetDifference(gone, rest)
  <2>1. GivesUp(gone, n, rest)
    BY <1>6, GetDifferenceGivesUp
  <2>2. AfterHole(d, b, proceeded, rest) = n
    BY <1>10 DEF AfterHole, gone
  <2> HIDE DEF n
  <2>3. AllKnown(d) => AllKnown(n)
    <3> SUFFICES ASSUME AllKnown(d) PROVE \A u \in gone.owed \ rest : Remembered(gone, u) \/ u.hi <= gone.last[u.box]
      BY <2>1 DEF GivesUp
    <3> QED
      BY <1>5, <1>7 DEF AllKnown
  <2>4. SameFlight(d, n) \/ AsksNow(d, n)
    BY <1>5, <2>1 DEF GivesUp, SameFlight, AsksNow
  <2>5. n.last = d.last /\ SameElse(d, n) /\ Orderly(n) /\ n.queue = gone.queue
    BY <1>5, <2>1 DEF GivesUp, SameElse, SameQueues
  <2>6. Goal(n)
    BY <1>1, <1>2, <1>5, <2>3, <2>4, <2>5 DEF Proceeds
  <2> QED
    BY <2>2, <2>6
<1> QED
  BY <1>8, <1>9, <1>10

(* One box is processed, and the others are as they were.                    *)
Processed(d, n, b, missing) ==
    /\ Proceeds(d, n)
    /\ n.last[b] = d.last[b] \/ n.last[b] = NewLast(d, b, missing)
    /\ \A a \in Boxes \ {b} : n.last[a] = d.last[a] /\ n.queue[a] = d.queue[a]

LEMMA ProcessUpdatesQueueProceeds ==
    ASSUME world \in Worlds, NEW d, Orderly(d), NEW b \in Boxes, NEW missing
    PROVE  Processed(d, ProcessUpdatesQueue(d, b, missing), b, missing)
<1>1. /\ d \in Client /\ d.queue \in [Boxes -> SUBSET Updates] /\ d.last \in Points
      /\ d.wait \in [Boxes -> {"none", "fresh", "due"}] /\ d.owed \in SUBSET Updates
  BY ClientFields DEF Orderly
<1>2. \A a \in Boxes : d.last[a] \in Nat /\ d.last[a] <= d.last[a]
  BY <1>1, PointsAreNumbers
<1>3. CASE d.queue[b] = {}
  <2> DEFINE n == [d EXCEPT !.wait[b] = "none"]
  <2>1. /\ n \in Client /\ SameElse(d, n) /\ SameFlight(d, n) /\ n.last = d.last
        /\ n.owed = d.owed /\ n.queue = d.queue /\ n.wait = [d.wait EXCEPT ![b] = "none"]
    BY <1>1 DEF Client, SameElse, SameFlight
  <2> HIDE DEF n
  <2>2. Orderly(n)
    BY <1>1, <1>3, <2>1 DEF Orderly
  <2>3. AllKnown(d) => AllKnown(n)
    BY <2>1 DEF AllKnown, Remembered, SameFlight
  <2>4. Processed(d, n, b, missing)
    BY <1>2, <2>1, <2>2, <2>3 DEF Processed, Proceeds
  <2> QED
    BY <1>3, <2>4 DEF ProcessUpdatesQueue, n
<1>4. CASE d.queue[b] # {}
  <2> DEFINE applied == Applied(d, b, missing)
             hi      == NewLast(d, b, missing)
             cut     == {m \in missing \cap Chain(d, b) : \A k \in missing \cap Chain(d, b) : m.hi <= k.hi}
             rest    == {u \in d.queue[b] : u.hi > d.last[b]} \ (applied \cup cut)
             again   == b = "seq" /\ \E u \in d.queue[b] : u.hi = d.last[b]
             e       == [d EXCEPT !.last[b] = hi]
             after   == LetGo(e, cut)
             went    == applied \cup cut # {} \/ again
             n       == AfterHole(after, b, went, rest)
  <2>1. ProcessUpdatesQueue(d, b, missing) = n
    <3>1. d.last[b] = d.last[b] /\ [d EXCEPT !.last[b] = Max({@} \cup {u.hi : u \in applied})] = e
      BY DEF NewLast
    <3> QED
      BY <1>4, <3>1 DEF ProcessUpdatesQueue
  <2>2. /\ applied \subseteq d.queue[b] /\ hi \in 0..Max(Range(Limit)) /\ d.last[b] <= hi
        /\ \A u \in applied : u.hi <= hi
    BY NewLastBounds
  <2>3. rest \in SUBSET d.queue[b] /\ went \in BOOLEAN
    OBVIOUS
  <2>4. \A u \in d.queue[b] : u \in rest \/ u.hi <= d.last[b] \/ u \in applied \/ u \in cut
    <3>1. \A u \in d.queue[b] : u.hi \in Nat
      BY <1>1, UpdateFields
    <3>2. \A u \in d.queue[b] : u.hi > d.last[b] \/ u.hi <= d.last[b]
      BY <1>2, <3>1
    <3> QED
      BY <3>2
  <2> HIDE DEF applied, hi, cut, rest, again, went
  <2>5. /\ e \in Client /\ SameElse(d, e) /\ SameFlight(d, e) /\ e.last = [d.last EXCEPT ![b] = hi]
        /\ e.owed = d.owed /\ e.queue = d.queue /\ e.wait = d.wait
    <3>1. [d.last EXCEPT ![b] = hi] \in Points
      BY <1>1, <2>2 DEF Points
    <3> QED
      BY <1>1, <3>1 DEF Client, SameElse, SameFlight
  <2> HIDE DEF e
  <2>6. Orderly(e)
    BY <2>5 DEF Orderly
  <2>7. Forgets(e, after, cut)
    BY <2>6, LetGoForgets
  <2> HIDE DEF after
  <2>8. /\ after.last = e.last /\ after.queue = d.queue /\ Orderly(after) /\ SameElse(d, after)
        /\ SameFlight(d, after) /\ after.owed \subseteq d.owed
        /\ \A u \in after.owed : u \in cut => after.getting /\ u.hi <= after.cover[u.box]
    BY <2>5, <2>7 DEF Forgets, SameElse, SameFlight, SameQueues
  <2>9. after.last[b] = hi /\ \A a \in Boxes \ {b} : after.last[a] = d.last[a]
    <3>1. e.last[b] = hi /\ \A a \in Boxes \ {b} : e.last[a] = d.last[a]
      BY <1>1, <2>5 DEF Points
    <3> QED
      BY <2>8, <3>1
  <2>10. \A u \in after.owed \cap after.queue[b] :
            u \in rest \/ u.hi <= after.last[b] \/ (after.getting /\ u.hi <= after.cover[b])
    <3> TAKE u \in after.owed \cap after.queue[b]
    <3>1. u \in d.queue[b] /\ u.box = b /\ u.hi \in Nat
      BY <1>1, <2>8, UpdateFields DEF Orderly
    <3>2. u.hi <= d.last[b] => u.hi <= hi
      BY <1>2, <2>2, <3>1, LimitBounds
    <3> QED
      BY <2>2, <2>4, <2>8, <2>9, <3>1, <3>2
  <2>11. /\ Proceeds(after, n) /\ n.last = after.last
         /\ \A a \in Boxes \ {b} : n.queue[a] = after.queue[a]
    BY <2>3, <2>8, <2>10, AfterHoleProceeds
  <2> HIDE DEF n
  <2>12. \A a \in Boxes : d.last[a] <= after.last[a]
    BY <1>2, <2>2, <2>9
  <2>13. AllKnown(d) => AllKnown(after)
    <3> SUFFICES ASSUME AllKnown(d), NEW u \in after.owed
                 PROVE  Remembered(after, u) \/ u.hi <= after.last[u.box]
      BY DEF AllKnown
    <3>1. u \in d.owed /\ u \in Updates /\ u.box \in Boxes /\ u.hi \in Nat
      BY <1>1, <2>8, UpdateFields
    <3>2. Remembered(d, u) => Remembered(after, u)
      BY <2>8 DEF Remembered, SameFlight
    <3>3. u.hi <= d.last[u.box] => u.hi <= after.last[u.box]
      <4>1. after.last \in Points
        BY <2>8, ClientFields DEF Orderly
      <4>2. d.last[u.box] \in Nat /\ after.last[u.box] \in Nat
        BY <1>1, <3>1, <4>1, PointsAreNumbers
      <4> QED
        BY <2>12, <3>1, <4>2
    <3> QED
      BY <3>1, <3>2, <3>3 DEF AllKnown
  <2>14. Proceeds(d, after)
    BY <2>8, <2>12, <2>13 DEF Proceeds
  <2>15. Proceeds(d, n)
    BY <2>11, <2>14, ProceedsOn
  <2>16. Processed(d, n, b, missing)
    BY <2>8, <2>9, <2>11, <2>15 DEF Processed, hi
  <2> QED
    BY <2>1, <2>16
<1> QED
  BY <1>3, <1>4

LEMMA ProceedsStays ==
    ASSUME world \in Worlds, NEW d, Orderly(d)
    PROVE  Proceeds(d, d)
<1>1. \A b \in Boxes : d.last[b] <= d.last[b]
  <2>1. d.last \in Points
    BY ClientFields DEF Orderly
  <2> QED
    BY <2>1, PointsAreNumbers
<1> QED
  BY <1>1 DEF Proceeds, SameElse, SameFlight

(* What is applied from a queue depends on its box only.                     *)
LEMMA AppliedIsLocal ==
    ASSUME NEW d, NEW n, NEW b, NEW missing, n.last[b] = d.last[b], n.queue[b] = d.queue[b]
    PROVE  Applied(n, b, missing) = Applied(d, b, missing)
<1>1. Chain(n, b) = Chain(d, b)
  BY DEF Chain
<1> QED
  BY <1>1 DEF Applied

(* One step of processing the queues of bs.                                  *)
Taken(d, n, b, bs, missing) ==
    /\ Proceeds(d, n)
    /\ \A a \in Boxes \ {b} : n.last[a] = d.last[a] /\ n.queue[a] = d.queue[a]
    /\ IF b \in bs THEN Units(b, d.last[b], n.last[b]) \subseteq UnitsOf(Applied(d, b, missing))
       ELSE n.last[b] = d.last[b]

LEMMA TakeOne ==
    ASSUME world \in Worlds, SentInv, NEW d, Orderly(d), NEW b \in Boxes, NEW bs, NEW missing
    PROVE  Taken(d, IF b \in bs THEN ProcessUpdatesQueue(d, b, missing) ELSE d, b, bs, missing)
<1>1. CASE b \notin bs
  BY <1>1, ProceedsStays DEF Taken
<1>2. CASE b \in bs
  <2> DEFINE n == ProcessUpdatesQueue(d, b, missing)
  <2>1. Processed(d, n, b, missing)
    BY ProcessUpdatesQueueProceeds
  <2> HIDE DEF n
  <2>2. d.last[b] \in Nat
    BY NewLastBounds
  <2>3. Units(b, d.last[b], d.last[b]) = {}
    BY <2>2, NoUnits
  <2>4. Units(b, d.last[b], n.last[b]) \subseteq UnitsOf(Applied(d, b, missing))
    BY <2>1, <2>3, AppliedCovers DEF Processed
  <2>5. Taken(d, n, b, bs, missing)
    BY <1>2, <2>1, <2>4 DEF Taken, Processed
  <2> QED
    BY <1>2, <2>5 DEF n
<1> QED
  BY <1>1, <1>2

(* All boxes of bs: what is known before is remembered after, and no counter *)
(* passes what was not applied.                                              *)
Brings(d, n, bs, missing) ==
    /\ Orderly(n) /\ SameElse(d, n) /\ \A b \in Boxes : d.last[b] <= n.last[b]
    /\ SameFlight(d, n) \/ AsksNow(d, n)
    /\ AllKnown(d) => AllRemembered(n)
    /\ \A b \in Boxes : Units(b, d.last[b], n.last[b]) \subseteq UnitsOf(AppliedOf(d, bs, missing))
    /\ AppliedOf(d, bs, missing) \subseteq sent

LEMMA SettledRemembers ==
    ASSUME world \in Worlds, NEW d, Orderly(d)
    PROVE  /\ Orderly(Settled(d)) /\ SameElse(d, Settled(d)) /\ SameFlight(d, Settled(d))
           /\ SameQueues(d, Settled(d)) /\ (AllKnown(d) => AllRemembered(Settled(d)))
<1> DEFINE n == Settled(d)
<1>1. d \in Client /\ d.owed \in SUBSET Updates /\ d.last \in Points
  BY ClientFields DEF Orderly
<1>2. /\ n \in Client /\ SameElse(d, n) /\ SameFlight(d, n) /\ SameQueues(d, n)
      /\ n.owed = {u \in d.owed : u.hi > d.last[u.box]}
  BY <1>1 DEF Settled, Client, SameElse, SameFlight, SameQueues
<1> HIDE DEF n
<1>3. Orderly(n)
  BY <1>2 DEF Orderly, SameQueues
<1>4. AllKnown(d) => AllRemembered(n)
  <2> SUFFICES ASSUME AllKnown(d), NEW u \in n.owed PROVE Remembered(n, u)
    BY DEF AllRemembered
  <2>1. u \in d.owed /\ u.hi > d.last[u.box] /\ u.box \in Boxes /\ u.hi \in Nat
    BY <1>1, <1>2, UpdateFields
  <2>2. d.last[u.box] \in Nat
    BY <1>1, <2>1, PointsAreNumbers
  <2>3. Remembered(d, u)
    BY <2>1, <2>2 DEF AllKnown
  <2> QED
    BY <1>2, <2>3 DEF Remembered, SameFlight, SameQueues
<1> QED
  BY <1>2, <1>3, <1>4 DEF n

LEMMA ProcessQueuesBrings ==
    ASSUME world \in Worlds, SentInv, NEW d, Orderly(d), NEW bs \in SUBSET Boxes, NEW missing
    PROVE  Brings(d, ProcessQueues(d, bs, missing), bs, missing)
<1> DEFINE one   == IF "seq" \in bs THEN ProcessUpdatesQueue(d, "seq", missing) ELSE d
           two   == IF "pts" \in bs THEN ProcessUpdatesQueue(one, "pts", missing) ELSE one
           three == IF "qts" \in bs THEN ProcessUpdatesQueue(two, "qts", missing) ELSE two
           n     == Settled(three)
<1>1. ProcessQueues(d, bs, missing) = n
  BY DEF ProcessQueues
<1>2. "seq" \in Boxes /\ "pts" \in Boxes /\ "qts" \in Boxes /\ Boxes = {"seq", "pts", "qts"}
  BY DEF Boxes
<1>3. Taken(d, one, "seq", bs, missing)
  BY <1>2, TakeOne
<1> HIDE DEF one
<1>4. Taken(one, two, "pts", bs, missing)
  <2>1. Orderly(one)
    BY <1>3 DEF Taken, Proceeds
  <2> QED
    BY <1>2, <2>1, TakeOne
<1> HIDE DEF two
<1>5. Taken(two, three, "qts", bs, missing)
  <2>1. Orderly(two)
    BY <1>4 DEF Taken, Proceeds
  <2> QED
    BY <1>2, <2>1, TakeOne
<1> HIDE DEF three
<1>6. Proceeds(d, three)
  <2>1. Proceeds(d, two)
    BY <1>3, <1>4, ProceedsOn DEF Taken
  <2> QED
    BY <1>5, <2>1, ProceedsOn DEF Taken
<1>7. Orderly(three)
  BY <1>6 DEF Proceeds
<1>8. /\ Orderly(n) /\ SameElse(three, n) /\ SameFlight(three, n) /\ SameQueues(three, n)
      /\ AllKnown(three) => AllRemembered(n)
  BY <1>7, SettledRemembers
<1> HIDE DEF n
<1>9. \A b \in Boxes : Applied(d, b, missing) \subseteq d.queue[b]
  BY NewLastBounds
<1>10. AppliedOf(d, bs, missing) \subseteq sent
  BY <1>9 DEF AppliedOf, Orderly
<1>11. ASSUME NEW b \in bs PROVE UnitsOf(Applied(d, b, missing)) \subseteq UnitsOf(AppliedOf(d, bs, missing))
  BY DEF UnitsOf, AppliedOf
<1>12. /\ d.last["pts"] = one.last["pts"] /\ d.last["qts"] = two.last["qts"]
       /\ n.last["seq"] = one.last["seq"] /\ n.last["pts"] = two.last["pts"] /\ n.last["qts"] = three.last["qts"]
  BY <1>2, <1>3, <1>4, <1>5, <1>8 DEF Taken, SameQueues
<1>13. d.queue["pts"] = one.queue["pts"] /\ d.queue["qts"] = two.queue["qts"]
  BY <1>2, <1>3, <1>4 DEF Taken
<1>14. Applied(one, "pts", missing) = Applied(d, "pts", missing) /\ Applied(two, "qts", missing) = Applied(d, "qts", missing)
  BY <1>12, <1>13, AppliedIsLocal
<1>15. \A b \in Boxes : b \notin bs => Units(b, d.last[b], d.last[b]) = {}
  <2>1. \A b \in Boxes : d.last[b] \in Nat
    BY NewLastBounds
  <2> QED
    BY <2>1, NoUnits
<1>16. Units("seq", d.last["seq"], n.last["seq"]) \subseteq UnitsOf(AppliedOf(d, bs, missing))
  BY <1>2, <1>3, <1>11, <1>12, <1>15 DEF Taken
<1>17. Units("pts", d.last["pts"], n.last["pts"]) \subseteq UnitsOf(AppliedOf(d, bs, missing))
  BY <1>2, <1>4, <1>11, <1>12, <1>14, <1>15 DEF Taken
<1>18. Units("qts", d.last["qts"], n.last["qts"]) \subseteq UnitsOf(AppliedOf(d, bs, missing))
  BY <1>2, <1>5, <1>11, <1>12, <1>14, <1>15 DEF Taken
<1>19. SameElse(d, n) /\ \A b \in Boxes : d.last[b] <= n.last[b]
  BY <1>6, <1>8 DEF Proceeds, SameElse, SameQueues
<1>20. SameFlight(d, n) \/ AsksNow(d, n)
  BY <1>6, <1>8 DEF Proceeds, SameFlight, SameQueues, AsksNow
<1>21. AllKnown(d) => AllRemembered(n)
  BY <1>6, <1>8 DEF Proceeds
<1>22. Brings(d, n, bs, missing)
  BY <1>2, <1>8, <1>10, <1>16, <1>17, <1>18, <1>19, <1>20, <1>21 DEF Brings
<1> QED
  BY <1>1, <1>22

-----------------------------------------------------------------------------
(* The way to the stage queue.                                               *)

AllParts == [kind : Kinds \cup {"none"}, from : Points, to : Points]

(* The way without its place r.                                              *)
Without(w, r) == [k \in Places |-> IF k < r THEN w[k] ELSE w[k + 1]]

(* The way with a part at its place m.                                       *)
Placed(v, w, m, p) == v[m] = p /\ \A k \in Places : k # m => v[k] = w[k]

LEMMA WayTypes ==
    ASSUME world \in Worlds, NEW rs \in Seq(Parts), NEW ts \in Seq(StorageTasks)
    PROVE  /\ WayOf(rs, ts) \in [Places -> AllParts]
           /\ Len(rs) + Len(ts) \in Nat
           /\ \A k \in Places : k > Len(rs) + Len(ts) => WayOf(rs, ts)[k] = Nothing
<1>1. Zero \in Points
  BY LimitBounds DEF Zero, Points
<1>2. Nothing \in AllParts
  BY <1>1 DEF Nothing, AllParts
<1>3. ASSUME NEW t \in StorageTasks PROVE PartOf(t) \in AllParts
  <2>1. CASE t.op = "part"
    BY <2>1 DEF StorageTasks, PartOf, Parts, AllParts
  <2>2. CASE t.op = "reset"
    BY <1>1, <2>2 DEF StorageTasks, PartOf, AllParts, Kinds
  <2>3. CASE t.op = "write"
    BY <1>2, <2>3 DEF PartOf
  <2> QED
    BY <2>1, <2>2, <2>3 DEF StorageTasks
<1>4. \A p \in Parts : p \in AllParts
  BY DEF Parts, AllParts
<1>5. Len(rs) \in Nat /\ Len(ts) \in Nat
  OBVIOUS
<1>6. ASSUME NEW k \in Places PROVE WayOf(rs, ts)[k] \in AllParts
  <2>1. CASE k <= Len(rs)
    <3>1. rs[k] \in Parts
      BY <2>1, <1>5 DEF Places
    <3> QED
      BY <1>4, <2>1, <3>1 DEF WayOf
  <2>2. CASE ~(k <= Len(rs)) /\ k <= Len(rs) + Len(ts)
    <3>1. ts[k - Len(rs)] \in StorageTasks
      <4>1. k - Len(rs) \in 1..Len(ts)
        BY <1>5, <2>2 DEF Places
      <4> QED
        BY <4>1
    <3> QED
      BY <1>3, <2>2, <3>1 DEF WayOf
  <2>3. CASE ~(k <= Len(rs)) /\ ~(k <= Len(rs) + Len(ts))
    BY <1>2, <2>3 DEF WayOf
  <2> QED
    BY <2>1, <2>2, <2>3
<1>7. WayOf(rs, ts) = [k \in Places |-> WayOf(rs, ts)[k]]
  BY DEF WayOf
<1>8. \A k \in Places : k > Len(rs) + Len(ts) => WayOf(rs, ts)[k] = Nothing
  BY <1>5 DEF WayOf, Places
<1> QED
  BY <1>5, <1>6, <1>7, <1>8

(* What the storage queue gets comes last; what it only writes is nowhere.   *)
LEMMA WayAppend ==
    ASSUME NEW rs \in Seq(Parts), NEW ts \in Seq(StorageTasks), NEW t \in StorageTasks
    PROVE  Placed(WayOf(rs, Append(ts, t)), WayOf(rs, ts), Len(rs) + Len(ts) + 1, PartOf(t))
<1>1. Len(rs) \in Nat /\ Len(ts) \in Nat /\ Len(Append(ts, t)) = Len(ts) + 1
  OBVIOUS
<1>2. \A i \in 1..Len(ts) : Append(ts, t)[i] = ts[i]
  OBVIOUS
<1>3. Append(ts, t)[Len(ts) + 1] = t
  OBVIOUS
<1> DEFINE ns == Append(ts, t)
           w == WayOf(rs, ts)
           place == Len(rs) + Len(ts) + 1
<1> HIDE DEF ns
<1>4. ASSUME NEW k \in Places PROVE WayOf(rs, ns)[k] = IF k = place THEN PartOf(t) ELSE w[k]
  <2>1. CASE k <= Len(rs)
    BY <1>1, <2>1 DEF WayOf, Places
  <2>2. CASE ~(k <= Len(rs)) /\ k <= Len(rs) + Len(ts)
    <3>1. k - Len(rs) \in 1..Len(ts)
      BY <1>1, <2>2 DEF Places
    <3>2. ns[k - Len(rs)] = ts[k - Len(rs)]
      BY <1>2, <3>1 DEF ns
    <3>3. Len(ns) = Len(ts) + 1
      BY <1>1 DEF ns
    <3> QED
      BY <1>1, <2>2, <3>2, <3>3 DEF WayOf, Places
  <2>3. CASE k = Len(rs) + Len(ts) + 1
    <3>1. k - Len(rs) = Len(ts) + 1 /\ ~(k <= Len(rs)) /\ k <= Len(rs) + Len(ns)
      BY <1>1, <2>3 DEF Places, ns
    <3>2. WayOf(rs, ns)[k] = PartOf(t)
      BY <1>3, <3>1 DEF WayOf, ns
    <3> QED
      BY <2>3, <3>2 DEF WayOf
  <2>4. CASE k > Len(rs) + Len(ts) + 1
    <3>1. ~(k <= Len(rs)) /\ ~(k <= Len(rs) + Len(ns)) /\ ~(k <= Len(rs) + Len(ts)) /\ k # place
      BY <1>1, <2>4 DEF Places, ns
    <3> QED
      BY <3>1 DEF WayOf
  <2>5. \/ k <= Len(rs)
        \/ ~(k <= Len(rs)) /\ k <= Len(rs) + Len(ts)
        \/ k = Len(rs) + Len(ts) + 1
        \/ k > Len(rs) + Len(ts) + 1
    BY <1>1 DEF Places
  <2> HIDE DEF w, place
  <2> QED
    BY <2>1, <2>2, <2>3, <2>4, <2>5
<1>5. place \in Places
  BY <1>1 DEF Places
<1> HIDE DEF w, place
<1>6. Placed(WayOf(rs, ns), w, place, PartOf(t))
  BY <1>4, <1>5 DEF Placed
<1> QED
  BY <1>6 DEF ns, w, place

LEMMA WayWrite ==
    ASSUME NEW rs \in Seq(Parts), NEW ts \in Seq(StorageTasks), NEW t \in StorageTasks, t.op = "write"
    PROVE  WayOf(rs, Append(ts, t)) = WayOf(rs, ts)
<1> DEFINE w == WayOf(rs, ts)
           place == Len(rs) + Len(ts) + 1
<1>1. Placed(WayOf(rs, Append(ts, t)), w, place, Nothing)
  <2>1. PartOf(t) = Nothing
    BY DEF PartOf
  <2> QED
    BY <2>1, WayAppend
<1>2. Len(rs) \in Nat /\ Len(ts) \in Nat /\ place \in Places
  BY DEF Places
<1>3. w[place] = Nothing
  BY <1>2 DEF WayOf
<1>4. /\ w = [k \in Places |-> w[k]]
      /\ WayOf(rs, Append(ts, t)) = [k \in Places |-> WayOf(rs, Append(ts, t))[k]]
  BY DEF WayOf
<1> HIDE DEF w, place
<1>5. \A k \in Places : WayOf(rs, Append(ts, t))[k] = w[k]
  BY <1>1, <1>3 DEF Placed
<1> QED
  BY <1>4, <1>5 DEF w

(* The stage queue takes the first part.                                     *)
LEMMA WayTail ==
    ASSUME NEW rs \in Seq(Parts), rs # <<>>, NEW ts \in Seq(StorageTasks)
    PROVE  /\ WayOf(Tail(rs), ts) = Without(WayOf(rs, ts), 1)
           /\ WayOf(rs, ts)[1] = Head(rs)
<1> DEFINE ns == Tail(rs)
<1>1. /\ Len(rs) \in Nat /\ Len(ts) \in Nat /\ Len(rs) >= 1 /\ Len(ns) = Len(rs) - 1
      /\ Head(rs) = rs[1]
  OBVIOUS
<1>2. \A i \in 1..Len(ns) : ns[i] = rs[i + 1]
  OBVIOUS
<1> HIDE DEF ns
<1>3. ASSUME NEW k \in Places PROVE WayOf(ns, ts)[k] = WayOf(rs, ts)[k + 1]
  <2>1. k + 1 \in Places /\ ~(k < 1)
    BY DEF Places
  <2>2. CASE k <= Len(ns)
    <3>1. ns[k] = rs[k + 1] /\ k + 1 <= Len(rs)
      BY <1>1, <1>2, <2>2 DEF Places
    <3> QED
      BY <2>1, <2>2, <3>1 DEF WayOf
  <2>3. CASE ~(k <= Len(ns)) /\ k <= Len(ns) + Len(ts)
    <3>1. ~(k + 1 <= Len(rs)) /\ k + 1 <= Len(rs) + Len(ts) /\ k - Len(ns) = (k + 1) - Len(rs)
      BY <1>1, <2>3 DEF Places
    <3> QED
      BY <2>1, <2>3, <3>1 DEF WayOf
  <2>4. CASE ~(k <= Len(ns)) /\ ~(k <= Len(ns) + Len(ts))
    <3>1. ~(k + 1 <= Len(rs)) /\ ~(k + 1 <= Len(rs) + Len(ts))
      BY <1>1, <2>4 DEF Places
    <3> QED
      BY <2>1, <2>4, <3>1 DEF WayOf
  <2> QED
    BY <2>2, <2>3, <2>4
<1>4. \A k \in Places : ~(k < 1)
  BY DEF Places
<1>5. Without(WayOf(rs, ts), 1) = [k \in Places |-> WayOf(rs, ts)[k + 1]]
  BY <1>4 DEF Without
<1>6. WayOf(ns, ts) = [k \in Places |-> WayOf(ns, ts)[k]]
  BY DEF WayOf
<1>7. WayOf(rs, ts)[1] = Head(rs)
  BY <1>1 DEF WayOf, Places
<1> QED
  BY <1>3, <1>5, <1>6, <1>7 DEF ns

(* A task of the storage queue posts its part, or is nowhere on the way.     *)
LEMMA WayPosted ==
    ASSUME NEW rs \in Seq(Parts), NEW ts \in Seq(StorageTasks), ts # <<>>,
           NEW p \in Parts, p = PartOf(Head(ts))
    PROVE  WayOf(Append(rs, p), Tail(ts)) = WayOf(rs, ts)
<1> DEFINE ns == Append(rs, p)
           ms == Tail(ts)
<1>1. /\ Len(rs) \in Nat /\ Len(ts) \in Nat /\ Len(ts) >= 1 /\ Len(ms) = Len(ts) - 1
      /\ Head(ts) = ts[1] /\ Len(ns) = Len(rs) + 1 /\ ns[Len(rs) + 1] = p
  OBVIOUS
<1>2. \A i \in 1..Len(ms) : ms[i] = ts[i + 1]
  OBVIOUS
<1>3. \A i \in 1..Len(rs) : ns[i] = rs[i]
  OBVIOUS
<1> HIDE DEF ns, ms
<1>4. ASSUME NEW k \in Places PROVE WayOf(ns, ms)[k] = WayOf(rs, ts)[k]
  <2>1. CASE k <= Len(rs)
    <3>1. ns[k] = rs[k] /\ k <= Len(ns)
      BY <1>1, <1>3, <2>1 DEF Places
    <3> QED
      BY <2>1, <3>1 DEF WayOf
  <2>2. CASE k = Len(rs) + 1
    <3>1. ns[k] = p /\ k <= Len(ns) /\ ~(k <= Len(rs)) /\ k <= Len(rs) + Len(ts) /\ k - Len(rs) = 1
      BY <1>1, <2>2 DEF Places
    <3>2. WayOf(ns, ms)[k] = p
      BY <3>1 DEF WayOf
    <3>3. WayOf(rs, ts)[k] = PartOf(ts[1])
      BY <3>1 DEF WayOf
    <3> QED
      BY <1>1, <3>2, <3>3
  <2>3. CASE k > Len(rs) + 1 /\ k <= Len(rs) + Len(ts)
    <3>1. /\ ~(k <= Len(ns)) /\ k <= Len(ns) + Len(ms) /\ ~(k <= Len(rs))
          /\ k - Len(ns) \in 1..Len(ms) /\ (k - Len(ns)) + 1 = k - Len(rs)
      BY <1>1, <2>3 DEF Places
    <3>2. ms[k - Len(ns)] = ts[k - Len(rs)]
      BY <1>2, <3>1
    <3> QED
      BY <2>3, <3>1, <3>2 DEF WayOf
  <2>4. CASE k > Len(rs) + Len(ts)
    <3>1. ~(k <= Len(ns)) /\ ~(k <= Len(ns) + Len(ms)) /\ ~(k <= Len(rs)) /\ ~(k <= Len(rs) + Len(ts))
      BY <1>1, <2>4 DEF Places
    <3> QED
      BY <3>1 DEF WayOf
  <2> QED
    BY <1>1, <2>1, <2>2, <2>3, <2>4 DEF Places
<1>5. /\ WayOf(ns, ms) = [k \in Places |-> WayOf(ns, ms)[k]]
      /\ WayOf(rs, ts) = [k \in Places |-> WayOf(rs, ts)[k]]
  BY DEF WayOf
<1> QED
  BY <1>4, <1>5 DEF ns, ms

LEMMA WayStored ==
    ASSUME NEW rs \in Seq(Parts), NEW ts \in Seq(StorageTasks), ts # <<>>
    PROVE  /\ WayOf(rs, Tail(ts)) = Without(WayOf(rs, ts), Len(rs) + 1)
           /\ WayOf(rs, ts)[Len(rs) + 1] = PartOf(Head(ts))
           /\ Len(rs) + 1 \in Places
<1> DEFINE ms == Tail(ts)
           w == WayOf(rs, ts)
<1>1. /\ Len(rs) \in Nat /\ Len(ts) \in Nat /\ Len(ts) >= 1 /\ Len(ms) = Len(ts) - 1
      /\ Head(ts) = ts[1]
  OBVIOUS
<1>2. \A i \in 1..Len(ms) : ms[i] = ts[i + 1]
  OBVIOUS
<1> HIDE DEF ms
<1>3. ASSUME NEW k \in Places PROVE WayOf(rs, ms)[k] = IF k < Len(rs) + 1 THEN w[k] ELSE w[k + 1]
  <2>1. CASE k <= Len(rs)
    <3>1. k < Len(rs) + 1
      BY <1>1, <2>1 DEF Places
    <3> QED
      BY <2>1, <3>1 DEF WayOf
  <2>2. CASE ~(k <= Len(rs)) /\ k <= Len(rs) + Len(ms)
    <3>1. /\ ~(k < Len(rs) + 1) /\ ~(k + 1 <= Len(rs)) /\ k + 1 <= Len(rs) + Len(ts)
          /\ k - Len(rs) \in 1..Len(ms) /\ (k - Len(rs)) + 1 = (k + 1) - Len(rs) /\ k + 1 \in Places
      BY <1>1, <2>2 DEF Places
    <3>2. ms[k - Len(rs)] = ts[(k + 1) - Len(rs)]
      BY <1>2, <3>1
    <3>3. w[k + 1] = PartOf(ts[(k + 1) - Len(rs)])
      BY <3>1 DEF WayOf
    <3>4. WayOf(rs, ms)[k] = PartOf(ms[k - Len(rs)])
      BY <2>2 DEF WayOf
    <3> QED
      BY <3>1, <3>2, <3>3, <3>4
  <2>3. CASE ~(k <= Len(rs)) /\ ~(k <= Len(rs) + Len(ms))
    <3>1. /\ ~(k < Len(rs) + 1) /\ ~(k + 1 <= Len(rs)) /\ ~(k + 1 <= Len(rs) + Len(ts)) /\ k + 1 \in Places
      BY <1>1, <2>3 DEF Places
    <3>2. w[k + 1] = Nothing
      BY <3>1 DEF WayOf
    <3>3. WayOf(rs, ms)[k] = Nothing
      BY <2>3 DEF WayOf
    <3> QED
      BY <3>1, <3>2, <3>3
  <2> QED
    BY <2>1, <2>2, <2>3
<1>4. WayOf(rs, ms) = [k \in Places |-> WayOf(rs, ms)[k]]
  BY DEF WayOf
<1>5. Len(rs) + 1 \in Places /\ ~(Len(rs) + 1 <= Len(rs)) /\ Len(rs) + 1 <= Len(rs) + Len(ts) /\ (Len(rs) + 1) - Len(rs) = 1
  BY <1>1 DEF Places
<1>6. w[Len(rs) + 1] = PartOf(Head(ts))
  BY <1>1, <1>5 DEF WayOf
<1> QED
  BY <1>3, <1>4, <1>5, <1>6 DEF Without, ms

-----------------------------------------------------------------------------
(* A difference under way, on a way w that is read without its place r: one  *)
(* where nothing was, or the first one.                                      *)
LEMMA WithoutNothing ==
    ASSUME NEW w \in [Places -> AllParts], NEW r \in Places, w[r].kind = "none",
           NEW d, NEW a, FlightInv(w, d, a)
    PROVE  FlightInv(Without(w, r), d, a)
<1> DEFINE v == Without(w, r)
           new(k) == IF k < r THEN k ELSE k + 1
           old(k) == IF k < r THEN k ELSE k - 1
<1>1. \A k \in Places : new(k) \in Places /\ v[k] = w[new(k)]
  BY DEF Without, Places
<1>2. \A k \in Places : w[k].kind # "none" => old(k) \in Places /\ v[old(k)] = w[k] /\ new(old(k)) = k
  BY DEF Without, Places
<1>3. \A j \in Places, k \in Places : j > k => new(j) > new(k)
  BY DEF Places
<1> HIDE DEF v, new, old
<1>5. Alone(v, d)
  BY <1>1, <1>3 DEF FlightInv, Alone
<1>6. Reaches(v, d)
  BY <1>1 DEF FlightInv, Reaches
<1>7. Idle(v, d)
  BY <1>1 DEF FlightInv, Idle
<1>8. ASSUME NEW from, Front(w, d, from) PROVE Front(v, d, from)
  <2> SUFFICES ASSUME NEW b \in {"pts", "qts"}
               PROVE  \/ from[b] <= d.last[b] /\ \A k \in Places : v[k].kind # "slice"
                      \/ \E k \in Places : /\ v[k].kind = "slice" /\ from[b] <= v[k].to[b]
                                           /\ \A j \in Places : j > k => v[j].kind # "slice"
    BY DEF Front
  <2>1. CASE from[b] <= d.last[b] /\ \A k \in Places : w[k].kind # "slice"
    BY <1>1, <2>1
  <2>2. ASSUME NEW k \in Places, w[k].kind = "slice", from[b] <= w[k].to[b],
               \A j \in Places : j > k => w[j].kind # "slice"
        PROVE  /\ old(k) \in Places /\ v[old(k)].kind = "slice" /\ from[b] <= v[old(k)].to[b]
               /\ \A j \in Places : j > old(k) => v[j].kind # "slice"
    <3>1. old(k) \in Places /\ v[old(k)] = w[k] /\ new(old(k)) = k
      BY <1>2, <2>2
    <3> QED
      BY <1>1, <1>3, <2>2, <3>1
  <2> QED
    BY <1>8, <2>1, <2>2 DEF Front
<1>9. Fronts(v, d)
  BY <1>1, <1>8 DEF FlightInv, Fronts
<1> QED
  BY <1>5, <1>6, <1>7, <1>9 DEF FlightInv, v

(* When nothing is on the way, a difference may be asked for.                *)
LEMMA NothingUnderWay ==
    ASSUME NEW w, \A k \in Places : w[k].kind = "none",
           NEW d, d.reset = None,
           \/ d.request = None
           \/ d.getting /\ \A b \in {"pts", "qts"} : d.request[b] <= d.last[b]
    PROVE  FlightInv(w, d, None)
<1>1. \A k \in Places : w[k].kind \notin Enders /\ w[k].kind # "slice"
  BY DEF Enders
<1>2. Alone(w, d) /\ Reaches(w, d) /\ Idle(w, d)
  BY <1>1 DEF Alone, Reaches, Idle, Enders
<1>3. Asked(d, None)
  BY DEF Asked
<1>4. d.request # None => Front(w, d, d.request)
  BY <1>1 DEF Front
<1>5. Fronts(w, d)
  BY <1>1, <1>4 DEF Fronts, Enders
<1> QED
  BY <1>2, <1>3, <1>5 DEF FlightInv

(* Handlers that leave the difference under way alone, or ask for one.       *)
Moves(d, n) ==
    /\ Orderly(n) /\ n.reset = d.reset /\ n.outrun = d.outrun
    /\ \A b \in Boxes : d.last[b] <= n.last[b]
    /\ SameFlight(d, n) \/ AsksNow(d, n)
    /\ AllRemembered(d) => AllRemembered(n)

LEMMA MovesKeepFlight ==
    ASSUME world \in Worlds, NEW d, Orderly(d), NEW n, Moves(d, n),
           NEW w \in [Places -> AllParts], NEW a, FlightInv(w, d, a)
    PROVE  FlightInv(w, n, a)
<1>1. d.last \in Points /\ n.last \in Points /\ d.request \in Points \cup {None}
  BY ClientFields DEF Orderly, Moves
<1>2. \A b \in Boxes : d.last[b] \in Nat /\ n.last[b] \in Nat
  BY <1>1, PointsAreNumbers
<1>3. CASE SameFlight(d, n)
  <2>1. Alone(w, n) /\ Reaches(w, n) /\ Asked(n, a) /\ Idle(w, n)
    BY <1>3 DEF FlightInv, Moves, SameFlight, Alone, Reaches, Asked, Idle
  <2>2. ASSUME NEW from \in Points, Front(w, d, from) PROVE Front(w, n, from)
    <3> SUFFICES ASSUME NEW b \in {"pts", "qts"}, from[b] <= d.last[b] PROVE from[b] <= n.last[b]
      BY <2>2 DEF Front
    <3>1. b \in Boxes
      BY DEF Boxes
    <3>2. from[b] \in Nat
      BY <3>1, PointsAreNumbers
    <3> QED
      BY <1>2, <3>1, <3>2 DEF Moves
  <2>3. \A k \in Places : w[k].from \in Points
    BY DEF AllParts
  <2>4. Fronts(w, n)
    BY <1>1, <1>3, <2>2, <2>3 DEF FlightInv, Fronts, Moves, SameFlight
  <2> QED
    BY <2>1, <2>4 DEF FlightInv
<1>4. CASE AsksNow(d, n)
  <2>1. ~d.getting /\ d.request = None /\ d.reset = None /\ a = None
    BY <1>4 DEF AsksNow, FlightInv, Asked
  <2>2. \A k \in Places : w[k].kind \notin Enders
    BY <2>1 DEF FlightInv, Alone
  <2>3. Alone(w, n) /\ Reaches(w, n)
    BY <2>2 DEF Alone, Reaches, Enders
  <2>4. Asked(n, a) /\ Idle(w, n)
    BY <1>4, <2>1 DEF Asked, Idle, AsksNow, Moves
  <2>5. Fronts(w, n)
    <3> SUFFICES ASSUME ~n.outrun PROVE Front(w, n, n.request)
      BY <2>2 DEF Fronts, Enders
    <3>1. \A k \in Places : w[k].kind # "slice"
      BY <2>1 DEF FlightInv, Idle, Moves
    <3> QED
      BY <1>4, <3>1 DEF Front, AsksNow, Boxes
  <2> QED
    BY <2>3, <2>4, <2>5 DEF FlightInv
<1> QED
  BY <1>3, <1>4 DEF Moves

(* While a request or a reset of dialogs is going on, no last part is.       *)
LEMMA NoEnderYet ==
    ASSUME NEW w, NEW d, NEW a, FlightInv(w, d, a), d.request # None \/ d.reset # None
    PROVE  /\ \A k \in Places : w[k].kind \notin Enders
           /\ d.getting
BY DEF FlightInv, Alone, Asked

(* The answer is on its way.                                                 *)
LEMMA AnswerKeepsFlight ==
    ASSUME NEW w, NEW d, FlightInv(w, d, None), d.request # None,
           NEW n, n.getting = d.getting, n.request = d.request, n.reset = d.reset,
           n.outrun = d.outrun, n.last = d.last,
           NEW a, a.from = d.request, a.kind = "empty" => a.to = a.from,
           a.kind \in {"difference", "empty"} => n.cover = a.to
    PROVE  FlightInv(w, n, a)
<1>1. \A k \in Places : w[k].kind \notin Enders
  BY NoEnderYet
<1>2. Alone(w, n) /\ Reaches(w, n)
  BY <1>1 DEF Alone, Reaches, Enders
<1>3. Asked(n, a) /\ Idle(w, n)
  BY DEF FlightInv, Asked, Idle
<1>4. Fronts(w, n)
  BY DEF FlightInv, Fronts, Front
<1> QED
  BY <1>2, <1>3, <1>4 DEF FlightInv

(* A slice has arrived: it goes on its way, and the next one is asked for.   *)
LEMMA SliceKeepsFlight ==
    ASSUME NEW w \in [Places -> AllParts], NEW d, NEW a, FlightInv(w, d, a), d.request # None,
           world \in Worlds,
           NEW m \in Places, \A k \in Places : k >= m => w[k].kind = "none",
           NEW p \in AllParts, p.kind = "slice", NEW v, Placed(v, w, m, p),
           NEW n, n.getting, n.request = p.to, n.reset = d.reset
    PROVE  FlightInv(v, n, None)
<1>1. \A k \in Places : w[k].kind \notin Enders
  BY NoEnderYet
<1>2. v[m] = p /\ \A k \in Places : k # m => v[k] = w[k]
  BY DEF Placed
<1>3. \A k \in Places : v[k].kind \notin Enders
  BY <1>1, <1>2 DEF Enders
<1>4. Alone(v, n) /\ Reaches(v, n)
  BY <1>3 DEF Alone, Reaches, Enders
<1>5. Asked(n, None) /\ Idle(v, n)
  BY DEF FlightInv, Asked, Idle
<1>6. \A b \in {"pts", "qts"} : p.to[b] \in Nat
  <2>1. p.to \in Points
    BY DEF AllParts
  <2> QED
    BY <2>1, PointsAreNumbers DEF Boxes
<1>7. \A j \in Places : j > m => v[j].kind # "slice"
  BY <1>2 DEF Places
<1>8. Front(v, n, n.request)
  BY <1>2, <1>6, <1>7 DEF Front
<1>9. Fronts(v, n)
  BY <1>3, <1>8 DEF Fronts, Enders
<1> QED
  BY <1>4, <1>5, <1>9 DEF FlightInv

(* The last part goes on its way.                                            *)
LEMMA EnderKeepsFlight ==
    ASSUME NEW w \in [Places -> AllParts], NEW d, NEW a, FlightInv(w, d, a),
           d.request # None \/ d.reset # None, world \in Worlds,
           NEW m \in Places, \A k \in Places : k >= m => w[k].kind = "none",
           NEW p \in AllParts, p.kind \in Enders, NEW v, Placed(v, w, m, p),
           NEW n, n.getting = d.getting, n.request = None, n.reset = None,
           n.outrun = d.outrun, n.last = d.last, n.cover = d.cover,
           p.kind \in {"difference", "empty"} => a = p /\ a # None
    PROVE  FlightInv(v, n, None)
<1>1. d.getting /\ \A k \in Places : w[k].kind \notin Enders
  BY NoEnderYet
<1>2. v[m] = p /\ \A k \in Places : k # m => v[k] = w[k]
  BY DEF Placed
<1>3. \A k \in Places : v[k].kind \in Enders => k = m
  BY <1>1, <1>2
<1>4. \A j \in Places : j > m => v[j].kind = "none"
  BY <1>2 DEF Places
<1>5. Alone(v, n)
  BY <1>1, <1>3, <1>4 DEF Alone
<1>6. p.kind \in {"difference", "empty"} =>
        p.from = d.request /\ d.cover = p.to /\ (p.kind = "empty" => p.to = p.from)
  BY DEF FlightInv, Asked
<1>7. \A b \in Boxes : p.to[b] <= p.to[b]
  <2>1. p.to \in Points
    BY DEF AllParts
  <2> QED
    BY <2>1, PointsAreNumbers
<1>8. Reaches(v, n)
  BY <1>2, <1>3, <1>6, <1>7 DEF Reaches, Enders
<1>9. Asked(n, None) /\ Idle(v, n)
  BY <1>1 DEF Asked, Idle
<1>10. ASSUME p.kind = "empty", ~d.outrun PROVE Front(v, n, p.from)
  <2>1. a # None /\ p.from = d.request /\ d.request # None
    BY <1>6, <1>10 DEF FlightInv, Asked
  <2>2. Front(w, d, p.from)
    BY <1>10, <2>1 DEF FlightInv, Fronts
  <2> SUFFICES ASSUME NEW b \in {"pts", "qts"}
               PROVE  \/ p.from[b] <= d.last[b] /\ \A k \in Places : v[k].kind # "slice"
                      \/ \E k \in Places : /\ v[k].kind = "slice" /\ p.from[b] <= v[k].to[b]
                                           /\ \A j \in Places : j > k => v[j].kind # "slice"
    BY DEF Front
  <2>3. v[m].kind # "slice"
    BY <1>2, <1>10
  <2>4. CASE p.from[b] <= d.last[b] /\ \A k \in Places : w[k].kind # "slice"
    BY <1>2, <2>3, <2>4
  <2>5. ASSUME NEW k \in Places, w[k].kind = "slice", p.from[b] <= w[k].to[b],
               \A j \in Places : j > k => w[j].kind # "slice"
        PROVE  /\ v[k].kind = "slice" /\ p.from[b] <= v[k].to[b]
               /\ \A j \in Places : j > k => v[j].kind # "slice"
    <3>1. k # m
      BY <2>5 DEF Places
    <3> QED
      BY <1>2, <2>3, <2>5, <3>1
  <2> QED
    BY <2>2, <2>4, <2>5 DEF Front
<1>11. Fronts(v, n)
  BY <1>2, <1>3, <1>10 DEF Fronts, Enders
<1> QED
  BY <1>5, <1>8, <1>9, <1>11 DEF FlightInv

(* A request has failed, or the answer is that the difference is too long,   *)
(* or a reset of dialogs goes on or fails: nothing is put on the way.        *)
LEMMA SameWayKeepsFlight ==
    ASSUME NEW w \in [Places -> AllParts], NEW d, NEW a, FlightInv(w, d, a),
           d.request # None \/ d.reset # None,
           NEW n, n.request = None, n.reset # None => n.getting,
           n.getting \/ n.outrun \/ \A k \in Places : w[k].kind # "slice"
    PROVE  FlightInv(w, n, None)
<1>1. \A k \in Places : w[k].kind \notin Enders
  BY NoEnderYet
<1>2. Alone(w, n) /\ Reaches(w, n) /\ Fronts(w, n)
  BY <1>1 DEF Alone, Reaches, Fronts, Enders
<1>3. Asked(n, None)
  BY DEF Asked
<1>4. Idle(w, n)
  <2> SUFFICES ASSUME ~n.outrun, ~n.getting, NEW k \in Places PROVE w[k].kind = "none"
    BY DEF Idle
  <2>1. w[k].kind \in Kinds \cup {"none"}
    BY DEF AllParts
  <2> QED
    BY <1>1, <2>1 DEF Kinds, Enders
<1> QED
  BY <1>2, <1>3, <1>4 DEF FlightInv

(* The first slice is applied.                                               *)
LEMMA AppliedSliceKeepsFlight ==
    ASSUME NEW w \in [Places -> AllParts], NEW d, NEW a, FlightInv(w, d, a), w[1].kind = "slice",
           NEW n, n.getting = d.getting, n.request = d.request, n.reset = d.reset,
           n.cover = d.cover, n.outrun = d.outrun,
           n.last["pts"] = w[1].to["pts"], n.last["qts"] = w[1].to["qts"]
    PROVE  FlightInv(Without(w, 1), n, a)
<1> DEFINE v == Without(w, 1)
<1>1. \A k \in Places : k + 1 \in Places /\ v[k] = w[k + 1]
  BY DEF Without, Places
<1>2. \A k \in Places : k # 1 => k - 1 \in Places /\ v[k - 1] = w[k]
  BY DEF Without, Places
<1>3. \A j \in Places, k \in Places : j > k => j + 1 > k + 1
  BY DEF Places
<1> HIDE DEF v
<1>4. Alone(v, n)
  BY <1>1, <1>3 DEF FlightInv, Alone
<1>5. Reaches(v, n) /\ Asked(n, a) /\ Idle(v, n)
  BY <1>1 DEF FlightInv, Reaches, Asked, Idle
<1>6. ASSUME NEW from, Front(w, d, from) PROVE Front(v, n, from)
  <2> SUFFICES ASSUME NEW b \in {"pts", "qts"}
               PROVE  \/ from[b] <= n.last[b] /\ \A k \in Places : v[k].kind # "slice"
                      \/ \E k \in Places : /\ v[k].kind = "slice" /\ from[b] <= v[k].to[b]
                                           /\ \A j \in Places : j > k => v[j].kind # "slice"
    BY DEF Front
  <2>1. 1 \in Places
    BY DEF Places
  <2>2. PICK k \in Places : /\ w[k].kind = "slice" /\ from[b] <= w[k].to[b]
                            /\ \A j \in Places : j > k => w[j].kind # "slice"
    BY <1>6, <2>1 DEF Front
  <2>3. CASE k = 1
    <3>1. \A j \in Places : v[j].kind # "slice"
      <4> TAKE j \in Places
      <4>1. j + 1 > k /\ j + 1 \in Places
        BY <2>3 DEF Places
      <4> QED
        BY <1>1, <2>2, <4>1
    <3> QED
      BY <2>2, <2>3, <3>1
  <2>4. CASE k # 1
    <3>1. k - 1 \in Places /\ v[k - 1] = w[k]
      BY <1>2, <2>4
    <3>2. \A j \in Places : j > k - 1 => v[j].kind # "slice"
      <4> TAKE j \in Places
      <4>1. j > k - 1 => j + 1 > k /\ j + 1 \in Places
        BY DEF Places
      <4> QED
        BY <1>1, <2>2, <4>1
    <3> QED
      BY <2>2, <3>1, <3>2
  <2> QED
    BY <2>3, <2>4
<1>7. Fronts(v, n)
  BY <1>1, <1>6 DEF FlightInv, Fronts
<1> QED
  BY <1>4, <1>5, <1>7 DEF FlightInv, v

(* Nothing is left behind the last part.                                     *)
LEMMA NothingBehindEnder ==
    ASSUME NEW w \in [Places -> AllParts], NEW d, NEW a, FlightInv(w, d, a), w[1].kind \in Enders
    PROVE  /\ \A k \in Places : Without(w, 1)[k].kind = "none"
           /\ d.getting /\ d.request = None /\ d.reset = None /\ a = None
<1>1. \A k \in Places : Without(w, 1)[k] = w[k + 1] /\ k + 1 \in Places /\ k + 1 > 1
  BY DEF Without, Places
<1>2. 1 \in Places
  BY DEF Places
<1> QED
  BY <1>1, <1>2 DEF FlightInv, Alone, Asked

-----------------------------------------------------------------------------
(* The invariant of the specification, and what follows from it.             *)
StoreTypes ==
    /\ answer \in [kind : AnswerKinds, from : Points, to : Points] \cup {None}
    /\ tasks \in Seq(StorageTasks) /\ ready \in Seq(Parts)
    /\ disk \in [last : Points, units : Stored]

TypeInv ==
    /\ world \in Worlds /\ SentInv /\ results \subseteq {u \in sent : u.own}
    /\ Orderly(c) /\ StoreTypes

HoleInv == TypeInv /\ FlightInv(Way, c, answer) /\ HoleRemembered

LEMMA TypeInvImplies == TypeInv => TypeOK
BY DEF TypeInv, TypeOK, SentInv, Orderly, StoreTypes

LEMMA RememberedIsHole == HoleRemembered <=> (c.outrun \/ AllRemembered(c))
BY DEF HoleRemembered, AllRemembered, Remembered

(* In one world types are the same.                                          *)
LEMMA SameTypes ==
    ASSUME world' = world
    PROVE  /\ Limit' = Limit /\ Updates' = Updates /\ Points' = Points /\ Client' = Client
           /\ Parts' = Parts /\ StorageTasks' = StorageTasks /\ AllParts' = AllParts
<1>1. Limit' = Limit
  BY DEF Limit
<1>2. Updates' = Updates /\ Points' = Points
  BY <1>1 DEF Updates, Points
<1> QED
  BY <1>1, <1>2 DEF Client, Parts, StorageTasks, AllParts

LEMMA OrderlyNext ==
    ASSUME world' = world, sent \subseteq sent', Orderly(c')
    PROVE  Orderly(c)'
<1>1. Client' = Client
  BY SameTypes
<1>2. c' \in Client /\ c'.owed \subseteq sent'
  BY DEF Orderly
<1>3. \A b \in Boxes : /\ c'.queue[b] \subseteq {u \in sent' : u.box = b}
                       /\ c'.queue[b] # {} => c'.wait[b] # "none"
  BY DEF Orderly
<1> QED
  BY <1>1, <1>2, <1>3 DEF Orderly

(* What a step has to show.                                                  *)
LEMMA HoleInvNext ==
    ASSUME HoleInv, sent' = sent, world' = world, results' \subseteq results,
           Orderly(c'), c'.outrun \/ AllRemembered(c'),
           answer' \in [kind : AnswerKinds, from : Points, to : Points] \cup {None},
           tasks' \in Seq(StorageTasks), ready' \in Seq(Parts),
           disk' \in [last : Points, units : Stored],
           FlightInv(WayOf(ready', tasks'), c', answer')
    PROVE  HoleInv'
<1>1. Orderly(c)'
  BY OrderlyNext
<1>2. SentInv' /\ world' \in Worlds /\ results' \subseteq {u \in sent' : u.own}
  BY SameTypes DEF HoleInv, TypeInv, SentInv
<1>3. StoreTypes'
  BY SameTypes DEF StoreTypes
<1>4. TypeInv'
  BY <1>1, <1>2, <1>3 DEF TypeInv
<1>5. FlightInv(Way, c, answer)'
  BY DEF Way
<1>6. HoleRemembered'
  BY DEF HoleRemembered, AllRemembered, Remembered
<1> QED
  BY <1>4, <1>5, <1>6 DEF HoleInv

LEMMA UnitsAreStored ==
    ASSUME world \in Worlds, NEW b \in Boxes, NEW lo \in Nat, NEW hi \in Nat
    PROVE  Units(b, lo, hi) \in Stored
BY DEF Units, Stored

LEMMA UpdatesAreStored ==
    ASSUME world \in Worlds, NEW us, us \subseteq Updates
    PROVE  UnitsOf(us) \in Stored /\ NotOwn(us) \in Stored
<1>1. ASSUME NEW vs, vs \subseteq Updates PROVE UnitsOf(vs) \in Stored
  <2> SUFFICES ASSUME NEW u \in vs PROVE Units(u.box, u.hi - u.n, u.hi) \in Stored
    BY DEF UnitsOf, Stored
  <2>1. u.box \in Boxes /\ u.hi \in Nat /\ u.hi - u.n \in Nat
    BY <1>1, UpdateFields
  <2> QED
    BY <2>1, UnitsAreStored
<1>2. {u \in us : ~u.own} \subseteq Updates
  OBVIOUS
<1> QED
  BY <1>1, <1>2 DEF NotOwn

(* What is written, is written at the end, with what it says it has reached. *)
Wrote(ts, last, put) ==
    \/ put = {} /\ ts = tasks
    \/ \E t \in StorageTasks : /\ t.op = "write" /\ t.put = put /\ t.last = last
                               /\ ts = Append(tasks, t)

LEMMA WriteWrote ==
    ASSUME NEW last \in Points, NEW put \in Stored, NEW dated \in BOOLEAN
    PROVE  Wrote(Write(last, put, dated), last, put)
<1> DEFINE t == [op |-> "write", put |-> put, last |-> last, dated |-> dated]
<1>1. t \in StorageTasks /\ t.op = "write" /\ t.put = put /\ t.last = last
  BY DEF StorageTasks
<1> QED
  BY <1>1 DEF Wrote, Write

LEMMA WroteWay ==
    ASSUME NEW rs \in Seq(Parts), tasks \in Seq(StorageTasks), NEW ts, NEW last, NEW put,
           Wrote(ts, last, put)
    PROVE  ts \in Seq(StorageTasks) /\ WayOf(rs, ts) = WayOf(rs, tasks)
<1>1. CASE ts = tasks
  BY <1>1
<1>2. ASSUME NEW t \in StorageTasks, t.op = "write", ts = Append(tasks, t)
      PROVE  ts \in Seq(StorageTasks) /\ WayOf(rs, ts) = WayOf(rs, tasks)
  BY <1>2, WayWrite
<1> QED
  BY <1>1, <1>2 DEF Wrote

LEMMA MovesStep ==
    ASSUME HoleInv, Moves(c, c'), sent' = sent, world' = world, results' \subseteq results,
           answer' = answer, ready' = ready, disk' = disk,
           NEW last, NEW put, tasks' = tasks \/ Wrote(tasks', last, put)
    PROVE  HoleInv'
<1>1. /\ world \in Worlds /\ Orderly(c) /\ StoreTypes /\ FlightInv(Way, c, answer)
      /\ c.outrun \/ AllRemembered(c)
  BY RememberedIsHole DEF HoleInv, TypeInv
<1>2. tasks' \in Seq(StorageTasks) /\ WayOf(ready', tasks') = Way
  BY <1>1, WroteWay DEF StoreTypes, Way
<1>3. Way \in [Places -> AllParts]
  BY <1>1, WayTypes DEF StoreTypes, Way
<1>4. FlightInv(Way, c', answer)
  BY <1>1, <1>3, MovesKeepFlight
<1>5. Orderly(c') /\ (c'.outrun \/ AllRemembered(c'))
  BY <1>1 DEF Moves
<1> QED
  BY <1>1, <1>2, <1>4, <1>5, HoleInvNext DEF StoreTypes

-----------------------------------------------------------------------------
(* Handlers of the stage queue that bring the client forward: each moves it, *)
(* and writes what the counters have passed.                                 *)
Passes(d, n, put) ==
    \A b \in Boxes : /\ d.base[b] <= n.base[b]
                     /\ Units(b, n.base[b], n.last[b])
                          \subseteq Units(b, d.base[b], d.last[b]) \cup put \cup OwnUnits

MoveStep ==
    /\ Moves(c, c')
    /\ \E put : Wrote(tasks', c'.last, put) /\ Passes(c, c', put)
    /\ results' \subseteq results
    /\ UNCHANGED <<sent, answer, ready, disk, world>>

(* Before the queues are processed.                                          *)
Leads(d, n) ==
    /\ Orderly(n) /\ n.reset = d.reset /\ n.outrun = d.outrun /\ SameFlight(d, n)
    /\ \A b \in Boxes : d.last[b] <= n.last[b]
    /\ AllRemembered(d) => AllKnown(n)

LEMMA LeadsThenBrings ==
    ASSUME world \in Worlds, NEW d, Orderly(d), NEW m, Leads(d, m),
           NEW n, NEW bs, NEW missing, Brings(m, n, bs, missing)
    PROVE  Moves(d, n)
<1>1. d.last \in Points /\ m.last \in Points /\ n.last \in Points
  BY ClientFields DEF Orderly, Leads, Brings
<1>2. \A b \in Boxes : d.last[b] \in Nat /\ m.last[b] \in Nat /\ n.last[b] \in Nat
  BY <1>1, PointsAreNumbers
<1>3. \A b \in Boxes : d.last[b] <= n.last[b]
  BY <1>2 DEF Leads, Brings
<1>4. SameFlight(d, n) \/ AsksNow(d, n)
  BY DEF Leads, Brings, SameFlight, AsksNow
<1> QED
  BY <1>3, <1>4 DEF Moves, Leads, Brings, SameElse

LEMMA LeadsThenPasses ==
    ASSUME world \in Worlds, SentInv, NEW d, Orderly(d), NEW m, Leads(d, m),
           NEW n, NEW bs, NEW missing, Brings(m, n, bs, missing),
           NEW now \in SUBSET sent, Passes(d, m, UnitsOf(now))
    PROVE  /\ Passes(d, n, NotOwn(now \cup AppliedOf(m, bs, missing)))
           /\ NotOwn(now \cup AppliedOf(m, bs, missing)) \in Stored
<1> DEFINE us == now \cup AppliedOf(m, bs, missing)
<1>1. us \subseteq sent /\ sent \subseteq Updates
  BY DEF Brings, SentInv
<1>2. NotOwn(us) \in Stored
  BY <1>1, UpdatesAreStored
<1>3. UnitsOf(us) \subseteq NotOwn(us) \cup OwnUnits
  <2> SUFFICES ASSUME NEW u \in us, NEW x \in Units(u.box, u.hi - u.n, u.hi)
               PROVE  x \in NotOwn(us) \cup OwnUnits
    BY DEF UnitsOf
  <2>1. CASE u.own
    BY <1>1, <2>1 DEF OwnUnits, UnitsOf
  <2>2. CASE ~u.own
    BY <2>2 DEF NotOwn, UnitsOf
  <2> QED
    BY <2>1, <2>2
<1>4. UnitsOf(now) \subseteq UnitsOf(us) /\ UnitsOf(AppliedOf(m, bs, missing)) \subseteq UnitsOf(us)
  BY DEF UnitsOf
<1>5. m.last \in Points /\ n.last \in Points /\ m.base \in Points /\ n.base = m.base
  BY ClientFields DEF Orderly, Leads, Brings, SameElse
<1> HIDE DEF us
<1>6. ASSUME NEW b \in Boxes
      PROVE  /\ d.base[b] <= n.base[b]
             /\ Units(b, n.base[b], n.last[b])
                  \subseteq Units(b, d.base[b], d.last[b]) \cup NotOwn(us) \cup OwnUnits
  <2>1. m.last[b] \in Nat /\ n.last[b] \in Nat /\ m.base[b] \in Nat
    BY <1>5, PointsAreNumbers
  <2>2. Units(b, m.base[b], n.last[b]) \subseteq Units(b, m.base[b], m.last[b]) \cup Units(b, m.last[b], n.last[b])
    BY <2>1, UnitsJoin
  <2>3. Units(b, m.last[b], n.last[b]) \subseteq UnitsOf(us)
    BY <1>4 DEF Brings
  <2>4. Units(b, m.base[b], m.last[b]) \subseteq Units(b, d.base[b], d.last[b]) \cup UnitsOf(us) \cup OwnUnits
    BY <1>4 DEF Passes
  <2> QED
    BY <1>3, <1>5, <2>2, <2>3, <2>4 DEF Passes
<1> QED
  BY <1>2, <1>6 DEF Passes, us

(* Nothing is written when no counter passes anything.                       *)
LEMMA StandsStill ==
    ASSUME NEW d, NEW n, n.last = d.last, n.base = d.base, world \in Worlds, Orderly(d)
    PROVE  Passes(d, n, {})
<1>1. \A b \in Boxes : d.base[b] <= d.base[b]
  BY ClientFields, PointsAreNumbers DEF Orderly
<1> QED
  BY <1>1 DEF Passes

(* The client is told of an update.                                          *)
Hears(d, n, u) ==
    /\ Orderly(n) /\ SameElse(d, n) /\ SameFlight(d, n) /\ SameQueues(d, n)
    /\ n.owed \subseteq d.owed \cup {u}
    /\ u \in n.owed => u \in d.owed \/ u.hi > d.last[u.box]

LEMMA ToldHears ==
    ASSUME NEW d, Orderly(d), NEW u \in sent, SentInv
    PROVE  Hears(d, Told(d, u), u)
<1> DEFINE n == Told(d, u)
<1>1. d \in Client /\ d.owed \in SUBSET Updates /\ u \in Updates
  BY ClientFields DEF Orderly, SentInv
<1>2. /\ n \in Client /\ SameElse(d, n) /\ SameFlight(d, n) /\ SameQueues(d, n)
      /\ n.owed = IF u.hi > d.last[u.box] THEN d.owed \cup {u} ELSE d.owed
  BY <1>1 DEF Told, Client, SameElse, SameFlight, SameQueues
<1> HIDE DEF n
<1>3. Orderly(n)
  BY <1>2 DEF Orderly, SameQueues
<1>4. Hears(d, n, u)
  BY <1>2, <1>3 DEF Hears
<1> QED
  BY <1>4 DEF n

(* It is applied at once.                                                    *)
FitPlace(d, u) ==
    [d EXCEPT !.last[u.box] = u.hi,
              !.base[u.box] = IF (d.last["qts"] = 0 /\ u.box = "qts") /\ u.hi - u.n > @
                              THEN u.hi - u.n ELSE @]

Fits(d, n, u) ==
    /\ Orderly(n) /\ n.reset = d.reset /\ n.outrun = d.outrun /\ SameFlight(d, n)
    /\ n.owed = d.owed /\ n.queue = d.queue
    /\ \A b \in Boxes : d.last[b] <= n.last[b]
    /\ n.last[u.box] = u.hi
    /\ Passes(d, n, UnitsOf({u}))

LEMMA FitPlaceFits ==
    ASSUME world \in Worlds, SentInv, NEW d, Orderly(d), NEW u \in sent, Continues(d, u)
    PROVE  Fits(d, FitPlace(d, u), u)
<1> DEFINE n  == FitPlace(d, u)
           b0 == u.box
           lo == u.hi - u.n
           jumps == d.last["qts"] = 0 /\ u.box = "qts"
<1>1. /\ d \in Client /\ d.last \in Points /\ d.base \in Points /\ b0 \in Boxes
      /\ u.hi \in 1..Max(Range(Limit)) /\ lo \in Nat /\ lo <= u.hi /\ u.n \in Nat /\ u.hi \in Nat
  BY ClientFields, UpdateFields, LimitBounds DEF Orderly, SentInv
<1>2. \A b \in Boxes : d.last[b] \in Nat /\ d.base[b] \in Nat
  BY <1>1, PointsAreNumbers
<1> DEFINE newBase == IF jumps /\ lo > d.base[b0] THEN lo ELSE d.base[b0]
<1>3. u.hi \in 0..Max(Range(Limit)) /\ newBase \in 0..Max(Range(Limit))
  <2>1. Max(Range(Limit)) \in Nat /\ d.base[b0] <= Max(Range(Limit)) /\ d.base[b0] \in Nat
    BY <1>1, PointsAreNumbers, LimitBounds
  <2> QED
    BY <1>1, <2>1
<1>4. [d.last EXCEPT ![b0] = u.hi] \in Points /\ [d.base EXCEPT ![b0] = newBase] \in Points
  BY <1>1, <1>3 DEF Points
<1>5. /\ n.last = [d.last EXCEPT ![b0] = u.hi] /\ n.base = [d.base EXCEPT ![b0] = newBase]
      /\ n.saved = d.saved /\ n.reset = d.reset /\ n.outrun = d.outrun /\ SameFlight(d, n)
      /\ n.owed = d.owed /\ n.queue = d.queue /\ n.wait = d.wait
  BY <1>1 DEF FitPlace, Client, SameFlight
<1>6. n \in Client
  <2>1. n = [d EXCEPT !.last = [d.last EXCEPT ![b0] = u.hi], !.base = [d.base EXCEPT ![b0] = newBase]]
    BY <1>1 DEF FitPlace, Client
  <2> HIDE DEF n
  <2> QED
    BY <1>1, <1>4, <2>1 DEF Client
<1> HIDE DEF n
<1>7. Orderly(n)
  BY <1>5, <1>6 DEF Orderly
<1>8. n.last[b0] = u.hi /\ \A b \in Boxes \ {b0} : n.last[b] = d.last[b] /\ n.base[b] = d.base[b]
  BY <1>1, <1>5 DEF Points
<1>9. n.base[b0] = newBase
  BY <1>1, <1>5 DEF Points
<1>10. d.last[b0] <= u.hi /\ d.base[b0] <= newBase
  BY <1>1, <1>2 DEF Continues
<1>11. Units(b0, newBase, u.hi) \subseteq Units(b0, d.base[b0], d.last[b0]) \cup Units(b0, lo, u.hi)
  <2>1. CASE d.last[b0] + u.n = u.hi
    <3>1. d.last[b0] = lo
      BY <1>1, <1>2, <2>1
    <3>2. Units(b0, newBase, u.hi) \subseteq Units(b0, d.base[b0], u.hi)
      BY <1>1, <1>2, <1>10, UnitsShrink
    <3> QED
      BY <1>1, <1>2, <3>1, <3>2, UnitsJoin
  <2>2. CASE b0 = "seq" /\ d.last["seq"] = u.hi
    BY <2>2
  <2>3. CASE b0 = "qts" /\ d.last["qts"] = 0
    <3>1. lo <= newBase
      BY <1>1, <1>2, <2>3
    <3> HIDE DEF newBase
    <3>2. newBase \in Nat
      BY <1>3, LimitBounds
    <3> QED
      BY <1>1, <3>1, <3>2, UnitsShrink
  <2> QED
    BY <2>1, <2>2, <2>3 DEF Continues
<1>12. Units(b0, lo, u.hi) = UnitsOf({u})
  BY DEF UnitsOf
<1> HIDE DEF newBase, b0, lo
<1>13. Passes(d, n, UnitsOf({u}))
  <2> SUFFICES ASSUME NEW b \in Boxes
               PROVE  /\ d.base[b] <= n.base[b]
                      /\ Units(b, n.base[b], n.last[b])
                           \subseteq Units(b, d.base[b], d.last[b]) \cup UnitsOf({u}) \cup OwnUnits
    BY DEF Passes
  <2>1. CASE b = b0
    BY <1>8, <1>9, <1>10, <1>11, <1>12, <2>1
  <2>2. CASE b # b0
    <3>1. n.last[b] = d.last[b] /\ n.base[b] = d.base[b] /\ d.base[b] \in Nat
      BY <1>2, <1>8, <2>2
    <3> QED
      BY <3>1
  <2> QED
    BY <2>1, <2>2
<1>14. \A b \in Boxes : d.last[b] <= n.last[b]
  BY <1>2, <1>8, <1>10
<1>15. Fits(d, n, u)
  BY <1>5, <1>7, <1>8, <1>13, <1>14 DEF Fits, b0
<1> QED
  BY <1>15 DEF n

(* It is kept.                                                               *)
LEMMA KeepKeeps ==
    ASSUME world \in Worlds, SentInv, NEW d, Orderly(d), NEW u \in sent
    PROVE  /\ Orderly(Keep(d, u)) /\ SameElse(d, Keep(d, u)) /\ SameFlight(d, Keep(d, u))
           /\ Keep(d, u).last = d.last /\ Keep(d, u).owed = d.owed
           /\ \A v \in d.owed \cup {u} : Remembered(d, v) \/ v = u => Remembered(Keep(d, u), v)
<1> DEFINE n == Keep(d, u)
           b0 == u.box
           more == d.queue[b0] \cup {u}
           time == IF d.wait[b0] = "none" THEN "fresh" ELSE d.wait[b0]
<1>1. /\ d \in Client /\ d.queue \in [Boxes -> SUBSET Updates] /\ b0 \in Boxes /\ u \in Updates
      /\ d.wait \in [Boxes -> {"none", "fresh", "due"}] /\ d.owed \in SUBSET Updates
  BY ClientFields, UpdateFields DEF Orderly, SentInv
<1>2. more \in SUBSET Updates /\ time \in {"none", "fresh", "due"} /\ time # "none"
  BY <1>1
<1>3. n = [d EXCEPT !.queue = [d.queue EXCEPT ![b0] = more], !.wait = [d.wait EXCEPT ![b0] = time]]
  BY <1>1 DEF Keep, Client
<1> HIDE DEF n, more, time
<1>4. /\ n \in Client /\ SameElse(d, n) /\ SameFlight(d, n) /\ n.last = d.last /\ n.owed = d.owed
      /\ n.queue = [d.queue EXCEPT ![b0] = more] /\ n.wait = [d.wait EXCEPT ![b0] = time]
  <2>1. [d.queue EXCEPT ![b0] = more] \in [Boxes -> SUBSET Updates]
    BY <1>1, <1>2
  <2>2. [d.wait EXCEPT ![b0] = time] \in [Boxes -> {"none", "fresh", "due"}]
    BY <1>1, <1>2
  <2> QED
    BY <1>1, <1>3, <2>1, <2>2 DEF Client, SameElse, SameFlight
<1>5. /\ n.queue[b0] = more /\ n.wait[b0] = time
      /\ \A b \in Boxes \ {b0} : n.queue[b] = d.queue[b] /\ n.wait[b] = d.wait[b]
  BY <1>1, <1>4
<1>6. \A v \in more : v \in sent /\ v.box = b0
  BY <1>1 DEF more, Orderly
<1>7. Orderly(n)
  BY <1>2, <1>4, <1>5, <1>6 DEF Orderly
<1>8. ASSUME NEW v \in d.owed \cup {u}, Remembered(d, v) \/ v = u PROVE Remembered(n, v)
  <2>1. v.box \in Boxes
    BY <1>1, UpdateFields
  <2>2. v \in d.queue[v.box] => v \in n.queue[v.box]
    BY <1>5, <2>1 DEF more
  <2>3. u \in n.queue[u.box]
    BY <1>5 DEF more
  <2> QED
    BY <1>4, <1>8, <2>2, <2>3 DEF Remembered, SameFlight
<1> QED
  BY <1>4, <1>7, <1>8 DEF n

(* processUpdates.                                                           *)
LEMMA ReceiveUpdateMoves ==
    ASSUME TypeInv, NEW u \in sent, NEW missing, ReceiveUpdate(u, missing)
    PROVE  MoveStep
<1> DEFINE d     == Told(c, u)
           fits  == Continues(d, u)
           late  == ~fits /\ ~Ignored(d, u)
           place == IF fits THEN FitPlace(d, u)
                    ELSE IF late /\ MayWait(d, u.box) THEN Keep(d, u)
                    ELSE IF late THEN d ELSE LetGo(d, {u})
           now   == IF fits THEN {u} ELSE {}
<1>1. /\ world \in Worlds /\ SentInv /\ Orderly(c) /\ u \in Updates
      /\ c.last \in Points /\ c.owed \in SUBSET Updates
  BY ClientFields DEF TypeInv, SentInv, Orderly
<1>2. Hears(c, d, u)
  BY <1>1, ToldHears
<1>3. /\ IF late /\ ~MayWait(d, u.box)
         THEN /\ c' = GetDifference(place, {u})
              /\ tasks' = Write(c.last, {}, FALSE)
         ELSE /\ c' = ProcessQueues(place, Boxes, missing)
              /\ tasks' = Write(c'.last, NotOwn(now \cup AppliedOf(place, Boxes, missing)), FALSE)
      /\ UNCHANGED <<sent, results, answer, ready, disk, world>>
  BY DEF ReceiveUpdate, FitPlace
<1> HIDE DEF d, fits, late
<1>4. d.last = c.last /\ \A b \in Boxes : c.last[b] <= c.last[b]
  BY <1>1, <1>2, PointsAreNumbers DEF Hears, SameQueues
<1>5. ASSUME NEW m, Leads(c, m), Passes(c, m, UnitsOf(now)),
             c' = ProcessQueues(m, Boxes, missing),
             tasks' = Write(c'.last, NotOwn(now \cup AppliedOf(m, Boxes, missing)), FALSE)
      PROVE  MoveStep
  <2> HIDE DEF place
  <2>1. Brings(m, c', Boxes, missing)
    BY <1>1, <1>5, ProcessQueuesBrings DEF Leads
  <2>2. Moves(c, c')
    BY <1>1, <1>5, <2>1, LeadsThenBrings
  <2> DEFINE put == NotOwn(now \cup AppliedOf(m, Boxes, missing))
  <2>3. now \in SUBSET sent
    OBVIOUS
  <2>4. Passes(c, c', put) /\ put \in Stored
    <3> HIDE DEF now
    <3> QED
      BY <1>1, <1>5, <2>1, <2>3, LeadsThenPasses
  <2>5. c'.last \in Points
    BY <2>1, ClientFields DEF Brings, Orderly
  <2>6. Wrote(tasks', c'.last, put)
    <3> HIDE DEF now
    <3> QED
      BY <1>5, <2>4, <2>5, WriteWrote
  <2> HIDE DEF put
  <2> QED
    BY <1>3, <2>2, <2>4, <2>6 DEF MoveStep
<1>6. CASE late /\ ~MayWait(d, u.box)
  <2>1. place = d /\ c' = GetDifference(d, {u}) /\ tasks' = Write(c.last, {}, FALSE)
    BY <1>3, <1>6 DEF late
  <2> HIDE DEF place
  <2>2. GivesUp(d, c', {u})
    BY <1>1, <1>2, <2>1, GetDifferenceGivesUp DEF Hears
  <2>3. AllRemembered(c) => AllRemembered(c')
    <3> SUFFICES ASSUME AllRemembered(c), NEW v \in d.owed \ {u} PROVE Remembered(d, v)
      BY <2>2 DEF GivesUp
    <3>1. v \in c.owed
      BY <1>2 DEF Hears
    <3> QED
      BY <1>2, <3>1 DEF AllRemembered, Remembered, Hears, SameFlight, SameQueues
  <2>4. SameFlight(c, c') \/ AsksNow(c, c')
    BY <1>2, <2>2 DEF GivesUp, Hears, SameFlight, AsksNow
  <2>5. c'.last = c.last /\ c'.base = c.base /\ Orderly(c') /\ c'.reset = c.reset /\ c'.outrun = c.outrun
    BY <1>2, <2>2 DEF GivesUp, Hears, SameElse, SameQueues
  <2>6. Moves(c, c')
    BY <1>4, <2>3, <2>4, <2>5 DEF Moves
  <2>7. Passes(c, c', {})
    BY <1>1, <2>5, StandsStill
  <2>8. {} \in Stored
    BY DEF Stored
  <2>9. Wrote(tasks', c'.last, {})
    BY <1>1, <2>1, <2>5, <2>8, WriteWrote
  <2> QED
    BY <1>3, <2>6, <2>7, <2>9 DEF MoveStep
<1>7. CASE fits
  <2> DEFINE m == FitPlace(d, u)
  <2>1. Fits(d, m, u)
    BY <1>1, <1>2, <1>7, FitPlaceFits DEF Hears, fits
  <2>2. c' = ProcessQueues(m, Boxes, missing)
        /\ tasks' = Write(c'.last, NotOwn(now \cup AppliedOf(m, Boxes, missing)), FALSE)
    BY <1>3, <1>7 DEF late
  <2> HIDE DEF m
  <2>3. AllRemembered(c) => AllKnown(m)
    <3> SUFFICES ASSUME AllRemembered(c), NEW v \in m.owed PROVE Remembered(m, v) \/ v.hi <= m.last[v.box]
      BY DEF AllKnown
    <3>1. v \in c.owed \/ v = u
      BY <1>2, <2>1 DEF Hears, Fits
    <3>2. u.hi \in Nat
      BY <1>1, UpdateFields
    <3>3. v \in c.owed => Remembered(m, v)
      BY <1>2, <2>1 DEF AllRemembered, Remembered, Hears, Fits, SameFlight, SameQueues
    <3> QED
      BY <2>1, <3>1, <3>2, <3>3 DEF Fits
  <2>4. Leads(c, m)
    BY <1>2, <2>1, <2>3 DEF Leads, Hears, Fits, SameElse, SameFlight, SameQueues
  <2>5. Passes(c, m, UnitsOf(now))
    BY <1>2, <1>7, <2>1 DEF Fits, Hears, SameElse, SameQueues, Passes
  <2> QED
    BY <1>5, <2>2, <2>4, <2>5
<1>8. CASE ~fits /\ late /\ MayWait(d, u.box)
  <2> DEFINE m == Keep(d, u)
  <2>1. /\ Orderly(m) /\ SameElse(d, m) /\ SameFlight(d, m) /\ m.last = d.last /\ m.owed = d.owed
        /\ \A v \in d.owed \cup {u} : Remembered(d, v) \/ v = u => Remembered(m, v)
    BY <1>1, <1>2, KeepKeeps DEF Hears
  <2>2. c' = ProcessQueues(m, Boxes, missing)
        /\ tasks' = Write(c'.last, NotOwn(now \cup AppliedOf(m, Boxes, missing)), FALSE)
    BY <1>3, <1>8
  <2> HIDE DEF m
  <2>3. AllRemembered(c) => AllKnown(m)
    <3> SUFFICES ASSUME AllRemembered(c), NEW v \in m.owed PROVE Remembered(m, v)
      BY DEF AllKnown
    <3>1. v \in d.owed /\ (v \in c.owed \/ v = u)
      BY <1>2, <2>1 DEF Hears
    <3>2. v \in c.owed => Remembered(d, v)
      BY <1>2 DEF AllRemembered, Remembered, Hears, SameFlight, SameQueues
    <3> QED
      BY <2>1, <3>1, <3>2
  <2>4. Leads(c, m)
    BY <1>2, <1>4, <2>1, <2>3 DEF Leads, Hears, SameElse, SameFlight
  <2>5. UnitsOf(now) = {}
    BY <1>8 DEF UnitsOf
  <2>6. m.last = c.last /\ m.base = c.base
    BY <1>2, <1>4, <2>1 DEF Hears, SameElse
  <2>7. Passes(c, m, UnitsOf(now))
    BY <1>1, <2>5, <2>6, StandsStill
  <2> QED
    BY <1>5, <2>2, <2>4, <2>7
<1>9. CASE ~fits /\ ~late
  <2> DEFINE m == LetGo(d, {u})
  <2>1. Forgets(d, m, {u})
    BY <1>2, LetGoForgets DEF Hears
  <2>2. c' = ProcessQueues(m, Boxes, missing)
        /\ tasks' = Write(c'.last, NotOwn(now \cup AppliedOf(m, Boxes, missing)), FALSE)
    BY <1>3, <1>9
  <2> HIDE DEF m
  <2>3. AllRemembered(c) => AllKnown(m)
    <3> SUFFICES ASSUME AllRemembered(c), NEW v \in m.owed PROVE Remembered(m, v)
      BY DEF AllKnown
    <3>1. v \in c.owed \/ v = u
      BY <1>2, <2>1 DEF Hears, Forgets
    <3>2. v \in c.owed => Remembered(m, v)
      BY <1>2, <2>1 DEF AllRemembered, Remembered, Hears, Forgets, SameFlight, SameQueues
    <3>3. v = u => Remembered(m, v)
      BY <2>1 DEF Remembered, Forgets, SameFlight
    <3> QED
      BY <3>1, <3>2, <3>3
  <2>4. Leads(c, m)
    BY <1>2, <1>4, <2>1, <2>3 DEF Leads, Hears, Forgets, SameElse, SameFlight, SameQueues
  <2>5. UnitsOf(now) = {}
    BY <1>9 DEF UnitsOf
  <2>6. m.last = c.last /\ m.base = c.base
    BY <1>2, <2>1 DEF Hears, Forgets, SameElse, SameQueues
  <2>7. Passes(c, m, UnitsOf(now))
    BY <1>1, <2>5, <2>6, StandsStill
  <2> QED
    BY <1>5, <2>2, <2>4, <2>7
<1> QED
  BY <1>6, <1>7, <1>8, <1>9 DEF late

(* Handlers that pass no number.                                             *)
LEMMA StandingMoveStep ==
    ASSUME TypeInv, NEW n, c' = n, Orderly(n), n.last = c.last, n.base = c.base,
           n.reset = c.reset, n.outrun = c.outrun, SameFlight(c, n) \/ AsksNow(c, n),
           AllRemembered(c) => AllRemembered(n), tasks' = tasks, results' \subseteq results,
           UNCHANGED <<sent, answer, ready, disk, world>>
    PROVE  MoveStep
<1>1. world \in Worlds /\ Orderly(c) /\ c.last \in Points
  BY ClientFields DEF TypeInv, Orderly
<1>2. \A b \in Boxes : c.last[b] <= n.last[b]
  BY <1>1, PointsAreNumbers
<1>3. Passes(c, n, {})
  BY <1>1, StandsStill
<1>4. Wrote(tasks', c'.last, {})
  BY DEF Wrote
<1> QED
  BY <1>2, <1>3, <1>4 DEF MoveStep, Moves

(* processUpdates for an update that cannot be applied.                      *)
LEMMA GivingUpMoves ==
    ASSUME TypeInv, NEW d, Orderly(d), SameElse(c, d), SameFlight(c, d), SameQueues(c, d),
           NEW us, \A v \in d.owed \ us : v \in c.owed,
           c' = GetDifference(d, us), tasks' = tasks, results' \subseteq results,
           UNCHANGED <<sent, answer, ready, disk, world>>
    PROVE  MoveStep
<1>1. GivesUp(d, c', us)
  BY GetDifferenceGivesUp DEF TypeInv
<1>2. AllRemembered(c) => AllRemembered(c')
  <2> SUFFICES ASSUME AllRemembered(c), NEW v \in d.owed \ us PROVE Remembered(d, v)
    BY <1>1 DEF GivesUp
  <2> QED
    BY DEF AllRemembered, Remembered, SameFlight, SameQueues
<1>3. SameFlight(c, c') \/ AsksNow(c, c')
  BY <1>1 DEF GivesUp, SameFlight, AsksNow
<1>4. c'.last = c.last /\ c'.base = c.base /\ Orderly(c') /\ c'.reset = c.reset /\ c'.outrun = c.outrun
  BY <1>1 DEF GivesUp, SameElse, SameQueues
<1> QED
  BY <1>2, <1>3, <1>4, StandingMoveStep

LEMMA ReceiveIncompleteMoves ==
    ASSUME TypeInv, NEW u \in sent, ReceiveIncomplete(u)
    PROVE  MoveStep
<1> DEFINE d == Told(c, u)
<1>1. Hears(c, d, u)
  BY ToldHears DEF TypeInv
<1>2. /\ c' = GetDifference(d, {u}) /\ tasks' = tasks /\ results' \subseteq results
      /\ UNCHANGED <<sent, answer, ready, disk, world>>
  BY DEF ReceiveIncomplete
<1> HIDE DEF d
<1>3. /\ Orderly(d) /\ SameElse(c, d) /\ SameFlight(c, d) /\ SameQueues(c, d)
      /\ \A v \in d.owed \ {u} : v \in c.owed
  BY <1>1 DEF Hears
<1> QED
  BY <1>2, <1>3, GivingUpMoves

LEMMA SessionCreatedMoves ==
    ASSUME TypeInv, SessionCreated
    PROVE  MoveStep
<1>1. /\ c' = GetDifference(c, {}) /\ tasks' = tasks /\ results' \subseteq results
      /\ UNCHANGED <<sent, answer, ready, disk, world>>
  BY DEF SessionCreated
<1>2. Orderly(c) /\ SameElse(c, c) /\ SameFlight(c, c) /\ SameQueues(c, c)
  BY DEF TypeInv, SameElse, SameFlight, SameQueues
<1>3. \A v \in c.owed \ {} : v \in c.owed
  OBVIOUS
<1> QED
  BY <1>1, <1>2, <1>3, GivingUpMoves

LEMMA TimePassesMoves ==
    ASSUME TypeInv, NEW b \in Boxes, TimePasses(b)
    PROVE  MoveStep
<1> DEFINE n == [c EXCEPT !.wait[b] = "due"]
<1>1. c \in Client /\ c.wait \in [Boxes -> {"none", "fresh", "due"}] /\ Orderly(c)
  BY ClientFields DEF TypeInv, Orderly
<1>2. /\ c' = n /\ tasks' = tasks /\ results' \subseteq results
      /\ UNCHANGED <<sent, answer, ready, disk, world>>
  BY DEF TimePasses
<1>3. /\ n \in Client /\ SameElse(c, n) /\ SameFlight(c, n) /\ n.last = c.last /\ n.queue = c.queue
      /\ n.owed = c.owed /\ n.wait = [c.wait EXCEPT ![b] = "due"]
  BY <1>1 DEF Client, SameElse, SameFlight
<1> HIDE DEF n
<1>4. Orderly(n)
  BY <1>1, <1>3 DEF Orderly
<1>5. AllRemembered(c) => AllRemembered(n)
  BY <1>3 DEF AllRemembered, Remembered, SameFlight
<1>6. n.base = c.base /\ n.reset = c.reset /\ n.outrun = c.outrun
  BY <1>3 DEF SameElse
<1> QED
  BY <1>2, <1>3, <1>4, <1>5, <1>6, StandingMoveStep

(* updateTimerProc.                                                          *)
LEMMA UpdateTimerProcMoves ==
    ASSUME TypeInv, NEW missing, UpdateTimerProc(missing)
    PROVE  MoveStep
<1> DEFINE due == {b \in Boxes : c.wait[b] = "due"}
           put == NotOwn(AppliedOf(c, due, missing))
<1>1. /\ c' = ProcessQueues(c, due, missing) /\ tasks' = Write(c'.last, put, FALSE)
      /\ UNCHANGED <<sent, results, answer, ready, disk, world>>
  BY DEF UpdateTimerProc
<1>2. /\ world \in Worlds /\ SentInv /\ Orderly(c) /\ due \in SUBSET Boxes /\ c.last \in Points
  BY ClientFields DEF TypeInv, Orderly
<1> HIDE DEF due
<1>3. Brings(c, c', due, missing)
  BY <1>1, <1>2, ProcessQueuesBrings
<1>4. Passes(c, c, {})
  BY <1>2, StandsStill
<1>5. \A b \in Boxes : c.last[b] <= c.last[b]
  BY <1>2, PointsAreNumbers
<1>6. Leads(c, c)
  BY <1>2, <1>5 DEF Leads, SameFlight, AllRemembered, AllKnown
<1>7. Moves(c, c')
  BY <1>2, <1>3, <1>6, LeadsThenBrings
<1>8. UnitsOf({}) = {} /\ {} \in SUBSET sent /\ put = NotOwn({} \cup AppliedOf(c, due, missing))
  BY DEF UnitsOf
<1>9. Passes(c, c', put) /\ put \in Stored
  <2> HIDE DEF put
  <2>1. Passes(c, c, UnitsOf({}))
    BY <1>4, <1>8
  <2> QED
    BY <1>2, <1>3, <1>6, <1>8, <2>1, LeadsThenPasses
<1>10. c'.last \in Points
  BY <1>3, ClientFields DEF Brings, Orderly
<1> HIDE DEF put
<1>11. Wrote(tasks', c'.last, put)
  BY <1>1, <1>9, <1>10, WriteWrote
<1> QED
  BY <1>1, <1>7, <1>9, <1>11 DEF MoveStep

(* processNewDifferenceParams.                                               *)
LEMMA OwnFits ==
    ASSUME world \in Worlds, SentInv, NEW d, Orderly(d), NEW u \in sent, u.own,
           d.last[u.box] + u.n = u.hi,
           NEW n, n = [d EXCEPT !.last[u.box] = u.hi]
    PROVE  /\ Orderly(n) /\ SameElse(d, n) /\ SameFlight(d, n) /\ n.owed = d.owed /\ n.queue = d.queue
           /\ n.last[u.box] = u.hi
           /\ \A b \in Boxes : d.last[b] <= n.last[b]
           /\ Passes(d, n, {})
<1> DEFINE b0 == u.box
<1>1. /\ d \in Client /\ d.last \in Points /\ d.base \in Points /\ b0 \in Boxes
      /\ u.hi \in Nat /\ u.n \in Nat /\ u.hi - u.n \in Nat /\ u.hi <= Max(Range(Limit))
      /\ Max(Range(Limit)) \in Nat
  BY ClientFields, UpdateFields, LimitBounds DEF Orderly, SentInv
<1>2. \A b \in Boxes : d.last[b] \in Nat /\ d.base[b] \in Nat
  BY <1>1, PointsAreNumbers
<1>3. [d.last EXCEPT ![b0] = u.hi] \in Points
  BY <1>1 DEF Points
<1>4. /\ n.last = [d.last EXCEPT ![b0] = u.hi] /\ SameElse(d, n) /\ SameFlight(d, n)
      /\ n.owed = d.owed /\ n.queue = d.queue /\ n.wait = d.wait /\ n \in Client
  BY <1>1, <1>3 DEF Client, SameElse, SameFlight
<1>5. Orderly(n)
  BY <1>4 DEF Orderly
<1>6. n.last[b0] = u.hi /\ \A b \in Boxes \ {b0} : n.last[b] = d.last[b]
  BY <1>1, <1>4 DEF Points
<1>7. d.last[b0] <= u.hi /\ d.last[b0] = u.hi - u.n
  BY <1>1, <1>2
<1>8. Units(b0, u.hi - u.n, u.hi) \subseteq OwnUnits
  BY DEF OwnUnits, UnitsOf
<1>9. Units(b0, d.base[b0], u.hi) \subseteq Units(b0, d.base[b0], d.last[b0]) \cup Units(b0, d.last[b0], u.hi)
  BY <1>1, <1>2, UnitsJoin
<1>10. ASSUME NEW b \in Boxes
       PROVE  /\ d.last[b] <= n.last[b] /\ d.base[b] <= n.base[b]
              /\ Units(b, n.base[b], n.last[b]) \subseteq Units(b, d.base[b], d.last[b]) \cup OwnUnits
  <2>1. n.base = d.base /\ d.base[b] <= d.base[b] /\ d.last[b] <= d.last[b]
    BY <1>2, <1>4 DEF SameElse
  <2>2. CASE b = b0
    <3>1. n.last[b] = u.hi /\ Units(b, d.last[b], u.hi) \subseteq OwnUnits
      BY <1>6, <1>7, <1>8, <2>2
    <3> QED
      BY <1>7, <1>9, <2>1, <2>2, <3>1
  <2>3. CASE b # b0
    BY <1>6, <2>1, <2>3
  <2> QED
    BY <2>2, <2>3
<1>11. Passes(d, n, {})
  BY <1>10 DEF Passes
<1> QED
  BY <1>4, <1>5, <1>6, <1>10, <1>11

LEMMA ProcessNewDifferenceParamsMoves ==
    ASSUME TypeInv, NEW u \in results, ProcessNewDifferenceParams(u)
    PROVE  MoveStep
<1> DEFINE d == Told(c, u)
           e == [d EXCEPT !.last[u.box] = u.hi]
<1>1. /\ world \in Worlds /\ SentInv /\ Orderly(c) /\ u \in sent /\ u.own
      /\ c.last \in Points /\ u.hi \in Nat /\ u.box \in Boxes
  BY ClientFields, UpdateFields DEF TypeInv, SentInv, Orderly
<1>2. Hears(c, d, u)
  BY <1>1, ToldHears
<1>3. /\ c' = IF d.last[u.box] + u.n = u.hi THEN Settled(e)
              ELSE IF d.last[u.box] = u.hi THEN d
              ELSE IF MayWait(d, u.box) THEN Keep(d, u) ELSE GetDifference(d, {u})
      /\ tasks' = IF c'.last = c.last THEN tasks ELSE Write(c'.last, {}, FALSE)
      /\ results' \subseteq results
      /\ UNCHANGED <<sent, answer, ready, disk, world>>
  <2>1. d.last[u.box] \in Nat /\ u.n \in Nat \ {0}
    <3>1. d.last \in Points /\ u \in Updates
      BY <1>1, <1>2, ClientFields DEF Hears, Orderly, SentInv
    <3> QED
      BY <1>1, <3>1, PointsAreNumbers, UpdateFields
  <2>2. /\ c' = CASE d.last[u.box] + u.n = u.hi -> Settled(e)
                 [] d.last[u.box] = u.hi -> d
                 [] OTHER -> IF MayWait(d, u.box) THEN Keep(d, u) ELSE GetDifference(d, {u})
        /\ tasks' = IF c'.last = c.last THEN tasks ELSE Write(c'.last, {}, FALSE)
        /\ results' \subseteq results
        /\ UNCHANGED <<sent, answer, ready, disk, world>>
    BY DEF ProcessNewDifferenceParams
  <2> HIDE DEF d, e
  <2>3. ~(d.last[u.box] + u.n = u.hi /\ d.last[u.box] = u.hi)
    <3>1. \A x \in Nat, y \in Nat \ {0} : x + y # x
      OBVIOUS
    <3> QED
      BY <2>1, <3>1
  <2> QED
    BY <2>2, <2>3
<1> HIDE DEF d
<1>4. \A v \in d.owed : v \in c.owed \/ (v = u /\ u.hi > c.last[u.box])
  <2>1. d.owed \subseteq c.owed \cup {u} /\ (u \in d.owed => u \in c.owed \/ u.hi > c.last[u.box])
    BY <1>2 DEF Hears
  <2> QED
    BY <2>1
<1>5. d.last = c.last /\ d.base = c.base /\ Orderly(d) /\ c.last[u.box] \in Nat
  <2>1. c.last[u.box] \in Nat
    BY <1>1, PointsAreNumbers
  <2> QED
    BY <1>2, <2>1 DEF Hears, SameElse, SameQueues
<1>6. ASSUME AllRemembered(c), NEW v \in c.owed PROVE Remembered(d, v)
  BY <1>2, <1>6 DEF AllRemembered, Remembered, Hears, SameFlight, SameQueues
<1>7. CASE d.last[u.box] + u.n = u.hi
  <2>1. c' = Settled(e)
    BY <1>3, <1>7
  <2>2. /\ Orderly(e) /\ SameElse(d, e) /\ SameFlight(d, e) /\ e.owed = d.owed /\ e.queue = d.queue
        /\ e.last[u.box] = u.hi
        /\ \A b \in Boxes : d.last[b] <= e.last[b]
        /\ Passes(d, e, {})
    BY <1>1, <1>5, <1>7, OwnFits
  <2> HIDE DEF e
  <2>3. /\ Orderly(c') /\ SameElse(e, c') /\ SameFlight(e, c') /\ SameQueues(e, c')
        /\ (AllKnown(e) => AllRemembered(c'))
    BY <1>1, <2>1, <2>2, SettledRemembers
  <2>4. AllRemembered(c) => AllKnown(e)
    <3> SUFFICES ASSUME AllRemembered(c), NEW v \in e.owed
                 PROVE  Remembered(e, v) \/ v.hi <= e.last[v.box]
      BY DEF AllKnown
    <3>1. v \in c.owed \/ v = u
      BY <1>4, <2>2
    <3>2. v \in c.owed => Remembered(e, v)
      BY <1>6, <2>2 DEF Remembered, SameFlight
    <3> QED
      BY <1>1, <2>2, <3>1, <3>2
  <2>5. Moves(c, c')
    <3>1. SameFlight(c, c') /\ c'.reset = c.reset /\ c'.outrun = c.outrun /\ c'.last = e.last
      BY <1>2, <2>2, <2>3 DEF Hears, SameFlight, SameElse, SameQueues
    <3> QED
      BY <1>5, <2>2, <2>3, <2>4, <3>1 DEF Moves
  <2>6. Passes(c, c', {})
    BY <1>5, <2>2, <2>3 DEF Passes, SameElse, SameQueues
  <2>7. c'.last \in Points /\ {} \in Stored
    BY <2>3, ClientFields DEF Orderly, Stored
  <2>8. Wrote(tasks', c'.last, {})
    <3>1. CASE tasks' = tasks
      BY <3>1 DEF Wrote
    <3>2. CASE tasks' = Write(c'.last, {}, FALSE)
      BY <2>7, <3>2, WriteWrote
    <3> QED
      BY <1>3, <3>1, <3>2
  <2> QED
    BY <1>3, <2>5, <2>6, <2>8 DEF MoveStep
<1>8. CASE d.last[u.box] + u.n # u.hi /\ d.last[u.box] = u.hi
  <2>1. c' = d /\ tasks' = tasks
    BY <1>3, <1>5, <1>8
  <2>2. AllRemembered(c) => AllRemembered(d)
    BY <1>1, <1>4, <1>5, <1>6, <1>8 DEF AllRemembered
  <2>3. SameFlight(c, d) /\ d.reset = c.reset /\ d.outrun = c.outrun
    BY <1>2 DEF Hears, SameElse
  <2> QED
    BY <1>3, <1>5, <2>1, <2>2, <2>3, StandingMoveStep
<1>9. CASE d.last[u.box] + u.n # u.hi /\ d.last[u.box] # u.hi /\ MayWait(d, u.box)
  <2> DEFINE n == Keep(d, u)
  <2>1. /\ Orderly(n) /\ SameElse(d, n) /\ SameFlight(d, n) /\ n.last = d.last /\ n.owed = d.owed
        /\ \A v \in d.owed \cup {u} : Remembered(d, v) \/ v = u => Remembered(n, v)
    BY <1>1, <1>5, KeepKeeps
  <2>2. c' = n
    BY <1>3, <1>9
  <2> HIDE DEF n
  <2>3. tasks' = tasks
    BY <1>3, <1>5, <2>1, <2>2
  <2>4. AllRemembered(c) => AllRemembered(n)
    BY <1>4, <1>6, <2>1 DEF AllRemembered
  <2>5. SameFlight(c, n) /\ n.reset = c.reset /\ n.outrun = c.outrun /\ n.base = c.base /\ n.last = c.last
    BY <1>2, <1>5, <2>1 DEF Hears, SameElse, SameFlight
  <2> QED
    BY <1>3, <2>1, <2>2, <2>3, <2>4, <2>5, StandingMoveStep
<1>10. CASE d.last[u.box] + u.n # u.hi /\ d.last[u.box] # u.hi /\ ~MayWait(d, u.box)
  <2>1. c' = GetDifference(d, {u})
    BY <1>3, <1>10
  <2>2. GivesUp(d, c', {u})
    BY <1>1, <1>5, <2>1, GetDifferenceGivesUp
  <2>3. tasks' = tasks
    BY <1>3, <1>5, <2>2 DEF GivesUp, SameQueues
  <2>4. \A v \in d.owed \ {u} : v \in c.owed
    BY <1>4
  <2>5. SameElse(c, d) /\ SameFlight(c, d) /\ SameQueues(c, d)
    BY <1>2 DEF Hears
  <2> QED
    BY <1>3, <1>5, <2>1, <2>3, <2>4, <2>5, GivingUpMoves
<1> QED
  BY <1>7, <1>8, <1>9, <1>10

-----------------------------------------------------------------------------
(* The other steps.                                                          *)

(* The first place behind all that is on the way.                            *)
Behind == Len(ready) + Len(tasks) + 1

LEMMA InvFacts ==
    ASSUME HoleInv
    PROVE  /\ TypeInv /\ world \in Worlds /\ SentInv /\ Orderly(c) /\ StoreTypes
           /\ c \in Client /\ c.last \in Points /\ c.owed \in SUBSET sent /\ sent \subseteq Updates
           /\ Way \in [Places -> AllParts] /\ FlightInv(Way, c, answer)
           /\ (c.outrun \/ AllRemembered(c))
           /\ Behind \in Places /\ \A k \in Places : k >= Behind => Way[k].kind = "none"
<1>1. /\ TypeInv /\ world \in Worlds /\ SentInv /\ Orderly(c) /\ StoreTypes
      /\ FlightInv(Way, c, answer) /\ (c.outrun \/ AllRemembered(c))
  BY RememberedIsHole DEF HoleInv, TypeInv
<1>2. c \in Client /\ c.last \in Points /\ c.owed \in SUBSET sent /\ sent \subseteq Updates
  BY <1>1, ClientFields DEF Orderly, SentInv
<1>3. /\ Way \in [Places -> AllParts] /\ Len(ready) + Len(tasks) \in Nat
      /\ \A k \in Places : k > Len(ready) + Len(tasks) => Way[k] = Nothing
  BY <1>1, WayTypes DEF StoreTypes, Way
<1>4. Behind \in Places
  BY <1>3 DEF Places, Behind
<1>5. ASSUME NEW k \in Places, k >= Behind PROVE Way[k].kind = "none"
  <2>1. k > Len(ready) + Len(tasks)
    BY <1>3, <1>5 DEF Places, Behind
  <2> QED
    BY <1>3, <2>1 DEF Nothing
<1> QED
  BY <1>1, <1>2, <1>3, <1>4, <1>5

LEMMA AnswerTypes ==
    ASSUME world \in Worlds, sent \subseteq Updates, NEW r \in Points, NEW a \in Answers(r)
    PROVE  /\ a \in [kind : AnswerKinds, from : Points, to : Points] /\ a.from = r
           /\ a.kind \in {"difference", "empty"} => a.to = Server
           /\ a.kind = "empty" => a.to = a.from
           /\ a.kind = "tooLong" => "tooLong" \in rare
<1>1. Server \in Points
  BY ServerBounds
<1>2. CASE a = [kind |-> "empty", from |-> r, to |-> r] /\ r = Server
  BY <1>2 DEF AnswerKinds
<1>3. CASE a = [kind |-> "difference", from |-> r, to |-> Server]
  BY <1>1, <1>3 DEF AnswerKinds
<1>4. CASE a = [kind |-> "tooLong", from |-> r, to |-> Server] /\ "tooLong" \in rare
  BY <1>1, <1>4 DEF AnswerKinds
<1>5. CASE a = [kind |-> "error", from |-> r, to |-> r]
  BY <1>5 DEF AnswerKinds
<1>6. ASSUME NEW p \in Boundaries("pts", r["pts"]), NEW q \in Boundaries("qts", r["qts"]),
             a = [kind |-> "slice", from |-> r, to |-> [r EXCEPT !["pts"] = p, !["qts"] = q]]
      PROVE  /\ a \in [kind : AnswerKinds, from : Points, to : Points] /\ a.from = r
             /\ a.kind = "slice"
  <2>1. "pts" \in Boxes /\ "qts" \in Boxes
    BY DEF Boxes
  <2>2. \A b \in Boxes : r[b] \in Nat /\ Value(b) \in Nat /\ Value(b) <= Max(Range(Limit))
    BY <1>1, PointsAreNumbers, ServerBounds
  <2>3. p \in r["pts"]..Value("pts") /\ q \in r["qts"]..Value("qts")
    BY DEF Boundaries
  <2>4. Max(Range(Limit)) \in Nat
    BY LimitBounds
  <2>5. p \in 0..Max(Range(Limit)) /\ q \in 0..Max(Range(Limit))
    BY <2>1, <2>2, <2>3, <2>4
  <2>6. [r EXCEPT !["pts"] = p, !["qts"] = q] \in Points
    BY <2>5 DEF Points
  <2> QED
    BY <1>6, <2>6 DEF AnswerKinds
<1>7. \/ a = [kind |-> "empty", from |-> r, to |-> r] /\ r = Server
      \/ a = [kind |-> "difference", from |-> r, to |-> Server]
      \/ a = [kind |-> "tooLong", from |-> r, to |-> Server] /\ "tooLong" \in rare
      \/ a = [kind |-> "error", from |-> r, to |-> r]
      \/ \E p \in Boundaries("pts", r["pts"]), q \in Boundaries("qts", r["qts"]) :
            a = [kind |-> "slice", from |-> r, to |-> [r EXCEPT !["pts"] = p, !["qts"] = q]]
  BY DEF Answers
<1> QED
  BY <1>2, <1>3, <1>4, <1>5, <1>6, <1>7

LEMMA AnswerDifferenceStep ==
    ASSUME HoleInv, c.request # None, NEW a \in Answers(c.request), AnswerDifference(a)
    PROVE  HoleInv'
<1> DEFINE n == [c EXCEPT !.cover = IF a.kind \in {"empty", "difference"} THEN a.to ELSE c.cover]
<1>1. /\ world \in Worlds /\ Orderly(c) /\ StoreTypes /\ c \in Client /\ sent \subseteq Updates
      /\ FlightInv(Way, c, answer) /\ (c.outrun \/ AllRemembered(c)) /\ c.owed \in SUBSET sent
  BY InvFacts
<1>2. c.request \in Points /\ c.cover \in Points /\ c.getting
  BY <1>1, ClientFields DEF FlightInv, Asked
<1>3. /\ a \in [kind : AnswerKinds, from : Points, to : Points] /\ a.from = c.request
      /\ a.kind \in {"difference", "empty"} => a.to = Server
      /\ a.kind = "empty" => a.to = a.from
  BY <1>1, <1>2, AnswerTypes
<1>4. answer = None /\ answer' = a /\ c' = n /\ UNCHANGED <<sent, results, tasks, ready, disk, world>>
  BY DEF AnswerDifference
<1>5. a.to \in Points
  BY <1>3
<1>6. /\ n \in Client /\ SameElse(c, n) /\ SameQueues(c, n) /\ n.owed = c.owed
      /\ n.getting = c.getting /\ n.request = c.request
      /\ n.cover = IF a.kind \in {"empty", "difference"} THEN a.to ELSE c.cover
  BY <1>1, <1>2, <1>5 DEF Client, SameElse, SameQueues
<1> HIDE DEF n
<1>7. Orderly(n)
  BY <1>1, <1>6 DEF Orderly, SameQueues
<1>8. n.outrun \/ AllRemembered(n)
  <2> SUFFICES ASSUME AllRemembered(c), NEW u \in c.owed PROVE Remembered(n, u)
    BY <1>1, <1>6 DEF AllRemembered, SameElse
  <2>1. Remembered(c, u) /\ u.box \in Boxes /\ u \in sent
    BY <1>1, UpdateFields DEF AllRemembered
  <2>2. u.hi <= Server[u.box]
    BY <1>1, <2>1, ValueBounds, ServerBounds
  <2> QED
    BY <1>2, <1>3, <1>6, <2>1, <2>2 DEF Remembered, SameQueues
<1>9. FlightInv(Way, n, a)
  <2>1. FlightInv(Way, c, None)
    BY <1>1, <1>4
  <2>2. /\ n.getting = c.getting /\ n.request = c.request /\ n.reset = c.reset
        /\ n.outrun = c.outrun /\ n.last = c.last
        /\ a.kind \in {"difference", "empty"} => n.cover = a.to
    BY <1>6 DEF SameElse, SameQueues
  <2> QED
    BY <1>3, <2>1, <2>2, AnswerKeepsFlight
<1>10. /\ tasks' \in Seq(StorageTasks) /\ ready' \in Seq(Parts) /\ disk' \in [last : Points, units : Stored]
       /\ WayOf(ready', tasks') = Way
  BY <1>1, <1>4 DEF StoreTypes, Way
<1> QED
  BY <1>3, <1>4, <1>7, <1>8, <1>9, <1>10, HoleInvNext

(* The storage queue gets a part.                                            *)
LEMMA PartAppended ==
    ASSUME StoreTypes, NEW t \in StorageTasks, tasks' = Append(tasks, t), ready' = ready
    PROVE  /\ tasks' \in Seq(StorageTasks)
           /\ Placed(WayOf(ready', tasks'), Way, Behind, PartOf(t))
<1>1. ready \in Seq(Parts) /\ tasks \in Seq(StorageTasks)
  BY DEF StoreTypes
<1> QED
  BY <1>1, WayAppend DEF Way, Behind

LEMMA SlicesAreOnTheWay ==
    ASSUME StoreTypes, ~SliceOnItsWay, NEW k \in Places
    PROVE  Way[k].kind # "slice"
<1>1. Len(ready) \in Nat /\ Len(tasks) \in Nat
  BY DEF StoreTypes
<1>2. CASE k <= Len(ready)
  <2>1. k \in 1..Len(ready)
    BY <1>1, <1>2 DEF Places
  <2> QED
    BY <1>2, <2>1 DEF Way, WayOf, SliceOnItsWay
<1>3. CASE ~(k <= Len(ready)) /\ k <= Len(ready) + Len(tasks)
  <2> DEFINE t == tasks[k - Len(ready)]
  <2>1. k - Len(ready) \in 1..Len(tasks)
    BY <1>1, <1>3 DEF Places
  <2>2. t \in StorageTasks
    BY <2>1 DEF StoreTypes
  <2>3. t.op = "part" => t.part.kind # "slice"
    BY <2>1 DEF SliceOnItsWay
  <2>4. Way[k] = PartOf(t)
    BY <1>3 DEF Way, WayOf
  <2> HIDE DEF t
  <2>5. PartOf(t).kind # "slice"
    BY <2>2, <2>3 DEF PartOf, Nothing, StorageTasks
  <2> QED
    BY <2>4, <2>5
<1>4. CASE ~(k <= Len(ready)) /\ ~(k <= Len(ready) + Len(tasks))
  BY <1>4 DEF Way, WayOf, Nothing
<1> QED
  BY <1>2, <1>3, <1>4

(* A difference is given up: what only it would have brought is forgotten.   *)
LEMMA QueuedIsRemembered ==
    ASSUME NEW d, Orderly(d), d.owed \subseteq UNION {d.queue[b] : b \in Boxes}
    PROVE  AllRemembered(d)
BY DEF Orderly, AllRemembered, Remembered

(* The answer arrives.                                                       *)
LEMMA SliceArrives ==
    ASSUME HoleInv, DifferenceArrives, answer.kind = "slice"
    PROVE  HoleInv'
<1> DEFINE t == [op |-> "part", part |-> answer]
<1>1. /\ c.request # None /\ answer # None /\ answer' = None /\ c' = Ask(c, answer.to)
      /\ tasks' = Append(tasks, t) /\ UNCHANGED <<sent, results, ready, disk, world>>
  BY DEF DifferenceArrives
<1>2. /\ world \in Worlds /\ Orderly(c) /\ StoreTypes /\ FlightInv(Way, c, answer)
      /\ Way \in [Places -> AllParts] /\ Behind \in Places
      /\ \A k \in Places : k >= Behind => Way[k].kind = "none"
  BY InvFacts
<1>3. answer \in Parts /\ answer \in AllParts /\ answer.to \in Points
  BY <1>1, <1>2 DEF StoreTypes, Parts, AllParts, Kinds, None
<1>4. t \in StorageTasks /\ PartOf(t) = answer
  BY <1>3 DEF StorageTasks, PartOf
<1> HIDE DEF t
<1>5. /\ tasks' \in Seq(StorageTasks)
      /\ Placed(WayOf(ready', tasks'), Way, Behind, answer)
  BY <1>1, <1>2, <1>4, PartAppended
<1>6. Requests(c, c', answer.to)
  BY <1>1, <1>2, <1>3, AskRequests
<1>7. c'.getting /\ c'.request = answer.to /\ c'.reset = c.reset /\ Orderly(c') /\ AllRemembered(c')
  BY <1>6 DEF Requests, SameElse
<1>8. FlightInv(WayOf(ready', tasks'), c', None)
  BY <1>1, <1>2, <1>3, <1>5, <1>7, SliceKeepsFlight
<1> QED
  BY <1>1, <1>2, <1>5, <1>7, <1>8, HoleInvNext DEF StoreTypes

LEMMA LastPartArrives ==
    ASSUME HoleInv, DifferenceArrives, answer.kind \in {"difference", "empty"}
    PROVE  HoleInv'
<1> DEFINE t == [op |-> "part", part |-> answer]
           n == [c EXCEPT !.request = None]
<1>1. /\ c.request # None /\ answer # None /\ answer' = None /\ c' = n
      /\ tasks' = Append(tasks, t) /\ UNCHANGED <<sent, results, ready, disk, world>>
  BY DEF DifferenceArrives
<1>2. /\ world \in Worlds /\ Orderly(c) /\ StoreTypes /\ FlightInv(Way, c, answer) /\ c \in Client
      /\ Way \in [Places -> AllParts] /\ Behind \in Places
      /\ \A k \in Places : k >= Behind => Way[k].kind = "none"
      /\ (c.outrun \/ AllRemembered(c))
  BY InvFacts
<1>3. answer \in Parts /\ answer \in AllParts
  BY <1>1, <1>2 DEF StoreTypes, Parts, AllParts, Kinds, None
<1>4. t \in StorageTasks /\ PartOf(t) = answer
  BY <1>3 DEF StorageTasks, PartOf
<1> HIDE DEF t
<1>5. /\ tasks' \in Seq(StorageTasks)
      /\ Placed(WayOf(ready', tasks'), Way, Behind, answer)
  BY <1>1, <1>2, <1>4, PartAppended
<1>6. /\ n \in Client /\ SameElse(c, n) /\ SameQueues(c, n) /\ n.owed = c.owed
      /\ n.getting = c.getting /\ n.request = None /\ n.cover = c.cover
  BY <1>2 DEF Client, SameElse, SameQueues
<1> HIDE DEF n
<1>7. Orderly(n) /\ (n.outrun \/ AllRemembered(n))
  BY <1>2, <1>6 DEF Orderly, SameElse, SameQueues, AllRemembered, Remembered
<1>8. n.reset = None /\ n.outrun = c.outrun /\ n.last = c.last
  BY <1>1, <1>2, <1>6 DEF FlightInv, Asked, SameElse, SameQueues
<1>9. FlightInv(WayOf(ready', tasks'), n, None)
  <2>1. answer.kind \in Enders
    BY DEF Enders
  <2> QED
    BY <1>1, <1>2, <1>3, <1>5, <1>6, <1>8, <2>1, EnderKeepsFlight
<1> QED
  BY <1>1, <1>2, <1>5, <1>7, <1>9, HoleInvNext DEF StoreTypes

LEMMA ErrorArrives ==
    ASSUME HoleInv, DifferenceArrives, answer.kind = "error"
    PROVE  HoleInv'
<1> DEFINE kept == c.owed \cap UNION {c.queue[b] : b \in Boxes}
           n == [c EXCEPT !.getting = FALSE, !.request = None, !.owed = kept,
                          !.outrun = @ \/ SliceOnItsWay]
<1>1. /\ c.request # None /\ answer' = None /\ c' = n
      /\ UNCHANGED <<sent, results, tasks, ready, disk, world>>
  BY DEF DifferenceArrives
<1>2. /\ world \in Worlds /\ Orderly(c) /\ StoreTypes /\ FlightInv(Way, c, answer) /\ c \in Client
      /\ Way \in [Places -> AllParts]
  BY InvFacts
<1>3. SliceOnItsWay \in BOOLEAN /\ c.outrun \in BOOLEAN /\ kept \in SUBSET Updates
  BY <1>2, ClientFields DEF SliceOnItsWay
<1> HIDE DEF kept
<1>4. /\ n \in Client /\ n.getting = FALSE /\ n.request = None /\ SameQueues(c, n)
      /\ n.owed = kept /\ n.reset = c.reset
      /\ n.outrun = (c.outrun \/ SliceOnItsWay)
  BY <1>2, <1>3 DEF Client, SameQueues
<1> HIDE DEF n
<1>5. Orderly(n)
  BY <1>2, <1>4 DEF Orderly, SameQueues, kept
<1>6. AllRemembered(n)
  BY <1>4, <1>5, QueuedIsRemembered DEF SameQueues, kept
<1>7. n.reset = None
  BY <1>1, <1>2, <1>4 DEF FlightInv, Asked
<1>8. n.outrun \/ \A k \in Places : Way[k].kind # "slice"
  BY <1>2, <1>4, SlicesAreOnTheWay
<1>9. FlightInv(Way, n, None)
  BY <1>1, <1>2, <1>4, <1>7, <1>8, SameWayKeepsFlight
<1> QED
  BY <1>1, <1>2, <1>5, <1>6, <1>9, HoleInvNext DEF StoreTypes, Way

LEMMA TooLongArrives ==
    ASSUME HoleInv, DifferenceArrives, answer.kind = "tooLong"
    PROVE  HoleInv'
<1> DEFINE r == [last |-> [answer.to EXCEPT !["seq"] = c.last["seq"], !["qts"] = answer.from["qts"]],
                 dialogs |-> 0]
           n == [c EXCEPT !.request = None, !.reset = r]
<1>1. /\ c.request # None /\ answer # None /\ answer' = None /\ c' = n
      /\ UNCHANGED <<sent, results, tasks, ready, disk, world>>
  BY DEF DifferenceArrives
<1>2. /\ world \in Worlds /\ Orderly(c) /\ StoreTypes /\ FlightInv(Way, c, answer) /\ c \in Client
      /\ Way \in [Places -> AllParts] /\ (c.outrun \/ AllRemembered(c)) /\ c.last \in Points
  BY InvFacts
<1>3. answer.to \in Points /\ answer.from \in Points
  BY <1>1, <1>2 DEF StoreTypes
<1>4. r \in [last : Points, dialogs : Nat]
  <2>1. [answer.to EXCEPT !["seq"] = c.last["seq"], !["qts"] = answer.from["qts"]] \in Points
    BY <1>2, <1>3 DEF Points, Boxes
  <2> QED
    BY <2>1
<1> HIDE DEF r
<1>5. /\ n \in Client /\ n.getting = c.getting /\ n.request = None /\ SameQueues(c, n)
      /\ n.owed = c.owed /\ n.cover = c.cover /\ n.outrun = c.outrun
  BY <1>2, <1>4 DEF Client, SameQueues
<1> HIDE DEF n
<1>6. Orderly(n) /\ (n.outrun \/ AllRemembered(n))
  BY <1>2, <1>5 DEF Orderly, SameQueues, AllRemembered, Remembered
<1>7. n.getting
  BY <1>1, <1>2, <1>5 DEF FlightInv, Asked
<1>8. FlightInv(Way, n, None)
  BY <1>1, <1>2, <1>5, <1>7, SameWayKeepsFlight
<1> QED
  BY <1>1, <1>2, <1>6, <1>8, HoleInvNext DEF StoreTypes, Way

LEMMA DifferenceArrivesStep ==
    ASSUME HoleInv, DifferenceArrives
    PROVE  HoleInv'
<1>1. answer.kind \in AnswerKinds
  <2>1. answer # None /\ answer \in [kind : AnswerKinds, from : Points, to : Points] \cup {None}
    BY InvFacts DEF DifferenceArrives, StoreTypes
  <2> QED
    BY <2>1
<1> QED
  BY <1>1, SliceArrives, LastPartArrives, ErrorArrives, TooLongArrives DEF AnswerKinds

(* resetDialogs.                                                             *)
LEMMA AnswerDialogsStep ==
    ASSUME HoleInv, AnswerDialogs
    PROVE  HoleInv'
<1> DEFINE r == [c.reset EXCEPT !.dialogs = Value("pts")]
           n == [c EXCEPT !.reset = r]
<1>1. /\ c.reset # None /\ c' = n
      /\ UNCHANGED <<sent, results, answer, tasks, ready, disk, world>>
  BY DEF AnswerDialogs
<1>2. /\ world \in Worlds /\ Orderly(c) /\ StoreTypes /\ FlightInv(Way, c, answer) /\ c \in Client
      /\ Way \in [Places -> AllParts] /\ (c.outrun \/ AllRemembered(c)) /\ sent \subseteq Updates
  BY InvFacts
<1>3. Value("pts") \in Nat
  <2>1. Server \in Points /\ Value("pts") = Server["pts"] /\ "pts" \in Boxes
    BY <1>2, ServerBounds DEF Server, Boxes
  <2> QED
    BY <1>2, <2>1, PointsAreNumbers
<1>4. r \in [last : Points, dialogs : Nat]
  BY <1>1, <1>2, <1>3, ClientFields
<1> HIDE DEF r
<1>5. /\ n \in Client /\ SameFlight(c, n) /\ SameQueues(c, n)
      /\ n.owed = c.owed /\ n.outrun = c.outrun
  BY <1>2, <1>4 DEF Client, SameQueues, SameFlight
<1> HIDE DEF n
<1>6. Orderly(n) /\ (n.outrun \/ AllRemembered(n))
  BY <1>2, <1>5 DEF Orderly, SameQueues, AllRemembered, Remembered, SameFlight
<1>7. c.request = None /\ n.request = None /\ n.getting /\ answer = None
  BY <1>1, <1>2, <1>5 DEF FlightInv, Asked, SameFlight
<1>8. FlightInv(Way, n, None)
  BY <1>1, <1>2, <1>7, SameWayKeepsFlight
<1> QED
  BY <1>1, <1>2, <1>6, <1>7, <1>8, HoleInvNext DEF StoreTypes, Way

LEMMA ResetFailsStep ==
    ASSUME HoleInv, ResetFails
    PROVE  HoleInv'
<1> DEFINE kept == c.owed \cap UNION {c.queue[b] : b \in Boxes}
           n == [c EXCEPT !.reset = None, !.cover = Zero, !.owed = kept]
<1>1. /\ c.reset # None /\ c' = n
      /\ UNCHANGED <<sent, results, answer, tasks, ready, disk, world>>
  BY DEF ResetFails
<1>2. /\ world \in Worlds /\ Orderly(c) /\ StoreTypes /\ FlightInv(Way, c, answer) /\ c \in Client
      /\ Way \in [Places -> AllParts]
  BY InvFacts
<1>3. Zero \in Points /\ kept \in SUBSET Updates
  BY <1>2, LimitBounds, ClientFields DEF Zero, Points
<1> HIDE DEF kept
<1>4. /\ n \in Client /\ n.getting = c.getting /\ n.request = c.request /\ SameQueues(c, n)
      /\ n.owed = kept /\ n.reset = None
  BY <1>2, <1>3 DEF Client, SameQueues
<1> HIDE DEF n
<1>5. Orderly(n)
  BY <1>2, <1>4 DEF Orderly, SameQueues, kept
<1>6. AllRemembered(n)
  BY <1>4, <1>5, QueuedIsRemembered DEF SameQueues, kept
<1>7. n.request = None /\ n.getting /\ answer = None
  BY <1>1, <1>2, <1>4 DEF FlightInv, Asked
<1>8. FlightInv(Way, n, None)
  BY <1>1, <1>2, <1>4, <1>7, SameWayKeepsFlight
<1> QED
  BY <1>1, <1>2, <1>5, <1>6, <1>7, <1>8, HoleInvNext DEF StoreTypes, Way

LEMMA ResetDialogsStep ==
    ASSUME HoleInv, ResetDialogs
    PROVE  HoleInv'
<1> DEFINE t == [op |-> "reset", last |-> c.reset.last, upto |-> c.reset.dialogs]
           p == [kind |-> "reset", from |-> Zero, to |-> c.reset.last]
           n == [c EXCEPT !.reset = None]
<1>1. /\ c.reset # None /\ c' = n /\ tasks' = Append(tasks, t)
      /\ UNCHANGED <<sent, results, answer, ready, disk, world>>
  BY DEF ResetDialogs
<1>2. /\ world \in Worlds /\ Orderly(c) /\ StoreTypes /\ FlightInv(Way, c, answer) /\ c \in Client
      /\ Way \in [Places -> AllParts] /\ Behind \in Places
      /\ \A k \in Places : k >= Behind => Way[k].kind = "none"
      /\ (c.outrun \/ AllRemembered(c))
  BY InvFacts
<1>3. c.reset.last \in Points /\ c.reset.dialogs \in Nat /\ Zero \in Points
  BY <1>1, <1>2, ClientFields, LimitBounds DEF Zero, Points
<1>4. t \in StorageTasks /\ PartOf(t) = p /\ p \in AllParts /\ p.kind \in Enders
      /\ p.kind \notin {"difference", "empty"}
  BY <1>3 DEF StorageTasks, PartOf, AllParts, Kinds, Enders
<1> HIDE DEF t, p
<1>5. tasks' \in Seq(StorageTasks) /\ Placed(WayOf(ready', tasks'), Way, Behind, p)
  BY <1>1, <1>2, <1>4, PartAppended
<1>6. /\ n \in Client /\ SameFlight(c, n) /\ SameQueues(c, n) /\ n.owed = c.owed
      /\ n.reset = None /\ n.outrun = c.outrun
  BY <1>2 DEF Client, SameFlight, SameQueues
<1> HIDE DEF n
<1>7. Orderly(n) /\ (n.outrun \/ AllRemembered(n))
  BY <1>2, <1>6 DEF Orderly, SameQueues, SameFlight, AllRemembered, Remembered
<1>8. n.request = None /\ answer = None
  BY <1>1, <1>2, <1>6 DEF FlightInv, Asked, SameFlight
<1>9. FlightInv(WayOf(ready', tasks'), n, None)
  <2>1. n.getting = c.getting /\ n.last = c.last /\ n.cover = c.cover
    BY <1>6 DEF SameFlight, SameQueues
  <2> QED
    BY <1>1, <1>2, <1>4, <1>5, <1>6, <1>8, <2>1, EnderKeepsFlight
<1> QED
  BY <1>1, <1>2, <1>5, <1>7, <1>8, <1>9, HoleInvNext DEF StoreTypes

(* A task of the storage queue: of the client only what was saved changes.   *)
OnlySaves(d, n) ==
    /\ Orderly(n) /\ SameQueues(d, n) /\ SameFlight(d, n) /\ n.owed = d.owed
    /\ n.base = d.base /\ n.reset = d.reset /\ n.outrun = d.outrun

LEMMA RunStorageTaskFacts ==
    ASSUME TypeInv, RunStorageTask
    PROVE  /\ Head(tasks) \in StorageTasks /\ tasks' \in Seq(StorageTasks) /\ tasks' = Tail(tasks)
           /\ OnlySaves(c, c')
           /\ ready' \in Seq(Parts) /\ disk' \in [last : Points, units : Stored]
           /\ Head(tasks).op = "write" => /\ ready' = ready
                                          /\ disk'.units = disk.units \cup Head(tasks).put
                                          /\ disk'.last = disk.last \/ disk'.last = Head(tasks).last
           /\ Head(tasks).op # "write" => ready' = Append(ready, PartOf(Head(tasks)))
           /\ Head(tasks).op = "part" => disk' = disk
<1> DEFINE t == Head(tasks)
           same == /\ t.op = "write" /\ ~t.dated
                   /\ c.saved["seq"] = t.last["seq"] /\ c.saved["pts"] = t.last["pts"]
                   /\ c.last["qts"] = t.last["qts"]
           n == [c EXCEPT !.saved = t.last]
<1>1. world \in Worlds /\ Orderly(c) /\ c \in Client /\ tasks # <<>>
  BY DEF TypeInv, Orderly, RunStorageTask
<1>2. /\ tasks \in Seq(StorageTasks) /\ ready \in Seq(Parts) /\ disk \in [last : Points, units : Stored]
  BY DEF TypeInv, StoreTypes
<1>3. /\ tasks' = Tail(tasks)
      /\ disk' = CASE t.op = "write" -> [last  |-> IF same THEN disk.last ELSE t.last,
                                         units |-> disk.units \cup t.put]
                   [] t.op = "reset" -> [last  |-> t.last,
                                         units |-> Units("pts", 0, t.upto)
                                                   \cup {x \in disk.units : x[1] # "pts"}]
                   [] OTHER -> disk
      /\ c' = IF t.op = "part" \/ same THEN c ELSE n
      /\ ready' = CASE t.op = "part" -> Append(ready, t.part)
                    [] t.op = "reset" -> Append(ready, [kind |-> "reset", from |-> Zero, to |-> t.last])
                    [] OTHER -> ready
  BY DEF RunStorageTask
<1>4. t \in StorageTasks /\ tasks' \in Seq(StorageTasks)
  BY <1>1, <1>2, <1>3
<1>5. OnlySaves(c, c')
  <2>1. OnlySaves(c, c)
    BY <1>1 DEF OnlySaves, SameQueues, SameFlight
  <2>2. CASE t.op # "part"
    <3>1. t.last \in Points
      BY <1>4, <2>2 DEF StorageTasks
    <3> HIDE DEF t
    <3>2. /\ n \in Client /\ SameQueues(c, n) /\ SameFlight(c, n) /\ n.owed = c.owed
          /\ n.base = c.base /\ n.reset = c.reset /\ n.outrun = c.outrun
      BY <1>1, <3>1 DEF Client, SameQueues, SameFlight
    <3> HIDE DEF n
    <3>3. OnlySaves(c, n)
      BY <1>1, <3>2 DEF OnlySaves, Orderly, SameQueues
    <3> QED
      BY <1>3, <2>1, <3>3
  <2> HIDE DEF n, t
  <2> QED
    BY <1>3, <2>1, <2>2
<1> HIDE DEF t, same, n
<1>6. CASE t.op = "write"
  <2>1. t.last \in Points /\ t.put \in Stored
    BY <1>4, <1>6 DEF StorageTasks
  <2>2. ready' = ready /\ disk' = [last |-> IF same THEN disk.last ELSE t.last, units |-> disk.units \cup t.put]
    BY <1>3, <1>6
  <2>3. disk.units \cup t.put \in Stored /\ disk.last \in Points
    BY <1>2, <2>1 DEF Stored
  <2> QED
    BY <1>2, <1>3, <1>4, <1>5, <1>6, <2>1, <2>2, <2>3 DEF t
<1>7. CASE t.op = "reset"
  <2> DEFINE p == [kind |-> "reset", from |-> Zero, to |-> t.last]
  <2>1. t.last \in Points /\ t.upto \in Nat /\ Zero \in Points
    BY <1>1, <1>4, <1>7, LimitBounds DEF StorageTasks, Zero, Points
  <2>2. p \in Parts /\ p = PartOf(t)
    BY <1>7, <2>1 DEF Parts, Kinds, PartOf
  <2>3. ready' = Append(ready, p)
    BY <1>3, <1>7
  <2>4. Units("pts", 0, t.upto) \cup {x \in disk.units : x[1] # "pts"} \in Stored
    <3>1. Units("pts", 0, t.upto) \in Stored
      BY <1>1, <2>1, UnitsAreStored DEF Boxes
    <3> QED
      BY <1>2, <3>1 DEF Stored
  <2>5. disk' \in [last : Points, units : Stored]
    BY <1>3, <1>7, <2>1, <2>4
  <2> HIDE DEF p
  <2> QED
    BY <1>2, <1>3, <1>4, <1>5, <1>7, <2>2, <2>3, <2>5 DEF t
<1>8. CASE t.op = "part"
  <2>1. t.part \in Parts /\ t.part = PartOf(t)
    BY <1>4, <1>8 DEF StorageTasks, PartOf
  <2>2. ready' = Append(ready, t.part) /\ disk' = disk
    BY <1>3, <1>8
  <2> QED
    BY <1>2, <1>3, <1>4, <1>5, <1>8, <2>1, <2>2 DEF t
<1>9. t.op \in {"write", "reset", "part"}
  BY <1>4 DEF StorageTasks
<1> QED
  BY <1>6, <1>7, <1>8, <1>9

LEMMA RunStorageTaskStep ==
    ASSUME HoleInv, RunStorageTask
    PROVE  HoleInv'
<1> DEFINE t == Head(tasks)
<1>1. /\ TypeInv /\ world \in Worlds /\ Orderly(c) /\ StoreTypes /\ FlightInv(Way, c, answer)
      /\ Way \in [Places -> AllParts] /\ (c.outrun \/ AllRemembered(c)) /\ c.last \in Points
  BY InvFacts
<1>2. /\ t \in StorageTasks /\ tasks' \in Seq(StorageTasks) /\ tasks' = Tail(tasks)
      /\ OnlySaves(c, c') /\ ready' \in Seq(Parts) /\ disk' \in [last : Points, units : Stored]
      /\ t.op = "write" => ready' = ready
      /\ t.op # "write" => ready' = Append(ready, PartOf(t))
  BY <1>1, RunStorageTaskFacts
<1>3. tasks # <<>> /\ UNCHANGED <<sent, results, answer, world>>
  BY DEF RunStorageTask
<1>4. tasks \in Seq(StorageTasks) /\ ready \in Seq(Parts)
  BY <1>1 DEF StoreTypes
<1>5. \A b \in Boxes : c.last[b] <= c'.last[b]
  BY <1>1, <1>2, PointsAreNumbers DEF OnlySaves, SameQueues
<1>6. Moves(c, c')
  BY <1>2, <1>5 DEF OnlySaves, Moves, SameQueues, SameFlight, AllRemembered, Remembered
<1>7. FlightInv(Way, c', answer)
  BY <1>1, <1>6, MovesKeepFlight
<1>8. FlightInv(WayOf(ready', tasks'), c', answer)
  <2>1. CASE t.op = "write"
    <3> DEFINE r == Len(ready) + 1
    <3>1. WayOf(ready', tasks') = Without(Way, r) /\ Way[r] = PartOf(t) /\ r \in Places
      BY <1>2, <1>3, <1>4, <2>1, WayStored DEF Way
    <3>2. Way[r].kind = "none"
      BY <2>1, <3>1 DEF PartOf, Nothing
    <3> HIDE DEF r
    <3> QED
      BY <1>1, <1>7, <3>1, <3>2, WithoutNothing
  <2>2. CASE t.op # "write"
    <3>1. PartOf(t) \in Parts
      <4>1. ready' = Append(ready, PartOf(t)) /\ Len(ready) + 1 \in 1..Len(ready')
        BY <1>2, <1>4, <2>2
      <4>2. ready'[Len(ready) + 1] \in Parts
        BY <1>2, <4>1
      <4> QED
        BY <1>4, <4>1, <4>2
    <3>2. WayOf(Append(ready, PartOf(t)), Tail(tasks)) = WayOf(ready, tasks)
      BY <1>3, <1>4, <3>1, WayPosted
    <3> QED
      BY <1>2, <1>7, <2>2, <3>2 DEF Way
  <2> QED
    BY <2>1, <2>2
<1>9. Orderly(c') /\ (c'.outrun \/ AllRemembered(c'))
  BY <1>1, <1>6 DEF Moves
<1>10. answer' \in [kind : AnswerKinds, from : Points, to : Points] \cup {None} /\ answer' = answer
  BY <1>1, <1>3 DEF StoreTypes
<1> QED
  BY <1>2, <1>3, <1>8, <1>9, <1>10, HoleInvNext

(* What a part of a difference brings; and a client that it has been applied *)
(* to.                                                                       *)
PartUnits(p) == UNION {Units(b, p.from[b], p.to[b]) : b \in Boxes}

Counts(p, b) == \/ p.kind = "difference"
                \/ p.kind = "slice" /\ b # "seq"
                \/ p.kind = "empty" /\ b = "seq"

Lands(d, n, p) ==
    /\ Orderly(n) /\ SameElse(d, n) /\ n.queue = d.queue /\ n.owed = d.owed
    /\ n.request = d.request /\ n.cover = d.cover
    /\ n.getting = IF p.kind # "slice" THEN FALSE ELSE d.getting
    /\ \A b \in Boxes : n.last[b] = IF Counts(p, b) THEN p.to[b] ELSE d.last[b]

LEMMA ApplyDifferenceFacts ==
    ASSUME TypeInv, NEW missing, ApplyDifference(missing)
    PROVE  /\ Head(ready) \in Parts /\ Head(ready).kind # "reset" /\ ready # <<>> /\ ready' = Tail(ready)
           /\ UNCHANGED <<sent, results, answer, disk, world>>
           /\ \E at, put :
                /\ Lands(c, at, Head(ready)) /\ put \in Stored /\ PartUnits(Head(ready)) \subseteq put
                /\ Wrote(tasks', c'.last, put)
                /\ Head(ready).kind = "slice" => c' = at
                /\ Head(ready).kind # "slice" => /\ Brings(at, c', Boxes, missing)
                                       /\ NotOwn(AppliedOf(at, Boxes, missing)) \subseteq put
<1> DEFINE p == Head(ready)
           end == Ends(p)
           last == [b \in Boxes |-> IF Counts(p, b) THEN p.to[b] ELSE c.last[b]]
           at  == [c EXCEPT !.getting = IF end THEN FALSE ELSE c.getting, !.last = last]
           d   == IF end THEN ProcessQueues(at, Boxes, missing) ELSE at
           us  == IF end THEN AppliedOf(at, Boxes, missing) ELSE {}
           put == PartUnits(p) \cup NotOwn(us)
<1>1. /\ ready # <<>> /\ p.kind # "reset" /\ ready' = Tail(ready)
      /\ c' = d /\ tasks' = Write(d.last, put, TRUE)
      /\ UNCHANGED <<sent, results, answer, disk, world>>
  <2>1. c' = d
    BY DEF ApplyDifference, Counts
  <2>2. tasks' = Write(d.last, put, TRUE)
    BY DEF ApplyDifference, Counts, PartUnits
  <2> QED
    BY <2>1, <2>2 DEF ApplyDifference
<1>2. world \in Worlds /\ SentInv /\ Orderly(c) /\ c \in Client /\ ready \in Seq(Parts) /\ c.last \in Points
  BY ClientFields DEF TypeInv, StoreTypes, Orderly
<1>3. p \in Parts /\ p.to \in Points /\ p.from \in Points
  <2> ready # <<>> /\ ready \in Seq(Parts)
    BY <1>1, <1>2
  <2>1. p \in Parts
    OBVIOUS
  <2> QED
    BY <2>1 DEF Parts
<1> HIDE DEF p
<1>4. last \in Points
  BY <1>2, <1>3 DEF Points
<1>5. c.getting \in BOOLEAN /\ end = (p.kind # "slice")
  BY <1>2, ClientFields DEF Ends
<1>6. Lands(c, at, p)
  <2>1. \A b \in Boxes : last[b] = IF Counts(p, b) THEN p.to[b] ELSE c.last[b]
    OBVIOUS
  <2> HIDE DEF last
  <2>2. /\ at \in Client /\ SameElse(c, at) /\ at.queue = c.queue /\ at.owed = c.owed
        /\ at.request = c.request /\ at.cover = c.cover /\ at.last = last /\ at.wait = c.wait
        /\ at.getting = IF end THEN FALSE ELSE c.getting
    BY <1>2, <1>4, <1>5 DEF Client, SameElse
  <2> HIDE DEF at
  <2>3. Orderly(at)
    BY <1>2, <2>2 DEF Orderly
  <2> QED
    BY <1>5, <2>1, <2>2, <2>3 DEF Lands
<1> HIDE DEF at, last
<1>7. end => Brings(at, d, Boxes, missing)
  BY <1>2, <1>6, ProcessQueuesBrings DEF Lands
<1>8. us \subseteq Updates
  BY <1>2, <1>7 DEF Brings, SentInv
<1>9. d.last \in Points
  <2>1. Orderly(d)
    BY <1>6, <1>7 DEF Lands, Brings
  <2> QED
    BY <2>1, ClientFields DEF Orderly
<1>10. PartUnits(p) \in Stored
  <2> SUFFICES ASSUME NEW b \in Boxes PROVE Units(b, p.from[b], p.to[b]) \in Stored
    BY DEF PartUnits, Stored
  <2> QED
    BY <1>2, <1>3, PointsAreNumbers, UnitsAreStored
<1>11. put \in Stored
  <2>1. NotOwn(us) \in Stored
    BY <1>2, <1>8, UpdatesAreStored
  <2> QED
    BY <1>10, <2>1 DEF Stored
<1> HIDE DEF d, us
<1>12. Wrote(tasks', c'.last, put)
  <2> HIDE DEF put
  <2> QED
    BY <1>1, <1>9, <1>11, WriteWrote
<1>13. p.kind = "slice" => c' = at
  BY <1>1, <1>5 DEF d
<1>14. p.kind # "slice" => Brings(at, c', Boxes, missing) /\ NotOwn(AppliedOf(at, Boxes, missing)) \subseteq put
  BY <1>1, <1>5, <1>7 DEF us
<1> QED
  BY <1>1, <1>3, <1>6, <1>11, <1>12, <1>13, <1>14 DEF p, put

(* What was let wait for a difference has been passed when it has landed.    *)
LEMMA LastPartLands ==
    ASSUME world \in Worlds, NEW w \in [Places -> AllParts], NEW d, Orderly(d),
           NEW a, FlightInv(w, d, a), ~d.outrun, AllRemembered(d),
           w[1].kind \in {"difference", "empty"}, NEW n, Lands(d, n, w[1])
    PROVE  AllKnown(n)
<1> DEFINE p == w[1]
<1>1. 1 \in Places /\ p.kind \in Enders
  BY DEF Places, Enders
<1>2. \A b \in Boxes : d.cover[b] <= p.to[b]
  BY <1>1 DEF FlightInv, Reaches
<1>3. d.cover \in Points /\ d.last \in Points /\ p.to \in Points /\ n.last \in Points /\ d.owed \subseteq Updates
  BY <1>1, ClientFields DEF Orderly, Lands, AllParts
<1>4. \A b \in Boxes : p.to[b] <= n.last[b]
  <2> SUFFICES ASSUME NEW b \in Boxes PROVE p.to[b] <= n.last[b]
    OBVIOUS
  <2>1. p.to[b] \in Nat /\ d.last[b] \in Nat
    BY <1>3, PointsAreNumbers
  <2>2. CASE Counts(p, b)
    BY <2>1, <2>2 DEF Lands
  <2>3. CASE ~Counts(p, b)
    <3>1. p.kind = "empty" /\ b \in {"pts", "qts"} /\ p.to = p.from
      BY <1>1, <2>3 DEF Counts, Boxes, FlightInv, Reaches
    <3>2. Front(w, d, p.from)
      BY <1>1, <3>1 DEF FlightInv, Fronts
    <3>3. \A k \in Places : w[k].kind # "slice"
      <4> TAKE k \in Places
      <4>1. CASE k = 1
        BY <3>1, <4>1
      <4>2. CASE k # 1
        <5>1. k > 1
          BY <4>2 DEF Places
        <5> QED
          BY <1>1, <5>1 DEF FlightInv, Alone
      <4> QED
        BY <4>1, <4>2
    <3>4. p.from[b] <= d.last[b]
      BY <3>1, <3>2, <3>3 DEF Front
    <3> QED
      BY <2>3, <3>1, <3>4 DEF Lands
  <2> QED
    BY <2>2, <2>3
<1> HIDE DEF p
<1> SUFFICES ASSUME NEW u \in d.owed PROVE Remembered(n, u) \/ u.hi <= n.last[u.box]
  BY DEF AllKnown, Lands
<1>5. u.box \in Boxes /\ u.hi \in Nat
  BY <1>3, UpdateFields
<1>6. CASE u \in d.queue[u.box]
  BY <1>6 DEF Remembered, Lands
<1>7. CASE u.hi <= d.cover[u.box]
  <2>1. d.cover[u.box] <= p.to[u.box] /\ p.to[u.box] <= n.last[u.box]
    BY <1>2, <1>4, <1>5
  <2>2. d.cover[u.box] \in Nat /\ p.to[u.box] \in Nat /\ n.last[u.box] \in Nat
    BY <1>3, <1>5, PointsAreNumbers
  <2> QED
    BY <1>5, <1>7, <2>1, <2>2
<1> QED
  BY <1>6, <1>7 DEF AllRemembered, Remembered

LEMMA ApplyDifferenceStep ==
    ASSUME HoleInv, NEW missing, ApplyDifference(missing)
    PROVE  HoleInv'
<1> DEFINE p == Head(ready)
<1>1. /\ TypeInv /\ world \in Worlds /\ SentInv /\ Orderly(c) /\ StoreTypes /\ FlightInv(Way, c, answer)
      /\ Way \in [Places -> AllParts] /\ (c.outrun \/ AllRemembered(c)) /\ c.last \in Points
  BY InvFacts
<1>2. /\ p \in Parts /\ p.kind # "reset" /\ ready # <<>> /\ ready' = Tail(ready)
      /\ UNCHANGED <<sent, results, answer, disk, world>>
  BY <1>1, ApplyDifferenceFacts
<1>3. PICK at, put : /\ Lands(c, at, p)
                     /\ Wrote(tasks', c'.last, put)
                     /\ p.kind = "slice" => c' = at
                     /\ p.kind # "slice" => Brings(at, c', Boxes, missing)
  <2>1. \E at, put :
          /\ Lands(c, at, p) /\ put \in Stored /\ PartUnits(p) \subseteq put
          /\ Wrote(tasks', c'.last, put)
          /\ p.kind = "slice" => c' = at
          /\ p.kind # "slice" => /\ Brings(at, c', Boxes, missing)
                                 /\ NotOwn(AppliedOf(at, Boxes, missing)) \subseteq put
    BY <1>1, ApplyDifferenceFacts
  <2> QED
    BY <2>1
<1>4. /\ WayOf(ready', tasks') = Without(Way, 1) /\ Way[1] = p
      /\ tasks' \in Seq(StorageTasks) /\ ready' \in Seq(Parts)
  <2>1. tasks \in Seq(StorageTasks) /\ ready \in Seq(Parts) /\ ready' \in Seq(Parts)
    BY <1>1, <1>2 DEF StoreTypes
  <2>2. WayOf(ready', tasks) = Without(Way, 1) /\ Way[1] = p
    BY <1>2, <2>1, WayTail DEF Way
  <2>3. tasks' \in Seq(StorageTasks) /\ WayOf(ready', tasks') = WayOf(ready', tasks)
    BY <1>3, <2>1, WroteWay
  <2> QED
    BY <2>1, <2>2, <2>3
<1>5. answer' = answer /\ answer' \in [kind : AnswerKinds, from : Points, to : Points] \cup {None}
      /\ disk' \in [last : Points, units : Stored]
  BY <1>1, <1>2 DEF StoreTypes
<1> HIDE DEF p
<1>6. CASE p.kind = "slice"
  <2>1. Lands(c, c', p)
    BY <1>3, <1>6
  <2>2. Orderly(c') /\ (c'.outrun \/ AllRemembered(c'))
    BY <1>1, <1>6, <2>1 DEF Lands, SameElse, AllRemembered, Remembered
  <2>3. /\ c'.getting = c.getting /\ c'.request = c.request /\ c'.reset = c.reset
        /\ c'.cover = c.cover /\ c'.outrun = c.outrun
    BY <1>6, <2>1 DEF Lands, SameElse
  <2>4. c'.last["pts"] = Way[1].to["pts"] /\ c'.last["qts"] = Way[1].to["qts"]
    BY <1>4, <1>6, <2>1 DEF Lands, Counts, Boxes
  <2>5. FlightInv(Without(Way, 1), c', answer)
    BY <1>1, <1>4, <1>6, <2>3, <2>4, AppliedSliceKeepsFlight
  <2> QED
    BY <1>2, <1>4, <1>5, <2>2, <2>5, HoleInvNext
<1>7. CASE p.kind # "slice"
  <2>1. p.kind \in {"difference", "empty"} /\ p.kind \in Enders
    BY <1>2, <1>7 DEF Parts, Kinds, Enders
  <2>2. /\ \A k \in Places : Without(Way, 1)[k].kind = "none"
        /\ c.getting /\ c.request = None /\ c.reset = None /\ answer = None
    BY <1>1, <1>4, <2>1, NothingBehindEnder
  <2>3. Brings(at, c', Boxes, missing) /\ Lands(c, at, p)
    BY <1>3, <1>7
  <2>4. Orderly(c') /\ c'.outrun = c.outrun /\ c'.reset = None
    BY <2>2, <2>3 DEF Brings, Lands, SameElse
  <2>5. c.outrun \/ AllRemembered(c')
    BY <1>1, <1>4, <2>1, <2>3, LastPartLands DEF Brings
  <2>6. \/ c'.request = None
        \/ c'.getting /\ \A b \in {"pts", "qts"} : c'.request[b] <= c'.last[b]
    BY <2>2, <2>3 DEF Brings, Lands, SameFlight, AsksNow, Boxes
  <2>7. FlightInv(WayOf(ready', tasks'), c', None)
    BY <1>4, <2>2, <2>4, <2>6, NothingUnderWay
  <2> QED
    BY <1>2, <1>4, <1>5, <2>2, <2>4, <2>5, <2>7, HoleInvNext
<1> QED
  BY <1>6, <1>7

(* The end of resetDialogs, which asks for the next difference.              *)
LEMMA CompleteDialogsResetFacts ==
    ASSUME TypeInv, c.request = None, c.reset = None, CompleteDialogsReset
    PROVE  /\ Orderly(c') /\ c'.reset = None /\ c'.outrun = c.outrun /\ AllRemembered(c')
           /\ c'.getting /\ \A b \in Boxes : c'.request[b] <= c'.last[b]
<1> DEFINE to   == Head(ready).to
           last == [c.last EXCEPT !["pts"] = to["pts"], !["qts"] = to["qts"]]
           d    == [c EXCEPT !.getting = FALSE, !.last["pts"] = to["pts"], !.last["qts"] = to["qts"]]
<1>1. ready # <<>> /\ c' = GetDifference(d, {})
  BY DEF CompleteDialogsReset
<1>2. world \in Worlds /\ Orderly(c) /\ c \in Client /\ ready \in Seq(Parts) /\ c.last \in Points
  BY ClientFields DEF TypeInv, StoreTypes, Orderly
<1>3. to \in Points
  <2> ready # <<>> /\ ready \in Seq(Parts)
    BY <1>1, <1>2
  <2>1. Head(ready) \in Parts
    OBVIOUS
  <2> QED
    BY <2>1 DEF Parts
<1> HIDE DEF to
<1>4. last \in Points
  BY <1>2, <1>3 DEF Points, Boxes
<1>5. /\ d \in Client /\ d.last \in Points /\ d.queue = c.queue /\ d.owed = c.owed /\ d.wait = c.wait
      /\ d.getting = FALSE /\ d.reset = None /\ d.outrun = c.outrun
  <2>1. d.last = last
    BY <1>2 DEF Client, Points
  <2>2. /\ d.queue = c.queue /\ d.owed = c.owed /\ d.wait = c.wait
        /\ d.getting = FALSE /\ d.reset = None /\ d.outrun = c.outrun
    BY <1>2 DEF Client
  <2>3. d = [c EXCEPT !.getting = FALSE, !.last = last]
    BY <1>2 DEF Client, Points
  <2>4. d \in Client
    <3> HIDE DEF last, d
    <3> QED
      BY <1>2, <1>4, <2>3 DEF Client
  <2> QED
    BY <1>4, <2>1, <2>2, <2>4
<1> HIDE DEF d, last
<1>6. Orderly(d)
  BY <1>2, <1>5 DEF Orderly
<1>7. c' = Ask(d, d.last)
  BY <1>1, <1>5 DEF GetDifference
<1>8. Requests(d, c', d.last)
  BY <1>2, <1>5, <1>6, <1>7, AskRequests
<1>9. \A b \in Boxes : d.last[b] <= d.last[b]
  BY <1>2, <1>5, PointsAreNumbers
<1> QED
  BY <1>5, <1>8, <1>9 DEF Requests, SameElse, SameQueues

LEMMA CompleteDialogsResetStep ==
    ASSUME HoleInv, CompleteDialogsReset
    PROVE  HoleInv'
<1>1. /\ TypeInv /\ world \in Worlds /\ StoreTypes /\ FlightInv(Way, c, answer)
      /\ Way \in [Places -> AllParts]
  BY InvFacts
<1>2. /\ ready # <<>> /\ Head(ready).kind = "reset" /\ ready' = Tail(ready)
      /\ UNCHANGED <<sent, results, answer, tasks, disk, world>>
  BY DEF CompleteDialogsReset
<1>3. tasks \in Seq(StorageTasks) /\ ready \in Seq(Parts) /\ ready' \in Seq(Parts)
  BY <1>1, <1>2 DEF StoreTypes
<1>4. WayOf(ready', tasks') = Without(Way, 1) /\ Way[1].kind = "reset" /\ Way[1].kind \in Enders
  BY <1>2, <1>3, WayTail DEF Way, Enders
<1>5. /\ \A k \in Places : Without(Way, 1)[k].kind = "none"
      /\ c.getting /\ c.request = None /\ c.reset = None /\ answer = None
  BY <1>1, <1>4, NothingBehindEnder
<1>6. /\ Orderly(c') /\ c'.reset = None /\ AllRemembered(c')
      /\ c'.getting /\ \A b \in Boxes : c'.request[b] <= c'.last[b]
  BY <1>1, <1>5, CompleteDialogsResetFacts
<1>7. FlightInv(WayOf(ready', tasks'), c', None)
  BY <1>4, <1>5, <1>6, NothingUnderWay DEF Boxes
<1> QED
  BY <1>1, <1>2, <1>3, <1>5, <1>6, <1>7, HoleInvNext DEF StoreTypes

(* A client that has just started.                                           *)
Starts(n, last, base) ==
    /\ Orderly(n) /\ AllRemembered(n) /\ n.request = None /\ n.reset = None
    /\ n.last = last /\ n.base = base /\ n.getting = FALSE

LEMMA MemoryFacts ==
    ASSUME world \in Worlds, NEW last \in Points, NEW base \in Points
    PROVE  /\ Starts(Memory(last), last, last)
           /\ Starts([Memory(last) EXCEPT !.base = base], last, base)
<1> DEFINE queue == [b \in Boxes |-> {}]
           wait  == [b \in Boxes |-> "none"]
           m == Memory(last)
           n == [m EXCEPT !.base = base]
<1>1. Zero \in Points
  BY LimitBounds DEF Zero, Points
<1>2. /\ queue \in [Boxes -> SUBSET Updates] /\ \A b \in Boxes : queue[b] = {}
      /\ wait \in [Boxes -> {"none", "fresh", "due"}]
  OBVIOUS
<1>3. m = [last |-> last, queue |-> queue, wait |-> wait, getting |-> FALSE, request |-> None,
           reset |-> None, saved |-> Zero, base |-> last, owed |-> {}, cover |-> last, outrun |-> FALSE]
  BY DEF Memory
<1> HIDE DEF queue, wait, m
<1>4. m \in Client
  <2>1. /\ None \in Points \cup {None} /\ None \in [last : Points, dialogs : Nat] \cup {None}
        /\ {} \in SUBSET Updates /\ FALSE \in BOOLEAN
    OBVIOUS
  <2> QED
    BY <1>1, <1>2, <1>3, <2>1 DEF Client
<1>5. /\ m.request = None /\ m.reset = None /\ m.last = last /\ m.base = last /\ m.getting = FALSE
      /\ m.owed = {} /\ m.queue = queue
  BY <1>3
<1>6. /\ n \in Client /\ n.request = None /\ n.reset = None /\ n.last = last /\ n.base = base
      /\ n.getting = FALSE /\ n.owed = {} /\ n.queue = queue
  BY <1>4, <1>5 DEF Client
<1> HIDE DEF n
<1>7. Starts(m, last, last) /\ Starts(n, last, base)
  BY <1>2, <1>4, <1>5, <1>6 DEF Starts, Orderly, AllRemembered
<1> QED
  BY <1>7 DEF m, n

LEMMA EmptyWay ==
    \A k \in Places : WayOf(<<>>, <<>>)[k].kind = "none"
BY DEF WayOf, Places, Nothing

LEMMA RestartStep ==
    ASSUME HoleInv, Restart
    PROVE  HoleInv'
<1>1. /\ TypeInv /\ world \in Worlds /\ StoreTypes /\ c \in Client
  BY InvFacts
<1>2. /\ c' = [Memory(disk.last) EXCEPT !.base = c.base]
      /\ answer' = None /\ tasks' = <<>> /\ ready' = <<>> /\ results' = {}
      /\ UNCHANGED <<sent, disk, world>>
  BY DEF Restart
<1>3. disk.last \in Points /\ c.base \in Points
  BY <1>1, ClientFields DEF StoreTypes
<1>4. Orderly(c') /\ AllRemembered(c') /\ c'.request = None /\ c'.reset = None
  <2>1. Starts(c', disk.last, c.base)
    BY <1>1, <1>2, <1>3, MemoryFacts
  <2> QED
    BY <2>1 DEF Starts
<1>5. FlightInv(WayOf(<<>>, <<>>), c', None)
  BY <1>4, EmptyWay, NothingUnderWay
<1>6. tasks' \in Seq(StorageTasks) /\ ready' \in Seq(Parts)
  BY <1>2
<1> QED
  BY <1>1, <1>2, <1>4, <1>5, <1>6, HoleInvNext DEF StoreTypes

(* The server: a new update lies behind those of its box.                    *)
LEMMA MakeUpdateTypes ==
    ASSUME TypeInv, NEW b \in Boxes, NEW n \in 1..2, NEW own \in BOOLEAN, MakeUpdate(b, n, own)
    PROVE  TypeInv' /\ sent \subseteq sent' /\ UNCHANGED <<c, answer, tasks, ready, disk, world>>
<1> DEFINE u == [box |-> b, hi |-> Value(b) + n, n |-> n, own |-> own]
<1>1. /\ world \in Worlds /\ sent \subseteq Updates /\ Apart(sent) /\ results \subseteq {v \in sent : v.own}
      /\ Orderly(c) /\ StoreTypes
  BY DEF TypeInv, SentInv
<1>2. /\ Value(b) + n <= Limit[b] /\ sent' = sent \cup {u}
      /\ results' = results \/ (own /\ results' = results \cup {u})
      /\ UNCHANGED <<c, answer, tasks, ready, disk, world>>
  BY DEF MakeUpdate
<1>3. /\ Value(b) \in Nat /\ Limit[b] \in Nat /\ Limit[b] <= Max(Range(Limit)) /\ Max(Range(Limit)) \in Nat
      /\ \A v \in sent : v.box = b => v.hi <= Value(b)
  BY <1>1, ValueBounds, LimitBounds
<1>4. u.box = b /\ u.hi = Value(b) + n /\ u.n = n /\ u.own = own
  OBVIOUS
<1>5. u \in Updates
  <2>1. Value(b) + n \in 1..Max(Range(Limit)) /\ n <= Value(b) + n
    BY <1>2, <1>3
  <2> QED
    BY <1>2, <2>1 DEF Updates
<1> HIDE DEF u
<1>6. Apart(sent')
  <2>1. u.hi - u.n = Value(b)
    BY <1>3, <1>4
  <2> SUFFICES ASSUME NEW v \in sent', NEW w \in sent', v.box = w.box, v # w
               PROVE  v.hi <= w.hi - w.n \/ w.hi <= v.hi - v.n
    BY DEF Apart
  <2>2. CASE v \in sent /\ w \in sent
    BY <1>1, <2>2 DEF Apart
  <2>3. CASE v = u /\ w \in sent
    BY <1>3, <1>4, <2>1, <2>3
  <2>4. CASE w = u /\ v \in sent
    BY <1>3, <1>4, <2>1, <2>4
  <2> QED
    BY <1>2, <2>2, <2>3, <2>4
<1>7. SentInv' /\ world' \in Worlds
  <2>1. sent' \subseteq Updates'
    BY <1>1, <1>2, <1>5, SameTypes
  <2>2. Apart(sent)'
    BY <1>6 DEF Apart
  <2> QED
    BY <1>1, <1>2, <2>1, <2>2 DEF SentInv
<1>8. results' \subseteq {v \in sent' : v.own}
  BY <1>1, <1>2, <1>4
<1>9. Orderly(c)'
  BY <1>1, <1>2, OrderlyNext
<1>10. StoreTypes'
  BY <1>1, <1>2, SameTypes DEF StoreTypes
<1> QED
  BY <1>2, <1>7, <1>8, <1>9, <1>10 DEF TypeInv

LEMMA MakeUpdateStep ==
    ASSUME HoleInv, NEW b \in Boxes, NEW n \in 1..2, NEW own \in BOOLEAN, MakeUpdate(b, n, own)
    PROVE  HoleInv'
<1>1. TypeInv' /\ UNCHANGED <<c, answer, tasks, ready, disk, world>>
  BY MakeUpdateTypes DEF HoleInv
<1>2. FlightInv(Way, c, answer)' /\ HoleRemembered'
  BY <1>1 DEF HoleInv, FlightInv, Alone, Reaches, Asked, Idle, Fronts, Front, Way, WayOf, HoleRemembered
<1> QED
  BY <1>1, <1>2 DEF HoleInv

LEMMA StutteringStep ==
    ASSUME HoleInv, UNCHANGED vars
    PROVE  HoleInv'
BY SameTypes DEF HoleInv, TypeInv, SentInv, Apart, Orderly, StoreTypes, FlightInv, Alone, Reaches,
    Asked, Idle, Fronts, Front, Way, WayOf, HoleRemembered, vars

LEMMA InitHoleInv ==
    ASSUME Init
    PROVE  HoleInv
<1> DEFINE u     == [box |-> "pts", hi |-> 1, n |-> 1, own |-> FALSE]
           first == [Zero EXCEPT !["pts"] = 1]
<1>1. /\ sent = {u} /\ results = {} /\ world \in Worlds /\ c = Memory(first)
      /\ answer = None /\ tasks = <<>> /\ ready = <<>> /\ disk = [last |-> c.last, units |-> {}]
  BY DEF Init
<1>2. Limit["pts"] \in Nat /\ 1 <= Limit["pts"] /\ 1 <= Max(Range(Limit)) /\ Max(Range(Limit)) \in Nat
  <2>1. Limit["pts"] # 0 /\ Limit["pts"] \in 0..Max(Range(Limit)) /\ Max(Range(Limit)) \in Nat
    BY <1>1, LimitBounds DEF Boxes
  <2> QED
    BY <2>1
<1>3. u \in Updates
  BY <1>2 DEF Updates, Boxes
<1>4. first \in Points
  BY <1>2 DEF Points, Zero, Boxes
<1>5. SentInv
  <2> HIDE DEF u
  <2> QED
    BY <1>1, <1>3 DEF SentInv, Apart
<1> HIDE DEF u, first
<1>6. Starts(c, first, first)
  BY <1>1, <1>4, MemoryFacts
<1>7. /\ Orderly(c) /\ AllRemembered(c) /\ c.request = None /\ c.reset = None /\ c.last = first
  BY <1>6 DEF Starts
<1>8. StoreTypes
  <2>1. tasks \in Seq(StorageTasks) /\ ready \in Seq(Parts)
    BY <1>1
  <2>2. disk \in [last : Points, units : Stored]
    BY <1>1, <1>4, <1>7 DEF Stored
  <2> QED
    BY <1>1, <2>1, <2>2 DEF StoreTypes
<1>9. FlightInv(Way, c, answer)
  <2>1. FlightInv(WayOf(<<>>, <<>>), c, None)
    BY <1>7, EmptyWay, NothingUnderWay
  <2> QED
    BY <1>1, <2>1 DEF Way
<1> QED
  BY <1>1, <1>5, <1>7, <1>8, <1>9, RememberedIsHole DEF HoleInv, TypeInv

LEMMA MoveStepStep ==
    ASSUME HoleInv, MoveStep
    PROVE  HoleInv'
<1>1. PICK put : Wrote(tasks', c'.last, put)
  BY DEF MoveStep
<1> QED
  BY <1>1, MovesStep DEF MoveStep

(* One step.                                                                 *)
LEMMA NextHoleInv ==
    ASSUME HoleInv, [Next]_vars
    PROVE  HoleInv'
<1> USE DEF HoleInv
<1>1. CASE DifferenceArrives
  BY <1>1, DifferenceArrivesStep
<1>2. CASE CompleteDialogsReset
  BY <1>2, CompleteDialogsResetStep
<1>3. ASSUME NEW m \in Missing, ApplyDifference(m) PROVE HoleInv'
  BY <1>3, ApplyDifferenceStep
<1>4. ASSUME NEW m \in Missing, UpdateTimerProc(m) PROVE HoleInv'
  BY <1>4, UpdateTimerProcMoves, MoveStepStep
<1>5. ASSUME c.request # None, NEW a \in Answers(c.request), AnswerDifference(a) PROVE HoleInv'
  BY <1>5, AnswerDifferenceStep
<1>6. CASE Dialogs
  BY <1>6, AnswerDialogsStep, ResetDialogsStep, ResetFailsStep DEF Dialogs
<1>7. CASE RunStorageTask
  BY <1>7, RunStorageTaskStep
<1>8. ASSUME NEW b \in Boxes, TimePasses(b) PROVE HoleInv'
  BY <1>8, TimePassesMoves, MoveStepStep
<1>9. ASSUME NEW u \in sent, NEW m \in Missing, ReceiveUpdate(u, m) PROVE HoleInv'
  BY <1>9, ReceiveUpdateMoves, MoveStepStep
<1>10. ASSUME NEW u \in sent, ReceiveIncomplete(u) PROVE HoleInv'
  BY <1>10, ReceiveIncompleteMoves, MoveStepStep
<1>11. ASSUME NEW u \in results, ProcessNewDifferenceParams(u) PROVE HoleInv'
  BY <1>11, ProcessNewDifferenceParamsMoves, MoveStepStep
<1>12. CASE SessionCreated
  BY <1>12, SessionCreatedMoves, MoveStepStep
<1>13. ASSUME NEW b \in Boxes, NEW n \in 1..2, NEW own \in BOOLEAN, MakeUpdate(b, n, own) PROVE HoleInv'
  BY <1>13, MakeUpdateStep
<1>14. CASE Restart
  BY <1>14, RestartStep
<1>15. CASE UNCHANGED vars
  BY <1>15, StutteringStep
<1> QED
  BY <1>1, <1>2, <1>3, <1>4, <1>5, <1>6, <1>7, <1>8, <1>9, <1>10, <1>11, <1>12, <1>13, <1>14, <1>15
     DEF Next, StageTask, Timer, Answer

LEMMA HoleInvHolds == Spec => []HoleInv
<1>1. Init => HoleInv
  BY InitHoleInv
<1>2. HoleInv /\ [Next]_vars => HoleInv'
  BY NextHoleInv
<1> QED
  BY <1>1, <1>2, PTL DEF Spec

(* The state of MessagesController is what its fields are meant for, and a   *)
(* queue that is not empty is looked at by the timer.                        *)
THEOREM TypeCorrect == Spec => []TypeOK
<1>1. HoleInv => TypeOK
  BY TypeInvImplies DEF HoleInv
<1> QED
  BY <1>1, HoleInvHolds, PTL

(* No update that was received is forgotten: it is in its queue, or comes    *)
(* with the difference under way.                                            *)
THEOREM HolesRemembered == Spec => []HoleRemembered
<1>1. HoleInv => HoleRemembered
  BY DEF HoleInv
<1> QED
  BY <1>1, HoleInvHolds, PTL

-----------------------------------------------------------------------------
(* The database is never ahead of what was written to it.  What the counters *)
(* have passed is in the database or in a task that comes no later than the  *)
(* one that saves them; and what a request says has been reached, or a part  *)
(* of a difference goes on from, will have been written by then.             *)
Put(t)         == IF t.op = "write" THEN t.put ELSE {}
Coming(ts, i)  == UNION {Put(ts[j]) : j \in 1..i}
Had            == disk.units \cup OwnUnits
Known          == Had \cup Coming(tasks, Len(tasks))

Reached(from, to, us) == \A b \in Boxes : Units(b, from[b], to[b]) \subseteq us

Whole(w)     == UNION {PartUnits(w[k]) : k \in Places}
Before(w, k) == UNION {PartUnits(w[j]) : j \in {i \in Places : i < k}}

(* No dialogs are reset in a world where no difference is too long.          *)
NoReset(w, d, a) == /\ d.reset = None
                    /\ a # None => a.kind # "tooLong"
                    /\ \A k \in Places : w[k].kind # "reset"

Follows(w, d, known) ==
    /\ d.request # None => Reached(d.base, d.request, known \cup Whole(w))
    /\ \A k \in Places : w[k].kind \in {"slice", "difference", "empty"} =>
          Reached(d.base, w[k].from, known \cup Before(w, k))

Covers(base, had, ts) ==
    \A i \in 1..Len(ts) : ts[i].op = "write" => Reached(base, ts[i].last, had \cup Coming(ts, i))

SavedInv ==
    "tooLong" \notin rare =>
        /\ NoReset(Way, c, answer)
        /\ Follows(Way, c, Known)
        /\ Covers(c.base, Had, tasks)
        /\ Reached(c.base, disk.last, Had)
        /\ Reached(c.base, c.last, Known)

(* Less of more has been reached.                                            *)
LEMMA ReachedMore ==
    ASSUME world \in Worlds, NEW from \in Points, NEW to \in Points, NEW us, Reached(from, to, us),
           NEW later \in Points, NEW less \in Points, NEW more, us \subseteq more,
           \A b \in Boxes : from[b] <= later[b] /\ less[b] <= to[b]
    PROVE  Reached(later, less, more)
<1> SUFFICES ASSUME NEW b \in Boxes PROVE Units(b, later[b], less[b]) \subseteq more
  BY DEF Reached
<1>1. from[b] \in Nat /\ to[b] \in Nat /\ later[b] \in Nat /\ less[b] \in Nat
  BY PointsAreNumbers
<1>2. Units(b, later[b], less[b]) \subseteq Units(b, from[b], to[b])
  BY <1>1, UnitsShrink
<1> QED
  BY <1>2 DEF Reached

LEMMA ReachedLater ==
    ASSUME world \in Worlds, NEW from \in Points, NEW to \in Points, NEW us, Reached(from, to, us),
           NEW later \in Points, NEW more, us \subseteq more, \A b \in Boxes : from[b] <= later[b]
    PROVE  Reached(later, to, more)
<1>1. \A b \in Boxes : to[b] <= to[b]
  BY PointsAreNumbers
<1> QED
  BY <1>1, ReachedMore

(* What the storage queue will write.                                        *)
LEMMA ComingAppend ==
    ASSUME NEW ts \in Seq(StorageTasks), NEW t \in StorageTasks
    PROVE  /\ \A i \in 1..Len(ts) : /\ Append(ts, t)[i] = ts[i]
                                    /\ Coming(ts, i) \subseteq Coming(Append(ts, t), i)
           /\ Coming(ts, Len(ts)) \cup Put(t) \subseteq Coming(Append(ts, t), Len(ts) + 1)
           /\ Len(Append(ts, t)) = Len(ts) + 1 /\ Append(ts, t)[Len(ts) + 1] = t
           /\ Len(ts) \in Nat
<1> DEFINE ns == Append(ts, t)
<1>1. /\ Len(ts) \in Nat /\ Len(ns) = Len(ts) + 1 /\ ns[Len(ts) + 1] = t
      /\ \A i \in 1..Len(ts) : ns[i] = ts[i]
  OBVIOUS
<1> HIDE DEF ns
<1>2. ASSUME NEW i \in 0..Len(ts), NEW m \in i..(Len(ts) + 1) PROVE Coming(ts, i) \subseteq Coming(ns, m)
  <2> SUFFICES ASSUME NEW j \in 1..i PROVE Put(ts[j]) \subseteq Coming(ns, m)
    BY DEF Coming
  <2>1. j \in 1..Len(ts) /\ j \in 1..m
    BY <1>1
  <2> QED
    BY <1>1, <2>1 DEF Coming
<1>3. Put(t) \subseteq Coming(ns, Len(ts) + 1)
  <2>1. Len(ts) + 1 \in 1..Len(ts) + 1
    BY <1>1
  <2> QED
    BY <1>1, <2>1 DEF Coming
<1>4. \A i \in 1..Len(ts) : Coming(ts, i) \subseteq Coming(ns, i)
  <2> TAKE i \in 1..Len(ts)
  <2>1. i \in 0..Len(ts) /\ i \in i..(Len(ts) + 1)
    BY <1>1
  <2> QED
    BY <1>2, <2>1
<1>5. Coming(ts, Len(ts)) \subseteq Coming(ns, Len(ts) + 1)
  <2>1. Len(ts) \in 0..Len(ts) /\ Len(ts) + 1 \in Len(ts)..(Len(ts) + 1)
    BY <1>1
  <2> QED
    BY <1>2, <2>1
<1> QED
  BY <1>1, <1>3, <1>4, <1>5 DEF ns

LEMMA ComingTail ==
    ASSUME NEW ts \in Seq(StorageTasks), ts # <<>>
    PROVE  /\ \A i \in 0..Len(Tail(ts)) :
                 Coming(ts, i + 1) \subseteq Put(Head(ts)) \cup Coming(Tail(ts), i)
           /\ \A i \in 1..Len(Tail(ts)) : Tail(ts)[i] = ts[i + 1]
           /\ Len(ts) = Len(Tail(ts)) + 1 /\ Len(Tail(ts)) \in Nat /\ Head(ts) = ts[1]
<1> DEFINE ns == Tail(ts)
<1>1. /\ Len(ns) \in Nat /\ Len(ts) = Len(ns) + 1 /\ Head(ts) = ts[1]
      /\ \A i \in 1..Len(ns) : ns[i] = ts[i + 1]
  OBVIOUS
<1> HIDE DEF ns
<1>2. ASSUME NEW i \in 0..Len(ns), NEW j \in 1..i + 1
      PROVE  Put(ts[j]) \subseteq Put(Head(ts)) \cup Coming(ns, i)
  <2>1. CASE j = 1
    BY <1>1, <2>1
  <2>2. CASE j # 1
    <3>1. j - 1 \in 1..i /\ j - 1 \in 1..Len(ns) /\ (j - 1) + 1 = j
      BY <1>1, <2>2
    <3>2. ns[j - 1] = ts[j]
      BY <1>1, <3>1
    <3> QED
      BY <3>1, <3>2 DEF Coming
  <2> QED
    BY <2>1, <2>2
<1>3. \A i \in 0..Len(ns) : Coming(ts, i + 1) \subseteq Put(Head(ts)) \cup Coming(ns, i)
  BY <1>2 DEF Coming
<1> QED
  BY <1>1, <1>3 DEF ns

(* What a step adds to the storage queue: nothing, a part of a difference,   *)
(* or a task that saves how far the client is after the step.                *)
Added(ts, last, put) ==
    \/ put = {} /\ ts = tasks
    \/ \E t \in StorageTasks : /\ ts = Append(tasks, t) /\ put = Put(t)
                               /\ t.op = "write" => t.last = last

LEMMA WroteAdded ==
    ASSUME NEW ts, NEW last, NEW put, Wrote(ts, last, put)
    PROVE  Added(ts, last, put)
BY DEF Wrote, Added, Put

LEMMA AddedKnown ==
    ASSUME StoreTypes, UNCHANGED <<disk, world>>, sent \subseteq sent',
           NEW last, NEW put, Added(tasks', last, put)
    PROVE  Had \subseteq Had' /\ Known \cup put \subseteq Known'
<1>1. tasks \in Seq(StorageTasks) /\ Had \subseteq Had'
  BY DEF StoreTypes, Had, OwnUnits, UnitsOf
<1>2. CASE put = {} /\ tasks' = tasks
  BY <1>1, <1>2 DEF Known, Coming
<1>3. ASSUME NEW t \in StorageTasks, tasks' = Append(tasks, t), put = Put(t)
      PROVE  Known \cup put \subseteq Known'
  <2>1. /\ Coming(tasks, Len(tasks)) \cup put \subseteq Coming(Append(tasks, t), Len(tasks) + 1)
        /\ Len(Append(tasks, t)) = Len(tasks) + 1
    BY <1>1, <1>3, ComingAppend
  <2>2. Coming(tasks, Len(tasks))' = Coming(tasks', Len(tasks'))
    BY DEF Coming, Put
  <2> QED
    BY <1>1, <1>3, <2>1, <2>2 DEF Known
<1> QED
  BY <1>1, <1>2, <1>3 DEF Added

(* What a step has to show that does not touch the database.                 *)
LEMMA SavedGrows ==
    ASSUME HoleInv, HoleInv', SavedInv, "tooLong" \notin rare,
           UNCHANGED <<disk, world>>, sent \subseteq sent', \A b \in Boxes : c.base[b] <= c'.base[b],
           NEW put, Added(tasks', c'.last, put),
           Reached(c'.base, c'.last, Known \cup put),
           NoReset(WayOf(ready', tasks'), c', answer'),
           Follows(WayOf(ready', tasks'), c', Known \cup put)
    PROVE  SavedInv'
<1>1. /\ world \in Worlds /\ StoreTypes /\ c.base \in Points /\ c'.base \in Points /\ c'.last \in Points
      /\ disk.last \in Points /\ tasks \in Seq(StorageTasks) /\ c'.request \in Points \cup {None}
  <2>1. world \in Worlds /\ StoreTypes /\ c \in Client /\ c' \in Client
    BY InvFacts, SameTypes DEF HoleInv, TypeInv, Orderly
  <2> QED
    BY <2>1, ClientFields DEF StoreTypes
<1>2. Had \subseteq Had' /\ Known \cup put \subseteq Known'
  BY <1>1, AddedKnown
<1>3. NoReset(Way, c, answer)'
  BY DEF NoReset, Way, WayOf
<1>4. Follows(Way, c, Known)'
  <2>1. ASSUME NEW from, NEW us, Reached(c'.base, from, (Known \cup put) \cup us)
        PROVE  Reached(c'.base, from, Known' \cup us)
    BY <1>2, <2>1 DEF Reached
  <2>2. Follows(WayOf(ready', tasks'), c', Known')
    BY <2>1 DEF Follows
  <2> QED
    BY <2>2 DEF Follows, Way, WayOf, Reached, Whole, Before, PartUnits, Units
<1>5. Reached(c'.base, c'.last, Known')
  BY <1>2 DEF Reached
<1>6. Reached(c'.base, disk.last, Had')
  BY <1>1, <1>2, ReachedLater DEF SavedInv
<1>7. Covers(c'.base, Had', tasks')
  <2>1. ASSUME NEW i \in 1..Len(tasks), tasks[i].op = "write", NEW us, Had \cup Coming(tasks, i) \subseteq us
        PROVE  Reached(c'.base, tasks[i].last, us)
    <3>1. Reached(c.base, tasks[i].last, Had \cup Coming(tasks, i))
      BY <2>1 DEF SavedInv, Covers
    <3>2. tasks[i].last \in Points
      <4>1. tasks[i] \in StorageTasks
        BY <1>1
      <4> QED
        BY <2>1, <4>1 DEF StorageTasks
    <3> QED
      BY <1>1, <2>1, <3>1, <3>2, ReachedLater
  <2>2. CASE tasks' = tasks
    BY <1>2, <2>1, <2>2 DEF Covers
  <2>3. ASSUME NEW t \in StorageTasks, tasks' = Append(tasks, t), t.op = "write" => t.last = c'.last
        PROVE  Covers(c'.base, Had', tasks')
    <3>1. /\ \A i \in 1..Len(tasks) : /\ tasks'[i] = tasks[i]
                                      /\ Coming(tasks, i) \subseteq Coming(tasks', i)
          /\ Len(tasks') = Len(tasks) + 1 /\ tasks'[Len(tasks) + 1] = t /\ Len(tasks) \in Nat
      BY <1>1, <2>3, ComingAppend
    <3> SUFFICES ASSUME NEW i \in 1..Len(tasks'), tasks'[i].op = "write"
                 PROVE  Reached(c'.base, tasks'[i].last, Had' \cup Coming(tasks', i))
      BY DEF Covers
    <3>2. CASE i \in 1..Len(tasks)
      BY <1>2, <2>1, <3>1, <3>2
    <3>3. CASE i = Len(tasks) + 1
      <4>1. Known' = Had' \cup Coming(tasks', i)
        BY <3>1, <3>3 DEF Known, Coming, Put
      <4> QED
        BY <1>5, <2>3, <3>1, <3>3, <4>1
    <3> QED
      BY <3>1, <3>2, <3>3
  <2> QED
    BY <2>2, <2>3 DEF Added
<1>8. Covers(c.base, Had, tasks)'
  BY <1>7 DEF Covers, Reached, Coming, Put, Units
<1>9. Reached(c.base, disk.last, Had)' /\ Reached(c.base, c.last, Known)'
  BY <1>5, <1>6 DEF Reached, Units
<1> QED
  BY <1>3, <1>4, <1>8, <1>9 DEF SavedInv

LEMMA FollowsLater ==
    ASSUME world \in Worlds, NEW w \in [Places -> AllParts], NEW d, d \in Client, NEW n, n \in Client,
           NEW known, Follows(w, d, known), NEW more, known \subseteq more,
           \A b \in Boxes : d.base[b] <= n.base[b],
           n.request # None => n.request = d.request \/ Reached(n.base, n.request, more)
    PROVE  Follows(w, n, more)
<1>1. d.base \in Points /\ n.base \in Points /\ d.request \in Points \cup {None}
  BY ClientFields
<1>2. ASSUME NEW to \in Points, NEW us, Reached(d.base, to, known \cup us)
      PROVE  Reached(n.base, to, more \cup us)
  <2>1. known \cup us \subseteq more \cup us
    OBVIOUS
  <2> QED
    BY <1>1, <1>2, <2>1, ReachedLater
<1>3. \A k \in Places : w[k].kind \in {"slice", "difference", "empty"} =>
          Reached(n.base, w[k].from, more \cup Before(w, k))
  <2> SUFFICES ASSUME NEW k \in Places, w[k].kind \in {"slice", "difference", "empty"}
               PROVE  Reached(n.base, w[k].from, more \cup Before(w, k))
    OBVIOUS
  <2>1. w[k].from \in Points
    BY DEF AllParts
  <2>2. Reached(d.base, w[k].from, known \cup Before(w, k))
    BY DEF Follows
  <2> QED
    BY <1>2, <2>1, <2>2
<1>4. n.request # None => Reached(n.base, n.request, more \cup Whole(w))
  <2> SUFFICES ASSUME n.request # None PROVE Reached(n.base, n.request, more \cup Whole(w))
    OBVIOUS
  <2>1. CASE Reached(n.base, n.request, more)
    BY <2>1 DEF Reached
  <2>2. CASE n.request = d.request
    <3>1. Reached(d.base, d.request, known \cup Whole(w)) /\ d.request \in Points
      BY <1>1, <2>2 DEF Follows
    <3> QED
      BY <1>2, <2>2, <3>1
  <2> QED
    BY <2>1, <2>2
<1> QED
  BY <1>3, <1>4 DEF Follows

LEMMA KnownHasOwn == OwnUnits \subseteq Known /\ Had \subseteq Known
BY DEF Known, Had

LEMMA MoveStepSaved ==
    ASSUME HoleInv, HoleInv', SavedInv, MoveStep
    PROVE  SavedInv'
<1>1. PICK put : Wrote(tasks', c'.last, put) /\ Passes(c, c', put)
  BY DEF MoveStep
<1>2. Moves(c, c') /\ UNCHANGED <<sent, answer, ready, disk, world>>
  BY DEF MoveStep
<1> SUFFICES ASSUME "tooLong" \notin rare PROVE SavedInv'
  BY <1>2 DEF SavedInv, rare
<1>3. /\ world \in Worlds /\ StoreTypes /\ c \in Client /\ Way \in [Places -> AllParts]
  BY InvFacts
<1>4. c' \in Client /\ c'.last \in Points /\ c'.base \in Points
  <2>1. c' \in Client
    BY <1>2 DEF Moves, Orderly
  <2> QED
    BY <2>1, ClientFields
<1>5. WayOf(ready', tasks') = Way
  BY <1>1, <1>2, <1>3, WroteWay DEF StoreTypes, Way
<1>6. \A b \in Boxes : c.base[b] <= c'.base[b]
  BY <1>1 DEF Passes
<1>7. Reached(c'.base, c'.last, Known \cup put)
  <2>1. Reached(c.base, c.last, Known)
    BY DEF SavedInv
  <2> QED
    BY <1>1, <2>1, KnownHasOwn DEF Reached, Passes
<1>8. NoReset(Way, c', answer')
  BY <1>2 DEF SavedInv, NoReset, Moves
<1>9. c'.request # None => c'.request = c.request \/ Reached(c'.base, c'.request, Known \cup put)
  <2>1. CASE SameFlight(c, c')
    BY <2>1 DEF SameFlight
  <2>2. CASE AsksNow(c, c')
    <3>1. \A b \in Boxes : c'.base[b] <= c'.base[b]
      BY <1>3, <1>4, PointsAreNumbers
    <3>2. c'.request \in Points /\ \A b \in Boxes : c'.request[b] <= c'.last[b]
      BY <2>2 DEF AsksNow
    <3>3. Reached(c'.base, c'.request, Known \cup put)
      BY <1>3, <1>4, <1>7, <3>1, <3>2, ReachedMore
    <3> QED
      BY <3>3
  <2> QED
    BY <1>2, <2>1, <2>2 DEF Moves
<1>10. Follows(Way, c', Known \cup put)
  <2>1. Follows(Way, c, Known) /\ Known \subseteq Known \cup put
    BY DEF SavedInv
  <2> QED
    BY <1>3, <1>4, <1>6, <1>9, <2>1, FollowsLater
<1>11. Added(tasks', c'.last, put)
  BY <1>1, WroteAdded
<1> QED
  BY <1>2, <1>5, <1>6, <1>7, <1>8, <1>10, <1>11, SavedGrows

(* A step that leaves the tasks and how far the client is as they were.      *)
LEMMA QuietStepSaved ==
    ASSUME HoleInv, HoleInv', SavedInv, c'.last = c.last, c'.base = c.base,
           c'.request = None \/ c'.request = c.request, c'.reset = None \/ c'.reset = c.reset,
           "tooLong" \notin rare => answer' = None \/ answer'.kind # "tooLong",
           sent \subseteq sent', UNCHANGED <<tasks, ready, disk, world>>
    PROVE  SavedInv'
<1> SUFFICES ASSUME "tooLong" \notin rare PROVE SavedInv'
  BY DEF SavedInv, rare
<1>1. /\ world \in Worlds /\ c \in Client /\ Way \in [Places -> AllParts] /\ WayOf(ready', tasks') = Way
  BY InvFacts DEF Way
<1>2. c' \in Client
  BY SameTypes DEF HoleInv, TypeInv, Orderly
<1>3. \A b \in Boxes : c.base[b] <= c'.base[b]
  BY <1>1, ClientFields, PointsAreNumbers
<1>4. Reached(c'.base, c'.last, Known \cup {})
  BY DEF SavedInv, Reached
<1>5. NoReset(Way, c', answer')
  BY DEF SavedInv, NoReset
<1>6. Follows(Way, c', Known \cup {})
  <2>1. Follows(Way, c, Known) /\ Known \subseteq Known \cup {}
    BY DEF SavedInv
  <2>2. c'.request # None => c'.request = c.request
    OBVIOUS
  <2> QED
    BY <1>1, <1>2, <1>3, <2>1, <2>2, FollowsLater
<1>7. Added(tasks', c'.last, {})
  BY DEF Added
<1> QED
  BY <1>1, <1>3, <1>4, <1>5, <1>6, <1>7, SavedGrows

(* The answer arrives: its part goes on from what the others bring.          *)
LEMMA NothingBrings ==
    ASSUME world \in Worlds
    PROVE  PartUnits(Nothing) = {}
<1>1. \A b \in Boxes : Units(b, 0, 0) = {}
  BY NoUnits
<1> QED
  BY <1>1 DEF PartUnits, Nothing, Zero

LEMMA BehindIsNothing ==
    ASSUME HoleInv
    PROVE  Behind \in Places /\ \A k \in Places : k >= Behind => Way[k] = Nothing
<1>1. /\ Behind \in Places /\ Len(ready) + Len(tasks) \in Nat
      /\ \A k \in Places : k > Len(ready) + Len(tasks) => Way[k] = Nothing
  BY InvFacts, WayTypes DEF StoreTypes, Way
<1>2. \A k \in Places : k >= Behind => k > Len(ready) + Len(tasks)
  BY <1>1 DEF Behind, Places
<1> QED
  BY <1>1, <1>2

(* How far a part comes.                                                     *)
LEMMA PartReaches ==
    ASSUME world \in Worlds, NEW base \in Points, NEW p, p.from \in Points, p.to \in Points,
           NEW us, Reached(base, p.from, us)
    PROVE  Reached(base, p.to, us \cup PartUnits(p))
<1> SUFFICES ASSUME NEW b \in Boxes PROVE Units(b, base[b], p.to[b]) \subseteq us \cup PartUnits(p)
  BY DEF Reached
<1>1. base[b] \in Nat /\ p.from[b] \in Nat /\ p.to[b] \in Nat
  BY PointsAreNumbers
<1>2. Units(b, base[b], p.to[b]) \subseteq Units(b, base[b], p.from[b]) \cup Units(b, p.from[b], p.to[b])
  BY <1>1, UnitsJoin
<1> QED
  BY <1>2 DEF Reached, PartUnits

LEMMA PlacedFollows ==
    ASSUME world \in Worlds, NEW w \in [Places -> AllParts], NEW d, d \in Client,
           NEW known, Follows(w, d, known),
           NEW m \in Places, \A k \in Places : k >= m => w[k] = Nothing,
           NEW p \in AllParts, Reached(d.base, p.from, known \cup Whole(w)),
           NEW v, Placed(v, w, m, p),
           NEW n, n.base = d.base, n.request = None \/ n.request = p.to
    PROVE  Follows(v, n, known)
<1>1. v[m] = p /\ \A k \in Places : k # m => v[k] = w[k]
  BY DEF Placed
<1>2. \A j \in Places, k \in Places : j < k /\ k <= m => j # m
  BY DEF Places
<1>3. ASSUME NEW k \in Places, k <= m PROVE Before(w, k) \subseteq Before(v, k)
  BY <1>1, <1>2, <1>3 DEF Before
<1>4. Whole(w) \subseteq Before(v, m)
  <2> SUFFICES ASSUME NEW j \in Places PROVE PartUnits(w[j]) \subseteq Before(v, m)
    BY DEF Whole
  <2>1. CASE j < m
    <3>1. v[j] = w[j]
      BY <1>1, <2>1 DEF Places
    <3> QED
      BY <2>1, <3>1 DEF Before
  <2>2. CASE j >= m
    <3>1. PartUnits(w[j]) = {}
      BY <2>2, NothingBrings
    <3> QED
      BY <3>1
  <2> QED
    BY <2>1, <2>2 DEF Places
<1>5. Before(v, m) \subseteq Whole(v) /\ PartUnits(p) \subseteq Whole(v)
  BY <1>1 DEF Before, Whole
<1>6. Reached(d.base, p.from, known \cup Before(v, m))
  BY <1>4 DEF Reached
<1>7. ASSUME NEW k \in Places, v[k].kind \in {"slice", "difference", "empty"}
      PROVE  Reached(n.base, v[k].from, known \cup Before(v, k))
  <2>1. CASE k = m
    BY <1>1, <1>6, <2>1
  <2>2. CASE k # m /\ k <= m
    BY <1>1, <1>3, <1>7, <2>2 DEF Follows, Reached
  <2>3. CASE k # m /\ k >= m
    BY <1>1, <1>7, <2>3 DEF Nothing
  <2> QED
    BY <2>1, <2>2, <2>3 DEF Places
<1>8. n.request # None => Reached(n.base, n.request, known \cup Whole(v))
  <2>1. p.from \in Points /\ p.to \in Points /\ d.base \in Points
    BY ClientFields DEF AllParts
  <2>2. Reached(d.base, p.to, (known \cup Before(v, m)) \cup PartUnits(p))
    BY <1>6, <2>1, PartReaches
  <2>3. (known \cup Before(v, m)) \cup PartUnits(p) \subseteq known \cup Whole(v)
    BY <1>5
  <2>4. Reached(d.base, p.to, known \cup Whole(v))
    BY <2>2, <2>3 DEF Reached
  <2> QED
    BY <2>4
<1> QED
  BY <1>7, <1>8 DEF Follows

LEMMA DifferenceArrivesSaved ==
    ASSUME HoleInv, HoleInv', SavedInv, DifferenceArrives
    PROVE  SavedInv'
<1>1. /\ c.request # None /\ answer # None /\ answer' = None
      /\ UNCHANGED <<sent, ready, disk, world>>
  BY DEF DifferenceArrives
<1> SUFFICES ASSUME "tooLong" \notin rare PROVE SavedInv'
  BY <1>1 DEF SavedInv, rare
<1>2. /\ world \in Worlds /\ StoreTypes /\ c \in Client /\ FlightInv(Way, c, answer)
      /\ Way \in [Places -> AllParts]
  BY InvFacts
<1>3. answer.kind \in AnswerKinds /\ answer.kind # "tooLong" /\ answer.from = c.request
  BY <1>1, <1>2 DEF StoreTypes, SavedInv, NoReset, FlightInv, Asked
<1>4. CASE answer.kind = "error"
  <2> DEFINE kept == c.owed \cap UNION {c.queue[b] : b \in Boxes}
  <2>1. c' = [c EXCEPT !.getting = FALSE, !.request = None, !.owed = kept,
                       !.outrun = @ \/ SliceOnItsWay]
        /\ tasks' = tasks
    BY <1>4 DEF DifferenceArrives
  <2> HIDE DEF kept
  <2>2. c'.last = c.last /\ c'.base = c.base /\ c'.request = None /\ c'.reset = c.reset
    BY <1>2, <2>1 DEF Client
  <2> QED
    BY <1>1, <2>1, <2>2, QuietStepSaved
<1>5. CASE answer.kind \in {"slice", "difference", "empty"}
  <2> DEFINE t == [op |-> "part", part |-> answer]
  <2>1. /\ tasks' = Append(tasks, t)
        /\ c' = IF answer.kind = "slice" THEN Ask(c, answer.to) ELSE [c EXCEPT !.request = None]
    BY <1>5 DEF DifferenceArrives
  <2>2. answer \in Parts /\ answer \in AllParts /\ answer.to \in Points
    BY <1>1, <1>2, <1>5 DEF StoreTypes, Parts, AllParts, Kinds, None
  <2>3. t \in StorageTasks /\ PartOf(t) = answer /\ Put(t) = {} /\ t.op # "write"
    BY <2>2 DEF StorageTasks, PartOf, Put
  <2> HIDE DEF t
  <2>4. /\ c'.last = c.last /\ c'.base = c.base /\ c'.reset = c.reset
        /\ c'.request = None \/ c'.request = answer.to
    BY <1>2, <2>1 DEF Client, Ask
  <2>5. Placed(WayOf(ready', tasks'), Way, Behind, answer)
    BY <1>1, <1>2, <2>1, <2>3, PartAppended
  <2>6. Added(tasks', c'.last, {})
    BY <2>1, <2>3 DEF Added
  <2>7. Follows(WayOf(ready', tasks'), c', Known)
    <3>1. Follows(Way, c, Known) /\ Reached(c.base, c.request, Known \cup Whole(Way))
      BY <1>1 DEF SavedInv, Follows
    <3>2. Behind \in Places /\ \A k \in Places : k >= Behind => Way[k] = Nothing
      BY BehindIsNothing
    <3> QED
      BY <1>2, <1>3, <2>2, <2>4, <2>5, <3>1, <3>2, PlacedFollows
  <2>8. NoReset(WayOf(ready', tasks'), c', answer')
    BY <1>1, <1>5, <2>4, <2>5 DEF SavedInv, NoReset, Placed
  <2>9. \A b \in Boxes : c.base[b] <= c'.base[b]
    BY <1>2, <2>4, ClientFields, PointsAreNumbers
  <2>10. Reached(c'.base, c'.last, Known) /\ Known \cup {} = Known
    BY <2>4 DEF SavedInv
  <2> QED
    BY <1>1, <2>6, <2>7, <2>8, <2>9, <2>10, SavedGrows
<1> QED
  BY <1>3, <1>4, <1>5 DEF AnswerKinds

LEMMA AnswerDifferenceSaved ==
    ASSUME HoleInv, HoleInv', SavedInv, c.request # None, NEW a \in Answers(c.request),
           AnswerDifference(a)
    PROVE  SavedInv'
<1>1. /\ answer' = a /\ UNCHANGED <<sent, tasks, ready, disk, world>>
      /\ c' = [c EXCEPT !.cover = IF a.kind \in {"empty", "difference"} THEN a.to ELSE c.cover]
  BY DEF AnswerDifference
<1>2. c \in Client /\ world \in Worlds /\ sent \subseteq Updates
  BY InvFacts
<1>3. c'.last = c.last /\ c'.base = c.base /\ c'.request = c.request /\ c'.reset = c.reset
  BY <1>1, <1>2 DEF Client
<1>4. a.kind = "tooLong" => "tooLong" \in rare
  BY <1>2, ClientFields, AnswerTypes
<1> QED
  BY <1>1, <1>3, <1>4, QuietStepSaved

(* No dialogs are reset.                                                     *)
LEMMA DialogsSaved ==
    ASSUME HoleInv, SavedInv, Dialogs \/ CompleteDialogsReset
    PROVE  SavedInv'
<1>1. world' = world
  BY DEF Dialogs, AnswerDialogs, ResetDialogs, ResetFails, CompleteDialogsReset
<1> SUFFICES ASSUME "tooLong" \notin rare PROVE FALSE
  BY <1>1 DEF SavedInv, rare
<1>2. c.reset = None /\ \A k \in Places : Way[k].kind # "reset"
  BY DEF SavedInv, NoReset
<1>3. CASE Dialogs
  BY <1>2, <1>3 DEF Dialogs, AnswerDialogs, ResetDialogs, ResetFails
<1>4. CASE CompleteDialogsReset
  <2>1. ready # <<>> /\ Head(ready).kind = "reset"
    BY <1>4 DEF CompleteDialogsReset
  <2>2. ready \in Seq(Parts) /\ tasks \in Seq(StorageTasks)
    BY InvFacts DEF StoreTypes
  <2>3. Way[1] = Head(ready) /\ 1 \in Places
    BY <2>1, <2>2, WayTail DEF Way, Places
  <2> QED
    BY <1>2, <2>1, <2>3
<1> QED
  BY <1>3, <1>4

(* The way without a place where nothing is; and without the first part,     *)
(* when what that brings is known.                                           *)
LEMMA WithoutFollows ==
    ASSUME NEW w, NEW r \in Places, NEW d, NEW known, Follows(w, d, known),
           NEW more, known \cup PartUnits(w[r]) \subseteq more, r = 1 \/ PartUnits(w[r]) = {},
           NEW n, n.base = d.base, n.request = d.request
    PROVE  Follows(Without(w, r), n, more)
<1> DEFINE v == Without(w, r)
           new(k) == IF k < r THEN k ELSE k + 1
           old(k) == IF k < r THEN k ELSE k - 1
<1>1. \A k \in Places : new(k) \in Places /\ v[k] = w[new(k)]
  BY DEF Without, Places
<1>2. \A k \in Places : k # r => old(k) \in Places /\ v[old(k)] = w[k]
  BY DEF Without, Places
<1>3. \A j \in Places, k \in Places : j # r /\ j < new(k) => old(j) < k
  BY DEF Places
<1> HIDE DEF v, new, old
<1>4. Whole(w) \subseteq PartUnits(w[r]) \cup Whole(v)
  <2> SUFFICES ASSUME NEW k \in Places, k # r PROVE PartUnits(w[k]) \subseteq Whole(v)
    BY DEF Whole
  <2> QED
    BY <1>2 DEF Whole
<1>5. ASSUME NEW k \in Places PROVE Before(w, new(k)) \subseteq PartUnits(w[r]) \cup Before(v, k)
  <2> SUFFICES ASSUME NEW j \in Places, j < new(k), j # r PROVE PartUnits(w[j]) \subseteq Before(v, k)
    BY DEF Before
  <2>1. old(j) \in Places /\ v[old(j)] = w[j] /\ old(j) < k
    BY <1>2, <1>3
  <2> QED
    BY <2>1 DEF Before
<1>6. n.request # None => Reached(n.base, n.request, more \cup Whole(v))
  BY <1>4 DEF Follows, Reached
<1>7. ASSUME NEW k \in Places, v[k].kind \in {"slice", "difference", "empty"}
      PROVE  Reached(n.base, v[k].from, more \cup Before(v, k))
  <2>1. Reached(d.base, w[new(k)].from, known \cup Before(w, new(k)))
    BY <1>1, <1>7 DEF Follows
  <2>2. known \cup Before(w, new(k)) \subseteq more \cup Before(v, k)
    BY <1>5
  <2> QED
    BY <1>1, <2>1, <2>2 DEF Reached
<1> QED
  BY <1>6, <1>7 DEF Follows, v

(* What a task writes is in the database then.                               *)
LEMMA RunStorageTaskSaved ==
    ASSUME HoleInv, HoleInv', SavedInv, RunStorageTask
    PROVE  SavedInv'
<1> DEFINE t == Head(tasks)
<1>1. tasks # <<>> /\ UNCHANGED <<sent, results, answer, world>>
  BY DEF RunStorageTask
<1> SUFFICES ASSUME "tooLong" \notin rare PROVE SavedInv'
  BY <1>1 DEF SavedInv, rare
<1>2. /\ TypeInv /\ world \in Worlds /\ tasks \in Seq(StorageTasks) /\ ready \in Seq(Parts)
      /\ c \in Client
  BY InvFacts DEF StoreTypes
<1>3. /\ t \in StorageTasks /\ tasks' = Tail(tasks) /\ OnlySaves(c, c')
      /\ t.op = "write" => /\ ready' = ready
                           /\ disk'.units = disk.units \cup t.put
                           /\ disk'.last = disk.last \/ disk'.last = t.last
      /\ t.op # "write" => ready' = Append(ready, PartOf(t))
      /\ t.op = "part" => disk' = disk
  BY <1>2, RunStorageTaskFacts
<1>4. /\ \A i \in 0..Len(tasks') : Coming(tasks, i + 1) \subseteq Put(t) \cup Coming(tasks', i)
      /\ \A i \in 1..Len(tasks') : tasks'[i] = tasks[i + 1]
      /\ Len(tasks) = Len(tasks') + 1 /\ Len(tasks') \in Nat /\ t = tasks[1]
  BY <1>1, <1>2, <1>3, ComingTail
<1>5. t.op \in {"write", "part"}
  <2>1. Way[Len(ready) + 1] = PartOf(t) /\ Len(ready) + 1 \in Places
    BY <1>1, <1>2, WayStored DEF Way
  <2>2. PartOf(t).kind # "reset"
    BY <2>1 DEF SavedInv, NoReset
  <2>3. t.op # "reset"
    BY <2>2 DEF PartOf
  <2> QED
    BY <1>3, <2>3 DEF StorageTasks
<1> HIDE DEF t
<1>6. Had \cup Put(t) \subseteq Had'
  <2>1. OnlySaves(c, c') /\ OwnUnits' = OwnUnits
    BY <1>1, <1>3 DEF OwnUnits, UnitsOf, Units
  <2> QED
    BY <1>3, <1>5, <2>1 DEF Had, Put
<1>7. ASSUME NEW i \in 0..Len(tasks') PROVE Had \cup Coming(tasks, i + 1) \subseteq Had' \cup Coming(tasks', i)
  BY <1>4, <1>6
<1>8. Known \subseteq Known'
  <2>1. Known' = Had' \cup Coming(tasks', Len(tasks'))
    BY DEF Known, Coming, Put
  <2>2. Len(tasks') \in 0..Len(tasks')
    BY <1>4
  <2> QED
    BY <1>4, <1>7, <2>1, <2>2 DEF Known
<1>9. c'.base = c.base /\ c'.last = c.last /\ c'.request = c.request /\ c'.reset = c.reset
  BY <1>3 DEF OnlySaves, SameQueues, SameFlight
<1>10. Reached(c'.base, c'.last, Known')
  BY <1>8, <1>9 DEF SavedInv, Reached
<1>11. Covers(c'.base, Had', tasks')
  <2> SUFFICES ASSUME NEW i \in 1..Len(tasks'), tasks'[i].op = "write"
               PROVE  Reached(c'.base, tasks'[i].last, Had' \cup Coming(tasks', i))
    BY DEF Covers
  <2>1. i \in 0..Len(tasks') /\ i + 1 \in 1..Len(tasks) /\ tasks'[i] = tasks[i + 1]
    BY <1>4
  <2>2. Reached(c.base, tasks[i + 1].last, Had \cup Coming(tasks, i + 1))
    BY <2>1 DEF SavedInv, Covers
  <2> QED
    BY <1>7, <1>9, <2>1, <2>2 DEF Reached
<1>12. Reached(c'.base, disk'.last, Had')
  <2>1. Reached(c.base, disk.last, Had') /\ (t.op = "write" => Reached(c.base, t.last, Had'))
    <3>1. 1 \in 1..Len(tasks) /\ Coming(tasks, 1) \subseteq Put(t)
      BY <1>4 DEF Coming
    <3> QED
      BY <1>4, <1>6, <3>1 DEF SavedInv, Covers, Reached
  <2> QED
    BY <1>3, <1>5, <1>9, <2>1
<1>13. Follows(WayOf(ready', tasks'), c', Known') /\ NoReset(WayOf(ready', tasks'), c', answer')
  <2>1. CASE t.op = "write"
    <3> DEFINE r == Len(ready) + 1
    <3>1. WayOf(ready', tasks') = Without(Way, r) /\ Way[r] = PartOf(t) /\ r \in Places
      BY <1>1, <1>2, <1>3, <2>1, WayStored DEF Way, t
    <3>2. PartUnits(Way[r]) = {}
      BY <1>2, <2>1, <3>1, NothingBrings DEF PartOf
    <3> HIDE DEF r
    <3>3. Follows(Without(Way, r), c', Known')
      BY <1>8, <1>9, <3>1, <3>2, WithoutFollows DEF SavedInv
    <3>4. \A k \in Places : Without(Way, r)[k] = Way[k] \/ (Without(Way, r)[k] = Way[k + 1] /\ k + 1 \in Places)
      BY DEF Without, Places
    <3> QED
      BY <1>1, <1>9, <3>1, <3>3, <3>4 DEF SavedInv, NoReset
  <2>2. CASE t.op = "part"
    <3>1. PartOf(t) \in Parts
      BY <1>3, <2>2 DEF StorageTasks, PartOf
    <3>2. WayOf(ready', tasks') = Way
      BY <1>1, <1>2, <1>3, <2>2, <3>1, WayPosted DEF Way, t
    <3> QED
      BY <1>1, <1>8, <1>9, <3>2 DEF SavedInv, NoReset, Follows, Reached
  <2> QED
    BY <1>5, <2>1, <2>2
<1>14. Follows(Way, c, Known)' /\ NoReset(Way, c, answer)'
  BY <1>13 DEF Follows, NoReset, Way, WayOf, Reached, Whole, Before, PartUnits, Units
<1>15. Covers(c.base, Had, tasks)' /\ Reached(c.base, disk.last, Had)' /\ Reached(c.base, c.last, Known)'
  BY <1>10, <1>11, <1>12 DEF Covers, Reached, Coming, Put, Units
<1> QED
  BY <1>14, <1>15 DEF SavedInv

(* A part that goes on from what is known makes known what it brings.        *)
LEMMA LandsReaches ==
    ASSUME world \in Worlds, NEW d, d \in Client, NEW n, NEW p \in Parts, Lands(d, n, p),
           NEW us, Reached(d.base, d.last, us), Reached(d.base, p.from, us)
    PROVE  Reached(n.base, n.last, us \cup PartUnits(p))
<1>1. p.from \in Points /\ p.to \in Points /\ d.base \in Points /\ n.base = d.base
  BY ClientFields DEF Parts, Lands, SameElse
<1>2. Reached(d.base, p.to, us \cup PartUnits(p))
  BY <1>1, PartReaches
<1> SUFFICES ASSUME NEW b \in Boxes PROVE Units(b, n.base[b], n.last[b]) \subseteq us \cup PartUnits(p)
  BY DEF Reached
<1>3. n.last[b] = p.to[b] \/ n.last[b] = d.last[b]
  BY DEF Lands
<1> QED
  BY <1>1, <1>2, <1>3 DEF Reached

LEMMA BringsReaches ==
    ASSUME world \in Worlds, NEW d, Orderly(d), NEW n, NEW bs, NEW missing, Brings(d, n, bs, missing),
           NEW us, Reached(d.base, d.last, us),
           NotOwn(AppliedOf(d, bs, missing)) \cup OwnUnits \subseteq us
    PROVE  Reached(n.base, n.last, us)
<1>1. d.base \in Points /\ d.last \in Points /\ n.last \in Points /\ n.base = d.base
  BY ClientFields DEF Orderly, Brings, SameElse
<1>2. UnitsOf(AppliedOf(d, bs, missing)) \subseteq us
  <2> SUFFICES ASSUME NEW u \in AppliedOf(d, bs, missing)
               PROVE  Units(u.box, u.hi - u.n, u.hi) \subseteq us
    BY DEF UnitsOf
  <2>1. CASE u.own
    BY <2>1 DEF Brings, OwnUnits, UnitsOf
  <2>2. CASE ~u.own
    BY <2>2 DEF NotOwn, UnitsOf
  <2> QED
    BY <2>1, <2>2
<1> SUFFICES ASSUME NEW b \in Boxes PROVE Units(b, d.base[b], n.last[b]) \subseteq us
  BY <1>1 DEF Reached
<1>3. d.base[b] \in Nat /\ d.last[b] \in Nat /\ n.last[b] \in Nat
  BY <1>1, PointsAreNumbers
<1>4. Units(b, d.base[b], n.last[b]) \subseteq Units(b, d.base[b], d.last[b]) \cup Units(b, d.last[b], n.last[b])
  BY <1>3, UnitsJoin
<1> QED
  BY <1>2, <1>4 DEF Brings, Reached

LEMMA ApplyDifferenceSaved ==
    ASSUME HoleInv, HoleInv', SavedInv, NEW missing, ApplyDifference(missing)
    PROVE  SavedInv'
<1> DEFINE p == Head(ready)
           w == Without(Way, 1)
<1>1. /\ TypeInv /\ world \in Worlds /\ StoreTypes /\ c \in Client /\ FlightInv(Way, c, answer)
      /\ Way \in [Places -> AllParts]
  BY InvFacts
<1>2. /\ p \in Parts /\ p.kind # "reset" /\ ready # <<>> /\ ready' = Tail(ready)
      /\ UNCHANGED <<sent, results, answer, disk, world>>
  BY <1>1, ApplyDifferenceFacts
<1> SUFFICES ASSUME "tooLong" \notin rare PROVE SavedInv'
  BY <1>2 DEF SavedInv, rare
<1>3. PICK at, put : /\ Lands(c, at, p) /\ PartUnits(p) \subseteq put
                     /\ Wrote(tasks', c'.last, put)
                     /\ p.kind = "slice" => c' = at
                     /\ p.kind # "slice" => /\ Brings(at, c', Boxes, missing)
                                            /\ NotOwn(AppliedOf(at, Boxes, missing)) \subseteq put
  <2>1. \E at, put :
          /\ Lands(c, at, p) /\ put \in Stored /\ PartUnits(p) \subseteq put
          /\ Wrote(tasks', c'.last, put)
          /\ p.kind = "slice" => c' = at
          /\ p.kind # "slice" => /\ Brings(at, c', Boxes, missing)
                                 /\ NotOwn(AppliedOf(at, Boxes, missing)) \subseteq put
    BY <1>1, ApplyDifferenceFacts
  <2> QED
    BY <2>1
<1>4. WayOf(ready', tasks') = w /\ Way[1] = p /\ 1 \in Places
  <2>1. tasks \in Seq(StorageTasks) /\ ready \in Seq(Parts) /\ ready' \in Seq(Parts)
    BY <1>1, <1>2 DEF StoreTypes
  <2>2. WayOf(ready', tasks) = w /\ Way[1] = p
    BY <1>2, <2>1, WayTail DEF Way
  <2>3. WayOf(ready', tasks') = WayOf(ready', tasks)
    BY <1>3, <2>1, WroteWay
  <2> QED
    BY <2>2, <2>3 DEF Places
<1> HIDE DEF p, w
<1>5. p.kind \in {"slice", "difference", "empty"}
  BY <1>2 DEF Parts, Kinds
<1>6. Reached(c.base, p.from, Known)
  <2>1. Before(Way, 1) = {}
    <3>1. \A i \in Places : ~(i < 1)
      BY DEF Places
    <3> QED
      BY <3>1 DEF Before
  <2>2. Reached(c.base, p.from, Known \cup Before(Way, 1))
    BY <1>4, <1>5 DEF SavedInv, Follows
  <2> QED
    BY <2>1, <2>2
<1>7. Reached(at.base, at.last, Known \cup put) /\ at.base = c.base
  <2>1. Reached(at.base, at.last, Known \cup PartUnits(p))
    BY <1>1, <1>2, <1>3, <1>6, LandsReaches DEF SavedInv
  <2> QED
    BY <1>3, <2>1 DEF Reached, Lands, SameElse
<1>8. Reached(c'.base, c'.last, Known \cup put) /\ c'.base = c.base
  <2>1. CASE p.kind = "slice"
    BY <1>3, <1>7, <2>1
  <2>2. CASE p.kind # "slice"
    <3>1. NotOwn(AppliedOf(at, Boxes, missing)) \cup OwnUnits \subseteq Known \cup put
      BY <1>3, <2>2, KnownHasOwn
    <3>2. Orderly(at) /\ Brings(at, c', Boxes, missing)
      BY <1>3, <2>2 DEF Lands
    <3>3. Reached(c'.base, c'.last, Known \cup put)
      BY <1>1, <1>7, <3>1, <3>2, BringsReaches
    <3> QED
      BY <1>7, <3>2, <3>3 DEF Brings, SameElse
  <2> QED
    BY <2>1, <2>2
<1>9. c' \in Client /\ c'.last \in Points /\ c'.base \in Points
  <2>1. c' \in Client
    BY <1>2, SameTypes DEF HoleInv, TypeInv, Orderly
  <2> QED
    BY <2>1, ClientFields
<1>10. NoReset(w, c', answer')
  <2>1. \A k \in Places : k + 1 \in Places /\ w[k] = Way[k + 1]
    BY DEF Without, Places, w
  <2>2. c'.reset = c.reset
    BY <1>3 DEF Lands, Brings, SameElse
  <2> QED
    BY <1>2, <2>1, <2>2 DEF SavedInv, NoReset
<1>11. Follows(w, c', Known \cup put)
  <2>1. ASSUME NEW n, n.base = c.base, n.request = c.request
        PROVE  Follows(w, n, Known \cup put)
    <3>1. Known \cup PartUnits(Way[1]) \subseteq Known \cup put
      BY <1>3, <1>4
    <3> QED
      BY <1>4, <2>1, <3>1, WithoutFollows DEF SavedInv, w
  <2>2. CASE c'.request = c.request
    BY <1>8, <2>1, <2>2
  <2>3. CASE AsksNow(at, c')
    <3>1. \A b \in Boxes : c'.base[b] <= c'.base[b]
      BY <1>1, <1>9, PointsAreNumbers
    <3>2. c'.request \in Points /\ \A b \in Boxes : c'.request[b] <= c'.last[b]
      BY <2>3 DEF AsksNow
    <3>3. Reached(c'.base, c'.request, Known \cup put)
      BY <1>1, <1>8, <1>9, <3>1, <3>2, ReachedMore
    <3>4. Follows(w, c, Known \cup put)
      BY <2>1
    <3> QED
      BY <1>8, <3>3, <3>4 DEF Follows, Reached
  <2>4. c'.request = c.request \/ AsksNow(at, c')
    BY <1>3 DEF Lands, Brings, SameFlight
  <2> QED
    BY <2>2, <2>3, <2>4
<1>12. \A b \in Boxes : c.base[b] <= c'.base[b]
  BY <1>1, <1>8, <1>9, PointsAreNumbers
<1>13. Added(tasks', c'.last, put)
  BY <1>3, WroteAdded
<1> QED
  BY <1>2, <1>4, <1>8, <1>10, <1>11, <1>12, <1>13, SavedGrows

(* Nothing is on the way, or waits to be written.                            *)
LEMMA StartsSaved ==
    ASSUME world \in Worlds, NEW n, NEW last, NEW base, Starts(n, last, base),
           NEW us, Reached(base, last, us)
    PROVE  /\ Follows(WayOf(<<>>, <<>>), n, us) /\ NoReset(WayOf(<<>>, <<>>), n, None)
           /\ Covers(n.base, us, <<>>) /\ Reached(n.base, n.last, us)
<1>1. \A i \in 1..Len(<<>>) : FALSE
  OBVIOUS
<1> QED
  BY <1>1, EmptyWay DEF Starts, Follows, NoReset, Covers

LEMMA RestartSaved ==
    ASSUME HoleInv, HoleInv', SavedInv, Restart
    PROVE  SavedInv'
<1>1. /\ c' = [Memory(disk.last) EXCEPT !.base = c.base]
      /\ answer' = None /\ tasks' = <<>> /\ ready' = <<>>
      /\ UNCHANGED <<sent, disk, world>>
  BY DEF Restart
<1> SUFFICES ASSUME "tooLong" \notin rare PROVE SavedInv'
  BY <1>1 DEF SavedInv, rare
<1>2. world \in Worlds /\ disk.last \in Points /\ c.base \in Points
  BY InvFacts, ClientFields DEF StoreTypes
<1>3. Starts(c', disk.last, c.base)
  BY <1>1, <1>2, MemoryFacts
<1>4. Had' = Had /\ Known' = Had
  BY <1>1 DEF Had, Known, Coming, OwnUnits, UnitsOf, Units
<1>5. Reached(c.base, disk.last, Had)
  BY DEF SavedInv
<1>6. /\ Follows(WayOf(<<>>, <<>>), c', Had) /\ NoReset(WayOf(<<>>, <<>>), c', None)
      /\ Covers(c'.base, Had, <<>>) /\ Reached(c'.base, c'.last, Had) /\ c'.base = c.base
  BY <1>2, <1>3, <1>5, StartsSaved DEF Starts
<1>7. Follows(Way, c, Known)' /\ NoReset(Way, c, answer)'
  <2>1. Way' = WayOf(<<>>, <<>>)
    BY <1>1 DEF Way, WayOf
  <2> QED
    BY <1>1, <1>4, <1>6, <2>1 DEF Follows, NoReset, Reached, Whole, Before, PartUnits, Units
<1>8. Covers(c.base, Had, tasks)' /\ Reached(c.base, disk.last, Had)' /\ Reached(c.base, c.last, Known)'
  BY <1>1, <1>4, <1>5, <1>6 DEF Covers, Reached, Coming, Put, Units
<1> QED
  BY <1>7, <1>8 DEF SavedInv

LEMMA InitSaved ==
    ASSUME Init
    PROVE  SavedInv
<1> DEFINE first == [Zero EXCEPT !["pts"] = 1]
<1>1. /\ world \in Worlds /\ c = Memory(first) /\ answer = None /\ tasks = <<>> /\ ready = <<>>
      /\ disk.last = c.last
  BY DEF Init
<1>2. HoleInv /\ c.last \in Points
  BY InitHoleInv, InvFacts
<1>3. c.last = first
  BY <1>1 DEF Memory
<1> HIDE DEF first
<1>4. Starts(c, first, first)
  BY <1>1, <1>2, <1>3, MemoryFacts
<1>5. Reached(first, first, {}) /\ Reached(first, first, Had)
  <2>1. \A b \in Boxes : Units(b, first[b], first[b]) = {}
    BY <1>1, <1>2, <1>3, PointsAreNumbers, NoUnits
  <2> QED
    BY <2>1 DEF Reached
<1>6. Known = Had
  BY <1>1 DEF Known, Coming
<1>7. /\ Follows(WayOf(<<>>, <<>>), c, Had) /\ NoReset(WayOf(<<>>, <<>>), c, None)
      /\ Covers(c.base, Had, <<>>) /\ Reached(c.base, c.last, Had)
  BY <1>1, <1>4, <1>5, StartsSaved
<1> QED
  BY <1>1, <1>6, <1>7 DEF SavedInv, Way

LEMMA NextSavedInv ==
    ASSUME HoleInv, HoleInv', SavedInv, [Next]_vars
    PROVE  SavedInv'
<1> USE DEF HoleInv
<1>1. CASE DifferenceArrives
  BY <1>1, DifferenceArrivesSaved
<1>2. CASE CompleteDialogsReset
  BY <1>2, DialogsSaved
<1>3. ASSUME NEW m \in Missing, ApplyDifference(m) PROVE SavedInv'
  BY <1>3, ApplyDifferenceSaved
<1>4. ASSUME NEW m \in Missing, UpdateTimerProc(m) PROVE SavedInv'
  BY <1>4, UpdateTimerProcMoves, MoveStepSaved
<1>5. ASSUME c.request # None, NEW a \in Answers(c.request), AnswerDifference(a) PROVE SavedInv'
  BY <1>5, AnswerDifferenceSaved
<1>6. CASE Dialogs
  BY <1>6, DialogsSaved
<1>7. CASE RunStorageTask
  BY <1>7, RunStorageTaskSaved
<1>8. ASSUME NEW b \in Boxes, TimePasses(b) PROVE SavedInv'
  BY <1>8, TimePassesMoves, MoveStepSaved
<1>9. ASSUME NEW u \in sent, NEW m \in Missing, ReceiveUpdate(u, m) PROVE SavedInv'
  BY <1>9, ReceiveUpdateMoves, MoveStepSaved
<1>10. ASSUME NEW u \in sent, ReceiveIncomplete(u) PROVE SavedInv'
  BY <1>10, ReceiveIncompleteMoves, MoveStepSaved
<1>11. ASSUME NEW u \in results, ProcessNewDifferenceParams(u) PROVE SavedInv'
  BY <1>11, ProcessNewDifferenceParamsMoves, MoveStepSaved
<1>12. CASE SessionCreated
  BY <1>12, SessionCreatedMoves, MoveStepSaved
<1>13. ASSUME NEW b \in Boxes, NEW n \in 1..2, NEW own \in BOOLEAN, MakeUpdate(b, n, own) PROVE SavedInv'
  <2>1. sent \subseteq sent' /\ UNCHANGED <<c, answer, tasks, ready, disk, world>>
    BY <1>13, MakeUpdateTypes
  <2>2. "tooLong" \notin rare /\ SavedInv => answer = None \/ answer.kind # "tooLong"
    BY DEF SavedInv, NoReset
  <2> QED
    BY <2>1, <2>2, QuietStepSaved
<1>14. CASE Restart
  BY <1>14, RestartSaved
<1>15. CASE UNCHANGED vars
  <2>1. sent \subseteq sent' /\ UNCHANGED <<c, answer, tasks, ready, disk, world>>
    BY <1>15 DEF vars
  <2>2. "tooLong" \notin rare /\ SavedInv => answer = None \/ answer.kind # "tooLong"
    BY DEF SavedInv, NoReset
  <2> QED
    BY <2>1, <2>2, QuietStepSaved
<1> QED
  BY <1>1, <1>2, <1>3, <1>4, <1>5, <1>6, <1>7, <1>8, <1>9, <1>10, <1>11, <1>12, <1>13, <1>14, <1>15
     DEF Next, StageTask, Timer, Answer

(* What the database says it has reached has been written to it, whenever    *)
(* the process is killed.                                                    *)
THEOREM DatabaseNotAhead == Spec => []SavedNotAhead
<1>1. Init => SavedInv
  BY InitSaved
<1>2. HoleInv /\ HoleInv' /\ SavedInv /\ [Next]_vars => SavedInv'
  BY NextSavedInv
<1>3. SavedInv => SavedNotAhead
  BY DEF SavedInv, SavedNotAhead, Reached, Had
<1> QED
  BY <1>1, <1>2, <1>3, HoleInvHolds, PTL DEF Spec
=============================================================================
