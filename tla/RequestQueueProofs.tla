------------------------- MODULE RequestQueueProofs --------------------------
(* Proofs about RequestQueue, for every set of requests and every limit.     *)
EXTENDS RequestQueue, FiniteSetTheorems, WellFoundedInduction, TLAPS

-----------------------------------------------------------------------------
(* Visiting order.                                                           *)

(* processRequestQueue never visits a request before itself, and its order   *)
(* is transitive.                                                            *)
LEMMA VisitedOrder ==
    ASSUME NEW s \in QType
    PROVE  /\ \A r \in Requests : ~Visited(s, r, r)
           /\ \A a, b, c \in Requests : Visited(s, a, b) /\ Visited(s, b, c) => Visited(s, a, c)
<1>1. \A r \in Requests : s.pos[r] \in Nat
  BY DEF QType
<1> QED
  BY <1>1 DEF Visited, Ahead

(* Some request of every non-empty batch is visited last.                    *)
LEMMA LastExists ==
    ASSUME NEW s \in QType, NEW chain \in SUBSET Requests, chain # {}
    PROVE  \E r \in chain : \A a \in chain : ~Visited(s, r, a)
<1> DEFINE later(r) == {a \in chain : Visited(s, r, a)}
           family == {later(r) : r \in chain}
<1>1. IsFiniteSet(Requests) /\ IsFiniteSet(chain)
  BY RequestAssumption, FS_Subset
<1>2. family \subseteq FiniteSubsetsOf(chain)
  BY <1>1, FS_Subset DEF FiniteSubsetsOf
<1>3. IsWellFoundedOn(StrictSubsetOrdering(chain), FiniteSubsetsOf(chain))
  BY FS_StrictSubsetOrderingWellFounded
<1>4. PICK u \in family : \A v \in family : <<v, u>> \notin StrictSubsetOrdering(chain)
  <2>1. family # {}
    OBVIOUS
  <2> HIDE DEF family
  <2> QED
    BY <1>2, <1>3, <2>1, WFMin
<1>5. PICK r \in chain : u = later(r)
  BY <1>4
<1>6. SUFFICES ASSUME NEW a \in chain, Visited(s, r, a) PROVE FALSE
  OBVIOUS
<1>7. later(a) \subseteq later(r) /\ a \in later(r) /\ a \notin later(a)
  BY <1>6, VisitedOrder
<1>8. <<later(a), later(r)>> \in StrictSubsetOrdering(chain)
  BY <1>7 DEF StrictSubsetOrdering
<1> QED
  BY <1>4, <1>5, <1>8

-----------------------------------------------------------------------------
(* What processRequestQueue does to the requests, whatever it decides to     *)
(* send: of the running ones due, some are given up and the others sent      *)
(* again; of the queued ones, some are sent and start running.               *)
Fresh(s, sent, new) == new \cup {r \in sent : s.msgId[r] = 0}

PassOutcome(s, n, wired, due, givenUp, new) ==
    LET fresh == Fresh(s, due \ givenUp, new) IN
    /\ n \in QType
    /\ n.place = [r \in Requests |-> IF r \in givenUp THEN "failed"
                                     ELSE IF r \in new THEN "running" ELSE s.place[r]]
    /\ n.pos = [r \in Requests |-> IF r \notin new THEN s.pos[r]
                  ELSE s.lastPos + 1 + Cardinality(new \cap Ahead(s, r))]
    /\ n.lastPos = s.lastPos + Cardinality(new)
    /\ n.msgId = [r \in Requests |-> IF r \in fresh THEN NewId(s, fresh, r) ELSE s.msgId[r]]
    /\ n.lastMsgId = s.lastMsgId + Cardinality(fresh)
    /\ \A r \in Requests \ ((due \ givenUp) \cup new) : n.token[r] = s.token[r]
    /\ n.callbacks = [r \in Requests |->
                        s.callbacks[r] + (IF r \in givenUp \ Internal THEN 1 ELSE 0)]
    /\ \A m \in wired : m.req \in (due \ givenUp) \cup new

LEMMA PassResult ==
    ASSUME NEW s \in QType, NEW env, env.conn \in [Kinds -> Nat],
           NEW force, NEW aged, NEW recent
    PROVE  LET p == Pass(s, env, force, aged, recent) IN
           \E due \in SUBSET In(s, "running"), new \in SUBSET In(s, "queue") :
             \E givenUp \in SUBSET due :
               PassOutcome(s, p.q, p.wire, due, givenUp, new)
<1> DEFINE due     == Due(s, env, force, aged)
           givenUp == GivenUp(s, due)
           sent    == due \ givenUp
           new     == Launched(s, env)
           fresh   == Fresh(s, sent, new)
           id      == [r \in Requests |-> IF r \in fresh THEN NewId(s, fresh, r) ELSE s.msgId[r]]
           chain   == ((sent \cup new) \cap InvokeAfter) \ Marked(s)
           last    == {r \in chain : \A a \in chain : ~Visited(s, r, a)}
           place   == [r \in Requests |-> IF r \in givenUp THEN "failed"
                                          ELSE IF r \in new THEN "running" ELSE s.place[r]]
           pos     == [r \in Requests |-> IF r \notin new THEN s.pos[r]
                         ELSE s.lastPos + 1 + Cardinality(new \cap Ahead(s, r))]
           token   == [r \in Requests |-> IF r \in sent \cup new THEN env.conn[Kind(r)]
                                          ELSE s.token[r]]
           retries == [r \in Requests |-> s.retries[r] + (IF r \in due \ Generic THEN 1 ELSE 0)]
           calls   == [r \in Requests |->
                         s.callbacks[r] + (IF r \in givenUp \ Internal THEN 1 ELSE 0)]
           after   == IF chain = {} THEN s.lastAfter ELSE id[CHOOSE r \in last : TRUE]
           n == Pass(s, env, force, aged, recent).q
<1>1. due \subseteq In(s, "running") /\ givenUp \subseteq due /\ new \subseteq In(s, "queue")
  BY DEF Due, GivenUp, Launched, Ready
<1>2. fresh \subseteq Requests /\ chain \subseteq Requests /\ Marked(s) \subseteq Requests
  BY <1>1 DEF Fresh, In, Marked, QType
<1>3. \A x \in SUBSET Requests : Cardinality(x) \in Nat
  BY RequestAssumption, FS_Subset, FS_CardinalityType
<1>4. id \in [Requests -> Nat]
  <2>1. \A r \in Requests : NewId(s, fresh, r) \in Nat
    <3>1. \A r \in Requests : {a \in fresh : Visited(s, a, r)} \in SUBSET Requests
      BY <1>2
    <3>2. s.lastMsgId \in Nat
      BY DEF QType
    <3> HIDE DEF fresh
    <3>3. TAKE r \in Requests
    <3>4. Cardinality({a \in fresh : Visited(s, a, r)}) \in Nat
      BY <1>3, <3>1
    <3> QED
      BY <3>2, <3>4 DEF NewId
  <2>2. s.msgId \in [Requests -> Nat]
    BY DEF QType
  <2> HIDE DEF fresh
  <2> QED
    BY <2>1, <2>2
<1>5. place \in [Requests -> Places] /\ token \in [Requests -> Nat]
      /\ retries \in [Requests -> Nat] /\ calls \in [Requests -> Nat]
  <2>1. \A r \in Requests : env.conn[Kind(r)] \in Nat
    BY DEF Kind, Kinds
  <2> HIDE DEF givenUp, new, sent, due
  <2> QED
    BY <2>1 DEF QType, Places
<1>6. pos \in [Requests -> Nat] /\ s.lastPos + Cardinality(new) \in Nat
  <2>1. \A r \in Requests : new \cap Ahead(s, r) \in SUBSET Requests
    BY DEF Ahead
  <2>2. new \in SUBSET Requests
    BY <1>1 DEF In
  <2>3. s.lastPos \in Nat /\ s.pos \in [Requests -> Nat]
    BY DEF QType
  <2> HIDE DEF new
  <2> QED
    BY <1>3, <2>1, <2>2, <2>3
<1>7. after \in Nat
  <2>1. CASE chain = {}
    BY <2>1 DEF QType
  <2>2. CASE chain # {}
    <3>1. (CHOOSE r \in last : TRUE) \in last
      BY <1>2, <2>2, LastExists
    <3>2. last \subseteq Requests
      BY <1>2
    <3> HIDE DEF last, id, chain
    <3> QED
      BY <1>4, <2>2, <3>1, <3>2
  <2> QED
    BY <2>1, <2>2
<1>8. s.lastMsgId + Cardinality(fresh) \in Nat
  <2>1. Cardinality(fresh) \in Nat
    BY <1>2, <1>3
  <2> HIDE DEF fresh
  <2> QED
    BY <2>1 DEF QType
<1>9. n = [s EXCEPT !.place = place, !.pos = pos, !.lastPos = s.lastPos + Cardinality(new),
                    !.msgId = id, !.token = token, !.retries = retries,
                    !.resendAfter = Marked(s), !.saltFailed = s.saltFailed \ due,
                    !.lastMsgId = s.lastMsgId + Cardinality(fresh),
                    !.lastAfter = after, !.callbacks = calls]
  BY DEF Pass, Fresh
<1>10. \A m \in Pass(s, env, force, aged, recent).wire : m.req \in sent \cup new
  <2> DEFINE others == ((In(s, "running") \cup new) \cap InvokeAfter) \ chain
             base   == ChainBase(s, others, id, recent)
             message(r) == [id |-> id[r], req |-> r, after |-> After(s, chain, base, id, r),
                            kind |-> Kind(r)]
  <2>1. Pass(s, env, force, aged, recent).wire = {message(r) : r \in sent \cup new}
    BY DEF Pass, Fresh
  <2>2. \A r : message(r).req = r
    OBVIOUS
  <2> HIDE DEF message, sent, new
  <2> QED
    BY <2>1, <2>2
<1>11. PassOutcome(s, n, Pass(s, env, force, aged, recent).wire, due, givenUp, new)
  <2>1. \A r \in Requests \ (sent \cup new) : token[r] = s.token[r]
    OBVIOUS
  <2>2. place = [r \in Requests |-> IF r \in givenUp THEN "failed"
                                     ELSE IF r \in new THEN "running" ELSE s.place[r]]
    OBVIOUS
  <2> DEFINE lp == s.lastPos + Cardinality(new)
             lm == s.lastMsgId + Cardinality(fresh)
             mk == Marked(s)
             sf == s.saltFailed \ due
  <2>3. sf \subseteq Requests
    BY DEF QType
  <2> HIDE DEF place, pos, token, retries, calls, after, id, lp, lm, mk, sf
  <2>4. n \in QType
    <3>1. lp \in Nat /\ lm \in Nat /\ mk \subseteq Requests
      BY <1>2, <1>6, <1>8 DEF lp, lm, mk
    <3>2. n = [s EXCEPT !.place = place, !.pos = pos, !.lastPos = lp,
                        !.msgId = id, !.token = token, !.retries = retries,
                        !.resendAfter = mk, !.saltFailed = sf,
                        !.lastMsgId = lm, !.lastAfter = after, !.callbacks = calls]
      BY <1>9 DEF lp, lm, mk, sf
    <3> HIDE DEF n
    <3> QED
      BY <1>4, <1>5, <1>6, <1>7, <2>3, <3>1, <3>2 DEF QType
  <2>5. /\ n.place = place /\ n.pos = pos /\ n.lastPos = lp /\ n.msgId = id
        /\ n.token = token /\ n.lastMsgId = lm /\ n.callbacks = calls
    BY <1>9 DEF QType, lp, lm, mk, sf
  <2> QED
    BY <1>10, <2>1, <2>4, <2>5 DEF PassOutcome, place, pos, token, calls, id, lp, lm
<1> QED
  BY <1>1, <1>11
-----------------------------------------------------------------------------
(* The invariant of the lists, in named parts.                               *)
Lists == {"queue", "running"}

(* A list never holds two requests at one place, and grows at its end.       *)
Ordered(s) ==
    /\ \A r \in Requests : s.place[r] \in Lists => s.pos[r] <= s.lastPos
    /\ \A r, t \in Requests :
          s.place[r] \in Lists /\ s.place[r] = s.place[t] /\ s.pos[r] = s.pos[t] => r = t

(* Identifiers of running requests come from lastOutgoingMessageId.          *)
Identified(s) ==
    /\ \A r \in In(s, "running") : s.msgId[r] <= s.lastMsgId
    /\ \A r, t \in In(s, "running") : s.msgId[r] # 0 /\ s.msgId[r] = s.msgId[t] => r = t

TokensReset(s) == \A r \in Requests : s.msgId[r] = 0 => s.token[r] = 0

CalledOnce(s) ==
    \A r \in Requests \ Internal :
        s.callbacks[r] = IF s.place[r] \in {"answered", "failed"} THEN 1 ELSE 0

ListsInv(s) ==
    s \in QType /\ Ordered(s) /\ Identified(s) /\ TokensReset(s) /\ CalledOnce(s)

LEMMA SmallerCount ==
    ASSUME NEW a \in SUBSET Requests, NEW b \in SUBSET Requests, a \subseteq b,
           NEW r \in b, r \notin a
    PROVE  /\ Cardinality(a) \in Nat /\ Cardinality(b) \in Nat
           /\ Cardinality(a) < Cardinality(b)
<1>1. IsFiniteSet(b)
  BY RequestAssumption, FS_Subset
<1>2. IsFiniteSet(a) /\ Cardinality(a) <= Cardinality(b) /\ Cardinality(a) # Cardinality(b)
  BY <1>1, FS_Subset
<1>3. Cardinality(a) \in Nat /\ Cardinality(b) \in Nat
  BY <1>1, <1>2, FS_CardinalityType
<1> QED
  BY <1>2, <1>3

(* Two requests of the lists are visited one before the other.               *)
LEMMA VisitedTotal ==
    ASSUME NEW s \in QType, Ordered(s), NEW a \in Requests, NEW b \in Requests, a # b,
           s.place[a] \in Lists, s.place[b] \in Lists
    PROVE  Visited(s, a, b) \/ Visited(s, b, a)
<1>1. s.pos[a] \in Nat /\ s.pos[b] \in Nat
  BY DEF QType
<1> QED
  BY <1>1 DEF Ordered, Lists, Visited, Ahead

(* The identifiers given in one batch are new and all different.             *)
LEMMA NewIds ==
    ASSUME NEW s \in QType, Ordered(s), NEW fresh \in SUBSET Requests,
           \A r \in fresh : s.place[r] \in Lists
    PROVE  /\ Cardinality(fresh) \in Nat
           /\ \A r \in fresh : /\ NewId(s, fresh, r) \in Nat
                               /\ NewId(s, fresh, r) > s.lastMsgId
                               /\ NewId(s, fresh, r) <= s.lastMsgId + Cardinality(fresh)
           /\ \A r, t \in fresh : NewId(s, fresh, r) = NewId(s, fresh, t) => r = t
<1> DEFINE before(r) == {a \in fresh : Visited(s, a, r)}
<1>1. s.lastMsgId \in Nat
  BY DEF QType
<1>2. Cardinality(fresh) \in Nat
  BY RequestAssumption, FS_Subset, FS_CardinalityType
<1>3. \A r \in fresh : Cardinality(before(r)) \in Nat /\ Cardinality(before(r)) < Cardinality(fresh)
  BY SmallerCount, VisitedOrder
<1>4. \A r, t \in fresh : Visited(s, r, t) => Cardinality(before(r)) < Cardinality(before(t))
  <2> SUFFICES ASSUME NEW r \in fresh, NEW t \in fresh, Visited(s, r, t)
               PROVE  Cardinality(before(r)) < Cardinality(before(t))
    OBVIOUS
  <2>1. before(r) \subseteq before(t) /\ r \in before(t) /\ r \notin before(r)
    BY VisitedOrder
  <2> QED
    BY <2>1, SmallerCount
<1>5. \A r \in fresh : NewId(s, fresh, r) = s.lastMsgId + 1 + Cardinality(before(r))
  BY DEF NewId
<1> HIDE DEF before
<1>6. \A r, t \in fresh : NewId(s, fresh, r) = NewId(s, fresh, t) => r = t
  <2> SUFFICES ASSUME NEW r \in fresh, NEW t \in fresh, r # t
               PROVE  NewId(s, fresh, r) # NewId(s, fresh, t)
    OBVIOUS
  <2>1. Visited(s, r, t) \/ Visited(s, t, r)
    BY VisitedTotal
  <2> QED
    BY <1>1, <1>3, <1>4, <1>5, <2>1
<1> QED
  BY <1>1, <1>2, <1>3, <1>5, <1>6

(* The places given at the end of the list of running requests are new.      *)
LEMMA NewPlaces ==
    ASSUME NEW s \in QType, Ordered(s), NEW new \in SUBSET In(s, "queue")
    PROVE  /\ Cardinality(new) \in Nat
           /\ \A r \in new : /\ Cardinality(new \cap Ahead(s, r)) \in Nat
                             /\ Cardinality(new \cap Ahead(s, r)) < Cardinality(new)
           /\ \A r, t \in new :
                 Cardinality(new \cap Ahead(s, r)) = Cardinality(new \cap Ahead(s, t)) => r = t
<1>1. \A r \in Requests : s.pos[r] \in Nat
  BY DEF QType
<1>2. new \subseteq Requests /\ Cardinality(new) \in Nat
  BY RequestAssumption, FS_Subset, FS_CardinalityType DEF In
<1>3. \A r \in new : /\ Cardinality(new \cap Ahead(s, r)) \in Nat
                     /\ Cardinality(new \cap Ahead(s, r)) < Cardinality(new)
  <2> SUFFICES ASSUME NEW r \in new
               PROVE  /\ Cardinality(new \cap Ahead(s, r)) \in Nat
                      /\ Cardinality(new \cap Ahead(s, r)) < Cardinality(new)
    OBVIOUS
  <2>1. r \notin Ahead(s, r)
    BY <1>1, <1>2 DEF Ahead
  <2> QED
    BY <1>2, <2>1, SmallerCount
<1>4. \A r, t \in new : s.pos[r] < s.pos[t] =>
          Cardinality(new \cap Ahead(s, r)) < Cardinality(new \cap Ahead(s, t))
  <2> SUFFICES ASSUME NEW r \in new, NEW t \in new, s.pos[r] < s.pos[t]
               PROVE  Cardinality(new \cap Ahead(s, r)) < Cardinality(new \cap Ahead(s, t))
    OBVIOUS
  <2>1. /\ new \cap Ahead(s, r) \subseteq new \cap Ahead(s, t)
        /\ r \in new \cap Ahead(s, t) /\ r \notin Ahead(s, r)
    BY <1>1, <1>2 DEF Ahead, In
  <2> QED
    BY <1>2, <2>1, SmallerCount
<1>5. \A r, t \in new : r # t => s.pos[r] < s.pos[t] \/ s.pos[t] < s.pos[r]
  <2>1. \A r, t \in new : s.pos[r] = s.pos[t] => r = t
    BY <1>2 DEF Ordered, In, Lists
  <2> QED
    BY <1>1, <1>2, <2>1
<1> QED
  BY <1>2, <1>3, <1>4, <1>5
-----------------------------------------------------------------------------
(* Only requests of the lists change place or are sent.                      *)
OnlyLists(s, n, wired) ==
    \A r \in Requests : s.place[r] \notin Lists =>
        n.place[r] = s.place[r] /\ \A m \in wired : m.req # r

LEMMA PassKeepsInv ==
    ASSUME NEW s, ListsInv(s), NEW n, NEW wired,
           NEW due \in SUBSET In(s, "running"), NEW new \in SUBSET In(s, "queue"),
           NEW givenUp \in SUBSET due, PassOutcome(s, n, wired, due, givenUp, new)
    PROVE  ListsInv(n) /\ OnlyLists(s, n, wired)
<1> DEFINE fresh == Fresh(s, due \ givenUp, new)
<1>1. s \in QType /\ n \in QType
  BY DEF ListsInv, PassOutcome
<1>2. fresh \in SUBSET Requests /\ \A r \in fresh : s.place[r] \in Lists
  BY DEF Fresh, In, Lists
<1>3. /\ due \subseteq Requests /\ \A r \in due : s.place[r] = "running"
      /\ new \subseteq Requests /\ \A r \in new : s.place[r] = "queue"
      /\ givenUp \subseteq due /\ new \subseteq fresh
      /\ \A r \in due \ givenUp : s.msgId[r] = 0 => r \in fresh
  BY DEF In, Fresh
<1>4. Ordered(s) /\ Identified(s) /\ TokensReset(s) /\ CalledOnce(s)
  BY DEF ListsInv
<1>5. \A r \in Requests : n.place[r] = IF r \in givenUp THEN "failed"
                                       ELSE IF r \in new THEN "running" ELSE s.place[r]
  BY DEF PassOutcome
<1>6. Ordered(n)
  <2> DEFINE c(r) == Cardinality(new \cap Ahead(s, r))
  <2>1. \A r \in Requests : n.pos[r] = IF r \notin new THEN s.pos[r] ELSE s.lastPos + 1 + c(r)
    BY DEF PassOutcome
  <2>2. n.lastPos = s.lastPos + Cardinality(new)
    BY DEF PassOutcome
  <2>3. /\ Cardinality(new) \in Nat /\ \A r \in new : c(r) \in Nat /\ c(r) < Cardinality(new)
        /\ \A r, t \in new : c(r) = c(t) => r = t
    BY <1>1, <1>4, NewPlaces
  <2> HIDE DEF c
  <2>4. s.lastPos \in Nat /\ \A r \in Requests : s.pos[r] \in Nat
    BY <1>1 DEF QType
  <2>5. /\ \A r \in Requests : s.place[r] \in Lists => s.pos[r] <= s.lastPos
        /\ \A r, t \in Requests :
              s.place[r] \in Lists /\ s.place[r] = s.place[t] /\ s.pos[r] = s.pos[t] => r = t
    BY <1>4 DEF Ordered
  <2>6. \A r \in Requests : n.place[r] \in Lists => s.place[r] \in Lists
    BY <1>3, <1>5 DEF Lists
  <2>7. \A r \in Requests : n.place[r] \in Lists => n.pos[r] <= n.lastPos
    BY <2>1, <2>2, <2>3, <2>4, <2>5, <2>6
  <2>8. ASSUME NEW r \in Requests, NEW t \in Requests,
               n.place[r] \in Lists, n.place[r] = n.place[t], n.pos[r] = n.pos[t]
        PROVE  r = t
    <3>1. s.place[r] \in Lists /\ s.place[t] \in Lists
      BY <2>6, <2>8
    <3>2. CASE r \in new /\ t \in new
      BY <2>1, <2>3, <2>4, <2>8, <3>2
    <3>3. CASE r \in new /\ t \notin new
      BY <2>1, <2>3, <2>4, <2>5, <2>8, <3>1, <3>3
    <3>4. CASE r \notin new /\ t \in new
      BY <2>1, <2>3, <2>4, <2>5, <2>8, <3>1, <3>4
    <3>5. CASE r \notin new /\ t \notin new
      <4>1. s.place[r] = s.place[t]
        BY <1>5, <2>8, <3>5 DEF Lists
      <4> QED
        BY <2>1, <2>5, <2>8, <3>1, <3>5, <4>1
    <3> QED
      BY <3>2, <3>3, <3>4, <3>5
  <2> QED
    BY <2>7, <2>8 DEF Ordered
<1>7. /\ \A r \in Requests : n.msgId[r] = IF r \in fresh THEN NewId(s, fresh, r) ELSE s.msgId[r]
      /\ n.lastMsgId = s.lastMsgId + Cardinality(fresh)
  BY DEF PassOutcome
<1> HIDE DEF fresh
<1>8. /\ Cardinality(fresh) \in Nat
      /\ \A r \in fresh : /\ NewId(s, fresh, r) \in Nat
                          /\ NewId(s, fresh, r) > s.lastMsgId
                          /\ NewId(s, fresh, r) <= s.lastMsgId + Cardinality(fresh)
      /\ \A r, t \in fresh : NewId(s, fresh, r) = NewId(s, fresh, t) => r = t
  BY <1>1, <1>2, <1>4, NewIds
<1>9. s.lastMsgId \in Nat /\ \A r \in Requests : s.msgId[r] \in Nat
  BY <1>1 DEF QType
<1>10. Identified(n)
  <2>1. \A r \in In(n, "running") : r \in Requests /\ (r \in fresh \/ s.place[r] = "running")
    BY <1>3, <1>5 DEF In
  <2>2. /\ \A r \in Requests : s.place[r] = "running" => s.msgId[r] <= s.lastMsgId
        /\ \A r, t \in Requests : s.place[r] = "running" /\ s.place[t] = "running" =>
              (s.msgId[r] # 0 /\ s.msgId[r] = s.msgId[t] => r = t)
    BY <1>4 DEF Identified, In
  <2>3. \A r \in In(n, "running") : n.msgId[r] <= n.lastMsgId
    BY <1>7, <1>8, <1>9, <2>1, <2>2
  <2>4. ASSUME NEW r \in In(n, "running"), NEW t \in In(n, "running"),
               n.msgId[r] # 0, n.msgId[r] = n.msgId[t]
        PROVE  r = t
    BY <1>7, <1>8, <1>9, <2>1, <2>2, <2>4
  <2> QED
    BY <2>3, <2>4 DEF Identified
<1>11. TokensReset(n)
  <2>1. \A r \in Requests \ ((due \ givenUp) \cup new) : n.token[r] = s.token[r]
    BY DEF PassOutcome
  <2>2. \A r \in Requests : n.msgId[r] = 0 => r \notin fresh /\ s.msgId[r] = 0
    BY <1>7, <1>8, <1>9
  <2> QED
    BY <1>3, <1>4, <2>1, <2>2 DEF TokensReset
<1>12. CalledOnce(n)
  <2>1. \A r \in Requests \ Internal :
            /\ n.callbacks[r] = s.callbacks[r] + (IF r \in givenUp THEN 1 ELSE 0)
            /\ s.callbacks[r] \in Nat
    BY <1>1 DEF PassOutcome, QType
  <2> QED
    BY <1>3, <1>4, <1>5, <2>1 DEF CalledOnce
<1>13. OnlyLists(s, n, wired)
  <2>1. \A m \in wired : m.req \in (due \ givenUp) \cup new
    BY DEF PassOutcome
  <2> QED
    BY <1>3, <1>5, <2>1 DEF OnlyLists, Lists
<1> QED
  BY <1>1, <1>6, <1>10, <1>11, <1>12, <1>13 DEF ListsInv

(* The same, of the handlers that end in processRequestQueue.                *)
LEMMA ProcessKeepsInv ==
    ASSUME NEW s, ListsInv(s), NEW env, env.conn \in [Kinds -> Nat], NEW force,
           ProcessRequestQueue(s, env, force)
    PROVE  ListsInv(q') /\ OnlyLists(s, q', wire')
<1>1. PICK aged, recent : LET p == Pass(s, env, force, aged, recent) IN
                          q' = p.q /\ wire' = p.wire
  BY DEF ProcessRequestQueue
<1>2. s \in QType
  BY DEF ListsInv
<1>3. PICK due \in SUBSET In(s, "running"), new \in SUBSET In(s, "queue") :
        \E givenUp \in SUBSET due : PassOutcome(s, q', wire', due, givenUp, new)
  BY <1>1, <1>2, PassResult
<1>4. PICK givenUp \in SUBSET due : PassOutcome(s, q', wire', due, givenUp, new)
  BY <1>3
<1> QED
  BY <1>4, PassKeepsInv
LEMMA OnlyListsChains ==
    ASSUME NEW s, NEW t, NEW n, NEW wired, OnlyLists(s, t, {}), OnlyLists(t, n, wired)
    PROVE  OnlyLists(s, n, wired)
BY DEF OnlyLists

(* Changes of a record that leave the lists and the identifiers alone.       *)
LEMMA SameLists ==
    ASSUME NEW s, ListsInv(s), NEW n \in QType,
           n.place = s.place, n.pos = s.pos, n.lastPos = s.lastPos,
           n.msgId = s.msgId, n.lastMsgId = s.lastMsgId, n.token = s.token,
           n.callbacks = s.callbacks
    PROVE  ListsInv(n) /\ OnlyLists(s, n, {})
BY DEF ListsInv, OnlyLists, Ordered, Identified, TokensReset, CalledOnce, In

LEMMA EnqueueKeepsInv ==
    ASSUME NEW s, ListsInv(s), NEW r \in Requests, s.place[r] = "task"
    PROVE  /\ ListsInv(Enqueue(s, r))
           /\ \A t \in Requests : Enqueue(s, r).place[t] = IF t = r THEN "queue" ELSE s.place[t]
<1> DEFINE n == Enqueue(s, r)
<1>1. s \in QType
  BY DEF ListsInv
<1>2. n \in QType
  <2> DEFINE place == [s.place EXCEPT ![r] = "queue"]
             pos   == [s.pos EXCEPT ![r] = s.lastPos + 1]
             end   == s.lastPos + 1
  <2>1. place \in [Requests -> Places] /\ pos \in [Requests -> Nat] /\ end \in Nat
    BY <1>1 DEF QType, Places
  <2>2. n = [s EXCEPT !.place = place, !.pos = pos, !.lastPos = end]
    BY DEF Enqueue
  <2> HIDE DEF place, pos, end, n
  <2> QED
    BY <1>1, <2>1, <2>2 DEF QType
<1>3. /\ n.place = [s.place EXCEPT ![r] = "queue"]
      /\ n.pos = [s.pos EXCEPT ![r] = s.lastPos + 1] /\ n.lastPos = s.lastPos + 1
      /\ n.msgId = s.msgId /\ n.lastMsgId = s.lastMsgId /\ n.token = s.token
      /\ n.callbacks = s.callbacks
  BY <1>1 DEF Enqueue, QType
<1>4. s.lastPos \in Nat /\ s.pos \in [Requests -> Nat] /\ s.place \in [Requests -> Places]
  BY <1>1 DEF QType
<1> HIDE DEF n
<1>5. Ordered(n)
  <2>1. /\ \A t \in Requests : s.place[t] \in Lists => s.pos[t] <= s.lastPos
        /\ \A t, u \in Requests :
              s.place[t] \in Lists /\ s.place[t] = s.place[u] /\ s.pos[t] = s.pos[u] => t = u
    BY DEF ListsInv, Ordered
  <2>2. \A t \in Requests : /\ n.place[t] = IF t = r THEN "queue" ELSE s.place[t]
                            /\ n.pos[t] = IF t = r THEN s.lastPos + 1 ELSE s.pos[t]
                            /\ s.pos[t] \in Nat
    BY <1>3, <1>4
  <2> QED
    BY <1>3, <1>4, <2>1, <2>2 DEF Ordered, Lists
<1>6. Identified(n)
  BY <1>3, <1>4 DEF ListsInv, Identified, In
<1>7. TokensReset(n) /\ CalledOnce(n)
  BY <1>3, <1>4 DEF ListsInv, TokensReset, CalledOnce
<1> QED
  BY <1>2, <1>3, <1>4, <1>5, <1>6, <1>7 DEF ListsInv, n

LEMMA ClearedKeepsInv ==
    ASSUME NEW s, ListsInv(s), NEW c
    PROVE  ListsInv(Cleared(s, c)) /\ OnlyLists(s, Cleared(s, c), {})
<1> DEFINE id == [r \in Requests |-> IF r \in c THEN 0 ELSE s.msgId[r]]
           tk == [r \in Requests |-> IF r \in c THEN 0 ELSE s.token[r]]
           n == Cleared(s, c)
<1>1. s \in QType /\ s.msgId \in [Requests -> Nat]
  BY DEF ListsInv, QType
<1>2. id \in [Requests -> Nat] /\ tk \in [Requests -> Nat]
  BY <1>1 DEF QType
<1>3. n = [s EXCEPT !.msgId = id, !.token = tk]
  BY DEF Cleared
<1>4. \A r \in Requests : /\ id[r] = IF r \in c THEN 0 ELSE s.msgId[r]
                          /\ tk[r] = IF r \in c THEN 0 ELSE s.token[r]
  OBVIOUS
<1> HIDE DEF id, tk, n
<1>5. n \in QType
  BY <1>1, <1>2, <1>3 DEF QType
<1>6. /\ n.place = s.place /\ n.pos = s.pos /\ n.lastPos = s.lastPos
      /\ n.msgId = id /\ n.token = tk /\ n.lastMsgId = s.lastMsgId /\ n.callbacks = s.callbacks
  BY <1>1, <1>3 DEF QType
<1>7. s.lastMsgId \in Nat
  BY <1>1 DEF QType
<1>8. Identified(n)
  BY <1>1, <1>4, <1>6, <1>7 DEF ListsInv, Identified, In
<1>9. Ordered(n) /\ TokensReset(n) /\ CalledOnce(n) /\ OnlyLists(s, n, {})
  BY <1>4, <1>6 DEF ListsInv, Ordered, TokensReset, CalledOnce, OnlyLists
<1> QED
  BY <1>5, <1>8, <1>9 DEF ListsInv, n

LEMMA CompletedKeepsInv ==
    ASSUME NEW s, ListsInv(s), NEW r \in Requests, s.place[r] = "running",
           NEW end \in {"answered", "failed"}
    PROVE  ListsInv(Completed(s, r, end)) /\ OnlyLists(s, Completed(s, r, end), {})
<1> DEFINE n == Completed(s, r, end)
           more == s.callbacks[r] + (IF r \in Internal THEN 0 ELSE 1)
<1>1. s \in QType
  BY DEF ListsInv
<1>2. /\ s.place \in [Requests -> Places] /\ s.callbacks \in [Requests -> Nat]
      /\ more \in Nat
  BY <1>1 DEF QType
<1>3. n = [s EXCEPT !.place[r] = end, !.callbacks[r] = more]
  BY DEF Completed
<1>4. r \notin Internal => more = s.callbacks[r] + 1
  OBVIOUS
<1> HIDE DEF more, n
<1>5. n \in QType
  BY <1>1, <1>2, <1>3 DEF QType, Places
<1>6. /\ n.place = [s.place EXCEPT ![r] = end] /\ n.pos = s.pos /\ n.lastPos = s.lastPos
      /\ n.msgId = s.msgId /\ n.token = s.token /\ n.lastMsgId = s.lastMsgId
      /\ n.callbacks = [s.callbacks EXCEPT ![r] = more]
  BY <1>1, <1>3 DEF QType
<1>7. Ordered(n) /\ Identified(n) /\ TokensReset(n)
  BY <1>2, <1>6 DEF ListsInv, Ordered, Lists, Identified, In, TokensReset
<1>8. CalledOnce(n)
  BY <1>2, <1>4, <1>6 DEF ListsInv, CalledOnce
<1>9. OnlyLists(s, n, {})
  BY <1>2, <1>6 DEF OnlyLists, Lists
<1> QED
  BY <1>5, <1>7, <1>8, <1>9 DEF ListsInv, n

LEMMA ForgetKeepsInv ==
    ASSUME NEW s, ListsInv(s), NEW id
    PROVE  ListsInv(Forget(s, id)) /\ OnlyLists(s, Forget(s, id), {})
           /\ Forget(s, id).place = s.place
<1>1. s \in QType
  BY DEF ListsInv
<1>2. Forget(s, id) \in QType
  BY <1>1 DEF Forget, QType
<1> QED
  BY <1>1, <1>2, SameLists DEF Forget, QType

LEMMA AnsweredKeepsInv ==
    ASSUME NEW s, ListsInv(s), NEW r \in Requests, s.place[r] = "running", NEW result
    PROVE  ListsInv(Answered(s, r, result)) /\ OnlyLists(s, Answered(s, r, result), {})
<1> DEFINE c == Cleared(s, {r})
<1>1. s \in QType /\ c \in QType /\ ListsInv(c) /\ OnlyLists(s, c, {})
  BY ClearedKeepsInv DEF ListsInv
<1>2. /\ s.resendAfter \subseteq Requests /\ s.flooded \subseteq Requests
  BY <1>1 DEF QType
<1> HIDE DEF c
<1>3. CASE Answered(s, r, result) \in {Completed(s, r, "answered"), Completed(s, r, "failed")}
  BY <1>3, CompletedKeepsInv
<1>4. CASE Answered(s, r, result) = c
  BY <1>1, <1>4
<1>5. CASE Answered(s, r, result) = [c EXCEPT !.resendAfter = s.resendAfter \cup {r}]
  <2> DEFINE n == [c EXCEPT !.resendAfter = s.resendAfter \cup {r}]
  <2>1. n \in QType
    BY <1>1, <1>2 DEF QType
  <2>2. ListsInv(n) /\ OnlyLists(c, n, {})
    BY <1>1, <2>1, SameLists DEF QType
  <2> QED
    BY <1>1, <1>5, <2>2, OnlyListsChains
<1>6. CASE Answered(s, r, result) = [c EXCEPT !.flooded = s.flooded \cup {r}]
  <2> DEFINE n == [c EXCEPT !.flooded = s.flooded \cup {r}]
  <2>1. n \in QType
    BY <1>1, <1>2 DEF QType
  <2>2. ListsInv(n) /\ OnlyLists(c, n, {})
    BY <1>1, <2>1, SameLists DEF QType
  <2> QED
    BY <1>1, <1>6, <2>2, OnlyListsChains
<1> QED
  BY <1>3, <1>4, <1>5, <1>6 DEF Answered, c
-----------------------------------------------------------------------------
(* The inductive invariant: the lists are in order, and every send task      *)
(* still to run concerns a request of its own that is in no list yet.        *)
Sends(i) == i \in 1..Len(tasks) /\ tasks[i].op = "send"
TasksInv ==
    /\ \A i : Sends(i) => q.place[tasks[i].req] = "task"
    /\ \A i, j : Sends(i) /\ Sends(j) /\ tasks[i].req = tasks[j].req => i = j

Inv == TypeOK /\ ListsInv(q) /\ TasksInv

Finished == {"answered", "failed", "cancelled"}
StaysFinished ==
    \A r \in Requests : q.place[r] \in Finished =>
        q'.place[r] = q.place[r] /\ \A m \in wire' : m.req # r

LEMMA SendsTyped ==
    ASSUME Inv
    PROVE  /\ \A i : Sends(i) => tasks[i].req \in Requests
           /\ \A i \in 1..Len(tasks) : tasks[i] \in Tasks
BY DEF Inv, TypeOK, Sends, Tasks

(* A handler that only moves requests of the lists.                          *)
LEMMA HandlerKeepsTasks ==
    ASSUME Inv, OnlyLists(q, q', wire'), UNCHANGED tasks
    PROVE  TasksInv' /\ StaysFinished
<1>1. \A i : Sends(i)' <=> Sends(i)
  BY DEF Sends
<1> QED
  BY <1>1, SendsTyped DEF Inv, TasksInv, OnlyLists, StaysFinished, Finished, Lists

(* A task added at the end that schedules no request.                        *)
LEMMA AppendKeepsTasks ==
    ASSUME Inv, OnlyLists(q, q', wire'), NEW t \in Tasks, t.op # "send",
           tasks' = Append(tasks, t)
    PROVE  TasksInv' /\ StaysFinished /\ tasks' \in Seq(Tasks)
<1>1. tasks \in Seq(Tasks)
  BY DEF Inv, TypeOK
<1>2. tasks' \in Seq(Tasks)
  BY <1>1
<1>3. \A i : Sends(i)' => Sends(i) /\ tasks'[i] = tasks[i]
  BY <1>1 DEF Sends
<1>4. StaysFinished
  BY DEF OnlyLists, StaysFinished, Finished, Lists
<1>5. \A i : Sends(i) => q'.place[tasks[i].req] = "task"
  BY SendsTyped DEF Inv, TasksInv, OnlyLists, Lists
<1>6. \A i, j : Sends(i) /\ Sends(j) /\ tasks[i].req = tasks[j].req => i = j
  BY DEF Inv, TasksInv
<1>7. \A i : Sends(i)' => q'.place[tasks'[i].req] = "task"
  BY <1>3, <1>5
<1>8. \A i, j : Sends(i)' /\ Sends(j)' /\ tasks'[i].req = tasks'[j].req => i = j
  BY <1>3, <1>6
<1> QED
  BY <1>2, <1>4, <1>7, <1>8 DEF TasksInv

(* A task that ran and only moved requests of the lists, if it was not a     *)
(* send task.                                                                *)
LEMMA TailKeepsTasks ==
    ASSUME Inv, OnlyLists(q, q', wire'), tasks # <<>>, tasks' = Tail(tasks)
    PROVE  TasksInv' /\ StaysFinished /\ tasks' \in Seq(Tasks)
<1>1. tasks \in Seq(Tasks)
  BY DEF Inv, TypeOK
<1>2. tasks' \in Seq(Tasks)
  BY <1>1
<1>3. \A i : Sends(i)' => i \in Int /\ Sends(i + 1) /\ tasks'[i] = tasks[i + 1]
  BY <1>1 DEF Sends
<1>4. StaysFinished
  BY DEF OnlyLists, StaysFinished, Finished, Lists
<1>5. \A i : Sends(i) => q'.place[tasks[i].req] = "task"
  BY SendsTyped DEF Inv, TasksInv, OnlyLists, Lists
<1>6. \A i, j : Sends(i) /\ Sends(j) /\ tasks[i].req = tasks[j].req => i = j
  BY DEF Inv, TasksInv
<1>7. ASSUME NEW i, Sends(i)' PROVE q'.place[tasks'[i].req] = "task"
  <2> DEFINE k == i + 1
  <2>1. Sends(k) /\ tasks'[i] = tasks[k]
    BY <1>3, <1>7
  <2> HIDE DEF k
  <2> QED
    BY <1>5, <2>1
<1>8. ASSUME NEW i, NEW j, Sends(i)', Sends(j)', tasks'[i].req = tasks'[j].req
      PROVE  i = j
  <2> DEFINE k == i + 1
             l == j + 1
  <2>1. /\ i \in Int /\ Sends(k) /\ tasks'[i] = tasks[k]
        /\ j \in Int /\ Sends(l) /\ tasks'[j] = tasks[l]
    BY <1>3, <1>8
  <2>2. k = l
    <3> HIDE DEF k, l
    <3> QED
      BY <1>6, <1>8, <2>1
  <2> QED
    BY <2>1, <2>2
<1> QED
  BY <1>2, <1>4, <1>7, <1>8 DEF TasksInv

(* Where the request record satisfies the invariant of the lists, the        *)
(* variables around it make the difference to Inv.                           *)
LEMMA Assemble ==
    ASSUME ListsInv(q'), TasksInv', (tasks \in Seq(Tasks))', (conn \in [Kinds -> Nat])',
           (lastToken \in Nat)', (network \in BOOLEAN)', (loggedIn \in BOOLEAN)',
           (keyed \subseteq Kinds)'
    PROVE  Inv'
BY DEF Inv, TypeOK, ListsInv, TokensReset

LEMMA SendKeepsInv ==
    ASSUME Inv, NEW r \in Requests, Send(r)
    PROVE  Inv' /\ StaysFinished
<1> DEFINE n == [q EXCEPT !.place[r] = "task"]
           t == [op |-> "send", req |-> r]
<1>1. q \in QType /\ tasks \in Seq(Tasks) /\ ListsInv(q) /\ q.place[r] = "unsent"
  BY DEF Inv, TypeOK, Send
<1>2. q' = n /\ tasks' = Append(tasks, t) /\ wire' = {}
      /\ UNCHANGED <<conn, lastToken, network, keyed, loggedIn>>
  BY DEF Send
<1>3. n \in QType
  BY <1>1 DEF QType, Places
<1>4. /\ n.place = [q.place EXCEPT ![r] = "task"] /\ n.pos = q.pos /\ n.lastPos = q.lastPos
      /\ n.msgId = q.msgId /\ n.lastMsgId = q.lastMsgId /\ n.token = q.token
      /\ n.callbacks = q.callbacks /\ q.place \in [Requests -> Places]
  BY <1>1 DEF QType
<1>5. ListsInv(q')
  BY <1>1, <1>2, <1>3, <1>4 DEF ListsInv, Ordered, Lists, Identified, In, TokensReset, CalledOnce
<1>6. tasks' \in Seq(Tasks)
  BY <1>1, <1>2 DEF Tasks
<1>7. TasksInv'
  <2>1. /\ Len(tasks') = Len(tasks) + 1 /\ tasks'[Len(tasks) + 1] = t
        /\ \A i \in 1..Len(tasks) : tasks'[i] = tasks[i]
    BY <1>1, <1>2
  <2>2. \A i : Sends(i)' => \/ Sends(i) /\ tasks'[i] = tasks[i]
                            \/ i = Len(tasks) + 1 /\ tasks'[i].req = r
    BY <1>1, <2>1 DEF Sends
  <2>3. \A i : Sends(i) => tasks[i].req \in Requests /\ tasks[i].req # r
                           /\ q.place[tasks[i].req] = "task"
    BY <1>1, SendsTyped DEF Inv, TasksInv
  <2>4. \A u \in Requests : q'.place[u] = IF u = r THEN "task" ELSE q.place[u]
    BY <1>2, <1>4
  <2>5. \A i, j : Sends(i) /\ Sends(j) /\ tasks[i].req = tasks[j].req => i = j
    BY DEF Inv, TasksInv
  <2> QED
    BY <2>2, <2>3, <2>4, <2>5 DEF TasksInv
<1>8. StaysFinished
  BY <1>1, <1>2, <1>4 DEF StaysFinished, Finished
<1> QED
  BY <1>2, <1>5, <1>6, <1>7, <1>8, Assemble DEF Inv, TypeOK
LEMMA CancelKeepsInv ==
    ASSUME Inv, \/ \E r \in Requests : Cancel(r)
                \/ CleanUp \/ LogIn
    PROVE  Inv' /\ StaysFinished
<1>1. PICK t \in Tasks : /\ t.op # "send" /\ tasks' = Append(tasks, t)
                         /\ UNCHANGED <<q, conn, lastToken, network, keyed, loggedIn>>
                         /\ wire' = {}
  <2>1. CASE \E r \in Requests : Cancel(r)
    <3>1. PICK r \in Requests : Cancel(r)
      BY <2>1
    <3>2. [op |-> "cancel", req |-> r] \in Tasks
      BY DEF Tasks
    <3> QED
      BY <3>1, <3>2 DEF Cancel
  <2>2. CASE CleanUp
    BY <2>2 DEF CleanUp, Tasks
  <2>3. CASE LogIn
    BY <2>3 DEF LogIn, Tasks
  <2> QED
    BY <2>1, <2>2, <2>3
<1>2. ListsInv(q') /\ OnlyLists(q, q', wire')
  BY <1>1 DEF Inv, OnlyLists
<1> QED
  BY <1>1, <1>2, AppendKeepsTasks, Assemble DEF Inv, TypeOK

LEMMA RunSendKeepsInv ==
    ASSUME Inv, RunSend
    PROVE  Inv' /\ StaysFinished
<1> DEFINE r == tasks[1].req
           s == Enqueue(q, r)
<1>1. tasks \in Seq(Tasks) /\ tasks # <<>> /\ Head(tasks) = tasks[1] /\ Sends(1)
  BY DEF Inv, TypeOK, RunSend, NextTask, Sends
<1>2. r \in Requests /\ q.place[r] = "task"
  BY <1>1, SendsTyped DEF Inv, TasksInv
<1>3. /\ tasks' = Tail(tasks)
      /\ UNCHANGED <<conn, lastToken, network, keyed, loggedIn>>
      /\ ProcessRequestQueue(s, Env, {}) \/ (q' = s /\ wire' = {})
  BY <1>1 DEF RunSend
<1>4. /\ ListsInv(s)
      /\ \A t \in Requests : s.place[t] = IF t = r THEN "queue" ELSE q.place[t]
  BY <1>2, EnqueueKeepsInv DEF Inv
<1> HIDE DEF s, r
<1>5. ListsInv(q') /\ OnlyLists(s, q', wire')
  <2>1. CASE ProcessRequestQueue(s, Env, {})
    <3>1. Env.conn \in [Kinds -> Nat]
      BY DEF Env, Inv, TypeOK
    <3> QED
      BY <1>4, <2>1, <3>1, ProcessKeepsInv
  <2>2. CASE q' = s /\ wire' = {}
    BY <1>4, <2>2 DEF OnlyLists
  <2> QED
    BY <1>3, <2>1, <2>2
<1>6. \A t \in Requests \ {r} : q.place[t] \notin Lists =>
          q'.place[t] = q.place[t] /\ \A m \in wire' : m.req # t
  BY <1>4, <1>5 DEF OnlyLists
<1>7. StaysFinished
  BY <1>2, <1>6 DEF StaysFinished, Finished, Lists
<1>8. tasks' \in Seq(Tasks)
  BY <1>1, <1>3
<1>9. \A i : Sends(i)' => i \in Nat /\ i # 0 /\ Sends(i + 1) /\ tasks'[i] = tasks[i + 1]
  BY <1>1, <1>3 DEF Sends
<1>10. \A i, j : Sends(i) /\ Sends(j) /\ tasks[i].req = tasks[j].req => i = j
  BY DEF Inv, TasksInv
<1>11. \A i : Sends(i) /\ i # 1 => q'.place[tasks[i].req] = "task"
  <2>1. \A i : Sends(i) /\ i # 1 => tasks[i].req # r
    BY <1>1, <1>10 DEF r
  <2> QED
    BY <1>6, <2>1, SendsTyped DEF Inv, TasksInv, Lists
<1>12. TasksInv'
  <2>1. ASSUME NEW i, Sends(i)' PROVE q'.place[tasks'[i].req] = "task"
    <3> DEFINE k == i + 1
    <3>1. Sends(k) /\ tasks'[i] = tasks[k] /\ k # 1
      BY <1>9, <2>1
    <3> HIDE DEF k
    <3> QED
      BY <1>11, <3>1
  <2>2. ASSUME NEW i, NEW j, Sends(i)', Sends(j)', tasks'[i].req = tasks'[j].req
        PROVE  i = j
    <3> DEFINE k == i + 1
               l == j + 1
    <3>1. /\ i \in Nat /\ Sends(k) /\ tasks'[i] = tasks[k]
          /\ j \in Nat /\ Sends(l) /\ tasks'[j] = tasks[l]
      BY <1>9, <2>2
    <3>2. k = l
      <4> HIDE DEF k, l
      <4> QED
        BY <1>10, <2>2, <3>1
    <3> QED
      BY <3>1, <3>2
  <2> QED
    BY <2>1, <2>2 DEF TasksInv
<1> QED
  BY <1>3, <1>5, <1>7, <1>8, <1>12, Assemble DEF Inv, TypeOK

LEMMA DroppedKeepsInv ==
    ASSUME NEW s, ListsInv(s), NEW r \in Requests, s.place[r] \in Lists
    PROVE  /\ ListsInv(Dropped(s, r)) /\ OnlyLists(s, Dropped(s, r), {})
           /\ Dropped(s, r).place = [s.place EXCEPT ![r] = "cancelled"]
<1> DEFINE n == Dropped(s, r)
<1>1. s \in QType /\ s.place \in [Requests -> Places]
  BY DEF ListsInv, QType
<1>2. n \in QType
  BY <1>1 DEF Dropped, QType, Places
<1>3. /\ n.place = [s.place EXCEPT ![r] = "cancelled"] /\ n.pos = s.pos /\ n.lastPos = s.lastPos
      /\ n.msgId = s.msgId /\ n.lastMsgId = s.lastMsgId /\ n.token = s.token
      /\ n.callbacks = s.callbacks
  BY <1>1 DEF Dropped, QType
<1> HIDE DEF n
<1>4. Ordered(n) /\ Identified(n) /\ TokensReset(n)
  BY <1>1, <1>3 DEF ListsInv, Ordered, Lists, Identified, In, TokensReset
<1>5. CalledOnce(n)
  BY <1>1, <1>3 DEF ListsInv, CalledOnce, Lists
<1>6. OnlyLists(s, n, {})
  BY <1>1, <1>3 DEF OnlyLists
<1> QED
  BY <1>2, <1>3, <1>4, <1>5, <1>6 DEF ListsInv, n

(* A request of the library's own is put on its way.                         *)
LEMMA ScheduledKeepsInv ==
    ASSUME NEW s, ListsInv(s), NEW r \in Requests, s.place[r] = "unsent"
    PROVE  /\ ListsInv([s EXCEPT !.place[r] = "task"])
           /\ [s EXCEPT !.place[r] = "task"].place = [s.place EXCEPT ![r] = "task"]
<1> DEFINE n == [s EXCEPT !.place[r] = "task"]
<1>1. s \in QType
  BY DEF ListsInv
<1>2. n \in QType
  BY <1>1 DEF QType, Places
<1>3. /\ n.place = [s.place EXCEPT ![r] = "task"] /\ n.pos = s.pos /\ n.lastPos = s.lastPos
      /\ n.msgId = s.msgId /\ n.lastMsgId = s.lastMsgId /\ n.token = s.token
      /\ n.callbacks = s.callbacks /\ s.place \in [Requests -> Places]
  BY <1>1 DEF QType
<1> HIDE DEF n
<1>4. ListsInv(n)
  BY <1>2, <1>3 DEF ListsInv, Ordered, Lists, Identified, In, TokensReset, CalledOnce
<1> QED
  BY <1>3, <1>4 DEF n
(* The task that asks the server to drop the answer of a cancelled request.  *)
LEMMA DropAnswerKeepsInv ==
    ASSUME Inv, tasks # <<>>, NEW r \in Requests, q.place[r] = "running",
           NEW d \in Requests, q.place[d] = "unsent",
           tasks' = Append(Tail(tasks), [op |-> "send", req |-> d]),
           q' = [Dropped(q, r) EXCEPT !.place[d] = "task"], wire' = {}
    PROVE  ListsInv(q') /\ TasksInv' /\ StaysFinished /\ tasks' \in Seq(Tasks)
<1> DEFINE n == Dropped(q, r)
           t == [op |-> "send", req |-> d]
<1>1. tasks \in Seq(Tasks) /\ ListsInv(q) /\ q \in QType
  BY DEF Inv, TypeOK
<1>2. ListsInv(n) /\ n.place = [q.place EXCEPT ![r] = "cancelled"]
  BY <1>1, DroppedKeepsInv DEF Lists
<1>3. q.place \in [Requests -> Places]
  BY <1>1 DEF QType
<1>4. n.place[d] = "unsent"
  BY <1>2, <1>3
<1>5. ListsInv(q') /\ q'.place = [n.place EXCEPT ![d] = "task"]
  BY <1>2, <1>4, ScheduledKeepsInv
<1>6. \A u \in Requests : q'.place[u] = IF u = d THEN "task"
                                        ELSE IF u = r THEN "cancelled" ELSE q.place[u]
  BY <1>2, <1>3, <1>5
<1>7. StaysFinished
  BY <1>6 DEF StaysFinished, Finished
<1>8. tasks' \in Seq(Tasks)
  BY <1>1 DEF Tasks
<1>9. \A i : Sends(i)' => \/ i \in Nat /\ Sends(i + 1) /\ tasks'[i] = tasks[i + 1]
                          \/ i = Len(tasks) /\ tasks'[i] = t
  BY <1>1 DEF Sends
<1>10. \A i, j : Sends(i) /\ Sends(j) /\ tasks[i].req = tasks[j].req => i = j
  BY DEF Inv, TasksInv
<1>11. \A i : Sends(i) => q'.place[tasks[i].req] = "task" /\ tasks[i].req # d
  BY <1>6, SendsTyped DEF Inv, TasksInv
<1>12. q'.place[d] = "task" /\ t.req = d
  BY <1>6
<1> HIDE DEF t
<1>13. ASSUME NEW i, Sends(i)' PROVE q'.place[tasks'[i].req] = "task"
  <2> DEFINE k == i + 1
  <2>1. (Sends(k) /\ tasks'[i] = tasks[k]) \/ tasks'[i] = t
    BY <1>9, <1>13
  <2> HIDE DEF k
  <2> QED
    BY <1>11, <1>12, <2>1
<1>14. ASSUME NEW i, NEW j, Sends(i)', Sends(j)', tasks'[i].req = tasks'[j].req
       PROVE  i = j
  <2> DEFINE k == i + 1
             l == j + 1
  <2>1. \/ i \in Nat /\ Sends(k) /\ tasks'[i] = tasks[k]
        \/ i = Len(tasks) /\ tasks'[i] = t
    BY <1>9, <1>14
  <2>2. \/ j \in Nat /\ Sends(l) /\ tasks'[j] = tasks[l]
        \/ j = Len(tasks) /\ tasks'[j] = t
    BY <1>9, <1>14
  <2>3. i = j \/ (i \in Nat /\ j \in Nat /\ k = l)
    <3> HIDE DEF k, l
    <3> QED
      BY <1>10, <1>11, <1>12, <1>14, <2>1, <2>2
  <2> QED
    BY <2>3
<1> QED
  BY <1>5, <1>7, <1>8, <1>13, <1>14 DEF TasksInv

LEMMA RunCancelKeepsInv ==
    ASSUME Inv, RunCancel
    PROVE  Inv' /\ StaysFinished
<1> DEFINE r == Head(tasks).req
<1>1. tasks \in Seq(Tasks) /\ tasks # <<>> /\ Head(tasks).op = "cancel" /\ ListsInv(q)
  BY DEF Inv, TypeOK, RunCancel, NextTask
<1>2. r \in Requests
  BY <1>1 DEF Tasks
<1>3. wire' = {} /\ UNCHANGED <<conn, lastToken, network, keyed, loggedIn>>
  BY DEF RunCancel
<1>4. CASE q.place[r] \in Lists /\ tasks' = Tail(tasks) /\ q' = Dropped(q, r)
  <2>1. ListsInv(q') /\ OnlyLists(q, q', wire')
    BY <1>1, <1>2, <1>3, <1>4, DroppedKeepsInv
  <2> QED
    BY <1>1, <1>3, <1>4, <2>1, TailKeepsTasks, Assemble DEF Inv, TypeOK
<1>5. CASE /\ q.place[r] = "running"
           /\ \E d \in Internal :
                /\ q.place[d] = "unsent"
                /\ tasks' = Append(Tail(tasks), [op |-> "send", req |-> d])
                /\ q' = [Dropped(q, r) EXCEPT !.place[d] = "task"]
  <2>1. ListsInv(q') /\ TasksInv' /\ StaysFinished /\ tasks' \in Seq(Tasks)
    BY <1>1, <1>2, <1>3, <1>5, DropAnswerKeepsInv, RequestAssumption
  <2> QED
    BY <1>3, <2>1, Assemble DEF Inv, TypeOK
<1>6. CASE tasks' = Tail(tasks) /\ UNCHANGED q
  <2>1. ListsInv(q') /\ OnlyLists(q, q', wire')
    BY <1>1, <1>3, <1>6 DEF OnlyLists
  <2> QED
    BY <1>1, <1>3, <1>6, <2>1, TailKeepsTasks, Assemble DEF Inv, TypeOK
<1> QED
  BY <1>4, <1>5, <1>6 DEF RunCancel, Lists

LEMMA RunCleanUpKeepsInv ==
    ASSUME Inv, RunCleanUp
    PROVE  Inv' /\ StaysFinished
<1> DEFINE ended == (In(q, "queue") \cup In(q, "running")) \ WithoutLogin
           place == [r \in Requests |-> IF r \in ended THEN "failed" ELSE q.place[r]]
           calls == [r \in Requests |-> q.callbacks[r] + (IF r \in ended THEN 1 ELSE 0)]
<1>1. tasks \in Seq(Tasks) /\ tasks # <<>> /\ ListsInv(q) /\ q \in QType
  BY DEF Inv, TypeOK, RunCleanUp, NextTask
<1>2. /\ tasks' = Tail(tasks) /\ wire' = {} /\ loggedIn' = FALSE /\ keyed' \in {keyed, {}}
      /\ UNCHANGED <<conn, lastToken, network>>
      /\ q' = [q EXCEPT !.place = place, !.callbacks = calls]
  BY DEF RunCleanUp
<1>3. q.place \in [Requests -> Places] /\ q.callbacks \in [Requests -> Nat]
  BY <1>1 DEF QType
<1>4. place \in [Requests -> Places] /\ calls \in [Requests -> Nat]
  BY <1>3 DEF Places
<1>5. /\ \A r \in Requests : place[r] = IF r \in ended THEN "failed" ELSE q.place[r]
      /\ \A r \in Requests : calls[r] = q.callbacks[r] + (IF r \in ended THEN 1 ELSE 0)
      /\ \A r \in ended : q.place[r] \in Lists
  BY DEF In, Lists
<1> HIDE DEF place, calls, ended
<1>6. q' \in QType
  BY <1>1, <1>2, <1>4 DEF QType
<1>7. /\ q'.place = place /\ q'.callbacks = calls /\ q'.pos = q.pos /\ q'.lastPos = q.lastPos
      /\ q'.msgId = q.msgId /\ q'.lastMsgId = q.lastMsgId /\ q'.token = q.token
  BY <1>1, <1>2 DEF QType
<1>8. Ordered(q') /\ Identified(q') /\ TokensReset(q')
  BY <1>1, <1>5, <1>7 DEF ListsInv, Ordered, Lists, Identified, In, TokensReset
<1>9. CalledOnce(q')
  BY <1>1, <1>3, <1>5, <1>7 DEF ListsInv, CalledOnce, Lists
<1>10. OnlyLists(q, q', wire')
  BY <1>2, <1>5, <1>7 DEF OnlyLists
<1>11. ListsInv(q')
  BY <1>6, <1>8, <1>9 DEF ListsInv
<1>12. (loggedIn \in BOOLEAN)' /\ (keyed \subseteq Kinds)'
  BY <1>2 DEF Inv, TypeOK
<1> QED
  BY <1>1, <1>2, <1>10, <1>11, <1>12, TailKeepsTasks, Assemble DEF Inv, TypeOK

LEMMA RunLogInKeepsInv ==
    ASSUME Inv, RunLogIn
    PROVE  Inv' /\ StaysFinished
<1>1. /\ tasks # <<>> /\ tasks' = Tail(tasks) /\ wire' = {} /\ loggedIn' = TRUE
      /\ UNCHANGED <<q, conn, lastToken, network, keyed>>
  BY DEF RunLogIn, NextTask
<1>2. ListsInv(q') /\ OnlyLists(q, q', wire')
  BY <1>1 DEF Inv, OnlyLists
<1> QED
  BY <1>1, <1>2, TailKeepsTasks, Assemble DEF Inv, TypeOK
-----------------------------------------------------------------------------
(* Handlers that do not touch the tasks: connections and server messages.    *)
LEMMA HandlerKeepsInv ==
    ASSUME Inv, ListsInv(q'), OnlyLists(q, q', wire'), UNCHANGED tasks,
           (conn \in [Kinds -> Nat])', (lastToken \in Nat)', (network \in BOOLEAN)',
           (loggedIn \in BOOLEAN)', (keyed \subseteq Kinds)'
    PROVE  Inv' /\ StaysFinished
BY HandlerKeepsTasks, Assemble DEF Inv, TypeOK

(* The part of a handler before processRequestQueue led to s.                *)
LEMMA ThenProcess ==
    ASSUME NEW s, ListsInv(s), OnlyLists(q, s, {}), NEW env, env.conn \in [Kinds -> Nat],
           NEW force,
           \/ ProcessRequestQueue(s, env, force)
           \/ q' = s /\ wire' = {}
    PROVE  ListsInv(q') /\ OnlyLists(q, q', wire')
BY ProcessKeepsInv, OnlyListsChains

LEMMA EnvTyped ==
    ASSUME Inv
    PROVE  /\ Env.conn \in [Kinds -> Nat]
           /\ \A k : [Env EXCEPT !.keyed = k].conn \in [Kinds -> Nat]
           /\ \A c \in [Kinds -> Nat] : [Env EXCEPT !.conn = c].conn \in [Kinds -> Nat]
           /\ ListsInv(q) /\ OnlyLists(q, q, {})
BY DEF Inv, TypeOK, Env, OnlyLists

LEMMA ConnectionKeepsInv ==
    ASSUME Inv, NEW k \in Kinds,
           ConnectionConnected(k) \/ ConnectionClosed(k) \/ AuthKeyLost(k)
    PROVE  Inv' /\ StaysFinished
<1>1. CASE ConnectionConnected(k)
  <2>1. UNCHANGED <<tasks, network, keyed, loggedIn>>
    BY <1>1 DEF ConnectionConnected
  <2>2. (conn \in [Kinds -> Nat])' /\ (lastToken \in Nat)'
    BY <1>1 DEF ConnectionConnected, Inv, TypeOK
  <2>3. \/ ProcessRequestQueue(q, [Env EXCEPT !.conn = conn'], {k})
        \/ q' = q /\ wire' = {}
    BY <1>1 DEF ConnectionConnected
  <2>4. ListsInv(q') /\ OnlyLists(q, q', wire')
    BY <2>2, <2>3, EnvTyped, ThenProcess
  <2> QED
    BY <2>1, <2>2, <2>4, HandlerKeepsInv DEF Inv, TypeOK
<1>2. CASE ConnectionClosed(k) \/ AuthKeyLost(k)
  <2>1. /\ UNCHANGED <<q, tasks, lastToken, network, loggedIn>> /\ wire' = {}
        /\ (conn \in [Kinds -> Nat])' /\ (keyed \subseteq Kinds)'
    BY <1>2 DEF ConnectionClosed, AuthKeyLost, Inv, TypeOK
  <2>2. ListsInv(q') /\ OnlyLists(q, q', wire')
    BY <2>1, EnvTyped
  <2> QED
    BY <2>1, <2>2, HandlerKeepsInv DEF Inv, TypeOK
<1> QED
  BY <1>1, <1>2

LEMMA NetworkKeepsInv ==
    ASSUME Inv, SetNetworkAvailable
    PROVE  Inv' /\ StaysFinished
<1>1. /\ UNCHANGED <<q, tasks, conn, lastToken, keyed, loggedIn>> /\ wire' = {}
      /\ network' = ~network
  BY DEF SetNetworkAvailable
<1>2. (network \in BOOLEAN)'
  <2>1. network \in BOOLEAN
    BY DEF Inv, TypeOK
  <2> QED
    BY <1>1, <2>1, Zenon
<1>3. ListsInv(q') /\ OnlyLists(q, q', wire')
  BY <1>1, EnvTyped
<1> QED
  BY <1>1, <1>2, <1>3, HandlerKeepsInv DEF Inv, TypeOK

LEMMA SelectKeepsInv ==
    ASSUME Inv, Select
    PROVE  Inv' /\ StaysFinished
<1>1. UNCHANGED <<tasks, conn, lastToken, network, keyed, loggedIn>>
  BY DEF Select
<1>2. ListsInv(q') /\ OnlyLists(q, q', wire')
  BY EnvTyped, ThenProcess DEF Select
<1> QED
  BY <1>1, <1>2, HandlerKeepsInv DEF Inv, TypeOK

LEMMA RpcResultKeepsInv ==
    ASSUME Inv, NEW r \in Requests, NEW result, RpcResult(r, result)
    PROVE  Inv' /\ StaysFinished
<1> DEFINE f == Forget(q, q.msgId[r])
           s == Answered(f, r, result)
<1>1. /\ q.place[r] = "running" /\ UNCHANGED <<tasks, conn, lastToken, network, loggedIn>>
      /\ ProcessRequestQueue(s, [Env EXCEPT !.keyed = keyed'], {})
      /\ keyed' \subseteq keyed
  BY DEF RpcResult
<1>2. ListsInv(f) /\ OnlyLists(q, f, {}) /\ f.place = q.place
  BY EnvTyped, ForgetKeepsInv
<1> HIDE DEF f
<1>3. ListsInv(s) /\ OnlyLists(f, s, {})
  BY <1>1, <1>2, AnsweredKeepsInv
<1> HIDE DEF s
<1>4. OnlyLists(q, s, {})
  BY <1>2, <1>3, OnlyListsChains
<1>5. ListsInv(q') /\ OnlyLists(q, q', wire')
  BY <1>1, <1>3, <1>4, EnvTyped, ThenProcess
<1>6. (keyed \subseteq Kinds)'
  BY <1>1 DEF Inv, TypeOK
<1> QED
  BY <1>1, <1>5, <1>6, HandlerKeepsInv DEF Inv, TypeOK

LEMMA UnauthorizedKeepsInv ==
    ASSUME Inv, NEW r \in Requests, Unauthorized(r)
    PROVE  Inv' /\ StaysFinished
<1> DEFINE f == Forget(q, q.msgId[r])
           s == Completed(f, r, "failed")
           t == [op |-> "cleanUp"]
<1>1. /\ q.place[r] = "running" /\ loggedIn' = FALSE
      /\ tasks' = Append(tasks, t) /\ UNCHANGED <<conn, lastToken, network, keyed>>
      /\ ProcessRequestQueue(s, Env, {})
  BY DEF Unauthorized
<1>2. ListsInv(f) /\ OnlyLists(q, f, {}) /\ f.place = q.place
  BY EnvTyped, ForgetKeepsInv
<1> HIDE DEF f
<1>3. ListsInv(s) /\ OnlyLists(f, s, {})
  BY <1>1, <1>2, CompletedKeepsInv
<1> HIDE DEF s
<1>4. OnlyLists(q, s, {})
  BY <1>2, <1>3, OnlyListsChains
<1>5. ListsInv(q') /\ OnlyLists(q, q', wire')
  BY <1>1, <1>3, <1>4, EnvTyped, ThenProcess
<1>6. t \in Tasks /\ t.op # "send"
  BY DEF Tasks
<1> HIDE DEF t
<1>7. TasksInv' /\ StaysFinished /\ tasks' \in Seq(Tasks)
  BY <1>1, <1>5, <1>6, AppendKeepsTasks
<1>8. (loggedIn \in BOOLEAN)'
  BY <1>1
<1> QED
  BY <1>1, <1>5, <1>7, <1>8, Assemble DEF Inv, TypeOK

LEMMA StaleResultKeepsInv ==
    ASSUME Inv, NEW id, StaleResult(id)
    PROVE  Inv' /\ StaysFinished
<1>1. /\ UNCHANGED <<tasks, conn, lastToken, network, keyed, loggedIn>>
      /\ ProcessRequestQueue(Forget(q, id), Env, {})
  BY DEF StaleResult
<1>2. ListsInv(q') /\ OnlyLists(q, q', wire')
  BY <1>1, EnvTyped, ForgetKeepsInv, ThenProcess
<1> QED
  BY <1>1, <1>2, HandlerKeepsInv DEF Inv, TypeOK

(* Requests cleared outside processRequestQueue.                             *)
LEMMA ClearedOnlyKeepsInv ==
    ASSUME Inv, NEW c, q' = Cleared(q, c), wire' = {},
           UNCHANGED <<tasks, conn, lastToken, network, keyed, loggedIn>>
    PROVE  Inv' /\ StaysFinished
<1>1. ListsInv(q') /\ OnlyLists(q, q', wire')
  BY EnvTyped, ClearedKeepsInv
<1> QED
  BY <1>1, HandlerKeepsInv DEF Inv, TypeOK

LEMMA BadMsgKeepsInv ==
    ASSUME Inv, BadMsgNotification
    PROVE  Inv' /\ StaysFinished
<1>1. /\ UNCHANGED <<tasks, conn, lastToken, network, keyed, loggedIn>> /\ wire' = {}
      /\ \/ \E r : q' = Cleared(q, {r})
         \/ \E id \in {0, q.lastMsgId} :
               q' = [Cleared(q, In(q, "running")) EXCEPT !.lastMsgId = id]
  BY DEF BadMsgNotification
<1>2. CASE \E r : q' = Cleared(q, {r})
  BY <1>1, <1>2, ClearedOnlyKeepsInv
<1>3. ASSUME NEW id \in {0, q.lastMsgId},
             q' = [Cleared(q, In(q, "running")) EXCEPT !.lastMsgId = id]
      PROVE  Inv' /\ StaysFinished
  <2> DEFINE c == Cleared(q, In(q, "running"))
  <2>1. ListsInv(c) /\ OnlyLists(q, c, {}) /\ q \in QType
    BY EnvTyped, ClearedKeepsInv DEF ListsInv
  <2>2. \A r \in In(c, "running") : c.msgId[r] = 0
    BY <2>1 DEF Cleared, In, QType
  <2> HIDE DEF c
  <2>3. c \in QType /\ id \in Nat
    BY <2>1 DEF ListsInv, QType
  <2>4. q' \in QType
    BY <1>3, <2>3 DEF QType, c
  <2>5. /\ q'.place = c.place /\ q'.pos = c.pos /\ q'.lastPos = c.lastPos /\ q'.msgId = c.msgId
        /\ q'.token = c.token /\ q'.callbacks = c.callbacks /\ q'.lastMsgId = id
    BY <1>3, <2>3 DEF QType, c
  <2>6. Identified(q')
    BY <2>2, <2>3, <2>5 DEF Identified, In
  <2>7. ListsInv(q') /\ OnlyLists(q, q', wire')
    BY <1>1, <2>1, <2>4, <2>5, <2>6 DEF ListsInv, Ordered, TokensReset, CalledOnce, OnlyLists
  <2> QED
    BY <1>1, <2>7, HandlerKeepsInv DEF Inv, TypeOK
<1> QED
  BY <1>1, <1>2, <1>3

LEMMA BadServerSaltKeepsInv ==
    ASSUME Inv, BadServerSalt
    PROVE  Inv' /\ StaysFinished
<1> DEFINE downloads == In(q, "running") \ Generic
           retries == [r \in Requests |-> IF r \in downloads THEN 0 ELSE q.retries[r]]
           failed == q.saltFailed \cup downloads
           s == [q EXCEPT !.retries = retries, !.saltFailed = failed]
<1>1. /\ UNCHANGED <<tasks, conn, lastToken, network, keyed, loggedIn>>
      /\ ProcessRequestQueue(s, Env, Kinds) \/ (q' = s /\ wire' = {})
  BY DEF BadServerSalt
<1>2. q \in QType
  BY DEF Inv, TypeOK
<1>3. retries \in [Requests -> Nat] /\ failed \subseteq Requests
  BY <1>2 DEF QType, In
<1> HIDE DEF retries, failed
<1>4. s \in QType
  BY <1>2, <1>3 DEF QType
<1>5. ListsInv(s) /\ OnlyLists(q, s, {})
  BY <1>2, <1>4, EnvTyped, SameLists DEF QType
<1>6. ListsInv(q') /\ OnlyLists(q, q', wire')
  <2> HIDE DEF s
  <2> QED
    BY <1>1, <1>5, EnvTyped, ThenProcess
<1> QED
  BY <1>1, <1>6, HandlerKeepsInv DEF Inv, TypeOK

LEMMA HandshakeKeepsInv ==
    ASSUME Inv, NEW k \in Kinds, HandshakeComplete(k)
    PROVE  Inv' /\ StaysFinished
<1> DEFINE c == {r \in In(q, "running") : Kind(r) = k}
<1>1. /\ UNCHANGED <<tasks, conn, lastToken, network, loggedIn>>
      /\ (keyed \subseteq Kinds)'
      /\ ProcessRequestQueue(Cleared(q, c), [Env EXCEPT !.keyed = keyed'], Kinds)
  BY DEF HandshakeComplete, Inv, TypeOK
<1> HIDE DEF c
<1>2. ListsInv(q') /\ OnlyLists(q, q', wire')
  BY <1>1, EnvTyped, ClearedKeepsInv, ThenProcess
<1> QED
  BY <1>1, <1>2, HandlerKeepsInv DEF Inv, TypeOK

-----------------------------------------------------------------------------
LEMMA InvStep ==
    ASSUME Inv, [Next]_vars
    PROVE  Inv' /\ (StaysFinished \/ UNCHANGED vars)
<1>1. CASE Application
  BY <1>1, SendKeepsInv, CancelKeepsInv DEF Application
<1>2. CASE NetworkThread
  BY <1>2, RunSendKeepsInv, RunCancelKeepsInv, RunCleanUpKeepsInv, RunLogInKeepsInv,
     NetworkKeepsInv, ConnectionKeepsInv, SelectKeepsInv DEF NetworkThread
<1>3. CASE Server
  <2>1. CASE \E id \in 1..q.lastMsgId, k \in Kinds : NewSessionCreated(id, k)
    BY <2>1, ClearedOnlyKeepsInv DEF NewSessionCreated
  <2> QED
    BY <1>3, <2>1, RpcResultKeepsInv, UnauthorizedKeepsInv, StaleResultKeepsInv,
       BadMsgKeepsInv, BadServerSaltKeepsInv, ConnectionKeepsInv, HandshakeKeepsInv DEF Server
<1>4. CASE UNCHANGED vars
  BY <1>4 DEF vars, Inv, TypeOK, ListsInv, Ordered, Identified, TokensReset, CalledOnce, In,
     TasksInv, Sends
<1> QED
  BY <1>1, <1>2, <1>3, <1>4 DEF Next

LEMMA InvInit == Init => Inv
<1> SUFFICES ASSUME Init PROVE Inv
  OBVIOUS
<1>1. q \in QType
  BY DEF Init, QType, Places
<1>2. /\ \A r \in Requests : q.place[r] = "unsent" /\ q.msgId[r] = 0 /\ q.token[r] = 0
                             /\ q.callbacks[r] = 0
      /\ tasks = <<>>
  BY DEF Init
<1>3. ListsInv(q)
  BY <1>1, <1>2 DEF ListsInv, Ordered, Lists, Identified, In, TokensReset, CalledOnce
<1>4. TasksInv
  BY <1>2 DEF TasksInv, Sends
<1>5. TypeOK
  BY <1>1, <1>2 DEF Init, TypeOK
<1> QED
  BY <1>3, <1>4, <1>5 DEF Inv

(* The types of the state hold, and a request that needs a new identifier is *)
(* not counted as sent on any connection.                                    *)
THEOREM TypeCorrect == Spec => []TypeOK
<1>1. Inv => TypeOK
  BY DEF Inv
<1> QED
  BY <1>1, InvInit, InvStep, PTL DEF Spec

(* Every request that ends with an answer or an error has had its callback   *)
(* called exactly once, whatever the server sends and the order of tasks.    *)
THEOREM CallbackCalledOnce == Spec => []CallbackOnce
<1>1. Inv => CallbackOnce
  BY DEF Inv, ListsInv, CalledOnce, CallbackOnce
<1> QED
  BY <1>1, InvInit, InvStep, PTL DEF Spec

(* An answer can only reach the request it was sent for: the identifiers of  *)
(* running requests differ, even after the clock went back.                  *)
THEOREM IdsUnique == Spec => []IdsNotShared
<1>1. Inv => IdsNotShared
  BY DEF Inv, ListsInv, Identified, IdsNotShared
<1> QED
  BY <1>1, InvInit, InvStep, PTL DEF Spec

(* No message, task or pass of the queue revives a request that has ended.   *)
THEOREM NothingRevived == Spec => EndedIsFinal
<1>1. Spec => []Inv
  BY InvInit, InvStep, PTL DEF Spec
<1>2. Inv /\ [Next]_vars => [StaysFinished]_vars
  BY InvStep
<1>3. StaysFinished <=>
        \A r \in Requests :
         q.place[r] \in {"answered", "failed", "cancelled"} =>
           /\ q'.place[r] = q.place[r]
           /\ \A m \in wire' : m.req # r
  BY DEF StaysFinished, Finished
<1> QED
  BY <1>1, <1>2, <1>3, PTL DEF Spec, EndedIsFinal

-----------------------------------------------------------------------------
(* The order of InvokeAfter requests, the limits on running requests and the *)
(* number of tries, on top of the invariant above.                           *)

(* The invariant, in named parts.                                            *)

(* ResentAfterOthers.                                                        *)
HeldBackWait(s) ==
    \A r \in In(s, "running") \cap s.resendAfter :
        s.msgId[r] # 0 => Ahead(s, r) \cap InvokeAfter = {}

(* LimitsRespected: who is not to be resent after others counts.             *)
Counting(s, k) == {r \in In(s, "running") \ s.resendAfter : Kind(r) = k}
WithinLimits(s) == \A k \in Kinds : Cardinality(Counting(s, k)) <= Limit(k)

(* RetriesBounded, with what has not run yet and what a bad salt has reset.  *)
Tried(s) ==
    \A r \in Requests \ Generic :
        /\ s.place[r] \in {"unsent", "task", "queue"} \/ r \in s.saltFailed => s.retries[r] = 0
        /\ s.place[r] = "running" => s.retries[r] < RetryMax

(* The flag RequestFlagResendAfter is given to all InvokeAfter requests of   *)
(* the queue at once: those without it have come later.                      *)
MarkedFirst(s) ==
    /\ \A r \in s.resendAfter : s.place[r] \notin {"unsent", "task"}
    /\ \A r \in (In(s, "queue") \cap InvokeAfter) \ s.resendAfter :
          \A t \in In(s, "queue") \cap InvokeAfter \cap s.resendAfter : s.pos[t] < s.pos[r]

(* The newest chained message is no newer than the newest message, unless    *)
(* the clock may be put back.                                                *)
ChainKnown(s) == "badMsg" \notin Events => s.lastAfter <= s.lastMsgId

OrderInv(s) ==
    HeldBackWait(s) /\ WithinLimits(s) /\ Tried(s) /\ MarkedFirst(s) /\ ChainKnown(s)

(* What handlers do to the requests outside processRequestQueue: a request   *)
(* that runs or waits did so before, or is put at the end of the queue; no   *)
(* identifier is given; counters are only reset.                             *)
Eases(s, t) ==
    /\ \A r \in Requests :
          /\ t.place[r] = "running" =>
                s.place[r] = "running" /\ t.pos[r] = s.pos[r] /\ t.msgId[r] \in {0, s.msgId[r]}
          /\ t.place[r] = "queue" =>
                \/ s.place[r] = "queue" /\ t.pos[r] = s.pos[r]
                \/ s.place[r] = "task" /\ t.pos[r] > s.lastPos
          /\ t.place[r] \in {"unsent", "task"} => s.place[r] \in {"unsent", "task"}
          /\ t.retries[r] \in {0, s.retries[r]}
    /\ s.resendAfter \subseteq t.resendAfter
    /\ \A r \in t.resendAfter \ s.resendAfter :
          s.place[r] = "running" /\ t.place[r] = "running" /\ t.msgId[r] = 0
    /\ \A r \in t.saltFailed \ s.saltFailed : t.retries[r] = 0
    /\ t.lastAfter \in {0, s.lastAfter}
    /\ "badMsg" \notin Events => t.lastMsgId = s.lastMsgId

LEMMA FewerCount ==
    ASSUME NEW a, NEW b \in SUBSET Requests, a \subseteq b
    PROVE  Cardinality(a) \in Nat /\ Cardinality(b) \in Nat /\ Cardinality(a) <= Cardinality(b)
<1>1. IsFiniteSet(b)
  BY RequestAssumption, FS_Subset
<1>2. IsFiniteSet(a) /\ Cardinality(a) <= Cardinality(b)
  BY <1>1, FS_Subset
<1> QED
  BY <1>1, <1>2, FS_CardinalityType

LEMMA EasesKeepsOrder ==
    ASSUME NEW s, ListsInv(s), OrderInv(s), NEW t \in QType, Eases(s, t)
    PROVE  OrderInv(t)
<1>1. s \in QType /\ Ordered(s)
  BY DEF ListsInv
<1>2. \A r \in Requests : /\ s.pos[r] \in Nat /\ t.pos[r] \in Nat
                          /\ s.retries[r] \in Nat /\ t.retries[r] \in Nat
  BY <1>1 DEF QType
<1>3. /\ s.lastPos \in Nat /\ s.lastAfter \in Nat /\ s.lastMsgId \in Nat
      /\ t.lastAfter \in Nat /\ t.lastMsgId \in Nat
      /\ s.resendAfter \subseteq Requests /\ t.resendAfter \subseteq Requests
  BY <1>1 DEF QType
<1>4. HeldBackWait(t)
  <2> SUFFICES ASSUME NEW r \in Requests, t.place[r] = "running", r \in t.resendAfter, t.msgId[r] # 0
               PROVE  Ahead(t, r) \cap InvokeAfter = {}
    BY DEF HeldBackWait, In
  <2>1. /\ s.place[r] = "running" /\ r \in s.resendAfter /\ s.msgId[r] # 0
    BY DEF Eases
  <2>2. Ahead(s, r) \cap InvokeAfter = {}
    BY <2>1 DEF OrderInv, HeldBackWait, In
  <2>3. Ahead(t, r) \subseteq Ahead(s, r)
    BY <2>1 DEF Ahead, Eases
  <2> QED
    BY <2>2, <2>3
<1>5. WithinLimits(t)
  <2> SUFFICES ASSUME NEW k \in Kinds PROVE Cardinality(Counting(t, k)) <= Limit(k)
    BY DEF WithinLimits
  <2>1. Counting(t, k) \subseteq Counting(s, k) /\ Counting(s, k) \subseteq Requests
    BY DEF Counting, Eases, In
  <2>2. Cardinality(Counting(s, k)) <= Limit(k) /\ Limit(k) \in Nat
    BY RequestAssumption DEF OrderInv, WithinLimits, Limit
  <2> HIDE DEF Limit
  <2> QED
    BY <2>1, <2>2, FewerCount
<1>6. Tried(t)
  BY <1>2, RetryAssumption, RequestAssumption DEF OrderInv, Tried, Eases
<1>7. MarkedFirst(t)
  <2>1. \A r \in t.resendAfter : t.place[r] \notin {"unsent", "task"}
    BY <1>3 DEF OrderInv, MarkedFirst, Eases
  <2>2. ASSUME NEW r \in Requests, t.place[r] = "queue", r \in InvokeAfter, r \notin t.resendAfter,
               NEW u \in Requests, t.place[u] = "queue", u \in InvokeAfter, u \in t.resendAfter
        PROVE  t.pos[u] < t.pos[r]
    <3>1. u \in s.resendAfter /\ r \notin s.resendAfter /\ s.place[u] = "queue" /\ t.pos[u] = s.pos[u]
      BY <2>2 DEF OrderInv, MarkedFirst, Eases
    <3>2. CASE s.place[r] = "queue" /\ t.pos[r] = s.pos[r]
      BY <2>2, <3>1, <3>2 DEF OrderInv, MarkedFirst, In
    <3>3. CASE t.pos[r] > s.lastPos
      BY <1>1, <1>2, <1>3, <3>1, <3>3 DEF Ordered, Lists
    <3> QED
      BY <2>2, <3>2, <3>3 DEF Eases
  <2> QED
    BY <2>1, <2>2 DEF MarkedFirst, In
<1>8. ChainKnown(t)
  BY <1>3 DEF OrderInv, ChainKnown, Eases
<1> QED
  BY <1>4, <1>5, <1>6, <1>7, <1>8 DEF OrderInv

-----------------------------------------------------------------------------
(* What processRequestQueue leaves of a request record, field by field.      *)
Chain(s, sent, new) == ((sent \cup new) \cap InvokeAfter) \ Marked(s)
Others(s, sent, new) == ((In(s, "running") \cup new) \cap InvokeAfter) \ Chain(s, sent, new)
IdsAfter(s, sent, new) ==
    [r \in Requests |-> IF r \in Fresh(s, sent, new) THEN NewId(s, Fresh(s, sent, new), r)
                        ELSE s.msgId[r]]

PassLeaves(s, n, due, givenUp, new) ==
    LET sent == due \ givenUp
        chain == Chain(s, sent, new)
        last == {r \in chain : \A a \in chain : ~Visited(s, r, a)}
    IN /\ n.place = [r \in Requests |-> IF r \in givenUp THEN "failed"
                                        ELSE IF r \in new THEN "running" ELSE s.place[r]]
       /\ n.pos = [r \in Requests |-> IF r \notin new THEN s.pos[r]
                      ELSE s.lastPos + 1 + Cardinality(new \cap Ahead(s, r))]
       /\ n.msgId = IdsAfter(s, sent, new)
       /\ n.retries = [r \in Requests |-> s.retries[r] + (IF r \in due \ Generic THEN 1 ELSE 0)]
       /\ n.resendAfter = Marked(s)
       /\ n.saltFailed = s.saltFailed \ due
       /\ n.lastMsgId = s.lastMsgId + Cardinality(Fresh(s, sent, new))
       /\ n.lastAfter = IF chain = {} THEN s.lastAfter
                        ELSE IdsAfter(s, sent, new)[CHOOSE r \in last : TRUE]

LEMMA PassFields ==
    ASSUME NEW s \in QType, NEW env, NEW force, NEW aged, NEW recent
    PROVE  LET due == Due(s, env, force, aged) IN
           PassLeaves(s, Pass(s, env, force, aged, recent).q,
                      due, GivenUp(s, due), Launched(s, env))
<1> DEFINE due     == Due(s, env, force, aged)
           givenUp == GivenUp(s, due)
           sent    == due \ givenUp
           new     == Launched(s, env)
           chain   == Chain(s, sent, new)
           place   == [r \in Requests |-> IF r \in givenUp THEN "failed"
                                          ELSE IF r \in new THEN "running" ELSE s.place[r]]
           pos     == [r \in Requests |-> IF r \notin new THEN s.pos[r]
                         ELSE s.lastPos + 1 + Cardinality(new \cap Ahead(s, r))]
           id      == IdsAfter(s, sent, new)
           token   == [r \in Requests |-> IF r \in sent \cup new THEN env.conn[Kind(r)]
                                          ELSE s.token[r]]
           retries == [r \in Requests |-> s.retries[r] + (IF r \in due \ Generic THEN 1 ELSE 0)]
           calls   == [r \in Requests |->
                         s.callbacks[r] + (IF r \in givenUp \ Internal THEN 1 ELSE 0)]
           marked  == Marked(s)
           failed  == s.saltFailed \ due
           end     == s.lastPos + Cardinality(new)
           newest  == s.lastMsgId + Cardinality(Fresh(s, sent, new))
           last    == {r \in chain : \A a \in chain : ~Visited(s, r, a)}
           after   == IF chain = {} THEN s.lastAfter ELSE id[CHOOSE r \in last : TRUE]
           n == Pass(s, env, force, aged, recent).q
<1>1. n = [s EXCEPT !.place = place, !.pos = pos, !.lastPos = end, !.msgId = id, !.token = token,
                    !.retries = retries, !.resendAfter = marked, !.saltFailed = failed,
                    !.lastMsgId = newest, !.lastAfter = after, !.callbacks = calls]
  BY DEF Pass, Fresh, Chain, IdsAfter
<1> HIDE DEF n, place, pos, end, id, token, retries, marked, failed, newest, after, calls
<1>2. /\ n.place = place /\ n.pos = pos /\ n.msgId = id /\ n.retries = retries
      /\ n.resendAfter = marked /\ n.saltFailed = failed /\ n.lastMsgId = newest
      /\ n.lastAfter = after
  BY <1>1 DEF QType
<1> QED
  BY <1>2 DEF n, place, pos, id, retries, marked, failed, newest, after, PassLeaves

(* What is visited earlier in a batch gets the smaller identifier.           *)
LEMMA NewIdOrder ==
    ASSUME NEW s \in QType, NEW fresh \in SUBSET Requests, NEW a \in fresh, NEW r \in fresh,
           Visited(s, a, r)
    PROVE  NewId(s, fresh, a) < NewId(s, fresh, r)
<1> DEFINE before(t) == {u \in fresh : Visited(s, u, t)}
<1>1. before(a) \subseteq before(r) /\ a \in before(r) /\ a \notin before(a)
  BY VisitedOrder
<1>2. before(a) \in SUBSET Requests /\ before(r) \in SUBSET Requests
  OBVIOUS
<1>3. /\ NewId(s, fresh, a) = s.lastMsgId + 1 + Cardinality(before(a))
      /\ NewId(s, fresh, r) = s.lastMsgId + 1 + Cardinality(before(r))
      /\ s.lastMsgId \in Nat
  BY DEF NewId, QType
<1> HIDE DEF before
<1> QED
  BY <1>1, <1>2, <1>3, SmallerCount

(* Launched requests keep their order at the end of the running list.        *)
LEMMA NewPlaceOrder ==
    ASSUME NEW s \in QType, Ordered(s), NEW new \in SUBSET In(s, "queue"),
           NEW a \in new, NEW r \in new,
           Cardinality(new \cap Ahead(s, a)) < Cardinality(new \cap Ahead(s, r))
    PROVE  a \in Ahead(s, r)
<1>1. s.pos[a] \in Nat /\ s.pos[r] \in Nat /\ a \in Requests /\ r \in Requests
      /\ s.place[a] = "queue" /\ s.place[r] = "queue"
  BY DEF QType, In
<1>2. SUFFICES ASSUME s.pos[r] <= s.pos[a] PROVE FALSE
  BY <1>1 DEF Ahead
<1>3. new \cap Ahead(s, r) \subseteq new \cap Ahead(s, a)
  <2>1. \A u \in Requests : s.pos[u] \in Nat
    BY DEF QType
  <2> QED
    BY <1>1, <1>2, <2>1 DEF Ahead
<1>4. new \cap Ahead(s, r) \in SUBSET Requests /\ new \cap Ahead(s, a) \in SUBSET Requests
  BY DEF Ahead
<1> QED
  BY <1>3, <1>4, FewerCount

(* The greatest of a bounded set of identifiers is one of them.              *)
LEMMA MaxInside ==
    ASSUME NEW ids \in SUBSET Nat, NEW x \in ids, NEW b \in Nat, \A i \in ids : i < b
    PROVE  MaxOf(ids) \in ids
<1> DEFINE gaps == {b - i : i \in ids}
<1>1. gaps \subseteq Nat /\ gaps # {}
  OBVIOUS
<1>2. IsWellFoundedOn(OpToRel(<, Nat), Nat)
  BY NatLessThanWellFounded
<1>3. PICK g \in gaps : \A h \in gaps : <<h, g>> \notin OpToRel(<, Nat)
  <2> HIDE DEF gaps
  <2> QED
    BY <1>1, <1>2, WFMin
<1>4. PICK m \in ids : g = b - m
  BY <1>3
<1>5. \A i \in ids : i <= m
  <2> SUFFICES ASSUME NEW i \in ids, m < i PROVE FALSE
    OBVIOUS
  <2>1. b - i \in gaps /\ b - i \in Nat /\ g \in Nat /\ b - i < g
    BY <1>4
  <2>2. <<b - i, g>> \in OpToRel(<, Nat)
    BY <2>1 DEF OpToRel
  <2> QED
    BY <1>3, <2>1, <2>2
<1> QED
  BY <1>5 DEF MaxOf

(* What processRequestQueue does keeps the requests in order, and tells a    *)
(* message sent for the first time to wait only for an older one.            *)
LEMMA PassKeepsOrder ==
    ASSUME NEW s, ListsInv(s), OrderInv(s), NEW env, env.conn \in [Kinds -> Nat],
           NEW force, NEW aged, NEW recent
    PROVE  LET p == Pass(s, env, force, aged, recent) IN
           /\ OrderInv(p.q)
           /\ "badMsg" \notin Events =>
                 \A m \in p.wire : s.place[m.req] # "running" => m.after < m.id
<1> DEFINE n       == Pass(s, env, force, aged, recent).q
           due     == Due(s, env, force, aged)
           givenUp == GivenUp(s, due)
           sent    == due \ givenUp
           ready   == Ready(s, env)
           new     == Launched(s, env)
           fresh   == Fresh(s, sent, new)
           chain   == Chain(s, sent, new)
           id      == IdsAfter(s, sent, new)
           marked  == Marked(s)
           last    == {r \in chain : \A a \in chain : ~Visited(s, r, a)}
           c(r)    == Cardinality(new \cap Ahead(s, r))
<1>1. s \in QType /\ Ordered(s) /\ Identified(s)
  BY DEF ListsInv
<1>2. /\ s.lastPos \in Nat /\ s.lastMsgId \in Nat /\ s.lastAfter \in Nat
      /\ s.resendAfter \subseteq Requests
      /\ \A r \in Requests : s.pos[r] \in Nat /\ s.msgId[r] \in Nat /\ s.retries[r] \in Nat
  BY <1>1 DEF QType
<1>3. /\ due \in SUBSET Requests
      /\ \A r \in due : s.place[r] = "running" /\ (r \in s.resendAfter => Ahead(s, r) \cap InvokeAfter = {})
  BY DEF Due, In, HeldBack
<1>4. /\ givenUp \subseteq due
      /\ \A r \in (due \ givenUp) \ Generic :
            r \in s.saltFailed \/ ~(s.retries[r] + 1 >= RetryLimit(s, r))
  BY DEF GivenUp
<1>5. /\ ready \in SUBSET Requests /\ new \subseteq ready
      /\ \A r \in ready : s.place[r] = "queue" /\ ~Waiting(s, r)
  BY DEF Launched, Ready, In
<1>6. \A r \in new : Cardinality({a \in Counted(s, Kind(r)) \cup (ready \cap Ahead(s, r)) :
                                    Kind(a) = Kind(r)}) < Limit(Kind(r))
  BY DEF Launched
<1>7. /\ fresh \in SUBSET Requests /\ \A r \in fresh : s.place[r] \in Lists
      /\ \A r \in fresh : r \in new \/ (r \in sent /\ s.msgId[r] = 0)
      /\ new \subseteq fresh /\ chain \subseteq (sent \cup new) \cap InvokeAfter
      /\ chain \cap marked = {} /\ ((sent \cup new) \cap InvokeAfter) \ chain \subseteq marked
  BY <1>3, <1>5 DEF Fresh, Chain, Lists
<1>8. /\ marked \subseteq Requests /\ s.resendAfter \subseteq marked
      /\ \A r \in marked : r \in s.resendAfter \/ s.place[r] = "queue"
      /\ \A r \in Requests :
            s.place[r] = "queue" /\ r \in InvokeAfter /\ r \notin marked => marked = s.resendAfter
  BY <1>2 DEF Marked, In
<1>9. /\ n.place = [r \in Requests |-> IF r \in givenUp THEN "failed"
                                       ELSE IF r \in new THEN "running" ELSE s.place[r]]
      /\ n.pos = [r \in Requests |-> IF r \notin new THEN s.pos[r] ELSE s.lastPos + 1 + c(r)]
      /\ n.msgId = id
      /\ n.retries = [r \in Requests |-> s.retries[r] + (IF r \in due \ Generic THEN 1 ELSE 0)]
      /\ n.resendAfter = marked /\ n.saltFailed = s.saltFailed \ due
      /\ n.lastMsgId = s.lastMsgId + Cardinality(fresh)
      /\ n.lastAfter = IF chain = {} THEN s.lastAfter ELSE id[CHOOSE r \in last : TRUE]
  <2>1. PassLeaves(s, n, due, givenUp, new)
    BY <1>1, PassFields
  <2> HIDE DEF n
  <2> QED
    BY <2>1 DEF PassLeaves
<1>10. ListsInv(n)
  <2>1. PICK d \in SUBSET In(s, "running"), l \in SUBSET In(s, "queue") :
          \E g \in SUBSET d :
             PassOutcome(s, n, Pass(s, env, force, aged, recent).wire, d, g, l)
    BY <1>1, PassResult
  <2> QED
    BY <2>1, PassKeepsInv
<1>11. \A a, r \in new : c(a) < c(r) => a \in Ahead(s, r)
  BY <1>1, <1>5, NewPlaceOrder DEF In
<1>12. \A r \in new : c(r) \in Nat
  <2>1. \A r \in new : new \cap Ahead(s, r) \in SUBSET Requests
    BY <1>5
  <2> QED
    BY <2>1, FewerCount
<1>13. \A r \in Requests : id[r] = IF r \in fresh THEN NewId(s, fresh, r) ELSE s.msgId[r]
  BY DEF IdsAfter
<1>14. /\ Cardinality(fresh) \in Nat
       /\ \A r \in fresh : id[r] \in Nat /\ id[r] > s.lastMsgId
       /\ \A a, r \in fresh : Visited(s, a, r) => id[a] < id[r]
  <2> HIDE DEF id, fresh
  <2>1. /\ Cardinality(fresh) \in Nat
        /\ \A r \in fresh : NewId(s, fresh, r) \in Nat /\ NewId(s, fresh, r) > s.lastMsgId
    BY <1>1, <1>7, NewIds
  <2>2. \A a, r \in fresh : Visited(s, a, r) => NewId(s, fresh, a) < NewId(s, fresh, r)
    BY <1>1, <1>7, NewIdOrder
  <2>3. \A r \in fresh : id[r] = NewId(s, fresh, r)
    BY <1>7, <1>13
  <2> QED
    BY <2>1, <2>2, <2>3
<1>15. \A r \in Requests : s.place[r] = "running" /\ r \notin fresh => id[r] <= s.lastMsgId /\ id[r] \in Nat
  BY <1>1, <1>2, <1>13 DEF Identified, In
<1>16. \A r \in Requests : r \in sent \/ r \in new \/ id[r] = s.msgId[r]
  BY <1>7, <1>13
<1> HIDE DEF n, due, givenUp, sent, ready, new, fresh, chain, id, marked, last, c
<1>17. \A r \in Requests : n.place[r] = "running" /\ r \notin new =>
           s.place[r] = "running" /\ Ahead(n, r) \subseteq Ahead(s, r)
  <2> SUFFICES ASSUME NEW r \in Requests, n.place[r] = "running", r \notin new,
                      NEW a \in Requests, n.place[a] = "running", n.pos[a] < n.pos[r]
               PROVE  s.place[r] = "running" /\ s.place[a] = "running" /\ s.pos[a] < s.pos[r]
    BY <1>9 DEF Ahead
  <2>1. s.place[r] = "running" /\ s.pos[r] <= s.lastPos /\ n.pos[r] = s.pos[r]
    BY <1>1, <1>9 DEF Ordered, Lists
  <2>2. a \notin new
    BY <1>2, <1>9, <1>12, <2>1
  <2> QED
    BY <1>9, <2>1, <2>2
<1>18. \A r \in new : Ahead(n, r) \subseteq In(s, "running") \cup Ahead(s, r)
  <2> SUFFICES ASSUME NEW r \in new, NEW a \in Requests, n.place[a] = "running", n.pos[a] < n.pos[r],
                      s.place[a] # "running"
               PROVE  a \in Ahead(s, r)
    BY <1>3, <1>4, <1>5, <1>9 DEF Ahead, In
  <2>1. a \in new /\ r \in Requests
    BY <1>5, <1>9
  <2>2. c(a) < c(r)
    BY <1>2, <1>9, <1>12, <2>1
  <2> QED
    BY <1>11, <2>1, <2>2
<1>19. HeldBackWait(n)
  <2> SUFFICES ASSUME NEW r \in Requests, n.place[r] = "running", r \in marked, id[r] # 0
               PROVE  Ahead(n, r) \cap InvokeAfter = {}
    BY <1>9 DEF HeldBackWait, In
  <2>1. CASE r \in new
    BY <1>5, <1>18, <2>1 DEF Waiting, marked
  <2>2. CASE r \notin new
    <3>1. s.place[r] = "running" /\ Ahead(n, r) \subseteq Ahead(s, r) /\ r \in s.resendAfter
      BY <1>8, <1>17, <2>2
    <3>2. CASE s.msgId[r] = 0
      BY <1>3, <1>16, <2>2, <3>1, <3>2 DEF sent
    <3>3. CASE s.msgId[r] # 0
      BY <3>1, <3>3 DEF OrderInv, HeldBackWait, In
    <3> QED
      BY <3>1, <3>2, <3>3
  <2> QED
    BY <2>1, <2>2
<1>20. WithinLimits(n)
  <2> SUFFICES ASSUME NEW k \in Kinds PROVE Cardinality(Counting(n, k)) <= Limit(k)
    BY DEF WithinLimits
  <2> DEFINE old  == Counting(s, k)
             now  == Counting(n, k)
             newK == {r \in new : Kind(r) = k}
  <2>1. /\ now \in SUBSET Requests /\ old \in SUBSET Requests /\ newK \in SUBSET Requests
        /\ Limit(k) \in Nat
    BY <1>5, RequestAssumption DEF Counting, In, Limit
  <2>2. \A r \in now : r \in newK \/ r \in old
    BY <1>8, <1>9 DEF Counting, In
  <2>3. CASE newK = {}
    <3>1. Cardinality(old) <= Limit(k) /\ now \subseteq old
      BY <2>2, <2>3 DEF OrderInv, WithinLimits
    <3> HIDE DEF old, now
    <3> QED
      BY <2>1, <3>1, FewerCount DEF now
  <2>4. CASE newK # {}
    <3>1. PICK l \in newK : \A a \in newK : ~Visited(s, l, a)
      BY <1>1, <2>1, <2>4, LastExists
    <3> DEFINE counted == {a \in Counted(s, k) \cup (ready \cap Ahead(s, l)) : Kind(a) = k}
    <3>2. Cardinality(counted) < Limit(k) /\ counted \in SUBSET Requests
      BY <1>6, <3>1 DEF Counted, In, Ahead
    <3>3. \A a \in newK : a # l => a \in counted
      <4> SUFFICES ASSUME NEW a \in newK, a # l PROVE a \in ready \cap Ahead(s, l)
        OBVIOUS
      <4>1. s.place[a] = "queue" /\ s.place[l] = "queue" /\ a \in ready /\ a \in Requests /\ l \in Requests
        BY <1>5, <3>1
      <4>2. Visited(s, a, l)
        BY <1>1, <3>1, <4>1, VisitedTotal DEF Lists
      <4> QED
        BY <4>1, <4>2 DEF Visited
    <3>4. old \subseteq counted
      BY DEF Counting, Counted, HeldBack
    <3>5. now \subseteq counted \cup {l}
      BY <2>2, <3>3, <3>4
    <3> HIDE DEF counted, now, old, newK
    <3>6. IsFiniteSet(counted)
      BY <3>2, RequestAssumption, FS_Subset
    <3>7. /\ Cardinality(counted) \in Nat
          /\ Cardinality(counted \cup {l}) <= Cardinality(counted) + 1
      <4>1. Cardinality(counted \cup {l}) \in {Cardinality(counted), Cardinality(counted) + 1}
        BY <3>6, FS_AddElement
      <4>2. Cardinality(counted) \in Nat
        BY <3>6, FS_CardinalityType
      <4> QED
        BY <4>1, <4>2
    <3>8. Cardinality(now) \in Nat /\ Cardinality(counted \cup {l}) \in Nat
          /\ Cardinality(now) <= Cardinality(counted \cup {l})
      BY <2>1, <3>1, <3>2, <3>5, FewerCount
    <3>9. Cardinality(now) <= Limit(k)
      <4> HIDE DEF Limit
      <4> QED
        BY <2>1, <3>2, <3>7, <3>8
    <3> QED
      BY <3>9 DEF now
  <2> QED
    BY <2>3, <2>4
<1>21. Tried(n)
  <2> SUFFICES ASSUME NEW r \in Requests \ Generic
               PROVE  /\ n.place[r] \in {"unsent", "task", "queue"} \/ r \in n.saltFailed =>
                            n.retries[r] = 0
                      /\ n.place[r] = "running" => n.retries[r] < RetryMax
    BY DEF Tried
  <2>1. /\ s.place[r] \in {"unsent", "task", "queue"} \/ r \in s.saltFailed => s.retries[r] = 0
        /\ s.place[r] = "running" => s.retries[r] < RetryMax
    BY DEF OrderInv, Tried
  <2>2. n.retries[r] = s.retries[r] + (IF r \in due THEN 1 ELSE 0)
    BY <1>9
  <2>3. RetryLimit(s, r) <= RetryMax /\ RetryLimit(s, r) \in Nat /\ RetryMax \in Nat /\ RetryMax >= 2
    BY RetryAssumption, RequestAssumption DEF RetryLimit
  <2>4. ASSUME n.place[r] \in {"unsent", "task", "queue"} \/ r \in n.saltFailed
        PROVE  n.retries[r] = 0
    BY <1>2, <1>3, <1>9, <2>1, <2>2, <2>4
  <2>5. ASSUME n.place[r] = "running" PROVE n.retries[r] < RetryMax
    <3>1. r \notin givenUp
      BY <1>9, <2>5
    <3>2. CASE r \in due
      BY <1>2, <1>3, <1>4, <2>1, <2>2, <2>3, <3>1, <3>2
    <3>3. CASE r \notin due
      BY <1>2, <1>5, <1>9, <2>1, <2>2, <2>3, <2>5, <3>3
    <3> QED
      BY <3>2, <3>3
  <2> QED
    BY <2>4, <2>5
<1>22. \A t, r \in Requests :
           /\ s.place[r] = "queue" /\ r \in InvokeAfter /\ r \notin marked
           /\ s.place[t] = "queue" /\ t \in InvokeAfter /\ t \in marked
           => s.pos[t] < s.pos[r]
  BY <1>8 DEF OrderInv, MarkedFirst, In
<1>23. MarkedFirst(n)
  <2>1. \A r \in marked : n.place[r] \notin {"unsent", "task"}
    BY <1>8, <1>9 DEF OrderInv, MarkedFirst
  <2>2. \A r \in Requests : n.place[r] = "queue" => s.place[r] = "queue" /\ n.pos[r] = s.pos[r]
    BY <1>9
  <2> QED
    BY <1>9, <1>22, <2>1, <2>2 DEF MarkedFirst, In
<1>24. ChainKnown(n)
  <2> SUFFICES ASSUME "badMsg" \notin Events PROVE n.lastAfter <= n.lastMsgId
    BY DEF ChainKnown
  <2>1. s.lastAfter <= s.lastMsgId
    BY DEF OrderInv, ChainKnown
  <2>2. CASE chain = {}
    BY <1>2, <1>9, <1>14, <2>1, <2>2
  <2>3. CASE chain # {}
    <3>1. chain \in SUBSET Requests
      BY <1>3, <1>5, <1>7 DEF sent
    <3>2. (CHOOSE r \in last : TRUE) \in last
      BY <1>1, <2>3, <3>1, LastExists DEF last
    <3>3. PICK l \in chain : n.lastAfter = id[l]
      <4>1. n.lastAfter = id[CHOOSE r \in last : TRUE]
        BY <1>9, <2>3
      <4>2. last \subseteq chain
        BY DEF last
      <4> QED
        BY <3>2, <4>1, <4>2
    <3>4. l \in Requests /\ n.place[l] = "running"
      BY <1>3, <1>4, <1>5, <1>7, <1>9, <3>1 DEF sent
    <3> QED
      BY <1>9, <1>10, <3>3, <3>4 DEF ListsInv, Identified, In
  <2> QED
    BY <2>2, <2>3
<1>25. ASSUME "badMsg" \notin Events, NEW m \in Pass(s, env, force, aged, recent).wire,
              s.place[m.req] # "running"
       PROVE  m.after < m.id
  <2> DEFINE others == Others(s, sent, new)
             base   == ChainBase(s, others, id, recent)
             message(r) == [id |-> id[r], req |-> r, after |-> After(s, chain, base, id, r),
                            kind |-> Kind(r)]
  <2>1. Pass(s, env, force, aged, recent).wire = {message(r) : r \in sent \cup new}
    BY DEF Pass, Fresh, Chain, Others, IdsAfter, id, chain, sent, new, due, givenUp
  <2>2. PICK r \in sent \cup new : m = message(r)
    <3> HIDE DEF message
    <3> QED
      BY <1>25, <2>1
  <2>3. m.req = r /\ m.id = id[r] /\ m.after = After(s, chain, base, id, r)
    BY <2>2
  <2>4. r \in new /\ r \in fresh /\ r \in Requests /\ s.place[r] = "queue"
    BY <1>3, <1>5, <1>7, <1>25, <2>3 DEF sent
  <2>5. id[r] \in Nat /\ id[r] > s.lastMsgId /\ s.lastAfter <= s.lastMsgId /\ id[r] > 0
    BY <1>2, <1>14, <1>25, <2>4 DEF OrderInv, ChainKnown
  <2> HIDE DEF message
  <2>6. CASE r \notin chain
    BY <2>3, <2>5, <2>6 DEF After
  <2>7. CASE r \in chain /\ Previous(s, chain, r) # {}
    <3>1. PICK a \in Previous(s, chain, r) : m.after = id[a]
      BY <2>3, <2>7 DEF After
    <3>2. a \in chain /\ Visited(s, a, r) /\ a \in Requests
      BY <1>3, <1>5, <1>7, <3>1 DEF Previous, sent
    <3>3. a \in fresh \/ s.place[a] = "running"
      BY <1>3, <1>7, <3>2 DEF sent
    <3> QED
      BY <1>2, <1>14, <1>15, <2>3, <2>4, <2>5, <3>1, <3>2, <3>3
  <2>8. CASE r \in chain /\ Previous(s, chain, r) = {}
    <3> DEFINE ids == {0} \cup {i \in {s.lastAfter} : recent} \cup {id[o] : o \in others}
    <3>1. ASSUME NEW o \in others PROVE id[o] \in Nat /\ id[o] < id[r]
      <4>1. /\ o \in Requests /\ o \in InvokeAfter /\ o \notin chain
            /\ s.place[o] = "running" \/ o \in new
        BY <1>5, <3>1 DEF Others, In, chain
      <4>2. CASE o \notin fresh
        BY <1>2, <1>7, <1>15, <2>5, <4>1, <4>2
      <4>3. CASE s.place[o] = "running" /\ o \in fresh
        <5>1. Visited(s, o, r)
          BY <2>4, <4>3 DEF Visited
        <5> QED
          BY <1>14, <2>4, <4>3, <5>1
      <4>4. CASE o \in new
        <5>1. o \in fresh /\ o \in marked /\ s.place[o] = "queue"
          BY <1>5, <1>7, <4>1, <4>4
        <5>2. r \in InvokeAfter /\ r \notin marked
          BY <1>7, <2>8
        <5>3. Visited(s, o, r)
          BY <1>22, <2>4, <4>1, <5>1, <5>2 DEF Visited, Ahead
        <5> QED
          BY <1>14, <2>4, <5>1, <5>3
      <4> QED
        BY <4>1, <4>2, <4>3, <4>4
    <3>2. ids \in SUBSET Nat /\ 0 \in ids /\ \A i \in ids : i < id[r]
      <4> HIDE DEF others
      <4> QED
        BY <1>2, <2>5, <3>1
    <3>3. base = MaxOf(ids)
      BY DEF ChainBase
    <3> HIDE DEF ids, base, others
    <3>4. base < id[r]
      BY <2>5, <3>2, <3>3, MaxInside
    <3> QED
      BY <2>3, <2>5, <2>8, <3>4 DEF After
  <2> QED
    BY <2>6, <2>7, <2>8
<1> QED
  BY <1>19, <1>20, <1>21, <1>23, <1>24, <1>25 DEF OrderInv, n

-----------------------------------------------------------------------------
(* The changes of a request record outside processRequestQueue.              *)
LEMMA EnqueueKeepsOrder ==
    ASSUME NEW s, ListsInv(s), OrderInv(s), NEW r \in Requests, s.place[r] = "task"
    PROVE  OrderInv(Enqueue(s, r))
<1> DEFINE n == Enqueue(s, r)
<1>1. s \in QType /\ n \in QType
  BY EnqueueKeepsInv DEF ListsInv
<1>2. /\ n.place = [s.place EXCEPT ![r] = "queue"]
      /\ n.pos = [s.pos EXCEPT ![r] = s.lastPos + 1]
      /\ n.msgId = s.msgId /\ n.retries = s.retries /\ n.resendAfter = s.resendAfter
      /\ n.saltFailed = s.saltFailed /\ n.lastMsgId = s.lastMsgId /\ n.lastAfter = s.lastAfter
  BY <1>1 DEF Enqueue, QType
<1>3. /\ s.place \in [Requests -> Places] /\ s.pos \in [Requests -> Nat] /\ s.lastPos \in Nat
  BY <1>1 DEF QType
<1> HIDE DEF n
<1>4. Eases(s, n)
  BY <1>2, <1>3 DEF Eases
<1> QED
  BY <1>1, <1>4, EasesKeepsOrder DEF n

LEMMA ClearedKeepsOrder ==
    ASSUME NEW s, ListsInv(s), OrderInv(s), NEW c
    PROVE  /\ ListsInv(Cleared(s, c)) /\ OrderInv(Cleared(s, c))
           /\ Cleared(s, c).place = s.place /\ Cleared(s, c).resendAfter = s.resendAfter
           /\ \A r \in c \cap Requests : Cleared(s, c).msgId[r] = 0
<1> DEFINE n == Cleared(s, c)
<1>1. s \in QType /\ n \in QType /\ ListsInv(n)
  BY ClearedKeepsInv DEF ListsInv
<1>2. /\ n.msgId = [r \in Requests |-> IF r \in c THEN 0 ELSE s.msgId[r]]
      /\ n.place = s.place /\ n.pos = s.pos
      /\ n.retries = s.retries /\ n.resendAfter = s.resendAfter
      /\ n.saltFailed = s.saltFailed /\ n.lastMsgId = s.lastMsgId /\ n.lastAfter = s.lastAfter
  BY <1>1 DEF Cleared, QType
<1> HIDE DEF n
<1>3. Eases(s, n)
  BY <1>2 DEF Eases
<1> QED
  BY <1>1, <1>2, <1>3, EasesKeepsOrder DEF n

(* A request leaves the lists, or is scheduled before it was ever in one.    *)
LEMMA LeavingKeepsOrder ==
    ASSUME NEW s, ListsInv(s), OrderInv(s), NEW n \in QType,
           n.pos = s.pos, n.msgId = s.msgId, n.retries = s.retries,
           n.resendAfter = s.resendAfter, n.saltFailed = s.saltFailed,
           n.lastMsgId = s.lastMsgId, n.lastAfter \in {0, s.lastAfter},
           \A r \in Requests :
              \/ n.place[r] = s.place[r]
              \/ n.place[r] \in Finished
              \/ n.place[r] = "task" /\ s.place[r] = "unsent"
    PROVE  OrderInv(n)
<1>1. Eases(s, n)
  BY DEF Eases, Finished
<1> QED
  BY <1>1, EasesKeepsOrder

LEMMA CompletedKeepsOrder ==
    ASSUME NEW s, ListsInv(s), OrderInv(s), NEW r \in Requests, s.place[r] = "running",
           NEW end \in {"answered", "failed"}
    PROVE  /\ OrderInv(Completed(s, r, end))
           /\ Completed(s, r, end).place = [s.place EXCEPT ![r] = end]
<1> DEFINE n == Completed(s, r, end)
<1>1. s \in QType /\ n \in QType /\ s.place \in [Requests -> Places]
  BY CompletedKeepsInv DEF ListsInv, QType
<1>2. /\ n.place = [s.place EXCEPT ![r] = end] /\ n.pos = s.pos /\ n.msgId = s.msgId
      /\ n.retries = s.retries /\ n.resendAfter = s.resendAfter
      /\ n.saltFailed = s.saltFailed /\ n.lastMsgId = s.lastMsgId /\ n.lastAfter = s.lastAfter
  BY <1>1 DEF Completed, QType
<1> HIDE DEF n
<1>3. \A u \in Requests : n.place[u] = s.place[u] \/ n.place[u] \in Finished
  BY <1>1, <1>2 DEF Finished
<1>4. OrderInv(n)
  BY <1>1, <1>2, <1>3, LeavingKeepsOrder
<1> QED
  BY <1>2, <1>4 DEF n

LEMMA ForgetKeepsOrder ==
    ASSUME NEW s, ListsInv(s), OrderInv(s), NEW id
    PROVE  OrderInv(Forget(s, id)) /\ ListsInv(Forget(s, id)) /\ Forget(s, id).place = s.place
<1> DEFINE n == Forget(s, id)
<1>1. s \in QType /\ n \in QType /\ ListsInv(n)
  BY ForgetKeepsInv DEF ListsInv
<1>2. /\ n.place = s.place /\ n.pos = s.pos /\ n.msgId = s.msgId
      /\ n.retries = s.retries /\ n.resendAfter = s.resendAfter
      /\ n.saltFailed = s.saltFailed /\ n.lastMsgId = s.lastMsgId
      /\ n.lastAfter \in {0, s.lastAfter}
  BY <1>1 DEF Forget, QType
<1> HIDE DEF n
<1>3. OrderInv(n)
  BY <1>1, <1>2, LeavingKeepsOrder
<1> QED
  BY <1>1, <1>2, <1>3 DEF n

LEMMA AnsweredKeepsOrder ==
    ASSUME NEW s, ListsInv(s), OrderInv(s), NEW r \in Requests, s.place[r] = "running",
           NEW result
    PROVE  /\ OrderInv(Answered(s, r, result))
           /\ \A u \in Requests : Answered(s, r, result).place[u] = "running" =>
                                     s.place[u] = "running"
<1> DEFINE c == Cleared(s, {r})
<1>1. /\ ListsInv(c) /\ OrderInv(c) /\ c \in QType /\ s.place \in [Requests -> Places]
      /\ c.place = s.place /\ c.resendAfter = s.resendAfter /\ c.msgId[r] = 0
  BY ClearedKeepsOrder DEF ListsInv, QType
<1>2. Answered(s, r, result) \in QType /\ s.resendAfter \subseteq Requests
  BY AnsweredKeepsInv DEF ListsInv, QType
<1> HIDE DEF c
<1>3. CASE Answered(s, r, result) \in {Completed(s, r, "answered"), Completed(s, r, "failed")}
  <2>1. \A end \in {"answered", "failed"} :
           OrderInv(Completed(s, r, end)) /\ Completed(s, r, end).place = [s.place EXCEPT ![r] = end]
    BY CompletedKeepsOrder
  <2> QED
    BY <1>1, <1>3, <2>1
<1>4. CASE Answered(s, r, result) = c
  BY <1>1, <1>4
<1>5. CASE Answered(s, r, result) = [c EXCEPT !.resendAfter = s.resendAfter \cup {r}]
  <2> DEFINE n == [c EXCEPT !.resendAfter = s.resendAfter \cup {r}]
  <2>1. /\ n.place = c.place /\ n.pos = c.pos /\ n.msgId = c.msgId
        /\ n.retries = c.retries /\ n.resendAfter = c.resendAfter \cup {r}
        /\ n.saltFailed = c.saltFailed /\ n.lastMsgId = c.lastMsgId /\ n.lastAfter = c.lastAfter
    BY <1>1 DEF QType
  <2>2. n \in QType
    BY <1>2, <1>5
  <2> HIDE DEF n
  <2>3. Eases(c, n)
    BY <1>1, <2>1 DEF Eases
  <2>4. OrderInv(n)
    BY <1>1, <2>2, <2>3, EasesKeepsOrder
  <2> QED
    BY <1>1, <1>5, <2>1, <2>4 DEF n
<1>6. CASE Answered(s, r, result) = [c EXCEPT !.flooded = s.flooded \cup {r}]
  <2> DEFINE n == [c EXCEPT !.flooded = s.flooded \cup {r}]
  <2>1. /\ n.place = c.place /\ n.pos = c.pos /\ n.msgId = c.msgId
        /\ n.retries = c.retries /\ n.resendAfter = c.resendAfter
        /\ n.saltFailed = c.saltFailed /\ n.lastMsgId = c.lastMsgId /\ n.lastAfter = c.lastAfter
    BY <1>1 DEF QType
  <2>2. n \in QType
    BY <1>2, <1>6
  <2> HIDE DEF n
  <2>3. OrderInv(n)
    BY <1>1, <2>1, <2>2, LeavingKeepsOrder
  <2> QED
    BY <1>1, <1>6, <2>1, <2>3 DEF n
<1> QED
  BY <1>3, <1>4, <1>5, <1>6 DEF Answered, c

-----------------------------------------------------------------------------
(* What a step is to keep: the order, and messages sent for the first time   *)
(* wait for older ones.                                                      *)
OlderFirst ==
    "badMsg" \notin Events =>
        \A m \in wire' : q.place[m.req] # "running" => m.after < m.id

(* The part of a handler before processRequestQueue led to s.                *)
LEMMA ThenOrder ==
    ASSUME NEW s, ListsInv(s), OrderInv(s), NEW env, env.conn \in [Kinds -> Nat], NEW force,
           \A r \in Requests : s.place[r] = "running" => q.place[r] = "running",
           \/ ProcessRequestQueue(s, env, force)
           \/ q' = s /\ wire' = {}
    PROVE  OrderInv(q') /\ OlderFirst
<1>1. CASE ProcessRequestQueue(s, env, force)
  <2>1. PICK aged, recent : LET p == Pass(s, env, force, aged, recent) IN
                            q' = p.q /\ wire' = p.wire
    BY <1>1 DEF ProcessRequestQueue
  <2>2. s \in QType
    BY DEF ListsInv
  <2>3. \A m \in wire' : m.req \in Requests
    <3>1. PICK due \in SUBSET In(s, "running"), new \in SUBSET In(s, "queue") :
            \E givenUp \in SUBSET due : PassOutcome(s, q', wire', due, givenUp, new)
      BY <2>1, <2>2, PassResult
    <3> QED
      BY <3>1 DEF PassOutcome, In
  <2> QED
    BY <2>1, <2>3, PassKeepsOrder DEF OlderFirst
<1>2. CASE q' = s /\ wire' = {}
  BY <1>2 DEF OlderFirst
<1> QED
  BY <1>1, <1>2

(* Handlers that send nothing and at most clear running requests.            *)
LEMMA ClearedOnly ==
    ASSUME Inv, OrderInv(q), wire' = {}, UNCHANGED q \/ \E c : q' = Cleared(q, c)
    PROVE  OrderInv(q') /\ OlderFirst
BY ClearedKeepsOrder DEF Inv, OlderFirst

LEMMA ApplicationOrder ==
    ASSUME Inv, OrderInv(q), Application
    PROVE  OrderInv(q') /\ OlderFirst
<1>1. CASE \E r \in Requests : Send(r)
  <2>1. PICK r \in Requests : Send(r)
    BY <1>1
  <2>2. q \in QType /\ ListsInv(q) /\ q' = [q EXCEPT !.place[r] = "task"] /\ wire' = {}
        /\ q.place[r] = "unsent" /\ q.place \in [Requests -> Places]
    BY <2>1 DEF Inv, TypeOK, Send, QType
  <2>3. q' \in QType
    BY <2>2 DEF QType, Places
  <2>4. /\ q'.place = [q.place EXCEPT ![r] = "task"] /\ q'.pos = q.pos /\ q'.msgId = q.msgId
        /\ q'.retries = q.retries /\ q'.resendAfter = q.resendAfter
        /\ q'.saltFailed = q.saltFailed /\ q'.lastMsgId = q.lastMsgId
        /\ q'.lastAfter = q.lastAfter
    BY <2>2 DEF QType
  <2>5. \A u \in Requests : \/ q'.place[u] = q.place[u]
                            \/ q'.place[u] = "task" /\ q.place[u] = "unsent"
    BY <2>2, <2>4
  <2>6. OrderInv(q')
    <3> DEFINE n == q'
    <3> HIDE DEF n
    <3>1. OrderInv(n)
      BY <2>2, <2>3, <2>4, <2>5, LeavingKeepsOrder DEF n
    <3> QED
      BY <3>1 DEF n
  <2> QED
    BY <2>2, <2>6 DEF OlderFirst
<1>2. CASE (\E r \in Requests : Cancel(r)) \/ CleanUp \/ LogIn
  BY <1>2, ClearedOnly DEF Cancel, CleanUp, LogIn
<1> QED
  BY <1>1, <1>2 DEF Application

LEMMA RunSendOrder ==
    ASSUME Inv, OrderInv(q), RunSend
    PROVE  OrderInv(q') /\ OlderFirst
<1> DEFINE r == tasks[1].req
           s == Enqueue(q, r)
<1>1. Head(tasks) = tasks[1] /\ Sends(1)
  BY DEF Inv, TypeOK, RunSend, NextTask, Sends
<1>2. r \in Requests /\ q.place[r] = "task"
  BY <1>1, SendsTyped DEF Inv, TasksInv
<1>3. ProcessRequestQueue(s, Env, {}) \/ (q' = s /\ wire' = {})
  BY <1>1 DEF RunSend
<1>4. ListsInv(s) /\ OrderInv(s)
      /\ \A t \in Requests : s.place[t] = IF t = r THEN "queue" ELSE q.place[t]
  BY <1>2, EnqueueKeepsInv, EnqueueKeepsOrder DEF Inv
<1> HIDE DEF s, r
<1> QED
  BY <1>3, <1>4, EnvTyped, ThenOrder

LEMMA RunCancelOrder ==
    ASSUME Inv, OrderInv(q), RunCancel
    PROVE  OrderInv(q') /\ OlderFirst
<1> DEFINE r == Head(tasks).req
<1>1. tasks \in Seq(Tasks) /\ tasks # <<>> /\ Head(tasks).op = "cancel" /\ ListsInv(q)
      /\ q \in QType /\ q.place \in [Requests -> Places] /\ wire' = {}
  BY DEF Inv, TypeOK, RunCancel, NextTask, QType
<1>2. r \in Requests
  BY <1>1 DEF Tasks
<1>3. q' \in QType
  BY InvStep DEF Next, NetworkThread, Inv, TypeOK
<1>4. ASSUME NEW d \in Requests,
             \/ q' = Dropped(q, r)
             \/ q' = [Dropped(q, r) EXCEPT !.place[d] = "task"] /\ q.place[d] = "unsent"
                /\ q.place[r] = "running"
      PROVE  OrderInv(q')
  <2>1. /\ q'.pos = q.pos /\ q'.msgId = q.msgId
        /\ q'.retries = q.retries /\ q'.resendAfter = q.resendAfter
        /\ q'.saltFailed = q.saltFailed /\ q'.lastMsgId = q.lastMsgId
        /\ q'.lastAfter = q.lastAfter
        /\ \/ q'.place = [q.place EXCEPT ![r] = "cancelled"]
           \/ /\ q'.place = [[q.place EXCEPT ![r] = "cancelled"] EXCEPT ![d] = "task"]
              /\ q.place[d] = "unsent"
    BY <1>1, <1>4 DEF Dropped, QType
  <2>2. \A u \in Requests : \/ q'.place[u] = q.place[u]
                            \/ q'.place[u] \in Finished
                            \/ q'.place[u] = "task" /\ q.place[u] = "unsent"
    BY <1>1, <1>2, <2>1 DEF Finished
  <2> DEFINE n == q'
  <2> HIDE DEF n
  <2>3. OrderInv(n)
    BY <1>1, <1>3, <2>1, <2>2, LeavingKeepsOrder DEF n
  <2> QED
    BY <2>3 DEF n
<1>5. \/ UNCHANGED q
      \/ q' = Dropped(q, r)
      \/ \E d \in Internal : /\ q' = [Dropped(q, r) EXCEPT !.place[d] = "task"]
                             /\ q.place[d] = "unsent" /\ q.place[r] = "running"
  BY DEF RunCancel
<1>6. OrderInv(q')
  BY <1>2, <1>4, <1>5, RequestAssumption
<1> QED
  BY <1>1, <1>6 DEF OlderFirst

LEMMA RunCleanUpOrder ==
    ASSUME Inv, OrderInv(q), RunCleanUp
    PROVE  OrderInv(q') /\ OlderFirst
<1> DEFINE ended == (In(q, "queue") \cup In(q, "running")) \ WithoutLogin
           place == [r \in Requests |-> IF r \in ended THEN "failed" ELSE q.place[r]]
           calls == [r \in Requests |-> q.callbacks[r] + (IF r \in ended THEN 1 ELSE 0)]
           n     == q'
<1>1. ListsInv(q) /\ q \in QType /\ wire' = {}
      /\ n = [q EXCEPT !.place = place, !.callbacks = calls]
  BY DEF Inv, TypeOK, RunCleanUp
<1>2. n \in QType
  BY InvStep DEF Next, NetworkThread, Inv, TypeOK
<1>3. \A r \in Requests : place[r] = q.place[r] \/ place[r] \in Finished
  BY DEF Finished
<1> HIDE DEF place, calls, ended, n
<1>4. /\ n.place = place /\ n.pos = q.pos /\ n.msgId = q.msgId
      /\ n.retries = q.retries /\ n.resendAfter = q.resendAfter
      /\ n.saltFailed = q.saltFailed /\ n.lastMsgId = q.lastMsgId /\ n.lastAfter = q.lastAfter
  BY <1>1 DEF QType
<1>5. OrderInv(n)
  BY <1>1, <1>2, <1>3, <1>4, LeavingKeepsOrder
<1> QED
  BY <1>1, <1>5 DEF OlderFirst, n

(* Connections, handshakes and turns of the event loop.                      *)
LEMMA ConnectionOrder ==
    ASSUME Inv, OrderInv(q), NEW k \in Kinds,
           \/ ConnectionConnected(k) \/ ConnectionClosed(k) \/ AuthKeyLost(k)
           \/ HandshakeComplete(k) \/ Select
    PROVE  OrderInv(q') /\ OlderFirst
<1>1. CASE ConnectionConnected(k)
  <2>1. /\ conn' \in [Kinds -> Nat]
        /\ \/ ProcessRequestQueue(q, [Env EXCEPT !.conn = conn'], {k})
           \/ q' = q /\ wire' = {}
    BY <1>1 DEF ConnectionConnected, Inv, TypeOK
  <2> QED
    BY <2>1, EnvTyped, ThenOrder
<1>2. CASE ConnectionClosed(k) \/ AuthKeyLost(k)
  BY <1>2, ClearedOnly DEF ConnectionClosed, AuthKeyLost
<1>3. CASE HandshakeComplete(k)
  <2> DEFINE c == {r \in In(q, "running") : Kind(r) = k}
  <2>1. ProcessRequestQueue(Cleared(q, c), [Env EXCEPT !.keyed = keyed'], Kinds)
    BY <1>3 DEF HandshakeComplete
  <2> HIDE DEF c
  <2> QED
    BY <2>1, EnvTyped, ClearedKeepsOrder, ThenOrder, ZenonT(40)
<1>4. CASE Select
  BY <1>4, EnvTyped, ThenOrder, SMTT(30) DEF Select
<1> QED
  BY <1>1, <1>2, <1>3, <1>4

LEMMA ResultOrder ==
    ASSUME Inv, OrderInv(q),
           \/ \E r \in Requests : \E result : RpcResult(r, result)
           \/ \E r \in Requests : Unauthorized(r)
           \/ \E id : StaleResult(id)
    PROVE  OrderInv(q') /\ OlderFirst
<1>1. ASSUME NEW r \in Requests, NEW result, RpcResult(r, result)
      PROVE  OrderInv(q') /\ OlderFirst
  <2> DEFINE f == Forget(q, q.msgId[r])
             s == Answered(f, r, result)
  <2>1. q.place[r] = "running" /\ ProcessRequestQueue(s, [Env EXCEPT !.keyed = keyed'], {})
    BY <1>1 DEF RpcResult
  <2>2. ListsInv(f) /\ OrderInv(f) /\ f.place = q.place
    BY EnvTyped, ForgetKeepsOrder
  <2> HIDE DEF f
  <2>3. ListsInv(s) /\ OrderInv(s)
        /\ \A u \in Requests : s.place[u] = "running" => q.place[u] = "running"
    BY <2>1, <2>2, AnsweredKeepsInv, AnsweredKeepsOrder
  <2> HIDE DEF s
  <2> QED
    BY <2>1, <2>3, EnvTyped, ThenOrder
<1>2. ASSUME NEW r \in Requests, Unauthorized(r)
      PROVE  OrderInv(q') /\ OlderFirst
  <2> DEFINE f == Forget(q, q.msgId[r])
             s == Completed(f, r, "failed")
  <2>1. q.place[r] = "running" /\ ProcessRequestQueue(s, Env, {})
    BY <1>2 DEF Unauthorized
  <2>2. ListsInv(f) /\ OrderInv(f) /\ f.place = q.place /\ q.place \in [Requests -> Places]
    BY EnvTyped, ForgetKeepsOrder DEF ListsInv, QType
  <2> HIDE DEF f
  <2>3. ListsInv(s) /\ OrderInv(s) /\ s.place = [q.place EXCEPT ![r] = "failed"]
    <3>1. f.place[r] = "running" /\ "failed" \in {"answered", "failed"}
      BY <2>1, <2>2
    <3>2. ListsInv(Completed(f, r, "failed"))
      BY <2>2, <3>1, CompletedKeepsInv
    <3>3. /\ OrderInv(Completed(f, r, "failed"))
          /\ Completed(f, r, "failed").place = [f.place EXCEPT ![r] = "failed"]
      BY <2>2, <3>1, CompletedKeepsOrder
    <3> QED
      BY <2>2, <3>2, <3>3
  <2> HIDE DEF s
  <2>4. \A u \in Requests : s.place[u] = "running" => q.place[u] = "running"
    BY <2>2, <2>3
  <2> QED
    BY <2>1, <2>3, <2>4, EnvTyped, ThenOrder
<1>3. ASSUME NEW id, StaleResult(id)
      PROVE  OrderInv(q') /\ OlderFirst
  BY <1>3, EnvTyped, ForgetKeepsOrder, ThenOrder DEF StaleResult
<1> QED
  BY <1>1, <1>2, <1>3

LEMMA BadMsgOrder ==
    ASSUME Inv, OrderInv(q), BadMsgNotification
    PROVE  OrderInv(q') /\ OlderFirst
<1>1. CASE \E r : q' = Cleared(q, {r})
  BY <1>1, ClearedOnly DEF BadMsgNotification
<1>2. ASSUME NEW id \in {0, q.lastMsgId},
             q' = [Cleared(q, In(q, "running")) EXCEPT !.lastMsgId = id]
      PROVE  OrderInv(q')
  <2> DEFINE c == Cleared(q, In(q, "running"))
             n == q'
  <2>1. ListsInv(c) /\ OrderInv(c) /\ c \in QType
    BY ClearedKeepsOrder DEF Inv, ListsInv
  <2>2. n = [c EXCEPT !.lastMsgId = id]
    BY <1>2
  <2>3. n \in QType /\ "badMsg" \in Events
    BY InvStep DEF Next, Server, Inv, TypeOK, BadMsgNotification
  <2> HIDE DEF c, n
  <2>4. /\ n.place = c.place /\ n.pos = c.pos /\ n.msgId = c.msgId
        /\ n.retries = c.retries /\ n.resendAfter = c.resendAfter
        /\ n.saltFailed = c.saltFailed /\ n.lastAfter = c.lastAfter
    BY <2>1, <2>2 DEF QType
  <2>5. Eases(c, n)
    BY <2>3, <2>4 DEF Eases
  <2>6. OrderInv(n)
    BY <2>1, <2>3, <2>5, EasesKeepsOrder
  <2> QED
    BY <2>6 DEF n
<1> QED
  BY <1>1, <1>2 DEF BadMsgNotification, OlderFirst

LEMMA BadServerSaltOrder ==
    ASSUME Inv, OrderInv(q), BadServerSalt
    PROVE  OrderInv(q') /\ OlderFirst
<1> DEFINE downloads == In(q, "running") \ Generic
           retries == [r \in Requests |-> IF r \in downloads THEN 0 ELSE q.retries[r]]
           failed == q.saltFailed \cup downloads
           s == [q EXCEPT !.retries = retries, !.saltFailed = failed]
<1>1. ProcessRequestQueue(s, Env, Kinds) \/ (q' = s /\ wire' = {})
  BY DEF BadServerSalt
<1>2. q \in QType /\ ListsInv(q)
  BY DEF Inv, TypeOK
<1>3. retries \in [Requests -> Nat] /\ failed \subseteq Requests
  BY <1>2 DEF QType, In
<1>4. /\ \A r \in Requests : retries[r] \in {0, q.retries[r]}
      /\ \A r \in failed \ q.saltFailed : retries[r] = 0
  BY DEF In
<1> HIDE DEF retries, failed
<1>5. s \in QType
  BY <1>2, <1>3 DEF QType
<1>6. /\ s.place = q.place /\ s.pos = q.pos /\ s.msgId = q.msgId /\ s.lastPos = q.lastPos
      /\ s.retries = retries /\ s.resendAfter = q.resendAfter /\ s.saltFailed = failed
      /\ s.lastMsgId = q.lastMsgId /\ s.lastAfter = q.lastAfter /\ s.token = q.token
      /\ s.callbacks = q.callbacks
  BY <1>2 DEF QType
<1> HIDE DEF s
<1>7. Eases(q, s)
  BY <1>4, <1>6 DEF Eases
<1>8. ListsInv(s) /\ OrderInv(s)
  BY <1>2, <1>5, <1>6, <1>7, SameLists, EasesKeepsOrder
<1> QED
  BY <1>1, <1>6, <1>8, EnvTyped, ThenOrder

LEMMA OrderStep ==
    ASSUME Inv, OrderInv(q), [Next]_vars
    PROVE  OrderInv(q') /\ (OlderFirst \/ UNCHANGED vars)
<1>1. CASE Application
  BY <1>1, ApplicationOrder
<1>2. CASE NetworkThread
  <2>1. CASE RunLogIn \/ SetNetworkAvailable
    BY <2>1, ClearedOnly DEF RunLogIn, SetNetworkAvailable
  <2>2. CASE Select
    BY <2>2, ConnectionOrder DEF Kinds
  <2> QED
    BY <1>2, <2>1, <2>2, RunSendOrder, RunCancelOrder, RunCleanUpOrder, ConnectionOrder
    DEF NetworkThread
<1>3. CASE Server
  <2>1. CASE \E id \in 1..q.lastMsgId, k \in Kinds : NewSessionCreated(id, k)
    BY <2>1, ClearedOnly DEF NewSessionCreated
  <2> QED
    BY <1>3, <2>1, ResultOrder, BadMsgOrder, BadServerSaltOrder, ConnectionOrder DEF Server
<1>4. CASE UNCHANGED vars
  BY <1>4 DEF vars
<1> QED
  BY <1>1, <1>2, <1>3, <1>4 DEF Next

LEMMA OrderInit == Init => OrderInv(q)
<1> SUFFICES ASSUME Init PROVE OrderInv(q)
  OBVIOUS
<1>1. /\ \A r \in Requests : q.place[r] = "unsent" /\ q.retries[r] = 0
      /\ q.resendAfter = {} /\ q.lastAfter = 0 /\ q.lastMsgId = 0
  BY DEF Init
<1>2. HeldBackWait(q) /\ Tried(q) /\ MarkedFirst(q) /\ ChainKnown(q)
  BY <1>1 DEF HeldBackWait, Tried, MarkedFirst, ChainKnown, In
<1>3. \A k \in Kinds : Counting(q, k) = {}
  BY <1>1 DEF Counting, In
<1>4. WithinLimits(q)
  BY <1>3, FS_EmptySet, RequestAssumption DEF WithinLimits, Limit
<1> QED
  BY <1>2, <1>4 DEF OrderInv

LEMMA OrderAlways == Spec => [](Inv /\ OrderInv(q))
<1>1. Inv /\ OrderInv(q) /\ [Next]_vars => (Inv /\ OrderInv(q))'
  BY InvStep, OrderStep
<1> QED
  BY <1>1, InvInit, OrderInit, PTL DEF Spec

(* A request to be resent after others is on its way again only when no      *)
(* earlier InvokeAfter request is still running, however many there are.     *)
THEOREM HeldBackInOrder == Spec => []ResentAfterOthers
<1>1. OrderInv(q) => ResentAfterOthers
  BY DEF OrderInv, HeldBackWait, ResentAfterOthers
<1> QED
  BY <1>1, OrderAlways, PTL

(* Neither passes of the queue nor late answers ever let more requests of a  *)
(* kind count as running than its limit.                                     *)
THEOREM LimitsKept == Spec => []LimitsRespected
<1>1. OrderInv(q) => LimitsRespected
  BY DEF OrderInv, WithinLimits, Counting, LimitsRespected
<1> QED
  BY <1>1, OrderAlways, PTL

(* No download is still running after RetryMax tries, in whatever order salt *)
(* failures, flood waits and reconnections come.                             *)
THEOREM TriesBounded == Spec => []RetriesBounded
<1>1. OrderInv(q) => RetriesBounded
  BY DEF OrderInv, Tried, RetriesBounded, In
<1> QED
  BY <1>1, OrderAlways, PTL

(* The server is never made to wait for a message that waits for this one,   *)
(* as long as bad_msg_notification does not put the clock back.              *)
THEOREM ChainGoesBack ==
    ASSUME "badMsg" \notin Events
    PROVE  Spec => NewWaitsForOlder
<1> DEFINE Older == \A m \in wire' : q.place[m.req] # "running" => m.after < m.id
<1>1. Inv /\ OrderInv(q) /\ [Next]_vars => [Older]_vars
  BY OrderStep DEF OlderFirst
<1>2. Spec => [][Older]_vars
  <2> HIDE DEF Older
  <2> QED
    BY <1>1, OrderAlways, PTL DEF Spec
<1> QED
  BY <1>2 DEF NewWaitsForOlder
=============================================================================
