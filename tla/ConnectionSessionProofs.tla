------------------------ MODULE ConnectionSessionProofs ------------------------
(* What holds for a session, however many messages, containers and           *)
(* identifiers there are and whatever the size of its window: a message that *)
(* the server repeats in time is handled once, none is confirmed without     *)
(* having been handled, and none is handled again unless it was forgotten.   *)
(*                                                                            *)
(* The argument is one of counting.  The window is trimmed when it holds     *)
(* WindowSize + 1 identifiers, and keeps all of them but the EraseCount      *)
(* lowest.  They differ, so a message that was erased, or that is below the  *)
(* new minimum, has at least WindowSize + 1 - EraseCount identifiers above   *)
(* it that the server has sent, one more than it has when it is repeated.    *)
(* That they differ depends in turn on no message being remembered twice.    *)
EXTENDS ConnectionSession, FiniteSetTheorems, TLAPS

Reach == WindowSize - EraseCount
Known(t) == ToSet(t.processed)
Session(t) == t \in SessionType /\ Len(t.processed) <= WindowSize + 1
Distinct(q) == \A i, j \in DOMAIN q : q[i] = q[j] => i = j

(* The identifiers of the container being handled and of what is left of it. *)
Current == inside.rest \cup ({inside.id} \ {0})

Types ==
    /\ Session(s)
    /\ inside \in [id : Containers \cup {0}, rest : SUBSET Messages]
    /\ inside.id = 0 => inside.rest = {}
    /\ sent \subseteq Ids /\ old \subseteq sent /\ acks \subseteq Content /\ confirmed \subseteq Content
    /\ careless \in BOOLEAN

(* What is remembered was sent, and handled if it is a message.              *)
Sensible ==
    /\ Current \subseteq sent /\ Known(s) \subseteq sent
    /\ \A m \in Ids : s.handled[m] > 0 => m \in sent
    /\ \A m \in Known(s) \cap Messages : s.handled[m] > 0

(* What was handled is recognised when it comes again, or was forgotten.     *)
Recognised ==
    /\ \A m \in Messages : s.handled[m] > 0 => m \in s.forgotten \/ (m \in Known(s) /\ s.min <= m)
    /\ HandledAgainOnlyIfForgotten

(* With a server that repeats in time.  A message is past when the server    *)
(* will not send it any more.                                                *)
Past(m) == Since(m, sent) > Reach

Window ==
    /\ Distinct(s.processed)
    /\ \A m \in Ids : m < s.min => Past(m)
    /\ \A m \in Current : m \notin Resets /\ ~Past(m) /\ \A n \in old : n < m
    /\ inside.id \notin Known(s)
    /\ \A m \in Messages \ Unparsed : s.handled[m] > 0 => m \in Known(s) \cup old \/ Past(m)
    /\ \A m \in Messages \ Unparsed : s.handled[m] <= 1
    /\ \A m \in s.toConfirm \cup acks \cup confirmed : s.handled[m] > 0

Inv ==
    /\ Types
    /\ Sensible
    /\ Recognised
    /\ ~careless => Window

-----------------------------------------------------------------------------
(* Identifiers and sessions.                                                 *)
LEMMA Identifiers ==
    /\ Ids \subseteq Nat \ {0} /\ IsFiniteSet(Ids) /\ 0 \notin Ids
    /\ Messages \subseteq Ids /\ Containers \subseteq Ids /\ Content \subseteq Messages
    /\ WindowSize \in Nat /\ EraseCount \in Nat /\ EraseCount >= 1 /\ EraseCount <= WindowSize
    /\ Reach \in Nat /\ Reach = WindowSize - EraseCount
<1>1. IsFiniteSet(Messages \cup Containers)
  BY SessionAssumption, FS_Union
<1>2. Ids \subseteq Nat \ {0} /\ IsFiniteSet(Ids)
      /\ Messages \subseteq Ids /\ Containers \subseteq Ids /\ Content \subseteq Messages
  BY <1>1, SessionAssumption DEF Ids
<1>3. /\ WindowSize \in Nat /\ EraseCount \in Nat /\ EraseCount >= 1 /\ EraseCount <= WindowSize
      /\ Reach \in Nat /\ Reach = WindowSize - EraseCount
  BY SessionAssumption DEF Reach
<1>4. 0 \notin Ids
  BY <1>2
<1> QED
  BY <1>2, <1>3, <1>4

LEMMA Fields ==
    ASSUME NEW t, Session(t)
    PROVE  /\ t.processed \in Seq(Ids) /\ Len(t.processed) \in Nat /\ Len(t.processed) <= WindowSize + 1
           /\ DOMAIN t.processed = 1..Len(t.processed)
           /\ t.min \in Ids \cup {0} /\ t.min \in Nat
           /\ t.toConfirm \subseteq Content /\ t.forgotten \subseteq Ids
           /\ t.handled \in [Ids -> 0..2] /\ \A m \in Ids : t.handled[m] \in Nat
           /\ Known(t) \subseteq Ids /\ Known(t) = {t.processed[i] : i \in 1..Len(t.processed)}
<1>1. t.processed \in Seq(Ids) /\ Len(t.processed) <= WindowSize + 1
      /\ t.min \in Ids \cup {0} /\ t.toConfirm \subseteq Content /\ t.forgotten \subseteq Ids
      /\ t.handled \in [Ids -> 0..2]
  BY DEF Session, SessionType, Twice
<1>2. Len(t.processed) \in Nat /\ DOMAIN t.processed = 1..Len(t.processed)
  BY <1>1
<1>3. t.min \in Nat
  <2>1. Ids \subseteq Nat /\ 0 \in Nat
    BY Identifiers
  <2>2. t.min \in Ids \cup {0}
    BY <1>1
  <2> QED
    BY ONLY <2>1, <2>2
<1>4. \A m \in Ids : t.handled[m] \in 0..2
  BY <1>1
<1>5. Known(t) = {t.processed[i] : i \in 1..Len(t.processed)}
  BY <1>2 DEF Known, ToSet
<1>6. Known(t) \subseteq Ids
  BY <1>1, <1>2, <1>5
<1> QED
  BY <1>1, <1>2, <1>3, <1>4, <1>5, <1>6

(* A session is what its fields are.                                         *)
LEMMA Whole ==
    ASSUME NEW t, t = [processed |-> t.processed, min |-> t.min, toConfirm |-> t.toConfirm,
                       handled |-> t.handled, forgotten |-> t.forgotten],
           t.processed \in Seq(Ids), Len(t.processed) <= WindowSize + 1, t.min \in Ids \cup {0},
           t.toConfirm \subseteq Content, t.handled \in [Ids -> 0..2], t.forgotten \subseteq Ids
    PROVE  Session(t)
BY DEF Session, SessionType, Twice

LEMMA StatusIs ==
    ASSUME NEW t, Session(t), NEW m \in Ids
    PROVE  /\ IsMessageIdProcessed(t, m) \in 0..2
           /\ IsMessageIdProcessed(t, m) = 0 <=> (t.min <= m /\ m \notin Known(t))
           /\ IsMessageIdProcessed(t, m) = 1 <=> (t.min <= m /\ m \in Known(t))
           /\ IsMessageIdProcessed(t, m) = 2 <=> m < t.min
<1>1. t.min \in Nat /\ m \in Nat
  BY Fields, Identifiers
<1> QED
  BY <1>1 DEF IsMessageIdProcessed, Known

(* Counting what was sent since a message.                                   *)
LEMMA SinceGrows ==
    ASSUME NEW A \in SUBSET Ids, NEW B \in SUBSET Ids, A \subseteq B, NEW m
    PROVE  Since(m, A) \in Nat /\ Since(m, B) \in Nat /\ Since(m, A) <= Since(m, B)
<1> DEFINE N(S) == {n \in S : m < n}
<1>1. IsFiniteSet(N(B)) /\ N(A) \in SUBSET N(B)
  <2>1. N(B) \in SUBSET Ids
    OBVIOUS
  <2> QED
    BY <2>1, Identifiers, FS_Subset
<1>2. IsFiniteSet(N(A)) /\ Cardinality(N(A)) <= Cardinality(N(B))
  BY <1>1, FS_Subset
<1>3. Cardinality(N(A)) \in Nat /\ Cardinality(N(B)) \in Nat
  BY <1>1, <1>2, FS_CardinalityType
<1> QED
  BY <1>2, <1>3 DEF Since

LEMMA SinceItself ==
    ASSUME NEW A \in SUBSET Ids, NEW m \in Ids
    PROVE  Since(m, A \cup {m}) = Since(m, A)
<1>1. m \in Nat /\ {n \in A \cup {m} : m < n} = {n \in A : m < n}
  BY Identifiers
<1> QED
  BY <1>1 DEF Since

LEMMA UpTo ==
    ASSUME NEW n \in Nat
    PROVE  IsFiniteSet(1..n) /\ Cardinality(1..n) = n
BY FS_Interval

LEMMA SinceAtLeast ==
    ASSUME NEW A \in SUBSET Ids, NEW m \in Nat, NEW q \in Seq(Ids), Distinct(q),
           \A i \in DOMAIN q : q[i] \in A /\ m < q[i]
    PROVE  Since(m, A) >= Len(q)
<1> DEFINE N == {n \in A : m < n}
<1>1. IsFiniteSet(N)
  <2>1. N \in SUBSET Ids
    OBVIOUS
  <2> QED
    BY <2>1, Identifiers, FS_Subset
<1>2. Len(q) \in Nat /\ DOMAIN q = 1..Len(q)
  OBVIOUS
<1>3. q \in Injection(1..Len(q), N)
  <2>1. q \in [1..Len(q) -> N]
    BY <1>2
  <2>2. DOMAIN q = 1..Len(q) /\ IsInjective(q)
    BY <1>2 DEF Distinct, IsInjective
  <2> QED
    BY <2>1, <2>2 DEF Injection
<1>4. Cardinality(1..Len(q)) <= Cardinality(N)
  BY <1>1, <1>3, FS_Injection
<1>5. Cardinality(1..Len(q)) = Len(q)
  BY <1>2, UpTo
<1>6. Since(m, A) = Cardinality(N) /\ Cardinality(N) \in Nat
  BY <1>1, FS_CardinalityType DEF Since
<1> QED
  BY <1>2, <1>4, <1>5, <1>6

-----------------------------------------------------------------------------
(* The window: what sorting it and keeping the highest identifiers does.     *)
Arranged(r, q) ==
    /\ r \in Seq(Ids) /\ Len(r) = Len(q) /\ DOMAIN r = DOMAIN q
    /\ \A i \in DOMAIN q : \E j \in DOMAIN q : r[i] = q[j]
    /\ \A i \in DOMAIN q : \E j \in DOMAIN q : q[i] = r[j]
    /\ \A i, j \in DOMAIN q : i < j => r[i] <= r[j]
    /\ Distinct(q) => Distinct(r)

Suffix(k, q, n) ==
    /\ k \in Seq(Ids) /\ Len(k) = Len(q) - n /\ DOMAIN k = 1..Len(q) - n
    /\ \A i \in 1..Len(q) - n : n + i \in 1..Len(q) /\ k[i] = q[n + i]

Highest(k, q) ==
    /\ k \in Seq(Ids) /\ Len(k) = Reach + 1
    /\ k[1] \in ToSet(k) /\ k[1] \in Ids /\ ToSet(k) \subseteq ToSet(q)
    /\ \A m \in ToSet(k) : k[1] <= m
    /\ \A m \in ToSet(q) \ ToSet(k) : \A n \in ToSet(k) : m < n
    /\ Distinct(q) => Distinct(k)

LEMMA SortedIs ==
    ASSUME NEW q \in Seq(Ids), NEW r \in Sorted(q)
    PROVE  Arranged(r, q)
<1> DEFINE D == DOMAIN q
<1>1. PICK p \in Bijection(D, D) : r = [i \in D |-> q[p[i]]]
  BY DEF Sorted
<1>2. \A i, j \in D : i < j => r[i] <= r[j]
  BY DEF Sorted
<1>3. p \in [D -> D] /\ (\A i, j \in D : p[i] = p[j] => i = j) /\ \A i \in D : \E j \in D : p[j] = i
  BY DEF Bijection, Injection, Surjection, IsInjective
<1>4. Len(q) \in Nat /\ D = 1..Len(q) /\ \A i \in D : q[i] \in Ids
  OBVIOUS
<1> HIDE DEF D
<1>5. DOMAIN r = D /\ (\A i \in D : r[i] = q[p[i]]) /\ \A i \in D : p[i] \in D
  BY <1>1, <1>3
<1>6. r \in [1..Len(q) -> Ids]
  BY <1>1, <1>3, <1>4
<1>7. r \in Seq(Ids) /\ Len(r) = Len(q)
  BY <1>4, <1>6
<1>8. Distinct(q) => Distinct(r)
  BY <1>3, <1>5 DEF Distinct, D
<1>9. \A i \in D : \E j \in D : r[i] = q[j]
  BY ONLY <1>5
<1>10. \A i \in D : \E j \in D : q[i] = r[j]
  BY ONLY <1>3, <1>5
<1>11. DOMAIN r = D /\ DOMAIN q = D
  BY <1>5 DEF D
<1> QED
  BY ONLY <1>2, <1>7, <1>8, <1>9, <1>10, <1>11 DEF Arranged

LEMMA SuffixIs ==
    ASSUME NEW q \in Seq(Ids), NEW n \in Nat, n <= Len(q), NEW k, k = SubSeq(q, n + 1, Len(q))
    PROVE  Suffix(k, q, n)
<1>1. Len(q) \in Nat /\ Len(q) - n \in Nat
  OBVIOUS
<1>2. \A i \in 1..Len(q) - n : n + i \in 1..Len(q) /\ i + (n + 1) - 1 = n + i
  BY <1>1
<1>3. k = [i \in 1..Len(q) - n |-> q[n + i]]
  BY <1>1, <1>2
<1>4. \A i \in 1..Len(q) - n : q[n + i] \in Ids
  BY <1>2
<1>5. k \in [1..Len(q) - n -> Ids]
  BY <1>3, <1>4
<1> QED
  BY <1>1, <1>2, <1>3, <1>5 DEF Suffix

LEMMA KeptIs ==
    ASSUME NEW q \in Seq(Ids), Len(q) = WindowSize + 1, NEW order \in Sorted(q),
           NEW kept, kept = SubSeq(order, EraseCount + 1, Len(order))
    PROVE  Highest(kept, q)
<1> DEFINE N == 1..WindowSize + 1
           K == 1..Reach + 1
<1>1. /\ WindowSize \in Nat /\ EraseCount \in Nat /\ EraseCount >= 1
      /\ WindowSize + 1 - EraseCount = Reach + 1 /\ Reach \in Nat /\ EraseCount <= WindowSize + 1
  BY Identifiers
<1>2. /\ order \in Seq(Ids) /\ Len(order) = WindowSize + 1 /\ DOMAIN order = N /\ DOMAIN q = N
      /\ \A i \in N : \E j \in N : order[i] = q[j]
      /\ \A i \in N : \E j \in N : q[i] = order[j]
      /\ \A i, j \in N : i < j => order[i] <= order[j]
      /\ Distinct(q) => Distinct(order)
  <2>1. Arranged(order, q)
    BY SortedIs
  <2>2. DOMAIN q = N
    OBVIOUS
  <2> HIDE DEF N
  <2> QED
    BY <2>1, <2>2 DEF Arranged
<1>3. /\ kept \in Seq(Ids) /\ Len(kept) = Reach + 1 /\ DOMAIN kept = K
      /\ \A i \in K : EraseCount + i \in N /\ kept[i] = order[EraseCount + i]
  <2>1. EraseCount <= Len(order)
    BY <1>1, <1>2
  <2>2. Suffix(kept, order, EraseCount)
    BY <1>1, <1>2, <2>1, SuffixIs
  <2>3. Len(order) - EraseCount = Reach + 1
    BY <1>1, <1>2
  <2> QED
    BY <1>2, <2>2, <2>3 DEF Suffix
<1>4. ToSet(kept) = {kept[i] : i \in K} /\ ToSet(q) = {q[i] : i \in N}
  BY <1>2, <1>3 DEF ToSet
<1>5. 1 \in K /\ K \subseteq Nat /\ N \subseteq Nat /\ \A i \in K : i = 1 \/ (1 < i /\ EraseCount + 1 < EraseCount + i)
  BY <1>1
<1>6. \A i \in N : i <= EraseCount \/ (i - EraseCount \in K /\ EraseCount + (i - EraseCount) = i)
  BY <1>1
<1>7. \A i \in N, j \in K : i <= EraseCount => i < EraseCount + j
  BY <1>1
<1>8. Ids \subseteq Nat
  BY Identifiers
<1> HIDE DEF N, K
<1>9. \A i \in N : order[i] \in Ids /\ order[i] \in Nat
  <2>1. order \in Seq(Ids) /\ DOMAIN order = N
    BY <1>2
  <2>2. \A i \in DOMAIN order : order[i] \in Ids
    BY <2>1
  <2> QED
    BY ONLY <1>8, <2>1, <2>2
<1>10. kept[1] \in ToSet(kept) /\ kept[1] \in Ids
  BY <1>3, <1>4, <1>5, <1>9
<1>11. ToSet(kept) \subseteq ToSet(q)
  <2>1. \A i \in N : \E j \in N : order[i] = q[j]
    BY <1>2
  <2>2. \A i \in K : EraseCount + i \in N /\ kept[i] = order[EraseCount + i]
    BY <1>3
  <2>3. \A i \in K : \E j \in N : kept[i] = q[j]
    BY ONLY <2>1, <2>2
  <2> QED
    BY <1>4, <2>3
<1>12. \A i \in K : kept[1] <= kept[i]
  <2> TAKE i \in K
  <2>1. kept[1] = order[EraseCount + 1] /\ kept[i] = order[EraseCount + i]
        /\ EraseCount + 1 \in N /\ EraseCount + i \in N
    BY <1>3, <1>5
  <2>2. CASE i = 1
    <3>1. kept[1] = kept[i] /\ kept[i] \in Nat
      BY <1>9, <2>1, <2>2
    <3> QED
      BY ONLY <3>1
  <2>3. CASE EraseCount + 1 < EraseCount + i
    BY <1>2, <2>1, <2>3
  <2> QED
    BY <1>5, <2>2, <2>3
<1>13. \A m \in ToSet(q) \ ToSet(kept) : \A n \in ToSet(kept) : m < n
  <2> SUFFICES ASSUME NEW m \in ToSet(q), m \notin ToSet(kept), NEW n \in ToSet(kept)
               PROVE  m < n
    OBVIOUS
  <2>1. \E i \in N : m = order[i]
    <3>1. \A i \in N : \E j \in N : q[i] = order[j]
      BY <1>2
    <3>2. \E i \in N : m = q[i]
      BY <1>4
    <3> QED
      BY ONLY <3>1, <3>2
  <2>2. PICK i \in N : m = order[i]
    BY ONLY <2>1
  <2>3. \E j \in K : n = kept[j]
    BY <1>4
  <2>4. PICK j \in K : n = kept[j]
    BY ONLY <2>3
  <2>5. i <= EraseCount
    <3>1. \A k \in K : kept[k] = order[EraseCount + k] /\ kept[k] \in ToSet(kept)
      BY <1>3, <1>4
    <3>2. \A k \in K : order[EraseCount + k] # order[i]
      BY ONLY <2>2, <3>1, m \notin ToSet(kept)
    <3> QED
      BY ONLY <1>6, <3>2, i \in N
  <2>6. i < EraseCount + j /\ EraseCount + j \in N /\ kept[j] = order[EraseCount + j]
    BY <1>3, <1>7, <2>5
  <2>7. order[i] <= order[EraseCount + j] /\ order[i] \in Nat /\ order[EraseCount + j] \in Nat
    BY <1>2, <1>9, <2>6
  <2>8. m <= n /\ m # n /\ m \in Nat /\ n \in Nat
    BY <2>2, <2>4, <2>6, <2>7
  <2> QED
    BY <2>8
<1>14. Distinct(q) => Distinct(kept)
  <2> SUFFICES ASSUME Distinct(order), NEW i \in K, NEW j \in K, kept[i] = kept[j]
               PROVE  i = j
    BY <1>2, <1>3 DEF Distinct
  <2>1. order[EraseCount + i] = order[EraseCount + j] /\ EraseCount + i \in N /\ EraseCount + j \in N
    BY <1>3
  <2>2. EraseCount + i = EraseCount + j
    BY <1>2, <2>1 DEF Distinct
  <2> QED
    BY <1>1, <1>5, <2>2
<1>15. \A m \in ToSet(kept) : kept[1] <= m
  BY <1>4, <1>12
<1> QED
  BY <1>3, <1>10, <1>11, <1>13, <1>14, <1>15 DEF Highest

LEMMA TrimIs ==
    ASSUME NEW t, Session(t), Len(t.processed) > WindowSize, NEW order \in Sorted(t.processed),
           NEW u, u = Trim(t, order)
    PROVE  /\ Session(u) /\ Len(u.processed) = Reach + 1
           /\ u.toConfirm = t.toConfirm /\ u.handled = t.handled
           /\ u.forgotten = t.forgotten \cup (Known(t) \ Known(u))
           /\ Known(u) \subseteq Known(t) /\ u.min \in Known(u)
           /\ \A m \in Known(u) : u.min <= m
           /\ \A m \in Known(t) \ Known(u) : \A n \in Known(u) : m < n
           /\ Distinct(t.processed) => Distinct(u.processed)
<1> DEFINE kept == SubSeq(order, EraseCount + 1, Len(order))
<1>1. t.processed \in Seq(Ids) /\ Len(t.processed) = WindowSize + 1
  BY Fields, Identifiers
<1>2. /\ u.processed = kept /\ u.min = kept[1] /\ u.toConfirm = t.toConfirm /\ u.handled = t.handled
      /\ u.forgotten = t.forgotten \cup (ToSet(t.processed) \ ToSet(kept))
      /\ u = [processed |-> u.processed, min |-> u.min, toConfirm |-> u.toConfirm,
              handled |-> u.handled, forgotten |-> u.forgotten]
  BY DEF Session, SessionType, Trim
<1>3. kept = SubSeq(order, EraseCount + 1, Len(order))
  OBVIOUS
<1> HIDE DEF kept
<1>4. /\ kept \in Seq(Ids) /\ Len(kept) = Reach + 1
      /\ kept[1] \in ToSet(kept) /\ kept[1] \in Ids /\ ToSet(kept) \subseteq ToSet(t.processed)
      /\ \A m \in ToSet(kept) : kept[1] <= m
      /\ \A m \in ToSet(t.processed) \ ToSet(kept) : \A n \in ToSet(kept) : m < n
      /\ Distinct(t.processed) => Distinct(kept)
  <2>1. Highest(kept, t.processed)
    BY <1>1, <1>3, KeptIs
  <2> QED
    BY <2>1 DEF Highest
<1>5. Session(u)
  <2>1. /\ t.toConfirm \subseteq Content /\ t.handled \in [Ids -> 0..2] /\ t.forgotten \subseteq Ids
        /\ ToSet(t.processed) \subseteq Ids
    BY Fields DEF Known
  <2>2. Reach + 1 <= WindowSize + 1
    BY Identifiers
  <2> QED
    BY <1>2, <1>4, <2>1, <2>2, Whole
<1> QED
  BY <1>2, <1>4, <1>5 DEF Known

Remembered(t, m, u) ==
    /\ Session(u) /\ u.min = t.min /\ u.toConfirm = t.toConfirm /\ u.handled = t.handled
    /\ m < t.min => u.forgotten = t.forgotten \cup {m}
    /\ ~(m < t.min) => u.forgotten = t.forgotten
    /\ Known(u) = Known(t) \cup {m}
    /\ Distinct(t.processed) /\ m \notin Known(t) => Distinct(u.processed)

LEMMA RememberIs ==
    ASSUME NEW t, Session(t), Len(t.processed) <= WindowSize, NEW m \in Ids, NEW u, u = Remember(t, m)
    PROVE  Remembered(t, m, u)
<1> DEFINE q == t.processed
           r == Append(q, m)
<1>1. q \in Seq(Ids) /\ Len(q) \in Nat /\ DOMAIN q = 1..Len(q)
      /\ Known(t) = {q[i] : i \in 1..Len(q)}
  BY Fields
<1>2. /\ u.processed = r /\ u.min = t.min /\ u.toConfirm = t.toConfirm /\ u.handled = t.handled
      /\ u.forgotten = (IF m < t.min THEN t.forgotten \cup {m} ELSE t.forgotten)
      /\ u = [processed |-> u.processed, min |-> u.min, toConfirm |-> u.toConfirm,
              handled |-> u.handled, forgotten |-> u.forgotten]
  BY DEF Session, SessionType, Remember
<1> HIDE DEF q
<1>3. /\ r \in Seq(Ids) /\ Len(r) = Len(q) + 1 /\ DOMAIN r = 1..Len(q) + 1 /\ r[Len(q) + 1] = m
      /\ \A i \in 1..Len(q) : r[i] = q[i]
  BY <1>1
<1> HIDE DEF r
<1>4. ToSet(r) = ToSet(q) \cup {m}
  <2>1. ToSet(r) = {r[i] : i \in 1..Len(q) + 1}
    BY <1>3 DEF ToSet
  <2>2. ToSet(q) = {q[i] : i \in 1..Len(q)}
    BY <1>1 DEF ToSet
  <2>3. 1..Len(q) + 1 = 1..Len(q) \cup {Len(q) + 1}
    BY <1>1
  <2> QED
    BY <1>3, <2>1, <2>2, <2>3
<1>5. Distinct(q) /\ m \notin ToSet(q) => Distinct(r)
  <2> SUFFICES ASSUME Distinct(q), m \notin ToSet(q), NEW i \in 1..Len(q) + 1, NEW j \in 1..Len(q) + 1,
                      r[i] = r[j]
               PROVE  i = j
    BY <1>3 DEF Distinct
  <2>1. \A k \in 1..Len(q) : r[k] # m
    BY <1>1, <1>3 DEF ToSet
  <2>2. \A k \in 1..Len(q) + 1 : k \in 1..Len(q) \/ k = Len(q) + 1
    BY <1>1
  <2>3. CASE i = Len(q) + 1 \/ j = Len(q) + 1
    BY <1>3, <2>1, <2>2, <2>3
  <2>4. CASE i \in 1..Len(q) /\ j \in 1..Len(q)
    BY <1>1, <1>3, <2>4 DEF Distinct
  <2> QED
    BY <2>2, <2>3, <2>4
<1>6. Session(u)
  <2>1. t.min \in Ids \cup {0} /\ t.toConfirm \subseteq Content /\ t.handled \in [Ids -> 0..2] /\ t.forgotten \subseteq Ids
    BY Fields
  <2>2. u.forgotten \subseteq Ids
    BY <1>2, <2>1
  <2>3. Len(r) <= WindowSize + 1
    BY <1>1, <1>3, Identifiers DEF q
  <2> QED
    BY <1>2, <1>3, <2>1, <2>2, <2>3, Whole
<1> QED
  BY <1>2, <1>4, <1>5, <1>6 DEF Known, q, Remembered

(* addProcessedMessageId: what was recognised still is, or was forgotten.    *)
Added(t, m, u) ==
    /\ Session(u) /\ u.toConfirm = t.toConfirm /\ u.handled = t.handled
    /\ t.forgotten \subseteq u.forgotten /\ Known(u) \subseteq Known(t) \cup {m}
    /\ \A x \in Ids : x = m \/ (x \in Known(t) /\ t.min <= x)
                      => x \in u.forgotten \/ (x \in Known(u) /\ u.min <= x)

(* What it erases, and what is below the minimum, is past.                   *)
Counted(t, m, u, ids) ==
    /\ Distinct(u.processed)
    /\ \A x \in Ids : x < u.min => x < t.min \/ Since(x, ids) > Reach
    /\ \A x \in Known(t) \cup {m} : x \in Known(u) \/ Since(x, ids) > Reach

LEMMA AddedIs ==
    ASSUME NEW t, Session(t), NEW m \in Ids, NEW u \in AddProcessedMessageId(t, m)
    PROVE  Added(t, m, u)
<1>1. Ids \subseteq Nat /\ t.min \in Nat /\ m \in Nat /\ Len(t.processed) \in Nat /\ WindowSize \in Nat
  BY Identifiers, Fields
<1>2. CASE Len(t.processed) <= WindowSize
  <2>1. u = Remember(t, m)
    BY <1>2 DEF AddProcessedMessageId
  <2>2. Remembered(t, m, u)
    BY <1>2, <2>1, RememberIs
  <2> QED
    BY <1>1, <2>2 DEF Added, Remembered
<1>3. CASE ~(Len(t.processed) <= WindowSize)
  <2>1. PICK order \in Sorted(t.processed) : u = Remember(Trim(t, order), m)
    BY <1>3 DEF AddProcessedMessageId
  <2> DEFINE v == Trim(t, order)
  <2>2. /\ Session(v) /\ Len(v.processed) = Reach + 1
        /\ v.toConfirm = t.toConfirm /\ v.handled = t.handled
        /\ v.forgotten = t.forgotten \cup (Known(t) \ Known(v))
        /\ Known(v) \subseteq Known(t) /\ \A x \in Known(v) : v.min <= x
    BY <1>1, <1>3, TrimIs
  <2>3. u = Remember(v, m)
    BY <2>1
  <2> HIDE DEF v
  <2>4. Len(v.processed) <= WindowSize
    BY <2>2, Identifiers
  <2>5. Remembered(v, m, u)
    BY <2>2, <2>3, <2>4, RememberIs
  <2>6. v.min \in Nat
    BY <2>2, Fields
  <2>7. m \in u.forgotten \/ (m \in Known(u) /\ u.min <= m)
    BY <1>1, <2>5, <2>6 DEF Remembered
  <2>8. \A x \in Known(t) : x \in u.forgotten \/ (x \in Known(u) /\ u.min <= x)
    BY <2>2, <2>5 DEF Remembered
  <2> QED
    BY <2>2, <2>5, <2>7, <2>8 DEF Added, Remembered
<1> QED
  BY <1>2, <1>3

LEMMA AddedCounts ==
    ASSUME NEW t, Session(t), NEW m \in Ids, NEW u \in AddProcessedMessageId(t, m),
           Distinct(t.processed), m \notin Known(t), NEW ids \in SUBSET Ids, Known(t) \subseteq ids
    PROVE  Counted(t, m, u, ids)
<1>1. Ids \subseteq Nat /\ t.min \in Nat /\ m \in Nat /\ Len(t.processed) \in Nat /\ WindowSize \in Nat
  BY Identifiers, Fields
<1>2. CASE Len(t.processed) <= WindowSize
  <2>1. u = Remember(t, m)
    BY <1>2 DEF AddProcessedMessageId
  <2>2. Remembered(t, m, u)
    BY <1>2, <2>1, RememberIs
  <2> QED
    BY <2>2 DEF Counted, Remembered
<1>3. CASE ~(Len(t.processed) <= WindowSize)
  <2>1. PICK order \in Sorted(t.processed) : u = Remember(Trim(t, order), m)
    BY <1>3 DEF AddProcessedMessageId
  <2> DEFINE v == Trim(t, order)
  <2>2. /\ Session(v) /\ Len(v.processed) = Reach + 1 /\ Distinct(v.processed)
        /\ Known(v) \subseteq Known(t) /\ v.min \in Known(v) /\ (\A x \in Known(v) : v.min <= x)
        /\ \A x \in Known(t) \ Known(v) : \A n \in Known(v) : x < n
    BY <1>1, <1>3, TrimIs
  <2>3. u = Remember(v, m)
    BY <2>1
  <2> HIDE DEF v
  <2>4. Len(v.processed) <= WindowSize
    BY <2>2, Identifiers
  <2>5. Remembered(v, m, u)
    BY <2>2, <2>3, <2>4, RememberIs
  <2>6. \A x \in Ids : (\A n \in Known(v) : x < n) => Since(x, ids) > Reach
    <3> SUFFICES ASSUME NEW x \in Ids, \A n \in Known(v) : x < n
                 PROVE  Since(x, ids) > Reach
      OBVIOUS
    <3>1. v.processed \in Seq(Ids) /\ \A i \in DOMAIN v.processed : v.processed[i] \in Known(v)
      BY <2>2, Fields DEF Known, ToSet
    <3>2. Since(x, ids) >= Reach + 1
      BY <1>1, <2>2, <3>1, SinceAtLeast
    <3>3. Since(x, ids) \in Nat /\ Reach \in Nat
      BY SinceGrows, Identifiers
    <3> QED
      BY <3>2, <3>3
  <2>7. \A x \in Ids : x < v.min => \A n \in Known(v) : x < n
    <3>1. v.min \in Nat /\ \A n \in Known(v) : n \in Nat
      BY <1>1, <2>2, Fields
    <3> QED
      BY <1>1, <2>2, <3>1
  <2>8. Known(t) \subseteq Ids
    BY Fields
  <2> QED
    BY <2>2, <2>5, <2>6, <2>7, <2>8 DEF Counted, Remembered
<1> QED
  BY <1>2, <1>3

-----------------------------------------------------------------------------
(* What the other operations make of a session.                              *)
Listed(t, m, u) ==
    /\ Session(u) /\ u.processed = t.processed /\ u.min = t.min /\ u.handled = t.handled
    /\ u.forgotten = t.forgotten /\ u.toConfirm \subseteq t.toConfirm \cup {m}

LEMMA ListedIs ==
    ASSUME NEW t, Session(t), NEW m \in Messages, NEW u, u = AddMessageToConfirm(t, m)
    PROVE  Listed(t, m, u)
<1>1. /\ u.processed = t.processed /\ u.min = t.min /\ u.handled = t.handled /\ u.forgotten = t.forgotten
      /\ m \in Content => u.toConfirm = t.toConfirm \cup {m}
      /\ m \notin Content => u.toConfirm = t.toConfirm
      /\ u = [processed |-> u.processed, min |-> u.min, toConfirm |-> u.toConfirm,
              handled |-> u.handled, forgotten |-> u.forgotten]
  BY DEF Session, SessionType, AddMessageToConfirm
<1>2. /\ t.processed \in Seq(Ids) /\ Len(t.processed) <= WindowSize + 1 /\ t.min \in Ids \cup {0}
      /\ t.toConfirm \subseteq Content /\ t.handled \in [Ids -> 0..2] /\ t.forgotten \subseteq Ids
  BY Fields
<1>3. u.toConfirm \subseteq Content /\ u.toConfirm \subseteq t.toConfirm \cup {m}
  BY <1>1, <1>2
<1>4. Session(u)
  BY <1>1, <1>2, <1>3, Whole
<1> QED
  BY <1>1, <1>3, <1>4 DEF Listed

Emptied(t, u) ==
    /\ Session(u) /\ u.processed = t.processed /\ u.min = t.min /\ u.handled = t.handled
    /\ u.forgotten = t.forgotten /\ u.toConfirm = {}

LEMMA EmptiedIs ==
    ASSUME NEW t, Session(t), NEW u, u = [t EXCEPT !.toConfirm = {}]
    PROVE  Emptied(t, u)
<1>1. /\ u.processed = t.processed /\ u.min = t.min /\ u.handled = t.handled /\ u.forgotten = t.forgotten
      /\ u.toConfirm = {}
      /\ u = [processed |-> u.processed, min |-> u.min, toConfirm |-> u.toConfirm,
              handled |-> u.handled, forgotten |-> u.forgotten]
  BY DEF Session, SessionType
<1>2. /\ t.processed \in Seq(Ids) /\ Len(t.processed) <= WindowSize + 1 /\ t.min \in Ids \cup {0}
      /\ t.handled \in [Ids -> 0..2] /\ t.forgotten \subseteq Ids
  BY Fields
<1>3. Session(u)
  BY <1>1, <1>2, Whole
<1> QED
  BY <1>1, <1>3 DEF Emptied

Recreated(t, u) ==
    /\ Session(u) /\ u.processed = <<>> /\ Known(u) = {} /\ Distinct(u.processed)
    /\ u.min = t.min /\ u.handled = t.handled
    /\ u.forgotten = t.forgotten \cup Known(t) /\ u.toConfirm = {}

LEMMA RecreatedIs ==
    ASSUME NEW t, Session(t), NEW u, u = RecreateSession(t)
    PROVE  Recreated(t, u)
<1>1. /\ u.processed = <<>> /\ u.min = t.min /\ u.handled = t.handled
      /\ u.forgotten = t.forgotten \cup Known(t) /\ u.toConfirm = {}
      /\ u = [processed |-> u.processed, min |-> u.min, toConfirm |-> u.toConfirm,
              handled |-> u.handled, forgotten |-> u.forgotten]
  BY DEF Session, SessionType, RecreateSession, Known
<1>2. /\ t.min \in Ids \cup {0} /\ t.handled \in [Ids -> 0..2] /\ t.forgotten \subseteq Ids
      /\ Known(t) \subseteq Ids
  BY Fields
<1>3. u.processed \in Seq(Ids) /\ Len(u.processed) = 0 /\ DOMAIN u.processed = {} /\ WindowSize \in Nat
  BY <1>1, Identifiers
<1>4. Known(u) = {} /\ Distinct(u.processed)
  BY <1>3 DEF Known, ToSet, Distinct
<1>5. Len(u.processed) <= WindowSize + 1 /\ u.forgotten \subseteq Ids /\ u.toConfirm \subseteq Content
  BY <1>1, <1>2, <1>3
<1>6. Session(u)
  BY <1>1, <1>2, <1>3, <1>5, Whole
<1> QED
  BY <1>1, <1>4, <1>6 DEF Recreated

(* Handling a message, and what recreating the session does to it.           *)
Handling(t, m, u) ==
    /\ Session(u) /\ u.min = t.min
    /\ \A x \in Ids : x # m => u.handled[x] = t.handled[x]
    /\ u.handled[m] > 0 /\ u.handled[m] <= t.handled[m] + 1
    /\ u.toConfirm \subseteq t.toConfirm
    /\ m \notin Resets => u.processed = t.processed /\ u.forgotten = t.forgotten
    /\ m \in Resets => u.processed = <<>> /\ Known(u) = {} /\ u.forgotten = t.forgotten \cup Known(t)

LEMMA HandlingIs ==
    ASSUME NEW t, Session(t), NEW m \in Messages, NEW u, u = Handle(t, m)
    PROVE  Handling(t, m, u)
<1> DEFINE v == IF m \in Resets THEN RecreateSession(t) ELSE t
           count == IF v.handled[m] < Twice THEN v.handled[m] + 1 ELSE v.handled[m]
<1>1. /\ Session(v) /\ v.min = t.min /\ v.handled = t.handled /\ v.toConfirm \subseteq t.toConfirm
      /\ m \notin Resets => v.processed = t.processed /\ v.forgotten = t.forgotten
      /\ m \in Resets => v.processed = <<>> /\ Known(v) = {} /\ v.forgotten = t.forgotten \cup Known(t)
  <2>1. CASE m \in Resets
    <3>1. v = RecreateSession(t)
      BY <2>1
    <3>2. Recreated(t, v)
      BY <3>1, RecreatedIs
    <3> QED
      BY <2>1, <3>2 DEF Recreated
  <2>2. CASE m \notin Resets
    BY <2>2
  <2> QED
    BY <2>1, <2>2
<1>2. u = [v EXCEPT !.handled = [v.handled EXCEPT ![m] = count]]
  BY DEF Handle
<1>3. /\ v.processed \in Seq(Ids) /\ Len(v.processed) <= WindowSize + 1 /\ v.min \in Ids \cup {0}
      /\ v.toConfirm \subseteq Content /\ v.handled \in [Ids -> 0..2] /\ v.forgotten \subseteq Ids
  BY <1>1, Fields
<1>4. m \in Ids
  BY Identifiers
<1>5. v.handled[m] \in 0..2
  BY <1>3, <1>4
<1>6. count \in 0..2 /\ count > 0 /\ count <= v.handled[m] + 1
  BY <1>5 DEF Twice
<1>7. v \in SessionType
  BY <1>1 DEF Session
<1> HIDE DEF v, count
<1>8. /\ u.processed = v.processed /\ u.min = v.min /\ u.toConfirm = v.toConfirm /\ u.forgotten = v.forgotten
      /\ u.handled = [v.handled EXCEPT ![m] = count]
      /\ u = [processed |-> u.processed, min |-> u.min, toConfirm |-> u.toConfirm,
              handled |-> u.handled, forgotten |-> u.forgotten]
  BY <1>2, <1>7 DEF SessionType
<1>9. /\ u.handled \in [Ids -> 0..2] /\ u.handled[m] = count
      /\ \A x \in Ids : x # m => u.handled[x] = v.handled[x]
  BY <1>3, <1>4, <1>6, <1>8
<1>10. Session(u)
  BY <1>3, <1>8, <1>9, Whole
<1>11. m \in Resets => Known(u) = {}
  BY <1>1, <1>8 DEF Known
<1> QED
  BY <1>1, <1>6, <1>8, <1>9, <1>10, <1>11 DEF Handling

(* A message put on the list to confirm, handled and remembered.             *)
Taking(t, m, u) == u \in AddProcessedMessageId(Handle(AddMessageToConfirm(t, m), m), m)

Taken(t, m, u) ==
    /\ Session(u)
    /\ \A x \in Ids : x # m => u.handled[x] = t.handled[x]
    /\ u.handled[m] > 0 /\ u.handled[m] <= t.handled[m] + 1
    /\ u.toConfirm \subseteq t.toConfirm \cup {m} /\ t.forgotten \subseteq u.forgotten
    /\ Known(u) \subseteq Known(t) \cup {m}
    /\ \A x \in Ids : x = m \/ (x \in Known(t) /\ t.min <= x)
                      => x \in u.forgotten \/ (x \in Known(u) /\ u.min <= x)

LEMMA TakenIs ==
    ASSUME NEW t, Session(t), NEW m \in Messages, NEW u, Taking(t, m, u)
    PROVE  Taken(t, m, u)
<1> DEFINE c == AddMessageToConfirm(t, m)
           v == Handle(c, m)
<1>1. Listed(t, m, c)
  BY ListedIs
<1>2. Handling(c, m, v)
  BY <1>1, HandlingIs DEF Listed
<1>3. u \in AddProcessedMessageId(v, m)
  BY DEF Taking
<1> HIDE DEF c, v
<1>4. m \in Ids
  BY Identifiers
<1>5. Added(v, m, u)
  BY <1>2, <1>3, <1>4, AddedIs DEF Handling
<1>6. v.min = t.min /\ t.forgotten \subseteq v.forgotten /\ Known(v) \subseteq Known(t)
      /\ \A x \in Known(t) : x \in v.forgotten \/ x \in Known(v)
  BY <1>1, <1>2 DEF Listed, Handling, Known
<1>7. Known(u) \subseteq Known(t) \cup {m} /\ t.forgotten \subseteq u.forgotten /\ Session(u)
  BY <1>5, <1>6 DEF Added
<1>8. u.handled = v.handled /\ u.toConfirm = v.toConfirm
  BY <1>5 DEF Added
<1>9. /\ \A x \in Ids : x # m => u.handled[x] = t.handled[x]
      /\ u.handled[m] > 0 /\ u.handled[m] <= t.handled[m] + 1
      /\ u.toConfirm \subseteq t.toConfirm \cup {m}
  BY <1>1, <1>2, <1>8 DEF Listed, Handling
<1>10. \A x \in Ids : x = m \/ (x \in Known(t) /\ t.min <= x)
                      => x \in u.forgotten \/ (x \in Known(u) /\ u.min <= x)
  BY <1>5, <1>6 DEF Added
<1> QED
  BY <1>7, <1>9, <1>10 DEF Taken

LEMMA TakenCounts ==
    ASSUME NEW t, Session(t), NEW m \in Messages \ Resets, NEW u, Taking(t, m, u),
           Distinct(t.processed), m \notin Known(t), NEW ids \in SUBSET Ids, Known(t) \subseteq ids
    PROVE  /\ Distinct(u.processed)
           /\ \A x \in Ids : x < u.min => x < t.min \/ Since(x, ids) > Reach
           /\ \A x \in Known(t) \cup {m} : x \in Known(u) \/ Since(x, ids) > Reach
<1> DEFINE c == AddMessageToConfirm(t, m)
           v == Handle(c, m)
<1>1. Listed(t, m, c)
  BY ListedIs
<1>2. Handling(c, m, v)
  BY <1>1, HandlingIs DEF Listed
<1>3. u \in AddProcessedMessageId(v, m)
  BY DEF Taking
<1> HIDE DEF c, v
<1>4. m \in Ids
  BY Identifiers
<1>5. v.processed = t.processed /\ v.min = t.min /\ Known(v) = Known(t) /\ Session(v)
  BY <1>1, <1>2 DEF Listed, Handling, Known
<1>6. Distinct(v.processed) /\ m \notin Known(v) /\ Known(v) \subseteq ids
  BY <1>5
<1>7. Counted(v, m, u, ids)
  BY <1>3, <1>4, <1>5, <1>6, AddedCounts
<1> QED
  BY <1>5, <1>7 DEF Counted

-----------------------------------------------------------------------------
(* What is past stays past.                                                  *)
LEMMA PastStays ==
    ASSUME sent \in SUBSET Ids, sent' \in SUBSET Ids, sent \subseteq sent'
    PROVE  \A m \in Ids : Past(m) => Past(m)'
<1> TAKE m \in Ids
<1>1. Since(m, sent) \in Nat /\ Since(m, sent') \in Nat /\ Since(m, sent) <= Since(m, sent') /\ Reach \in Nat
  BY SinceGrows, Identifiers
<1> QED
  BY <1>1 DEF Past

(* What the server sends in time: no message is below the minimum, and none  *)
(* that was handled is without its trace.                                    *)
InTime(m) ==
    /\ m \notin Resets /\ Since(m, sent') <= Reach /\ \A n \in old : n < m

LEMMA StatusInTime ==
    ASSUME Types, sent' \in SUBSET Ids, sent \subseteq sent', Window, NEW m \in Ids, InTime(m)
    PROVE  /\ s.min <= m
           /\ IsMessageIdProcessed(s, m) = 0 <=> m \notin Known(s)
           /\ IsMessageIdProcessed(s, m) = 1 <=> m \in Known(s)
           /\ m \in Messages \ Unparsed /\ m \notin Known(s) => s.handled[m] = 0
<1>1. ~Past(m)' /\ ~Past(m)
  <2>1. Since(m, sent') \in Nat /\ Reach \in Nat
    BY SinceGrows, Identifiers
  <2>2. ~Past(m)'
    BY <2>1 DEF Past, InTime
  <2>3. sent \in SUBSET Ids
    BY DEF Types
  <2> QED
    BY <2>2, <2>3, PastStays
<1>2. m \in Nat /\ s.min \in Nat /\ Session(s)
  BY Identifiers, Fields DEF Types
<1>3. s.min <= m
  BY <1>1, <1>2 DEF Window
<1>4. m \notin old
  BY <1>2 DEF InTime
<1>5. s.handled[m] \in Nat
  BY <1>2, Fields
<1>6. m \in Messages \ Unparsed /\ m \notin Known(s) => ~(s.handled[m] > 0)
  BY <1>1, <1>4 DEF Window
<1> QED
  BY <1>2, <1>3, <1>5, <1>6, StatusIs

-----------------------------------------------------------------------------
(* The operations on the session, as steps of the whole: what is left of the *)
(* container, if anything is, was sent before.                               *)
Within ==
    /\ inside' \in [id : Containers \cup {0}, rest : SUBSET Messages]
    /\ inside'.id = inside.id /\ inside'.rest \subseteq inside.rest
    /\ sent' \in SUBSET Ids /\ sent \subseteq sent' /\ (Current # {} => sent' = sent)

LEMMA StillInside ==
    ASSUME Types, Within
    PROVE  /\ Current' \subseteq Current
           /\ inside'.id = 0 => inside'.rest = {}
           /\ sent \in SUBSET Ids
           /\ \A m \in Ids : Past(m) => Past(m)'
           /\ \A m \in Current' : Past(m)' => Past(m)
<1>1. Current' \subseteq Current /\ (inside'.id = 0 => inside'.rest = {}) /\ sent \in SUBSET Ids
  BY DEF Within, Types, Current
<1>2. \A m \in Ids : Past(m) => Past(m)'
  BY <1>1, PastStays DEF Within
<1>3. \A m \in Current' : Past(m)' => Past(m)
  <2> SUFFICES ASSUME NEW m \in Current', Past(m)'
               PROVE  Past(m)
    OBVIOUS
  <2>1. sent' = sent
    BY <1>1 DEF Within
  <2> QED
    BY <2>1 DEF Past
<1> QED
  BY <1>1, <1>2, <1>3

LEMMA TakenKeeps ==
    ASSUME Inv, Within, NEW m \in Messages, m \in sent', Taking(s, m, s'),
           IsMessageIdProcessed(s, m) # 1, Abandon(m \in Resets), careless \/ InTime(m)
    PROVE  Inv'
<1>1. Types /\ Sensible /\ Recognised /\ (~careless => Window)
  BY DEF Inv
<1>2. Session(s)
  BY <1>1 DEF Types
<1>3. Taken(s, m, s')
  BY <1>2, TakenIs
<1>4. m \in Ids /\ Messages \subseteq Ids /\ Ids \subseteq Nat /\ Content \subseteq Messages
  BY Identifiers
<1>5. /\ Current' \subseteq Current
      /\ inside'.id = 0 => inside'.rest = {}
      /\ sent \in SUBSET Ids
      /\ \A x \in Ids : Past(x) => Past(x)'
      /\ \A x \in Current' : Past(x)' => Past(x)
  BY <1>1, StillInside
<1>6. /\ careless' = careless /\ confirmed' = confirmed
      /\ m \in Resets => old' = sent' /\ acks' = {}
      /\ m \notin Resets => old' = old /\ acks' = acks
  BY DEF Abandon
<1>7. Types'
  BY <1>1, <1>3, <1>5, <1>6 DEF Types, Within, Taken
<1>8. Sensible'
  BY <1>1, <1>3, <1>4, <1>5 DEF Sensible, Within, Taken
<1>9. s.handled[m] \in Nat /\ s.min \in Nat /\ m \in Nat /\ s'.handled[m] \in Nat
  BY <1>2, <1>3, <1>4, Fields DEF Taken
<1>10. s.handled[m] > 0 => m \in s.forgotten
  BY <1>1, <1>2, <1>4, <1>9, StatusIs DEF Recognised
<1>11. Recognised'
  <2>1. \A x \in Messages : s'.handled[x] > 0 => x \in s'.forgotten \/ (x \in Known(s') /\ s'.min <= x)
    BY <1>1, <1>3, <1>4 DEF Recognised, Taken
  <2>2. s'.handled[m] > 1 => m \in s'.forgotten
    BY <1>3, <1>9, <1>10 DEF Taken
  <2>3. \A x \in Messages : s'.handled[x] > 1 => x \in s'.forgotten
    BY <1>1, <1>3, <1>4, <2>2 DEF Recognised, HandledAgainOnlyIfForgotten, Taken
  <2> QED
    BY <2>1, <2>3 DEF Recognised, HandledAgainOnlyIfForgotten
<1>12. ASSUME ~careless PROVE Window'
  <2>1. Window /\ InTime(m)
    BY <1>1, <1>12
  <2>2. m \notin Resets /\ m \notin Known(s) /\ (m \notin Unparsed => s.handled[m] = 0)
    <3>1. sent' \in SUBSET Ids /\ sent \subseteq sent'
      BY DEF Within
    <3> QED
      BY <1>1, <1>4, <2>1, <3>1, StatusInTime DEF InTime
  <2>3. old' = old /\ acks' = acks
    BY <1>6, <2>2
  <2>4. Distinct(s.processed) /\ Known(s) \subseteq sent' /\ sent' \in SUBSET Ids
    BY <1>1, <2>1 DEF Window, Sensible, Within
  <2>5. /\ Distinct(s'.processed)
        /\ \A x \in Ids : x < s'.min => x < s.min \/ Since(x, sent') > Reach
        /\ \A x \in Known(s) \cup {m} : x \in Known(s') \/ Since(x, sent') > Reach
    BY <1>2, <2>2, <2>4, TakenCounts
  <2>6. \A x \in Ids : x < s'.min => Past(x)'
    BY <1>5, <2>1, <2>5 DEF Window, Past
  <2>7. \A x \in Current' : x \notin Resets /\ ~Past(x)' /\ \A n \in old' : n < x
    BY <1>5, <2>1, <2>3 DEF Window
  <2>8. inside'.id \notin Known(s')
    <3>1. inside.id \in Containers \cup {0} /\ inside'.id = inside.id /\ inside.id \notin Known(s)
      BY <1>1, <2>1 DEF Types, Within, Window
    <3>2. m \notin Containers /\ m # 0
      BY <1>4, SessionAssumption
    <3> QED
      BY <1>3, <3>1, <3>2 DEF Taken
  <2>9. \A x \in Messages \ Unparsed : s'.handled[x] > 0 => x \in Known(s') \cup old' \/ Past(x)'
    <3>1. \A x \in Known(s) \cup {m} : x \in Known(s') \/ Past(x)'
      BY <2>5 DEF Past
    <3>2. \A x \in Messages \ Unparsed : x # m /\ s'.handled[x] > 0 => x \in Known(s) \cup old \/ Past(x)
      BY <1>3, <1>4, <2>1 DEF Window, Taken
    <3> QED
      BY <1>4, <1>5, <2>3, <3>1, <3>2
  <2>10. \A x \in Messages \ Unparsed : s'.handled[x] <= 1
    <3>1. m \notin Unparsed => s'.handled[m] <= 1
      BY <1>3, <1>9, <2>2 DEF Taken
    <3> QED
      BY <1>3, <1>4, <2>1, <3>1 DEF Window, Taken
  <2>11. \A x \in s'.toConfirm \cup acks' \cup confirmed' : s'.handled[x] > 0
    <3>1. s'.toConfirm \cup acks' \cup confirmed' \subseteq s.toConfirm \cup acks \cup confirmed \cup {m}
      BY <1>3, <1>6, <2>3 DEF Taken
    <3>2. s.toConfirm \cup acks \cup confirmed \subseteq Ids
      BY <1>1, <1>2, <1>4, Fields DEF Types
    <3> QED
      BY <1>3, <2>1, <3>1, <3>2 DEF Window, Taken
  <2> QED
    BY <2>5, <2>6, <2>7, <2>8, <2>9, <2>10, <2>11 DEF Window
<1> QED
  BY <1>6, <1>7, <1>8, <1>11, <1>12 DEF Inv

(* A step that only lists and confirms.                                      *)
LEMMA ConfirmingKeeps ==
    ASSUME Inv, Within, Session(s'), s'.processed = s.processed, s'.min = s.min, s'.handled = s.handled,
           s'.forgotten = s.forgotten, old' = old, careless' = careless,
           acks' \subseteq Content, confirmed' \subseteq Content,
           ~careless => \A x \in s'.toConfirm \cup acks' \cup confirmed' : s.handled[x] > 0
    PROVE  Inv'
<1>1. Types /\ Sensible /\ Recognised /\ (~careless => Window)
  BY DEF Inv
<1>2. /\ Current' \subseteq Current
      /\ inside'.id = 0 => inside'.rest = {}
      /\ sent \in SUBSET Ids
      /\ \A x \in Ids : Past(x) => Past(x)'
      /\ \A x \in Current' : Past(x)' => Past(x)
  BY <1>1, StillInside
<1>3. Known(s') = Known(s)
  BY DEF Known
<1>4. Messages \subseteq Ids
  BY Identifiers
<1>5. Types'
  BY <1>1, <1>2 DEF Types, Within
<1>6. Sensible'
  BY <1>1, <1>2, <1>3 DEF Sensible, Within
<1>7. Recognised'
  BY <1>1, <1>3 DEF Recognised, HandledAgainOnlyIfForgotten
<1>8. ASSUME ~careless PROVE Window'
  <2>1. Window
    BY <1>1, <1>8
  <2>2. Distinct(s'.processed) /\ inside'.id \notin Known(s')
    BY <1>3, <2>1 DEF Window, Within
  <2>3. \A x \in Ids : x < s'.min => Past(x)'
    BY <1>2, <2>1 DEF Window
  <2>4. \A x \in Current' : x \notin Resets /\ ~Past(x)' /\ \A n \in old' : n < x
    BY <1>2, <2>1 DEF Window
  <2>5. \A x \in Messages \ Unparsed : s'.handled[x] > 0 => x \in Known(s') \cup old' \/ Past(x)'
    BY <1>2, <1>3, <1>4, <2>1 DEF Window
  <2>6. \A x \in Messages \ Unparsed : s'.handled[x] <= 1
    BY <2>1 DEF Window
  <2>7. \A x \in s'.toConfirm \cup acks' \cup confirmed' : s'.handled[x] > 0
    BY <1>8
  <2> QED
    BY <2>2, <2>3, <2>4, <2>5, <2>6, <2>7 DEF Window
<1> QED
  BY <1>5, <1>6, <1>7, <1>8 DEF Inv

(* A step that recreates the session and leaves nothing of a container.      *)
LEMMA RecreatingKeeps ==
    ASSUME Inv, Within, Session(s'), Known(s') = {}, Distinct(s'.processed), s'.min = s.min,
           s'.handled = s.handled, s'.forgotten = s.forgotten \cup Known(s), s'.toConfirm = {},
           Abandon(TRUE), careless \/ Current' = {}
    PROVE  Inv'
<1>1. Types /\ Sensible /\ Recognised /\ (~careless => Window)
  BY DEF Inv
<1>2. /\ Current' \subseteq Current
      /\ inside'.id = 0 => inside'.rest = {}
      /\ sent \in SUBSET Ids
      /\ \A x \in Ids : Past(x) => Past(x)'
  BY <1>1, StillInside
<1>3. old' = sent' /\ acks' = {} /\ confirmed' = confirmed /\ careless' = careless
  BY DEF Abandon
<1>4. Messages \subseteq Ids
  BY Identifiers
<1>5. Types'
  BY <1>1, <1>2, <1>3 DEF Types, Within
<1>6. Sensible'
  BY <1>1, <1>2 DEF Sensible, Within
<1>7. Recognised'
  BY <1>1 DEF Recognised, HandledAgainOnlyIfForgotten
<1>8. ASSUME ~careless PROVE Window'
  <2>1. Window /\ Current' = {}
    BY <1>1, <1>8
  <2>2. inside'.id \notin Known(s')
    OBVIOUS
  <2>3. \A x \in Ids : x < s'.min => Past(x)'
    BY <1>2, <2>1 DEF Window
  <2>4. \A x \in Messages \ Unparsed : s'.handled[x] > 0 => x \in old'
    BY <1>1, <1>3, <1>4 DEF Sensible, Within
  <2>5. \A x \in Messages \ Unparsed : s'.handled[x] <= 1
    BY <2>1 DEF Window
  <2>6. \A x \in s'.toConfirm \cup acks' \cup confirmed' : s'.handled[x] > 0
    BY <1>3, <2>1 DEF Window
  <2> QED
    BY <2>1, <2>2, <2>3, <2>4, <2>5, <2>6 DEF Window
<1> QED
  BY <1>3, <1>5, <1>6, <1>7, <1>8 DEF Inv

(* A message tgnet does not parse, handled on its own.                       *)
LEMMA UnparsedKeeps ==
    ASSUME Inv, Within, NEW m \in Messages \cap Unparsed, m \in sent',
           s' = [Handle(AddMessageToConfirm(s, m), m) EXCEPT !.forgotten = @ \cup {m}],
           Abandon(FALSE)
    PROVE  Inv'
<1> DEFINE c == AddMessageToConfirm(s, m)
           v == Handle(c, m)
<1>1. Types /\ Sensible /\ Recognised /\ (~careless => Window)
  BY DEF Inv
<1>2. Session(s)
  BY <1>1 DEF Types
<1>3. Listed(s, m, c)
  BY <1>2, ListedIs
<1>4. Handling(c, m, v)
  BY <1>3, HandlingIs DEF Listed
<1>5. s' = [v EXCEPT !.forgotten = v.forgotten \cup {m}]
  OBVIOUS
<1> HIDE DEF c, v
<1>6. /\ m \in Ids /\ m \notin Resets /\ Messages \subseteq Ids /\ Ids \subseteq Nat /\ Content \subseteq Messages
  BY Identifiers, SessionAssumption
<1>7. v \in SessionType /\ v.processed = s.processed /\ v.min = s.min /\ v.forgotten = s.forgotten
      /\ v.toConfirm \subseteq s.toConfirm \cup {m} /\ v.handled[m] > 0
      /\ \A x \in Ids : x # m => v.handled[x] = s.handled[x]
  BY <1>3, <1>4, <1>6 DEF Listed, Handling, Session
<1>8. /\ s'.processed = s.processed /\ s'.min = s.min /\ s'.forgotten = s.forgotten \cup {m}
      /\ s'.toConfirm \subseteq s.toConfirm \cup {m} /\ s'.handled[m] > 0
      /\ \A x \in Ids : x # m => s'.handled[x] = s.handled[x]
  BY <1>5, <1>7 DEF SessionType
<1>9. Session(s')
  <2>1. s' \in SessionType
    <3>1. v.forgotten \cup {m} \in SUBSET Ids
      BY <1>6, <1>7 DEF SessionType
    <3> QED
      BY ONLY <1>5, <1>7, <3>1 DEF SessionType
  <2>2. Len(s.processed) <= WindowSize + 1
    BY <1>2 DEF Session
  <2> QED
    BY <1>8, <2>1, <2>2 DEF Session
<1>10. Known(s') = Known(s)
  BY <1>8 DEF Known
<1>11. /\ Current' \subseteq Current
       /\ inside'.id = 0 => inside'.rest = {}
       /\ sent \in SUBSET Ids
       /\ \A x \in Ids : Past(x) => Past(x)'
       /\ \A x \in Current' : Past(x)' => Past(x)
  BY <1>1, StillInside
<1>12. old' = old /\ acks' = acks /\ confirmed' = confirmed /\ careless' = careless
  BY DEF Abandon
<1>13. Types'
  BY <1>1, <1>9, <1>11, <1>12 DEF Types, Within
<1>14. Sensible'
  BY <1>1, <1>6, <1>8, <1>10, <1>11 DEF Sensible, Within
<1>15. Recognised'
  BY <1>1, <1>6, <1>8, <1>10 DEF Recognised, HandledAgainOnlyIfForgotten
<1>16. ASSUME ~careless PROVE Window'
  <2>1. Window
    BY <1>1, <1>16
  <2>2. Distinct(s'.processed) /\ inside'.id \notin Known(s')
    BY <1>8, <1>10, <2>1 DEF Window, Within
  <2>3. \A x \in Ids : x < s'.min => Past(x)'
    BY <1>8, <1>11, <2>1 DEF Window
  <2>4. \A x \in Current' : x \notin Resets /\ ~Past(x)' /\ \A n \in old' : n < x
    BY <1>11, <1>12, <2>1 DEF Window
  <2>5. \A x \in Messages \ Unparsed : x # m /\ s'.handled[x] = s.handled[x]
    BY <1>6, <1>8
  <2>6. \A x \in Messages \ Unparsed : s'.handled[x] > 0 => x \in Known(s') \cup old' \/ Past(x)'
    BY <1>6, <1>10, <1>11, <1>12, <2>1, <2>5 DEF Window
  <2>7. \A x \in Messages \ Unparsed : s'.handled[x] <= 1
    BY <2>1, <2>5 DEF Window
  <2>8. \A x \in s'.toConfirm \cup acks' \cup confirmed' : s'.handled[x] > 0
    <3>1. s'.toConfirm \cup acks' \cup confirmed' \subseteq s.toConfirm \cup acks \cup confirmed \cup {m}
      BY <1>8, <1>12
    <3>2. s.toConfirm \cup acks \cup confirmed \subseteq Ids
      BY <1>1, <1>2, <1>6, Fields DEF Types
    <3> QED
      BY <1>8, <2>1, <3>1, <3>2 DEF Window
  <2> QED
    BY <2>2, <2>3, <2>4, <2>6, <2>7, <2>8 DEF Window
<1> QED
  BY <1>12, <1>13, <1>14, <1>15, <1>16 DEF Inv

-----------------------------------------------------------------------------
(* The actions.                                                              *)
LEMMA Begins == Init => Inv
<1> SUFFICES ASSUME Init PROVE Inv
  OBVIOUS
<1>1. /\ s.processed = <<>> /\ s.min = 0 /\ s.toConfirm = {} /\ s.forgotten = {}
      /\ s.handled = [m \in Ids |-> 0]
      /\ s = [processed |-> s.processed, min |-> s.min, toConfirm |-> s.toConfirm,
              handled |-> s.handled, forgotten |-> s.forgotten]
  BY DEF Init
<1>2. /\ inside = [id |-> 0, rest |-> {}] /\ sent = {} /\ old = {} /\ acks = {} /\ confirmed = {}
      /\ careless \in BOOLEAN
  BY SessionAssumption DEF Init, Closed
<1>3. s.processed \in Seq(Ids) /\ Len(s.processed) = 0 /\ DOMAIN s.processed = {}
  BY <1>1
<1>4. Len(s.processed) <= WindowSize + 1
  BY <1>3, Identifiers
<1>5. s.handled \in [Ids -> 0..2] /\ \A m \in Ids : s.handled[m] = 0
  BY <1>1
<1>6. s.min \in Ids \cup {0} /\ s.toConfirm \subseteq Content /\ s.forgotten \subseteq Ids
  BY <1>1
<1>7. Session(s)
  BY <1>1, <1>3, <1>4, <1>5, <1>6, Whole
<1>8. Known(s) = {} /\ Distinct(s.processed) /\ Current = {} /\ Messages \subseteq Ids /\ Ids \subseteq Nat
  BY <1>2, <1>3, Identifiers DEF Known, ToSet, Distinct, Current
<1>9. Types
  BY <1>2, <1>7 DEF Types
<1>10. Sensible
  BY <1>5, <1>8 DEF Sensible
<1>11. Recognised
  BY <1>5, <1>8 DEF Recognised, HandledAgainOnlyIfForgotten
<1>12. \A m \in Ids : ~(m < s.min)
  BY <1>1, <1>8
<1>13. \A m \in Messages \ Unparsed : s.handled[m] <= 1
  BY <1>5, <1>8
<1>14. Window
  BY <1>1, <1>2, <1>5, <1>8, <1>12, <1>13 DEF Window
<1> QED
  BY <1>9, <1>10, <1>11, <1>14 DEF Inv

LEMMA ReceiveMessageKeeps ==
    ASSUME Inv, NEW m \in Messages, ReceiveMessage(m)
    PROVE  Inv'
<1> DEFINE c == AddMessageToConfirm(s, m)
           status == IsMessageIdProcessed(s, m)
<1>1. Types /\ Sensible /\ Recognised /\ (~careless => Window) /\ Session(s)
  BY DEF Inv, Types
<1>2. inside = Closed /\ inside' = inside /\ sent' = sent \cup {m} /\ MaySend({m})
  BY DEF ReceiveMessage
<1>3. m \in Ids /\ Content \subseteq Messages /\ Messages \subseteq Ids
  BY Identifiers
<1>4. Current = {} /\ Current' = {} /\ m \in sent'
  BY <1>2 DEF Current, Closed
<1>5. Within
  BY <1>1, <1>2, <1>3, <1>4 DEF Types, Within
<1>6. careless \/ InTime(m)
  BY <1>2 DEF MaySend, InTime, Reach
<1>7. Listed(s, m, c)
  BY <1>1, ListedIs
<1>8. careless \/ status # 2
  <2> SUFFICES ASSUME ~careless PROVE status # 2
    OBVIOUS
  <2>1. s.min <= m
    BY <1>1, <1>3, <1>5, <1>6, StatusInTime DEF Within
  <2>2. s.min \in Nat /\ m \in Nat
    BY <1>1, <1>3, Identifiers, Fields
  <2> QED
    BY <1>1, <1>3, <2>1, <2>2, StatusIs
<1>9. CASE status = 0 /\ m \notin Unparsed /\ s' \in AddProcessedMessageId(Handle(c, m), m) /\ Abandon(m \in Resets)
  BY <1>4, <1>5, <1>6, <1>9, TakenKeeps DEF Taking
<1>10. CASE m \in Unparsed /\ s' = [Handle(c, m) EXCEPT !.forgotten = @ \cup {m}] /\ Abandon(FALSE)
  BY <1>4, <1>5, <1>10, UnparsedKeeps
<1>11. CASE status = 2 /\ s' = RecreateSession(c) /\ Abandon(TRUE)
  <2>1. Recreated(c, s')
    BY <1>7, <1>11, RecreatedIs DEF Listed
  <2>2. Known(c) = Known(s)
    BY <1>7 DEF Listed, Known
  <2> HIDE DEF c
  <2>3. /\ Session(s') /\ Known(s') = {} /\ Distinct(s'.processed) /\ s'.min = s.min
        /\ s'.handled = s.handled /\ s'.forgotten = s.forgotten \cup Known(s) /\ s'.toConfirm = {}
    BY <1>7, <2>1, <2>2 DEF Listed, Recreated
  <2> QED
    BY <1>4, <1>5, <1>11, <2>3, RecreatingKeeps
<1>12. CASE /\ status = 1 \/ (status = 2 /\ m \notin Unparsed)
            /\ s' = [c EXCEPT !.toConfirm = {}]
            /\ acks' = acks \cup c.toConfirm
            /\ UNCHANGED <<old, confirmed, careless>>
  <2>1. Emptied(c, s')
    BY <1>7, <1>12, EmptiedIs DEF Listed
  <2>2. acks' = acks \cup c.toConfirm /\ old' = old /\ confirmed' = confirmed /\ careless' = careless
    BY <1>12
  <2>3. careless \/ s.handled[m] > 0
    BY <1>1, <1>3, <1>8, <1>12, StatusIs DEF Sensible
  <2> HIDE DEF c
  <2>4. /\ Session(s') /\ s'.processed = s.processed /\ s'.min = s.min /\ s'.handled = s.handled
        /\ s'.forgotten = s.forgotten /\ s'.toConfirm = {}
    BY <1>7, <2>1 DEF Listed, Emptied
  <2>5. c.toConfirm \subseteq Content /\ c.toConfirm \subseteq s.toConfirm \cup {m}
    BY <1>7, Fields DEF Listed
  <2>6. acks' \subseteq Content /\ confirmed' \subseteq Content
    BY <1>1, <2>2, <2>5 DEF Types
  <2>7. ~careless => \A x \in s'.toConfirm \cup acks' \cup confirmed' : s.handled[x] > 0
    BY <1>1, <2>2, <2>3, <2>4, <2>5 DEF Window
  <2> QED
    BY <1>5, <2>2, <2>4, <2>6, <2>7, ConfirmingKeeps
<1> QED
  BY <1>9, <1>10, <1>11, <1>12 DEF ReceiveMessage

LEMMA InnerMessageKeeps ==
    ASSUME Inv, NEW m \in Messages, InnerMessage(m)
    PROVE  Inv'
<1> DEFINE c == AddMessageToConfirm(s, m)
           status == IsMessageIdProcessed(c, m)
           ends == status = 2 /\ m \in Unparsed
<1>1. Types /\ Sensible /\ Recognised /\ (~careless => Window) /\ Session(s)
  BY DEF Inv, Types
<1>2. /\ m \in inside.rest /\ sent' = sent
      /\ inside' = [inside EXCEPT !.rest = IF ends THEN {} ELSE inside.rest \ {m}]
  BY DEF InnerMessage
<1>3. m \in Ids /\ Content \subseteq Messages /\ Messages \subseteq Ids
  BY Identifiers
<1>4. /\ inside'.id = inside.id /\ inside'.rest \subseteq inside.rest
      /\ inside' \in [id : Containers \cup {0}, rest : SUBSET Messages]
  BY <1>1, <1>2 DEF Types
<1>5. Within
  BY <1>1, <1>2, <1>4 DEF Types, Within
<1>6. m \in Current /\ m \in sent'
  BY <1>1, <1>2 DEF Current, Sensible
<1>7. Listed(s, m, c)
  BY <1>1, ListedIs
<1>8. status = IsMessageIdProcessed(s, m)
  BY <1>7 DEF Listed, IsMessageIdProcessed
<1>9. careless \/ InTime(m)
  <2>1. Since(m, sent) \in Nat /\ Reach \in Nat
    BY <1>1, SinceGrows, Identifiers DEF Types
  <2> QED
    BY <1>1, <1>2, <1>6, <2>1 DEF Window, InTime, Past
<1>10. careless \/ status # 2
  <2> SUFFICES ASSUME ~careless PROVE status # 2
    OBVIOUS
  <2>1. s.min <= m
    BY <1>1, <1>3, <1>5, <1>9, StatusInTime DEF Within
  <2>2. s.min \in Nat /\ m \in Nat
    BY <1>1, <1>3, Identifiers, Fields
  <2> QED
    BY <1>1, <1>3, <1>8, <2>1, <2>2, StatusIs
<1>11. CASE status = 1 /\ s' = c /\ Abandon(FALSE)
  <2>1. old' = old /\ acks' = acks /\ confirmed' = confirmed /\ careless' = careless
    BY <1>11 DEF Abandon
  <2>2. s.handled[m] > 0
    BY <1>1, <1>3, <1>8, <1>11, StatusIs DEF Sensible
  <2>3. Listed(s, m, s')
    BY <1>7, <1>11
  <2>4. acks' \subseteq Content /\ confirmed' \subseteq Content
    BY <1>1, <2>1 DEF Types
  <2>5. ~careless => \A x \in s'.toConfirm \cup acks' \cup confirmed' : s.handled[x] > 0
    BY <1>1, <2>1, <2>2, <2>3 DEF Window, Listed
  <2> QED
    BY <1>5, <2>1, <2>3, <2>4, <2>5, ConfirmingKeeps DEF Listed
<1>12. CASE ends /\ s' = RecreateSession(c) /\ Abandon(TRUE)
  <2>1. Recreated(c, s')
    BY <1>7, <1>12, RecreatedIs DEF Listed
  <2>2. Known(c) = Known(s)
    BY <1>7 DEF Listed, Known
  <2>3. careless
    BY <1>10, <1>12
  <2> HIDE DEF c
  <2>4. /\ Session(s') /\ Known(s') = {} /\ Distinct(s'.processed) /\ s'.min = s.min
        /\ s'.handled = s.handled /\ s'.forgotten = s.forgotten \cup Known(s) /\ s'.toConfirm = {}
    BY <1>7, <2>1, <2>2 DEF Listed, Recreated
  <2> QED
    BY <1>5, <1>12, <2>3, <2>4, RecreatingKeeps
<1>13. CASE status # 1 /\ s' \in AddProcessedMessageId(Handle(c, m), m) /\ Abandon(m \in Resets)
  BY <1>5, <1>6, <1>8, <1>9, <1>13, TakenKeeps DEF Taking
<1> QED
  BY <1>11, <1>12, <1>13 DEF InnerMessage

LEMMA ConfirmKeeps ==
    ASSUME Inv, Within, Confirm
    PROVE  Inv'
<1>1. Types /\ Sensible /\ Recognised /\ (~careless => Window) /\ Session(s)
  BY DEF Inv, Types
<1>2. /\ s' = [s EXCEPT !.toConfirm = {}] /\ acks' = acks \cup s.toConfirm
      /\ old' = old /\ confirmed' = confirmed /\ careless' = careless
  BY DEF Confirm
<1>3. Emptied(s, s')
  BY <1>1, <1>2, EmptiedIs
<1>4. acks' \subseteq Content /\ confirmed' \subseteq Content
  BY <1>1, <1>2, Fields DEF Types
<1>5. ~careless => \A x \in s'.toConfirm \cup acks' \cup confirmed' : s.handled[x] > 0
  BY <1>1, <1>2, <1>3 DEF Window, Emptied
<1>6. /\ Session(s') /\ s'.processed = s.processed /\ s'.min = s.min /\ s'.handled = s.handled
      /\ s'.forgotten = s.forgotten
  BY <1>3 DEF Emptied
<1> QED
  BY <1>2, <1>4, <1>5, <1>6, ConfirmingKeeps

LEMMA ReceiveContainerKeeps ==
    ASSUME Inv, NEW c \in Containers, NEW ms \in SUBSET Messages, ReceiveContainer(c, ms)
    PROVE  Inv'
<1>1. Types /\ Sensible /\ Recognised /\ (~careless => Window) /\ Session(s)
  BY DEF Inv, Types
<1>2. inside = Closed /\ MaySend(ms \cup {c}) /\ sent' = sent \cup ms \cup {c}
  BY DEF ReceiveContainer
<1>3. c \in Ids /\ c # 0 /\ Messages \subseteq Ids /\ Ids \subseteq Nat
  BY Identifiers
<1>4. Current = {} /\ sent \in SUBSET Ids /\ sent' \in SUBSET Ids /\ sent \subseteq sent'
  BY <1>1, <1>2, <1>3 DEF Current, Closed, Types
<1>5. CASE IsMessageIdProcessed(s, c) # 0 /\ Confirm
  <2>1. inside' = inside
    BY <1>5 DEF Confirm
  <2>2. Within
    BY <1>1, <1>4, <2>1 DEF Types, Within
  <2> QED
    BY <1>5, <2>2, ConfirmKeeps
<1>6. CASE /\ IsMessageIdProcessed(s, c) = 0 /\ inside' = [id |-> c, rest |-> ms]
           /\ UNCHANGED <<s, old, acks, confirmed, careless>>
  <2>1. Current' = ms \cup {c} /\ inside'.id = c
    BY <1>3, <1>6 DEF Current
  <2>2. Types'
    BY <1>1, <1>3, <1>4, <1>6 DEF Types
  <2>3. Sensible'
    BY <1>1, <1>2, <1>4, <1>6, <2>1 DEF Sensible
  <2>4. Recognised'
    BY <1>1, <1>6 DEF Recognised, HandledAgainOnlyIfForgotten
  <2>5. \A x \in Ids : Past(x) => Past(x)'
    BY <1>4, PastStays
  <2>6. ASSUME ~careless PROVE Window'
    <3>1. Window
      BY <1>1, <2>6
    <3>2. \A x \in Ids : x < s'.min => Past(x)'
      BY <1>6, <2>5, <3>1 DEF Window
    <3>3. \A x \in Current' : x \notin Resets /\ ~Past(x)' /\ \A n \in old' : n < x
      <4> SUFFICES ASSUME NEW x \in ms \cup {c}
                   PROVE  x \notin Resets /\ ~Past(x)' /\ \A n \in old : n < x
        BY <1>6, <2>1
      <4>1. sent' = sent \cup (ms \cup {c})
        BY <1>2
      <4>2. x \notin Resets /\ Since(x, sent') <= Reach /\ \A n \in old : n < x
        BY <1>2, <2>6, <4>1 DEF MaySend, Reach
      <4>3. Since(x, sent') \in Nat /\ Reach \in Nat
        BY <1>4, SinceGrows, Identifiers
      <4> QED
        BY <4>2, <4>3 DEF Past
    <3>4. inside'.id \notin Known(s')
      <4>1. s.min <= c /\ c \notin Known(s)
        BY <1>1, <1>3, <1>6, StatusIs
      <4> QED
        BY <1>6, <2>1, <4>1
    <3>5. \A x \in Messages \ Unparsed : s'.handled[x] > 0 => x \in Known(s') \cup old' \/ Past(x)'
      BY <1>3, <1>6, <2>5, <3>1 DEF Window
    <3>6. \A x \in Messages \ Unparsed : s'.handled[x] <= 1
      BY <1>6, <3>1 DEF Window
    <3>7. Distinct(s'.processed) /\ \A x \in s'.toConfirm \cup acks' \cup confirmed' : s'.handled[x] > 0
      BY <1>6, <3>1 DEF Window
    <3> QED
      BY <3>2, <3>3, <3>4, <3>5, <3>6, <3>7 DEF Window
  <2> QED
    BY <1>6, <2>2, <2>3, <2>4, <2>6 DEF Inv
<1> QED
  BY <1>5, <1>6 DEF ReceiveContainer

LEMMA EndContainerKeeps ==
    ASSUME Inv, EndContainer
    PROVE  Inv'
<1> DEFINE c == inside.id
<1>1. Types /\ Sensible /\ Recognised /\ (~careless => Window) /\ Session(s)
  BY DEF Inv, Types
<1>2. /\ c # 0 /\ s' \in AddProcessedMessageId(s, c) /\ inside' = Closed
      /\ UNCHANGED <<sent, old, acks, confirmed, careless>>
  BY DEF EndContainer
<1>3. c \in Containers /\ c \in Ids /\ Messages \subseteq Ids /\ c \notin Messages
  BY <1>1, <1>2, Identifiers, SessionAssumption DEF Types
<1>4. Current' = {} /\ c \in Current
  BY <1>2 DEF Current, Closed
<1>5. Added(s, c, s')
  BY <1>1, <1>2, <1>3, AddedIs
<1> HIDE DEF c
<1>6. Types'
  BY <1>1, <1>2, <1>5 DEF Types, Added, Closed
<1>7. Sensible'
  BY <1>1, <1>2, <1>3, <1>4, <1>5 DEF Sensible, Added
<1>8. Recognised'
  <2>1. \A x \in Messages : s'.handled[x] > 0 => x \in s'.forgotten \/ (x \in Known(s') /\ s'.min <= x)
    BY <1>1, <1>3, <1>5 DEF Recognised, Added
  <2>2. HandledAgainOnlyIfForgotten'
    BY <1>1, <1>5 DEF Recognised, HandledAgainOnlyIfForgotten, Added
  <2> QED
    BY <2>1, <2>2 DEF Recognised
<1>9. ASSUME ~careless PROVE Window'
  <2>1. Window
    BY <1>1, <1>9
  <2>2. Distinct(s.processed) /\ c \notin Known(s) /\ sent \in SUBSET Ids /\ Known(s) \subseteq sent
    BY <1>1, <2>1 DEF Window, Types, Sensible, c
  <2>3. Counted(s, c, s', sent)
    BY <1>1, <1>2, <1>3, <2>2, AddedCounts
  <2>4. \A x \in Ids : x < s'.min => Past(x)
    BY <2>1, <2>3 DEF Counted, Window, Past
  <2>5. \A x \in Known(s) : x \in Known(s') \/ Past(x)
    BY <2>3 DEF Counted, Past
  <2>6. \A x \in Messages \ Unparsed : s'.handled[x] > 0 => x \in Known(s') \cup old \/ Past(x)
    BY <1>5, <2>1, <2>5 DEF Window, Added
  <2>7. \A x : Past(x)' <=> Past(x)
    BY <1>2 DEF Past
  <2>8. inside'.id \notin Known(s')
    <3>1. 0 \notin Ids /\ Known(s') \subseteq Ids
      BY <1>5, Identifiers, Fields DEF Added
    <3> QED
      BY <1>2, <3>1 DEF Closed
  <2>9. \A x \in Messages \ Unparsed : s'.handled[x] <= 1
    BY <1>5, <2>1 DEF Window, Added
  <2>10. \A x \in s'.toConfirm \cup acks' \cup confirmed' : s'.handled[x] > 0
    BY <1>2, <1>5, <2>1 DEF Window, Added
  <2>11. Distinct(s'.processed)
    BY <2>3 DEF Counted
  <2> QED
    BY <1>2, <1>4, <2>4, <2>6, <2>7, <2>8, <2>9, <2>10, <2>11 DEF Window
<1> QED
  BY <1>2, <1>6, <1>7, <1>8, <1>9 DEF Inv

LEMMA RecreateSessionsKeeps ==
    ASSUME Inv, RecreateSessions
    PROVE  Inv'
<1>1. Types /\ Session(s)
  BY DEF Inv, Types
<1>2. inside = Closed /\ inside' = inside /\ sent' = sent /\ s' = RecreateSession(s) /\ Abandon(TRUE)
  BY DEF RecreateSessions
<1>3. Current' = {} /\ Within
  BY <1>1, <1>2 DEF Current, Closed, Types, Within
<1>4. Recreated(s, s')
  BY <1>1, <1>2, RecreatedIs
<1> QED
  BY <1>2, <1>3, <1>4, RecreatingKeeps DEF Recreated

LEMMA ConfirmationKeeps ==
    ASSUME Inv, NEW m \in Content, ConfirmationArrives(m) \/ ConfirmationLost(m)
    PROVE  Inv'
<1>1. Types /\ Session(s) /\ (~careless => Window)
  BY DEF Inv, Types
<1>2. /\ s' = s /\ inside' = inside /\ sent' = sent /\ old' = old /\ careless' = careless
      /\ m \in acks /\ acks' \subseteq acks /\ confirmed' \subseteq confirmed \cup {m}
  BY DEF ConfirmationArrives, ConfirmationLost
<1>3. Within
  BY <1>1, <1>2 DEF Types, Within
<1>4. acks' \subseteq Content /\ confirmed' \subseteq Content
  BY <1>1, <1>2 DEF Types
<1>5. ~careless => \A x \in s'.toConfirm \cup acks' \cup confirmed' : s.handled[x] > 0
  BY <1>1, <1>2 DEF Window
<1>6. Session(s') /\ s'.processed = s.processed /\ s'.min = s.min /\ s'.handled = s.handled
      /\ s'.forgotten = s.forgotten
  BY <1>1, <1>2
<1> QED
  BY <1>2, <1>3, <1>4, <1>5, <1>6, ConfirmingKeeps

LEMMA StutterKeeps ==
    ASSUME Inv, UNCHANGED vars
    PROVE  Inv'
<1>1. Types /\ (~careless => Window)
  BY DEF Inv
<1>2. /\ s' = s /\ inside' = inside /\ sent' = sent /\ old' = old /\ acks' = acks
      /\ confirmed' = confirmed /\ careless' = careless
  BY DEF vars
<1>3. Within /\ Session(s')
  BY <1>1, <1>2 DEF Types, Within
<1>4. ~careless => \A x \in s'.toConfirm \cup acks' \cup confirmed' : s.handled[x] > 0
  BY <1>1, <1>2 DEF Window
<1>5. acks' \subseteq Content /\ confirmed' \subseteq Content
  BY <1>1, <1>2 DEF Types
<1> QED
  BY <1>2, <1>3, <1>4, <1>5, ConfirmingKeeps

LEMMA StepKeeps == Inv /\ [Next]_vars => Inv'
<1> SUFFICES ASSUME Inv, [Next]_vars PROVE Inv'
  OBVIOUS
<1>1. ASSUME NEW m \in Messages, ReceiveMessage(m) PROVE Inv'
  BY <1>1, ReceiveMessageKeeps
<1>2. ASSUME NEW c \in Containers, NEW ms \in SUBSET Messages, ReceiveContainer(c, ms) PROVE Inv'
  BY <1>2, ReceiveContainerKeeps
<1>3. CASE HandlerStep
  BY <1>3, InnerMessageKeeps, EndContainerKeeps DEF HandlerStep
<1>4. CASE SendConfirmation
  <2>1. Confirm /\ inside' = inside /\ sent' = sent /\ Types
    BY <1>4 DEF SendConfirmation, Confirm, Inv
  <2>2. Within
    BY <2>1 DEF Types, Within
  <2> QED
    BY <2>1, <2>2, ConfirmKeeps
<1>5. CASE RecreateSessions
  BY <1>5, RecreateSessionsKeeps
<1>6. ASSUME NEW m \in Content, ConfirmationArrives(m) \/ ConfirmationLost(m) PROVE Inv'
  BY <1>6, ConfirmationKeeps
<1>7. CASE UNCHANGED vars
  BY <1>7, StutterKeeps
<1> QED
  BY <1>1, <1>2, <1>3, <1>4, <1>5, <1>6, <1>7 DEF Next

LEMMA Invariance == Spec => []Inv
<1> QED
  BY Begins, StepKeeps, PTL DEF Spec

-----------------------------------------------------------------------------
(* Sessions, containers and what the server knows keep their types, and no   *)
(* more identifiers are remembered than the window has and one.              *)
THEOREM TypeCorrect == Spec => []TypeOK
<1>1. Inv => TypeOK
  <2> SUFFICES ASSUME Types PROVE TypeOK
    BY DEF Inv
  <2>1. s \in SessionType /\ Len(s.processed) <= WindowSize + 1
    BY DEF Types, Session
  <2>2. inside = [id |-> inside.id, rest |-> inside.rest]
    BY DEF Types
  <2>3. inside.id = 0 => inside = Closed
    BY <2>2 DEF Types, Closed
  <2> QED
    BY <2>1, <2>3 DEF Types, TypeOK
<1> QED
  BY <1>1, Invariance, PTL

(* A message that the server repeats in time is handled once, in whatever    *)
(* order messages come, on their own or in containers, and however many      *)
(* identifiers have been erased (isMessageIdProcessed, addProcessedMessageId *)
(* and the loop of processServerResponse).                                   *)
THEOREM OnceHandled == Spec => []HandledOnce
<1>1. Inv => HandledOnce
  BY DEF Inv, Window, HandledOnce
<1> QED
  BY <1>1, Invariance, PTL

(* With such a server no message is confirmed that was not handled, although *)
(* onConnectionDataReceived puts it on the list before it is handled.        *)
THEOREM NoneConfirmedUnhandled == Spec => []ConfirmedWasHandled
<1>1. Inv => ConfirmedWasHandled
  BY DEF Inv, Window, ConfirmedWasHandled
<1> QED
  BY <1>1, Invariance, PTL

(* With any server, a message that is handled again was forgotten before.    *)
THEOREM AgainOnlyIfForgotten == Spec => []HandledAgainOnlyIfForgotten
<1>1. Inv => HandledAgainOnlyIfForgotten
  BY DEF Inv, Recognised
<1> QED
  BY <1>1, Invariance, PTL
===============================================================================
