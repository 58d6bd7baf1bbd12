--------------------------- MODULE SecretChatProofs ---------------------------
(* Proofs about SecretChat, for any worlds: types, and that messages are     *)
(* handled once and in the order of their numbers.                           *)
EXTENDS SecretChat, WellFoundedInduction, TLAPS

-----------------------------------------------------------------------------
(* What a peer has, by type.  The admin's messages have odd numbers.         *)
Par(p)   == IF p = "admin" THEN 1 ELSE 0
Other(p) == IF p = "admin" THEN "participant" ELSE "admin"
Nums(p)  == {n \in Nat : n % 2 = Par(p)}
Seen(p)  == {n \in Nat : n % 2 = Par(Other(p))}

Kinds  == {"text", "request", "accept", "commit", "noop", "abort", "resend", "delete"}
States == {"sending", "sent", "error", "deleted"}

Bodies(p, E, K) ==
    {b \in [kind : Kinds, x : E \cup {0}, key : K, from : Nat, to : Int] :
        b.kind = "resend" => b.from \in Seen(p) /\ b.to % 2 = Par(Other(p))}
Placed(t, p) == t.seq => t.out \in Nums(p) /\ t.in \in Seen(p)
Sendings(p, E, K) ==
    {t \in [m : Nat, body : Bodies(p, E, K), seq : BOOLEAN, out : Nat, in : Nat] :
        Placed(t, p) /\ (t.m = 0 => t.seq)}
Entries(p, E, K) ==
    {e \in [body : Bodies(p, E, K), seq : BOOLEAN, out : Nat, in : Nat, state : States] : Placed(e, p)}
Messages(p, E, K) ==
    [m : Nat, body : Bodies(p, E, K), key : K, again : BOOLEAN, out : Nums(p), in : Seen(p)]
Helds(p, E, K) == [k : Messages(Other(p), E, K), newKey : BOOLEAN]
Jobs(p) == {j \in [from : Nums(p), to : Int] : j.to % 2 = Par(p) /\ j.from <= j.to}

Chats(p, E, K) ==
    [seqIn : Int, seqOut : Nums(p), inSeqNo : Nat, key : K, future : K, exchange : E \cup {0}, own : Nat,
     db : Seq(Entries(p, E, K)), holes : SUBSET Jobs(p), stage : Seq(Sendings(p, E, K)),
     jobs : Seq(Jobs(p)), held : Seq(Helds(p, E, K)), asked : SUBSET Int, next : Nat \ {0},
     handled : Seq(Nat), twice : BOOLEAN, lost : BOOLEAN, cut : BOOLEAN]

\* The keys there are, n being the last one that p has made and o the other's.
Keys(p, n, o) == {k \in Nat : k <= IF k % 2 = Par(Other(p)) THEN n ELSE o}

Fit(c, p) ==
    /\ c.seqIn >= -2 /\ c.seqIn % 2 = Par(Other(p)) /\ (c.inSeqNo = 0 \/ c.inSeqNo \in Nums(p))
    /\ c.own % 2 = Par(Other(p))
    /\ \A i \in DOMAIN c.stage : c.stage[i].m <= Len(c.db)
    /\ Len(c.held) <= HeldLimit

Good(c, p, E, o) == c \in Chats(p, E, Keys(p, c.own, o)) /\ Fit(c, p)

\* What most of the handlers leave as it is.
Quiet(c, d) ==
    /\ d.seqIn = c.seqIn /\ d.seqOut = c.seqOut /\ d.held = c.held /\ d.handled = c.handled /\ d.twice = c.twice
    /\ Len(c.db) <= Len(d.db)
    /\ \A m \in DOMAIN d.db : d.db[m].seq => /\ m \in DOMAIN c.db /\ c.db[m].seq
                                             /\ d.db[m].out = c.db[m].out

Goes(c, d, p, E, o) == Good(d, p, E, o) /\ c.own <= d.own /\ Quiet(c, d)

LEMMA PeerIs == \A p \in Peers : Peer(p) = Other(p) /\ Other(p) \in Peers /\ Other(p) # p /\ Other(Other(p)) = p
<1>1. ASSUME NEW p \in Peers PROVE Other(p) \in Peers /\ Other(p) # p /\ Other(Other(p)) = p
                                   /\ \A q \in Peers : q # p => q = Other(p)
  BY DEF Peers, Other
<1>2. ASSUME NEW p \in Peers PROVE Peer(p) = Other(p)
  <2>1. Other(p) \in Peers /\ Other(p) # p
    BY <1>1
  <2>2. Peer(p) \in Peers /\ Peer(p) # p
    BY <2>1 DEF Peer
  <2> QED
    BY <1>1, <2>2
<1> QED
  BY <1>1, <1>2

LEMMA KeysGrow ==
    ASSUME NEW p, NEW n \in Nat, NEW o \in Nat, NEW r \in Nat, NEW u \in Nat, n <= r, o <= u
    PROVE  Keys(p, n, o) \subseteq Keys(p, r, u) /\ 0 \in Keys(p, n, o)
  BY DEF Keys, Par, Other

LEMMA MoreTypes ==
    ASSUME NEW p, NEW E, NEW F, E \subseteq F, NEW K, NEW L, K \subseteq L
    PROVE  /\ Bodies(p, E, K) \subseteq Bodies(p, F, L) /\ Sendings(p, E, K) \subseteq Sendings(p, F, L)
           /\ Entries(p, E, K) \subseteq Entries(p, F, L) /\ Messages(p, E, K) \subseteq Messages(p, F, L)
<1>1. Bodies(p, E, K) \subseteq Bodies(p, F, L)
  BY DEF Bodies
<1>2. Sendings(p, E, K) \subseteq Sendings(p, F, L)
  BY <1>1 DEF Sendings
<1>3. Entries(p, E, K) \subseteq Entries(p, F, L)
  BY <1>1 DEF Entries
<1>4. Messages(p, E, K) \subseteq Messages(p, F, L)
  BY <1>1 DEF Messages
<1> QED
  BY <1>1, <1>2, <1>3, <1>4

LEMMA MoreSeq ==
    ASSUME NEW S, NEW T, S \subseteq T, NEW q \in Seq(S)
    PROVE  q \in Seq(T)
  OBVIOUS

LEMMA MoreChats ==
    ASSUME NEW p, NEW E, NEW F, E \subseteq F, NEW K, NEW L, K \subseteq L, NEW c \in Chats(p, E, K)
    PROVE  c \in Chats(p, F, L)
<1>1. /\ c = [seqIn |-> c.seqIn, seqOut |-> c.seqOut, inSeqNo |-> c.inSeqNo, key |-> c.key,
              future |-> c.future, exchange |-> c.exchange, own |-> c.own, db |-> c.db, holes |-> c.holes,
              stage |-> c.stage, jobs |-> c.jobs, held |-> c.held, asked |-> c.asked, next |-> c.next,
              handled |-> c.handled, twice |-> c.twice, lost |-> c.lost, cut |-> c.cut]
  BY DEF Chats
<1>2. c.db \in Seq(Entries(p, F, L)) /\ c.stage \in Seq(Sendings(p, F, L)) /\ c.held \in Seq(Helds(p, F, L))
  <2>1. Entries(p, E, K) \subseteq Entries(p, F, L) /\ Sendings(p, E, K) \subseteq Sendings(p, F, L)
        /\ Messages(Other(p), E, K) \subseteq Messages(Other(p), F, L)
    BY MoreTypes
  <2>2. Helds(p, E, K) \subseteq Helds(p, F, L)
    BY <2>1 DEF Helds
  <2>3. c.db \in Seq(Entries(p, E, K)) /\ c.stage \in Seq(Sendings(p, E, K)) /\ c.held \in Seq(Helds(p, E, K))
    BY DEF Chats
  <2> QED
    BY <2>1, <2>2, <2>3, MoreSeq
<1>3. /\ c.seqIn \in Int /\ c.seqOut \in Nums(p) /\ c.inSeqNo \in Nat /\ c.key \in L /\ c.future \in L
      /\ c.exchange \in F \cup {0} /\ c.own \in Nat /\ c.holes \in SUBSET Jobs(p) /\ c.jobs \in Seq(Jobs(p))
      /\ c.asked \in SUBSET Int /\ c.next \in Nat \ {0} /\ c.handled \in Seq(Nat)
      /\ c.twice \in BOOLEAN /\ c.lost \in BOOLEAN /\ c.cut \in BOOLEAN
  BY DEF Chats
<1> QED
  BY <1>1, <1>2, <1>3 DEF Chats

-----------------------------------------------------------------------------
(* What is done to a chat.                                                   *)

LEMMA QuietAlways ==
    /\ \A c : Len(c.db) \in Nat => Quiet(c, c)
    /\ \A c, d, e : Len(c.db) \in Nat /\ Len(d.db) \in Nat /\ Len(e.db) \in Nat
                    /\ Quiet(c, d) /\ Quiet(d, e) => Quiet(c, e)
  BY DEF Quiet

LEMMA FieldsAre ==
    ASSUME NEW p, NEW E, NEW o, NEW c, Good(c, p, E, o)
    PROVE  /\ c.seqIn \in Int /\ c.seqOut \in Nums(p) /\ c.inSeqNo \in Nat /\ c.key \in Keys(p, c.own, o)
           /\ c.future \in Keys(p, c.own, o) /\ c.exchange \in E \cup {0} /\ c.own \in Nat
           /\ c.db \in Seq(Entries(p, E, Keys(p, c.own, o))) /\ Len(c.db) \in Nat
           /\ c.holes \in SUBSET Jobs(p)
           /\ c.stage \in Seq(Sendings(p, E, Keys(p, c.own, o))) /\ c.jobs \in Seq(Jobs(p))
           /\ c.held \in Seq(Helds(p, E, Keys(p, c.own, o))) /\ Len(c.held) \in Nat
           /\ c.asked \in SUBSET Int /\ c.next \in Nat /\ c.next # 0
           /\ c.handled \in Seq(Nat) /\ c.twice \in BOOLEAN /\ c.lost \in BOOLEAN /\ c.cut \in BOOLEAN
<1>1. c \in Chats(p, E, Keys(p, c.own, o))
  BY DEF Good
<1>2. c.db \in Seq(Entries(p, E, Keys(p, c.own, o))) /\ c.held \in Seq(Helds(p, E, Keys(p, c.own, o)))
  BY <1>1 DEF Chats
<1> QED
  BY <1>1, <1>2 DEF Chats

LEMMA BodyIs ==
    ASSUME NEW p, NEW E, NEW n \in Nat, NEW o \in Nat, NEW kind \in Kinds, kind # "resend"
    PROVE  /\ Body(kind) \in Bodies(p, E, Keys(p, n, o))
           /\ \A x \in E \cup {0} : [Body(kind) EXCEPT !.x = x] \in Bodies(p, E, Keys(p, n, o))
           /\ \A x \in E \cup {0}, k \in Keys(p, n, o) :
                 [Body(kind) EXCEPT !.x = x, !.key = k] \in Bodies(p, E, Keys(p, n, o))
<1>1. 0 \in Keys(p, n, o)
  BY KeysGrow
<1>2. ASSUME NEW K, 0 \in K, NEW x \in E \cup {0}, NEW k \in K
      PROVE  [kind |-> kind, x |-> x, key |-> k, from |-> 0, to |-> 0] \in Bodies(p, E, K)
  BY <1>2 DEF Bodies
<1>3. Body(kind) \in Bodies(p, E, Keys(p, n, o))
  BY <1>1, <1>2 DEF Body
<1>4. ASSUME NEW x \in E \cup {0} PROVE [Body(kind) EXCEPT !.x = x] \in Bodies(p, E, Keys(p, n, o))
  <2>1. [Body(kind) EXCEPT !.x = x] = [kind |-> kind, x |-> x, key |-> 0, from |-> 0, to |-> 0]
    BY DEF Body
  <2> QED
    BY <1>1, <1>2, <2>1
<1>5. ASSUME NEW x \in E \cup {0}, NEW k \in Keys(p, n, o)
      PROVE  [Body(kind) EXCEPT !.x = x, !.key = k] \in Bodies(p, E, Keys(p, n, o))
  <2>1. [Body(kind) EXCEPT !.x = x] = [kind |-> kind, x |-> x, key |-> 0, from |-> 0, to |-> 0]
    BY DEF Body
  <2>2. [[kind |-> kind, x |-> x, key |-> 0, from |-> 0, to |-> 0] EXCEPT !.key = k]
           = [kind |-> kind, x |-> x, key |-> k, from |-> 0, to |-> 0]
    OBVIOUS
  <2>3. [Body(kind) EXCEPT !.x = x, !.key = k] = [kind |-> kind, x |-> x, key |-> k, from |-> 0, to |-> 0]
    BY <2>1, <2>2, Zenon
  <2>4. [kind |-> kind, x |-> x, key |-> k, from |-> 0, to |-> 0] \in Bodies(p, E, Keys(p, n, o))
    BY <1>1, <1>2
  <2> QED
    BY <2>3, <2>4
<1> QED
  BY <1>3, <1>4, <1>5

LEMMA WriteGoes ==
    ASSUME NEW p, NEW E, NEW o, NEW c, Good(c, p, E, o), NEW b \in Bodies(p, E, Keys(p, c.own, o))
    PROVE  Goes(c, Write(c, b), p, E, o) /\ Write(c, b).own = c.own
<1> DEFINE K == Keys(p, c.own, o)
           e == [body |-> b, seq |-> FALSE, out |-> 0, in |-> 0, state |-> "sending"]
           t == [m |-> Len(c.db) + 1, body |-> b, seq |-> FALSE, out |-> 0, in |-> 0]
           d == Write(c, b)
<1>1. c \in Chats(p, E, K) /\ c.db \in Seq(Entries(p, E, K)) /\ c.stage \in Seq(Sendings(p, E, K))
      /\ Len(c.db) \in Nat /\ c.own \in Nat
  BY FieldsAre DEF Good
<1> HIDE DEF K
<1>2. e \in Entries(p, E, K) /\ t \in Sendings(p, E, K)
  BY <1>1 DEF Entries, Sendings, Placed, States, K
<1>3. Append(c.db, e) \in Seq(Entries(p, E, K)) /\ Append(c.stage, t) \in Seq(Sendings(p, E, K))
  BY <1>1, <1>2
<1>4. d = [c EXCEPT !.db = Append(c.db, e), !.stage = Append(c.stage, t)]
  BY <1>1 DEF Write, Chats
<1>5. d \in Chats(p, E, K) /\ d.own = c.own /\ d.db = Append(c.db, e) /\ d.stage = Append(c.stage, t)
      /\ d.seqIn = c.seqIn /\ d.inSeqNo = c.inSeqNo /\ d.held = c.held /\ d.seqOut = c.seqOut
      /\ d.handled = c.handled /\ d.twice = c.twice
  BY <1>1, <1>3, <1>4 DEF Chats
<1>6. Fit(d, p)
  <2>1. \A i \in DOMAIN d.stage : d.stage[i].m <= Len(d.db)
    <3>1. Len(d.db) = Len(c.db) + 1
      BY <1>1, <1>3, <1>5
    <3>2. \A i \in DOMAIN c.stage : c.stage[i].m <= Len(c.db) /\ c.stage[i].m \in Nat
      BY <1>1 DEF Good, Fit, Sendings
    <3>3. \A i \in DOMAIN d.stage : d.stage[i] = t \/ (i \in DOMAIN c.stage /\ d.stage[i] = c.stage[i])
      BY <1>1, <1>3, <1>5
    <3> QED
      BY <1>1, <3>1, <3>2, <3>3
  <2> QED
    BY <1>5, <2>1 DEF Fit, Good
<1>7. Quiet(c, d)
  <2>1. Len(d.db) = Len(c.db) + 1
    BY <1>1, <1>3, <1>5
  <2>2. \A m \in DOMAIN d.db : d.db[m].seq => m \in DOMAIN c.db /\ d.db[m] = c.db[m]
    BY <1>1, <1>3, <1>5
  <2> QED
    BY <1>1, <1>5, <2>1, <2>2 DEF Quiet
<1> QED
  BY <1>1, <1>5, <1>6, <1>7 DEF Goes, Good, K

LEMMA GoesOn ==
    ASSUME NEW p, NEW E, NEW o, NEW c, Good(c, p, E, o), NEW d, Goes(c, d, p, E, o),
           NEW e, Goes(d, e, p, E, o)
    PROVE  Goes(c, e, p, E, o)
<1>1. Good(d, p, E, o) /\ Good(e, p, E, o) /\ Quiet(c, d) /\ Quiet(d, e) /\ c.own <= d.own /\ d.own <= e.own
  BY DEF Goes
<1>2. Len(c.db) \in Nat /\ Len(d.db) \in Nat /\ Len(e.db) \in Nat
      /\ c.own \in Nat /\ d.own \in Nat /\ e.own \in Nat
  BY <1>1, FieldsAre
<1>3. c.own <= e.own
  BY <1>1, <1>2
<1>4. Quiet(c, e)
  BY <1>1, <1>2 DEF Quiet
<1> QED
  BY <1>1, <1>3, <1>4 DEF Goes

LEMMA AlikeGoes ==
    ASSUME NEW p, NEW E, NEW o, NEW c, Good(c, p, E, o),
           NEW d, d \in Chats(p, E, Keys(p, d.own, o)), c.own <= d.own, d.own % 2 = c.own % 2,
           d.seqIn = c.seqIn, d.inSeqNo = c.inSeqNo, d.stage = c.stage, d.db = c.db, d.held = c.held,
           d.seqOut = c.seqOut, d.handled = c.handled, d.twice = c.twice
    PROVE  Goes(c, d, p, E, o)
<1>1. Fit(d, p)
  BY DEF Good, Fit
<1>2. Len(c.db) \in Nat
  BY FieldsAre
<1>3. Quiet(c, d)
  BY <1>2 DEF Quiet
<1> QED
  BY <1>1, <1>3 DEF Goes, Good

LEMMA AbortGoes ==
    ASSUME NEW p, NEW E, NEW o \in Nat, NEW c, Good(c, p, E, o), NEW x \in E \cup {0}
    PROVE  Goes(c, Abort(c, x), p, E, o) /\ Abort(c, x).own = c.own
<1>1. c.own \in Nat
  BY FieldsAre
<1>2. [Body("abort") EXCEPT !.x = x] \in Bodies(p, E, Keys(p, c.own, o))
  BY <1>1, BodyIs DEF Kinds
<1> QED
  BY <1>2, WriteGoes DEF Abort

LEMMA DroppedGoes ==
    ASSUME NEW p, NEW E, NEW o \in Nat, NEW c, Good(c, p, E, o)
    PROVE  Goes(c, Dropped(c), p, E, o) /\ Dropped(c).own = c.own
<1>0. c.own \in Nat /\ c \in Chats(p, E, Keys(p, c.own, o))
  BY FieldsAre DEF Good
<1>1. c.own \in Nat /\ c \in Chats(p, E, Keys(p, c.own, o)) /\ 0 \in Keys(p, c.own, o)
  BY <1>0 DEF Keys
<1> DEFINE d == Dropped(c)
           K == Keys(p, c.own, o)
<1>2. d \in Chats(p, E, K) /\ d.own = c.own
      /\ d.seqIn = c.seqIn /\ d.inSeqNo = c.inSeqNo /\ d.stage = c.stage /\ d.db = c.db /\ d.held = c.held
      /\ d.seqOut = c.seqOut /\ d.handled = c.handled /\ d.twice = c.twice
  <2>1. 0 \in K /\ c \in Chats(p, E, K)
    BY <1>1
  <2> HIDE DEF K
  <2> QED
    BY <2>1 DEF Dropped, Chats
<1>3. d \in Chats(p, E, Keys(p, d.own, o)) /\ c.own <= d.own
  BY <1>1, <1>2
<1> HIDE DEF d, K
<1> QED
  BY <1>2, <1>3, AlikeGoes DEF d

LEMMA RequestNewKeyGoes ==
    ASSUME NEW p, NEW E, NEW o \in Nat, NEW c, Good(c, p, E, o), NEW x \in E \cup {0}
    PROVE  Goes(c, RequestNewKey(c, x), p, E, o) /\ RequestNewKey(c, x).own = c.own
<1>1. c.own \in Nat /\ c.future \in Keys(p, c.own, o) /\ c.key \in Keys(p, c.own, o) /\ Len(c.db) \in Nat
      /\ c \in Chats(p, E, Keys(p, c.own, o))
  BY FieldsAre DEF Good
<1>2. Goes(c, c, p, E, o)
  BY <1>1, QuietAlways DEF Goes
<1> DEFINE d == [c EXCEPT !.exchange = x]
<1>3. d \in Chats(p, E, Keys(p, d.own, o)) /\ d.own = c.own
      /\ d.seqIn = c.seqIn /\ d.inSeqNo = c.inSeqNo /\ d.stage = c.stage /\ d.db = c.db /\ d.held = c.held
      /\ d.seqOut = c.seqOut /\ d.handled = c.handled /\ d.twice = c.twice
  <2>1. d \in Chats(p, E, Keys(p, c.own, o)) /\ d.own = c.own
      /\ d.seqIn = c.seqIn /\ d.inSeqNo = c.inSeqNo /\ d.stage = c.stage /\ d.db = c.db /\ d.held = c.held
      /\ d.seqOut = c.seqOut /\ d.handled = c.handled /\ d.twice = c.twice
    BY <1>1 DEF Chats
  <2> QED
    BY <2>1
<1> HIDE DEF d
<1>4. Goes(c, d, p, E, o)
  BY <1>1, <1>3, AlikeGoes
<1>5. [Body("request") EXCEPT !.x = x] \in Bodies(p, E, Keys(p, d.own, o))
  BY <1>1, <1>3, BodyIs DEF Kinds
<1>6. Goes(d, Write(d, [Body("request") EXCEPT !.x = x]), p, E, o)
      /\ Write(d, [Body("request") EXCEPT !.x = x]).own = d.own
  BY <1>4, <1>5, WriteGoes DEF Goes
<1>7. Goes(c, Write(d, [Body("request") EXCEPT !.x = x]), p, E, o)
  BY <1>4, <1>6, GoesOn
<1> QED
  BY <1>2, <1>3, <1>6, <1>7 DEF RequestNewKey, d

LEMMA RequestKeyGoes ==
    ASSUME NEW p, NEW E, NEW o \in Nat, NEW c, Good(c, p, E, o), NEW b, b.x \in E \cup {0}
    PROVE  Goes(c, RequestKey(c, b), p, E, o)
<1>1. c.own \in Nat /\ c.key \in Keys(p, c.own, o) /\ Len(c.db) \in Nat /\ c.exchange \in E \cup {0}
      /\ c.own % 2 = Par(Other(p))
  BY FieldsAre DEF Good, Fit
<1>2. Goes(c, c, p, E, o)
  BY <1>1, QuietAlways DEF Goes
<1> DEFINE k == c.own + 2
<1>3. ASSUME NEW d, Goes(c, d, p, E, o), d.own = c.own
      PROVE  LET e == [d EXCEPT !.exchange = b.x, !.future = k, !.own = k]
                 a == [Body("accept") EXCEPT !.x = b.x, !.key = k]
             IN Goes(c, Write(e, a), p, E, o)
  <2> DEFINE e == [d EXCEPT !.exchange = b.x, !.future = k, !.own = k]
             a == [Body("accept") EXCEPT !.x = b.x, !.key = k]
  <2>1. d.own = c.own /\ d \in Chats(p, E, Keys(p, c.own, o)) /\ Good(d, p, E, o)
    BY <1>3 DEF Goes, Good
  <2>2. k \in Nat /\ k % 2 = d.own % 2 /\ d.own <= k /\ k % 2 = Par(Other(p))
    BY <1>1, <2>1
  <2>3. k \in Keys(p, k, o)
    BY <2>2 DEF Keys
  <2>4. Keys(p, c.own, o) \subseteq Keys(p, k, o)
    BY <1>1, <2>1, <2>2, KeysGrow
  <2>5. d \in Chats(p, E, Keys(p, k, o))
    BY <2>1, <2>4, MoreChats
  <2> HIDE DEF k
  <2>6. e \in Chats(p, E, Keys(p, k, o)) /\ e.own = k
        /\ e.seqIn = d.seqIn /\ e.inSeqNo = d.inSeqNo /\ e.stage = d.stage /\ e.db = d.db /\ e.held = d.held
        /\ e.seqOut = d.seqOut /\ e.handled = d.handled /\ e.twice = d.twice
    BY <2>2, <2>3, <2>5 DEF Chats
  <2> HIDE DEF e
  <2>7. Goes(d, e, p, E, o)
    BY <2>1, <2>2, <2>6, AlikeGoes
  <2>8. a \in Bodies(p, E, Keys(p, e.own, o))
    BY <2>2, <2>3, <2>6, BodyIs DEF Kinds
  <2>9. Goes(e, Write(e, a), p, E, o)
    <3> HIDE DEF a
    <3> QED
      BY <2>7, <2>8, WriteGoes DEF Goes
  <2>10. Goes(c, e, p, E, o)
    BY <1>3, <2>7, GoesOn
  <2> HIDE DEF a
  <2>11. Goes(c, Write(e, a), p, E, o)
    BY <2>9, <2>10, GoesOn
  <2> QED
    BY <2>11 DEF e, a
<1>4. CASE c.exchange > b.x
  BY <1>2, <1>4 DEF RequestKey
<1>5. CASE ~(c.exchange > b.x) /\ c.exchange # 0
  <2>1. Goes(c, Abort(c, c.exchange), p, E, o) /\ Abort(c, c.exchange).own = c.own
    BY <1>1, AbortGoes
  <2> HIDE DEF k
  <2> QED
    BY <1>3, <1>5, <2>1 DEF RequestKey, k
<1>6. CASE ~(c.exchange > b.x) /\ c.exchange = 0
  <2> QED
    BY <1>2, <1>3, <1>6 DEF RequestKey
<1> QED
  BY <1>4, <1>5, <1>6

LEMMA AcceptKeyGoes ==
    ASSUME NEW p, NEW E, NEW o \in Nat, NEW c, Good(c, p, E, o),
           NEW b, b.x \in E \cup {0}, b.key \in Keys(p, c.own, o)
    PROVE  Goes(c, AcceptKey(c, b), p, E, o)
<1>1. c.own \in Nat /\ c \in Chats(p, E, Keys(p, c.own, o))
  BY FieldsAre DEF Good
<1>2. CASE c.exchange = b.x
  <2> DEFINE d == [c EXCEPT !.future = b.key]
             a == [Body("commit") EXCEPT !.x = b.x, !.key = b.key]
             K == Keys(p, c.own, o)
  <2>1. d \in Chats(p, E, K) /\ d.own = c.own
        /\ d.seqIn = c.seqIn /\ d.inSeqNo = c.inSeqNo /\ d.stage = c.stage /\ d.db = c.db /\ d.held = c.held
        /\ d.seqOut = c.seqOut /\ d.handled = c.handled /\ d.twice = c.twice
    <3>1. c \in Chats(p, E, K) /\ b.key \in K
      BY <1>1
    <3> HIDE DEF K
    <3> QED
      BY <3>1 DEF Chats
  <2>2. d \in Chats(p, E, Keys(p, d.own, o)) /\ c.own <= d.own
    BY <1>1, <2>1
  <2> HIDE DEF d, K
  <2>3. Goes(c, d, p, E, o)
    BY <2>1, <2>2, AlikeGoes
  <2>4. a \in Bodies(p, E, Keys(p, d.own, o))
    BY <1>1, <2>1, BodyIs DEF Kinds
  <2> HIDE DEF a
  <2>5. Goes(d, Write(d, a), p, E, o)
    BY <2>3, <2>4, WriteGoes DEF Goes
  <2>6. Goes(c, Write(d, a), p, E, o)
    BY <2>3, <2>5, GoesOn
  <2> QED
    BY <1>2, <2>6 DEF AcceptKey, d, a
<1>3. CASE c.exchange # b.x
  <2>1. Goes(c, Dropped(c), p, E, o) /\ Good(Dropped(c), p, E, o)
    BY DroppedGoes DEF Goes
  <2>2. Goes(Dropped(c), Abort(Dropped(c), b.x), p, E, o)
    BY <2>1, AbortGoes
  <2> QED
    BY <1>3, <2>1, <2>2, GoesOn DEF AcceptKey
<1> QED
  BY <1>2, <1>3

LEMMA CommitKeyGoes ==
    ASSUME NEW p, NEW E, NEW o \in Nat, NEW c, Good(c, p, E, o), NEW b, b.x \in E \cup {0}
    PROVE  Goes(c, CommitKey(c, b), p, E, o)
<1>1. c.own \in Nat /\ c \in Chats(p, E, Keys(p, c.own, o))
  BY FieldsAre DEF Good
<1>2. CASE c.exchange = b.x /\ c.future = b.key
  <2> DEFINE d == [c EXCEPT !.key = c.future, !.future = c.key, !.exchange = 0]
             K == Keys(p, c.own, o)
  <2>1. d \in Chats(p, E, K) /\ d.own = c.own
        /\ d.seqIn = c.seqIn /\ d.inSeqNo = c.inSeqNo /\ d.stage = c.stage /\ d.db = c.db /\ d.held = c.held
        /\ d.seqOut = c.seqOut /\ d.handled = c.handled /\ d.twice = c.twice
    <3>1. c \in Chats(p, E, K)
      BY <1>1
    <3> HIDE DEF K
    <3> QED
      BY <3>1 DEF Chats
  <2>2. d \in Chats(p, E, Keys(p, d.own, o)) /\ c.own <= d.own
    BY <1>1, <2>1
  <2> HIDE DEF d, K
  <2>3. Goes(c, d, p, E, o)
    BY <2>1, <2>2, AlikeGoes
  <2>4. Body("noop") \in Bodies(p, E, Keys(p, d.own, o))
    BY <1>1, <2>1, BodyIs DEF Kinds
  <2>5. Goes(d, Write(d, Body("noop")), p, E, o)
    BY <2>3, <2>4, WriteGoes DEF Goes
  <2>6. Goes(c, Write(d, Body("noop")), p, E, o)
    BY <2>3, <2>5, GoesOn
  <2> QED
    BY <1>2, <2>6 DEF CommitKey, d
<1>3. CASE ~(c.exchange = b.x /\ c.future = b.key)
  <2>1. Goes(c, Dropped(c), p, E, o) /\ Good(Dropped(c), p, E, o)
    BY DroppedGoes DEF Goes
  <2>2. Goes(Dropped(c), Abort(Dropped(c), b.x), p, E, o)
    BY <2>1, AbortGoes
  <2> QED
    BY <1>3, <2>1, <2>2, GoesOn DEF CommitKey
<1> QED
  BY <1>2, <1>3

LEMMA MaxOfTwo ==
    ASSUME NEW a \in Int, NEW b \in Int
    PROVE  Max({a, b}) = IF a >= b THEN a ELSE b
<1> DEFINE m == IF a >= b THEN a ELSE b
<1>1. m \in {a, b} /\ \A y \in {a, b} : m >= y
  OBVIOUS
<1>2. \A x \in {a, b} : (\A y \in {a, b} : x >= y) => x = m
  OBVIOUS
<1> HIDE DEF m
<1>3. Max({a, b}) = m
  BY <1>1, <1>2 DEF Max
<1> QED
  BY <1>3 DEF m

LEMMA ResendGoes ==
    ASSUME NEW p \in Peers, NEW E, NEW o \in Nat, NEW c, Good(c, p, E, o),
           NEW b, b.from \in Nums(p), b.to \in Int, b.to % 2 = Par(p)
    PROVE  Goes(c, Resend(c, b), p, E, o)
<1>1. c.own \in Nat /\ c \in Chats(p, E, Keys(p, c.own, o)) /\ Len(c.db) \in Nat /\ c.inSeqNo \in Nat
      /\ (c.inSeqNo = 0 \/ c.inSeqNo \in Nums(p)) /\ c.jobs \in Seq(Jobs(p))
  BY FieldsAre DEF Good, Fit
<1>2. CASE b.to < c.inSeqNo \/ b.to < b.from
  <2>1. Goes(c, c, p, E, o)
    BY <1>1, QuietAlways DEF Goes
  <2> QED
    BY <1>2, <2>1 DEF Resend
<1>3. CASE ~(b.to < c.inSeqNo \/ b.to < b.from)
  <2> DEFINE from == Max({b.from, c.inSeqNo})
             j == [from |-> from, to |-> b.to]
             d == [c EXCEPT !.jobs = Append(c.jobs, j)]
  <2>1. from \in Nums(p) /\ from <= b.to
    BY <1>1, <1>3, MaxOfTwo DEF Nums
  <2> HIDE DEF from
  <2>2. j \in Jobs(p)
    BY <2>1 DEF Jobs
  <2>3. Append(c.jobs, j) \in Seq(Jobs(p))
    BY <1>1, <2>2
  <2> HIDE DEF j
  <2>4. d \in Chats(p, E, Keys(p, c.own, o)) /\ d.own = c.own
        /\ d.seqIn = c.seqIn /\ d.inSeqNo = c.inSeqNo /\ d.stage = c.stage /\ d.db = c.db /\ d.held = c.held
        /\ d.seqOut = c.seqOut /\ d.handled = c.handled /\ d.twice = c.twice
    BY <1>1, <2>3 DEF Chats
  <2>5. d \in Chats(p, E, Keys(p, d.own, o)) /\ c.own <= d.own
    BY <1>1, <2>4
  <2>6. Resend(c, b) = d
    BY <1>1, <1>3 DEF Resend, Chats, j, from
  <2> HIDE DEF d
  <2> QED
    BY <2>4, <2>5, <2>6, AlikeGoes
<1> QED
  BY <1>2, <1>3

LEMMA KeysUsedGoes ==
    ASSUME NEW p, NEW E, NEW o \in Nat, NEW c, Good(c, p, E, o), NEW newKey \in BOOLEAN
    PROVE  Goes(c, KeysUsed(c, newKey), p, E, o) /\ KeysUsed(c, newKey).own = c.own
<1> DEFINE d == KeysUsed(c, newKey)
           K == Keys(p, c.own, o)
<1>1. c.own \in Nat /\ c \in Chats(p, E, K) /\ Len(c.db) \in Nat
  BY FieldsAre DEF Good
<1>2. 0 \in K
  BY <1>1, KeysGrow
<1>3. d \in Chats(p, E, K) /\ d.own = c.own
      /\ d.seqIn = c.seqIn /\ d.inSeqNo = c.inSeqNo /\ d.stage = c.stage /\ d.db = c.db /\ d.held = c.held
      /\ d.seqOut = c.seqOut /\ d.handled = c.handled /\ d.twice = c.twice
  <2> HIDE DEF K
  <2>1. CASE c.exchange = 0 /\ c.future # 0 /\ ~newKey
    BY <1>1, <1>2, <2>1 DEF KeysUsed, Chats
  <2>2. CASE c.exchange # 0 /\ newKey
    BY <1>1, <1>2, <2>2 DEF KeysUsed, Chats
  <2>3. CASE ~(c.exchange = 0 /\ c.future # 0 /\ ~newKey) /\ ~(c.exchange # 0 /\ newKey)
    BY <1>1, <1>2, <2>3 DEF KeysUsed, Chats
  <2> QED
    BY <2>1, <2>2, <2>3
<1>4. d \in Chats(p, E, Keys(p, d.own, o)) /\ c.own <= d.own
  BY <1>1, <1>3
<1> HIDE DEF d, K
<1> QED
  BY <1>3, <1>4, AlikeGoes DEF d

LEMMA ActGoes ==
    ASSUME NEW p \in Peers, NEW E, NEW o \in Nat, NEW c, Good(c, p, E, o),
           NEW b \in Bodies(Other(p), E, Keys(p, c.own, o))
    PROVE  Goes(c, Act(c, b), p, E, o)
<1>1. /\ b.kind \in Kinds /\ b.x \in E \cup {0} /\ b.key \in Keys(p, c.own, o) /\ b.from \in Nat /\ b.to \in Int
      /\ b.kind = "resend" => b.from \in Seen(Other(p)) /\ b.to % 2 = Par(Other(Other(p)))
  BY DEF Bodies
<1>2. Goes(c, c, p, E, o)
  BY FieldsAre, QuietAlways DEF Goes
<1>3. CASE b.kind = "request"
  BY <1>1, <1>3, RequestKeyGoes DEF Act
<1>4. CASE b.kind = "accept"
  BY <1>1, <1>4, AcceptKeyGoes DEF Act
<1>5. CASE b.kind = "commit"
  BY <1>1, <1>5, CommitKeyGoes DEF Act
<1>6. CASE b.kind = "abort"
  BY <1>1, <1>2, <1>6, DroppedGoes DEF Act, AbortKey
<1>7. CASE b.kind = "resend"
  <2>1. b.from \in Nums(p) /\ b.to % 2 = Par(p)
    BY <1>1, <1>7, PeerIs DEF Nums, Seen
  <2> QED
    BY <1>1, <1>7, <2>1, ResendGoes DEF Act
<1>8. CASE b.kind \notin {"request", "accept", "commit", "abort", "resend"}
  BY <1>2, <1>8 DEF Act
<1> QED
  BY <1>3, <1>4, <1>5, <1>6, <1>7, <1>8

\* A message is handled: what is counted before it is acted on.
Counting(c, k) == [c EXCEPT !.seqIn = k.out, !.inSeqNo = k.in, !.handled = Append(@, k.out)]

LEMMA CountingIs ==
    ASSUME NEW p \in Peers, NEW E, NEW o \in Nat, NEW c, Good(c, p, E, o),
           NEW k \in Messages(Other(p), E, Keys(p, c.own, o))
    PROVE  LET d == Counting(c, k) IN
           /\ Good(d, p, E, o) /\ d.own = c.own /\ d.seqIn = k.out
           /\ d.held = c.held /\ d.twice = c.twice /\ d.db = c.db /\ d.seqOut = c.seqOut
<1> DEFINE d == Counting(c, k)
           K == Keys(p, c.own, o)
<1>1. c \in Chats(p, E, K) /\ c.handled \in Seq(Nat) /\ Fit(c, p)
  BY FieldsAre DEF Good
<1>2. /\ k.out \in Nat /\ k.out % 2 = Par(Other(p)) /\ k.in \in Nat /\ k.in \in Nums(p)
      /\ Append(c.handled, k.out) \in Seq(Nat)
  BY <1>1, PeerIs DEF Messages, Nums, Seen
<1>3. d \in Chats(p, E, K) /\ d.own = c.own /\ d.seqIn = k.out /\ d.handled = Append(c.handled, k.out)
      /\ d.held = c.held /\ d.twice = c.twice /\ d.db = c.db /\ d.seqOut = c.seqOut
      /\ d.inSeqNo = k.in /\ d.stage = c.stage
  <2> DEFINE n == k.out
             i == k.in
             h == Append(c.handled, k.out)
  <2>1. n \in Int /\ i \in Nat /\ h \in Seq(Nat) /\ n = k.out /\ i = k.in
    BY <1>2
  <2>2. d = [c EXCEPT !.seqIn = n, !.inSeqNo = i, !.handled = h]
    BY <1>1 DEF Counting, Chats
  <2>3. h = Append(c.handled, k.out)
    OBVIOUS
  <2> HIDE DEF K, d, n, i, h
  <2> QED
    BY <1>1, <2>1, <2>2, <2>3 DEF Chats
<1>4. Fit(d, p)
  BY <1>1, <1>2, <1>3 DEF Fit
<1> HIDE DEF d
<1> QED
  BY <1>3, <1>4 DEF Good, d

LEMMA Processes ==
    ASSUME NEW p \in Peers, NEW E, NEW o \in Nat, NEW c, Good(c, p, E, o),
           NEW k \in Messages(Other(p), E, Keys(p, c.own, o)), NEW newKey \in BOOLEAN, NEW x \in E \cup {0}
    PROVE  Goes(Counting(c, k), ProcessDecryptedObject(c, k, newKey, x), p, E, o)
<1> DEFINE d == Counting(c, k)
           e == RequestNewKey(d, x)
           f == KeysUsed(e, newKey)
<1>1. Good(d, p, E, o) /\ d.own = c.own
  BY CountingIs
<1>2. ProcessDecryptedObject(c, k, newKey, x) = Act(f, k.body)
  BY DEF ProcessDecryptedObject, Counting
<1> HIDE DEF d, e, f
<1>3. Goes(d, e, p, E, o) /\ e.own = d.own
  BY <1>1, RequestNewKeyGoes DEF e
<1>4. Goes(e, f, p, E, o) /\ f.own = e.own
  BY <1>3, KeysUsedGoes DEF Goes, f
<1>5. Goes(d, f, p, E, o)
  BY <1>1, <1>3, <1>4, GoesOn
<1>6. k.body \in Bodies(Other(p), E, Keys(p, f.own, o))
  BY <1>1, <1>3, <1>4 DEF Messages
<1>7. Goes(f, Act(f, k.body), p, E, o)
  BY <1>4, <1>6, ActGoes DEF Goes
<1>8. Goes(d, Act(f, k.body), p, E, o)
  BY <1>1, <1>5, <1>7, GoesOn
<1> QED
  BY <1>2, <1>8 DEF d

-----------------------------------------------------------------------------
(* Doing something on each of a sequence, in order.                          *)

LEMMA NatSet ==
    ASSUME NEW S, 0 \in S, \A n \in Nat : n \in S => n + 1 \in S
    PROVE  Nat \subseteq S
<1> SUFFICES ASSUME Nat \ S # {} PROVE FALSE
  OBVIOUS
<1> DEFINE R == OpToRel(<, Nat)
           T == Nat \ S
<1>1. IsWellFoundedOn(R, Nat)
  BY NatLessThanWellFounded
<1>2. \E x \in T : \A y \in T : <<y, x>> \notin R
  <2>1. T \subseteq Nat /\ T # {}
    OBVIOUS
  <2> HIDE DEF R, T
  <2> QED
    BY <1>1, <2>1, WFMin
<1>3. PICK x \in T : \A y \in T : <<y, x>> \notin R
  BY <1>2
<1>4. x # 0 /\ x - 1 \in Nat /\ (x - 1) + 1 = x
  OBVIOUS
<1>5. x - 1 \in S
  <2>1. <<x - 1, x>> \in R
    BY <1>4 DEF OpToRel
  <2> QED
    BY <1>3, <1>4, <2>1
<1> QED
  BY <1>4, <1>5

\* The three things that are done so.
Done(what, c, x) ==
    IF what = "takeUp" THEN TakeUp(c, x) ELSE IF what = "retry" THEN Retry(c, x) ELSE SendUnsent(c, x)

Folding(what, c, n, q, f) ==
    f = [s \in SUBSET (1..n) |-> IF s = {} THEN c ELSE LET x == Max(s) IN Done(what, f[s \ {x}], q[x])]

LEMMA MaxUpTo ==
    ASSUME NEW n \in Nat \ {0}
    PROVE  Max(1..n) = n /\ (1..n) \ {n} = 1..n - 1
<1>1. n \in 1..n /\ \A y \in 1..n : n >= y
  OBVIOUS
<1>2. \A x \in 1..n : (\A y \in 1..n : x >= y) => x = n
  OBVIOUS
<1>3. Max(1..n) = n
  BY <1>1, <1>2 DEF Max
<1> QED
  BY <1>3

LEMMA MaxWithin ==
    ASSUME NEW n \in Nat, NEW s \in SUBSET (1..n + 1), s # {}
    PROVE  Max(s) \in s /\ (s \ {Max(s)}) \in SUBSET (1..n)
<1> DEFINE S == {k \in Nat : \A t \in SUBSET (1..k) : t # {} => \E x \in t : \A y \in t : x >= y}
<1>1. 0 \in S
  <2>1. \A t \in SUBSET (1..0) : t = {}
    OBVIOUS
  <2> QED
    BY <2>1
<1>2. ASSUME NEW k \in Nat, k \in S PROVE k + 1 \in S
  <2>1. ASSUME NEW t \in SUBSET (1..k + 1), t # {} PROVE \E x \in t : \A y \in t : x >= y
    <3>1. CASE k + 1 \in t
      <4>1. \A y \in t : k + 1 >= y
        OBVIOUS
      <4> QED
        BY <3>1, <4>1
    <3>2. CASE k + 1 \notin t
      <4>1. t \in SUBSET (1..k)
        BY <3>2
      <4> QED
        BY <1>2, <2>1, <4>1
    <3> QED
      BY <3>1, <3>2
  <2> QED
    BY <2>1
<1> HIDE DEF S
<1>3. n + 1 \in S
  <2>1. Nat \subseteq S
    BY <1>1, <1>2, NatSet
  <2> QED
    BY <2>1
<1>4. PICK x \in s : \A y \in s : x >= y
  <2>1. \A t \in SUBSET (1..n + 1) : t # {} => \E x \in t : \A y \in t : x >= y
    BY <1>3 DEF S
  <2> QED
    BY <2>1
<1>5. Max(s) \in s /\ \A y \in s : Max(s) >= y
  BY <1>4 DEF Max
<1>6. ASSUME NEW y \in s \ {Max(s)} PROVE y \in 1..n
  <2>1. y \in 1..n + 1 /\ Max(s) \in 1..n + 1 /\ Max(s) >= y /\ Max(s) # y
    BY <1>5
  <2> HIDE DEF Max
  <2> QED
    BY <2>1
<1> QED
  BY <1>5, <1>6

LEMMA FoldingSome ==
    ASSUME NEW what, NEW c, NEW q, NEW n \in Nat
    PROVE  \E f : Folding(what, c, n, q, f)
<1> DEFINE S == {k \in Nat : \E f : Folding(what, c, k, q, f)}
<1>1. 0 \in S
  <2> DEFINE f == [s \in SUBSET (1..0) |-> c]
  <2>1. \A s \in SUBSET (1..0) : s = {}
    OBVIOUS
  <2>2. f = [s \in SUBSET (1..0) |-> IF s = {} THEN c ELSE LET x == Max(s) IN Done(what, f[s \ {x}], q[x])]
    BY <2>1
  <2>3. Folding(what, c, 0, q, f)
    BY <2>2 DEF Folding
  <2> QED
    BY <2>3
<1>2. ASSUME NEW k \in Nat, k \in S PROVE k + 1 \in S
  <2>1. PICK f : Folding(what, c, k, q, f)
    BY <1>2
  <2> DEFINE G(h, s) == IF s = {} THEN c ELSE Done(what, h[s \ {Max(s)}], q[Max(s)])
             g == [s \in SUBSET (1..k + 1) |-> G(f, s)]
  <2>2. \A s \in SUBSET (1..k) : f[s] = G(f, s)
    BY <2>1 DEF Folding
  <2>3. \A s \in SUBSET (1..k) : g[s] = f[s]
    <3>1. \A s \in SUBSET (1..k) : s \in SUBSET (1..k + 1)
      OBVIOUS
    <3>2. \A s \in SUBSET (1..k + 1) : g[s] = G(f, s)
      OBVIOUS
    <3> HIDE DEF G, g
    <3> QED
      BY <2>2, <3>1, <3>2
  <2>4. ASSUME NEW s \in SUBSET (1..k + 1) PROVE G(f, s) = G(g, s)
    <3>1. CASE s = {}
      BY <3>1
    <3>2. CASE s # {}
      <4>1. g[s \ {Max(s)}] = f[s \ {Max(s)}]
        <5>1. (s \ {Max(s)}) \in SUBSET (1..k)
          BY <3>2, MaxWithin
        <5> HIDE DEF g
        <5> QED
          BY <2>3, <5>1
      <4> HIDE DEF g
      <4> QED
        BY <4>1
    <3> QED
      BY <3>1, <3>2
  <2>5. g = [s \in SUBSET (1..k + 1) |-> G(g, s)]
    <3>1. g = [s \in SUBSET (1..k + 1) |-> G(f, s)]
      OBVIOUS
    <3> HIDE DEF G, g
    <3> QED
      BY <2>4, <3>1
  <2>6. Folding(what, c, k + 1, q, g)
    <3> HIDE DEF g
    <3> QED
      BY <2>5 DEF Folding
  <2> QED
    BY <2>6
<1> HIDE DEF S
<1>3. n \in S
  BY <1>1, <1>2, NatSet
<1> QED
  BY <1>3 DEF S

\* What comes of the first i of them.
Steps(what, c, n, q, g) == g[0] = c /\ \A i \in 1..n : g[i] = Done(what, g[i - 1], q[i])

LEMMA FoldingSteps ==
    ASSUME NEW what, NEW c, NEW q, NEW n \in Nat, NEW f, Folding(what, c, n, q, f)
    PROVE  \E g : Steps(what, c, n, q, g) /\ f[1..n] = g[n]
<1> DEFINE g == [i \in 0..n |-> f[1..i]]
<1>1. ASSUME NEW s \in SUBSET (1..n)
      PROVE  f[s] = IF s = {} THEN c ELSE Done(what, f[s \ {Max(s)}], q[Max(s)])
  BY DEF Folding
<1>2. \A i \in 0..n : (1..i) \in SUBSET (1..n)
  OBVIOUS
<1>3. g[0] = c
  <2>1. g[0] = f[1..0] /\ 1..0 = {}
    OBVIOUS
  <2> QED
    BY <1>1, <2>1
<1>4. ASSUME NEW i \in 1..n PROVE g[i] = Done(what, g[i - 1], q[i])
  <2>1. Max(1..i) = i /\ (1..i) \ {i} = 1..i - 1
    BY MaxUpTo
  <2>2. 1..i # {} /\ (1..i) \in SUBSET (1..n) /\ i \in 0..n /\ i - 1 \in 0..n
    OBVIOUS
  <2>3. f[1..i] = Done(what, f[1..i - 1], q[i])
    BY <1>1, <2>1, <2>2
  <2>4. g[i] = f[1..i] /\ g[i - 1] = f[1..i - 1]
    BY <2>2
  <2> HIDE DEF g
  <2> QED
    BY <2>3, <2>4
<1>5. g[n] = f[1..n]
  OBVIOUS
<1> HIDE DEF g
<1>6. Steps(what, c, n, q, g)
  BY <1>3, <1>4 DEF Steps
<1> QED
  BY <1>5, <1>6

LEMMA TakingUp ==
    ASSUME NEW c, NEW q, NEW n \in Nat, DOMAIN q = 1..n
    PROVE  \E g : Steps("takeUp", c, n, q, g) /\ FoldLeft(TakeUp, c, q) = g[n]
<1> DEFINE Is(f) == f = [s \in SUBSET DOMAIN q |-> IF s = {} THEN c ELSE LET x == Max(s) IN TakeUp(f[s \ {x}], q[x])]
<1>1. FoldLeft(TakeUp, c, q) = (CHOOSE f : Is(f))[DOMAIN q]
  BY DEF FoldLeft, MapThenFoldSet
<1>2. \A f : Is(f) <=> Folding("takeUp", c, n, q, f)
  BY DEF Folding, Done
<1> HIDE DEF Is
<1> DEFINE h == CHOOSE f : Is(f)
<1>3. Folding("takeUp", c, n, q, h)
  BY <1>2, FoldingSome
<1> HIDE DEF h
<1>4. PICK g : Steps("takeUp", c, n, q, g) /\ h[1..n] = g[n]
  BY <1>3, FoldingSteps
<1> QED
  BY <1>1, <1>4 DEF h

LEMMA Retrying ==
    ASSUME NEW c, NEW q, NEW n \in Nat, DOMAIN q = 1..n
    PROVE  \E g : Steps("retry", c, n, q, g) /\ FoldLeft(Retry, c, q) = g[n]
<1> DEFINE Is(f) == f = [s \in SUBSET DOMAIN q |-> IF s = {} THEN c ELSE LET x == Max(s) IN Retry(f[s \ {x}], q[x])]
<1>1. FoldLeft(Retry, c, q) = (CHOOSE f : Is(f))[DOMAIN q]
  BY DEF FoldLeft, MapThenFoldSet
<1>2. \A f : Is(f) <=> Folding("retry", c, n, q, f)
  BY DEF Folding, Done
<1> HIDE DEF Is
<1> DEFINE h == CHOOSE f : Is(f)
<1>3. Folding("retry", c, n, q, h)
  BY <1>2, FoldingSome
<1> HIDE DEF h
<1>4. PICK g : Steps("retry", c, n, q, g) /\ h[1..n] = g[n]
  BY <1>3, FoldingSteps
<1> QED
  BY <1>1, <1>4 DEF h

LEMMA SendingUnsent ==
    ASSUME NEW c, NEW q, NEW n \in Nat, DOMAIN q = 1..n
    PROVE  \E g : Steps("sendUnsent", c, n, q, g) /\ FoldLeft(SendUnsent, c, q) = g[n]
<1> DEFINE Is(f) == f = [s \in SUBSET DOMAIN q |-> IF s = {} THEN c ELSE LET x == Max(s) IN SendUnsent(f[s \ {x}], q[x])]
<1>1. FoldLeft(SendUnsent, c, q) = (CHOOSE f : Is(f))[DOMAIN q]
  BY DEF FoldLeft, MapThenFoldSet
<1>2. \A f : Is(f) <=> Folding("sendUnsent", c, n, q, f)
  BY DEF Folding, Done
<1> HIDE DEF Is
<1> DEFINE h == CHOOSE f : Is(f)
<1>3. Folding("sendUnsent", c, n, q, h)
  BY <1>2, FoldingSome
<1> HIDE DEF h
<1>4. PICK g : Steps("sendUnsent", c, n, q, g) /\ h[1..n] = g[n]
  BY <1>3, FoldingSteps
<1> QED
  BY <1>1, <1>4 DEF h

-----------------------------------------------------------------------------
(* Messages that are sent again.                                             *)

\* Nothing is changed but what is to be sent.
Sends(c, d, p, E, o) == Goes(c, d, p, E, o) /\ d.own = c.own /\ d.db = c.db

LEMMA SendsOn ==
    ASSUME NEW p, NEW E, NEW o, NEW c, Good(c, p, E, o), NEW d, Sends(c, d, p, E, o),
           NEW e, Sends(d, e, p, E, o)
    PROVE  Sends(c, e, p, E, o)
  BY GoesOn DEF Sends

LEMMA RetrySends ==
    ASSUME NEW p, NEW E, NEW o \in Nat, NEW c, Good(c, p, E, o),
           NEW t \in Sendings(p, E, Keys(p, c.own, o)), t.m <= Len(c.db)
    PROVE  Sends(c, Retry(c, t), p, E, o)
<1> DEFINE K == Keys(p, c.own, o)
<1>1. c \in Chats(p, E, K) /\ c.stage \in Seq(Sendings(p, E, K)) /\ c.asked \in SUBSET Int
      /\ c.own \in Nat /\ Len(c.db) \in Nat /\ Fit(c, p)
  BY FieldsAre DEF Good
<1>2. t \in Sendings(p, E, K)
  OBVIOUS
<1> HIDE DEF K
<1>3. Append(c.stage, t) \in Seq(Sendings(p, E, K))
  BY <1>1, <1>2
<1>4. \A i \in DOMAIN Append(c.stage, t) : Append(c.stage, t)[i].m <= Len(c.db)
  <2>1. \A i \in DOMAIN Append(c.stage, t) : Append(c.stage, t)[i] = t
            \/ (i \in DOMAIN c.stage /\ Append(c.stage, t)[i] = c.stage[i])
    BY <1>1, <1>2
  <2> QED
    BY <1>1, <2>1 DEF Fit
<1>5. ASSUME NEW a \in SUBSET Int PROVE Sends(c, [c EXCEPT !.asked = a, !.stage = Append(c.stage, t)], p, E, o)
  <2> DEFINE q == Append(c.stage, t)
             d == [c EXCEPT !.asked = a, !.stage = q]
  <2>0. q \in Seq(Sendings(p, E, K)) /\ \A i \in DOMAIN q : q[i].m <= Len(c.db)
    BY <1>3, <1>4
  <2> HIDE DEF q
  <2>1. d \in Chats(p, E, K) /\ d.own = c.own /\ d.db = c.db /\ d.stage = q
        /\ d.seqIn = c.seqIn /\ d.inSeqNo = c.inSeqNo /\ d.held = c.held
        /\ d.seqOut = c.seqOut /\ d.handled = c.handled /\ d.twice = c.twice
    BY <1>1, <2>0 DEF Chats
  <2> HIDE DEF d
  <2>2. Fit(d, p) /\ Quiet(c, d)
    BY <1>1, <2>0, <2>1 DEF Fit, Quiet
  <2>3. Sends(c, d, p, E, o)
    BY <1>1, <2>1, <2>2 DEF Sends, Goes, Good, K
  <2> QED
    BY <2>3 DEF d, q
<1>6. Sends(c, c, p, E, o)
  BY <1>1, QuietAlways DEF Sends, Goes
<1>7. CASE t.body.kind # "resend"
  <2>1. Retry(c, t) = [c EXCEPT !.asked = c.asked, !.stage = Append(c.stage, t)]
    BY <1>1, <1>7 DEF Retry, Chats
  <2> QED
    BY <1>1, <1>5, <2>1
<1>8. CASE t.body.kind = "resend" /\ 0 \in c.asked
  BY <1>6, <1>8 DEF Retry
<1>9. CASE t.body.kind = "resend" /\ 0 \notin c.asked
  <2>1. Retry(c, t) = [c EXCEPT !.asked = c.asked \cup {0}, !.stage = Append(c.stage, t)]
    BY <1>1, <1>9 DEF Retry, Chats
  <2>2. (c.asked \cup {0}) \in SUBSET Int
    BY <1>1
  <2> QED
    BY <1>5, <2>1, <2>2
<1> QED
  BY <1>7, <1>8, <1>9

LEMMA LoadedIs ==
    ASSUME NEW p, NEW E, NEW o \in Nat, NEW c, Good(c, p, E, o), NEW m \in DOMAIN c.db
    PROVE  Loaded(c, m) \in Sendings(p, E, Keys(p, c.own, o)) /\ Loaded(c, m).m <= Len(c.db)
           /\ Loaded(c, m).seq = c.db[m].seq
<1> DEFINE K == Keys(p, c.own, o)
<1>1. c.db \in Seq(Entries(p, E, K)) /\ Len(c.db) \in Nat
  BY FieldsAre
<1>2. c.db[m] \in Entries(p, E, K) /\ m \in Nat /\ m # 0 /\ m <= Len(c.db)
  BY <1>1
<1> HIDE DEF K
<1>3. Loaded(c, m) \in Sendings(p, E, K)
  BY <1>2 DEF Loaded, Sendings, Entries, Placed
<1> QED
  BY <1>2, <1>3 DEF K, Loaded

LEMMA SubstituteIs ==
    ASSUME NEW p \in Peers, NEW E, NEW n \in Nat, NEW o \in Nat, NEW out \in Nums(p)
    PROVE  Substitute(out) \in Sendings(p, E, Keys(p, n, o)) /\ Substitute(out).m = 0
<1>1. Body("delete") \in Bodies(p, E, Keys(p, n, o))
  BY BodyIs DEF Kinds
<1>2. out \in Nat /\ out + 1 \in Seen(p)
  <2>1. (Par(p) = 0 /\ Par(Other(p)) = 1) \/ (Par(p) = 1 /\ Par(Other(p)) = 0)
    BY DEF Peers, Par, Other
  <2> QED
    BY <2>1 DEF Nums, Seen
<1> QED
  BY <1>1, <1>2 DEF Substitute, Sendings, Placed

LEMMA SendUnsentSends ==
    ASSUME NEW p, NEW E, NEW o \in Nat, NEW c, Good(c, p, E, o), NEW m \in DOMAIN c.db
    PROVE  Sends(c, SendUnsent(c, m), p, E, o)
<1>1. Sends(c, c, p, E, o)
  BY FieldsAre, QuietAlways DEF Sends, Goes
<1>2. Sends(c, Retry(c, Loaded(c, m)), p, E, o)
  BY LoadedIs, RetrySends
<1> QED
  BY <1>1, <1>2 DEF SendUnsent

LEMMA RetriesSend ==
    ASSUME NEW p, NEW E, NEW o \in Nat, NEW c, Good(c, p, E, o), NEW n \in Nat, NEW q, DOMAIN q = 1..n,
           \A i \in 1..n : q[i] \in Sendings(p, E, Keys(p, c.own, o)) /\ q[i].m <= Len(c.db)
    PROVE  Sends(c, FoldLeft(Retry, c, q), p, E, o)
<1>0. PICK g : Steps("retry", c, n, q, g) /\ FoldLeft(Retry, c, q) = g[n]
  BY Retrying
<1>1. g[0] = c /\ \A i \in 1..n : g[i] = Retry(g[i - 1], q[i])
  BY <1>0 DEF Steps, Done
<1> DEFINE S == {i \in Nat : i <= n => Sends(c, g[i], p, E, o)}
<1>2. 0 \in S
  BY <1>1, FieldsAre, QuietAlways DEF Sends, Goes
<1>3. ASSUME NEW i \in Nat, i \in S PROVE i + 1 \in S
  <2> SUFFICES ASSUME i + 1 <= n PROVE Sends(c, g[i + 1], p, E, o)
    OBVIOUS
  <2>1. Sends(c, g[i], p, E, o) /\ Good(g[i], p, E, o)
    BY <1>3 DEF Sends, Goes
  <2>2. i + 1 \in 1..n /\ (i + 1) - 1 = i
    OBVIOUS
  <2>3. g[i + 1] = Retry(g[i], q[i + 1])
    BY <1>1, <2>2
  <2>4. q[i + 1] \in Sendings(p, E, Keys(p, g[i].own, o)) /\ q[i + 1].m <= Len(g[i].db)
    BY <2>1, <2>2 DEF Sends
  <2>5. Sends(g[i], g[i + 1], p, E, o)
    BY <2>1, <2>3, <2>4, RetrySends
  <2> QED
    BY <2>1, <2>5, SendsOn
<1> HIDE DEF S
<1>4. n \in S
  BY <1>2, <1>3, NatSet
<1> QED
  BY <1>0, <1>4 DEF S

LEMMA UnsentSend ==
    ASSUME NEW p, NEW E, NEW o \in Nat, NEW c, Good(c, p, E, o), NEW b, b = c.db
    PROVE  Sends(c, FoldLeft(SendUnsent, c, [m \in DOMAIN b |-> m]), p, E, o)
<1> DEFINE n == Len(c.db)
           q == [m \in DOMAIN b |-> m]
<1>0. n \in Nat /\ DOMAIN q = 1..n /\ \A i \in 1..n : q[i] = i
  BY FieldsAre
<1> HIDE DEF n, q
<1>a. PICK g : Steps("sendUnsent", c, n, q, g) /\ FoldLeft(SendUnsent, c, q) = g[n]
  BY <1>0, SendingUnsent
<1>1. g[0] = c /\ \A i \in 1..n : g[i] = SendUnsent(g[i - 1], q[i])
  BY <1>a DEF Steps, Done
<1> DEFINE S == {i \in Nat : i <= n => Sends(c, g[i], p, E, o)}
<1>2. 0 \in S
  BY <1>1, FieldsAre, QuietAlways DEF Sends, Goes
<1>3. ASSUME NEW i \in Nat, i \in S PROVE i + 1 \in S
  <2> SUFFICES ASSUME i + 1 <= n PROVE Sends(c, g[i + 1], p, E, o)
    OBVIOUS
  <2>1. Sends(c, g[i], p, E, o) /\ Good(g[i], p, E, o) /\ g[i].db = c.db
    BY <1>0, <1>3 DEF Sends, Goes
  <2>2. i + 1 \in 1..n /\ (i + 1) - 1 = i
    BY <1>0
  <2>3. g[i + 1] = SendUnsent(g[i], i + 1)
    BY <1>0, <1>1, <2>2
  <2>4. i + 1 \in DOMAIN g[i].db
    BY <2>1, <2>2, FieldsAre DEF n
  <2>5. Sends(g[i], g[i + 1], p, E, o)
    BY <2>1, <2>3, <2>4, SendUnsentSends
  <2> QED
    BY <2>1, <2>5, SendsOn
<1> HIDE DEF S
<1>4. n \in S
  BY <1>0, <1>2, <1>3, NatSet
<1> QED
  BY <1>0, <1>a, <1>4 DEF S, q

-----------------------------------------------------------------------------
(* What is known of a chat besides the types.                                *)

\* The numbers it has given are below the next one, and no two are the same.
Numbers(c) ==
    /\ \A m \in DOMAIN c.db : c.db[m].seq => c.db[m].out < c.seqOut
    /\ \A m, n \in DOMAIN c.db : c.db[m].seq /\ c.db[n].seq /\ m # n => c.db[m].out # c.db[n].out

\* What it has handled is all that the other has numbered up to seqIn.
Gapless(c, p) ==
    /\ \A i \in DOMAIN c.handled : c.handled[i] = New(p).seqIn + 2 * i
    /\ c.seqIn = New(p).seqIn + 2 * Len(c.handled)

\* What it holds back comes after a hole, and is not held twice.
HeldAfter(c) ==
    /\ \A i \in DOMAIN c.held : c.held[i].k.out > c.seqIn + 2
    /\ \A i, j \in DOMAIN c.held : i # j => c.held[i].k.out # c.held[j].k.out

Fine(c, p, E, o) == Good(c, p, E, o) /\ Numbers(c) /\ (c.twice \/ (Gapless(c, p) /\ HeldAfter(c)))

\* The database is no other than it was, but for new messages without a number.
Kept(c, d) ==
    /\ d.seqOut = c.seqOut
    /\ \A m \in DOMAIN d.db : d.db[m].seq => /\ m \in DOMAIN c.db /\ c.db[m].seq
                                             /\ d.db[m].out = c.db[m].out

LEMMA KeptNumbers ==
    ASSUME NEW c, Numbers(c), NEW d, Kept(c, d)
    PROVE  Numbers(d)
<1>1. ASSUME NEW m \in DOMAIN d.db, d.db[m].seq PROVE d.db[m].out < d.seqOut
  BY <1>1 DEF Numbers, Kept
<1>2. ASSUME NEW m \in DOMAIN d.db, NEW n \in DOMAIN d.db, d.db[m].seq, d.db[n].seq, m # n
      PROVE  d.db[m].out # d.db[n].out
  BY <1>2 DEF Numbers, Kept
<1> QED
  BY <1>1, <1>2 DEF Numbers

LEMMA GoesFine ==
    ASSUME NEW p, NEW E, NEW o, NEW c, Fine(c, p, E, o), NEW d, Goes(c, d, p, E, o)
    PROVE  Fine(d, p, E, o)
<1>1. Kept(c, d) /\ d.seqIn = c.seqIn /\ d.held = c.held /\ d.handled = c.handled /\ d.twice = c.twice
      /\ Good(d, p, E, o)
  BY DEF Goes, Quiet, Kept
<1>2. Numbers(d)
  BY <1>1, KeptNumbers DEF Fine
<1>3. d.twice \/ (Gapless(d, p) /\ HeldAfter(d))
  BY <1>1 DEF Fine, Gapless, HeldAfter
<1> QED
  BY <1>1, <1>2, <1>3 DEF Fine

LEMMA MoreFine ==
    ASSUME NEW p, NEW E, NEW F, E \subseteq F, NEW o \in Nat, NEW u \in Nat, o <= u,
           NEW c, Fine(c, p, E, o)
    PROVE  Fine(c, p, F, u)
<1>1. c \in Chats(p, E, Keys(p, c.own, o)) /\ Fit(c, p) /\ c.own \in Nat
  BY FieldsAre DEF Fine, Good
<1>2. Keys(p, c.own, o) \subseteq Keys(p, c.own, u)
  BY <1>1, KeysGrow
<1>3. c \in Chats(p, F, Keys(p, c.own, u))
  BY <1>1, <1>2, MoreChats
<1> QED
  BY <1>1, <1>3 DEF Fine, Good

\* The first of what is to be sent has been taken.
Unstaged(c) == [c EXCEPT !.stage = Tail(@)]

LEMMA StagedFine ==
    ASSUME NEW p, NEW E, NEW o, NEW c, Fine(c, p, E, o), c.stage # <<>>, NEW t, t = Head(c.stage)
    PROVE  LET d == Unstaged(c) IN
           /\ Fine(d, p, E, o) /\ d.own = c.own /\ d.db = c.db
           /\ t \in Sendings(p, E, Keys(p, c.own, o)) /\ t.m <= Len(c.db)
<1> DEFINE K == Keys(p, c.own, o)
           q == Tail(c.stage)
           d == [c EXCEPT !.stage = q]
<1>1. c \in Chats(p, E, K) /\ c.stage \in Seq(Sendings(p, E, K)) /\ Fit(c, p) /\ Good(c, p, E, o)
      /\ c.own \in Nat /\ Len(c.db) \in Nat
  BY FieldsAre DEF Fine, Good
<1> HIDE DEF K
<1>2. q \in Seq(Sendings(p, E, K)) /\ Head(c.stage) \in Sendings(p, E, K)
      /\ Head(c.stage) = c.stage[1] /\ 1 \in DOMAIN c.stage
  BY <1>1
<1>3. \A i \in DOMAIN q : i + 1 \in DOMAIN c.stage /\ q[i] = c.stage[i + 1]
  BY <1>1
<1> HIDE DEF q
<1>4. d \in Chats(p, E, K) /\ d.own = c.own /\ d.db = c.db /\ d.stage = q
      /\ d.seqIn = c.seqIn /\ d.inSeqNo = c.inSeqNo /\ d.held = c.held
      /\ d.seqOut = c.seqOut /\ d.handled = c.handled /\ d.twice = c.twice
  BY <1>1, <1>2 DEF Chats
<1>5. d = Unstaged(c)
  BY <1>1 DEF Chats, Unstaged, q
<1> HIDE DEF d
<1>6. \A i \in DOMAIN d.stage : d.stage[i].m <= Len(d.db)
  BY <1>1, <1>3, <1>4 DEF Fit
<1>7. Fit(d, p) /\ Quiet(c, d)
  BY <1>1, <1>4, <1>6 DEF Fit, Quiet
<1>8. Goes(c, d, p, E, o)
  BY <1>1, <1>4, <1>7 DEF Goes, Good, K
<1>9. Fine(d, p, E, o)
  BY <1>8, GoesFine
<1>10. Head(c.stage).m <= Len(c.db)
  BY <1>1, <1>2 DEF Fit
<1> QED
  BY <1>2, <1>4, <1>5, <1>9, <1>10 DEF K

LEMMA NextIn ==
    ASSUME NEW p, NEW E, NEW o, NEW c, Good(c, p, E, o)
    PROVE  (IF c.seqIn > 0 THEN c.seqIn ELSE c.seqIn + 2) \in Seen(p)
<1>1. c.seqIn \in Int /\ c.seqIn >= -2 /\ c.seqIn % 2 = Par(Other(p))
  BY FieldsAre DEF Good, Fit
<1>2. \A n \in Int : (n + 2) % 2 = n % 2
  OBVIOUS
<1> QED
  BY <1>1, <1>2 DEF Seen

LEMMA EncryptedIs ==
    ASSUME NEW p, NEW E, NEW o, NEW c, Good(c, p, E, o), NEW t \in Sendings(p, E, Keys(p, c.own, o))
    PROVE  Encrypted(c, t) \in Messages(p, E, Keys(p, c.own, o))
<1> DEFINE K == Keys(p, c.own, o)
           in == IF c.seqIn > 0 THEN c.seqIn ELSE c.seqIn + 2
           n == IF t.seq THEN t.out ELSE c.seqOut
           i == IF t.seq THEN t.in ELSE in
<1>1. c.key \in K /\ c.seqOut \in Nums(p) /\ in \in Seen(p)
  BY FieldsAre, NextIn
<1>2. t.m \in Nat /\ t.body \in Bodies(p, E, K) /\ t.seq \in BOOLEAN /\ (t.seq => t.out \in Nums(p) /\ t.in \in Seen(p))
  BY DEF Sendings, Placed
<1> HIDE DEF in, K
<1>3. n \in Nums(p) /\ i \in Seen(p)
  BY <1>1, <1>2
<1>4. Encrypted(c, t) = [m |-> t.m, body |-> t.body, key |-> c.key, again |-> t.seq, out |-> n, in |-> i]
  BY DEF Encrypted, in
<1> HIDE DEF n, i
<1> QED
  BY <1>1, <1>2, <1>3, <1>4 DEF Messages, K

\* An entry of the database that is given its number.
Placing(e, out, in) == [e EXCEPT !.seq = TRUE, !.out = out, !.in = in]

LEMMA PlacingIs ==
    ASSUME NEW p, NEW E, NEW K, NEW e \in Entries(p, E, K), NEW out \in Nums(p), NEW in \in Seen(p)
    PROVE  Placing(e, out, in) \in Entries(p, E, K) /\ Placing(e, out, in).out = out
<1>1. e.body \in Bodies(p, E, K) /\ e.state \in States
  BY DEF Entries
<1>2. Placing(e, out, in) = [body |-> e.body, seq |-> TRUE, out |-> out, in |-> in, state |-> e.state]
  <2>1. e = [body |-> e.body, seq |-> e.seq, out |-> e.out, in |-> e.in, state |-> e.state]
    BY DEF Entries
  <2>2. ASSUME NEW s PROVE [[[e EXCEPT !.seq = s] EXCEPT !.out = out] EXCEPT !.in = in]
                             = [body |-> e.body, seq |-> s, out |-> out, in |-> in, state |-> e.state]
    <3>1. [e EXCEPT !.seq = s] = [body |-> e.body, seq |-> s, out |-> e.out, in |-> e.in, state |-> e.state]
      BY <2>1
    <3>2. [[body |-> e.body, seq |-> s, out |-> e.out, in |-> e.in, state |-> e.state] EXCEPT !.out = out]
            = [body |-> e.body, seq |-> s, out |-> out, in |-> e.in, state |-> e.state]
      OBVIOUS
    <3>3. [[body |-> e.body, seq |-> s, out |-> out, in |-> e.in, state |-> e.state] EXCEPT !.in = in]
            = [body |-> e.body, seq |-> s, out |-> out, in |-> in, state |-> e.state]
      OBVIOUS
    <3> QED
      BY <3>1, <3>2, <3>3, Zenon
  <2> QED
    BY <2>2, Zenon DEF Placing
<1>3. out \in Nat /\ in \in Nat
  BY DEF Nums, Seen
<1> QED
  BY <1>1, <1>2, <1>3 DEF Entries, Placed

LEMMA NumberedFine ==
    ASSUME NEW p, NEW E, NEW o \in Nat, NEW c, Fine(c, p, E, o),
           NEW t \in Sendings(p, E, Keys(p, c.own, o)), t.m <= Len(c.db), ~t.seq, NEW x \in E \cup {0}
    PROVE  Fine(Numbered(c, t, x), p, E, o) /\ Numbered(c, t, x).own = c.own
<1> DEFINE K == Keys(p, c.own, o)
           in == IF c.seqIn > 0 THEN c.seqIn ELSE c.seqIn + 2
           m == t.m
           a == Placing(c.db[m], c.seqOut, in)
           b == [c.db EXCEPT ![m] = a]
           n == c.seqOut + 2
           e == [c EXCEPT !.seqOut = n, !.db = b]
<1>1. c \in Chats(p, E, K) /\ c.db \in Seq(Entries(p, E, K)) /\ Len(c.db) \in Nat /\ c.seqOut \in Nums(p)
      /\ c.own \in Nat /\ Fit(c, p) /\ Good(c, p, E, o)
  BY FieldsAre DEF Fine, Good
<1>2. in \in Seen(p)
  BY <1>1, NextIn
<1>3. m \in Nat /\ m # 0
  BY DEF Sendings
<1>4. m \in DOMAIN c.db /\ c.db[m] \in Entries(p, E, K)
  <2>1. m \in DOMAIN c.db
    BY <1>1, <1>3
  <2> HIDE DEF K, m
  <2> QED
    BY <1>1, <2>1
<1> HIDE DEF K, in
<1>5. a \in Entries(p, E, K) /\ a.out = c.seqOut
  BY <1>1, <1>2, <1>4, PlacingIs
<1> HIDE DEF a
<1>6. b \in Seq(Entries(p, E, K)) /\ DOMAIN b = DOMAIN c.db /\ Len(b) = Len(c.db)
      /\ b[m] = a /\ \A i \in DOMAIN c.db : i # m => b[i] = c.db[i]
  <2> HIDE DEF m
  <2> QED
    BY <1>1, <1>4, <1>5
<1>7. n \in Nums(p) /\ c.seqOut < n
  BY <1>1 DEF Nums
<1>8. Numbered(c, t, x) = RequestNewKey(e, x)
  <2> DEFINE d == [c EXCEPT !.seqOut = @ + 2]
             f == [d EXCEPT !.db[t.m] = Placing(@, c.seqOut, in)]
  <2>1. d.db = c.db /\ d = [c EXCEPT !.seqOut = n] /\ DOMAIN d = DOMAIN c
    BY <1>1 DEF Chats
  <2>2. f = e
    <3>1. f = [d EXCEPT !.db = [d.db EXCEPT ![m] = Placing(d.db[m], c.seqOut, in)]]
      BY <1>1 DEF Chats
    <3>2. f = [d EXCEPT !.db = b]
      BY <2>1, <3>1 DEF a
    <3> HIDE DEF f, d, b, n
    <3> QED
      BY <1>1, <2>1, <3>2 DEF Chats
  <2>3. Numbered(c, t, x) = RequestNewKey(f, x)
    BY <1>3 DEF Numbered, Placing, in
  <2> HIDE DEF e, f
  <2> QED
    BY <2>2, <2>3
<1> HIDE DEF b, n
<1>9. e \in Chats(p, E, K) /\ e.own = c.own /\ e.db = b /\ e.stage = c.stage
      /\ e.seqIn = c.seqIn /\ e.inSeqNo = c.inSeqNo /\ e.held = c.held
      /\ e.seqOut = n /\ e.handled = c.handled /\ e.twice = c.twice
  BY <1>1, <1>6, <1>7 DEF Chats
<1> HIDE DEF e, m
<1>10. Good(e, p, E, o)
  BY <1>1, <1>6, <1>9 DEF Good, Fit, K
<1>11. Numbers(e)
  <2>1. \A i \in DOMAIN c.db : c.db[i].seq => c.db[i].out < c.seqOut /\ c.db[i].out \in Int
    BY <1>1 DEF Fine, Numbers, Entries
  <2>2. \A i, j \in DOMAIN c.db : c.db[i].seq /\ c.db[j].seq /\ i # j => c.db[i].out # c.db[j].out
    BY DEF Fine, Numbers
  <2>3. c.seqOut \in Int /\ n \in Int
    BY <1>1, <1>7 DEF Nums
  <2>4. ASSUME NEW i \in DOMAIN e.db, e.db[i].seq PROVE e.db[i].out < e.seqOut
    BY <1>5, <1>6, <1>7, <1>9, <2>1, <2>3, <2>4
  <2>5. ASSUME NEW i \in DOMAIN e.db, NEW j \in DOMAIN e.db, e.db[i].seq, e.db[j].seq, i # j
        PROVE  e.db[i].out # e.db[j].out
    BY <1>5, <1>6, <1>9, <2>1, <2>2, <2>3, <2>5
  <2> QED
    BY <2>4, <2>5 DEF Numbers
<1>12. Fine(e, p, E, o)
  BY <1>9, <1>10, <1>11 DEF Fine, Gapless, HeldAfter
<1>13. Goes(e, RequestNewKey(e, x), p, E, o) /\ RequestNewKey(e, x).own = e.own
  BY <1>10, RequestNewKeyGoes
<1>14. Fine(RequestNewKey(e, x), p, E, o)
  BY <1>12, <1>13, GoesFine
<1> QED
  BY <1>8, <1>9, <1>13, <1>14

LEMMA SendResendGoes ==
    ASSUME NEW p \in Peers, NEW E, NEW o \in Nat, NEW c, Good(c, p, E, o), NEW from \in Seen(p),
           NEW to \in Int, to % 2 = Par(Other(p))
    PROVE  Goes(c, SendResend(c, from, to), p, E, o) /\ SendResend(c, from, to).own = c.own
<1> DEFINE K == Keys(p, c.own, o)
           a == c.asked \cup {from}
           d == [c EXCEPT !.asked = a]
           b == [Body("resend") EXCEPT !.from = from, !.to = to]
<1>1. c \in Chats(p, E, K) /\ c.asked \in SUBSET Int /\ c.own \in Nat /\ Len(c.db) \in Nat
  BY FieldsAre DEF Good
<1>2. a \in SUBSET Int
  BY <1>1 DEF Seen
<1>3. 0 \in K
  BY <1>1, KeysGrow
<1> HIDE DEF a, K
<1>4. d \in Chats(p, E, K) /\ d.own = c.own
      /\ d.seqIn = c.seqIn /\ d.inSeqNo = c.inSeqNo /\ d.stage = c.stage /\ d.db = c.db /\ d.held = c.held
      /\ d.seqOut = c.seqOut /\ d.handled = c.handled /\ d.twice = c.twice
  BY <1>1, <1>2 DEF Chats
<1>5. d = [c EXCEPT !.asked = @ \cup {from}]
  BY <1>1 DEF Chats, a
<1> HIDE DEF d
<1>6. Goes(c, d, p, E, o)
  BY <1>1, <1>4, AlikeGoes DEF K
<1>7. b \in Bodies(p, E, K)
  <2>1. [Body("resend") EXCEPT !.from = from] = [kind |-> "resend", x |-> 0, key |-> 0, from |-> from, to |-> 0]
    BY DEF Body
  <2>2. [[kind |-> "resend", x |-> 0, key |-> 0, from |-> from, to |-> 0] EXCEPT !.to = to]
           = [kind |-> "resend", x |-> 0, key |-> 0, from |-> from, to |-> to]
    OBVIOUS
  <2>3. b = [kind |-> "resend", x |-> 0, key |-> 0, from |-> from, to |-> to]
    BY <2>1, <2>2, Zenon
  <2>4. [kind |-> "resend", x |-> 0, key |-> 0, from |-> from, to |-> to] \in Bodies(p, E, K)
    BY <1>3 DEF Bodies, Kinds, Seen
  <2> QED
    BY <2>3, <2>4
<1> HIDE DEF b
<1>8. Goes(d, Write(d, b), p, E, o) /\ Write(d, b).own = d.own
  BY <1>4, <1>6, <1>7, WriteGoes DEF Goes, K
<1>9. Goes(c, Write(d, b), p, E, o)
  BY <1>6, <1>8, GoesOn
<1>10. Goes(c, c, p, E, o)
  BY <1>1, QuietAlways DEF Goes
<1> QED
  BY <1>4, <1>5, <1>8, <1>9, <1>10 DEF SendResend, b

\* What is held back and whether it is held twice, changed at once.
Holding(c, h, t) == [c EXCEPT !.held = h, !.twice = t]

LEMMA HoldingIs ==
    ASSUME NEW p, NEW E, NEW o, NEW c, Good(c, p, E, o), NEW h \in Seq(Helds(p, E, Keys(p, c.own, o))),
           Len(h) <= HeldLimit, NEW t \in BOOLEAN
    PROVE  LET d == Holding(c, h, t) IN
           /\ Good(d, p, E, o) /\ d.own = c.own /\ d.held = h /\ d.twice = t
           /\ d.seqIn = c.seqIn /\ d.handled = c.handled /\ d.db = c.db /\ d.seqOut = c.seqOut
<1> DEFINE K == Keys(p, c.own, o)
           d == Holding(c, h, t)
<1>1. c \in Chats(p, E, K) /\ Fit(c, p) /\ h \in Seq(Helds(p, E, K))
  BY DEF Good
<1>2. d \in Chats(p, E, K) /\ d.own = c.own /\ d.held = h /\ d.twice = t /\ d.inSeqNo = c.inSeqNo
      /\ d.seqIn = c.seqIn /\ d.handled = c.handled /\ d.db = c.db /\ d.seqOut = c.seqOut /\ d.stage = c.stage
  <2>1. d = [[c EXCEPT !.held = h] EXCEPT !.twice = t]
    BY Zenon DEF Holding
  <2>2. LET e == [c EXCEPT !.held = h] IN
        e \in Chats(p, E, K) /\ e.own = c.own /\ e.held = h /\ e.inSeqNo = c.inSeqNo
        /\ e.seqIn = c.seqIn /\ e.handled = c.handled /\ e.db = c.db /\ e.seqOut = c.seqOut /\ e.stage = c.stage
    <3> HIDE DEF K
    <3> QED
      BY <1>1 DEF Chats
  <2> HIDE DEF d, K
  <2> QED
    BY <2>1, <2>2 DEF Chats
<1>3. Fit(d, p)
  <2> HIDE DEF d
  <2> QED
    BY <1>1, <1>2 DEF Fit
<1> HIDE DEF d
<1> QED
  BY <1>2, <1>3 DEF Good, d

LEMMA AfterHole ==
    ASSUME NEW a \in Int, NEW b \in Int, a > b, b # a - 2, a % 2 = b % 2, b >= -2
    PROVE  a > b + 2 /\ b + 2 \in Nat /\ (b + 2) % 2 = b % 2 /\ a - 2 \in Int /\ (a - 2) % 2 = a % 2
  OBVIOUS

LEMMA HoldFine ==
    ASSUME NEW p \in Peers, NEW E, NEW o \in Nat, NEW c, Fine(c, p, E, o),
           NEW k \in Messages(Other(p), E, Keys(p, c.own, o)), NEW newKey \in BOOLEAN,
           k.out > c.seqIn, c.seqIn # k.out - 2
    PROVE  Fine(Hold(c, k, newKey), p, E, o) /\ Hold(c, k, newKey).own = c.own
<1> DEFINE K == Keys(p, c.own, o)
           d == SendResend(c, c.seqIn + 2, k.out - 2)
           x == [k |-> k, newKey |-> newKey]
           h == IF Len(c.held) < HeldLimit THEN Append(c.held, x) ELSE <<>>
           t == c.twice \/ \E i \in DOMAIN c.held : c.held[i].k.out = k.out
<1>1. Good(c, p, E, o) /\ c.seqIn \in Int /\ c.seqIn >= -2 /\ c.seqIn % 2 = Par(Other(p))
      /\ c.held \in Seq(Helds(p, E, K)) /\ Len(c.held) \in Nat /\ c.twice \in BOOLEAN
  BY FieldsAre DEF Fine, Good, Fit
<1>2. k.out \in Nat /\ k.out % 2 = Par(Other(p))
  BY DEF Messages, Nums
<1>3. k.out > c.seqIn + 2 /\ c.seqIn + 2 \in Seen(p) /\ k.out - 2 \in Int /\ (k.out - 2) % 2 = Par(Other(p))
  <2> DEFINE a == k.out
             b == c.seqIn
  <2>1. a \in Int /\ b \in Int /\ a > b /\ b # a - 2 /\ a % 2 = b % 2 /\ b >= -2
    BY <1>1, <1>2
  <2> HIDE DEF a, b
  <2>2. a > b + 2 /\ b + 2 \in Nat /\ (b + 2) % 2 = b % 2 /\ a - 2 \in Int /\ (a - 2) % 2 = a % 2
    BY <2>1, AfterHole
  <2> QED
    BY <1>1, <1>2, <2>2 DEF Seen, a, b
<1>4. Goes(c, d, p, E, o) /\ d.own = c.own
  <2> DEFINE from == c.seqIn + 2
             to == k.out - 2
  <2>1. from \in Seen(p) /\ to \in Int /\ to % 2 = Par(Other(p)) /\ d = SendResend(c, from, to)
    BY <1>3
  <2>2. Good(c, p, E, o)
    BY <1>1
  <2> HIDE DEF from, to, d
  <2>3. Goes(c, SendResend(c, from, to), p, E, o) /\ SendResend(c, from, to).own = c.own
    BY <2>1, <2>2, SendResendGoes
  <2> QED
    BY <2>1, <2>3
<1>5. Fine(d, p, E, o) /\ Good(d, p, E, o) /\ d.held = c.held /\ d.twice = c.twice /\ d.seqIn = c.seqIn
      /\ d.handled = c.handled
  BY <1>4, GoesFine DEF Goes, Quiet
<1>6. x \in Helds(p, E, K)
  BY DEF Helds
<1> HIDE DEF K, d
<1>7. h \in Seq(Helds(p, E, K)) /\ Len(h) <= HeldLimit
  <2> HIDE DEF x
  <2> QED
    BY <1>1, <1>6, ChatAssumption
<1>8. Hold(c, k, newKey) = Holding(d, h, t)
  <2>1. d.held = c.held /\ d.twice = c.twice /\ d \in Chats(p, E, Keys(p, d.own, o))
    BY <1>5 DEF Good
  <2>2. Hold(c, k, newKey)
          = [[d EXCEPT !.held = IF Len(d.held) < HeldLimit THEN Append(d.held, x) ELSE <<>>]
               EXCEPT !.twice = [d EXCEPT !.held = IF Len(d.held) < HeldLimit THEN Append(d.held, x) ELSE <<>>].twice
                                \/ \E i \in DOMAIN c.held : c.held[i].k.out = k.out]
    BY DEF Hold, d
  <2>3. \A r : [d EXCEPT !.held = r].twice = d.twice
    BY <2>1 DEF Chats
  <2> HIDE DEF x
  <2> QED
    BY <2>1, <2>2, <2>3, Zenon DEF Holding, h, t
<1>9. t \in BOOLEAN
  BY <1>1
<1>10. ~t => HeldAfter(Holding(d, h, t))
  <2> SUFFICES ASSUME ~t PROVE HeldAfter(Holding(d, h, t))
    OBVIOUS
  <2>1. HeldAfter(c) /\ ~c.twice /\ \A i \in DOMAIN c.held : c.held[i].k.out # k.out
    BY DEF Fine
  <2>2. \A i \in DOMAIN h : h[i].k.out = k.out \/ (i \in DOMAIN c.held /\ h[i] = c.held[i])
    <3> HIDE DEF x
    <3>1. \A i \in DOMAIN h : h[i] = x \/ (i \in DOMAIN c.held /\ h[i] = c.held[i])
      BY <1>1, <1>6
    <3> QED
      BY <3>1 DEF x
  <2>3. \A i, j \in DOMAIN h : i # j => \/ i \in DOMAIN c.held /\ h[i] = c.held[i]
                                        \/ j \in DOMAIN c.held /\ h[j] = c.held[j]
    <3> HIDE DEF x
    <3> QED
      BY <1>1, <1>6
  <2>4. Holding(d, h, t).held = h /\ Holding(d, h, t).seqIn = c.seqIn
    <3> HIDE DEF h, t
    <3> QED
      BY <1>4, <1>5, <1>7, <1>9, HoldingIs DEF K
  <2>5. \A i \in DOMAIN h : h[i].k.out > c.seqIn + 2
    BY <1>3, <2>1, <2>2 DEF HeldAfter
  <2>6. \A i, j \in DOMAIN h : i # j => h[i].k.out # h[j].k.out
    <3> HIDE DEF h
    <3> QED
      BY <2>1, <2>2, <2>3 DEF HeldAfter
  <2> HIDE DEF h, t
  <2> QED
    BY <2>4, <2>5, <2>6 DEF HeldAfter
<1> HIDE DEF h
<1>11. LET e == Holding(d, h, t) IN Good(e, p, E, o) /\ e.own = c.own /\ e.twice = t /\ e.seqIn = c.seqIn
          /\ e.handled = c.handled /\ e.db = d.db /\ e.seqOut = d.seqOut
  <2> HIDE DEF t
  <2> QED
    BY <1>4, <1>5, <1>7, <1>9, HoldingIs DEF K
<1>12. Numbers(Holding(d, h, t))
  <2> HIDE DEF t
  <2> QED
    BY <1>5, <1>11 DEF Fine, Numbers
<1>13. ~t => Gapless(Holding(d, h, t), p)
  <2>1. ~t => ~c.twice /\ Gapless(c, p)
    BY DEF Fine
  <2> HIDE DEF t
  <2> QED
    BY <1>11, <2>1 DEF Gapless
<1> HIDE DEF t
<1> QED
  BY <1>8, <1>10, <1>11, <1>12, <1>13 DEF Fine

-----------------------------------------------------------------------------
(* A message that is handled, and those held back that follow it.            *)

\* A message has been counted as handled.
Handles(c, d, k) == d.seqIn = k.out /\ d.handled = Append(c.handled, k.out)

LEMMA ProcessIs ==
    ASSUME NEW p \in Peers, NEW E, NEW o \in Nat, NEW c, Good(c, p, E, o),
           NEW k \in Messages(Other(p), E, Keys(p, c.own, o)), NEW newKey \in BOOLEAN, NEW x \in E \cup {0}
    PROVE  LET d == ProcessDecryptedObject(c, k, newKey, x) IN
           /\ Good(d, p, E, o) /\ c.own <= d.own /\ Kept(c, d) /\ d.twice = c.twice /\ d.held = c.held
           /\ Handles(c, d, k)
<1> DEFINE b == Counting(c, k)
           d == ProcessDecryptedObject(c, k, newKey, x)
<1>1. /\ Good(b, p, E, o) /\ b.own = c.own /\ b.seqIn = k.out /\ b.held = c.held /\ b.twice = c.twice
      /\ b.db = c.db /\ b.seqOut = c.seqOut
  BY CountingIs
<1>a. b.handled = Append(c.handled, k.out)
  <2> DEFINE h == Append(c.handled, k.out)
             e == [[c EXCEPT !.seqIn = k.out] EXCEPT !.inSeqNo = k.in]
  <2>1. c \in Chats(p, E, Keys(p, c.own, o))
    BY DEF Good
  <2>2. e.handled = c.handled /\ DOMAIN e = DOMAIN c /\ "handled" \in DOMAIN c
    BY <2>1 DEF Chats
  <2>3. b = [e EXCEPT !.handled = Append(e.handled, k.out)]
    BY Zenon DEF Counting
  <2> HIDE DEF e, b
  <2> QED
    BY <2>2, <2>3
<1>2. Goes(b, d, p, E, o)
  BY Processes
<1> HIDE DEF b, d
<1>3. Good(d, p, E, o) /\ b.own <= d.own /\ Quiet(b, d)
  BY <1>2 DEF Goes
<1>4. Kept(c, d)
  BY <1>1, <1>3 DEF Kept, Quiet
<1>5. d.twice = b.twice /\ d.held = b.held /\ d.seqIn = b.seqIn /\ d.handled = b.handled
  BY <1>3 DEF Quiet
<1> QED
  BY <1>1, <1>a, <1>3, <1>4, <1>5 DEF Handles, d

LEMMA NextGapless ==
    ASSUME NEW p \in Peers, NEW c, c.handled \in Seq(Nat), Gapless(c, p), NEW n \in Nat, n = c.seqIn + 2,
           NEW d, d.seqIn = n, d.handled = Append(c.handled, n)
    PROVE  Gapless(d, p)
<1> DEFINE s == New(p).seqIn
           q == c.handled
           l == Len(q)
<1>1. s \in Int
  BY DEF New
<1>2. (\A i \in DOMAIN q : q[i] = s + 2 * i) /\ n = s + 2 * l + 2 /\ q \in Seq(Nat)
  BY DEF Gapless
<1>3. l \in Nat /\ DOMAIN q = 1..l /\ Len(d.handled) = l + 1 /\ DOMAIN d.handled = 1..l + 1
      /\ d.handled[l + 1] = n /\ \A i \in 1..l : d.handled[i] = q[i]
  BY <1>2
<1> HIDE DEF s, q, l
<1>4. s + 2 * l + 2 = s + 2 * (l + 1)
  BY <1>1, <1>3
<1>5. ASSUME NEW i \in DOMAIN d.handled PROVE d.handled[i] = s + 2 * i
  <2>1. CASE i = l + 1
    BY <1>2, <1>3, <1>4, <2>1
  <2>2. CASE i # l + 1
    <3>1. i \in 1..l
      BY <1>3, <2>2
    <3> QED
      BY <1>2, <1>3, <3>1
  <2> QED
    BY <2>1, <2>2
<1>6. d.seqIn = s + 2 * Len(d.handled)
  BY <1>2, <1>3, <1>4
<1> QED
  BY <1>5, <1>6 DEF Gapless, s

\* The numbers of a sequence of messages are different, or ascend.
Different(q) == \A i, j \in DOMAIN q : i # j => q[i].k.out # q[j].k.out
Ascending(q) == \A i, j \in DOMAIN q : i < j => q[i].k.out < q[j].k.out

LEMMA SortedIs ==
    ASSUME NEW q, Len(q) \in Nat, DOMAIN q = 1..Len(q), NEW s \in SortedHeld(q)
    PROVE  /\ DOMAIN s = 1..Len(q)
           /\ \A i \in DOMAIN s : \E a \in DOMAIN q : s[i] = q[a]
           /\ Different(q) => Ascending(s)
<1> DEFINE D == DOMAIN q
<1>1. PICK f \in Bijection(D, D) :
         /\ s = [i \in D |-> q[f[i]]]
         /\ \A i, j \in D : i < j => \/ q[f[i]].k.out < q[f[j]].k.out
                                     \/ q[f[i]].k.out = q[f[j]].k.out /\ f[i] < f[j]
  BY DEF SortedHeld
<1>2. f \in [D -> D]
  BY DEF Bijection, Injection
<1>3. Different(q) => Ascending(s)
  <2> SUFFICES ASSUME Different(q), NEW i \in D, NEW j \in D, i < j PROVE s[i].k.out < s[j].k.out
    BY <1>1 DEF Ascending
  <2>1. s[i] = q[f[i]] /\ s[j] = q[f[j]] /\ f[i] \in D /\ f[j] \in D
    BY <1>1, <1>2
  <2>2. CASE q[f[i]].k.out < q[f[j]].k.out
    BY <2>1, <2>2
  <2>3. CASE q[f[i]].k.out = q[f[j]].k.out /\ f[i] < f[j]
    <3>1. f[i] # f[j]
      BY <2>1, <2>3
    <3> QED
      BY <2>1, <2>3, <3>1 DEF Different
  <2> QED
    BY <1>1, <2>2, <2>3
<1> QED
  BY <1>1, <1>2, <1>3

LEMMA KeptOn ==
    ASSUME NEW b, NEW c, Kept(b, c), NEW d, Kept(c, d)
    PROVE  Kept(b, d)
  BY DEF Kept

\* After i of the sequence s: what is left of it comes after what is held again.
Taking(b, d, p, E, o, s, i, n) ==
    /\ Good(d, p, E, o) /\ b.own <= d.own /\ Kept(b, d) /\ d.twice = b.twice /\ Len(d.held) <= i
    /\ \/ b.twice
       \/ /\ Gapless(d, p) /\ HeldAfter(d)
          /\ \A j \in i + 1..n : /\ s[j].k.out > d.seqIn
                                 /\ \A a \in DOMAIN d.held : d.held[a].k.out < s[j].k.out

LEMMA TakeUpKeeps ==
    ASSUME NEW p \in Peers, NEW E, NEW o \in Nat, NEW b, b.own \in Nat, NEW d, NEW s, NEW n \in Nat, n <= HeldLimit,
           \A j \in 1..n : s[j] \in Helds(p, E, Keys(p, b.own, o)),
           b.twice \/ \A i, j \in 1..n : i < j => s[i].k.out < s[j].k.out,
           NEW i \in Nat, i < n, Taking(b, d, p, E, o, s, i, n)
    PROVE  Taking(b, TakeUp(d, s[i + 1]), p, E, o, s, i + 1, n)
<1> DEFINE h == s[i + 1]
           k == h.k
           e == TakeUp(d, h)
           K == Keys(p, d.own, o)
<1>1. Good(d, p, E, o) /\ b.own <= d.own /\ Kept(b, d) /\ d.twice = b.twice /\ Len(d.held) <= i
  BY DEF Taking
<1>2. d.own \in Nat /\ d.seqIn \in Int /\ d.seqIn % 2 = Par(Other(p)) /\ d.held \in Seq(Helds(p, E, K))
      /\ Len(d.held) \in Nat /\ d.handled \in Seq(Nat) /\ d.twice \in BOOLEAN
  BY <1>1, FieldsAre DEF Good, Fit
<1>3. h \in Helds(p, E, K)
  <2>1. i + 1 \in 1..n
    OBVIOUS
  <2>2. h \in Helds(p, E, Keys(p, b.own, o))
    BY <2>1
  <2>3. Keys(p, b.own, o) \subseteq K
    BY <1>1, <1>2, KeysGrow
  <2> DEFINE J == Keys(p, b.own, o)
             r == Other(p)
  <2>4. J \subseteq K /\ r = Other(p) /\ J = Keys(p, b.own, o)
    BY <2>3
  <2> HIDE DEF J, K, r, h
  <2>5. Messages(r, E, J) \subseteq Messages(r, E, K)
    BY <2>4, MoreTypes
  <2> QED
    BY <2>2, <2>4, <2>5 DEF Helds
<1>4. k \in Messages(Other(p), E, K) /\ h.newKey \in BOOLEAN
  BY <1>3 DEF Helds
<1>5. k.out \in Nat /\ k.out % 2 = Par(Other(p))
  BY <1>4 DEF Messages, Nums
<1>6. ~b.twice => /\ Gapless(d, p) /\ HeldAfter(d)
                  /\ \A j \in i + 1..n : s[j].k.out > d.seqIn /\ \A a \in DOMAIN d.held : d.held[a].k.out < s[j].k.out
  BY DEF Taking
<1>7. ~b.twice => k.out > d.seqIn /\ \A a \in DOMAIN d.held : d.held[a].k.out < k.out
  <2>1. i + 1 \in i + 1..n
    OBVIOUS
  <2> QED
    BY <1>6, <2>1
<1>8. ~b.twice => \A j \in i + 2..n : k.out < s[j].k.out
  <2>1. \A j \in i + 2..n : i + 1 \in 1..n /\ j \in 1..n /\ i + 1 < j
    OBVIOUS
  <2> QED
    BY <2>1
<1>a. (i + 1) + 1 = i + 2
  OBVIOUS
<1> HIDE DEF h, k, K
<1>9. CASE k.out \in {d.seqIn, d.seqIn + 2}
  <2>1. e = ProcessDecryptedObject(d, k, h.newKey, 0)
    BY <1>9 DEF TakeUp, k
  <2>2. 0 \in E \cup {0}
    OBVIOUS
  <2>3. /\ Good(e, p, E, o) /\ d.own <= e.own /\ Kept(d, e) /\ e.twice = d.twice /\ e.held = d.held
        /\ e.seqIn = k.out /\ e.handled = Append(d.handled, k.out)
    <3> DEFINE y == h.newKey
    <3>1. y \in BOOLEAN /\ e = ProcessDecryptedObject(d, k, y, 0)
      BY <1>4, <2>1
    <3> HIDE DEF e, y
    <3>2. /\ Good(e, p, E, o) /\ d.own <= e.own /\ Kept(d, e) /\ e.twice = d.twice /\ e.held = d.held
          /\ Handles(d, e, k)
      BY <1>1, <1>4, <2>2, <3>1, ProcessIs DEF K
    <3> QED
      BY <3>2 DEF Handles
  <2> HIDE DEF e
  <2>4. e.own \in Nat /\ b.own <= e.own /\ Kept(b, e)
    <3>1. Kept(b, e)
      BY <1>1, <2>3, KeptOn
    <3>2. Good(e, p, E, o) /\ d.own <= e.own
      BY <2>3
    <3>3. e.own \in Nat
      BY <3>2, FieldsAre
    <3> QED
      BY <1>1, <1>2, <3>1, <3>2, <3>3
  <2>5. ASSUME ~b.twice
        PROVE  /\ Gapless(e, p) /\ HeldAfter(e)
               /\ \A j \in i + 2..n : /\ s[j].k.out > e.seqIn
                                      /\ \A a \in DOMAIN e.held : e.held[a].k.out < s[j].k.out
    <3>1. k.out = d.seqIn + 2
      BY <1>2, <1>5, <1>7, <1>9, <2>5
    <3>2. DOMAIN d.held = {}
      <4>1. ASSUME NEW a \in DOMAIN d.held PROVE FALSE
        <5>1. d.held[a].k.out \in Int
          <6>1. d.held[a] \in Helds(p, E, K)
            BY <1>2
          <6> QED
            BY <6>1 DEF Helds, Messages, Nums
        <5>2. d.held[a].k.out > d.seqIn + 2 /\ d.held[a].k.out < k.out
          BY <1>6, <1>7, <2>5 DEF HeldAfter
        <5> QED
          BY <1>2, <3>1, <5>1, <5>2
      <4> QED
        BY <4>1
    <3>3. HeldAfter(e)
      BY <2>3, <3>2 DEF HeldAfter
    <3>4. Gapless(e, p)
      <4> DEFINE m == k.out
      <4>1. m \in Nat /\ m = d.seqIn + 2 /\ e.seqIn = m /\ e.handled = Append(d.handled, m) /\ Gapless(d, p)
        BY <1>5, <1>6, <2>3, <2>5, <3>1
      <4> HIDE DEF m
      <4> QED
        BY <1>2, <4>1, NextGapless
    <3>5. \A j \in i + 2..n : s[j].k.out > e.seqIn
      <4>1. \A j \in i + 2..n : s[j].k.out \in Int
        <5>1. \A j \in i + 2..n : j \in 1..n
          OBVIOUS
        <5> QED
          BY <5>1 DEF Helds, Messages, Nums
      <4> QED
        BY <1>5, <1>8, <2>3, <2>5, <4>1
    <3> QED
      BY <2>3, <3>2, <3>3, <3>4, <3>5
  <2>6. Len(e.held) <= i + 1
    BY <1>1, <1>2, <2>3
  <2> QED
    BY <1>1, <1>a, <2>3, <2>4, <2>5, <2>6 DEF Taking, e, h
<1>10. CASE k.out \notin {d.seqIn, d.seqIn + 2}
  <2> DEFINE q == Append(d.held, h)
  <2>1. q \in Seq(Helds(p, E, K)) /\ Len(q) = Len(d.held) + 1 /\ DOMAIN q = 1..Len(d.held) + 1
        /\ q[Len(d.held) + 1] = h /\ \A a \in DOMAIN d.held : q[a] = d.held[a]
    BY <1>2, <1>3
  <2>2. \A a \in DOMAIN q : a = Len(d.held) + 1 \/ a \in DOMAIN d.held
    BY <1>2, <2>1
  <2>3. Len(q) <= HeldLimit
    BY <1>1, <1>2, <2>1, ChatAssumption
  <2>4. e = Holding(d, q, d.twice)
    <3>1. e = [d EXCEPT !.held = q]
      BY <1>10, <1>2 DEF TakeUp, k
    <3>2. d \in Chats(p, E, K)
      BY <1>1 DEF Good, K
    <3>3. [[d EXCEPT !.held = q] EXCEPT !.twice = d.twice] = [d EXCEPT !.held = q]
      <4> HIDE DEF q
      <4> QED
        BY <3>2 DEF Chats
    <3> HIDE DEF q, e
    <3> QED
      BY <3>1, <3>3, Zenon DEF Holding
  <2> HIDE DEF e, q
  <2>5. Good(e, p, E, o) /\ e.own = d.own /\ e.held = q /\ e.twice = d.twice
        /\ e.seqIn = d.seqIn /\ e.handled = d.handled /\ e.db = d.db /\ e.seqOut = d.seqOut
    <3> DEFINE t == d.twice
    <3>1. t \in BOOLEAN /\ e = Holding(d, q, t)
      BY <1>2, <2>4
    <3> HIDE DEF t
    <3>2. Good(e, p, E, o) /\ e.own = d.own /\ e.held = q /\ e.twice = t
          /\ e.seqIn = d.seqIn /\ e.handled = d.handled /\ e.db = d.db /\ e.seqOut = d.seqOut
      BY <1>1, <2>1, <2>3, <3>1, HoldingIs DEF K
    <3> QED
      BY <3>2 DEF t
  <2>6. Kept(b, e)
    BY <1>1, <2>5 DEF Kept
  <2>7. Len(e.held) <= i + 1
    BY <1>1, <1>2, <2>1, <2>5
  <2>8. ASSUME ~b.twice
        PROVE  /\ Gapless(e, p) /\ HeldAfter(e)
               /\ \A j \in i + 2..n : /\ s[j].k.out > e.seqIn
                                      /\ \A a \in DOMAIN e.held : e.held[a].k.out < s[j].k.out
    <3>1. k.out > d.seqIn + 2
      <4> DEFINE x == k.out
                 y == d.seqIn
      <4>1. x \in Nat /\ y \in Int /\ x % 2 = y % 2 /\ x > y /\ x # y /\ x # y + 2
        BY <1>2, <1>5, <1>7, <1>10, <2>8
      <4> HIDE DEF x, y
      <4>2. x > y + 2
        BY ONLY <4>1
      <4> QED
        BY <4>2 DEF x, y
    <3>2. Gapless(e, p)
      BY <1>6, <2>5, <2>8 DEF Gapless
    <3>3. \A a \in DOMAIN q : q[a].k.out = k.out \/ (a \in DOMAIN d.held /\ q[a] = d.held[a])
      BY <2>1, <2>2 DEF k
    <3>4. \A a \in DOMAIN q : q[a].k.out > d.seqIn + 2
      BY <1>6, <2>8, <3>1, <3>3 DEF HeldAfter
    <3>5. \A a \in DOMAIN d.held : d.held[a].k.out \in Int
      <4>1. \A a \in DOMAIN d.held : d.held[a] \in Helds(p, E, K)
        BY <1>2
      <4> QED
        BY <4>1 DEF Helds, Messages, Nums
    <3>6. \A a, c \in DOMAIN q : a # c => q[a].k.out # q[c].k.out
      <4> TAKE a, c \in DOMAIN q
      <4> HAVE a # c
      <4>1. CASE a \in DOMAIN d.held /\ c \in DOMAIN d.held
        BY <1>6, <2>1, <2>8, <4>1 DEF HeldAfter
      <4>2. CASE a = Len(d.held) + 1 /\ c \in DOMAIN d.held
        <5>1. q[a].k.out = k.out /\ q[c] = d.held[c]
          BY <2>1, <4>2 DEF k
        <5>2. d.held[c].k.out < k.out
          BY <1>7, <2>8, <4>2
        <5> QED
          BY <1>5, <3>5, <4>2, <5>1, <5>2
      <4>3. CASE a \in DOMAIN d.held /\ c = Len(d.held) + 1
        <5>1. q[c].k.out = k.out /\ q[a] = d.held[a]
          BY <2>1, <4>3 DEF k
        <5>2. d.held[a].k.out < k.out
          BY <1>7, <2>8, <4>3
        <5> QED
          BY <1>5, <3>5, <4>3, <5>1, <5>2
      <4> QED
        BY <2>2, <4>1, <4>2, <4>3
    <3>7. HeldAfter(e)
      BY <2>5, <3>4, <3>6 DEF HeldAfter
    <3>8. ASSUME NEW j \in i + 2..n PROVE s[j].k.out > e.seqIn /\ \A a \in DOMAIN q : q[a].k.out < s[j].k.out
      <4>1. j \in i + 1..n
        OBVIOUS
      <4>2. s[j].k.out > e.seqIn /\ \A a \in DOMAIN d.held : d.held[a].k.out < s[j].k.out
        BY <1>6, <2>5, <2>8, <4>1
      <4>3. k.out < s[j].k.out
        BY <1>8, <2>8
      <4> QED
        BY <3>3, <4>2, <4>3
    <3> QED
      BY <2>5, <3>2, <3>7, <3>8
  <2> QED
    BY <1>1, <1>a, <2>5, <2>6, <2>7, <2>8 DEF Taking, e, h
<1> QED
  BY <1>9, <1>10

LEMMA ReceivedFine ==
    ASSUME NEW p \in Peers, NEW E, NEW o \in Nat, NEW c, Fine(c, p, E, o),
           NEW k \in Messages(Other(p), E, Keys(p, c.own, o)), NEW newKey \in BOOLEAN, NEW x \in E \cup {0},
           c.seqIn = k.out - 2, NEW sorted \in SortedHeld(c.held)
    PROVE  LET d == CheckSecretHoles(ProcessDecryptedObject(c, k, newKey, x), sorted) IN
           Fine(d, p, E, o) /\ c.own <= d.own
<1> DEFINE a == ProcessDecryptedObject(c, k, newKey, x)
           b == [a EXCEPT !.held = <<>>]
           n == Len(c.held)
           K == Keys(p, b.own, o)
<1>1. Good(c, p, E, o) /\ n \in Nat /\ DOMAIN c.held = 1..n /\ n <= HeldLimit /\ c.handled \in Seq(Nat)
      /\ c.own \in Nat /\ c.seqIn \in Int
  <2>1. Good(c, p, E, o) /\ Fit(c, p)
    BY DEF Fine, Good
  <2>2. c.held \in Seq(Helds(p, E, Keys(p, c.own, o))) /\ n \in Nat /\ c.handled \in Seq(Nat)
        /\ c.own \in Nat /\ c.seqIn \in Int
    BY <2>1, FieldsAre
  <2> QED
    BY <2>1, <2>2 DEF Fit
<1>2. /\ Good(a, p, E, o) /\ c.own <= a.own /\ Kept(c, a) /\ a.twice = c.twice /\ a.held = c.held
      /\ a.seqIn = k.out /\ a.handled = Append(c.handled, k.out)
  <2>1. /\ Good(a, p, E, o) /\ c.own <= a.own /\ Kept(c, a) /\ a.twice = c.twice /\ a.held = c.held
        /\ Handles(c, a, k)
    <3> HIDE DEF n, K, b
    <3> QED
      BY <1>1, ProcessIs
  <2> HIDE DEF a
  <2> QED
    BY <2>1 DEF Handles
<1> HIDE DEF a
<1>3. a.twice \in BOOLEAN /\ a.own \in Nat /\ a.held \in Seq(Helds(p, E, Keys(p, a.own, o)))
  BY <1>2, FieldsAre
<1>4. /\ Good(b, p, E, o) /\ b.own = a.own /\ b.held = <<>> /\ b.twice = c.twice /\ b.db = a.db
      /\ b.seqOut = a.seqOut /\ b.seqIn = k.out /\ b.handled = Append(c.handled, k.out)
  <2> DEFINE h == <<>>
             t == a.twice
  <2>1. h \in Seq(Helds(p, E, Keys(p, a.own, o))) /\ Len(h) <= HeldLimit /\ t \in BOOLEAN
    BY <1>3, ChatAssumption
  <2>2. b = Holding(a, h, t)
    <3>1. a \in Chats(p, E, Keys(p, a.own, o))
      BY <1>2 DEF Good
    <3>2. [[a EXCEPT !.held = h] EXCEPT !.twice = t] = [a EXCEPT !.held = h]
      <4> HIDE DEF h
      <4> QED
        BY <3>1 DEF Chats
    <3> QED
      BY <3>2, Zenon DEF Holding
  <2>3. h = <<>> /\ t = c.twice
    BY <1>2
  <2> HIDE DEF h, t, b
  <2>4. Good(b, p, E, o) /\ b.own = a.own /\ b.held = h /\ b.twice = t /\ b.db = a.db
        /\ b.seqOut = a.seqOut /\ b.seqIn = a.seqIn /\ b.handled = a.handled
    BY <1>2, <2>1, <2>2, HoldingIs
  <2> QED
    BY <1>2, <2>3, <2>4
<1> HIDE DEF b
<1>5. /\ DOMAIN sorted = 1..n
      /\ \A i \in DOMAIN sorted : \E j \in DOMAIN c.held : sorted[i] = c.held[j]
      /\ Different(c.held) => Ascending(sorted)
  BY <1>1, SortedIs
<1>6. \A j \in 1..n : sorted[j] \in Helds(p, E, K)
  BY <1>2, <1>3, <1>4, <1>5
<1> HIDE DEF n, K
<1>7. b.twice \/ \A i, j \in 1..n : i < j => sorted[i].k.out < sorted[j].k.out
  BY <1>4, <1>5 DEF Fine, HeldAfter, Different, Ascending
<1>8. k.out \in Nat /\ k.out = c.seqIn + 2
  BY <1>1 DEF Messages, Nums
<1>9. Taking(b, b, p, E, o, sorted, 0, n)
  <2>1. b.own \in Nat /\ Kept(b, b) /\ Len(b.held) <= 0
    BY <1>3, <1>4 DEF Kept
  <2>2. ASSUME ~b.twice
        PROVE  /\ Gapless(b, p) /\ HeldAfter(b)
               /\ \A j \in 0 + 1..n : /\ sorted[j].k.out > b.seqIn
                                      /\ \A i \in DOMAIN b.held : b.held[i].k.out < sorted[j].k.out
    <3>1. Gapless(c, p) /\ HeldAfter(c)
      BY <1>4, <2>2 DEF Fine
    <3>2. Gapless(b, p)
      <4> DEFINE m == k.out
      <4>1. m \in Nat /\ m = c.seqIn + 2 /\ b.seqIn = m /\ b.handled = Append(c.handled, m)
        BY <1>4, <1>8
      <4> HIDE DEF m
      <4> QED
        BY <1>1, <3>1, <4>1, NextGapless
    <3>3. DOMAIN b.held = {}
      BY <1>4
    <3>4. \A j \in 0 + 1..n : sorted[j].k.out > b.seqIn
      BY <1>4, <1>5, <1>8, <3>1 DEF HeldAfter
    <3> QED
      BY <3>2, <3>3, <3>4 DEF HeldAfter
  <2> QED
    BY <1>4, <2>1, <2>2 DEF Taking
<1>10. PICK g : Steps("takeUp", b, n, sorted, g) /\ FoldLeft(TakeUp, b, sorted) = g[n]
  <2>1. n \in Nat /\ DOMAIN sorted = 1..n
    BY <1>1, <1>5
  <2> QED
    BY <2>1, TakingUp
<1>11. g[0] = b /\ \A i \in 1..n : g[i] = TakeUp(g[i - 1], sorted[i])
  BY <1>10 DEF Steps, Done
<1> DEFINE S == {i \in Nat : i <= n => Taking(b, g[i], p, E, o, sorted, i, n)}
<1>12. 0 \in S
  BY <1>9, <1>11
<1>13. ASSUME NEW i \in Nat, i \in S PROVE i + 1 \in S
  <2> SUFFICES ASSUME i + 1 <= n PROVE Taking(b, g[i + 1], p, E, o, sorted, i + 1, n)
    OBVIOUS
  <2>1. n \in Nat /\ n <= HeldLimit /\ i < n /\ b.own \in Nat
    BY <1>1, <1>3, <1>4 DEF n
  <2>2. Taking(b, g[i], p, E, o, sorted, i, n)
    BY <1>13, <2>1
  <2>3. i + 1 \in 1..n /\ (i + 1) - 1 = i
    BY <2>1
  <2>4. g[i + 1] = TakeUp(g[i], sorted[i + 1])
    BY <1>11, <2>3
  <2> DEFINE d == g[i]
  <2>5. Taking(b, d, p, E, o, sorted, i, n)
    BY <2>2
  <2> HIDE DEF d
  <2>6. Taking(b, TakeUp(d, sorted[i + 1]), p, E, o, sorted, i + 1, n)
    BY <1>6, <1>7, <2>1, <2>5, TakeUpKeeps DEF K
  <2> QED
    BY <2>4, <2>6 DEF d
<1>14. n \in S
  <2> HIDE DEF S
  <2>1. n \in Nat
    BY <1>1
  <2> QED
    BY <1>12, <1>13, <2>1, NatSet
<1> DEFINE d == g[n]
<1>15. Taking(b, d, p, E, o, sorted, n, n) /\ d = CheckSecretHoles(a, sorted)
  <2>1. n \in Nat
    BY <1>1
  <2>2. Taking(b, d, p, E, o, sorted, n, n)
    BY <1>14, <2>1
  <2>3. d = CheckSecretHoles(a, sorted)
    BY <1>10 DEF CheckSecretHoles, b
  <2> QED
    BY <2>2, <2>3
<1> HIDE DEF d
<1>16. Good(d, p, E, o) /\ b.own <= d.own /\ Kept(b, d) /\ d.twice = b.twice
       /\ (b.twice \/ (Gapless(d, p) /\ HeldAfter(d)))
  BY <1>15 DEF Taking
<1>17. Numbers(d)
  <2>1. Kept(c, b)
    BY <1>2, <1>4 DEF Kept
  <2>2. Numbers(b)
    BY <2>1, KeptNumbers DEF Fine
  <2> QED
    BY <1>16, <2>2, KeptNumbers
<1>18. c.own <= d.own
  <2>1. d.own \in Nat
    BY <1>16, FieldsAre
  <2> QED
    BY <1>1, <1>2, <1>3, <1>4, <1>16, <2>1
<1>19. Fine(d, p, E, o)
  BY <1>16, <1>17 DEF Fine
<1> QED
  BY <1>15, <1>18, <1>19 DEF a

-----------------------------------------------------------------------------
(* The invariant, and what a step of one peer has to keep.                   *)

\* The messages of p that are under way, and the keys its peer may have.
WireFits(w, p, E, n, o) == w \in Seq(Messages(p, E, Keys(p, n, o)))
BoxFits(b, p, E, n, o)  == b \in Seq(Messages(p, E, Keys(Other(p), o, n)))

IInv ==
    /\ chat = [p \in Peers |-> chat[p]] /\ wire = [p \in Peers |-> wire[p]] /\ box = [p \in Peers |-> box[p]]
    /\ \A p \in Peers : /\ Fine(chat[p], p, made, chat[Other(p)].own)
                        /\ WireFits(wire[p], p, made, chat[p].own, chat[Other(p)].own)
                        /\ BoxFits(box[Other(p)], p, made, chat[p].own, chat[Other(p)].own)

LEMMA KeysSame ==
    ASSUME NEW p \in Peers, NEW n \in Nat, NEW o \in Nat
    PROVE  Keys(Other(p), o, n) = Keys(p, n, o)
<1>1. (Par(p) = 0 /\ Par(Other(p)) = 1) \/ (Par(p) = 1 /\ Par(Other(p)) = 0)
  BY DEF Peers, Par, Other
<1>2. Other(Other(p)) = p
  BY PeerIs
<1>3. ASSUME NEW k \in Nat
      PROVE  (IF k % 2 = Par(p) THEN o ELSE n) = (IF k % 2 = Par(Other(p)) THEN n ELSE o)
  BY <1>1
<1> QED
  BY <1>2, <1>3 DEF Keys

LEMMA MoreFits ==
    ASSUME NEW p, NEW E, NEW F, E \subseteq F, NEW n \in Nat, NEW r \in Nat, n <= r,
           NEW o \in Nat, NEW u \in Nat, o <= u,
           NEW w, WireFits(w, p, E, n, o), NEW b, BoxFits(b, p, E, n, o)
    PROVE  WireFits(w, p, F, r, u) /\ BoxFits(b, p, F, r, u)
<1>1. Keys(p, n, o) \subseteq Keys(p, r, u)
  BY KeysGrow
<1>2. Messages(p, E, Keys(p, n, o)) \subseteq Messages(p, F, Keys(p, r, u))
  BY <1>1, MoreTypes
<1>3. Keys(Other(p), o, n) \subseteq Keys(Other(p), u, r)
  BY KeysGrow
<1>4. Messages(p, E, Keys(Other(p), o, n)) \subseteq Messages(p, F, Keys(Other(p), u, r))
  BY <1>3, MoreTypes
<1>5. WireFits(w, p, F, r, u)
  BY <1>2, MoreSeq DEF WireFits
<1>6. BoxFits(b, p, F, r, u)
  BY <1>4, MoreSeq DEF BoxFits
<1> QED
  BY <1>5, <1>6

LEMMA OwnIs ==
    ASSUME NEW p, NEW E, NEW o, NEW c, Fine(c, p, E, o)
    PROVE  Good(c, p, E, o) /\ c.own \in Nat
  BY FieldsAre DEF Fine

LEMMA StepKeeps ==
    ASSUME IInv, NEW p \in Peers, made \subseteq made', NEW d, chat' = [chat EXCEPT ![p] = d],
           Fine(d, p, made', chat[Other(p)].own), chat[p].own <= d.own,
           NEW w, wire' = [wire EXCEPT ![p] = w], WireFits(w, p, made', d.own, chat[Other(p)].own),
           NEW b, box' = [box EXCEPT ![Other(p)] = b], BoxFits(b, p, made', d.own, chat[Other(p)].own)
    PROVE  IInv'
<1> DEFINE r == Other(p)
           c == chat[p]
           e == chat[r]
<1>1. r \in Peers /\ r # p /\ Other(r) = p /\ \A q \in Peers : q = p \/ q = r
  BY PeerIs DEF Peers, Other
<1>2. /\ chat = [q \in Peers |-> chat[q]] /\ wire = [q \in Peers |-> wire[q]] /\ box = [q \in Peers |-> box[q]]
      /\ Fine(c, p, made, e.own) /\ Fine(e, r, made, c.own)
      /\ WireFits(wire[r], r, made, e.own, c.own) /\ BoxFits(box[p], r, made, e.own, c.own)
  BY <1>1 DEF IInv
<1>3. chat'[p] = d /\ chat'[r] = e /\ wire'[p] = w /\ wire'[r] = wire[r] /\ box'[r] = b /\ box'[p] = box[p]
      /\ chat' = [q \in Peers |-> chat'[q]] /\ wire' = [q \in Peers |-> wire'[q]] /\ box' = [q \in Peers |-> box'[q]]
  BY <1>1, <1>2
<1>4. c.own \in Nat /\ e.own \in Nat /\ d.own \in Nat
  <2>1. c.own \in Nat /\ e.own \in Nat
    BY <1>2, OwnIs
  <2>2. d.own \in Nat
    BY OwnIs
  <2> QED
    BY <2>1, <2>2
<1>5. c.own <= d.own /\ Fine(d, p, made', e.own) /\ WireFits(w, p, made', d.own, e.own) /\ BoxFits(b, p, made', d.own, e.own)
  OBVIOUS
<1> HIDE DEF c, e, r
<1>6. Fine(e, r, made', d.own)
  BY <1>2, <1>4, <1>5, MoreFine
<1>7. WireFits(wire[r], r, made', e.own, d.own) /\ BoxFits(box[p], r, made', e.own, d.own)
  <2>1. e.own <= e.own
    BY <1>4
  <2> QED
    BY <1>2, <1>4, <1>5, <2>1, MoreFits
<1>8. ASSUME NEW q \in Peers
      PROVE  /\ Fine(chat'[q], q, made', chat'[Other(q)].own)
             /\ WireFits(wire'[q], q, made', chat'[q].own, chat'[Other(q)].own)
             /\ BoxFits(box'[Other(q)], q, made', chat'[q].own, chat'[Other(q)].own)
  <2>1. CASE q = p
    BY <1>3, <1>5, <2>1 DEF r
  <2>2. CASE q = r
    BY <1>1, <1>3, <1>6, <1>7, <2>2
  <2> QED
    BY <1>1, <2>1, <2>2
<1> QED
  BY <1>3, <1>8 DEF IInv

\* Most steps are only about the chat.
LEMMA OnlyChat ==
    ASSUME IInv, NEW p \in Peers, made \subseteq made', NEW d, chat' = [chat EXCEPT ![p] = d],
           Fine(d, p, made', chat[Other(p)].own), chat[p].own <= d.own, UNCHANGED <<wire, box>>
    PROVE  IInv'
<1> DEFINE o == chat[Other(p)].own
           n == chat[p].own
           m == d.own
<1>1. Other(p) \in Peers /\ wire = [wire EXCEPT ![p] = wire[p]] /\ box = [box EXCEPT ![Other(p)] = box[Other(p)]]
  BY PeerIs DEF IInv
<1>2. Fine(chat[p], p, made, o) /\ Fine(chat[Other(p)], Other(p), made, chat[Other(Other(p))].own)
      /\ WireFits(wire[p], p, made, n, o) /\ BoxFits(box[Other(p)], p, made, n, o)
  BY <1>1 DEF IInv
<1>3. o \in Nat /\ n \in Nat /\ m \in Nat /\ n <= m
  <2>1. o \in Nat /\ n \in Nat
    BY <1>2, OwnIs
  <2>2. m \in Nat
    BY OwnIs
  <2> QED
    BY <2>1, <2>2
<1> HIDE DEF o, n, m
<1>4. WireFits(wire[p], p, made', m, o) /\ BoxFits(box[Other(p)], p, made', m, o)
  BY <1>2, <1>3, MoreFits
<1> DEFINE w == wire[p]
           b == box[Other(p)]
<1>5. wire' = [wire EXCEPT ![p] = w] /\ box' = [box EXCEPT ![Other(p)] = b]
  BY <1>1
<1>6. WireFits(w, p, made', d.own, chat[Other(p)].own) /\ BoxFits(b, p, made', d.own, chat[Other(p)].own)
  BY <1>4 DEF o, m
<1> HIDE DEF w, b
<1> QED
  BY <1>5, <1>6, StepKeeps

LEMMA InitIInv == Init => IInv
<1> SUFFICES ASSUME Init PROVE IInv
  OBVIOUS
<1>1. /\ chat = [p \in Peers |-> New(p)] /\ wire = [p \in Peers |-> <<>>] /\ box = [p \in Peers |-> <<>>] /\ made = {}
  BY DEF Init
<1>2. ASSUME NEW p \in Peers
      PROVE  /\ Fine(New(p), p, {}, New(Other(p)).own)
             /\ WireFits(<<>>, p, {}, New(p).own, New(Other(p)).own)
             /\ BoxFits(<<>>, p, {}, New(p).own, New(Other(p)).own)
  <2> DEFINE o == New(Other(p)).own
             n == New(p).own
             K == Keys(p, n, o)
  <2>1. \/ p = "admin" /\ Par(p) = 1 /\ Par(Other(p)) = 0 /\ n = 0 /\ o = 1
        \/ p = "participant" /\ Par(p) = 0 /\ Par(Other(p)) = 1 /\ n = 1 /\ o = 0
    BY DEF Peers, Par, Other, New
  <2>2. 0 \in K /\ 1 \in K
    BY <2>1 DEF Keys
  <2> HIDE DEF K, o
  <2>3. New(p).seqIn = IF p = "admin" THEN -2 ELSE -1
    BY DEF New
  <2>4. /\ New(p).seqIn \in Int /\ New(p).seqIn >= -2 /\ New(p).seqIn % 2 = Par(Other(p))
        /\ New(p).seqOut \in Nums(p) /\ n \in Nat /\ n % 2 = Par(Other(p))
    BY <2>1 DEF New, Nums
  <2>5. New(p) \in Chats(p, {}, K)
    BY <2>1, <2>2, <2>4 DEF New, Chats
  <2>6. Fit(New(p), p)
    BY <2>4, ChatAssumption DEF New, Fit
  <2>7. Numbers(New(p)) /\ HeldAfter(New(p))
    BY DEF New, Numbers, HeldAfter
  <2>8. Gapless(New(p), p)
    BY <2>4 DEF New, Gapless
  <2> QED
    BY <2>5, <2>6, <2>7, <2>8 DEF Fine, Good, K, o, WireFits, BoxFits
<1>3. \A p \in Peers : Other(p) \in Peers
  BY PeerIs
<1> QED
  BY <1>1, <1>2, <1>3 DEF IInv

-----------------------------------------------------------------------------
(* The steps.                                                                *)

LEMMA EditFine ==
    ASSUME NEW p, NEW E, NEW o, NEW c, Fine(c, p, E, o), NEW d, d \in Chats(p, E, Keys(p, c.own, o)), d.own = c.own,
           d.seqIn = c.seqIn, d.inSeqNo = c.inSeqNo, d.stage = c.stage, d.db = c.db, d.held = c.held,
           d.seqOut = c.seqOut, d.handled = c.handled, d.twice = c.twice
    PROVE  Fine(d, p, E, o)
<1>1. Good(c, p, E, o) /\ c.own \in Nat
  BY OwnIs
<1>2. d \in Chats(p, E, Keys(p, d.own, o)) /\ c.own <= d.own /\ d.own % 2 = c.own % 2
  BY <1>1
<1>3. Goes(c, d, p, E, o)
  BY <1>1, <1>2, AlikeGoes
<1> QED
  BY <1>3, GoesFine

LEMMA PeersFine ==
    ASSUME IInv, NEW p \in Peers, NEW E, made \subseteq E
    PROVE  /\ Fine(chat[p], p, E, chat[Other(p)].own) /\ Good(chat[p], p, E, chat[Other(p)].own)
           /\ chat[p].own \in Nat /\ chat[Other(p)].own \in Nat
           /\ wire[p] \in Seq(Messages(p, made, Keys(p, chat[p].own, chat[Other(p)].own)))
           /\ box[p] \in Seq(Messages(Other(p), made, Keys(p, chat[p].own, chat[Other(p)].own)))
<1> DEFINE r == Other(p)
           o == chat[r].own
           n == chat[p].own
<1>1. r \in Peers /\ Other(r) = p
  BY PeerIs
<1>2. Fine(chat[p], p, made, o) /\ Fine(chat[r], r, made, n) /\ WireFits(wire[p], p, made, n, o)
      /\ BoxFits(box[p], r, made, o, n)
  BY <1>1 DEF IInv
<1>3. o \in Nat /\ n \in Nat /\ o <= o
  <2>1. o \in Nat /\ n \in Nat
    BY <1>2, OwnIs
  <2> QED
    BY <2>1
<1>4. BoxFits(box[p], r, made, o, n) /\ r = Other(p)
  BY <1>2
<1> HIDE DEF o, n
<1>5. Fine(chat[p], p, E, o)
  BY <1>2, <1>3, MoreFine
<1>6. box[p] \in Seq(Messages(r, made, Keys(p, n, o)))
  BY <1>1, <1>2 DEF BoxFits
<1>7. wire[p] \in Seq(Messages(p, made, Keys(p, n, o)))
  BY <1>2 DEF WireFits
<1>8. Good(chat[p], p, E, o)
  BY <1>5 DEF Fine
<1> QED
  BY <1>3, <1>5, <1>6, <1>7, <1>8 DEF o, n

LEMMA SpentIs ==
    ASSUME NEW p, NEW x, Spent(p, x)
    PROVE  made \subseteq made' /\ x \in made' \cup {0}
  BY DEF Spent

LEMMA SendKeeps ==
    ASSUME IInv, NEW p \in Peers, Send(p)
    PROVE  IInv'
<1> DEFINE c == chat[p]
           o == chat[Other(p)].own
           t == Head(c.stage)
           d == Unstaged(c)
<1>1. PICK x : Spent(p, x) /\ chat' = [chat EXCEPT ![p] = IF t.seq THEN d ELSE Numbered(d, t, x)]
  BY Zenon DEF Send, Unstaged
<1>2. c.stage # <<>> /\ wire' = [wire EXCEPT ![p] = Append(@, Encrypted(c, t))] /\ box' = box
  BY DEF Send
<1> DEFINE E == made'
           e == IF t.seq THEN d ELSE Numbered(d, t, x)
           K == Keys(p, c.own, o)
           a == Encrypted(c, t)
<1>3. made \subseteq E /\ x \in E \cup {0}
  BY <1>1, SpentIs
<1>4. /\ Fine(c, p, E, o) /\ Good(c, p, E, o) /\ c.own \in Nat /\ o \in Nat
      /\ wire[p] \in Seq(Messages(p, made, K))
  <2> HIDE DEF E
  <2> QED
    BY <1>3, PeersFine
<1>5. chat' = [chat EXCEPT ![p] = e]
  BY <1>1
<1> HIDE DEF c, o, E
<1>6. /\ Fine(d, p, E, o) /\ d.own = c.own /\ d.db = c.db
      /\ t \in Sendings(p, E, K) /\ t.m <= Len(c.db)
  <2>1. t = Head(c.stage)
    OBVIOUS
  <2> HIDE DEF t, K
  <2>2. c.stage # <<>> /\ Fine(c, p, E, o)
    BY <1>2, <1>4
  <2> QED
    BY <2>1, <2>2, StagedFine DEF K
<1> HIDE DEF d, t
<1>7. Fine(e, p, E, o) /\ e.own = c.own
  <2>1. CASE t.seq
    BY <1>6, <2>1
  <2>2. CASE ~t.seq
    <3>1. t \in Sendings(p, E, Keys(p, d.own, o)) /\ t.m <= Len(d.db)
      BY <1>6
    <3>2. Fine(Numbered(d, t, x), p, E, o) /\ Numbered(d, t, x).own = d.own
      BY <1>3, <1>4, <1>6, <2>2, <3>1, NumberedFine
    <3> QED
      BY <1>6, <2>2, <3>2
  <2> QED
    BY <2>1, <2>2
<1>8. a \in Messages(p, E, K)
  BY <1>4, <1>6, EncryptedIs
<1> HIDE DEF e, a
<1>9. Append(wire[p], a) \in Seq(Messages(p, E, K))
  <2> HIDE DEF K
  <2>1. Messages(p, made, K) \subseteq Messages(p, E, K)
    <3>1. K \subseteq K
      OBVIOUS
    <3> QED
      BY <1>3, <3>1, MoreTypes
  <2>2. wire[p] \in Seq(Messages(p, E, K))
    BY <1>4, <2>1, MoreSeq
  <2> QED
    BY <1>8, <2>2
<1> DEFINE w == Append(wire[p], a)
           b == box[Other(p)]
<1>10. WireFits(w, p, E, e.own, o) /\ wire' = [wire EXCEPT ![p] = w]
  BY <1>2, <1>7, <1>9 DEF WireFits, a, t, c
<1>11. BoxFits(b, p, E, e.own, o) /\ box' = [box EXCEPT ![Other(p)] = b]
  <2>1. BoxFits(b, p, made, c.own, o) /\ box = [q \in Peers |-> box[q]] /\ Other(p) \in Peers
        /\ WireFits(wire[p], p, made, c.own, o)
    BY PeerIs DEF IInv, c, o
  <2>2. c.own <= c.own /\ o <= o
    BY <1>4
  <2> HIDE DEF b
  <2>3. BoxFits(b, p, E, c.own, o)
    BY <1>3, <1>4, <2>1, <2>2, MoreFits
  <2> QED
    BY <1>2, <1>7, <2>1, <2>3 DEF b
<1> HIDE DEF w, b
<1>12. c.own <= e.own
  BY <1>4, <1>7
<1> QED
  BY <1>3, <1>5, <1>7, <1>10, <1>11, <1>12, StepKeeps DEF c, o, E

LEMMA SendMessageKeeps ==
    ASSUME IInv, NEW p \in Peers, SendMessage(p)
    PROVE  IInv'
<1> DEFINE c == chat[p]
           o == chat[Other(p)].own
           b == Body("text")
           d == Write(c, b)
<1>1. chat' = [chat EXCEPT ![p] = d] /\ made' = made /\ UNCHANGED <<wire, box>>
  BY DEF SendMessage
<1>2. Fine(c, p, made, o) /\ Good(c, p, made, o) /\ c.own \in Nat /\ o \in Nat
  BY PeersFine
<1> HIDE DEF c, o
<1>3. b \in Bodies(p, made, Keys(p, c.own, o))
  BY <1>2, BodyIs DEF Kinds
<1> HIDE DEF b
<1>4. Goes(c, d, p, made, o) /\ d.own = c.own
  BY <1>2, <1>3, WriteGoes
<1> HIDE DEF d
<1>5. Fine(d, p, made', o) /\ c.own <= d.own
  BY <1>1, <1>2, <1>4, GoesFine
<1> QED
  BY <1>1, <1>5, OnlyChat DEF c, o

LEMMA DecryptMessageKeeps ==
    ASSUME IInv, NEW p \in Peers, DecryptMessage(p)
    PROVE  IInv'
<1> DEFINE a == chat[p]
           o == chat[Other(p)].own
           k == box[p][a.next]
           c == [a EXCEPT !.next = @ + 1]
           newKey == k.key # c.key
<1>1. UNCHANGED <<wire, box>> /\ a.next <= Len(box[p])
  BY DEF DecryptMessage
<1>2. \/ chat' = [chat EXCEPT ![p] = [c EXCEPT !.lost = TRUE]] /\ made' = made
      \/ chat' = [chat EXCEPT ![p] = c] /\ made' = made
      \/ k.out > c.seqIn /\ c.seqIn # k.out - 2 /\ chat' = [chat EXCEPT ![p] = Hold(c, k, newKey)] /\ made' = made
      \/ /\ c.seqIn = k.out - 2
         /\ \E x, sorted : /\ sorted \in SortedHeld(c.held) /\ Spent(p, x)
                           /\ chat' = [chat EXCEPT ![p] =
                                 CheckSecretHoles(ProcessDecryptedObject(c, k, newKey, x), sorted)]
  BY Zenon DEF DecryptMessage
<1> DEFINE E == made'
           K == Keys(p, a.own, o)
<1>3. made \subseteq E
  BY <1>2 DEF Spent
<1>4. /\ Fine(a, p, E, o) /\ Good(a, p, E, o) /\ a.own \in Nat /\ o \in Nat
      /\ box[p] \in Seq(Messages(Other(p), made, K))
  <2> HIDE DEF E
  <2> QED
    BY <1>3, PeersFine
<1>5. a.next \in Nat /\ a.next # 0 /\ a \in Chats(p, E, K)
  <2> HIDE DEF a, o, E
  <2> QED
    BY <1>4, FieldsAre DEF Good
<1>6. k \in Messages(Other(p), E, K)
  <2> DEFINE r == Other(p)
             q == box[p]
             i == a.next
  <2>1. q \in Seq(Messages(r, made, K)) /\ i \in 1..Len(q) /\ k = q[i]
    BY <1>1, <1>4, <1>5
  <2>2. K \subseteq K
    OBVIOUS
  <2> HIDE DEF r, q, i, K, E, k
  <2>3. Messages(r, made, K) \subseteq Messages(r, E, K)
    BY <1>3, <2>2, MoreTypes
  <2>4. k \in Messages(r, E, K)
    BY <2>1, <2>3
  <2> QED
    BY <2>4 DEF r
<1> HIDE DEF E, o
<1>7. c \in Chats(p, E, K) /\ c.own = a.own
      /\ c.seqIn = a.seqIn /\ c.inSeqNo = a.inSeqNo /\ c.stage = a.stage /\ c.db = a.db /\ c.held = a.held
      /\ c.seqOut = a.seqOut /\ c.handled = a.handled /\ c.twice = a.twice
  <2> DEFINE n == a.next + 1
  <2>1. n \in Nat \ {0} /\ c = [a EXCEPT !.next = n]
    BY <1>5
  <2> HIDE DEF n, a, c, K
  <2> QED
    BY <1>5, <2>1 DEF Chats
<1> HIDE DEF a, k, K, c
<1>8. Fine(c, p, E, o)
  BY <1>4, <1>7, EditFine DEF K
<1>9. c \in Chats(p, E, Keys(p, c.own, o)) /\ k \in Messages(Other(p), E, Keys(p, c.own, o))
  BY <1>6, <1>7 DEF K
<1>10. newKey \in BOOLEAN
  OBVIOUS
<1> HIDE DEF newKey
<1>11. ASSUME NEW d, Fine(d, p, E, o), c.own <= d.own, chat' = [chat EXCEPT ![p] = d]
       PROVE  IInv'
  <2>1. a.own <= d.own
    BY <1>7, <1>11
  <2> QED
    BY <1>1, <1>3, <1>11, <2>1, OnlyChat DEF a, o, E
<1>12. CASE chat' = [chat EXCEPT ![p] = [c EXCEPT !.lost = TRUE]]
  <2> DEFINE d == [c EXCEPT !.lost = TRUE]
             L == Keys(p, c.own, o)
  <2>1. d \in Chats(p, E, L) /\ d.own = c.own
      /\ d.seqIn = c.seqIn /\ d.inSeqNo = c.inSeqNo /\ d.stage = c.stage /\ d.db = c.db /\ d.held = c.held
      /\ d.seqOut = c.seqOut /\ d.handled = c.handled /\ d.twice = c.twice
    <3>1. c \in Chats(p, E, L)
      BY <1>9
    <3> HIDE DEF L
    <3> QED
      BY <3>1 DEF Chats
  <2>2. c.own <= d.own
    BY <1>4, <1>7, <2>1
  <2>3. chat' = [chat EXCEPT ![p] = d]
    BY <1>12
  <2> HIDE DEF d
  <2>4. Fine(d, p, E, o)
    BY <1>8, <2>1, EditFine
  <2> QED
    BY <1>11, <2>2, <2>3, <2>4
<1>13. CASE chat' = [chat EXCEPT ![p] = c]
  <2>1. c.own <= c.own
    BY <1>4, <1>7
  <2> QED
    BY <1>8, <1>11, <1>13, <2>1
<1>14. CASE /\ k.out > c.seqIn /\ c.seqIn # k.out - 2
            /\ chat' = [chat EXCEPT ![p] = Hold(c, k, newKey)]
  <2> DEFINE d == Hold(c, k, newKey)
  <2>1. Fine(d, p, E, o) /\ d.own = c.own
    BY <1>4, <1>8, <1>9, <1>10, <1>14, HoldFine
  <2>2. chat' = [chat EXCEPT ![p] = d]
    BY <1>14
  <2> HIDE DEF d
  <2>3. c.own <= d.own
    BY <1>4, <1>7, <2>1
  <2> QED
    BY <1>11, <2>1, <2>2, <2>3
<1>15. CASE /\ c.seqIn = k.out - 2
            /\ \E x, sorted : /\ sorted \in SortedHeld(c.held) /\ Spent(p, x)
                              /\ chat' = [chat EXCEPT ![p] =
                                    CheckSecretHoles(ProcessDecryptedObject(c, k, newKey, x), sorted)]
  <2>1. PICK x, sorted : /\ sorted \in SortedHeld(c.held) /\ Spent(p, x)
                         /\ chat' = [chat EXCEPT ![p] =
                               CheckSecretHoles(ProcessDecryptedObject(c, k, newKey, x), sorted)]
    BY <1>15
  <2>2. x \in E \cup {0}
    BY <2>1, SpentIs DEF E
  <2> DEFINE d == CheckSecretHoles(ProcessDecryptedObject(c, k, newKey, x), sorted)
  <2>3. Fine(d, p, E, o) /\ c.own <= d.own
    BY <1>4, <1>8, <1>9, <1>10, <1>15, <2>1, <2>2, ReceivedFine
  <2>4. chat' = [chat EXCEPT ![p] = d]
    BY <2>1
  <2> HIDE DEF d
  <2> QED
    BY <1>11, <2>3, <2>4
<1> QED
  BY <1>2, <1>12, <1>13, <1>14, <1>15 DEF a, k, c, newKey

\* Only states of messages in the database are changed.
Updated(c, q) == [c EXCEPT !.db = q]
Alike(b, q) ==
    /\ DOMAIN q = DOMAIN b /\ q = [m \in DOMAIN q |-> q[m]]
    /\ \A m \in DOMAIN q : q[m] = [b[m] EXCEPT !.state = q[m].state] /\ q[m].state \in States

LEMMA MarkedFine ==
    ASSUME NEW p, NEW E, NEW o, NEW c, Fine(c, p, E, o), NEW q, Alike(c.db, q)
    PROVE  LET d == Updated(c, q) IN Fine(d, p, E, o) /\ d.own = c.own /\ Len(d.db) = Len(c.db)
<1> DEFINE d == Updated(c, q)
           K == Keys(p, c.own, o)
<1>1. Good(c, p, E, o) /\ c \in Chats(p, E, K) /\ Fit(c, p) /\ c.db \in Seq(Entries(p, E, K)) /\ Len(c.db) \in Nat
      /\ DOMAIN c.db = 1..Len(c.db) /\ c.own \in Nat
  <2>1. Good(c, p, E, o) /\ Fit(c, p) /\ c \in Chats(p, E, K)
    BY DEF Fine, Good
  <2>2. c.db \in Seq(Entries(p, E, K)) /\ Len(c.db) \in Nat /\ c.own \in Nat
    BY <2>1, FieldsAre
  <2> HIDE DEF K
  <2> QED
    BY <2>1, <2>2
<1> HIDE DEF K
<1>2. ASSUME NEW m \in DOMAIN q
      PROVE  q[m] \in Entries(p, E, K) /\ q[m].seq = c.db[m].seq /\ q[m].out = c.db[m].out
  <2> DEFINE e == c.db[m]
             s == q[m].state
  <2>1. e \in Entries(p, E, K) /\ s \in States /\ q[m] = [e EXCEPT !.state = s]
    BY <1>1 DEF Alike
  <2>2. [e EXCEPT !.state = s] \in Entries(p, E, K) /\ [e EXCEPT !.state = s].seq = e.seq
        /\ [e EXCEPT !.state = s].out = e.out
    <3> HIDE DEF e, s
    <3> QED
      BY <2>1 DEF Entries, Placed
  <2> QED
    BY <2>1, <2>2
<1>3. q \in Seq(Entries(p, E, K)) /\ Len(q) = Len(c.db)
  <2> DEFINE n == Len(c.db)
  <2>1. n \in Nat /\ DOMAIN q = 1..n /\ \A m \in 1..n : q[m] \in Entries(p, E, K)
    BY <1>1, <1>2 DEF Alike
  <2> HIDE DEF n
  <2>2. q = [m \in 1..n |-> q[m]]
    BY <2>1 DEF Alike
  <2>3. [m \in 1..n |-> q[m]] \in Seq(Entries(p, E, K)) /\ Len([m \in 1..n |-> q[m]]) = n
    BY ONLY <2>1
  <2> QED
    BY <2>2, <2>3, Zenon DEF n
<1>4. d \in Chats(p, E, K) /\ d.own = c.own /\ d.db = q
      /\ d.seqIn = c.seqIn /\ d.inSeqNo = c.inSeqNo /\ d.stage = c.stage /\ d.held = c.held
      /\ d.seqOut = c.seqOut /\ d.handled = c.handled /\ d.twice = c.twice
  BY <1>1, <1>3 DEF Chats, Updated
<1> HIDE DEF d
<1>5. Fit(d, p)
  BY <1>1, <1>3, <1>4 DEF Fit
<1>6. Quiet(c, d)
  BY <1>1, <1>2, <1>3, <1>4 DEF Quiet, Alike
<1>7. Goes(c, d, p, E, o)
  BY <1>1, <1>4, <1>5, <1>6 DEF Goes, Good, K
<1>8. Fine(d, p, E, o)
  BY <1>7, GoesFine
<1> QED
  BY <1>3, <1>4, <1>8 DEF d

\* One of them is.
Marked(c, m, s) == [c EXCEPT !.db[m].state = s]

LEMMA MarkedOne ==
    ASSUME NEW p, NEW E, NEW o, NEW c, Fine(c, p, E, o), NEW m \in DOMAIN c.db, NEW s \in States
    PROVE  Fine(Marked(c, m, s), p, E, o) /\ Marked(c, m, s).own = c.own /\ Len(Marked(c, m, s).db) = Len(c.db)
<1> DEFINE K == Keys(p, c.own, o)
           q == [c.db EXCEPT ![m].state = s]
<1>1. c \in Chats(p, E, K) /\ c.db \in Seq(Entries(p, E, K))
  BY OwnIs, FieldsAre DEF Fine, Good
<1> HIDE DEF K
<1>2. DOMAIN q = DOMAIN c.db /\ q = [i \in DOMAIN q |-> q[i]]
  BY <1>1
<1>3. ASSUME NEW i \in DOMAIN q PROVE q[i] = [c.db[i] EXCEPT !.state = q[i].state] /\ q[i].state \in States
  <2> DEFINE e == c.db[i]
  <2>1. e \in Entries(p, E, K) /\ q[i] = IF i = m THEN [e EXCEPT !.state = s] ELSE e
    BY <1>1, <1>2
  <2> HIDE DEF e, q
  <2>2. [e EXCEPT !.state = s].state = s /\ [e EXCEPT !.state = e.state] = e /\ e.state \in States
    BY <2>1 DEF Entries
  <2> QED
    BY <2>1, <2>2 DEF e
<1>4. Marked(c, m, s) = Updated(c, q)
  BY <1>1 DEF Marked, Updated, Chats
<1>5. Alike(c.db, q)
  <2> HIDE DEF q
  <2> QED
    BY <1>2, <1>3 DEF Alike
<1> HIDE DEF q
<1> QED
  BY <1>4, <1>5, MarkedFine

LEMMA AnsweredFine ==
    ASSUME NEW p, NEW E, NEW o, NEW c, Fine(c, p, E, o), NEW n, NEW ok
    PROVE  Fine(Answered(c, n, ok), p, E, o) /\ Answered(c, n, ok).own = c.own
<1> DEFINE K == Keys(p, c.own, o)
           s == IF ok THEN "sent" ELSE "error"
           q == [m \in DOMAIN c.db |-> IF m # n \/ c.db[m].state = "deleted" THEN c.db[m]
                                       ELSE [c.db[m] EXCEPT !.state = s]]
<1>1. c \in Chats(p, E, K) /\ c.db \in Seq(Entries(p, E, K))
  BY OwnIs, FieldsAre DEF Fine, Good
<1> HIDE DEF K
<1>2. DOMAIN q = DOMAIN c.db /\ q = [i \in DOMAIN q |-> q[i]]
  BY <1>1
<1>3. s \in States
  BY DEF States
<1>4. ASSUME NEW i \in DOMAIN q PROVE q[i] = [c.db[i] EXCEPT !.state = q[i].state] /\ q[i].state \in States
  <2> DEFINE e == c.db[i]
  <2>1. e \in Entries(p, E, K)
    BY <1>1, <1>2
  <2>2. q[i] = e \/ q[i] = [e EXCEPT !.state = s]
    BY <1>2
  <2> HIDE DEF e, q, s
  <2>3. [e EXCEPT !.state = s].state = s /\ [e EXCEPT !.state = e.state] = e /\ e.state \in States
    BY <2>1 DEF Entries
  <2> QED
    BY <1>3, <2>2, <2>3 DEF e
<1>5. Answered(c, n, ok) = Updated(c, q)
  BY DEF Answered, Updated
<1>6. Alike(c.db, q)
  <2> HIDE DEF q
  <2> QED
    BY <1>2, <1>4 DEF Alike
<1> HIDE DEF q
<1> QED
  BY <1>5, <1>6, MarkedFine

LEMMA RetrySendMessageKeeps ==
    ASSUME IInv, NEW p \in Peers, NEW m \in DOMAIN chat[p].db, RetrySendMessage(p, m)
    PROVE  IInv'
<1> DEFINE c == chat[p]
           o == chat[Other(p)].own
           e == Marked(c, m, "sending")
           t == Loaded(c, m)
           d == Retry(e, t)
<1>1. chat' = [chat EXCEPT ![p] = d] /\ made' = made /\ UNCHANGED <<wire, box>>
  BY Zenon DEF RetrySendMessage, Marked
<1>2. Fine(c, p, made, o) /\ Good(c, p, made, o) /\ c.own \in Nat /\ o \in Nat
  BY PeersFine
<1>3. m \in DOMAIN c.db
  OBVIOUS
<1> HIDE DEF c, o
<1>4. t \in Sendings(p, made, Keys(p, c.own, o)) /\ t.m <= Len(c.db)
  BY <1>2, <1>3, LoadedIs
<1>5. Fine(e, p, made, o) /\ e.own = c.own /\ Len(e.db) = Len(c.db)
  BY <1>2, <1>3, MarkedOne DEF States
<1> HIDE DEF e, t
<1>6. Good(e, p, made, o) /\ t \in Sendings(p, made, Keys(p, e.own, o)) /\ t.m <= Len(e.db)
  BY <1>4, <1>5 DEF Fine
<1>7. Sends(e, d, p, made, o)
  BY <1>2, <1>6, RetrySends
<1> HIDE DEF d
<1>8. Fine(d, p, made', o) /\ c.own <= d.own
  BY <1>1, <1>2, <1>5, <1>7, GoesFine DEF Sends
<1> QED
  BY <1>1, <1>8, OnlyChat DEF c, o

LEMMA DeleteMessageKeeps ==
    ASSUME IInv, NEW p \in Peers, NEW m \in DOMAIN chat[p].db, DeleteMessage(p, m)
    PROVE  IInv'
<1> DEFINE c == chat[p]
           o == chat[Other(p)].own
           e == Marked(c, m, "deleted")
           b == Body("delete")
           d == Write(e, b)
<1>1. chat' = [chat EXCEPT ![p] = d] /\ made' = made /\ UNCHANGED <<wire, box>>
  BY Zenon DEF DeleteMessage, Marked
<1>2. Fine(c, p, made, o) /\ c.own \in Nat /\ o \in Nat
  BY PeersFine
<1>3. m \in DOMAIN c.db
  OBVIOUS
<1> HIDE DEF c, o
<1>4. Fine(e, p, made, o) /\ e.own = c.own
  BY <1>2, <1>3, MarkedOne DEF States
<1> HIDE DEF e
<1>5. Good(e, p, made, o) /\ e.own \in Nat
  BY <1>4, OwnIs
<1>6. b \in Bodies(p, made, Keys(p, e.own, o))
  BY <1>2, <1>5, BodyIs DEF Kinds
<1> HIDE DEF b
<1>7. Goes(e, d, p, made, o) /\ d.own = e.own
  BY <1>5, <1>6, WriteGoes
<1> HIDE DEF d
<1>8. Fine(d, p, made', o) /\ c.own <= d.own
  BY <1>1, <1>2, <1>4, <1>7, GoesFine
<1> QED
  BY <1>1, <1>8, OnlyChat DEF c, o

LEMMA TakeKeeps ==
    ASSUME IInv, NEW p \in Peers, NEW ok \in BOOLEAN, Take(p, ok)
    PROVE  IInv'
<1> DEFINE c == chat[p]
           o == chat[Other(p)].own
           r == Other(p)
           k == Head(wire[p])
           d == Answered(c, k.m, ok)
           w == Tail(wire[p])
           K == Keys(p, c.own, o)
<1>1. /\ wire[p] # <<>> /\ wire' = [wire EXCEPT ![p] = w] /\ made' = made
      /\ box' = IF ok THEN [box EXCEPT ![r] = Append(@, k)] ELSE box
      /\ chat' = [chat EXCEPT ![p] = d] \/ chat' = chat
  BY PeerIs DEF Take
<1>2. /\ Fine(c, p, made, o) /\ c.own \in Nat /\ o \in Nat /\ wire[p] \in Seq(Messages(p, made, K))
      /\ r \in Peers /\ Other(r) = p
  BY PeersFine, PeerIs
<1>3. box[r] \in Seq(Messages(p, made, K))
  <2>1. box[r] \in Seq(Messages(Other(r), made, Keys(r, chat[r].own, chat[Other(r)].own)))
    BY <1>2, PeersFine
  <2>2. Keys(r, chat[r].own, chat[Other(r)].own) = K
    BY <1>2, KeysSame
  <2> HIDE DEF K, r
  <2> QED
    BY <1>2, <2>1, <2>2
<1>4. chat = [q \in Peers |-> chat[q]] /\ box = [q \in Peers |-> box[q]]
  BY DEF IInv
<1> HIDE DEF K, r
<1>5. k \in Messages(p, made, K) /\ w \in Seq(Messages(p, made, K))
  BY <1>1, <1>2
<1> DEFINE b == IF ok THEN Append(box[r], k) ELSE box[r]
<1>6. b \in Seq(Messages(p, made, K)) /\ box' = [box EXCEPT ![r] = b]
  <2> HIDE DEF k
  <2>1. b \in Seq(Messages(p, made, K))
    BY <1>3, <1>5
  <2>2. box' = [box EXCEPT ![r] = b]
    BY <1>1, <1>2, <1>4
  <2> QED
    BY <2>1, <2>2
<1> HIDE DEF c, o, k, w, b
<1>7. Fine(d, p, made, o) /\ d.own = c.own
  BY <1>2, AnsweredFine
<1> HIDE DEF d
<1>8. BoxFits(b, p, made, c.own, o) /\ WireFits(w, p, made, c.own, o)
  <2>1. K = Keys(Other(p), o, c.own)
    BY <1>2, KeysSame DEF K
  <2>2. K = Keys(p, c.own, o)
    BY DEF K
  <2> QED
    BY <1>5, <1>6, <2>1, <2>2 DEF WireFits, BoxFits
<1>9. ASSUME NEW e, Fine(e, p, made, o), e.own = c.own, chat' = [chat EXCEPT ![p] = e]
      PROVE  IInv'
  <2>1. c.own <= e.own /\ made \subseteq made'
    BY <1>1, <1>2, <1>9
  <2>2. Fine(e, p, made', o) /\ BoxFits(b, p, made', e.own, o) /\ WireFits(w, p, made', e.own, o)
    BY <1>1, <1>8, <1>9
  <2>3. box' = [box EXCEPT ![Other(p)] = b] /\ wire' = [wire EXCEPT ![p] = w]
    BY <1>1, <1>6 DEF r
  <2> QED
    BY <1>9, <2>1, <2>2, <2>3, StepKeeps DEF c, o
<1>10. CASE chat' = [chat EXCEPT ![p] = d]
  BY <1>7, <1>9, <1>10
<1>11. CASE chat' = chat
  <2>1. chat' = [chat EXCEPT ![p] = c]
    BY <1>4, <1>11 DEF c
  <2> QED
    BY <1>2, <1>9, <2>1
<1> QED
  BY <1>1, <1>10, <1>11

\* The jobs that are left, and the holes that are known.
Answering(c, q, h) == [c EXCEPT !.jobs = q, !.holes = h]

LEMMA AnsweringFine ==
    ASSUME NEW p, NEW E, NEW o, NEW c, Fine(c, p, E, o), NEW q \in Seq(Jobs(p)), NEW h \in SUBSET Jobs(p)
    PROVE  LET d == Answering(c, q, h) IN Fine(d, p, E, o) /\ d.own = c.own /\ d.db = c.db
<1> DEFINE K == Keys(p, c.own, o)
           d == Answering(c, q, h)
<1>1. c \in Chats(p, E, K)
  BY OwnIs DEF Good
<1>2. d \in Chats(p, E, K) /\ d.own = c.own
      /\ d.seqIn = c.seqIn /\ d.inSeqNo = c.inSeqNo /\ d.stage = c.stage /\ d.db = c.db /\ d.held = c.held
      /\ d.seqOut = c.seqOut /\ d.handled = c.handled /\ d.twice = c.twice
  <2> DEFINE e == [c EXCEPT !.jobs = q]
  <2>1. e \in Chats(p, E, K) /\ e.own = c.own
        /\ e.seqIn = c.seqIn /\ e.inSeqNo = c.inSeqNo /\ e.stage = c.stage /\ e.db = c.db /\ e.held = c.held
        /\ e.seqOut = c.seqOut /\ e.handled = c.handled /\ e.twice = c.twice
    <3> HIDE DEF K
    <3> QED
      BY <1>1 DEF Chats
  <2>2. d = [e EXCEPT !.holes = h]
    BY Zenon DEF Answering
  <2> HIDE DEF K, e, d
  <2> QED
    BY <2>1, <2>2 DEF Chats
<1> HIDE DEF d
<1>3. Fine(d, p, E, o)
  BY <1>2, EditFine
<1> QED
  BY <1>2, <1>3 DEF d

LEMMA Twice ==
    ASSUME NEW S, NEW n \in Nat, NEW q, DOMAIN q = 1..n, q = [i \in 1..n |-> q[i]], \A i \in 1..n : q[i] \in S
    PROVE  \E m \in Nat : DOMAIN (q \o q) = 1..m /\ \A i \in 1..m : (q \o q)[i] \in S
<1>1. [i \in 1..n |-> q[i]] \in Seq(S)
  OBVIOUS
<1>2. q \in Seq(S)
  BY <1>1, Zenon
<1>3. q \o q \in Seq(S)
  BY <1>2
<1> DEFINE r == q \o q
           m == Len(r)
<1>4. m \in Nat /\ DOMAIN r = 1..m /\ \A i \in 1..m : r[i] \in S
  <2>1. r \in Seq(S)
    BY <1>3
  <2> HIDE DEF r
  <2> QED
    BY <2>1
<1> HIDE DEF m
<1> QED
  BY <1>4

LEMMA ResendMessagesKeeps ==
    ASSUME IInv, NEW p \in Peers, ResendMessages(p)
    PROVE  IInv'
<1> DEFINE c == chat[p]
           o == chat[Other(p)].own
           j == Head(c.jobs)
           q == Tail(c.jobs)
           Stored(out) == {m \in DOMAIN c.db : c.db[m].seq /\ c.db[m].out = out /\ c.db[m].state # "deleted"}
           Message(out) == IF Stored(out) = {} THEN Substitute(out) ELSE Loaded(c, CHOOSE m \in Stored(out) : TRUE)
           n == (j.to - j.from) \div 2 + 1
           all == [i \in 1..n |-> Message(j.from + 2 * (i - 1))]
           d == [c EXCEPT !.jobs = q]
           e == [d EXCEPT !.holes = @ \cup {j}]
           K == Keys(p, c.own, o)
<1>1. /\ c.jobs # <<>> /\ made' = made /\ UNCHANGED <<wire, box>>
      /\ chat' = [chat EXCEPT ![p] = d] \/ chat' = [chat EXCEPT ![p] = FoldLeft(Retry, e, all \o all)]
  BY Zenon DEF ResendMessages
<1>2. Fine(c, p, made, o) /\ Good(c, p, made, o) /\ c.own \in Nat /\ o \in Nat
  BY PeersFine
<1> HIDE DEF c, o
<1>3. c.jobs \in Seq(Jobs(p)) /\ c.holes \in SUBSET Jobs(p) /\ Len(c.db) \in Nat /\ c \in Chats(p, made, K)
      /\ c.db \in Seq(Entries(p, made, K))
  BY <1>2, FieldsAre DEF Good
<1>4. j \in Jobs(p) /\ q \in Seq(Jobs(p))
  BY <1>1, <1>3
<1> HIDE DEF j, q, K
<1>5. d = Answering(c, q, c.holes) /\ e = Answering(c, q, c.holes \cup {j})
  <2>1. d.holes = c.holes /\ [d EXCEPT !.holes = c.holes] = d
    BY <1>3 DEF Chats
  <2> HIDE DEF d
  <2>2. [d EXCEPT !.holes = c.holes] = Answering(c, q, c.holes)
    BY Zenon DEF Answering, d
  <2>3. [d EXCEPT !.holes = c.holes \cup {j}] = Answering(c, q, c.holes \cup {j})
    BY Zenon DEF Answering, d
  <2> QED
    BY <2>1, <2>2, <2>3
<1> HIDE DEF d, e
<1>6. Fine(d, p, made, o) /\ d.own = c.own
  BY <1>2, <1>3, <1>4, <1>5, AnsweringFine
<1>7. Fine(e, p, made, o) /\ e.own = c.own /\ e.db = c.db
  <2> DEFINE h == c.holes \cup {j}
  <2>1. h \in SUBSET Jobs(p) /\ e = Answering(c, q, h)
    BY <1>3, <1>4, <1>5
  <2> HIDE DEF h
  <2> QED
    BY <1>2, <1>4, <2>1, AnsweringFine
<1> DEFINE S == {t \in Sendings(p, made, K) : t.m <= Len(c.db)}
<1>8. ASSUME NEW out \in Nums(p) PROVE Message(out) \in S
  <2>1. CASE Stored(out) = {}
    <3>1. Substitute(out) \in Sendings(p, made, K) /\ Substitute(out).m = 0
      BY <1>2, SubstituteIs DEF K
    <3> QED
      BY <1>3, <2>1, <3>1
  <2>2. CASE Stored(out) # {}
    <3> DEFINE m == CHOOSE m \in Stored(out) : TRUE
    <3>1. m \in DOMAIN c.db
      BY <2>2
    <3> HIDE DEF m
    <3>2. Loaded(c, m) \in Sendings(p, made, K) /\ Loaded(c, m).m <= Len(c.db)
      BY <1>2, <3>1, LoadedIs DEF K
    <3> QED
      BY <2>2, <3>2 DEF m
  <2> QED
    BY <2>1, <2>2
<1> HIDE DEF Message, Stored
<1>9. n \in Nat /\ \A i \in 1..n : j.from + 2 * (i - 1) \in Nums(p)
  <2> DEFINE f == j.from
             u == j.to
  <2>1. f \in Nat /\ f % 2 = Par(p) /\ u \in Int /\ f <= u
    BY <1>4 DEF Jobs, Nums
  <2> HIDE DEF f, u
  <2>2. (u - f) \div 2 + 1 \in Nat
    BY <2>1
  <2>3. ASSUME NEW i \in Nat, i >= 1 PROVE f + 2 * (i - 1) \in Nat /\ (f + 2 * (i - 1)) % 2 = f % 2
    <3>1. \A k \in Nat : (f + 2 * k) % 2 = f % 2
      BY <2>1
    <3>2. i - 1 \in Nat
      BY <2>3
    <3> QED
      BY <2>1, <3>1, <3>2
  <2> QED
    BY <2>1, <2>2, <2>3 DEF Nums, f, u
<1> HIDE DEF n
<1>10. DOMAIN all = 1..n /\ all = [i \in 1..n |-> all[i]] /\ \A i \in 1..n : all[i] \in S
  BY <1>8, <1>9
<1> HIDE DEF all, S
<1>11. PICK m \in Nat : DOMAIN (all \o all) = 1..m /\ \A i \in 1..m : (all \o all)[i] \in S
  BY <1>9, <1>10, Twice
<1> DEFINE s == all \o all
           x == FoldLeft(Retry, e, s)
<1>12. DOMAIN s = 1..m /\ \A i \in 1..m : s[i] \in Sendings(p, made, Keys(p, e.own, o)) /\ s[i].m <= Len(e.db)
  <2>1. DOMAIN s = 1..m /\ \A i \in 1..m : s[i] \in S
    BY <1>11
  <2> HIDE DEF s
  <2> QED
    BY <1>7, <2>1 DEF S, K
<1>13. Good(e, p, made, o)
  BY <1>7, OwnIs
<1>14. chat' = [chat EXCEPT ![p] = d] \/ chat' = [chat EXCEPT ![p] = x]
  BY <1>1
<1> HIDE DEF s
<1>15. Sends(e, x, p, made, o)
  BY <1>2, <1>12, <1>13, RetriesSend
<1> HIDE DEF x
<1>16. Fine(x, p, made, o) /\ x.own = c.own
  BY <1>7, <1>15, GoesFine DEF Sends
<1>17. ASSUME NEW y, Fine(y, p, made, o), y.own = c.own, chat' = [chat EXCEPT ![p] = y]
       PROVE  IInv'
  <2>1. c.own <= y.own /\ made \subseteq made' /\ Fine(y, p, made', o)
    BY <1>1, <1>2, <1>17
  <2> QED
    BY <1>1, <1>17, <2>1, OnlyChat DEF c, o
<1> QED
  BY <1>6, <1>14, <1>16, <1>17

\* What a process that was killed leaves to the next.
Fresh(c, n, cut) ==
    [[c EXCEPT !.stage = <<>>, !.jobs = <<>>, !.held = <<>>, !.asked = {}, !.cut = cut] EXCEPT !.next = n]

LEMMA FreshFine ==
    ASSUME NEW p, NEW E, NEW o, NEW c, Fine(c, p, E, o), NEW n \in Nat \ {0}, NEW cut \in BOOLEAN
    PROVE  LET d == Fresh(c, n, cut) IN Fine(d, p, E, o) /\ d.own = c.own /\ d.db = c.db
<1> DEFINE K == Keys(p, c.own, o)
           d == Fresh(c, n, cut)
           a == [[[c EXCEPT !.stage = <<>>] EXCEPT !.jobs = <<>>] EXCEPT !.held = <<>>]
           b == [[[a EXCEPT !.asked = {}] EXCEPT !.cut = cut] EXCEPT !.next = n]
<1>1. c \in Chats(p, E, K) /\ Fit(c, p)
  BY OwnIs DEF Good
<1>2. d = b
  BY Zenon DEF Fresh
<1> HIDE DEF K
<1>3. a \in Chats(p, E, K) /\ a.own = c.own /\ a.stage = <<>> /\ a.held = <<>>
      /\ a.seqIn = c.seqIn /\ a.inSeqNo = c.inSeqNo /\ a.db = c.db
      /\ a.seqOut = c.seqOut /\ a.handled = c.handled /\ a.twice = c.twice
  <2> DEFINE x == <<>>
             y == <<>>
             z == <<>>
  <2>1. x \in Seq(Sendings(p, E, K)) /\ y \in Seq(Jobs(p)) /\ z \in Seq(Helds(p, E, K)) /\ x = <<>> /\ z = <<>>
    OBVIOUS
  <2>2. a = [[[c EXCEPT !.stage = x] EXCEPT !.jobs = y] EXCEPT !.held = z]
    BY DEF a
  <2> HIDE DEF x, y, z
  <2> QED
    BY <1>1, <2>1, <2>2 DEF Chats
<1> HIDE DEF a
<1>4. b \in Chats(p, E, K) /\ b.own = c.own /\ b.stage = <<>> /\ b.held = <<>>
      /\ b.seqIn = c.seqIn /\ b.inSeqNo = c.inSeqNo /\ b.db = c.db
      /\ b.seqOut = c.seqOut /\ b.handled = c.handled /\ b.twice = c.twice
  BY <1>3 DEF Chats
<1> HIDE DEF b, d
<1>5. Fit(d, p)
  BY <1>1, <1>2, <1>4, ChatAssumption DEF Fit
<1>6. Good(d, p, E, o)
  BY <1>2, <1>4, <1>5 DEF Good, K
<1>7. Numbers(d)
  BY <1>2, <1>4 DEF Fine, Numbers
<1>8. HeldAfter(d)
  BY <1>2, <1>4 DEF HeldAfter
<1>9. d.twice \/ Gapless(d, p)
  BY <1>2, <1>4 DEF Fine, Gapless
<1>10. Fine(d, p, E, o)
  BY <1>6, <1>7, <1>8, <1>9 DEF Fine
<1> QED
  BY <1>2, <1>4, <1>10 DEF d

LEMMA RestartKeeps ==
    ASSUME IInv, NEW p \in Peers, Restart(p)
    PROVE  IInv'
<1> DEFINE c == chat[p]
           o == chat[Other(p)].own
           again == \E i \in DOMAIN c.stage : c.stage[i].seq
           failed == c.jobs # <<>> \/ again \/ \E i \in DOMAIN wire[p] : wire[p][i].again
           cut == c.cut \/ failed
           q == c.db
<1>1. /\ made' = made /\ wire' = [wire EXCEPT ![p] = <<>>] /\ box' = box
      /\ \E n \in {c.next, Max({1, c.next - 1})} :
            chat' = [chat EXCEPT ![p] = FoldLeft(SendUnsent, Fresh(c, n, cut), [m \in DOMAIN q |-> m])]
  BY Zenon DEF Restart, Fresh
<1>2. PICK n \in {c.next, Max({1, c.next - 1})} :
         chat' = [chat EXCEPT ![p] = FoldLeft(SendUnsent, Fresh(c, n, cut), [m \in DOMAIN q |-> m])]
  BY <1>1
<1>3. Fine(c, p, made, o) /\ Good(c, p, made, o) /\ c.own \in Nat /\ o \in Nat
  BY PeersFine
<1> HIDE DEF failed
<1>4. n \in Nat \ {0} /\ cut \in BOOLEAN
  <2>1. c.next \in Nat /\ c.next # 0 /\ c.cut \in BOOLEAN
    <3> HIDE DEF c, o
    <3> QED
      BY <1>3, FieldsAre
  <2>2. failed \in BOOLEAN
    BY DEF failed
  <2>3. n \in Nat \ {0}
    <3> DEFINE a == c.next - 1
    <3>1. a \in Int
      BY <2>1
    <3>2. Max({1, a}) = IF 1 >= a THEN 1 ELSE a
      <4> HIDE DEF a
      <4> QED
        BY <3>1, MaxOfTwo
    <3> QED
      BY <2>1, <3>1, <3>2
  <2> QED
    BY <2>1, <2>2, <2>3
<1> DEFINE d == Fresh(c, n, cut)
           e == FoldLeft(SendUnsent, d, [m \in DOMAIN q |-> m])
<1>5. chat' = [chat EXCEPT ![p] = e]
  BY <1>2
<1> HIDE DEF cut, q
<1>6. Fine(d, p, made, o) /\ d.own = c.own /\ d.db = q
  <2> HIDE DEF c, o
  <2>1. Fine(d, p, made, o) /\ d.own = c.own /\ d.db = c.db
    BY <1>3, <1>4, FreshFine
  <2> QED
    BY <2>1 DEF q, c
<1> HIDE DEF c, o, d
<1>7. Good(d, p, made, o)
  BY <1>6, OwnIs
<1>8. Sends(d, e, p, made, o)
  BY <1>3, <1>6, <1>7, UnsentSend
<1> HIDE DEF e
<1>9. Fine(e, p, made, o) /\ e.own = c.own
  BY <1>6, <1>8, GoesFine DEF Sends
<1> DEFINE w == <<>>
           b == box[Other(p)]
<1>10. WireFits(w, p, made', e.own, o) /\ wire' = [wire EXCEPT ![p] = w]
  BY <1>1 DEF WireFits
<1>11. BoxFits(b, p, made', e.own, o) /\ box' = [box EXCEPT ![Other(p)] = b]
  BY <1>1, <1>9, PeerIs DEF IInv, c, o
<1> HIDE DEF w, b
<1>12. made \subseteq made' /\ Fine(e, p, made', o) /\ c.own <= e.own
  BY <1>1, <1>3, <1>9
<1> QED
  BY <1>5, <1>10, <1>11, <1>12, StepKeeps DEF c, o

-----------------------------------------------------------------------------
LEMMA StutterKeeps == IInv /\ UNCHANGED vars => IInv'
<1> SUFFICES ASSUME IInv, UNCHANGED vars PROVE IInv'
  OBVIOUS
<1> QED
  BY Zenon DEF IInv, vars

(* What the two theorems below rest on holds in every state that a chat can  *)
(* come to, whatever is written, lost, repeated, deleted or killed.          *)
THEOREM Invariance == Spec => []IInv
<1>1. Init => IInv
  BY InitIInv
<1>2. IInv /\ [Next]_vars => IInv'
  <2>1. ASSUME IInv, NEW p \in Peers,
               \/ Runs(p) \/ SendMessage(p) \/ Restart(p) \/ Take(p, TRUE) \/ Take(p, FALSE)
               \/ \E m \in DOMAIN chat[p].db : RetrySendMessage(p, m) \/ DeleteMessage(p, m)
        PROVE  IInv'
    <3>1. CASE Runs(p)
      BY <2>1, <3>1, SendKeeps, DecryptMessageKeeps, ResendMessagesKeeps DEF Runs
    <3>2. CASE SendMessage(p) \/ Restart(p)
      BY <2>1, <3>2, SendMessageKeeps, RestartKeeps
    <3>3. CASE Take(p, TRUE) \/ Take(p, FALSE)
      BY <2>1, <3>3, TakeKeeps
    <3>4. CASE \E m \in DOMAIN chat[p].db : RetrySendMessage(p, m) \/ DeleteMessage(p, m)
      BY <2>1, <3>4, RetrySendMessageKeeps, DeleteMessageKeeps
    <3> QED
      BY <2>1, <3>1, <3>2, <3>3, <3>4
  <2> QED
    BY <2>1, StutterKeeps DEF Next
<1> QED
  BY <1>1, <1>2, PTL DEF Spec

(* Every key that a peer uses or is to use has been made by one of the two,  *)
(* its exchange has been begun, the two peers number differently, and no     *)
(* more messages wait behind a hole than the limit (EncryptedChat and        *)
(* secretHolesQueue of SecretChatHelper).                                    *)
THEOREM TypeCorrect == Spec => []TypeOK
<1>1. IInv => TypeOK
  <2> SUFFICES ASSUME IInv, NEW p \in Peers
               PROVE  LET c == chat[p] IN
                      /\ Made(c.key) /\ Made(c.future) /\ c.exchange \in made \cup {0}
                      /\ c.seqOut % 2 # c.seqIn % 2
                      /\ Len(c.held) <= HeldLimit
    BY DEF TypeOK
  <2> DEFINE c == chat[p]
             o == chat[Other(p)].own
  <2>1. Good(c, p, made, o) /\ c.own \in Nat /\ o \in Nat
    BY PeersFine
  <2>2. \A k : k \in Keys(p, c.own, o) => Made(k)
    <3>1. \/ p = "admin" /\ Other(p) = "participant" /\ Par(Other(p)) = 0
          \/ p = "participant" /\ Other(p) = "admin" /\ Par(Other(p)) = 1
      BY DEF Peers, Par, Other
    <3>2. \A k \in Nat : k % 2 = 0 \/ k % 2 = 1
      OBVIOUS
    <3> QED
      BY <3>1, <3>2 DEF Keys, Made
  <2> HIDE DEF c, o
  <2>3. c.key \in Keys(p, c.own, o) /\ c.future \in Keys(p, c.own, o) /\ c.exchange \in made \cup {0}
        /\ c.seqOut \in Nums(p) /\ c.seqIn \in Int
    BY <2>1, FieldsAre
  <2>4. c.seqIn % 2 = Par(Other(p)) /\ Len(c.held) <= HeldLimit
    BY <2>1 DEF Good, Fit
  <2>5. c.seqOut % 2 # c.seqIn % 2
    <3>1. Par(p) # Par(Other(p))
      BY DEF Peers, Par, Other
    <3> QED
      BY <2>3, <2>4, <3>1 DEF Nums
  <2> QED
    BY <2>2, <2>3, <2>4, <2>5 DEF c
<1> QED
  BY <1>1, Invariance, PTL

(* Whatever is lost, sent again or held back behind a hole, the messages of  *)
(* the peer are handled each once and in the order of their numbers, unless  *)
(* one has been held back twice; and no two messages written by one peer     *)
(* have the same number (decryptMessage, checkSecretHoles, resendMessages).  *)
THEOREM HandledOnceInOrder == Spec => []HandledInOrder
<1>1. IInv => HandledInOrder
  BY DEF IInv, HandledInOrder, Fine, Gapless, Numbers
<1> QED
  BY <1>1, Invariance, PTL
=============================================================================
