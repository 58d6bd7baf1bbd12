-------------------------- MODULE ReceiveStreamProofs --------------------------
(* Proofs about ReceiveStream, for packets and reads of any length.          *)
EXTENDS ReceiveStream, WellFoundedInduction, TLAPS

-----------------------------------------------------------------------------
(* Induction, with a set for what is shown.                                  *)
LEMMA NatSet ==
    ASSUME NEW S, 0 \in S, \A n \in Nat : n \in S => n + 1 \in S
    PROVE  Nat \subseteq S
<1> SUFFICES ASSUME Nat \ S # {} PROVE FALSE
  OBVIOUS
<1> DEFINE R == OpToRel(<, Nat)
           T == Nat \ S
<1>1. IsWellFoundedOn(R, Nat)
  BY NatLessThanWellFounded
<1>2. \E x \in T : \A y \in T : <<y, x>> \notin R
  <2>1. T \subseteq Nat /\ T # {}
    OBVIOUS
  <2> HIDE DEF R, T
  <2> QED
    BY <1>1, <2>1, WFMin
<1>3. PICK x \in T : \A y \in T : <<y, x>> \notin R
  BY <1>2
<1>4. x # 0 /\ x - 1 \in Nat /\ (x - 1) + 1 = x
  OBVIOUS
<1>5. x - 1 \in S
  <2>1. <<x - 1, x>> \in R
    BY <1>4 DEF OpToRel
  <2> QED
    BY <1>3, <1>4, <2>1
<1> QED
  BY <1>4, <1>5

(* What FlattenSeq computes on the way.                                      *)
FlattensTo(q, n, f) == f = [i \in 1..n |-> IF i = 1 THEN q[i] ELSE f[i - 1] \o q[i]]
Flattens(q, f)      == FlattensTo(q, Len(q), f)

LEMMA FlattensSame ==
    ASSUME NEW q, Len(q) \in Nat, NEW r, Len(r) \in Nat, Len(q) <= Len(r),
           \A i \in 1..Len(q) : r[i] = q[i], NEW f, Flattens(q, f), NEW g, Flattens(r, g)
    PROVE  \A i \in 1..Len(q) : f[i] = g[i]
<1> DEFINE S == {n \in Nat : n \in 1..Len(q) => f[n] = g[n]}
<1>1. 0 \in S
  OBVIOUS
<1>2. ASSUME NEW n \in Nat, n \in S PROVE n + 1 \in S
  <2> SUFFICES ASSUME n + 1 \in 1..Len(q) PROVE f[n + 1] = g[n + 1]
    OBVIOUS
  <2>1. Len(q) \in Nat /\ Len(r) \in Nat
    OBVIOUS
  <2>2. n + 1 \in 1..Len(r) /\ (n + 1) - 1 = n /\ (n + 1 # 1 => n \in 1..Len(q))
    BY <2>1
  <2>3. f[n + 1] = IF n + 1 = 1 THEN q[n + 1] ELSE f[n] \o q[n + 1]
    BY <2>2 DEF Flattens, FlattensTo
  <2>4. g[n + 1] = IF n + 1 = 1 THEN r[n + 1] ELSE g[n] \o r[n + 1]
    BY <2>2 DEF Flattens, FlattensTo
  <2>5. n + 1 # 1 => f[n] = g[n]
    BY <1>2, <2>2
  <2> QED
    BY <2>3, <2>4, <2>5
<1>3. Nat \subseteq S
  <2> HIDE DEF S
  <2> QED
    BY <1>1, <1>2, NatSet
<1> QED
  BY <1>3

LEMMA FlattensSome ==
    ASSUME NEW q, Len(q) \in Nat
    PROVE  \E f : Flattens(q, f)
<1> DEFINE S == {n \in Nat : \E f : FlattensTo(q, n, f)}
<1>1. 0 \in S
  <2>1. FlattensTo(q, 0, [i \in 1..0 |-> 0])
    BY DEF FlattensTo
  <2> QED
    BY <2>1
<1>2. ASSUME NEW n \in Nat, n \in S PROVE n + 1 \in S
  <2>1. PICK f : FlattensTo(q, n, f)
    BY <1>2
  <2> DEFINE g == [i \in 1..n + 1 |-> IF i = n + 1 THEN IF n = 0 THEN q[1] ELSE f[n] \o q[n + 1] ELSE f[i]]
  <2>2. ASSUME NEW i \in 1..n + 1
        PROVE  g[i] = IF i = 1 THEN q[i] ELSE g[i - 1] \o q[i]
    <3>1. CASE i = n + 1 /\ n = 0
      BY <3>1
    <3>2. CASE i = n + 1 /\ n # 0
      <4>1. n \in 1..n + 1 /\ n # n + 1 /\ n + 1 \in 1..n + 1 /\ i - 1 = n /\ i # 1
        BY <3>2
      <4>2. g[n + 1] = f[n] \o q[n + 1]
        BY <3>2, <4>1
      <4>3. g[n] = f[n]
        BY <4>1
      <4> HIDE DEF g
      <4> QED
        BY <3>2, <4>1, <4>2, <4>3
    <3>3. CASE i # n + 1
      <4>1. i \in 1..n /\ (i # 1 => i - 1 \in 1..n + 1 /\ i - 1 # n + 1)
        BY <3>3
      <4>2. f[i] = IF i = 1 THEN q[i] ELSE f[i - 1] \o q[i]
        BY <2>1, <4>1 DEF FlattensTo
      <4> QED
        BY <3>3, <4>1, <4>2
    <3> QED
      BY <3>1, <3>2, <3>3
  <2>3. FlattensTo(q, n + 1, g)
    <3>1. g = [i \in 1..n + 1 |-> g[i]]
      OBVIOUS
    <3> HIDE DEF g
    <3> QED
      BY <2>2, <3>1 DEF FlattensTo
  <2> QED
    BY <2>3
<1>3. Nat \subseteq S
  <2> HIDE DEF S
  <2> QED
    BY <1>1, <1>2, NatSet
<1> QED
  BY <1>3 DEF Flattens

LEMMA FlattenIs ==
    ASSUME NEW q, Len(q) \in Nat \ {0}, NEW f, Flattens(q, f)
    PROVE  FlattenSeq(q) = f[Len(q)]
<1>1. (CHOOSE g : Flattens(q, g)) = f
  <2> DEFINE h == CHOOSE g : Flattens(q, g)
  <2>1. Flattens(q, h)
    OBVIOUS
  <2> HIDE DEF h
  <2>2. \A i \in 1..Len(q) : h[i] = f[i]
    BY <2>1, FlattensSame
  <2>3. h = [i \in 1..Len(q) |-> h[i]] /\ f = [i \in 1..Len(q) |-> f[i]]
    BY <2>1 DEF Flattens, FlattensTo
  <2>4. h = f
    BY <2>2, <2>3
  <2> QED
    BY <2>4 DEF h
<1> QED
  BY <1>1 DEF FlattenSeq, Flattens, FlattensTo

-----------------------------------------------------------------------------
(* The bytes of the first k packets, which are those of a stream up to where *)
(* the k-th one ends.                                                        *)
Pieces(c, s, k) == [i \in 1..k |-> PacketBytes(c, s, i)]
UpTo(c, s, k)   == StreamBytes(c, SubSeq(s, 1, k))
EndOf(c, s, k)  == Len(UpTo(c, s, k))
Bytewise(c, s, T) == \A i \in 1..Len(s) : PacketBytes(c, s, i) \in Seq(T)

LEMMA UpToIs ==
    ASSUME NEW P, NEW s \in Seq(P), NEW c, NEW k \in 0..Len(s)
    PROVE  UpTo(c, s, k) = FlattenSeq(Pieces(c, s, k))
<1> DEFINE r == SubSeq(s, 1, k)
<1>1. Len(r) = k /\ \A i \in 1..k : r[i] = s[i]
  OBVIOUS
<1>2. \A i \in 1..k : PacketBytes(c, r, i) = PacketBytes(c, s, i)
  BY <1>1 DEF PacketBytes
<1>3. [i \in 1..Len(r) |-> PacketBytes(c, r, i)] = Pieces(c, s, k)
  <2> HIDE DEF r
  <2> QED
    BY <1>1, <1>2 DEF Pieces
<1> QED
  BY <1>3 DEF UpTo, StreamBytes

LEMMA UpToGrows ==
    ASSUME NEW P, NEW s \in Seq(P), NEW c, NEW T, Bytewise(c, s, T), NEW k \in 0..Len(s) - 1
    PROVE  UpTo(c, s, k + 1) = (IF k = 0 THEN PacketBytes(c, s, 1)
                                ELSE UpTo(c, s, k) \o PacketBytes(c, s, k + 1))
<1> DEFINE q == Pieces(c, s, k)
           r == Pieces(c, s, k + 1)
<1>1. Len(s) \in Nat /\ k \in Nat /\ k + 1 \in 1..Len(s) /\ k \in 0..Len(s) /\ k + 1 \in 0..Len(s)
  OBVIOUS
<1>2. q \in Seq(Seq(T)) /\ Len(q) = k /\ r \in Seq(Seq(T)) /\ Len(r) = k + 1
  <2>1. \A i \in 1..k + 1 : PacketBytes(c, s, i) \in Seq(T)
    BY <1>1 DEF Bytewise
  <2> QED
    BY <1>1, <2>1 DEF Pieces
<1>3. (\A i \in 1..k : r[i] = q[i]) /\ r[k + 1] = PacketBytes(c, s, k + 1)
  BY <1>1 DEF Pieces
<1> HIDE DEF q, r
<1>4. PICK f : Flattens(r, f)
  BY <1>1, <1>2, FlattensSome
<1>5. UpTo(c, s, k + 1) = f[k + 1]
  <2>1. FlattenSeq(r) = f[Len(r)]
    BY <1>1, <1>2, <1>4, FlattenIs
  <2> QED
    BY <1>1, <1>2, <2>1, UpToIs DEF r
<1>6. f[k + 1] = IF k = 0 THEN r[1] ELSE f[k] \o r[k + 1]
  <2>1. k + 1 \in 1..k + 1 /\ (k + 1) - 1 = k /\ (k + 1 = 1 <=> k = 0)
    BY <1>1
  <2> QED
    BY <1>2, <1>4, <2>1 DEF Flattens, FlattensTo
<1>7. k # 0 => f[k] = UpTo(c, s, k)
  <2> SUFFICES ASSUME k # 0 PROVE f[k] = UpTo(c, s, k)
    OBVIOUS
  <2>1. PICK g : Flattens(q, g)
    BY <1>1, <1>2, FlattensSome
  <2>2. FlattenSeq(q) = g[k]
    BY <1>1, <1>2, <2>1, FlattenIs
  <2>3. \A i \in 1..k : g[i] = f[i]
    <3>1. Len(q) <= Len(r)
      BY <1>1, <1>2
    <3>2. \A i \in 1..Len(q) : r[i] = q[i]
      BY <1>2, <1>3
    <3>3. Len(q) \in Nat /\ Len(r) \in Nat
      BY <1>1, <1>2
    <3>4. \A i \in 1..Len(q) : g[i] = f[i]
      BY ONLY <1>4, <2>1, <3>1, <3>2, <3>3, FlattensSame, SMTT(40)
    <3>5. Len(q) = k
      BY <1>2
    <3> QED
      BY ONLY <3>4, <3>5
  <2>4. g[k] = f[k]
    BY <1>1, <2>3
  <2> QED
    BY <1>1, <2>2, <2>4, UpToIs DEF q
<1> QED
  BY <1>3, <1>5, <1>6, <1>7

LEMMA UpToNone ==
    ASSUME NEW P, NEW s \in Seq(P), NEW c
    PROVE  UpTo(c, s, 0) = <<>>
<1>1. Len(s) \in Nat /\ 0 \in 0..Len(s)
  OBVIOUS
<1>2. Pieces(c, s, 0) = <<>>
  BY DEF Pieces
<1>3. FlattenSeq(<<>>) = <<>>
  BY DEF FlattenSeq
<1> QED
  BY <1>1, <1>2, <1>3, UpToIs

LEMMA UpToTyped ==
    ASSUME NEW P, NEW s \in Seq(P), NEW c, NEW T, Bytewise(c, s, T)
    PROVE  \A k \in 0..Len(s) : UpTo(c, s, k) \in Seq(T)
<1> DEFINE S == {k \in Nat : k <= Len(s) => UpTo(c, s, k) \in Seq(T)}
<1>1. 0 \in S
  <2>1. UpTo(c, s, 0) = <<>>
    BY UpToNone
  <2>2. <<>> \in Seq(T)
    OBVIOUS
  <2> QED
    BY <2>1, <2>2
<1>2. ASSUME NEW k \in Nat, k \in S PROVE k + 1 \in S
  <2> SUFFICES ASSUME k + 1 <= Len(s) PROVE UpTo(c, s, k + 1) \in Seq(T)
    OBVIOUS
  <2>1. Len(s) \in Nat /\ k \in 0..Len(s) - 1 /\ k <= Len(s) /\ k + 1 \in 1..Len(s) /\ 1 \in 1..Len(s)
    OBVIOUS
  <2>2. UpTo(c, s, k) \in Seq(T)
    BY <1>2, <2>1
  <2>3. PacketBytes(c, s, 1) \in Seq(T) /\ PacketBytes(c, s, k + 1) \in Seq(T)
    BY <2>1 DEF Bytewise
  <2>4. UpTo(c, s, k + 1) = (IF k = 0 THEN PacketBytes(c, s, 1)
                             ELSE UpTo(c, s, k) \o PacketBytes(c, s, k + 1))
    BY <2>1, UpToGrows
  <2>5. UpTo(c, s, k) \o PacketBytes(c, s, k + 1) \in Seq(T)
    BY ONLY <2>2, <2>3
  <2> QED
    BY <2>3, <2>4, <2>5
<1>3. Nat \subseteq S
  <2> HIDE DEF S
  <2> QED
    BY <1>1, <1>2, NatSet
<1> QED
  BY <1>3

-----------------------------------------------------------------------------
(* The invariant of every state, in step or not.                             *)
Cells       == Kept \cup {Net}
BytesOf(p)  == [conn : 1..MaxConnections, index : 1..MaxPackets, place : Nat, packet : Packets(p)]
Buffers(p)  == [bytes : Seq(BytesOf(p)), pos : Nat, lim : Nat, cap : Nat]
Within(b)   == b.pos <= b.lim /\ b.lim <= b.cap
Filled(b)   == b.lim <= Len(b.bytes)

\* A buffer in the loop is full up to its limit; restOfTheData is so up to its
\* position, and up to its limit where a read is joined to the whole of it.
Held(m, b, r, t, l) ==
    /\ b # None => Filled(m[b])
    /\ t # None => b = r /\ r # None /\ Filled(m[Net])
    /\ b \in Kept /\ r # None => b = r
    /\ r # None => /\ m[r].pos <= Len(m[r].bytes)
                   /\ l = 0 \/ b # None => Filled(m[r])
                   /\ l # 0 => m[r].lim <= l

Shape(p, m, b, r, t, l) ==
    /\ m \in [Cells -> Buffers(p)] /\ \A id \in Cells : Within(m[id])
    /\ b \in Cells \cup {None} /\ r \in Kept \cup {None} /\ t \in {Net, None} /\ l \in Nat
    /\ Held(m, b, r, t, l)

Typed ==
    /\ protocol \in Protocols /\ conn \in 1..MaxConnections
    /\ stream \in Streams(protocol, MaxPackets)
    /\ arrived \in 0..Len(StreamBytes(conn, stream))
    /\ out \in Seq(0..MaxPackets) /\ upset \in BOOLEAN
    /\ Shape(protocol, mem, buffer, rest, later, last)

\* Buffer b holds, from its position on, the bytes of the stream from one place to another.
Ahead(b, bytes, from, to) ==
    /\ b.lim - b.pos = to - from
    /\ \A i \in 1..to - from : b.bytes[b.pos + i] = bytes[from + i]

\* The state of a parser in step, n packets having been handed over.
Follows(c, s, a, m, b, r, t, l, n) ==
    LET bytes == StreamBytes(c, s)
        base  == EndOf(c, s, n)
        next  == s[n + 1]
    IN /\ n <= Len(s) /\ base <= a
       /\ b = None /\ r = None => a = base
       /\ b = None /\ r # None =>
            /\ n < Len(s) /\ m[r].pos = a - base /\ a > base
            /\ \A i \in 1..a - base : m[r].bytes[i] = bytes[base + i]
            /\ l = 0 => a - base < 4 /\ next.kind # "short" /\ m[r].lim = m[r].pos /\ m[r].cap >= 4
            /\ l # 0 => a - base < l /\ next.kind # "ack" /\ l = Size(next) /\ m[r].lim = l
       /\ b # None /\ t = None => Ahead(m[b], bytes, base, a)
       /\ b # None /\ r # None =>
            /\ b = r /\ m[r].pos = 0 /\ m[r].lim > 0
            /\ l = 0 => m[r].cap >= 4
            /\ l # 0 => n < Len(s) /\ next.kind # "ack" /\ l = Size(next) /\ m[r].lim = l
       /\ t # None =>
            /\ n < Len(s) /\ l # 0 /\ Ahead(m[b], bytes, base, EndOf(c, s, n + 1))
            /\ EndOf(c, s, n + 1) < a /\ Ahead(m[Net], bytes, EndOf(c, s, n + 1), a)

InStepInv ==
    InStep => /\ out = [i \in 1..Len(out) |-> i]
              /\ Follows(conn, stream, arrived, mem, buffer, rest, later, last, Len(out))

-----------------------------------------------------------------------------
(* Packets and their bytes.                                                  *)
LEMMA PacketIs ==
    ASSUME NEW p, NEW x \in Packets(p)
    PROVE  /\ x.kind \in {"ack", "short", "long"} /\ x.body \in Nat
           /\ HeaderLength(x.kind) \in {1, 4} /\ Size(x) \in Nat /\ HeaderLength(x.kind) <= Size(x)
           /\ x.kind = "ack" => Size(x) = 4
           /\ x.kind # "short" => HeaderLength(x.kind) = 4
           /\ x.kind = "short" => HeaderLength(x.kind) = 1
           /\ p # "EF" => x.kind # "short"
           /\ x.kind # "ack" => Size(x) > HeaderLength(x.kind)
<1>1. x.kind \in {"ack", "short", "long"} /\ x.body \in Nat /\ (x.kind = "ack" => x.body = 0)
      /\ (x.kind # "ack" => x.body > 0) /\ (p # "EF" => x.kind # "short")
  <2>1. \A b \in Bodies : b \in Nat /\ b > 0
    BY StreamAssumption
  <2>2. CASE x = [kind |-> "ack", body |-> 0]
    BY <2>2
  <2>3. CASE x \in [kind : IF p = "EF" THEN {"short", "long"} ELSE {"long"}, body : Bodies]
    <3>1. x.body \in Bodies /\ x.kind \in (IF p = "EF" THEN {"short", "long"} ELSE {"long"})
      BY <2>3
    <3> QED
      BY <2>1, <3>1
  <2> QED
    BY <2>2, <2>3 DEF Packets
<1> QED
  BY <1>1 DEF HeaderLength, Size

LEMMA StreamIs ==
    ASSUME NEW p, NEW n \in Nat, NEW s \in Streams(p, n)
    PROVE  s \in Seq(Packets(p)) /\ Len(s) \in 1..n
<1>1. PICK k \in 1..n : s \in [1..k -> Packets(p)]
  BY DEF Streams
<1> QED
  BY <1>1

LEMMA PacketBytesIs ==
    ASSUME NEW p, NEW s \in Seq(Packets(p)), Len(s) <= MaxPackets, NEW c \in 1..MaxConnections,
           NEW i \in 1..Len(s)
    PROVE  /\ PacketBytes(c, s, i) \in Seq(BytesOf(p)) /\ Len(PacketBytes(c, s, i)) = Size(s[i])
           /\ \A o \in 1..Size(s[i]) : PacketBytes(c, s, i)[o] =
                  [conn |-> c, index |-> i, place |-> o, packet |-> s[i]]
<1>1. s[i] \in Packets(p)
  OBVIOUS
<1>2. Size(s[i]) \in Nat
  BY <1>1, PacketIs
<1>3. i \in 1..MaxPackets
  BY StreamAssumption
<1>4. \A o \in 1..Size(s[i]) :
          [conn |-> c, index |-> i, place |-> o, packet |-> s[i]] \in BytesOf(p)
  BY <1>1, <1>2, <1>3 DEF BytesOf
<1>5. PacketBytes(c, s, i) \in Seq(BytesOf(p)) /\ Len(PacketBytes(c, s, i)) = Size(s[i])
  BY <1>2, <1>4 DEF PacketBytes
<1> QED
  BY <1>5 DEF PacketBytes

LEMMA StreamTyped ==
    ASSUME NEW p, NEW s \in Seq(Packets(p)), Len(s) <= MaxPackets, NEW c \in 1..MaxConnections
    PROVE  /\ Bytewise(c, s, BytesOf(p))
           /\ \A k \in 0..Len(s) : UpTo(c, s, k) \in Seq(BytesOf(p)) /\ EndOf(c, s, k) \in Nat
           /\ StreamBytes(c, s) \in Seq(BytesOf(p))
           /\ StreamBytes(c, s) = UpTo(c, s, Len(s))
<1>1. Bytewise(c, s, BytesOf(p))
  BY PacketBytesIs DEF Bytewise
<1>2. \A k \in 0..Len(s) : UpTo(c, s, k) \in Seq(BytesOf(p))
  BY <1>1, UpToTyped
<1>3. \A k \in 0..Len(s) : EndOf(c, s, k) \in Nat
  BY <1>2 DEF EndOf
<1>4. StreamBytes(c, s) = UpTo(c, s, Len(s))
  <2>1. SubSeq(s, 1, Len(s)) = s
    OBVIOUS
  <2> QED
    BY <2>1 DEF UpTo
<1> QED
  BY <1>1, <1>2, <1>3, <1>4

LEMMA EndOfIs ==
    ASSUME NEW p, NEW s \in Seq(Packets(p)), Len(s) <= MaxPackets, NEW c \in 1..MaxConnections
    PROVE  /\ EndOf(c, s, 0) = 0
           /\ \A k \in 0..Len(s) - 1 : EndOf(c, s, k + 1) = EndOf(c, s, k) + Size(s[k + 1])
           /\ EndOf(c, s, Len(s)) = Len(StreamBytes(c, s))
<1>1. EndOf(c, s, 0) = 0
  BY UpToNone DEF EndOf
<1>2. ASSUME NEW k \in 0..Len(s) - 1
      PROVE  EndOf(c, s, k + 1) = EndOf(c, s, k) + Size(s[k + 1])
  <2>1. k \in 0..Len(s) /\ k + 1 \in 1..Len(s) /\ k \in Nat /\ 1 \in 1..Len(s)
    OBVIOUS
  <2>2. Bytewise(c, s, BytesOf(p)) /\ UpTo(c, s, k) \in Seq(BytesOf(p))
    BY <2>1, StreamTyped
  <2>3. PacketBytes(c, s, k + 1) \in Seq(BytesOf(p)) /\ Len(PacketBytes(c, s, k + 1)) = Size(s[k + 1])
    BY <2>1, PacketBytesIs
  <2>4. UpTo(c, s, k + 1) = (IF k = 0 THEN PacketBytes(c, s, 1)
                             ELSE UpTo(c, s, k) \o PacketBytes(c, s, k + 1))
    BY <2>2, UpToGrows
  <2>5. CASE k = 0
    <3>1. Size(s[1]) \in Nat
      BY <2>1, PacketIs
    <3> QED
      BY <1>1, <2>3, <2>4, <2>5, <3>1 DEF EndOf
  <2>6. CASE k # 0
    <3>1. Len(UpTo(c, s, k) \o PacketBytes(c, s, k + 1)) = Len(UpTo(c, s, k)) + Len(PacketBytes(c, s, k + 1))
      BY ONLY <2>2, <2>3
    <3> QED
      BY <2>3, <2>4, <2>6, <3>1 DEF EndOf
  <2> QED
    BY <2>5, <2>6
<1>3. EndOf(c, s, Len(s)) = Len(StreamBytes(c, s))
  BY StreamTyped DEF EndOf
<1> QED
  BY <1>1, <1>2, <1>3

LEMMA EndOfGrows ==
    ASSUME NEW p, NEW s \in Seq(Packets(p)), Len(s) <= MaxPackets, NEW c \in 1..MaxConnections
    PROVE  \A k \in 0..Len(s) : \A j \in 0..k - 1 : EndOf(c, s, j) < EndOf(c, s, k)
<1> DEFINE S == {k \in Nat : k <= Len(s) => \A j \in 0..k - 1 : EndOf(c, s, j) < EndOf(c, s, k)}
<1>1. 0 \in S
  OBVIOUS
<1>2. ASSUME NEW k \in Nat, k \in S PROVE k + 1 \in S
  <2> SUFFICES ASSUME k + 1 <= Len(s), NEW j \in 0..(k + 1) - 1
               PROVE  EndOf(c, s, j) < EndOf(c, s, k + 1)
    OBVIOUS
  <2>1. Len(s) \in Nat /\ k \in 0..Len(s) - 1 /\ k \in 0..Len(s) /\ k + 1 \in 1..Len(s) /\ j \in 0..Len(s)
    OBVIOUS
  <2>2. EndOf(c, s, k + 1) = EndOf(c, s, k) + Size(s[k + 1])
    BY <2>1, EndOfIs
  <2>3. Size(s[k + 1]) \in Nat /\ Size(s[k + 1]) >= 1
    <3>1. s[k + 1] \in Packets(p)
      BY <2>1
    <3> QED
      BY <3>1, PacketIs
  <2>4. EndOf(c, s, k) \in Nat /\ EndOf(c, s, j) \in Nat
    BY <2>1, StreamTyped
  <2>5. j = k \/ EndOf(c, s, j) < EndOf(c, s, k)
    <3>1. j = k \/ j \in 0..k - 1
      BY <2>1
    <3> QED
      BY <1>2, <2>1, <3>1
  <2> QED
    BY ONLY <2>2, <2>3, <2>4, <2>5
<1>3. Nat \subseteq S
  <2> HIDE DEF S
  <2> QED
    BY <1>1, <1>2, NatSet
<1> QED
  BY <1>3

LEMMA UpToPrefix ==
    ASSUME NEW p, NEW s \in Seq(Packets(p)), Len(s) <= MaxPackets, NEW c \in 1..MaxConnections
    PROVE  \A k \in 0..Len(s) : \A j \in 0..k : \A i \in 1..EndOf(c, s, j) :
               UpTo(c, s, k)[i] = UpTo(c, s, j)[i]
<1> DEFINE S == {k \in Nat : k <= Len(s) => \A j \in 0..k : \A i \in 1..EndOf(c, s, j) :
                                                UpTo(c, s, k)[i] = UpTo(c, s, j)[i]}
<1>1. 0 \in S
  OBVIOUS
<1>2. ASSUME NEW k \in Nat, k \in S PROVE k + 1 \in S
  <2> SUFFICES ASSUME k + 1 <= Len(s), NEW j \in 0..k + 1, NEW i \in 1..EndOf(c, s, j)
               PROVE  UpTo(c, s, k + 1)[i] = UpTo(c, s, j)[i]
    OBVIOUS
  <2>1. Len(s) \in Nat /\ k \in 0..Len(s) - 1 /\ k \in 0..Len(s) /\ k + 1 \in 1..Len(s) /\ j \in 0..Len(s)
    OBVIOUS
  <2>2. CASE j = k + 1
    BY <2>2
  <2>3. CASE j # k + 1
    <3>1. j \in 0..k
      BY <2>1, <2>3
    <3>2. UpTo(c, s, k)[i] = UpTo(c, s, j)[i]
      BY <1>2, <2>1, <3>1
    <3>3. EndOf(c, s, k) \in Nat /\ EndOf(c, s, j) \in Nat
      BY <2>1, StreamTyped
    <3>4. EndOf(c, s, j) <= EndOf(c, s, k)
      <4>1. j = k \/ j \in 0..k - 1
        BY <3>1
      <4> QED
        BY <2>1, <3>3, <4>1, EndOfGrows
    <3>5. i \in 1..Len(UpTo(c, s, k))
      BY <3>3, <3>4 DEF EndOf
    <3>6. k # 0
      BY <3>3, <3>5, EndOfIs DEF EndOf
    <3>7. Bytewise(c, s, BytesOf(p)) /\ UpTo(c, s, k) \in Seq(BytesOf(p))
      BY <2>1, StreamTyped
    <3>8. UpTo(c, s, k + 1) = UpTo(c, s, k) \o PacketBytes(c, s, k + 1)
      BY <2>1, <3>6, <3>7, UpToGrows
    <3>9. PacketBytes(c, s, k + 1) \in Seq(BytesOf(p))
      BY <2>1, PacketBytesIs
    <3>10. (UpTo(c, s, k) \o PacketBytes(c, s, k + 1))[i] = UpTo(c, s, k)[i]
      BY ONLY <3>5, <3>7, <3>9
    <3> QED
      BY <3>2, <3>8, <3>10
  <2> QED
    BY <2>2, <2>3
<1>3. Nat \subseteq S
  <2> HIDE DEF S
  <2> QED
    BY <1>1, <1>2, NatSet
<1> QED
  BY <1>3

(* Where the packet after the first k stands in the stream.                  *)
LEMMA StreamAt ==
    ASSUME NEW p, NEW s \in Seq(Packets(p)), Len(s) <= MaxPackets, NEW c \in 1..MaxConnections,
           NEW k \in 0..Len(s) - 1
    PROVE  /\ EndOf(c, s, k + 1) <= Len(StreamBytes(c, s))
           /\ \A o \in 1..Size(s[k + 1]) :
                  StreamBytes(c, s)[EndOf(c, s, k) + o] = PacketBytes(c, s, k + 1)[o]
<1>1. Len(s) \in Nat /\ k \in 0..Len(s) /\ k + 1 \in 1..Len(s) /\ k + 1 \in 0..Len(s) /\ Len(s) \in 0..Len(s)
      /\ k \in Nat /\ 1 \in 1..Len(s)
  OBVIOUS
<1>2. Size(s[k + 1]) \in Nat /\ Size(s[k + 1]) >= 1 /\ EndOf(c, s, k) \in Nat /\ EndOf(c, s, k + 1) \in Nat
  <2>1. s[k + 1] \in Packets(p)
    BY <1>1
  <2>2. Size(s[k + 1]) \in Nat /\ Size(s[k + 1]) >= 1
    BY <2>1, PacketIs
  <2>3. EndOf(c, s, k) \in Nat /\ EndOf(c, s, k + 1) \in Nat
    BY <1>1, StreamTyped
  <2> QED
    BY <2>2, <2>3
<1>3. EndOf(c, s, k + 1) = EndOf(c, s, k) + Size(s[k + 1])
  BY EndOfIs
<1>4. EndOf(c, s, k + 1) <= Len(StreamBytes(c, s))
  <2>1. EndOf(c, s, Len(s)) = Len(StreamBytes(c, s)) /\ EndOf(c, s, Len(s)) \in Nat
    BY <1>1, EndOfIs, StreamTyped
  <2>2. k + 1 = Len(s) \/ k + 1 \in 0..Len(s) - 1
    BY <1>1
  <2> QED
    BY <1>1, <1>2, <2>1, <2>2, EndOfGrows
<1>5. ASSUME NEW o \in 1..Size(s[k + 1])
      PROVE  StreamBytes(c, s)[EndOf(c, s, k) + o] = PacketBytes(c, s, k + 1)[o]
  <2>1. EndOf(c, s, k) + o \in 1..EndOf(c, s, k + 1)
    BY <1>2, <1>3
  <2>2. StreamBytes(c, s)[EndOf(c, s, k) + o] = UpTo(c, s, k + 1)[EndOf(c, s, k) + o]
    <3>1. UpTo(c, s, Len(s))[EndOf(c, s, k) + o] = UpTo(c, s, k + 1)[EndOf(c, s, k) + o]
      BY <1>1, <2>1, UpToPrefix
    <3>2. StreamBytes(c, s) = UpTo(c, s, Len(s))
      BY StreamTyped
    <3> QED
      BY <3>1, <3>2
  <2>3. Bytewise(c, s, BytesOf(p)) /\ UpTo(c, s, k) \in Seq(BytesOf(p))
    BY <1>1, StreamTyped
  <2>4. UpTo(c, s, k + 1) = (IF k = 0 THEN PacketBytes(c, s, 1)
                             ELSE UpTo(c, s, k) \o PacketBytes(c, s, k + 1))
    BY <2>3, UpToGrows
  <2>5. PacketBytes(c, s, k + 1) \in Seq(BytesOf(p)) /\ Len(PacketBytes(c, s, k + 1)) = Size(s[k + 1])
    BY <1>1, PacketBytesIs
  <2>6. CASE k = 0
    <3>1. EndOf(c, s, k) = 0
      BY <2>6, EndOfIs
    <3> QED
      BY <2>2, <2>4, <2>6, <3>1
  <2>7. CASE k # 0
    <3>1. Len(UpTo(c, s, k)) = EndOf(c, s, k) /\ o \in 1..Len(PacketBytes(c, s, k + 1))
      BY <2>5 DEF EndOf
    <3>2. (UpTo(c, s, k) \o PacketBytes(c, s, k + 1))[Len(UpTo(c, s, k)) + o] = PacketBytes(c, s, k + 1)[o]
      BY ONLY <2>3, <2>5, <3>1
    <3> QED
      BY <2>2, <2>4, <2>7, <3>1, <3>2
  <2> QED
    BY <2>6, <2>7
<1> QED
  BY <1>4, <1>5

(* At the first byte of a packet the header says what the packet is.         *)
LEMMA HeadersAre ==
    ASSUME NEW p, NEW s \in Seq(Packets(p)), Len(s) <= MaxPackets, NEW c \in 1..MaxConnections,
           NEW i \in 1..Len(s), NEW b, Len(b) \in Nat, Len(b) >= 1,
           \A o \in 1..Size(s[i]) : o <= Len(b) => b[o] = PacketBytes(c, s, i)[o]
    PROVE  Headers(b) = {s[i]}
<1> DEFINE n == HeaderLength(b[1].packet.kind)
           m == IF Len(b) < n THEN Len(b) ELSE n
<1>1. s[i] \in Packets(p)
  OBVIOUS
<1>2. Size(s[i]) \in Nat /\ HeaderLength(s[i].kind) \in {1, 4} /\ HeaderLength(s[i].kind) <= Size(s[i])
  BY <1>1, PacketIs
<1>3. ASSUME NEW o \in 1..Size(s[i]), o <= Len(b)
      PROVE  b[o] = [conn |-> c, index |-> i, place |-> o, packet |-> s[i]]
  <2>1. PacketBytes(c, s, i)[o] = [conn |-> c, index |-> i, place |-> o, packet |-> s[i]]
    BY PacketBytesIs
  <2> QED
    BY <1>3, <2>1
<1>4. b[1] = [conn |-> c, index |-> i, place |-> 1, packet |-> s[i]]
  BY <1>2, <1>3
<1>5. n = HeaderLength(s[i].kind)
  BY <1>4
<1>6. \A o \in 1..m : b[o] = [b[1] EXCEPT !.place = o]
  <2> SUFFICES ASSUME NEW o \in 1..m PROVE b[o] = [b[1] EXCEPT !.place = o]
    OBVIOUS
  <2>1. o \in 1..Size(s[i]) /\ o <= Len(b)
    BY <1>2, <1>5
  <2>2. b[o] = [conn |-> c, index |-> i, place |-> o, packet |-> s[i]]
    BY <1>3, <2>1
  <2> QED
    BY <1>4, <2>2
<1>7. b[1].place = 1 /\ b[1].packet = s[i]
  BY <1>4
<1> QED
  BY <1>6, <1>7 DEF Headers

LEMMA HeadersTyped ==
    ASSUME NEW p, NEW b \in Seq(BytesOf(p)), Len(b) >= 1, NEW h \in Headers(b)
    PROVE  h.kind \in {"ack", "invalid", "short", "long"} /\ (h.kind # "invalid" => h \in Packets(p))
<1>1. b[1] \in BytesOf(p)
  OBVIOUS
<1>2. b[1].packet \in Packets(p)
  BY <1>1 DEF BytesOf
<1>3. CASE h = b[1].packet
  BY <1>2, <1>3, PacketIs
<1>4. CASE h \in Garbage
  <2>1. (CHOOSE x \in Bodies : TRUE) \in Bodies
    BY StreamAssumption
  <2> DEFINE body == CHOOSE x \in Bodies : TRUE
  <2>2. body \in Bodies
    BY <2>1
  <2>3. h = [kind |-> "ack", body |-> 0] \/ h = [kind |-> "invalid", body |-> 0]
        \/ h = [kind |-> "long", body |-> body]
    <3> HIDE DEF body
    <3>1. h \in {[kind |-> k, body |-> 0] : k \in {"ack", "invalid"}} \cup {[kind |-> "long", body |-> body]}
      BY <1>4 DEF Garbage, body
    <3> QED
      BY <3>1
  <2> HIDE DEF body
  <2>4. [kind |-> "long", body |-> body] \in
            [kind : IF p = "EF" THEN {"short", "long"} ELSE {"long"}, body : Bodies]
    BY <2>2
  <2> QED
    BY <2>3, <2>4 DEF Packets
<1> QED
  BY <1>3, <1>4 DEF Headers

-----------------------------------------------------------------------------
(* What the operations of a buffer do.                                       *)
LEMMA CapacityIs ==
    ASSUME NEW n \in Nat
    PROVE  Capacity(n) \in Nat /\ Capacity(n) >= n
<1>1. CASE ~\E c \in Classes : n <= c
  BY <1>1 DEF Capacity
<1>2. CASE \E c \in Classes : n <= c
  <2> DEFINE T == {c \in Classes : n <= c}
             R == OpToRel(<, Nat)
  <2>1. T \subseteq Nat /\ T # {}
    BY <1>2, StreamAssumption
  <2>2. IsWellFoundedOn(R, Nat)
    BY NatLessThanWellFounded
  <2>3. \E x \in T : \A y \in T : <<y, x>> \notin R
    <3> HIDE DEF R, T
    <3> QED
      BY <2>1, <2>2, WFMin
  <2>4. PICK x \in T : \A y \in T : <<y, x>> \notin R
    BY <2>3
  <2>5. \A d \in Classes : n <= d => x <= d
    <3> SUFFICES ASSUME NEW d \in Classes, n <= d PROVE x <= d
      OBVIOUS
    <3>1. d \in Nat /\ x \in Nat /\ d \in T
      BY <2>1, <2>4
    <3>2. <<d, x>> \notin R
      BY <2>4, <3>1
    <3>3. ~(d < x)
      BY <3>1, <3>2 DEF OpToRel
    <3> QED
      BY <3>1, <3>3
  <2>6. x \in Classes /\ n <= x
    BY <2>4
  <2> DEFINE c == CHOOSE c \in Classes : n <= c /\ \A d \in Classes : n <= d => c <= d
  <2>7. c \in Classes /\ n <= c
    BY <2>5, <2>6
  <2>8. Capacity(n) = c
    BY <1>2 DEF Capacity
  <2> HIDE DEF c
  <2> QED
    BY <2>7, <2>8, StreamAssumption
<1> QED
  BY <1>1, <1>2

LEMMA FreeBufferIs ==
    ASSUME NEW p, NEW n \in Nat
    PROVE  /\ FreeBuffer(n) \in Buffers(p) /\ Within(FreeBuffer(n))
           /\ FreeBuffer(n).bytes = <<>> /\ FreeBuffer(n).pos = 0 /\ FreeBuffer(n).lim = n
           /\ FreeBuffer(n).cap >= n
<1>1. Capacity(n) \in Nat /\ Capacity(n) >= n
  BY CapacityIs
<1>2. <<>> \in Seq(BytesOf(p))
  OBVIOUS
<1> QED
  BY <1>1, <1>2 DEF FreeBuffer, Buffers, Within

LEMMA PositionIs ==
    ASSUME NEW p, NEW b \in Buffers(p), NEW n \in Nat, n <= b.lim
    PROVE  /\ Position(b, n) \in Buffers(p) /\ (Within(b) => Within(Position(b, n)))
           /\ Position(b, n).bytes = b.bytes /\ Position(b, n).pos = n
           /\ Position(b, n).lim = b.lim /\ Position(b, n).cap = b.cap
  BY DEF Position, Buffers, Within

LEMMA RewindIs ==
    ASSUME NEW p, NEW b \in Buffers(p)
    PROVE  /\ Rewind(b) \in Buffers(p) /\ (Within(b) => Within(Rewind(b)))
           /\ Rewind(b).bytes = b.bytes /\ Rewind(b).pos = 0
           /\ Rewind(b).lim = b.lim /\ Rewind(b).cap = b.cap
  BY DEF Rewind, Buffers, Within

LEMMA LimitIs ==
    ASSUME NEW p, NEW b \in Buffers(p), NEW n \in Nat, n <= b.cap
    PROVE  /\ Limit(b, n) \in Buffers(p) /\ Within(Limit(b, n))
           /\ Limit(b, n).bytes = b.bytes /\ Limit(b, n).lim = n /\ Limit(b, n).cap = b.cap
           /\ Limit(b, n).pos = IF b.pos > n THEN n ELSE b.pos
<1>1. b.pos \in Nat /\ b.lim \in Nat /\ b.cap \in Nat /\ b.bytes \in Seq(BytesOf(p)) /\ ~(n > b.cap)
  BY DEF Buffers
<1>2. Limit(b, n) = [b EXCEPT !.lim = n, !.pos = IF b.pos > n THEN n ELSE b.pos]
  BY <1>1 DEF Limit
<1>3. (IF b.pos > n THEN n ELSE b.pos) \in Nat /\ (IF b.pos > n THEN n ELSE b.pos) <= n
  BY <1>1
<1> QED
  BY <1>1, <1>2, <1>3 DEF Buffers, Within

LEMMA RemainingIs ==
    ASSUME NEW p, NEW b \in Buffers(p), Within(b), Filled(b)
    PROVE  /\ Remaining(b) \in Seq(BytesOf(p)) /\ Len(Remaining(b)) = b.lim - b.pos
           /\ \A i \in 1..b.lim - b.pos : Remaining(b)[i] = b.bytes[b.pos + i]
<1>1. b.pos \in Nat /\ b.lim \in Nat /\ b.bytes \in Seq(BytesOf(p)) /\ b.pos <= b.lim /\ b.lim <= Len(b.bytes)
  BY DEF Buffers, Within, Filled
<1>2. Len(b.bytes) \in Nat
  BY <1>1
<1>3. SubSeq(b.bytes, b.pos + 1, b.lim) \in Seq(BytesOf(p))
  BY ONLY <1>1, <1>2
<1>4. Len(SubSeq(b.bytes, b.pos + 1, b.lim)) = b.lim - b.pos
  BY ONLY <1>1, <1>2
<1>5. \A i \in 1..b.lim - b.pos : SubSeq(b.bytes, b.pos + 1, b.lim)[i] = b.bytes[b.pos + i]
  BY ONLY <1>1, <1>2, SMTT(40)
<1> QED
  BY <1>3, <1>4, <1>5, SMTT(40) DEF Remaining

LEMMA WriteBytesIs ==
    ASSUME NEW p, NEW b \in Buffers(p), Within(b), b.pos <= Len(b.bytes),
           NEW x \in Seq(BytesOf(p)), b.pos + Len(x) <= b.lim
    PROVE  /\ WriteBytes(b, x) \in Buffers(p) /\ Within(WriteBytes(b, x))
           /\ WriteBytes(b, x).pos = b.pos + Len(x)
           /\ WriteBytes(b, x).lim = b.lim /\ WriteBytes(b, x).cap = b.cap
           /\ Len(WriteBytes(b, x).bytes) = b.pos + Len(x)
           /\ \A i \in 1..b.pos : WriteBytes(b, x).bytes[i] = b.bytes[i]
           /\ \A i \in 1..Len(x) : WriteBytes(b, x).bytes[b.pos + i] = x[i]
<1> DEFINE y == SubSeq(b.bytes, 1, b.pos)
<1>1. b.pos \in Nat /\ b.lim \in Nat /\ b.cap \in Nat /\ b.bytes \in Seq(BytesOf(p)) /\ Len(x) \in Nat
      /\ b.lim <= b.cap /\ b.pos <= Len(b.bytes) /\ ~(b.pos + Len(x) > b.lim)
  BY DEF Buffers, Within
<1>2. y \in Seq(BytesOf(p)) /\ Len(y) = b.pos /\ \A i \in 1..b.pos : y[i] = b.bytes[i]
  BY <1>1
<1>3. WriteBytes(b, x) = [b EXCEPT !.bytes = y \o x, !.pos = b.pos + Len(x)]
  BY <1>1 DEF WriteBytes
<1> HIDE DEF y
<1>4. y \o x \in Seq(BytesOf(p)) /\ Len(y \o x) = Len(y) + Len(x)
  BY ONLY <1>2, x \in Seq(BytesOf(p))
<1>5. \A i \in 1..Len(y) : (y \o x)[i] = y[i]
  BY ONLY <1>2, x \in Seq(BytesOf(p))
<1>6. \A i \in 1..Len(x) : (y \o x)[Len(y) + i] = x[i]
  BY ONLY <1>2, x \in Seq(BytesOf(p))
<1>7. WriteBytes(b, x).bytes = y \o x /\ WriteBytes(b, x).pos = b.pos + Len(x)
      /\ WriteBytes(b, x).lim = b.lim /\ WriteBytes(b, x).cap = b.cap
  BY <1>3 DEF Buffers
<1>8. WriteBytes(b, x) \in Buffers(p)
  <2>1. \A z \in Seq(BytesOf(p)), n \in Nat : [b EXCEPT !.bytes = z, !.pos = n] \in Buffers(p)
    BY DEF Buffers
  <2>2. b.pos + Len(x) \in Nat
    BY <1>1
  <2> QED
    BY <1>3, <1>4, <2>1, <2>2
<1>9. Within(WriteBytes(b, x))
  BY <1>1, <1>7 DEF Within
<1> QED
  BY <1>2, <1>4, <1>5, <1>6, <1>7, <1>8, <1>9

\* What AfterMessage makes of restOfTheData.
Moved(b) == Rewind(Limit(Compact(b), Compact(b).pos))

LEMMA MovedIs ==
    ASSUME NEW p, NEW b \in Buffers(p), Within(b), Filled(b)
    PROVE  /\ Moved(b) \in Buffers(p) /\ Within(Moved(b)) /\ Filled(Moved(b))
           /\ Moved(b).pos = 0 /\ Moved(b).cap = b.cap /\ Moved(b).lim <= b.lim
           /\ b.pos < b.lim => /\ Moved(b).lim = b.lim - b.pos
                               /\ \A i \in 1..b.lim - b.pos : Moved(b).bytes[i] = b.bytes[b.pos + i]
<1> DEFINE k == Compact(b)
           l == Limit(k, k.pos)
<1>1. b.pos \in Nat /\ b.lim \in Nat /\ b.cap \in Nat /\ b.bytes \in Seq(BytesOf(p))
      /\ b.pos <= b.lim /\ b.lim <= b.cap /\ b.lim <= Len(b.bytes) /\ Len(b.bytes) \in Nat
  BY DEF Buffers, Within, Filled
<1>2. Remaining(b) \in Seq(BytesOf(p)) /\ Len(Remaining(b)) = b.lim - b.pos
      /\ \A i \in 1..b.lim - b.pos : Remaining(b)[i] = b.bytes[b.pos + i]
  BY RemainingIs
<1>3. /\ k \in Buffers(p) /\ k.cap = b.cap /\ k.pos <= k.cap /\ k.pos <= b.lim /\ k.pos <= Len(k.bytes)
      /\ b.pos < b.lim => k.pos = b.lim - b.pos /\ k.bytes = Remaining(b)
  <2>1. CASE b.pos = b.lim
    BY <1>1, <2>1 DEF Compact
  <2>2. CASE b.pos # b.lim
    <3>1. k = [b EXCEPT !.bytes = Remaining(b), !.lim = b.cap, !.pos = b.lim - b.pos]
      BY <2>2 DEF Compact
    <3>2. b.lim - b.pos \in Nat /\ b.lim - b.pos <= b.cap /\ b.lim - b.pos <= b.lim
      BY ONLY <1>1
    <3> HIDE DEF k
    <3>3. k.bytes = Remaining(b) /\ k.pos = b.lim - b.pos /\ k.cap = b.cap
      BY <3>1 DEF Buffers
    <3>4. k \in Buffers(p)
      BY <1>1, <1>2, <3>1, <3>2 DEF Buffers
    <3> QED
      BY <1>1, <1>2, <3>2, <3>3, <3>4
  <2> QED
    BY <2>1, <2>2
<1> HIDE DEF k
<1>4. k.pos \in Nat
  BY <1>3 DEF Buffers
<1>5. l \in Buffers(p) /\ Within(l) /\ l.bytes = k.bytes /\ l.lim = k.pos /\ l.cap = k.cap
  BY <1>3, <1>4, LimitIs
<1>6. Moved(b) = Rewind(l)
  BY DEF Moved, k
<1> HIDE DEF l
<1>7. Rewind(l) \in Buffers(p) /\ Within(Rewind(l)) /\ Rewind(l).bytes = l.bytes
      /\ Rewind(l).pos = 0 /\ Rewind(l).lim = l.lim /\ Rewind(l).cap = l.cap
  BY <1>5, RewindIs
<1> QED
  BY <1>2, <1>3, <1>5, <1>6, <1>7 DEF Filled

-----------------------------------------------------------------------------
(* The buffers, action by action.                                            *)
Put(m, id, b) == [m EXCEPT ![id] = b]
Freed(m, r) == [id \in DOMAIN m |-> IF id = r THEN m[id] ELSE FreeBuffer(0)]
Owned(p, m) == m \in [Cells -> Buffers(p)] /\ \A id \in Cells : Within(m[id])

LEMMA ShapeWhenFreed ==
    ASSUME NEW p, NEW m, Owned(p, m), NEW r \in Kept \cup {None}, NEW l \in Nat,
           r # None => /\ m[r].pos <= Len(m[r].bytes)
                       /\ l = 0 => Filled(m[r])
                       /\ l # 0 => m[r].lim <= l
    PROVE  Shape(p, Freed(m, r), None, r, None, l)
<1>1. FreeBuffer(0) \in Buffers(p) /\ Within(FreeBuffer(0))
  BY FreeBufferIs
<1>2. Freed(m, r) = [id \in Cells |-> IF id = r THEN m[id] ELSE FreeBuffer(0)]
  BY DEF Freed, Owned
<1>3. Freed(m, r) \in [Cells -> Buffers(p)] /\ (\A id \in Cells : Within(Freed(m, r)[id]))
      /\ (r # None => Freed(m, r)[r] = m[r])
  BY <1>1, <1>2 DEF Owned, Cells
<1> QED
  BY <1>3 DEF Shape, Held, None, Net, Kept

LEMMA ShapeInLoop ==
    ASSUME NEW p, NEW m, Owned(p, m), NEW b \in Cells, NEW r \in Kept \cup {None}, NEW l \in Nat,
           NEW t \in {Net, None}, Filled(m[b]), b \in Kept /\ r # None => b = r,
           r # None => Filled(m[r]) /\ (l # 0 => m[r].lim <= l),
           t # None => b = r /\ r # None /\ Filled(m[Net])
    PROVE  Shape(p, m, b, r, t, l)
<1>1. r # None => m[r].pos <= Len(m[r].bytes)
  <2> SUFFICES ASSUME r # None PROVE m[r].pos <= Len(m[r].bytes)
    OBVIOUS
  <2>1. r \in Cells /\ m[r] \in Buffers(p) /\ Within(m[r]) /\ Filled(m[r])
    BY DEF Owned, Cells
  <2> QED
    BY <2>1 DEF Buffers, Within, Filled
<1> QED
  BY <1>1 DEF Shape, Held, Owned

LEMMA OwnedPut ==
    ASSUME NEW p, NEW m, Owned(p, m), NEW id \in Cells, NEW b \in Buffers(p), Within(b)
    PROVE  Owned(p, Put(m, id, b)) /\ Put(m, id, b)[id] = b
           /\ \A x \in Cells \ {id} : Put(m, id, b)[x] = m[x]
  BY DEF Owned, Put

LEMMA UnusedIs ==
    ASSUME rest \in Kept \cup {None}, buffer \in Kept /\ rest # None => buffer = rest
    PROVE  Unused \in Kept /\ Unused # rest /\ Unused # buffer /\ Unused # None
<1>1. \E id \in Kept : id # rest /\ id # buffer
  BY DEF Kept, None
<1> QED
  BY <1>1 DEF Unused, Kept, None

Now == Shape(protocol, mem, buffer, rest, later, last)
Then == Shape(protocol, mem', buffer', rest', later', last')

LEMMA NowIs ==
    ASSUME Now
    PROVE  /\ Owned(protocol, mem) /\ rest \in Kept \cup {None} /\ buffer \in Cells \cup {None}
           /\ later \in {Net, None} /\ last \in Nat
           /\ buffer \in Kept /\ rest # None => buffer = rest
           /\ buffer # None => buffer \in Cells /\ mem[buffer] \in Buffers(protocol) /\ Within(mem[buffer])
                               /\ Filled(mem[buffer])
           /\ rest # None => rest \in Kept /\ rest \in Cells /\ mem[rest] \in Buffers(protocol)
                             /\ Within(mem[rest]) /\ mem[rest].pos <= Len(mem[rest].bytes)
                             /\ (last = 0 \/ buffer # None => Filled(mem[rest]))
                             /\ (last # 0 => mem[rest].lim <= last)
           /\ later # None => buffer = rest /\ rest # None /\ Filled(mem[Net])
           /\ Net \in Cells /\ mem[Net] \in Buffers(protocol) /\ Within(mem[Net])
           /\ Net \notin Kept /\ None \notin Cells
<1>1. Owned(protocol, mem) /\ rest \in Kept \cup {None} /\ buffer \in Cells \cup {None}
      /\ later \in {Net, None} /\ last \in Nat /\ Held(mem, buffer, rest, later, last)
  BY DEF Now, Shape, Owned
<1>2. Net \in Cells /\ None \notin Cells /\ Net \notin Kept /\ Kept \subseteq Cells /\ None \notin Kept
  BY DEF Cells, Net, None, Kept
<1>3. \A id \in Cells : mem[id] \in Buffers(protocol) /\ Within(mem[id])
  BY <1>1 DEF Owned
<1>4. buffer # None => buffer \in Cells /\ mem[buffer] \in Buffers(protocol) /\ Within(mem[buffer])
                       /\ Filled(mem[buffer])
  BY <1>1, <1>2, <1>3 DEF Held
<1>5. rest # None => rest \in Kept /\ rest \in Cells /\ mem[rest] \in Buffers(protocol)
                     /\ Within(mem[rest]) /\ mem[rest].pos <= Len(mem[rest].bytes)
                     /\ (last = 0 \/ buffer # None => Filled(mem[rest]))
                     /\ (last # 0 => mem[rest].lim <= last)
  BY <1>1, <1>2, <1>3 DEF Held
<1>6. (buffer \in Kept /\ rest # None => buffer = rest)
      /\ (later # None => buffer = rest /\ rest # None /\ Filled(mem[Net]))
  BY <1>1 DEF Held
<1> QED
  BY <1>1, <1>2, <1>3, <1>4, <1>5, <1>6

LEMMA DropsKeepShape ==
    ASSUME Now, Return(mem, None), rest' = None, last' = 0
    PROVE  Then
<1>1. Shape(protocol, Freed(mem, None), None, None, None, 0)
  <2>1. Owned(protocol, mem)
    BY NowIs
  <2> QED
    BY <2>1, ShapeWhenFreed
<1> QED
  BY <1>1 DEF Return, Freed, Then

LEMMA LoopEndsKeepsShape ==
    ASSUME Now, LoopEnds
    PROVE  Then
<1>1. buffer # None /\ Return(mem, rest) /\ rest' = rest /\ last' = last
  BY DEF LoopEnds
<1>2. Shape(protocol, Freed(mem, rest), None, rest, None, last)
  <2>1. Owned(protocol, mem) /\ rest \in Kept \cup {None} /\ last \in Nat
    BY NowIs
  <2>2. rest # None => /\ mem[rest].pos <= Len(mem[rest].bytes)
                       /\ (last = 0 => Filled(mem[rest])) /\ (last # 0 => mem[rest].lim <= last)
    BY <1>1, NowIs
  <2> QED
    BY <2>1, <2>2, ShapeWhenFreed
<1> QED
  BY <1>1, <1>2 DEF Return, Freed, Then

LEMMA ParsingIs ==
    ASSUME Now, Parsing
    PROVE  /\ buffer \in Cells /\ buffer # None
           /\ mem[buffer].pos \in Nat /\ mem[buffer].lim \in Nat /\ mem[buffer].pos < mem[buffer].lim
           /\ Remaining(mem[buffer]) \in Seq(BytesOf(protocol))
           /\ Len(Remaining(mem[buffer])) = mem[buffer].lim - mem[buffer].pos
           /\ Len(Remaining(mem[buffer])) \in Nat /\ Len(Remaining(mem[buffer])) >= 1
           /\ \A h \in Headers(Remaining(mem[buffer])) :
                  /\ h.kind \in {"ack", "invalid", "short", "long"}
                  /\ h.kind # "invalid" => h \in Packets(protocol)
<1>1. buffer # None /\ mem[buffer].pos < mem[buffer].lim
  BY DEF Parsing, HasRemaining
<1>2. buffer \in Cells /\ mem[buffer] \in Buffers(protocol) /\ Within(mem[buffer]) /\ Filled(mem[buffer])
  BY <1>1, NowIs
<1>3. mem[buffer].pos \in Nat /\ mem[buffer].lim \in Nat
  BY <1>2 DEF Buffers
<1>4. Remaining(mem[buffer]) \in Seq(BytesOf(protocol))
      /\ Len(Remaining(mem[buffer])) = mem[buffer].lim - mem[buffer].pos
  BY <1>2, RemainingIs
<1>5. Len(Remaining(mem[buffer])) \in Nat /\ Len(Remaining(mem[buffer])) >= 1
  BY <1>1, <1>3, <1>4
<1>6. \A h \in Headers(Remaining(mem[buffer])) :
          h.kind \in {"ack", "invalid", "short", "long"} /\ (h.kind # "invalid" => h \in Packets(protocol))
  BY <1>4, <1>5, HeadersTyped
<1> QED
  BY <1>1, <1>2, <1>3, <1>4, <1>5, <1>6

\* The buffers once z bytes of the one in the loop have been consumed.
Consumed(m, b, z) == [m EXCEPT ![b] = Position(@, @.pos + z)]

LEMMA ConsumedIs ==
    ASSUME Now, Parsing, NEW z \in Nat, z <= Len(Remaining(mem[buffer])),
           NEW m, m = Consumed(mem, buffer, z)
    PROVE  /\ Owned(protocol, m)
           /\ m[buffer].bytes = mem[buffer].bytes /\ m[buffer].pos = mem[buffer].pos + z
           /\ m[buffer].lim = mem[buffer].lim /\ m[buffer].cap = mem[buffer].cap
           /\ \A x \in Cells \ {buffer} : m[x] = mem[x]
           /\ Filled(m[buffer])
           /\ rest # None => Filled(m[rest]) /\ (last # 0 => m[rest].lim <= last)
           /\ later # None => m[Net] = mem[Net] /\ Filled(m[Net])
<1> DEFINE b == Position(mem[buffer], mem[buffer].pos + z)
<1>1. Owned(protocol, mem) /\ buffer \in Cells /\ buffer # None /\ mem[buffer] \in Buffers(protocol)
      /\ Within(mem[buffer]) /\ Filled(mem[buffer])
  BY NowIs, ParsingIs
<1>2. mem[buffer].pos + z \in Nat /\ mem[buffer].pos + z <= mem[buffer].lim
  BY ParsingIs
<1>3. b \in Buffers(protocol) /\ Within(b) /\ b.bytes = mem[buffer].bytes
      /\ b.pos = mem[buffer].pos + z /\ b.lim = mem[buffer].lim /\ b.cap = mem[buffer].cap
  BY <1>1, <1>2, PositionIs
<1>4. m = Put(mem, buffer, b)
  BY DEF Consumed, Put
<1> HIDE DEF b
<1>5. Owned(protocol, m) /\ m[buffer] = b /\ \A x \in Cells \ {buffer} : m[x] = mem[x]
  BY <1>1, <1>3, <1>4, OwnedPut
<1>6. Filled(m[buffer])
  BY <1>1, <1>3, <1>5 DEF Filled
<1>7. rest # None => Filled(m[rest]) /\ (last # 0 => m[rest].lim <= last)
  <2> SUFFICES ASSUME rest # None PROVE Filled(m[rest]) /\ (last # 0 => m[rest].lim <= last)
    OBVIOUS
  <2>1. rest \in Cells /\ Filled(mem[rest]) /\ (last # 0 => mem[rest].lim <= last)
    BY <1>1, NowIs
  <2> QED
    BY <1>3, <1>5, <1>6, <2>1
<1>8. later # None => m[Net] = mem[Net] /\ Filled(m[Net])
  <2> SUFFICES ASSUME later # None PROVE m[Net] = mem[Net] /\ Filled(m[Net])
    OBVIOUS
  <2>1. Net \in Cells \ {buffer} /\ Filled(mem[Net])
    BY NowIs
  <2> QED
    BY <1>5, <2>1
<1> QED
  BY <1>3, <1>5, <1>6, <1>7, <1>8

LEMMA QuickAckKeepsShape ==
    ASSUME Now, QuickAck
    PROVE  Then
<1>1. Parsing /\ mem' = Consumed(mem, buffer, 4) /\ 4 <= Len(Remaining(mem[buffer]))
      /\ buffer' = buffer /\ rest' = rest /\ later' = later /\ last' = last
  <2>1. PICK h \in Headers(Remaining(mem[buffer])) :
            Len(Remaining(mem[buffer])) >= 4 /\ mem' = [mem EXCEPT ![buffer] = Position(@, @.pos + 4)]
    BY DEF QuickAck
  <2>2. Len(Remaining(mem[buffer])) \in Nat
    BY ParsingIs DEF QuickAck
  <2> QED
    BY <2>1, <2>2 DEF QuickAck, Consumed
<1>2. PICK m : m = Consumed(mem, buffer, 4)
  OBVIOUS
<1>3. /\ Owned(protocol, m) /\ Filled(m[buffer])
      /\ rest # None => Filled(m[rest]) /\ (last # 0 => m[rest].lim <= last)
      /\ later # None => Filled(m[Net])
  BY <1>1, <1>2, ConsumedIs
<1>4. /\ buffer \in Cells /\ rest \in Kept \cup {None} /\ last \in Nat /\ later \in {Net, None}
      /\ (buffer \in Kept /\ rest # None => buffer = rest) /\ (later # None => buffer = rest /\ rest # None)
  BY <1>1, NowIs, ParsingIs
<1>5. Shape(protocol, m, buffer, rest, later, last)
  BY <1>3, <1>4, ShapeInLoop
<1> QED
  BY <1>1, <1>2, <1>5 DEF Then

\* A new buffer for what is kept, of a header or of a packet of len bytes.
HeaderKept(left) == LET w == WriteBytes(FreeBuffer(Roomy), left) IN Limit(w, w.pos)
PacketKept(len, left) == WriteBytes(FreeBuffer(len), left)

LEMMA PacketKeptIs ==
    ASSUME NEW p, NEW len \in Nat, NEW left \in Seq(BytesOf(p)), Len(left) <= len
    PROVE  /\ PacketKept(len, left) \in Buffers(p) /\ Within(PacketKept(len, left))
           /\ PacketKept(len, left).pos = Len(left) /\ PacketKept(len, left).lim = len
           /\ PacketKept(len, left).cap >= len
           /\ Len(PacketKept(len, left).bytes) = Len(left)
           /\ \A i \in 1..Len(left) : PacketKept(len, left).bytes[i] = left[i]
<1> DEFINE f == FreeBuffer(len)
<1>1. f \in Buffers(p) /\ Within(f) /\ f.bytes = <<>> /\ f.pos = 0 /\ f.lim = len /\ f.cap >= len
  BY FreeBufferIs
<1>2. PacketKept(len, left) = WriteBytes(f, left)
  BY DEF PacketKept
<1> HIDE DEF f
<1>3. Len(<<>>) = 0 /\ Len(left) \in Nat /\ 0 + Len(left) = Len(left) /\ \A i \in 1..Len(left) : 0 + i = i
  OBVIOUS
<1>4. f.pos <= Len(f.bytes) /\ f.pos + Len(left) <= f.lim
  BY <1>1, <1>3
<1>5. /\ WriteBytes(f, left) \in Buffers(p) /\ Within(WriteBytes(f, left))
      /\ WriteBytes(f, left).pos = f.pos + Len(left)
      /\ WriteBytes(f, left).lim = f.lim /\ WriteBytes(f, left).cap = f.cap
      /\ Len(WriteBytes(f, left).bytes) = f.pos + Len(left)
      /\ \A i \in 1..Len(left) : WriteBytes(f, left).bytes[f.pos + i] = left[i]
  BY <1>1, <1>4, WriteBytesIs
<1> QED
  BY <1>1, <1>2, <1>3, <1>5

LEMMA HeaderKeptIs ==
    ASSUME NEW p, NEW left \in Seq(BytesOf(p)), Len(left) < 4
    PROVE  /\ HeaderKept(left) \in Buffers(p) /\ Within(HeaderKept(left)) /\ Filled(HeaderKept(left))
           /\ HeaderKept(left).pos = Len(left) /\ HeaderKept(left).lim = Len(left)
           /\ HeaderKept(left).cap >= 4
           /\ \A i \in 1..Len(left) : HeaderKept(left).bytes[i] = left[i]
<1> DEFINE w == PacketKept(Roomy, left)
<1>1. Len(left) \in Nat /\ Len(left) <= Roomy /\ Roomy \in Nat /\ Roomy >= 4
  BY StreamAssumption
<1>2. w \in Buffers(p) /\ Within(w) /\ w.pos = Len(left) /\ w.lim = Roomy /\ w.cap >= Roomy
      /\ Len(w.bytes) = Len(left) /\ \A i \in 1..Len(left) : w.bytes[i] = left[i]
  BY <1>1, PacketKeptIs
<1>3. HeaderKept(left) = Limit(w, w.pos)
  BY DEF HeaderKept, PacketKept
<1> HIDE DEF w
<1>4. w.pos \in Nat /\ w.pos <= w.cap /\ ~(w.pos > w.pos) /\ w.cap \in Nat
  BY <1>1, <1>2 DEF Buffers
<1>5. /\ Limit(w, w.pos) \in Buffers(p) /\ Within(Limit(w, w.pos)) /\ Limit(w, w.pos).bytes = w.bytes
      /\ Limit(w, w.pos).lim = w.pos /\ Limit(w, w.pos).cap = w.cap
      /\ Limit(w, w.pos).pos = IF w.pos > w.pos THEN w.pos ELSE w.pos
  BY <1>2, <1>4, LimitIs
<1> QED
  BY <1>1, <1>2, <1>3, <1>4, <1>5 DEF Filled

LEMMA KeepHeaderKeepsShape ==
    ASSUME Now, KeepHeader
    PROVE  Then
<1> DEFINE left == Remaining(mem[buffer])
           kept == HeaderKept(left)
<1>1. Parsing
  BY DEF KeepHeader
<1>2. left \in Seq(BytesOf(protocol)) /\ Len(left) \in Nat /\ buffer # None /\ buffer \in Cells
  BY <1>1, ParsingIs
<1>3. Owned(protocol, mem) /\ rest \in Kept \cup {None} /\ last \in Nat
  BY NowIs
<1> HIDE DEF left
<1>4. CASE Len(left) < 4 /\ rest' = Unused /\ last' = 0 /\ Return([mem EXCEPT ![Unused] = kept], Unused)
  <2>1. Unused \in Kept /\ Unused \in Cells /\ Unused # None
    BY NowIs, UnusedIs DEF Cells
  <2>2. kept \in Buffers(protocol) /\ Within(kept) /\ Filled(kept) /\ kept.pos = Len(left) /\ kept.lim = Len(left)
    BY <1>2, <1>4, HeaderKeptIs
  <2> HIDE DEF kept
  <2>3. PICK u, m : u = Unused /\ m = Put(mem, u, kept)
    OBVIOUS
  <2>4. Owned(protocol, m) /\ m[u] = kept
    BY <1>3, <2>1, <2>2, <2>3, OwnedPut
  <2>5. Shape(protocol, Freed(m, u), None, u, None, 0)
    <3>1. m[u].pos <= Len(m[u].bytes) /\ Filled(m[u])
      BY <1>2, <2>2, <2>4 DEF Filled
    <3> QED
      BY <2>1, <2>3, <2>4, <3>1, ShapeWhenFreed
  <2> QED
    BY <1>4, <2>3, <2>5 DEF Return, Freed, Then, Put
<1>5. CASE /\ rest # None /\ rest' = rest /\ last' = last
           /\ Return([mem EXCEPT ![rest] = Position(@, @.lim)], rest)
  <2> DEFINE b == Position(mem[rest], mem[rest].lim)
  <2>1. rest \in Cells /\ mem[rest] \in Buffers(protocol) /\ Within(mem[rest]) /\ Filled(mem[rest])
        /\ (last # 0 => mem[rest].lim <= last)
    BY <1>2, <1>5, NowIs
  <2>2. mem[rest].lim \in Nat
    BY <2>1 DEF Buffers
  <2>3. b \in Buffers(protocol) /\ Within(b) /\ b.bytes = mem[rest].bytes /\ b.pos = mem[rest].lim
        /\ b.lim = mem[rest].lim
    BY <2>1, <2>2, PositionIs
  <2>4. PICK m : m = Put(mem, rest, b)
    OBVIOUS
  <2> HIDE DEF b
  <2>5. Owned(protocol, m) /\ m[rest] = b
    BY <1>3, <2>1, <2>3, <2>4, OwnedPut
  <2>6. Shape(protocol, Freed(m, rest), None, rest, None, last)
    <3>1. m[rest].pos <= Len(m[rest].bytes) /\ Filled(m[rest]) /\ (last # 0 => m[rest].lim <= last)
      BY <2>1, <2>3, <2>5 DEF Filled
    <3> QED
      BY <1>3, <2>5, <3>1, ShapeWhenFreed
  <2> QED
    BY <1>5, <2>4, <2>6 DEF Return, Freed, Then, Put, b
<1> QED
  BY <1>4, <1>5 DEF KeepHeader, left, HeaderKept

LEMMA KeepPacketKeepsShape ==
    ASSUME Now, KeepPacket
    PROVE  Then
<1> DEFINE left == Remaining(mem[buffer])
<1>1. Parsing
  BY DEF KeepPacket
<1>2. left \in Seq(BytesOf(protocol)) /\ Len(left) \in Nat /\ buffer # None /\ buffer \in Cells
  BY <1>1, ParsingIs
<1>3. Owned(protocol, mem) /\ rest \in Kept \cup {None} /\ last \in Nat
  BY NowIs
<1>4. PICK h \in Headers(left) :
          /\ h.kind \in {"short", "long"} /\ Len(left) < Size(h) /\ last' = Size(h)
          /\ IF rest = None \/ mem[rest].cap < Size(h)
             THEN /\ rest' = Unused
                  /\ Return([mem EXCEPT ![Unused] = WriteBytes(FreeBuffer(Size(h)), left)], Unused)
             ELSE /\ rest' = rest
                  /\ Return([mem EXCEPT ![rest] = Limit(Position(@, @.lim), Size(h))], rest)
  BY DEF KeepPacket
<1> DEFINE len == Size(h)
<1>5. len \in Nat /\ len # 0
  <2>1. h \in Packets(protocol)
    BY <1>1, <1>4, ParsingIs
  <2> QED
    BY <1>2, <1>4, <2>1, PacketIs
<1> HIDE DEF left, len
<1>6. CASE rest = None \/ mem[rest].cap < len
  <2> DEFINE w == PacketKept(len, left)
  <2>1. Unused \in Kept /\ Unused \in Cells /\ Unused # None
    BY NowIs, UnusedIs DEF Cells
  <2>2. Len(left) <= len
    BY <1>2, <1>4, <1>5 DEF len
  <2>3. w \in Buffers(protocol) /\ Within(w) /\ w.pos = Len(left) /\ w.lim = len /\ Len(w.bytes) = Len(left)
    BY <1>2, <1>5, <2>2, PacketKeptIs
  <2>4. PICK u, m : u = Unused /\ m = Put(mem, u, w)
    OBVIOUS
  <2>5. rest' = u /\ last' = len /\ Return(m, u)
    BY <1>4, <1>6, <2>4 DEF Put, PacketKept, len
  <2> HIDE DEF w
  <2>6. Owned(protocol, m) /\ m[u] = w
    BY <1>3, <2>1, <2>3, <2>4, OwnedPut
  <2>7. Shape(protocol, Freed(m, u), None, u, None, len)
    <3>1. m[u].pos <= Len(m[u].bytes) /\ m[u].lim <= len
      BY <1>2, <1>5, <2>3, <2>6
    <3> QED
      BY <1>5, <2>1, <2>4, <2>6, <3>1, ShapeWhenFreed
  <2> QED
    BY <2>5, <2>7 DEF Return, Freed, Then
<1>7. CASE ~(rest = None \/ mem[rest].cap < len)
  <2> DEFINE b == Position(mem[rest], mem[rest].lim)
             l == Limit(b, len)
  <2>1. rest \in Cells /\ mem[rest] \in Buffers(protocol) /\ Within(mem[rest]) /\ Filled(mem[rest])
    BY <1>2, <1>7, NowIs
  <2>2. mem[rest].lim \in Nat /\ mem[rest].cap \in Nat /\ mem[rest].bytes \in Seq(BytesOf(protocol))
        /\ Len(mem[rest].bytes) \in Nat
    BY <2>1 DEF Buffers
  <2>3. b \in Buffers(protocol) /\ Within(b) /\ b.bytes = mem[rest].bytes /\ b.pos = mem[rest].lim
        /\ b.cap = mem[rest].cap
    BY <2>1, <2>2, PositionIs
  <2> HIDE DEF b
  <2>4. len <= b.cap
    BY <1>5, <1>7, <2>2, <2>3
  <2>5. l \in Buffers(protocol) /\ Within(l) /\ l.bytes = b.bytes /\ l.lim = len
        /\ l.pos = IF b.pos > len THEN len ELSE b.pos
    BY <1>5, <2>3, <2>4, LimitIs
  <2> HIDE DEF l
  <2>6. PICK m : m = Put(mem, rest, l)
    OBVIOUS
  <2>7. Owned(protocol, m) /\ m[rest] = l
    BY <1>3, <2>1, <2>5, <2>6, OwnedPut
  <2>8. Shape(protocol, Freed(m, rest), None, rest, None, len)
    <3>1. m[rest].pos <= Len(m[rest].bytes) /\ m[rest].lim <= len
      BY <1>5, <2>1, <2>2, <2>3, <2>5, <2>7 DEF Filled
    <3> QED
      BY <1>3, <1>5, <2>7, <3>1, ShapeWhenFreed
  <2>9. rest' = rest /\ last' = len /\ Return(m, rest)
    BY <1>4, <1>7, <2>6 DEF Put, b, l, len
  <2> QED
    BY <2>8, <2>9 DEF Return, Freed, Then
<1> QED
  BY <1>6, <1>7

\* The header of a message, and the buffers when it has been taken.
LEMMA TakenIs ==
    ASSUME Now, Parsing, NEW h \in Headers(Remaining(mem[buffer])), h.kind \in {"short", "long"},
           Len(Remaining(mem[buffer])) >= Size(h)
    PROVE  h \in Packets(protocol) /\ Size(h) \in Nat /\ Size(h) <= Len(Remaining(mem[buffer]))
<1>1. h \in Packets(protocol) /\ Len(Remaining(mem[buffer])) \in Nat
  BY ParsingIs
<1>2. Size(h) \in Nat
  BY <1>1, PacketIs
<1> QED
  BY <1>1, <1>2

LEMMA MessageKeepsShape ==
    ASSUME Now, Message
    PROVE  Then
<1>1. Parsing /\ last' = last
  BY DEF Message
<1>2. PICK h \in Headers(Remaining(mem[buffer])) :
          /\ h.kind \in {"short", "long"} /\ Len(Remaining(mem[buffer])) >= Size(h)
          /\ AfterMessage([mem EXCEPT ![buffer] = Position(@, @.pos + Size(h))])
  BY DEF Message
<1>3. Size(h) \in Nat /\ Size(h) <= Len(Remaining(mem[buffer]))
  BY <1>1, <1>2, TakenIs
<1>4. PICK m : m = Consumed(mem, buffer, Size(h))
  OBVIOUS
<1>5. AfterMessage(m)
  BY <1>2, <1>4 DEF Consumed
<1>6. /\ Owned(protocol, m) /\ Filled(m[buffer])
      /\ rest # None => Filled(m[rest]) /\ (last # 0 => m[rest].lim <= last)
      /\ later # None => m[Net] = mem[Net] /\ Filled(m[Net])
  BY <1>1, <1>3, <1>4, ConsumedIs
<1>7. /\ buffer \in Cells /\ rest \in Kept \cup {None} /\ last \in Nat /\ later \in {Net, None}
      /\ (buffer \in Kept /\ rest # None => buffer = rest) /\ (later # None => buffer = rest /\ rest # None)
      /\ Net \in Cells /\ Net \notin Kept
  BY <1>1, NowIs, ParsingIs
<1>8. buffer' \in Cells /\ later' = None /\ buffer' = (IF later # None THEN later ELSE buffer)
  BY <1>5, <1>7 DEF AfterMessage
<1>9. CASE rest' = None /\ mem' = m
  <2>1. Filled(m[buffer'])
    BY <1>6, <1>7, <1>8
  <2>2. PICK b : b = buffer'
    OBVIOUS
  <2>3. Shape(protocol, m, b, None, None, last)
    BY <1>6, <1>7, <1>8, <2>1, <2>2, ShapeInLoop
  <2> QED
    BY <1>1, <1>8, <1>9, <2>2, <2>3 DEF Then
<1>10. CASE rest # None /\ rest' = rest /\ mem' = [m EXCEPT ![rest] = Moved(m[rest])]
  <2>1. rest \in Cells /\ m[rest] \in Buffers(protocol) /\ Within(m[rest]) /\ Filled(m[rest])
    BY <1>6, <1>7, <1>10 DEF Owned, Cells
  <2>2. Moved(m[rest]) \in Buffers(protocol) /\ Within(Moved(m[rest])) /\ Filled(Moved(m[rest]))
        /\ Moved(m[rest]).lim <= m[rest].lim
    BY <2>1, MovedIs
  <2>3. PICK b, w, n : b = buffer' /\ w = Moved(m[rest]) /\ n = Put(m, rest, w)
    OBVIOUS
  <2>4. Owned(protocol, n) /\ n[rest] = w /\ \A x \in Cells \ {rest} : n[x] = m[x]
    BY <1>6, <2>1, <2>2, <2>3, OwnedPut
  <2>5. Filled(n[rest]) /\ (last # 0 => n[rest].lim <= last)
    <3>1. w.lim \in Nat /\ m[rest].lim \in Nat
      BY <2>1, <2>2, <2>3 DEF Buffers
    <3> QED
      BY <1>6, <1>7, <1>10, <2>2, <2>3, <2>4, <3>1
  <2>6. Filled(n[b]) /\ b \in Cells /\ (b \in Kept => b = rest)
    BY <1>6, <1>7, <1>8, <1>10, <2>3, <2>4, <2>5
  <2>7. Shape(protocol, n, b, rest, None, last)
    BY <1>7, <2>4, <2>5, <2>6, ShapeInLoop
  <2> QED
    BY <1>1, <1>8, <1>10, <2>3, <2>7 DEF Then, Put
<1> QED
  BY <1>5, <1>9, <1>10 DEF AfterMessage, Moved

LEMMA MessageReconnectsKeepsShape ==
    ASSUME Now, MessageReconnects
    PROVE  Then
<1>1. Parsing /\ rest' = None /\ last' = 0 /\ later' = None
      /\ buffer' = (IF later # None THEN later ELSE buffer)
  BY DEF MessageReconnects, Reconnect
<1>2. PICK h \in Headers(Remaining(mem[buffer])) :
          /\ h.kind \in {"short", "long"} /\ Len(Remaining(mem[buffer])) >= Size(h)
          /\ mem' = [mem EXCEPT ![buffer] = Position(@, @.pos + Size(h))]
  BY DEF MessageReconnects
<1>3. Size(h) \in Nat /\ Size(h) <= Len(Remaining(mem[buffer]))
  BY <1>1, <1>2, TakenIs
<1>4. PICK m, b : m = Consumed(mem, buffer, Size(h)) /\ b = buffer'
  OBVIOUS
<1>5. /\ Owned(protocol, m) /\ Filled(m[buffer])
      /\ later # None => m[Net] = mem[Net] /\ Filled(m[Net])
  BY <1>1, <1>3, <1>4, ConsumedIs
<1>6. buffer \in Cells /\ later \in {Net, None} /\ Net \in Cells
  BY <1>1, NowIs, ParsingIs
<1>7. b \in Cells /\ Filled(m[b])
  BY <1>1, <1>4, <1>5, <1>6
<1>8. Shape(protocol, m, b, None, None, 0)
  BY <1>5, <1>7, ShapeInLoop
<1> QED
  BY <1>1, <1>2, <1>4, <1>8 DEF Then, Consumed

-----------------------------------------------------------------------------
(* A read, and what joining it to the kept bytes does.                       *)
Read(n) == [bytes |-> SubSeq(StreamBytes(conn, stream), arrived + 1, arrived + n),
            pos |-> 0, lim |-> n, cap |-> MaxChunk]
IsRead(p, net) == /\ net \in Buffers(p) /\ Within(net) /\ Filled(net)
                  /\ net.pos = 0 /\ Len(net.bytes) = net.lim

LEMMA StreamNow ==
    ASSUME Typed
    PROVE  /\ stream \in Seq(Packets(protocol)) /\ Len(stream) <= MaxPackets /\ Len(stream) \in Nat
           /\ conn \in 1..MaxConnections
           /\ StreamBytes(conn, stream) \in Seq(BytesOf(protocol))
           /\ Len(StreamBytes(conn, stream)) \in Nat
<1>1. stream \in Seq(Packets(protocol)) /\ Len(stream) \in 1..MaxPackets
  BY StreamIs, StreamAssumption DEF Typed
<1>2. conn \in 1..MaxConnections
  BY DEF Typed
<1>3. Len(stream) <= MaxPackets /\ Len(stream) \in Nat
  BY <1>1, StreamAssumption
<1>4. StreamBytes(conn, stream) \in Seq(BytesOf(protocol))
  BY <1>1, <1>2, <1>3, StreamTyped
<1> QED
  BY <1>1, <1>2, <1>3, <1>4

LEMMA ReadIs ==
    ASSUME Typed, NEW n \in 1..MaxChunk, arrived + n <= Len(StreamBytes(conn, stream))
    PROVE  /\ IsRead(protocol, Read(n)) /\ Read(n).lim = n /\ n \in Nat /\ arrived \in Nat
           /\ \A i \in 1..n : Read(n).bytes[i] = StreamBytes(conn, stream)[arrived + i]
<1> DEFINE bytes == SubSeq(StreamBytes(conn, stream), arrived + 1, arrived + n)
<1>1. StreamBytes(conn, stream) \in Seq(BytesOf(protocol)) /\ Len(StreamBytes(conn, stream)) \in Nat
  BY StreamNow
<1>2. arrived \in Nat /\ n \in Nat /\ n >= 1 /\ n <= MaxChunk /\ MaxChunk \in Nat
      /\ arrived + n <= Len(StreamBytes(conn, stream))
  BY <1>1, StreamAssumption DEF Typed
<1>3. bytes \in Seq(BytesOf(protocol))
  BY ONLY <1>1, <1>2
<1>4. Len(bytes) = n
  BY ONLY <1>1, <1>2
<1>5. \A i \in 1..n : bytes[i] = StreamBytes(conn, stream)[arrived + i]
  BY ONLY <1>1, <1>2
<1> HIDE DEF bytes
<1>6. Read(n) = [bytes |-> bytes, pos |-> 0, lim |-> n, cap |-> MaxChunk]
  BY DEF Read, bytes
<1>7. Read(n) \in Buffers(protocol)
  BY <1>2, <1>3, <1>6 DEF Buffers
<1>8. IsRead(protocol, Read(n))
  BY <1>2, <1>4, <1>6, <1>7 DEF IsRead, Within, Filled
<1> QED
  BY <1>2, <1>5, <1>6, <1>8

LEMMA JoinHeaderDoes ==
    ASSUME Now, buffer = None, rest # None, last = 0, NEW net, IsRead(protocol, net), JoinHeader(net)
    PROVE  /\ rest' \in Kept /\ buffer' = rest' /\ later' = None /\ Owned(protocol, mem')
           /\ Filled(mem'[rest']) /\ mem'[rest'].pos = 0 /\ mem'[rest'].cap >= mem[rest].cap
           /\ mem[rest].lim = mem[rest].pos =>
                /\ mem'[rest'].lim = mem[rest].pos + net.lim
                /\ \A i \in 1..mem[rest].pos : mem'[rest'].bytes[i] = mem[rest].bytes[i]
                /\ \A i \in 1..net.lim : mem'[rest'].bytes[mem[rest].pos + i] = net.bytes[i]
<1> DEFINE r == mem[rest]
           n == net.lim
           x == Remaining(net)
<1>1. Owned(protocol, mem) /\ rest \in Kept /\ rest \in Cells /\ r \in Buffers(protocol) /\ Within(r) /\ Filled(r)
  BY NowIs
<1>2. r.pos \in Nat /\ r.lim \in Nat /\ r.cap \in Nat /\ r.pos <= r.lim /\ r.lim <= r.cap /\ r.bytes \in Seq(BytesOf(protocol))
      /\ r.lim <= Len(r.bytes) /\ Len(r.bytes) \in Nat /\ n \in Nat
  BY <1>1 DEF IsRead, Buffers, Within, Filled
<1>3. x \in Seq(BytesOf(protocol)) /\ Len(x) = n /\ \A i \in 1..n : x[i] = net.bytes[i]
  <2>1. net \in Buffers(protocol) /\ Within(net) /\ Filled(net) /\ net.pos = 0
    BY DEF IsRead
  <2>2. x \in Seq(BytesOf(protocol)) /\ Len(x) = net.lim - net.pos
        /\ \A i \in 1..net.lim - net.pos : x[i] = net.bytes[net.pos + i]
    BY <2>1, RemainingIs
  <2> QED
    BY <1>2, <2>1, <2>2
<1> HIDE DEF x
<1>4. CASE r.cap - r.pos >= n
  <2> DEFINE l == Limit(r, r.pos + n)
             w == WriteBytes(l, x)
             z == Rewind(w)
  <2>1. r.pos + n \in Nat /\ r.pos + n <= r.cap /\ ~(r.pos > r.pos + n)
    BY <1>2, <1>4
  <2>2. l \in Buffers(protocol) /\ Within(l) /\ l.bytes = r.bytes /\ l.lim = r.pos + n /\ l.cap = r.cap
        /\ l.pos = IF r.pos > r.pos + n THEN r.pos + n ELSE r.pos
    BY <1>1, <2>1, LimitIs
  <2> HIDE DEF l
  <2>3. l.pos = r.pos /\ l.pos <= Len(l.bytes) /\ l.pos + Len(x) <= l.lim
    BY <1>2, <1>3, <2>1, <2>2
  <2>4. w \in Buffers(protocol) /\ Within(w) /\ w.lim = l.lim /\ w.cap = l.cap
        /\ Len(w.bytes) = l.pos + Len(x)
        /\ (\A i \in 1..l.pos : w.bytes[i] = l.bytes[i]) /\ (\A i \in 1..Len(x) : w.bytes[l.pos + i] = x[i])
    BY <1>3, <2>2, <2>3, WriteBytesIs
  <2> HIDE DEF w
  <2>5. z \in Buffers(protocol) /\ Within(z) /\ z.bytes = w.bytes /\ z.pos = 0 /\ z.lim = w.lim /\ z.cap = w.cap
    BY <2>4, RewindIs
  <2> HIDE DEF z
  <2>6. mem' = Put(mem, rest, z) /\ buffer' = rest /\ rest' = rest /\ later' = None
    BY <1>4 DEF JoinHeader, Put, z, w, l, x
  <2>7. PICK m : m = Put(mem, rest, z)
    OBVIOUS
  <2>8. Owned(protocol, m) /\ m[rest] = z
    BY <1>1, <2>5, <2>7, OwnedPut
  <2>9. mem' = m
    BY <2>6, <2>7
  <2>10. mem'[rest'] = z /\ Owned(protocol, mem')
    BY <2>6, <2>8, <2>9
  <2>11. Filled(z) /\ z.cap >= r.cap
    BY <1>2, <1>3, <2>2, <2>3, <2>4, <2>5 DEF Filled
  <2>12. /\ z.lim = r.pos + n /\ (\A i \in 1..r.pos : z.bytes[i] = r.bytes[i])
         /\ \A i \in 1..n : z.bytes[r.pos + i] = net.bytes[i]
    BY <1>3, <2>2, <2>3, <2>4, <2>5
  <2> QED
    BY <1>1, <2>5, <2>6, <2>10, <2>11, <2>12
<1>5. CASE ~(r.cap - r.pos >= n)
  <2> DEFINE f == FreeBuffer(r.lim + n)
             v == Remaining(Rewind(r))
             g == WriteBytes(f, v)
             w == WriteBytes(g, x)
             z == Rewind(w)
  <2>1. r.lim + n \in Nat
    BY <1>2
  <2>2. f \in Buffers(protocol) /\ Within(f) /\ f.bytes = <<>> /\ f.pos = 0 /\ f.lim = r.lim + n /\ f.cap >= r.lim + n
    BY <2>1, FreeBufferIs
  <2>3. v \in Seq(BytesOf(protocol)) /\ Len(v) = r.lim /\ \A i \in 1..r.lim : v[i] = r.bytes[i]
    <3> DEFINE q == Rewind(r)
    <3>1. q \in Buffers(protocol) /\ Within(q) /\ q.bytes = r.bytes /\ q.pos = 0 /\ q.lim = r.lim
      BY <1>1, RewindIs
    <3>2. Filled(q)
      BY <1>1, <3>1 DEF Filled
    <3> HIDE DEF q
    <3>3. Remaining(q) \in Seq(BytesOf(protocol)) /\ Len(Remaining(q)) = q.lim - q.pos
          /\ \A i \in 1..q.lim - q.pos : Remaining(q)[i] = q.bytes[q.pos + i]
      BY <3>1, <3>2, RemainingIs
    <3>4. v = Remaining(q)
      BY DEF q
    <3> QED
      BY <1>2, <3>1, <3>3, <3>4
  <2> HIDE DEF f, v
  <2>4. f.pos <= Len(f.bytes) /\ f.pos + Len(v) <= f.lim
    <3>1. Len(<<>>) = 0
      OBVIOUS
    <3> QED
      BY <1>2, <2>2, <2>3, <3>1
  <2>5. g \in Buffers(protocol) /\ Within(g) /\ g.pos = f.pos + Len(v) /\ g.lim = f.lim /\ g.cap = f.cap
        /\ Len(g.bytes) = f.pos + Len(v)
        /\ \A i \in 1..Len(v) : g.bytes[f.pos + i] = v[i]
    BY <2>2, <2>3, <2>4, WriteBytesIs
  <2> HIDE DEF g
  <2>6. g.pos = r.lim /\ Len(g.bytes) = r.lim /\ \A i \in 1..r.lim : g.bytes[i] = r.bytes[i]
    BY <1>2, <2>2, <2>3, <2>5
  <2>7. g.pos <= Len(g.bytes) /\ g.pos + Len(x) <= g.lim
    BY <1>2, <1>3, <2>2, <2>5, <2>6
  <2>8. w \in Buffers(protocol) /\ Within(w) /\ w.lim = g.lim /\ w.cap = g.cap
        /\ Len(w.bytes) = g.pos + Len(x)
        /\ (\A i \in 1..g.pos : w.bytes[i] = g.bytes[i]) /\ (\A i \in 1..Len(x) : w.bytes[g.pos + i] = x[i])
    BY <1>3, <2>5, <2>7, WriteBytesIs
  <2> HIDE DEF w
  <2>9. z \in Buffers(protocol) /\ Within(z) /\ z.bytes = w.bytes /\ z.pos = 0 /\ z.lim = w.lim /\ z.cap = w.cap
    BY <2>8, RewindIs
  <2> HIDE DEF z
  <2>10. PICK u, m : u = Unused /\ m = Put(mem, u, z)
    OBVIOUS
  <2>11. u \in Kept /\ u \in Cells
    BY <2>10, NowIs, UnusedIs DEF Cells
  <2>12. mem' = m /\ buffer' = u /\ rest' = u /\ later' = None
    BY <1>5, <2>10 DEF JoinHeader, Put, z, w, g, f, v, x
  <2>13. Owned(protocol, m) /\ m[u] = z
    BY <1>1, <2>9, <2>10, <2>11, OwnedPut
  <2>14. mem'[rest'] = z /\ Owned(protocol, mem')
    BY <2>12, <2>13
  <2>15. Filled(z) /\ z.cap >= r.cap
    BY <1>2, <1>3, <1>5, <2>2, <2>5, <2>6, <2>8, <2>9, SMTT(40) DEF Filled, Buffers
  <2>16. r.lim = r.pos => /\ z.lim = r.pos + n /\ (\A i \in 1..r.pos : z.bytes[i] = r.bytes[i])
                          /\ \A i \in 1..n : z.bytes[r.pos + i] = net.bytes[i]
    <3>1. \A i \in 1..r.lim : z.bytes[i] = r.bytes[i]
      BY <2>6, <2>8, <2>9
    <3>2. \A i \in 1..n : z.bytes[r.lim + i] = net.bytes[i]
      BY <1>3, <2>6, <2>8, <2>9
    <3>3. z.lim = r.lim + n
      BY <2>2, <2>5, <2>8, <2>9
    <3> HIDE DEF r, n
    <3> QED
      BY <3>1, <3>2, <3>3
  <2> QED
    BY <2>9, <2>11, <2>12, <2>14, <2>15, <2>16
<1> QED
  BY <1>4, <1>5

\* How many bytes of a read of n belong to the packet that has been begun.
Taken(n) == IF last - mem[rest].pos <= n THEN last - mem[rest].pos ELSE n

LEMMA JoinPacketDoes ==
    ASSUME Now, buffer = None, rest # None, last # 0, NEW net, IsRead(protocol, net), JoinPacket(net)
    PROVE  /\ rest' = rest /\ mem[rest].pos \in Nat /\ mem[rest].lim \in Nat /\ mem[rest].pos <= mem[rest].lim
           /\ mem[rest].lim <= last /\ Taken(net.lim) \in Nat /\ Taken(net.lim) <= net.lim
           /\ \/ /\ mem[rest].pos + Taken(net.lim) = last
                 /\ mem[rest].lim = last
                 /\ buffer' = rest /\ later' = (IF Taken(net.lim) < net.lim THEN Net ELSE None)
                 /\ Owned(protocol, mem')
                 /\ Filled(mem'[rest]) /\ mem'[rest].pos = 0 /\ mem'[rest].lim = last
                 /\ \A i \in 1..mem[rest].pos : mem'[rest].bytes[i] = mem[rest].bytes[i]
                 /\ \A i \in 1..Taken(net.lim) : mem'[rest].bytes[mem[rest].pos + i] = net.bytes[i]
                 /\ mem'[Net].bytes = net.bytes /\ mem'[Net].pos = Taken(net.lim)
                 /\ mem'[Net].lim = net.lim /\ Filled(mem'[Net])
              \/ /\ buffer' = None /\ later' = None
                 /\ Shape(protocol, mem', None, rest, None, last)
                 /\ mem'[rest].lim = mem[rest].lim
                 /\ mem[rest].lim = last =>
                      /\ Taken(net.lim) = net.lim
                      /\ mem[rest].pos + Taken(net.lim) < last
                      /\ mem'[rest].pos = mem[rest].pos + Taken(net.lim)
                      /\ \A i \in 1..mem[rest].pos : mem'[rest].bytes[i] = mem[rest].bytes[i]
                      /\ \A i \in 1..Taken(net.lim) : mem'[rest].bytes[mem[rest].pos + i] = net.bytes[i]
<1> DEFINE r == mem[rest]
           n == Taken(net.lim)
           x == SubSeq(net.bytes, 1, n)
           w == WriteBytes(r, x)
<1>1. Owned(protocol, mem) /\ rest \in Kept /\ rest \in Cells /\ r \in Buffers(protocol) /\ Within(r)
      /\ r.pos <= Len(r.bytes) /\ r.lim <= last /\ last \in Nat /\ Net \in Cells /\ Net # rest
  BY NowIs
<1>2. r.pos \in Nat /\ r.lim \in Nat /\ r.pos <= r.lim /\ net.lim \in Nat /\ net.bytes \in Seq(BytesOf(protocol))
      /\ Len(net.bytes) = net.lim
  BY <1>1 DEF IsRead, Buffers, Within
<1>3. n \in Nat /\ n <= net.lim /\ n <= last - r.pos /\ (n # net.lim => n = last - r.pos)
  BY <1>1, <1>2 DEF Taken
<1>4. rest' = rest /\ IF w.pos = last
                      THEN /\ mem' = [mem EXCEPT ![rest] = Rewind(w), ![Net] = [net EXCEPT !.pos = n]]
                           /\ buffer' = rest /\ later' = IF n < net.lim THEN Net ELSE None
                      ELSE Return([mem EXCEPT ![rest] = w], rest)
  BY DEF JoinPacket, Taken
<1> HIDE DEF n
<1>5. x \in Seq(BytesOf(protocol)) /\ Len(x) = n /\ \A i \in 1..n : x[i] = net.bytes[i]
  <2>1. x \in Seq(BytesOf(protocol))
    BY ONLY <1>2, <1>3
  <2>2. Len(x) = n
    BY ONLY <1>2, <1>3
  <2>3. \A i \in 1..n : x[i] = net.bytes[i]
    BY ONLY <1>2, <1>3
  <2> QED
    BY <2>1, <2>2, <2>3
<1> HIDE DEF x
<1>6. CASE r.pos + n <= r.lim
  <2>1. /\ w \in Buffers(protocol) /\ Within(w) /\ w.pos = r.pos + n /\ w.lim = r.lim /\ w.cap = r.cap
        /\ Len(w.bytes) = r.pos + n
        /\ \A i \in 1..r.pos : w.bytes[i] = r.bytes[i]
        /\ \A i \in 1..n : w.bytes[r.pos + i] = net.bytes[i]
    <3>1. r.pos + Len(x) <= r.lim
      BY <1>5, <1>6
    <3>2. /\ w \in Buffers(protocol) /\ Within(w) /\ w.pos = r.pos + Len(x) /\ w.lim = r.lim /\ w.cap = r.cap
          /\ Len(w.bytes) = r.pos + Len(x)
          /\ \A i \in 1..r.pos : w.bytes[i] = r.bytes[i]
          /\ \A i \in 1..Len(x) : w.bytes[r.pos + i] = x[i]
      BY <1>1, <1>5, <3>1, WriteBytesIs
    <3> QED
      BY <1>5, <3>2
  <2> HIDE DEF w
  <2>2. CASE w.pos = last
    <3> DEFINE z == Rewind(w)
               y == [net EXCEPT !.pos = n]
    <3>1. z \in Buffers(protocol) /\ Within(z) /\ z.bytes = w.bytes /\ z.pos = 0 /\ z.lim = w.lim
      BY <2>1, RewindIs
    <3>2. y \in Buffers(protocol) /\ Within(y) /\ y.bytes = net.bytes /\ y.pos = n /\ y.lim = net.lim /\ Filled(y)
      BY <1>2, <1>3 DEF IsRead, Buffers, Within, Filled
    <3>3. mem' = Put(Put(mem, rest, z), Net, y) /\ buffer' = rest /\ later' = IF n < net.lim THEN Net ELSE None
      BY <1>4, <2>2 DEF Put
    <3> HIDE DEF z, y
    <3>4. PICK m : m = Put(mem, rest, z)
      OBVIOUS
    <3>5. Owned(protocol, m) /\ m[rest] = z
      BY <1>1, <3>1, <3>4, OwnedPut
    <3>6. PICK o : o = Put(m, Net, y)
      OBVIOUS
    <3>7. Owned(protocol, o) /\ o[Net] = y /\ \A q \in Cells \ {Net} : o[q] = m[q]
      <4>1. y \in Buffers(protocol) /\ Within(y)
        BY <3>2
      <4>2. Net \in Cells
        BY <1>1
      <4>3. Owned(protocol, m)
        BY <3>5
      <4> QED
        BY ONLY <3>6, <4>1, <4>2, <4>3, OwnedPut
    <3>8. mem' = o
      BY <3>3, <3>4, <3>6
    <3>9. mem'[rest] = z /\ mem'[Net] = y /\ Owned(protocol, mem')
      BY <1>1, <3>5, <3>7, <3>8
    <3>10. r.pos + n = last /\ r.lim = last
      BY <1>1, <1>2, <1>3, <1>6, <2>1, <2>2
    <3>11. Filled(z) /\ z.lim = last
      BY <1>1, <2>1, <3>1, <3>10 DEF Filled
    <3>12. (\A i \in 1..r.pos : z.bytes[i] = r.bytes[i]) /\ \A i \in 1..n : z.bytes[r.pos + i] = net.bytes[i]
      BY <2>1, <3>1
    <3> QED
      BY <1>1, <1>2, <1>3, <1>4, <3>1, <3>2, <3>3, <3>9, <3>10, <3>11, <3>12 DEF n
  <2>3. CASE w.pos # last
    <3>1. PICK m : m = Put(mem, rest, w)
      OBVIOUS
    <3>2. Owned(protocol, m) /\ m[rest] = w
      BY <1>1, <2>1, <3>1, OwnedPut
    <3>3. Shape(protocol, Freed(m, rest), None, rest, None, last)
      <4>1. m[rest].pos <= Len(m[rest].bytes) /\ m[rest].lim <= last
        BY <1>1, <1>2, <1>3, <2>1, <3>2
      <4> QED
        BY <1>1, <3>2, <4>1, ShapeWhenFreed
    <3>4. mem' = Freed(m, rest) /\ buffer' = None /\ later' = None
      BY <1>4, <2>3, <3>1 DEF Return, Freed, Put
    <3>5. Freed(m, rest)[rest] = w
      BY <1>1, <3>2 DEF Freed, Owned
    <3>6. n = net.lim /\ r.pos + n < last
      BY <1>1, <1>2, <1>3, <1>6, <2>1, <2>3
    <3>7. mem'[rest] = w /\ Shape(protocol, mem', None, rest, None, last)
      BY <3>3, <3>4, <3>5
    <3> QED
      BY <1>1, <1>2, <1>3, <1>4, <2>1, <3>4, <3>6, <3>7 DEF n
  <2> QED
    BY <2>2, <2>3
<1>7. CASE ~(r.pos + n <= r.lim)
  <2>1. w = r /\ r.pos # last /\ r.lim # last
    BY <1>1, <1>2, <1>3, <1>5, <1>7 DEF WriteBytes
  <2>2. mem' = Freed(Put(mem, rest, r), rest) /\ buffer' = None /\ later' = None
    BY <1>4, <2>1 DEF Return, Freed, Put
  <2>3. PICK m : m = Put(mem, rest, r)
    OBVIOUS
  <2>4. Owned(protocol, m) /\ m[rest] = r
    BY <1>1, <2>3, OwnedPut
  <2>5. Shape(protocol, Freed(m, rest), None, rest, None, last)
    BY <1>1, <2>4, ShapeWhenFreed
  <2>6. Freed(m, rest)[rest] = r
    BY <1>1, <2>4 DEF Freed, Owned
  <2>7. mem'[rest] = r /\ Shape(protocol, mem', None, rest, None, last)
    BY <2>2, <2>3, <2>5, <2>6
  <2> QED
    BY <1>1, <1>2, <1>3, <1>4, <2>1, <2>2, <2>7 DEF n
<1> QED
  BY <1>6, <1>7, <1>2, <1>3, <1>1

LEMMA ReceiveKeepsShape ==
    ASSUME Typed, NEW n \in 1..MaxChunk, Receive(n)
    PROVE  Then
<1>1. buffer = None /\ arrived + n <= Len(StreamBytes(conn, stream)) /\ last' = last
  BY DEF Receive
<1>2. IsRead(protocol, Read(n))
  BY <1>1, ReadIs
<1>3. Now
  BY DEF Typed, Now
<1>4. PICK net : net = Read(n)
  OBVIOUS
<1>5. IsRead(protocol, net)
  BY <1>2, <1>4
<1>6. last \in Nat /\ Net \in Cells /\ Net \notin Kept /\ Owned(protocol, mem) /\ rest \in Kept \cup {None} /\ Net # None
  BY <1>3, NowIs DEF Net, None
<1>7. CASE rest = None
  <2>1. mem' = Put(mem, Net, net) /\ buffer' = Net /\ later' = None /\ rest' = None
    BY <1>4, <1>7 DEF Receive, Read, Put
  <2>2. PICK m : m = Put(mem, Net, net)
    OBVIOUS
  <2>3. net \in Buffers(protocol) /\ Within(net) /\ Filled(net)
    BY <1>5 DEF IsRead
  <2>4. Owned(protocol, m) /\ m[Net] = net
    BY <1>6, <2>2, <2>3, OwnedPut
  <2>5. Filled(m[Net])
    BY <2>3, <2>4
  <2>6. Shape(protocol, m, Net, None, None, last)
    BY <1>6, <2>4, <2>5, ShapeInLoop
  <2> QED
    BY <1>1, <2>1, <2>2, <2>6 DEF Then
<1>8. CASE rest # None /\ last = 0
  <2>1. JoinHeader(net)
    BY <1>4, <1>8 DEF Receive, Read
  <2>2. rest' \in Kept /\ buffer' = rest' /\ later' = None /\ Owned(protocol, mem') /\ Filled(mem'[rest'])
    BY <1>1, <1>3, <1>5, <1>8, <2>1, JoinHeaderDoes
  <2>3. PICK b, m : b = rest' /\ m = mem'
    OBVIOUS
  <2>4. b \in Kept /\ b \in Cells /\ Owned(protocol, m) /\ Filled(m[b])
    BY <2>2, <2>3 DEF Cells
  <2>5. Shape(protocol, m, b, b, None, last)
    BY <1>6, <1>8, <2>4, ShapeInLoop
  <2> QED
    BY <1>1, <2>2, <2>3, <2>5 DEF Then
<1>9. CASE rest # None /\ last # 0
  <2>1. JoinPacket(net)
    BY <1>4, <1>9 DEF Receive, Read
  <2>2. rest' = rest /\
        \/ buffer' = rest /\ later' = (IF Taken(net.lim) < net.lim THEN Net ELSE None)
           /\ Owned(protocol, mem') /\ Filled(mem'[rest]) /\ mem'[rest].lim = last /\ Filled(mem'[Net])
        \/ buffer' = None /\ later' = None /\ Shape(protocol, mem', None, rest, None, last)
    BY <1>1, <1>3, <1>5, <1>9, <2>1, JoinPacketDoes
  <2>3. PICK m, t : m = mem' /\ t = later'
    OBVIOUS
  <2>4. CASE buffer' = rest
    <3>1. Owned(protocol, m) /\ Filled(m[rest]) /\ m[rest].lim = last /\ Filled(m[Net]) /\ t \in {Net, None}
      BY <1>9, <2>2, <2>3, <2>4
    <3>2. rest \in Kept /\ rest \in Cells /\ last <= last
      BY <1>6, <1>9 DEF Cells
    <3>3. Shape(protocol, m, rest, rest, t, last)
      BY <1>6, <1>9, <3>1, <3>2, ShapeInLoop
    <3> QED
      BY <1>1, <2>2, <2>3, <2>4, <3>3 DEF Then
  <2>5. CASE buffer' = None
    BY <1>1, <1>9, <2>2, <2>5 DEF Then
  <2> QED
    BY <2>2, <2>4, <2>5
<1> QED
  BY <1>7, <1>8, <1>9

-----------------------------------------------------------------------------
(* The type invariant.                                                       *)
LEMMA HandOverTyped ==
    ASSUME Typed, NEW bytes \in Seq(BytesOf(protocol)), Len(bytes) >= 1
    PROVE  HandOver(bytes) \in Seq(0..MaxPackets)
<1>1. bytes[1] \in BytesOf(protocol)
  OBVIOUS
<1>2. bytes[1].index \in 0..MaxPackets
  BY <1>1, StreamAssumption DEF BytesOf
<1>3. out \in Seq(0..MaxPackets) /\ 0 \in 0..MaxPackets
  BY StreamAssumption DEF Typed
<1> DEFINE x == IF bytes = PacketBytes(conn, stream, bytes[1].index) THEN bytes[1].index ELSE 0
<1>4. x \in 0..MaxPackets
  BY <1>2, <1>3
<1>5. HandOver(bytes) = IF upset THEN out ELSE Append(out, x)
  BY DEF HandOver
<1> HIDE DEF x
<1>6. Append(out, x) \in Seq(0..MaxPackets)
  BY ONLY <1>3, <1>4
<1>7. CASE upset
  BY <1>3, <1>5, <1>7
<1>8. CASE ~upset
  BY <1>5, <1>6, <1>8
<1> QED
  BY <1>7, <1>8

LEMMA HeadOfLeft ==
    ASSUME Now, Parsing, NEW k \in Nat, k >= 1, k <= Len(Remaining(mem[buffer]))
    PROVE  SubSeq(Remaining(mem[buffer]), 1, k) \in Seq(BytesOf(protocol))
           /\ Len(SubSeq(Remaining(mem[buffer]), 1, k)) = k
           /\ \A i \in 1..k : SubSeq(Remaining(mem[buffer]), 1, k)[i] = Remaining(mem[buffer])[i]
<1>1. Remaining(mem[buffer]) \in Seq(BytesOf(protocol)) /\ Len(Remaining(mem[buffer])) \in Nat
  BY ParsingIs
<1>2. PICK left : left = Remaining(mem[buffer])
  OBVIOUS
<1>3. left \in Seq(BytesOf(protocol)) /\ Len(left) \in Nat /\ k <= Len(left)
  BY <1>1, <1>2
<1>4. SubSeq(left, 1, k) \in Seq(BytesOf(protocol))
  BY ONLY <1>3, k \in Nat
<1>5. Len(SubSeq(left, 1, k)) = k
  BY ONLY <1>3, k \in Nat
<1>6. \A i \in 1..k : SubSeq(left, 1, k)[i] = left[i]
  BY ONLY <1>3, k \in Nat
<1> QED
  BY <1>2, <1>4, <1>5, <1>6

LEMMA InitTyped ==
    ASSUME Init
    PROVE  Typed
<1>1. protocol \in Protocols /\ conn \in 1..MaxConnections /\ stream \in Streams(protocol, MaxPackets)
      /\ upset \in BOOLEAN /\ last = 0 /\ arrived = 0
  <2>1. conn = 1 /\ 1 \in 1..MaxConnections
    BY StreamAssumption DEF Init
  <2> QED
    BY <2>1 DEF Init
<1>2. Len(StreamBytes(conn, stream)) \in Nat
  <2>1. stream \in Seq(Packets(protocol)) /\ Len(stream) \in 1..MaxPackets
    BY <1>1, StreamIs, StreamAssumption
  <2>2. Len(stream) <= MaxPackets
    BY <2>1, StreamAssumption
  <2>3. StreamBytes(conn, stream) \in Seq(BytesOf(protocol))
    BY <1>1, <2>1, <2>2, StreamTyped
  <2> QED
    BY <2>3
<1>3. out \in Seq(0..MaxPackets)
  <2>1. <<>> \in Seq(0..MaxPackets)
    OBVIOUS
  <2> QED
    BY <2>1 DEF Init
<1>4. FreeBuffer(0) \in Buffers(protocol) /\ Within(FreeBuffer(0))
  BY FreeBufferIs
<1>5. mem \in [Cells -> Buffers(protocol)] /\ \A id \in Cells : Within(mem[id])
  BY <1>4 DEF Init, Cells
<1>6. Shape(protocol, mem, buffer, rest, later, last)
  BY <1>1, <1>5 DEF Init, Shape, Held, None, Kept
<1> QED
  BY <1>1, <1>2, <1>3, <1>6 DEF Typed

\* What a connection that is established again has to do with the type.
LEMMA ReconnectTyped ==
    ASSUME Typed, conn < MaxConnections, Reconnect, protocol' = protocol, upset' \in BOOLEAN, Then
    PROVE  Typed'
<1>1. conn' \in 1..MaxConnections /\ arrived' = 0 /\ out' = <<>>
  BY StreamAssumption DEF Typed, Reconnect
<1>2. stream' \in Streams(protocol, MaxPackets)
  BY StreamAssumption DEF Reconnect, Streams
<1>3. PICK c, s : c = conn' /\ s = stream'
  OBVIOUS
<1>4. s \in Seq(Packets(protocol)) /\ Len(s) \in 1..MaxPackets
  BY <1>2, <1>3, StreamIs, StreamAssumption
<1>5. Len(s) <= MaxPackets /\ c \in 1..MaxConnections
  BY <1>1, <1>3, <1>4, StreamAssumption
<1>6. StreamBytes(c, s) \in Seq(BytesOf(protocol))
  BY <1>4, <1>5, StreamTyped
<1>7. 0 \in 0..Len(StreamBytes(c, s))
  BY <1>6
<1>8. <<>> \in Seq(0..MaxPackets)
  OBVIOUS
<1> QED
  BY <1>1, <1>2, <1>3, <1>7, <1>8 DEF Typed, Then

LEMMA NextTyped ==
    ASSUME Typed, [Next]_vars
    PROVE  Typed'
<1>1. Now
  BY DEF Typed, Now
<1>2. CASE UNCHANGED vars
  BY <1>2 DEF vars, Typed
<1>3. ASSUME UNCHANGED <<protocol, conn, stream, arrived, upset>>, out' \in Seq(0..MaxPackets), Then
      PROVE  Typed'
  BY <1>3 DEF Typed, Then
<1>4. out \in Seq(0..MaxPackets)
  BY DEF Typed
<1>5. CASE LoopEnds
  BY <1>1, <1>3, <1>4, <1>5, LoopEndsKeepsShape DEF LoopEnds
<1>6. CASE KeepHeader
  BY <1>1, <1>3, <1>4, <1>6, KeepHeaderKeepsShape DEF KeepHeader
<1>7. CASE KeepPacket
  BY <1>1, <1>3, <1>4, <1>7, KeepPacketKeepsShape DEF KeepPacket
<1>8. CASE QuickAck
  <2>1. Then
    BY <1>1, <1>8, QuickAckKeepsShape
  <2>2. Parsing /\ Len(Remaining(mem[buffer])) >= 4 /\ out' = HandOver(SubSeq(Remaining(mem[buffer]), 1, 4))
    BY <1>8 DEF QuickAck
  <2>3. out' \in Seq(0..MaxPackets)
    <3>1. 4 <= Len(Remaining(mem[buffer])) /\ 4 \in Nat /\ 4 >= 1
      BY <1>1, <2>2, ParsingIs
    <3>2. SubSeq(Remaining(mem[buffer]), 1, 4) \in Seq(BytesOf(protocol))
          /\ Len(SubSeq(Remaining(mem[buffer]), 1, 4)) = 4
      BY <1>1, <2>2, <3>1, HeadOfLeft
    <3>3. Len(SubSeq(Remaining(mem[buffer]), 1, 4)) >= 1
      BY <3>2
    <3> QED
      BY <2>2, <3>2, <3>3, HandOverTyped
  <2>4. upset' \in BOOLEAN
    BY <1>8 DEF QuickAck, Typed
  <2> QED
    BY <1>8, <2>1, <2>3, <2>4 DEF QuickAck, Typed, Then
<1>9. CASE Message
  <2>1. Then
    BY <1>1, <1>9, MessageKeepsShape
  <2>2. PICK h \in Headers(Remaining(mem[buffer])) :
            /\ h.kind \in {"short", "long"} /\ Len(Remaining(mem[buffer])) >= Size(h)
            /\ out' = HandOver(SubSeq(Remaining(mem[buffer]), 1, Size(h)))
    BY <1>9 DEF Message
  <2>3. Parsing
    BY <1>9 DEF Message
  <2>4. h \in Packets(protocol) /\ Size(h) \in Nat /\ Size(h) <= Len(Remaining(mem[buffer]))
    BY <1>1, <2>2, <2>3, TakenIs
  <2>5. Size(h) >= 1
    BY <2>4, PacketIs
  <2>6. SubSeq(Remaining(mem[buffer]), 1, Size(h)) \in Seq(BytesOf(protocol))
        /\ Len(SubSeq(Remaining(mem[buffer]), 1, Size(h))) = Size(h)
    BY <1>1, <2>3, <2>4, <2>5, HeadOfLeft
  <2>7. out' \in Seq(0..MaxPackets)
    <3>1. Len(SubSeq(Remaining(mem[buffer]), 1, Size(h))) >= 1
      BY <2>5, <2>6
    <3> QED
      BY <2>2, <2>6, <3>1, HandOverTyped
  <2> QED
    BY <1>3, <1>9, <2>1, <2>7 DEF Message
<1>10. CASE InvalidLength
  <2>1. conn < MaxConnections /\ Reconnect /\ protocol' = protocol /\ upset' = FALSE /\ Return(mem, None)
    BY <1>10 DEF InvalidLength
  <2>2. Then
    BY <1>1, <2>1, DropsKeepShape DEF Reconnect
  <2> QED
    BY <2>1, <2>2, ReconnectTyped
<1>11. CASE Disconnect
  <2>1. conn < MaxConnections /\ Reconnect /\ protocol' = protocol /\ upset' = FALSE /\ Return(mem, None)
    BY <1>11 DEF Disconnect
  <2>2. Then
    BY <1>1, <2>1, DropsKeepShape DEF Reconnect
  <2> QED
    BY <2>1, <2>2, ReconnectTyped
<1>12. CASE MessageReconnects
  <2>1. conn < MaxConnections /\ Reconnect /\ protocol' = protocol
    BY <1>12 DEF MessageReconnects
  <2>2. Then
    BY <1>1, <1>12, MessageReconnectsKeepsShape
  <2>3. upset' \in BOOLEAN
    BY <1>12 DEF MessageReconnects
  <2> QED
    BY <2>1, <2>2, <2>3, ReconnectTyped
<1>13. ASSUME NEW n \in 1..MaxChunk, Receive(n) PROVE Typed'
  <2>1. Then
    BY <1>13, ReceiveKeepsShape
  <2>2. arrived' \in 0..Len(StreamBytes(conn, stream))
    <3>1. arrived + n <= Len(StreamBytes(conn, stream)) /\ arrived' = arrived + n
      BY <1>13 DEF Receive
    <3>2. n \in Nat /\ arrived \in Nat
      BY <3>1, ReadIs
    <3>3. Len(StreamBytes(conn, stream)) \in Nat
      BY StreamNow
    <3> QED
      BY ONLY <3>1, <3>2, <3>3
  <2>3. UNCHANGED <<protocol, conn, stream, out, upset>>
    BY <1>13 DEF Receive
  <2> QED
    BY <2>1, <2>2, <2>3 DEF Typed, Then
<1> QED
  BY <1>2, <1>5, <1>6, <1>7, <1>8, <1>9, <1>10, <1>11, <1>12, <1>13 DEF Next

(* In every state the buffers' positions lie within their limits and these   *)
(* within the capacities, a second buffer is only pending while the first is *)
(* restOfTheData, and the history is of packets (TypeOK).                    *)
THEOREM TypeCorrect == Spec => []TypeOK
<1>1. Init => Typed
  BY InitTyped
<1>2. Typed /\ [Next]_vars => Typed'
  BY NextTyped
<1>3. Typed => TypeOK
  <2> SUFFICES ASSUME Typed PROVE TypeOK
    OBVIOUS
  <2>1. Bytes = BytesOf(protocol)
    BY DEF Bytes, BytesOf
  <2>2. Now
    BY DEF Typed, Now
  <2>3. Owned(protocol, mem) /\ rest \in Kept \cup {None} /\ buffer \in Cells \cup {None}
        /\ later \in {Net, None} /\ last \in Nat
        /\ (later # None => buffer \in Kept)
    BY <2>2, NowIs
  <2>4. \A id \in Kept \cup {Net} :
            mem[id].bytes \in Seq(Bytes) /\ mem[id].pos <= mem[id].lim /\ mem[id].lim <= mem[id].cap
    BY <2>1, <2>3 DEF Owned, Cells, Buffers, Within
  <2> QED
    BY <2>3, <2>4 DEF Typed, TypeOK, Cells
<1> QED
  BY <1>1, <1>2, <1>3, PTL DEF Spec

-----------------------------------------------------------------------------
(* A parser in step.  Next is the packet after those handed over.            *)
Sent == StreamBytes(conn, stream)
Base == EndOf(conn, stream, Len(out))
Up   == EndOf(conn, stream, Len(out) + 1)
InStepNow == Follows(conn, stream, arrived, mem, buffer, rest, later, last, Len(out))

\* The conditions of Follows, one by one.
LEMMA FollowsIs ==
    ASSUME InStepNow
    PROVE  /\ Len(out) <= Len(stream) /\ Base <= arrived
           /\ buffer = None /\ rest = None => arrived = Base
           /\ buffer = None /\ rest # None =>
                /\ Len(out) < Len(stream) /\ mem[rest].pos = arrived - Base /\ arrived > Base
                /\ \A i \in 1..arrived - Base : mem[rest].bytes[i] = Sent[Base + i]
                /\ last = 0 => arrived - Base < 4 /\ stream[Len(out) + 1].kind # "short"
                               /\ mem[rest].lim = mem[rest].pos /\ mem[rest].cap >= 4
                /\ last # 0 => arrived - Base < last /\ stream[Len(out) + 1].kind # "ack"
                               /\ last = Size(stream[Len(out) + 1]) /\ mem[rest].lim = last
           /\ buffer # None /\ later = None => Ahead(mem[buffer], Sent, Base, arrived)
           /\ buffer # None /\ rest # None =>
                /\ buffer = rest /\ mem[rest].pos = 0 /\ mem[rest].lim > 0
                /\ last = 0 => mem[rest].cap >= 4
                /\ last # 0 => Len(out) < Len(stream) /\ stream[Len(out) + 1].kind # "ack"
                               /\ last = Size(stream[Len(out) + 1]) /\ mem[rest].lim = last
           /\ later # None =>
                /\ Len(out) < Len(stream) /\ last # 0 /\ Ahead(mem[buffer], Sent, Base, Up)
                /\ Up < arrived /\ Ahead(mem[Net], Sent, Up, arrived)
  BY DEF InStepNow, Follows, Sent, Base, Up

LEMMA FollowsWithout ==
    ASSUME NEW c, NEW s, NEW n, n <= Len(s), NEW a \in Nat, EndOf(c, s, n) = a, NEW m, NEW l
    PROVE  Follows(c, s, a, m, None, None, None, l, n)
  BY DEF Follows

LEMMA FollowsKeeping ==
    ASSUME NEW c, NEW s, NEW n, n < Len(s), n \in Nat, Len(s) \in Nat, NEW a \in Nat, EndOf(c, s, n) \in Nat,
           NEW m, NEW r, r # None, NEW l,
           m[r].pos = a - EndOf(c, s, n), a > EndOf(c, s, n),
           \A i \in 1..a - EndOf(c, s, n) : m[r].bytes[i] = StreamBytes(c, s)[EndOf(c, s, n) + i],
           l = 0 => a - EndOf(c, s, n) < 4 /\ s[n + 1].kind # "short" /\ m[r].lim = m[r].pos /\ m[r].cap >= 4,
           l # 0 => a - EndOf(c, s, n) < l /\ s[n + 1].kind # "ack" /\ l = Size(s[n + 1]) /\ m[r].lim = l
    PROVE  Follows(c, s, a, m, None, r, None, l, n)
<1>1. n <= Len(s) /\ EndOf(c, s, n) <= a
  OBVIOUS
<1> QED
  BY <1>1 DEF Follows

LEMMA FollowsParsing ==
    ASSUME NEW c, NEW s, NEW n, n <= Len(s), NEW a, EndOf(c, s, n) <= a,
           NEW m, NEW b, b # None, Ahead(m[b], StreamBytes(c, s), EndOf(c, s, n), a), NEW r, NEW l,
           r # None => /\ b = r /\ m[r].pos = 0 /\ m[r].lim > 0
                       /\ l = 0 => m[r].cap >= 4
                       /\ l # 0 => n < Len(s) /\ s[n + 1].kind # "ack" /\ l = Size(s[n + 1]) /\ m[r].lim = l
    PROVE  Follows(c, s, a, m, b, r, None, l, n)
  BY DEF Follows

\* The numbers the proofs reckon with.
LEMMA CountsNow ==
    ASSUME Typed, InStepNow
    PROVE  /\ Len(out) \in Nat /\ Len(out) \in 0..Len(stream) /\ Len(stream) \in Nat
           /\ Base \in Nat /\ arrived \in Nat /\ arrived <= Len(Sent) /\ Len(Sent) \in Nat /\ Base <= arrived
           /\ arrived > Base => Len(out) \in 0..Len(stream) - 1
           /\ Len(out) \in 0..Len(stream) - 1 =>
                /\ Len(out) + 1 \in 1..Len(stream) /\ stream[Len(out) + 1] \in Packets(protocol)
                /\ Size(stream[Len(out) + 1]) \in Nat /\ Size(stream[Len(out) + 1]) >= 1
                /\ Up = Base + Size(stream[Len(out) + 1]) /\ Up \in Nat /\ Up <= Len(Sent)
                /\ \A o \in 1..Size(stream[Len(out) + 1]) :
                       Sent[Base + o] = PacketBytes(conn, stream, Len(out) + 1)[o]
<1>1. stream \in Seq(Packets(protocol)) /\ Len(stream) <= MaxPackets /\ Len(stream) \in Nat
      /\ conn \in 1..MaxConnections /\ Sent \in Seq(BytesOf(protocol)) /\ Len(Sent) \in Nat
  BY StreamNow DEF Sent
<1>2. out \in Seq(0..MaxPackets) /\ arrived \in 0..Len(Sent)
  BY DEF Typed, Sent
<1>3. Len(out) <= Len(stream) /\ Base <= arrived
  BY FollowsIs
<1>4. Len(out) \in Nat /\ Len(out) \in 0..Len(stream)
  BY <1>1, <1>2, <1>3
<1>5. Base \in Nat
  BY <1>1, <1>4, StreamTyped DEF Base
<1>6. arrived > Base => Len(out) \in 0..Len(stream) - 1
  <2> SUFFICES ASSUME arrived > Base, Len(out) = Len(stream) PROVE FALSE
    BY <1>1, <1>4
  <2>1. Base = Len(Sent)
    BY <1>1, EndOfIs DEF Base, Sent
  <2> QED
    BY <1>1, <1>2, <2>1
<1>7. ASSUME Len(out) \in 0..Len(stream) - 1
      PROVE  /\ Len(out) + 1 \in 1..Len(stream) /\ stream[Len(out) + 1] \in Packets(protocol)
             /\ Size(stream[Len(out) + 1]) \in Nat /\ Size(stream[Len(out) + 1]) >= 1
             /\ Up = Base + Size(stream[Len(out) + 1]) /\ Up \in Nat /\ Up <= Len(Sent)
             /\ \A o \in 1..Size(stream[Len(out) + 1]) :
                    Sent[Base + o] = PacketBytes(conn, stream, Len(out) + 1)[o]
  <2>1. Len(out) + 1 \in 1..Len(stream)
    BY <1>1, <1>7
  <2>2. stream[Len(out) + 1] \in Packets(protocol)
    BY <1>1, <2>1
  <2>3. Size(stream[Len(out) + 1]) \in Nat /\ Size(stream[Len(out) + 1]) >= 1
    BY <2>2, PacketIs
  <2>4. Up = Base + Size(stream[Len(out) + 1])
    BY <1>1, <1>7, EndOfIs DEF Up, Base
  <2>5. Up <= Len(Sent) /\ \A o \in 1..Size(stream[Len(out) + 1]) :
                            Sent[Base + o] = PacketBytes(conn, stream, Len(out) + 1)[o]
    BY <1>1, <1>7, StreamAt DEF Up, Sent, Base
  <2> QED
    BY <1>5, <2>1, <2>2, <2>3, <2>4, <2>5
<1> QED
  BY <1>1, <1>2, <1>3, <1>4, <1>5, <1>6, <1>7

\* What lies before a parser in step is the next packet, or its beginning.
LEMMA ParsesNext ==
    ASSUME Typed, InStepNow, Parsing
    PROVE  /\ Len(out) \in 0..Len(stream) - 1
           /\ Headers(Remaining(mem[buffer])) = {stream[Len(out) + 1]}
           /\ Ahead(mem[buffer], Sent, Base, IF later = None THEN arrived ELSE Up)
           /\ later # None => Len(Remaining(mem[buffer])) = Size(stream[Len(out) + 1])
           /\ Len(Remaining(mem[buffer])) = (IF later = None THEN arrived ELSE Up) - Base
           /\ \A i \in 1..Len(Remaining(mem[buffer])) : Remaining(mem[buffer])[i] = Sent[Base + i]
<1> DEFINE left == Remaining(mem[buffer])
           to == IF later = None THEN arrived ELSE Up
<1>1. Now
  BY DEF Typed, Now
<1>2. buffer # None /\ Len(left) = mem[buffer].lim - mem[buffer].pos /\ Len(left) \in Nat /\ Len(left) >= 1
  BY <1>1, ParsingIs
<1>3. mem[buffer] \in Buffers(protocol) /\ Within(mem[buffer]) /\ Filled(mem[buffer])
  BY <1>1, <1>2, NowIs
<1>4. Ahead(mem[buffer], Sent, Base, to)
  BY <1>2, FollowsIs
<1>5. Len(left) = to - Base
  BY <1>2, <1>4 DEF Ahead
<1>6. Len(out) \in 0..Len(stream) - 1
  <2>1. CASE later = None
    <3>1. arrived > Base
      BY <1>2, <1>5, <2>1, CountsNow
    <3> QED
      BY <3>1, CountsNow
  <2>2. CASE later # None
    BY <2>2, FollowsIs, CountsNow
  <2> QED
    BY <2>1, <2>2
<1>7. \A i \in 1..Len(left) : left[i] = Sent[Base + i]
  <2>1. \A i \in 1..mem[buffer].lim - mem[buffer].pos : left[i] = mem[buffer].bytes[mem[buffer].pos + i]
    BY <1>3, RemainingIs
  <2> QED
    BY <1>2, <1>4, <1>5, <2>1 DEF Ahead
<1>8. later # None => Len(left) = Size(stream[Len(out) + 1])
  BY <1>5, <1>6, CountsNow
<1>9. Headers(left) = {stream[Len(out) + 1]}
  <2>1. \A o \in 1..Size(stream[Len(out) + 1]) :
            o <= Len(left) => left[o] = PacketBytes(conn, stream, Len(out) + 1)[o]
    BY <1>2, <1>6, <1>7, CountsNow
  <2>2. stream \in Seq(Packets(protocol)) /\ Len(stream) <= MaxPackets /\ conn \in 1..MaxConnections
    BY StreamNow
  <2>3. Len(out) + 1 \in 1..Len(stream)
    BY <1>6, CountsNow
  <2> HIDE DEF left
  <2> QED
    BY <1>2, <2>1, <2>2, <2>3, HeadersAre
<1> QED
  BY <1>4, <1>5, <1>6, <1>7, <1>8, <1>9

StillInStep == Follows(conn, stream, arrived', mem', buffer', rest', later', last', Len(out))

LEMMA LoopEndsInStep ==
    ASSUME Typed, InStepNow, LoopEnds
    PROVE  StillInStep
<1>1. Now
  BY DEF Typed, Now
<1>2. buffer # None /\ ~(mem[buffer].pos < mem[buffer].lim) /\ buffer' = None /\ later' = None
      /\ rest' = rest /\ last' = last /\ arrived' = arrived
  BY DEF LoopEnds, HasRemaining, Return
<1>3. mem[buffer].pos \in Nat /\ mem[buffer].lim \in Nat /\ mem[buffer].pos = mem[buffer].lim
  <2>1. mem[buffer] \in Buffers(protocol) /\ Within(mem[buffer])
    BY <1>1, <1>2, NowIs
  <2> QED
    BY <1>2, <2>1 DEF Buffers, Within
<1>4. later = None
  <2> SUFFICES ASSUME later # None PROVE FALSE
    OBVIOUS
  <2>1. Len(out) < Len(stream) /\ Ahead(mem[buffer], Sent, Base, Up)
    BY FollowsIs
  <2>2. Up > Base /\ Up \in Nat /\ Base \in Nat
    BY <2>1, CountsNow
  <2> QED
    BY <1>3, <2>1, <2>2 DEF Ahead
<1>5. arrived = Base
  <2>1. Ahead(mem[buffer], Sent, Base, arrived) /\ arrived \in Nat /\ Base \in Nat
    BY <1>2, <1>4, FollowsIs, CountsNow
  <2> QED
    BY <1>3, <2>1 DEF Ahead
<1>6. rest = None
  <2> SUFFICES ASSUME rest # None PROVE FALSE
    OBVIOUS
  <2>1. buffer = rest /\ mem[rest].pos = 0 /\ mem[rest].lim > 0
    BY <1>2, FollowsIs
  <2> QED
    BY <1>3, <2>1
<1>7. Len(out) <= Len(stream) /\ arrived \in Nat /\ EndOf(conn, stream, Len(out)) = arrived
  BY <1>5, FollowsIs, CountsNow DEF Base
<1>8. PICK m : m = mem'
  OBVIOUS
<1>9. Follows(conn, stream, arrived, m, None, None, None, last, Len(out))
  BY <1>7, FollowsWithout
<1> QED
  BY <1>2, <1>6, <1>8, <1>9 DEF StillInStep

LEMMA KeepHeaderInStep ==
    ASSUME Typed, InStepNow, KeepHeader
    PROVE  StillInStep
<1> DEFINE left == Remaining(mem[buffer])
           next == stream[Len(out) + 1]
           d == arrived - Base
<1>1. Now /\ Parsing /\ arrived' = arrived
  BY DEF Typed, Now, KeepHeader
<1>2. left \in Seq(BytesOf(protocol)) /\ Len(left) \in Nat /\ Len(left) >= 1 /\ buffer # None /\ buffer \in Cells
  BY <1>1, ParsingIs
<1>3. Len(out) \in 0..Len(stream) - 1 /\ Headers(left) = {next}
      /\ (later # None => Len(left) = Size(next))
      /\ Len(left) = (IF later = None THEN arrived ELSE Up) - Base
      /\ \A i \in 1..Len(left) : left[i] = Sent[Base + i]
  BY <1>1, ParsesNext
<1>4. /\ next.kind # "short" /\ Len(left) < 4
      /\ IF \/ rest = None \/ mem[rest].pos # 0
            \/ protocol = "EF" /\ next.kind = "ack"
         THEN /\ rest' = Unused /\ last' = 0
              /\ Return([mem EXCEPT ![Unused] = HeaderKept(left)], Unused)
         ELSE /\ UNCHANGED <<rest, last>>
              /\ Return([mem EXCEPT ![rest] = Position(@, @.lim)], rest)
  BY <1>3 DEF KeepHeader, HeaderKept
<1>5. Size(next) \in Nat /\ Size(next) >= 4
  <2>1. next \in Packets(protocol)
    BY <1>3, CountsNow
  <2>2. HeaderLength(next.kind) = 4 /\ Size(next) \in Nat /\ HeaderLength(next.kind) <= Size(next)
    BY <1>4, <2>1, PacketIs
  <2> QED
    BY <2>2
<1>6. later = None /\ Len(left) = d
  BY <1>2, <1>3, <1>4, <1>5
<1>7. arrived \in Nat /\ Base \in Nat /\ d < 4 /\ arrived > Base /\ d >= 1 /\ Len(out) < Len(stream)
      /\ Len(out) \in Nat /\ Len(stream) \in Nat
  BY <1>2, <1>3, <1>4, <1>6, CountsNow
<1>8. Owned(protocol, mem)
  BY <1>1, NowIs
<1> HIDE DEF left, next
<1>9. CASE \/ rest = None \/ mem[rest].pos # 0
           \/ protocol = "EF" /\ next.kind = "ack"
  <2> DEFINE w == HeaderKept(left)
  <2>1. Unused \in Kept /\ Unused \in Cells /\ Unused # None
    BY <1>1, NowIs, UnusedIs DEF Cells
  <2>2. w \in Buffers(protocol) /\ Within(w) /\ w.pos = Len(left) /\ w.lim = Len(left) /\ w.cap >= 4
        /\ \A i \in 1..Len(left) : w.bytes[i] = left[i]
    BY <1>2, <1>4, HeaderKeptIs
  <2>3. PICK u, m, o : u = Unused /\ m = Put(mem, u, w) /\ o = Freed(m, u)
    OBVIOUS
  <2>4. rest' = u /\ last' = 0 /\ mem' = o /\ buffer' = None /\ later' = None
    BY <1>4, <1>9, <2>3 DEF Return, Freed, Put
  <2> HIDE DEF w
  <2>5. Owned(protocol, m) /\ m[u] = w
    BY <1>8, <2>1, <2>2, <2>3, OwnedPut
  <2>6. o[u] = w
    BY <2>1, <2>3, <2>5 DEF Freed, Owned
  <2>7. o[u].pos = d /\ o[u].lim = o[u].pos /\ o[u].cap >= 4
        /\ \A i \in 1..d : o[u].bytes[i] = Sent[Base + i]
    BY <1>3, <1>6, <2>2, <2>6
  <2>8. Follows(conn, stream, arrived, o, None, u, None, 0, Len(out))
    <3>1. next.kind # "short"
      BY <1>4
    <3> QED
      BY <1>7, <2>1, <2>3, <2>7, <3>1, FollowsKeeping DEF Sent, Base, next
  <2> QED
    BY <1>1, <2>4, <2>8 DEF StillInStep
<1>10. CASE ~(\/ rest = None \/ mem[rest].pos # 0
              \/ protocol = "EF" /\ next.kind = "ack")
  <2> DEFINE w == Position(mem[rest], mem[rest].lim)
  <2>1. rest \in Cells /\ mem[rest] \in Buffers(protocol) /\ Within(mem[rest]) /\ rest # None
    BY <1>1, <1>10, NowIs
  <2>2. mem[rest].lim \in Nat
    BY <2>1 DEF Buffers
  <2>3. w \in Buffers(protocol) /\ Within(w) /\ w.bytes = mem[rest].bytes /\ w.pos = mem[rest].lim
        /\ w.lim = mem[rest].lim /\ w.cap = mem[rest].cap
    BY <2>1, <2>2, PositionIs
  <2>4. PICK m, o : m = Put(mem, rest, w) /\ o = Freed(m, rest)
    OBVIOUS
  <2>5. rest' = rest /\ last' = last /\ mem' = o /\ buffer' = None /\ later' = None
    BY <1>4, <1>10, <2>4 DEF Return, Freed, Put
  <2> HIDE DEF w
  <2>6. Owned(protocol, m) /\ m[rest] = w
    BY <1>8, <2>1, <2>3, <2>4, OwnedPut
  <2>7. o[rest] = w
    BY <2>1, <2>4, <2>6 DEF Freed, Owned
  <2>8. /\ buffer = rest /\ mem[rest].pos = 0
        /\ last = 0 => mem[rest].cap >= 4
        /\ last # 0 => last = Size(next) /\ mem[rest].lim = last
    BY <1>2, <2>1, FollowsIs DEF next
  <2>9. mem[rest].lim = d /\ \A i \in 1..d : mem[rest].bytes[i] = Sent[Base + i]
    <3>1. Ahead(mem[rest], Sent, Base, arrived)
      BY <1>2, <1>6, <2>8, FollowsIs
    <3>2. mem[rest].lim - 0 = d /\ \A i \in 1..d : mem[rest].bytes[0 + i] = Sent[Base + i]
      BY <2>8, <3>1 DEF Ahead
    <3>3. \A i \in 1..d : 0 + i = i
      BY <1>7
    <3> QED
      BY <2>2, <3>2, <3>3
  <2>10. last = 0
    BY <1>5, <1>7, <2>8, <2>9
  <2>11. o[rest].pos = d /\ o[rest].lim = o[rest].pos /\ o[rest].cap >= 4
         /\ \A i \in 1..d : o[rest].bytes[i] = Sent[Base + i]
    BY <2>3, <2>7, <2>8, <2>9, <2>10
  <2>12. Follows(conn, stream, arrived, o, None, rest, None, last, Len(out))
    <3>1. next.kind # "short"
      BY <1>4
    <3> QED
      BY <1>7, <2>1, <2>10, <2>11, <3>1, FollowsKeeping DEF Sent, Base, next
  <2> QED
    BY <1>1, <2>5, <2>12 DEF StillInStep
<1> QED
  BY <1>9, <1>10

LEMMA KeepPacketInStep ==
    ASSUME Typed, InStepNow, KeepPacket
    PROVE  StillInStep
<1> DEFINE left == Remaining(mem[buffer])
           next == stream[Len(out) + 1]
           len == Size(next)
           d == arrived - Base
<1>1. Now /\ Parsing /\ arrived' = arrived
  BY DEF Typed, Now, KeepPacket
<1>2. left \in Seq(BytesOf(protocol)) /\ Len(left) \in Nat /\ Len(left) >= 1 /\ buffer # None /\ buffer \in Cells
  BY <1>1, ParsingIs
<1>3. Len(out) \in 0..Len(stream) - 1 /\ Headers(left) = {next}
      /\ (later # None => Len(left) = len)
      /\ Len(left) = (IF later = None THEN arrived ELSE Up) - Base
      /\ \A i \in 1..Len(left) : left[i] = Sent[Base + i]
  BY <1>1, ParsesNext
<1>4. /\ next.kind \in {"short", "long"} /\ Len(left) < len /\ last' = len
      /\ IF rest = None \/ mem[rest].cap < len
         THEN rest' = Unused /\ Return([mem EXCEPT ![Unused] = PacketKept(len, left)], Unused)
         ELSE rest' = rest /\ Return([mem EXCEPT ![rest] = Limit(Position(@, @.lim), len)], rest)
  BY <1>3 DEF KeepPacket, PacketKept
<1>5. len \in Nat /\ len # 0
  <2>1. Size(next) \in Nat /\ Size(next) >= 1
    BY <1>3, CountsNow
  <2> QED
    BY <2>1
<1>6. later = None /\ Len(left) = d
  BY <1>2, <1>3, <1>4, <1>5
<1>7. arrived \in Nat /\ Base \in Nat /\ d < len /\ arrived > Base /\ d \in Nat /\ Len(out) < Len(stream)
      /\ Len(out) \in Nat /\ Len(stream) \in Nat
  BY <1>2, <1>3, <1>4, <1>6, CountsNow
<1>8. Owned(protocol, mem)
  BY <1>1, NowIs
<1>9. len = Size(stream[Len(out) + 1]) /\ stream[Len(out) + 1].kind # "ack"
  BY <1>4
<1> HIDE DEF left, next, len
<1>10. ASSUME NEW r, r # None, NEW o, o[r].pos = d, o[r].lim = len,
              \A i \in 1..d : o[r].bytes[i] = Sent[Base + i]
       PROVE  Follows(conn, stream, arrived, o, None, r, None, len, Len(out))
  BY <1>5, <1>7, <1>9, <1>10, FollowsKeeping DEF Sent, Base
<1>11. CASE rest = None \/ mem[rest].cap < len
  <2> DEFINE w == PacketKept(len, left)
  <2>1. Unused \in Kept /\ Unused \in Cells /\ Unused # None
    BY <1>1, NowIs, UnusedIs DEF Cells
  <2>2. w \in Buffers(protocol) /\ Within(w) /\ w.pos = Len(left) /\ w.lim = len
        /\ \A i \in 1..Len(left) : w.bytes[i] = left[i]
    BY <1>2, <1>5, <1>6, <1>7, PacketKeptIs
  <2>3. PICK u, m, o : u = Unused /\ m = Put(mem, u, w) /\ o = Freed(m, u)
    OBVIOUS
  <2>4. rest' = u /\ last' = len /\ mem' = o /\ buffer' = None /\ later' = None
    BY <1>4, <1>11, <2>3 DEF Return, Freed, Put
  <2> HIDE DEF w
  <2>5. Owned(protocol, m) /\ m[u] = w
    BY <1>8, <2>1, <2>2, <2>3, OwnedPut
  <2>6. o[u] = w
    BY <2>1, <2>3, <2>5 DEF Freed, Owned
  <2>7. o[u].pos = d /\ o[u].lim = len /\ \A i \in 1..d : o[u].bytes[i] = Sent[Base + i]
    BY <1>3, <1>6, <2>2, <2>6
  <2>8. Follows(conn, stream, arrived, o, None, u, None, len, Len(out))
    BY <1>10, <2>1, <2>3, <2>7
  <2> QED
    BY <1>1, <2>4, <2>8 DEF StillInStep
<1>12. CASE ~(rest = None \/ mem[rest].cap < len)
  <2> DEFINE b == Position(mem[rest], mem[rest].lim)
             w == Limit(b, len)
  <2>1. rest \in Cells /\ mem[rest] \in Buffers(protocol) /\ Within(mem[rest]) /\ rest # None
    BY <1>1, <1>12, NowIs
  <2>2. mem[rest].lim \in Nat /\ mem[rest].cap \in Nat
    BY <2>1 DEF Buffers
  <2>3. b \in Buffers(protocol) /\ Within(b) /\ b.bytes = mem[rest].bytes /\ b.pos = mem[rest].lim
        /\ b.cap = mem[rest].cap
    BY <2>1, <2>2, PositionIs
  <2>4. PICK m, o : m = Put(mem, rest, w) /\ o = Freed(m, rest)
    OBVIOUS
  <2>5. rest' = rest /\ last' = len /\ mem' = o /\ buffer' = None /\ later' = None
    BY <1>4, <1>12, <2>4 DEF Return, Freed, Put
  <2> HIDE DEF b
  <2>6. len <= b.cap
    BY <1>5, <1>12, <2>2, <2>3
  <2>7. w \in Buffers(protocol) /\ Within(w) /\ w.bytes = b.bytes /\ w.lim = len
        /\ w.pos = IF b.pos > len THEN len ELSE b.pos
    BY <1>5, <2>3, <2>6, LimitIs
  <2> HIDE DEF w
  <2>8. Owned(protocol, m) /\ m[rest] = w
    BY <1>8, <2>1, <2>4, <2>7, OwnedPut
  <2>9. o[rest] = w
    BY <2>1, <2>4, <2>8 DEF Freed, Owned
  <2>10. buffer = rest /\ mem[rest].pos = 0
    BY <1>2, <2>1, FollowsIs
  <2>11. mem[rest].lim = d /\ \A i \in 1..d : mem[rest].bytes[i] = Sent[Base + i]
    <3>1. Ahead(mem[rest], Sent, Base, arrived)
      BY <1>2, <1>6, <2>10, FollowsIs
    <3>2. mem[rest].lim - 0 = d /\ \A i \in 1..d : mem[rest].bytes[0 + i] = Sent[Base + i]
      BY <2>10, <3>1 DEF Ahead
    <3>3. \A i \in 1..d : 0 + i = i
      BY <1>7
    <3> QED
      BY <2>2, <3>2, <3>3
  <2>12. o[rest].pos = d /\ o[rest].lim = len /\ \A i \in 1..d : o[rest].bytes[i] = Sent[Base + i]
    BY <1>5, <1>7, <2>3, <2>7, <2>9, <2>11
  <2>13. Follows(conn, stream, arrived, o, None, rest, None, len, Len(out))
    BY <1>10, <2>1, <2>12
  <2> QED
    BY <1>1, <2>5, <2>13 DEF StillInStep
<1> QED
  BY <1>11, <1>12

\* One packet more has been handed over.
OneMore == Follows(conn, stream, arrived, mem', buffer', rest', later', last', Len(out) + 1)

LEMMA HandsOver ==
    ASSUME Typed, InStepNow, Parsing, ~upset, out = [i \in 1..Len(out) |-> i],
           NEW h \in Headers(Remaining(mem[buffer])), Size(h) <= Len(Remaining(mem[buffer]))
    PROVE  /\ h = stream[Len(out) + 1]
           /\ HandOver(SubSeq(Remaining(mem[buffer]), 1, Size(h))) = [i \in 1..Len(out) + 1 |-> i]
<1> DEFINE left == Remaining(mem[buffer])
           n == Len(out) + 1
           z == Size(stream[n])
           bytes == SubSeq(left, 1, z)
<1>1. Len(out) \in 0..Len(stream) - 1 /\ h = stream[n] /\ \A i \in 1..Len(left) : left[i] = Sent[Base + i]
  BY ParsesNext
<1>2. Now /\ stream \in Seq(Packets(protocol)) /\ Len(stream) <= MaxPackets /\ conn \in 1..MaxConnections
      /\ Len(stream) \in Nat
  BY StreamNow DEF Typed, Now
<1>3. n \in 1..Len(stream) /\ z \in Nat /\ z >= 1 /\ z <= Len(left)
      /\ \A o \in 1..z : Sent[Base + o] = PacketBytes(conn, stream, n)[o]
  BY <1>1, CountsNow
<1>4. bytes \in Seq(BytesOf(protocol)) /\ Len(bytes) = z /\ \A i \in 1..z : bytes[i] = left[i]
  BY <1>2, <1>3, HeadOfLeft
<1>5. PacketBytes(conn, stream, n) \in Seq(BytesOf(protocol)) /\ Len(PacketBytes(conn, stream, n)) = z
      /\ \A o \in 1..z : PacketBytes(conn, stream, n)[o] =
             [conn |-> conn, index |-> n, place |-> o, packet |-> stream[n]]
  BY <1>2, <1>3, PacketBytesIs
<1>6. Len(left) \in Nat
  BY <1>2, ParsingIs
<1> HIDE DEF left, bytes, z
<1>7. \A o \in 1..z : bytes[o] = PacketBytes(conn, stream, n)[o]
  BY <1>1, <1>3, <1>4, <1>6
<1>8. bytes = PacketBytes(conn, stream, n)
  <2>1. PICK q : q = PacketBytes(conn, stream, n)
    OBVIOUS
  <2>2. q \in Seq(BytesOf(protocol)) /\ Len(q) = z /\ \A o \in 1..z : bytes[o] = q[o]
    BY <1>5, <1>7, <2>1
  <2>3. bytes = q
    BY ONLY <1>4, <2>2
  <2> QED
    BY <2>1, <2>3
<1>9. bytes[1].index = n
  <2>1. 1 \in 1..z
    BY <1>3
  <2>2. bytes[1] = [conn |-> conn, index |-> n, place |-> 1, packet |-> stream[n]]
    BY <1>5, <1>7, <2>1
  <2> QED
    BY <2>2
<1>10. HandOver(bytes) = Append(out, n)
  BY <1>8, <1>9 DEF HandOver
<1>11. Append(out, n) = [i \in 1..n |-> i]
  <2>1. out \in Seq(0..MaxPackets) /\ Len(out) \in Nat
    BY DEF Typed
  <2>2. \A i \in 1..Len(out) : out[i] = i
    <3>1. PICK f : f = [i \in 1..Len(out) |-> i]
      OBVIOUS
    <3>2. \A i \in 1..Len(out) : f[i] = i
      BY <3>1
    <3> QED
      BY <3>1, <3>2
  <2>3. Append(out, n) = [i \in 1..Len(out) + 1 |-> IF i \in 1..Len(out) THEN out[i] ELSE n]
    BY ONLY <2>1
  <2>4. \A i \in 1..Len(out) + 1 : (IF i \in 1..Len(out) THEN out[i] ELSE n) = i
    BY <2>1, <2>2
  <2> QED
    BY <2>3, <2>4
<1> QED
  BY <1>1, <1>10, <1>11 DEF bytes, z, left

\* What is left behind a packet that has been taken from the buffer in the loop.
LEMMA AheadMoves ==
    ASSUME NEW b, NEW c, c.bytes = b.bytes, c.lim = b.lim, NEW z \in Nat, c.pos = b.pos + z,
           b.pos \in Nat, b.lim \in Nat,
           NEW bytes, NEW from \in Nat, NEW to \in Nat, Ahead(b, bytes, from, to)
    PROVE  Ahead(c, bytes, from + z, to)
<1>1. c.lim - c.pos = to - (from + z)
  BY DEF Ahead
<1>2. ASSUME NEW i \in 1..to - (from + z)
      PROVE  c.bytes[c.pos + i] = bytes[(from + z) + i]
  <2>1. z + i \in 1..to - from /\ c.pos + i = b.pos + (z + i) /\ (from + z) + i = from + (z + i)
    OBVIOUS
  <2>2. b.bytes[b.pos + (z + i)] = bytes[from + (z + i)]
    BY <2>1 DEF Ahead
  <2> QED
    BY <2>1, <2>2
<1> QED
  BY <1>1, <1>2 DEF Ahead

\* The same for a quick ack and for a message, whatever becomes of the rest.
LEMMA TakesNext ==
    ASSUME Typed, InStepNow, Parsing, NEW z, z = Size(stream[Len(out) + 1]),
           z <= Len(Remaining(mem[buffer])), NEW m, m = Consumed(mem, buffer, z)
    PROVE  /\ z \in Nat /\ z >= 1 /\ Len(out) + 1 <= Len(stream)
           /\ EndOf(conn, stream, Len(out) + 1) = Up /\ Up \in Nat /\ Up = Base + z /\ Up <= arrived
           /\ Ahead(m[buffer], Sent, Up, IF later = None THEN arrived ELSE Up)
           /\ m[buffer].pos = mem[buffer].pos + z /\ m[buffer].lim = mem[buffer].lim
           /\ m[buffer].pos \in Nat /\ m[buffer].lim \in Nat
<1> DEFINE to == IF later = None THEN arrived ELSE Up
<1>1. Now
  BY DEF Typed, Now
<1>2. Len(out) \in 0..Len(stream) - 1 /\ Ahead(mem[buffer], Sent, Base, to)
      /\ Len(Remaining(mem[buffer])) = to - Base
  BY ParsesNext
<1>3. z \in Nat /\ z >= 1 /\ Up = Base + z /\ Up \in Nat /\ Base \in Nat /\ arrived \in Nat
      /\ Len(out) + 1 \in 1..Len(stream) /\ Len(stream) \in Nat
  BY <1>2, CountsNow
<1>4. Up <= arrived
  <2>1. CASE later = None
    BY <1>2, <1>3, <2>1
  <2>2. CASE later # None
    BY <1>3, <2>2, FollowsIs
  <2> QED
    BY <2>1, <2>2
<1>5. m[buffer].bytes = mem[buffer].bytes /\ m[buffer].pos = mem[buffer].pos + z
      /\ m[buffer].lim = mem[buffer].lim
  BY <1>1, <1>3, ConsumedIs
<1>6. mem[buffer].pos \in Nat /\ mem[buffer].lim \in Nat
  BY <1>1, ParsingIs
<1>7. Ahead(m[buffer], Sent, Base + z, to)
  <2>1. to \in Nat
    BY <1>3
  <2> HIDE DEF to
  <2> QED
    BY <1>2, <1>3, <1>5, <1>6, <2>1, AheadMoves, ZenonT(40)
<1> QED
  BY <1>3, <1>4, <1>5, <1>6, <1>7 DEF Up

LEMMA QuickAckInStep ==
    ASSUME Typed, InStepNow, out = [i \in 1..Len(out) |-> i], QuickAck, ~upset'
    PROVE  OneMore /\ out' = [i \in 1..Len(out) + 1 |-> i]
<1> DEFINE left == Remaining(mem[buffer])
<1>1. Now /\ Parsing /\ ~upset /\ buffer # rest /\ arrived' = arrived /\ buffer' = buffer
      /\ rest' = rest /\ later' = later /\ last' = last
  BY DEF Typed, Now, QuickAck
<1>2. PICK h \in Headers(left) :
          /\ h.kind = "ack" /\ Len(left) >= 4
          /\ mem' = Consumed(mem, buffer, 4) /\ out' = HandOver(SubSeq(left, 1, 4))
  BY DEF QuickAck, Consumed
<1>3. Len(left) \in Nat /\ h \in Packets(protocol) /\ buffer # None
  BY <1>1, <1>2, ParsingIs
<1>4. Size(h) = 4
  BY <1>2, <1>3, PacketIs
<1>5. h = stream[Len(out) + 1] /\ HandOver(SubSeq(left, 1, Size(h))) = [i \in 1..Len(out) + 1 |-> i]
  <2>1. Size(h) <= Len(left)
    BY <1>2, <1>3, <1>4
  <2> QED
    BY <1>1, <2>1, HandsOver
<1>6. rest = None /\ later = None
  BY <1>1, <1>3, FollowsIs, NowIs
<1>7. PICK m : m = Consumed(mem, buffer, 4)
  OBVIOUS
<1>8. Len(out) + 1 <= Len(stream) /\ EndOf(conn, stream, Len(out) + 1) = Up /\ Up <= arrived
      /\ Ahead(m[buffer], Sent, Up, arrived)
  <2>1. 4 = Size(stream[Len(out) + 1]) /\ 4 <= Len(left)
    BY <1>2, <1>3, <1>4, <1>5
  <2> QED
    BY <1>1, <1>6, <1>7, <2>1, TakesNext
<1>9. Follows(conn, stream, arrived, m, buffer, None, None, last, Len(out) + 1)
  BY <1>3, <1>8, FollowsParsing DEF Sent
<1> QED
  BY <1>1, <1>2, <1>4, <1>5, <1>6, <1>7, <1>9 DEF OneMore

LEMMA MessageInStep ==
    ASSUME Typed, InStepNow, out = [i \in 1..Len(out) |-> i], Message, ~upset'
    PROVE  OneMore /\ out' = [i \in 1..Len(out) + 1 |-> i]
<1> DEFINE left == Remaining(mem[buffer])
           next == stream[Len(out) + 1]
           z == Size(next)
<1>1. Now /\ Parsing /\ ~upset /\ arrived' = arrived /\ last' = last
  BY DEF Typed, Now, Message
<1>2. PICK h \in Headers(left) :
          /\ h.kind \in {"short", "long"} /\ Len(left) >= Size(h)
          /\ out' = HandOver(SubSeq(left, 1, Size(h)))
          /\ AfterMessage([mem EXCEPT ![buffer] = Position(@, @.pos + Size(h))])
  BY DEF Message
<1>3. Len(left) \in Nat /\ buffer # None /\ buffer \in Cells
  BY <1>1, ParsingIs
<1>4. Size(h) \in Nat /\ Size(h) <= Len(left)
  BY <1>1, <1>2, TakenIs
<1>5. h = next /\ out' = [i \in 1..Len(out) + 1 |-> i]
  BY <1>1, <1>2, <1>4, HandsOver
<1>6. PICK m : m = Consumed(mem, buffer, z)
  OBVIOUS
<1>7. AfterMessage(m)
  BY <1>2, <1>5, <1>6 DEF Consumed
<1>8. /\ z \in Nat /\ z >= 1 /\ Len(out) + 1 <= Len(stream)
      /\ EndOf(conn, stream, Len(out) + 1) = Up /\ Up \in Nat /\ Up <= arrived
      /\ Ahead(m[buffer], Sent, Up, IF later = None THEN arrived ELSE Up)
      /\ m[buffer].pos = mem[buffer].pos + z /\ m[buffer].lim = mem[buffer].lim
      /\ m[buffer].pos \in Nat /\ m[buffer].lim \in Nat
  BY <1>1, <1>4, <1>5, <1>6, TakesNext
<1>9. Owned(protocol, m) /\ Filled(m[buffer]) /\ m[buffer].cap = mem[buffer].cap
      /\ (later # None => m[Net] = mem[Net])
  BY <1>1, <1>4, <1>5, <1>6, ConsumedIs
<1> HIDE DEF z, left, next
<1>10. ASSUME NEW b, b # None, NEW o, Ahead(o[b], Sent, Up, arrived),
              NEW r, r # None => b = r /\ o[r].pos = 0 /\ o[r].lim > 0 /\ last = 0 /\ o[r].cap >= 4
       PROVE  Follows(conn, stream, arrived, o, b, r, None, last, Len(out) + 1)
  BY <1>8, <1>10, FollowsParsing DEF Sent
<1>11. CASE rest = None
  <2>1. rest' = None /\ mem' = m /\ buffer' = buffer /\ later' = None /\ later = None
    BY <1>1, <1>7, <1>11, NowIs DEF AfterMessage
  <2>2. Follows(conn, stream, arrived, m, buffer, None, None, last, Len(out) + 1)
    BY <1>3, <1>8, <1>10, <2>1
  <2> QED
    BY <1>1, <1>5, <2>1, <2>2 DEF OneMore
<1>12. CASE rest # None
  <2>1. /\ buffer = rest /\ mem[rest].pos = 0 /\ mem[rest].lim > 0
        /\ last = 0 => mem[rest].cap >= 4
        /\ last # 0 => last = z /\ mem[rest].lim = last
    BY <1>3, <1>12, FollowsIs DEF z, next
  <2>2. m[rest].pos = z
    BY <1>8, <2>1
  <2>3. CASE last # 0
    <3>1. rest' = None /\ mem' = m /\ later' = None /\ buffer' = (IF later # None THEN later ELSE buffer)
      BY <1>7, <1>12, <2>1, <2>2, <2>3 DEF AfterMessage
    <3>2. CASE later = None
      <4>1. Follows(conn, stream, arrived, m, buffer, None, None, last, Len(out) + 1)
        BY <1>3, <1>8, <1>10, <3>2
      <4> QED
        BY <1>1, <1>5, <3>1, <3>2, <4>1 DEF OneMore
    <3>3. CASE later # None
      <4>1. later = Net /\ Net # None /\ Ahead(mem[Net], Sent, Up, arrived)
        BY <1>1, <3>3, FollowsIs, NowIs DEF Net, None
      <4>2. Ahead(m[Net], Sent, Up, arrived)
        BY <1>9, <3>3, <4>1
      <4>3. Follows(conn, stream, arrived, m, Net, None, None, last, Len(out) + 1)
        BY <1>10, <4>1, <4>2
      <4> QED
        BY <1>1, <1>5, <3>1, <3>3, <4>1, <4>3 DEF OneMore
    <3> QED
      BY <3>2, <3>3
  <2>4. CASE last = 0
    <3>1. later = None
      BY <2>4, FollowsIs
    <3>2. Ahead(m[buffer], Sent, Up, arrived)
      BY <1>8, <3>1
    <3>3. CASE ~HasRemaining(m[rest])
      <4>1. rest' = None /\ mem' = m /\ later' = None /\ buffer' = buffer
        BY <1>7, <1>12, <2>4, <3>1, <3>3 DEF AfterMessage
      <4>2. Follows(conn, stream, arrived, m, buffer, None, None, last, Len(out) + 1)
        BY <1>3, <1>10, <3>2
      <4> QED
        BY <1>1, <1>5, <4>1, <4>2 DEF OneMore
    <3>4. CASE HasRemaining(m[rest])
      <4> DEFINE w == Moved(m[rest])
      <4>1. rest' = rest /\ mem' = [m EXCEPT ![rest] = w] /\ later' = None /\ buffer' = buffer
        BY <1>7, <1>12, <2>4, <3>1, <3>4 DEF AfterMessage, Moved
      <4>2. m[rest] \in Buffers(protocol) /\ Within(m[rest]) /\ Filled(m[rest]) /\ m[rest].pos < m[rest].lim
            /\ m[rest].pos \in Nat /\ m[rest].lim \in Nat /\ m[rest].cap >= 4 /\ rest \in Cells
        BY <1>3, <1>8, <1>9, <2>1, <2>4, <3>4 DEF Owned, HasRemaining
      <4>3. w \in Buffers(protocol) /\ Within(w) /\ w.pos = 0 /\ w.cap = m[rest].cap
            /\ w.lim = m[rest].lim - m[rest].pos
            /\ \A i \in 1..m[rest].lim - m[rest].pos : w.bytes[i] = m[rest].bytes[m[rest].pos + i]
        BY <4>2, MovedIs
      <4> HIDE DEF w
      <4>4. Ahead(w, Sent, Up, arrived)
        <5>1. m[rest].lim - m[rest].pos = arrived - Up
              /\ \A i \in 1..arrived - Up : m[rest].bytes[m[rest].pos + i] = Sent[Up + i]
          BY <2>1, <3>2 DEF Ahead
        <5>2. w.lim - w.pos = arrived - Up
          BY <4>2, <4>3, <5>1
        <5>3. \A i \in 1..arrived - Up : w.bytes[w.pos + i] = Sent[Up + i]
          <6>1. arrived \in Nat /\ Up \in Nat
            BY <1>8, CountsNow
          <6>2. \A i \in 1..arrived - Up : 0 + i = i
            BY <6>1
          <6> QED
            BY <4>3, <5>1, <6>2
        <5> QED
          BY <5>2, <5>3 DEF Ahead
      <4>5. PICK o : o = Put(m, rest, w)
        OBVIOUS
      <4>6. o[rest] = w
        BY <1>9, <4>2, <4>3, <4>5, OwnedPut
      <4>7. w.lim > 0 /\ w.cap >= 4
        BY <4>2, <4>3
      <4>8. Follows(conn, stream, arrived, o, buffer, rest, None, last, Len(out) + 1)
        BY <1>3, <1>10, <2>1, <2>4, <4>3, <4>4, <4>6, <4>7
      <4> QED
        BY <1>1, <1>5, <4>1, <4>5, <4>8 DEF OneMore, Put
    <3> QED
      BY <3>3, <3>4
  <2> QED
    BY <2>3, <2>4
<1> QED
  BY <1>11, <1>12

\* Bytes kept up to the d-th, and k of a read behind them.
Begins(b, bytes, from, k) == \A i \in 1..k : b.bytes[i] = bytes[from + i]
Joined(z, r, net, d, k) ==
    /\ z.pos = 0 /\ z.lim = d + k
    /\ \A i \in 1..d : z.bytes[i] = r.bytes[i]
    /\ \A i \in 1..k : z.bytes[d + i] = net.bytes[i]

LEMMA AheadJoined ==
    ASSUME NEW d \in Nat, NEW k \in Nat, NEW z, NEW r, NEW net, NEW bytes, NEW from \in Nat,
           Begins(r, bytes, from, d), Begins(net, bytes, from + d, k), Joined(z, r, net, d, k)
    PROVE  Ahead(z, bytes, from, from + d + k)
<1>1. z.lim - z.pos = (from + d + k) - from /\ (from + d + k) - from = d + k
  BY DEF Joined
<1>2. ASSUME NEW i \in 1..d + k
      PROVE  z.bytes[z.pos + i] = bytes[from + i]
  <2>1. z.pos + i = i
    BY DEF Joined
  <2>2. CASE i <= d
    <3>1. i \in 1..d
      BY <2>2
    <3> QED
      BY <2>1, <3>1 DEF Joined, Begins
  <2>3. CASE ~(i <= d)
    <3>1. i - d \in 1..k /\ d + (i - d) = i /\ (from + d) + (i - d) = from + i
      BY <2>3
    <3>2. z.bytes[d + (i - d)] = net.bytes[i - d]
      BY <3>1 DEF Joined
    <3>3. net.bytes[i - d] = bytes[(from + d) + (i - d)]
      BY <3>1 DEF Begins
    <3> QED
      BY <2>1, <3>1, <3>2, <3>3
  <2> QED
    BY <2>2, <2>3
<1> QED
  BY <1>1, <1>2 DEF Ahead

LEMMA ReceiveInStep ==
    ASSUME Typed, InStepNow, NEW n \in 1..MaxChunk, Receive(n)
    PROVE  StillInStep
<1> DEFINE next == stream[Len(out) + 1]
<1>1. Now /\ buffer = None /\ arrived + n <= Len(Sent) /\ arrived' = arrived + n /\ last' = last
  BY DEF Typed, Now, Receive, Sent
<1>2. PICK net : net = Read(n)
  OBVIOUS
<1>3. IsRead(protocol, net) /\ net.lim = n /\ n \in Nat /\ arrived \in Nat
      /\ \A i \in 1..n : net.bytes[i] = Sent[arrived + i]
  <2>1. arrived + n <= Len(StreamBytes(conn, stream))
    BY <1>1 DEF Sent
  <2> QED
    BY <1>2, <2>1, ReadIs DEF Sent
<1> PICK d : d = arrived - Base
  OBVIOUS
<1>4. d = arrived - Base /\ Base \in Nat /\ Base <= arrived /\ d \in Nat /\ Len(out) <= Len(stream) /\ n >= 1
      /\ Len(out) \in Nat /\ Len(stream) \in Nat /\ Base + d = arrived /\ Base + d + n = arrived + n
  <2>1. Base \in Nat /\ Base <= arrived /\ Len(out) <= Len(stream) /\ Len(out) \in Nat /\ Len(stream) \in Nat
    BY CountsNow, FollowsIs
  <2>2. n >= 1
    OBVIOUS
  <2> QED
    BY <1>3, <2>1, <2>2
<1>5. Owned(protocol, mem) /\ Net \in Cells /\ None \notin Cells
  BY <1>1, NowIs
<1>6. CASE rest = None
  <2>1. mem' = Put(mem, Net, net) /\ buffer' = Net /\ later' = None /\ rest' = None
    BY <1>2, <1>6 DEF Receive, Read, Put
  <2>2. PICK m : m = Put(mem, Net, net)
    OBVIOUS
  <2>3. net \in Buffers(protocol) /\ Within(net) /\ net.pos = 0
    BY <1>3 DEF IsRead
  <2>4. m[Net] = net
    BY <1>5, <2>2, <2>3, OwnedPut
  <2>5. arrived = Base
    BY <1>1, <1>6, FollowsIs
  <2>6. Ahead(net, Sent, Base, arrived + n)
    <3>1. net.lim - net.pos = n /\ (arrived + n) - Base = n
      <4>1. net.lim = n /\ net.pos = 0 /\ n \in Nat /\ Base \in Nat
        BY <1>3, <1>4, <2>3
      <4> QED
        BY <2>5, <4>1
    <3>2. \A i \in 1..n : net.bytes[net.pos + i] = Sent[Base + i]
      BY <1>3, <2>3, <2>5
    <3> QED
      BY <3>1, <3>2 DEF Ahead
  <2>7. Base <= arrived + n /\ Net # None
    BY <1>3, <1>4, <1>5
  <2>8. Follows(conn, stream, arrived + n, m, Net, None, None, last, Len(out))
    BY <1>4, <2>4, <2>6, <2>7, FollowsParsing DEF Sent, Base
  <2> QED
    BY <1>1, <2>1, <2>2, <2>8 DEF StillInStep
<1>7. CASE rest # None
  <2>1. /\ Len(out) < Len(stream) /\ mem[rest].pos = d /\ arrived > Base
        /\ \A i \in 1..d : mem[rest].bytes[i] = Sent[Base + i]
        /\ last = 0 => mem[rest].lim = mem[rest].pos /\ mem[rest].cap >= 4
        /\ last # 0 => d < last /\ next.kind # "ack" /\ last = Size(next) /\ mem[rest].lim = last
    BY <1>1, <1>4, <1>7, FollowsIs
  <2>2. Size(next) \in Nat /\ Up = Base + Size(next) /\ Up \in Nat
    BY <1>4, <2>1, CountsNow
  <2>3. EndOf(conn, stream, Len(out) + 1) = Up
    BY DEF Up
  <2>4. next.kind # "ack" => stream[Len(out) + 1].kind # "ack"
    OBVIOUS
  <2>5. PICK r : r = mem[rest]
    OBVIOUS
  <2>6. CASE last = 0
    <3>1. JoinHeader(net)
      BY <1>2, <1>7, <2>6 DEF Receive, Read
    <3>2. /\ rest' \in Kept /\ buffer' = rest' /\ later' = None /\ mem'[rest'].pos = 0
          /\ mem'[rest'].cap >= mem[rest].cap
          /\ mem[rest].lim = mem[rest].pos =>
                /\ mem'[rest'].lim = mem[rest].pos + net.lim
                /\ \A i \in 1..mem[rest].pos : mem'[rest'].bytes[i] = mem[rest].bytes[i]
                /\ \A i \in 1..net.lim : mem'[rest'].bytes[mem[rest].pos + i] = net.bytes[i]
          /\ Owned(protocol, mem')
      BY <1>1, <1>3, <1>7, <2>6, <3>1, JoinHeaderDoes
    <3>3. PICK o, u, z : o = mem' /\ u = rest' /\ z = o[u]
      OBVIOUS
    <3>4. /\ z.pos = 0 /\ z.lim = d + n /\ z.cap >= r.cap /\ r.cap >= 4 /\ u \in Kept
          /\ \A i \in 1..d : r.bytes[i] = Sent[Base + i]
          /\ \A i \in 1..n : net.bytes[i] = Sent[(Base + d) + i]
          /\ \A i \in 1..d : z.bytes[i] = r.bytes[i]
          /\ \A i \in 1..n : z.bytes[d + i] = net.bytes[i]
      BY <1>3, <1>4, <2>1, <2>5, <2>6, <3>2, <3>3
    <3>5. Ahead(z, Sent, Base, arrived + n)
      <4>1. Ahead(z, Sent, Base, Base + d + n)
        <5>1. Joined(z, r, net, d, n)
          BY <3>4 DEF Joined
        <5>2. Begins(r, Sent, Base, d)
          BY <3>4 DEF Begins
        <5>3. Begins(net, Sent, Base + d, n)
          BY <3>4 DEF Begins
        <5>4. d \in Nat /\ n \in Nat /\ Base \in Nat
          BY <1>3, <1>4
        <5> QED
          BY ONLY <5>1, <5>2, <5>3, <5>4, AheadJoined
      <4> QED
        BY <1>4, <4>1
    <3>6. z.lim > 0 /\ z.cap >= 4 /\ u # None /\ Base <= arrived + n
      <4>1. z \in Buffers(protocol) /\ r \in Buffers(protocol)
        BY <1>1, <1>7, <2>5, <3>2, <3>3, NowIs DEF Owned, Cells
      <4>2. z.cap \in Nat /\ r.cap \in Nat
        BY <4>1 DEF Buffers
      <4> QED
        <5>1. u # None
          BY <3>4 DEF Kept, None
        <5>2. z.lim = d + n /\ z.cap >= r.cap /\ r.cap >= 4
          BY <3>4
        <5> QED
          BY <1>3, <1>4, <4>2, <5>1, <5>2
    <3>7. Follows(conn, stream, arrived + n, o, u, u, None, last, Len(out))
      <4> HIDE DEF next
      <4> QED
        BY <1>4, <2>6, <3>3, <3>4, <3>5, <3>6, FollowsParsing DEF Sent, Base
    <3> QED
      BY <1>1, <3>2, <3>3, <3>7 DEF StillInStep
  <2>7. CASE last # 0
    <3> DEFINE k == Taken(n)
    <3>1. JoinPacket(net)
      BY <1>2, <1>7, <2>7 DEF Receive, Read
    <3>2. PICK o, z : o = mem' /\ z = o[rest]
      OBVIOUS
    <3>3. /\ rest' = rest /\ k \in Nat /\ k <= n
          /\ \/ /\ mem[rest].pos + k = last
                /\ buffer' = rest /\ later' = (IF k < n THEN Net ELSE None)
                /\ z.pos = 0 /\ z.lim = last
                /\ \A i \in 1..mem[rest].pos : z.bytes[i] = mem[rest].bytes[i]
                /\ \A i \in 1..k : z.bytes[mem[rest].pos + i] = net.bytes[i]
                /\ o[Net].bytes = net.bytes /\ o[Net].pos = k /\ o[Net].lim = n
             \/ /\ buffer' = None /\ later' = None
                /\ z.lim = mem[rest].lim
                /\ mem[rest].lim = last =>
                      /\ k = n
                      /\ mem[rest].pos + k < last
                      /\ z.pos = mem[rest].pos + k
                      /\ \A i \in 1..mem[rest].pos : z.bytes[i] = mem[rest].bytes[i]
                      /\ \A i \in 1..k : z.bytes[mem[rest].pos + i] = net.bytes[i]
      BY <1>1, <1>3, <1>7, <2>7, <3>1, <3>2, JoinPacketDoes
    <3> HIDE DEF k
    <3>4. \A i \in 1..k : net.bytes[i] = Sent[(Base + d) + i]
      <4>1. \A i \in 1..k : i \in 1..n
        BY <1>3, <3>3
      <4>2. Base + d = arrived
        BY <1>4
      <4> QED
        BY <1>3, <4>1, <4>2
    <3>5. last \in Nat /\ rest \in Kept
      BY <1>1, <1>7, NowIs
    <3>6. CASE buffer' = rest
      <4>1. /\ d + k = last /\ later' = (IF k < n THEN Net ELSE None) /\ z.pos = 0 /\ z.lim = d + k
            /\ \A i \in 1..d : z.bytes[i] = r.bytes[i]
            /\ \A i \in 1..k : z.bytes[d + i] = net.bytes[i]
            /\ \A i \in 1..d : r.bytes[i] = Sent[Base + i]
            /\ o[Net].bytes = net.bytes /\ o[Net].pos = k /\ o[Net].lim = n
        BY <1>7, <2>1, <2>5, <3>3, <3>6
      <4>2. Ahead(z, Sent, Base, Base + d + k)
        <5>1. Joined(z, r, net, d, k)
          BY <4>1 DEF Joined
        <5>2. Begins(r, Sent, Base, d)
          BY <4>1 DEF Begins
        <5>3. Begins(net, Sent, Base + d, k)
          BY <3>4 DEF Begins
        <5>4. d \in Nat /\ k \in Nat /\ Base \in Nat
          BY <1>4, <3>3
        <5> QED
          BY ONLY <5>1, <5>2, <5>3, <5>4, AheadJoined
      <4>3. Base + d + k = Up /\ arrived + k = Up /\ last = Size(next) /\ next.kind # "ack" /\ z.lim > 0
        BY <1>3, <1>4, <2>1, <2>2, <2>7, <3>3, <3>5, <4>1
      <4>4. CASE k = n
        <5>1. Ahead(z, Sent, Base, arrived + n) /\ later' = None
          BY <1>3, <1>4, <4>1, <4>2, <4>4
        <5>2. Follows(conn, stream, arrived + n, o, rest, rest, None, last, Len(out))
          <6>1. Base <= arrived + n
            BY <1>3, <1>4
          <6> QED
            BY <1>4, <1>7, <2>1, <2>7, <3>2, <4>1, <4>3, <5>1, <6>1, FollowsParsing, SMTT(40)
            DEF Sent, Base
        <5> QED
          BY <1>1, <3>2, <3>3, <3>6, <5>1, <5>2 DEF StillInStep
      <4>5. CASE k # n
        <5>1. later' = Net /\ Up < arrived + n /\ Base <= arrived + n /\ Net # None
          BY <1>3, <1>4, <1>5, <3>3, <4>1, <4>3, <4>5
        <5>2. Ahead(z, Sent, Base, Up)
          BY <4>2, <4>3
        <5>3. Ahead(o[Net], Sent, Up, arrived + n)
          <6>1. o[Net].lim - o[Net].pos = (arrived + n) - Up
            BY <1>3, <3>3, <4>1, <4>3, <2>2
          <6>2. ASSUME NEW i \in 1..(arrived + n) - Up
                PROVE  o[Net].bytes[o[Net].pos + i] = Sent[Up + i]
            <7>1. k + i \in 1..n /\ arrived + (k + i) = Up + i
              BY <1>3, <3>3, <4>3
            <7> QED
              BY <1>3, <4>1, <7>1
          <6> QED
            BY <6>1, <6>2 DEF Ahead
        <5>4. Follows(conn, stream, arrived + n, o, rest, rest, Net, last, Len(out))
          BY <1>4, <1>7, <2>1, <2>3, <2>7, <3>2, <4>1, <4>3, <5>1, <5>2, <5>3 DEF Follows, Sent, Base
        <5> QED
          BY <1>1, <3>2, <3>3, <3>6, <5>1, <5>4 DEF StillInStep
      <4> QED
        BY <4>4, <4>5
    <3>7. CASE buffer' = None
      <4>1. /\ later' = None /\ z.lim = last /\ k = n /\ d + n < last /\ z.pos = d + n
            /\ \A i \in 1..d : z.bytes[i] = r.bytes[i]
            /\ \A i \in 1..n : z.bytes[d + i] = net.bytes[i]
            /\ \A i \in 1..d : r.bytes[i] = Sent[Base + i]
        BY <2>1, <2>5, <2>7, <3>3, <3>5, <3>7 DEF Kept, None
      <4>2. \A i \in 1..d + n : z.bytes[i] = Sent[Base + i]
        <5> SUFFICES ASSUME NEW i \in 1..d + n PROVE z.bytes[i] = Sent[Base + i]
          OBVIOUS
        <5>1. CASE i <= d
          <6>1. i \in 1..d
            BY <1>4, <5>1
          <6> QED
            BY <4>1, <6>1
        <5>2. CASE ~(i <= d)
          <6>1. i - d \in 1..n /\ d + (i - d) = i /\ (Base + d) + (i - d) = Base + i
            BY <1>3, <1>4, <5>2
          <6>2. z.bytes[d + (i - d)] = net.bytes[i - d] /\ net.bytes[i - d] = Sent[(Base + d) + (i - d)]
            BY <3>4, <4>1, <6>1
          <6> QED
            BY <6>1, <6>2
        <5> QED
          BY <5>1, <5>2
      <4>3. (arrived + n) - Base = d + n /\ arrived + n > Base /\ arrived + n \in Nat
        BY <1>3, <1>4
      <4>4. Follows(conn, stream, arrived + n, o, None, rest, None, last, Len(out))
        <5>1. o[rest].pos = (arrived + n) - Base /\ (arrived + n) - Base < last /\ o[rest].lim = last
          BY <3>2, <4>1, <4>3
        <5>2. \A i \in 1..(arrived + n) - Base : o[rest].bytes[i] = Sent[Base + i]
          BY <3>2, <4>2, <4>3
        <5>3. stream[Len(out) + 1].kind # "ack" /\ last = Size(stream[Len(out) + 1])
          BY <2>1, <2>7
        <5> HIDE DEF next
        <5> QED
          BY <1>4, <1>7, <2>1, <2>7, <4>3, <5>1, <5>2, <5>3, FollowsKeeping DEF Sent, Base
      <4> QED
        BY <1>1, <3>2, <3>3, <3>7, <4>1, <4>4 DEF StillInStep
    <3> QED
      BY <3>3, <3>6, <3>7
  <2> QED
    BY <2>6, <2>7
<1> QED
  BY <1>6, <1>7

-----------------------------------------------------------------------------
(* The theorems.                                                             *)
Counted == out = [i \in 1..Len(out) |-> i]

LEMMA StartsAtZero ==
    ASSUME NEW p, NEW s \in Streams(p, MaxPackets), NEW c \in 1..MaxConnections
    PROVE  EndOf(c, s, 0) = 0 /\ 0 <= Len(s)
<1>1. s \in Seq(Packets(p)) /\ Len(s) \in 1..MaxPackets
  BY StreamIs, StreamAssumption
<1>2. Len(s) <= MaxPackets /\ 0 <= Len(s)
  BY <1>1, StreamAssumption
<1> QED
  BY <1>1, <1>2, EndOfIs

LEMMA NothingCounted ==
    ASSUME NEW o, o = <<>>
    PROVE  o = [i \in 1..Len(o) |-> i] /\ Len(o) = 0
  OBVIOUS

\* A connection that is established again begins with nothing kept.
LEMMA ReconnectInStep ==
    ASSUME Typed', Reconnect, buffer' = None, later' = None
    PROVE  InStepInv'
<1>1. out' = <<>> /\ arrived' = 0 /\ rest' = None /\ last' = 0
  BY DEF Reconnect
<1>2. PICK c, s, m, o : c = conn' /\ s = stream' /\ m = mem' /\ o = out'
  OBVIOUS
<1>3. EndOf(c, s, 0) = 0 /\ 0 <= Len(s)
  BY <1>2, StartsAtZero DEF Typed
<1>4. o = [i \in 1..Len(o) |-> i] /\ Len(o) = 0
  BY <1>1, <1>2, NothingCounted
<1>5. Follows(c, s, 0, m, None, None, None, 0, 0)
  BY <1>3, FollowsWithout
<1> QED
  BY <1>1, <1>2, <1>4, <1>5 DEF InStepInv

LEMMA MessageReconnectsInStep ==
    ASSUME Typed, Typed', MessageReconnects
    PROVE  InStepInv'
<1> SUFFICES ASSUME ~upset' PROVE InStepInv'
  BY DEF InStepInv, InStep
<1>1. Now /\ Parsing /\ out' = <<>> /\ arrived' = 0 /\ rest' = None /\ last' = 0 /\ later' = None
      /\ buffer' = (IF later # None THEN later ELSE buffer)
  BY DEF Typed, Now, MessageReconnects, Reconnect
<1>2. PICK h \in Headers(Remaining(mem[buffer])) :
          /\ h.kind \in {"short", "long"} /\ Len(Remaining(mem[buffer])) >= Size(h)
          /\ upset' = (later # None \/ Len(Remaining(mem[buffer])) > Size(h))
          /\ mem' = Consumed(mem, buffer, Size(h))
  BY DEF MessageReconnects, Consumed
<1>3. Size(h) \in Nat /\ Size(h) <= Len(Remaining(mem[buffer]))
  BY <1>1, <1>2, TakenIs
<1>4. PICK m : m = Consumed(mem, buffer, Size(h))
  OBVIOUS
<1>5. m[buffer].pos = mem[buffer].pos + Size(h) /\ m[buffer].lim = mem[buffer].lim
  BY <1>1, <1>3, <1>4, ConsumedIs
<1>6. later = None /\ Size(h) = Len(Remaining(mem[buffer]))
  <2>1. ~(later # None \/ Len(Remaining(mem[buffer])) > Size(h))
    BY ONLY <1>2, ~upset', ZenonT(30)
  <2>2. Len(Remaining(mem[buffer])) \in Nat
    BY <1>1, ParsingIs
  <2> QED
    BY ONLY <1>3, <2>1, <2>2
<1>7. m[buffer].lim - m[buffer].pos = 0 /\ buffer # None
  BY <1>1, <1>3, <1>5, <1>6, ParsingIs
<1>8. PICK c, s, o : c = conn' /\ s = stream' /\ o = out'
  OBVIOUS
<1>9. EndOf(c, s, 0) = 0 /\ 0 <= Len(s)
  BY <1>8, StartsAtZero DEF Typed
<1>10. o = [i \in 1..Len(o) |-> i] /\ Len(o) = 0
  BY <1>1, <1>8, NothingCounted
<1>11. Ahead(m[buffer], StreamBytes(c, s), EndOf(c, s, 0), 0)
  BY <1>7, <1>9 DEF Ahead
<1>12. Follows(c, s, 0, m, buffer, None, None, 0, 0)
  <2>1. EndOf(c, s, 0) <= 0
    BY <1>9
  <2> QED
    BY <1>7, <1>9, <1>11, <2>1, FollowsParsing
<1> QED
  BY <1>1, <1>2, <1>4, <1>6, <1>8, <1>10, <1>12 DEF InStepInv

LEMMA NextInStep ==
    ASSUME Typed, Typed', InStepInv, [Next]_vars
    PROVE  InStepInv'
<1>1. CASE UNCHANGED vars
  BY <1>1 DEF vars, InStepInv, InStep
<1>2. CASE InvalidLength
  BY <1>2, ReconnectInStep DEF InvalidLength, Return
<1>3. CASE Disconnect
  BY <1>3, ReconnectInStep DEF Disconnect, Return
<1>4. CASE MessageReconnects
  BY <1>4, MessageReconnectsInStep
<1>5. ASSUME conn' = conn, stream' = stream, upset' = upset, out' = out,
             InStepNow => StillInStep
      PROVE  InStepInv'
  BY <1>5 DEF InStepInv, InStep, InStepNow, StillInStep
<1>6. CASE LoopEnds
  BY <1>5, <1>6, LoopEndsInStep DEF LoopEnds
<1>7. CASE KeepHeader
  BY <1>5, <1>7, KeepHeaderInStep DEF KeepHeader
<1>8. CASE KeepPacket
  BY <1>5, <1>8, KeepPacketInStep DEF KeepPacket
<1>9. ASSUME NEW n \in 1..MaxChunk, Receive(n) PROVE InStepInv'
  BY <1>5, <1>9, ReceiveInStep DEF Receive
<1>10. ASSUME conn' = conn, stream' = stream, arrived' = arrived, ~upset' => ~upset,
              ~upset' /\ Counted /\ InStepNow => OneMore /\ out' = [i \in 1..Len(out) + 1 |-> i]
       PROVE  InStepInv'
  <2> SUFFICES ASSUME ~upset' PROVE InStepInv'
    BY DEF InStepInv, InStep
  <2>1. Counted /\ InStepNow
    BY <1>10 DEF InStepInv, InStep, Counted, InStepNow
  <2>2. OneMore /\ out' = [i \in 1..Len(out) + 1 |-> i]
    BY <1>10, <2>1
  <2>3. Len(out) \in Nat
    BY DEF Typed
  <2>4. PICK n, o : n = Len(out) + 1 /\ o = out'
    OBVIOUS
  <2>5. o = [i \in 1..n |-> i] /\ n \in Nat
    BY <2>2, <2>3, <2>4
  <2>6. Len(o) = n
    BY <2>5
  <2> QED
    BY <1>10, <2>2, <2>4, <2>5, <2>6 DEF InStepInv, OneMore
<1>11. CASE QuickAck
  <2>1. ~upset' /\ Counted /\ InStepNow => OneMore /\ out' = [i \in 1..Len(out) + 1 |-> i]
    BY <1>11, QuickAckInStep DEF Counted
  <2> QED
    BY <1>10, <1>11, <2>1 DEF QuickAck
<1>12. CASE Message
  <2>1. ~upset' /\ Counted /\ InStepNow => OneMore /\ out' = [i \in 1..Len(out) + 1 |-> i]
    BY <1>12, MessageInStep DEF Counted
  <2> QED
    BY <1>10, <1>12, <2>1 DEF Message
<1> QED
  BY <1>1, <1>2, <1>3, <1>4, <1>6, <1>7, <1>8, <1>9, <1>11, <1>12 DEF Next

LEMMA InitInStep ==
    ASSUME Init
    PROVE  InStepInv
<1>1. Typed
  BY InitTyped
<1>2. out = <<>> /\ arrived = 0 /\ rest = None /\ buffer = None /\ later = None /\ last = 0
  BY DEF Init
<1>3. EndOf(conn, stream, 0) = 0 /\ 0 <= Len(stream)
  BY <1>1, StartsAtZero DEF Typed
<1>4. out = [i \in 1..Len(out) |-> i] /\ Len(out) = 0
  BY <1>2, NothingCounted
<1>5. Follows(conn, stream, 0, mem, None, None, None, 0, 0)
  BY <1>3, FollowsWithout
<1> QED
  BY <1>2, <1>4, <1>5 DEF InStepInv

LEMMA AlwaysInStepInv == Spec => [](Typed /\ InStepInv)
<1>1. Init => Typed /\ InStepInv
  BY InitTyped, InitInStep
<1>2. Typed /\ InStepInv /\ [Next]_vars => (Typed /\ InStepInv)'
  BY NextTyped, NextInStep
<1> QED
  BY <1>1, <1>2, PTL DEF Spec

(* However the reads cut the stream, packets and quick acks are handed over  *)
(* whole, in the order sent, none twice and none of an earlier connection,   *)
(* as long as the parser is in step (HandedOverInOrder).                     *)
THEOREM InOrder == Spec => []HandedOverInOrder
<1>1. InStepInv => HandedOverInOrder
  BY DEF InStepInv, HandedOverInOrder
<1> QED
  BY <1>1, AlwaysInStepInv, PTL

\* Between two reads, out of the invariant.
LEMMA Accounted ==
    ASSUME Typed, InStepInv
    PROVE  NothingLostBetweenReads
<1> SUFFICES ASSUME ~upset, buffer = None PROVE NothingLostBetweenReads
  BY DEF NothingLostBetweenReads, InStep
<1> DEFINE n == Len(out)
           d == arrived - Base
<1>1. InStepNow /\ Now
  BY DEF InStepInv, InStep, InStepNow, Typed, Now
<1>2. n \in 0..Len(stream) /\ n \in Nat /\ Len(stream) \in Nat /\ Base \in Nat /\ arrived \in Nat
      /\ arrived <= Len(Sent) /\ Len(Sent) \in Nat /\ Base <= arrived
  BY <1>1, CountsNow
<1>3. stream \in Seq(Packets(protocol)) /\ Len(stream) <= MaxPackets /\ conn \in 1..MaxConnections
      /\ Sent \in Seq(BytesOf(protocol))
  BY StreamNow DEF Sent
<1>4. \A k \in 0..Len(stream) : End(k) = EndOf(conn, stream, k) /\ EndOf(conn, stream, k) \in Nat
  BY <1>3, StreamTyped DEF End, EndOf, UpTo
<1>5. n # Len(stream) => n \in 0..Len(stream) - 1 /\ n + 1 \in 1..Len(stream) /\ arrived < Up
                         /\ Up \in Nat /\ Up = EndOf(conn, stream, n + 1)
  <2> SUFFICES ASSUME n # Len(stream)
               PROVE  n \in 0..Len(stream) - 1 /\ n + 1 \in 1..Len(stream) /\ arrived < Up
                      /\ Up \in Nat /\ Up = EndOf(conn, stream, n + 1)
    OBVIOUS
  <2>1. n \in 0..Len(stream) - 1
    BY <1>2
  <2>2. /\ n + 1 \in 1..Len(stream) /\ stream[n + 1] \in Packets(protocol)
        /\ Size(stream[n + 1]) \in Nat /\ Size(stream[n + 1]) >= 1 /\ Up = Base + Size(stream[n + 1]) /\ Up \in Nat
    BY <1>1, <2>1, CountsNow
  <2>3. arrived < Up
    <3>1. CASE rest = None
      <4>1. arrived = Base
        BY <1>1, <3>1, FollowsIs
      <4> QED
        BY <1>2, <2>2, <4>1
    <3>2. CASE rest # None
      <4>1. /\ last = 0 => d < 4 /\ stream[n + 1].kind # "short"
            /\ last # 0 => d < last /\ last = Size(stream[n + 1])
        BY <1>1, <3>2, FollowsIs
      <4>2. stream[n + 1].kind # "short" => Size(stream[n + 1]) >= 4
        <5>1. stream[n + 1].kind # "short" => HeaderLength(stream[n + 1].kind) = 4
          BY <2>2, PacketIs
        <5>2. HeaderLength(stream[n + 1].kind) <= Size(stream[n + 1])
          BY <2>2, PacketIs
        <5> QED
          BY <2>2, <5>1, <5>2
      <4> QED
        BY <1>2, <2>2, <4>1, <4>2
    <3> QED
      BY <3>1, <3>2
  <2> QED
    BY <2>1, <2>2, <2>3 DEF Up
<1>6. \A k \in DOMAIN stream : (End(k) <= arrived) <=> (k <= n)
  <2> SUFFICES ASSUME NEW k \in DOMAIN stream PROVE (End(k) <= arrived) <=> (k <= n)
    OBVIOUS
  <2>1. k \in 1..Len(stream) /\ k \in 0..Len(stream)
    BY <1>3
  <2>2. End(k) = EndOf(conn, stream, k) /\ EndOf(conn, stream, k) \in Nat
    BY <1>4, <2>1
  <2>3. CASE k <= n
    <3>1. k = n \/ k \in 0..n - 1
      BY <1>2, <2>1, <2>3
    <3>2. EndOf(conn, stream, k) <= EndOf(conn, stream, n)
      BY <1>2, <1>3, <1>4, <2>2, <3>1, EndOfGrows
    <3> QED
      BY <1>2, <1>4, <2>2, <2>3, <3>2 DEF Base
  <2>4. CASE ~(k <= n)
    <3>1. n # Len(stream) /\ (k = n + 1 \/ n + 1 \in 0..k - 1)
      BY <1>2, <2>1, <2>4
    <3>2. Up <= EndOf(conn, stream, k)
      BY <1>3, <1>5, <2>1, <2>2, <3>1, EndOfGrows
    <3> QED
      BY <1>2, <1>5, <2>2, <2>4, <3>1, <3>2
  <2> QED
    BY <2>3, <2>4
<1>7. End(n) = Base
  BY <1>2, <1>4 DEF Base
<1>8. CASE rest = None
  <2>1. arrived = Base
    BY <1>1, <1>8, FollowsIs
  <2>2. SubSeq(Sent, Base + 1, Base) = <<>>
    BY ONLY <1>2, <1>3
  <2>3. KeptBytes = SubSeq(StreamBytes(conn, stream), End(n) + 1, arrived)
    BY <1>7, <1>8, <2>1, <2>2 DEF KeptBytes, Sent
  <2> QED
    BY <1>6, <1>8, <2>3 DEF NothingLostBetweenReads
<1>9. CASE rest # None
  <2>1. PICK r : r = mem[rest]
    OBVIOUS
  <2>2. /\ n < Len(stream) /\ r.pos = d /\ arrived > Base
        /\ \A i \in 1..d : r.bytes[i] = Sent[Base + i]
        /\ last = 0 => r.cap >= 4
        /\ last # 0 => last = Size(stream[n + 1]) /\ r.lim = last
    BY <1>1, <1>9, <2>1, FollowsIs
  <2>3. r \in Buffers(protocol) /\ r.pos <= Len(r.bytes) /\ r.lim <= r.cap
    BY <1>1, <1>9, <2>1, NowIs DEF Within
  <2>4. d \in Nat /\ d >= 1
    BY <1>2, <2>2
  <2>5. r.bytes \in Seq(BytesOf(protocol)) /\ d <= Len(r.bytes)
    BY <2>2, <2>3 DEF Buffers
  <2> DEFINE x == SubSeq(r.bytes, 1, d)
             y == SubSeq(Sent, Base + 1, arrived)
  <2>6. x \in Seq(BytesOf(protocol)) /\ Len(x) = d /\ \A i \in 1..d : x[i] = r.bytes[i]
    BY <2>4, <2>5
  <2>7. y \in Seq(BytesOf(protocol)) /\ Len(y) = d /\ \A i \in 1..d : y[i] = Sent[Base + i]
    <3>1. y \in Seq(BytesOf(protocol))
      BY ONLY <1>2, <1>3
    <3>2. Len(y) = d
      BY ONLY <1>2, <1>3
    <3>3. \A i \in 1..d : y[i] = Sent[Base + i]
      BY ONLY <1>2, <1>3
    <3> QED
      BY <3>1, <3>2, <3>3
  <2>8. KeptBytes = x
    BY <1>9, <2>1, <2>2 DEF KeptBytes
  <2> HIDE DEF x, y, d
  <2>9. x = y
    <3>1. \A i \in 1..d : x[i] = y[i]
      BY <2>2, <2>6, <2>7
    <3> QED
      BY ONLY <2>6, <2>7, <3>1
  <2>10. KeptBytes = SubSeq(StreamBytes(conn, stream), End(n) + 1, arrived)
    BY <1>7, <2>8, <2>9 DEF y, Sent
  <2>11. KeptBytes[1].packet = stream[n + 1]
    <3>1. /\ n + 1 \in 1..Len(stream) /\ Size(stream[n + 1]) \in Nat /\ Size(stream[n + 1]) >= 1
          /\ \A o \in 1..Size(stream[n + 1]) : Sent[Base + o] = PacketBytes(conn, stream, n + 1)[o]
      BY <1>1, <1>2, <2>2, CountsNow
    <3>2. 1 \in 1..d /\ 1 \in 1..Size(stream[n + 1])
      BY <2>4, <3>1
    <3>3. KeptBytes[1] = PacketBytes(conn, stream, n + 1)[1]
      BY <2>7, <2>8, <2>9, <3>1, <3>2
    <3>4. PacketBytes(conn, stream, n + 1)[1] =
              [conn |-> conn, index |-> n + 1, place |-> 1, packet |-> stream[n + 1]]
      BY <3>2 DEF PacketBytes
    <3> QED
      BY <3>3, <3>4
  <2>12. mem[rest].cap >= IF last = 0 THEN 4 ELSE Size(KeptBytes[1].packet)
    BY <2>1, <2>2, <2>3, <2>11
  <2> QED
    BY <1>6, <2>10, <2>12 DEF NothingLostBetweenReads
<1> QED
  BY <1>8, <1>9

(* Between two reads restOfTheData holds exactly the bytes behind the last   *)
(* packet handed over, every whole packet has been handed over, and there is *)
(* room for the one they begin (NothingLostBetweenReads).                    *)
THEOREM NothingLost == Spec => []NothingLostBetweenReads
<1>1. Typed /\ InStepInv => NothingLostBetweenReads
  BY Accounted
<1> QED
  BY <1>1, AlwaysInStepInv, PTL

=============================================================================
