---------------------------- MODULE ReceiveStream -----------------------------
(* How a Connection cuts what its socket reads into packets.  A read returns *)
(* any number of bytes; Connection::onReceivedData hands over every packet   *)
(* that is whole and keeps the rest in restOfTheData until more arrives.     *)
(* The buffer under the loop may be restOfTheData itself, and a handler      *)
(* called from the loop may reconnect.  Server and network are external.     *)
EXTENDS Naturals, Sequences, FiniteSets, SequencesExt

CONSTANTS
    Protocols,      \* subset of {"EF", "DD"}; "DD" stands for DD and TLS
    Bodies,         \* lengths of message bodies
    MaxPackets,     \* bound: packets the server sends on the first connection
    MaxAgain,       \* bound: packets it sends on a later one
    MaxChunk,       \* bound: bytes one read returns
    Classes,        \* capacities of the pooled buffers
    Roomy,          \* the 16384 that the code asks for to keep a header
    MaxConnections  \* bound: times the connection is established

ASSUME StreamAssumption ==
    /\ Protocols \subseteq {"EF", "DD"}
    /\ Bodies \subseteq Nat \ {0} /\ Bodies # {} /\ Classes \subseteq Nat
    /\ MaxPackets \in Nat /\ MaxAgain \in 0..MaxPackets
    /\ MaxChunk \in Nat /\ MaxConnections \in Nat \ {0}
    /\ Roomy \in Nat /\ Roomy >= 4

VARIABLES
    protocol, \* currentProtocolType
    conn,     \* number of the connection, from 1
    stream,   \* packets the server sends on it
    arrived,  \* bytes of the stream read so far
    mem,      \* the buffers
    buffer,   \* buffer the loop parses, None outside onReceivedData
    rest,     \* restOfTheData
    later,    \* parseLaterBuffer
    last,     \* lastPacketLength
    out,      \* history: packets handed over on this connection (0: garbled)
    upset     \* history: the parser may be out of step, see InStep

vars == <<protocol, conn, stream, arrived, mem, buffer, rest, later, last,
          out, upset>>

None == "none"
Net  == "networkBuffer"
Kept == {"a", "b"}  \* two buffers of the pool; never more are held at once

-----------------------------------------------------------------------------
(* The stream.  A packet is a header and a body; a quick ack is a header.    *)
HeaderLength(kind) == IF kind = "short" THEN 1 ELSE 4
Size(packet) == HeaderLength(packet.kind) + packet.body

Packets(p) ==
    {[kind |-> "ack", body |-> 0]} \cup
    [kind : IF p = "EF" THEN {"short", "long"} ELSE {"long"}, body : Bodies]

Streams(p, max) == UNION {[1..n -> Packets(p)] : n \in 1..max}

\* A byte knows its connection, its packet and its place in the packet.
PacketBytes(c, s, i) ==
    [o \in 1..Size(s[i]) |-> [conn |-> c, index |-> i, place |-> o,
                              packet |-> s[i]]]
StreamBytes(c, s) == FlattenSeq([i \in 1..Len(s) |-> PacketBytes(c, s, i)])

\* What a header read at the head of bytes can say.  Bytes that are not a
\* header, or not all of one, decrypt to anything: one length stands for all.
Garbage == {[kind |-> k, body |-> 0] : k \in {"ack", "invalid"}}
           \cup {[kind |-> "long", body |-> CHOOSE b \in Bodies : TRUE]}
Headers(bytes) ==
    LET first == bytes[1]
        n     == HeaderLength(first.packet.kind)
    IN IF /\ first.place = 1
          /\ \A o \in 1..(IF Len(bytes) < n THEN Len(bytes) ELSE n) :
                 bytes[o] = [first EXCEPT !.place = o]
       THEN {first.packet} ELSE Garbage

-----------------------------------------------------------------------------
(* NativeByteBuffer and BuffersStorage.                                      *)
CapacityAtMostLargest(n) ==
    CHOOSE c \in Classes : \/ n <= c /\ \A d \in Classes : n <= d => c <= d
                           \/ \A d \in Classes : n > d /\ c >= d
Capacity(n) ==
    IF \E c \in Classes : n <= c
    THEN CHOOSE c \in Classes :
             n <= c /\ \A d \in Classes : n <= d => c <= d
    ELSE n

FreeBuffer(n) == [bytes |-> <<>>, pos |-> 0, lim |-> n, cap |-> Capacity(n)]

Position(b, n) == IF n > b.lim THEN b ELSE [b EXCEPT !.pos = n]
Limit(b, n) == IF n > b.cap THEN b
               ELSE [b EXCEPT !.lim = n, !.pos = IF @ > n THEN n ELSE @]
Rewind(b) == [b EXCEPT !.pos = 0]
HasRemaining(b) == b.pos < b.lim
Remaining(b) == SubSeq(b.bytes, b.pos + 1, b.lim)
WriteBytes(b, bytes) ==
    IF b.pos + Len(bytes) > b.lim THEN b
    ELSE [b EXCEPT !.bytes = SubSeq(@, 1, b.pos) \o bytes,
                   !.pos = @ + Len(bytes)]
Compact(b) == IF b.pos = b.lim THEN b
              ELSE [b EXCEPT !.bytes = Remaining(b), !.lim = b.cap,
                             !.pos = b.lim - b.pos]

Unused == CHOOSE id \in Kept : id # rest /\ id # buffer

-----------------------------------------------------------------------------
Init ==
    /\ protocol \in Protocols /\ conn = 1
    /\ stream \in Streams(protocol, MaxPackets) /\ arrived = 0
    /\ mem = [id \in Kept \cup {Net} |-> FreeBuffer(0)]
    /\ buffer = None /\ rest = None /\ later = None /\ last = 0
    /\ out = <<>> /\ upset = FALSE

\* The call returns; buffers nobody holds are the pool's again.
Return(m, r) ==
    /\ buffer' = None /\ later' = None
    /\ mem' = [id \in DOMAIN m |-> IF id = r THEN m[id] ELSE FreeBuffer(0)]

\* Connection::reconnect: suspendConnection and connect both drop what is
\* kept; the server answers on the new connection with another stream.
Reconnect ==
    /\ rest' = None /\ last' = 0
    /\ conn' = conn + 1 /\ stream' \in Streams(protocol, MaxAgain)
    /\ arrived' = 0 /\ out' = <<>>

\* The socket is closed between two reads.
Disconnect ==
    /\ buffer = None /\ conn < MaxConnections
    /\ Reconnect
    /\ upset' = FALSE
    /\ Return(mem, None)
    /\ UNCHANGED protocol

-----------------------------------------------------------------------------
(* onReceivedData up to its loop: the read joins what is kept.               *)
JoinHeader(net) ==
    LET r == mem[rest]
        n == net.lim
        f == FreeBuffer(r.lim + n)
    IN /\ IF r.cap - r.pos >= n
          THEN LET w == WriteBytes(Limit(r, r.pos + n), Remaining(net))
               IN /\ mem' = [mem EXCEPT ![rest] = Rewind(w)]
                  /\ buffer' = rest /\ rest' = rest
          ELSE LET w == WriteBytes(WriteBytes(f, Remaining(Rewind(r))),
                                   Remaining(net))
               IN /\ mem' = [mem EXCEPT ![Unused] = Rewind(w)]
                  /\ buffer' = Unused /\ rest' = Unused
       /\ later' = None

JoinPacketDropsRest(net) ==
    LET r   == mem[rest]
        gap == last - r.pos
        n   == IF gap <= net.lim THEN gap ELSE net.lim
        w   == WriteBytes(r, SubSeq(net.bytes, 1, n))
    IN /\ rest' = rest
       /\ IF w.pos = last
          THEN /\ mem' = [mem EXCEPT ![rest] = Rewind(w),
                                     ![Net] = [net EXCEPT !.pos = n]]
               /\ buffer' = rest
               /\ later' = None
          ELSE Return([mem EXCEPT ![rest] = w], rest)

JoinPacket(net) ==
    LET r   == mem[rest]
        gap == last - r.pos
        n   == IF gap <= net.lim THEN gap ELSE net.lim
        w   == WriteBytes(r, SubSeq(net.bytes, 1, n))
    IN /\ rest' = rest
       /\ IF w.pos = last
          THEN /\ mem' = [mem EXCEPT ![rest] = Rewind(w),
                                     ![Net] = [net EXCEPT !.pos = n]]
               /\ buffer' = rest
               /\ later' = IF n < net.lim THEN Net ELSE None
          ELSE Return([mem EXCEPT ![rest] = w], rest)

Receive(n) ==
    LET bytes == SubSeq(StreamBytes(conn, stream), arrived + 1, arrived + n)
        net   == [bytes |-> bytes, pos |-> 0, lim |-> n, cap |-> MaxChunk]
    IN /\ buffer = None
       /\ arrived + n <= Len(StreamBytes(conn, stream))
       /\ arrived' = arrived + n
       /\ CASE rest = None -> /\ mem' = [mem EXCEPT ![Net] = net]
                              /\ buffer' = Net /\ later' = None
                              /\ rest' = rest
            [] rest # None /\ last = 0 -> JoinHeader(net)
            [] rest # None /\ last # 0 -> JoinPacket(net)
       /\ UNCHANGED <<protocol, conn, stream, last, out, upset>>

-----------------------------------------------------------------------------
(* The loop.  One action per way through its body.                           *)
Parsing == buffer # None /\ HasRemaining(mem[buffer])

LoopEnds ==
    /\ buffer # None /\ ~HasRemaining(mem[buffer])
    /\ Return(mem, rest)
    /\ UNCHANGED <<protocol, conn, stream, arrived, rest, last, out, upset>>

\* Fewer bytes than the header has.
KeepHeader ==
    /\ Parsing
    /\ \E h \in Headers(Remaining(mem[buffer])) :
        LET left  == Remaining(mem[buffer])
            fresh == WriteBytes(FreeBuffer(Roomy), left)
        IN /\ h.kind # "short"
           /\ Len(left) < 4
           /\ IF \/ rest = None \/ mem[rest].pos # 0
                 \/ protocol = "EF" /\ h.kind = "ack"
              THEN /\ rest' = Unused /\ last' = 0
                   /\ Return([mem EXCEPT ![Unused] = Limit(fresh, fresh.pos)],
                             Unused)
              ELSE /\ UNCHANGED <<rest, last>>
                   /\ Return([mem EXCEPT ![rest] = Position(@, @.lim)], rest)
    /\ UNCHANGED <<protocol, conn, stream, arrived, out, upset>>

\* What is handed over: 0 unless it is a whole packet of this connection.
\* The history stops where the parser is out of step.
HandOver(bytes) ==
    IF upset THEN out
    ELSE Append(out, IF bytes = PacketBytes(conn, stream, bytes[1].index)
                     THEN bytes[1].index ELSE 0)

QuickAck ==
    /\ Parsing
    /\ \E h \in Headers(Remaining(mem[buffer])) :
        LET left == Remaining(mem[buffer])
        IN /\ h.kind = "ack" /\ Len(left) >= 4
           /\ mem' = [mem EXCEPT ![buffer] = Position(@, @.pos + 4)]
           /\ out' = HandOver(SubSeq(left, 1, 4))
    /\ upset' = (upset \/ buffer = rest)
    /\ UNCHANGED <<protocol, conn, stream, arrived, buffer, rest, later, last>>

InvalidLength ==
    /\ Parsing /\ conn < MaxConnections
    /\ \E h \in Headers(Remaining(mem[buffer])) : h.kind = "invalid"
    /\ Len(Remaining(mem[buffer])) >= 4
    /\ Reconnect
    /\ upset' = FALSE
    /\ Return(mem, None)
    /\ UNCHANGED protocol

\* A header whose body is not all there.
KeepPacket ==
    /\ Parsing
    /\ \E h \in Headers(Remaining(mem[buffer])) :
        LET left == Remaining(mem[buffer])
            len  == Size(h)
        IN /\ h.kind \in {"short", "long"}
           /\ Len(left) >= HeaderLength(h.kind) /\ Len(left) < len
           /\ last' = len
           /\ IF rest = None \/ mem[rest].cap < len
              THEN /\ rest' = Unused
                   /\ Return([mem EXCEPT ![Unused] =
                                  WriteBytes(FreeBuffer(len), left)], Unused)
              ELSE /\ rest' = rest
                   /\ Return([mem EXCEPT ![rest] =
                                  Limit(Position(@, @.lim), len)], rest)
    /\ UNCHANGED <<protocol, conn, stream, arrived, out, upset>>

AfterMessageInPlace(m) ==
    LET r    == m[rest]
        done == \/ last # 0 /\ r.pos = last
                \/ last = 0 /\ ~HasRemaining(r)
    IN /\ rest' = IF rest = None \/ done THEN None ELSE rest
       /\ mem' = IF rest = None \/ done THEN m
                 ELSE m
       /\ buffer' = IF later # None THEN later ELSE buffer
       /\ later' = None

\* After the handler: what is kept starts behind the packet, and the loop
\* goes on with the rest of the read.
AfterMessage(m) ==
    LET r    == m[rest]
        kept == Compact(r)
        done == \/ last # 0 /\ r.pos = last
                \/ last = 0 /\ ~HasRemaining(r)
    IN /\ rest' = IF rest = None \/ done THEN None ELSE rest
       /\ mem' = IF rest = None \/ done THEN m
                 ELSE [m EXCEPT ![rest] = Rewind(Limit(kept, kept.pos))]
       /\ buffer' = IF later # None THEN later ELSE buffer
       /\ later' = None

Message ==
    /\ Parsing
    /\ \E h \in Headers(Remaining(mem[buffer])) :
        LET left == Remaining(mem[buffer])
        IN /\ h.kind \in {"short", "long"} /\ Len(left) >= Size(h)
           /\ out' = HandOver(SubSeq(left, 1, Size(h)))
           /\ AfterMessage([mem EXCEPT ![buffer] =
                                Position(@, @.pos + Size(h))])
    /\ UNCHANGED <<protocol, conn, stream, arrived, last, upset>>

\* The same, with a handler that reconnects: the loop does not notice.
MessageReconnects ==
    /\ Parsing /\ conn < MaxConnections
    /\ \E h \in Headers(Remaining(mem[buffer])) :
        LET left == Remaining(mem[buffer])
        IN /\ h.kind \in {"short", "long"} /\ Len(left) >= Size(h)
           /\ upset' = (later # None \/ Len(left) > Size(h))
           /\ mem' = [mem EXCEPT ![buffer] = Position(@, @.pos + Size(h))]
    /\ Reconnect
    /\ buffer' = IF later # None THEN later ELSE buffer
    /\ later' = None
    /\ UNCHANGED protocol

Next ==
    \/ \E n \in 1..MaxChunk : Receive(n)
    \/ LoopEnds \/ KeepHeader \/ QuickAck \/ InvalidLength
    \/ KeepPacket \/ Message \/ MessageReconnects
    \/ Disconnect

Spec == Init /\ [][Next]_vars
-----------------------------------------------------------------------------
(* Properties.                                                               *)

Bytes == [conn : 1..MaxConnections, index : 1..MaxPackets, place : Nat,
          packet : Packets(protocol)]

(* Type invariant of the state of a connection's receiving side.             *)
TypeOK ==
    /\ protocol \in Protocols /\ conn \in 1..MaxConnections
    /\ stream \in Streams(protocol, MaxPackets)
    /\ arrived \in 0..Len(StreamBytes(conn, stream))
    /\ \A id \in Kept \cup {Net} :
          /\ mem[id].bytes \in Seq(Bytes)
          /\ mem[id].pos <= mem[id].lim /\ mem[id].lim <= mem[id].cap
    /\ buffer \in Kept \cup {Net, None} /\ rest \in Kept \cup {None}
    /\ later \in {Net, None} /\ (later # None => buffer \in Kept)
    /\ last \in Nat /\ out \in Seq(0..MaxPackets) /\ upset \in BOOLEAN

\* The two properties hold while no quick ack has been parsed out of
\* restOfTheData (which the code then neither empties nor moves) and no handler
\* has reconnected with bytes of the same read still to be parsed.
InStep == ~upset

End(k) == Len(StreamBytes(conn, SubSeq(stream, 1, k)))
KeptBytes == IF rest = None THEN <<>>
             ELSE SubSeq(mem[rest].bytes, 1, mem[rest].pos)

(* Packets and quick acks are handed over whole, in the order the server     *)
(* sent them, none twice and none of an earlier connection, however the      *)
(* reads cut the stream (onReceivedData, Connection.cpp:70-279).             *)
HandedOverInOrder ==
    InStep => out = [i \in 1..Len(out) |-> i]

(* Between two reads everything that has arrived is accounted for: each      *)
(* whole packet has been handed over, and restOfTheData holds exactly the    *)
(* bytes behind the last one, with room for the packet they begin            *)
(* (Connection.cpp:86-121 and 156-277).                                      *)
NothingLostBetweenReads ==
    InStep /\ buffer = None =>
        /\ \A k \in DOMAIN stream : (End(k) <= arrived) <=> (k <= Len(out))
        /\ KeptBytes = SubSeq(StreamBytes(conn, stream), End(Len(out)) + 1,
                              arrived)
        /\ rest # None => mem[rest].cap >= IF last = 0 THEN 4
                                           ELSE Size(KeptBytes[1].packet)
=============================================================================
