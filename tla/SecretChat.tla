------------------------------ MODULE SecretChat ------------------------------
(* Secret chats: two applications that encrypt for each other, number their  *)
(* messages, hold back what comes after a hole and ask for what is missing,  *)
(* and replace their key while messages are under way.  SecretChatHelper     *)
(* does all of it on the stage queue; the server and the users are external. *)
(* What a task of the stage queue saves is on the disk before the process    *)
(* can be killed.                                                            *)
EXTENDS Integers, Sequences, FiniteSets, FiniteSetsExt, SequencesExt

CONSTANTS
    Worlds,   \* what a behavior may be made of: how many messages each user writes (texts),
              \* new keys are due (rekeys), sends fail (errors) and processes are killed
              \* (restarts), and RareEvents (rare)
    HeldLimit \* messages held back before the chat is given up: 4

ASSUME ChatAssumption == HeldLimit \in Nat

RareEvents == {"retry", "delete"}

Peers == {"admin", "participant"}
Peer(p) == CHOOSE q \in Peers : q # p

VARIABLES
    world, \* the one of Worlds this behavior happens in
    left,  \* what of it is left
    made,  \* identifiers of exchanges that have been made
    chat,  \* EncryptedChat and what else a peer has of the chat
    wire,  \* requests of a peer that the server has not taken
    box,   \* messages the server has for a peer
    open   \* the chat has not been discarded

vars == <<world, left, made, chat, wire, box, open>>

Body(kind) == [kind |-> kind, x |-> 0, key |-> 0, from |-> 0, to |-> 0]

(* Keys are 1, the one the chat began with, and for each peer those it has    *)
(* made since, with numbers of its own: own is the last of them.  0 is none. *)
New(p) ==
    [seqIn |-> IF p = "admin" THEN -2 ELSE -1, seqOut |-> IF p = "admin" THEN 1 ELSE 0, inSeqNo |-> 0,
     key |-> 1, future |-> 0, exchange |-> 0, own |-> IF p = "admin" THEN 0 ELSE 1,
     db |-> <<>>,       \* the messages it has written
     holes |-> {},      \* requested_holes
     stage |-> <<>>,    \* messages to send
     jobs |-> <<>>,     \* resendMessages, on the storage queue
     held |-> <<>>,     \* secretHolesQueue
     asked |-> {},      \* requestedHoles
     next |-> 1,        \* place in its box
     handled |-> <<>>,  \* history: numbers of the messages it has handled
     twice |-> FALSE,   \* history: the same message has been held twice
     lost |-> FALSE,    \* history: a message came under a key it does not have
     cut |-> FALSE]     \* history: it has been killed while it sent messages again

Init ==
    /\ world \in Worlds
    /\ left = world
    /\ made = {}
    /\ chat = [p \in Peers |-> New(p)]
    /\ wire = [p \in Peers |-> <<>>]
    /\ box = [p \in Peers |-> <<>>]
    /\ open = TRUE

(* A new key may be due, once a key has been used often or for a week; x is  *)
(* the identifier of the exchange, which is random, or 0.                    *)
Due(p) ==
    {0} \cup IF left.rekeys[p] > 0
             THEN 1..world.rekeys["admin"] + world.rekeys["participant"] \ made
             ELSE {}

Spent(p, x) ==
    /\ left' = [left EXCEPT !.rekeys[p] = IF x = 0 THEN @ ELSE @ - 1]
    /\ made' = made \cup ({x} \ {0})

-----------------------------------------------------------------------------
(* A new message is put into the database and sent; it gets its number when  *)
(* it is encrypted.                                                          *)
Write(c, body) ==
    [c EXCEPT !.db = Append(@, [body |-> body, seq |-> FALSE, out |-> 0, in |-> 0, state |-> "sending"]),
              !.stage = Append(@, [m |-> Len(c.db) + 1, body |-> body, seq |-> FALSE, out |-> 0, in |-> 0])]

Loaded(c, m) ==
    [m |-> m, body |-> c.db[m].body, seq |-> c.db[m].seq, out |-> c.db[m].out, in |-> c.db[m].in]

(* sendResendMessage asks for a hole once; given a message to send again, it *)
(* takes it for a hole that starts at 0.                                     *)
SendResend(c, from, to) ==
    IF from \in c.asked THEN c
    ELSE Write([c EXCEPT !.asked = @ \cup {from}], [Body("resend") EXCEPT !.from = from, !.to = to])

Retry(c, t) ==
    IF t.body.kind # "resend" THEN [c EXCEPT !.stage = Append(@, t)]
    ELSE IF 0 \in c.asked THEN c
    ELSE [c EXCEPT !.asked = @ \cup {0}, !.stage = Append(@, t)]

RequestNewKey(c, x) ==
    IF x # 0 /\ c.exchange = 0 /\ c.future = 0
    THEN Write([c EXCEPT !.exchange = x], [Body("request") EXCEPT !.x = x]) ELSE c

(* What performSendEncryptedRequest does to the chat for a message that has  *)
(* no number yet: x is the exchange to begin, 0 for none.                    *)
Numbered(c, t, x) ==
    LET in == IF c.seqIn > 0 THEN c.seqIn ELSE c.seqIn + 2
        d  == [c EXCEPT !.seqOut = @ + 2]
        e  == IF t.m = 0 THEN d
              ELSE [d EXCEPT !.db[t.m] = [@ EXCEPT !.seq = TRUE, !.out = c.seqOut, !.in = in]]
    IN RequestNewKey(e, x)

Encrypted(c, t) ==
    [m |-> t.m, body |-> t.body, key |-> c.key, again |-> t.seq,
     out |-> IF t.seq THEN t.out ELSE c.seqOut,
     in |-> IF t.seq THEN t.in ELSE IF c.seqIn > 0 THEN c.seqIn ELSE c.seqIn + 2]

Send(p) ==
    LET c == chat[p]
        t == Head(c.stage)
        d == [c EXCEPT !.stage = Tail(@)]
    IN /\ open /\ c.stage # <<>>
       /\ \E x \in IF t.seq \/ c.exchange # 0 \/ c.future # 0 THEN {0} ELSE Due(p) :
             /\ chat' = [chat EXCEPT ![p] = IF t.seq THEN d ELSE Numbered(d, t, x)]
             /\ Spent(p, x)
       /\ wire' = [wire EXCEPT ![p] = Append(@, Encrypted(c, t))]
       /\ UNCHANGED <<world, box, open>>

-----------------------------------------------------------------------------
(* What is done on a message, once it is its turn.                           *)
Dropped(c) == [c EXCEPT !.future = 0, !.exchange = 0]
Abort(c, x) == Write(c, [Body("abort") EXCEPT !.x = x])

RequestKeyUnlessOwn(c, b) == \* mutant: the lower of two exchanges goes on as well
    IF c.exchange # 0 THEN c
    ELSE Write([c EXCEPT !.exchange = b.x, !.future = c.own + 2, !.own = c.own + 2],
               [Body("accept") EXCEPT !.x = b.x, !.key = c.own + 2])

RequestKey(c, b) ==
    LET d == IF c.exchange # 0 THEN Abort(c, c.exchange) ELSE c
        k == c.own + 2
    IN IF c.exchange > b.x THEN c
       ELSE Write([d EXCEPT !.exchange = b.x, !.future = k, !.own = k],
                  [Body("accept") EXCEPT !.x = b.x, !.key = k])

AcceptKey(c, b) ==
    IF c.exchange = b.x
    THEN Write([c EXCEPT !.future = b.key], [Body("commit") EXCEPT !.x = b.x, !.key = b.key])
    ELSE Abort(Dropped(c), b.x)

CommitKeyAlone(c, b) == \* mutant: the old key is forgotten at once
    IF c.exchange = b.x /\ c.future = b.key
    THEN Write([c EXCEPT !.key = c.future, !.future = 0, !.exchange = 0], Body("noop"))
    ELSE Abort(Dropped(c), b.x)

CommitKey(c, b) ==
    IF c.exchange = b.x /\ c.future = b.key
    THEN Write([c EXCEPT !.key = c.future, !.future = c.key, !.exchange = 0], Body("noop"))
    ELSE Abort(Dropped(c), b.x)

AbortKey(c, b) == IF c.exchange = b.x THEN Dropped(c) ELSE c

Resend(c, b) ==
    IF b.to < c.inSeqNo \/ b.to < b.from THEN c
    ELSE [c EXCEPT !.jobs = Append(@, [from |-> Max({b.from, c.inSeqNo}), to |-> b.to])]

(* The peer has come to use the new key, or does not need the old one.       *)
KeysUsed(c, newKey) ==
    IF c.exchange = 0 /\ c.future # 0 /\ ~newKey THEN [c EXCEPT !.future = 0]
    ELSE IF c.exchange # 0 /\ newKey THEN [c EXCEPT !.key = c.future, !.future = 0, !.exchange = 0]
    ELSE c

Act(c, b) ==
    CASE b.kind = "request" -> RequestKey(c, b)
      [] b.kind = "accept"  -> AcceptKey(c, b)
      [] b.kind = "commit"  -> CommitKey(c, b)
      [] b.kind = "abort"   -> AbortKey(c, b)
      [] b.kind = "resend"  -> Resend(c, b)
      [] OTHER              -> c

ProcessDecryptedObject(c, k, newKey, x) ==
    LET d == [c EXCEPT !.seqIn = k.out, !.inSeqNo = k.in, !.handled = Append(@, k.out)]
    IN Act(KeysUsed(RequestNewKey(d, x), newKey), k.body)

(* What sorting by the numbers gives; the same number keeps its order.       *)
SortedHeld(q) ==
    {[i \in DOMAIN q |-> q[p[i]]] : p \in {p \in Bijection(DOMAIN q, DOMAIN q) :
        \A i, j \in DOMAIN q :
            i < j => \/ q[p[i]].k.out < q[p[j]].k.out
                     \/ q[p[i]].k.out = q[p[j]].k.out /\ p[i] < p[j]}}

TakeUpAny(d, h) == ProcessDecryptedObject(d, h.k, h.newKey, 0) \* mutant: whatever is held is taken up

(* Of those held what follows is taken up; the same one again, too.          *)
TakeUp(d, h) ==
    IF h.k.out \in {d.seqIn, d.seqIn + 2} THEN ProcessDecryptedObject(d, h.k, h.newKey, 0)
    ELSE [d EXCEPT !.held = Append(@, h)]

CheckSecretHoles(c, sorted) == FoldLeft(TakeUp, [c EXCEPT !.held = <<>>], sorted)

HoldAnyNumber(c, k, newKey) == \* mutant: what is held back is not counted
    [SendResend(c, c.seqIn + 2, k.out - 2) EXCEPT !.held = Append(@, [k |-> k, newKey |-> newKey])]

Hold(c, k, newKey) ==
    [SendResend(c, c.seqIn + 2, k.out - 2) EXCEPT
        !.held = IF Len(@) < HeldLimit THEN Append(@, [k |-> k, newKey |-> newKey]) ELSE <<>>,
        !.twice = @ \/ \E i \in DOMAIN c.held : c.held[i].k.out = k.out]

DecryptMessage(p) ==
    LET k      == box[p][chat[p].next]
        c      == [chat[p] EXCEPT !.next = @ + 1]
        newKey == k.key # c.key
        known  == newKey => c.future # 0 /\ k.key = c.future
        due    == IF c.exchange = 0 /\ c.future = 0 THEN Due(p) ELSE {0}
    IN /\ open /\ chat[p].next <= Len(box[p])
       /\ \/ /\ ~known
             /\ chat' = [chat EXCEPT ![p] = [c EXCEPT !.lost = TRUE]]
             /\ UNCHANGED <<left, made, open>>
          \/ /\ known
             /\ k.out <= c.seqIn
             /\ chat' = [chat EXCEPT ![p] = c]
             /\ UNCHANGED <<left, made, open>>
          \/ /\ known
             /\ k.out > c.seqIn /\ c.seqIn # k.out - 2
             /\ chat' = [chat EXCEPT ![p] = Hold(c, k, newKey)]
             /\ open' = (Len(c.held) < HeldLimit)
             /\ UNCHANGED <<left, made>>
          \/ /\ known
             /\ c.seqIn = k.out - 2
             /\ \E x \in due, sorted \in SortedHeld(c.held) :
                   /\ chat' = [chat EXCEPT ![p] =
                          CheckSecretHoles(ProcessDecryptedObject(c, k, newKey, x), sorted)]
                   /\ Spent(p, x)
             /\ UNCHANGED open
       /\ UNCHANGED <<world, wire, box>>

(* The storage queue finds the messages asked for, or takes their place, and *)
(* has them all sent two times.  A hole is answered once.                    *)
Substitute(out) == [m |-> 0, body |-> Body("delete"), seq |-> TRUE, out |-> out, in |-> out + 1]

ResendMessages(p) ==
    LET c      == chat[p]
        j      == Head(c.jobs)
        exists == \E h \in c.holes : h.from >= j.from \/ (h.from >= j.to /\ j.to <= h.to)
        Stored(out) == {m \in DOMAIN c.db : c.db[m].seq /\ c.db[m].out = out /\ c.db[m].state # "deleted"}
        Message(out) == IF Stored(out) = {} THEN Substitute(out)
                        ELSE Loaded(c, CHOOSE m \in Stored(out) : TRUE)
        all    == [i \in 1..(j.to - j.from) \div 2 + 1 |-> Message(j.from + 2 * (i - 1))]
        d      == [c EXCEPT !.jobs = Tail(@)]
    IN /\ open /\ c.jobs # <<>>
       /\ chat' = [chat EXCEPT ![p] =
              IF exists THEN d
              ELSE FoldLeft(Retry, [d EXCEPT !.holes = @ \cup {j}], all \o all)]
       /\ UNCHANGED <<world, left, made, wire, box, open>>

-----------------------------------------------------------------------------
(* The users write, send again what failed, and delete it.                   *)
SendMessage(p) ==
    /\ open /\ left.texts[p] > 0
    /\ left' = [left EXCEPT !.texts[p] = @ - 1]
    /\ chat' = [chat EXCEPT ![p] = Write(@, Body("text"))]
    /\ UNCHANGED <<world, made, wire, box, open>>

RetrySendMessage(p, m) ==
    /\ open /\ "retry" \in world.rare
    /\ chat[p].db[m].body.kind = "text" /\ chat[p].db[m].state = "error"
    /\ chat' = [chat EXCEPT ![p] = Retry([@ EXCEPT !.db[m].state = "sending"], Loaded(@, m))]
    /\ UNCHANGED <<world, left, made, wire, box, open>>

DeleteMessage(p, m) ==
    /\ open /\ "delete" \in world.rare
    /\ chat[p].db[m].body.kind = "text" /\ chat[p].db[m].state = "error"
    /\ chat' = [chat EXCEPT ![p] = Write([@ EXCEPT !.db[m].state = "deleted"], Body("delete"))]
    /\ UNCHANGED <<world, left, made, wire, box, open>>

(* The process is killed.  The next one is sent again what it has not        *)
(* counted, and sends again what it does not know to have been sent.         *)
SendUnsent(c, m) == IF c.db[m].state = "sending" THEN Retry(c, Loaded(c, m)) ELSE c

Restart(p) ==
    LET c      == chat[p]
        again  == \E i \in DOMAIN c.stage : c.stage[i].seq
        failed == c.jobs # <<>> \/ again \/ \E i \in DOMAIN wire[p] : wire[p][i].again
        fresh  == [c EXCEPT !.stage = <<>>, !.jobs = <<>>, !.held = <<>>, !.asked = {}, !.cut = @ \/ failed]
    IN /\ open /\ left.restarts > 0
       /\ left' = [left EXCEPT !.restarts = @ - 1]
       /\ \E n \in {c.next, Max({1, c.next - 1})} :
             chat' = [chat EXCEPT ![p] = FoldLeft(SendUnsent, [fresh EXCEPT !.next = n], [m \in DOMAIN c.db |-> m])]
       /\ wire' = [wire EXCEPT ![p] = <<>>]
       /\ UNCHANGED <<world, made, box, open>>

(* The server takes the requests of a peer in order.  An answer may come too *)
(* late for a process that is to be killed.                                  *)
Answered(c, m, ok) ==
    [c EXCEPT !.db = [n \in DOMAIN @ |-> IF n # m \/ @[n].state = "deleted" THEN @[n]
                                         ELSE [@[n] EXCEPT !.state = IF ok THEN "sent" ELSE "error"]]]

Take(p, ok) ==
    LET k == Head(wire[p])
    IN /\ open /\ wire[p] # <<>>
       /\ ok \/ left.errors > 0
       /\ wire' = [wire EXCEPT ![p] = Tail(@)]
       /\ box' = IF ok THEN [box EXCEPT ![Peer(p)] = Append(@, k)] ELSE box
       /\ left' = IF ok THEN left ELSE [left EXCEPT !.errors = @ - 1]
       /\ \/ chat' = [chat EXCEPT ![p] = Answered(@, k.m, ok)]
          \/ ok /\ left.restarts > 0 /\ UNCHANGED chat
       /\ UNCHANGED <<world, made, open>>

Runs(p) == Send(p) \/ DecryptMessage(p) \/ ResendMessages(p)

Next ==
    \E p \in Peers :
        \/ Runs(p) \/ SendMessage(p) \/ Restart(p) \/ Take(p, TRUE) \/ Take(p, FALSE)
        \/ \E m \in DOMAIN chat[p].db : RetrySendMessage(p, m) \/ DeleteMessage(p, m)

Spec == Init /\ [][Next]_vars

(* The queues run what is posted to them, and the server what is sent.       *)
FairSpec ==
    /\ Spec
    /\ \A p \in Peers : /\ WF_vars(Send(p)) /\ WF_vars(DecryptMessage(p))
                        /\ WF_vars(ResendMessages(p)) /\ WF_vars(Take(p, TRUE))

-----------------------------------------------------------------------------
(* The keys of a chat have been made by one of the peers, its exchange has   *)
(* been begun, the two number differently (one odd, one even), and no more   *)
(* messages are held back than the limit.                                    *)
Made(k) == k \in Nat /\ k <= chat[IF k % 2 = 0 THEN "admin" ELSE "participant"].own

TypeOK ==
    \A p \in Peers :
        LET c == chat[p] IN
        /\ Made(c.key) /\ Made(c.future) /\ c.exchange \in made \cup {0}
        /\ c.seqOut % 2 # c.seqIn % 2
        /\ Len(c.held) <= HeldLimit

(* Messages are handled in the order of their numbers, each once, and no two *)
(* have the same number.  Excepted are those held back twice.                *)
HandledInOrder ==
    \A p \in Peers :
        LET c == chat[p] IN
        /\ c.twice \/ \A i \in DOMAIN c.handled : c.handled[i] = New(p).seqIn + 2 * i
        /\ \A m, n \in DOMAIN c.db : c.db[m].seq /\ c.db[n].seq /\ m # n => c.db[m].out # c.db[n].out

(* A chat that has been established always has a key to encrypt under.       *)
NeverWithoutKey == \A p \in Peers : chat[p].key # 0

(* A message always comes under one of the keys its receiver has, unless one *)
(* has failed before.                                                        *)
Failures == world.errors - left.errors

KeysMeet == \A p \in Peers : chat[p].lost => Failures > 0

(* An exchange of keys ends when no message fails, and a hole is filled: the *)
(* only one, when nobody is killed while answering.                          *)
Settles ==
    \A p \in Peers :
        /\ open /\ chat[p].exchange # 0 ~> ~open \/ Failures > 0 \/ chat[p].exchange = 0
        /\ open /\ chat[p].held # <<>>
               ~> ~open \/ Failures > 1 \/ chat[Peer(p)].cut \/ chat[p].held = <<>>
=============================================================================
