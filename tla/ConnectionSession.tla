------------------------- MODULE ConnectionSession ---------------------------
(* How a session of tgnet receives messages: each one is to be handled once  *)
(* and to be confirmed, although the server repeats what it has no           *)
(* confirmation of and the session remembers a limited number of             *)
(* identifiers.  The handler is onConnectionDataReceived with the container  *)
(* branch of processServerResponse, one step of which is one turn of its     *)
(* loop; the server and the network are external.                            *)
EXTENDS Naturals, Sequences, FiniteSets, SequencesExt

CONSTANTS
    Messages,    \* identifiers of messages, in the order the server made them
    Containers,  \* identifiers of containers, made in the same order
    Content,     \* messages with an odd seqno: to be confirmed
    Unparsed,    \* messages of the application's layer, not parsed by tgnet
    Resets,      \* messages whose handling recreates the session
    WindowSize,  \* 300 in the code
    EraseCount,  \* 100 in the code
    MaxInside,   \* bound: messages in a container
    Careless     \* whether the server repeats a message however many it has sent
                 \* since, and sends messages of Resets: one of this set in a behavior

ASSUME SessionAssumption ==
    /\ Messages \subseteq Nat \ {0} /\ Containers \subseteq Nat \ {0}
    /\ IsFiniteSet(Messages) /\ IsFiniteSet(Containers)
    /\ Messages \cap Containers = {}
    /\ Content \subseteq Messages /\ Unparsed \subseteq Messages
    /\ Resets \subseteq Messages \ Unparsed
    /\ WindowSize \in Nat /\ EraseCount \in 1..WindowSize
    /\ Careless \subseteq BOOLEAN

VARIABLES
    s,         \* the session of the client (see SessionType)
    inside,    \* the container being handled, and what of it is left
    sent,      \* server: identifiers used so far
    old,       \* server: those of abandoned sessions
    acks,      \* confirmations on their way to the server
    confirmed, \* server: messages confirmed
    careless   \* server: the one of Careless

vars == <<s, inside, sent, old, acks, confirmed, careless>>

Ids == Messages \cup Containers
Twice == 2  \* bound: handled counts up to here

SessionType == [
    processed : Seq(Ids),           \* processedMessageIds
    min       : Ids \cup {0},       \* minProcessedMessageId
    toConfirm : SUBSET Content,     \* messagesIdsForConfirmation
    handled   : [Ids -> 0..Twice],  \* history: times handled
    forgotten : SUBSET Ids]         \* history: handled and not remembered

Closed == [id |-> 0, rest |-> {}] \* no container is being handled

Init ==
    /\ s = [processed |-> <<>>, min |-> 0, toConfirm |-> {},
            handled |-> [m \in Ids |-> 0], forgotten |-> {}]
    /\ inside = Closed
    /\ sent = {} /\ old = {} /\ acks = {} /\ confirmed = {}
    /\ careless \in Careless

-----------------------------------------------------------------------------
(* ConnectionSession.  minProcessedMessageId survives recreateSession.       *)
IsMessageIdProcessedInOrder(t, m) ==
    IF t.min # 0 /\ m < t.min THEN 2
    ELSE IF \E p \in ToSet(t.processed) : m <= p THEN 1
    ELSE 0

IsMessageIdProcessed(t, m) ==
    IF t.min # 0 /\ m < t.min THEN 2
    ELSE IF m \in ToSet(t.processed) THEN 1
    ELSE 0

(* An identifier below the minimum is not recognised, remembered or not.     *)
Remember(t, m) ==
    [t EXCEPT !.processed = Append(@, m),
              !.forgotten = IF m < t.min THEN @ \cup {m} ELSE @]

Sorted(q) ==
    {r \in {[i \in DOMAIN q |-> q[p[i]]] : p \in Bijection(DOMAIN q, DOMAIN q)} :
        \A i, j \in DOMAIN q : i < j => r[i] <= r[j]}

Trim(t, order) ==
    LET kept == SubSeq(order, EraseCount + 1, Len(order))
    IN [t EXCEPT !.processed = kept, !.min = kept[1],
                 !.forgotten = @ \cup (ToSet(t.processed) \ ToSet(kept))]

(* What addProcessedMessageId may make of the session.                       *)
AddProcessedMessageIdUnlimited(t, m) == {Remember(t, m)}

AddProcessedMessageIdUnsorted(t, m) ==
    IF Len(t.processed) <= WindowSize THEN {Remember(t, m)}
    ELSE {Remember(Trim(t, t.processed), m)}

AddProcessedMessageId(t, m) ==
    IF Len(t.processed) <= WindowSize THEN {Remember(t, m)}
    ELSE {Remember(Trim(t, order), m) : order \in Sorted(t.processed)}

AddMessageToConfirmIfNew(t, m) ==
    [t EXCEPT !.toConfirm = IF m \in Content /\ IsMessageIdProcessed(t, m) = 0
                            THEN @ \cup {m} ELSE @]

AddMessageToConfirm(t, m) ==
    [t EXCEPT !.toConfirm = IF m \in Content THEN @ \cup {m} ELSE @]

RecreateSession(t) ==
    [t EXCEPT !.processed = <<>>, !.toConfirm = {},
              !.forgotten = @ \cup ToSet(t.processed)]

(* What the message itself does is left out, but for recreating the session. *)
Handle(t, m) ==
    LET u == IF m \in Resets THEN RecreateSession(t) ELSE t
    IN [u EXCEPT !.handled[m] = IF @ < Twice THEN @ + 1 ELSE @]

-----------------------------------------------------------------------------
(* What the session's steps mean for the server.  A recreated session has a  *)
(* new identifier: what is on its way for the old one is dropped on both     *)
(* sides.  What is sent starts with all the confirmations that wait.         *)
Abandon(recreated) ==
    /\ old' = IF recreated THEN sent' ELSE old
    /\ acks' = IF recreated THEN {} ELSE acks
    /\ UNCHANGED <<confirmed, careless>>

Confirm ==
    /\ s' = [s EXCEPT !.toConfirm = {}]
    /\ acks' = acks \cup s.toConfirm
    /\ UNCHANGED <<inside, old, confirmed, careless>>

(* The server may send what is new, or what it has no confirmation of.       *)
Since(m, ids) == Cardinality({n \in ids : m < n})

MaySend(ms) ==
    \A m \in ms :
        /\ \A n \in old : n < m
        /\ m \in sent => m \in Content \ confirmed
        /\ \/ careless
           \/ m \notin Resets /\ Since(m, sent \cup ms) <= WindowSize - EraseCount

(* A message on its own.  One that was not parsed is handled and not         *)
(* remembered; one that is too old is thrown away, and confirmed.            *)
ReceiveMessage(m) ==
    LET c      == AddMessageToConfirm(s, m)
        status == IsMessageIdProcessed(s, m)
    IN /\ inside = Closed /\ MaySend({m})
       /\ sent' = sent \cup {m}
       /\ \/ /\ status = 0 /\ m \notin Unparsed
             /\ s' \in AddProcessedMessageId(Handle(c, m), m)
             /\ Abandon(m \in Resets)
          \/ /\ status = 0 /\ m \in Unparsed
             /\ s' = [Handle(c, m) EXCEPT !.forgotten = @ \cup {m}]
             /\ Abandon(FALSE)
          \/ /\ status = 2 /\ m \in Unparsed
             /\ s' = RecreateSession(c)
             /\ Abandon(TRUE)
          \/ /\ status = 1 \/ (status = 2 /\ m \notin Unparsed)
             /\ s' = [c EXCEPT !.toConfirm = {}]
             /\ acks' = acks \cup c.toConfirm
             /\ UNCHANGED <<old, confirmed, careless>>
       /\ UNCHANGED inside

(* A container with the messages of ms arrives, is gone through in the order *)
(* the server gave them, and is remembered.                                  *)
ReceiveContainer(c, ms) ==
    /\ inside = Closed /\ MaySend(ms \cup {c}) /\ \A m \in ms : m < c
    /\ sent' = sent \cup ms \cup {c}
    /\ \/ /\ IsMessageIdProcessed(s, c) = 0
          /\ inside' = [id |-> c, rest |-> ms]
          /\ UNCHANGED <<s, old, acks, confirmed, careless>>
       \/ IsMessageIdProcessed(s, c) # 0 /\ Confirm

(* One turn of the loop.  Status 2 is taken for 0 when the message was       *)
(* parsed, and ends the loop and the session when it was not.                *)
InnerMessageForgetsUnparsed(m) == \* mutant: what tgnet does not parse is not remembered
    LET c == AddMessageToConfirm(s, m)
    IN /\ m \in inside.rest
       /\ inside' = [inside EXCEPT !.rest = @ \ {m}]
       /\ \/ IsMessageIdProcessed(c, m) = 1 /\ s' = c
          \/ IsMessageIdProcessed(c, m) # 1 /\ m \in Unparsed /\ s' = Handle(c, m)
          \/ IsMessageIdProcessed(c, m) # 1 /\ m \notin Unparsed /\ s' \in AddProcessedMessageId(Handle(c, m), m)
       /\ UNCHANGED sent
       /\ Abandon(IsMessageIdProcessed(c, m) # 1 /\ m \in Resets)

InnerMessage(m) ==
    LET c      == AddMessageToConfirm(s, m)
        status == IsMessageIdProcessed(c, m)
        ends   == status = 2 /\ m \in Unparsed
    IN /\ m \in inside.rest
       /\ inside' = [inside EXCEPT !.rest = IF ends THEN {} ELSE @ \ {m}]
       /\ UNCHANGED sent
       /\ \/ /\ status = 1
             /\ s' = c
             /\ Abandon(FALSE)
          \/ /\ ends
             /\ s' = RecreateSession(c)
             /\ Abandon(TRUE)
          \/ /\ status # 1 /\ ~ends
             /\ s' \in AddProcessedMessageId(Handle(c, m), m)
             /\ Abandon(m \in Resets)

EndContainer ==
    /\ inside.id # 0 /\ inside.rest = {}
    /\ s' \in AddProcessedMessageId(s, inside.id)
    /\ inside' = Closed
    /\ UNCHANGED <<sent, old, acks, confirmed, careless>>

(* processRequestQueue sends the confirmations that wait, without requests   *)
(* if there are none.                                                        *)
SendConfirmation ==
    /\ inside = Closed /\ s.toConfirm # {}
    /\ Confirm
    /\ UNCHANGED sent

(* Datacenter::recreateSessions after logging out, after a handshake and for *)
(* a move of the account.                                                    *)
RecreateSessions ==
    /\ inside = Closed /\ sent # old
    /\ s' = RecreateSession(s)
    /\ UNCHANGED <<inside, sent>>
    /\ Abandon(TRUE)

-----------------------------------------------------------------------------
(* The server and the network.                                               *)
ConfirmationArrives(m) ==
    /\ m \in acks
    /\ acks' = acks \ {m}
    /\ confirmed' = confirmed \cup {m}
    /\ UNCHANGED <<s, inside, sent, old, careless>>

ConfirmationLost(m) ==
    /\ m \in acks
    /\ acks' = acks \ {m}
    /\ UNCHANGED <<s, inside, sent, old, confirmed, careless>>

HandlerStep == (\E m \in Messages : InnerMessage(m)) \/ EndContainer

Next ==
    \/ \E m \in Messages : ReceiveMessage(m)
    \/ \E c \in Containers, ms \in SUBSET Messages :
          Cardinality(ms) \in 1..MaxInside /\ ReceiveContainer(c, ms)
    \/ HandlerStep
    \/ SendConfirmation
    \/ RecreateSessions
    \/ \E m \in Content : ConfirmationArrives(m) \/ ConfirmationLost(m)

Spec == Init /\ [][Next]_vars

(* A handler comes to its end, the server repeats what is not confirmed, a   *)
(* pass over the requests comes again and again, and not every confirmation  *)
(* is lost.                                                                  *)
Repeat(m) == m \in sent /\ ReceiveMessage(m)

FairSpec ==
    /\ Spec
    /\ WF_vars(HandlerStep) /\ WF_vars(SendConfirmation)
    /\ \A m \in Content : WF_vars(Repeat(m)) /\ SF_vars(ConfirmationArrives(m))

-----------------------------------------------------------------------------
(* The identifiers remembered stay within the window.                        *)
TypeOK ==
    /\ s \in SessionType /\ Len(s.processed) <= WindowSize + 1
    /\ inside.rest \subseteq Messages /\ inside.id \in Containers \cup {0}
    /\ inside.id = 0 => inside = Closed
    /\ sent \subseteq Ids /\ old \subseteq sent
    /\ acks \subseteq Content /\ confirmed \subseteq Content

(* While the server repeats a message only if it has sent at most WindowSize *)
(* - EraseCount newer ones, and no message recreates the session, a message  *)
(* is handled once, however late and in whatever order it comes, on its own  *)
(* or in a container, and however many identifiers have been forgotten.      *)
(* Messages tgnet does not parse are the exception: on their own they are    *)
(* not remembered.                                                           *)
HandledOnce == ~careless => \A m \in Messages \ Unparsed : s.handled[m] <= 1

(* A message is handled again only when the session has forgotten it: it was *)
(* erased from the window or with its session, the window had moved past it  *)
(* when it was remembered, or it came on its own and tgnet did not parse it. *)
HandledAgainOnlyIfForgotten ==
    \A m \in Messages : s.handled[m] > 1 => m \in s.forgotten

(* The server is told that a message has arrived only after it was handled,  *)
(* although it is put on the list before: with a server that sends nothing   *)
(* the window may have moved past, no message gets lost.                     *)
ConfirmedWasHandled == ~careless => \A m \in acks \cup confirmed : s.handled[m] > 0

(* Every message is confirmed in the end, or its session is abandoned: a     *)
(* lost confirmation is sent again when the message is repeated.             *)
FinallyConfirmed ==
    \A m \in Content : (careless /\ m \in sent) ~> m \in confirmed \cup old
=============================================================================
