---------------------------- MODULE DirectBroker ----------------------------
(***************************************************************************)
(* Registration and introduction under one serving broker, in the          *)
(* decentralised ("direct") dissemination mode of lib/broker.py,           *)
(* lib/publisher.py and lib/subscriber.py.                                 *)
(*                                                                         *)
(* A publisher registers its address and topics.  Before it answers, the   *)
(* broker tells every registered subscriber, one at a time over a REQ/REP  *)
(* pair of its own, and waits for each acknowledgement.  A subscriber that *)
(* registers gets a notification port, and then the publishers known so    *)
(* far.  Subscribers connect to publishers themselves.  Either kind of     *)
(* client leaves with a 'disconnect' request, or dies without one.         *)
(*                                                                         *)
(* The broker is one thread that blocks in every send and recv; clients    *)
(* run concurrently.                                                       *)
(*                                                                         *)
(* Where a definition follows one of a similar name, such as AllNotified   *)
(* follows NobodyAwaited, the first is a variant that a bug would give;    *)
(* nothing uses it, and the properties below are known to tell the two     *)
(* apart.                                                                  *)
(***************************************************************************)
EXTENDS Integers, FiniteSets, Registry

CONSTANTS
    Pub,            \* publishers, each one its own address ip:bind_port
    Sub,            \* subscribers
    IdOf,           \* id(self) of each subscriber, in its own process
    Host,           \* addresses of subscribers, which carry no port
    PubTopics,      \* the topics each publisher was started with
    SubTopics,      \* the topics each subscriber was started with
    HostOf,         \* the address each subscriber registers under
    PortRange,      \* the ports get_clear_port draws from
    TakenPorts,     \* ports of that range some other program has bound
    pub_reg_port,   \* ports of the two registration sockets, once bound
    sub_reg_port,
    Leavers,        \* clients that end their loop or are interrupted
    Killable,       \* clients that may die without a word
    None            \* no client, no port, no message (Python's None)

Client == Pub \cup Sub

ASSUME ClientAssumption ==
    /\ Pub \cap Sub = {}
    /\ None \notin Client
    /\ Leavers \subseteq Client
    /\ Killable \subseteq Client
    /\ IsFiniteSet(Sub)
\* driver.py refuses a client without topics.
ASSUME TopicAssumption ==
    /\ PubTopics \in [Pub -> (SUBSET Topic) \ {{}}]
    /\ SubTopics \in [Sub -> (SUBSET Topic) \ {{}}]
    /\ HostOf \in [Sub -> Host]
ASSUME PortAssumption ==
    /\ None \notin PortRange \cup {pub_reg_port, sub_reg_port}
    /\ {"success", "error"} \cap (PortRange \cup {None}) = {}
    /\ TakenPorts \subseteq PortRange

VARIABLES
    \* The broker.
    publishers,         \* topic -> bag of publisher addresses
    subscribers,        \* topic -> bag of subscriber addresses
    notify_sub_sockets, \* subscriber -> port of its REQ socket, or None
    used_ports,
    sub_reg_owed,       \* sub_reg_socket received a request it never answers
    handling,           \* whose registration is being handled, or None
    todo,               \* subscribers the current loop has yet to notify
    awaiting,           \* whose acknowledgement recv_string blocks on
    \* The sockets between broker and clients.
    notification,       \* <<topic, address>> pairs of the message in flight
    wire,               \* how far the REQ/REP exchange with awaiting has got
    receiver,           \* whose REP socket the message went to, or None
    request,            \* what a client has sent to its registration socket
    reply,              \* what the broker has answered
    \* The clients.
    pc,
    notify_port,        \* the port a subscriber was given
    conn                \* <<topic, address>> pairs a subscriber listens to

brokerVars == <<publishers, subscribers, notify_sub_sockets, used_ports,
                sub_reg_owed, handling, todo, awaiting>>
wireVars   == <<notification, wire, receiver, request, reply>>
clientVars == <<pc, notify_port, conn>>
vars == <<brokerVars, wireVars, clientVars>>

-----------------------------------------------------------------------------
BrokerInit ==
    /\ publishers = [t \in Topic |-> [p \in Pub |-> 0]]
    /\ subscribers = [t \in Topic |-> [h \in Host |-> 0]]
    /\ notify_sub_sockets = [s \in Sub |-> None]
    /\ used_ports = {pub_reg_port, sub_reg_port}
    /\ sub_reg_owed = FALSE
    /\ handling = None /\ todo = {} /\ awaiting = None
    /\ wire = "idle" /\ receiver = None /\ notification = {}
    /\ request = [c \in Client |-> "none"]
    /\ reply = [c \in Client |-> None]

Init ==
    /\ BrokerInit
    /\ pc = [c \in Client |-> "start"]
    /\ notify_port = [s \in Sub |-> None]
    /\ conn = [s \in Sub |-> {}]

-----------------------------------------------------------------------------
(* Clients.                                                                *)

\* configure: connect to the broker, send the registration, block for the
\* answer.
Register(c) ==
    /\ pc[c] = "start"
    /\ pc' = [pc EXCEPT ![c] = "registering"]
    /\ request' = [request EXCEPT ![c] = "register"]
    /\ UNCHANGED <<brokerVars, notification, wire, receiver, reply, notify_port, conn>>

\* A publisher goes on to publish whatever the broker answered.
PubConfirmed(p) ==
    /\ pc[p] = "registering"
    /\ reply[p] # None
    /\ pc' = [pc EXCEPT ![p] = "publishing"]
    /\ reply' = [reply EXCEPT ![p] = None]
    /\ UNCHANGED <<brokerVars, notification, wire, receiver, request, notify_port, conn>>

\* A subscriber connects its REP socket to the port it was given and starts
\* polling.
SubConfirmed(s) ==
    /\ pc[s] = "registering"
    /\ reply[s] # None
    /\ pc' = [pc EXCEPT ![s] = "listening"]
    /\ notify_port' = [notify_port EXCEPT ![s] = reply[s]]
    /\ reply' = [reply EXCEPT ![s] = None]
    /\ UNCHANGED <<brokerVars, notification, wire, receiver, request, conn>>

\* notify finds its notification socket readable: connect to the addresses
\* of the topics of interest, acknowledge.
EveryTopic(s, t) == TRUE
Interesting(s, t) == t \in SubTopics[s]

ReadNotification(s) ==
    /\ pc[s] = "listening"
    /\ receiver = s
    /\ wire = "sent"
    /\ conn' = [conn EXCEPT ![s] =
                   @ \cup {a \in notification : Interesting(s, a[1])}]
    /\ wire' = "acked"
    /\ UNCHANGED <<brokerVars, notification, receiver, request, reply, pc,
                   notify_port>>

\* The loop reached max_event_count, or KeyboardInterrupt: tell the broker
\* and block for the answer.  No notification is served from here on.
Leave(c) ==
    /\ c \in Leavers
    /\ pc[c] \in {"publishing", "listening"}
    /\ pc' = [pc EXCEPT ![c] = "leaving"]
    /\ request' = [request EXCEPT ![c] = "disconnect"]
    /\ UNCHANGED <<brokerVars, notification, wire, receiver, reply, notify_port, conn>>

\* The answer to 'disconnect' came: destroy the context, exit.
Left(c) ==
    /\ pc[c] = "leaving"
    /\ reply[c] # None
    /\ pc' = [pc EXCEPT ![c] = "gone"]
    /\ reply' = [reply EXCEPT ![c] = None]
    /\ conn' = [s \in Sub |-> IF s = c THEN {} ELSE conn[s]]
    /\ UNCHANGED <<brokerVars, notification, wire, receiver, request, notify_port>>

\* The process dies, or is interrupted while its REQ socket waits for an
\* answer (disconnect then raises).  What it has sent stays sent.
Kill(c) ==
    /\ c \in Killable
    /\ pc[c] \in {"registering", "publishing", "listening", "leaving"}
    /\ pc' = [pc EXCEPT ![c] = "killed"]
    /\ conn' = [s \in Sub |-> IF s = c THEN {} ELSE conn[s]]
    /\ UNCHANGED <<brokerVars, wireVars, notify_port>>

-----------------------------------------------------------------------------
(* The broker: parse_events takes one ready socket per round, and looks at *)
(* the publishers' first.                                                  *)

PubPending == \E p \in Pub : request[p] # "none"
SubReady == handling = None /\ ~PubPending /\ ~sub_reg_owed

AnswerEchoed(c, what) == reply' = [reply EXCEPT ![c] = request[c]]
AnswerNothing(c, what) == reply' = reply
AnswerRegistrations(c, what) ==
    reply' = [reply EXCEPT ![c] = IF request[c] = "disconnect" THEN None ELSE what]
Answer(c, what) == reply' = [reply EXCEPT ![c] = what]
Received(c) == request' = [request EXCEPT ![c] = "none"]

\* register_pub up to the notification loop, which walks over every
\* notification socket whatever the topics.
RegisterPub(p) ==
    /\ handling = None
    /\ request[p] = "register"
    /\ Received(p)
    /\ publishers' = AddUnder(publishers, PubTopics[p], p)
    /\ handling' = p
    /\ todo' = {s \in Sub : notify_sub_sockets[s] # None}
    /\ UNCHANGED <<subscribers, notify_sub_sockets, used_ports, sub_reg_owed,
                   awaiting, notification, wire, receiver, reply, clientVars>>

\* One turn of the loop in notify_subscribers: send, then block in recv.
NotifyNext(s) ==
    /\ handling \in Pub
    /\ awaiting = None
    /\ s \in todo
    /\ todo' = todo \ {s}
    /\ awaiting' = s
    /\ notification' = PubTopics[handling] \X {handling}
    /\ wire' = "sending"
    /\ UNCHANGED <<publishers, subscribers, notify_sub_sockets, used_ports,
                   sub_reg_owed, handling, receiver, request, reply,
                   clientVars>>

\* A REQ socket sends to a connected peer, and blocks until it has one: any
\* subscriber whose REP socket is connected to the port, reading or not.
Deliver(r) ==
    /\ wire = "sending"
    /\ notify_port[r] = notify_sub_sockets[awaiting]
    /\ pc[r] \in {"listening", "leaving"}
    /\ wire' = "sent"
    /\ receiver' = r
    /\ UNCHANGED <<brokerVars, notification, request, reply, clientVars>>

\* recv_string returns the acknowledgement.  It was the last one when a
\* subscriber is being registered.
NotifyAcked(s) ==
    /\ awaiting = s
    /\ wire = "acked"
    /\ awaiting' = None
    /\ wire' = "idle"
    /\ receiver' = None
    /\ notification' = {}
    /\ handling' = IF handling \in Sub THEN None ELSE handling
    /\ UNCHANGED <<publishers, subscribers, notify_sub_sockets, used_ports,
                   sub_reg_owed, todo, request, reply, clientVars>>

\* Everybody has been notified: answer the publisher.
NobodyAwaited == awaiting = None
AllNotified == todo = {} /\ awaiting = None

FinishPub(p) ==
    /\ handling = p
    /\ AllNotified
    /\ handling' = None
    /\ Answer(p, "success")
    /\ UNCHANGED <<publishers, subscribers, notify_sub_sockets, used_ports,
                   sub_reg_owed, todo, awaiting, notification, wire, receiver, request,
                   clientVars>>

\* disconnect_pub: topic by topic; an exception leaves the topics already
\* done removed, and is answered too.
DisconnectPub(p) ==
    /\ handling = None
    /\ request[p] = "disconnect"
    /\ Received(p)
    /\ LET droppable == {t \in PubTopics[p] : CanDrop(publishers[t], p)}
       IN \E done \in SUBSET droppable :
            /\ droppable = PubTopics[p] => done = droppable
            /\ publishers' = DropUnder(publishers, done, p)
            /\ Answer(p, IF done = PubTopics[p] THEN "success" ELSE "error")
    /\ UNCHANGED <<subscribers, notify_sub_sockets, used_ports, sub_reg_owed,
                   handling, todo, awaiting, notification, wire, receiver, clientVars>>

\* get_clear_port draws until a port is clear of its own allocations.
ClearPortsAll == PortRange
ClearPorts == PortRange \ used_ports
AllocatedSilently(port) == used_ports
Allocated(port) == used_ports \cup {port}

\* notify_sub_sockets has an entry per id: writing one drops the socket of any
\* other subscriber of that id, which closes it.
Overwrite(s, port) ==
    [o \in Sub |-> CASE o = s -> port
                    [] o # s /\ IdOf[o] = IdOf[s] -> None
                    [] OTHER -> notify_sub_sockets[o]]
HasSocket(s) ==
    \E o \in Sub : IdOf[o] = IdOf[s] /\ notify_sub_sockets[o] # None

\* register_sub up to get_clear_port.
RegisterSub(s) ==
    /\ SubReady
    /\ request[s] = "register"
    /\ Received(s)
    /\ subscribers' = AddUnder(subscribers, SubTopics[s], HostOf[s])
    /\ handling' = s
    /\ UNCHANGED <<publishers, notify_sub_sockets, used_ports, sub_reg_owed,
                   todo, awaiting, notification, wire, receiver, reply, clientVars>>

\* The broker's own sockets can be in the way too; the one with the id of s is
\* closed when its entry is written.
BoundByOther(s, port) ==
    \E o \in Sub : IdOf[o] # IdOf[s] /\ notify_sub_sockets[o] = port

\* Bind the notification socket.  If the port is free: answer the port, send
\* the publishers known so far, block for the acknowledgement.  Otherwise bind
\* raises and the handler returns without an answer; nobody is ever connected
\* to that socket, as if it had the port of another program or its own
\* registration port.
AllocatePort(s) ==
    /\ handling = s
    /\ awaiting = None
    /\ \E port \in ClearPorts :
         /\ used_ports' = Allocated(port)
         /\ \/ /\ port \notin TakenPorts /\ ~BoundByOther(s, port)
               /\ notify_sub_sockets' = Overwrite(s, port)
               /\ Answer(s, port)
               /\ notification' = {a \in SubTopics[s] \X Pub :
                                      publishers[a[1]][a[2]] > 0}
               /\ awaiting' = s
               /\ wire' = "sending"
               /\ UNCHANGED <<handling, sub_reg_owed>>
            \/ /\ port \in TakenPorts \/ BoundByOther(s, port)
               /\ notify_sub_sockets' =
                    Overwrite(s, IF port \in TakenPorts THEN port ELSE pub_reg_port)
               /\ handling' = None
               /\ sub_reg_owed' = TRUE
               /\ UNCHANGED <<reply, notification, awaiting, wire>>
    /\ UNCHANGED <<publishers, subscribers, todo, receiver, request, clientVars>>

\* disconnect_sub: give the port back, close the socket, then topic by
\* topic.  An exception anywhere leaves the rest undone and no answer.
DisconnectSub(s) ==
    /\ SubReady
    /\ request[s] = "disconnect"
    /\ Received(s)
    /\ used_ports' = used_ports \ {notify_port[s]}
    /\ LET held == notify_port[s] \in used_ports
           open == held /\ HasSocket(s)
           present == {t \in SubTopics[s] : ~NoEntry(subscribers[t])}
           droppable == {t \in present : open /\ CanDrop(subscribers[t], HostOf[s])}
       IN /\ notify_sub_sockets' = IF held THEN Overwrite(s, None)
                                           ELSE notify_sub_sockets
          /\ \E done \in SUBSET droppable :
               /\ droppable = present => done = droppable
               /\ subscribers' = DropUnder(subscribers, done, HostOf[s])
               /\ IF open /\ done = present
                  THEN Answer(s, "success") /\ UNCHANGED sub_reg_owed
                  ELSE sub_reg_owed' = TRUE /\ UNCHANGED reply
    /\ UNCHANGED <<publishers, handling, todo, awaiting, notification, wire, receiver,
                   clientVars>>

\* poll(500) comes back with nothing to do.
PollTimeout ==
    /\ handling = None
    /\ UNCHANGED vars

-----------------------------------------------------------------------------
BrokerNext ==
    \/ \E p \in Pub : RegisterPub(p) \/ FinishPub(p) \/ DisconnectPub(p)
    \/ \E s \in Sub : \/ NotifyNext(s) \/ Deliver(s) \/ NotifyAcked(s)
                      \/ RegisterSub(s) \/ AllocatePort(s) \/ DisconnectSub(s)

\* What a client's program does next if nothing makes it stop.
ClientNext(c) ==
    \/ Register(c)
    \/ Left(c)
    \/ c \in Pub /\ PubConfirmed(c)
    \/ c \in Sub /\ (SubConfirmed(c) \/ ReadNotification(c))

Next ==
    \/ BrokerNext
    \/ PollTimeout
    \/ \E c \in Client : ClientNext(c) \/ Leave(c) \/ Kill(c)

Spec == Init /\ [][Next]_vars

\* The broker's loop keeps running, and so does every client that is not
\* killed; nobody has to leave or to die.
FairSpec ==
    /\ Spec
    /\ WF_vars(BrokerNext)
    /\ \A c \in Client : WF_vars(ClientNext(c))

-----------------------------------------------------------------------------
(* Properties.                                                             *)

\* Every variable stays within the values the code gives it.
TypeOK ==
    /\ publishers \in [Topic -> [Pub -> Nat]]
    /\ subscribers \in [Topic -> [Host -> Nat]]
    /\ notify_sub_sockets \in [Sub -> PortRange \cup {None}]
    /\ used_ports \subseteq PortRange \cup {pub_reg_port, sub_reg_port}
    /\ sub_reg_owed \in BOOLEAN
    /\ handling \in Client \cup {None}
    /\ todo \subseteq Sub
    /\ awaiting \in Sub \cup {None}
    /\ notification \subseteq Topic \X Pub
    /\ wire \in {"idle", "sending", "sent", "acked"}
    /\ receiver \in Sub \cup {None}
    /\ request \in [Client -> {"none", "register", "disconnect"}]
    /\ reply \in [Client -> PortRange \cup {"success", "error", None}]
    /\ pc \in [Client -> {"start", "registering", "publishing", "listening",
                          "leaving", "gone", "killed"}]
    /\ notify_port \in [Sub -> PortRange \cup {None}]
    /\ conn \in [Sub -> SUBSET (Topic \X Pub)]

\* What p and s have in common, as the entries s should be connected to.
Matches(p, s) == (PubTopics[p] \cap SubTopics[s]) \X {p}

\* A subscriber has read the first notification it was sent.
Settled(s) ==
    /\ pc[s] = "listening"
    /\ handling = s => wire = "acked"

\* Once a publisher has its answer, every settled subscriber is connected to
\* it on each topic they share: no event of a confirmed publisher misses a
\* subscriber because the broker forgot to introduce them, whatever the order
\* in which the two registered (register_pub answers after its loop,
\* register_sub sends the publishers known so far).
Introduced ==
    \A p \in Pub, s \in Sub :
        pc[p] = "publishing" /\ Settled(s) => Matches(p, s) \subseteq conn[s]

\* used_ports holds the registration ports and the ports of the open
\* notification sockets, no port serves two subscribers, and a subscriber
\* that listens, or waits to leave, has the port its broker socket is bound
\* to (get_clear_port, disconnect_sub).
PortsExact ==
    /\ used_ports = {pub_reg_port, sub_reg_port} \cup
                    ({notify_sub_sockets[s] : s \in Sub} \ {None})
    /\ \A s \in Sub : notify_sub_sockets[s] \notin {pub_reg_port, sub_reg_port}
    /\ \A s1, s2 \in Sub :
         s1 # s2 /\ notify_sub_sockets[s1] # None =>
             notify_sub_sockets[s1] # notify_sub_sockets[s2]
    /\ \A s \in Sub :
         pc[s] = "listening" \/ (pc[s] = "leaving" /\ request[s] = "disconnect")
             => notify_port[s] # None /\ notify_port[s] = notify_sub_sockets[s]

\* A 'disconnect' always finds what it is to remove, under each topic and
\* under the client's own address: neither handler raises, and a list of one
\* entry, which is dropped without a look, is the leaver's own.
DisconnectFindsEntries ==
    /\ \A p \in Pub : request[p] = "disconnect" =>
         \A t \in PubTopics[p] : publishers[t][p] > 0
    /\ \A s \in Sub : request[s] = "disconnect" =>
         /\ notify_port[s] \in used_ports
         /\ notify_sub_sockets[s] # None
         /\ \A t \in SubTopics[s] : subscribers[t][HostOf[s]] > 0

\* The subscribers of t at host h that have registered and not left.
RegisteredAt(t, h) ==
    {s \in Sub : /\ handling = s \/ notify_sub_sockets[s] # None
                 /\ t \in SubTopics[s]
                 /\ HostOf[s] = h}

\* The list of a topic's subscribers has one entry for each of them, although
\* those on one host share an address: list.remove, which takes out any one,
\* and the pop of a last entry never take another subscriber's.
SubscriberCounts ==
    \A t \in Topic, h \in Host :
        subscribers[t][h] = Cardinality(RegisteredAt(t, h))

\* No subscriber is sent to a publisher that has left: the broker is never
\* between a notification and its acknowledgement when it answers the
\* 'disconnect' of the publisher the notification is about.
NoStaleIntroduction ==
    [][\A s \in Sub, p \in Pub :
          pc[p] = "gone" => conn'[s] \cap (Topic \X {p}) \subseteq conn[s]]_vars

\* The socket that acknowledges a notification is that of the subscriber it
\* was meant for.
AckedByAddressee == wire = "acked" => receiver = awaiting

\* The broker's view of DirectBroker as the service of Matchmaking.
Matchmaking == INSTANCE Matchmaking WITH
    known     <- {p \in Pub : \E t \in Topic : publishers[t][p] > 0},
    confirmed <- {p \in Pub : pc[p] = "publishing"},
    settled   <- {s \in Sub : Settled(s)},
    links     <- conn

\* Registration and introduction implement the matchmaking service.
ImplementsMatchmaking == Matchmaking!Spec

\* The broker blocks for good: it waits for the acknowledgement of a client
\* that does not serve notifications any more, or in get_clear_port with no
\* port clear, or it owes an answer it will never give.
Deaf(s) == pc[s] # "listening" /\ (pc[s] = "registering" => reply[s] = None)

Hung ==
    \/ sub_reg_owed
    \/ handling \in Sub /\ awaiting = None /\ ClearPorts = {}
    \/ awaiting # None /\ wire # "acked" /\ Deaf(IF wire = "sent" THEN receiver ELSE awaiting)

\* Every registration and every 'disconnect' is answered in the end, unless
\* the broker got stuck in one of these ways: there is no other.
RequestsAnswered ==
    \A c \in Client : request[c] # "none" ~> reply[c] # None \/ Hung

\* A publisher and a subscriber that share a topic are connected on it in the
\* end, whichever comes first, unless one of them leaves or the broker hangs.
MeetInTheEnd ==
    \A p \in Pub, s \in Sub :
        pc[p] = "publishing" /\ pc[s] = "listening" ~>
            \/ Matches(p, s) \subseteq conn[s]
            \/ pc[p] # "publishing" \/ pc[s] # "listening"
            \/ Hung

-----------------------------------------------------------------------------
(* What comments and docstrings say, and this code does not do.            *)

\* driver.py:101-102: an interrupted subscriber is "to disconnect properly to
\* tell broker it's no longer active".
DisconnectsProperly ==
    \A s \in Sub : pc[s] = "leaving" ~> pc[s] = "gone"
=============================================================================
