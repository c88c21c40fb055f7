---------------------------- MODULE CentralBroker ----------------------------
(***************************************************************************)
(* One serving broker in the centralised dissemination mode of             *)
(* lib/broker.py, lib/publisher.py and lib/subscriber.py.                  *)
(*                                                                         *)
(* The broker connects a SUB socket per topic to the publishers of the     *)
(* topic, binds a PUB socket per topic to a port of its own, and forwards  *)
(* event by event.  A subscriber is told the port of each of its topics.   *)
(* Each round of the event loop takes one poll, handles at most one        *)
(* registration request, the publishers' first, and then forwards one      *)
(* event of every topic the poll found readable.  A publisher is answered  *)
(* before the broker connects to it.                                       *)
(*                                                                         *)
(* ZeroMQ connects in the background, drops what it has no connection for, *)
(* and matches topics by prefix.                                           *)
(*                                                                         *)
(* Where a definition follows one of a similar name, the first is a variant*)
(* that a bug would give; nothing uses it, and the properties below are    *)
(* known to tell the two apart.                                            *)
(***************************************************************************)
EXTENDS Integers, Sequences, FiniteSets, Registry

CONSTANTS
    Pub, Sub, Host,
    PubTopics, SubTopics,  \* the topics each client was started with
    HostOf,                \* the address each subscriber registers under
    Extensions,            \* of a topic: the topics whose names begin with it
    PortRange,             \* the ports update_send_socket draws from
    TakenPorts,            \* those some other program has bound
    MaxEvents,             \* bound: events each publisher publishes
    HighWaterMark,         \* messages ZeroMQ queues on a connection
    Leavers, Killable,
    None

Client == Pub \cup Sub
Event == [topic : Topic, pub : Pub, n : 1..MaxEvents]

ASSUME CentralAssumption ==
    /\ Pub \cap Sub = {} /\ None \notin Client /\ IsFiniteSet(Sub)
    /\ PubTopics \in [Pub -> (SUBSET Topic) \ {{}}]
    /\ SubTopics \in [Sub -> (SUBSET Topic) \ {{}}]
    /\ HostOf \in [Sub -> Host]
    /\ Extensions \in [Topic -> SUBSET Topic]
    /\ \A t \in Topic : t \in Extensions[t]
    /\ None \notin PortRange /\ TakenPorts \subseteq PortRange
    /\ MaxEvents \in Nat /\ HighWaterMark \in Nat \ {0}
    /\ Leavers \cup Killable \subseteq Client

VARIABLES
    publishers, subscribers,
    receive_socket,  \* topic -> addresses its SUB socket is connected to
    receiving,       \* the keys of receive_socket_dict
    sending,         \* the keys of send_socket_dict
    send_port,       \* topic -> port: send_port_dict
    closed_polled,   \* the poller still holds a socket that was closed
    sub_reg_owed,    \* sub_reg_socket received a request it never answers
    answered,        \* the publisher just answered, whose request has yet to
                     \* be followed by update_receive_socket, or None
    handling,        \* the subscriber being registered, or None
    ready,           \* topics the poll found readable, yet to be served
    down,            \* the broker's process has ended
    inbox,           \* topic -> events queued at its SUB socket
    links,           \* established data connections: <<topic, client>>
    request, reply,  \* on the registration sockets
    pc,
    broker_port,     \* the ports each subscriber was told
    sent,            \* number of events each publisher has sent
    received         \* what each subscriber has received, and the topic whose
                     \* SUB socket at the broker it came in by

directory == <<publishers, subscribers>>
sockets == <<receive_socket, receiving, sending, send_port, closed_polled, sub_reg_owed>>
round == <<answered, handling, ready, down>>
clientVars == <<pc, broker_port, sent, received>>
vars == <<directory, sockets, round, inbox, links, request, reply, clientVars>>

Listed(registry) == {t \in Topic : ~NoEntry(registry[t])}

-----------------------------------------------------------------------------
Init ==
    /\ publishers = [t \in Topic |-> [p \in Pub |-> 0]]
    /\ subscribers = [t \in Topic |-> [h \in Host |-> 0]]
    /\ receive_socket = [t \in Topic |-> {}]
    /\ receiving = {}
    /\ sending = {}
    /\ send_port = [t \in Topic |-> None]
    /\ closed_polled = FALSE
    /\ sub_reg_owed = FALSE
    /\ answered = None
    /\ handling = None
    /\ ready = {}
    /\ down = FALSE
    /\ inbox = [t \in Topic |-> <<>>]
    /\ links = {}
    /\ request = [c \in Client |-> "none"]
    /\ reply = [c \in Client |-> "none"]
    /\ pc = [c \in Client |-> "start"]
    /\ broker_port = [s \in Sub |-> [t \in Topic |-> None]]
    /\ sent = [p \in Pub |-> 0]
    /\ received = [s \in Sub |-> <<>>]

-----------------------------------------------------------------------------
(* Clients, and their data connections.                                    *)

Register(c) ==
    /\ pc[c] = "start"
    /\ pc' = [pc EXCEPT ![c] = "registering"]
    /\ request' = [request EXCEPT ![c] = "register"]
    /\ UNCHANGED <<directory, sockets, round, inbox, links, reply, broker_port,
                   sent, received>>

\* register_pub, or register_sub and setup_broker_topic_port_connections.
Confirmed(c) ==
    /\ pc[c] = "registering"
    /\ reply[c] # "none"
    /\ pc' = [pc EXCEPT ![c] = IF c \in Pub THEN "publishing" ELSE "listening"]
    /\ reply' = [reply EXCEPT ![c] = "none"]
    /\ UNCHANGED <<directory, sockets, round, inbox, links, request, broker_port,
                   sent, received>>

\* A connection gets established: of the broker's socket for t to a publisher,
\* or of a subscriber's to the port it was told, whatever is bound there.
Establish(t, c) ==
    /\ ~down
    /\ \/ /\ c \in Pub
          /\ c \in receive_socket[t]
          /\ pc[c] \in {"registering", "publishing", "leaving"}
       \/ /\ c \in Sub
          /\ pc[c] \in {"listening", "leaving"}
          /\ t \in sending
          /\ broker_port[c][t] = send_port[t]
    /\ links' = links \cup {<<t, c>>}
    /\ UNCHANGED <<directory, sockets, round, inbox, request, reply, clientVars>>

\* An event goes to each of the broker's sockets that is connected, has a
\* filter the topic begins with, and room.
Publish(p) ==
    /\ pc[p] = "publishing"
    /\ sent[p] < MaxEvents
    /\ sent' = [sent EXCEPT ![p] = @ + 1]
    /\ \E t \in PubTopics[p] :
         inbox' = [u \in Topic |->
           IF <<u, p>> \in links /\ t \in Extensions[u] /\ Len(inbox[u]) < HighWaterMark
           THEN Append(inbox[u], [topic |-> t, pub |-> p, n |-> sent[p] + 1])
           ELSE inbox[u]]
    /\ UNCHANGED <<directory, sockets, round, links, request, reply, pc,
                   broker_port, received>>

Leave(c) ==
    /\ c \in Leavers
    /\ pc[c] \in {"publishing", "listening"}
    /\ pc' = [pc EXCEPT ![c] = "leaving"]
    /\ request' = [request EXCEPT ![c] = "disconnect"]
    /\ UNCHANGED <<directory, sockets, round, inbox, links, reply, broker_port,
                   sent, received>>

\* The process ends, in order or not, and its connections with it.
End(c, how) ==
    /\ pc' = [pc EXCEPT ![c] = how]
    /\ links' = {l \in links : l[2] # c}
    /\ UNCHANGED <<directory, sockets, round, inbox, request, broker_port, sent,
                   received>>

Left(c) ==
    /\ pc[c] = "leaving"
    /\ reply[c] # "none"
    /\ reply' = [reply EXCEPT ![c] = "none"]
    /\ End(c, "gone")

Kill(c) ==
    /\ c \in Killable
    /\ pc[c] \in {"registering", "publishing", "listening", "leaving"}
    /\ UNCHANGED reply
    /\ End(c, "killed")

-----------------------------------------------------------------------------
(* A round of parse_events.                                                *)

\* The topics a poll finds readable.  A socket that the handler closes is not
\* looked at any more, and one it opens was not polled.
ReadableNew == {t \in receiving : Len(inbox[t]) = 1}
Readable == {t \in receiving : inbox[t] # <<>>}

Polling == ~down /\ answered = None /\ handling = None /\ ready = {}
PubPending == \E p \in Pub : request[p] # "none"
SubPending == ~sub_reg_owed /\ \E s \in Sub : request[s] # "none"

Received(c) == request' = [request EXCEPT ![c] = "none"]
AnswerEchoed(c, what) == reply' = [reply EXCEPT ![c] = request[c]]
Answer(c, what) == reply' = [reply EXCEPT ![c] = what]

\* register_pub, which answers the publisher before anything is connected.
RegisterPub(p) ==
    /\ Polling
    /\ request[p] = "register"
    /\ Received(p)
    /\ publishers' = AddUnder(publishers, PubTopics[p], p)
    /\ Answer(p, "success")
    /\ answered' = p
    /\ ready' = Readable
    /\ UNCHANGED <<subscribers, sockets, handling, down, inbox, links, clientVars>>

\* update_receive_socket, after every request of a publisher: each topic that
\* is listed has a socket, connected to all the publishers listed under it.
ConnectedNew(t) ==
    IF t \in receiving THEN receive_socket[t] ELSE {q \in Pub : publishers[t][q] > 0}
Connected(t) == receive_socket[t] \cup {q \in Pub : publishers[t][q] > 0}

UpdateReceiveSocket ==
    /\ answered # None
    /\ answered' = None
    /\ receiving' = Listed(publishers)
    /\ receive_socket' = [t \in Topic |-> Connected(t)]
    /\ UNCHANGED <<directory, sending, send_port, closed_polled, sub_reg_owed,
                   handling, ready, down, inbox, links, request, reply, clientVars>>

\* disconnect_pub.  A topic with no other publisher is dropped and its socket
\* closed, not taken off the poller.  At the first topic that has another one
\* the address is removed, and disconnect raises because it lacks "tcp://":
\* the topics that would follow stay as they are, the answer is an error.
DisconnectPub(p) ==
    /\ Polling
    /\ request[p] = "disconnect"
    /\ Received(p)
    /\ LET alone == {t \in PubTopics[p] : SingleEntry(publishers[t])}
           shared == PubTopics[p] \ alone
       IN \E closed \in SUBSET alone, stopped \in SUBSET shared :
            /\ shared = {} => closed = alone
            /\ shared # {} => Cardinality(stopped) = 1
            /\ publishers' = DropUnder(publishers, closed \cup stopped, p)
            /\ Answer(p, IF shared = {} THEN "success" ELSE "error")
            /\ receiving' = receiving \ closed
            /\ receive_socket' = [t \in Topic |->
                 IF t \in closed THEN {} ELSE receive_socket[t]]
            /\ closed_polled' = (closed_polled \/ closed # {})
            /\ inbox' = [t \in Topic |-> IF t \in closed THEN <<>> ELSE inbox[t]]
            /\ links' = links \ (closed \X Pub)
            /\ ready' = Readable \ closed
    /\ answered' = p
    /\ UNCHANGED <<subscribers, sending, send_port, sub_reg_owed, handling, down,
                   clientVars>>

RegisterSub(s) ==
    /\ Polling
    /\ ~PubPending /\ ~sub_reg_owed
    /\ request[s] = "register"
    /\ Received(s)
    /\ subscribers' = AddUnder(subscribers, SubTopics[s], HostOf[s])
    /\ handling' = s
    /\ ready' = Readable
    /\ UNCHANGED <<publishers, sockets, answered, down, inbox, links, reply, clientVars>>

\* A turn of update_send_socket's loop: a topic that has no socket gets one,
\* on a port no topic was given before.  If the port is taken, bind raises and
\* the handler returns without an answer.
ClearPorts == PortRange \ {send_port[t] : t \in Topic}

OpenSendSocket(t, port) ==
    /\ handling # None
    /\ t \in Listed(subscribers) \ sending
    /\ port \in ClearPorts
    /\ sending' = sending \cup {t}
    /\ send_port' = [send_port EXCEPT ![t] = port]
    /\ sub_reg_owed' = (port \in TakenPorts)
    /\ handling' = IF port \in TakenPorts THEN None ELSE handling
    /\ UNCHANGED <<directory, receive_socket, receiving, closed_polled,
                   answered, ready, down, inbox, links, request, reply, clientVars>>

\* Every topic has a socket: the subscriber is told the ports of its own.
FinishSub(s) ==
    /\ handling = s
    /\ Listed(subscribers) \subseteq sending
    /\ handling' = None
    /\ Answer(s, "success")
    /\ broker_port' = [broker_port EXCEPT ![s] =
         [t \in Topic |-> IF t \in SubTopics[s] THEN send_port[t] ELSE None]]
    /\ UNCHANGED <<directory, sockets, answered, ready, down, inbox, links, request, pc,
                   sent, received>>

\* disconnect_sub: the socket of a topic goes with its last subscriber.
DisconnectSub(s) ==
    /\ Polling
    /\ ~PubPending /\ ~sub_reg_owed
    /\ request[s] = "disconnect"
    /\ Received(s)
    /\ LET present == SubTopics[s] \cap Listed(subscribers)
           droppable == {t \in present : CanDrop(subscribers[t], HostOf[s])}
       IN \E done \in SUBSET droppable :
            LET closed == {t \in done : SingleEntry(subscribers[t])}
            IN /\ droppable = present => done = present
               /\ subscribers' = DropUnder(subscribers, done, HostOf[s])
               /\ sending' = sending \ closed
               /\ links' = links \ (closed \X Sub)
               /\ sub_reg_owed' = (done # present)
               /\ Answer(s, IF done = present THEN "success" ELSE reply[s])
    /\ ready' = Readable
    /\ UNCHANGED <<publishers, receive_socket, receiving, send_port, closed_polled,
                   answered, handling, down, inbox, clientVars>>

\* Only data is readable.
PollData ==
    /\ Polling
    /\ ~PubPending /\ ~SubPending
    /\ Readable # {}
    /\ ready' = Readable
    /\ UNCHANGED <<directory, sockets, answered, handling, down, inbox, links, request,
                   reply, clientVars>>

\* poll over a closed socket: depending on the libraries it raises, and the
\* broker disconnects and exits, or goes on.
PollRaises ==
    /\ Polling
    /\ closed_polled
    /\ down' = TRUE
    /\ links' = {}
    /\ UNCHANGED <<directory, sockets, answered, handling, ready, inbox, request, reply,
                   clientVars>>

\* What recv leaves on a topic's SUB socket.
StillQueued(t) == inbox[t]
Dequeued(t) == Tail(inbox[t])

\* send: nothing is taken from the queue of a topic nobody subscribes to.
\* The event goes out on the socket of its own topic, which need not be the
\* topic whose socket it came in by; without one the KeyError ends the broker.
Forward(t) ==
    /\ t \in ready
    /\ answered = None /\ handling = None
    /\ ready' = ready \ {t}
    /\ LET e == Head(inbox[t])
       IN \/ /\ t \notin sending
             /\ UNCHANGED <<inbox, received, down>>
          \/ /\ t \in sending /\ e.topic \in sending
             /\ inbox' = [inbox EXCEPT ![t] = Dequeued(t)]
             /\ received' = [s \in Sub |->
                  IF <<e.topic, s>> \in links /\ pc[s] = "listening"
                  THEN Append(received[s], [event |-> e, via |-> t])
                  ELSE received[s]]
             /\ UNCHANGED down
          \/ /\ t \in sending /\ e.topic \notin sending
             /\ inbox' = [inbox EXCEPT ![t] = Dequeued(t)]
             /\ down' = TRUE
             /\ UNCHANGED received
    /\ UNCHANGED <<directory, sockets, answered, handling, links, request, reply, pc,
                   broker_port, sent>>

\* poll(500) comes back with nothing to do.
PollTimeout == Polling /\ UNCHANGED vars

-----------------------------------------------------------------------------
BrokerNext ==
    \/ \E p \in Pub : RegisterPub(p) \/ DisconnectPub(p)
    \/ UpdateReceiveSocket
    \/ \E s \in Sub : RegisterSub(s) \/ FinishSub(s) \/ DisconnectSub(s)
    \/ \E t \in Topic, port \in PortRange : OpenSendSocket(t, port)
    \/ PollData
    \/ \E t \in Topic : Forward(t)

Next ==
    \/ BrokerNext
    \/ PollTimeout
    \/ PollRaises
    \/ \E t \in Topic, c \in Client : Establish(t, c)
    \/ \E p \in Pub : Publish(p)
    \/ \E c \in Client :
         Register(c) \/ Confirmed(c) \/ Leave(c) \/ Left(c) \/ Kill(c)

Spec == Init /\ [][Next]_vars

\* The event loop keeps running as long as the broker does.
FairSpec == Spec /\ WF_vars(BrokerNext)

-----------------------------------------------------------------------------
(* Properties.                                                             *)

Port == PortRange \cup {None}

\* Every variable stays within the values the code gives it.
TypeOK ==
    /\ publishers \in [Topic -> [Pub -> Nat]]
    /\ subscribers \in [Topic -> [Host -> Nat]]
    /\ receive_socket \in [Topic -> SUBSET Pub]
    /\ receiving \subseteq Topic /\ sending \subseteq Topic
    /\ send_port \in [Topic -> Port]
    /\ closed_polled \in BOOLEAN /\ sub_reg_owed \in BOOLEAN /\ down \in BOOLEAN
    /\ answered \in Pub \cup {None} /\ handling \in Sub \cup {None}
    /\ ready \subseteq receiving
    /\ inbox \in [Topic -> Seq(Event)]
    /\ links \subseteq Topic \X Client
    /\ request \in [Client -> {"none", "register", "disconnect"}]
    /\ reply \in [Client -> {"none", "success", "error"}]
    /\ pc \in [Client -> {"start", "registering", "publishing", "listening",
                          "leaving", "gone", "killed"}]
    /\ broker_port \in [Sub -> [Topic -> Port]]
    /\ sent \in [Pub -> 0..MaxEvents]
    /\ received \in [Sub -> Seq([event : Event, via : Topic])]

\* As long as a subscriber listens, each of its topics has a socket, bound to
\* the port the subscriber was told, and no other topic uses that port: the
\* pop of a "last" entry in disconnect_sub never closes a socket under a
\* subscriber that shares its host with the leaver.
PortsAgree ==
    \A s \in Sub : pc[s] = "listening" =>
        \A t \in SubTopics[s] :
            /\ t \in sending
            /\ broker_port[s][t] = send_port[t]
            /\ send_port[t] \notin TakenPorts
            /\ \A u \in sending \ {t} : send_port[u] # send_port[t]

\* A confirmed publisher is listed once under each of its topics, and the
\* broker is connected to it there, in spite of the removals that an error
\* cuts short; only the publisher answered last may be waited for, until the
\* end of the same round.  Then the broker has a SUB socket for exactly the
\* topics that are listed, and before that for no other.
SourcesConnected ==
    /\ receiving \subseteq Listed(publishers)
    /\ answered = None => receiving = Listed(publishers)
    /\ \A p \in Pub : pc[p] = "publishing" =>
         \A t \in PubTopics[p] :
             publishers[t][p] = 1 /\ (p \in receive_socket[t] \/ p = answered)

\* A subscriber receives events only on topics it asked for, and those of one
\* publisher and topic in the order they were published.  Each comes at most
\* once by the broker's SUB socket of the same topic, and once more by that of
\* every topic its name begins with.
InOrder ==
    \A s \in Sub :
        /\ \A i \in DOMAIN received[s] : received[s][i].event.topic \in SubTopics[s]
        /\ \A i, j \in DOMAIN received[s] :
             LET d == received[s][i].event
                 e == received[s][j].event
             IN i < j /\ received[s][i].via = received[s][j].via
                      /\ d.pub = e.pub /\ d.topic = e.topic
                => d.n < e.n

\* The queue of a topic that keeps its subscribers is drained, however many
\* clients register meanwhile.
Drained ==
    \A t \in Topic :
        inbox[t] # <<>> /\ t \in sending ~>
            inbox[t] = <<>> \/ t \notin sending \/ down

-----------------------------------------------------------------------------
(* What docstrings say, and this code does not do.                         *)

\* broker.py:212-214: the event loop polls "either indefinitely or until a
\* specific event count".  It should not end otherwise while nobody leaves.
LoopGoesOn == ~down
=============================================================================
