---------------------------- MODULE ClientThreads ----------------------------
(***************************************************************************)
(* The two threads of a client: the main thread, which publishes or polls  *)
(* and in the end disconnects, and the thread of the ZooKeeper library,    *)
(* whose callback destroys the client's sockets and replaces them when the *)
(* broker changes (lib/publisher.py, lib/subscriber.py).  They share the   *)
(* client's attributes, and WATCH_FLAG, which the main thread tests at the *)
(* start of each turn of its loop.                                         *)
(*                                                                         *)
(* A socket is a name and the number of the context it was made in; it is  *)
(* open while that context lives.  Using a closed socket raises, and so    *)
(* does a REQ or REP socket used out of turn.  What the main thread does   *)
(* not catch ends the process, and the callback with it, whose thread is   *)
(* a daemon; what the callback raises the library logs, and calls it again *)
(* at the next change.                                                     *)
(*                                                                         *)
(* Where a definition follows one of a similar name, the first is a variant*)
(* that a bug would give; nothing uses it.                                 *)
(***************************************************************************)
EXTENDS Integers, FiniteSets

CONSTANTS
    Topic,              \* the client's topics
    max_event_count,
    MaxChanges          \* bound: changes of the broker

ASSUME ThreadsAssumption ==
    /\ IsFiniteSet(Topic)
    /\ Topic \cap {"notify"} = {}
    /\ max_event_count \in Nat /\ MaxChanges \in Nat

VARIABLES
    kind,               \* publisher, or subscriber in either mode
    \* Attributes of the client.
    WATCH_FLAG,
    context,            \* its number
    broker_reg_socket,  \* the context the socket was made in
    pub_socket,
    bound,              \* pub_socket has been bound
    notify_sub_socket,
    sub_socket_dict,    \* topic -> context of its socket, or 0 if absent
    poller,             \* the sockets registered with it
    \* The main thread.
    mpc,
    polling,            \* the sockets a poll is looking at
    events,             \* those it found readable
    topic,              \* whose event is being received
    visited, size,      \* progress of an iteration over sub_socket_dict
    event_count,
    lost,               \* events sent by a socket that was not yet bound
    seen,               \* changes begun when it last found the flag unset
    asked,              \* the context whose socket it sent 'disconnect' on
    told,               \* the answer it left with was to its 'disconnect'
    interrupted,        \* the last Ctrl-C: never, while working or leaving
    \* The callback.
    watch,
    begun,              \* changes it has begun to handle
    \* Outside.
    live,               \* the contexts that have not been destroyed
    changes,            \* changes the callback has yet to handle
    exchange,           \* what the broker_reg_socket of each was used for
    note                \* the notification on notify_sub_socket

attributes == <<WATCH_FLAG, context, broker_reg_socket, pub_socket, bound,
                notify_sub_socket, sub_socket_dict, poller>>
loop == <<polling, events, topic, visited, size>>
counts == <<event_count, lost, seen>>
departure == <<asked, told, interrupted>>
main == <<mpc, loop, counts, departure>>
callback == <<watch, begun>>
outside == <<live, changes, exchange, note>>
vars == <<kind, attributes, main, callback, outside>>

\* The numbers of contexts; 0 stands for none.
Gen == 0..(MaxChanges + 1)

Running == mpc \notin {"exited", "crashed"}
Leaving == mpc \in {"leave", "await", "answered"}
Open(gen) == gen \in live
Topics == {t \in Topic : sub_socket_dict[t] # 0}

-----------------------------------------------------------------------------
\* The start sequence has configured the client and registered it.
Init ==
    /\ kind \in {"publisher", "direct", "central"}
    /\ WATCH_FLAG = FALSE
    /\ context = 1
    /\ broker_reg_socket = 1
    /\ pub_socket = IF kind = "publisher" THEN 1 ELSE 0
    /\ bound = (kind = "publisher")
    /\ notify_sub_socket = IF kind = "direct" THEN 1 ELSE 0
    /\ sub_socket_dict = [t \in Topic |-> IF kind = "central" THEN 1 ELSE 0]
    /\ poller = CASE kind = "publisher" -> {}
                  [] kind = "direct" -> {<<"notify", 1>>}
                  [] kind = "central" -> Topic \X {1}
    /\ mpc = "test"
    /\ polling = {} /\ events = {} /\ topic = {} /\ visited = {} /\ size = 0
    /\ event_count = 0 /\ lost = 0 /\ seen = 0
    /\ asked = 0 /\ told = FALSE /\ interrupted = "never"
    /\ watch = "idle" /\ begun = 0
    /\ live = {1} /\ changes = 0
    /\ exchange = [g \in Gen |-> "none"]
    /\ note = "none"

-----------------------------------------------------------------------------
(* The main thread.                                                        *)

Goto(label) == mpc' = label /\ UNCHANGED <<kind, attributes, callback>>

\* A turn's findings are not used after it.
Forget ==
    /\ polling' = {} /\ events' = {} /\ topic' = {}
    /\ visited' = {} /\ size' = 0

\* The head of the loops of publish and notify; while the flag is set they
\* only go round.
Test ==
    /\ mpc = "test"
    /\ \/ /\ event_count = max_event_count
          /\ Goto("leave")
          /\ UNCHANGED seen
       \/ /\ event_count < max_event_count
          /\ ~WATCH_FLAG
          /\ Goto(IF kind = "publisher" THEN "send" ELSE "poll")
          /\ seen' = begun
    /\ Forget
    /\ UNCHANGED <<event_count, lost, departure, outside>>

\* A PUB socket that is not bound drops what it is given.
Send ==
    /\ mpc = "send"
    /\ IF Open(pub_socket)
       THEN /\ Goto("test")
            /\ event_count' = event_count + 1
            /\ lost' = IF bound THEN lost ELSE lost + 1
       ELSE /\ Goto("crashed")
            /\ UNCHANGED <<event_count, lost>>
    /\ UNCHANGED <<loop, seen, departure, outside>>

Poll ==
    /\ mpc = "poll"
    /\ Goto("polling")
    /\ polling' = poller
    /\ UNCHANGED <<events, topic, visited, size, counts, departure, outside>>

\* Events may have arrived on any open socket of a topic.
Readable ==
    {socket \in polling : Open(socket[2]) /\ socket[1] \in Topic}
Notified ==
    {socket \in polling : note = "sent" /\ socket = <<"notify", notify_sub_socket>>}

PollReturns ==
    /\ mpc = "polling"
    /\ events' \in {Notified \cup arrived : arrived \in SUBSET Readable}
    /\ events' # {}
    /\ Goto("look")
    /\ UNCHANGED <<polling, topic, visited, size, counts, departure, outside>>

\* A poll over closed sockets, or over none, may raise, which notify catches,
\* or block for ever.
PollAbandoned == polling = {} \/ \E socket \in polling : ~Open(socket[2])

PollRaises ==
    /\ mpc = "polling"
    /\ PollAbandoned
    /\ Goto("look")
    /\ events' = {}
    /\ UNCHANGED <<polling, topic, visited, size, counts, departure, outside>>

Look ==
    /\ mpc = "look"
    /\ IF <<"notify", notify_sub_socket>> \in events
       THEN Goto("notified") /\ UNCHANGED <<visited, size>>
       ELSE Goto("iterate") /\ visited' = {} /\ size' = Cardinality(Topics)
    /\ UNCHANGED <<polling, events, topic, counts, departure, outside>>

\* for topic, socket in sub_socket_dict.items().  Python raises if the size
\* has changed; if the dictionary was cleared and refilled the iteration may
\* end anywhere.
WantedTooMany(t) == <<t, sub_socket_dict[t]>> \in events
Wanted(t) == <<t, sub_socket_dict[t]>> \in events /\ event_count < max_event_count

Iterate ==
    /\ mpc = "iterate"
    /\ \/ /\ Cardinality(Topics) # size
          /\ Goto("crashed")
          /\ UNCHANGED <<topic, visited, event_count>>
       \/ /\ Cardinality(Topics) = size
          /\ Topics \subseteq visited \/ begun # seen
          /\ Goto("test")
          /\ UNCHANGED <<topic, visited, event_count>>
       \/ /\ Cardinality(Topics) = size
          /\ \E t \in Topics \ visited :
               /\ visited' = visited \cup {t}
               /\ IF Wanted(t)
                  THEN /\ Goto("receive")
                       /\ topic' = {t}
                       /\ event_count' = event_count + 1
                  ELSE /\ Goto("iterate")
                       /\ UNCHANGED <<topic, event_count>>
    /\ UNCHANGED <<polling, events, size, lost, seen, departure, outside>>

\* parse_publish_event looks the socket up again.
Receive ==
    /\ mpc = "receive"
    /\ \E t \in topic : Goto(IF Open(sub_socket_dict[t]) THEN "iterate" ELSE "crashed")
    /\ UNCHANGED <<loop, counts, departure, outside>>

\* parse_notification.
ReadNote ==
    /\ mpc = "notified"
    /\ IF Open(notify_sub_socket)
       THEN /\ note = "sent"
            /\ note' = "read"
            /\ Goto("connect")
       ELSE /\ Goto("crashed")
            /\ UNCHANGED note
    /\ UNCHANGED <<loop, counts, departure, live, changes, exchange>>

\* setup_publisher_direct_connections: a topic ts that has no socket gets one,
\* and those of the topics that have publishers are connected to them.
Connect ==
    /\ mpc = "connect"
    /\ \E ts \in SUBSET Topic : \E published \in SUBSET ts :
         IF /\ ts \ Topics # {} => Open(context)
            /\ \A t \in published \cap Topics : Open(sub_socket_dict[t])
         THEN /\ mpc' = "acknowledge"
              /\ sub_socket_dict' =
                   [t \in Topic |->
                      IF t \in ts \ Topics THEN context ELSE sub_socket_dict[t]]
              /\ poller' = poller \cup ((ts \ Topics) \X {context})
         ELSE /\ mpc' = "crashed"
              /\ UNCHANGED <<sub_socket_dict, poller>>
    /\ UNCHANGED <<kind, WATCH_FLAG, context, broker_reg_socket, pub_socket, bound,
                   notify_sub_socket, loop, counts, departure, callback, outside>>

Acknowledge ==
    /\ mpc = "acknowledge"
    /\ IF Open(notify_sub_socket) /\ note = "read"
       THEN Goto("test") /\ note' = "none"
       ELSE Goto("crashed") /\ UNCHANGED note
    /\ UNCHANGED <<loop, counts, departure, live, changes, exchange>>

\* KeyboardInterrupt: the driver calls disconnect, once; its except clause is
\* not covered by its own try.  If the answer was there already, the context
\* may be destroyed already, which disconnect then trips over.
Interrupt ==
    /\ Running
    /\ interrupted' = IF Leaving THEN "leaving" ELSE "working"
    /\ \/ interrupted = "never" /\ Goto("leave")
       \/ (interrupted # "never" \/ mpc = "answered") /\ Goto("crashed")
    /\ Forget
    /\ UNCHANGED <<counts, asked, told, outside>>

\* A REQ socket sends if it is open and has had its last answer.
CanAsk == Open(broker_reg_socket) /\ exchange[broker_reg_socket] = "none"
Ask(question) == exchange' = [exchange EXCEPT ![broker_reg_socket] = question]

\* disconnect, which sends and then waits for the answer.
AfterDisconnectUnheard == "answered"
AfterDisconnect == "await"

Leave ==
    /\ mpc = "leave"
    /\ IF CanAsk
       THEN /\ Goto(AfterDisconnect)
            /\ Ask("disconnect")
            /\ asked' = broker_reg_socket
       ELSE /\ Goto("crashed")
            /\ UNCHANGED <<exchange, asked>>
    /\ UNCHANGED <<loop, counts, told, interrupted, live, changes, note>>

\* It receives from the socket it sent on, or from what broker_reg_socket was
\* when it came to do so.
Left ==
    /\ mpc = "await"
    /\ \E gen \in {asked, broker_reg_socket} :
         IF Open(gen) /\ exchange[gen] # "none"
         THEN /\ exchange[gen] \in {"registered", "disconnected"}
              /\ Goto("answered")
              /\ told' = (exchange[gen] = "disconnected")
              /\ exchange' = [exchange EXCEPT ![gen] = "none"]
         ELSE /\ Goto("crashed")
              /\ UNCHANGED <<told, exchange>>
    /\ UNCHANGED <<loop, counts, asked, interrupted, live, changes, note>>

\* context.destroy, which may fail, and sys.exit.
Exit ==
    /\ mpc = "answered"
    /\ Goto("exited")
    /\ UNCHANGED <<loop, counts, departure, outside>>

-----------------------------------------------------------------------------
(* The callback.                                                           *)

Step(from, to) ==
    /\ Running
    /\ watch = from
    /\ watch' = to
    /\ UNCHANGED <<kind, main>>

FlagForgotten == WATCH_FLAG
FlagRaised == TRUE

\* An event of type CHANGED, or None for a change that is found when the
\* session with ZooKeeper is restored: then the client only configures itself,
\* and its old sockets stay.
Begin ==
    /\ \E from \in {"idle", "failed"} :
         \/ Step(from, IF kind = "publisher" THEN "destroy" ELSE "clear")
         \/ Step(from, "configure")
    /\ changes > 0
    /\ changes' = changes - 1
    /\ begun' = begun + 1
    /\ WATCH_FLAG' = FlagRaised
    /\ UNCHANGED <<context, broker_reg_socket, pub_socket, bound, notify_sub_socket,
                   sub_socket_dict, poller, live, exchange, note>>

Clear ==
    /\ Step("clear", "destroy")
    /\ sub_socket_dict' = [t \in Topic |-> 0]
    /\ UNCHANGED <<WATCH_FLAG, context, broker_reg_socket, pub_socket, bound,
                   notify_sub_socket, poller, begun, outside>>

\* context.destroy closes every socket; what is queued on them is gone.
Destroy ==
    /\ Step("destroy", "configure")
    /\ live' = live \ {context}
    /\ exchange' = [exchange EXCEPT ![context] = "none"]
    /\ note' = IF notify_sub_socket = context THEN "none" ELSE note
    /\ UNCHANGED <<attributes, begun, changes>>

\* configure; where the address leads is left to Failover.
SocketKept == broker_reg_socket
SocketMade == begun + 1

Configure ==
    /\ Step("configure", IF kind = "publisher" THEN "make" ELSE "register")
    /\ context' = begun + 1
    /\ live' = live \cup {begun + 1}
    /\ broker_reg_socket' = SocketMade
    /\ poller' = {}
    /\ UNCHANGED <<WATCH_FLAG, pub_socket, bound, notify_sub_socket, sub_socket_dict,
                   begun, changes, exchange, note>>

\* A publisher's PUB socket is made, and then bound to the next free port.
Make ==
    /\ Step("make", "bind")
    /\ pub_socket' = context
    /\ bound' = FALSE
    /\ UNCHANGED <<WATCH_FLAG, context, broker_reg_socket, notify_sub_socket,
                   sub_socket_dict, poller, begun, outside>>

Bind ==
    /\ Step("bind", "register")
    /\ bound' = TRUE
    /\ UNCHANGED <<WATCH_FLAG, context, broker_reg_socket, pub_socket,
                   notify_sub_socket, sub_socket_dict, poller, begun, outside>>

\* If the main thread has sent on the new socket already, this send raises;
\* the callback ends, and the flag stays set.
Register ==
    /\ \/ Step("register", "await") /\ CanAsk /\ Ask("register")
       \/ Step("register", "failed") /\ ~CanAsk /\ UNCHANGED exchange
    /\ UNCHANGED <<attributes, begun, live, changes, note>>

\* A publisher logs whatever it is answered; a subscriber looks in it for what
\* only the answer to a registration has.
Registered ==
    /\ \/ Step("await", "finish") /\ kind = "publisher"
       \/ Step("await", IF exchange[broker_reg_socket] = "registered" THEN "setup"
                        ELSE "failed") /\ kind # "publisher"
    /\ exchange[broker_reg_socket] \in {"registered", "disconnected"}
    /\ Ask("none")
    /\ UNCHANGED <<attributes, begun, live, changes, note>>

\* setup_notification_polling, or setup_broker_topic_port_connections, one
\* topic after the other.
Unpolled(name) == poller
Polled(name) == poller \cup {<<name, context>>}

Setup ==
    /\ \/ /\ kind = "direct"
          /\ Step("setup", "finish")
          /\ notify_sub_socket' = context
          /\ note' = "none"
          /\ poller' = Polled("notify")
          /\ UNCHANGED sub_socket_dict
       \/ /\ kind = "central"
          /\ \E t \in Topic :
               /\ sub_socket_dict[t] # context
               /\ sub_socket_dict' = [sub_socket_dict EXCEPT ![t] = context]
               /\ poller' = Polled(t)
          /\ Step("setup", IF \A t \in Topic : sub_socket_dict'[t] = context
                           THEN "finish" ELSE "setup")
          /\ UNCHANGED <<notify_sub_socket, note>>
    /\ UNCHANGED <<WATCH_FLAG, context, broker_reg_socket, pub_socket, bound, begun,
                   live, changes, exchange>>

Finish ==
    /\ Step("finish", "idle")
    /\ WATCH_FLAG' = FALSE
    /\ UNCHANGED <<context, broker_reg_socket, pub_socket, bound, notify_sub_socket,
                   sub_socket_dict, poller, begun, outside>>

-----------------------------------------------------------------------------
(* Outside: the broker, publishers, ZooKeeper.                             *)

Change ==
    /\ Running
    /\ begun + changes < MaxChanges
    /\ changes' = changes + 1
    /\ UNCHANGED <<kind, attributes, main, callback, live, exchange, note>>

Answer(gen) ==
    /\ Running
    /\ \/ exchange[gen] = "register" /\ exchange' = [exchange EXCEPT ![gen] = "registered"]
       \/ exchange[gen] = "disconnect" /\ exchange' = [exchange EXCEPT ![gen] = "disconnected"]
    /\ UNCHANGED <<kind, attributes, main, callback, live, changes, note>>

Notify ==
    /\ Running
    /\ Open(notify_sub_socket)
    /\ note = "none"
    /\ note' = "sent"
    /\ UNCHANGED <<kind, attributes, main, callback, live, changes, exchange>>

-----------------------------------------------------------------------------
MainNext ==
    \/ Test \/ Send \/ Poll \/ PollReturns \/ Look \/ Iterate \/ Receive
    \/ ReadNote \/ Connect \/ Acknowledge \/ Leave \/ Left \/ Exit

WatchNext ==
    \/ Begin \/ Clear \/ Destroy \/ Configure \/ Make \/ Bind
    \/ Register \/ Registered \/ Setup \/ Finish

Next ==
    \/ MainNext \/ PollRaises \/ Interrupt
    \/ WatchNext
    \/ Change \/ Notify \/ \E gen \in Gen : Answer(gen)

Spec == Init /\ [][Next]_vars

\* The main thread waits for what may never come: for an event at a poll
\* without a notification, or at a socket that was replaced after the poll.
Waiting ==
    \/ mpc = "polling" /\ Notified = {}
    \/ mpc = "receive" /\ \A t \in topic :
         Open(sub_socket_dict[t]) /\ <<t, sub_socket_dict[t]>> \notin events

\* Both threads go on, and the broker answers.
FairSpec ==
    /\ Spec
    /\ WF_vars(~Waiting /\ MainNext)
    /\ WF_vars(WatchNext)
    /\ WF_vars(\E gen \in Gen : Answer(gen))

-----------------------------------------------------------------------------
(* Properties.                                                             *)

Socket == (Topic \cup {"notify"}) \X Gen

\* Every variable stays within the values the code gives it.
TypeOK ==
    /\ kind \in {"publisher", "direct", "central"}
    /\ WATCH_FLAG \in BOOLEAN /\ bound \in BOOLEAN /\ told \in BOOLEAN
    /\ {context, broker_reg_socket, pub_socket, notify_sub_socket, asked} \subseteq Gen
    /\ live \subseteq Gen \ {0}
    /\ sub_socket_dict \in [Topic -> Gen]
    /\ poller \cup polling \cup events \subseteq Socket
    /\ mpc \in {"test", "send", "poll", "polling", "look", "iterate", "receive",
                "notified", "connect", "acknowledge", "leave", "await",
                "answered", "exited", "crashed"}
    /\ interrupted \in {"never", "working", "leaving"}
    /\ topic \cup visited \subseteq Topic
    /\ size \in 0..Cardinality(Topic)
    /\ event_count \in 0..max_event_count /\ lost \in 0..max_event_count
    /\ {seen, begun, changes} \subseteq 0..MaxChanges
    /\ watch \in {"idle", "clear", "destroy", "configure", "make", "bind",
                  "register", "await", "setup", "finish", "failed"}
    /\ exchange \in [Gen -> {"none", "register", "registered", "disconnect", "disconnected"}]
    /\ note \in {"none", "sent", "read"}

\* What WATCH_FLAG achieves: if a turn of the main loop begins after the
\* callback has finished, and no other begins meanwhile, the main thread does
\* not die in it, nor in the departure after it.  The exceptions are a socket
\* that the main thread itself put into the dictionary after it was cleared
\* and before the context was destroyed, which nothing removes; and a Ctrl-C
\* that comes when the client is leaving already.
FlagProtects ==
    mpc = "crashed" =>
        \/ begun # seen
        \/ interrupted = "leaving"
        \/ \E t \in Topics : ~Open(sub_socket_dict[t])

\* A change of broker costs a publisher that survives it at most the one event
\* it was about to send.
OneLostPerChange == lost <= begun

\* The flag that stays set when the callback fails never keeps a client from
\* its work: the client is leaving by then.  Unless it is interrupted again in
\* that, or a further change has the callback called again, its 'disconnect' is
\* answered and it leaves in order.
FailureHarmless ==
    watch = "failed" =>
        /\ Leaving \/ ~Running
        /\ interrupted = "leaving" \/ Leaving \/ (mpc = "exited" /\ told)

\* A client that leaves with an answer has been answered its 'disconnect',
\* unless a change of broker began after its last turn.
LeavesTold == mpc = "exited" => told \/ begun # seen

\* A notification, for which the broker waits, is read in the end, or goes with
\* its socket when the callback closes or replaces it, unless the client ends
\* or its main thread sleeps in a poll that a change of broker overtook: the
\* turn began before the change and polls other sockets.
NotificationRead ==
    note = "sent" ~>
        \/ note # "sent"
        \/ ~Running
        \/ mpc = "polling" /\ begun # seen /\ <<"notify", notify_sub_socket>> \notin polling
=============================================================================
