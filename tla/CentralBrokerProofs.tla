------------------------- MODULE CentralBrokerProofs -------------------------
(***************************************************************************)
(* Proofs about CentralBroker.  The inductive invariant comes in parts:    *)
(*                                                                         *)
(*   TypeOK, ReadyInv  the shape of the state; a topic the poll found      *)
(*                     readable stays so until it is served;               *)
(*   CallInv           where a client can be while its request is out;     *)
(*   PubInv            what the broker knows of each publisher, whose      *)
(*                     address is its own: from it SourcesConnected;       *)
(*   SubInv            subscribers share addresses, so the entries of an   *)
(*                     address are counted against the subscribers that    *)
(*                     rely on them; and the ports: from it PortsAgree;    *)
(*   OrderInv          events on their way, from sent over inbox to        *)
(*                     received: from it InOrder.                          *)
(***************************************************************************)
EXTENDS CentralBroker, FiniteSetTheorems, SequenceTheorems, TLAPS

ReadyInv == \A t \in ready : inbox[t] # <<>>

CallInv ==
    \A c \in Client :
        /\ request[c] = "register" => pc[c] \in {"registering", "killed"}
        /\ request[c] = "disconnect" => pc[c] \in {"leaving", "killed"}
        /\ request[c] # "none" \/ pc[c] \in {"start", "publishing", "listening"} =>
             reply[c] = "none"
        /\ pc[c] = "start" => request[c] = "none"
        /\ pc[c] = "publishing" => c \in Pub

\* The broker has handled the registration and not the leave.
Registered(c) ==
    \/ request[c] = "disconnect"
    \/ pc[c] \in {"registering", "publishing", "listening"} /\ request[c] = "none"

PubInv ==
    /\ receiving \subseteq Listed(publishers)
    /\ answered = None => receiving = Listed(publishers)
    /\ \A p \in Pub, t \in Topic :
         /\ publishers[t][p] \in {0, 1}
         /\ t \notin PubTopics[p] => publishers[t][p] = 0
         /\ pc[p] = "start" \/ request[p] = "register" => publishers[t][p] = 0
         /\ t \in PubTopics[p] /\ Registered(p) =>
              publishers[t][p] = 1 /\ (p \in receive_socket[t] \/ p = answered)

\* The subscribers of a topic that rely on the entries of an address.
Members(t, host) ==
    {s \in Sub : HostOf[s] = host /\ t \in SubTopics[s] /\ (Registered(s) \/ handling = s)}

CountInv ==
    \A t \in Topic, host \in Host : Cardinality(Members(t, host)) <= subscribers[t][host]

\* A subscriber that has been told its ports, and may be using them.
Told(s) ==
    \/ pc[s] = "listening"
    \/ request[s] = "disconnect"
    \/ pc[s] = "registering" /\ reply[s] # "none"

HandlingInv ==
    handling # None =>
        /\ ~sub_reg_owed
        /\ request[handling] = "none" /\ reply[handling] = "none"
        /\ pc[handling] \in {"registering", "killed"}

PortInv ==
    /\ \A t \in sending : send_port[t] # None
    /\ \A t, u \in Topic : t # u /\ send_port[t] = send_port[u] => send_port[t] = None
    /\ ~sub_reg_owed => \A t \in sending : send_port[t] \notin TakenPorts
    /\ \A s \in Sub : Told(s) =>
         \A t \in SubTopics[s] :
             t \in sending /\ broker_port[s][t] = send_port[t] /\ send_port[t] \notin TakenPorts

SubInv == CountInv /\ HandlingInv /\ PortInv

LinkInv ==
    \A s \in Sub, t \in Topic :
        broker_port[s][t] # None \/ <<t, s>> \in links => t \in SubTopics[s]

\* Events of one publisher queue in the order they were sent in,
QueueInv ==
    \A u \in Topic : \A j \in DOMAIN inbox[u] :
        /\ inbox[u][j].n <= sent[inbox[u][j].pub]
        /\ \A i \in DOMAIN inbox[u] :
             i < j /\ inbox[u][i].pub = inbox[u][j].pub => inbox[u][i].n < inbox[u][j].n

\* come after those that went through the same queue before them,
PassedInv ==
    \A s \in Sub : \A i \in DOMAIN received[s] :
        LET d == received[s][i].event
            u == received[s][i].via
        IN /\ d.topic \in SubTopics[s]
           /\ d.n <= sent[d.pub]
           /\ \A j \in DOMAIN inbox[u] : inbox[u][j].pub = d.pub => d.n < inbox[u][j].n

\* and are received in that order.
ReceivedInv ==
    \A s \in Sub : \A i, j \in DOMAIN received[s] :
        /\ i < j /\ received[s][i].via = received[s][j].via
        /\ received[s][i].event.pub = received[s][j].event.pub
        => received[s][i].event.n < received[s][j].event.n

OrderInv == LinkInv /\ QueueInv /\ PassedInv /\ ReceivedInv

IInv == TypeOK /\ ReadyInv /\ CallInv /\ PubInv /\ SubInv /\ OrderInv
-----------------------------------------------------------------------------
(* The broker's dictionaries.                                              *)

LEMMA AddTyped ==
    ASSUME NEW S, NEW registry \in [Topic -> [S -> Nat]], NEW ts, NEW x
    PROVE  AddUnder(registry, ts, x) \in [Topic -> [S -> Nat]]
<1>1. ASSUME NEW bag \in [S -> Nat] PROVE Add(bag, x) \in [S -> Nat]
  <2>1. Add(bag, x) = [y \in S |-> IF y = x THEN bag[y] + 1 ELSE bag[y]]
    BY DEF Add
  <2> QED
    BY <2>1
<1>2. \A t \in Topic : registry[t] \in [S -> Nat]
  OBVIOUS
<1> QED
  BY <1>1, <1>2 DEF AddUnder

LEMMA AddIs ==
    ASSUME NEW registry, NEW ts, NEW x, NEW t \in Topic, NEW y \in DOMAIN registry[t]
    PROVE  AddUnder(registry, ts, x)[t][y] =
             IF t \in ts /\ y = x THEN registry[t][y] + 1 ELSE registry[t][y]
  BY DEF AddUnder, Add

LEMMA DropTyped ==
    ASSUME NEW S, NEW bag \in [S -> Nat], NEW x \in S, CanDrop(bag, x)
    PROVE  Drop(bag, x) \in [S -> Nat]
  BY DEF CanDrop, Drop

LEMMA SingleIs ==
    ASSUME NEW S, NEW bag \in [S -> Nat], NEW x \in S, bag[x] > 0
    PROVE  SingleEntry(bag) <=> bag[x] = 1 /\ \A y \in S \ {x} : bag[y] = 0
<1>1. ASSUME SingleEntry(bag) PROVE bag[x] = 1 /\ \A y \in S \ {x} : bag[y] = 0
  <2>1. PICK z \in S : bag = [y \in S |-> IF y = z THEN 1 ELSE 0]
    BY <1>1 DEF SingleEntry
  <2>2. \A y \in S : bag[y] = IF y = z THEN 1 ELSE 0
    BY <2>1
  <2>3. z = x
    BY <2>2
  <2> QED
    BY <2>2, <2>3
<1>2. ASSUME bag[x] = 1, \A y \in S \ {x} : bag[y] = 0 PROVE SingleEntry(bag)
  <2>1. bag = [y \in S |-> IF y = x THEN 1 ELSE 0]
    BY <1>2
  <2>2. DOMAIN bag = S
    OBVIOUS
  <2> QED
    BY <2>1, <2>2, Zenon DEF SingleEntry
<1> QED
  BY <1>1, <1>2

LEMMA DropIs ==
    ASSUME NEW S, NEW bag \in [S -> Nat], NEW x \in S, bag[x] > 0
    PROVE  /\ Drop(bag, x) \in [S -> Nat]
           /\ \A y \in S : Drop(bag, x)[y] = IF y = x THEN bag[x] - 1 ELSE bag[y]
<1>1. CASE SingleEntry(bag)
  BY <1>1, SingleIs DEF Drop
<1>2. CASE ~SingleEntry(bag)
  BY <1>2 DEF Drop
<1> QED
  BY <1>1, <1>2

-----------------------------------------------------------------------------
(* Types.                                                                  *)

LEMMA TypeStep ==
    TypeOK /\ ReadyInv /\ CallInv /\ PubInv /\ [Next]_vars => TypeOK' /\ ReadyInv'
<1> SUFFICES ASSUME TypeOK, ReadyInv, CallInv, PubInv, [Next]_vars
             PROVE  TypeOK' /\ ReadyInv'
  OBVIOUS
<1> USE DEF Client
<1>1. ASSUME NEW c \in Client, Register(c) PROVE TypeOK' /\ ReadyInv'
  BY <1>1 DEF TypeOK, ReadyInv, Register, directory, sockets, round
<1>2. ASSUME NEW c \in Client, Confirmed(c) PROVE TypeOK' /\ ReadyInv'
  BY <1>2 DEF TypeOK, ReadyInv, Confirmed, directory, sockets, round
<1>3. ASSUME NEW t \in Topic, NEW c \in Client, Establish(t, c) PROVE TypeOK' /\ ReadyInv'
  <2>1. links' \subseteq Topic \X Client
    BY <1>3 DEF TypeOK, Establish
  <2> QED
    BY <1>3, <2>1 DEF TypeOK, ReadyInv, Establish, directory, sockets, round, clientVars
<1>4. ASSUME NEW p \in Pub, Publish(p) PROVE TypeOK' /\ ReadyInv'
  <2>1. PICK t \in PubTopics[p] :
          inbox' = [u \in Topic |->
            IF <<u, p>> \in links /\ t \in Extensions[u] /\ Len(inbox[u]) < HighWaterMark
            THEN Append(inbox[u], [topic |-> t, pub |-> p, n |-> sent[p] + 1])
            ELSE inbox[u]]
    BY <1>4 DEF Publish
  <2>2. [topic |-> t, pub |-> p, n |-> sent[p] + 1] \in Event
    <3>1. sent[p] \in Nat /\ sent[p] < MaxEvents /\ MaxEvents \in Nat /\ t \in Topic
      <4>1. sent[p] < MaxEvents
        BY <1>4 DEF Publish
      <4>2. sent[p] \in 0..MaxEvents
        BY DEF TypeOK
      <4>3. MaxEvents \in Nat /\ t \in Topic
        BY <2>1, CentralAssumption
      <4> QED
        BY <4>1, <4>2, <4>3
    <3> QED
      BY <3>1 DEF Event
  <2>3. ASSUME NEW u \in Topic
        PROVE  /\ inbox'[u] \in Seq(Event)
               /\ inbox[u] # <<>> => inbox'[u] # <<>>
    <3> DEFINE e == [topic |-> t, pub |-> p, n |-> sent[p] + 1]
    <3>1. inbox'[u] \in {inbox[u], Append(inbox[u], e)}
      BY <2>1
    <3> HIDE DEF e
    <3>2. inbox[u] \in Seq(Event) /\ e \in Event
      BY <2>2 DEF TypeOK, e
    <3>3. Append(inbox[u], e) \in Seq(Event) /\ Append(inbox[u], e) # <<>>
      BY <3>2
    <3> QED
      BY <3>1, <3>2, <3>3
  <2>4. inbox' \in [Topic -> Seq(Event)]
    BY <2>1, <2>3
  <2>5. sent' \in [Pub -> 0..MaxEvents]
    BY <1>4, CentralAssumption DEF TypeOK, Publish
  <2>6. ready \subseteq Topic
    BY DEF TypeOK
  <2> QED
    BY <1>4, <2>3, <2>4, <2>5, <2>6 DEF TypeOK, ReadyInv, Publish, directory, sockets,
       round
<1>5. ASSUME NEW c \in Client, Leave(c) PROVE TypeOK' /\ ReadyInv'
  BY <1>5 DEF TypeOK, ReadyInv, Leave, directory, sockets, round
<1>6. ASSUME NEW c \in Client, Left(c) PROVE TypeOK' /\ ReadyInv'
  BY <1>6 DEF TypeOK, ReadyInv, Left, End, directory, sockets, round
<1>7. ASSUME NEW c \in Client, Kill(c) PROVE TypeOK' /\ ReadyInv'
  BY <1>7 DEF TypeOK, ReadyInv, Kill, End, directory, sockets, round
<1>8. ASSUME NEW p \in Pub, RegisterPub(p) PROVE TypeOK' /\ ReadyInv'
  <2>0. /\ PubTopics[p] \in SUBSET Topic
        /\ publishers \in [Topic -> [Pub -> Nat]]
        /\ publishers' = AddUnder(publishers, PubTopics[p], p)
    BY <1>8, CentralAssumption DEF TypeOK, RegisterPub
  <2>1. publishers' \in [Topic -> [Pub -> Nat]]
    BY <2>0, AddTyped
  <2>4. reply' \in [Client -> {"none", "success", "error"}]
    BY <1>8 DEF TypeOK, RegisterPub, Answer
  <2> QED
    BY <1>8, <2>1, <2>4 DEF TypeOK, ReadyInv, RegisterPub, Readable, Received, sockets,
       clientVars
<1>9. ASSUME NEW p \in Pub, DisconnectPub(p) PROVE TypeOK' /\ ReadyInv'
  <2> DEFINE alone == {t \in PubTopics[p] : SingleEntry(publishers[t])}
             shared == PubTopics[p] \ alone
  <2>1. PICK closed \in SUBSET alone, stopped \in SUBSET shared :
             /\ publishers' = DropUnder(publishers, closed \cup stopped, p)
             /\ Answer(p, IF shared = {} THEN "success" ELSE "error")
             /\ receiving' = receiving \ closed
             /\ receive_socket' = [t \in Topic |->
                  IF t \in closed THEN {} ELSE receive_socket[t]]
             /\ closed_polled' = (closed_polled \/ closed # {})
             /\ inbox' = [t \in Topic |-> IF t \in closed THEN <<>> ELSE inbox[t]]
             /\ links' = links \ (closed \X Pub)
             /\ ready' = Readable \ closed
    BY <1>9, Zenon DEF DisconnectPub
  <2>2. publishers' \in [Topic -> [Pub -> Nat]]
    <3>1. ASSUME NEW t \in closed \cup stopped PROVE publishers[t][p] > 0 /\ t \in Topic
      BY <1>9, CentralAssumption DEF PubInv, Registered, DisconnectPub
    <3>2. \A t \in closed \cup stopped : Drop(publishers[t], p) \in [Pub -> Nat]
      BY <3>1, DropIs DEF TypeOK
    <3> QED
      BY <2>1, <3>2 DEF TypeOK, DropUnder
  <2>3. reply' \in [Client -> {"none", "success", "error"}]
    BY <2>1 DEF TypeOK, Answer
  <2>4. /\ inbox' \in [Topic -> Seq(Event)]
        /\ \A t \in Topic \ closed : inbox'[t] = inbox[t]
    BY <2>1 DEF TypeOK
  <2>5. ready' \subseteq receiving' /\ receiving' \subseteq Topic /\ ReadyInv'
    BY <2>1, <2>4 DEF TypeOK, ReadyInv, Readable
  <2>6. receive_socket' \in [Topic -> SUBSET Pub]
    BY <2>1 DEF TypeOK
  <2>7. closed_polled' \in BOOLEAN
    BY <2>1 DEF TypeOK
  <2>8. links' \subseteq Topic \X Client
    BY <2>1 DEF TypeOK
  <2>9. request' \in [Client -> {"none", "register", "disconnect"}]
    BY <1>9 DEF TypeOK, DisconnectPub, Received
  <2> QED
    BY <1>9, <2>2, <2>3, <2>4, <2>5, <2>6, <2>7, <2>8, <2>9
       DEF TypeOK, DisconnectPub, clientVars
<1>10. ASSUME NEW s \in Sub, RegisterSub(s) PROVE TypeOK' /\ ReadyInv'
  <2>1. subscribers' \in [Topic -> [Host -> Nat]]
    <3>1. SubTopics[s] \in SUBSET Topic /\ HostOf[s] \in Host
      BY CentralAssumption
    <3>2. subscribers \in [Topic -> [Host -> Nat]]
      BY DEF TypeOK
    <3>3. subscribers' = AddUnder(subscribers, SubTopics[s], HostOf[s])
      BY <1>10 DEF RegisterSub
    <3> QED
      BY <3>1, <3>2, <3>3, AddTyped
  <2> QED
    BY <1>10, <2>1 DEF TypeOK, ReadyInv, RegisterSub, Received, Readable, sockets,
       clientVars
<1>11. ASSUME NEW t \in Topic, NEW port \in PortRange, OpenSendSocket(t, port)
       PROVE  TypeOK' /\ ReadyInv'
  <2>1. send_port' \in [Topic -> Port]
    BY <1>11 DEF TypeOK, OpenSendSocket, Port
  <2>2. handling' \in Sub \cup {None} /\ sub_reg_owed' \in BOOLEAN
    <3>1. handling \in Sub \cup {None}
      BY DEF TypeOK
    <3>2. handling' = IF port \in TakenPorts THEN None ELSE handling
      BY <1>11 DEF OpenSendSocket
    <3>3. sub_reg_owed' = (port \in TakenPorts)
      BY <1>11 DEF OpenSendSocket
    <3>4. sub_reg_owed' \in BOOLEAN
      <4>1. CASE port \in TakenPorts
        BY <3>3, <4>1
      <4>2. CASE port \notin TakenPorts
        BY <3>3, <4>2
      <4> QED
        BY <4>1, <4>2
    <3> QED
      BY <3>1, <3>2, <3>4
  <2>3. sending' \subseteq Topic
    BY <1>11 DEF TypeOK, OpenSendSocket, Listed
  <2> QED
    BY <1>11, <2>1, <2>2, <2>3 DEF TypeOK, ReadyInv, OpenSendSocket, directory, clientVars
<1>12. ASSUME NEW s \in Sub, FinishSub(s) PROVE TypeOK' /\ ReadyInv'
  <2>1. broker_port' \in [Sub -> [Topic -> Port]]
    <3>1. [t \in Topic |-> IF t \in SubTopics[s] THEN send_port[t] ELSE None]
            \in [Topic -> Port]
      BY DEF TypeOK, Port
    <3> QED
      BY <1>12, <3>1 DEF TypeOK, FinishSub
  <2> QED
    BY <1>12, <2>1 DEF TypeOK, ReadyInv, FinishSub, Answer, directory, sockets
<1>13. ASSUME NEW s \in Sub, DisconnectSub(s) PROVE TypeOK' /\ ReadyInv'
  <2> DEFINE present == SubTopics[s] \cap Listed(subscribers)
             droppable == {t \in present : CanDrop(subscribers[t], HostOf[s])}
  <2>1. PICK done \in SUBSET droppable :
          LET closed == {t \in done : SingleEntry(subscribers[t])}
          IN /\ subscribers' = DropUnder(subscribers, done, HostOf[s])
             /\ sending' = sending \ closed
             /\ links' = links \ (closed \X Sub)
             /\ sub_reg_owed' = (done # present)
             /\ Answer(s, IF done = present THEN "success" ELSE reply[s])
    BY <1>13, Zenon DEF DisconnectSub
  <2>2. subscribers' \in [Topic -> [Host -> Nat]]
    <3>1. HostOf[s] \in Host
      BY CentralAssumption
    <3>2. \A t \in done : Drop(subscribers[t], HostOf[s]) \in [Host -> Nat]
      BY <3>1, DropTyped DEF TypeOK, Listed
    <3> QED
      BY <2>1, <3>2 DEF TypeOK, DropUnder
  <2>3. reply' \in [Client -> {"none", "success", "error"}]
    BY <2>1 DEF TypeOK, Answer
  <2>4. links' \subseteq Topic \X Client /\ sending' \subseteq Topic
    BY <2>1 DEF TypeOK
  <2>5. sub_reg_owed' \in BOOLEAN
    BY <2>1, Zenon
  <2>6. request' \in [Client -> {"none", "register", "disconnect"}]
    BY <1>13 DEF TypeOK, DisconnectSub, Received
  <2> QED
    BY <1>13, <2>2, <2>3, <2>4, <2>5, <2>6
       DEF TypeOK, ReadyInv, DisconnectSub, Readable, clientVars
<1>14. CASE PollData
  BY <1>14 DEF TypeOK, ReadyInv, PollData, Received, Answer, Readable, Polling,
     directory, sockets, clientVars
<1>15. CASE PollRaises
  BY <1>15 DEF TypeOK, ReadyInv, PollRaises, Received, Answer, Readable, Polling,
     directory, sockets, clientVars
<1>16. ASSUME NEW t \in Topic, Forward(t) PROVE TypeOK' /\ ReadyInv'
  <2>1. t \in Topic /\ inbox[t] \in Seq(Event) /\ inbox[t] # <<>> /\ Head(inbox[t]) \in Event
    BY <1>16 DEF TypeOK, ReadyInv, Forward
  <2>2. inbox' \in [Topic -> Seq(Event)] /\ \A u \in Topic \ {t} : inbox'[u] = inbox[u]
    <3>1. Tail(inbox[t]) \in Seq(Event)
      BY <2>1
    <3>2. UNCHANGED inbox \/ inbox' = [inbox EXCEPT ![t] = Tail(inbox[t])]
      BY <1>16 DEF Forward, Dequeued
    <3> QED
      BY <2>1, <3>1, <3>2 DEF TypeOK
  <2>3. received' \in [Sub -> Seq([event : Event, via : Topic])]
    <3>1. [event |-> Head(inbox[t]), via |-> t] \in [event : Event, via : Topic]
      BY <2>1
    <3>2. CASE UNCHANGED received
      BY <3>2 DEF TypeOK
    <3>3. CASE received' = [r \in Sub |->
                 IF <<Head(inbox[t]).topic, r>> \in links /\ pc[r] = "listening"
                 THEN Append(received[r], [event |-> Head(inbox[t]), via |-> t])
                 ELSE received[r]]
      <4> DEFINE Deliver(q) == Append(q, [event |-> Head(inbox[t]), via |-> t])
      <4>1. ASSUME NEW r \in Sub
            PROVE  /\ received[r] \in Seq([event : Event, via : Topic])
                   /\ Deliver(received[r]) \in Seq([event : Event, via : Topic])
        <5>1. received[r] \in Seq([event : Event, via : Topic])
          BY DEF TypeOK
        <5> QED
          BY <3>1, <5>1, AppendProperties
      <4> HIDE DEF Deliver
      <4>2. received' = [r \in Sub |->
                 IF <<Head(inbox[t]).topic, r>> \in links /\ pc[r] = "listening"
                 THEN Deliver(received[r]) ELSE received[r]]
        BY <3>3 DEF Deliver
      <4> QED
        BY <4>1, <4>2
    <3> QED
      BY <1>16, <3>2, <3>3 DEF Forward
  <2>4. down' \in BOOLEAN
    BY <1>16 DEF TypeOK, Forward
  <2> QED
    BY <1>16, <2>2, <2>3, <2>4 DEF TypeOK, ReadyInv, Forward, directory, sockets
<1>17. CASE UNCHANGED vars
  BY <1>17 DEF TypeOK, ReadyInv, vars, directory, sockets, round, clientVars
<1>18. CASE UpdateReceiveSocket
  <2>1. receiving \subseteq receiving' /\ receiving' \subseteq Topic
    BY <1>18 DEF PubInv, UpdateReceiveSocket, Listed
  <2>2. receive_socket' \in [Topic -> SUBSET Pub]
    BY <1>18 DEF TypeOK, UpdateReceiveSocket, Connected
  <2> QED
    BY <1>18, <2>1, <2>2 DEF TypeOK, ReadyInv, UpdateReceiveSocket, directory, clientVars
<1> QED
  BY <1>1, <1>2, <1>3, <1>4, <1>5, <1>6, <1>7, <1>8, <1>9, <1>10, <1>11, <1>12,
     <1>13, <1>14, <1>15, <1>16, <1>17, <1>18 DEF Next, BrokerNext, PollTimeout

-----------------------------------------------------------------------------
(* Calls.                                                                  *)

LEMMA CallStep == TypeOK /\ CallInv /\ SubInv /\ [Next]_vars => CallInv'
<1> SUFFICES ASSUME TypeOK, CallInv, SubInv, [Next]_vars PROVE CallInv'
  OBVIOUS
<1> USE DEF Client
<1>1. ASSUME NEW c \in Client, Register(c) PROVE CallInv'
  BY <1>1 DEF TypeOK, CallInv, Register, directory, sockets, round
<1>2. ASSUME NEW c \in Client, Confirmed(c) PROVE CallInv'
  BY <1>2 DEF TypeOK, CallInv, Confirmed, directory, sockets, round
<1>3. ASSUME NEW t \in Topic, NEW c \in Client, Establish(t, c) PROVE CallInv'
  BY <1>3 DEF TypeOK, CallInv, Establish, directory, sockets, round, clientVars
<1>4. ASSUME NEW p \in Pub, Publish(p) PROVE CallInv'
  BY <1>4 DEF TypeOK, CallInv, Publish, directory, sockets, round
<1>5. ASSUME NEW c \in Client, Leave(c) PROVE CallInv'
  BY <1>5 DEF TypeOK, CallInv, Leave, directory, sockets, round
<1>6. ASSUME NEW c \in Client, Left(c) PROVE CallInv'
  BY <1>6 DEF TypeOK, CallInv, Left, End, directory, sockets, round
<1>7. ASSUME NEW c \in Client, Kill(c) PROVE CallInv'
  BY <1>7 DEF TypeOK, CallInv, Kill, End, directory, sockets, round
<1>8. ASSUME NEW p \in Pub, RegisterPub(p) PROVE CallInv'
  BY <1>8 DEF TypeOK, CallInv, RegisterPub, Received, Answer, Readable, Polling,
     clientVars
<1>9. ASSUME NEW p \in Pub, DisconnectPub(p) PROVE CallInv'
  BY <1>9 DEF TypeOK, CallInv, DisconnectPub, Received, Answer, Readable, Polling,
     clientVars
<1>10. ASSUME NEW s \in Sub, RegisterSub(s) PROVE CallInv'
  BY <1>10 DEF TypeOK, CallInv, RegisterSub, Received, Answer, Readable, Polling,
     sockets, clientVars
<1>11. ASSUME NEW t \in Topic, NEW port \in PortRange, OpenSendSocket(t, port)
       PROVE  CallInv'
  BY <1>11 DEF TypeOK, CallInv, OpenSendSocket, directory, clientVars
<1>12. ASSUME NEW s \in Sub, FinishSub(s) PROVE CallInv'
  <2>1. handling = s /\ handling # None
    BY <1>12, CentralAssumption DEF FinishSub
  <2> QED
    BY <1>12, <2>1 DEF TypeOK, CallInv, SubInv, HandlingInv, FinishSub, Answer,
       directory, sockets
<1>13. ASSUME NEW s \in Sub, DisconnectSub(s) PROVE CallInv'
  BY <1>13 DEF TypeOK, CallInv, DisconnectSub, Received, Answer, Readable, Polling,
     clientVars
<1>14. CASE PollData
  BY <1>14 DEF TypeOK, CallInv, PollData, Received, Answer, Readable, Polling,
     directory, sockets, clientVars
<1>15. CASE PollRaises
  BY <1>15 DEF TypeOK, CallInv, PollRaises, Received, Answer, Readable, Polling,
     directory, sockets, clientVars
<1>16. ASSUME NEW t \in Topic, Forward(t) PROVE CallInv'
  BY <1>16 DEF TypeOK, CallInv, Forward, directory, sockets
<1>17. CASE UNCHANGED vars
  BY <1>17 DEF TypeOK, CallInv, vars, directory, sockets, round, clientVars
<1>18. CASE UpdateReceiveSocket
  BY <1>18 DEF TypeOK, CallInv, UpdateReceiveSocket, directory, clientVars
<1> QED
  BY <1>1, <1>2, <1>3, <1>4, <1>5, <1>6, <1>7, <1>8, <1>9, <1>10, <1>11, <1>12,
     <1>13, <1>14, <1>15, <1>16, <1>17, <1>18 DEF Next, BrokerNext, PollTimeout

-----------------------------------------------------------------------------
(* Publishers.                                                             *)

LEMMA PubStep ==
    TypeOK /\ ReadyInv /\ CallInv /\ PubInv /\ [Next]_vars => PubInv'
<1> SUFFICES ASSUME TypeOK, ReadyInv, CallInv, PubInv, [Next]_vars PROVE PubInv'
  OBVIOUS
<1> USE DEF Client
<1>1. ASSUME NEW c \in Client, Register(c) PROVE PubInv'
  BY <1>1 DEF TypeOK, CallInv, PubInv, Registered, Register, directory, sockets, round
<1>2. ASSUME NEW c \in Client, Confirmed(c) PROVE PubInv'
  BY <1>2 DEF TypeOK, CallInv, PubInv, Registered, Confirmed, directory, sockets, round
<1>3. ASSUME NEW t \in Topic, NEW c \in Client, Establish(t, c) PROVE PubInv'
  BY <1>3 DEF TypeOK, CallInv, PubInv, Registered, Establish, directory, sockets, round,
     clientVars
<1>4. ASSUME NEW p \in Pub, Publish(p) PROVE PubInv'
  BY <1>4 DEF TypeOK, CallInv, PubInv, Registered, Publish, directory, sockets, round
<1>5. ASSUME NEW c \in Client, Leave(c) PROVE PubInv'
  BY <1>5 DEF TypeOK, CallInv, PubInv, Registered, Leave, directory, sockets, round
<1>6. ASSUME NEW c \in Client, Left(c) PROVE PubInv'
  BY <1>6 DEF TypeOK, CallInv, PubInv, Registered, Left, End, directory, sockets, round
<1>7. ASSUME NEW c \in Client, Kill(c) PROVE PubInv'
  BY <1>7 DEF TypeOK, CallInv, PubInv, Registered, Kill, End, directory, sockets, round
<1>8. ASSUME NEW p \in Pub, RegisterPub(p) PROVE PubInv'
  <2>1. /\ publishers \in [Topic -> [Pub -> Nat]]
        /\ publishers' = AddUnder(publishers, PubTopics[p], p)
        /\ request[p] = "register" /\ request' = [request EXCEPT ![p] = "none"]
        /\ answered = None /\ answered' = p /\ p # None
        /\ UNCHANGED <<pc, receiving, receive_socket>>
    BY <1>8, CentralAssumption DEF TypeOK, RegisterPub, Polling, Received, sockets, clientVars
  <2>2. ASSUME NEW t \in Topic, NEW q \in Pub
        PROVE  publishers'[t][q] =
                 IF t \in PubTopics[p] /\ q = p THEN publishers[t][q] + 1 ELSE publishers[t][q]
    <3>1. q \in DOMAIN publishers[t]
      BY <2>1
    <3> QED
      BY <2>1, <3>1, AddIs
  <2>3. Listed(publishers) \subseteq Listed(publishers')
    <3>1. publishers' \in [Topic -> [Pub -> Nat]]
      BY <2>1, CentralAssumption, AddTyped
    <3>2. ASSUME NEW t \in Topic, NEW q \in Pub, publishers[t][q] # 0
          PROVE  publishers'[t][q] # 0
      <4>1. publishers[t][q] \in Nat
        BY <2>1
      <4> QED
        BY <2>2, <3>2, <4>1
    <3> QED
      BY <2>1, <3>1, <3>2 DEF Listed, NoEntry
  <2>4. ASSUME NEW t \in Topic PROVE publishers[t][p] = 0
    BY <2>1 DEF PubInv
  <2>5. ASSUME NEW q \in Pub, NEW t \in Topic PROVE PubInv!3!(q, t)'
    <3>1. CASE q = p
      <4>1. pc[p] \in {"registering", "killed"} /\ request'[p] = "none"
        BY <2>1 DEF CallInv, TypeOK
      <4> QED
        BY <2>1, <2>2, <2>4, <3>1, <4>1 DEF PubInv
    <3>2. CASE q # p
      <4>1. publishers'[t][q] = publishers[t][q] /\ request'[q] = request[q]
        BY <2>1, <2>2, <3>2 DEF TypeOK
      <4>2. publishers[t][q] \in Nat /\ q # None
        BY <2>1, CentralAssumption
      <4> QED
        BY <2>1, <2>2, <4>1, <4>2 DEF PubInv, Registered
    <3> QED
      BY <3>1, <3>2
  <2> QED
    BY <2>1, <2>3, <2>5 DEF PubInv
<1>9. ASSUME NEW p \in Pub, DisconnectPub(p) PROVE PubInv'
  <2> DEFINE alone == {t \in PubTopics[p] : SingleEntry(publishers[t])}
             shared == PubTopics[p] \ alone
  <2>1. PICK closed \in SUBSET alone, stopped \in SUBSET shared :
             /\ publishers' = DropUnder(publishers, closed \cup stopped, p)
             /\ receiving' = receiving \ closed
             /\ receive_socket' = [t \in Topic |->
                  IF t \in closed THEN {} ELSE receive_socket[t]]
    BY <1>9, Zenon DEF DisconnectPub
  <2>2. /\ publishers \in [Topic -> [Pub -> Nat]]
        /\ request[p] = "disconnect" /\ request' = [request EXCEPT ![p] = "none"]
        /\ pc[p] \in {"leaving", "killed"} /\ UNCHANGED pc
        /\ answered = None /\ answered' = p
    BY <1>9 DEF TypeOK, CallInv, DisconnectPub, Polling, Received, clientVars
  <2>3. \A t \in PubTopics[p] : t \in Topic /\ publishers[t][p] = 1
    BY <2>2, CentralAssumption DEF PubInv, Registered
  <2>4. ASSUME NEW t \in Topic, NEW q \in Pub
        PROVE  publishers'[t][q] =
                 IF t \in closed \cup stopped /\ q = p THEN 0 ELSE publishers[t][q]
    <3>1. CASE t \in closed \cup stopped
      <4>1. publishers'[t] = Drop(publishers[t], p)
        BY <2>1, <3>1 DEF DropUnder
      <4>2. publishers[t] \in [Pub -> Nat] /\ publishers[t][p] = 1
        BY <2>2, <2>3, <3>1
      <4> QED
        BY <3>1, <4>1, <4>2, DropIs
    <3>2. CASE t \notin closed \cup stopped
      BY <2>1, <3>2 DEF DropUnder
    <3> QED
      BY <3>1, <3>2
  <2>5. ASSUME NEW t \in closed PROVE \A q \in Pub \ {p} : publishers[t][q] = 0
    <3>1. publishers[t] \in [Pub -> Nat] /\ publishers[t][p] > 0 /\ SingleEntry(publishers[t])
      BY <2>2, <2>3
    <3> QED
      BY <3>1, SingleIs
  <2>6. ASSUME NEW t \in stopped PROVE \E q \in Pub \ {p} : publishers[t][q] # 0
    <3>1. publishers[t] \in [Pub -> Nat] /\ publishers[t][p] = 1 /\ ~SingleEntry(publishers[t])
      BY <2>2, <2>3
    <3> QED
      BY <3>1, SingleIs
  <2>7. receiving' = Listed(publishers')
    <3>1. publishers' \in [Topic -> [Pub -> Nat]]
      BY <1>9, TypeStep DEF Next, BrokerNext, TypeOK
    <3>2. \A t \in Topic : t \in Listed(publishers) <=> \E q \in Pub : publishers[t][q] # 0
      BY <2>2 DEF Listed, NoEntry
    <3>3. \A t \in Topic : t \in Listed(publishers') <=> \E q \in Pub : publishers'[t][q] # 0
      BY <3>1 DEF Listed, NoEntry
    <3>4. ASSUME NEW t \in Topic
          PROVE  t \in Listed(publishers') <=> t \in Listed(publishers) /\ t \notin closed
      <4>1. CASE t \in closed
        BY <2>4, <2>5, <3>3, <4>1
      <4>2. CASE t \in stopped
        <5>1. t \notin closed
          BY <4>2
        <5> QED
          BY <2>4, <2>6, <3>2, <3>3, <4>2, <5>1
      <4>3. CASE t \notin closed \cup stopped
        BY <2>4, <3>2, <3>3, <4>3
      <4> QED
        BY <4>1, <4>2, <4>3
    <3>5. receiving = Listed(publishers)
      BY <2>2 DEF PubInv
    <3>6. Listed(publishers') \subseteq Topic /\ Listed(publishers) \subseteq Topic
      BY DEF Listed
    <3> QED
      BY <2>1, <3>4, <3>5, <3>6
  <2>8. ASSUME NEW q \in Pub, NEW t \in Topic PROVE PubInv!3!(q, t)'
    <3>1. CASE q = p
      <4>1. request'[p] = "none" /\ ~Registered(p)' /\ pc'[p] # "start"
        BY <2>2 DEF TypeOK, Registered
      <4> QED
        BY <2>4, <3>1, <4>1 DEF PubInv
    <3>2. CASE q # p
      <4>1. publishers'[t][q] = publishers[t][q] /\ request'[q] = request[q]
        BY <2>2, <2>4, <3>2 DEF TypeOK
      <4>2. publishers[t][q] = 1 => receive_socket'[t] = receive_socket[t]
        BY <2>1, <2>5, <3>2
      <4>3. q # None
        BY CentralAssumption
      <4> QED
        BY <2>2, <4>1, <4>2, <4>3 DEF PubInv, Registered
    <3> QED
      BY <3>1, <3>2
  <2> QED
    BY <2>7, <2>8 DEF PubInv
<1>10. ASSUME NEW s \in Sub, RegisterSub(s) PROVE PubInv'
  <2>1. \A p \in Pub : request'[p] = request[p]
    BY <1>10, CentralAssumption DEF TypeOK, RegisterSub, Received
  <2> QED
    BY <1>10, <2>1 DEF PubInv, Registered, RegisterSub, sockets, clientVars
<1>11. ASSUME NEW t \in Topic, NEW port \in PortRange, OpenSendSocket(t, port)
       PROVE  PubInv'
  BY <1>11 DEF TypeOK, CallInv, PubInv, Registered, OpenSendSocket, directory, clientVars
<1>12. ASSUME NEW s \in Sub, FinishSub(s) PROVE PubInv'
  BY <1>12 DEF TypeOK, CallInv, PubInv, Registered, FinishSub, Received, Answer,
     Readable, Polling, directory, sockets
<1>13. ASSUME NEW s \in Sub, DisconnectSub(s) PROVE PubInv'
  BY <1>13 DEF TypeOK, CallInv, PubInv, Registered, DisconnectSub, Received, Answer,
     Readable, Polling, clientVars
<1>14. CASE PollData
  BY <1>14 DEF TypeOK, CallInv, PubInv, Registered, PollData, Received, Answer,
     Readable, Polling, directory, sockets, clientVars
<1>15. CASE PollRaises
  BY <1>15 DEF TypeOK, CallInv, PubInv, Registered, PollRaises, Received, Answer,
     Readable, Polling, directory, sockets, clientVars
<1>16. ASSUME NEW t \in Topic, Forward(t) PROVE PubInv'
  BY <1>16 DEF TypeOK, CallInv, PubInv, Registered, Forward, directory, sockets
<1>17. CASE UNCHANGED vars
  BY <1>17 DEF TypeOK, CallInv, PubInv, Registered, vars, directory, sockets, round,
     clientVars
<1>18. CASE UpdateReceiveSocket
  <2>1. /\ receiving' = Listed(publishers) /\ answered' = None
        /\ UNCHANGED <<publishers, request, pc>>
    BY <1>18 DEF UpdateReceiveSocket, directory, clientVars
  <2>2. ASSUME NEW p \in Pub, NEW t \in Topic, publishers[t][p] = 1
        PROVE  p \in receive_socket'[t]
    BY <1>18, <2>2 DEF UpdateReceiveSocket, Connected
  <2> QED
    BY <2>1, <2>2 DEF PubInv, Registered
<1> QED
  BY <1>1, <1>2, <1>3, <1>4, <1>5, <1>6, <1>7, <1>8, <1>9, <1>10, <1>11, <1>12,
     <1>13, <1>14, <1>15, <1>16, <1>17, <1>18 DEF Next, BrokerNext, PollTimeout

-----------------------------------------------------------------------------
(* Subscribers.                                                            *)

LEMMA HandlingStep ==
    TypeOK /\ CallInv /\ HandlingInv /\ [Next]_vars => HandlingInv'
<1> SUFFICES ASSUME TypeOK, CallInv, HandlingInv, [Next]_vars PROVE HandlingInv'
  OBVIOUS
<1> USE DEF Client
<1>1. ASSUME NEW c \in Client, Register(c) PROVE HandlingInv'
  BY <1>1 DEF TypeOK, CallInv, HandlingInv, Register, directory, sockets, round
<1>2. ASSUME NEW c \in Client, Confirmed(c) PROVE HandlingInv'
  BY <1>2 DEF TypeOK, CallInv, HandlingInv, Confirmed, directory, sockets, round
<1>3. ASSUME NEW t \in Topic, NEW c \in Client, Establish(t, c) PROVE HandlingInv'
  BY <1>3 DEF TypeOK, CallInv, HandlingInv, Establish, directory, sockets, round,
     clientVars
<1>4. ASSUME NEW p \in Pub, Publish(p) PROVE HandlingInv'
  BY <1>4 DEF TypeOK, CallInv, HandlingInv, Publish, directory, sockets, round
<1>5. ASSUME NEW c \in Client, Leave(c) PROVE HandlingInv'
  BY <1>5 DEF TypeOK, CallInv, HandlingInv, Leave, directory, sockets, round
<1>6. ASSUME NEW c \in Client, Left(c) PROVE HandlingInv'
  BY <1>6 DEF TypeOK, CallInv, HandlingInv, Left, End, directory, sockets, round
<1>7. ASSUME NEW c \in Client, Kill(c) PROVE HandlingInv'
  BY <1>7 DEF TypeOK, CallInv, HandlingInv, Kill, End, directory, sockets, round
<1>8. ASSUME NEW p \in Pub, RegisterPub(p) PROVE HandlingInv'
  BY <1>8 DEF TypeOK, CallInv, HandlingInv, RegisterPub, Received, Answer, Readable,
     Polling, clientVars
<1>9. ASSUME NEW p \in Pub, DisconnectPub(p) PROVE HandlingInv'
  BY <1>9 DEF TypeOK, CallInv, HandlingInv, DisconnectPub, Received, Answer, Readable,
     Polling, clientVars
<1>10. ASSUME NEW s \in Sub, RegisterSub(s) PROVE HandlingInv'
  BY <1>10 DEF TypeOK, CallInv, HandlingInv, RegisterSub, Received, Answer, Readable,
     Polling, sockets, clientVars
<1>11. ASSUME NEW t \in Topic, NEW port \in PortRange, OpenSendSocket(t, port)
       PROVE  HandlingInv'
  BY <1>11 DEF TypeOK, CallInv, HandlingInv, OpenSendSocket, directory, clientVars
<1>12. ASSUME NEW s \in Sub, FinishSub(s) PROVE HandlingInv'
  BY <1>12 DEF TypeOK, CallInv, HandlingInv, FinishSub, Received, Answer, Readable,
     Polling, directory, sockets
<1>13. ASSUME NEW s \in Sub, DisconnectSub(s) PROVE HandlingInv'
  BY <1>13 DEF TypeOK, CallInv, HandlingInv, DisconnectSub, Received, Answer, Readable,
     Polling, clientVars
<1>14. CASE PollData
  BY <1>14 DEF TypeOK, CallInv, HandlingInv, PollData, Received, Answer, Readable,
     Polling, directory, sockets, clientVars
<1>15. CASE PollRaises
  BY <1>15 DEF TypeOK, CallInv, HandlingInv, PollRaises, Received, Answer, Readable,
     Polling, directory, sockets, clientVars
<1>16. ASSUME NEW t \in Topic, Forward(t) PROVE HandlingInv'
  BY <1>16 DEF TypeOK, CallInv, HandlingInv, Forward, directory, sockets
<1>17. CASE UNCHANGED vars
  BY <1>17 DEF TypeOK, CallInv, HandlingInv, vars, directory, sockets, round, clientVars
<1>18. CASE UpdateReceiveSocket
  BY <1>18 DEF TypeOK, CallInv, HandlingInv, UpdateReceiveSocket, directory, clientVars
<1> QED
  BY <1>1, <1>2, <1>3, <1>4, <1>5, <1>6, <1>7, <1>8, <1>9, <1>10, <1>11, <1>12,
     <1>13, <1>14, <1>15, <1>16, <1>17, <1>18 DEF Next, BrokerNext, PollTimeout

LEMMA MembersFinite ==
    \A t, host : IsFiniteSet(Members(t, host)) /\ IsFiniteSet(Members(t, host)')
<1>1. \A t, host : Members(t, host) \subseteq Sub /\ Members(t, host)' \subseteq Sub
  BY DEF Members
<1> QED
  BY <1>1, CentralAssumption, FS_Subset

LEMMA FewerMembers ==
    ASSUME NEW t, NEW host, Members(t, host)' \subseteq Members(t, host),
           NEW n \in Nat, Cardinality(Members(t, host)) <= n
    PROVE  Cardinality(Members(t, host))' <= n
  BY MembersFinite, FS_Subset, FS_CardinalityType

NobodyMore ==
    /\ subscribers' = subscribers
    /\ \A s \in Sub : Registered(s)' \/ handling' = s => Registered(s) \/ handling = s

LEMMA NobodyJoins == ASSUME TypeOK, CountInv, NobodyMore PROVE CountInv'
<1> SUFFICES ASSUME NEW t \in Topic, NEW host \in Host
             PROVE  Cardinality(Members(t, host))' <= subscribers'[t][host]
  BY DEF CountInv
<1>1. Members(t, host)' \subseteq Members(t, host)
  BY DEF Members, NobodyMore
<1>2. subscribers[t][host] \in Nat
  BY DEF TypeOK
<1> QED
  BY <1>1, <1>2, FewerMembers DEF CountInv, NobodyMore

\* An address has an entry for each subscriber that relies on it.
LEMMA MembersCount ==
    ASSUME TypeOK, CountInv, NEW t \in Topic, NEW host \in Host, NEW s \in Members(t, host)
    PROVE  /\ subscribers[t][host] > 0
           /\ \A r \in Members(t, host) : r # s => subscribers[t][host] > 1
<1>1. /\ Cardinality(Members(t, host)) \in Nat
      /\ subscribers[t][host] \in Nat
      /\ Cardinality(Members(t, host)) <= subscribers[t][host]
  BY MembersFinite, FS_CardinalityType DEF CountInv, TypeOK
<1>2. Cardinality(Members(t, host)) # 0
  BY MembersFinite, FS_EmptySet
<1>3. ASSUME NEW r \in Members(t, host), r # s PROVE Cardinality(Members(t, host)) > 1
  <2>1. Cardinality({r} \cup {s}) = 2 /\ {r} \cup {s} \subseteq Members(t, host)
    <3>1. IsFiniteSet({r}) /\ Cardinality({r}) = 1
      BY FS_Singleton
    <3>2. Cardinality({r} \cup {s}) = Cardinality({r}) + 1
      BY <1>3, <3>1, FS_AddElement
    <3> QED
      BY <3>1, <3>2
  <2>2. 2 <= Cardinality(Members(t, host))
    BY <2>1, MembersFinite, FS_Subset
  <2> QED
    BY <1>1, <2>2
<1> QED
  BY <1>1, <1>2, <1>3

LEMMA CountStep ==
    TypeOK /\ CallInv /\ CountInv /\ [Next]_vars => CountInv'
<1> SUFFICES ASSUME TypeOK, CallInv, CountInv, [Next]_vars PROVE CountInv'
  OBVIOUS
<1> USE DEF Client
<1>1. ASSUME NEW s \in Sub, RegisterSub(s) PROVE CountInv'
  <2>1. /\ request[s] = "register" /\ request' = [request EXCEPT ![s] = "none"]
        /\ handling = None /\ handling' = s /\ UNCHANGED pc
        /\ subscribers' = AddUnder(subscribers, SubTopics[s], HostOf[s])
    BY <1>1 DEF RegisterSub, Polling, Received, clientVars
  <2> SUFFICES ASSUME NEW t \in Topic, NEW host \in Host
               PROVE  Cardinality(Members(t, host))' <= subscribers'[t][host]
    BY DEF CountInv
  <2>2. subscribers[t] \in [Host -> Nat]
    BY DEF TypeOK
  <2>3. subscribers'[t][host] =
          IF t \in SubTopics[s] /\ host = HostOf[s] THEN subscribers[t][host] + 1
                                                    ELSE subscribers[t][host]
    <3>1. host \in DOMAIN subscribers[t]
      BY <2>2
    <3> QED
      BY <2>1, <3>1, AddIs
  <2>4. s \notin Members(t, host)
    BY <2>1, CentralAssumption DEF Members, Registered, CallInv
  <2>5. CASE t \in SubTopics[s] /\ host = HostOf[s]
    <3>1. Members(t, host)' \subseteq Members(t, host) \cup {s}
      BY <2>1, CentralAssumption DEF TypeOK, Members, Registered
    <3>2. Cardinality(Members(t, host)') <= Cardinality(Members(t, host)) + 1
      <4>1. /\ IsFiniteSet(Members(t, host) \cup {s})
            /\ Cardinality(Members(t, host) \cup {s}) = Cardinality(Members(t, host)) + 1
        BY <2>4, MembersFinite, FS_AddElement
      <4>2. Cardinality(Members(t, host)') <= Cardinality(Members(t, host) \cup {s})
        BY <3>1, <4>1, FS_Subset
      <4> QED
        BY <4>1, <4>2
    <3>3. /\ Cardinality(Members(t, host)') \in Nat /\ Cardinality(Members(t, host)) \in Nat
          /\ Cardinality(Members(t, host)) <= subscribers[t][host]
          /\ subscribers[t][host] \in Nat
      BY <2>2, MembersFinite, FS_CardinalityType DEF CountInv
    <3> QED
      BY <2>3, <2>5, <3>2, <3>3
  <2>6. CASE ~(t \in SubTopics[s] /\ host = HostOf[s])
    <3>1. Members(t, host)' \subseteq Members(t, host)
      BY <2>1, <2>6, CentralAssumption DEF TypeOK, Members, Registered
    <3> QED
      BY <2>2, <2>3, <2>6, <3>1, FewerMembers DEF CountInv
  <2> QED
    BY <2>5, <2>6
<1>2. ASSUME NEW s \in Sub, DisconnectSub(s) PROVE CountInv'
  <2>1. PICK done \in SUBSET SubTopics[s] :
          /\ subscribers' = DropUnder(subscribers, done, HostOf[s])
    BY <1>2 DEF DisconnectSub
  <2>2. /\ request[s] = "disconnect" /\ request' = [request EXCEPT ![s] = "none"]
        /\ pc[s] \in {"leaving", "killed"} /\ handling = None
        /\ UNCHANGED <<pc, handling>>
    BY <1>2 DEF TypeOK, CallInv, DisconnectSub, Polling, Received, clientVars
  <2> SUFFICES ASSUME NEW t \in Topic, NEW host \in Host
               PROVE  Cardinality(Members(t, host))' <= subscribers'[t][host]
    BY DEF CountInv
  <2>3. subscribers[t] \in [Host -> Nat] /\ HostOf[s] \in Host
    BY CentralAssumption DEF TypeOK
  <2>4. CASE t \in done
    <3>1. s \in Members(t, HostOf[s])
      BY <2>2, <2>4 DEF Members, Registered
    <3>2. subscribers[t][HostOf[s]] > 0
      BY <2>3, <3>1, MembersCount
    <3>3. subscribers'[t][host] =
            IF host = HostOf[s] THEN subscribers[t][host] - 1 ELSE subscribers[t][host]
      <4>1. subscribers'[t] = Drop(subscribers[t], HostOf[s])
        BY <2>1, <2>4 DEF DropUnder
      <4> QED
        BY <2>3, <3>2, <4>1, DropIs
    <3>4. Members(t, host)' \subseteq Members(t, host) \ {s}
      BY <2>2, CentralAssumption DEF TypeOK, Members, Registered
    <3>5. CASE host = HostOf[s]
      <4>1. Cardinality(Members(t, host) \ {s}) = Cardinality(Members(t, host)) - 1
        BY <3>1, <3>5, MembersFinite, FS_RemoveElement
      <4>2. IsFiniteSet(Members(t, host) \ {s})
        BY MembersFinite, FS_Subset
      <4>3. Cardinality(Members(t, host)') <= Cardinality(Members(t, host)) - 1
        BY <3>4, <4>1, <4>2, FS_Subset
      <4>4. /\ Cardinality(Members(t, host)') \in Nat /\ Cardinality(Members(t, host)) \in Nat
            /\ Cardinality(Members(t, host)) <= subscribers[t][host]
            /\ subscribers[t][host] \in Nat
        BY <2>3, MembersFinite, FS_CardinalityType DEF CountInv
      <4> QED
        BY <3>3, <3>5, <4>3, <4>4
    <3>6. CASE host # HostOf[s]
      BY <2>3, <3>3, <3>4, <3>6, FewerMembers DEF CountInv
    <3> QED
      BY <3>5, <3>6
  <2>5. CASE t \notin done
    <3>1. subscribers'[t] = subscribers[t]
      BY <2>1, <2>5 DEF DropUnder
    <3>2. Members(t, host)' \subseteq Members(t, host)
      BY <2>2, CentralAssumption DEF TypeOK, Members, Registered
    <3> QED
      BY <2>3, <3>1, <3>2, FewerMembers DEF CountInv
  <2> QED
    BY <2>4, <2>5
<1>3. CASE NobodyMore
  BY <1>3, NobodyJoins
<1>4. (\E s \in Sub : RegisterSub(s) \/ DisconnectSub(s)) \/ NobodyMore
  <2>1. ASSUME NEW c \in Client, Register(c) \/ Confirmed(c) \/ Leave(c) \/ Left(c) \/ Kill(c)
        PROVE  NobodyMore
    BY <2>1 DEF NobodyMore, TypeOK, CallInv, Registered, Register, Confirmed, Leave,
       Left, Kill,
       End, directory, round
  <2>2. ASSUME NEW p \in Pub, RegisterPub(p) \/ DisconnectPub(p) PROVE NobodyMore
    BY <2>2, CentralAssumption DEF NobodyMore, TypeOK, Registered, RegisterPub,
       DisconnectPub,
       Received, clientVars
  <2>8. UpdateReceiveSocket => NobodyMore
    BY DEF NobodyMore, Registered, UpdateReceiveSocket, directory, clientVars
  <2>3. ASSUME NEW p \in Pub, Publish(p) PROVE NobodyMore
    BY <2>3 DEF NobodyMore, Registered, Publish, directory, round
  <2>4. ASSUME NEW s \in Sub, FinishSub(s) PROVE NobodyMore
    BY <2>4, CentralAssumption DEF NobodyMore, Registered, FinishSub, directory
  <2>5. ASSUME NEW t \in Topic, NEW port \in PortRange, OpenSendSocket(t, port)
        PROVE  NobodyMore
    BY <2>5, CentralAssumption DEF NobodyMore, Registered, OpenSendSocket, directory,
       clientVars
  <2>6. ASSUME NEW t \in Topic, (\E c \in Client : Establish(t, c)) \/ Forward(t)
        PROVE  NobodyMore
    BY <2>6 DEF NobodyMore, Registered, Establish, Forward, directory, round, clientVars
  <2>7. PollData \/ PollRaises \/ UNCHANGED vars => NobodyMore
    BY DEF NobodyMore, Registered, PollData, PollRaises, vars, directory, round,
       clientVars
  <2> QED
    BY <2>1, <2>2, <2>3, <2>4, <2>5, <2>6, <2>7, <2>8 DEF Next, BrokerNext, PollTimeout
<1> QED
  BY <1>1, <1>2, <1>3, <1>4

LEMMA PortStep == TypeOK /\ CallInv /\ SubInv /\ [Next]_vars => PortInv'
<1> SUFFICES ASSUME TypeOK, CallInv, CountInv, HandlingInv, PortInv, [Next]_vars
             PROVE  PortInv'
  BY DEF SubInv
<1> USE DEF Client
<1>1. ASSUME NEW c \in Client, Register(c) PROVE PortInv'
  BY <1>1 DEF TypeOK, CallInv, PortInv, Told, Register, directory, sockets, round
<1>2. ASSUME NEW c \in Client, Confirmed(c) PROVE PortInv'
  BY <1>2 DEF TypeOK, CallInv, PortInv, Told, Confirmed, directory, sockets, round
<1>3. ASSUME NEW t \in Topic, NEW c \in Client, Establish(t, c) PROVE PortInv'
  BY <1>3 DEF TypeOK, CallInv, PortInv, Told, Establish, directory, sockets, round,
     clientVars
<1>4. ASSUME NEW p \in Pub, Publish(p) PROVE PortInv'
  BY <1>4 DEF TypeOK, CallInv, PortInv, Told, Publish, directory, sockets, round
<1>5. ASSUME NEW c \in Client, Leave(c) PROVE PortInv'
  <2>1. \A r \in Sub : Told(r)' => Told(r)
    BY <1>5, CentralAssumption DEF TypeOK, CallInv, Told, Leave
  <2> QED
    BY <1>5, <2>1 DEF PortInv, Leave, sockets
<1>6. ASSUME NEW c \in Client, Left(c) PROVE PortInv'
  BY <1>6 DEF TypeOK, CallInv, PortInv, Told, Left, End, directory, sockets, round
<1>7. ASSUME NEW c \in Client, Kill(c) PROVE PortInv'
  BY <1>7 DEF TypeOK, CallInv, PortInv, Told, Kill, End, directory, sockets, round
<1>8. ASSUME NEW p \in Pub, RegisterPub(p) PROVE PortInv'
  <2>1. \A r \in Sub : Told(r)' => Told(r)
    BY <1>8, CentralAssumption DEF TypeOK, Told, RegisterPub, Received, Answer, clientVars
  <2> QED
    BY <1>8, <2>1 DEF PortInv, RegisterPub, sockets, clientVars
<1>9. ASSUME NEW p \in Pub, DisconnectPub(p) PROVE PortInv'
  BY <1>9 DEF TypeOK, CallInv, PortInv, Told, DisconnectPub, Received, Answer, Readable,
     Polling, clientVars
<1>10. ASSUME NEW s \in Sub, RegisterSub(s) PROVE PortInv'
  BY <1>10 DEF TypeOK, CallInv, PortInv, Told, RegisterSub, Received, Answer, Readable,
     Polling, sockets, clientVars
<1>11. ASSUME NEW t \in Topic, NEW port \in PortRange, OpenSendSocket(t, port)
       PROVE  PortInv'
  <2>1. /\ t \in Topic \ sending /\ sending' = sending \cup {t}
        /\ send_port' = [send_port EXCEPT ![t] = port]
        /\ port \in PortRange /\ \A u \in Topic : send_port[u] # port
        /\ UNCHANGED <<pc, request, reply, broker_port>>
    BY <1>11 DEF OpenSendSocket, ClearPorts, Listed, clientVars
  <2>2. port # None
    BY <2>1, CentralAssumption
  <2>3. ~sub_reg_owed
    BY <1>11 DEF HandlingInv, OpenSendSocket
  <2>4. ~sub_reg_owed' => port \notin TakenPorts
    BY <1>11 DEF OpenSendSocket
  <2>5. \A r \in Sub : SubTopics[r] \subseteq Topic
    BY CentralAssumption
  <2>6. \A r \in Sub : Told(r)' <=> Told(r)
    BY <2>1 DEF Told
  <2>7. /\ sending \subseteq Topic
        /\ \A u \in Topic : send_port'[u] = IF u = t THEN port ELSE send_port[u]
    BY <2>1 DEF TypeOK
  <2> QED
    BY <2>1, <2>2, <2>3, <2>4, <2>5, <2>6, <2>7 DEF PortInv
<1>12. ASSUME NEW s \in Sub, FinishSub(s) PROVE PortInv'
  <2>1. /\ handling = s /\ Listed(subscribers) \subseteq sending
        /\ UNCHANGED <<pc, request, sending, send_port, sub_reg_owed>>
        /\ \A t \in Topic : broker_port'[s][t] = IF t \in SubTopics[s] THEN send_port[t] ELSE None
        /\ \A r \in Sub \ {s} : broker_port'[r] = broker_port[r] /\ reply'[r] = reply[r]
    BY <1>12 DEF TypeOK, FinishSub, Answer, sockets
  <2>2. ~sub_reg_owed /\ request[s] = "none" /\ pc[s] \in {"registering", "killed"}
    BY <2>1, CentralAssumption DEF HandlingInv
  <2>3. ASSUME NEW t \in SubTopics[s] PROVE t \in Topic /\ t \in sending
    <3>1. t \in Topic /\ HostOf[s] \in Host
      BY CentralAssumption
    <3>2. s \in Members(t, HostOf[s])
      BY <2>1 DEF Members
    <3>3. subscribers[t][HostOf[s]] > 0 /\ subscribers[t] \in [Host -> Nat]
      BY <3>1, <3>2, MembersCount DEF TypeOK
    <3> QED
      BY <2>1, <3>1, <3>3 DEF Listed, NoEntry
  <2>4. \A r \in Sub \ {s} : Told(r)' <=> Told(r)
    BY <2>1 DEF Told
  <2> QED
    BY <2>1, <2>2, <2>3, <2>4 DEF PortInv
<1>13. ASSUME NEW s \in Sub, DisconnectSub(s) PROVE PortInv'
  <2>1. PICK done \in SUBSET SubTopics[s] :
          /\ subscribers' = DropUnder(subscribers, done, HostOf[s])
          /\ sending' = sending \ {t \in done : SingleEntry(subscribers[t])}
    BY <1>13 DEF DisconnectSub
  <2>2. /\ request[s] = "disconnect" /\ request' = [request EXCEPT ![s] = "none"]
        /\ pc[s] \in {"leaving", "killed"} /\ ~sub_reg_owed
        /\ reply'[s] \in {"none", "success", "error"}
        /\ \A r \in Client \ {s} : reply'[r] = reply[r]
        /\ UNCHANGED <<pc, send_port, broker_port, handling>>
    BY <1>13 DEF TypeOK, CallInv, DisconnectSub, Received, Answer, clientVars
  <2>3. ASSUME NEW r \in Sub, r # s, Told(r), NEW t \in done, t \in SubTopics[r]
        PROVE  ~SingleEntry(subscribers[t])
    <3>1. t \in Topic /\ HostOf[r] \in Host /\ HostOf[s] \in Host
      BY <2>1, <2>3, CentralAssumption
    <3>2. r \in Members(t, HostOf[r]) /\ s \in Members(t, HostOf[s])
      BY <2>1, <2>2, <2>3 DEF Members, Told, Registered, CallInv, TypeOK
    <3>3. subscribers[t][HostOf[r]] > 0 /\ subscribers[t][HostOf[s]] > 0
      BY <3>1, <3>2, MembersCount
    <3>4. subscribers[t] \in [Host -> Nat]
      BY <3>1 DEF TypeOK
    <3>5. CASE HostOf[r] # HostOf[s]
      BY <3>1, <3>3, <3>4, <3>5, SingleIs
    <3>6. CASE HostOf[r] = HostOf[s]
      <4>1. subscribers[t][HostOf[s]] > 1
        BY <2>3, <3>1, <3>2, <3>6, MembersCount
      <4> QED
        BY <3>1, <3>3, <3>4, <4>1, SingleIs
    <3> QED
      BY <3>5, <3>6
  <2>4. ASSUME NEW r \in Sub, Told(r)' PROVE r # s /\ Told(r)
    BY <2>2, <2>4 DEF Told, TypeOK
  <2> QED
    BY <2>1, <2>2, <2>3, <2>4 DEF PortInv
<1>14. CASE PollData
  BY <1>14 DEF TypeOK, CallInv, PortInv, Told, PollData, Received, Answer, Readable,
     Polling, directory, sockets, clientVars
<1>15. CASE PollRaises
  BY <1>15 DEF TypeOK, CallInv, PortInv, Told, PollRaises, Received, Answer, Readable,
     Polling, directory, sockets, clientVars
<1>16. ASSUME NEW t \in Topic, Forward(t) PROVE PortInv'
  BY <1>16 DEF TypeOK, CallInv, PortInv, Told, Forward, directory, sockets
<1>17. CASE UNCHANGED vars
  BY <1>17 DEF TypeOK, CallInv, PortInv, Told, vars, directory, sockets, round, clientVars
<1>18. CASE UpdateReceiveSocket
  BY <1>18 DEF TypeOK, CallInv, PortInv, Told, UpdateReceiveSocket, directory, clientVars
<1> QED
  BY <1>1, <1>2, <1>3, <1>4, <1>5, <1>6, <1>7, <1>8, <1>9, <1>10, <1>11, <1>12,
     <1>13, <1>14, <1>15, <1>16, <1>17, <1>18 DEF Next, BrokerNext, PollTimeout

-----------------------------------------------------------------------------
(* Events.                                                                 *)

LEMMA LinkStep ==
    TypeOK /\ CallInv /\ PortInv /\ LinkInv /\ [Next]_vars => LinkInv'
<1> SUFFICES ASSUME TypeOK, CallInv, PortInv, LinkInv, [Next]_vars PROVE LinkInv'
  OBVIOUS
<1> USE DEF Client
<1>1. ASSUME NEW t \in Topic, NEW c \in Client, Establish(t, c) PROVE LinkInv'
  <2>1. c \in Sub => t \in sending /\ broker_port[c][t] = send_port[t]
    BY <1>1, CentralAssumption DEF Establish
  <2>2. c \in Sub => broker_port[c][t] # None
    BY <2>1 DEF PortInv
  <2>3. links' = links \cup {<<t, c>>} /\ UNCHANGED broker_port
    BY <1>1 DEF Establish, clientVars
  <2> QED
    BY <2>2, <2>3 DEF LinkInv
<1>2. ASSUME NEW s \in Sub, FinishSub(s) PROVE LinkInv'
  BY <1>2 DEF TypeOK, LinkInv, FinishSub
<1>3. CASE UNCHANGED broker_port /\ links' \subseteq links
  BY <1>3 DEF LinkInv
<1>4. \/ \E t \in Topic, c \in Client : Establish(t, c)
      \/ \E s \in Sub : FinishSub(s)
      \/ UNCHANGED broker_port /\ links' \subseteq links
  <2>1. ASSUME NEW c \in Client, Register(c) \/ Confirmed(c) \/ Leave(c) \/ Left(c) \/ Kill(c)
        PROVE  UNCHANGED broker_port /\ links' \subseteq links
    BY <2>1 DEF Register, Confirmed, Leave, Left, Kill, End
  <2>2. ASSUME NEW p \in Pub, Publish(p) \/ RegisterPub(p) \/ DisconnectPub(p)
        PROVE  UNCHANGED broker_port /\ links' \subseteq links
    BY <2>2 DEF Publish, RegisterPub, DisconnectPub, clientVars
  <2>3. ASSUME NEW s \in Sub, RegisterSub(s) \/ DisconnectSub(s)
        PROVE  UNCHANGED broker_port /\ links' \subseteq links
    BY <2>3 DEF RegisterSub, DisconnectSub, clientVars
  <2>4. ASSUME NEW t \in Topic, NEW port \in PortRange, OpenSendSocket(t, port)
        PROVE  UNCHANGED <<broker_port, links>>
    BY <2>4 DEF OpenSendSocket, clientVars
  <2>5. ASSUME NEW t \in Topic, Forward(t)
        PROVE  UNCHANGED broker_port /\ links' \subseteq links
    BY <2>5 DEF Forward
  <2>6. PollData \/ PollRaises \/ UpdateReceiveSocket \/ UNCHANGED vars
          => UNCHANGED broker_port /\ links' \subseteq links
    BY DEF PollData, PollRaises, UpdateReceiveSocket, vars, clientVars
  <2> QED
    BY <2>1, <2>2, <2>3, <2>4, <2>5, <2>6 DEF Next, BrokerNext, PollTimeout
<1> QED
  BY <1>1, <1>2, <1>3, <1>4

LEMMA ReceivedTyped ==
    ASSUME TypeOK, NEW s \in Sub, NEW i \in DOMAIN received[s]
    PROVE  /\ received[s][i].via \in Topic
           /\ received[s][i].event.pub \in Pub
           /\ received[s][i].event.n \in Nat
<1> DEFINE Arrival == [event : Event, via : Topic]
<1>1. received[s] \in Seq(Arrival)
  BY DEF TypeOK
<1>2. received[s][i] \in Arrival
  <2> HIDE DEF Arrival
  <2> QED
    BY <1>1
<1> QED
  BY <1>2 DEF Event

LEMMA EventStep ==
    /\ TypeOK /\ ReadyInv /\ LinkInv /\ QueueInv /\ PassedInv /\ ReceivedInv
    /\ [Next]_vars /\ TypeOK'
    => QueueInv' /\ PassedInv' /\ ReceivedInv'
<1> SUFFICES ASSUME TypeOK, ReadyInv, LinkInv, QueueInv, PassedInv, ReceivedInv,
                    [Next]_vars, TypeOK'
             PROVE  QueueInv' /\ PassedInv' /\ ReceivedInv'
  OBVIOUS
<1>0. TypeOK'
  OBVIOUS
<1> USE DEF Client
<1>1. ASSUME NEW p \in Pub, Publish(p) PROVE QueueInv' /\ PassedInv' /\ ReceivedInv'
  <2>1. PICK t \in PubTopics[p] :
          inbox' = [u \in Topic |->
            IF <<u, p>> \in links /\ t \in Extensions[u] /\ Len(inbox[u]) < HighWaterMark
            THEN Append(inbox[u], [topic |-> t, pub |-> p, n |-> sent[p] + 1])
            ELSE inbox[u]]
    BY <1>1 DEF Publish
  <2> DEFINE e == [topic |-> t, pub |-> p, n |-> sent[p] + 1]
  <2>2. /\ sent \in [Pub -> Nat] /\ sent' = [sent EXCEPT ![p] = sent[p] + 1]
        /\ UNCHANGED received
    <3>1. sent \in [Pub -> Nat]
      BY CentralAssumption DEF TypeOK
    <3> QED
      BY <1>1, <3>1 DEF Publish
  <2>8. ASSUME NEW q \in Pub
        PROVE  sent[q] \in Nat /\ sent'[q] \in Nat /\ sent[q] <= sent'[q]
    BY <2>2
  <2>3. ASSUME NEW u \in Topic
        PROVE  /\ DOMAIN inbox[u] \subseteq DOMAIN inbox'[u]
               /\ \A j \in DOMAIN inbox[u] : inbox'[u][j] = inbox[u][j]
               /\ \A j \in DOMAIN inbox'[u] \ DOMAIN inbox[u] :
                    inbox'[u][j] = e /\ \A i \in DOMAIN inbox'[u] \ {j} : i \in DOMAIN inbox[u] /\ i < j
    <3>1. inbox'[u] \in {inbox[u], Append(inbox[u], e)}
      BY <2>1
    <3> HIDE DEF e
    <3>2. inbox[u] \in Seq(Event)
      BY DEF TypeOK
    <3>3. CASE inbox'[u] = Append(inbox[u], e)
      BY <3>2, <3>3
    <3> QED
      BY <3>1, <3>2, <3>3
  <2>4. ASSUME NEW u \in Topic, NEW j \in DOMAIN inbox[u]
        PROVE  inbox[u][j].pub \in Pub /\ inbox[u][j].n \in Nat
    <3>1. inbox[u][j] \in Event
      BY DEF TypeOK
    <3> QED
      BY <3>1 DEF Event
  <2>5. QueueInv'
    <3> SUFFICES ASSUME NEW u \in Topic, NEW j \in DOMAIN inbox'[u]
                 PROVE  /\ inbox'[u][j].n <= sent'[inbox'[u][j].pub]
                        /\ \A i \in DOMAIN inbox'[u] :
                             i < j /\ inbox'[u][i].pub = inbox'[u][j].pub =>
                               inbox'[u][i].n < inbox'[u][j].n
      BY DEF QueueInv
    <3>1. CASE j \in DOMAIN inbox[u]
      <4>1. inbox'[u][j] = inbox[u][j] /\ inbox[u][j].pub \in Pub /\ inbox[u][j].n \in Nat
        BY <2>3, <2>4, <3>1
      <4>2. \A i \in DOMAIN inbox'[u] : i < j => i \in DOMAIN inbox[u]
        <5>1. \A i \in DOMAIN inbox'[u] \ DOMAIN inbox[u] : j < i
          BY <2>3, <3>1
        <5>2. inbox[u] \in Seq(Event) /\ inbox'[u] \in Seq(Event)
          BY <1>0 DEF TypeOK
        <5> QED
          BY <3>1, <5>1, <5>2
      <4> QED
        <5>1. inbox[u][j].n <= sent[inbox[u][j].pub]
          BY <3>1 DEF QueueInv
        <5>2. inbox'[u][j].n <= sent'[inbox'[u][j].pub]
          BY <2>8, <4>1, <5>1
        <5> QED
          BY <2>3, <3>1, <4>1, <4>2, <5>2 DEF QueueInv
    <3>2. CASE j \notin DOMAIN inbox[u]
      <4>1. inbox'[u][j] = e
        BY <2>3, <3>2
      <4>2. ASSUME NEW i \in DOMAIN inbox'[u], i < j, inbox'[u][i].pub = p
            PROVE  inbox'[u][i].n < sent[p] + 1
        <5>1. i \in DOMAIN inbox[u] /\ inbox'[u][i] = inbox[u][i]
          <6>1. inbox'[u] \in Seq(Event)
            BY <1>0 DEF TypeOK
          <6>2. i # j
            BY <4>2, <6>1
          <6> QED
            BY <2>3, <3>2, <6>2
        <5> QED
          BY <2>2, <2>4, <4>2, <5>1 DEF QueueInv
      <4> QED
        <5>1. e.pub = p /\ e.n = sent[p] + 1 /\ sent'[p] = sent[p] + 1 /\ sent[p] \in Nat
          BY <2>2
        <5> HIDE DEF e
        <5> QED
          BY <4>1, <4>2, <5>1
    <3> QED
      BY <3>1, <3>2
  <2>6. PassedInv'
    <3> SUFFICES ASSUME NEW s \in Sub, NEW i \in DOMAIN received[s]
                 PROVE  PassedInv!(s)!(i)'
      BY <2>2 DEF PassedInv
    <3> DEFINE d == received[s][i].event
               u == received[s][i].via
    <3>1. u \in Topic
      BY ReceivedTyped
    <3>2. d.pub \in Pub /\ d.n \in Nat
      BY ReceivedTyped
    <3>3. /\ d.topic \in SubTopics[s]
          /\ d.n <= sent[d.pub]
          /\ \A j \in DOMAIN inbox[u] : inbox[u][j].pub = d.pub => d.n < inbox[u][j].n
      BY DEF PassedInv
    <3> HIDE DEF d, u
    <3>4. d.n <= sent'[d.pub]
      BY <2>8, <3>2, <3>3
    <3>5. ASSUME NEW j \in DOMAIN inbox'[u], inbox'[u][j].pub = d.pub
          PROVE  d.n < inbox'[u][j].n
      <4>1. CASE j \in DOMAIN inbox[u]
        BY <2>3, <3>1, <3>3, <3>5, <4>1
      <4>2. CASE j \notin DOMAIN inbox[u]
        <5>1. inbox'[u][j] = e
          BY <2>3, <3>1, <4>2
        <5> QED
          BY <2>2, <3>2, <3>3, <3>5, <5>1
      <4> QED
        BY <4>1, <4>2
    <3> QED
      BY <2>2, <3>3, <3>4, <3>5 DEF d, u
  <2>7. ReceivedInv'
    BY <2>2 DEF ReceivedInv
  <2> QED
    BY <2>5, <2>6, <2>7
<1>2. ASSUME NEW p \in Pub, DisconnectPub(p) PROVE QueueInv' /\ PassedInv' /\ ReceivedInv'
  <2>1. PICK closed : inbox' = [t \in Topic |-> IF t \in closed THEN <<>> ELSE inbox[t]]
    BY <1>2 DEF DisconnectPub
  <2>2. \A t \in Topic : inbox'[t] = inbox[t] \/ inbox'[t] = <<>>
    BY <2>1
  <2>3. UNCHANGED <<sent, received>>
    BY <1>2 DEF DisconnectPub, clientVars
  <2>4. QueueInv'
    BY <2>2, <2>3 DEF QueueInv
  <2>5. PassedInv'
    <3>1. \A s \in Sub : \A i \in DOMAIN received[s] : received[s][i].via \in Topic
      BY ReceivedTyped
    <3> QED
      BY <2>2, <2>3, <3>1 DEF PassedInv
  <2>6. ReceivedInv'
    BY <2>3 DEF ReceivedInv
  <2> QED
    BY <2>4, <2>5, <2>6
<1>3. ASSUME NEW t \in Topic, Forward(t) PROVE QueueInv' /\ PassedInv' /\ ReceivedInv'
  <2>1. CASE t \notin sending
    BY <1>3, <2>1 DEF Forward, QueueInv, PassedInv, ReceivedInv
  <2>2. CASE t \in sending
    <3> DEFINE e == Head(inbox[t])
    <3>1. /\ t \in Topic /\ inbox[t] \in Seq(Event) /\ inbox[t] # <<>>
          /\ e = inbox[t][1] /\ e \in Event /\ 1 \in DOMAIN inbox[t]
      BY <1>3 DEF TypeOK, ReadyInv, Forward
    <3>2. inbox' = [inbox EXCEPT ![t] = Tail(inbox[t])] /\ UNCHANGED sent
      BY <1>3, <2>2 DEF Forward, Dequeued
    <3>3. ASSUME NEW u \in Topic, NEW j \in DOMAIN inbox'[u]
          PROVE  IF u = t THEN j + 1 \in DOMAIN inbox[u] /\ inbox'[u][j] = inbox[u][j + 1] /\ j + 1 > 1
                          ELSE j \in DOMAIN inbox[u] /\ inbox'[u][j] = inbox[u][j]
      <4>1. CASE u = t
        BY <3>1, <3>2, <4>1 DEF TypeOK
      <4>2. CASE u # t
        BY <3>2, <4>2 DEF TypeOK
      <4> QED
        BY <4>1, <4>2
    <3>4. QueueInv'
      <4> SUFFICES ASSUME NEW u \in Topic, NEW j \in DOMAIN inbox'[u]
                   PROVE  QueueInv!(u)!(j)'
        BY DEF QueueInv
      <4>1. CASE u = t
        <5>1. inbox'[t] \in Seq(Event)
          BY <1>0 DEF TypeOK
        <5> QED
          BY <3>2, <3>3, <4>1, <5>1 DEF QueueInv
      <4>2. CASE u # t
        BY <3>2, <3>3, <4>2 DEF QueueInv
      <4> QED
        BY <4>1, <4>2
    \* The event that leaves the queue is ahead of those left in it.
    <3>5. \A j \in DOMAIN inbox'[t] : inbox'[t][j].pub = e.pub => e.n < inbox'[t][j].n
      BY <3>1, <3>3 DEF QueueInv
    <3> DEFINE new == [event |-> e, via |-> t]
    <3>6. ASSUME NEW s \in Sub
          PROVE  \/ received'[s] = received[s]
                 \/ received'[s] = Append(received[s], new) /\ e.topic \in SubTopics[s]
      <4>1. CASE UNCHANGED received
        BY <4>1
      <4>2. CASE received' = [r \in Sub |-> IF <<e.topic, r>> \in links /\ pc[r] = "listening"
                                            THEN Append(received[r], new) ELSE received[r]]
        <5>1. e.topic \in Topic
          BY <3>1 DEF Event
        <5> QED
          BY <4>2, <5>1 DEF LinkInv
      <4> QED
        BY <1>3, <4>1, <4>2 DEF Forward
    <3> HIDE DEF e, new
    <3>7. ASSUME NEW s \in Sub
          PROVE  /\ received[s] \in Seq([event : Event, via : Topic])
                 /\ received'[s] \in Seq([event : Event, via : Topic])
                 /\ \A i \in DOMAIN received'[s] :
                      \/ i \in DOMAIN received[s] /\ received'[s][i] = received[s][i]
                      \/ /\ received'[s][i] = new /\ e.topic \in SubTopics[s]
                         /\ \A k \in DOMAIN received'[s] \ {i} : k \in DOMAIN received[s] /\ k < i
      <4>1. /\ received[s] \in Seq([event : Event, via : Topic])
            /\ received'[s] \in Seq([event : Event, via : Topic])
        BY <1>0 DEF TypeOK
      <4>2. CASE received'[s] = received[s]
        BY <4>1, <4>2
      <4>3. CASE received'[s] = Append(received[s], new) /\ e.topic \in SubTopics[s]
        BY <4>1, <4>3
      <4> QED
        BY <3>6, <4>1, <4>2, <4>3
    <3>8. new.event = e /\ new.via = t
      BY DEF new
    <3>9. e.n <= sent[e.pub]
      BY <3>1 DEF QueueInv
    <3>10. PassedInv'
      <4> SUFFICES ASSUME NEW s \in Sub, NEW i \in DOMAIN received'[s]
                   PROVE  PassedInv!(s)!(i)'
        BY DEF PassedInv
      <4>1. CASE i \in DOMAIN received[s] /\ received'[s][i] = received[s][i]
        <5> DEFINE d == received[s][i].event
                   u == received[s][i].via
        <5>1. u \in Topic
          BY <4>1, ReceivedTyped
        <5>2. /\ d.topic \in SubTopics[s] /\ d.n <= sent[d.pub]
              /\ \A j \in DOMAIN inbox[u] : inbox[u][j].pub = d.pub => d.n < inbox[u][j].n
          BY <4>1 DEF PassedInv
        <5> HIDE DEF d, u
        <5>3. \A j \in DOMAIN inbox'[u] : inbox'[u][j].pub = d.pub => d.n < inbox'[u][j].n
          BY <3>3, <5>1, <5>2
        <5> QED
          BY <3>2, <4>1, <5>2, <5>3 DEF d, u
      <4>2. CASE received'[s][i] = new /\ e.topic \in SubTopics[s]
        BY <3>2, <3>5, <3>8, <3>9, <4>2
      <4> QED
        BY <3>7, <4>1, <4>2
    <3>11. ReceivedInv'
      <4> SUFFICES ASSUME NEW s \in Sub,
                          NEW i \in DOMAIN received'[s], NEW j \in DOMAIN received'[s],
                          i < j, received'[s][i].via = received'[s][j].via,
                          received'[s][i].event.pub = received'[s][j].event.pub
                   PROVE  received'[s][i].event.n < received'[s][j].event.n
        BY DEF ReceivedInv
      <4>0. i # j /\ ~(j < i) /\ i \in Nat /\ j \in Nat
        BY <3>7
      <4>1. i \in DOMAIN received[s] /\ received'[s][i] = received[s][i]
        BY <3>7, <4>0
      <4>2. CASE j \in DOMAIN received[s] /\ received'[s][j] = received[s][j]
        BY <4>1, <4>2 DEF ReceivedInv
      <4>3. CASE received'[s][j] = new
        BY <3>1, <3>8, <4>1, <4>3 DEF PassedInv
      <4> QED
        BY <3>7, <4>2, <4>3
    <3> QED
      BY <3>4, <3>10, <3>11
  <2> QED
    BY <2>1, <2>2
<1>4. CASE UNCHANGED <<inbox, sent, received>>
  BY <1>4 DEF QueueInv, PassedInv, ReceivedInv
<1>5. \/ \E p \in Pub : Publish(p) \/ DisconnectPub(p)
      \/ \E t \in Topic : Forward(t)
      \/ UNCHANGED <<inbox, sent, received>>
  <2>1. ASSUME NEW c \in Client, Register(c) \/ Confirmed(c) \/ Leave(c) \/ Left(c) \/ Kill(c)
        PROVE  UNCHANGED <<inbox, sent, received>>
    BY <2>1 DEF Register, Confirmed, Leave, Left, Kill, End
  <2>2. ASSUME NEW p \in Pub, RegisterPub(p) PROVE UNCHANGED <<inbox, sent, received>>
    BY <2>2 DEF RegisterPub, clientVars
  <2>3. ASSUME NEW s \in Sub, RegisterSub(s) \/ FinishSub(s) \/ DisconnectSub(s)
        PROVE  UNCHANGED <<inbox, sent, received>>
    BY <2>3 DEF RegisterSub, FinishSub, DisconnectSub, clientVars
  <2>4. ASSUME NEW t \in Topic, NEW c \in Client, Establish(t, c)
        PROVE  UNCHANGED <<inbox, sent, received>>
    BY <2>4 DEF Establish, clientVars
  <2>5. ASSUME NEW t \in Topic, NEW port \in PortRange, OpenSendSocket(t, port)
        PROVE  UNCHANGED <<inbox, sent, received>>
    BY <2>5 DEF OpenSendSocket, clientVars
  <2>6. PollData \/ PollRaises \/ UpdateReceiveSocket \/ UNCHANGED vars
          => UNCHANGED <<inbox, sent, received>>
    BY DEF PollData, PollRaises, UpdateReceiveSocket, vars, clientVars
  <2> QED
    BY <2>1, <2>2, <2>3, <2>4, <2>5, <2>6 DEF Next, BrokerNext, PollTimeout
<1> QED
  BY <1>1, <1>2, <1>3, <1>4, <1>5

-----------------------------------------------------------------------------
(* The theorems.                                                           *)

LEMMA Inductive ==
    /\ Init => IInv
    /\ IInv /\ [Next]_vars => IInv'
<1>1. ASSUME Init PROVE TypeOK
  <2>1. /\ inbox \in [Topic -> Seq(Event)]
        /\ received \in [Sub -> Seq([event : Event, via : Topic])]
    BY <1>1 DEF Init
  <2>2. /\ publishers \in [Topic -> [Pub -> Nat]]
        /\ subscribers \in [Topic -> [Host -> Nat]]
        /\ sent \in [Pub -> 0..MaxEvents]
    BY <1>1, CentralAssumption DEF Init
  <2> QED
    BY <1>1, <2>1, <2>2 DEF Init, TypeOK, Port
<1>2. ASSUME Init PROVE ReadyInv /\ CallInv /\ OrderInv
  BY <1>2 DEF Init, ReadyInv, CallInv, OrderInv, LinkInv, QueueInv, PassedInv,
     ReceivedInv, Client
<1>3. ASSUME Init PROVE PubInv
  BY <1>3 DEF Init, PubInv, Listed, NoEntry, Registered, Client
<1>4. ASSUME Init PROVE SubInv
  <2>1. ASSUME NEW t \in Topic, NEW host \in Host PROVE Members(t, host) = {}
    BY <1>4, CentralAssumption DEF Init, Members, Registered, Client
  <2>2. CountInv
    <3>1. \A t \in Topic, host \in Host : subscribers[t][host] = 0
      BY <1>4 DEF Init
    <3>2. Cardinality({}) = 0
      BY FS_EmptySet
    <3> QED
      BY <2>1, <3>1, <3>2 DEF CountInv
  <2>3. HandlingInv /\ PortInv
    BY <1>4 DEF Init, HandlingInv, PortInv, Told, Client
  <2> QED
    BY <2>2, <2>3 DEF SubInv
<1>5. ASSUME IInv, [Next]_vars PROVE IInv'
  <2>1. TypeOK' /\ ReadyInv' /\ CallInv' /\ PubInv'
    BY <1>5, TypeStep, CallStep, PubStep DEF IInv
  <2>2. SubInv'
    BY <1>5, HandlingStep, CountStep, PortStep DEF IInv, SubInv
  <2>3. OrderInv'
    BY <1>5, <2>1, LinkStep, EventStep DEF IInv, SubInv, OrderInv
  <2> QED
    BY <2>1, <2>2, <2>3 DEF IInv
<1> QED
  BY <1>1, <1>2, <1>3, <1>4, <1>5 DEF IInv

LEMMA Invariant == Spec => []IInv
  BY Inductive, PTL DEF Spec

\* For any clients, topics and ports: every variable stays within the values
\* the code gives it; no count of entries falls below zero, and the broker
\* never forwards from an empty queue.
THEOREM TypeCorrect == Spec => []TypeOK
<1>1. IInv => TypeOK
  BY DEF IInv
<1> QED
  BY <1>1, Invariant, PTL

\* For any publishers, their topics, and orders of joining, leaving and dying:
\* the broker is connected to every confirmed publisher, but for one that it
\* has just answered, and to end its round it opens a socket for exactly the
\* topics that are listed.
THEOREM PublishersConnected == Spec => []SourcesConnected
<1>1. ASSUME TypeOK, CallInv, PubInv PROVE SourcesConnected
  <2> SUFFICES ASSUME NEW p \in Pub, pc[p] = "publishing", NEW t \in PubTopics[p]
               PROVE  publishers[t][p] = 1 /\ (p \in receive_socket[t] \/ p = answered)
    BY <1>1 DEF SourcesConnected, PubInv
  <2>1. request[p] = "none"
    BY <1>1 DEF TypeOK, CallInv, Client
  <2>2. t \in Topic
    BY CentralAssumption
  <2> QED
    BY <1>1, <2>1, <2>2 DEF PubInv, Registered
<1> QED
  BY <1>1, Invariant, PTL DEF IInv

\* For any subscribers, whatever addresses they share: one that listens has on
\* each of its topics a port of the broker's that is open, and that topic's only.
THEOREM SubscribersServed == Spec => []PortsAgree
<1>1. ASSUME TypeOK, SubInv PROVE PortsAgree
  <2> SUFFICES ASSUME NEW s \in Sub, pc[s] = "listening", NEW t \in SubTopics[s]
               PROVE  /\ t \in sending
                      /\ broker_port[s][t] = send_port[t]
                      /\ send_port[t] \notin TakenPorts
                      /\ \A u \in sending \ {t} : send_port[u] # send_port[t]
    BY DEF PortsAgree
  <2>1. t \in sending /\ broker_port[s][t] = send_port[t] /\ send_port[t] \notin TakenPorts
    BY <1>1 DEF SubInv, PortInv, Told
  <2>2. \A u \in sending \ {t} : send_port[u] # send_port[t]
    BY <1>1, <2>1 DEF TypeOK, SubInv, PortInv
  <2> QED
    BY <2>1, <2>2
<1> QED
  BY <1>1, Invariant, PTL DEF IInv

\* For any number of events, clients and topics, and whatever topics' names
\* begin with others: a subscriber receives what it asked for, in order.
THEOREM EventsInOrder == Spec => []InOrder
<1>1. ASSUME PassedInv, ReceivedInv PROVE InOrder
  BY <1>1 DEF PassedInv, ReceivedInv, InOrder
<1> QED
  BY <1>1, Invariant, PTL DEF IInv, OrderInv
=============================================================================
