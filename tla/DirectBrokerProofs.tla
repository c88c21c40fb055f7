------------------------- MODULE DirectBrokerProofs -------------------------
(***************************************************************************)
(* The inductive invariant of DirectBroker, for any number of clients,     *)
(* topics and ports but different ids, the proof that every step preserves *)
(* it, and what it implies: the port and directory bookkeeping is exact,   *)
(* confirmed publishers and settled subscribers are connected, nobody is   *)
(* sent to a publisher that left, a 'disconnect' finds what it is to       *)
(* remove, and the protocol implements Matchmaking.                        *)
(***************************************************************************)
EXTENDS UniqueIds, FiniteSetTheorems, TLAPS

-----------------------------------------------------------------------------
(* The inductive invariant.                                                *)

\* The broker's single thread: who it is handling decides whom it notifies.
BrokerPhase ==
    /\ awaiting = None <=> wire = "idle"
    /\ receiver = None <=> wire \in {"idle", "sending"}
    /\ handling = None => awaiting = None /\ todo = {}
    /\ handling \in Sub => todo = {} /\ awaiting \in {None, handling}
    /\ awaiting # None => notify_sub_sockets[awaiting] # None
    /\ handling \in Sub /\ awaiting = None => notify_sub_sockets[handling] = None
    /\ \A s \in todo : notify_sub_sockets[s] # None

\* A notification reaches a socket connected to the right port, and is
\* acknowledged by the right subscriber.
Delivery ==
    /\ receiver # None =>
         /\ pc[receiver] \notin {"start", "registering"}
         /\ notify_port[receiver] = notify_sub_sockets[awaiting]
    /\ AckedByAddressee

\* The REQ/REP exchange of each client with the registration sockets.
Exchange ==
    \A c \in Client :
        /\ request[c] = "register" => pc[c] \in {"registering", "killed"}
        /\ request[c] = "disconnect" => pc[c] \in {"leaving", "killed"}
        /\ reply[c] # None => request[c] = "none"
        /\ pc[c] \in {"start", "publishing", "listening"} =>
             request[c] = "none" /\ reply[c] = None
        /\ pc[c] = "publishing" => c \in Pub
        /\ pc[c] = "listening" => c \in Sub
        /\ handling = c =>
             /\ request[c] # "register"
             /\ pc[c] # "start"
             /\ c \in Pub => /\ pc[c] \in {"registering", "killed"}
                             /\ request[c] = "none"
                             /\ reply[c] = None

\* A subscriber's own idea of its port is the broker's.
OwnPort ==
    \A s \in Sub :
        /\ pc[s] = "start" \/ request[s] = "register" =>
             notify_sub_sockets[s] = None
        /\ pc[s] = "registering" /\ reply[s] # None =>
             /\ reply[s] = notify_sub_sockets[s]
             /\ awaiting = s /\ handling = s
             /\ wire # "acked"
        /\ pc[s] = "listening" \/ request[s] = "disconnect" =>
             /\ notify_port[s] = notify_sub_sockets[s]
             /\ notify_port[s] # None

\* A publisher is listed under all of its topics or under none.
Listed(p) == \E t \in Topic : publishers[t][p] > 0

Directory ==
    /\ \A t \in Topic, p \in Pub :
         publishers[t][p] = IF t \in PubTopics[p] /\ Listed(p) THEN 1 ELSE 0
    /\ \A p \in Pub :
         /\ pc[p] = "start" \/ request[p] = "register" => ~Listed(p)
         /\ pc[p] = "registering" /\ request[p] = "none" => Listed(p)
         /\ pc[p] = "publishing" \/ request[p] = "disconnect" => Listed(p)
         /\ pc[p] = "leaving" /\ request[p] = "none" => ~Listed(p)
         /\ pc[p] = "gone" => ~Listed(p)
         /\ handling = p => Listed(p)

\* What the message in flight says.
Message ==
    awaiting # None =>
        notification =
            IF handling \in Pub
            THEN PubTopics[handling] \X {handling}
            ELSE {a \in SubTopics[handling] \X Pub : publishers[a[1]][a[2]] > 0}

\* The loop over the notification sockets has yet to reach s.
Pending(p, s) ==
    handling = p /\ (s \in todo \/ (awaiting = s /\ wire # "acked"))

IntroducedSoFar ==
    \A p \in Pub, s \in Sub :
        Listed(p) /\ Settled(s) /\ ~Pending(p, s) => Matches(p, s) \subseteq conn[s]

IInv ==
    /\ TypeOK
    /\ BrokerPhase
    /\ PortsExact
    /\ Delivery
    /\ Exchange
    /\ OwnPort
    /\ Directory
    /\ Message
    /\ IntroducedSoFar

(* With different ids each subscriber has an entry of its own.             *)

LEMMA OwnEntry ==
    ASSUME TypeOK, NEW s \in Sub
    PROVE  /\ \A v : Overwrite(s, v) = [notify_sub_sockets EXCEPT ![s] = v]
           /\ HasSocket(s) <=> notify_sub_sockets[s] # None
<1>1. \A o \in Sub : IdOf[o] = IdOf[s] => o = s
  BY IdAssumption
<1>2. \A v : Overwrite(s, v) = [notify_sub_sockets EXCEPT ![s] = v]
  BY <1>1 DEF Overwrite, TypeOK
<1>3. HasSocket(s) <=> notify_sub_sockets[s] # None
  BY <1>1 DEF HasSocket
<1> QED BY <1>2, <1>3

-----------------------------------------------------------------------------
(* Facts about the bags of addresses.                                      *)

\* Registering an address keeps a directory a directory ...
LEMMA AddUnderType ==
    ASSUME NEW S, NEW reg \in [Topic -> [S -> Nat]], NEW ts, NEW x \in S
    PROVE  AddUnder(reg, ts, x) \in [Topic -> [S -> Nat]]
BY DEF AddUnder, Add

\* ... and so does removing one wherever that does not raise.
LEMMA DropUnderType ==
    ASSUME NEW S, NEW reg \in [Topic -> [S -> Nat]], NEW ts, NEW x \in S,
           \A t \in ts \cap Topic : CanDrop(reg[t], x)
    PROVE  DropUnder(reg, ts, x) \in [Topic -> [S -> Nat]]
<1> SUFFICES ASSUME NEW t \in Topic, t \in ts
             PROVE  Drop(reg[t], x) \in [S -> Nat]
  BY DEF DropUnder
<1>1. CASE SingleEntry(reg[t])
  BY <1>1 DEF Drop
<1>2. CASE ~SingleEntry(reg[t])
  <2>1. reg[t] \in [S -> Nat] /\ reg[t][x] > 0
    BY <1>2 DEF CanDrop
  <2> QED BY <1>2, <2>1 DEF Drop
<1> QED BY <1>1, <1>2

\* Dropping an entry that is there takes out that one and nothing else.
LEMMA DropOne ==
    ASSUME NEW S, NEW bag \in [S -> Nat], NEW x \in S, bag[x] > 0
    PROVE  /\ CanDrop(bag, x)
           /\ Drop(bag, x) = [bag EXCEPT ![x] = @ - 1]
<1>1. CASE SingleEntry(bag)
  <2> PICK y \in S : bag = [z \in S |-> IF z = y THEN 1 ELSE 0]
    BY <1>1 DEF SingleEntry
  <2>1. y = x
    OBVIOUS
  <2> QED BY <1>1, <2>1 DEF Drop, CanDrop
<1>2. CASE ~SingleEntry(bag)
  BY <1>2 DEF Drop, CanDrop
<1> QED BY <1>1, <1>2

\* A step that connects nobody and brings no new publisher, subscriber or
\* completed notification to IntroducedSoFar preserves it.
LEMMA IntroducedFrame ==
    ASSUME IInv,
           \A q \in Pub, r \in Sub :
              Listed(q)' /\ Settled(r)' /\ ~Pending(q, r)' =>
                 /\ Listed(q) /\ Settled(r) /\ ~Pending(q, r)
                 /\ conn'[r] = conn[r]
    PROVE  IntroducedSoFar'
BY DEF IInv, IntroducedSoFar, Matches

-----------------------------------------------------------------------------
(* Every action preserves the invariant: first those of the clients.       *)

\* Sending a registration: nothing of the client is on the broker yet.
LEMMA RegisterStep ==
    ASSUME IInv, NEW c \in Client, Register(c) PROVE IInv'
<1>1. TypeOK'
  BY DEF IInv, TypeOK, Register, brokerVars
<1>2. BrokerPhase'
  BY DEF IInv, BrokerPhase, Register, brokerVars
<1>3. PortsExact'
  BY DEF IInv, PortsExact, Register, brokerVars
<1>4. Delivery'
  BY DEF IInv, Delivery, AckedByAddressee, Register, brokerVars
<1>5. Exchange'
  BY DEF IInv, Exchange, Register, brokerVars, TypeOK
<1>6. OwnPort'
  BY DEF IInv, OwnPort, Register, brokerVars, Exchange
<1>7. Directory'
  BY DEF IInv, Directory, Listed, Register, brokerVars, TypeOK
<1>8. Message'
  BY DEF IInv, Message, Register, brokerVars
<1>9. IntroducedSoFar'
  <2> SUFFICES ASSUME NEW q \in Pub, NEW r \in Sub,
                      Listed(q)', Settled(r)', ~Pending(q, r)'
               PROVE  /\ Listed(q) /\ Settled(r) /\ ~Pending(q, r)
                      /\ conn'[r] = conn[r]
    BY IntroducedFrame
  <2> QED BY DEF Register, Listed, Settled, Pending, IInv, brokerVars
<1> QED BY <1>1, <1>2, <1>3, <1>4, <1>5, <1>6, <1>7, <1>8, <1>9 DEF IInv

\* The answer finds the publisher listed, and its loop over.
LEMMA PubConfirmedStep ==
    ASSUME IInv, NEW p \in Pub, PubConfirmed(p) PROVE IInv'
<1>1. TypeOK'
  BY DEF IInv, TypeOK, PubConfirmed, brokerVars
<1>2. BrokerPhase'
  BY DEF IInv, BrokerPhase, PubConfirmed, brokerVars
<1>3. PortsExact'
  BY DEF IInv, PortsExact, PubConfirmed, brokerVars
<1>4. Delivery'
  BY DEF IInv, Delivery, AckedByAddressee, PubConfirmed, brokerVars
<1>5. Exchange'
  BY DEF IInv, Exchange, PubConfirmed, brokerVars, TypeOK
<1>6. OwnPort'
  BY DEF IInv, OwnPort, PubConfirmed, brokerVars
<1>7. Directory'
  BY DEF IInv, Directory, Listed, PubConfirmed, brokerVars, Client, Exchange
<1>8. Message'
  BY DEF IInv, Message, PubConfirmed, brokerVars
<1>9. IntroducedSoFar'
  <2> SUFFICES ASSUME NEW q \in Pub, NEW r \in Sub,
                      Listed(q)', Settled(r)', ~Pending(q, r)'
               PROVE  /\ Listed(q) /\ Settled(r) /\ ~Pending(q, r)
                      /\ conn'[r] = conn[r]
    BY IntroducedFrame
  <2> QED BY DEF PubConfirmed, Listed, Settled, Pending, IInv, brokerVars
<1> QED BY <1>1, <1>2, <1>3, <1>4, <1>5, <1>6, <1>7, <1>8, <1>9 DEF IInv

\* The answer is the port of the socket just bound; the first notification is
\* still to be read, so the subscriber is not settled.
LEMMA SubConfirmedStep ==
    ASSUME IInv, NEW s \in Sub, SubConfirmed(s) PROVE IInv'
<1>1. TypeOK'
  BY DEF IInv, TypeOK, SubConfirmed, brokerVars, OwnPort
<1>2. BrokerPhase'
  BY DEF IInv, BrokerPhase, SubConfirmed, brokerVars
<1>3. PortsExact'
  BY DEF IInv, PortsExact, SubConfirmed, brokerVars, TypeOK, OwnPort
<1>4. Delivery'
  BY DEF IInv, Delivery, AckedByAddressee, SubConfirmed, brokerVars
<1>5. Exchange'
  BY DEF IInv, Exchange, SubConfirmed, brokerVars, TypeOK
<1>6. OwnPort'
  BY DEF IInv, OwnPort, SubConfirmed, brokerVars, TypeOK
<1>7. Directory'
  BY DEF IInv, Directory, Listed, SubConfirmed, brokerVars
<1>8. Message'
  BY DEF IInv, Message, SubConfirmed, brokerVars
<1>9. IntroducedSoFar'
  <2> SUFFICES ASSUME NEW q \in Pub, NEW r \in Sub,
                      Listed(q)', Settled(r)', ~Pending(q, r)'
               PROVE  /\ Listed(q) /\ Settled(r) /\ ~Pending(q, r)
                      /\ conn'[r] = conn[r]
    BY IntroducedFrame
  <2> QED BY DEF SubConfirmed, Listed, Settled, Pending, IInv, OwnPort,
                 brokerVars
<1> QED BY <1>1, <1>2, <1>3, <1>4, <1>5, <1>6, <1>7, <1>8, <1>9 DEF IInv

\* Ports being unique, the notification was meant for whoever reads it.
LEMMA AcknowledgedBySelf ==
    ASSUME IInv, NEW s \in Sub, ReadNotification(s) PROVE awaiting = s
<1>1. awaiting \in Sub /\ notify_port[s] = notify_sub_sockets[awaiting]
  BY ClientAssumption DEF IInv, TypeOK, BrokerPhase, Delivery, ReadNotification
<1>2. notify_port[s] = notify_sub_sockets[s] /\ notify_port[s] # None
  BY DEF IInv, OwnPort, ReadNotification
<1> QED BY <1>1, <1>2 DEF IInv, PortsExact

\* Reading either settles the subscriber, with all publishers listed so far,
\* or introduces the publisher whose loop is running.
LEMMA ReadNotificationStep ==
    ASSUME IInv, NEW s \in Sub, ReadNotification(s) PROVE IInv'
<1>1. TypeOK'
  BY DEF IInv, TypeOK, ReadNotification, brokerVars
<1>2. BrokerPhase'
  BY DEF IInv, BrokerPhase, ReadNotification, brokerVars
<1>3. PortsExact'
  BY DEF IInv, PortsExact, ReadNotification, brokerVars
<1>4. Delivery'
  BY AcknowledgedBySelf
    DEF IInv, Delivery, AckedByAddressee, ReadNotification, brokerVars
<1>5. Exchange'
  BY DEF IInv, Exchange, ReadNotification, brokerVars
<1>6. OwnPort'
  BY AcknowledgedBySelf DEF IInv, OwnPort, ReadNotification, brokerVars
<1>7. Directory'
  BY DEF IInv, Directory, Listed, ReadNotification, brokerVars
<1>8. Message'
  BY DEF IInv, Message, ReadNotification, brokerVars
<1>9. IntroducedSoFar'
  <2> SUFFICES ASSUME NEW q \in Pub, NEW r \in Sub,
                      Listed(q)', Settled(r)', ~Pending(q, r)'
               PROVE  (Matches(q, r) \subseteq conn[r])'
    BY DEF IntroducedSoFar
  <2>1. Listed(q)
    BY DEF Listed, ReadNotification, brokerVars
  <2>2. conn[r] \subseteq conn'[r]
    BY DEF IInv, TypeOK, ReadNotification
  <2>3. awaiting = s
    BY AcknowledgedBySelf
  <2>4. CASE Settled(r) /\ ~Pending(q, r)
    BY <2>1, <2>2, <2>4 DEF IInv, IntroducedSoFar, Matches
  <2>5. CASE r = s /\ (handling = s \/ handling = q)
    <3>1. Matches(q, s) \subseteq notification
      <4>1. CASE handling = q
        BY <2>3, <4>1, ClientAssumption DEF IInv, Message, Matches, Client
      <4>2. CASE handling = s
        <5>1. notification = {a \in SubTopics[s] \X Pub :
                                 publishers[a[1]][a[2]] > 0}
          BY <2>3, <4>2, ClientAssumption DEF IInv, Message, Client
        <5>2. \A t \in PubTopics[q] : publishers[t][q] = 1
          BY <2>1, TopicAssumption DEF IInv, Directory
        <5> QED BY <5>1, <5>2 DEF Matches
      <4> QED BY <2>5, <4>1, <4>2
    <3>2. \A a \in Matches(q, s) : a[1] \in SubTopics[s]
      BY DEF Matches
    <3> QED BY <2>5, <3>1, <3>2 DEF IInv, TypeOK, ReadNotification, Interesting, Matches
  <2> QED BY <2>3, <2>4, <2>5, ClientAssumption
          DEF IInv, BrokerPhase, Settled, Pending, ReadNotification, brokerVars
<1> QED BY <1>1, <1>2, <1>3, <1>4, <1>5, <1>6, <1>7, <1>8, <1>9 DEF IInv

\* Leaving unsettles a subscriber; a publisher stays listed until answered.
LEMMA LeaveStep ==
    ASSUME IInv, NEW c \in Client, Leave(c) PROVE IInv'
<1>1. TypeOK'
  BY DEF IInv, TypeOK, Leave, brokerVars
<1>2. BrokerPhase'
  BY DEF IInv, BrokerPhase, Leave, brokerVars
<1>3. PortsExact'
  BY ClientAssumption DEF IInv, PortsExact, Leave, brokerVars, Exchange
<1>4. Delivery'
  BY DEF IInv, Delivery, AckedByAddressee, Leave, brokerVars
<1>5. Exchange'
  BY DEF IInv, Exchange, Leave, brokerVars, TypeOK
<1>6. OwnPort'
  BY ClientAssumption DEF IInv, OwnPort, Leave, brokerVars, Exchange
<1>7. Directory'
  BY ClientAssumption
    DEF IInv, Directory, Listed, Leave, brokerVars, TypeOK, Exchange
<1>8. Message'
  BY DEF IInv, Message, Leave, brokerVars
<1>9. IntroducedSoFar'
  <2> SUFFICES ASSUME NEW q \in Pub, NEW r \in Sub,
                      Listed(q)', Settled(r)', ~Pending(q, r)'
               PROVE  /\ Listed(q) /\ Settled(r) /\ ~Pending(q, r)
                      /\ conn'[r] = conn[r]
    BY IntroducedFrame
  <2> QED BY DEF Leave, Listed, Settled, Pending, IInv, brokerVars
<1> QED BY <1>1, <1>2, <1>3, <1>4, <1>5, <1>6, <1>7, <1>8, <1>9 DEF IInv

\* Whoever gets the answer to its disconnect is off the directory.
LEMMA LeftStep ==
    ASSUME IInv, NEW c \in Client, Left(c) PROVE IInv'
<1>1. TypeOK'
  BY DEF IInv, TypeOK, Left, brokerVars
<1>2. BrokerPhase'
  BY DEF IInv, BrokerPhase, Left, brokerVars
<1>3. PortsExact'
  BY DEF IInv, PortsExact, Left, brokerVars
<1>4. Delivery'
  BY DEF IInv, Delivery, AckedByAddressee, Left, brokerVars
<1>5. Exchange'
  BY DEF IInv, Exchange, Left, brokerVars
<1>6. OwnPort'
  BY DEF IInv, OwnPort, Left, brokerVars
<1>7. Directory'
  BY DEF IInv, Directory, Listed, Left, brokerVars, Exchange
<1>8. Message'
  BY DEF IInv, Message, Left, brokerVars
<1>9. IntroducedSoFar'
  <2> SUFFICES ASSUME NEW q \in Pub, NEW r \in Sub,
                      Listed(q)', Settled(r)', ~Pending(q, r)'
               PROVE  /\ Listed(q) /\ Settled(r) /\ ~Pending(q, r)
                      /\ conn'[r] = conn[r]
    BY IntroducedFrame
  <2> QED BY DEF Left, Listed, Settled, Pending, IInv, brokerVars
<1> QED BY <1>1, <1>2, <1>3, <1>4, <1>5, <1>6, <1>7, <1>8, <1>9 DEF IInv

\* A dead client keeps its entries, and asks nothing of them.
LEMMA KillStep ==
    ASSUME IInv, NEW c \in Client, Kill(c) PROVE IInv'
<1>1. TypeOK'
  BY DEF IInv, TypeOK, Kill, brokerVars, wireVars
<1>2. BrokerPhase'
  BY DEF IInv, BrokerPhase, Kill, brokerVars, wireVars
<1>3. PortsExact'
  BY DEF IInv, PortsExact, Kill, brokerVars, wireVars
<1>4. Delivery'
  BY DEF IInv, Delivery, AckedByAddressee, Kill, brokerVars, wireVars
<1>5. Exchange'
  BY DEF IInv, Exchange, Kill, brokerVars, wireVars
<1>6. OwnPort'
  BY DEF IInv, OwnPort, Kill, brokerVars, wireVars
<1>7. Directory'
  BY DEF IInv, Directory, Listed, Kill, brokerVars, wireVars
<1>8. Message'
  BY DEF IInv, Message, Kill, brokerVars, wireVars
<1>9. IntroducedSoFar'
  <2> SUFFICES ASSUME NEW q \in Pub, NEW r \in Sub,
                      Listed(q)', Settled(r)', ~Pending(q, r)'
               PROVE  /\ Listed(q) /\ Settled(r) /\ ~Pending(q, r)
                      /\ conn'[r] = conn[r]
    BY IntroducedFrame
  <2> QED BY DEF Kill, Listed, Settled, Pending, IInv, TypeOK, brokerVars,
                 wireVars
<1> QED BY <1>1, <1>2, <1>3, <1>4, <1>5, <1>6, <1>7, <1>8, <1>9 DEF IInv

-----------------------------------------------------------------------------
(* The actions of the broker.                                              *)

\* The new publisher is listed, and pending for every registered subscriber.
LEMMA RegisterPubStep ==
    ASSUME IInv, NEW p \in Pub, RegisterPub(p) PROVE IInv'
<1>1. TypeOK'
  <2>1. publishers' \in [Topic -> [Pub -> Nat]]
    BY AddUnderType DEF IInv, TypeOK, RegisterPub
  <2> QED BY <2>1, ClientAssumption
            DEF IInv, TypeOK, RegisterPub, clientVars, Received, Client
<1>2. BrokerPhase'
  BY ClientAssumption
    DEF IInv, BrokerPhase, RegisterPub, clientVars, Received, Client
<1>3. PortsExact'
  BY DEF IInv, PortsExact, RegisterPub, clientVars, Received
<1>4. Delivery'
  BY DEF IInv, Delivery, AckedByAddressee, RegisterPub, clientVars, Received
<1>5. Exchange'
  BY DEF IInv, Exchange, RegisterPub, clientVars, Received, TypeOK
<1>6. OwnPort'
  BY ClientAssumption
    DEF IInv, OwnPort, RegisterPub, clientVars, Received, Client
<1>7. Directory'
  <2>1. \A t \in Topic, q \in Pub :
           publishers'[t][q] = IF q = p THEN IF t \in PubTopics[p] THEN 1 ELSE 0
                                        ELSE publishers[t][q]
    BY DEF IInv, TypeOK, Directory, RegisterPub, AddUnder, Add
  <2>2. Listed(p)'
    <3>1. PubTopics[p] # {} /\ PubTopics[p] \subseteq Topic
      BY TopicAssumption
    <3> PICK t \in PubTopics[p] : t \in Topic
      BY <3>1
    <3> QED BY <2>1 DEF Listed
  <2>3. \A q \in Pub \ {p} : Listed(q)' <=> Listed(q)
    BY <2>1 DEF Listed
  <2>4. ~Listed(p)
    BY DEF IInv, Directory, RegisterPub
  <2>5. \A t \in Topic, q \in Pub :
           publishers'[t][q] = IF t \in PubTopics[q] /\ Listed(q)' THEN 1 ELSE 0
    BY <2>1, <2>2, <2>3 DEF IInv, Directory
  <2>6. pc[p] \in {"registering", "killed"} /\ pc' = pc
    BY DEF IInv, Exchange, RegisterPub, clientVars, Client
  <2> QED BY <2>2, <2>3, <2>5, <2>6
          DEF IInv, TypeOK, Directory, RegisterPub, Received, Client
<1>8. Message'
  BY DEF IInv, Message, RegisterPub, clientVars, Received, BrokerPhase
<1>9. IntroducedSoFar'
  <2> SUFFICES ASSUME NEW q \in Pub, NEW r \in Sub,
                      Listed(q)', Settled(r)', ~Pending(q, r)'
               PROVE  (Matches(q, r) \subseteq conn[r])'
    BY DEF IntroducedSoFar
  <2>1. Settled(r) /\ conn'[r] = conn[r]
    BY ClientAssumption DEF RegisterPub, Settled, clientVars, Client
  <2>2. q # p
    BY <2>1 DEF IInv, OwnPort, Settled, Pending, RegisterPub, clientVars
  <2>3. Listed(q)
    BY <2>2 DEF Listed, IInv, TypeOK, RegisterPub, AddUnder, Add
  <2>4. ~Pending(q, r)
    BY ClientAssumption DEF Pending, RegisterPub, Client
  <2> QED BY <2>1, <2>3, <2>4 DEF IInv, IntroducedSoFar, Matches
<1> QED BY <1>1, <1>2, <1>3, <1>4, <1>5, <1>6, <1>7, <1>8, <1>9 DEF IInv

\* The subscriber moves from todo to awaiting: it is still pending.
LEMMA NotifyNextStep ==
    ASSUME IInv, NEW s \in Sub, NotifyNext(s) PROVE IInv'
<1>1. TypeOK'
  BY TopicAssumption DEF IInv, TypeOK, NotifyNext, clientVars
<1>2. BrokerPhase'
  BY ClientAssumption DEF IInv, BrokerPhase, NotifyNext, clientVars, Client
<1>3. PortsExact'
  BY DEF IInv, PortsExact, NotifyNext, clientVars
<1>4. Delivery'
  BY DEF IInv, Delivery, AckedByAddressee, NotifyNext, clientVars, BrokerPhase
<1>5. Exchange'
  BY DEF IInv, Exchange, NotifyNext, clientVars
<1>6. OwnPort'
  BY ClientAssumption DEF IInv, OwnPort, NotifyNext, clientVars
<1>7. Directory'
  BY DEF IInv, Directory, Listed, NotifyNext, clientVars
<1>8. Message'
  BY DEF IInv, Message, NotifyNext, clientVars
<1>9. IntroducedSoFar'
  <2> SUFFICES ASSUME NEW q \in Pub, NEW r \in Sub,
                      Listed(q)', Settled(r)', ~Pending(q, r)'
               PROVE  /\ Listed(q) /\ Settled(r) /\ ~Pending(q, r)
                      /\ conn'[r] = conn[r]
    BY IntroducedFrame
  <2> QED BY ClientAssumption
            DEF NotifyNext, Listed, Settled, Pending, IInv, Client, clientVars
<1> QED BY <1>1, <1>2, <1>3, <1>4, <1>5, <1>6, <1>7, <1>8, <1>9 DEF IInv

\* The message goes to a socket on the port of the one awaited.
LEMMA DeliverStep ==
    ASSUME IInv, NEW s \in Sub, Deliver(s) PROVE IInv'
<1>1. TypeOK'
  BY DEF IInv, TypeOK, Deliver, brokerVars, clientVars
<1>2. BrokerPhase'
  BY ClientAssumption
    DEF IInv, BrokerPhase, Deliver, brokerVars, clientVars, Client
<1>3. PortsExact'
  BY DEF IInv, PortsExact, Deliver, brokerVars, clientVars
<1>4. Delivery'
  BY DEF IInv, Delivery, AckedByAddressee, Deliver, brokerVars, clientVars
<1>5. Exchange'
  BY DEF IInv, Exchange, Deliver, brokerVars, clientVars
<1>6. OwnPort'
  BY DEF IInv, OwnPort, Deliver, brokerVars, clientVars
<1>7. Directory'
  BY DEF IInv, Directory, Listed, Deliver, brokerVars, clientVars
<1>8. Message'
  BY DEF IInv, Message, Deliver, brokerVars, clientVars
<1>9. IntroducedSoFar'
  <2> SUFFICES ASSUME NEW q \in Pub, NEW r \in Sub,
                      Listed(q)', Settled(r)', ~Pending(q, r)'
               PROVE  /\ Listed(q) /\ Settled(r) /\ ~Pending(q, r)
                      /\ conn'[r] = conn[r]
    BY IntroducedFrame
  <2> QED BY DEF Deliver, Listed, Settled, Pending, IInv, brokerVars,
                 clientVars
<1> QED BY <1>1, <1>2, <1>3, <1>4, <1>5, <1>6, <1>7, <1>8, <1>9 DEF IInv

\* Acknowledged means read, so nothing depends on it still being pending.
LEMMA NotifyAckedStep ==
    ASSUME IInv, NEW s \in Sub, NotifyAcked(s) PROVE IInv'
<1>1. TypeOK'
  BY DEF IInv, TypeOK, NotifyAcked, clientVars
<1>2. BrokerPhase'
  BY ClientAssumption DEF IInv, BrokerPhase, NotifyAcked, clientVars, Client
<1>3. PortsExact'
  BY DEF IInv, PortsExact, NotifyAcked, clientVars
<1>4. Delivery'
  BY DEF IInv, Delivery, AckedByAddressee, NotifyAcked, clientVars
<1>5. Exchange'
  BY ClientAssumption DEF IInv, Exchange, NotifyAcked, clientVars
<1>6. OwnPort'
  BY DEF IInv, OwnPort, NotifyAcked, clientVars
<1>7. Directory'
  BY ClientAssumption
    DEF IInv, Directory, Listed, NotifyAcked, clientVars, Client
<1>8. Message'
  BY DEF IInv, Message, NotifyAcked, clientVars
<1>9. IntroducedSoFar'
  <2> SUFFICES ASSUME NEW q \in Pub, NEW r \in Sub,
                      Listed(q)', Settled(r)', ~Pending(q, r)'
               PROVE  /\ Listed(q) /\ Settled(r) /\ ~Pending(q, r)
                      /\ conn'[r] = conn[r]
    BY IntroducedFrame
  <2> QED BY DEF NotifyAcked, Listed, Settled, Pending, IInv, BrokerPhase,
                 clientVars
<1> QED BY <1>1, <1>2, <1>3, <1>4, <1>5, <1>6, <1>7, <1>8, <1>9 DEF IInv

\* Nobody is pending any more when the publisher gets its answer.
LEMMA FinishPubStep ==
    ASSUME IInv, NEW p \in Pub, FinishPub(p) PROVE IInv'
<1>1. TypeOK'
  BY DEF IInv, TypeOK, FinishPub, clientVars, Answer
<1>2. BrokerPhase'
  BY ClientAssumption
    DEF IInv, BrokerPhase, FinishPub, AllNotified, clientVars, Answer, Client
<1>3. PortsExact'
  BY DEF IInv, PortsExact, FinishPub, clientVars, Answer
<1>4. Delivery'
  BY DEF IInv, Delivery, AckedByAddressee, FinishPub, clientVars, Answer
<1>5. Exchange'
  BY ClientAssumption DEF IInv, Exchange, FinishPub, clientVars, Answer
<1>6. OwnPort'
  BY ClientAssumption DEF IInv, OwnPort, FinishPub, clientVars, Answer
<1>7. Directory'
  BY ClientAssumption
    DEF IInv, Directory, Listed, FinishPub, clientVars, Answer, Client
<1>8. Message'
  BY DEF IInv, Message, FinishPub, AllNotified, clientVars, Answer
<1>9. IntroducedSoFar'
  <2> SUFFICES ASSUME NEW q \in Pub, NEW r \in Sub,
                      Listed(q)', Settled(r)', ~Pending(q, r)'
               PROVE  /\ Listed(q) /\ Settled(r) /\ ~Pending(q, r)
                      /\ conn'[r] = conn[r]
    BY IntroducedFrame
  <2> QED BY DEF FinishPub, AllNotified, Listed, Settled, Pending, IInv, Exchange, Client,
                 clientVars
<1> QED BY <1>1, <1>2, <1>3, <1>4, <1>5, <1>6, <1>7, <1>8, <1>9 DEF IInv

\* Only the leaver's own entries go.
LEMMA DisconnectPubRemoves ==
    ASSUME IInv, NEW p \in Pub, DisconnectPub(p)
    PROVE  \A t \in Topic, q \in Pub :
              publishers'[t][q] = IF q = p THEN 0 ELSE publishers[t][q]
<1>1. \A t \in Topic : publishers[t][p] = IF t \in PubTopics[p] THEN 1 ELSE 0
  BY DEF IInv, Directory, DisconnectPub
<1>2. \A t \in PubTopics[p] :
         /\ t \in Topic
         /\ CanDrop(publishers[t], p)
         /\ Drop(publishers[t], p) = [publishers[t] EXCEPT ![p] = 0]
  <2> SUFFICES ASSUME NEW t \in PubTopics[p]
               PROVE  /\ t \in Topic
                      /\ CanDrop(publishers[t], p)
                      /\ Drop(publishers[t], p) = [publishers[t] EXCEPT ![p] = 0]
    OBVIOUS
  <2>1. t \in Topic /\ publishers[t] \in [Pub -> Nat] /\ publishers[t][p] = 1
    BY <1>1, TopicAssumption DEF IInv, TypeOK
  <2> QED BY <2>1, DropOne
<1>3. publishers' = DropUnder(publishers, PubTopics[p], p)
  BY <1>2 DEF DisconnectPub
<1>4. \A t \in Topic :
         publishers'[t] = IF t \in PubTopics[p] THEN [publishers[t] EXCEPT ![p] = 0]
                                               ELSE publishers[t]
  BY <1>2, <1>3 DEF DropUnder
<1> QED BY <1>1, <1>4 DEF IInv, TypeOK

\* The publisher loses all its entries, and nobody else loses any.
LEMMA DisconnectPubStep ==
    ASSUME IInv, NEW p \in Pub, DisconnectPub(p) PROVE IInv'
<1>1. TypeOK'
  <2>1. publishers' \in [Topic -> [Pub -> Nat]]
    <3> PICK done \in SUBSET {t \in PubTopics[p] : CanDrop(publishers[t], p)} :
             publishers' = DropUnder(publishers, done, p)
      BY DEF DisconnectPub
    <3> QED BY DropUnderType DEF IInv, TypeOK
  <2> QED BY <2>1, ClientAssumption
          DEF IInv, TypeOK, DisconnectPub, clientVars, Received, Answer, Client
<1>2. BrokerPhase'
  BY DEF IInv, BrokerPhase, DisconnectPub, clientVars, Received, Answer
<1>3. PortsExact'
  BY DEF IInv, PortsExact, DisconnectPub, clientVars, Received, Answer
<1>4. Delivery'
  BY DEF IInv, Delivery, AckedByAddressee, DisconnectPub, clientVars, Received,
         Answer
<1>5. Exchange'
  BY DEF IInv, Exchange, DisconnectPub, clientVars, Received, Answer, TypeOK
<1>6. OwnPort'
  BY ClientAssumption
    DEF IInv, OwnPort, DisconnectPub, clientVars, Received, Answer
<1>7. Directory'
  <2>1. \A t \in Topic, q \in Pub :
           publishers'[t][q] = IF q = p THEN 0 ELSE publishers[t][q]
    BY DisconnectPubRemoves
  <2>2. ~Listed(p)'
    BY <2>1 DEF Listed
  <2>3. \A q \in Pub \ {p} : Listed(q)' <=> Listed(q)
    BY <2>1 DEF Listed
  <2>4. \A t \in Topic, q \in Pub :
           publishers'[t][q] = IF t \in PubTopics[q] /\ Listed(q)' THEN 1 ELSE 0
    BY <2>1, <2>2, <2>3 DEF IInv, Directory
  <2>5. pc[p] \in {"leaving", "killed"} /\ pc' = pc
    BY DEF IInv, Exchange, DisconnectPub, clientVars, Client
  <2> QED BY <2>2, <2>3, <2>4, <2>5, ClientAssumption
          DEF IInv, TypeOK, Directory, DisconnectPub, Received, Client
<1>8. Message'
  BY DEF IInv, Message, DisconnectPub, clientVars, Received, Answer,
         BrokerPhase
<1>9. IntroducedSoFar'
  <2> SUFFICES ASSUME NEW q \in Pub, NEW r \in Sub,
                      Listed(q)', Settled(r)', ~Pending(q, r)'
               PROVE  /\ Listed(q) /\ Settled(r) /\ ~Pending(q, r)
                      /\ conn'[r] = conn[r]
    BY IntroducedFrame
  <2> QED BY DisconnectPubRemoves
            DEF DisconnectPub, Listed, Settled, Pending, IInv, clientVars
<1> QED BY <1>1, <1>2, <1>3, <1>4, <1>5, <1>6, <1>7, <1>8, <1>9 DEF IInv

\* The directory of publishers is not touched.
LEMMA RegisterSubStep ==
    ASSUME IInv, NEW s \in Sub, RegisterSub(s) PROVE IInv'
<1>1. TypeOK'
  <2>1. subscribers' \in [Topic -> [Host -> Nat]]
    BY AddUnderType, TopicAssumption DEF IInv, TypeOK, RegisterSub
  <2> QED BY <2>1, ClientAssumption
            DEF IInv, TypeOK, RegisterSub, clientVars, Received, Client
<1>2. BrokerPhase'
  BY DEF IInv, BrokerPhase, OwnPort, RegisterSub, clientVars, Received, SubReady
<1>3. PortsExact'
  BY DEF IInv, PortsExact, RegisterSub, clientVars, Received
<1>4. Delivery'
  BY DEF IInv, Delivery, AckedByAddressee, RegisterSub, clientVars, Received
<1>5. Exchange'
  BY DEF IInv, Exchange, RegisterSub, clientVars, Received, TypeOK
<1>6. OwnPort'
  BY ClientAssumption
    DEF IInv, OwnPort, RegisterSub, clientVars, Received, Client, SubReady
<1>7. Directory'
  BY ClientAssumption
    DEF IInv, Directory, Listed, RegisterSub, clientVars, Received
<1>8. Message'
  BY DEF IInv, Message, RegisterSub, clientVars, Received, SubReady,
         BrokerPhase
<1>9. IntroducedSoFar'
  <2> SUFFICES ASSUME NEW q \in Pub, NEW r \in Sub,
                      Listed(q)', Settled(r)', ~Pending(q, r)'
               PROVE  /\ Listed(q) /\ Settled(r) /\ ~Pending(q, r)
                      /\ conn'[r] = conn[r]
    BY IntroducedFrame
  <2> QED BY ClientAssumption
            DEF RegisterSub, Listed, Settled, Pending, IInv, Client,
                clientVars, SubReady
<1> QED BY <1>1, <1>2, <1>3, <1>4, <1>5, <1>6, <1>7, <1>8, <1>9 DEF IInv

\* What AllocatePort does while every clear port is unbound: only another
\* program can be in the way.
AllocateUnbound(s) ==
    \E port \in ClearPorts :
      /\ used_ports' = Allocated(port)
      /\ notify_sub_sockets' = Overwrite(s, port)
      /\ \/ /\ port \notin TakenPorts
            /\ Answer(s, port)
            /\ notification' = {a \in SubTopics[s] \X Pub :
                                   publishers[a[1]][a[2]] > 0}
            /\ awaiting' = s
            /\ wire' = "sending"
            /\ UNCHANGED <<handling, sub_reg_owed>>
         \/ /\ port \in TakenPorts
            /\ handling' = None
            /\ sub_reg_owed' = TRUE
            /\ UNCHANGED <<reply, notification, awaiting, wire>>

\* Every port a socket of the broker is bound to is in used_ports.
LEMMA ClearIsUnbound ==
    ASSUME IInv, NEW s \in Sub, AllocatePort(s)
    PROVE  /\ AllocateUnbound(s)
           /\ handling = s /\ awaiting = None
           /\ UNCHANGED <<publishers, subscribers, todo, receiver, request, clientVars>>
<1>1. ASSUME NEW port \in ClearPorts PROVE ~BoundByOther(s, port)
  <2> SUFFICES ASSUME NEW o \in Sub, notify_sub_sockets[o] = port PROVE FALSE
    BY DEF BoundByOther
  <2>1. port \notin used_ports /\ port \in PortRange
    BY DEF ClearPorts
  <2> QED BY <2>1, PortAssumption DEF IInv, TypeOK, PortsExact
<1> QED BY <1>1 DEF AllocatePort, AllocateUnbound

\* A port nobody uses is bound, or the handler gives up without an answer.
LEMMA AllocatePortStep ==
    ASSUME IInv, NEW s \in Sub, AllocatePort(s) PROVE IInv'
<1>a. /\ AllocateUnbound(s)
      /\ handling = s /\ awaiting = None
      /\ UNCHANGED <<publishers, subscribers, todo, receiver, request, clientVars>>
  BY ClearIsUnbound
<1>0. /\ notify_sub_sockets[s] = None
      /\ \A v : Overwrite(s, v) = [notify_sub_sockets EXCEPT ![s] = v]
  BY OwnEntry, ClearIsUnbound DEF IInv, BrokerPhase
<1>1. TypeOK'
  <2>1. PICK port \in PortRange \ used_ports :
               /\ notify_sub_sockets' = [notify_sub_sockets EXCEPT ![s] = port]
               /\ used_ports' = used_ports \cup {port}
               /\ \/ /\ Answer(s, port)
                     /\ notification' = {a \in SubTopics[s] \X Pub :
                                            publishers[a[1]][a[2]] > 0}
                     /\ awaiting' = s
                     /\ wire' = "sending"
                     /\ UNCHANGED <<handling, sub_reg_owed>>
                  \/ /\ handling' = None
                     /\ sub_reg_owed' = TRUE
                     /\ UNCHANGED <<reply, notification, awaiting, wire>>
    BY <1>0, <1>a DEF AllocateUnbound, Allocated, ClearPorts
  <2>2. reply' \in [Client -> PortRange \cup {"success", "error", None}]
    BY <2>1 DEF IInv, TypeOK, Answer, Client
  <2>3. notification' \subseteq Topic \X Pub
    BY <2>1, TopicAssumption DEF IInv, TypeOK
  <2> QED BY <1>0, <1>a, <2>1, <2>2, <2>3
            DEF IInv, TypeOK, AllocateUnbound, Allocated, ClearPorts, clientVars
<1>2. BrokerPhase'
  BY <1>0, <1>a, ClientAssumption, PortAssumption
    DEF IInv, BrokerPhase, AllocateUnbound, Allocated, ClearPorts, clientVars, Answer,
        TypeOK, Client
<1>3. PortsExact'
  BY <1>0, <1>a, PortAssumption
    DEF IInv, PortsExact, AllocateUnbound, Allocated, ClearPorts, clientVars, Answer, TypeOK
<1>4. Delivery'
  BY <1>0, <1>a DEF IInv, Delivery, AckedByAddressee, AllocateUnbound, clientVars, Answer,
         BrokerPhase
<1>5. Exchange'
  BY <1>0, <1>a, ClientAssumption
    DEF IInv, Exchange, AllocateUnbound, clientVars, Answer, TypeOK, OwnPort
<1>6. OwnPort'
  BY <1>0, <1>a DEF IInv, OwnPort, AllocateUnbound, Allocated, ClearPorts, clientVars, Answer, TypeOK,
         Client, Exchange
<1>7. Directory'
  BY <1>0, <1>a, ClientAssumption
    DEF IInv, Directory, Listed, AllocateUnbound, clientVars, Answer, Client
<1>8. Message'
  BY <1>0, <1>a, ClientAssumption
    DEF IInv, Message, AllocateUnbound, clientVars, Answer, BrokerPhase
<1>9. IntroducedSoFar'
  <2> SUFFICES ASSUME NEW q \in Pub, NEW r \in Sub,
                      Listed(q)', Settled(r)', ~Pending(q, r)'
               PROVE  /\ Listed(q) /\ Settled(r) /\ ~Pending(q, r)
                      /\ conn'[r] = conn[r]
    BY IntroducedFrame
  <2> QED BY <1>0, <1>a, ClientAssumption
            DEF AllocateUnbound, Listed, Settled, Pending, IInv, OwnPort,
                clientVars
<1> QED BY <1>1, <1>2, <1>3, <1>4, <1>5, <1>6, <1>7, <1>8, <1>9 DEF IInv

\* The port given back is the one the socket was bound to.
LEMMA DisconnectSubStep ==
    ASSUME IInv, NEW s \in Sub, DisconnectSub(s) PROVE IInv'
<1>0. /\ HasSocket(s) <=> notify_sub_sockets[s] # None
      /\ Overwrite(s, None) = [notify_sub_sockets EXCEPT ![s] = None]
  BY OwnEntry DEF IInv
<1>1. TypeOK'
  <2>1. subscribers' \in [Topic -> [Host -> Nat]]
    <3> PICK done \in SUBSET {t \in SubTopics[s] :
                                 CanDrop(subscribers[t], HostOf[s])} :
             subscribers' = DropUnder(subscribers, done, HostOf[s])
      BY <1>0 DEF DisconnectSub
    <3> QED BY DropUnderType, TopicAssumption DEF IInv, TypeOK
  <2>2. notify_sub_sockets' \in [Sub -> PortRange \cup {None}]
    BY <1>0 DEF IInv, TypeOK, DisconnectSub
  <2>3. reply' \in [Client -> PortRange \cup {"success", "error", None}]
    BY <1>0 DEF IInv, TypeOK, DisconnectSub, Answer
  <2> QED BY <1>0, <2>1, <2>2, <2>3
            DEF IInv, TypeOK, DisconnectSub, clientVars, Received, Client
<1>2. BrokerPhase'
  BY <1>0 DEF IInv, BrokerPhase, DisconnectSub, clientVars, Received, Answer,
         SubReady
<1>3. PortsExact'
  <2>1. /\ notify_port[s] = notify_sub_sockets[s]
        /\ notify_sub_sockets[s] # None
        /\ notify_sub_sockets[s] \notin {pub_reg_port, sub_reg_port}
    BY <1>0 DEF IInv, OwnPort, PortsExact, DisconnectSub
  <2>2. /\ notify_sub_sockets' = [notify_sub_sockets EXCEPT ![s] = None]
        /\ used_ports' = used_ports \ {notify_sub_sockets[s]}
    BY <1>0, <2>1 DEF DisconnectSub, IInv, PortsExact
  <2>3. {notify_sub_sockets'[r] : r \in Sub} \ {None} =
        ({notify_sub_sockets[r] : r \in Sub} \ {None}) \ {notify_sub_sockets[s]}
    BY <2>1, <2>2 DEF IInv, TypeOK, PortsExact
  <2>4. used_ports' = {pub_reg_port, sub_reg_port} \cup
                      ({notify_sub_sockets'[r] : r \in Sub} \ {None})
    BY <2>1, <2>2, <2>3 DEF IInv, PortsExact
  <2>5. \A r \in Sub : notify_sub_sockets'[r] \notin {pub_reg_port, sub_reg_port}
    BY <2>2, PortAssumption DEF IInv, TypeOK, PortsExact
  <2>6. \A r \in Sub : pc[r] = "listening" => r # s
    BY <1>0 DEF IInv, Exchange, DisconnectSub, Client
  <2> QED BY <1>0, <2>2, <2>4, <2>5, <2>6
          DEF IInv, TypeOK, PortsExact, DisconnectSub, clientVars, Received, Client
<1>4. Delivery'
  BY <1>0 DEF IInv, Delivery, AckedByAddressee, DisconnectSub, clientVars, Received,
         Answer, SubReady, BrokerPhase
<1>5. Exchange'
  BY <1>0 DEF IInv, Exchange, DisconnectSub, clientVars, Received, Answer, TypeOK
<1>6. OwnPort'
  BY <1>0 DEF IInv, OwnPort, DisconnectSub, clientVars, Received, Answer, TypeOK,
         Client, Exchange
<1>7. Directory'
  BY <1>0, ClientAssumption
    DEF IInv, Directory, Listed, DisconnectSub, clientVars, Received, Answer
<1>8. Message'
  BY <1>0 DEF IInv, Message, DisconnectSub, clientVars, Received, Answer
<1>9. IntroducedSoFar'
  <2> SUFFICES ASSUME NEW q \in Pub, NEW r \in Sub,
                      Listed(q)', Settled(r)', ~Pending(q, r)'
               PROVE  /\ Listed(q) /\ Settled(r) /\ ~Pending(q, r)
                      /\ conn'[r] = conn[r]
    BY IntroducedFrame
  <2> QED BY <1>0 DEF DisconnectSub, Listed, Settled, Pending, IInv, clientVars
<1> QED BY <1>1, <1>2, <1>3, <1>4, <1>5, <1>6, <1>7, <1>8, <1>9 DEF IInv

-----------------------------------------------------------------------------
(* The invariant holds always.                                             *)

LEMMA InitInv == Init => IInv
<1> SUFFICES ASSUME Init PROVE IInv
  OBVIOUS
<1> USE ClientAssumption, PortAssumption DEF Init, BrokerInit, Client
<1>1. TypeOK
  BY DEF TypeOK
<1>2. BrokerPhase /\ Delivery /\ Exchange /\ OwnPort /\ Message
  BY DEF BrokerPhase, Delivery, AckedByAddressee, Exchange, OwnPort, Message
<1>3. PortsExact
  BY DEF PortsExact
<1>4. Directory
  BY DEF Directory, Listed
<1>5. IntroducedSoFar
  BY DEF IntroducedSoFar, Listed
<1> QED BY <1>1, <1>2, <1>3, <1>4, <1>5 DEF IInv

LEMMA StutterStep ==
    ASSUME IInv, UNCHANGED vars PROVE IInv'
<1> USE DEF vars, brokerVars, wireVars, clientVars
<1>1. TypeOK'
  BY DEF IInv, TypeOK
<1>2. BrokerPhase' /\ PortsExact' /\ Message'
  BY DEF IInv, BrokerPhase, PortsExact, Message
<1>3. Delivery' /\ Exchange' /\ OwnPort'
  BY DEF IInv, Delivery, AckedByAddressee, Exchange, OwnPort
<1>4. Directory'
  BY DEF IInv, Directory, Listed
<1>5. IntroducedSoFar'
  BY DEF IInv, IntroducedSoFar, Listed, Settled, Pending, Matches
<1> QED BY <1>1, <1>2, <1>3, <1>4, <1>5 DEF IInv

LEMMA NextInv == IInv /\ [Next]_vars => IInv'
<1> SUFFICES ASSUME IInv, [Next]_vars PROVE IInv'
  OBVIOUS
<1>1. CASE BrokerNext
  BY <1>1, RegisterPubStep, FinishPubStep, DisconnectPubStep, NotifyNextStep,
     DeliverStep, NotifyAckedStep, RegisterSubStep, AllocatePortStep,
     DisconnectSubStep
     DEF BrokerNext
<1>2. ASSUME NEW c \in Client, ClientNext(c) \/ Leave(c) \/ Kill(c)
      PROVE  IInv'
  BY <1>2, RegisterStep, LeftStep, PubConfirmedStep, SubConfirmedStep,
     ReadNotificationStep, LeaveStep, KillStep
     DEF ClientNext
<1>3. CASE PollTimeout \/ UNCHANGED vars
  BY <1>3, StutterStep DEF PollTimeout
<1> QED BY <1>1, <1>2, <1>3 DEF Next

LEMMA InvAlways == Spec => []IInv
BY InitInv, NextInv, PTL DEF Spec

-----------------------------------------------------------------------------
(* What follows from it.                                                   *)

\* The variables keep to their types; in particular a port a subscriber is
\* given is one get_clear_port may draw.
THEOREM TypeCorrect == Spec => []TypeOK
<1>1. IInv => TypeOK
  BY DEF IInv
<1> QED BY <1>1, InvAlways, PTL

\* The port bookkeeping of register_sub and disconnect_sub is exact.
THEOREM PortBookkeeping == Spec => []PortsExact
<1>1. IInv => PortsExact
  BY DEF IInv
<1> QED BY <1>1, InvAlways, PTL

\* An acknowledgement always comes from the subscriber it is attributed to,
\* even though a leaver may share the port for a while.
THEOREM AddresseeAcknowledges == Spec => []AckedByAddressee
<1>1. IInv => AckedByAddressee
  BY DEF IInv, Delivery
<1> QED BY <1>1, InvAlways, PTL

LEMMA InvIntroduced == IInv => Introduced
<1> SUFFICES ASSUME IInv, NEW p \in Pub, NEW s \in Sub,
                    pc[p] = "publishing", Settled(s)
             PROVE  Matches(p, s) \subseteq conn[s]
  BY DEF Introduced
<1>1. Listed(p)
  BY DEF IInv, Directory
<1>2. handling # p
  BY DEF IInv, Exchange, Client
<1> QED BY <1>1, <1>2 DEF IInv, IntroducedSoFar, Pending

\* Confirmed publishers and settled subscribers are connected on every topic
\* they share.
THEOREM EverybodyIntroduced == Spec => []Introduced
BY InvIntroduced, InvAlways, PTL

\* Nobody is sent to a publisher that has left.
THEOREM NobodyStale == Spec => NoStaleIntroduction
<1>1. IInv /\ [Next]_vars =>
        [\A s \in Sub, p \in Pub :
           pc[p] = "gone" => conn'[s] \cap (Topic \X {p}) \subseteq conn[s]]_vars
  <2> SUFFICES ASSUME IInv, [Next]_vars, ~ UNCHANGED vars,
                      NEW s \in Sub, NEW p \in Pub, pc[p] = "gone"
               PROVE  conn'[s] \cap (Topic \X {p}) \subseteq conn[s]
    OBVIOUS
  <2>1. ASSUME NEW r \in Sub, ReadNotification(r)
        PROVE  conn'[s] \cap (Topic \X {p}) \subseteq conn[s]
    <3>1. \A t \in Topic : <<t, p>> \notin notification
      <4>1. awaiting = r
        BY <2>1, AcknowledgedBySelf
      <4>2. ~Listed(p) /\ handling # p
        BY DEF IInv, Directory, Exchange, Client
      <4>3. handling \in Pub \/ handling = r
        BY <4>1, ClientAssumption DEF IInv, TypeOK, BrokerPhase, Client
      <4> QED BY <4>1, <4>2, <4>3, ClientAssumption, TopicAssumption
              DEF IInv, Message, Listed, TypeOK, Client
    <3>2. conn'[s] \subseteq conn[s] \cup notification
      BY <2>1 DEF ReadNotification, IInv, TypeOK
    <3> QED BY <3>1, <3>2
  <2>2. CASE BrokerNext \/ PollTimeout
    <3>1. conn' = conn
      BY <2>2 DEF BrokerNext, PollTimeout, vars, clientVars, RegisterPub,
                  FinishPub, DisconnectPub, NotifyNext, Deliver, NotifyAcked,
                  RegisterSub, AllocatePort, DisconnectSub
    <3> QED BY <3>1
  <2>3. ASSUME NEW c \in Client,
               \/ Register(c) \/ Left(c) \/ Leave(c) \/ Kill(c)
               \/ c \in Pub /\ PubConfirmed(c)
               \/ c \in Sub /\ SubConfirmed(c)
        PROVE  conn'[s] \subseteq conn[s]
    BY <2>3 DEF Register, Left, Leave, Kill, PubConfirmed, SubConfirmed
  <2> QED BY <2>1, <2>2, <2>3 DEF Next, ClientNext
<1> QED BY <1>1, InvAlways, PTL DEF Spec, NoStaleIntroduction

-----------------------------------------------------------------------------
(* The lists of subscribers.                                               *)

LEMMA RegisteredFinite ==
    ASSUME NEW t, NEW h
    PROVE  /\ IsFiniteSet(RegisteredAt(t, h))
           /\ Cardinality(RegisteredAt(t, h)) \in Nat
           /\ RegisteredAt(t, h) # {} => Cardinality(RegisteredAt(t, h)) > 0
<1>1. IsFiniteSet(RegisteredAt(t, h))
  BY ClientAssumption, FS_Subset DEF RegisteredAt
<1> QED BY <1>1, FS_CardinalityType, FS_EmptySet

LEMMA CountsRegister ==
    ASSUME IInv, SubscriberCounts, NEW s \in Sub, RegisterSub(s)
    PROVE  SubscriberCounts'
<1> SUFFICES ASSUME NEW t \in Topic, NEW h \in Host
             PROVE  (subscribers[t][h] = Cardinality(RegisteredAt(t, h)))'
  BY DEF SubscriberCounts
<1>1. subscribers'[t][h] = IF t \in SubTopics[s] /\ HostOf[s] = h
                           THEN subscribers[t][h] + 1 ELSE subscribers[t][h]
  BY TopicAssumption DEF RegisterSub, AddUnder, Add, IInv, TypeOK
<1>2. s \notin RegisteredAt(t, h)
  BY ClientAssumption
     DEF RegisteredAt, RegisterSub, SubReady, IInv, OwnPort, Client
<1>3. RegisteredAt(t, h)' = IF t \in SubTopics[s] /\ HostOf[s] = h
                            THEN RegisteredAt(t, h) \cup {s}
                            ELSE RegisteredAt(t, h)
  BY ClientAssumption DEF RegisteredAt, RegisterSub, SubReady, Client
<1>4. subscribers[t][h] = Cardinality(RegisteredAt(t, h))
  BY DEF SubscriberCounts
<1>5. Cardinality(RegisteredAt(t, h) \cup {s}) =
        Cardinality(RegisteredAt(t, h)) + 1
  BY <1>2, RegisteredFinite, FS_AddElement
<1> QED BY <1>1, <1>3, <1>4, <1>5

LEMMA CountsDisconnect ==
    ASSUME IInv, SubscriberCounts, NEW s \in Sub, DisconnectSub(s)
    PROVE  SubscriberCounts'
<1>1. /\ notify_port[s] = notify_sub_sockets[s]
      /\ notify_sub_sockets[s] # None
      /\ notify_sub_sockets[s] \in used_ports
      /\ HasSocket(s)
      /\ Overwrite(s, None) = [notify_sub_sockets EXCEPT ![s] = None]
  BY OwnEntry DEF IInv, OwnPort, PortsExact, DisconnectSub
<1>2. \A t \in SubTopics[s] : t \in Topic /\ s \in RegisteredAt(t, HostOf[s])
  BY <1>1, TopicAssumption DEF RegisteredAt
<1>3. \A t \in SubTopics[s] : subscribers[t][HostOf[s]] > 0
  BY <1>2, RegisteredFinite, TopicAssumption DEF SubscriberCounts
<1>4. \A t \in SubTopics[s] :
         /\ ~NoEntry(subscribers[t])
         /\ CanDrop(subscribers[t], HostOf[s])
         /\ Drop(subscribers[t], HostOf[s]) =
              [subscribers[t] EXCEPT ![HostOf[s]] = @ - 1]
  <2> SUFFICES ASSUME NEW t \in SubTopics[s]
               PROVE  /\ ~NoEntry(subscribers[t])
                      /\ CanDrop(subscribers[t], HostOf[s])
                      /\ Drop(subscribers[t], HostOf[s]) =
                           [subscribers[t] EXCEPT ![HostOf[s]] = @ - 1]
    OBVIOUS
  <2>1. /\ subscribers[t] \in [Host -> Nat]
        /\ HostOf[s] \in Host
        /\ subscribers[t][HostOf[s]] > 0
    BY <1>2, <1>3, TopicAssumption DEF IInv, TypeOK
  <2>2. ~NoEntry(subscribers[t])
    BY <2>1 DEF NoEntry
  <2> QED BY <2>1, <2>2, DropOne
<1>5. subscribers' = DropUnder(subscribers, SubTopics[s], HostOf[s])
  BY <1>1, <1>4 DEF DisconnectSub
<1> SUFFICES ASSUME NEW t \in Topic, NEW h \in Host
             PROVE  (subscribers[t][h] = Cardinality(RegisteredAt(t, h)))'
  BY DEF SubscriberCounts
<1>6. subscribers'[t][h] = IF t \in SubTopics[s] /\ HostOf[s] = h
                           THEN subscribers[t][h] - 1 ELSE subscribers[t][h]
  <2>1. subscribers'[t] = IF t \in SubTopics[s]
                          THEN [subscribers[t] EXCEPT ![HostOf[s]] = @ - 1]
                          ELSE subscribers[t]
    BY <1>4, <1>5 DEF DropUnder
  <2> QED BY <2>1 DEF IInv, TypeOK
<1>7. RegisteredAt(t, h)' = IF t \in SubTopics[s] /\ HostOf[s] = h
                            THEN RegisteredAt(t, h) \ {s}
                            ELSE RegisteredAt(t, h)
  <2>1. /\ notify_sub_sockets' = [notify_sub_sockets EXCEPT ![s] = None]
        /\ handling = None /\ handling' = None
    BY <1>1 DEF DisconnectSub, SubReady
  <2> QED BY <2>1, ClientAssumption DEF RegisteredAt, IInv, TypeOK, Client
<1>8. subscribers[t][h] = Cardinality(RegisteredAt(t, h))
  BY DEF SubscriberCounts
<1>9. t \in SubTopics[s] /\ HostOf[s] = h =>
        Cardinality(RegisteredAt(t, h) \ {s}) =
          Cardinality(RegisteredAt(t, h)) - 1
  BY <1>2, RegisteredFinite, FS_RemoveElement
<1> QED BY <1>6, <1>7, <1>8, <1>9

\* No other step moves a subscriber in or out of the lists.
LEMMA CountsElse ==
    ASSUME IInv, SubscriberCounts,
           UNCHANGED subscribers,
           \A s \in Sub : (handling = s \/ notify_sub_sockets[s] # None)' <=>
                          (handling = s \/ notify_sub_sockets[s] # None)
    PROVE  SubscriberCounts'
<1> \A t, h : RegisteredAt(t, h)' = RegisteredAt(t, h)
  BY DEF RegisteredAt
<1> QED BY DEF SubscriberCounts

LEMMA CountsNext == IInv /\ SubscriberCounts /\ [Next]_vars => SubscriberCounts'
<1> SUFFICES ASSUME IInv, SubscriberCounts, [Next]_vars PROVE SubscriberCounts'
  OBVIOUS
<1>1. ASSUME NEW s \in Sub, AllocatePort(s) PROVE SubscriberCounts'
  <2>1. /\ UNCHANGED subscribers
        /\ handling = s /\ handling' \in {s, None}
        /\ notify_sub_sockets'[s] # None
        /\ \A r \in Sub \ {s} : notify_sub_sockets'[r] = notify_sub_sockets[r]
    <3>1. /\ AllocateUnbound(s) /\ handling = s
          /\ UNCHANGED subscribers
      BY <1>1, ClearIsUnbound
    <3>2. \A v : Overwrite(s, v) = [notify_sub_sockets EXCEPT ![s] = v]
      BY OwnEntry DEF IInv
    <3> QED BY <3>1, <3>2, PortAssumption DEF AllocateUnbound, ClearPorts, IInv, TypeOK
  <2> QED BY <2>1, CountsElse, ClientAssumption DEF Client
<1>2. ASSUME NEW s \in Sub, NotifyAcked(s) PROVE SubscriberCounts'
  <2>1. /\ UNCHANGED <<subscribers, notify_sub_sockets>>
        /\ handling \in Sub => handling = s /\ notify_sub_sockets[s] # None
        /\ handling' = IF handling \in Sub THEN None ELSE handling
    BY <1>2, ClientAssumption DEF NotifyAcked, IInv, BrokerPhase, Client
  <2> QED BY <2>1, CountsElse, ClientAssumption DEF Client
<1>3. ASSUME NEW p \in Pub, RegisterPub(p) \/ FinishPub(p) \/ DisconnectPub(p)
      PROVE  SubscriberCounts'
  <2>1. /\ UNCHANGED <<subscribers, notify_sub_sockets>>
        /\ handling \notin Sub /\ handling' \notin Sub
    BY <1>3, ClientAssumption
       DEF RegisterPub, FinishPub, DisconnectPub, Client
  <2> QED BY <2>1, CountsElse
<1>4. ASSUME \/ UNCHANGED brokerVars
             \/ \E s \in Sub : NotifyNext(s)
      PROVE  SubscriberCounts'
  BY <1>4, CountsElse DEF brokerVars, NotifyNext
<1>5. CASE BrokerNext
  BY <1>1, <1>2, <1>3, <1>4, <1>5, CountsRegister, CountsDisconnect
     DEF BrokerNext, Deliver
<1>6. CASE PollTimeout \/ UNCHANGED vars
  BY <1>4, <1>6 DEF PollTimeout, vars
<1>7. ASSUME NEW c \in Client, ClientNext(c) \/ Leave(c) \/ Kill(c)
      PROVE  SubscriberCounts'
  BY <1>4, <1>7 DEF ClientNext, Register, Left, PubConfirmed, SubConfirmed,
                    ReadNotification, Leave, Kill
<1> QED BY <1>5, <1>6, <1>7 DEF Next

\* The broker's lists of subscribers count exactly those registered.
THEOREM CountsExact == Spec => []SubscriberCounts
<1>1. Init => SubscriberCounts
  <2> SUFFICES ASSUME Init, NEW t \in Topic, NEW h \in Host
               PROVE  subscribers[t][h] = Cardinality(RegisteredAt(t, h))
    BY DEF SubscriberCounts
  <2>1. RegisteredAt(t, h) = {}
    BY ClientAssumption DEF Init, BrokerInit, RegisteredAt, Client
  <2> QED BY <2>1, FS_EmptySet DEF Init, BrokerInit
<1> QED BY <1>1, CountsNext, InvAlways, PTL DEF Spec

\* A 'disconnect' never raises in either handler, so every leaver is
\* answered once the broker takes up its request.
THEOREM DisconnectsSucceed == Spec => []DisconnectFindsEntries
<1>1. IInv /\ SubscriberCounts => DisconnectFindsEntries
  <2> SUFFICES ASSUME IInv, SubscriberCounts PROVE DisconnectFindsEntries
    OBVIOUS
  <2>1. ASSUME NEW p \in Pub, request[p] = "disconnect", NEW t \in PubTopics[p]
        PROVE  publishers[t][p] > 0
    <3> t \in Topic
      BY TopicAssumption
    <3> QED BY <2>1 DEF IInv, Directory
  <2>2. ASSUME NEW s \in Sub, request[s] = "disconnect"
        PROVE  notify_port[s] \in used_ports /\ notify_sub_sockets[s] # None
    BY <2>2 DEF IInv, OwnPort, PortsExact
  <2>3. ASSUME NEW s \in Sub, request[s] = "disconnect", NEW t \in SubTopics[s]
        PROVE  subscribers[t][HostOf[s]] > 0
    <3>1. s \in RegisteredAt(t, HostOf[s])
      BY <2>2, <2>3 DEF RegisteredAt
    <3> QED BY <3>1, RegisteredFinite, TopicAssumption DEF SubscriberCounts
  <2> QED BY <2>1, <2>2, <2>3 DEF DisconnectFindsEntries
<1> QED BY <1>1, InvAlways, CountsExact, PTL

-----------------------------------------------------------------------------
(* The refinement.                                                         *)

\* Steps the abstract service does not see.
LEMMA MapUnchanged ==
    ASSUME \A p \in Pub : Listed(p)' <=> Listed(p),
           \A p \in Pub : pc'[p] = "publishing" <=> pc[p] = "publishing",
           \A s \in Sub : Settled(s)' <=> Settled(s),
           conn' = conn
    PROVE  UNCHANGED Matchmaking!vars
BY DEF Matchmaking!vars, Listed

LEMMA MapRegister ==
    ASSUME IInv, NEW c \in Client, Register(c) \/ (c \in Sub /\ SubConfirmed(c))
    PROVE  UNCHANGED Matchmaking!vars
<1>1. \A p \in Pub : pc'[p] = "publishing" <=> pc[p] = "publishing"
  <2>1. CASE Register(c)
    BY <2>1 DEF IInv, TypeOK, Register, Client
  <2>2. CASE c \in Sub /\ SubConfirmed(c)
    BY <2>2 DEF IInv, TypeOK, SubConfirmed, Client
  <2> QED BY <2>1, <2>2
<1>2. \A s \in Sub : Settled(s)' <=> Settled(s)
  BY ClientAssumption
     DEF IInv, TypeOK, OwnPort, Settled, Register, SubConfirmed, brokerVars, Client
<1>3. conn' = conn /\ publishers' = publishers
  BY DEF Register, SubConfirmed, brokerVars
<1> QED BY <1>1, <1>2, <1>3, MapUnchanged DEF Listed

LEMMA MapConfirm ==
    ASSUME IInv, NEW p \in Pub, PubConfirmed(p)
    PROVE  Matchmaking!Confirm(p)
<1>1. Listed(p) /\ handling # p
  BY DEF IInv, Directory, Exchange, PubConfirmed, Client
<1>2. \A s \in Sub : Settled(s) => Matches(p, s) \subseteq conn[s]
  BY <1>1 DEF IInv, IntroducedSoFar, Pending
<1>3. pc' = [pc EXCEPT ![p] = "publishing"] /\ UNCHANGED <<brokerVars, wire, conn>>
  BY DEF PubConfirmed
<1>4. \A s \in Sub : Settled(s)' <=> Settled(s)
  BY <1>3, ClientAssumption DEF IInv, TypeOK, Settled, brokerVars, Client
<1>5. {q \in Pub : pc'[q] = "publishing"} =
        {q \in Pub : pc[q] = "publishing"} \cup {p}
  BY <1>3 DEF IInv, TypeOK, Client
<1> QED BY <1>1, <1>2, <1>3, <1>4, <1>5
        DEF Matchmaking!Confirm, Matchmaking!Linked, Matchmaking!Matches,
            Matches, Listed, brokerVars

LEMMA MapRead ==
    ASSUME IInv, NEW s \in Sub, ReadNotification(s)
    PROVE  \E ps \in SUBSET Pub :
              Matchmaking!Link(s, ps) \/ Matchmaking!Settle(s, ps)
<1>1. awaiting = s
  BY AcknowledgedBySelf
<1>2. UNCHANGED <<publishers, handling, pc>> /\ wire' = "acked"
  BY DEF ReadNotification, brokerVars
<1>3. conn' = [conn EXCEPT ![s] =
                 @ \cup {a \in notification : a[1] \in SubTopics[s]}]
  BY DEF ReadNotification, Interesting
<1>4. CASE handling \in Pub
  <2>1. {a \in notification : a[1] \in SubTopics[s]} = Matches(handling, s)
    BY <1>1, <1>4, ClientAssumption DEF IInv, Message, Matches, Client
  <2>2. Matches(handling, s) = UNION {Matches(p, s) : p \in {handling}}
    OBVIOUS
  <2>3. Listed(handling)
    BY <1>4 DEF IInv, Directory
  <2>4. \A r \in Sub : Settled(r)' <=> Settled(r)
    BY <1>2, <1>4, ClientAssumption DEF Settled
  <2>5. Matchmaking!Link(s, {handling})
    BY <1>2, <1>3, <1>4, <2>1, <2>2, <2>3, <2>4
       DEF Matchmaking!Link, Matchmaking!Matches, Matches, Listed
  <2> QED BY <1>4, <2>5
<1>5. CASE handling \notin Pub
  <2> DEFINE known == {p \in Pub : Listed(p)}
  <2>1. handling = s
    BY <1>1, <1>5, ClientAssumption DEF IInv, TypeOK, BrokerPhase, Client
  <2>2. {a \in notification : a[1] \in SubTopics[s]} =
          UNION {Matches(p, s) : p \in known}
    <3>1. notification = {a \in SubTopics[s] \X Pub :
                             publishers[a[1]][a[2]] > 0}
      BY <1>1, <1>5, <2>1, ClientAssumption DEF IInv, Message, Client
    <3>2. \A t \in Topic, p \in Pub :
             publishers[t][p] > 0 <=> t \in PubTopics[p] /\ p \in known
      BY DEF IInv, Directory
    <3>3. SubTopics[s] \subseteq Topic /\ \A p \in Pub : PubTopics[p] \subseteq Topic
      BY TopicAssumption
    <3>4. ASSUME NEW a \in notification, a[1] \in SubTopics[s]
          PROVE  a \in UNION {Matches(p, s) : p \in known}
      <4>1. /\ a = <<a[1], a[2]>> /\ a[2] \in Pub
            /\ publishers[a[1]][a[2]] > 0
        BY <3>1, <3>4
      <4>2. a[2] \in known /\ a[1] \in PubTopics[a[2]]
        BY <3>2, <3>3, <3>4, <4>1
      <4>3. a \in Matches(a[2], s)
        BY <3>4, <4>1, <4>2 DEF Matches
      <4> QED BY <4>2, <4>3
    <3>5. ASSUME NEW p \in known, NEW a \in Matches(p, s)
          PROVE  a \in notification /\ a[1] \in SubTopics[s]
      <4>1. PICK t \in PubTopics[p] \cap SubTopics[s] : a = <<t, p>>
        BY DEF Matches
      <4>2. t \in Topic /\ publishers[t][p] > 0
        BY <3>2, <3>3, <4>1
      <4> QED BY <3>1, <4>1, <4>2
    <3> QED BY <3>4, <3>5
  <2>3. {p \in Pub : pc[p] = "publishing"} \subseteq known
    BY DEF IInv, Directory
  <2>4. {r \in Sub : Settled(r)'} = {r \in Sub : Settled(r)} \cup {s}
    BY <1>2, <2>1 DEF Settled, ReadNotification
  <2>5. Matchmaking!Settle(s, known)
    BY <1>2, <1>3, <2>2, <2>3, <2>4
       DEF Matchmaking!Settle, Matchmaking!Matches, Matches, Listed
  <2> QED BY <2>5
<1> QED BY <1>4, <1>5

\* Leave, Left and Kill.
LEMMA MapDepart ==
    ASSUME IInv, NEW c \in Client, Leave(c) \/ Left(c) \/ Kill(c)
    PROVE  \/ c \in Pub /\ Matchmaking!Stop(c)
           \/ c \in Sub /\ (Matchmaking!Unsettle(c) \/ Matchmaking!Quit(c))
<1>1. /\ UNCHANGED <<publishers, handling, wire>>
      /\ \A d \in Client \ {c} : pc'[d] = pc[d]
      /\ pc'[c] \notin {"publishing", "listening"}
  BY DEF Leave, Left, Kill, brokerVars, wireVars, IInv, TypeOK, Client
<1>2. CASE c \in Pub
  <2>1. conn' = conn
    BY <1>2, ClientAssumption DEF Leave, Left, Kill, IInv, TypeOK
  <2>2. {p \in Pub : pc'[p] = "publishing"} =
          {p \in Pub : pc[p] = "publishing"} \ {c}
    BY <1>1 DEF Client
  <2>3. \A s \in Sub : Settled(s)' <=> Settled(s)
    BY <1>1, <1>2, ClientAssumption DEF Settled, Client
  <2> QED BY <1>1, <1>2, <2>1, <2>2, <2>3 DEF Matchmaking!Stop, Listed
<1>3. CASE c \in Sub
  <2>1. conn' = conn \/ conn' = [conn EXCEPT ![c] = {}]
    BY <1>3 DEF Leave, Left, Kill, IInv, TypeOK
  <2>2. {s \in Sub : Settled(s)'} = {s \in Sub : Settled(s)} \ {c}
    BY <1>1 DEF Settled, Client
  <2>3. \A p \in Pub : pc'[p] = "publishing" <=> pc[p] = "publishing"
    BY <1>1, <1>3, ClientAssumption DEF Client
  <2> QED BY <1>1, <1>3, <2>1, <2>2, <2>3
          DEF Matchmaking!Unsettle, Matchmaking!Quit, Listed
<1> QED BY <1>2, <1>3 DEF Client

LEMMA MapOffer ==
    ASSUME IInv, NEW p \in Pub, RegisterPub(p)
    PROVE  Matchmaking!Offer(p)
<1>1. \A t \in Topic, q \in Pub :
         publishers'[t][q] = IF q = p /\ t \in PubTopics[p]
                             THEN publishers[t][q] + 1 ELSE publishers[t][q]
  BY DEF IInv, TypeOK, RegisterPub, AddUnder, Add
<1>2. PubTopics[p] # {} /\ PubTopics[p] \subseteq Topic
  BY TopicAssumption
<1>3. Listed(p)' /\ ~Listed(p)
  <2>1. ~Listed(p)
    BY DEF IInv, Directory, RegisterPub
  <2> PICK t \in PubTopics[p] : t \in Topic
    BY <1>2
  <2>2. publishers[t][p] \in Nat
    BY DEF IInv, TypeOK
  <2> QED BY <1>1, <2>1, <2>2 DEF Listed
<1>4. \A q \in Pub \ {p} : Listed(q)' <=> Listed(q)
  BY <1>1 DEF Listed
<1>5. handling = None /\ handling' = p /\ UNCHANGED <<pc, conn, wire>>
  BY DEF RegisterPub, clientVars
<1>6. \A s \in Sub : Settled(s)' <=> Settled(s)
  BY <1>5, ClientAssumption DEF Settled, Client
<1> QED BY <1>3, <1>4, <1>5, <1>6 DEF Matchmaking!Offer, Listed

LEMMA MapForget ==
    ASSUME IInv, NEW p \in Pub, DisconnectPub(p)
    PROVE  Matchmaking!Forget(p)
<1>1. \A t \in Topic, q \in Pub :
         publishers'[t][q] = IF q = p THEN 0 ELSE publishers[t][q]
  BY DisconnectPubRemoves
<1>2. ~Listed(p)' /\ \A q \in Pub \ {p} : Listed(q)' <=> Listed(q)
  BY <1>1 DEF Listed
<1>3. UNCHANGED <<handling, wire, pc, conn>> /\ pc[p] # "publishing"
  BY DEF DisconnectPub, clientVars, IInv, Exchange, Client
<1>4. \A s \in Sub : Settled(s)' <=> Settled(s)
  BY <1>3 DEF Settled
<1> QED BY <1>2, <1>3, <1>4 DEF Matchmaking!Forget, Listed

\* Everything else the broker does.
LEMMA MapBroker ==
    ASSUME IInv,
           \/ \E p \in Pub : FinishPub(p)
           \/ \E s \in Sub : \/ NotifyNext(s) \/ Deliver(s) \/ NotifyAcked(s)
                             \/ RegisterSub(s) \/ AllocatePort(s)
                             \/ DisconnectSub(s)
    PROVE  UNCHANGED Matchmaking!vars
<1>1. UNCHANGED <<publishers, pc, conn>>
  BY DEF FinishPub, NotifyNext, Deliver, NotifyAcked, RegisterSub,
         AllocatePort, DisconnectSub, brokerVars, clientVars
<1>2. ASSUME NEW r \in Sub, pc[r] = "listening"
      PROVE  (handling = r => wire = "acked")' <=>
             (handling = r => wire = "acked")
  <2>1. ASSUME NEW p \in Pub, FinishPub(p) PROVE handling # r /\ handling' # r
    BY <2>1, ClientAssumption DEF FinishPub, Client
  <2>2. ASSUME NEW s \in Sub, NotifyNext(s) PROVE handling # r /\ handling' # r
    BY <2>2, ClientAssumption DEF NotifyNext, Client
  <2>3. ASSUME NEW s \in Sub, Deliver(s)
        PROVE  handling' = handling /\ wire # "acked" /\ wire' # "acked"
    BY <2>3 DEF Deliver, brokerVars
  <2>4. ASSUME NEW s \in Sub, NotifyAcked(s)
        PROVE  wire = "acked" /\ handling' # r
    BY <2>4, ClientAssumption DEF NotifyAcked, Client, IInv, TypeOK
  <2>5. ASSUME NEW s \in Sub, RegisterSub(s) PROVE handling # r /\ handling' # r
    <3>1. handling = None /\ handling' = s
      BY <2>5 DEF RegisterSub, SubReady
    <3>2. pc[s] # "listening"
      BY <2>5 DEF RegisterSub, IInv, Exchange, Client
    <3> QED BY <1>2, <3>1, <3>2, ClientAssumption DEF Client
  <2>6. ASSUME NEW s \in Sub, AllocatePort(s) PROVE handling # r /\ handling' # r
    <3>1. handling = s /\ handling' \in {s, None} /\ notify_sub_sockets[s] = None
      BY <2>6 DEF AllocatePort, IInv, BrokerPhase
    <3>2. pc[s] # "listening"
      BY <3>1 DEF IInv, OwnPort
    <3> QED BY <1>2, <3>1, <3>2, ClientAssumption DEF Client
  <2>7. ASSUME NEW s \in Sub, DisconnectSub(s) PROVE handling # r /\ handling' # r
    BY <2>7, ClientAssumption DEF DisconnectSub, SubReady, Client
  <2> QED BY <2>1, <2>2, <2>3, <2>4, <2>5, <2>6, <2>7
<1>3. \A r \in Sub : Settled(r)' <=> Settled(r)
  BY <1>1, <1>2 DEF Settled
<1> QED BY <1>1, <1>3, MapUnchanged DEF Listed

\* Registration and introduction, with clients leaving and dying at any
\* time, implement the matchmaking service.
THEOREM Refinement == Spec => ImplementsMatchmaking
<1>1. Init => Matchmaking!Init
  <2> SUFFICES ASSUME Init PROVE Matchmaking!Init
    OBVIOUS
  <2>1. \A p \in Pub : pc[p] # "publishing"
    BY DEF Init, BrokerInit, Client
  <2>2. \A s \in Sub : ~Settled(s)
    BY DEF Init, BrokerInit, Settled, Client
  <2>3. \A p \in Pub, t \in Topic : ~(publishers[t][p] > 0)
    BY DEF Init, BrokerInit
  <2> QED BY <2>1, <2>2, <2>3 DEF Init, Matchmaking!Init
<1>2. IInv /\ [Next]_vars => [Matchmaking!Next]_(Matchmaking!vars)
  <2> SUFFICES ASSUME IInv, [Next]_vars
               PROVE  Matchmaking!Next \/ UNCHANGED Matchmaking!vars
    OBVIOUS
  <2>1. CASE BrokerNext
    BY <2>1, MapOffer, MapForget, MapBroker DEF BrokerNext, Matchmaking!Next
  <2>2. CASE PollTimeout \/ UNCHANGED vars
    <3>1. UNCHANGED <<publishers, pc, conn, handling, wire>>
      BY <2>2 DEF PollTimeout, vars, brokerVars, wireVars, clientVars
    <3> QED BY <3>1, MapUnchanged DEF Listed, Settled
  <2>3. ASSUME NEW c \in Client, ClientNext(c) \/ Leave(c) \/ Kill(c)
        PROVE  Matchmaking!Next \/ UNCHANGED Matchmaking!vars
    <3>1. CASE Register(c) \/ (c \in Sub /\ SubConfirmed(c))
      <4>1. UNCHANGED Matchmaking!vars
        BY <3>1, MapRegister
      <4> QED BY <4>1
    <3>2. CASE c \in Pub /\ PubConfirmed(c)
      BY <3>2, MapConfirm DEF Matchmaking!Next
    <3>3. CASE c \in Sub /\ ReadNotification(c)
      BY <3>3, MapRead DEF Matchmaking!Next
    <3>4. CASE Leave(c) \/ Left(c) \/ Kill(c)
      BY <3>4, MapDepart DEF Matchmaking!Next
    <3> QED BY <2>3, <3>1, <3>2, <3>3, <3>4 DEF ClientNext
  <2> QED BY <2>1, <2>2, <2>3 DEF Next
<1> QED BY <1>1, <1>2, InvAlways, PTL
        DEF Spec, ImplementsMatchmaking, Matchmaking!Spec

-----------------------------------------------------------------------------
(* What Matchmaking promises, and DirectBroker inherits by implementing it.*)

Known == {p \in Pub : \E t \in Topic : publishers[t][p] > 0}
Confirmed == {p \in Pub : pc[p] = "publishing"}
SettledOnes == {s \in Sub : Settled(s)}

\* Settling requires the addresses of all who are confirmed, who are known.
MInv ==
    /\ Confirmed \subseteq Known
    /\ Known \subseteq Pub
    /\ SettledOnes \subseteq Sub
    /\ conn \in [Sub -> SUBSET (Topic \X Pub)]
    /\ Matchmaking!Matched

\* By the rules of Matchmaking alone, whoever is confirmed is linked with
\* whoever is settled, at all times.
THEOREM MatchedAlways == Matchmaking!Spec => []Matchmaking!Matched
<1> USE TopicAssumption DEF MInv, Matchmaking!Matched, Known, Confirmed, SettledOnes
<1>1. Matchmaking!Init => MInv
  BY DEF Matchmaking!Init
<1>2. MInv /\ [Matchmaking!Next]_(Matchmaking!vars) => MInv'
  <2> SUFFICES ASSUME MInv, [Matchmaking!Next]_(Matchmaking!vars) PROVE MInv'
    OBVIOUS
  <2> USE DEF Matchmaking!Linked, Matchmaking!Matches
  <2>1. ASSUME NEW p \in Pub, \/ Matchmaking!Offer(p) \/ Matchmaking!Confirm(p)
                              \/ Matchmaking!Stop(p) \/ Matchmaking!Forget(p)
        PROVE  MInv'
    BY <2>1 DEF Matchmaking!Offer, Matchmaking!Confirm, Matchmaking!Stop, Matchmaking!Forget
  <2>2. ASSUME NEW s \in Sub, NEW ps \in SUBSET Pub,
               Matchmaking!Link(s, ps) \/ Matchmaking!Settle(s, ps)
        PROVE  MInv'
    <3>1. conn' = [conn EXCEPT ![s] = @ \cup UNION {Matchmaking!Matches(p, s) : p \in ps}]
      BY <2>2 DEF Matchmaking!Link, Matchmaking!Settle
    <3>2. conn' \in [Sub -> SUBSET (Topic \X Pub)]
      BY <3>1
    <3>3. Matchmaking!Matched'
      BY <2>2, <3>1 DEF Matchmaking!Link, Matchmaking!Settle
    <3> QED BY <2>2, <3>2, <3>3 DEF Matchmaking!Link, Matchmaking!Settle
  <2>3. ASSUME NEW s \in Sub, Matchmaking!Unsettle(s) \/ Matchmaking!Quit(s)
        PROVE  MInv'
    BY <2>3 DEF Matchmaking!Unsettle, Matchmaking!Quit
  <2>4. CASE UNCHANGED Matchmaking!vars
    BY <2>4 DEF Matchmaking!vars
  <2> QED BY <2>1, <2>2, <2>3, <2>4 DEF Matchmaking!Next
<1>3. MInv => Matchmaking!Matched
  OBVIOUS
<1> QED BY <1>1, <1>2, <1>3, PTL DEF Matchmaking!Spec
=============================================================================
