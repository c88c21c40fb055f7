-------------------------- MODULE SwitchoverProofs --------------------------
(***************************************************************************)
(* Proofs about Switchover, for any clients, topics, ports and number of   *)
(* changes of broker; ids may be equal.  The inductive invariant:          *)
(*                                                                         *)
(*   SwitchTypeOK  the shape of the state;                                 *)
(*   ClientInv     where a client is, against its request, its answer and  *)
(*                 the brokers it has found and joined;                    *)
(*   BrokerPhase   what the broker is doing, and for whom;                 *)
(*   DirInv        whose entries are in the publishers' directory;         *)
(*   CountInv      how many are in the subscribers': EntriesKept;          *)
(*   PortInv       whose ports are whose, if nobody is an impostor;        *)
(*   BlockedInv    how a regular departure can fail: BlockedByStrangers;   *)
(*   Delivery, Message, LinkInv                                            *)
(*                 who reads which notification, what it says, and what    *)
(*                 its readers know: with DirInv IntroducedAgain.          *)
(***************************************************************************)
EXTENDS Switchover, FiniteSetTheorems, TLAPS

RegPorts == {pub_reg_port, sub_reg_port}
Port == PortRange \ RegPorts
MaybeEpoch == (0..epoch) \cup {None}

SwitchTypeOK ==
    /\ publishers \in [Topic -> [Pub -> Nat]]
    /\ subscribers \in [Topic -> [Host -> Nat]]
    /\ notify_sub_sockets \in [Sub -> PortRange \cup {None, pub_reg_port}]
    /\ used_ports \subseteq PortRange \cup RegPorts
    /\ RegPorts \subseteq used_ports
    /\ sub_reg_owed \in BOOLEAN
    /\ handling \in Client \cup {None}
    /\ todo \subseteq Sub
    /\ awaiting \in Sub \cup {None}
    /\ notification \subseteq Topic \X Pub
    /\ wire \in {"idle", "sending", "sent", "acked"}
    /\ receiver \in Sub \cup {None}
    /\ request \in [Client -> {"none", "register", "disconnect"}]
    /\ reply \in [Client -> Port \cup {"success", "error", None}]
    /\ pc \in [Client -> {"start", "registering", "publishing", "listening",
                          "leaving", "gone", "killed"}]
    /\ notify_port \in [Sub -> Port]
    /\ conn \in [Sub -> SUBSET (Topic \X Pub)]
    /\ epoch \in Nat \ {0}
    /\ at \in [Client -> MaybeEpoch]
    /\ joined \in [Client -> MaybeEpoch]

ClientInv ==
    \A c \in Client :
        /\ joined[c] \in {None, at[c]}
        /\ pc[c] \in {"publishing", "listening"} => joined[c] # None
        /\ pc[c] \in {"start", "registering"} => joined[c] = None
        /\ pc[c] = "registering" => at[c] # None
        /\ pc[c] = "publishing" => c \in Pub
        /\ pc[c] = "listening" => c \in Sub
        /\ pc[c] \in {"start", "publishing", "listening"} =>
             request[c] = "none" /\ reply[c] = None
        /\ request[c] = "register" => pc[c] \in {"registering", "killed"}
        /\ request[c] = "disconnect" => pc[c] \in {"leaving", "killed"}
        /\ request[c] # "none" => at[c] = epoch /\ reply[c] = None
        /\ pc[c] = "registering" /\ c \in Sub => reply[c] \in Port \cup {None}

BrokerPhase ==
    /\ awaiting = None <=> wire = "idle"
    /\ receiver = None <=> wire \in {"idle", "sending"}
    /\ handling = None => awaiting = None /\ todo = {}
    /\ handling \in Sub => todo = {} /\ awaiting \in {None, handling} /\ ~sub_reg_owed
    /\ awaiting # None => notify_sub_sockets[awaiting] # None
    /\ \A s \in todo : notify_sub_sockets[s] # None
    /\ handling \in Pub \/ (handling \in Sub /\ awaiting = None) =>
         /\ pc[handling] \in {"registering", "killed"}
         /\ request[handling] = "none" /\ reply[handling] = None
         /\ at[handling] = epoch
    /\ \A s \in Sub : notify_sub_sockets[s] # None => at[s] \in {None, epoch}

\* directory of publishers
Spoiled(t) == \E q \in Pub : Stranger(q) /\ t \in PubTopics[q]
Worthy(p) ==
    \/ handling = p
    \/ pc[p] = "registering" /\ at[p] = epoch /\ request[p] = "none"
    \/ joined[p] = epoch /\ (pc[p] = "publishing" \/ request[p] = "disconnect")
DirInv ==
    \A p \in Pub : Worthy(p) => \A t \in PubTopics[p] : publishers[t][p] > 0 \/ Spoiled(t)

Answered(s) == pc[s] = "registering" /\ at[s] = epoch /\ reply[s] # None
Holder(s) == joined[s] = epoch /\ (pc[s] = "listening" \/ request[s] = "disconnect")
Served(s) == Answered(s) \/ Holder(s)
PortOf(s) == IF pc[s] = "registering" THEN reply[s] ELSE notify_port[s]

\* Who relies on an entry in the directory.
Relies(s) == Served(s) \/ handling = s \/ notify_sub_sockets[s] # None
Relying(t, h) == {s \in Sub : Relies(s) /\ t \in SubTopics[s] /\ HostOf[s] = h}
CountInv ==
    Impostor \/ \A t \in Topic, h \in Host : Cardinality(Relying(t, h)) <= subscribers[t][h]

\* When what a subscriber takes for its port matters to the broker.
Knows(s) == pc[s] \in {"start", "listening"} \/ request[s] = "disconnect"

\* A subscriber that has a socket here has its port.
SocketInv ==
    \A s \in Sub :
        /\ Knows(s) => notify_sub_sockets[s] \in {None, notify_port[s]}
        /\ Served(s) => notify_sub_sockets[s] \in {None, PortOf(s)}

\* Nobody else's socket has it, nor was it given to somebody else,
DistinctInv ==
    ~Impostor =>
        \A s, o \in Sub : s # o /\ Served(s) =>
            /\ notify_sub_sockets[o] # PortOf(s)
            /\ Served(o) => PortOf(o) # PortOf(s)

\* and the ports in use are known to be.
UsedInv ==
    ~Impostor /\ ~sub_reg_owed =>
        \A s \in Sub :
            /\ Served(s) => PortOf(s) \in used_ports
            /\ notify_sub_sockets[s] # None =>
                 /\ notify_sub_sockets[s] \in used_ports
                 /\ \A o \in Sub \ {s} : notify_sub_sockets[o] # notify_sub_sockets[s]

PortInv == SocketInv /\ DistinctInv /\ UsedInv

\* Another of the id of s was here and has left, or is about to.
GoneOther(s) ==
    \E o \in Sub \ {s} : /\ IdOf[o] = IdOf[s]
                         /\ joined[o] = epoch /\ pc[o] \in {"leaving", "gone", "killed"}
NoStranger == \A s \in Sub : ~Stranger(s)
\* Nobody will answer s any more.
Stuck(s) == pc[s] \in {"leaving", "killed"} /\ request[s] = "none" /\ reply[s] = None

BlockedInv ==
    NoStranger =>
        /\ \A s \in Sub : Served(s) => HasSocket(s) \/ GoneOther(s)
        /\ sub_reg_owed /\ TakenPorts = {} => \E s \in Sub : Stuck(s) /\ GoneOther(s)

Delivery ==
    /\ receiver # None =>
         /\ pc[receiver] = "listening" =>
              joined[receiver] = epoch /\ notify_port[receiver] = notify_sub_sockets[awaiting]
         /\ pc[receiver] = "registering" => reply[receiver] = None
    /\ ~Impostor => \A s \in Sub : Answered(s) => handling = s /\ awaiting = s /\ wire # "acked"

Message ==
    awaiting # None =>
        notification =
            IF handling \in Pub
            THEN PubTopics[handling] \X {handling}
            ELSE {a \in SubTopics[handling] \X Pub : publishers[a[1]][a[2]] > 0}

Pending(p, s) ==
    handling = p /\ (s \in todo \/ (awaiting = s /\ wire # "acked"))
LinkInv ==
    Impostor \/
    \A p \in Pub, s \in Sub :
        joined[s] = epoch /\ Settled(s) /\ notify_sub_sockets[s] # None /\ ~Pending(p, s) =>
            \A t \in PubTopics[p] \cap SubTopics[s] : publishers[t][p] > 0 => <<t, p>> \in conn[s]

Shape == SwitchTypeOK /\ ClientInv /\ BrokerPhase

IInv ==
    /\ Shape /\ DirInv /\ CountInv /\ PortInv /\ BlockedInv
    /\ Delivery /\ Message /\ LinkInv

-----------------------------------------------------------------------------
(* The broker's dictionaries.                                              *)

LEMMA OverwriteIs ==
    ASSUME NEW s \in Sub, NEW v
    PROVE  \A o \in Sub : Overwrite(s, v)[o] =
               IF o = s THEN v ELSE IF IdOf[o] = IdOf[s] THEN None
                                    ELSE notify_sub_sockets[o]
  BY DEF Overwrite

LEMMA AddIs ==
    ASSUME NEW S, NEW registry \in [Topic -> [S -> Nat]], NEW ts, NEW x
    PROVE  /\ AddUnder(registry, ts, x) \in [Topic -> [S -> Nat]]
           /\ \A t \in Topic, y \in S :
                AddUnder(registry, ts, x)[t][y] =
                  IF t \in ts /\ y = x THEN registry[t][y] + 1 ELSE registry[t][y]
<1>1. ASSUME NEW bag \in [S -> Nat] PROVE Add(bag, x) \in [S -> Nat]
  <2>1. Add(bag, x) = [y \in S |-> IF y = x THEN bag[y] + 1 ELSE bag[y]]
    BY DEF Add
  <2> QED
    BY <2>1
<1>2. \A t \in Topic : registry[t] \in [S -> Nat]
  OBVIOUS
<1> QED
  BY <1>1, <1>2 DEF AddUnder, Add

LEMMA DropType ==
    ASSUME NEW S, NEW registry \in [Topic -> [S -> Nat]], NEW x \in S, NEW ts,
           \A t \in ts \cap Topic : CanDrop(registry[t], x)
    PROVE  /\ DropUnder(registry, ts, x) \in [Topic -> [S -> Nat]]
           /\ \A t \in Topic, y \in S :
                DropUnder(registry, ts, x)[t][y] <= registry[t][y]
           /\ \A t \in Topic \ ts : DropUnder(registry, ts, x)[t] = registry[t]
<1>1. ASSUME NEW bag \in [S -> Nat], CanDrop(bag, x)
      PROVE  Drop(bag, x) \in [S -> Nat] /\ \A y \in S : Drop(bag, x)[y] <= bag[y]
  <2>1. CASE SingleEntry(bag)
    <3>1. Drop(bag, x) = [y \in S |-> 0]
      BY <2>1 DEF Drop
    <3> QED
      BY <3>1
  <2>2. CASE ~SingleEntry(bag)
    <3>1. bag[x] > 0 /\ Drop(bag, x) = [bag EXCEPT ![x] = @ - 1]
      BY <1>1, <2>2 DEF Drop, CanDrop
    <3> QED
      BY <3>1
  <2> QED
    BY <2>1, <2>2
<1>2. \A t \in Topic : registry[t] \in [S -> Nat]
  OBVIOUS
<1> QED
  BY <1>1, <1>2 DEF DropUnder

\* Removing an address that is there takes out one entry, and that one.
LEMMA DropIs ==
    ASSUME NEW S, NEW bag \in [S -> Nat], NEW x \in S, bag[x] > 0
    PROVE  \A y \in S : Drop(bag, x)[y] = IF y = x THEN bag[x] - 1 ELSE bag[y]
<1>1. CASE SingleEntry(bag)
  <2>1. PICK z \in S : bag = [y \in S |-> IF y = z THEN 1 ELSE 0]
    BY <1>1 DEF SingleEntry
  <2>2. \A y \in S : bag[y] = IF y = z THEN 1 ELSE 0
    BY <2>1
  <2>3. z = x
    BY <2>2
  <2> QED
    BY <1>1, <2>2, <2>3 DEF Drop
<1>2. CASE ~SingleEntry(bag)
  BY <1>2 DEF Drop
<1> QED
  BY <1>1, <1>2

-----------------------------------------------------------------------------
(* The shape of the state.                                                 *)

LEMMA ClearPortsAre ==
    ASSUME SwitchTypeOK PROVE ClearPorts \subseteq Port /\ None \notin ClearPorts
  BY PortAssumption DEF SwitchTypeOK, ClearPorts, Port

LEMMA RegisterPubShape ==
    ASSUME Shape, NEW p \in Pub, RegisterPub(p), UNCHANGED switchVars PROVE Shape'
<1>1. SwitchTypeOK'
  <2>1. publishers' \in [Topic -> [Pub -> Nat]]
    BY AddIs DEF Shape, SwitchTypeOK, RegisterPub
  <2> QED
    BY <2>1 DEF Shape, SwitchTypeOK, RegisterPub, Received, clientVars, switchVars,
                Client, MaybeEpoch
<1>2. ClientInv'
  BY DEF Shape, SwitchTypeOK, ClientInv, RegisterPub, Received, clientVars, switchVars,
         Client
<1>3. BrokerPhase'
  BY ClientAssumption
     DEF Shape, SwitchTypeOK, ClientInv, BrokerPhase, RegisterPub, Received, clientVars,
         switchVars, Client
<1> QED
  BY <1>1, <1>2, <1>3 DEF Shape

LEMMA FinishPubShape ==
    ASSUME Shape, NEW p \in Pub, FinishPub(p), UNCHANGED switchVars PROVE Shape'
<1>1. SwitchTypeOK'
  BY DEF Shape, SwitchTypeOK, FinishPub, Answer, clientVars, switchVars, Client, MaybeEpoch
<1>2. ClientInv'
  BY ClientAssumption, PortAssumption
     DEF Shape, SwitchTypeOK, ClientInv, BrokerPhase, FinishPub, Answer, clientVars,
         switchVars, Client
<1>3. BrokerPhase'
  BY ClientAssumption
     DEF Shape, SwitchTypeOK, BrokerPhase, FinishPub, AllNotified, Answer, clientVars,
         switchVars, Client
<1> QED
  BY <1>1, <1>2, <1>3 DEF Shape

LEMMA DisconnectPubShape ==
    ASSUME Shape, NEW p \in Pub, DisconnectPub(p), UNCHANGED switchVars PROVE Shape'
<1>1. SwitchTypeOK'
  <2>1. PICK done \in SUBSET {t \in PubTopics[p] : CanDrop(publishers[t], p)} :
          publishers' = DropUnder(publishers, done, p)
    BY DEF DisconnectPub
  <2>2. publishers' \in [Topic -> [Pub -> Nat]]
    BY <2>1, DropType DEF Shape, SwitchTypeOK
  <2>3. reply' \in [Client -> Port \cup {"success", "error", None}]
    BY DEF Shape, SwitchTypeOK, DisconnectPub, Answer, Client
  <2> QED
    BY <2>2, <2>3
       DEF Shape, SwitchTypeOK, DisconnectPub, Received, clientVars, switchVars, Client,
           MaybeEpoch
<1>2. ClientInv'
  BY ClientAssumption, PortAssumption
     DEF Shape, SwitchTypeOK, ClientInv, DisconnectPub, Received, Answer, clientVars,
         switchVars, Client
<1>3. BrokerPhase'
  BY ClientAssumption
     DEF Shape, SwitchTypeOK, BrokerPhase, DisconnectPub, Received, Answer, clientVars,
         switchVars, Client
<1> QED
  BY <1>1, <1>2, <1>3 DEF Shape

LEMMA NotifyNextShape ==
    ASSUME Shape, NEW s \in Sub, NotifyNext(s), UNCHANGED switchVars PROVE Shape'
<1>1. SwitchTypeOK'
  BY TopicAssumption
     DEF Shape, SwitchTypeOK, NotifyNext, clientVars, switchVars, Client, MaybeEpoch
<1>2. ClientInv'
  BY DEF Shape, ClientInv, NotifyNext, clientVars, switchVars
<1>3. BrokerPhase'
  BY ClientAssumption
     DEF Shape, SwitchTypeOK, BrokerPhase, NotifyNext, clientVars, switchVars, Client
<1> QED
  BY <1>1, <1>2, <1>3 DEF Shape

LEMMA NotifyAckedShape ==
    ASSUME Shape, NEW s \in Sub, NotifyAcked(s), UNCHANGED switchVars PROVE Shape'
<1>1. SwitchTypeOK'
  BY DEF Shape, SwitchTypeOK, NotifyAcked, clientVars, switchVars, Client, MaybeEpoch
<1>2. ClientInv'
  BY DEF Shape, ClientInv, NotifyAcked, clientVars, switchVars
<1>3. BrokerPhase'
  BY ClientAssumption
     DEF Shape, SwitchTypeOK, BrokerPhase, NotifyAcked, clientVars, switchVars, Client
<1> QED
  BY <1>1, <1>2, <1>3 DEF Shape

LEMMA RegisterSubShape ==
    ASSUME Shape, NEW s \in Sub, RegisterSub(s), UNCHANGED switchVars PROVE Shape'
<1>1. SwitchTypeOK'
  <2>1. subscribers' \in [Topic -> [Host -> Nat]]
    BY AddIs DEF Shape, SwitchTypeOK, RegisterSub
  <2> QED
    BY <2>1 DEF Shape, SwitchTypeOK, RegisterSub, Received, clientVars, switchVars,
                Client, MaybeEpoch
<1>2. ClientInv'
  BY DEF Shape, SwitchTypeOK, ClientInv, RegisterSub, Received, clientVars, switchVars,
         Client
<1>3. BrokerPhase'
  BY ClientAssumption
     DEF Shape, SwitchTypeOK, ClientInv, BrokerPhase, RegisterSub, SubReady, Received,
         clientVars, switchVars, Client
<1> QED
  BY <1>1, <1>2, <1>3 DEF Shape

\* What AllocatePort does to the sockets, either way.
LEMMA AllocatePortIs ==
    ASSUME Shape, NEW s \in Sub, AllocatePort(s)
    PROVE  \E port \in ClearPorts, v \in PortRange \cup {pub_reg_port} :
             /\ v # None /\ notify_sub_sockets' = Overwrite(s, v)
             /\ used_ports' = used_ports \cup {port}
             /\ \/ /\ v = port /\ port \notin TakenPorts /\ ~BoundByOther(s, port)
                   /\ Answer(s, port) /\ awaiting' = s /\ wire' = "sending"
                   /\ notification' = {a \in SubTopics[s] \X Pub :
                                          publishers[a[1]][a[2]] > 0}
                   /\ UNCHANGED <<handling, sub_reg_owed>>
                \/ /\ v \in {port, pub_reg_port}
                   /\ port \in TakenPorts \/ BoundByOther(s, port)
                   /\ handling' = None /\ sub_reg_owed' = TRUE
                   /\ UNCHANGED <<reply, notification, awaiting, wire>>
<1>1. \A port \in ClearPorts : port \in PortRange
  BY DEF ClearPorts
<1>2. PICK port \in ClearPorts :
         /\ used_ports' = used_ports \cup {port}
         /\ \/ /\ port \notin TakenPorts /\ ~BoundByOther(s, port)
               /\ notify_sub_sockets' = Overwrite(s, port)
               /\ Answer(s, port) /\ awaiting' = s /\ wire' = "sending"
               /\ notification' = {a \in SubTopics[s] \X Pub :
                                      publishers[a[1]][a[2]] > 0}
               /\ UNCHANGED <<handling, sub_reg_owed>>
            \/ /\ port \in TakenPorts \/ BoundByOther(s, port)
               /\ notify_sub_sockets' =
                    Overwrite(s, IF port \in TakenPorts THEN port ELSE pub_reg_port)
               /\ handling' = None /\ sub_reg_owed' = TRUE
               /\ UNCHANGED <<reply, notification, awaiting, wire>>
  BY DEF AllocatePort, Allocated
<1>3. CASE notify_sub_sockets' = Overwrite(s, port)
  BY <1>1, <1>2, <1>3, PortAssumption
<1>4. CASE notify_sub_sockets' = Overwrite(s, pub_reg_port)
  BY <1>1, <1>2, <1>4, PortAssumption
<1> QED
  BY <1>2, <1>3, <1>4

LEMMA AllocatePortShape ==
    ASSUME Shape, NEW s \in Sub, AllocatePort(s), UNCHANGED switchVars PROVE Shape'
<1>0. PICK port \in ClearPorts, v \in PortRange \cup {pub_reg_port} :
             /\ v # None /\ notify_sub_sockets' = Overwrite(s, v)
             /\ used_ports' = used_ports \cup {port}
             /\ \/ /\ v = port /\ port \notin TakenPorts /\ ~BoundByOther(s, port)
                   /\ Answer(s, port) /\ awaiting' = s /\ wire' = "sending"
                   /\ notification' = {a \in SubTopics[s] \X Pub :
                                          publishers[a[1]][a[2]] > 0}
                   /\ UNCHANGED <<handling, sub_reg_owed>>
                \/ /\ v \in {port, pub_reg_port}
                   /\ port \in TakenPorts \/ BoundByOther(s, port)
                   /\ handling' = None /\ sub_reg_owed' = TRUE
                   /\ UNCHANGED <<reply, notification, awaiting, wire>>
  BY AllocatePortIs
<1>1. /\ handling = s /\ awaiting = None
      /\ UNCHANGED <<publishers, subscribers, todo, receiver, request, clientVars>>
  BY DEF AllocatePort
<1>2. port \in Port /\ port # None
  BY ClearPortsAre DEF Shape
<1>3. SwitchTypeOK'
  <2>1. notify_sub_sockets' \in [Sub -> PortRange \cup {None, pub_reg_port}]
    BY <1>0 DEF Overwrite, Shape, SwitchTypeOK
  <2>2. reply' \in [Client -> Port \cup {"success", "error", None}]
    BY <1>0, <1>2 DEF Shape, SwitchTypeOK, Answer, Client
  <2>3. notification' \subseteq Topic \X Pub
    BY <1>0, TopicAssumption DEF Shape, SwitchTypeOK
  <2>4. used_ports' \subseteq PortRange \cup RegPorts /\ RegPorts \subseteq used_ports'
    BY <1>0, <1>2 DEF Port, Shape, SwitchTypeOK
  <2>5. /\ handling' \in Client \cup {None} /\ awaiting' \in Sub \cup {None}
        /\ wire' \in {"idle", "sending", "sent", "acked"} /\ sub_reg_owed' \in BOOLEAN
    BY <1>0 DEF Shape, SwitchTypeOK
  <2> QED
    BY <1>1, <2>1, <2>2, <2>3, <2>4, <2>5
       DEF Shape, SwitchTypeOK, clientVars, switchVars, MaybeEpoch
<1>4. ClientInv'
  <2>1. \A c \in Client : c # s => reply'[c] = reply[c]
    BY <1>0 DEF Answer, Shape, SwitchTypeOK
  <2>2. reply'[s] \in {reply[s], port} /\ request[s] = "none"
        /\ pc[s] \in {"registering", "killed"}
    BY <1>0, <1>1 DEF Answer, Shape, SwitchTypeOK, BrokerPhase, Client
  <2> QED
    BY <1>1, <1>2, <2>1, <2>2, ClientAssumption
       DEF Shape, ClientInv, clientVars, switchVars, Client
<1>5. BrokerPhase'
  <2>1. \A o \in Sub : notify_sub_sockets'[o] # None =>
                         o = s \/ notify_sub_sockets[o] # None
    BY <1>0, OverwriteIs
  <2>2. notify_sub_sockets'[s] # None /\ at[s] = epoch /\ s \notin Pub /\ s # None
        /\ wire = "idle" /\ todo = {} /\ ~sub_reg_owed /\ receiver = None
    BY <1>0, <1>1, OverwriteIs, ClientAssumption
       DEF Shape, SwitchTypeOK, BrokerPhase, Client
  <2> QED
    BY <1>0, <1>1, <2>1, <2>2, ClientAssumption
       DEF Shape, SwitchTypeOK, BrokerPhase, clientVars, switchVars, Client
<1> QED
  BY <1>3, <1>4, <1>5 DEF Shape

Open(s) == notify_port[s] \in used_ports /\ HasSocket(s)

\* What DisconnectSub does: nothing fails if the port and a socket are there,
\* and an entry under each topic.
LEMMA DisconnectSubIs ==
    ASSUME Shape, NEW s \in Sub, DisconnectSub(s)
    PROVE  /\ ~sub_reg_owed
           /\ used_ports' = used_ports \ {notify_port[s]}
           /\ notify_sub_sockets' = IF notify_port[s] \in used_ports
                                    THEN Overwrite(s, None) ELSE notify_sub_sockets
           /\ \E done \in SUBSET SubTopics[s] :
                /\ done # {} => Open(s)
                /\ \A t \in done : CanDrop(subscribers[t], HostOf[s])
                /\ subscribers' = DropUnder(subscribers, done, HostOf[s])
           /\ \/ Open(s) /\ Answer(s, "success") /\ UNCHANGED sub_reg_owed
              \/ sub_reg_owed' = TRUE /\ UNCHANGED reply
           /\ Open(s) /\ (\A t \in SubTopics[s] : subscribers[t][HostOf[s]] > 0) =>
                UNCHANGED sub_reg_owed
<1> DEFINE present == {t \in SubTopics[s] : ~NoEntry(subscribers[t])}
           droppable == {t \in present : Open(s) /\ CanDrop(subscribers[t], HostOf[s])}
<1>1. /\ ~sub_reg_owed
      /\ used_ports' = used_ports \ {notify_port[s]}
      /\ notify_sub_sockets' = IF notify_port[s] \in used_ports
                               THEN Overwrite(s, None) ELSE notify_sub_sockets
  BY DEF DisconnectSub, SubReady
<1>2. PICK done \in SUBSET droppable :
         /\ droppable = present => done = droppable
         /\ subscribers' = DropUnder(subscribers, done, HostOf[s])
         /\ IF Open(s) /\ done = present
            THEN Answer(s, "success") /\ UNCHANGED sub_reg_owed
            ELSE sub_reg_owed' = TRUE /\ UNCHANGED reply
  BY DEF DisconnectSub, Open
<1>3. ASSUME Open(s), \A t \in SubTopics[s] : subscribers[t][HostOf[s]] > 0
      PROVE  UNCHANGED sub_reg_owed
  <2>1. \A t \in SubTopics[s] : ~NoEntry(subscribers[t]) /\ CanDrop(subscribers[t], HostOf[s])
    BY <1>3, TopicAssumption DEF NoEntry, CanDrop, Shape, SwitchTypeOK
  <2>2. droppable = present
    BY <1>3, <2>1
  <2> QED
    BY <1>2, <1>3, <2>2
<1>4. /\ done \in SUBSET SubTopics[s] /\ (done # {} => Open(s))
      /\ \A t \in done : CanDrop(subscribers[t], HostOf[s])
  OBVIOUS
<1> HIDE DEF present, droppable
<1> QED
  BY <1>1, <1>2, <1>3, <1>4

LEMMA DisconnectSubShape ==
    ASSUME Shape, NEW s \in Sub, DisconnectSub(s), UNCHANGED switchVars PROVE Shape'
<1>1. /\ used_ports' = used_ports \ {notify_port[s]}
      /\ notify_sub_sockets' = IF notify_port[s] \in used_ports
                               THEN Overwrite(s, None) ELSE notify_sub_sockets
      /\ \/ Answer(s, "success") /\ UNCHANGED sub_reg_owed
         \/ sub_reg_owed' = TRUE /\ UNCHANGED reply
  BY DisconnectSubIs
<1>2. /\ Received(s) /\ request[s] = "disconnect" /\ handling = None
      /\ UNCHANGED <<publishers, handling, todo, awaiting, notification, wire, receiver,
                     clientVars>>
  BY DEF DisconnectSub, SubReady
<1>3. SwitchTypeOK'
  <2>1. notify_sub_sockets' \in [Sub -> PortRange \cup {None, pub_reg_port}]
    BY <1>1 DEF Overwrite, Shape, SwitchTypeOK
  <2>2. subscribers' \in [Topic -> [Host -> Nat]]
    <3>1. PICK done \in SUBSET SubTopics[s] :
             /\ \A t \in done : CanDrop(subscribers[t], HostOf[s])
             /\ subscribers' = DropUnder(subscribers, done, HostOf[s])
      BY DisconnectSubIs
    <3>2. HostOf[s] \in Host
      BY TopicAssumption
    <3> QED
      BY <3>1, <3>2, DropType DEF Shape, SwitchTypeOK
  <2>3. /\ reply' \in [Client -> Port \cup {"success", "error", None}]
        /\ request' \in [Client -> {"none", "register", "disconnect"}]
    BY <1>1, <1>2 DEF Shape, SwitchTypeOK, Answer, Received, Client
  <2>4. used_ports' \subseteq PortRange \cup RegPorts /\ RegPorts \subseteq used_ports'
    BY <1>1 DEF Port, Shape, SwitchTypeOK
  <2> QED
    BY <1>1, <1>2, <2>1, <2>2, <2>3, <2>4
       DEF Shape, SwitchTypeOK, clientVars, switchVars, MaybeEpoch
<1>4. ClientInv'
  <2>1. /\ \A c \in Client : c # s => reply'[c] = reply[c] /\ request'[c] = request[c]
        /\ request'[s] = "none"
    BY <1>1, <1>2 DEF Answer, Received, Shape, SwitchTypeOK, Client
  <2> QED
    BY <1>2, <2>1, ClientAssumption DEF Shape, ClientInv, clientVars, switchVars, Client
<1>5. BrokerPhase'
  <2>1. \A o \in Sub : notify_sub_sockets'[o] # None => notify_sub_sockets[o] # None
    BY <1>1, OverwriteIs
  <2>2. awaiting = None /\ todo = {} /\ handling \notin Client
    BY <1>2, ClientAssumption DEF Shape, BrokerPhase
  <2> QED
    BY <1>2, <2>1, <2>2 DEF Shape, BrokerPhase, clientVars, switchVars, Client
<1> QED
  BY <1>3, <1>4, <1>5 DEF Shape

LEMMA TakeoverShape == ASSUME Shape, Takeover PROVE Shape'
<1>1. SwitchTypeOK'
  <2>1. /\ publishers' \in [Topic -> [Pub -> Nat]]
        /\ subscribers' \in [Topic -> [Host -> Nat]]
    BY DEF Takeover
  <2>2. epoch' \in Nat \ {0} /\ 0..epoch \subseteq 0..epoch'
    BY DEF Takeover, Shape, SwitchTypeOK
  <2>3. /\ at' \in [Client -> (0..epoch') \cup {None}]
        /\ joined' \in [Client -> (0..epoch') \cup {None}]
    BY <2>2 DEF Takeover, Shape, SwitchTypeOK, MaybeEpoch
  <2>4. RegPorts \subseteq used_ports' /\ used_ports' \subseteq PortRange \cup RegPorts
    BY DEF Takeover, RegPorts
  <2> QED
    BY <2>1, <2>2, <2>3, <2>4 DEF Takeover, Shape, SwitchTypeOK, clientVars, MaybeEpoch
<1>2. ClientInv'
  BY DEF Takeover, Shape, ClientInv, clientVars
<1>3. BrokerPhase'
  BY ClientAssumption DEF Takeover, BrokerPhase, clientVars, Client
<1> QED
  BY <1>1, <1>2, <1>3 DEF Shape

\* One step of a client, where the broker takes no part.
ClientStep(c) ==
    \/ Resolve(c) \/ WatchFires(c) \/ WatchEnds(c) \/ RegisterAgain(c)
    \/ AskNobody(c) \/ LeaveUnregistered(c) \/ Joins(c)
    \/ c \in Sub /\ DeliverHere(c)
    \/ /\ \/ Left(c) \/ Kill(c)
          \/ at[c] = epoch /\ Leave(c)
          \/ c \in Sub /\ ReadNotification(c)
       /\ UNCHANGED switchVars

LEMMA ClientShape ==
    ASSUME Shape, NEW c \in Client, ClientStep(c) PROVE Shape'
<1> USE DEF Shape
<1>1. CASE Resolve(c)
  <2>1. SwitchTypeOK'
    BY <1>1 DEF Resolve, SwitchTypeOK, vars, brokerVars, wireVars, clientVars, MaybeEpoch
  <2>2. ClientInv'
    BY <1>1 DEF Resolve, SwitchTypeOK, ClientInv, vars, brokerVars, wireVars, clientVars
  <2>3. BrokerPhase'
    BY <1>1 DEF Resolve, SwitchTypeOK, ClientInv, BrokerPhase, vars, brokerVars, wireVars,
                clientVars, Client
  <2> QED
    BY <2>1, <2>2, <2>3
<1>2. CASE WatchFires(c)
  <2>1. SwitchTypeOK'
    BY <1>2 DEF WatchFires, SwitchTypeOK, brokerVars, wireVars, MaybeEpoch
  <2>2. ClientInv'
    BY <1>2 DEF WatchFires, SwitchTypeOK, ClientInv, brokerVars, wireVars
  <2>3. BrokerPhase'
    BY <1>2 DEF WatchFires, SwitchTypeOK, BrokerPhase, brokerVars, wireVars, Client
  <2> QED
    BY <2>1, <2>2, <2>3
<1>3. CASE WatchEnds(c)
  <2>1. SwitchTypeOK'
    BY <1>3 DEF WatchEnds, SwitchTypeOK, brokerVars, wireVars, switchVars, MaybeEpoch
  <2>2. ClientInv'
    BY <1>3 DEF WatchEnds, SwitchTypeOK, ClientInv, brokerVars, wireVars, switchVars
  <2>3. BrokerPhase'
    BY <1>3 DEF WatchEnds, SwitchTypeOK, BrokerPhase, brokerVars, wireVars, switchVars,
                Client
  <2> QED
    BY <2>1, <2>2, <2>3
<1>4. CASE RegisterAgain(c)
  <2>1. SwitchTypeOK'
    BY <1>4 DEF RegisterAgain, Register, SwitchTypeOK, brokerVars, switchVars, MaybeEpoch
  <2>2. ClientInv'
    BY <1>4, SwitchoverAssumption
       DEF RegisterAgain, Register, SwitchTypeOK, ClientInv, brokerVars, switchVars
  <2>3. BrokerPhase'
    BY <1>4 DEF RegisterAgain, Register, SwitchTypeOK, BrokerPhase, brokerVars,
                switchVars, Client
  <2> QED
    BY <2>1, <2>2, <2>3
<1>5. CASE AskNobody(c)
  <2>1. SwitchTypeOK'
    BY <1>5 DEF AskNobody, SwitchTypeOK, brokerVars, wireVars, switchVars, MaybeEpoch
  <2>2. at[c] # None /\ at[c] # epoch
    BY <1>5, SwitchoverAssumption DEF AskNobody, SwitchTypeOK
  <2>3. ClientInv'
    BY <1>5, <2>2
       DEF AskNobody, SwitchTypeOK, ClientInv, brokerVars, wireVars, switchVars
  <2>4. BrokerPhase'
    BY <1>5, <2>2
       DEF AskNobody, SwitchTypeOK, BrokerPhase, brokerVars, wireVars, switchVars, Client
  <2> QED
    BY <2>1, <2>3, <2>4
<1>6. CASE LeaveUnregistered(c)
  <2>1. SwitchTypeOK'
    BY <1>6 DEF LeaveUnregistered, SwitchTypeOK, brokerVars, switchVars, MaybeEpoch
  <2>2. ClientInv'
    BY <1>6 DEF LeaveUnregistered, SwitchTypeOK, ClientInv, brokerVars, switchVars
  <2>3. BrokerPhase'
    BY <1>6 DEF LeaveUnregistered, SwitchTypeOK, BrokerPhase, brokerVars, switchVars,
                Client
  <2> QED
    BY <2>1, <2>2, <2>3
<1>7. CASE Joins(c)
  <2>1. /\ pc[c] = "registering" /\ reply[c] # None /\ at[c] # None
        /\ joined' = [joined EXCEPT ![c] = at[c]]
        /\ reply' = [reply EXCEPT ![c] = None]
        /\ UNCHANGED <<brokerVars, notification, wire, receiver, request, conn, epoch, at>>
        /\ \/ c \in Pub /\ pc' = [pc EXCEPT ![c] = "publishing"] /\ UNCHANGED notify_port
           \/ c \in Sub /\ pc' = [pc EXCEPT ![c] = "listening"]
              /\ notify_port' = [notify_port EXCEPT ![c] = reply[c]]
    BY <1>7 DEF Joins, PubConfirmed, SubConfirmed, ClientInv
  <2>2. SwitchTypeOK'
    <3>1. notify_port' \in [Sub -> Port]
      BY <2>1 DEF SwitchTypeOK, ClientInv, Client
    <3> QED
      BY <2>1, <3>1 DEF SwitchTypeOK, brokerVars, MaybeEpoch
  <2>3. ClientInv'
    BY <2>1, ClientAssumption DEF SwitchTypeOK, ClientInv, brokerVars, Client
  <2>4. BrokerPhase'
    <3>1. handling \in Pub \/ (handling \in Sub /\ awaiting = None) => handling # c
      BY <2>1 DEF BrokerPhase
    <3> QED
      BY <2>1, <3>1 DEF SwitchTypeOK, BrokerPhase, brokerVars, Client
  <2> QED
    BY <2>2, <2>3, <2>4
<1>8. CASE c \in Sub /\ DeliverHere(c)
  <2>1. SwitchTypeOK'
    BY <1>8 DEF DeliverHere, Deliver, SwitchTypeOK, brokerVars, clientVars, switchVars,
                MaybeEpoch
  <2>2. ClientInv'
    BY <1>8 DEF DeliverHere, Deliver, ClientInv, brokerVars, clientVars, switchVars
  <2>3. BrokerPhase'
    BY <1>8, ClientAssumption
       DEF DeliverHere, Deliver, BrokerPhase, brokerVars, clientVars, switchVars, Client
  <2> QED
    BY <2>1, <2>2, <2>3
<1>9. CASE Left(c) /\ UNCHANGED switchVars
  <2>1. SwitchTypeOK'
    BY <1>9 DEF Left, SwitchTypeOK, brokerVars, switchVars, MaybeEpoch
  <2>2. ClientInv'
    BY <1>9 DEF Left, SwitchTypeOK, ClientInv, brokerVars, switchVars
  <2>3. BrokerPhase'
    BY <1>9 DEF Left, SwitchTypeOK, BrokerPhase, brokerVars, switchVars, Client
  <2> QED
    BY <2>1, <2>2, <2>3
<1>10. CASE Kill(c) /\ UNCHANGED switchVars
  <2>1. SwitchTypeOK'
    BY <1>10 DEF Kill, SwitchTypeOK, brokerVars, wireVars, switchVars, MaybeEpoch
  <2>2. ClientInv'
    BY <1>10 DEF Kill, SwitchTypeOK, ClientInv, brokerVars, wireVars, switchVars
  <2>3. BrokerPhase'
    BY <1>10 DEF Kill, SwitchTypeOK, BrokerPhase, brokerVars, wireVars, switchVars, Client
  <2> QED
    BY <2>1, <2>2, <2>3
<1>11. CASE at[c] = epoch /\ Leave(c) /\ UNCHANGED switchVars
  <2>1. SwitchTypeOK'
    BY <1>11 DEF Leave, SwitchTypeOK, brokerVars, switchVars, MaybeEpoch
  <2>2. ClientInv'
    BY <1>11 DEF Leave, SwitchTypeOK, ClientInv, brokerVars, switchVars
  <2>3. BrokerPhase'
    BY <1>11 DEF Leave, SwitchTypeOK, BrokerPhase, brokerVars, switchVars, Client
  <2> QED
    BY <2>1, <2>2, <2>3
<1>12. CASE c \in Sub /\ ReadNotification(c) /\ UNCHANGED switchVars
  <2>1. SwitchTypeOK'
    BY <1>12 DEF ReadNotification, SwitchTypeOK, brokerVars, switchVars, MaybeEpoch
  <2>2. ClientInv'
    BY <1>12 DEF ReadNotification, ClientInv, brokerVars, switchVars
  <2>3. BrokerPhase'
    BY <1>12, ClientAssumption
       DEF ReadNotification, BrokerPhase, brokerVars, switchVars, Client
  <2> QED
    BY <2>1, <2>2, <2>3
<1> QED
  BY <1>1, <1>2, <1>3, <1>4, <1>5, <1>6, <1>7, <1>8, <1>9, <1>10, <1>11, <1>12
     DEF ClientStep

LEMMA StepIs ==
    ASSUME [SwitchNext]_allVars
    PROVE  \/ UNCHANGED allVars
           \/ Takeover
           \/ BrokerGoesOn
           \/ \E c \in Client : ClientStep(c)
<1>1. ASSUME NEW c \in Client, ClientGoesOn(c) PROVE ClientStep(c)
  BY <1>1 DEF ClientGoesOn, ClientStep
<1>2. ASSUME NEW c \in Client, (at[c] = epoch /\ Leave(c)) \/ Kill(c),
             UNCHANGED switchVars
      PROVE  ClientStep(c)
  BY <1>2 DEF ClientStep
<1>3. ASSUME NEW c \in Client, AskNobody(c) \/ LeaveUnregistered(c) PROVE ClientStep(c)
  BY <1>3 DEF ClientStep
<1> QED
  BY <1>1, <1>2, <1>3 DEF SwitchNext

LEMMA ShapeStep == Shape /\ [SwitchNext]_allVars => Shape'
<1> SUFFICES ASSUME Shape, [SwitchNext]_allVars PROVE Shape'
  OBVIOUS
<1>1. CASE UNCHANGED allVars
  BY <1>1 DEF Shape, SwitchTypeOK, ClientInv, BrokerPhase, allVars, vars, brokerVars,
              wireVars, clientVars, switchVars, MaybeEpoch
<1>2. CASE Takeover
  BY <1>2, TakeoverShape
<1>3. CASE BrokerGoesOn
  BY <1>3, RegisterPubShape, FinishPubShape, DisconnectPubShape, NotifyNextShape,
     NotifyAckedShape, RegisterSubShape, AllocatePortShape, DisconnectSubShape
     DEF BrokerGoesOn
<1>4. CASE \E c \in Client : ClientStep(c)
  BY <1>4, ClientShape
<1> QED
  BY <1>1, <1>2, <1>3, <1>4, StepIs

LEMMA ShapeInit == SwitchInit => Shape
<1> SUFFICES ASSUME SwitchInit PROVE Shape
  OBVIOUS
<1>1. SwitchTypeOK
  <2>1. conn \in [Sub -> SUBSET (Topic \X Pub)]
    BY TopicAssumption DEF SwitchInit, Matches
  <2>2. notify_port \in [Sub -> Port]
    BY DEF SwitchInit, Port, RegPorts
  <2>3. epoch = 1 /\ 0 \in MaybeEpoch
    BY DEF SwitchInit, MaybeEpoch
  <2>4. /\ pc \in [Client -> {"start", "registering", "publishing", "listening",
                             "leaving", "gone", "killed"}]
        /\ at \in [Client -> MaybeEpoch] /\ joined \in [Client -> MaybeEpoch]
    BY <2>3 DEF SwitchInit
  <2>5. /\ publishers \in [Topic -> [Pub -> Nat]]
        /\ subscribers \in [Topic -> [Host -> Nat]]
        /\ notify_sub_sockets \in [Sub -> PortRange \cup {None, pub_reg_port}]
        /\ request \in [Client -> {"none", "register", "disconnect"}]
        /\ reply \in [Client -> Port \cup {"success", "error", None}]
    BY DEF SwitchInit, BrokerInit
  <2>6. /\ used_ports = RegPorts /\ sub_reg_owed \in BOOLEAN /\ handling = None
        /\ todo = {} /\ awaiting = None /\ wire = "idle" /\ receiver = None
        /\ notification = {}
    BY DEF SwitchInit, BrokerInit, RegPorts
  <2> QED
    BY <2>1, <2>2, <2>3, <2>4, <2>5, <2>6 DEF SwitchTypeOK
<1>2. ClientInv
  BY SwitchoverAssumption, ClientAssumption DEF SwitchInit, BrokerInit, ClientInv, Client
<1>3. BrokerPhase
  BY ClientAssumption DEF SwitchInit, BrokerInit, BrokerPhase, Client
<1> QED
  BY <1>1, <1>2, <1>3 DEF Shape

-----------------------------------------------------------------------------
(* What clients do by themselves.                                          *)

\* No client gets a port, an entry or a task of the broker's that way, and
\* whoever is a stranger, or has gone after joining, remains so.
LEMMA ClientStepIs ==
    ASSUME Shape, NEW c \in Client, ClientStep(c)
    PROVE  /\ UNCHANGED <<brokerVars, notification, epoch>>
           /\ \A s \in Sub : Served(s)' => Served(s) /\ PortOf(s)' = PortOf(s)
           /\ \A s \in Sub : Knows(s)' =>
                \/ Knows(s) /\ notify_port'[s] = notify_port[s]
                \/ at[s] \notin {None, epoch}
                \/ Answered(s) /\ notify_port'[s] = reply[s]
           /\ \A s \in Sub : Answered(s)' => Answered(s)
           /\ \A p \in Pub : Worthy(p)' => Worthy(p)
           /\ \A d \in Client : Stranger(d) => Stranger(d)'
           /\ \A o \in Sub : joined[o] = epoch /\ pc[o] \in {"leaving", "gone", "killed"} =>
                joined'[o] = epoch /\ pc'[o] \in {"leaving", "gone", "killed"}
           /\ \A d \in Client : Stuck(d) => Stuck(d)'
<1> USE DEF Shape, SwitchTypeOK, ClientInv, Client, Served, Answered, Holder, PortOf,
            Knows, Worthy, Stranger, Stuck, brokerVars
<1>1. CASE Resolve(c)
  BY <1>1 DEF Resolve, vars, wireVars, clientVars
<1>2. CASE WatchFires(c)
  BY <1>2, SwitchoverAssumption, ClientAssumption DEF WatchFires, wireVars
<1>3. CASE WatchEnds(c)
  BY <1>3 DEF WatchEnds, wireVars, switchVars
<1>4. CASE RegisterAgain(c)
  BY <1>4 DEF RegisterAgain, Register, switchVars
<1>5. CASE AskNobody(c)
  BY <1>5 DEF AskNobody, wireVars, switchVars
<1>6. CASE LeaveUnregistered(c)
  BY <1>6, SwitchoverAssumption DEF LeaveUnregistered, switchVars
<1>7. CASE Joins(c)
  BY <1>7, ClientAssumption DEF Joins, PubConfirmed, SubConfirmed
<1>8. CASE c \in Sub /\ DeliverHere(c)
  BY <1>8 DEF DeliverHere, Deliver, clientVars, switchVars
<1>9. CASE Left(c) /\ UNCHANGED switchVars
  BY <1>9 DEF Left, switchVars
<1>10. CASE Kill(c) /\ UNCHANGED switchVars
  BY <1>10 DEF Kill, wireVars, switchVars
<1>11. CASE at[c] = epoch /\ Leave(c) /\ UNCHANGED switchVars
  BY <1>11, ClientAssumption DEF Leave, switchVars
<1>12. CASE c \in Sub /\ ReadNotification(c) /\ UNCHANGED switchVars
  BY <1>12 DEF ReadNotification, switchVars
<1> QED
  BY <1>1, <1>2, <1>3, <1>4, <1>5, <1>6, <1>7, <1>8, <1>9, <1>10, <1>11, <1>12
     DEF ClientStep

-----------------------------------------------------------------------------
(* The directory of subscribers.                                           *)

LEMMA StrangersStay ==
    ASSUME Shape, [SwitchNext]_allVars, epoch' = epoch
    PROVE  /\ \A c \in Client : Stranger(c) => Stranger(c)'
           /\ \A s \in Sub : GoneOther(s) => GoneOther(s)'
           /\ Impostor => Impostor'
           /\ NoStranger' => NoStranger /\ ~Impostor
<1>1. /\ \A c \in Client : Stranger(c) => Stranger(c)'
      /\ \A o \in Sub : joined[o] = epoch /\ pc[o] \in {"leaving", "gone", "killed"} =>
           joined'[o] = epoch /\ pc'[o] \in {"leaving", "gone", "killed"}
  <2>1. CASE UNCHANGED allVars
    BY <2>1 DEF Stranger, allVars, vars, clientVars, switchVars
  <2>2. CASE BrokerGoesOn
    <3>1. UNCHANGED <<clientVars, switchVars>>
      BY <2>2 DEF BrokerGoesOn, RegisterPub, FinishPub, DisconnectPub, NotifyNext,
                  NotifyAcked, RegisterSub, AllocatePort, DisconnectSub
    <3> QED
      BY <3>1 DEF Stranger, clientVars, switchVars
  <2>3. CASE \E c \in Client : ClientStep(c)
    BY <2>3, ClientStepIs
  <2>4. ~Takeover
    BY DEF Takeover, Shape, SwitchTypeOK
  <2> QED
    BY <2>1, <2>2, <2>3, <2>4, StepIs
<1>2. \A s \in Sub : GoneOther(s) => GoneOther(s)'
  BY <1>1 DEF GoneOther
<1> QED
  BY <1>1, <1>2 DEF Impostor, NoStranger, Client

LEMMA RelyingFinite ==
    ASSUME NEW t, NEW h
    PROVE  IsFiniteSet(Relying(t, h)) /\ Cardinality(Relying(t, h)) \in Nat
<1>1. Relying(t, h) \subseteq Sub
  BY DEF Relying
<1> QED
  BY <1>1, ClientAssumption, FS_Subset, FS_CardinalityType

LEMMA NobodyJoins ==
    ASSUME Shape, Impostor => Impostor', CountInv,
           \A s \in Sub : Relies(s)' => Relies(s), UNCHANGED subscribers
    PROVE  CountInv'
<1> SUFFICES ASSUME ~Impostor', NEW t \in Topic, NEW h \in Host
             PROVE  Cardinality(Relying(t, h)') <= subscribers'[t][h]
  BY DEF CountInv
<1>1. Relying(t, h)' \subseteq Relying(t, h)
  BY DEF Relying
<1>2. /\ Cardinality(Relying(t, h)') <= Cardinality(Relying(t, h))
      /\ Cardinality(Relying(t, h)') \in Nat
  BY <1>1, RelyingFinite, FS_Subset, FS_CardinalityType
<1>3. Cardinality(Relying(t, h)) <= subscribers[t][h] /\ subscribers[t][h] \in Nat
  BY DEF CountInv, Shape, SwitchTypeOK
<1> QED
  BY <1>2, <1>3, RelyingFinite

LEMMA CountRegister ==
    ASSUME Shape, Impostor => Impostor', CountInv,
           NEW s \in Sub, RegisterSub(s), UNCHANGED switchVars
    PROVE  CountInv'
<1> SUFFICES ASSUME ~Impostor', NEW t \in Topic, NEW h \in Host
             PROVE  Cardinality(Relying(t, h)') <= subscribers'[t][h]
  BY DEF CountInv
<1> DEFINE new == IF t \in SubTopics[s] /\ h = HostOf[s] THEN {s} ELSE {}
<1>1. Relying(t, h)' \subseteq Relying(t, h) \cup new
  <2>1. \A o \in Sub \ {s} : Relies(o)' => Relies(o)
    BY DEF RegisterSub, Relies, Served, Answered, Holder, Shape, SwitchTypeOK,
           Received, clientVars, switchVars, Client
  <2> QED
    BY <2>1 DEF Relying
<1>2. subscribers'[t][h] = subscribers[t][h] + Cardinality(new)
  <2>1. /\ subscribers \in [Topic -> [Host -> Nat]] /\ HostOf[s] \in Host
        /\ subscribers' = AddUnder(subscribers, SubTopics[s], HostOf[s])
    BY TopicAssumption DEF Shape, SwitchTypeOK, RegisterSub
  <2>2. subscribers'[t][h] = IF t \in SubTopics[s] /\ h = HostOf[s]
                              THEN subscribers[t][h] + 1 ELSE subscribers[t][h]
    BY <2>1 DEF AddUnder, Add
  <2>3. subscribers[t][h] \in Nat
    BY <2>1
  <2>4. CASE t \in SubTopics[s] /\ h = HostOf[s]
    <3>1. new = {s}
      BY <2>4
    <3>2. Cardinality(new) = 1
      BY <3>1, FS_Singleton
    <3> HIDE DEF new
    <3> QED
      BY <2>2, <2>4, <3>2
  <2>5. CASE ~(t \in SubTopics[s] /\ h = HostOf[s])
    <3>1. new = {}
      BY <2>5
    <3>2. Cardinality(new) = 0
      BY <3>1, FS_EmptySet
    <3> HIDE DEF new
    <3> QED
      BY <2>2, <2>3, <2>5, <3>2
  <2> QED
    BY <2>4, <2>5
<1>3. /\ Cardinality(Relying(t, h)) <= subscribers[t][h] /\ subscribers[t][h] \in Nat
      /\ Cardinality(Relying(t, h)) \in Nat
  BY RelyingFinite DEF CountInv, Shape, SwitchTypeOK
<1>4. IsFiniteSet(new) /\ Cardinality(new) \in Nat
  <2>1. IsFiniteSet({s}) /\ IsFiniteSet({})
    BY FS_Singleton, FS_EmptySet
  <2>2. IsFiniteSet(new)
    BY <2>1
  <2> QED
    BY <2>2, FS_CardinalityType
<1> HIDE DEF new
<1>5. /\ Cardinality(Relying(t, h)') <= Cardinality(Relying(t, h) \cup new)
      /\ Cardinality(Relying(t, h) \cup new) <= Cardinality(Relying(t, h)) + Cardinality(new)
      /\ Cardinality(Relying(t, h)') \in Nat /\ Cardinality(Relying(t, h) \cup new) \in Nat
  <2>1. IsFiniteSet(Relying(t, h) \cup new)
    BY <1>4, RelyingFinite, FS_Union
  <2>2. Cardinality(Relying(t, h) \cup new) =
          Cardinality(Relying(t, h)) + Cardinality(new) - Cardinality(Relying(t, h) \cap new)
    BY <1>4, RelyingFinite, FS_Union
  <2>3. Cardinality(Relying(t, h) \cap new) \in Nat
    BY <1>4, FS_Subset, FS_CardinalityType, FS_Intersection, RelyingFinite
  <2>4. Cardinality(Relying(t, h) \cup new) \in Nat
    BY <2>1, FS_CardinalityType
  <2>5. /\ Cardinality(Relying(t, h)') <= Cardinality(Relying(t, h) \cup new)
        /\ Cardinality(Relying(t, h)') \in Nat
    BY <1>1, <2>1, FS_Subset, FS_CardinalityType
  <2> QED
    BY <1>3, <1>4, <2>2, <2>3, <2>4, <2>5
<1> QED
  BY <1>2, <1>3, <1>4, <1>5

\* Whoever removes an entry has one of its own, or is an impostor.
LEMMA CountDisconnect ==
    ASSUME Shape, Impostor => Impostor', CountInv,
           NEW s \in Sub, DisconnectSub(s), UNCHANGED switchVars
    PROVE  CountInv'
<1> SUFFICES ASSUME ~Impostor', NEW t \in Topic, NEW h \in Host
             PROVE  Cardinality(Relying(t, h)') <= subscribers'[t][h]
  BY DEF CountInv
<1>0. /\ request[s] = "disconnect" /\ handling = None /\ Received(s)
      /\ UNCHANGED <<handling, clientVars>>
  BY DEF DisconnectSub, SubReady
<1>1. PICK done \in SUBSET SubTopics[s] :
         /\ done # {} => Open(s)
         /\ \A u \in done : CanDrop(subscribers[u], HostOf[s])
         /\ subscribers' = DropUnder(subscribers, done, HostOf[s])
  BY DisconnectSubIs
<1>2. /\ used_ports' = used_ports \ {notify_port[s]}
      /\ notify_sub_sockets' = IF notify_port[s] \in used_ports
                               THEN Overwrite(s, None) ELSE notify_sub_sockets
      /\ \/ Answer(s, "success") /\ UNCHANGED sub_reg_owed
         \/ sub_reg_owed' = TRUE /\ UNCHANGED reply
  BY DisconnectSubIs
<1>3. /\ Cardinality(Relying(t, h)) <= subscribers[t][h] /\ subscribers[t][h] \in Nat
      /\ subscribers \in [Topic -> [Host -> Nat]] /\ HostOf[s] \in Host
  BY TopicAssumption DEF CountInv, Shape, SwitchTypeOK
<1>4. pc[s] \in {"leaving", "killed"} /\ at[s] = epoch
  BY <1>0 DEF Shape, ClientInv, Client
<1>5. \A o \in Sub : Relies(o)' => Relies(o)
  <2>1. ASSUME NEW o \in Sub, o # s, Relies(o)' PROVE Relies(o)
    <3>1. reply'[o] = reply[o] /\ request'[o] = request[o]
      BY <1>0, <1>2, <2>1 DEF Answer, Received, Shape, SwitchTypeOK, Client
    <3>2. notify_sub_sockets'[o] # None => notify_sub_sockets[o] # None
      BY <1>2, OverwriteIs
    <3> QED
      BY <1>0, <2>1, <3>1, <3>2
         DEF Relies, Served, Answered, Holder, clientVars, switchVars
  <2>2. Relies(s)' => Relies(s)
    <3>1. request'[s] = "none"
      BY <1>0 DEF Received, Shape, SwitchTypeOK, Client
    <3>2. notify_sub_sockets'[s] # None => notify_sub_sockets[s] # None
      BY <1>2, OverwriteIs
    <3> QED
      BY <1>0, <1>4, <3>1, <3>2
         DEF Relies, Served, Answered, Holder, clientVars, switchVars
  <2> QED
    BY <2>1, <2>2
<1>6. Relying(t, h)' \subseteq Relying(t, h)
  BY <1>5 DEF Relying
<1>7. /\ Cardinality(Relying(t, h)') <= Cardinality(Relying(t, h))
      /\ Cardinality(Relying(t, h)') \in Nat /\ Cardinality(Relying(t, h)) \in Nat
  BY <1>6, RelyingFinite, FS_Subset, FS_CardinalityType
<1>8. CASE t \notin done
  <2>1. subscribers'[t] = subscribers[t]
    BY <1>1, <1>8 DEF DropUnder
  <2> QED
    BY <1>3, <1>7, <2>1
<1>9. CASE t \in done
  <2>1. Open(s) /\ t \in SubTopics[s]
    BY <1>1, <1>9
  <2>2. Relies(s) /\ ~Relies(s)'
    <3>1. CASE Stranger(s)
      <4>1. \A o \in Sub : IdOf[o] = IdOf[s] => o = s
        <5>1. Stranger(s)'
          BY <1>0, <3>1 DEF Stranger, clientVars, switchVars
        <5> QED
          BY <5>1 DEF Impostor
      <4> QED
        BY <2>1, <4>1, <1>0, <1>2, <1>4, OverwriteIs, ClientAssumption
           DEF Open, HasSocket, Relies, Served, Answered, Holder, Shape, SwitchTypeOK,
               Received, clientVars, switchVars, Client
    <3>2. CASE ~Stranger(s)
      BY <2>1, <3>2, <1>0, <1>2, <1>4, OverwriteIs, ClientAssumption
         DEF Open, Relies, Served, Answered, Holder, Shape, SwitchTypeOK,
             Received, clientVars, switchVars, Client, Stranger
    <3> QED
      BY <3>1, <3>2
  <2>3. CASE h = HostOf[s]
    <3>1. s \in Relying(t, h) /\ s \notin Relying(t, h)'
      BY <2>1, <2>2, <2>3 DEF Relying
    <3>2. /\ Relying(t, h)' \subseteq Relying(t, h) \ {s}
          /\ Cardinality(Relying(t, h) \ {s}) = Cardinality(Relying(t, h)) - 1
          /\ IsFiniteSet(Relying(t, h) \ {s})
      BY <1>6, <3>1, RelyingFinite, FS_RemoveElement
    <3>3. Cardinality(Relying(t, h)') <= Cardinality(Relying(t, h)) - 1
      BY <3>2, FS_Subset
    <3>4. subscribers[t][h] > 0
      BY <1>3, <1>7, <3>3
    <3>5. subscribers'[t][h] = subscribers[t][h] - 1
      BY <1>1, <1>3, <1>9, <2>3, <3>4, DropIs DEF DropUnder
    <3> QED
      BY <1>3, <1>7, <3>3, <3>5
  <2>4. CASE h # HostOf[s]
    <3>1. s \in Relying(t, HostOf[s])
      BY <2>1, <2>2 DEF Relying
    <3>2. subscribers[t][HostOf[s]] > 0
      <4>1. /\ Cardinality(Relying(t, HostOf[s])) <= subscribers[t][HostOf[s]]
            /\ subscribers[t][HostOf[s]] \in Nat
        BY <1>3 DEF CountInv
      <4>2. Cardinality(Relying(t, HostOf[s])) \in Nat /\ Cardinality(Relying(t, HostOf[s])) # 0
        BY <3>1, RelyingFinite, FS_EmptySet
      <4> QED
        BY <4>1, <4>2
    <3>3. subscribers'[t][h] = subscribers[t][h]
      BY <1>1, <1>3, <1>9, <2>4, <3>2, DropIs DEF DropUnder
    <3> QED
      BY <1>3, <1>7, <3>3
  <2> QED
    BY <2>3, <2>4
<1> QED
  BY <1>8, <1>9

\* The other steps of the broker, for which the subscribers' directory matters
\* as little as it does for clients.
LEMMA NobodyRelies ==
    ASSUME Shape, NEW c \in Client, UNCHANGED switchVars,
           \/ c \in Pub /\ (RegisterPub(c) \/ FinishPub(c) \/ DisconnectPub(c))
           \/ c \in Sub /\ (NotifyNext(c) \/ NotifyAcked(c) \/ AllocatePort(c))
    PROVE  UNCHANGED subscribers /\ \A o \in Sub : Relies(o)' => Relies(o)
<1> USE DEF Shape, SwitchTypeOK, Relies, Served, Answered, Holder, clientVars, switchVars,
            Client
<1>1. CASE c \in Pub /\ RegisterPub(c)
  BY <1>1, ClientAssumption DEF RegisterPub, Received
<1>2. CASE c \in Pub /\ FinishPub(c)
  BY <1>2, ClientAssumption DEF FinishPub, Answer
<1>3. CASE c \in Pub /\ DisconnectPub(c)
  BY <1>3, ClientAssumption DEF DisconnectPub, Answer, Received
<1>4. CASE c \in Sub /\ NotifyNext(c)
  BY <1>4 DEF NotifyNext
<1>5. CASE c \in Sub /\ NotifyAcked(c)
  BY <1>5, ClientAssumption DEF NotifyAcked, BrokerPhase
<1>6. CASE c \in Sub /\ AllocatePort(c)
  <2>1. /\ handling = c /\ handling' \in {c, None}
        /\ UNCHANGED <<subscribers, request, clientVars>>
        /\ \A o \in Sub : o # c => reply'[o] = reply[o]
        /\ \A o \in Sub : o # c => notify_sub_sockets'[o] \in {None, notify_sub_sockets[o]}
    BY <1>6, AllocatePortIs, OverwriteIs DEF AllocatePort, Answer
  <2> QED
    BY <2>1, ClientAssumption
<1> QED
  BY <1>1, <1>2, <1>3, <1>4, <1>5, <1>6

LEMMA CountStep == Shape /\ CountInv /\ [SwitchNext]_allVars => CountInv'
<1> SUFFICES ASSUME Shape, CountInv, [SwitchNext]_allVars PROVE CountInv'
  OBVIOUS
<1>1. CASE UNCHANGED allVars
  <2>1. /\ Impostor' = Impostor /\ UNCHANGED subscribers
        /\ \A s \in Sub : Relies(s)' = Relies(s)
    BY <1>1 DEF Impostor, Stranger, Relies, Served, Answered, Holder, allVars, vars,
                brokerVars, wireVars, clientVars, switchVars
  <2> QED
    BY <2>1, NobodyJoins
<1>2. CASE Takeover
  <2>1. \A s \in Sub : ~Relies(s)'
    BY <1>2, SwitchoverAssumption, ClientAssumption
       DEF Takeover, Relies, Served, Answered, Holder, Shape, SwitchTypeOK, MaybeEpoch,
           Client, clientVars
  <2>2. \A t \in Topic, h \in Host : Relying(t, h)' = {} /\ subscribers'[t][h] = 0
    BY <1>2, <2>1 DEF Takeover, Relying
  <2> QED
    BY <2>2, FS_EmptySet DEF CountInv
<1>3. CASE BrokerGoesOn
  <2>0. UNCHANGED switchVars /\ (Impostor => Impostor')
    <3>1. UNCHANGED switchVars
      BY <1>3 DEF BrokerGoesOn
    <3> QED
      BY <3>1, StrangersStay DEF switchVars
  <2>1. ASSUME NEW p \in Pub, RegisterPub(p) \/ FinishPub(p) \/ DisconnectPub(p)
        PROVE  CountInv'
    BY <2>0, <2>1, NobodyRelies, NobodyJoins DEF Client
  <2>2. ASSUME NEW s \in Sub, NotifyNext(s) \/ NotifyAcked(s) \/ AllocatePort(s)
        PROVE  CountInv'
    BY <2>0, <2>2, NobodyRelies, NobodyJoins DEF Client
  <2> QED
    BY <1>3, <2>0, <2>1, <2>2, CountRegister, CountDisconnect DEF BrokerGoesOn
<1>4. CASE \E c \in Client : ClientStep(c)
  <2>1. /\ UNCHANGED <<brokerVars, epoch>>
        /\ \A s \in Sub : Served(s)' => Served(s)
    BY <1>4, ClientStepIs
  <2>2. UNCHANGED subscribers /\ \A s \in Sub : Relies(s)' => Relies(s)
    BY <2>1 DEF Relies, brokerVars
  <2> QED
    BY <2>1, <2>2, StrangersStay, NobodyJoins
<1> QED
  BY <1>1, <1>2, <1>3, <1>4, StepIs

-----------------------------------------------------------------------------
(* The ports.                                                              *)

LEMMA PortsElse ==
    ASSUME Shape, PortInv, Impostor => Impostor',
           UNCHANGED <<notify_sub_sockets, used_ports, sub_reg_owed>>,
           \A s \in Sub : /\ Served(s)' => Served(s) /\ PortOf(s)' = PortOf(s)
                          /\ Knows(s)' => \/ Knows(s) /\ notify_port'[s] = notify_port[s]
                                          \/ at[s] \notin {None, epoch}
                                          \/ Answered(s) /\ notify_port'[s] = reply[s]
    PROVE  PortInv'
<1>1. SocketInv'
  <2> SUFFICES ASSUME NEW s \in Sub
               PROVE  /\ Knows(s)' => notify_sub_sockets'[s] \in {None, notify_port'[s]}
                      /\ Served(s)' => notify_sub_sockets'[s] \in {None, PortOf(s)'}
    BY DEF SocketInv
  <2>1. Served(s)' => notify_sub_sockets'[s] \in {None, PortOf(s)'}
    BY DEF PortInv, SocketInv
  <2>2. ASSUME Knows(s)' PROVE notify_sub_sockets'[s] \in {None, notify_port'[s]}
    <3>1. CASE Knows(s) /\ notify_port'[s] = notify_port[s]
      BY <3>1 DEF PortInv, SocketInv
    <3>2. CASE at[s] \notin {None, epoch}
      BY <3>2 DEF Shape, BrokerPhase
    <3>3. CASE Answered(s) /\ notify_port'[s] = reply[s]
      BY <3>3 DEF PortInv, SocketInv, Served, Answered, PortOf
    <3> QED
      BY <2>2, <3>1, <3>2, <3>3
  <2> QED
    BY <2>1, <2>2
<1>2. DistinctInv'
  BY DEF PortInv, DistinctInv
<1>3. UsedInv'
  BY DEF PortInv, UsedInv
<1> QED
  BY <1>1, <1>2, <1>3 DEF PortInv

\* A port that is drawn is nobody's, as long as used_ports can be relied on.
LEMMA PortsAllocate ==
    ASSUME Shape, PortInv, Impostor => Impostor',
           NEW s \in Sub, AllocatePort(s), UNCHANGED switchVars
    PROVE  PortInv'
<1>1. PICK port \in ClearPorts, v \in PortRange \cup {pub_reg_port} :
             /\ v # None /\ notify_sub_sockets' = Overwrite(s, v)
             /\ used_ports' = used_ports \cup {port}
             /\ \/ /\ v = port /\ port \notin TakenPorts /\ ~BoundByOther(s, port)
                   /\ Answer(s, port) /\ awaiting' = s /\ wire' = "sending"
                   /\ notification' = {a \in SubTopics[s] \X Pub :
                                          publishers[a[1]][a[2]] > 0}
                   /\ UNCHANGED <<handling, sub_reg_owed>>
                \/ /\ v \in {port, pub_reg_port}
                   /\ port \in TakenPorts \/ BoundByOther(s, port)
                   /\ handling' = None /\ sub_reg_owed' = TRUE
                   /\ UNCHANGED <<reply, notification, awaiting, wire>>
  BY AllocatePortIs
<1>2. /\ handling = s /\ awaiting = None /\ ~sub_reg_owed
      /\ pc[s] \in {"registering", "killed"} /\ request[s] = "none" /\ reply[s] = None
      /\ joined[s] = None \/ pc[s] = "killed"
      /\ UNCHANGED <<request, clientVars, switchVars>>
  BY DEF AllocatePort, Shape, SwitchTypeOK, BrokerPhase, ClientInv, Client
<1>3. port \in Port /\ port # None /\ port \notin used_ports
  BY ClearPortsAre DEF Shape, ClearPorts
<1>4. /\ notify_sub_sockets'[s] = v
      /\ \A o \in Sub \ {s} : notify_sub_sockets'[o] \in {None, notify_sub_sockets[o]}
  BY <1>1, OverwriteIs
<1>5. /\ \A o \in Sub \ {s} : Served(o)' = Served(o) /\ PortOf(o)' = PortOf(o)
      /\ \A o \in Sub : Knows(o)' = Knows(o)
  <2>1. \A o \in Sub \ {s} : reply'[o] = reply[o]
    BY <1>1 DEF Answer, Shape, SwitchTypeOK, Client
  <2> QED
    BY <1>2, <2>1 DEF Served, Answered, Holder, PortOf, Knows, clientVars, switchVars
<1>6. ~Served(s) /\ ~Knows(s) /\ (Served(s)' => v = port /\ PortOf(s)' = port)
  BY <1>1, <1>2
     DEF Served, Answered, Holder, PortOf, Knows, Answer, clientVars, switchVars, Shape,
         SwitchTypeOK, Client
<1>7. SocketInv'
  BY <1>2, <1>4, <1>5, <1>6 DEF PortInv, SocketInv, clientVars
<1>8. ASSUME ~Impostor'
      PROVE  \A o \in Sub : /\ Served(o) => PortOf(o) \in used_ports
                            /\ notify_sub_sockets[o] # None =>
                                 notify_sub_sockets[o] \in used_ports
  BY <1>2, <1>8 DEF PortInv, UsedInv
<1>9. \A o \in Sub : Served(o) => PortOf(o) \in Port
  BY DEF Served, Answered, Holder, PortOf, Shape, SwitchTypeOK, ClientInv, Client
<1>10. DistinctInv'
  <2> SUFFICES ASSUME ~Impostor', NEW x \in Sub, NEW o \in Sub, x # o, Served(x)'
               PROVE  /\ notify_sub_sockets'[o] # PortOf(x)'
                      /\ Served(o)' => PortOf(o)' # PortOf(x)'
    BY DEF DistinctInv
  <2>1. CASE x = s
    BY <1>3, <1>4, <1>5, <1>6, <1>8, <2>1
  <2>2. CASE x # s /\ o = s
    <3>1. Served(x) /\ PortOf(x)' = PortOf(x) /\ PortOf(x) \in used_ports
      BY <1>5, <1>8, <2>2
    <3>2. PortOf(x) \in Port
      BY <1>9, <3>1
    <3>3. v # PortOf(x)
      BY <1>1, <1>3, <3>1, <3>2 DEF Port, RegPorts
    <3> QED
      BY <1>3, <1>4, <1>6, <2>2, <3>1, <3>3
  <2>3. CASE x # s /\ o # s
    <3>1. Served(x) /\ PortOf(x)' = PortOf(x) /\ PortOf(x) # None
      BY <1>5, <1>9, <2>3, PortAssumption DEF Port
    <3> QED
      BY <1>4, <1>5, <2>3, <3>1 DEF PortInv, DistinctInv
  <2> QED
    BY <2>1, <2>2, <2>3
<1>11. UsedInv'
  <2> SUFFICES ASSUME ~Impostor', ~sub_reg_owed', NEW x \in Sub
               PROVE  /\ Served(x)' => PortOf(x)' \in used_ports'
                      /\ notify_sub_sockets'[x] # None =>
                           /\ notify_sub_sockets'[x] \in used_ports'
                           /\ \A o \in Sub \ {x} :
                                notify_sub_sockets'[o] # notify_sub_sockets'[x]
    BY DEF UsedInv
  <2>1. v = port /\ used_ports' = used_ports \cup {port}
    BY <1>1
  <2>2. CASE x = s
    BY <1>3, <1>4, <1>6, <1>8, <2>1, <2>2
  <2>3. CASE x # s
    BY <1>2, <1>3, <1>4, <1>5, <1>8, <2>1, <2>3 DEF PortInv, UsedInv
  <2> QED
    BY <2>2, <2>3
<1> QED
  BY <1>7, <1>10, <1>11 DEF PortInv

\* Whoever leaves gives back its own port, or the broker stops using ports.
LEMMA PortsDisconnect ==
    ASSUME Shape, PortInv, Impostor => Impostor',
           NEW s \in Sub, DisconnectSub(s), UNCHANGED switchVars
    PROVE  PortInv'
<1>1. /\ ~sub_reg_owed /\ used_ports' = used_ports \ {notify_port[s]}
      /\ notify_sub_sockets' = IF notify_port[s] \in used_ports
                               THEN Overwrite(s, None) ELSE notify_sub_sockets
      /\ \/ Open(s) /\ Answer(s, "success") /\ UNCHANGED sub_reg_owed
         \/ sub_reg_owed' = TRUE /\ UNCHANGED reply
  BY DisconnectSubIs
<1>2. /\ Received(s) /\ request[s] = "disconnect"
      /\ pc[s] \in {"leaving", "killed"} /\ at[s] = epoch
      /\ UNCHANGED <<clientVars, switchVars>>
  BY DEF DisconnectSub, Shape, ClientInv, Client
<1>3. \A o \in Sub : notify_sub_sockets'[o] \in {None, notify_sub_sockets[o]}
  BY <1>1, OverwriteIs
<1>4. /\ \A o \in Sub \ {s} : /\ Served(o)' = Served(o) /\ PortOf(o)' = PortOf(o)
                              /\ Knows(o)' = Knows(o)
      /\ ~Served(s)' /\ ~Knows(s)'
  <2>1. /\ \A o \in Sub \ {s} : reply'[o] = reply[o] /\ request'[o] = request[o]
        /\ request'[s] = "none"
    BY <1>1, <1>2 DEF Answer, Received, Shape, SwitchTypeOK, Client
  <2> QED
    BY <1>2, <2>1 DEF Served, Answered, Holder, PortOf, Knows, clientVars, switchVars
<1>5. SocketInv'
  BY <1>2, <1>3, <1>4 DEF PortInv, SocketInv, clientVars
<1>6. \A o \in Sub : Served(o) => PortOf(o) # None
  BY PortAssumption DEF Served, Answered, Holder, PortOf, Shape, SwitchTypeOK, ClientInv,
         Client, Port
<1>7. DistinctInv'
  BY <1>3, <1>4, <1>6 DEF PortInv, DistinctInv
<1>8. UsedInv'
  <2> SUFFICES ASSUME ~Impostor', ~sub_reg_owed', NEW x \in Sub
               PROVE  /\ Served(x)' => PortOf(x)' \in used_ports'
                      /\ notify_sub_sockets'[x] # None =>
                           /\ notify_sub_sockets'[x] \in used_ports'
                           /\ \A o \in Sub \ {x} :
                                notify_sub_sockets'[o] # notify_sub_sockets'[x]
    BY DEF UsedInv
  <2>1. ~Impostor /\ Open(s) /\ notify_sub_sockets'[s] = None
    BY <1>1, OverwriteIs DEF Open
  <2>2. /\ Served(x) => PortOf(x) \in used_ports
        /\ notify_sub_sockets[x] # None =>
             /\ notify_sub_sockets[x] \in used_ports
             /\ \A o \in Sub \ {x} : notify_sub_sockets[o] # notify_sub_sockets[x]
    BY <1>1, <2>1 DEF PortInv, UsedInv
  <2>3. x # s => /\ Served(x) => PortOf(x) # notify_port[s]
                 /\ notify_sub_sockets[x] # None => notify_sub_sockets[x] # notify_port[s]
    <3>1. CASE Stranger(s)
      <4>1. notify_sub_sockets[s] # None
        BY <2>1, <3>1 DEF Open, HasSocket, Impostor
      <4>2. notify_sub_sockets[s] = notify_port[s]
        BY <1>2, <4>1 DEF PortInv, SocketInv, Knows
      <4> QED
        BY <2>1, <2>2, <4>1, <4>2 DEF PortInv, DistinctInv
    <3>2. CASE ~Stranger(s)
      <4>1. Served(s) /\ PortOf(s) = notify_port[s]
        BY <1>2, <3>2 DEF Stranger, Served, Holder, PortOf
      <4> QED
        BY <2>1, <4>1 DEF PortInv, DistinctInv
    <3> QED
      BY <3>1, <3>2
  <2> QED
    BY <1>1, <1>3, <1>4, <2>1, <2>2, <2>3
<1> QED
  BY <1>5, <1>7, <1>8 DEF PortInv

\* The broker's steps that leave sockets and ports alone.
QuietStep(c) ==
    \/ c \in Pub /\ (RegisterPub(c) \/ FinishPub(c) \/ DisconnectPub(c))
    \/ c \in Sub /\ (NotifyNext(c) \/ NotifyAcked(c) \/ RegisterSub(c))

LEMMA QuietBroker ==
    ASSUME Shape, NEW c \in Client, QuietStep(c), UNCHANGED switchVars
    PROVE  /\ UNCHANGED <<notify_sub_sockets, used_ports, sub_reg_owed, clientVars>>
           /\ \A s \in Sub : reply'[s] = reply[s]
           /\ \A s \in Sub : Served(s)' => Served(s) /\ PortOf(s)' = PortOf(s)
           /\ \A s \in Sub : Knows(s)' => Knows(s)
           /\ \A s \in Sub : Stuck(s) => Stuck(s)'
<1>1. UNCHANGED <<notify_sub_sockets, used_ports, sub_reg_owed, clientVars>>
  BY DEF QuietStep, RegisterPub, FinishPub, DisconnectPub, NotifyNext, NotifyAcked,
         RegisterSub
<1>2. \A s \in Sub : reply'[s] = reply[s] /\ request'[s] \in {request[s], "none"}
  BY ClientAssumption
     DEF QuietStep, RegisterPub, FinishPub, DisconnectPub, NotifyNext, NotifyAcked,
         RegisterSub, Answer, Received, Shape, SwitchTypeOK, Client
<1> QED
  BY <1>1, <1>2
     DEF Served, Answered, Holder, PortOf, Knows, Stuck, clientVars, switchVars

LEMMA PortStep == Shape /\ PortInv /\ [SwitchNext]_allVars => PortInv'
<1> SUFFICES ASSUME Shape, PortInv, [SwitchNext]_allVars PROVE PortInv'
  OBVIOUS
<1>1. CASE UNCHANGED allVars
  <2>1. Impostor' = Impostor
    BY <1>1 DEF Impostor, Stranger, allVars, vars, clientVars, switchVars
  <2> QED
    BY <1>1, <2>1, PortsElse
       DEF allVars, vars, brokerVars, wireVars, clientVars, switchVars, Served, Answered,
           Holder, PortOf, Knows
<1>2. CASE Takeover
  <2>1. \A s \in Sub : ~Served(s)' /\ notify_sub_sockets'[s] = None
    BY <1>2, SwitchoverAssumption
       DEF Takeover, Shape, SwitchTypeOK, MaybeEpoch, Client, clientVars, Served, Answered,
           Holder
  <2> QED
    BY <2>1 DEF PortInv, SocketInv, DistinctInv, UsedInv
<1>3. CASE BrokerGoesOn
  <2>0. UNCHANGED switchVars /\ (Impostor => Impostor')
    <3>1. UNCHANGED switchVars
      BY <1>3 DEF BrokerGoesOn
    <3> QED
      BY <3>1, StrangersStay DEF switchVars
  <2>1. ASSUME NEW c \in Client, QuietStep(c) PROVE PortInv'
    <3>1. /\ UNCHANGED <<notify_sub_sockets, used_ports, sub_reg_owed, clientVars>>
          /\ \A s \in Sub : /\ Served(s)' => Served(s) /\ PortOf(s)' = PortOf(s)
                            /\ Knows(s)' => Knows(s)
      BY <2>0, <2>1, QuietBroker
    <3>2. notify_port' = notify_port
      BY <3>1 DEF clientVars
    <3> QED
      BY <2>0, <3>1, <3>2, PortsElse
  <2> QED
    BY <1>3, <2>0, <2>1, PortsAllocate, PortsDisconnect
       DEF BrokerGoesOn, QuietStep, Client
<1>4. CASE \E c \in Client : ClientStep(c)
  BY <1>4, ClientStepIs, StrangersStay, PortsElse DEF brokerVars
<1> QED
  BY <1>1, <1>2, <1>3, <1>4, StepIs

-----------------------------------------------------------------------------
(* Departures that fail.                                                   *)

LEMMA BlockedElse ==
    ASSUME BlockedInv, NoStranger' => NoStranger,
           UNCHANGED <<notify_sub_sockets, sub_reg_owed>>,
           \A s \in Sub : /\ Served(s)' => Served(s)
                          /\ GoneOther(s) => GoneOther(s)'
                          /\ Stuck(s) => Stuck(s)'
    PROVE  BlockedInv'
<1>1. \A s \in Sub : HasSocket(s) => HasSocket(s)'
  BY DEF HasSocket
<1> QED
  BY <1>1 DEF BlockedInv

\* Where ports can be bound, a port that is drawn can be.
LEMMA BlockedAllocate ==
    ASSUME Shape, PortInv, BlockedInv, NoStranger' => NoStranger /\ ~Impostor,
           \A o \in Sub : GoneOther(o) => GoneOther(o)',
           NEW s \in Sub, AllocatePort(s), UNCHANGED switchVars
    PROVE  BlockedInv'
<1> SUFFICES ASSUME NoStranger'
             PROVE  /\ \A o \in Sub : Served(o)' => HasSocket(o)' \/ GoneOther(o)'
                    /\ ~(sub_reg_owed' /\ TakenPorts = {})
  BY DEF BlockedInv
<1>1. PICK port \in ClearPorts, v \in PortRange \cup {pub_reg_port} :
             /\ v # None /\ notify_sub_sockets' = Overwrite(s, v)
             /\ used_ports' = used_ports \cup {port}
             /\ \/ /\ v = port /\ port \notin TakenPorts /\ ~BoundByOther(s, port)
                   /\ Answer(s, port) /\ awaiting' = s /\ wire' = "sending"
                   /\ notification' = {a \in SubTopics[s] \X Pub :
                                          publishers[a[1]][a[2]] > 0}
                   /\ UNCHANGED <<handling, sub_reg_owed>>
                \/ /\ v \in {port, pub_reg_port}
                   /\ port \in TakenPorts \/ BoundByOther(s, port)
                   /\ handling' = None /\ sub_reg_owed' = TRUE
                   /\ UNCHANGED <<reply, notification, awaiting, wire>>
  BY AllocatePortIs
<1>2. /\ handling = s /\ ~sub_reg_owed
      /\ UNCHANGED <<request, clientVars, switchVars>>
  BY DEF AllocatePort, Shape, BrokerPhase
<1>3. port # None /\ port \notin used_ports
  BY ClearPortsAre DEF Shape, ClearPorts
<1>4. ASSUME NEW o \in Sub, Served(o)' PROVE HasSocket(o)' \/ GoneOther(o)'
  <2>1. CASE IdOf[o] = IdOf[s]
    BY <1>1, <2>1, OverwriteIs DEF HasSocket
  <2>2. CASE IdOf[o] # IdOf[s]
    <3>1. reply'[o] = reply[o]
      BY <1>1, <2>2 DEF Answer, Shape, SwitchTypeOK, Client
    <3>2. Served(o)
      BY <1>2, <1>4, <3>1 DEF Served, Answered, Holder, clientVars, switchVars
    <3>3. HasSocket(o) => HasSocket(o)'
      BY <1>1, <2>2, OverwriteIs DEF HasSocket
    <3> QED
      BY <3>2, <3>3 DEF BlockedInv
  <2> QED
    BY <2>1, <2>2
<1>5. ASSUME TakenPorts = {} PROVE ~sub_reg_owed'
  <2>1. ~BoundByOther(s, port)
    BY <1>2, <1>3 DEF BoundByOther, PortInv, UsedInv
  <2> QED
    BY <1>1, <1>2, <1>5, <2>1
<1> QED
  BY <1>4, <1>5

\* A departure fails only after that of another of the same id.
LEMMA BlockedDisconnect ==
    ASSUME Shape, CountInv, PortInv, BlockedInv, NoStranger' => NoStranger /\ ~Impostor,
           \A o \in Sub : GoneOther(o) => GoneOther(o)',
           NEW s \in Sub, DisconnectSub(s), UNCHANGED switchVars
    PROVE  BlockedInv'
<1> SUFFICES ASSUME NoStranger'
             PROVE  /\ \A o \in Sub : Served(o)' => HasSocket(o)' \/ GoneOther(o)'
                    /\ sub_reg_owed' => \E o \in Sub : Stuck(o)' /\ GoneOther(o)'
  BY DEF BlockedInv
<1>1. /\ ~sub_reg_owed
      /\ notify_sub_sockets' = IF notify_port[s] \in used_ports
                               THEN Overwrite(s, None) ELSE notify_sub_sockets
      /\ \/ Open(s) /\ Answer(s, "success") /\ UNCHANGED sub_reg_owed
         \/ sub_reg_owed' = TRUE /\ UNCHANGED reply
      /\ Open(s) /\ (\A t \in SubTopics[s] : subscribers[t][HostOf[s]] > 0) =>
                UNCHANGED sub_reg_owed
  BY DisconnectSubIs
<1>2. /\ Received(s) /\ request[s] = "disconnect"
      /\ pc[s] \in {"leaving", "killed"} /\ at[s] = epoch /\ reply[s] = None
      /\ UNCHANGED <<clientVars, switchVars>>
  BY DEF DisconnectSub, Shape, ClientInv, Client
<1>3. joined[s] = epoch
  BY <1>2 DEF NoStranger, Stranger
<1>4. Served(s) /\ PortOf(s) = notify_port[s]
  BY <1>2, <1>3 DEF Served, Holder, PortOf
<1>5. ASSUME NEW o \in Sub, Served(o)' PROVE HasSocket(o)' \/ GoneOther(o)'
  <2>1. CASE o # s /\ IdOf[o] = IdOf[s]
    BY <1>2, <1>3, <2>1 DEF GoneOther, clientVars, switchVars
  <2>2. CASE o = s
    <3>1. request'[s] = "none"
      BY <1>2 DEF Received, Shape, SwitchTypeOK, Client
    <3> QED
      BY <1>2, <1>5, <2>2, <3>1 DEF Served, Answered, Holder, clientVars, switchVars
  <2>3. CASE IdOf[o] # IdOf[s]
    <3>1. reply'[o] = reply[o] /\ request'[o] = request[o]
      BY <1>1, <1>2, <2>3 DEF Answer, Received, Shape, SwitchTypeOK, Client
    <3>2. Served(o)
      BY <1>2, <1>5, <3>1 DEF Served, Answered, Holder, clientVars, switchVars
    <3>3. HasSocket(o) => HasSocket(o)'
      BY <1>1, <2>3, OverwriteIs DEF HasSocket
    <3> QED
      BY <3>2, <3>3 DEF BlockedInv
  <2> QED
    BY <2>1, <2>2, <2>3
<1>6. ASSUME sub_reg_owed' PROVE \E o \in Sub : Stuck(o)' /\ GoneOther(o)'
  <2>1. Stuck(s)'
    BY <1>1, <1>2, <1>6
       DEF Stuck, Answer, Received, clientVars, Shape, SwitchTypeOK, Client
  <2>2. CASE GoneOther(s)
    BY <2>1, <2>2
  <2>3. CASE ~GoneOther(s)
    <3>1. Open(s)
      BY <1>1, <1>4, <2>3 DEF BlockedInv, PortInv, UsedInv, Open
    <3>2. ASSUME NEW t \in SubTopics[s] PROVE subscribers[t][HostOf[s]] > 0
      <4>1. /\ t \in Topic /\ HostOf[s] \in Host
            /\ s \in Relying(t, HostOf[s])
        BY <1>4, TopicAssumption DEF Relying, Relies
      <4>2. /\ Cardinality(Relying(t, HostOf[s])) \in Nat
            /\ Cardinality(Relying(t, HostOf[s])) # 0
        BY <4>1, RelyingFinite, FS_EmptySet
      <4>3. /\ Cardinality(Relying(t, HostOf[s])) <= subscribers[t][HostOf[s]]
            /\ subscribers[t][HostOf[s]] \in Nat
        BY <4>1 DEF CountInv, Shape, SwitchTypeOK
      <4> QED
        BY <4>2, <4>3
    <3> QED
      BY <1>1, <1>6, <3>1, <3>2
  <2> QED
    BY <2>2, <2>3
<1> QED
  BY <1>5, <1>6

LEMMA BlockedStep ==
    Shape /\ CountInv /\ PortInv /\ BlockedInv /\ [SwitchNext]_allVars => BlockedInv'
<1> SUFFICES ASSUME Shape, CountInv, PortInv, BlockedInv, [SwitchNext]_allVars
             PROVE  BlockedInv'
  OBVIOUS
<1>1. CASE UNCHANGED allVars
  <2>1. NoStranger' = NoStranger
    BY <1>1 DEF NoStranger, Stranger, allVars, vars, clientVars, switchVars
  <2> QED
    BY <1>1, <2>1, BlockedElse
       DEF allVars, vars, brokerVars, wireVars, clientVars, switchVars, Served, Answered,
           Holder, GoneOther, Stuck
<1>2. CASE Takeover
  <2>1. \A s \in Sub : ~Served(s)'
    BY <1>2, SwitchoverAssumption
       DEF Takeover, Shape, SwitchTypeOK, MaybeEpoch, Client, clientVars, Served, Answered,
           Holder
  <2> QED
    BY <1>2, <2>1 DEF BlockedInv, Takeover
<1>3. CASE BrokerGoesOn
  <2>0. /\ UNCHANGED switchVars
        /\ \A s \in Sub : GoneOther(s) => GoneOther(s)'
        /\ NoStranger' => NoStranger /\ ~Impostor
    <3>1. UNCHANGED switchVars
      BY <1>3 DEF BrokerGoesOn
    <3> QED
      BY <3>1, StrangersStay DEF switchVars
  <2>1. ASSUME NEW c \in Client, QuietStep(c) PROVE BlockedInv'
    <3>1. /\ UNCHANGED <<notify_sub_sockets, sub_reg_owed>>
          /\ \A s \in Sub : (Served(s)' => Served(s)) /\ (Stuck(s) => Stuck(s)')
      BY <2>0, <2>1, QuietBroker
    <3> QED
      BY <2>0, <3>1, BlockedElse
  <2> QED
    BY <1>3, <2>0, <2>1, BlockedAllocate, BlockedDisconnect
       DEF BrokerGoesOn, QuietStep, Client
<1>4. CASE \E c \in Client : ClientStep(c)
  <2>1. /\ UNCHANGED <<notify_sub_sockets, sub_reg_owed, epoch>>
        /\ \A s \in Sub : (Served(s)' => Served(s)) /\ (Stuck(s) => Stuck(s)')
    BY <1>4, ClientStepIs DEF brokerVars, Client
  <2> QED
    BY <2>1, StrangersStay, BlockedElse
<1> QED
  BY <1>1, <1>2, <1>3, <1>4, StepIs

-----------------------------------------------------------------------------
(* The directory of publishers.                                            *)

LEMMA SpoiledStays ==
    ASSUME Shape, [SwitchNext]_allVars, epoch' = epoch
    PROVE  \A t \in Topic : Spoiled(t) => Spoiled(t)'
<1>1. \A c \in Client : Stranger(c) => Stranger(c)'
  BY StrangersStay
<1> QED
  BY <1>1 DEF Spoiled, Client

LEMMA DirElse ==
    ASSUME DirInv, UNCHANGED publishers,
           \A t \in Topic : Spoiled(t) => Spoiled(t)',
           \A p \in Pub : Worthy(p)' => Worthy(p)
    PROVE  DirInv'
  BY TopicAssumption DEF DirInv

LEMMA DirRegister ==
    ASSUME Shape, DirInv, \A t \in Topic : Spoiled(t) => Spoiled(t)',
           NEW p \in Pub, RegisterPub(p), UNCHANGED switchVars
    PROVE  DirInv'
<1> SUFFICES ASSUME NEW q \in Pub, Worthy(q)', NEW t \in PubTopics[q]
             PROVE  publishers'[t][q] > 0 \/ Spoiled(t)'
  BY DEF DirInv
<1>1. t \in Topic
  BY TopicAssumption
<1>2. /\ publishers \in [Topic -> [Pub -> Nat]]
      /\ publishers' = AddUnder(publishers, PubTopics[p], p)
  BY DEF RegisterPub, Shape, SwitchTypeOK
<1>3. publishers'[t][q] = IF t \in PubTopics[p] /\ q = p
                          THEN publishers[t][q] + 1 ELSE publishers[t][q]
  BY <1>1, <1>2 DEF AddUnder, Add
<1>4. publishers[t][q] \in Nat
  BY <1>1, <1>2
<1>5. q # p => Worthy(q)
  BY DEF RegisterPub, Worthy, Received, clientVars, switchVars, Shape, SwitchTypeOK, Client
<1>6. CASE q = p
  BY <1>3, <1>4, <1>6
<1>7. CASE q # p
  BY <1>1, <1>3, <1>5, <1>7 DEF DirInv
<1> QED
  BY <1>6, <1>7

\* Whoever removes an entry has one of its own, or spoils the topic.
LEMMA DirDisconnect ==
    ASSUME Shape, DirInv, \A t \in Topic : Spoiled(t) => Spoiled(t)',
           NEW p \in Pub, DisconnectPub(p), UNCHANGED switchVars
    PROVE  DirInv'
<1> SUFFICES ASSUME NEW q \in Pub, Worthy(q)', NEW t \in PubTopics[q]
             PROVE  publishers'[t][q] > 0 \/ Spoiled(t)'
  BY DEF DirInv
<1>1. PICK done \in SUBSET PubTopics[p] : publishers' = DropUnder(publishers, done, p)
  BY DEF DisconnectPub
<1>2. t \in Topic /\ publishers[t] \in [Pub -> Nat]
  BY TopicAssumption DEF Shape, SwitchTypeOK
<1>3. /\ pc[p] \in {"leaving", "killed"} /\ at[p] = epoch
      /\ request[p] = "disconnect" /\ Received(p) /\ handling = None
      /\ UNCHANGED <<handling, clientVars, switchVars>>
  BY DEF DisconnectPub, Shape, ClientInv, Client
<1>4. Worthy(q) /\ q # p
  BY <1>3, ClientAssumption
     DEF Worthy, Received, clientVars, switchVars, Shape, SwitchTypeOK, Client
<1>5. publishers[t][q] > 0 \/ Spoiled(t)
  BY <1>4 DEF DirInv
<1>6. CASE t \notin done \/ Spoiled(t)
  BY <1>1, <1>2, <1>5, <1>6 DEF DropUnder
<1>7. CASE t \in done /\ Stranger(p)
  BY <1>3, <1>7 DEF Spoiled, Stranger, clientVars, switchVars
<1>8. CASE t \in done /\ ~Spoiled(t) /\ ~Stranger(p)
  <2>1. Worthy(p)
    BY <1>3, <1>8 DEF Worthy, Stranger
  <2>2. publishers[t][p] > 0
    BY <1>8, <2>1 DEF DirInv
  <2>3. publishers'[t] = Drop(publishers[t], p)
    BY <1>1, <1>2, <1>8 DEF DropUnder
  <2> QED
    BY <1>2, <1>4, <1>5, <1>8, <2>2, <2>3, DropIs
<1> QED
  BY <1>6, <1>7, <1>8

LEMMA DirStep == Shape /\ DirInv /\ [SwitchNext]_allVars => DirInv'
<1> SUFFICES ASSUME Shape, DirInv, [SwitchNext]_allVars PROVE DirInv'
  OBVIOUS
<1>1. CASE UNCHANGED allVars
  BY <1>1 DEF DirInv, Worthy, Spoiled, Stranger, allVars, vars, brokerVars, wireVars,
              clientVars, switchVars
<1>2. CASE Takeover
  BY <1>2, SwitchoverAssumption, ClientAssumption
     DEF Takeover, DirInv, Worthy, Shape, SwitchTypeOK, MaybeEpoch, Client, clientVars
<1>3. CASE BrokerGoesOn
  <2>0. UNCHANGED switchVars /\ \A t \in Topic : Spoiled(t) => Spoiled(t)'
    <3>1. UNCHANGED switchVars
      BY <1>3 DEF BrokerGoesOn
    <3> QED
      BY <3>1, SpoiledStays DEF switchVars
  <2>1. ASSUME NEW p \in Pub, FinishPub(p) PROVE DirInv'
    <3>1. UNCHANGED publishers /\ \A q \in Pub : Worthy(q)' => Worthy(q)
      BY <2>0, <2>1, ClientAssumption DEF FinishPub, Worthy, clientVars, switchVars, Client
    <3> QED
      BY <2>0, <3>1, DirElse
  <2>2. ASSUME NEW s \in Sub, NotifyNext(s) \/ NotifyAcked(s) \/ RegisterSub(s)
                                \/ AllocatePort(s) \/ DisconnectSub(s)
        PROVE  DirInv'
    <3>1. /\ UNCHANGED <<publishers, clientVars>> /\ handling' \in {handling, s, None}
          /\ \A q \in Pub : request'[q] = request[q]
      BY <2>2, ClientAssumption
         DEF NotifyNext, NotifyAcked, RegisterSub, AllocatePort, DisconnectSub, Received,
             Shape, SwitchTypeOK, Client
    <3>2. \A q \in Pub : Worthy(q)' => Worthy(q)
      BY <2>0, <3>1, ClientAssumption DEF Worthy, clientVars, switchVars, Client
    <3> QED
      BY <2>0, <3>1, <3>2, DirElse
  <2> QED
    BY <1>3, <2>0, <2>1, <2>2, DirRegister, DirDisconnect DEF BrokerGoesOn
<1>4. CASE \E c \in Client : ClientStep(c)
  <2>1. UNCHANGED <<publishers, epoch>> /\ \A p \in Pub : Worthy(p)' => Worthy(p)
    BY <1>4, ClientStepIs DEF brokerVars
  <2> QED
    BY <2>1, SpoiledStays, DirElse
<1> QED
  BY <1>1, <1>2, <1>3, <1>4, StepIs

-----------------------------------------------------------------------------
(* Notifications.                                                          *)

\* Unless somebody is an impostor, whoever reads a notification is the one it
\* is meant for.
LEMMA ReaderIs ==
    ASSUME Shape, PortInv, Delivery, ~Impostor,
           NEW r \in Sub, ReadNotification(r)
    PROVE  r = awaiting
<1>1. pc[r] = "listening" /\ receiver = r /\ wire = "sent" /\ r # None
  BY ClientAssumption DEF ReadNotification, Client
<1>2. joined[r] = epoch /\ notify_port[r] = notify_sub_sockets[awaiting]
  BY <1>1 DEF Delivery
<1>3. awaiting \in Sub
  BY <1>1 DEF Shape, SwitchTypeOK, BrokerPhase
<1>4. Served(r) /\ PortOf(r) = notify_port[r]
  BY <1>1, <1>2 DEF Served, Holder, PortOf
<1> QED
  BY <1>2, <1>3, <1>4 DEF PortInv, DistinctInv

\* Which exchange a client's own step takes part in.
LEMMA ClientWire ==
    ASSUME Shape, NEW c \in Client, ClientStep(c)
    PROVE  \/ UNCHANGED <<wire, receiver>>
           \/ /\ c \in Sub /\ joined[c] = epoch /\ wire = "sending"
              /\ notify_port[c] = notify_sub_sockets[awaiting]
              /\ pc[c] \in {"listening", "leaving"}
              /\ wire' = "sent" /\ receiver' = c
              /\ UNCHANGED <<clientVars, switchVars, reply>>
           \/ /\ c \in Sub /\ ReadNotification(c) /\ wire' = "acked"
              /\ UNCHANGED <<receiver, switchVars, pc, notify_port, reply>>
  BY DEF ClientStep, Resolve, WatchFires, WatchEnds, RegisterAgain, Register, AskNobody,
         LeaveUnregistered, Joins, PubConfirmed, SubConfirmed, DeliverHere, Deliver,
         Left, Kill, Leave, ReadNotification, vars, wireVars

LEMMA DeliveryClient ==
    ASSUME Shape, PortInv, Delivery, Impostor => Impostor',
           NEW c \in Client, ClientStep(c)
    PROVE  Delivery'
<1>1. /\ UNCHANGED <<brokerVars, epoch>>
      /\ \A s \in Sub : Answered(s)' => Answered(s)
  BY ClientStepIs
<1>2. ASSUME receiver' # None
      PROVE  /\ pc'[receiver'] = "listening" =>
                  joined'[receiver'] = epoch' /\
                  notify_port'[receiver'] = notify_sub_sockets'[awaiting']
             /\ pc'[receiver'] = "registering" => reply'[receiver'] = None
  <2>1. CASE UNCHANGED <<wire, receiver>>
    <3>1. receiver \in Sub /\ receiver # None
      BY <1>2, <2>1 DEF Shape, SwitchTypeOK
    <3>2. /\ pc'[receiver] = "listening" =>
               \/ /\ pc[receiver] = "listening"
                  /\ joined'[receiver] = joined[receiver]
                  /\ notify_port'[receiver] = notify_port[receiver]
               \/ pc[receiver] = "registering" /\ reply[receiver] # None
          /\ pc'[receiver] = "registering" =>
               /\ pc[receiver] \in {"start", "registering"}
               /\ reply'[receiver] = reply[receiver]
      BY <3>1, ClientAssumption
         DEF ClientStep, Resolve, WatchFires, WatchEnds, RegisterAgain, Register, AskNobody,
             LeaveUnregistered, Joins, PubConfirmed, SubConfirmed, DeliverHere, Deliver,
             Left, Kill, Leave, ReadNotification, vars, wireVars, clientVars, switchVars,
             Shape, SwitchTypeOK, Client
    <3> QED
      BY <1>1, <2>1, <3>1, <3>2 DEF Delivery, Shape, ClientInv, Client, brokerVars
  <2>2. CASE /\ c \in Sub /\ joined[c] = epoch /\ receiver' = c
             /\ notify_port[c] = notify_sub_sockets[awaiting]
             /\ pc[c] \in {"listening", "leaving"}
             /\ UNCHANGED <<clientVars, switchVars, reply>>
    BY <1>1, <2>2 DEF clientVars, switchVars, brokerVars
  <2>3. CASE UNCHANGED <<receiver, switchVars, pc, notify_port, reply>>
    BY <1>1, <1>2, <2>3 DEF Delivery, switchVars, brokerVars
  <2> QED
    BY <2>1, <2>2, <2>3, ClientWire
<1>3. ASSUME ~Impostor', NEW s \in Sub, Answered(s)'
      PROVE  handling' = s /\ awaiting' = s /\ wire' # "acked"
  <2>1. handling = s /\ awaiting = s /\ wire # "acked" /\ pc[s] = "registering"
    BY <1>1, <1>3 DEF Delivery, Answered
  <2>2. ~ReadNotification(c) \/ c \notin Sub
    BY <1>3, <2>1, ReaderIs DEF ReadNotification
  <2> QED
    BY <1>1, <2>1, <2>2, ClientWire DEF brokerVars
<1> QED
  BY <1>2, <1>3 DEF Delivery

LEMMA DeliveryStep ==
    Shape /\ PortInv /\ Delivery /\ [SwitchNext]_allVars => Delivery'
<1> SUFFICES ASSUME Shape, PortInv, Delivery, [SwitchNext]_allVars PROVE Delivery'
  OBVIOUS
<1>1. CASE UNCHANGED allVars
  BY <1>1 DEF Delivery, Answered, Impostor, Stranger, allVars, vars, brokerVars, wireVars,
              clientVars, switchVars
<1>2. CASE Takeover
  <2>1. \A s \in Sub : ~Answered(s)'
    BY <1>2, SwitchoverAssumption
       DEF Takeover, Answered, Shape, SwitchTypeOK, MaybeEpoch, Client, clientVars
  <2> QED
    BY <1>2, <2>1 DEF Takeover, Delivery
<1>3. CASE BrokerGoesOn
  <2>0. UNCHANGED switchVars /\ (Impostor => Impostor')
    <3>1. UNCHANGED switchVars
      BY <1>3 DEF BrokerGoesOn
    <3> QED
      BY <3>1, StrangersStay DEF switchVars
  <2>1. ASSUME NEW c \in Client, QuietStep(c) PROVE Delivery'
    <3>1. UNCHANGED clientVars /\ \A s \in Sub : reply'[s] = reply[s]
      BY <2>0, <2>1, QuietBroker
    <3>2. \A s \in Sub : Answered(s)' = Answered(s)
      BY <2>0, <3>1 DEF Answered, clientVars, switchVars
    <3>3. receiver' = None /\ (awaiting = None \/ wire = "acked")
      BY <2>1 DEF QuietStep, RegisterPub, FinishPub, AllNotified, DisconnectPub, NotifyNext,
                  NotifyAcked, RegisterSub, SubReady, Shape, BrokerPhase
    <3> QED
      BY <2>0, <3>2, <3>3, ClientAssumption DEF Delivery, Client
  <2>2. ASSUME NEW s \in Sub, AllocatePort(s) PROVE Delivery'
    <3>1. /\ handling = s /\ awaiting = None /\ receiver' = receiver /\ receiver = None
          /\ reply[s] = None /\ UNCHANGED clientVars
      BY <2>2 DEF AllocatePort, Shape, BrokerPhase
    <3>2. \/ UNCHANGED reply
          \/ /\ handling' = s /\ awaiting' = s /\ wire' = "sending"
             /\ \A o \in Sub \ {s} : reply'[o] = reply[o]
      BY <2>2, <3>1, AllocatePortIs DEF Answer, Shape, SwitchTypeOK, Client
    <3>3. ~Impostor => \A o \in Sub : ~Answered(o)
      BY <3>1, ClientAssumption DEF Delivery, Client
    <3> QED
      BY <2>0, <3>1, <3>2, <3>3 DEF Delivery, Answered, clientVars, switchVars
  <2>3. ASSUME NEW s \in Sub, DisconnectSub(s) PROVE Delivery'
    <3>1. /\ awaiting = None /\ receiver' = receiver /\ receiver = None
          /\ pc[s] \in {"leaving", "killed"} /\ UNCHANGED clientVars
      BY <2>3 DEF DisconnectSub, SubReady, Shape, BrokerPhase, ClientInv, Client
    <3>2. \A o \in Sub \ {s} : reply'[o] = reply[o]
      BY <2>3, DisconnectSubIs DEF Answer, Shape, SwitchTypeOK, Client
    <3>3. \A o \in Sub : Answered(o)' => Answered(o)
      BY <2>0, <3>1, <3>2 DEF Answered, clientVars, switchVars
    <3> QED
      BY <2>0, <3>1, <3>3, ClientAssumption DEF Delivery, Client
  <2> QED
    BY <1>3, <2>1, <2>2, <2>3 DEF BrokerGoesOn, QuietStep, Client
<1>4. CASE \E c \in Client : ClientStep(c)
  <2>1. UNCHANGED epoch
    BY <1>4, ClientStepIs
  <2> QED
    BY <1>4, <2>1, StrangersStay, DeliveryClient
<1> QED
  BY <1>1, <1>2, <1>3, <1>4, StepIs

LEMMA MessageStep == Shape /\ Message /\ [SwitchNext]_allVars => Message'
<1> SUFFICES ASSUME Shape, Message, [SwitchNext]_allVars PROVE Message'
  OBVIOUS
<1>1. CASE UNCHANGED allVars
  BY <1>1 DEF Message, allVars, vars, brokerVars, wireVars
<1>2. CASE Takeover
  BY <1>2 DEF Message, Takeover
<1>3. CASE BrokerGoesOn
  <2>1. ASSUME NEW p \in Pub, RegisterPub(p) \/ FinishPub(p) \/ DisconnectPub(p)
        PROVE  awaiting' = None
    BY <2>1 DEF RegisterPub, FinishPub, AllNotified, DisconnectPub, Shape, BrokerPhase
  <2>2. ASSUME NEW s \in Sub, NotifyAcked(s) \/ RegisterSub(s) \/ DisconnectSub(s)
        PROVE  awaiting' = None
    BY <2>2 DEF NotifyAcked, RegisterSub, DisconnectSub, SubReady, Shape, BrokerPhase
  <2>3. ASSUME NEW s \in Sub, NotifyNext(s) PROVE Message'
    BY <2>3 DEF NotifyNext, Message
  <2>4. ASSUME NEW s \in Sub, AllocatePort(s) PROVE Message'
    <3>1. UNCHANGED publishers /\ handling = s /\ awaiting = None /\ s \notin Pub
      BY <2>4, ClientAssumption DEF AllocatePort
    <3>2. \/ awaiting' = None
          \/ handling' = s /\ notification' = {a \in SubTopics[s] \X Pub :
                                                publishers[a[1]][a[2]] > 0}
      BY <2>4, <3>1, AllocatePortIs
    <3> QED
      BY <3>1, <3>2 DEF Message
  <2> QED
    BY <1>3, <2>1, <2>2, <2>3, <2>4 DEF BrokerGoesOn, Message
<1>4. CASE \E c \in Client : ClientStep(c)
  <2>1. UNCHANGED <<brokerVars, notification>>
    BY <1>4, ClientStepIs
  <2> QED
    BY <2>1 DEF Message, brokerVars
<1> QED
  BY <1>1, <1>2, <1>3, <1>4, StepIs

-----------------------------------------------------------------------------
(* Who is connected to whom.                                               *)

Due(p, s) ==
    joined[s] = epoch /\ Settled(s) /\ notify_sub_sockets[s] # None /\ ~Pending(p, s)
Linked(p, s) ==
    \A t \in PubTopics[p] \cap SubTopics[s] : publishers[t][p] > 0 => <<t, p>> \in conn[s]

LEMMA LinkIs == LinkInv <=> Impostor \/ \A p \in Pub, s \in Sub : Due(p, s) => Linked(p, s)
  BY DEF LinkInv, Due, Linked

LEMMA LinkElse ==
    ASSUME LinkInv, Impostor => Impostor', UNCHANGED conn,
           \A t \in Topic, p \in Pub : publishers'[t][p] > 0 => publishers[t][p] > 0,
           \A p \in Pub, s \in Sub : Due(p, s)' => Due(p, s)
    PROVE  LinkInv'
<1>1. \A p \in Pub, s \in Sub : Linked(p, s) => Linked(p, s)'
  BY TopicAssumption DEF Linked
<1>2. Impostor' \/ \A p \in Pub, s \in Sub : Due(p, s)' => Linked(p, s)'
  BY <1>1, LinkIs
<1> QED
  BY <1>2 DEF LinkInv, Due, Linked

\* The publishers that were there when a subscriber registered, or the one the
\* broker waits for it to learn of: reading settles it, and connects it.
LEMMA LinkRead ==
    ASSUME Shape, PortInv, Delivery, Message, LinkInv, Impostor => Impostor',
           NEW r \in Sub, ReadNotification(r), UNCHANGED switchVars
    PROVE  LinkInv'
<1> SUFFICES ASSUME ~Impostor', NEW p \in Pub, NEW s \in Sub, Due(p, s)',
                    NEW t \in PubTopics[p] \cap SubTopics[s], publishers'[t][p] > 0
             PROVE  <<t, p>> \in conn'[s]
  BY DEF LinkInv, Due
<1>1. r = awaiting
  BY ReaderIs
<1>2. /\ wire = "sent" /\ wire' = "acked" /\ receiver = r /\ pc[r] = "listening"
      /\ conn' = [conn EXCEPT ![r] = @ \cup {a \in notification : Interesting(r, a[1])}]
      /\ UNCHANGED <<brokerVars, pc>>
  BY DEF ReadNotification
<1>3. joined[s] = epoch /\ notify_sub_sockets[s] # None /\ pc[s] = "listening"
  BY <1>2 DEF Due, Settled, brokerVars, switchVars
<1>4. publishers[t][p] > 0 /\ t \in Topic
  BY <1>2, TopicAssumption DEF brokerVars
<1>5. conn[s] \subseteq conn'[s] /\ conn \in [Sub -> SUBSET (Topic \X Pub)]
  BY <1>2 DEF Shape, SwitchTypeOK
<1>6. CASE Due(p, s)
  BY <1>4, <1>5, <1>6 DEF LinkInv, Due
<1>7. CASE ~Due(p, s)
  <2>1. handling = s \/ (handling = p /\ awaiting = s)
    BY <1>2, <1>3, <1>7 DEF Due, Settled, Pending, brokerVars
  <2>2. s = r
    BY <1>1, <2>1, ClientAssumption DEF Shape, BrokerPhase, Client
  <2>3. /\ awaiting # None
        /\ handling = s => s \notin Pub
    BY <1>1, ClientAssumption DEF Client
  <2>4. <<t, p>> \in notification
    <3>1. CASE handling = s
      <4>1. notification = {a \in SubTopics[s] \X Pub : publishers[a[1]][a[2]] > 0}
        BY <2>3, <3>1 DEF Message
      <4> QED
        BY <1>4, <4>1
    <3>2. CASE handling = p
      <4>1. notification = PubTopics[p] \X {p}
        BY <2>3, <3>2 DEF Message
      <4> QED
        BY <4>1
    <3> QED
      BY <2>1, <3>1, <3>2
  <2> QED
    BY <1>2, <1>5, <2>2, <2>4 DEF Interesting
<1> QED
  BY <1>6, <1>7

LEMMA LinkClient ==
    ASSUME Shape, PortInv, Delivery, Message, LinkInv, Impostor => Impostor',
           NEW c \in Client, ClientStep(c)
    PROVE  LinkInv'
<1>1. UNCHANGED <<brokerVars, epoch>>
  BY ClientStepIs
<1>2. CASE c \in Sub /\ ReadNotification(c) /\ UNCHANGED switchVars
  BY <1>2, LinkRead
<1>3. CASE wire' = wire \/ (wire = "sending" /\ wire' = "sent")
  <2> SUFFICES ASSUME ~Impostor', NEW p \in Pub, NEW s \in Sub, Due(p, s)',
                      NEW t \in PubTopics[p] \cap SubTopics[s], publishers'[t][p] > 0
               PROVE  <<t, p>> \in conn'[s]
    BY DEF LinkInv, Due
  <2>1. /\ joined'[s] = epoch /\ pc'[s] = "listening" /\ notify_sub_sockets[s] # None
        /\ handling = s => wire = "acked"
        /\ ~Pending(p, s) /\ publishers[t][p] > 0
    BY <1>1, <1>3 DEF Due, Settled, Pending, brokerVars
  <2>2. \/ pc[s] = "listening" /\ joined[s] = joined'[s] /\ conn[s] \subseteq conn'[s]
        \/ pc[s] = "registering" /\ reply[s] # None /\ at[s] = epoch
    BY <2>1, ClientAssumption
       DEF ClientStep, Resolve, WatchFires, WatchEnds, RegisterAgain, Register, AskNobody,
           LeaveUnregistered, Joins, PubConfirmed, SubConfirmed, DeliverHere, Deliver,
           Left, Kill, Leave, ReadNotification, vars, wireVars, clientVars, switchVars,
           Shape, SwitchTypeOK, Client
  <2>3. CASE pc[s] = "registering" /\ reply[s] # None /\ at[s] = epoch
    BY <2>1, <2>3 DEF Delivery, Answered
  <2>4. CASE pc[s] = "listening" /\ joined[s] = joined'[s] /\ conn[s] \subseteq conn'[s]
    <3>1. Due(p, s)
      BY <2>1, <2>4 DEF Due, Settled
    <3> QED
      BY <2>1, <2>4, <3>1 DEF LinkInv, Due
  <2> QED
    BY <2>2, <2>3, <2>4
<1> QED
  BY <1>2, <1>3, ClientWire

LEMMA LinkBroker ==
    ASSUME Shape, LinkInv, Impostor => Impostor', BrokerGoesOn PROVE LinkInv'
<1>0. UNCHANGED switchVars
  BY DEF BrokerGoesOn
<1> USE <1>0, ClientAssumption
<1> USE DEF Due, Settled, Pending, Shape, BrokerPhase, Client, clientVars, switchVars
<1>1. ASSUME NEW p \in Pub, RegisterPub(p) PROVE LinkInv'
  <2>1. \A q \in Pub, s \in Sub : Due(q, s)' => q # p /\ Due(q, s)
    BY <1>1 DEF RegisterPub
  <2>2. \A t \in Topic, q \in Pub \ {p} : publishers'[t][q] = publishers[t][q]
    BY <1>1 DEF RegisterPub, AddUnder, Add, SwitchTypeOK
  <2>3. \A q \in Pub, s \in Sub : Due(q, s)' /\ Linked(q, s) => Linked(q, s)'
    BY <1>1, <2>1, <2>2, TopicAssumption DEF RegisterPub, Linked
  <2>4. Impostor' \/ \A q \in Pub, s \in Sub : Due(q, s)' => Linked(q, s)'
    BY <2>1, <2>3, LinkIs
  <2> QED
    BY <2>4 DEF LinkInv, Linked
<1>2. ASSUME NEW p \in Pub, FinishPub(p) PROVE LinkInv'
  BY <1>2, LinkElse DEF FinishPub, AllNotified
<1>3. ASSUME NEW p \in Pub, DisconnectPub(p) PROVE LinkInv'
  <2>1. PICK done \in SUBSET {t \in PubTopics[p] : CanDrop(publishers[t], p)} :
          publishers' = DropUnder(publishers, done, p)
    BY <1>3 DEF DisconnectPub
  <2>2. /\ publishers' \in [Topic -> [Pub -> Nat]]
        /\ \A t \in Topic, q \in Pub : publishers'[t][q] <= publishers[t][q]
    BY <2>1, DropType DEF SwitchTypeOK
  <2>3. \A t \in Topic, q \in Pub : publishers'[t][q] > 0 => publishers[t][q] > 0
    BY <2>2 DEF SwitchTypeOK
  <2> QED
    BY <1>3, <2>3, LinkElse DEF DisconnectPub
<1>4. ASSUME NEW s \in Sub, NotifyNext(s) PROVE LinkInv'
  BY <1>4, LinkElse DEF NotifyNext
<1>5. ASSUME NEW s \in Sub, NotifyAcked(s) PROVE LinkInv'
  BY <1>5, LinkElse DEF NotifyAcked
<1>6. ASSUME NEW s \in Sub, RegisterSub(s) PROVE LinkInv'
  BY <1>6, LinkElse DEF RegisterSub, SubReady
<1>7. ASSUME NEW s \in Sub, AllocatePort(s) PROVE LinkInv'
  <2>1. /\ handling = s /\ pc[s] # "listening" /\ handling' \in {s, None}
        /\ UNCHANGED <<publishers, todo, clientVars>>
        /\ \A o \in Sub \ {s} : notify_sub_sockets'[o] \in {None, notify_sub_sockets[o]}
    BY <1>7, AllocatePortIs, OverwriteIs DEF AllocatePort
  <2>2. \A q \in Pub, o \in Sub : Due(q, o)' => Due(q, o)
    BY <2>1
  <2> QED
    BY <2>1, <2>2, LinkElse
<1>8. ASSUME NEW s \in Sub, DisconnectSub(s) PROVE LinkInv'
  <2>1. /\ handling = None /\ UNCHANGED <<publishers, handling, todo, awaiting, clientVars>>
        /\ \A o \in Sub : notify_sub_sockets'[o] \in {None, notify_sub_sockets[o]}
    BY <1>8, DisconnectSubIs, OverwriteIs DEF DisconnectSub, SubReady
  <2>2. \A q \in Pub, o \in Sub : Due(q, o)' => Due(q, o)
    BY <2>1
  <2> QED
    BY <2>1, <2>2, LinkElse
<1> QED
  BY <1>1, <1>2, <1>3, <1>4, <1>5, <1>6, <1>7, <1>8 DEF BrokerGoesOn

LEMMA LinkStep ==
    Shape /\ PortInv /\ Delivery /\ Message /\ LinkInv /\ [SwitchNext]_allVars => LinkInv'
<1> SUFFICES ASSUME Shape, PortInv, Delivery, Message, LinkInv, [SwitchNext]_allVars
             PROVE  LinkInv'
  OBVIOUS
<1>1. CASE UNCHANGED allVars
  BY <1>1 DEF LinkInv, Settled, Pending, Impostor, Stranger, allVars, vars, brokerVars,
              wireVars, clientVars, switchVars
<1>2. CASE Takeover
  BY <1>2, SwitchoverAssumption
     DEF Takeover, LinkInv, Shape, SwitchTypeOK, MaybeEpoch, Client, clientVars
<1>3. CASE BrokerGoesOn
  <2>1. UNCHANGED epoch
    BY <1>3 DEF BrokerGoesOn, switchVars
  <2> QED
    BY <1>3, <2>1, StrangersStay, LinkBroker
<1>4. CASE \E c \in Client : ClientStep(c)
  <2>1. UNCHANGED epoch
    BY <1>4, ClientStepIs
  <2> QED
    BY <1>4, <2>1, StrangersStay, LinkClient
<1> QED
  BY <1>1, <1>2, <1>3, <1>4, StepIs

-----------------------------------------------------------------------------
(* The invariant.                                                          *)

LEMMA InitialInv == SwitchInit => IInv
<1> SUFFICES ASSUME SwitchInit PROVE IInv
  OBVIOUS
<1>1. Shape
  BY ShapeInit
<1>2. /\ epoch = 1 /\ handling = None /\ todo = {} /\ awaiting = None /\ receiver = None
      /\ ~sub_reg_owed
      /\ \A c \in Client : at[c] = 0 /\ joined[c] = 0 /\ request[c] = "none"
      /\ \A s \in Sub : notify_sub_sockets[s] = None
      /\ \A c \in Client : pc[c] \in {"publishing", "listening"}
  BY DEF SwitchInit, BrokerInit
<1>3. /\ \A p \in Pub : ~Worthy(p)
      /\ \A s \in Sub : ~Served(s) /\ ~Relies(s)
  BY <1>2, ClientAssumption DEF Worthy, Served, Answered, Holder, Relies, Client
<1>4. DirInv /\ BlockedInv /\ Message
  BY <1>2, <1>3 DEF DirInv, BlockedInv, Message
<1>5. CountInv
  <2>1. \A t \in Topic, h \in Host : Relying(t, h) = {} /\ subscribers[t][h] = 0
    BY <1>3 DEF Relying, SwitchInit, BrokerInit
  <2> QED
    BY <2>1, FS_EmptySet DEF CountInv
<1>6. PortInv
  BY <1>2, <1>3 DEF PortInv, SocketInv, DistinctInv, UsedInv
<1>7. Delivery
  BY <1>2, <1>3 DEF Delivery, Served
<1>8. LinkInv
  BY <1>2 DEF LinkInv, Client
<1> QED
  BY <1>1, <1>4, <1>5, <1>6, <1>7, <1>8 DEF IInv

LEMMA InductiveInv == IInv /\ [SwitchNext]_allVars => IInv'
  BY ShapeStep, DirStep, CountStep, PortStep, BlockedStep, DeliveryStep, MessageStep,
     LinkStep
     DEF IInv

LEMMA Invariance == SwitchSpec => []IInv
  BY InitialInv, InductiveInv, PTL DEF SwitchSpec

\* No departure takes away the directory entry of a subscriber that stays,
\* unless the leaver is a stranger with somebody else's id: disconnect_sub,
\* which removes whichever entry has the host's address, or the only one there
\* is, removes one for each subscriber that register_sub counted.
THEOREM KeepsEntries == SwitchSpec => []EntriesKept
<1>1. IInv => EntriesKept
  <2> SUFFICES ASSUME IInv, ~Impostor, NEW t \in Topic, NEW h \in Host
               PROVE  Cardinality({s \in Sub : Here(s) /\ t \in SubTopics[s]
                                               /\ HostOf[s] = h}) <= subscribers[t][h]
    BY DEF EntriesKept
  <2> DEFINE present == {s \in Sub : Here(s) /\ t \in SubTopics[s] /\ HostOf[s] = h}
  <2>1. present \subseteq Relying(t, h)
    BY ClientAssumption
       DEF IInv, Shape, ClientInv, Client, Relying, Relies, Served, Holder, Here
  <2>2. /\ Cardinality(present) <= Cardinality(Relying(t, h))
        /\ Cardinality(present) \in Nat
    BY <2>1, RelyingFinite, FS_Subset, FS_CardinalityType
  <2>3. Cardinality(Relying(t, h)) <= subscribers[t][h] /\ subscribers[t][h] \in Nat
    BY DEF IInv, CountInv, Shape, SwitchTypeOK
  <2> HIDE DEF present
  <2>4. Cardinality(present) <= subscribers[t][h]
    BY <2>2, <2>3, RelyingFinite
  <2> QED
    BY <2>4 DEF present
<1> QED
  BY <1>1, Invariance, PTL

\* Where ports can be bound, a request of a subscriber goes without an answer
\* only after somebody who never registered with this broker left, or after
\* two of the same id were here: get_clear_port draws no port that a socket of
\* this broker is bound to, and disconnect_sub finds the port, the socket and
\* the entries of whoever registered, once or twice.
THEOREM OnlyStrangersBlock == SwitchSpec => []BlockedByStrangers
<1>1. IInv => BlockedByStrangers
  <2> SUFFICES ASSUME IInv, sub_reg_owed, TakenPorts = {}
               PROVE  \E s \in Sub :
                        \/ Stranger(s)
                        \/ /\ pc[s] \in {"leaving", "killed"}
                           /\ \E o \in Sub \ {s} : IdOf[o] = IdOf[s] /\ joined[o] = epoch
    BY DEF BlockedByStrangers
  <2>1. CASE NoStranger
    BY <2>1 DEF IInv, BlockedInv, Stuck, GoneOther
  <2>2. CASE ~NoStranger
    BY <2>2 DEF NoStranger
  <2> QED
    BY <2>1, <2>2
<1> QED
  BY <1>1, Invariance, PTL

\* Whoever has joined the broker that serves is connected to every publisher
\* that has joined it, on each topic they share, whatever the order in which
\* they found the broker and whoever left meanwhile, with the exceptions that
\* IntroducedAgain names: register_pub notifies every socket there is,
\* register_sub's notification has everybody in the directory, and the one who
\* reads a notification is the one it is meant for.
THEOREM IntroducesAgain == SwitchSpec => []IntroducedAgain
<1>1. IInv => IntroducedAgain
  <2> SUFFICES ASSUME IInv, NEW p \in Pub, NEW s \in Sub, Here(p), Here(s), Settled(s),
                      notify_sub_sockets[s] # None, ~Impostor, NEW a \in Matches(p, s)
               PROVE  \/ a \in conn[s]
                      \/ \E q \in Pub : Stranger(q) /\ a[1] \in PubTopics[q]
    BY DEF IntroducedAgain
  <2>1. PICK t \in PubTopics[p] \cap SubTopics[s] : a = <<t, p>>
    BY DEF Matches
  <2>2. pc[p] = "publishing" /\ handling # p
    BY ClientAssumption DEF IInv, Shape, ClientInv, BrokerPhase, Client, Here
  <2>3. publishers[t][p] > 0 \/ Spoiled(t)
    BY <2>2 DEF IInv, DirInv, Worthy, Here
  <2>4. CASE publishers[t][p] > 0
    BY <2>1, <2>2, <2>4 DEF IInv, LinkInv, Pending, Here
  <2>5. CASE Spoiled(t)
    BY <2>1, <2>5 DEF Spoiled
  <2> QED
    BY <2>3, <2>4, <2>5
<1> QED
  BY <1>1, Invariance, PTL
=============================================================================
