----------------------------- MODULE Switchover -----------------------------
(***************************************************************************)
(* DirectBroker under changes of broker: what clients carry over from one  *)
(* broker to the next, and what they do to it.                             *)
(*                                                                         *)
(* A new broker knows nobody.  A client's watch callback drops all its     *)
(* connections, reads the address of the broker, and registers again.  The *)
(* broker may change once more before the address is read: the callback    *)
(* runs again afterwards, and the client registers twice with one broker.  *)
(* Meanwhile the client's main thread may come to disconnect: the request  *)
(* goes to a broker the client has not registered with, and names the port *)
(* another one gave it.                                                    *)
(*                                                                         *)
(* The brokers are numbered.  Broker 0 had all the clients, and is gone    *)
(* when the module begins: a client that starts later does no more than    *)
(* one that comes from there.                                              *)
(*                                                                         *)
(* How brokers and clients find each other is Failover's subject, and how  *)
(* the two threads of a client share its sockets that of ClientThreads.    *)
(* Subscribers may have equal ids here.                                    *)
(***************************************************************************)
EXTENDS DirectBroker

CONSTANTS
    MaxEpoch,   \* bound: the number of the last broker
    Hasty       \* clients whose main thread may leave while the callback runs

ASSUME SwitchoverAssumption ==
    /\ MaxEpoch \in Nat \ {0}
    /\ Hasty \subseteq Client
    /\ None \notin Nat

VARIABLES
    epoch,      \* which broker serves
    at,         \* the broker whose address a client has, or None
    seen,       \* the broker a client's watch told it of last
    joined      \* the broker that answered a client's registration, or None

switchVars == <<epoch, at, seen, joined>>
allVars == <<vars, switchVars>>

SwitchInit ==
    /\ BrokerInit
    /\ pc = [c \in Client |-> IF c \in Pub THEN "publishing" ELSE "listening"]
    /\ notify_port \in {port \in [Sub -> PortRange \ (TakenPorts \cup
                                                    {pub_reg_port, sub_reg_port})] :
                          \A s, o \in Sub : s # o => port[s] # port[o]}
    /\ conn = [s \in Sub |-> UNION {Matches(p, s) : p \in Pub}]
    /\ epoch = 1
    /\ at = [c \in Client |-> 0]
    /\ seen = [c \in Client |-> 0]
    /\ joined = [c \in Client |-> 0]

-----------------------------------------------------------------------------
\* leader_function of the next broker, started from __init__.  Requests and
\* notifications the old one has not handled are lost with it; answers it gave
\* arrive.
Takeover ==
    /\ epoch < MaxEpoch
    /\ epoch' = epoch + 1
    /\ publishers' = [t \in Topic |-> [p \in Pub |-> 0]]
    /\ subscribers' = [t \in Topic |-> [h \in Host |-> 0]]
    /\ notify_sub_sockets' = [s \in Sub |-> None]
    /\ used_ports' = {pub_reg_port, sub_reg_port}
    /\ sub_reg_owed' = FALSE
    /\ handling' = None /\ todo' = {} /\ awaiting' = None
    /\ wire' = "idle" /\ receiver' = None /\ notification' = {}
    /\ request' = [c \in Client |-> "none"]
    /\ UNCHANGED <<reply, clientVars, at, seen, joined>>

\* dump_data_change up to get_znode_value: the sockets are gone.
WatchFires(c) ==
    /\ pc[c] \in {"publishing", "listening"}
    /\ seen[c] < epoch
    /\ seen' = [seen EXCEPT ![c] = epoch]
    /\ at' = [at EXCEPT ![c] = None]
    /\ joined' = [joined EXCEPT ![c] = None]
    /\ pc' = [pc EXCEPT ![c] = "start"]
    /\ conn' = [s \in Sub |-> IF s = c THEN {} ELSE conn[s]]
    /\ UNCHANGED <<brokerVars, wireVars, notify_port, epoch>>

\* The callback's own get_znode_value.
Resolve(c) ==
    /\ pc[c] = "start" /\ at[c] = None
    /\ at' = [at EXCEPT ![c] = epoch]
    /\ UNCHANGED <<vars, epoch, seen, joined>>

\* The callback closes the socket on which the main thread waits for the answer
\* to its 'disconnect': recv_string raises, and the process ends.
WatchEnds(c) ==
    /\ pc[c] = "leaving"
    /\ seen[c] < epoch
    /\ pc' = [pc EXCEPT ![c] = "killed"]
    /\ conn' = [s \in Sub |-> IF s = c THEN {} ELSE conn[s]]
    /\ UNCHANGED <<brokerVars, wireVars, notify_port, switchVars>>

\* The registration goes to the broker the client has found ...
RegisterAgain(c) ==
    /\ at[c] = epoch
    /\ Register(c)
    /\ UNCHANGED switchVars

\* ... or to one that is gone, as may the 'disconnect': nobody answers.
AskNobody(c) ==
    /\ at[c] \in 0..(epoch - 1)
    /\ \/ pc[c] = "start" /\ pc' = [pc EXCEPT ![c] = "registering"]
       \/ /\ c \in Leavers /\ pc[c] \in {"publishing", "listening"}
          /\ pc' = [pc EXCEPT ![c] = "leaving"]
    /\ UNCHANGED <<brokerVars, wireVars, notify_port, conn, switchVars>>

\* The main thread disconnects on the socket that the callback has just made,
\* before the callback registers on it.
LeaveUnregistered(c) ==
    /\ c \in Hasty
    /\ pc[c] = "start" /\ at[c] = epoch
    /\ pc' = [pc EXCEPT ![c] = "leaving"]
    /\ request' = [request EXCEPT ![c] = "disconnect"]
    /\ UNCHANGED <<brokerVars, notification, wire, receiver, reply, notify_port,
                   conn, switchVars>>

Joins(c) ==
    /\ \/ c \in Pub /\ PubConfirmed(c)
       \/ c \in Sub /\ SubConfirmed(c)
    /\ joined' = [joined EXCEPT ![c] = at[c]]
    /\ UNCHANGED <<epoch, at, seen>>

\* A REP socket of an old broker's client is connected to the old broker.
DeliverHere(r) == joined[r] = epoch /\ Deliver(r) /\ UNCHANGED switchVars

BrokerGoesOn ==
    /\ \/ \E p \in Pub : RegisterPub(p) \/ FinishPub(p) \/ DisconnectPub(p)
       \/ \E s \in Sub : \/ NotifyNext(s) \/ NotifyAcked(s) \/ RegisterSub(s)
                         \/ AllocatePort(s) \/ DisconnectSub(s)
    /\ UNCHANGED switchVars

ClientGoesOn(c) ==
    \/ Resolve(c) \/ WatchFires(c) \/ WatchEnds(c) \/ RegisterAgain(c)
    \/ pc[c] = "start" /\ AskNobody(c)
    \/ Joins(c)
    \/ c \in Sub /\ DeliverHere(c)
    \/ /\ Left(c) \/ (c \in Sub /\ ReadNotification(c))
       /\ UNCHANGED switchVars

SwitchNext ==
    \/ Takeover
    \/ BrokerGoesOn
    \/ \E c \in Client :
         \/ ClientGoesOn(c) \/ AskNobody(c) \/ LeaveUnregistered(c)
         \/ /\ (at[c] = epoch /\ Leave(c)) \/ Kill(c)
            /\ UNCHANGED switchVars

SwitchSpec == SwitchInit /\ [][SwitchNext]_allVars

\* Brokers and clients that live go on; nobody has to leave.
FairSwitchSpec ==
    /\ SwitchSpec
    /\ WF_allVars(BrokerGoesOn)
    /\ \A c \in Client : WF_allVars(ClientGoesOn(c))

-----------------------------------------------------------------------------
(* Properties.                                                             *)

Here(c) == joined[c] = epoch /\ pc[c] \in {"publishing", "listening"}

\* Leaving, or gone, without having registered with the broker that serves.
Stranger(c) == at[c] = epoch /\ joined[c] # epoch /\ pc[c] \in {"leaving", "gone", "killed"}

\* Such a subscriber whose id somebody else has: its 'disconnect' may close the
\* other's socket, and give back a port that a third one still uses.
Impostor == \E s, o \in Sub : s # o /\ IdOf[s] = IdOf[o] /\ Stranger(o)

\* Whoever has joined the broker that serves is introduced there, although
\* clients come in any order, some of them twice, and others leave without
\* having come.  Exceptions: a subscriber whose socket was taken over by one of
\* the same id, topics from which a publisher that was never there removed
\* somebody else's only entry, and whatever an impostor does: a port given back
\* by one may go to a second subscriber while a first one listens to it, and
\* the first acknowledges what is meant for the second.
IntroducedAgain ==
    \A p \in Pub, s \in Sub :
        Here(p) /\ Here(s) /\ Settled(s) /\ notify_sub_sockets[s] # None =>
            \A a \in Matches(p, s) :
                \/ a \in conn[s]
                \/ \E q \in Pub : Stranger(q) /\ a[1] \in PubTopics[q]
                \/ Impostor

\* Where ports can be bound, sub_reg_socket is blocked only by a subscriber
\* that leaves without having registered here, or whose id another one here
\* has: registering twice with one broker, and whatever came with an earlier
\* one, does a regular departure no harm.
BlockedByStrangers ==
    sub_reg_owed /\ TakenPorts = {} =>
        \E s \in Sub :
            \/ Stranger(s)
            \/ /\ pc[s] \in {"leaving", "killed"}
               /\ \E o \in Sub \ {s} : IdOf[o] = IdOf[s] /\ joined[o] = epoch

\* No departure takes away the directory entry of a subscriber that stays,
\* unless the leaver is a stranger with somebody else's id.
EntriesKept ==
    \/ Impostor
    \/ \A t \in Topic, h \in Host :
         Cardinality({s \in Sub : Here(s) /\ t \in SubTopics[s] /\ HostOf[s] = h})
             <= subscribers[t][h]

\* A client whose watch is told of the last broker ends up registered there,
\* unless it leaves meanwhile or that broker hangs.
RejoinsInTheEnd ==
    \A c \in Client :
        seen[c] = MaxEpoch /\ pc[c] = "start" ~>
            \/ Here(c) \/ Hung
            \/ pc[c] \in {"leaving", "killed"}
=============================================================================
