------------------------------ MODULE Failover ------------------------------
(***************************************************************************)
(* Brokers taking over from one another, and clients following them, over  *)
(* ZooKeeper: lib/zookeeper_client.py, leader_function and zk_run_election *)
(* of lib/broker.py, the watch callbacks of lib/publisher.py and           *)
(* lib/subscriber.py, and the start sequences of driver.py.                *)
(*                                                                         *)
(* The elected broker writes its address to the znode /broker, opens its   *)
(* registration sockets and serves until it exits, dies, or would be       *)
(* deposed without noticing.  A client reads the znode, sets a DataWatch   *)
(* on it and registers; when the watch fires, a thread of the ZooKeeper    *)
(* library runs the callback, which closes all sockets, reads the znode    *)
(* again and registers anew.  The library runs one callback at a time:     *)
(* DataWatch holds a lock while it calls.                                  *)
(*                                                                         *)
(* ZooKeeper and kazoo (Election, DataWatch) are external: the operations  *)
(* the code uses are modelled as linearizable, a watch fires once.         *)
(* A registration is one request and one answer; DirectBroker has the rest.*)
(*                                                                         *)
(* Where a definition follows one of a similar name, the first is a variant*)
(* that a bug would give; nothing uses it, and the properties below are    *)
(* known to tell it from the real one.                                     *)
(***************************************************************************)
EXTENDS Integers, Sequences, FiniteSets, SequencesExt

CONSTANTS
    Broker, Publisher, Subscriber,
    pub_reg_port, sub_reg_port, \* ports every broker is started with
    MaxPort,
    Occupied,                   \* ports other programs hold on a broker's host
    MayExit,                    \* brokers with a time or event limit, or Ctrl-C
    MayCrash,                   \* brokers that may die without a word
    MayExpire,                  \* brokers that may lose their session and live on
    MayBlip,                    \* clients that may lose ZooKeeper for a moment
    None

Client == Publisher \cup Subscriber

ASSUME FailoverAssumption ==
    /\ Publisher \cap Subscriber = {}
    /\ None \notin Broker \cup Client
    /\ pub_reg_port \in Nat /\ sub_reg_port \in Nat /\ MaxPort \in Nat
    /\ pub_reg_port < sub_reg_port
    /\ Occupied \in [Broker -> SUBSET (0..MaxPort)]
    \* The search for a port goes on until it finds one.
    /\ \A b \in Broker : \E p, q \in (sub_reg_port..MaxPort) \ Occupied[b] : p # q
    /\ MayExit \cup MayCrash \cup MayExpire \subseteq Broker
    /\ MayBlip \subseteq Client

VARIABLES
    znode,      \* /broker: the address in it and the number of writes so far
    queue,      \* the contenders' ephemeral nodes under /electionpath
    bpc,        \* what each broker is doing
    bound,      \* the ports of its registration sockets, or None
    registered, \* how often each client has registered
    cpc,        \* what each client is doing
    address,    \* broker_address and registration ports of each client
    version,    \* the version its DataWatch saw last
    armed,      \* whether ZooKeeper will tell it of the next change
    pending,    \* the events its watch thread has yet to handle
    lock,       \* who runs the watch callback: "main", "watch" or "free"
    faultless   \* so far no session expired, no connection to ZooKeeper broke

brokerVars == <<queue, bpc, bound>>
clientVars == <<cpc, address, version, armed, pending, lock>>
vars == <<znode, brokerVars, registered, clientVars, faultless>>

\* What get_host_address and the constructor put into znode_value.
AddressOf(b) == [host |-> b, pub |-> pub_reg_port, sub |-> sub_reg_port]
\* Where nobody answers: no broker given, or one of an earlier deployment.
Nowhere == AddressOf(None)

Leading(b) == bpc[b] \in {"elected", "creating", "modifying", "configuring", "serving"}

-----------------------------------------------------------------------------
\* The znode is not there, or an earlier deployment left it behind.
Init ==
    /\ znode \in {[exists |-> FALSE, version |-> 0, at |-> Nowhere],
                  [exists |-> TRUE,  version |-> 1, at |-> Nowhere]}
    /\ queue = <<>>
    /\ bpc = [b \in Broker |-> "new"]
    /\ bound = [b \in Broker |-> None]
    /\ registered = [c \in Client |-> 0]
    /\ cpc = [c \in Client |-> "new"]
    /\ address = [c \in Client |-> Nowhere]
    /\ version = [c \in Client |-> 0]
    /\ armed = [c \in Client |-> FALSE]
    /\ pending = [c \in Client |-> {}]
    /\ lock = [c \in Client |-> "free"]
    /\ faultless = TRUE

-----------------------------------------------------------------------------
(* Brokers.                                                                *)

\* Election.run creates an ephemeral sequential node; the first one leads.
Contend(b) ==
    /\ bpc[b] = "new"
    /\ bpc' = [bpc EXCEPT ![b] = "contending"]
    /\ queue' = Append(queue, b)
    /\ UNCHANGED <<znode, bound, registered, clientVars, faultless>>

Queued(b) == \E i \in 1..Len(queue) : queue[i] = b
FirstOrNot(b) == TRUE
First(b) == queue # <<>> /\ Head(queue) = b

Win(b) ==
    /\ bpc[b] = "contending"
    /\ First(b)
    /\ bpc' = [bpc EXCEPT ![b] = "elected"]
    /\ UNCHANGED <<znode, queue, bound, registered, faultless, clientVars>>

\* leader_function: zk.exists decides between create and modify.
CheckZnode(b) ==
    /\ bpc[b] = "elected"
    /\ bpc' = [bpc EXCEPT ![b] = IF znode.exists THEN "modifying" ELSE "creating"]
    /\ UNCHANGED <<znode, queue, bound, registered, clientVars, faultless>>

\* A write sets off every watch that is armed.
Write(b) ==
    /\ znode' = [exists |-> TRUE, version |-> znode.version + 1, at |-> AddressOf(b)]
    /\ pending' = [c \in Client |->
         pending[c] \cup
         IF armed[c] THEN {IF znode.exists THEN "CHANGED" ELSE "CREATED"} ELSE {}]
    /\ armed' = [c \in Client |-> FALSE]

\* create_znode.  If another leader was faster zk.create raises, and so does
\* the call of error with two arguments in the except clause: the process
\* ends, and with it its contender node.
CreateZnode(b) ==
    /\ bpc[b] = "creating"
    /\ IF znode.exists
       THEN /\ bpc' = [bpc EXCEPT ![b] = "gone"]
            /\ queue' = RemoveFirst(queue, b)
            /\ UNCHANGED <<znode, pending, armed>>
       ELSE /\ bpc' = [bpc EXCEPT ![b] = "configuring"]
            /\ Write(b)
            /\ UNCHANGED queue
    /\ UNCHANGED <<bound, registered, cpc, address, version, lock, faultless>>

\* modify_znode_value.
ModifyZnode(b) ==
    /\ bpc[b] = "modifying"
    /\ bpc' = [bpc EXCEPT ![b] = "configuring"]
    /\ Write(b)
    /\ UNCHANGED <<queue, bound, registered, cpc, address, version, lock, faultless>>

\* The loops of setup_*_port_reg_binding: the next port that can be bound.
NextRoom(port, busy) == port + Cardinality(busy)
NextFree(port, busy) ==
    CHOOSE q \in port..MaxPort :
        q \notin busy /\ \A r \in port..(q - 1) : r \in busy

Configure(b) ==
    /\ bpc[b] = "configuring"
    /\ LET pub == NextFree(pub_reg_port, Occupied[b])
           sub == NextFree(sub_reg_port, Occupied[b] \cup {pub})
       IN bound' = [bound EXCEPT ![b] = [pub |-> pub, sub |-> sub]]
    /\ bpc' = [bpc EXCEPT ![b] = "serving"]
    /\ UNCHANGED <<znode, queue, registered, clientVars, faultless>>

\* The event loop ends, or is interrupted: sockets closed, lock released.  An
\* interrupt before that ends as Crash and SessionTimeout do.
Exit(b) ==
    /\ b \in MayExit
    /\ bpc[b] = "serving"
    /\ bpc' = [bpc EXCEPT ![b] = "gone"]
    /\ bound' = [bound EXCEPT ![b] = None]
    /\ queue' = RemoveFirst(queue, b)
    /\ UNCHANGED <<znode, registered, clientVars, faultless>>

\* The process dies; ZooKeeper removes its contender node a while later.
Crash(b) ==
    /\ b \in MayCrash
    /\ bpc[b] = "contending" \/ Leading(b)
    /\ bpc' = [bpc EXCEPT ![b] = "gone"]
    /\ bound' = [bound EXCEPT ![b] = None]
    /\ UNCHANGED <<znode, queue, registered, clientVars, faultless>>

SessionTimeout(b) ==
    /\ bpc[b] = "gone"
    /\ Queued(b)
    /\ queue' = RemoveFirst(queue, b)
    /\ UNCHANGED <<znode, bpc, bound, registered, clientVars, faultless>>

\* A leader's session expires while it runs: listener4state logs it, the
\* leader goes on, its contender node is removed.
Expire(b) ==
    /\ b \in MayExpire
    /\ Leading(b)
    /\ Queued(b)
    /\ queue' = RemoveFirst(queue, b)
    /\ faultless' = FALSE
    /\ UNCHANGED <<znode, bpc, bound, registered, clientVars>>

-----------------------------------------------------------------------------
(* Clients.                                                                *)

\* driver.py: get_znode_value, update_broker_info.
Resolve(c) ==
    /\ cpc[c] = "new"
    /\ cpc' = [cpc EXCEPT ![c] = "resolved"]
    /\ address' = [address EXCEPT ![c] = znode.at]
    /\ UNCHANGED <<znode, brokerVars, registered, version, armed, pending, lock,
                   faultless>>

\* DataWatch reads the znode, arms the watch and calls back with event None:
\* configure, in the main thread, with the address read before.
FirstWatch(c) ==
    /\ cpc[c] = "resolved"
    /\ cpc' = [cpc EXCEPT ![c] = "registering"]
    /\ version' = [version EXCEPT ![c] = znode.version]
    /\ armed' = [armed EXCEPT ![c] = TRUE]
    /\ lock' = [lock EXCEPT ![c] = "main"]
    /\ UNCHANGED <<znode, brokerVars, registered, address, pending, faultless>>

\* The types of event dump_data_change acts on; a session event has none.
ConcernedMistyped(event) == event = "session"
Concerned(event) == event \in {"CHANGED", "session"}

\* DataWatch calls back only for a version it has not seen.
NewsOrNot(c) == TRUE
News(c) == version[c] # znode.version

\* The watch thread handles an event once nobody is in the callback: it reads
\* the znode, which arms the watch again, and calls back.  On CHANGED the callback
\* destroys the context and reads the znode itself; on an event that is None it
\* configures at once, as it does the first time.
RearmedIfIdle(event) == ~Concerned(event)
Rearmed(event) == TRUE

WatchEvent(c, event) ==
    /\ lock[c] = "free"
    /\ event \in pending[c]
    /\ pending' = [pending EXCEPT ![c] = @ \ {event}]
    /\ version' = [version EXCEPT ![c] = znode.version]
    /\ armed' = [armed EXCEPT ![c] = Rearmed(event)]
    /\ \/ /\ News(c) /\ Concerned(event)
          /\ cpc' = [cpc EXCEPT ![c] =
               IF event = "CHANGED" THEN "reloading" ELSE "registering"]
          /\ lock' = [lock EXCEPT ![c] = "watch"]
       \/ /\ ~(News(c) /\ Concerned(event))
          /\ UNCHANGED <<cpc, lock>>
    /\ UNCHANGED <<znode, brokerVars, registered, address, faultless>>

\* The callback's own get_znode_value, then configure.
Reload(c) ==
    /\ cpc[c] = "reloading"
    /\ cpc' = [cpc EXCEPT ![c] = "registering"]
    /\ address' = [address EXCEPT ![c] = znode.at]
    /\ UNCHANGED <<znode, brokerVars, registered, version, armed, pending, lock,
                   faultless>>

\* Some socket of the broker a client has addressed is bound to the port.
Reaches(c, socket) ==
    LET b == address[c].host
    IN /\ cpc[c] = "registering"
       /\ b # None
       /\ bpc[b] = "serving"
       /\ socket = IF c \in Publisher THEN address[c].pub ELSE address[c].sub

\* The registration is answered: configure returns, the main loop goes on.
Accept(c) ==
    LET b == address[c].host
    IN /\ b # None /\ bound[b] # None
       /\ Reaches(c, IF c \in Publisher THEN bound[b].pub ELSE bound[b].sub)
       /\ registered' = [registered EXCEPT ![c] = @ + 1]
       /\ cpc' = [cpc EXCEPT ![c] = "running"]
       /\ lock' = [lock EXCEPT ![c] = "free"]
       /\ UNCHANGED <<znode, brokerVars, address, version, armed, pending, faultless>>

\* A subscriber reaches the publishers' socket, is registered as a publisher
\* and does not find 'register_sub' in the answer.  KeyError ends the main
\* thread; in the watch thread it leaves WATCH_FLAG set, and the main thread
\* spins.
Misregister(c) ==
    LET b == address[c].host
    IN /\ c \in Subscriber
       /\ b # None /\ bound[b] # None
       /\ Reaches(c, bound[b].pub)
       /\ cpc' = [cpc EXCEPT ![c] = IF lock[c] = "main" THEN "dead" ELSE "spinning"]
       /\ lock' = [lock EXCEPT ![c] = "free"]
       /\ pending' = [pending EXCEPT ![c] = IF lock[c] = "main" THEN {} ELSE @]
       /\ armed' = [armed EXCEPT ![c] = lock[c] # "main" /\ @]
       /\ UNCHANGED <<znode, brokerVars, registered, address, version, faultless>>

\* The connection to ZooKeeper is lost and found again: kazoo hands its watch
\* an event of type NONE, and the state listener of DataWatch starts a run
\* without an event.
Blip(c) ==
    /\ c \in MayBlip
    /\ cpc[c] \notin {"new", "resolved", "dead"}
    /\ pending[c] \cap {"NONE", "session"} = {}
    /\ pending' = [pending EXCEPT ![c] =
         @ \cup {"session"} \cup (IF armed[c] THEN {"NONE"} ELSE {})]
    /\ armed' = [armed EXCEPT ![c] = FALSE]
    /\ faultless' = FALSE
    /\ UNCHANGED <<znode, brokerVars, registered, cpc, address, version, lock>>

-----------------------------------------------------------------------------
BrokerNext(b) ==
    \/ Contend(b) \/ Win(b) \/ CheckZnode(b) \/ CreateZnode(b)
    \/ ModifyZnode(b) \/ Configure(b) \/ SessionTimeout(b)

ClientNext(c) ==
    \/ Resolve(c) \/ FirstWatch(c) \/ Reload(c) \/ Accept(c) \/ Misregister(c)
    \/ \E event \in pending[c] : WatchEvent(c, event)

Next ==
    \/ \E b \in Broker : BrokerNext(b) \/ Exit(b) \/ Crash(b) \/ Expire(b)
    \/ \E c \in Client : ClientNext(c) \/ Blip(c)

Spec == Init /\ [][Next]_vars

\* Brokers and clients that live go on, and ZooKeeper notices the dead.
FairSpec ==
    /\ Spec
    /\ \A b \in Broker : WF_vars(BrokerNext(b))
    /\ \A c \in Client : WF_vars(ClientNext(c))

-----------------------------------------------------------------------------
(* Properties.                                                             *)

Address == {AddressOf(b) : b \in Broker \cup {None}}

\* Every variable stays within the values the code gives it.
TypeOK ==
    /\ znode \in [exists : BOOLEAN, version : Nat, at : Address]
    /\ queue \in Seq(Broker)
    /\ bpc \in [Broker -> {"new", "contending", "elected", "creating", "modifying",
                           "configuring", "serving", "gone"}]
    /\ bound \in [Broker -> [pub : 0..MaxPort, sub : 0..MaxPort] \cup {None}]
    /\ registered \in [Client -> Nat]
    /\ cpc \in [Client -> {"new", "resolved", "registering", "reloading",
                           "running", "spinning", "dead"}]
    /\ address \in [Client -> Address]
    /\ version \in [Client -> Nat]
    /\ armed \in [Client -> BOOLEAN]
    /\ pending \in [Client -> SUBSET {"CREATED", "CHANGED", "NONE", "session"}]
    /\ lock \in [Client -> {"main", "watch", "free"}]
    /\ faultless \in BOOLEAN

\* While sessions last, the broker that serves is the only leader, and the one
\* the znode names: no broker that left is still answering or still
\* advertised when the next one opens its sockets (leader_function under
\* Election.run).
ServingAdvertised ==
    faultless => \A b \in Broker : bpc[b] = "serving" =>
        /\ znode.exists /\ znode.at.host = b
        /\ \A o \in Broker : Leading(o) => o = b

\* While sessions last and no connection to ZooKeeper breaks, a client that
\* runs and has no event to handle has the address in the znode: a write that
\* comes while the callback reads the znode again is not overlooked.  It says
\* nothing of a client whose start is overtaken by a change between reading
\* the znode (driver.py:63) and setting the watch: that one may ask a broker
\* that is gone, and then waits for it, registering, for ever (LeftBehind).
NoMissedChange ==
    faultless => \A c \in Client :
        cpc[c] = "running" /\ lock[c] = "free" /\ pending[c] = {} =>
            /\ address[c] = znode.at
            /\ version[c] = znode.version

\* Whatever fails, there is no storm of registrations: a client registers once
\* at its start and then at most once for every write to the znode it sees.
OncePerWrite == \A c \in Client : registered[c] <= 1 + version[c]

\* Whatever fails, the watch is never lost: a client that is up has its watch
\* armed, or an event on its way that will arm it.
WatchKept ==
    \A c \in Client :
        cpc[c] \in {"new", "resolved", "dead"} \/ armed[c] \/ pending[c] # {}

\* The client waits in recv_string for an answer that cannot come: of a broker
\* that is not there, or on a port its host did not let the broker have.
LeftBehind(c) ==
    LET b == address[c].host
    IN /\ cpc[c] = "registering"
       /\ \/ b = None
          \/ bpc[b] = "gone"
          \/ bpc[b] = "serving" /\ c \in Publisher /\ bound[b].pub # address[c].pub

\* A subscriber has taken the publishers' socket for its own.
Misled(c) == cpc[c] \in {"spinning", "dead"} /\ Occupied[address[c].host] # {}

Follows(c, b) == cpc[c] = "running" /\ address[c].host = b

\* When a broker comes to serve for good, every client ends up registered with
\* it, except one that is caught waiting for a broker that is not there, or was
\* misled on a host whose ports were taken: these are the only ways to be lost.
FollowsOrLeftBehind ==
    \A b \in Broker, c \in Client :
        <>[](bpc[b] = "serving" /\ faultless) =>
            <>[](Follows(c, b) \/ LeftBehind(c) \/ Misled(c))
=============================================================================
