------------------------------- MODULE Barrier -------------------------------
(***************************************************************************)
(* The barrier examples of scaffolding/ZooKeeper, in both forms: a driver  *)
(* and clients that are processes (BarrierMininet), or a driver whose      *)
(* threads are the clients (BarrierSingleProcess).                         *)
(*                                                                         *)
(* The driver creates the znode /barrier.  Each client creates an          *)
(* ephemeral child of it, and the driver, told by a ChildrenWatch, writes  *)
(* the number of children into the znode.  A client, told by a DataWatch,  *)
(* passes when it reads the number it waits for; it then disconnects, and  *)
(* its child is gone.                                                      *)
(*                                                                         *)
(* ZooKeeper and kazoo are external.  A watch fires once and says only     *)
(* that something changed; kazoo then reads the znode and sets the watch   *)
(* again in one request, so changes may be skipped, but not the last one.  *)
(* Callbacks run in a thread of kazoo, except the first, which runs in the *)
(* thread that sets the watch.                                             *)
(*                                                                         *)
(* Where a definition follows one of a similar name, the first is a variant*)
(* that a bug would give; nothing uses it.                                 *)
(***************************************************************************)
EXTENDS Integers, FiniteSets

CONSTANTS
    Client,
    MayCrash    \* clients that may die, if they are processes

ASSUME BarrierAssumption ==
    /\ IsFiniteSet(Client) /\ Client # {}
    /\ MayCrash \subseteq Client

\* numClients of the driver and cond of the clients, started to agree.
cond == Cardinality(Client)

VARIABLES
    threaded,   \* which program it is: clients are threads of the driver
    \* ZooKeeper.
    exists,     \* there is a znode /barrier
    value,      \* the number in it
    children,   \* the clients that have a child of it
    \* The driver.
    dpc,        \* what its main thread is doing
    reached,    \* its attribute barrier
    watching,   \* its ChildrenWatch is set
    changed,    \* and has fired
    calling,    \* how far the callback has got
    counted,    \* the number of children the callback was given
    \* The clients.
    alive,      \* those that have not died
    cpc,        \* what the main thread of each is doing
    barrier,    \* its attribute barrier
    armed,      \* its DataWatch is set
    fired       \* and has fired

zkVars == <<exists, value, children>>
callVars == <<watching, changed, calling, counted>>
driverVars == <<dpc, reached, callVars>>
clientVars == <<alive, cpc, barrier, armed, fired>>
vars == <<threaded, zkVars, driverVars, clientVars>>

-----------------------------------------------------------------------------
Init ==
    /\ threaded \in BOOLEAN
    /\ exists = FALSE
    /\ value = 0
    /\ children = {}
    /\ dpc = "start"
    /\ reached = FALSE
    /\ watching = FALSE
    /\ changed = FALSE
    /\ calling = "no"
    /\ counted = 0
    /\ alive = Client
    /\ cpc = [c \in Client |-> "start"]
    /\ barrier = [c \in Client |-> FALSE]
    /\ armed = [c \in Client |-> FALSE]
    /\ fired = [c \in Client |-> FALSE]

-----------------------------------------------------------------------------
(* The driver.                                                             *)

CreateZnode ==
    /\ dpc = "start"
    /\ dpc' = "created"
    /\ exists' = TRUE
    /\ UNCHANGED <<threaded, value, children, reached, callVars, clientVars>>

\* ChildrenWatch reads the children and calls back: when it is set, and when
\* it has fired.
ReadChildren ==
    /\ calling = "no"
    /\ exists
    /\ dpc = "created" \/ changed
    /\ watching' = TRUE
    /\ changed' = FALSE
    /\ counted' = Cardinality(children)
    /\ calling' = "exists"
    /\ UNCHANGED <<threaded, zkVars, dpc, reached, clientVars>>

\* The first call is made by the main thread, which goes on afterwards.
Return ==
    /\ calling' = "no"
    /\ dpc' = IF dpc = "created" THEN "waiting" ELSE dpc

\* child_change_watcher asks whether the znode exists.  Among processes it
\* leaves the number alone when there is no child.
CheckZnode ==
    /\ calling = "exists"
    /\ IF exists /\ (threaded \/ counted > 0)
       THEN calling' = "set" /\ UNCHANGED dpc
       ELSE Return
    /\ UNCHANGED <<threaded, zkVars, reached, watching, changed, counted, clientVars>>

\* What set writes, and when the driver among processes, which has read the
\* number of children, finds that everybody is there.
NumberByOne == value + 1
NumberWritten == counted
AnybodyThere == TRUE
EverybodyThere == ~threaded /\ counted = cond

\* The number is written, and sets off the watches of the clients.  If the main
\* thread has deleted the znode meanwhile, set raises and ends the callback.
SetValue ==
    /\ calling = "set"
    /\ Return
    /\ \/ /\ exists
          /\ value' = NumberWritten
          /\ fired' = [c \in Client |-> fired[c] \/ armed[c]]
          /\ armed' = [c \in Client |-> FALSE]
          /\ reached' = (reached \/ EverybodyThere)
       \/ /\ ~exists
          /\ UNCHANGED <<value, fired, armed, reached>>
    /\ UNCHANGED <<threaded, exists, children, watching, changed, counted, alive, cpc, barrier>>

\* The loop until barrier is set.
SeeReached ==
    /\ dpc = "waiting"
    /\ ~threaded /\ reached
    /\ dpc' = "draining"
    /\ UNCHANGED <<threaded, zkVars, reached, callVars, clientVars>>

\* The loop until the znode has no children, or the joins of the threads.
SeeEmpty ==
    /\ IF threaded
       THEN dpc = "waiting" /\ \A c \in Client : cpc[c] = "gone"
       ELSE dpc = "draining" /\ children = {}
    /\ dpc' = "empty"
    /\ UNCHANGED <<threaded, zkVars, reached, callVars, clientVars>>

DeleteZnode ==
    /\ dpc = "empty"
    /\ dpc' = "done"
    /\ exists' = FALSE
    /\ children' = {}
    /\ UNCHANGED <<threaded, value, reached, callVars, clientVars>>

-----------------------------------------------------------------------------
(* Clients.                                                                *)

\* Something about the children changes: their watch fires.
NoteChange ==
    /\ changed' = (changed \/ watching)
    /\ watching' = FALSE
    /\ UNCHANGED <<calling, counted>>

\* The loop until the parent znode exists.  Threads are started only once the
\* driver has set its watch.
FindZnode(c) ==
    /\ c \in alive /\ cpc[c] = "start"
    /\ threaded => dpc \notin {"start", "created"}
    /\ exists
    /\ cpc' = [cpc EXCEPT ![c] = "found"]
    /\ UNCHANGED <<threaded, zkVars, driverVars, alive, barrier, armed, fired>>

CreateChild(c) ==
    /\ c \in alive /\ cpc[c] = "found"
    /\ cpc' = [cpc EXCEPT ![c] = "created"]
    /\ children' = children \cup {c}
    /\ NoteChange
    /\ UNCHANGED <<threaded, exists, value, dpc, reached, alive, barrier, armed, fired>>

\* DataWatch reads the number and calls data_change_watcher: when it is set,
\* and when it has fired.
NearlyMet == value >= cond - 1
Met == value = cond

ReadValue(c) ==
    /\ c \in alive
    /\ exists
    /\ \/ cpc[c] = "created"
       \/ cpc[c] = "watching" /\ fired[c]
    /\ cpc' = [cpc EXCEPT ![c] = "watching"]
    /\ barrier' = [barrier EXCEPT ![c] = @ \/ Met]
    /\ armed' = [armed EXCEPT ![c] = TRUE]
    /\ fired' = [fired EXCEPT ![c] = FALSE]
    /\ UNCHANGED <<threaded, zkVars, driverVars, alive>>

\* The loop until barrier is set; stop ends the session, and with it the child.
Pass(c) ==
    /\ c \in alive /\ cpc[c] = "watching"
    /\ barrier[c]
    /\ cpc' = [cpc EXCEPT ![c] = "gone"]
    /\ armed' = [armed EXCEPT ![c] = FALSE]
    /\ fired' = [fired EXCEPT ![c] = FALSE]
    /\ children' = children \ {c}
    /\ NoteChange
    /\ UNCHANGED <<threaded, exists, value, dpc, reached, alive, barrier>>

\* A process dies; ZooKeeper removes its child a while later.
Crash(c) ==
    /\ c \in MayCrash \cap alive /\ ~threaded
    /\ cpc[c] # "gone"
    /\ alive' = alive \ {c}
    /\ armed' = [armed EXCEPT ![c] = FALSE]
    /\ fired' = [fired EXCEPT ![c] = FALSE]
    /\ UNCHANGED <<threaded, zkVars, driverVars, cpc, barrier>>

SessionTimeout(c) ==
    /\ c \in children \ alive
    /\ children' = children \ {c}
    /\ NoteChange
    /\ UNCHANGED <<threaded, exists, value, dpc, reached, clientVars>>

-----------------------------------------------------------------------------
MainNext == CreateZnode \/ SeeReached \/ SeeEmpty \/ DeleteZnode
CallbackNext == ReadChildren \/ CheckZnode \/ SetValue
ClientNext(c) == FindZnode(c) \/ CreateChild(c) \/ ReadValue(c)

Next ==
    \/ MainNext
    \/ CallbackNext
    \/ \E c \in Client :
         ClientNext(c) \/ Pass(c) \/ Crash(c) \/ SessionTimeout(c)

Spec == Init /\ [][Next]_vars

\* Both threads of the driver and of each client go on, and ZooKeeper notices
\* the dead.
FairSpec ==
    /\ Spec
    /\ WF_vars(MainNext) /\ WF_vars(CallbackNext)
    /\ \A c \in Client :
         WF_vars(ClientNext(c)) /\ WF_vars(Pass(c)) /\ WF_vars(SessionTimeout(c))

-----------------------------------------------------------------------------
(* Properties.                                                             *)

\* Every variable stays within the values the code gives it.
TypeOK ==
    /\ threaded \in BOOLEAN
    /\ exists \in BOOLEAN
    /\ value \in 0..cond
    /\ children \subseteq Client
    /\ dpc \in {"start", "created", "waiting", "draining", "empty", "done"}
    /\ reached \in BOOLEAN /\ watching \in BOOLEAN /\ changed \in BOOLEAN
    /\ calling \in {"no", "exists", "set"}
    /\ counted \in 0..cond
    /\ alive \subseteq Client
    /\ cpc \in [Client -> {"start", "found", "created", "watching", "gone"}]
    /\ barrier \in [Client -> BOOLEAN]
    /\ armed \in [Client -> BOOLEAN]
    /\ fired \in [Client -> BOOLEAN]

Arrived(c) == cpc[c] \notin {"start", "found"}

\* Nobody passes the barrier before everybody has arrived, although the number
\* in the znode is written late and from stale counts.
NobodyEarly == \A c \in Client : barrier[c] => \A o \in Client : Arrived(o)

\* The driver removes the znode only after every client that lives has passed.
RemovedLast ==
    dpc \in {"empty", "done"} => \A c \in alive : cpc[c] = "gone"

\* Whenever the driver is not at work, the number in the znode is that of the
\* children, however many came and went while it was: no change is lost between
\* two calls of child_change_watcher.
CountKept ==
    calling = "no" /\ watching /\ exists =>
        value = Cardinality(children) \/ (~threaded /\ children = {})

\* As long as nobody dies, a client passes in the end, unless another one that
\* passed before has made the driver write a smaller number.
PassedOrOvertaken ==
    \A c \in Client :
        <>(barrier[c] \/ \E o \in Client : cpc[o] = "gone" \/ o \notin alive)
=============================================================================
