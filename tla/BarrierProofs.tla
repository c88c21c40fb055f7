---------------------------- MODULE BarrierProofs ----------------------------
(***************************************************************************)
(* Proofs about Barrier, for any number of clients, of which any may die.  *)
(*                                                                         *)
(* The counts are what makes the barrier right: a number equal to cond can *)
(* only have been counted when every client had a child, and a client that *)
(* has arrived stays so.  The counts may be old when they are written, and *)
(* that does not matter.                                                   *)
(***************************************************************************)
EXTENDS Barrier, FiniteSetTheorems, TLAPS

AllArrived == \A c \in Client : Arrived(c)

\* Numbers are counts of children, and children are of those who arrived.
CountInv ==
    /\ \A c \in children : Arrived(c)
    /\ counted = cond => AllArrived
    /\ value = cond => AllArrived
    /\ reached => AllArrived
    /\ \A c \in Client : barrier[c] => AllArrived

\* A client that is up keeps its child until it passes; the driver waits.
DrainInv ==
    /\ dpc = "draining" => reached
    /\ dpc = "draining" => ~threaded
    /\ dpc \notin {"empty", "done"} =>
         \A c \in alive : cpc[c] \in {"created", "watching"} => c \in children
    /\ RemovedLast

\* While the watch is set nothing has changed since the children were counted.
\* Before there is a znode nothing is watched.
WatchInv ==
    /\ dpc = "start" => ~exists /\ ~watching
    /\ watching /\ exists =>
        /\ counted = Cardinality(children)
        /\ calling = "no" => value = counted \/ (~threaded /\ counted = 0)

IInv == TypeOK /\ CountInv /\ DrainInv /\ WatchInv

-----------------------------------------------------------------------------
\* What the number of children says: it is at most cond, it is cond only if
\* every client has a child, and 0 only if none has.
LEMMA ChildCount ==
    ASSUME NEW cs \in SUBSET Client
    PROVE  /\ Cardinality(cs) \in 0..cond
           /\ Cardinality(cs) = cond => cs = Client
           /\ Cardinality(cs) = 0 => cs = {}
<1>1. IsFiniteSet(Client) /\ IsFiniteSet(cs)
  BY BarrierAssumption, FS_Subset
<1>2. Cardinality(cs) \in Nat /\ cond \in Nat
  BY <1>1, FS_CardinalityType DEF cond
<1>3. /\ Cardinality(cs) <= cond
      /\ Cardinality(cs) = cond => cs = Client
  BY <1>1, FS_Subset DEF cond
<1>4. Cardinality(cs) = 0 => cs = {}
  BY <1>1, FS_EmptySet
<1> QED
  BY <1>2, <1>3, <1>4

\* There is somebody to wait for.
LEMMA CondPositive == cond \in Nat /\ cond # 0
<1>1. IsFiniteSet(Client) /\ Client # {}
  BY BarrierAssumption
<1>2. Cardinality(Client) \in Nat
  BY <1>1, FS_CardinalityType
<1>3. Cardinality(Client) # 0
  BY <1>1, FS_EmptySet
<1> QED
  BY <1>2, <1>3 DEF cond

LEMMA InitInv == Init => IInv
<1> SUFFICES ASSUME Init PROVE IInv
  OBVIOUS
<1>0. cond \in Nat /\ cond # 0
  BY CondPositive
<1>1. TypeOK
  <2>1. value \in 0..cond /\ counted \in 0..cond
    BY <1>0 DEF Init
  <2>2. /\ barrier \in [Client -> BOOLEAN]
        /\ armed \in [Client -> BOOLEAN]
        /\ fired \in [Client -> BOOLEAN]
    BY DEF Init
  <2>3. cpc \in [Client -> {"start", "found", "created", "watching", "gone"}]
    BY DEF Init
  <2>4. /\ exists \in BOOLEAN /\ threaded \in BOOLEAN /\ reached \in BOOLEAN
        /\ watching \in BOOLEAN /\ changed \in BOOLEAN
    BY DEF Init
  <2> QED
    BY <2>1, <2>2, <2>3, <2>4 DEF Init, TypeOK
<1>2. CountInv
  BY <1>0 DEF Init, CountInv
<1>3. DrainInv
  BY DEF Init, DrainInv, RemovedLast
<1>4. WatchInv
  BY DEF Init, WatchInv
<1> QED
  BY <1>1, <1>2, <1>3, <1>4 DEF IInv

-----------------------------------------------------------------------------
(* The steps.                                                              *)

LEMMA TypeStep == TypeOK /\ [Next]_vars => TypeOK'
<1> SUFFICES ASSUME TypeOK, [Next]_vars PROVE TypeOK'
  OBVIOUS
<1> USE DEF TypeOK
<1>0. cond \in Nat
  BY CondPositive
<1>1. CASE CreateZnode
  BY <1>1 DEF CreateZnode, callVars, clientVars
<1>2. CASE SeeReached
  BY <1>2 DEF SeeReached, zkVars, callVars, clientVars
<1>3. CASE SeeEmpty
  BY <1>3 DEF SeeEmpty, zkVars, callVars, clientVars
<1>4. CASE DeleteZnode
  BY <1>4 DEF DeleteZnode, callVars, clientVars
<1>5. CASE ReadChildren
  <2>1. Cardinality(children) \in 0..cond
    BY ChildCount
  <2> QED
    BY <1>5, <2>1 DEF ReadChildren, zkVars, clientVars
<1>6. CASE CheckZnode
  BY <1>6 DEF CheckZnode, Return, zkVars, clientVars
<1>7. CASE SetValue
  BY <1>7 DEF SetValue, NumberWritten, EverybodyThere, Return
<1>8. ASSUME NEW c \in Client, FindZnode(c) \/ CreateChild(c) \/ ReadValue(c)
      PROVE  TypeOK'
  <2>1. CASE FindZnode(c)
    BY <2>1 DEF FindZnode, zkVars, driverVars, callVars
  <2>2. CASE CreateChild(c)
    BY <2>2 DEF CreateChild, NoteChange
  <2>3. CASE ReadValue(c)
    BY <2>3 DEF ReadValue, Met, zkVars, driverVars, callVars
  <2> QED
    BY <1>8, <2>1, <2>2, <2>3
<1>9. ASSUME NEW c \in Client, Pass(c) \/ Crash(c) \/ SessionTimeout(c)
      PROVE  TypeOK'
  <2>1. CASE Pass(c)
    BY <2>1 DEF Pass, NoteChange
  <2>2. CASE Crash(c)
    BY <2>2 DEF Crash, zkVars, driverVars, callVars
  <2>3. CASE SessionTimeout(c)
    BY <2>3 DEF SessionTimeout, NoteChange, clientVars
  <2> QED
    BY <1>9, <2>1, <2>2, <2>3
<1>10. CASE UNCHANGED vars
  BY <1>10 DEF vars, zkVars, driverVars, callVars, clientVars
<1> QED
  BY <1>1, <1>2, <1>3, <1>4, <1>5, <1>6, <1>7, <1>8, <1>9, <1>10
  DEF Next, MainNext, CallbackNext, ClientNext

\* Whoever has arrived has arrived for good.
LEMMA ArrivalsStay ==
    TypeOK /\ [Next]_vars => \A c \in Client : Arrived(c) => Arrived(c)'
<1> SUFFICES ASSUME TypeOK, [Next]_vars, NEW c \in Client, Arrived(c)
             PROVE  Arrived(c)'
  OBVIOUS
<1> USE DEF TypeOK, Arrived
<1>1. CASE MainNext \/ CallbackNext
  BY <1>1 DEF MainNext, CreateZnode, SeeReached, SeeEmpty, DeleteZnode,
              CallbackNext, ReadChildren, CheckZnode, SetValue, clientVars
<1>2. ASSUME NEW o \in Client,
             ClientNext(o) \/ Pass(o) \/ Crash(o) \/ SessionTimeout(o)
      PROVE  Arrived(c)'
  BY <1>2 DEF ClientNext, FindZnode, CreateChild, ReadValue, Pass, Crash,
              SessionTimeout, clientVars
<1>3. CASE UNCHANGED vars
  BY <1>3 DEF vars, clientVars
<1> QED
  BY <1>1, <1>2, <1>3 DEF Next

LEMMA CountStep == TypeOK /\ CountInv /\ [Next]_vars => CountInv'
<1> SUFFICES ASSUME TypeOK, CountInv, [Next]_vars PROVE CountInv'
  OBVIOUS
<1>1. \A c \in Client : Arrived(c) => Arrived(c)'
  BY ArrivalsStay
<1>2. AllArrived => AllArrived'
  BY <1>1 DEF AllArrived
<1>3. \A c \in children : c \in Client /\ Arrived(c)'
  BY <1>1 DEF TypeOK, CountInv
<1>5. CASE MainNext
  BY <1>2, <1>3, <1>5
  DEF MainNext, CreateZnode, SeeReached, SeeEmpty, DeleteZnode, CountInv,
      callVars, clientVars, zkVars
<1>6. CASE ReadChildren
  <2>1. Cardinality(children) = cond => children = Client
    BY ChildCount DEF TypeOK
  <2>2. counted' = cond => AllArrived'
    BY <1>3, <1>6, <2>1 DEF ReadChildren, AllArrived
  <2> QED
    BY <1>2, <1>3, <1>6, <2>2 DEF ReadChildren, CountInv, zkVars, clientVars
<1>7. CASE CheckZnode
  BY <1>2, <1>3, <1>7 DEF CheckZnode, CountInv, zkVars, clientVars
<1>8. CASE SetValue
  <2>1. children' = children /\ counted' = counted /\ barrier' = barrier
    BY <1>8 DEF SetValue
  <2>2. value' = counted \/ value' = value
    BY <1>8 DEF SetValue, NumberWritten
  <2>3. reached' => reached \/ counted = cond
    BY <1>8 DEF SetValue, EverybodyThere
  <2> QED
    BY <1>2, <1>3, <2>1, <2>2, <2>3 DEF CountInv
<1>9. ASSUME NEW c \in Client, ClientNext(c)
      PROVE  CountInv'
  <2>1. CASE FindZnode(c)
    BY <1>2, <1>3, <2>1 DEF FindZnode, CountInv, zkVars, driverVars, callVars
  <2>2. CASE CreateChild(c)
    <3>1. Arrived(c)'
      BY <2>2 DEF CreateChild, Arrived, TypeOK
    <3> QED
      BY <1>2, <1>3, <2>2, <3>1 DEF CreateChild, NoteChange, CountInv
  <2>3. CASE ReadValue(c)
    <3>1. \A o \in Client : barrier'[o] => barrier[o] \/ value = cond
      BY <2>3 DEF ReadValue, Met, TypeOK
    <3> QED
      BY <1>2, <1>3, <2>3, <3>1
      DEF ReadValue, Met, CountInv, zkVars, driverVars, callVars
  <2> QED
    BY <1>9, <2>1, <2>2, <2>3 DEF ClientNext
<1>10. ASSUME NEW c \in Client, Pass(c) \/ Crash(c) \/ SessionTimeout(c)
       PROVE  CountInv'
  BY <1>2, <1>3, <1>10
  DEF Pass, Crash, SessionTimeout, NoteChange, CountInv, zkVars, driverVars,
      callVars, clientVars
<1>11. CASE UNCHANGED vars
  BY <1>2, <1>3, <1>11
  DEF vars, CountInv, zkVars, driverVars, callVars, clientVars
<1> QED
  BY <1>5, <1>6, <1>7, <1>8, <1>9, <1>10, <1>11 DEF Next, CallbackNext

LEMMA DrainStep ==
    TypeOK /\ CountInv /\ DrainInv /\ [Next]_vars => DrainInv'
<1> SUFFICES ASSUME TypeOK, CountInv, DrainInv, [Next]_vars PROVE DrainInv'
  OBVIOUS
<1> USE DEF DrainInv, RemovedLast
<1>1. CASE CreateZnode
  BY <1>1 DEF CreateZnode, clientVars
<1>2. CASE SeeReached
  BY <1>2 DEF SeeReached, zkVars, clientVars
<1>3. CASE SeeEmpty
  \* Nobody is on the way any more, and nobody who lives has a child.
  <2>1. ASSUME NEW c \in alive PROVE cpc[c] = "gone"
    <3>1. CASE threaded
      BY <1>3, <2>1, <3>1 DEF SeeEmpty, TypeOK
    <3>2. CASE ~threaded
      <4>1. dpc = "draining" /\ children = {}
        BY <1>3, <3>2 DEF SeeEmpty
      <4>2. Arrived(c)
        BY <4>1, <2>1 DEF CountInv, AllArrived, TypeOK
      <4>3. cpc[c] \notin {"created", "watching"}
        BY <4>1, <2>1
      <4> QED
        BY <4>2, <4>3, <2>1 DEF Arrived, TypeOK
    <3> QED
      BY <3>1, <3>2
  <2> QED
    BY <1>3, <2>1 DEF SeeEmpty, zkVars, clientVars
<1>4. CASE DeleteZnode
  BY <1>4 DEF DeleteZnode, clientVars
<1>5. CASE ReadChildren \/ CheckZnode
  BY <1>5 DEF ReadChildren, CheckZnode, Return, zkVars, clientVars
<1>6. CASE SetValue
  <2>1. reached => reached'
    BY <1>6 DEF SetValue, EverybodyThere, Return
  <2>2. /\ dpc' = (IF dpc = "created" THEN "waiting" ELSE dpc)
        /\ UNCHANGED <<threaded, children, alive, cpc>>
    BY <1>6 DEF SetValue, Return
  <2> QED
    BY <2>1, <2>2
<1>7. ASSUME NEW c \in Client, ClientNext(c) \/ Pass(c)
      PROVE  DrainInv'
  <2>1. c \in alive /\ cpc[c] # "gone"
    BY <1>7 DEF ClientNext, FindZnode, CreateChild, ReadValue, Pass
  <2>2. dpc \notin {"empty", "done"}
    BY <2>1
  <2>3. UNCHANGED <<dpc, reached, threaded, alive>>
    BY <1>7 DEF ClientNext, FindZnode, CreateChild, ReadValue, Pass, driverVars
  <2>4. \A o \in alive : cpc'[o] \in {"created", "watching"} => o \in children'
    BY <1>7, <2>2
    DEF ClientNext, FindZnode, CreateChild, ReadValue, Pass, zkVars, TypeOK
  <2> QED
    BY <2>2, <2>3, <2>4
<1>8. ASSUME NEW c \in Client, Crash(c) \/ SessionTimeout(c)
      PROVE  DrainInv'
  BY <1>8 DEF Crash, SessionTimeout, zkVars, driverVars, clientVars
<1>9. CASE UNCHANGED vars
  BY <1>9 DEF vars, zkVars, driverVars, clientVars
<1> QED
  BY <1>1, <1>2, <1>3, <1>4, <1>5, <1>6, <1>7, <1>8, <1>9
  DEF Next, MainNext, CallbackNext

LEMMA WatchStep == TypeOK /\ WatchInv /\ [Next]_vars => WatchInv'
<1> SUFFICES ASSUME TypeOK, WatchInv, [Next]_vars PROVE WatchInv'
  OBVIOUS
<1> USE DEF WatchInv
\* Whoever touches the children takes the watch off.
<1>1. ASSUME NEW c \in Client, ClientNext(c) \/ Pass(c) \/ Crash(c) \/ SessionTimeout(c)
      PROVE  WatchInv'
  <2>1. \/ watching' = FALSE
        \/ UNCHANGED <<watching, counted, children, calling, value, threaded>>
    BY <1>1
    DEF ClientNext, FindZnode, CreateChild, ReadValue, Pass, Crash, SessionTimeout,
        NoteChange, zkVars, driverVars, callVars
  <2>2. UNCHANGED <<dpc, exists>>
    BY <1>1
    DEF ClientNext, FindZnode, CreateChild, ReadValue, Pass, Crash, SessionTimeout,
        NoteChange, zkVars, driverVars, callVars
  <2> QED
    BY <2>1, <2>2
<1>2. CASE CreateZnode
  BY <1>2 DEF CreateZnode, callVars
<1>3. CASE SeeReached \/ SeeEmpty \/ DeleteZnode
  BY <1>3 DEF SeeReached, SeeEmpty, DeleteZnode, zkVars, callVars
<1>4. CASE ReadChildren
  BY <1>4 DEF ReadChildren, zkVars
<1>5. CASE CheckZnode
  <2>1. counted \in Nat
    BY CondPositive DEF TypeOK
  <2> QED
    BY <1>5, <2>1 DEF CheckZnode, Return, zkVars
<1>6. CASE SetValue
  BY <1>6 DEF SetValue, NumberWritten, Return
<1>7. CASE UNCHANGED vars
  BY <1>7 DEF vars, zkVars, driverVars, callVars
<1> QED
  BY <1>1, <1>2, <1>3, <1>4, <1>5, <1>6, <1>7 DEF Next, MainNext, CallbackNext

-----------------------------------------------------------------------------
(* The theorems.                                                           *)

LEMMA Inductive == Spec => []IInv
<1>1. Init => IInv
  BY InitInv
<1>2. IInv /\ [Next]_vars => IInv'
  BY TypeStep, CountStep, DrainStep, WatchStep DEF IInv
<1> QED
  BY <1>1, <1>2, PTL DEF Spec

\* The variables of driver, clients and ZooKeeper keep to their types.
THEOREM TypeCorrect == Spec => []TypeOK
<1>1. IInv => TypeOK
  BY DEF IInv
<1> QED
  BY <1>1, Inductive, PTL

\* data_change_watcher lets nobody through before everybody has arrived.
THEOREM NobodyPassesEarly == Spec => []NobodyEarly
<1>1. IInv => NobodyEarly
  BY DEF IInv, CountInv, AllArrived, NobodyEarly
<1> QED
  BY <1>1, Inductive, PTL

\* run_driver removes the znode only after every client that lives has passed.
THEOREM CleansUpLast == Spec => []RemovedLast
<1>1. IInv => RemovedLast
  BY DEF IInv, DrainInv
<1> QED
  BY <1>1, Inductive, PTL

\* child_change_watcher, between its calls, leaves the number of the children.
THEOREM CountIsKept == Spec => []CountKept
<1>1. IInv => CountKept
  <2> SUFFICES ASSUME IInv, calling = "no", watching, exists
               PROVE  value = Cardinality(children) \/ (~threaded /\ children = {})
    BY DEF CountKept
  <2>1. counted = Cardinality(children)
    BY DEF IInv, WatchInv
  <2>2. value = counted \/ (~threaded /\ counted = 0)
    BY DEF IInv, WatchInv
  <2>3. Cardinality(children) = 0 => children = {}
    BY ChildCount DEF IInv, TypeOK
  <2> QED
    BY <2>1, <2>2, <2>3
<1> QED
  BY <1>1, Inductive, PTL
=============================================================================
