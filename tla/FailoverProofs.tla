--------------------------- MODULE FailoverProofs ---------------------------
(***************************************************************************)
(* Proofs about Failover.  An invariant comes in parts, each inductive on  *)
(* top of the ones before it:                                              *)
(*                                                                         *)
(*   TypeOK       the shape of the state;                                  *)
(*   ClientInv    where each client is, against its lock, its watch and    *)
(*                the znode's version: from it OncePerWrite and WatchKept; *)
(*   LeaderInv    a leader is the first contender, and the znode is its    *)
(*                own once it has written it: from it ServingAdvertised;   *)
(*   AbsentInv    what can have happened before the znode exists;          *)
(*   FreshInv     a client that has seen the last write has the address    *)
(*                that write left: from it NoMissedChange.                 *)
(***************************************************************************)
EXTENDS Failover, FiniteSetTheorems, WellFoundedInduction, SequenceTheorems, TLAPS

LEMMA LeastElement ==
    ASSUME NEW T \in SUBSET Nat, T # {}
    PROVE  \E x \in T : \A y \in T : x <= y
<1> DEFINE R == StrictSubsetOrdering(Nat)
           Below == {0..x : x \in T}
<1>1. /\ Below \subseteq FiniteSubsetsOf(Nat)
      /\ Below # {}
  <2>1. ASSUME NEW x \in T PROVE 0..x \in FiniteSubsetsOf(Nat)
    <3>1. IsFiniteSet(0..x)
      BY FS_Interval
    <3>2. 0..x \in SUBSET Nat
      OBVIOUS
    <3> HIDE DEF Below
    <3> QED
      BY <3>1, <3>2, Zenon DEF FiniteSubsetsOf
  <2>2. Below # {}
    OBVIOUS
  <2> QED
    BY <2>1, <2>2
<1>2. PICK B \in Below : \A C \in Below : ~ (<<C, B>> \in R)
  <2>1. IsWellFoundedOn(R, FiniteSubsetsOf(Nat))
    BY FS_StrictSubsetOrderingWellFounded
  <2> HIDE DEF R, Below
  <2> QED
    BY <1>1, <2>1, WFMin
<1>3. PICK x \in T : B = 0..x
  OBVIOUS
<1>4. ASSUME NEW y \in T, ~ (x <= y) PROVE FALSE
  <2>1. 0..y \subseteq 0..x /\ 0..y # 0..x
    <3>1. x \in 0..x /\ x \notin 0..y
      BY <1>4
    <3>2. \A z \in 0..y : z \in 0..x
      BY <1>4
    <3> QED
      BY <3>1, <3>2
  <2>2. <<0..y, 0..x>> \in R
    BY <2>1 DEF StrictSubsetOrdering
  <2> QED
    BY <1>2, <1>3, <2>2
<1> QED
  BY <1>4

LEMMA RemoveFirstKeeps ==
    ASSUME NEW S, NEW q \in Seq(S), NEW e
    PROVE  /\ RemoveFirst(q, e) \in Seq(S)
           /\ q # <<>> /\ Head(q) # e =>
                RemoveFirst(q, e) # <<>> /\ Head(RemoveFirst(q, e)) = Head(q)
<1> DEFINE I == {i \in 1..Len(q) : q[i] = e}
<1>1. CASE I = {}
  <2>1. RemoveFirst(q, e) = q
    BY <1>1 DEF RemoveFirst
  <2> QED
    BY <2>1
<1>2. CASE I # {}
  <2> DEFINE k == Min(I)
  <2>1. k \in 1..Len(q) /\ q[k] = e
    <3>1. \E x \in I : \A y \in I : x <= y
      <4>1. I \in SUBSET Nat
        OBVIOUS
      <4> HIDE DEF I
      <4> QED
        BY <1>2, <4>1, LeastElement
    <3> HIDE DEF I
    <3>2. k \in I
      BY <3>1 DEF Min
    <3> QED
      BY <3>2 DEF I
  <2>2. RemoveFirst(q, e) = RemoveAt(q, k)
    <3>1. \E i \in 1..Len(q) : q[i] = e
      BY <1>2
    <3> QED
      BY <1>2, <3>1 DEF RemoveFirst, SelectInSeq
  <2> HIDE DEF k
  <2>3. RemoveAt(q, k) = SubSeq(q, 1, k - 1) \o SubSeq(q, k + 1, Len(q))
    BY DEF RemoveAt
  <2>4. RemoveAt(q, k) \in Seq(S)
    BY <2>1, <2>3, SubSeqProperties, ConcatProperties
  <2>5. ASSUME Head(q) # e PROVE RemoveAt(q, k) # <<>> /\ Head(RemoveAt(q, k)) = Head(q)
    <3>1. k # 1
      BY <2>1, <2>5
    <3>2. /\ SubSeq(q, 1, k - 1) \in Seq(S)
          /\ Len(SubSeq(q, 1, k - 1)) = k - 1
          /\ SubSeq(q, 1, k - 1)[1] = q[1]
      BY <2>1, <3>1, SubSeqProperties
    <3>3. SubSeq(q, k + 1, Len(q)) \in Seq(S)
      BY <2>1, SubSeqProperties
    <3> QED
      BY <2>1, <2>3, <3>1, <3>2, <3>3
  <2> QED
    BY <2>2, <2>4, <2>5
<1> QED
  BY <1>1, <1>2
-----------------------------------------------------------------------------
(* The invariant.                                                          *)

ClientInv ==
    \A c \in Client :
        /\ version[c] <= znode.version
        /\ armed[c] => version[c] = znode.version
        /\ cpc[c] \in {"registering", "reloading"} <=> lock[c] # "free"
        /\ cpc[c] \in {"new", "resolved"} =>
             registered[c] = 0 /\ ~armed[c] /\ pending[c] = {}
        /\ registered[c] <= IF lock[c] = "free" THEN 1 + version[c] ELSE version[c]
        /\ cpc[c] \in {"new", "resolved", "dead"} \/ armed[c] \/ pending[c] # {}

LeaderInv ==
    faultless => \A b \in Broker :
        /\ Leading(b) => First(b)
        /\ bpc[b] \in {"configuring", "serving"} => znode.exists /\ znode.at = AddressOf(b)

AbsentInv ==
    ~znode.exists =>
        /\ znode.at = Nowhere
        /\ \A c \in Client :
             /\ address[c] = Nowhere
             /\ cpc[c] \in {"new", "resolved", "registering"}
        /\ \A b \in Broker : bpc[b] # "modifying"

FreshInv ==
    faultless => \A c \in Client :
        /\ pending[c] \subseteq {"CREATED", "CHANGED"}
        /\ pending[c] # {} => ~armed[c] /\ version[c] < znode.version
        /\ "CREATED" \in pending[c] => cpc[c] = "registering" /\ address[c] = Nowhere
        /\ cpc[c] = "running" /\ version[c] = znode.version => address[c] = znode.at

IInv == TypeOK /\ ClientInv /\ LeaderInv /\ AbsentInv /\ FreshInv
-----------------------------------------------------------------------------
(* Types.                                                                  *)

LEMMA NextFreeIsFree ==
    ASSUME NEW port \in Nat, NEW busy, \E p \in port..MaxPort : p \notin busy
    PROVE  NextFree(port, busy) \in (port..MaxPort) \ busy
<1> DEFINE Free == (port..MaxPort) \ busy
<1>1. PICK q \in Free : \A r \in Free : q <= r
  <2>1. Free \in SUBSET Nat /\ Free # {}
    BY FailoverAssumption
  <2> HIDE DEF Free
  <2> QED
    BY <2>1, LeastElement
<1>2. q \in port..MaxPort /\ q \notin busy /\ \A r \in port..(q - 1) : r \in busy
  BY <1>1, FailoverAssumption
<1> QED
  BY <1>2 DEF NextFree

LEMMA PortsFound ==
    ASSUME TypeOK, NEW b \in Broker, Configure(b)
    PROVE  bound' \in [Broker -> [pub : 0..MaxPort, sub : 0..MaxPort] \cup {None}]
<1> DEFINE pub == NextFree(pub_reg_port, Occupied[b])
           sub == NextFree(sub_reg_port, Occupied[b] \cup {pub})
<1>1. PICK p \in (sub_reg_port..MaxPort) \ Occupied[b],
           q \in (sub_reg_port..MaxPort) \ Occupied[b] : p # q
  BY FailoverAssumption
<1>2. pub \in 0..MaxPort
  <2>1. p \in pub_reg_port..MaxPort /\ p \notin Occupied[b]
    BY <1>1, FailoverAssumption
  <2>2. pub \in pub_reg_port..MaxPort
    BY <2>1, NextFreeIsFree, FailoverAssumption
  <2> QED
    BY <2>2, FailoverAssumption
<1>3. sub \in 0..MaxPort
  <2> HIDE DEF pub
  <2>1. \E r \in sub_reg_port..MaxPort : r \notin Occupied[b] \cup {pub}
    BY <1>1
  <2>2. sub \in sub_reg_port..MaxPort
    BY <2>1, NextFreeIsFree, FailoverAssumption
  <2> QED
    BY <2>2, FailoverAssumption
<1>4. bound' = [bound EXCEPT ![b] = [pub |-> pub, sub |-> sub]]
  BY DEF Configure
<1> HIDE DEF pub, sub
<1> QED
  BY <1>2, <1>3, <1>4 DEF TypeOK

LEMMA WriteTypes ==
    ASSUME TypeOK, NEW b \in Broker, Write(b)
    PROVE  /\ znode' \in [exists : BOOLEAN, version : Nat, at : Address]
           /\ pending' \in [Client -> SUBSET {"CREATED", "CHANGED", "NONE", "session"}]
           /\ armed' \in [Client -> BOOLEAN]
  BY DEF TypeOK, Write, Address

LEMMA TypeStep == TypeOK /\ [Next]_vars => TypeOK'
<1> SUFFICES ASSUME TypeOK, [Next]_vars PROVE TypeOK'
  OBVIOUS
<1>1. ASSUME NEW b \in Broker, Contend(b) PROVE TypeOK'
  BY <1>1 DEF TypeOK, Contend, clientVars
<1>2. ASSUME NEW b \in Broker, Win(b) PROVE TypeOK'
  BY <1>2 DEF TypeOK, Win, clientVars
<1>3. ASSUME NEW b \in Broker, CheckZnode(b) PROVE TypeOK'
  BY <1>3 DEF TypeOK, CheckZnode, clientVars
<1>4. ASSUME NEW b \in Broker, CreateZnode(b) PROVE TypeOK'
  <2>1. RemoveFirst(queue, b) \in Seq(Broker)
    BY RemoveFirstKeeps DEF TypeOK
  <2>2. CASE znode.exists
    BY <1>4, <2>1, <2>2 DEF TypeOK, CreateZnode
  <2>3. CASE ~znode.exists
    <3>1. Write(b)
      BY <1>4, <2>3 DEF CreateZnode
    <3> QED
      BY <1>4, <2>3, <3>1, WriteTypes DEF TypeOK, CreateZnode
  <2> QED
    BY <2>2, <2>3
<1>5. ASSUME NEW b \in Broker, ModifyZnode(b) PROVE TypeOK'
  <2>1. Write(b)
    BY <1>5 DEF ModifyZnode
  <2> QED
    BY <1>5, <2>1, WriteTypes DEF TypeOK, ModifyZnode
<1>6. ASSUME NEW b \in Broker, Configure(b) PROVE TypeOK'
  BY <1>6, PortsFound DEF TypeOK, Configure, clientVars
<1>7. ASSUME NEW b \in Broker, SessionTimeout(b) PROVE TypeOK'
  BY <1>7, RemoveFirstKeeps DEF TypeOK, SessionTimeout, clientVars
<1>8. ASSUME NEW b \in Broker, Exit(b) PROVE TypeOK'
  BY <1>8, RemoveFirstKeeps DEF TypeOK, Exit, clientVars
<1>9. ASSUME NEW b \in Broker, Crash(b) PROVE TypeOK'
  BY <1>9 DEF TypeOK, Crash, clientVars
<1>10. ASSUME NEW b \in Broker, Expire(b) PROVE TypeOK'
  BY <1>10, RemoveFirstKeeps DEF TypeOK, Expire, clientVars
<1>11. ASSUME NEW c \in Client, Resolve(c) PROVE TypeOK'
  BY <1>11 DEF TypeOK, Resolve, brokerVars
<1>12. ASSUME NEW c \in Client, FirstWatch(c) PROVE TypeOK'
  BY <1>12 DEF TypeOK, FirstWatch, brokerVars
<1>13. ASSUME NEW c \in Client, Reload(c) PROVE TypeOK'
  BY <1>13 DEF TypeOK, Reload, brokerVars
<1>14. ASSUME NEW c \in Client, Accept(c) PROVE TypeOK'
  BY <1>14 DEF TypeOK, Accept, brokerVars
<1>15. ASSUME NEW c \in Client, Misregister(c) PROVE TypeOK'
  <2>1. armed' \in [Client -> BOOLEAN]
    <3>1. CASE lock[c] = "main"
      BY <1>15, <3>1 DEF TypeOK, Misregister
    <3>2. CASE lock[c] # "main"
      BY <1>15, <3>2 DEF TypeOK, Misregister
    <3> QED
      BY <3>1, <3>2
  <2> QED
    BY <1>15, <2>1 DEF TypeOK, Misregister, brokerVars
<1>16. ASSUME NEW c \in Client, NEW event \in pending[c], WatchEvent(c, event)
       PROVE  TypeOK'
  BY <1>16 DEF TypeOK, WatchEvent, Rearmed, brokerVars
<1>17. ASSUME NEW c \in Client, Blip(c) PROVE TypeOK'
  BY <1>17 DEF TypeOK, Blip, brokerVars
<1>18. CASE UNCHANGED vars
  BY <1>18 DEF TypeOK, vars, brokerVars, clientVars
<1> QED
  BY <1>1, <1>2, <1>3, <1>4, <1>5, <1>6, <1>7, <1>8, <1>9, <1>10, <1>11, <1>12,
     <1>13, <1>14, <1>15, <1>16, <1>17, <1>18 DEF Next, BrokerNext, ClientNext
-----------------------------------------------------------------------------
(* The steps.                                                              *)

LEMMA WriteEffect ==
    ASSUME TypeOK, NEW b \in Broker, Write(b)
    PROVE  /\ znode'.exists /\ znode'.version = znode.version + 1
           /\ znode'.at = AddressOf(b)
           /\ \A c \in Client :
                /\ ~armed'[c]
                /\ ~armed[c] => pending'[c] = pending[c]
                /\ armed[c] /\ znode.exists => pending'[c] = pending[c] \cup {"CHANGED"}
                /\ armed[c] /\ ~znode.exists => pending'[c] = pending[c] \cup {"CREATED"}
  BY DEF TypeOK, Write

LEMMA WriteClient ==
    ASSUME TypeOK, ClientInv, NEW b \in Broker, Write(b),
           UNCHANGED <<registered, cpc, version, lock>>
    PROVE  ClientInv'
<1> SUFFICES ASSUME NEW c \in Client PROVE ClientInv!(c)'
  BY DEF ClientInv
<1>1. znode'.version = znode.version + 1 /\ znode.version \in Nat /\ version[c] \in Nat
  BY WriteEffect DEF TypeOK
<1>2. ~armed'[c] /\ (armed[c] \/ pending[c] # {} => pending'[c] # {})
  BY WriteEffect
<1>3. cpc[c] \in {"new", "resolved"} => pending'[c] = {}
  BY WriteEffect DEF ClientInv
<1> QED
  BY <1>1, <1>2, <1>3 DEF ClientInv

LEMMA WriteFresh ==
    ASSUME TypeOK, ClientInv, AbsentInv, FreshInv, NEW b \in Broker, Write(b),
           UNCHANGED <<cpc, address, version, faultless>>
    PROVE  FreshInv'
<1> SUFFICES ASSUME faultless, NEW c \in Client PROVE FreshInv!2!(c)'
  BY DEF FreshInv
<1>1. version[c] < znode'.version
  BY WriteEffect DEF TypeOK, ClientInv
<1>2. pending'[c] \subseteq {"CREATED", "CHANGED"} /\ ~armed'[c]
  <2>1. pending[c] \subseteq {"CREATED", "CHANGED"}
    BY DEF FreshInv
  <2>2. CASE armed[c]
    BY <2>1, <2>2, WriteEffect
  <2>3. CASE ~armed[c]
    BY <2>1, <2>3, WriteEffect
  <2> QED
    BY <2>2, <2>3, WriteEffect
<1>3. ASSUME "CREATED" \in pending'[c]
      PROVE  cpc[c] = "registering" /\ address[c] = Nowhere
  <2>1. CASE "CREATED" \in pending[c]
    BY <2>1 DEF FreshInv
  <2>2. CASE "CREATED" \notin pending[c]
    <3>1. armed[c] /\ ~znode.exists
      BY <1>3, <2>2, WriteEffect DEF TypeOK
    <3> QED
      BY <3>1 DEF ClientInv, AbsentInv
  <2> QED
    BY <2>1, <2>2
<1>4. version'[c] # znode'.version
  BY <1>1 DEF TypeOK
<1> QED
  BY <1>1, <1>2, <1>3, <1>4

LEMMA ClientStep == TypeOK /\ ClientInv /\ [Next]_vars => ClientInv'
<1> SUFFICES ASSUME TypeOK, ClientInv, [Next]_vars PROVE ClientInv'
  OBVIOUS
<1>1. ASSUME NEW b \in Broker, Contend(b) PROVE ClientInv'
  BY <1>1 DEF TypeOK, ClientInv, Contend, clientVars
<1>2. ASSUME NEW b \in Broker, Win(b) PROVE ClientInv'
  BY <1>2 DEF TypeOK, ClientInv, Win, clientVars
<1>3. ASSUME NEW b \in Broker, CheckZnode(b) PROVE ClientInv'
  BY <1>3 DEF TypeOK, ClientInv, CheckZnode, clientVars
<1>4. ASSUME NEW b \in Broker, CreateZnode(b) PROVE ClientInv'
  <2>1. CASE znode.exists
    BY <1>4, <2>1 DEF TypeOK, ClientInv, CreateZnode
  <2>2. CASE ~znode.exists
    <3>1. Write(b)
      BY <1>4, <2>2 DEF CreateZnode
    <3> QED
      BY <1>4, <3>1, WriteClient DEF CreateZnode
  <2> QED
    BY <2>1, <2>2
<1>5. ASSUME NEW b \in Broker, ModifyZnode(b) PROVE ClientInv'
  <2>1. Write(b)
    BY <1>5 DEF ModifyZnode
  <2> QED
    BY <1>5, <2>1, WriteClient DEF ModifyZnode
<1>6. ASSUME NEW b \in Broker, Configure(b) PROVE ClientInv'
  BY <1>6 DEF TypeOK, ClientInv, Configure, clientVars
<1>7. ASSUME NEW b \in Broker, SessionTimeout(b) PROVE ClientInv'
  BY <1>7 DEF TypeOK, ClientInv, SessionTimeout, clientVars
<1>8. ASSUME NEW b \in Broker, Exit(b) PROVE ClientInv'
  BY <1>8 DEF TypeOK, ClientInv, Exit, clientVars
<1>9. ASSUME NEW b \in Broker, Crash(b) PROVE ClientInv'
  BY <1>9 DEF TypeOK, ClientInv, Crash, clientVars
<1>10. ASSUME NEW b \in Broker, Expire(b) PROVE ClientInv'
  BY <1>10 DEF TypeOK, ClientInv, Expire, clientVars
<1>11. ASSUME NEW c \in Client, Resolve(c) PROVE ClientInv'
  BY <1>11 DEF TypeOK, ClientInv, Resolve, brokerVars
<1>12. ASSUME NEW c \in Client, FirstWatch(c) PROVE ClientInv'
  BY <1>12 DEF TypeOK, ClientInv, FirstWatch, brokerVars
<1>13. ASSUME NEW c \in Client, Reload(c) PROVE ClientInv'
  BY <1>13 DEF TypeOK, ClientInv, Reload, brokerVars
<1>14. ASSUME NEW c \in Client, Accept(c) PROVE ClientInv'
  BY <1>14 DEF TypeOK, ClientInv, Accept, brokerVars, Reaches
<1>15. ASSUME NEW c \in Client, Misregister(c) PROVE ClientInv'
  BY <1>15 DEF TypeOK, ClientInv, Misregister, brokerVars, Reaches
<1>16. ASSUME NEW c \in Client, NEW event \in pending[c], WatchEvent(c, event)
       PROVE  ClientInv'
  BY <1>16 DEF TypeOK, ClientInv, WatchEvent, brokerVars, Rearmed, News
<1>17. ASSUME NEW c \in Client, Blip(c) PROVE ClientInv'
  BY <1>17 DEF TypeOK, ClientInv, Blip, brokerVars
<1>18. CASE UNCHANGED vars
  BY <1>18 DEF TypeOK, ClientInv, vars, brokerVars, clientVars
<1> QED
  BY <1>1, <1>2, <1>3, <1>4, <1>5, <1>6, <1>7, <1>8, <1>9, <1>10, <1>11, <1>12,
     <1>13, <1>14, <1>15, <1>16, <1>17, <1>18 DEF Next, BrokerNext, ClientNext

LEMMA LeaderStep == TypeOK /\ LeaderInv /\ [Next]_vars => LeaderInv'
<1> SUFFICES ASSUME TypeOK, LeaderInv, [Next]_vars PROVE LeaderInv'
  OBVIOUS
<1>1. ASSUME NEW b \in Broker, Contend(b) PROVE LeaderInv'
  BY <1>1 DEF TypeOK, LeaderInv, Leading, First, Contend, clientVars
<1>2. ASSUME NEW b \in Broker, Win(b) PROVE LeaderInv'
  BY <1>2 DEF TypeOK, LeaderInv, Leading, First, Win, clientVars
<1>3. ASSUME NEW b \in Broker, CheckZnode(b) PROVE LeaderInv'
  BY <1>3 DEF TypeOK, LeaderInv, Leading, First, CheckZnode, clientVars
<1>4. ASSUME NEW b \in Broker, CreateZnode(b) PROVE LeaderInv'
  <2>1. CASE znode.exists
    BY <1>4, <2>1, RemoveFirstKeeps
       DEF TypeOK, LeaderInv, Leading, First, CreateZnode
  <2>2. CASE ~znode.exists
    BY <1>4, <2>2 DEF TypeOK, LeaderInv, Leading, First, CreateZnode, Write
  <2> QED
    BY <2>1, <2>2
<1>5. ASSUME NEW b \in Broker, ModifyZnode(b) PROVE LeaderInv'
  BY <1>5 DEF TypeOK, LeaderInv, Leading, First, ModifyZnode, Write
<1>6. ASSUME NEW b \in Broker, Configure(b) PROVE LeaderInv'
  BY <1>6 DEF TypeOK, LeaderInv, Leading, First, Configure, clientVars
<1>7. ASSUME NEW b \in Broker, SessionTimeout(b) PROVE LeaderInv'
  BY <1>7, RemoveFirstKeeps DEF TypeOK, LeaderInv, Leading, First, SessionTimeout,
     clientVars
<1>8. ASSUME NEW b \in Broker, Exit(b) PROVE LeaderInv'
  BY <1>8, RemoveFirstKeeps DEF TypeOK, LeaderInv, Leading, First, Exit, clientVars
<1>9. ASSUME NEW b \in Broker, Crash(b) PROVE LeaderInv'
  BY <1>9 DEF TypeOK, LeaderInv, Leading, First, Crash, clientVars
<1>10. ASSUME NEW b \in Broker, Expire(b) PROVE LeaderInv'
  BY <1>10 DEF TypeOK, LeaderInv, Leading, First, Expire, clientVars
<1>11. ASSUME NEW c \in Client, Resolve(c) PROVE LeaderInv'
  BY <1>11 DEF TypeOK, LeaderInv, Leading, First, Resolve, brokerVars
<1>12. ASSUME NEW c \in Client, FirstWatch(c) PROVE LeaderInv'
  BY <1>12 DEF TypeOK, LeaderInv, Leading, First, FirstWatch, brokerVars
<1>13. ASSUME NEW c \in Client, Reload(c) PROVE LeaderInv'
  BY <1>13 DEF TypeOK, LeaderInv, Leading, First, Reload, brokerVars
<1>14. ASSUME NEW c \in Client, Accept(c) PROVE LeaderInv'
  BY <1>14 DEF TypeOK, LeaderInv, Leading, First, Accept, brokerVars
<1>15. ASSUME NEW c \in Client, Misregister(c) PROVE LeaderInv'
  BY <1>15 DEF TypeOK, LeaderInv, Leading, First, Misregister, brokerVars
<1>16. ASSUME NEW c \in Client, NEW event \in pending[c], WatchEvent(c, event)
       PROVE  LeaderInv'
  BY <1>16 DEF TypeOK, LeaderInv, Leading, First, WatchEvent, brokerVars
<1>17. ASSUME NEW c \in Client, Blip(c) PROVE LeaderInv'
  BY <1>17 DEF TypeOK, LeaderInv, Leading, First, Blip, brokerVars
<1>18. CASE UNCHANGED vars
  BY <1>18 DEF TypeOK, LeaderInv, Leading, First, vars, brokerVars, clientVars
<1> QED
  BY <1>1, <1>2, <1>3, <1>4, <1>5, <1>6, <1>7, <1>8, <1>9, <1>10, <1>11, <1>12,
     <1>13, <1>14, <1>15, <1>16, <1>17, <1>18 DEF Next, BrokerNext, ClientNext

LEMMA AbsentStep == TypeOK /\ ClientInv /\ AbsentInv /\ [Next]_vars => AbsentInv'
<1> SUFFICES ASSUME TypeOK, ClientInv, AbsentInv, [Next]_vars PROVE AbsentInv'
  OBVIOUS
<1>1. ASSUME NEW b \in Broker, Contend(b) PROVE AbsentInv'
  BY <1>1 DEF TypeOK, AbsentInv, Contend, clientVars
<1>2. ASSUME NEW b \in Broker, Win(b) PROVE AbsentInv'
  BY <1>2 DEF TypeOK, AbsentInv, Win, clientVars
<1>3. ASSUME NEW b \in Broker, CheckZnode(b) PROVE AbsentInv'
  BY <1>3 DEF TypeOK, AbsentInv, CheckZnode, clientVars
<1>4. ASSUME NEW b \in Broker, CreateZnode(b) PROVE AbsentInv'
  BY <1>4 DEF TypeOK, AbsentInv, CreateZnode, Write
<1>5. ASSUME NEW b \in Broker, ModifyZnode(b) PROVE AbsentInv'
  BY <1>5 DEF TypeOK, AbsentInv, ModifyZnode, Write
<1>6. ASSUME NEW b \in Broker, Configure(b) PROVE AbsentInv'
  BY <1>6 DEF TypeOK, AbsentInv, Configure, clientVars
<1>7. ASSUME NEW b \in Broker, SessionTimeout(b) PROVE AbsentInv'
  BY <1>7 DEF TypeOK, AbsentInv, SessionTimeout, clientVars
<1>8. ASSUME NEW b \in Broker, Exit(b) PROVE AbsentInv'
  BY <1>8 DEF TypeOK, AbsentInv, Exit, clientVars
<1>9. ASSUME NEW b \in Broker, Crash(b) PROVE AbsentInv'
  BY <1>9 DEF TypeOK, AbsentInv, Crash, clientVars
<1>10. ASSUME NEW b \in Broker, Expire(b) PROVE AbsentInv'
  BY <1>10 DEF TypeOK, AbsentInv, Expire, clientVars
<1>11. ASSUME NEW c \in Client, Resolve(c) PROVE AbsentInv'
  BY <1>11 DEF TypeOK, AbsentInv, Resolve, brokerVars
<1>12. ASSUME NEW c \in Client, FirstWatch(c) PROVE AbsentInv'
  BY <1>12 DEF TypeOK, AbsentInv, FirstWatch, brokerVars
<1>13. ASSUME NEW c \in Client, Reload(c) PROVE AbsentInv'
  BY <1>13 DEF TypeOK, AbsentInv, Reload, brokerVars
<1>14. ASSUME NEW c \in Client, Accept(c) PROVE AbsentInv'
  BY <1>14 DEF TypeOK, AbsentInv, Accept, Nowhere, AddressOf, brokerVars
<1>15. ASSUME NEW c \in Client, Misregister(c) PROVE AbsentInv'
  BY <1>15 DEF TypeOK, AbsentInv, Misregister, Nowhere, AddressOf, brokerVars
<1>16. ASSUME NEW c \in Client, NEW event \in pending[c], WatchEvent(c, event)
       PROVE  AbsentInv'
  BY <1>16 DEF TypeOK, ClientInv, AbsentInv, WatchEvent, brokerVars
<1>17. ASSUME NEW c \in Client, Blip(c) PROVE AbsentInv'
  BY <1>17 DEF TypeOK, AbsentInv, Blip, brokerVars
<1>18. CASE UNCHANGED vars
  BY <1>18 DEF TypeOK, AbsentInv, vars, brokerVars, clientVars
<1> QED
  BY <1>1, <1>2, <1>3, <1>4, <1>5, <1>6, <1>7, <1>8, <1>9, <1>10, <1>11, <1>12,
     <1>13, <1>14, <1>15, <1>16, <1>17, <1>18 DEF Next, BrokerNext, ClientNext

LEMMA FreshStep ==
    TypeOK /\ ClientInv /\ LeaderInv /\ AbsentInv /\ FreshInv /\ [Next]_vars => FreshInv'
<1> SUFFICES ASSUME TypeOK, ClientInv, LeaderInv, AbsentInv, FreshInv, [Next]_vars
             PROVE  FreshInv'
  OBVIOUS
<1>1. ASSUME NEW b \in Broker, Contend(b) PROVE FreshInv'
  BY <1>1 DEF TypeOK, FreshInv, Contend, clientVars
<1>2. ASSUME NEW b \in Broker, Win(b) PROVE FreshInv'
  BY <1>2 DEF TypeOK, FreshInv, Win, clientVars
<1>3. ASSUME NEW b \in Broker, CheckZnode(b) PROVE FreshInv'
  BY <1>3 DEF TypeOK, FreshInv, CheckZnode, clientVars
<1>4. ASSUME NEW b \in Broker, CreateZnode(b) PROVE FreshInv'
  <2>1. CASE znode.exists
    BY <1>4, <2>1 DEF TypeOK, FreshInv, CreateZnode
  <2>2. CASE ~znode.exists
    <3>1. Write(b)
      BY <1>4, <2>2 DEF CreateZnode
    <3> QED
      BY <1>4, <3>1, WriteFresh DEF CreateZnode
  <2> QED
    BY <2>1, <2>2
<1>5. ASSUME NEW b \in Broker, ModifyZnode(b) PROVE FreshInv'
  <2>1. Write(b)
    BY <1>5 DEF ModifyZnode
  <2> QED
    BY <1>5, <2>1, WriteFresh DEF ModifyZnode
<1>6. ASSUME NEW b \in Broker, Configure(b) PROVE FreshInv'
  BY <1>6 DEF TypeOK, FreshInv, Configure, clientVars
<1>7. ASSUME NEW b \in Broker, SessionTimeout(b) PROVE FreshInv'
  BY <1>7 DEF TypeOK, FreshInv, SessionTimeout, clientVars
<1>8. ASSUME NEW b \in Broker, Exit(b) PROVE FreshInv'
  BY <1>8 DEF TypeOK, FreshInv, Exit, clientVars
<1>9. ASSUME NEW b \in Broker, Crash(b) PROVE FreshInv'
  BY <1>9 DEF TypeOK, FreshInv, Crash, clientVars
<1>10. ASSUME NEW b \in Broker, Expire(b) PROVE FreshInv'
  BY <1>10 DEF TypeOK, FreshInv, Expire, clientVars
<1>11. ASSUME NEW c \in Client, Resolve(c) PROVE FreshInv'
  BY <1>11 DEF TypeOK, FreshInv, Resolve, brokerVars
<1>12. ASSUME NEW c \in Client, FirstWatch(c) PROVE FreshInv'
  BY <1>12 DEF TypeOK, ClientInv, FreshInv, FirstWatch, brokerVars
<1>13. ASSUME NEW c \in Client, Reload(c) PROVE FreshInv'
  BY <1>13 DEF TypeOK, FreshInv, Reload, brokerVars
<1>14. ASSUME NEW c \in Client, Accept(c) PROVE FreshInv'
  <2> DEFINE b == address[c].host
  <2>1. /\ cpc' = [cpc EXCEPT ![c] = "running"]
        /\ b # None /\ bpc[b] = "serving" /\ cpc[c] = "registering"
        /\ UNCHANGED <<znode, address, version, armed, pending, faultless>>
    BY <1>14 DEF Accept, Reaches, brokerVars
  <2>2. b \in Broker /\ address[c] = AddressOf(b)
    BY <2>1 DEF TypeOK, Address, AddressOf
  <2>3. faultless => address[c] = znode.at
    BY <2>1, <2>2 DEF LeaderInv
  <2>4. address[c] # Nowhere
    BY <2>1 DEF Nowhere, AddressOf
  <2> QED
    BY <2>1, <2>3, <2>4 DEF TypeOK, FreshInv
<1>15. ASSUME NEW c \in Client, Misregister(c) PROVE FreshInv'
  <2>1. /\ address[c] # Nowhere
        /\ cpc'[c] \in {"dead", "spinning"} /\ pending'[c] \subseteq pending[c]
        /\ armed'[c] => armed[c]
        /\ \A d \in Client \ {c} :
             cpc'[d] = cpc[d] /\ pending'[d] = pending[d] /\ armed'[d] = armed[d]
        /\ UNCHANGED <<znode, address, version, faultless>>
    BY <1>15 DEF TypeOK, Misregister, Nowhere, AddressOf
  <2> QED
    BY <2>1 DEF FreshInv
<1>16. ASSUME NEW c \in Client, NEW event \in pending[c], WatchEvent(c, event)
       PROVE  FreshInv'
  <2> SUFFICES ASSUME faultless, NEW d \in Client PROVE FreshInv!2!(d)'
    BY <1>16 DEF FreshInv, WatchEvent
  <2>1. CASE d # c
    BY <1>16, <2>1 DEF TypeOK, FreshInv, WatchEvent
  <2>2. CASE d = c
    <3>1. lock[c] = "free" /\ cpc[c] # "registering"
      BY <1>16 DEF ClientInv, WatchEvent
    <3>2. pending[c] = {"CHANGED"} /\ event = "CHANGED" /\ version[c] < znode.version
      BY <1>16, <3>1 DEF FreshInv, WatchEvent
    <3>3. pending'[c] = {}
      BY <1>16, <3>2 DEF TypeOK, WatchEvent
    <3>4. cpc'[c] = "reloading"
      BY <1>16, <3>2 DEF TypeOK, WatchEvent, News, Concerned
    <3> QED
      BY <2>2, <3>3, <3>4
  <2> QED
    BY <2>1, <2>2
<1>17. ASSUME NEW c \in Client, Blip(c) PROVE FreshInv'
  BY <1>17 DEF TypeOK, FreshInv, Blip, brokerVars
<1>18. CASE UNCHANGED vars
  BY <1>18 DEF TypeOK, FreshInv, vars, brokerVars, clientVars
<1> QED
  BY <1>1, <1>2, <1>3, <1>4, <1>5, <1>6, <1>7, <1>8, <1>9, <1>10, <1>11, <1>12,
     <1>13, <1>14, <1>15, <1>16, <1>17, <1>18 DEF Next, BrokerNext, ClientNext
-----------------------------------------------------------------------------
(* The theorems.                                                           *)

LEMMA Inductive ==
    /\ Init => IInv
    /\ IInv /\ [Next]_vars => IInv'
<1>1. ASSUME Init PROVE TypeOK
  <2>1. znode \in [exists : BOOLEAN, version : Nat, at : Address]
    <3>1. Nowhere \in Address
      BY DEF Nowhere, Address
    <3>2. PICK v \in {0, 1}, e \in BOOLEAN :
            znode = [exists |-> e, version |-> v, at |-> Nowhere]
      BY <1>1 DEF Init
    <3> QED
      BY <3>1, <3>2
  <2>2. queue \in Seq(Broker)
    BY <1>1 DEF Init
  <2>3. address \in [Client -> Address]
    BY <1>1 DEF Init, Nowhere, Address
  <2> QED
    BY <1>1, <2>1, <2>2, <2>3 DEF Init, TypeOK
<1>2. ASSUME Init PROVE ClientInv /\ LeaderInv /\ AbsentInv /\ FreshInv
  BY <1>2 DEF Init, ClientInv, LeaderInv, Leading, AbsentInv, FreshInv
<1> QED
  BY <1>1, <1>2, TypeStep, ClientStep, LeaderStep, AbsentStep, FreshStep DEF IInv

LEMMA Invariant == Spec => []IInv
  BY Inductive, PTL DEF Spec

\* Every variable stays within the values the code gives it; the loops that
\* look for a port come back with one that can be bound.
THEOREM TypeCorrect == Spec => []TypeOK
<1>1. IInv => TypeOK
  BY DEF IInv
<1> QED
  BY <1>1, Invariant, PTL

\* For any brokers and clients and whatever fails: a client registers once at
\* its start and at most once for every write to the znode it has seen.
THEOREM NoStorm == Spec => []OncePerWrite
<1>1. IInv => OncePerWrite
  BY DEF IInv, TypeOK, ClientInv, OncePerWrite
<1> QED
  BY <1>1, Invariant, PTL

\* For any brokers and clients and whatever fails: a client that is up will
\* hear of the next write, or has an event yet to handle.
THEOREM WatchNeverLost == Spec => []WatchKept
<1>1. IInv => WatchKept
  BY DEF IInv, ClientInv, WatchKept
<1> QED
  BY <1>1, Invariant, PTL

\* For any number of brokers: as long as sessions last, the one that serves is
\* the only leader, and the znode names it.
THEOREM LeaderAdvertised == Spec => []ServingAdvertised
<1>1. ASSUME LeaderInv PROVE ServingAdvertised
  <2> SUFFICES ASSUME faultless, NEW b \in Broker, bpc[b] = "serving"
               PROVE  /\ znode.exists /\ znode.at.host = b
                      /\ \A o \in Broker : Leading(o) => o = b
    BY DEF ServingAdvertised
  <2>1. znode.exists /\ znode.at.host = b
    <3>1. znode.exists /\ znode.at = AddressOf(b)
      BY <1>1 DEF LeaderInv
    <3>2. AddressOf(b).host = b
      BY DEF AddressOf
    <3> QED
      BY <3>1, <3>2
  <2>2. Head(queue) = b
    BY <1>1 DEF LeaderInv, Leading, First
  <2>3. \A o \in Broker : Leading(o) => Head(queue) = o
    BY <1>1 DEF LeaderInv, First
  <2> QED
    BY <2>1, <2>2, <2>3
<1> QED
  BY <1>1, Invariant, PTL DEF IInv

\* For any brokers and clients: as long as sessions and connections last, a
\* client at rest has the address the znode holds.
THEOREM ClientsUpToDate == Spec => []NoMissedChange
<1>1. ASSUME ClientInv, FreshInv PROVE NoMissedChange
  BY <1>1 DEF ClientInv, FreshInv, NoMissedChange
<1> QED
  BY <1>1, Invariant, PTL DEF IInv
=============================================================================
