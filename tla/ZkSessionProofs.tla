--------------------------- MODULE ZkSessionProofs ---------------------------
(***************************************************************************)
(* Proofs about ZkSession, for any number of people who run the example at *)
(* once, of which any may lose their session.                              *)
(*                                                                         *)
(* Every property follows from who can own the znode: a client that has    *)
(* made it and is not past the end of its first session.                   *)
(***************************************************************************)
EXTENDS ZkSession, TLAPS

\* The requests a client makes while the znode it created may be there.
Working == {"exists1", "get1", "exists2", "set", "get2", "exists3", "get3", "stop"}
Label == {"start", "create", "restart", "check", "finish", "closed"} \cup Working
\* Its own write is behind it.
Rewritten == {"get2", "exists3", "get3", "stop"}

\* Every variable stays within the values the code gives it.
TypeOK ==
    /\ owner \in Client \cup {None} /\ ephemeral = TRUE
    /\ value \in {zkVal, new_val}
    /\ pc \in [Client -> Label]
    /\ session \in [Client -> BOOLEAN] /\ expired \in [Client -> BOOLEAN]
    /\ created \in [Client -> BOOLEAN]
    /\ got \in [Client -> {zkVal, new_val, None}]
    /\ found \in [Client -> Client \cup {None}]

\* Whoever owns the znode has made it, in the session it still has.
OwnerInv ==
    /\ Exists => created[owner] /\ pc[owner] \in Working
    /\ \A c \in Client : pc[c] \in {"create"} \cup Working => session[c]

\* A client that has made the znode and keeps its session owns the znode until
\* it stops, and nobody undoes what it writes.
CreatorInv ==
    \A c \in Client :
        /\ created[c] => pc[c] \notin {"start", "create"}
        /\ created[c] /\ ~expired[c] /\ pc[c] \in Working => owner = c
        /\ created[c] /\ ~expired[c] /\ pc[c] \in Rewritten => value = new_val

FoundInv == \A c \in Client : found[c] # c

IInv == TypeOK /\ OwnerInv /\ CreatorInv /\ FoundInv /\ CreatorReadsNewValue

-----------------------------------------------------------------------------
LEMMA InitInv == Init => IInv
<1> SUFFICES ASSUME Init PROVE IInv
  OBVIOUS
<1>1. TypeOK
  BY DEF Init, TypeOK, Label
<1>2. OwnerInv /\ CreatorInv /\ FoundInv /\ CreatorReadsNewValue
  BY SessionAssumption
     DEF Init, OwnerInv, CreatorInv, FoundInv, CreatorReadsNewValue, Exists,
         Working
<1> QED
  BY <1>1, <1>2 DEF IInv

LEMMA TypeStep == TypeOK /\ [Next]_vars => TypeOK'
<1> SUFFICES ASSUME TypeOK, [Next]_vars PROVE TypeOK'
  OBVIOUS
<1> USE DEF TypeOK, Label, Working, Go, znode, client
<1>1. ASSUME NEW c \in Client, StartSession(c) PROVE TypeOK'
  BY <1>1 DEF StartSession
<1>2. ASSUME NEW c \in Client, CreateZnode(c) PROVE TypeOK'
  BY <1>2 DEF CreateZnode, Ephemeral
<1>3. ASSUME NEW c \in Client, CheckBeforeGet(c) PROVE TypeOK'
  BY <1>3 DEF CheckBeforeGet
<1>4. ASSUME NEW c \in Client, Get(c) PROVE TypeOK'
  BY <1>4 DEF Get
<1>5. ASSUME NEW c \in Client, CheckBeforeSet(c) PROVE TypeOK'
  BY <1>5 DEF CheckBeforeSet
<1>6. ASSUME NEW c \in Client, Set(c) PROVE TypeOK'
  BY <1>6 DEF Set, Written
<1>7. ASSUME NEW c \in Client, GetNew(c) PROVE TypeOK'
  BY <1>7 DEF GetNew
<1>8. ASSUME NEW c \in Client, StopSession(c) PROVE TypeOK'
  BY <1>8 DEF StopSession, Forget
<1>9. ASSUME NEW c \in Client, CheckGone(c) PROVE TypeOK'
  BY <1>9 DEF CheckGone
<1>10. ASSUME NEW c \in Client, Expire(c) PROVE TypeOK'
  BY <1>10 DEF Expire, Forget
<1>11. CASE UNCHANGED vars
  BY <1>11 DEF vars
<1> QED
  BY <1>1, <1>2, <1>3, <1>4, <1>5, <1>6, <1>7, <1>8, <1>9, <1>10, <1>11 DEF Next, Run

\* One step of any client keeps the invariant.
LEMMA Step == IInv /\ [Next]_vars => IInv'
<1> SUFFICES ASSUME IInv, [Next]_vars PROVE IInv'
  OBVIOUS
<1> DEFINE Inv == OwnerInv /\ CreatorInv /\ FoundInv /\ CreatorReadsNewValue
<1>0. TypeOK'
  BY TypeStep DEF IInv
<1> USE SessionAssumption
    DEF IInv, TypeOK, OwnerInv, CreatorInv, FoundInv, CreatorReadsNewValue, Exists,
        Label, Working, Rewritten, Go, znode, client
<1>1. ASSUME NEW c \in Client, StartSession(c) PROVE Inv'
  BY <1>0, <1>1 DEF StartSession
<1>2. ASSUME NEW c \in Client, CreateZnode(c) PROVE Inv'
  <2>1. CASE Exists
    BY <1>0, <1>2, <2>1 DEF CreateZnode
  <2>2. CASE ~Exists
    <3>1. owner' = c /\ created'[c] /\ pc'[c] = "exists1" /\ value' = zkVal
      BY <1>2, <2>2 DEF CreateZnode
    <3>2. \A o \in Client \ {c} : pc'[o] = pc[o] /\ created'[o] = created[o]
      BY <1>2, <2>2 DEF CreateZnode
    <3>3. session[c] /\ UNCHANGED <<session, expired, got, found>>
      BY <1>2 DEF CreateZnode
    <3>4. \A o \in Client \ {c} : pc[o] \in Working => ~created[o] \/ expired[o]
      BY <2>2
    <3> QED
      BY <3>1, <3>2, <3>3, <3>4
  <2> QED
    BY <2>1, <2>2
<1>3. ASSUME NEW c \in Client, CheckBeforeGet(c) PROVE Inv'
  BY <1>0, <1>3 DEF CheckBeforeGet
<1>4. ASSUME NEW c \in Client, Get(c) PROVE Inv'
  BY <1>0, <1>4 DEF Get
<1>5. ASSUME NEW c \in Client, CheckBeforeSet(c) PROVE Inv'
  BY <1>0, <1>5 DEF CheckBeforeSet
<1>6. ASSUME NEW c \in Client, Set(c) PROVE Inv'
  BY <1>0, <1>6 DEF Set, Written
<1>7. ASSUME NEW c \in Client, GetNew(c) PROVE Inv'
  BY <1>0, <1>7 DEF GetNew
<1>8. ASSUME NEW c \in Client, StopSession(c) PROVE Inv'
  BY <1>0, <1>8 DEF StopSession, Forget
<1>9. ASSUME NEW c \in Client, CheckGone(c) PROVE Inv'
  BY <1>0, <1>9 DEF CheckGone
<1>10. ASSUME NEW c \in Client, Expire(c) PROVE Inv'
  BY <1>0, <1>10 DEF Expire, Forget
<1>11. CASE UNCHANGED vars
  BY <1>11 DEF vars
<1>12. Inv'
  BY <1>1, <1>2, <1>3, <1>4, <1>5, <1>6, <1>7, <1>8, <1>9, <1>10, <1>11 DEF Next, Run
<1> QED
  BY <1>0, <1>12

LEMMA Invariant == Spec => []IInv
<1> QED
  BY InitInv, Step, PTL DEF Spec

-----------------------------------------------------------------------------
\* Whatever sessions are lost, the znode never outlives the session of the
\* client that made it, and nobody finds its own in the session after that.
THEOREM ZnodeGoesWithSession == Spec => []NothingLeft
<1>1. IInv => NothingLeft
  BY DEF IInv, TypeOK, OwnerInv, FoundInv, NothingLeft, Working, Exists
<1> QED
  BY <1>1, Invariant, PTL

\* However many contend for the znode, the one that made it, and keeps its
\* session, reads in the end what it has written.
THEOREM CreatorReadsItsWrite == Spec => []CreatorReadsNewValue
<1>1. IInv => CreatorReadsNewValue
  BY DEF IInv
<1> QED
  BY <1>1, Invariant, PTL
=============================================================================
