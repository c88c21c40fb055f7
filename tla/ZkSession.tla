------------------------------ MODULE ZkSession ------------------------------
(***************************************************************************)
(* The session example, scaffolding/ZooKeeper/SimpleClientSession: a       *)
(* program that, at the press of a key each time, starts a session, makes  *)
(* an ephemeral znode, reads it, changes it, reads it again, ends the      *)
(* session, starts another and looks whether the znode is gone.  Several   *)
(* people may run it at once, and by default all use the same znode.       *)
(*                                                                         *)
(* Every request is a step of its own, between which the others act.  An   *)
(* exception in an operation is printed there and the program goes on.     *)
(*                                                                         *)
(* ZooKeeper is external.  A client that loses its session while it waits  *)
(* for a key is given another by kazoo, without its znode.                 *)
(*                                                                         *)
(* Where a definition follows one of a similar name, the first is a variant*)
(* that a bug would give; nothing uses it.                                 *)
(***************************************************************************)
EXTENDS Integers

CONSTANTS
    Client,
    zkVal, new_val,     \* what create writes, and what modify_znode_value writes
    MayExpire,          \* clients that may lose their session
    None

ASSUME SessionAssumption ==
    /\ MayExpire \subseteq Client /\ None \notin Client
    /\ None \notin {zkVal, new_val} /\ zkVal # new_val

VARIABLES
    owner,      \* the client whose session keeps the znode, or None
    ephemeral,  \* it goes with that session
    value,      \* its value
    pc,         \* the request each client makes next
    session,    \* whether it has one
    created,    \* its create has succeeded
    expired,    \* it has lost a session
    got,        \* what its second get_znode_value printed, or None
    found       \* whose znode it found in the end, or None

znode == <<owner, ephemeral, value>>
client == <<session, created, expired, got, found>>
vars == <<znode, pc, client>>

-----------------------------------------------------------------------------
Init ==
    /\ owner = None /\ ephemeral = TRUE /\ value = zkVal
    /\ pc = [c \in Client |-> "start"]
    /\ session = [c \in Client |-> FALSE]
    /\ created = [c \in Client |-> FALSE]
    /\ expired = [c \in Client |-> FALSE]
    /\ got = [c \in Client |-> None]
    /\ found = [c \in Client |-> None]

Exists == owner # None

Go(c, from, to) ==
    /\ pc[c] = from
    /\ pc' = [pc EXCEPT ![c] = to]

\* The server takes away what the session of c keeps.
Forget(c) ==
    /\ owner' = IF owner = c /\ ephemeral THEN None ELSE owner
    /\ UNCHANGED <<ephemeral, value>>

StartSession(c) ==
    /\ Go(c, "start", "create") \/ Go(c, "restart", "check")
    /\ session' = [session EXCEPT ![c] = TRUE]
    /\ UNCHANGED <<znode, created, expired, got, found>>

Persistent == FALSE
Ephemeral == TRUE

\* create_znode; a znode that is there already raises.
CreateZnode(c) ==
    /\ Go(c, "create", "exists1")
    /\ IF Exists
       THEN UNCHANGED <<znode, created>>
       ELSE /\ owner' = c
            /\ ephemeral' = Ephemeral
            /\ value' = zkVal
            /\ created' = [created EXCEPT ![c] = TRUE]
    /\ UNCHANGED <<session, expired, got, found>>

\* get_znode_value, the first time and the second: exists, then get, which
\* raises if the znode is gone by now.
CheckBeforeGet(c) ==
    /\ \/ Go(c, "exists1", IF Exists THEN "get1" ELSE "exists2")
       \/ Go(c, "exists3", IF Exists THEN "get3" ELSE "stop")
    /\ UNCHANGED <<znode, client>>

Get(c) ==
    /\ \/ Go(c, "get1", "exists2") /\ UNCHANGED got
       \/ /\ Go(c, "get3", "stop")
          /\ got' = [got EXCEPT ![c] = IF Exists THEN value ELSE None]
    /\ UNCHANGED <<znode, session, created, expired, found>>

\* modify_znode_value: exists, set, which may raise, and get.
CheckBeforeSet(c) ==
    /\ Go(c, "exists2", IF Exists THEN "set" ELSE "exists3")
    /\ UNCHANGED <<znode, client>>

WrittenByMistake == zkVal
Written == new_val

Set(c) ==
    /\ Go(c, "set", IF Exists THEN "get2" ELSE "exists3")
    /\ value' = IF Exists THEN Written ELSE value
    /\ UNCHANGED <<owner, ephemeral, client>>

GetNew(c) ==
    /\ Go(c, "get2", "exists3")
    /\ UNCHANGED <<znode, client>>

StopSession(c) ==
    /\ Go(c, "stop", "restart") \/ Go(c, "finish", "closed")
    /\ session' = [session EXCEPT ![c] = FALSE]
    /\ Forget(c)
    /\ UNCHANGED <<created, expired, got, found>>

\* run_driver looks for the znode again.
CheckGone(c) ==
    /\ Go(c, "check", "finish")
    /\ found' = [found EXCEPT ![c] = owner]
    /\ UNCHANGED <<znode, session, created, expired, got>>

Expire(c) ==
    /\ c \in MayExpire
    /\ session[c] /\ ~expired[c]
    /\ expired' = [expired EXCEPT ![c] = TRUE]
    /\ Forget(c)
    /\ UNCHANGED <<pc, session, created, got, found>>

-----------------------------------------------------------------------------
Run(c) ==
    \/ StartSession(c) \/ CreateZnode(c) \/ CheckBeforeGet(c) \/ Get(c)
    \/ CheckBeforeSet(c) \/ Set(c) \/ GetNew(c) \/ StopSession(c) \/ CheckGone(c)

Next == \E c \in Client : Run(c) \/ Expire(c)

Spec == Init /\ [][Next]_vars

-----------------------------------------------------------------------------
(* Properties.                                                             *)

\* What the client that made the znode reads in the end is what it wrote,
\* however others create, read and write it meanwhile, unless it has lost its
\* session.
CreatorReadsNewValue ==
    \A c \in Client :
        created[c] /\ ~expired[c] /\ pc[c] \in {"stop", "restart", "check", "finish", "closed"}
            => got[c] = new_val

\* However sessions are lost and operations fail, the znode is there only while
\* the session of the client that made it is.  So what run_driver calls "not
\* possible", to find the znode in the second session, is possible only if
\* others run the program, whose znode it then is, and none is left in the end.
NothingLeft ==
    /\ Exists => created[owner] /\ session[owner] /\ pc[owner] # "check"
    /\ \A c \in Client : found[c] # c
=============================================================================
