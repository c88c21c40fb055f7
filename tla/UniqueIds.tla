----------------------------- MODULE UniqueIds -----------------------------
(***************************************************************************)
(* DirectBroker where no two subscribers have the same id.  The id is the  *)
(* address of an object in a process of its own, so nothing in the code    *)
(* makes it unique; Switchover does without this assumption.               *)
(***************************************************************************)
EXTENDS DirectBroker

ASSUME IdAssumption == \A s, o \in Sub : IdOf[s] = IdOf[o] => s = o
=============================================================================
