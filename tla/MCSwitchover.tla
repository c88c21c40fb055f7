---------------------------- MODULE MCSwitchover ----------------------------
(* A small instance of Switchover, whose two subscribers have the same id.  *)
EXTENDS Switchover, TLC

CONSTANTS p2, s1, s2, a, b, h, port1, port2

MCPubTopics == p2 :> {a, b}
MCSubTopics == s1 :> {a} @@ s2 :> {a, b}
MCHostOf == s1 :> h @@ s2 :> h
SameId == s1 :> 1 @@ s2 :> 1
=============================================================================
