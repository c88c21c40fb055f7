--------------------------- MODULE MCDirectBroker ---------------------------
(* Small instances of DirectBroker.  Topic b has two publishers and topic a *)
(* two subscribers on one host; p1 and s1 share no topic.                   *)
EXTENDS UniqueIds, TLC

CONSTANTS p1, p2, s1, s2, a, b, h, port1, port2, port3

MCPub == {p1, p2}
MCSub == {s1, s2}
MCTopic == {a, b}
MCHost == {h}
MCPubTopics == p1 :> {b} @@ p2 :> {a, b}
MCSubTopics == s1 :> {a} @@ s2 :> {a, b}
MCHostOf == s1 :> h @@ s2 :> h
MCIdOf == s1 :> 1 @@ s2 :> 2
\* As many clear ports as subscribers; one registration port is in range.
MCPortRange == {pub_reg_port, port1, port2}
OneMorePort == MCPortRange \cup {port3}
OneTaken == {port3}
SubscribersLeave == MCSub
Everybody == MCPub \cup MCSub
\* One of each kind, the one with most in common.
SomeDie == {p2, s1}
=============================================================================
