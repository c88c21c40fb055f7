--------------------------- MODULE MCCentralBroker ---------------------------
(* Small instances of CentralBroker.  Topic b has two publishers and topic a *)
(* two subscribers on one host; in one instance the name of topic b begins   *)
(* with that of topic a.                                                     *)
EXTENDS CentralBroker, TLC

CONSTANTS p1, p2, s1, s2, a, b, h, port1, port2, port3

MCTopic == {a, b}
MCPubTopics == p1 :> {b} @@ p2 :> {a, b}
OnePubTopics == p2 :> {a, b}
MCSubTopics == s1 :> {a} @@ s2 :> {a, b}
MCHostOf == s1 :> h @@ s2 :> h
Unrelated == a :> {a} @@ b :> {b}
Related == a :> {a, b} @@ b :> {b}
=============================================================================
