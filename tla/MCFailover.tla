----------------------------- MODULE MCFailover -----------------------------
(***************************************************************************)
(* A small instance of Failover: ports 0 to 2, brokers started on 0 and 1: *)
(* where port 0 is taken, as on the first host, the publishers' socket     *)
(* ends up on port 1, the subscribers' on port 2.                          *)
(***************************************************************************)
EXTENDS Failover

CONSTANTS b1, b2, b3, p1, s1

ThreeBrokers == {b1, b2, b3}

FirstOccupied == [b \in Broker |-> IF b = b1 THEN {0} ELSE {}]
=============================================================================
