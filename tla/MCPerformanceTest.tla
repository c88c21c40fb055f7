-------------------------- MODULE MCPerformanceTest --------------------------
(***************************************************************************)
(* A network of each model: the smallest tree main.py builds, with eight   *)
(* hosts and so two subscribers, and one with six hosts and one subscriber.*)
(***************************************************************************)
EXTENDS PerformanceTest

CONSTANTS tree8, tree6

MCHosts == [n \in Network |-> IF n = tree8 THEN 8 ELSE 6]
MCModel == [n \in Network |-> IF n = tree8 THEN "centralized" ELSE "decentralized"]
MCPlan == <<tree8, tree6>>
=============================================================================
