------------------------ MODULE PerformanceTestProofs ------------------------
(***************************************************************************)
(* Proofs about PerformanceTest, for any networks, any plan that tests each*)
(* of them at most once, any number of events and of runs.  The inductive  *)
(* invariant comes in parts:                                               *)
(*                                                                         *)
(*   TypeOK       the shape of the state;                                  *)
(*   SubInv       the subscribers that run are those of the network being  *)
(*                tested, and the others are gone;                         *)
(*   CutInv       who left a file empty;                                   *)
(*   FreshInv     who wrote what is in a folder that was empty: from it    *)
(*   PassedInv    that a file counted as a success there stays as it is,   *)
(*                which is FreshSuccessLasts;                              *)
(*   ResultsInv   a test with a success has left a file: from it and       *)
(*                CutInv ReportedUnlessCut, which is itself the last part. *)
(***************************************************************************)
EXTENDS PerformanceTest, SequenceTheorems, TLAPS

Setup == {"zookeeper", "brokers", "subscribers"}
Active == {"publishers", "wait", "verify", "kill", "terminate"}
Ended == {"plot", "raised", "report", "reported"}

TypeOK ==
    /\ run \in Nat /\ pos \in 1..Len(Plan)
    /\ step \in {"prepare"} \cup Setup \cup Active \cup Ended
    /\ index \in Nat
    /\ lines \in [File -> Int] /\ DOMAIN writer = File
    /\ passed \subseteq File /\ cut \subseteq File /\ fresh \subseteq Network
    /\ DOMAIN received = DOMAIN sub
    /\ \A i \in DOMAIN sub :
         /\ sub[i] \in {"starting", "listening", "writing", "leaving", "gone"}
         /\ received[i] \in 0..num_events
    /\ step = "verify" => index \in Index(network)
    /\ step \in Ended => pos = Len(Plan)

SubInv ==
    /\ step \in Active => DOMAIN sub = Index(network)
    /\ step \notin Active => \A i \in DOMAIN sub : sub[i] = "gone"
    /\ step = "terminate" => \A i \in DOMAIN sub : i < index => sub[i] = "gone"
    /\ \A i \in DOMAIN sub : sub[i] \in {"writing", "leaving"} => received[i] = num_events

CutInv ==
    /\ \A i \in DOMAIN sub : sub[i] = "writing" => lines[FileOf(i)] = 0
    /\ \A f \in File : lines[f] = 0 =>
         f \in cut \/ \E i \in DOMAIN sub : f = FileOf(i) /\ sub[i] = "writing"

\* A file of the test that runs, in a folder that was empty.
Own(i) ==
    \/ lines[FileOf(i)] = -1
    \/ /\ step \in Active /\ writer[FileOf(i)] = Test
       /\ lines[FileOf(i)] = 0 \/ sub[i] \in {"leaving", "gone"}

FreshInv ==
    /\ \A n \in fresh : \E k \in 1..pos : Plan[k] = n
    /\ step = "prepare" => network \notin fresh
    /\ step \in Setup \cup Active /\ network \in fresh => \A i \in Index(network) : Own(i)

PassedInv ==
    \A f \in passed : \E k \in 1..pos :
        /\ Plan[k] = f[1]
        /\ k = pos => step \in {"verify", "kill", "terminate"} \cup Ended
        /\ f[1] \in fresh => lines[f] = num_events /\ writer[f] = (run - 1) * Len(Plan) + k

HasFile(n) == \E f \in File : f[1] = n /\ lines[f] >= 0

ResultsInv ==
    /\ results \in Seq([successes : Nat, failures : Nat])
    /\ successes \in Nat /\ failures \in Nat
    /\ Len(results) = IF step \in Ended THEN pos ELSE pos - 1
    /\ \A k \in 1..Len(results) : results[k].successes # 0 => HasFile(Plan[k])
    /\ step \in Setup \cup Active => (successes # 0 => HasFile(network))

IInv ==
    /\ TypeOK /\ SubInv /\ CutInv /\ FreshInv /\ PassedInv /\ ResultsInv
    /\ ReportedUnlessCut

-----------------------------------------------------------------------------
(* The plan and the files.                                                 *)

LEMMA Subscribers ==
    ASSUME NEW n \in Network
    PROVE  num_subscribers(n) \in Nat \ {0}
BY PerformanceAssumption DEF num_subscribers, OFFSET

LEMMA PlanOnce ==
    /\ \A k \in 1..Len(Plan) : Plan[k] \in Network
    /\ \A j, k \in 1..Len(Plan) : Plan[j] = Plan[k] => j = k
    /\ Len(Plan) \in Nat \ {0}
<1>1. /\ Len(Plan) \in Nat \ {0} /\ DOMAIN Plan = 1..Len(Plan)
      /\ \A k \in 1..Len(Plan) : Plan[k] \in Network
  BY PerformanceAssumption
<1>2. \A j, k \in DOMAIN Plan : Plan[j] = Plan[k] => j = k
  BY PerformanceAssumption DEF IsInjective
<1> QED
  BY <1>1, <1>2

LEMMA Files ==
    /\ \A n \in Network : \A i \in Index(n) : <<n, i>> \in File
    /\ \A f \in File : f[1] \in Network /\ f[2] \in Index(f[1]) /\ f = <<f[1], f[2]>>
BY DEF File

\* The files of the test that runs.
LEMMA Here ==
    ASSUME TypeOK
    PROVE  /\ network \in Network
           /\ num_subscribers(network) \in Nat \ {0}
           /\ \A i \in Index(network) : FileOf(i) \in File
           /\ \A i, j : FileOf(i) = FileOf(j) => i = j
<1>1. network \in Network
  BY PlanOnce DEF TypeOK, network
<1> QED
  BY <1>1, Subscribers, Files DEF FileOf

\* Subscribers run only while a test is active, and they are its own.
LEMMA Running ==
    ASSUME TypeOK, SubInv, NEW i \in DOMAIN sub, sub[i] # "gone"
    PROVE  step \in Active /\ i \in Index(network) /\ FileOf(i) \in File
BY Here DEF SubInv

-----------------------------------------------------------------------------
(* Every step preserves the invariant.                                     *)

Process(i) ==
    Connect(i) \/ Receive(i) \/ OpenFile(i) \/ CloseFile(i) \/ Disconnect(i) \/ Fail(i)

LEMMA ProcessSteps ==
    ASSUME TypeOK, SubInv, NEW i \in DOMAIN sub, Process(i)
    PROVE  /\ UNCHANGED <<run, pos, step, counts, fresh>>
           /\ step \in Active /\ i \in Index(network) /\ FileOf(i) \in File
           /\ DOMAIN sub' = DOMAIN sub /\ DOMAIN received' = DOMAIN received
           /\ \A j \in DOMAIN sub \ {i} : sub'[j] = sub[j] /\ received'[j] = received[j]
           /\ sub[i] # "gone"
           /\ sub'[i] \in {"listening", "writing", "leaving", "gone"}
           /\ received'[i] \in 0..num_events
           /\ sub'[i] \in {"writing", "leaving"} => received'[i] = num_events
<1>1. Environment /\ sub[i] # "gone"
  BY DEF Process, Connect, Receive, OpenFile, CloseFile, Disconnect, Fail, Become
<1>2. received[i] \in 0..num_events /\ num_events \in Nat
  BY PerformanceAssumption DEF TypeOK
<1>3. /\ DOMAIN sub' = DOMAIN sub /\ DOMAIN received' = DOMAIN received
      /\ \A j \in DOMAIN sub \ {i} : sub'[j] = sub[j] /\ received'[j] = received[j]
  BY DEF Process, Connect, Receive, OpenFile, CloseFile, Disconnect, Fail, Become, TypeOK,
     subscribers, AfterDisconnect
<1>4. /\ sub'[i] \in {"listening", "writing", "leaving", "gone"}
      /\ received'[i] \in 0..num_events
      /\ sub'[i] \in {"writing", "leaving"} => received'[i] = num_events
  <2>1. CASE Receive(i)
    BY <1>2, <2>1 DEF Receive, Wants, TypeOK
  <2>2. CASE OpenFile(i)
    BY <1>2, <2>2 DEF OpenFile, Become, Wants
  <2>3. CASE CloseFile(i)
    BY <1>2, <2>3 DEF CloseFile, Become, SubInv
  <2>4. CASE Connect(i) \/ Disconnect(i) \/ Fail(i)
    BY <1>2, <2>4 DEF Connect, Disconnect, Fail, Become, AfterDisconnect
  <2> QED
    BY <2>1, <2>2, <2>3, <2>4 DEF Process
<1> QED
  BY <1>1, <1>3, <1>4, Running DEF Environment

LEMMA TypeStep ==
    TypeOK /\ SubInv /\ [Next]_vars => TypeOK'
<1> SUFFICES ASSUME TypeOK, SubInv, [Next]_vars PROVE TypeOK'
  OBVIOUS
<1>1. CASE Prepare
  BY <1>1, Here DEF TypeOK, Prepare, GoOn, disk, services, subscribers, Setup, Active, Ended
<1>2. CASE SetupZookeeper \/ SetupBrokers \/ SetupPublishers
  BY <1>2 DEF TypeOK, SetupZookeeper, SetupBrokers, SetupPublishers, GoOn, counts, disk,
     subscribers, Setup, Active, Ended
<1>3. CASE SetupSubscribers
  <2>1. /\ DOMAIN sub' = DOMAIN received'
        /\ \A i \in DOMAIN sub' : sub'[i] = "starting" /\ received'[i] = 0
    BY <1>3 DEF SetupSubscribers
  <2>2. 0 \in 0..num_events
    BY PerformanceAssumption
  <2> QED
    BY <1>3, <2>1, <2>2 DEF TypeOK, SetupSubscribers, GoOn, counts, disk, Setup, Active, Ended
<1>4. CASE Wait
  <2>1. 0 \in Index(network)
    BY Here DEF Index
  <2> QED
    BY <1>4, <2>1 DEF TypeOK, Wait, GoOn, disk, subscribers, Setup, Active, Ended, network
<1>5. CASE Verify
  <2>1. /\ index \in Index(network) /\ FileOf(index) \in File
    BY <1>5, Here DEF Verify, TypeOK
  <2>2. passed' \subseteq File
    BY <1>5, <2>1 DEF Verify, TypeOK
  <2>3. index' \in Nat /\ (step' = "verify" => index' \in Index(network))
    BY <1>5, <2>1, Here DEF Verify, GoOn, Index
  <2>4. step' \in {"kill", "verify"}
    BY <1>5 DEF Verify, GoOn
  <2> QED
    BY <1>5, <2>2, <2>3, <2>4
       DEF TypeOK, Verify, GoOn, disk, subscribers, Setup, Active, Ended, network
<1>6. CASE KillZookeeper
  BY <1>6 DEF TypeOK, KillZookeeper, GoOn, disk, subscribers, Setup, Active, Ended
<1>7. CASE KillSubscriber
  <2>1. DOMAIN sub' = DOMAIN sub
        /\ \A i \in DOMAIN sub : sub'[i] \in {sub[i], "gone"}
    BY <1>7 DEF KillSubscriber
  <2>2. cut' \subseteq File
    BY <1>7, Here DEF KillSubscriber, TypeOK
  <2> QED
    BY <1>7, <2>1, <2>2 DEF TypeOK, KillSubscriber, GoOn, Setup, Active, Ended
<1>8. CASE StopNetwork
  <2>1. /\ pos' \in 1..Len(Plan) /\ step' \in {"prepare", "plot"}
        /\ step' = "plot" => pos' = Len(Plan)
    BY <1>8, PlanOnce DEF TypeOK, StopNetwork
  <2> QED
    BY <1>8, <2>1 DEF TypeOK, StopNetwork, disk, subscribers, Setup, Active, Ended
<1>9. CASE GeneratePlots \/ CheckSuccessRate
  BY <1>9 DEF TypeOK, GeneratePlots, CheckSuccessRate, GoOn, counts, disk, subscribers, Setup, Active, Ended
<1>10. CASE RunAgain
  BY <1>10, PlanOnce DEF TypeOK, RunAgain, disk, subscribers, Setup, Active, Ended
<1>11. CASE ZookeeperStops
  BY <1>11 DEF TypeOK, ZookeeperStops, Environment, counts, disk, subscribers, network
<1>12. ASSUME NEW i \in DOMAIN sub, Process(i) PROVE TypeOK'
  <2>1. /\ lines' \in [File -> Int] /\ DOMAIN writer' = File /\ cut' \subseteq File
    <3>1. received[i] \in Int
      BY DEF TypeOK
    <3> QED
      BY <1>12, <3>1 DEF TypeOK, Process, Connect, Receive, OpenFile, CloseFile, Disconnect,
         Fail, disk
  <2>2. /\ DOMAIN received' = DOMAIN sub'
        /\ \A j \in DOMAIN sub' :
             /\ sub'[j] \in {"starting", "listening", "writing", "leaving", "gone"}
             /\ received'[j] \in 0..num_events
    BY <1>12, ProcessSteps DEF TypeOK
  <2>3. UNCHANGED <<run, pos, step, counts, fresh>>
    BY <1>12, ProcessSteps
  <2> QED
    BY <2>1, <2>2, <2>3 DEF TypeOK, counts, network
<1>13. CASE UNCHANGED vars
  BY <1>13 DEF TypeOK, vars, counts, disk, services, subscribers, network
<1> QED
  BY <1>1, <1>2, <1>3, <1>4, <1>5, <1>6, <1>7, <1>8, <1>9, <1>10, <1>11, <1>12, <1>13
     DEF Next, Main, Process

LEMMA SubStep ==
    TypeOK /\ SubInv /\ [Next]_vars => SubInv'
<1> SUFFICES ASSUME TypeOK, SubInv, [Next]_vars PROVE SubInv'
  OBVIOUS
<1>1. CASE Prepare \/ SetupZookeeper \/ SetupBrokers
  BY <1>1 DEF SubInv, Prepare, SetupZookeeper, SetupBrokers, GoOn, subscribers, Active
<1>2. CASE SetupSubscribers
  BY <1>2 DEF SubInv, SetupSubscribers, GoOn, Active, network
<1>3. CASE SetupPublishers \/ Wait \/ Verify
  BY <1>3 DEF SubInv, SetupPublishers, Wait, Verify, GoOn, subscribers, Active, network
<1>4. CASE KillZookeeper
  <2>1. DOMAIN sub = 0..(num_subscribers(network) - 1) /\ num_subscribers(network) \in Nat
    BY <1>4, Here DEF KillZookeeper, GoOn, SubInv, Active, Index
  <2> QED
    BY <1>4, <2>1 DEF SubInv, KillZookeeper, GoOn, subscribers, Active, network
<1>5. CASE KillSubscriber
  <2>1. /\ DOMAIN sub' = DOMAIN sub /\ index \in Index(network) /\ index' = index + 1
        /\ sub'[index] = "gone" /\ \A i \in DOMAIN sub : sub'[i] \in {sub[i], "gone"}
        /\ step = "terminate" /\ UNCHANGED <<step, pos, received>>
    BY <1>5 DEF KillSubscriber, GoOn, SubInv, Active
  <2>2. \A i \in DOMAIN sub : i < index' => i < index \/ i = index
    BY <2>1, Here DEF SubInv, Active, Index
  <2> QED
    BY <2>1, <2>2 DEF SubInv, Active, network
<1>6. CASE StopNetwork
  <2>1. \A i \in DOMAIN sub : sub[i] = "gone"
    BY <1>6, Here DEF StopNetwork, SubInv, Active, Index
  <2> QED
    BY <1>6, <2>1 DEF StopNetwork, SubInv, subscribers, Active
<1>7. CASE GeneratePlots \/ CheckSuccessRate
  BY <1>7 DEF SubInv, GeneratePlots, CheckSuccessRate, GoOn, subscribers, Active
<1>8. CASE RunAgain
  BY <1>8 DEF SubInv, RunAgain, subscribers, Active
<1>9. CASE ZookeeperStops \/ UNCHANGED vars
  BY <1>9 DEF SubInv, ZookeeperStops, Environment, vars, counts, subscribers, network
<1>10. ASSUME NEW i \in DOMAIN sub, Process(i) PROVE SubInv'
  BY <1>10, ProcessSteps DEF SubInv, counts, network
<1> QED
  BY <1>1, <1>2, <1>3, <1>4, <1>5, <1>6, <1>7, <1>8, <1>9, <1>10 DEF Next, Main, Process

\* The program itself touches no file, and a subscriber only its own.
LEMMA FilesStep ==
    ASSUME TypeOK, SubInv, [Next]_vars
    PROVE  \/ UNCHANGED <<lines, writer>>
           \/ \E i \in DOMAIN sub : OpenFile(i) \/ CloseFile(i)
BY DEF Next, Main, Prepare, SetupZookeeper, SetupBrokers, SetupSubscribers, SetupPublishers,
   Wait, Verify, KillZookeeper, KillSubscriber, StopNetwork, GeneratePlots, CheckSuccessRate,
   RunAgain, ZookeeperStops, Connect, Receive, Disconnect, Fail, vars, disk

LEMMA CutStep ==
    TypeOK /\ SubInv /\ CutInv /\ [Next]_vars => CutInv'
<1> SUFFICES ASSUME TypeOK, SubInv, CutInv, [Next]_vars PROVE CutInv'
  OBVIOUS
<1>1. CASE SetupSubscribers \/ StopNetwork \/ RunAgain
  <2>1. \A i \in DOMAIN sub : sub[i] = "gone"
    BY <1>1, Here DEF SetupSubscribers, StopNetwork, RunAgain, GoOn, SubInv, Active, Index
  <2>2. \A i \in DOMAIN sub' : sub'[i] \in {"starting", "gone"}
    BY <1>1, <2>1 DEF SetupSubscribers, StopNetwork, RunAgain, subscribers
  <2>3. UNCHANGED <<lines, cut>>
    BY <1>1 DEF SetupSubscribers, StopNetwork, RunAgain, disk
  <2> QED
    BY <2>1, <2>2, <2>3 DEF CutInv
<1>2. CASE KillSubscriber
  <2>1. /\ DOMAIN sub' = DOMAIN sub /\ index \in DOMAIN sub
        /\ sub'[index] = "gone" /\ \A i \in DOMAIN sub \ {index} : sub'[i] = sub[i]
        /\ cut' = IF sub[index] = "writing" THEN cut \cup {FileOf(index)} ELSE cut
        /\ UNCHANGED <<pos, lines>>
    BY <1>2 DEF KillSubscriber, GoOn, SubInv, Active
  <2> QED
    BY <2>1 DEF CutInv, FileOf, network
<1>3. CASE \/ Prepare \/ SetupZookeeper \/ SetupBrokers \/ SetupPublishers \/ Wait \/ Verify
           \/ KillZookeeper \/ GeneratePlots \/ CheckSuccessRate \/ ZookeeperStops
           \/ UNCHANGED vars
  <2>1. UNCHANGED <<pos, sub, lines, cut>>
    BY <1>3 DEF Prepare, SetupZookeeper, SetupBrokers, SetupPublishers, Wait, Verify,
       KillZookeeper, GeneratePlots, CheckSuccessRate, ZookeeperStops, vars, GoOn,
       Environment, disk, subscribers
  <2> QED
    BY <2>1 DEF CutInv, FileOf, network
<1>4. ASSUME NEW i \in DOMAIN sub, Process(i) PROVE CutInv'
  <2>1. /\ DOMAIN sub' = DOMAIN sub /\ \A j \in DOMAIN sub \ {i} : sub'[j] = sub[j]
        /\ FileOf(i) \in File /\ \A j : FileOf(j) = FileOf(i) => j = i
        /\ \A j : FileOf(j)' = FileOf(j)
    BY <1>4, ProcessSteps, Here DEF FileOf, network
  <2>2. CASE OpenFile(i)
    <3>1. sub'[i] = "writing" /\ cut' = cut \ {FileOf(i)}
      BY <2>2 DEF OpenFile, Become
    <3>2. /\ lines'[FileOf(i)] = 0 
          /\ \A f \in File \ {FileOf(i)} : lines'[f] = lines[f]
      BY <2>1, <2>2 DEF OpenFile, TypeOK
    <3>3. \A j \in DOMAIN sub' : sub'[j] = "writing" => lines'[FileOf(j)] = 0
      <4> SUFFICES ASSUME NEW j \in DOMAIN sub', sub'[j] = "writing" PROVE lines'[FileOf(j)] = 0
        OBVIOUS
      <4>1. CASE j # i
        BY <2>1, <3>2, <4>1, Running DEF CutInv
      <4> QED
        BY <3>2, <4>1
    <3>4. ASSUME NEW f \in File, lines'[f] = 0
          PROVE  f \in cut' \/ \E j \in DOMAIN sub' : f = FileOf(j) /\ sub'[j] = "writing"
      BY <2>1, <3>1, <3>2, <3>4 DEF CutInv
    <3> QED
      BY <2>1, <3>3, <3>4 DEF CutInv
  <2>3. CASE CloseFile(i)
    <3>1. sub'[i] = "leaving" /\ cut' = cut
      BY <2>3 DEF CloseFile, Become
    <3>2. /\ lines'[FileOf(i)] # 0
          /\ \A f \in File \ {FileOf(i)} : lines'[f] = lines[f]
      BY <2>1, <2>3, PerformanceAssumption DEF CloseFile, Become, TypeOK, SubInv
    <3>3. \A j \in DOMAIN sub' : sub'[j] = "writing" => lines'[FileOf(j)] = 0
      <4> SUFFICES ASSUME NEW j \in DOMAIN sub', sub'[j] = "writing" PROVE lines'[FileOf(j)] = 0
        OBVIOUS
      <4> QED
        BY <2>1, <3>1, <3>2, Running DEF CutInv
    <3>4. ASSUME NEW f \in File, lines'[f] = 0
          PROVE  f \in cut' \/ \E j \in DOMAIN sub' : f = FileOf(j) /\ sub'[j] = "writing"
      BY <2>1, <3>1, <3>2, <3>4 DEF CutInv
    <3> QED
      BY <2>1, <3>3, <3>4 DEF CutInv
  <2>4. CASE Connect(i) \/ Receive(i) \/ Disconnect(i) \/ Fail(i)
    <3>1. UNCHANGED <<lines, cut>> /\ sub[i] # "writing" /\ sub'[i] # "writing"
      BY <2>4 DEF Connect, Receive, Disconnect, Fail, Become, disk, AfterDisconnect
    <3> QED
      BY <2>1, <3>1 DEF CutInv
  <2> QED
    BY <1>4, <2>2, <2>3, <2>4 DEF Process
<1> QED
  BY <1>1, <1>2, <1>3, <1>4 DEF Next, Main, Process

LEMMA FreshStep ==
    TypeOK /\ SubInv /\ CutInv /\ FreshInv /\ [Next]_vars => FreshInv'
<1> SUFFICES ASSUME TypeOK, SubInv, CutInv, FreshInv, [Next]_vars PROVE FreshInv'
  OBVIOUS
<1>1. CASE Prepare
  <2>1. /\ UNCHANGED <<pos, lines>> /\ step = "prepare" /\ step' = "zookeeper"
        /\ fresh' = IF \A i \in Index(network) : lines[FileOf(i)] = -1
                    THEN fresh \cup {network} ELSE fresh
    BY <1>1 DEF Prepare, GoOn, disk
  <2>2. \A n \in fresh' : \E k \in 1..pos : Plan[k] = n
    BY <2>1 DEF FreshInv, TypeOK, network
  <2>3. network \in fresh' => \A i \in Index(network) : lines[FileOf(i)] = -1
    BY <2>1 DEF FreshInv
  <2> QED
    BY <2>1, <2>2, <2>3 DEF FreshInv, Own, network, FileOf
<1>2. CASE SetupZookeeper \/ SetupBrokers \/ SetupSubscribers
  <2>1. /\ step \in Setup /\ step' \in Setup \cup Active /\ UNCHANGED <<pos, lines, fresh>>
    BY <1>2 DEF SetupZookeeper, SetupBrokers, SetupSubscribers, GoOn, disk, Setup, Active
  <2>2. step \notin Active /\ step' # "prepare"
    BY <2>1 DEF Setup, Active
  <2>3. network \in fresh => \A i \in Index(network) : lines[FileOf(i)] = -1
    BY <2>1, <2>2 DEF FreshInv, Own
  <2> QED
    BY <2>1, <2>2, <2>3 DEF FreshInv, Own, network, FileOf
<1>3. CASE SetupPublishers \/ Wait \/ Verify \/ KillZookeeper \/ KillSubscriber
  <2>1. /\ step \in Active /\ step' \in Active /\ UNCHANGED <<run, pos, lines, writer, fresh>>
    BY <1>3 DEF SetupPublishers, Wait, Verify, KillZookeeper, KillSubscriber, GoOn, disk, Active
  <2>2. \A i \in Index(network) : sub'[i] \in {sub[i], "gone"}
    BY <1>3, <2>1 DEF SetupPublishers, Wait, Verify, KillZookeeper, KillSubscriber, subscribers,
       SubInv
  <2>3. step' # "prepare"
    BY <2>1 DEF Active
  <2> QED
    BY <2>1, <2>2, <2>3 DEF FreshInv, Own, network, FileOf, Test
<1>4. CASE StopNetwork
  <2>1. /\ fresh' = fresh
        /\ \/ pos < Len(Plan) /\ pos' = pos + 1 /\ step' = "prepare"
           \/ pos' = pos /\ step' = "plot"
    BY <1>4 DEF StopNetwork
  <2>2. \A n \in fresh : \E k \in 1..pos' : Plan[k] = n
    BY <2>1 DEF FreshInv, TypeOK
  <2>3. pos' = pos + 1 => network' \notin fresh
    <3> SUFFICES ASSUME pos' = pos + 1, network' \in fresh PROVE FALSE
      OBVIOUS
    <3>1. PICK k \in 1..pos : Plan[k] = Plan[pos']
      BY DEF FreshInv, network
    <3>2. k \in 1..Len(Plan) /\ pos' \in 1..Len(Plan) /\ k # pos'
      BY <2>1 DEF TypeOK
    <3> QED
      BY <3>1, <3>2, PlanOnce
  <2> QED
    BY <2>1, <2>2, <2>3 DEF FreshInv, Setup, Active
<1>5. CASE GeneratePlots \/ CheckSuccessRate
  <2>1. step' \in Ended /\ UNCHANGED <<pos, fresh>>
    BY <1>5 DEF GeneratePlots, CheckSuccessRate, GoOn, Ended
  <2> QED
    BY <2>1 DEF FreshInv, Setup, Active, Ended
<1>6. CASE RunAgain
  BY <1>6 DEF FreshInv, RunAgain
<1>7. CASE ZookeeperStops \/ UNCHANGED vars
  <2>1. UNCHANGED <<run, pos, step, lines, writer, sub, fresh>>
    BY <1>7 DEF ZookeeperStops, Environment, vars, disk, subscribers
  <2> QED
    BY <2>1 DEF FreshInv, Own, FileOf, network, Test
<1>8. ASSUME NEW i \in DOMAIN sub, Process(i) PROVE FreshInv'
  <2>1. /\ UNCHANGED <<run, pos, step, fresh>> /\ step \in Active /\ i \in Index(network)
        /\ DOMAIN sub' = DOMAIN sub /\ \A j \in DOMAIN sub \ {i} : sub'[j] = sub[j]
        /\ FileOf(i) \in File /\ \A j : FileOf(j) = FileOf(i) => j = i
        /\ DOMAIN sub = Index(network) /\ \A j \in Index(network) : FileOf(j) \in File
    BY <1>8, ProcessSteps, Here DEF SubInv
  <2> SUFFICES ASSUME network \in fresh, NEW j \in Index(network) PROVE Own(j)'
    BY <2>1 DEF FreshInv, network
  <2>2. Own(j)
    BY <2>1 DEF FreshInv
  <2>3. CASE j # i
    <3>1. lines'[FileOf(j)] = lines[FileOf(j)] /\ writer'[FileOf(j)] = writer[FileOf(j)]
      BY <1>8, <2>1, <2>3 DEF Process, Connect, Receive, OpenFile, CloseFile, Disconnect, Fail,
         disk, TypeOK
    <3> QED
      BY <2>1, <2>2, <2>3, <3>1 DEF Own, FileOf, network, Test
  <2>4. CASE j = i
    <3>1. CASE OpenFile(i)
      <4>1. lines'[FileOf(i)] = 0 /\ writer'[FileOf(i)] = Test
        BY <2>1, <3>1 DEF OpenFile, TypeOK
      <4> QED
        BY <2>1, <2>4, <4>1 DEF Own, FileOf, network, Test
    <3>2. CASE CloseFile(i)
      <4>1. /\ sub[i] = "writing" /\ sub'[i] = "leaving" /\ writer' = writer
        BY <3>2 DEF CloseFile, Become
      <4>2. writer[FileOf(i)] = Test
        BY <2>2, <2>4, <4>1 DEF CutInv, Own
      <4> QED
        BY <2>1, <2>4, <4>1, <4>2 DEF Own, FileOf, network, Test
    <3>3. CASE Connect(i) \/ Receive(i) \/ Disconnect(i) \/ Fail(i)
      <4>1. /\ UNCHANGED <<lines, writer>>
            /\ sub[i] \in {"leaving", "gone"} => sub'[i] \in {"leaving", "gone"}
        BY <3>3 DEF Connect, Receive, Disconnect, Fail, Become, disk, AfterDisconnect
      <4> QED
        BY <2>1, <2>2, <2>4, <4>1 DEF Own, FileOf, network, Test
    <3> QED
      BY <1>8, <3>1, <3>2, <3>3 DEF Process
  <2> QED
    BY <2>3, <2>4
<1> QED
  BY <1>1, <1>2, <1>3, <1>4, <1>5, <1>6, <1>7, <1>8 DEF Next, Main, Process

\* A file counted as a success in a fresh folder is not opened again.
LEMMA SuccessStays ==
    ASSUME TypeOK, SubInv, CutInv, FreshInv, PassedInv, [Next]_vars,
           NEW f \in passed, f[1] \in fresh
    PROVE  lines'[f] = lines[f] /\ writer'[f] = writer[f]
<1> SUFFICES ASSUME NEW i \in DOMAIN sub, OpenFile(i) \/ CloseFile(i), f = FileOf(i)
             PROVE  FALSE
  BY FilesStep DEF OpenFile, CloseFile, TypeOK
<1>1. sub[i] \in {"listening", "writing"}
  BY DEF OpenFile, CloseFile, Become
<1>2. step \in Active /\ i \in Index(network)
  BY <1>1, Running
<1>3. f[1] = network
  BY DEF FileOf
<1>4. lines[f] = num_events
  BY DEF PassedInv
<1>5. Own(i)
  BY <1>2, <1>3 DEF FreshInv
<1> QED
  BY <1>1, <1>4, <1>5, PerformanceAssumption DEF Own

LEMMA PassedStep ==
    TypeOK /\ SubInv /\ CutInv /\ FreshInv /\ PassedInv /\ [Next]_vars => PassedInv'
<1> SUFFICES ASSUME TypeOK, SubInv, CutInv, FreshInv, PassedInv, [Next]_vars
             PROVE  PassedInv'
  OBVIOUS
<1>1. CASE RunAgain
  BY <1>1 DEF RunAgain, PassedInv
<1>2. CASE ~RunAgain
  <2>1. run' = run /\ pos' \in {pos, pos + 1} /\ pos \in Nat
    BY <1>2 DEF Next, Main, Prepare, SetupZookeeper, SetupBrokers, SetupSubscribers,
       SetupPublishers, Wait, Verify, KillZookeeper, KillSubscriber, StopNetwork, GeneratePlots,
       CheckSuccessRate, ZookeeperStops, Connect, Receive, OpenFile, CloseFile, Disconnect, Fail,
       Environment, vars, GoOn, TypeOK
  <2>2. step \in {"verify", "kill", "terminate"} \cup Ended =>
          step' \in {"verify", "kill", "terminate"} \cup Ended \/ pos' = pos + 1
    BY <1>2 DEF Next, Main, Prepare, SetupZookeeper, SetupBrokers, SetupSubscribers,
       SetupPublishers, Wait, Verify, KillZookeeper, KillSubscriber, StopNetwork, GeneratePlots,
       CheckSuccessRate, ZookeeperStops, Connect, Receive, OpenFile, CloseFile, Disconnect, Fail,
       Environment, vars, GoOn, Ended
  <2>3. /\ fresh' = fresh \/ (Prepare /\ fresh' \subseteq fresh \cup {network})
        /\ passed' = passed \/ (Verify /\ passed' \subseteq passed \cup {FileOf(index)})
    BY <1>2 DEF Next, Main, Prepare, SetupZookeeper, SetupBrokers, SetupSubscribers,
       SetupPublishers, Wait, Verify, KillZookeeper, KillSubscriber, StopNetwork, GeneratePlots,
       CheckSuccessRate, ZookeeperStops, Connect, Receive, OpenFile, CloseFile, Disconnect, Fail,
       Environment, vars, GoOn, counts
  <2>4. ASSUME NEW f \in passed'
        PROVE  \E k \in 1..pos' :
                 /\ Plan[k] = f[1]
                 /\ k = pos' => step' \in {"verify", "kill", "terminate"} \cup Ended
                 /\ f[1] \in fresh' =>
                      lines'[f] = num_events /\ writer'[f] = (run - 1) * Len(Plan) + k
    <3>1. CASE f \in passed
      <4>1. PICK k \in 1..pos :
              /\ Plan[k] = f[1]
              /\ k = pos => step \in {"verify", "kill", "terminate"} \cup Ended
              /\ f[1] \in fresh =>
                   lines[f] = num_events /\ writer[f] = (run - 1) * Len(Plan) + k
        BY <3>1 DEF PassedInv
      <4>2. k \in 1..pos' /\ (k = pos' => k = pos /\ pos' = pos)
        BY <2>1, <4>1 DEF TypeOK
      <4>3. f[1] \in fresh' => f[1] \in fresh
        <5>1. CASE Prepare
          <6>1. k # pos
            BY <4>1, <5>1 DEF Prepare, GoOn, Ended
          <6>2. f[1] # network
            BY <4>1, <6>1, PlanOnce DEF network, TypeOK
          <6> QED
            BY <2>3, <6>2
        <5> QED
          BY <2>3, <5>1
      <4>4. f[1] \in fresh' => lines'[f] = lines[f] /\ writer'[f] = writer[f]
        BY <3>1, <4>3, SuccessStays
      <4>5. k = pos' => step' \in {"verify", "kill", "terminate"} \cup Ended
        BY <2>1, <2>2, <4>1, <4>2
      <4> QED
        BY <4>1, <4>2, <4>3, <4>4, <4>5
    <3>2. CASE f \notin passed
      <4>1. /\ Verify /\ f = FileOf(index) /\ f \in passed' \ passed
        BY <2>3, <3>2
      <4>2. /\ step = "verify" /\ lines[f] = num_events /\ UNCHANGED <<pos, lines, writer, fresh>>
            /\ step' \in {"verify", "kill"}
        BY <4>1 DEF Verify, GoOn, WrittenSuccessfully, disk
      <4>3. index \in Index(network) /\ f[1] = network /\ network = Plan[pos]
        BY <4>1, <4>2 DEF TypeOK, FileOf, network
      <4>4. f[1] \in fresh => writer[f] = (run - 1) * Len(Plan) + pos
        <5> SUFFICES ASSUME f[1] \in fresh PROVE writer[f] = Test
          BY DEF Test
        <5>1. Own(index)
          BY <4>2, <4>3 DEF FreshInv, Active
        <5> QED
          BY <4>1, <4>2, <5>1, PerformanceAssumption DEF Own
      <4>5. pos \in 1..pos'
        BY <4>2 DEF TypeOK
      <4> QED
        BY <4>2, <4>3, <4>4, <4>5
    <3> QED
      BY <3>1, <3>2
  <2> QED
    BY <2>1, <2>4 DEF PassedInv
<1> QED
  BY <1>1, <1>2

LEMMA FilesStay ==
    ASSUME TypeOK, SubInv, [Next]_vars, NEW f \in File, lines[f] >= 0
    PROVE  lines'[f] >= 0
<1>1. CASE UNCHANGED lines
  BY <1>1
<1>2. ASSUME NEW i \in DOMAIN sub, OpenFile(i) \/ CloseFile(i) PROVE lines'[f] >= 0
  <2>1. received[i] >= 0
    BY PerformanceAssumption DEF TypeOK
  <2> QED
    BY <1>2, <2>1 DEF OpenFile, CloseFile, TypeOK
<1> QED
  BY <1>1, <1>2, FilesStep

LEMMA ResultsStep ==
    TypeOK /\ SubInv /\ ResultsInv /\ [Next]_vars => ResultsInv'
<1> SUFFICES ASSUME TypeOK, SubInv, ResultsInv, [Next]_vars PROVE ResultsInv'
  OBVIOUS
<1>1. \A n : HasFile(n) => HasFile(n)'
  BY FilesStay DEF HasFile
<1>2. CASE Prepare
  <2>1. /\ successes' = 0 /\ failures' = 0 /\ UNCHANGED <<pos, results>>
        /\ step = "prepare" /\ step' = "zookeeper"
    BY <1>2 DEF Prepare, GoOn
  <2> QED
    BY <1>1, <2>1 DEF ResultsInv, Ended
<1>3. CASE Verify
  <2>1. /\ UNCHANGED <<pos, results>> /\ step = "verify" /\ step' \in {"kill", "verify"}
        /\ successes' \in Nat /\ failures' \in Nat
    BY <1>3 DEF Verify, GoOn, ResultsInv
  <2>2. successes' # 0 => HasFile(network)
    <3>1. CASE WrittenSuccessfully(FileOf(index))
      <4>1. FileOf(index) \in File /\ FileOf(index)[1] = network
        BY <2>1, Here DEF TypeOK, FileOf
      <4> QED
        BY <3>1, <4>1, PerformanceAssumption DEF WrittenSuccessfully, HasFile
    <3>2. CASE ~WrittenSuccessfully(FileOf(index))
      BY <1>3, <2>1, <3>2 DEF Verify, ResultsInv, Active
    <3> QED
      BY <3>1, <3>2
  <2> QED
    BY <1>1, <2>1, <2>2 DEF ResultsInv, Ended, network
<1>4. CASE StopNetwork
  <2>1. /\ results' = Append(results, [successes |-> successes, failures |-> failures])
        /\ UNCHANGED <<successes, failures>> /\ step = "terminate"
        /\ \/ pos' = pos + 1 /\ step' = "prepare"
           \/ pos' = pos /\ step' = "plot"
    BY <1>4 DEF StopNetwork
  <2>2. /\ results \in Seq([successes : Nat, failures : Nat]) /\ Len(results) = pos - 1
        /\ successes \in Nat /\ failures \in Nat /\ pos \in Nat \ {0}
    BY <2>1 DEF ResultsInv, Ended, TypeOK
  <2>3. /\ results' \in Seq([successes : Nat, failures : Nat]) /\ Len(results') = pos
    BY <2>1, <2>2
  <2>4. Len(results') = IF step' \in Ended THEN pos' ELSE pos' - 1
    BY <2>1, <2>2, <2>3 DEF Ended
  <2>5. ASSUME NEW k \in 1..Len(results'), results'[k].successes # 0 PROVE HasFile(Plan[k])
    <3>1. CASE k = pos
      <4>1. successes # 0
        BY <2>1, <2>2, <2>5, <3>1
      <4> QED
        BY <2>1, <3>1, <4>1 DEF ResultsInv, Active, network
    <3>2. CASE k # pos
      <4>1. k \in 1..Len(results) /\ results'[k] = results[k]
        BY <2>1, <2>2, <2>3, <3>2
      <4> QED
        BY <2>5, <4>1 DEF ResultsInv
    <3> QED
      BY <3>1, <3>2
  <2>6. step' \notin Setup \cup Active
    BY <2>1 DEF Setup, Active
  <2> QED
    BY <1>1, <2>1, <2>2, <2>3, <2>4, <2>5, <2>6 DEF ResultsInv
<1>5. CASE RunAgain
  <2>1. /\ results' = <<>> /\ successes' = 0 /\ failures' = 0 /\ pos' = 1 /\ step' = "prepare"
    BY <1>5 DEF RunAgain
  <2> QED
    BY <2>1 DEF ResultsInv, Setup, Active, Ended
<1>6. CASE GeneratePlots \/ CheckSuccessRate
  <2>1. /\ UNCHANGED <<pos, results, successes, failures>> /\ step \in Ended /\ step' \in Ended
    BY <1>6 DEF GeneratePlots, CheckSuccessRate, GoOn, counts, Ended
  <2> QED
    BY <1>1, <2>1 DEF ResultsInv, Setup, Active, Ended
<1>7. CASE ~(Prepare \/ Verify \/ StopNetwork \/ RunAgain \/ GeneratePlots \/ CheckSuccessRate)
  <2>1. /\ UNCHANGED <<pos, results, successes, failures>>
        /\ step' = step \/ (step \in Setup \cup Active /\ step' \in Setup \cup Active)
    BY <1>7 DEF Next, Main, SetupZookeeper, SetupBrokers, SetupSubscribers,
       SetupPublishers, Wait, KillZookeeper, KillSubscriber, ZookeeperStops, Connect, Receive,
       OpenFile, CloseFile, Disconnect, Fail, Environment, vars, GoOn, counts, Setup, Active
  <2> QED
    BY <1>1, <2>1 DEF ResultsInv, Setup, Active, Ended, network
<1> QED
  BY <1>2, <1>3, <1>4, <1>5, <1>6, <1>7

LEMMA ReportedStep ==
    /\ TypeOK /\ SubInv /\ CutInv /\ ResultsInv /\ ReportedUnlessCut /\ [Next]_vars
    => ReportedUnlessCut'
<1> SUFFICES ASSUME TypeOK, SubInv, CutInv, ResultsInv, ReportedUnlessCut, [Next]_vars,
                    step' = "raised"
             PROVE  \/ cut' # {}
                    \/ \E n \in Network : \A k \in 1..Len(Plan) :
                         model[Plan[k]] = model[n] => results'[k].successes = 0
  BY DEF ReportedUnlessCut
<1>1. CASE GeneratePlots
  <2>1. /\ step = "plot" /\ UNCHANGED <<results, cut>>
        /\ \/ \E f \in File : Unreadable(f)
           \/ \E n \in Network : FilesOf(model[n]) = {}
    BY <1>1 DEF GeneratePlots, GoOn, counts, disk
  <2>2. ASSUME NEW f \in File, Unreadable(f) PROVE cut # {}
    BY <2>1, <2>2 DEF Unreadable, CutInv, SubInv, Active
  <2>3. ASSUME NEW n \in Network, FilesOf(model[n]) = {},
               NEW k \in 1..Len(Plan), model[Plan[k]] = model[n]
        PROVE  results[k].successes = 0
    <3>1. ~HasFile(Plan[k])
      BY <2>3 DEF HasFile, FilesOf
    <3>2. k \in 1..Len(results)
      BY <2>1 DEF ResultsInv, TypeOK, Ended
    <3> QED
      BY <3>1, <3>2 DEF ResultsInv
  <2> QED
    BY <2>1, <2>2, <2>3
<1>2. CASE ~GeneratePlots
  <2>1. step = "raised" /\ UNCHANGED results
    BY <1>2 DEF Next, Main, Prepare, SetupZookeeper, SetupBrokers, SetupSubscribers,
       SetupPublishers, Wait, Verify, KillZookeeper, KillSubscriber, StopNetwork,
       CheckSuccessRate, RunAgain, ZookeeperStops, Connect, Receive, OpenFile, CloseFile,
       Disconnect, Fail, Environment, vars, GoOn, counts
  <2>2. ASSUME NEW i \in DOMAIN sub, Process(i) PROVE FALSE
    BY <2>1, <2>2, ProcessSteps DEF Active
  <2>3. UNCHANGED cut
    BY <1>2, <2>1, <2>2 DEF Next, Main, Prepare, SetupZookeeper, SetupBrokers,
       SetupSubscribers, SetupPublishers, Wait, Verify, KillZookeeper, KillSubscriber,
       StopNetwork, CheckSuccessRate, RunAgain, ZookeeperStops, vars, GoOn, disk, Process
  <2> QED
    BY <2>1, <2>3 DEF ReportedUnlessCut
<1> QED
  BY <1>1, <1>2

LEMMA Inductive ==
    /\ Init => IInv
    /\ IInv /\ [Next]_vars => IInv'
<1>1. ASSUME Init PROVE IInv
  <2>1. TypeOK
    <3>1. lines \in [File -> Int] /\ 1 \in 1..Len(Plan)
      BY <1>1, PlanOnce, PerformanceAssumption DEF Init
    <3> QED
      BY <1>1, <3>1 DEF Init, TypeOK, Setup, Active, Ended
  <2>2. SubInv /\ FreshInv /\ PassedInv /\ ReportedUnlessCut
    BY <1>1 DEF Init, SubInv, FreshInv, PassedInv, ReportedUnlessCut, Setup, Active
  <2>3. CutInv
    BY <1>1, PerformanceAssumption DEF Init, CutInv
  <2>4. ResultsInv
    <3>1. results = <<>> /\ pos = 1 /\ step = "prepare" /\ successes = 0 /\ failures = 0
      BY <1>1 DEF Init
    <3> QED
      BY <3>1 DEF ResultsInv, Setup, Active, Ended
  <2> QED
    BY <2>1, <2>2, <2>3, <2>4 DEF IInv
<1>2. ASSUME IInv, [Next]_vars PROVE IInv'
  BY <1>2, TypeStep, SubStep, CutStep, FreshStep, PassedStep, ResultsStep, ReportedStep
     DEF IInv
<1> QED
  BY <1>1, <1>2

LEMMA Invariant == Spec => []IInv
  BY Inductive, PTL DEF Spec

-----------------------------------------------------------------------------
(* What follows.                                                           *)

\* For any networks and any number of runs: a success counted in a folder that
\* was empty is one of this run, and the file it was counted for stays as it
\* was found, whatever the subscribers do until they are killed.
THEOREM SuccessLasts == Spec => []FreshSuccessLasts
<1>1. IInv => FreshSuccessLasts
  BY DEF IInv, PassedInv, FreshSuccessLasts
<1> QED
  BY <1>1, Invariant, PTL

\* The program ends without a report only for a subscriber killed at its file,
\* or a model none of whose tests had a success.
THEOREM ReportedOtherwise == Spec => []ReportedUnlessCut
<1>1. IInv => ReportedUnlessCut
  BY DEF IInv
<1> QED
  BY <1>1, Invariant, PTL
=============================================================================
