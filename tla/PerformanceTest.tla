--------------------------- MODULE PerformanceTest ---------------------------
(***************************************************************************)
(* The performance tests: main.py, ptest.py, centralized.py and            *)
(* decentralized.py of src/performance_tests, with the part of driver.py   *)
(* and lib/subscriber.py that writes the files they look at.               *)
(*                                                                         *)
(* A run of the program tests one network after the other.  It starts a    *)
(* ZooKeeper, brokers, subscribers and publishers as processes, sleeps,    *)
(* reads the file each subscriber should have written by then, and kills   *)
(* the processes.  In the end it plots all the files there are and reports *)
(* how many subscribers passed.  Files, and a ZooKeeper that was not       *)
(* stopped, outlive a test and a run.                                      *)
(*                                                                         *)
(* Mininet, zkServer.sh and pandas are external.  What happens between the *)
(* processes of a test is the subject of the other modules; here a         *)
(* subscriber receives events, or does not.  The parent folders of data,   *)
(* logs and results are taken to exist.                                    *)
(*                                                                         *)
(* Where a definition follows one of a similar name, the first is a variant*)
(* that a bug would give; nothing uses it.                                 *)
(***************************************************************************)
EXTENDS Integers, Sequences, FiniteSets, SequencesExt

CONSTANTS
    Network,        \* names of networks, and of the folders of their data
    num_hosts,
    model,          \* of each network: centralized or decentralized
    Plan,           \* the order in which main.py tests them
    num_events,
    MaxRuns         \* bound: how often the program is run

OFFSET == 3         \* ZooKeeper and two brokers come first

num_subscribers(n) == (num_hosts[n] - OFFSET) \div 2
Index(n) == 0..(num_subscribers(n) - 1)
File == UNION {{n} \X Index(n) : n \in Network}

ASSUME PerformanceAssumption ==
    /\ num_hosts \in [Network -> Nat] /\ \A n \in Network : num_hosts[n] >= OFFSET + 2
    /\ model \in [Network -> {"centralized", "decentralized"}]
    /\ Plan \in Seq(Network) /\ Plan # <<>> /\ IsInjective(Plan)
    /\ num_events \in Nat \ {0} /\ MaxRuns \in Nat \ {0}

VARIABLES
    run, pos,       \* which run of the program, and which network of its plan
    step,           \* what it is about to do
    index,          \* of its loop over the subscribers
    successes, failures,
    results,        \* what test_network returned, network by network
    lines,          \* in each file, after the header; -1 if there is no file
    writer,         \* the test whose subscriber opened it last, or 0
    zookeeper,      \* the test whose network it runs in, or 0
    stopping,       \* zkServer.sh stop is at work
    up,             \* the other services of the test that were started
    sub,            \* what the subscribers of the test are doing
    received,       \* number of events each of them stored
    passed,         \* files a success was counted for in this run
    fresh,          \* networks whose folder was empty when this run came to it
    cut             \* files whose writer was killed at it

counts == <<index, successes, failures, results, passed>>
disk == <<lines, writer, cut>>
services == <<zookeeper, stopping, up>>
subscribers == <<sub, received>>
vars == <<run, pos, step, counts, disk, services, subscribers, fresh>>

network == Plan[pos]
Test == (run - 1) * Len(Plan) + pos
FileOf(i) == <<network, i>>

-----------------------------------------------------------------------------
\* The repository comes with files for some of the networks.
Init ==
    /\ run = 1 /\ pos = 1 /\ step = "prepare"
    /\ index = 0 /\ successes = 0 /\ failures = 0 /\ results = <<>>
    /\ \E committed \in SUBSET Network :
         lines = [f \in File |-> IF f[1] \in committed THEN num_events ELSE -1]
    /\ writer = [f \in File |-> 0]
    /\ zookeeper = 0 /\ stopping = FALSE /\ up = {}
    /\ sub = [i \in {} |-> "none"] /\ received = [i \in {} |-> 0]
    /\ passed = {} /\ fresh = {} /\ cut = {}

-----------------------------------------------------------------------------
(* The program.                                                            *)

GoOn(from, to) == step = from /\ step' = to /\ UNCHANGED <<run, pos>>

\* test_network begins; prepare_folder_structure keeps what is in the folder.
Prepare ==
    /\ GoOn("prepare", "zookeeper")
    /\ successes' = 0
    /\ failures' = 0
    /\ fresh' = IF \A i \in Index(network) : lines[FileOf(i)] = -1
                THEN fresh \cup {network} ELSE fresh
    /\ UNCHANGED <<index, results, passed, disk, services, subscribers>>

\* zkServer.sh refuses to start while an older one runs, although that one is
\* in a network that is no more.
SetupZookeeper ==
    /\ GoOn("zookeeper", "brokers")
    /\ zookeeper' = IF zookeeper = 0 THEN Test ELSE zookeeper
    /\ UNCHANGED <<counts, disk, stopping, up, subscribers, fresh>>

SetupBrokers ==
    /\ GoOn("brokers", "subscribers")
    /\ up' = up \cup {"brokers"}
    /\ UNCHANGED <<counts, disk, zookeeper, stopping, subscribers, fresh>>

SetupSubscribers ==
    /\ GoOn("subscribers", "publishers")
    /\ sub' = [i \in Index(network) |-> "starting"]
    /\ received' = [i \in Index(network) |-> 0]
    /\ UNCHANGED <<counts, disk, services, fresh>>

SetupPublishers ==
    /\ GoOn("publishers", "wait")
    /\ up' = up \cup {"publishers"}
    /\ UNCHANGED <<counts, disk, zookeeper, stopping, subscribers, fresh>>

\* wait_for_execution sleeps for a fixed time, whatever happens meanwhile.
Wait ==
    /\ GoOn("wait", "verify")
    /\ index' = 0
    /\ UNCHANGED <<successes, failures, results, passed, disk, services, subscribers,
                   fresh>>

\* data_file_written_successfully.
WrittenSuccessfully(f) == lines[f] = num_events

\* A turn of the loop of verify_data_written.
Verify ==
    /\ step = "verify"
    /\ IF WrittenSuccessfully(FileOf(index))
       THEN /\ successes' = successes + 1
            /\ passed' = passed \cup {FileOf(index)}
            /\ UNCHANGED failures
       ELSE /\ failures' = failures + 1
            /\ UNCHANGED <<successes, passed>>
    /\ index' = index + 1
    /\ GoOn("verify", IF index' = num_subscribers(network) THEN "kill" ELSE "verify")
    /\ UNCHANGED <<results, disk, services, subscribers, fresh>>

\* kill_zookeeper_server does not wait for its command.
KillZookeeper ==
    /\ GoOn("kill", "terminate")
    /\ stopping' = TRUE
    /\ index' = 0
    /\ UNCHANGED <<successes, failures, results, passed, disk, zookeeper, up,
                   subscribers, fresh>>

\* terminate_test: kill %1 on the host of each subscriber in turn.
KillSubscriber ==
    /\ GoOn("terminate", "terminate")
    /\ index \in Index(network)
    /\ sub' = [sub EXCEPT ![index] = "gone"]
    /\ cut' = IF sub[index] = "writing" THEN cut \cup {FileOf(index)} ELSE cut
    /\ index' = index + 1
    /\ UNCHANGED <<successes, failures, results, passed, lines, writer, services,
                   received, fresh>>

\* The publishers are killed and the network is stopped, which ends the shells
\* of its hosts and what they still run; the next test begins.
StopNetwork ==
    /\ step = "terminate"
    /\ index = num_subscribers(network)
    /\ up' = {}
    /\ stopping' = FALSE
    /\ results' = Append(results, [successes |-> successes, failures |-> failures])
    /\ IF pos < Len(Plan)
       THEN pos' = pos + 1 /\ step' = "prepare"
       ELSE step' = "plot" /\ UNCHANGED pos
    /\ UNCHANGED <<run, index, successes, failures, passed, disk, zookeeper,
                   subscribers, fresh>>

FilesOf(m) == {f \in File : model[f[1]] = m /\ lines[f] >= 0}

\* generate_plots: read_csv raises on a file with nothing in it, and concat
\* where a model has no file at all; that ends the program.
UnreadableOrMissing(f) == lines[f] <= 0
Unreadable(f) == lines[f] = 0

GeneratePlots ==
    /\ GoOn("plot", IF \/ \E f \in File : Unreadable(f)
                       \/ \E n \in Network : FilesOf(model[n]) = {}
                    THEN "raised" ELSE "report")
    /\ UNCHANGED <<counts, disk, services, subscribers, fresh>>

\* check_success_rate of the results; later the program is run again.
CheckSuccessRate ==
    /\ GoOn("report", "reported")
    /\ UNCHANGED <<counts, disk, services, subscribers, fresh>>

RunAgain ==
    /\ step \in {"reported", "raised"}
    /\ run < MaxRuns
    /\ run' = run + 1 /\ pos' = 1 /\ step' = "prepare"
    /\ results' = <<>> /\ passed' = {} /\ fresh' = {}
    /\ successes' = 0 /\ failures' = 0
    /\ UNCHANGED <<index, disk, services, subscribers>>

-----------------------------------------------------------------------------
(* The processes it has started.                                           *)

Environment == UNCHANGED <<run, pos, step, counts, fresh>>

Become(i, from, to) ==
    /\ i \in DOMAIN sub
    /\ sub[i] = from
    /\ sub' = [sub EXCEPT ![i] = to]

ZookeeperStops ==
    /\ stopping
    /\ zookeeper' = 0
    /\ stopping' = FALSE
    /\ Environment /\ UNCHANGED <<disk, up, subscribers>>

\* start_session and the registration succeed; notify begins.
Connect(i) ==
    /\ Become(i, "starting", "listening")
    /\ zookeeper = Test
    /\ Environment /\ UNCHANGED <<disk, services, received>>

\* notify receives until it has max_event_count events.
Wants(i) == received[i] < num_events

Receive(i) ==
    /\ i \in DOMAIN sub
    /\ sub[i] = "listening"
    /\ up = {"brokers", "publishers"}
    /\ Wants(i)
    /\ received' = [received EXCEPT ![i] = @ + 1]
    /\ Environment /\ UNCHANGED <<disk, services, sub>>

\* write_stored_messages: open truncates the file; what is written shows in
\* it once the file is closed.
OpenFile(i) ==
    /\ Become(i, "listening", "writing")
    /\ ~Wants(i)
    /\ lines' = [lines EXCEPT ![FileOf(i)] = 0]
    /\ writer' = [writer EXCEPT ![FileOf(i)] = Test]
    /\ cut' = cut \ {FileOf(i)}
    /\ Environment /\ UNCHANGED <<services, received>>

CloseFile(i) ==
    /\ Become(i, "writing", "leaving")
    /\ lines' = [lines EXCEPT ![FileOf(i)] = received[i]]
    /\ Environment /\ UNCHANGED <<writer, cut, services, received>>

\* disconnect exits, before create_subscribers would write the file again.
AfterDisconnectInDriver == "listening"
AfterDisconnect == "gone"

Disconnect(i) ==
    /\ Become(i, "leaving", AfterDisconnect)
    /\ Environment /\ UNCHANGED <<disk, services, received>>

\* A subscriber finds no ZooKeeper, or its main thread dies.
Fail(i) ==
    /\ \/ Become(i, "starting", "gone")
       \/ Become(i, "listening", "gone")
    /\ Environment /\ UNCHANGED <<disk, services, received>>

-----------------------------------------------------------------------------
Main ==
    \/ Prepare \/ SetupZookeeper \/ SetupBrokers \/ SetupSubscribers
    \/ SetupPublishers \/ Wait \/ Verify \/ KillZookeeper \/ KillSubscriber
    \/ StopNetwork \/ GeneratePlots \/ CheckSuccessRate \/ RunAgain

Next ==
    \/ Main
    \/ ZookeeperStops
    \/ \E i \in DOMAIN sub :
         \/ Connect(i) \/ Receive(i) \/ OpenFile(i) \/ CloseFile(i)
         \/ Disconnect(i) \/ Fail(i)

Spec == Init /\ [][Next]_vars

-----------------------------------------------------------------------------
(* Properties.                                                             *)

\* In a folder that was empty, a success means what the comment in
\* verify_data_written says: a subscriber of this run's test received all its
\* events and wrote them; and the file stays as it was found, although the
\* subscribers run on until they are killed, for the plots.
FreshSuccessLasts ==
    \A f \in passed : f[1] \in fresh =>
        /\ lines[f] = num_events
        /\ \E k \in 1..pos : Plan[k] = f[1] /\ writer[f] = (run - 1) * Len(Plan) + k

\* The program ends without a report only if some subscriber, in this run or an
\* earlier one, was killed while it wrote, or a model had no success at all.
ReportedUnlessCut ==
    step = "raised" =>
        \/ cut # {}
        \/ \E n \in Network : \A k \in 1..Len(Plan) :
             model[Plan[k]] = model[n] => results[k].successes = 0

-----------------------------------------------------------------------------
(* What a comment says, and this code does not do.                         *)

\* ptest.py:118-120 and decentralized.py:123-125: a file with the expected
\* number of lines shows that "the Pub/Sub system worked.  That's the only way
\* the subscriber would be able to write the expected number of results".
SuccessMeansItWorked ==
    \A f \in passed : \E k \in 1..pos :
        Plan[k] = f[1] /\ writer[f] = (run - 1) * Len(Plan) + k
=============================================================================
