# Publish/subscribe over ZeroMQ and ZooKeeper: models and proofs

This directory holds TLA+ modules of the system under `src/`: publishers and
subscribers that find each other through a broker, and brokers that take over
from one another through ZooKeeper; of the performance tests that run it; and of
the barrier and session examples beside it. TLC checks small instances; TLAPS
proves the safety properties of every module for all instances.
Bare line numbers below are those of `src/src/lib/broker.py`.

## The system

| Part | State | Operations |
|---|---|---|
| **Broker** (`lib/broker.py`), one thread | `publishers`, `subscribers` (topic -> list of addresses); `used_ports`, `notify_sub_dict`; `receive_socket_dict`, `send_socket_dict`, `send_port_dict`; two REP registration sockets | `register_pub`, `register_sub`, `disconnect_pub`, `disconnect_sub`, `notify_subscribers`, `get_clear_port`, `update_receive_socket`, `update_send_socket`, `send`, `parse_events` in `event_loop`; `zk_run_election`, `leader_function`, `configure` |
| **Publisher** (`lib/publisher.py`), main thread and ZooKeeper thread | broker address and port, REQ and PUB sockets, `WATCH_FLAG` | `configure`, `register_pub`, `publish`, `disconnect`, `watch_znode_data_change` |
| **Subscriber** (`lib/subscriber.py`), main thread and ZooKeeper thread | broker address and port, `notify_port`, REQ, REP and SUB sockets, `WATCH_FLAG` | `configure`, `register_sub`, `notify`, `parse_notification`, `setup_publisher_direct_connections`, `setup_broker_topic_port_connections`, `disconnect`, `watch_znode_data_change` |
| **ZookeeperClient** (`lib/zookeeper_client.py`), base class of the three | session, `zk_path`, `znode_value` | `connect_zk`, `start_session`, `get_znode_value`, `create_znode`, `modify_znode_value`, `listener4state` |
| **Driver** (`driver.py`) | none | start sequences, argument checks, handling of an interrupt |
| **Performance tests** (`performance_tests/`), one program | counters, files of results and a ZooKeeper that outlive a test | `test_network`: `prepare_folder_structure`, `setup_*`, `wait_for_execution`, `verify_data_written`, `kill_zookeeper_server`, `terminate_test`; `generate_plots`, `check_success_rate` |
| **Barrier** (`scaffolding/ZooKeeper/Barrier*`), a driver and clients, each with a ZooKeeper thread | the znode `/barrier`, its value and its children; `barrier` of each process | `run_driver`, `child_change_watcher`; `run_client` or `thread_func`, `data_change_watcher` |
| **Session example** (`scaffolding/ZooKeeper/SimpleClientSession`) | one ephemeral znode | `create_znode`, `get_znode_value`, `modify_znode_value`, `start_session`, `stop_session` |
| Other scaffolding (`src/scaffolding/`) | | examples: weather publishers and subscribers |

A client sends JSON over a REQ socket to one of the broker's two registration
sockets. The broker answers; in *decentralised* mode it also tells each
subscriber of each new publisher, over a REQ/REP pair per subscriber in which
the broker is the one who asks, and subscribers connect to publishers. In
*centralised* mode the broker connects to publishers itself and forwards what
they publish. The leading broker writes its address into the znode `/broker`;
clients read it, watch it, and register again when it changes.

What is hard to get right here:

* **Who waits for whom.** The broker blocks in `recv_string` on a subscriber
  (389) while clients block on the broker. A pair that waits for each other
  waits for ever; no socket has a timeout.
* **Order.** Registrations of both kinds around each other; the answer to a
  publisher against the notifications about it; events of one publisher through
  the broker's queues.
* **Bookkeeping.** Ports drawn at random and given back; address lists in which
  subscribers of one host are indistinguishable, and of which the last entry is
  dropped without a look (294, 422); handlers that fail half way, their
  exceptions caught (306, 435).
* **Take-over.** Reading the znode, setting the watch and registering are three
  steps; so are becoming leader, writing the znode and opening the sockets. The
  watch callback runs in another thread, blocks, and is not re-entered.
* **Two threads in a client.** The callback destroys every socket and makes new
  ones while the main thread publishes, polls or leaves; `WATCH_FLAG` is tested
  only at the start of a turn.
* **What a client carries over.** A subscriber gives each broker the port the
  last one gave it when it leaves; a client may register twice with one broker,
  or leave a broker it has not registered with; an id may not be unique.
* **Counts that are old.** The barrier's driver writes how many children there
  were; clients are told only of the latest value.
* **Prefix matching.** ZeroMQ filters topics by prefix, the dictionaries by
  equality.
* **What earlier runs left.** The tests verify files by name, sleep instead of
  waiting, and stop ZooKeeper in the background.

Correct means, per part: for registration, *every publisher and subscriber with
a common topic get connected, nobody is sent to someone who left, and the
broker's books agree with the world*; for dissemination, *events arrive in
order and at most once, where they were asked for, and the broker's sockets
agree with what it told its clients*; for take-over, *one leader, which is the
advertised one, and clients that follow it*; for a client's threads, *a change
of broker costs little and leaves the client working*; for the barrier, *nobody
passes before all are there, and the driver cleans up last*; for the tests, *a
success means that a subscriber of this test received its events*; for the
session example, *a client reads what it wrote, and its znode goes with it*.

## Modules

| Module | Models |
|---|---|
| `Registry` | the two dictionaries as bags of addresses, and what registering and removing an address does to a list |
| `DirectBroker` | registration, introduction and departure under one broker in decentralised mode: broker, publishers, subscribers and their sockets |
| `UniqueIds` | `DirectBroker` where subscribers have different ids |
| `Matchmaking` | what registration promises, without a broker: the abstract specification that `DirectBroker` implements |
| `Switchover` | `DirectBroker` under changes of broker, with equal ids |
| `CentralBroker` | the same requests in centralised mode, the broker's data sockets, queues and forwarding |
| `Failover` | election, the znode, registration ports, and clients that follow by their watches |
| `ClientThreads` | the two threads of a publisher, or of a subscriber in either mode, on the attributes they share |
| `Barrier` | the barrier among processes and among threads |
| `PerformanceTest` | the performance tests: networks one after the other, run after run |
| `ZkSession` | the session example, run by several people at once |
| `MCDirectBroker`, `MCSwitchover`, `MCCentralBroker`, `MCFailover`, `MCPerformanceTest` | instances for TLC; the other modules need none |
| `DirectBrokerProofs`, `SwitchoverProofs`, `CentralBrokerProofs`, `FailoverProofs`, `ClientThreadsProofs`, `BarrierProofs`, `PerformanceTestProofs`, `ZkSessionProofs` | for each of these modules its inductive invariant, the proof that every action preserves it, and theorems; that of `Matchmaking` is in the first |

`DirectBroker` and `CentralBroker` extend `Registry`, and `UniqueIds` and
`Switchover` extend `DirectBroker`. Where a definition is preceded by a similar
one (`AllNotified` by `NobodyAwaited`), the first is what a plausible mistake
would make of it. Nothing uses these variants; each shows
that some property notices the mistake.

### DirectBroker

A client goes `start`, `registering`, `publishing` or `listening`, `leaving`,
`gone`, and may be `killed` on the way. `request[c]` and `reply[c]` are its REQ
socket. The broker's handlers are cut where they block or where another process
can see the difference:

* `register_pub` is `RegisterPub` (the directory, the list of sockets to
  notify), then for each subscriber `NotifyNext` (send), `Deliver` (ZeroMQ finds
  a connected peer), `ReadNotification` (the subscriber's poll and
  acknowledgement) and `NotifyAcked`; `FinishPub` answers.
* `register_sub` is `RegisterSub`, `AllocatePort` (port, bind, answer, first
  notification), and then the same exchange. If another program has the port,
  or a socket of the broker's own (which `UniqueIds` rules out), bind raises and
  the handler returns without an answer: `sub_reg_owed` says that the REP socket
  can never receive again.
* `disconnect_pub` and `disconnect_sub` are one step each. They are written
  with their failures (a topic missing, an address missing, a port not in use);
  that these do not happen is a property, not an assumption.
* `parse_events` looks at the publishers' socket first: `SubReady`.

A subscriber that is `leaving` still has its notification socket connected but
does not read it. A port given back is free for the next subscriber while the
leaver's socket is still connected to it, so `Deliver` may choose either.

`IdOf` is `id(self)`, under which the broker keeps a subscriber's notification
socket. With equal ids the later subscriber takes over the entry (`Overwrite`),
and what is looked up by id is looked up for both (`HasSocket`). `UniqueIds` says
that ids differ; what is proved of `DirectBroker` is proved there.

### Switchover

Brokers are numbered; `epoch` is the one that serves, `at[c]` the one whose
address a client has, `joined[c]` the one that answered it. `Takeover` is a new
broker with empty dictionaries; what the old one had not answered is lost.
`WatchFires`, `Resolve` and `RegisterAgain` are the callback: the sockets go, the
znode is read, `configure` runs. Since the znode may be read after the next
change, a client can register twice with one broker. `AskNobody` is a request to
a broker that is gone. `LeaveUnregistered` is the main thread that leaves on the
socket the callback has just made; it names a `notify_port` some earlier broker
drew. The brokers' own steps are those of `DirectBroker`, so a failing departure
(`sub_reg_owed`) comes about as it does there. Broker 0 had all clients when the
module begins.

`IntroducedAgain` and `EntriesKept` except an `Impostor`: a subscriber that leaves
a broker it has not registered with, and has another's id. `disconnect_sub` then
closes the other's socket and gives back the port it was told to, which may be
one a third subscriber of that id still listens to. The port is given out again,
and the third acknowledges what the broker sends to the new one. This takes three
subscribers of one id, so no run can show it: it came up when a proof was tried.

### CentralBroker

`ready` holds the topics the poll of this round found readable and which are
still to be forwarded; registration comes before them, as in `parse_events`.
`RegisterPub` and `DisconnectPub` are `register_pub`, which ends with the answer.
`UpdateReceiveSocket` comes after it (201), when the publisher may be publishing
already: `answered` is whom the round has answered, until then.
`Establish` is ZeroMQ connecting in the background; what is published or
forwarded without a connection is lost. A queue holds `HighWaterMark` messages.
A port stays in `send_port_dict` when its socket closes (`send_port`).
`disconnect_pub` fails at the first topic shared with another publisher, since
`disconnect` is given an address without `tcp://` (434). A receive socket closed
by it stays in the poller; whether the next `poll` raises depends on the version
of the library, so `PollRaises` may or may not happen. `Extensions` says which
topic names begin with which.

`SourcesConnected` therefore has an exception: a publisher that was answered in
the round under way may not be connected to yet. What it publishes in that time
is lost, as is what it publishes until ZeroMQ has established the connection.

### Failover

kazoo and ZooKeeper are external and modelled as the code uses them: an
election is a queue of contenders of which the first leads; `DataWatch` reads,
arms and calls back under a lock, and only for a version it has not reported; a
write sets off every armed watch once. A loss of connection gives an event of
type `NONE` to an armed watch and a `session` run without an event. The last is
how `dump_data_change` can be called with `None` again.

`leader_function` is `CheckZnode`, then `CreateZnode` or `ModifyZnode`, then
`Configure`. A client is `Resolve` (read the znode), `FirstWatch` (set the
watch, which registers inside the callback), then `WatchEvent`, `Reload`,
`Accept` for every change. A registration is a single step here, `Accept`;
`Misregister` is what happens when a subscriber's request reaches the
publishers' socket, as it does when ports were shifted. `faultless` is a history
variable: no session has expired, and no connection broken, so far. Restarts are new
brokers: nothing of a broker survives it except the znode.

`NoMissedChange` speaks of clients that run. One whose start is overtaken by a
change between reading the znode and setting the watch (`driver.py:63`) may
register with a broker that is gone, and wait for it, inside its first callback,
for ever: `FollowsOrLeftBehind` names it `LeftBehind`. If `create_znode` fails
because another broker came first, the broker ends; no property forbids that. A
leader that has lost its session goes on serving beside the next one, which
`ServingAdvertised` leaves out by `faultless`.

### ClientThreads

A socket is a name and the number of the context it was made in, and is open
while that context is in `live`. `mpc` is where the main thread is: the head of
the loop of `publish` or `notify` (`Test`), then `Send`; or `Poll`, `PollReturns`,
`Look` and either `ReadNote`, `Connect`, `Acknowledge` or `Iterate`, `Receive`;
then `Leave`, `Left` and `Exit`, the parts of `disconnect`. `watch` is where the
callback is: `Begin` sets the flag, `Clear` empties the dictionary, `Destroy`
closes all sockets of the context, `Configure` to `Setup` are `configure`,
`Finish` resets the flag. Each step is what one thread does between two reads or
writes the other can see. Which events have arrived is a choice of each poll, over
every open socket it looks at. What a poll over sockets closed meanwhile does is
up to the libraries: it may raise, which `notify` catches (`PollRaises`), or not
return.

A change comes to the callback as an event `CHANGED`, or with `None` if it is
found when the session with ZooKeeper is restored. In the second case `Begin` goes
straight to `Configure`, and the old context lives on beside the new one: the main
thread may still poll or receive on its sockets. If the callback raises, kazoo
logs it and calls it again at the next change, so `Begin` also starts from
`failed`.

`Interrupt` may come at any moment as long as the process runs. The `try` of
`driver.py` covers the `disconnect` at the end of the start sequence too, so a
Ctrl-C there starts another `disconnect`, whose request cannot be sent on a REQ
socket that waits for its answer; one that comes in the `except` clause is not
caught at all. In either case the process ends with an error (`interrupted` =
`leaving`). `exchange` is, for the registration socket of each context, what was
asked on it and whether it has been answered. Two threads that wait on one REQ
socket may each get the answer to the other's request: a publisher logs it, a
subscriber's callback looks in it for what a registration brings, and raises.

`FlagProtects`, `FailureHarmless` and `LeavesTold` state what the code does
achieve, and TLC shows that their exceptions are needed. A notification that is
handled between `clear` and `context.destroy` (`subscriber.py:110`) leaves in
`sub_socket_dict` a socket that is then closed and, since the topic has a socket,
never replaced: the next notification on that topic kills the main thread. A
`disconnect` that begins together with a change of broker may take the answer to
the registration for its own. A callback whose registration fails leaves
`WATCH_FLAG` set, but only after the main thread has left its loop, and on its own
it does not keep the client from leaving in order (`FailureHarmless`). A Ctrl-C
while the client is leaving does, and so may a further change, which destroys the
socket that `disconnect` waits on.

### Barrier

`threaded` says which of the two programs it is; they differ in when a client may
start, in whether the driver writes a 0, and in what it waits for. `ReadChildren`
and `ReadValue` are kazoo reading the znode and setting the watch again; changes
between two reads are told as one. `child_change_watcher` is `CheckZnode` and
`SetValue`, with a count that may be old when it is written. A client that has
passed stops its session, and its child goes (`Pass`); a dead one's goes later
(`SessionTimeout`).

### PerformanceTest

`step` is where `main.py` is in its plan of networks; `lines`, the files of
messages, with `writer` and `cut` (history: which test opened a file last, and
whether its writer was killed at it). `Prepare` keeps what it finds in the
folder, and the counters begin at 0; `Wait` ends whatever the subscribers have
done; `Verify` is one turn of the loop of `verify_data_written`; the subscribers
run on until `KillSubscriber` comes to them. `SetupZookeeper` starts nothing if
the ZooKeeper of an earlier test survived, as it may, since `zkServer.sh stop`
is not waited for (`KillZookeeper`, `ZookeeperStops`); `Connect` then fails,
because that one is in a network that is no more. `OpenFile` truncates, and what
is written is there after `CloseFile`. `GeneratePlots` raises on an empty file,
and where a model has no file.

### ZkSession

Each request is a step, so `exists` and the `get` or `set` after it are two.
`create_znode` in a session of one's own may find another's znode. An exception
is printed and the program goes on, as the handlers of the operations do.
`Expire` takes the znode with the session, and kazoo gives the client a new one.

## Runs

| Run | Shows | Instance |
|---|---|---|
| `direct_die` | introductions, ports, acknowledgements, directory and departures are right, every request is answered and every pair with a common topic meets unless the broker is stuck in one of the ways of `Hung`, and the protocol implements `Matchmaking`, whoever leaves or dies when | 2 publishers, 2 subscribers on one host, 2 topics, 4 ports of which one is a registration port and one is taken |
| `direct_leaving_sub` | refutes `DisconnectsProperly`: a subscriber that leaves while the broker notifies it waits for the broker, and the broker for it | subscribers leave |
| `switch_over` | after a change of broker whoever has joined is introduced again; only a client that leaves without having registered there, or one with somebody's id, can block the broker or take an entry; who follows its watch gets registered | 1 publisher, 2 subscribers with one id, 2 changes of broker, one client leaves, one dies |
| `central_clients` | `PortsAgree`, `SourcesConnected` under registrations, departures, deaths and failing removals, the broker answering a publisher before it connects to it | 2 and 2, no events |
| `central_events` | events in order, at most once by each way, only where asked for; the queue of a topic with subscribers is drained | 1 publisher that may leave, so that closed sockets are polled, 3 events, queues of 2, 2 subscribers of which one leaves; one topic's name begins with the other's |
| `central_prefix_stop` | refutes `LoopGoesOn`: an event on a longer topic without subscribers ends the broker with a KeyError | |
| `failover_follow` | at most one registration per write and the watch never lost, whatever fails; while sessions last, one leader and it is advertised, and a client at rest has its address; every client follows the broker that stays unless it waits for one that is gone, or a port was taken | 3 brokers of which 2 leave or crash at any moment and one may lose its session, a publisher and a subscriber, an occupied port |
| `threads_change` | what `WATCH_FLAG` protects; a change costs a publisher at most one event; how a client leaves; notifications are read | 2 topics, 2 events, 3 changes of broker, with an event or without; Ctrl-C at any moment, also while leaving; each kind of client |
| `barrier_crash` | nobody passes early, the driver cleans up last, the number is that of the children, a client is kept from passing only by others that passed or died | 3 clients, two may die; both programs |
| `harness` | in an empty folder a success is one and stays one; the report fails only for a subscriber killed at its file or a model without a success | networks of 8 and 6 hosts, one of each model, 2 runs, files from before in any of the folders |
| `harness_stale` | refutes `SuccessMeansItWorked`: a test passes on the files of an earlier run | the same |
| `session` | the client that made the znode reads its new value in the end; the znode never outlives its session, so nobody finds its own in the next one and none is left | 3 clients, two may lose their session |

Processes stop for good in every instance, so deadlock is not checked; that a
process stops only where it should is what the liveness properties say.

**Findings.** `direct_leaving_sub` and `central_prefix_stop` show that the broker
can hang, or end, where its comments say it goes on; `harness_stale` that a
success in the performance tests does not mean what `ptest.py:118-120` says,
since `prepare_folder_structure` keeps old files and the repository has some.

**Bounds.** Two publishers and two subscribers, with a topic they all meet on
and a topic of one pair only, are enough for each case the handlers tell apart:
lists of none, one and more entries; two entries of one address; a subscriber
with nothing in common with a publisher; a notification loop of more than one
turn; a port reused. `direct_die` has one port more than subscribers, so that
bind can fail. `MaxEpoch = 2` in `switch_over` is the least with which the
broker changes while a client is on its way to the first new one; one publisher
that may register twice, and two subscribers that share an id, a host and a
topic, make every collision of entries, ids and ports that is told apart. Three
events over queues of two let a queue overflow. Three brokers let a second
fail-over begin before the first is over, which is the shortest way to be left
behind. `MaxPort` leaves room for one shift per socket.
Three changes of broker let a second callback meet what the first one left behind,
one of them have an older context live on, and the third come after one that
failed; two topics let a dictionary change size, or contents, under an iteration.
With three clients at the barrier two can be told of different numbers while a
third dies. Two runs of two networks let a test meet the files and the ZooKeeper of
another test of its run and of the run before; eight hosts,
the smallest tree of `main.py`, give two subscribers, so that one can fail, and
be killed, while the other succeeds. Three session clients let one lose its znode
to expiry while two contend for it. The only artificial bounds are `MaxEvents`,
`MaxPort`, `MaxEpoch`, `MaxChanges` and `MaxRuns`; everything else is finite
because each process starts once.

**Fairness.** In `DirectBroker` the broker's thread and each client's program
take their next step if they can keep doing it (weak fairness): they are loops
without waits other than those modelled. Leaving and dying are never assumed,
and `RequestsAnswered` and `MeetInTheEnd` except a broker that is stuck (`Hung`):
it waits for a subscriber that left or died, could not bind a port, or has no
port clear. `Switchover` is the same. In
`CentralBroker` only the broker is fair. In `Failover` every broker's and
client's own steps and the timeout of a dead session are fair; exits, crashes
and losses are not. One weak-fairness condition covers a client's whole step
relation, since it is never in two of its steps at once except between main
thread and watch, which cannot starve one another there. `ClientThreads` and
`Barrier` have a condition per thread. In the first the broker answers in the
end, but changes of broker, interrupts, a poll that raises, and events are not
assumed: the main thread is not fair while it waits for an event (`Waiting`).
In the second ZooKeeper notices the dead. `PerformanceTest` and `ZkSession` have
safety properties only: the one waits for time alone, the other for keys.

## Theorems

For all finite sets of subscribers and arbitrary sets of publishers, topics and
ports, under the named assumption of `UniqueIds` (`IdAssumption`: subscribers
have different ids) and those of `DirectBroker` (`ClientAssumption`:
publishers and subscribers are disjoint; `TopicAssumption`: a client has a
topic, as `driver.py` demands; `PortAssumption`: ports are not `None` and not
the strings the broker answers with):

| Theorem | |
|---|---|
| `TypeCorrect` | `Spec => []TypeOK` |
| `EverybodyIntroduced` | `Spec => []Introduced` |
| `NobodyStale` | `Spec => NoStaleIntroduction`, an action property |
| `PortBookkeeping` | `Spec => []PortsExact` |
| `AddresseeAcknowledges` | `Spec => []AckedByAddressee` |
| `CountsExact` | `Spec => []SubscriberCounts` |
| `DisconnectsSucceed` | `Spec => []DisconnectFindsEntries` |
| `Refinement` | `Spec => ImplementsMatchmaking` |
| `MatchedAlways` | `Matchmaking!Spec => []Matched` |

None of these properties is inductive. `IInv` of `DirectBrokerProofs` adds to `TypeOK` and `PortsExact`:

* `BrokerPhase`: which combinations of `handling`, `todo`, `awaiting` and `wire`
  a handler passes through;
* `Delivery`: who can hold the message in flight;
* `Exchange`: a client's `request`, `reply` and `pc` go together;
* `OwnPort`: a subscriber has a notification socket exactly between its
  registration and its departure, and knows its port;
* `Directory`: each publisher is listed once under each of its topics, or not at
  all, and when;
* `Message`: what the message in flight must contain: to a new subscriber every
  publisher already confirmed, to all others the one being registered;
* `IntroducedSoFar`: a publisher known to the broker is connected to every
  subscriber that is not still `Pending`. This is what makes the interleaving of
  the two kinds of registration come out right: a subscriber is either in `todo`
  of the publisher's handler, or the publisher is in its first message.

`AckedByAddressee` needs an argument of its own, since a leaver's socket may be
connected to the same port: while the broker awaits an acknowledgement it
answers no `disconnect`, so the leaver whose port was given out again has had
its answer and never reads its socket. `NobodyStale` follows likewise: the
broker answers a publisher's `disconnect` only between two exchanges.
`CountsExact` is proved separately, step by step, as its statement needs
cardinalities (`FiniteSetTheorems`). `Refinement` maps every action to one of
`Matchmaking` or to a stutter.

`SwitchoverProofs` assumes no ids to differ. For any publishers, topics and ports,
finitely many subscribers, of which several may have one id, and any number of
brokers (`SwitchoverAssumption`: at least one, and `None` is not the number of
one), it shows:

| Theorem | |
|---|---|
| `KeepsEntries` | `SwitchSpec => []EntriesKept` |
| `OnlyStrangersBlock` | `SwitchSpec => []BlockedByStrangers` |
| `IntroducesAgain` | `SwitchSpec => []IntroducedAgain` |

`DirectBrokerProofs` can say exactly what the broker's state is. Here clients
register twice, or leave without having registered, and name ports that another
broker gave them. So `IInv` bounds the broker's state from one side, and speaks only
of those it has answered and has not yet been asked to forget (`Served`):

* `SwitchTypeOK`, `ClientInv`, `BrokerPhase` (together `Shape`): types; a client's
  `pc`, `request`, `reply`, `at` and `joined` go together; a broker has work only
  for a client that has found it;
* `DirInv`: a publisher that relies on its entries has one under each of its topics,
  or the topic is `Spoiled` by one that left without an entry of its own;
* `CountInv`: an address has under a topic at least one entry for each subscriber
  there that relies on one, so that whoever removes one takes no other's;
* `PortInv`: who is `Served` knows the port of its socket (`SocketInv`), nobody else
  has that port or was told it (`DistinctInv`), and it is in `used_ports`
  (`UsedInv`). A `disconnect` that names the port of an earlier broker cannot upset
  this: either its sender has no socket here and the handler ends in an exception,
  after which no port is drawn any more, or it has one, and `SocketInv` says that the
  port it names is that of the socket;
* `BlockedInv`: as long as nobody is a stranger, who is `Served` finds a socket under
  its id or shares the id with one that has left, and `sub_reg_socket` is blocked
  only by the latter kind;
* `Delivery`, `Message`: who reads the message in flight, and what is in it.
  `ReaderIs` concludes from `DistinctInv` that a reader is the addressee;
* `LinkInv`: as `IntroducedSoFar`, for what the directory of this broker has.

The parts `CountInv`, `DistinctInv`, `UsedInv`, `LinkInv` and one half of `Delivery`
hold up to an `Impostor`, and one that is there stays until the next broker comes
(`StrangersStay`). That they cannot be proved otherwise is how the exception in
`IntroducedAgain` was found.

For every finite, not empty set of clients of which any may die
(`BarrierAssumption`), in both programs, `BarrierProofs` shows:

| Theorem | |
|---|---|
| `TypeCorrect` | `Spec => []TypeOK` |
| `NobodyPassesEarly` | `Spec => []NobodyEarly` |
| `CleansUpLast` | `Spec => []RemovedLast` |
| `CountIsKept` | `Spec => []CountKept` |

Here `IInv` adds that children belong to clients that have arrived, so that a
count equal to `cond`, wherever it is kept by then, means that all have
(`CountInv`); that a client that is up keeps its child until it passes, so that
no children mean nobody on the way (`DrainInv`); and that while the watch is set
the last count is that of the children (`WatchInv`).

For any publishers, topics and ports and finitely many subscribers
(`CentralAssumption`, which also says that a topic's name begins with itself),
and any number of events, `CentralBrokerProofs` shows:

| Theorem | |
|---|---|
| `TypeCorrect` | `Spec => []TypeOK`: no list is short of an entry, nothing is forwarded from an empty queue |
| `PublishersConnected` | `Spec => []SourcesConnected`: up to the publisher answered in the round under way |
| `SubscribersServed` | `Spec => []PortsAgree` |
| `EventsInOrder` | `Spec => []InOrder` |

A publisher's entries are its own (`PubInv`): those of one that is `Registered`
stay, whichever removals of others stop half way. Subscribers share addresses, so
`CountInv` counts instead: an address has at least as many entries under a topic
as there are subscribers there that rely on them, and a removal by one of these
leaves enough for the rest. With that the topic of a subscriber that was `Told`
its ports keeps its socket, and the port does not change (`PortInv`). `InOrder`
follows an event from `sent` through a queue to `received`: queued events are
younger than those of the same publisher that passed through that queue before.

For any brokers and clients, and whatever leaves, dies or loses its session,
`FailoverProofs` shows:

| Theorem | |
|---|---|
| `TypeCorrect` | `Spec => []TypeOK` |
| `NoStorm` | `Spec => []OncePerWrite` |
| `WatchNeverLost` | `Spec => []WatchKept` |
| `LeaderAdvertised` | `Spec => []ServingAdvertised` |
| `ClientsUpToDate` | `Spec => []NoMissedChange` |

`FailoverAssumption` says that every host has two free ports at or above
`sub_reg_port`; without them the code looks for one for ever. `ClientInv` relates
where a client is to its lock, its watch and the versions it has seen, whatever
fails. The last two theorems speak of the time before anything has failed:
`LeaderInv` says then that a leader heads the queue and that the znode is its own
once it has written it, `AbsentInv` what can have happened before there is a
znode, and `FreshInv` that a client whose watch has seen the last write has, or is
about to read, the address that write left.

For any finite set of topics, any number of events and of changes of the broker
(`ThreadsAssumption`), and each kind of client, `ClientThreadsProofs` shows:

| Theorem | |
|---|---|
| `TypeCorrect` | `Spec => []TypeOK` |
| `FlagGuards` | `Spec => []FlagProtects` |
| `LossBounded` | `Spec => []OneLostPerChange` |
| `FailuresHarmless` | `Spec => []FailureHarmless` |
| `LeavesAnswered` | `Spec => []LeavesTold` |

The callback is idle as long as no change has begun since the turn of the main
loop did, and what it has replaced at each point follows from where it is
(`CallbackInv`), so that what the turn has found out still holds (`TurnInv`).
`ExchangeInv` says who has asked on each `broker_reg_socket`: only the newest can
have a registration outstanding, and a `disconnect` outstanding there is the one
the main thread waits for, unless it was interrupted again. `LostInv` says that the
turn under way can lose an event only to a change that has not cost one.

For any networks of which each is tested at most once in a run, any number of
events and of runs (`PerformanceAssumption`), `PerformanceTestProofs` shows:

| Theorem | |
|---|---|
| `SuccessLasts` | `Spec => []FreshSuccessLasts` |
| `ReportedOtherwise` | `Spec => []ReportedUnlessCut` |

In a folder that was empty what is in a file is from this test (`FreshInv`); only
the subscriber that is killed at its file leaves it empty (`CutInv`); a test with a
success has left a file (`ResultsInv`).

For any clients, of which any may lose their sessions (`SessionAssumption`),
`ZkSessionProofs` shows:

| Theorem | |
|---|---|
| `ZnodeGoesWithSession` | `Spec => []NothingLeft` |
| `CreatorReadsItsWrite` | `Spec => []CreatorReadsNewValue` |

A client that has made the znode and keeps its session owns it until it stops, and
nobody else writes it meanwhile (`OwnerInv`, `CreatorInv`).

Model-checked only: liveness, whose proofs need `ENABLED` of weak fairness.

## Not modelled

* JSON, logging, addresses and their discovery: they change no state another
  part reads.
* Publishers are taken to have different addresses, and a client's topics to be
  different.
* In `Switchover`: clients that start only under a later broker (they do no more
  than one that comes from broker 0), and an old broker that lives on beside the
  new one (`Failover` has it, without the directory). So the entry that a
  publisher leaves behind when it registers twice (432) is in the model, but no
  property speaks of it.
* In `PerformanceTest`: Mininet and its clean-up, `test_single_switch_topology`,
  which `main.py` does not call, and the folders `data`, `logs` and `results`,
  which `os.mkdir` needs to exist and which the program does not make. The plots
  themselves; of the report only that it is reached.
* In `ZkSession`: a server that is down. `orig-zkclient.py` is the older script
  with the same calls.
* The argument parser except for what it refuses; the weather examples, which
  have no state but a socket; the unit tests, which look at constructors.

Two behaviours are in the models without a run of their own. A publisher that
leaves while another one has one of its topics may stay listed under the rest,
since `disconnect_pub` stops at the first error (434): `SourcesConnected` holds
in spite of it. And where a registration port is taken the znode names the taken
one, as `znode_value` is computed before the ports are bound (66):
`failover_follow` runs with such a host, and `Misled` names its victims.

## Plan

1. *Done:* every module checked, and its safety properties proved.
2. Left open: a property for the entry that a publisher leaves behind when it
   registers twice with one broker (432).
