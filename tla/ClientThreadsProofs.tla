------------------------- MODULE ClientThreadsProofs -------------------------
(***************************************************************************)
(* Proofs about ClientThreads.  The inductive invariant comes in parts:    *)
(*                                                                         *)
(*   TypeOK, BoundsInv  the shape of the state, and its counters;          *)
(*   CallbackInv        what the callback has replaced at each point; and  *)
(*                      that it is idle while no change has begun since    *)
(*                      the turn of the main loop did;                     *)
(*   ExchangeInv        who has asked on broker_reg_socket: from it        *)
(*                      FailureHarmless and LeavesTold;                    *)
(*   PollerInv          who polls what;                                    *)
(*   TurnInv            what a turn has found out still holds while no     *)
(*                      change has begun: from it FlagProtects, which is   *)
(*                      itself the last part;                              *)
(*   LostInv            a turn begun before a change can lose one event:   *)
(*                      from it OneLostPerChange.                          *)
(***************************************************************************)
EXTENDS ClientThreads, FiniteSetTheorems, TLAPS

BoundsInv ==
    /\ begun + changes <= MaxChanges
    /\ lost <= event_count
    /\ mpc = "send" => event_count < max_event_count /\ kind = "publisher"

CallbackInv ==
    /\ WATCH_FLAG <=> watch # "idle"
    /\ watch \in {"make", "bind"} => kind = "publisher"
    /\ watch \in {"clear", "setup"} => kind # "publisher"
    /\ seen <= begun
    /\ seen = begun => watch = "idle"
    /\ context = IF watch \in {"clear", "destroy", "configure"} THEN begun ELSE begun + 1
    /\ watch # "configure" => Open(context)
    /\ broker_reg_socket = context
    /\ kind = "publisher" =>
         /\ watch \notin {"configure", "make"} => pub_socket = context
         /\ bound \/ watch = "bind"
    /\ kind = "direct" /\ watch \in {"idle", "finish"} => notify_sub_socket = context

Registering(gen) == exchange[gen] \in {"register", "registered"}
Disconnecting(gen) == exchange[gen] \in {"disconnect", "disconnected"}

ExchangeInv ==
    /\ \A gen \in Gen :
         /\ exchange[gen] # "none" => gen <= context /\ Open(gen)
         /\ Registering(gen) => watch = "await" /\ gen = context
         /\ Disconnecting(gen) => Leaving \/ ~Running
    /\ interrupted # "never" => Leaving \/ ~Running
    /\ Disconnecting(context) =>
         (mpc = "await" /\ asked = context) \/ interrupted = "leaving"
    /\ watch = "await" =>
         \/ Registering(context)
         \/ mpc = "answered" \/ ~Running
         \/ interrupted = "leaving"
    /\ mpc = "await" /\ seen = begun => asked = context /\ Disconnecting(context)
    /\ mpc \in {"answered", "exited"} => told \/ begun # seen
    /\ watch = "failed" => Leaving \/ ~Running
    /\ watch = "failed" /\ interrupted # "leaving" =>
         \/ mpc = "await" /\ asked = context /\ Disconnecting(context)
         \/ mpc \in {"answered", "exited"} /\ told

\* Only a subscriber in the direct mode is ever notified.
PollerInv ==
    /\ kind # "direct" => poller \cup polling \cup events \subseteq Topic \X Gen
    /\ mpc \in {"notified", "connect", "acknowledge"} => kind = "direct"

TurnInv ==
    seen = begun =>
        /\ mpc \in {"iterate", "receive"} => size = Cardinality(Topics)
        /\ mpc = "receive" => topic \subseteq Topics
        /\ mpc \in {"connect", "acknowledge"} => note = "read"

LostInv ==
    /\ lost <= begun
    /\ mpc = "send" /\ watch # "idle" => lost < begun

IInv ==
    /\ TypeOK /\ BoundsInv /\ CallbackInv /\ ExchangeInv
    /\ PollerInv /\ TurnInv /\ FlagProtects /\ LostInv

LEMMA TopicsFinite ==
    TypeOK => IsFiniteSet(Topics) /\ Cardinality(Topics) \in 0..Cardinality(Topic)
<1>1. Topics \subseteq Topic
  BY DEF Topics
<1> QED
  BY <1>1, ThreadsAssumption, FS_Subset, FS_CardinalityType

LEMMA TypeStep ==
    TypeOK /\ BoundsInv /\ [Next]_vars => TypeOK'
<1> SUFFICES ASSUME TypeOK, BoundsInv, [Next]_vars PROVE TypeOK'
  OBVIOUS
<1>1. CASE Test
  <2>1. 0 \in 0..Cardinality(Topic)
    BY ThreadsAssumption, FS_CardinalityType
  <2> QED
    BY <1>1, <2>1 DEF TypeOK, Test, Forget, departure, outside, Goto, attributes, callback
<1>2. CASE Send
  BY <1>2, ThreadsAssumption DEF TypeOK, BoundsInv, Gen, Send, loop, departure,
     outside, Goto, attributes, callback
<1>3. CASE Poll
  BY <1>3 DEF TypeOK, Poll, counts, departure, outside, Goto, attributes, callback
<1>4. CASE PollReturns
  BY <1>4 DEF TypeOK, Notified, Readable, PollReturns, counts, departure, outside,
     Goto, attributes, callback
<1>5. CASE Look
  <2>1. /\ Cardinality(Topics) \in 0..Cardinality(Topic)
        /\ 0 \in 0..Cardinality(Topic)
    BY TopicsFinite, ThreadsAssumption, FS_CardinalityType
  <2> QED
    BY <1>5, <2>1 DEF TypeOK, Look, counts, departure, outside, Goto, attributes, callback
<1>6. CASE Iterate
  <2>1. event_count' \in 0..max_event_count
    <3>1. event_count \in 0..max_event_count /\ max_event_count \in Nat
      BY ThreadsAssumption DEF TypeOK
    <3>2. \/ event_count' = event_count
          \/ event_count < max_event_count /\ event_count' = event_count + 1
      BY <1>6 DEF Iterate, Wanted
    <3> QED
      BY <3>1, <3>2
  <2>2. topic' \subseteq Topic /\ visited' \subseteq Topic
    BY <1>6 DEF TypeOK, Iterate, Topics
  <2>3. mpc' \in {"crashed", "test", "receive", "iterate"}
    BY <1>6 DEF Iterate, Goto
  <2>4. UNCHANGED <<kind, attributes, callback, polling, events, size, lost, seen,
                    departure, outside>>
    BY <1>6 DEF Iterate, Goto
  <2> QED
    BY <2>1, <2>2, <2>3, <2>4 DEF TypeOK, outside, attributes, callback, departure
<1>7. CASE Receive
  BY <1>7 DEF TypeOK, Receive, loop, counts, departure, outside, Goto, attributes,
     callback
<1>8. CASE ReadNote
  BY <1>8 DEF TypeOK, ReadNote, loop, counts, departure, Goto, attributes, callback
<1>9. CASE Connect
  <2>1. /\ sub_socket_dict' \in [Topic -> Gen]
        /\ poller' \subseteq Socket
        /\ mpc' \in {"crashed", "acknowledge"}
    BY <1>9 DEF TypeOK, Connect, Socket
  <2> QED
    BY <1>9, <2>1 DEF TypeOK, Connect, loop, counts, departure, callback, outside
<1>10. CASE Acknowledge
  BY <1>10 DEF TypeOK, Acknowledge, loop, counts, departure, Goto, attributes,
     callback
<1>11. CASE Leave
  BY <1>11 DEF TypeOK, Leave, loop, counts, AfterDisconnect, Ask, Goto, attributes,
     callback
<1>12. CASE Left
  <2>1. PICK gen \in Gen : exchange' \in {exchange, [exchange EXCEPT ![gen] = "none"]}
    BY <1>12 DEF TypeOK, Left
  <2>2. told' \in BOOLEAN /\ mpc' \in {"answered", "crashed"}
    BY <1>12 DEF TypeOK, Left, Goto
  <2> QED
    BY <1>12, <2>1, <2>2 DEF TypeOK, Left, loop, counts, Goto, attributes, callback
<1>13. CASE Exit
  BY <1>13 DEF TypeOK, Exit, loop, counts, departure, outside, Goto, attributes,
     callback
<1>14. CASE PollRaises
  BY <1>14 DEF TypeOK, PollRaises, counts, departure, outside, Goto, attributes,
     callback
<1>15. CASE Interrupt
  <2>1. 0 \in 0..Cardinality(Topic)
    BY ThreadsAssumption, FS_CardinalityType
  <2> QED
    BY <1>15, <2>1 DEF TypeOK, Interrupt, Forget, counts, outside, Goto, attributes, callback
<1>16. CASE Begin
  BY <1>16, ThreadsAssumption DEF TypeOK, BoundsInv, Begin, Step, FlagRaised, main,
     loop, counts, departure
<1>17. CASE Clear
  BY <1>17, ThreadsAssumption DEF TypeOK, Gen, Clear, outside, Step, main, loop, counts,
     departure
<1>18. CASE Destroy
  BY <1>18 DEF TypeOK, Destroy, attributes, Step, main, loop, counts, departure
<1>19. CASE Configure
  <2>1. begun + 1 \in Gen \ {0}
    BY ThreadsAssumption DEF TypeOK, Gen
  <2> QED
    BY <1>19, <2>1 DEF TypeOK, Configure, Step, SocketMade, main, loop, counts, departure
<1>20. CASE Make
  BY <1>20 DEF TypeOK, Make, outside, Step, main, loop, counts, departure
<1>21. CASE Bind
  BY <1>21 DEF TypeOK, Bind, outside, Step, main, loop, counts, departure
<1>22. CASE Register
  BY <1>22 DEF TypeOK, Register, Ask, attributes, Step, main, loop, counts, departure
<1>23. CASE Registered
  BY <1>23 DEF TypeOK, Registered, Ask, attributes, Step, main, loop, counts,
     departure
<1>24. CASE Setup
  <2>1. /\ sub_socket_dict' \in [Topic -> Gen] /\ notify_sub_socket' \in Gen
        /\ poller' \subseteq Socket
        /\ watch' \in {"setup", "finish"}
        /\ note' \in {"none", "sent", "read"}
    BY <1>24 DEF TypeOK, Setup, Polled, Step, Socket
  <2> QED
    BY <1>24, <2>1 DEF TypeOK, Setup, Step, main, loop, counts, departure
<1>25. CASE Finish
  BY <1>25 DEF TypeOK, Finish, outside, Step, main, loop, counts, departure
<1>26. CASE Change
  BY <1>26, ThreadsAssumption DEF TypeOK, BoundsInv, Change, attributes, callback,
     main, loop, counts, departure
<1>27. CASE Notify
  BY <1>27 DEF TypeOK, Notify, attributes, callback, main, loop, counts, departure
<1>28. ASSUME NEW gen \in Gen, Answer(gen) PROVE TypeOK'
  BY <1>28 DEF TypeOK, Answer, attributes, callback, main, loop, counts, departure
<1>29. CASE UNCHANGED vars
  BY <1>29 DEF TypeOK, vars, attributes, callback, outside, main, loop, counts,
     departure
<1> QED
  BY <1>1, <1>2, <1>3, <1>4, <1>5, <1>6, <1>7, <1>8, <1>9, <1>10, <1>11, <1>12, <1>13,
     <1>14, <1>15, <1>16, <1>17, <1>18, <1>19, <1>20, <1>21, <1>22, <1>23, <1>24,
     <1>25, <1>26, <1>27, <1>28, <1>29 DEF Next, MainNext, WatchNext

LEMMA BoundsStep ==
    TypeOK /\ BoundsInv /\ [Next]_vars => BoundsInv'
<1> SUFFICES ASSUME TypeOK, BoundsInv, [Next]_vars PROVE BoundsInv'
  OBVIOUS
<1>1. CASE Test
  BY <1>1 DEF TypeOK, BoundsInv, Test, Forget, departure, outside, Goto, attributes,
     callback
<1>2. CASE Send
  BY <1>2 DEF TypeOK, BoundsInv, Send, loop, departure, outside, Goto, attributes,
     callback
<1>3. CASE Poll
  BY <1>3 DEF TypeOK, BoundsInv, Poll, counts, departure, outside, Goto, attributes,
     callback
<1>4. CASE PollReturns
  BY <1>4 DEF TypeOK, BoundsInv, PollReturns, counts, departure, outside, Goto,
     attributes, callback
<1>5. CASE Look
  BY <1>5 DEF TypeOK, BoundsInv, Look, counts, departure, outside, Goto, attributes,
     callback
<1>6. CASE Iterate
  BY <1>6 DEF TypeOK, BoundsInv, Iterate, departure, outside, Goto, attributes,
     callback
<1>7. CASE Receive
  BY <1>7 DEF TypeOK, BoundsInv, Receive, loop, counts, departure, outside, Goto,
     attributes, callback
<1>8. CASE ReadNote
  BY <1>8 DEF TypeOK, BoundsInv, ReadNote, loop, counts, departure, Goto, attributes,
     callback
<1>9. CASE Connect
  BY <1>9 DEF TypeOK, BoundsInv, Connect, loop, counts, departure, callback, outside
<1>10. CASE Acknowledge
  BY <1>10 DEF TypeOK, BoundsInv, Acknowledge, loop, counts, departure, Goto,
     attributes, callback
<1>11. CASE Leave
  BY <1>11 DEF TypeOK, BoundsInv, Leave, loop, counts, AfterDisconnect, Ask, Goto,
     attributes, callback
<1>12. CASE Left
  BY <1>12 DEF TypeOK, BoundsInv, Left, loop, counts, Goto, attributes, callback
<1>13. CASE Exit
  BY <1>13 DEF TypeOK, BoundsInv, Exit, loop, counts, departure, outside, Goto,
     attributes, callback
<1>14. CASE PollRaises
  BY <1>14 DEF TypeOK, BoundsInv, PollRaises, counts, departure, outside, Goto,
     attributes, callback
<1>15. CASE Interrupt
  BY <1>15 DEF TypeOK, BoundsInv, Interrupt, Forget, counts, outside, Goto,
     attributes, callback
<1>16. CASE Begin
  BY <1>16 DEF TypeOK, BoundsInv, Begin, Step, FlagRaised, main, loop, counts,
     departure
<1>17. CASE Clear
  BY <1>17 DEF TypeOK, BoundsInv, Clear, outside, Step, main, loop, counts, departure
<1>18. CASE Destroy
  BY <1>18 DEF TypeOK, BoundsInv, Destroy, attributes, Step, main, loop, counts,
     departure
<1>19. CASE Configure
  BY <1>19 DEF TypeOK, BoundsInv, Configure, Step, SocketMade, main, loop, counts,
     departure
<1>20. CASE Make
  BY <1>20 DEF TypeOK, BoundsInv, Make, outside, Step, main, loop, counts, departure
<1>21. CASE Bind
  BY <1>21 DEF TypeOK, BoundsInv, Bind, outside, Step, main, loop, counts, departure
<1>22. CASE Register
  BY <1>22 DEF TypeOK, BoundsInv, Register, Ask, attributes, Step, main, loop, counts,
     departure
<1>23. CASE Registered
  BY <1>23 DEF TypeOK, BoundsInv, Registered, Ask, attributes, Step, main, loop,
     counts, departure
<1>24. CASE Setup
  BY <1>24 DEF TypeOK, BoundsInv, Setup, Step, main, loop, counts, departure
<1>25. CASE Finish
  BY <1>25 DEF TypeOK, BoundsInv, Finish, outside, Step, main, loop, counts, departure
<1>26. CASE Change
  BY <1>26, ThreadsAssumption DEF TypeOK, BoundsInv, Change, attributes, callback,
     main, loop, counts, departure
<1>27. CASE Notify
  BY <1>27 DEF TypeOK, BoundsInv, Notify, attributes, callback, main, loop, counts,
     departure
<1>28. ASSUME NEW gen \in Gen, Answer(gen) PROVE BoundsInv'
  BY <1>28 DEF TypeOK, BoundsInv, Answer, attributes, callback, main, loop, counts,
     departure
<1>29. CASE UNCHANGED vars
  BY <1>29 DEF TypeOK, BoundsInv, vars, attributes, callback, outside, main, loop,
     counts, departure
<1> QED
  BY <1>1, <1>2, <1>3, <1>4, <1>5, <1>6, <1>7, <1>8, <1>9, <1>10, <1>11, <1>12, <1>13,
     <1>14, <1>15, <1>16, <1>17, <1>18, <1>19, <1>20, <1>21, <1>22, <1>23, <1>24,
     <1>25, <1>26, <1>27, <1>28, <1>29 DEF Next, MainNext, WatchNext

LEMMA CallbackStep ==
    TypeOK /\ CallbackInv /\ [Next]_vars => CallbackInv'
<1> SUFFICES ASSUME TypeOK, CallbackInv, [Next]_vars PROVE CallbackInv'
  OBVIOUS
<1>1. CASE Test
  BY <1>1 DEF TypeOK, CallbackInv, Open, Test, Forget, departure, outside, Goto,
     attributes, callback
<1>2. CASE Send
  BY <1>2 DEF TypeOK, CallbackInv, Open, Send, loop, departure, outside, Goto,
     attributes, callback
<1>3. CASE Poll
  BY <1>3 DEF TypeOK, CallbackInv, Open, Poll, counts, departure, outside, Goto,
     attributes, callback
<1>4. CASE PollReturns
  BY <1>4 DEF TypeOK, CallbackInv, Open, PollReturns, counts, departure, outside,
     Goto, attributes, callback
<1>5. CASE Look
  BY <1>5 DEF TypeOK, CallbackInv, Open, Look, counts, departure, outside, Goto,
     attributes, callback
<1>6. CASE Iterate
  BY <1>6 DEF TypeOK, CallbackInv, Open, Iterate, departure, outside, Goto,
     attributes, callback
<1>7. CASE Receive
  BY <1>7 DEF TypeOK, CallbackInv, Open, Receive, loop, counts, departure, outside,
     Goto, attributes, callback
<1>8. CASE ReadNote
  BY <1>8 DEF TypeOK, CallbackInv, Open, ReadNote, loop, counts, departure, Goto,
     attributes, callback
<1>9. CASE Connect
  BY <1>9 DEF TypeOK, CallbackInv, Open, Connect, loop, counts, departure, callback,
     outside
<1>10. CASE Acknowledge
  BY <1>10 DEF TypeOK, CallbackInv, Open, Acknowledge, loop, counts, departure, Goto,
     attributes, callback
<1>11. CASE Leave
  BY <1>11 DEF TypeOK, CallbackInv, Open, Leave, loop, counts, AfterDisconnect, Ask,
     Goto, attributes, callback
<1>12. CASE Left
  BY <1>12 DEF TypeOK, CallbackInv, Open, Left, loop, counts, Goto, attributes,
     callback
<1>13. CASE Exit
  BY <1>13 DEF TypeOK, CallbackInv, Open, Exit, loop, counts, departure, outside,
     Goto, attributes, callback
<1>14. CASE PollRaises
  BY <1>14 DEF TypeOK, CallbackInv, Open, PollRaises, counts, departure, outside,
     Goto, attributes, callback
<1>15. CASE Interrupt
  BY <1>15 DEF TypeOK, CallbackInv, Open, Interrupt, Forget, counts, outside, Goto,
     attributes, callback
<1>16. CASE Begin
  BY <1>16 DEF TypeOK, CallbackInv, Open, Begin, Step, FlagRaised, main, loop, counts,
     departure
<1>17. CASE Clear
  BY <1>17 DEF TypeOK, CallbackInv, Open, Clear, outside, Step, main, loop, counts,
     departure
<1>18. CASE Destroy
  BY <1>18 DEF TypeOK, CallbackInv, Open, Destroy, attributes, Step, main, loop,
     counts, departure
<1>19. CASE Configure
  BY <1>19 DEF TypeOK, CallbackInv, Open, Configure, Step, SocketMade, main, loop,
     counts, departure
<1>20. CASE Make
  BY <1>20 DEF TypeOK, CallbackInv, Open, Make, outside, Step, main, loop, counts,
     departure
<1>21. CASE Bind
  BY <1>21 DEF TypeOK, CallbackInv, Open, Bind, outside, Step, main, loop, counts,
     departure
<1>22. CASE Register
  BY <1>22 DEF TypeOK, CallbackInv, Open, Register, Ask, attributes, Step, main, loop,
     counts, departure
<1>23. CASE Registered
  BY <1>23 DEF TypeOK, CallbackInv, Open, Registered, Ask, attributes, Step, main,
     loop, counts, departure
<1>24. CASE Setup
  BY <1>24 DEF TypeOK, CallbackInv, Open, Setup, Step, main, loop, counts, departure
<1>25. CASE Finish
  BY <1>25 DEF TypeOK, CallbackInv, Open, Finish, outside, Step, main, loop, counts,
     departure
<1>26. CASE Change
  BY <1>26 DEF TypeOK, CallbackInv, Open, Change, attributes, callback, main, loop,
     counts, departure
<1>27. CASE Notify
  BY <1>27 DEF TypeOK, CallbackInv, Open, Notify, attributes, callback, main, loop,
     counts, departure
<1>28. ASSUME NEW gen \in Gen, Answer(gen) PROVE CallbackInv'
  BY <1>28 DEF TypeOK, CallbackInv, Open, Answer, attributes, callback, main, loop,
     counts, departure
<1>29. CASE UNCHANGED vars
  BY <1>29 DEF TypeOK, CallbackInv, Open, vars, attributes, callback, outside, main,
     loop, counts, departure
<1> QED
  BY <1>1, <1>2, <1>3, <1>4, <1>5, <1>6, <1>7, <1>8, <1>9, <1>10, <1>11, <1>12, <1>13,
     <1>14, <1>15, <1>16, <1>17, <1>18, <1>19, <1>20, <1>21, <1>22, <1>23, <1>24,
     <1>25, <1>26, <1>27, <1>28, <1>29 DEF Next, MainNext, WatchNext

LEMMA ExchangeStep ==
    TypeOK /\ CallbackInv /\ ExchangeInv /\ [Next]_vars => ExchangeInv'
<1> SUFFICES ASSUME TypeOK, CallbackInv, ExchangeInv, [Next]_vars PROVE ExchangeInv'
  OBVIOUS
<1>1. ASSUME Test \/ Send \/ Poll \/ PollReturns \/ PollRaises \/ Look \/ Iterate
             \/ Receive \/ ReadNote \/ Connect \/ Acknowledge
      PROVE ExchangeInv'
  <2>1. /\ ~Leaving /\ Running /\ mpc' \notin {"await", "answered", "exited"}
        /\ UNCHANGED <<context, begun, watch, exchange, live, interrupted>>
    BY <1>1 DEF Test, Send, Poll, PollReturns, PollRaises, Look, Iterate, Receive, ReadNote,
       Connect, Acknowledge, departure, outside, Goto, attributes, callback, Leaving,
       Running
  <2> QED
    BY <2>1 DEF ExchangeInv, Registering, Disconnecting, Leaving, Running, Open
<1>2. ASSUME Change \/ Notify \/ UNCHANGED vars PROVE ExchangeInv'
  <2>1. UNCHANGED <<context, begun, watch, exchange, live, main>>
    BY <1>2 DEF Change, Notify, vars, attributes, callback, outside
  <2> QED
    BY <2>1 DEF ExchangeInv, Registering, Disconnecting, Leaving, Running, Open, main, counts,
       departure
<1>3. CASE Leave
  BY <1>3 DEF ExchangeInv, Registering, Disconnecting, Leaving, Running, Open, TypeOK,
     CallbackInv, CanAsk, Leave, loop, counts, AfterDisconnect, Ask, Goto,
     attributes, callback
<1>4. CASE Left
  <2>1. PICK gen \in {asked, broker_reg_socket} :
         IF Open(gen) /\ exchange[gen] # "none"
         THEN /\ exchange[gen] \in {"registered", "disconnected"}
              /\ mpc' = "answered"
              /\ told' = (exchange[gen] = "disconnected")
              /\ exchange' = [exchange EXCEPT ![gen] = "none"]
         ELSE /\ mpc' = "crashed"
              /\ UNCHANGED <<told, exchange>>
    BY <1>4 DEF Left, Goto
  <2>2. /\ mpc = "await" /\ gen \in Gen /\ broker_reg_socket = context
        /\ UNCHANGED <<context, begun, watch, live, seen, asked, interrupted>>
        /\ watch # "configure" => Open(context)
        /\ seen = begun => watch = "idle"
    BY <1>4 DEF TypeOK, CallbackInv, Left, counts, Goto, attributes, callback
  <2>3. CASE Open(gen) /\ exchange[gen] # "none"
    <3>1. \A g \in Gen : exchange'[g] = IF g = gen THEN "none" ELSE exchange[g]
      BY <2>1, <2>2, <2>3 DEF TypeOK
    <3>2. mpc' = "answered" /\ context \in Gen
      BY <2>1, <2>3 DEF TypeOK
    <3>3. told' \/ begun # seen
      BY <2>1, <2>2, <2>3 DEF ExchangeInv, Disconnecting
    <3>4. watch = "failed" /\ interrupted # "leaving" => told'
      BY <2>1, <2>2, <2>3 DEF ExchangeInv, Disconnecting
    <3> QED
      BY <2>2, <3>1, <3>2, <3>3, <3>4 DEF ExchangeInv, Registering, Disconnecting, Leaving,
         Running, Open
  <2>4. CASE ~(Open(gen) /\ exchange[gen] # "none")
    <3>1. mpc' = "crashed" /\ UNCHANGED exchange
      BY <2>1, <2>4
    <3>2. watch = "failed" => interrupted = "leaving"
      BY <2>2, <2>4 DEF ExchangeInv, Disconnecting
    <3>3. Disconnecting(context) => interrupted = "leaving"
      BY <2>2, <2>4 DEF ExchangeInv, Disconnecting, TypeOK
    <3> QED
      BY <2>2, <3>1, <3>2, <3>3 DEF ExchangeInv, Registering, Disconnecting, Leaving,
         Running, Open
  <2> QED
    BY <2>3, <2>4
<1>5. CASE Exit
  BY <1>5 DEF ExchangeInv, Registering, Disconnecting, Leaving, Running, Open, Exit, loop,
     counts, departure, outside, Goto, attributes, callback
<1>6. CASE Interrupt
  <2>1. /\ Running /\ mpc' \in {"leave", "crashed"}
        /\ interrupted' = IF Leaving THEN "leaving" ELSE "working"
        /\ UNCHANGED <<context, begun, watch, exchange, live, seen, asked, told>>
    BY <1>6 DEF Interrupt, counts, outside, Goto, attributes, callback
  <2>2. CASE Leaving
    BY <2>1, <2>2 DEF ExchangeInv, Registering, Disconnecting, Leaving, Running, Open
  <2>3. CASE ~Leaving
    <3>1. interrupted = "never" /\ watch # "failed"
      BY <2>1, <2>3 DEF ExchangeInv
    <3> QED
      BY <2>1, <2>3, <3>1 DEF ExchangeInv, Registering, Disconnecting, Leaving, Running,
         TypeOK, Open
  <2> QED
    BY <2>2, <2>3
<1>7. CASE Begin
  BY <1>7 DEF ExchangeInv, Registering, Disconnecting, Leaving, Running, Open, TypeOK,
     CallbackInv, Begin, Step, FlagRaised, main, loop, counts, departure
<1>8. CASE Clear
  BY <1>8 DEF ExchangeInv, Registering, Disconnecting, Leaving, Running, Open, Clear,
     outside, Step, main, loop, counts, departure
<1>9. CASE Destroy
  BY <1>9 DEF ExchangeInv, Registering, Disconnecting, Leaving, Running, Open, TypeOK,
     CallbackInv, Destroy, attributes, Step, main, loop, counts, departure
<1>10. CASE Configure
  <2>1. /\ context' = begun + 1 /\ context = begun /\ context' \in Gen
        /\ watch = "configure" /\ watch' \in {"make", "register"}
        /\ live' = live \cup {begun + 1}
        /\ seen # begun /\ Running
        /\ UNCHANGED <<exchange, begun, seen, mpc, asked, told, interrupted>>
    BY <1>10, ThreadsAssumption DEF TypeOK, Gen, CallbackInv, Configure, Step, main, counts,
       departure
  <2>2. exchange[context'] = "none"
    BY <2>1 DEF ExchangeInv, TypeOK, Gen
  <2> QED
    BY <2>1, <2>2 DEF ExchangeInv, Registering, Disconnecting, Leaving, Running, TypeOK,
       Gen, Open
<1>11. CASE Make
  BY <1>11 DEF ExchangeInv, Registering, Disconnecting, Leaving, Running, Open, Make,
     outside, Step, main, loop, counts, departure
<1>12. CASE Bind
  BY <1>12 DEF ExchangeInv, Registering, Disconnecting, Leaving, Running, Open, Bind,
     outside, Step, main, loop, counts, departure
<1>13. CASE Register
  BY <1>13 DEF ExchangeInv, Registering, Disconnecting, Leaving, Running, Open, TypeOK,
     CallbackInv, CanAsk, Register, Ask, attributes, Step, main, loop, counts,
     departure
<1>14. CASE Registered
  BY <1>14 DEF ExchangeInv, Registering, Disconnecting, Leaving, Running, Open, TypeOK,
     CallbackInv, Registered, Ask, attributes, Step, main, loop, counts,
     departure
<1>15. CASE Setup
  BY <1>15 DEF ExchangeInv, Registering, Disconnecting, Leaving, Running, Open, Setup, Step,
     main, loop, counts, departure
<1>16. CASE Finish
  BY <1>16 DEF ExchangeInv, Registering, Disconnecting, Leaving, Running, Open, Finish,
     outside, Step, main, loop, counts, departure
<1>17. ASSUME NEW gen \in Gen, Answer(gen) PROVE ExchangeInv'
  BY <1>17 DEF ExchangeInv, Registering, Disconnecting, Leaving, Running, Open, TypeOK,
     Answer, attributes, callback, main, loop, counts, departure
<1> QED
  BY <1>1, <1>2, <1>3, <1>4, <1>5, <1>6, <1>7, <1>8, <1>9, <1>10, <1>11, <1>12, <1>13,
     <1>14, <1>15, <1>16, <1>17 DEF Next, MainNext, WatchNext

LEMMA LostStep ==
    TypeOK /\ BoundsInv /\ CallbackInv /\ LostInv /\ [Next]_vars => LostInv'
<1> SUFFICES ASSUME TypeOK, BoundsInv, CallbackInv, LostInv, [Next]_vars PROVE LostInv'
  OBVIOUS
<1>1. CASE Test
  BY <1>1 DEF TypeOK, BoundsInv, CallbackInv, LostInv, Test, Forget, departure,
     outside, Goto, attributes, callback
<1>2. CASE Send
  BY <1>2 DEF TypeOK, BoundsInv, CallbackInv, LostInv, Send, loop, departure, outside,
     Goto, attributes, callback
<1>3. CASE Poll
  BY <1>3 DEF TypeOK, BoundsInv, CallbackInv, LostInv, Poll, counts, departure,
     outside, Goto, attributes, callback
<1>4. CASE PollReturns
  BY <1>4 DEF TypeOK, BoundsInv, CallbackInv, LostInv, PollReturns, counts, departure,
     outside, Goto, attributes, callback
<1>5. CASE Look
  BY <1>5 DEF TypeOK, BoundsInv, CallbackInv, LostInv, Look, counts, departure,
     outside, Goto, attributes, callback
<1>6. CASE Iterate
  BY <1>6 DEF TypeOK, BoundsInv, CallbackInv, LostInv, Iterate, departure, outside,
     Goto, attributes, callback
<1>7. CASE Receive
  BY <1>7 DEF TypeOK, BoundsInv, CallbackInv, LostInv, Receive, loop, counts,
     departure, outside, Goto, attributes, callback
<1>8. CASE ReadNote
  BY <1>8 DEF TypeOK, BoundsInv, CallbackInv, LostInv, ReadNote, loop, counts,
     departure, Goto, attributes, callback
<1>9. CASE Connect
  BY <1>9 DEF TypeOK, BoundsInv, CallbackInv, LostInv, Connect, loop, counts,
     departure, callback, outside
<1>10. CASE Acknowledge
  BY <1>10 DEF TypeOK, BoundsInv, CallbackInv, LostInv, Acknowledge, loop, counts,
     departure, Goto, attributes, callback
<1>11. CASE Leave
  BY <1>11 DEF TypeOK, BoundsInv, CallbackInv, LostInv, Leave, loop, counts,
     AfterDisconnect, Ask, Goto, attributes, callback
<1>12. CASE Left
  BY <1>12 DEF TypeOK, BoundsInv, CallbackInv, LostInv, Left, loop, counts, Goto,
     attributes, callback
<1>13. CASE Exit
  BY <1>13 DEF TypeOK, BoundsInv, CallbackInv, LostInv, Exit, loop, counts, departure,
     outside, Goto, attributes, callback
<1>14. CASE PollRaises
  BY <1>14 DEF TypeOK, BoundsInv, CallbackInv, LostInv, PollRaises, counts, departure,
     outside, Goto, attributes, callback
<1>15. CASE Interrupt
  BY <1>15 DEF TypeOK, BoundsInv, CallbackInv, LostInv, Interrupt, Forget, counts,
     outside, Goto, attributes, callback
<1>16. CASE Begin
  BY <1>16 DEF TypeOK, BoundsInv, CallbackInv, LostInv, Begin, Step, FlagRaised, main,
     loop, counts, departure
<1>17. CASE Clear
  BY <1>17 DEF TypeOK, BoundsInv, CallbackInv, LostInv, Clear, outside, Step, main,
     loop, counts, departure
<1>18. CASE Destroy
  BY <1>18 DEF TypeOK, BoundsInv, CallbackInv, LostInv, Destroy, attributes, Step,
     main, loop, counts, departure
<1>19. CASE Configure
  BY <1>19 DEF TypeOK, BoundsInv, CallbackInv, LostInv, Configure, Step, SocketMade,
     main, loop, counts, departure
<1>20. CASE Make
  BY <1>20 DEF TypeOK, BoundsInv, CallbackInv, LostInv, Make, outside, Step, main,
     loop, counts, departure
<1>21. CASE Bind
  BY <1>21 DEF TypeOK, BoundsInv, CallbackInv, LostInv, Bind, outside, Step, main,
     loop, counts, departure
<1>22. CASE Register
  BY <1>22 DEF TypeOK, BoundsInv, CallbackInv, LostInv, Register, Ask, attributes,
     Step, main, loop, counts, departure
<1>23. CASE Registered
  BY <1>23 DEF TypeOK, BoundsInv, CallbackInv, LostInv, Registered, Ask, attributes,
     Step, main, loop, counts, departure
<1>24. CASE Setup
  BY <1>24 DEF TypeOK, BoundsInv, CallbackInv, LostInv, Setup, Step, main, loop,
     counts, departure
<1>25. CASE Finish
  BY <1>25 DEF TypeOK, BoundsInv, CallbackInv, LostInv, Finish, outside, Step, main,
     loop, counts, departure
<1>26. CASE Change
  BY <1>26 DEF TypeOK, BoundsInv, CallbackInv, LostInv, Change, attributes, callback,
     main, loop, counts, departure
<1>27. CASE Notify
  BY <1>27 DEF TypeOK, BoundsInv, CallbackInv, LostInv, Notify, attributes, callback,
     main, loop, counts, departure
<1>28. ASSUME NEW gen \in Gen, Answer(gen) PROVE LostInv'
  BY <1>28 DEF TypeOK, BoundsInv, CallbackInv, LostInv, Answer, attributes, callback,
     main, loop, counts, departure
<1>29. CASE UNCHANGED vars
  BY <1>29 DEF TypeOK, BoundsInv, CallbackInv, LostInv, vars, attributes, callback,
     outside, main, loop, counts, departure
<1> QED
  BY <1>1, <1>2, <1>3, <1>4, <1>5, <1>6, <1>7, <1>8, <1>9, <1>10, <1>11, <1>12, <1>13,
     <1>14, <1>15, <1>16, <1>17, <1>18, <1>19, <1>20, <1>21, <1>22, <1>23, <1>24,
     <1>25, <1>26, <1>27, <1>28, <1>29 DEF Next, MainNext, WatchNext

LEMMA PollerStep ==
    TypeOK /\ PollerInv /\ [Next]_vars => PollerInv'
<1> SUFFICES ASSUME TypeOK, PollerInv, [Next]_vars PROVE PollerInv'
  OBVIOUS
<1>1. CASE Test
  BY <1>1 DEF PollerInv, Test, Forget, departure, outside, Goto, attributes, callback
<1>2. CASE Send
  BY <1>2 DEF PollerInv, Send, loop, departure, outside, Goto, attributes, callback
<1>3. CASE Poll
  BY <1>3 DEF PollerInv, Poll, counts, departure, outside, Goto, attributes, callback
<1>4. CASE PollReturns
  BY <1>4 DEF PollerInv, Notified, Readable, PollReturns, counts, departure, outside,
     Goto, attributes, callback
<1>5. CASE Look
  <2>1. UNCHANGED <<kind, poller, polling, events>>
    BY <1>5 DEF Look, Goto, attributes
  <2>2. CASE <<"notify", notify_sub_socket>> \in events
    <3>1. kind = "direct"
      BY <2>2, ThreadsAssumption DEF PollerInv
    <3> QED
      BY <2>1, <3>1 DEF PollerInv
  <2>3. CASE <<"notify", notify_sub_socket>> \notin events
    <3>1. mpc' = "iterate"
      BY <1>5, <2>3 DEF Look, Goto
    <3> QED
      BY <2>1, <3>1 DEF PollerInv
  <2> QED
    BY <2>2, <2>3
<1>6. CASE Iterate
  BY <1>6 DEF PollerInv, Iterate, departure, outside, Goto, attributes, callback
<1>7. CASE Receive
  BY <1>7 DEF PollerInv, Receive, loop, counts, departure, outside, Goto, attributes,
     callback
<1>8. CASE ReadNote
  BY <1>8 DEF PollerInv, ReadNote, loop, counts, departure, Goto, attributes, callback
<1>9. CASE Connect
  BY <1>9 DEF PollerInv, Connect, loop, counts, departure, callback, outside
<1>10. CASE Acknowledge
  BY <1>10 DEF PollerInv, Acknowledge, loop, counts, departure, Goto, attributes,
     callback
<1>11. CASE Leave
  BY <1>11 DEF PollerInv, Leave, loop, counts, AfterDisconnect, Ask, Goto, attributes,
     callback
<1>12. CASE Left
  BY <1>12 DEF PollerInv, Left, loop, counts, Goto, attributes, callback
<1>13. CASE Exit
  BY <1>13 DEF PollerInv, Exit, loop, counts, departure, outside, Goto, attributes,
     callback
<1>14. CASE PollRaises
  BY <1>14 DEF PollerInv, PollRaises, counts, departure, outside, Goto, attributes,
     callback
<1>15. CASE Interrupt
  BY <1>15 DEF PollerInv, Interrupt, Forget, counts, outside, Goto, attributes,
     callback
<1>16. CASE Begin
  BY <1>16 DEF PollerInv, Begin, Step, FlagRaised, main, loop, counts, departure
<1>17. CASE Clear
  BY <1>17 DEF PollerInv, Clear, outside, Step, main, loop, counts, departure
<1>18. CASE Destroy
  BY <1>18 DEF PollerInv, Destroy, attributes, Step, main, loop, counts, departure
<1>19. CASE Configure
  BY <1>19 DEF PollerInv, Configure, Step, SocketMade, main, loop, counts, departure
<1>20. CASE Make
  BY <1>20 DEF PollerInv, Make, outside, Step, main, loop, counts, departure
<1>21. CASE Bind
  BY <1>21 DEF PollerInv, Bind, outside, Step, main, loop, counts, departure
<1>22. CASE Register
  BY <1>22 DEF PollerInv, Register, Ask, attributes, Step, main, loop, counts,
     departure
<1>23. CASE Registered
  BY <1>23 DEF PollerInv, Registered, Ask, attributes, Step, main, loop, counts,
     departure
<1>24. CASE Setup
  <2>1. UNCHANGED <<kind, polling, events, mpc>>
    BY <1>24 DEF Setup, Step, main, loop
  <2>2. ASSUME kind # "direct" PROVE poller' \subseteq Topic \X Gen
    <3>1. PICK t \in Topic : poller' = Polled(t)
      BY <1>24, <2>2 DEF Setup
    <3>2. context \in Gen /\ poller \subseteq Topic \X Gen
      BY <2>2 DEF TypeOK, PollerInv
    <3> QED
      BY <3>1, <3>2 DEF Polled
  <2> QED
    BY <2>1, <2>2 DEF PollerInv
<1>25. CASE Finish
  BY <1>25 DEF PollerInv, Finish, outside, Step, main, loop, counts, departure
<1>26. CASE Change
  BY <1>26 DEF PollerInv, Change, attributes, callback, main, loop, counts, departure
<1>27. CASE Notify
  BY <1>27 DEF PollerInv, Notify, attributes, callback, main, loop, counts, departure
<1>28. ASSUME NEW gen \in Gen, Answer(gen) PROVE PollerInv'
  BY <1>28 DEF PollerInv, Answer, attributes, callback, main, loop, counts, departure
<1>29. CASE UNCHANGED vars
  BY <1>29 DEF PollerInv, vars, attributes, callback, outside, main, loop, counts,
     departure
<1> QED
  BY <1>1, <1>2, <1>3, <1>4, <1>5, <1>6, <1>7, <1>8, <1>9, <1>10, <1>11, <1>12, <1>13,
     <1>14, <1>15, <1>16, <1>17, <1>18, <1>19, <1>20, <1>21, <1>22, <1>23, <1>24,
     <1>25, <1>26, <1>27, <1>28, <1>29 DEF Next, MainNext, WatchNext

\* While no change has begun since the turn did, the callback does nothing.
LEMMA CallbackIdle ==
    ASSUME TypeOK, CallbackInv, WatchNext
    PROVE  seen' # begun' /\ Running /\ mpc' = mpc
<1>1. CASE Begin
  BY <1>1 DEF TypeOK, CallbackInv, Begin, Step, main, counts
<1>2. CASE ~Begin
  <2>1. watch # "idle" /\ UNCHANGED <<seen, begun, mpc>> /\ Running
    BY <1>2 DEF WatchNext, Clear, Destroy, Configure, Make, Bind, Register, Registered,
       Setup, Finish, Step, main, counts, outside
  <2> QED
    BY <2>1 DEF CallbackInv
<1> QED
  BY <1>1, <1>2

LEMMA TurnStep ==
    TypeOK /\ CallbackInv /\ TurnInv /\ [Next]_vars => TurnInv'
<1> SUFFICES ASSUME TypeOK, CallbackInv, TurnInv, [Next]_vars, seen' = begun'
             PROVE  TurnInv'
  BY DEF TurnInv
<1>1. ASSUME Test \/ Send \/ Poll \/ PollReturns \/ PollRaises \/ Leave \/ Left \/ Exit
             \/ Interrupt
      PROVE  TurnInv'
  <2>1. mpc' \in {"send", "poll", "test", "polling", "look", "leave", "await", "answered",
                  "exited", "crashed"}
    BY <1>1 DEF Test, Send, Poll, PollReturns, PollRaises, Leave, Left, Exit, Interrupt,
       Goto, AfterDisconnect
  <2> QED
    BY <2>1 DEF TurnInv
<1>2. CASE Look
  <2>1. /\ mpc' \in {"notified", "iterate"}
        /\ mpc' = "iterate" => size' = Cardinality(Topics)
        /\ UNCHANGED sub_socket_dict
    BY <1>2 DEF Look, Goto, attributes
  <2> QED
    BY <2>1 DEF TurnInv, Topics
<1>3. CASE Iterate
  <2>1. /\ mpc = "iterate" /\ mpc' \in {"crashed", "test", "receive", "iterate"}
        /\ mpc' = "receive" => topic' \subseteq Topics
        /\ UNCHANGED <<sub_socket_dict, size, seen, begun>>
    BY <1>3 DEF Iterate, Goto, attributes, callback
  <2> QED
    BY <2>1 DEF TurnInv, Topics
<1>4. CASE Receive
  <2>1. /\ mpc = "receive" /\ mpc' \in {"iterate", "crashed"}
        /\ UNCHANGED <<sub_socket_dict, size, seen, begun>>
    BY <1>4 DEF Receive, Goto, attributes, callback, loop, counts
  <2> QED
    BY <2>1 DEF TurnInv, Topics
<1>5. CASE ReadNote
  BY <1>5 DEF TurnInv, ReadNote, Goto
<1>6. CASE Connect
  BY <1>6 DEF TurnInv, Connect, counts, callback, outside
<1>7. CASE Acknowledge
  BY <1>7 DEF TurnInv, Acknowledge, Goto
<1>8. CASE WatchNext
  BY <1>8, CallbackIdle
<1>9. ASSUME Change \/ Notify \/ (\E gen \in Gen : Answer(gen)) \/ UNCHANGED vars
      PROVE  TurnInv'
  <2>1. /\ UNCHANGED <<mpc, sub_socket_dict, size, topic, seen, begun>>
        /\ note = "read" => note' = "read"
    BY <1>9 DEF Change, Answer, Notify, vars, attributes, main, loop, counts, callback,
       outside
  <2> QED
    BY <2>1 DEF TurnInv, Topics
<1> QED
  BY <1>1, <1>2, <1>3, <1>4, <1>5, <1>6, <1>7, <1>8, <1>9 DEF Next, MainNext

\* While no change has begun since the turn did, what the main thread uses is
\* there, except for sockets of an older context.
LEMMA FlagStep ==
    /\ TypeOK /\ BoundsInv /\ CallbackInv /\ ExchangeInv /\ PollerInv /\ TurnInv /\ FlagProtects
    /\ [Next]_vars
    => FlagProtects'
<1> SUFFICES ASSUME TypeOK, BoundsInv, CallbackInv, ExchangeInv, PollerInv, TurnInv,
                    FlagProtects, [Next]_vars, mpc' = "crashed", seen' = begun',
                    interrupted' # "leaving"
             PROVE  (\E t \in Topics : ~Open(sub_socket_dict[t]))'
  BY DEF FlagProtects
<1>1. CASE mpc = "crashed"
  <2>1. UNCHANGED vars
    <3>1. ~WatchNext
      BY <1>1 DEF WatchNext, Begin, Clear, Destroy, Configure, Make, Bind, Register,
         Registered, Setup, Finish, Step, Running
    <3>2. ~MainNext /\ ~PollRaises /\ ~Interrupt
      BY <1>1 DEF MainNext, Test, Send, Poll, PollReturns, Look, Iterate, Receive,
         ReadNote, Connect, Acknowledge, Leave, Left, Exit, PollRaises, Interrupt, Running
    <3>3. ~Change /\ ~Notify /\ \A gen \in Gen : ~Answer(gen)
      BY <1>1 DEF Change, Answer, Notify, Running
    <3> QED
      BY <3>1, <3>2, <3>3 DEF Next
  <2> QED
    BY <1>1, <2>1 DEF FlagProtects, vars, attributes, main, counts, departure, callback,
       outside, Topics, Open
<1>2. CASE mpc # "crashed"
  <2>1. ~WatchNext
    BY <1>2, CallbackIdle
  <2>2. ~(UNCHANGED vars) /\ ~Change /\ ~Notify /\ \A gen \in Gen : ~Answer(gen)
    BY <1>2 DEF vars, main, Change, Answer, Notify
  <2>3. ~Test /\ ~Poll /\ ~PollReturns /\ ~Look /\ ~Exit /\ ~PollRaises
    BY DEF Test, Poll, PollReturns, Look, Exit, PollRaises, Goto
  <2>4. MainNext \/ Interrupt
    BY <2>1, <2>2, <2>3 DEF Next
  <2>5. seen = begun
    BY <2>3, <2>4 DEF MainNext, Send, Iterate, Receive, ReadNote, Connect, Acknowledge,
       Leave, Left, Interrupt, Goto, callback, counts
  <2>6. /\ watch = "idle"
        /\ Open(context) /\ Open(broker_reg_socket) /\ broker_reg_socket = context
        /\ kind = "publisher" => Open(pub_socket)
        /\ kind = "direct" => Open(notify_sub_socket)
    BY <2>5 DEF CallbackInv
  <2>7. ~Send /\ ~Acknowledge /\ ~ReadNote
    BY <2>5, <2>6 DEF Send, Acknowledge, ReadNote, Goto, BoundsInv, PollerInv, TurnInv
  <2>8. ~Left
    BY <2>5, <2>6 DEF Left, Goto, ExchangeInv, Disconnecting
  <2>9. ~Iterate
    BY <2>5 DEF Iterate, Goto, TurnInv
  <2>10. CASE Leave
    <3>1. exchange[context] # "none" /\ interrupted # "leaving"
      BY <2>6, <2>10 DEF Leave, CanAsk, Goto, AfterDisconnect
    <3>2. Registering(context) \/ Disconnecting(context)
      BY <3>1 DEF TypeOK, Registering, Disconnecting
    <3> QED
      BY <2>6, <2>10, <3>1, <3>2 DEF ExchangeInv, TypeOK, Leave
  <2>11. CASE Interrupt
    BY <2>11 DEF Interrupt, Goto, Leaving, Running, ExchangeInv, TypeOK
  <2>12. CASE Receive
    <3>1. PICK t \in topic : ~Open(sub_socket_dict[t])
      BY <2>12 DEF Receive, Goto
    <3>2. t \in Topics
      BY <2>5, <2>12 DEF Receive, TurnInv
    <3> QED
      BY <2>12, <3>1, <3>2 DEF Receive, Goto, attributes, outside, Topics, Open
  <2>13. CASE Connect
    <3>1. PICK t \in Topics : ~Open(sub_socket_dict[t])
      BY <2>6, <2>13 DEF Connect
    <3> QED
      BY <2>6, <2>13, <3>1 DEF Connect, outside, Topics, Open
  <2> QED
    BY <2>3, <2>4, <2>7, <2>8, <2>9, <2>10, <2>11, <2>12, <2>13 DEF MainNext
<1> QED
  BY <1>1, <1>2

LEMMA Inductive ==
    /\ Init => IInv
    /\ IInv /\ [Next]_vars => IInv'
<1>1. ASSUME Init PROVE TypeOK
  <2>1. 0 \in Gen /\ 1 \in Gen /\ 0 \in 0..max_event_count /\ 0 \in 0..MaxChanges
    BY ThreadsAssumption DEF Gen
  <2>2. 0 \in 0..Cardinality(Topic)
    BY ThreadsAssumption, FS_CardinalityType
  <2>3. /\ {context, broker_reg_socket, pub_socket, notify_sub_socket, asked} \subseteq Gen
        /\ sub_socket_dict \in [Topic -> Gen]
        /\ live \subseteq Gen \ {0}
    BY <1>1, <2>1 DEF Init
  <2>4. poller \subseteq Socket
    BY <1>1, <2>1 DEF Init, Socket
  <2>5. bound \in BOOLEAN
    BY <1>1 DEF Init
  <2>6. /\ size \in 0..Cardinality(Topic)
        /\ event_count \in 0..max_event_count /\ lost \in 0..max_event_count
        /\ {seen, begun, changes} \subseteq 0..MaxChanges
    BY <1>1, <2>1, <2>2 DEF Init
  <2> QED
    BY <1>1, <2>3, <2>4, <2>5, <2>6 DEF Init, TypeOK
<1>2. ASSUME Init PROVE BoundsInv /\ CallbackInv /\ ExchangeInv /\ LostInv
  <2>1. BoundsInv /\ LostInv
    BY <1>2, ThreadsAssumption DEF Init, BoundsInv, LostInv
  <2>2. ExchangeInv
    <3>1. \A gen \in Gen : exchange[gen] = "none"
      BY <1>2 DEF Init
    <3>2. context \in Gen
      BY <1>2, ThreadsAssumption DEF Init, Gen
    <3> QED
      BY <1>2, <3>1, <3>2 DEF Init, ExchangeInv, Registering, Disconnecting
  <2>3. kind = "publisher" => bound
    BY <1>2 DEF Init
  <2>4. /\ WATCH_FLAG <=> watch # "idle"
        /\ watch = "idle" /\ seen <= begun
    BY <1>2 DEF Init
  <2>5. /\ context = begun + 1 /\ Open(context) /\ broker_reg_socket = context
        /\ kind = "publisher" => pub_socket = context
        /\ kind = "direct" => notify_sub_socket = context
    BY <1>2 DEF Init, Open
  <2> QED
    BY <2>1, <2>2, <2>3, <2>4, <2>5 DEF CallbackInv
<1>3. ASSUME Init PROVE PollerInv /\ TurnInv /\ FlagProtects
  BY <1>3, ThreadsAssumption DEF Init, PollerInv, Gen, TurnInv, FlagProtects
<1>4. ASSUME IInv, [Next]_vars PROVE IInv'
  BY <1>4, TypeStep, BoundsStep, CallbackStep, ExchangeStep, PollerStep, TurnStep,
     FlagStep, LostStep DEF IInv
<1> QED
  BY <1>1, <1>2, <1>3, <1>4 DEF IInv

LEMMA Invariant == Spec => []IInv
  BY Inductive, PTL DEF Spec

\* Every variable stays within the values the code gives it, for any topics
\* and any number of changes.
THEOREM TypeCorrect == Spec => []TypeOK
<1>1. IInv => TypeOK
  BY DEF IInv
<1> QED
  BY <1>1, Invariant, PTL

\* For any topics and any number of changes of the broker: WATCH_FLAG keeps
\* the main thread from dying in a turn that no change interrupts, and in the
\* departure after it, but for the sockets that outlive their context in the
\* dictionary, and a Ctrl-C that comes while it is leaving already.
THEOREM FlagGuards == Spec => []FlagProtects
<1>1. IInv => FlagProtects
  BY DEF IInv
<1> QED
  BY <1>1, Invariant, PTL

\* For any number of changes and events: a change costs at most one event.
THEOREM LossBounded == Spec => []OneLostPerChange
<1>1. IInv => OneLostPerChange
  BY DEF IInv, LostInv, OneLostPerChange
<1> QED
  BY <1>1, Invariant, PTL

\* The callback fails only under a client that is leaving; which it does in
\* order, unless it is interrupted again in that, or until a further change has
\* the callback called again.
THEOREM FailuresHarmless == Spec => []FailureHarmless
<1>1. IInv => FailureHarmless
  BY DEF IInv, ExchangeInv, FailureHarmless, Leaving
<1> QED
  BY <1>1, Invariant, PTL

\* A client that leaves undisturbed has been answered its 'disconnect'.
THEOREM LeavesAnswered == Spec => []LeavesTold
<1>1. IInv => LeavesTold
  BY DEF IInv, ExchangeInv, LeavesTold
<1> QED
  BY <1>1, Invariant, PTL
=============================================================================
