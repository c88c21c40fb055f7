----------------------------- MODULE Matchmaking -----------------------------
(***************************************************************************)
(* What the registration service promises, without a broker: publishers    *)
(* and subscribers that have been introduced to one another are linked on  *)
(* every topic they share.                                                 *)
(*                                                                         *)
(* A publisher is known from the moment the service may hand out its       *)
(* address, and confirmed once it may assume that everybody has it.  A     *)
(* subscriber is settled once it may assume that it has every address.     *)
(***************************************************************************)
CONSTANTS Pub, Sub, Topic, PubTopics, SubTopics

VARIABLES known, confirmed, settled, links

vars == <<known, confirmed, settled, links>>

\* The links a publisher and a subscriber should have.
Matches(p, s) == (PubTopics[p] \cap SubTopics[s]) \X {p}

Linked(p, s) == Matches(p, s) \subseteq links[s]

Init ==
    /\ known = {}
    /\ confirmed = {}
    /\ settled = {}
    /\ links = [s \in Sub |-> {}]

\* The service takes up a publisher.
Offer(p) ==
    /\ p \notin known
    /\ known' = known \cup {p}
    /\ UNCHANGED <<confirmed, settled, links>>

\* A subscriber learns of known publishers, and of nobody it does not want.
Link(s, ps) ==
    /\ ps \subseteq known
    /\ links' = [links EXCEPT ![s] = @ \cup UNION {Matches(p, s) : p \in ps}]
    /\ UNCHANGED <<known, confirmed, settled>>

\* A publisher is told that it has been introduced to all who are settled.
Confirm(p) ==
    /\ p \in known
    /\ \A s \in settled : Linked(p, s)
    /\ confirmed' = confirmed \cup {p}
    /\ UNCHANGED <<known, settled, links>>

\* A subscriber learns of all who are confirmed, and is settled.
Settle(s, ps) ==
    /\ ps \subseteq known
    /\ confirmed \subseteq ps
    /\ links' = [links EXCEPT ![s] = @ \cup UNION {Matches(p, s) : p \in ps}]
    /\ settled' = settled \cup {s}
    /\ UNCHANGED <<known, confirmed>>

\* A publisher stops publishing; later the service forgets it.
Stop(p) ==
    /\ confirmed' = confirmed \ {p}
    /\ UNCHANGED <<known, settled, links>>

Forget(p) ==
    /\ p \notin confirmed
    /\ known' = known \ {p}
    /\ UNCHANGED <<confirmed, settled, links>>

\* A subscriber stops listening, at once or with its connections still open;
\* they are closed later.
Unsettle(s) ==
    /\ settled' = settled \ {s}
    /\ UNCHANGED <<known, confirmed, links>>

Quit(s) ==
    /\ settled' = settled \ {s}
    /\ links' = [links EXCEPT ![s] = {}]
    /\ UNCHANGED <<known, confirmed>>

Next ==
    \/ \E p \in Pub : Offer(p) \/ Confirm(p) \/ Stop(p) \/ Forget(p)
    \/ \E s \in Sub, ps \in SUBSET Pub : Link(s, ps) \/ Settle(s, ps)
    \/ \E s \in Sub : Unsettle(s) \/ Quit(s)

Spec == Init /\ [][Next]_vars

\* Whoever is confirmed is linked with whoever is settled.
Matched == \A p \in confirmed, s \in settled : Linked(p, s)
=============================================================================
