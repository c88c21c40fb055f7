------------------------------ MODULE Registry ------------------------------
(***************************************************************************)
(* The broker's two dictionaries, publishers and subscribers of            *)
(* lib/broker.py, from topics to lists of addresses.  The order of a list  *)
(* is never used, so it is a bag: a function from addresses to the number  *)
(* of their entries; a topic without a list has none.                      *)
(*                                                                         *)
(* Where a definition follows one of a similar name, such as Add follows   *)
(* AddOnce, the first is a variant that a bug would give; nothing uses it. *)
(***************************************************************************)
EXTENDS Integers

CONSTANT Topic

\* append, or a new list of one entry.
AddOnce(bag, x) == [bag EXCEPT ![x] = 1]
Add(bag, x) == [bag EXCEPT ![x] = @ + 1]

NoEntry(bag) == \A x \in DOMAIN bag : bag[x] = 0
SingleEntry(bag) ==
    \E x \in DOMAIN bag : bag = [y \in DOMAIN bag |-> IF y = x THEN 1 ELSE 0]

\* A list of one entry is dropped whole, whoever's it is; from a longer one
\* list.remove takes the address out, or raises.
CanDrop(bag, x) == SingleEntry(bag) \/ bag[x] > 0
DropAll(bag, x) == [y \in DOMAIN bag |-> 0]
Drop(bag, x) ==
    IF SingleEntry(bag) THEN [y \in DOMAIN bag |-> 0]
                        ELSE [bag EXCEPT ![x] = @ - 1]

\* Register or remove x under each of the topics ts.
AddUnderAlone(registry, ts, x) ==
    [t \in Topic |->
        IF t \in ts THEN [y \in DOMAIN registry[t] |-> IF y = x THEN 1 ELSE 0]
                    ELSE registry[t]]
AddUnder(registry, ts, x) ==
    [t \in Topic |-> IF t \in ts THEN Add(registry[t], x) ELSE registry[t]]
DropUnderNone(registry, ts, x) == registry
DropUnder(registry, ts, x) ==
    [t \in Topic |-> IF t \in ts THEN Drop(registry[t], x) ELSE registry[t]]
=============================================================================
