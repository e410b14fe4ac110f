------------------------------ MODULE FairShare ------------------------------
(* What the Dispatcher promises to the rooms, with no algorithm in it: at     *)
(* most Slots rooms are given wind at a time, no wind is wasted while a room  *)
(* waits for it, and no room waits for ever.                                  *)
EXTENDS FiniteSets, Integers

CONSTANTS Rooms,    \* the room numbers
          Slots     \* rooms that may blow at the same time (3 in the code)

VARIABLES waiting,  \* the rooms that have asked for wind and not yet stopped
          served    \* the rooms chosen by the last scheduling

vars == <<waiting, served>>

Lesser(m, n) == IF m <= n THEN m ELSE n

Init == waiting = {} /\ served = {}

Ask(r) == waiting' = waiting \cup {r} /\ UNCHANGED served

Quit(r) == waiting' = waiting \ {r} /\ UNCHANGED served

(* A scheduling picks among the rooms that wait now, and picks as many of     *)
(* them as may blow.                                                          *)
Serve == /\ served' \in SUBSET waiting
         /\ Cardinality(served') = Lesser(Slots, Cardinality(waiting))
         /\ UNCHANGED waiting

Next == Serve \/ \E r \in Rooms : Ask(r) \/ Quit(r)

Served == \A r \in Rooms : []<>(r \in waiting => r \in served)

Spec == Init /\ [][Next]_vars /\ Served
=============================================================================
