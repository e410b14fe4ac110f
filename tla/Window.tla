-------------------------------- MODULE Window --------------------------------
(* Which queued rooms blow: the rule of Dispatcher.schedule (lines 120-131).  *)
EXTENDS Integers, Sequences

CONSTANT Slots      \* rooms that may blow at the same time (3 in the code)

(* With a single slot the room that closes a window would open the next one   *)
(* and keep it for ever, so the literal 3 of the code may not become 1.       *)
ASSUME SlotsAssumption == Slots \in Nat /\ Slots >= 2

(* ArrayList.indexOf for an element that occurs: the first position.          *)
IndexOf(s, e) == CHOOSE i \in DOMAIN s :
                   s[i] = e /\ \A j \in DOMAIN s : s[j] = e => i <= j

(* A dispatcher that always starts over at the head of the queue.             *)
OpeningAtHead(q, old) == 1

(* Where the next window opens: at the room that closed the last one, if it   *)
(* is still queued, else at the head of the queue.                            *)
Opening(q, old) == IF old # <<>> /\ \E i \in DOMAIN q : q[i] = old[Len(old)]
                   THEN IndexOf(q, old[Len(old)])
                   ELSE 1

(* The same with the comparison of the code off by one, ...                   *)
WindowOneMore(q, old) ==
  IF Len(q) <= Slots + 1
  THEN q
  ELSE [i \in 1..Slots |-> q[((Opening(q, old) + i - 2) % Len(q)) + 1]]

(* ... and with an index that stops at the end of the queue.                  *)
WindowClamped(q, old) ==
  IF Len(q) <= Slots
  THEN q
  ELSE [i \in 1..Slots |-> LET k == Opening(q, old) + i - 1
                           IN  q[IF k <= Len(q) THEN k ELSE Len(q)]]

(* The selected list: the whole queue when it fits, else Slots rooms in       *)
(* cyclic order from the opening.                                             *)
Window(q, old) ==
  IF Len(q) <= Slots
  THEN q
  ELSE [i \in 1..Slots |-> q[((Opening(q, old) + i - 2) % Len(q)) + 1]]
=============================================================================
