------------------------------- MODULE Waiting --------------------------------
(* Rotation with the wait of every room, over two kinds of behaviours at      *)
(* once: those in which the Dispatcher is prompt and those in which rooms     *)
(* come and go as they like. A history variable counts, in the former and for *)
(* every queued room, the schedulings that passed it over since it last blew. *)
EXTENDS Rotation

CONSTANT WaitBound  \* the most schedulings that may pass a queued room over

ASSUME RoomsAssumption == IsFiniteSet(Rooms) /\ WaitBound \in Nat

VARIABLES prompt,      \* the Dispatcher answers a change before the next one
          passedOver

waitVars == <<vars, prompt, passedOver>>

WaitInit == /\ Init
            /\ prompt \in BOOLEAN
            /\ passedOver = [r \in Rooms |-> 0]

Waits(r) == r \in ToSet(queue') \ ToSet(oldList')

WaitNext ==
  /\ \/ prompt /\ PromptNext
     \/ ~prompt /\ FreshNext
  /\ passedOver' = [r \in Rooms |->
                      IF ~prompt \/ ~Waits(r) THEN 0
                      ELSE IF Reschedule /\ passedOver[r] <= WaitBound
                           THEN passedOver[r] + 1
                           ELSE passedOver[r]]
  /\ UNCHANGED prompt

WaitSpec == WaitInit /\ [][WaitNext]_waitVars /\ WF_vars(Reschedule)

(* Before a prompt Dispatcher no room is passed over more than WaitBound      *)
(* schedulings in a row, whoever joins and leaves meanwhile: losing the room  *)
(* that closed the last window (Dispatcher.java:127 falls back to the head of *)
(* the queue) costs a waiting room progress only when it also moves up.       *)
BoundedWait == \A r \in Rooms : passedOver[r] <= WaitBound

(* So a prompt Dispatcher also keeps the liveness half of FairShare: every    *)
(* room that stays in the queue blows again and again (schedule, 120-131).    *)
ServedWhenPrompt == prompt => Share!Served
=============================================================================
