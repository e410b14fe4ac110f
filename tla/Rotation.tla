------------------------------- MODULE Rotation -------------------------------
(* The rule by which the Dispatcher of the Center chooses the rooms that blow *)
(* (Dispatcher.schedule), apart from the threads and locks around it: a queue *)
(* of rooms, and a window of at most Slots of them that moves on at every     *)
(* scheduling so that the room that closed the last window opens the next.    *)
EXTENDS Window, SequencesExt

CONSTANT Rooms          \* the room numbers

VARIABLES queue,        \* Server.queue
          oldList,      \* Dispatcher.oldList; null is <<>>
          queueChanged  \* WakeUpTable.queueChanged

vars == <<queue, oldList, queueChanged>>

-----------------------------------------------------------------------------
Init == queue = <<>> /\ oldList = <<>> /\ queueChanged = FALSE

(* handleAC, request for start.                                               *)
Join(r) == /\ queue' = Append(queue, r)
           /\ queueChanged' = TRUE
           /\ UNCHANGED oldList

(* handleAC, request for stop, or removeClient.                               *)
Leave(i) == /\ queue' = RemoveAt(queue, i)
            /\ queueChanged' = TRUE
            /\ UNCHANGED oldList

(* The part of Dispatcher.run that schedules.                                 *)
Reschedule == /\ oldList' = Window(queue, oldList)
              /\ queueChanged' = FALSE
              /\ UNCHANGED queue

Next == \/ \E r \in Rooms : Join(r)
        \/ \E i \in DOMAIN queue : Leave(i)
        \/ Reschedule

(* A new scheduling is never put off for ever: every change of the queue sets *)
(* queueChanged and every tenth tick of the timer sets schedulingTimeout.     *)
Spec == Init /\ [][Next]_vars /\ WF_vars(Reschedule)

(* The behaviours in which a room queues once, which is what the handlers do  *)
(* as long as no connection is lost (positive is false when a room joins).    *)
FreshNext == \/ \E r \in Rooms \ ToSet(queue) : Join(r)
             \/ \E i \in DOMAIN queue : Leave(i)
             \/ Reschedule

FreshSpec == Init /\ [][FreshNext]_vars /\ WF_vars(Reschedule)

(* Those among them in which the Dispatcher answers every change of the queue *)
(* before the next one.                                                       *)
PromptNext == \/ ~queueChanged /\ \E r \in Rooms \ ToSet(queue) : Join(r)
              \/ ~queueChanged /\ \E i \in DOMAIN queue : Leave(i)
              \/ Reschedule

-----------------------------------------------------------------------------
(* The queue and the window are lists of rooms, and a window never holds more *)
(* rooms than may blow at a time (schedule, lines 122-131).                   *)
TypeOK == /\ queue \in Seq(Rooms)
          /\ oldList \in Seq(Rooms)
          /\ Len(oldList) <= Slots

(* When every room queues once, no window names a room twice: the cyclic      *)
(* index of schedule never wraps far enough to meet its own opening. (A room  *)
(* named twice would be charged twice per tick and would waste a slot.)       *)
ServedOnce == IsInjective(oldList)

(* Dispatcher.schedule keeps the safety half of the promise of FairShare,     *)
(* whatever the churn: as many rooms as possible blow, and they are rooms     *)
(* that wait (lines 120-131).                                                 *)
Share == INSTANCE FairShare WITH waiting <- ToSet(queue), served <- ToSet(oldList)
SharesSafely == Share!Init /\ [][Share!Next]_(Share!vars)

(* A queued room may be starved by rooms that stop and start again faster     *)
(* than the Dispatcher schedules: they re-queue behind the room that closed   *)
(* the last window and are counted on from there. It takes such churn: once   *)
(* rooms no longer leave the queue, every queued room blows again and again.  *)
NobodyLeaves == <>[][\A i \in DOMAIN queue : ~Leave(i)]_vars
ServedWhenQuiet == NobodyLeaves => Share!Served
=============================================================================
