----------------------------- MODULE MCRoomAccount -----------------------------
(* RoomAccount for TLC, with a choice of what may happen: many starts and     *)
(* ticks undisturbed, or one start with losses, checkouts, and one tick or    *)
(* changes of level.                                                          *)
EXTENDS RoomAccount

Within ==
  \/ Undisturbed
  \/ /\ left.starts >= MaxStarts - 1
     /\ \/ left.changes = MaxChanges /\ left.ticks >= MaxTicks - 1
        \/ left.ticks = MaxTicks
ChoiceSpec == Init /\ [][Next /\ Within']_vars
=============================================================================
