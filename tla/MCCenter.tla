------------------------------- MODULE MCCenter -------------------------------
(* Center for TLC: the addresses of the terminals, and later starts, when     *)
(* every room has logged in and nothing is on yet.                            *)
EXTENDS Center

OneIp == [r \in Rooms |-> "a"]

(* Some rooms have logged in over their n-th connection; those before it, and *)
(* those of the other rooms, were lost before a login.                        *)
LoggedIn(n, rooms, budget) ==
  LET Live == {h \in Conns : h[2] = n /\ RoomOf(h) \in rooms}
      Past == {h \in Conns : h[2] < n \/ RoomOf(h) \notin rooms}
      Greeted == [mode |-> 0, frequency |-> 5, wind |-> "never"]
  IN
  /\ sock = [h \in Conns |-> IF h \in Live THEN "open"
                             ELSE IF h \in Past THEN "dropped" ELSE "none"]
  /\ hpc = [h \in Conns |-> IF h \in Live THEN "read"
                            ELSE IF h \in Past THEN "gone" ELSE "new"]
  /\ isFirst = [h \in Conns |-> h \notin Live]
  /\ succeed = [h \in Conns |-> h \in Live]
  /\ positive = [h \in Conns |-> FALSE]
  /\ client_no = [h \in Conns |-> IF h \in Live THEN RoomOf(h) ELSE 0]
  /\ clients = [r \in Rooms |-> IF r \in rooms THEN n ELSE 0]
  /\ logTable = [r \in Rooms |-> IF r \in rooms THEN 0 ELSE NoLog]
  /\ energyTable = rooms
  /\ IPTable = [r \in Rooms \cup {0} |-> IF r = 0 THEN "a" ELSE "NoIp"]
  /\ roomInfo = Rooms
  /\ queue = <<>>
  /\ wakeUp = [f \in Flags |-> FALSE]
  /\ lock = "none"
  /\ mode = 0
  /\ frequency = 5
  /\ serverState = "On"
  /\ dpc = "start"
  /\ oldList = <<>>
  /\ previousQueueLength = 0
  /\ shown = "Idle"
  /\ count = 0
  /\ spc = "idle"
  /\ sroom = 0
  /\ told = [h \in Conns |-> IF h \in Live \cup Past THEN Greeted
                          ELSE [Greeted EXCEPT !.mode = -1, !.frequency = -1]]
  /\ mustKnow = [f \in {"mode", "frequency"} |-> {}]
  /\ left = budget

(* Every room has logged in and none is checked out, or the third is absent   *)
(* and the others may be.                                                     *)
CheckoutInit == \/ LoggedIn(1, Rooms, [Budget EXCEPT !.checkouts = 0])
                \/ LoggedIn(1, {1, 2}, Budget)
CheckoutSpec == CheckoutInit /\ [][Next]_vars

(* A room is checked out, on its first connection once, on its last as often  *)
(* as Budget says, and then it loses that one; or nobody is checked out: the  *)
(* Center starts, connections are lost and the staff set the mode or the      *)
(* period.                                                                    *)
ReturnInit ==
  LET NoChange == [Budget EXCEPT !.modes = 0, !.freqs = 0]
      NoCheckout == [Budget EXCEPT !.checkouts = 0]
  IN
  \/ LoggedIn(1, Rooms, [NoChange EXCEPT !.drops = 0, !.checkouts = 1])
  \/ LoggedIn(MaxConns, Rooms, NoChange)
  \/ InitWith([NoCheckout EXCEPT !.modes = 0])
  \/ InitWith([NoCheckout EXCEPT !.freqs = 0])
ReturnSpec == ReturnInit /\ [][Next]_vars
=============================================================================
