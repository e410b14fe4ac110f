---------------------------- MODULE RotationProofs ----------------------------
(* Rotation for every set of rooms and every number of slots.                 *)
EXTENDS Waiting, WindowProofs

-----------------------------------------------------------------------------
(* The types, for every behaviour: rooms may queue as often as they like.     *)

LEMMA NextKeepsTypeOK ==
  ASSUME TypeOK, [Next]_vars
  PROVE  TypeOK'
<1> USE DEF TypeOK
<1>1. ASSUME NEW r \in Rooms, Join(r)
      PROVE  TypeOK'
  BY <1>1 DEF Join
<1>2. ASSUME NEW i \in DOMAIN queue, Leave(i)
      PROVE  TypeOK'
  <2>1. RemoveAt(queue, i) \in Seq(Rooms)
    BY RemoveAtShifts
  <2> QED BY <1>2, <2>1 DEF Leave
<1>3. CASE Reschedule
  <2>1. Window(queue, oldList) \in Seq(Rooms) /\ Len(Window(queue, oldList)) <= Slots
    BY WindowFits
  <2> QED BY <1>3, <2>1 DEF Reschedule
<1>4. CASE UNCHANGED vars
  BY <1>4 DEF vars
<1> QED BY <1>1, <1>2, <1>3, <1>4 DEF Next

(* Queue and window are lists of rooms, and a window never holds more rooms   *)
(* than may blow at a time, however the queue changes (schedule, 122-131).    *)
THEOREM RotationTypes == Spec => []TypeOK
<1>1. Init => TypeOK
  BY SlotsAssumption DEF Init, TypeOK
<1>2. TypeOK /\ [Next]_vars => TypeOK'
  BY NextKeepsTypeOK
<1> QED BY <1>1, <1>2, PTL DEF Spec

-----------------------------------------------------------------------------
(* When every room queues once, no list names a room twice.                   *)
Fresh == TypeOK /\ IsInjective(queue) /\ IsInjective(oldList)

LEMMA InitFresh ==
  ASSUME Init
  PROVE  Fresh
BY SlotsAssumption DEF Init, Fresh, TypeOK, IsInjective

LEMMA FreshNextIsNext ==
  ASSUME [FreshNext]_vars
  PROVE  [Next]_vars
BY DEF FreshNext, Next

LEMMA NextKeepsFresh ==
  ASSUME Fresh, [FreshNext]_vars
  PROVE  Fresh'
<1>1. TypeOK /\ TypeOK'
  BY NextKeepsTypeOK, FreshNextIsNext DEF Fresh
<1>2. ASSUME NEW r \in Rooms \ ToSet(queue), Join(r)
      PROVE  IsInjective(queue)' /\ IsInjective(oldList)'
  <2>1. IsInjective(Append(queue, r))
    BY AppendFresh DEF Fresh, TypeOK
  <2> QED BY <1>2, <2>1 DEF Join, Fresh
<1>3. ASSUME NEW i \in DOMAIN queue, Leave(i)
      PROVE  IsInjective(queue)' /\ IsInjective(oldList)'
  <2>1. IsInjective(RemoveAt(queue, i))
    BY RemoveAtInjective DEF Fresh, TypeOK
  <2> QED BY <1>3, <2>1 DEF Leave, Fresh
<1>4. CASE Reschedule
  <2>1. IsInjective(Window(queue, oldList))
    BY WindowInjective DEF Fresh, TypeOK
  <2> QED BY <1>1, <1>4, <2>1 DEF Reschedule, Fresh
<1>5. CASE UNCHANGED vars
  BY <1>1, <1>5 DEF vars, Fresh
<1> QED BY <1>1, <1>2, <1>3, <1>4, <1>5 DEF FreshNext, Fresh

(* No scheduling picks a room twice, as long as no room queues twice.         *)
THEOREM RotationServesOnce == FreshSpec => []ServedOnce
<1>1. Init => Fresh
  BY InitFresh
<1>2. Fresh /\ [FreshNext]_vars => Fresh'
  BY NextKeepsFresh
<1>3. Fresh => ServedOnce
  BY DEF Fresh, ServedOnce
<1> QED BY <1>1, <1>2, <1>3, PTL DEF FreshSpec

-----------------------------------------------------------------------------
(* The rotation is a fair share as far as safety goes.                        *)

LEMMA JoinAsks ==
  ASSUME Fresh, NEW r \in Rooms, Join(r)
  PROVE  Share!Ask(r)
BY AppendAsSet DEF Fresh, TypeOK, Join, Share!Ask

LEMMA LeaveQuits ==
  ASSUME Fresh, NEW i \in DOMAIN queue, Leave(i)
  PROVE  Share!Quit(queue[i])
BY RemoveAtAsSet DEF Fresh, TypeOK, Leave, Share!Quit

LEMMA RescheduleServes ==
  ASSUME Fresh, Reschedule
  PROVE  Share!Serve
<1>1. /\ ToSet(oldList') \in SUBSET ToSet(queue)
      /\ Cardinality(ToSet(oldList')) = Share!Lesser(Slots, Cardinality(ToSet(queue)))
  BY WindowShares DEF Fresh, TypeOK, Reschedule, Share!Lesser
<1>2. \A T : Share!Cardinality(T) = Cardinality(T)
  BY DEF Cardinality, Share!Cardinality
<1> QED BY <1>1, <1>2 DEF Reschedule, Share!Serve

(* Every step of the rotation asks, quits or serves as FairShare allows: at   *)
(* most Slots rooms blow, only rooms that wait, and as many as can.           *)
THEOREM RotationSharesSafely == FreshSpec => SharesSafely
<1>1. Init => Fresh
  BY InitFresh
<1>2. Fresh /\ [FreshNext]_vars => Fresh'
  BY NextKeepsFresh
<1>3. Init => Share!Init
  BY DEF Init, Share!Init, ToSet
<1>4. Fresh /\ [FreshNext]_vars => [Share!Next]_(Share!vars)
  <2> SUFFICES ASSUME Fresh, [FreshNext]_vars PROVE [Share!Next]_(Share!vars)
    OBVIOUS
  <2>1. ASSUME NEW r \in Rooms \ ToSet(queue), Join(r)
        PROVE  Share!Next
    BY <2>1, JoinAsks DEF Share!Next
  <2>2. ASSUME NEW i \in DOMAIN queue, Leave(i)
        PROVE  Share!Next
    <3>1. queue[i] \in Rooms
      BY DEF Fresh, TypeOK
    <3> QED BY <2>2, <3>1, LeaveQuits DEF Share!Next
  <2>3. CASE Reschedule
    BY <2>3, RescheduleServes DEF Share!Next
  <2>4. CASE UNCHANGED vars
    BY <2>4 DEF vars, Share!vars
  <2> QED BY <2>1, <2>2, <2>3, <2>4 DEF FreshNext
<1> QED BY <1>1, <1>2, <1>3, <1>4, PTL DEF FreshSpec, SharesSafely

-----------------------------------------------------------------------------
(* How long a room may wait. A queued room at position p, with the next       *)
(* window opening at position o, blows when o comes around to it. What lies   *)
(* between is its debt: twice the way from o to p, and a share of the rooms   *)
(* ahead of it, each of which may put the opening back to the head of the     *)
(* queue by leaving when it has closed the last window. As long as o is       *)
(* behind p, rooms that join and leave behind o or between lengthen the way;  *)
(* every place still free among the n rooms and every change that the         *)
(* Dispatcher has not answered yet counts for that.                           *)
Debt(n, len, o, p, calm) ==
  IF o <= p
  THEN 2 * (p - o) + (p - 1) * (p - 2)
  ELSE 4 * (len - o) + 2 * (n - len) + calm + 2 * p + (p - 1) * (p - 2)

(* The positions after the element at position i has left.                    *)
Shifted(i, k) == IF i < k THEN k - 1 ELSE k

LEMMA DebtBound ==
  ASSUME NEW n \in Nat, NEW len \in 1..n, NEW o \in 1..len, NEW p \in 1..len,
         NEW calm \in {0, 2}
  PROVE  Debt(n, len, o, p, calm) \in Nat /\ Debt(n, len, o, p, calm) <= n * n
<1>1. (p - 1) * (p - 2) \in Nat /\ p * p <= n * n
  <2>1. p = 1 \/ p - 2 \in Nat
    OBVIOUS
  <2>2. (p - 1) * (p - 2) \in Nat
    BY <2>1
  <2>3. p * p <= n * n
    BY p <= n
  <2> QED BY <2>2, <2>3
<1>2. CASE o <= p
  <2>1. Debt(n, len, o, p, calm) = 2 * (p - o) + (p - 1) * (p - 2)
    BY <1>2 DEF Debt
  <2>2. 2 * (p - o) + (p - 1) * (p - 2) <= p * p
    BY <1>2
  <2> QED BY <1>1, <1>2, <2>1, <2>2
<1>3. CASE o > p
  <2>1. Debt(n, len, o, p, calm)
          = 4 * (len - o) + 2 * (n - len) + calm + 2 * p + (p - 1) * (p - 2)
    BY <1>3 DEF Debt
  <2>2. PICK k \in Nat : n = p + k /\ k >= 1
    <3>1. n - p \in Nat /\ n = p + (n - p) /\ n - p >= 1
      BY <1>3
    <3> QED BY <3>1
  <2>3. 4 * (len - o) + 2 * (n - len) + calm + 2 * p <= 4 * n - 2 * p - 2
    BY <1>3
  <2>4. (p - 1) * (p - 2) = p * p - 3 * p + 2
    OBVIOUS
  <2>5. 4 * n - 5 * p + p * p <= n * n
    <3>1. n * n = p * p + 2 * (p * k) + k * k
      BY <2>2
    <3>2. CASE p = 1
      <4>1. (k - 1) * (k - 1) >= 0 /\ (k - 1) * (k - 1) = k * k - 2 * k + 1
        BY <2>2
      <4> QED BY <2>2, <3>1, <3>2, <4>1
    <3>3. CASE p >= 2
      <4>1. p * k >= 2 * k
        BY <2>2, <3>3
      <4>2. k * k >= 0
        BY <2>2
      <4> QED BY <2>2, <3>1, <3>3, <4>1, <4>2
    <3> QED BY <3>2, <3>3
  <2> QED BY <1>1, <1>3, <2>1, <2>3, <2>4, <2>5
<1> QED BY <1>2, <1>3

(* A scheduling that passes a room over lessens its debt by what the window   *)
(* moves on, even if it answers a change.                                     *)
LEMMA DebtAfterPass ==
  ASSUME NEW n \in Nat, NEW len \in 1..n, NEW o \in 1..len, NEW p \in 1..len,
         NEW calm \in {0, 2}, len > Slots,
         (IF o <= p THEN p - o ELSE p - o + len) >= Slots
  PROVE  Debt(n, len, IF o + Slots - 1 <= len THEN o + Slots - 1
                                              ELSE o + Slots - 1 - len, p, 2)
           + 2 * (Slots - 1) <= Debt(n, len, o, p, calm)
<1> DEFINE o2 == IF o + Slots - 1 <= len THEN o + Slots - 1 ELSE o + Slots - 1 - len
           rest == (p - 1) * (p - 2)
<1>0. rest \in Int
  OBVIOUS
<1>1. Debt(n, len, o2, p, 2) =
        IF o2 <= p THEN 2 * (p - o2) + rest
                   ELSE 4 * (len - o2) + 2 * (n - len) + 2 + 2 * p + rest
  BY DEF Debt
<1>2. Debt(n, len, o, p, calm) =
        IF o <= p THEN 2 * (p - o) + rest
                  ELSE 4 * (len - o) + 2 * (n - len) + calm + 2 * p + rest
  BY DEF Debt
<1> HIDE DEF rest
<1> QED BY <1>0, <1>1, <1>2, SlotsAssumption

(* A room that joins the queue adds nothing to the debt of another, ...       *)
LEMMA DebtAfterJoin ==
  ASSUME NEW n \in Nat, NEW len \in 1..n, NEW o \in 1..len, NEW p \in 1..len
  PROVE  Debt(n, len + 1, o, p, 0) <= Debt(n, len, o, p, 2)
<1> DEFINE rest == (p - 1) * (p - 2)
<1>0. rest \in Int
  OBVIOUS
<1>1. Debt(n, len + 1, o, p, 0) =
        IF o <= p THEN 2 * (p - o) + rest
                  ELSE 4 * (len + 1 - o) + 2 * (n - (len + 1)) + 0 + 2 * p + rest
  BY DEF Debt
<1>2. Debt(n, len, o, p, 2) =
        IF o <= p THEN 2 * (p - o) + rest
                  ELSE 4 * (len - o) + 2 * (n - len) + 2 + 2 * p + rest
  BY DEF Debt
<1> HIDE DEF rest
<1> QED BY <1>0, <1>1, <1>2

(* ... nor does a room that leaves, wherever it stood.                        *)
LEMMA DebtAfterLeave ==
  ASSUME NEW n \in Nat, NEW len \in 1..n, NEW o \in 1..len, NEW p \in 1..len,
         NEW i \in 1..len, i # p
  PROVE  Debt(n, len - 1, IF i = o THEN 1 ELSE Shifted(i, o), Shifted(i, p), 0)
           <= Debt(n, len, o, p, 2)
<1> DEFINE o2 == IF i = o THEN 1 ELSE Shifted(i, o)
           p2 == Shifted(i, p)
           rest == (p - 1) * (p - 2)
           rest2 == (p2 - 1) * (p2 - 2)
<1>1. Debt(n, len - 1, o2, p2, 0) =
        IF o2 <= p2 THEN 2 * (p2 - o2) + rest2
                    ELSE 4 * (len - 1 - o2) + 2 * (n - (len - 1)) + 0 + 2 * p2 + rest2
  BY DEF Debt
<1>2. Debt(n, len, o, p, 2) =
        IF o <= p THEN 2 * (p - o) + rest
                  ELSE 4 * (len - o) + 2 * (n - len) + 2 + 2 * p + rest
  BY DEF Debt
<1>3. rest = p * p - 3 * p + 2 /\ rest \in Int
  OBVIOUS
<1>4. CASE i > p
  <2>1. p2 = p /\ rest2 = rest
    BY <1>4 DEF Shifted
  <2> HIDE DEF rest, rest2
  <2> QED BY <1>1, <1>2, <1>3, <1>4, <2>1 DEF Shifted
<1>5. CASE i < p
  <2>1. p2 = p - 1 /\ p >= 2
    BY <1>5 DEF Shifted
  <2>2. rest2 = (p - 2) * (p - 3)
    BY <2>1
  <2>3. (p - 2) * (p - 3) = p * p - 5 * p + 6
    OBVIOUS
  <2>4. rest2 = rest - 2 * (p - 2)
    BY <1>3, <2>2, <2>3
  <2> HIDE DEF rest, rest2
  <2> QED BY <1>1, <1>2, <1>3, <1>5, <2>1, <2>4 DEF Shifted
<1> QED BY <1>4, <1>5

-----------------------------------------------------------------------------
(* Positions in a queue in which every room stands once, and where the next   *)
(* window opens.                                                              *)
LEMMA PlaceOf ==
  ASSUME NEW S, NEW q \in Seq(S), IsInjective(q), NEW k \in 1..Len(q)
  PROVE  IndexOf(q, q[k]) = k
<1>1. DOMAIN q = 1..Len(q) /\ k \in DOMAIN q
  OBVIOUS
<1>2. IndexOf(q, q[k]) \in DOMAIN q /\ q[IndexOf(q, q[k])] = q[k]
  BY <1>1, IndexOfFirst
<1> QED BY <1>1, <1>2 DEF IsInjective

LEMMA OpeningAt ==
  ASSUME NEW S, NEW q \in Seq(S), IsInjective(q), NEW old, old # <<>>,
         NEW k \in 1..Len(q), q[k] = old[Len(old)]
  PROVE  Opening(q, old) = k
<1>1. \E i \in DOMAIN q : q[i] = old[Len(old)]
  OBVIOUS
<1>2. Opening(q, old) = IndexOf(q, q[k])
  BY <1>1 DEF Opening
<1> QED BY <1>2, PlaceOf

LEMMA TakenAt ==
  ASSUME NEW S, NEW q \in Seq(S), NEW old \in Seq(S), Len(q) > Slots,
         NEW i \in 1..Slots
  PROVE  Taken(q, old, i) = IF Opening(q, old) + i - 1 <= Len(q)
                            THEN Opening(q, old) + i - 1
                            ELSE Opening(q, old) + i - 1 - Len(q)
<1>1. Len(q) \in Nat /\ Slots \in Nat /\ q # <<>>
  BY SlotsAssumption
<1>2. Opening(q, old) \in 1..Len(q)
  BY <1>1, OpeningInRange
<1> DEFINE j == Opening(q, old) + i - 2
           k == Opening(q, old) + i - 1
           n == Len(q)
<1>3. n \in Nat /\ n > 0 /\ j \in 0..(2 * n - 1) /\ k \in Int /\ k = j + 1
  BY <1>1, <1>2
<1>4. j % n = IF j < n THEN j ELSE j - n
  <2> HIDE DEF j, k, n
  <2> QED BY <1>3, CyclicIndex
<1>5. Taken(q, old, i) = (j % n) + 1
  BY DEF Taken
<1> HIDE DEF j, k, n
<1>6. Taken(q, old, i) = IF k <= n THEN k ELSE k - n
  <2>1. CASE j < n
    <3>1. j % n = j
      BY <1>4, <2>1
    <3> QED BY <1>3, <1>5, <2>1, <3>1
  <2>2. CASE ~(j < n)
    <3>1. j % n = j - n
      BY <1>4, <2>2
    <3> QED BY <1>3, <1>5, <2>2, <3>1
  <2> QED BY <2>1, <2>2
<1> QED BY <1>1, <1>2, <1>6 DEF k, n

(* The next window opens where the last slot of this one is.                  *)
LEMMA WindowMovesOn ==
  ASSUME NEW S, NEW q \in Seq(S), NEW old \in Seq(S), IsInjective(q), Len(q) > Slots
  PROVE  Opening(q, Window(q, old)) = IF Opening(q, old) + Slots - 1 <= Len(q)
                                      THEN Opening(q, old) + Slots - 1
                                      ELSE Opening(q, old) + Slots - 1 - Len(q)
<1> DEFINE w == Window(q, old)
<1>1. /\ w = [i \in 1..Slots |-> q[Taken(q, old, i)]]
      /\ Len(w) = Slots /\ w \in Seq(S)
  BY FullWindow
<1>2. Slots \in 1..Slots
  BY SlotsAssumption
<1>3. Taken(q, old, Slots) \in 1..Len(q)
  BY <1>2, TakenInRange
<1>4. w # <<>> /\ q[Taken(q, old, Slots)] = w[Len(w)]
  BY <1>1, <1>2
<1>5. Opening(q, w) = Taken(q, old, Slots)
  <2> HIDE DEF w
  <2> QED BY <1>3, <1>4, OpeningAt
<1> QED BY <1>2, <1>5, TakenAt

(* The opening reaches a room that the window passes over only later.         *)
LEMMA PassedOverIsFar ==
  ASSUME NEW S, NEW q \in Seq(S), NEW old \in Seq(S), Len(q) > Slots,
         NEW k \in 1..Len(q), q[k] \notin ToSet(Window(q, old))
  PROVE  (IF Opening(q, old) <= k THEN k - Opening(q, old)
                                  ELSE k - Opening(q, old) + Len(q)) >= Slots
<1> DEFINE o == Opening(q, old)
           far == IF o <= k THEN k - o ELSE k - o + Len(q)
<1>1. Len(q) \in Nat /\ Slots \in Nat /\ q # <<>>
  BY SlotsAssumption
<1>2. o \in 1..Len(q)
  BY <1>1, OpeningInRange
<1> SUFFICES ASSUME far < Slots PROVE FALSE
  BY <1>1, <1>2
<1>3. far + 1 \in 1..Slots
  BY <1>1, <1>2
<1>4. Taken(q, old, far + 1) = k
  <2>1. Taken(q, old, far + 1) = IF o + (far + 1) - 1 <= Len(q) THEN o + (far + 1) - 1
                                 ELSE o + (far + 1) - 1 - Len(q)
    BY <1>3, TakenAt
  <2> HIDE DEF o
  <2> QED BY <1>1, <1>2, <2>1
<1>5. /\ Window(q, old) = [i \in 1..Slots |-> q[Taken(q, old, i)]]
      /\ Window(q, old) \in Seq(S)
  BY FullWindow
<1>6. Window(q, old)[far + 1] = q[k] /\ far + 1 \in DOMAIN Window(q, old)
  <2> HIDE DEF far
  <2> QED BY <1>3, <1>4, <1>5
<1> HIDE DEF far
<1> QED BY <1>6 DEF ToSet

(* A queue of distinct rooms is no longer than there are rooms.               *)
LEMMA QueueFits ==
  ASSUME NEW q \in Seq(Rooms), IsInjective(q)
  PROVE  Cardinality(Rooms) \in Nat /\ Len(q) <= Cardinality(Rooms)
<1>1. ToSet(q) \subseteq Rooms
  BY DEF ToSet
<1>2. Cardinality(ToSet(q)) = Len(q)
  BY CardinalityOfList
<1> HIDE DEF ToSet
<1>3. Cardinality(ToSet(q)) <= Cardinality(Rooms) /\ Cardinality(Rooms) \in Nat
  BY <1>1, RoomsAssumption, FS_Subset, FS_CardinalityType
<1> QED BY <1>2, <1>3

-----------------------------------------------------------------------------
(* The debt of a room in the queue, ...                                       *)
DebtOf(r) == Debt(Cardinality(Rooms), Len(queue), Opening(queue, oldList),
                  IndexOf(queue, r), IF queueChanged THEN 0 ELSE 2)

(* ... and what holds between two changes of the queue: the room that closed  *)
(* the last window is still queued.                                           *)
LastIsQueued == queue # <<>> => /\ oldList # <<>>
                                /\ oldList[Len(oldList)] \in ToSet(queue)

LEMMA DebtInQueue ==
  ASSUME NEW q \in Seq(Rooms), IsInjective(q), NEW old \in Seq(Rooms),
         NEW r \in ToSet(q), NEW calm \in {0, 2}
  PROVE  LET d == Debt(Cardinality(Rooms), Len(q), Opening(q, old), IndexOf(q, r), calm)
         IN  d \in Nat /\ d <= Cardinality(Rooms) * Cardinality(Rooms)
<1>1. PICK k \in 1..Len(q) : q[k] = r
  BY DEF ToSet
<1>2. IndexOf(q, r) = k
  BY <1>1, PlaceOf
<1>3. q # <<>> /\ Len(q) \in Nat /\ Len(q) >= 1
  BY <1>1
<1>4. Opening(q, old) \in 1..Len(q)
  BY <1>3, OpeningInRange
<1>5. Cardinality(Rooms) \in Nat /\ Len(q) <= Cardinality(Rooms)
  BY QueueFits
<1>6. Len(q) \in 1..Cardinality(Rooms)
  BY <1>3, <1>5
<1> QED BY <1>1, <1>2, <1>4, <1>5, <1>6, DebtBound

LEMMA DebtOfBound ==
  ASSUME Fresh, NEW r \in ToSet(queue)
  PROVE  /\ DebtOf(r) \in Nat
         /\ DebtOf(r) <= Cardinality(Rooms) * Cardinality(Rooms)
<1>1. (IF queueChanged THEN 0 ELSE 2) \in {0, 2}
  OBVIOUS
<1> QED BY <1>1, DebtInQueue DEF DebtOf, Fresh, TypeOK

LEMMA RescheduleLessensDebt ==
  ASSUME Fresh, Reschedule, NEW r \in ToSet(queue) \ ToSet(oldList')
  PROVE  DebtOf(r)' + 2 * (Slots - 1) <= DebtOf(r)
<1> DEFINE n == Cardinality(Rooms)
           len == Len(queue)
           o == Opening(queue, oldList)
           o2 == Opening(queue, Window(queue, oldList))
<1>1. PICK k \in 1..Len(queue) : queue[k] = r
  BY DEF ToSet, Fresh, TypeOK
<1>2. IndexOf(queue, r) = k
  BY <1>1, PlaceOf DEF Fresh, TypeOK
<1>3. queue # <<>> /\ len \in Nat /\ len >= 1
  BY <1>1 DEF Fresh, TypeOK
<1>4. o \in 1..len
  BY <1>3, OpeningInRange DEF Fresh, TypeOK
<1>5. n \in Nat /\ len \in 1..n
  BY <1>3, QueueFits DEF Fresh, TypeOK
<1>6. len > Slots
  <2>1. len <= Slots => Window(queue, oldList) = queue
    BY DEF Window
  <2> QED BY <1>3, <2>1, SlotsAssumption DEF Reschedule
<1>7. (IF o <= k THEN k - o ELSE k - o + len) >= Slots
  BY <1>1, <1>6, PassedOverIsFar DEF Fresh, TypeOK, Reschedule
<1>8. o2 = IF o + Slots - 1 <= len THEN o + Slots - 1 ELSE o + Slots - 1 - len
  BY <1>6, WindowMovesOn DEF Fresh, TypeOK
<1>9. /\ DebtOf(r)' = Debt(n, len, o2, k, 2)
      /\ DebtOf(r) = Debt(n, len, o, k, IF queueChanged THEN 0 ELSE 2)
  BY <1>2 DEF DebtOf, Reschedule
<1>10. (IF queueChanged THEN 0 ELSE 2) \in {0, 2}
  OBVIOUS
<1> HIDE DEF n, len, o, o2
<1>11. Debt(n, len, o2, k, 2) + 2 * (Slots - 1)
         <= Debt(n, len, o, k, IF queueChanged THEN 0 ELSE 2)
  <2>1. k \in 1..len
    BY <1>1 DEF len
  <2> QED BY <1>4, <1>5, <1>6, <1>7, <1>8, <1>10, <2>1, DebtAfterPass
<1> QED BY <1>9, <1>11

LEMMA JoinKeepsDebt ==
  ASSUME Fresh, LastIsQueued, ~queueChanged, NEW x \in Rooms \ ToSet(queue), Join(x),
         Fresh', NEW r \in ToSet(queue)
  PROVE  DebtOf(r)' <= DebtOf(r)
<1> DEFINE n == Cardinality(Rooms)
           len == Len(queue)
           o == Opening(queue, oldList)
           t == Append(queue, x)
<1>1. PICK k \in 1..Len(queue) : queue[k] = r
  BY DEF ToSet, Fresh, TypeOK
<1>2. IndexOf(queue, r) = k
  BY <1>1, PlaceOf DEF Fresh, TypeOK
<1>3. queue # <<>> /\ len \in Nat /\ len >= 1
  BY <1>1 DEF Fresh, TypeOK
<1>4. o \in 1..len
  BY <1>3, OpeningInRange DEF Fresh, TypeOK
<1>5. n \in Nat /\ len \in 1..n
  BY <1>3, QueueFits DEF Fresh, TypeOK
<1>6. /\ t \in Seq(Rooms) /\ Len(t) = len + 1
      /\ \A j \in 1..len : t[j] = queue[j] /\ j \in 1..Len(t)
      /\ IsInjective(t) /\ t = queue' /\ oldList' = oldList /\ queueChanged' = TRUE
  BY <1>3 DEF Join, Fresh, TypeOK
<1>7. IndexOf(t, r) = k
  <2> HIDE DEF t
  <2> QED BY <1>1, <1>6, PlaceOf DEF len
<1>8. Opening(t, oldList) = o
  <2>1. PICK j \in 1..len : queue[j] = oldList[Len(oldList)]
    BY <1>3 DEF LastIsQueued, ToSet, Fresh, TypeOK
  <2>2. oldList # <<>>
    BY <1>3 DEF LastIsQueued
  <2>3. o = j
    BY <2>1, <2>2, OpeningAt DEF Fresh, TypeOK
  <2> HIDE DEF t, o
  <2>4. Opening(t, oldList) = j
    BY <1>6, <2>1, <2>2, OpeningAt
  <2> QED BY <2>3, <2>4
<1>9. DebtOf(r)' = Debt(n, len + 1, o, k, 0) /\ DebtOf(r) = Debt(n, len, o, k, 2)
  <2>1. DebtOf(r) = Debt(n, len, o, k, 2)
    BY <1>2 DEF DebtOf
  <2>2. DebtOf(r)' = Debt(n, Len(t), Opening(t, oldList), IndexOf(t, r), 0)
    BY <1>6 DEF DebtOf
  <2> QED BY <1>6, <1>7, <1>8, <2>1, <2>2
<1> HIDE DEF n, len, o
<1>10. Debt(n, len + 1, o, k, 0) <= Debt(n, len, o, k, 2)
  <2>1. k \in 1..len
    BY <1>1 DEF len
  <2> QED BY <1>4, <1>5, <2>1, DebtAfterJoin
<1> QED BY <1>9, <1>10

LEMMA LeaveKeepsDebt ==
  ASSUME Fresh, LastIsQueued, ~queueChanged, NEW i \in DOMAIN queue, Leave(i), Fresh',
         NEW r \in ToSet(queue) \ {queue[i]}
  PROVE  DebtOf(r)' <= DebtOf(r)
<1> DEFINE n == Cardinality(Rooms)
           len == Len(queue)
           o == Opening(queue, oldList)
           t == RemoveAt(queue, i)
           o2 == IF i = o THEN 1 ELSE Shifted(i, o)
<1>1. PICK k \in 1..Len(queue) : queue[k] = r
  BY DEF ToSet, Fresh, TypeOK
<1>2. IndexOf(queue, r) = k /\ k # i
  BY <1>1, PlaceOf DEF Fresh, TypeOK
<1>3. queue # <<>> /\ len \in Nat /\ len >= 1 /\ i \in 1..len /\ DOMAIN queue = 1..len
  BY <1>1 DEF Fresh, TypeOK
<1>4. o \in 1..len
  BY <1>3, OpeningInRange DEF Fresh, TypeOK
<1>5. n \in Nat /\ len \in 1..n
  BY <1>3, QueueFits DEF Fresh, TypeOK
<1>6. /\ t \in Seq(Rooms) /\ Len(t) = len - 1
      /\ \A j \in 1..(len - 1) : t[j] = IF j < i THEN queue[j] ELSE queue[j + 1]
      /\ IsInjective(t) /\ t = queue' /\ oldList' = oldList /\ queueChanged' = TRUE
  BY RemoveAtShifts DEF Leave, Fresh, TypeOK
<1> HIDE DEF t
<1>7. \A j \in 1..len : j # i => /\ Shifted(i, j) \in 1..Len(t)
                                 /\ t[Shifted(i, j)] = queue[j]
  BY <1>3, <1>6 DEF Shifted
<1>8. IndexOf(t, r) = Shifted(i, k)
  <2>1. Shifted(i, k) \in 1..Len(t) /\ t[Shifted(i, k)] = r
    BY <1>1, <1>2, <1>7
  <2> QED BY <1>6, <2>1, PlaceOf
<1>9. Opening(t, oldList) = o2
  <2>1. PICK j \in 1..len : queue[j] = oldList[Len(oldList)]
    BY <1>3 DEF LastIsQueued, ToSet, Fresh, TypeOK
  <2>2. oldList # <<>>
    BY <1>3 DEF LastIsQueued
  <2>3. o = j
    BY <2>1, <2>2, OpeningAt DEF Fresh, TypeOK
  <2>4. CASE i = j
    <3>1. \A m \in DOMAIN t : t[m] # oldList[Len(oldList)]
      <4> SUFFICES ASSUME NEW m \in DOMAIN t, t[m] = queue[i] PROVE FALSE
        BY <2>1, <2>4
      <4>1. m \in 1..(len - 1) /\ t[m] = IF m < i THEN queue[m] ELSE queue[m + 1]
        BY <1>6
      <4>2. \E l \in DOMAIN queue : l # i /\ t[m] = queue[l]
        BY <1>3, <4>1
      <4> QED BY <4>2 DEF Fresh, IsInjective
    <3>2. Opening(t, oldList) = 1
      BY <3>1 DEF Opening
    <3> HIDE DEF o
    <3> QED BY <2>3, <2>4, <3>2
  <2>5. CASE i # j
    <3>1. Shifted(i, j) \in 1..Len(t) /\ t[Shifted(i, j)] = oldList[Len(oldList)]
      BY <1>7, <2>1, <2>5
    <3>2. Opening(t, oldList) = Shifted(i, j)
      BY <1>6, <2>2, <3>1, OpeningAt
    <3> HIDE DEF o
    <3> QED BY <2>3, <2>5, <3>2
  <2> QED BY <2>4, <2>5
<1>10. /\ DebtOf(r)' = Debt(n, len - 1, o2, Shifted(i, k), 0)
       /\ DebtOf(r) = Debt(n, len, o, k, 2)
  <2>1. DebtOf(r) = Debt(n, len, o, k, 2)
    BY <1>2 DEF DebtOf
  <2>2. DebtOf(r)' = Debt(n, Len(t), Opening(t, oldList), IndexOf(t, r), 0)
    BY <1>6 DEF DebtOf
  <2> QED BY <1>6, <1>8, <1>9, <2>1, <2>2
<1> HIDE DEF n, len, o
<1>11. Debt(n, len - 1, o2, Shifted(i, k), 0) <= Debt(n, len, o, k, 2)
  <2>1. k \in 1..len
    BY <1>1 DEF len
  <2> QED BY <1>2, <1>3, <1>4, <1>5, <2>1, DebtAfterLeave
<1> QED BY <1>10, <1>11

-----------------------------------------------------------------------------
(* What a room has waited and what it still owes never exceed the square of   *)
(* the number of rooms.                                                       *)
Within(r) == 2 * (Slots - 1) * passedOver[r] + DebtOf(r)
               <= Cardinality(Rooms) * Cardinality(Rooms)

WaitInv == /\ Fresh
           /\ passedOver \in [Rooms -> Nat]
           /\ prompt /\ ~queueChanged => LastIsQueued
           /\ \A r \in Rooms :
                IF prompt /\ r \in ToSet(queue) \ ToSet(oldList)
                THEN Within(r)
                ELSE passedOver[r] = 0

(* A step of a prompt Dispatcher or of its rooms, with what it does to the    *)
(* history.                                                                   *)
LEMMA WaitStepIsFresh ==
  ASSUME [WaitNext]_waitVars
  PROVE  [FreshNext]_vars
BY DEF WaitNext, waitVars, PromptNext, FreshNext

LEMMA HistoryStep ==
  ASSUME WaitInv, WaitNext, NEW r \in Rooms
  PROVE  passedOver'[r] = IF ~prompt \/ ~Waits(r) THEN 0
                          ELSE IF Reschedule /\ passedOver[r] <= WaitBound
                               THEN passedOver[r] + 1
                               ELSE passedOver[r]
BY DEF WaitNext

(* After every scheduling of a queue the room that closes the window is one   *)
(* of the queue.                                                              *)
LEMMA RescheduleKeepsLast ==
  ASSUME Fresh, Reschedule
  PROVE  LastIsQueued'
<1> DEFINE w == Window(queue, oldList)
<1>1. /\ w \in Seq(Rooms) /\ ToSet(w) \subseteq ToSet(queue)
      /\ Len(queue) <= Slots => w = queue
      /\ Len(queue) > Slots => Len(w) = Slots
  BY WindowFits DEF Fresh, TypeOK
<1>2. ASSUME queue # <<>>
      PROVE  w # <<>> /\ w[Len(w)] \in ToSet(queue)
  <2>1. Len(queue) \in Nat /\ Len(queue) >= 1
    BY <1>2 DEF Fresh, TypeOK
  <2> HIDE DEF w
  <2>2. Len(w) \in Nat /\ Len(w) >= 1
    BY <1>1, <2>1, SlotsAssumption
  <2>3. w # <<>> /\ w[Len(w)] \in ToSet(w)
    BY <1>1, <2>2 DEF ToSet
  <2> QED BY <1>1, <2>3
<1> QED BY <1>2 DEF LastIsQueued, Reschedule

(* What a waiting room owes changes only as it has been waiting.              *)
LEMMA WithinAfter ==
  ASSUME NEW t \in Nat, NEW n \in Nat, NEW x \in Nat, NEW y \in Nat,
         NEW d \in Nat, NEW e \in Nat, 2 * t * x + d <= n,
         \/ y = x /\ e <= d
         \/ y \in {x, x + 1} /\ e + 2 * t <= d
  PROVE  2 * t * y + e <= n
<1>1. 2 * t * (x + 1) = 2 * t * x + 2 * t
  OBVIOUS
<1>2. 2 * t * x \in Nat
  OBVIOUS
<1>3. CASE y = x
  BY <1>2, <1>3
<1>4. CASE y = x + 1 /\ e + 2 * t <= d
  BY <1>1, <1>2, <1>4
<1> QED BY <1>3, <1>4

LEMMA WaitKept ==
  ASSUME WaitInv, WaitNext, prompt, Fresh', NEW r \in Rooms,
         r \in ToSet(queue') \ ToSet(oldList')
  PROVE  Within(r)'
<1> DEFINE n == Cardinality(Rooms)
<1>1. n \in Nat /\ n * n \in Nat /\ Slots - 1 \in Nat
  BY QueueFits, SlotsAssumption DEF WaitInv, Fresh, TypeOK
<1>2. Fresh /\ passedOver[r] \in Nat
  BY DEF WaitInv
<1>3. passedOver'[r] = IF Reschedule /\ passedOver[r] <= WaitBound
                       THEN passedOver[r] + 1 ELSE passedOver[r]
  BY HistoryStep DEF Waits
<1>4. DebtOf(r)' \in Nat /\ DebtOf(r)' <= n * n
  <2>1. (IF queueChanged' THEN 0 ELSE 2) \in {0, 2}
    OBVIOUS
  <2>2. queue' \in Seq(Rooms) /\ oldList' \in Seq(Rooms) /\ IsInjective(queue')
    BY DEF Fresh, TypeOK
  <2> QED BY <2>1, <2>2, DebtInQueue DEF DebtOf
<1>5. ASSUME r \in ToSet(queue)
      PROVE  DebtOf(r) \in Nat /\ DebtOf(r) <= n * n
  BY <1>2, <1>5, DebtOfBound
<1>6. ASSUME r \in ToSet(queue)
      PROVE  2 * (Slots - 1) * passedOver[r] + DebtOf(r) <= n * n
  <2>1. CASE r \in ToSet(oldList)
    <3>1. passedOver[r] = 0
      BY <2>1 DEF WaitInv
    <3> QED BY <1>1, <1>5, <1>6, <3>1
  <2>2. CASE r \notin ToSet(oldList)
    BY <1>6, <2>2 DEF WaitInv, Within
  <2> QED BY <2>1, <2>2
<1>7. CASE Reschedule
  <2>1. r \in ToSet(queue)
    BY <1>7 DEF Reschedule
  <2>2. DebtOf(r)' + 2 * (Slots - 1) <= DebtOf(r)
    BY <1>2, <1>7, <2>1, RescheduleLessensDebt
  <2>3. passedOver'[r] \in {passedOver[r], passedOver[r] + 1} /\ passedOver'[r] \in Nat
    BY <1>2, <1>3
  <2> HIDE DEF n
  <2>4. 2 * (Slots - 1) * passedOver'[r] + DebtOf(r)' <= n * n
    BY <1>1, <1>2, <1>4, <1>5, <1>6, <2>1, <2>2, <2>3, WithinAfter
  <2> QED BY <2>4 DEF Within, n
<1>8. ASSUME ~Reschedule, r \in ToSet(queue), DebtOf(r)' <= DebtOf(r)
      PROVE  Within(r)'
  <2>1. passedOver'[r] = passedOver[r]
    BY <1>3, <1>8
  <2> HIDE DEF n
  <2>2. 2 * (Slots - 1) * passedOver'[r] + DebtOf(r)' <= n * n
    BY <1>1, <1>2, <1>4, <1>5, <1>6, <1>8, <2>1, WithinAfter
  <2> QED BY <2>2 DEF Within, n
<1>9. ASSUME NEW x \in Rooms \ ToSet(queue), Join(x), ~queueChanged, ~Reschedule
      PROVE  Within(r)'
  <2>1. LastIsQueued
    BY <1>9 DEF WaitInv
  <2>2. CASE r \in ToSet(queue)
    BY <1>2, <1>8, <1>9, <2>1, <2>2, JoinKeepsDebt
  <2>3. CASE r \notin ToSet(queue)
    <3>1. passedOver[r] = 0 /\ passedOver'[r] = 0
      BY <1>3, <1>9, <2>3 DEF WaitInv
    <3>2. 2 * (Slots - 1) * passedOver'[r] + DebtOf(r)' <= n * n
      BY <1>1, <1>4, <3>1
    <3> QED BY <3>2 DEF Within
  <2> QED BY <2>2, <2>3
<1>10. ASSUME NEW i \in DOMAIN queue, Leave(i), ~queueChanged, ~Reschedule
       PROVE  Within(r)'
  <2>1. LastIsQueued
    BY <1>10 DEF WaitInv
  <2>2. r \in ToSet(queue) \ {queue[i]}
    <3>1. Share!Quit(queue[i])
      BY <1>2, <1>10, LeaveQuits
    <3> QED BY <3>1 DEF Share!Quit
  <2> QED BY <1>2, <1>8, <1>10, <2>1, <2>2, LeaveKeepsDebt
<1> QED BY <1>7, <1>9, <1>10 DEF WaitNext, PromptNext

LEMMA NextKeepsWaitInv ==
  ASSUME WaitInv, [WaitNext]_waitVars
  PROVE  WaitInv'
<1>1. Fresh'
  BY WaitStepIsFresh, NextKeepsFresh DEF WaitInv
<1>2. CASE UNCHANGED waitVars
  BY <1>1, <1>2 DEF waitVars, vars, WaitInv, Within, DebtOf, LastIsQueued
<1>3. CASE WaitNext
  <2>1. ASSUME NEW r \in Rooms
        PROVE  passedOver'[r] \in Nat
    <3>1. passedOver[r] \in Nat
      BY DEF WaitInv
    <3> QED BY <1>3, <3>1, HistoryStep
  <2>2. passedOver' \in [Rooms -> Nat]
    BY <1>3, <2>1 DEF WaitNext
  <2>3. prompt' = prompt
    BY <1>3 DEF WaitNext
  <2>4. prompt /\ ~queueChanged' => LastIsQueued'
    <3>1. CASE Reschedule
      BY <3>1, RescheduleKeepsLast DEF WaitInv
    <3>2. CASE ~Reschedule
      BY <1>3, <3>2 DEF WaitNext, PromptNext, Join, Leave
    <3> QED BY <3>1, <3>2
  <2>5. ASSUME NEW r \in Rooms
        PROVE  IF prompt /\ r \in ToSet(queue') \ ToSet(oldList')
               THEN Within(r)' ELSE passedOver'[r] = 0
    <3>1. CASE prompt /\ r \in ToSet(queue') \ ToSet(oldList')
      BY <1>1, <1>3, <3>1, WaitKept
    <3>2. CASE ~(prompt /\ r \in ToSet(queue') \ ToSet(oldList'))
      BY <1>3, <3>2, HistoryStep DEF Waits
    <3> QED BY <3>1, <3>2
  <2> QED BY <1>1, <2>2, <2>3, <2>4, <2>5 DEF WaitInv
<1> QED BY <1>2, <1>3

LEMMA InitWaitInv ==
  ASSUME WaitInit
  PROVE  WaitInv
<1>1. Fresh
  BY InitFresh DEF WaitInit
<1>2. ToSet(queue) = {}
  BY DEF WaitInit, Init, ToSet
<1> QED BY <1>1, <1>2 DEF WaitInit, Init, WaitInv, LastIsQueued

LEMMA WaitIsBounded ==
  ASSUME WaitInv, 2 * (Slots - 1) * WaitBound >= Cardinality(Rooms) * Cardinality(Rooms)
  PROVE  BoundedWait
<1> SUFFICES ASSUME NEW r \in Rooms, passedOver[r] > WaitBound PROVE FALSE
  BY RoomsAssumption DEF BoundedWait, WaitInv
<1> DEFINE n == Cardinality(Rooms)
<1>1. n * n \in Nat /\ Slots - 1 \in Nat /\ Slots - 1 >= 1 /\ WaitBound \in Nat
      /\ passedOver[r] \in Nat /\ passedOver[r] # 0
  BY QueueFits, SlotsAssumption, RoomsAssumption DEF WaitInv, Fresh, TypeOK
<1>2. r \in ToSet(queue) /\ 2 * (Slots - 1) * passedOver[r] + DebtOf(r) <= n * n
  BY <1>1 DEF WaitInv, Within
<1>3. DebtOf(r) \in Nat
  BY <1>2, DebtOfBound DEF WaitInv
<1> HIDE DEF n
<1>4. \A t, x, b \in Nat : t >= 1 /\ x > b => 2 * t * x > 2 * t * b
  <2> SUFFICES ASSUME NEW t \in Nat, NEW x \in Nat, NEW b \in Nat, t >= 1, x > b
               PROVE  2 * t * x > 2 * t * b
    OBVIOUS
  <2>1. 2 * t * x = 2 * t * b + 2 * (t * (x - b))
    OBVIOUS
  <2>2. t * (x - b) >= 1
    OBVIOUS
  <2>3. 2 * t * b \in Nat
    OBVIOUS
  <2> QED BY <2>1, <2>2, <2>3
<1>5. 2 * (Slots - 1) * passedOver[r] > 2 * (Slots - 1) * WaitBound
  BY <1>1, <1>4
<1>6. /\ 2 * (Slots - 1) * passedOver[r] \in Nat
      /\ 2 * (Slots - 1) * WaitBound \in Nat
      /\ 2 * (Slots - 1) * WaitBound >= n * n
  BY <1>1 DEF n
<1> QED BY <1>1, <1>2, <1>3, <1>5, <1>6

(* No room waits longer than the number of rooms allows, whoever joins and    *)
(* leaves meanwhile, as long as the Dispatcher answers every change of the    *)
(* queue before the next: of n rooms, none is passed over by more than        *)
(* n * n / (2 * (Slots - 1)) schedulings in a row (schedule, 120-131).        *)
THEOREM RotationBoundsWait ==
  ASSUME 2 * (Slots - 1) * WaitBound >= Cardinality(Rooms) * Cardinality(Rooms)
  PROVE  WaitSpec => []BoundedWait
<1>1. WaitInit => WaitInv
  BY InitWaitInv
<1>2. WaitInv /\ [WaitNext]_waitVars => WaitInv'
  BY NextKeepsWaitInv
<1>3. WaitInv => BoundedWait
  BY WaitIsBounded
<1> QED BY <1>1, <1>2, <1>3, PTL DEF WaitSpec
=============================================================================
