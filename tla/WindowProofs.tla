----------------------------- MODULE WindowProofs -----------------------------
(* What Dispatcher.schedule selects, for every queue and every last window.   *)
EXTENDS Window, SequencesExt, FiniteSetTheorems, WellFoundedInduction, TLAPS

(* ArrayList.indexOf returns a position of the element, the first one.        *)
LEMMA IndexOfFirst ==
  ASSUME NEW s, DOMAIN s \subseteq Nat, NEW k \in DOMAIN s
  PROVE  /\ IndexOf(s, s[k]) \in DOMAIN s
         /\ s[IndexOf(s, s[k])] = s[k]
         /\ \A j \in DOMAIN s : s[j] = s[k] => IndexOf(s, s[k]) <= j
<1> DEFINE T == {i \in DOMAIN s : s[i] = s[k]}
<1>1. T \subseteq Nat /\ T # {}
  OBVIOUS
<1>2. PICK x \in T : \A y \in T : ~(<<y, x>> \in OpToRel(<, Nat))
  <2> HIDE DEF T
  <2> QED BY <1>1, WFMin, NatLessThanWellFounded
<1>3. \A y \in T : x <= y
  <2> SUFFICES ASSUME NEW y \in T, y < x PROVE FALSE
    BY <1>1
  <2>1. <<y, x>> \in OpToRel(<, Nat)
    BY <1>1 DEF OpToRel
  <2> QED BY <1>2, <2>1
<1>4. x \in DOMAIN s /\ s[x] = s[k] /\ \A j \in DOMAIN s : s[j] = s[k] => x <= j
  BY <1>3
<1> QED BY <1>4 DEF IndexOf

(* List.remove by index: the elements behind move up by one.                  *)
LEMMA RemoveAtShifts ==
  ASSUME NEW S, NEW s \in Seq(S), NEW i \in DOMAIN s
  PROVE  /\ RemoveAt(s, i) \in Seq(S)
         /\ Len(RemoveAt(s, i)) = Len(s) - 1
         /\ \A k \in 1..(Len(s) - 1) :
              RemoveAt(s, i)[k] = IF k < i THEN s[k] ELSE s[k + 1]
<1> DEFINE a == SubSeq(s, 1, i - 1)
           b == SubSeq(s, i + 1, Len(s))
<1>1. i \in 1..Len(s) /\ Len(s) \in Nat
  OBVIOUS
<1>2. a \in Seq(S) /\ Len(a) = i - 1 /\ \A k \in 1..(i - 1) : a[k] = s[k]
  BY <1>1
<1>3. b \in Seq(S) /\ Len(b) = Len(s) - i /\ \A k \in 1..(Len(s) - i) : b[k] = s[i + k]
  BY <1>1
<1>4. RemoveAt(s, i) = a \o b
  BY DEF RemoveAt
<1>5. a \o b \in Seq(S) /\ Len(a \o b) = Len(s) - 1
  <2> HIDE DEF a, b
  <2> QED BY <1>1, <1>2, <1>3
<1>6. ASSUME NEW k \in 1..(Len(s) - 1)
      PROVE  (a \o b)[k] = IF k < i THEN s[k] ELSE s[k + 1]
  <2> HIDE DEF a, b
  <2>1. CASE k < i
    BY <1>1, <1>2, <1>3, <2>1
  <2>2. CASE ~(k < i)
    <3>2. k - (i - 1) \in 1..(Len(s) - i) /\ i + (k - (i - 1)) = k + 1
      BY <1>1, <2>2
    <3>1. (a \o b)[k] = b[k - (i - 1)]
      <4>1. k \in 1..(Len(a) + Len(b)) /\ ~(k <= Len(a))
        BY <1>1, <1>2, <1>3, <2>2
      <4>2. \A x, y \in Seq(S) : \A j \in 1..(Len(x) + Len(y)) :
              ~(j <= Len(x)) => (x \o y)[j] = y[j - Len(x)]
        OBVIOUS
      <4>3. (a \o b)[k] = b[k - Len(a)]
        BY <1>2, <1>3, <4>1, <4>2
      <4> QED BY <1>2, <4>3
    <3>3. b[k - (i - 1)] = s[i + (k - (i - 1))]
      BY <1>3, <3>2
    <3> QED BY <2>2, <3>1, <3>2, <3>3
  <2> QED BY <2>1, <2>2
<1> QED BY <1>4, <1>5, <1>6

LEMMA RemoveAtInjective ==
  ASSUME NEW S, NEW s \in Seq(S), NEW i \in DOMAIN s, IsInjective(s)
  PROVE  IsInjective(RemoveAt(s, i))
<1> DEFINE at(m) == IF m < i THEN m ELSE m + 1
           t == RemoveAt(s, i)
<1>1. DOMAIN t = 1..(Len(s) - 1) /\ \A m \in DOMAIN t : t[m] = s[at(m)]
  <2>1. t \in Seq(S) /\ Len(t) = Len(s) - 1
    BY RemoveAtShifts
  <2>2. DOMAIN t = 1..(Len(s) - 1)
    <3> HIDE DEF t
    <3> QED BY <2>1
  <2> QED BY <2>2, RemoveAtShifts
<1>2. \A m \in DOMAIN t : at(m) \in DOMAIN s
  BY <1>1
<1>3. ASSUME NEW j \in DOMAIN t, NEW k \in DOMAIN t, t[j] = t[k]
      PROVE  j = k
  <2>1. at(j) = at(k)
    <3> HIDE DEF at, t
    <3> QED BY <1>1, <1>2, <1>3 DEF IsInjective
  <2> QED BY <1>1, <2>1
<1> QED
  <2> HIDE DEF t
  <2>1. IsInjective(t)
    BY <1>3 DEF IsInjective
  <2> QED BY <2>1 DEF t

LEMMA AppendFresh ==
  ASSUME NEW S, NEW s \in Seq(S), NEW e \in S, e \notin ToSet(s), IsInjective(s)
  PROVE  Append(s, e) \in Seq(S) /\ IsInjective(Append(s, e))
<1> DEFINE t == Append(s, e)
<1>1. /\ t \in Seq(S)
      /\ DOMAIN s = 1..Len(s)
      /\ DOMAIN t = 1..(Len(s) + 1)
      /\ \A k \in 1..Len(s) : t[k] = s[k]
      /\ t[Len(s) + 1] = e
      /\ Len(s) \in Nat
  OBVIOUS
<1>2. \A k \in 1..Len(s) : s[k] # e
  BY <1>1 DEF ToSet
<1>3. ASSUME NEW j \in DOMAIN t, NEW k \in DOMAIN t, t[j] = t[k]
      PROVE  j = k
  <2> HIDE DEF t
  <2>1. CASE j \in 1..Len(s) /\ k \in 1..Len(s)
    BY <1>1, <1>3, <2>1 DEF IsInjective
  <2>2. CASE j = Len(s) + 1 \/ k = Len(s) + 1
    BY <1>1, <1>2, <1>3, <2>2
  <2> QED BY <1>1, <2>1, <2>2
<1> HIDE DEF t
<1>4. IsInjective(t)
  BY <1>3 DEF IsInjective
<1> QED BY <1>1, <1>4 DEF t

(* A window opens somewhere in the queue.                                     *)
LEMMA OpeningInRange ==
  ASSUME NEW S, NEW q \in Seq(S), NEW old \in Seq(S), q # <<>>
  PROVE  Opening(q, old) \in 1..Len(q)
<1>1. CASE old # <<>> /\ \E i \in DOMAIN q : q[i] = old[Len(old)]
  <2>1. PICK i \in DOMAIN q : q[i] = old[Len(old)]
    BY <1>1
  <2>2. DOMAIN q = 1..Len(q)
    OBVIOUS
  <2>3. IndexOf(q, q[i]) \in DOMAIN q
    BY <2>2, IndexOfFirst
  <2> QED BY <1>1, <2>1, <2>2, <2>3 DEF Opening
<1>2. CASE ~(old # <<>> /\ \E i \in DOMAIN q : q[i] = old[Len(old)])
  BY <1>2 DEF Opening
<1> QED BY <1>1, <1>2

(* The cyclic index of schedule, (first + i) % size: the modulus takes the    *)
(* size off at most once, since first and i are below the size.               *)
LEMMA CyclicIndex ==
  ASSUME NEW n \in Nat, n > 0, NEW k \in 0..(2 * n - 1)
  PROVE  k % n = IF k < n THEN k ELSE k - n
  OBVIOUS

LEMMA CyclicOnce ==
  ASSUME NEW n \in Nat, NEW o \in 1..n, NEW i \in 1..n, NEW j \in 1..n,
         (o + i - 2) % n = (o + j - 2) % n
  PROVE  i = j
<1>1. (o + i - 2) % n = IF o + i - 2 < n THEN o + i - 2 ELSE o + i - 2 - n
  BY CyclicIndex
<1>2. (o + j - 2) % n = IF o + j - 2 < n THEN o + j - 2 ELSE o + j - 2 - n
  BY CyclicIndex
<1>3. /\ o + i - 2 < n => (o + i - 2) % n = o + i - 2
      /\ ~(o + i - 2 < n) => (o + i - 2) % n = o + i - 2 - n
      /\ o + j - 2 < n => (o + j - 2) % n = o + j - 2
      /\ ~(o + j - 2 < n) => (o + j - 2) % n = o + j - 2 - n
  BY <1>1, <1>2
<1> QED BY <1>3

(* The position of the queue that slot i of a window takes.                   *)
Taken(q, old, i) == ((Opening(q, old) + i - 2) % Len(q)) + 1

(* With more rooms than slots, the positions taken are positions of the       *)
(* queue, and no two slots take the same.                                     *)
LEMMA TakenInRange ==
  ASSUME NEW S, NEW q \in Seq(S), NEW old \in Seq(S), Len(q) > Slots,
         NEW i \in 1..Slots
  PROVE  Taken(q, old, i) \in 1..Len(q)
<1>1. Len(q) \in Nat /\ Slots \in Nat /\ q # <<>>
  BY SlotsAssumption
<1>2. Opening(q, old) \in 1..Len(q)
  BY <1>1, OpeningInRange
<1>3. Opening(q, old) + i - 2 \in 0..(2 * Len(q) - 1)
  BY <1>1, <1>2
<1> QED BY <1>1, <1>3, CyclicIndex DEF Taken

LEMMA TakenOnce ==
  ASSUME NEW S, NEW q \in Seq(S), NEW old \in Seq(S), Len(q) > Slots,
         NEW i \in 1..Slots, NEW j \in 1..Slots,
         Taken(q, old, i) = Taken(q, old, j)
  PROVE  i = j
<1>1. Len(q) \in Nat /\ Slots \in Nat /\ q # <<>>
  BY SlotsAssumption
<1>2. Opening(q, old) \in 1..Len(q)
  BY <1>1, OpeningInRange
<1>3. i \in 1..Len(q) /\ j \in 1..Len(q)
  BY <1>1
<1>4. /\ (Opening(q, old) + i - 2) % Len(q) \in Int
      /\ (Opening(q, old) + j - 2) % Len(q) \in Int
  BY <1>1, <1>2, <1>3
<1>5. (Opening(q, old) + i - 2) % Len(q) = (Opening(q, old) + j - 2) % Len(q)
  BY <1>4 DEF Taken
<1> QED BY <1>1, <1>2, <1>3, <1>5, CyclicOnce

(* With more rooms than slots a window is full.                               *)
LEMMA FullWindow ==
  ASSUME NEW S, NEW q \in Seq(S), NEW old \in Seq(S), Len(q) > Slots
  PROVE  /\ Window(q, old) = [i \in 1..Slots |-> q[Taken(q, old, i)]]
         /\ Len(Window(q, old)) = Slots
         /\ Window(q, old) \in Seq(S)
<1> DEFINE w == [i \in 1..Slots |-> q[Taken(q, old, i)]]
<1>1. Window(q, old) = w
  <2>1. ~(Len(q) <= Slots)
    BY SlotsAssumption
  <2> QED BY <2>1 DEF Window, Taken
<1>2. \A i \in 1..Slots : q[Taken(q, old, i)] \in S
  BY TakenInRange
<1>3. w \in Seq(S) /\ Len(w) = Slots
  BY <1>2, SlotsAssumption
<1> QED BY <1>1, <1>3

(* Whom a window serves: queued rooms, at most Slots of them, all of the      *)
(* queue when it fits and Slots rooms when it does not.                       *)
THEOREM WindowFits ==
  ASSUME NEW S, NEW q \in Seq(S), NEW old \in Seq(S)
  PROVE  /\ Window(q, old) \in Seq(S)
         /\ Len(Window(q, old)) <= Slots
         /\ Len(q) <= Slots => Window(q, old) = q
         /\ Len(q) > Slots => Len(Window(q, old)) = Slots
         /\ ToSet(Window(q, old)) \subseteq ToSet(q)
<1>1. CASE Len(q) <= Slots
  <2>1. Window(q, old) = q
    BY <1>1 DEF Window
  <2>2. Window(q, old) \in Seq(S) /\ ToSet(Window(q, old)) \subseteq ToSet(q)
    BY <2>1
  <2>3. ~(Len(q) > Slots)
    BY <1>1, SlotsAssumption
  <2> QED BY <1>1, <2>1, <2>2, <2>3
<1>2. CASE Len(q) > Slots
  <2>1. /\ Window(q, old) = [i \in 1..Slots |-> q[Taken(q, old, i)]]
        /\ Len(Window(q, old)) = Slots
        /\ Window(q, old) \in Seq(S)
    BY <1>2, FullWindow
  <2>2. \A i \in 1..Slots : Taken(q, old, i) \in 1..Len(q)
    BY <1>2, TakenInRange
  <2>3. ToSet(Window(q, old)) \subseteq ToSet(q)
    BY <2>1, <2>2 DEF ToSet
  <2>4. ~(Len(q) <= Slots) /\ Len(Window(q, old)) <= Slots
    BY <1>2, <2>1, SlotsAssumption
  <2> QED BY <1>2, <2>1, <2>3, <2>4
<1>3. Len(q) <= Slots \/ Len(q) > Slots
  BY SlotsAssumption
<1> QED BY <1>1, <1>2, <1>3

(* No room is served twice by a window when no room is queued twice.          *)
THEOREM WindowInjective ==
  ASSUME NEW S, NEW q \in Seq(S), NEW old \in Seq(S), IsInjective(q)
  PROVE  IsInjective(Window(q, old))
<1>1. CASE Len(q) <= Slots
  BY <1>1 DEF Window
<1>2. CASE Len(q) > Slots
  <2>1. Window(q, old) = [i \in 1..Slots |-> q[Taken(q, old, i)]]
    BY <1>2, FullWindow
  <2> SUFFICES ASSUME NEW i \in 1..Slots, NEW j \in 1..Slots,
                      q[Taken(q, old, i)] = q[Taken(q, old, j)]
               PROVE  i = j
    BY <2>1 DEF IsInjective
  <2>2. Taken(q, old, i) \in DOMAIN q /\ Taken(q, old, j) \in DOMAIN q
    BY <1>2, TakenInRange
  <2>3. Taken(q, old, i) = Taken(q, old, j)
    BY <2>2 DEF IsInjective
  <2> QED BY <1>2, <2>3, TakenOnce
<1>3. Len(q) <= Slots \/ Len(q) > Slots
  BY SlotsAssumption
<1> QED BY <1>1, <1>2, <1>3

-----------------------------------------------------------------------------
(* Queue and window as sets of rooms.                                         *)
LEMMA CardinalityOfList ==
  ASSUME NEW S, NEW s \in Seq(S), IsInjective(s)
  PROVE  Cardinality(ToSet(s)) = Len(s)
<1>1. s \in Bijection(1..Len(s), ToSet(s))
  BY DEF Bijection, Injection, Surjection, IsInjective, ToSet
<1>2. IsFiniteSet(1..Len(s)) /\ Cardinality(1..Len(s)) = Len(s)
  <2>1. Len(s) \in Nat /\ Len(s) \in Int /\ 1 \in Int
    OBVIOUS
  <2>2. /\ IsFiniteSet(1..Len(s))
        /\ Cardinality(1..Len(s)) = IF 1 > Len(s) THEN 0 ELSE Len(s) - 1 + 1
    BY <2>1, FS_Interval
  <2> QED BY <2>1, <2>2
<1>3. ExistsBijection(1..Len(s), ToSet(s))
  BY <1>1 DEF ExistsBijection
<1> HIDE DEF ToSet
<1> QED BY <1>2, <1>3, FS_Bijection

LEMMA AppendAsSet ==
  ASSUME NEW S, NEW s \in Seq(S), NEW e
  PROVE  ToSet(Append(s, e)) = ToSet(s) \cup {e}
<1> DEFINE t == Append(s, e)
<1>1. /\ DOMAIN s = 1..Len(s) /\ Len(s) \in Nat
      /\ DOMAIN t = 1..(Len(s) + 1)
      /\ \A k \in 1..Len(s) : t[k] = s[k]
      /\ t[Len(s) + 1] = e
  OBVIOUS
<1> HIDE DEF t
<1>2. ASSUME NEW k \in DOMAIN t
      PROVE  t[k] \in ToSet(s) \cup {e}
  BY <1>1 DEF ToSet
<1>3. \A k \in DOMAIN s : k \in DOMAIN t /\ t[k] = s[k]
  BY <1>1
<1>4. Len(s) + 1 \in DOMAIN t /\ t[Len(s) + 1] = e
  BY <1>1
<1>5. ToSet(t) = ToSet(s) \cup {e}
  BY <1>2, <1>3, <1>4 DEF ToSet
<1> QED BY <1>5 DEF t

LEMMA RemoveAtAsSet ==
  ASSUME NEW S, NEW s \in Seq(S), NEW i \in DOMAIN s, IsInjective(s)
  PROVE  ToSet(RemoveAt(s, i)) = ToSet(s) \ {s[i]}
<1> DEFINE t == RemoveAt(s, i)
<1>1. /\ DOMAIN s = 1..Len(s) /\ Len(s) \in Nat
      /\ t \in Seq(S) /\ Len(t) = Len(s) - 1
      /\ \A k \in 1..(Len(s) - 1) : t[k] = IF k < i THEN s[k] ELSE s[k + 1]
  BY RemoveAtShifts
<1> HIDE DEF t
<1>2. DOMAIN t = 1..(Len(s) - 1)
  BY <1>1
<1>3. ASSUME NEW k \in DOMAIN t
      PROVE  t[k] \in ToSet(s) \ {s[i]}
  <2>1. PICK j \in DOMAIN s : j # i /\ t[k] = s[j]
    <3> DEFINE at == IF k < i THEN k ELSE k + 1
    <3>1. at \in DOMAIN s /\ at # i
      BY <1>1, <1>2
    <3>2. t[k] = s[at]
      BY <1>1, <1>2
    <3> HIDE DEF at
    <3> QED BY <3>1, <3>2
  <2> QED BY <2>1 DEF IsInjective, ToSet
<1>4. ASSUME NEW j \in DOMAIN s, s[j] # s[i]
      PROVE  \E k \in DOMAIN t : t[k] = s[j]
  <2>1. CASE j < i
    <3>1. j \in DOMAIN t /\ t[j] = s[j]
      BY <1>1, <1>2, <2>1
    <3> QED BY <3>1
  <2>2. CASE j > i
    <3>1. j - 1 \in DOMAIN t /\ t[j - 1] = s[j]
      BY <1>1, <1>2, <2>2
    <3> QED BY <3>1
  <2> QED BY <1>1, <1>4, <2>1, <2>2
<1>5. ToSet(t) = ToSet(s) \ {s[i]}
  BY <1>3, <1>4 DEF ToSet
<1> QED BY <1>5 DEF t

(* A window takes as many of the rooms as may blow, when each queues once.    *)
THEOREM WindowShares ==
  ASSUME NEW S, NEW q \in Seq(S), NEW old \in Seq(S), IsInjective(q)
  PROVE  /\ ToSet(Window(q, old)) \in SUBSET ToSet(q)
         /\ Cardinality(ToSet(Window(q, old))) =
              IF Slots <= Cardinality(ToSet(q)) THEN Slots ELSE Cardinality(ToSet(q))
<1> DEFINE w == Window(q, old)
<1>1. /\ w \in Seq(S)
      /\ Len(q) <= Slots => w = q
      /\ Len(q) > Slots => Len(w) = Slots
      /\ ToSet(w) \subseteq ToSet(q)
  BY WindowFits
<1>2. IsInjective(w)
  BY WindowInjective
<1> HIDE DEF w
<1>3. Cardinality(ToSet(w)) = Len(w) /\ Cardinality(ToSet(q)) = Len(q)
  BY <1>1, <1>2, CardinalityOfList
<1>4. Len(w) = IF Slots <= Len(q) THEN Slots ELSE Len(q)
  BY <1>1, SlotsAssumption
<1> QED BY <1>1, <1>3, <1>4 DEF w
=============================================================================
