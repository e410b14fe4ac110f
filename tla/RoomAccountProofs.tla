--------------------------- MODULE RoomAccountProofs ---------------------------
(* RoomAccount for any number of connections, starts, changes, ticks, losses  *)
(* and checkouts, whether or not two logs may start within a second.          *)
EXTENDS RoomAccount, FiniteSetTheorems, TLAPS

-----------------------------------------------------------------------------
(* What the proofs need of the types.                                         *)
Counters == [starts : Nat, changes : Nat, ticks : Nat, drops : Nat, checkouts : Nat]

Committing == {"commit", "sum", "store", "zero", "insert"}

Places == {"new", "login", "bind", "register", "on", "enqueue", "remove", "renew",
           "forget", "contains", "test", "settle", "gone"} \cup Committing

Shape ==
  /\ sock \in [Conns -> {"none", "open", "dropped", "closed"}]
  /\ client \in 0..MaxConns
  /\ logTable \in 0..MaxConns
  /\ pc \in [Threads -> Places]
  /\ positive \in [Conns -> BOOLEAN]
  /\ after \in [Threads -> {"stop", "level", "cleanup", "checkout"}]
  /\ queued \in Nat
  /\ dpc \in {"idle", "tell", "charge", "write", "dead"}
  /\ left \in Counters

(* A Log is named where it is used, and what was read of it is a number.      *)
Amounts ==
  /\ logs \in [Conns -> Log]
  /\ energyTable \in Nat \cup {None}
  /\ records \subseteq Log
  /\ obj \in [Threads -> 0..MaxConns]
  /\ sum \in [Threads -> Nat]
  /\ want \in [Conns -> {0} \cup Levels]
  /\ selected \in Nat
  /\ got \in Nat \cup {None}
  /\ aim \in 0..MaxConns
  /\ todo \in Nat
  /\ used \in Nat /\ now \in Nat
  /\ \A t \in Threads : pc[t] \in {"sum", "store", "zero", "insert"} => obj[t] # 0
  /\ dpc = "write" => aim # 0 /\ got # None /\ todo > 0

LEMMA ThreadsAre ==
  /\ Conns \subseteq Threads /\ Staff \in Threads /\ Staff \notin Conns
  /\ 0..MaxConns = {0} \cup Conns
  /\ Conns \subseteq Nat \ {0}
BY AccountAssumption DEF Conns, Threads, Staff

LEMMA InitShape == Init => Shape
<1> SUFFICES ASSUME Init PROVE Shape
  OBVIOUS
<1>1. left \in Counters
  BY AccountAssumption DEF Init, Counters
<1>2. pc \in [Threads -> Places]
  BY DEF Init, Places, Committing
<1> QED BY <1>1, <1>2, ThreadsAre DEF Init, Shape

LEMMA HandlerKeepsShape ==
  ASSUME Shape, NEW c \in Conns, Connect(c) \/ Drop(c) \/ Handler(c)
  PROVE  Shape'
<1> USE ThreadsAre DEF Shape, Goto, Places, Committing, network, account, threads,
                       queueing, dispatcher
<1>1. CASE Connect(c)
  BY <1>1 DEF Connect
<1>2. CASE Drop(c)
  BY <1>2 DEF Drop, Counters
<1>3. CASE Login(c) \/ BindLog(c) \/ Register(c) \/ ReadFails(c)
  BY <1>3 DEF Login, BindLog, Register, ReadFails
<1>4. CASE LoopEnds(c)
  BY <1>4 DEF LoopEnds
<1>5. ASSUME NEW level \in Levels, Start(c, level)
      PROVE  Shape'
  BY <1>5 DEF Start, Counters
<1>6. ASSUME NEW level \in Levels, ChangeLevel(c, level)
      PROVE  Shape'
  BY <1>6 DEF ChangeLevel, Counters
<1>7. CASE Enqueue(c)
  BY <1>7 DEF Enqueue
<1>8. CASE Stop(c)
  BY <1>8 DEF Stop
<1>9. CASE Renew(c) \/ Forget(c)
  BY <1>9 DEF Renew, Forget
<1> QED BY <1>1, <1>2, <1>3, <1>4, <1>5, <1>6, <1>7, <1>8, <1>9 DEF Handler

LEMMA OthersKeepShape ==
  ASSUME Shape, Next, \A c \in Conns : ~(Connect(c) \/ Drop(c) \/ Handler(c))
  PROVE  Shape'
<1> USE ThreadsAre DEF Shape, Goto, GiveUp, Places, Committing, network, account,
                       threads, queueing, dispatcher
<1>1. ASSUME NEW t \in Threads, Commit(t)
      PROVE  Shape'
  <2>1. CASE CommitUpdate(t) \/ CommitSum(t) \/ CommitStore(t) \/ CommitZero(t)
    BY <2>1 DEF CommitUpdate, CommitSum, CommitStore, CommitZero
  <2>2. CASE CommitInsert(t)
    <3>1. pc' \in [Threads -> Places]
      BY <2>2 DEF CommitInsert
    <3>2. positive' \in [Conns -> BOOLEAN] /\ logTable' \in 0..MaxConns
      BY <2>2 DEF CommitInsert
    <3> QED BY <2>2, <3>1, <3>2 DEF CommitInsert
  <2> QED BY <1>1, <2>1, <2>2 DEF Commit
<1>2. ASSUME NEW t \in Threads, RemoveClient(t)
      PROVE  Shape'
  BY <1>2 DEF RemoveClient
<1>3. CASE CheckOut \/ CheckOutContains \/ CheckOutTest \/ CheckOutSettle
           \/ CheckOutAbsent
  BY <1>3 DEF CheckOut, CheckOutContains, CheckOutTest, CheckOutSettle,
              CheckOutAbsent, Counters
<1>4. CASE Reschedule \/ FareDue \/ Tell \/ Charge \/ WriteBack
  BY <1>4 DEF Reschedule, FareDue, Tell, Charge, WriteBack, Counters
<1> QED BY <1>1, <1>2, <1>3, <1>4 DEF Next

LEMMA ShapeStays ==
  ASSUME Shape, [Next]_vars
  PROVE  Shape'
<1>1. CASE UNCHANGED vars
  BY <1>1 DEF vars, Shape, network, account, threads, queueing, dispatcher
<1> QED BY <1>1, HandlerKeepsShape, OthersKeepShape

-----------------------------------------------------------------------------
(* The amounts.                                                               *)
LEMMA RateIsNat == \A level : Rate(level) \in Nat
BY DEF Rate

LEMMA UpdatedIsLog ==
  ASSUME NEW log \in Log
  PROVE  /\ Updated(log) \in Log
         /\ \A level \in {0} \cup Levels, second \in Nat : Renewed(log, level, second) \in Log
<1>1. \A l \in Log : Updated(l) \in Log
  <2> TAKE l \in Log
  <2>1. l.net * Rate(l.level) \in Nat
    BY RateIsNat DEF Log
  <2> QED BY <2>1 DEF Updated, Log
<1>2. \A level \in {0} \cup Levels, second \in Nat :
        [log EXCEPT !.level = level, !.start = second, !.net = 0] \in Log
  BY DEF Log
<1> QED BY <1>1, <1>2 DEF Renewed

LEMMA InitAmounts == Init => Amounts
<1> SUFFICES ASSUME Init PROVE Amounts
  OBVIOUS
<1>1. logs \in [Conns -> Log]
  BY DEF Init, Log
<1> QED BY <1>1, ThreadsAre DEF Init, Amounts, None

LEMMA NewLogIsTyped ==
  ASSUME Shape, Amounts, NEW level \in {0} \cup Levels, logTable # 0, NewLog(level)
  PROVE  logs' \in [Conns -> Log] /\ now' \in Nat
<1>1. now' \in Nat
  BY DEF NewLog, Clock, Amounts
<1>2. logTable \in Conns /\ logs[logTable] \in Log
  BY ThreadsAre DEF Shape, Amounts
<1>3. Renewed(logs[logTable], level, now') \in Log
  BY <1>1, <1>2, UpdatedIsLog
<1> QED BY <1>1, <1>2, <1>3 DEF NewLog, Amounts

LEMMA HandlerKeepsAmounts ==
  ASSUME Shape, Amounts, NEW c \in Conns, Connect(c) \/ Drop(c) \/ Handler(c)
  PROVE  Amounts'
<1> USE ThreadsAre DEF Shape, Amounts, Goto, network, account, threads, queueing, dispatcher
<1>1. CASE Connect(c) \/ Drop(c)
  BY <1>1 DEF Connect, Drop
<1>2. CASE Login(c) \/ Register(c) \/ ReadFails(c) \/ LoopEnds(c)
  BY <1>2 DEF Login, Register, ReadFails, LoopEnds
<1>3. CASE BindLog(c)
  <2>1. now' \in Nat
    BY <1>3 DEF BindLog, Clock
  <2>2. [logs[c] EXCEPT !.start = now'] \in Log
    BY <2>1 DEF Log
  <2>3. logs' \in [Conns -> Log]
    BY <1>3, <2>2 DEF BindLog
  <2> QED BY <1>3, <2>1, <2>3 DEF BindLog
<1>4. ASSUME NEW level \in Levels, Start(c, level)
      PROVE  Amounts'
  <2>1. logs' \in [Conns -> Log] /\ now' \in Nat
    BY <1>4, NewLogIsTyped DEF Start
  <2> QED BY <1>4, <2>1 DEF Start
<1>5. ASSUME NEW level \in Levels, ChangeLevel(c, level)
      PROVE  Amounts'
  BY <1>5 DEF ChangeLevel
<1>6. CASE Enqueue(c) \/ Stop(c) \/ Forget(c)
  BY <1>6 DEF Enqueue, Stop, Forget
<1>7. CASE Renew(c)
  <2>1. logs' \in [Conns -> Log] /\ now' \in Nat
    BY <1>7, NewLogIsTyped DEF Renew
  <2> QED BY <1>7, <2>1 DEF Renew
<1> QED BY <1>1, <1>2, <1>3, <1>4, <1>5, <1>6, <1>7 DEF Handler

LEMMA CommitKeepsAmounts ==
  ASSUME Shape, Amounts, NEW t \in Threads, Commit(t)
  PROVE  Amounts'
<1> USE ThreadsAre
    DEF Shape, Amounts, Goto, GiveUp, network, account, threads, queueing, dispatcher
<1>1. CASE CommitUpdate(t)
  <2>1. logs' \in [Conns -> Log]
    BY <1>1, UpdatedIsLog DEF CommitUpdate
  <2> QED BY <1>1, <2>1 DEF CommitUpdate
<1>2. CASE CommitSum(t)
  <2>1. obj[t] \in Conns
    BY <1>2 DEF CommitSum
  <2>2. energyTable # None => Total(t) \in Nat
    BY <2>1 DEF Total, Log
  <2> QED BY <1>2, <2>2 DEF CommitSum
<1>3. CASE CommitStore(t)
  BY <1>3 DEF CommitStore
<1>4. CASE CommitZero(t)
  <2>1. obj[t] \in Conns
    BY <1>4 DEF CommitZero
  <2>2. [logs[obj[t]] EXCEPT !.energy = 0] \in Log
    BY <2>1 DEF Log
  <2>3. logs' \in [Conns -> Log]
    BY <1>4, <2>1, <2>2 DEF CommitZero
  <2> QED BY <1>4, <2>3 DEF CommitZero
<1>5. CASE CommitInsert(t)
  <2>1. obj[t] \in Conns
    BY <1>5 DEF CommitInsert
  <2>2. records' \subseteq Log
    BY <1>5, <2>1 DEF CommitInsert, Insert
  <2>3. pc'[t] \notin {"sum", "store", "zero", "insert"}
    BY <1>5 DEF CommitInsert
  <2>4. \A u \in Threads : pc'[u] \in {"sum", "store", "zero", "insert"} => obj'[u] # 0
    BY <1>5, <2>3 DEF CommitInsert
  <2> QED BY <1>5, <2>2, <2>4 DEF CommitInsert
<1> QED BY <1>1, <1>2, <1>3, <1>4, <1>5 DEF Commit

LEMMA DispatcherKeepsAmounts ==
  ASSUME Shape, Amounts, Reschedule \/ FareDue \/ Tell \/ Charge \/ WriteBack
  PROVE  Amounts'
<1> USE ThreadsAre DEF Shape, Amounts, network, account, threads, queueing, dispatcher
<1>1. CASE Reschedule \/ FareDue \/ Tell
  BY <1>1 DEF Reschedule, FareDue, Tell
<1>2. CASE Charge
  <2>1. logTable # 0 => logs[logTable].net \in Nat
    BY DEF Log
  <2> QED BY <1>2, <2>1 DEF Charge, None
<1>3. CASE WriteBack
  <2>1. aim \in Conns /\ got \in Nat
    BY <1>3 DEF WriteBack
  <2>2. \A c \in Conns : Counted(logs[c]) \in Log
    <3>1. got + 1 \in Nat
      BY <2>1
    <3>2. \A log \in Log, net \in Nat : [log EXCEPT !.net = net] \in Log
      BY DEF Log
    <3> QED BY <3>1, <3>2 DEF Counted
  <2>3. logs' \in [Conns -> Log]
    BY <1>3, <2>2, UpdatedIsLog DEF WriteBack
  <2>4. Rate(logs[aim].level) \in Nat
    BY RateIsNat
  <2>5. used' \in Nat
    BY <1>3, <2>4 DEF WriteBack
  <2> QED BY <1>3, <2>3, <2>5 DEF WriteBack
<1> QED BY <1>1, <1>2, <1>3

LEMMA AmountsStay ==
  ASSUME Shape, Amounts, [Next]_vars
  PROVE  Amounts'
<1> USE ThreadsAre
    DEF Shape, Amounts, Goto, GiveUp, network, account, threads, queueing, dispatcher
<1>1. ASSUME NEW t \in Threads, RemoveClient(t)
      PROVE  Amounts'
  BY <1>1 DEF RemoveClient
<1>2. CASE CheckOut \/ CheckOutContains \/ CheckOutTest \/ CheckOutSettle
           \/ CheckOutAbsent
  BY <1>2 DEF CheckOut, CheckOutContains, CheckOutTest, CheckOutSettle,
              CheckOutAbsent
<1>3. CASE UNCHANGED vars
  BY <1>3 DEF vars
<1> QED BY <1>1, <1>2, <1>3, HandlerKeepsAmounts, CommitKeepsAmounts,
           DispatcherKeepsAmounts DEF Next

-----------------------------------------------------------------------------
(* Until the first checkout only the connections' handlers work on the        *)
(* account, and they remove nothing.                                          *)
Uncharged == left.checkouts = MaxCheckouts

HandlersOnly ==
  /\ pc[Staff] = "on"
  /\ \A c \in Conns :
       /\ sock[c] # "closed"
       /\ pc[c] \notin {"remove", "forget", "settle", "contains", "test"}
       /\ after[c] \in {"stop", "level"}

NotYet == \A c \in Conns : sock[c] = "none" => pc[c] = "new" /\ ~positive[c]

OneOpen ==
  \A c \in Conns : sock[c] # "none" => \A b \in 1..(c - 1) : sock[b] = "dropped"

LogIsThere ==
  /\ \A c \in Conns : pc[c] \notin {"new", "login", "bind", "gone"}
                        => logTable # 0 /\ energyTable # None
  /\ queued > 0 \/ dpc = "write" => logTable # 0

(* A handler that has taken its room off the queue and settles the stop.      *)
StopsNow(c) == after[c] = "stop" /\ pc[c] \in Committing

BlowsQueued ==
  \A c \in Conns : sock[c] = "open" /\ positive[c] /\ ~StopsNow(c) => queued > 0

Lives ==
  /\ dpc # "dead" /\ ~lost
  /\ \A c \in Conns : sock[c] = "open" => pc[c] # "gone"

Sound == HandlersOnly /\ NotYet /\ OneOpen /\ LogIsThere /\ BlowsQueued /\ Lives

LEMMA OnlyOneOpen ==
  ASSUME OneOpen, NEW b \in Conns, NEW c \in Conns, sock[b] = "open", sock[c] = "open"
  PROVE  b = c
<1>1. ~(b \in 1..(c - 1)) /\ ~(c \in 1..(b - 1))
  BY DEF OneOpen
<1> QED BY <1>1, AccountAssumption DEF Conns

LEMMA HandlerKeepsSound ==
  ASSUME Shape, Shape', Amounts, Sound, NEW c \in Conns, Connect(c) \/ Drop(c) \/ Handler(c)
  PROVE  Sound'
<1> USE ThreadsAre
    DEF Shape, Sound, HandlersOnly, NotYet, OneOpen, LogIsThere, StopsNow, BlowsQueued, Lives,
        Goto, Committing, None, network, account, threads, queueing, dispatcher
<1>1. CASE Connect(c)
  <2>1. OneOpen'
    BY <1>1, AccountAssumption DEF Connect, Conns
  <2>2. NotYet' /\ HandlersOnly' /\ LogIsThere' /\ BlowsQueued' /\ Lives'
    BY <1>1 DEF Connect
  <2> QED BY <2>1, <2>2
<1>2. CASE Drop(c)
  BY <1>2 DEF Drop
<1>3. CASE Login(c)
  BY <1>3 DEF Login
<1>4. CASE BindLog(c)
  BY <1>4 DEF BindLog
<1>5. CASE Register(c)
  BY <1>5 DEF Register
<1>6. CASE ReadFails(c)
  BY <1>6 DEF ReadFails
<1>7. CASE LoopEnds(c)
  BY <1>7 DEF LoopEnds
<1>8. ASSUME NEW level \in Levels, Start(c, level)
      PROVE  Sound'
  BY <1>8 DEF Start
<1>9. ASSUME NEW level \in Levels, ChangeLevel(c, level)
      PROVE  Sound'
  BY <1>9 DEF ChangeLevel
<1>10. CASE Enqueue(c)
  BY <1>10 DEF Enqueue
<1>11. CASE Stop(c)
  <2>1. \A b \in Conns : sock[b] = "open" => b = c
    BY <1>11, OnlyOneOpen DEF Stop
  <2> QED BY <1>11, <2>1 DEF Stop
<1>12. CASE Renew(c)
  BY <1>12 DEF Renew
<1>13. CASE Forget(c)
  BY <1>13 DEF Forget
<1> QED BY <1>1, <1>2, <1>3, <1>4, <1>5, <1>6, <1>7, <1>8, <1>9, <1>10, <1>11, <1>12,
           <1>13 DEF Handler

LEMMA OthersKeepSound ==
  ASSUME Shape, Shape', Amounts, Sound, Next, Uncharged, Uncharged',
         \A c \in Conns : ~(Connect(c) \/ Drop(c) \/ Handler(c))
  PROVE  Sound'
<1> USE ThreadsAre
    DEF Shape, Sound, HandlersOnly, NotYet, OneOpen, LogIsThere, StopsNow, BlowsQueued, Lives,
        Goto, GiveUp, Committing, None, network, account, threads, queueing, dispatcher
<1>1. ASSUME NEW t \in Threads, Commit(t)
      PROVE  Sound'
  <2>1. t \in Conns
    BY <1>1 DEF Commit, CommitUpdate, CommitSum, CommitStore, CommitZero, CommitInsert,
                Threads
  <2>2. CASE CommitUpdate(t)
    BY <2>1, <2>2 DEF CommitUpdate
  <2>3. CASE CommitSum(t)
    BY <2>1, <2>3 DEF CommitSum
  <2>4. CASE CommitStore(t)
    <3>1. sum[t] # None
      BY DEF Amounts
    <3> QED BY <2>1, <2>4, <3>1 DEF CommitStore
  <2>5. CASE CommitZero(t)
    BY <2>1, <2>5 DEF CommitZero
  <2>6. CASE CommitInsert(t)
    BY <2>1, <2>6 DEF CommitInsert
  <2> QED BY <1>1, <2>2, <2>3, <2>4, <2>5, <2>6 DEF Commit
<1>2. ASSUME NEW t \in Threads, RemoveClient(t)
      PROVE  FALSE
  BY <1>2 DEF RemoveClient, Threads
<1>3. CASE CheckOut \/ CheckOutContains \/ CheckOutTest \/ CheckOutSettle
           \/ CheckOutAbsent
  <2>1. CheckOut \/ CheckOutAbsent
    BY <1>3 DEF CheckOutContains, CheckOutTest, CheckOutSettle
  <2>2. left'.checkouts = left.checkouts - 1
    BY <2>1 DEF CheckOut, CheckOutAbsent, Counters
  <2> QED BY <2>2 DEF Uncharged, Counters
<1>4. CASE Reschedule \/ FareDue \/ Tell
  BY <1>4 DEF Reschedule, FareDue, Tell
<1>5. CASE Charge
  BY <1>5 DEF Charge
<1>6. CASE WriteBack
  BY <1>6 DEF WriteBack
<1> QED BY <1>1, <1>2, <1>3, <1>4, <1>5, <1>6 DEF Next

(* What remains of a bound never grows.                                       *)
Remains == /\ left.changes \in 0..MaxChanges /\ left.drops \in 0..MaxDrops
           /\ left.checkouts \in 0..MaxCheckouts

LEMMA HandlerSpends ==
  ASSUME Shape, NEW c \in Conns, Connect(c) \/ Drop(c) \/ Handler(c)
  PROVE  /\ left'.changes \in {left.changes, left.changes - 1}
         /\ left'.drops \in {left.drops, left.drops - 1}
         /\ left'.checkouts = left.checkouts
BY DEF Shape, Counters, Connect, Drop, Handler, Login, BindLog, Register, ReadFails,
       LoopEnds, Start, ChangeLevel, Enqueue, Stop, Renew, Forget

LEMMA OthersSpend ==
  ASSUME Shape, Next, \A c \in Conns : ~(Connect(c) \/ Drop(c) \/ Handler(c))
  PROVE  /\ left'.changes = left.changes /\ left'.drops = left.drops
         /\ left'.checkouts \in {left.checkouts, left.checkouts - 1}
BY DEF Shape, Counters, Next, Commit, CommitUpdate, CommitSum, CommitStore, CommitZero,
       CommitInsert, RemoveClient, CheckOut, CheckOutContains, CheckOutTest,
       CheckOutSettle, CheckOutAbsent, Reschedule, FareDue, Tell, Charge, WriteBack

LEMMA RemainsStays ==
  ASSUME Shape, Shape', Remains, [Next]_vars
  PROVE  /\ Remains' /\ left'.changes <= left.changes /\ left'.drops <= left.drops
         /\ left'.checkouts <= left.checkouts
<1>1. CASE UNCHANGED vars
  BY <1>1 DEF vars, Shape, Counters, Remains
<1>2. CASE Next
  <2>1. /\ left'.changes \in {left.changes, left.changes - 1}
        /\ left'.drops \in {left.drops, left.drops - 1}
        /\ left'.checkouts \in {left.checkouts, left.checkouts - 1}
    BY <1>2, HandlerSpends, OthersSpend
  <2> QED BY <2>1, AccountAssumption DEF Shape, Counters, Remains
<1> QED BY <1>1, <1>2

LEMMA InitSound == Init => Sound
<1> SUFFICES ASSUME Init PROVE Sound
  OBVIOUS
<1> QED BY ThreadsAre
  DEF Init, Sound, HandlersOnly, NotYet, OneOpen, LogIsThere, BlowsQueued, Lives

LEMMA InitRemains == Init => Remains
BY AccountAssumption DEF Init, Remains

SoundInv == Shape /\ Amounts /\ Remains /\ (Uncharged => Sound)

LEMMA SoundStays ==
  ASSUME SoundInv, [Next]_vars
  PROVE  SoundInv'
<1>1. Shape /\ Shape' /\ Amounts /\ Amounts' /\ Remains /\ Remains'
  BY ShapeStays, AmountsStay, RemainsStays DEF SoundInv
<1>2. ASSUME Uncharged' PROVE Sound'
  <2>1. Uncharged /\ Sound
    BY <1>1, <1>2, RemainsStays DEF SoundInv, Uncharged, Remains
  <2>2. CASE UNCHANGED vars
    BY <2>1, <2>2 DEF vars, network, account, threads, queueing, dispatcher, Sound,
      HandlersOnly, NotYet, OneOpen, LogIsThere, StopsNow, BlowsQueued, Lives
  <2> QED BY <1>1, <1>2, <2>1, <2>2, HandlerKeepsSound, OthersKeepSound
<1> QED BY <1>1, <1>2 DEF SoundInv

LEMMA SoundAlways == Spec => []SoundInv
<1>1. Init => SoundInv
  BY InitShape, InitAmounts, InitRemains, InitSound DEF SoundInv
<1> QED BY <1>1, SoundStays, PTL DEF Spec

(* Losses, reconnections and changes of level alone never end the Dispatcher, *)
(* leak the lock or end the handler of a connection that is open.             *)
THEOREM AccountSoundUntilCheckout == Spec => []SoundUntilCheckout
<1>1. SoundInv => SoundUntilCheckout
  BY DEF SoundInv, Uncharged, Sound, Lives, SoundUntilCheckout
<1> QED BY <1>1, SoundAlways, PTL

-----------------------------------------------------------------------------
(* As long as no connection is lost and nobody checks out, the first handler  *)
(* is the only one. It changes its log while the room is off the queue, the   *)
(* Dispatcher while it is on it, so that no tick is lost and none counted     *)
(* twice; what is settled moves from the log to the table in three steps.     *)
Only == logs[1]

Single ==
  /\ \A c \in Conns \ {1} : sock[c] = "none"
  /\ pc[1] \in {"new", "login", "bind", "register", "on", "enqueue"} \cup Committing
  /\ sock[1] \in {"none", "open"} /\ after[1] = "stop"
  /\ logTable \in {0, 1}
  /\ logTable = 0 <=> pc[1] \in {"new", "login", "bind"}
  /\ energyTable = None <=> pc[1] \in {"new", "login", "bind"}
  /\ obj[1] \in {0, 1}
  /\ selected \in {0, 1} /\ queued \in {0, 1}
  /\ queued = 1 <=> pc[1] = "on" /\ positive[1]
  /\ pc[1] \in Committing => positive[1]
  /\ pc[1] \in {"new", "login", "bind", "register", "enqueue"} => ~positive[1]

Charges ==
  /\ todo \in {0, selected}
  /\ dpc \notin {"charge", "write"} => todo = 0
  /\ dpc = "write" => todo = 1 /\ aim = 1 /\ got = Only.net /\ queued = 1

Money ==
  /\ energyTable = None => used = 0
  /\ pc[1] \in {"enqueue", "commit", "sum", "store", "zero"} \/ queued = 1
       => Only.energy = Only.net * Rate(Only.level)
  /\ energyTable # None /\ pc[1] # "zero" => energyTable + Only.energy = used
  /\ pc[1] = "store" => sum[1] = used
  /\ pc[1] = "zero" => energyTable = used
  /\ ~positive[1] \/ pc[1] = "insert" => Only.energy = 0

Ledger == Single /\ Charges /\ Money

(* The fields of a log after the updates there are.                           *)
LEMMA UpdatedFields ==
  ASSUME NEW log \in Log
  PROVE  /\ Updated(log).energy = log.net * Rate(log.level)
         /\ Updated(log).net = log.net /\ Updated(log).level = log.level
         /\ Updated(log).start = log.start
BY DEF Updated, Log

LEMMA RenewedFields ==
  ASSUME NEW log \in Log, NEW level \in Levels, NEW second \in Nat
  PROVE  /\ Renewed(log, level, second).energy = 0
         /\ Renewed(log, level, second).net = 0
         /\ Renewed(log, level, second).level = level
         /\ Renewed(log, level, second).start = second
<1> DEFINE new == [log EXCEPT !.level = level, !.start = second, !.net = 0]
<1>1. new \in Log /\ new.net = 0 /\ new.level = level /\ new.start = second
  BY DEF Log
<1>2. 0 * Rate(level) = 0
  BY RateIsNat
<1>3. /\ Updated(new).energy = 0 /\ Updated(new).net = 0
      /\ Updated(new).level = level /\ Updated(new).start = second
  <2> HIDE DEF new
  <2> QED BY <1>1, <1>2, UpdatedFields
<1> QED BY <1>3 DEF Renewed

LEMMA FirstIs == 1 \in Conns /\ 1 \in Threads /\ Threads = {0} \cup Conns
BY AccountAssumption DEF Conns, Threads, Staff

LEMMA HandlerKeepsLedger ==
  ASSUME Shape, Amounts, Amounts', Sound, Ledger, Undisturbed, Undisturbed',
         NEW c \in Conns, Connect(c) \/ Drop(c) \/ Handler(c)
  PROVE  Ledger'
<1> USE FirstIs, ThreadsAre
    DEF Shape, Single, Charges, Money, Ledger, Goto, network, account, threads,
        queueing, dispatcher, Committing, None
<1>1. CASE Connect(c)
  <2>1. c = 1
    BY <1>1, AccountAssumption DEF Connect, Conns
  <2> QED BY <1>1, <2>1 DEF Connect, Only, Sound, NotYet
<1>2. CASE Drop(c)
  <2>1. left'.drops # left.drops
    BY <1>2 DEF Drop, Counters
  <2> QED BY <2>1 DEF Undisturbed
<1>3. SUFFICES ASSUME c = 1 PROVE Ledger'
  <2>1. Handler(c) => pc[c] # "new"
    BY DEF Handler, Login, BindLog, Register, ReadFails, LoopEnds, Start, ChangeLevel,
           Enqueue, Stop, Renew, Forget
  <2>2. c # 1 => pc[c] = "new"
    BY DEF Sound, NotYet
  <2> QED BY <1>1, <1>2, <2>1, <2>2
<1>4. CASE Login(c) \/ Register(c)
  BY <1>3, <1>4 DEF Login, Register, Only
<1>5. CASE BindLog(c)
  <2>1. Only'.energy = Only.energy
    BY <1>3, <1>5 DEF BindLog, Only, Amounts, Log
  <2> QED BY <1>3, <1>5, <2>1 DEF BindLog
<1>6. CASE ReadFails(c) \/ LoopEnds(c)
  BY <1>3, <1>6 DEF ReadFails, LoopEnds
<1>7. ASSUME NEW level \in Levels, Start(c, level)
      PROVE  Ledger'
  <2>1. logTable = 1 /\ queued = 0 /\ pc[1] = "on"
    BY <1>3, <1>7 DEF Start, Starts
  <2>2. now' \in Nat /\ Only' = Renewed(Only, level, now')
    BY <1>3, <1>7, <2>1 DEF Start, NewLog, Only, Amounts
  <2>3. Only'.energy = 0 /\ Only'.net = 0
    BY <2>2, RenewedFields DEF Amounts, Only
  <2>4. Only'.energy = Only'.net * Rate(Only'.level)
    BY <2>3, RateIsNat
  <2>5. Only.energy \in Nat /\ energyTable \in Nat /\ used \in Nat
    BY <2>1 DEF Amounts, Only, Log
  <2>8. Only.energy = 0 /\ energyTable = used
    BY <1>3, <1>7, <2>1, <2>5 DEF Start, Starts
  <2>6. Single' /\ Charges'
    BY <1>3, <1>7, <2>1 DEF Start
  <2>7. Money'
    BY <1>3, <1>7, <2>1, <2>3, <2>4, <2>8 DEF Start
  <2> QED BY <2>6, <2>7
<1>8. ASSUME NEW level \in Levels, ChangeLevel(c, level)
      PROVE  Ledger'
  <2>1. left'.changes # left.changes
    BY <1>8 DEF ChangeLevel, Counters
  <2> QED BY <2>1 DEF Undisturbed
<1>9. CASE Enqueue(c)
  BY <1>3, <1>9 DEF Enqueue, Unlocked, Only
<1>10. CASE Stop(c)
  BY <1>3, <1>10 DEF Stop, Unlocked, Only
<1>11. CASE Renew(c) \/ Forget(c)
  BY <1>3, <1>11 DEF Renew, Forget
<1> QED BY <1>1, <1>2, <1>4, <1>5, <1>6, <1>7, <1>8, <1>9, <1>10, <1>11 DEF Handler

LEMMA CommitKeepsLedger ==
  ASSUME Shape, Amounts, Amounts', Sound, Ledger, NEW t \in Threads, Commit(t)
  PROVE  Ledger'
<1> USE FirstIs, ThreadsAre
    DEF Shape, Single, Charges, Money, Ledger, Goto, GiveUp, network, account, threads,
        queueing, dispatcher, Committing, None
<1>1. t = 1
  BY DEF Commit, CommitUpdate, CommitSum, CommitStore, CommitZero, CommitInsert,
         Sound, HandlersOnly, NotYet, Staff
<1>2. CASE CommitUpdate(t)
  <2>1. Only' = Updated(Only)
    BY <1>1, <1>2 DEF CommitUpdate, Only, Amounts
  <2>2. Only'.energy = Only.energy /\ Only'.net = Only.net /\ Only'.level = Only.level
    BY <1>1, <1>2, <2>1, UpdatedFields DEF CommitUpdate, Only, Amounts
  <2>3. Single' /\ Charges'
    BY <1>1, <1>2, <2>2 DEF CommitUpdate, Amounts
  <2>4. Only'.net * Rate(Only'.level) = Only.net * Rate(Only.level)
    BY <2>2
  <2>5. pc[1] = "commit" /\ pc'[1] = "sum" /\ positive[1]
    BY <1>1, <1>2 DEF CommitUpdate
  <2>6. UNCHANGED <<energyTable, used, queued, positive, sum>>
    BY <1>2 DEF CommitUpdate
  <2>7. Money'
    BY <2>2, <2>4, <2>5, <2>6
  <2> QED BY <2>3, <2>7
<1>3. CASE CommitSum(t)
  <2>1. obj[1] = 1
    BY <1>1, <1>3 DEF CommitSum, Amounts
  <2>2. Total(1) = energyTable + Only.energy
    BY <2>1 DEF Total, Only
  <2>3. sum'[1] = used
    BY <1>1, <1>3, <2>2 DEF CommitSum, Amounts
  <2> QED BY <1>1, <1>3, <2>3 DEF CommitSum, Only
<1>4. CASE CommitStore(t)
  BY <1>1, <1>4 DEF CommitStore, Only, Amounts
<1>5. CASE CommitZero(t)
  <2>1. obj[1] = 1
    BY <1>1, <1>5 DEF CommitZero, Amounts
  <2>2. Only' = [Only EXCEPT !.energy = 0]
    BY <1>1, <1>5, <2>1 DEF CommitZero, Only, Amounts
  <2>3. Only'.energy = 0
    BY <2>2 DEF Amounts, Log, Only
  <2> QED BY <1>1, <1>5, <2>3 DEF CommitZero, Amounts
<1>6. CASE CommitInsert(t)
  <2>1. pc'[1] = "on" /\ ~positive'[1] /\ after'[1] = "stop" /\ logTable' = logTable
    BY <1>1, <1>6 DEF CommitInsert
  <2> QED BY <1>1, <1>6, <2>1 DEF CommitInsert, Only, Amounts
<1> QED BY <1>2, <1>3, <1>4, <1>5, <1>6 DEF Commit

LEMMA DispatcherKeepsLedger ==
  ASSUME Shape, Amounts, Amounts', Sound, Ledger,
         Reschedule \/ FareDue \/ Tell \/ Charge \/ WriteBack
  PROVE  Ledger'
<1> USE FirstIs, ThreadsAre
    DEF Shape, Single, Charges, Money, Ledger, network, account, threads, queueing,
        dispatcher, Committing, None
<1>1. CASE Reschedule
  BY <1>1 DEF Reschedule, Only
<1>2. CASE FareDue
  BY <1>2 DEF FareDue, Only
<1>3. CASE Tell
  BY <1>3 DEF Tell, Only
<1>4. CASE Charge
  BY <1>4 DEF Charge, Only, Amounts
<1>5. CASE WriteBack
  <2>1. dpc = "write" /\ aim = 1 /\ logTable = 1 /\ got = Only.net /\ queued = 1
        /\ todo = 1 /\ selected = 1
    BY <1>5 DEF WriteBack
  <2>2. Only' = Updated(Counted(Only))
    BY <1>5, <2>1 DEF WriteBack, Only
  <2>3. Only.net \in Nat /\ Only \in Log
    BY DEF Only, Amounts, Log
  <2>4. /\ Counted(Only) \in Log /\ Counted(Only).net = Only.net + 1
        /\ Counted(Only).level = Only.level
    BY <2>1, <2>3 DEF Counted, Log
  <2>5. /\ Only'.net = Only.net + 1 /\ Only'.level = Only.level
        /\ Only'.energy = (Only.net + 1) * Rate(Only.level)
    BY <2>2, <2>4, UpdatedFields
  <2>6. (Only.net + 1) * Rate(Only.level) = Only.net * Rate(Only.level) + Rate(Only.level)
    BY <2>3, RateIsNat
  <2>7. used' = used + Rate(Only.level)
    BY <1>5, <2>1 DEF WriteBack, Only
  <2>8. Only'.energy = Only.energy + Rate(Only.level)
    BY <2>1, <2>5, <2>6
  <2>9. energyTable + Only.energy = used /\ energyTable \in Nat /\ Only.energy \in Nat
        /\ Rate(Only.level) \in Nat
    BY <2>1, RateIsNat DEF Amounts, Only, Log
  <2>10. Money'
    BY <1>5, <2>1, <2>5, <2>7, <2>8, <2>9 DEF WriteBack
  <2> QED BY <1>5, <2>1, <2>10 DEF WriteBack
<1> QED BY <1>1, <1>2, <1>3, <1>4, <1>5

AccountInv == SoundInv /\ (Undisturbed => Ledger)

LEMMA OnlyTheseStep ==
  ASSUME Shape, Sound, Next, Undisturbed, Undisturbed'
  PROVE  \/ \E c \in Conns : Connect(c) \/ Drop(c) \/ Handler(c)
         \/ \E t \in Threads : Commit(t)
         \/ Reschedule \/ FareDue \/ Tell \/ Charge \/ WriteBack
<1>1. ASSUME NEW t \in Threads, RemoveClient(t)
      PROVE  FALSE
  BY <1>1, ThreadsAre DEF RemoveClient, Sound, HandlersOnly, Threads
<1>2. ~(CheckOut \/ CheckOutAbsent)
  <2>1. CheckOut \/ CheckOutAbsent => left'.checkouts = left.checkouts - 1
    BY DEF CheckOut, CheckOutAbsent, Shape, Counters
  <2> QED BY <2>1, AccountAssumption DEF Undisturbed
<1>3. ~(CheckOutContains \/ CheckOutTest \/ CheckOutSettle)
  BY DEF Sound, HandlersOnly, CheckOutContains, CheckOutTest, CheckOutSettle
<1> QED BY <1>1, <1>2, <1>3 DEF Next

LEMMA LedgerStays ==
  ASSUME AccountInv, [Next]_vars
  PROVE  AccountInv'
<1>1. SoundInv /\ SoundInv'
  BY SoundStays DEF AccountInv
<1>2. ASSUME Undisturbed' PROVE Ledger'
  <2>1. Undisturbed
    BY <1>1, <1>2, RemainsStays DEF SoundInv, Remains, Undisturbed
  <2>2. Shape /\ Amounts /\ Amounts' /\ Sound /\ Ledger
    BY <1>1, <2>1 DEF SoundInv, AccountInv, Undisturbed, Uncharged
  <2>3. CASE UNCHANGED vars
    BY <2>2, <2>3 DEF vars, network, account, threads, queueing, dispatcher, Ledger,
      Single, Charges, Money, Only
  <2>4. CASE Next
    BY <1>2, <2>1, <2>2, <2>4, OnlyTheseStep, HandlerKeepsLedger, CommitKeepsLedger,
       DispatcherKeepsLedger
  <2> QED BY <2>3, <2>4
<1> QED BY <1>1, <1>2 DEF AccountInv

LEMMA AccountInit == Init => AccountInv
<1>1. Init => Ledger
  <2> SUFFICES ASSUME Init PROVE Ledger
    OBVIOUS
  <2>1. 0 = 0 * Rate(0)
    BY RateIsNat
  <2> QED BY <2>1, FirstIs
    DEF Init, Ledger, Single, Charges, Money, Only, Committing, Staff
<1>2. Init => SoundInv
  BY InitShape, InitAmounts, InitRemains, InitSound DEF SoundInv
<1> QED BY <1>1, <1>2 DEF AccountInv

LEMMA AccountAlways == Spec => []AccountInv
BY AccountInit, LedgerStays, PTL DEF Spec

(* Every tick the room has blown is charged once, at the rate it blew, in     *)
(* whatever order starts, stops and ticks come: the lock on the queue alone   *)
(* keeps the commit of a stop apart from the ticks.                           *)
THEOREM AccountConserved == Spec => []Conserved
<1>1. AccountInv => Conserved
  <2> SUFFICES ASSUME AccountInv, Undisturbed, Quiet, energyTable # None, logTable # 0
               PROVE  Owed = used
    BY DEF Conserved
  <2>1. Ledger /\ logTable = 1 /\ pc[1] # "zero"
    BY FirstIs DEF AccountInv, Ledger, Single, Quiet
  <2> QED BY <2>1 DEF Ledger, Money, Owed, Only
<1> QED BY <1>1, AccountAlways, PTL

(* The fare the page is shown is for what the room has used, also while a     *)
(* stop is being settled, unless the energy moves between the two reads.      *)
THEOREM AccountFareIsForUse == Spec => []FareIsForUse
<1>1. AccountInv => FareIsForUse
  <2> SUFFICES ASSUME AccountInv, Undisturbed, logTable # 0, got # None,
                      got = energyTable, \A t \in Threads : pc[t] # "zero"
               PROVE  Shown = used
    BY DEF FareIsForUse
  <2>1. Ledger /\ logTable = 1 /\ pc[1] # "zero"
    BY FirstIs DEF AccountInv, Ledger, Single
  <2> QED BY <2>1 DEF Ledger, Money, Shown, Only
<1> QED BY <1>1, AccountAlways, PTL

-----------------------------------------------------------------------------
(* The sum over the rows is a fold, which takes them in an order of its own.  *)
(* It is a function of the set of rows: that there is such a function, that   *)
(* one of a larger set agrees with it and that the order does not matter are  *)
(* shown by the absence of a smallest set of rows for which it fails.         *)
Worth(row) == row.net * Rate(row.level)

(* The value of g at s, if g adds up the rows of every set.                   *)
Adds(g, s) ==
  IF s = {} THEN 0
  ELSE Worth(CHOOSE x \in s : TRUE) + g[s \ {CHOOSE x \in s : TRUE}]

Adding(S) == CHOOSE g : g = [s \in SUBSET S |-> Adds(g, s)]

Recorded(S) == Adding(S)[S]

LEMMA EnergyIsRecorded == RecordedEnergy = Recorded(records)
BY DEF RecordedEnergy, MapThenSumSet, MapThenFoldSet, Recorded, Adding, Adds, Worth

(* Among finite sets there is one with no smaller one.                        *)
LEMMA SmallestSet ==
  ASSUME NEW S, IsFiniteSet(S), NEW F, F \subseteq SUBSET S, F # {}
  PROVE  \E T \in F : \A U \in F : U \subseteq T => U = T
<1>1. IsWellFoundedOn(StrictSubsetOrdering(S), SUBSET S)
  BY FS_StrictSubsetOrderingWellFounded, FS_FiniteSubsetsOfFinite
<1>2. PICK T \in F : \A U \in F : <<U, T>> \notin StrictSubsetOrdering(S)
  BY <1>1, WFMin
<1> QED BY <1>2 DEF StrictSubsetOrdering

LEMMA TotalsPerRecord ==
  ASSUME NEW A, NEW g, g = [s \in SUBSET A |-> Adds(g, s)]
  PROVE  \A s \in SUBSET A : g[s] = Adds(g, s)
<1> DEFINE h == [s \in SUBSET A |-> Adds(g, s)]
<1>1. \A s \in SUBSET A : h[s] = Adds(g, s)
  OBVIOUS
<1>2. g = h
  OBVIOUS
<1> HIDE DEF h
<1> QED BY <1>1, <1>2

Complete(S) == \A s \in SUBSET S : Adding(S)[s] = Adds(Adding(S), s)

LEMMA Agree ==
  ASSUME NEW A, NEW S \in SUBSET A, IsFiniteSet(S), Complete(A), Complete(S)
  PROVE  Adding(A)[S] = Adding(S)[S]
<1> DEFINE F == {s \in SUBSET S : Adding(A)[s] # Adding(S)[s]}
<1>1. SUFFICES ASSUME F # {} PROVE FALSE
  OBVIOUS
<1>2. PICK T \in F : \A U \in F : U \subseteq T => U = T
  <2>1. F \subseteq SUBSET S
    OBVIOUS
  <2> HIDE DEF F
  <2> QED BY <1>1, <2>1, SmallestSet
<1>3. Adding(A)[T] = Adds(Adding(A), T) /\ Adding(S)[T] = Adds(Adding(S), T)
  BY DEF Complete
<1>4. T # {}
  BY <1>3 DEF Adds
<1> DEFINE x == CHOOSE x \in T : TRUE
<1>5. x \in T
  BY <1>4
<1>6. Adding(A)[T \ {x}] = Adding(S)[T \ {x}]
  BY <1>2, <1>5
<1>7. Adding(A)[T] = Adding(S)[T]
  BY <1>3, <1>4, <1>6 DEF Adds
<1> QED BY <1>7

LEMMA AddingAdds ==
  ASSUME NEW S, IsFiniteSet(S)
  PROVE  Complete(S)
<1> DEFINE F == {s \in SUBSET S : ~Complete(s)}
<1>1. SUFFICES F = {}
  OBVIOUS
<1>2. SUFFICES ASSUME F # {} PROVE FALSE
  OBVIOUS
<1>3. PICK T \in F : \A U \in F : U \subseteq T => U = T
  <2>1. F \subseteq SUBSET S
    OBVIOUS
  <2> HIDE DEF F
  <2> QED BY <1>2, <2>1, SmallestSet
<1> DEFINE f == [s \in SUBSET T |->
             IF s = {} THEN 0
             ELSE Worth(CHOOSE x \in s : TRUE)
                    + Recorded(s \ {CHOOSE x \in s : TRUE})]
<1>4. ASSUME NEW s \in SUBSET T, s # T
      PROVE  Complete(s) /\ IsFiniteSet(s)
  BY <1>3, <1>4, FS_Subset
<1>5. ASSUME NEW s \in SUBSET T, s # T
      PROVE  f[s] = Recorded(s)
  <2>1. Recorded(s) = Adds(Adding(s), s)
    BY <1>4, <1>5 DEF Recorded, Complete
  <2>2. CASE s = {}
    BY <2>1, <2>2 DEF Adds
  <2>3. CASE s # {}
    <3> DEFINE x == CHOOSE x \in s : TRUE
               r == s \ {x}
    <3>1. x \in s /\ r \in SUBSET T /\ r # T /\ r \in SUBSET s
      BY <2>3
    <3>2. Adding(s)[r] = Adding(r)[r]
      <4> HIDE DEF r
      <4> QED BY <3>1, <1>4, <1>5, Agree
    <3> QED BY <2>1, <2>3, <3>2 DEF Adds, Recorded
  <2> QED BY <2>2, <2>3
<1>6. f = [s \in SUBSET T |-> Adds(f, s)]
  <2>1. ASSUME NEW s \in SUBSET T
        PROVE  f[s] = Adds(f, s)
    <3>1. CASE s = {}
      BY <3>1 DEF Adds
    <3>2. CASE s # {}
      <4> DEFINE x == CHOOSE x \in s : TRUE
      <4>1. x \in s
        BY <3>2
      <4>2. f[s \ {x}] = Recorded(s \ {x})
        <5> HIDE DEF f
        <5> QED BY <4>1, <1>5
      <4> QED BY <3>2, <4>2 DEF Adds
    <3> QED BY <3>1, <3>2
  <2> QED BY <2>1
<1>7. Complete(T)
  <2>1. Adding(T) = [s \in SUBSET T |-> Adds(Adding(T), s)]
    <3> HIDE DEF f
    <3> QED BY <1>6 DEF Adding
  <2> QED BY <2>1, TotalsPerRecord DEF Complete
<1> QED BY <1>7

(* What a fold adds up: one row, it does not matter which, and the others.    *)
LEMMA RecordedOfChosen ==
  ASSUME NEW S, IsFiniteSet(S)
  PROVE  /\ Recorded({}) = 0
         /\ S # {} => Recorded(S) = Worth(CHOOSE x \in S : TRUE)
                                    + Recorded(S \ {CHOOSE x \in S : TRUE})
<1>1. Recorded({}) = 0
  <2>1. Complete({})
    BY AddingAdds, FS_EmptySet
  <2> QED BY <2>1 DEF Recorded, Complete, Adds
<1>2. ASSUME S # {}
      PROVE  Recorded(S) = Worth(CHOOSE x \in S : TRUE)
                           + Recorded(S \ {CHOOSE x \in S : TRUE})
  <2> DEFINE r == S \ {CHOOSE x \in S : TRUE}
  <2>1. Recorded(S) = Adds(Adding(S), S)
    BY AddingAdds DEF Recorded, Complete
  <2>2. IsFiniteSet(r) /\ r \in SUBSET S
    BY FS_Subset
  <2>3. Adding(S)[r] = Adding(r)[r]
    <3> HIDE DEF r
    <3> QED BY <2>2, AddingAdds, Agree
  <2> QED BY <1>2, <2>1, <2>3 DEF Adds, Recorded
<1> QED BY <1>1, <1>2

LEMMA RecordedIsNat ==
  ASSUME NEW S, IsFiniteSet(S), \A x \in S : Worth(x) \in Nat
  PROVE  \A s \in SUBSET S : Recorded(s) \in Nat
<1> DEFINE F == {s \in SUBSET S : Recorded(s) \notin Nat}
<1>1. SUFFICES ASSUME F # {} PROVE FALSE
  OBVIOUS
<1>2. PICK T \in F : \A U \in F : U \subseteq T => U = T
  <2>1. F \subseteq SUBSET S
    OBVIOUS
  <2> HIDE DEF F
  <2> QED BY <1>1, <2>1, SmallestSet
<1> DEFINE x == CHOOSE x \in T : TRUE
<1>3. IsFiniteSet(T)
  BY FS_Subset
<1>4. T # {} /\ x \in T
  <2>1. Recorded({}) = 0 /\ Recorded(T) \notin Nat
    BY <1>3, RecordedOfChosen
  <2>2. T # {}
    BY <2>1
  <2> QED BY <2>2
<1>5. Recorded(T \ {x}) \in Nat
  BY <1>2, <1>4
<1>6. Recorded(T) = Worth(x) + Recorded(T \ {x})
  BY <1>3, <1>4, RecordedOfChosen
<1> HIDE DEF x
<1> QED BY <1>4, <1>5, <1>6

LEMMA RecordedOfAny ==
  ASSUME NEW S, IsFiniteSet(S), \A x \in S : Worth(x) \in Nat
  PROVE  \A s \in SUBSET S : \A y \in s : Recorded(s) = Worth(y) + Recorded(s \ {y})
<1> DEFINE F == {s \in SUBSET S : \E y \in s : Recorded(s) # Worth(y) + Recorded(s \ {y})}
<1>1. SUFFICES ASSUME F # {} PROVE FALSE
  OBVIOUS
<1>2. PICK T \in F : \A U \in F : U \subseteq T => U = T
  <2>1. F \subseteq SUBSET S
    OBVIOUS
  <2> HIDE DEF F
  <2> QED BY <1>1, <2>1, SmallestSet
<1>3. PICK y \in T : Recorded(T) # Worth(y) + Recorded(T \ {y})
  OBVIOUS
<1> DEFINE x == CHOOSE x \in T : TRUE
<1>4. IsFiniteSet(T) /\ x \in T
  BY FS_Subset
<1>5. Recorded(T) = Worth(x) + Recorded(T \ {x})
  BY <1>4, RecordedOfChosen
<1>6. x # y
  BY <1>3, <1>5
<1>7. /\ Recorded(T \ {x}) = Worth(y) + Recorded((T \ {x}) \ {y})
      /\ Recorded(T \ {y}) = Worth(x) + Recorded((T \ {y}) \ {x})
  <2>1. T \ {x} \notin F /\ T \ {y} \notin F
    BY <1>2, <1>4
  <2>2. /\ T \ {x} \in SUBSET S /\ T \ {y} \in SUBSET S
        /\ y \in T \ {x} /\ x \in T \ {y}
    BY <1>4, <1>6
  <2> HIDE DEF x
  <2> QED BY <2>1, <2>2
<1>8. (T \ {x}) \ {y} = (T \ {y}) \ {x}
  OBVIOUS
<1>9. Recorded((T \ {x}) \ {y}) \in Nat /\ Worth(x) \in Nat /\ Worth(y) \in Nat
  BY <1>4, RecordedIsNat
<1>10. Recorded((T \ {x}) \ {y}) = Recorded((T \ {y}) \ {x})
  BY <1>8
<1> HIDE DEF x
<1> QED BY <1>3, <1>5, <1>7, <1>9, <1>10

LEMMA RecordedGrows ==
  ASSUME NEW S, IsFiniteSet(S), NEW row, row \notin S,
         \A x \in S \cup {row} : Worth(x) \in Nat
  PROVE  Recorded(S \cup {row}) = Recorded(S) + Worth(row)
<1>1. IsFiniteSet(S \cup {row})
  BY FS_AddElement
<1>2. Recorded(S \cup {row}) = Worth(row) + Recorded((S \cup {row}) \ {row})
  BY <1>1, RecordedOfAny
<1>3. (S \cup {row}) \ {row} = S
  OBVIOUS
<1>4. Recorded(S) \in Nat /\ Worth(row) \in Nat
  BY RecordedIsNat
<1>5. Recorded((S \cup {row}) \ {row}) = Recorded(S)
  BY <1>3
<1> QED BY <1>2, <1>4, <1>5

-----------------------------------------------------------------------------
(* What the rows account for. A start takes a second of its own, so that the  *)
(* row of its log is a new one.                                               *)
Unrecorded == positive[1] \/ pc[1] = "enqueue"

Rows ==
  /\ IsFiniteSet(records)
  /\ Only.start <= now /\ \A row \in records : row.start <= now
  /\ Unrecorded => \A row \in records : row.start # Only.start
  /\ Unrecorded => Recorded(records) + Worth(Only) = used
  /\ ~Unrecorded => Recorded(records) = used

LEMMA WorthIsNat == \A row \in Log : Worth(row) \in Nat
<1> TAKE row \in Log
<1>1. row.net \in Nat
  BY DEF Log
<1> QED BY <1>1, RateIsNat DEF Worth

LEMMA HandlerKeepsRows ==
  ASSUME Shape, Amounts, Amounts', Sound, Ledger, Rows, ~Hasty, Undisturbed, Undisturbed',
         NEW c \in Conns, Connect(c) \/ Drop(c) \/ Handler(c)
  PROVE  Rows'
<1> USE FirstIs, ThreadsAre
    DEF Shape, Single, Ledger, Goto, Rows, Unrecorded, network, account, threads,
        queueing, dispatcher, Committing, None
<1>1. CASE Connect(c) \/ Drop(c)
  <2>1. Unrecorded' <=> Unrecorded
    BY <1>1 DEF Connect, Drop, Sound, NotYet
  <2>2. UNCHANGED <<records, logs, used, now>>
    BY <1>1 DEF Connect, Drop
  <2> HIDE DEF Unrecorded
  <2> QED BY <2>1, <2>2 DEF Only
<1>2. SUFFICES ASSUME c = 1 PROVE Rows'
  <2>1. Handler(c) => pc[c] # "new"
    BY DEF Handler, Login, BindLog, Register, ReadFails, LoopEnds, Start, ChangeLevel,
           Enqueue, Stop, Renew, Forget
  <2>2. c # 1 => pc[c] = "new"
    BY DEF Sound, NotYet
  <2> QED BY <1>1, <2>1, <2>2
<1>3. CASE Login(c) \/ Register(c) \/ ReadFails(c) \/ LoopEnds(c)
  BY <1>2, <1>3 DEF Login, Register, ReadFails, LoopEnds, Only
<1>4. CASE BindLog(c)
  <2>1. now' = now + 1 /\ Only'.start = now' /\ now \in Nat
    BY <1>2, <1>4 DEF BindLog, Clock, Only, Amounts, Log
  <2>2. \A row \in records : row.start \in Nat
    BY DEF Amounts, Log
  <2>3. ~Unrecorded /\ ~Unrecorded' /\ UNCHANGED <<records, used>>
    BY <1>2, <1>4 DEF BindLog
  <2> QED BY <2>1, <2>2, <2>3
<1>5. ASSUME NEW level \in Levels, Start(c, level)
      PROVE  Rows'
  <2>1. logTable = 1 /\ pc[1] = "on" /\ ~positive[1]
    BY <1>2, <1>5 DEF Start, Starts
  <2>2. now' = now + 1 /\ now \in Nat /\ Only' = Renewed(Only, level, now')
    BY <1>2, <1>5, <2>1 DEF Start, NewLog, Clock, Only, Amounts
  <2>3. Only'.net = 0 /\ Only'.start = now'
    BY <2>2, RenewedFields DEF Amounts, Only
  <2>4. Worth(Only') = 0
    BY <2>3, RateIsNat DEF Worth
  <2>5. \A row \in records : row.start \in Nat
    BY DEF Amounts, Log
  <2>6. UNCHANGED <<records, used>> /\ ~Unrecorded /\ Unrecorded'
    BY <1>2, <1>5, <2>1 DEF Start
  <2>7. Recorded(records) \in Nat
    BY WorthIsNat, RecordedIsNat DEF Amounts
  <2> QED BY <2>2, <2>3, <2>4, <2>5, <2>6, <2>7
<1>6. ASSUME NEW level \in Levels, ChangeLevel(c, level)
      PROVE  Rows'
  <2>1. left'.changes # left.changes
    BY <1>6 DEF ChangeLevel, Counters
  <2> QED BY <2>1 DEF Undisturbed
<1>7. CASE Enqueue(c)
  BY <1>2, <1>7 DEF Enqueue, Only
<1>8. CASE Stop(c)
  BY <1>2, <1>8 DEF Stop, Only
<1>9. CASE Renew(c) \/ Forget(c)
  BY <1>2, <1>9 DEF Renew, Forget
<1> QED BY <1>1, <1>3, <1>4, <1>5, <1>6, <1>7, <1>8, <1>9 DEF Handler

LEMMA CommitKeepsRows ==
  ASSUME Shape, Amounts, Amounts', Sound, Ledger, Rows, NEW t \in Threads, Commit(t)
  PROVE  Rows'
<1> USE FirstIs, ThreadsAre
    DEF Shape, Single, Ledger, Goto, GiveUp, Rows, Unrecorded, network, account, threads,
        queueing, dispatcher, Committing, None
<1>1. t = 1
  BY DEF Commit, CommitUpdate, CommitSum, CommitStore, CommitZero, CommitInsert,
         Sound, HandlersOnly, NotYet, Staff
<1>2. ASSUME UNCHANGED <<records, used, now>>, Unrecorded, Unrecorded',
             Only'.start = Only.start, Worth(Only') = Worth(Only)
      PROVE  Rows'
  BY <1>2
<1>3. CASE CommitUpdate(t)
  <2>1. Only' = Updated(Only) /\ Only \in Log
    BY <1>1, <1>3 DEF CommitUpdate, Only, Amounts
  <2>2. Only'.start = Only.start /\ Only'.net = Only.net /\ Only'.level = Only.level
    BY <2>1 DEF Updated, Log
  <2> QED BY <1>1, <1>2, <1>3, <2>2 DEF CommitUpdate, Worth
<1>4. CASE CommitSum(t) \/ CommitStore(t)
  BY <1>1, <1>2, <1>4 DEF CommitSum, CommitStore, Only
<1>5. CASE CommitZero(t)
  <2>1. obj[1] = 1
    BY <1>1, <1>5 DEF CommitZero, Amounts
  <2>2. Only' = [Only EXCEPT !.energy = 0] /\ Only \in Log
    BY <1>1, <1>5, <2>1 DEF CommitZero, Only, Amounts
  <2>3. Only'.start = Only.start /\ Only'.net = Only.net /\ Only'.level = Only.level
    BY <2>2 DEF Log
  <2> QED BY <1>1, <1>2, <1>5, <2>3 DEF CommitZero, Worth
<1>6. CASE CommitInsert(t)
  <2>1. obj[1] = 1 /\ Unrecorded /\ ~Unrecorded' /\ UNCHANGED <<used, now>> /\ Only' = Only
    BY <1>1, <1>6 DEF CommitInsert, Only, Amounts
  <2>2. Insert(Only)
    BY <1>1, <1>6, <2>1 DEF CommitInsert, Only
  <2>3. records' = records \cup {Only} /\ Only \notin records
    BY <2>1, <2>2 DEF Insert
  <2>4. IsFiniteSet(records')
    BY <2>3, FS_AddElement
  <2>5. Recorded(records') = Recorded(records) + Worth(Only)
    <3>1. \A row \in records \cup {Only} : Worth(row) \in Nat
      BY WorthIsNat DEF Amounts, Only
    <3> QED BY <2>3, <3>1, RecordedGrows
  <2> QED BY <2>1, <2>3, <2>4, <2>5
<1> QED BY <1>3, <1>4, <1>5, <1>6 DEF Commit

LEMMA DispatcherKeepsRows ==
  ASSUME Shape, Amounts, Amounts', Sound, Ledger, Rows,
         Reschedule \/ FareDue \/ Tell \/ Charge \/ WriteBack
  PROVE  Rows'
<1> USE FirstIs, ThreadsAre
    DEF Shape, Single, Ledger, Rows, Unrecorded, network, account, threads, queueing,
        dispatcher, Committing, None
<1>1. CASE Reschedule \/ Tell \/ Charge
  BY <1>1 DEF Reschedule, Tell, Charge, Only
<1>2. CASE FareDue
  <2>1. now' = now + 1 /\ now \in Nat /\ UNCHANGED <<records, used, logs, positive, pc>>
    BY <1>2 DEF FareDue, Amounts
  <2>2. Only' = Only /\ Only.start \in Nat /\ \A row \in records : row.start \in Nat
    BY <2>1 DEF Amounts, Only, Log
  <2> QED BY <2>1, <2>2
<1>3. CASE WriteBack
  <2>1. aim = 1 /\ logTable = 1 /\ got = Only.net /\ positive[1] /\ todo = 1 /\ selected = 1
    BY <1>3 DEF WriteBack, Charges
  <2>2. Only' = Updated(Counted(Only))
    BY <1>3, <2>1 DEF WriteBack, Only
  <2>3. Only.net \in Nat /\ Only \in Log
    BY DEF Only, Amounts, Log
  <2>4. /\ Only'.net = Only.net + 1 /\ Only'.level = Only.level
        /\ Only'.start = Only.start
    BY <2>1, <2>2, <2>3 DEF Counted, Updated, Log
  <2>5. Worth(Only') = Worth(Only) + Rate(Only.level)
    <3>1. (Only.net + 1) * Rate(Only.level) = Only.net * Rate(Only.level) + Rate(Only.level)
      BY <2>3, RateIsNat
    <3> QED BY <2>4, <3>1 DEF Worth
  <2>6. used' = used + Rate(Only.level)
    BY <1>3, <2>1 DEF WriteBack, Only
  <2>7. UNCHANGED <<records, now, positive, pc>>
    BY <1>3 DEF WriteBack
  <2>8. Recorded(records) \in Nat /\ Worth(Only) \in Nat /\ Rate(Only.level) \in Nat
    BY <2>3, WorthIsNat, RecordedIsNat, RateIsNat DEF Amounts
  <2>9. Recorded(records) + Worth(Only') = used'
    BY <2>1, <2>5, <2>6, <2>8
  <2> QED BY <2>1, <2>4, <2>7, <2>9
<1> QED BY <1>1, <1>2, <1>3

RecordsInv == AccountInv /\ (Undisturbed /\ ~Hasty => Rows)

LEMMA RowsStay ==
  ASSUME RecordsInv, [Next]_vars
  PROVE  RecordsInv'
<1>1. AccountInv /\ AccountInv' /\ SoundInv /\ SoundInv'
  BY LedgerStays DEF RecordsInv, AccountInv
<1>2. ASSUME Undisturbed', ~Hasty PROVE Rows'
  <2>1. Undisturbed
    BY <1>1, <1>2, RemainsStays DEF SoundInv, Remains, Undisturbed
  <2>2. Shape /\ Amounts /\ Amounts' /\ Sound /\ Ledger /\ Rows
    BY <1>1, <1>2, <2>1 DEF SoundInv, AccountInv, RecordsInv, Undisturbed, Uncharged
  <2>3. CASE UNCHANGED vars
    BY <2>2, <2>3 DEF vars, account, threads, Rows, Unrecorded, Only
  <2>4. CASE Next
    BY <1>2, <2>1, <2>2, <2>4, OnlyTheseStep, HandlerKeepsRows, CommitKeepsRows,
       DispatcherKeepsRows
  <2> QED BY <2>3, <2>4
<1> QED BY <1>1, <1>2 DEF RecordsInv

(* The rows of the database account for everything used while the room is off *)
(* and its last stop is settled, if no two logs start in the same second.     *)
THEOREM AccountRecordsComplete == Spec => [](~Hasty => RecordsComplete)
<1>1. Init => Rows
  <2> SUFFICES ASSUME Init PROVE Rows
    OBVIOUS
  <2>1. IsFiniteSet({}) /\ Recorded({}) = 0
    BY FS_EmptySet, RecordedOfChosen
  <2> QED BY <2>1, FirstIs DEF Init, Rows, Unrecorded, Only, Staff
<1>2. Init => RecordsInv
  BY <1>1, AccountInit DEF RecordsInv
<1>3. RecordsInv => (~Hasty => RecordsComplete)
  <2> SUFFICES ASSUME RecordsInv, ~Hasty, Undisturbed,
                      \A c \in Conns : ~positive[c] /\ pc[c] # "enqueue"
               PROVE  RecordedEnergy = used
    BY DEF RecordsComplete
  <2> QED BY FirstIs, EnergyIsRecorded DEF RecordsInv, Rows, Unrecorded
<1> QED BY <1>2, <1>3, RowsStay, PTL DEF Spec
=============================================================================
