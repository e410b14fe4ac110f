----------------------------- MODULE RoomAccount ------------------------------
(* What one room is charged between its registration and its checkout: the    *)
(* log that is open for it, the energy that is settled, the rows of the       *)
(* database and the fare the terminal is shown. The handlers of the room, the *)
(* Dispatcher and the staff work on the same Log object. Only the queue is    *)
(* locked, so commitLog is one action per statement here, and so is the tick  *)
(* of the Dispatcher. Other rooms only decide whether this one is selected.   *)
EXTENDS Integers, FiniteSetsExt

CONSTANTS
  Levels,           \* fan levels in use, among 1..3
  Hasty,            \* may two logs start within a second?
  MaxConns,         \* bound: connections of the room's terminal
  MaxStarts,        \* bound: requests for start
  MaxChanges,       \* bound: requests for another level
  MaxTicks,         \* bound: fares that become due
  MaxDrops,         \* bound: connections that are lost
  MaxCheckouts      \* bound: times the staff settle the account

ASSUME AccountAssumption ==
  /\ Levels \subseteq 1..3
  /\ Hasty \in BOOLEAN
  /\ MaxConns \in Nat \ {0}
  /\ {MaxStarts, MaxChanges, MaxTicks, MaxDrops, MaxCheckouts} \subseteq Nat

Conns == 1..MaxConns
Staff == 0                     \* the event thread, beside the handlers
Threads == {Staff} \cup Conns
None == -1                     \* no entry

VARIABLES
  sock,         \* the socket of each connection, as the Center sees it
  client,       \* Server.clients: the connection of the room, 0 for no entry
  logs,         \* the Log object each login has made
  logTable,     \* Server.logTable: the connection whose Log it holds, or 0
  energyTable,  \* Server.energyTable, in tenths, or None
  records,      \* the rows of the table log
  pc,           \* where each handler and the event thread is
  positive,     \* RequestHandler.positive
  obj,          \* locals of commitLog: log, ...
  sum,          \* ... and newEnergy
  after,        \* why the thread commits: stop, level, cleanup or checkout
  want,         \* the level asked for
  queued,       \* how often the room is in Server.queue
  selected,     \* how often it is in Dispatcher.oldList
  dpc,          \* where the Dispatcher is in the section for fares
  got,          \* what it has read: an energy, or a netDuration, ...
  aim,          \* ... of this Log
  todo,         \* occurrences in oldList that it has still to charge
  lost,         \* a thread has ended with produceLock locked
  used,         \* history: the energy the room has really used
  paid,         \* history: the energy it was billed, or None
  now,          \* the second of the clock
  left          \* what remains of the bounds

network == <<sock, client>>
account == <<logs, logTable, energyTable, records>>
threads == <<pc, positive, obj, sum, after, want>>
queueing == <<queued, selected, lost>>
dispatcher == <<dpc, got, aim, todo>>
vars == <<network, account, threads, queueing, dispatcher, used, paid, now, left>>

-----------------------------------------------------------------------------
(* Log.updateEnergyAndFare. The fee is five times the energy and left out.    *)
Rate(level) == CASE level = 1 -> 8 [] level = 2 -> 10 [] OTHER -> 13

Updated(log) == [log EXCEPT !.energy = log.net * Rate(log.level)]

Log == [level : {0} \cup Levels, net : Nat, energy : Nat, start : Nat]

(* What the room has to pay so far, as broadcastFare adds it up.              *)
Owed == energyTable + logs[logTable].energy

(* The connections there have been.                                           *)
Opened == {c \in Conns : sock[c] # "none"}

RecordedEnergy == MapThenSumSet(LAMBDA row : row.net * Rate(row.level), records)

TypeOK ==
  /\ sock \in [Conns -> {"none", "open", "dropped", "closed"}]
  /\ client \in 0..MaxConns
  /\ logs \in [Conns -> Log]
  /\ logTable \in 0..MaxConns
  /\ energyTable \in Nat \cup {None}
  /\ records \subseteq Log
  /\ pc \in [Threads -> {"new", "login", "bind", "register", "on", "enqueue",
                         "remove", "commit", "sum", "store", "zero", "insert",
                         "renew", "forget", "contains", "test", "settle", "gone"}]
  /\ positive \in [Conns -> BOOLEAN]
  /\ obj \in [Threads -> 0..MaxConns]
  /\ sum \in [Threads -> Nat]
  /\ after \in [Threads -> {"stop", "level", "cleanup", "checkout"}]
  /\ want \in [Conns -> {0} \cup Levels]
  /\ queued \in 0..Cardinality(Opened)   \* once for a connection, see Starts
  /\ selected \in 0..Cardinality(Opened)
  /\ dpc \in {"idle", "tell", "charge", "write", "dead"}
  /\ got \in Nat \cup {None}
  /\ aim \in 0..MaxConns
  /\ todo \in 0..MaxConns
  /\ lost \in BOOLEAN
  /\ used \in Nat
  /\ paid \in Nat \cup {None}
  /\ now \in Nat
  /\ left \in [starts : Nat, changes : Nat, ticks : Nat, drops : Nat, checkouts : Nat]

Init ==
  /\ sock = [c \in Conns |-> "none"]
  /\ client = 0
  /\ logs = [c \in Conns |-> [level |-> 0, net |-> 0, energy |-> 0, start |-> 0]]
  /\ logTable = 0
  /\ energyTable = None
  /\ records = {}
  /\ pc = [t \in Threads |-> IF t = Staff THEN "on" ELSE "new"]
  /\ positive = [c \in Conns |-> FALSE]
  /\ obj = [t \in Threads |-> 0]
  /\ sum = [t \in Threads |-> 0]
  /\ after = [t \in Threads |-> "stop"]
  /\ want = [c \in Conns |-> 0]
  /\ queued = 0 /\ selected = 0
  /\ dpc = "idle" /\ got = 0 /\ aim = 0 /\ todo = 0
  /\ lost = FALSE
  /\ used = 0 /\ paid = None /\ now = 0
  /\ left = [starts |-> MaxStarts, changes |-> MaxChanges, ticks |-> MaxTicks,
              drops |-> MaxDrops, checkouts |-> MaxCheckouts]

Goto(t, where) == pc' = [pc EXCEPT ![t] = where]

(* The clock is read at every start of a log, in seconds.                     *)
Clock == now' \in IF Hasty THEN {now, now + 1} ELSE {now + 1}

Unlocked == dpc \in {"idle", "dead"} /\ ~lost

-----------------------------------------------------------------------------
(* The terminal, and the login of its handler (RequestHandler.run).           *)
Connect(c) ==
  /\ sock[c] = "none"
  /\ \A b \in 1..(c - 1) : sock[b] \in {"dropped", "closed"}
  /\ sock' = [sock EXCEPT ![c] = "open"]
  /\ Goto(c, "login")
  /\ UNCHANGED <<client, account, positive, obj, sum, after, want, queueing,
                 dispatcher, used, paid, now, left>>

Drop(c) ==
  /\ sock[c] = "open"
  /\ left.drops > 0
  /\ left' = [left EXCEPT !.drops = @ - 1]
  /\ sock' = [sock EXCEPT ![c] = "dropped"]
  /\ UNCHANGED <<client, account, threads, queueing, dispatcher, used, paid, now>>

(* Line 119: the room is known until it is checked out.                       *)
Login(c) ==
  /\ pc[c] = "login"
  /\ sock[c] = "open"
  /\ paid = None
  /\ Goto(c, "bind")
  /\ UNCHANGED <<network, account, positive, obj, sum, after, want, queueing,
                 dispatcher, used, paid, now, left>>

(* Lines 146-156: a new Log, whatever the table held; the energy is kept.     *)
BindLog(c) ==
  /\ pc[c] = "bind"
  /\ Clock
  /\ logs' = [logs EXCEPT ![c].start = now']
  /\ logTable' = c
  /\ energyTable' = IF energyTable = None THEN 0 ELSE energyTable
  /\ Goto(c, "register")
  /\ UNCHANGED <<network, records, positive, obj, sum, after, want, queueing,
                 dispatcher, used, paid, left>>

Register(c) ==
  /\ pc[c] = "register"
  /\ client' = c
  /\ Goto(c, "on")
  /\ UNCHANGED <<sock, account, positive, obj, sum, after, want, queueing,
                 dispatcher, used, paid, now, left>>

(* Lines 58-69: the connection is gone.                                       *)
ReadFails(c) ==
  /\ pc[c] \in {"login", "on"}
  /\ sock[c] \in {"dropped", "closed"}
  /\ Goto(c, "gone")
  /\ UNCHANGED <<network, account, positive, obj, sum, after, want, queueing,
                 dispatcher, used, paid, now, left>>

LoopEndsAnyway(c) ==               \* with the clean up for a lost connection
  /\ pc[c] = "on"
  /\ sock[c] \in {"dropped", "closed"}
  /\ after' = [after EXCEPT ![c] = "cleanup"]
  /\ Goto(c, IF queued > 0 THEN "remove" ELSE "commit")
  /\ UNCHANGED <<network, account, positive, obj, sum, want, queueing,
                 dispatcher, used, paid, now, left>>

LoopEnds(c) ==
  /\ pc[c] = "on"
  /\ sock[c] = "closed"
  /\ after' = [after EXCEPT ![c] = "cleanup"]
  /\ Goto(c, IF queued > 0 THEN "remove" ELSE "commit")
  /\ UNCHANGED <<network, account, positive, obj, sum, want, queueing,
                 dispatcher, used, paid, now, left>>

-----------------------------------------------------------------------------
(* RequestHandler.newLog: the Log in the table starts anew. The other Log     *)
(* keeps what the last one has counted.                                       *)
RenewedGoingOn(log, level, second) ==
  Updated([log EXCEPT !.level = level, !.start = second, !.energy = 0])

Renewed(log, level, second) ==
  Updated([log EXCEPT !.level = level, !.start = second, !.net = 0])

NewLog(level) ==
  /\ Clock
  /\ logs' = [logs EXCEPT ![logTable] = Renewed(@, level, now')]

(* RequestHandler.commitLog, lines 243-257. A missing log or energy is a null *)
(* pointer, which ends a handler, and the click of the staff.                 *)
GiveUp(t) == Goto(t, IF t = Staff THEN "on" ELSE "gone")

CommitUpdate(t) ==
  /\ pc[t] = "commit"
  /\ \/ /\ logTable # 0
        /\ obj' = [obj EXCEPT ![t] = logTable]
        /\ logs' = [logs EXCEPT ![logTable] = Updated(@)]
        /\ Goto(t, "sum")
     \/ /\ logTable = 0
        /\ GiveUp(t)
        /\ UNCHANGED <<obj, logs>>
  /\ UNCHANGED <<network, logTable, energyTable, records, positive, sum, after,
                 want, queueing, dispatcher, used, paid, now, left>>

TotalOfLog(t) == logs[obj[t]].energy

Total(t) == energyTable + logs[obj[t]].energy

CommitSum(t) ==
  /\ pc[t] = "sum"
  /\ \/ /\ energyTable # None
        /\ sum' = [sum EXCEPT ![t] = Total(t)]
        /\ Goto(t, "store")
     \/ /\ energyTable = None
        /\ GiveUp(t)
        /\ UNCHANGED sum
  /\ UNCHANGED <<network, account, positive, obj, after, want, queueing,
                 dispatcher, used, paid, now, left>>

(* ConcurrentHashMap.replace does nothing for a key that is gone.             *)
CommitStore(t) ==
  /\ pc[t] = "store"
  /\ energyTable' = IF energyTable = None THEN None ELSE sum[t]
  /\ Goto(t, "zero")
  /\ UNCHANGED <<network, logs, logTable, records, positive, obj, sum, after,
                 want, queueing, dispatcher, used, paid, now, left>>

CommitZero(t) ==
  /\ pc[t] = "zero"
  /\ logs' = [logs EXCEPT ![obj[t]].energy = 0]
  /\ Goto(t, "insert")
  /\ UNCHANGED <<network, logTable, energyTable, records, positive, obj, sum,
                 after, want, queueing, dispatcher, used, paid, now, left>>

(* The table log has room and start as its primary key, and an insertion that *)
(* fails is ignored. The staff then take the log out of the table.            *)
InsertReplacing(log) ==
  records' = {row \in records : row.start # log.start /\ row.level # log.level} \cup {log}

Insert(log) ==
  records' = IF \E row \in records : row.start = log.start
             THEN records
             ELSE records \cup {log}

CommitInsert(t) ==
  /\ pc[t] = "insert"
  /\ Insert(logs[obj[t]])
  /\ Goto(t, CASE after[t] = "stop" -> "on"
               [] after[t] = "level" -> "renew"
               [] after[t] = "cleanup" -> "forget"
               [] after[t] = "checkout" -> "settle")
  /\ positive' = IF after[t] = "stop" THEN [positive EXCEPT ![t] = FALSE]
                                      ELSE positive
  /\ obj' = [obj EXCEPT ![t] = 0]                \* out of scope
  /\ sum' = [sum EXCEPT ![t] = 0]
  /\ after' = [after EXCEPT ![t] = "stop"]
  /\ logTable' = IF after[t] = "checkout" THEN 0 ELSE logTable
  /\ UNCHANGED <<network, logs, energyTable, want, queueing, dispatcher, used,
                 paid, now, left>>

-----------------------------------------------------------------------------
(* RequestHandler.handleAC.                                                   *)
Starts(c) == ~positive[c]

Start(c, level) ==
  /\ pc[c] = "on" /\ sock[c] = "open"
  /\ Starts(c)
  /\ left.starts > 0
  /\ left' = [left EXCEPT !.starts = @ - 1]
  /\ \/ /\ logTable # 0
        /\ NewLog(level)
        /\ Goto(c, "enqueue")
     \/ /\ logTable = 0
        /\ Goto(c, "gone")
        /\ UNCHANGED <<logs, now>>
  /\ UNCHANGED <<network, logTable, energyTable, records, positive, obj, sum,
                 after, want, queueing, dispatcher, used, paid>>

Enqueue(c) ==
  /\ pc[c] = "enqueue"
  /\ Unlocked
  /\ queued' = queued + 1
  /\ positive' = [positive EXCEPT ![c] = TRUE]
  /\ Goto(c, "on")
  /\ UNCHANGED <<network, account, obj, sum, after, want, selected, lost,
                 dispatcher, used, paid, now, left>>

Stop(c) ==
  /\ pc[c] = "on" /\ sock[c] = "open"
  /\ positive[c]
  /\ Unlocked
  /\ \/ /\ queued > 0
        /\ queued' = queued - 1
        /\ after' = [after EXCEPT ![c] = "stop"]
        /\ Goto(c, "commit")
     \/ /\ queued = 0
        /\ Goto(c, "gone")
        /\ UNCHANGED <<queued, after>>
  /\ UNCHANGED <<network, account, positive, obj, sum, want, selected, lost,
                 dispatcher, used, paid, now, left>>

ChangeLevel(c, level) ==
  /\ pc[c] = "on" /\ sock[c] = "open"
  /\ positive[c]
  /\ left.changes > 0
  /\ left' = [left EXCEPT !.changes = @ - 1]
  /\ \/ /\ logTable # 0
        /\ logs[logTable].level # level
        /\ want' = [want EXCEPT ![c] = level]
        /\ after' = [after EXCEPT ![c] = "level"]
        /\ Goto(c, "commit")
     \/ /\ logTable = 0
        /\ Goto(c, "gone")
        /\ UNCHANGED <<after, want>>
  /\ UNCHANGED <<network, account, positive, obj, sum, queueing, dispatcher,
                 used, paid, now>>

Renew(c) ==
  /\ pc[c] = "renew"
  /\ \/ /\ logTable # 0
        /\ NewLog(want[c])
        /\ Goto(c, "on")
     \/ /\ logTable = 0
        /\ Goto(c, "gone")
        /\ UNCHANGED <<logs, now>>
  /\ want' = [want EXCEPT ![c] = 0]
  /\ UNCHANGED <<network, logTable, energyTable, records, positive, obj, sum,
                 after, queueing, dispatcher, used, paid, left>>

(* Server.removeClient, for a handler that cleans up and for the staff: the   *)
(* index it removes may be this room's or another's, or beyond the queue, and *)
(* then the call fails with the lock locked.                                  *)
RemoveClient(t) ==
  /\ pc[t] = "remove"
  /\ Unlocked
  /\ \/ /\ queued' \in {queued, queued - 1} \cap Nat
        /\ client' = 0
        /\ Goto(t, IF t = Staff THEN "test" ELSE "commit")
        /\ UNCHANGED lost
     \/ /\ lost' = TRUE
        /\ GiveUp(t)
        /\ UNCHANGED <<queued, client>>
  /\ UNCHANGED <<sock, account, positive, obj, sum, after, want, selected,
                 dispatcher, used, paid, now, left>>

(* cleanUp, line 182.                                                         *)
Forget(c) ==
  /\ pc[c] = "forget"
  /\ logTable' = 0
  /\ Goto(c, "gone")
  /\ UNCHANGED <<network, logs, energyTable, records, positive, obj, sum, after,
                 want, queueing, dispatcher, used, paid, now, left>>

-----------------------------------------------------------------------------
(* MainForm.roomCheckOut. Of a room that is registered: its connection is     *)
(* closed, the room is taken off the queue, the log is committed, and the     *)
(* energy in the table is the bill.                                           *)
CheckOut ==
  /\ pc[Staff] = "on"
  /\ paid = None
  /\ left.checkouts > 0
  /\ left' = [left EXCEPT !.checkouts = @ - 1]
  /\ client # 0
  /\ sock' = [sock EXCEPT ![client] = "closed"]
  /\ after' = [after EXCEPT ![Staff] = "checkout"]
  /\ Goto(Staff, "contains")
  /\ UNCHANGED <<client, account, positive, obj, sum, want, queueing, dispatcher,
                 used, paid, now>>

CheckOutContains ==
  /\ pc[Staff] = "contains"
  /\ Goto(Staff, IF queued > 0 THEN "remove" ELSE "test")
  /\ UNCHANGED <<network, account, positive, obj, sum, after, want, queueing,
                 dispatcher, used, paid, now, left>>

CheckOutTest ==
  /\ pc[Staff] = "test"
  /\ Goto(Staff, IF logTable # 0 THEN "commit" ELSE "settle")
  /\ UNCHANGED <<network, account, positive, obj, sum, after, want, queueing,
                 dispatcher, used, paid, now, left>>

CheckOutSettle ==
  /\ pc[Staff] = "settle"
  /\ Goto(Staff, "on")
  /\ energyTable' = None
  /\ paid' = energyTable                         \* None: a null pointer
  /\ UNCHANGED <<network, logs, logTable, records, positive, obj, sum, after,
                 want, queueing, dispatcher, used, now, left>>

(* Of a room that is not: the bill is what the rows say in their column       *)
(* energy.                                                                    *)
CheckOutAbsent ==
  /\ pc[Staff] = "on"
  /\ paid = None
  /\ left.checkouts > 0
  /\ left' = [left EXCEPT !.checkouts = @ - 1]
  /\ client = 0
  /\ paid' = MapThenSumSet(LAMBDA row : row.energy, records)
  /\ UNCHANGED <<network, account, threads, queueing, dispatcher, used, now>>

-----------------------------------------------------------------------------
(* The Dispatcher: it holds produceLock from FareDue until it is idle.        *)
Reschedule ==
  /\ dpc = "idle" /\ ~lost
  /\ selected' \in 0..queued
  /\ UNCHANGED <<network, account, threads, queued, lost, dispatcher, used, paid,
                 now, left>>

(* broadcastFare reads the energy table, then the log, then sends what it     *)
(* shows. Fares fall due five seconds apart.                                  *)
FareDue ==
  /\ dpc = "idle" /\ ~lost
  /\ left.ticks > 0
  /\ left' = [left EXCEPT !.ticks = @ - 1]
  /\ now' = now + 1
  /\ got' = energyTable
  /\ dpc' = "tell"
  /\ UNCHANGED <<network, account, threads, queueing, aim, todo, used, paid>>

Shown == IF got = None \/ logTable = 0 THEN 0 ELSE got + logs[logTable].energy

Tell ==
  /\ dpc = "tell"
  /\ client' \in IF client # 0 /\ sock[client] = "dropped" THEN {0, client}
                                                          ELSE {client}
  /\ todo' = selected
  /\ dpc' = "charge"
  /\ UNCHANGED <<sock, account, threads, queueing, got, aim, used, paid, now, left>>

(* run, lines 62-72, for each time the room is in the window: netDuration is  *)
(* read and written back, and the energy worked out afresh.                   *)
Charge ==
  /\ dpc = "charge"
  /\ \/ /\ todo > 0 /\ queued > 0 /\ logTable # 0
        /\ got' = logs[logTable].net
        /\ aim' = logTable
        /\ dpc' = "write"
        /\ UNCHANGED todo
     \/ /\ todo > 0 /\ queued > 0 /\ logTable = 0
        /\ dpc' = "dead"                         \* null pointer
        /\ UNCHANGED <<got, aim, todo>>
     \/ /\ todo = 0 \/ queued = 0
        /\ dpc' = "idle"
        /\ todo' = 0 /\ got' = 0 /\ aim' = 0     \* out of scope
  /\ UNCHANGED <<network, account, threads, queueing, used, paid, now, left>>

Counted(log) == [log EXCEPT !.net = got + 1]

WriteBack ==
  /\ dpc = "write"
  /\ logs' = [c \in Conns |->
                LET log == IF c = aim THEN Counted(logs[c]) ELSE logs[c]
                IN  IF c = logTable THEN Updated(log) ELSE log]
  /\ used' = used + IF todo = selected THEN Rate(logs[aim].level) ELSE 0
  /\ todo' = todo - 1
  /\ dpc' = IF logTable = 0 THEN "dead" ELSE "charge"
  /\ UNCHANGED <<network, logTable, energyTable, records, threads, queueing, got,
                 aim, paid, now, left>>

-----------------------------------------------------------------------------
Commit(t) ==
  \/ CommitUpdate(t) \/ CommitSum(t) \/ CommitStore(t) \/ CommitZero(t)
  \/ CommitInsert(t)

Handler(c) ==
  \/ Login(c) \/ BindLog(c) \/ Register(c) \/ ReadFails(c) \/ LoopEnds(c)
  \/ \E level \in Levels : Start(c, level) \/ ChangeLevel(c, level)
  \/ Enqueue(c) \/ Stop(c) \/ Renew(c) \/ Forget(c)

Next ==
  \/ \E c \in Conns : Connect(c) \/ Drop(c) \/ Handler(c)
  \/ \E t \in Threads : Commit(t) \/ RemoveClient(t)
  \/ CheckOut \/ CheckOutContains \/ CheckOutTest \/ CheckOutSettle
  \/ CheckOutAbsent
  \/ Reschedule \/ FareDue \/ Tell \/ Charge \/ WriteBack

Spec == Init /\ [][Next]_vars

-----------------------------------------------------------------------------
(* Between two requests and two ticks, with no commit under way.              *)
Quiet ==
  /\ dpc = "idle"
  /\ \A t \in Threads : pc[t] \in {"new", "login", "register", "on", "enqueue", "gone"}

(* No connection is lost, no level changed and nobody checked out so far: the *)
(* commit of a change of level and that of a checkout are not kept apart from *)
(* the ticks, and a reconnection replaces the open log without settling it.   *)
(* A checkout also bills the log of a room that has stopped a second time.    *)
Undisturbed ==
  left.changes = MaxChanges /\ left.drops = MaxDrops /\ left.checkouts = MaxCheckouts

(* Every tick the room has blown is charged once, at the rate it blew: what   *)
(* is settled and what the open log has counted make up what was used.        *)
(* Starts, stops and ticks may come in any order; the lock on the queue alone *)
(* keeps the commit of a stop apart from the ticks.                           *)
Conserved ==
  Undisturbed /\ Quiet /\ energyTable # None /\ logTable # 0 => Owed = used

(* The fare a broadcast shows is for what the room has used, also while a     *)
(* commit is under way, unless the commit has moved energy from the log to    *)
(* the table between the two reads, or is in between itself.                  *)
FareIsForUse ==
  /\ Undisturbed
  /\ dpc = "tell" /\ logTable # 0
  /\ got # None /\ got = energyTable
  /\ \A t \in Threads : pc[t] # "zero"
  => Shown = used

(* The rows of the database account for everything used while the room is off *)
(* and its last stop is settled.                                              *)
RecordsComplete ==
  Undisturbed /\ Quiet /\ (\A c \in Conns : ~positive[c] /\ pc[c] # "enqueue")
    => RecordedEnergy = used

(* Losses, reconnections and changes of level alone never end the Dispatcher, *)
(* leak the lock or end the handler of a connection that is open: the old     *)
(* handler of a lost connection just returns, and leaves the log to the new.  *)
SoundUntilCheckout ==
  left.checkouts = MaxCheckouts =>
    /\ dpc # "dead" /\ ~lost
    /\ \A c \in Conns : sock[c] = "open" => pc[c] # "gone"
=============================================================================
