-------------------------------- MODULE Center --------------------------------
(* The threads of the Center between a start and the next shutdown: one       *)
(* RequestHandler per connection, the Dispatcher, the timer and the event     *)
(* thread of the staff's window, over the tables, the queue and the lock of   *)
(* Server. What a log records (time, energy, fare) is in RoomAccount; here a  *)
(* log is the fan level it is for.                                            *)
(*                                                                            *)
(* A critical section no other thread can look into is one action, enabled    *)
(* when produceLock is free; so is a stretch of code that touches only the    *)
(* thread's own variables. The sections of the Dispatcher are several         *)
(* actions, since handlers and staff use the tables without the lock.         *)
EXTENDS Window, SequencesExt

CONSTANTS
  Rooms,           \* room numbers
  MaxLevel,        \* the highest fan level (3 in handleAC)
  MaxCount,        \* timer expiries per scheduling timeout (10 in MyTimer)
  Freqs,           \* reporting periods the staff may set
  Ips,             \* network addresses
  IpOf,            \* the address of each room's terminal
  MaxConns,        \* bound: connections a terminal opens, one after the other
  MaxDrops,        \* bound: connections that are lost
  MaxCheckouts,    \* bound: times the staff settle an account
  MaxModeChanges,  \* bound: times the staff switch the mode
  MaxFreqChanges   \* bound: times the staff change the period

ASSUME RoomsAssumption == Rooms \subseteq Nat \ {0}
ASSUME NumbersAssumption ==
  /\ MaxLevel \in Nat \ {0}
  /\ MaxCount \in Nat \ {0}
  /\ MaxConns \in Nat \ {0}
  /\ {MaxDrops, MaxCheckouts, MaxModeChanges, MaxFreqChanges} \subseteq Nat
ASSUME IpsAssumption == IpOf \in [Rooms -> Ips] /\ "NoIp" \notin Ips
ASSUME FreqsAssumption == Freqs \subseteq Nat /\ 5 \in Freqs

Conns == Rooms \X (1..MaxConns)
RoomOf(h) == h[1]

NoLog == -1                      \* no entry in logTable
Levels == 1..MaxLevel

VARIABLES
  sock,          \* the socket of each connection, as the Center sees it
  hpc,           \* where each RequestHandler is
  isFirst,       \* locals and fields of RequestHandler
  succeed,
  positive,
  client_no,
  clients,       \* Server.clients: the connection of a room, 0 for no entry
  logTable,      \* Server.logTable: the level of a room's log, or NoLog;
                 \* tempTable has the same keys, put and removed beside it
  energyTable,   \* Server.energyTable: the rooms that have an entry
  IPTable,       \* Server.IPTable
  roomInfo,      \* the rooms in the table roomInfo, which the staff are
                 \* offered for checkout
  queue,         \* Server.queue
  wakeUp,        \* WakeUpTable
  lock,          \* who holds Server.produceLock
  mode,          \* Config
  frequency,
  serverState,
  dpc,           \* where the Dispatcher is
  oldList,       \* Dispatcher.oldList; null is <<>>
  previousQueueLength,
  shown,         \* MainForm.tfCurrentState
  count,         \* MyTimer.count
  spc,           \* where the event thread is in roomCheckOut, and for whom
  sroom,
  told,          \* what each terminal was last sent: mode, frequency and wind
  mustKnow,      \* history: who was registered at the last change of each
  left           \* what remains of the bounds

sockets == <<sock, told>>
handlers == <<hpc, isFirst, succeed, positive, client_no>>
tables == <<clients, logTable, energyTable, IPTable, roomInfo>>
config == <<mode, frequency>>
dispatcher == <<oldList, previousQueueLength, shown>>
staff == <<spc, sroom, mustKnow>>
vars == <<sockets, handlers, tables, queue, wakeUp, lock, config, serverState,
          dpc, dispatcher, count, staff, left>>

-----------------------------------------------------------------------------
HandlerPCs == {"new", "greet", "read", "ack", "bind", "register",
               "enqueue", "dequeue", "commit", "cleanup", "remove", "forget",
               "gone"}
DispatcherPCs == {"start", "wait", "woken", "mode", "freq", "schedule", "fare",
                  "tail", "dead"}
StaffPCs == {"idle", "close", "contains", "remove", "test", "commit", "settle"}
Flags == {"queueChanged", "modeChanged", "schedulingTimeout", "fareTimeout",
          "frequencyChanged"}

SocketTypes ==
  /\ sock \in [Conns -> {"none", "open", "dropped", "closed"}]
  /\ told \in [Conns -> [mode : {0, 1, -1}, frequency : Freqs \cup {-1},
                         wind : {"never", "stop", "blow"}]]

HandlerTypes ==
  /\ hpc \in [Conns -> HandlerPCs]
  /\ isFirst \in [Conns -> BOOLEAN]
  /\ succeed \in [Conns -> BOOLEAN]
  /\ positive \in [Conns -> BOOLEAN]
  /\ client_no \in [Conns -> Rooms \cup {0}]

TableTypes ==
  /\ clients \in [Rooms -> 0..MaxConns]
  /\ logTable \in [Rooms -> 0..MaxLevel \cup {NoLog}]
  /\ energyTable \subseteq Rooms
  /\ IPTable \in [Rooms \cup {0} -> Ips \cup {"NoIp"}]
  /\ roomInfo \subseteq Rooms

ScheduleTypes ==
  /\ queue \in Seq(Rooms)
  /\ oldList \in Seq(Rooms)
  /\ previousQueueLength \in Nat

ControlTypes ==
  /\ wakeUp \in [Flags -> BOOLEAN]
  /\ lock \in {"none", "dispatcher", "handler", "staff"}
  /\ mode \in {0, 1}
  /\ frequency \in Freqs
  /\ serverState \in {"On", "Idle"}
  /\ dpc \in DispatcherPCs
  /\ shown \in {"On", "Idle"}
  /\ count \in 0..(MaxCount - 1)

StaffTypes ==
  /\ spc \in StaffPCs
  /\ sroom \in Rooms \cup {0}
  /\ mustKnow \in [{"mode", "frequency"} -> SUBSET Conns]
  /\ left \in [drops : Nat, checkouts : Nat, modes : Nat, freqs : Nat]

TypeOK == /\ SocketTypes /\ HandlerTypes /\ TableTypes
          /\ ScheduleTypes /\ ControlTypes /\ StaffTypes

-----------------------------------------------------------------------------
Budget == [drops |-> MaxDrops, checkouts |-> MaxCheckouts,
           modes |-> MaxModeChanges, freqs |-> MaxFreqChanges]

InitWith(budget) ==
  /\ sock = [h \in Conns |-> "none"]
  /\ hpc = [h \in Conns |-> "new"]
  /\ isFirst = [h \in Conns |-> TRUE]
  /\ succeed = [h \in Conns |-> FALSE]
  /\ positive = [h \in Conns |-> FALSE]
  /\ client_no = [h \in Conns |-> 0]
  /\ clients = [r \in Rooms |-> 0]
  /\ logTable = [r \in Rooms |-> NoLog]
  /\ energyTable = {}
  /\ IPTable = [r \in Rooms \cup {0} |-> "NoIp"]
  /\ roomInfo = Rooms               \* assigned in an earlier run of the program
  /\ queue = <<>>
  /\ wakeUp = [f \in Flags |-> FALSE]
  /\ lock = "none"
  /\ mode = 0
  /\ frequency = 5
  /\ serverState = "On"             \* serverStart, although it shows Idle
  /\ dpc = "start"
  /\ oldList = <<>>
  /\ previousQueueLength = 0
  /\ shown = "Idle"
  /\ count = 0
  /\ spc = "idle"
  /\ sroom = 0
  /\ told = [h \in Conns |-> [mode |-> -1, frequency |-> -1, wind |-> "never"]]
  /\ mustKnow = [f \in {"mode", "frequency"} |-> {}]
  /\ left = budget

Init == InitWith(Budget)

-----------------------------------------------------------------------------
(* The lock and its condition. Only the Dispatcher waits on wakeCond, so a    *)
(* signal moves it on if it waits and is lost if it does not.                 *)
Unlocked == lock = "none"

(* The event thread may enter again the lock it left locked: it is reentrant. *)
StaffMayLock == lock \in {"none", "staff"}

SignalLost == UNCHANGED dpc              \* signal before await, or not at all

Signal == dpc' = IF dpc = "wait" THEN "woken" ELSE dpc

RaiseForgotten(flag) == UNCHANGED wakeUp /\ flag \in Flags

Raise(flag) == wakeUp' = [wakeUp EXCEPT ![flag] = TRUE]

(* List operations of Java: indexOf, remove by index, contains.               *)
InQueue(r) == Contains(queue, r)

(* What handleAC does: the first occurrence goes. Not: every occurrence.      *)
TakeAllOff(r) == SelectSeq(queue, LAMBDA q : q # r)

TakeOff(r) == RemoveAt(queue, IndexOf(queue, r))

(* removeClient calls queue.remove with an int, so Java takes the room number *)
(* for an index (from 0). The call fails when the queue is shorter.           *)
RemoveClientSilently(r) == /\ queue' = RemoveAt(queue, r + 1)
                           /\ clients' = [clients EXCEPT ![r] = 0]
                           /\ UNCHANGED wakeUp
                           /\ Signal

RemoveClient(r) == /\ queue' = RemoveAt(queue, r + 1)
                   /\ clients' = [clients EXCEPT ![r] = 0]
                   /\ Raise("queueChanged")
                   /\ Signal

(* commitLog fails, with a null pointer, if there is nothing to commit.       *)
MayCommit(r) == logTable[r] # NoLog /\ r \in energyTable

-----------------------------------------------------------------------------
(* The network and the terminals. A terminal (Control::control_init) has one  *)
(* connection at a time and opens the next when the last is gone.             *)

Connect(h) ==
  /\ sock[h] = "none"
  /\ \A k \in 1..MaxConns : k < h[2] => sock[<<RoomOf(h), k>>] \in {"dropped", "closed"}
  /\ sock' = [sock EXCEPT ![h] = "open"]
  /\ hpc' = [hpc EXCEPT ![h] = "greet"]
  /\ UNCHANGED <<told, isFirst, succeed, positive, client_no, tables, queue,
                 wakeUp, lock, config, serverState, dpc, dispatcher, count,
                 staff, left>>

Drop(h) ==
  /\ sock[h] = "open"
  /\ left.drops > 0
  /\ sock' = [sock EXCEPT ![h] = "dropped"]
  /\ left' = [left EXCEPT !.drops = @ - 1]
  /\ UNCHANGED <<told, handlers, tables, queue, wakeUp, lock, config,
                 serverState, dpc, dispatcher, count, staff>>

-----------------------------------------------------------------------------
(* RequestHandler.                                                            *)

Goto(h, pc) == hpc' = [hpc EXCEPT ![h] = pc]

(* run, lines 51-52: mode and frequency as they are at this moment. A failing *)
(* send is ignored.                                                           *)
Greet(h) ==
  /\ hpc[h] = "greet"
  /\ Goto(h, "read")
  /\ told' = IF sock[h] = "open"
             THEN [told EXCEPT ![h].mode = mode, ![h].frequency = frequency]
             ELSE told
  /\ UNCHANGED <<sock, isFirst, succeed, positive, client_no, tables, queue,
                 wakeUp, lock, config, serverState, dpc, dispatcher, count,
                 staff, left>>

(* run, line 58 and lines 59-69. A handler is at "read" from the top of the   *)
(* loop until it has a message. If its socket is closed meanwhile it finds    *)
(* that out by the test, and cleans up, or in the read, and just returns.     *)
(* serverState is never Off here.                                             *)
LoopEnds(h) ==
  /\ hpc[h] = "read"
  /\ sock[h] = "closed"
  /\ Goto(h, "cleanup")
  /\ UNCHANGED <<sockets, isFirst, succeed, positive, client_no, tables, queue,
                 wakeUp, lock, config, serverState, dpc, dispatcher, count,
                 staff, left>>

ReadFails(h) ==
  /\ hpc[h] = "read"
  /\ sock[h] \in {"dropped", "closed"}
  /\ Goto(h, "gone")
  /\ UNCHANGED <<sockets, isFirst, succeed, positive, client_no, tables, queue,
                 wakeUp, lock, config, serverState, dpc, dispatcher, count,
                 staff, left>>

Reads(h) == hpc[h] = "read" /\ sock[h] = "open"

(* The first message has to be a temperature; the temperature itself is left  *)
(* out. Messages that run ignores (lines 92-100) change nothing.              *)
Submit(h) ==
  /\ Reads(h)
  /\ isFirst' = [isFirst EXCEPT ![h] = FALSE]
  /\ Goto(h, "read")
  /\ UNCHANGED <<sockets, succeed, positive, client_no, tables, queue, wakeUp,
                 lock, config, serverState, dpc, dispatcher, count, staff, left>>

(* run, lines 114-133. A terminal sends Login only while it is logged out     *)
(* (Slave::loginReqHandler). The address is looked up and stored under        *)
(* client_no, which is 0 until the login is complete.                         *)
Login(h, right) ==
  LET r == RoomOf(h)
      known == right /\ r \in roomInfo
      key == client_no[h]
  IN /\ Reads(h)
     /\ ~isFirst[h] /\ ~succeed[h]
     /\ succeed' = [succeed EXCEPT ![h] = known /\ IPTable[key] \in {"NoIp", IpOf[r]}]
     /\ IPTable' = IF known /\ IPTable[key] = "NoIp"
                   THEN [IPTable EXCEPT ![key] = IpOf[r]]
                   ELSE IPTable
     /\ Goto(h, "ack")
     /\ UNCHANGED <<sockets, isFirst, positive, client_no, clients, logTable,
                    energyTable, roomInfo, queue, wakeUp, lock, config,
                    serverState, dpc, dispatcher, count, staff, left>>

(* run, lines 136-144: the answer is sent, or cannot be sent any more.        *)
Ack(h) ==
  /\ hpc[h] = "ack"
  /\ \/ /\ Goto(h, IF succeed[h] THEN "bind" ELSE "read")
        /\ UNCHANGED IPTable
     \/ /\ sock[h] # "open"
        /\ Goto(h, "gone")
        /\ IPTable' = IF succeed[h]
                      THEN [IPTable EXCEPT ![client_no[h]] = "NoIp"]
                      ELSE IPTable
  /\ UNCHANGED <<sockets, isFirst, succeed, positive, client_no, clients,
                 logTable, energyTable, roomInfo, queue, wakeUp, lock, config,
                 serverState, dpc, dispatcher, count, staff, left>>

(* run, lines 145-156, and then 157: a new log, then the registration. The    *)
(* log is put; a replace, as in newLog, would leave a new room without one.   *)
PutLogReplace(r) ==
  logTable' = [logTable EXCEPT ![r] = IF @ = NoLog THEN NoLog ELSE 0]

PutLog(r) == logTable' = [logTable EXCEPT ![r] = 0]

BindLog(h) ==
  LET r == RoomOf(h)
  IN /\ hpc[h] = "bind"
     /\ client_no' = [client_no EXCEPT ![h] = r]
     /\ positive' = [positive EXCEPT ![h] = FALSE]
     /\ energyTable' = energyTable \cup {r}
     /\ PutLog(r)
     /\ Goto(h, "register")
     /\ UNCHANGED <<sockets, isFirst, succeed, clients, IPTable, roomInfo,
                    queue, wakeUp, lock, config, serverState, dpc, dispatcher,
                    count, staff, left>>

Register(h) ==
  /\ hpc[h] = "register"
  /\ clients' = [clients EXCEPT ![RoomOf(h)] = h[2]]
  /\ Goto(h, "read")
  /\ UNCHANGED <<sockets, isFirst, succeed, positive, client_no, logTable,
                 energyTable, IPTable, roomInfo, queue, wakeUp, lock, config,
                 serverState, dpc, dispatcher, count, staff, left>>

(* handleAC, lines 194-210, request for start: newLog, then the section that  *)
(* queues the room. A start is one only if the room is off.                   *)
Starts(h) == succeed[h] /\ ~positive[h]

Start(h, level) ==
  LET r == RoomOf(h)
  IN /\ Reads(h)
     /\ Starts(h)
     /\ \/ /\ logTable[r] = NoLog               \* null pointer in newLog
           /\ Goto(h, "gone")
           /\ UNCHANGED logTable
        \/ /\ logTable[r] # NoLog
           /\ logTable' = [logTable EXCEPT ![r] = level]
           /\ Goto(h, "enqueue")
     /\ UNCHANGED <<sockets, isFirst, succeed, positive, client_no, clients,
                    energyTable, IPTable, roomInfo, queue, wakeUp, lock,
                    config, serverState, dpc, dispatcher, count, staff, left>>

Enqueue(h) ==
  /\ hpc[h] = "enqueue"
  /\ Unlocked
  /\ serverState' = "On"                        \* it was Idle or On
  /\ queue' = Append(queue, RoomOf(h))
  /\ Raise("queueChanged")
  /\ Signal
  /\ positive' = [positive EXCEPT ![h] = TRUE]
  /\ Goto(h, "read")
  /\ UNCHANGED <<sockets, isFirst, succeed, client_no, tables, lock, config,
                 dispatcher, count, staff, left>>

(* handleAC, lines 211-229, request for stop: the section that takes the room *)
(* off the queue, and puts the Center to rest when it was the last, then      *)
(* commitLog.                                                                 *)
AlwaysRest(q) == "Idle"

Rest(q) == IF q = <<>> THEN "Idle" ELSE serverState

Stop(h) ==
  /\ Reads(h)
  /\ succeed[h] /\ positive[h]
  /\ Goto(h, "dequeue")
  /\ UNCHANGED <<sockets, isFirst, succeed, positive, client_no, tables, queue,
                 wakeUp, lock, config, serverState, dpc, dispatcher, count,
                 staff, left>>

Dequeue(h) ==
  LET r == RoomOf(h)
  IN /\ hpc[h] = "dequeue"
     /\ Unlocked
     /\ \/ /\ ~InQueue(r)                       \* remove(-1) throws
           /\ Goto(h, "gone")
           /\ UNCHANGED <<queue, wakeUp, serverState, dpc>>
        \/ /\ InQueue(r)
           /\ queue' = TakeOff(r)
           /\ Raise("queueChanged")
           /\ serverState' = Rest(queue')
           /\ Signal
           /\ Goto(h, "commit")
     /\ UNCHANGED <<sockets, isFirst, succeed, positive, client_no, tables,
                    lock, config, dispatcher, count, staff, left>>

Commit(h) ==
  /\ hpc[h] = "commit"
  /\ \/ /\ MayCommit(RoomOf(h))
        /\ positive' = [positive EXCEPT ![h] = FALSE]
        /\ Goto(h, "read")
     \/ /\ ~MayCommit(RoomOf(h))                \* null pointer in commitLog
        /\ Goto(h, "gone")
        /\ UNCHANGED positive
  /\ UNCHANGED <<sockets, isFirst, succeed, client_no, tables, queue, wakeUp,
                 lock, config, serverState, dpc, dispatcher, count, staff, left>>

(* handleAC, lines 230-233: the fan level of a room that is on. Nobody is     *)
(* woken for it.                                                              *)
ChangeLevel(h, level) ==
  LET r == RoomOf(h)
  IN /\ Reads(h)
     /\ succeed[h] /\ positive[h]
     /\ \/ /\ logTable[r] # level
           /\ MayCommit(r)
           /\ logTable' = [logTable EXCEPT ![r] = level]
           /\ Goto(h, "read")
        \/ /\ logTable[r] # level
           /\ ~MayCommit(r)                     \* null pointer
           /\ Goto(h, "gone")
           /\ UNCHANGED logTable
     /\ UNCHANGED <<sockets, isFirst, succeed, positive, client_no, clients,
                    energyTable, IPTable, roomInfo, queue, wakeUp, lock,
                    config, serverState, dpc, dispatcher, count, staff, left>>

(* cleanUp: the test of removeClient, its section, and lines 181-185. When    *)
(* the removal throws, the lock stays locked by a thread that is gone.        *)
CleanUp(h) ==
  /\ hpc[h] = "cleanup"
  /\ Goto(h, IF InQueue(client_no[h]) THEN "remove" ELSE "forget")
  /\ UNCHANGED <<sockets, isFirst, succeed, positive, client_no, tables, queue,
                 wakeUp, lock, config, serverState, dpc, dispatcher, count,
                 staff, left>>

CleanRemove(h) ==
  LET r == client_no[h]
  IN /\ hpc[h] = "remove"
     /\ Unlocked
     /\ \/ /\ r < Len(queue)
           /\ RemoveClient(r)
           /\ Goto(h, "forget")
           /\ UNCHANGED lock
        \/ /\ r >= Len(queue)
           /\ lock' = "handler"
           /\ Goto(h, "gone")
           /\ UNCHANGED <<queue, clients, wakeUp, dpc>>
     /\ UNCHANGED <<sockets, isFirst, succeed, positive, client_no, logTable,
                    energyTable, IPTable, roomInfo, config, serverState,
                    dispatcher, count, staff, left>>

Forget(h) ==
  LET r == client_no[h]
  IN /\ hpc[h] = "forget"
     /\ Goto(h, "gone")
     /\ logTable' = IF MayCommit(r) THEN [logTable EXCEPT ![r] = NoLog]
                                    ELSE logTable
     /\ UNCHANGED <<sockets, isFirst, succeed, positive, client_no, clients,
                    energyTable, IPTable, roomInfo, queue, wakeUp, lock,
                    config, serverState, dpc, dispatcher, count, staff, left>>

Handler(h) ==
  \/ Greet(h) \/ LoopEnds(h) \/ ReadFails(h) \/ Submit(h)
  \/ \E right \in BOOLEAN : Login(h, right)
  \/ Ack(h) \/ BindLog(h) \/ Register(h)
  \/ \E level \in Levels : Start(h, level) \/ ChangeLevel(h, level)
  \/ Enqueue(h) \/ Stop(h) \/ Dequeue(h) \/ Commit(h)
  \/ CleanUp(h) \/ CleanRemove(h) \/ Forget(h)

-----------------------------------------------------------------------------
(* MainForm: one thread handles one click after the other.                    *)

Registered == {h \in Conns : clients[RoomOf(h)] = h[2]}

(* setMode and setFreq.                                                       *)
SetMode ==
  /\ spc = "idle"
  /\ StaffMayLock
  /\ left.modes > 0
  /\ left' = [left EXCEPT !.modes = @ - 1]
  /\ mode' = 1 - mode
  /\ Raise("modeChanged")
  /\ Signal
  /\ mustKnow' = [mustKnow EXCEPT !["mode"] = Registered]
  /\ UNCHANGED <<sockets, handlers, tables, queue, lock, frequency,
                 serverState, dispatcher, count, spc, sroom>>

SetFreq(freq) ==
  /\ spc = "idle"
  /\ StaffMayLock
  /\ left.freqs > 0
  /\ left' = [left EXCEPT !.freqs = @ - 1]
  /\ freq # frequency
  /\ frequency' = freq
  /\ Raise("frequencyChanged")
  /\ Signal
  /\ mustKnow' = [mustKnow EXCEPT !["frequency"] = Registered]
  /\ UNCHANGED <<sockets, handlers, tables, queue, lock, mode, serverState,
                 dispatcher, count, spc, sroom>>

(* assignClient.                                                              *)
AssignClient(r) ==
  /\ spc = "idle"
  /\ r \notin roomInfo
  /\ roomInfo' = roomInfo \cup {r}
  /\ UNCHANGED <<sockets, handlers, clients, logTable, energyTable, IPTable,
                 queue, wakeUp, lock, config, serverState, dpc, dispatcher,
                 count, staff, left>>

(* roomCheckOut: of a room that is not registered (lines 189-200), ...        *)
CheckOutAbsent(r) ==
  /\ spc = "idle"
  /\ r \in roomInfo
  /\ left.checkouts > 0
  /\ clients[r] = 0
  /\ left' = [left EXCEPT !.checkouts = @ - 1]
  /\ roomInfo' = roomInfo \ {r}
  /\ UNCHANGED <<sockets, handlers, clients, logTable, energyTable, IPTable,
                 queue, wakeUp, lock, config, serverState, dpc, dispatcher,
                 count, staff>>

(* ... and of one that is: its socket is closed (line 174, a null pointer if  *)
(* the Dispatcher has dropped the entry meanwhile), removeClient is called,   *)
(* the log is committed and the tables forget the room. A failure on the way  *)
(* ends the click, and leaves the room in roomInfo.                           *)
CheckOut(r) ==
  /\ spc = "idle"
  /\ r \in roomInfo
  /\ left.checkouts > 0
  /\ clients[r] # 0
  /\ left' = [left EXCEPT !.checkouts = @ - 1]
  /\ sroom' = r
  /\ spc' = "close"
  /\ UNCHANGED <<sockets, handlers, tables, queue, wakeUp, lock, config,
                 serverState, dpc, dispatcher, count, mustKnow>>

CheckOutClose ==
  /\ spc = "close"
  /\ \/ /\ clients[sroom] # 0
        /\ sock' = [sock EXCEPT ![<<sroom, clients[sroom]>>] = "closed"]
        /\ spc' = "contains"
     \/ /\ clients[sroom] = 0
        /\ spc' = "idle"
        /\ UNCHANGED sock
  /\ UNCHANGED <<told, handlers, tables, queue, wakeUp, lock, config,
                 serverState, dpc, dispatcher, count, sroom, mustKnow, left>>

CheckOutContains ==
  /\ spc = "contains"
  /\ spc' = IF InQueue(sroom) THEN "remove" ELSE "test"
  /\ UNCHANGED <<sockets, handlers, tables, queue, wakeUp, lock, config,
                 serverState, dpc, dispatcher, count, sroom, mustKnow, left>>

CheckOutRemove ==
  /\ spc = "remove"
  /\ StaffMayLock
  /\ \/ /\ sroom < Len(queue)
        /\ RemoveClient(sroom)
        /\ spc' = "test"
        /\ UNCHANGED lock
     \/ /\ sroom >= Len(queue)
        /\ lock' = "staff"
        /\ spc' = "idle"
        /\ UNCHANGED <<queue, clients, wakeUp, dpc>>
  /\ UNCHANGED <<sockets, handlers, logTable, energyTable, IPTable, roomInfo,
                 config, serverState, dispatcher, count, sroom, mustKnow, left>>

CheckOutTest ==
  /\ spc = "test"
  /\ spc' = IF logTable[sroom] # NoLog THEN "commit" ELSE "settle"
  /\ UNCHANGED <<sockets, handlers, tables, queue, wakeUp, lock, config,
                 serverState, dpc, dispatcher, count, sroom, mustKnow, left>>

CheckOutCommit ==
  /\ spc = "commit"
  /\ \/ /\ MayCommit(sroom)
        /\ logTable' = [logTable EXCEPT ![sroom] = NoLog]
        /\ spc' = "settle"
     \/ /\ ~MayCommit(sroom)                    \* null pointer in commitLog
        /\ spc' = "idle"
        /\ UNCHANGED logTable
  /\ UNCHANGED <<sockets, handlers, clients, energyTable, IPTable, roomInfo,
                 queue, wakeUp, lock, config, serverState, dpc, dispatcher,
                 count, sroom, mustKnow, left>>

CheckOutSettle ==
  /\ spc = "settle"
  /\ spc' = "idle"
  /\ \/ /\ sroom \in energyTable
        /\ energyTable' = energyTable \ {sroom}
        /\ IPTable' = [IPTable EXCEPT ![sroom] = "NoIp"]
        /\ roomInfo' = roomInfo \ {sroom}
     \/ /\ sroom \notin energyTable             \* null pointer
        /\ UNCHANGED <<energyTable, IPTable, roomInfo>>
  /\ UNCHANGED <<sockets, handlers, clients, logTable, queue, wakeUp, lock,
                 config, serverState, dpc, dispatcher, count, sroom, mustKnow,
                 left>>

Staff ==
  \/ SetMode \/ \E freq \in Freqs : SetFreq(freq)
  \/ \E r \in Rooms : AssignClient(r) \/ CheckOutAbsent(r) \/ CheckOut(r)
  \/ CheckOutClose \/ CheckOutContains \/ CheckOutRemove
  \/ CheckOutTest \/ CheckOutCommit \/ CheckOutSettle

-----------------------------------------------------------------------------
(* MyTimer.run, lines 18-37. serverState is never Off here.                   *)
FullLate == count + 1 > MaxCount

Full == count + 1 >= MaxCount

Expire ==
  /\ Unlocked
  /\ count' = IF Full THEN 0 ELSE count + 1
  /\ wakeUp' = [wakeUp EXCEPT !["fareTimeout"] = TRUE,
                              !["schedulingTimeout"] = @ \/ Full]
  /\ Signal
  /\ UNCHANGED <<sockets, handlers, tables, queue, lock, config, serverState,
                 dispatcher, staff, left>>

-----------------------------------------------------------------------------
(* Dispatcher.                                                                *)

(* run, lines 24-31: it locks and waits, whatever has been raised meanwhile.  *)
Await ==
  /\ dpc = "start"
  /\ Unlocked
  /\ dpc' = "wait"
  /\ UNCHANGED <<sockets, handlers, tables, queue, wakeUp, lock, config,
                 serverState, dispatcher, count, staff, left>>

(* Condition.await may return without a signal.                               *)
WakeSpuriously ==
  /\ dpc = "wait"
  /\ dpc' = "woken"
  /\ UNCHANGED <<sockets, handlers, tables, queue, wakeUp, lock, config,
                 serverState, dispatcher, count, staff, left>>

Relock ==
  /\ dpc = "woken"
  /\ Unlocked
  /\ lock' = "dispatcher"
  /\ dpc' = IF wakeUp["modeChanged"] THEN "mode"
            ELSE IF wakeUp["frequencyChanged"] THEN "freq" ELSE "schedule"
  /\ UNCHANGED <<sockets, handlers, tables, queue, wakeUp, config,
                 serverState, dispatcher, count, staff, left>>

(* sendMsg to registered rooms. A terminal that is still there is told. A     *)
(* lost one may make the write fail, and then its entry goes; on a socket the *)
(* Center has closed nothing is sent, and the entry stays.                    *)
Reachable == {h \in Registered : sock[h] = "open"}
Unsent == {h \in Registered : sock[h] = "dropped"}

Strike(Hs) == clients' = [r \in Rooms |-> IF <<r, clients[r]>> \in Hs THEN 0
                                                                   ELSE clients[r]]

Broadcast(field, value) ==
  /\ told' = [h \in Conns |-> IF h \in Reachable
                              THEN [told[h] EXCEPT ![field] = value]
                              ELSE told[h]]
  /\ \E lost \in SUBSET Unsent : Strike(lost)

(* run, lines 33-39 and 40-46.                                                *)
InformMode ==
  /\ dpc = "mode"
  /\ dpc' = IF wakeUp["frequencyChanged"] THEN "freq" ELSE "schedule"
  /\ Broadcast("mode", mode)
  /\ wakeUp' = [wakeUp EXCEPT !["modeChanged"] = FALSE]
  /\ UNCHANGED <<sock, handlers, logTable, energyTable, IPTable, roomInfo,
                 queue, lock, config, serverState, dispatcher, count, staff,
                 left>>

InformFreq ==
  /\ dpc = "freq"
  /\ dpc' = "schedule"
  /\ Broadcast("frequency", frequency)
  /\ wakeUp' = [wakeUp EXCEPT !["frequencyChanged"] = FALSE]
  /\ UNCHANGED <<sock, handlers, logTable, energyTable, IPTable, roomInfo,
                 queue, lock, config, serverState, dispatcher, count, staff,
                 left>>

(* schedule, the messages: the rooms it has picked shall blow, a registered   *)
(* room that was on since its login and is not picked shall stop.             *)
AddressesPicked(h, picked) == RoomOf(h) \in picked

Addresses(h, picked) == RoomOf(h) \in picked \/ logTable[RoomOf(h)] # 0

SendWind(rooms, picked) ==
  /\ told' = [h \in Conns |->
                IF /\ h \in Reachable /\ RoomOf(h) \in rooms
                   /\ Addresses(h, picked)
                THEN [told[h] EXCEPT !.wind = IF RoomOf(h) \in picked
                                              THEN "blow" ELSE "stop"]
                ELSE told[h]]
  /\ \E lost \in SUBSET {h \in Unsent : /\ RoomOf(h) \in rooms
                                        /\ Addresses(h, picked)} : Strike(lost)

(* run, lines 47-58, and schedule. A picked or registered room without a log  *)
(* is a null pointer, which ends the thread with nothing cleared: the picked  *)
(* rooms are served first, in an order left open here.                        *)
ScheduleDue == wakeUp["queueChanged"] \/ wakeUp["schedulingTimeout"]

SelectedKept ==                \* keeps a window as long as it is queued
  IF oldList # <<>> /\ ToSet(oldList) \subseteq ToSet(queue)
  THEN oldList ELSE Window(queue, oldList)

Selected == Window(queue, oldList)

Unlogged == {r \in Rooms : logTable[r] = NoLog
                           /\ (clients[r] # 0 \/ Contains(Selected, r))}

SkipSchedule ==
  /\ dpc = "schedule"
  /\ ~ScheduleDue
  /\ dpc' = "fare"
  /\ UNCHANGED <<sockets, handlers, tables, queue, wakeUp, lock, config,
                 serverState, dispatcher, count, staff, left>>

Schedule ==
  /\ dpc = "schedule"
  /\ ScheduleDue
  /\ Unlogged = {}
  /\ SendWind(Rooms, ToSet(Selected))
  /\ oldList' = Selected
  /\ serverState' = IF queue = <<>> THEN "Idle" ELSE "On"
  /\ shown' = IF (previousQueueLength > 0) # (Len(queue) > 0)
              THEN serverState' ELSE shown
  /\ wakeUp' = [wakeUp EXCEPT !["queueChanged"] = FALSE,
                              !["schedulingTimeout"] = FALSE]
  /\ dpc' = "fare"
  /\ UNCHANGED <<sock, handlers, logTable, energyTable, IPTable, roomInfo,
                 queue, lock, config, previousQueueLength, count, staff, left>>

ScheduleFails ==
  /\ dpc = "schedule"
  /\ ScheduleDue
  /\ Unlogged # {}
  /\ serverState' = IF queue = <<>> THEN "Idle" ELSE "On"
  /\ \E rooms \in SUBSET (Rooms \ Unlogged) :
       /\ \/ rooms \subseteq ToSet(Selected)
          \/ ToSet(Selected) \subseteq rooms
       /\ SendWind(rooms, ToSet(Selected))
  /\ lock' = "none"
  /\ dpc' = "dead"
  /\ UNCHANGED <<sock, handlers, logTable, energyTable, IPTable, roomInfo,
                 queue, wakeUp, config, dispatcher, count, staff, left>>

(* run, lines 59-74 and 82: fares are sent, and the rooms of the last window  *)
(* that are still queued are charged a tick; then the lock is released.       *)
Charged == ToSet(oldList) \cap ToSet(queue)

Fare ==
  /\ dpc = "fare"
  /\ lock' = "none"
  /\ \/ /\ ~wakeUp["fareTimeout"]
        /\ dpc' = "tail"
        /\ UNCHANGED <<clients, wakeUp>>
     \/ /\ wakeUp["fareTimeout"]
        /\ \E lost \in SUBSET Unsent : Strike(lost)
        /\ \/ /\ \A r \in Charged : logTable[r] # NoLog
              /\ wakeUp' = [wakeUp EXCEPT !["fareTimeout"] = FALSE]
              /\ dpc' = "tail"
           \/ /\ \E r \in Charged : logTable[r] = NoLog
              /\ dpc' = "dead"                  \* null pointer
              /\ UNCHANGED wakeUp
  /\ UNCHANGED <<sockets, handlers, logTable, energyTable, IPTable, roomInfo,
                 queue, config, serverState, dispatcher, count, staff, left>>

(* run, line 84, when the lock is free again.                                 *)
Remember ==
  /\ dpc = "tail"
  /\ previousQueueLength' = Len(queue)
  /\ dpc' = "start"
  /\ UNCHANGED <<sockets, handlers, tables, queue, wakeUp, lock, config,
                 serverState, oldList, shown, count, staff, left>>

Dispatcher ==
  \/ Await \/ Relock \/ InformMode \/ InformFreq
  \/ SkipSchedule \/ Schedule \/ ScheduleFails \/ Fare \/ Remember

-----------------------------------------------------------------------------
Next ==
  \/ \E h \in Conns : Connect(h) \/ Drop(h) \/ Handler(h)
  \/ Staff
  \/ Expire
  \/ WakeSpuriously \/ Dispatcher

Spec == Init /\ [][Next]_vars

(* A thread that can run does, and the timer goes on. Nothing is assumed of   *)
(* the terminals, the network and the staff. Weak fairness is enough for a    *)
(* thread that needs the lock, because the sections that hold it are short    *)
(* and end; that the lock lets each thread in at last is an assumption.       *)
FairSpec == Spec /\ WF_vars(Dispatcher) /\ WF_vars(Expire)

-----------------------------------------------------------------------------
(* A room that waits for wind keeps the Center on: no order of starts, stops  *)
(* and schedulings leaves it idle with a room queued (handleAC lines 199 and  *)
(* 219, schedule lines 106 and 118).                                          *)
OnWhileQueued == queue # <<>> => serverState = "On"

(* No change of the queue is lost, although a signal is when the Dispatcher   *)
(* is not waiting: unless queueChanged is up, the last window is a right one  *)
(* for the queue as it is now.                                                *)
Settled ==
  ~wakeUp["queueChanged"] =>
    /\ Len(queue) <= Slots => oldList = queue
    /\ Len(queue) > Slots => /\ Len(oldList) = Slots
                             /\ ToSet(oldList) \subseteq ToSet(queue)

(* Only a checkout closes a socket of the Center's, as its first effect.      *)
NobodyCheckedOut == \A h \in Conns : sock[h] # "closed"

(* A room is queued once for every connection that has started it and not     *)
(* stopped it, whatever is lost on the way: no request is counted twice and   *)
(* none is forgotten (handleAC, positive). A checkout breaks it: cleanUp and  *)
(* roomCheckOut take off the entry AT the room number (List.remove(int)), so  *)
(* another room leaves, or none.                                              *)
Occurrences(r) == {i \in DOMAIN queue : queue[i] = r}
Starters(r) == {h \in Conns : RoomOf(h) = r /\ positive[h] /\ hpc[h] # "commit"}
QueueCountsStarts ==
  NobodyCheckedOut =>
  \A r \in Rooms : Cardinality(Occurrences(r)) = Cardinality(Starters(r))

(* A terminal on the first connection of its room blows exactly when the last *)
(* window has the room: no interleaving of logins, stops and schedulings      *)
(* leaves it blowing for nothing, or charged in vain. (Both can happen after  *)
(* a reconnection: Drop leaves the room queued, and an old handler that is    *)
(* late at BindLog sets the level back to 0, which SendWind then skips; and a *)
(* checkout takes the log of a room away while it is in the window.)          *)
BlowsWhenSelected ==
  NobodyCheckedOut =>
  \A h \in Reachable :
    h[2] = 1 => (told[h].wind = "blow" <=> RoomOf(h) \in ToSet(oldList))

(* Whoever was registered when the staff changed the mode (the period) and is *)
(* still connected knows it once the flag is down again: no signal lost while *)
(* the Dispatcher was busy keeps the change from it.                          *)
InformedOfChange ==
  \A h \in Reachable :
    /\ h \in mustKnow["mode"] /\ ~wakeUp["modeChanged"] => told[h].mode = mode
    /\ h \in mustKnow["frequency"] /\ ~wakeUp["frequencyChanged"]
         => told[h].frequency = frequency

(* As long as nobody is checked out, every room that is queued or registered  *)
(* has a log, so the Dispatcher never meets a null pointer.                   *)
DispatcherLives ==
  NobodyCheckedOut =>
  /\ dpc # "dead"
  /\ \A r \in Rooms : clients[r] # 0 \/ Contains(queue, r) => logTable[r] # NoLog

(* The Center moves its queue and its window as Rotation says: the threads    *)
(* change the queue a room at a time and the window only by the rule.         *)
Rotates == INSTANCE Rotation WITH queueChanged <- wakeUp["queueChanged"]
RotationSteps == Rotates!Init /\ [][Rotates!Next]_(Rotates!vars)

(* With all threads the Center keeps the safety half of the promise of        *)
(* FairShare to the rooms that are on, by what their handlers have counted    *)
(* (positive), as long as no room has come back over a new connection and     *)
(* none was checked out: as many of them as possible are in the window, and   *)
(* no other room. A room that comes back is queued twice, so that the window  *)
(* may hold it twice and leave another one out for nothing.                   *)
NobodyReturned == \A h \in Conns : h[2] > 1 => sock[h] = "none"
RoomsOn == {RoomOf(h) : h \in {g \in Conns : positive[g] /\ hpc[g] # "commit"}}
Share == INSTANCE FairShare WITH waiting <- RoomsOn, served <- ToSet(oldList)
SharesFairly ==
  /\ Share!Init
  /\ [][(NobodyCheckedOut /\ NobodyReturned)' => Share!Next]_(Share!vars)

(* Every change of the queue, of the mode and of the period is answered, and  *)
(* every fare that is due is sent, even if each signal comes too early: the   *)
(* timer wakes the Dispatcher again.                                          *)
EveryFlagAnswered == \A f \in Flags : []<>~wakeUp[f]

(* A terminal that has stopped does not go on blowing; with slots for all     *)
(* rooms, a terminal that has started blows in the end.                       *)
StopReaches ==
  \A h \in Conns :
    told[h].wind = "blow" /\ h \in Reachable /\ ~InQueue(RoomOf(h))
      ~> told[h].wind # "blow" \/ h \notin Reachable \/ InQueue(RoomOf(h))
StartReaches ==
  \A h \in Conns :
    h \in Reachable /\ InQueue(RoomOf(h))
      ~> told[h].wind = "blow" \/ h \notin Reachable \/ ~InQueue(RoomOf(h))

=============================================================================
