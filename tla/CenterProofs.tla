----------------------------- MODULE CenterProofs -----------------------------
(* Center for every set of rooms, every number of slots and of connections,   *)
(* and with no bound on what is lost, settled or switched.                    *)
EXTENDS Center, WindowProofs

-----------------------------------------------------------------------------
(* Types.                                                                     *)

LEMMA ConnsFacts ==
  ASSUME NEW h \in Conns
  PROVE  RoomOf(h) \in Rooms /\ h[2] \in 1..MaxConns /\ h = <<RoomOf(h), h[2]>>
BY DEF Conns, RoomOf

(* What a step does not touch keeps its type.                                 *)
LEMMA Untouched ==
  ASSUME TypeOK
  PROVE  /\ UNCHANGED sockets => SocketTypes'
         /\ UNCHANGED handlers => HandlerTypes'
         /\ UNCHANGED tables => TableTypes'
         /\ UNCHANGED <<queue, oldList, previousQueueLength>> => ScheduleTypes'
         /\ UNCHANGED <<wakeUp, lock, config, serverState, dpc, shown, count>>
              => ControlTypes'
         /\ UNCHANGED <<staff, left>> => StaffTypes'
BY DEF TypeOK, SocketTypes, HandlerTypes, TableTypes, ScheduleTypes,
       ControlTypes, StaffTypes, sockets, handlers, tables, config, staff

(* Every removal from the queue is a removal by an index of the list.         *)
LEMMA TakeOffIndex ==
  ASSUME TypeOK, NEW r, InQueue(r)
  PROVE  /\ IndexOf(queue, r) \in DOMAIN queue
         /\ TakeOff(r) = RemoveAt(queue, IndexOf(queue, r))
         /\ TakeOff(r) \in Seq(Rooms)
<1>1. queue \in Seq(Rooms) /\ DOMAIN queue = 1..Len(queue)
  BY DEF TypeOK, ScheduleTypes
<1>2. PICK k \in DOMAIN queue : queue[k] = r
  BY <1>1 DEF InQueue, Contains
<1>3. IndexOf(queue, r) \in DOMAIN queue
  BY <1>1, <1>2, IndexOfFirst
<1> QED BY <1>1, <1>3, RemoveAtShifts DEF TakeOff

LEMMA RemoveClientIndex ==
  ASSUME TypeOK, NEW r \in Rooms \cup {0}, r < Len(queue), RemoveClient(r)
  PROVE  /\ r + 1 \in DOMAIN queue
         /\ queue' \in Seq(Rooms)
         /\ clients' \in [Rooms -> 0..MaxConns]
<1>1. r \in Nat
  BY RoomsAssumption
<1>2. r + 1 \in DOMAIN queue
  BY <1>1 DEF TypeOK, ScheduleTypes
<1>3. queue' \in Seq(Rooms)
  BY <1>2, RemoveAtShifts DEF RemoveClient, TypeOK, ScheduleTypes
<1>4. clients' \in [Rooms -> 0..MaxConns]
  <2>1. 0 \in 0..MaxConns
    BY NumbersAssumption
  <2> QED BY <2>1 DEF RemoveClient, TypeOK, TableTypes
<1> QED BY <1>2, <1>3, <1>4

LEMMA StrikeKeepsType ==
  ASSUME TypeOK, NEW Hs, Strike(Hs)
  PROVE  clients' \in [Rooms -> 0..MaxConns]
<1>1. \A r \in Rooms : clients[r] \in 0..MaxConns /\ 0 \in 0..MaxConns
  BY NumbersAssumption DEF TypeOK, TableTypes
<1> QED BY <1>1 DEF Strike

LEMMA RaiseKeepsType ==
  ASSUME TypeOK, NEW flag, Raise(flag)
  PROVE  wakeUp' \in [Flags -> BOOLEAN]
BY DEF TypeOK, ControlTypes, Raise

LEMMA SignalKeepsType ==
  ASSUME TypeOK, Signal
  PROVE  dpc' \in DispatcherPCs
BY DEF TypeOK, ControlTypes, Signal, DispatcherPCs

LEMMA GotoKeepsType ==
  ASSUME TypeOK, NEW h, NEW pc \in HandlerPCs, Goto(h, pc)
  PROVE  hpc' \in [Conns -> HandlerPCs]
BY DEF TypeOK, HandlerTypes, Goto

LEMMA LogKeepsType ==
  ASSUME TypeOK, NEW r, NEW level \in 0..MaxLevel \cup {NoLog},
         logTable' = [logTable EXCEPT ![r] = level]
  PROVE  logTable' \in [Rooms -> 0..MaxLevel \cup {NoLog}]
BY DEF TypeOK, TableTypes

LEMMA LevelsFacts == Levels \subseteq 0..MaxLevel /\ 0 \in 0..MaxLevel
BY NumbersAssumption DEF Levels

(* A handler that does nothing but go on.                                     *)
LEMMA GoesOn ==
  ASSUME TypeOK, NEW h \in Conns, NEW pc \in HandlerPCs, Goto(h, pc),
         UNCHANGED <<sockets, isFirst, succeed, positive, client_no, tables,
                     queue, wakeUp, lock, config, serverState, dpc, dispatcher,
                     count, staff, left>>
  PROVE  TypeOK'
<1>1. HandlerTypes'
  BY GotoKeepsType DEF TypeOK, HandlerTypes
<1> QED BY <1>1, Untouched DEF TypeOK, dispatcher

LEMMA HandlerKeepsTypes ==
  ASSUME TypeOK, NEW h \in Conns, Handler(h)
  PROVE  TypeOK'
<1> DEFINE r == RoomOf(h)
<1>0. r \in Rooms /\ h[2] \in 0..MaxConns
  BY ConnsFacts, NumbersAssumption
<1>p. HandlerPCs = {"new", "greet", "read", "ack", "bind", "register",
                    "enqueue", "dequeue", "commit", "cleanup", "remove",
                    "forget", "gone"}
  BY DEF HandlerPCs
<1> HIDE DEF r
<1>1. CASE Greet(h)
  <2>1. HandlerTypes'
    BY <1>1, <1>p, GotoKeepsType DEF Greet, TypeOK, HandlerTypes
  <2>2. SocketTypes'
    <3>1. mode \in {0, 1} /\ frequency \in Freqs
      BY DEF TypeOK, ControlTypes
    <3>2. \/ told' = told
          \/ told' = [told EXCEPT ![h].mode = mode, ![h].frequency = frequency]
      BY <1>1 DEF Greet
    <3>3. SocketTypes /\ sock' = sock
      BY <1>1 DEF Greet, TypeOK
    <3> QED BY <3>1, <3>2, <3>3 DEF SocketTypes
  <2>3. /\ UNCHANGED tables /\ UNCHANGED <<queue, oldList, previousQueueLength>>
        /\ UNCHANGED <<wakeUp, lock, config, serverState, dpc, shown, count>>
        /\ UNCHANGED <<staff, left>>
    BY <1>1 DEF Greet, dispatcher
  <2>4. TableTypes' /\ ScheduleTypes' /\ ControlTypes' /\ StaffTypes'
    BY <2>3, Untouched
  <2> QED BY <2>1, <2>2, <2>4 DEF TypeOK
<1>2. CASE LoopEnds(h)
  BY <1>2, <1>p, GoesOn DEF LoopEnds
<1>3. CASE ReadFails(h)
  BY <1>3, <1>p, GoesOn DEF ReadFails
<1>4. CASE Submit(h)
  <2>1. HandlerTypes'
    BY <1>4, <1>p, GotoKeepsType DEF Submit, TypeOK, HandlerTypes
  <2> QED BY <1>4, <2>1, Untouched DEF Submit, TypeOK, dispatcher
<1>5. ASSUME NEW right \in BOOLEAN, Login(h, right)
      PROVE  TypeOK'
  <2>1. HandlerTypes'
    BY <1>5, <1>p, GotoKeepsType DEF Login, TypeOK, HandlerTypes
  <2>2. TableTypes'
    <3>1. IpOf[RoomOf(h)] \in Ips
      BY <1>0, IpsAssumption DEF r
    <3> QED BY <1>5, <3>1 DEF Login, TypeOK, TableTypes
  <2> QED BY <1>5, <2>1, <2>2, Untouched DEF Login, TypeOK, dispatcher
<1>6. CASE Ack(h)
  <2>1. HandlerTypes'
    BY <1>6, <1>p, GotoKeepsType DEF Ack, TypeOK, HandlerTypes
  <2>2. TableTypes'
    BY <1>6 DEF Ack, TypeOK, TableTypes
  <2> QED BY <1>6, <2>1, <2>2, Untouched DEF Ack, TypeOK, dispatcher
<1>7. CASE BindLog(h)
  <2>1. HandlerTypes'
    BY <1>0, <1>7, <1>p, GotoKeepsType DEF BindLog, TypeOK, HandlerTypes, r
  <2>2. TableTypes'
    BY <1>0, <1>7, LogKeepsType, LevelsFacts DEF BindLog, PutLog, TypeOK, TableTypes, r
  <2> QED BY <1>7, <2>1, <2>2, Untouched DEF BindLog, TypeOK, dispatcher
<1>8. CASE Register(h)
  <2>1. HandlerTypes'
    BY <1>8, <1>p, GotoKeepsType DEF Register, TypeOK, HandlerTypes
  <2>2. TableTypes'
    BY <1>0, <1>8 DEF Register, TypeOK, TableTypes
  <2> QED BY <1>8, <2>1, <2>2, Untouched DEF Register, TypeOK, dispatcher
<1>9. ASSUME NEW level \in Levels, Start(h, level)
      PROVE  TypeOK'
  <2>1. HandlerTypes'
    BY <1>9, <1>p, GotoKeepsType DEF Start, TypeOK, HandlerTypes
  <2>2. TableTypes'
    BY <1>9, LogKeepsType, LevelsFacts DEF Start, TypeOK, TableTypes
  <2> QED BY <1>9, <2>1, <2>2, Untouched DEF Start, TypeOK, dispatcher
<1>10. ASSUME NEW level \in Levels, ChangeLevel(h, level)
       PROVE  TypeOK'
  <2>1. HandlerTypes'
    BY <1>10, <1>p, GotoKeepsType DEF ChangeLevel, TypeOK, HandlerTypes
  <2>2. TableTypes'
    BY <1>10, LogKeepsType, LevelsFacts DEF ChangeLevel, TypeOK, TableTypes
  <2> QED BY <1>10, <2>1, <2>2, Untouched DEF ChangeLevel, TypeOK, dispatcher
<1>11. CASE Enqueue(h)
  <2>1. HandlerTypes'
    BY <1>11, <1>p, GotoKeepsType DEF Enqueue, TypeOK, HandlerTypes
  <2>2. ScheduleTypes'
    BY <1>0, <1>11 DEF Enqueue, TypeOK, ScheduleTypes, dispatcher, r
  <2>3. ControlTypes'
    BY <1>11, RaiseKeepsType, SignalKeepsType
    DEF Enqueue, TypeOK, ControlTypes, dispatcher, config
  <2> QED BY <1>11, <2>1, <2>2, <2>3, Untouched DEF Enqueue, TypeOK
<1>12. CASE Stop(h)
  BY <1>12, <1>p, GoesOn DEF Stop
<1>13. CASE Dequeue(h)
  <2>1. HandlerTypes'
    BY <1>13, <1>p, GotoKeepsType DEF Dequeue, TypeOK, HandlerTypes
  <2>2. ScheduleTypes'
    BY <1>13, TakeOffIndex DEF Dequeue, TypeOK, ScheduleTypes, dispatcher
  <2>3. ControlTypes'
    BY <1>13, RaiseKeepsType, SignalKeepsType
    DEF Dequeue, Rest, TypeOK, ControlTypes, dispatcher, config
  <2> QED BY <1>13, <2>1, <2>2, <2>3, Untouched DEF Dequeue, TypeOK
<1>14. CASE Commit(h)
  <2>1. HandlerTypes'
    BY <1>14, <1>p, GotoKeepsType DEF Commit, TypeOK, HandlerTypes
  <2> QED BY <1>14, <2>1, Untouched DEF Commit, TypeOK, dispatcher
<1>15. CASE CleanUp(h)
  <2>1. HandlerTypes'
    BY <1>15, <1>p, GotoKeepsType DEF CleanUp, TypeOK, HandlerTypes
  <2> QED BY <1>15, <2>1, Untouched DEF CleanUp, TypeOK, dispatcher
<1>16. CASE CleanRemove(h)
  <2>1. HandlerTypes'
    BY <1>16, <1>p, GotoKeepsType DEF CleanRemove, TypeOK, HandlerTypes
  <2>2. client_no[h] \in Rooms \cup {0}
    BY DEF TypeOK, HandlerTypes
  <2>3. ScheduleTypes' /\ TableTypes'
    BY <1>16, <2>2, RemoveClientIndex
    DEF CleanRemove, TypeOK, ScheduleTypes, TableTypes, dispatcher
  <2>4. ControlTypes'
    BY <1>16, RaiseKeepsType, SignalKeepsType
    DEF CleanRemove, RemoveClient, TypeOK, ControlTypes, dispatcher, config
  <2> QED BY <1>16, <2>1, <2>3, <2>4, Untouched DEF CleanRemove, TypeOK
<1>17. CASE Forget(h)
  <2>1. HandlerTypes'
    BY <1>17, <1>p, GotoKeepsType DEF Forget, TypeOK, HandlerTypes
  <2>2. TableTypes'
    BY <1>17, LogKeepsType DEF Forget, TypeOK, TableTypes
  <2> QED BY <1>17, <2>1, <2>2, Untouched DEF Forget, TypeOK, dispatcher
<1> QED BY <1>1, <1>2, <1>3, <1>4, <1>5, <1>6, <1>7, <1>8, <1>9, <1>10, <1>11,
           <1>12, <1>13, <1>14, <1>15, <1>16, <1>17 DEF Handler

LEMMA StaffKeepsTypes ==
  ASSUME TypeOK, Staff
  PROVE  TypeOK'
<1>p. StaffPCs = {"idle", "close", "contains", "remove", "test", "commit", "settle"}
  BY DEF StaffPCs
<1>r. Registered \subseteq Conns
  BY DEF Registered
<1>1. CASE SetMode
  <2>1. ControlTypes'
    BY <1>1, RaiseKeepsType, SignalKeepsType
    DEF SetMode, TypeOK, ControlTypes, dispatcher
  <2>2. StaffTypes'
    BY <1>1, <1>r DEF SetMode, TypeOK, StaffTypes
  <2> QED BY <1>1, <2>1, <2>2, Untouched DEF SetMode, TypeOK, dispatcher
<1>2. ASSUME NEW freq \in Freqs, SetFreq(freq)
      PROVE  TypeOK'
  <2>1. ControlTypes'
    BY <1>2, RaiseKeepsType, SignalKeepsType
    DEF SetFreq, TypeOK, ControlTypes, dispatcher
  <2>2. StaffTypes'
    BY <1>2, <1>r DEF SetFreq, TypeOK, StaffTypes
  <2> QED BY <1>2, <2>1, <2>2, Untouched DEF SetFreq, TypeOK, dispatcher
<1>3. ASSUME NEW r \in Rooms, AssignClient(r)
      PROVE  TypeOK'
  <2>1. TableTypes'
    BY <1>3 DEF AssignClient, TypeOK, TableTypes
  <2> QED BY <1>3, <2>1, Untouched DEF AssignClient, TypeOK, dispatcher
<1>4. ASSUME NEW r \in Rooms, CheckOutAbsent(r)
      PROVE  TypeOK'
  <2>1. TableTypes'
    BY <1>4 DEF CheckOutAbsent, TypeOK, TableTypes
  <2>2. StaffTypes'
    BY <1>4 DEF CheckOutAbsent, TypeOK, StaffTypes, staff
  <2> QED BY <1>4, <2>1, <2>2, Untouched DEF CheckOutAbsent, TypeOK, dispatcher
<1>5. ASSUME NEW r \in Rooms, CheckOut(r)
      PROVE  TypeOK'
  <2>1. StaffTypes'
    BY <1>5, <1>p DEF CheckOut, TypeOK, StaffTypes
  <2> QED BY <1>5, <2>1, Untouched DEF CheckOut, TypeOK, dispatcher
<1>6. CASE CheckOutClose
  <2>1. SocketTypes'
    BY <1>6 DEF CheckOutClose, TypeOK, SocketTypes
  <2>2. StaffTypes'
    BY <1>6, <1>p DEF CheckOutClose, TypeOK, StaffTypes
  <2> QED BY <1>6, <2>1, <2>2, Untouched DEF CheckOutClose, TypeOK, dispatcher
<1>7. CASE CheckOutContains
  <2>1. StaffTypes'
    BY <1>7, <1>p DEF CheckOutContains, TypeOK, StaffTypes
  <2> QED BY <1>7, <2>1, Untouched DEF CheckOutContains, TypeOK, dispatcher
<1>8. CASE CheckOutRemove
  <2>1. sroom \in Rooms \cup {0}
    BY DEF TypeOK, StaffTypes
  <2>2. ScheduleTypes' /\ TableTypes'
    BY <1>8, <2>1, RemoveClientIndex
    DEF CheckOutRemove, TypeOK, ScheduleTypes, TableTypes, dispatcher
  <2>3. ControlTypes'
    BY <1>8, RaiseKeepsType, SignalKeepsType
    DEF CheckOutRemove, RemoveClient, TypeOK, ControlTypes, dispatcher, config
  <2>4. StaffTypes'
    BY <1>8, <1>p DEF CheckOutRemove, TypeOK, StaffTypes
  <2> QED BY <1>8, <2>2, <2>3, <2>4, Untouched DEF CheckOutRemove, TypeOK
<1>9. CASE CheckOutTest
  <2>1. StaffTypes'
    BY <1>9, <1>p DEF CheckOutTest, TypeOK, StaffTypes
  <2> QED BY <1>9, <2>1, Untouched DEF CheckOutTest, TypeOK, dispatcher
<1>10. CASE CheckOutCommit
  <2>1. TableTypes'
    BY <1>10, LogKeepsType DEF CheckOutCommit, TypeOK, TableTypes
  <2>2. StaffTypes'
    BY <1>10, <1>p DEF CheckOutCommit, TypeOK, StaffTypes
  <2> QED BY <1>10, <2>1, <2>2, Untouched DEF CheckOutCommit, TypeOK, dispatcher
<1>11. CASE CheckOutSettle
  <2>1. TableTypes'
    BY <1>11 DEF CheckOutSettle, TypeOK, TableTypes
  <2>2. StaffTypes'
    BY <1>11, <1>p DEF CheckOutSettle, TypeOK, StaffTypes
  <2> QED BY <1>11, <2>1, <2>2, Untouched DEF CheckOutSettle, TypeOK, dispatcher
<1> QED BY <1>1, <1>2, <1>3, <1>4, <1>5, <1>6, <1>7, <1>8, <1>9, <1>10, <1>11
    DEF Staff

(* What the Dispatcher sends does not change the type of what is told.        *)
LEMMA BroadcastKeepsTypes ==
  ASSUME TypeOK, UNCHANGED sock,
         UNCHANGED <<logTable, energyTable, IPTable, roomInfo>>,
         \/ Broadcast("mode", mode)
         \/ Broadcast("frequency", frequency)
  PROVE  SocketTypes' /\ TableTypes'
<1>1. mode \in {0, 1} /\ frequency \in Freqs
  BY DEF TypeOK, ControlTypes
<1>2. SocketTypes'
  BY <1>1 DEF Broadcast, TypeOK, SocketTypes
<1>3. TableTypes'
  BY StrikeKeepsType DEF Broadcast, TypeOK, TableTypes
<1> QED BY <1>2, <1>3

LEMMA SendWindKeepsTypes ==
  ASSUME TypeOK, NEW rooms, NEW picked, SendWind(rooms, picked),
         UNCHANGED <<sock, logTable, energyTable, IPTable, roomInfo>>
  PROVE  SocketTypes' /\ TableTypes'
<1>1. SocketTypes'
  BY DEF SendWind, TypeOK, SocketTypes
<1>2. TableTypes'
  BY StrikeKeepsType DEF SendWind, TypeOK, TableTypes
<1> QED BY <1>1, <1>2

LEMMA SelectedFits ==
  ASSUME TypeOK
  PROVE  /\ Selected \in Seq(Rooms)
         /\ Len(queue) <= Slots => Selected = queue
         /\ Len(queue) > Slots => Len(Selected) = Slots
         /\ ToSet(Selected) \subseteq ToSet(queue)
BY WindowFits DEF TypeOK, ScheduleTypes, Selected

LEMMA DispatcherKeepsTypes ==
  ASSUME TypeOK, Dispatcher \/ WakeSpuriously
  PROVE  TypeOK'
<1>p. DispatcherPCs = {"start", "wait", "woken", "mode", "freq", "schedule",
                       "fare", "tail", "dead"}
  BY DEF DispatcherPCs
<1>1. CASE Await
  <2>1. ControlTypes'
    BY <1>1, <1>p DEF Await, TypeOK, ControlTypes, config, dispatcher
  <2> QED BY <1>1, <2>1, Untouched DEF Await, TypeOK, dispatcher
<1>2. CASE WakeSpuriously
  <2>1. ControlTypes'
    BY <1>2, <1>p DEF WakeSpuriously, TypeOK, ControlTypes, config, dispatcher
  <2> QED BY <1>2, <2>1, Untouched DEF WakeSpuriously, TypeOK, dispatcher
<1>3. CASE Relock
  <2>1. ControlTypes'
    BY <1>3, <1>p DEF Relock, TypeOK, ControlTypes, config, dispatcher
  <2> QED BY <1>3, <2>1, Untouched DEF Relock, TypeOK, dispatcher
<1>4. CASE InformMode
  <2>1. ControlTypes'
    BY <1>4, <1>p DEF InformMode, TypeOK, ControlTypes, config, dispatcher
  <2>2. SocketTypes' /\ TableTypes'
    BY <1>4, BroadcastKeepsTypes DEF InformMode
  <2> QED BY <1>4, <2>1, <2>2, Untouched DEF InformMode, TypeOK, dispatcher
<1>5. CASE InformFreq
  <2>1. ControlTypes'
    BY <1>5, <1>p DEF InformFreq, TypeOK, ControlTypes, config, dispatcher
  <2>2. SocketTypes' /\ TableTypes'
    BY <1>5, BroadcastKeepsTypes DEF InformFreq
  <2> QED BY <1>5, <2>1, <2>2, Untouched DEF InformFreq, TypeOK, dispatcher
<1>6. CASE SkipSchedule
  <2>1. ControlTypes'
    BY <1>6, <1>p DEF SkipSchedule, TypeOK, ControlTypes, config, dispatcher
  <2> QED BY <1>6, <2>1, Untouched DEF SkipSchedule, TypeOK, dispatcher
<1>7. CASE Schedule
  <2>1. ControlTypes'
    BY <1>7, <1>p DEF Schedule, TypeOK, ControlTypes, config
  <2>2. SocketTypes' /\ TableTypes'
    BY <1>7, SendWindKeepsTypes DEF Schedule
  <2>3. ScheduleTypes'
    BY <1>7, SelectedFits DEF Schedule, TypeOK, ScheduleTypes
  <2> QED BY <1>7, <2>1, <2>2, <2>3, Untouched DEF Schedule, TypeOK
<1>8. CASE ScheduleFails
  <2>1. ControlTypes'
    BY <1>8, <1>p DEF ScheduleFails, TypeOK, ControlTypes, config, dispatcher
  <2>2. SocketTypes' /\ TableTypes'
    BY <1>8, SendWindKeepsTypes DEF ScheduleFails
  <2> QED BY <1>8, <2>1, <2>2, Untouched DEF ScheduleFails, TypeOK, dispatcher
<1>9. CASE Fare
  <2>1. ControlTypes'
    BY <1>9, <1>p DEF Fare, TypeOK, ControlTypes, config, dispatcher
  <2>2. TableTypes'
    BY <1>9, StrikeKeepsType DEF Fare, TypeOK, TableTypes
  <2> QED BY <1>9, <2>1, <2>2, Untouched DEF Fare, TypeOK, dispatcher
<1>10. CASE Remember
  <2>1. ControlTypes'
    BY <1>10, <1>p DEF Remember, TypeOK, ControlTypes, config
  <2>2. ScheduleTypes'
    BY <1>10 DEF Remember, TypeOK, ScheduleTypes
  <2> QED BY <1>10, <2>1, <2>2, Untouched DEF Remember, TypeOK
<1> QED BY <1>1, <1>2, <1>3, <1>4, <1>5, <1>6, <1>7, <1>8, <1>9, <1>10 DEF Dispatcher

LEMMA NextKeepsTypes ==
  ASSUME TypeOK, [Next]_vars
  PROVE  TypeOK'
<1>1. ASSUME NEW h \in Conns, Connect(h)
      PROVE  TypeOK'
  <2>1. SocketTypes'
    BY <1>1 DEF Connect, TypeOK, SocketTypes
  <2>2. HandlerTypes'
    BY <1>1 DEF Connect, TypeOK, HandlerTypes, HandlerPCs
  <2> QED BY <1>1, <2>1, <2>2, Untouched DEF Connect, TypeOK, dispatcher
<1>2. ASSUME NEW h \in Conns, Drop(h)
      PROVE  TypeOK'
  <2>1. SocketTypes'
    BY <1>2 DEF Drop, TypeOK, SocketTypes
  <2>2. StaffTypes'
    BY <1>2 DEF Drop, TypeOK, StaffTypes, staff
  <2> QED BY <1>2, <2>1, <2>2, Untouched DEF Drop, TypeOK, dispatcher
<1>3. CASE Expire
  <2>1. ControlTypes'
    <3>1. count' \in 0..(MaxCount - 1)
      BY <1>3, NumbersAssumption DEF Expire, Full, TypeOK, ControlTypes
    <3>2. wakeUp' \in [Flags -> BOOLEAN]
      BY <1>3 DEF Expire, TypeOK, ControlTypes
    <3> QED BY <1>3, <3>1, <3>2, SignalKeepsType
            DEF Expire, TypeOK, ControlTypes, config, dispatcher
  <2> QED BY <1>3, <2>1, Untouched DEF Expire, TypeOK, dispatcher
<1>4. CASE UNCHANGED vars
  BY <1>4, Untouched DEF vars, TypeOK, dispatcher
<1> QED BY <1>1, <1>2, <1>3, <1>4, HandlerKeepsTypes, StaffKeepsTypes,
           DispatcherKeepsTypes DEF Next

LEMMA InitTypes ==
  ASSUME Init
  PROVE  TypeOK
<1> USE DEF Init, InitWith, Budget
<1>1. SocketTypes
  BY DEF SocketTypes
<1>2. HandlerTypes
  BY DEF HandlerTypes, HandlerPCs
<1>3. TableTypes
  <2>1. 0 \in 0..MaxConns
    BY NumbersAssumption
  <2> QED BY <2>1 DEF TableTypes
<1>4. ScheduleTypes
  BY DEF ScheduleTypes
<1>5. ControlTypes
  BY NumbersAssumption, FreqsAssumption DEF ControlTypes, DispatcherPCs
<1>6. StaffTypes
  BY NumbersAssumption DEF StaffTypes, StaffPCs
<1> QED BY <1>1, <1>2, <1>3, <1>4, <1>5, <1>6 DEF TypeOK

(* Every table, queue and local of the Center keeps its type, whatever the    *)
(* handlers, the staff, the timer, the Dispatcher and the network do.         *)
THEOREM CenterTypes == Spec => []TypeOK
<1>1. Init => TypeOK
  BY InitTypes
<1>2. TypeOK /\ [Next]_vars => TypeOK'
  BY NextKeepsTypes
<1> QED BY <1>1, <1>2, PTL DEF Spec

-----------------------------------------------------------------------------
(* What a step does to the queue and the window. There are five kinds.        *)

Moved == <<queue, oldList, wakeUp["queueChanged"]>>

Joins == /\ \E r \in Rooms : queue' = Append(queue, r)
         /\ wakeUp'["queueChanged"] = TRUE
         /\ serverState' = "On"
         /\ oldList' = oldList

Leaves == /\ \E i \in DOMAIN queue : queue' = RemoveAt(queue, i)
          /\ wakeUp'["queueChanged"] = TRUE
          /\ queue' # <<>> => serverState' = serverState
          /\ oldList' = oldList

Schedules == /\ queue' = queue
             /\ oldList' = Window(queue, oldList)
             /\ wakeUp'["queueChanged"] = FALSE
             /\ queue # <<>> => serverState' = "On"

Fails == /\ UNCHANGED Moved
         /\ queue # <<>> => serverState' = "On"

Rests == UNCHANGED <<Moved, serverState>>

LEMMA RaiseQueueChanged ==
  ASSUME TypeOK, Raise("queueChanged")
  PROVE  wakeUp'["queueChanged"] = TRUE
BY DEF TypeOK, ControlTypes, Raise, Flags

LEMMA RaiseOther ==
  ASSUME TypeOK, NEW flag, flag # "queueChanged", Raise(flag)
  PROVE  wakeUp'["queueChanged"] = wakeUp["queueChanged"]
BY DEF TypeOK, ControlTypes, Raise, Flags

LEMMA HandlerKinds ==
  ASSUME TypeOK, NEW h \in Conns, Handler(h)
  PROVE  (Enqueue(h) /\ Joins) \/ Leaves \/ Rests
<1>1. CASE Enqueue(h)
  BY <1>1, ConnsFacts, RaiseQueueChanged DEF Enqueue, Joins, dispatcher
<1>2. CASE Dequeue(h)
  <2>1. CASE InQueue(RoomOf(h)) /\ queue' = TakeOff(RoomOf(h))
    <3>1. \E i \in DOMAIN queue : queue' = RemoveAt(queue, i)
      BY <2>1, TakeOffIndex
    <3>2. Raise("queueChanged") /\ serverState' = Rest(queue') /\ UNCHANGED dispatcher
      BY <1>2, <2>1 DEF Dequeue
    <3> QED BY <3>1, <3>2, RaiseQueueChanged DEF Leaves, Rest, dispatcher
  <2>2. CASE UNCHANGED <<queue, wakeUp, serverState>>
    BY <1>2, <2>2 DEF Dequeue, Rests, Moved, dispatcher
  <2> QED BY <1>2, <2>1, <2>2 DEF Dequeue
<1>3. CASE CleanRemove(h)
  <2>1. CASE RemoveClient(client_no[h]) /\ client_no[h] < Len(queue)
    <3>1. client_no[h] \in Rooms \cup {0}
      BY DEF TypeOK, HandlerTypes
    <3>2. \E i \in DOMAIN queue : queue' = RemoveAt(queue, i)
      BY <2>1, <3>1, RemoveClientIndex DEF RemoveClient
    <3>3. Raise("queueChanged") /\ UNCHANGED <<serverState, dispatcher>>
      BY <1>3, <2>1 DEF CleanRemove, RemoveClient
    <3> QED BY <3>2, <3>3, RaiseQueueChanged DEF Leaves, dispatcher
  <2>2. CASE UNCHANGED <<queue, wakeUp>>
    BY <1>3, <2>2 DEF CleanRemove, Rests, Moved, dispatcher
  <2> QED BY <1>3, <2>1, <2>2 DEF CleanRemove
<1>4. ASSUME UNCHANGED <<queue, wakeUp, serverState, dispatcher>>
      PROVE  Rests
  BY <1>4 DEF Rests, Moved, dispatcher
<1>5. CASE Greet(h) \/ LoopEnds(h) \/ ReadFails(h) \/ Submit(h)
           \/ Ack(h) \/ BindLog(h) \/ Register(h) \/ Stop(h) \/ Commit(h)
           \/ CleanUp(h) \/ Forget(h)
  BY <1>4, <1>5 DEF Greet, LoopEnds, ReadFails, Submit, Ack, BindLog, Register,
                    Stop, Commit, CleanUp, Forget
<1>6. ASSUME NEW right \in BOOLEAN, Login(h, right)
      PROVE  Rests
  BY <1>4, <1>6 DEF Login
<1>7. ASSUME NEW level \in Levels, Start(h, level) \/ ChangeLevel(h, level)
      PROVE  Rests
  BY <1>4, <1>7 DEF Start, ChangeLevel
<1> QED BY <1>1, <1>2, <1>3, <1>5, <1>6, <1>7 DEF Handler

LEMMA StaffKinds ==
  ASSUME TypeOK, Staff
  PROVE  Leaves \/ Rests
<1>1. CASE CheckOutRemove
  <2>1. CASE RemoveClient(sroom) /\ sroom < Len(queue)
    <3>1. sroom \in Rooms \cup {0}
      BY DEF TypeOK, StaffTypes
    <3>2. \E i \in DOMAIN queue : queue' = RemoveAt(queue, i)
      BY <2>1, <3>1, RemoveClientIndex DEF RemoveClient
    <3>3. Raise("queueChanged") /\ UNCHANGED <<serverState, dispatcher>>
      BY <1>1, <2>1 DEF CheckOutRemove, RemoveClient
    <3> QED BY <3>2, <3>3, RaiseQueueChanged DEF Leaves, dispatcher
  <2>2. CASE UNCHANGED <<queue, wakeUp>>
    BY <1>1, <2>2 DEF CheckOutRemove, Rests, Moved, dispatcher
  <2> QED BY <1>1, <2>1, <2>2 DEF CheckOutRemove
<1>2. CASE SetMode
  BY <1>2, RaiseOther DEF SetMode, Rests, Moved, dispatcher
<1>3. ASSUME NEW freq \in Freqs, SetFreq(freq)
      PROVE  Rests
  BY <1>3, RaiseOther DEF SetFreq, Rests, Moved, dispatcher
<1>4. ASSUME UNCHANGED <<queue, wakeUp, serverState, dispatcher>>
      PROVE  Rests
  BY <1>4 DEF Rests, Moved, dispatcher
<1>5. ASSUME NEW r \in Rooms, AssignClient(r) \/ CheckOutAbsent(r) \/ CheckOut(r)
      PROVE  Rests
  BY <1>4, <1>5 DEF AssignClient, CheckOutAbsent, CheckOut
<1>6. CASE \/ CheckOutClose \/ CheckOutContains
           \/ CheckOutTest \/ CheckOutCommit \/ CheckOutSettle
  BY <1>4, <1>6 DEF CheckOutClose, CheckOutContains, CheckOutTest, CheckOutCommit,
                    CheckOutSettle
<1> QED BY <1>1, <1>2, <1>3, <1>5, <1>6 DEF Staff

LEMMA DispatcherKinds ==
  ASSUME TypeOK, Dispatcher \/ WakeSpuriously
  PROVE  Schedules \/ Fails \/ Rests
<1>w. wakeUp \in [Flags -> BOOLEAN]
  BY DEF TypeOK, ControlTypes
<1>1. CASE Schedule
  BY <1>1, <1>w DEF Schedule, Schedules, Selected, Flags
<1>2. CASE ScheduleFails
  BY <1>2 DEF ScheduleFails, Fails, Moved, dispatcher
<1>3. CASE InformMode
  BY <1>3, <1>w DEF InformMode, Rests, Moved, dispatcher, Flags
<1>4. CASE InformFreq
  BY <1>4, <1>w DEF InformFreq, Rests, Moved, dispatcher, Flags
<1>5. CASE Fare
  BY <1>5, <1>w DEF Fare, Rests, Moved, dispatcher, Flags
<1>6. CASE Await \/ WakeSpuriously \/ Relock \/ SkipSchedule \/ Remember
  BY <1>6 DEF Await, WakeSpuriously, Relock, SkipSchedule, Remember, Rests,
              Moved, dispatcher
<1> QED BY <1>1, <1>2, <1>3, <1>4, <1>5, <1>6 DEF Dispatcher

LEMMA FiveKinds ==
  ASSUME TypeOK, [Next]_vars
  PROVE  Joins \/ Leaves \/ Schedules \/ Fails \/ Rests
<1>w. wakeUp \in [Flags -> BOOLEAN]
  BY DEF TypeOK, ControlTypes
<1>1. ASSUME NEW h \in Conns, Connect(h) \/ Drop(h)
      PROVE  Rests
  BY <1>1 DEF Connect, Drop, Rests, Moved, dispatcher
<1>2. CASE Expire
  BY <1>2, <1>w DEF Expire, Rests, Moved, dispatcher, Flags
<1>3. CASE UNCHANGED vars
  BY <1>3 DEF vars, Rests, Moved, dispatcher
<1> QED BY <1>1, <1>2, <1>3, HandlerKinds, StaffKinds, DispatcherKinds DEF Next

-----------------------------------------------------------------------------
(* The Center is never idle while a room waits for wind.                      *)
THEOREM CenterOnWhileQueued == Spec => []OnWhileQueued
<1>1. Init => OnWhileQueued
  BY DEF Init, InitWith, Budget, OnWhileQueued
<1>2. TypeOK /\ OnWhileQueued /\ [Next]_vars => OnWhileQueued'
  <2> SUFFICES ASSUME TypeOK, OnWhileQueued, [Next]_vars, queue' # <<>>
               PROVE  serverState' = "On"
    BY DEF OnWhileQueued
  <2>1. CASE Joins
    BY <2>1 DEF Joins
  <2>2. CASE Leaves
    <3>1. PICK i \in DOMAIN queue : queue' = RemoveAt(queue, i)
      BY <2>2 DEF Leaves
    <3>2. queue # <<>>
      BY <3>1
    <3> QED BY <2>2, <3>2 DEF Leaves, OnWhileQueued
  <2>3. CASE Schedules
    BY <2>3 DEF Schedules
  <2>4. CASE Fails
    BY <2>4 DEF Fails, Moved
  <2>5. CASE Rests
    BY <2>5 DEF Rests, Moved, OnWhileQueued
  <2> QED BY <2>1, <2>2, <2>3, <2>4, <2>5, FiveKinds
<1> QED BY <1>1, <1>2, CenterTypes, PTL DEF Spec

(* No change of the queue is lost on the Dispatcher: without queueChanged the *)
(* last window is a right one for the queue as it is.                         *)
THEOREM CenterSettled == Spec => []Settled
<1>1. Init => Settled
  BY SlotsAssumption DEF Init, InitWith, Settled
<1>2. TypeOK /\ Settled /\ [Next]_vars => Settled'
  <2> SUFFICES ASSUME TypeOK, Settled, [Next]_vars
               PROVE  Settled'
    OBVIOUS
  <2>1. CASE Joins
    BY <2>1 DEF Joins, Settled
  <2>2. CASE Leaves
    BY <2>2 DEF Leaves, Settled
  <2>3. CASE Schedules
    <3>1. oldList' = Selected /\ queue' = queue
      BY <2>3 DEF Schedules, Selected
    <3> QED BY <3>1, SelectedFits DEF Settled
  <2>4. CASE Fails \/ Rests
    BY <2>4 DEF Fails, Rests, Moved, Settled
  <2> QED BY <2>1, <2>2, <2>3, <2>4, FiveKinds
<1> QED BY <1>1, <1>2, CenterTypes, PTL DEF Spec

(* The threads of the Center implement the rotation: with all tables, locks   *)
(* and lost signals around it, queue and window move only as Rotation says.   *)
THEOREM CenterRotates == Spec => RotationSteps
<1>1. Init => Rotates!Init
  BY DEF Init, InitWith, Budget, Rotates!Init, Flags
<1>2. TypeOK /\ [Next]_vars => [Rotates!Next]_(Rotates!vars)
  <2> SUFFICES ASSUME TypeOK, [Next]_vars
               PROVE  [Rotates!Next]_(Rotates!vars)
    OBVIOUS
  <2>1. CASE Joins
    BY <2>1 DEF Joins, Rotates!Next, Rotates!Join
  <2>2. CASE Leaves
    <3>1. PICK i \in DOMAIN queue : queue' = RemoveAt(queue, i)
      BY <2>2 DEF Leaves
    <3>2. Rotates!Leave(i)
      BY <2>2, <3>1 DEF Leaves, Rotates!Leave, Rotates!RemoveAt, RemoveAt
    <3> QED BY <3>2 DEF Rotates!Next
  <2>3. CASE Schedules
    BY <2>3 DEF Schedules, Rotates!Next, Rotates!Reschedule, Rotates!Window, Window,
                Rotates!Opening, Opening, Rotates!IndexOf, IndexOf
  <2>4. CASE Fails \/ Rests
    BY <2>4 DEF Fails, Rests, Moved, Rotates!vars
  <2> QED BY <2>1, <2>2, <2>3, <2>4, FiveKinds
<1> QED BY <1>1, <1>2, CenterTypes, PTL DEF Spec, RotationSteps

-----------------------------------------------------------------------------
(* The Dispatcher meets no null pointer as long as nobody is checked out. The *)
(* invariant behind it: while no socket is closed by the Center, no handler   *)
(* cleans up and the event thread is in no checkout past its first step, so   *)
(* nothing takes a log away, and a handler on its way to register or to queue *)
(* its room has given it one.                                                 *)
NobodySettles ==
  /\ spc = "idle" \/ (spc = "close" /\ sroom \in Rooms)
  /\ \A h \in Conns : hpc[h] \notin {"cleanup", "remove", "forget"}

LogsFirst ==
  \A h \in Conns : hpc[h] \in {"register", "enqueue"} => logTable[RoomOf(h)] # NoLog

Logged ==
  /\ dpc # "dead"
  /\ \A r \in Rooms : clients[r] # 0 \/ Contains(queue, r) => logTable[r] # NoLog

Lives == TypeOK /\ (NobodyCheckedOut => NobodySettles /\ LogsFirst /\ Logged)

(* A socket the Center has closed is never open again.                        *)
LEMMA ClosedStays ==
  ASSUME TypeOK, [Next]_vars, NobodyCheckedOut'
  PROVE  NobodyCheckedOut
<1> SUFFICES ASSUME NEW g \in Conns, sock[g] = "closed"
             PROVE  sock'[g] = "closed"
  BY DEF NobodyCheckedOut
<1>t. sock \in [Conns -> {"none", "open", "dropped", "closed"}]
  BY DEF TypeOK, SocketTypes
<1>1. ASSUME NEW h \in Conns, Handler(h)
      PROVE  UNCHANGED sock
  BY <1>1 DEF Handler, Greet, LoopEnds, ReadFails, Submit, Login, Ack, BindLog,
              Register, Start, ChangeLevel, Enqueue, Stop, Dequeue, Commit,
              CleanUp, CleanRemove, Forget, sockets
<1>2. ASSUME NEW h \in Conns, Connect(h) \/ Drop(h)
      PROVE  sock'[g] = "closed"
  BY <1>2, <1>t DEF Connect, Drop
<1>3. CASE CheckOutClose
  BY <1>3, <1>t DEF CheckOutClose
<1>4. CASE Staff /\ ~CheckOutClose
  BY <1>4 DEF Staff, SetMode, SetFreq, AssignClient, CheckOutAbsent, CheckOut,
              CheckOutContains, CheckOutRemove, CheckOutTest, CheckOutCommit,
              CheckOutSettle, sockets
<1>5. CASE Expire \/ WakeSpuriously \/ Dispatcher
  BY <1>5 DEF Expire, WakeSpuriously, Dispatcher, Await, Relock, InformMode,
              InformFreq, SkipSchedule, Schedule, ScheduleFails, Fare, Remember,
              sockets, Broadcast, SendWind
<1>6. CASE UNCHANGED vars
  BY <1>6 DEF vars, sockets
<1> QED BY <1>1, <1>2, <1>3, <1>4, <1>5, <1>6 DEF Next

LEMMA NobodySettlesStays ==
  ASSUME TypeOK, NobodySettles, NobodyCheckedOut, NobodyCheckedOut', [Next]_vars
  PROVE  NobodySettles'
<1> USE DEF NobodySettles
<1>t. /\ hpc \in [Conns -> HandlerPCs]
      /\ sock \in [Conns -> {"none", "open", "dropped", "closed"}]
  BY DEF TypeOK, HandlerTypes, SocketTypes
<1>1. ASSUME NEW h \in Conns, Handler(h)
      PROVE  NobodySettles'
  <2>1. UNCHANGED <<spc, sroom>>
    BY <1>1 DEF Handler, Greet, LoopEnds, ReadFails, Submit, Login, Ack, BindLog,
                Register, Start, ChangeLevel, Enqueue, Stop, Dequeue, Commit,
                CleanUp, CleanRemove, Forget, staff
  <2>2. ~LoopEnds(h)
    BY DEF LoopEnds, NobodyCheckedOut
  <2>3. \A g \in Conns : hpc'[g] \notin {"cleanup", "remove", "forget"}
    BY <1>1, <1>t, <2>2
    DEF Handler, Greet, ReadFails, Submit, Login, Ack, BindLog, Register, Start,
        ChangeLevel, Enqueue, Stop, Dequeue, Commit, CleanUp, CleanRemove, Forget,
        Goto
  <2> QED BY <2>1, <2>3
<1>2. ASSUME NEW h \in Conns, Connect(h) \/ Drop(h)
      PROVE  NobodySettles'
  <2>1. \A g \in Conns : hpc'[g] \notin {"cleanup", "remove", "forget"}
    BY <1>2, <1>t DEF Connect, Drop, handlers
  <2>2. UNCHANGED <<spc, sroom>>
    BY <1>2 DEF Connect, Drop, staff
  <2> QED BY <2>1, <2>2
<1>3. CASE SetMode \/ \E freq \in Freqs : SetFreq(freq)
  BY <1>3 DEF SetMode, SetFreq, handlers
<1>4. ASSUME NEW r \in Rooms, AssignClient(r) \/ CheckOutAbsent(r) \/ CheckOut(r)
      PROVE  NobodySettles'
  BY <1>4 DEF AssignClient, CheckOutAbsent, CheckOut, handlers, staff
<1>5. CASE CheckOutClose
  <2>1. UNCHANGED hpc
    BY <1>5 DEF CheckOutClose, handlers
  <2>2. ASSUME clients[sroom] # 0
        PROVE  <<sroom, clients[sroom]>> \in Conns
    BY <1>5, <2>2 DEF CheckOutClose, TypeOK, TableTypes, Conns
  <2>3. spc' # "contains"
    BY <1>5, <1>t, <2>2 DEF CheckOutClose, NobodyCheckedOut
  <2> QED BY <1>5, <2>1, <2>3 DEF CheckOutClose
<1>6. ~(\/ CheckOutContains \/ CheckOutRemove
        \/ CheckOutTest \/ CheckOutCommit \/ CheckOutSettle)
  BY DEF CheckOutContains, CheckOutRemove, CheckOutTest, CheckOutCommit,
         CheckOutSettle
<1>7. CASE Expire \/ WakeSpuriously \/ Dispatcher
  BY <1>7 DEF Expire, WakeSpuriously, Dispatcher, Await, Relock, InformMode,
              InformFreq, SkipSchedule, Schedule, ScheduleFails, Fare, Remember,
              handlers, staff
<1>8. CASE UNCHANGED vars
  BY <1>8 DEF vars, handlers, staff
<1> QED BY <1>1, <1>2, <1>3, <1>4, <1>5, <1>6, <1>7, <1>8 DEF Next, Staff

LEMMA LogsStay ==
  ASSUME TypeOK, NobodySettles, [Next]_vars, NEW r \in Rooms, logTable[r] # NoLog
  PROVE  logTable'[r] # NoLog
<1>t. logTable \in [Rooms -> 0..MaxLevel \cup {NoLog}]
  BY DEF TypeOK, TableTypes
<1>l. 0 # NoLog /\ \A level \in Levels : level # NoLog
  BY DEF Levels, NoLog
<1>1. ASSUME NEW h \in Conns, Handler(h)
      PROVE  logTable'[r] # NoLog
  <2>1. CASE BindLog(h)
    BY <1>t, <1>l, <2>1 DEF BindLog, PutLog
  <2>2. ASSUME NEW level \in Levels, Start(h, level) \/ ChangeLevel(h, level)
        PROVE  logTable'[r] # NoLog
    BY <1>t, <1>l, <2>2 DEF Start, ChangeLevel
  <2>3. ~Forget(h)
    BY DEF Forget, NobodySettles
  <2>4. ASSUME NEW right \in BOOLEAN, Login(h, right)
        PROVE  logTable'[r] # NoLog
    BY <2>4 DEF Login
  <2>5. CASE Greet(h) \/ LoopEnds(h) \/ ReadFails(h) \/ Submit(h)
             \/ Ack(h) \/ Register(h) \/ Stop(h) \/ Commit(h)
             \/ CleanUp(h) \/ Enqueue(h) \/ Dequeue(h) \/ CleanRemove(h)
    BY <2>5 DEF Greet, LoopEnds, ReadFails, Submit, Ack, Register, Stop, Commit,
                CleanUp, Enqueue, Dequeue, CleanRemove, tables
  <2> QED BY <1>1, <2>1, <2>2, <2>3, <2>4, <2>5 DEF Handler
<1>2. ~CheckOutCommit
  BY DEF CheckOutCommit, NobodySettles
<1>3. CASE Staff
  BY <1>2, <1>3 DEF Staff, SetMode, SetFreq, AssignClient, CheckOutAbsent, CheckOut,
              CheckOutClose, CheckOutContains, CheckOutRemove, CheckOutTest,
              CheckOutSettle, tables
<1>4. CASE Expire \/ WakeSpuriously \/ Dispatcher
  BY <1>4 DEF Expire, WakeSpuriously, Dispatcher, Await, Relock, InformMode,
              InformFreq, SkipSchedule, Schedule, ScheduleFails, Fare, Remember,
              tables
<1>5. ASSUME NEW h \in Conns, Connect(h) \/ Drop(h)
      PROVE  logTable'[r] # NoLog
  BY <1>5 DEF Connect, Drop, tables
<1>6. CASE UNCHANGED vars
  BY <1>6 DEF vars, tables
<1> QED BY <1>1, <1>3, <1>4, <1>5, <1>6 DEF Next

LEMMA LogsFirstStays ==
  ASSUME TypeOK, NobodySettles, LogsFirst, [Next]_vars
  PROVE  LogsFirst'
<1> SUFFICES ASSUME NEW g \in Conns, hpc'[g] \in {"register", "enqueue"}
             PROVE  logTable'[RoomOf(g)] # NoLog
  BY DEF LogsFirst
<1>t. /\ hpc \in [Conns -> HandlerPCs]
      /\ logTable \in [Rooms -> 0..MaxLevel \cup {NoLog}]
      /\ RoomOf(g) \in Rooms
  BY ConnsFacts DEF TypeOK, HandlerTypes, TableTypes
<1>1. CASE hpc[g] \in {"register", "enqueue"}
  BY <1>1, <1>t, LogsStay DEF LogsFirst
<1>2. ASSUME hpc[g] \notin {"register", "enqueue"}
      PROVE  BindLog(g) \/ \E level \in Levels : Start(g, level) /\ logTable[RoomOf(g)] # NoLog
  <2>1. hpc'[g] # hpc[g]
    BY <1>2
  <2>2. ASSUME NEW h \in Conns, Handler(h)
        PROVE  BindLog(g) \/ \E level \in Levels : Start(g, level) /\ logTable[RoomOf(g)] # NoLog
    <3>1. \/ BindLog(h)
          \/ \E level \in Levels : Start(h, level)
          \/ \E pc \in HandlerPCs \ {"register", "enqueue"} : Goto(h, pc)
          \/ UNCHANGED hpc
      BY <2>2 DEF Handler, Greet, LoopEnds, ReadFails, Submit, Login, Ack,
                  Register, ChangeLevel, Enqueue, Stop, Dequeue, Commit,
                  CleanUp, CleanRemove, Forget, HandlerPCs
    <3>2. ASSUME NEW pc \in HandlerPCs, Goto(h, pc)
          PROVE  h = g /\ pc = hpc'[g]
      BY <1>t, <2>1, <3>2 DEF Goto
    <3>3. CASE BindLog(h)
      <4>1. Goto(h, "register")
        BY <3>3 DEF BindLog
      <4> QED BY <3>2, <3>3, <4>1 DEF HandlerPCs
    <3>4. ASSUME NEW level \in Levels, Start(h, level)
          PROVE  Start(g, level) /\ logTable[RoomOf(g)] # NoLog
      <4>1. CASE logTable[RoomOf(h)] = NoLog
        <5>1. Goto(h, "gone")
          BY <3>4, <4>1 DEF Start
        <5> QED BY <3>2, <5>1 DEF HandlerPCs
      <4>2. CASE logTable[RoomOf(h)] # NoLog
        <5>1. Goto(h, "enqueue")
          BY <3>4, <4>2 DEF Start
        <5> QED BY <3>2, <3>4, <4>2, <5>1 DEF HandlerPCs
      <4> QED BY <4>1, <4>2
    <3>5. ASSUME NEW pc \in HandlerPCs \ {"register", "enqueue"}, Goto(h, pc)
          PROVE  FALSE
      BY <3>2, <3>5
    <3> QED BY <2>1, <3>1, <3>3, <3>4, <3>5
  <2>3. ASSUME NEW h \in Conns, Connect(h) \/ Drop(h)
        PROVE  FALSE
    BY <1>t, <2>1, <2>3 DEF Connect, Drop, handlers
  <2>4. ~Staff
    BY <2>1 DEF Staff, SetMode, SetFreq, AssignClient, CheckOutAbsent, CheckOut,
                CheckOutClose, CheckOutContains, CheckOutRemove, CheckOutTest,
                CheckOutCommit, CheckOutSettle, handlers
  <2>5. ~(Expire \/ WakeSpuriously \/ Dispatcher)
    BY <2>1 DEF Expire, WakeSpuriously, Dispatcher, Await, Relock, InformMode,
                InformFreq, SkipSchedule, Schedule, ScheduleFails, Fare, Remember,
                handlers
  <2>6. CASE UNCHANGED vars
    BY <2>1, <2>6 DEF vars, handlers
  <2> QED BY <2>2, <2>3, <2>4, <2>5, <2>6 DEF Next
<1>3. CASE BindLog(g)
  BY <1>3, <1>t DEF BindLog, PutLog, NoLog
<1>4. CASE logTable[RoomOf(g)] # NoLog
  BY <1>4, <1>t, LogsStay
<1> QED BY <1>1, <1>2, <1>3, <1>4

(* Who is new in the queue was brought there by a handler at "enqueue", ...   *)
LEMMA NewInQueue ==
  ASSUME TypeOK, [Next]_vars, NEW r \in Rooms, Contains(queue', r), ~Contains(queue, r)
  PROVE  \E h \in Conns : hpc[h] = "enqueue" /\ RoomOf(h) = r
<1>q. queue \in Seq(Rooms) /\ DOMAIN queue = 1..Len(queue) /\ Len(queue) \in Nat
  BY DEF TypeOK, ScheduleTypes
<1>1. ASSUME NEW i \in DOMAIN queue, queue' = RemoveAt(queue, i)
      PROVE  FALSE
  <2>1. PICK k \in 1..Len(queue') : queue'[k] = r
    BY DEF Contains
  <2>2. k \in 1..(Len(queue) - 1) /\ queue'[k] = IF k < i THEN queue[k] ELSE queue[k + 1]
    BY <1>q, <1>1, <2>1, RemoveAtShifts
  <2>3. PICK j \in 1..Len(queue) : queue[j] = r
    BY <1>q, <2>1, <2>2
  <2> QED BY <2>3 DEF Contains
<1>2. ASSUME queue' = queue
      PROVE  FALSE
  BY <1>2
<1>3. ASSUME NEW h \in Conns, Enqueue(h)
      PROVE  hpc[h] = "enqueue" /\ RoomOf(h) = r
  <2>1. queue' = Append(queue, RoomOf(h)) /\ hpc[h] = "enqueue"
    BY <1>3 DEF Enqueue
  <2>2. PICK k \in 1..Len(queue') : queue'[k] = r
    BY DEF Contains
  <2>3. k = Len(queue) + 1 \/ (k \in 1..Len(queue) /\ queue[k] = r)
    BY <1>q, <2>1, <2>2, ConnsFacts
  <2>4. k = Len(queue) + 1
    BY <2>3 DEF Contains
  <2> QED BY <1>q, <2>1, <2>2, <2>4, ConnsFacts
<1>4. ASSUME NEW h \in Conns, Handler(h)
      PROVE  Enqueue(h) \/ Leaves \/ UNCHANGED queue
  BY <1>4, HandlerKinds DEF Rests, Moved
<1>5. ASSUME NEW h \in Conns, Connect(h) \/ Drop(h)
      PROVE  FALSE
  BY <1>2, <1>5 DEF Connect, Drop
<1>6. ~Expire /\ ~UNCHANGED vars
  BY <1>2 DEF Expire, vars
<1>7. ~Staff
  BY <1>1, <1>2, StaffKinds DEF Leaves, Rests, Moved
<1>8. ~(Dispatcher \/ WakeSpuriously)
  BY <1>2, DispatcherKinds DEF Schedules, Fails, Rests, Moved
<1> QED BY <1>1, <1>2, <1>3, <1>4, <1>5, <1>6, <1>7, <1>8 DEF Next, Leaves

(* ... and who is new among the clients by a handler at "register".           *)
LEMMA NewClient ==
  ASSUME TypeOK, [Next]_vars, NEW r \in Rooms, clients'[r] # 0, clients[r] = 0
  PROVE  \E h \in Conns : hpc[h] = "register" /\ RoomOf(h) = r
<1>c. clients \in [Rooms -> 0..MaxConns]
  BY DEF TypeOK, TableTypes
<1>1. ASSUME NEW h \in Conns, Register(h)
      PROVE  hpc[h] = "register" /\ RoomOf(h) = r
  BY <1>1, <1>c DEF Register
<1>2. ASSUME UNCHANGED clients
      PROVE  FALSE
  BY <1>2
<1>3. ASSUME NEW x, RemoveClient(x)
      PROVE  FALSE
  BY <1>3, <1>c DEF RemoveClient
<1>4. ASSUME NEW Hs, Strike(Hs)
      PROVE  FALSE
  BY <1>4, <1>c DEF Strike
<1>5. ASSUME NEW h \in Conns, Handler(h)
      PROVE  Register(h)
  BY <1>2, <1>3, <1>5
  DEF Handler, Greet, LoopEnds, ReadFails, Submit, Login, Ack, BindLog, Register,
      Start, ChangeLevel, Enqueue, Stop, Dequeue, Commit, CleanUp, CleanRemove,
      Forget, tables
<1>6. ~Staff
  BY <1>2, <1>3
  DEF Staff, SetMode, SetFreq, AssignClient, CheckOutAbsent, CheckOut, CheckOutClose,
      CheckOutContains, CheckOutRemove, CheckOutTest, CheckOutCommit, CheckOutSettle,
      tables
<1>7. ~(Dispatcher \/ WakeSpuriously \/ Expire)
  BY <1>2, <1>4
  DEF Expire, WakeSpuriously, Dispatcher, Await, Relock, InformMode, InformFreq,
      SkipSchedule, Schedule, ScheduleFails, Fare, Remember, Broadcast, SendWind,
      tables
<1>8. ASSUME NEW h \in Conns, Connect(h) \/ Drop(h)
      PROVE  FALSE
  BY <1>2, <1>8 DEF Connect, Drop, tables
<1>9. ~UNCHANGED vars
  BY <1>2 DEF vars, tables
<1> QED BY <1>1, <1>5, <1>6, <1>7, <1>8, <1>9 DEF Next

(* A room that is selected is queued, so it has a log.                        *)
LEMMA NobodyUnlogged ==
  ASSUME TypeOK, Logged
  PROVE  Unlogged = {}
<1> SUFFICES ASSUME NEW r \in Rooms, logTable[r] = NoLog, Contains(Selected, r)
             PROVE  FALSE
  BY DEF Unlogged, Logged
<1>1. r \in ToSet(Selected)
  BY SelectedFits DEF Contains, ToSet
<1>2. r \in ToSet(queue)
  BY <1>1, SelectedFits
<1>3. Contains(queue, r)
  BY <1>2 DEF Contains, ToSet, TypeOK, ScheduleTypes
<1> QED BY <1>3 DEF Logged

LEMMA DispatcherStaysAlive ==
  ASSUME TypeOK, Logged, [Next]_vars
  PROVE  dpc' # "dead"
<1>1. dpc # "dead"
  BY DEF Logged
<1>2. ASSUME Signal \/ UNCHANGED dpc
      PROVE  dpc' # "dead"
  BY <1>1, <1>2 DEF Signal
<1>3. ASSUME NEW h \in Conns, Handler(h)
      PROVE  dpc' # "dead"
  BY <1>2, <1>3
  DEF Handler, Greet, LoopEnds, ReadFails, Submit, Login, Ack, BindLog, Register,
      Start, ChangeLevel, Enqueue, Stop, Dequeue, Commit, CleanUp, CleanRemove,
      Forget, RemoveClient
<1>4. CASE Staff
  BY <1>2, <1>4
  DEF Staff, SetMode, SetFreq, AssignClient, CheckOutAbsent, CheckOut, CheckOutClose,
      CheckOutContains, CheckOutRemove, CheckOutTest, CheckOutCommit, CheckOutSettle,
      RemoveClient
<1>5. ~ScheduleFails
  BY NobodyUnlogged DEF ScheduleFails
<1>6. CASE Fare
  <2>1. \A r \in Charged : logTable[r] # NoLog
    <3>1. \A r \in Charged : Contains(queue, r) /\ r \in Rooms
      BY DEF Charged, Contains, ToSet, TypeOK, ScheduleTypes
    <3> QED BY <3>1 DEF Logged
  <2> QED BY <1>6, <2>1 DEF Fare
<1>7. CASE Expire \/ WakeSpuriously \/ Await \/ Relock \/ InformMode \/ InformFreq
           \/ SkipSchedule \/ Schedule \/ Remember
  BY <1>2, <1>7
  DEF Expire, WakeSpuriously, Await, Relock, InformMode, InformFreq, SkipSchedule,
      Schedule, Remember
<1>8. CASE \E h \in Conns : Connect(h) \/ Drop(h)
  BY <1>2, <1>8 DEF Connect, Drop
<1>9. CASE UNCHANGED vars
  BY <1>2, <1>9 DEF vars
<1> QED BY <1>3, <1>4, <1>5, <1>6, <1>7, <1>8, <1>9 DEF Next, Dispatcher

(* Until a checkout closes a connection the Dispatcher does not die, however  *)
(* many terminals come, go and come back: every room it looks up has a log.   *)
THEOREM CenterDispatcherLives == Spec => []DispatcherLives
<1>1. Init => Lives
  <2> SUFFICES ASSUME Init PROVE Lives
    OBVIOUS
  <2>1. NobodySettles /\ LogsFirst
    BY DEF Init, InitWith, Budget, NobodySettles, LogsFirst
  <2>2. Logged
    BY DEF Init, InitWith, Budget, Logged, Contains
  <2> QED BY <2>1, <2>2, InitTypes DEF Lives
<1>2. Lives /\ [Next]_vars => Lives'
  <2> SUFFICES ASSUME TypeOK, NobodyCheckedOut => NobodySettles /\ LogsFirst /\ Logged,
                      [Next]_vars, NobodyCheckedOut'
               PROVE  NobodySettles' /\ LogsFirst' /\ Logged'
    BY NextKeepsTypes DEF Lives
  <2>0. NobodyCheckedOut /\ NobodySettles /\ LogsFirst /\ Logged
    BY ClosedStays
  <2>1. NobodySettles' /\ LogsFirst'
    BY <2>0, NobodySettlesStays, LogsFirstStays
  <2>2. ASSUME NEW r \in Rooms, clients'[r] # 0 \/ Contains(queue', r)
        PROVE  logTable'[r] # NoLog
    <3>1. CASE clients[r] # 0 \/ Contains(queue, r)
      <4>1. logTable[r] # NoLog
        BY <2>0, <3>1 DEF Logged
      <4> QED BY <2>0, <4>1, LogsStay
    <3>2. CASE ~(clients[r] # 0 \/ Contains(queue, r))
      <4>1. PICK h \in Conns : hpc[h] \in {"register", "enqueue"} /\ RoomOf(h) = r
        BY <2>2, <3>2, NewInQueue, NewClient
      <4>2. logTable[r] # NoLog
        BY <2>0, <4>1 DEF LogsFirst
      <4> QED BY <2>0, <4>2, LogsStay
    <3> QED BY <3>1, <3>2
  <2>3. dpc' # "dead"
    BY <2>0, DispatcherStaysAlive
  <2>4. Logged'
    BY <2>2, <2>3 DEF Logged
  <2> QED BY <2>1, <2>4
<1>3. Lives => DispatcherLives
  BY DEF Lives, Logged, DispatcherLives
<1> QED BY <1>1, <1>2, <1>3, PTL DEF Spec

-----------------------------------------------------------------------------
(* What follows is about single connections: who is informed of a change, how *)
(* often a room is queued, and whether a terminal blows.                      *)

(* The course of a handler. A login is complete once; from then on its        *)
(* connection can be in the table clients, and it can start and stop.         *)
PastLogin(h) == succeed[h] /\ hpc[h] \notin {"new", "greet", "ack", "bind", "register"}

Course(h) ==
  /\ sock[h] = "none" <=> hpc[h] = "new"
  /\ hpc[h] \in {"new", "greet"} => ~succeed[h]
  /\ hpc[h] \in {"bind", "register", "enqueue", "dequeue", "commit"} => succeed[h]
  /\ positive[h] => PastLogin(h) /\ hpc[h] # "enqueue"
  /\ hpc[h] \in {"dequeue", "commit"} => positive[h]

Own(h) == <<hpc[h], succeed[h], positive[h]>>

LEMMA HandlersTyped ==
  ASSUME TypeOK
  PROVE  /\ hpc \in [Conns -> HandlerPCs]
         /\ succeed \in [Conns -> BOOLEAN]
         /\ positive \in [Conns -> BOOLEAN]
         /\ sock \in [Conns -> {"none", "open", "dropped", "closed"}]
BY DEF TypeOK, HandlerTypes, SocketTypes

(* A handler touches no socket, and of the handlers only itself.              *)
LEMMA OneHandler ==
  ASSUME TypeOK, NEW h \in Conns, Handler(h)
  PROVE  UNCHANGED sock /\ \A g \in Conns \ {h} : UNCHANGED Own(g)
<1>1. UNCHANGED sock
  BY DEF Handler, Greet, LoopEnds, ReadFails, Submit, Login, Ack, BindLog,
         Register, Start, ChangeLevel, Enqueue, Stop, Dequeue, Commit,
         CleanUp, CleanRemove, Forget, sockets
<1>2. ASSUME NEW g \in Conns, g # h
      PROVE  hpc'[g] = hpc[g]
  BY <1>2, HandlersTyped
  DEF Handler, Greet, LoopEnds, ReadFails, Submit, Login, Ack, BindLog,
      Register, Start, ChangeLevel, Enqueue, Stop, Dequeue, Commit,
      CleanUp, CleanRemove, Forget, Goto
<1>3. ASSUME NEW g \in Conns, g # h
      PROVE  succeed'[g] = succeed[g] /\ positive'[g] = positive[g]
  BY <1>3, HandlersTyped
  DEF Handler, Greet, LoopEnds, ReadFails, Submit, Login, Ack, BindLog,
      Register, Start, ChangeLevel, Enqueue, Stop, Dequeue, Commit,
      CleanUp, CleanRemove, Forget
<1> QED BY <1>1, <1>2, <1>3 DEF Own

(* No other thread touches a handler.                                         *)
LEMMA NoHandler ==
  ASSUME \/ Staff \/ Expire \/ WakeSpuriously \/ Dispatcher
         \/ (\E h \in Conns : Drop(h)) \/ UNCHANGED vars
  PROVE  UNCHANGED handlers
<1>1. CASE Staff
  BY <1>1 DEF Staff, SetMode, SetFreq, AssignClient, CheckOutAbsent, CheckOut,
              CheckOutClose, CheckOutContains, CheckOutRemove, CheckOutTest,
              CheckOutCommit, CheckOutSettle
<1>2. CASE Expire \/ WakeSpuriously \/ Dispatcher
  BY <1>2 DEF Expire, WakeSpuriously, Dispatcher, Await, Relock, InformMode,
              InformFreq, SkipSchedule, Schedule, ScheduleFails, Fare, Remember
<1>3. CASE (\E h \in Conns : Drop(h)) \/ UNCHANGED vars
  BY <1>3 DEF Drop, vars
<1> QED BY <1>1, <1>2, <1>3

(* A socket that is there stays there, and one that is not comes by Connect.  *)
LEMMA SocketsAppear ==
  ASSUME TypeOK, [Next]_vars, NEW g \in Conns, ~Connect(g),
         g \in Registered => sock[g] # "none"
  PROVE  sock[g] = "none" <=> sock'[g] = "none"
<1>t. /\ sock \in [Conns -> {"none", "open", "dropped", "closed"}]
      /\ clients \in [Rooms -> 0..MaxConns]
  BY DEF TypeOK, SocketTypes, TableTypes
<1>1. ASSUME NEW h \in Conns, Handler(h)
      PROVE  UNCHANGED sock
  BY <1>1, OneHandler
<1>2. ASSUME NEW h \in Conns, Connect(h) \/ Drop(h)
      PROVE  sock[g] = "none" <=> sock'[g] = "none"
  BY <1>2, <1>t DEF Connect, Drop
<1>3. CASE CheckOutClose
  <2>1. g = <<sroom, clients[sroom]>> => g \in Registered
    BY DEF Registered, RoomOf
  <2> QED BY <1>3, <1>t, <2>1 DEF CheckOutClose
<1>4. CASE Staff /\ ~CheckOutClose
  BY <1>4 DEF Staff, SetMode, SetFreq, AssignClient, CheckOutAbsent, CheckOut,
              CheckOutContains, CheckOutRemove, CheckOutTest, CheckOutCommit,
              CheckOutSettle, sockets
<1>5. CASE Expire \/ WakeSpuriously \/ Dispatcher
  BY <1>5 DEF Expire, WakeSpuriously, Dispatcher, Await, Relock, InformMode,
              InformFreq, SkipSchedule, Schedule, ScheduleFails, Fare, Remember,
              sockets, Broadcast, SendWind
<1>6. CASE UNCHANGED vars
  BY <1>6 DEF vars, sockets
<1> QED BY <1>1, <1>2, <1>3, <1>4, <1>5, <1>6 DEF Next

LEMMA HandlerCourse ==
  ASSUME TypeOK, NEW h \in Conns, Course(h), Handler(h)
  PROVE  Course(h)' /\ (PastLogin(h) => PastLogin(h)')
<1> USE HandlersTyped
<1>s. UNCHANGED sock
  BY OneHandler
<1>0. CASE Ack(h)
  BY <1>0, <1>s DEF Course, PastLogin, Ack, Goto
<1>1. CASE Greet(h) \/ LoopEnds(h) \/ ReadFails(h) \/ Submit(h)
  BY <1>1, <1>s DEF Course, PastLogin, Greet, LoopEnds, ReadFails, Submit, Reads, Goto
<1>2. ASSUME NEW right \in BOOLEAN, Login(h, right)
      PROVE  Course(h)' /\ (PastLogin(h) => PastLogin(h)')
  BY <1>2, <1>s DEF Course, PastLogin, Login, Reads, Goto
<1>3. CASE BindLog(h) \/ Register(h)
  BY <1>3, <1>s DEF Course, PastLogin, BindLog, Register, Goto
<1>4. ASSUME NEW level \in Levels, Start(h, level)
      PROVE  Course(h)' /\ (PastLogin(h) => PastLogin(h)')
  BY <1>4, <1>s DEF Course, PastLogin, Start, Starts, Reads, Goto
<1>5. ASSUME NEW level \in Levels, ChangeLevel(h, level)
      PROVE  Course(h)' /\ (PastLogin(h) => PastLogin(h)')
  BY <1>5, <1>s DEF Course, PastLogin, ChangeLevel, Reads, Goto
<1>6. CASE Enqueue(h) \/ Stop(h) \/ Dequeue(h) \/ Commit(h)
  BY <1>6, <1>s DEF Course, PastLogin, Enqueue, Stop, Dequeue, Commit, Reads, Goto
<1>7. CASE CleanUp(h) \/ CleanRemove(h) \/ Forget(h)
  BY <1>7, <1>s DEF Course, PastLogin, CleanUp, CleanRemove, Forget, Goto
<1> QED BY <1>0, <1>1, <1>2, <1>3, <1>4, <1>5, <1>6, <1>7 DEF Handler

(* Who is in the table, or was when the staff changed something, has          *)
(* completed its login.                                                       *)
Noted == Registered \cup mustKnow["mode"] \cup mustKnow["frequency"]

Courses == \A h \in Conns : Course(h) /\ (h \in Noted => PastLogin(h))

(* A login is never taken back.                                               *)
LEMMA CourseStays ==
  ASSUME TypeOK, Courses, [Next]_vars, NEW g \in Conns
  PROVE  Course(g)' /\ (PastLogin(g) => PastLogin(g)')
<1>c. Course(g) /\ (g \in Registered => sock[g] # "none")
  BY DEF Courses, Course, PastLogin, Noted
<1>1. CASE Connect(g)
  BY <1>1, <1>c, HandlersTyped DEF Connect, Course, PastLogin
<1>2. ASSUME ~Connect(g)
      PROVE  (sock[g] = "none" <=> sock'[g] = "none")
  BY <1>2, <1>c, SocketsAppear
<1>3. CASE Handler(g)
  BY <1>3, <1>c, HandlerCourse
<1>4. ASSUME UNCHANGED Own(g), ~Connect(g)
      PROVE  Course(g)' /\ (PastLogin(g) => PastLogin(g)')
  BY <1>4, <1>2, <1>c DEF Own, Course, PastLogin
<1>5. ASSUME NEW h \in Conns, Handler(h), h # g
      PROVE  UNCHANGED Own(g)
  BY <1>5, OneHandler
<1>6. ASSUME NEW h \in Conns, Connect(h), h # g
      PROVE  UNCHANGED Own(g)
  BY <1>6, HandlersTyped DEF Connect, Own
<1>7. CASE \/ Staff \/ Expire \/ WakeSpuriously \/ Dispatcher
           \/ (\E h \in Conns : Drop(h)) \/ UNCHANGED vars
  <2>1. UNCHANGED Own(g)
    BY <1>7, NoHandler DEF handlers, Own
  <2> QED BY <1>1, <1>4, <2>1
<1> QED BY <1>1, <1>3, <1>4, <1>5, <1>6, <1>7 DEF Next

(* Nobody is entered anew but by Register, ...                                *)
LEMMA NewRegistered ==
  ASSUME TypeOK, [Next]_vars, NEW g \in Conns, g \in Registered'
  PROVE  g \in Registered \/ Register(g)
<1>t. /\ clients \in [Rooms -> 0..MaxConns]
      /\ RoomOf(g) \in Rooms /\ g[2] \in 1..MaxConns /\ g = <<RoomOf(g), g[2]>>
  BY ConnsFacts DEF TypeOK, TableTypes
<1>1. ASSUME UNCHANGED clients \/ \E r : clients' = [clients EXCEPT ![r] = 0]
      PROVE  g \in Registered
  BY <1>1, <1>t DEF Registered, RoomOf
<1>2. ASSUME NEW h \in Conns, Register(h)
      PROVE  g \in Registered \/ Register(g)
  <2>1. h = <<RoomOf(h), h[2]>>
    BY ConnsFacts
  <2>2. CASE RoomOf(h) = RoomOf(g) /\ h[2] = g[2]
    BY <1>t, <1>2, <2>1, <2>2
  <2>3. CASE ~(RoomOf(h) = RoomOf(g) /\ h[2] = g[2])
    BY <1>t, <1>2, <2>3 DEF Register, Registered
  <2> QED BY <2>2, <2>3
<1>3. ASSUME NEW h \in Conns, Handler(h), ~Register(h)
      PROVE  g \in Registered
  BY <1>1, <1>3
  DEF Handler, Greet, LoopEnds, ReadFails, Submit, Login, Ack, BindLog,
      Start, ChangeLevel, Enqueue, Stop, Dequeue, Commit, CleanUp, CleanRemove,
      Forget, tables, RemoveClient
<1>4. CASE Staff
  BY <1>1, <1>4
  DEF Staff, SetMode, SetFreq, AssignClient, CheckOutAbsent, CheckOut, CheckOutClose,
      CheckOutContains, CheckOutRemove, CheckOutTest, CheckOutCommit,
      CheckOutSettle, tables, RemoveClient
<1>5. ASSUME NEW Hs, Strike(Hs)
      PROVE  g \in Registered
  BY <1>5, <1>t DEF Strike, Registered
<1>6. CASE Expire \/ WakeSpuriously \/ Dispatcher
  BY <1>1, <1>5, <1>6
  DEF Expire, WakeSpuriously, Dispatcher, Await, Relock, InformMode,
      InformFreq, SkipSchedule, Schedule, ScheduleFails, Fare, Remember,
      tables, Broadcast, SendWind
<1>7. CASE (\E h \in Conns : Connect(h) \/ Drop(h)) \/ UNCHANGED vars
  BY <1>1, <1>7 DEF Connect, Drop, vars, tables
<1> QED BY <1>2, <1>3, <1>4, <1>6, <1>7 DEF Next

(* ... and the staff note only who is entered.                                *)
LEMMA NotedBefore ==
  ASSUME TypeOK, [Next]_vars, NEW g \in Conns, g \in Noted'
  PROVE  g \in Noted \/ Register(g)
<1>t. mustKnow \in [{"mode", "frequency"} -> SUBSET Conns]
  BY DEF TypeOK, StaffTypes
<1>1. CASE UNCHANGED mustKnow
  BY <1>1, NewRegistered DEF Noted
<1>2. CASE SetMode \/ \E freq \in Freqs : SetFreq(freq)
  <2>1. g \in Registered' => g \in Registered
    BY <1>2 DEF SetMode, SetFreq, tables, Registered
  <2> QED BY <1>2, <1>t, <2>1 DEF SetMode, SetFreq, Noted
<1>3. ASSUME ~(SetMode \/ \E freq \in Freqs : SetFreq(freq))
      PROVE  UNCHANGED mustKnow
  <2>1. ASSUME NEW h \in Conns, Handler(h) \/ Connect(h) \/ Drop(h)
        PROVE  UNCHANGED mustKnow
    BY <2>1 DEF Handler, Greet, LoopEnds, ReadFails, Submit, Login, Ack, BindLog,
                Register, Start, ChangeLevel, Enqueue, Stop, Dequeue, Commit,
                CleanUp, CleanRemove, Forget, staff, Connect, Drop
  <2>2. CASE Staff
    BY <1>3, <2>2
    DEF Staff, AssignClient, CheckOutAbsent, CheckOut, CheckOutClose,
        CheckOutContains, CheckOutRemove, CheckOutTest, CheckOutCommit,
        CheckOutSettle, staff
  <2>3. CASE Expire \/ WakeSpuriously \/ Dispatcher \/ UNCHANGED vars
    BY <2>3 DEF Expire, WakeSpuriously, Dispatcher, Await, Relock, InformMode,
                InformFreq, SkipSchedule, Schedule, ScheduleFails, Fare, Remember,
                staff, vars
  <2> QED BY <2>1, <2>2, <2>3 DEF Next
<1> QED BY <1>1, <1>2, <1>3

LEMMA CoursesInit == Init => Courses
BY ConnsFacts DEF Init, InitWith, Budget, Courses, Course, PastLogin, Noted, Registered

LEMMA CoursesStay ==
  ASSUME TypeOK, Courses, [Next]_vars
  PROVE  Courses'
<1> SUFFICES ASSUME NEW g \in Conns
             PROVE  Course(g)' /\ (g \in Noted' => PastLogin(g)')
  BY DEF Courses
<1>1. Course(g)' /\ (PastLogin(g) => PastLogin(g)')
  BY CourseStays
<1>2. CASE g \in Noted
  BY <1>1, <1>2 DEF Courses
<1>3. CASE Register(g)
  BY <1>1, <1>3, HandlersTyped DEF Courses, Course, PastLogin, Register, Goto
<1> QED BY <1>1, <1>2, <1>3, NotedBefore

-----------------------------------------------------------------------------
(* Who is informed. A handler greets with what is set; the Dispatcher takes a *)
(* flag down together with the message to all that can be reached; and nobody *)
(* who was to be told is registered anew.                                     *)
LEMMA OpensByConnect ==
  ASSUME TypeOK, [Next]_vars, NEW g \in Conns, sock'[g] = "open"
  PROVE  sock[g] = "open" \/ Connect(g)
<1>t. /\ sock \in [Conns -> {"none", "open", "dropped", "closed"}]
  BY DEF TypeOK, SocketTypes
<1>1. CASE UNCHANGED sock
  BY <1>1
<1>2. CASE \E h \in Conns : Handler(h)
  BY <1>1, <1>2, OneHandler
<1>3. ASSUME NEW h \in Conns, Connect(h) \/ Drop(h)
      PROVE  sock[g] = "open" \/ Connect(g)
  BY <1>3, <1>t DEF Connect, Drop
<1>4. CASE CheckOutClose
  BY <1>4, <1>t DEF CheckOutClose
<1>5. CASE Staff /\ ~CheckOutClose
  BY <1>1, <1>5
  DEF Staff, SetMode, SetFreq, AssignClient, CheckOutAbsent, CheckOut,
      CheckOutContains, CheckOutRemove, CheckOutTest, CheckOutCommit,
      CheckOutSettle, sockets
<1>6. CASE Expire \/ WakeSpuriously \/ Dispatcher \/ UNCHANGED vars
  BY <1>1, <1>6
  DEF Expire, WakeSpuriously, Dispatcher, Await, Relock, InformMode, InformFreq,
      SkipSchedule, Schedule, ScheduleFails, Fare, Remember, sockets, Broadcast,
      SendWind, vars
<1> QED BY <1>2, <1>3, <1>4, <1>5, <1>6 DEF Next

LEMMA ReachedBefore ==
  ASSUME TypeOK, Courses, [Next]_vars, NEW g \in Conns, g \in Reachable', PastLogin(g)
  PROVE  g \in Reachable
<1>1. hpc[g] # "register" /\ sock[g] # "none"
  BY DEF Courses, Course, PastLogin
<1>2. g \in Registered
  BY <1>1, NewRegistered DEF Reachable, Register, Registered
<1>3. sock[g] = "open"
  BY <1>1, OpensByConnect DEF Reachable, Connect
<1> QED BY <1>2, <1>3 DEF Reachable

(* What no greeting, message or change of the staff comes between.            *)
Untold(g) ==
  /\ UNCHANGED <<config, mustKnow>>
  /\ \A flag \in {"modeChanged", "frequencyChanged"} : wakeUp[flag] => wakeUp'[flag]
  /\ told'[g].mode = told[g].mode /\ told'[g].frequency = told[g].frequency

LEMMA ChangesAreTold ==
  ASSUME TypeOK, [Next]_vars, NEW g \in Conns
  PROVE  \/ SetMode \/ (\E freq \in Freqs : SetFreq(freq))
         \/ InformMode \/ InformFreq \/ Greet(g) \/ Untold(g)
<1>t. /\ told \in [Conns -> [mode : {0, 1, -1}, frequency : Freqs \cup {-1},
                             wind : {"never", "stop", "blow"}]]
      /\ wakeUp \in [Flags -> BOOLEAN]
  BY DEF TypeOK, SocketTypes, ControlTypes
<1>f. {"modeChanged", "frequencyChanged"} \subseteq Flags
  BY DEF Flags
<1>1. ASSUME UNCHANGED <<told, config, mustKnow>>, UNCHANGED wakeUp \/ Raise("queueChanged")
      PROVE  Untold(g)
  BY <1>1, <1>t, <1>f DEF Untold, Raise
<1>2. ASSUME NEW h \in Conns, Handler(h), ~Greet(g)
      PROVE  Untold(g)
  <2>1. CASE Greet(h)
    <3>1. told'[g] = told[g]
      BY <1>2, <1>t, <2>1 DEF Greet
    <3> QED BY <2>1, <3>1 DEF Greet, Untold, staff
  <2>2. CASE ~Greet(h)
    BY <1>1, <1>2, <2>2
    DEF Handler, LoopEnds, ReadFails, Submit, Login, Ack, BindLog, Register,
        Start, ChangeLevel, Enqueue, Stop, Dequeue, Commit, CleanUp, CleanRemove,
        Forget, sockets, staff, RemoveClient
  <2> QED BY <2>1, <2>2
<1>3. CASE Staff /\ ~(SetMode \/ \E freq \in Freqs : SetFreq(freq))
  BY <1>1, <1>3
  DEF Staff, AssignClient, CheckOutAbsent, CheckOut, CheckOutClose, CheckOutContains,
      CheckOutRemove, CheckOutTest, CheckOutCommit, CheckOutSettle, sockets, staff,
      RemoveClient
<1>4. CASE Expire
  BY <1>4, <1>t, <1>f DEF Expire, Untold, sockets, staff
<1>5. CASE Await \/ WakeSpuriously \/ Relock \/ SkipSchedule \/ Remember
  BY <1>1, <1>5
  DEF Await, WakeSpuriously, Relock, SkipSchedule, Remember, sockets, staff
<1>6. CASE Schedule \/ ScheduleFails
  <2>1. \E rooms, picked : SendWind(rooms, picked)
    BY <1>6 DEF Schedule, ScheduleFails
  <2>2. told'[g].mode = told[g].mode /\ told'[g].frequency = told[g].frequency
    BY <2>1, <1>t DEF SendWind
  <2> QED BY <1>6, <1>t, <1>f, <2>2 DEF Schedule, ScheduleFails, Untold, staff
<1>7. CASE Fare
  BY <1>7, <1>t, <1>f DEF Fare, Untold, sockets, staff
<1>8. CASE (\E h \in Conns : Connect(h) \/ Drop(h)) \/ UNCHANGED vars
  BY <1>1, <1>8 DEF Connect, Drop, vars, sockets, staff
<1> QED BY <1>2, <1>3, <1>4, <1>5, <1>6, <1>7, <1>8 DEF Next, Dispatcher

(* A registered terminal learns of every change of mode and period: no signal *)
(* that comes while the Dispatcher is busy keeps a change from it.            *)
THEOREM CenterInforms == Spec => []InformedOfChange
<1> DEFINE Inv == TypeOK /\ Courses /\ InformedOfChange
<1>1. Init => Inv
  BY InitTypes, CoursesInit DEF Init, InitWith, Budget, InformedOfChange, Reachable
<1>2. Inv /\ [Next]_vars => Inv'
  <2> SUFFICES ASSUME TypeOK, Courses, InformedOfChange, [Next]_vars
               PROVE  Inv'
    OBVIOUS
  <2>t. /\ told \in [Conns -> [mode : {0, 1, -1}, frequency : Freqs \cup {-1},
                               wind : {"never", "stop", "blow"}]]
        /\ wakeUp \in [Flags -> BOOLEAN]
        /\ mustKnow \in [{"mode", "frequency"} -> SUBSET Conns]
    BY DEF TypeOK, SocketTypes, ControlTypes, StaffTypes
  <2>f. {"modeChanged", "frequencyChanged"} \subseteq Flags
    BY DEF Flags
  <2>1. ASSUME NEW g \in Reachable', g \in mustKnow'["mode"], ~wakeUp'["modeChanged"]
        PROVE  told'[g].mode = mode'
    <3>0. g \in Conns
      BY DEF Reachable, Registered
    <3>1. ~(SetMode)
      BY <2>1, <2>t, <2>f DEF SetMode, Raise
    <3>2. g \in mustKnow["mode"] => g \in Reachable
      BY <3>0, ReachedBefore DEF Courses, Noted
    <3>3. CASE \E freq \in Freqs : SetFreq(freq)
      <4>1. g \in mustKnow["mode"] /\ ~wakeUp["modeChanged"]
        BY <2>1, <2>t, <2>f, <3>3 DEF SetFreq, Raise
      <4> QED BY <3>2, <3>3, <4>1 DEF SetFreq, InformedOfChange, sockets
    <3>4. CASE InformMode
      BY <2>1, <2>t, <3>0, <3>2, <3>4 DEF InformMode, Broadcast, staff, config
    <3>5. CASE InformFreq
      <4>1. g \in mustKnow["mode"] /\ ~wakeUp["modeChanged"]
        BY <2>1, <2>t, <2>f, <3>5 DEF InformFreq, staff
      <4>2. told'[g].mode = told[g].mode
        BY <2>t, <3>0, <3>5 DEF InformFreq, Broadcast
      <4> QED BY <3>2, <3>5, <4>1, <4>2 DEF InformFreq, InformedOfChange, config
    <3>6. CASE Greet(g)
      <4>1. sock[g] = "open"
        BY <3>6 DEF Reachable, Greet
      <4> QED BY <2>t, <3>0, <3>6, <4>1 DEF Greet, config
    <3>7. CASE Untold(g)
      BY <2>1, <3>2, <3>7 DEF Untold, config, InformedOfChange
    <3> QED BY <3>0, <3>1, <3>3, <3>4, <3>5, <3>6, <3>7, ChangesAreTold
  <2>2. ASSUME NEW g \in Reachable', g \in mustKnow'["frequency"], ~wakeUp'["frequencyChanged"]
        PROVE  told'[g].frequency = frequency'
    <3>0. g \in Conns
      BY DEF Reachable, Registered
    <3>1. ~(\E freq \in Freqs : SetFreq(freq))
      BY <2>2, <2>t, <2>f DEF SetFreq, Raise
    <3>2. g \in mustKnow["frequency"] => g \in Reachable
      BY <3>0, ReachedBefore DEF Courses, Noted
    <3>3. CASE SetMode
      <4>1. g \in mustKnow["frequency"] /\ ~wakeUp["frequencyChanged"]
        BY <2>2, <2>t, <2>f, <3>3 DEF SetMode, Raise
      <4> QED BY <3>2, <3>3, <4>1 DEF SetMode, InformedOfChange, sockets
    <3>4. CASE InformFreq
      BY <2>2, <2>t, <3>0, <3>2, <3>4 DEF InformFreq, Broadcast, staff, config
    <3>5. CASE InformMode
      <4>1. g \in mustKnow["frequency"] /\ ~wakeUp["frequencyChanged"]
        BY <2>2, <2>t, <2>f, <3>5 DEF InformMode, staff
      <4>2. told'[g].frequency = told[g].frequency
        BY <2>t, <3>0, <3>5 DEF InformMode, Broadcast
      <4> QED BY <3>2, <3>5, <4>1, <4>2 DEF InformMode, InformedOfChange, config
    <3>6. CASE Greet(g)
      <4>1. sock[g] = "open"
        BY <3>6 DEF Reachable, Greet
      <4> QED BY <2>t, <3>0, <3>6, <4>1 DEF Greet, config
    <3>7. CASE Untold(g)
      BY <2>2, <3>2, <3>7 DEF Untold, config, InformedOfChange
    <3> QED BY <3>0, <3>1, <3>3, <3>4, <3>5, <3>6, <3>7, ChangesAreTold
  <2> QED BY <2>1, <2>2, NextKeepsTypes, CoursesStay DEF InformedOfChange
<1>3. Inv => InformedOfChange
  OBVIOUS
<1> QED BY <1>1, <1>2, <1>3, PTL DEF Spec

-----------------------------------------------------------------------------
(* How often a room is queued. What List.add and List.remove do to the number *)
(* of positions of an element:                                                *)
Positions(s, e) == {k \in DOMAIN s : s[k] = e}

LEMMA PositionsFinite ==
  ASSUME NEW S, NEW s \in Seq(S), NEW e
  PROVE  IsFiniteSet(Positions(s, e)) /\ Cardinality(Positions(s, e)) \in Nat
<1>1. IsFiniteSet(1..Len(s)) /\ DOMAIN s = 1..Len(s)
  BY FS_Interval
<1>2. Positions(s, e) \in SUBSET (1..Len(s))
  BY <1>1 DEF Positions
<1>3. IsFiniteSet(Positions(s, e))
  BY <1>1, <1>2, FS_Subset
<1> QED BY <1>3, FS_CardinalityType

LEMMA PositionsAppend ==
  ASSUME NEW S, NEW s \in Seq(S), NEW d \in S, NEW e
  PROVE  Cardinality(Positions(Append(s, d), e)) =
           Cardinality(Positions(s, e)) + IF d = e THEN 1 ELSE 0
<1> DEFINE P == Positions(s, e)
           n == Len(s) + 1
<1>1. DOMAIN s = 1..Len(s) /\ DOMAIN Append(s, d) = 1..n /\ Len(s) \in Nat
  OBVIOUS
<1>2. n \notin P /\ IsFiniteSet(P) /\ Cardinality(P) \in Nat
  <2>1. n \notin P
    BY <1>1 DEF Positions
  <2> QED BY <2>1, PositionsFinite
<1>3. CASE d = e
  <2>1. Positions(Append(s, d), e) = P \cup {n}
    BY <1>1, <1>3 DEF Positions
  <2>2. Cardinality(P \cup {n}) = Cardinality(P) + 1
    BY <1>2, FS_AddElement
  <2> QED BY <1>3, <2>1, <2>2
<1>4. CASE d # e
  <2>1. Positions(Append(s, d), e) = P
    BY <1>1, <1>4 DEF Positions
  <2> QED BY <1>2, <1>4, <2>1
<1> QED BY <1>3, <1>4

LEMMA PositionsRemoveAt ==
  ASSUME NEW S, NEW s \in Seq(S), NEW i \in DOMAIN s, NEW e
  PROVE  Cardinality(Positions(RemoveAt(s, i), e)) =
           Cardinality(Positions(s, e)) - IF s[i] = e THEN 1 ELSE 0
<1> DEFINE t == RemoveAt(s, i)
           at(k) == IF k < i THEN k ELSE k + 1
           P == Positions(t, e)
           Q == Positions(s, e) \ {i}
           f == [k \in P |-> at(k)]
<1>1. DOMAIN s = 1..Len(s) /\ Len(s) \in Nat /\ i \in 1..Len(s)
  OBVIOUS
<1>2. t \in Seq(S) /\ DOMAIN t = 1..(Len(s) - 1) /\ \A k \in DOMAIN t : t[k] = s[at(k)]
  <2>1. t \in Seq(S) /\ Len(t) = Len(s) - 1
    BY RemoveAtShifts
  <2>2. DOMAIN t = 1..(Len(s) - 1)
    <3> HIDE DEF t
    <3> QED BY <2>1
  <2> QED BY <2>1, <2>2, RemoveAtShifts
<1>3. P = {k \in 1..(Len(s) - 1) : s[at(k)] = e}
  BY <1>2 DEF Positions
<1>4. f \in [P -> Q]
  <2> HIDE DEF P
  <2> QED BY <1>1, <1>3 DEF Positions
<1>5. \A j, k \in P : f[j] = f[k] => j = k
  <2> HIDE DEF P
  <2> QED BY <1>1, <1>3
<1>6. \A q \in Q : \E k \in P : f[k] = q
  <2> SUFFICES ASSUME NEW q \in Q PROVE \E k \in P : f[k] = q
    OBVIOUS
  <2> DEFINE k == IF q < i THEN q ELSE q - 1
  <2>1. q \in 1..Len(s) /\ q # i /\ s[q] = e
    BY <1>1 DEF Positions
  <2>2. k \in 1..(Len(s) - 1) /\ at(k) = q
    BY <1>1, <2>1
  <2>3. k \in P
    <3> HIDE DEF P, k
    <3> QED BY <1>3, <2>1, <2>2
  <2> QED BY <2>2, <2>3
<1>7. ExistsBijection(P, Q)
  <2> HIDE DEF P, Q, f
  <2>1. f \in Bijection(P, Q)
    BY <1>4, <1>5, <1>6 DEF Bijection, Injection, Surjection, IsInjective
  <2> QED BY <2>1 DEF ExistsBijection
<1>8. IsFiniteSet(P) /\ IsFiniteSet(Positions(s, e)) /\ Cardinality(Positions(s, e)) \in Nat
  BY <1>2, PositionsFinite
<1>9. Cardinality(P) = Cardinality(Q)
  <2> HIDE DEF P, Q
  <2> QED BY <1>7, <1>8, FS_Bijection
<1>10. i \in Positions(s, e) <=> s[i] = e
  BY DEF Positions
<1>11. Cardinality(Q) = IF i \in Positions(s, e) THEN Cardinality(Positions(s, e)) - 1
                                                 ELSE Cardinality(Positions(s, e))
  BY <1>8, FS_RemoveElement
<1> HIDE DEF P, Q
<1>12. Cardinality(P) = Cardinality(Positions(s, e)) - IF s[i] = e THEN 1 ELSE 0
  BY <1>8, <1>9, <1>10, <1>11
<1> QED BY <1>12 DEF P

(* The handlers that have started a room are finitely many.                   *)
LEMMA StartersFinite ==
  ASSUME NEW r \in Rooms
  PROVE  IsFiniteSet(Starters(r)) /\ Cardinality(Starters(r)) \in Nat
<1> DEFINE f == [h \in Starters(r) |-> h[2]]
<1>1. f \in [Starters(r) -> 1..MaxConns]
  BY ConnsFacts DEF Starters
<1>2. \A g, h \in Starters(r) : f[g] = f[h] => g = h
  BY ConnsFacts DEF Starters
<1>3. f \in Injection(Starters(r), 1..MaxConns)
  <2> HIDE DEF f
  <2> QED BY <1>1, <1>2 DEF Injection, IsInjective
<1>4. IsFiniteSet(1..MaxConns)
  BY NumbersAssumption, FS_Interval
<1>5. IsFiniteSet(Starters(r))
  <2> HIDE DEF f
  <2> QED BY <1>3, <1>4, FS_Injection
<1> QED BY <1>5, FS_CardinalityType

(* Whoever has completed a login has a log and an energy entry, so no commit  *)
(* fails as long as nobody is checked out.                                    *)
Booked ==
  \A h \in Conns :
    hpc[h] = "register" \/ (PastLogin(h) /\ hpc[h] # "gone") => MayCommit(RoomOf(h))

LEMMA EntriesStay ==
  ASSUME NobodySettles, [Next]_vars, NEW r \in energyTable
  PROVE  r \in energyTable'
<1>1. ASSUME NEW h \in Conns, Handler(h) \/ Connect(h) \/ Drop(h)
      PROVE  r \in energyTable'
  BY <1>1 DEF Handler, Greet, LoopEnds, ReadFails, Submit, Login, Ack, BindLog,
              Register, Start, ChangeLevel, Enqueue, Stop, Dequeue, Commit,
              CleanUp, CleanRemove, Forget, tables, Connect, Drop
<1>2. CASE Staff
  <2>1. ~CheckOutSettle
    BY DEF NobodySettles, CheckOutSettle
  <2> QED BY <1>2, <2>1
       DEF Staff, SetMode, SetFreq, AssignClient, CheckOutAbsent, CheckOut,
           CheckOutClose, CheckOutContains, CheckOutRemove, CheckOutTest,
           CheckOutCommit, tables
<1>3. CASE Expire \/ WakeSpuriously \/ Dispatcher \/ UNCHANGED vars
  BY <1>3 DEF Expire, WakeSpuriously, Dispatcher, Await, Relock, InformMode,
              InformFreq, SkipSchedule, Schedule, ScheduleFails, Fare, Remember,
              tables, vars
<1> QED BY <1>1, <1>2, <1>3 DEF Next

LEMMA BookedStays ==
  ASSUME TypeOK, Courses, Booked, NobodySettles, [Next]_vars
  PROVE  Booked'
<1> SUFFICES ASSUME NEW g \in Conns,
                    hpc'[g] = "register" \/ (PastLogin(g)' /\ hpc'[g] # "gone")
             PROVE  MayCommit(RoomOf(g))'
  BY DEF Booked, RoomOf
<1>r. RoomOf(g) \in Rooms
  BY ConnsFacts
<1>1. CASE MayCommit(RoomOf(g))
  <2>1. logTable'[RoomOf(g)] # NoLog
    BY <1>1, <1>r, LogsStay DEF MayCommit
  <2>2. RoomOf(g) \in energyTable'
    BY <1>1, EntriesStay DEF MayCommit
  <2> QED BY <2>1, <2>2 DEF MayCommit, RoomOf
<1>2. CASE BindLog(g)
  <2>1. logTable \in [Rooms -> 0..MaxLevel \cup {NoLog}]
    BY DEF TypeOK, TableTypes
  <2> QED BY <1>2, <1>r, <2>1 DEF BindLog, PutLog, MayCommit, RoomOf, NoLog
<1>3. ASSUME ~MayCommit(RoomOf(g))
      PROVE  BindLog(g)
  <2>1. hpc[g] # "register" /\ (PastLogin(g) => hpc[g] = "gone") /\ Course(g)
    BY <1>3 DEF Booked, Courses
  <2>2. UNCHANGED Own(g) => FALSE
    BY <2>1 DEF Own, PastLogin
  <2>3. Handler(g)
    <3>1. ASSUME NEW h \in Conns, Handler(h), h # g
          PROVE  UNCHANGED Own(g)
      BY <3>1, OneHandler
    <3>2. ASSUME NEW h \in Conns, Connect(h)
          PROVE  UNCHANGED Own(g) \/ hpc'[g] = "greet"
      BY <3>2, HandlersTyped DEF Connect, Own
    <3>3. CASE \/ Staff \/ Expire \/ WakeSpuriously \/ Dispatcher
               \/ (\E h \in Conns : Drop(h)) \/ UNCHANGED vars
      <4>1. UNCHANGED Own(g)
        BY <3>3, NoHandler DEF handlers, Own
      <4> QED BY <2>2, <4>1
    <3> QED BY <2>2, <3>1, <3>2, <3>3 DEF Next, PastLogin
  <2> USE HandlersTyped
  <2>3a. ~(Greet(g) \/ Submit(g) \/ Register(g))
    BY <2>1 DEF Course, PastLogin, Greet, Submit, Register, Goto, Reads
  <2>4. ~(LoopEnds(g) \/ ReadFails(g) \/ Ack(g))
    BY <2>1 DEF NobodySettles, PastLogin, LoopEnds, ReadFails, Ack, Goto
  <2>5. ASSUME NEW right \in BOOLEAN, Login(g, right)
        PROVE  FALSE
    BY <2>5 DEF PastLogin, Login, Goto
  <2>6. ASSUME NEW level \in Levels, Start(g, level) \/ ChangeLevel(g, level)
        PROVE  FALSE
    BY <2>1, <2>6 DEF PastLogin, Start, ChangeLevel, Starts, Reads, Goto
  <2>7. ~(Enqueue(g) \/ Stop(g) \/ Dequeue(g) \/ Commit(g))
    BY <2>1 DEF Course, PastLogin, Enqueue, Stop, Dequeue, Commit, Reads
  <2>8. ~(CleanUp(g) \/ CleanRemove(g) \/ Forget(g))
    BY DEF NobodySettles, CleanUp, CleanRemove, Forget
  <2> QED BY <2>3, <2>3a, <2>4, <2>5, <2>6, <2>7, <2>8 DEF Handler
<1> QED BY <1>1, <1>2, <1>3

(* A start is counted by Enqueue and a stop by Dequeue, and by nothing else.  *)
Started(h) == positive[h] /\ hpc[h] # "commit"

LEMMA OthersCountNothing ==
  ASSUME TypeOK, Courses, Booked, NobodySettles, [Next]_vars, NEW g \in Conns,
         ~Enqueue(g), Dequeue(g) => ~InQueue(RoomOf(g))
  PROVE  Started(g)' <=> Started(g)
<1>c. Course(g)
  BY DEF Courses
<1>1. ASSUME UNCHANGED Own(g)
      PROVE  Started(g)' <=> Started(g)
  BY <1>1 DEF Own, Started
<1>2. CASE Handler(g)
  <2> USE HandlersTyped
  <2>1. CASE Greet(g) \/ LoopEnds(g) \/ ReadFails(g) \/ Submit(g)
    BY <2>1 DEF Started, Greet, LoopEnds, ReadFails, Submit, Reads, Goto
  <2>2. CASE Ack(g) \/ Register(g)
    BY <2>2 DEF Started, Ack, Register, Goto
  <2>3. ASSUME NEW right \in BOOLEAN, Login(g, right)
        PROVE  Started(g)' <=> Started(g)
    BY <2>3 DEF Started, Login, Reads, Goto
  <2>4. CASE BindLog(g)
    BY <1>c, <2>4 DEF Started, BindLog, Course, PastLogin
  <2>5. ASSUME NEW level \in Levels, Start(g, level)
        PROVE  Started(g)' <=> Started(g)
    BY <2>5 DEF Started, Start, Starts, Reads, Goto
  <2>6. ASSUME NEW level \in Levels, ChangeLevel(g, level)
        PROVE  Started(g)' <=> Started(g)
    BY <2>6 DEF Started, ChangeLevel, Reads, Goto
  <2>7. CASE Stop(g) \/ Dequeue(g)
    BY <2>7 DEF Started, Stop, Dequeue, Reads, Goto
  <2>8. CASE Commit(g)
    <3>1. MayCommit(RoomOf(g))
      BY <1>c, <2>8 DEF Booked, Commit, Course
    <3> QED BY <2>8, <3>1 DEF Started, Commit
  <2>9. ~(CleanUp(g) \/ CleanRemove(g) \/ Forget(g))
    BY DEF NobodySettles, CleanUp, CleanRemove, Forget
  <2> QED BY <1>2, <2>1, <2>2, <2>3, <2>4, <2>5, <2>6, <2>7, <2>8, <2>9 DEF Handler
<1>3. ASSUME NEW h \in Conns, Handler(h), h # g
      PROVE  UNCHANGED Own(g)
  BY <1>3, OneHandler
<1>4. ASSUME NEW h \in Conns, Connect(h)
      PROVE  Started(g)' <=> Started(g)
  BY <1>4, <1>c, HandlersTyped DEF Connect, Started, Course
<1>5. CASE \/ Staff \/ Expire \/ WakeSpuriously \/ Dispatcher
           \/ (\E h \in Conns : Drop(h)) \/ UNCHANGED vars
  <2>1. UNCHANGED Own(g)
    BY <1>5, NoHandler DEF handlers, Own
  <2> QED BY <1>1, <2>1
<1> QED BY <1>1, <1>2, <1>3, <1>4, <1>5 DEF Next

LEMMA QueueMovesByCount ==
  ASSUME TypeOK, NobodySettles, [Next]_vars
  PROVE  \/ \E h \in Conns : Enqueue(h)
         \/ \E h \in Conns : Dequeue(h) /\ InQueue(RoomOf(h))
         \/ /\ UNCHANGED queue
            /\ \A h \in Conns : ~Enqueue(h) /\ (Dequeue(h) => ~InQueue(RoomOf(h)))
<1> SUFFICES ASSUME \A h \in Conns : ~Enqueue(h) /\ (Dequeue(h) => ~InQueue(RoomOf(h)))
             PROVE  UNCHANGED queue
  OBVIOUS
<1>1. ASSUME NEW h \in Conns, Handler(h)
      PROVE  UNCHANGED queue
  <2>1. ~CleanRemove(h)
    BY DEF NobodySettles, CleanRemove
  <2> QED BY <1>1, <2>1
       DEF Handler, Greet, LoopEnds, ReadFails, Submit, Login, Ack, BindLog,
           Register, Start, ChangeLevel, Stop, Dequeue, Commit, CleanUp, Forget
<1>2. CASE Staff
  <2>1. ~CheckOutRemove
    BY DEF NobodySettles, CheckOutRemove
  <2> QED BY <1>2, <2>1
       DEF Staff, SetMode, SetFreq, AssignClient, CheckOutAbsent, CheckOut,
           CheckOutClose, CheckOutContains, CheckOutTest, CheckOutCommit,
           CheckOutSettle
<1>3. CASE Dispatcher \/ WakeSpuriously
  BY <1>3, DispatcherKinds DEF Schedules, Fails, Rests, Moved
<1>4. CASE Expire \/ UNCHANGED vars \/ \E h \in Conns : Connect(h) \/ Drop(h)
  BY <1>4 DEF Expire, vars, Connect, Drop
<1> QED BY <1>1, <1>2, <1>3, <1>4 DEF Next

Counted == \A r \in Rooms : Cardinality(Positions(queue, r)) = Cardinality(Starters(r))

LEMMA CountedStays ==
  ASSUME TypeOK, Courses, Booked, NobodySettles, Counted, [Next]_vars
  PROVE  Counted'
<1> SUFFICES ASSUME NEW r \in Rooms
             PROVE  Cardinality(Positions(queue', r)) = Cardinality(Starters(r)')
  BY DEF Counted, Positions, Starters
<1>s. /\ Starters(r) = {g \in Conns : RoomOf(g) = r /\ Started(g)}
      /\ Starters(r)' = {g \in Conns : RoomOf(g) = r /\ Started(g)'}
  BY DEF Starters, Started, RoomOf
<1>q. queue \in Seq(Rooms)
  BY DEF TypeOK, ScheduleTypes
<1>c. /\ Cardinality(Positions(queue, r)) = Cardinality(Starters(r))
      /\ IsFiniteSet(Starters(r)) /\ Cardinality(Starters(r)) \in Nat
  BY StartersFinite DEF Counted
<1>o. ASSUME NEW h \in Conns, Enqueue(h) \/ Dequeue(h), NEW g \in Conns, g # h
      PROVE  Started(g)' <=> Started(g)
  <2>1. Handler(h)
    BY <1>o DEF Handler
  <2>2. UNCHANGED Own(g)
    BY <1>o, <2>1, OneHandler
  <2> QED BY <2>2 DEF Own, Started
<1>1. ASSUME NEW h \in Conns, Enqueue(h)
      PROVE  Cardinality(Positions(queue', r)) = Cardinality(Starters(r)')
  <2>1. queue' = Append(queue, RoomOf(h)) /\ RoomOf(h) \in Rooms
    BY <1>1, ConnsFacts DEF Enqueue
  <2>2. ~Started(h) /\ Started(h)'
    BY <1>1, HandlersTyped DEF Courses, Course, Started, Enqueue, Goto
  <2>3. CASE RoomOf(h) = r
    <3>1. Starters(r)' = Starters(r) \cup {h} /\ h \notin Starters(r)
      BY <1>s, <1>o, <1>1, <2>2, <2>3
    <3>2. Cardinality(Starters(r)') = Cardinality(Starters(r)) + 1
      BY <1>c, <3>1, FS_AddElement
    <3> QED BY <1>c, <1>q, <2>1, <2>3, <3>2, PositionsAppend
  <2>4. CASE RoomOf(h) # r
    <3>1. Starters(r)' = Starters(r)
      BY <1>s, <1>o, <1>1, <2>4
    <3> QED BY <1>c, <1>q, <2>1, <2>4, <3>1, PositionsAppend
  <2> QED BY <2>3, <2>4
<1>2. ASSUME NEW h \in Conns, Dequeue(h), InQueue(RoomOf(h))
      PROVE  Cardinality(Positions(queue', r)) = Cardinality(Starters(r)')
  <2> DEFINE i == IndexOf(queue, RoomOf(h))
  <2>1. i \in DOMAIN queue /\ queue[i] = RoomOf(h) /\ queue' = RemoveAt(queue, i)
    <3>1. i \in DOMAIN queue /\ TakeOff(RoomOf(h)) = RemoveAt(queue, i)
      BY <1>2, TakeOffIndex
    <3>2. queue' = TakeOff(RoomOf(h))
      BY <1>2 DEF Dequeue
    <3>3. PICK k \in DOMAIN queue : queue[k] = RoomOf(h)
      BY <1>2, <1>q DEF InQueue, Contains
    <3>4. queue[IndexOf(queue, queue[k])] = queue[k]
      BY <1>q, <3>3, IndexOfFirst
    <3> QED BY <3>1, <3>2, <3>3, <3>4
  <2>2. Started(h) /\ ~Started(h)'
    BY <1>2, HandlersTyped DEF Courses, Course, Started, Dequeue, Goto
  <2> HIDE DEF i
  <2>3. CASE RoomOf(h) = r
    <3>1. Starters(r)' = Starters(r) \ {h} /\ h \in Starters(r)
      BY <1>s, <1>o, <1>2, <2>2, <2>3
    <3>2. Cardinality(Starters(r)') = Cardinality(Starters(r)) - 1
      BY <1>c, <3>1, FS_RemoveElement
    <3> QED BY <1>c, <1>q, <2>1, <2>3, <3>2, PositionsRemoveAt
  <2>4. CASE RoomOf(h) # r
    <3>1. Starters(r)' = Starters(r)
      BY <1>s, <1>o, <1>2, <2>4
    <3> QED BY <1>c, <1>q, <2>1, <2>4, <3>1, PositionsRemoveAt
  <2> QED BY <2>3, <2>4
<1>3. ASSUME UNCHANGED queue,
             \A h \in Conns : ~Enqueue(h) /\ (Dequeue(h) => ~InQueue(RoomOf(h)))
      PROVE  Cardinality(Positions(queue', r)) = Cardinality(Starters(r)')
  <2>1. Starters(r)' = Starters(r)
    BY <1>s, <1>3, OthersCountNothing
  <2> QED BY <1>3, <1>c, <2>1
<1> QED BY <1>1, <1>2, <1>3, QueueMovesByCount

Counts == NobodyCheckedOut => NobodySettles /\ Booked /\ Counted

LEMMA CountsInit == Init => Counts
<1> SUFFICES ASSUME Init PROVE NobodySettles /\ Booked /\ Counted
  BY DEF Counts
<1>1. NobodySettles /\ Booked
  BY DEF Init, InitWith, Budget, NobodySettles, Booked, PastLogin
<1>2. ASSUME NEW r \in Rooms
      PROVE  Cardinality(Positions(queue, r)) = Cardinality(Starters(r))
  <2>1. Positions(queue, r) = {} /\ Starters(r) = {}
    BY DEF Init, InitWith, Positions, Starters
  <2> QED BY <2>1
<1> QED BY <1>1, <1>2 DEF Counted

LEMMA CountsStay ==
  ASSUME TypeOK, Courses, Counts, [Next]_vars
  PROVE  Counts'
<1> SUFFICES ASSUME NobodyCheckedOut'
             PROVE  NobodySettles' /\ Booked' /\ Counted'
  BY DEF Counts
<1>1. NobodyCheckedOut /\ NobodySettles /\ Booked /\ Counted
  BY ClosedStays DEF Counts
<1> QED BY <1>1, NobodySettlesStays, BookedStays, CountedStays

(* The queue has a room as often as it is started: no loss of a connection,   *)
(* return or overlap of two handlers counts a start twice or forgets one.     *)
THEOREM CenterQueueCounts == Spec => []QueueCountsStarts
<1> DEFINE Inv == TypeOK /\ Courses /\ Counts
<1>1. Init => Inv
  BY InitTypes, CoursesInit, CountsInit
<1>2. Inv /\ [Next]_vars => Inv'
  BY NextKeepsTypes, CoursesStay, CountsStay
<1>3. Inv => QueueCountsStarts
  BY DEF Counts, Counted, QueueCountsStarts, Occurrences, Positions
<1> QED BY <1>1, <1>2, <1>3, PTL DEF Spec

-----------------------------------------------------------------------------
(* Who blows. As long as the first connection of a room is there, no other    *)
(* handler works for the room. Until that one has started, the room is not    *)
(* queued and was never told to blow, which is why schedule may skip it.      *)
FirstOnes == {h \in Conns : h[2] = 1 /\ sock[h] \in {"none", "open"}}

Off(h) == ~PastLogin(h) \/ logTable[RoomOf(h)] = 0

Alone(h) == \A k \in 2..MaxConns : sock[<<RoomOf(h), k>>] = "none"

LogFollows(h) == /\ hpc[h] = "register" => logTable[RoomOf(h)] = 0
                 /\ hpc[h] = "enqueue" => logTable[RoomOf(h)] # 0

Still(h) == /\ ~InQueue(RoomOf(h))
            /\ RoomOf(h) \notin ToSet(oldList)
            /\ told[h].wind # "blow"

Blows(h) == told[h].wind = "blow" <=> RoomOf(h) \in ToSet(oldList)

Firsts ==
  \A h \in FirstOnes :
    /\ Alone(h) /\ LogFollows(h)
    /\ Off(h) => Still(h)
    /\ h \in Registered => Blows(h)

LEMMA FirstBefore ==
  ASSUME TypeOK, Courses, [Next]_vars, NEW h \in FirstOnes'
  PROVE  h \in FirstOnes
<1>0. h \in Conns /\ (h \in Registered => sock[h] # "none")
  BY DEF FirstOnes, Courses, Course, PastLogin, Noted
<1>1. CASE Connect(h)
  BY <1>1 DEF FirstOnes, Connect
<1>2. CASE ~Connect(h)
  BY <1>0, <1>2, SocketsAppear, OpensByConnect DEF FirstOnes
<1> QED BY <1>1, <1>2

LEMMA AloneStays ==
  ASSUME TypeOK, Courses, [Next]_vars, NEW h \in FirstOnes, Alone(h)
  PROVE  Alone(h)'
<1> SUFFICES ASSUME NEW k \in 2..MaxConns
             PROVE  sock'[<<RoomOf(h), k>>] = "none"
  BY DEF Alone, RoomOf
<1> DEFINE g == <<RoomOf(h), k>>
<1>0. h \in Conns /\ h = <<RoomOf(h), 1>> /\ RoomOf(h) \in Rooms /\ k \in 1..MaxConns /\ k > 1
  BY ConnsFacts DEF FirstOnes
<1>1. g \in Conns /\ RoomOf(g) = RoomOf(h) /\ g[2] = k /\ sock[g] = "none" /\ 1 \in 1..MaxConns
  BY <1>0, NumbersAssumption DEF Conns, Alone, RoomOf
<1>2. g \notin Registered
  BY <1>1 DEF Courses, Course, PastLogin, Noted
<1> HIDE DEF g
<1>3. ~Connect(g)
  BY <1>0, <1>1 DEF Connect, FirstOnes
<1> QED BY <1>1, <1>2, <1>3, SocketsAppear DEF g

(* The handlers of later connections have not begun.                          *)
LEMMA OnlyHandler ==
  ASSUME Courses, NEW h \in FirstOnes, Alone(h), NEW g \in Conns, RoomOf(g) = RoomOf(h),
         hpc[g] # "new"
  PROVE  g = h
<1>1. g = <<RoomOf(h), g[2]>> /\ h = <<RoomOf(h), 1>> /\ g[2] \in 1..MaxConns
  BY ConnsFacts DEF FirstOnes
<1>2. sock[g] # "none"
  BY DEF Courses, Course
<1>3. g[2] \notin 2..MaxConns
  BY <1>1, <1>2 DEF Alone
<1>4. g[2] = 1
  BY <1>1, <1>3, NumbersAssumption
<1> QED BY <1>1, <1>4

LEMMA LogIsItsOwn ==
  ASSUME TypeOK, Courses, NobodySettles, [Next]_vars, NEW h \in FirstOnes, Alone(h),
         ~Handler(h)
  PROVE  logTable'[RoomOf(h)] = logTable[RoomOf(h)]
<1>t. logTable \in [Rooms -> 0..MaxLevel \cup {NoLog}] /\ RoomOf(h) \in Rooms
  BY ConnsFacts DEF TypeOK, TableTypes, FirstOnes
<1>1. CASE UNCHANGED logTable
  BY <1>1
<1>2. ASSUME NEW g \in Conns, Handler(g)
      PROVE  logTable'[RoomOf(h)] = logTable[RoomOf(h)]
  <2>1. hpc[g] # "new"
    BY <1>2 DEF Handler, Greet, LoopEnds, ReadFails, Submit, Login, Ack, BindLog,
                Register, Start, ChangeLevel, Enqueue, Stop, Dequeue, Commit,
                CleanUp, CleanRemove, Forget, Reads
  <2>2. RoomOf(g) # RoomOf(h)
    BY <1>2, <2>1, OnlyHandler
  <2>3. ~Forget(g)
    BY DEF NobodySettles, Forget
  <2>4. CASE BindLog(g)
    BY <1>t, <2>2, <2>4 DEF BindLog, PutLog
  <2>5. ASSUME NEW level \in Levels, Start(g, level) \/ ChangeLevel(g, level)
        PROVE  logTable'[RoomOf(h)] = logTable[RoomOf(h)]
    BY <1>t, <2>2, <2>5 DEF Start, ChangeLevel
  <2>6. ASSUME ~BindLog(g), \A level \in Levels : ~Start(g, level) /\ ~ChangeLevel(g, level)
        PROVE  UNCHANGED logTable
    BY <1>2, <2>3, <2>6
    DEF Handler, Greet, LoopEnds, ReadFails, Submit, Login, Ack, Register, Enqueue,
        Stop, Dequeue, Commit, CleanUp, CleanRemove, tables
  <2> QED BY <1>1, <2>4, <2>5, <2>6
<1>3. CASE Staff
  <2>1. ~CheckOutCommit
    BY DEF NobodySettles, CheckOutCommit
  <2> QED BY <1>1, <1>3, <2>1
       DEF Staff, SetMode, SetFreq, AssignClient, CheckOutAbsent, CheckOut,
           CheckOutClose, CheckOutContains, CheckOutRemove, CheckOutTest,
           CheckOutSettle, tables
<1>4. CASE \/ Expire \/ WakeSpuriously \/ Dispatcher \/ UNCHANGED vars
           \/ \E g \in Conns : Connect(g) \/ Drop(g)
  BY <1>1, <1>4
  DEF Expire, WakeSpuriously, Dispatcher, Await, Relock, InformMode, InformFreq,
      SkipSchedule, Schedule, ScheduleFails, Fare, Remember, tables, vars, Connect,
      Drop
<1> QED BY <1>2, <1>3, <1>4 DEF Next

LEMMA OwnElsewhere ==
  ASSUME TypeOK, [Next]_vars, NEW h \in Conns, ~Handler(h), ~Connect(h)
  PROVE  UNCHANGED Own(h)
<1>1. ASSUME NEW g \in Conns, Handler(g)
      PROVE  UNCHANGED Own(h)
  BY <1>1, OneHandler
<1>2. ASSUME NEW g \in Conns, Connect(g)
      PROVE  UNCHANGED Own(h)
  BY <1>2, HandlersTyped DEF Connect, Own
<1>3. CASE \/ Staff \/ Expire \/ WakeSpuriously \/ Dispatcher
           \/ (\E g \in Conns : Drop(g)) \/ UNCHANGED vars
  BY <1>3, NoHandler DEF handlers, Own
<1> QED BY <1>1, <1>2, <1>3 DEF Next

LEMMA LogFollowsStays ==
  ASSUME TypeOK, Courses, NobodySettles, [Next]_vars, NEW h \in FirstOnes, Alone(h),
         LogFollows(h)
  PROVE  LogFollows(h)' /\ (Off(h)' => Off(h))
<1>t. /\ logTable \in [Rooms -> 0..MaxLevel \cup {NoLog}] /\ RoomOf(h) \in Rooms
      /\ h \in Conns
  BY ConnsFacts DEF TypeOK, TableTypes, FirstOnes
<1>c. Course(h)
  BY <1>t DEF Courses
<1>p. PastLogin(h) => PastLogin(h)'
  BY <1>t, CourseStays
<1>l. RoomOf(h)' = RoomOf(h) /\ \A level \in Levels : level # 0
  BY DEF RoomOf, Levels
<1>1. ASSUME UNCHANGED hpc[h] \/ hpc'[h] \notin {"register", "enqueue"},
             logTable'[RoomOf(h)] = logTable[RoomOf(h)]
      PROVE  LogFollows(h)' /\ (Off(h)' => Off(h))
  BY <1>1, <1>l, <1>p DEF LogFollows, Off
<1>2. CASE Connect(h)
  BY <1>2, <1>1, <1>t, HandlersTyped DEF Connect, tables
<1>3. CASE ~Handler(h) /\ ~Connect(h)
  BY <1>3, <1>1, <1>t, LogIsItsOwn, OwnElsewhere DEF Own
<1>4. CASE Handler(h)
  <2> USE HandlersTyped
  <2>1. CASE BindLog(h)
    BY <1>c, <1>l, <1>t, <2>1 DEF BindLog, PutLog, Goto, LogFollows, Off, PastLogin
  <2>2. ASSUME NEW level \in Levels, Start(h, level)
        PROVE  LogFollows(h)' /\ (Off(h)' => Off(h))
    BY <1>l, <1>p, <1>t, <2>2 DEF Start, Goto, LogFollows, Off
  <2>3. ASSUME NEW level \in Levels, ChangeLevel(h, level)
        PROVE  LogFollows(h)' /\ (Off(h)' => Off(h))
    BY <1>l, <1>p, <1>t, <2>3 DEF ChangeLevel, Goto, LogFollows, Off
  <2>4. CASE Greet(h) \/ LoopEnds(h) \/ ReadFails(h) \/ Submit(h) \/ Ack(h) \/ Register(h)
    BY <1>1, <1>t, <2>4
    DEF Greet, LoopEnds, ReadFails, Submit, Ack, Register, Goto, tables
  <2>5. ASSUME NEW right \in BOOLEAN, Login(h, right)
        PROVE  LogFollows(h)' /\ (Off(h)' => Off(h))
    BY <1>1, <1>t, <2>5 DEF Login, Goto
  <2>6. CASE Enqueue(h) \/ Stop(h) \/ Dequeue(h) \/ Commit(h)
    BY <1>1, <1>t, <2>6 DEF Enqueue, Stop, Dequeue, Commit, Goto, tables
  <2>7. ~(CleanUp(h) \/ CleanRemove(h) \/ Forget(h))
    BY <1>t DEF NobodySettles, CleanUp, CleanRemove, Forget
  <2> QED BY <1>4, <2>1, <2>2, <2>3, <2>4, <2>5, <2>6, <2>7 DEF Handler
<1> QED BY <1>2, <1>3, <1>4

(* Only schedule changes the window, and only it tells a terminal of wind.    *)
LEMMA WindBySchedule ==
  ASSUME TypeOK, [Next]_vars, NEW h \in Conns, ~Schedule, ~ScheduleFails
  PROVE  oldList' = oldList /\ told'[h].wind = told[h].wind
<1>t. told \in [Conns -> [mode : {0, 1, -1}, frequency : Freqs \cup {-1},
                         wind : {"never", "stop", "blow"}]]
  BY DEF TypeOK, SocketTypes
<1>1. ASSUME NEW g \in Conns, Handler(g)
      PROVE  oldList' = oldList /\ told'[h].wind = told[h].wind
  <2>1. CASE Greet(g)
    BY <1>t, <2>1 DEF Greet, dispatcher
  <2>2. CASE ~Greet(g)
    BY <1>1, <2>2
    DEF Handler, LoopEnds, ReadFails, Submit, Login, Ack, BindLog, Register,
        Start, ChangeLevel, Enqueue, Stop, Dequeue, Commit, CleanUp, CleanRemove,
        Forget, sockets, dispatcher
  <2> QED BY <2>1, <2>2
<1>2. CASE Staff
  BY <1>2 DEF Staff, SetMode, SetFreq, AssignClient, CheckOutAbsent, CheckOut,
              CheckOutClose, CheckOutContains, CheckOutRemove, CheckOutTest,
              CheckOutCommit, CheckOutSettle, sockets, dispatcher
<1>3. CASE InformMode \/ InformFreq
  BY <1>3, <1>t DEF InformMode, InformFreq, Broadcast, dispatcher
<1>4. CASE \/ Expire \/ WakeSpuriously \/ Await \/ Relock \/ SkipSchedule \/ Fare
           \/ Remember \/ UNCHANGED vars \/ \E g \in Conns : Connect(g) \/ Drop(g)
  BY <1>4 DEF Expire, WakeSpuriously, Await, Relock, SkipSchedule, Fare, Remember,
              sockets, dispatcher, vars, Connect, Drop
<1> QED BY <1>1, <1>2, <1>3, <1>4 DEF Next, Dispatcher

LEMMA NewInQueueStarts ==
  ASSUME TypeOK, Courses, [Next]_vars, NEW h \in FirstOnes, Alone(h), LogFollows(h),
         Off(h), ~InQueue(RoomOf(h))
  PROVE  ~InQueue(RoomOf(h))'
<1> SUFFICES ASSUME Contains(queue', RoomOf(h))
             PROVE  FALSE
  BY DEF InQueue, RoomOf
<1>0. h \in Conns /\ RoomOf(h) \in Rooms
  BY ConnsFacts DEF FirstOnes
<1>1. PICK g \in Conns : hpc[g] = "enqueue" /\ RoomOf(g) = RoomOf(h)
  BY <1>0, NewInQueue DEF InQueue
<1>2. g = h
  BY <1>1, OnlyHandler
<1> QED BY <1>1, <1>2 DEF Courses, Course, PastLogin, LogFollows, Off

LEMMA FirstsStay ==
  ASSUME TypeOK, Courses, NobodySettles, Logged, Firsts, [Next]_vars
  PROVE  Firsts'
<1> SUFFICES ASSUME NEW h \in FirstOnes'
             PROVE  /\ Alone(h)' /\ LogFollows(h)'
                    /\ Off(h)' => Still(h)'
                    /\ h \in Registered' => Blows(h)'
  BY DEF Firsts
<1>1. h \in FirstOnes /\ h \in Conns /\ RoomOf(h) \in Rooms
  BY FirstBefore, ConnsFacts DEF FirstOnes
<1>2. Alone(h) /\ LogFollows(h) /\ (Off(h) => Still(h)) /\ (h \in Registered => Blows(h))
  BY <1>1 DEF Firsts
<1>3. Alone(h)'
  BY <1>1, <1>2, AloneStays
<1>4. LogFollows(h)' /\ (Off(h)' => Off(h))
  BY <1>1, <1>2, LogFollowsStays
<1>5. Off(h)' => ~InQueue(RoomOf(h)) /\ ~InQueue(RoomOf(h))'
  BY <1>1, <1>2, <1>4, NewInQueueStarts DEF Still
<1>6. ~ScheduleFails
  BY NobodyUnlogged DEF ScheduleFails
<1>7. CASE ~Schedule
  <2>1. oldList' = oldList /\ told'[h].wind = told[h].wind
    BY <1>1, <1>6, <1>7, WindBySchedule
  <2>2. Off(h)' => Still(h)'
    BY <1>2, <1>4, <1>5, <2>1 DEF Still, RoomOf
  <2>3. ASSUME h \in Registered'
        PROVE  Blows(h)'
    <3>1. h \in Registered \/ (Off(h) /\ Still(h))
      BY <1>1, <1>2, <2>3, NewRegistered DEF Register, Off, PastLogin
    <3> QED BY <1>2, <2>1, <3>1 DEF Blows, Still, RoomOf
  <2> QED BY <1>3, <1>4, <2>2, <2>3
<1>8. CASE Schedule
  <2>t. told \in [Conns -> [mode : {0, 1, -1}, frequency : Freqs \cup {-1},
                           wind : {"never", "stop", "blow"}]]
    BY DEF TypeOK, SocketTypes
  <2>1. /\ oldList' = Selected
        /\ told'[h] = IF h \in Reachable /\ Addresses(h, ToSet(Selected))
                      THEN [told[h] EXCEPT !.wind = IF RoomOf(h) \in ToSet(Selected)
                                                    THEN "blow" ELSE "stop"]
                      ELSE told[h]
    BY <1>1, <1>8 DEF Schedule, SendWind
  <2>2. RoomOf(h) \in ToSet(Selected) => InQueue(RoomOf(h))
    <3>1. RoomOf(h) \in ToSet(Selected) => RoomOf(h) \in ToSet(queue)
      BY SelectedFits
    <3> QED BY <3>1 DEF InQueue, Contains, ToSet, TypeOK, ScheduleTypes
  <2>3. told'[h].wind = IF h \in Reachable /\ Addresses(h, ToSet(Selected))
                        THEN IF RoomOf(h) \in ToSet(Selected) THEN "blow" ELSE "stop"
                        ELSE told[h].wind
    BY <1>1, <2>t, <2>1
  <2>4. Off(h)' => Still(h)'
    BY <1>2, <1>4, <1>5, <2>1, <2>2, <2>3 DEF Still, RoomOf
  <2>5. ASSUME h \in Registered'
        PROVE  Blows(h)'
    <3>1. h \in Registered
      <4>1. clients \in [Rooms -> 0..MaxConns] /\ h[2] \in 1..MaxConns
        BY <1>1, ConnsFacts DEF TypeOK, TableTypes
      <4>2. \E Hs : Strike(Hs)
        BY <1>8 DEF Schedule, SendWind
      <4> QED BY <1>1, <2>5, <4>1, <4>2 DEF Strike, Registered, RoomOf
    <3>2. h \in Reachable
      BY <1>1, <3>1 DEF Reachable, FirstOnes, Courses, Course, PastLogin, Noted
    <3>3. CASE Addresses(h, ToSet(Selected))
      BY <2>1, <2>3, <3>2, <3>3 DEF Blows, RoomOf
    <3>4. CASE ~Addresses(h, ToSet(Selected))
      <4>1. RoomOf(h) \notin ToSet(Selected) /\ Off(h)
        BY <3>4 DEF Addresses, Off
      <4> QED BY <1>2, <2>1, <2>3, <3>4, <4>1 DEF Blows, Still, RoomOf
    <3> QED BY <3>3, <3>4
  <2> QED BY <1>3, <1>4, <2>4, <2>5
<1> QED BY <1>7, <1>8

Winds == NobodyCheckedOut => NobodySettles /\ Firsts

LEMMA WindsInit == Init => Winds
<1> SUFFICES ASSUME Init PROVE NobodySettles /\ Firsts
  BY DEF Winds
<1>1. NobodySettles
  BY DEF Init, InitWith, Budget, NobodySettles
<1>2. ASSUME NEW h \in FirstOnes
      PROVE  /\ Alone(h) /\ LogFollows(h) /\ Still(h) /\ h \notin Registered
  <2>0. h \in Conns /\ RoomOf(h) \in Rooms /\ h[2] # 0
    BY ConnsFacts DEF FirstOnes
  <2>1. Alone(h)
    BY <2>0, NumbersAssumption DEF Init, InitWith, Alone, Conns
  <2>2. LogFollows(h)
    BY <2>0 DEF Init, InitWith, LogFollows
  <2>3. Still(h)
    BY <2>0 DEF Init, InitWith, Still, InQueue, Contains, ToSet
  <2>4. h \notin Registered
    BY <2>0 DEF Init, InitWith, Registered
  <2> QED BY <2>1, <2>2, <2>3, <2>4
<1> QED BY <1>1, <1>2 DEF Firsts

(* A terminal on the first connection of its room blows exactly when the last *)
(* window has the room, in whatever order logins, starts, stops, losses and   *)
(* schedulings come.                                                          *)
THEOREM CenterBlowsWhenSelected == Spec => []BlowsWhenSelected
<1> DEFINE Inv == TypeOK /\ Courses /\ Winds
<1>1. Init => Inv
  BY InitTypes, CoursesInit, WindsInit
<1>2. Inv /\ DispatcherLives /\ [Next]_vars => Inv'
  <2> SUFFICES ASSUME TypeOK, Courses, Winds, DispatcherLives, [Next]_vars
               PROVE  Winds'
    BY NextKeepsTypes, CoursesStay
  <2> SUFFICES ASSUME NobodyCheckedOut'
               PROVE  NobodySettles' /\ Firsts'
    BY DEF Winds
  <2>1. NobodyCheckedOut /\ NobodySettles /\ Firsts /\ Logged
    BY ClosedStays DEF Winds, DispatcherLives, Logged
  <2> QED BY <2>1, NobodySettlesStays, FirstsStay
<1>3. Inv => BlowsWhenSelected
  <2> SUFFICES ASSUME Inv, NobodyCheckedOut, NEW h \in Reachable, h[2] = 1
               PROVE  Blows(h)
    BY DEF BlowsWhenSelected, Blows
  <2>1. h \in FirstOnes /\ h \in Registered
    BY DEF Reachable, FirstOnes, Registered
  <2> QED BY <2>1 DEF Winds, Firsts
<1> QED BY <1>1, <1>2, <1>3, CenterDispatcherLives, PTL DEF Spec

-----------------------------------------------------------------------------
(* What the rooms are promised. By the count above the rooms in the queue are *)
(* those that are on, and each is there once until a room comes back.         *)
Queued == NobodyCheckedOut => /\ ToSet(queue) = RoomsOn
                              /\ NobodyReturned => IsInjective(queue)

LEMMA QueuedByCount ==
  ASSUME TypeOK, Courses, Counts
  PROVE  Queued
<1> SUFFICES ASSUME NobodyCheckedOut
             PROVE  /\ ToSet(queue) = RoomsOn
                    /\ NobodyReturned => IsInjective(queue)
  BY DEF Queued
<1>1. queue \in Seq(Rooms) /\ Counted
  BY DEF Counts, TypeOK, ScheduleTypes
<1>2. ASSUME NEW r \in Rooms
      PROVE  /\ IsFiniteSet(Positions(queue, r)) /\ IsFiniteSet(Starters(r))
             /\ Cardinality(Positions(queue, r)) = Cardinality(Starters(r))
  BY <1>1, PositionsFinite, StartersFinite DEF Counted
<1>3. ASSUME NEW r \in Rooms
      PROVE  Positions(queue, r) = {} <=> Starters(r) = {}
  BY <1>2, FS_EmptySet
<1>4. ToSet(queue) = RoomsOn
  <2>1. ASSUME NEW r \in Rooms
        PROVE  r \in ToSet(queue) <=> Positions(queue, r) # {}
    BY DEF ToSet, Positions
  <2>2. ToSet(queue) \subseteq Rooms
    BY <1>1 DEF ToSet
  <2>3. ASSUME NEW r \in Rooms
        PROVE  r \in RoomsOn <=> Starters(r) # {}
    BY DEF RoomsOn, Starters
  <2>4. RoomsOn \subseteq Rooms
    BY ConnsFacts DEF RoomsOn
  <2> QED BY <1>3, <2>1, <2>2, <2>3, <2>4
<1>5. ASSUME NobodyReturned
      PROVE  IsInjective(queue)
  <2>1. ASSUME NEW r \in Rooms
        PROVE  Starters(r) \subseteq {<<r, 1>>}
    <3> SUFFICES ASSUME NEW h \in Starters(r)
                 PROVE  h = <<r, 1>>
      OBVIOUS
    <3>1. h \in Conns /\ RoomOf(h) = r /\ positive[h]
      BY DEF Starters
    <3>2. sock[h] # "none"
      BY <3>1 DEF Courses, Course, PastLogin
    <3>3. ~(h[2] > 1)
      BY <1>5, <3>1, <3>2 DEF NobodyReturned
    <3>4. h[2] = 1 /\ h = <<r, h[2]>>
      BY <3>1, <3>3, ConnsFacts, NumbersAssumption
    <3> QED BY <3>4
  <2>2. ASSUME NEW r \in Rooms
        PROVE  Cardinality(Positions(queue, r)) <= 1
    <3>1. Cardinality(Starters(r)) <= Cardinality({<<r, 1>>})
      BY <1>2, <2>1, FS_Singleton, FS_Subset
    <3> QED BY <1>2, <3>1, FS_Singleton
  <2>3. ASSUME NEW i \in DOMAIN queue, NEW j \in DOMAIN queue, queue[i] = queue[j]
        PROVE  i = j
    <3> DEFINE P == Positions(queue, queue[i])
    <3>1. queue[i] \in Rooms /\ i \in P /\ j \in P
      BY <1>1, <2>3 DEF Positions
    <3>2. IsFiniteSet(P) /\ Cardinality(P) <= 1 /\ Cardinality(P) \in Nat
      BY <1>2, <2>2, <3>1, FS_CardinalityType
    <3>3. Cardinality(P) # 0
      BY <3>1, <3>2, FS_EmptySet
    <3> HIDE DEF P
    <3>4. Cardinality(P) = 1
      BY <3>2, <3>3
    <3>5. PICK x : P = {x}
      BY <3>2, <3>4, FS_Singleton
    <3> QED BY <3>1, <3>5
  <2> QED BY <2>3 DEF IsInjective
<1> QED BY <1>4, <1>5

LEMMA ReturnedStays ==
  ASSUME TypeOK, Courses, [Next]_vars, NobodyReturned'
  PROVE  NobodyReturned
<1> SUFFICES ASSUME NEW g \in Conns, g[2] > 1
             PROVE  sock[g] = "none"
  BY DEF NobodyReturned
<1>1. sock'[g] = "none"
  BY DEF NobodyReturned
<1>2. sock \in [Conns -> {"none", "open", "dropped", "closed"}]
  BY DEF TypeOK, SocketTypes
<1>3. ~Connect(g)
  BY <1>1, <1>2 DEF Connect
<1>4. g \in Registered => sock[g] # "none"
  BY DEF Courses, Course, Noted, PastLogin
<1> QED BY <1>1, <1>3, <1>4, SocketsAppear

(* With its threads, tables and lost signals the Center keeps the promise of  *)
(* FairShare: a room is on or off by what its handler has counted, and each   *)
(* scheduling gives as many rooms that are on a place as there can be.        *)
THEOREM CenterSharesFairly == Spec => SharesFairly
<1> DEFINE Inv == TypeOK /\ Courses /\ Counts
<1>1. Init => Inv
  BY InitTypes, CoursesInit, CountsInit
<1>2. Inv /\ [Next]_vars => Inv'
  BY NextKeepsTypes, CoursesStay, CountsStay
<1>3. Inv => Queued
  BY QueuedByCount
<1>4. Init => Share!Init
  <2>1. ASSUME Init PROVE ToSet(oldList) = {} /\ ToSet(queue) = {} /\ NobodyCheckedOut
    BY <2>1 DEF Init, InitWith, ToSet, NobodyCheckedOut
  <2> QED BY <1>1, <1>3, <2>1 DEF Queued, Share!Init
<1>5. Inv /\ Queued /\ Queued' /\ [Next]_vars
        => [(NobodyCheckedOut /\ NobodyReturned)' => Share!Next]_(Share!vars)
  <2> SUFFICES ASSUME Inv, Queued, Queued', [Next]_vars,
                      NobodyCheckedOut', NobodyReturned'
               PROVE  [Share!Next]_(Share!vars)
    OBVIOUS
  <2>1. /\ queue \in Seq(Rooms) /\ oldList \in Seq(Rooms)
        /\ ToSet(queue) = RoomsOn /\ IsInjective(queue) /\ ToSet(queue') = RoomsOn'
    BY ClosedStays, ReturnedStays DEF Queued, TypeOK, ScheduleTypes
  <2>2. CASE Joins
    <3>1. PICK r \in Rooms : queue' = Append(queue, r)
      BY <2>2 DEF Joins
    <3>2. RoomsOn' = RoomsOn \cup {r}
      BY <2>1, <3>1, AppendAsSet
    <3> QED BY <2>2, <3>2 DEF Joins, Share!Next, Share!Ask
  <2>3. CASE Leaves
    <3>1. PICK i \in DOMAIN queue : queue' = RemoveAt(queue, i)
      BY <2>3 DEF Leaves
    <3>2. RoomsOn' = RoomsOn \ {queue[i]} /\ queue[i] \in Rooms
      BY <2>1, <3>1, RemoveAtAsSet
    <3> QED BY <2>3, <3>2 DEF Leaves, Share!Next, Share!Quit
  <2>4. CASE Schedules
    <3>1. oldList' = Window(queue, oldList) /\ RoomsOn' = RoomsOn
      BY <2>1, <2>4 DEF Schedules
    <3>2. /\ ToSet(oldList') \in SUBSET RoomsOn
          /\ Cardinality(ToSet(oldList')) = Share!Lesser(Slots, Cardinality(RoomsOn))
      BY <2>1, <3>1, WindowShares DEF Share!Lesser
    <3>3. \A T : Share!Cardinality(T) = Cardinality(T)
      BY DEF Cardinality, Share!Cardinality
    <3> QED BY <3>1, <3>2, <3>3 DEF Share!Next, Share!Serve
  <2>5. CASE Fails \/ Rests
    BY <2>1, <2>5 DEF Fails, Rests, Moved, Share!vars
  <2> QED BY <2>2, <2>3, <2>4, <2>5, FiveKinds
<1> QED BY <1>1, <1>2, <1>3, <1>4, <1>5, PTL DEF Spec, SharesFairly
=============================================================================
