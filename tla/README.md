# AirConditionSystem in TLA+

The repository simulates the central air conditioning of a hotel and its
billing (`README.md`). Three programs take part: the **Center** (Java), which
schedules and bills; a **Client** (C++) in each guest room, the terminal or
slave; and a **ClientAgent** (Java, in a servlet container), through which a
guest controls the terminal from a browser. This project models the Center (the
threads, the lock, the tables, the rule by which rooms are given wind, the
account of a room), the Client (its threads and connections, the temperature
loop, the XML library it uses), and the messages between all three. TLC checks
the models on small instances and TLAPS proves the main facts for every instance.

## The system

| Part | State | Operations | Talks to |
|---|---|---|---|
| `Dispatcher` | `oldList`, `previousQueueLength` | a loop: wait for the condition, tell mode and period to all, schedule, send fares and charge | handlers and staff through the tables and `WakeUpTable`; terminals through `clients` |
| `RequestHandler`, one thread per connection | `positive`, `client_no`, `isFirst`, `succeed` | greet, temperature, login, start, stop, change of level, clean up | all tables, the queue (locked), the database |
| `Server` | the static tables `clients`, `IPTable`, `logTable`, `energyTable`, `queue`, the lock `produceLock` with the condition `wakeCond` | accept, `removeClient` | everybody |
| `MyTimer` | `count` | every 5 s: raise `fareTimeout`, every tenth time `schedulingTimeout` | the Dispatcher |
| `Config`, `WakeUpTable` | mode, period, state; five flags | get, set | everybody |
| `MainForm`, the event thread | the window of the staff | start, shut down, assign a room, check it out, set mode and period, report | tables, database, sockets |
| `LogHandler`, `RoomInfoHandler`, `Log` | two SQLite tables; a log in memory per room | insert, select, update, delete; `updateEnergyAndFare` | handlers, staff |
| `XMLParser`, `XMLPacker` | - | conversion | - |
| Client: `Control` | `isAgentClosed`, `isFirstTempSubmitSent`, a mutex, two sockets | six threads: a receiver for the Center, one for the Agent, heartbeat, temperature loop, input, and the main thread that reconnects | Center and Agent |
| Client: `Slave`, `Sensor` | login, temperatures, target, mode, wind, two flags; the wind counted so far | get, set, `update_slave_mode`; one degree for every ten units of wind | the threads of `Control`, without a lock |
| Client: `ClientNet`, `XMLInfo` | `m_sock`; - | `Connect`, `SendMsg`, `RecMsg`; build and load documents | the threads of `Control` |
| Client: TinyXML (`tinyxml*.cpp`, in the source tree) | nodes on the heap, five pointers each | link, insert, replace, remove, copy, delete; parse; print | `XMLInfo` |
| ClientAgent: `Controller`, `ClientFactory`, `WebSocketFactory` | maps of terminals, sessions and logins, and a lock | register, login, logout, forward, broadcast the mode | terminals and browsers |

What is hard in it:

- Only the queue and the flags are guarded by `produceLock`, and not even
  always. The tables are concurrent maps that are read and written in several
  steps; handlers, Dispatcher and staff interleave between any two of them.
- A signal reaches the Dispatcher only while it waits. It waits without looking
  at the flags first, so a signal that comes earlier is lost; the timer makes up
  for it.
- Connections are lost, noticed by a failing read, by a failing send, or never,
  and opened again, while the handler of the old one may still run.
- A checkout removes tables under the feet of the others, and each of its steps
  can fail and leave the earlier ones done.
- In the Client a lost connection is met by a receiver that is in `recv`, or is
  handling a message, or has not begun yet; the receivers close each other's
  sockets and agree through one variable.
- The loop of the Client tests a flag, sends a request and clears the flag, while
  three other threads set flags, temperature, target, mode and wind.
- A message comes in pieces, from several threads that send over one socket, and
  is then looked up by name in a tree of raw pointers.
- Energy is counted by the Dispatcher, settled by handlers and staff, and read
  by the broadcast, in separate statements without a lock.

The hazards are listed one by one, with the line where each bites and the
properties that watch it, in `PROJECT.json`.

## The modules

```
 Window ------------> Rotation ----- implements ----> FairShare
   |  (the rule)         ^  (queue, window, flag)       (the promise)
   |                     | implements
   +-----------------> Center   (threads, lock, tables; FairShare
                          :      again, until a room comes back)
                          :
                       RoomAccount  (one room of it: logs, energy, rows)
                          :
    requests and wind     :  one connection each
                          :
 Thermostat (temperature) : Terminal (threads, sockets, login)    the Client
                          :
                       Channel (length, body, pieces: any documents)
                          |
                        Wire   (the documents of this system)
                          |
 XmlWriter ------------> Xml   (parse, print)
                          :
                        Dom ---------- implements ----> DomTree
                    (five pointers a node)            (ordered trees)
```

An arrow is EXTENDS or INSTANCE; dots join modules that look at the same thing
from two sides. Modules that end in `Proofs` hold the theorems about the module
they are named after; modules that begin with `MC` hold what only TLC needs.

**Window** is the pure rule of `Dispatcher.schedule`, lines 120-131: with more
rooms in the queue than slots, the window takes rooms in cyclic order from the
one that closed the last window, or from the head if that room has left.

**Rotation** is the rule among rooms that join and leave. `FreshSpec` restricts
it to queues without repetitions, which handlers guarantee as long as no
connection is lost; `PromptNext` further to a Dispatcher that answers each
change before the next; **Waiting** follows these and counts, for every room, the
windows that have passed it over. **FairShare** is what the Center promises to rooms,
with no algorithm in it: `Serve` picks as many waiting rooms as possible, any of
them, and no room waits for ever.

**Center** has the threads. Its variables are the fields of the classes above
under their names. `sock` and `told` stand for the other ends: what the Center
sees of a socket, and what a terminal was last sent. `hpc`, `dpc` and `spc` say
where each handler, the Dispatcher and the event thread are. Actions carry the
names of the operations; the comment of each gives the lines.

| Code | Actions |
|---|---|
| `RequestHandler.run`, until the login | `Greet`, `Submit`, `Login`, `Ack`, `BindLog`, `Register` |
| the end of a connection | `Drop`, `ReadFails`, `LoopEnds`, `CleanUp`, `CleanRemove`, `Forget` |
| `handleAC` | `Start`, `Enqueue`; `Stop`, `Dequeue`, `Commit`; `ChangeLevel` |
| `Dispatcher.run` | `Await`, `Relock`, `InformMode`, `InformFreq`, `SkipSchedule`, `Schedule`, `ScheduleFails`, `Fare`, `Remember` |
| `MyTimer.run` | `Expire` |
| `MainForm` | `SetMode`, `SetFreq`, `AssignClient`, `CheckOut` and the six steps after it, `CheckOutAbsent` |

**RoomAccount** looks at one room with a finer grain: the `Log` object each
login makes, `energyTable`, the rows of the table `log` with their key, and
`commitLog` one action per statement (`CommitUpdate`, `CommitSum`, `CommitStore`,
`CommitZero`, `CommitInsert`), run by handlers and by the event thread. The
Dispatcher reads and writes `netDuration` in two actions (`Charge`,
`WriteBack`), and the fare in two (`FareDue`, `Tell`). The other rooms only
decide how often this one is in the window (`Reschedule`) and what the removal
by index in `removeClient` hits.

**Terminal** has the threads of the Client that keep its two connections:
`main` is where `control_init` is, `receivers` holds the threads
`control_masterServer` and `control_agentServer`, old ones among them; `sock` is
`m_sock` of either side and `conn` what `recv` meets on each handle.

| Code | Actions |
|---|---|
| `control_init` | `Repeat`, `ConnectMaster`, `MasterStillThere` (label `repeat1`), `ConnectAgent`, `StartAgentServer`, `Register`, `Restart` |
| either receiver | `Listens`, `RecMsgFails`, `TestsFirst`, `Claims`, `ClosesOther`, `TestsOwn`, `ClosesOwn` |
| `control_agentServer`, `loginReqHandler` | `TakesMutex`, `LoginWaits`, `LoginTests`, `LoginSends`, `LoginMarks`, `LoginAgain`, `ReleasesMutex` |
| `control_masterServer`, `loginACKHandler` | `AckArrives`, `AckTests`, `AckSets`, `Ends` |
| `control_heart_beat` | `HeartBeats` |
| page, Center, network | `LoginArrives`, `CenterAnswers`, `Loss` |

**Thermostat** has the threads that share the fields of `Slave`, one step for each
test, request and assignment that another thread can come in front of.

| Code | Actions |
|---|---|
| `control_change_temp` | `NearTarget`, `NearClears`, `ModeChanged`, `ModeClears`, `FarFromTarget`, `FarClears`, `LoopRequests`, `Sensor`, `OneDegree`, `Reached`, `Retry` |
| `userInputListener` | `UserFlags`, `UserSets` |
| `Set_Temp` from the page | `PageSets`, `PageRequests` |
| `Mode`, `Login_ACK`, `Wind` from the Center, the end of a connection | `ModeArrives`, `ModeRequests`, `LoginArrives`, `LoginSets`, `WindArrives`, `LoggedOut` |
| the Center, as a room sees it | `Grants`, `Stops`, `Preempts` |

**Dom** has the pointers of `TiXmlNode` and every operation on them: `LinkEndChild`,
the three insertions, `ReplaceChild`, `RemoveChild`, `Clear`, the destructor, and
the parser's way of linking (`Identify`, `LinkParsed`, `ReadText`). An operation is
one action, since one thread works on a document. **DomTree** is what it promises:
every call edits one sequence of children and leaves the others as they are.

**Xml** is the parser and the printer as operators over a sequence of lexemes,
and **XmlWriter** writes every document XML allows, remembering what was meant;
its actions are external, they are the ways to write XML.

**Channel** is one way of a connection, for any documents: threads send a length
and a body each, as `ClientNet::SendMsg` and `RequestHandler.sendMsg` do, and one
receiver puts the pieces together again as `ClientNet::RecMsg` does. **Wire** puts
on it the documents that `XMLInfo`, `XMLPacker` and the Agent build, with the
fields each program writes and reads, in each of four directions. Channel stands
apart because it needs nothing of the parser, whose recursion the provers cannot
follow.

### What an action stands for

- A critical section that nobody can look into is one action, enabled when the
  lock is free. The sections of the Dispatcher are several, since others use the
  tables meanwhile without the lock. Broadcasting one message to all is one
  action, and so is a scheduling that meets all logs; one that fails on a
  missing log may have served any part of the rooms before.
- A handler is at `read` from the top of its loop until it has a message. If the
  staff close its socket it finds out by the test of the loop and cleans up, or
  in the read and just returns; both are possible at any time.
- `tempTable` is left out: its keys are those of `logTable`.
- A login comes with right or with wrong credentials; the terminal sends none
  once it is logged in (`Slave::loginReqHandler`). Bad messages change nothing.
- The fields of `WakeUpTable` and `positive` are read under the lock or by one
  thread only. `netDuration` and `energy` are not: their races are explored as
  interleavings of the reads and writes, in one order seen by all threads. What
  the Java memory model allows beyond that is not.
- A null pointer or an index out of bounds ends the handler or the click, and
  the Dispatcher for good; a lock that is held then stays locked unless a
  `finally` unlocks it.
- In Terminal and Thermostat a read or write of a shared field is a step of its
  own wherever another thread may come between it and the next. What C++ allows
  beyond that for unlocked fields is not explored.
- `Register` and `Restart` stand for the half seconds `control_init` sleeps: the
  receivers make the steps they can make before the main thread goes on. A
  socket handle is not given out again while a field or a thread still names it,
  and a place in `receivers` is taken only when its thread has ended.
- The mutexes of `CClientNet` and `Control` are created with names that are not
  terminated; they are taken to be distinct.
- In Channel two of the four bytes of a length are told apart, a line of a document
  stands for its bytes, and a body of two threads that were mixed is not read
  further. In Xml encodings are left out, assertions are off, and a cut falls
  between two lexemes.
- In RoomAccount `newLog` is one action, and so is the second half of a tick;
  the wind, and the rooms beside this one, are abstracted.

## The plan

Done: Window, Rotation, FairShare; Center up to shutdown and restart; RoomAccount
for one room; Terminal, Thermostat; Dom, DomTree, Xml, XmlWriter; Channel, Wire.

Left, in this order:

1. Lifecycle: `serverShutdown`, `serverStart`, the interrupt the Dispatcher
   swallows (`Dispatcher.java:77`), the lock that a restart replaces, the state
   Off that a start overrides.
2. A Center with a broadcast per room, where the entry that is removed after a
   failed send may be a newer one.
3. Agent: terminals, sessions, logins and the lock of `Controller`.
4. Database: the transaction that a failing insertion leaves open.
5. Terminal composed with the Center's side of a login.

Theorem still worth proving: the least bound of `BoundedWait` (see the end of
"What is proved").

## What is checked

The runs are in `PROJECT.json`; each has its `.cfg`. `MCCenter` and
`MCRoomAccount` add what only TLC needs: addresses, and other initial states.
`MCDom` adds the symmetry of addresses, `MCWire` names and values.

**The rule.** `rotation` takes 5 rooms and 3 slots, the number of the code, and
two kinds of behaviours, told apart by a variable that keeps its first value.
With a prompt Dispatcher no queued room is passed over more than twice in a row
(`BoundedWait`) and none waits for ever (`ServedWhenPrompt`). With other sizes
TLC finds 3 (4 rooms, 2 slots), 6 (5 and 2), 1 (4 and 3); with one slot the
room that blows would open every next window, hence the assumption on `Slots`.
Without promptness rooms that stop and start again in batches can keep one
waiting for ever; what is left is that windows are right (`ServedOnce`,
`SharesSafely`) and that everyone is served once nobody leaves
(`ServedWhenQuiet`). Five rooms are the least for which the window wraps around
the queue in all positions.

**The threads.** Two slots replace the three of the code, so that three rooms
are more than fit; one fan level is enough where levels only change the log, and
`MaxCount` 1 or 2 lets the scheduling timeout come at once. `MCCenter` also
starts Center later, in states in which rooms have logged in; where it offers a
choice of starts, a run covers several scenarios with bounds of their own.

- `center_login`: two rooms from the start of the Center, with the timer, under
  fairness. Queue and window move as Rotation says, the Dispatcher meets no room
  without a log, every flag is answered although any signal may be lost, a
  terminal that stops is silenced and one that starts blows.
- `center_checkout`: three rooms, two slots and no checkout, which gives windows
  that leave a room out; or two rooms of which one is checked out at any moment.
  Windows follow the queue in both (`Settled`). Until the checkout the windows
  keep the safety half of FairShare for the rooms whose handlers have counted a
  start and no stop (`SharesFairly`), so that it is the threads and not only the
  rule that are fair; that a window is renewed at all is `Settled`. With a room
  that comes back it would fail: TLC finds the queue 1, 1, 2 and the window 1, 1
  within one loss.
- `center_return`: one room that loses its connection and comes back, while the
  staff switch mode or period; or that is checked out and comes back as a new
  guest over a second connection; or that is checked out twice and loses its last
  connection. What survives the faults below is stated here: the Center is not
  idle with a room queued, and who was registered at a change is informed of it. A loss never makes the queue count
  wrong, although it leaves the room queued. Deadlock is not checked in these
  two, since a leaked lock stops the program.

**The account.** `account` takes two connections, two levels and four ticks, with
a choice of scenarios: three starts undisturbed, or one start with a loss, a
checkout and a tick or a change of level. As long as nothing disturbs the account
every tick is charged once (`Conserved`), what the terminal is shown is for what
was used (`FareIsForUse`), and the rows account for all of it
(`RecordsComplete`); losses, reconnections and changes of level alone never end
a thread that is needed (`SoundUntilCheckout`). The bounds end this run, so
deadlock is not checked.

**The Client.** `terminal` has two losses, three logins and four handles: two
losses are enough for a second one to cross the recovery from the first, three
logins for the last retry, and four handles for an old and a new connection of
each side. Whatever is lost when, no receiver of an old page connection is left
when the connections are set up anew (`NoOldAgentServer`). As long as each loss
meets the program at rest (`quiet`), both connections come back (`Recovers`),
two receivers never read one connection (`OneReader`), and the program is logged
in only for whom the Center admitted (`LoginIsGranted`). Without the proviso
each of the three fails: `Recovers` and `OneReader` with one loss,
`LoginIsGranted` with two.

`thermostat` has four temperatures, so that a room can be two degrees short in
either mode, and beyond its target when the mode becomes SUMMER; two units of
wind for a degree, two inputs, two logins and one turn taken by another room. As
long as `Calm` holds, a room that is two degrees short has asked for wind
(`NeedIsAsked`), and it comes near its target in the end (`ReachesTarget`). Each
clause of `Calm` is needed; TLC refutes `NeedIsAsked` without it.

**XML and messages.** `dom` takes five addresses, which is enough for a node
with two siblings and a grandparent, and for a copy of a pair below a third
node. `xml` takes all documents of up to fifteen lexemes with at most three that
are not tags: two levels of elements, or a root with an attribute and a text or
a comment. `wire` takes two messages by two threads in every direction, in
pieces of every size, with a loss anywhere: framing goes wrong at the second
message or not at all. Deadlock is not checked in `terminal`, `thermostat`,
`xml` and `wire`, where behaviours end with the inputs.

Every bound is a constant: connections per room, losses, checkouts, changes of
mode, of period, of level, starts and ticks; handles, logins, retries, inputs;
addresses, lexemes, messages. The faults found need at most two of anything.

### Where the code does something else than it says

Each of these is a run that TLC refutes.

| Run | What happens | What is said |
|---|---|---|
| `terminal_hangs` | the Center is lost while the page's receiver is not in `recv`: its side is closed, it polls "NoMsg" for ever with the mutex held, and nothing is connected again | `src/Documents/protocol_0505.docx`, paragraph 85: on a lost connection the Client goes back to its initial state and connects again; `src/Documents/碎碎念_0505.docx`, paragraph 58 |
| `thermostat_blows_away` | a room that is heated when the mode becomes SUMMER goes on asking for wind, which now takes it away from its target | `src/Documents/碎碎念_0505.docx`, paragraph 54: after a change of mode judge again and send the request again; `protocol_0505.docx`, paragraph 83: a request is sent to stop the wind too |

The models contain more of the kind, which no run is spent on. They explain the
antecedents of the properties above, `NobodyCheckedOut`, `Undisturbed`, `quiet`
and `Calm`. In the Center:

- A terminal that is lost stays queued, selected and charged, since its handler
  ends without `cleanUp` (`ReadFails`); the comment at `RequestHandler.java:6`
  says that cleaning up is done. When its room comes back and starts it is queued
  twice, and the window may give it two of the slots while another room waits.
- `queue.remove(client_no)` removes by index: at a checkout another room may lose
  its place, or none (`RemoveClient`).
- After a checkout the Dispatcher may meet a room without a log and end
  (`ScheduleFails`, `Fare`).
- A room that has stopped is charged again for its last use at checkout, since
  its settled log is still in `logTable` (`CheckOutTest`, `Commit`).
- `removeClient` throws with the lock locked when the room number is not below
  the length of the queue (`CheckOutRemove`, `CleanRemove`, `lock`).
- A room that logs in while the mode changes is greeted with the old mode, is
  registered after the broadcast, and is never told (`Greet`, `Register`).
  `InformedOfChange` speaks of rooms that were registered at the change.
- Addresses are looked up and kept under room 0: the first terminal fixes the
  address for all (`Login`). The runs give all terminals one address.
- A room whose entry a failed send has dropped is settled as one that never
  logged in, and `energyTable` keeps its energy for the next guest
  (`CheckOutAbsent`).
- A start between the unlock and line 84 of the Dispatcher is not displayed
  (`Remember`).
- A change of level that races with a tick loses the tick, or charges again what
  was settled (`Charge`, `WriteBack`); a new connection throws away what the open
  log has counted (`BindLog`); of two logs that start in the same second one is
  not recorded (`Insert`, with `Hasty`). `Conserved` and `RecordsComplete` are
  therefore checked with a constant level between a start and its stop, with one
  connection, and with starts a second apart.
- A broadcast that reads the account between the store and the zeroing of a
  commit shows the use twice; `FareIsForUse` excepts that window.

In the Client:

- What crosses the loop is forgotten (`Calm`, clause by clause): a temperature
  whose flag is raised before it is stored (`UserFlags`) is judged by the old
  value, and a flag raised during a request is cleared after it; a setting or a
  mode that comes between the decision to stop and the request is followed by
  the stop (`nearSend`, `farStop`, `reachedSend`).
- A setting on the wrong side is refused by asking for no wind at all, while the
  old target stays (`PageSets`); according to `碎碎念_0505.docx`, paragraph 65, it
  should be clamped and answered.
- A flag 2 that is raised without wind stays, and takes the place of a later
  demand; a login with an unchanged mode asks for nothing; two changes of mode
  before a login cancel (`NearTarget`, `LoginArrives`, `UpdateMode`).
- A `Login_ACK` may overtake the assignment of LOGINING, and is then dropped: the
  program stays LOGINING (`LoginMarks`, `AckTests`). `retryTimes` is never reset
  (`LoginAgain`), so that after the first series of retries each repeated login
  closes the connection to the Center.
- The mutex of `SendMsg` covers the length only, so bodies of two threads may
  follow two lengths (`mixed`); the same holds for a handler and the Dispatcher
  in the Center. What a receiver makes of it is not followed.
- A blank field has no text node, and `GetText` gives the null pointer
  (`FieldsArrive` shows where it arrives blank). A value with "&" before "#x" is
  printed unencoded and read as a reference (`PrintsBack`).

### Fairness

Weak fairness of the Dispatcher's steps and of the timer, and of nothing else:
terminals, network and staff may do nothing at all, and handlers may stay where
they are, except that they hold the lock only within one action. The timer's
thread sleeps and goes on in a loop, and the Dispatcher's steps are those of a
running thread. Both have to get the lock in the end; `produceLock` is not a fair
lock, so this is an assumption about the scheduler, justified as the sections
are short and the others are driven by messages. For Rotation weak fairness of
`Reschedule` follows from it: every change raises `queueChanged`, and every
tenth tick raises `schedulingTimeout`.

In Terminal the threads run: weak fairness of the main thread, of the heartbeat
and of each receiver. Connecting may fail any number of times but not for ever,
which is strong fairness of `ConnectMaster` and `ConnectAgent`: the programs they
connect to are assumed to be there in the end. Nothing is assumed of page,
network and Center. In Thermostat the loop and the other threads run, a message
of wind is read, and the Center grants what is asked and stops what is not any
more, which `StartReaches` and `StopReaches` of Center show for a Center with
slots for all; a turn taken by another room is bounded. In Channel a thread that has
begun a message ends it, and a receiver reads what is there.

## What is proved

TLAPS checks the following for every value of the constants.

- **WindowProofs**: `WindowFits` (the window consists of rooms of the queue and
  has the length it should) and `WindowInjective` (no repetitions in, none out).
  The latter rests on `CyclicOnce`: two offsets below the length of a queue that
  is cut at any opening never give the same position, by the division theorem.
  `WindowShares` puts both together: as sets of rooms, as many as possible.
- **RotationProofs**: `RotationTypes`, `RotationServesOnce` (with the queue
  injective as the strengthening: `ServedOnce` alone is not inductive, since the
  next window depends on the queue), and `RotationSharesSafely`, the step
  simulation of FairShare. The last needs that a room that leaves an injective
  queue is really gone from it. `RotationBoundsWait` is about Waiting. Its
  assumption is a bound `WaitBound` with `2 * (Slots - 1) * WaitBound >= n * n`
  for `n` rooms. The argument is a potential: a room at position `p` of the queue
  owes a `Debt`, which counts the way from the next opening to `p` twice, and a
  share for the rooms ahead of it, since each of them can put the opening back to
  the head once, by leaving when it has closed the last window. A window that
  passes the room over takes `2 * (Slots - 1)` off its debt (`DebtAfterPass`); no
  room that joins or leaves adds to it (`DebtAfterJoin`, `DebtAfterLeave`), for
  places still free among the `n` rooms and the change a prompt Dispatcher has
  yet to answer are counted in beforehand. A debt is at most `n * n`
  (`DebtBound`), so the windows that passed a room over and its debt together
  never exceed that (`WaitInv`, the inductive invariant).
- **CenterProofs**: all actions of Center fall into five kinds by what they do to
  queue, window, flag and state (`FiveKinds`): join, leave, schedule, fail, rest.
  From that lemma and the type invariant follow `CenterOnWhileQueued`,
  `CenterSettled` and `CenterRotates` (Center implements Rotation).
  `CenterDispatcherLives` needs a stronger invariant: as long as no connection
  was closed by a checkout, nobody settles an account, and a handler that is past
  `BindLog` has its room's log; then no step removes a log that is needed.
  The second half of the module follows one connection through its handler:
  `Courses` says which combinations of program counter, `succeed` and `positive` there are, and
  that whoever is registered, or was at a change, is past its login.
  `CenterInforms` then needs no more. `CenterQueueCounts` needs that until a
  checkout no handler settles (`NobodySettles`) and a handler about to enqueue or
  dequeue is a starter of its room (`Booked`); the queue then holds a room once
  for each. `CenterBlowsWhenSelected` is about first connections (`Firsts`): no
  other handler works for the room meanwhile (`Alone`), and as long as its log has
  level 0, for which `SendWind` skips the room, it is neither queued nor in the
  window and was not told to blow (`Still`). `CenterSharesFairly` refines
  FairShare past the rule: by the count of `CenterQueueCounts` the rooms in the
  queue are those that are on, each of them once while no room has come back
  (`Queued`), and then each of the five kinds is a step of FairShare or none.
- **ThermostatProofs**: `ThermostatTypes` and `ThermostatNeedIsAsked`. The second
  is strengthened to hold at every step and not only when nothing is under way
  (`NeedInv`): a room in need has asked, or a flag or a thread that will ask is
  `Pending`; and the loop is about to stop the wind only without a need.
- **RoomAccountProofs**: `AccountSoundUntilCheckout` rests on `Sound`: one
  connection is open at a time, a handler past `BindLog` has a log, and no log is
  taken away. `AccountConserved` and `AccountFareIsForUse` add `Ledger`, an
  equation for every place a commit or a tick can be at. `AccountRecordsComplete`
  adds `Rows`: the rows, with the open log while it has no row yet, are worth
  what was used, and the start of that log is the key of none of them. It is stated
  for `~Hasty`: of two logs that start in the same second the table keeps one.
- **TerminalProofs**: `TerminalTypes`, `TerminalNoOldAgentServer`,
  `TerminalLoginIsGranted`, `TerminalOneReader`. The second is not inductive: the
  main thread looks at the mutex, not at the receivers. What it rests on is that
  at most one receiver of the page is there (`Alone`), that the mutex is free only
  before that one has taken it or after it has ended (`MutexTells`), and that the
  main thread looks only after it was taken (`TakenBeforeWait`). That last one is
  the assumption on the half second, the guard of `Register`. The other two hold
  while each loss meets the program at rest. Their invariant `QuietInv` says that
  the program is then in one of six phases (`Down`, `Half`, `Spawning`, `Up`,
  `Noticed`, `Closing`), in each of which every receiver but one per side has
  ended, and where a login is on its way (`LoginInOrder`).
- **ChannelProofs**: `ChannelFramed`. What was handed to `SendMsg` so far is one
  stream of bytes, and each document begins at a position of it (`Stream`). The
  inductive invariant (`ChannelInv`) says where in the stream everything is: the
  buffer of the receiver begins where the document it will return next begins,
  the wire goes on from there (`UnderWay`), and what the one thread that is
  sending has left is the end of the stream (`LeftOver`), unless the connection
  is lost; so a cut can shorten the wire only at its end, and no later byte
  closes the gap. With two threads sending (`mixed`) nothing of it is true.
- **DomProofs**: `DomTypes`, `DomNoDangling`, `DomAcyclic`, `DomWalksAgree` and
  `DomImplementsTree`, all from one invariant, `HeapInv`: some assignment `k` of a
  sequence of children to every node is spelt by the pointers (`Spells`), that is,
  neighbours in a sequence are neighbours by `prev` and `next`, its ends are
  `firstChild` and `lastChild`, its members are those whose `parent` is the node
  and which the parser does not hold, free addresses have null pointers, and
  following `parent` never returns (`NoCycle`). The sequences are not variables of
  Dom; a lemma for each kind of edit (`LinkSpells`, `UnlinkSpells`, `EmptySpells`,
  `FreeSpells`, `CopySpells`) gives the new ones, and each operation is one or
  several of them in a row. `WalksAgree` follows since a walk from `firstChild`
  reads exactly the sequence of its node (`KidsSpelt`). `WellLinked` is the same
  thing without `k`. For the refinement, the forest of DomTree is `k`
  (`ForestSpelt`), what is below a node by the sequences is what is below it by
  `parent` while nothing is being parsed (`TreeIsSubtree`), and each operation's
  lemma names the sequences after it, which are one edit of DomTree
  (`AttachSteps`, `InsertSteps`, `ReplaceSteps` and so on). Beginning and ending a
  parse changes nothing that DomTree can see.

The assumptions are those the modules state on their constants (`Slots >= 2`,
rooms are positive numbers, the heap is finite, and so on). What these theorems
say of Center holds with losses, checkouts and a leaked lock, unless they start
with `NobodyCheckedOut`, and what they say of Terminal with any losses, unless
they start with `quiet`. Mistakes of the code that make such an antecedent
necessary are listed under "Where the code does something else than it says".

The library's induction theorems cannot be used here, since they take an operator
as a parameter. Where a fact needs induction it is proved from a least
counterexample instead: of finite sets for the sum over the rows (`SmallestSet`,
from the well-foundedness of the subset relation), of numbers for the walks
(`SmallestNumber`). `Walk` is written as a function that returns a function
because the prover knows no functions of two arguments.

Only model-checked:

- All liveness, and with it the other half of FairShare, `Recovers` and
  `ReachesTarget`: out of the prover's reach.
- That no room of 5 is passed over more than twice with 3 slots: the theorem
  gives 6. In all sizes TLC can finish, the least bound is the sum of
  `k \div (Slots - 1)` over `k` from 0 to `n - 2`, which comes close to the proved
  one as `n` grows; that it is so for all sizes is not proved.
- `FieldsArrive`, `ReadsWhatIsMeant`, `CutIsNoticed` and `PrintsBack`: what the
  parser and the printer compute is recursive over texts, which takes RECURSIVE
  operators and an induction over data.
- That the mixed streams which `ChannelFramed` excepts do arise, which TLC shows
  by reaching `mixed`.

## What is not modelled

- Of the Center: shutdown and restart, a broadcast per room, reports, the
  transactions of the database; they are in the plan above, reports excepted,
  which only read. Temperatures do not influence the Center.
- Of the Client: fares and periods, which are passed on; the queue of users,
  which nobody fills; `control_first_login_to_master`, which nobody starts; the
  conversion of numbers.
- Of TinyXML: attribute queries, files, streams and locations, which the Client's
  messages do not use; encodings and the string class, which a text made of
  lexemes stands above.
- The Agent, beyond the messages it exchanges with the Client, and the pages in
  the browser.

A send that fails after the room has come back, shutdown and restart, the
transaction left open and the lock of the Agent are hazards that no property
covers yet.
