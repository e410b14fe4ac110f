----------------------------- MODULE Thermostat -----------------------------
(* How a room's program (Client) keeps the temperature: the loop               *)
(* control_change_temp, the user's input of a temperature, the settings of the *)
(* page, the mode and the wind that come from the Center, and the sensor that  *)
(* counts the wind and moves the temperature one degree at a time.  Four       *)
(* threads share the fields of Slave without a lock.  Only requests and wind   *)
(* cross the connection here; Terminal has the connection itself.              *)
EXTENDS Integers

CONSTANTS
    Temps,          \* temperatures entered or set; bound: no other is reached
    SummerTarget,   \* the target when the mode becomes SUMMER, 22
    WinterTarget,   \* the target when the mode becomes WINTER, 28
    Speeds,         \* levels of wind
    Full,           \* wind for one degree, 10
    MaxInputs,      \* bound: temperatures, settings and modes from outside
    MaxPreempts,    \* bound: times the Center takes the wind back for another
    MaxLogins       \* bound: logins

ASSUME ThermostatAssumption ==
    /\ Temps \subseteq Int
    /\ SummerTarget \in Temps /\ WinterTarget \in Temps
    /\ 1 \in Speeds /\ Speeds \subseteq Nat \ {0}
    /\ Full \in Nat \ {0}
    /\ MaxInputs \in Nat /\ MaxPreempts \in Nat /\ MaxLogins \in Nat

VARIABLES
    loop,                          \* where control_change_temp is
    user, page, master,            \* a step the other threads still have to make
    isCurrentTempChanged,          \* 0, 1 (far from the target) or 2 (near it)
    isModeChanged,
    slave_state,
    slave_mode, slave_current_temp, slave_target_temp,
    slave_current_wind_speed, slave_wind_permitted,
    temp,                          \* what the sensor has counted
    asked,                         \* the last AC_Req the Center took
    blowing,                       \* what the Center last said of the wind
    wind,                          \* a Wind message on the way
    calm,                          \* history, see Calm
    inputs, preempts, logins

flags == <<isCurrentTempChanged, isModeChanged>>
target == <<slave_mode, slave_target_temp>>
air == <<slave_current_wind_speed, slave_wind_permitted>>
threads == <<loop, user, page, master>>
center == <<asked, blowing, wind>>
bounds == <<inputs, preempts, logins>>
vars == <<threads, flags, slave_state, target, slave_current_temp, air, temp,
          center, calm, bounds>>

None == [positive |-> FALSE, level |-> 1]

LoggedIn == slave_state = "OPEN_WITH_LOGIN"

\* The direction in which wind changes the temperature, and how far there is
\* to go in that direction.
Toward(mode) == IF mode = "WINTER" THEN 1 ELSE -1
Way(mode, t) == Toward(mode) * (t - slave_current_temp)
ToGo ==
    IF slave_mode = "WINTER" THEN slave_target_temp - slave_current_temp
                             ELSE slave_current_temp - slave_target_temp
Wanted == ToGo >= 2

TypeOK ==
    /\ loop \in {"top", "nearSend", "nearClear", "mode", "modeSend",
                 "modeClear", "far", "farStart", "farStop", "farClear", "judge",
                 "step", "reached", "reachedSend", "retry", "retrySend"}
    /\ user \in {<<>>} \cup {<<t>> : t \in Temps}
    /\ page \in {<<>>} \cup {<<p>> : p \in BOOLEAN}
    /\ master \in {"idle", "state", "request"}
    /\ isCurrentTempChanged \in 0..2 /\ isModeChanged \in BOOLEAN
    /\ slave_state \in {"OPEN_WITHOUT_LOGIN", "OPEN_WITH_LOGIN"}
    /\ slave_mode \in {"WINTER", "SUMMER"}
    /\ slave_current_temp \in Temps /\ slave_target_temp \in Temps
    /\ slave_current_wind_speed \in Speeds
    /\ slave_wind_permitted \in BOOLEAN
    /\ temp \in 0..(Full - 1)
    /\ asked \in [positive : BOOLEAN, level : Speeds]
    /\ blowing \in BOOLEAN
    /\ wind \in {<<>>} \cup {<<w>> : w \in [on : BOOLEAN, level : Speeds]}
    /\ calm \in BOOLEAN
    /\ inputs \in 0..MaxInputs /\ preempts \in 0..MaxPreempts
    /\ logins \in 0..MaxLogins

Init ==
    /\ loop = "top" /\ user = <<>> /\ page = <<>> /\ master = "idle"
    /\ isCurrentTempChanged = 0 /\ isModeChanged = FALSE
    /\ slave_state = "OPEN_WITHOUT_LOGIN"
    /\ slave_mode = "SUMMER"
    /\ slave_current_temp = SummerTarget
    /\ slave_target_temp = SummerTarget
    /\ slave_current_wind_speed = 1
    /\ slave_wind_permitted = FALSE
    /\ temp = 0
    /\ asked = None /\ blowing = FALSE /\ wind = <<>>
    /\ calm = TRUE
    /\ inputs = 0 /\ preempts = 0 /\ logins = 0

\* control_masterClient("AC_Req", p): the Center takes requests of those it has
\* admitted.
Request(p) ==
    /\ asked' = IF LoggedIn \/ master = "state"
                  THEN [positive |-> p, level |-> slave_current_wind_speed]
                  ELSE asked
    /\ UNCHANGED <<blowing, wind>>

Silent == UNCHANGED center

Input == inputs < MaxInputs /\ inputs' = inputs + 1
                            /\ UNCHANGED <<preempts, logins>>

Idle(thread) == CASE thread = "loop" -> loop = "top"
                  [] thread = "user" -> user = <<>>
                  [] thread = "page" -> page = <<>>
                  [] thread = "master" -> master = "idle"

\* No temperature is entered and no login arrives while the loop is at work; no
\* setting or mode comes between its decision to stop the wind and the request;
\* no setting was refused; no new need meets the mark of a temperature that came
\* near the old target, or a login that brings no change with it.
Calm ==
    /\ Idle("loop") \/ (Idle("user") /\ master # "state")
    /\ loop \in {"nearSend", "farStop", "reachedSend"}
         => Idle("page") /\ Idle("master")
    /\ page # <<FALSE>>
    /\ Wanted => isCurrentTempChanged # 2
    /\ master = "state" /\ Wanted => isModeChanged \/ isCurrentTempChanged = 1

Note == calm' = (calm /\ Calm')

-----------------------------------------------------------------------------
(* The loop.  It looks at the login once and then goes through to the end; a   *)
(* request is sent after the test that decides on it, and a flag is cleared    *)
(* after the request.                                                         *)

\* The places where the loop sends a request: which, and where it goes on.
Sending ==
    [nearSend    |-> [positive |-> FALSE, next |-> "nearClear"],
     modeSend    |-> [positive |-> TRUE,  next |-> "modeClear"],
     farStart    |-> [positive |-> TRUE,  next |-> "farClear"],
     farStop     |-> [positive |-> FALSE, next |-> "farClear"],
     reachedSend |-> [positive |-> FALSE, next |-> "retry"],
     retrySend   |-> [positive |-> TRUE,  next |-> "top"]]

LoopGoes(from, to) ==
    /\ loop = from
    /\ loop' = to
    /\ UNCHANGED <<user, page, master, slave_state, target, air, bounds>>

LoopRequests ==
    \E place \in DOMAIN Sending :
        /\ LoopGoes(place, Sending[place].next)
        /\ Request(Sending[place].positive)
        /\ UNCHANGED <<flags, slave_current_temp, temp>>
        /\ Note

LoopTests(from, to) ==
    /\ LoopGoes(from, to)
    /\ Silent
    /\ UNCHANGED <<flags, slave_current_temp, temp>>
    /\ Note

\* The temperature came near the target: the wind is not needed.
NearTarget ==
    LoggedIn /\ LoopTests("top", IF isCurrentTempChanged = 2
                                    /\ slave_wind_permitted
                                   THEN "nearSend" ELSE "mode")

ModeChanged == LoopTests("mode", IF isModeChanged THEN "modeSend" ELSE "far")

\* Mutant of FarFromTarget: two degrees are not far enough.
FarFromTargetByThree ==
    LoopTests("far", IF isCurrentTempChanged # 1 THEN "judge"
                     ELSE IF ToGo > 2 THEN "farStart"
                     ELSE IF slave_wind_permitted THEN "farStop"
                     ELSE "farClear")

\* The temperature went away from the target, in one direction or the other.
FarFromTarget ==
    LoopTests("far", IF isCurrentTempChanged # 1 THEN "judge"
                     ELSE IF Wanted THEN "farStart"
                     ELSE IF slave_wind_permitted THEN "farStop"
                     ELSE "farClear")

Clears(from, to) ==
    /\ LoopGoes(from, to)
    /\ isCurrentTempChanged' = 0
    /\ Silent
    /\ UNCHANGED <<isModeChanged, slave_current_temp, temp>>
    /\ Note

NearClears == Clears("nearClear", "mode")

FarClears == Clears("farClear", "judge")

ModeClears ==
    /\ LoopGoes("modeClear", "far")
    /\ isModeChanged' = FALSE
    /\ Silent
    /\ UNCHANGED <<isCurrentTempChanged, slave_current_temp, temp>>
    /\ Note

\* sensor_calculate_temp sleeps for a second before it counts the wind that was
\* read; nobody else uses its count.
Sensor ==
    LET sum == temp + slave_current_wind_speed
    IN  /\ IF slave_current_temp # slave_target_temp /\ slave_wind_permitted
             THEN /\ temp' = IF sum >= Full THEN 0 ELSE sum
                  /\ LoopGoes("judge", IF sum >= Full THEN "step" ELSE "top")
             ELSE LoopGoes("judge", "top") /\ UNCHANGED temp
        /\ Silent
        /\ UNCHANGED <<flags, slave_current_temp>>
        /\ Note

OneDegree ==
    /\ LoopGoes("step", "reached")
    /\ LET next == slave_current_temp + Toward(slave_mode)
       IN  slave_current_temp' = IF next \in Temps THEN next
                                                   ELSE slave_current_temp
    /\ Silent
    /\ UNCHANGED <<flags, temp>>
    /\ Note

Reached ==
    LoopTests("reached", IF slave_current_temp = slave_target_temp
                           THEN "reachedSend" ELSE "retry")

Retry == LoopTests("retry", IF Wanted /\ ~slave_wind_permitted
                              THEN "retrySend" ELSE "top")

control_change_temp ==
    \/ NearTarget \/ NearClears \/ ModeChanged \/ ModeClears \/ FarFromTarget
    \/ FarClears \/ LoopRequests \/ Sensor \/ OneDegree \/ Reached \/ Retry

-----------------------------------------------------------------------------
(* The other threads.                                                         *)

\* userInputListener, setCurrentTemp: the flag first, the temperature after it.
UserFlags(t) ==
    /\ user = <<>>
    /\ Input
    /\ isCurrentTempChanged' = IF slave_target_temp - t > 1
                                  \/ t - slave_target_temp > 1 THEN 1 ELSE 2
    /\ user' = <<t>>
    /\ UNCHANGED <<loop, page, master, isModeChanged, slave_state, target,
                   slave_current_temp, air, temp, center>>
    /\ Note

UserSets ==
    /\ user # <<>>
    /\ slave_current_temp' = user[1]
    /\ user' = <<>>
    /\ UNCHANGED <<loop, page, master, flags, slave_state, target, air, temp,
                   center, bounds>>
    /\ Note

\* load_Set_Temp_doc: a target on the far side is taken, any other only stops
\* the wind; the level of the wind is taken in any case.
PageSets(t, level) ==
    /\ page = <<>>
    /\ Input
    /\ LET accepted == Way(slave_mode, t) > 0
       IN  /\ slave_target_temp' = IF accepted THEN t ELSE slave_target_temp
           /\ page' = <<accepted>>
    /\ slave_current_wind_speed' = level
    /\ UNCHANGED <<loop, user, master, flags, slave_state, slave_mode,
                   slave_current_temp, slave_wind_permitted, temp, center>>
    /\ Note

PageRequests ==
    /\ page # <<>>
    /\ Request(page[1])
    /\ page' = <<>>
    /\ UNCHANGED <<loop, user, master, flags, slave_state, target,
                   slave_current_temp, air, temp, bounds>>
    /\ Note

TargetOf(mode) == IF mode = "WINTER" THEN WinterTarget ELSE SummerTarget

\* update_slave_mode: a new mode brings its own target; without a login it is
\* remembered, and a second change takes the memory back.
UpdateMode(mode) ==
    /\ slave_mode' = mode
    /\ IF mode # slave_mode
         THEN /\ slave_target_temp' = TargetOf(mode)
              /\ isModeChanged' = (isModeChanged # ~LoggedIn)
         ELSE UNCHANGED <<slave_target_temp, isModeChanged>>

\* The Mode message: a request follows when the new target is on the far side.
ModeArrives(mode) ==
    /\ master = "idle"
    /\ Input
    /\ UpdateMode(mode)
    /\ master' = IF mode # slave_mode /\ Way(mode, TargetOf(mode)) > 0
               THEN "request" ELSE "idle"
    /\ UNCHANGED <<loop, user, page, isCurrentTempChanged, slave_state,
                   slave_current_temp, air, temp, center>>
    /\ Note

ModeRequests ==
    /\ master = "request"
    /\ IF LoggedIn THEN Request(TRUE) ELSE Silent
    /\ master' = "idle"
    /\ UNCHANGED <<loop, user, page, flags, slave_state, target,
                   slave_current_temp, air, temp, bounds>>
    /\ Note

\* Login_ACK of an admission: its mode first, the state after it.
LoginArrives(mode) ==
    /\ master = "idle" /\ ~LoggedIn
    /\ logins < MaxLogins /\ logins' = logins + 1
    /\ UpdateMode(mode)
    /\ master' = "state"
    /\ UNCHANGED <<loop, user, page, isCurrentTempChanged, slave_state,
                   slave_current_temp, air, temp, center, inputs, preempts>>
    /\ Note

LoginSets ==
    /\ master = "state"
    /\ slave_state' = "OPEN_WITH_LOGIN"
    /\ master' = "idle"
    /\ UNCHANGED <<loop, user, page, flags, target, slave_current_temp, air,
                   temp, center, bounds>>
    /\ Note

\* The connection is lost: control_masterServer ends, the main thread takes the
\* wind away and starts again.
LoggedOut ==
    /\ LoggedIn /\ master = "idle"
    /\ slave_state' = "OPEN_WITHOUT_LOGIN"
    /\ slave_current_wind_speed' = 1
    /\ slave_wind_permitted' = FALSE
    /\ asked' = None /\ blowing' = FALSE /\ wind' = <<>>
    /\ UNCHANGED <<threads, flags, target, slave_current_temp, temp, bounds>>
    /\ Note

\* Mutant of WindArrives: only the level of the wind is taken from the message.
WindArrivesLevel ==
    /\ wind # <<>> /\ master = "idle"
    /\ slave_current_wind_speed' = wind[1].level
    /\ wind' = <<>>
    /\ UNCHANGED <<threads, flags, slave_state, target, slave_current_temp,
                   slave_wind_permitted, temp, asked, blowing, bounds>>
    /\ Note

WindArrives ==
    /\ wind # <<>> /\ master = "idle"
    /\ slave_current_wind_speed' = wind[1].level
    /\ slave_wind_permitted' = wind[1].on
    /\ wind' = <<>>
    /\ UNCHANGED <<threads, flags, slave_state, target, slave_current_temp,
                   temp, asked, blowing, bounds>>
    /\ Note

-----------------------------------------------------------------------------
(* The Center, as far as it shows: wind for those who asked last for it, taken  *)
(* back when they ask to stop or when another room's turn comes.               *)

Says(on) ==
    /\ wind = <<>>
    /\ wind' = <<[on |-> on, level |-> asked.level]>>
    /\ blowing' = on
    /\ UNCHANGED <<threads, flags, slave_state, target, slave_current_temp,
                   air, temp, asked, inputs, logins>>

Grants ==
    asked.positive /\ ~blowing /\ Says(TRUE) /\ UNCHANGED preempts /\ Note

Stops ==
    ~asked.positive /\ blowing /\ Says(FALSE) /\ UNCHANGED preempts /\ Note

Preempts ==
    /\ asked.positive /\ blowing
    /\ preempts < MaxPreempts /\ preempts' = preempts + 1
    /\ Says(FALSE)
    /\ Note

Next ==
    \/ control_change_temp
    \/ \E t \in Temps : UserFlags(t)
    \/ UserSets
    \/ \E t \in Temps, level \in Speeds : PageSets(t, level)
    \/ PageRequests
    \/ \E mode \in {"WINTER", "SUMMER"} : ModeArrives(mode) \/ LoginArrives(mode)
    \/ ModeRequests \/ LoginSets \/ LoggedOut \/ WindArrives
    \/ Grants \/ Stops \/ Preempts

Spec == Init /\ [][Next]_vars

\* The threads run, and the Center gives wind to who asks for it.
Fairness ==
    /\ WF_vars(control_change_temp)
    /\ WF_vars(UserSets \/ PageRequests)
    /\ WF_vars(ModeRequests \/ LoginSets)
    /\ WF_vars(WindArrives)
    /\ WF_vars(Grants \/ Stops)

FairSpec == Spec /\ Fairness

-----------------------------------------------------------------------------
\* Nothing is under way and no change waits to be looked at.
Quiet ==
    /\ LoggedIn
    /\ \A thread \in {"loop", "user", "page", "master"} : Idle(thread)
    /\ isCurrentTempChanged = 0 /\ ~isModeChanged

\* A room that is two degrees or more short of its target has asked for wind
\* and has not asked to stop since (control.cpp:158, 173, 212).
NeedIsAsked == calm /\ Quiet /\ Wanted => asked.positive

\* Without further events a room comes within two degrees of its target
\* (control.cpp:150, sensor.cpp:3).
ReachesTarget == <>[](calm /\ LoggedIn => ~Wanted)

\* A room does not go on asking for wind that drives it away from its target,
\* even when nothing overlaps: after a change of mode it judges again
\* (slave.cpp:56, control.cpp:299).
NeverBlowsAway ==
    calm /\ Quiet /\ slave_wind_permitted /\ ToGo < 0 => ~asked.positive
=============================================================================
