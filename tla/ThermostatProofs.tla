--------------------------- MODULE ThermostatProofs ---------------------------
(* Thermostat for every range of temperatures and every number of inputs,     *)
(* preemptions and logins.                                                    *)
EXTENDS Thermostat, TLAPS

-----------------------------------------------------------------------------
(* Types.                                                                     *)
LoopPlaces == {"top", "nearSend", "nearClear", "mode", "modeSend",
               "modeClear", "far", "farStart", "farStop", "farClear", "judge",
               "step", "reached", "reachedSend", "retry", "retrySend"}

CenterTypes ==
  /\ asked \in [positive : BOOLEAN, level : Speeds]
  /\ blowing \in BOOLEAN
  /\ wind \in {<<>>} \cup {<<w>> : w \in [on : BOOLEAN, level : Speeds]}

LEMMA RequestKeepsTypes ==
  ASSUME TypeOK, NEW p \in BOOLEAN, Request(p)
  PROVE  CenterTypes'
BY DEF TypeOK, Request, CenterTypes

LEMMA SaysKeepsTypes ==
  ASSUME TypeOK, NEW on \in BOOLEAN, Says(on)
  PROVE  CenterTypes'
BY DEF TypeOK, Says, CenterTypes

LEMMA SendingFacts ==
  \A place \in DOMAIN Sending : /\ Sending[place].positive \in BOOLEAN
                               /\ Sending[place].next \in LoopPlaces
<1> TAKE place \in DOMAIN Sending
<1>1. place \in {"nearSend", "modeSend", "farStart", "farStop", "reachedSend",
                "retrySend"}
  <2>1. DOMAIN Sending = {"nearSend", "modeSend", "farStart", "farStop",
                          "reachedSend", "retrySend"}
    BY Zenon DEF Sending
  <2> QED BY <2>1
<1>2. Sending[place].positive \in BOOLEAN
  <2>1. /\ Sending["nearSend"].positive = FALSE /\ Sending["modeSend"].positive = TRUE
        /\ Sending["farStart"].positive = TRUE /\ Sending["farStop"].positive = FALSE
        /\ Sending["reachedSend"].positive = FALSE
        /\ Sending["retrySend"].positive = TRUE
    BY DEF Sending
  <2> HIDE DEF Sending
  <2> QED BY <1>1, <2>1
<1>3. Sending[place].next \in LoopPlaces
  BY <1>1 DEF Sending, LoopPlaces
<1> QED BY <1>2, <1>3

LEMMA InputKeepsTypes ==
  ASSUME TypeOK, Input
  PROVE  /\ inputs' \in 0..MaxInputs /\ preempts' \in 0..MaxPreempts
         /\ logins' \in 0..MaxLogins
BY ThermostatAssumption DEF TypeOK, Input

LEMMA UpdateKeepsTypes ==
  ASSUME TypeOK, NEW mode \in {"WINTER", "SUMMER"}, UpdateMode(mode)
  PROVE  /\ slave_mode' \in {"WINTER", "SUMMER"} /\ slave_target_temp' \in Temps
         /\ isModeChanged' \in BOOLEAN
BY ThermostatAssumption DEF TypeOK, UpdateMode, TargetOf

LEMMA NoteKeepsType ==
  ASSUME Note
  PROVE  calm' \in BOOLEAN
BY DEF Note

LEMMA LoopKeepsTypes ==
  ASSUME TypeOK, control_change_temp
  PROVE  TypeOK'
<1> USE NoteKeepsType
    DEF TypeOK, target, air, bounds, flags, Silent, center, LoopGoes, LoopTests
<1>1. CASE NearTarget
  BY <1>1 DEF NearTarget
<1>2. CASE NearClears
  BY <1>2 DEF NearClears, Clears
<1>3. CASE ModeChanged
  BY <1>3 DEF ModeChanged
<1>4. CASE ModeClears
  BY <1>4 DEF ModeClears
<1>5. CASE FarFromTarget
  BY <1>5 DEF FarFromTarget
<1>6. CASE FarClears
  BY <1>6 DEF FarClears, Clears
<1>7. CASE LoopRequests
  <2>1. PICK place \in DOMAIN Sending : /\ LoopGoes(place, Sending[place].next)
                                        /\ Request(Sending[place].positive)
    BY <1>7 DEF LoopRequests
  <2>2. loop' \in LoopPlaces /\ CenterTypes'
    BY <2>1, SendingFacts, RequestKeepsTypes
  <2> QED BY <1>7, <2>1, <2>2 DEF LoopRequests, LoopPlaces, CenterTypes
<1>8. CASE Sensor
  <2>1. temp' \in 0..(Full - 1)
    BY <1>8, ThermostatAssumption DEF Sensor
  <2>2. loop' \in LoopPlaces
    BY <1>8 DEF Sensor, LoopPlaces
  <2> QED BY <1>8, <2>1, <2>2 DEF Sensor, LoopPlaces
<1>9. CASE OneDegree
  BY <1>9 DEF OneDegree
<1>10. CASE Reached
  BY <1>10 DEF Reached
<1>11. CASE Retry
  BY <1>11 DEF Retry
<1> QED BY <1>1, <1>2, <1>3, <1>4, <1>5, <1>6, <1>7, <1>8, <1>9, <1>10, <1>11
        DEF control_change_temp

LEMMA OthersKeepTypes ==
  ASSUME TypeOK, Next, ~control_change_temp
  PROVE  TypeOK'
<1> USE NoteKeepsType
    DEF TypeOK, target, air, bounds, flags, threads, Silent, center
<1>t. SummerTarget \in Temps /\ WinterTarget \in Temps /\ 1 \in Speeds
  BY ThermostatAssumption
<1>1. ASSUME NEW t \in Temps, UserFlags(t)
      PROVE  TypeOK'
  BY <1>1, InputKeepsTypes DEF UserFlags
<1>2. CASE UserSets
  BY <1>2 DEF UserSets
<1>3. ASSUME NEW t \in Temps, NEW level \in Speeds, PageSets(t, level)
      PROVE  TypeOK'
  <2> DEFINE accepted == Way(slave_mode, t) > 0
  <2>1. accepted \in BOOLEAN
    OBVIOUS
  <2>2. /\ slave_target_temp' = IF accepted THEN t ELSE slave_target_temp
        /\ page' = <<accepted>>
    BY <1>3 DEF PageSets
  <2> HIDE DEF accepted
  <2>3. slave_target_temp' \in Temps /\ page' \in {<<>>} \cup {<<p>> : p \in BOOLEAN}
    BY <2>1, <2>2
  <2> QED BY <1>3, <2>3, InputKeepsTypes DEF PageSets
<1>4. CASE PageRequests
  <2>1. page[1] \in BOOLEAN
    BY <1>4 DEF PageRequests
  <2>2. CenterTypes'
    BY <1>4, <2>1, RequestKeepsTypes DEF PageRequests
  <2> QED BY <1>4, <2>2 DEF PageRequests, CenterTypes
<1>5. ASSUME NEW mode \in {"WINTER", "SUMMER"}, ModeArrives(mode)
      PROVE  TypeOK'
  BY <1>5, InputKeepsTypes, UpdateKeepsTypes DEF ModeArrives
<1>6. ASSUME NEW mode \in {"WINTER", "SUMMER"}, LoginArrives(mode)
      PROVE  TypeOK'
  <2>1. logins' \in 0..MaxLogins
    BY <1>6, ThermostatAssumption DEF LoginArrives
  <2> QED BY <1>6, <2>1, UpdateKeepsTypes DEF LoginArrives
<1>7. CASE ModeRequests
  <2>1. CenterTypes'
    BY <1>7, RequestKeepsTypes DEF ModeRequests, CenterTypes
  <2> QED BY <1>7, <2>1 DEF ModeRequests, CenterTypes
<1>8. CASE LoginSets
  BY <1>8 DEF LoginSets
<1>9. CASE LoggedOut
  BY <1>9, <1>t DEF LoggedOut, None
<1>10. CASE WindArrives
  BY <1>10 DEF WindArrives
<1>11. CASE Grants \/ Stops \/ Preempts
  <2>1. CenterTypes'
    BY <1>11, SaysKeepsTypes DEF Grants, Stops, Preempts
  <2>2. CASE Preempts
    <3>1. preempts' \in 0..MaxPreempts
      BY <2>2, ThermostatAssumption DEF Preempts
    <3> QED BY <2>1, <2>2, <3>1 DEF Preempts, Says, CenterTypes
  <2>3. CASE Grants \/ Stops
    BY <2>1, <2>3 DEF Grants, Stops, Says, CenterTypes
  <2> QED BY <1>11, <2>2, <2>3
<1> QED BY <1>1, <1>2, <1>3, <1>4, <1>5, <1>6, <1>7, <1>8, <1>9, <1>10, <1>11
        DEF Next

(* Every variable keeps its range, whatever is entered, set, sent or lost.    *)
THEOREM ThermostatTypes == Spec => []TypeOK
<1>1. Init => TypeOK
  <2> SUFFICES ASSUME Init PROVE TypeOK
    OBVIOUS
  <2>1. asked \in [positive : BOOLEAN, level : Speeds]
    BY ThermostatAssumption DEF Init, None
  <2>2. /\ inputs \in 0..MaxInputs /\ preempts \in 0..MaxPreempts
        /\ logins \in 0..MaxLogins /\ temp \in 0..(Full - 1)
    BY ThermostatAssumption DEF Init
  <2>3. /\ slave_current_temp \in Temps /\ slave_target_temp \in Temps
        /\ slave_current_wind_speed \in Speeds
    BY ThermostatAssumption DEF Init
  <2>4. isCurrentTempChanged \in 0..2
    BY DEF Init
  <2> QED BY <2>1, <2>2, <2>3, <2>4 DEF Init, TypeOK
<1>2. TypeOK /\ [Next]_vars => TypeOK'
  <2>1. CASE UNCHANGED vars
    BY <2>1 DEF TypeOK, vars, threads, flags, target, air, center, bounds
  <2> QED BY <2>1, LoopKeepsTypes, OthersKeepTypes
<1> QED BY <1>1, <1>2, PTL DEF Spec

-----------------------------------------------------------------------------
(* A need is known as long as it is not asked for: somebody is about to ask,  *)
(* or a flag that the loop has still to look at says so. That takes a clear   *)
(* view of when a flag counts: at farStop and farClear the one for a          *)
(* temperature is decided upon already, at modeClear the one for a mode.      *)
Flagged ==
  /\ user # <<>> => isCurrentTempChanged # 0
  /\ loop \in {"nearSend", "nearClear"} => isCurrentTempChanged = 2
  /\ loop \in {"farStart", "farStop", "farClear"} => isCurrentTempChanged = 1

Rested == loop \in {"farStop", "reachedSend"} => ~Wanted

Pending ==
  \/ page # <<>> \/ master = "request"
  \/ isModeChanged /\ loop # "modeClear"
  \/ isCurrentTempChanged = 1 /\ loop \notin {"farStop", "farClear"}

NeedIsKnown == LoggedIn /\ Wanted => asked.positive \/ Pending

NeedInv == Calm /\ Flagged /\ Rested /\ NeedIsKnown

CalmParts ==
  /\ loop = "top" \/ (user = <<>> /\ master # "state")
  /\ loop \in {"nearSend", "farStop", "reachedSend"} => page = <<>> /\ master = "idle"
  /\ page # <<FALSE>>
  /\ Wanted => isCurrentTempChanged # 2
  /\ master = "state" /\ Wanted => isModeChanged \/ isCurrentTempChanged = 1

LEMMA CalmMeans == (Calm <=> CalmParts) /\ (Calm' <=> CalmParts')
BY DEF Calm, CalmParts, Idle

LEMMA LoopKnowsNeed ==
  ASSUME TypeOK, NeedInv, control_change_temp, Calm'
  PROVE  Flagged' /\ Rested' /\ NeedIsKnown'
<1> USE CalmMeans
    DEF NeedInv, CalmParts, Flagged, Rested, NeedIsKnown, Pending, LoggedIn, LoopGoes,
        LoopTests, Silent, center, target, flags
<1>w. ASSUME UNCHANGED <<slave_mode, slave_target_temp, slave_current_temp>>
      PROVE  Wanted' <=> Wanted
  BY <1>w DEF Wanted, ToGo
<1>1. CASE NearTarget
  BY <1>1, <1>w DEF NearTarget
<1>2. CASE NearClears
  BY <1>2, <1>w DEF NearClears, Clears
<1>3. CASE ModeChanged
  BY <1>3, <1>w DEF ModeChanged
<1>4. CASE ModeClears
  BY <1>4, <1>w DEF ModeClears
<1>5. CASE FarFromTarget
  BY <1>5, <1>w DEF FarFromTarget
<1>6. CASE FarClears
  BY <1>6, <1>w DEF FarClears, Clears
<1>7. CASE LoopRequests
  BY <1>7, <1>w DEF LoopRequests, Sending, Request
<1>8. CASE Sensor
  BY <1>8, <1>w DEF Sensor
<1>9. CASE OneDegree
  <2>1. Wanted' => Wanted
    BY <1>9, ThermostatAssumption DEF OneDegree, Wanted, ToGo, Toward, TypeOK
  <2> QED BY <1>9, <2>1 DEF OneDegree
<1>10. CASE Reached
  <2>1. slave_current_temp = slave_target_temp => ~Wanted
    BY ThermostatAssumption DEF Wanted, ToGo, TypeOK
  <2> QED BY <1>10, <1>w, <2>1 DEF Reached
<1>11. CASE Retry
  BY <1>11, <1>w DEF Retry
<1> QED BY <1>1, <1>2, <1>3, <1>4, <1>5, <1>6, <1>7, <1>8, <1>9, <1>10, <1>11
        DEF control_change_temp

LEMMA OthersKnowNeed ==
  ASSUME TypeOK, NeedInv, Next, ~control_change_temp, Calm'
  PROVE  Flagged' /\ Rested' /\ NeedIsKnown'
<1> USE CalmMeans
    DEF NeedInv, CalmParts, Flagged, Rested, NeedIsKnown, Pending, LoggedIn, Silent,
        center, target, flags, threads
<1>w. ASSUME UNCHANGED <<slave_mode, slave_target_temp, slave_current_temp>>
      PROVE  Wanted' <=> Wanted
  BY <1>w DEF Wanted, ToGo
<1>1. ASSUME NEW t \in Temps, UserFlags(t)
      PROVE  Flagged' /\ Rested' /\ NeedIsKnown'
  BY <1>1, <1>w DEF UserFlags
<1>2. CASE UserSets
  BY <1>2 DEF UserSets, TypeOK
<1>3. ASSUME NEW t \in Temps, NEW level \in Speeds, PageSets(t, level)
      PROVE  Flagged' /\ Rested' /\ NeedIsKnown'
  BY <1>3 DEF PageSets
<1>4. CASE PageRequests
  <2>1. page[1] = TRUE
    <3>1. PICK p \in BOOLEAN : page = <<p>>
      BY <1>4 DEF PageRequests, TypeOK
    <3>2. page # <<FALSE>>
      BY CalmMeans DEF NeedInv, CalmParts
    <3> QED BY <3>1, <3>2
  <2>2. LoggedIn => asked'.positive
    BY <1>4, <2>1 DEF PageRequests, Request
  <2> QED BY <1>4, <1>w, <2>2 DEF PageRequests
<1>5. ASSUME NEW mode \in {"WINTER", "SUMMER"}, ModeArrives(mode)
      PROVE  Flagged' /\ Rested' /\ NeedIsKnown'
  <2>1. CASE mode = slave_mode
    BY <1>5, <1>w, <2>1 DEF ModeArrives, UpdateMode
  <2>2. CASE mode # slave_mode
    <3>1. Wanted' => Way(mode, TargetOf(mode)) > 0
      BY <1>5, <2>2, ThermostatAssumption
      DEF ModeArrives, UpdateMode, Wanted, ToGo, Way, Toward, TargetOf, TypeOK
    <3>2. LoggedIn /\ Wanted' => master' = "request"
      BY <1>5, <2>2, <3>1 DEF ModeArrives
    <3>3. Flagged'
      BY <1>5 DEF ModeArrives
    <3>4. master' = "request" => loop' \notin {"farStop", "reachedSend"}
      BY CalmMeans DEF CalmParts
    <3>5. LoggedIn' = LoggedIn
      BY <1>5 DEF ModeArrives
    <3>6. NeedIsKnown'
      BY <3>2, <3>5 DEF NeedIsKnown, Pending
    <3>7. Wanted' => master' = "request"
      BY <1>5, <2>2, <3>1 DEF ModeArrives
    <3> QED BY <3>3, <3>4, <3>6, <3>7 DEF Rested
  <2> QED BY <2>1, <2>2
<1>6. ASSUME NEW mode \in {"WINTER", "SUMMER"}, LoginArrives(mode)
      PROVE  Flagged' /\ Rested' /\ NeedIsKnown'
  BY <1>6 DEF LoginArrives
<1>7. CASE ModeRequests
  BY <1>7, <1>w DEF ModeRequests, Request
<1>8. CASE LoginSets
  BY <1>8, <1>w DEF LoginSets
<1>9. CASE LoggedOut
  BY <1>9, <1>w DEF LoggedOut
<1>10. CASE WindArrives
  BY <1>10, <1>w DEF WindArrives
<1>11. CASE Grants \/ Stops \/ Preempts
  BY <1>11, <1>w DEF Grants, Stops, Preempts, Says
<1> QED BY <1>1, <1>2, <1>3, <1>4, <1>5, <1>6, <1>7, <1>8, <1>9, <1>10, <1>11
        DEF Next

LEMMA CalmBefore ==
  ASSUME Next, calm'
  PROVE  calm /\ Calm'
<1> USE DEF Note, LoopTests, Clears
<1>1. CASE control_change_temp
  BY <1>1 DEF control_change_temp, NearTarget, NearClears, ModeChanged, ModeClears,
              FarFromTarget, FarClears, LoopRequests, Sensor, OneDegree, Reached, Retry
<1>2. CASE ~control_change_temp
  BY <1>2 DEF Next, UserFlags, UserSets, PageSets, PageRequests, ModeArrives,
              LoginArrives, ModeRequests, LoginSets, LoggedOut, WindArrives, Grants,
              Stops, Preempts
<1> QED BY <1>1, <1>2

(* As long as events do not overlap, a room that is short of its target by    *)
(* two degrees has asked for wind, however the four threads interleave.       *)
THEOREM ThermostatNeedIsAsked == Spec => []NeedIsAsked
<1> DEFINE Inv == calm => NeedInv
<1>1. Init => Inv
  <2>1. Init => ~Wanted
    BY ThermostatAssumption DEF Init, Wanted, ToGo
  <2> QED BY <2>1, CalmMeans DEF Init, NeedInv, CalmParts, Flagged, Rested, NeedIsKnown
<1>2. TypeOK /\ Inv /\ [Next]_vars => Inv'
  <2> SUFFICES ASSUME TypeOK, Inv, [Next]_vars, calm'
               PROVE  NeedInv'
    OBVIOUS
  <2>1. CASE Next
    <3>1. NeedInv /\ Calm'
      BY <2>1, CalmBefore
    <3>2. Flagged' /\ Rested' /\ NeedIsKnown'
      BY <2>1, <3>1, LoopKnowsNeed, OthersKnowNeed
    <3> QED BY <3>1, <3>2 DEF NeedInv
  <2>2. CASE UNCHANGED vars
    <3>1. NeedInv
      BY <2>2 DEF vars
    <3> QED BY <2>2, <3>1, CalmMeans
        DEF NeedInv, Flagged, Rested, NeedIsKnown, Pending, Wanted, ToGo, LoggedIn,
            Calm, Idle, vars, threads, flags, target, center
  <2> QED BY <2>1, <2>2
<1>3. Inv => NeedIsAsked
  BY DEF NeedIsAsked, Quiet, Idle, NeedInv, NeedIsKnown, Pending
<1> QED BY <1>1, <1>2, <1>3, ThermostatTypes, PTL DEF Spec
=============================================================================
