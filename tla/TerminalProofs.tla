---------------------------- MODULE TerminalProofs ----------------------------
(* Terminal for every number of handles, users, retries, losses and logins:   *)
(* the types of its state, and that the receiver of an old connection to the  *)
(* page has ended before the connections are set up again.                    *)
EXTENDS Terminal, TLAPS

-----------------------------------------------------------------------------
(* Types.                                                                     *)

LEMMA PickIsMember ==
  ASSUME NEW S, S # {}
  PROVE  Pick(S) \in S
BY DEF Pick

LEMMA HandlesFacts == Handles \subseteq Nat /\ None \notin Handles
BY TerminalAssumption DEF Handles, None

(* Where a receiver knows neither a handle nor a user.                        *)
IdlePCs == ReceiverPCs \ {"recv", "first", "test", "send", "ack", "set"}

LEMMA IdleIsReceiver ==
  ASSUME NEW pc \in IdlePCs
  PROVE  [Idle EXCEPT !.pc = pc] \in Receivers
<1>1. /\ Idle = [pc |-> "none", on |-> None, user |-> NoUser, ok |-> FALSE]
      /\ pc \in ReceiverPCs
      /\ pc \notin {"recv", "first", "test", "send", "ack", "set"}
  BY DEF Idle, IdlePCs
<1> QED BY <1>1 DEF Receivers

LEMMA IdleAt ==
  ASSUME NEW pc
  PROVE  [Idle EXCEPT !.pc = pc].pc = pc
BY DEF Idle

(* A receiver that goes on with the user it has.                              *)
LEMMA WithItsUser ==
  ASSUME NEW r \in Receivers, r.pc \in {"first", "test", "ack"},
         NEW pc \in {"test", "send", "set"}
  PROVE  [r EXCEPT !.pc = pc] \in Receivers
<1>1. /\ r \in [pc : ReceiverPCs, on : Handles \cup {None},
               user : Users \cup {NoUser}, ok : BOOLEAN]
      /\ r.on = None /\ r.user # NoUser /\ pc \in ReceiverPCs
  BY DEF Receivers, ReceiverPCs
<1> QED BY <1>1 DEF Receivers

LEMMA OpenKeepsTypes ==
  ASSUME TypeOK, NEW s \in Sides, Open(s)
  PROVE  /\ sock' \in [Sides -> Handles \cup {None}]
         /\ conn' \in [Handles -> {"closed", "open", "lost"}]
         /\ asked' \in [Handles -> SUBSET Users]
         /\ inbox' \in [Handles -> Seq(Acks)]
<1> DEFINE h == Pick(Unused)
<1>1. h \in Handles
  BY PickIsMember DEF Open, Unused
<1> HIDE DEF h
<1>2. /\ sock' = [sock EXCEPT ![s] = h]
      /\ conn' = [conn EXCEPT ![h] = "open"]
      /\ asked' = [asked EXCEPT ![h] = {}]
      /\ inbox' = [inbox EXCEPT ![h] = <<>>]
  BY DEF Open, h
<1> QED BY <1>1, <1>2 DEF TypeOK

LEMMA StartsKeepsType ==
  ASSUME TypeOK, NEW s \in Sides, NEW pc \in IdlePCs, Starts(s, pc)
  PROVE  \E h \in Handles :
           /\ receivers[<<s, h>>].pc = "none"
           /\ receivers' = [receivers EXCEPT ![<<s, h>>] = [Idle EXCEPT !.pc = pc]]
           /\ receivers' \in [Sides \X Handles -> Receivers]
<1> DEFINE places == {h \in Handles : receivers[<<s, h>>].pc = "none"}
<1>1. Pick(places) \in places
  BY PickIsMember DEF Starts
<1>2. receivers' = [receivers EXCEPT ![<<s, Pick(places)>>] = [Idle EXCEPT !.pc = pc]]
  BY DEF Starts
<1>3. receivers' \in [Sides \X Handles -> Receivers]
  BY <1>1, <1>2, IdleIsReceiver DEF TypeOK
<1> QED BY <1>1, <1>2, <1>3

LEMMA GoesKeepsType ==
  ASSUME TypeOK, NEW t \in Sides \X Handles, NEW pc \in IdlePCs, Goes(t, pc)
  PROVE  receivers' \in [Sides \X Handles -> Receivers]
BY IdleIsReceiver DEF TypeOK, Goes

LEMMA ClosedHasType ==
  ASSUME TypeOK, NEW h
  PROVE  Closed(h) \in [Handles -> {"closed", "open", "lost"}]
BY DEF TypeOK, Closed

LEMMA MainThreadKeepsTypes ==
  ASSUME TypeOK, MainThread
  PROVE  TypeOK'
<1> USE DEF others, links, slave, login, center, bounds
<1>p. {"top", "mutex"} \subseteq IdlePCs
  BY DEF ReceiverPCs, IdlePCs
<1>1. CASE Repeat
  BY <1>1 DEF Repeat, TypeOK
<1>2. CASE ConnectMaster
  <2>1. receivers' \in [Sides \X Handles -> Receivers]
    BY <1>2, <1>p, StartsKeepsType DEF ConnectMaster, Sides
  <2>2. /\ sock' \in [Sides -> Handles \cup {None}]
        /\ conn' \in [Handles -> {"closed", "open", "lost"}]
        /\ asked' \in [Handles -> SUBSET Users]
        /\ inbox' \in [Handles -> Seq(Acks)]
    BY <1>2, OpenKeepsTypes DEF ConnectMaster, Sides
  <2> QED BY <1>2, <2>1, <2>2 DEF ConnectMaster, Open, TypeOK
<1>3. CASE ConnectMasterFails
  BY <1>3 DEF ConnectMasterFails, TypeOK
<1>4. CASE MasterStillThere
  BY <1>4, ClosedHasType DEF MasterStillThere, TypeOK
<1>5. CASE ConnectAgent
  <2>1. /\ sock' \in [Sides -> Handles \cup {None}]
        /\ conn' \in [Handles -> {"closed", "open", "lost"}]
        /\ asked' \in [Handles -> SUBSET Users]
        /\ inbox' \in [Handles -> Seq(Acks)]
    BY <1>5, OpenKeepsTypes DEF ConnectAgent, Sides
  <2> QED BY <1>5, <2>1 DEF ConnectAgent, Open, TypeOK
<1>6. CASE ConnectAgentFails
  BY <1>6 DEF ConnectAgentFails, TypeOK
<1>7. CASE StartAgentServer
  <2>1. receivers' \in [Sides \X Handles -> Receivers]
    BY <1>7, <1>p, StartsKeepsType DEF StartAgentServer, Sides
  <2> QED BY <1>7, <2>1 DEF StartAgentServer, TypeOK
<1>8. CASE Register
  BY <1>8 DEF Register, TypeOK
<1>9. CASE Restart
  BY <1>9 DEF Restart, TypeOK
<1> QED BY <1>1, <1>2, <1>3, <1>4, <1>5, <1>6, <1>7, <1>8, <1>9 DEF MainThread

LEMMA LosesKeepsTypes ==
  ASSUME TypeOK, NEW t \in Sides \X Handles, Loses(t)
  PROVE  TypeOK'
<1> USE DEF others, links, slave, login, center, bounds
<1>p. {"lost", "claim", "closeOther", "own", "closeOwn", "done"} \subseteq IdlePCs
  BY DEF ReceiverPCs, IdlePCs
<1>t. t[1] \in Sides /\ Other(t[1]) \in Sides
  BY DEF Sides, Other
<1>1. receivers' \in [Sides \X Handles -> Receivers]
  BY <1>p, GoesKeepsType
  DEF Loses, RecMsgFails, TestsFirst, Claims, ClosesOther, TestsOwn, ClosesOwn
<1>2. CASE RecMsgFails(t)
  BY <1>1, <1>2 DEF RecMsgFails, TypeOK
<1>3. CASE TestsFirst(t)
  BY <1>1, <1>3 DEF TestsFirst, TypeOK
<1>4. CASE Claims(t)
  BY <1>1, <1>4, <1>t DEF Claims, TypeOK
<1>5. CASE ClosesOther(t)
  BY <1>1, <1>5, <1>t, ClosedHasType DEF ClosesOther, Closes, TypeOK
<1>6. CASE TestsOwn(t)
  BY <1>1, <1>6 DEF TestsOwn, TypeOK
<1>7. CASE ClosesOwn(t)
  BY <1>1, <1>7, <1>t, ClosedHasType DEF ClosesOwn, Closes, TypeOK
<1> QED BY <1>2, <1>3, <1>4, <1>5, <1>6, <1>7 DEF Loses

(* A step in which a receiver alone changes, to a record of the right type.   *)
LEMMA ReceiverGoesOn ==
  ASSUME TypeOK, NEW t \in Sides \X Handles, NEW r \in Receivers,
         receivers' = [receivers EXCEPT ![t] = r],
         UNCHANGED <<main, links, mutex, others>>
  PROVE  TypeOK'
BY DEF TypeOK, others, links, slave, login, center, bounds

LEMMA ListensKeepsTypes ==
  ASSUME TypeOK, NEW t \in Sides \X Handles, Listens(t)
  PROVE  TypeOK'
<1>0. sock[t[1]] # None
  BY DEF Listens
<1>1. sock[t[1]] \in Handles \cup {None} /\ "recv" \in ReceiverPCs
  BY DEF TypeOK, ReceiverPCs
<1>2. [Idle EXCEPT !.pc = "recv", !.on = sock[t[1]]] \in Receivers
  BY <1>1, <1>0 DEF Idle, Receivers
<1> QED BY <1>2, ReceiverGoesOn DEF Listens

LEMMA AgentServerKeepsTypes ==
  ASSUME TypeOK, NEW h \in Handles, control_agentServer(<<"agent", h>>)
  PROVE  TypeOK'
<1> DEFINE t == <<"agent", h>>
<1> USE DEF others, links, slave, login, center, bounds
<1>0. t \in Sides \X Handles /\ "master" \in Sides
  BY DEF Sides
<1>r. receivers[t] \in Receivers
  BY <1>0 DEF TypeOK
<1>p. {"none", "top", "mark", "again"} \subseteq IdlePCs
  BY DEF ReceiverPCs, IdlePCs
<1> HIDE DEF t
<1>1. CASE TakesMutex(t)
  <2>1. receivers' \in [Sides \X Handles -> Receivers]
    BY <1>0, <1>1, <1>p, GoesKeepsType DEF TakesMutex
  <2> QED BY <1>1, <2>1 DEF TakesMutex, TypeOK
<1>2. CASE Listens(t)
  BY <1>0, <1>2, ListensKeepsTypes
<1>3. CASE LoginWaits(t)
  <2>1. [receivers[t] EXCEPT !.pc = "test"] \in Receivers
    BY <1>3, <1>r, WithItsUser DEF LoginWaits, At
  <2> QED BY <1>0, <1>3, <2>1, ReceiverGoesOn DEF LoginWaits
<1>4. CASE LoginTests(t)
  <2>1. [receivers[t] EXCEPT !.pc = "send"] \in Receivers
    BY <1>4, <1>r, WithItsUser DEF LoginTests, At
  <2>2. receivers' \in [Sides \X Handles -> Receivers]
    BY <1>0, <1>4, <1>p, <2>1, GoesKeepsType DEF LoginTests, TypeOK
  <2> QED BY <1>4, <2>2 DEF LoginTests, TypeOK
<1>5. CASE LoginSends(t)
  <2>1. receivers' \in [Sides \X Handles -> Receivers]
    BY <1>0, <1>5, <1>p, GoesKeepsType DEF LoginSends
  <2>u. receivers[t].user \in Users
    BY <1>5, <1>r DEF LoginSends, At, Receivers
  <2>2. slave_user' \in Users \cup {NoUser}
    BY <1>5, <2>u DEF LoginSends
  <2>3. asked' \in [Handles -> SUBSET Users]
    BY <1>5, <2>u DEF LoginSends, TypeOK
  <2> QED BY <1>5, <2>1, <2>2, <2>3 DEF LoginSends, TypeOK
<1>6. CASE LoginMarks(t)
  <2>1. receivers' \in [Sides \X Handles -> Receivers]
    BY <1>0, <1>6, <1>p, GoesKeepsType DEF LoginMarks
  <2> QED BY <1>6, <2>1 DEF LoginMarks, TypeOK
<1>7. CASE LoginAgain(t)
  <2>1. receivers' \in [Sides \X Handles -> Receivers]
    BY <1>0, <1>7, <1>p, GoesKeepsType DEF LoginAgain
  <2>2. retryTimes' \in 0..(Retries + 1)
    BY <1>7, TerminalAssumption DEF LoginAgain, TypeOK
  <2>3. conn' \in [Handles -> {"closed", "open", "lost"}] /\ quiet' \in BOOLEAN
    BY <1>7, ClosedHasType DEF LoginAgain, TypeOK
  <2> QED BY <1>7, <2>1, <2>2, <2>3 DEF LoginAgain, TypeOK
<1>8. CASE Loses(t)
  BY <1>0, <1>8, LosesKeepsTypes
<1>9. CASE ReleasesMutex(t)
  <2>1. receivers' \in [Sides \X Handles -> Receivers]
    BY <1>0, <1>9, <1>p, GoesKeepsType DEF ReleasesMutex
  <2> QED BY <1>9, <2>1 DEF ReleasesMutex, TypeOK
<1> QED
  BY <1>1, <1>2, <1>3, <1>4, <1>5, <1>6, <1>7, <1>8, <1>9
  DEF control_agentServer, loginReqHandler, t

LEMMA MasterServerKeepsTypes ==
  ASSUME TypeOK, NEW h \in Handles, control_masterServer(<<"master", h>>)
  PROVE  TypeOK'
<1> DEFINE t == <<"master", h>>
<1> USE DEF others, links, slave, login, center, bounds
<1>0. t \in Sides \X Handles
  BY DEF Sides
<1>r. receivers[t] \in Receivers
  BY <1>0 DEF TypeOK
<1>p. {"none", "top"} \subseteq IdlePCs
  BY DEF ReceiverPCs, IdlePCs
<1> HIDE DEF t
<1>1. CASE Listens(t)
  BY <1>0, <1>1, ListensKeepsTypes
<1>2. CASE AckArrives(t)
  <2> DEFINE g == receivers[t].on
             a == Head(inbox[g])
  <2>1. g \in Handles
    BY <1>2, <1>r DEF AckArrives, Receives, Receivers
  <2>2. inbox' = [inbox EXCEPT ![g] = Tail(inbox[g])] /\ inbox[g] # <<>>
    BY <1>2 DEF AckArrives
  <2>3. a \in Acks /\ Tail(inbox[g]) \in Seq(Acks)
    BY <2>1, <2>2 DEF TypeOK
  <2>4. [pc |-> "ack", on |-> None, user |-> a.user, ok |-> a.ok] \in Receivers
    BY <2>3, TerminalAssumption DEF Acks, Receivers, ReceiverPCs
  <2>5. receivers' \in [Sides \X Handles -> Receivers]
    BY <1>0, <1>2, <2>4 DEF AckArrives, TypeOK
  <2>6. inbox' \in [Handles -> Seq(Acks)]
    BY <2>2, <2>3 DEF TypeOK
  <2> QED BY <1>2, <2>5, <2>6 DEF AckArrives, TypeOK
<1>3. CASE AckTests(t)
  <2>1. [receivers[t] EXCEPT !.pc = "set"] \in Receivers
    BY <1>3, <1>r, WithItsUser DEF AckTests, At
  <2>2. receivers' \in [Sides \X Handles -> Receivers]
    BY <1>0, <1>3, <1>p, <2>1, GoesKeepsType DEF AckTests, TypeOK
  <2> QED BY <1>3, <2>2 DEF AckTests, TypeOK
<1>4. CASE AckSets(t)
  <2>1. receivers' \in [Sides \X Handles -> Receivers]
    BY <1>0, <1>4, <1>p, GoesKeepsType DEF AckSets
  <2> QED BY <1>4, <2>1 DEF AckSets, TypeOK
<1>5. CASE Loses(t)
  BY <1>0, <1>5, LosesKeepsTypes
<1>6. CASE Ends(t)
  <2>1. receivers' \in [Sides \X Handles -> Receivers]
    BY <1>0, <1>6, <1>p, GoesKeepsType DEF Ends
  <2> QED BY <1>6, <2>1 DEF Ends, TypeOK
<1> QED
  BY <1>1, <1>2, <1>3, <1>4, <1>5, <1>6
  DEF control_masterServer, loginACKHandler, t

(* The page, the heartbeat, the Center and the network.                       *)
LEMMA EnvironmentKeepsTypes ==
  ASSUME TypeOK,
         \/ \E h \in Handles, u \in Users : LoginArrives(<<"agent", h>>, u)
         \/ HeartBeats
         \/ \E h \in Handles, u \in Users, ok \in BOOLEAN : CenterAnswers(h, u, ok)
         \/ \E h \in Handles : Loss(h)
         \/ UNCHANGED vars
  PROVE  TypeOK'
<1> USE DEF others, links, slave, login, center, bounds
<1>1. ASSUME NEW h \in Handles, NEW u \in Users, LoginArrives(<<"agent", h>>, u)
      PROVE  TypeOK'
  <2> DEFINE t == <<"agent", h>>
  <2>1. [Idle EXCEPT !.pc = "first", !.user = u] \in Receivers
    BY TerminalAssumption DEF Idle, Receivers, ReceiverPCs
  <2>2. t \in Sides \X Handles
    BY DEF Sides
  <2>3. receivers' = [receivers EXCEPT
                        ![t] = [Idle EXCEPT !.pc = "first", !.user = u]]
    BY <1>1 DEF LoginArrives
  <2>4. receivers' \in [Sides \X Handles -> Receivers]
    BY <2>1, <2>2, <2>3 DEF TypeOK
  <2>5. logins' \in 0..MaxLogins
    <3>1. logins \in 0..MaxLogins /\ logins < MaxLogins /\ logins' = logins + 1
      BY <1>1 DEF LoginArrives, TypeOK
    <3> QED BY <3>1, TerminalAssumption
  <2>6. quiet' \in BOOLEAN
    <3>1. quiet' = (quiet /\ Whole)
      BY <1>1 DEF LoginArrives
    <3> QED BY <3>1 DEF TypeOK
  <2> QED BY <1>1, <2>4, <2>5, <2>6 DEF LoginArrives, TypeOK
<1>2. CASE HeartBeats
  BY <1>2 DEF HeartBeats, TypeOK
<1>3. ASSUME NEW h \in Handles, NEW u \in Users, NEW ok \in BOOLEAN,
             CenterAnswers(h, u, ok)
      PROVE  TypeOK'
  <2>1. [user |-> u, ok |-> ok] \in Acks
    BY DEF Acks
  <2>2. inbox' \in [Handles -> Seq(Acks)]
    BY <1>3, <2>1 DEF CenterAnswers, TypeOK
  <2>3. asked' \in [Handles -> SUBSET Users] /\ granted' \in SUBSET Users
    BY <1>3 DEF CenterAnswers, TypeOK
  <2>4. quiet' \in BOOLEAN
    <3>1. quiet' = (quiet /\ Whole)
      BY <1>3 DEF CenterAnswers
    <3> QED BY <3>1 DEF TypeOK
  <2> QED BY <1>3, <2>2, <2>3, <2>4 DEF CenterAnswers, TypeOK
<1>4. ASSUME NEW h \in Handles, Loss(h)
      PROVE  TypeOK'
  <2>1. losses' \in 0..MaxLosses /\ quiet' \in BOOLEAN
    BY <1>4, TerminalAssumption DEF Loss, TypeOK
  <2> QED BY <1>4, <2>1 DEF Loss, TypeOK
<1>5. CASE UNCHANGED vars
  BY <1>5 DEF vars, TypeOK
<1> QED BY <1>1, <1>2, <1>3, <1>4, <1>5

LEMMA NextKeepsTypes ==
  ASSUME TypeOK, [Next]_vars
  PROVE  TypeOK'
BY MainThreadKeepsTypes, MasterServerKeepsTypes, AgentServerKeepsTypes,
   EnvironmentKeepsTypes DEF Next

LEMMA InitTypes == Init => TypeOK
<1> SUFFICES ASSUME Init PROVE TypeOK
  OBVIOUS
<1>1. Idle \in Receivers
  BY DEF Idle, Receivers, ReceiverPCs
<1>2. receivers \in [Sides \X Handles -> Receivers]
  BY <1>1 DEF Init
<1>3. inbox \in [Handles -> Seq(Acks)] /\ asked \in [Handles -> SUBSET Users]
  BY DEF Init
<1>4. retryTimes \in 0..(Retries + 1) /\ losses \in 0..MaxLosses
      /\ logins \in 0..MaxLogins
  BY TerminalAssumption DEF Init
<1> QED BY <1>2, <1>3, <1>4 DEF Init, TypeOK

(* The fields, handles and threads keep their types, for any number of them.  *)
THEOREM TerminalTypes == Spec => []TypeOK
BY InitTypes, NextKeepsTypes, PTL DEF Spec

-----------------------------------------------------------------------------
(* The receivers of the page.  Between the start of one and its end the main  *)
(* thread waits; the mutex tells it of the end only because no second one is  *)
(* there and because it has been taken before the main thread looks at it.    *)

AgentPC(h) == receivers[<<"agent", h>>].pc

Alone ==
    \A g, h \in Handles : AgentPC(g) # "none" /\ AgentPC(h) # "none" => g = h

MutexTells ==
    mutex = "free" => \A h \in Handles : AgentPC(h) \in {"none", "mutex"}

TakenBeforeWait ==
    main = "wait" => \A h \in Handles : AgentPC(h) # "mutex"

NoneBefore ==
    main \notin {"reg", "wait"} => \A h \in Handles : AgentPC(h) = "none"

OneAtATime == TypeOK /\ Alone /\ MutexTells /\ TakenBeforeWait /\ NoneBefore

(* A step in which a receiver of the page works, or none does.                *)
AgentGoesOn ==
    /\ UNCHANGED <<main, mutex>>
    /\ \A h \in Handles :
         \/ AgentPC(h)' = AgentPC(h)
         \/ /\ AgentPC(h) \notin {"none", "mutex"}
            /\ AgentPC(h)' \notin {"none", "mutex"}

LEMMA GoesOnKeeps ==
  ASSUME OneAtATime, [Next]_vars, AgentGoesOn
  PROVE  OneAtATime'
<1>1. TypeOK'
  BY NextKeepsTypes DEF OneAtATime
<1>2. \A h \in Handles : /\ AgentPC(h)' = "none" <=> AgentPC(h) = "none"
                         /\ AgentPC(h)' = "mutex" <=> AgentPC(h) = "mutex"
  BY DEF AgentGoesOn
<1>3. main' = main /\ mutex' = mutex
  BY DEF AgentGoesOn
<1>4. Alone' /\ MutexTells' /\ TakenBeforeWait' /\ NoneBefore'
  BY <1>2, <1>3 DEF OneAtATime, Alone, MutexTells, TakenBeforeWait, NoneBefore
<1> QED BY <1>1, <1>4 DEF OneAtATime

(* A step of a receiver changes the pc of that receiver alone.                *)
LEMMA OnlyOne ==
  ASSUME TypeOK, NEW s \in Sides, NEW h \in Handles, NEW r \in Receivers,
         receivers' = [receivers EXCEPT ![<<s, h>>] = r]
  PROVE  \A g \in Handles :
           AgentPC(g)' = IF s = "agent" /\ g = h THEN r.pc ELSE AgentPC(g)
<1> SUFFICES ASSUME NEW g \in Handles
             PROVE  receivers'[<<"agent", g>>].pc
                      = IF s = "agent" /\ g = h THEN r.pc
                        ELSE receivers[<<"agent", g>>].pc
  BY DEF AgentPC
<1>1. <<"agent", g>> \in Sides \X Handles /\ <<s, h>> \in Sides \X Handles
  BY DEF Sides
<1>2. receivers'[<<"agent", g>>]
        = IF <<"agent", g>> = <<s, h>> THEN r ELSE receivers[<<"agent", g>>]
  BY <1>1 DEF TypeOK
<1>3. CASE s = "agent" /\ g = h
  BY <1>2, <1>3
<1>4. CASE ~(s = "agent" /\ g = h)
  <2>1. <<"agent", g>> # <<s, h>>
    BY <1>4
  <2> QED BY <1>2, <1>4, <2>1
<1> QED BY <1>3, <1>4

LEMMA MainThreadKeepsOne ==
  ASSUME OneAtATime, MainThread
  PROVE  OneAtATime'
<1> USE DEF links, others
<1>0. TypeOK /\ TypeOK'
  BY MainThreadKeepsTypes DEF OneAtATime
<1>1. CASE Register
  BY <1>0, <1>1
  DEF Register, OneAtATime, Alone, MutexTells, TakenBeforeWait, NoneBefore, AgentPC
<1>2. CASE Restart
  <2>1. \A h \in Handles : AgentPC(h) = "none"
    BY <1>2 DEF Restart, OneAtATime, MutexTells, TakenBeforeWait
  <2>2. \A h \in Handles : AgentPC(h)' = "none"
    BY <1>2, <2>1 DEF Restart, AgentPC
  <2> QED BY <1>0, <2>2
    DEF OneAtATime, Alone, MutexTells, TakenBeforeWait, NoneBefore
<1>3. CASE Repeat \/ ConnectMasterFails \/ MasterStillThere \/ ConnectAgent
           \/ ConnectAgentFails
  <2>1. /\ main \notin {"reg", "wait"} /\ main' \notin {"reg", "wait"}
        /\ UNCHANGED receivers
    BY <1>3
    DEF Repeat, ConnectMasterFails, MasterStillThere, ConnectAgent,
        ConnectAgentFails
  <2>2. \A h \in Handles : AgentPC(h)' = "none"
    BY <2>1 DEF OneAtATime, NoneBefore, AgentPC
  <2> QED BY <1>0, <2>2
    DEF OneAtATime, Alone, MutexTells, TakenBeforeWait, NoneBefore
<1>4. CASE ConnectMaster
  <2>1. "master" \in Sides /\ "top" \in IdlePCs
    BY DEF Sides, IdlePCs, ReceiverPCs
  <2>2. PICK k \in Handles :
          receivers' = [receivers EXCEPT ![<<"master", k>>] = [Idle EXCEPT !.pc = "top"]]
    BY <1>0, <1>4, <2>1, StartsKeepsType DEF ConnectMaster
  <2>3. \A h \in Handles : AgentPC(h)' = AgentPC(h)
    BY <1>0, <2>1, <2>2, OnlyOne, IdleIsReceiver
  <2>4. \A h \in Handles : AgentPC(h)' = "none"
    BY <1>4, <2>3 DEF ConnectMaster, OneAtATime, NoneBefore
  <2> QED BY <1>0, <2>4
    DEF OneAtATime, Alone, MutexTells, TakenBeforeWait, NoneBefore
<1>5. CASE StartAgentServer
  <2>1. "agent" \in Sides /\ "mutex" \in IdlePCs
    BY DEF Sides, IdlePCs, ReceiverPCs
  <2>2. PICK k \in Handles :
          receivers' = [receivers EXCEPT ![<<"agent", k>>] = [Idle EXCEPT !.pc = "mutex"]]
    BY <1>0, <1>5, <2>1, StartsKeepsType DEF StartAgentServer
  <2>3. [Idle EXCEPT !.pc = "mutex"].pc = "mutex"
    BY IdleAt
  <2>4. \A h \in Handles : AgentPC(h)' = IF h = k THEN "mutex" ELSE AgentPC(h)
    BY <1>0, <2>1, <2>2, <2>3, OnlyOne, IdleIsReceiver
  <2>5. \A h \in Handles : AgentPC(h)' = IF h = k THEN "mutex" ELSE "none"
    BY <1>5, <2>4 DEF StartAgentServer, OneAtATime, NoneBefore
  <2>6. main' = "reg"
    BY <1>5 DEF StartAgentServer
  <2> QED BY <1>0, <2>5, <2>6
    DEF OneAtATime, Alone, MutexTells, TakenBeforeWait, NoneBefore
<1> QED BY <1>1, <1>2, <1>3, <1>4, <1>5 DEF MainThread

LEMMA MasterServerKeepsOne ==
  ASSUME OneAtATime, NEW h \in Handles, control_masterServer(<<"master", h>>)
  PROVE  OneAtATime'
<1> DEFINE t == <<"master", h>>
<1> USE DEF links, others
<1>0. TypeOK /\ TypeOK'
  BY MasterServerKeepsTypes DEF OneAtATime
<1>1. main' = main /\ mutex' = mutex
  BY DEF control_masterServer, Listens, AckArrives, loginACKHandler, AckTests,
         AckSets, Loses, RecMsgFails, TestsFirst, Claims, ClosesOther, Closes,
         TestsOwn, ClosesOwn, Ends
<1>2. \E r : receivers' = [receivers EXCEPT ![t] = r]
  BY DEF control_masterServer, Listens, AckArrives, loginACKHandler, AckTests,
         AckSets, Loses, RecMsgFails, TestsFirst, Claims, ClosesOther, Closes,
         TestsOwn, ClosesOwn, Ends, Goes
<1>3. \A g \in Handles : AgentPC(g)' = AgentPC(g)
  <2>1. \A g \in Handles : <<"agent", g>> # t
    OBVIOUS
  <2> QED BY <1>2, <2>1, <1>0 DEF AgentPC, TypeOK, Sides
<1> QED BY <1>0, <1>1, <1>3
  DEF OneAtATime, Alone, MutexTells, TakenBeforeWait, NoneBefore

LEMMA AgentServerKeepsOne ==
  ASSUME OneAtATime, NEW h \in Handles, control_agentServer(<<"agent", h>>)
  PROVE  OneAtATime'
<1> DEFINE t == <<"agent", h>>
<1>0. TypeOK /\ TypeOK' /\ t \in Sides \X Handles
  BY AgentServerKeepsTypes DEF OneAtATime, Sides
<1>1. ASSUME NEW pc, receivers' = [receivers EXCEPT ![t] = pc]
      PROVE  \A g \in Handles : AgentPC(g)' = IF g = h THEN pc.pc ELSE AgentPC(g)
  BY <1>0, <1>1 DEF AgentPC, TypeOK
<1>2. CASE TakesMutex(t)
  <2>1. /\ AgentPC(h) = "mutex" /\ mutex' = "held" /\ main' = main
        /\ receivers' = [receivers EXCEPT ![t] = [Idle EXCEPT !.pc = "top"]]
    BY <1>2 DEF TakesMutex, At, Goes, AgentPC
  <2>2. \A g \in Handles : AgentPC(g)' = IF g = h THEN "top" ELSE AgentPC(g)
    BY <1>1, <2>1, IdleAt
  <2> QED BY <1>0, <2>1, <2>2
    DEF OneAtATime, Alone, MutexTells, TakenBeforeWait, NoneBefore
<1>3. CASE ReleasesMutex(t)
  <2>1. /\ AgentPC(h) = "done" /\ main' = main
        /\ receivers' = [receivers EXCEPT ![t] = [Idle EXCEPT !.pc = "none"]]
    BY <1>3 DEF ReleasesMutex, At, Goes, AgentPC
  <2>2. \A g \in Handles : AgentPC(g)' = IF g = h THEN "none" ELSE AgentPC(g)
    BY <1>1, <2>1, IdleAt
  <2>3. \A g \in Handles : AgentPC(g)' = "none"
    BY <2>1, <2>2 DEF OneAtATime, Alone
  <2> QED BY <1>0, <2>3
    DEF OneAtATime, Alone, MutexTells, TakenBeforeWait, NoneBefore
<1>4. CASE Listens(t) \/ loginReqHandler(t) \/ Loses(t)
  <2>1. main' = main /\ mutex' = mutex /\ AgentPC(h) \notin {"none", "mutex"}
    BY <1>4
    DEF Listens, loginReqHandler, LoginWaits, LoginTests, LoginSends, LoginMarks,
        LoginAgain, Loses, RecMsgFails, TestsFirst, Claims, ClosesOther, Closes,
        TestsOwn, ClosesOwn, At, Receives, AgentPC
  <2>2. PICK r : /\ receivers' = [receivers EXCEPT ![t] = r]
                 /\ r.pc \notin {"none", "mutex"}
    <3>1. CASE Listens(t)
      <4>1. [Idle EXCEPT !.pc = "recv", !.on = sock[t[1]]].pc = "recv"
        BY DEF Idle
      <4> QED BY <3>1, <4>1 DEF Listens
    <3>2. CASE LoginWaits(t) \/ LoginTests(t)
      BY <1>0, <3>2 DEF LoginWaits, LoginTests, Goes, Idle, TypeOK, Receivers
    <3>3. CASE LoginSends(t) \/ LoginMarks(t) \/ LoginAgain(t)
      BY <3>3 DEF LoginSends, LoginMarks, LoginAgain, Goes, Idle
    <3>4. CASE Loses(t)
      BY <3>4 DEF Loses, RecMsgFails, TestsFirst, Claims, ClosesOther, TestsOwn,
                  ClosesOwn, Goes, Idle
    <3> QED BY <1>4, <3>1, <3>2, <3>3, <3>4 DEF loginReqHandler
  <2>3. \A g \in Handles : AgentPC(g)' = IF g = h THEN r.pc ELSE AgentPC(g)
    BY <1>1, <2>2
  <2>4. AgentGoesOn
    BY <2>1, <2>2, <2>3 DEF AgentGoesOn
  <2>5. Next
    BY DEF Next
  <2> QED BY <2>4, <2>5, GoesOnKeeps
<1> QED BY <1>2, <1>3, <1>4 DEF control_agentServer

LEMMA EnvironmentKeepsOne ==
  ASSUME OneAtATime,
         \/ \E h \in Handles, u \in Users : LoginArrives(<<"agent", h>>, u)
         \/ HeartBeats
         \/ \E h \in Handles, u \in Users, ok \in BOOLEAN : CenterAnswers(h, u, ok)
         \/ \E h \in Handles : Loss(h)
         \/ UNCHANGED vars
  PROVE  OneAtATime'
<1>1. [Next]_vars
  BY DEF Next
<1>2. ASSUME NEW h \in Handles, NEW u \in Users, LoginArrives(<<"agent", h>>, u)
      PROVE  AgentGoesOn
  <2> DEFINE r == [Idle EXCEPT !.pc = "first", !.user = u]
  <2>1. /\ main' = main /\ mutex' = mutex /\ AgentPC(h) = "recv"
        /\ receivers' = [receivers EXCEPT ![<<"agent", h>>] = r]
    BY <1>2 DEF LoginArrives, Receives, AgentPC
  <2>2. r.pc = "first"
    BY DEF Idle
  <2>3. \A g \in Handles : AgentPC(g)' = IF g = h THEN "first" ELSE AgentPC(g)
    <3>1. receivers \in [Sides \X Handles -> Receivers]
      BY DEF OneAtATime, TypeOK
    <3> HIDE DEF r
    <3> QED BY <2>1, <2>2, <3>1 DEF AgentPC, Sides
  <2> QED BY <2>1, <2>3 DEF AgentGoesOn
<1>3. ASSUME UNCHANGED <<main, mutex, receivers>>
      PROVE  AgentGoesOn
  BY <1>3 DEF AgentGoesOn, AgentPC
<1>4. AgentGoesOn
  BY <1>2, <1>3 DEF HeartBeats, CenterAnswers, Loss, vars
<1> QED BY <1>1, <1>4, GoesOnKeeps

(* The connections are set up anew only when no receiver of the page's old    *)
(* connection is left, however often and in whatever order connections are    *)
(* lost, and though the mutex is all the main thread looks at.                *)
THEOREM TerminalNoOldAgentServer == Spec => []NoOldAgentServer
<1>1. Init => OneAtATime
  <2> SUFFICES ASSUME Init PROVE OneAtATime
    OBVIOUS
  <2>1. \A h \in Handles : AgentPC(h) = "none"
    BY DEF Init, AgentPC, Idle, Sides
  <2> QED BY <2>1, InitTypes
    DEF OneAtATime, Alone, MutexTells, TakenBeforeWait, NoneBefore
<1>2. OneAtATime /\ [Next]_vars => OneAtATime'
  BY MainThreadKeepsOne, MasterServerKeepsOne, AgentServerKeepsOne,
     EnvironmentKeepsOne DEF Next
<1>3. OneAtATime => NoOldAgentServer
  BY DEF OneAtATime, NoneBefore, NoOldAgentServer, AgentPC
<1> QED BY <1>1, <1>2, <1>3, PTL DEF Spec
-----------------------------------------------------------------------------
(* One receiver at a time on the connection to the Center, and who is logged  *)
(* in.  As long as every loss met the program at rest, each side has one      *)
(* place p[s] in which its receiver works, and the two receivers and the main *)
(* thread go through a loss in step.                                          *)

Receiver(p, s) == receivers[<<s, p[s]>>]

Places(p) ==
    \A s \in Sides, h \in Handles : h # p[s] => receivers[<<s, h>>].pc = "none"

Absent(p, s) == Receiver(p, s).pc = "none"
Stands(s) == sock[s] # None /\ conn[sock[s]] = "open"
NoneOpen == \A h \in Handles : conn[h] # "open"
OpenIsNamed == \A h \in Handles : conn[h] = "open" => \E s \in Sides : sock[s] = h

(* A receiver that knows of no loss.                                          *)
Listening(p, s) ==
    /\ Receiver(p, s).pc \in
         {"top", "recv"} \cup (IF s = "master" THEN {"ack", "set"}
                               ELSE {"mutex", "first", "test", "send", "mark", "again"})
    /\ Receiver(p, s).pc = "recv" => Receiver(p, s).on = sock[s]

(* Nothing is connected; the Center is; the page is as well, still without a  *)
(* receiver; both have one.                                                   *)
Down(p) ==
    /\ main \in {"repeat", "connect"}
    /\ \A s \in Sides : sock[s] = None /\ Absent(p, s)
    /\ NoneOpen
Half(p) ==
    /\ main \in {"repeat1", "connectAgent"}
    /\ Stands("master") /\ Listening(p, "master")
    /\ sock["agent"] = None /\ Absent(p, "agent")
    /\ OpenIsNamed
Spawning(p) ==
    /\ main = "spawn"
    /\ Whole /\ OpenIsNamed
    /\ Listening(p, "master") /\ Absent(p, "agent")
Up(p) ==
    /\ main \in {"reg", "wait"}
    /\ Whole /\ OpenIsNamed
    /\ \A s \in Sides : Listening(p, s)

(* Side s has lost its connection, and the other side waits in recv.          *)
Noticed(p, s) ==
    /\ main = "wait"
    /\ sock[s] # None /\ conn[sock[s]] = "lost"
    /\ Stands(Other(s))
    /\ \A h \in Handles : conn[h] = "open" => h = sock[Other(s)]
    /\ Receiver(p, Other(s)).pc = "recv"
    /\ Receiver(p, Other(s)).on = sock[Other(s)]
    /\ inbox[sock["master"]] = <<>>
    /\ Receiver(p, s).pc \in {"recv", "lost", "claim", "closeOther"}
    /\ Receiver(p, s).pc = "recv" => Receiver(p, s).on = sock[s]
    /\ isAgentClosed = IF Receiver(p, s).pc = "closeOther" THEN s ELSE "unset"

(* Side s has closed the other side's connection as well, and both end.       *)
Closing(p, s) ==
    /\ main = "wait"
    /\ sock[Other(s)] = None
    /\ NoneOpen
    /\ Receiver(p, s).pc \in {"own", "closeOwn", "done", "none"}
    /\ sock[s] # None <=> Receiver(p, s).pc \in {"own", "closeOwn"}
    /\ Receiver(p, Other(s)).pc \in {"recv", "lost", "own", "done", "none"}
    /\ Receiver(p, Other(s)).pc = "recv" => conn[Receiver(p, Other(s)).on] = "closed"
    /\ isAgentClosed = IF Receiver(p, Other(s)).pc \in {"recv", "lost", "own"}
                         THEN s ELSE "unset"

Phase(p) ==
    \/ isAgentClosed = "unset" /\ (Down(p) \/ Half(p) \/ Spawning(p) \/ Up(p))
    \/ \E s \in Sides : Noticed(p, s) \/ Closing(p, s)

(* What is known of an admission on its way from the Center to slave_state.   *)
Admitted(a) == a.ok => a.user \in granted

LoginInOrder(p) ==
    LET m == Receiver(p, "master")
        a == Receiver(p, "agent")
    IN  /\ m.pc = "set" => slave_state = "LOGINING" /\ slave_user = m.user
        /\ a.pc \in {"send", "mark"} => slave_state = "OPEN_WITHOUT_LOGIN"
        /\ m.pc \in {"ack", "set"} => Admitted(m)
        /\ sock["master"] # None =>
             \A i \in DOMAIN inbox[sock["master"]] : Admitted(inbox[sock["master"]][i])
        /\ slave_state = "OPEN_WITH_LOGIN" => slave_user \in granted

TwoSockets == sock["master"] = sock["agent"] => sock["master"] = None

InStep(p) ==
    /\ p \in [Sides -> Handles]
    /\ Places(p) /\ Phase(p) /\ LoginInOrder(p) /\ TwoSockets

QuietInv == OneAtATime /\ (quiet => \E p : InStep(p))

(* Who works stands in its place.                                             *)
LEMMA ItsPlace ==
  ASSUME NEW p, InStep(p), NEW s \in Sides, NEW h \in Handles,
         receivers[<<s, h>>].pc # "none"
  PROVE  h = p[s]
BY DEF InStep, Places

(* A step of a receiver is a step in its place and no other.                  *)
LEMMA StepInPlace ==
  ASSUME TypeOK, NEW p, InStep(p), NEW s \in Sides, NEW r,
         receivers' = [receivers EXCEPT ![<<s, p[s]>>] = r]
  PROVE  /\ Receiver(p, s)' = r
         /\ Receiver(p, Other(s))' = Receiver(p, Other(s))
         /\ Places(p)'
<1>1. /\ Other(s) \in Sides /\ Other(s) # s /\ p \in [Sides -> Handles]
      /\ receivers \in [Sides \X Handles -> Receivers]
  BY DEF Sides, Other, InStep, TypeOK
<1>2. \A q \in Sides, h \in Handles :
        receivers'[<<q, h>>] = IF q = s /\ h = p[s] THEN r ELSE receivers[<<q, h>>]
  BY <1>1
<1>3. Receiver(p, s)' = r /\ Receiver(p, Other(s))' = Receiver(p, Other(s))
  BY <1>1, <1>2 DEF Receiver
<1>4. Places(p)'
  BY <1>2 DEF InStep, Places
<1> QED BY <1>3, <1>4

LEMMA SidesFacts ==
  /\ Sides = {"master", "agent"} /\ "master" # "agent"
  /\ Other("master") = "agent" /\ Other("agent") = "master"
BY DEF Sides, Other

(* What a receiver's step leaves alone keeps the logins in order.             *)
LEMMA LoginStays ==
  ASSUME NEW p, LoginInOrder(p),
         UNCHANGED <<slave_state, slave_user, inbox, granted>>,
         sock["master"]' \in {sock["master"], None},
         Receiver(p, "master")' = Receiver(p, "master")
           \/ Receiver(p, "master").pc' \notin {"set", "ack"},
         Receiver(p, "agent")' = Receiver(p, "agent")
           \/ Receiver(p, "agent").pc' \notin {"send", "mark"}
  PROVE  LoginInOrder(p)'
BY DEF LoginInOrder, Admitted

LEMMA LosesInStep ==
  ASSUME TypeOK, NEW p, InStep(p), NEW s \in Sides, Loses(<<s, p[s]>>)
  PROVE  InStep(p)'
<1> DEFINE t == <<s, p[s]>>
           o == Other(s)
<1>0. /\ o \in Sides /\ o # s /\ Other(o) = s /\ t[1] = s
      /\ \A q \in Sides : q = s \/ q = o
      /\ p \in [Sides -> Handles]
      /\ {sock[s], sock[o]} \subseteq Handles \cup {None}
      /\ conn \in [Handles -> {"closed", "open", "lost"}]
      /\ sock \in [Sides -> Handles \cup {None}]
      /\ (sock[s] = sock[o] => sock[s] = None)
  BY SidesFacts DEF TypeOK, InStep, TwoSockets
<1>n. None \notin Handles
  BY HandlesFacts
<1>r. receivers[t] = Receiver(p, s)
  BY DEF Receiver
<1>l. UNCHANGED <<slave_state, slave_user, inbox, granted>>
  BY DEF Loses, RecMsgFails, TestsFirst, Claims, ClosesOther, TestsOwn,
         ClosesOwn, Closes, others, slave, login, center
<1>m. UNCHANGED main
  BY DEF Loses, RecMsgFails, TestsFirst, Claims, ClosesOther, TestsOwn,
         ClosesOwn, Closes
<1>k. ASSUME NEW pc \in {"lost", "claim", "closeOther", "own", "closeOwn", "done"},
             Goes(t, pc),
             sock' = sock \/ \E q \in Sides : sock' = [sock EXCEPT ![q] = None]
      PROVE  /\ Receiver(p, s).pc' = pc
             /\ Receiver(p, o)' = Receiver(p, o)
             /\ Phase(p)' => InStep(p)'
  <2>1. /\ Receiver(p, s)' = [Idle EXCEPT !.pc = pc]
        /\ Receiver(p, o)' = Receiver(p, o) /\ Places(p)'
    BY <1>k, StepInPlace DEF Goes
  <2>2. Receiver(p, s).pc' = pc
    BY <2>1, IdleAt
  <2>3. TwoSockets' /\ sock["master"]' \in {sock["master"], None}
    BY <1>0, <1>k, SidesFacts DEF TwoSockets
  <2>4. LoginInOrder(p)'
    <3>1. LoginInOrder(p)
      BY DEF InStep
    <3>2. /\ Receiver(p, "master")' = Receiver(p, "master")
               \/ Receiver(p, "master").pc' \notin {"set", "ack"}
          /\ Receiver(p, "agent")' = Receiver(p, "agent")
               \/ Receiver(p, "agent").pc' \notin {"send", "mark"}
      BY <2>1, <2>2, SidesFacts
    <3> QED BY <3>1, <3>2, <1>l, <2>3, LoginStays
  <2> QED BY <2>1, <2>2, <2>3, <2>4, <1>0 DEF InStep
<1> HIDE DEF t, o
<1>p. Phase(p)
  BY DEF InStep
<1>1. CASE RecMsgFails(t)
  <2>1. /\ Receiver(p, s).pc = "recv" /\ conn[Receiver(p, s).on] # "open"
        /\ Goes(t, "lost") /\ UNCHANGED <<sock, conn, isAgentClosed, inbox>>
    BY <1>1, <1>r, <1>l DEF RecMsgFails, Receives, links
  <2>2. Receiver(p, s).pc' = "lost" /\ Receiver(p, o)' = Receiver(p, o)
    BY <2>1, <1>k DEF t
  <2>3. Noticed(p, s) \/ Closing(p, o)
    BY <1>0, <1>p, <2>1, SidesFacts, <1>n
    DEF Phase, Down, Half, Spawning, Up, Noticed, Closing, Listening, Absent,
        Stands, Whole, o
  <2>4. Phase(p)'
    <3>1. CASE Noticed(p, s)
      <4>1. Noticed(p, s)'
        BY <3>1, <2>1, <2>2, <1>m DEF Noticed, Stands, o
      <4> QED BY <4>1 DEF Phase
    <3>2. CASE Closing(p, o)
      <4>1. Closing(p, o)'
        BY <3>2, <2>1, <2>2, <1>m, <1>0 DEF Closing, NoneOpen
      <4> QED BY <4>1, <1>0 DEF Phase
    <3> QED BY <2>3, <3>1, <3>2
  <2> QED BY <2>1, <2>4, <1>k
<1>2. CASE TestsFirst(t)
  <2> DEFINE pc == IF isAgentClosed # o THEN "claim" ELSE "own"
  <2>1. /\ Receiver(p, s).pc = "lost" /\ Goes(t, pc)
        /\ UNCHANGED <<sock, conn, isAgentClosed, inbox>>
    BY <1>2, <1>r, <1>l, <1>0 DEF TestsFirst, At, links, o
  <2>2. Receiver(p, s).pc' = pc /\ Receiver(p, o)' = Receiver(p, o)
    BY <2>1, <1>k
  <2>3. Noticed(p, s) \/ Closing(p, o)
    BY <1>0, <1>p, <2>1, SidesFacts
    DEF Phase, Down, Half, Spawning, Up, Noticed, Closing, Listening, Absent
  <2>4. Phase(p)'
    <3>1. CASE Noticed(p, s)
      <4>0. pc = "claim"
        BY <3>1, <2>1, <1>0, SidesFacts DEF Noticed
      <4>1. Noticed(p, s)'
        BY <3>1, <2>1, <2>2, <1>m, <4>0 DEF Noticed, Stands, o
      <4> QED BY <4>1 DEF Phase
    <3>2. CASE Closing(p, o)
      <4>0. pc = "own"
        BY <3>2, <2>1, <1>0 DEF Closing
      <4>1. Closing(p, o)'
        BY <3>2, <2>1, <2>2, <1>m, <1>0, <4>0 DEF Closing, NoneOpen
      <4> QED BY <4>1, <1>0 DEF Phase
    <3> QED BY <2>3, <3>1, <3>2
  <2> QED BY <2>1, <2>4, <1>k
<1>3. CASE Claims(t)
  <2>1. /\ Receiver(p, s).pc = "claim" /\ Goes(t, "closeOther")
        /\ UNCHANGED <<sock, conn, inbox>> /\ isAgentClosed' = s
    BY <1>3, <1>r, <1>l, <1>0 DEF Claims, At
  <2>2. Receiver(p, s).pc' = "closeOther" /\ Receiver(p, o)' = Receiver(p, o)
    BY <2>1, <1>k
  <2>3. Noticed(p, s)
    BY <1>0, <1>p, <2>1, SidesFacts
    DEF Phase, Down, Half, Spawning, Up, Noticed, Closing, Listening, Absent
  <2>4. Noticed(p, s)'
    BY <2>3, <2>1, <2>2, <1>m DEF Noticed, Stands, o
  <2> QED BY <2>1, <2>4, <1>k DEF Phase
<1>4. CASE ClosesOther(t)
  <2>1. /\ Receiver(p, s).pc = "closeOther" /\ Goes(t, "own")
        /\ sock' = [sock EXCEPT ![o] = None] /\ conn' = Closed(sock[o])
        /\ UNCHANGED isAgentClosed
    BY <1>4, <1>r, <1>0 DEF ClosesOther, Closes, At, o
  <2>2. Receiver(p, s).pc' = "own" /\ Receiver(p, o)' = Receiver(p, o)
    BY <2>1, <1>k, <1>0
  <2>3. Noticed(p, s)
    BY <1>0, <1>p, <2>1, SidesFacts
    DEF Phase, Down, Half, Spawning, Up, Noticed, Closing, Listening, Absent
  <2>4. Closing(p, s)'
    <3>1. \A h \in Handles : conn'[h] = IF h = sock[o] THEN "closed" ELSE conn[h]
      BY <2>1 DEF Closed
    <3>2. NoneOpen'
      BY <3>1, <2>3 DEF NoneOpen, Noticed, o
    <3>3. sock'[o] = None /\ sock'[s] = sock[s]
      BY <2>1, <1>0
    <3>4. /\ Receiver(p, o).pc = "recv" /\ Receiver(p, o).on = sock[o]
          /\ sock[o] \in Handles /\ sock[s] # None /\ isAgentClosed = s
      BY <2>1, <2>3, <1>0 DEF Noticed, Stands, o
    <3>5. Receiver(p, o).pc' = "recv" /\ conn'[Receiver(p, o).on'] = "closed"
      BY <3>1, <3>4, <2>2
    <3> QED BY <3>2, <3>3, <3>4, <3>5, <2>1, <2>2, <2>3, <1>m DEF Closing, Noticed, o
  <2> QED BY <2>1, <2>4, <1>k, <1>0 DEF Phase
<1>5. CASE TestsOwn(t)
  <2> DEFINE pc == IF isAgentClosed # o THEN "closeOwn" ELSE "done"
  <2>1. /\ Receiver(p, s).pc = "own" /\ Goes(t, pc)
        /\ UNCHANGED <<sock, conn, inbox>>
        /\ isAgentClosed' = IF isAgentClosed # o THEN isAgentClosed ELSE "unset"
    BY <1>5, <1>r, <1>l, <1>0 DEF TestsOwn, At, o
  <2>2. Receiver(p, s).pc' = pc /\ Receiver(p, o)' = Receiver(p, o)
    BY <2>1, <1>k
  <2>3. Closing(p, s) \/ Closing(p, o)
    BY <1>0, <1>p, <2>1, SidesFacts
    DEF Phase, Down, Half, Spawning, Up, Noticed, Closing, Listening, Absent
  <2>4. Phase(p)'
    <3>1. CASE Closing(p, s)
      <4>0. isAgentClosed # o
        BY <3>1, <1>0, SidesFacts DEF Closing
      <4>1. Closing(p, s)'
        BY <3>1, <2>1, <2>2, <1>m, <1>0, <4>0 DEF Closing, NoneOpen, o
      <4> QED BY <4>1 DEF Phase
    <3>2. CASE Closing(p, o)
      <4>0. isAgentClosed = o
        BY <3>2, <2>1, <1>0 DEF Closing
      <4>1. Closing(p, o)'
        BY <3>2, <2>1, <2>2, <1>m, <1>0, <4>0 DEF Closing, NoneOpen
      <4> QED BY <4>1, <1>0 DEF Phase
    <3> QED BY <2>3, <3>1, <3>2
  <2> QED BY <2>1, <2>4, <1>k
<1>6. CASE ClosesOwn(t)
  <2>1. /\ Receiver(p, s).pc = "closeOwn" /\ Goes(t, "done")
        /\ sock' = [sock EXCEPT ![s] = None] /\ conn' = Closed(sock[s])
        /\ UNCHANGED isAgentClosed
    BY <1>6, <1>r, <1>0 DEF ClosesOwn, Closes, At
  <2>2. Receiver(p, s).pc' = "done" /\ Receiver(p, o)' = Receiver(p, o)
    BY <2>1, <1>k, <1>0
  <2>3. Closing(p, s)
    BY <1>0, <1>p, <2>1, SidesFacts
    DEF Phase, Down, Half, Spawning, Up, Noticed, Closing, Listening, Absent
  <2>4. Closing(p, s)'
    <3>1. \A h : h \in Handles => conn'[h] = IF h = sock[s] THEN "closed" ELSE conn[h]
      BY <2>1 DEF Closed
    <3>2. NoneOpen'
      BY <3>1, <2>3 DEF NoneOpen, Closing
    <3>3. sock'[s] = None /\ sock'[o] = sock[o]
      BY <2>1, <1>0
    <3>4. Receiver(p, o).pc = "recv" => Receiver(p, o).on \in Handles
      <4>1. Receiver(p, o) \in Receivers
        BY <1>0 DEF Receiver, TypeOK
      <4> QED BY <4>1 DEF Receivers
    <3>5. Receiver(p, o).pc' = "recv" => conn'[Receiver(p, o).on'] = "closed"
      BY <3>1, <3>4, <2>2, <2>3 DEF Closing, o
    <3> QED BY <3>2, <3>3, <3>5, <2>1, <2>2, <2>3, <1>m DEF Closing, o
  <2> QED BY <2>1, <2>4, <1>k, <1>0 DEF Phase
<1> QED BY <1>1, <1>2, <1>3, <1>4, <1>5, <1>6 DEF Loses, t

LEMMA OpensOne ==
  ASSUME TypeOK, NEW s \in Sides, Open(s)
  PROVE  \E h \in Handles :
           /\ conn[h] = "closed" /\ \A q \in Sides : sock[q] # h
           /\ sock' = [sock EXCEPT ![s] = h]
           /\ conn' = [conn EXCEPT ![h] = "open"]
           /\ inbox' = [inbox EXCEPT ![h] = <<>>]
           /\ UNCHANGED <<isAgentClosed, granted>>
<1> DEFINE h == Pick(Unused)
<1>1. h \in Unused
  BY PickIsMember DEF Open
<1>2. /\ sock' = [sock EXCEPT ![s] = h]
      /\ conn' = [conn EXCEPT ![h] = "open"]
      /\ inbox' = [inbox EXCEPT ![h] = <<>>]
      /\ UNCHANGED <<isAgentClosed, granted>>
  BY DEF Open
<1> HIDE DEF h
<1>3. h \in Handles /\ conn[h] = "closed" /\ \A q \in Sides : sock[q] # h
  BY <1>1 DEF Unused
<1> QED BY <1>2, <1>3

(* A new receiver of a side that has none takes the place of that side.       *)
LEMMA StartsInPlace ==
  ASSUME TypeOK, NEW p, InStep(p), NEW s \in Sides, Absent(p, s),
         NEW pc \in IdlePCs, Starts(s, pc)
  PROVE  \E q \in [Sides -> Handles] :
           /\ Places(q)'
           /\ Receiver(q, s)' = [Idle EXCEPT !.pc = pc]
           /\ Receiver(q, Other(s)) = Receiver(p, Other(s))
           /\ Receiver(q, Other(s))' = Receiver(p, Other(s))
<1>1. PICK k \in Handles :
        receivers' = [receivers EXCEPT ![<<s, k>>] = [Idle EXCEPT !.pc = pc]]
  BY StartsKeepsType
<1> DEFINE q == [p EXCEPT ![s] = k]
           r == [Idle EXCEPT !.pc = pc]
<1>2. /\ p \in [Sides -> Handles] /\ receivers \in [Sides \X Handles -> Receivers]
      /\ Other(s) \in Sides /\ Other(s) # s
  BY SidesFacts DEF InStep, TypeOK
<1>3. /\ q \in [Sides -> Handles] /\ q[s] = k /\ q[Other(s)] = p[Other(s)]
      /\ \A u \in Sides : u # s => q[u] = p[u]
  BY <1>2
<1> HIDE DEF q, r
<1>4. \A u \in Sides, h \in Handles :
        receivers'[<<u, h>>] = IF u = s /\ h = k THEN r ELSE receivers[<<u, h>>]
  BY <1>1, <1>2 DEF r
<1>5. \A u \in Sides, h \in Handles :
        (u = s \/ h # p[u]) => receivers[<<u, h>>].pc = "none"
  BY DEF InStep, Places, Absent, Receiver
<1>6. Places(q)'
  BY <1>3, <1>4, <1>5 DEF Places
<1>7. /\ Receiver(q, s)' = r /\ Receiver(q, Other(s)) = Receiver(p, Other(s))
      /\ Receiver(q, Other(s))' = Receiver(p, Other(s))
  BY <1>2, <1>3, <1>4 DEF Receiver
<1> QED BY <1>3, <1>6, <1>7 DEF r

LEMMA MainThreadInStep ==
  ASSUME OneAtATime, NEW p, InStep(p), MainThread
  PROVE  \E q : InStep(q)'
<1> USE DEF links, others, slave, login, center, bounds
<1>0. /\ TypeOK /\ p \in [Sides -> Handles] /\ Places(p) /\ Phase(p)
      /\ LoginInOrder(p) /\ TwoSockets
  BY DEF OneAtATime, InStep
<1>n. None \notin Handles /\ Handles \subseteq Nat
  BY HandlesFacts
<1>t. /\ conn \in [Handles -> {"closed", "open", "lost"}]
      /\ sock \in [Sides -> Handles \cup {None}]
      /\ DOMAIN inbox = Handles
  BY <1>0 DEF TypeOK
<1>1. CASE Repeat
  <2>1. Down(p) /\ isAgentClosed = "unset"
    BY <1>0, <1>1 DEF Repeat, Phase, Half, Spawning, Up, Noticed, Closing
  <2>2. Down(p)'
    BY <1>1, <2>1 DEF Repeat, Down, Absent, Receiver, NoneOpen
  <2>3. LoginInOrder(p)'
    BY <1>1, <2>1, <2>2, SidesFacts DEF Repeat, Down, Absent, LoginInOrder
  <2> QED BY <1>0, <1>1, <2>1, <2>2, <2>3
    DEF Repeat, InStep, Phase, Places, TwoSockets
<1>2. CASE ConnectMaster
  <2>0. "master" \in Sides /\ "top" \in IdlePCs
    BY DEF Sides, IdlePCs, ReceiverPCs
  <2>1. Down(p) /\ isAgentClosed = "unset"
    BY <1>0, <1>2 DEF ConnectMaster, Phase, Half, Spawning, Up, Noticed, Closing
  <2>2. PICK h \in Handles :
           /\ conn[h] = "closed" /\ \A s \in Sides : sock[s] # h
           /\ sock' = [sock EXCEPT !["master"] = h]
           /\ conn' = [conn EXCEPT ![h] = "open"]
           /\ inbox' = [inbox EXCEPT ![h] = <<>>]
           /\ UNCHANGED <<isAgentClosed, granted>>
    BY <1>0, <1>2, <2>0, OpensOne DEF ConnectMaster
  <2>3. PICK q \in [Sides -> Handles] :
           /\ Places(q)'
           /\ Receiver(q, "master")' = [Idle EXCEPT !.pc = "top"]
           /\ Receiver(q, "agent")' = Receiver(p, "agent")
    BY <1>0, <1>2, <2>0, <2>1, StartsInPlace, SidesFacts DEF ConnectMaster, Down
  <2>4. Receiver(q, "master").pc' = "top" /\ Receiver(q, "agent").pc' = "none"
    BY <2>1, <2>3, IdleAt, SidesFacts DEF Down, Absent
  <2>5. /\ sock'["master"] = h /\ sock'["agent"] = None
        /\ conn'[h] = "open" /\ inbox'[h] = <<>>
        /\ \A g \in Handles : conn'[g] = "open" => g = h
    BY <1>t, <2>1, <2>2, SidesFacts DEF Down, NoneOpen
  <2>6. Half(q)'
    BY <1>2, <1>n, <2>4, <2>5, SidesFacts
    DEF ConnectMaster, Half, Stands, Listening, Absent, OpenIsNamed
  <2>7. LoginInOrder(q)'
    BY <1>0, <1>2, <2>2, <2>4, <2>5 DEF ConnectMaster, LoginInOrder
  <2>8. TwoSockets'
    BY <1>n, <2>5 DEF TwoSockets
  <2> QED BY <2>1, <2>2, <2>3, <2>6, <2>7, <2>8 DEF InStep, Phase
<1>3. CASE ConnectMasterFails
  <2>1. Down(p) /\ isAgentClosed = "unset"
    BY <1>0, <1>3 DEF ConnectMasterFails, Phase, Half, Spawning, Up, Noticed, Closing
  <2>2. Down(p)'
    BY <1>3, <2>1 DEF ConnectMasterFails, Down, Absent, Receiver, NoneOpen
  <2> QED BY <1>0, <1>3, <2>1, <2>2
    DEF ConnectMasterFails, InStep, Phase, Places, LoginInOrder, Admitted, Receiver,
        TwoSockets
<1>4. CASE MasterStillThere \/ ConnectAgentFails
  <2>1. Half(p) /\ isAgentClosed = "unset"
    BY <1>0, <1>4 DEF MasterStillThere, ConnectAgentFails, Phase, Down, Spawning,
                      Up, Noticed, Closing
  <2>2. /\ UNCHANGED <<links, mutex, receivers, others>>
        /\ main' \in {"repeat1", "connectAgent"}
    BY <1>4, <2>1 DEF MasterStillThere, ConnectAgentFails, Half, Stands
  <2>3. Half(p)'
    BY <2>1, <2>2 DEF Half, Stands, Listening, Absent, Receiver, OpenIsNamed
  <2> QED BY <1>0, <2>1, <2>2, <2>3
    DEF InStep, Phase, Places, LoginInOrder, Admitted, Receiver, TwoSockets
<1>5. CASE ConnectAgent
  <2>0. "agent" \in Sides
    BY DEF Sides
  <2>1. Half(p) /\ isAgentClosed = "unset"
    BY <1>0, <1>5 DEF ConnectAgent, Phase, Down, Spawning, Up, Noticed, Closing
  <2>2. PICK h \in Handles :
           /\ conn[h] = "closed" /\ \A s \in Sides : sock[s] # h
           /\ sock' = [sock EXCEPT !["agent"] = h]
           /\ conn' = [conn EXCEPT ![h] = "open"]
           /\ inbox' = [inbox EXCEPT ![h] = <<>>]
           /\ UNCHANGED <<isAgentClosed, granted>>
    BY <1>0, <1>5, <2>0, OpensOne DEF ConnectAgent
  <2>3. \A s \in Sides : Receiver(p, s)' = Receiver(p, s)
    BY <1>5 DEF ConnectAgent, Receiver
  <2>4. sock["master"] \in Handles /\ sock["master"] # h
    BY <1>t, <2>1, <2>2, SidesFacts DEF Half, Stands
  <2>5. /\ sock'["master"] = sock["master"] /\ sock'["agent"] = h
        /\ conn'[h] = "open" /\ conn'[sock["master"]] = "open"
        /\ inbox'[sock["master"]] = inbox[sock["master"]]
        /\ \A g \in Handles : conn'[g] = "open" => g = h \/ g = sock["master"]
    <3>1. \A g \in Handles : conn[g] = "open" => g = sock["master"]
      BY <1>n, <2>1, SidesFacts DEF Half, OpenIsNamed
    <3>2. conn[sock["master"]] = "open"
      BY <2>1 DEF Half, Stands
    <3> QED BY <1>t, <2>2, <2>4, <3>1, <3>2, SidesFacts
  <2>6. Spawning(p)'
    <3>1. Whole' /\ OpenIsNamed'
      BY <1>n, <2>4, <2>5, SidesFacts DEF Whole, OpenIsNamed
    <3>2. Listening(p, "master")' /\ Absent(p, "agent")'
      BY <2>1, <2>3, <2>5, SidesFacts DEF Half, Listening, Absent
    <3> QED BY <1>5, <3>1, <3>2 DEF ConnectAgent, Spawning
  <2>7. LoginInOrder(p)'
    BY <1>0, <1>5, <2>2, <2>3, <2>4, <2>5, SidesFacts
    DEF ConnectAgent, LoginInOrder, Admitted
  <2>8. Places(p)' /\ TwoSockets'
    BY <1>0, <1>5, <1>n, <2>4, <2>5 DEF ConnectAgent, Places, TwoSockets
  <2> QED BY <1>0, <2>1, <2>2, <2>6, <2>7, <2>8 DEF InStep, Phase
<1>6. CASE StartAgentServer
  <2>0. "agent" \in Sides /\ "mutex" \in IdlePCs
    BY DEF Sides, IdlePCs, ReceiverPCs
  <2>1. Spawning(p) /\ isAgentClosed = "unset"
    BY <1>0, <1>6 DEF StartAgentServer, Phase, Down, Half, Up, Noticed, Closing
  <2>2. PICK q \in [Sides -> Handles] :
           /\ Places(q)'
           /\ Receiver(q, "agent")' = [Idle EXCEPT !.pc = "mutex"]
           /\ Receiver(q, "master")' = Receiver(p, "master")
    BY <1>6, <1>0, <2>0, <2>1, StartsInPlace, SidesFacts DEF StartAgentServer, Spawning
  <2>3. Receiver(q, "agent").pc' = "mutex"
    BY <2>2, IdleAt
  <2>4. Up(q)'
    <3>1. Whole' /\ OpenIsNamed' /\ main' = "reg"
      BY <1>6, <2>1 DEF StartAgentServer, Spawning, Whole, OpenIsNamed
    <3>2. Listening(q, "master")' /\ Listening(q, "agent")'
      BY <1>6, <2>1, <2>2, <2>3, SidesFacts DEF StartAgentServer, Spawning, Listening
    <3> QED BY <3>1, <3>2, SidesFacts DEF Up
  <2>5. LoginInOrder(q)'
    BY <1>0, <1>6, <2>2, <2>3 DEF StartAgentServer, LoginInOrder, Admitted
  <2> QED BY <1>0, <1>6, <2>1, <2>2, <2>4, <2>5
    DEF StartAgentServer, InStep, Phase, TwoSockets
<1>7. CASE Register
  <2>1. Up(p) /\ isAgentClosed = "unset"
    BY <1>0, <1>7 DEF Register, Phase, Down, Half, Spawning, Noticed, Closing
  <2>2. Up(p)'
    BY <1>7, <2>1
    DEF Register, Up, Whole, Listening, Receiver, OpenIsNamed
  <2> QED BY <1>0, <1>7, <2>1, <2>2
    DEF Register, InStep, Phase, Places, LoginInOrder, Admitted, Receiver, TwoSockets
<1>8. CASE Restart
  <2>1. main = "wait" /\ main' = "repeat" /\ UNCHANGED <<links, mutex, receivers, others>>
    BY <1>8 DEF Restart
  <2>2. Absent(p, "agent")
    BY <1>0, <1>8, SidesFacts
    DEF Restart, OneAtATime, MutexTells, TakenBeforeWait, AgentPC, Absent, Receiver
  <2>3. PICK s \in Sides : Noticed(p, s) \/ Closing(p, s)
    BY <1>0, <2>1, <2>2, SidesFacts
    DEF Phase, Down, Half, Spawning, Up, Listening, Absent
  <2>4. /\ Other(s) \in Sides /\ Other(Other(s)) = s /\ Sides = {s, Other(s)}
        /\ \A u \in Sides : p[u] \in Handles /\ Receiver(p, u) \in Receivers
    BY <1>0, SidesFacts DEF TypeOK, Receiver
  <2>r. \A u \in Sides :
          LET r == Receiver(p, u)
          IN  \/ r.pc = "none"
              \/ r.pc = "top" /\ sock[u] = None
              \/ r.pc = "recv" /\ conn[r.on] = "open"
    <3>1. \A u \in Sides : AtRest(<<u, p[u]>>)
      BY <1>8, <2>4 DEF Restart
    <3> QED BY <3>1 DEF AtRest, Receiver, Receives
  <2>5. ~Noticed(p, s)
    <3>1. CASE s = "agent"
      BY <2>2, <3>1, SidesFacts DEF Noticed, Absent
    <3>2. CASE s = "master"
      BY <2>2, <3>2, SidesFacts DEF Noticed, Absent
    <3> QED BY <3>1, <3>2, SidesFacts
  <2>6. Closing(p, s)
    BY <2>3, <2>5
  <2>7. \A u \in Sides : Absent(p, u)
    BY <2>4, <2>6, <2>r DEF Closing, Absent
  <2>8. (\A u \in Sides : sock[u] = None) /\ NoneOpen /\ isAgentClosed = "unset"
    BY <2>4, <2>6, <2>7 DEF Closing, Absent
  <2>9. Down(p)'
    BY <2>1, <2>7, <2>8 DEF Down, Absent, Receiver, NoneOpen
  <2>10. Phase(p)' /\ Places(p)'
    BY <1>0, <2>1, <2>8, <2>9 DEF Phase, Places, links
  <2>11. LoginInOrder(p)' /\ TwoSockets'
    BY <1>0, <2>1, <2>8 DEF LoginInOrder, Admitted, Receiver, TwoSockets, links, others
  <2> QED BY <1>0, <2>10, <2>11 DEF InStep
<1> QED BY <1>1, <1>2, <1>3, <1>4, <1>5, <1>6, <1>7, <1>8 DEF MainThread

(* A side whose connection stands and is known to; its receiver may go on     *)
(* from any listening state to another.                                       *)
Serving(p, s) ==
    /\ isAgentClosed = "unset"
    /\ Listening(p, s) /\ Stands(s)
    /\ Half(p) \/ Spawning(p) \/ Up(p)
    /\ s = "agent" => Up(p)

LEMMA ServingGoesOn ==
  ASSUME NEW p, NEW s \in Sides, Serving(p, s), Listening(p, s)',
         Receiver(p, Other(s))' = Receiver(p, Other(s)),
         UNCHANGED <<main, sock, conn, isAgentClosed>>
  PROVE  Phase(p)'
<1>1. Whole' = Whole /\ OpenIsNamed' = OpenIsNamed
      /\ \A q \in Sides : Stands(q)' = Stands(q)
  BY DEF Whole, OpenIsNamed, Stands
<1>2. CASE s = "master"
  <2>1. Absent(p, "agent")' = Absent(p, "agent")
        /\ Listening(p, "agent")' = Listening(p, "agent")
    BY <1>2, SidesFacts DEF Absent, Listening
  <2>2. Half(p)' \/ Spawning(p)' \/ Up(p)'
    BY <1>1, <1>2, <2>1, SidesFacts DEF Serving, Half, Spawning, Up
  <2> QED BY <2>2 DEF Serving, Phase
<1>3. CASE s = "agent"
  <2>1. Listening(p, "master")' = Listening(p, "master")
    BY <1>3, SidesFacts DEF Listening
  <2>2. Up(p)'
    BY <1>1, <1>3, <2>1, SidesFacts DEF Serving, Up
  <2> QED BY <2>2 DEF Serving, Phase
<1> QED BY <1>2, <1>3, SidesFacts

(* Outside the loss of a connection a receiver works only while it serves.    *)
LEMMA WorksWhileServing ==
  ASSUME NEW p, InStep(p), NEW s \in Sides,
         Receiver(p, s).pc \in ReceiverPCs,
         Receiver(p, s).pc \notin {"none", "recv", "lost", "claim", "closeOther",
                                   "own", "closeOwn", "done"}
  PROVE  Serving(p, s)
<1>1. Phase(p)
  BY DEF InStep
<1>2. ASSUME NEW q \in Sides
      PROVE  ~Noticed(p, q) /\ ~Closing(p, q)
  BY SidesFacts DEF Noticed, Closing
<1>3. isAgentClosed = "unset" /\ (Half(p) \/ Spawning(p) \/ Up(p))
  BY <1>1, <1>2 DEF Phase, Down, Absent
<1>4. s = "agent" => Up(p)
  BY <1>3 DEF Half, Spawning, Absent
<1>5. Listening(p, s) /\ Stands(s)
  BY <1>3, <1>4, SidesFacts DEF Half, Spawning, Up, Stands, Whole
<1> QED BY <1>3, <1>4, <1>5 DEF Serving

LEMMA ListensInStep ==
  ASSUME TypeOK, NEW p, InStep(p), NEW s \in Sides, Listens(<<s, p[s]>>)
  PROVE  InStep(p)'
<1> USE DEF links, others, slave, login, center, bounds
<1> DEFINE t == <<s, p[s]>>
           r == [Idle EXCEPT !.pc = "recv", !.on = sock[s]]
<1>1. /\ Receiver(p, s).pc = "top"
      /\ receivers' = [receivers EXCEPT ![t] = r]
      /\ UNCHANGED <<main, sock, conn, isAgentClosed, slave_state, slave_user,
                     inbox, granted>>
  BY DEF Listens, At, Receiver
<1>2. r.pc = "recv" /\ r.on = sock[s]
  BY DEF Idle
<1> HIDE DEF r
<1>3. /\ Receiver(p, s)' = r /\ Receiver(p, Other(s))' = Receiver(p, Other(s))
      /\ Places(p)'
  BY <1>1, StepInPlace
<1>4. Serving(p, s)
  BY <1>1, WorksWhileServing DEF ReceiverPCs
<1>5. Phase(p)'
  <2>1. Listening(p, s)'
    BY <1>1, <1>2, <1>3 DEF Listening
  <2> QED BY <1>1, <1>3, <1>4, <2>1, ServingGoesOn
<1>6. LoginInOrder(p)'
  <2>1. LoginInOrder(p)
    BY DEF InStep
  <2>2. /\ Receiver(p, "master")' = Receiver(p, "master")
             \/ Receiver(p, "master").pc' \notin {"set", "ack"}
        /\ Receiver(p, "agent")' = Receiver(p, "agent")
             \/ Receiver(p, "agent").pc' \notin {"send", "mark"}
    BY <1>2, <1>3, SidesFacts
  <2> QED BY <1>1, <2>1, <2>2, LoginStays
<1> QED BY <1>1, <1>3, <1>5, <1>6 DEF InStep, TwoSockets

LEMMA MasterServerInStep ==
  ASSUME OneAtATime, NEW p, InStep(p), NEW h \in Handles,
         control_masterServer(<<"master", h>>)
  PROVE  InStep(p)'
<1> USE DEF links, others, slave, login, center, bounds
<1> DEFINE t == <<"master", p["master"]>>
           m == Receiver(p, "master")
<1>0. /\ TypeOK /\ "master" \in Sides /\ Phase(p) /\ LoginInOrder(p) /\ Places(p)
      /\ p \in [Sides -> Handles] /\ TwoSockets
      /\ receivers[t] = m
  BY DEF OneAtATime, InStep, Sides, Receiver
<1>r. m \in Receivers /\ receivers \in [Sides \X Handles -> Receivers]
      /\ t \in Sides \X Handles
  BY <1>0 DEF TypeOK, Receiver
<1>h. h = p["master"]
  <2>1. receivers[<<"master", h>>].pc # "none"
    BY DEF control_masterServer, Listens, AckArrives, loginACKHandler, AckTests,
           AckSets, Loses, RecMsgFails, TestsFirst, Claims, ClosesOther, TestsOwn,
           ClosesOwn, Ends, At, Receives
  <2> QED BY <1>0, <2>1, ItsPlace
<1>s. ASSUME NEW r, receivers' = [receivers EXCEPT ![t] = r]
      PROVE  /\ Receiver(p, "master")' = r
             /\ Receiver(p, "agent")' = Receiver(p, "agent")
             /\ Places(p)'
  BY <1>0, <1>s, StepInPlace, SidesFacts
<1>1. CASE Listens(t)
  BY <1>0, <1>1, ListensInStep
<1>2. CASE AckArrives(t)
  <2> DEFINE g == m.on
             a == Head(inbox[g])
             r == [pc |-> "ack", on |-> None, user |-> a.user, ok |-> a.ok]
  <2>1. /\ m.pc = "recv" /\ g \in Handles /\ conn[g] \in {"open", "lost"}
        /\ inbox[g] # <<>> /\ receivers' = [receivers EXCEPT ![t] = r]
        /\ inbox' = [inbox EXCEPT ![g] = Tail(inbox[g])]
        /\ UNCHANGED <<main, sock, conn, isAgentClosed, slave_state, slave_user,
                       granted>>
    BY <1>0, <1>2, <1>r DEF AckArrives, Receives, Receivers
  <2>2. /\ Receiver(p, "master")' = r /\ Receiver(p, "agent")' = Receiver(p, "agent")
        /\ Places(p)'
    BY <1>s, <2>1
  <2>3. Serving(p, "master") /\ g = sock["master"]
    <3>1. ASSUME NEW q \in Sides
          PROVE  ~Noticed(p, q) /\ ~Closing(p, q)
      <4>1. CASE q = "master"
        BY <2>1, <4>1, SidesFacts DEF Noticed, Closing
      <4>2. CASE q = "agent"
        BY <2>1, <4>2, SidesFacts DEF Noticed, Closing
      <4> QED BY <4>1, <4>2, SidesFacts
    <3>2. isAgentClosed = "unset" /\ (Half(p) \/ Spawning(p) \/ Up(p))
      BY <1>0, <2>1, <3>1 DEF Phase, Down, Absent
    <3>3. Listening(p, "master") /\ Stands("master")
      BY <3>2, SidesFacts DEF Half, Spawning, Up, Stands, Whole
    <3> QED BY <2>1, <3>2, <3>3 DEF Serving, Listening
  <2>4. Phase(p)'
    <3>1. Listening(p, "master")'
      BY <2>2 DEF Listening
    <3> QED BY <1>0, <2>1, <2>2, <2>3, <3>1, ServingGoesOn, SidesFacts
  <2>5. LoginInOrder(p)'
    <3>1. inbox[g] \in Seq(Acks) /\ Len(inbox[g]) > 0
      BY <1>0, <2>1 DEF TypeOK
    <3>2. /\ \A i \in DOMAIN inbox[g] : Admitted(inbox[g][i])
      BY <1>0, <2>1, <2>3, HandlesFacts DEF LoginInOrder
    <3>3. Admitted(a)
      BY <3>1, <3>2
    <3>4. \A i \in DOMAIN Tail(inbox[g]) : Admitted(Tail(inbox[g])[i])
      BY <3>1, <3>2
    <3>5. inbox'[g] = Tail(inbox[g])
      BY <1>0, <2>1 DEF TypeOK
    <3> HIDE DEF a
    <3>6. Admitted(Receiver(p, "master"))'
      BY <2>1, <2>2, <3>3 DEF Admitted
    <3>7. sock'["master"] = g /\ granted' = granted
      BY <2>1, <2>3
    <3>8. \A i \in DOMAIN inbox'[sock'["master"]] : Admitted(inbox[sock["master"]][i])'
      BY <3>4, <3>5, <3>7 DEF Admitted
    <3> QED BY <1>0, <2>1, <2>2, <2>3, <3>6, <3>8 DEF LoginInOrder
  <2> QED BY <1>0, <2>1, <2>2, <2>4, <2>5 DEF InStep, TwoSockets
<1>3. CASE AckTests(t)
  <2> DEFINE r == IF slave_state = "LOGINING" /\ slave_user = m.user
                    THEN [m EXCEPT !.pc = "set"] ELSE [Idle EXCEPT !.pc = "top"]
  <2>1. /\ m.pc = "ack" /\ receivers' = [receivers EXCEPT ![t] = r]
        /\ UNCHANGED <<main, sock, conn, isAgentClosed, slave_state, slave_user,
                       inbox, granted>>
    BY <1>0, <1>3 DEF AckTests, At, Goes
  <2>2. \/ r.pc = "top"
        \/ /\ r.pc = "set" /\ r.user = m.user /\ r.ok = m.ok
           /\ slave_state = "LOGINING" /\ slave_user = m.user
    BY <1>r DEF Receivers, Idle
  <2> HIDE DEF r
  <2>3. /\ Receiver(p, "master")' = r /\ Receiver(p, "agent")' = Receiver(p, "agent")
        /\ Places(p)'
    BY <1>s, <2>1
  <2>4. Serving(p, "master")
    BY <1>0, <2>1, WorksWhileServing DEF ReceiverPCs
  <2>5. Phase(p)'
    <3>1. Listening(p, "master")'
      BY <2>2, <2>3 DEF Listening
    <3> QED BY <1>0, <2>1, <2>3, <2>4, <3>1, ServingGoesOn, SidesFacts
  <2>6. LoginInOrder(p)'
    <3>1. Admitted(m)
      BY <1>0, <2>1 DEF LoginInOrder
    <3>2. r.pc \in {"ack", "set"} => Admitted(Receiver(p, "master"))'
      BY <2>1, <2>2, <2>3, <3>1 DEF Admitted
    <3>3. \A i : Admitted(inbox[sock["master"]][i])' = Admitted(inbox[sock["master"]][i])
      BY <2>1 DEF Admitted
    <3> QED BY <1>0, <2>1, <2>2, <2>3, <3>2, <3>3 DEF LoginInOrder
  <2> QED BY <1>0, <2>1, <2>3, <2>5, <2>6 DEF InStep, TwoSockets
<1>4. CASE AckSets(t) \/ Ends(t)
  <2> DEFINE pc == IF m.pc = "set" THEN "top" ELSE "none"
  <2>1. /\ m.pc \in {"set", "done"} /\ Goes(t, pc)
        /\ slave_state' = IF m.pc = "set" /\ m.ok THEN "OPEN_WITH_LOGIN"
                                                   ELSE "OPEN_WITHOUT_LOGIN"
        /\ UNCHANGED <<main, sock, conn, isAgentClosed, slave_user, inbox, granted>>
    BY <1>0, <1>4 DEF AckSets, Ends, At
  <2>2. /\ Receiver(p, "master")' = [Idle EXCEPT !.pc = pc]
        /\ Receiver(p, "agent")' = Receiver(p, "agent") /\ Places(p)'
    BY <1>s, <2>1 DEF Goes
  <2>3. Receiver(p, "master").pc' = pc
    <3> HIDE DEF pc
    <3> QED BY <2>2, IdleAt
  <2>4. Phase(p)'
    <3>1. CASE m.pc = "set"
      <4>1. Serving(p, "master")
        BY <1>0, <3>1, WorksWhileServing DEF ReceiverPCs
      <4>2. Listening(p, "master")'
        BY <2>3, <3>1 DEF Listening
      <4> QED BY <1>0, <2>1, <2>2, <4>1, <4>2, ServingGoesOn, SidesFacts
    <3>2. CASE m.pc = "done"
      <4>1. PICK q \in Sides : Closing(p, q)
        BY <1>0, <3>2, SidesFacts
        DEF Phase, Down, Half, Spawning, Up, Noticed, Listening, Absent
      <4>2. CASE q = "master"
        <5>1. Closing(p, "master")'
          BY <2>1, <2>2, <2>3, <3>2, <4>1, <4>2, SidesFacts DEF Closing, NoneOpen
        <5> QED BY <1>0, <5>1 DEF Phase
      <4>3. CASE q = "agent"
        <5>1. Closing(p, "agent")'
          BY <2>1, <2>2, <2>3, <3>2, <4>1, <4>3, SidesFacts DEF Closing, NoneOpen
        <5> QED BY <5>1, SidesFacts DEF Phase
      <4> QED BY <4>1, <4>2, <4>3, SidesFacts
    <3> QED BY <2>1, <3>1, <3>2
  <2>5. LoginInOrder(p)'
    <3>1. m.pc = "set" /\ m.ok => slave_user \in granted
                                  /\ Receiver(p, "agent").pc \notin {"send", "mark"}
      BY <1>0 DEF LoginInOrder, Admitted
    <3>2. \A i : Admitted(inbox[sock["master"]][i])' = Admitted(inbox[sock["master"]][i])
      BY <2>1 DEF Admitted
    <3> QED BY <1>0, <2>1, <2>2, <2>3, <3>1, <3>2 DEF LoginInOrder
  <2> QED BY <1>0, <2>1, <2>2, <2>4, <2>5 DEF InStep, TwoSockets
<1>5. CASE Loses(t)
  BY <1>0, <1>5, LosesInStep
<1> QED
  BY <1>h, <1>1, <1>2, <1>3, <1>4, <1>5
  DEF control_masterServer, loginACKHandler

LEMMA AgentServerInStep ==
  ASSUME OneAtATime, NEW p, InStep(p), NEW h \in Handles,
         control_agentServer(<<"agent", h>>), quiet'
  PROVE  InStep(p)'
<1> USE DEF links, others, slave, login, center, bounds
<1> DEFINE t == <<"agent", p["agent"]>>
           a == Receiver(p, "agent")
           m == Receiver(p, "master")
<1>0. /\ TypeOK /\ "agent" \in Sides /\ Phase(p) /\ LoginInOrder(p) /\ Places(p)
      /\ p \in [Sides -> Handles] /\ TwoSockets
      /\ receivers[t] = a
  BY DEF OneAtATime, InStep, Sides, Receiver
<1>r. a \in Receivers
  BY <1>0 DEF TypeOK, Receiver
<1>h. h = p["agent"]
  <2>1. receivers[<<"agent", h>>].pc # "none"
    BY DEF control_agentServer, TakesMutex, Listens, loginReqHandler, LoginWaits,
           LoginTests, LoginSends, LoginMarks, LoginAgain, ReleasesMutex, Loses,
           RecMsgFails, TestsFirst, Claims, ClosesOther, TestsOwn, ClosesOwn, At,
           Receives
  <2> QED BY <1>0, <2>1, ItsPlace
<1>s. ASSUME NEW r, receivers' = [receivers EXCEPT ![t] = r]
      PROVE  /\ Receiver(p, "agent")' = r
             /\ Receiver(p, "master")' = m
             /\ Places(p)'
  BY <1>0, <1>s, StepInPlace, SidesFacts
(* A step of a listening receiver that no login is disturbed by.              *)
<1>w. ASSUME NEW r, receivers' = [receivers EXCEPT ![t] = r],
             a.pc \in {"mutex", "first", "test", "send", "mark", "again"},
             r.pc \in {"top", "test", "send", "again", "mark"},
             UNCHANGED <<main, sock, conn, isAgentClosed, inbox, granted>>,
             \/ UNCHANGED <<slave_state, slave_user>>
             \/ a.pc \in {"send", "mark"} /\ slave_state' # "OPEN_WITH_LOGIN",
             r.pc \in {"send", "mark"} => slave_state' = "OPEN_WITHOUT_LOGIN"
      PROVE  InStep(p)'
  <2>1. /\ Receiver(p, "agent")' = r /\ Receiver(p, "master")' = m
        /\ Places(p)'
    BY <1>s, <1>w
  <2>2. Serving(p, "agent")
    BY <1>0, <1>w, WorksWhileServing DEF ReceiverPCs
  <2>3. Phase(p)'
    <3>1. Listening(p, "agent")'
      BY <1>w, <2>1 DEF Listening
    <3> QED BY <1>0, <1>w, <2>1, <2>2, <3>1, ServingGoesOn, SidesFacts
  <2>4. LoginInOrder(p)'
    <3>1. a.pc \in {"send", "mark"} => m.pc # "set"
      BY <1>0 DEF LoginInOrder
    <3>2. \A i : Admitted(inbox[sock["master"]][i])' = Admitted(inbox[sock["master"]][i])
      BY <1>w DEF Admitted
    <3>3. Admitted(Receiver(p, "master"))' = Admitted(m)
      BY <1>w, <2>1 DEF Admitted
    <3> QED BY <1>0, <1>w, <2>1, <3>1, <3>2, <3>3 DEF LoginInOrder
  <2> QED BY <1>0, <1>w, <2>1, <2>3, <2>4 DEF InStep, TwoSockets
<1>1. CASE TakesMutex(t) \/ LoginMarks(t)
  <2> DEFINE r == [Idle EXCEPT !.pc = "top"]
  <2>1. r.pc = "top"
    BY IdleAt
  <2> HIDE DEF r
  <2>2. /\ receivers' = [receivers EXCEPT ![t] = r] /\ a.pc \in {"mutex", "mark"}
        /\ UNCHANGED <<main, sock, conn, isAgentClosed, inbox, granted>>
        /\ \/ UNCHANGED <<slave_state, slave_user>>
           \/ a.pc \in {"send", "mark"} /\ slave_state' # "OPEN_WITH_LOGIN"
    BY <1>0, <1>1 DEF TakesMutex, LoginMarks, Goes, At, r
  <2> QED BY <1>w, <2>1, <2>2
<1>2. CASE Listens(t)
  BY <1>0, <1>2, ListensInStep
<1>3. CASE LoginWaits(t)
  <2> DEFINE r == [a EXCEPT !.pc = "test"]
  <2>1. r.pc = "test"
    BY <1>r DEF Receivers
  <2> HIDE DEF r
  <2>2. /\ receivers' = [receivers EXCEPT ![t] = r] /\ a.pc = "first"
        /\ UNCHANGED <<main, sock, conn, isAgentClosed, inbox, granted>>
        /\ UNCHANGED <<slave_state, slave_user>>
    BY <1>0, <1>3 DEF LoginWaits, At, r
  <2> QED BY <1>w, <2>1, <2>2
<1>4. CASE LoginTests(t)
  <2> DEFINE r == IF slave_state = "OPEN_WITHOUT_LOGIN"
                    THEN [a EXCEPT !.pc = "send"] ELSE [Idle EXCEPT !.pc = "again"]
  <2>1. r.pc = IF slave_state = "OPEN_WITHOUT_LOGIN" THEN "send" ELSE "again"
    BY <1>r DEF Receivers, Idle
  <2> HIDE DEF r
  <2>2. /\ receivers' = [receivers EXCEPT ![t] = r] /\ a.pc = "test"
        /\ UNCHANGED <<main, sock, conn, isAgentClosed, inbox, granted>>
        /\ UNCHANGED <<slave_state, slave_user>>
    BY <1>0, <1>4 DEF LoginTests, At, Goes, r
  <2> QED BY <1>w, <2>1, <2>2
<1>5. CASE LoginSends(t)
  <2> DEFINE r == [Idle EXCEPT !.pc = "mark"]
  <2>1. r.pc = "mark"
    BY IdleAt
  <2> HIDE DEF r
  <2>2. /\ receivers' = [receivers EXCEPT ![t] = r] /\ a.pc = "send"
        /\ UNCHANGED <<main, sock, conn, isAgentClosed, inbox, granted, slave_state>>
    BY <1>0, <1>5 DEF LoginSends, Goes, At, r
  <2>3. slave_state = "OPEN_WITHOUT_LOGIN"
    BY <1>0, <2>2 DEF LoginInOrder
  <2> QED BY <1>w, <2>1, <2>2, <2>3
<1>6. CASE LoginAgain(t)
  <2> DEFINE r == [Idle EXCEPT !.pc = "top"]
  <2>1. r.pc = "top"
    BY IdleAt
  <2> HIDE DEF r
  <2>2. /\ receivers' = [receivers EXCEPT ![t] = r] /\ a.pc = "again"
        /\ UNCHANGED <<main, sock, conn, isAgentClosed, inbox, granted>>
        /\ UNCHANGED <<slave_state, slave_user>>
    BY <1>0, <1>6 DEF LoginAgain, Goes, At, r
  <2> QED BY <1>w, <2>1, <2>2
<1>7. CASE Loses(t)
  BY <1>0, <1>7, LosesInStep
<1>8. CASE ReleasesMutex(t)
  <2>1. /\ a.pc = "done" /\ Goes(t, "none")
        /\ UNCHANGED <<main, sock, conn, isAgentClosed, slave_state, slave_user,
                       inbox, granted>>
    BY <1>0, <1>8 DEF ReleasesMutex, At
  <2>2. /\ Receiver(p, "agent")' = [Idle EXCEPT !.pc = "none"]
        /\ Receiver(p, "master")' = m /\ Places(p)'
    BY <1>s, <2>1 DEF Goes
  <2>3. Receiver(p, "agent").pc' = "none"
    BY <2>2, IdleAt
  <2>4. PICK q \in Sides : Closing(p, q)
    BY <1>0, <2>1, SidesFacts
    DEF Phase, Down, Half, Spawning, Up, Noticed, Listening, Absent
  <2>5. Closing(p, q)'
    <3>1. CASE q = "master"
      BY <2>1, <2>2, <2>3, <2>4, <3>1, SidesFacts DEF Closing, NoneOpen
    <3>2. CASE q = "agent"
      BY <2>1, <2>2, <2>3, <2>4, <3>2, SidesFacts DEF Closing, NoneOpen
    <3> QED BY <3>1, <3>2, SidesFacts
  <2>6. LoginInOrder(p)'
    BY <1>0, <2>1, <2>2, <2>3, LoginStays
  <2> QED BY <1>0, <2>1, <2>2, <2>5, <2>6 DEF InStep, Phase, TwoSockets
<1> QED
  BY <1>h, <1>1, <1>2, <1>3, <1>4, <1>5, <1>6, <1>7, <1>8
  DEF control_agentServer, loginReqHandler

LEMMA LoginArrivesInStep ==
  ASSUME OneAtATime, NEW p, InStep(p), NEW h \in Handles, NEW u \in Users,
         LoginArrives(<<"agent", h>>, u), quiet'
  PROVE  InStep(p)'
<1> USE DEF links, slave, login, center
<1> DEFINE r == [Idle EXCEPT !.pc = "first", !.user = u]
<1>1. /\ TypeOK /\ p \in [Sides -> Handles] /\ Phase(p) /\ LoginInOrder(p)
      /\ "agent" \in Sides /\ TwoSockets
  BY DEF OneAtATime, InStep, Sides
<1>2. /\ receivers[<<"agent", h>>].pc = "recv" /\ Whole
      /\ receivers' = [receivers EXCEPT ![<<"agent", h>>] = r]
      /\ UNCHANGED <<main, sock, conn, isAgentClosed, slave_state, slave_user,
                     inbox, granted>>
  BY DEF LoginArrives, Receives
<1>3. h = p["agent"]
  BY <1>1, <1>2, ItsPlace
<1>4. r.pc = "first"
  BY DEF Idle
<1> HIDE DEF r
<1>5. /\ Receiver(p, "agent")' = r /\ Places(p)'
      /\ Receiver(p, "master")' = Receiver(p, "master")
  BY <1>1, <1>2, <1>3, StepInPlace, SidesFacts
<1>6. Serving(p, "agent")
  <2>1. ASSUME NEW q \in Sides
        PROVE  ~Noticed(p, q) /\ ~Closing(p, q)
    BY <1>2, SidesFacts DEF Noticed, Closing, Whole
  <2>2. Receiver(p, "agent").pc = "recv"
    BY <1>2, <1>3 DEF Receiver
  <2>3. isAgentClosed = "unset" /\ Up(p)
    BY <1>1, <2>1, <2>2, SidesFacts DEF Phase, Down, Half, Spawning, Absent
  <2> QED BY <1>1, <2>3 DEF Serving, Up, Whole, Stands
<1>7. Phase(p)'
  <2>1. Listening(p, "agent")'
    BY <1>4, <1>5 DEF Listening
  <2> QED BY <1>1, <1>2, <1>5, <1>6, <2>1, ServingGoesOn, SidesFacts
<1>8. LoginInOrder(p)'
  BY <1>1, <1>2, <1>4, <1>5, LoginStays
<1> QED BY <1>1, <1>2, <1>5, <1>7, <1>8 DEF InStep, TwoSockets

LEMMA CenterAnswersInStep ==
  ASSUME OneAtATime, NEW p, InStep(p), NEW h \in Handles, NEW u \in Users,
         NEW ok \in BOOLEAN, CenterAnswers(h, u, ok), quiet'
  PROVE  InStep(p)'
<1> USE DEF links, slave, login
<1> DEFINE a == [user |-> u, ok |-> ok]
<1>1. /\ TypeOK /\ p \in [Sides -> Handles] /\ Phase(p) /\ LoginInOrder(p)
      /\ Places(p) /\ TwoSockets
  BY DEF OneAtATime, InStep
<1>2. /\ Whole /\ inbox' = [inbox EXCEPT ![h] = Append(inbox[h], a)]
      /\ granted' = IF ok THEN granted \cup {u} ELSE granted
      /\ UNCHANGED <<main, sock, conn, isAgentClosed, receivers, slave_state,
                     slave_user>>
  BY DEF CenterAnswers
<1>3. \A q \in Sides : ~Noticed(p, q) /\ ~Closing(p, q)
  BY <1>2, SidesFacts DEF Noticed, Closing, Whole
<1>4. Phase(p)'
  <2>1. isAgentClosed = "unset" /\ (Spawning(p) \/ Up(p))
    BY <1>1, <1>2, <1>3, SidesFacts DEF Phase, Down, Half, Whole
  <2>2. (Spawning(p) => Spawning(p)') /\ (Up(p) => Up(p)')
    BY <1>2 DEF Spawning, Up, Whole, OpenIsNamed, Listening, Absent, Receiver
  <2> QED BY <1>2, <2>1, <2>2 DEF Phase
<1>5. LoginInOrder(p)'
  <2> DEFINE g == sock["master"]
  <2>1. g \in Handles /\ inbox[g] \in Seq(Acks)
    BY <1>1, <1>2, SidesFacts DEF Whole, TypeOK
  <2>2. ASSUME NEW b, Admitted(b)
        PROVE  Admitted(b)'
    BY <1>2, <2>2 DEF Admitted
  <2>3. Admitted(a)'
    BY <1>2 DEF Admitted
  <2>4. \A i \in DOMAIN inbox[g] : Admitted(inbox[g][i])
    BY <1>1, <2>1, HandlesFacts DEF LoginInOrder
  <2>5. \A i \in DOMAIN inbox'[g] :
          \/ i \in DOMAIN inbox[g] /\ inbox'[g][i] = inbox[g][i]
          \/ inbox'[g][i] = a
    <3>1. a \in Acks
      BY DEF Acks
    <3>2. inbox'[g] = inbox[g] \/ inbox'[g] = Append(inbox[g], a)
      BY <1>1, <1>2, <2>1 DEF TypeOK
    <3> HIDE DEF a
    <3>3. \A i \in DOMAIN Append(inbox[g], a) :
            \/ i \in DOMAIN inbox[g] /\ Append(inbox[g], a)[i] = inbox[g][i]
            \/ Append(inbox[g], a)[i] = a
      BY <2>1, <3>1
    <3> QED BY <3>2, <3>3
  <2>6. ASSUME NEW i \in DOMAIN inbox'[g]
        PROVE  inbox'[g][i].ok => inbox'[g][i].user \in granted'
    <3>1. CASE i \in DOMAIN inbox[g] /\ inbox'[g][i] = inbox[g][i]
      BY <1>2, <2>4, <3>1 DEF Admitted
    <3>2. CASE inbox'[g][i] = a
      BY <1>2, <3>2
    <3> QED BY <2>5, <3>1, <3>2
  <2>7. /\ sock'["master"] = g /\ granted \subseteq granted'
        /\ \A q : Receiver(p, q)' = Receiver(p, q)
    BY <1>2 DEF Receiver
  <2>8. \A i \in DOMAIN inbox'[sock'["master"]] : Admitted(inbox[sock["master"]][i])'
    BY <2>6, <2>7 DEF Admitted
  <2>9. Admitted(Receiver(p, "master")) => Admitted(Receiver(p, "master"))'
    BY <2>7 DEF Admitted
  <2> QED BY <1>1, <1>2, <2>7, <2>8, <2>9 DEF LoginInOrder
<1> QED BY <1>1, <1>2, <1>4, <1>5 DEF InStep, Places, TwoSockets

(* A loss meets the program at rest: the side that has lost its connection    *)
(* will notice, and nothing the Center has sent is still on its way.          *)
LEMMA LossInStep ==
  ASSUME OneAtATime, NEW p, InStep(p), NEW h \in Handles, Loss(h), quiet'
  PROVE  InStep(p)'
<1> USE DEF slave, login, center
<1>1. /\ TypeOK /\ p \in [Sides -> Handles] /\ Phase(p) /\ LoginInOrder(p)
      /\ Places(p) /\ TwoSockets
      /\ conn \in [Handles -> {"closed", "open", "lost"}]
      /\ sock \in [Sides -> Handles \cup {None}]
      /\ receivers \in [Sides \X Handles -> Receivers]
  BY DEF OneAtATime, InStep, TypeOK
<1>2. /\ Resting /\ conn[h] = "open" /\ conn' = [conn EXCEPT ![h] = "lost"]
      /\ UNCHANGED <<main, sock, isAgentClosed, receivers, slave_state, slave_user,
                     inbox, granted>>
  BY DEF Loss
<1>3. isAgentClosed = "unset" /\ main = "wait" /\ Whole
  BY <1>2 DEF Resting, Settled
<1>4. \A q \in Sides : ~Noticed(p, q) /\ ~Closing(p, q)
  BY <1>3, SidesFacts DEF Noticed, Closing, Whole
<1>5. Up(p)
  BY <1>1, <1>3, <1>4, SidesFacts DEF Phase, Down, Half, Spawning
<1>6. ASSUME NEW q \in Sides
      PROVE  /\ Receiver(p, q).pc = "recv" /\ Receiver(p, q).on = sock[q]
             /\ sock[q] \in Handles /\ conn[sock[q]] = "open"
             /\ inbox[sock[q]] = <<>>
  <2>1. sock[q] \in Handles /\ sock[q] # None /\ conn[sock[q]] = "open"
    BY <1>1, <1>3, <1>6 DEF Whole
  <2>2. PICK k \in Handles : receivers[<<q, k>>].on = sock[q]
    BY <1>2, <1>6 DEF Resting, Settled
  <2>3. receivers[<<q, k>>] \in Receivers
    BY <1>1, <1>6
  <2>4. receivers[<<q, k>>].pc = "recv"
    BY <2>1, <2>2, <2>3 DEF Receivers
  <2>5. k = p[q]
    BY <1>6, <2>4, ItsPlace
  <2>6. AtRest(<<q, k>>)
    BY <1>2, <1>6 DEF Resting
  <2> QED BY <2>1, <2>2, <2>4, <2>5, <2>6 DEF AtRest, Receives, Receiver
<1>7. PICK s \in Sides : sock[s] = h
  BY <1>2, <1>5 DEF Up, OpenIsNamed
<1>8. /\ Other(s) \in Sides /\ Other(s) # s /\ sock[Other(s)] # h
      /\ \A q \in Sides : q = s \/ q = Other(s)
  BY <1>1, <1>3, <1>7, SidesFacts DEF TwoSockets, Whole
<1>9. Noticed(p, s)'
  <2>1. /\ conn'[sock[s]] = "lost" /\ conn'[sock[Other(s)]] = "open"
        /\ \A g \in Handles : conn'[g] = "open" => conn[g] = "open" /\ g # sock[s]
    BY <1>1, <1>2, <1>6, <1>7, <1>8
  <2>2. \A g \in Handles : conn'[g] = "open" => g = sock[Other(s)]
    BY <1>5, <1>8, <2>1 DEF Up, OpenIsNamed
  <2>3. \A q : Receiver(p, q)' = Receiver(p, q)
    BY <1>2 DEF Receiver
  <2> QED BY <1>2, <1>3, <1>6, <1>8, <2>1, <2>2, <2>3, SidesFacts, HandlesFacts
    DEF Noticed, Stands
<1>10. LoginInOrder(p)'
  BY <1>1, <1>2, LoginStays DEF Receiver
<1> QED BY <1>1, <1>2, <1>9, <1>10 DEF InStep, Phase, Places, TwoSockets

LEMMA QuietInvKept ==
  ASSUME QuietInv, [Next]_vars
  PROVE  QuietInv'
<1>1. OneAtATime'
  BY MainThreadKeepsOne, MasterServerKeepsOne, AgentServerKeepsOne,
     EnvironmentKeepsOne DEF Next, QuietInv
<1>2. SUFFICES ASSUME quiet' PROVE \E p : InStep(p)'
  BY <1>1 DEF QuietInv
<1>3. OneAtATime /\ TypeOK
  BY DEF QuietInv, OneAtATime
<1>4. quiet
  <2>1. quiet' = quiet \/ quiet' = FALSE \/ \E c : quiet' = (quiet /\ c)
    <3> USE DEF others, bounds
    <3>1. CASE MainThread
      BY <3>1 DEF MainThread, Repeat, ConnectMaster, ConnectMasterFails,
                  MasterStillThere, ConnectAgent, ConnectAgentFails,
                  StartAgentServer, Register, Restart
    <3>2. ASSUME NEW t, control_masterServer(t)
          PROVE  quiet' = quiet
      BY <3>2 DEF control_masterServer, Listens, AckArrives, loginACKHandler,
                  AckTests, AckSets, Loses, RecMsgFails, TestsFirst, Claims,
                  ClosesOther, Closes, TestsOwn, ClosesOwn, Ends
    <3>3. ASSUME NEW t, control_agentServer(t)
          PROVE  quiet' = quiet \/ quiet' = FALSE
      BY <3>3 DEF control_agentServer, TakesMutex, Listens, loginReqHandler,
                  LoginWaits, LoginTests, LoginSends, LoginMarks, LoginAgain,
                  ReleasesMutex, Loses, RecMsgFails, TestsFirst, Claims,
                  ClosesOther, Closes, TestsOwn, ClosesOwn
    <3>4. ASSUME NEW h \in Handles, NEW u \in Users,
                 LoginArrives(<<"agent", h>>, u)
          PROVE  quiet' = (quiet /\ Whole)
      BY <3>4 DEF LoginArrives
    <3>5. ASSUME NEW h \in Handles, NEW u \in Users, NEW ok \in BOOLEAN,
                 CenterAnswers(h, u, ok)
          PROVE  quiet' = (quiet /\ Whole)
      BY <3>5 DEF CenterAnswers
    <3>6. ASSUME NEW h \in Handles, Loss(h)
          PROVE  quiet' = (quiet /\ Resting)
      BY <3>6 DEF Loss
    <3>7. CASE HeartBeats \/ UNCHANGED vars
      BY <3>7 DEF HeartBeats, vars
    <3> QED BY <3>1, <3>2, <3>3, <3>4, <3>5, <3>6, <3>7 DEF Next
  <2> QED BY <1>2, <1>3, <2>1 DEF TypeOK
<1>5. PICK p : InStep(p)
  BY <1>4 DEF QuietInv
<1>6. CASE HeartBeats \/ UNCHANGED vars
  <2>1. UNCHANGED <<main, links, receivers, slave_state, login, center>>
    BY <1>6 DEF HeartBeats, vars, others, slave
  <2>2. Phase(p)'
    <3>1. UNCHANGED <<main, sock, conn, inbox, isAgentClosed, receivers>>
      BY <2>1 DEF links, center
    <3>2. /\ Down(p) => Down(p)'
          /\ Half(p) => Half(p)'
      BY <3>1 DEF Down, Half, Listening, Absent, Stands, NoneOpen, OpenIsNamed, Receiver
    <3>3. /\ Spawning(p) => Spawning(p)'
          /\ Up(p) => Up(p)'
      BY <3>1 DEF Spawning, Up, Listening, Absent, Stands, Whole, OpenIsNamed, Receiver
    <3>4. ASSUME NEW s \in Sides
          PROVE  /\ Noticed(p, s) => Noticed(p, s)'
                 /\ Closing(p, s) => Closing(p, s)'
      BY <3>1 DEF Noticed, Closing, Stands, NoneOpen, Receiver
    <3>5. Phase(p)
      BY <1>5 DEF InStep
    <3> QED BY <3>1, <3>2, <3>3, <3>4, <3>5 DEF Phase
  <2>3. LoginInOrder(p)'
    BY <1>5, <2>1 DEF links, center, login, InStep, LoginInOrder, Admitted, Receiver
  <2> QED BY <1>5, <2>1, <2>2, <2>3 DEF links, InStep, Places, TwoSockets
<1> QED
  BY <1>2, <1>3, <1>5, <1>6, MainThreadInStep, MasterServerInStep,
     AgentServerInStep, LoginArrivesInStep, CenterAnswersInStep, LossInStep
  DEF Next

LEMMA InitQuiet == Init => QuietInv
<1> SUFFICES ASSUME Init PROVE QuietInv
  OBVIOUS
<1>1. OneAtATime
  <2>1. \A h \in Handles : AgentPC(h) = "none"
    BY DEF Init, AgentPC, Idle, Sides
  <2> QED BY <2>1, InitTypes
    DEF OneAtATime, Alone, MutexTells, TakenBeforeWait, NoneBefore
<1> DEFINE p == [s \in Sides |-> 1]
<1>2. p \in [Sides -> Handles]
  BY TerminalAssumption DEF Handles
<1> HIDE DEF p
<1>3. \A s \in Sides, h \in Handles : receivers[<<s, h>>] = Idle
  BY DEF Init
<1>4. Idle.pc = "none"
  BY DEF Idle
<1>5. \A s \in Sides : Receiver(p, s).pc = "none"
  BY <1>2, <1>3, <1>4 DEF Receiver
<1>6. Down(p) /\ Places(p)
  BY <1>3, <1>4, <1>5 DEF Init, Down, Absent, NoneOpen, Places
<1>7. LoginInOrder(p) /\ TwoSockets
  BY <1>5, SidesFacts DEF Init, LoginInOrder, TwoSockets
<1>8. InStep(p)
  BY <1>2, <1>6, <1>7 DEF Init, InStep, Phase
<1> QED BY <1>1, <1>8 DEF QuietInv

(* Whoever the program is logged in for was admitted by the Center since the  *)
(* connections were last set up: for any number of users, retries and logins, *)
(* and any number of losses that each met the program at rest.                *)
THEOREM TerminalLoginIsGranted == Spec => []LoginIsGranted
<1>1. QuietInv => LoginIsGranted
  BY DEF QuietInv, InStep, LoginInOrder, LoginIsGranted
<1> QED BY <1>1, InitQuiet, QuietInvKept, PTL DEF Spec

(* Two receivers never take turns on the connection to the Center, though the *)
(* main thread starts a new one without waiting for the old one, however      *)
(* often a connection is lost while the program is at rest.                   *)
THEOREM TerminalOneReader == Spec => []OneReader
<1>1. QuietInv => OneReader
  <2> SUFFICES ASSUME QuietInv, quiet, NEW g \in Handles, NEW h \in Handles,
                      g # h, receivers[<<"master", g>>].on # None,
                      receivers[<<"master", g>>].on = receivers[<<"master", h>>].on
               PROVE  FALSE
    BY DEF OneReader
  <2>1. PICK p : InStep(p)
    BY DEF QuietInv
  <2>2. receivers[<<"master", g>>] \in Receivers /\ receivers[<<"master", h>>] \in Receivers
    BY SidesFacts DEF QuietInv, OneAtATime, TypeOK
  <2>3. receivers[<<"master", g>>].pc # "none" /\ receivers[<<"master", h>>].pc # "none"
    BY <2>2 DEF Receivers
  <2> QED BY <2>1, <2>3, ItsPlace, SidesFacts
<1> QED BY <1>1, InitQuiet, QuietInvKept, PTL DEF Spec
=============================================================================
