------------------------------ MODULE Terminal ------------------------------
(* The threads of a room's program (Client) and its two connections: one to   *)
(* the Center ("master"), one to the page's server ("agent").  The main thread *)
(* connects both, starts a receiver for each and waits, through a mutex, for   *)
(* the agent's receiver to end; a receiver that loses its connection closes   *)
(* the other one.  The receivers agree on who came first through the variable  *)
(* isAgentClosed, and the main thread does not wait for the master's receiver. *)
EXTENDS Integers, Sequences

CONSTANTS
    MaxHandles,   \* bound: socket handles, and receivers of one side, at a time
    Users,        \* the people who log in at the page
    NoUser,       \* no one
    Retries,      \* repeated logins that are answered before the line is cut
    MaxLosses,    \* bound: connections lost to a peer or to the network
    MaxLogins     \* bound: logins entered at the page

ASSUME TerminalAssumption ==
    /\ MaxHandles \in Nat /\ MaxHandles >= 2
    /\ Retries \in Nat /\ MaxLosses \in Nat /\ MaxLogins \in Nat
    /\ Users # {} /\ NoUser \notin Users

Handles == 1..MaxHandles
None == 0                                  \* m_sock without a connection
Sides == {"master", "agent"}
Other(s) == IF s = "master" THEN "agent" ELSE "master"

VARIABLES
    main,            \* where the main thread is in control_init
    sock,            \* m_sock of masterClient and agentClient
    conn,            \* of each handle, what recv meets on it
    isAgentClosed,   \* which side was lost first: 0 is "master", 1 is "agent"
    mutex,           \* held by a receiver of the agent
    receivers,       \* the threads control_masterServer and control_agentServer
    isFirstTempSubmitSent, slave_state, slave_user, retryTimes,
    asked,           \* logins the Center has still to answer, per connection
    inbox,           \* Login_ACK on the way, per connection
    granted,         \* history: whom the Center admitted since the last repeat
    quiet,           \* history: no loss so far crossed another one, or a login
    losses, logins

links == <<sock, conn, isAgentClosed>>
login == <<slave_user, retryTimes>>
center == <<asked, inbox, granted>>
bounds == <<quiet, losses, logins>>
slave == <<isFirstTempSubmitSent, slave_state, login>>
others == <<slave, center, bounds>>
vars == <<main, links, mutex, receivers, others>>

Idle == [pc |-> "none", on |-> None, user |-> NoUser, ok |-> FALSE]

Acks == [user : Users, ok : BOOLEAN]

ReceiverPCs == {"none", "mutex", "top", "recv", "lost", "claim", "closeOther",
                "own", "closeOwn", "done", "first", "test", "send", "mark",
                "again", "ack", "set"}

\* Just those that wait in recv name a handle, and just those that deal with a
\* login a user.
Receivers ==
    {r \in [pc : ReceiverPCs, on : Handles \cup {None},
            user : Users \cup {NoUser}, ok : BOOLEAN] :
       /\ r.pc = "recv" <=> r.on # None
       /\ r.pc \in {"first", "test", "send", "ack", "set"} <=> r.user # NoUser}

TypeOK ==
    /\ main \in {"repeat", "connect", "repeat1", "connectAgent", "spawn",
                 "reg", "wait"}
    /\ sock \in [Sides -> Handles \cup {None}]
    /\ conn \in [Handles -> {"closed", "open", "lost"}]
    /\ isAgentClosed \in Sides \cup {"unset"}
    /\ mutex \in {"free", "held"}
    /\ receivers \in [Sides \X Handles -> Receivers]
    /\ isFirstTempSubmitSent \in BOOLEAN
    /\ slave_state \in {"OPEN_WITHOUT_LOGIN", "LOGINING", "OPEN_WITH_LOGIN"}
    /\ slave_user \in Users \cup {NoUser}
    /\ retryTimes \in 0..(Retries + 1)
    /\ asked \in [Handles -> SUBSET Users]
    /\ inbox \in [Handles -> Seq(Acks)]
    /\ granted \in SUBSET Users
    /\ quiet \in BOOLEAN
    /\ losses \in 0..MaxLosses /\ logins \in 0..MaxLogins

-----------------------------------------------------------------------------
(* Sockets and threads.                                                       *)

Receives(r) == r.pc = "recv"

\* The handles the system may give out again: closed, and named by no field
\* and no receiver.
Unused ==
    {h \in Handles : /\ conn[h] = "closed"
                     /\ \A s \in Sides : sock[s] # h
                     /\ \A t \in Sides \X Handles : receivers[t].on # h}

\* Any of them: nothing depends on which.
Pick(S) == CHOOSE h \in S : TRUE

\* Connect: a new handle for a side, with nothing on the way.
Open(s) ==
    LET h == Pick(Unused)
    IN  /\ Unused # {}
        /\ sock' = [sock EXCEPT ![s] = h]
        /\ conn' = [conn EXCEPT ![h] = "open"]
        /\ asked' = [asked EXCEPT ![h] = {}]
        /\ inbox' = [inbox EXCEPT ![h] = <<>>]
        /\ UNCHANGED <<isAgentClosed, granted>>

\* closesocket: whoever waits in recv on the handle returns.
Closed(h) == [g \in Handles |-> IF g = h THEN "closed" ELSE conn[g]]

\* CreateThread: a receiver for a side, in a place no thread occupies.
Starts(s, pc) ==
    LET places == {h \in Handles : receivers[<<s, h>>].pc = "none"}
    IN  /\ places # {}
        /\ receivers' = [receivers EXCEPT
                           ![<<s, Pick(places)>>] = [Idle EXCEPT !.pc = pc]]

\* A receiver that can make no step of its own.
AtRest(t) ==
    LET r == receivers[t]
    IN  \/ r.pc = "none"
        \/ r.pc = "top" /\ sock[t[1]] = None
        \/ Receives(r) /\ conn[r.on] = "open" /\ inbox[r.on] = <<>>

\* Both connections stand.
Whole == \A s \in Sides : sock[s] # None /\ conn[sock[s]] = "open"

\* ... and their receivers wait on them.
Settled ==
    /\ main = "wait"
    /\ Whole
    /\ \A s \in Sides : \E h \in Handles : receivers[<<s, h>>].on = sock[s]

\* Settled, and nothing is under way.
Resting ==
    /\ Settled
    /\ isAgentClosed = "unset"
    /\ \A t \in Sides \X Handles : AtRest(t)

-----------------------------------------------------------------------------
(* The main thread, control_init.                                             *)

Init ==
    /\ main = "repeat"
    /\ sock = [s \in Sides |-> None]
    /\ conn = [h \in Handles |-> "closed"]
    /\ isAgentClosed = "unset"
    /\ mutex = "free"
    /\ receivers = [t \in Sides \X Handles |-> Idle]
    /\ isFirstTempSubmitSent = FALSE
    /\ slave_state = "OPEN_WITHOUT_LOGIN"
    /\ slave_user = NoUser
    /\ retryTimes = 0
    /\ asked = [h \in Handles |-> {}]
    /\ inbox = [h \in Handles |-> <<>>]
    /\ granted = {}
    /\ quiet = TRUE
    /\ losses = 0 /\ logins = 0

Repeat ==
    /\ main = "repeat"
    /\ isFirstTempSubmitSent' = FALSE
    /\ slave_state' = "OPEN_WITHOUT_LOGIN"
    /\ granted' = {}
    /\ main' = "connect"
    /\ UNCHANGED <<links, mutex, receivers, login, asked, inbox, bounds>>

ConnectMaster ==
    /\ main = "connect"
    /\ Open("master")
    /\ Starts("master", "top")
    /\ main' = "repeat1"
    /\ UNCHANGED <<mutex, slave, bounds>>

ConnectMasterFails ==
    /\ main = "connect"
    /\ main' = "repeat"
    /\ UNCHANGED <<links, mutex, receivers, others>>

\* Label repeat1: without the Center the page's connection is closed as well.
MasterStillThere ==
    /\ main = "repeat1"
    /\ IF sock["master"] = None
         THEN main' = "repeat" /\ conn' = Closed(sock["agent"])
         ELSE main' = "connectAgent" /\ UNCHANGED conn
    /\ UNCHANGED <<sock, isAgentClosed, mutex, receivers, others>>

ConnectAgent ==
    /\ main = "connectAgent"
    /\ Open("agent")
    /\ main' = "spawn"
    /\ UNCHANGED <<mutex, receivers, slave, bounds>>

ConnectAgentFails ==
    /\ main = "connectAgent"
    /\ main' = "repeat1"
    /\ UNCHANGED <<links, mutex, receivers, others>>

\* The receiver of the agent starts 100 ms after the connection.
StartAgentServer ==
    /\ main = "spawn"
    /\ Starts("agent", "mutex")
    /\ main' = "reg"
    /\ UNCHANGED <<links, mutex, others>>

\* Reg is sent half a second later, when the receiver has taken the mutex.
Register ==
    /\ main = "reg"
    /\ \A h \in Handles : receivers[<<"agent", h>>].pc # "mutex"
    /\ main' = "wait"
    /\ UNCHANGED <<links, mutex, receivers, others>>

\* Mutant of Restart: the main thread does not wait for the mutex.
RestartAtOnce ==
    /\ main = "wait"
    /\ \A t \in Sides \X Handles : AtRest(t)
    /\ main' = "repeat"
    /\ UNCHANGED <<links, mutex, receivers, others>>

\* The mutex is free again; in the half second that follows the receivers make
\* the steps they can make.
Restart ==
    /\ main = "wait"
    /\ mutex = "free"
    /\ \A t \in Sides \X Handles : AtRest(t)
    /\ main' = "repeat"
    /\ UNCHANGED <<links, mutex, receivers, others>>

MainThread ==
    \/ Repeat \/ ConnectMaster \/ ConnectMasterFails \/ MasterStillThere
    \/ ConnectAgent \/ ConnectAgentFails \/ StartAgentServer \/ Register
    \/ Restart

-----------------------------------------------------------------------------
(* A receiver, t = <<side, place>>.  Both sides lose a connection in the same  *)
(* way, with the roles exchanged.                                             *)

At(t, pc) == receivers[t].pc = pc
Goes(t, pc) == receivers' = [receivers EXCEPT ![t] = [Idle EXCEPT !.pc = pc]]

\* RecMsg of a side without a connection returns at once, and the receiver
\* tries again; with one it waits in recv on the handle it has read.
Listens(t) ==
    /\ At(t, "top")
    /\ sock[t[1]] # None
    /\ receivers' = [receivers EXCEPT
                       ![t] = [Idle EXCEPT !.pc = "recv", !.on = sock[t[1]]]]
    /\ UNCHANGED <<main, links, mutex, others>>

\* Mutant of RecMsgFails: a connection that someone closed meanwhile counts as
\* none, and RecMsg returns NoMsg.
RecMsgRetries(t) ==
    /\ Receives(receivers[t])
    /\ conn[receivers[t].on] # "open"
    /\ Goes(t, IF sock[t[1]] = None THEN "top" ELSE "lost")
    /\ UNCHANGED <<main, links, mutex, others>>

RecMsgFails(t) ==
    /\ Receives(receivers[t])
    /\ conn[receivers[t].on] # "open"
    /\ Goes(t, "lost")
    /\ UNCHANGED <<main, links, mutex, others>>

TestsFirst(t) ==
    /\ At(t, "lost")
    /\ Goes(t, IF isAgentClosed # Other(t[1]) THEN "claim" ELSE "own")
    /\ UNCHANGED <<main, links, mutex, others>>

Claims(t) ==
    /\ At(t, "claim")
    /\ isAgentClosed' = t[1]
    /\ Goes(t, "closeOther")
    /\ UNCHANGED <<main, sock, conn, mutex, others>>

Closes(t, s) ==
    /\ conn' = Closed(sock[s])
    /\ sock' = [sock EXCEPT ![s] = None]
    /\ UNCHANGED <<main, isAgentClosed, mutex, others>>

\* Mutant of ClosesOther: the field is cleared before closesocket reads it.
ClosesOtherTooLate(t) ==
    /\ At(t, "closeOther")
    /\ sock' = [sock EXCEPT ![Other(t[1])] = None]
    /\ Goes(t, "own")
    /\ UNCHANGED <<main, conn, isAgentClosed, mutex, others>>

ClosesOther(t) ==
    /\ At(t, "closeOther")
    /\ Closes(t, Other(t[1]))
    /\ Goes(t, "own")

TestsOwn(t) ==
    /\ At(t, "own")
    /\ IF isAgentClosed # Other(t[1])
         THEN Goes(t, "closeOwn") /\ UNCHANGED isAgentClosed
         ELSE Goes(t, "done") /\ isAgentClosed' = "unset"
    /\ UNCHANGED <<main, sock, conn, mutex, others>>

\* Mutant of ClosesOwn: the field is set to INVALID_SOCKET instead of 0.
ClosesOwnInvalid(t) ==
    /\ At(t, "closeOwn")
    /\ conn' = Closed(sock[t[1]])
    /\ sock' = [sock EXCEPT ![t[1]] = -1]
    /\ Goes(t, "done")
    /\ UNCHANGED <<main, isAgentClosed, mutex, others>>

ClosesOwn(t) ==
    /\ At(t, "closeOwn")
    /\ Closes(t, t[1])
    /\ Goes(t, "done")

Loses(t) ==
    \/ RecMsgFails(t) \/ TestsFirst(t) \/ Claims(t)
    \/ ClosesOther(t) \/ TestsOwn(t) \/ ClosesOwn(t)

-----------------------------------------------------------------------------
(* The receiver of the agent: logins from the page.                           *)

TakesMutex(t) ==
    /\ At(t, "mutex")
    /\ mutex = "free"
    /\ mutex' = "held"
    /\ Goes(t, "top")
    /\ UNCHANGED <<main, links, others>>

\* Someone logs in at the page: user u.
LoginArrives(t, u) ==
    /\ Receives(receivers[t])
    /\ conn[receivers[t].on] = "open"
    /\ logins < MaxLogins
    /\ logins' = logins + 1
    /\ receivers' = [receivers EXCEPT
                       ![t] = [Idle EXCEPT !.pc = "first", !.user = u]]
    /\ quiet' = (quiet /\ Whole)
    /\ UNCHANGED <<main, links, mutex, slave, center, losses>>

\* The first Temp_Submit has to be sent before a login is dealt with.
LoginWaits(t) ==
    /\ At(t, "first")
    /\ isFirstTempSubmitSent
    /\ receivers' = [receivers EXCEPT ![t].pc = "test"]
    /\ UNCHANGED <<main, links, mutex, others>>

LoginTests(t) ==
    /\ At(t, "test")
    /\ IF slave_state = "OPEN_WITHOUT_LOGIN"
         THEN receivers' = [receivers EXCEPT ![t].pc = "send"]
         ELSE Goes(t, "again")
    /\ UNCHANGED <<main, links, mutex, others>>

\* SendMsg does nothing without a connection, and fails on one that is lost.
LoginSends(t) ==
    LET h == sock["master"]
        u == receivers[t].user
    IN  /\ At(t, "send")
        /\ slave_user' = u
        /\ asked' = IF h # None /\ conn[h] = "open"
                      THEN [asked EXCEPT ![h] = @ \cup {u}] ELSE asked
        /\ Goes(t, "mark")
        /\ UNCHANGED <<main, links, mutex, isFirstTempSubmitSent, slave_state, retryTimes, inbox,
                   granted, bounds>>

LoginMarks(t) ==
    /\ At(t, "mark")
    /\ slave_state' = "LOGINING"
    /\ Goes(t, "top")
    /\ UNCHANGED <<main, links, mutex, isFirstTempSubmitSent, login,
                   center, bounds>>

\* A login while one is under way: after the last retry the connection to the
\* Center is closed, its field kept.  A login when someone is in is answered
\* to the page alone.
LoginAgain(t) ==
    /\ At(t, "again")
    /\ Goes(t, "top")
    /\ IF slave_state = "LOGINING"
         THEN /\ retryTimes' = IF retryTimes > Retries THEN retryTimes
                               ELSE retryTimes + 1
              /\ IF retryTimes' > Retries
                   THEN conn' = Closed(sock["master"]) /\ quiet' = FALSE
                   ELSE UNCHANGED <<conn, quiet>>
         ELSE UNCHANGED <<conn, retryTimes, quiet>>
    /\ UNCHANGED <<main, sock, isAgentClosed, mutex, isFirstTempSubmitSent, slave_state, slave_user,
                   center, losses, logins>>

loginReqHandler(t) ==
    \/ LoginWaits(t) \/ LoginTests(t) \/ LoginSends(t) \/ LoginMarks(t)
    \/ LoginAgain(t)

ReleasesMutex(t) ==
    /\ At(t, "done")
    /\ mutex' = "free"
    /\ Goes(t, "none")
    /\ UNCHANGED <<main, links, others>>

control_agentServer(t) ==
    TakesMutex(t) \/ Listens(t) \/ loginReqHandler(t) \/ Loses(t)
    \/ ReleasesMutex(t)

-----------------------------------------------------------------------------
(* The receiver of the master: answers of the Center.                         *)

AckArrives(t) ==
    LET h == receivers[t].on
    IN  /\ Receives(receivers[t])
        /\ conn[h] \in {"open", "lost"}
        /\ inbox[h] # <<>>
        /\ receivers' = [receivers EXCEPT
             ![t] = [pc |-> "ack", on |-> None, user |-> Head(inbox[h]).user,
                     ok |-> Head(inbox[h]).ok]]
        /\ inbox' = [inbox EXCEPT ![h] = Tail(@)]
        /\ UNCHANGED <<main, links, mutex, slave, asked, granted, bounds>>

\* An answer counts only for the login that is under way.
AckTests(t) ==
    /\ At(t, "ack")
    /\ IF slave_state = "LOGINING" /\ slave_user = receivers[t].user
         THEN receivers' = [receivers EXCEPT ![t].pc = "set"]
         ELSE Goes(t, "top")
    /\ UNCHANGED <<main, links, mutex, others>>

\* Mutant of AckSets: a refusal is taken for an admission.
AckSetsAnyway(t) ==
    /\ At(t, "set")
    /\ slave_state' = "OPEN_WITH_LOGIN"
    /\ Goes(t, "top")
    /\ UNCHANGED <<main, links, mutex, isFirstTempSubmitSent, login,
                   center, bounds>>

AckSets(t) ==
    /\ At(t, "set")
    /\ slave_state' = IF receivers[t].ok THEN "OPEN_WITH_LOGIN"
                                         ELSE "OPEN_WITHOUT_LOGIN"
    /\ Goes(t, "top")
    /\ UNCHANGED <<main, links, mutex, isFirstTempSubmitSent, login,
                   center, bounds>>

loginACKHandler(t) == AckTests(t) \/ AckSets(t)

Ends(t) ==
    /\ At(t, "done")
    /\ slave_state' = "OPEN_WITHOUT_LOGIN"
    /\ Goes(t, "none")
    /\ UNCHANGED <<main, links, mutex, isFirstTempSubmitSent, login,
                   center, bounds>>

control_masterServer(t) ==
    Listens(t) \/ AckArrives(t) \/ loginACKHandler(t) \/ Loses(t) \/ Ends(t)

-----------------------------------------------------------------------------
(* The heartbeat, the Center and the network.                                 *)

\* A Temp_Submit is sent, on the connection to the Center if there is one.
HeartBeats ==
    /\ ~isFirstTempSubmitSent
    /\ isFirstTempSubmitSent' = TRUE
    /\ UNCHANGED <<main, links, mutex, receivers, slave_state, login,
                   center, bounds>>

CenterAnswers(h, u, ok) ==
    /\ conn[h] = "open"
    /\ u \in asked[h]
    /\ asked' = [asked EXCEPT ![h] = @ \ {u}]
    /\ inbox' = [inbox EXCEPT ![h] = Append(@, [user |-> u, ok |-> ok])]
    /\ granted' = IF ok THEN granted \cup {u} ELSE granted
    /\ quiet' = (quiet /\ Whole)
    /\ UNCHANGED <<main, links, mutex, receivers, slave, losses, logins>>

Loss(h) ==
    /\ conn[h] = "open"
    /\ losses < MaxLosses
    /\ losses' = losses + 1
    /\ conn' = [conn EXCEPT ![h] = "lost"]
    /\ quiet' = (quiet /\ Resting)
    /\ UNCHANGED <<main, sock, isAgentClosed, mutex, receivers, slave,
                   center, logins>>

Next ==
    \/ MainThread
    \/ \E h \in Handles : control_masterServer(<<"master", h>>)
    \/ \E h \in Handles : control_agentServer(<<"agent", h>>)
    \/ \E h \in Handles, u \in Users : LoginArrives(<<"agent", h>>, u)
    \/ HeartBeats
    \/ \E h \in Handles, u \in Users, ok \in BOOLEAN : CenterAnswers(h, u, ok)
    \/ \E h \in Handles : Loss(h)

\* The threads run; a server that is tried again and again is reached at last.
Fairness ==
    /\ WF_vars(MainThread)
    /\ SF_vars(ConnectMaster) /\ SF_vars(ConnectAgent)
    /\ WF_vars(HeartBeats)
    /\ \A h \in Handles : /\ WF_vars(control_masterServer(<<"master", h>>))
                          /\ WF_vars(control_agentServer(<<"agent", h>>))

Spec == Init /\ [][Next]_vars /\ Fairness

-----------------------------------------------------------------------------
(* Properties.                                                                *)

\* The program is logged in only for someone whom the Center admitted since the
\* connections were last set up, as long as every loss met the program at rest
\* (control.cpp:66, 255, 463).
LoginIsGranted ==
    quiet /\ slave_state = "OPEN_WITH_LOGIN" => slave_user \in granted

\* The connections are set up anew only when no receiver of the page's old
\* connection is left (control.cpp:326, 348, 500).
NoOldAgentServer ==
    main \in {"repeat", "connect", "repeat1", "connectAgent", "spawn"}
      => \A h \in Handles : receivers[<<"agent", h>>].pc = "none"

\* Two receivers never take turns on one connection to the Center, as long as
\* every loss met the program at rest (control.cpp:226, 250).
OneReader ==
    quiet => \A g, h \in Handles :
               g # h /\ receivers[<<"master", g>>].on # None
                 => receivers[<<"master", g>>].on # receivers[<<"master", h>>].on

\* After a loss that met the program at rest both connections are set up again
\* (control.cpp:226, 323, 450).
Recovers == []<>(Settled \/ ~quiet)

\* Whenever a connection is lost, both are set up again.
AlwaysRecovers == []<>Settled
=============================================================================
