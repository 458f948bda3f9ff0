---------------------------- MODULE ServiceLink ----------------------------
(***************************************************************************)
(* The application and the service at the two ends of their local socket:  *)
(* VPNServiceManager, which turns what the user asks for into commands and *)
(* shows the state it is told (src/src/application/vpnservicemanager.cpp), *)
(* and QVPNClientConnection, which carries out the commands and forwards   *)
(* what the manager of openvpn says (src/src/service/                      *)
(* qvpnclientconnection.cpp).  The manager itself is ManagerInterface,     *)
(* which OpenvpnManager implements.                                        *)
(*                                                                         *)
(* Both ends are event loops: one command or one notification is one       *)
(* action.  The socket delivers what was written in order, as long as both *)
(* ends live.                                                              *)
(***************************************************************************)
EXTENDS Naturals, Sequences

CONSTANTS
    MaxRequests,  \* bound: what the user asks for
    MaxUnread,    \* bound: notifications the application has not read
    MaxDeaths     \* bound: deaths of the service and of the application

ASSUME BoundsAssumption ==
    /\ MaxRequests \in Nat
    /\ MaxUnread \in Nat
    /\ MaxDeaths \in Nat

VARIABLES
    vpn, said,    \* the manager of openvpn: its state, what it said last
    serving,      \* the service runs and listens
    asked,        \* its manager was asked to start
    credentials,  \* its manager knows the name and the password of the user
    link,         \* the local socket, see Links
    commands,     \* commands the service has not read
    notes,        \* notifications the application has not read
    mState,       \* VPNServiceManager::mState
    mConnected,
    mUserRequestedDisconnect,
    mPortDialogShown,
    listed,       \* a login of this application has asked for the lists of servers
    told,         \* history: this connection was told of a state of the manager
    requests,     \* counters of the bounded inputs: of the user,
    deaths,       \* deaths of the service
    restarts      \* and of the application

managerVars == <<vpn, said>>
serviceVars == <<vpn, said, serving, asked, credentials>>
clientVars == <<mState, mConnected, mUserRequestedDisconnect, mPortDialogShown, listed>>
counters == <<requests, deaths, restarts>>
vars == <<serviceVars, clientVars, link, commands, notes, told, counters>>

Manager == INSTANCE ManagerInterface

VpnStates == Manager!VpnStates

\* Bytes can be written to a socket that is "pending": the service has not yet made
\* a QVPNClientConnection for it.  It is "closed" when the service died and the
\* application has not noticed, "orphan" when it is the other way round.
Links == {"none", "pending", "open", "closed", "orphan"}

\* The commands the application has a use for.  cmdGetStatus, cmdNetdown and
\* cmdKillRunningOpenvpn are sent by functions that nothing calls.
Commands == {"cmdStart", "cmdStop", "cmdSetCredentials"}

Notes == VpnStates \cup {"error", "timedOut"}

\* mInPortLoop is never set (startPortLoop is not reached), so it is no variable.
Init ==
    /\ Manager!Init
    /\ serving = TRUE
    /\ asked = FALSE
    /\ credentials = FALSE
    /\ link = "none"
    /\ commands = <<>>
    /\ notes = <<>>
    /\ mState = "Disconnected"
    /\ mConnected = FALSE
    /\ mUserRequestedDisconnect = FALSE
    /\ mPortDialogShown = FALSE
    /\ listed = FALSE
    /\ told = FALSE
    /\ requests = 0
    /\ deaths = 0
    /\ restarts = 0

-----------------------------------------------------------------------------
(* The application: what the user asks for.                                *)

\* ensureConnected() and sendCommand().  A service that is down is restarted when the
\* user allows it, and the new one knows nothing; one that does not come up in spite of
\* it is reported to the user, and the command dropped.  A command written to a socket
\* the service has left is lost.  RestartRefused is the request that gets no answer.
Send(command) ==
    \/ /\ mConnected
       /\ commands' = IF link = "closed" THEN commands ELSE Append(commands, command)
       /\ UNCHANGED <<serving, link, notes, told, mConnected>>
    \/ /\ ~mConnected
       /\ link = "none"
       /\ serving' = TRUE
       /\ mConnected' = TRUE
       /\ link' = "pending"
       /\ commands' = <<command>>
       /\ notes' = <<>>
       /\ told' = FALSE
    \/ /\ ~mConnected
       /\ ~serving
       /\ UNCHANGED <<serving, link, commands, notes, told, mConnected>>

Request ==
    /\ requests < MaxRequests
    /\ requests' = requests + 1
    /\ UNCHANGED <<vpn, said, asked, credentials, mPortDialogShown, deaths, restarts>>

\* Mutant of SendCredentials: no connection is made for them.
SendCredentialsIfConnected ==
    /\ Request
    /\ listed' = TRUE
    /\ IF mConnected THEN Send("cmdSetCredentials")
       ELSE UNCHANGED <<serving, link, commands, notes, told, mConnected>>
    /\ UNCHANGED <<mState, mUserRequestedDisconnect>>

\* loginFinished() after a login that succeeded.
SendCredentials ==
    /\ Request
    /\ listed' = TRUE
    /\ Send("cmdSetCredentials")
    /\ UNCHANGED <<mState, mUserRequestedDisconnect>>

\* From the window, the tray or the automatic login, in any state, of a user that is
\* logged in; the jump asks for a list of servers only, which a logout leaves.  The
\* state is left to the service to announce.
SendConnectToVPNRequest ==
    /\ Request
    /\ listed
    /\ mUserRequestedDisconnect' = FALSE
    /\ Send("cmdStart")
    /\ UNCHANGED <<mState, listed>>

\* From the window or the tray, and with a logout.
SendDisconnectFromVPNRequest ==
    /\ Request
    /\ mState' = "Disconnecting"
    /\ mUserRequestedDisconnect' = TRUE
    /\ Send("cmdStop")
    /\ UNCHANGED listed

-----------------------------------------------------------------------------
(* The application: notifications (socket_readyRead).                      *)

ReadNote(note) ==
    /\ link \in {"open", "closed"}
    /\ notes # <<>>
    /\ Head(notes) = note
    /\ notes' = Tail(notes)
    /\ UNCHANGED <<serviceVars, mConnected, mUserRequestedDisconnect, listed, link,
                   commands, told, counters>>

NotifyStatusChange(s) ==
    /\ ReadNote(s)
    /\ mState' = s
    /\ UNCHANGED mPortDialogShown

\* The user is asked once for a port; the answer would start the port loop.
NotifyTimeout ==
    /\ ReadNote("timedOut")
    /\ mPortDialogShown' = TRUE
    /\ UNCHANGED mState

NotifyError ==
    /\ ReadNote("error")
    /\ UNCHANGED <<mState, mPortDialogShown>>

\* Mutant of SocketDisconnected: the end of the connection is only noted in the log.
SocketDisconnectedUnnoticed ==
    /\ link = "closed"
    /\ notes = <<>>
    /\ link' = "none"
    /\ commands' = <<>>
    /\ UNCHANGED <<serviceVars, clientVars, notes, told, counters>>

\* The last bytes are read before the socket is reported as disconnected.
SocketDisconnected ==
    /\ link = "closed"
    /\ notes = <<>>
    /\ link' = "none"
    /\ commands' = <<>>
    /\ mConnected' = FALSE
    /\ UNCHANGED <<serviceVars, notes, mState, mUserRequestedDisconnect, mPortDialogShown,
                   listed, told, counters>>

-----------------------------------------------------------------------------
(* The service.                                                            *)

\* The signals of the manager go to a connection that is made; the state words and
\* the addresses it also forwards are left out.
Forward ==
    IF link = "open"
    THEN /\ notes' = notes \o said'
         /\ told' = IF \E i \in DOMAIN said' : said'[i] \in VpnStates THEN TRUE ELSE told
    ELSE UNCHANGED <<notes, told>>

\* QVPNServer::incomingConnection: the new connection says nothing of the state.
IncomingConnection ==
    /\ serving
    /\ link = "pending"
    /\ link' = "open"
    /\ UNCHANGED <<serviceVars, clientVars, commands, notes, told, counters>>

ReadCommand(command) ==
    /\ serving
    /\ link \in {"open", "orphan"}
    /\ commands # <<>>
    /\ Head(commands) = command
    /\ commands' = Tail(commands)
    /\ UNCHANGED <<serving, link, clientVars, counters>>

CmdSetCredentials ==
    /\ ReadCommand("cmdSetCredentials")
    /\ credentials' = TRUE
    /\ UNCHANGED <<vpn, said, asked, notes, told>>

CmdStart ==
    /\ ReadCommand("cmdStart")
    /\ Manager!Start
    /\ asked' = TRUE
    /\ Forward
    /\ UNCHANGED credentials

\* Mutant of CmdStop: no notification while mDisconnectRequested is set.
CmdStopSilently ==
    /\ ReadCommand("cmdStop")
    /\ Manager!Stop
    /\ UNCHANGED <<asked, credentials, notes, told>>

CmdStop ==
    /\ ReadCommand("cmdStop")
    /\ Manager!Stop
    /\ Forward
    /\ UNCHANGED <<asked, credentials>>

\* openvpn, the timers and the network.  A manager that was never asked to start stays
\* Disconnected (QuietUntilStart of OpenvpnManager).
ManagerMoves ==
    /\ serving
    /\ Len(notes) <= MaxUnread
    /\ asked \/ vpn' = "Disconnected"
    /\ \/ Manager!Stay \/ Manager!Move \/ Manager!Retry \/ Manager!Fail
       \/ Manager!TimeOut \/ Manager!CrashTimesOut
    /\ Forward
    /\ UNCHANGED <<serving, asked, credentials, link, commands, clientVars, counters>>

\* The connection of an application that is gone is deleted once it is read.
WorkerDestroyed ==
    /\ serving
    /\ link = "orphan"
    /\ commands = <<>>
    /\ link' = "none"
    /\ UNCHANGED <<serviceVars, clientVars, commands, notes, told, counters>>

-----------------------------------------------------------------------------
(* Deaths.                                                                 *)

\* The unread commands are lost, the last notifications may be.
ServiceDies ==
    /\ serving
    /\ deaths + restarts < MaxDeaths
    /\ deaths' = deaths + 1
    /\ Manager!Die
    /\ serving' = FALSE
    /\ asked' = FALSE
    /\ credentials' = FALSE
    /\ link' = CASE link \in {"pending", "open"} -> "closed"
                 [] link = "orphan" -> "none"
                 [] OTHER -> link
    /\ commands' = <<>>
    /\ \E n \in 0..Len(notes) : notes' = SubSeq(notes, 1, n)
    /\ UNCHANGED <<clientVars, told, requests, restarts>>

\* By the system, not by the application.
ServiceStarts ==
    /\ ~serving
    /\ serving' = TRUE
    /\ UNCHANGED <<vpn, said, asked, credentials, link, commands, notes, clientVars, told,
                   counters>>

\* Nothing the application knows outlives it, and nobody is left to read.
StartsAfresh ==
    /\ notes' = <<>>
    /\ mState' = "Disconnected"
    /\ mConnected' = FALSE
    /\ mUserRequestedDisconnect' = FALSE
    /\ mPortDialogShown' = FALSE
    /\ listed' = FALSE

\* The user is asked for a password to restart the service, and declines: nobody catches
\* what execAsRootLinux throws, which ends the application.
RestartRefused ==
    /\ requests < MaxRequests
    /\ requests' = requests + 1
    /\ ~mConnected
    /\ ~serving
    /\ StartsAfresh
    /\ UNCHANGED <<serviceVars, link, commands, told, deaths, restarts>>

\* The application ends and is started again.  It ends in cleanup(), with a last
\* cmdStop on a connection made for it if there is none, or in a crash without.
ClientRestarts ==
    /\ deaths + restarts < MaxDeaths
    /\ restarts' = restarts + 1
    /\ \E last \in {<<>>, <<"cmdStop">>} :
         \/ /\ link \in {"pending", "open"}
            /\ link' = "orphan"
            /\ commands' = commands \o last
         \/ /\ link = "none"
            /\ serving
            /\ last # <<>>
            /\ link' = "orphan"
            /\ commands' = last
         \/ /\ link \in {"none", "closed"}
            /\ link' = "none"
            /\ UNCHANGED commands
    /\ StartsAfresh
    /\ UNCHANGED <<serviceVars, told, requests, deaths>>

ClientReads ==
    \/ \E s \in VpnStates : NotifyStatusChange(s)
    \/ NotifyTimeout
    \/ NotifyError
    \/ SocketDisconnected

ServiceReads ==
    \/ IncomingConnection
    \/ CmdSetCredentials
    \/ CmdStart
    \/ CmdStop
    \/ WorkerDestroyed

Next ==
    \/ SendCredentials
    \/ SendConnectToVPNRequest
    \/ SendDisconnectFromVPNRequest
    \/ ClientReads
    \/ ServiceReads
    \/ ManagerMoves
    \/ ServiceDies
    \/ ServiceStarts
    \/ RestartRefused
    \/ ClientRestarts

\* Each event loop comes back to a socket that has something to read.
Fairness ==
    /\ WF_vars(ClientReads)
    /\ WF_vars(ServiceReads)

Spec == Init /\ [][Next]_vars
FairSpec == Spec /\ Fairness

-----------------------------------------------------------------------------
(* Properties.                                                             *)

Holds(command) == \E i \in DOMAIN commands : commands[i] = command

ManagerOK ==
    /\ vpn \in VpnStates
    /\ said \in Seq(Notes)
    /\ serving \in BOOLEAN
    /\ asked \in BOOLEAN
    /\ credentials \in BOOLEAN

ClientOK ==
    /\ mState \in VpnStates \cup {"Disconnecting"}
    /\ mConnected \in BOOLEAN
    /\ mConnected <=> link \in {"pending", "open", "closed"}
    /\ mUserRequestedDisconnect \in BOOLEAN
    /\ mPortDialogShown \in BOOLEAN
    /\ listed \in BOOLEAN

QueuesOK ==
    /\ commands \in Seq(Commands)
    /\ notes \in Seq(Notes)

LinkOK ==
    /\ link \in Links
    /\ link \in {"none", "closed"} => commands = <<>>
    /\ link \notin {"open", "closed"} => notes = <<>>
    /\ link \in {"pending", "open", "orphan"} => serving
    /\ told \in BOOLEAN

CountersOK ==
    /\ requests \in 0..MaxRequests
    /\ deaths \in Nat /\ restarts \in Nat
    /\ deaths + restarts <= MaxDeaths

\* The two ends agree on whether there is a connection, the queues of a connection
\* that does not exist are empty, and every variable keeps its type.
TypeOK == ManagerOK /\ ClientOK /\ QueuesOK /\ LinkOK /\ CountersOK

\* Once a connection was told of a state, what the application shows or has yet to
\* read is the state of the manager.  The exception is the Disconnecting of the user:
\* it is shown while the cmdStop is on its way, and for good when the manager was
\* Disconnected already, because setState is silent then.
ShownIsTold ==
    link = "open" /\ told =>
        \/ Manager!Tells(notes, mState, vpn)
        \/ /\ mState = "Disconnecting"
           /\ \A i \in DOMAIN notes : notes[i] \notin VpnStates
           /\ vpn = "Disconnected" \/ Holds("cmdStop")

\* When the manager comes to rest in a state, the application comes to show it, if
\* its connection lives and was told of a state at all.
ShowsTheTruth ==
    \A s \in VpnStates :
        <>[](link = "open" /\ told /\ vpn = s) =>
        <>[](mState = s \/ (s = "Disconnected" /\ mState = "Disconnecting"))

\* A connection is started by a service that was given the name and the password of an
\* account before: nothing overtakes the credentials that a login sends, on whichever
\* connection it sends them, and whatever an application before has left unread.  Only a
\* service that has died is not given them again.
CredentialsFirst == [][CmdStart => credentials \/ deaths > 0]_vars
=============================================================================
