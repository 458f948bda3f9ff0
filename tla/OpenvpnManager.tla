--------------------------- MODULE OpenvpnManager ---------------------------
(***************************************************************************)
(* The core of the service: the singleton that starts openvpn, follows it  *)
(* through its management socket and its log file, and tells the clients   *)
(* what became of the tunnel (src/src/service/openvpnmanager.cpp, the Unix *)
(* build).                                                                 *)
(*                                                                         *)
(* The service is one Qt event loop: a slot runs to its end before the     *)
(* next one starts, so a slot is one action.  The one exception is a slot  *)
(* that loops over the lines it has just read (socketReadyRead,            *)
(* openvpnLogfileChanged): todo holds the lines of the batch that are      *)
(* still to be parsed, every line is an action, and no other slot runs     *)
(* before the batch is done.  openvpn itself is another process and moves  *)
(* between any two actions.                                                *)
(***************************************************************************)
EXTENDS Naturals, Sequences, FiniteSets

CONSTANTS
    Hosts,       \* VPN servers a client may ask for
    NoHost,      \* mHostname before the first start
    Faults,      \* what the machine may refuse: "ipv6", "obfs", "config", "tmpfile"
    LogLines,    \* lines openvpn may write to its log: "TunErr", "InitCompleted"
    MaxFetches,  \* bound: configuration requests in flight for one server
    MaxPolls,    \* bound: "state" queries openvpn has not answered
    MaxShots,    \* bound: reconnect single shots in flight
    MaxCommands, \* bound: commands of the clients
    MaxCrashes   \* bound: spontaneous deaths of the service

G_Max_Reconnect == 3

ASSUME ConstantsAssumption ==
    /\ NoHost \notin Hosts
    /\ Faults \subseteq {"ipv6", "obfs", "config", "tmpfile"}
    /\ LogLines \subseteq {"TunErr", "InitCompleted"}
    /\ MaxFetches \in Nat \ {0}
    /\ MaxPolls \in Nat \ {0}
    /\ MaxShots \in Nat \ {0}
    /\ MaxCommands \in Nat
    /\ MaxCrashes \in Nat

VARIABLES
    state,         \* mState
    timer,         \* mStateTimer # nullptr: checkState is called every 1.2 s
    socket,        \* mSocket: null, connecting, or connected to openvpn
    watcher,       \* mFileSystemWatcher # nullptr
    mError,        \* mError (mTunError is never set without it)
    prevConnected, \* mPreviousStateWord = "CONNECTED"
    mNetDown,      \* mNetDown
    host,          \* mHostname
    attempt,       \* mReconnectAttempt, up to the limit it is compared with
    reconnect,     \* mReconnect, which nothing initialises
    fetches,       \* configuration requests in flight, by server
    shots,         \* singleShots of reconnectTimeout in flight
    late,          \* more than kTryNextPortSeconds since mStartDateTime
    todo,          \* lines of the current batch that are not parsed yet
    signals,       \* what the last action emitted to the clients, in order
    openvpn,       \* the openvpn process that owns the management port
    openvpnHost,   \* the server its configuration names
    leaving,       \* a line it wrote while it was exiting has been read
    polls,         \* "state" queries written and not answered
    log,           \* the line of the log file that is not read yet
    reported,      \* history: sendError since the last startConnecting
    heard,         \* history: the last state word of this attempt is CONNECTED
    intent,        \* history: what the clients last asked for
    mixed,         \* history: a start left something of another server behind
    commands, crashes \* counters of the bounded inputs

managerVars == <<state, timer, socket, watcher, mError, prevConnected, mNetDown,
                 host, attempt, reconnect>>
pendingVars == <<fetches, shots, late>>
processVars == <<openvpnHost, leaving>>
outsideVars == <<openvpn, processVars, polls, log>>
historyVars == <<reported, heard, intent, mixed, commands, crashes>>
vars == <<managerVars, pendingVars, outsideVars, historyVars, todo, signals>>

States == {"Disconnected", "Connecting", "Connected"}

\* stateChanged, sendError and timedOut.  The signal blockOnDisconnect is left out:
\* nothing is connected to it.
Words == States \cup {"error", "timedOut"}

\* The words a reply to "state" carries, one for each class parseSocketStateWord
\* tells apart: CONNECTING stands for TCP_CONNECT, RECONNECTING, AUTH and
\* ASSIGN_IP, WAIT for GET_CONFIG and for every word it does not know.
StateWords == {"CONNECTED", "CONNECTING", "WAIT", "EXITING", "RESOLVE"}

\* The other lines of the socket: a >HOLD or >PASSWORD:Need 'Auth' query, which
\* are both answered at once; >PASSWORD:Verification Failed; >FATAL about the
\* TUN device; any other >FATAL; and ERROR or FATAL without the >.
SocketLines == StateWords \cup {"QUERY", "AUTHFAIL", "TUNFATAL", "FATAL", "ERROR"}
WatchedLines == {"BindFailed", "TunErr", "InitCompleted"}
Lines == SocketLines \cup WatchedLines

Phases == {"none", "asking", "trying", "up", "exiting"}
Idle == todo = <<>>
Fetching == \E h \in Hosts : fetches[h] > 0
Running == socket # "none" \/ openvpn # "none"

Capped(n, limit) == IF n < limit THEN n + 1 ELSE limit

-----------------------------------------------------------------------------
(* The member functions the slots call.                                    *)

\* Mutant of Emitted: setState without its test.
EmittedAlways(from, to) == <<to>>

\* setState emits only when the state changes.
Emitted(from, to) == IF from = to THEN <<>> ELSE <<to>>

\* Mutant of TimerAfter: every change of the state deletes the timer.
TimerAfterAnyChange(from, to) == timer /\ from = to

\* The timer goes with a change to Disconnected, and only then.
TimerAfter(from, to) == timer /\ ~(from # to /\ to = "Disconnected")

SetState(s) ==
    /\ state' = s
    /\ timer' = TimerAfter(state, s)

DropSocket ==
    /\ socket' = "none"
    /\ polls' = 0

\* connectToOpenvpnSocket on the loopback interface may be refused or accepted
\* within the call, or later.
ConnectOutcomes(phase) ==
    {"none", "opening"} \cup (IF phase = "none" THEN {} ELSE {"connected"})

\* SIGTERM is written to a socket that is connected and to no other; stop() then
\* waits for up to a second, and openvpn may or may not be gone by then.
Signalled(s, phase) ==
    IF s = "connected" /\ phase # "none" THEN {"exiting", "none"} ELSE {phase}

\* Mutant of StopTunnel: the log watcher is left to the next start.
StopTunnelOnly ==
    /\ openvpn' \in Signalled(socket, openvpn)
    /\ DropSocket
    /\ UNCHANGED watcher

\* What stop() does apart from the state and the timer.
StopTunnel ==
    /\ openvpn' \in Signalled(socket, openvpn)
    /\ DropSocket
    /\ watcher' = FALSE

Stop ==
    /\ StopTunnel
    /\ SetState("Disconnected")

\* startConnecting() for server h, called in state from with mError = err: before
\* it the slot emitted sofar, after it then.  The caller sets the state.  The
\* fault "ipv6" stands for IPv6 to be disabled and setIPv6 throwing: the call
\* returns before getOvpn().
StartConnecting(h, from, err, sofar, then) ==
    \E faulty \in SUBSET (Faults \cap {"ipv6", "obfs"}) :
        LET aborts == "ipv6" \in faulty
            errors == (IF "obfs" \in faulty THEN <<"error">> ELSE <<>>)
                      \o (IF aborts THEN <<"error">> ELSE <<>>)
        IN /\ mError' = (aborts /\ err)
           /\ fetches' = IF aborts THEN fetches
                         ELSE [fetches EXCEPT ![h] = Capped(@, MaxFetches)]
           /\ reported' = (faulty # {})
           /\ signals' = sofar \o Emitted(from, "Connecting") \o errors \o then

-----------------------------------------------------------------------------
\* The constructor leaves mReconnect, mError and mReconnectAttempt as they come.
\* The last two are always set before they are read; mReconnect never is.
Init ==
    /\ state = "Disconnected"
    /\ timer = FALSE
    /\ socket = "none"
    /\ watcher = FALSE
    /\ mError = FALSE
    /\ prevConnected = FALSE
    /\ mNetDown = FALSE
    /\ host = NoHost
    /\ attempt = 0
    /\ reconnect \in BOOLEAN
    /\ fetches = [h \in Hosts |-> 0]
    /\ shots = 0
    /\ late = FALSE
    /\ todo = <<>>
    /\ signals = <<>>
    /\ openvpn = "none"
    /\ openvpnHost = NoHost
    /\ leaving = FALSE
    /\ polls = 0
    /\ log = "none"
    /\ reported = FALSE
    /\ heard = FALSE
    /\ intent = "quiet"
    /\ mixed = FALSE
    /\ commands = 0
    /\ crashes = 0

-----------------------------------------------------------------------------
(* Commands of the clients (QVPNClientConnection::socket_readyRead).       *)

Command ==
    /\ Idle
    /\ commands < MaxCommands
    /\ commands' = commands + 1
    /\ UNCHANGED <<prevConnected, reconnect, shots, late, todo, processVars, log,
                   heard, crashes>>

\* Mutant of CmdStart: startConnecting() before the parameters are stored.
CmdStartWithOldServer(h) ==
    /\ Command
    /\ StopTunnel
    /\ timer' = TimerAfter(state, "Disconnected")
    /\ host' = h
    /\ attempt' = 0
    /\ state' = "Connecting"
    /\ StartConnecting(host, "Disconnected", mError, Emitted(state, "Disconnected"), <<>>)
    /\ intent' = "up"
    /\ mixed' = \/ mixed
                \/ openvpn' # "none" /\ openvpnHost # h
                \/ \E g \in Hosts \ {h} : fetches[g] > 0
    /\ UNCHANGED mNetDown

\* Mutant of CmdStart: what there was ends without a change of the state.
CmdStartUnannounced(h) ==
    /\ Command
    /\ StopTunnel
    /\ host' = h
    /\ attempt' = 0
    /\ state' = "Connecting"
    /\ StartConnecting(h, state, mError, <<>>, <<>>)
    /\ intent' = "up"
    /\ UNCHANGED <<timer, mNetDown, mixed>>

\* cmdStart.  On Unix netDown(false) does nothing; the stop() of a connected
\* manager and the stop() in start() come to one.
CmdStart(h) ==
    /\ Command
    /\ StopTunnel
    /\ timer' = TimerAfter(state, "Disconnected")
    /\ host' = h
    /\ attempt' = 0
    /\ state' = "Connecting"
    /\ StartConnecting(h, "Disconnected", mError, Emitted(state, "Disconnected"), <<>>)
    /\ intent' = "up"
    /\ mixed' = \/ mixed
                \/ openvpn' # "none" /\ openvpnHost # h
                \/ \E g \in Hosts \ {h} : fetches[g] > 0
    /\ UNCHANGED mNetDown

\* cmdStop.  The stop is quiet when it leaves nothing that could act later.
CmdStop ==
    /\ Command
    /\ Stop
    /\ signals' = Emitted(state, "Disconnected")
    /\ intent' = IF Fetching \/ shots > 0 \/ timer' THEN "down" ELSE "quiet"
    /\ UNCHANGED <<mError, mNetDown, host, attempt, fetches, reported, mixed>>

\* cmdNetdown, the kill switch of the client; setRights() may throw here too.
CmdNetdown ==
    /\ Command
    /\ mNetDown' \in (IF "tmpfile" \in Faults THEN {mNetDown, TRUE} ELSE {TRUE})
    /\ signals' = <<>>
    /\ UNCHANGED <<state, timer, socket, watcher, mError, host, attempt, fetches,
                   openvpn, polls, reported, intent, mixed>>

\* cmdKillRunningOpenvpn: attach, stop, and kill -9 when the process id is known.
CmdKillRunningOpenvpn ==
    /\ Command
    /\ Running
    /\ \E s \in ConnectOutcomes(openvpn) :
         openvpn' \in Signalled(s, openvpn) \cup {"none"}
    /\ DropSocket
    /\ watcher' = FALSE
    /\ SetState("Disconnected")
    /\ signals' = Emitted(state, "Disconnected")
    /\ UNCHANGED <<mError, mNetDown, host, attempt, fetches, reported, intent, mixed>>

-----------------------------------------------------------------------------
(* The configuration of a server arrives, or does not (getOvpnError,       *)
(* getOvpnFinished, continueConnecting).  Nothing asks whether the client  *)
(* still wants it.                                                         *)

\* Mutant of Fetched: a reply is handled that was handled before.
FetchedAgain(h) ==
    /\ Idle
    /\ fetches' = [fetches EXCEPT ![h] = @ - 1]
    /\ UNCHANGED <<mError, prevConnected, mNetDown, host, attempt, reconnect, shots,
                   todo, intent, mixed, commands, crashes>>

Fetched(h) ==
    /\ Idle
    /\ fetches[h] > 0
    /\ fetches' = [fetches EXCEPT ![h] = @ - 1]
    /\ UNCHANGED <<mError, prevConnected, mNetDown, host, attempt, reconnect, shots,
                   todo, intent, mixed, commands, crashes>>

\* Both slots run for one failed reply, and both stop.
FetchFailed(h) ==
    /\ Fetched(h)
    /\ Stop
    /\ signals' = <<"error">> \o Emitted(state, "Disconnected")
    /\ reported' = TRUE
    /\ UNCHANGED <<late, processVars, log, heard>>

\* writeConfigFile() fails: continueConnecting returns with the state as it is.
ConfigNotWritten(h) ==
    /\ "config" \in Faults
    /\ Fetched(h)
    /\ signals' = <<"error">>
    /\ reported' = TRUE
    /\ UNCHANGED <<state, timer, socket, watcher, late, outsideVars, heard>>

\* The temporary file or setRights() throws.
NotLaunched(h) ==
    /\ "tmpfile" \in Faults
    /\ Fetched(h)
    /\ SetState("Disconnected")
    /\ signals' = <<"error">> \o Emitted(state, "Disconnected")
    /\ reported' = TRUE
    /\ UNCHANGED <<socket, watcher, late, outsideVars, heard>>

\* openvpn is executed, with the log file truncated.  It may give up at once, and
\* does so with a line in the log when another openvpn has the management port.
Launched(h) ==
    /\ Fetched(h)
    /\ \/ /\ openvpn = "none"
          /\ openvpn' \in {"asking", "none"}
          /\ openvpnHost' = h
          /\ leaving' = FALSE
          /\ log' = "none"
       \/ /\ openvpn # "none"
          /\ log' = "BindFailed"
          /\ UNCHANGED <<openvpn, processVars>>
    /\ heard' = FALSE
    /\ socket' \in ConnectOutcomes(openvpn')
    /\ polls' = 0
    /\ watcher' \in (IF openvpn' = "none" THEN {watcher, TRUE} ELSE {TRUE})
    /\ late' = FALSE
    /\ timer' = TRUE
    /\ signals' = <<>>
    /\ UNCHANGED <<state, reported>>

-----------------------------------------------------------------------------
(* checkState, every 1.2 s while the timer exists.                         *)

Check ==
    /\ Idle
    /\ timer
    /\ UNCHANGED <<prevConnected, mNetDown, host, attempt, reconnect, shots, todo,
                   processVars, log, heard, intent, mixed, commands, crashes>>

\* Mutant of TimedOut: the clock is read only when openvpn does not run.
TimedOutNotRunning == state = "Connecting" /\ late /\ ~Running

TimedOut == state = "Connecting" /\ late

CheckConnects ==
    /\ Check
    /\ ~TimedOut
    /\ socket = "none"
    /\ openvpn # "none"
    /\ socket' \in ConnectOutcomes(openvpn)
    /\ polls' = 0
    /\ signals' = <<>>
    /\ UNCHANGED <<state, timer, watcher, mError, fetches, late, openvpn, reported>>

CheckPolls ==
    /\ Check
    /\ ~TimedOut
    /\ socket = "connected"
    /\ polls' = Capped(polls, MaxPolls)
    /\ signals' = <<>>
    /\ UNCHANGED <<state, timer, socket, watcher, mError, fetches, late, openvpn,
                   reported>>

\* openvpn is gone and nobody stopped it; the log watcher stays.
CheckFindsCrash ==
    /\ Check
    /\ ~Running
    /\ state = "Connected"
    /\ ~reconnect
    /\ SetState("Disconnected")
    /\ signals' = <<"Disconnected">>
    /\ UNCHANGED <<socket, watcher, mError, fetches, late, openvpn, polls, reported>>

\* The same with mReconnect: startConnecting(), and then the clock, which was
\* last set when openvpn was launched, decides whether that is stopped at once.
CheckReconnects ==
    /\ Check
    /\ ~Running
    /\ state = "Connected"
    /\ reconnect
    /\ \/ /\ ~late
          /\ state' = "Connecting"
          /\ StartConnecting(host, state, mError, <<>>, <<>>)
          /\ UNCHANGED <<timer, watcher, late>>
       \/ /\ late
          /\ state' = "Disconnected"
          /\ StartConnecting(host, state, mError, <<>>, <<"Disconnected", "timedOut">>)
          /\ timer' = FALSE
          /\ watcher' = FALSE
          /\ late' = FALSE
    /\ UNCHANGED <<socket, openvpn, polls>>

\* A minute of Connecting: stop() and timedOut().  The same call may have attached
\* to openvpn just before.
CheckTimesOut ==
    /\ Check
    /\ TimedOut
    /\ \E s \in (IF socket = "none" /\ openvpn # "none"
                 THEN ConnectOutcomes(openvpn) ELSE {socket}) :
         openvpn' \in Signalled(s, openvpn)
    /\ DropSocket
    /\ watcher' = FALSE
    /\ SetState("Disconnected")
    /\ late' = FALSE
    /\ signals' = <<"Disconnected", "timedOut">>
    /\ UNCHANGED <<mError, fetches, reported>>

CheckIdles ==
    /\ Check
    /\ ~TimedOut
    /\ \/ socket = "opening"
       \/ ~Running /\ state # "Connected"
    /\ signals' = <<>>
    /\ UNCHANGED <<state, timer, socket, watcher, mError, fetches, late, openvpn, polls,
                   reported>>

CheckState ==
    \/ CheckConnects \/ CheckPolls \/ CheckFindsCrash \/ CheckReconnects
    \/ CheckTimesOut \/ CheckIdles

\* The single shot of startReconnectTimer.  openvpn still running is given two
\* more rounds of 200 ms; the count is of the whole start, not of this shot.
ReconnectTimeout ==
    /\ Idle
    /\ shots > 0
    /\ attempt' = Capped(attempt, G_Max_Reconnect)
    /\ \/ /\ Running
          /\ attempt' < G_Max_Reconnect
          /\ signals' = <<>>
          /\ UNCHANGED <<state, timer, socket, watcher, mError, fetches, shots,
                         openvpn, polls, reported>>
       \/ /\ Running
          /\ attempt' = G_Max_Reconnect
          /\ StopTunnel
          /\ timer' = TimerAfter(state, "Disconnected")
          /\ state' = "Connecting"
          /\ StartConnecting(host, "Disconnected", mError, Emitted(state, "Disconnected"), <<>>)
          /\ shots' = shots - 1
       \/ /\ ~Running
          /\ state' = "Connecting"
          /\ StartConnecting(host, state, mError, <<>>, <<>>)
          /\ shots' = shots - 1
          /\ UNCHANGED <<timer, socket, watcher, openvpn, polls>>
    /\ UNCHANGED <<prevConnected, mNetDown, host, reconnect, late, todo, processVars,
                   log, heard, intent, mixed, commands, crashes>>

-----------------------------------------------------------------------------
(* The management socket and the log file.                                 *)

SocketConnected ==
    /\ Idle
    /\ socket = "opening"
    /\ openvpn # "none"
    /\ socket' = "connected"
    /\ signals' = <<>>
    /\ UNCHANGED <<state, timer, watcher, mError, prevConnected, mNetDown, host, attempt,
                   reconnect, pendingVars, outsideVars, historyVars, todo>>

\* socketError: the connection is refused, or openvpn closed it.
SocketError ==
    /\ Idle
    /\ socket = "opening" \/ (socket = "connected" /\ openvpn = "none")
    /\ DropSocket
    /\ signals' = <<>>
    /\ UNCHANGED <<state, timer, watcher, mError, prevConnected, mNetDown, host, attempt,
                   reconnect, pendingVars, openvpn, processVars, log, historyVars, todo>>

\* What openvpn may say in each phase, and the phases it may have been in when it
\* wrote an earlier line of the same batch: once it is heard leaving, no other.
Says(phase) ==
    CASE phase = "asking"  -> {"QUERY", "CONNECTING"}
      [] phase = "trying"  -> {"CONNECTING", "WAIT", "RESOLVE", "AUTHFAIL", "ERROR"}
      [] phase = "up"      -> {"CONNECTED", "ERROR"}
      [] phase = "exiting" -> {"EXITING", "FATAL", "TUNFATAL", "AUTHFAIL"}
      [] OTHER             -> {}

Earlier(phase) ==
    IF leaving THEN {phase}
    ELSE CASE phase = "asking" -> {"asking", "trying"}
           [] phase = "up"     -> {"trying", "up"}
           [] OTHER            -> {"asking", "trying", "up", phase}

\* Bound: batches of at most two lines.
Batches(phase) ==
    {<<line>> : line \in Says(phase)} \cup
    {<<first, last>> : first \in UNION {Says(p) : p \in Earlier(phase)},
                       last \in Says(phase)}

Replies(batch) == Cardinality({i \in DOMAIN batch : batch[i] \in StateWords})

\* socketReadyRead reads all there is and parses it line by line.
SocketReadyRead ==
    /\ Idle
    /\ socket = "connected"
    /\ \E batch \in Batches(openvpn) :
         /\ Replies(batch) <= polls
         /\ todo' = batch
         /\ polls' = polls - Replies(batch)
    /\ leaving' = (openvpn = "exiting")
    /\ signals' = <<>>
    /\ UNCHANGED <<managerVars, pendingVars, openvpn, openvpnHost, log, historyVars>>

\* openvpnLogfileChanged reads nothing while mError is set.
OpenvpnLogfileChanged ==
    /\ Idle
    /\ watcher
    /\ ~mError
    /\ log # "none"
    /\ todo' = <<log>>
    /\ log' = "none"
    /\ signals' = <<>>
    /\ UNCHANGED <<managerVars, pendingVars, openvpn, processVars, polls, historyVars>>

-----------------------------------------------------------------------------
(* One line of a batch (parseSocketLine, parseOpenvpnLogLine).             *)

Parse(line) ==
    /\ ~Idle
    /\ Head(todo) = line
    /\ todo' = Tail(todo)
    /\ UNCHANGED <<mNetDown, host, attempt, reconnect, late, processVars, log, intent,
                   mixed, commands, crashes>>

StateWord(word) ==
    /\ Parse(word)
    /\ prevConnected' = (word = "CONNECTED")
    /\ heard' = (word = "CONNECTED")
    /\ UNCHANGED <<mError, fetches>>

\* CONNECTED counts only when the previous state word was another one.
ConnectedWord ==
    /\ StateWord("CONNECTED")
    /\ SetState(IF prevConnected THEN state ELSE "Connected")
    /\ signals' = Emitted(state, state')
    /\ UNCHANGED <<socket, watcher, shots, openvpn, polls, reported>>

ConnectingWord ==
    /\ StateWord("CONNECTING")
    /\ SetState("Connecting")
    /\ signals' = Emitted(state, "Connecting")
    /\ UNCHANGED <<socket, watcher, shots, openvpn, polls, reported>>

WaitWord ==
    /\ StateWord("WAIT")
    /\ signals' = <<>>
    /\ UNCHANGED <<state, timer, socket, watcher, shots, openvpn, polls, reported>>

ExitingWord ==
    /\ StateWord("EXITING")
    /\ shots' = IF reconnect THEN Capped(shots, MaxShots) ELSE shots
    /\ SetState(IF reconnect THEN "Connecting" ELSE "Disconnected")
    /\ signals' = Emitted(state, state')
    /\ UNCHANGED <<socket, watcher, openvpn, polls, reported>>

ResolveWord ==
    /\ StateWord("RESOLVE")
    /\ \/ /\ mNetDown
          /\ Stop
          /\ signals' = Emitted(state, "Disconnected") \o <<"error">>
          /\ reported' = TRUE
       \/ /\ ~mNetDown
          /\ signals' = <<>>
          /\ UNCHANGED <<state, timer, socket, watcher, openvpn, polls, reported>>
    /\ UNCHANGED shots

OtherLine(line) ==
    /\ Parse(line)
    /\ heard' = (heard /\ line \notin {"TUNFATAL", "TunErr", "BindFailed"})
    /\ UNCHANGED <<prevConnected, shots>>

\* The answer lets openvpn go on, to its next query or to the server.
QueryLine ==
    /\ OtherLine("QUERY")
    /\ socket # "none"
    /\ openvpn' \in (IF openvpn = "asking" THEN {"asking", "trying"} ELSE {openvpn})
    /\ signals' = <<>>
    /\ UNCHANGED <<state, timer, socket, watcher, mError, fetches, polls, reported>>

AuthFailedLine ==
    /\ OtherLine("AUTHFAIL")
    /\ mError' = TRUE
    /\ DropSocket
    /\ SetState("Disconnected")
    /\ signals' = Emitted(state, "Disconnected") \o <<"error">>
    /\ reported' = TRUE
    /\ UNCHANGED <<watcher, fetches, openvpn>>

\* cancel()
FatalLine ==
    /\ OtherLine("FATAL")
    /\ mError' = TRUE
    /\ Stop
    /\ signals' = Emitted(state, "Disconnected") \o <<"error">>
    /\ reported' = TRUE
    /\ UNCHANGED fetches

ErrorLine ==
    /\ OtherLine("ERROR")
    /\ DropSocket
    /\ signals' = <<"error">>
    /\ reported' = TRUE
    /\ UNCHANGED <<state, timer, watcher, mError, fetches, openvpn>>

\* gotTunErr, from the socket or from the log: the flags it sets are cleared by the
\* startConnecting it calls, and openvpn is not stopped.
TunErrorLine ==
    /\ OtherLine("TUNFATAL") \/ OtherLine("TunErr")
    /\ \/ /\ ~mError
          /\ state' = "Connecting"
          /\ StartConnecting(host, state, TRUE, <<>>, <<>>)
       \/ /\ mError
          /\ signals' = <<>>
          /\ UNCHANGED <<state, mError, fetches, reported>>
    /\ UNCHANGED <<timer, socket, watcher, openvpn, polls>>

BindFailedLine ==
    /\ OtherLine("BindFailed")
    /\ state' = "Connecting"
    /\ StartConnecting(host, state, mError, <<>>, <<>>)
    /\ UNCHANGED <<timer, socket, watcher, openvpn, polls>>

InitCompletedLine ==
    /\ OtherLine("InitCompleted")
    /\ SetState("Connected")
    /\ signals' = Emitted(state, "Connected")
    /\ UNCHANGED <<socket, watcher, mError, fetches, openvpn, polls, reported>>

ParseLine ==
    \/ ConnectedWord \/ ConnectingWord \/ WaitWord \/ ExitingWord \/ ResolveWord
    \/ QueryLine \/ AuthFailedLine \/ FatalLine \/ ErrorLine
    \/ TunErrorLine \/ BindFailedLine \/ InitCompletedLine

-----------------------------------------------------------------------------
(* The service dies and is started again: a new manager, the same openvpn. *)

Restarted(phases) ==
    /\ state' = "Disconnected"
    /\ timer' = FALSE
    /\ socket' = "none"
    /\ watcher' = FALSE
    /\ mError' = FALSE
    /\ prevConnected' = FALSE
    /\ mNetDown' = FALSE
    /\ host' = NoHost
    /\ attempt' = 0
    /\ reconnect' \in BOOLEAN
    /\ fetches' = [h \in Hosts |-> 0]
    /\ shots' = 0
    /\ late' = FALSE
    /\ todo' = <<>>
    /\ signals' = <<>>
    /\ openvpn' \in phases
    /\ polls' = 0
    /\ log' = "none"
    /\ reported' = FALSE
    /\ intent' = "quiet"
    /\ UNCHANGED <<processVars, heard, mixed, commands>>

\* With or without the stop() of the destructor.
ServiceRestarts ==
    /\ crashes < MaxCrashes
    /\ crashes' = crashes + 1
    /\ Restarted({openvpn} \cup Signalled(socket, openvpn))

\* A query in a batch whose earlier line dropped mSocket is answered through a
\* null pointer.
QueryCrashes ==
    /\ ~Idle
    /\ Head(todo) = "QUERY"
    /\ socket = "none"
    /\ Restarted({openvpn})
    /\ UNCHANGED crashes

-----------------------------------------------------------------------------
(* The world outside the service.                                          *)

Successors(phase) ==
    CASE phase = "asking"  -> {"exiting", "none"}
      [] phase = "trying"  -> {"up", "asking", "exiting", "none"}
      [] phase = "up"      -> {"trying", "exiting", "none"}
      [] phase = "exiting" -> {"none"}
      [] OTHER             -> {}

OpenvpnMoves ==
    /\ openvpn' \in Successors(openvpn)
    /\ UNCHANGED <<managerVars, pendingVars, processVars, polls, log, historyVars, todo,
                   signals>>

OpenvpnLogs ==
    /\ log = "none"
    /\ log' \in LogLines
    /\ openvpn = (IF log' = "TunErr" THEN "trying" ELSE "up")
    /\ UNCHANGED <<managerVars, pendingVars, openvpn, processVars, polls, historyVars,
                   todo, signals>>

TimePasses ==
    /\ timer
    /\ ~late
    /\ late' = TRUE
    /\ UNCHANGED <<managerVars, fetches, shots, outsideVars, historyVars, todo, signals>>

Next ==
    \/ \E h \in Hosts : CmdStart(h)
    \/ CmdStop
    \/ CmdNetdown
    \/ CmdKillRunningOpenvpn
    \/ \E h \in Hosts : FetchFailed(h)
    \/ \E h \in Hosts : ConfigNotWritten(h)
    \/ \E h \in Hosts : NotLaunched(h)
    \/ \E h \in Hosts : Launched(h)
    \/ CheckState
    \/ ReconnectTimeout
    \/ SocketConnected
    \/ SocketError
    \/ SocketReadyRead
    \/ OpenvpnLogfileChanged
    \/ ParseLine
    \/ ServiceRestarts
    \/ QueryCrashes
    \/ OpenvpnMoves
    \/ OpenvpnLogs
    \/ TimePasses

\* A slot that has begun its loop over the lines ends it; Qt serves the timers on
\* every turn of its loop, however busy the sockets are; time goes by.
Fairness ==
    /\ WF_vars(ParseLine \/ QueryCrashes)
    /\ SF_vars(CheckState)
    /\ WF_vars(TimePasses)

Spec == Init /\ [][Next]_vars
FairSpec == Spec /\ Fairness

-----------------------------------------------------------------------------
(* Properties.                                                             *)

FlagsOK ==
    /\ timer \in BOOLEAN
    /\ watcher \in BOOLEAN
    /\ mError \in BOOLEAN
    /\ prevConnected \in BOOLEAN
    /\ mNetDown \in BOOLEAN
    /\ reconnect \in BOOLEAN
    /\ late \in BOOLEAN
    /\ leaving \in BOOLEAN
    /\ reported \in BOOLEAN
    /\ heard \in BOOLEAN
    /\ mixed \in BOOLEAN

ModesOK ==
    /\ state \in States
    /\ socket \in {"none", "opening", "connected"}
    /\ host \in Hosts \cup {NoHost}
    /\ openvpn \in Phases
    /\ openvpnHost \in Hosts \cup {NoHost}
    /\ log \in WatchedLines \cup {"none"}
    /\ intent \in {"up", "down", "quiet"}

CountersOK ==
    /\ attempt \in 0..G_Max_Reconnect
    /\ fetches \in [Hosts -> 0..MaxFetches]
    /\ shots \in 0..MaxShots
    /\ polls \in 0..MaxPolls
    /\ commands \in 0..MaxCommands
    /\ crashes \in 0..MaxCrashes

SequencesOK ==
    /\ todo \in Seq(Lines)
    /\ signals \in Seq(Words)

\* The counters stay under their bounds, a batch holds lines the parsers know, and
\* every other variable keeps its type.
TypeOK == FlagsOK /\ ModesOK /\ CountersOK /\ SequencesOK

Pending == Fetching \/ shots > 0

\* The manager does not stay in Connecting with nothing to take it out of there:
\* either the state timer, a configuration request or a reconnect shot will call
\* it again, or it has told the clients of an error since it last began to
\* connect.  (setState deletes the timer in one place only, and nine slots set the
\* state.)
Supervised == state = "Connecting" => timer \/ Pending \/ reported

\* A stop() that finds no request, no shot and no timer left over is final: until
\* the next cmdStart the manager holds no socket and no watcher, waits for nothing
\* and is Disconnected, whatever openvpn and the log file do.
QuietUntilStart ==
    intent = "quiet" =>
        /\ state = "Disconnected"
        /\ socket = "none"
        /\ ~watcher
        /\ ~timer
        /\ ~Pending

\* The tunnel announced as Connected leads to the server last asked for, unless
\* some cmdStart came while an openvpn for another server survived its stop() or
\* the configuration of another server was still on its way.
RightServer ==
    ~mixed /\ state = "Connected" /\ openvpn # "none" => openvpnHost = host

\* The watchdog of checkState: once no configuration request and no reconnect shot
\* is left, the manager leaves Connecting again and again, by openvpn's word or by
\* the timeout, or the clients have been told of an error.
Watchdog ==
    <>[](~Pending) => []<>(state # "Connecting" \/ reported)

\* "Openvpn timed out, so switch ports or nodes" (common.h:130): timedOut is not
\* emitted about an openvpn that is up and whose last state word in this attempt was
\* CONNECTED.
TimeoutMeansNotConnected ==
    [][CheckTimesOut => ~(openvpn = "up" /\ heard)]_vars

\* What the listeners are told is what the interface promises: every change of the
\* state once and in order, and timedOut only at the end of an attempt to connect.
Interface == INSTANCE ManagerInterface WITH vpn <- state, said <- signals
ImplementsInterface == Interface!Spec

\* The two commands of the client are answered as the interface says, whatever was
\* going on: what ServiceLink assumes of the manager.
AnswersCommands ==
    [][/\ \A h \in Hosts : CmdStart(h) => Interface!Start
       /\ CmdStop => Interface!Stop]_vars

-----------------------------------------------------------------------------
(* What makes the safety properties inductive.                             *)

InBatch(word) == \E i \in DOMAIN todo : todo[i] = word

\* Nothing will call the manager again, and nobody was told of an error.
Abandoned == ~timer /\ ~Pending /\ ~reported

Gone == openvpn = "none" \/ (openvpn = "exiting" /\ leaving)

\* Nothing of the batch says after EXITING that openvpn connects.
LastWords ==
    \A i, j \in DOMAIN todo : todo[i] = "EXITING" /\ i < j => todo[j] # "CONNECTING"

\* For Supervised: the only line that makes an abandoned manager connect is a state
\* word; a manager is abandoned with a socket only by EXITING, and openvpn says
\* nothing but its last words after that.
SupervisedInv ==
    /\ Supervised
    /\ Abandoned => ~InBatch("CONNECTING")
    /\ Abandoned /\ socket # "none" => Gone
    /\ InBatch("EXITING") => Gone
    /\ LastWords

\* For QuietUntilStart: no line is left to parse, and the manager that has not seen a
\* start is quiet.
QuietInv ==
    /\ QuietUntilStart
    /\ intent = "quiet" => Idle
    /\ host = NoHost => intent = "quiet"

\* For RightServer: what is on its way, and what runs, belongs to the last start.
ServerInv ==
    /\ ~mixed => \A h \in Hosts : fetches[h] > 0 => h = host
    /\ ~mixed /\ host # NoHost /\ openvpn # "none" => openvpnHost = host
=============================================================================
