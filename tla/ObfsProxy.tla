------------------------------ MODULE ObfsProxy ------------------------------
(***************************************************************************)
(* The obfsproxy the manager runs next to openvpn when the traffic is to   *)
(* be obfuscated (src/src/service/openvpnmanager.cpp, the Unix build):     *)
(* mObfsproxy points to the QProcess of the last one that was started, but *)
(* the end of every process the service has started is told to the same    *)
(* slot, obfsFinished, which takes it for the end of that one.             *)
(*                                                                         *)
(* A slot is one action, but for stop(): the loop that waits for the       *)
(* killed proxy to be gone from the list of processes keeps the event loop *)
(* of the service from running, and the processes move on meanwhile.  What *)
(* the manager does apart from the proxy is OpenvpnManager; here its state *)
(* changes as it may.                                                      *)
(*                                                                         *)
(* obfsFinished asks a null mObfsproxy to be deleted later when the end it *)
(* is told is not of that process.  With the Qt the build scripts name,    *)
(* 5.11, that posts an event to no receiver, which Qt drops with a         *)
(* warning: here it changes nothing.                                       *)
(***************************************************************************)
EXTENDS Naturals, FiniteSets

CONSTANTS
    Procs,        \* bound: obfsproxy processes that are there at once
    NoProc,       \* mObfsproxy = nullptr
    Hosts,        \* VPN servers a client may ask for
    NoHost,       \* mHostname before the first start
    Ports,        \* ports of those servers a client may ask for
    MaxPort,      \* bound: the last port tried
    MaxStarts,    \* bound: attempts asked for
    MaxEnds,      \* bound: ends of a proxy that nobody told to end
    MaxCrashes    \* bound: deaths of the service

ASSUME ProxyAssumption ==
    /\ NoProc \notin Procs
    /\ IsFiniteSet(Procs)
    /\ NoHost \notin Hosts
    /\ Ports \subseteq Nat
    /\ MaxPort \in Nat /\ MaxStarts \in Nat /\ MaxEnds \in Nat /\ MaxCrashes \in Nat

VARIABLES
    state,     \* mState
    host,      \* mHostname
    port,      \* mPort
    obfs,      \* mEncryption is one of the three that need a proxy
    owner,     \* the process of mObfsproxy
    phase,     \* of each process: see Phases
    dest,      \* the server and the port the command line of one that runs names
    doomed,    \* its QProcess is about to be deleted (deleteLater)
    dying,     \* killall has told it to end, and nobody waits for it
    orphans,   \* started by a service that has died: it has no QProcess
    request,   \* the stop() that is under way, and what comes after it
    doubled,   \* history: a launch within a launch started a second proxy
    relied,    \* history: the last launch took a proxy of a dead service for its own
    lapsed,    \* history: an end was told when the manager was not connecting
    asked,     \* history: the port of the last start, before any was found taken
    starts, ends, crashes \* counters of the bounded inputs

managerVars == <<state, host, port, obfs, request>>
processVars == <<phase, dest, dying, orphans>>
objectVars == <<owner, doomed>>
historyVars == <<doubled, relied, lapsed, asked>>
counters == <<starts, ends, crashes>>
vars == <<managerVars, processVars, objectVars, historyVars, counters>>

States == {"Disconnected", "Connecting", "Connected"}

\* free: there is no such process.  failed: a QProcess whose command could not be
\* executed.  ended: it is gone and its QProcess has not told so yet.
Phases == {"free", "failed", "starting", "listening", "ended"}

\* What stop() was called for, and whether it waits for the end of a proxy.
Idle == [op |-> "idle"]
Requests ==
    [op : {"stop"}, waits : BOOLEAN]
        \cup [op : {"start"}, waits : BOOLEAN, host : Hosts \cup {NoHost}, port : Nat,
              obfs : BOOLEAN]

\* What a command line names.
Target(h, n) == [host |-> h, port |-> n]
Nowhere == Target(NoHost, 0)
Targets == [host : Hosts \cup {NoHost}, port : Nat]

RunningIn(ph) == {p \in Procs : ph[p] \in {"starting", "listening"}}

\* obfsproxyRunning(): one of them is in the list of processes, whoever started it.
Running == RunningIn(phase)

-----------------------------------------------------------------------------
Init ==
    /\ state = "Disconnected"
    /\ host = NoHost
    /\ port = 0
    /\ obfs = FALSE
    /\ owner = NoProc
    /\ phase = [p \in Procs |-> "free"]
    /\ dest = [p \in Procs |-> Nowhere]
    /\ doomed = {}
    /\ dying = {}
    /\ orphans = {}
    /\ request = Idle
    /\ doubled = FALSE
    /\ relied = FALSE
    /\ lapsed = FALSE
    /\ asked = 0
    /\ starts = 0
    /\ ends = 0
    /\ crashes = 0

-----------------------------------------------------------------------------
(* launchObfsproxy() and runObfsproxy() for target t, when the processes   *)
(* and their targets are as in ph and ds, and mObfsproxy points to own.    *)

\* A name for the next process: which of the free ones is immaterial.
Fresh(ph, taken) ==
    LET free == {p \in Procs \ (doomed \cup taken) : ph[p] = "free"}
    IN IF free = {} THEN {} ELSE {CHOOSE p \in free : TRUE}

\* The QProcess own is gone.
Without(ph, own) == [p \in Procs |-> IF p = own THEN "free" ELSE ph[p]]

\* mObfsproxy.reset(new QProcess()) and start(): one process more.
LaunchOne(t, ph, ds) ==
    \E p \in Fresh(ph, {}), how \in {"starting", "failed"} :
        /\ phase' = [ph EXCEPT ![p] = how]
        /\ dest' = IF how = "starting" THEN [ds EXCEPT ![p] = t] ELSE ds
        /\ owner' = p
        /\ UNCHANGED doubled

\* reset() deletes the QProcess of a proxy that has ended untold: its destructor
\* tells the end, obfsFinished lets go of it and launches a proxy within the
\* launch, and reset() then forgets that one for its own.
LaunchTwo(t, ph, ds) ==
    \E p \in Fresh(ph, {}) : \E q \in Fresh(ph, {p}), how \in {"starting", "failed"} :
        /\ phase' = [ph EXCEPT ![p] = "starting", ![q] = how]
        /\ dest' = [ds EXCEPT ![p] = t, ![q] = IF how = "starting" THEN t ELSE @]
        /\ owner' = q
        /\ doubled' = TRUE

\* Mutant of Launch: runObfsproxy() does not ask whether one runs.
LaunchAnyway(t, o, ph, ds, own) ==
    IF o /\ t.host # NoHost
    THEN /\ LaunchOne(t, Without(ph, own), ds)
         /\ relied' = FALSE
         /\ lapsed' = FALSE
    ELSE /\ phase' = ph
         /\ dest' = ds
         /\ owner' = own
         /\ relied' = FALSE
         /\ UNCHANGED <<doubled, lapsed>>

Launch(t, o, ph, ds, own) ==
    LET wanted == o /\ t.host # NoHost
        there == RunningIn(ph)
    IN \/ /\ ~wanted \/ there # {}
          /\ phase' = ph
          /\ dest' = ds
          /\ owner' = own
          /\ relied' = (wanted /\ there \cap orphans # {})
          /\ UNCHANGED <<doubled, lapsed>>
       \/ /\ wanted /\ there = {}
          /\ \/ LaunchOne(t, Without(ph, own), ds)
             \/ own \in Procs /\ ph[own] = "ended" /\ LaunchTwo(t, Without(ph, own), ds)
          /\ relied' = FALSE
          /\ lapsed' = FALSE

-----------------------------------------------------------------------------
(* Slots of the service.  None runs while a stop() waits.                  *)

\* Mutants of StopObfsproxy: mObfsproxy keeps its pointer; a proxy without a
\* pointer is left alone; the proxy is not killed before it is waited for.
StopObfsproxyKeepsPointer ==
    IF Running = {} THEN UNCHANGED <<phase, dest, owner, doomed, dying>>
    ELSE IF owner # NoProc
    THEN /\ phase' = [phase EXCEPT ![owner] = IF @ = "failed" THEN "free" ELSE "ended"]
         /\ dest' = [dest EXCEPT ![owner] = Nowhere]
         /\ doomed' = IF phase[owner] = "failed" THEN doomed ELSE doomed \cup {owner}
         /\ dying' = dying \ {owner}
         /\ UNCHANGED owner
    ELSE /\ dying' = dying \cup Running
         /\ UNCHANGED <<phase, dest, owner, doomed>>

StopObfsproxyOwned ==
    IF Running = {} \/ owner = NoProc THEN UNCHANGED <<phase, dest, owner, doomed, dying>>
    ELSE /\ phase' = [phase EXCEPT ![owner] = IF @ = "failed" THEN "free" ELSE "ended"]
         /\ dest' = [dest EXCEPT ![owner] = Nowhere]
         /\ doomed' = IF phase[owner] = "failed" THEN doomed ELSE doomed \cup {owner}
         /\ owner' = NoProc
         /\ dying' = dying \ {owner}

StopObfsproxyUnkilled ==
    IF Running = {} THEN UNCHANGED <<phase, dest, owner, doomed, dying>>
    ELSE IF owner # NoProc
    THEN /\ phase' = [phase EXCEPT ![owner] = IF @ = "failed" THEN "free" ELSE @]
         /\ doomed' = IF phase[owner] = "failed" THEN doomed ELSE doomed \cup {owner}
         /\ owner' = NoProc
         /\ UNCHANGED <<dest, dying>>
    ELSE /\ dying' = dying \cup Running
         /\ UNCHANGED <<phase, dest, owner, doomed>>

\* stopObfsproxy().  A proxy it has a pointer to is killed and waited for; any
\* other is told to end, and it goes on.
StopObfsproxy ==
    IF Running = {} THEN UNCHANGED <<phase, dest, owner, doomed, dying>>
    ELSE IF owner # NoProc
    THEN /\ phase' = [phase EXCEPT ![owner] = IF @ = "failed" THEN "free" ELSE "ended"]
         /\ dest' = [dest EXCEPT ![owner] = Nowhere]
         /\ doomed' = IF phase[owner] = "failed" THEN doomed ELSE doomed \cup {owner}
         /\ owner' = NoProc
         /\ dying' = dying \ {owner}
    ELSE /\ dying' = dying \cup Running
         /\ UNCHANGED <<phase, dest, owner, doomed>>

Waits == Running # {} /\ owner # NoProc

BeginStop(r) ==
    /\ request = Idle
    /\ StopObfsproxy
    /\ request' = r
    /\ UNCHANGED <<state, host, port, obfs, orphans, historyVars, ends, crashes>>

\* stop() by a command, a timeout or an error.
Stop ==
    /\ BeginStop([op |-> "stop", waits |-> Waits])
    /\ UNCHANGED starts

\* start() of a command.
Start(h, n, o) ==
    /\ starts < MaxStarts
    /\ starts' = starts + 1
    /\ BeginStop([op |-> "start", waits |-> Waits, host |-> h, port |-> n, obfs |-> o])

\* reconnectTimeout() of an openvpn that does not go away: the same server again.
StartAgain ==
    /\ starts < MaxStarts
    /\ starts' = starts + 1
    /\ BeginStop([op |-> "start", waits |-> Waits, host |-> host, port |-> port, obfs |-> obfs])

\* The end of the loop that waits, and what comes after it.
WaitIsOver == request # Idle /\ (request.waits => Running = {})

StopReturns ==
    /\ WaitIsOver
    /\ request.op = "stop"
    /\ request' = Idle
    /\ state' = "Disconnected"
    /\ UNCHANGED <<host, port, obfs, processVars, objectVars, historyVars, counters>>

StartConnects ==
    /\ WaitIsOver
    /\ request.op = "start"
    /\ request' = Idle
    /\ state' = "Connecting"
    /\ host' = request.host
    /\ port' = request.port
    /\ asked' = request.port
    /\ obfs' = request.obfs
    /\ Launch(Target(request.host, request.port), request.obfs, phase, dest, owner)
    /\ UNCHANGED <<dying, orphans, doomed, counters>>

\* startConnecting() without a stop(), port n of the same server.
ConnectTo(n) ==
    /\ request = Idle
    /\ starts < MaxStarts
    /\ starts' = starts + 1
    /\ state' = "Connecting"
    /\ port' = n
    /\ Launch(Target(host, n), obfs, phase, dest, owner)
    /\ UNCHANGED <<host, obfs, request, dying, orphans, doomed, asked, ends, crashes>>

\* A crash of openvpn, its TUN error, a reconnect.
Reconnect == ConnectTo(port)

\* openvpn has found the local address taken: the next port is tried, by a proxy
\* that forwards to the last one, if it runs.
BindFailed ==
    /\ host # NoHost
    /\ port < MaxPort
    /\ ConnectTo(port + 1)

\* What openvpn says changes the state and leaves the proxy alone.
StateMoves ==
    /\ request = Idle
    /\ \E s \in States \ {state} : state' = s
    /\ UNCHANGED <<host, port, obfs, request, processVars, objectVars, historyVars, counters>>

\* Mutant of ObfsFinished: a proxy that ends is not replaced.
ObfsFinishedForGood(p) ==
    LET dropped == owner \in Procs \ {p} /\ phase[owner] # "failed"
        left == Without(Without(phase, p), IF dropped THEN NoProc ELSE owner)
    IN /\ request = Idle
       /\ doomed' = (doomed \ {p}) \cup (IF dropped THEN {owner} ELSE {})
       /\ dying' = dying \ {p}
       /\ phase' = left
       /\ dest' = [dest EXCEPT ![p] = Nowhere]
       /\ owner' = NoProc
       /\ UNCHANGED <<managerVars, historyVars, orphans, counters>>

\* obfsFinished: whichever process p it was, mObfsproxy is let go of, and deleted
\* later; a connecting manager looks for a proxy.
ObfsFinished(p) ==
    LET dropped == owner \in Procs \ {p} /\ phase[owner] # "failed"
        left == Without(Without(phase, p), IF dropped THEN NoProc ELSE owner)
    IN /\ request = Idle
       /\ doomed' = (doomed \ {p}) \cup (IF dropped THEN {owner} ELSE {})
       /\ dying' = dying \ {p}
       /\ IF state = "Connecting"
          THEN Launch(Target(host, port), obfs, left, [dest EXCEPT ![p] = Nowhere], NoProc)
          ELSE /\ phase' = left
               /\ dest' = [dest EXCEPT ![p] = Nowhere]
               /\ owner' = NoProc
               /\ lapsed' = TRUE
               /\ UNCHANGED <<doubled, relied>>
       /\ UNCHANGED <<managerVars, orphans, asked, counters>>

\* The event loop has noticed that p ended.
Told(p) ==
    /\ phase[p] = "ended"
    /\ ObfsFinished(p)

\* The deletion of a QProcess is due: one whose process runs kills it, waits for
\* it and tells its end.
Deleted(p) ==
    /\ p \in doomed \cap Running
    /\ ObfsFinished(p)

-----------------------------------------------------------------------------
(* The processes, and the death of the service.                            *)

Gone(p) ==
    /\ phase' = [phase EXCEPT ![p] = IF p \in orphans THEN "free" ELSE "ended"]
    /\ dest' = [dest EXCEPT ![p] = Nowhere]
    /\ dying' = dying \ {p}
    /\ orphans' = orphans \ {p}
    /\ UNCHANGED <<managerVars, objectVars, historyVars, starts, crashes>>

\* It ends although nobody told it to.
Ends(p) ==
    /\ p \in Running
    /\ ends < MaxEnds
    /\ ends' = ends + 1
    /\ Gone(p)

\* killall has its effect.
Dies(p) ==
    /\ p \in dying
    /\ Gone(p)
    /\ UNCHANGED ends

\* The local port is fixed: one of them can listen, and the next one ends.
Binds(p) ==
    /\ phase[p] = "starting"
    /\ \A q \in Procs : phase[q] # "listening"
    /\ phase' = [phase EXCEPT ![p] = "listening"]
    /\ UNCHANGED <<managerVars, objectVars, historyVars, dest, dying, orphans, counters>>

BindFails(p) ==
    /\ phase[p] = "starting"
    /\ \E q \in Procs : phase[q] = "listening"
    /\ Gone(p)
    /\ UNCHANGED ends

\* The service dies and is started again: the proxies that run have no QProcess.
ServiceDies ==
    /\ crashes < MaxCrashes
    /\ crashes' = crashes + 1
    /\ state' = "Disconnected"
    /\ host' = NoHost
    /\ port' = 0
    /\ asked' = 0
    /\ obfs' = FALSE
    /\ request' = Idle
    /\ owner' = NoProc
    /\ doomed' = {}
    /\ phase' = [p \in Procs |-> IF p \in Running THEN phase[p] ELSE "free"]
    /\ orphans' = Running
    /\ relied' = FALSE
    /\ lapsed' = FALSE
    /\ UNCHANGED <<dest, dying, doubled, starts, ends>>

-----------------------------------------------------------------------------
EventLoop ==
    \/ StopReturns \/ StartConnects
    \/ \E p \in Procs : Told(p) \/ Deleted(p)

Environment ==
    \E p \in Procs : Dies(p) \/ Binds(p) \/ BindFails(p)

Next ==
    \/ EventLoop
    \/ Environment
    \/ Stop
    \/ \E h \in Hosts, n \in Ports, o \in BOOLEAN : Start(h, n, o)
    \/ StartAgain
    \/ Reconnect
    \/ BindFailed
    \/ StateMoves
    \/ \E p \in Procs : Ends(p)
    \/ ServiceDies

\* The event loop runs and the processes move on; nobody need ask for anything,
\* and nothing need fail.
Fairness ==
    /\ WF_vars(StopReturns) /\ WF_vars(StartConnects)
    /\ \A p \in Procs :
         /\ WF_vars(Told(p)) /\ WF_vars(Deleted(p))
         /\ WF_vars(Dies(p)) /\ WF_vars(Binds(p)) /\ WF_vars(BindFails(p))

Spec == Init /\ [][Next]_vars /\ Fairness

-----------------------------------------------------------------------------
(* Properties.                                                             *)

\* Every variable has its type; mObfsproxy does not point to a QProcess that is
\* about to be deleted; and what is to be deleted or told to end is there.
TypeOK ==
    /\ state \in States
    /\ host \in Hosts \cup {NoHost}
    /\ port \in Nat /\ asked \in Nat
    /\ obfs \in BOOLEAN
    /\ owner \in (Procs \ doomed) \cup {NoProc}
    /\ phase \in [Procs -> Phases]
    /\ dest \in [Procs -> Targets]
    /\ doomed \subseteq {p \in Procs : phase[p] \notin {"free", "failed"}}
    /\ dying \subseteq Running
    /\ orphans \subseteq Running
    /\ request \in Requests \cup {Idle}
    /\ doubled \in BOOLEAN /\ relied \in BOOLEAN /\ lapsed \in BOOLEAN
    /\ starts \in 0..MaxStarts /\ ends \in 0..MaxEnds /\ crashes \in 0..MaxCrashes

Told2End == doomed \cup dying

\* It forwards to the server the manager connects to, at the port it was asked for
\* or one that was tried since.
Forwards(p) == dest[p].host = host /\ dest[p].port \in asked..port

\* No connection runs through the proxy of another: once a server is asked for,
\* an obfsproxy that runs, and that was not told to end, forwards to that server;
\* and to the port asked for, as long as openvpn has not found it taken.
RightProxy ==
    host # NoHost => \A p \in Running \ Told2End : Forwards(p)

\* The service never has two proxies at work on the one local port, unless a
\* launch ran within a launch.
OneProxy == doubled \/ Cardinality(Running) <= 1

\* Every stop() that waits has killed what it waits for: no other proxy, one that was
\* dropped or that a dead service left behind, is in the list of processes it looks at.
WaitsForNone ==
    request # Idle /\ request.waits => doubled \/ Running = {}

\* The loop of stop() that waits for the proxy it killed comes to its end, unless
\* a launch ran within a launch: no other proxy keeps it waiting.
WaitEnds == request # Idle ~> (request = Idle \/ doubled)

Unexecutable == owner \in Procs /\ phase[owner] = "failed"

\* Since a connection has asked for a proxy, one of this service runs, or the end of one is
\* still to be told and has the next launched, through every stop, start and late end;
\* the exceptions are those of ProxySettles.
ProxyOrNews ==
    obfs =>
        \/ Running \ orphans # {}
        \/ \E p \in Procs : phase[p] = "ended"
        \/ relied \/ lapsed \/ Unexecutable

Served ==
    \E p \in Procs \ Told2End : phase[p] = "listening" /\ Forwards(p)

\* An attempt that goes on comes to have a proxy that listens for its server and
\* that nobody is about to end, however many of them were killed on the way;
\* but for a proxy that cannot be executed, one whose end was told when the
\* manager was not connecting, and one a service that died had left behind.
ProxySettles ==
    <>[](state = "Connecting" /\ obfs /\ request = Idle)
        => <>[](Served \/ relied \/ lapsed \/ Unexecutable)

\* The obfsproxy that stop() has made sure to be gone, "so it will start"
\* (openvpnmanager.cpp:1210), is not the end of its successor: no proxy that runs
\* for a connecting manager is about to be deleted.
ProxyIsKept ==
    state = "Connecting" /\ request = Idle => doomed \cap Running = {}
=============================================================================
