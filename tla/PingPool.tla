------------------------------ MODULE PingPool ------------------------------
(***************************************************************************)
(* The pool of workers with which AuthManager pings the servers of its     *)
(* list (src/src/application/authmanager.cpp, pingAllServers to            *)
(* pingTerminated, and the slots of pingwaiter.cpp).                       *)
(*                                                                         *)
(* Everything runs on one event loop, but one event makes several calls: a *)
(* loaded list starts each worker, a timer calls pingTerminated once for   *)
(* each time it was connected, a process that crashes reports an error and *)
(* then its end.  An event sets the calls it makes, and each call is an    *)
(* action; no other event comes in between.                                *)
(***************************************************************************)
EXTENDS Naturals, Sequences

CONSTANTS
    PINGWORKERS_NUM,
    Sizes,     \* how many servers a list may have
    MaxLoads   \* bound: answers to requests of a list

ASSUME PoolAssumption ==
    /\ PINGWORKERS_NUM \in Nat \ {0}
    /\ Sizes \subseteq Nat
    /\ MaxLoads \in Nat

VARIABLES
    size,         \* mServersModel->count()
    ping,         \* of each server: 0 for the code's -1, otherwise the list it was measured for
    mToPing,
    mHubToPing,   \* is it not empty?
    process,      \* of each worker, see Processes
    server,       \* kServerIndex of the process
    timer,        \* does the worker's timer run?
    connections,  \* how often timeout() of the timer was connected to Timer_Terminate
    calls,        \* what the current event has yet to call
    loads,        \* answers so far
    current,      \* history: the answer the current list came with
    list,         \* history: of each process, the list it was started for
    answered,     \* history: servers of the current list whose ping was set
    shrunk,       \* history: a list was replaced by a shorter one
    interrupted   \* history: a process that ran was replaced by another

modelVars == <<size, ping>>
queueVars == <<mToPing, mHubToPing>>
workerVars == <<process, server, timer, connections>>
loadVars == <<loads, current, shrunk>>
vars == <<modelVars, queueVars, workerVars, calls, loadVars, list, answered, interrupted>>

Workers == 1..PINGWORKERS_NUM

\* A null pointer, a process that runs, and one that ended.  A process that was sent
\* SIGTERM by pingTerminated and not replaced is "terminated" until it ends.
Processes == {"none", "running", "terminated", "ended"}

\* "loop" is startWorker as pingAllServers calls it, "next" as the slots call it.
Slots == {"loop", "next", "pingComplete", "pingError", "pingTerminated"}

\* The constructor; the vectors of workers are filled by the first pingAllServers.
Init ==
    /\ size = 0
    /\ ping = <<>>
    /\ mToPing = <<>>
    /\ mHubToPing = FALSE
    /\ process = [w \in Workers |-> "none"]
    /\ server = [w \in Workers |-> 0]
    /\ timer = [w \in Workers |-> FALSE]
    /\ connections = [w \in Workers |-> 0]
    /\ calls = <<>>
    /\ loads = 0
    /\ current = 0
    /\ list = [w \in Workers |-> 0]
    /\ answered = {}
    /\ shrunk = FALSE
    /\ interrupted = FALSE

-----------------------------------------------------------------------------
(* Lists (fetchServerListFinished, fetchHubsFinished), with pings enabled. *)

\* Mutant of Ids: the loop of pingAllServers begins with the second server.
IdsFromSecond(n) == IF n = 0 THEN <<>> ELSE [i \in 1..(n - 1) |-> i + 1]

\* Mutant of Ids: the ids are one too low.
IdsFromNone(n) == [i \in 1..n |-> i - 1]

\* The code numbers the servers from 0.
Ids(n) == [i \in 1..n |-> i]

\* What follows an answer of proxy.sh: pingAllServers starts the workers.
Answer ==
    /\ calls = <<>>
    /\ loads < MaxLoads
    /\ loads' = loads + 1
    /\ calls' = [w \in Workers |-> <<"loop", w>>]
    /\ UNCHANGED <<workerVars, list, interrupted>>

\* Ids of the list that is replaced stay in the queue.
ServersLoaded(n) ==
    /\ Answer
    /\ size' = n
    /\ ping' = [i \in 1..n |-> 0]
    /\ mToPing' = mToPing \o Ids(n)
    /\ current' = loads'
    /\ answered' = {}
    /\ shrunk' = (shrunk \/ n < size)
    /\ UNCHANGED mHubToPing

\* After an error the servers there are are pinged again.
ServersFailed ==
    /\ Answer
    /\ mToPing' = mToPing \o Ids(size)
    /\ UNCHANGED <<modelVars, mHubToPing, current, answered, shrunk>>

\* There may be hubs or none.
HubsAnswered ==
    /\ Answer
    /\ mHubToPing' \in {mHubToPing, TRUE}
    /\ UNCHANGED <<modelVars, mToPing, current, answered, shrunk>>

-----------------------------------------------------------------------------
(* Processes and timers.                                                   *)

Event(w, slots) ==
    /\ calls = <<>>
    /\ calls' = [i \in DOMAIN slots |-> <<slots[i], w>>]
    /\ UNCHANGED <<modelVars, queueVars, server, connections, loadVars, list, answered,
                   interrupted>>

\* The process of a worker ends, is not found, or is ended by a signal.
PingEnds(w) ==
    /\ process[w] \in {"running", "terminated"}
    /\ process' = [process EXCEPT ![w] = "ended"]
    /\ \E slots \in {<<"pingComplete">>, <<"pingError">>, <<"pingError", "pingComplete">>} :
         Event(w, slots)
    /\ UNCHANGED timer

\* A single shot.
Timeout(w) ==
    /\ timer[w]
    /\ timer' = [timer EXCEPT ![w] = FALSE]
    /\ Event(w, [i \in 1..connections[w] |-> "pingTerminated"])
    /\ UNCHANGED process

-----------------------------------------------------------------------------
(* Calls.                                                                  *)

Call(slot, w) == calls # <<>> /\ Head(calls) = <<slot, w>>

\* Mutant of StartPing: the timer is not started.
StartPingUntimed(w, id) ==
    /\ process' = [process EXCEPT ![w] = "running"]
    /\ server' = [server EXCEPT ![w] = id]
    /\ connections' = [connections EXCEPT ![w] = @ + 1]
    /\ list' = [list EXCEPT ![w] = current]
    /\ interrupted' = (interrupted \/ process[w] = "running")
    /\ UNCHANGED timer

\* The process that is replaced is disconnected: nothing is heard of it any more.  The
\* timer is connected once again.
StartPing(w, id) ==
    /\ process' = [process EXCEPT ![w] = "running"]
    /\ server' = [server EXCEPT ![w] = id]
    /\ timer' = [timer EXCEPT ![w] = TRUE]
    /\ connections' = [connections EXCEPT ![w] = @ + 1]
    /\ list' = [list EXCEPT ![w] = current]
    /\ interrupted' = (interrupted \/ process[w] = "running")

\* An id that is not in the list is dropped, and the worker with it.  The loop over the
\* hubs asks each time for the hub -1, which there is not: it empties the queue and
\* pings nothing.
StartWorker(w) ==
    /\ Call("loop", w) \/ Call("next", w)
    /\ calls' = Tail(calls)
    /\ IF mToPing # <<>>
       THEN /\ mToPing' = Tail(mToPing)
            /\ UNCHANGED mHubToPing
            /\ IF Head(mToPing) <= size
               THEN StartPing(w, Head(mToPing))
               ELSE UNCHANGED <<workerVars, list, interrupted>>
       ELSE /\ mHubToPing' = FALSE
            /\ UNCHANGED <<mToPing, workerVars, list, interrupted>>
    /\ UNCHANGED <<modelVars, loadVars, answered>>

\* extractPing and setPing for the process of the worker, then startWorker.  A process
\* that was killed before it said anything has -1 for its answer, as one that timed out.
SetPing(w) ==
    /\ \E measured \in {0, list[w]} :
         ping' = [i \in DOMAIN ping |-> IF i = server[w] THEN measured ELSE ping[i]]
    /\ answered' = IF list[w] = current /\ server[w] <= size
                   THEN answered \cup {server[w]}
                   ELSE answered
    /\ calls' = <<<<"next", w>>>> \o Tail(calls)
    /\ UNCHANGED <<size, queueVars, server, connections, loadVars, list, interrupted>>

\* pingComplete and pingError.
TakeResult(w) ==
    /\ Call("pingComplete", w) \/ Call("pingError", w)
    /\ process[w] = "ended"
    /\ timer' = [timer EXCEPT ![w] = FALSE]
    /\ SetPing(w)
    /\ UNCHANGED process

\* The error of a process that crashed had it replaced: its end is not heard.
MissEnd(w) ==
    /\ Call("pingComplete", w)
    /\ process[w] # "ended"
    /\ calls' = Tail(calls)
    /\ UNCHANGED <<modelVars, queueVars, workerVars, loadVars, list, answered, interrupted>>

\* The process is asked to end, whether or not it is the one whose time is up.
PingTerminated(w) ==
    /\ Call("pingTerminated", w)
    /\ process' = [process EXCEPT ![w] = IF @ = "running" THEN "terminated" ELSE @]
    /\ SetPing(w)
    /\ UNCHANGED timer

Calls(w) ==
    \/ StartWorker(w)
    \/ TakeResult(w)
    \/ MissEnd(w)
    \/ PingTerminated(w)

Next ==
    \/ \E n \in Sizes : ServersLoaded(n)
    \/ ServersFailed
    \/ HubsAnswered
    \/ \E w \in Workers : PingEnds(w) \/ Timeout(w) \/ Calls(w)

\* What an event calls is called, and Qt serves every timer that is due; nothing is
\* assumed of the processes.
Fairness ==
    /\ WF_vars(\E w \in Workers : Calls(w))
    /\ \A w \in Workers : SF_vars(Timeout(w))

Spec == Init /\ [][Next]_vars
FairSpec == Spec /\ Fairness

-----------------------------------------------------------------------------
(* Properties.                                                             *)

\* Every variable has its type.  A worker that was never started has no timer to fire,
\* and only a timer that was connected runs.
TypeOK ==
    /\ size \in Nat
    /\ ping \in [1..size -> 0..loads]
    /\ mToPing \in Seq(Nat \ {0})
    /\ mHubToPing \in BOOLEAN
    /\ process \in [Workers -> Processes]
    /\ server \in [Workers -> Nat]
    /\ timer \in [Workers -> BOOLEAN]
    /\ connections \in [Workers -> Nat]
    /\ calls \in Seq(Slots \X Workers)
    /\ loads \in 0..MaxLoads
    /\ current \in 0..loads
    /\ list \in [Workers -> 0..loads]
    /\ answered \subseteq 1..size
    /\ shrunk \in BOOLEAN
    /\ interrupted \in BOOLEAN
    /\ \A w \in Workers : process[w] = "none" => ~timer[w] /\ connections[w] = 0

\* The event still has a call for the worker that ends in startWorker.
Starts(w) == \E i \in DOMAIN calls : calls[i][2] = w /\ calls[i][1] # "pingTerminated"

Terminates(w) == \E i \in DOMAIN calls : calls[i] = <<"pingTerminated", w>>

\* As long as there are servers to ping, or hubs that came meanwhile, every worker pings
\* one, and a process that hangs is timed.  A list that is replaced by a shorter one is the
\* exception: each id it leaves in the queue sends a worker home.
AtWork ==
    /\ \A w \in Workers : process[w] = "running" => timer[w] \/ Terminates(w)
    /\ (mToPing # <<>> \/ mHubToPing) /\ ~shrunk =>
         \A w \in Workers : process[w] = "running" \/ Starts(w)

Queued(id) == \E i \in DOMAIN mToPing : mToPing[i] = id

Pinging(w, id) ==
    /\ server[w] = id
    /\ list[w] = current
    /\ process[w] = "running" \/ (process[w] = "ended" /\ calls # <<>>)

\* No server is lost: it waits, is pinged, or has its answer.  A new answer of proxy.sh
\* that interrupts the pings is the exception: the loop of pingAllServers takes every
\* worker, and the servers of the processes it replaces are not pinged again.
NoServerIsLost ==
    ~interrupted /\ ~shrunk =>
        \A id \in 1..size : Queued(id) \/ id \in answered \/ \E w \in Workers : Pinging(w, id)

\* Both queues are worked off, however the processes hang; when a list got shorter, all
\* workers may have gone home.
QueueIsWorkedOff == mToPing # <<>> \/ mHubToPing ~> (mToPing = <<>> /\ ~mHubToPing) \/ shrunk
=============================================================================
