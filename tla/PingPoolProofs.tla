--------------------------- MODULE PingPoolProofs ---------------------------
(***************************************************************************)
(* The pool of ping workers, for any number of workers, lists and sizes of *)
(* a list: type correctness, AtWork and NoServerIsLost.                    *)
(***************************************************************************)
EXTENDS PingPool, TLAPS

In(s) == {s[i] : i \in DOMAIN s}

Pending == In(calls)

-----------------------------------------------------------------------------
(* What is in a queue.                                                     *)

\* Taking the first entry of a queue.
LEMMA TakeHead ==
    ASSUME NEW S, NEW s \in Seq(S), s # <<>>
    PROVE  /\ Head(s) \in S
           /\ Tail(s) \in Seq(S)
           /\ In(s) = {Head(s)} \cup In(Tail(s))
<1>1. /\ DOMAIN s = 1..Len(s) /\ Len(s) \in Nat \ {0}
      /\ DOMAIN Tail(s) = 1..(Len(s) - 1)
      /\ Head(s) = s[1] /\ Head(s) \in S
      /\ Tail(s) \in Seq(S)
      /\ \A i \in DOMAIN Tail(s) : Tail(s)[i] = s[i + 1]
  OBVIOUS
<1>2. \A i \in DOMAIN s : i # 1 => i - 1 \in DOMAIN Tail(s) /\ Tail(s)[i - 1] = s[i]
  BY <1>1
<1>3. \A i \in DOMAIN Tail(s) : i + 1 \in DOMAIN s
  BY <1>1
<1>4. ASSUME NEW x PROVE x \in In(s) <=> x = Head(s) \/ x \in In(Tail(s))
  <2>1. x \in In(s) <=> \E i \in DOMAIN s : s[i] = x
    BY DEF In
  <2>2. x \in In(Tail(s)) <=> \E i \in DOMAIN Tail(s) : Tail(s)[i] = x
    BY DEF In
  <2>3. 1 \in DOMAIN s
    BY <1>1
  <2> QED
    BY <1>1, <1>2, <1>3, <2>1, <2>2, <2>3
<1> QED
  BY <1>1, <1>4

\* Putting one queue behind another.
LEMMA PutLast ==
    ASSUME NEW S, NEW s \in Seq(S), NEW t \in Seq(S)
    PROVE  /\ s \o t \in Seq(S)
           /\ In(s \o t) = In(s) \cup In(t)
<1>1. /\ DOMAIN s = 1..Len(s) /\ Len(s) \in Nat
      /\ DOMAIN t = 1..Len(t) /\ Len(t) \in Nat
      /\ DOMAIN (s \o t) = 1..(Len(s) + Len(t))
      /\ s \o t \in Seq(S)
  OBVIOUS
<1>2. \A i \in DOMAIN (s \o t) :
        \/ i \in DOMAIN s /\ (s \o t)[i] = s[i]
        \/ i - Len(s) \in DOMAIN t /\ (s \o t)[i] = t[i - Len(s)]
  BY <1>1
<1>3. /\ \A i \in DOMAIN s : i \in DOMAIN (s \o t) /\ (s \o t)[i] = s[i]
      /\ \A i \in DOMAIN t : Len(s) + i \in DOMAIN (s \o t) /\ (s \o t)[Len(s) + i] = t[i]
  BY <1>1
<1>4. ASSUME NEW x PROVE x \in In(s \o t) <=> x \in In(s) \/ x \in In(t)
  <2>1. x \in In(s) <=> \E i \in DOMAIN s : s[i] = x
    BY DEF In
  <2>2. x \in In(t) <=> \E i \in DOMAIN t : t[i] = x
    BY DEF In
  <2>3. x \in In(s \o t) <=> \E i \in DOMAIN (s \o t) : (s \o t)[i] = x
    BY DEF In
  <2> QED
    BY <1>2, <1>3, <2>1, <2>2, <2>3
<1> QED
  BY <1>1, <1>4

\* Putting an entry before a queue.
LEMMA PutFirst ==
    ASSUME NEW S, NEW e \in S, NEW s \in Seq(S)
    PROVE  /\ <<e>> \o s \in Seq(S)
           /\ <<e>> \o s # <<>>
           /\ In(<<e>> \o s) = {e} \cup In(s)
<1>1. <<e>> \in Seq(S) /\ In(<<e>>) = {e}
  BY DEF In
<1>2. ASSUME NEW t \in Seq(S)
      PROVE  t \o s \in Seq(S) /\ In(t \o s) = In(t) \cup In(s)
  BY PutLast
<1>3. <<e>> \o s \in Seq(S) /\ In(<<e>> \o s) = {e} \cup In(s)
  BY <1>1, <1>2, Zenon
<1>4. In(<<>>) = {}
  BY DEF In
<1> QED
  BY <1>3, <1>4

\* The ids of a list of n servers.
LEMMA IdsAre ==
    ASSUME NEW n \in Nat
    PROVE  Ids(n) \in Seq(Nat \ {0}) /\ In(Ids(n)) = 1..n
BY DEF Ids, In

\* The calls of a loaded list, one for each worker.
LEMMA LoopCalls ==
    ASSUME calls' = [w \in Workers |-> <<"loop", w>>]
    PROVE  /\ calls' \in Seq(Slots \X Workers)
           /\ Pending' = {<<"loop", w>> : w \in Workers}
<1>1. PINGWORKERS_NUM \in Nat
  BY PoolAssumption
<1> QED
  BY <1>1 DEF Pending, In, Workers, Slots

\* The calls of an event of one worker.
LEMMA EventCalls ==
    ASSUME NEW w \in Workers, NEW slots \in Seq(Slots), Event(w, slots)
    PROVE  /\ calls' \in Seq(Slots \X Workers)
           /\ Pending' = {<<s, w>> : s \in In(slots)}
           /\ calls' = <<>> \/ Head(calls') = <<slots[1], w>>
           /\ calls' # <<>> <=> slots # <<>>
<1>1. calls' = [i \in 1..Len(slots) |-> <<slots[i], w>>] /\ Len(slots) \in Nat
  BY DEF Event
<1> QED
  BY <1>1 DEF Pending, In, Event

-----------------------------------------------------------------------------
(* Types.                                                                  *)

\* A worker that was started pings a server, and only such a worker is called by a
\* slot.
TypeInv ==
    /\ TypeOK
    /\ \A w \in Workers : process[w] # "none" => server[w] # 0
    /\ \A c \in Pending : c[1] # "loop" => process[c[2]] # "none"

\* The first state.
LEMMA TypeInit == Init => TypeInv
<1> SUFFICES ASSUME Init PROVE TypeInv
  OBVIOUS
<1>1. ping \in [1..size -> 0..loads]
  BY DEF Init
<1>2. MaxLoads \in Nat
  BY PoolAssumption
<1>3. mToPing \in Seq(Nat \ {0}) /\ calls \in Seq(Slots \X Workers) /\ Pending = {}
  BY DEF Init, Pending, In
<1>4. /\ size \in Nat /\ loads \in 0..MaxLoads /\ current \in 0..loads
      /\ server \in [Workers -> Nat] /\ connections \in [Workers -> Nat]
      /\ list \in [Workers -> 0..loads]
      /\ answered \subseteq 1..size
  BY <1>2 DEF Init
<1>5. /\ mHubToPing \in BOOLEAN /\ shrunk \in BOOLEAN /\ interrupted \in BOOLEAN
      /\ process \in [Workers -> Processes] /\ timer \in [Workers -> BOOLEAN]
  BY DEF Init, Processes
<1>6. \A w \in Workers : process[w] = "none" /\ ~timer[w] /\ connections[w] = 0
  BY DEF Init
<1> QED
  BY <1>1, <1>3, <1>4, <1>5, <1>6 DEF TypeInv, TypeOK

\* An answer of proxy.sh.
LEMMA TypeAnswer ==
    ASSUME TypeInv, Answer
    PROVE  /\ loads \in 0..MaxLoads /\ loads' = loads + 1 /\ loads' \in 0..MaxLoads
           /\ calls' \in Seq(Slots \X Workers)
           /\ list' \in [Workers -> 0..loads']
           /\ \A c \in Pending' : c[1] = "loop"
<1>1. loads \in 0..MaxLoads /\ loads' = loads + 1 /\ loads' \in 0..MaxLoads
  BY PoolAssumption DEF TypeInv, TypeOK, Answer
<1>2. list' \in [Workers -> 0..loads']
  BY <1>1 DEF TypeInv, TypeOK, Answer
<1>3. calls' \in Seq(Slots \X Workers) /\ Pending' = {<<"loop", w>> : w \in Workers}
  BY LoopCalls DEF Answer
<1> QED
  BY <1>1, <1>2, <1>3

\* The calls that are left when one was taken.
LEMMA TypeTail ==
    ASSUME TypeInv, NEW slot, NEW w, Call(slot, w)
    PROVE  /\ w \in Workers
           /\ <<slot, w>> \in Pending
           /\ Tail(calls) \in Seq(Slots \X Workers)
           /\ In(Tail(calls)) \subseteq Pending
           /\ Pending = {<<slot, w>>} \cup In(Tail(calls))
<1>1. calls \in Seq(Slots \X Workers) /\ calls # <<>> /\ Head(calls) = <<slot, w>>
  BY DEF TypeInv, TypeOK, Call
<1>2. /\ Head(calls) \in Slots \X Workers
      /\ Tail(calls) \in Seq(Slots \X Workers)
      /\ In(calls) = {Head(calls)} \cup In(Tail(calls))
  BY <1>1, TakeHead
<1> QED
  BY <1>1, <1>2 DEF Pending

\* A process gets its server.
LEMMA TypeStartPing ==
    ASSUME TypeInv, NEW w \in Workers, NEW id \in Nat \ {0}, StartPing(w, id)
    PROVE  /\ process' \in [Workers -> Processes]
           /\ server' \in [Workers -> Nat]
           /\ timer' \in [Workers -> BOOLEAN]
           /\ connections' \in [Workers -> Nat]
           /\ list' \in [Workers -> 0..loads]
           /\ interrupted' \in BOOLEAN
           /\ \A v \in Workers : process'[v] = "none" => ~timer'[v] /\ connections'[v] = 0
           /\ \A v \in Workers : process'[v] # "none" => server'[v] # 0
           /\ \A v \in Workers : process[v] # "none" => process'[v] # "none"
<1>1. process' \in [Workers -> Processes] /\ server' \in [Workers -> Nat]
  BY DEF TypeInv, TypeOK, StartPing, Processes
<1>2. timer' \in [Workers -> BOOLEAN]
  BY DEF TypeInv, TypeOK, StartPing
<1>3. connections' \in [Workers -> Nat]
  BY DEF TypeInv, TypeOK, StartPing
<1>4. current \in 0..loads
  BY DEF TypeInv, TypeOK
<1>5. list' \in [Workers -> 0..loads] /\ interrupted' \in BOOLEAN
  BY <1>4 DEF TypeInv, TypeOK, StartPing
<1>6. ASSUME NEW v \in Workers
      PROVE  /\ process'[v] = IF v = w THEN "running" ELSE process[v]
             /\ server'[v] = IF v = w THEN id ELSE server[v]
             /\ v # w => timer'[v] = timer[v] /\ connections'[v] = connections[v]
  BY DEF TypeInv, TypeOK, StartPing
<1> QED
  BY <1>1, <1>2, <1>3, <1>5, <1>6 DEF TypeInv, TypeOK

\* The result of a ping.
LEMMA TypeSetPing ==
    ASSUME TypeInv, NEW slot, NEW w, Call(slot, w), process[w] # "none", SetPing(w)
    PROVE  /\ ping' \in [1..size -> 0..loads]
           /\ answered' \subseteq 1..size
           /\ calls' \in Seq(Slots \X Workers)
           /\ Pending' = {<<"next", w>>} \cup In(Tail(calls))
<1>1. w \in Workers /\ Tail(calls) \in Seq(Slots \X Workers)
  BY TypeTail
<1>2. list[w] \in 0..loads /\ server[w] \in Nat \ {0} /\ size \in Nat /\ loads \in Nat
  BY <1>1, PoolAssumption DEF TypeInv, TypeOK
<1>3. ping' \in [1..size -> 0..loads]
  <2>1. PICK measured \in {0, list[w]} :
          ping' = [i \in DOMAIN ping |-> IF i = server[w] THEN measured ELSE ping[i]]
    BY DEF SetPing
  <2>2. measured \in 0..loads /\ ping \in [1..size -> 0..loads]
    BY <1>2, <2>1 DEF TypeInv, TypeOK
  <2> QED
    BY <2>1, <2>2
<1>4. answered' \subseteq 1..size
  <2>1. answered \subseteq 1..size
    BY DEF TypeInv, TypeOK
  <2>2. CASE list[w] = current /\ server[w] <= size
    <3>1. answered' = answered \cup {server[w]} /\ server[w] \in 1..size
      BY <1>2, <2>2 DEF SetPing
    <3> QED
      BY <2>1, <3>1
  <2>3. CASE ~(list[w] = current /\ server[w] <= size)
    BY <2>1, <2>3 DEF SetPing
  <2> QED
    BY <2>2, <2>3
<1>5. <<"next", w>> \in Slots \X Workers
  BY <1>1 DEF Slots
<1>6. calls' = <<<<"next", w>>>> \o Tail(calls)
  BY DEF SetPing
<1>7. calls' \in Seq(Slots \X Workers) /\ In(calls') = {<<"next", w>>} \cup In(Tail(calls))
  <2> DEFINE T == Slots \X Workers
             s == Tail(calls)
             e == <<"next", w>>
  <2>1. s \in Seq(T) /\ e \in T
    BY <1>1, <1>5
  <2>2. <<e>> \o s \in Seq(T) /\ In(<<e>> \o s) = {e} \cup In(s)
    <3> HIDE DEF T, s, e
    <3> QED
      BY <2>1, PutFirst
  <2> QED
    BY <1>6, <2>2, Zenon
<1> QED
  BY <1>3, <1>4, <1>7 DEF Pending

\* Each action keeps the types.
LEMMA TypeNext ==
    ASSUME TypeInv, [Next]_vars
    PROVE  TypeInv'
<1>1. CASE UNCHANGED vars
  BY <1>1 DEF TypeInv, TypeOK, Pending, vars, modelVars, queueVars, workerVars, loadVars
<1>2. ASSUME NEW n \in Sizes, ServersLoaded(n)
      PROVE  TypeInv'
  <2>1. n \in Nat
    BY PoolAssumption
  <2>2. Answer
    BY <1>2 DEF ServersLoaded
  <2>3. /\ loads \in 0..MaxLoads /\ loads' = loads + 1 /\ loads' \in 0..MaxLoads
        /\ calls' \in Seq(Slots \X Workers)
        /\ list' \in [Workers -> 0..loads']
        /\ \A c \in Pending' : c[1] = "loop"
    BY <2>2, TypeAnswer
  <2>4. mToPing' \in Seq(Nat \ {0})
    <3>1. Ids(n) \in Seq(Nat \ {0}) /\ mToPing \in Seq(Nat \ {0})
      BY <2>1, IdsAre DEF TypeInv, TypeOK
    <3>2. mToPing' = mToPing \o Ids(n)
      BY <1>2 DEF ServersLoaded
    <3> QED
      BY <3>1, <3>2, PutLast
  <2>5. size' \in Nat /\ ping' \in [1..size' -> 0..loads'] /\ current' \in 0..loads'
        /\ answered' \subseteq 1..size' /\ shrunk' \in BOOLEAN /\ mHubToPing' \in BOOLEAN
    <3>1. size' = n /\ ping' = [i \in 1..n |-> 0] /\ current' = loads' /\ answered' = {}
      BY <1>2 DEF ServersLoaded
    <3>2. shrunk' \in BOOLEAN /\ mHubToPing' \in BOOLEAN
      BY <1>2 DEF ServersLoaded, TypeInv, TypeOK
    <3> QED
      BY <2>1, <2>3, <3>1, <3>2
  <2> QED
    BY <2>2, <2>3, <2>4, <2>5 DEF TypeInv, TypeOK, Answer, workerVars
<1>3. ASSUME ServersFailed
      PROVE  TypeInv'
  <2>1. Answer
    BY <1>3 DEF ServersFailed
  <2>2. /\ loads \in 0..MaxLoads /\ loads' = loads + 1 /\ loads' \in 0..MaxLoads
        /\ calls' \in Seq(Slots \X Workers)
        /\ list' \in [Workers -> 0..loads']
        /\ \A c \in Pending' : c[1] = "loop"
    BY <2>1, TypeAnswer
  <2>3. mToPing' \in Seq(Nat \ {0})
    <3>1. Ids(size) \in Seq(Nat \ {0}) /\ mToPing \in Seq(Nat \ {0})
      BY IdsAre DEF TypeInv, TypeOK
    <3>2. mToPing' = mToPing \o Ids(size)
      BY <1>3 DEF ServersFailed
    <3> QED
      BY <3>1, <3>2, PutLast
  <2>4. ping' \in [1..size' -> 0..loads'] /\ current' \in 0..loads'
    BY <1>3, <2>2 DEF ServersFailed, modelVars, TypeInv, TypeOK
  <2> QED
    BY <1>3, <2>1, <2>2, <2>3, <2>4
    DEF ServersFailed, TypeInv, TypeOK, Answer, workerVars, modelVars
<1>4. ASSUME HubsAnswered
      PROVE  TypeInv'
  <2>1. Answer
    BY <1>4 DEF HubsAnswered
  <2>2. /\ loads \in 0..MaxLoads /\ loads' = loads + 1 /\ loads' \in 0..MaxLoads
        /\ calls' \in Seq(Slots \X Workers)
        /\ list' \in [Workers -> 0..loads']
        /\ \A c \in Pending' : c[1] = "loop"
    BY <2>1, TypeAnswer
  <2>3. ping' \in [1..size' -> 0..loads'] /\ current' \in 0..loads'
    BY <1>4, <2>2 DEF HubsAnswered, modelVars, TypeInv, TypeOK
  <2>4. mHubToPing' \in BOOLEAN
    BY <1>4 DEF HubsAnswered, TypeInv, TypeOK
  <2> QED
    BY <1>4, <2>1, <2>2, <2>3, <2>4
    DEF HubsAnswered, TypeInv, TypeOK, Answer, workerVars, modelVars
<1>5. ASSUME NEW w \in Workers, PingEnds(w)
      PROVE  TypeInv'
  <2>1. PICK slots \in {<<"pingComplete">>, <<"pingError">>, <<"pingError", "pingComplete">>} :
          Event(w, slots)
    BY <1>5 DEF PingEnds
  <2>2. slots \in Seq(Slots)
    <3>1. "pingComplete" \in Slots /\ "pingError" \in Slots
      BY DEF Slots
    <3>2. /\ <<"pingComplete">> \in Seq(Slots) /\ <<"pingError">> \in Seq(Slots)
          /\ <<"pingError", "pingComplete">> \in Seq(Slots)
      BY <3>1
    <3> QED
      BY <2>1, <3>2
  <2>3. calls' \in Seq(Slots \X Workers) /\ Pending' = {<<s, w>> : s \in In(slots)}
    BY <2>1, <2>2, EventCalls
  <2>4. process' = [process EXCEPT ![w] = "ended"] /\ process[w] # "none"
    BY <1>5 DEF PingEnds
  <2>5. /\ process' \in [Workers -> Processes]
        /\ \A v \in Workers : process'[v] = "none" <=> process[v] = "none"
    BY <2>4 DEF TypeInv, TypeOK, Processes
  <2>6. \A c \in Pending' : c[1] # "loop" => process'[c[2]] # "none"
    BY <2>3, <2>4, <2>5
  <2>7. UNCHANGED <<modelVars, queueVars, server, connections, loadVars, list, answered,
                    interrupted, timer>>
    BY <1>5, <2>1 DEF PingEnds, Event
  <2> QED
    BY <2>3, <2>5, <2>6, <2>7 DEF TypeInv, TypeOK, modelVars, queueVars, loadVars
<1>6. ASSUME NEW w \in Workers, Timeout(w)
      PROVE  TypeInv'
  <2> DEFINE slots == [i \in 1..connections[w] |-> "pingTerminated"]
  <2>1. slots \in Seq(Slots) /\ Event(w, slots)
    <3>1. connections[w] \in Nat
      BY DEF TypeInv, TypeOK
    <3> QED
      BY <1>6, <3>1 DEF Timeout, Slots
  <2>2. calls' \in Seq(Slots \X Workers) /\ Pending' = {<<s, w>> : s \in In(slots)}
    BY <2>1, EventCalls
  <2>3. timer' = [timer EXCEPT ![w] = FALSE] /\ process' = process /\ process[w] # "none"
    <3>1. timer' = [timer EXCEPT ![w] = FALSE] /\ process' = process /\ timer[w]
      BY <1>6 DEF Timeout
    <3>2. process[w] = "none" => ~timer[w]
      BY DEF TypeInv, TypeOK
    <3> QED
      BY <3>1, <3>2
  <2> QED
    BY <2>1, <2>2, <2>3
    DEF Event, TypeInv, TypeOK, modelVars, queueVars, loadVars
<1>7. ASSUME NEW w \in Workers, StartWorker(w)
      PROVE  TypeInv'
  <2>1. /\ calls' \in Seq(Slots \X Workers)
        /\ Pending' \subseteq Pending
    BY <1>7, TypeTail DEF StartWorker, Pending
  <2>2. UNCHANGED <<size, ping, loads, current, shrunk, answered>>
    BY <1>7 DEF StartWorker, modelVars, loadVars
  <2>3. CASE mToPing # <<>>
    <3>1. /\ mToPing' = Tail(mToPing) /\ Tail(mToPing) \in Seq(Nat \ {0})
          /\ Head(mToPing) \in Nat \ {0}
          /\ mHubToPing' = mHubToPing
      BY <1>7, <2>3, TakeHead DEF StartWorker, TypeInv, TypeOK
    <3>2. CASE Head(mToPing) <= size
      <4>1. StartPing(w, Head(mToPing))
        BY <1>7, <2>3, <3>2 DEF StartWorker
      <4>2. /\ process' \in [Workers -> Processes]
            /\ server' \in [Workers -> Nat]
            /\ timer' \in [Workers -> BOOLEAN]
            /\ connections' \in [Workers -> Nat]
            /\ list' \in [Workers -> 0..loads]
            /\ interrupted' \in BOOLEAN
            /\ \A v \in Workers : process'[v] = "none" => ~timer'[v] /\ connections'[v] = 0
            /\ \A v \in Workers : process'[v] # "none" => server'[v] # 0
            /\ \A v \in Workers : process[v] # "none" => process'[v] # "none"
        BY <3>1, <4>1, TypeStartPing
      <4>3. \A c \in Pending' : c[1] # "loop" => process'[c[2]] # "none"
        <5>1. \A c \in Pending : c[2] \in Workers
          BY DEF Pending, In, TypeInv, TypeOK
        <5> QED
          BY <2>1, <4>2, <5>1 DEF TypeInv
      <4> QED
        BY <2>1, <2>2, <3>1, <4>2, <4>3 DEF TypeInv, TypeOK
    <3>3. CASE ~(Head(mToPing) <= size)
      <4>1. UNCHANGED <<workerVars, list, interrupted>>
        BY <1>7, <2>3, <3>3 DEF StartWorker
      <4> QED
        BY <2>1, <2>2, <3>1, <4>1 DEF TypeInv, TypeOK, workerVars
    <3> QED
      BY <3>2, <3>3
  <2>4. CASE mToPing = <<>>
    BY <1>7, <2>1, <2>2, <2>4 DEF StartWorker, TypeInv, TypeOK, workerVars
  <2> QED
    BY <2>3, <2>4
<1>8. ASSUME NEW w \in Workers, TakeResult(w)
      PROVE  TypeInv'
  <2>1. PICK slot \in {"pingComplete", "pingError"} : Call(slot, w)
    BY <1>8 DEF TakeResult
  <2>2. process[w] # "none" /\ SetPing(w)
    BY <1>8 DEF TakeResult
  <2>3. /\ ping' \in [1..size -> 0..loads]
        /\ answered' \subseteq 1..size
        /\ calls' \in Seq(Slots \X Workers)
        /\ Pending' = {<<"next", w>>} \cup In(Tail(calls))
    BY <2>1, <2>2, TypeSetPing
  <2>4. In(Tail(calls)) \subseteq Pending
    BY <2>1, TypeTail
  <2>5. UNCHANGED <<size, queueVars, server, connections, loadVars, list, interrupted, process>>
        /\ timer' = [timer EXCEPT ![w] = FALSE]
    BY <1>8 DEF TakeResult, SetPing
  <2>6. /\ timer' \in [Workers -> BOOLEAN]
        /\ \A v \in Workers : timer'[v] => timer[v]
    BY <2>5 DEF TypeInv, TypeOK
  <2>7. \A c \in Pending' : c[1] # "loop" => process'[c[2]] # "none"
    BY <2>2, <2>3, <2>4, <2>5 DEF TypeInv
  <2> QED
    BY <2>3, <2>5, <2>6, <2>7 DEF TypeInv, TypeOK, queueVars, loadVars
<1>9. ASSUME NEW w \in Workers, MissEnd(w)
      PROVE  TypeInv'
  <2>1. calls' \in Seq(Slots \X Workers) /\ Pending' \subseteq Pending
    BY <1>9, TypeTail DEF MissEnd, Pending
  <2> QED
    BY <1>9, <2>1 DEF MissEnd, TypeInv, TypeOK, modelVars, queueVars, workerVars, loadVars
<1>10. ASSUME NEW w \in Workers, PingTerminated(w)
       PROVE  TypeInv'
  <2>1. Call("pingTerminated", w) /\ SetPing(w)
    BY <1>10 DEF PingTerminated
  <2>2. <<"pingTerminated", w>> \in Pending /\ In(Tail(calls)) \subseteq Pending
    BY <2>1, TypeTail
  <2>3. process[w] # "none"
    BY <2>2 DEF TypeInv
  <2>4. /\ ping' \in [1..size -> 0..loads]
        /\ answered' \subseteq 1..size
        /\ calls' \in Seq(Slots \X Workers)
        /\ Pending' = {<<"next", w>>} \cup In(Tail(calls))
    BY <2>1, <2>3, TypeSetPing
  <2>5. UNCHANGED <<size, queueVars, server, connections, loadVars, list, interrupted, timer>>
    BY <1>10 DEF PingTerminated, SetPing
  <2>6. /\ process' \in [Workers -> Processes]
        /\ \A v \in Workers : process'[v] = "none" <=> process[v] = "none"
    BY <1>10, <2>3 DEF PingTerminated, TypeInv, TypeOK, Processes
  <2>7. \A c \in Pending' : c[1] # "loop" => process'[c[2]] # "none"
    <3>1. \A c \in Pending : c[2] \in Workers
      BY DEF Pending, In, TypeInv, TypeOK
    <3> QED
      BY <2>2, <2>3, <2>4, <2>6, <3>1 DEF TypeInv
  <2> QED
    BY <2>4, <2>5, <2>6, <2>7 DEF TypeInv, TypeOK, queueVars, loadVars
<1> QED
  BY <1>1, <1>2, <1>3, <1>4, <1>5, <1>6, <1>7, <1>8, <1>9, <1>10 DEF Next, Calls

\* The types, and what they rest on, always.
LEMMA TypeAlways == Spec => []TypeInv
BY TypeInit, TypeNext, PTL DEF Spec

\* Every variable keeps its type (TypeOK).
THEOREM PoolTypeCorrect == Spec => []TypeOK
<1>1. TypeInv => TypeOK
  BY DEF TypeInv
<1> QED
  BY <1>1, TypeAlways, PTL

-----------------------------------------------------------------------------
(* Workers.                                                                *)

Busy(w) == process[w] = "running" \/ \E c \in Pending : c[2] = w /\ c[1] # "pingTerminated"

Waiting == mToPing # <<>> \/ mHubToPing

Ends(w) == {<<"pingComplete", w>>, <<"pingError", w>>}

\* AtWork, and what it rests on: a timer that runs was connected, the end of a process is
\* heard while it is the worker's process or after another one took its place, and only
\* a shorter list leaves ids in the queue that are not in the list.
WorkInv ==
    /\ \A w \in Workers : process[w] = "running" => timer[w] \/ <<"pingTerminated", w>> \in Pending
    /\ Waiting /\ ~shrunk => \A w \in Workers : Busy(w)
    /\ \A w \in Workers : timer[w] => connections[w] # 0
    /\ \A w \in Workers : Pending \cap Ends(w) # {} =>
         process[w] \in {"ended", "running"} /\ <<"pingTerminated", w>> \notin Pending
    /\ ~shrunk => \A id \in In(mToPing) : id <= size

\* The first state: nothing waits.
LEMMA WorkInit == Init => WorkInv
<1> SUFFICES ASSUME Init PROVE WorkInv
  OBVIOUS
<1>1. Pending = {} /\ In(mToPing) = {}
  BY DEF Init, Pending, In
<1> QED
  BY <1>1 DEF Init, WorkInv, Waiting

\* An event that begins finds no call of the one before.
LEMMA NothingPending ==
    ASSUME calls = <<>>
    PROVE  Pending = {}
BY DEF Pending, In

\* What an answer does to the workers.
LEMMA WorkAnswer ==
    ASSUME TypeInv, WorkInv, Answer, ~shrunk' => \A id \in In(mToPing') : id <= size'
    PROVE  WorkInv'
<1>1. Pending = {}
  BY NothingPending DEF Answer
<1>2. Pending' = {<<"loop", w>> : w \in Workers}
  BY LoopCalls DEF Answer
<1>3. UNCHANGED <<process, timer, connections>>
  BY DEF Answer, workerVars
<1>4. \A w \in Workers : process'[w] = "running" => timer'[w]
  BY <1>1, <1>3 DEF WorkInv
<1>5. \A w \in Workers : Busy(w)'
  <2>1. ASSUME NEW w \in Workers
        PROVE  \E c \in Pending' : c[2] = w /\ c[1] # "pingTerminated"
    <3>1. <<"loop", w>> \in Pending' /\ <<"loop", w>>[1] = "loop" /\ <<"loop", w>>[2] = w
      BY <1>2
    <3> QED
      BY <3>1
  <2> QED
    BY <2>1 DEF Busy
<1>6. \A w \in Workers : Pending' \cap Ends(w) = {}
  BY <1>2 DEF Ends
<1> QED
  BY <1>3, <1>4, <1>5, <1>6 DEF WorkInv

\* Each action keeps the workers at work.
LEMMA WorkNext ==
    ASSUME TypeInv, WorkInv, [Next]_vars
    PROVE  WorkInv'
<1>1. CASE UNCHANGED vars
  BY <1>1 DEF WorkInv, Waiting, Busy, Pending, vars, modelVars, queueVars, workerVars, loadVars
<1>2. ASSUME NEW n \in Sizes, ServersLoaded(n)
      PROVE  WorkInv'
  <2>1. n \in Nat /\ size \in Nat
    BY PoolAssumption DEF TypeInv, TypeOK
  <2>2. Answer /\ size' = n /\ mToPing' = mToPing \o Ids(n) /\ shrunk' = (shrunk \/ n < size)
    BY <1>2 DEF ServersLoaded
  <2>3. In(mToPing') = In(mToPing) \cup 1..n
    <3>1. Ids(n) \in Seq(Nat \ {0}) /\ mToPing \in Seq(Nat \ {0}) /\ In(Ids(n)) = 1..n
      BY <2>1, IdsAre DEF TypeInv, TypeOK
    <3>2. In(mToPing \o Ids(n)) = In(mToPing) \cup In(Ids(n))
      <4>1. ASSUME NEW q \in Seq(Nat \ {0}), NEW t \in Seq(Nat \ {0})
            PROVE  In(q \o t) = In(q) \cup In(t)
        BY PutLast
      <4> QED
        BY <3>1, <4>1, Zenon
    <3> QED
      BY <2>2, <3>1, <3>2, Zenon
  <2>4. ~shrunk' => ~shrunk /\ ~(n < size)
    BY <2>2
  <2>5. \A id \in In(mToPing) : id \in Nat
    BY DEF In, TypeInv, TypeOK
  <2>6. ASSUME ~shrunk', NEW id \in In(mToPing')
        PROVE  id <= size'
    <3>1. id \in In(mToPing) => id <= size
      BY <2>4, <2>6 DEF WorkInv
    <3> QED
      BY <2>1, <2>2, <2>3, <2>4, <2>5, <2>6, <3>1
  <2> QED
    BY <2>2, <2>6, WorkAnswer
<1>3. ASSUME ServersFailed
      PROVE  WorkInv'
  <2>1. /\ Answer /\ mToPing' = mToPing \o Ids(size)
        /\ UNCHANGED <<size, shrunk>> /\ size \in Nat
    BY <1>3 DEF ServersFailed, modelVars, TypeInv, TypeOK
  <2>2. In(mToPing') = In(mToPing) \cup 1..size
    <3>1. Ids(size) \in Seq(Nat \ {0}) /\ mToPing \in Seq(Nat \ {0}) /\ In(Ids(size)) = 1..size
      BY <2>1, IdsAre DEF TypeInv, TypeOK
    <3> QED
      BY <2>1, <3>1, PutLast
  <2>3. ~shrunk' => \A id \in In(mToPing') : id <= size'
    BY <2>1, <2>2 DEF WorkInv
  <2> QED
    BY <2>1, <2>3, WorkAnswer
<1>4. ASSUME HubsAnswered
      PROVE  WorkInv'
  <2>1. Answer /\ UNCHANGED <<size, shrunk, mToPing>>
    BY <1>4 DEF HubsAnswered, modelVars
  <2>2. ~shrunk' => \A id \in In(mToPing') : id <= size'
    BY <2>1 DEF WorkInv
  <2> QED
    BY <2>1, <2>2, WorkAnswer
<1>5. ASSUME NEW w \in Workers, PingEnds(w)
      PROVE  WorkInv'
  <2>1. PICK slots \in {<<"pingComplete">>, <<"pingError">>, <<"pingError", "pingComplete">>} :
          Event(w, slots)
    BY <1>5 DEF PingEnds
  <2>2. slots \in Seq(Slots)
    <3>1. "pingComplete" \in Slots /\ "pingError" \in Slots
      BY DEF Slots
    <3>2. /\ <<"pingComplete">> \in Seq(Slots) /\ <<"pingError">> \in Seq(Slots)
          /\ <<"pingError", "pingComplete">> \in Seq(Slots)
      BY <3>1
    <3> QED
      BY <2>1, <3>2
  <2>3. Pending' = {<<s, w>> : s \in In(slots)} /\ Pending = {}
    BY <2>1, <2>2, EventCalls, NothingPending DEF Event
  <2>4. In(slots) \subseteq {"pingComplete", "pingError"} /\ In(slots) # {}
    BY <2>1 DEF In
  <2>5. /\ process' = [process EXCEPT ![w] = "ended"]
        /\ UNCHANGED <<queueVars, size, shrunk, timer, connections>>
    BY <1>5, <2>1 DEF PingEnds, Event, modelVars, queueVars, loadVars
  <2>6. process \in [Workers -> Processes]
    BY DEF TypeInv, TypeOK
  <2>7. \A v \in Workers : process'[v] = "running" => timer'[v]
    BY <2>3, <2>5, <2>6 DEF WorkInv
  <2>8. \A v \in Workers : Busy(v) => Busy(v)'
    <3>1. PICK s \in In(slots) : s # "pingTerminated"
      BY <2>4
    <3>2. <<s, w>> \in Pending' /\ <<s, w>>[1] = s /\ <<s, w>>[2] = w
      BY <2>3
    <3>3. Busy(w)'
      BY <3>1, <3>2 DEF Busy
    <3> QED
      BY <2>3, <2>5, <2>6, <3>3 DEF Busy
  <2>9. \A v \in Workers : Pending' \cap Ends(v) # {} =>
          process'[v] \in {"ended", "running"} /\ <<"pingTerminated", v>> \notin Pending'
    BY <2>3, <2>4, <2>5, <2>6 DEF Ends
  <2> QED
    BY <2>5, <2>7, <2>8, <2>9 DEF WorkInv, Waiting, queueVars
<1>6. ASSUME NEW w \in Workers, Timeout(w)
      PROVE  WorkInv'
  <2> DEFINE slots == [i \in 1..connections[w] |-> "pingTerminated"]
  <2>1. connections[w] \in Nat \ {0}
    BY <1>6 DEF Timeout, WorkInv, TypeInv, TypeOK
  <2>2. slots \in Seq(Slots) /\ Event(w, slots) /\ In(slots) = {"pingTerminated"}
    BY <1>6, <2>1 DEF Timeout, Slots, In
  <2> HIDE DEF slots
  <2>3. Pending' = {<<"pingTerminated", w>>} /\ Pending = {}
    BY <2>2, EventCalls, NothingPending DEF Event
  <2>4. /\ timer' = [timer EXCEPT ![w] = FALSE]
        /\ UNCHANGED <<queueVars, size, shrunk, process, connections>>
    BY <1>6, <2>2 DEF Timeout, Event, modelVars, queueVars, loadVars
  <2>5. timer \in [Workers -> BOOLEAN]
    BY DEF TypeInv, TypeOK
  <2>6. \A v \in Workers : process'[v] = "running" => timer'[v] \/ <<"pingTerminated", v>> \in Pending'
    BY <2>3, <2>4, <2>5 DEF WorkInv
  <2>7. \A v \in Workers : Busy(v) => Busy(v)'
    BY <2>3, <2>4 DEF Busy
  <2>8. \A v \in Workers : Pending' \cap Ends(v) = {}
    BY <2>3 DEF Ends
  <2>9. \A v \in Workers : timer'[v] => timer[v]
    BY <2>4, <2>5
  <2> QED
    BY <2>4, <2>6, <2>7, <2>8, <2>9 DEF WorkInv, Waiting, queueVars
<1>7. ASSUME NEW w \in Workers, StartWorker(w)
      PROVE  WorkInv'
  <2>1. PICK slot \in {"loop", "next"} : Call(slot, w)
    BY <1>7 DEF StartWorker
  <2>2. Pending = {<<slot, w>>} \cup Pending'
    BY <1>7, <2>1, TypeTail DEF StartWorker, Pending
  <2>3. \A v \in Workers : v # w =>
          \A c : c[2] = v => (c \in Pending <=> c \in Pending')
    BY <2>2
  <2>4. \A v \in Workers : /\ Pending' \cap Ends(v) = Pending \cap Ends(v)
                           /\ <<"pingTerminated", v>> \in Pending' <=> <<"pingTerminated", v>> \in Pending
    BY <2>1, <2>2 DEF Ends
  <2>5. UNCHANGED <<size, shrunk>>
    BY <1>7 DEF StartWorker, modelVars, loadVars
  <2>6. CASE mToPing = <<>>
    <3>1. ~Waiting' /\ UNCHANGED <<mToPing, process, timer, connections>>
      BY <1>7, <2>6 DEF StartWorker, Waiting, workerVars
    <3> QED
      BY <2>4, <2>5, <2>6, <3>1 DEF WorkInv
  <2>7. CASE mToPing # <<>>
    <3>1. mToPing' = Tail(mToPing) /\ mHubToPing' = mHubToPing
      BY <1>7, <2>7 DEF StartWorker
    <3>2. In(mToPing) = {Head(mToPing)} \cup In(mToPing')
      BY <2>7, <3>1, TakeHead DEF TypeInv, TypeOK
    <3>3. \A id \in In(mToPing') : id \in In(mToPing)
      BY <3>2
    <3>4. CASE Head(mToPing) <= size
      <4>1. StartPing(w, Head(mToPing))
        BY <1>7, <2>7, <3>4 DEF StartWorker
      <4>2. /\ process' = [process EXCEPT ![w] = "running"]
            /\ timer' = [timer EXCEPT ![w] = TRUE]
            /\ process \in [Workers -> Processes] /\ timer \in [Workers -> BOOLEAN]
        BY <4>1 DEF StartPing, TypeInv, TypeOK
      <4>3. \A v \in Workers : timer'[v] => connections'[v] # 0
        <5>1. /\ connections' = [connections EXCEPT ![w] = @ + 1]
              /\ connections \in [Workers -> Nat]
          BY <4>1 DEF StartPing, TypeInv, TypeOK
        <5>2. connections'[w] # 0
          BY <5>1
        <5>3. \A v \in Workers : v # w => connections'[v] = connections[v] /\ timer'[v] = timer[v]
          BY <4>2, <5>1
        <5> QED
          BY <5>2, <5>3 DEF WorkInv
      <4>4. \A v \in Workers : process'[v] = "running" => timer'[v] \/ <<"pingTerminated", v>> \in Pending'
        BY <2>4, <4>2 DEF WorkInv
      <4>5. \A v \in Workers : Busy(v) => Busy(v)'
        BY <2>3, <4>2 DEF Busy
      <4>6. \A v \in Workers : Pending' \cap Ends(v) # {} =>
              process'[v] \in {"ended", "running"} /\ <<"pingTerminated", v>> \notin Pending'
        BY <2>4, <4>2 DEF WorkInv
      <4>7. Waiting' /\ ~shrunk' => \A v \in Workers : Busy(v)'
        BY <2>5, <2>7, <4>5 DEF WorkInv, Waiting
      <4> QED
        BY <2>5, <3>3, <4>3, <4>4, <4>6, <4>7 DEF WorkInv
    <3>5. CASE ~(Head(mToPing) <= size)
      <4>1. shrunk'
        BY <2>5, <3>2, <3>5 DEF WorkInv
      <4>2. UNCHANGED <<process, timer, connections>>
        BY <1>7, <2>7, <3>5 DEF StartWorker, workerVars
      <4> QED
        BY <2>4, <4>1, <4>2 DEF WorkInv
    <3> QED
      BY <3>4, <3>5
  <2> QED
    BY <2>6, <2>7
<1>8. ASSUME NEW w \in Workers, TakeResult(w) \/ PingTerminated(w)
      PROVE  WorkInv'
  <2>1. PICK slot \in {"pingComplete", "pingError", "pingTerminated"} : Call(slot, w)
    BY <1>8 DEF TakeResult, PingTerminated
  <2>2. <<slot, w>> \in Pending /\ Pending = {<<slot, w>>} \cup In(Tail(calls))
    BY <2>1, TypeTail
  <2>3. process[w] # "none"
    BY <2>1, <2>2 DEF TypeInv
  <2>4. SetPing(w)
    BY <1>8 DEF TakeResult, PingTerminated
  <2>5. Pending' = {<<"next", w>>} \cup In(Tail(calls))
    BY <2>1, <2>3, <2>4, TypeSetPing
  <2>6. UNCHANGED <<queueVars, size, shrunk, connections>>
    BY <2>4 DEF SetPing, queueVars, loadVars
  <2>7. /\ process \in [Workers -> Processes] /\ timer \in [Workers -> BOOLEAN]
        /\ \A v \in Workers : v # w => process'[v] = process[v] /\ timer'[v] = timer[v]
        /\ process'[w] # "running"
        /\ \A v \in Workers : timer'[v] => timer[v]
    BY <1>8 DEF TakeResult, PingTerminated, TypeInv, TypeOK
  <2>8. \A v \in Workers : v # w =>
          \A c : c[2] = v => (c \in Pending <=> c \in Pending')
    BY <2>2, <2>5
  <2>9. \A v \in Workers : process'[v] = "running" => timer'[v] \/ <<"pingTerminated", v>> \in Pending'
    BY <2>7, <2>8 DEF WorkInv
  <2>10. \A v \in Workers : Busy(v) => Busy(v)'
    <3>1. <<"next", w>> \in Pending' /\ <<"next", w>>[1] = "next" /\ <<"next", w>>[2] = w
      BY <2>5
    <3>2. Busy(w)'
      BY <3>1 DEF Busy
    <3> QED
      BY <2>7, <2>8, <3>2 DEF Busy
  <2>11. ASSUME NEW v \in Workers, Pending' \cap Ends(v) # {}
         PROVE  process'[v] \in {"ended", "running"} /\ <<"pingTerminated", v>> \notin Pending'
    <3>1. Pending \cap Ends(v) # {} /\ <<"pingTerminated", v>> \in Pending' => <<"pingTerminated", v>> \in Pending
      BY <2>2, <2>5, <2>11 DEF Ends
    <3>2. process[v] \in {"ended", "running"} /\ <<"pingTerminated", v>> \notin Pending
      BY <2>2, <2>5, <2>11, <3>1 DEF WorkInv, Ends
    <3>3. v = w => process'[v] = process[v]
      BY <1>8, <2>2, <3>2, TypeTail DEF TakeResult, PingTerminated
    <3> QED
      BY <2>2, <2>5, <2>7, <3>1, <3>2, <3>3
  <2> QED
    BY <2>6, <2>7, <2>9, <2>10, <2>11 DEF WorkInv, Waiting, queueVars
<1>9. ASSUME NEW w \in Workers, MissEnd(w)
      PROVE  WorkInv'
  <2>1. Call("pingComplete", w) /\ process[w] # "ended" /\ calls' = Tail(calls)
    BY <1>9 DEF MissEnd
  <2>2. <<"pingComplete", w>> \in Pending /\ Pending = {<<"pingComplete", w>>} \cup Pending'
    BY <2>1, TypeTail DEF Pending
  <2>3. UNCHANGED <<queueVars, size, shrunk, process, timer, connections>>
    BY <1>9 DEF MissEnd, modelVars, queueVars, workerVars, loadVars
  <2>4. process[w] = "running"
    BY <2>1, <2>2 DEF WorkInv, Ends
  <2>5. \A v \in Workers : v # w => \A c : c[2] = v => (c \in Pending <=> c \in Pending')
    BY <2>2
  <2>6. \A v \in Workers : Busy(v) => Busy(v)'
    BY <2>3, <2>4, <2>5 DEF Busy
  <2>7. \A v \in Workers : <<"pingTerminated", v>> \in Pending <=> <<"pingTerminated", v>> \in Pending'
    BY <2>2
  <2>8. \A v \in Workers : Pending' \cap Ends(v) \subseteq Pending \cap Ends(v)
    BY <2>2
  <2> QED
    BY <2>3, <2>6, <2>7, <2>8 DEF WorkInv, Waiting, queueVars
<1> QED
  BY <1>1, <1>2, <1>3, <1>4, <1>5, <1>6, <1>7, <1>8, <1>9 DEF Next, Calls

\* The workers, and what their calls can be, always.
LEMMA WorkAlways == Spec => []WorkInv
<1>1. Init => TypeInv /\ WorkInv
  BY TypeInit, WorkInit
<1>2. TypeInv /\ WorkInv /\ [Next]_vars => (TypeInv /\ WorkInv)'
  BY TypeNext, WorkNext
<1> QED
  BY <1>1, <1>2, PTL DEF Spec

\* No worker idles while servers wait, and no process is left untimed (AtWork).
THEOREM WorkersAreAtWork == Spec => []AtWork
<1>1. WorkInv => AtWork
  BY DEF WorkInv, Waiting, AtWork, Busy, Starts, Terminates, Pending, In
<1> QED
  BY <1>1, WorkAlways, PTL

-----------------------------------------------------------------------------
(* Servers.                                                                *)

Has(id) == id \in In(mToPing) \/ id \in answered \/ \E w \in Workers : Pinging(w, id)

\* NoServerIsLost, and what it rests on: a process of the current list that ended, or was
\* terminated, gave its server its answer, or is about to.
LossInv ==
    /\ ~interrupted /\ ~shrunk => \A id \in 1..size : Has(id)
    /\ \A w \in Workers :
         process[w] \in {"ended", "terminated"} /\ list[w] = current /\ server[w] <= size =>
             server[w] \in answered \/ (calls # <<>> /\ Head(calls) \in Ends(w))

\* The first state: there is no server to lose.
LEMMA LossInit == Init => LossInv
BY DEF Init, LossInv

\* A list that is pinged again.
LEMMA LossAnswer ==
    ASSUME TypeInv, LossInv, Answer, UNCHANGED <<modelVars, current, answered, shrunk>>,
           In(mToPing) \subseteq In(mToPing')
    PROVE  LossInv'
<1>1. UNCHANGED <<size, current, answered, process, server, list, interrupted, shrunk>>
  BY DEF Answer, modelVars, workerVars
<1>2. calls = <<>>
  BY DEF Answer
<1>3. \A w \in Workers : \A id \in 1..size : Pinging(w, id) => Pinging(w, id)'
  BY <1>1, <1>2 DEF Pinging
<1>4. \A id \in 1..size : Has(id) => Has(id)'
  BY <1>1, <1>3 DEF Has
<1>5. ~interrupted' /\ ~shrunk' => \A id \in 1..size' : Has(id)'
  BY <1>1, <1>4 DEF LossInv
<1>6. \A w \in Workers :
        process'[w] \in {"ended", "terminated"} /\ list'[w] = current' /\ server'[w] <= size' =>
            server'[w] \in answered'
  BY <1>1, <1>2 DEF LossInv
<1> QED
  BY <1>5, <1>6 DEF LossInv

\* One takes the answer of its process.
LEMMA LossSetPing ==
    ASSUME TypeInv, LossInv, NEW w \in Workers, NEW slot, Call(slot, w), SetPing(w),
           process' = process \/ process' = [process EXCEPT ![w] = "terminated"]
    PROVE  LossInv'
<1>1. UNCHANGED <<size, mToPing, current, server, list, interrupted, shrunk>>
  BY DEF SetPing, queueVars, loadVars
<1>2. \A v \in Workers : v # w => process'[v] = process[v]
  BY DEF TypeInv, TypeOK
<1>3. answered \subseteq answered'
  BY DEF SetPing
<1>4. list[w] = current /\ server[w] <= size => server[w] \in answered'
  BY DEF SetPing
<1>5. calls # <<>> /\ Head(calls) = <<slot, w>>
  BY DEF Call
<1>6. calls' # <<>>
  <2>1. w \in Workers /\ Tail(calls) \in Seq(Slots \X Workers)
    BY TypeTail
  <2>2. <<"next", w>> \in Slots \X Workers
    BY DEF Slots
  <2>3. calls' = <<<<"next", w>>>> \o Tail(calls)
    BY DEF SetPing
  <2> QED
    BY <2>1, <2>2, <2>3, PutFirst
<1>7. ASSUME NEW id \in 1..size, Has(id)
      PROVE  Has(id)'
  <2>1. CASE id \in In(mToPing) \/ id \in answered
    BY <1>1, <1>3, <2>1 DEF Has
  <2>2. CASE Pinging(w, id)
    BY <1>4, <2>2 DEF Has, Pinging
  <2>3. ASSUME NEW v \in Workers, v # w, Pinging(v, id)
        PROVE  Has(id)'
    <3>1. Pinging(v, id)'
      BY <1>1, <1>2, <1>6, <2>3 DEF Pinging
    <3> QED
      BY <3>1 DEF Has
  <2> QED
    BY <1>7, <2>1, <2>2, <2>3 DEF Has
<1>8. ASSUME NEW v \in Workers,
             process'[v] \in {"ended", "terminated"}, list[v] = current, server[v] <= size
      PROVE  server[v] \in answered'
  <2>1. CASE v = w
    BY <1>4, <1>8, <2>1
  <2>2. CASE v # w
    <3>1. Head(calls) \notin Ends(v)
      BY <1>5, <2>2 DEF Ends
    <3> QED
      BY <1>2, <1>3, <1>8, <2>2, <3>1 DEF LossInv
  <2> QED
    BY <2>1, <2>2
<1> QED
  BY <1>1, <1>7, <1>8 DEF LossInv

\* A call is taken that is not the end of a process that waits to be answered.
LEMMA LossCall ==
    ASSUME TypeInv, LossInv, NEW w \in Workers, NEW slot, Call(slot, w),
           <<slot, w>> \in Ends(w) => process[w] = "running",
           UNCHANGED <<size, answered, current, shrunk>>
    PROVE  /\ \A v \in Workers : process[v] \in {"ended", "terminated"} /\ list[v] = current
                                   /\ server[v] <= size => server[v] \in answered
           /\ \A v \in Workers, id \in 1..size :
                Pinging(v, id) => process[v] = "running" \/ id \in answered
<1>1. \A v \in Workers : Head(calls) \in Ends(v) => v = w /\ process[w] = "running"
  BY DEF Call, Ends
<1>2. \A v \in Workers : process[v] \in {"ended", "terminated"} /\ list[v] = current
                           /\ server[v] <= size => server[v] \in answered
  BY <1>1 DEF LossInv
<1>3. ASSUME NEW v \in Workers, NEW id \in 1..size, Pinging(v, id)
      PROVE  process[v] = "running" \/ id \in answered
  <2>1. id <= size
    BY DEF TypeInv, TypeOK
  <2> QED
    BY <1>2, <1>3, <2>1 DEF Pinging
<1> QED
  BY <1>2, <1>3

\* Each action keeps every server.
LEMMA LossNext ==
    ASSUME TypeInv, WorkInv, LossInv, [Next]_vars
    PROVE  LossInv'
<1>1. CASE UNCHANGED vars
  BY <1>1 DEF LossInv, Has, Pinging, vars, modelVars, queueVars, workerVars, loadVars
<1>2. ASSUME NEW n \in Sizes, ServersLoaded(n)
      PROVE  LossInv'
  <2>1. n \in Nat
    BY PoolAssumption
  <2>2. Answer /\ size' = n /\ mToPing' = mToPing \o Ids(n) /\ current' = loads'
    BY <1>2 DEF ServersLoaded
  <2>3. 1..n \subseteq In(mToPing')
    <3>1. Ids(n) \in Seq(Nat \ {0}) /\ mToPing \in Seq(Nat \ {0}) /\ In(Ids(n)) = 1..n
      BY <2>1, IdsAre DEF TypeInv, TypeOK
    <3>2. In(mToPing \o Ids(n)) = In(mToPing) \cup In(Ids(n))
      <4>1. ASSUME NEW q \in Seq(Nat \ {0}), NEW t \in Seq(Nat \ {0})
            PROVE  In(q \o t) = In(q) \cup In(t)
        BY PutLast
      <4> QED
        BY <3>1, <4>1, Zenon
    <3> QED
      BY <2>2, <3>1, <3>2, Zenon
  <2>4. \A w \in Workers : list'[w] # current'
    <3>1. loads' = loads + 1 /\ loads \in Nat /\ list' = list /\ list \in [Workers -> 0..loads]
      BY <2>2, PoolAssumption DEF Answer, TypeInv, TypeOK
    <3> QED
      BY <2>2, <3>1
  <2> QED
    BY <2>2, <2>3, <2>4 DEF LossInv, Has
<1>3. ASSUME ServersFailed
      PROVE  LossInv'
  <2>1. Answer /\ UNCHANGED <<modelVars, current, answered, shrunk>>
    BY <1>3 DEF ServersFailed
  <2>2. In(mToPing) \subseteq In(mToPing')
    <3>1. size \in Nat /\ mToPing \in Seq(Nat \ {0}) /\ mToPing' = mToPing \o Ids(size)
      BY <1>3 DEF ServersFailed, TypeInv, TypeOK
    <3>2. Ids(size) \in Seq(Nat \ {0})
      BY <3>1, IdsAre
    <3> QED
      BY <3>1, <3>2, PutLast
  <2> QED
    BY <2>1, <2>2, LossAnswer
<1>4. ASSUME HubsAnswered
      PROVE  LossInv'
  BY <1>4, LossAnswer DEF HubsAnswered
<1>5. ASSUME NEW w \in Workers, PingEnds(w)
      PROVE  LossInv'
  <2>1. PICK slots \in {<<"pingComplete">>, <<"pingError">>, <<"pingError", "pingComplete">>} :
          Event(w, slots)
    BY <1>5 DEF PingEnds
  <2>2. slots \in Seq(Slots) /\ slots # <<>> /\ <<slots[1], w>> \in Ends(w)
    <3>1. "pingComplete" \in Slots /\ "pingError" \in Slots
      BY DEF Slots
    <3>2. /\ <<"pingComplete">> \in Seq(Slots) /\ <<"pingError">> \in Seq(Slots)
          /\ <<"pingError", "pingComplete">> \in Seq(Slots)
      BY <3>1
    <3>3. slots # <<>> /\ slots[1] \in {"pingComplete", "pingError"}
      BY <2>1
    <3> QED
      BY <2>1, <3>2, <3>3 DEF Ends
  <2>3. calls' # <<>> /\ Head(calls') \in Ends(w)
    BY <2>1, <2>2, EventCalls
  <2>4. /\ process' = [process EXCEPT ![w] = "ended"] /\ process \in [Workers -> Processes]
        /\ calls = <<>>
        /\ UNCHANGED <<mToPing, size, server, list, current, answered, shrunk, interrupted>>
    BY <1>5, <2>1 DEF PingEnds, Event, modelVars, queueVars, loadVars, TypeInv, TypeOK
  <2>5. \A v \in Workers : \A id \in 1..size : Pinging(v, id) => Pinging(v, id)'
    BY <2>3, <2>4 DEF Pinging
  <2>6. \A id \in 1..size : Has(id) => Has(id)'
    BY <2>4, <2>5 DEF Has
  <2>7. ~interrupted' /\ ~shrunk' => \A id \in 1..size' : Has(id)'
    BY <2>4, <2>6 DEF LossInv
  <2>8. \A v \in Workers :
          process'[v] \in {"ended", "terminated"} /\ list'[v] = current' /\ server'[v] <= size' =>
              server'[v] \in answered' \/ (calls' # <<>> /\ Head(calls') \in Ends(v))
    BY <2>3, <2>4 DEF LossInv
  <2> QED
    BY <2>7, <2>8 DEF LossInv
<1>6. ASSUME NEW w \in Workers, Timeout(w)
      PROVE  LossInv'
  <2>1. /\ calls = <<>>
        /\ UNCHANGED <<mToPing, size, process, server, list, current, answered, shrunk, interrupted>>
    BY <1>6 DEF Timeout, Event, modelVars, queueVars, loadVars
  <2>2. \A v \in Workers : \A id \in 1..size : Pinging(v, id) => Pinging(v, id)'
    BY <2>1 DEF Pinging
  <2>3. \A id \in 1..size : Has(id) => Has(id)'
    BY <2>1, <2>2 DEF Has
  <2> QED
    BY <2>1, <2>3 DEF LossInv
<1>7. ASSUME NEW w \in Workers, StartWorker(w)
      PROVE  LossInv'
  <2>1. PICK slot \in {"loop", "next"} : Call(slot, w)
    BY <1>7 DEF StartWorker
  <2>2. UNCHANGED <<size, answered, current, shrunk>>
    BY <1>7 DEF StartWorker, modelVars, loadVars
  <2>3. /\ \A v \in Workers : process[v] \in {"ended", "terminated"} /\ list[v] = current
                                /\ server[v] <= size => server[v] \in answered
        /\ \A v \in Workers, id \in 1..size :
             Pinging(v, id) => process[v] = "running" \/ id \in answered
    BY <2>1, <2>2, LossCall DEF Ends
  <2>4. CASE UNCHANGED <<workerVars, list, interrupted>>
    <3>1. \A id \in 1..size : id \in In(mToPing) => id \in In(mToPing')
      <4>1. CASE mToPing = <<>>
        BY <1>7, <4>1 DEF StartWorker
      <4>2. CASE mToPing # <<>> /\ ~(Head(mToPing) <= size)
        <5>1. mToPing' = Tail(mToPing)
          BY <1>7, <4>2 DEF StartWorker
        <5>2. In(mToPing) = {Head(mToPing)} \cup In(mToPing')
          BY <4>2, <5>1, TakeHead DEF TypeInv, TypeOK
        <5>3. \A id \in 1..size : id # Head(mToPing)
          BY <4>2 DEF TypeInv, TypeOK
        <5> QED
          BY <5>2, <5>3
      <4>3. CASE mToPing # <<>> /\ Head(mToPing) <= size
        <5>1. connections' = [connections EXCEPT ![w] = @ + 1] /\ connections[w] \in Nat
          BY <1>7, <4>3 DEF StartWorker, StartPing, TypeInv, TypeOK
        <5>2. connections' = connections /\ connections \in [Workers -> Nat]
          BY <2>4 DEF workerVars, TypeInv, TypeOK
        <5>3. FALSE
          BY <5>1, <5>2
        <5> QED
          BY <5>3
      <4> QED
        BY <4>1, <4>2, <4>3
    <3>2. \A v \in Workers, id \in 1..size : Pinging(v, id) => Pinging(v, id)' \/ id \in answered
      BY <2>2, <2>3, <2>4 DEF Pinging, workerVars
    <3>3. \A id \in 1..size : Has(id) => Has(id)'
      BY <2>2, <3>1, <3>2 DEF Has
    <3> QED
      BY <2>2, <2>3, <2>4, <3>3 DEF LossInv, workerVars
  <2>5. CASE mToPing # <<>> /\ Head(mToPing) <= size
    <3> DEFINE h == Head(mToPing)
    <3>1. StartPing(w, h) /\ mToPing' = Tail(mToPing)
      BY <1>7, <2>5 DEF StartWorker
    <3>2. In(mToPing) = {h} \cup In(mToPing')
      BY <2>5, <3>1, TakeHead DEF TypeInv, TypeOK
    <3>3. /\ process' = [process EXCEPT ![w] = "running"]
          /\ server' = [server EXCEPT ![w] = h]
          /\ list' = [list EXCEPT ![w] = current]
          /\ process \in [Workers -> Processes]
          /\ server \in [Workers -> Nat]
          /\ list \in [Workers -> 0..loads]
      BY <3>1 DEF StartPing, TypeInv, TypeOK
    <3>4. ~interrupted' => process[w] # "running" /\ ~interrupted
      BY <3>1 DEF StartPing
    <3>5. ASSUME NEW id \in 1..size, id = h
          PROVE  Pinging(w, id)'
      BY <2>2, <3>3, <3>5 DEF Pinging
    <3>6. ASSUME NEW v \in Workers, NEW id \in 1..size, Pinging(v, id), process[w] # "running"
          PROVE  Pinging(v, id)' \/ id \in answered
      <4>1. CASE v = w
        BY <2>3, <3>6, <4>1
      <4>2. CASE v # w
        <5>1. process'[v] = process[v] /\ server'[v] = server[v] /\ list'[v] = list[v]
          BY <3>3, <4>2
        <5> QED
          BY <2>2, <2>3, <3>6, <5>1 DEF Pinging
      <4> QED
        BY <4>1, <4>2
    <3>7. ASSUME NEW id \in 1..size, Has(id), process[w] # "running"
          PROVE  Has(id)'
      BY <2>2, <3>2, <3>5, <3>6, <3>7 DEF Has
    <3>8. ~interrupted' /\ ~shrunk' => \A id \in 1..size' : Has(id)'
      BY <2>2, <3>4, <3>7 DEF LossInv
    <3>9. \A v \in Workers :
            process'[v] \in {"ended", "terminated"} /\ list'[v] = current' /\ server'[v] <= size' =>
                server'[v] \in answered'
      BY <2>2, <2>3, <3>3
    <3> QED
      BY <3>8, <3>9 DEF LossInv
  <2> QED
    BY <1>7, <2>4, <2>5 DEF StartWorker
<1>8. ASSUME NEW w \in Workers, TakeResult(w)
      PROVE  LossInv'
  BY <1>8, LossSetPing DEF TakeResult
<1>9. ASSUME NEW w \in Workers, MissEnd(w)
      PROVE  LossInv'
  <2>1. Call("pingComplete", w) /\ process[w] # "ended"
    BY <1>9 DEF MissEnd
  <2>2. process[w] = "running"
    BY <2>1, TypeTail DEF WorkInv, Ends
  <2>3. UNCHANGED <<mToPing, size, process, server, list, current, answered, shrunk, interrupted>>
    BY <1>9 DEF MissEnd, modelVars, queueVars, workerVars, loadVars
  <2>4. /\ \A v \in Workers : process[v] \in {"ended", "terminated"} /\ list[v] = current
                                /\ server[v] <= size => server[v] \in answered
        /\ \A v \in Workers, id \in 1..size :
             Pinging(v, id) => process[v] = "running" \/ id \in answered
    BY <2>1, <2>2, <2>3, LossCall
  <2>5. \A v \in Workers, id \in 1..size : Pinging(v, id) => Pinging(v, id)' \/ id \in answered
    BY <2>3, <2>4 DEF Pinging
  <2>6. \A id \in 1..size : Has(id) => Has(id)'
    BY <2>3, <2>5 DEF Has
  <2> QED
    BY <2>3, <2>4, <2>6 DEF LossInv
<1>10. ASSUME NEW w \in Workers, PingTerminated(w)
       PROVE  LossInv'
  <2>1. process' = process \/ process' = [process EXCEPT ![w] = "terminated"]
    BY <1>10 DEF PingTerminated, TypeInv, TypeOK
  <2> QED
    BY <1>10, <2>1, LossSetPing DEF PingTerminated
<1> QED
  BY <1>1, <1>2, <1>3, <1>4, <1>5, <1>6, <1>7, <1>8, <1>9, <1>10 DEF Next, Calls

\* No server is lost (NoServerIsLost).
THEOREM EveryServerIsKept == Spec => []NoServerIsLost
<1>1. Init => TypeInv /\ WorkInv /\ LossInv
  BY TypeInit, WorkInit, LossInit
<1>2. TypeInv /\ WorkInv /\ LossInv /\ [Next]_vars => (TypeInv /\ WorkInv /\ LossInv)'
  BY TypeNext, WorkNext, LossNext
<1>3. LossInv => NoServerIsLost
  BY DEF LossInv, NoServerIsLost, Has, Queued, In
<1> QED
  BY <1>1, <1>2, <1>3, PTL DEF Spec
=============================================================================
