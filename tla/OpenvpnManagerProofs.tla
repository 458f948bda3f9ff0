------------------------ MODULE OpenvpnManagerProofs ------------------------
(***************************************************************************)
(* The safety invariants of OpenvpnManager, each from an inductive         *)
(* invariant that TypeCorrect supports: a stop is final (QuietInv), the    *)
(* tunnel leads to the right server (ServerInv), and the manager never     *)
(* waits in Connecting for nothing (SupervisedInv).  After them, that      *)
(* OpenvpnManager implements ManagerInterface: its initial states are      *)
(* initial states of the interface, and each of its actions is an action   *)
(* of the interface or stutters there.                                     *)
(***************************************************************************)
EXTENDS OpenvpnManagerTypeProofs

-----------------------------------------------------------------------------
(* A stop is final.                                                        *)

\* A quiet manager stays quiet until cmdStart: every slot that could act finds its
\* request, its shot, its timer, its socket or its watcher gone.
LEMMA QuietStep ==
    ASSUME ConstantsAssumption, TypeOK, QuietInv, [Next]_vars
    PROVE  QuietInv'
<1> USE DEF QuietInv, QuietUntilStart, Pending, Fetching, Command, Fetched, Check, Parse, StateWord, OtherLine,
           Restarted, Stop, StopTunnel, DropSocket, SetState, TimerAfter, Idle,
           managerVars, pendingVars, outsideVars, processVars, historyVars
<1>1. ASSUME NEW h \in Hosts, CmdStart(h)
      PROVE  QuietInv'
  BY <1>1 DEF CmdStart, ConstantsAssumption
<1>2. CASE CmdStop
  BY <1>2 DEF CmdStop
<1>3. CASE CmdNetdown
  BY <1>3 DEF CmdNetdown
<1>4. CASE CmdKillRunningOpenvpn
  BY <1>4 DEF CmdKillRunningOpenvpn
<1>5. ASSUME NEW h \in Hosts, FetchFailed(h)
      PROVE  QuietInv'
  BY <1>5 DEF FetchFailed
<1>6. ASSUME NEW h \in Hosts, ConfigNotWritten(h)
      PROVE  QuietInv'
  BY <1>6 DEF ConfigNotWritten
<1>7. ASSUME NEW h \in Hosts, NotLaunched(h)
      PROVE  QuietInv'
  BY <1>7 DEF NotLaunched
<1>8. ASSUME NEW h \in Hosts, Launched(h)
      PROVE  QuietInv'
  BY <1>8 DEF Launched
<1>9. CASE CheckConnects
  BY <1>9 DEF CheckConnects
<1>10. CASE CheckPolls
  BY <1>10 DEF CheckPolls
<1>11. CASE CheckFindsCrash
  BY <1>11 DEF CheckFindsCrash
<1>12. CASE CheckReconnects
  BY <1>12 DEF CheckReconnects
<1>13. CASE CheckTimesOut
  BY <1>13 DEF CheckTimesOut
<1>14. CASE CheckIdles
  BY <1>14 DEF CheckIdles
<1>15. CASE ReconnectTimeout
  BY <1>15 DEF ReconnectTimeout
<1>16. CASE SocketConnected
  BY <1>16 DEF SocketConnected
<1>17. CASE SocketError
  BY <1>17 DEF SocketError
<1>18. CASE SocketReadyRead
  BY <1>18 DEF SocketReadyRead
<1>19. CASE OpenvpnLogfileChanged
  BY <1>19 DEF OpenvpnLogfileChanged
<1>20. CASE ConnectedWord
  BY <1>20 DEF ConnectedWord
<1>21. CASE ConnectingWord
  BY <1>21 DEF ConnectingWord
<1>22. CASE WaitWord
  BY <1>22 DEF WaitWord
<1>23. CASE ExitingWord
  BY <1>23 DEF ExitingWord
<1>24. CASE ResolveWord
  BY <1>24 DEF ResolveWord
<1>25. CASE QueryLine
  BY <1>25 DEF QueryLine
<1>26. CASE AuthFailedLine
  BY <1>26 DEF AuthFailedLine
<1>27. CASE FatalLine
  BY <1>27 DEF FatalLine
<1>28. CASE ErrorLine
  BY <1>28 DEF ErrorLine
<1>29. CASE TunErrorLine
  BY <1>29 DEF TunErrorLine
<1>30. CASE BindFailedLine
  BY <1>30 DEF BindFailedLine
<1>31. CASE InitCompletedLine
  BY <1>31 DEF InitCompletedLine
<1>32. CASE ServiceRestarts
  BY <1>32 DEF ServiceRestarts
<1>33. CASE QueryCrashes
  BY <1>33 DEF QueryCrashes
<1>34. CASE OpenvpnMoves
  BY <1>34 DEF OpenvpnMoves
<1>35. CASE OpenvpnLogs
  BY <1>35 DEF OpenvpnLogs
<1>36. CASE TimePasses
  BY <1>36 DEF TimePasses
<1>37. CASE UNCHANGED vars
  BY <1>37 DEF vars, managerVars, pendingVars, outsideVars, historyVars
<1> QED
  BY <1>1, <1>2, <1>3, <1>4, <1>5, <1>6, <1>7, <1>8, <1>9, <1>10, <1>11, <1>12,
     <1>13, <1>14, <1>15, <1>16, <1>17, <1>18, <1>19, <1>20, <1>21, <1>22, <1>23,
     <1>24, <1>25, <1>26, <1>27, <1>28, <1>29, <1>30, <1>31, <1>32, <1>33, <1>34,
     <1>35, <1>36, <1>37
     DEF Next, CheckState, ParseLine

\* QuietInv holds in every reachable state.
LEMMA QuietInvariant == Spec => []QuietInv
<1>1. Init => QuietInv
  BY ConstantsAssumption
  DEF Init, QuietInv, QuietUntilStart, Pending, Fetching, Idle, ConstantsAssumption
<1>2. TypeOK /\ QuietInv /\ [Next]_vars => QuietInv'
  BY ConstantsAssumption, QuietStep
<1> QED
  BY <1>1, <1>2, TypeCorrect, PTL DEF Spec

\* A stop() that leaves no request, no shot and no timer behind is final: no reply,
\* timer, socket or log line brings the manager back before the next cmdStart.
THEOREM StopIsFinal == Spec => []QuietUntilStart
<1>1. QuietInv => QuietUntilStart
  BY DEF QuietInv
<1> QED
  BY <1>1, QuietInvariant, PTL

-----------------------------------------------------------------------------
(* The right server.                                                       *)

\* startConnecting() asks for the configuration of its server, or has told of an error,
\* and asks for no other.
LEMMA StartConnectingAsks ==
    ASSUME ConstantsAssumption, CountersOK, NEW h, NEW from, NEW err, NEW sofar, NEW then,
           StartConnecting(h, from, err, sofar, then)
    PROVE  /\ \A g \in Hosts \ {h} : fetches'[g] = fetches[g]
           /\ h \in Hosts => reported' \/ fetches'[h] > 0
<1>1. \A n \in 0..MaxFetches : Capped(n, MaxFetches) > 0
  BY DEF Capped, ConstantsAssumption
<1>2. \/ reported'
      \/ fetches' = [fetches EXCEPT ![h] = Capped(@, MaxFetches)]
  BY DEF StartConnecting
<1>3. fetches' \in {fetches, [fetches EXCEPT ![h] = Capped(@, MaxFetches)]}
  BY DEF StartConnecting
<1> QED
  BY <1>1, <1>2, <1>3 DEF CountersOK

\* Only cmdStart changes the server, and it sets mixed unless nothing of another one is
\* left; startConnecting() asks for no other server than the last.
LEMMA ServerStep ==
    ASSUME ConstantsAssumption, TypeOK, QuietInv, ServerInv, [Next]_vars
    PROVE  ServerInv'
<1> USE DEF ServerInv, Command, Fetched, Check, Parse, StateWord, OtherLine,
           Restarted, Stop, StopTunnel, DropSocket, Signalled, Successors, 
           managerVars, pendingVars, outsideVars, processVars, historyVars
<1>1. ASSUME NEW h \in Hosts, CmdStart(h)
      PROVE  ServerInv'
  <2>1. \A g \in Hosts \ {h} : fetches'[g] = fetches[g]
    BY <1>1, StartConnectingAsks DEF CmdStart, TypeOK
  <2>2. ~mixed' => /\ openvpn' # "none" => openvpnHost = h
                  /\ \A g \in Hosts \ {h} : ~(fetches[g] > 0)
    BY <1>1 DEF CmdStart
  <2>3. host' = h /\ openvpnHost' = openvpnHost
    BY <1>1 DEF CmdStart
  <2> QED
    BY <2>1, <2>2, <2>3
<1>2. CASE CmdStop
  BY <1>2 DEF CmdStop
<1>3. CASE CmdNetdown
  BY <1>3 DEF CmdNetdown
<1>4. CASE CmdKillRunningOpenvpn
  BY <1>4 DEF CmdKillRunningOpenvpn
<1>5. ASSUME NEW h \in Hosts, FetchFailed(h)
      PROVE  ServerInv'
  BY <1>5 DEF FetchFailed
<1>6. ASSUME NEW h \in Hosts, ConfigNotWritten(h)
      PROVE  ServerInv'
  BY <1>6 DEF ConfigNotWritten
<1>7. ASSUME NEW h \in Hosts, NotLaunched(h)
      PROVE  ServerInv'
  BY <1>7 DEF NotLaunched
<1>8. ASSUME NEW h \in Hosts, Launched(h)
      PROVE  ServerInv'
  BY <1>8 DEF Launched
<1>9. CASE CheckConnects
  BY <1>9 DEF CheckConnects
<1>10. CASE CheckPolls
  BY <1>10 DEF CheckPolls
<1>11. CASE CheckFindsCrash
  BY <1>11 DEF CheckFindsCrash
<1>12. CASE CheckReconnects
  <2>1. \A g \in Hosts \ {host} : fetches'[g] = fetches[g]
    BY <1>12, StartConnectingAsks DEF CheckReconnects, TypeOK
  <2> QED
    BY <1>12, <2>1 DEF CheckReconnects
<1>13. CASE CheckTimesOut
  BY <1>13 DEF CheckTimesOut
<1>14. CASE CheckIdles
  BY <1>14 DEF CheckIdles
<1>15. CASE ReconnectTimeout
  <2>1. \A g \in Hosts \ {host} : fetches'[g] = fetches[g]
    BY <1>15, StartConnectingAsks DEF ReconnectTimeout, TypeOK
  <2> QED
    BY <1>15, <2>1 DEF ReconnectTimeout
<1>16. CASE SocketConnected
  BY <1>16 DEF SocketConnected
<1>17. CASE SocketError
  BY <1>17 DEF SocketError
<1>18. CASE SocketReadyRead
  BY <1>18 DEF SocketReadyRead
<1>19. CASE OpenvpnLogfileChanged
  BY <1>19 DEF OpenvpnLogfileChanged
<1>20. CASE ConnectedWord
  BY <1>20 DEF ConnectedWord
<1>21. CASE ConnectingWord
  BY <1>21 DEF ConnectingWord
<1>22. CASE WaitWord
  BY <1>22 DEF WaitWord
<1>23. CASE ExitingWord
  BY <1>23 DEF ExitingWord
<1>24. CASE ResolveWord
  BY <1>24 DEF ResolveWord
<1>25. CASE QueryLine
  BY <1>25 DEF QueryLine
<1>26. CASE AuthFailedLine
  BY <1>26 DEF AuthFailedLine
<1>27. CASE FatalLine
  BY <1>27 DEF FatalLine
<1>28. CASE ErrorLine
  BY <1>28 DEF ErrorLine
<1>29. CASE TunErrorLine
  <2>1. \A g \in Hosts \ {host} : fetches'[g] = fetches[g]
    BY <1>29, StartConnectingAsks DEF TunErrorLine, TypeOK
  <2> QED
    BY <1>29, <2>1 DEF TunErrorLine
<1>30. CASE BindFailedLine
  <2>1. \A g \in Hosts \ {host} : fetches'[g] = fetches[g]
    BY <1>30, StartConnectingAsks DEF BindFailedLine, TypeOK
  <2> QED
    BY <1>30, <2>1 DEF BindFailedLine
<1>31. CASE InitCompletedLine
  BY <1>31 DEF InitCompletedLine
<1>32. CASE ServiceRestarts
  BY <1>32 DEF ServiceRestarts
<1>33. CASE QueryCrashes
  BY <1>33 DEF QueryCrashes
<1>34. CASE OpenvpnMoves
  BY <1>34 DEF OpenvpnMoves
<1>35. CASE OpenvpnLogs
  BY <1>35 DEF OpenvpnLogs
<1>36. CASE TimePasses
  BY <1>36 DEF TimePasses
<1>37. CASE UNCHANGED vars
  BY <1>37 DEF vars, managerVars, pendingVars, outsideVars, historyVars
<1> QED
  BY <1>1, <1>2, <1>3, <1>4, <1>5, <1>6, <1>7, <1>8, <1>9, <1>10, <1>11, <1>12,
     <1>13, <1>14, <1>15, <1>16, <1>17, <1>18, <1>19, <1>20, <1>21, <1>22, <1>23,
     <1>24, <1>25, <1>26, <1>27, <1>28, <1>29, <1>30, <1>31, <1>32, <1>33, <1>34,
     <1>35, <1>36, <1>37
     DEF Next, CheckState, ParseLine

\* The tunnel announced as Connected leads to the server of the last cmdStart, unless a
\* cmdStart left an openvpn or a configuration request of another server behind.
THEOREM ServerIsRight == Spec => []RightServer
<1>1. Init => ServerInv
  BY DEF Init, ServerInv
<1>2. TypeOK /\ QuietInv /\ ServerInv /\ [Next]_vars => ServerInv'
  BY ConstantsAssumption, ServerStep
<1>3. QuietInv /\ ServerInv => RightServer
  BY DEF QuietInv, QuietUntilStart, ServerInv, RightServer
<1> QED
  BY <1>1, <1>2, <1>3, TypeCorrect, QuietInvariant, PTL DEF Spec

-----------------------------------------------------------------------------
(* Connecting is supervised.                                               *)

\* What is left of a batch was in it, in the same order.
LEMMA ParsedBatch ==
    ASSUME TypeOK, NEW line, Parse(line)
    PROVE  /\ InBatch(line)
           /\ InBatch("CONNECTING")' => InBatch("CONNECTING")
           /\ InBatch("EXITING")' => InBatch("EXITING")
           /\ LastWords => LastWords'
           /\ LastWords /\ line = "EXITING" => ~InBatch("CONNECTING")'
<1>0. todo \in Seq(Lines) /\ todo # <<>> /\ Head(todo) = line /\ todo' = Tail(todo)
  BY DEF Parse, Idle, TypeOK, SequencesOK
<1>1. /\ Len(todo) \in Nat \ {0}
      /\ todo[1] = line
      /\ DOMAIN todo = 1..Len(todo)
      /\ DOMAIN Tail(todo) = 1..(Len(todo) - 1)
      /\ \A i \in 1..(Len(todo) - 1) : Tail(todo)[i] = todo[i + 1]
  BY <1>0
<1>2. \A i \in DOMAIN todo' : /\ todo'[i] = todo[i + 1]
                              /\ i + 1 \in DOMAIN todo
                              /\ 1 \in DOMAIN todo
                              /\ 1 < i + 1
                              /\ \A j \in DOMAIN todo' : i < j => i + 1 < j + 1
  BY <1>0, <1>1
<1>3. 1 \in DOMAIN todo
  BY <1>1
<1> QED
  BY <1>1, <1>2, <1>3 DEF InBatch, LastWords

\* A batch of the socket: EXITING is said by an openvpn that exits and by no other, and
\* an openvpn heard leaving says nothing else than its last words.
LEMMA ReadBatch ==
    ASSUME NEW batch \in Batches(openvpn), todo' = batch
    PROVE  /\ openvpn # "none"
           /\ InBatch("EXITING")' => openvpn = "exiting"
           /\ openvpn = "exiting" /\ leaving => ~InBatch("CONNECTING")'
           /\ LastWords'
<1>1. /\ \A p : "EXITING" \in Says(p) => p = "exiting"
      /\ "CONNECTING" \notin Says("exiting")
      /\ Says("none") = {}
  BY DEF Says
<1>2. /\ "exiting" \in Earlier(openvpn) => openvpn = "exiting"
      /\ leaving => Earlier(openvpn) = {openvpn}
  BY DEF Earlier
<1>3. CASE \E line \in Says(openvpn) : batch = <<line>>
  BY <1>1, <1>3 DEF InBatch, LastWords
<1>4. CASE \E p \in Earlier(openvpn) : \E first \in Says(p), last \in Says(openvpn) : batch = <<first, last>>
  BY <1>1, <1>2, <1>4 DEF InBatch, LastWords
<1> QED
  BY <1>3, <1>4 DEF Batches


\* An empty batch holds nothing.
LEMMA EmptyBatch ==
    ASSUME todo' = <<>>
    PROVE  ~InBatch("CONNECTING")' /\ ~InBatch("EXITING")' /\ LastWords'
BY DEF InBatch, LastWords

\* A batch that nobody parses stays as it is.
LEMMA SameBatch ==
    ASSUME todo' = todo
    PROVE  /\ InBatch("CONNECTING")' = InBatch("CONNECTING")
           /\ InBatch("EXITING")' = InBatch("EXITING")
           /\ LastWords' = LastWords
BY DEF InBatch, LastWords

\* No slot leaves the manager connecting and abandoned.
LEMMA SupervisedStep ==
    ASSUME ConstantsAssumption, TypeOK, QuietInv, SupervisedInv, [Next]_vars
    PROVE  SupervisedInv'
<1> USE DEF SupervisedInv, Supervised, Abandoned, Gone, Pending, Fetching, Command, Fetched, Check, StateWord, OtherLine,
           Restarted, Stop, StopTunnel, DropSocket, SetState, TimerAfter, Signalled, Successors,
           managerVars, pendingVars, outsideVars, processVars, historyVars
<1>1. ASSUME NEW h \in Hosts, CmdStart(h)
      PROVE  SupervisedInv'
  <2>1. reported' \/ Fetching'
    BY <1>1, StartConnectingAsks DEF CmdStart, TypeOK
  <2> QED
    BY <1>1, <2>1, EmptyBatch DEF CmdStart, Idle
<1>2. CASE CmdStop
  BY <1>2, EmptyBatch DEF CmdStop, Idle
<1>3. CASE CmdNetdown
  BY <1>3, EmptyBatch DEF CmdNetdown, Idle
<1>4. CASE CmdKillRunningOpenvpn
  BY <1>4, EmptyBatch DEF CmdKillRunningOpenvpn, Idle
<1>5. ASSUME NEW h \in Hosts, FetchFailed(h)
      PROVE  SupervisedInv'
  BY <1>5, EmptyBatch DEF FetchFailed, Idle
<1>6. ASSUME NEW h \in Hosts, ConfigNotWritten(h)
      PROVE  SupervisedInv'
  BY <1>6, EmptyBatch DEF ConfigNotWritten, Idle
<1>7. ASSUME NEW h \in Hosts, NotLaunched(h)
      PROVE  SupervisedInv'
  BY <1>7, EmptyBatch DEF NotLaunched, Idle
<1>8. ASSUME NEW h \in Hosts, Launched(h)
      PROVE  SupervisedInv'
  BY <1>8, EmptyBatch DEF Launched, Idle
<1>9. CASE CheckConnects
  BY <1>9, EmptyBatch DEF CheckConnects, Idle
<1>10. CASE CheckPolls
  BY <1>10, EmptyBatch DEF CheckPolls, Idle
<1>11. CASE CheckFindsCrash
  BY <1>11, EmptyBatch DEF CheckFindsCrash, Running, Idle
<1>12. CASE CheckReconnects
  <2>1. CASE late
    BY <1>12, <2>1, EmptyBatch DEF CheckReconnects, Running, Idle
  <2>2. CASE ~late
    BY <1>12, <2>2, EmptyBatch DEF CheckReconnects, Idle
  <2> QED
    BY <2>1, <2>2
<1>13. CASE CheckTimesOut
  BY <1>13, EmptyBatch DEF CheckTimesOut, Idle
<1>14. CASE CheckIdles
  BY <1>14, EmptyBatch DEF CheckIdles, Idle
<1>15. CASE ReconnectTimeout
  <2>1. CASE shots' = shots
    BY <1>15, <2>1, EmptyBatch DEF ReconnectTimeout, Idle
  <2>2. CASE \E from, sofar : StartConnecting(host, from, mError, sofar, <<>>)
    <3>1. host \in Hosts
      BY <1>15 DEF ReconnectTimeout, QuietInv, QuietUntilStart, TypeOK, ModesOK
    <3>2. reported' \/ Fetching'
      BY <2>2, <3>1, StartConnectingAsks DEF TypeOK
    <3> QED
      BY <1>15, <3>2, EmptyBatch DEF ReconnectTimeout, Idle
  <2> QED
    BY <1>15, <2>1, <2>2 DEF ReconnectTimeout
<1>16. CASE SocketConnected
  BY <1>16, EmptyBatch DEF SocketConnected, Idle
<1>17. CASE SocketError
  BY <1>17, EmptyBatch DEF SocketError, Idle
<1>18. CASE SocketReadyRead
  <2>1. PICK batch \in Batches(openvpn) : todo' = batch
    BY <1>18 DEF SocketReadyRead
  <2> QED
    BY <1>18, <2>1, ReadBatch DEF SocketReadyRead
<1>19. CASE OpenvpnLogfileChanged
  <2>1. log # "CONNECTING" /\ log # "EXITING"
    BY <1>19 DEF OpenvpnLogfileChanged, TypeOK, ModesOK, WatchedLines
  <2>2. ~InBatch("CONNECTING")' /\ ~InBatch("EXITING")' /\ LastWords'
    BY <1>19, <2>1 DEF OpenvpnLogfileChanged, InBatch, LastWords
  <2> QED
    BY <1>19, <2>2 DEF OpenvpnLogfileChanged
<1>20. CASE ConnectedWord
  BY <1>20, ParsedBatch DEF ConnectedWord, Parse
<1>21. CASE ConnectingWord
  BY <1>21, ParsedBatch DEF ConnectingWord, Parse
<1>22. CASE WaitWord
  BY <1>22, ParsedBatch DEF WaitWord, Parse
<1>23. CASE ExitingWord
  <2>1. CASE reconnect
    <3>1. shots' > 0
      BY <1>23, <2>1 DEF ExitingWord, Capped, TypeOK, CountersOK, ConstantsAssumption
    <3> QED
      BY <1>23, <2>1, <3>1, ParsedBatch DEF ExitingWord, Parse
  <2>2. CASE ~reconnect
    BY <1>23, <2>2, ParsedBatch DEF ExitingWord, Parse
  <2> QED
    BY <2>1, <2>2
<1>24. CASE ResolveWord
  BY <1>24, ParsedBatch DEF ResolveWord, Parse
<1>25. CASE QueryLine
  BY <1>25, ParsedBatch DEF QueryLine, Parse
<1>26. CASE AuthFailedLine
  BY <1>26, ParsedBatch DEF AuthFailedLine, Parse
<1>27. CASE FatalLine
  BY <1>27, ParsedBatch DEF FatalLine, Parse
<1>28. CASE ErrorLine
  BY <1>28, ParsedBatch DEF ErrorLine, Parse
<1>29. CASE TunErrorLine
  <2> PICK line : Parse(line)
    <3>1. Parse("TUNFATAL") \/ Parse("TunErr")
      BY <1>29 DEF TunErrorLine
    <3> QED
      BY <3>1
  <2>1. CASE mError
    BY <1>29, <2>1, ParsedBatch DEF TunErrorLine, Parse
  <2>2. CASE ~mError
    <3>1. host \in Hosts
      BY <1>29 DEF TunErrorLine, QuietInv, TypeOK, ModesOK, Parse
    <3>2. reported' \/ Fetching'
      BY <1>29, <2>2, <3>1, StartConnectingAsks DEF TunErrorLine, TypeOK
    <3> QED
      BY <1>29, <3>2, ParsedBatch DEF TunErrorLine, Parse
  <2> QED
    BY <2>1, <2>2
<1>30. CASE BindFailedLine
  <2>1. host \in Hosts
    BY <1>30 DEF BindFailedLine, QuietInv, QuietUntilStart, TypeOK, ModesOK, Idle, Parse
  <2>2. reported' \/ Fetching'
    BY <1>30, <2>1, StartConnectingAsks DEF BindFailedLine, TypeOK, Fetching
  <2> QED
    BY <1>30, <2>2, ParsedBatch DEF BindFailedLine, Parse
<1>31. CASE InitCompletedLine
  BY <1>31, ParsedBatch DEF InitCompletedLine, Parse
<1>32. CASE ServiceRestarts
  BY <1>32, EmptyBatch DEF ServiceRestarts, Idle
<1>33. CASE QueryCrashes
  BY <1>33, EmptyBatch DEF QueryCrashes, Idle
<1>34. CASE OpenvpnMoves
  BY <1>34, SameBatch DEF OpenvpnMoves
<1>35. CASE OpenvpnLogs
  BY <1>35, SameBatch DEF OpenvpnLogs
<1>36. CASE TimePasses
  BY <1>36, SameBatch DEF TimePasses
<1>37. CASE UNCHANGED vars
  BY <1>37, SameBatch DEF vars, managerVars, pendingVars, outsideVars, historyVars
<1> QED
  BY <1>1, <1>2, <1>3, <1>4, <1>5, <1>6, <1>7, <1>8, <1>9, <1>10, <1>11, <1>12,
     <1>13, <1>14, <1>15, <1>16, <1>17, <1>18, <1>19, <1>20, <1>21, <1>22, <1>23,
     <1>24, <1>25, <1>26, <1>27, <1>28, <1>29, <1>30, <1>31, <1>32, <1>33, <1>34,
     <1>35, <1>36, <1>37
     DEF Next, CheckState, ParseLine

\* The manager does not stay in Connecting with no timer, no configuration request and
\* no reconnect shot unless it has told the clients of an error.
THEOREM ConnectingIsSupervised == Spec => []Supervised
<1>1. Init => SupervisedInv
  BY DEF Init, SupervisedInv, Supervised, Abandoned, InBatch, LastWords
<1>2. TypeOK /\ QuietInv /\ SupervisedInv /\ [Next]_vars => SupervisedInv'
  BY ConstantsAssumption, SupervisedStep
<1>3. SupervisedInv => Supervised
  BY DEF SupervisedInv
<1> QED
  BY <1>1, <1>2, <1>3, TypeCorrect, QuietInvariant, PTL DEF Spec

-----------------------------------------------------------------------------
(* The interface is implemented.                                           *)

\* What a slot says that calls startConnecting() in state from.
SaysConnecting(from, sofar, then) ==
    \E trouble \in Interface!Trouble :
      /\ trouble \in Seq(Words)
      /\ signals' = sofar \o Emitted(from, "Connecting") \o trouble \o then

\* The trouble of startConnecting() is what the interface allows.
LEMMA StartConnectingSays ==
    ASSUME NEW h, NEW from, NEW err, NEW sofar \in Seq(Words), NEW then \in Seq(Words),
           StartConnecting(h, from, err, sofar, then)
    PROVE  SaysConnecting(from, sofar, then)
<1> DEFINE obfs(faulty) == IF "obfs" \in faulty THEN <<"error">> ELSE <<>>
           ipv6(faulty) == IF "ipv6" \in faulty THEN <<"error">> ELSE <<>>
<1>1. PICK faulty : signals' = sofar \o Emitted(from, "Connecting")
                                     \o (obfs(faulty) \o ipv6(faulty)) \o then
  BY DEF StartConnecting
<1>2. /\ obfs(faulty) \in {<<>>, <<"error">>}
      /\ ipv6(faulty) \in {<<>>, <<"error">>}
  OBVIOUS
<1> HIDE DEF obfs, ipv6
<1>3. obfs(faulty) \o ipv6(faulty) \in {<<>>, <<"error">>, <<"error">> \o <<"error">>}
  <2>1. /\ <<>> \o <<>> = <<>>
        /\ <<>> \o <<"error">> = <<"error">>
        /\ <<"error">> \o <<>> = <<"error">>
    BY SignalsType
  <2> QED
    BY <1>2, <2>1
<1>4. obfs(faulty) \o ipv6(faulty) \in Seq(Words)
  BY <1>2, SignalsType
<1> QED
  BY <1>1, <1>3, <1>4 DEF Interface!Trouble, SaysConnecting

\* When nothing precedes and nothing follows, it is a retry.
LEMMA RetryStep ==
    ASSUME NEW h, NEW err, state \in States, state' = "Connecting",
           StartConnecting(h, state, err, <<>>, <<>>)
    PROVE  Interface!Retry
<1>1. <<>> \in Seq(Words)
  BY SignalsType
<1>2. SaysConnecting(state, <<>>, <<>>)
  BY <1>1, StartConnectingSays
<1>3. PICK trouble \in Interface!Trouble :
        /\ trouble \in Seq(Words)
        /\ signals' = <<>> \o Emitted(state, "Connecting") \o trouble \o <<>>
  BY <1>2 DEF SaysConnecting
<1>4. <<>> \o Emitted(state, "Connecting") \in Seq(Words)
  BY EmittedType, SignalsType DEF States
<1>5. signals' = <<>> \o Emitted(state, "Connecting") \o trouble
  BY <1>3, <1>4
<1> QED
  BY <1>5 DEF Interface!Retry, Interface!Change, Emitted

\* After a stop() it is a start.
LEMMA StartStep ==
    ASSUME NEW h, NEW err, state \in States, state' = "Connecting",
           StartConnecting(h, "Disconnected", err, Emitted(state, "Disconnected"), <<>>)
    PROVE  Interface!Start
<1>1. Emitted(state, "Disconnected") \in Seq(Words) /\ <<>> \in Seq(Words)
  BY EmittedType, SignalsType DEF States
<1>2. SaysConnecting("Disconnected", Emitted(state, "Disconnected"), <<>>)
  BY <1>1, StartConnectingSays
<1>3. PICK trouble \in Interface!Trouble :
        /\ trouble \in Seq(Words)
        /\ signals' = Emitted(state, "Disconnected") \o Emitted("Disconnected", "Connecting")
                        \o trouble \o <<>>
  BY <1>2 DEF SaysConnecting
<1>4. Emitted(state, "Disconnected") \o Emitted("Disconnected", "Connecting") \in Seq(Words)
  BY <1>1, EmittedType, SignalsType DEF States
<1>5. signals' = Emitted(state, "Disconnected") \o Emitted("Disconnected", "Connecting")
                   \o trouble
  BY <1>3, <1>4
<1>6. Emitted("Disconnected", "Connecting") = <<"Connecting">>
  BY DEF Emitted
<1> QED
  BY <1>5, <1>6 DEF Interface!Start, Interface!Change, Emitted

\* Every step of the manager is a step of the interface, or changes neither the state
\* nor what was said.
LEMMA InterfaceStep ==
    ASSUME TypeOK, TypeOK', [Next]_vars
    PROVE  [Interface!Next]_<<state, signals>>
<1> USE DEF TypeOK, ModesOK, States, Command, Fetched, Check, Parse, StateWord, OtherLine, Restarted, Stop, SetState,
           Emitted, TimedOut, Interface!Next, Interface!Stay, Interface!Stop, Interface!Move, Interface!Fail, Interface!TimeOut, Interface!Die,
           Interface!Change, Interface!VpnStates, managerVars
<1>1. ASSUME NEW h \in Hosts, CmdStart(h)
      PROVE  [Interface!Next]_<<state, signals>>
  BY <1>1, StartStep DEF CmdStart
<1>2. CASE CmdStop
  BY <1>2 DEF CmdStop
<1>3. CASE CmdNetdown
  BY <1>3 DEF CmdNetdown
<1>4. CASE CmdKillRunningOpenvpn
  BY <1>4 DEF CmdKillRunningOpenvpn
<1>5. ASSUME NEW h \in Hosts, FetchFailed(h)
      PROVE  [Interface!Next]_<<state, signals>>
  BY <1>5 DEF FetchFailed
<1>6. ASSUME NEW h \in Hosts, ConfigNotWritten(h)
      PROVE  [Interface!Next]_<<state, signals>>
  BY <1>6 DEF ConfigNotWritten
<1>7. ASSUME NEW h \in Hosts, NotLaunched(h)
      PROVE  [Interface!Next]_<<state, signals>>
  BY <1>7 DEF NotLaunched
<1>8. ASSUME NEW h \in Hosts, Launched(h)
      PROVE  [Interface!Next]_<<state, signals>>
  BY <1>8 DEF Launched
<1>9. CASE CheckConnects
  BY <1>9 DEF CheckConnects
<1>10. CASE CheckPolls
  BY <1>10 DEF CheckPolls
<1>11. CASE CheckFindsCrash
  BY <1>11 DEF CheckFindsCrash
<1>12. CASE CheckReconnects
  <2>1. CASE ~late
    <3>1. state' = "Connecting" /\ StartConnecting(host, state, mError, <<>>, <<>>)
      BY <1>12, <2>1 DEF CheckReconnects
    <3>2. Interface!Retry
      BY <3>1, RetryStep
    <3> QED
      BY <3>2
  <2>2. CASE late
    <3>1. /\ state = "Connected" /\ state' = "Disconnected"
          /\ StartConnecting(host, "Connected", mError, <<>>, <<"Disconnected", "timedOut">>)
      BY <1>12, <2>2 DEF CheckReconnects
    <3>2. <<>> \in Seq(Words) /\ <<"Disconnected", "timedOut">> \in Seq(Words)
      BY SignalsType
    <3>3. PICK trouble \in Interface!Trouble :
            /\ trouble \in Seq(Words)
            /\ signals' = <<>> \o Emitted("Connected", "Connecting") \o trouble
                             \o <<"Disconnected", "timedOut">>
      <4>1. SaysConnecting("Connected", <<>>, <<"Disconnected", "timedOut">>)
        BY <3>1, <3>2, StartConnectingSays
      <4> QED
        BY <4>1 DEF SaysConnecting
    <3>4. Emitted("Connected", "Connecting") = <<"Connecting">>
      OBVIOUS
    <3>5. "Connecting" \in Words
      BY DEF Words
    <3>6. <<>> \o Emitted("Connected", "Connecting") = <<"Connecting">>
      BY <3>4, <3>5
    <3>7. Interface!CrashTimesOut
      BY <3>1, <3>3, <3>6 DEF Interface!CrashTimesOut
    <3> QED
      BY <3>7
  <2> QED
    BY <2>1, <2>2
<1>13. CASE CheckTimesOut
  BY <1>13 DEF CheckTimesOut
<1>14. CASE CheckIdles
  BY <1>14 DEF CheckIdles
<1>15. CASE ReconnectTimeout
  BY <1>15, StartStep, RetryStep DEF ReconnectTimeout
<1>16. CASE SocketConnected
  BY <1>16 DEF SocketConnected
<1>17. CASE SocketError
  BY <1>17 DEF SocketError
<1>18. CASE SocketReadyRead
  BY <1>18 DEF SocketReadyRead
<1>19. CASE OpenvpnLogfileChanged
  BY <1>19 DEF OpenvpnLogfileChanged
<1>20. CASE ConnectedWord
  BY <1>20 DEF ConnectedWord
<1>21. CASE ConnectingWord
  BY <1>21 DEF ConnectingWord
<1>22. CASE WaitWord
  BY <1>22 DEF WaitWord
<1>23. CASE ExitingWord
  BY <1>23 DEF ExitingWord
<1>24. CASE ResolveWord
  BY <1>24 DEF ResolveWord
<1>25. CASE QueryLine
  BY <1>25 DEF QueryLine
<1>26. CASE AuthFailedLine
  BY <1>26 DEF AuthFailedLine
<1>27. CASE FatalLine
  BY <1>27 DEF FatalLine
<1>28. CASE ErrorLine
  BY <1>28 DEF ErrorLine
<1>29. CASE TunErrorLine
  <2>1. CASE mError
    BY <1>29, <2>1 DEF TunErrorLine
  <2>2. CASE ~mError
    <3>1. state' = "Connecting" /\ StartConnecting(host, state, TRUE, <<>>, <<>>)
      BY <1>29, <2>2 DEF TunErrorLine
    <3>2. Interface!Retry
      <4>1. state \in States
        OBVIOUS
      <4> HIDE DEF States, TypeOK, ModesOK
      <4> QED
        BY <3>1, <4>1, RetryStep, Zenon
    <3> QED
      BY <3>2
  <2> QED
    BY <2>1, <2>2
<1>30. CASE BindFailedLine
  BY <1>30, RetryStep DEF BindFailedLine
<1>31. CASE InitCompletedLine
  BY <1>31 DEF InitCompletedLine
<1>32. CASE ServiceRestarts
  BY <1>32 DEF ServiceRestarts
<1>33. CASE QueryCrashes
  BY <1>33 DEF QueryCrashes
<1>34. CASE OpenvpnMoves
  BY <1>34 DEF OpenvpnMoves
<1>35. CASE OpenvpnLogs
  BY <1>35 DEF OpenvpnLogs
<1>36. CASE TimePasses
  BY <1>36 DEF TimePasses
<1>37. CASE UNCHANGED vars
  BY <1>37 DEF vars, managerVars, pendingVars, outsideVars, historyVars
<1> QED
  BY <1>1, <1>2, <1>3, <1>4, <1>5, <1>6, <1>7, <1>8, <1>9, <1>10, <1>11, <1>12,
     <1>13, <1>14, <1>15, <1>16, <1>17, <1>18, <1>19, <1>20, <1>21, <1>22, <1>23,
     <1>24, <1>25, <1>26, <1>27, <1>28, <1>29, <1>30, <1>31, <1>32, <1>33, <1>34,
     <1>35, <1>36, <1>37
     DEF Next, CheckState, ParseLine

\* The clients are told of every change of the state, once and in order, and of a
\* timeout only when it ends an attempt to connect.
THEOREM ManagerImplementsInterface == Spec => ImplementsInterface
<1>1. Init => Interface!Init
  BY DEF Init, Interface!Init
<1>2. TypeOK /\ TypeOK' /\ [Next]_vars => [Interface!Next]_<<state, signals>>
  BY InterfaceStep
<1> QED
  BY <1>1, <1>2, TypeCorrect, PTL DEF Spec, ImplementsInterface, Interface!Spec

\* The answer to a command is the one the interface names: to cmdStart an end of what
\* there was and a new attempt, to cmdStop the change to Disconnected and no other word.
THEOREM CommandsAreAnswered == Spec => AnswersCommands
<1>1. ASSUME TypeOK, [Next]_vars, NEW h \in Hosts, CmdStart(h)
      PROVE  Interface!Start
  BY <1>1, StartStep DEF CmdStart, TypeOK, ModesOK
<1>2. ASSUME TypeOK, [Next]_vars, CmdStop
      PROVE  Interface!Stop
  BY <1>2 DEF CmdStop, Stop, SetState, Emitted, Interface!Stop, Interface!Change
<1>3. TypeOK /\ [Next]_vars => [(\A h \in Hosts : CmdStart(h) => Interface!Start)
                                /\ (CmdStop => Interface!Stop)]_vars
  BY <1>1, <1>2
<1> QED
  BY <1>3, TypeCorrect, PTL DEF Spec, AnswersCommands
=============================================================================
