---------------------- MODULE OpenvpnManagerTypeProofs ----------------------
(***************************************************************************)
(* The type invariant of OpenvpnManager, for every set of servers, of      *)
(* faults and of log lines, and for every value of the bounds.             *)
(***************************************************************************)
EXTENDS OpenvpnManager, FiniteSetTheorems, TLAPS

-----------------------------------------------------------------------------
(* The operators the actions are built from.                               *)

\* A capped counter stays below its limit.
LEMMA CappedType ==
    ASSUME NEW limit \in Nat, NEW n \in 0..limit
    PROVE  Capped(n, limit) \in 0..limit
BY DEF Capped

\* setState emits nothing or a state.
LEMMA EmittedType ==
    ASSUME NEW from, NEW to \in States
    PROVE  Emitted(from, to) \in Seq(Words)
<1>1. to \in Words
  BY DEF Words
<1>2. <<>> \in Seq(Words) /\ <<to>> \in Seq(Words)
  BY <1>1
<1> QED
  BY <1>2 DEF Emitted

\* startConnecting() asks for one more configuration, or for none.
LEMMA StartConnectingCounts ==
    ASSUME ConstantsAssumption, CountersOK, NEW h, NEW from, NEW err, NEW sofar, NEW then,
           StartConnecting(h, from, err, sofar, then)
    PROVE  fetches' \in [Hosts -> 0..MaxFetches]
<1>1. \A g \in Hosts : Capped(fetches[g], MaxFetches) \in 0..MaxFetches
  BY CappedType DEF CountersOK, ConstantsAssumption
<1>2. fetches' \in {fetches, [fetches EXCEPT ![h] = Capped(@, MaxFetches)]}
  BY DEF StartConnecting
<1> QED
  BY <1>1, <1>2 DEF CountersOK

\* A reply leaves one request less.
LEMMA FetchedCounts ==
    ASSUME ConstantsAssumption, CountersOK, NEW h \in Hosts, Fetched(h)
    PROVE  fetches' \in [Hosts -> 0..MaxFetches]
BY DEF Fetched, CountersOK, ConstantsAssumption

\* Words put together are words.
LEMMA SignalsType ==
    /\ \A s, t \in Seq(Words) : s \o t \in Seq(Words)
    /\ <<>> \in Seq(Words)
    /\ <<"error">> \in Seq(Words)
    /\ <<"Disconnected">> \in Seq(Words)
    /\ <<"Disconnected", "timedOut">> \in Seq(Words)
<1>1. "error" \in Words /\ "timedOut" \in Words /\ "Disconnected" \in Words
  BY DEF Words, States
<1> QED
  BY <1>1

\* startConnecting() says words.
LEMMA StartConnectingSignals ==
    ASSUME NEW h, NEW from, NEW err, NEW sofar \in Seq(Words), NEW then \in Seq(Words),
           StartConnecting(h, from, err, sofar, then)
    PROVE  signals' \in Seq(Words)
<1> DEFINE obfs(faulty) == IF "obfs" \in faulty THEN <<"error">> ELSE <<>>
           ipv6(faulty) == IF "ipv6" \in faulty THEN <<"error">> ELSE <<>>
<1>1. PICK faulty : signals' = sofar \o Emitted(from, "Connecting")
                                     \o (obfs(faulty) \o ipv6(faulty)) \o then
  BY DEF StartConnecting
<1>2. Emitted(from, "Connecting") \in Seq(Words)
  BY EmittedType DEF States
<1>3. obfs(faulty) \in Seq(Words) /\ ipv6(faulty) \in Seq(Words)
  BY SignalsType
<1> HIDE DEF obfs, ipv6
<1> QED
  BY <1>1, <1>2, <1>3, SignalsType

\* At most two lines, all of them lines of the socket.
LEMMA BatchType ==
    ASSUME NEW phase, NEW batch \in Batches(phase)
    PROVE  /\ batch \in Seq(Lines)
           /\ Replies(batch) \in Nat
<1>1. \A p : Says(p) \subseteq Lines
  BY DEF Says, Lines, SocketLines, StateWords
<1>2. batch \in Seq(Lines) /\ DOMAIN batch \in SUBSET (1..2)
  <2>1. CASE \E line \in Lines : batch = <<line>>
    BY <2>1
  <2>2. CASE \E first, last \in Lines : batch = <<first, last>>
    BY <2>2
  <2>3. UNION {Says(p) : p \in Earlier(phase)} \subseteq Lines
    BY <1>1
  <2> QED
    BY <1>1, <2>1, <2>2, <2>3 DEF Batches
<1>3. IsFiniteSet({i \in DOMAIN batch : batch[i] \in StateWords})
  BY <1>2, FS_Interval, FS_Subset
<1> QED
  BY <1>2, <1>3, FS_CardinalityType DEF Replies

\* What remains of a batch is a sequence of lines.
LEMMA TailType ==
    ASSUME SequencesOK, ~Idle
    PROVE  Head(todo) \in Lines /\ Tail(todo) \in Seq(Lines)
BY DEF SequencesOK, Idle

-----------------------------------------------------------------------------
(* Type correctness, part by part: the parts use different theories.      *)

\* The flags stay Boolean.
LEMMA FlagsStep ==
    ASSUME FlagsOK, [Next]_vars
    PROVE  FlagsOK'
<1> USE DEF FlagsOK, TimerAfter, StartConnecting, Command, Fetched, Check, Parse, StateWord, OtherLine, Restarted, Stop, StopTunnel, DropSocket,
           SetState, managerVars, pendingVars, outsideVars, processVars, historyVars
<1>1. ASSUME NEW h \in Hosts, CmdStart(h)
      PROVE  FlagsOK'
  BY <1>1 DEF CmdStart
<1>2. CASE CmdStop
  BY <1>2 DEF CmdStop
<1>3. CASE CmdNetdown
  BY <1>3 DEF CmdNetdown
<1>4. CASE CmdKillRunningOpenvpn
  BY <1>4 DEF CmdKillRunningOpenvpn
<1>5. ASSUME NEW h \in Hosts, FetchFailed(h)
      PROVE  FlagsOK'
  BY <1>5 DEF FetchFailed
<1>6. ASSUME NEW h \in Hosts, ConfigNotWritten(h)
      PROVE  FlagsOK'
  BY <1>6 DEF ConfigNotWritten
<1>7. ASSUME NEW h \in Hosts, NotLaunched(h)
      PROVE  FlagsOK'
  BY <1>7 DEF NotLaunched
<1>8. ASSUME NEW h \in Hosts, Launched(h)
      PROVE  FlagsOK'
  BY <1>8 DEF Launched
<1>9. CASE CheckConnects
  BY <1>9 DEF CheckConnects
<1>10. CASE CheckPolls
  BY <1>10 DEF CheckPolls
<1>11. CASE CheckFindsCrash
  BY <1>11 DEF CheckFindsCrash
<1>12. CASE CheckReconnects
  BY <1>12 DEF CheckReconnects
<1>13. CASE CheckTimesOut
  BY <1>13 DEF CheckTimesOut
<1>14. CASE CheckIdles
  BY <1>14 DEF CheckIdles
<1>15. CASE ReconnectTimeout
  BY <1>15 DEF ReconnectTimeout
<1>16. CASE SocketConnected
  BY <1>16 DEF SocketConnected
<1>17. CASE SocketError
  BY <1>17 DEF SocketError
<1>18. CASE SocketReadyRead
  BY <1>18 DEF SocketReadyRead
<1>19. CASE OpenvpnLogfileChanged
  BY <1>19 DEF OpenvpnLogfileChanged
<1>20. CASE ConnectedWord
  BY <1>20 DEF ConnectedWord
<1>21. CASE ConnectingWord
  BY <1>21 DEF ConnectingWord
<1>22. CASE WaitWord
  BY <1>22 DEF WaitWord
<1>23. CASE ExitingWord
  BY <1>23 DEF ExitingWord
<1>24. CASE ResolveWord
  BY <1>24 DEF ResolveWord
<1>25. CASE QueryLine
  BY <1>25 DEF QueryLine
<1>26. CASE AuthFailedLine
  BY <1>26 DEF AuthFailedLine
<1>27. CASE FatalLine
  BY <1>27 DEF FatalLine
<1>28. CASE ErrorLine
  BY <1>28 DEF ErrorLine
<1>29. CASE TunErrorLine
  BY <1>29 DEF TunErrorLine
<1>30. CASE BindFailedLine
  BY <1>30 DEF BindFailedLine
<1>31. CASE InitCompletedLine
  BY <1>31 DEF InitCompletedLine
<1>32. CASE ServiceRestarts
  BY <1>32 DEF ServiceRestarts
<1>33. CASE QueryCrashes
  BY <1>33 DEF QueryCrashes
<1>34. CASE OpenvpnMoves
  BY <1>34 DEF OpenvpnMoves
<1>35. CASE OpenvpnLogs
  BY <1>35 DEF OpenvpnLogs
<1>36. CASE TimePasses
  BY <1>36 DEF TimePasses
<1>37. CASE UNCHANGED vars
  BY <1>37 DEF vars, managerVars, pendingVars, outsideVars, historyVars
<1> QED
  BY <1>1, <1>2, <1>3, <1>4, <1>5, <1>6, <1>7, <1>8, <1>9, <1>10, <1>11, <1>12,
     <1>13, <1>14, <1>15, <1>16, <1>17, <1>18, <1>19, <1>20, <1>21, <1>22, <1>23,
     <1>24, <1>25, <1>26, <1>27, <1>28, <1>29, <1>30, <1>31, <1>32, <1>33, <1>34,
     <1>35, <1>36, <1>37
     DEF Next, CheckState, ParseLine

\* The state, the phases of the socket and of openvpn, and the names stay in their sets.
LEMMA ModesStep ==
    ASSUME ConstantsAssumption, ModesOK, [Next]_vars
    PROVE  ModesOK'
<1> USE DEF ModesOK, Signalled, ConnectOutcomes, Successors, States, Phases, WatchedLines,
           Command, Fetched, Check, Parse, StateWord, OtherLine, Restarted, Stop, StopTunnel, DropSocket,
           SetState,
           managerVars, pendingVars, outsideVars, processVars, historyVars
<1>1. ASSUME NEW h \in Hosts, CmdStart(h)
      PROVE  ModesOK'
  BY <1>1 DEF CmdStart
<1>2. CASE CmdStop
  BY <1>2 DEF CmdStop
<1>3. CASE CmdNetdown
  BY <1>3 DEF CmdNetdown
<1>4. CASE CmdKillRunningOpenvpn
  BY <1>4 DEF CmdKillRunningOpenvpn
<1>5. ASSUME NEW h \in Hosts, FetchFailed(h)
      PROVE  ModesOK'
  BY <1>5 DEF FetchFailed
<1>6. ASSUME NEW h \in Hosts, ConfigNotWritten(h)
      PROVE  ModesOK'
  BY <1>6 DEF ConfigNotWritten
<1>7. ASSUME NEW h \in Hosts, NotLaunched(h)
      PROVE  ModesOK'
  BY <1>7 DEF NotLaunched
<1>8. ASSUME NEW h \in Hosts, Launched(h)
      PROVE  ModesOK'
  BY <1>8 DEF Launched
<1>9. CASE CheckConnects
  BY <1>9 DEF CheckConnects
<1>10. CASE CheckPolls
  BY <1>10 DEF CheckPolls
<1>11. CASE CheckFindsCrash
  BY <1>11 DEF CheckFindsCrash
<1>12. CASE CheckReconnects
  BY <1>12 DEF CheckReconnects
<1>13. CASE CheckTimesOut
  BY <1>13 DEF CheckTimesOut
<1>14. CASE CheckIdles
  BY <1>14 DEF CheckIdles
<1>15. CASE ReconnectTimeout
  BY <1>15 DEF ReconnectTimeout
<1>16. CASE SocketConnected
  BY <1>16 DEF SocketConnected
<1>17. CASE SocketError
  BY <1>17 DEF SocketError
<1>18. CASE SocketReadyRead
  BY <1>18 DEF SocketReadyRead
<1>19. CASE OpenvpnLogfileChanged
  BY <1>19 DEF OpenvpnLogfileChanged
<1>20. CASE ConnectedWord
  BY <1>20 DEF ConnectedWord
<1>21. CASE ConnectingWord
  BY <1>21 DEF ConnectingWord
<1>22. CASE WaitWord
  BY <1>22 DEF WaitWord
<1>23. CASE ExitingWord
  BY <1>23 DEF ExitingWord
<1>24. CASE ResolveWord
  BY <1>24 DEF ResolveWord
<1>25. CASE QueryLine
  BY <1>25 DEF QueryLine
<1>26. CASE AuthFailedLine
  BY <1>26 DEF AuthFailedLine
<1>27. CASE FatalLine
  BY <1>27 DEF FatalLine
<1>28. CASE ErrorLine
  BY <1>28 DEF ErrorLine
<1>29. CASE TunErrorLine
  BY <1>29 DEF TunErrorLine
<1>30. CASE BindFailedLine
  BY <1>30 DEF BindFailedLine
<1>31. CASE InitCompletedLine
  BY <1>31 DEF InitCompletedLine
<1>32. CASE ServiceRestarts
  BY <1>32 DEF ServiceRestarts
<1>33. CASE QueryCrashes
  BY <1>33 DEF QueryCrashes
<1>34. CASE OpenvpnMoves
  BY <1>34 DEF OpenvpnMoves
<1>35. CASE OpenvpnLogs
  BY <1>35 DEF OpenvpnLogs, ConstantsAssumption
<1>36. CASE TimePasses
  BY <1>36 DEF TimePasses
<1>37. CASE UNCHANGED vars
  BY <1>37 DEF vars, managerVars, pendingVars, outsideVars, historyVars
<1> QED
  BY <1>1, <1>2, <1>3, <1>4, <1>5, <1>6, <1>7, <1>8, <1>9, <1>10, <1>11, <1>12,
     <1>13, <1>14, <1>15, <1>16, <1>17, <1>18, <1>19, <1>20, <1>21, <1>22, <1>23,
     <1>24, <1>25, <1>26, <1>27, <1>28, <1>29, <1>30, <1>31, <1>32, <1>33, <1>34,
     <1>35, <1>36, <1>37
     DEF Next, CheckState, ParseLine

\* The counters stay under their bounds.
LEMMA CountersStep ==
    ASSUME ConstantsAssumption, CountersOK, [Next]_vars
    PROVE  CountersOK'
<1> USE DEF ConstantsAssumption, CountersOK, Command, Check, Parse, StateWord, OtherLine, Restarted, Stop, StopTunnel, DropSocket,
           managerVars, pendingVars, outsideVars, processVars, historyVars
<1>1. ASSUME NEW h \in Hosts, CmdStart(h)
      PROVE  CountersOK'
  <2>1. fetches' \in [Hosts -> 0..MaxFetches]
    BY <1>1, StartConnectingCounts DEF CmdStart, CountersOK
  <2> QED
    BY <1>1, <2>1 DEF CmdStart, G_Max_Reconnect
<1>2. CASE CmdStop
  BY <1>2 DEF CmdStop
<1>3. CASE CmdNetdown
  BY <1>3 DEF CmdNetdown
<1>4. CASE CmdKillRunningOpenvpn
  BY <1>4 DEF CmdKillRunningOpenvpn
<1>5. ASSUME NEW h \in Hosts, FetchFailed(h)
      PROVE  CountersOK'
  <2>1. fetches' \in [Hosts -> 0..MaxFetches]
    BY <1>5, FetchedCounts DEF FetchFailed
  <2> QED
    BY <1>5, <2>1 DEF FetchFailed, Fetched
<1>6. ASSUME NEW h \in Hosts, ConfigNotWritten(h)
      PROVE  CountersOK'
  <2>1. fetches' \in [Hosts -> 0..MaxFetches]
    BY <1>6, FetchedCounts DEF ConfigNotWritten
  <2> QED
    BY <1>6, <2>1 DEF ConfigNotWritten, Fetched
<1>7. ASSUME NEW h \in Hosts, NotLaunched(h)
      PROVE  CountersOK'
  <2>1. fetches' \in [Hosts -> 0..MaxFetches]
    BY <1>7, FetchedCounts DEF NotLaunched
  <2> QED
    BY <1>7, <2>1 DEF NotLaunched, Fetched
<1>8. ASSUME NEW h \in Hosts, Launched(h)
      PROVE  CountersOK'
  <2>1. fetches' \in [Hosts -> 0..MaxFetches]
    BY <1>8, FetchedCounts DEF Launched
  <2> QED
    BY <1>8, <2>1 DEF Launched, Fetched
<1>9. CASE CheckConnects
  BY <1>9 DEF CheckConnects
<1>10. CASE CheckPolls
  <2>1. polls' \in 0..MaxPolls
    BY <1>10, CappedType DEF CheckPolls
  <2> QED
    BY <1>10, <2>1 DEF CheckPolls
<1>11. CASE CheckFindsCrash
  BY <1>11 DEF CheckFindsCrash
<1>12. CASE CheckReconnects
  <2>1. fetches' \in [Hosts -> 0..MaxFetches]
    BY <1>12, StartConnectingCounts DEF CheckReconnects, CountersOK
  <2> QED
    BY <1>12, <2>1 DEF CheckReconnects
<1>13. CASE CheckTimesOut
  BY <1>13 DEF CheckTimesOut
<1>14. CASE CheckIdles
  BY <1>14 DEF CheckIdles
<1>15. CASE ReconnectTimeout
  <2>1. fetches' \in [Hosts -> 0..MaxFetches]
    BY <1>15, StartConnectingCounts DEF ReconnectTimeout, CountersOK
  <2>2. attempt' \in 0..G_Max_Reconnect
    BY <1>15, CappedType DEF ReconnectTimeout, G_Max_Reconnect
  <2>3. polls' \in 0..MaxPolls /\ shots' \in 0..MaxShots
    BY <1>15 DEF ReconnectTimeout
  <2> QED
    BY <1>15, <2>1, <2>2, <2>3 DEF ReconnectTimeout
<1>16. CASE SocketConnected
  BY <1>16 DEF SocketConnected
<1>17. CASE SocketError
  BY <1>17 DEF SocketError
<1>18. CASE SocketReadyRead
  <2>1. polls' \in 0..MaxPolls
    <3>1. PICK batch \in Batches(openvpn) :
            Replies(batch) <= polls /\ polls' = polls - Replies(batch)
      BY <1>18 DEF SocketReadyRead
    <3>2. Replies(batch) \in Nat
      BY BatchType
    <3> QED
      BY <3>1, <3>2
  <2> QED
    BY <1>18, <2>1 DEF SocketReadyRead
<1>19. CASE OpenvpnLogfileChanged
  BY <1>19 DEF OpenvpnLogfileChanged
<1>20. CASE ConnectedWord
  BY <1>20 DEF ConnectedWord
<1>21. CASE ConnectingWord
  BY <1>21 DEF ConnectingWord
<1>22. CASE WaitWord
  BY <1>22 DEF WaitWord
<1>23. CASE ExitingWord
  <2>1. shots' \in 0..MaxShots
    BY <1>23, CappedType DEF ExitingWord
  <2> QED
    BY <1>23, <2>1 DEF ExitingWord
<1>24. CASE ResolveWord
  BY <1>24 DEF ResolveWord
<1>25. CASE QueryLine
  BY <1>25 DEF QueryLine
<1>26. CASE AuthFailedLine
  BY <1>26 DEF AuthFailedLine
<1>27. CASE FatalLine
  BY <1>27 DEF FatalLine
<1>28. CASE ErrorLine
  BY <1>28 DEF ErrorLine
<1>29. CASE TunErrorLine
  <2>1. fetches' \in [Hosts -> 0..MaxFetches]
    BY <1>29, StartConnectingCounts DEF TunErrorLine, CountersOK
  <2> QED
    BY <1>29, <2>1 DEF TunErrorLine
<1>30. CASE BindFailedLine
  <2>1. fetches' \in [Hosts -> 0..MaxFetches]
    BY <1>30, StartConnectingCounts DEF BindFailedLine, CountersOK
  <2> QED
    BY <1>30, <2>1 DEF BindFailedLine
<1>31. CASE InitCompletedLine
  BY <1>31 DEF InitCompletedLine
<1>32. CASE ServiceRestarts
  BY <1>32 DEF ServiceRestarts, G_Max_Reconnect
<1>33. CASE QueryCrashes
  BY <1>33 DEF QueryCrashes, G_Max_Reconnect
<1>34. CASE OpenvpnMoves
  BY <1>34 DEF OpenvpnMoves
<1>35. CASE OpenvpnLogs
  BY <1>35 DEF OpenvpnLogs
<1>36. CASE TimePasses
  BY <1>36 DEF TimePasses
<1>37. CASE UNCHANGED vars
  BY <1>37 DEF vars, managerVars, pendingVars, outsideVars, historyVars
<1> QED
  BY <1>1, <1>2, <1>3, <1>4, <1>5, <1>6, <1>7, <1>8, <1>9, <1>10, <1>11, <1>12,
     <1>13, <1>14, <1>15, <1>16, <1>17, <1>18, <1>19, <1>20, <1>21, <1>22, <1>23,
     <1>24, <1>25, <1>26, <1>27, <1>28, <1>29, <1>30, <1>31, <1>32, <1>33, <1>34,
     <1>35, <1>36, <1>37
     DEF Next, CheckState, ParseLine

\* A batch holds lines, the signals are words.
LEMMA SequencesStep ==
    ASSUME ModesOK, ModesOK', SequencesOK, [Next]_vars
    PROVE  SequencesOK'
<1> USE SignalsType, EmittedType, TailType DEF SequencesOK, ModesOK, Command, Fetched, Check, Parse, StateWord, OtherLine, Restarted, Stop,
           SetState, States, managerVars, pendingVars, outsideVars, processVars, historyVars
<1>1. ASSUME NEW h \in Hosts, CmdStart(h)
      PROVE  SequencesOK'
  <2>1. signals' \in Seq(Words)
    BY <1>1, StartConnectingSignals DEF CmdStart
  <2> QED
    BY <1>1, <2>1 DEF CmdStart
<1>2. CASE CmdStop
  BY <1>2 DEF CmdStop
<1>3. CASE CmdNetdown
  BY <1>3 DEF CmdNetdown
<1>4. CASE CmdKillRunningOpenvpn
  BY <1>4 DEF CmdKillRunningOpenvpn
<1>5. ASSUME NEW h \in Hosts, FetchFailed(h)
      PROVE  SequencesOK'
  BY <1>5 DEF FetchFailed
<1>6. ASSUME NEW h \in Hosts, ConfigNotWritten(h)
      PROVE  SequencesOK'
  BY <1>6 DEF ConfigNotWritten
<1>7. ASSUME NEW h \in Hosts, NotLaunched(h)
      PROVE  SequencesOK'
  BY <1>7 DEF NotLaunched
<1>8. ASSUME NEW h \in Hosts, Launched(h)
      PROVE  SequencesOK'
  BY <1>8 DEF Launched
<1>9. CASE CheckConnects
  BY <1>9 DEF CheckConnects
<1>10. CASE CheckPolls
  BY <1>10 DEF CheckPolls
<1>11. CASE CheckFindsCrash
  BY <1>11 DEF CheckFindsCrash
<1>12. CASE CheckReconnects
  <2>1. signals' \in Seq(Words)
    BY <1>12, StartConnectingSignals DEF CheckReconnects
  <2> QED
    BY <1>12, <2>1 DEF CheckReconnects
<1>13. CASE CheckTimesOut
  BY <1>13 DEF CheckTimesOut
<1>14. CASE CheckIdles
  BY <1>14 DEF CheckIdles
<1>15. CASE ReconnectTimeout
  <2>1. signals' \in Seq(Words)
    BY <1>15, StartConnectingSignals DEF ReconnectTimeout
  <2> QED
    BY <1>15, <2>1 DEF ReconnectTimeout
<1>16. CASE SocketConnected
  BY <1>16 DEF SocketConnected
<1>17. CASE SocketError
  BY <1>17 DEF SocketError
<1>18. CASE SocketReadyRead
  BY <1>18, BatchType DEF SocketReadyRead
<1>19. CASE OpenvpnLogfileChanged
  BY <1>19 DEF OpenvpnLogfileChanged, WatchedLines, Lines
<1>20. CASE ConnectedWord
  BY <1>20 DEF ConnectedWord
<1>21. CASE ConnectingWord
  BY <1>21 DEF ConnectingWord
<1>22. CASE WaitWord
  BY <1>22 DEF WaitWord
<1>23. CASE ExitingWord
  BY <1>23 DEF ExitingWord
<1>24. CASE ResolveWord
  <2>1. signals' \in {<<>>, Emitted(state, "Disconnected") \o <<"error">>}
    BY <1>24 DEF ResolveWord
  <2>2. Emitted(state, "Disconnected") \in Seq(Words)
    BY EmittedType
  <2>3. signals' \in Seq(Words)
    BY <2>1, <2>2, SignalsType
  <2>4. todo' \in Seq(Lines)
    BY <1>24, TailType DEF ResolveWord
  <2> QED
    BY <2>3, <2>4
<1>25. CASE QueryLine
  BY <1>25 DEF QueryLine
<1>26. CASE AuthFailedLine
  BY <1>26 DEF AuthFailedLine
<1>27. CASE FatalLine
  BY <1>27 DEF FatalLine
<1>28. CASE ErrorLine
  BY <1>28 DEF ErrorLine
<1>29. CASE TunErrorLine
  <2>1. signals' \in Seq(Words)
    BY <1>29, StartConnectingSignals DEF TunErrorLine
  <2> QED
    BY <1>29, <2>1 DEF TunErrorLine
<1>30. CASE BindFailedLine
  <2>1. signals' \in Seq(Words)
    BY <1>30, StartConnectingSignals DEF BindFailedLine
  <2> QED
    BY <1>30, <2>1 DEF BindFailedLine
<1>31. CASE InitCompletedLine
  BY <1>31 DEF InitCompletedLine
<1>32. CASE ServiceRestarts
  BY <1>32 DEF ServiceRestarts
<1>33. CASE QueryCrashes
  BY <1>33 DEF QueryCrashes
<1>34. CASE OpenvpnMoves
  BY <1>34 DEF OpenvpnMoves
<1>35. CASE OpenvpnLogs
  BY <1>35 DEF OpenvpnLogs
<1>36. CASE TimePasses
  BY <1>36 DEF TimePasses
<1>37. CASE UNCHANGED vars
  BY <1>37 DEF vars, managerVars, pendingVars, outsideVars, historyVars
<1> QED
  BY <1>1, <1>2, <1>3, <1>4, <1>5, <1>6, <1>7, <1>8, <1>9, <1>10, <1>11, <1>12,
     <1>13, <1>14, <1>15, <1>16, <1>17, <1>18, <1>19, <1>20, <1>21, <1>22, <1>23,
     <1>24, <1>25, <1>26, <1>27, <1>28, <1>29, <1>30, <1>31, <1>32, <1>33, <1>34,
     <1>35, <1>36, <1>37
     DEF Next, CheckState, ParseLine

\* In every reachable state the manager is as the declarations of its members say:
\* the type invariant of the specification.
THEOREM TypeCorrect == Spec => []TypeOK
<1>1. Init => TypeOK
  <2> SUFFICES ASSUME Init
               PROVE  TypeOK
    OBVIOUS
  <2>1. FlagsOK
    BY DEF Init, FlagsOK
  <2>2. ModesOK
    BY DEF Init, ModesOK, States, Phases
  <2>3. CountersOK
    BY ConstantsAssumption DEF Init, CountersOK, ConstantsAssumption, G_Max_Reconnect
  <2>4. SequencesOK
    BY DEF Init, SequencesOK
  <2> QED
    BY <2>1, <2>2, <2>3, <2>4 DEF TypeOK
<1>2. TypeOK /\ [Next]_vars => TypeOK'
  BY ConstantsAssumption, FlagsStep, ModesStep, CountersStep, SequencesStep DEF TypeOK
<1> QED
  BY <1>1, <1>2, PTL DEF Spec
=============================================================================
