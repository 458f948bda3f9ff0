------------------------- MODULE ServiceLinkProofs -------------------------
(***************************************************************************)
(* What the application shows is what the service told it: type            *)
(* correctness of ServiceLink and the invariant ShownIsTold, for any       *)
(* number of requests, deaths and unread notifications.                    *)
(***************************************************************************)
EXTENDS ServiceLink, TLAPS

-----------------------------------------------------------------------------
(* What sequences of words tell.                                           *)

HasState(s) == \E i \in DOMAIN s : s[i] \in VpnStates

\* No words tell of no change.
LEMMA TellsNothing ==
    ASSUME NEW v
    PROVE  Manager!Tells(<<>>, v, v)
BY DEF Manager!Tells

\* A state is told to everyone, whatever was said before it.
LEMMA TellsAfter ==
    ASSUME NEW s \in Seq(Notes), NEW t \in Seq(Notes), NEW u, NEW v, NEW w,
           Manager!Tells(t, v, w), HasState(t)
    PROVE  Manager!Tells(s \o t, u, w)
<1>1. /\ DOMAIN s = 1..Len(s) /\ DOMAIN t = 1..Len(t)
      /\ DOMAIN (s \o t) = 1..(Len(s) + Len(t))
      /\ Len(s) \in Nat /\ Len(t) \in Nat
  OBVIOUS
<1>2. /\ \A i \in 1..Len(t) : (s \o t)[Len(s) + i] = t[i]
      /\ \A i \in DOMAIN (s \o t) :
           i \in 1..Len(s) \/ (i - Len(s) \in 1..Len(t) /\ (s \o t)[i] = t[i - Len(s)])
  BY <1>1
<1>3. PICK i \in DOMAIN t : /\ t[i] = w /\ w \in VpnStates
                           /\ \A j \in DOMAIN t : j > i => t[j] \notin VpnStates
  BY DEF Manager!Tells, HasState, VpnStates
<1>4. Len(s) + i \in DOMAIN (s \o t) /\ (s \o t)[Len(s) + i] = w
  BY <1>1, <1>2, <1>3
<1>5. ASSUME NEW j \in DOMAIN (s \o t), j > Len(s) + i
      PROVE  (s \o t)[j] \notin VpnStates
  <2>1. j - Len(s) \in DOMAIN t /\ j - Len(s) > i /\ (s \o t)[j] = t[j - Len(s)]
    BY <1>1, <1>2, <1>3, <1>5
  <2> QED
    BY <2>1, <1>3
<1> QED
  BY <1>3, <1>4, <1>5 DEF Manager!Tells, VpnStates

\* Words after words: the changes add up.
LEMMA TellsAppend ==
    ASSUME NEW s \in Seq(Notes), NEW t \in Seq(Notes), NEW u, NEW v, NEW w,
           Manager!Tells(s, u, v), Manager!Tells(t, v, w)
    PROVE  Manager!Tells(s \o t, u, w)
<1>1. /\ DOMAIN s = 1..Len(s) /\ DOMAIN t = 1..Len(t)
      /\ DOMAIN (s \o t) = 1..(Len(s) + Len(t))
      /\ Len(s) \in Nat /\ Len(t) \in Nat
  OBVIOUS
<1>2. /\ \A i \in 1..Len(s) : (s \o t)[i] = s[i]
      /\ \A i \in 1..Len(t) : (s \o t)[Len(s) + i] = t[i]
      /\ \A i \in DOMAIN (s \o t) :
           i \in 1..Len(s) \/ (i - Len(s) \in 1..Len(t) /\ (s \o t)[i] = t[i - Len(s)])
  BY <1>1
<1>3. CASE v = w /\ \A i \in DOMAIN t : t[i] \notin VpnStates
  <2>1. CASE u = v /\ \A i \in DOMAIN s : s[i] \notin VpnStates
    <3>1. \A i \in DOMAIN (s \o t) : (s \o t)[i] \notin VpnStates
      BY <1>1, <1>2, <1>3, <2>1
    <3> QED
      BY <3>1, <1>3, <2>1 DEF Manager!Tells, VpnStates
  <2>2. ASSUME NEW i \in DOMAIN s, s[i] = v, v \in VpnStates,
               \A j \in DOMAIN s : j > i => s[j] \notin VpnStates
        PROVE  Manager!Tells(s \o t, u, w)
    <3>1. i \in DOMAIN (s \o t) /\ (s \o t)[i] = w
      BY <1>1, <1>2, <1>3, <2>2
    <3>2. \A j \in DOMAIN (s \o t) : j > i => (s \o t)[j] \notin VpnStates
      BY <1>1, <1>2, <1>3, <2>2
    <3> QED
      BY <3>1, <3>2, <1>3, <2>2 DEF Manager!Tells, VpnStates
  <2> QED
    BY <2>1, <2>2 DEF Manager!Tells, VpnStates
<1>4. CASE HasState(t)
  BY <1>4, TellsAfter
<1> QED
  BY <1>3, <1>4 DEF Manager!Tells, HasState, VpnStates

\* Words that hold a state tell it to everyone.
LEMMA TellsAnew ==
    ASSUME NEW t \in Seq(Notes), NEW u, NEW v, NEW w,
           Manager!Tells(t, v, w), HasState(t)
    PROVE  Manager!Tells(t, u, w)
BY DEF Manager!Tells, HasState, VpnStates

\* Reading a word takes the reader one change further.
LEMMA TellsTail ==
    ASSUME NEW s \in Seq(Notes), s # <<>>, NEW u, NEW v, Manager!Tells(s, u, v)
    PROVE  /\ Head(s) \in VpnStates => Manager!Tells(Tail(s), Head(s), v)
           /\ Head(s) \notin VpnStates => Manager!Tells(Tail(s), u, v)
<1>1. /\ DOMAIN s = 1..Len(s) /\ Len(s) \in Nat \ {0}
      /\ DOMAIN Tail(s) = 1..(Len(s) - 1)
      /\ Head(s) = s[1]
      /\ \A i \in DOMAIN Tail(s) : Tail(s)[i] = s[i + 1]
  OBVIOUS
<1>2. CASE u = v /\ \A i \in DOMAIN s : s[i] \notin VpnStates
  <2>1. \A i \in DOMAIN Tail(s) : Tail(s)[i] \notin VpnStates
    BY <1>1, <1>2
  <2> QED
    BY <1>1, <1>2, <2>1 DEF Manager!Tells, VpnStates
<1>3. ASSUME NEW i \in DOMAIN s, s[i] = v, v \in VpnStates,
             \A j \in DOMAIN s : j > i => s[j] \notin VpnStates
      PROVE  /\ Head(s) \in VpnStates => Manager!Tells(Tail(s), Head(s), v)
             /\ Head(s) \notin VpnStates => Manager!Tells(Tail(s), u, v)
  <2>1. CASE i = 1
    <3>1. Head(s) = v /\ \A j \in DOMAIN Tail(s) : Tail(s)[j] \notin VpnStates
      BY <1>1, <1>3, <2>1
    <3> QED
      BY <3>1, <1>3 DEF Manager!Tells, VpnStates
  <2>2. CASE i # 1
    <3>1. i - 1 \in DOMAIN Tail(s) /\ Tail(s)[i - 1] = v
      BY <1>1, <1>3, <2>2
    <3>2. \A j \in DOMAIN Tail(s) : j > i - 1 => Tail(s)[j] \notin VpnStates
      BY <1>1, <1>3, <2>2
    <3> QED
      BY <3>1, <3>2, <1>3 DEF Manager!Tells, VpnStates
  <2> QED
    BY <2>1, <2>2
<1> QED
  BY <1>2, <1>3 DEF Manager!Tells, VpnStates
-----------------------------------------------------------------------------
(* What the manager says.                                                  *)

\* The action tells of the change it makes.
SaysItsChange ==
    /\ vpn' \in VpnStates
    /\ said' \in Seq(Notes)
    /\ Manager!Tells(said', vpn, vpn')

\* One word, or two.
LEMMA WordsTell ==
    /\ \A w \in Notes : <<w>> \in Seq(Notes)
    /\ \A v, w \in Notes : <<v, w>> \in Seq(Notes)
    /\ <<>> \in Seq(Notes)
    /\ \A v \in VpnStates : v \in Notes
    /\ "error" \in Notes /\ "timedOut" \in Notes
    /\ \A u, w \in VpnStates : Manager!Tells(<<w>>, u, w)
    /\ \A v \in VpnStates : Manager!Tells(<<"error">>, v, v)
    /\ \A v \in VpnStates : Manager!Tells(<<"Disconnected", "timedOut">>, v, "Disconnected")
BY DEF Notes, VpnStates, Manager!VpnStates, Manager!Tells

\* setState tells of a change.
LEMMA ChangeTells ==
    ASSUME NEW u \in VpnStates, NEW v \in VpnStates
    PROVE  /\ Manager!Change(u, v) \in Seq(Notes)
           /\ Manager!Tells(Manager!Change(u, v), u, v)
<1>1. CASE u = v
  BY <1>1, WordsTell, TellsNothing DEF Manager!Change
<1>2. CASE u # v
  BY <1>2, WordsTell DEF Manager!Change
<1> QED
  BY <1>1, <1>2

\* Trouble changes nothing.
LEMMA TroubleTells ==
    ASSUME NEW trouble \in Manager!Trouble, NEW v \in VpnStates
    PROVE  /\ trouble \in Seq(Notes)
           /\ Manager!Tells(trouble, v, v)
<1>1. CASE trouble = <<>>
  BY <1>1, WordsTell, TellsNothing
<1>2. CASE trouble = <<"error">>
  BY <1>2, WordsTell
<1>3. CASE trouble = <<"error">> \o <<"error">>
  <2>1. <<"error">> \in Seq(Notes) /\ Manager!Tells(<<"error">>, v, v)
    BY WordsTell
  <2>2. trouble \in Seq(Notes)
    BY <1>3, <2>1
  <2> QED
    BY <1>3, <2>1, <2>2, TellsAppend
<1> QED
  BY <1>1, <1>2, <1>3 DEF Manager!Trouble

\* The answer to cmdStart.
LEMMA StartTells ==
    ASSUME vpn \in VpnStates, Manager!Start
    PROVE  SaysItsChange /\ HasState(said')
<1>1. PICK trouble \in Manager!Trouble :
        said' = Manager!Change(vpn, "Disconnected") \o <<"Connecting">> \o trouble
  BY DEF Manager!Start
<1> DEFINE ending == Manager!Change(vpn, "Disconnected")
<1>2. ending \in Seq(Notes) /\ Manager!Tells(ending, vpn, "Disconnected")
  BY ChangeTells DEF VpnStates, Manager!VpnStates
<1>3. <<"Connecting">> \in Seq(Notes) /\ Manager!Tells(<<"Connecting">>, "Disconnected", "Connecting")
  BY WordsTell DEF VpnStates, Manager!VpnStates
<1>4. trouble \in Seq(Notes) /\ Manager!Tells(trouble, "Connecting", "Connecting")
  BY TroubleTells DEF VpnStates, Manager!VpnStates
<1> HIDE DEF ending
<1>5. ending \o <<"Connecting">> \in Seq(Notes)
  BY <1>2, <1>3
<1>6. Manager!Tells(ending \o <<"Connecting">>, vpn, "Connecting")
  BY <1>2, <1>3, TellsAppend
<1>7. said' = (ending \o <<"Connecting">>) \o trouble
  BY <1>1 DEF ending
<1>8. said' \in Seq(Notes)
  BY <1>4, <1>5, <1>7
<1>9. Manager!Tells(said', vpn, "Connecting")
  BY <1>4, <1>5, <1>6, <1>7, TellsAppend
<1>10. HasState(said')
  <2>1. Len(ending) + 1 \in DOMAIN (ending \o <<"Connecting">>)
        /\ (ending \o <<"Connecting">>)[Len(ending) + 1] = "Connecting"
    BY <1>2, <1>3
  <2>2. Len(ending) + 1 \in DOMAIN said' /\ said'[Len(ending) + 1] = "Connecting"
    BY <2>1, <1>4, <1>5, <1>7
  <2> QED
    BY <2>2 DEF HasState, VpnStates, Manager!VpnStates
<1> QED
  BY <1>8, <1>9, <1>10 DEF SaysItsChange, VpnStates, Manager!VpnStates, Manager!Start

\* The answer to cmdStop.
LEMMA StopTells ==
    ASSUME vpn \in VpnStates, Manager!Stop
    PROVE  SaysItsChange /\ vpn' = "Disconnected"
BY ChangeTells DEF Manager!Stop, SaysItsChange, VpnStates, Manager!VpnStates

\* Whatever the manager does of its own.
LEMMA MovesTell ==
    ASSUME vpn \in VpnStates,
           \/ Manager!Stay \/ Manager!Move \/ Manager!Retry \/ Manager!Fail
           \/ Manager!TimeOut \/ Manager!CrashTimesOut
    PROVE  SaysItsChange
<1> USE DEF VpnStates, Manager!VpnStates
<1>1. CASE Manager!Stay
  BY <1>1, WordsTell, TellsNothing DEF Manager!Stay, SaysItsChange
<1>2. CASE Manager!Move
  BY <1>2, WordsTell DEF Manager!Move, SaysItsChange
<1>3. CASE Manager!Retry
  <2>1. PICK trouble \in Manager!Trouble : said' = Manager!Change(vpn, "Connecting") \o trouble
    BY <1>3 DEF Manager!Retry
  <2>2. /\ Manager!Change(vpn, "Connecting") \in Seq(Notes)
        /\ Manager!Tells(Manager!Change(vpn, "Connecting"), vpn, "Connecting")
        /\ trouble \in Seq(Notes) /\ Manager!Tells(trouble, "Connecting", "Connecting")
    BY ChangeTells, TroubleTells
  <2>3. said' \in Seq(Notes)
    BY <2>1, <2>2
  <2> QED
    BY <1>3, <2>1, <2>2, <2>3, TellsAppend DEF Manager!Retry, SaysItsChange
<1>4. CASE Manager!Fail
  <2>1. /\ Manager!Change(vpn, "Disconnected") \in Seq(Notes)
        /\ Manager!Tells(Manager!Change(vpn, "Disconnected"), vpn, "Disconnected")
        /\ <<"error">> \in Seq(Notes)
        /\ Manager!Tells(<<"error">>, vpn, vpn)
        /\ Manager!Tells(<<"error">>, "Disconnected", "Disconnected")
    BY ChangeTells, WordsTell
  <2>2. \/ said' = <<"error">> \o Manager!Change(vpn, "Disconnected")
        \/ said' = Manager!Change(vpn, "Disconnected") \o <<"error">>
    BY <1>4 DEF Manager!Fail
  <2>3. /\ <<"error">> \o Manager!Change(vpn, "Disconnected") \in Seq(Notes)
        /\ Manager!Change(vpn, "Disconnected") \o <<"error">> \in Seq(Notes)
    BY <2>1
  <2>4. Manager!Tells(said', vpn, "Disconnected") /\ said' \in Seq(Notes)
    BY <2>1, <2>2, <2>3, TellsAppend
  <2>5. vpn' = "Disconnected"
    BY <1>4 DEF Manager!Fail
  <2> QED
    BY <2>4, <2>5 DEF SaysItsChange
<1>5. CASE Manager!TimeOut
  BY <1>5, WordsTell DEF Manager!TimeOut, SaysItsChange
<1>6. CASE Manager!CrashTimesOut
  <2>1. PICK trouble \in Manager!Trouble :
          said' = <<"Connecting">> \o trouble \o <<"Disconnected", "timedOut">>
    BY <1>6 DEF Manager!CrashTimesOut
  <2>2. /\ <<"Connecting">> \in Seq(Notes)
        /\ Manager!Tells(<<"Connecting">>, vpn, "Connecting")
        /\ trouble \in Seq(Notes) /\ Manager!Tells(trouble, "Connecting", "Connecting")
        /\ <<"Disconnected", "timedOut">> \in Seq(Notes)
        /\ Manager!Tells(<<"Disconnected", "timedOut">>, "Connecting", "Disconnected")
    BY WordsTell, TroubleTells
  <2>3. <<"Connecting">> \o trouble \in Seq(Notes)
    BY <2>2
  <2>4. Manager!Tells(<<"Connecting">> \o trouble, vpn, "Connecting")
    BY <2>2, TellsAppend
  <2>5. said' \in Seq(Notes)
    BY <2>1, <2>2, <2>3
  <2>6. Manager!Tells(said', vpn, "Disconnected")
    BY <2>1, <2>2, <2>3, <2>4, TellsAppend
  <2> QED
    BY <1>6, <2>5, <2>6 DEF Manager!CrashTimesOut, SaysItsChange
<1> QED
  BY <1>1, <1>2, <1>3, <1>4, <1>5, <1>6
-----------------------------------------------------------------------------
(* Type correctness.                                                       *)

\* The state of the service keeps its type.
LEMMA ManagerOKStep ==
    ASSUME ManagerOK, [Next]_vars
    PROVE  ManagerOK'
<1> USE DEF ManagerOK, serviceVars, managerVars, counters
<1>1. CASE SendCredentials
  BY <1>1 DEF SendCredentials, Request, Send
<1>2. CASE SendConnectToVPNRequest
  BY <1>2 DEF SendConnectToVPNRequest, Request, Send
<1>3. CASE SendDisconnectFromVPNRequest
  BY <1>3 DEF SendDisconnectFromVPNRequest, Request, Send
<1>5. ASSUME NEW s \in VpnStates, NotifyStatusChange(s)
      PROVE  ManagerOK'
  BY <1>5 DEF NotifyStatusChange, ReadNote
<1>6. CASE NotifyTimeout
  BY <1>6 DEF NotifyTimeout, ReadNote
<1>7. CASE NotifyError
  BY <1>7 DEF NotifyError, ReadNote
<1>8. CASE SocketDisconnected
  BY <1>8 DEF SocketDisconnected
<1>9. CASE IncomingConnection
  BY <1>9 DEF IncomingConnection
<1>10. CASE CmdSetCredentials
  BY <1>10 DEF CmdSetCredentials, ReadCommand
<1>11. CASE CmdStart
  BY <1>11, StartTells DEF CmdStart, ReadCommand, SaysItsChange
<1>12. CASE CmdStop
  BY <1>12, StopTells DEF CmdStop, ReadCommand, SaysItsChange
<1>13. CASE WorkerDestroyed
  BY <1>13 DEF WorkerDestroyed
<1>14. CASE ManagerMoves
  BY <1>14, MovesTell DEF ManagerMoves, SaysItsChange
<1>15. CASE ServiceDies
  BY <1>15, WordsTell DEF ServiceDies, Manager!Die, VpnStates, Manager!VpnStates
<1>16. CASE ServiceStarts
  BY <1>16 DEF ServiceStarts
<1>17. CASE ClientRestarts
  BY <1>17 DEF ClientRestarts, StartsAfresh
<1>18. CASE RestartRefused
  BY <1>18 DEF RestartRefused, StartsAfresh
<1>19. CASE UNCHANGED vars
  BY <1>19 DEF vars
<1> QED
  BY <1>1, <1>2, <1>3, <1>5, <1>6, <1>7, <1>8, <1>9, <1>10, <1>11, <1>12,
     <1>13, <1>14, <1>15, <1>16, <1>17, <1>18, <1>19
     DEF Next, ClientReads, ServiceReads

\* A command keeps the two ends in agreement.
LEMMA SendStep ==
    ASSUME ManagerOK, ClientOK, LinkOK, NEW command, Send(command)
    PROVE  /\ mConnected' \in BOOLEAN
           /\ mConnected' <=> link' \in {"pending", "open", "closed"}
           /\ LinkOK'
<1> USE DEF ManagerOK, ClientOK, LinkOK, Links
<1>1. CASE mConnected
  BY <1>1 DEF Send
<1>2. CASE ~mConnected /\ link = "none" /\ link' = "pending"
  BY <1>2 DEF Send
<1>3. CASE ~mConnected /\ ~serving /\ link' = link
  BY <1>3 DEF Send
<1> QED
  BY <1>1, <1>2, <1>3 DEF Send

\* What the manager says goes to an open connection only.
LEMMA ForwardStep ==
    ASSUME notes \in Seq(Notes), said' \in Seq(Notes), Forward
    PROVE  /\ notes' \in Seq(Notes)
           /\ link = "open" => notes' = notes \o said'
           /\ link # "open" => notes' = notes
<1>1. notes \o said' \in Seq(Notes)
  OBVIOUS
<1> QED
  BY <1>1 DEF Forward

\* So does the state of the application, which knows of its connection.
LEMMA ClientOKStep ==
    ASSUME ManagerOK, ClientOK, LinkOK, [Next]_vars
    PROVE  ClientOK'
<1> USE DEF ClientOK, LinkOK, serviceVars, clientVars, managerVars, Links, counters
<1>1. CASE SendCredentials
  <2>1. Send("cmdSetCredentials")
    BY <1>1 DEF SendCredentials
  <2>2. /\ mState' \in {mState, "Disconnecting"}
        /\ mUserRequestedDisconnect' \in BOOLEAN /\ mPortDialogShown' = mPortDialogShown
        /\ listed' \in BOOLEAN
    BY <1>1 DEF SendCredentials, Request, ClientOK
  <2> QED
    BY <2>1, <2>2, SendStep DEF ClientOK
<1>2. CASE SendConnectToVPNRequest
  <2>1. Send("cmdStart")
    BY <1>2 DEF SendConnectToVPNRequest
  <2>2. /\ mState' \in {mState, "Disconnecting"}
        /\ mUserRequestedDisconnect' \in BOOLEAN /\ mPortDialogShown' = mPortDialogShown
        /\ listed' \in BOOLEAN
    BY <1>2 DEF SendConnectToVPNRequest, Request, ClientOK
  <2> QED
    BY <2>1, <2>2, SendStep DEF ClientOK
<1>3. CASE SendDisconnectFromVPNRequest
  <2>1. Send("cmdStop")
    BY <1>3 DEF SendDisconnectFromVPNRequest
  <2>2. /\ mState' \in {mState, "Disconnecting"}
        /\ mUserRequestedDisconnect' \in BOOLEAN /\ mPortDialogShown' = mPortDialogShown
        /\ listed' \in BOOLEAN
    BY <1>3 DEF SendDisconnectFromVPNRequest, Request, ClientOK
  <2> QED
    BY <2>1, <2>2, SendStep DEF ClientOK
<1>5. ASSUME NEW s \in VpnStates, NotifyStatusChange(s)
      PROVE  ClientOK'
  BY <1>5 DEF NotifyStatusChange, ReadNote
<1>6. CASE NotifyTimeout
  BY <1>6 DEF NotifyTimeout, ReadNote
<1>7. CASE NotifyError
  BY <1>7 DEF NotifyError, ReadNote
<1>8. CASE SocketDisconnected
  BY <1>8 DEF SocketDisconnected
<1>9. CASE IncomingConnection
  BY <1>9 DEF IncomingConnection
<1>10. CASE CmdSetCredentials
  BY <1>10 DEF CmdSetCredentials, ReadCommand
<1>11. CASE CmdStart
  BY <1>11 DEF CmdStart, ReadCommand, Forward
<1>12. CASE CmdStop
  BY <1>12 DEF CmdStop, ReadCommand, Forward
<1>13. CASE WorkerDestroyed
  BY <1>13 DEF WorkerDestroyed
<1>14. CASE ManagerMoves
  BY <1>14 DEF ManagerMoves, Forward
<1>15. CASE ServiceDies
  BY <1>15 DEF ServiceDies, Manager!Die
<1>16. CASE ServiceStarts
  BY <1>16 DEF ServiceStarts
<1>17. CASE ClientRestarts
  BY <1>17 DEF ClientRestarts, StartsAfresh, VpnStates, Manager!VpnStates
<1>18. CASE RestartRefused
  BY <1>18 DEF RestartRefused, StartsAfresh, VpnStates, Manager!VpnStates
<1>19. CASE UNCHANGED vars
  BY <1>19 DEF vars
<1> QED
  BY <1>1, <1>2, <1>3, <1>5, <1>6, <1>7, <1>8, <1>9, <1>10, <1>11, <1>12,
     <1>13, <1>14, <1>15, <1>16, <1>17, <1>18, <1>19
     DEF Next, ClientReads, ServiceReads

\* The counters stay under their bounds.
LEMMA CountersOKStep ==
    ASSUME BoundsAssumption, CountersOK, [Next]_vars
    PROVE  CountersOK'
<1> USE DEF CountersOK, BoundsAssumption, counters
<1>1. CASE SendCredentials
  BY <1>1 DEF SendCredentials, Request, Send
<1>2. CASE SendConnectToVPNRequest
  BY <1>2 DEF SendConnectToVPNRequest, Request, Send
<1>3. CASE SendDisconnectFromVPNRequest
  BY <1>3 DEF SendDisconnectFromVPNRequest, Request, Send
<1>5. ASSUME NEW s \in VpnStates, NotifyStatusChange(s)
      PROVE  CountersOK'
  BY <1>5 DEF NotifyStatusChange, ReadNote
<1>6. CASE NotifyTimeout
  BY <1>6 DEF NotifyTimeout, ReadNote
<1>7. CASE NotifyError
  BY <1>7 DEF NotifyError, ReadNote
<1>8. CASE SocketDisconnected
  BY <1>8 DEF SocketDisconnected
<1>9. CASE IncomingConnection
  BY <1>9 DEF IncomingConnection
<1>10. CASE CmdSetCredentials
  BY <1>10 DEF CmdSetCredentials, ReadCommand
<1>11. CASE CmdStart
  BY <1>11 DEF CmdStart, ReadCommand, Forward
<1>12. CASE CmdStop
  BY <1>12 DEF CmdStop, ReadCommand, Forward
<1>13. CASE WorkerDestroyed
  BY <1>13 DEF WorkerDestroyed
<1>14. CASE ManagerMoves
  BY <1>14 DEF ManagerMoves, Forward
<1>15. CASE ServiceDies
  BY <1>15 DEF ServiceDies, Manager!Die
<1>16. CASE ServiceStarts
  BY <1>16 DEF ServiceStarts
<1>17. CASE ClientRestarts
  BY <1>17 DEF ClientRestarts, StartsAfresh
<1>18. CASE RestartRefused
  BY <1>18 DEF RestartRefused, StartsAfresh
<1>19. CASE UNCHANGED vars
  BY <1>19 DEF vars
<1> QED
  BY <1>1, <1>2, <1>3, <1>5, <1>6, <1>7, <1>8, <1>9, <1>10, <1>11, <1>12,
     <1>13, <1>14, <1>15, <1>16, <1>17, <1>18, <1>19
     DEF Next, ClientReads, ServiceReads

\* The queues hold commands and notifications.
LEMMA QueuesOKStep ==
    ASSUME ManagerOK, QueuesOK, [Next]_vars
    PROVE  QueuesOK'
<1> USE DEF QueuesOK, serviceVars, clientVars, managerVars, counters
<1>1. CASE SendCredentials
  <2>1. "cmdSetCredentials" \in Commands
    BY DEF Commands
  <2>2. /\ <<"cmdSetCredentials">> \in Seq(Commands) /\ Append(commands, "cmdSetCredentials") \in Seq(Commands)
        /\ <<>> \in Seq(Notes)
    BY <2>1
  <2> QED
    BY <1>1, <2>2 DEF SendCredentials, Request, Send
<1>2. CASE SendConnectToVPNRequest
  <2>1. "cmdStart" \in Commands
    BY DEF Commands
  <2>2. /\ <<"cmdStart">> \in Seq(Commands) /\ Append(commands, "cmdStart") \in Seq(Commands)
        /\ <<>> \in Seq(Notes)
    BY <2>1
  <2> QED
    BY <1>2, <2>2 DEF SendConnectToVPNRequest, Request, Send
<1>3. CASE SendDisconnectFromVPNRequest
  <2>1. "cmdStop" \in Commands
    BY DEF Commands
  <2>2. /\ <<"cmdStop">> \in Seq(Commands) /\ Append(commands, "cmdStop") \in Seq(Commands)
        /\ <<>> \in Seq(Notes)
    BY <2>1
  <2> QED
    BY <1>3, <2>2 DEF SendDisconnectFromVPNRequest, Request, Send
<1>5. ASSUME NEW s \in VpnStates, NotifyStatusChange(s)
      PROVE  QueuesOK'
  BY <1>5 DEF NotifyStatusChange, ReadNote
<1>6. CASE NotifyTimeout
  BY <1>6 DEF NotifyTimeout, ReadNote
<1>7. CASE NotifyError
  BY <1>7 DEF NotifyError, ReadNote
<1>8. CASE SocketDisconnected
  BY <1>8 DEF SocketDisconnected
<1>9. CASE IncomingConnection
  BY <1>9 DEF IncomingConnection
<1>10. CASE CmdSetCredentials
  BY <1>10 DEF CmdSetCredentials, ReadCommand
<1>11. CASE CmdStart
  <2>1. said' \in Seq(Notes)
    BY <1>11, StartTells DEF CmdStart, SaysItsChange, ManagerOK
  <2>2. notes' \in Seq(Notes)
    BY <1>11, <2>1, ForwardStep DEF CmdStart
  <2>3. commands' \in Seq(Commands)
    BY <1>11 DEF CmdStart, ReadCommand
  <2> QED
    BY <2>2, <2>3
<1>12. CASE CmdStop
  <2>1. said' \in Seq(Notes)
    BY <1>12, StopTells DEF CmdStop, SaysItsChange, ManagerOK
  <2>2. notes' \in Seq(Notes)
    BY <1>12, <2>1, ForwardStep DEF CmdStop
  <2>3. commands' \in Seq(Commands)
    BY <1>12 DEF CmdStop, ReadCommand
  <2> QED
    BY <2>2, <2>3
<1>13. CASE WorkerDestroyed
  BY <1>13 DEF WorkerDestroyed
<1>14. CASE ManagerMoves
  <2>1. said' \in Seq(Notes)
    BY <1>14, MovesTell DEF ManagerMoves, SaysItsChange, ManagerOK
  <2>2. notes' \in Seq(Notes)
    BY <1>14, <2>1, ForwardStep DEF ManagerMoves
  <2>3. commands' \in Seq(Commands)
    BY <1>14 DEF ManagerMoves
  <2> QED
    BY <2>2, <2>3
<1>15. CASE ServiceDies
  <2>1. PICK n \in 0..Len(notes) : notes' = SubSeq(notes, 1, n)
    BY <1>15 DEF ServiceDies
  <2> QED
    BY <1>15, <2>1 DEF ServiceDies
<1>16. CASE ServiceStarts
  BY <1>16 DEF ServiceStarts
<1>17. CASE ClientRestarts
  <2>1. "cmdStop" \in Commands
    BY DEF Commands
  <2>2. /\ <<>> \in Seq(Notes) /\ <<"cmdStop">> \in Seq(Commands)
        /\ commands \o <<"cmdStop">> \in Seq(Commands) /\ commands \o <<>> = commands
    BY <2>1
  <2>3. notes' = <<>>
    BY <1>17 DEF ClientRestarts, StartsAfresh
  <2>4. commands' \in {commands, <<"cmdStop">>, commands \o <<>>, commands \o <<"cmdStop">>}
    BY <1>17 DEF ClientRestarts, StartsAfresh
  <2> QED
    BY <2>2, <2>3, <2>4
<1>18. CASE RestartRefused
  BY <1>18 DEF RestartRefused, StartsAfresh
<1>19. CASE UNCHANGED vars
  BY <1>19 DEF vars
<1> QED
  BY <1>1, <1>2, <1>3, <1>5, <1>6, <1>7, <1>8, <1>9, <1>10, <1>11, <1>12,
     <1>13, <1>14, <1>15, <1>16, <1>17, <1>18, <1>19
     DEF Next, ClientReads, ServiceReads

\* A queue of which there is no reader is empty.
LEMMA LinkOKStep ==
    ASSUME ManagerOK, ClientOK, LinkOK, [Next]_vars
    PROVE  LinkOK'
<1> USE DEF ManagerOK, ClientOK, LinkOK, Links, serviceVars, clientVars, managerVars, counters
<1>1. CASE SendCredentials
  <2>1. Send("cmdSetCredentials")
    BY <1>1 DEF SendCredentials
  <2> QED
    BY <2>1, SendStep
<1>2. CASE SendConnectToVPNRequest
  <2>1. Send("cmdStart")
    BY <1>2 DEF SendConnectToVPNRequest
  <2> QED
    BY <2>1, SendStep
<1>3. CASE SendDisconnectFromVPNRequest
  <2>1. Send("cmdStop")
    BY <1>3 DEF SendDisconnectFromVPNRequest
  <2> QED
    BY <2>1, SendStep
<1>5. ASSUME NEW s \in VpnStates, NotifyStatusChange(s)
      PROVE  LinkOK'
  BY <1>5 DEF NotifyStatusChange, ReadNote
<1>6. CASE NotifyTimeout
  BY <1>6 DEF NotifyTimeout, ReadNote
<1>7. CASE NotifyError
  BY <1>7 DEF NotifyError, ReadNote
<1>8. CASE SocketDisconnected
  BY <1>8 DEF SocketDisconnected
<1>9. CASE IncomingConnection
  BY <1>9 DEF IncomingConnection
<1>10. CASE CmdSetCredentials
  BY <1>10 DEF CmdSetCredentials, ReadCommand
<1>11. CASE CmdStart
  <2>1. (link # "open" => notes' = notes) /\ told' \in BOOLEAN
    BY <1>11 DEF CmdStart, Forward
  <2> QED
    BY <1>11, <2>1 DEF CmdStart, ReadCommand
<1>12. CASE CmdStop
  <2>1. (link # "open" => notes' = notes) /\ told' \in BOOLEAN
    BY <1>12 DEF CmdStop, Forward
  <2> QED
    BY <1>12, <2>1 DEF CmdStop, ReadCommand
<1>13. CASE WorkerDestroyed
  BY <1>13 DEF WorkerDestroyed
<1>14. CASE ManagerMoves
  <2>1. (link # "open" => notes' = notes) /\ told' \in BOOLEAN
    BY <1>14 DEF ManagerMoves, Forward
  <2> QED
    BY <1>14, <2>1 DEF ManagerMoves
<1>15. CASE ServiceDies
  BY <1>15 DEF ServiceDies, Manager!Die
<1>16. CASE ServiceStarts
  BY <1>16 DEF ServiceStarts
<1>17. CASE ClientRestarts
  BY <1>17 DEF ClientRestarts, StartsAfresh
<1>18. CASE RestartRefused
  BY <1>18 DEF RestartRefused, StartsAfresh
<1>19. CASE UNCHANGED vars
  BY <1>19 DEF vars
<1> QED
  BY <1>1, <1>2, <1>3, <1>5, <1>6, <1>7, <1>8, <1>9, <1>10, <1>11, <1>12,
     <1>13, <1>14, <1>15, <1>16, <1>17, <1>18, <1>19
     DEF Next, ClientReads, ServiceReads

\* The initial state has the types.
LEMMA TypeInit ==
    ASSUME BoundsAssumption, Init
    PROVE  TypeOK
<1>1. ManagerOK /\ ClientOK /\ LinkOK
  BY WordsTell DEF Init, Manager!Init, ManagerOK, ClientOK, LinkOK, Links, VpnStates,
                   Manager!VpnStates
<1>2. QueuesOK
  BY WordsTell DEF Init, QueuesOK
<1>3. CountersOK
  BY DEF Init, CountersOK, BoundsAssumption
<1> QED
  BY <1>1, <1>2, <1>3 DEF TypeOK

\* Every variable keeps its type; the two ends agree on whether they are connected.
THEOREM LinkTypeCorrect == Spec => []TypeOK
<1>1. Init => TypeOK
  BY TypeInit, BoundsAssumption
<1>2. TypeOK /\ [Next]_vars => TypeOK'
  BY ManagerOKStep, ClientOKStep, QueuesOKStep, LinkOKStep, CountersOKStep, BoundsAssumption DEF TypeOK
<1> QED
  BY <1>1, <1>2, PTL DEF Spec
-----------------------------------------------------------------------------
(* What is shown is what was told.  ShownIsTold is not inductive by itself: *)
(* a connection that is not yet made must not count as told.               *)

\* A new connection was told of nothing.
FreshIsUntold == link = "pending" => ~told

\* The Disconnecting of the user, with nothing to read that ends it.
Untold ==
    /\ mState = "Disconnecting"
    /\ ~HasState(notes)
    /\ vpn = "Disconnected" \/ Holds("cmdStop")

\* The two cases of ShownIsTold.
LEMMA ShownCases ==
    ShownIsTold <=> (link = "open" /\ told => Manager!Tells(notes, mState, vpn) \/ Untold)
BY DEF ShownIsTold, Untold, HasState

\* A command that is sent is held, and so are those that were.
LEMMA AppendHolds ==
    ASSUME commands \in Seq(Commands), NEW command, commands' = Append(commands, command)
    PROVE  /\ Holds("cmdStop") => Holds("cmdStop")'
           /\ command = "cmdStop" => Holds("cmdStop")'
<1>1. /\ DOMAIN commands = 1..Len(commands) /\ Len(commands) \in Nat
      /\ DOMAIN commands' = 1..(Len(commands) + 1)
      /\ commands'[Len(commands) + 1] = command
      /\ \A i \in DOMAIN commands : commands'[i] = commands[i]
  OBVIOUS
<1>2. DOMAIN commands \subseteq DOMAIN commands' /\ Len(commands) + 1 \in DOMAIN commands'
  BY <1>1
<1> QED
  BY <1>1, <1>2 DEF Holds

\* A command that is read takes no other with it.
LEMMA ReadHolds ==
    ASSUME commands \in Seq(Commands), NEW command, ReadCommand(command), command # "cmdStop"
    PROVE  Holds("cmdStop") => Holds("cmdStop")'
<1>1. /\ commands # <<>> /\ commands[1] # "cmdStop" /\ commands' = Tail(commands)
  BY DEF ReadCommand
<1>2. /\ DOMAIN commands = 1..Len(commands) /\ Len(commands) \in Nat \ {0}
      /\ DOMAIN commands' = 1..(Len(commands) - 1)
      /\ \A i \in DOMAIN commands' : commands'[i] = commands[i + 1]
  BY <1>1
<1>3. ASSUME NEW i \in DOMAIN commands, commands[i] = "cmdStop"
      PROVE  Holds("cmdStop")'
  <2>1. i - 1 \in DOMAIN commands' /\ commands'[i - 1] = "cmdStop"
    BY <1>1, <1>2, <1>3
  <2> QED
    BY <2>1 DEF Holds
<1> QED
  BY <1>3 DEF Holds

\* The manager speaks: the words that are forwarded take the application along.
LEMMA ForwardShows ==
    ASSUME TypeOK, ShownIsTold, SaysItsChange, Forward, link' = link, mState' = mState,
           Holds("cmdStop") => Holds("cmdStop")' \/ vpn' = "Disconnected"
    PROVE  ShownIsTold'
<1> SUFFICES ASSUME link = "open", told'
             PROVE  Manager!Tells(notes', mState, vpn') \/ Untold'
  BY ShownCases DEF ShownIsTold, Untold, HasState, VpnStates, Manager!Tells
<1>1. notes \in Seq(Notes) /\ said' \in Seq(Notes) /\ Manager!Tells(said', vpn, vpn')
  BY DEF TypeOK, QueuesOK, SaysItsChange
<1>2. notes' = notes \o said'
  BY DEF Forward
<1>3. CASE HasState(said')
  BY <1>1, <1>2, <1>3, TellsAfter
<1>4. CASE ~HasState(said')
  <2>1. vpn' = vpn /\ told
    BY <1>1, <1>4 DEF Manager!Tells, HasState, VpnStates, Forward
  <2>2. CASE Manager!Tells(notes, mState, vpn)
    BY <1>1, <1>2, <2>2, TellsAppend
  <2>3. CASE Untold
    <3>1. ~HasState(notes \o said')
      <4>1. \A i \in DOMAIN (notes \o said') :
              \/ i \in DOMAIN notes /\ (notes \o said')[i] = notes[i]
              \/ /\ i - Len(notes) \in DOMAIN said'
                 /\ (notes \o said')[i] = said'[i - Len(notes)]
        BY <1>1
      <4> QED
        BY <4>1, <1>4, <2>3 DEF HasState, Untold
    <3>2. ~HasState(notes')
      BY <3>1, <1>2
    <3> QED
      BY <3>2, <2>1, <2>3 DEF Untold, HasState, VpnStates
  <2> QED
    BY <2>1, <2>2, <2>3, ShownCases
<1> QED
  BY <1>3, <1>4

\* The application asks: what it shows stays, unless it shows Disconnecting with a
\* cmdStop on its way.
LEMMA SendShows ==
    ASSUME TypeOK, ShownIsTold, NEW command, Send(command), vpn' = vpn,
           \/ mState' = mState
           \/ mState' = "Disconnecting" /\ command = "cmdStop"
    PROVE  ShownIsTold'
<1> SUFFICES ASSUME link' = "open", told'
             PROVE  Manager!Tells(notes', mState', vpn') \/ Untold'
  BY DEF ShownIsTold, Untold, HasState, VpnStates, Manager!Tells
<1>1. /\ link = "open" /\ told /\ notes' = notes
      /\ commands' = Append(commands, command)
  BY DEF Send, TypeOK, ClientOK
<1>2. /\ Holds("cmdStop") => Holds("cmdStop")'
      /\ command = "cmdStop" => Holds("cmdStop")'
  BY <1>1, AppendHolds DEF TypeOK, QueuesOK
<1>3. Manager!Tells(notes, mState, vpn) \/ Untold
  BY <1>1, ShownCases
<1>4. CASE mState' = mState
  BY <1>1, <1>2, <1>3, <1>4 DEF Untold, HasState
<1>5. CASE mState' = "Disconnecting" /\ command = "cmdStop"
  <2>1. CASE HasState(notes)
    <3>1. Manager!Tells(notes, mState, vpn)
      BY <1>3, <2>1 DEF Untold
    <3>2. Manager!Tells(notes, "Disconnecting", vpn)
      BY <2>1, <3>1, TellsAnew DEF TypeOK, QueuesOK
    <3> QED
      BY <3>2, <1>1, <1>5
  <2>2. CASE ~HasState(notes)
    BY <1>1, <1>2, <1>5, <2>2 DEF Untold, HasState
  <2> QED
    BY <2>1, <2>2
<1> QED
  BY <1>4, <1>5

\* The application reads: a state is shown, another word changes nothing.
LEMMA ReadShows ==
    ASSUME TypeOK, ShownIsTold, NEW note, ReadNote(note),
           IF note \in VpnStates THEN mState' = note ELSE mState' = mState
    PROVE  ShownIsTold'
<1> SUFFICES ASSUME link' = "open", told'
             PROVE  Manager!Tells(notes', mState', vpn') \/ Untold'
  BY DEF ShownIsTold, Untold, HasState, VpnStates, Manager!Tells
<1>1. /\ link = "open" /\ told /\ notes # <<>> /\ note = Head(notes)
      /\ notes' = Tail(notes) /\ vpn' = vpn /\ commands' = commands
      /\ notes \in Seq(Notes)
  BY DEF ReadNote, serviceVars, TypeOK, QueuesOK
<1>2. Manager!Tells(notes, mState, vpn) \/ Untold
  BY <1>1, ShownCases
<1>3. CASE Manager!Tells(notes, mState, vpn)
  BY <1>1, <1>3, TellsTail
<1>4. CASE Untold
  <2>1. /\ 1 \in DOMAIN notes /\ notes[1] = note
        /\ \A i \in DOMAIN Tail(notes) : i + 1 \in DOMAIN notes /\ Tail(notes)[i] = notes[i + 1]
    BY <1>1
  <2>2. note \notin VpnStates /\ ~HasState(Tail(notes))
    BY <2>1, <1>4 DEF Untold, HasState
  <2> QED
    BY <1>1, <1>4, <2>2 DEF Untold, HasState, Holds
<1> QED
  BY <1>2, <1>3, <1>4

\* No step takes what is shown away from what was told.
LEMMA ShownStep ==
    ASSUME TypeOK, ShownIsTold, FreshIsUntold, [Next]_vars
    PROVE  ShownIsTold'
<1> USE DEF serviceVars, clientVars, managerVars, counters
<1>1. CASE SendCredentials
  BY <1>1, SendShows DEF SendCredentials, Request
<1>2. CASE SendConnectToVPNRequest
  BY <1>2, SendShows DEF SendConnectToVPNRequest, Request
<1>3. CASE SendDisconnectFromVPNRequest
  BY <1>3, SendShows DEF SendDisconnectFromVPNRequest, Request
<1>5. ASSUME NEW s \in VpnStates, NotifyStatusChange(s)
      PROVE  ShownIsTold'
  BY <1>5, ReadShows DEF NotifyStatusChange
<1>6. CASE NotifyTimeout
  BY <1>6, ReadShows DEF NotifyTimeout, VpnStates, Manager!VpnStates
<1>7. CASE NotifyError
  BY <1>7, ReadShows DEF NotifyError, VpnStates, Manager!VpnStates
<1>8. CASE SocketDisconnected
  BY <1>8 DEF SocketDisconnected, ShownIsTold
<1>9. CASE IncomingConnection
  BY <1>9 DEF IncomingConnection, ShownIsTold, FreshIsUntold
<1>10. CASE CmdSetCredentials
  <2>1. Holds("cmdStop") => Holds("cmdStop")'
    BY <1>10, ReadHolds DEF CmdSetCredentials, TypeOK, QueuesOK
  <2>2. UNCHANGED <<link, told, notes, mState, vpn>>
    BY <1>10 DEF CmdSetCredentials, ReadCommand
  <2> QED
    BY <2>1, <2>2 DEF ShownIsTold, Manager!Tells
<1>11. CASE CmdStart
  <2>1. Holds("cmdStop") => Holds("cmdStop")'
    BY <1>11, ReadHolds DEF CmdStart, TypeOK, QueuesOK
  <2>2. SaysItsChange
    BY <1>11, StartTells DEF CmdStart, TypeOK, ManagerOK
  <2>3. Forward /\ link' = link /\ mState' = mState
    BY <1>11 DEF CmdStart, ReadCommand
  <2> QED
    BY <2>1, <2>2, <2>3, ForwardShows
<1>12. CASE CmdStop
  <2>1. SaysItsChange /\ vpn' = "Disconnected"
    BY <1>12, StopTells DEF CmdStop, TypeOK, ManagerOK
  <2>2. Forward /\ link' = link /\ mState' = mState
    BY <1>12 DEF CmdStop, ReadCommand
  <2> QED
    BY <2>1, <2>2, ForwardShows
<1>13. CASE WorkerDestroyed
  BY <1>13 DEF WorkerDestroyed, ShownIsTold
<1>14. CASE ManagerMoves
  <2>1. SaysItsChange
    BY <1>14, MovesTell DEF ManagerMoves, TypeOK, ManagerOK
  <2>2. Forward /\ link' = link /\ mState' = mState
    BY <1>14 DEF ManagerMoves
  <2>3. Holds("cmdStop") => Holds("cmdStop")'
    BY <1>14 DEF ManagerMoves, Holds
  <2> QED
    BY <2>1, <2>2, <2>3, ForwardShows
<1>15. CASE ServiceDies
  BY <1>15 DEF ServiceDies, ShownIsTold, TypeOK, LinkOK, Links
<1>16. CASE ServiceStarts
  BY <1>16 DEF ServiceStarts, ShownIsTold, Holds, Manager!Tells
<1>17. CASE ClientRestarts
  BY <1>17 DEF ClientRestarts, StartsAfresh, ShownIsTold
<1>18. CASE RestartRefused
  BY <1>18 DEF RestartRefused, ShownIsTold, TypeOK, ClientOK
<1>19. CASE UNCHANGED vars
  BY <1>19 DEF vars, ShownIsTold, Holds, Manager!Tells
<1> QED
  BY <1>1, <1>2, <1>3, <1>5, <1>6, <1>7, <1>8, <1>9, <1>10, <1>11, <1>12,
     <1>13, <1>14, <1>15, <1>16, <1>17, <1>18, <1>19
     DEF Next, ClientReads, ServiceReads

\* Only an open connection is told.
LEMMA FreshStep ==
    ASSUME FreshIsUntold, [Next]_vars
    PROVE  FreshIsUntold'
<1> USE DEF FreshIsUntold, serviceVars, clientVars, managerVars, counters
<1>1. ASSUME NEW command, Send(command)
      PROVE  FreshIsUntold'
  BY <1>1 DEF Send
<1>2. CASE SendCredentials \/ SendConnectToVPNRequest \/ SendDisconnectFromVPNRequest
  BY <1>1, <1>2 DEF SendCredentials, SendConnectToVPNRequest, SendDisconnectFromVPNRequest
<1>4. CASE ClientReads
  BY <1>4 DEF ClientReads, NotifyStatusChange, NotifyTimeout, NotifyError, ReadNote,
              SocketDisconnected
<1>5. CASE IncomingConnection \/ WorkerDestroyed
  BY <1>5 DEF IncomingConnection, WorkerDestroyed
<1>6. CASE CmdSetCredentials \/ CmdStart \/ CmdStop
  BY <1>6 DEF CmdSetCredentials, CmdStart, CmdStop, ReadCommand, Forward
<1>7. CASE ManagerMoves
  BY <1>7 DEF ManagerMoves, Forward
<1>8. CASE ServiceDies \/ ServiceStarts \/ RestartRefused \/ ClientRestarts
  <2>1. CASE ServiceDies
    BY <2>1 DEF ServiceDies
  <2>2. CASE ServiceStarts \/ RestartRefused \/ ClientRestarts
    BY <2>2 DEF ServiceStarts, RestartRefused, ClientRestarts, StartsAfresh
  <2> QED
    BY <1>8, <2>1, <2>2
<1>9. CASE UNCHANGED vars
  BY <1>9 DEF vars
<1> QED
  BY <1>2, <1>4, <1>5, <1>6, <1>7, <1>8, <1>9 DEF Next, ServiceReads

\* Once its connection was told of a state, the application shows, or has yet to read,
\* the state of the manager, but for the Disconnecting of the user.
THEOREM ShownIsRight == Spec => []ShownIsTold
<1>1. Init => ShownIsTold /\ FreshIsUntold
  BY DEF Init, ShownIsTold, FreshIsUntold
<1>2. TypeOK /\ ShownIsTold /\ FreshIsUntold /\ [Next]_vars => (ShownIsTold /\ FreshIsUntold)'
  BY ShownStep, FreshStep
<1> QED
  BY <1>1, <1>2, LinkTypeCorrect, PTL DEF Spec

-----------------------------------------------------------------------------
(* The credentials come first.                                             *)

\* The command at i finds credentials when it is read.
Provided(cs, known, i) == known \/ \E j \in 1..(i - 1) : cs[j] = "cmdSetCredentials"

StartsProvided(cs, known) ==
    \A i \in DOMAIN cs : cs[i] = "cmdStart" => Provided(cs, known, i)

ListedProvided(cs, known, l) ==
    l => known \/ \E i \in DOMAIN cs : cs[i] = "cmdSetCredentials"

\* As long as the service has not died: the credentials of a login are known to it or on
\* their way, and on their way before every cmdStart.
CredentialsInv ==
    deaths = 0 =>
        /\ serving
        /\ link # "closed"
        /\ ListedProvided(commands, credentials, listed)
        /\ StartsProvided(commands, credentials)

\* A command that is written last: it needs credentials before it if it is cmdStart, and
\* provides them if it is cmdSetCredentials.
LEMMA AppendProvides ==
    ASSUME NEW cs \in Seq(Commands), NEW known, NEW l, NEW m, NEW c \in Commands,
           StartsProvided(cs, known), ListedProvided(cs, known, l),
           m => l \/ c = "cmdSetCredentials",
           c = "cmdStart" => l
    PROVE  /\ StartsProvided(Append(cs, c), known)
           /\ ListedProvided(Append(cs, c), known, m)
<1> DEFINE ds == Append(cs, c)
<1>1. /\ Len(cs) \in Nat /\ DOMAIN cs = 1..Len(cs) /\ DOMAIN ds = 1..(Len(cs) + 1)
      /\ \A i \in 1..Len(cs) : ds[i] = cs[i]
      /\ ds[Len(cs) + 1] = c
  OBVIOUS
<1>2. \A i \in DOMAIN cs : i \in DOMAIN ds /\ ds[i] = cs[i]
  BY <1>1
<1>3. Len(cs) + 1 \in DOMAIN ds
  BY <1>1
<1>4. ListedProvided(ds, known, m)
  BY <1>1, <1>2, <1>3 DEF ListedProvided
<1>5. ASSUME NEW i \in DOMAIN ds, ds[i] = "cmdStart"
      PROVE  Provided(ds, known, i)
  <2>1. CASE i = Len(cs) + 1
    <3>1. known \/ \E j \in DOMAIN cs : cs[j] = "cmdSetCredentials"
      BY <1>1, <1>5, <2>1 DEF ListedProvided
    <3>2. DOMAIN cs = 1..(i - 1)
      BY <1>1, <2>1
    <3> QED
      BY <1>2, <3>1, <3>2 DEF Provided
  <2>2. CASE i # Len(cs) + 1
    <3>1. i \in DOMAIN cs /\ cs[i] = "cmdStart"
      BY <1>1, <1>5, <2>2
    <3>2. known \/ \E j \in 1..(i - 1) : cs[j] = "cmdSetCredentials"
      BY <3>1 DEF StartsProvided, Provided
    <3>3. \A j \in 1..(i - 1) : j \in DOMAIN cs
      BY <1>1, <3>1
    <3> QED
      BY <1>2, <3>2, <3>3 DEF Provided
  <2> QED
    BY <2>1, <2>2
<1> QED
  BY <1>4, <1>5 DEF StartsProvided

\* What is read first is no longer awaited: it needs no credentials that are not known,
\* and leaves them known if it brings them.
LEMMA TailProvides ==
    ASSUME NEW cs \in Seq(Commands), cs # <<>>, NEW known, NEW l,
           NEW then, then = (known \/ Head(cs) = "cmdSetCredentials"),
           StartsProvided(cs, known), ListedProvided(cs, known, l)
    PROVE  /\ StartsProvided(Tail(cs), then)
           /\ ListedProvided(Tail(cs), then, l)
           /\ Head(cs) = "cmdStart" => known
<1> DEFINE ds == Tail(cs)
<1>1. /\ Len(cs) \in Nat \ {0} /\ DOMAIN cs = 1..Len(cs) /\ DOMAIN ds = 1..(Len(cs) - 1)
      /\ Head(cs) = cs[1]
      /\ \A i \in DOMAIN ds : ds[i] = cs[i + 1] /\ i + 1 \in DOMAIN cs
  OBVIOUS
<1>2. ASSUME NEW n \in Nat, n <= Len(cs), NEW j \in 1..n, cs[j] = "cmdSetCredentials"
      PROVE  then \/ \E i \in 1..(n - 1) : i \in DOMAIN ds /\ ds[i] = "cmdSetCredentials"
  <2>1. CASE j = 1
    BY <1>1, <1>2, <2>1
  <2>2. CASE j # 1
    <3>1. /\ j - 1 \in 1..(n - 1) /\ j - 1 \in DOMAIN ds /\ ds[j - 1] = cs[j]
      BY <1>1, <1>2, <2>2
    <3> QED
      BY <1>2, <3>1
  <2> QED
    BY <2>1, <2>2
<1>3. ListedProvided(ds, then, l)
  <2>1. known => then
    OBVIOUS
  <2>2. Len(cs) \in Nat /\ Len(cs) <= Len(cs) /\ DOMAIN cs = 1..Len(cs)
    BY <1>1
  <2>3. ASSUME NEW j \in DOMAIN cs, cs[j] = "cmdSetCredentials"
        PROVE  then \/ \E i \in DOMAIN ds : ds[i] = "cmdSetCredentials"
    BY <1>2, <2>2, <2>3
  <2> QED
    BY <2>1, <2>3 DEF ListedProvided
<1>4. ASSUME NEW i \in DOMAIN ds, ds[i] = "cmdStart"
      PROVE  Provided(ds, then, i)
  <2>1. i + 1 \in DOMAIN cs /\ cs[i + 1] = "cmdStart" /\ i \in Nat /\ i <= Len(cs)
    BY <1>1, <1>4
  <2>2. (i + 1) - 1 = i
    BY <2>1
  <2>3. known \/ \E j \in 1..i : cs[j] = "cmdSetCredentials"
    BY <2>1, <2>2 DEF StartsProvided, Provided
  <2> QED
    BY <1>2, <2>1, <2>3 DEF Provided
<1>5. Head(cs) = "cmdStart" => known
  <2>1. 1 \in DOMAIN cs /\ 1..(1 - 1) = {}
    BY <1>1
  <2> QED
    BY <1>1, <2>1 DEF StartsProvided, Provided
<1>6. StartsProvided(ds, then)
  BY <1>4 DEF StartsProvided
<1> QED
  BY <1>3, <1>5, <1>6

LEMMA CredentialsInit == Init => CredentialsInv
BY DEF Init, CredentialsInv, ListedProvided, StartsProvided, Manager!Init

\* Whatever is sent, if a cmdStart is sent for a listed user only.
LEMMA SendProvides ==
    ASSUME TypeOK, CredentialsInv, deaths = 0, NEW c \in Commands, Send(c),
           c = "cmdStart" => listed,
           listed' \in BOOLEAN, listed' => listed \/ c = "cmdSetCredentials"
    PROVE  /\ ListedProvided(commands', credentials, listed')
           /\ StartsProvided(commands', credentials)
           /\ serving' /\ link' # "closed"
<1>1. /\ serving /\ link # "closed"
      /\ ListedProvided(commands, credentials, listed)
      /\ StartsProvided(commands, credentials)
      /\ commands \in Seq(Commands)
      /\ link \in {"none", "closed"} => commands = <<>>
  BY DEF CredentialsInv, TypeOK, QueuesOK, LinkOK
<1>2. commands' = Append(commands, c) /\ serving' /\ link' # "closed"
  <2>1. Append(<<>>, c) = <<c>>
    OBVIOUS
  <2> QED
    BY <1>1, <2>1 DEF Send
<1>3. /\ StartsProvided(Append(commands, c), credentials)
      /\ ListedProvided(Append(commands, c), credentials, listed')
  BY <1>1, AppendProvides
<1> QED
  BY <1>2, <1>3

\* What the service reads, which knows the credentials then if it reads them.
LEMMA ReadProvides ==
    ASSUME TypeOK, CredentialsInv, deaths = 0, NEW c, ReadCommand(c),
           credentials' = (credentials \/ c = "cmdSetCredentials")
    PROVE  /\ ListedProvided(commands', credentials', listed')
           /\ StartsProvided(commands', credentials')
           /\ c = "cmdStart" => credentials
<1>1. /\ ListedProvided(commands, credentials, listed)
      /\ StartsProvided(commands, credentials)
      /\ commands \in Seq(Commands) /\ commands # <<>>
      /\ commands' = Tail(commands) /\ Head(commands) = c /\ listed' = listed
  BY DEF CredentialsInv, TypeOK, QueuesOK, ReadCommand, clientVars
<1> QED
  BY <1>1, TailProvides

LEMMA CredentialsStep ==
    ASSUME TypeOK, CredentialsInv, [Next]_vars
    PROVE  CredentialsInv'
<1>1. deaths \in Nat /\ credentials \in BOOLEAN /\ listed \in BOOLEAN
  BY DEF TypeOK, CountersOK, ManagerOK, ClientOK
<1>2. CASE deaths # 0
  <2>1. deaths' \in Nat /\ deaths' # 0
    BY <1>1, <1>2 DEF Next, vars, counters, Request, SendCredentials, SendConnectToVPNRequest,
       SendDisconnectFromVPNRequest, ClientReads, NotifyStatusChange, NotifyTimeout, NotifyError,
       ReadNote, SocketDisconnected, ServiceReads, IncomingConnection, CmdSetCredentials,
       CmdStart, CmdStop, ReadCommand, WorkerDestroyed, ManagerMoves, ServiceDies,
       ServiceStarts, RestartRefused, ClientRestarts
  <2> QED
    BY <1>1, <1>2, <2>1 DEF CredentialsInv
<1>3. CASE deaths = 0
  <2> USE <1>3
  <2>1. /\ serving /\ link # "closed"
        /\ ListedProvided(commands, credentials, listed)
        /\ StartsProvided(commands, credentials)
    BY DEF CredentialsInv
  <2>2. ASSUME serving', link' # "closed",
               ListedProvided(commands', credentials', listed'),
               StartsProvided(commands', credentials')
        PROVE  CredentialsInv'
    BY <2>2 DEF CredentialsInv
  <2>3. ASSUME serving' = serving, link' # "closed", UNCHANGED <<credentials, commands, listed>>
        PROVE  CredentialsInv'
    BY <2>1, <2>3 DEF CredentialsInv
  <2>4. CASE SendCredentials
    <3>1. credentials' = credentials /\ Send("cmdSetCredentials") /\ listed' = TRUE
      BY <2>4 DEF SendCredentials, Request
    <3>2. /\ ListedProvided(commands', credentials, listed')
          /\ StartsProvided(commands', credentials)
          /\ serving' /\ link' # "closed"
      BY <3>1, SendProvides DEF Commands
    <3> QED
      BY <2>2, <3>1, <3>2
  <2>5. CASE SendConnectToVPNRequest
    <3>1. credentials' = credentials /\ Send("cmdStart") /\ listed' = listed /\ listed
      BY <2>5 DEF SendConnectToVPNRequest, Request
    <3>2. /\ ListedProvided(commands', credentials, listed')
          /\ StartsProvided(commands', credentials)
          /\ serving' /\ link' # "closed"
      BY <1>1, <3>1, SendProvides DEF Commands
    <3> QED
      BY <2>2, <3>1, <3>2
  <2>6. CASE SendDisconnectFromVPNRequest
    <3>1. credentials' = credentials /\ Send("cmdStop") /\ listed' = listed
      BY <2>6 DEF SendDisconnectFromVPNRequest, Request
    <3>2. /\ ListedProvided(commands', credentials, listed')
          /\ StartsProvided(commands', credentials)
          /\ serving' /\ link' # "closed"
      BY <1>1, <3>1, SendProvides DEF Commands
    <3> QED
      BY <2>2, <3>1, <3>2
  <2>7. CASE ClientReads
    <3>1. ~SocketDisconnected
      BY <2>1 DEF SocketDisconnected
    <3>2. /\ serving' = serving /\ link' = link
          /\ UNCHANGED <<credentials, commands, listed>>
      BY <2>7, <3>1 DEF ClientReads, NotifyStatusChange, NotifyTimeout, NotifyError, ReadNote,
         serviceVars
    <3> QED
      BY <2>1, <2>3, <3>2
  <2>8. CASE IncomingConnection \/ WorkerDestroyed
    <3>1. /\ serving' = serving /\ link' # "closed"
          /\ UNCHANGED <<credentials, commands, listed>>
      BY <2>8 DEF IncomingConnection, WorkerDestroyed, serviceVars, clientVars
    <3> QED
      BY <2>3, <3>1
  <2>9. CASE CmdSetCredentials \/ CmdStart \/ CmdStop
    <3>1. /\ serving' = serving /\ link' = link
      BY <2>9 DEF CmdSetCredentials, CmdStart, CmdStop, ReadCommand
    <3>2. PICK c \in Commands : /\ ReadCommand(c)
                                /\ credentials' = (credentials \/ c = "cmdSetCredentials")
      BY <1>1, <2>9 DEF CmdSetCredentials, CmdStart, CmdStop, Commands
    <3>3. /\ ListedProvided(commands', credentials', listed')
          /\ StartsProvided(commands', credentials')
      BY <3>2, ReadProvides
    <3> QED
      BY <2>1, <2>2, <3>1, <3>3
  <2>10. CASE ManagerMoves
    <3>1. /\ serving' = serving /\ link' = link
          /\ UNCHANGED <<credentials, commands, listed>>
      BY <2>10 DEF ManagerMoves, clientVars
    <3> QED
      BY <2>1, <2>3, <3>1
  <2>11. CASE ServiceDies
    BY <2>11 DEF ServiceDies, CredentialsInv
  <2>12. CASE ServiceStarts
    BY <2>1, <2>12 DEF ServiceStarts
  <2>13. CASE ClientRestarts
    <3>1. /\ serving' = serving /\ credentials' = credentials /\ listed' = FALSE
          /\ link' # "closed"
      BY <2>13 DEF ClientRestarts, StartsAfresh, serviceVars
    <3>2. PICK last \in {<<>>, <<"cmdStop">>} :
            \/ commands' = commands
            \/ commands' = commands \o last
            \/ commands' = last
      BY <2>13 DEF ClientRestarts, StartsAfresh
    <3>3. commands \in Seq(Commands)
      BY DEF TypeOK, QueuesOK
    <3>4. /\ commands \o <<>> = commands
          /\ commands \o <<"cmdStop">> = Append(commands, "cmdStop")
      BY <3>3
    <3>5. StartsProvided(Append(commands, "cmdStop"), credentials)
      BY <2>1, <3>3, AppendProvides DEF Commands
    <3>6. StartsProvided(<<>>, credentials) /\ StartsProvided(<<"cmdStop">>, credentials)
      BY DEF StartsProvided
    <3>7. StartsProvided(commands', credentials)
      BY <2>1, <3>2, <3>4, <3>5, <3>6
    <3>8. ListedProvided(commands', credentials', listed')
      BY <3>1 DEF ListedProvided
    <3> QED
      BY <2>1, <2>2, <3>1, <3>7, <3>8
  <2>14. CASE RestartRefused
    BY <2>1, <2>14 DEF RestartRefused
  <2>15. CASE UNCHANGED vars
    BY <2>1, <2>3, <2>15 DEF vars, serviceVars, clientVars
  <2> QED
    BY <2>4, <2>5, <2>6, <2>7, <2>8, <2>9, <2>10, <2>11, <2>12, <2>13, <2>14, <2>15
       DEF Next, ServiceReads
<1> QED
  BY <1>2, <1>3

LEMMA StartIsProvided ==
    ASSUME TypeOK, CredentialsInv, CmdStart
    PROVE  credentials \/ deaths > 0
<1>1. deaths \in Nat /\ credentials \in BOOLEAN
  BY DEF TypeOK, CountersOK, ManagerOK
<1>2. CASE deaths = 0
  <2>1. ReadCommand("cmdStart") /\ credentials' = credentials
    BY DEF CmdStart
  <2>2. credentials' = (credentials \/ "cmdStart" = "cmdSetCredentials")
    BY <1>1, <2>1
  <2> QED
    BY <1>2, <2>1, <2>2, ReadProvides
<1> QED
  BY <1>1, <1>2

\* A service that has not died is given the name and the password of an account before it
\* is asked to start: no cmdStart overtakes the credentials of a login.
THEOREM CredentialsComeFirst == Spec => CredentialsFirst
<1>1. TypeOK /\ CredentialsInv /\ [Next]_vars
        => CredentialsInv' /\ [CmdStart => credentials \/ deaths > 0]_vars
  BY CredentialsStep, StartIsProvided
<1> QED
  BY <1>1, CredentialsInit, LinkTypeCorrect, PTL DEF Spec, CredentialsFirst
=============================================================================
