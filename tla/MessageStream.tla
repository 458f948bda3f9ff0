---------------------------- MODULE MessageStream ----------------------------
(***************************************************************************)
(* The local socket between the application and the service as the stream  *)
(* of bytes it is (src/src/application/vpnservicemanager.cpp and           *)
(* src/src/service/qvpnclientconnection.cpp).  A message is one line of    *)
(* JSON; a read takes whatever has come, which may end in the middle of    *)
(* one.  The service keeps the beginning of a line for the next read, the  *)
(* application does not.                                                   *)
(*                                                                         *)
(* A message is Pieces cells and a newline, a cell a piece of its text: a  *)
(* read that ends within the text, at its end or after the newline are the *)
(* cases told apart.  What the commands do to the manager is               *)
(* OpenvpnManager, when the application sends them ServiceLink; here the   *)
(* manager may change its state at any time.                               *)
(***************************************************************************)
EXTENDS Naturals, Sequences, FiniteSets

CONSTANTS
    VpnStates,    \* of the manager, Disconnected among them
    Pieces,       \* cells of the text of a message
    MaxCommands,  \* bound: commands sent on a connection
    MaxNotes,     \* bound: notifications sent on a connection
    MaxBreaks     \* bound: deaths of one of the two

ASSUME StreamAssumption ==
    /\ "Disconnected" \in VpnStates /\ "other" \notin VpnStates
    /\ Pieces \in Nat \ {0}
    /\ MaxCommands \in Nat /\ MaxNotes \in Nat /\ MaxBreaks \in Nat

VARIABLES
    vpn,             \* OpenvpnManager::mState
    link,            \* who is at an end of the connection, see Links
    sent, notes,     \* history: commands, notifications sent on this connection
    wire, noteWire,  \* cells on their way to the service, to the application
    mReceiveBuffer,  \* QVPNClientConnection::mReceiveBuffer
    carried,         \* history: the commands carried out on this connection
    m_state,         \* QVPNClientConnection::m_state
    mState,          \* VPNServiceManager::mState
    handled,         \* history: the notifications handled, by their number
    cut,             \* history: those a read of the application ended in
    breaks           \* counter of deaths

serviceVars == <<vpn, m_state, mReceiveBuffer, carried>>
clientVars == <<mState, handled, cut>>
vars == <<serviceVars, clientVars, link, sent, notes, wire, noteWire, breaks>>

Links == {"open", "noService", "noClient"}

\* plain: ASCII.  accented: of Latin-1, not of ASCII.  foreign: not of Latin-1.
Texts == {"plain", "accented", "foreign"}

\* Of the commands that are sent, only the credentials are worded by the user.
Commands ==
    [cmd : {"cmdStart", "cmdStop"}, text : {"plain"}]
        \cup [cmd : {"cmdSetCredentials"}, text : Texts]
Carried ==
    [cmd : {"cmdStart", "cmdStop", "cmdGetStatus"}, text : {"plain"}]
        \cup [cmd : {"cmdSetCredentials"}, text : {"plain", "questionMarks"}]

\* A notification: of a state, or another one.
Notes == VpnStates \cup {"other"}

\* The cells of the first n messages of a direction; the last of a line is its newline.
Width == Pieces + 1
Cells(n) == (1..n) \X (1..Width)
IsNewline(cell) == cell[2] = Width

\* The line that is message i of its direction.
Text(i) == [k \in 1..Pieces |-> <<i, k>>]
Line(i) == [k \in 1..Width |-> <<i, k>>]

Occurs(e, s) == \E n \in DOMAIN s : s[n] = e

Init ==
    /\ vpn = "Disconnected"
    /\ link = "open"
    /\ sent = <<>> /\ notes = <<>>
    /\ wire = <<>> /\ noteWire = <<>>
    /\ mReceiveBuffer = <<>>
    /\ carried = <<>>
    /\ m_state = "Disconnected"
    /\ mState = "Disconnected"
    /\ handled = <<>>
    /\ cut = {}
    /\ breaks = 0

-----------------------------------------------------------------------------
(* Commands.                                                               *)

\* What fromJson makes of the text of c.  toLatin1() writes a letter with an accent
\* as a byte that is no UTF-8, and the whole line is illegible: the object is empty,
\* and its cmd, 0, is that of cmdGetStatus.  It writes any other letter as a "?".
Illegible == [cmd |-> "cmdGetStatus", text |-> "plain"]

Meaning(c) ==
    CASE c.text = "plain" -> c
      [] c.text = "accented" -> Illegible
      [] c.text = "foreign" -> [c EXCEPT !.text = "questionMarks"]

\* sendCommand().  sendDisconnectFromVPNRequest() shows Disconnecting before it.
SendCommand(c) ==
    /\ link = "open"
    /\ Len(sent) < MaxCommands
    /\ sent' = Append(sent, c)
    /\ wire' = wire \o Line(Len(sent) + 1)
    /\ mState' = IF c.cmd = "cmdStop" THEN "Disconnecting" ELSE mState
    /\ UNCHANGED <<serviceVars, handled, cut, link, notes, noteWire, breaks>>

HasLine == \E n \in DOMAIN mReceiveBuffer : IsNewline(mReceiveBuffer[n])

\* Mutant of ServiceReads: each read is taken by itself.
ServiceReadsAfresh ==
    /\ link # "noService"
    /\ ~HasLine
    /\ \E n \in 1..Len(wire) :
         /\ mReceiveBuffer' = SubSeq(wire, 1, n)
         /\ wire' = SubSeq(wire, n + 1, Len(wire))
    /\ UNCHANGED <<vpn, m_state, carried, clientVars, link, sent, notes, noteWire, breaks>>

\* socket_readyRead() of the service: what it reads is added to what it has kept.
ServiceReads ==
    /\ link # "noService"
    /\ ~HasLine
    /\ \E n \in 1..Len(wire) :
         /\ mReceiveBuffer' = mReceiveBuffer \o SubSeq(wire, 1, n)
         /\ wire' = SubSeq(wire, n + 1, Len(wire))
    /\ UNCHANGED <<vpn, m_state, carried, clientVars, link, sent, notes, noteWire, breaks>>

EndsFirstLine(n) ==
    /\ IsNewline(mReceiveBuffer[n])
    /\ \A m \in 1..(n - 1) : ~IsNewline(mReceiveBuffer[m])

Parsed(line) ==
    IF \E i \in DOMAIN sent : line = Text(i)
    THEN Meaning(sent[CHOOSE i \in DOMAIN sent : line = Text(i)])
    ELSE Illegible

\* sendMessage() of the service; the bytes for an application that is gone go nowhere.
Notify(n) ==
    /\ notes' = Append(notes, n)
    /\ noteWire' = IF link = "open" THEN noteWire \o Line(Len(notes) + 1) ELSE noteWire

\* Mutant of Carry: what was read with the line is thrown away with it.
CarryClears ==
    /\ \E n \in DOMAIN mReceiveBuffer :
         LET c == Parsed(SubSeq(mReceiveBuffer, 1, n - 1))
         IN /\ EndsFirstLine(n)
            /\ carried' = Append(carried, c)
            /\ mReceiveBuffer' = <<>>
            /\ IF c.cmd = "cmdGetStatus" /\ Len(notes) < MaxNotes
               THEN Notify(m_state)
               ELSE UNCHANGED <<notes, noteWire>>
    /\ UNCHANGED <<vpn, m_state, clientVars, link, sent, wire, breaks>>

\* One turn of the loop of socket_readyRead(): the line is carried out, and a request
\* for the status answered with the last state this connection was told (MaxNotes is
\* a bound of the answers, too: the loop goes on without).
Carry ==
    /\ \E n \in DOMAIN mReceiveBuffer :
         LET c == Parsed(SubSeq(mReceiveBuffer, 1, n - 1))
         IN /\ EndsFirstLine(n)
            /\ carried' = Append(carried, c)
            /\ mReceiveBuffer' = SubSeq(mReceiveBuffer, n + 1, Len(mReceiveBuffer))
            /\ IF c.cmd = "cmdGetStatus" /\ Len(notes) < MaxNotes
               THEN Notify(m_state)
               ELSE UNCHANGED <<notes, noteWire>>
    /\ UNCHANGED <<vpn, m_state, clientVars, link, sent, wire, breaks>>

-----------------------------------------------------------------------------
(* Notifications.                                                          *)

\* vpnStateChanged(), by setState() of the manager: during a command, or later.
VpnStateChanged(s) ==
    /\ link # "noService"
    /\ s # vpn
    /\ Len(notes) < MaxNotes
    /\ vpn' = s
    /\ m_state' = s
    /\ Notify(s)
    /\ UNCHANGED <<mReceiveBuffer, carried, clientVars, link, sent, wire, breaks>>

\* vpnError(), timedOut(), gotNewIp(), vpnStateWord().
OtherNote ==
    /\ link # "noService"
    /\ Len(notes) < MaxNotes
    /\ Notify("other")
    /\ UNCHANGED <<serviceVars, clientVars, link, sent, wire, breaks>>

\* The notifications that are in what is read with all of their text: a token that
\* is not the text of one is no JSON object and is skipped.
Whole(bytes) == {i \in DOMAIN notes : \A k \in 1..Pieces : Occurs(<<i, k>>, bytes)}
Touched(bytes) == {i \in DOMAIN notes : \E k \in 1..Pieces : Occurs(<<i, k>>, bytes)}

IsState(i) == notes[i] \in VpnStates

\* i is the last of S that tells of a state.
IsLastState(i, S) ==
    /\ i \in S /\ IsState(i)
    /\ \A j \in S : IsState(j) => j <= i

\* s is the numbers of S, in their order.
IsInOrder(s, S) ==
    /\ \A i \in S : \E n \in DOMAIN s : s[n] = i
    /\ \A m, n \in DOMAIN s : m < n => s[m] < s[n]

\* The notifications of S are handled one after the other: each of a state is shown.
Handle(S) ==
    /\ \E s \in [1..Cardinality(S) -> S] : IsInOrder(s, S) /\ handled' = handled \o s
    /\ \/ mState' = mState /\ \A i \in S : ~IsState(i)
       \/ \E i \in S : IsLastState(i, S) /\ mState' = notes[i]

\* Mutants of HandleNotes: only the first one of a read; the first one last.
HandleFirstNote(bytes) ==
    /\ Handle({i \in Whole(bytes) : \A j \in Whole(bytes) : i <= j})
    /\ cut' = cut \cup (Touched(bytes) \ Whole(bytes))

HandleNotesBackwards(bytes) ==
    /\ \E s \in [1..Cardinality(Whole(bytes)) -> Whole(bytes)] :
         IsInOrder(s, Whole(bytes)) /\ handled' = handled \o s
    /\ \/ mState' = mState /\ \A i \in Whole(bytes) : ~IsState(i)
       \/ \E i \in Whole(bytes) :
            /\ IsState(i) /\ \A j \in Whole(bytes) : IsState(j) => i <= j
            /\ mState' = notes[i]
    /\ cut' = cut \cup (Touched(bytes) \ Whole(bytes))

HandleNotes(bytes) ==
    /\ Handle(Whole(bytes))
    /\ cut' = cut \cup (Touched(bytes) \ Whole(bytes))

\* socket_readyRead() of the application: the tokens of one read.
ClientReads ==
    /\ link # "noClient"
    /\ \E n \in 1..Len(noteWire) :
         /\ HandleNotes(SubSeq(noteWire, 1, n))
         /\ noteWire' = SubSeq(noteWire, n + 1, Len(noteWire))
    /\ UNCHANGED <<serviceVars, link, sent, notes, wire, breaks>>

-----------------------------------------------------------------------------
(* Deaths.  What one of the two had written before it died may have been   *)
(* sent in part.                                                           *)

ServiceDies ==
    /\ link = "open"
    /\ breaks < MaxBreaks
    /\ breaks' = breaks + 1
    /\ link' = "noService"
    /\ vpn' = "Disconnected"
    /\ mReceiveBuffer' = <<>>
    /\ wire' = <<>>
    /\ \E n \in 0..Len(noteWire) : noteWire' = SubSeq(noteWire, 1, n)
    /\ UNCHANGED <<m_state, carried, clientVars, sent, notes>>

ClientDies ==
    /\ link = "open"
    /\ breaks < MaxBreaks
    /\ breaks' = breaks + 1
    /\ link' = "noClient"
    /\ noteWire' = <<>>
    /\ mState' = "Disconnected"
    /\ \E n \in 0..Len(wire) : wire' = SubSeq(wire, 1, n)
    /\ UNCHANGED <<serviceVars, handled, cut, sent, notes>>

\* Mutant of Connect: mReceiveBuffer is one of the service, not of the connection.
ConnectKeepsBuffer ==
    /\ \/ link = "noService" /\ noteWire = <<>>
       \/ link = "noClient" /\ wire = <<>> /\ ~HasLine
    /\ link' = "open"
    /\ sent' = <<>> /\ notes' = <<>>
    /\ carried' = <<>> /\ handled' = <<>> /\ cut' = {}
    /\ m_state' = "Disconnected"
    /\ UNCHANGED <<vpn, mState, wire, noteWire, breaks, mReceiveBuffer>>

\* connectToCore() and a new QVPNClientConnection, once the end that was left has
\* read what there was.
Connect ==
    /\ \/ link = "noService" /\ noteWire = <<>>
       \/ link = "noClient" /\ wire = <<>> /\ ~HasLine
    /\ link' = "open"
    /\ sent' = <<>> /\ notes' = <<>>
    /\ mReceiveBuffer' = <<>>
    /\ carried' = <<>> /\ handled' = <<>> /\ cut' = {}
    /\ m_state' = "Disconnected"
    /\ UNCHANGED <<vpn, mState, wire, noteWire, breaks>>

-----------------------------------------------------------------------------
Next ==
    \/ \E c \in Commands : SendCommand(c)
    \/ ServiceReads
    \/ Carry
    \/ \E s \in VpnStates : VpnStateChanged(s)
    \/ OtherNote
    \/ ClientReads
    \/ ServiceDies
    \/ ClientDies
    \/ Connect

\* Both event loops come back to a socket that has something to read.
Fairness ==
    /\ WF_vars(ServiceReads)
    /\ WF_vars(Carry)
    /\ WF_vars(ClientReads)

Spec == Init /\ [][Next]_vars /\ Fairness

-----------------------------------------------------------------------------
(* Properties.                                                             *)

\* Every variable has its type.
TypeOK ==
    /\ vpn \in VpnStates /\ m_state \in VpnStates
    /\ mState \in VpnStates \cup {"Disconnecting"}
    /\ link \in Links
    /\ sent \in Seq(Commands) /\ Len(sent) <= MaxCommands
    /\ carried \in Seq(Carried)
    /\ notes \in Seq(Notes) /\ Len(notes) <= MaxNotes
    /\ wire \in Seq(Cells(Len(sent))) /\ mReceiveBuffer \in Seq(Cells(Len(sent)))
    /\ noteWire \in Seq(Cells(Len(notes)))
    /\ handled \in Seq(DOMAIN notes)
    /\ cut \subseteq DOMAIN notes
    /\ breaks \in 0..MaxBreaks

Channel == INSTANCE MessageChannel
    WITH Messages <- Carried,
         up <- link = "open",
         sent <- [i \in DOMAIN sent |-> Meaning(sent[i])],
         got <- carried

\* However the stream is cut into reads, and whichever end dies in the middle of a
\* line, the service carries out what the commands mean to it once, in their order,
\* and nothing of the connection before.
CommandsInOrder == Channel!Spec

\* Nothing of a lasting connection is held back: once the service has read all there is
\* and has no whole line left, it has carried out all the commands.
AllReadIsCarried ==
    link = "open" /\ wire = <<>> /\ ~HasLine => Len(carried) = Len(sent)

\* While the connection lasts, the service comes to carry out all the commands of it.
CommandsArrive == Channel!Arrival

\* The application handles no notification twice, none before an earlier one, and
\* loses none of a connection that lasts but those a read of its ended in.
OnlyCutNotesAreLost ==
    /\ \A m, n \in DOMAIN handled : m < n => handled[m] < handled[n]
    /\ \A n \in DOMAIN handled : handled[n] \notin cut
    /\ link = "open" =>
         \A i \in DOMAIN notes \ cut :
            \/ Occurs(i, handled)
            \/ \A k \in 1..Pieces : Occurs(<<i, k>>, noteWire)

\* Once all is read, the application shows the state of the manager, unless a read
\* ended in the last notification of it, the connection was never told of one, or
\* the user has asked for a disconnect.  An answer to a line that was illegible does
\* not come in between.
ShownUnlessCut ==
    link = "open" /\ noteWire = <<>> =>
        \A i \in DOMAIN notes \ cut :
            IsLastState(i, DOMAIN notes) => mState \in {m_state, "Disconnecting"}

-----------------------------------------------------------------------------
(* What the properties rest on.                                            *)

\* Nothing waits for an end that is gone.
NoneForTheDead ==
    /\ link = "noService" => mReceiveBuffer = <<>> /\ wire = <<>>
    /\ link = "noClient" => noteWire = <<>>

\* The cells between the two ends are those of the commands still to be carried out,
\* in their order: the place of a cell says which it is.
Coming == mReceiveBuffer \o wire

ComingInOrder ==
    \A n \in DOMAIN Coming :
        (Coming[n][1] - Len(carried) - 1) * Width + Coming[n][2] = n

AllComing ==
    link = "open" => Len(Coming) = (Len(sent) - Len(carried)) * Width

CommandInv == ComingInOrder /\ AllComing

\* The cells on their way to the application are in the order of writing, and behind
\* the text of all that was handled; of what was cut, not all of the text is among them.
Before(c, d) == c[1] < d[1] \/ (c[1] = d[1] /\ c[2] < d[2])

NotesInOrder ==
    \A m, n \in DOMAIN noteWire : m < n => Before(noteWire[m], noteWire[n])

HandledIsRead ==
    \A m \in DOMAIN handled : \A n \in DOMAIN noteWire :
        Before(<<handled[m], Pieces>>, noteWire[n])

CutIsRead ==
    \A i \in cut : \E k \in 1..Pieces : ~Occurs(<<i, k>>, noteWire)

NoteInv == NotesInOrder /\ HandledIsRead /\ CutIsRead

\* The connection was told of m_state last, and the application shows the last state
\* it has handled, or what the user asked for since.
ToldLast == \A i \in DOMAIN notes : IsLastState(i, DOMAIN notes) => notes[i] = m_state

HandledNotes == {i \in DOMAIN notes : Occurs(i, handled)}

ShownLast ==
    link # "noClient" =>
        \A i \in DOMAIN notes :
            IsLastState(i, HandledNotes) => mState \in {notes[i], "Disconnecting"}

ShownInv == ToldLast /\ ShownLast
=============================================================================
