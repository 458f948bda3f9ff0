------------------------- MODULE MessageStreamProofs -------------------------
(***************************************************************************)
(* For any number of messages, cells and deaths: the type invariant of     *)
(* MessageStream; that the stream of commands, however it is cut, is a     *)
(* channel of whole messages; that no notification is lost but those a     *)
(* read ended in; and what the application shows once all is read.         *)
(***************************************************************************)
EXTENDS MessageStream, SequenceTheorems, FiniteSetTheorems, TLAPS

-----------------------------------------------------------------------------
(* Sequences and cells.                                                    *)

\* A part of a sequence is one of the same type, shifted.
LEMMA PartOfSeq ==
    ASSUME NEW S, NEW s \in Seq(S), NEW a \in 1..(Len(s) + 1), NEW b \in 0..Len(s), a <= b + 1
    PROVE  /\ SubSeq(s, a, b) \in Seq(S)
           /\ Len(SubSeq(s, a, b)) = b - a + 1
           /\ \A i \in 1..(b - a + 1) : SubSeq(s, a, b)[i] = s[a + i - 1]
<1>1. \A i \in a..b : s[i] \in S
  OBVIOUS
<1>2. a \in Int /\ b \in Int
  OBVIOUS
<1>3. /\ SubSeq(s, a, b) \in Seq(S)
      /\ Len(SubSeq(s, a, b)) = IF a <= b THEN b - a + 1 ELSE 0
      /\ \A i \in 1 .. b - a + 1 : SubSeq(s, a, b)[i] = s[a + i - 1]
  BY <1>1, <1>2, SubSeqProperties
<1> QED
  BY <1>3

\* A longer direction has the cells of the shorter one, and those of its new line.
LEMMA CellsGrow ==
    ASSUME StreamAssumption, NEW n \in Nat
    PROVE  /\ Cells(n) \subseteq Cells(n + 1)
           /\ Line(n + 1) \in Seq(Cells(n + 1))
           /\ Len(Line(n + 1)) = Width
           /\ \A k \in 1..Width : Line(n + 1)[k] = <<n + 1, k>>
<1>1. Width \in Nat \ {0}
  BY DEF StreamAssumption, Width
<1>2. Cells(n) \subseteq Cells(n + 1)
  BY DEF Cells
<1>3. \A k \in 1..Width : <<n + 1, k>> \in Cells(n + 1)
  BY <1>1 DEF Cells
<1>4. Line(n + 1) \in Seq(Cells(n + 1))
  BY <1>1, <1>3, IsASeq DEF Line
<1>5. DOMAIN Line(n + 1) = 1..Width
  BY DEF Line
<1>6. Len(Line(n + 1)) = Width
  BY <1>1, <1>4, <1>5, LenProperties
<1> QED
  BY <1>2, <1>4, <1>6 DEF Line

\* What is written keeps the type of what is on its way.
LEMMA WrittenType ==
    ASSUME StreamAssumption, NEW n \in Nat, NEW s \in Seq(Cells(n))
    PROVE  /\ s \in Seq(Cells(n + 1))
           /\ s \o Line(n + 1) \in Seq(Cells(n + 1))
<1>1. s \in Seq(Cells(n + 1))
  BY CellsGrow, SeqMonotonic
<1> QED
  BY <1>1, CellsGrow, ConcatProperties

\* The meaning of a command is a command the service carries out.
LEMMA MeaningType ==
    ASSUME NEW c \in Commands
    PROVE  Meaning(c) \in Carried
<1>1. CASE c.text = "plain"
  BY <1>1 DEF Meaning, Commands, Carried, Texts
<1>2. CASE c.text = "accented"
  BY <1>2 DEF Meaning, Commands, Carried, Texts, Illegible
<1>3. CASE c.text = "foreign"
  <2>1. c \in [cmd : {"cmdSetCredentials"}, text : Texts]
    BY <1>3 DEF Commands
  <2>2. Meaning(c) = [c EXCEPT !.text = "questionMarks"]
    BY <1>3 DEF Meaning
  <2> QED
    BY <2>1, <2>2 DEF Carried
<1> QED
  BY <1>1, <1>2, <1>3 DEF Commands, Texts

\* What a line is taken for is a command the service carries out.
LEMMA ParsedType ==
    ASSUME sent \in Seq(Commands), NEW line
    PROVE  Parsed(line) \in Carried
<1>1. CASE \E i \in DOMAIN sent : line = Text(i)
  <2>1. PICK i \in DOMAIN sent : i = CHOOSE j \in DOMAIN sent : line = Text(j)
    BY <1>1
  <2>2. sent[i] \in Commands
    BY <2>1
  <2>3. Parsed(line) = Meaning(sent[i])
    BY <1>1, <2>1 DEF Parsed
  <2> QED
    BY <2>2, <2>3, MeaningType
<1>2. CASE ~\E i \in DOMAIN sent : line = Text(i)
  BY <1>2 DEF Parsed, Illegible, Carried
<1> QED
  BY <1>1, <1>2

-----------------------------------------------------------------------------
(* Type correctness, the states, the commands and the notifications apart. *)

StatesOK ==
    /\ vpn \in VpnStates /\ m_state \in VpnStates
    /\ mState \in VpnStates \cup {"Disconnecting"}
    /\ link \in Links
    /\ breaks \in 0..MaxBreaks

CommandsOK ==
    /\ sent \in Seq(Commands) /\ Len(sent) <= MaxCommands
    /\ carried \in Seq(Carried)
    /\ wire \in Seq(Cells(Len(sent))) /\ mReceiveBuffer \in Seq(Cells(Len(sent)))

NotesOK ==
    /\ notes \in Seq(Notes) /\ Len(notes) <= MaxNotes
    /\ noteWire \in Seq(Cells(Len(notes)))
    /\ handled \in Seq(DOMAIN notes)
    /\ cut \subseteq DOMAIN notes

LEMMA TypeParts == TypeOK <=> StatesOK /\ CommandsOK /\ NotesOK
  BY DEF TypeOK, StatesOK, CommandsOK, NotesOK

\* A notification keeps the types of the notifications.
LEMMA NotifyType ==
    ASSUME StreamAssumption, NotesOK, NEW n \in Notes, Len(notes) < MaxNotes, Notify(n),
           UNCHANGED <<handled, cut>>
    PROVE  NotesOK'
<1> USE DEF NotesOK
<1>1. notes' \in Seq(Notes) /\ Len(notes') = Len(notes) + 1
  BY DEF Notify
<1>2. Len(notes') <= MaxNotes
  BY <1>1 DEF StreamAssumption
<1>3. noteWire' \in Seq(Cells(Len(notes) + 1))
  <2>1. Len(notes) \in Nat
    OBVIOUS
  <2>2. noteWire \in Seq(Cells(Len(notes) + 1))
    BY <2>1, WrittenType
  <2>3. noteWire \o Line(Len(notes) + 1) \in Seq(Cells(Len(notes) + 1))
    BY <2>1, WrittenType
  <2> QED
    BY <2>2, <2>3 DEF Notify
<1>4. DOMAIN notes \subseteq DOMAIN notes'
  BY <1>1
<1>5. handled' \in Seq(DOMAIN notes')
  BY <1>4, SeqMonotonic
<1>6. cut' \subseteq DOMAIN notes'
  BY <1>4
<1> QED
  BY <1>1, <1>2, <1>3, <1>5, <1>6

\* What a read handles are notifications, and no more of them than it took.
LEMMA HandleType ==
    ASSUME NotesOK, StatesOK, NEW S \in SUBSET DOMAIN notes, Handle(S)
    PROVE  /\ handled' \in Seq(DOMAIN notes)
           /\ mState' \in VpnStates \cup {"Disconnecting"}
<1>1. IsFiniteSet(S)
  <2>1. DOMAIN notes = 1..Len(notes) /\ Len(notes) \in Int
    BY DEF NotesOK
  <2>2. IsFiniteSet(DOMAIN notes)
    BY <2>1, FS_Interval
  <2> QED
    BY <2>2, FS_Subset
<1>2. PICK s \in [1..Cardinality(S) -> S] : handled' = handled \o s
  BY DEF Handle
<1>3. s \in Seq(S)
  BY <1>1, FS_CardinalityType, IsASeq
<1>4. s \in Seq(DOMAIN notes)
  BY <1>3, SeqMonotonic
<1>5. handled' \in Seq(DOMAIN notes)
  BY <1>2, <1>4, ConcatProperties DEF NotesOK
<1>6. mState' \in VpnStates \cup {"Disconnecting"}
  BY DEF Handle, StatesOK, IsLastState, IsState
<1> QED
  BY <1>5, <1>6

LEMMA StatesStep ==
    ASSUME StreamAssumption, TypeOK, [Next]_vars
    PROVE  StatesOK'
<1> USE TypeParts DEF StatesOK, serviceVars, clientVars, Links
<1>1. ASSUME NEW c \in Commands, SendCommand(c)
      PROVE  StatesOK'
  BY <1>1 DEF SendCommand
<1>2. CASE ServiceReads
  BY <1>2 DEF ServiceReads
<1>3. CASE Carry
  BY <1>3 DEF Carry
<1>4. ASSUME NEW s \in VpnStates, VpnStateChanged(s)
      PROVE  StatesOK'
  BY <1>4 DEF VpnStateChanged
<1>5. CASE OtherNote
  BY <1>5 DEF OtherNote
<1>6. CASE ClientReads
  <2>1. PICK n \in 1..Len(noteWire) : HandleNotes(SubSeq(noteWire, 1, n))
    BY <1>6 DEF ClientReads
  <2>2. Handle(Whole(SubSeq(noteWire, 1, n)))
    BY <2>1 DEF HandleNotes
  <2>3. Whole(SubSeq(noteWire, 1, n)) \in SUBSET DOMAIN notes
    BY DEF Whole
  <2>4. mState' \in VpnStates \cup {"Disconnecting"}
    BY <2>2, <2>3, HandleType
  <2> QED
    BY <1>6, <2>4 DEF ClientReads
<1>7. CASE ServiceDies
  BY <1>7 DEF ServiceDies, StreamAssumption
<1>8. CASE ClientDies
  BY <1>8 DEF ClientDies, StreamAssumption
<1>9. CASE Connect
  BY <1>9 DEF Connect, StreamAssumption
<1>10. CASE UNCHANGED vars
  BY <1>10 DEF vars
<1> QED
  BY <1>1, <1>2, <1>3, <1>4, <1>5, <1>6, <1>7, <1>8, <1>9, <1>10 DEF Next

LEMMA CommandsStep ==
    ASSUME StreamAssumption, TypeOK, NoneForTheDead, [Next]_vars
    PROVE  CommandsOK'
<1> USE TypeParts DEF CommandsOK, serviceVars, clientVars
<1>1. ASSUME NEW c \in Commands, SendCommand(c)
      PROVE  CommandsOK'
  <2>1. sent' \in Seq(Commands) /\ Len(sent') = Len(sent) + 1
    BY <1>1 DEF SendCommand
  <2>2. Len(sent') <= MaxCommands
    BY <1>1, <2>1 DEF SendCommand, StreamAssumption
  <2>3. Len(sent) \in Nat
    OBVIOUS
  <2>4. wire' \in Seq(Cells(Len(sent) + 1))
    BY <1>1, <2>3, WrittenType DEF SendCommand
  <2>5. mReceiveBuffer' \in Seq(Cells(Len(sent) + 1))
    BY <1>1, <2>3, WrittenType DEF SendCommand
  <2> QED
    BY <1>1, <2>1, <2>2, <2>4, <2>5 DEF SendCommand
<1>2. CASE ServiceReads
  <2>1. PICK n \in 1..Len(wire) :
          /\ mReceiveBuffer' = mReceiveBuffer \o SubSeq(wire, 1, n)
          /\ wire' = SubSeq(wire, n + 1, Len(wire))
    BY <1>2 DEF ServiceReads
  <2>2. SubSeq(wire, 1, n) \in Seq(Cells(Len(sent)))
    BY PartOfSeq
  <2>3. SubSeq(wire, n + 1, Len(wire)) \in Seq(Cells(Len(sent)))
    BY PartOfSeq
  <2>4. mReceiveBuffer \o SubSeq(wire, 1, n) \in Seq(Cells(Len(sent)))
    BY <2>2, ConcatProperties
  <2> QED
    BY <1>2, <2>1, <2>3, <2>4 DEF ServiceReads
<1>3. CASE Carry
  <2>1. PICK n \in DOMAIN mReceiveBuffer :
          /\ carried' = Append(carried, Parsed(SubSeq(mReceiveBuffer, 1, n - 1)))
          /\ mReceiveBuffer' = SubSeq(mReceiveBuffer, n + 1, Len(mReceiveBuffer))
    BY <1>3 DEF Carry
  <2>2. Parsed(SubSeq(mReceiveBuffer, 1, n - 1)) \in Carried
    BY ParsedType
  <2>3. carried' \in Seq(Carried)
    BY <2>1, <2>2, AppendProperties
  <2>4. mReceiveBuffer' \in Seq(Cells(Len(sent)))
    BY <2>1, PartOfSeq
  <2> QED
    BY <1>3, <2>3, <2>4 DEF Carry
<1>4. ASSUME NEW s \in VpnStates, VpnStateChanged(s)
      PROVE  CommandsOK'
  BY <1>4 DEF VpnStateChanged
<1>5. CASE OtherNote
  BY <1>5 DEF OtherNote
<1>6. CASE ClientReads
  BY <1>6 DEF ClientReads
<1>7. CASE ServiceDies
  BY <1>7 DEF ServiceDies
<1>8. CASE ClientDies
  <2>1. PICK n \in 0..Len(wire) : wire' = SubSeq(wire, 1, n)
    BY <1>8 DEF ClientDies
  <2>2. wire' \in Seq(Cells(Len(sent)))
    BY <2>1, PartOfSeq
  <2> QED
    BY <1>8, <2>2 DEF ClientDies
<1>9. CASE Connect
  <2>1. wire = <<>>
    BY <1>9 DEF Connect, NoneForTheDead
  <2> QED
    BY <1>9, <2>1 DEF Connect, StreamAssumption
<1>10. CASE UNCHANGED vars
  BY <1>10 DEF vars
<1> QED
  BY <1>1, <1>2, <1>3, <1>4, <1>5, <1>6, <1>7, <1>8, <1>9, <1>10 DEF Next

LEMMA NotesStep ==
    ASSUME StreamAssumption, TypeOK, NoneForTheDead, [Next]_vars
    PROVE  NotesOK'
<1> USE TypeParts DEF serviceVars, clientVars
<1>1. ASSUME NEW c \in Commands, SendCommand(c)
      PROVE  NotesOK'
  BY <1>1 DEF SendCommand, NotesOK
<1>2. CASE ServiceReads
  BY <1>2 DEF ServiceReads, NotesOK
<1>3. CASE Carry
  <2>1. \/ UNCHANGED <<notes, noteWire>>
        \/ Notify(m_state) /\ Len(notes) < MaxNotes
    BY <1>3 DEF Carry
  <2>2. UNCHANGED <<handled, cut>>
    BY <1>3 DEF Carry
  <2>3. m_state \in Notes
    BY DEF StatesOK, Notes
  <2> QED
    BY <2>1, <2>2, <2>3, NotifyType DEF NotesOK
<1>4. ASSUME NEW s \in VpnStates, VpnStateChanged(s)
      PROVE  NotesOK'
  BY <1>4, NotifyType DEF VpnStateChanged, Notes
<1>5. CASE OtherNote
  BY <1>5, NotifyType DEF OtherNote, Notes
<1>6. CASE ClientReads
  <2>1. PICK n \in 1..Len(noteWire) :
          /\ HandleNotes(SubSeq(noteWire, 1, n))
          /\ noteWire' = SubSeq(noteWire, n + 1, Len(noteWire))
    BY <1>6 DEF ClientReads
  <2> DEFINE bytes == SubSeq(noteWire, 1, n)
  <2>2. Whole(bytes) \in SUBSET DOMAIN notes /\ Touched(bytes) \in SUBSET DOMAIN notes
    BY DEF Whole, Touched
  <2>3. Handle(Whole(bytes)) /\ cut' = cut \cup (Touched(bytes) \ Whole(bytes))
    BY <2>1 DEF HandleNotes
  <2> HIDE DEF bytes
  <2>4. handled' \in Seq(DOMAIN notes)
    BY <2>2, <2>3, HandleType
  <2>5. cut' \subseteq DOMAIN notes
    BY <2>2, <2>3 DEF NotesOK
  <2>6. noteWire' \in Seq(Cells(Len(notes)))
    BY <2>1, PartOfSeq DEF NotesOK
  <2>7. notes' = notes
    BY <1>6 DEF ClientReads
  <2> QED
    BY <2>4, <2>5, <2>6, <2>7 DEF NotesOK
<1>7. CASE ServiceDies
  <2>1. PICK n \in 0..Len(noteWire) : noteWire' = SubSeq(noteWire, 1, n)
    BY <1>7 DEF ServiceDies
  <2>2. noteWire' \in Seq(Cells(Len(notes)))
    BY <2>1, PartOfSeq DEF NotesOK
  <2> QED
    BY <1>7, <2>2 DEF ServiceDies, NotesOK
<1>8. CASE ClientDies
  BY <1>8 DEF ClientDies, NotesOK
<1>9. CASE Connect
  <2>1. noteWire = <<>>
    BY <1>9 DEF Connect, NoneForTheDead
  <2> QED
    BY <1>9, <2>1 DEF Connect, StreamAssumption, NotesOK
<1>10. CASE UNCHANGED vars
  BY <1>10 DEF vars, NotesOK
<1> QED
  BY <1>1, <1>2, <1>3, <1>4, <1>5, <1>6, <1>7, <1>8, <1>9, <1>10 DEF Next

\* What is sent needs both ends, and an end that dies leaves nothing for itself.
LEMMA DeadStep ==
    ASSUME TypeOK, NoneForTheDead, [Next]_vars
    PROVE  NoneForTheDead'
<1> USE DEF NoneForTheDead, serviceVars, clientVars
<1>1. ASSUME NEW c \in Commands, SendCommand(c)
      PROVE  NoneForTheDead'
  BY <1>1 DEF SendCommand
<1>2. CASE ServiceReads
  BY <1>2 DEF ServiceReads
<1>3. CASE Carry
  <2>1. mReceiveBuffer # <<>>
    BY <1>3 DEF Carry
  <2>2. link # "noService" /\ link' = link
    BY <1>3, <2>1 DEF Carry
  <2>3. link = "noClient" => noteWire' = noteWire
    BY <1>3 DEF Carry, Notify
  <2> QED
    BY <2>2, <2>3
<1>4. ASSUME NEW s \in VpnStates, VpnStateChanged(s)
      PROVE  NoneForTheDead'
  BY <1>4 DEF VpnStateChanged, Notify
<1>5. CASE OtherNote
  BY <1>5 DEF OtherNote, Notify
<1>6. CASE ClientReads
  BY <1>6 DEF ClientReads
<1>7. CASE ServiceDies
  BY <1>7 DEF ServiceDies
<1>8. CASE ClientDies
  BY <1>8 DEF ClientDies
<1>9. CASE Connect
  BY <1>9 DEF Connect
<1>10. CASE UNCHANGED vars
  BY <1>10 DEF vars
<1> QED
  BY <1>1, <1>2, <1>3, <1>4, <1>5, <1>6, <1>7, <1>8, <1>9, <1>10 DEF Next

LEMMA StreamInit == StreamAssumption /\ Init => TypeOK /\ NoneForTheDead
  BY DEF StreamAssumption, Init, TypeOK, NoneForTheDead, Links

\* Nothing waits for an end that is gone.
LEMMA StreamInvariant == Spec => [](TypeOK /\ NoneForTheDead)
<1>1. TypeOK /\ NoneForTheDead /\ [Next]_vars => TypeOK' /\ NoneForTheDead'
  <2> SUFFICES ASSUME TypeOK, NoneForTheDead, [Next]_vars
               PROVE  TypeOK' /\ NoneForTheDead'
    OBVIOUS
  <2>1. StatesOK' /\ CommandsOK' /\ NotesOK'
    BY StatesStep, CommandsStep, NotesStep, StreamAssumption
  <2>2. TypeOK'
    BY <2>1 DEF TypeOK, StatesOK, CommandsOK, NotesOK
  <2> QED
    BY <2>2, DeadStep
<1> QED
  BY <1>1, StreamInit, StreamAssumption, PTL DEF Spec

\* Every variable of the stream keeps its type.
THEOREM StreamTypeCorrect == Spec => []TypeOK
  BY StreamInvariant, PTL

-----------------------------------------------------------------------------
(* The commands arrive.                                                    *)

\* Two places of the same line: a number of lines apart is no line apart.
LEMMA SameLine ==
    ASSUME NEW W \in Nat \ {0}, NEW e \in Int, NEW k \in 1..W, NEW m \in 1..W, e * W + k = m
    PROVE  e = 0 /\ k = m
<1>1. ASSUME e >= 1 PROVE FALSE
  <2>1. e - 1 >= 0 /\ e - 1 \in Int
    BY <1>1
  <2>2. (e - 1) * W >= 0
    BY <2>1
  <2>3. e * W = (e - 1) * W + W
    OBVIOUS
  <2>4. e * W >= W
    BY <2>2, <2>3
  <2> QED
    BY <2>4
<1>2. ASSUME e <= -1 PROVE FALSE
  <2>1. -1 - e >= 0 /\ -1 - e \in Int
    BY <1>2
  <2>2. (-1 - e) * W >= 0
    BY <2>1
  <2>3. e * W = -W - (-1 - e) * W
    OBVIOUS
  <2>4. e * W <= -W
    BY <2>2, <2>3
  <2> QED
    BY <2>4
<1>3. e = 0
  BY <1>1, <1>2
<1> QED
  BY <1>3

LEMMA WidthType == StreamAssumption => Width \in Nat \ {0, 1} /\ Pieces = Width - 1
  BY DEF StreamAssumption, Width

LEMMA SentType ==
    ASSUME TypeOK
    PROVE  /\ sent \in Seq(Commands) /\ Len(sent) \in Nat /\ DOMAIN sent = 1..Len(sent)
           /\ carried \in Seq(Carried) /\ Len(carried) \in Nat
<1>1. sent \in Seq(Commands) /\ carried \in Seq(Carried)
  BY DEF TypeOK
<1> QED
  BY <1>1, LenProperties

\* What comes is a sequence of cells, those kept by the service before the others.
LEMMA ComingType ==
    ASSUME TypeOK
    PROVE  /\ Coming \in Seq(Cells(Len(sent)))
           /\ Len(Coming) = Len(mReceiveBuffer) + Len(wire)
           /\ Len(mReceiveBuffer) \in Nat /\ Len(wire) \in Nat /\ Len(Coming) \in Nat
           /\ \A n \in 1..Len(mReceiveBuffer) : Coming[n] = mReceiveBuffer[n]
           /\ \A n \in 1..Len(wire) : Coming[Len(mReceiveBuffer) + n] = wire[n]
<1>1. /\ wire \in Seq(Cells(Len(sent))) /\ mReceiveBuffer \in Seq(Cells(Len(sent)))
      /\ sent \in Seq(Commands)
  BY DEF TypeOK
<1>2. /\ Coming \in Seq(Cells(Len(sent)))
      /\ Len(Coming) = Len(mReceiveBuffer) + Len(wire)
  BY <1>1, ConcatProperties DEF Coming
<1>3. /\ \A n \in 1..Len(mReceiveBuffer) : Coming[n] = mReceiveBuffer[n]
      /\ \A n \in 1..Len(wire) : Coming[Len(mReceiveBuffer) + n] = wire[n]
  BY <1>1, ConcatProperties DEF Coming
<1> QED
  BY <1>1, <1>2, <1>3, LenProperties

LEMMA ComingTypePrime ==
    ASSUME TypeOK'
    PROVE  /\ Coming' \in Seq(Cells(Len(sent')))
           /\ Len(Coming') = Len(mReceiveBuffer') + Len(wire')
           /\ Len(mReceiveBuffer') \in Nat /\ Len(wire') \in Nat
           /\ \A n \in 1..Len(mReceiveBuffer') : Coming'[n] = mReceiveBuffer'[n]
           /\ \A n \in 1..Len(wire') : Coming'[Len(mReceiveBuffer') + n] = wire'[n]
<1>1. /\ wire' \in Seq(Cells(Len(sent'))) /\ mReceiveBuffer' \in Seq(Cells(Len(sent')))
      /\ sent' \in Seq(Commands)
  BY DEF TypeOK
<1>2. /\ Coming' \in Seq(Cells(Len(sent')))
      /\ Len(Coming') = Len(mReceiveBuffer') + Len(wire')
  BY <1>1, ConcatProperties DEF Coming
<1>3. /\ \A n \in 1..Len(mReceiveBuffer') : Coming'[n] = mReceiveBuffer'[n]
      /\ \A n \in 1..Len(wire') : Coming'[Len(mReceiveBuffer') + n] = wire'[n]
  BY <1>1, ConcatProperties DEF Coming
<1> QED
  BY <1>1, <1>2, <1>3, LenProperties

\* A cell that comes belongs to a command that was sent, and its place says which it is.
LEMMA ComingCell ==
    ASSUME TypeOK, ComingInOrder, NEW n \in 1..Len(Coming)
    PROVE  /\ Coming[n] = <<Coming[n][1], Coming[n][2]>>
           /\ Coming[n][1] \in 1..Len(sent) /\ Coming[n][2] \in 1..Width
           /\ (Coming[n][1] - Len(carried) - 1) * Width + Coming[n][2] = n
<1>1. Coming[n] \in Cells(Len(sent))
  BY ComingType
<1>2. n \in DOMAIN Coming
  BY ComingType
<1> QED
  BY <1>1, <1>2 DEF ComingInOrder, Cells

\* The first line kept by the service is the command after those carried out.
LEMMA FirstLine ==
    ASSUME StreamAssumption, TypeOK, ComingInOrder,
           NEW n \in DOMAIN mReceiveBuffer, EndsFirstLine(n)
    PROVE  /\ n = Width
           /\ Len(carried) + 1 \in DOMAIN sent
           /\ SubSeq(mReceiveBuffer, 1, n - 1) = Text(Len(carried) + 1)
<1> DEFINE c == Len(carried)
<1>1. /\ c \in Nat /\ Width \in Nat \ {0, 1} /\ Len(sent) \in Nat
      /\ mReceiveBuffer \in Seq(Cells(Len(sent))) /\ DOMAIN sent = 1..Len(sent)
      /\ n \in 1..Len(mReceiveBuffer) /\ Len(mReceiveBuffer) \in Nat
  BY WidthType DEF TypeOK
<1>2. \A m \in 1..Len(mReceiveBuffer) :
        /\ m \in 1..Len(Coming) /\ Coming[m] = mReceiveBuffer[m]
  BY <1>1, ComingType
<1>3. \A m \in 1..Len(mReceiveBuffer) :
        /\ mReceiveBuffer[m] = <<mReceiveBuffer[m][1], mReceiveBuffer[m][2]>>
        /\ mReceiveBuffer[m][1] \in 1..Len(sent) /\ mReceiveBuffer[m][2] \in 1..Width
        /\ (mReceiveBuffer[m][1] - c - 1) * Width + mReceiveBuffer[m][2] = m
  BY <1>2, ComingCell
<1> HIDE DEF c
<1>4. mReceiveBuffer[n][2] = Width /\ \A m \in 1..(n - 1) : mReceiveBuffer[m][2] # Width
  BY DEF EndsFirstLine, IsNewline
<1>5. \A m \in 1..Len(mReceiveBuffer) : m <= Width => mReceiveBuffer[m] = <<c + 1, m>>
  <2> SUFFICES ASSUME NEW m \in 1..Len(mReceiveBuffer), m <= Width
               PROVE  mReceiveBuffer[m] = <<c + 1, m>>
    OBVIOUS
  <2> DEFINE i == mReceiveBuffer[m][1]
             k == mReceiveBuffer[m][2]
  <2>1. /\ i - c - 1 \in Int /\ k \in 1..Width /\ m \in 1..Width
        /\ (i - c - 1) * Width + k = m /\ i \in Int
    <3>1. i \in 1..Len(sent) /\ k \in 1..Width /\ (i - c - 1) * Width + k = m
      BY <1>3
    <3> HIDE DEF i, k
    <3>2. i \in Int /\ i - c - 1 \in Int /\ m \in 1..Width
      BY <1>1, <3>1
    <3> QED
      BY <3>1, <3>2
  <2>2. mReceiveBuffer[m] = <<i, k>>
    BY <1>3
  <2> HIDE DEF i, k
  <2>3. i - c - 1 = 0 /\ k = m
    BY <1>1, <2>1, SameLine
  <2> QED
    BY <1>1, <2>1, <2>2, <2>3
<1>6. n >= Width
  <2>1. CASE n <= Width
    BY <1>1, <1>4, <1>5, <2>1
  <2> QED
    BY <1>1, <2>1
<1>7. n = Width
  <2>1. CASE n > Width
    <3>1. Width \in 1..(n - 1) /\ Width \in 1..Len(mReceiveBuffer)
      BY <1>1, <2>1
    <3>2. mReceiveBuffer[Width] = <<c + 1, Width>>
      BY <1>1, <1>5, <3>1
    <3> QED
      BY <1>4, <3>1, <3>2
  <2> QED
    BY <1>1, <1>6, <2>1
<1>8. c + 1 \in DOMAIN sent
  BY <1>1, <1>3, <1>5, <1>7
<1>9. SubSeq(mReceiveBuffer, 1, n - 1) = Text(c + 1)
  <2>1. /\ SubSeq(mReceiveBuffer, 1, n - 1) \in Seq(Cells(Len(sent)))
        /\ Len(SubSeq(mReceiveBuffer, 1, n - 1)) = n - 1
        /\ \A m \in 1..(n - 1) : SubSeq(mReceiveBuffer, 1, n - 1)[m] = mReceiveBuffer[m]
    <3>1. n - 1 \in 0..Len(mReceiveBuffer) /\ 1 \in 1..(Len(mReceiveBuffer) + 1)
      BY <1>1
    <3> QED
      BY <1>1, <3>1, PartOfSeq
  <2>2. \A m \in 1..(n - 1) : mReceiveBuffer[m] = <<c + 1, m>>
    BY <1>1, <1>5, <1>7
  <2>3. Pieces = n - 1
    BY <1>7, WidthType
  <2>4. SubSeq(mReceiveBuffer, 1, n - 1) = [m \in 1..(n - 1) |-> <<c + 1, m>>]
    BY <1>1, <2>1, <2>2
  <2> QED
    BY <2>3, <2>4 DEF Text
<1> QED
  BY <1>7, <1>8, <1>9 DEF c

\* A whole line is read as what it means.
LEMMA ParsedText ==
    ASSUME StreamAssumption, NEW i \in DOMAIN sent
    PROVE  Parsed(Text(i)) = Meaning(sent[i])
<1>1. \A j : Text(j)[1] = <<j, 1>>
  BY DEF Text, StreamAssumption
<1>2. \A j \in DOMAIN sent : Text(i) = Text(j) => j = i
  BY <1>1
<1>3. (CHOOSE j \in DOMAIN sent : Text(i) = Text(j)) = i
  BY <1>2
<1> QED
  BY <1>3 DEF Parsed

\* Cells that stay at their places, and fewer of them, are still in order.
LEMMA FewerComing ==
    ASSUME TypeOK, TypeOK', ComingInOrder, Len(carried') = Len(carried),
           Len(Coming') <= Len(Coming), \A n \in 1..Len(Coming') : Coming'[n] = Coming[n]
    PROVE  ComingInOrder'
<1>1. DOMAIN Coming = 1..Len(Coming) /\ Len(Coming) \in Nat
  BY ComingType
<1>2. DOMAIN Coming' = 1..Len(Coming') /\ Len(Coming') \in Nat
  <2>1. Coming' \in Seq(Cells(Len(sent')))
    BY ComingTypePrime
  <2> QED
    BY <2>1
<1> QED
  BY <1>1, <1>2 DEF ComingInOrder

\* A command is written behind all that comes.
LEMMA SendComing ==
    ASSUME StreamAssumption, TypeOK, TypeOK', CommandInv, NEW c \in Commands, SendCommand(c)
    PROVE  CommandInv'
<1> DEFINE length == Len(Coming)
<1>1. /\ length = (Len(sent) - Len(carried)) * Width /\ link = "open"
      /\ Len(sent') = Len(sent) + 1 /\ carried' = carried
      /\ wire' = wire \o Line(Len(sent) + 1) /\ mReceiveBuffer' = mReceiveBuffer
  BY DEF SendCommand, CommandInv, AllComing, serviceVars, TypeOK
<1>2. Len(sent) \in Nat /\ Len(carried) \in Nat /\ Width \in Nat \ {0, 1}
  BY WidthType, SentType
<1>3. /\ Len(wire') = Len(wire) + Width
      /\ \A n \in 1..Len(wire) : wire'[n] = wire[n]
      /\ \A k \in 1..Width : wire'[Len(wire) + k] = <<Len(sent) + 1, k>>
  <2>1. /\ Line(Len(sent) + 1) \in Seq(Cells(Len(sent) + 1))
        /\ Len(Line(Len(sent) + 1)) = Width
        /\ \A k \in 1..Width : Line(Len(sent) + 1)[k] = <<Len(sent) + 1, k>>
    BY <1>2, CellsGrow
  <2>2. wire \in Seq(Cells(Len(sent) + 1))
    BY <1>2, WrittenType DEF TypeOK
  <2>3. /\ Len(wire') = Len(wire) + Width
        /\ \A n \in 1..Len(wire) : wire'[n] = wire[n]
        /\ \A n \in 1..Width : wire'[Len(wire) + n] = Line(Len(sent) + 1)[n]
    BY <1>1, <2>1, <2>2, ConcatProperties
  <2> QED
    BY <2>1, <2>3
<1>4. /\ length = Len(mReceiveBuffer) + Len(wire)
      /\ Len(mReceiveBuffer) \in Nat /\ Len(wire) \in Nat /\ length \in Nat
  BY ComingType
<1>5. Len(Coming') = length + Width
  <2>1. Len(Coming') = Len(mReceiveBuffer) + Len(wire')
    BY <1>1, ComingTypePrime
  <2> HIDE DEF length
  <2> QED
    BY <1>2, <1>3, <1>4, <2>1
<1>6. \A n \in 1..length : Coming'[n] = Coming[n]
  <2> SUFFICES ASSUME NEW n \in 1..length PROVE Coming'[n] = Coming[n]
    OBVIOUS
  <2>1. CASE n <= Len(mReceiveBuffer)
    <3>1. n \in 1..Len(mReceiveBuffer)
      BY <1>4, <2>1
    <3> QED
      BY <1>1, <3>1, ComingType, ComingTypePrime
  <2>2. CASE n > Len(mReceiveBuffer)
    <3>1. PICK m \in 1..Len(wire) : n = Len(mReceiveBuffer) + m
      <4>1. n - Len(mReceiveBuffer) \in 1..Len(wire)
        BY <1>4, <2>2
      <4> QED
        BY <1>4, <4>1
    <3>2. m \in 1..Len(wire')
      BY <1>2, <1>3, <1>4
    <3> QED
      BY <1>1, <1>3, <3>1, <3>2, ComingType, ComingTypePrime
  <2> QED
    BY <1>4, <2>1, <2>2
<1>7. \A k \in 1..Width : Coming'[length + k] = <<Len(sent) + 1, k>>
  <2> SUFFICES ASSUME NEW k \in 1..Width
               PROVE  Coming'[length + k] = <<Len(sent) + 1, k>>
    OBVIOUS
  <2>1. Len(wire) + k \in 1..Len(wire')
    BY <1>2, <1>3, <1>4
  <2>2. \A m \in 1..Len(wire') : Coming'[Len(mReceiveBuffer') + m] = wire'[m]
    BY ComingTypePrime
  <2>3. Len(mReceiveBuffer') + (Len(wire) + k) = length + k
    <3>1. mReceiveBuffer' = mReceiveBuffer
      BY <1>1
    <3> HIDE DEF length
    <3> QED
      BY <1>2, <1>4, <3>1
  <2>4. Coming'[Len(mReceiveBuffer') + (Len(wire) + k)] = wire'[Len(wire) + k]
    BY <2>1, <2>2
  <2> QED
    BY <1>3, <2>3, <2>4
<1> HIDE DEF length
<1>8. ComingInOrder'
  <2>1. DOMAIN Coming' = 1..(length + Width)
    BY <1>5, ComingTypePrime
  <2> SUFFICES ASSUME NEW n \in 1..(length + Width)
               PROVE  (Coming'[n][1] - Len(carried) - 1) * Width + Coming'[n][2] = n
    BY <1>1, <2>1 DEF ComingInOrder
  <2>2. CASE n <= length
    <3>1. n \in 1..length
      BY <1>4, <2>2
    <3> QED
      BY <1>6, <3>1, ComingCell DEF CommandInv, length
  <2>3. CASE n > length
    <3>1. n - length \in 1..Width
      BY <1>2, <1>4, <2>3
    <3>2. Coming'[n] = <<Len(sent) + 1, n - length>>
      <4>1. Coming'[length + (n - length)] = <<Len(sent) + 1, n - length>>
        BY <1>7, <3>1
      <4>2. length + (n - length) = n
        BY <1>4
      <4> QED
        BY <4>1, <4>2
    <3>3. Len(sent) + 1 - Len(carried) - 1 = Len(sent) - Len(carried)
      BY <1>2
    <3>4. (Len(sent) - Len(carried)) * Width + (n - length) = n
      BY <1>1, <1>4 DEF length
    <3> QED
      BY <3>2, <3>3, <3>4
  <2> QED
    BY <1>2, <1>4, <2>2, <2>3
<1>9. AllComing'
  <2>1. (Len(sent) + 1 - Len(carried)) * Width = (Len(sent) - Len(carried)) * Width + Width
    BY <1>2
  <2>2. length = (Len(sent) - Len(carried)) * Width
    BY <1>1
  <2> QED
    BY <1>1, <1>2, <1>5, <2>1, <2>2 DEF AllComing
<1> QED
  BY <1>8, <1>9 DEF CommandInv

\* A command that is carried out is the first one that comes.
LEMMA CarryComing ==
    ASSUME StreamAssumption, TypeOK, TypeOK', CommandInv, Carry
    PROVE  /\ CommandInv'
           /\ Len(carried) + 1 \in DOMAIN sent
           /\ carried' = Append(carried, Meaning(sent[Len(carried) + 1]))
<1>1. PICK n \in DOMAIN mReceiveBuffer :
        /\ EndsFirstLine(n)
        /\ carried' = Append(carried, Parsed(SubSeq(mReceiveBuffer, 1, n - 1)))
        /\ mReceiveBuffer' = SubSeq(mReceiveBuffer, n + 1, Len(mReceiveBuffer))
  BY DEF Carry
<1>2. n = Width /\ Len(carried) + 1 \in DOMAIN sent
  BY <1>1, FirstLine DEF CommandInv
<1>3. carried' = Append(carried, Meaning(sent[Len(carried) + 1]))
  <2>1. SubSeq(mReceiveBuffer, 1, n - 1) = Text(Len(carried) + 1)
    BY <1>1, FirstLine DEF CommandInv
  <2>2. Parsed(Text(Len(carried) + 1)) = Meaning(sent[Len(carried) + 1])
    BY <1>2, ParsedText
  <2> QED
    BY <1>1, <2>1, <2>2
<1>4. /\ Len(carried') = Len(carried) + 1
      /\ Len(carried) \in Nat /\ Len(sent) \in Nat /\ Width \in Nat \ {0, 1}
  BY <1>3, WidthType, SentType
<1>5. wire' = wire /\ sent' = sent /\ link' = link
  BY DEF Carry
<1>6. /\ Len(Coming) = Len(mReceiveBuffer) + Len(wire)
      /\ Len(mReceiveBuffer) \in Nat /\ Len(wire) \in Nat /\ Len(Coming) \in Nat
      /\ n \in 1..Len(mReceiveBuffer)
  <2>1. DOMAIN mReceiveBuffer = 1..Len(mReceiveBuffer)
    BY DEF TypeOK
  <2> QED
    BY <2>1, ComingType
<1>7. /\ Len(mReceiveBuffer') = Len(mReceiveBuffer) - n
      /\ \A m \in 1..(Len(mReceiveBuffer) - n) : mReceiveBuffer'[m] = mReceiveBuffer[n + m]
  <2>1. mReceiveBuffer \in Seq(Cells(Len(sent)))
    BY DEF TypeOK
  <2>2. n + 1 \in 1..(Len(mReceiveBuffer) + 1) /\ n + 1 <= Len(mReceiveBuffer) + 1
    BY <1>6
  <2>3. Len(mReceiveBuffer) \in 0..Len(mReceiveBuffer)
    BY <1>6
  <2> DEFINE a == n + 1
             b == Len(mReceiveBuffer)
  <2> HIDE DEF a, b
  <2>4. /\ Len(SubSeq(mReceiveBuffer, a, b)) = b - a + 1
        /\ \A m \in 1..(b - a + 1) : SubSeq(mReceiveBuffer, a, b)[m] = mReceiveBuffer[a + m - 1]
    BY <2>1, <2>2, <2>3, PartOfSeq DEF a, b
  <2>5. mReceiveBuffer' = SubSeq(mReceiveBuffer, a, b)
    BY <1>1 DEF a, b
  <2>6. a = n + 1 /\ b = Len(mReceiveBuffer)
    BY DEF a, b
  <2>7. b - a + 1 = Len(mReceiveBuffer) - n
    BY <1>6, <2>6
  <2>8. ASSUME NEW m \in 1..(Len(mReceiveBuffer) - n)
        PROVE  mReceiveBuffer'[m] = mReceiveBuffer[n + m]
    <3>1. a + m - 1 = n + m
      BY <1>6, <2>6
    <3>2. m \in 1..(b - a + 1)
      BY <2>7
    <3> QED
      BY <2>4, <2>5, <3>1, <3>2
  <2> QED
    BY <2>4, <2>5, <2>7, <2>8
<1>8. Len(Coming') = Len(Coming) - n
  BY <1>5, <1>6, <1>7, ComingTypePrime
<1>9. \A m \in 1..(Len(Coming) - n) : Coming'[m] = Coming[n + m]
  <2> SUFFICES ASSUME NEW m \in 1..(Len(Coming) - n) PROVE Coming'[m] = Coming[n + m]
    OBVIOUS
  <2>1. CASE m <= Len(mReceiveBuffer) - n
    <3>1. m \in 1..Len(mReceiveBuffer') /\ n + m \in 1..Len(mReceiveBuffer)
      BY <1>6, <1>7, <2>1
    <3>2. Coming'[m] = mReceiveBuffer'[m] /\ Coming[n + m] = mReceiveBuffer[n + m]
      BY <3>1, ComingType, ComingTypePrime
    <3> QED
      BY <1>6, <1>7, <2>1, <3>2
  <2>2. CASE m > Len(mReceiveBuffer) - n
    <3> DEFINE i == m - (Len(mReceiveBuffer) - n)
    <3>1. i \in 1..Len(wire) /\ i \in 1..Len(wire')
      BY <1>5, <1>6, <2>2
    <3>2. Coming'[Len(mReceiveBuffer') + i] = wire'[i] /\ Coming[Len(mReceiveBuffer) + i] = wire[i]
      BY <3>1, ComingType, ComingTypePrime
    <3>3. Len(mReceiveBuffer') + i = m /\ Len(mReceiveBuffer) + i = n + m
      BY <1>6, <1>7
    <3> QED
      BY <1>5, <3>2, <3>3
  <2> QED
    BY <1>6, <2>1, <2>2
<1>10. ComingInOrder'
  <2>1. DOMAIN Coming' = 1..(Len(Coming) - n)
    BY <1>8, ComingTypePrime
  <2> SUFFICES ASSUME NEW m \in 1..(Len(Coming) - n)
               PROVE  (Coming'[m][1] - (Len(carried) + 1) - 1) * Width + Coming'[m][2] = m
    BY <1>4, <2>1 DEF ComingInOrder
  <2> DEFINE i == Coming[n + m][1]
             k == Coming[n + m][2]
  <2>2. n + m \in 1..Len(Coming)
    BY <1>6
  <2>3. /\ i \in 1..Len(sent) /\ k \in 1..Width
        /\ (i - Len(carried) - 1) * Width + k = n + m
    BY <2>2, ComingCell DEF CommandInv
  <2>4. Coming'[m] = Coming[n + m]
    BY <1>9
  <2> HIDE DEF i, k
  <2>5. (i - Len(carried) - 1) * Width = (i - (Len(carried) + 1) - 1) * Width + Width
    BY <1>4, <2>3
  <2>6. (i - (Len(carried) + 1) - 1) * Width \in Int
    BY <1>4, <2>3
  <2>7. (i - (Len(carried) + 1) - 1) * Width + k = m
    BY <1>2, <1>4, <2>3, <2>5, <2>6
  <2> QED
    BY <2>4, <2>7 DEF i, k
<1>11. AllComing'
  <2>1. (Len(sent) - (Len(carried) + 1)) * Width = (Len(sent) - Len(carried)) * Width - Width
    BY <1>4
  <2>2. link = "open" => Len(Coming) = (Len(sent) - Len(carried)) * Width
    BY DEF CommandInv, AllComing
  <2> QED
    BY <1>2, <1>4, <1>5, <1>8, <2>1, <2>2 DEF AllComing
<1> QED
  BY <1>2, <1>3, <1>10, <1>11 DEF CommandInv

\* A read of the service moves cells from one side of what comes to the other.
LEMMA ReadComing ==
    ASSUME StreamAssumption, TypeOK, ServiceReads
    PROVE  Coming' = Coming
<1>1. PICK n \in 1..Len(wire) :
        /\ mReceiveBuffer' = mReceiveBuffer \o SubSeq(wire, 1, n)
        /\ wire' = SubSeq(wire, n + 1, Len(wire))
  BY DEF ServiceReads
<1> DEFINE T == Cells(Len(sent))
           first == SubSeq(wire, 1, n)
           rest == SubSeq(wire, n + 1, Len(wire))
<1>2. wire \in Seq(T) /\ mReceiveBuffer \in Seq(T) /\ Len(wire) \in Nat
  BY LenProperties DEF TypeOK
<1>3. first \in Seq(T) /\ rest \in Seq(T)
  BY <1>2, PartOfSeq
<1>4. first \o rest = wire
  <2>1. /\ 1 \in 1..(Len(wire) + 1) /\ n \in (1 - 1)..Len(wire) /\ Len(wire) \in n..Len(wire)
    BY <1>2
  <2>2. first \o rest = SubSeq(wire, 1, Len(wire))
    BY <1>2, <2>1, ConcatAdjacentSubSeq
  <2> QED
    BY <1>2, <2>2, SubSeqFull
<1> HIDE DEF T, first, rest
<1>5. (mReceiveBuffer \o first) \o rest = mReceiveBuffer \o (first \o rest)
  <2>1. \A s, t, u \in Seq(T) : (s \o t) \o u = s \o (t \o u)
    BY ConcatAssociative
  <2> QED
    BY <1>2, <1>3, <2>1
<1> QED
  BY <1>1, <1>4, <1>5 DEF Coming, first, rest

LEMMA CommandInvStep ==
    ASSUME StreamAssumption, TypeOK, TypeOK', NoneForTheDead, CommandInv, [Next]_vars
    PROVE  CommandInv'
<1>1. ASSUME NEW c \in Commands, SendCommand(c)
      PROVE  CommandInv'
  BY <1>1, SendComing
<1>2. CASE ServiceReads
  <2>1. Coming' = Coming
    BY <1>2, ReadComing
  <2>2. sent' = sent /\ carried' = carried /\ link' = link
    BY <1>2 DEF ServiceReads
  <2> QED
    BY <2>1, <2>2 DEF CommandInv, ComingInOrder, AllComing
<1>3. CASE Carry
  BY <1>3, CarryComing
<1>4. ASSUME UNCHANGED <<mReceiveBuffer, wire, sent, carried, link>>
      PROVE  CommandInv'
  BY <1>4 DEF CommandInv, ComingInOrder, AllComing, Coming
<1>5. CASE ServiceDies
  <2>1. /\ mReceiveBuffer' = <<>> /\ wire' = <<>> /\ carried' = carried
        /\ link' = "noService"
    BY <1>5 DEF ServiceDies
  <2>2. Len(Coming') = 0
    BY <2>1, ComingTypePrime
  <2>3. ComingInOrder'
    BY <2>1, <2>2, ComingType, FewerComing DEF CommandInv
  <2> QED
    BY <2>1, <2>3 DEF CommandInv, AllComing
<1>6. CASE ClientDies
  <2>1. PICK n \in 0..Len(wire) : wire' = SubSeq(wire, 1, n)
    BY <1>6 DEF ClientDies
  <2>2. /\ mReceiveBuffer' = mReceiveBuffer /\ carried' = carried /\ link' = "noClient"
    BY <1>6 DEF ClientDies, serviceVars
  <2>3. /\ Len(wire) \in Nat /\ wire \in Seq(Cells(Len(sent)))
        /\ Len(mReceiveBuffer) \in Nat
    BY ComingType DEF TypeOK
  <2>4. Len(wire') = n /\ \A m \in 1..n : wire'[m] = wire[m]
    BY <2>1, <2>3, PartOfSeq
  <2>5. /\ Len(Coming') = Len(mReceiveBuffer) + n
        /\ Len(Coming) = Len(mReceiveBuffer) + Len(wire)
    BY <2>2, <2>4, ComingType, ComingTypePrime
  <2>6. Len(Coming') <= Len(Coming)
    BY <2>1, <2>3, <2>5
  <2>7. ASSUME NEW m \in 1..Len(Coming')
        PROVE  Coming'[m] = Coming[m]
    <3>1. CASE m <= Len(mReceiveBuffer)
      <4>1. m \in 1..Len(mReceiveBuffer) /\ m \in 1..Len(mReceiveBuffer')
        BY <2>2, <2>3, <3>1
      <4>2. Coming'[m] = mReceiveBuffer'[m] /\ Coming[m] = mReceiveBuffer[m]
        BY <4>1, ComingType, ComingTypePrime
      <4> QED
        BY <2>2, <4>2
    <3>2. CASE m > Len(mReceiveBuffer)
      <4> DEFINE i == m - Len(mReceiveBuffer)
      <4>1. i \in 1..n /\ i \in 1..Len(wire) /\ i \in 1..Len(wire')
        BY <2>3, <2>4, <2>5, <3>2
      <4>2. Len(mReceiveBuffer) + i = m
        BY <2>3
      <4> HIDE DEF i
      <4>3. Coming'[Len(mReceiveBuffer') + i] = wire'[i] /\ Coming[Len(mReceiveBuffer) + i] = wire[i]
        BY <4>1, ComingType, ComingTypePrime
      <4> QED
        BY <2>2, <2>4, <4>1, <4>2, <4>3
    <3> QED
      BY <2>3, <2>5, <3>1, <3>2
  <2>8. ComingInOrder'
    BY <2>2, <2>6, <2>7, FewerComing DEF CommandInv
  <2> QED
    BY <2>2, <2>8 DEF CommandInv, AllComing
<1>7. CASE Connect
  <2>1. /\ mReceiveBuffer' = <<>> /\ wire' = wire /\ sent' = <<>> /\ carried' = <<>>
    BY <1>7 DEF Connect
  <2>2. wire = <<>>
    BY <1>7 DEF Connect, NoneForTheDead
  <2>3. Len(Coming') = 0
    BY <2>1, <2>2, ComingTypePrime
  <2>4. Coming' = <<>>
    BY <2>1, <2>2 DEF Coming
  <2>5. 0 = (0 - 0) * Width
    BY WidthType
  <2> QED
    BY <2>1, <2>3, <2>4, <2>5 DEF CommandInv, ComingInOrder, AllComing
<1>8. CASE \E s \in VpnStates : VpnStateChanged(s)
  BY <1>4, <1>8 DEF VpnStateChanged
<1>9. CASE OtherNote
  BY <1>4, <1>9 DEF OtherNote, serviceVars
<1>10. CASE ClientReads
  BY <1>4, <1>10 DEF ClientReads, serviceVars
<1>11. CASE UNCHANGED vars
  BY <1>4, <1>11 DEF vars, serviceVars
<1> QED
  BY <1>1, <1>2, <1>3, <1>5, <1>6, <1>7, <1>8, <1>9, <1>10, <1>11 DEF Next

LEMMA CommandInvInit == StreamAssumption /\ Init => CommandInv
<1> SUFFICES ASSUME StreamAssumption, Init PROVE CommandInv
  OBVIOUS
<1>1. Coming = <<>> /\ sent = <<>> /\ carried = <<>>
  BY DEF Init, Coming
<1>2. 0 = (0 - 0) * Width
  BY WidthType
<1> QED
  BY <1>1, <1>2 DEF CommandInv, ComingInOrder, AllComing

\* What the messages sent on this connection mean.
Meant == [i \in DOMAIN sent |-> Meaning(sent[i])]

\* Each step of the stream is a step of the channel, or none.
LEMMA ChannelStep ==
    ASSUME StreamAssumption, TypeOK, TypeOK', CommandInv, [Next]_vars
    PROVE  [Channel!Next]_(Channel!vars)
<1>0. /\ Meant \in Seq(Carried) /\ Len(Meant) = Len(sent) /\ DOMAIN sent = 1..Len(sent)
  <2>1. \A i \in 1..Len(sent) : Meaning(sent[i]) \in Carried
    BY SentType, MeaningType
  <2>2. Meant = [i \in 1..Len(sent) |-> Meaning(sent[i])]
    BY SentType DEF Meant
  <2>3. Meant \in Seq(Carried)
    BY <2>1, <2>2, SentType, IsASeq
  <2>4. DOMAIN Meant = 1..Len(sent)
    BY <2>2
  <2> QED
    BY <2>3, <2>4, SentType, LenProperties
<1>1. ASSUME NEW c \in Commands, SendCommand(c)
      PROVE  Channel!Send
  <2>1. sent' = Append(sent, c) /\ link = "open" /\ link' = link /\ carried' = carried
    BY <1>1 DEF SendCommand, serviceVars
  <2>2. Meaning(c) \in Carried
    BY MeaningType
  <2>3. Meant' = Append(Meant, Meaning(c))
    <3> DEFINE longer == Append(Meant, Meaning(c))
    <3>1. /\ DOMAIN sent' = 1..(Len(sent) + 1)
          /\ \A i \in 1..Len(sent) : sent'[i] = sent[i]
          /\ sent'[Len(sent) + 1] = c
      BY <2>1, SentType, AppendProperties
    <3>2. Meant' = [i \in 1..(Len(sent) + 1) |-> Meaning(sent'[i])]
      BY <3>1 DEF Meant
    <3>3. /\ Len(longer) = Len(sent) + 1 /\ longer \in Seq(Carried)
          /\ \A i \in 1..Len(sent) : longer[i] = Meant[i]
          /\ longer[Len(sent) + 1] = Meaning(c)
      BY <1>0, <2>2, AppendProperties
    <3>4. \A i \in 1..Len(sent) : Meant[i] = Meaning(sent[i])
      BY <1>0 DEF Meant
    <3> HIDE DEF longer
    <3>5. \A i \in 1..(Len(sent) + 1) : longer[i] = Meaning(sent'[i])
      BY <3>1, <3>3, <3>4, SentType
    <3>6. longer = [i \in 1..Len(longer) |-> longer[i]]
      BY <3>3, LenProperties
    <3>7. longer = Meant'
      BY <3>2, <3>3, <3>5, <3>6
    <3> QED
      BY <3>7 DEF longer
  <2> QED
    BY <2>1, <2>2, <2>3 DEF Channel!Send, Meant
<1>2. ASSUME Carry
      PROVE  Channel!Deliver
  <2>1. /\ Len(carried) + 1 \in 1..Len(sent)
        /\ carried' = Append(carried, Meaning(sent[Len(carried) + 1]))
    BY <1>0, <1>2, CarryComing
  <2>2. sent' = sent /\ link' = link
    BY <1>2 DEF Carry
  <2>3. Meant[Len(carried) + 1] = Meaning(sent[Len(carried) + 1])
    BY <1>0, <2>1 DEF Meant
  <2>4. Len(carried) < Len(Meant)
    BY <1>0, <2>1, SentType
  <2> QED
    BY <2>1, <2>2, <2>3, <2>4 DEF Channel!Deliver, Meant
<1>3. ASSUME UNCHANGED <<link, sent, carried>>
      PROVE  UNCHANGED Channel!vars
  BY <1>3 DEF Channel!vars
<1>4. ASSUME ServiceDies
      PROVE  Channel!Break
  BY <1>4 DEF ServiceDies, Channel!Break
<1>5. ASSUME ClientDies
      PROVE  Channel!Break
  BY <1>5 DEF ClientDies, serviceVars, Channel!Break
<1>6. ASSUME Connect
      PROVE  Channel!Renew
  BY <1>6 DEF Connect, Channel!Renew
<1>7. CASE ServiceReads
  BY <1>3, <1>7 DEF ServiceReads
<1>8. CASE \E s \in VpnStates : VpnStateChanged(s)
  BY <1>3, <1>8 DEF VpnStateChanged
<1>9. CASE OtherNote
  BY <1>3, <1>9 DEF OtherNote, serviceVars
<1>10. CASE ClientReads
  BY <1>3, <1>10 DEF ClientReads, serviceVars
<1>11. CASE UNCHANGED vars
  BY <1>3, <1>11 DEF vars, serviceVars
<1> QED
  BY <1>1, <1>2, <1>4, <1>5, <1>6, <1>7, <1>8, <1>9, <1>10, <1>11 DEF Next, Channel!Next

LEMMA CommandsAlways == Spec => []CommandInv
<1>1. CommandInv /\ TypeOK /\ NoneForTheDead /\ (TypeOK /\ NoneForTheDead)' /\ [Next]_vars
        => CommandInv'
  BY CommandInvStep, StreamAssumption
<1> QED
  BY <1>1, CommandInvInit, StreamInvariant, StreamAssumption, PTL DEF Spec

\* The service carries out what the commands of a connection mean to it, each once and
\* in their order, however the stream is cut and whichever end dies in a line.
THEOREM StreamIsAChannel == Spec => CommandsInOrder
<1>1. Init => Channel!Init
  BY DEF Init, Channel!Init
<1>2. TypeOK /\ TypeOK' /\ CommandInv /\ [Next]_vars => [Channel!Next]_(Channel!vars)
  BY ChannelStep, StreamAssumption
<1> QED
  BY <1>1, <1>2, CommandsAlways, StreamTypeCorrect, PTL DEF Spec, Channel!Spec, CommandsInOrder

\* The first of the commands that come has its newline in its place, which is read.
LEMMA NothingIsHeld ==
    ASSUME StreamAssumption, TypeOK, CommandInv, link = "open", wire = <<>>, ~HasLine
    PROVE  Len(carried) = Len(sent)
<1> DEFINE left == Len(sent) - Len(carried)
<1>1. /\ Width \in Nat \ {0, 1} /\ left \in Int
      /\ Len(sent) \in Nat /\ Len(carried) \in Nat
  BY WidthType, SentType
<1>2. Len(Coming) = left * Width
  BY DEF CommandInv, AllComing
<1>3. Len(Coming) = Len(mReceiveBuffer) /\ Len(Coming) \in Nat
  BY ComingType
<1>4. ASSUME left <= -1 PROVE FALSE
  <2>1. left * Width = (left + 1) * Width - Width
    BY <1>1
  <2>2. -(left + 1) >= 0 /\ -(left + 1) \in Int
    BY <1>1, <1>4
  <2>3. -(left + 1) * Width >= 0
    BY <1>1, <2>2
  <2>4. (left + 1) * Width = -(-(left + 1) * Width)
    BY <1>1
  <2> QED
    BY <1>1, <1>2, <1>3, <2>1, <2>3, <2>4
<1>5. ASSUME left >= 1 PROVE FALSE
  <2>1. left * Width = (left - 1) * Width + Width
    BY <1>1
  <2>2. left - 1 \in Nat
    BY <1>1, <1>5
  <2>3. (left - 1) * Width >= 0
    BY <1>1, <2>2
  <2>4. Width <= Len(Coming)
    <3> DEFINE rest == (left - 1) * Width
    <3>1. rest >= 0 /\ rest \in Int /\ Len(Coming) = rest + Width
      BY <1>1, <1>2, <2>1, <2>3
    <3> HIDE DEF rest
    <3> QED
      BY <1>1, <3>1
  <2>5. Width \in 1..Len(Coming)
    BY <1>1, <1>3, <2>4
  <2>6. /\ Coming[Width][1] \in 1..Len(sent) /\ Coming[Width][2] \in 1..Width
        /\ (Coming[Width][1] - Len(carried) - 1) * Width + Coming[Width][2] = Width
    BY <2>5, ComingCell DEF CommandInv
  <2>7. Coming[Width][2] = Width
    <3> DEFINE e == Coming[Width][1] - Len(carried) - 1
               k == Coming[Width][2]
    <3>1. /\ Width \in Nat \ {0} /\ Width \in 1..Width
          /\ e \in Int /\ k \in 1..Width /\ e * Width + k = Width
      BY <1>1, <2>6
    <3> HIDE DEF e, k
    <3>2. k = Width
      BY <3>1, SameLine
    <3> QED
      BY <3>2 DEF k
  <2>8. Width \in 1..Len(mReceiveBuffer) /\ mReceiveBuffer[Width] = Coming[Width]
    BY <1>3, <2>5, ComingType
  <2>9. Width \in DOMAIN mReceiveBuffer
    BY <2>8, LenProperties DEF TypeOK
  <2> QED
    BY <2>7, <2>8, <2>9 DEF HasLine, IsNewline
<1>6. left = 0
  BY <1>1, <1>4, <1>5
<1> QED
  BY <1>1, <1>6

\* Nothing is held back: a service that has read all there is of a connection that lasts,
\* and has no whole line left, has carried out all its commands.
THEOREM NothingIsHeldBack == Spec => []AllReadIsCarried
<1>1. TypeOK /\ CommandInv => AllReadIsCarried
  BY NothingIsHeld, StreamAssumption DEF AllReadIsCarried
<1> QED
  BY <1>1, CommandsAlways, StreamTypeCorrect, PTL

-----------------------------------------------------------------------------
(* The notifications that are lost.                                        *)

\* The notifications that come are numbered, and so are those handled.
LEMMA NotesType ==
    ASSUME TypeOK
    PROVE  /\ noteWire \in Seq(Cells(Len(notes))) /\ Len(noteWire) \in Nat
           /\ DOMAIN noteWire = 1..Len(noteWire)
           /\ Len(notes) \in Nat /\ DOMAIN notes = 1..Len(notes)
           /\ handled \in Seq(Nat) /\ Len(handled) \in Nat /\ DOMAIN handled = 1..Len(handled)
           /\ \A n \in 1..Len(handled) : handled[n] \in 1..Len(notes)
           /\ \A n \in 1..Len(noteWire) :
                /\ noteWire[n] = <<noteWire[n][1], noteWire[n][2]>>
                /\ noteWire[n][1] \in 1..Len(notes) /\ noteWire[n][2] \in 1..Width
<1>1. /\ noteWire \in Seq(Cells(Len(notes))) /\ notes \in Seq(Notes)
      /\ handled \in Seq(DOMAIN notes)
  BY DEF TypeOK
<1>2. /\ Len(noteWire) \in Nat /\ DOMAIN noteWire = 1..Len(noteWire)
      /\ Len(notes) \in Nat /\ DOMAIN notes = 1..Len(notes)
      /\ Len(handled) \in Nat /\ DOMAIN handled = 1..Len(handled)
  BY <1>1, LenProperties
<1>3. \A n \in 1..Len(handled) : handled[n] \in 1..Len(notes)
  BY <1>1, <1>2
<1>4. handled \in Seq(Nat)
  <2>1. DOMAIN notes \subseteq Nat
    BY <1>2
  <2> QED
    BY <1>1, <2>1, SeqMonotonic
<1>5. \A n \in 1..Len(noteWire) : noteWire[n] \in Cells(Len(notes))
  BY <1>1, <1>2
<1> QED
  BY <1>1, <1>2, <1>3, <1>4, <1>5 DEF Cells

\* What a read takes: the first n cells; what it leaves: the rest.
LEMMA ReadCells ==
    ASSUME TypeOK, NEW n \in 1..Len(noteWire)
    PROVE  /\ DOMAIN SubSeq(noteWire, 1, n) = 1..n
           /\ \A m \in 1..n : SubSeq(noteWire, 1, n)[m] = noteWire[m]
           /\ DOMAIN SubSeq(noteWire, n + 1, Len(noteWire)) = 1..(Len(noteWire) - n)
           /\ \A m \in 1..(Len(noteWire) - n) :
                SubSeq(noteWire, n + 1, Len(noteWire))[m] = noteWire[n + m]
<1>1. noteWire \in Seq(Cells(Len(notes))) /\ Len(noteWire) \in Nat
  BY NotesType
<1> DEFINE a == n + 1
           b == Len(noteWire)
           first == SubSeq(noteWire, 1, n)
           rest == SubSeq(noteWire, a, b)
<1>2. /\ first \in Seq(Cells(Len(notes))) /\ Len(first) = n
      /\ \A m \in 1..n : first[m] = noteWire[m]
  BY <1>1, PartOfSeq
<1>3. a \in 1..(Len(noteWire) + 1) /\ b \in 0..Len(noteWire) /\ a <= b + 1
  BY <1>1
<1>4. a = n + 1 /\ b = Len(noteWire) /\ b - a + 1 = Len(noteWire) - n
  BY <1>1
<1> HIDE DEF a, b
<1>5. /\ rest \in Seq(Cells(Len(notes))) /\ Len(rest) = b - a + 1
      /\ \A m \in 1..(b - a + 1) : rest[m] = noteWire[a + m - 1]
  BY <1>1, <1>3, PartOfSeq
<1>6. \A m \in 1..(Len(noteWire) - n) : rest[m] = noteWire[n + m]
  <2> SUFFICES ASSUME NEW m \in 1..(Len(noteWire) - n) PROVE rest[m] = noteWire[n + m]
    OBVIOUS
  <2>1. a + m - 1 = n + m
    BY <1>1, <1>4
  <2> QED
    BY <1>4, <1>5, <2>1
<1>7. DOMAIN first = 1..n /\ DOMAIN rest = 1..(Len(noteWire) - n)
  BY <1>2, <1>4, <1>5, LenProperties
<1> QED
  BY <1>2, <1>4, <1>6, <1>7

\* What a death leaves is the beginning of what came.
LEMMA LeftCells ==
    ASSUME TypeOK, NEW n \in 0..Len(noteWire)
    PROVE  /\ DOMAIN SubSeq(noteWire, 1, n) = 1..n
           /\ \A m \in 1..n : SubSeq(noteWire, 1, n)[m] = noteWire[m]
<1>1. noteWire \in Seq(Cells(Len(notes))) /\ Len(noteWire) \in Nat
  BY NotesType
<1>2. /\ SubSeq(noteWire, 1, n) \in Seq(Cells(Len(notes))) /\ Len(SubSeq(noteWire, 1, n)) = n
      /\ \A m \in 1..n : SubSeq(noteWire, 1, n)[m] = noteWire[m]
  BY <1>1, PartOfSeq
<1> QED
  BY <1>2, LenProperties

\* What is written comes behind the rest.
LEMMA WrittenCells ==
    ASSUME StreamAssumption, TypeOK
    PROVE  LET longer == noteWire \o Line(Len(notes) + 1)
           IN /\ DOMAIN longer = 1..(Len(noteWire) + Width)
              /\ \A n \in 1..Len(noteWire) : longer[n] = noteWire[n]
              /\ \A k \in 1..Width : longer[Len(noteWire) + k] = <<Len(notes) + 1, k>>
<1> DEFINE line == Line(Len(notes) + 1)
           longer == noteWire \o line
           T == Cells(Len(notes) + 1)
<1>1. Len(notes) \in Nat /\ Len(noteWire) \in Nat /\ noteWire \in Seq(T)
  BY NotesType, WrittenType
<1>2. /\ line \in Seq(T) /\ Len(line) = Width
      /\ \A k \in 1..Width : line[k] = <<Len(notes) + 1, k>>
  BY <1>1, CellsGrow
<1> HIDE DEF line, T
<1>3. /\ longer \in Seq(T) /\ Len(longer) = Len(noteWire) + Width
      /\ \A n \in 1..Len(noteWire) : longer[n] = noteWire[n]
      /\ \A k \in 1..Width : longer[Len(noteWire) + k] = line[k]
  BY <1>1, <1>2, ConcatProperties
<1> QED
  BY <1>2, <1>3, LenProperties DEF line

LossInv == NoteInv /\ OnlyCutNotesAreLost

\* The numbers of S are handled behind those handled before.
LEMMA HandledCells ==
    ASSUME TypeOK, NEW S \in SUBSET DOMAIN notes, Handle(S)
    PROVE  \E s : /\ IsInOrder(s, S)
                  /\ DOMAIN s = 1..Len(s) /\ Len(s) \in Nat
                  /\ \A p \in 1..Len(s) : s[p] \in S
                  /\ DOMAIN handled' = 1..(Len(handled) + Len(s))
                  /\ \A m \in 1..Len(handled) : handled'[m] = handled[m]
                  /\ \A p \in 1..Len(s) : handled'[Len(handled) + p] = s[p]
<1>1. IsFiniteSet(S)
  <2>1. IsFiniteSet(DOMAIN notes)
    BY NotesType, FS_Interval
  <2> QED
    BY <2>1, FS_Subset
<1>2. PICK s \in [1..Cardinality(S) -> S] : IsInOrder(s, S) /\ handled' = handled \o s
  BY DEF Handle
<1>3. s \in Seq(S)
  BY <1>1, FS_CardinalityType, IsASeq
<1>4. s \in Seq(Nat)
  <2>1. S \subseteq Nat
    BY NotesType
  <2> QED
    BY <1>3, <2>1, SeqMonotonic
<1>5. DOMAIN s = 1..Len(s) /\ Len(s) \in Nat /\ \A p \in 1..Len(s) : s[p] \in S
  BY <1>3, LenProperties
<1>6. /\ handled' \in Seq(Nat) /\ Len(handled') = Len(handled) + Len(s)
      /\ \A m \in 1..Len(handled) : handled'[m] = handled[m]
      /\ \A p \in 1..Len(s) : handled'[Len(handled) + p] = s[p]
  BY <1>2, <1>4, NotesType, ConcatProperties
<1>7. DOMAIN handled' = 1..(Len(handled) + Len(s))
  BY <1>6, LenProperties
<1> QED
  BY <1>2, <1>5, <1>6, <1>7

\* What is handled comes whole out of the cells of a read.
LEMMA WholeCells ==
    ASSUME TypeOK, NEW n \in 1..Len(noteWire), NEW i, NEW k \in 1..Pieces
    PROVE  /\ i \in Whole(SubSeq(noteWire, 1, n)) => \E p \in 1..n : noteWire[p] = <<i, k>>
           /\ i \in DOMAIN notes /\ (\E p \in 1..n : noteWire[p] = <<i, k>>)
                => i \in Touched(SubSeq(noteWire, 1, n))
<1> DEFINE first == SubSeq(noteWire, 1, n)
<1>1. DOMAIN first = 1..n /\ \A m \in 1..n : first[m] = noteWire[m]
  BY ReadCells
<1> HIDE DEF first
<1>2. i \in Whole(first) => \E p \in 1..n : noteWire[p] = <<i, k>>
  BY <1>1 DEF Whole, Occurs
<1>3. i \in DOMAIN notes /\ (\E p \in 1..n : noteWire[p] = <<i, k>>) => i \in Touched(first)
  BY <1>1 DEF Touched, Occurs
<1> QED
  BY <1>2, <1>3 DEF first

LEMMA TouchedCells ==
    ASSUME TypeOK, NEW n \in 1..Len(noteWire), NEW i \in Touched(SubSeq(noteWire, 1, n))
    PROVE  i \in DOMAIN notes /\ \E k \in 1..Pieces : \E p \in 1..n : noteWire[p] = <<i, k>>
<1>1. /\ DOMAIN SubSeq(noteWire, 1, n) = 1..n
      /\ \A m \in 1..n : SubSeq(noteWire, 1, n)[m] = noteWire[m]
  BY ReadCells
<1> QED
  BY <1>1 DEF Touched, Occurs

\* A read takes notifications behind all that was handled, and leaves what is behind them.
LEMMA ReadLoss ==
    ASSUME StreamAssumption, TypeOK, LossInv, ClientReads
    PROVE  LossInv'
<1>1. PICK n \in 1..Len(noteWire) :
        /\ HandleNotes(SubSeq(noteWire, 1, n))
        /\ noteWire' = SubSeq(noteWire, n + 1, Len(noteWire))
  BY DEF ClientReads
<1> DEFINE W == Whole(SubSeq(noteWire, 1, n))
           T == Touched(SubSeq(noteWire, 1, n))
<1>2. /\ Handle(W) /\ cut' = cut \cup (T \ W) /\ W \in SUBSET DOMAIN notes
      /\ notes' = notes /\ link' = link
  BY <1>1 DEF HandleNotes, Whole, ClientReads
<1>3. /\ DOMAIN noteWire' = 1..(Len(noteWire) - n)
      /\ \A q \in 1..(Len(noteWire) - n) : noteWire'[q] = noteWire[n + q]
  BY <1>1, ReadCells
<1>4. \A i \in W : \A k \in 1..Pieces : \E p \in 1..n : noteWire[p] = <<i, k>>
  BY WholeCells
<1>5. \A i \in T : i \in DOMAIN notes /\ \E k \in 1..Pieces : \E p \in 1..n : noteWire[p] = <<i, k>>
  BY TouchedCells
<1>6. \A i \in DOMAIN notes \ T : \A k \in 1..Pieces : ~\E p \in 1..n : noteWire[p] = <<i, k>>
  BY WholeCells
<1> HIDE DEF W, T
<1>7. PICK s : /\ IsInOrder(s, W)
               /\ DOMAIN s = 1..Len(s) /\ Len(s) \in Nat
               /\ \A p \in 1..Len(s) : s[p] \in W
               /\ DOMAIN handled' = 1..(Len(handled) + Len(s))
               /\ \A m \in 1..Len(handled) : handled'[m] = handled[m]
               /\ \A p \in 1..Len(s) : handled'[Len(handled) + p] = s[p]
  BY <1>2, HandledCells
<1>8. Len(handled) \in Nat /\ Len(noteWire) \in Nat /\ 1 \in 1..Pieces /\ Pieces \in 1..Pieces
  BY NotesType DEF StreamAssumption
<1>9. \A p \in 1..n : p \in DOMAIN noteWire
  BY NotesType
\* Each number handled is one of before or one of this read.
<1>10. ASSUME NEW m \in DOMAIN handled'
       PROVE  \/ m \in DOMAIN handled /\ handled'[m] = handled[m]
              \/ \E p \in DOMAIN s : m = Len(handled) + p /\ handled'[m] = s[p] /\ s[p] \in W
  <2>1. CASE m <= Len(handled)
    <3>1. m \in 1..Len(handled)
      BY <1>7, <1>8, <2>1
    <3> QED
      BY <1>7, <3>1, NotesType
  <2>2. CASE m > Len(handled)
    <3>1. m - Len(handled) \in 1..Len(s) /\ Len(handled) + (m - Len(handled)) = m
      BY <1>7, <1>8, <2>2
    <3> QED
      BY <1>7, <3>1
  <2> QED
    BY <1>7, <1>8, <2>1, <2>2
\* What is handled is behind what was handled.
<1>11. ASSUME NEW m \in DOMAIN handled, NEW i \in W
       PROVE  handled[m] < i
  <2>1. PICK p \in 1..n : noteWire[p] = <<i, 1>>
    BY <1>4, <1>8
  <2>2. Before(<<handled[m], Pieces>>, <<i, 1>>)
    BY <1>9, <2>1 DEF LossInv, NoteInv, HandledIsRead
  <2> QED
    BY <2>2 DEF Before, StreamAssumption
<1>12. ASSUME NEW m \in DOMAIN handled', NEW l \in DOMAIN handled', m < l
       PROVE  handled'[m] < handled'[l]
  <2>1. CASE l \in DOMAIN handled
    <3>1. m \in DOMAIN handled
      BY <1>7, <1>8, <1>12, <2>1, NotesType
    <3>2. handled'[m] = handled[m] /\ handled'[l] = handled[l]
      BY <1>7, <2>1, <3>1, NotesType
    <3> QED
      BY <1>12, <2>1, <3>1, <3>2 DEF LossInv, OnlyCutNotesAreLost
  <2>2. CASE l \notin DOMAIN handled
    <3>1. PICK q \in DOMAIN s : l = Len(handled) + q /\ handled'[l] = s[q] /\ s[q] \in W
      BY <1>10, <2>2
    <3>2. CASE m \in DOMAIN handled
      <4>1. handled'[m] = handled[m]
        BY <1>7, <3>2, NotesType
      <4> QED
        BY <1>11, <3>1, <3>2, <4>1
    <3>3. CASE m \notin DOMAIN handled
      <4>1. PICK p \in DOMAIN s : m = Len(handled) + p /\ handled'[m] = s[p]
        BY <1>10, <3>3
      <4>2. p < q
        BY <1>7, <1>8, <1>12, <3>1, <4>1
      <4> QED
        BY <1>7, <3>1, <4>1, <4>2 DEF IsInOrder
    <3> QED
      BY <3>2, <3>3
  <2> QED
    BY <2>1, <2>2
<1>13. ASSUME NEW m \in DOMAIN handled'
       PROVE  handled'[m] \notin cut'
  <2>1. CASE m \in DOMAIN handled /\ handled'[m] = handled[m]
    <3>1. handled[m] \notin cut
      BY <2>1 DEF LossInv, OnlyCutNotesAreLost
    <3>2. ASSUME handled[m] \in T PROVE FALSE
      <4>1. PICK k \in 1..Pieces, p \in 1..n : noteWire[p] = <<handled[m], k>>
        BY <1>5, <3>2
      <4>2. Before(<<handled[m], Pieces>>, <<handled[m], k>>)
        BY <1>9, <2>1, <4>1 DEF LossInv, NoteInv, HandledIsRead
      <4>3. handled[m] \in Nat
        BY <2>1, NotesType
      <4> QED
        BY <4>2, <4>3 DEF Before, StreamAssumption
    <3> QED
      BY <1>2, <2>1, <3>1, <3>2
  <2>2. CASE handled'[m] \in W
    <3>1. handled'[m] \notin cut
      <4>1. \A k \in 1..Pieces : Occurs(<<handled'[m], k>>, noteWire)
        BY <1>4, <1>9, <2>2 DEF Occurs
      <4> QED
        BY <4>1 DEF LossInv, NoteInv, CutIsRead
    <3> QED
      BY <1>2, <2>2, <3>1
  <2> QED
    BY <1>10, <2>1, <2>2
<1>14. ASSUME NEW m \in DOMAIN handled', NEW q \in DOMAIN noteWire'
       PROVE  Before(<<handled'[m], Pieces>>, noteWire'[q])
  <2>1. n + q \in DOMAIN noteWire /\ noteWire'[q] = noteWire[n + q] /\ q >= 1
    <3>1. DOMAIN noteWire = 1..Len(noteWire)
      BY NotesType
    <3>2. q \in 1..(Len(noteWire) - n) /\ noteWire'[q] = noteWire[n + q]
      BY <1>3
    <3>3. n + q \in 1..Len(noteWire) /\ q >= 1
      BY <1>8, <3>2
    <3> QED
      BY <3>1, <3>2, <3>3
  <2>2. CASE m \in DOMAIN handled /\ handled'[m] = handled[m]
    BY <2>1, <2>2 DEF LossInv, NoteInv, HandledIsRead
  <2>3. CASE handled'[m] \in W
    <3>1. PICK p \in 1..n : noteWire[p] = <<handled'[m], Pieces>>
      BY <1>4, <1>8, <2>3
    <3>2. p < n + q
      BY <1>3, <1>8
    <3> QED
      BY <1>9, <2>1, <3>1, <3>2 DEF LossInv, NoteInv, NotesInOrder
  <2> QED
    BY <1>10, <2>2, <2>3
<1>15. ASSUME NEW i \in cut'
       PROVE  \E k \in 1..Pieces : ~Occurs(<<i, k>>, noteWire')
  <2>1. \A c : Occurs(c, noteWire') => \E q \in 1..(Len(noteWire) - n) : noteWire[n + q] = c
    BY <1>3 DEF Occurs
  <2>2. \A q \in 1..(Len(noteWire) - n) : n + q \in DOMAIN noteWire
    BY <1>8, NotesType
  <2>3. CASE i \in cut
    <3>1. PICK k \in 1..Pieces : ~Occurs(<<i, k>>, noteWire)
      BY <2>3 DEF LossInv, NoteInv, CutIsRead
    <3>2. ~Occurs(<<i, k>>, noteWire')
      BY <2>1, <2>2, <3>1 DEF Occurs
    <3> QED
      BY <3>2
  <2>4. CASE i \in T
    <3>1. PICK k \in 1..Pieces, p \in 1..n : noteWire[p] = <<i, k>>
      BY <1>5, <2>4
    <3>2. ASSUME NEW q \in 1..(Len(noteWire) - n), noteWire[n + q] = <<i, k>>
          PROVE  FALSE
      <4>1. p < n + q
        BY <1>8
      <4>2. Before(<<i, k>>, <<i, k>>)
        BY <1>9, <2>2, <3>1, <3>2, <4>1 DEF LossInv, NoteInv, NotesInOrder
      <4>3. i \in Nat
        BY <1>5, <2>4, NotesType
      <4> QED
        BY <4>2, <4>3 DEF Before
    <3>3. ~Occurs(<<i, k>>, noteWire')
      BY <2>1, <3>2
    <3> QED
      BY <3>3
  <2> QED
    BY <1>2, <2>3, <2>4
<1>16. NotesInOrder'
  <2> SUFFICES ASSUME NEW m \in 1..(Len(noteWire) - n), NEW l \in 1..(Len(noteWire) - n), m < l
               PROVE  Before(noteWire[n + m], noteWire[n + l])
    BY <1>3 DEF NotesInOrder
  <2>1. n + m \in DOMAIN noteWire /\ n + l \in DOMAIN noteWire /\ n + m < n + l
    BY <1>8, NotesType
  <2> QED
    BY <2>1 DEF LossInv, NoteInv, NotesInOrder
<1>17. ASSUME link = "open", NEW i \in DOMAIN notes \ cut'
       PROVE  Occurs(i, handled') \/ \A k \in 1..Pieces : Occurs(<<i, k>>, noteWire')
  <2>1. CASE i \in W
    <3>1. PICK p \in DOMAIN s : s[p] = i
      BY <1>7, <2>1 DEF IsInOrder
    <3>2. Len(handled) + p \in DOMAIN handled' /\ handled'[Len(handled) + p] = i
      BY <1>7, <1>8, <3>1
    <3> QED
      BY <3>2 DEF Occurs
  <2>2. CASE i \notin W
    <3>1. i \notin cut /\ i \notin T
      BY <1>2, <2>2
    <3>2. CASE Occurs(i, handled)
      <4>1. PICK m \in DOMAIN handled : handled[m] = i
        BY <3>2 DEF Occurs
      <4>2. m \in DOMAIN handled' /\ handled'[m] = i
        BY <1>7, <1>8, <4>1, NotesType
      <4> QED
        BY <4>2 DEF Occurs
    <3>3. CASE \A k \in 1..Pieces : Occurs(<<i, k>>, noteWire)
      <4> SUFFICES ASSUME NEW k \in 1..Pieces
                   PROVE  Occurs(<<i, k>>, noteWire')
        OBVIOUS
      <4>1. PICK p \in DOMAIN noteWire : noteWire[p] = <<i, k>>
        BY <3>3 DEF Occurs
      <4>2. p \notin 1..n
        BY <1>6, <3>1, <4>1
      <4>3. p - n \in 1..(Len(noteWire) - n) /\ n + (p - n) = p
        BY <1>8, <4>2, NotesType
      <4>4. p - n \in DOMAIN noteWire' /\ noteWire'[p - n] = <<i, k>>
        BY <1>3, <4>1, <4>3
      <4> QED
        BY <4>4 DEF Occurs
    <3> QED
      BY <1>17, <3>1, <3>2, <3>3 DEF LossInv, OnlyCutNotesAreLost
  <2> QED
    BY <2>1, <2>2
<1>18. NoteInv'
  BY <1>14, <1>15, <1>16 DEF NoteInv, HandledIsRead, CutIsRead
<1>19. OnlyCutNotesAreLost'
  BY <1>2, <1>12, <1>13, <1>17 DEF OnlyCutNotesAreLost
<1> QED
  BY <1>18, <1>19 DEF LossInv

\* What is written is behind all that comes, and has not been read.
LEMMA NotifyLoss ==
    ASSUME StreamAssumption, TypeOK, LossInv, NEW word, Notify(word),
           UNCHANGED <<link, handled, cut>>
    PROVE  LossInv'
<1>1. link' = link /\ handled' = handled /\ cut' = cut
  OBVIOUS
<1>2. Len(notes) \in Nat /\ Len(noteWire) \in Nat /\ Width \in Nat \ {0, 1}
  BY NotesType, WidthType
<1>3. DOMAIN notes = 1..Len(notes) /\ DOMAIN notes' = 1..(Len(notes) + 1)
  <2>1. notes \in Seq(Notes) /\ notes' = Append(notes, word)
    BY DEF TypeOK, Notify
  <2> QED
    BY <2>1, NotesType
<1>4. \A m \in DOMAIN handled : handled[m] \in 1..Len(notes)
  BY NotesType
<1>5. cut \subseteq 1..Len(notes)
  BY <1>3 DEF TypeOK
<1>6. CASE link # "open"
  <2>1. noteWire' = noteWire
    BY <1>6 DEF Notify
  <2>2. NoteInv'
    BY <1>1, <2>1 DEF LossInv, NoteInv, NotesInOrder, HandledIsRead, CutIsRead
  <2>3. OnlyCutNotesAreLost'
    BY <1>1, <1>6 DEF LossInv, OnlyCutNotesAreLost
  <2> QED
    BY <2>2, <2>3 DEF LossInv
<1>7. CASE link = "open"
  <2>1. /\ DOMAIN noteWire' = 1..(Len(noteWire) + Width)
        /\ \A n \in 1..Len(noteWire) : noteWire'[n] = noteWire[n]
        /\ \A k \in 1..Width : noteWire'[Len(noteWire) + k] = <<Len(notes) + 1, k>>
    BY <1>7, WrittenCells DEF Notify
  \* Each cell was there before, or is one of the new line.
  <2>2. ASSUME NEW n \in DOMAIN noteWire'
        PROVE  \/ n \in DOMAIN noteWire /\ noteWire'[n] = noteWire[n]
               \/ \E k \in 1..Width : n = Len(noteWire) + k /\ noteWire'[n] = <<Len(notes) + 1, k>>
    <3>1. CASE n <= Len(noteWire)
      <4>1. n \in 1..Len(noteWire)
        BY <1>2, <2>1, <3>1
      <4> QED
        BY <2>1, <4>1, NotesType
    <3>2. CASE n > Len(noteWire)
      <4>1. n - Len(noteWire) \in 1..Width /\ n = Len(noteWire) + (n - Len(noteWire))
        BY <1>2, <2>1, <3>2
      <4> QED
        BY <2>1, <4>1
    <3> QED
      BY <1>2, <2>1, <3>1, <3>2
  <2>3. \A n \in DOMAIN noteWire : noteWire[n][1] \in 1..Len(notes) /\ n \in 1..Len(noteWire)
    BY NotesType
  <2>4. ASSUME NEW m \in DOMAIN noteWire', NEW n \in DOMAIN noteWire', m < n
        PROVE  Before(noteWire'[m], noteWire'[n])
    <3>1. CASE n \in DOMAIN noteWire /\ noteWire'[n] = noteWire[n]
      <4>1. m \in DOMAIN noteWire
        BY <1>2, <2>1, <2>4, <3>1, NotesType
      <4>2. noteWire'[m] = noteWire[m]
        BY <2>1, <2>3, <4>1
      <4> QED
        BY <2>4, <3>1, <4>1, <4>2 DEF LossInv, NoteInv, NotesInOrder
    <3>2. ASSUME NEW l \in 1..Width, n = Len(noteWire) + l, noteWire'[n] = <<Len(notes) + 1, l>>
          PROVE  Before(noteWire'[m], noteWire'[n])
      <4>1. CASE m \in DOMAIN noteWire /\ noteWire'[m] = noteWire[m]
        <5>1. noteWire[m][1] < Len(notes) + 1
          BY <1>2, <2>3, <4>1
        <5> QED
          BY <3>2, <4>1, <5>1 DEF Before
      <4>2. ASSUME NEW k \in 1..Width, m = Len(noteWire) + k, noteWire'[m] = <<Len(notes) + 1, k>>
            PROVE  Before(noteWire'[m], noteWire'[n])
        <5>1. k < l
          BY <1>2, <2>4, <3>2, <4>2
        <5> QED
          BY <3>2, <4>2, <5>1 DEF Before
      <4> QED
        BY <2>2, <4>1, <4>2
    <3> QED
      BY <2>2, <3>1, <3>2
  <2>5. ASSUME NEW m \in DOMAIN handled, NEW n \in DOMAIN noteWire'
        PROVE  Before(<<handled[m], Pieces>>, noteWire'[n])
    <3>1. CASE n \in DOMAIN noteWire /\ noteWire'[n] = noteWire[n]
      BY <3>1 DEF LossInv, NoteInv, HandledIsRead
    <3>2. ASSUME NEW k \in 1..Width, noteWire'[n] = <<Len(notes) + 1, k>>
          PROVE  Before(<<handled[m], Pieces>>, noteWire'[n])
      <4>1. handled[m] < Len(notes) + 1
        BY <1>2, <1>4
      <4> QED
        BY <3>2, <4>1 DEF Before
    <3> QED
      BY <2>2, <3>1, <3>2
  <2>6. ASSUME NEW i \in 1..Len(notes), NEW k \in 1..Pieces
        PROVE  Occurs(<<i, k>>, noteWire') <=> Occurs(<<i, k>>, noteWire)
    <3>1. ASSUME Occurs(<<i, k>>, noteWire') PROVE Occurs(<<i, k>>, noteWire)
      <4>1. PICK n \in DOMAIN noteWire' : noteWire'[n] = <<i, k>>
        BY <3>1 DEF Occurs
      <4>2. n \in DOMAIN noteWire /\ noteWire'[n] = noteWire[n]
        <5>1. i # Len(notes) + 1
          BY <1>2
        <5> QED
          BY <2>2, <4>1, <5>1
      <4> QED
        BY <4>1, <4>2 DEF Occurs
    <3>2. ASSUME Occurs(<<i, k>>, noteWire) PROVE Occurs(<<i, k>>, noteWire')
      <4>1. PICK n \in DOMAIN noteWire : noteWire[n] = <<i, k>>
        BY <3>2 DEF Occurs
      <4>2. n \in DOMAIN noteWire' /\ noteWire'[n] = noteWire[n]
        BY <1>2, <2>1, <2>3, <4>1
      <4> QED
        BY <4>1, <4>2 DEF Occurs
    <3> QED
      BY <3>1, <3>2
  <2>7. ASSUME NEW k \in 1..Pieces
        PROVE  Occurs(<<Len(notes) + 1, k>>, noteWire')
    <3>1. k \in 1..Width
      BY <1>2, WidthType
    <3>2. Len(noteWire) + k \in DOMAIN noteWire'
      BY <1>2, <2>1, <3>1
    <3> QED
      BY <2>1, <3>1, <3>2 DEF Occurs
  <2>8. NoteInv'
    <3>1. NotesInOrder'
      BY <2>4 DEF NotesInOrder
    <3>2. HandledIsRead'
      BY <1>1, <2>5 DEF HandledIsRead
    <3>3. CutIsRead'
      BY <1>1, <1>5, <2>6 DEF LossInv, NoteInv, CutIsRead
    <3> QED
      BY <3>1, <3>2, <3>3 DEF NoteInv
  <2>9. ASSUME NEW i \in DOMAIN notes' \ cut
        PROVE  Occurs(i, handled) \/ \A k \in 1..Pieces : Occurs(<<i, k>>, noteWire')
    <3>1. CASE i = Len(notes) + 1
      BY <2>7, <3>1
    <3>2. CASE i \in 1..Len(notes)
      BY <1>3, <1>7, <2>6, <3>2 DEF LossInv, OnlyCutNotesAreLost
    <3>3. i = Len(notes) + 1 \/ i \in 1..Len(notes)
      BY <1>2, <1>3
    <3> QED
      BY <3>1, <3>2, <3>3
  <2>10. OnlyCutNotesAreLost'
    BY <1>1, <2>9 DEF LossInv, OnlyCutNotesAreLost
  <2> QED
    BY <2>8, <2>10 DEF LossInv
<1> QED
  BY <1>6, <1>7

LEMMA LossStep ==
    ASSUME StreamAssumption, TypeOK, NoneForTheDead, LossInv, [Next]_vars
    PROVE  LossInv'
<1>1. ASSUME UNCHANGED <<notes, noteWire, link, handled, cut>>
      PROVE  LossInv'
  <2>1. NoteInv'
    BY <1>1 DEF LossInv, NoteInv, NotesInOrder, HandledIsRead, CutIsRead
  <2>2. OnlyCutNotesAreLost'
    BY <1>1 DEF LossInv, OnlyCutNotesAreLost
  <2> QED
    BY <2>1, <2>2 DEF LossInv
<1>2. CASE \E c \in Commands : SendCommand(c)
  BY <1>1, <1>2 DEF SendCommand
<1>3. CASE ServiceReads
  BY <1>1, <1>3 DEF ServiceReads, clientVars
<1>4. CASE Carry
  <2>1. UNCHANGED <<link, handled, cut>>
    BY <1>4 DEF Carry, clientVars
  <2>2. UNCHANGED <<notes, noteWire>> \/ Notify(m_state)
    BY <1>4 DEF Carry
  <2> QED
    BY <1>1, <2>1, <2>2, NotifyLoss
<1>5. CASE \E s \in VpnStates : VpnStateChanged(s)
  BY <1>5, NotifyLoss DEF VpnStateChanged, clientVars
<1>6. CASE OtherNote
  BY <1>6, NotifyLoss DEF OtherNote, clientVars
<1>7. CASE ClientReads
  BY <1>7, ReadLoss
<1>8. CASE ServiceDies
  <2>1. PICK n \in 0..Len(noteWire) : noteWire' = SubSeq(noteWire, 1, n)
    BY <1>8 DEF ServiceDies
  <2>2. /\ handled' = handled /\ cut' = cut /\ link' = "noService"
    BY <1>8 DEF ServiceDies, clientVars
  <2>3. DOMAIN noteWire' = 1..n /\ \A m \in 1..n : noteWire'[m] = noteWire[m]
    BY <2>1, LeftCells
  <2>4. \A m \in 1..n : m \in DOMAIN noteWire
    BY NotesType
  <2>5. NotesInOrder'
    BY <2>3, <2>4 DEF LossInv, NoteInv, NotesInOrder
  <2>6. HandledIsRead'
    BY <2>2, <2>3, <2>4 DEF LossInv, NoteInv, HandledIsRead
  <2>7. CutIsRead'
    <3>1. \A c : Occurs(c, noteWire') => Occurs(c, noteWire)
      BY <2>3, <2>4 DEF Occurs
    <3> QED
      BY <2>2, <3>1 DEF LossInv, NoteInv, CutIsRead
  <2>8. OnlyCutNotesAreLost'
    BY <2>2 DEF LossInv, OnlyCutNotesAreLost
  <2> QED
    BY <2>5, <2>6, <2>7, <2>8 DEF LossInv, NoteInv
<1>9. CASE ClientDies
  <2>1. noteWire' = <<>> /\ handled' = handled /\ cut' = cut /\ link' = "noClient"
    BY <1>9 DEF ClientDies
  <2>2. DOMAIN noteWire' = {}
    BY <2>1
  <2>3. 1 \in 1..Pieces
    BY DEF StreamAssumption
  <2>4. NoteInv'
    BY <2>1, <2>2, <2>3 DEF NoteInv, NotesInOrder, HandledIsRead, CutIsRead, Occurs
  <2>5. OnlyCutNotesAreLost'
    BY <2>1 DEF LossInv, OnlyCutNotesAreLost
  <2> QED
    BY <2>4, <2>5 DEF LossInv
<1>10. CASE Connect
  <2>1. /\ notes' = <<>> /\ handled' = <<>> /\ cut' = {} /\ noteWire' = noteWire
    BY <1>10 DEF Connect
  <2>2. noteWire' = <<>>
    BY <1>10, <2>1 DEF Connect, NoneForTheDead
  <2>3. DOMAIN noteWire' = {} /\ DOMAIN handled' = {} /\ DOMAIN notes' = {}
    BY <2>1, <2>2
  <2>4. NoteInv'
    BY <2>1, <2>3 DEF NoteInv, NotesInOrder, HandledIsRead, CutIsRead
  <2>5. OnlyCutNotesAreLost'
    BY <2>3 DEF OnlyCutNotesAreLost
  <2> QED
    BY <2>4, <2>5 DEF LossInv
<1>11. CASE UNCHANGED vars
  BY <1>1, <1>11 DEF vars, clientVars
<1> QED
  BY <1>2, <1>3, <1>4, <1>5, <1>6, <1>7, <1>8, <1>9, <1>10, <1>11 DEF Next

LEMMA LossInit == Init => LossInv
<1> SUFFICES ASSUME Init PROVE LossInv
  OBVIOUS
<1>1. DOMAIN noteWire = {} /\ DOMAIN handled = {} /\ DOMAIN notes = {} /\ cut = {}
  BY DEF Init
<1> QED
  BY <1>1 DEF LossInv, NoteInv, NotesInOrder, HandledIsRead, CutIsRead, OnlyCutNotesAreLost

LEMMA LossInvariant == Spec => []LossInv
<1>1. LossInv /\ (TypeOK /\ NoneForTheDead) /\ [Next]_vars => LossInv'
  BY LossStep, StreamAssumption
<1> QED
  BY <1>1, LossInit, StreamInvariant, PTL DEF Spec

\* The application handles no notification twice or before an earlier one, and loses
\* those alone, of a connection that lasts, that one of its reads ended in.
THEOREM LossesAreCuts == Spec => []OnlyCutNotesAreLost
<1>1. LossInv => OnlyCutNotesAreLost
  BY DEF LossInv
<1> QED
  BY <1>1, LossInvariant, PTL

-----------------------------------------------------------------------------
(* What is shown.                                                          *)

\* The last state of more notifications, of which the new one is no state.
LEMMA ToldStep ==
    ASSUME StreamAssumption, TypeOK, ToldLast, NEW word \in Notes, Notify(word),
           m_state' \in VpnStates,
           word \in VpnStates => m_state' = word,
           word = "other" => m_state' = m_state
    PROVE  ToldLast'
<1>1. /\ Len(notes) \in Nat /\ DOMAIN notes = 1..Len(notes)
      /\ DOMAIN notes' = 1..(Len(notes) + 1)
      /\ \A i \in 1..Len(notes) : notes'[i] = notes[i]
      /\ notes'[Len(notes) + 1] = word
  <2>1. notes \in Seq(Notes) /\ notes' = Append(notes, word)
    BY DEF TypeOK, Notify
  <2> QED
    BY <2>1, AppendProperties, LenProperties
<1> SUFFICES ASSUME NEW i \in DOMAIN notes', notes'[i] \in VpnStates,
                    \A j \in DOMAIN notes' : notes'[j] \in VpnStates => j <= i
             PROVE  notes'[i] = m_state'
  BY DEF ToldLast, IsLastState, IsState
<1>2. CASE word \in VpnStates
  <2>1. Len(notes) + 1 \in DOMAIN notes'
    BY <1>1
  <2>2. i = Len(notes) + 1
    BY <1>1, <1>2, <2>1
  <2> QED
    BY <1>1, <1>2, <2>2
<1>3. CASE word \notin VpnStates
  <2>1. word = "other"
    BY <1>3 DEF Notes
  <2>2. i \in 1..Len(notes)
    <3>1. i # Len(notes) + 1
      BY <1>1, <1>3
    <3> QED
      BY <1>1, <3>1
  <2>3. IsLastState(i, DOMAIN notes)
    <3>1. \A j \in DOMAIN notes : j \in DOMAIN notes'
      BY <1>1
    <3> QED
      BY <1>1, <2>2, <3>1 DEF IsLastState, IsState
  <2> QED
    BY <1>1, <2>1, <2>2, <2>3 DEF ToldLast
<1> QED
  BY <1>2, <1>3

\* What a read shows is the last state of all that is handled then.
LEMMA ReadShown ==
    ASSUME StreamAssumption, TypeOK, LossInv, ShownLast, ClientReads
    PROVE  ShownLast'
<1>1. PICK n \in 1..Len(noteWire) : HandleNotes(SubSeq(noteWire, 1, n))
  BY DEF ClientReads
<1> DEFINE W == Whole(SubSeq(noteWire, 1, n))
<1>2. Handle(W) /\ W \in SUBSET DOMAIN notes /\ notes' = notes /\ link' = link /\ link # "noClient"
  BY <1>1 DEF HandleNotes, Whole, ClientReads
<1>3. \A i \in W : \E p \in 1..n : noteWire[p] = <<i, 1>>
  <2>1. 1 \in 1..Pieces
    BY DEF StreamAssumption
  <2>2. \A i \in W : \A k \in 1..Pieces : \E p \in 1..n : noteWire[p] = <<i, k>>
    BY WholeCells
  <2> QED
    BY <2>1, <2>2
<1> HIDE DEF W
<1>4. PICK s : /\ IsInOrder(s, W)
               /\ DOMAIN s = 1..Len(s) /\ Len(s) \in Nat
               /\ \A p \in 1..Len(s) : s[p] \in W
               /\ DOMAIN handled' = 1..(Len(handled) + Len(s))
               /\ \A m \in 1..Len(handled) : handled'[m] = handled[m]
               /\ \A p \in 1..Len(s) : handled'[Len(handled) + p] = s[p]
  BY <1>2, HandledCells
<1>5. Len(handled) \in Nat /\ DOMAIN handled = 1..Len(handled)
  BY NotesType
<1>6. HandledNotes' = HandledNotes \cup W
  <2>1. ASSUME NEW i \in DOMAIN notes, Occurs(i, handled')
        PROVE  Occurs(i, handled) \/ i \in W
    <3>1. PICK m \in DOMAIN handled' : handled'[m] = i
      BY <2>1 DEF Occurs
    <3>2. CASE m \in DOMAIN handled
      BY <1>4, <1>5, <3>1, <3>2 DEF Occurs
    <3>3. CASE m \notin DOMAIN handled
      <4>1. m - Len(handled) \in 1..Len(s) /\ Len(handled) + (m - Len(handled)) = m
        BY <1>4, <1>5, <3>3
      <4> QED
        BY <1>4, <3>1, <4>1
    <3> QED
      BY <3>2, <3>3
  <2>2. ASSUME NEW i \in DOMAIN notes, Occurs(i, handled)
        PROVE  Occurs(i, handled')
    <3>1. PICK m \in DOMAIN handled : handled[m] = i
      BY <2>2 DEF Occurs
    <3>2. m \in DOMAIN handled' /\ handled'[m] = i
      BY <1>4, <1>5, <3>1
    <3> QED
      BY <3>2 DEF Occurs
  <2>3. ASSUME NEW i \in W
        PROVE  Occurs(i, handled')
    <3>1. PICK p \in DOMAIN s : s[p] = i
      BY <1>4 DEF IsInOrder
    <3>2. Len(handled) + p \in DOMAIN handled' /\ handled'[Len(handled) + p] = i
      BY <1>4, <1>5, <3>1
    <3> QED
      BY <3>2 DEF Occurs
  <2> QED
    BY <1>2, <2>1, <2>2, <2>3 DEF HandledNotes
\* All of it is behind what was handled before.
<1>7. ASSUME NEW h \in HandledNotes, NEW i \in W
      PROVE  h < i
  <2>1. PICK m \in DOMAIN handled : handled[m] = h
    BY DEF HandledNotes, Occurs
  <2>2. PICK p \in 1..n : noteWire[p] = <<i, 1>>
    BY <1>3
  <2>3. p \in DOMAIN noteWire
    BY NotesType
  <2>4. Before(<<h, Pieces>>, <<i, 1>>)
    BY <2>1, <2>2, <2>3 DEF LossInv, NoteInv, HandledIsRead
  <2> QED
    BY <2>4 DEF Before, StreamAssumption
<1>8. DOMAIN notes \subseteq Nat
  BY NotesType
<1>9. W \subseteq Nat /\ HandledNotes \subseteq Nat
  BY <1>2, <1>8 DEF HandledNotes
<1> SUFFICES ASSUME NEW i \in HandledNotes \cup W, notes[i] \in VpnStates,
                    \A j \in HandledNotes \cup W : notes[j] \in VpnStates => j <= i
             PROVE  mState' \in {notes[i], "Disconnecting"}
  BY <1>2, <1>6 DEF ShownLast, IsLastState, IsState
<1>10. CASE mState' = mState /\ \A j \in W : notes[j] \notin VpnStates
  <2>1. i \in HandledNotes /\ i \in DOMAIN notes
    BY <1>10 DEF HandledNotes
  <2>2. IsLastState(i, HandledNotes)
    BY <2>1 DEF IsLastState, IsState
  <2> QED
    BY <1>2, <1>10, <2>1, <2>2 DEF ShownLast
<1>11. ASSUME NEW l \in W, IsLastState(l, W), mState' = notes[l]
       PROVE  mState' \in {notes[i], "Disconnecting"}
  <2>1. l <= i
    BY <1>11 DEF IsLastState, IsState
  <2>2. i \notin HandledNotes
    <3>1. ASSUME i \in HandledNotes PROVE FALSE
      <4>1. i < l
        BY <1>7, <3>1
      <4> QED
        BY <1>9, <2>1, <4>1
    <3> QED
      BY <3>1
  <2>3. i <= l
    BY <1>11, <2>2 DEF IsLastState, IsState
  <2>4. i = l
    BY <1>9, <2>1, <2>3
  <2> QED
    BY <1>11, <2>4
<1> QED
  BY <1>2, <1>10, <1>11 DEF Handle, IsState

LEMMA ShownStep ==
    ASSUME StreamAssumption, TypeOK, LossInv, ShownInv, [Next]_vars
    PROVE  ShownInv'
<1>1. ASSUME UNCHANGED <<notes, m_state>> PROVE ToldLast'
  BY <1>1 DEF ShownInv, ToldLast, IsLastState, IsState
<1>2. ASSUME UNCHANGED <<notes, handled, link, mState, m_state>> PROVE ShownInv'
  <2>1. ToldLast'
    BY <1>1, <1>2
  <2>2. HandledNotes' = HandledNotes
    BY <1>2 DEF HandledNotes
  <2>3. ShownLast'
    BY <1>2, <2>2 DEF ShownInv, ShownLast, IsLastState, IsState
  <2> QED
    BY <2>1, <2>3 DEF ShownInv
\* Of more notifications, those handled are the same.
<1>3. ASSUME NEW word, Notify(word), UNCHANGED <<link, handled, mState>>
      PROVE  ShownLast'
  <2>1. /\ Len(notes) \in Nat /\ DOMAIN notes = 1..Len(notes)
        /\ DOMAIN notes' = 1..(Len(notes) + 1)
        /\ \A i \in 1..Len(notes) : notes'[i] = notes[i]
    <3>1. notes \in Seq(Notes) /\ notes' = Append(notes, word)
      BY <1>3 DEF TypeOK, Notify
    <3> QED
      BY <3>1, LenProperties
  <2>2. \A m \in DOMAIN handled : handled[m] \in DOMAIN notes
    BY NotesType
  <2>3. HandledNotes' = HandledNotes
    BY <1>3, <2>1, <2>2 DEF HandledNotes, Occurs
  <2>4. \A i \in HandledNotes : i \in DOMAIN notes /\ notes'[i] = notes[i]
    BY <2>1 DEF HandledNotes
  <2> QED
    BY <1>3, <2>3, <2>4 DEF ShownInv, ShownLast, IsLastState, IsState
<1>4. ASSUME UNCHANGED <<notes, handled>>, link' = link \/ (link' = "noService" /\ link = "open"),
             mState' = mState \/ mState' = "Disconnecting"
      PROVE  ShownLast'
  <2>1. HandledNotes' = HandledNotes
    BY <1>4 DEF HandledNotes
  <2> QED
    BY <1>4, <2>1 DEF ShownInv, ShownLast, IsLastState, IsState
<1>5. ASSUME NEW c \in Commands, SendCommand(c)
      PROVE  ShownInv'
  BY <1>1, <1>4, <1>5 DEF SendCommand, serviceVars, ShownInv
<1>6. CASE ServiceReads
  BY <1>2, <1>6 DEF ServiceReads, clientVars
<1>7. CASE Carry
  <2>1. UNCHANGED <<link, handled, mState, m_state>>
    BY <1>7 DEF Carry, clientVars
  <2>2. CASE UNCHANGED <<notes, noteWire>>
    BY <1>2, <2>1, <2>2
  <2>3. CASE Notify(m_state)
    <3>1. m_state \in VpnStates /\ m_state \in Notes /\ m_state # "other"
      BY DEF TypeOK, Notes, StreamAssumption
    <3>2. ToldLast'
      BY <2>1, <2>3, <3>1, ToldStep DEF ShownInv
    <3> QED
      BY <1>3, <2>1, <2>3, <3>2 DEF ShownInv
  <2> QED
    BY <1>7, <2>2, <2>3 DEF Carry
<1>8. ASSUME NEW s \in VpnStates, VpnStateChanged(s)
      PROVE  ShownInv'
  <2>1. UNCHANGED <<link, handled, mState>> /\ Notify(s) /\ m_state' = s
    BY <1>8 DEF VpnStateChanged, clientVars
  <2>2. s \in Notes /\ s # "other"
    BY DEF Notes, StreamAssumption
  <2>3. ToldLast'
    BY <2>1, <2>2, ToldStep DEF ShownInv
  <2> QED
    BY <1>3, <2>1, <2>3 DEF ShownInv
<1>9. CASE OtherNote
  <2>1. UNCHANGED <<link, handled, mState, m_state>> /\ Notify("other")
    BY <1>9 DEF OtherNote, clientVars, serviceVars
  <2>2. "other" \in Notes /\ "other" \notin VpnStates /\ m_state \in VpnStates
    BY DEF Notes, StreamAssumption, TypeOK
  <2>3. ToldLast'
    BY <2>1, <2>2, ToldStep DEF ShownInv
  <2> QED
    BY <1>3, <2>1, <2>3 DEF ShownInv
<1>10. CASE ClientReads
  <2>1. ToldLast'
    BY <1>1, <1>10 DEF ClientReads, serviceVars
  <2> QED
    BY <1>10, <2>1, ReadShown DEF ShownInv
<1>11. CASE ServiceDies
  BY <1>1, <1>4, <1>11 DEF ServiceDies, clientVars, ShownInv
<1>12. CASE ClientDies
  <2>1. ToldLast'
    BY <1>1, <1>12 DEF ClientDies, serviceVars
  <2> QED
    BY <1>12, <2>1 DEF ClientDies, ShownInv, ShownLast
<1>13. CASE Connect
  <2>1. DOMAIN notes' = {}
    BY <1>13 DEF Connect
  <2> QED
    BY <2>1 DEF ShownInv, ToldLast, ShownLast
<1>14. CASE UNCHANGED vars
  BY <1>14, <1>2 DEF vars, clientVars, serviceVars
<1> QED
  BY <1>5, <1>6, <1>7, <1>8, <1>9, <1>10, <1>11, <1>12, <1>13, <1>14 DEF Next

\* The application shows the state of the manager once all is read, unless the last
\* notification of it was cut or the user has asked for a disconnect.
THEOREM ShownIsUncut == Spec => []ShownUnlessCut
<1>1. Init => ShownInv
  <2> SUFFICES ASSUME Init PROVE ShownInv
    OBVIOUS
  <2>1. DOMAIN notes = {}
    BY DEF Init
  <2> QED
    BY <2>1 DEF ShownInv, ToldLast, ShownLast
<1>2. ShownInv /\ LossInv /\ TypeOK /\ [Next]_vars => ShownInv'
  BY ShownStep, StreamAssumption
<1>3. ShownInv /\ LossInv /\ TypeOK => ShownUnlessCut
  <2> SUFFICES ASSUME ShownInv, LossInv, TypeOK, link = "open", noteWire = <<>>,
                      NEW i \in DOMAIN notes \ cut, IsLastState(i, DOMAIN notes)
               PROVE  mState \in {m_state, "Disconnecting"}
    BY DEF ShownUnlessCut
  <2>1. notes[i] = m_state
    BY DEF ShownInv, ToldLast
  <2>2. i \in HandledNotes
    <3>1. ~Occurs(<<i, 1>>, noteWire)
      BY DEF Occurs
    <3>2. 1 \in 1..Pieces
      BY StreamAssumption DEF StreamAssumption
    <3> QED
      BY <3>1, <3>2 DEF LossInv, OnlyCutNotesAreLost, HandledNotes
  <2>3. IsLastState(i, HandledNotes)
    BY <2>2 DEF IsLastState, HandledNotes
  <2> QED
    BY <2>1, <2>2, <2>3 DEF ShownInv, ShownLast
<1> QED
  BY <1>1, <1>2, <1>3, StreamTypeCorrect, LossInvariant, PTL DEF Spec

=============================================================================
