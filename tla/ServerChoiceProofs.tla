------------------------- MODULE ServerChoiceProofs -------------------------
(***************************************************************************)
(* For any set of servers, any lists of them and any number of encryptions:*)
(* the type invariant of ServerChoice, that the entries of the tray menu   *)
(* are true, that the choice is kept, that the card shows it, and that a   *)
(* jump moves.  All of it rests on an index naming one server of a list    *)
(* (AtIndex), and on the indices of a list being those below the number of *)
(* its servers (AtBelow): a hub is refused, and so mislaid, only when there*)
(* are not as many servers.  A choice is kept because what is saved for its*)
(* encryption names it in the list it was chosen from, whatever list is    *)
(* used meanwhile (ChosenIsSaved).  A card that is up to date shows what is*)
(* saved as well as what that names (CardInv).                             *)
(***************************************************************************)
EXTENDS ServerChoice, FiniteSetTheorems, TLAPS

\* What is saved for the encryption of the choice names it in its list.
ChosenIsSaved ==
    choice.server # NoServer =>
        mislaid \/ At(choice.list, saved[choice.enc]) = choice.server

\* A card that is up to date was drawn with the index that is saved.
CardInv ==
    ~crashed /\ card # NoEntry /\ ~undrawn =>
        card.ix = saved[encryption] /\ card.server = Asked

ChoiceInv == TypeOK /\ MenuIsTrue /\ ChosenIsSaved /\ CardInv

-----------------------------------------------------------------------------
(* Indices.                                                                *)

\* The servers before another in a list are a finite set, without that one.
LEMMA Before ==
  ASSUME NEW list \in SUBSET Servers, NEW s \in list
  PROVE  /\ IsFiniteSet({t \in list : t < s})
         /\ IndexOf(list, s) \in Nat
         /\ IndexOf(list, s) < Cardinality(list)
         /\ IndexOf(list, s) < Cardinality(Servers)
<1> DEFINE B == {t \in list : t < s}
<1>0. s \in Servers /\ s \in Nat
  BY ChoiceAssumption
<1>1. B \in SUBSET list /\ s \notin B
  <2>1. s \notin B
    BY <1>0
  <2>2. B \subseteq list
    OBVIOUS
  <2> QED
    BY <2>1, <2>2
<1>2. IsFiniteSet(list) /\ Cardinality(list) <= Cardinality(Servers) /\ IsFiniteSet(Servers)
  BY ChoiceAssumption, FS_Subset
<1>3. /\ IsFiniteSet(B) /\ Cardinality(B) <= Cardinality(list)
      /\ Cardinality(list) = Cardinality(B) => list = B
  BY <1>1, <1>2, FS_Subset
<1>4. Cardinality(B) \in Nat /\ Cardinality(list) \in Nat /\ Cardinality(Servers) \in Nat
  BY <1>2, <1>3, FS_CardinalityType
<1>5. Cardinality(B) # Cardinality(list)
  BY <1>1, <1>3
<1> HIDE DEF B
<1>6. Cardinality(B) < Cardinality(list) /\ Cardinality(B) < Cardinality(Servers)
  BY <1>2, <1>3, <1>4, <1>5
<1> QED
  BY <1>3, <1>4, <1>6 DEF IndexOf, B

\* Of two servers of a list, one comes first, and has the smaller index.
LEMMA IndexGrows ==
  ASSUME NEW list \in SUBSET Servers, NEW s \in list, NEW t \in list, s < t
  PROVE  IndexOf(list, s) # IndexOf(list, t)
<1> DEFINE B == {u \in list : u < s}
           C == {u \in list : u < t}
<1>1. \A u \in list : u \in Nat
  BY ChoiceAssumption
<1>2. B \in SUBSET C
  BY <1>1
<1>3. s \in C /\ s \notin B
  BY <1>1
<1>4. IsFiniteSet(C)
  BY Before
<1>5. Cardinality(C) = Cardinality(B) => C = B
  BY <1>2, <1>4, FS_Subset
<1> QED
  BY <1>3, <1>5 DEF IndexOf

LEMMA IndexIsOwn ==
  ASSUME NEW list \in SUBSET Servers, NEW s \in list, NEW t \in list,
         IndexOf(list, s) = IndexOf(list, t)
  PROVE  s = t
<1>1. s \in Nat /\ t \in Nat
  BY ChoiceAssumption
<1>2. ~(s < t) /\ ~(t < s)
  BY IndexGrows
<1> QED
  BY <1>1, <1>2

\* The server at the index of a server is that server.
LEMMA AtIndex ==
  ASSUME NEW list \in SUBSET Servers, NEW s \in list
  PROVE  At(list, IndexOf(list, s)) = s
<1> DEFINE t == CHOOSE u \in list : IndexOf(list, u) = IndexOf(list, s)
<1>1. t \in list /\ IndexOf(list, t) = IndexOf(list, s)
  OBVIOUS
<1>2. t = s
  BY <1>1, IndexIsOwn
<1> QED
  BY <1>2 DEF At

\* What is at an index is a server with that index, or none.
LEMMA AtHasIndex ==
  ASSUME NEW list \in SUBSET Servers, NEW ix, At(list, ix) # NoServer
  PROVE  At(list, ix) \in list /\ IndexOf(list, At(list, ix)) = ix
  BY DEF At

LEMMA AtType ==
  ASSUME NEW list \in SUBSET Servers, NEW ix
  PROVE  /\ At(list, ix) \in Servers \cup {NoServer}
         /\ At(list, ix) # NoServer =>
              ix \in 0..Cardinality(Servers) /\ ix < Cardinality(Servers) /\ ix \in Nat
<1>1. At(list, ix) \in Servers \cup {NoServer}
  BY AtHasIndex
<1>2. ASSUME At(list, ix) # NoServer
      PROVE  ix \in 0..Cardinality(Servers) /\ ix < Cardinality(Servers) /\ ix \in Nat
  <2>1. ix \in Nat /\ ix < Cardinality(Servers)
    BY <1>2, AtHasIndex, Before
  <2>2. Cardinality(Servers) \in Nat
    BY ChoiceAssumption, FS_CardinalityType
  <2> QED
    BY <2>1, <2>2
<1> QED
  BY <1>1, <1>2

\* Every index below the number of the servers of a list is that of one of them.
LEMMA AtBelow ==
  ASSUME NEW list \in SUBSET Servers, NEW ix \in Nat, ix < Cardinality(list)
  PROVE  At(list, ix) # NoServer
<1> DEFINE n == Cardinality(list)
           f == [s \in list |-> IndexOf(list, s)]
           T == 0..(n - 1)
<1>1. IsFiniteSet(list)
  BY ChoiceAssumption, FS_Subset
<1>2. n \in Nat
  BY <1>1, FS_CardinalityType
<1>3. IsFiniteSet(T) /\ Cardinality(T) = n
  <2> HIDE DEF n
  <2>1. 0 \in Int /\ n - 1 \in Int /\ n > 0
    BY <1>2 DEF n
  <2>2. IsFiniteSet(T) /\ Cardinality(T) = IF 0 > n - 1 THEN 0 ELSE (n - 1) - 0 + 1
    BY <2>1, FS_Interval
  <2> QED
    BY <1>2, <2>1, <2>2
<1>4. ASSUME NEW s \in list PROVE IndexOf(list, s) \in T
  <2>1. IndexOf(list, s) \in Nat /\ IndexOf(list, s) < n
    BY Before
  <2> QED
    BY <1>2, <2>1
<1>5. f \in Injection(list, T)
  <2>1. \A s, t \in list : f[s] = f[t] => s = t
    BY IndexIsOwn
  <2>2. f \in [list -> T]
    BY <1>4
  <2> HIDE DEF f, T
  <2>3. IsInjective(f)
    BY <2>1, <2>2 DEF IsInjective
  <2> QED
    BY <2>2, <2>3 DEF Injection
<1>6. f \in Surjection(list, T)
  BY <1>3, <1>5, FS_Injection
<1>7. ix \in T
  BY <1>2
<1>8. PICK s \in list : f[s] = ix
  BY <1>6, <1>7 DEF Surjection
<1>9. At(list, ix) = s
  BY <1>8, AtIndex
<1> QED
  BY <1>9, ChoiceAssumption

\* The entry of a server of a list leads to it.
LEMMA EntryIsTrue ==
  ASSUME NEW list \in SUBSET Servers, NEW s \in list
  PROVE  Entry(list, s) \in Entries /\ At(list, Entry(list, s).ix) = s
<1>1. At(list, IndexOf(list, s)) = s
  BY AtIndex
<1>2. s # NoServer
  BY ChoiceAssumption
<1>3. IndexOf(list, s) \in 0..Cardinality(Servers)
  BY <1>1, <1>2, AtType
<1> QED
  BY <1>1, <1>3 DEF Entry, Entries

-----------------------------------------------------------------------------
(* What the parts of a step keep.                                          *)

\* The list an index is used in.
LEMMA ShownType == ASSUME TypeOK PROVE Shown \in SUBSET Servers
  BY DEF TypeOK, Shown, ListOf

\* The menu that is made is true of the lists it is made from.
LEMMA MenuKept ==
  ASSUME TypeOK, servers' \in SUBSET Servers, hubs' \in SUBSET Servers,
         NEW e \in Encryptions,
         ConstructConnectToMenu(servers', hubs', showNodes', e)
  PROVE  menu' \subseteq Entries /\ unheard' \in BOOLEAN /\ MenuIsTrue'
<1> DEFINE list == IF showNodes' THEN servers' ELSE hubs'
<1>0. list \in SUBSET Servers /\ Shown' = list
  BY DEF Shown, ListOf
<1>1. CASE unheard' = TRUE /\ menu' = menu
  BY <1>1 DEF TypeOK, MenuIsTrue
<1>2. CASE menu' = MenuOf(list, e) /\ unheard' = FALSE
  <2>1. ASSUME NEW entry \in menu'
        PROVE  entry \in Entries /\ At(list, entry.ix) = entry.server
    <3>1. PICK s \in list : entry = Entry(list, s)
      BY <1>2, <2>1 DEF MenuOf
    <3>2. entry.server = s
      BY <3>1 DEF Entry
    <3> QED
      BY <1>0, <3>1, <3>2, EntryIsTrue
  <2> QED
    BY <1>0, <1>2, <2>1 DEF MenuIsTrue
<1> QED
  BY <1>1, <1>2 DEF ConstructConnectToMenu

\* A menu that was true stays so when nothing changes but who is logged in.
LEMMA MenuStays ==
  ASSUME MenuIsTrue, UNCHANGED <<servers, hubs, showNodes, unheard>>, menu' \subseteq menu
  PROVE  MenuIsTrue'
  BY DEF MenuIsTrue, Shown, ListOf

\* The card that is drawn shows what a request would name.
LEMMA CardKept ==
  ASSUME TypeOK, servers' \in SUBSET Servers, hubs' \in SUBSET Servers,
         NEW ix, saved'[encryption'] = ix,
         Refresh(IF showNodes' THEN servers' ELSE hubs', ix)
  PROVE  card' \in Entries \cup {NoEntry} /\ undrawn' \in BOOLEAN /\ CardInv'
<1> DEFINE list == IF showNodes' THEN servers' ELSE hubs'
<1>0. list \in SUBSET Servers /\ Asked' = At(list, ix)
  BY DEF Shown, ListOf, Asked
<1>1. CASE At(list, ix) # NoServer
  <2>1. card' = [ix |-> ix, server |-> At(list, ix)] /\ undrawn' = FALSE
    BY <1>1 DEF Refresh
  <2>2. At(list, ix) \in Servers /\ ix \in 0..Cardinality(Servers)
    BY <1>0, <1>1, AtType
  <2>3. card' \in Entries
    BY <2>1, <2>2 DEF Entries
  <2>4. card'.server = Asked' /\ card'.ix = saved'[encryption']
    BY <1>0, <2>1
  <2> QED
    BY <2>1, <2>3, <2>4 DEF CardInv
<1>2. CASE At(list, ix) = NoServer
  <2>1. undrawn' = TRUE /\ card' = card
    BY <1>2 DEF Refresh
  <2> QED
    BY <2>1 DEF TypeOK, CardInv
<1> QED
  BY <1>1, <1>2

\* A card that was right stays so when neither it nor what a request would name changes.
LEMMA CardStays ==
  ASSUME CardInv, ~crashed,
         UNCHANGED <<servers, hubs, showNodes, encryption, saved, card, undrawn>>
  PROVE  CardInv'
  BY DEF CardInv, Asked, Shown, ListOf

\* What is saved.
SavedOK == saved \in [Encryptions -> Nat]
           /\ \A e \in Encryptions : saved[e] = 0 \/ saved[e] < Cardinality(Servers)

CardOK == card \in Entries \cup {NoEntry} /\ undrawn \in BOOLEAN

MenuOK == menu \subseteq Entries /\ unheard \in BOOLEAN

ListsOK == /\ loggedIn \in BOOLEAN /\ listed \in BOOLEAN /\ (loggedIn => listed)
           /\ servers \in SUBSET Servers /\ hubs \in SUBSET Servers

SettingsOK == showNodes \in BOOLEAN /\ encryption \in Encryptions

ChoiceOK == /\ choice \in [server : Servers \cup {NoServer}, list : SUBSET Servers, enc : Encryptions]
            /\ mislaid \in BOOLEAN

LEMMA TypeParts ==
  TypeOK <=> /\ SavedOK /\ CardOK /\ MenuOK /\ ListsOK /\ SettingsOK /\ ChoiceOK
             /\ crashed \in BOOLEAN
  BY DEF TypeOK, SavedOK, CardOK, MenuOK, ListsOK, SettingsOK, ChoiceOK

LEMMA TypePartsNext ==
  ASSUME SavedOK', CardOK', MenuOK', ListsOK', SettingsOK', ChoiceOK', crashed' \in BOOLEAN
  PROVE  TypeOK'
  BY DEF TypeOK, SavedOK, CardOK, MenuOK, ListsOK, SettingsOK, ChoiceOK

LEMMA ConnectsType ==
  ASSUME NEW srv, NEW hb, NEW ix, Connects(srv, hb, ix)
  PROVE  crashed' \in BOOLEAN
<1>1. Crashes(srv, hb, ix) \in BOOLEAN
  BY DEF Crashes
<1> QED
  BY <1>1 DEF Connects

\* Nothing is chosen.
LEMMA NothingChosen ==
  ASSUME TypeOK, choice' = NoChoice, mislaid' = FALSE
  PROVE  ChoiceOK' /\ ChosenIsSaved'
<1>1. (CHOOSE e \in Encryptions : TRUE) \in Encryptions
  BY DEF TypeOK
<1>2. NoChoice.server = NoServer
  BY DEF NoChoice
<1>3. NoChoice \in [server : Servers \cup {NoServer}, list : SUBSET Servers, enc : Encryptions]
  BY <1>1 DEF NoChoice
<1> QED
  BY <1>2, <1>3 DEF ChoiceOK, ChosenIsSaved

\* setServer: an index of a server is saved, and the card is drawn for it.
LEMMA SetServerKeeps ==
  ASSUME TypeOK, CardInv, ~crashed, NEW ix, SetServer(ix),
         UNCHANGED <<servers, hubs, showNodes, encryption>>
  PROVE  /\ SavedOK' /\ CardOK' /\ CardInv'
         /\ At(servers, ix) # NoServer => saved'[encryption] = ix
<1>0. servers \in SUBSET Servers /\ hubs \in SUBSET Servers /\ encryption \in Encryptions
      /\ saved \in [Encryptions -> Nat] /\ SavedOK /\ CardOK
  BY TypeParts DEF TypeOK
<1>1. CASE At(servers, ix) # NoServer
  <2>1. saved' = [saved EXCEPT ![encryption] = ix] /\ Refresh(Shown, ix)
    BY <1>1 DEF SetServer
  <2>2. ix \in Nat /\ ix < Cardinality(Servers)
    BY <1>0, <1>1, AtType
  <2>3. saved'[encryption] = ix
    BY <1>0, <2>1
  <2>4. SavedOK'
    BY <1>0, <2>1, <2>2 DEF SavedOK
  <2>5. /\ saved'[encryption'] = ix /\ servers' \in SUBSET Servers /\ hubs' \in SUBSET Servers
        /\ Refresh(IF showNodes' THEN servers' ELSE hubs', ix)
    BY <1>0, <2>1, <2>3 DEF Shown, ListOf
  <2>6. CardOK' /\ CardInv'
    BY <2>5, CardKept DEF CardOK
  <2> QED
    BY <2>3, <2>4, <2>6
<1>2. CASE At(servers, ix) = NoServer
  <2>1. UNCHANGED <<saved, card, undrawn>>
    BY <1>2 DEF SetServer
  <2>2. SavedOK' /\ CardOK'
    BY <1>0, <2>1 DEF SavedOK, CardOK
  <2> QED
    BY <1>2, <2>1, <2>2, CardStays
<1> QED
  BY <1>1, <1>2

\* An entry is noted as chosen: it is out of date, or refused, or its index is saved.
LEMMA ChosenKeeps ==
  ASSUME TypeOK, NEW entry, entry.server \in Servers \cup {NoServer}, Chosen(entry),
         mislaid' \in BOOLEAN,
         mislaid' \/ At(Shown, saved'[encryption]) = entry.server
  PROVE  ChoiceOK' /\ ChosenIsSaved'
<1>1. choice' = [server |-> entry.server, list |-> Shown, enc |-> encryption]
  BY DEF Chosen
<1>2. Shown \in SUBSET Servers /\ encryption \in Encryptions
  BY ShownType DEF TypeOK
<1>3. ChoiceOK'
  BY <1>1, <1>2 DEF ChoiceOK
<1>4. choice'.server = entry.server /\ choice'.list = Shown /\ choice'.enc = encryption
  BY <1>1
<1>5. ChosenIsSaved'
  BY <1>4 DEF ChosenIsSaved
<1> QED
  BY <1>3, <1>5

LEMMA ChoosesKeeps ==
  ASSUME TypeOK, CardInv, ~crashed, NEW entry, NEW stale \in BOOLEAN, Chooses(entry, stale),
         entry.server \in Servers \cup {NoServer},
         stale \/ At(Shown, entry.ix) = entry.server,
         UNCHANGED <<servers, hubs, showNodes, encryption>>
  PROVE  /\ SavedOK' /\ CardOK' /\ CardInv'
         /\ ChoiceOK' /\ ChosenIsSaved'
<1>0. /\ SetServer(entry.ix) /\ Chosen(entry)
      /\ mislaid' = (stale \/ (~showNodes /\ entry.ix >= Cardinality(servers)))
  BY DEF Chooses
<1>1. /\ SavedOK' /\ CardOK' /\ CardInv'
      /\ At(servers, entry.ix) # NoServer => saved'[encryption] = entry.ix
  BY <1>0, SetServerKeeps
<1>2. CASE entry.server = NoServer
  <2>1. choice' = [server |-> NoServer, list |-> Shown, enc |-> encryption]
    BY <1>0, <1>2 DEF Chosen
  <2>2. Shown \in SUBSET Servers /\ encryption \in Encryptions
    BY ShownType DEF TypeOK
  <2>3. mislaid' \in BOOLEAN
    BY <1>0
  <2>4. ChoiceOK'
    BY <2>1, <2>2, <2>3 DEF ChoiceOK
  <2>5. choice'.server = NoServer
    BY <2>1
  <2> QED
    BY <1>1, <2>4, <2>5 DEF ChosenIsSaved
<1>3. CASE entry.server # NoServer
  <2>1. ASSUME ~mislaid'
        PROVE  At(Shown, saved'[encryption]) = entry.server
    <3>1. At(Shown, entry.ix) = entry.server
      BY <1>0, <2>1
    <3>2. entry.ix \in Nat
      BY <1>3, <3>1, ShownType, AtType
    <3>3. servers \in SUBSET Servers /\ Cardinality(servers) \in Nat
      <4>1. servers \in SUBSET Servers
        BY DEF TypeOK
      <4>2. IsFiniteSet(servers)
        BY <4>1, ChoiceAssumption, FS_Subset
      <4> QED
        BY <4>1, <4>2, FS_CardinalityType
    <3>4. At(servers, entry.ix) # NoServer
      <4>1. CASE showNodes
        BY <1>3, <3>1, <4>1 DEF Shown, ListOf
      <4>2. CASE ~showNodes
        <5>1. ~(entry.ix >= Cardinality(servers))
          BY <1>0, <2>1, <4>2
        <5>2. entry.ix < Cardinality(servers)
          BY <3>2, <3>3, <5>1
        <5> QED
          BY <3>2, <3>3, <5>2, AtBelow
      <4> QED
        BY <4>1, <4>2
    <3> QED
      BY <1>1, <3>1, <3>4
  <2>2. mislaid' \in BOOLEAN
    BY <1>0
  <2> QED
    BY <1>0, <1>1, <2>1, <2>2, ChosenKeeps
<1> QED
  BY <1>2, <1>3

\* What is chosen is left alone.
LEMMA ChoiceStays ==
  ASSUME TypeOK, ChosenIsSaved, UNCHANGED <<saved, choice, mislaid>>
  PROVE  SavedOK' /\ ChoiceOK' /\ ChosenIsSaved'
  BY DEF TypeOK, SavedOK, ChoiceOK, ChosenIsSaved

LEMMA CardUnchanged == ASSUME TypeOK, UNCHANGED <<card, undrawn>> PROVE CardOK'
  BY DEF TypeOK, CardOK

LEMMA MenuUnchanged == ASSUME TypeOK, UNCHANGED <<menu, unheard>> PROVE MenuOK'
  BY DEF TypeOK, MenuOK

LEMMA ListsUnchanged == ASSUME TypeOK, UNCHANGED lists PROVE ListsOK'
  BY DEF TypeOK, ListsOK, lists

LEMMA SettingsUnchanged == ASSUME TypeOK, UNCHANGED <<showNodes, encryption>> PROVE SettingsOK'
  BY DEF TypeOK, SettingsOK

-----------------------------------------------------------------------------
(* The steps.                                                              *)

\* What a request leaves alone, whatever it chooses.
LEMMA RequestKeeps ==
  ASSUME ChoiceInv, UNCHANGED <<showNodes, encryption, lists, menu, unheard>>,
         crashed' \in BOOLEAN,
         SavedOK', CardOK', CardInv', ChoiceOK', ChosenIsSaved'
  PROVE  ChoiceInv'
<1>1. ListsOK' /\ MenuOK' /\ SettingsOK'
  BY ListsUnchanged, MenuUnchanged, SettingsUnchanged DEF ChoiceInv
<1>2. MenuIsTrue'
  <2>1. MenuIsTrue /\ UNCHANGED <<servers, hubs, showNodes, unheard>> /\ menu' = menu
    BY DEF ChoiceInv, lists
  <2> QED
    BY <2>1, MenuStays
<1>3. TypeOK'
  BY <1>1, TypePartsNext
<1> QED
  BY <1>2, <1>3 DEF ChoiceInv

LEMMA ChoiceInit == Init => ChoiceInv
<1> SUFFICES ASSUME Init PROVE ChoiceInv
  OBVIOUS
<1>1. SavedOK /\ MenuOK /\ ListsOK /\ SettingsOK
  BY DEF Init, SavedOK, MenuOK, ListsOK, SettingsOK
<1>2. CardOK /\ crashed \in BOOLEAN
  BY DEF Init, CardOK
<1>3. (CHOOSE e \in Encryptions : TRUE) \in Encryptions
  BY DEF Init
<1>4. ChoiceOK /\ choice.server = NoServer
  BY <1>3 DEF Init, ChoiceOK, NoChoice
<1>5. MenuIsTrue /\ ChosenIsSaved /\ CardInv
  BY <1>4 DEF Init, MenuIsTrue, ChosenIsSaved, CardInv
<1> QED
  BY <1>1, <1>2, <1>4, <1>5, TypeParts DEF ChoiceInv

\* The lists change, and what is drawn of them with them.
LEMMA LoadedKeeps ==
  ASSUME ChoiceInv, ~crashed,
         servers' \in SUBSET Servers, hubs' \in SUBSET Servers,
         UNCHANGED <<loggedIn, listed, settings, choice, mislaid>>,
         crashed' \in BOOLEAN,
         ConstructConnectToMenu(servers', hubs', showNodes, encryption),
         \/ Refresh(IF showNodes THEN servers' ELSE hubs', saved[encryption])
         \/ card' = card /\ (undrawn' = TRUE \/ (crashed' /\ undrawn' = undrawn))
  PROVE  ChoiceInv'
<1>0. /\ TypeOK /\ encryption \in Encryptions
      /\ showNodes' = showNodes /\ encryption' = encryption /\ saved' = saved
  BY DEF ChoiceInv, TypeOK, settings
<1>1. menu' \subseteq Entries /\ unheard' \in BOOLEAN /\ MenuIsTrue'
  BY <1>0, MenuKept
<1>2. CardOK' /\ CardInv'
  <2>1. CASE Refresh(IF showNodes THEN servers' ELSE hubs', saved[encryption])
    <3>1. saved'[encryption'] = saved[encryption]
      BY <1>0
    <3>2. Refresh(IF showNodes' THEN servers' ELSE hubs', saved[encryption])
      BY <1>0, <2>1
    <3> QED
      BY <1>0, <3>1, <3>2, CardKept DEF CardOK
  <2>2. CASE card' = card /\ (undrawn' = TRUE \/ (crashed' /\ undrawn' = undrawn))
    BY <1>0, <2>2 DEF TypeOK, CardOK, CardInv
  <2> QED
    BY <2>1, <2>2
<1>3. SavedOK' /\ ChoiceOK' /\ ChosenIsSaved'
  BY <1>0, ChoiceStays DEF ChoiceInv
<1>4. ListsOK' /\ MenuOK' /\ SettingsOK'
  BY <1>0, <1>1, SettingsUnchanged DEF TypeOK, ListsOK, MenuOK
<1>5. TypeOK'
  BY <1>2, <1>3, <1>4, TypePartsNext
<1> QED
  BY <1>1, <1>2, <1>3, <1>5 DEF ChoiceInv

\* A setting changes the list or the encryption.
LEMMA SettingKeeps ==
  ASSUME ChoiceInv, NEW n \in BOOLEAN, NEW e \in Encryptions,
         showNodes' = n, encryption' = e,
         ConstructConnectToMenu(servers, hubs, n, e), undrawn' = TRUE,
         UNCHANGED <<saved, lists, card, choice, mislaid, crashed>>
  PROVE  ChoiceInv'
<1>0. TypeOK /\ servers' = servers /\ hubs' = hubs
  BY DEF ChoiceInv, lists
<1>1. menu' \subseteq Entries /\ unheard' \in BOOLEAN /\ MenuIsTrue'
  <2>1. ConstructConnectToMenu(servers', hubs', showNodes', e)
    BY <1>0
  <2>2. servers' \in SUBSET Servers /\ hubs' \in SUBSET Servers
    BY <1>0 DEF TypeOK
  <2> QED
    BY <1>0, <2>1, <2>2, MenuKept
<1>2. CardOK' /\ CardInv'
  BY <1>0 DEF TypeOK, CardOK, CardInv
<1>3. SavedOK' /\ ChoiceOK' /\ ChosenIsSaved'
  BY <1>0, ChoiceStays DEF ChoiceInv
<1>4. ListsOK' /\ MenuOK' /\ SettingsOK'
  BY <1>0, <1>1, ListsUnchanged DEF MenuOK, SettingsOK
<1>5. crashed' \in BOOLEAN
  BY <1>0 DEF TypeOK
<1>6. TypeOK'
  BY <1>2, <1>3, <1>4, <1>5, TypePartsNext
<1> QED
  BY <1>1, <1>2, <1>3, <1>6 DEF ChoiceInv

LEMMA ChoiceStep == ChoiceInv /\ [Next]_vars => ChoiceInv'
<1> SUFFICES ASSUME ChoiceInv, [Next]_vars PROVE ChoiceInv'
  OBVIOUS
<1>0. /\ TypeOK /\ MenuIsTrue /\ ChosenIsSaved /\ CardInv
      /\ servers \in SUBSET Servers /\ hubs \in SUBSET Servers
      /\ showNodes \in BOOLEAN /\ encryption \in Encryptions
  BY DEF ChoiceInv, TypeOK
<1>1. CASE Login \/ Logout
  <2>1. /\ ~crashed /\ loggedIn' \in BOOLEAN /\ listed' \in BOOLEAN /\ (loggedIn' => listed')
        /\ menu' \subseteq menu
        /\ UNCHANGED <<servers, hubs, settings, card, unheard, undrawn, choice, mislaid, crashed>>
    BY <1>0, <1>1 DEF Login, Logout, drawn, TypeOK
  <2>2. UNCHANGED <<showNodes, encryption, saved>>
    BY <2>1 DEF settings
  <2>3. MenuIsTrue'
    BY <1>0, <2>1, <2>2, MenuStays
  <2>4. CardInv'
    BY <1>0, <2>1, <2>2, CardStays
  <2>5. SavedOK' /\ ChoiceOK' /\ ChosenIsSaved'
    BY <1>0, <2>1, <2>2, ChoiceStays
  <2>6. CardOK' /\ SettingsOK'
    BY <1>0, <2>1, <2>2, CardUnchanged, SettingsUnchanged
  <2>7. ListsOK' /\ MenuOK' /\ crashed' \in BOOLEAN
    BY <1>0, <2>1 DEF TypeOK, ListsOK, MenuOK
  <2>8. TypeOK'
    BY <2>5, <2>6, <2>7, TypePartsNext
  <2> QED
    BY <2>3, <2>4, <2>5, <2>8 DEF ChoiceInv
<1>2. CASE ServersLoaded
  <2>1. servers' \in SUBSET Servers /\ hubs' = hubs
    BY <1>2, ChoiceAssumption DEF ServersLoaded
  <2>2. /\ ~crashed /\ UNCHANGED <<loggedIn, listed, settings, choice, mislaid, crashed>>
        /\ ConstructConnectToMenu(servers', hubs', showNodes, encryption)
        /\ \/ Refresh(IF showNodes THEN servers' ELSE hubs', saved[encryption])
           \/ card' = card /\ undrawn' = TRUE
    BY <1>2, <2>1 DEF ServersLoaded, RefreshLoaded
  <2>3. crashed' \in BOOLEAN
    BY <1>0, <2>2 DEF TypeOK
  <2> QED
    BY <1>0, <2>1, <2>2, <2>3, LoadedKeeps
<1>3. CASE HubsLoaded
  <2>1. hubs' \in SUBSET Servers /\ servers' = servers
    BY <1>3, ChoiceAssumption DEF HubsLoaded
  <2>2. /\ ~crashed /\ UNCHANGED <<loggedIn, listed, settings, choice, mislaid>>
        /\ ConstructConnectToMenu(servers', hubs', showNodes, encryption)
        /\ \/ Refresh(IF showNodes THEN servers' ELSE hubs', saved[encryption])
           \/ card' = card /\ (undrawn' = TRUE \/ (crashed' /\ undrawn' = undrawn))
    BY <1>3, <2>1 DEF HubsLoaded, RefreshLoaded
  <2>3. crashed' \in BOOLEAN
    <3>1. CASE AutoConnect /\ loggedIn
      BY <1>3, <3>1, ConnectsType DEF HubsLoaded
    <3>2. CASE ~(AutoConnect /\ loggedIn)
      BY <1>0, <1>3, <3>2 DEF HubsLoaded, TypeOK
    <3> QED
      BY <3>1, <3>2
  <2> QED
    BY <1>0, <2>1, <2>2, <2>3, LoadedKeeps
<1>4. CASE VpnStateChanged
  <2>1. /\ ~crashed /\ Refresh(Shown, saved[encryption])
        /\ UNCHANGED <<settings, lists, menu, unheard, choice, mislaid, crashed>>
    BY <1>4 DEF VpnStateChanged
  <2>2. UNCHANGED <<showNodes, encryption, saved, servers, hubs>>
    BY <2>1 DEF settings, lists
  <2>3. CardOK' /\ CardInv'
    <3>1. Refresh(IF showNodes' THEN servers' ELSE hubs', saved[encryption])
      BY <2>1, <2>2 DEF Shown, ListOf
    <3> QED
      BY <1>0, <2>2, <3>1, CardKept DEF CardOK
  <2>4. SavedOK' /\ ChoiceOK' /\ ChosenIsSaved'
    BY <1>0, <2>1, <2>2, ChoiceStays
  <2>5. crashed' \in BOOLEAN
    BY <1>0, <2>1 DEF TypeOK
  <2> QED
    BY <2>1, <2>2, <2>3, <2>4, <2>5, RequestKeeps
<1>5. CASE SetShowNodes
  <2>1. (~showNodes) \in BOOLEAN
    OBVIOUS
  <2> QED
    BY <1>0, <1>5, <2>1, SettingKeeps DEF SetShowNodes
<1>6. ASSUME NEW e \in Encryptions, SetEncryption(e)
      PROVE  ChoiceInv'
  BY <1>0, <1>6, SettingKeeps DEF SetEncryption
<1>7. ASSUME NEW entry \in menu, ConnectTo(entry)
      PROVE  ChoiceInv'
  <2>1. /\ ~crashed /\ UNCHANGED <<showNodes, encryption, lists, menu, unheard>>
        /\ Connects(servers, hubs, saved'[encryption])
    BY <1>7 DEF ConnectTo
  <2>2. UNCHANGED <<servers, hubs, showNodes, encryption>>
    BY <2>1 DEF lists
  <2>3. SavedOK' /\ CardOK' /\ CardInv' /\ ChoiceOK' /\ ChosenIsSaved'
    <3>1. Chooses(entry, unheard)
      BY <1>7 DEF ConnectTo
    <3>2. unheard \/ At(Shown, entry.ix) = entry.server
      BY <1>0, <1>7 DEF MenuIsTrue
    <3>3. entry.server \in Servers \cup {NoServer} /\ unheard \in BOOLEAN
      BY <1>0, <1>7 DEF TypeOK, Entries
    <3> QED
      BY <1>0, <2>1, <2>2, <3>1, <3>2, <3>3, ChoosesKeeps
  <2>4. crashed' \in BOOLEAN
    BY <2>1, ConnectsType
  <2> QED
    BY <2>1, <2>3, <2>4, RequestKeeps
<1>8. ASSUME IF loggedIn THEN Connects(servers, hubs, saved'[encryption]) ELSE UNCHANGED crashed
      PROVE  crashed' \in BOOLEAN
  <2>1. CASE loggedIn
    BY <1>8, <2>1, ConnectsType
  <2>2. CASE ~loggedIn
    BY <1>0, <1>8, <2>2 DEF TypeOK
  <2> QED
    BY <2>1, <2>2
<1>9. ASSUME NEW s \in Servers, ConnectListed(s)
      PROVE  ChoiceInv'
  <2> DEFINE entry == Entry(Shown, s)
  <2>1. /\ ~crashed /\ UNCHANGED <<showNodes, encryption, lists, menu, unheard>>
        /\ s \in Shown
        /\ IF loggedIn THEN Connects(servers, hubs, saved'[encryption]) ELSE UNCHANGED crashed
    BY <1>9 DEF ConnectListed
  <2>2. UNCHANGED <<servers, hubs, showNodes, encryption>>
    BY <2>1 DEF lists
  <2>3. Shown \in SUBSET Servers
    BY <1>0, ShownType
  <2>4. entry.server = s /\ At(Shown, entry.ix) = s
    BY <2>1, <2>3, EntryIsTrue DEF Entry
  <2>5. SavedOK' /\ CardOK' /\ CardInv' /\ ChoiceOK' /\ ChosenIsSaved'
    <3>1. CASE saved[encryption] # entry.ix
      <4>1. Chooses(entry, FALSE)
        BY <1>9, <3>1 DEF ConnectListed
      <4>2. FALSE \in BOOLEAN
        OBVIOUS
      <4> HIDE DEF entry
      <4> QED
        BY <1>0, <2>1, <2>2, <2>4, <4>1, <4>2, ChoosesKeeps
    <3>2. CASE saved[encryption] = entry.ix
      <4>1. Chosen(entry) /\ mislaid' = FALSE /\ UNCHANGED <<saved, card, undrawn>>
        BY <1>9, <3>2 DEF ConnectListed
      <4>2. mislaid' \in BOOLEAN /\ At(Shown, saved'[encryption]) = entry.server
        BY <2>4, <3>2, <4>1
      <4>3. ChoiceOK' /\ ChosenIsSaved'
        <5> HIDE DEF entry
        <5> QED
          BY <1>0, <2>4, <4>1, <4>2, ChosenKeeps
      <4>4. SavedOK' /\ CardOK'
        BY <1>0, <4>1, CardUnchanged DEF TypeOK, SavedOK
      <4>5. CardInv'
        BY <1>0, <2>1, <2>2, <4>1, CardStays
      <4> QED
        BY <4>3, <4>4, <4>5
    <3> QED
      BY <3>1, <3>2
  <2>6. crashed' \in BOOLEAN
    BY <1>8, <2>1
  <2> QED
    BY <2>1, <2>5, <2>6, RequestKeeps
<1>10. ASSUME ~crashed, NEW ix, SetServer(ix), choice' = NoChoice, mislaid' = FALSE,
              UNCHANGED <<showNodes, encryption, lists, menu, unheard>>,
              IF loggedIn THEN Connects(servers, hubs, saved'[encryption])
                          ELSE UNCHANGED crashed
       PROVE  ChoiceInv'
  <2>1. UNCHANGED <<servers, hubs, showNodes, encryption>>
    BY <1>10 DEF lists
  <2>2. SavedOK' /\ CardOK' /\ CardInv' /\ ChoiceOK' /\ ChosenIsSaved'
    BY <1>0, <1>10, <2>1, SetServerKeeps, NothingChosen
  <2>3. crashed' \in BOOLEAN
    BY <1>8, <1>10
  <2> QED
    BY <1>10, <2>2, <2>3, RequestKeeps
<1>11. ASSUME ~crashed, UNCHANGED <<saved, card, undrawn, choice, mislaid>>,
              UNCHANGED <<showNodes, encryption, lists, menu, unheard>>, crashed' \in BOOLEAN
       PROVE  ChoiceInv'
  <2>1. UNCHANGED <<servers, hubs, showNodes, encryption>>
    BY <1>11 DEF lists
  <2>2. SavedOK' /\ ChoiceOK' /\ ChosenIsSaved'
    BY <1>0, <1>11, ChoiceStays
  <2>3. CardOK'
    BY <1>0, <1>11, CardUnchanged
  <2>4. CardInv'
    BY <1>0, <1>11, <2>1, CardStays
  <2> QED
    BY <1>11, <2>2, <2>3, <2>4, RequestKeeps
<1>12. CASE ConnectCard
  <2>1. /\ ~crashed /\ card # NoEntry
        /\ UNCHANGED <<showNodes, encryption, lists, menu, unheard>>
    BY <1>12 DEF ConnectCard
  <2>2. UNCHANGED <<servers, hubs, showNodes, encryption>>
    BY <2>1 DEF lists
  <2>3. undrawn \/ (card.ix = saved[encryption] /\ card.server = At(Shown, card.ix))
    BY <1>0, <2>1 DEF CardInv, Asked
  <2>4. card.server \in Servers \cup {NoServer} /\ undrawn \in BOOLEAN
    BY <1>0, <2>1 DEF TypeOK, Entries
  <2>5. SavedOK' /\ CardOK' /\ CardInv' /\ ChoiceOK' /\ ChosenIsSaved'
    <3>1. CASE saved[encryption] # card.ix
      <4>1. Chooses(card, undrawn)
        BY <1>12, <3>1 DEF ConnectCard
      <4>2. undrawn \/ At(Shown, card.ix) = card.server
        BY <2>3
      <4> QED
        BY <1>0, <2>1, <2>2, <2>4, <4>1, <4>2, ChoosesKeeps
    <3>2. CASE saved[encryption] = card.ix
      <4>1. Chosen(card) /\ mislaid' = undrawn /\ UNCHANGED <<saved, card, undrawn>>
        BY <1>12, <3>2 DEF ConnectCard
      <4>2. mislaid' \in BOOLEAN
        BY <2>4, <4>1
      <4>3. mislaid' \/ At(Shown, saved'[encryption]) = card.server
        BY <2>3, <3>2, <4>1
      <4>4. ChoiceOK' /\ ChosenIsSaved'
        BY <1>0, <2>4, <4>1, <4>2, <4>3, ChosenKeeps
      <4>5. SavedOK' /\ CardOK'
        BY <1>0, <4>1, CardUnchanged DEF TypeOK, SavedOK
      <4>6. CardInv'
        BY <1>0, <2>1, <2>2, <4>1, CardStays
      <4> QED
        BY <4>4, <4>5, <4>6
    <3> QED
      BY <3>1, <3>2
  <2>6. crashed' \in BOOLEAN
    BY <1>8, <1>12 DEF ConnectCard
  <2> QED
    BY <2>1, <2>5, <2>6, RequestKeeps
<1>13. ASSUME NEW ix \in 0..Cardinality(Servers), ConnectFavorite(ix)
       PROVE  ChoiceInv'
  BY <1>10, <1>13 DEF ConnectFavorite
<1>14. CASE ConnectTriggered
  <2>1. crashed' \in BOOLEAN
    BY <1>14, ConnectsType DEF ConnectTriggered
  <2>2. UNCHANGED <<showNodes, encryption, saved, card, undrawn, menu, unheard>>
    BY <1>14 DEF ConnectTriggered, settings, drawn
  <2> QED
    BY <1>11, <1>14, <2>1, <2>2 DEF ConnectTriggered
<1>15. CASE Jump
  <2>1. PICK ix \in JumpTargets : Chooses([ix |-> ix, server |-> At(Shown, ix)], FALSE)
    BY <1>15 DEF Jump
  <2> DEFINE entry == [ix |-> ix, server |-> At(Shown, ix)]
  <2>2. /\ ~crashed /\ UNCHANGED <<showNodes, encryption, lists, menu, unheard>>
        /\ Connects(servers, hubs, saved'[encryption])
    BY <1>15 DEF Jump
  <2>3. UNCHANGED <<servers, hubs, showNodes, encryption>>
    BY <2>2 DEF lists
  <2>4. Chooses(entry, FALSE) /\ At(Shown, entry.ix) = entry.server /\ FALSE \in BOOLEAN
    BY <2>1
  <2>5. entry.server \in Servers \cup {NoServer}
    BY <1>0, ShownType, AtType
  <2>6. SavedOK' /\ CardOK' /\ CardInv' /\ ChoiceOK' /\ ChosenIsSaved'
    <3> HIDE DEF entry
    <3> QED
      BY <1>0, <2>2, <2>3, <2>4, <2>5, ChoosesKeeps
  <2>7. crashed' \in BOOLEAN
    BY <2>2, ConnectsType
  <2> QED
    BY <2>2, <2>6, <2>7, RequestKeeps
<1>16. CASE Restart
  <2>1. UNCHANGED <<showNodes, encryption, saved, choice, mislaid>>
    BY <1>16 DEF Restart, settings
  <2>2. SavedOK' /\ ChoiceOK' /\ ChosenIsSaved' /\ SettingsOK'
    BY <1>0, <2>1, ChoiceStays, SettingsUnchanged
  <2>3. CardOK' /\ CardInv'
    BY <1>16 DEF Restart, CardOK, CardInv
  <2>4. ListsOK' /\ MenuOK' /\ MenuIsTrue' /\ crashed' \in BOOLEAN
    BY <1>16 DEF Restart, ListsOK, MenuOK, MenuIsTrue
  <2>5. TypeOK'
    BY <2>2, <2>3, <2>4, TypePartsNext
  <2> QED
    BY <2>2, <2>3, <2>4, <2>5 DEF ChoiceInv
<1>17. CASE UNCHANGED vars
  <2>1. /\ UNCHANGED <<servers, hubs, loggedIn, listed, showNodes, encryption, saved>>
        /\ UNCHANGED <<menu, card, unheard, undrawn, choice, mislaid, crashed>>
    BY <1>17 DEF vars, settings, lists, drawn
  <2>2. TypeOK' /\ MenuIsTrue' /\ ChosenIsSaved' /\ CardInv'
    BY <1>0, <2>1
       DEF TypeOK, MenuIsTrue, ChosenIsSaved, CardInv, Asked, Shown, ListOf
  <2> QED
    BY <2>2 DEF ChoiceInv
<1> QED
  BY <1>1, <1>2, <1>3, <1>4, <1>5, <1>6, <1>7, <1>9, <1>12, <1>13, <1>14, <1>15, <1>16, <1>17
     DEF Next

-----------------------------------------------------------------------------
(* The theorems.                                                           *)

LEMMA ChoiceAlways == Spec => []ChoiceInv
  BY ChoiceInit, ChoiceStep, PTL DEF Spec

\* Every variable keeps its type; an index that is saved was one of a server.
THEOREM ChoiceTypeCorrect == Spec => []TypeOK
<1>1. ChoiceInv => TypeOK
  BY DEF ChoiceInv
<1> QED
  BY <1>1, ChoiceAlways, PTL

\* An entry of the tray menu carries the index its server has in the list that is used
\* now, unless a change was made that the menu does not hear of.
THEOREM MenuIsAlwaysTrue == Spec => []MenuIsTrue
<1>1. ChoiceInv => MenuIsTrue
  BY DEF ChoiceInv
<1> QED
  BY <1>1, ChoiceAlways, PTL

\* What is saved goes on to name the server that was chosen last, as long as the list it
\* is used in is the one that it was chosen from.
THEOREM ChoiceIsAlwaysKept == Spec => []ChoiceIsKept
<1>1. ChoiceInv => ChoiceIsKept
  BY DEF ChoiceInv, ChosenIsSaved, ChoiceIsKept, Asked
<1> QED
  BY <1>1, ChoiceAlways, PTL

\* The card of the map page shows the server a request would name, unless it was not
\* drawn again.
THEOREM CardIsRight == Spec => []CardShowsChoice
<1>1. ChoiceInv => CardShowsChoice
  BY DEF ChoiceInv, CardInv, CardShowsChoice
<1> QED
  BY <1>1, ChoiceAlways, PTL

\* A jump that is not refused leaves the server when there is another to jump to.
THEOREM JumpsMove == Spec => JumpMoves
<1> DEFINE near == IF showNodes THEN servers \cap Supports[encryption] ELSE hubs
           Moves == Jump /\ ~mislaid'
                      => near \subseteq {Asked} \/ Asked' \in near \ {Asked}
<1>1. ASSUME TypeOK, [Next]_vars PROVE [Moves]_vars
  <2> SUFFICES ASSUME Jump, ~mislaid', ~(near \subseteq {Asked})
               PROVE  Asked' \in near \ {Asked}
    OBVIOUS
  <2>1. /\ Shown \in SUBSET Servers /\ near \subseteq Shown
        /\ saved \in [Encryptions -> Nat] /\ encryption \in Encryptions
    <3>1. near \subseteq Shown
      <4>1. CASE showNodes
        BY <4>1 DEF Shown, ListOf
      <4>2. CASE ~showNodes
        BY <4>2 DEF Shown, ListOf
      <4> QED
        BY <4>1, <4>2
    <3>2. saved \in [Encryptions -> Nat] /\ encryption \in Encryptions
      BY <1>1 DEF TypeOK
    <3> QED
      BY <1>1, <3>1, <3>2, ShownType
  <2>2. PICK other \in near : other # Asked
    OBVIOUS
  <2>3. ASSUME NEW s \in near, s # Asked PROVE IndexOf(Shown, s) # saved[encryption]
    BY <2>1, <2>3, AtIndex DEF Asked
  <2>4. PICK ix \in JumpTargets : Chooses([ix |-> ix, server |-> At(Shown, ix)], FALSE)
    BY DEF Jump
  <2> DEFINE Near == {IndexOf(Shown, s) : s \in near} \ {saved[encryption]}
  <2>5. Near # {}
    BY <2>2, <2>3
  <2>6. JumpTargets = Near
    BY <2>5 DEF JumpTargets
  <2>7. PICK s \in near : ix = IndexOf(Shown, s) /\ ix # saved[encryption]
    BY <2>4, <2>6
  <2>8. At(Shown, ix) = s
    BY <2>1, <2>7, AtIndex
  <2>9. s # Asked
    <3>1. s # NoServer
      BY <2>1, ChoiceAssumption
    <3>2. ASSUME At(Shown, saved[encryption]) = s PROVE FALSE
      <4>1. IndexOf(Shown, At(Shown, saved[encryption])) = saved[encryption]
        BY <2>1, <3>1, <3>2, AtHasIndex
      <4> QED
        BY <2>7, <3>2, <4>1
    <3> QED
      BY <3>2 DEF Asked
  <2>10. At(servers, ix) # NoServer
    <3>1. servers \in SUBSET Servers /\ s # NoServer
      BY <1>1, <2>1, ChoiceAssumption DEF TypeOK
    <3>2. CASE showNodes
      BY <2>8, <3>1, <3>2 DEF Shown, ListOf
    <3>3. CASE ~showNodes
      <4>1. ~(ix >= Cardinality(servers))
        BY <2>4, <3>3 DEF Chooses
      <4>2. ix \in Nat
        BY <2>1, <2>8, <3>1, AtType
      <4>3. Cardinality(servers) \in Nat
        <5>1. IsFiniteSet(servers)
          BY <3>1, ChoiceAssumption, FS_Subset
        <5> QED
          BY <5>1, FS_CardinalityType
      <4>4. ix < Cardinality(servers)
        BY <4>1, <4>2, <4>3
      <4> QED
        BY <3>1, <4>2, <4>4, AtBelow
    <3> QED
      BY <3>2, <3>3
  <2>11. saved' = [saved EXCEPT ![encryption] = ix]
    BY <2>4, <2>10 DEF Chooses, SetServer
  <2>12. UNCHANGED <<servers, hubs, showNodes, encryption>>
    BY DEF Jump, lists
  <2>13. Asked' = At(Shown, ix)
    BY <2>1, <2>11, <2>12 DEF Asked, Shown, ListOf
  <2> QED
    BY <2>8, <2>9, <2>13
<1>2. ASSUME [Moves]_vars
      PROVE  [Jump /\ ~mislaid' =>
                LET n == IF showNodes THEN servers \cap Supports[encryption] ELSE hubs
                IN n \subseteq {Asked} \/ Asked' \in n \ {Asked}]_vars
  BY <1>2
<1> QED
  BY <1>1, <1>2, ChoiceTypeCorrect, PTL DEF Spec, JumpMoves
=============================================================================
