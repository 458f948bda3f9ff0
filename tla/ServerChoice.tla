---------------------------- MODULE ServerChoice ----------------------------
(***************************************************************************)
(* Which server the application asks the service to connect to.  What is   *)
(* saved is an index, and what it indexes depends on when it is used: the  *)
(* list of the servers or that of the hubs, as showNodes says, each sorted *)
(* by name and replaced by every answer of the account's server; and there *)
(* is an index for every encryption.  The tray menu, the card of the map   *)
(* page and the list of all servers were drawn at some time before, and    *)
(* hand back the index they were drawn with (src/src/application:          *)
(* setting.cpp, authmanager.cpp, trayiconmanager.cpp, MapPage.qml).        *)
(*                                                                         *)
(* A list is the set of its servers: their number is their place in the    *)
(* order of the names.  When the lists are asked for is ServerLists, what  *)
(* becomes of a request ServiceLink.                                       *)
(***************************************************************************)
EXTENDS Naturals, FiniteSets

CONSTANTS
    Servers,      \* all there are, by the order of their names
    Encryptions,
    Supports,     \* the servers that support an encryption
    NodeLists,    \* bound: lists of servers that are answered
    HubLists,     \* bound: lists of hubs that are answered
    NoServer,
    AutoConnect   \* Setting::autoconnect

ASSUME ChoiceAssumption ==
    /\ Servers \subseteq Nat /\ IsFiniteSet(Servers)
    /\ NoServer \notin Servers
    /\ Supports \in [Encryptions -> SUBSET Servers]
    /\ NodeLists \subseteq SUBSET Servers /\ HubLists \subseteq SUBSET Servers
    /\ AutoConnect \in BOOLEAN

VARIABLES
    loggedIn,    \* AuthManager::mLoggedIn
    listed,      \* a login of this run of the application has asked for the lists
    servers,     \* mServersModel
    hubs,        \* mHubsModel
    showNodes, encryption,
    saved,       \* the index of the server, for each encryption
    menu,        \* entries of "Connect to ..."
    card,        \* the server of the map page's card
    unheard,     \* history: a change since the menu was made has not remade it
    undrawn,     \* history: a change since the card was drawn has not redrawn it
    choice,      \* history: what was chosen last, and from which list
    mislaid,     \* history: that choice was read from what was out of date, or refused
    crashed      \* a null pointer was read

settings == <<showNodes, encryption, saved>>
lists == <<servers, hubs, loggedIn, listed>>
drawn == <<menu, card, unheard, undrawn>>
vars == <<settings, lists, drawn, choice, mislaid, crashed>>

-----------------------------------------------------------------------------
(* Lists and indices.                                                      *)

\* Mutant of IndexOf: the ids begin with one.
IndexFromOne(list, s) == Cardinality({t \in list : t <= s})

\* The id of server s, and the server at an index.
IndexOf(list, s) == Cardinality({t \in list : t < s})

At(list, ix) ==
    IF \E s \in list : IndexOf(list, s) = ix
    THEN CHOOSE s \in list : IndexOf(list, s) = ix
    ELSE NoServer

\* getServer(): of the list that is shown.
ListOf(nodes) == IF nodes THEN servers ELSE hubs
Shown == ListOf(showNodes)

\* isServerListLoaded(), of the lists srv and hb.
Loaded(srv, hb) == srv # {} /\ hb # {}

\* The server a request would name.
Asked == At(Shown, saved[encryption])

Entry(list, s) == [ix |-> IndexOf(list, s), server |-> s]
Entries == [ix : 0..Cardinality(Servers), server : Servers]
NoEntry == [ix |-> 0, server |-> NoServer]
NoChoice == [server |-> NoServer, list |-> {}, enc |-> CHOOSE e \in Encryptions : TRUE]

Init ==
    /\ loggedIn = FALSE
    /\ listed = FALSE
    /\ servers = {} /\ hubs = {}
    /\ showNodes = FALSE
    /\ encryption \in Encryptions
    /\ saved = [e \in Encryptions |-> 0]
    /\ menu = {}
    /\ card = NoEntry
    /\ unheard = FALSE /\ undrawn = FALSE
    /\ choice = NoChoice
    /\ mislaid = FALSE
    /\ crashed = FALSE

-----------------------------------------------------------------------------
(* What is drawn again when.                                               *)

\* Mutant of MenuOf: the data of an entry is its place in the menu.
MenuByPlace(list, e) ==
    {[ix |-> IndexOf(list \cap Supports[e], s), server |-> s] : s \in list \cap Supports[e]}

\* The entries, of the servers of the list that support encryption e.
MenuOf(list, e) == {Entry(list, s) : s \in list \cap Supports[e]}

\* constructConnectToMenu(), when the lists are to be srv and hb.
ConstructConnectToMenu(srv, hb, nodes, e) ==
    IF loggedIn /\ Loaded(srv, hb)
    THEN /\ menu' = MenuOf(IF nodes THEN srv ELSE hb, e)
         /\ unheard' = FALSE
    ELSE /\ unheard' = TRUE
         /\ UNCHANGED menu

\* Mutant of Refresh: a card that was drawn is not drawn again.
RefreshOnce(list, ix) ==
    IF At(list, ix) # NoServer /\ card = NoEntry
    THEN card' = [ix |-> ix, server |-> At(list, ix)] /\ undrawn' = FALSE
    ELSE UNCHANGED <<card, undrawn>>

\* refresh() of the map page: it stops at a server that is not there.
Refresh(list, ix) ==
    IF At(list, ix) # NoServer
    THEN card' = [ix |-> ix, server |-> At(list, ix)] /\ undrawn' = FALSE
    ELSE undrawn' = TRUE /\ UNCHANGED card

\* The page is refreshed once both lists are there, srv and hb; before that the card
\* stays as it was.
RefreshLoaded(srv, hb, ix) ==
    IF Loaded(srv, hb)
    THEN Refresh(IF showNodes THEN srv ELSE hb, ix)
    ELSE undrawn' = TRUE /\ UNCHANGED card

-----------------------------------------------------------------------------
(* Lists, logins and settings.                                             *)

\* A login that is accepted asks for the lists; the menu of the one before is there
\* until they are answered.
Login ==
    /\ ~crashed
    /\ ~loggedIn
    /\ loggedIn' = TRUE
    /\ listed' = TRUE
    /\ UNCHANGED <<servers, hubs, settings, drawn, choice, mislaid, crashed>>

\* The tray's logout clears the menu, that of the window and another login do not.
Logout ==
    /\ ~crashed
    /\ loggedIn
    /\ loggedIn' = FALSE
    /\ menu' \in {menu, {}}
    /\ UNCHANGED <<servers, hubs, listed, settings, card, unheard, undrawn, choice, mislaid, crashed>>

\* fetchServerListFinished() with a list: updateServers() announces its ports as a
\* change of the encryption, for which the menu is made again.
ServersLoaded ==
    /\ ~crashed
    /\ listed
    /\ servers' \in NodeLists
    /\ ConstructConnectToMenu(servers', hubs, showNodes, encryption)
    /\ RefreshLoaded(servers', hubs, saved[encryption])
    /\ UNCHANGED <<hubs, loggedIn, listed, settings, choice, mislaid, crashed>>

\* sendConnectToVPNRequest(), with index ix: its encryption is looked up by the
\* address of a server, and its address is that of a server or a hub.
Crashes(srv, hb, ix) ==
    \/ At(srv, ix) = NoServer
    \/ At(IF showNodes THEN srv ELSE hb, ix) = NoServer

\* The request is only made when the service can be reached; the window's button may
\* ask for a disconnect instead.
Connects(srv, hb, ix) == crashed' \in {FALSE, Crashes(srv, hb, ix)}

\* fetchHubsFinished() with a list: the automatic connection comes before the page is drawn.
HubsLoaded ==
    /\ ~crashed
    /\ listed
    /\ hubs' \in HubLists
    /\ IF AutoConnect /\ loggedIn
       THEN Connects(servers, hubs', saved[encryption])
       ELSE UNCHANGED crashed
    /\ ConstructConnectToMenu(servers, hubs', showNodes, encryption)
    /\ IF crashed' THEN UNCHANGED <<card, undrawn>>
       ELSE RefreshLoaded(servers, hubs', saved[encryption])
    /\ UNCHANGED <<servers, loggedIn, listed, settings, choice, mislaid>>

\* The menu follows the setting, the card does not.
SetShowNodes ==
    /\ ~crashed
    /\ showNodes' = ~showNodes
    /\ ConstructConnectToMenu(servers, hubs, showNodes', encryption)
    /\ undrawn' = TRUE
    /\ UNCHANGED <<encryption, saved, lists, card, choice, mislaid, crashed>>

SetEncryption(e) ==
    /\ ~crashed
    /\ e # encryption
    /\ encryption' = e
    /\ ConstructConnectToMenu(servers, hubs, showNodes, e)
    /\ undrawn' = TRUE
    /\ UNCHANGED <<showNodes, saved, lists, card, choice, mislaid, crashed>>

-----------------------------------------------------------------------------
(* Choices and requests.                                                   *)

\* Mutant of SetServer: the first server of a list cannot be chosen.
SetServerFromSecond(ix) ==
    IF ix # 0 /\ At(servers, ix) # NoServer
    THEN /\ saved' = [saved EXCEPT ![encryption] = ix]
         /\ Refresh(Shown, ix)
    ELSE UNCHANGED <<saved, card, undrawn>>

\* setServer(): an index that is none of the list of servers is refused, even when
\* hubs are chosen from.
SetServer(ix) ==
    IF At(servers, ix) # NoServer
    THEN /\ saved' = [saved EXCEPT ![encryption] = ix]
         /\ Refresh(Shown, ix)
    ELSE UNCHANGED <<saved, card, undrawn>>

Chosen(entry) == choice' = [server |-> entry.server, list |-> Shown, enc |-> encryption]

\* setServer() for an entry of what was drawn, or for a jump; stale when that is no
\* longer true.  A hub beyond the number of the servers is refused.
Chooses(entry, stale) ==
    /\ SetServer(entry.ix)
    /\ Chosen(entry)
    /\ mislaid' = (stale \/ (~showNodes /\ entry.ix >= Cardinality(servers)))

\* connectToTriggered().
ConnectTo(entry) ==
    /\ ~crashed
    /\ loggedIn
    /\ entry \in menu
    /\ Chooses(entry, unheard)
    /\ Connects(servers, hubs, saved'[encryption])
    /\ UNCHANGED <<showNodes, encryption, lists, menu, unheard>>

\* The button of a card of the page of all servers, which is always up to date.
ConnectListed(s) ==
    /\ ~crashed
    /\ s \in Shown
    /\ LET entry == Entry(Shown, s)
       IN IF saved[encryption] # entry.ix
          THEN Chooses(entry, FALSE)
          ELSE /\ Chosen(entry)
               /\ mislaid' = FALSE
               /\ UNCHANGED <<saved, card, undrawn>>
    /\ IF loggedIn THEN Connects(servers, hubs, saved'[encryption]) ELSE UNCHANGED crashed
    /\ UNCHANGED <<showNodes, encryption, lists, menu, unheard>>

\* The button of the map page's card.
ConnectCard ==
    /\ ~crashed
    /\ card # NoEntry
    /\ IF saved[encryption] # card.ix
       THEN Chooses(card, undrawn)
       ELSE /\ Chosen(card)
            /\ mislaid' = undrawn
            /\ UNCHANGED <<saved, card, undrawn>>
    /\ IF loggedIn THEN Connects(servers, hubs, saved'[encryption]) ELSE UNCHANGED crashed
    /\ UNCHANGED <<showNodes, encryption, lists, menu, unheard>>

\* The favourite's name on the map page, whichever index is saved for it.
ConnectFavorite(ix) ==
    /\ ~crashed
    /\ saved[encryption] # ix
    /\ SetServer(ix)
    /\ choice' = NoChoice
    /\ mislaid' = FALSE
    /\ IF loggedIn THEN Connects(servers, hubs, saved'[encryption]) ELSE UNCHANGED crashed
    /\ UNCHANGED <<showNodes, encryption, lists, menu, unheard>>

\* connectTriggered().
ConnectTriggered ==
    /\ ~crashed
    /\ loggedIn
    /\ Connects(servers, hubs, saved[encryption])
    /\ UNCHANGED <<settings, lists, drawn, choice, mislaid>>

\* Mutant of JumpTargets: the server of now is one of them.
JumpTargetsWithThis ==
    {IndexOf(Shown, s) : s \in IF showNodes THEN servers \cap Supports[encryption] ELSE hubs}

\* getServerToJump(): by ping, or any.  The encryption counts for servers only.
JumpTargets ==
    LET near == {IndexOf(Shown, s) :
                    s \in IF showNodes THEN servers \cap Supports[encryption] ELSE hubs}
                        \ {saved[encryption]}
    IN IF near # {} THEN near
       ELSE IF Shown # {} THEN {IndexOf(Shown, s) : s \in Shown}
       ELSE {0}

\* jump(), which asks for no login.
Jump ==
    /\ ~crashed
    /\ servers # {}
    /\ \E ix \in JumpTargets :
         Chooses([ix |-> ix, server |-> At(Shown, ix)], FALSE)
    /\ Connects(servers, hubs, saved'[encryption])
    /\ UNCHANGED <<showNodes, encryption, lists, menu, unheard>>

\* The map page hears of a new state: stateChanged() does not come to refresh() when
\* the favourite names no server.
VpnStateChanged ==
    /\ ~crashed
    /\ Refresh(Shown, saved[encryption])
    /\ UNCHANGED <<settings, lists, menu, unheard, choice, mislaid, crashed>>

\* The settings are all that is left of an application that has ended or crashed.
Restart ==
    /\ loggedIn' = FALSE
    /\ listed' = FALSE
    /\ servers' = {} /\ hubs' = {}
    /\ menu' = {}
    /\ card' = NoEntry
    /\ unheard' = FALSE /\ undrawn' = FALSE
    /\ crashed' = FALSE
    /\ UNCHANGED <<settings, choice, mislaid>>

Next ==
    \/ Login
    \/ Logout
    \/ ServersLoaded
    \/ HubsLoaded
    \/ VpnStateChanged
    \/ SetShowNodes
    \/ \E e \in Encryptions : SetEncryption(e)
    \/ \E entry \in menu : ConnectTo(entry)
    \/ \E s \in Servers : ConnectListed(s)
    \/ ConnectCard
    \/ \E ix \in 0..Cardinality(Servers) : ConnectFavorite(ix)
    \/ ConnectTriggered
    \/ Jump
    \/ Restart

Spec == Init /\ [][Next]_vars

-----------------------------------------------------------------------------
(* Properties.                                                             *)

\* Every variable has its type; an index that is saved was one of a server.
TypeOK ==
    /\ loggedIn \in BOOLEAN /\ listed \in BOOLEAN /\ (loggedIn => listed)
    /\ servers \subseteq Servers /\ hubs \subseteq Servers
    /\ showNodes \in BOOLEAN
    /\ encryption \in Encryptions
    /\ saved \in [Encryptions -> Nat]
    /\ \A e \in Encryptions : saved[e] = 0 \/ saved[e] < Cardinality(Servers)
    /\ menu \subseteq Entries
    /\ card \in Entries \cup {NoEntry}
    /\ unheard \in BOOLEAN /\ undrawn \in BOOLEAN
    /\ mislaid \in BOOLEAN /\ crashed \in BOOLEAN
    /\ choice \in [server : Servers \cup {NoServer}, list : SUBSET Servers, enc : Encryptions]

\* An entry of the tray menu carries the index its server has in the list that is
\* used now, whatever list was answered and whichever setting was changed since;
\* unless that was while nobody was logged in, or while a list was empty.
MenuIsTrue ==
    ~unheard => \A entry \in menu : At(Shown, entry.ix) = entry.server

\* What is saved goes on to name the server that was chosen last, in the menu, on the
\* card, in the list or by a jump, across logouts, restarts and the settings' changes
\* and changes back, as long as the list it is used in is the one that it was chosen
\* from; unless the menu or the card was out of date, or setServer refused the hub.
ChoiceIsKept ==
    choice.server # NoServer /\ encryption = choice.enc /\ Shown = choice.list
        => mislaid \/ Asked = choice.server

\* The card shows the server a request would name, unless it was not drawn again since
\* the list that is used or the encryption was switched, one of the lists was found
\* empty, or the index named no server.
CardShowsChoice ==
    ~crashed /\ card # NoEntry /\ ~undrawn => card.server = Asked

\* A jump that setServer does not refuse leaves the server when there is another to
\* jump to, and for one that supports the encryption when servers are used.
JumpMoves ==
    [][Jump /\ ~mislaid' =>
         LET near == IF showNodes THEN servers \cap Supports[encryption] ELSE hubs
         IN near \subseteq {Asked} \/ Asked' \in near \ {Asked}]_vars
=============================================================================
