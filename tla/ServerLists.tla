---------------------------- MODULE ServerLists ----------------------------
(***************************************************************************)
(* How AuthManager logs in and fetches its two lists, of servers and of    *)
(* hubs (src/src/application/authmanager.cpp, login to getHubs and the     *)
(* slots of their replies).                                                *)
(*                                                                         *)
(* A request for servers aborts the one in flight, whose slots run at once *)
(* as for any other failure.  A request for hubs does not: the slots of an *)
(* older reply read the newest one, mHubsReply, whatever its own answer.   *)
(* What the pings make of an answer is in PingPool.                        *)
(***************************************************************************)
EXTENDS Naturals

CONSTANTS
    Accounts,   \* the users there are
    MaxLogins,  \* bound: logins
    MaxFaults   \* bound: answers that are an error, that cannot be read, or that a retry
                \* of the servers did not wait for

ASSUME ListsAssumption ==
    /\ Accounts \cap {"default", "none", "read", "failed"} = {}
    /\ MaxLogins \in Nat /\ MaxFaults \in Nat

VARIABLES
    autoconnect,    \* the setting
    account,        \* mAccountLogin, "none" when it is empty
    loggedIn,       \* mLoggedIn: the account was accepted
    loginReply,     \* is mReply in flight?
    serverReply,    \* for whom mServerListReply was asked, "none" when it is not in flight
    serverRetries,  \* single shots of getServerList
    hubReply,       \* the same of mHubsReply, which stays "read" or "failed"
    hubRead,        \* how much of its answer the slots of older replies have read
    oldHubReplies,  \* replies of hubs in flight that are not mHubsReply
    hubRetries,     \* single shots of getHubs
    servers,        \* for whom the servers were loaded
    hubs,           \* for whom the hubs were loaded
    logins,         \* logins so far
    faults,         \* faults so far
    due,            \* history: requests for servers, but for retries, less lists loaded
    running         \* the application has not crashed

accountVars == <<autoconnect, account, loggedIn, loginReply, logins>>
serverVars == <<serverReply, serverRetries>>
hubVars == <<hubReply, hubRead, oldHubReplies, hubRetries>>
listVars == <<servers, hubs>>
otherVars == <<due, running>>
vars == <<accountVars, serverVars, hubVars, listVars, faults, otherVars>>

Owners == Accounts \cup {"default"}

\* For whom a list is asked for now.
Owner == IF loggedIn THEN account ELSE "default"

HubsInFlight == hubReply \in Owners

\* MainWindow logs in, if it can, or asks for the default list.
Init ==
    /\ autoconnect \in BOOLEAN
    /\ loginReply \in BOOLEAN
    /\ loginReply => autoconnect
    /\ account \in IF loginReply THEN Accounts ELSE {"none"}
    /\ loggedIn = FALSE
    /\ serverReply = IF loginReply THEN "none" ELSE "default"
    /\ serverRetries = 0
    /\ hubReply = "none"
    /\ hubRead = "none"
    /\ oldHubReplies = 0
    /\ hubRetries = 0
    /\ servers = "none"
    /\ hubs = "none"
    /\ logins = IF loginReply THEN 1 ELSE 0
    /\ faults = 0
    /\ due = IF loginReply THEN 0 ELSE 1
    /\ running = TRUE

-----------------------------------------------------------------------------
(* Requests.                                                               *)

\* The hubs are asked for once more, whatever is in flight.
GetHubs(owner) ==
    /\ hubReply' = owner
    /\ hubRead' = "none"
    /\ oldHubReplies' = oldHubReplies + (IF HubsInFlight THEN 1 ELSE 0)

\* Mutant of GetServerList: the reply that is aborted is disconnected first.
GetServerListSilently(owner, retries) ==
    /\ serverReply' = owner
    /\ serverRetries' = retries
    /\ UNCHANGED <<hubReply, hubRead, oldHubReplies>>

\* Mutant of GetServerList: a request for an account that is in flight will do.
GetServerListOnce(owner, retries) ==
    /\ serverReply' = IF serverReply \in Accounts THEN serverReply ELSE owner
    /\ serverRetries' = IF serverReply = "none" THEN retries ELSE retries + 1
    /\ UNCHANGED <<hubReply, hubRead, oldHubReplies>>

\* The slots of a reply that is aborted run before the next one is asked for.
GetServerList(owner, retries) ==
    /\ serverReply' = owner
    /\ IF serverReply # "none"
       THEN /\ serverRetries' = retries + 1
            /\ GetHubs(owner)
       ELSE /\ serverRetries' = retries
            /\ UNCHANGED <<hubReply, hubRead, oldHubReplies>>

-----------------------------------------------------------------------------
(* The account.                                                            *)

\* From the login page, whose button is disabled until an answer.
Login(user) ==
    /\ running
    /\ ~loggedIn /\ ~loginReply
    /\ logins < MaxLogins
    /\ account' = user
    /\ loginReply' = TRUE
    /\ logins' = logins + 1
    /\ UNCHANGED <<autoconnect, loggedIn, serverVars, hubVars, listVars, faults, otherVars>>

LoginSucceeds ==
    /\ running
    /\ loginReply
    /\ loginReply' = FALSE
    /\ loggedIn' = TRUE
    /\ due' = due + 1
    /\ GetServerList(account, serverRetries)
    /\ UNCHANGED <<autoconnect, account, logins, hubRetries, listVars, faults, running>>

\* The network, the account or its expiration; the lists are not asked for.
LoginFails ==
    /\ running
    /\ loginReply
    /\ loginReply' = FALSE
    /\ UNCHANGED <<autoconnect, account, loggedIn, logins, serverVars, hubVars, listVars,
                   faults, otherVars>>

\* The reply of the login has long finished: nothing is aborted.
Logout ==
    /\ running
    /\ loggedIn
    /\ loggedIn' = FALSE
    /\ account' = "none"
    /\ UNCHANGED <<autoconnect, loginReply, logins, serverVars, hubVars, listVars,
                   faults, otherVars>>

-----------------------------------------------------------------------------
(* Servers.                                                                *)

Fault == faults < MaxFaults /\ faults' = faults + 1

\* Mutant of ServersLoaded: the reply counts as in flight.
ServersLoadedUnfinished ==
    /\ running
    /\ serverReply # "none"
    /\ servers' = serverReply
    /\ due' = due - 1
    /\ GetHubs(Owner)
    /\ UNCHANGED <<accountVars, serverVars, hubRetries, hubs, faults, running>>

ServersLoaded ==
    /\ running
    /\ serverReply # "none"
    /\ servers' = serverReply
    /\ serverReply' = "none"
    /\ due' = due - 1
    /\ GetHubs(Owner)
    /\ UNCHANGED <<accountVars, serverRetries, hubRetries, hubs, faults, running>>

\* Nothing else is done with an answer that cannot be read.
ServersUnreadable ==
    /\ running
    /\ serverReply # "none"
    /\ Fault
    /\ serverReply' = "none"
    /\ serverRetries' = serverRetries + 1
    /\ UNCHANGED <<accountVars, hubVars, listVars, otherVars>>

\* The slot of the error asks for a retry, the other one for hubs.
ServersFailed ==
    /\ running
    /\ serverReply # "none"
    /\ Fault
    /\ serverReply' = "none"
    /\ serverRetries' = serverRetries + 1
    /\ GetHubs(Owner)
    /\ UNCHANGED <<accountVars, hubRetries, listVars, otherVars>>

RetryServers ==
    /\ running
    /\ serverRetries > 0
    /\ IF serverReply = "none" THEN UNCHANGED faults ELSE Fault
    /\ GetServerList(Owner, serverRetries - 1)
    /\ UNCHANGED <<accountVars, hubRetries, listVars, otherVars>>

-----------------------------------------------------------------------------
(* Hubs.                                                                   *)

\* hubsLoaded() is connected to this slot, which asks the service to connect, if it can
\* be reached, to a server of the list: without servers it follows a null pointer.
AutoLog ==
    IF autoconnect /\ loggedIn /\ servers = "none"
    THEN running' \in BOOLEAN
    ELSE UNCHANGED running

\* Mutant of HubsLoaded: it asks for the next list.
HubsLoadedAgain ==
    /\ running
    /\ HubsInFlight /\ hubRead # "all"
    /\ hubs' = hubReply
    /\ hubReply' = "read"
    /\ hubRetries' = hubRetries + 1
    /\ AutoLog
    /\ UNCHANGED <<accountVars, serverVars, hubRead, oldHubReplies, servers,
                   faults, due>>

HubsLoaded ==
    /\ running
    /\ HubsInFlight /\ hubRead # "all"
    /\ hubs' = hubReply
    /\ hubReply' = "read"
    /\ AutoLog
    /\ UNCHANGED <<accountVars, serverVars, hubRead, oldHubReplies, hubRetries, servers,
                   faults, due>>

\* Mutant of HubsUnreadable: without a retry.
HubsGivenUp ==
    /\ running
    /\ HubsInFlight
    /\ IF hubRead = "none" THEN Fault ELSE UNCHANGED faults
    /\ hubReply' = "read"
    /\ UNCHANGED <<accountVars, serverVars, hubRead, oldHubReplies, hubRetries, listVars,
                   otherVars>>

\* An answer that lost its first bytes may be unreadable through no fault of its own, and
\* one of which nothing is left is empty.
HubsUnreadable ==
    /\ running
    /\ HubsInFlight
    /\ IF hubRead = "none" THEN Fault ELSE UNCHANGED faults
    /\ hubReply' = "read"
    /\ hubRetries' = hubRetries + 1
    /\ UNCHANGED <<accountVars, serverVars, hubRead, oldHubReplies, listVars, otherVars>>

HubsFailed ==
    /\ running
    /\ HubsInFlight
    /\ Fault
    /\ hubReply' = "failed"
    /\ hubRetries' = hubRetries + 1
    /\ UNCHANGED <<accountVars, serverVars, hubRead, oldHubReplies, listVars, otherVars>>

\* What the newest reply holds is empty, or the beginning of an answer; one that failed
\* is left alone.
FinishOldHubs(retries) ==
    /\ running
    /\ oldHubReplies > 0
    /\ oldHubReplies' = oldHubReplies - 1
    /\ hubRetries' = retries + (IF hubReply = "failed" THEN 0 ELSE 1)
    /\ hubRead' = IF HubsInFlight /\ hubRead = "none" THEN "some" ELSE hubRead
    /\ UNCHANGED <<accountVars, serverVars, hubReply, listVars, otherVars>>

\* Or it holds the whole answer, of which nothing is left for its own slot.
TakeNewestHubs(retries) ==
    /\ running
    /\ oldHubReplies > 0
    /\ HubsInFlight /\ hubRead # "all"
    /\ oldHubReplies' = oldHubReplies - 1
    /\ hubRetries' = retries
    /\ hubRead' = "all"
    /\ hubs' = hubReply
    /\ AutoLog
    /\ UNCHANGED <<accountVars, serverVars, hubReply, servers, due>>

OldHubsArrive ==
    /\ FinishOldHubs(hubRetries) \/ TakeNewestHubs(hubRetries)
    /\ UNCHANGED faults

OldHubsFail ==
    /\ FinishOldHubs(hubRetries + 1) \/ TakeNewestHubs(hubRetries + 1)
    /\ Fault

RetryHubs ==
    /\ running
    /\ hubRetries > 0
    /\ hubRetries' = hubRetries - 1
    /\ GetHubs(Owner)
    /\ UNCHANGED <<accountVars, serverVars, listVars, faults, otherVars>>

-----------------------------------------------------------------------------
Next ==
    \/ \E user \in Accounts : Login(user)
    \/ LoginSucceeds \/ LoginFails \/ Logout
    \/ ServersLoaded \/ ServersUnreadable \/ ServersFailed \/ RetryServers
    \/ HubsLoaded \/ HubsUnreadable \/ HubsFailed
    \/ OldHubsArrive \/ OldHubsFail \/ RetryHubs

\* A timer fires, and proxy.sh answers.  With the faults used up, no retry aborts the
\* request for servers, but a second request for hubs may take the place of the first
\* again and again: the newest is answered, strongly.  Its answer may have been read.
Fairness ==
    /\ WF_vars(RetryServers)
    /\ WF_vars(RetryHubs)
    /\ WF_vars(OldHubsArrive)
    /\ WF_vars(ServersLoaded)
    /\ SF_vars(HubsLoaded)
    /\ WF_vars(hubRead = "all" /\ HubsUnreadable)

Spec == Init /\ [][Next]_vars
FairSpec == Spec /\ Fairness

-----------------------------------------------------------------------------
(* Properties.                                                             *)

\* Every variable has its type; an account logs in, or is in, and not both.
TypeOK ==
    /\ autoconnect \in BOOLEAN
    /\ account \in Accounts \cup {"none"}
    /\ loggedIn \in BOOLEAN
    /\ loginReply \in BOOLEAN
    /\ ~(loggedIn /\ loginReply)
    /\ loggedIn \/ loginReply => account # "none"
    /\ serverReply \in Owners \cup {"none"}
    /\ serverRetries \in Nat
    /\ hubReply \in Owners \cup {"none", "read", "failed"}
    /\ hubRead \in {"none", "some", "all"}
    /\ oldHubReplies \in Nat
    /\ hubRetries \in Nat
    /\ servers \in Owners \cup {"none"}
    /\ hubs \in Owners \cup {"none"}
    /\ logins \in Nat
    /\ faults \in 0..MaxFaults
    /\ due \in Nat
    /\ running \in BOOLEAN

ServerRequests == serverRetries + (IF serverReply = "none" THEN 0 ELSE 1)

HubRequests == hubRetries + oldHubReplies + (IF HubsInFlight THEN 1 ELSE 0)

\* However requests abort each other, fail and are retried, each one that was made is
\* still under way, once, or has loaded the servers.
ServersAreAskedOnce == due = ServerRequests

\* The list that was asked for before a login, by nobody or by another account, or that a
\* retry asks for, is never taken for that of the account: an account that has its servers
\* keeps them.
AccountKeepsItsServers ==
    [][loggedIn /\ servers' # servers => servers' = account]_vars

\* An account that was accepted has its lists, or a request under way that is to bring
\* them: no list that was asked for before, no logout and no answer that was read by the
\* slot of another makes the last of the requests one for nobody, or for another account.
ListsAreAsked ==
    loggedIn =>
        /\ servers = account \/ ServerRequests > 0
        /\ hubs = account \/ HubRequests > 0 \/ ServerRequests > 0

\* An account that was accepted gets its lists, or goes, unless the application crashes.
ListsArrive ==
    loggedIn ~> (servers = account /\ hubs = account) \/ ~loggedIn \/ ~running

\* The requests come to an end.
RequestsEnd == <>[]((ServerRequests = 0 /\ HubRequests = 0) \/ ~running)

\* "Connect after login set, so launching openvpn" (authmanager.cpp:1476): the slot that
\* connects does not crash instead.
ConnectsWithServers == running
=============================================================================
