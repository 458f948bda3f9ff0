------------------------- MODULE ServerListsProofs -------------------------
(***************************************************************************)
(* For any number of logins and faults: the type invariant of ServerLists, *)
(* that no request for the servers is lost or doubled, and that an account *)
(* that was accepted has its lists or is still asking for them.            *)
(*                                                                         *)
(* The first two need each other: a list that is loaded lowers due, which  *)
(* is a natural number because the request it answers is counted.  The     *)
(* third says of the hubs that whatever is lost of them is asked for again *)
(* when the servers come: a request for the hubs of nobody is harmless as  *)
(* long as the servers are asked for (AskedInv).                           *)
(***************************************************************************)
EXTENDS ServerLists, TLAPS

ListsInv == TypeOK /\ ServersAreAskedOnce

\* The lists start with nothing asked for but the default list.
LEMMA ListsInit == Init => ListsInv
<1> SUFFICES ASSUME Init PROVE ListsInv
  OBVIOUS
<1>1. /\ autoconnect \in BOOLEAN /\ loggedIn \in BOOLEAN
      /\ loginReply \in BOOLEAN /\ hubRead = "none" /\ running \in BOOLEAN
  BY DEF Init
<1>2. CASE loginReply
  <2>1. serverReply = "none" /\ logins = 1 /\ due = 0 /\ account \in Accounts
    BY <1>2 DEF Init
  <2> QED
    BY <1>1, <2>1, ListsAssumption
    DEF Init, ListsInv, TypeOK, ServersAreAskedOnce, ServerRequests
<1>3. CASE ~loginReply
  <2>1. serverReply = "default" /\ logins = 0 /\ due = 1 /\ account = "none"
    BY <1>3 DEF Init
  <2> QED
    BY <1>1, <2>1, ListsAssumption
    DEF Init, ListsInv, TypeOK, ServersAreAskedOnce, ServerRequests, Owners
<1> QED
  BY <1>2, <1>3

\* Whose list is asked for.
LEMMA OwnerType == ASSUME TypeOK PROVE Owner \in Owners
  BY DEF TypeOK, Owner, Owners

LEMMA NoOwnerIsNone == "none" \notin Owners /\ "read" \notin Owners /\ "failed" \notin Owners
  BY ListsAssumption DEF Owners

\* A request for hubs keeps the type of what it changes.
LEMMA GetHubsType ==
  ASSUME TypeOK, NEW owner \in Owners, GetHubs(owner)
  PROVE  /\ hubReply' \in Owners \cup {"none", "read", "failed"}
         /\ hubRead' \in {"none", "some", "all"}
         /\ oldHubReplies' \in Nat
<1>1. hubReply' \in Owners \cup {"none", "read", "failed"}
  BY DEF GetHubs
<1>2. hubRead' \in {"none", "some", "all"}
  BY DEF GetHubs
<1>3. oldHubReplies' = oldHubReplies \/ oldHubReplies' = oldHubReplies + 1
  <2>1. oldHubReplies \in Nat
    BY DEF TypeOK
  <2>2. CASE HubsInFlight
    BY <2>1, <2>2 DEF GetHubs
  <2>3. CASE ~HubsInFlight
    BY <2>1, <2>3 DEF GetHubs
  <2> QED
    BY <2>2, <2>3
<1>4. oldHubReplies' \in Nat
  BY <1>3 DEF TypeOK
<1> QED
  BY <1>1, <1>2, <1>4

\* A request for servers that aborts another has it retried; it counts for one more.
LEMMA GetServerListCounts ==
  ASSUME TypeOK, NEW owner \in Owners, NEW retries \in Nat, GetServerList(owner, retries)
  PROVE  /\ serverReply' \in Owners
         /\ serverRetries' \in Nat
         /\ hubReply' \in Owners \cup {"none", "read", "failed"}
         /\ hubRead' \in {"none", "some", "all"}
         /\ oldHubReplies' \in Nat
         /\ ServerRequests' = retries + (IF serverReply = "none" THEN 0 ELSE 1) + 1
<1>1. serverReply' = owner /\ owner # "none"
  BY NoOwnerIsNone DEF GetServerList
<1>2. CASE serverReply # "none"
  <2>1. serverRetries' = retries + 1 /\ GetHubs(owner)
    BY <1>2 DEF GetServerList
  <2>2. ServerRequests' = retries + 1 + 1
    BY <1>1, <2>1 DEF ServerRequests
  <2> QED
    BY <1>1, <1>2, <2>1, <2>2, GetHubsType
<1>3. CASE serverReply = "none"
  <2>1. serverRetries' = retries /\ UNCHANGED <<hubReply, hubRead, oldHubReplies>>
    BY <1>3 DEF GetServerList
  <2>2. ServerRequests' = retries + 1
    BY <1>1, <2>1 DEF ServerRequests
  <2> QED
    BY <1>1, <1>3, <2>1, <2>2 DEF TypeOK
<1> QED
  BY <1>2, <1>3

\* One more fault is still within the bound.
LEMMA FaultType == ASSUME TypeOK, Fault PROVE faults' \in 0..MaxFaults
  BY ListsAssumption DEF TypeOK, Fault

\* What leaves the servers and their requests alone keeps the count.
LEMMA CountKept ==
  ASSUME ServersAreAskedOnce, UNCHANGED <<serverVars, due>>
  PROVE  ServersAreAskedOnce'
  BY DEF ServersAreAskedOnce, ServerRequests, serverVars

\* The account: only a login that succeeds asks for servers.
LEMMA AccountStep ==
  ASSUME ListsInv, (\E user \in Accounts : Login(user)) \/ LoginSucceeds \/ LoginFails \/ Logout
  PROVE  ListsInv'
<1> USE DEF ListsInv
<1>1. CASE (\E user \in Accounts : Login(user)) \/ LoginFails \/ Logout
  <2>1. UNCHANGED <<serverVars, due>>
    BY <1>1 DEF Login, LoginFails, Logout, otherVars
  <2>2. loggedIn' \in BOOLEAN /\ loginReply' \in BOOLEAN
    BY <1>1 DEF Login, LoginFails, Logout, TypeOK
  <2>3. logins' \in Nat
    BY <1>1 DEF Login, LoginFails, Logout, TypeOK
  <2>5. /\ account' \in Accounts \cup {"none"}
        /\ ~(loggedIn' /\ loginReply')
        /\ loggedIn' \/ loginReply' => account' # "none"
    BY <1>1, ListsAssumption DEF Login, LoginFails, Logout, TypeOK
  <2>4. TypeOK'
    BY <1>1, <2>2, <2>3, <2>5
    DEF Login, LoginFails, Logout, TypeOK, serverVars, hubVars, listVars, otherVars
  <2> QED
    BY <2>1, <2>4, CountKept
<1>2. CASE LoginSucceeds
  <2>1. GetServerList(account, serverRetries) /\ due' = due + 1
    BY <1>2 DEF LoginSucceeds
  <2>2. account \in Owners /\ account # "none" /\ serverRetries \in Nat
    BY <1>2 DEF Owners, TypeOK, LoginSucceeds
  <2>3. /\ serverReply' \in Owners
        /\ serverRetries' \in Nat
        /\ hubReply' \in Owners \cup {"none", "read", "failed"}
        /\ hubRead' \in {"none", "some", "all"}
        /\ oldHubReplies' \in Nat
        /\ ServerRequests' = ServerRequests + 1
    BY <2>1, <2>2, GetServerListCounts DEF ServerRequests
  <2>4. loggedIn' = TRUE /\ loginReply' = FALSE /\ account' = account
    BY <1>2 DEF LoginSucceeds
  <2>5. due' \in Nat
    BY <2>1 DEF TypeOK
  <2>6. TypeOK'
    BY <1>2, <2>2, <2>3, <2>4, <2>5 DEF LoginSucceeds, TypeOK, listVars
  <2>7. ServersAreAskedOnce'
    BY <2>1, <2>3 DEF ServersAreAskedOnce
  <2> QED
    BY <2>6, <2>7
<1> QED
  BY <1>1, <1>2

\* The answers to a request for servers: one that is not loaded is retried.
LEMMA ServersStep ==
  ASSUME ListsInv, ServersLoaded \/ ServersUnreadable \/ ServersFailed
  PROVE  ListsInv'
<1> USE DEF ListsInv
<1>1. ServerRequests = serverRetries + 1 /\ serverRetries \in Nat /\ serverReply \in Owners
  BY DEF ServersLoaded, ServersUnreadable, ServersFailed, ServerRequests, TypeOK
<1>2. serverReply' = "none"
  BY DEF ServersLoaded, ServersUnreadable, ServersFailed
<1>3. CASE ServersLoaded
  <2>1. due' = due - 1 /\ serverRetries' = serverRetries /\ GetHubs(Owner)
    BY <1>3 DEF ServersLoaded
  <2>2. due' = serverRetries
    BY <1>1, <2>1 DEF ServersAreAskedOnce
  <2>3. ServersAreAskedOnce'
    BY <1>1, <1>2, <2>1, <2>2 DEF ServersAreAskedOnce, ServerRequests
  <2>4. /\ hubReply' \in Owners \cup {"none", "read", "failed"}
        /\ hubRead' \in {"none", "some", "all"}
        /\ oldHubReplies' \in Nat
    BY <2>1, OwnerType, GetHubsType
  <2>5. TypeOK'
    BY <1>1, <1>2, <1>3, <2>2, <2>4 DEF ServersLoaded, TypeOK, accountVars
  <2> QED
    BY <2>3, <2>5
<1>4. CASE ServersUnreadable \/ ServersFailed
  <2>1. serverRetries' = serverRetries + 1 /\ due' = due
    BY <1>4 DEF ServersUnreadable, ServersFailed, otherVars
  <2>2. ServersAreAskedOnce'
    BY <1>1, <1>2, <2>1 DEF ServersAreAskedOnce, ServerRequests
  <2>3. /\ hubReply' \in Owners \cup {"none", "read", "failed"}
        /\ hubRead' \in {"none", "some", "all"}
        /\ oldHubReplies' \in Nat
    BY <1>4, OwnerType, GetHubsType DEF ServersUnreadable, ServersFailed, hubVars, TypeOK
  <2>4. faults' \in 0..MaxFaults /\ hubRetries' \in Nat
    BY <1>4, FaultType DEF ServersUnreadable, ServersFailed, hubVars, TypeOK
  <2>5. TypeOK'
    BY <1>1, <1>2, <1>4, <2>1, <2>3, <2>4
    DEF ServersUnreadable, ServersFailed, TypeOK, accountVars, listVars, otherVars
  <2> QED
    BY <2>2, <2>5
<1> QED
  BY <1>3, <1>4

\* A retry is one request less that waits, and one more that is made.
LEMMA RetryServersStep == ASSUME ListsInv, RetryServers PROVE ListsInv'
<1> USE DEF ListsInv
<1>1. GetServerList(Owner, serverRetries - 1) /\ due' = due
  BY DEF RetryServers, otherVars
<1>2. serverRetries - 1 \in Nat /\ serverRetries \in Nat
  BY DEF RetryServers, TypeOK
<1>3. /\ serverReply' \in Owners
      /\ serverRetries' \in Nat
      /\ hubReply' \in Owners \cup {"none", "read", "failed"}
      /\ hubRead' \in {"none", "some", "all"}
      /\ oldHubReplies' \in Nat
      /\ ServerRequests' = ServerRequests
  BY <1>1, <1>2, OwnerType, GetServerListCounts DEF ServerRequests
<1>4. faults' \in 0..MaxFaults
  BY FaultType DEF RetryServers, TypeOK
<1>5. TypeOK'
  BY <1>1, <1>3, <1>4 DEF RetryServers, TypeOK, accountVars, listVars, otherVars
<1>6. ServersAreAskedOnce'
  BY <1>1, <1>3 DEF ServersAreAskedOnce
<1> QED
  BY <1>5, <1>6

\* The hubs leave the servers alone.
LEMMA HubsStep ==
  ASSUME ListsInv,
         HubsLoaded \/ HubsUnreadable \/ HubsFailed \/ OldHubsArrive \/ OldHubsFail \/ RetryHubs
  PROVE  ListsInv'
<1> USE DEF ListsInv
<1>1. UNCHANGED <<serverVars, due>>
  BY DEF HubsLoaded, HubsUnreadable, HubsFailed, OldHubsArrive, OldHubsFail, FinishOldHubs,
         TakeNewestHubs, RetryHubs, otherVars
<1>2. ServersAreAskedOnce'
  BY <1>1, CountKept
<1>3. CASE HubsLoaded
  <2>1. hubs' \in Owners /\ hubReply' = "read"
    BY <1>3 DEF HubsLoaded, HubsInFlight
  <2>3. running' \in BOOLEAN
    BY <1>3 DEF HubsLoaded, AutoLog, TypeOK
  <2>4. TypeOK'
    BY <1>3, <2>1, <2>3 DEF HubsLoaded, TypeOK, accountVars, serverVars
  <2> QED
    BY <1>2, <2>4
<1>4. CASE HubsUnreadable \/ HubsFailed
  <2>1. faults' \in 0..MaxFaults
    BY <1>4, FaultType DEF HubsUnreadable, HubsFailed, TypeOK
  <2>2. TypeOK'
    BY <1>4, <2>1
    DEF HubsUnreadable, HubsFailed, TypeOK, accountVars, serverVars, listVars, otherVars
  <2> QED
    BY <1>2, <2>2
<1>5. CASE OldHubsArrive \/ OldHubsFail
  <2>1. PICK retries \in Nat : FinishOldHubs(retries) \/ TakeNewestHubs(retries)
    BY <1>5 DEF OldHubsArrive, OldHubsFail, TypeOK
  <2>2. faults' \in 0..MaxFaults
    BY <1>5, FaultType DEF OldHubsArrive, OldHubsFail, TypeOK
  <2>3. hubRetries' \in Nat /\ oldHubReplies' \in Nat
    BY <2>1 DEF FinishOldHubs, TakeNewestHubs, TypeOK
  <2>4. hubRead' \in {"none", "some", "all"}
    BY <2>1 DEF FinishOldHubs, TakeNewestHubs, TypeOK
  <2>6. hubs' \in Owners \cup {"none"} /\ running' \in BOOLEAN
    BY <2>1 DEF FinishOldHubs, TakeNewestHubs, HubsInFlight, AutoLog, TypeOK, listVars, otherVars
  <2>7. UNCHANGED <<accountVars, serverVars, hubReply, servers, due>>
    BY <2>1 DEF FinishOldHubs, TakeNewestHubs, listVars, otherVars
  <2>5. TypeOK'
    BY <2>2, <2>3, <2>4, <2>6, <2>7 DEF TypeOK, accountVars, serverVars
  <2> QED
    BY <1>2, <2>5
<1>6. CASE RetryHubs
  <2>1. GetHubs(Owner) /\ hubRetries' \in Nat
    BY <1>6 DEF RetryHubs, TypeOK
  <2>2. /\ hubReply' \in Owners \cup {"none", "read", "failed"}
        /\ hubRead' \in {"none", "some", "all"}
        /\ oldHubReplies' \in Nat
    BY <2>1, OwnerType, GetHubsType
  <2>3. TypeOK'
    BY <1>6, <2>1, <2>2
    DEF RetryHubs, TypeOK, accountVars, serverVars, listVars, otherVars
  <2> QED
    BY <1>2, <2>3
<1> QED
  BY <1>3, <1>4, <1>5, <1>6

\* Every step keeps both invariants.
LEMMA ListsNext == ListsInv /\ [Next]_vars => ListsInv'
<1> SUFFICES ASSUME ListsInv, [Next]_vars
             PROVE  ListsInv'
  OBVIOUS
<1>1. CASE UNCHANGED vars
  BY <1>1 DEF vars, accountVars, serverVars, hubVars, listVars, otherVars, ListsInv, TypeOK,
              ServersAreAskedOnce, ServerRequests
<1>2. CASE Next
  BY <1>2, AccountStep, ServersStep, RetryServersStep, HubsStep DEF Next
<1> QED
  BY <1>1, <1>2

\* Every variable of ServerLists has its type.
THEOREM ListsTypeCorrect == Spec => []TypeOK
<1>1. ListsInv => TypeOK
  BY DEF ListsInv
<1> QED
  BY <1>1, ListsInit, ListsNext, PTL DEF Spec

\* A request for servers that was aborted, failed or could not be read is made again
\* exactly once (getServerList and its two slots).
THEOREM ServersAreNotForgotten == Spec => []ServersAreAskedOnce
<1>1. ListsInv => ServersAreAskedOnce
  BY DEF ListsInv
<1> QED
  BY <1>1, ListsInit, ListsNext, PTL DEF Spec

-----------------------------------------------------------------------------
(* The lists of an account.                                                *)

Asking == serverReply # "none" \/ serverRetries > 0

\* No list of another, or of nobody, is on its way to an account; their hubs may be, while
\* the servers, which bring the request for the right ones, are asked for.
AskedInv ==
    loggedIn =>
        /\ serverReply \in {account, "none"}
        /\ servers = account \/ Asking
        /\ hubReply \in Owners \ {account} => Asking
        /\ hubs = account \/ hubReply = account \/ hubRetries > 0 \/ Asking

LEMMA AskedInit == Init => AskedInv
  BY DEF Init, AskedInv

\* It is what the property says.
LEMMA AskedIsAsked == TypeOK /\ AskedInv => ListsAreAsked
<1> SUFFICES ASSUME TypeOK, AskedInv, loggedIn
             PROVE  /\ servers = account \/ ServerRequests > 0
                    /\ hubs = account \/ HubRequests > 0 \/ ServerRequests > 0
  BY DEF ListsAreAsked
<1>1. serverRetries \in Nat /\ hubRetries \in Nat /\ oldHubReplies \in Nat
  BY DEF TypeOK
<1>2. ASSUME Asking PROVE ServerRequests > 0
  BY <1>1, <1>2 DEF Asking, ServerRequests
<1>3. ASSUME hubReply = account \/ hubRetries > 0 PROVE HubRequests > 0
  <2>1. CASE HubsInFlight
    BY <1>1, <2>1 DEF HubRequests
  <2>2. CASE ~HubsInFlight
    <3>1. hubRetries > 0
      BY <1>3, <2>2 DEF HubsInFlight, Owners, TypeOK
    <3> QED
      BY <1>1, <2>2, <3>1 DEF HubRequests
  <2> QED
    BY <2>1, <2>2
<1> QED
  BY <1>2, <1>3 DEF AskedInv

\* While an account is in, whatever is asked for is asked for it.
LEMMA AskedForUser == ASSUME loggedIn PROVE Owner = account
  BY DEF Owner

\* A login asks for the servers; the rest of the account asks for nothing.
LEMMA AskedAccount ==
  ASSUME TypeOK, AskedInv,
         (\E user \in Accounts : Login(user)) \/ LoginSucceeds \/ LoginFails \/ Logout
  PROVE  AskedInv'
<1>1. CASE LoginSucceeds
  <2>1. serverReply' = account /\ account' = account /\ account # "none"
    BY <1>1 DEF LoginSucceeds, GetServerList, TypeOK
  <2> QED
    BY <2>1 DEF AskedInv, Asking
<1>2. CASE (\E user \in Accounts : Login(user)) \/ LoginFails
  BY <1>2 DEF Login, LoginFails, AskedInv, Asking, serverVars, hubVars, listVars
<1>3. CASE Logout
  BY <1>3 DEF Logout, AskedInv
<1> QED
  BY <1>1, <1>2, <1>3

\* The answers with the servers, and their retries, ask for the hubs of the account.
LEMMA AskedServers ==
  ASSUME TypeOK, AskedInv,
         ServersLoaded \/ ServersUnreadable \/ ServersFailed \/ RetryServers
  PROVE  AskedInv'
<1>1. serverRetries \in Nat /\ serverReply \in Owners \cup {"none"} /\ UNCHANGED <<loggedIn, account>>
  BY DEF TypeOK, ServersLoaded, ServersUnreadable, ServersFailed, RetryServers, accountVars
<1>2. CASE ServersLoaded
  <2>1. /\ servers' = serverReply /\ serverReply' = "none" /\ serverReply # "none"
        /\ hubReply' = Owner
    BY <1>2 DEF ServersLoaded, GetHubs
  <2> QED
    BY <1>1, <2>1, AskedForUser DEF AskedInv
<1>3. CASE ServersUnreadable \/ ServersFailed
  <2>1. serverReply' = "none" /\ serverRetries' = serverRetries + 1
    BY <1>3 DEF ServersUnreadable, ServersFailed
  <2>2. Asking'
    BY <1>1, <2>1 DEF Asking
  <2> QED
    BY <2>1, <2>2 DEF AskedInv
<1>4. CASE RetryServers
  <2>1. serverReply' = Owner /\ Owner # "none"
    BY <1>4, OwnerType, NoOwnerIsNone DEF RetryServers, GetServerList
  <2> QED
    BY <1>1, <2>1, AskedForUser DEF AskedInv, Asking
<1> QED
  BY <1>2, <1>3, <1>4

\* Hubs that are not loaded are retried, unless they are an older reply's.
LEMMA AskedHubs ==
  ASSUME TypeOK, AskedInv,
         HubsLoaded \/ HubsUnreadable \/ HubsFailed \/ OldHubsArrive \/ OldHubsFail \/ RetryHubs
  PROVE  AskedInv'
<1>1. UNCHANGED <<loggedIn, account, serverReply, serverRetries, servers>>
  BY DEF HubsLoaded, HubsUnreadable, HubsFailed, OldHubsArrive, OldHubsFail, FinishOldHubs,
         TakeNewestHubs, RetryHubs, accountVars, serverVars, listVars
<1>2. hubRetries \in Nat
  BY DEF TypeOK
<1>3. CASE HubsLoaded
  <2>1. hubs' = hubReply /\ hubReply' = "read" /\ hubReply \in Owners
    BY <1>3 DEF HubsLoaded, HubsInFlight
  <2> QED
    BY <1>1, <2>1, NoOwnerIsNone DEF AskedInv, Asking
<1>4. CASE HubsUnreadable \/ HubsFailed
  <2>1. hubRetries' = hubRetries + 1 /\ hubReply' \notin Owners
    BY <1>4, NoOwnerIsNone DEF HubsUnreadable, HubsFailed
  <2>2. hubRetries' > 0
    BY <1>2, <2>1
  <2> QED
    BY <1>1, <2>1, <2>2 DEF AskedInv, Asking
<1>5. CASE OldHubsArrive \/ OldHubsFail
  <2>1. PICK retries \in {hubRetries, hubRetries + 1} :
           FinishOldHubs(retries) \/ TakeNewestHubs(retries)
    BY <1>5 DEF OldHubsArrive, OldHubsFail
  <2>2. hubRetries > 0 => hubRetries' > 0
    BY <1>2, <2>1 DEF FinishOldHubs, TakeNewestHubs
  <2>3. hubReply' = hubReply
    BY <2>1 DEF FinishOldHubs, TakeNewestHubs
  <2>4. hubs' = hubs \/ (hubs' = hubReply /\ hubReply \in Owners)
    BY <2>1 DEF FinishOldHubs, TakeNewestHubs, HubsInFlight, listVars
  <2> QED
    BY <1>1, <2>2, <2>3, <2>4 DEF AskedInv, Asking
<1>6. CASE RetryHubs
  <2>1. hubReply' = Owner
    BY <1>6 DEF RetryHubs, GetHubs
  <2> QED
    BY <1>1, <2>1, AskedForUser DEF AskedInv, Asking
<1> QED
  BY <1>3, <1>4, <1>5, <1>6

LEMMA AskedNext == TypeOK /\ AskedInv /\ [Next]_vars => AskedInv'
<1> SUFFICES ASSUME TypeOK, AskedInv, [Next]_vars
             PROVE  AskedInv'
  OBVIOUS
<1>1. CASE UNCHANGED vars
  BY <1>1 DEF vars, accountVars, serverVars, hubVars, listVars, AskedInv, Asking
<1>2. CASE Next
  BY <1>2, AskedAccount, AskedServers, AskedHubs DEF Next
<1> QED
  BY <1>1, <1>2

LEMMA AskedAlways == Spec => []AskedInv
  BY AskedInit, AskedNext, ListsTypeCorrect, PTL DEF Spec

\* An account that was accepted has its servers and its hubs, or a request that is to
\* bring them is under way (processLoginResult, getServerList, getHubs and their slots).
THEOREM AccountsAreServed == Spec => []ListsAreAsked
  BY AskedAlways, AskedIsAsked, ListsTypeCorrect, PTL

\* Neither the default list nor that of another account ever replaces that of the account
\* that is in: its login aborts the request for any of them, and every later one, a retry
\* included, is for the account (getServerList, mAccountLogin).
THEOREM AccountsKeepTheirServers == Spec => AccountKeepsItsServers
<1>1. TypeOK /\ AskedInv /\ [Next]_vars => [loggedIn /\ servers' # servers => servers' = account]_vars
  <2> SUFFICES ASSUME TypeOK, AskedInv, [Next]_vars, loggedIn, servers' # servers
               PROVE  servers' = account
    OBVIOUS
  <2>1. CASE ServersLoaded
    BY <2>1 DEF ServersLoaded, AskedInv, accountVars
  <2>2. CASE UNCHANGED servers
    BY <2>2
  <2>3. CASE (\E user \in Accounts : Login(user)) \/ LoginSucceeds \/ LoginFails \/ Logout
                \/ ServersUnreadable \/ ServersFailed \/ RetryServers \/ HubsLoaded
                \/ HubsUnreadable \/ HubsFailed \/ OldHubsArrive \/ OldHubsFail \/ RetryHubs
    <3>1. UNCHANGED servers
      BY <2>3 DEF Login, LoginSucceeds, LoginFails, Logout, ServersUnreadable, ServersFailed,
                  RetryServers, HubsUnreadable, HubsFailed, OldHubsArrive, OldHubsFail,
                  FinishOldHubs, TakeNewestHubs, RetryHubs, HubsLoaded, listVars
    <3> QED
      BY <2>2, <3>1
  <2>4. CASE UNCHANGED vars
    BY <2>4 DEF vars, listVars
  <2> QED
    BY <2>1, <2>2, <2>3, <2>4 DEF Next
<1> QED
  BY <1>1, AskedAlways, ListsTypeCorrect, PTL DEF Spec, AccountKeepsItsServers
=============================================================================
