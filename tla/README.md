# Safejumper Plus: verification models

TLA+ models of the Safejumper Plus VPN client, kept beside its code. Paths such
as `src/src/service/...` are those of the repository; the program is the C++/Qt
code under `src/src`.

## The system

A user-level application (Qt, QML) and a privileged service talk over a local
socket. The service runs `openvpn` as a child process, follows it through its
management socket and its log file, and tells the application what became of the
tunnel. The application logs in to proxy.sh, fetches the lists of servers and
hubs, pings them, and decides what a lost or timed out connection means to the
user (kill switch, trying the next port, jumping to another server).

| component | state it keeps | operations | talks to |
|---|---|---|---|
| `OpenvpnManager` (service) | `mState`, the state timer, the management socket, the log watcher, error flags, the last state word, host and parameters of the last start, reconnect counter | `start`, `stop`, `netDown`, `killRunningOpenvpn`; slots for the configuration reply, the timer, the socket, the log file, the reconnect single shot, obfsproxy's end | openvpn (TCP management socket, log file, SIGTERM), proxy.sh (configuration of a server), obfsproxy, the connections (signals) |
| `QVPNServer`, `QVPNClientConnection` (service) | one object per client with the last state it was told, a message buffer | parse a line of JSON into a command; forward each signal of the manager | the manager (calls and signals), `VPNServiceManager` (local socket) |
| `VPNServiceManager` (application) | the state it believes in, whether the user asked for the disconnect, the port loop flags, the state word | connect, disconnect, status, credentials, netdown; a slot per message | the service (local socket), `MainWindow`, `Setting`, `AuthManager` (jump) |
| `AuthManager` (application) | login state, the replies in flight, servers, hubs, the pool of ping workers, pings to go | login, logout, fetch lists, ping all, choose a server to jump to | proxy.sh (web requests), `ServersModel`, `PingWaiter`, `VPNServiceManager` (automatic connection) |
| `Setting` (application) | the index of the server for each encryption, ports, `showNodes`, favourites (QSettings) | `setServer`, `setShowNodes`, `setEncryption`, favourites | everything in the application |
| `MainWindow`, `TrayIconManager`, the QML pages | the menu of servers, the cards | what an entry or a button asks for, when they are drawn again | `Setting`, `AuthManager`, `VPNServiceManager` |
| `PortForwarder` (application) | the request in flight, the list of ports still to do | three chained web requests; nothing calls it | the web page of the server |

The rest (service start-up, logging, paths, the `netdown` helper, the STUN
client, vendored Qt classes, `safechecker`, build files, the OpenVPN patches) has
no state worth a model; `PROJECT.json` lists each part with the reason.

### What is hard about it

Every process is one Qt event loop, so that handlers do not interleave inside a
process, but almost everything a handler does is finished by a later one:
a configuration request, a single shot, a timer, a socket that connects later, a
process that ends later. None of them is cancelled by `stop()` except the timer
and the socket. Hence the hazards, which are listed line by line in
`PROJECT.json`:

* results that arrive after they stopped being wanted (configuration replies,
  reconnect shots, pings of a list that was replaced, replies of an older request);
* state read later than it was true (`mPreviousStateWord`, `mStartDateTime`,
  `mNetDown`, the state a connection was last told, `mHubsReply`);
* loops that go on after a step took away what the next one needs
  (`socketReadyRead` after `disconnectFromOpenvpnSocket`);
* slots that run inside a call (`abort()` runs the slots of the reply it ends) or
  more than once (a timer that is connected again with each process);
* flags set in one handler and reset in another (the state timer, `mInPortLoop`,
  `mPortDialogShown`, `mError`/`mTunError`);
* two processes whose states drift apart: openvpn and obfsproxy outlive a stop or
  the service, the application outlives the service;
* one pointer for processes that end one after the other (`mObfsproxy`), one buffer
  for messages that arrive in pieces, one index for servers of several lists.

What would make each component correct:

* manager: while it says Connecting, something will call it again or the client
  was told of an error; a clean stop is final; Connected means a tunnel to the
  server asked for; an attempt to connect ends; every change of state is
  announced exactly once, in order;
* connections and proxy: the state the user sees is the state of the manager
  after what is in flight has been delivered; a disconnect ends; a command finds
  what it needs at the service;
* `AuthManager`: no worker of the pool idles while servers wait and none is left
  to hang, no server is lost, a request that failed is made again once, an
  account that was accepted gets its lists, the automatic connection has a
  server to connect to;
* obfsproxy: one at a time, for the server of its connection, and in the end there
  is one;
* the choice of a server: what the user chose is what is asked for, whichever
  lists came and whichever settings were changed since.

## Modules

| module | what it is |
|---|---|
| `OpenvpnManager.tla` | the manager with the openvpn process, the clients' commands and the clock around it; its properties and the inductive invariants |
| `ManagerInterface.tla` | what the manager promises its listeners, as an abstract specification of two variables |
| `ServiceLink.tla` | `VPNServiceManager` and its `QVPNClientConnection` at the ends of the local socket, with `ManagerInterface` in the place of the manager |
| `ObfsProxy.tla` | the obfsproxy processes the manager starts and kills, the late news of their ends, and `stop()` that waits |
| `MessageStream.tla` | the local socket as a stream of bytes that is cut into reads, at both ends |
| `MessageChannel.tla` | the channel of whole messages that both ends take it for, as an abstract specification |
| `ServerChoice.tla` | the index of the chosen server through lists, settings, the tray menu, the cards and the jump |
| `PingPool.tla` | the pool of ping workers of `AuthManager` |
| `ServerLists.tla` | login and the two lists of `AuthManager`, with their retries |
| `MCOpenvpnManager.tla`, `MCServerChoice.tla` | symmetry and views; the lists of servers |
| `OpenvpnManagerTypeProofs.tla` | type correctness |
| `OpenvpnManagerProofs.tla` | its safety invariants; the manager implements `ManagerInterface` and answers the commands as `ServiceLink` assumes |
| `ServiceLinkProofs.tla`, `MessageStreamProofs.tla`, `PingPoolProofs.tla`, `ServerListsProofs.tla`, `ObfsProxyProofs.tla`, `ServerChoiceProofs.tla` | type correctness and the safety properties of each |

`ServiceLink` and `OpenvpnManager` are composed through `ManagerInterface`: the one
uses its actions, the other implements them (`ManagerImplementsInterface`,
`CommandsAreAnswered`). `MessageStream` justifies the queue of whole commands in
`ServiceLink`, as it implements `MessageChannel`; of the queue of notifications it
says what may be missing from it. `ObfsProxy` details two calls of `OpenvpnManager`
(`launchObfsproxy`, `stopObfsproxy`) that are a single refusal there, with the state of
the manager left to change as it may. `ServerChoice` names the server of the request
that `ServiceLink` sends. `PingPool` and `ServerLists` are two views of `AuthManager`
that share the answers of proxy.sh: the one says when a list is asked for, the
other what the pings make of an answer.

### OpenvpnManager

One action per slot or command. A slot runs to its end before the next begins, so
a slot is one atomic action with everything it calls: `CmdStart` is
`start()` with the `stop()` and the `startConnecting()` in it. The exception is
a slot that loops over the lines it read. The loop is one action per line
(`ParseLine`), `todo` holds the lines still to parse, and every other slot waits
for `Idle`; the process `openvpn` moves in between, and the service may die.

| model | code |
|---|---|
| `state`, `timer`, `socket`, `watcher` | `mState`, `mStateTimer`, `mSocket` (null, connecting, connected), `mFileSystemWatcher` |
| `mError`, `prevConnected`, `mNetDown`, `host`, `attempt`, `reconnect` | `mError`, `mPreviousStateWord == "CONNECTED"`, `mNetDown`, `mHostname`, `mReconnectAttempt`, `mReconnect` |
| `fetches`, `shots`, `late` | requests of `getOvpn` not answered, `QTimer::singleShot(200, reconnectTimeout)` not fired, `mStartDateTime` more than 60 s ago |
| `signals` | what the slot emitted: `stateChanged`, `sendError`, `timedOut` |
| `openvpn`, `openvpnHost`, `leaving`, `polls`, `log` | the process on the management port and what it is about to say |
| `reported`, `heard`, `intent`, `mixed` | history variables, read by properties only |
| `commands`, `crashes` | counters of the bounded inputs |

Three decisions deserve a word.

* `mReconnect` is read and never set: no constructor initialises it and
  `setReconnect` has no caller. Its value is chosen in `Init` and at each restart
  of the service.
* `setState` (`SetState`, `TimerAfter`, `Emitted`) does nothing when the state
  does not change; the state timer is deleted with a change to Disconnected and
  nowhere else. Everything about the timer follows from that.
* What openvpn can say depends on its phase: asking for the credentials, trying,
  up, exiting. A batch of lines may have been begun in an earlier phase than it
  was ended in, but once a line written while exiting has been read, no other
  follows (`leaving`).

The words of the management interface are collected in classes, one per branch
of `parseSocketStateWord`, `parseSocketQueryWord` and `parseSocketPlainWord`. The
text of messages, the arguments of openvpn and the rights of files are left out,
and the obfsproxy process is in `ObfsProxy`; a failure of any of them that the code handles
is a member of `Faults` or a disjunct.

### ManagerInterface

Two variables: the state of the tunnel and what the last slot said. It says what
a client may rely on: each change of state is said once and in order, an error
never comes with Connected, `timedOut` comes once and last, after the
Disconnected that ends an attempt to connect. `Start` and `Stop` are the answers
to `cmdStart` and `cmdStop`, `Retry` an attempt the manager begins on its own,
`Die` the one change of state nobody is told of. `Tells` is what a listener that
takes the last state it hears comes to believe. The refinement is
`vpn <- state, said <- signals`.

### ServiceLink

| model | code |
|---|---|
| `vpn`, `said` | the manager, by `ManagerInterface` |
| `serving`, `asked`, `credentials` | the service runs; its manager was asked to start; `setParams` was called with name and password |
| `link`, `commands`, `notes` | the local socket and what is unread in it, in both directions |
| `mState`, `mConnected`, `mUserRequestedDisconnect`, `mPortDialogShown` | `VPNServiceManager` |
| `listed` | a login of this run of the application has asked for lists (a logout leaves them, and the jump asks for no more) |
| `told` | history: this connection was told of a state |
| `requests`, `deaths`, `restarts` | counters: of the user, of the deaths of the service, of the restarts of the application |

`Send` is `ensureConnected` with `sendCommand`; `SendCredentials`,
`SendConnectToVPNRequest`, `SendDisconnectFromVPNRequest` are the requests with
what their callers do; one action per notification that is read
(`NotifyStatusChange`, `NotifyTimeout`, `NotifyError`), per command that is read
(`CmdSetCredentials`, `CmdStart`, `CmdStop`), and one each for the making and the
end of a connection on either side. `Forward` is what a
`QVPNClientConnection` does with every signal of the manager. `ManagerMoves` is
everything the manager does of its own accord.

* A manager that was not asked to start stays Disconnected (`asked`): that is
  `QuietUntilStart`, proved of `OpenvpnManager` as `StopIsFinal`.
* One instance of the application runs at a time (`QtSingleApplication`). A
  connection of an application that is gone (`orphan`) is read to its end before
  the next is accepted; in the code the two may overlap.
* A service that is down is restarted with the user's consent (`Send`). The dialog that asks
  for a password may be declined: `execAsRootLinux` then throws an exception that nobody
  catches, and the application ends (`RestartRefused`).
* Messages are whole; `MessageStream` says how far that is true.
* The port loop is left out: `startPortLoop` is reached from `portDialogResult`
  alone, which nothing calls, so that `mInPortLoop` is always FALSE.

### PingPool

One event of the loop makes several calls: a loaded list starts every worker, a
process that crashes reports an error and then its end, a timer calls
`pingTerminated` once for each time it was connected. An event sets `calls`, each
call is an action (`StartWorker`, `TakeResult`, `MissEnd`, `PingTerminated`), and no
other event comes in between.

| model | code |
|---|---|
| `size`, `ping` | `mServersModel->count()`, the ping of each server (which list it was measured for; 0 stands for -1) |
| `mToPing`, `mHubToPing` | the two queues, the second only empty or not |
| `process`, `server`, `timer`, `connections` | `mWorkers` (null, running, sent SIGTERM, ended), the property `kServerIndex`, `mTimers`, and how often `timeout()` is connected |
| `loads` | answers of proxy.sh, bounded |
| `current`, `list`, `answered`, `shrunk`, `interrupted` | history variables |

What `extractPing` reads is a ping or nothing (`measured`); a process that was terminated
at once gives nothing, and that is the answer for its server, as it is in the code. The loop over the hubs
asks for the server -1 each time and ends with the queue empty and no process
started; so no process ever has a hub, and `kHubIndex` is no variable. A `ping`
that the operating system cannot fork is not modelled apart from its `PingError`.

### ServerLists

| model | code |
|---|---|
| `account`, `loggedIn`, `loginReply`, `autoconnect` | `mAccountLogin`, `mLoggedIn`, is `mReply` in flight, the setting |
| `serverReply`, `serverRetries` | for whom `mServerListReply` was asked; single shots of `getServerList` |
| `hubReply`, `hubRead`, `oldHubReplies`, `hubRetries` | for whom `mHubsReply` was asked, how much of it the slots of older replies have read, replies that are in flight and no longer `mHubsReply`, single shots of `getHubs` |
| `servers`, `hubs` | for whom each list was loaded |
| `running` | the application has not crashed |
| `logins`, `faults`, `due` | bounds and history |

* `getServerList` aborts the request in flight, and `abort()` runs its two slots
  at once: one asks for a retry, the other for hubs (`GetServerList`).
* `getHubs` aborts nothing. `fetchHubsFinished` reads `mHubsReply`, whichever reply
  has finished: the slots of an older one find nothing to read, or the beginning of
  the newer answer, or the newer one failed (`FinishOldHubs`), or the whole of the newer
  answer, before its own `finished()` (`TakeNewestHubs`): the list is then loaded, and its
  own slot finds nothing and asks once more (`hubRead = "all"`).
* `autoLog` is called by each answer with hubs. It asks the service to connect to a
  server of the list; where there is none, `getServer` returns null and the
  application crashes, if the service could be reached (`AutoLog`).
* A list that was loaded is not empty. At most one login is in flight: the button
  of the login page is disabled until the answer.
* A `Fault` is an answer that is an error or cannot be read, or a retry of the
  servers that comes before the answer to the request it aborts.

### ObfsProxy

| model | code |
|---|---|
| `state`, `host`, `port`, `obfs` | `mState`, `mHostname`, `mPort`, is `mEncryption` one that needs a proxy |
| `owner` | the process `mObfsproxy` points to |
| `phase`, `dest` | each process: failed to start, starting, listening, ended and not told; the server and the port on its command line |
| `doomed` | its `QProcess` was given to `deleteLater()` |
| `dying`, `orphans` | told to end by `killall`; started by a service that has died |
| `request` | the `stop()` that is under way, whether it waits, and the start after it |
| `doubled`, `relied`, `lapsed`, `asked` | history: a launch within a launch, a launch that found an old proxy, an end that was told when the manager was not connecting, the port of the last start |

A slot is one action. The exception is `stop()`: its loop blocks the event loop of
the service while the processes go on (`request`, `WaitIsOver`); no slot runs in
between. `obfsFinished` (`ObfsFinished`) is the slot of every process and takes
each for the one `mObfsproxy` points to. Two orders of Qt matter: a `QProcess` that
is deleted while its process runs kills it and tells its end (`Deleted`), and
`mObfsproxy.reset(new QProcess())` deletes one that has ended untold, whose end is
told within the launch (`LaunchTwo`). When openvpn finds its local address taken, the
manager raises `mPort` and connects again without a `stop()` (`BindFailed`): a proxy that
runs is kept, and goes on forwarding to the port before. That is why `RightProxy` speaks of
the port that was asked for *or one that was tried since*. An end that comes when
`mObfsproxy` is null makes `obfsFinished` call `deleteLater()` on a null pointer; Qt 5.11,
which the build scripts name (`src/buildlinux/debianpackages.sh:3`), posts that event to no
receiver and drops it with a warning, so that nothing changes here. What the manager
does apart from the proxy is `StateMoves`, any change of the state: the actions of
`OpenvpnManager` that are no start and no stop leave the proxy alone.

### MessageStream and MessageChannel

A message is `Pieces` cells and a newline; a read takes any number of the cells that
have come. A read may thus end within a message, at its end without the newline,
or between two.

| model | code |
|---|---|
| `wire`, `noteWire` | bytes on their way to the service, to the application |
| `mReceiveBuffer`, `m_state` | `QVPNClientConnection` |
| `vpn`, `mState` | the manager's state, `VPNServiceManager::mState` |
| `sent`, `notes`, `carried`, `handled`, `cut` | history of this connection: what was sent and handled, and the notifications a read ended in |

The service adds what it reads to its buffer and carries out whole lines
(`ServiceReads`, `Carry`). The application splits each read into lines and forgets
the rest (`HandleNotes`). Both write with `toLatin1()`: `Meaning` says what the JSON
parser makes of the credentials of a user, as they are, with question marks, or
illegible, which is the command 0, `cmdGetStatus`. `CommandsInOrder` is the
refinement: what the commands *mean* is the message of the channel, `carried` what
was delivered. `CommandsArrive` is the fairness of that channel, `AllReadIsCarried`
what it comes down to in the buffer: when all is read and no whole line is left, nothing is.

### ServerChoice

A list of servers is the set of its servers, as it is always sorted by name: the id
of a server is the number of those before it. The server that is asked for is
saved as an id, for each encryption, and it is looked up in the list of servers or
of hubs as `showNodes` says at that time.

| model | code |
|---|---|
| `servers`, `hubs`, `loggedIn`, `listed` | `mServersModel`, `mHubsModel`, `mLoggedIn`, whether this run has asked for the lists |
| `showNodes`, `encryption`, `saved` | `Setting` |
| `menu`, `card` | the entries of "Connect to ..." of the tray and the card of the map page: each the id it was drawn with and the server it shows |
| `unheard`, `undrawn` | history: a change since then that did not draw it again, or that found a list empty |
| `choice`, `mislaid` | history: the server chosen last, from which list and for which encryption; whether it was read from a menu or a card out of date, or refused by `setServer` |
| `crashed` | a null server was followed |

Every request ends in `Connects`: `sendConnectToVPNRequest` looks the saved id up in
the list of servers for its port and encryption, whatever list it was chosen from,
and follows a null pointer where there is none (`Crashes`), if the service could be
reached. `updateServers` announces a change of the encryption for every list it loads,
which is what draws the menu again; the card hears of lists, of the server and of
the state of the VPN, and not of `showNodes`, and a list that is loaded draws it only when
neither list is empty (`RefreshLoaded`). A jump is any of the servers it may
end with (`JumpTargets`), as pings decide between them.

## Runs

| run | asks | bounds |
|---|---|---|
| `manager_safety` | `TypeOK`, `Supervised`, `QuietUntilStart`, `AnswersCommands` | 1 server, 2 commands, all refusals, the line of the log that says openvpn is up |
| `manager_servers` | `RightServer` | 2 servers (symmetric), 2 commands, 1 death of the service |
| `manager_refines` | `ImplementsInterface`, `Watchdog` (liveness) | 1 server, 1 command, refusals of obfsproxy and of the configuration file, the tun error of the log |
| `manager_timeout` | `TimeoutMeansNotConnected`: violated | 1 server, 3 commands |
| `link_agree` | `TypeOK`, `ShownIsTold`, `ShowsTheTruth` (liveness), `CredentialsFirst` | 4 requests, 2 unread notifications, 2 deaths of the service or restarts of the application |
| `pool_work` | `TypeOK`, `AtWork` (of servers and hubs), `NoServerIsLost`, `QueueIsWorkedOff` (liveness) | 2 workers, lists of 0, 2 and 3 servers, 3 answers |
| `lists_work` | `TypeOK`, `ServersAreAskedOnce`, `ListsAreAsked`, `AccountKeepsItsServers`, `ListsArrive`, `RequestsEnd` (the last two liveness) | 2 accounts, 2 logins, 2 faults |
| `lists_connect` | `ConnectsWithServers`: violated | 2 accounts, 1 login, no fault |
| `obfs_settles` | `TypeOK`, `RightProxy`, `OneProxy`, `WaitsForNone`, `ProxyOrNews`, `WaitEnds`, `ProxySettles` (the last two liveness) | 5 processes at once, 2 servers, 1 port asked for and 1 tried after it, 3 starts, 2 ends of their own, 1 death of the service |
| `obfs_kept` | `ProxyIsKept`: violated | 4 processes, 2 servers, 1 port and 1 after it, 2 starts |
| `wire` | `TypeOK`, `AllReadIsCarried`, `OnlyCutNotesAreLost`, `ShownUnlessCut`, `CommandsInOrder` (refinement), `CommandsArrive` (liveness) | messages of 2 cells, 2 commands and 2 notifications on a connection, 1 death |
| `choice` | `TypeOK`, `MenuIsTrue`, `ChoiceIsKept`, `CardShowsChoice`, `JumpMoves` | 3 servers, 2 encryptions, 4 lists of servers, 3 of hubs; nothing else is bounded (`ChoiceView`) |

Why the bounds are enough for the questions:

* One server is enough where the name of the server plays no part; where it does
  (`RightServer`) two are, because the property compares one server with "another".
* Two commands give start/stop, start/start and netdown/start, each with any
  number of spontaneous events in between: the second, in any state the first and openvpn can
  bring about, is what `AnswersCommands` is about. The manager forgets all but `host`,
  `mNetDown`, `prevConnected` and what is in flight from one start to the next.
* One request in flight per server, one unanswered query, one shot, batches of two
  lines: a second request, query or shot is absorbed by the first (`Capped`), and
  the handlers test only whether there is one. Two lines are what it takes for a
  line to meet the effect of the line before it.
* Four requests of the user give a login, a connect, a disconnect and one more;
  two deaths give one at each end, or two of the service. `MaxUnread` only holds the
  manager's own moves back: the answers to commands are not bounded by it.
* Two workers and three servers make a worker take a second server and leave
  the other to wait; three answers give a list, one that replaces it while it is pinged and
  the hubs. An empty list and a shorter one are among the sizes.
* Two logins and two faults give a login that interrupts the default list, a logout
  between, a retry that meets another request, and an error of each kind. Two accounts
  make the second login one that may find the lists, the requests and the retries of
  the first.
* Five processes leave a name free for every launch of three starts, two unasked ends
  and the launches their ends cause; the names are reused once a process is gone. One
  port beyond the one asked for tells a proxy that was kept from one for the port of now.
* Two cells and a newline tell the places apart in which a read can end; two
  messages make one that is met by the rest of the one before.
* Three servers give a list that loses its first, so that every id moves, a list
  that is empty, and a hub whose id is beyond the list of servers.
* The proofs below do not depend on any of these values.

`CHECK_DEADLOCK FALSE`: with the commands, requests, answers or logins spent, each
system really comes to rest. The views `SafetyView` and
`ServersView` leave out variables that neither a guard nor the property of the
run reads (`signals` and histories of other properties). `AnswersCommands` does read
`signals`, but only what a command leaves in them, which no command makes depend on what was there
before. `ChoiceView` leaves out which choice it was that was mislaid, as
no property distinguishes them.

### Fairness

* `OpenvpnManager`: weak fairness of `ParseLine \/ QueryCrashes` (a loop over lines
  ends), strong fairness of `CheckState` (Qt serves the timers that are due on every
  turn of its event loop, however many socket events there are; the action is
  disabled again and again because a batch of lines is being parsed, hence strong)
  and weak fairness of `TimePasses`. Nothing is assumed of openvpn, of proxy.sh, of
  the network or of the clients: openvpn may hang for ever in any phase.
* `ServiceLink`: each event loop comes back to a socket with something to read
  (`ClientReads`, `ServiceReads`, weak). The manager and the user need do nothing.
* `PingPool`: what an event calls is called (weak, as no other event comes in
  between), and a timer that is due fires (`Timeout`, strong: calls of other events
  disable it again and again). Nothing is assumed of the processes.
* `ServerLists`: the single shots fire and proxy.sh answers. With the faults used up no
  retry aborts the request for the servers, so weak fairness of `ServersLoaded`
  is enough; a request for hubs may be replaced by the next one again
  and again while retries are left, so `HubsLoaded` is strongly fair. An answer that has been
  read to its end by the slot of another is still finished
  (`hubRead = "all" /\ HubsUnreadable`, weak).

* `ObfsProxy`: a slot that is due runs and a `stop()` whose wait is over goes on; a
  process binds its port, fails to, or ends when told to (weak, each by process). No
  start and no unasked end is assumed.
* `MessageStream`: each end reads what has come and the service works its buffer off
  (weak).
* `ServerChoice` claims no liveness.

### The disagreements

* `manager_timeout`. CONNECTED is ignored when the previous state word was
  CONNECTED too, and nothing resets that word. After a connection that was
  stopped while up, the next attempt whose first state word is CONNECTED stays in
  Connecting; a minute later `checkState` stops the tunnel that is up and reports
  a time-out. The property excuses everything the manager may not know: it
  counts only when openvpn is up and the last state word read in this attempt
  was CONNECTED.
* `lists_connect`. The automatic connection begins when the hubs are loaded,
  although the servers may not be: the application follows a null pointer. The run
  shows it without any failure: a login with the automatic connection set interrupts
  the request for the default list, the slots of the aborted reply ask for the hubs, and
  the hubs are loaded before the servers.
* `obfs_kept`. The end of the proxy that `stop()` has killed is told after the next
  start has launched its own; `obfsFinished` takes it for that one and deletes it.
  While the manager is Connecting the deletion's own `finished` launches another
  (`ProxySettles`), so that the connection runs into a proxy that is replaced under it.

Met while modelling, without a run of their own:

* A disconnect asked of a manager that is Disconnected
  changes nothing there, and nothing is said: the application shows
  Disconnecting until the next connect (the exception of `ShownIsTold`).
* A service that died and came back is told to start without
  the credentials, which are only sent after a login (the exception of
  `CredentialsFirst`).
* `startWorker` connects the timer of its worker each time, so that one
  timeout is handled as often as the worker was started: the second call
  terminates the process the first one has just started.
* An older request for hubs that fails while a newer one is in flight is retried
  twice.
* A service that died leaves its obfsproxy behind; the next one tells it to end and
  does not wait, and its launch may rely on it (`relied`). A proxy that dies while
  Connected is not replaced (`lapsed`). A doubled proxy would keep the loop of `stop()`
  waiting for ever (the exception of `WaitEnds`).
* A user who declines the password that restarts the service ends the application, as
  the exception of `execAsRootLinux` is caught nowhere (`RestartRefused`).
* A notification in which a read of the application ends is lost (`cut`).
  An accented letter in the name or the password makes the service take the
  credentials for a request of its status.
* The tray menu is not drawn again for changes while logged out, the card not for a
  change of `showNodes` (`unheard`, `undrawn`). `setServer` refuses a hub whose id is
  beyond the list of servers. A jump after a logout connects with the credentials of
  the account before.
* `nextFavorite` does not come to an end when its index is beyond the list of hubs
  and no hub is a favourite; `favoriteServers` overwrites the saved favourite while
  the list is partly filled; `addFavorite` never finds the "only favourite", as the
  favourites of an empty setting are one empty string.
* `netDown(false)` does nothing on Unix and `mNetDown` stays set, but nothing sends
  `cmdNetdown` today (`MainWindow::onKillSwitch` and the signal `killSwitch` are
  connected to nothing).
* A ping that was started for the list before is set for the server that now has its
  index; the answer with the hubs replaces the processes of servers, which are not
  pinged again (`interrupted`); no hub is ever pinged; every answer with hubs asks
  the service to connect once more; after a login that failed no list is asked for,
  although the comment at `authmanager.cpp:1467` says so.

## Proofs

Each for all values of the constants, under the named assumption of the module
only: `ConstantsAssumption` (`NoHost` is no server; the faults and lines are among
those named; bounds are natural numbers, those of queues positive),
`BoundsAssumption`, `PoolAssumption` (there is a worker), `ListsAssumption`,
`ProxyAssumption` (finitely many processes; ports are natural numbers), `StreamAssumption` (a message has at
least one cell, Disconnected is a state, and "other", which is any other notification, is none) and `ChoiceAssumption` (finitely many
servers, numbered by their names).

| module | theorem | states |
|---|---|---|
| `OpenvpnManagerTypeProofs` | `TypeCorrect` | `Spec => []TypeOK` |
| `OpenvpnManagerProofs` | `StopIsFinal` | `Spec => []QuietUntilStart` |
| | `ServerIsRight` | `Spec => []RightServer` |
| | `ConnectingIsSupervised` | `Spec => []Supervised` |
| | `ManagerImplementsInterface` | `Spec => ImplementsInterface` |
| | `CommandsAreAnswered` | `Spec => AnswersCommands` |
| `ServiceLinkProofs` | `LinkTypeCorrect` | `Spec => []TypeOK` |
| | `ShownIsRight` | `Spec => []ShownIsTold` |
| | `CredentialsComeFirst` | `Spec => CredentialsFirst` |
| `PingPoolProofs` | `PoolTypeCorrect` | `Spec => []TypeOK` |
| | `WorkersAreAtWork` | `Spec => []AtWork` |
| | `EveryServerIsKept` | `Spec => []NoServerIsLost` |
| `ServerListsProofs` | `ListsTypeCorrect` | `Spec => []TypeOK` |
| | `ServersAreNotForgotten` | `Spec => []ServersAreAskedOnce` |
| | `AccountsAreServed` | `Spec => []ListsAreAsked` |
| | `AccountsKeepTheirServers` | `Spec => AccountKeepsItsServers` |
| `ObfsProxyProofs` | `ProxyTypeCorrect` | `Spec => []TypeOK` |
| | `ProxyIsRight` | `Spec => []RightProxy` |
| | `ProxyIsOne` | `Spec => []OneProxy` |
| | `StopsWaitForNone` | `Spec => []WaitsForNone` |
| | `ProxyIsNotForgotten` | `Spec => []ProxyOrNews` |
| `MessageStreamProofs` | `StreamTypeCorrect` | `Spec => []TypeOK` |
| | `StreamIsAChannel` | `Spec => CommandsInOrder` |
| | `NothingIsHeldBack` | `Spec => []AllReadIsCarried` |
| | `LossesAreCuts` | `Spec => []OnlyCutNotesAreLost` |
| | `ShownIsUncut` | `Spec => []ShownUnlessCut` |
| `ServerChoiceProofs` | `ChoiceTypeCorrect` | `Spec => []TypeOK` |
| | `MenuIsAlwaysTrue` | `Spec => []MenuIsTrue` |
| | `ChoiceIsAlwaysKept` | `Spec => []ChoiceIsKept` |
| | `CardIsRight` | `Spec => []CardShowsChoice` |
| | `JumpsMove` | `Spec => JumpMoves` |

Each invariant is proved by an inductive strengthening, one lemma per action or
group of actions, and one temporal step.

* `QuietInv` adds to `QuietUntilStart` that no line is left to parse (or the rest
  of a batch could bring a stopped manager back: it cannot, because a command waits
  for the batch to end) and that a manager that has not seen a start is quiet.
* `SupervisedInv` adds to `Supervised` the argument of why an *abandoned* manager
  (no timer, no request, no shot, no reported error) is never made Connecting.
  The only line that could is a state word of class CONNECTING. A manager gets
  abandoned with its socket open only by EXITING, and openvpn writes only its last
  words after that (`Gone`, `LastWords`).
* `ServerInv` says that as long as no start left something of another server
  behind, all that is in flight and all that runs belongs to `host`.
* The refinement proof maps each action to a step of `ManagerInterface` or to a
  stutter; `TypeOK` is all the invariant it needs.
* `ShownIsRight` rests on lemmas about `Tells`: it composes along the queue of
  notifications, and each action of `ManagerInterface` says what it does. The
  strengthening `FreshIsUntold` says that a connection that is yet to be made was
  told nothing.
* `WorkInv` adds to `AtWork` what the calls of an event can be: an end is
  only called for a process that ended or was replaced, and never together with
  `pingTerminated`; a timer that runs is connected; and the ids that wait are within
  the list as long as no list got shorter. Waiting hubs keep a worker at work too, as
  the loop that finds them also empties their queue.
* `LossInv` adds to `NoServerIsLost` that a process of the current list that
  ended or was terminated has given its answer, unless its call is the next.
* The types of `ServerLists` and `ServersAreAskedOnce` are proved together: `due` is
  a natural number because the request that is answered is counted.
* `AskedInv` adds to `ListsAreAsked` that no list of another account, and no default
  list, is on its way once an account is logged in, which the abort in `getServerList`
  sees to, and that hubs of another or of nobody may be, but only while the servers
  are asked for, which bring the request for the right ones. `AccountKeepsItsServers` follows from it.
* `ProxyInv` adds to `RightProxy` and `OneProxy` that `mObfsproxy`, and what is to be
  deleted, is never a process without a `QProcess` (`PointerOK`), and that a start
  that comes out of `stop()` finds no proxy but those that were told to end
  (`Cleared`), which is why it may change the server; and that a port is only ever raised
  between two starts (`Tried`). The set of what runs is kept
  to one by each action apart, without counting (`AtMostOne`).
* `NewsInv` adds to `WaitsForNone` and `ProxyOrNews` what `stop()` may rely on: the
  process of `mObfsproxy` is the only one that runs (`OwnerRuns`), no orphan was left
  when it was launched (`NoOrphans`), and a connection that needs a proxy knows its
  server (`HostKnown`), so that no launch is a launch of nothing.
* `CommandInv` of `MessageStream` reads off the place of a cell, in the buffer and on
  the wire, which command it belongs to and where in it: that is what makes the first
  newline the end of the first command not carried out, wherever the reads ended. Its
  arithmetic is that of lines of one width (`SameLine`). `NoneForTheDead` says that
  nothing waits for an end that is gone, so that a new connection begins with empty
  wires and an empty buffer. `NoteInv` does the same for the notifications, whose cut
  lines are the reason of all losses (`LossInv`), and `ShownInv` follows the last state
  through them.
* `CredentialsInv` follows the credentials: as long as the service has not died, those
  of a login are known to it or in the queue of unread commands, and before every
  `cmdStart` of that queue.
* `ChoiceInv` adds `ChosenIsSaved`, which says of the list of the choice, and not of
  the list of now, that the saved index names the server in it: it is kept by every
  action but a choice. `CardInv` adds to `CardShowsChoice` the index of the card. Its
  lemmas say that an index names one server of a finite list, and every index below the
  length of a list does (`AtBelow`): a choice that `setServer` refuses is one that is
  counted as mislaid.

Model-checked only: liveness, which is out of the prover's reach, and the violated
properties. Each liveness property but one has a safety invariant behind it that is proved:
what says that the system is not done, and that someone is left who will go on.

| liveness, model-checked | what is proved of it |
|---|---|
| `Watchdog` | `Supervised`: an attempt has a timer, a request or a shot, or ended in an error |
| `ShowsTheTruth` | `ShownIsTold`: what is shown after all is read |
| `CommandsArrive` | `AllReadIsCarried`, `CommandsInOrder` |
| `QueueIsWorkedOff` | `AtWork`: every worker is busy and timed while anything waits |
| `ListsArrive` | `ListsAreAsked`: a list that lacks is asked for |
| `WaitEnds` | `WaitsForNone`: what is waited for was killed |
| `ProxySettles` | `ProxyOrNews`: a proxy runs, or an end launches the next |
| `RequestsEnd` | none |

## Not modelled

* In the manager: the files whose rights are set, the Windows-only slots
  (`processError`, `processFinished`), the local port of the proxy, which is always the same.
* In the application: favourites (the worst of it is listed as a hazard), the ports of
  the encryptions, the pages of the account, updates and the external address.
* Code that nothing reaches: `forwardPorts` and with it `PortForwarder`; `getLevel0`,
  `getLevel1`, `prepareLevels` and `serverIxFromName` (`loadServer` is not called);
  `switchToNextPort` and `switchToNextNode` (`tryNextPort` is not reached), the port
  loop; the commands for the status, the network and killing openvpn.
* The Python under `buildlinux/env32`, `buildlinux/env64` and `buildmac/Resources/env`:
  copies of Python installations that ship obfsproxy, two hundred thousand lines of
  third-party code. The program itself is about seven thousand lines of C++ and QML,
  and a share of lines counted over the Python files says nothing of it.
* Widgets, wrapped libraries and helpers that only do I/O.

## Plan

Done: everything under Modules. Left, in this order:

1. The favourites, as a module of their own beside `ServerChoice`: which are shown,
   next and previous, and the saved one while a list is being filled.
2. An abstract specification of a request with retries that `ServerLists` implements,
   and one of the pool (each server is answered) that `PingPool` implements as long
   as nothing is interrupted; proofs of both.
3. `ServiceLink` with two applications at once, whose connections overlap.
