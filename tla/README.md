# x-prozy: verification development

x-prozy is a control panel for Xray proxy nodes. A *panel* (Go, SQLite through
gorm, HTTP and WebSocket for operators, gRPC for nodes) keeps a register of
*nodes*; a *node agent* on every node opens one bidirectional gRPC stream to the
panel, reports its status, receives Xray configurations and supervises an Xray
process. This directory holds TLA+ models of that program, the TLC
configurations that check them and TLAPS proofs about them.

## 1. Inventory

Paths are relative to `src/`; the panel lives in
`panel/panel-backend/internal/` (written `panel:` below), the agent in
`node/internal/` (`node:`).

| Component | State it keeps | Operations |
|---|---|---|
| Node register (`panel:node/grpc_server.go`, `service.go`, `repository.go`, `model.go`) | rows of table `nodes` (status, reconnect secret, soft deletion); map `streams`; map `snapshots` | `Connect` (handshake, receive loop, deferred clean-up), `SendToNode`, `DisconnectNode`, `Register`, `Reconnect`, `MarkOnline`, `MarkOffline`, `UpdateSnapshot`, `Delete`, `SetAllOffline` at start |
| Node agent (`node:agent/agent.go`, `node/cmd/node/main.go`) | reconnect secret in memory, in a file, in the environment; cached status report | `Run` with its backoff, `connectAndServe` and its three loops, `persistSecret` |
| Xray manager (`node:xray/manager.go`) | `running`, `cancel`, the process, `config.json` | `Start`, `Stop`, `Restart`, `ApplyConfig`, the goroutine waiting for the process |
| Inbounds and config push (`panel:inbound/*`, `panel:web/app.go`) | rows of table `inbounds` | `Create`, `Update`, `Toggle`, `Delete`, `BuildXrayConfig`, the push of the config to every online node |
| Node broadcast (`panel:web/app.go`, `panel:ws/hub.go`, `web/static/js/dashboard.js`) | set of WebSocket clients, writes in progress, the list each dashboard shows | `OnChange`, `Broadcast`, `Accept` and its read loop, `apiListNodes`; in the page `connectWS`, `onopen`, `onclose`, polling |
| Metrics store (`panel:metrics/store.go`) | samples, time of the last write of each node, retention | `Record`, `Query`, `DeleteNode`, `cleanup`, `SetRetention` |
| Operators and sessions (`panel:auth/*`, `panel:middleware/auth.go`, `panel:web/app.go`) | rows of `users` and `sessions` | `Login`, `ValidateToken`, `Logout`, `ChangePassword`, `ChangeUsername`, `CleanupSessions`, seeding |
| Settings (`panel:settings/*`) | key-value rows | typed getters with defaults, setters with validation |
| Certificates (`panel:certs/manager.go`, `buildTransportCredentials` of the agent) | four PEM files, the loaded chain, `CA_FINGERPRINT` of the agents | `NewManager`: generate on first start, load afterwards; `VerifyConnection` |
| Xray statistics, status collector, Prometheus exporter, middleware, rendering, logging, configuration, web pages, generated protocol code | counters and caches only | see `PROJECT.json`, "components", for why they are left out |

How they interact. The agent calls `Connect` on the register; the handler of
one stream runs in its own goroutine and shares the rows, `streams` and
`snapshots` with the handlers of all other streams and with the HTTP handlers.
`Service.OnChange` and `inbound.Service.OnChange` are callbacks that run inside
the goroutine that made the change: the first lists nodes, broadcasts the list
and records metrics; the second builds the configuration of each online node
and sends it with `SendToNode`. On the node the receive loop of the stream
calls `ApplyConfig` of the Xray manager with the stream's context.

What is hard. (a) The reconnect secret is rotated at every handshake, in the
row before the acknowledgement, in the agent's memory before the file. (b) The
handler of a broken stream lingers while the node is back on another one, and
both clean up the same entries. (c) Reads and writes of rows are separate
statements with no transaction around them, and gorm's `Save` writes whole
rows, inserting those that are gone. (d) `running` and `cancel` of the Xray
manager describe the newest process while the waiters of older ones still
write them. (e) Contexts form a tree, and Xray is killed with the context it
happens to be started under. (f) Deletion of a node touches the stream, the
samples, the snapshot and the row in four steps. (g) A list of nodes passes through
goroutines that nothing orders: one per change, one per write, and fetches beside
them. (h) Four files that belong together are written one after the other, and only
the names of two of them are looked at.

What makes each component correct.

* Register: `streams` and `snapshots` only speak of handlers still running;
  every handler cleans up after itself and nobody else's entry; a row that says
  online will be corrected; a secret names one node, is fresh, and is useless
  once replaced; deletion is final.
* Agent with register: the agent always has a secret that lets it back in.
* Xray manager: one process at a time, known to be running, with the latest
  configuration; Stop leaves nothing; a failed process is replaced.
* Inbounds and push: tags are unique; a deleted inbound stays deleted; a node
  that is online and connected when an inbound changes is sent a config with the
  change, or the log says why not, and ends with the config of the current table.
* Node broadcast: once the nodes do not change any more a dashboard ends with the list
  as it is; clients that are gone leave the hub.
* Metrics store: samples of a node are an interval apart, a chart shows every
  sample of its range, and samples past the retention time go, those of a deleted
  node included.
* Operators and sessions: a token that no longer opens the panel never does again; a
  confirmed change of the password ends every session open before it; the operator
  can always tell the name and password of the account.
* Certificates: the panel keeps its identity, so that agents pinned to its CA accept
  it for good; what it serves fits together; a start after the first just loads.

## 2. The modules

| Module | What it is | Code |
|---|---|---|
| `NodeRegistry` | the register: one handler per `Connect` call, the HTTP handler that deletes a node, the panel's restart | `panel:node/*`, `apiDeleteNode` |
| `NodeCredentials` | abstract: what the register promises about reconnect secrets; `NodeRegistry` implements it | (none: it states a promise) |
| `NodeAgent` | the agent's connection loop and the three places of its secret | `node:agent/agent.go`, `node/cmd/node/main.go` |
| `NodeControl` | one agent and the register joined by the streams the agent opens | both |
| `XrayManager` | the Xray manager with its waiters, contexts and `ApplyConfig` | `node:xray/manager.go` |
| `XraySupervisor` | abstract: what the manager promises the agent, one Xray with the last config; `XrayManager` implements it while waiters are prompt | (none: it states a promise) |
| `ConfigPush` | rows of inbounds, the requests that change them, the push | `panel:inbound/*`, `panel:web/app.go` |
| `MetricsHistory` | the query behind the charts, as operators on times | `Store.Query` |
| `MetricsStore` | samples, throttle, retention, the callbacks that record and the request that deletes a node | `panel:metrics/store.go`, `panel:web/app.go` |
| `SessionTokens` | abstract: what the panel promises about session tokens; `AuthSessions` implements it | (none: it states a promise) |
| `AuthSessions` | the account, logins, sessions and the requests that change them | `panel:auth/*`, `panel:middleware/auth.go`, `panel:web/app.go` |
| `NodeBroadcast` | changes of a node, the hub with its write goroutines, one dashboard | `panel:web/app.go`, `panel:ws/hub.go`, `dashboard.js` |
| `CertStore` | the four files, a start that loads or writes them, agents and the CA they trust | `panel:certs/manager.go`, `node:agent/agent.go` |
| `PanelIdentity` | abstract: what the certificates promise the agents, one identity; `CertStore` implements it | (none: it states a promise) |
| `NodeRegistryProofs`, `XrayManagerProofs`, `ConfigPushProofs`, `MetricsStoreProofs`, `AuthSessionsProofs`, `CertStoreProofs`, `NodeControlProofs`, `NodeBroadcastProofs` | the theorems and their proofs | |
| `MCNodeRegistry`, `MCNodeControl`, `MCXrayManager`, `MCConfigPush`, `MCMetricsStore`, `MCAuthSessions`, `MCCertStore` | symmetries, bounds and choices of the small instances | |

How state and actions correspond to the code; `PROJECT.json`, "map", gives the
lines of every definition.

**NodeRegistry.** One value of `Conn` is one `Connect` call. The handler's
position is `pc[c]`, its local `nodeID` is `nodeOf[c]`; `record`, `status` and
`secret` are the columns of a row. A handler draws at most one UUID and at most
one secret, so the connection itself names them (`Node` and `Secret` are `Conn`).
Every database statement, every section under a lock and every send is an action
of its own: `LookupSecret` and `SaveRow` are the two halves of
`Service.Reconnect`, `MarkOffline` and `ForgetSnapshot` those of
`Service.MarkOffline`, `FindStream` to `DeleteRow` the four steps of a deletion.
Soft deletion follows gorm: reads and UPDATEs do not see a deleted row, and
`Save` of a row its UPDATE does not find inserts it again. `Break` is the moment
a transport is known to be broken; messages still buffered are received before
it. `Restart` ends the process at any point and keeps the rows only.

**NodeAgent** and **NodeControl.** `mem`, `cfg`, `file` and `env` are the
agent's memory, its configuration, the secret file and `RECONNECT_SECRET`.
`os.WriteFile` truncates before it writes (`OpenFile`, `WriteFile`). Which faults
a behaviour may meet is chosen once, in `faults`, so that properties can speak of
behaviours without any. In `NodeControl` the agent's actions and the handlers of
`NodeRegistry` are joined: the acknowledgement of handler `c` carries
`NewSecret(c)`, and a handler of a stream the agent has left may still run. Messages of
the agent are taken in the step that handles them; `Heartbeat` is the one its ticker
keeps sending, with a fairness condition of its own.

**XrayManager.** A process is a name with its exit status, the position of the
goroutine waiting for it, the context it was derived from and whether its own
`cancel` was called. The mutex makes `Start` and `Stop` single actions; the
waiter takes it once (`WaiterMarks`) and decides afterwards
(`WaiterDecides`), and `Restart` sleeps between its two halves (`StopXray`,
`RestartXray`). `m.cmd` is never read and is left out, and so are `config.json`'s
contents: a config is the number of the push that wrote it. `faults` is chosen
once: whether waiters may be late, and whether I/O may fail.

**ConfigPush.** A request is at one of the positions in `pc`; `held` is the row
it has read or decoded and is about to write, `todo` the rest of its loop over
the nodes, `built` the config it has built for node `dest`. A row is kept as
enabled or not, tag and target nodes; all other columns only travel into the
config, which is known by the inbounds it deploys. `TagTaken` is the unique index
(soft-deleted rows are in it), `TagExists` the query (they are not), `Inserted`
the column default that replaces `false` in an INSERT. `StatusChanges` and
`StreamChanges` let the rows' status and the streams change as the register may
change them, in any order. `reach` is a history variable, read by the properties
alone: for each node, whether the last change of the table is still owed to it,
was sent, or cannot be demanded (the node was not online and connected all the
while, or the miss was logged). `patient` is chosen once: operators who wait for
an answer before the next request.

**MetricsHistory** and **MetricsStore.** A feed is a goroutine that runs
`OnChange`: it lists the nodes with a snapshot (`todo`), reads the clock for the
next of them (`ReadClock`), takes the lock (`Skip` or `Pass`) and inserts the sample
(`Insert`). Rows and snapshots belong to the register; here any listed node may
have a snapshot or not, which allows every order of the two. The averages in a row
are left out: a chart is the set of the times of its rows. `PointOf` and `Earliest`
are the GROUP BY and the ORDER BY ... LIMIT of the two statements. `fresh` is a
history flag of a sample, read by the properties alone: the throttle has neither
been restarted nor been told to forget the node since. `DropThrottle` to `DropRow`
are the steps of a deletion, `SaveSetting` and `SetRetention` the two halves of a
change of the retention time, `StartCleanup` and `DeleteOld` those of the hourly
loop. `faults` is chosen once: whether statements may fail, whether the clock may be
set back, whether changes of the retention time may overlap.

**AuthSessions.** A login is at `Verify` (reads the row, compares the password),
`Draw` (token and time of expiry) or `InsertSession`; each draws a token of its own,
which names it. A request that changes something passes `RequireAuth` (`Begin`) with
an open session and then follows `want`: `CheckPassword`, `SavePassword` and
`DropSessions` are `ChangePassword`; `ReadRow` and `SaveName` are `ChangeUsername`;
`SaveDuration` and `ApplyDuration` are `apiUpdateSession`. `apiUpdateCredentials` is
both of the first two, one after the other; a name that is too short ends it
between them. `held` is the row that has been read and will be saved whole.
`doomed`, `ended` and `known` are history variables, read by the properties alone:
the sessions open when a request saved the password, those of confirmed changes, and
the names and passwords the operator has reason to try. `faults` is chosen once:
whether statements may fail, and whether requests that change something overlap;
logins, logouts and expiry overlap with everything in either case.

**NodeBroadcast.** There is one node, and a list is the status it shows for it: nodes
travel in one list. `notified`, `listed`, `writes` and `answers` count the goroutines
and answers of each kind and list, since they have no names in the code.
`Report`, `MarkOffline` and `Delete` write the row and start an `OnChange`;
`ChangeQuietly` stands for the three writes that do not. `OnChange` lists
(`ListNodes`) and broadcasts (`Broadcast`) in two steps; each write goroutine gets
through in its own time (`Write`). `handler` is where `Accept` is with a WebSocket,
`health` what the two ends know of it: a connection may be closed, or fall silent
(`"dead"`), which only a write that times out finds out. `asked` and `answers` are the
fetches of the page, which a message may overtake. `Restart` ends the panel at any
point.

**CertStore.** `at` is the place of `NewManager`; `on` says of each file whether it is
absent, created and not yet written, or whole, `key` which key pair it is about,
`signer` which CA signed `server.pem`. `Missing` is `fileExists`, which looks at names
only. `OpenFile` and `FillFile` are the two halves of `writePEM`; `Interrupt` ends a
start between any two of its steps. `CanSign` is a check that `x509.CreateCertificate`
makes. `CAOf` is the search of the agent through the chain it is shown; the hash of a
certificate is as good as its key pair. `stale` and `settled` are history variables,
read by the properties alone. A removal of `ca.pem` takes `server.pem` with it
(`RepairsAssumption`): otherwise the panel would go on serving the certificate that the
old CA signed, with the new CA behind it.

Definitions called "Fault model of the next definition" are the next definition
with a plausible bug in it. No specification uses them: they show that each
property notices such a bug (`PROJECT.json`, "mutants").

## 3. What is checked

| Run | Instance | What it shows |
|---|---|---|
| `NodeRegistrySafety` | 3 connections, one deletable node, failing writes | streams, snapshots, statuses, secrets and deletions stay consistent; `NodeCredentials` is implemented |
| `NodeControl` | 3 connections, all faults or none, fairness | without faults in a handshake the agent never becomes a second node, is locked out only by a deletion, and gets back in; locked out is for good; broken streams are cleaned up; heartbeats repair the status |
| `XrayManager` | 3 process names, 2 streams, 2 pushes, late waiters and failing I/O or neither, fairness | with prompt waiters one process, reported, with the last config, and `XraySupervisor` is implemented; without faults repair works; `running` always has a waiter that will clear it |
| `ConfigPush` | 2 requests, 2 nodes, 2 inbounds, 2 tags, failing statements | no silent miss, distinct tags, final deletions, current configs with patient operators |
| `MetricsStore` | 1 node, 2 callbacks, clock 0 to 4, an interval of 2, hours of 3, retention 1 or 3, all faults or none, fair clean-up | samples stay apart, charts are complete, forgotten nodes stay forgotten, retention is what was stored and is enforced |
| `AuthSessions` | 2 logins, 2 requests, 2 names, 2 passwords, lengths of 1 and 2, clock 0 to 2, all faults or none | a confirmed change of the password ends the sessions before it; without overlap the account and the length of sessions are known; `SessionTokens` is implemented |
| `NodeBroadcast` | 2 calls of `OnChange`, 2 WebSockets, 2 writes each, 1 fetch, 2 faults, fairness | while the row stays as it is, lists that say something else are only used up; as long as nodes report, a dashboard ends with the status they end with, and clients that are gone leave the hub |
| `CertStore` | 6 key pairs, 2 agents, 2 interrupted starts, any removal that takes `server.pem` with `ca.pem` | pinned agents accept the panel, what is served fits, `PanelIdentity` is implemented, starts after the first write nothing |
| `NodeControlAckLost`, `XrayStreamLost`, `ConfigPushOvertaken`, `CertStoreInterrupted` | small | violations: section 6 |

Types are checked in `NodeRegistrySafety`, `MetricsStore` and `AuthSessions`; every
module's `TypeOK` is proved for all constants (`TypeCorrect` of each proof module), and
the other runs spend their time on what is not a matter of types.

Bounds, and why they are enough.

* *Connections.* Two are needed for a stale handler and its successor; the third
  lets a second node register, a handler reconnect while two older ones of its
  node still clean up, and a deletion run beside both. `NodeControl` uses the
  third only in behaviours without faults (`SpareIsForQuiet`); with faults, two make
  every handshake that loses the secret and the retries after it. It uses connections
  in order (`InOrder`), for they differ only in that the node of `c1` may be deleted. A
  connection is used once, so behaviours end: deadlock is not checked there.
* *Processes.* A name is reused as soon as its waiter has ended. Three names
  let an old process be on its way out, another be the current one and a third be
  started. Two pushes make the second overtake the restart of the first. `MaxPush`
  ends behaviours.
* *Inbounds.* `FewInbounds` keeps a second inbound and a second tag to the states
  before any node has connected: the tag properties need two rows and two tags and
  no node, the push properties two nodes and a single row, for enabling or
  directing one inbound already makes every config differ. Two requests suffice for
  every pair of an old and a new read.
* *Samples.* Nodes share nothing but the retention time, so one node is enough; two
  callbacks make the pair that meets at the throttle. Four seconds hold three samples
  an interval apart, one inside and one outside each range, and ranges longer than
  the hour. `FewAtOnce` lets retention changes happen only while no callback and no
  deletion is at work, a clean-up run beside one callback, and at most one sample
  be forgotten by the throttle; the proofs need none of these bounds.
* *Sessions.* Two logins make a session open before a change of the password and one
  that comes in between; two requests make the pair that overlaps. The `FewAtOnce` of
  this run lets two logins and requests be in progress at a time, and lengths of
  sessions vary only while the account does not; again the proofs do without.
* *Lists.* Two calls of `OnChange` make one that lists before and one that lists after a
  change, two writes make a pair that arrives in the wrong order, two WebSockets an old
  client that is still registered beside its successor, two faults a connection that
  falls silent and a fetch that fails or a restart. There is no bound on the number of
  changes.
* *Certificates.* Four key pairs are on disk or pinned at once, one is in memory and one
  is drawn, so key pairs never run out. Two interruptions leave one pair half written
  and then the next.
* *Symmetry* is used for connections that are no deletable node,
  requests, logins, tags, key pairs and agents, and only in runs without liveness properties under fairness.

Deadlock is checked in `AuthSessions`, `CertStore` and `NodeBroadcast`. Elsewhere connections, pushes or the clock
are bounded, so a behaviour may end with nothing left to do.

Fairness, and why the code justifies it. Go schedules every runnable goroutine,
so the steps of handlers, of waiters and of `ApplyConfig` are weakly fair; each
handler has its own condition, since none waits for another. A connected agent
sends a heartbeat on a ticker and closes a stream on which it was told to
disconnect (`recvLoop`); its connection loop runs for ever (`AgentActs`). The
hub's read loops and writes are goroutines as well, and a write to a client that takes
nothing ends after `writeTimeout`; the page's timers and events run while it is open,
but a browser need not find out that a connection is silent. The
clean-up of samples runs on a ticker as long as the panel does. A
process whose context is done is killed by `exec.CommandContext`. Nothing makes
transports break, nodes connect, operators act or faults happen. A write that may
fail may fail every time, so liveness is claimed where writes succeed.

## 4. What is proved

TLAPS proves the following for every value of the constants, from the assumptions
in the modules (`NoConn` is no connection, `NoProc` no process, `None` no inbound,
node or row, deletable nodes are connections, `NoNode` no node, `Keep` and `TooShort` no name, switches are Boolean, intervals are positive,
the bounds of `NodeBroadcast` are naturals, all but `MaxFaults` positive, and
`LimitAssumption`, below). Connections, nodes, processes, requests, inbounds, tags
and feeds may be any sets, finite or not.

* `NodeRegistryProofs`. `TypeOK` alone is not inductive: that a handler past its
  handshake knows a node (`HandlersKnowNodes`) and that this node has a row
  (`NodesHaveRows`) make `IInv`, which is (`Inductive`). `StreamIsServed`,
  `SnapshotIsServed` and `OnlineIsAccounted` are each inductive relative to it;
  `EntryKeptWhileServing` and `DeletionSettles` are steps from it.
  `CredentialsImplemented` shows the refinement: `Register` and `SaveRow` map to
  `Enroll`, `Rotate` or `Reinstate`, `DeleteRow` to `Revoke`, all else to a
  stutter. `SecretIdentifiesNode` and "a spent secret stays spent" are proved of
  the abstract specification and carried over.
* `XrayManagerProofs`. `RunningIsWatched` is inductive with `TypeOK`, for late
  waiters too. The rest has the premise `Prompt`, which never changes: `OneWaited`
  (all waiting processes but one are on their way out) and `ParentsOpened` (no process
  runs under a stream that was never opened) make `PromptInv`; `OneActive`,
  `AliveIsReported` and `StopLeavesNothing` follow from it, and
  `SettledConfigIsLatest` with `ConfigIsComing` (an old config runs only while an
  `ApplyConfig` is on its way to Stop). `SupervisorImplemented` is the refinement of
  `XraySupervisor`: a Start that succeeds is its `Run` because `OneWaited` leaves
  nothing running when `running` is false, `WriteConfig` its `Write`, `StopXray` its
  `Replace`, the end of a process or of its context its `End`, and what waiters do to
  dead processes is not seen. Of the abstract specification `UpToDate` is proved, and
  carried over (`UpToDateInherited`).
* `ConfigPushProofs`. `Base` adds to `TypeOK` that a request about to write knows
  what it writes. `OwedIsComing` is the argument for `NoSilentMiss`: a node owed a
  change is still in front of some request that will build its config after the
  change, or has that very config built and not yet sent. `TagsDistinct` and
  `DeletionSettles` follow from `Base`. `PatientNodesAreCurrent` needs both
  `OwedIsComing` and `OneAtATime`, which says what the only request at work has
  still to send and that everybody else has the current config. `ConfigsAreLoadable`
  rests on `TagsDistinct` at the moment a config is built: a config is sent as it was
  built, however old. (The bound `FewInbounds` would hide a violation, so the run does not
  list it; TLC agrees on an instance with one node and without that bound.)

* `MetricsStoreProofs`. `SpacedInv` adds to `TypeOK` and `SamplesAreSpaced` that the
  last write of a node is the latest sample the throttle knows (`LastIsLatest`): what
  passes the throttle is then an interval away from all of them, even if its time
  was read before theirs. `ChartIsComplete` follows by counting: times an interval
  apart within an hour are at most `Hour \div MinWrite + 1` (`SpacedAreFew`), the
  buckets of a longer range at most `Points + Points \div MinBucket + 2`
  (`BucketsFitTheLimit`), and both fit the limit by `LimitAssumption`: with the
  numbers of the code, 3600 / 25 = 144 < 500 and 300 + 10 + 2 <= 500.

* `AuthSessionsProofs`. `TypeOK` is inductive with `WishesFit`: a request is where its
  wish has sent it, so it never saves `Keep` or a refused name.
  `ConfirmedChangeEndsSessions` needs `TokensAreIssued`: tokens of open, doomed and
  ended sessions belong to logins that are done, so that none is inserted again.
  The refinement (`TokensImplemented`) rests on the same fact. For behaviours without
  overlap `SteadyPart` says that one request is at work, that the row it has read is
  still there, and that what it will save is known.

* `CertStoreProofs`. Nothing in the code compares the files; what they have in common
  follows from the order in which they are written. `FilesFit` says it of the disk at
  every moment (a `server.pem` exists only beside a whole `ca.pem`, whose key, if whole,
  is that of the certificate), `PlaceFits` of the memory of a start at each place,
  `PinsFit` that a pin is that of the CA on disk, `SettledFits` that nothing is missing
  after the panel was ready. Together they are inductive (`Inductive`); `CAOfChain`
  evaluates the agent's search on the chain that is served. `IdentityImplemented` shows
  the refinement of `PanelIdentity`: the identity is drawn when `FillFile` completes
  `ca.pem`, and taken away when an operator removes it. It needs `NewsFits`: the key pair being
  written is pinned by no agent, and trust that has lapsed was given once.

* `NodeControlProofs`, in three parts. (1) *The composition implements the register.* Every
  step of agent and panel is one of `NodeRegistry` or leaves its variables alone
  (`PanelPart`, `RegisterImplemented`), so what is proved of the register holds beside the
  agent: `PromisesKept` and `StepPromisesKept` carry its invariants, its refinement of
  `NodeCredentials` and its action properties over. (2) *Handshakes that are not torn*
  (`Orderly`: no break, no crash in one; the file and the environment may fail). Rows gain
  and lose secrets in `Register` and `SaveRow` only, and only the handler of the agent's own
  stream can be there, while the agent waits in its handshake (`OnlyLinkShakes`).
  With `HandshakeFits` (how far that handler can be, that it registers only an agent
  without a secret, that the row has its secret before the ack) and `SecretsHaveRows` this
  is `Shape`; with `MemoryKept` it is `OrderlyInv`, inductive, and `OrderlyMemoryIsHeld`
  follows: an unwritable file and a pinned secret do no harm before the process restarts.
  Without faults `QInv` adds that the file has what the agent would present
  (`FileKept`), that there is one row at most (`OneNode`) and that an agent without a secret
  has none (`RowlessFits`). It gives `QuietSecretIsHeld`, `QuietAgentIsOneNode` and, with
  `DeletedAreDoomed`, `QuietLockOutIsDeliberate`. (3) *Torn handshakes.* The agent may be
  locked out (`NodeControlAckLost`), and `LockOutIsForGood` is proved of those behaviours
  too: all the agent has is from acks that were sent (`SecretsAreAcked`), a row gets a
  secret only from a handler that has sent none yet, so a secret that no row holds comes
  back to none.

* `NodeBroadcastProofs`. The bags stay within the bounds, what is being written is on its
  way to a registered client whose connection is not over, and a WebSocket that is up is
  the one the page listens to and has a handler (`UpIsServed`). `TypeOK` follows: no
  broadcast can miss an open page once `RegisterClient` has run for it. `StaleRunsOut` is
  the safety half of `StableStatusIsShown`: while the row stays as it is, lists, writes and
  answers that say something else are only used up, and the page turns to one only by using
  it up. `FreshStays` is where this ends: when none is left and the page shows the row, it
  stays so until the row changes. That they do run out is fairness, and left to TLC.

Only model-checked: everything under fairness (`BrokenStreamIsCleanedUp`,
`HeartbeatHealsStatus`, `NodeReconnects`, `FailureIsRepaired`, `RetentionIsEnforced`,
`StableStatusIsShown`, `GoneClientsLeave`), which is beyond the prover, as is ENABLED.
Induction over data is beyond it too; nothing here needs it so far. The other properties
of the passing runs are all stated by a theorem above.

## 5. What holds only under a condition

* *Late waiters.* `WaiterMarks` clears `running` whichever process is current
  (`xray/manager.go:96`). A Start that overtakes the waiter of a process just
  killed is therefore forgotten: a second process may then start beside it, and
  a later Stop misses the first (`:122` returns early). `Restart` sleeps half a
  second to avoid that. A behaviour has such waiters or not, as `faults` says; the
  properties that need the sleep to be long enough have the premise `Prompt`.
* *Failing I/O.* A Restart whose Start fails leaves the node without Xray until the
  next push (`:135`); `SettledConfigIsLatest` speaks of processes that run.
* *Status of rows.* Two paths leave a row online for good, until the panel
  restarts: an acknowledgement that cannot be sent (`grpc_server.go:181` returns
  before the clean-up is deferred) and a failed status write.
  `OnlineIsAccounted` says there is no third. `heartbeatTimeout`
  (`grpc_server.go:24`) is never used.
* *Deletion.* A `Save` pending when a node or an inbound is deleted brings it back;
  `DeletionSettles` says nothing else does. A stream registered between
  `DisconnectNode` and the deletion of the row is not disconnected (`app.go:720`).
* *Secrets.* Any fault between the rotation and the write of the file locks the
  agent out: a lost acknowledgement, a crash (`agent.go:204`), a file that cannot
  be written, a `RECONNECT_SECRET` pinned by the operator (`agent.go:62`).
* *Samples.* `DeleteNode` runs before the row goes (`app.go:723`): a callback that
  has listed the node records a sample afterwards, which stays until the retention
  time is over. After a restart or a deletion the throttle starts anew, so a second
  sample may follow at once, and a chart may then hold more rows than the limit.
  Nothing is recorded while the clock is behind the last write (`store.go:106`). Two
  changes of the retention time at once may leave the Store with the one the
  database does not have, until a restart (`app.go:648`).
* *Sessions.* A login that verified the old password before a change and inserts its
  session after `DeleteSessionsByUser` is not logged out (`auth/service.go:67`): the
  message "Все сессии сброшены" (`app.go:530`) speaks of the sessions there were.
  If the panel ends or the statement fails between the new password and the deletion
  of sessions, the password is changed, the answer is an error, and the old sessions
  stay open (`auth/service.go:116`). Two requests at once may undo each other's change
  of the account (`auth/service.go:129`). `CleanupSessions`, to be called by a ticker
  (`auth/service.go:138`), is never called.
* *Status of a replaced stream.* The clean-up of a replaced stream leaves the entry of
  its successor in `streams` but marks the node offline all the same
  (`grpc_server.go:206`): the next heartbeat repairs it, and until then the node is
  shown offline and gets no config.
* *Tags.* `TagExists` does not see deleted rows, the unique index does
  (`inbound/repository.go:91`): the tag of a deleted inbound passes the check and is
  refused by the INSERT.
* *Dashboards.* The list written last need not be the newest: without a further report
  a dashboard keeps what arrived last (`ws/hub.go:105`), and so it misses a node that
  comes online while nobody reports. A page whose connection fell silent shows what it
  had until the browser notices; the server finds out only by a write, since
  `pingInterval` (`ws/hub.go:17`) is never used. Gauges of a deleted node stay, since
  `RemoveNode` (`metrics/exporter.go:236`) is never called.
* *Certificates.* A first start that ends before all four files are whole leaves a panel
  that does not start until an operator removes files: `SettledStartsSucceed` begins
  when the panel was ready once. Removing `ca.pem` alone leaves a `server.pem` of the
  old CA in service.
* *Push.* Nodes that are offline when an inbound changes, or not yet in the streams
  map, get no config, and nothing pushes when they connect.

## 6. Where the code differs from what it says

| Run | What happens |
|---|---|
| `NodeControlAckLost` | the panel rotates the secret, the acknowledgement is lost, and the agent is locked out |
| `XrayStreamLost` | Xray runs under the context of the panel stream that configured it, dies with it and is not restarted |
| `ConfigPushOvertaken` | of two overlapping requests the older config is sent last, and the node keeps it |
| `CertStoreInterrupted` | a first start that ends between the certificate and the key of the CA makes every later start fail |

`PROJECT.json`, "findings", quotes the lines.

## 7. Not modelled

* *Contents of Xray configs* (`BuildXrayConfig`, `injectStatsAPI`, `defaultConfig`): one
  pass from rows or JSON to JSON, with no state; `ConfigPush` keeps which inbounds a
  config deploys.
* *Xray statistics and the status collector*: numbers read from `/proc` and from the
  `xray` binary, mostly floats and rates over wall-clock time. What becomes of a report
  is in `NodeRegistry`, `MetricsStore` and `NodeBroadcast`.
* *Prometheus exporter*: gauges of a library, set one after the other. The two counts of
  nodes may come from two different lists until the next `OnChange`.
* *TLS itself*, host names, validity dates and intervals; cookies and their attributes.
* *Middleware other than `RequireAuth`, rendering, logging, configuration*: wiring and
  formatting. *Pages other than the dashboard's list, charts and forms*: rendering in the
  browser. *Generated protocol code.*
* *Data races inside gRPC and the collector* (two goroutines sending on one stream): what
  they do is decided in code that is not here.
* `Settings`: the keys that are read at run time are in `MetricsStore` and
  `AuthSessions`; the secret path is read once per start and selects routes.
