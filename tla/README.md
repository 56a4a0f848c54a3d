# nexus: specifications and proofs

TLA+ specifications of nexus (the repository's Go code in `src/`), the TLC
models that check them on small instances, and proofs checked by TLAPS that hold
for every instance.  `PROJECT.json` is the index: which definition stands for
which lines of the code, which run checks which property, which mutation of the
code each property notices, and which hazards of the code the properties are for.

    tlc -config Provisioning.cfg MCProvisioning.tla    # check a model
    tlapm ProvisioningProofs.tla                       # check the proofs

## 1. Inventory of the system

nexus gives developers isolated workspaces: containers with a clone of a
repository, SSH access and services.  A *coordination server* accepts requests,
provisions workspaces and streams events; *node agents* run workspaces through a
*provider* (Docker, LXC, QEMU); a *CLI* does the same locally.

| Component | Source | State | Operations | Hard because | Must hold |
|---|---|---|---|---|---|
| Workspace provisioning | `coordination/handlers_m4.go`, `workspace_registry.go` | in-memory map of workspaces (pointers), services per workspace, containers | create (answers at once, a goroutine provisions), stop, delete, status, list | one goroutine per workspace races with stop and delete; each step can fail; a restart loses the map; identifiers come from the clock | running means started; deleted stays deleted; an outcome is final; creating ends |
| Node registry and events | `coordination/registry.go`, `handlers.go` | map of nodes, set of SSE client channels, `commandCh` | register, update, unregister, command result, stream | state changes and broadcasts are separate critical sections; bounded channels; two parties close a channel | no send on a closed channel; a follower ends up with the registry; a slow client blocks nobody |
| Accounts | `coordination/registry.go`, `registry_sqlite.go`, `handlers.go` | users, GitHub installations (memory and SQLite), OAuth states | register, OAuth callback, authorization of a create | check-then-act; two copies of an installation; restart | one account per name; a state is used once; what was granted is accepted |
| Workspace manager (agent) | `agent/workspace_manager.go`, `workspace_handler.go` | map of workspaces (pointers), set of allocated ports, containers, services with their health | create, start services, stop, delete, status, list, health check | lookups before slow provider calls; partial failure; retries; nested read locks | ports are unique; no container is lost; a check judges the service it looked at |
| Agent node | `agent/node.go`, `executor.go` | sessions, services, command channel | start, stop, commands, heartbeat, monitor | maps read outside their locks; stop while commands run | a live session is known, a vanished one is forgotten; successes are true |
| Service manager (agent) | `agent/services.go` | map of services and a copy in the agent | register, unregister, update, start, stop, health check | copies written back after an unlock | an unregistered service does not reappear |
| Transport pool | `transport/pool.go` | list of connections per target, metrics | get, put, close, clean up | clients on their own schedule; dead and failing connections; a slice shifted under a loop | exclusive use, bounds, no leak, metrics agree |
| Transports | `transport/ssh.go`, `http.go` | a read-write lock, the SSH client or HTTP target | connect, disconnect, execute, upload, download, info | a dial outlives its timeout; nested locks; a target copied before it is used | one connection; callers block for known reasons only |
| Plugins, lock file, orchestrator, service order | `plugins/`, `lock/`, `orchestration/`, `agent/workspace_manager.go` | manifests, lock file | discover, resolve, generate, verify | cycles, map order, staleness | every dependency first; "up to date" means current |
| Providers | `provider/...` | containers | create, start, stop, destroy, exec, list | failures between the two commands of one call | used through the interface only |
| Local controller, worktrees | `ctrl/ctrl.go`, `worktree/`, `paths/` | HEAD, branches, worktrees, directories, containers | create, up, down, shell, services, connect, list, rm | separate processes; partial failure between git, files and provider; the configuration changes in between | the user's branch is restored; down finds every session |
| Configuration and templates | `config/`, `templates/`, `ctrl/ctrl.go` | rules, overrides, clones, generated files, lock file | init, apply, update, plugin update | files are added to and rewritten by different functions | an apply is complete; the lock pins what is merged |
| Login session, GitHub client, usage metrics, CLI | `auth/`, `github/`, `metrics/`, `cmd/` | files | calls, print | sequential | |

How they interact: the server calls the provider and GitHub; the agent
registers with the server over HTTP and calls its provider; the controller calls
git and the providers; providers may use a transport for a remote host.
The server persists users and GitHub data only; the controller's state is the
repository, its directories and the containers.

## 2. What is modelled

Each `MC...` module only adds symmetry or composes; the constants are in
the `.cfg` files.  An action is one critical section or one external call, so that
the steps of goroutines interleave where they can in Go.  Reads that change
nothing are left out unless a later step depends on what they read.  Go maps of
pointers are modelled as such: an object is named by the request that allocated
it, and a map from identifiers gives the object registered *now*, which need not
be the one a goroutine still holds.  Definitions commented "Mutant of ..." are not used by
the specifications: they are plausible mistakes, listed in `PROJECT.json` with
the property that notices each.

### Provisioning (`Provisioning.tla`), run `provisioning`

`AcceptCreate` to `RegisterWorkspace` is the create handler up to its answer
(the identifier is read from `clock` before the repository is forked, the entry
written after), `MarkCreating` ... `FinishProvision` the goroutine with one action per registry
update or provider call, `FailProvision` its error paths, `BeginStop`/`FinishStop`
and `BeginDelete`/`FinishDelete` the two handlers with the gap between lookup and
write, `Restart` a crash of the server and a new `NewServer`.  State: `registry`
and `object` (the map and what its pointers reach), `services`, `container`,
`goroutine`, `call`.  `MinAdvance` says how far the clock moves between two
reads: 0 admits that two requests read the same value, 1 does not.

`WorkspaceApi.tla` is what the component promises a client: a workspace is
submitted, started, settles on an outcome, is stopped, is deleted for good, or
lost in a crash.  `Provisioning` implements it under the mapping
`ApiStatus`/`ApiWork` (a workspace is pending until its goroutine's first write,
and shown by what the registry holds).

The run checks `TypeOK`, `RunningWasStarted`, `ServicesBelong`, `NoResurrection`,
`OutcomeIsFinal`, `RefinesApi` and, with fairness, `RefinesFairApi`: what was
submitted starts and what started settles, so no workspace stays "creating" but
for a restart or a delete.  Bounds: two create requests, two clock values, one
caller of stop and delete that calls again and again.  Two creations give two
goroutines and a workspace beside another; the gap between lookup and write of the
caller overlaps every step of provisioning.  Colliding identifiers and more
callers at a time are the business of the proofs of section 3, which hold for any number of
both.  Fairness: weak fairness of each provisioning goroutine, that is, its external calls
return.  The forking and the health wait carry timeouts; git and
the provider are called without one, so for them this is an assumption about
git and the provider.  Clients are not fair: nobody has to stop or delete.

### Workspace manager (`WorkspaceManager.tla`), run `manager`

The agent's create, start-services, stop and delete over `entries` (the map),
`workspace` (what its pointers reach), `allocated` (the port set) and `container`
(the provider).  `CreateWorkspace` allocates the port under one lock, writes the
entry under another and calls the provider under none; `DeleteWorkspace` works on
the pointer it looked up first.  The first state chooses in `reuse` whether clients
reuse identifiers; those that do may in addition overlap their stops and deletes
(`Overlapping`).  `DestroyIdempotent` says whether destroying a container that is gone
succeeds (`rm -rf` in QEMU) or fails (`lxc delete`).
The runs use the second: with fresh identifiers, the second of two overlapping deletes then
finds no container to destroy and releases nothing.

The run checks `TypeOK` and `PortsUnique` in both cases, `ContainersListed` and
`RunningHasContainer` for clients that do not reuse identifiers (they do not hold
otherwise: the container of one creation is taken for the other's).  Neither looks at the gap between the
status that stop writes and the container it stops afterwards.  A failed create also tries to stop the container
before it destroys it, which is left out.  Bounds: two
creations, two identifiers, two SSH ports and one service port, so that ports run
out and are reused, one service, two callers of stop and delete, one of
StartServices.  `CHECK_DEADLOCK FALSE`: each creation happens once and the ports can
be used up, after which nothing need happen.

### Node registry and events (`NodeEvents.tla`), run `events`

A request changes `nodes`/`value` and then announces it: `Register` then `Copy`
(the event carries a copy) then `Announce`, `Update` then `GetUpdated` then
`Announce` (the event carries a pointer, read when it is delivered), `Unregister`
then `Announce`.  `Broadcast` is `broadcastEvent`, with its closing of full channels.
`Connect`, `SendInitialState`, `Deliver`, `DeliverEmpty`, `Leave`, `CloseChannel`
are the stream handler; `Submit`, `TakeResult`, `BroadcastResult` the command
results.  `view` is what a client that applies the events believes; the client is
not in the repository, so `Applied` is marked external.  The registry is the
in-memory one: the node operations of the SQLite registry are stubs.

The run checks `NoSendOnClosed`, `ViewConverges` and, under fairness of the server
only, `RequestsFinish`, if requests about one node do not overlap (`Serial`): that
is what an agent that talks about its own node, one request after another, gives.
Without it `ViewConverges` does not hold: a registration and an unregistration that
overlap can be announced in the other order.
Bounds: two requests, two nodes, two values, two command results, one stream, and
channels of two places (10 in the code; what matters is that they fill): two requests
can register and then change a node, and four events overflow the channel.  Streams
do not touch one another.  Runs end when every request has been made, hence
`CHECK_DEADLOCK FALSE`.  Fairness: each request's handler and the result pump.

### Accounts (`Accounts.tla`), run `accounts`

A request is a goroutine whose steps are single locks or SQL statements:
`RegisterUser` and `DeleteUser` are one step; `RegisterGitHub`/`FinishRegister` have
the gap between lookup and insertion; a `Callback` consumes its OAuth state, then
`Exchange`s the code, `StoreInMemory`, `StoreInTable`, looks the user up and registers it
if need be; `CreateWorkspace` ... `Answer` is the authorization of a create.  `Restart`
forgets the memory and opens the database again, or falls back to the registry in
memory when that fails; a `GITHUB_TOKEN` of the environment then becomes the token that memory, and not the table,
has for one user (`TestUser`, `Injected`).  Reads of the database fail as well as writes: a user is
then not found (`NotFound`), and a create is answered with the same 401 as without an authorization (step "unread").

The run checks `RegisteredOnce` (an account in the database keeps its identity
whatever registrations race), `StatesSingleUse`, `CopiesAgree` (the two copies of an
installation agree between callbacks, so that a restart brings back no older one; the test user's token from
the environment excepted) and `GrantedIsAccepted` (who was authorized, and known by the GitHub name, is
never told that there is no authorization; a table that cannot be read is another matter).  Bounds: two names, two requests in flight and three in all,
two OAuth states, two tokens, one restart: two callbacks of one user, or a callback
beside a registration, or either around a restart.  Counters end the run
(`CHECK_DEADLOCK FALSE`).

### Transport pool (`TransportPool.tla`), run `pool_pair`

Every method of the pool holds `p.mu`, so it is one step; clients, the network
(`Break`) and time (`Age`, `Expire`) come in between.  `Close` and
`CleanupIdleConnections` are loops over the indices of the list, recursive functions
of the turn: what a turn leaves holds the *array*, because `destroyConnectionLocked` removes by shifting
elements of the array the loop reads.  A client may `Connect` what it got, and
never returns from that when the connection was reused.  A client uses a wrapper
until it returns it, once.  The only history variable, `orphans`, records the
connections Close found in use: `put` never closes those.

The run checks `ExclusiveUse`, `PoolCounts` and `NoLeak` with room for two connections,
Close at any time and failing disconnects; with room for three, `NoLeak` is false (section 4).
`PoolCounts` counts open idle connections, and compares the metrics by an inequality, because of
failing disconnects: after one, `put` leaves the dead connection in the list and the
clean-up forgets it uncounted.
Bounds: four connection objects (each new connection takes one), two clients.
One target: targets share only the lock and the counters.
`CHECK_DEADLOCK FALSE`: when the objects are used up the clients may stop.

### Node agent (`AgentNode.tla`, `Drivers.tla`), run `agent`

`Start`, `RegisterWithServer`, `Stop`, one `StopSession` per turn of its loop, and
`UnregisterFromServer` are the owner; `Take`, `ProviderCall`, `CreateSession`, `InsertSession`, `DeleteSession`
and `SendCommandResult` the command processor with every command of the executor;
`MonitorTick` ... `MonitorDone` the service monitor, which reads and writes the tables
without the lock; `Vanish`, `MonitorListFails`, `Crash` and `NewAgent` the outside.  The
executor passes no configuration to the provider, which Docker and QEMU reject, so
sessions are LXC containers; `Drivers` gives for each driver call the outcomes it can have.

The LXC driver drops the first line of `lxc list`.  `Ahead` are the sessions whose containers may be on
that line: while one of them has a container, a list does not show it (`PrintedFirst`), and the
monitor forgets it although it lives; otherwise the dropped line is somebody else's container.  The
run has one session of each kind.

The run checks `SuccessIsTrue`, `AliveIsKnown` (while identifiers are not reused, a
session created and not touched since stays known, but for those `Ahead`), `VanishedIsForgotten` and
`QueueDrains`.  The processor's exit on `ctx.Done` (node.go:405) is left out: main.go:415 starts the agent with
a context that is never cancelled.  Fairness: the processor and the monitor, goroutines of a process
that is up, whose calls return; a list fails finitely often (`MaxOutside`).
Bounds: two sessions, three commands, one outside event.  Commands can be used up: `CHECK_DEADLOCK FALSE`.

### Local controller (`Controller.tla`, `Drivers.tla`), run `controller`

Each `nexus branch` command is a process that steps from one git, docker or lxc
command to the next: `CreateStat`, `ReadHead`, `MakeBranch`, `SwitchBack`, `TreeAdd`,
`Configure` are create; `LoadUp`, `BoxCreate`, `Mount`, `BoxStart`, `Setup` up;
`LoadSearch`, `Search`, `Destroy`/`Exec`/`Services`/`Connect` the commands that look a session up; `List`;
`TreeRemove`, `RemoveAll` rm.  Two processes run at a time, each may be interrupted
between two steps, and people edit the configuration.  Git, docker and lxc are external,
and any call of theirs may fail, those among them whose errors the code ignores: the checkout back to the
user's branch (`slipped`), a provider's list (`dropped`), and the deletion of a container that could not be
mounted.  HEAD may be detached (`Detached`): `rev-parse` then answers `HEAD`, which no checkout
goes back to.

The properties say what a command that no other one overlapped leaves:
`HeadRestored`, `CreateMakesTree`, `NothingLeft` (after a down, and after an up whose mount
failed), `ListShowsRunning`; earlier commands may have
been interrupted or have overlapped each other at will.  The ignored failures are visible in them, as the code
has it: a down or a list promises nothing of a provider whose list failed.  A create can leave the user on the
new branch, but then it does not report success, because git adds no worktree for the branch that is checked out.
Bounds: two names, two processes, three commands, one outside event.

### Six small components (`MCComponents.tla`), run `components`

They share no state, so one run checks them: the first state chooses which
`component` moves, and the others rest in an initial state.

| Module | Models | Properties |
|---|---|---|
| `AgentConfig` | init, apply, update and plugin update: rules from the project, its overrides and an extended repository with a plugin, merged and written for four agents and for worktrees; the formats a rule can have (`Markdown`), templates that are missing, and writes that fail and end the command or are passed over (`skipped`) | `ApplyIsComplete`, `LockedIsMerged` |
| `Plugins` | resolution of plugins; the lock file | `UpToDateIsCurrent` |
| `Dependencies` | extends `Plugins` with the orders of a workspace's services and of the orchestrator's, on the same graphs; a depth-first visit is a loop with the stack of its calls | `DependenciesFirst` |
| `Transports` | SSH and HTTP transports called by several goroutines: Go's read-write lock with waiting writers, the dialling goroutine, a peer that hangs or is ill | `BlockedOnlyByNesting`, `OneConnection`, `SentWhereTested` |
| `ServiceHealth` | the services of an agent's workspace: start with retries, the health check two seconds later, deletes and creates between | `HealthIsOfThisStart`, `RunningWasExecuted` |
| `ServiceManager` | the agent's service manager and discovery, with copies written back after an unlock, and the entries that the agent's own goroutines write and delete meanwhile (`touched`) | `TablesKeepUp` |
| `ManagerLocks` | the lock operations of each HTTP request to the workspace manager | `StuckOnlyInList` |

`BlockedOnlyByNesting` and `StuckOnlyInList` are exact in this sense: the code can
deadlock, and the properties name the only ways.  `OneConnection` claims nothing after a Connect that gave
up on its dial, and `SentWhereTested` nothing of a request whose target was changed meanwhile: both are in the model,
and in both the code gives no more.  SSH `Execute` watches its context only once the session is
set up, which a hung peer can prevent; no property depends on that.  Bounds: two rules, one of them Markdown, one worktree
and two edits or failed writes;
every dependency graph on three things and one change; two callers, two targets, two
dials; two service starts with two attempts each and two lives of the workspace; one
service name, two clients and four calls; three requests and one workspace in the table.  Two
parties suffice for each race of two steps; three requests for a reader, a writer
that waits, and a bystander; three things for a cycle through another.  Edits, dials, calls and changes are
bounded, so a component may stop: `CHECK_DEADLOCK FALSE`.

## 3. What is proved

TLAPS proves, for every value of the constants (any number of requests, callers,
names, ports, streams, processes ...):

| Module of proofs | Theorem | States |
|---|---|---|
| `ProvisioningProofs` | `TypeCorrect`, `RunningIsStarted`, `ServicesHaveWorkspace` | `[]TypeOK`, `[]RunningWasStarted`, `[]ServicesBelong` |
| | `GoneIsGone`, `OutcomesAreFinal` | `NoResurrection`, `OutcomeIsFinal`, if `MinAdvance = 1` |
| | `ImplementsWorkspaceApi` | `RefinesApi`, if `MinAdvance = 1` |
| `WorkspaceManagerProofs` | `TypeCorrect` | `[]TypeOK` |
| | `NoPortConflict` | `[]PortsUnique`, if `~Overlapping` and `~DestroyIdempotent` |
| | `NoContainerLost`, `RunningIsBacked` | `[]ContainersListed`, `[]RunningHasContainer`, if `~DestroyIdempotent` |
| `NodeEventsProofs` | `TypeCorrect`, `NeverSendOnClosed` | `[]TypeInv`, `[]NoSendOnClosed` |
| | `ViewsConverge` | `[]ViewConverges`, if `Serial` |
| `AgentNodeProofs` | `TypeCorrect`, `ReportedIsTrue` | `[]TypeInv`, `[]SuccessIsTrue` |
| | `NotForgotten` | `[]AliveIsKnown` |
| `AccountsProofs` | `TypeCorrect`, `StateUsedOnce`, `UsersRegisteredOnce` | `[]TypeInv`, `[]StatesSingleUse`, `RegisteredOnce` |
| | `InstallationCopiesAgree`, `GrantedStaysGranted` | `[]CopiesAgree`, `[]GrantedIsAccepted` |
| `ControllerProofs` | `InvHolds` | `[]Inv`, the types among it |
| | `HeadIsRestored`, `CreatedIsATree`, `NothingIsLeft` | `[]HeadRestored`, `[]CreateMakesTree`, `[]NothingLeft` |
| | `ListIsComplete` | `[]ListShowsRunning`, if `~OneDir` |
| `LoopProofs` | `ConnectionsHeldOnce` | `[]ExclusiveUse` of `TransportPool` |
| | `PairCounts`, `PairKeeps` | `[]PoolCounts`, `[]NoLeak` of `TransportPool`, if `MaxConns <= 2` |
| | `PluginsAreInOrder`, `LockfileIsCurrent` | `[]PluginsInOrder` (a conjunct of `DependenciesFirst`), `[]UpToDateIsCurrent` of `Plugins` |
| | `ServicesAreInOrder` | `ServicesInOrder` and `OrchestratedInOrder` of `Dependencies`, of any lists of names |
| | `AllAreInOrder` | `[]DependenciesFirst` of `Dependencies` |
| `ComponentsProofs` | `AppliedIsComplete`, `LockedStaysMerged` | `[]ApplyIsComplete`, `[]LockedIsMerged` of `AgentConfig` |
| | `OnlyNestingBlocks`, `OneConnectionAtATime`, `RequestGoesWhereTested` | `[]BlockedOnlyByNesting`, `[]OneConnection`, `[]SentWhereTested` of `Transports` |
| | `HealthIsTrue`, `RunningIsTrue` | `[]HealthIsOfThisStart`, `[]RunningWasExecuted` of `ServiceHealth` |
| | `ManagerTablesKeepUp` | `[]TablesKeepUp` of `ServiceManager` |
| | `RequestsStuckOnlyInList` | `[]StuckOnlyInList` of `ManagerLocks` |

The hypotheses are the named `ASSUME`s of the modules, which TLC evaluates in every
run, and where stated one of these.  `MinAdvance = 1`: two requests never read the
same clock.  `Serial`: requests about one node do not overlap.  `~Overlapping`: clients
that reuse identifiers do not overlap their stops and deletes (the run
`manager_two_deletes` shows the conflict otherwise).  `~DestroyIdempotent`: the
provider reports the destruction of a container that is gone, as LXC, the only one the agent
gets as far as a container with, does.  `~OneDir`: the worktree manager has a directory of its own, which is
how the CLI configures it.  `MaxConns <= 2`: a list of three is cleaned up wrongly (the run
`pool_three`).  The passing runs instantiate every one of them.
The components of `MCComponents` share no state; the theorem of each is about its
own specification (`ConfigSpec`, `TransportSpec`, `ServicesSpec`, `ManagerSpec`, `LocksSpec` in
`ComponentsProofs`, `PluginSpec` in `LoopProofs`), of which the run is the disjoint union.

None of the properties is inductive as it stands; this is what each proof adds.

*Provisioning.*  `TypeInv` is `TypeOK` and
`Assigned`: a request being served has an identifier.  `SafeInv` adds `Linked` (an
entry points to an object with its identifier), `Unborn` (the object of a request
not yet registered is blank) and `StagesStarted` (past `StartContainer`, the
container was started), which is why the "running" status is justified when it is
written.  `FineInv` needs distinct
identifiers: `Distinct`, `Undecided` (a goroutine still
working has not written an outcome) and `Born` (an identifier that was registered
belongs to a request that is past registering), from which a step can neither
overwrite an outcome nor bring a deleted identifier back.  The refinement
proof shows for each action which abstract step, or stutter, it is.

*Workspace manager.*  `ShapeInv` says what each stage of a creation, a call and a start of services
implies.  `ContainerInv` (fresh identifiers): a container belongs to an entry, an entry is removed only by the
one call that destroyed its container, and a workspace that has not been forgotten is alive.
`PortInv`: the set `Held` of those who may still release
a port; their ports are allocated and disjoint, and a service port
is claimed by one start until it is stored.

*Events.*  A stream is listed exactly while its handler follows it, and leaves the list
before its channel closes.  For convergence (`Serial`): the last event about a node that is queued for a
stream, or without one the client's view, shows the node as it is, unless the one request
about that node is still on its way to announce the change.

*Node agent.*  `StepsAreEarned`: a success is built only past the provider call that had
one, and nobody undoes that call until the answer is sent.  `OneCreate` and `KnownAreSettled`: one create is
under way per session; what the tables know will not be created again, and what the monitor did not
find, or a command deletes, is not alive or is one of those `lxc list` prints first (`alive \ Ahead`).

*Accounts.*  `StoredIsUnused`: a state in the store has been consumed by nobody.
`AgreeUnlessSaving`, `OneCallback`, `SaveFollows`: the two copies of an installation differ only between the two writes
of one callback, which knows the token that memory has and the table has not; only the test user's may stay the environment's.
`SavedIsInTable`: a request that counts as saved found a token in the table, where it
stays.

*Controller.*  `Base` keeps processes apart: a command that is alone, or whose result is kept, has none
beside it, so a step of one command disturbs no claim about another, and
only the step's own process has to be looked at.  `GitInv` holds of the repository whatever commands
overlap: a branch is checked out in one place and a worktree has a branch.  `Claims`
says of each step of a lone command what the final property needs of
the steps before it (once git refused to go back, HEAD is the new branch, and no worktree can be added; while
down searches, what it has searched is empty or could not be listed).  `Mounted`: a started container has a
directory.

*Transport pool.*  `UseInv`: what is held or listed was created, so a new connection is nobody's.  `CountInv`: no
connection is listed twice, and the destroyed ones are among those created that are neither listed nor
held (`Gone`).  `KeepInv`: what is open or held is listed, or was dropped by `Close`.  `Close` and the clean-up are
loops over an array that their turns shift: `After(i)` holds after `i` turns, which is shown for the
smallest `i` after which it would not (`SmallestOf`, from the well-foundedness of the naturals), so
that no induction theorem with an operator parameter is needed.  With two connections the
element a turn looks at is still the one the list had there, because a shift leaves the last
one where it was.

*Plugins.*  Both loops of `ResolveDependencies` are recursive functions of the turn, reasoned about in the
same way.  After `k` rounds (`Found`) what was found is needed, and is `k` names or all there is; so the
rounds end with the smallest closed set.  After `k` turns (`Taken`) `k` different names are taken,
each after what it depends on, or none is ready.  What is left over then keeps its own members
waiting; and no such set can be taken, because the first of its members to be taken would have
to wait for another.  `LockfileInv`: the lock file's hash is that of its entries, from which the entries can be read
(`HashTells`).

*Services.*  The agent and the orchestrator visit depth first.  A call is on a stack until it returns, and a turn of
the loop enters a name or leaves the topmost one.  `AfterVisits`: after `k` turns a cycle was met, or every
service is in the order and the stack is empty, or every turn so far entered or left a name; the stack is a path
through the graph without repetitions, and the order has each name once, after what it depends on.  A name that is met on the
stack closes the path to a cycle (`PathCycle`); a name is left only when all it depends on is in the order
(`LeaveFacts`); and no name is entered or left twice, so `2 * |Things|` turns are enough
(`EndFacts`).  Conversely, names that are in order have no cycle (`OrderedIsAcyclic`).  The orchestrator marks a
name when it enters it: without a cycle the topmost call never meets a name of the stack, so its loop goes
through the states of the agent's (`OrchestrateLoopFacts`).

*Small components.*  `AgentConfig`: what is locked has been merged, and what was applied, and not passed over, is still in
the files until a source is edited, because an apply that fails changes no copy and no worktree.  `Transports`: who holds or waits for the lock is known from where each
caller is, and a connection is opened or used only by the holder.  `ServiceHealth`: a service is listed
once, and a check that will write to an object was started for it and passed there.
`ServiceManager`: a name whose calls have not overlapped has at most one call in flight, which
is about to tell the agent what the manager's table holds; with none in flight the two tables agree, unless the agent
wrote the entry itself since.
`ManagerLocks`: what a request holds is known from its next operation (a lock is released by
the operation after the one that takes it, but for the table's in a list, where it depends on how much is left), so
when all wait nobody holds a workspace, and only a list still reads the table.

Only model-checked is liveness: `RefinesFairApi`, `RequestsFinish`, `QueueDrains` and `VanishedIsForgotten` need
fairness and ENABLED, which are out of the prover's reach here.  Every invariant that a passing run checks is the
subject of a theorem, some under the conditions of the table.

## 4. Where code and documents disagree

Shown by a run that expects a violation:

| Run | Disagreement |
|---|---|
| `stop_leaves_container` | `TESTING_GUIDE.md` treats the stop request as `docker stop`; the handler writes a status |
| `manager_two_deletes` | `README.md` promises no port conflicts; two overlapping deletes of one workspace release its port twice |
| `events_dropped_client` | the stream promises updates; a dropped client gets empty events |
| `pool_three` | the pool promises clean-up; with three connections it skips one |

Met while modelling, and kept in the models as the code has it:

- Server: a restart forgets the workspaces that `DEPLOYMENT_GUIDE.md:197-223` expects to be listed, while
  their containers survive.  The SSH port is guessed from the clock until the container's is known.
- Accounts: `handleGetGitHubToken` reads memory only, so it answers 404 after a restart.  A user
  made by register-github has a generated identifier while installations are stored under the
  GitHub name, so a create by that user is always refused; the link in that refusal
  carries a state that was never stored, so following it fails.  A state is consumed before the
  exchange that may fail.  A create is answered 401 `github_auth_required` also when the database cannot be read.  With
  `GITHUB_TOKEN` set, memory has a token for `IniZio` that the database has not.
- Agent: nobody sends on `commandCh`.  `nexus agent start` returns right after `Start`, which ends the
  process.  Heartbeats are answered 405.  "start" and "exec" report success and do nothing.  With
  identifiers used again, the monitor can delete the entry of a session created anew.  `lxc list --format csv` has no
  header, so the line that the driver drops (lxc.go:364) is a container: the monitor forgets it while it runs.
- Workspace manager: checks use the context of the request that started the services, which is cancelled
  when that returns, so a later check fails whatever the service does.
- Service manager: the monitor's check of a service that is unregistered meanwhile registers it again.  The agent's
  monitor and commands write the same table, under the session's identifier, without telling the manager.
- Workspace list: it takes the manager's read lock again for each status; a create or a delete in between blocks
  all three and everyone after them.
- Transports: SSH `Connect` with a client waits for the lock it holds (`transport_e2e_test.go:286` connects pooled
  transports); `GetInfo` nests read locks; a dial that timed out still sets the client; keepalives have no
  deadline; `cmd.Timeout` is computed and not used; uploads and downloads ignore the context.
- Orchestrator: `Start` waits under its lock for goroutines that need it, so with any service it never returns.
- Controller: `down` and `list` take a provider whose list fails (ctrl.go:193, 259) for one without sessions; a
  `create` that fails can leave the user on the new branch (worktree.go:61); a container that could not be
  mounted stays if deleting it fails too (lxc.go:278, 285).  `branch rm` promises (main.go:154) "stopping it first if it's running." and does not; it may leave a
  worktree registered; `up` mounts the controller's directory and not the worktree the CLI made; the branch commands'
  help promises to detect the workspace, and `detectWorkspaceFromCWD` is never called.
- Configuration: merging reads `.md`, `.mdc` and `.yaml` rules (merge.go:212-225), apply copies `.md` ones only (ctrl.go:825);
  it reports success over files it could not render or write.  `nexus update` keeps clones in `./remotes`, merging reads `.nexus/remotes`; a plugin's rules beat local ones,
  against merge.go:58 ("Load base templates last to ensure local rules take precedence"); plugin rules are read from
  `rules/rules/` (docs/specs/technical/plugins.md:43 shows `rules/`); files of removed rules stay; apply serves worktrees in
  `.nexus-runtime/state/worktrees`, the CLI makes them in `.nexus/worktrees`; init overwrites `config.yaml`; files rendered from templates are
  overwritten with fixed ones; two extended repositories of one name share a clone.

## 5. Not modelled, and why

- Constructed by no code outside tests, and modelled all the same: the service manager, the plugin registry,
  generating the lock file, the orchestrator's order.  The rest of the orchestrator, the heartbeat services and the
  OIDC provider are not: nothing runs them, and the orchestrator's `Start` does not return.
- QEMU: reached only through the agent, with the nil configuration its `Create` rejects.  It appears as a failure,
  and as an idempotent destroy in `WorkspaceManager`.
- The status and list handlers of the server, statistics, health endpoints, routing and middleware only read.
- Fields of a node are one value in `NodeEvents`: an `Update` that panics on a value of an unexpected type ends one request
  half done, and is left out.
- Functions nothing calls: node.go 583-888 (older copies of the executor), `UpdateServiceHealth`,
  `downloadPluginCapabilities` and `fetchPluginFiles` (ctrl.go 845-962), `loadTemplateRepos` and `loadPluginTemplates`, which are stubs.
- The texts of generated files and the JSON schema (config.go 525-799) are static data.
- Login session and OIDC, the GitHub requests but `ExchangeCodeForToken`, SSH key files, backup and restore, usage metrics and the
  command line's flags and output: sequential wrappers around files, other programs and arithmetic.
- The lock file's hash joins its fields with separators and leaves the description out; `Plugins` has it as
  injective in the fields it covers.
- The pool's `TotalReused` and `WaitTime` metrics, and the map of pools.

## 6. Plan

Done: provisioning with its abstract API, refinement and proofs; the workspace manager; events; accounts; transports
and their pool; the agent; the controller; configuration; the small components.

All safety properties of the passing runs are proved.  Left: more of the code that section 5 leaves out, and of the
parts listed as partly modelled.
