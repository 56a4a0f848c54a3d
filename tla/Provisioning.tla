---------------------------- MODULE Provisioning ----------------------------
(***************************************************************************)
(* The workspace life cycle of the coordination server: the handlers of    *)
(* /api/v1/workspaces (pkg/coordination/handlers_m4.go), the goroutine     *)
(* provisionWorkspace each accepted creation spawns, and the in-memory     *)
(* registry they share (pkg/coordination/workspace_registry.go).           *)
(*                                                                         *)
(* A registry entry is a pointer to the DBWorkspace object its creation    *)
(* allocated, so objects are indexed by the creation that made them and    *)
(* the registry maps an identifier to a creation.  Each critical section   *)
(* of the registry's mutex is one step; between two of them every other    *)
(* goroutine may run.  Containers belong to the provider (docker, lxc,     *)
(* qemu) and survive a restart of the server; the registry does not.       *)
(***************************************************************************)
EXTENDS Naturals

CONSTANTS
    Creations,   \* the creation requests, each with its provisioning goroutine
    Callers,     \* the concurrent stop and delete requests
    MaxId,       \* bound on the clock that workspace identifiers are read from
    MinAdvance,  \* 1 if two reads of time.Now().UnixNano() always differ, else 0
    NoWorkspace  \* the registry has no entry for an identifier

ASSUME MaxIdAssumption == MaxId \in Nat
ASSUME MinAdvanceAssumption == MinAdvance \in {0, 1}
ASSUME NoWorkspaceAssumption == NoWorkspace \notin Creations

VARIABLES
    clock,       \* the last identifier read from the clock
    registry,    \* identifier -> the creation whose object is registered
    object,      \* creation -> its DBWorkspace: status and kind of SSH port
    services,    \* identifiers with an entry in the registry's services map
    goroutine,   \* creation -> the stage it has reached and its identifier
    container,   \* identifier -> the provider's container of that name
    call         \* caller -> the stop or delete request it is serving

registryVars == <<registry, object, services>>
vars == <<clock, registry, object, services, goroutine, container, call>>

Ids == 1..MaxId

\* Stages of a goroutine before, during and after provisioning.
Live == {"start", "port", "clone", "create", "boot", "map", "services",
         "finish", "fail"}
Stage == {"idle", "fork", "refused", "done", "killed"} \cup Live

Status == {"none", "creating", "running", "stopped", "error"}
Port == {"unset", "guessed", "mapped"}
Object == [status : Status, port : Port]

Registered(i) == registry[i] # NoWorkspace
-----------------------------------------------------------------------------
(* The registry's operations on one identifier, each a critical section.   *)

\* UpdateStatus: a write through the registered pointer, an error without one.
UpdateStatus(i, s) ==
    object' = [o \in Creations |->
                 IF registry[i] = o THEN [object[o] EXCEPT !.status = s]
                                    ELSE object[o]]

\* UpdateSSHPort: the same for the SSH port.
UpdateSSHPort(i, p) ==
    object' = [o \in Creations |->
                 IF registry[i] = o THEN [object[o] EXCEPT !.port = p]
                                    ELSE object[o]]

\* UpdateServices: refused for an identifier that is not registered.
UpdateServices(i) ==
    services' = IF Registered(i) THEN services \cup {i} ELSE services

\* Mutant of DeleteEntry: forgets the services map.
DeleteEntryOnly(i) ==
    /\ registry' = [registry EXCEPT ![i] = NoWorkspace]
    /\ UNCHANGED services

\* Delete: drops the workspace and its services together.
DeleteEntry(i) ==
    /\ registry' = [registry EXCEPT ![i] = NoWorkspace]
    /\ services' = services \ {i}
-----------------------------------------------------------------------------
Init ==
    /\ clock = 0
    /\ registry = [i \in Ids |-> NoWorkspace]
    /\ object = [c \in Creations |-> [status |-> "none", port |-> "unset"]]
    /\ services = {}
    /\ goroutine = [c \in Creations |-> [stage |-> "idle", id |-> 0]]
    /\ container = [i \in Ids |-> "none"]
    /\ call = [k \in Callers |-> [op |-> "idle", id |-> 0]]

\* The goroutine of c reaches stage s.
Goto(c, s) == goroutine' = [goroutine EXCEPT ![c].stage = s]

\* Mutant of AcceptCreate: identifiers from a clock too coarse to tell requests apart.
AcceptCreateCoarse(c) ==
    /\ goroutine[c].stage = "idle"
    /\ \E d \in 0..1 :
         /\ clock + d \in Ids
         /\ clock' = clock + d
         /\ goroutine' = [goroutine EXCEPT ![c] = [stage |-> "fork", id |-> clock + d]]
    /\ UNCHANGED <<registryVars, container, call>>

(***************************************************************************)
(* handleM4CreateWorkspace up to the GitHub calls: the user and the        *)
(* installation were found and the identifier is read from the clock.      *)
(* Refusals (400, 401, 405) change nothing and are not steps.              *)
(***************************************************************************)
AcceptCreate(c) ==
    /\ goroutine[c].stage = "idle"
    /\ \E d \in MinAdvance..1 :
         /\ clock + d \in Ids
         /\ clock' = clock + d
         /\ goroutine' = [goroutine EXCEPT ![c] = [stage |-> "fork", id |-> clock + d]]
    /\ UNCHANGED <<registryVars, container, call>>

(***************************************************************************)
(* The rest of the handler, after up to 30 s of GitHub calls: Create       *)
(* registers the object with status "creating" and the goroutine starts,   *)
(* or an entry with this identifier exists and the request fails (500).    *)
(***************************************************************************)
RegisterWorkspace(c) ==
    LET i == goroutine[c].id IN
    /\ goroutine[c].stage = "fork"
    /\ IF Registered(i)
       THEN /\ Goto(c, "refused")
            /\ UNCHANGED <<registry, object>>
       ELSE /\ registry' = [registry EXCEPT ![i] = c]
            /\ object' = [object EXCEPT ![c].status = "creating"]
            /\ Goto(c, "start")
    /\ UNCHANGED <<clock, services, container, call>>

\* provisionWorkspace marks the entry "creating" again, or gives up if it is gone.
MarkCreating(c) ==
    LET i == goroutine[c].id IN
    /\ goroutine[c].stage = "start"
    /\ UpdateStatus(i, "creating")
    /\ Goto(c, IF Registered(i) THEN "port" ELSE "done")
    /\ UNCHANGED <<clock, registry, services, container, call>>

\* It records the SSH port it guessed from the clock; a failure is only logged.
GuessPort(c) ==
    /\ goroutine[c].stage = "port"
    /\ UpdateSSHPort(goroutine[c].id, "guessed")
    /\ Goto(c, "clone")
    /\ UNCHANGED <<clock, registry, services, container, call>>

\* git clone and the choice of provider: no shared state, success or failure.
CloneRepository(c) ==
    /\ goroutine[c].stage = "clone"
    /\ \E s \in {"create", "fail"} : Goto(c, s)
    /\ UNCHANGED <<clock, registryVars, container, call>>

\* provider.Create: a container name that is taken is an error.
CreateContainer(c) ==
    LET i == goroutine[c].id IN
    /\ goroutine[c].stage = "create"
    /\ \/ /\ container[i] = "none"
          /\ container' = [container EXCEPT ![i] = "created"]
          /\ Goto(c, "boot")
       \/ /\ Goto(c, "fail")
          /\ UNCHANGED container
    /\ UNCHANGED <<clock, registryVars, call>>

\* Mutant of StartContainer: an error is logged and provisioning goes on.
StartContainerIgnoringError(c) ==
    /\ goroutine[c].stage = "boot"
    /\ \/ container' = [container EXCEPT ![goroutine[c].id] = "started"]
       \/ UNCHANGED container
    /\ Goto(c, "map")
    /\ UNCHANGED <<clock, registryVars, call>>

\* provider.Start: on an error the created container is left where it is.
StartContainer(c) ==
    LET i == goroutine[c].id IN
    /\ goroutine[c].stage = "boot"
    /\ \/ /\ container' = [container EXCEPT ![i] = "started"]
          /\ Goto(c, "map")
       \/ /\ Goto(c, "fail")
          /\ UNCHANGED container
    /\ UNCHANGED <<clock, registryVars, call>>

(***************************************************************************)
(* Port forwarding, SSH keys and GetPortMappings, whose failures are only  *)
(* logged; the registry learns the mapped SSH port if there is one.        *)
(***************************************************************************)
MapPorts(c) ==
    /\ goroutine[c].stage = "map"
    /\ \/ UpdateSSHPort(goroutine[c].id, "mapped")
       \/ UNCHANGED object
    /\ Goto(c, "services")
    /\ UNCHANGED <<clock, registry, services, container, call>>

\* Mutant of SetupServices: reports "running" before the services are set up.
SetupServicesLate(c) ==
    LET i == goroutine[c].id IN
    /\ goroutine[c].stage = "services"
    /\ UpdateStatus(i, "running")
    /\ UpdateServices(i)
    /\ Goto(c, IF Registered(i) THEN "finish" ELSE "fail")
    /\ UNCHANGED <<clock, registry, container, call>>

\* A configuration with services registers them; without an entry that fails.
SetupServices(c) ==
    LET i == goroutine[c].id IN
    /\ goroutine[c].stage = "services"
    /\ \/ /\ UpdateServices(i)
          /\ Goto(c, IF Registered(i) THEN "finish" ELSE "fail")
       \/ /\ Goto(c, "finish")
          /\ UNCHANGED services
    /\ UNCHANGED <<clock, registry, object, container, call>>

\* Mutant of FinishProvision: the wait for healthy services may start over for ever.
FinishProvisionRetrying(c) ==
    /\ goroutine[c].stage = "finish"
    /\ \/ UpdateStatus(goroutine[c].id, "running") /\ Goto(c, "done")
       \/ Goto(c, "services") /\ UNCHANGED object
    /\ UNCHANGED <<clock, registry, services, container, call>>

\* After waitForServicesHealthy, which always gives up by itself: "running".
FinishProvision(c) ==
    /\ goroutine[c].stage = "finish"
    /\ UpdateStatus(goroutine[c].id, "running")
    /\ Goto(c, "done")
    /\ UNCHANGED <<clock, registry, services, container, call>>

\* Mutant of FailProvision: the return after the write is missing.
FailProvisionAndGoOn(c) ==
    /\ goroutine[c].stage = "fail"
    /\ UpdateStatus(goroutine[c].id, "error")
    /\ Goto(c, "finish")
    /\ UNCHANGED <<clock, registry, services, container, call>>

\* Each failed stage writes "error" and returns.
FailProvision(c) ==
    /\ goroutine[c].stage = "fail"
    /\ UpdateStatus(goroutine[c].id, "error")
    /\ Goto(c, "done")
    /\ UNCHANGED <<clock, registry, services, container, call>>
-----------------------------------------------------------------------------
(* handleM4StopWorkspace and handleM4DeleteWorkspace: a Get that answers   *)
(* 404 if there is no entry, then in a second critical section the change. *)

Begin(k, op, i) ==
    /\ call[k].op = "idle"
    /\ Registered(i)
    /\ call' = [call EXCEPT ![k] = [op |-> op, id |-> i]]
    /\ UNCHANGED <<clock, registryVars, goroutine, container>>

BeginStop(k)   == \E i \in Ids : Begin(k, "stop", i)
BeginDelete(k) == \E i \in Ids : Begin(k, "delete", i)

\* Mutant of Return: the request is marked answered and never released.
ReturnHalfway(k) == call' = [call EXCEPT ![k].op = "answered"]

Return(k) == call' = [call EXCEPT ![k] = [op |-> "idle", id |-> 0]]

\* "stopped", or a 500 if the entry went in between; no container is touched.
FinishStop(k) ==
    /\ call[k].op = "stop"
    /\ UpdateStatus(call[k].id, "stopped")
    /\ Return(k)
    /\ UNCHANGED <<clock, registry, services, goroutine, container>>

FinishDelete(k) ==
    /\ call[k].op = "delete"
    /\ DeleteEntry(call[k].id)
    /\ Return(k)
    /\ UNCHANGED <<clock, object, goroutine, container>>

(***************************************************************************)
(* The server process dies and a new one starts: NewServer makes an empty  *)
(* registry, goroutines and requests are gone, containers are not.         *)
(***************************************************************************)
Restart ==
    /\ \E c \in Creations : goroutine[c].stage # "idle"
    /\ registry' = [i \in Ids |-> NoWorkspace]
    /\ services' = {}
    /\ goroutine' = [c \in Creations |->
                       IF goroutine[c].stage \in Live \cup {"fork"}
                       THEN [goroutine[c] EXCEPT !.stage = "killed"]
                       ELSE goroutine[c]]
    /\ call' = [k \in Callers |-> [op |-> "idle", id |-> 0]]
    /\ UNCHANGED <<clock, object, container>>
-----------------------------------------------------------------------------
Provision(c) ==
    \/ MarkCreating(c) \/ GuessPort(c) \/ CloneRepository(c)
    \/ CreateContainer(c) \/ StartContainer(c) \/ MapPorts(c)
    \/ SetupServices(c) \/ FinishProvision(c) \/ FailProvision(c)

Next ==
    \/ \E c \in Creations : AcceptCreate(c) \/ RegisterWorkspace(c) \/ Provision(c)
    \/ \E k \in Callers :
         BeginStop(k) \/ BeginDelete(k) \/ FinishStop(k) \/ FinishDelete(k)
    \/ Restart

Spec == Init /\ [][Next]_vars

(***************************************************************************)
(* The Go scheduler runs every goroutine that is not blocked, and every    *)
(* call a provisioning makes is assumed to return: git clone and the       *)
(* provider run under context.Background() without a timeout, so this is   *)
(* an assumption on git and on the provider, not a promise of the code.    *)
(***************************************************************************)
FairSpec == Spec /\ \A c \in Creations : WF_vars(Provision(c))
-----------------------------------------------------------------------------
(* What must hold.                                                         *)

\* Every variable stays in its range: the one type invariant of the module.
TypeOK ==
    /\ clock \in 0..MaxId
    /\ registry \in [Ids -> Creations \cup {NoWorkspace}]
    /\ object \in [Creations -> Object]
    /\ services \in SUBSET Ids
    /\ goroutine \in [Creations -> [stage : Stage, id : 0..MaxId]]
    /\ container \in [Ids -> {"none", "created", "started"}]
    /\ call \in [Callers -> [op : {"idle", "stop", "delete"}, id : 0..MaxId]]

(***************************************************************************)
(* A workspace object says "running" only if provider.Start returned       *)
(* success for its identifier, whatever stops, deletes, failures, crashes  *)
(* and identifier collisions happened meanwhile; this includes objects     *)
(* already deleted, whose pointers status handlers may still hold.         *)
(***************************************************************************)
RunningWasStarted ==
    \A c \in Creations :
        object[c].status = "running" => container[goroutine[c].id] = "started"

(***************************************************************************)
(* The registry holds services only for identifiers that are registered:   *)
(* a provisioning that outlives its workspace leaves none behind.          *)
(***************************************************************************)
ServicesBelong == \A i \in services : Registered(i)

\* The identifier has named a workspace at some time.
WasRegistered(i) ==
    \E c \in Creations : goroutine[c].id = i /\ object[c].status # "none"

(***************************************************************************)
(* A deleted workspace, or one a restart forgot, never comes back: no late *)
(* update of a provisioning or a stop registers its identifier again.      *)
(* Needs identifiers that differ (MinAdvance = 1).                         *)
(***************************************************************************)
NoResurrection ==
    [][\A i \in Ids :
         WasRegistered(i) /\ ~ Registered(i) => registry'[i] = NoWorkspace]_vars

(***************************************************************************)
(* The outcome of a provisioning is final: an object that reached "error"  *)
(* or "running" changes only when it is stopped, so a client that polls    *)
(* never sees a failure turn into success.  Needs MinAdvance = 1.          *)
(***************************************************************************)
OutcomeIsFinal ==
    [][\A c \in Creations :
         object[c].status \in {"error", "running"} =>
             object'[c].status \in {object[c].status, "stopped"}]_vars

(***************************************************************************)
(* TESTING_GUIDE.md offers the stop endpoint and "docker stop" as two ways *)
(* to stop a workspace.  The handler only writes the status.               *)
(***************************************************************************)
StoppedHasNoContainer ==
    \A i \in Ids : Registered(i) /\ object[registry[i]].status = "stopped"
                      => container[i] # "started"
-----------------------------------------------------------------------------
(* What the module implements: see WorkspaceApi.                           *)

\* What a poll of an identifier reports.
ApiStatus ==
    [i \in Ids |-> IF Registered(i) THEN object[registry[i]].status
                   ELSE IF WasRegistered(i) THEN "gone" ELSE "absent"]

\* How far the provisioning of an identifier is.
AtStage(i, S) == \E c \in Creations : goroutine[c].id = i /\ goroutine[c].stage \in S

ApiWork ==
    [i \in Ids |-> IF AtStage(i, {"start"}) THEN "queued"
                   ELSE IF AtStage(i, Live) THEN "busy" ELSE "none"]

Api == INSTANCE WorkspaceApi WITH status <- ApiStatus, work <- ApiWork

\* With distinct identifiers the server keeps the promise of WorkspaceApi:
\* polls show one provisioning that settles at most once, and no way back.
RefinesApi == Api!Spec

\* Its liveness included: what was submitted starts, and what started settles.
RefinesFairApi == Api!FairSpec
=============================================================================
