-------------------------- MODULE WorkspaceManager --------------------------
(***************************************************************************)
(* The node agent's workspace manager (pkg/agent/workspace_manager.go),    *)
(* called concurrently by its HTTP handlers: creating a workspace,         *)
(* starting its services, stopping and deleting it, over one provider.     *)
(*                                                                         *)
(* The map of workspaces is behind wm.mu and the set of allocated ports    *)
(* behind portAllocationLock; the calls to the provider run under neither. *)
(* Each critical section and each provider call is a step.  The map holds  *)
(* pointers, so a workspace is named by the creation that allocated it.    *)
(***************************************************************************)
EXTENDS Naturals, FiniteSetsExt

CONSTANTS
    Creations,         \* the calls to CreateWorkspace
    Callers,           \* concurrent calls to StopWorkspace and DeleteWorkspace
    Starters,          \* concurrent calls to StartServices
    Ids,               \* workspace identifiers the clients use
    SSHPorts,          \* SSHStart..SSHEnd
    ServicePorts,      \* ServiceStart..ServiceEnd
    Services,          \* the services each create command defines
    Overlapping,       \* clients that reuse identifiers overlap their stops and deletes
    DestroyIdempotent, \* destroying a container that does not exist succeeds
    Nothing            \* no entry, no workspace

ASSUME PortsAssumption ==
    /\ SSHPorts \subseteq Nat \ {0} /\ ServicePorts \subseteq Nat \ {0}
    /\ SSHPorts \cap ServicePorts = {}
ASSUME FlagsAssumption == Overlapping \in BOOLEAN /\ DestroyIdempotent \in BOOLEAN
ASSUME NothingAssumption ==
    Nothing \notin Creations /\ Nothing \notin Ids /\ Nothing \notin Services

VARIABLES
    entries,    \* wm.workspaces: identifier -> creation
    workspace,  \* creation -> its ManagedWorkspace and the stage of the call
    allocated,  \* portRange.allocatedPorts
    container,  \* identifier -> the provider's container
    call,       \* caller -> its stop or delete
    starter,    \* starter -> its StartServices
    reuse       \* do clients reuse the identifiers of earlier creations?

vars == <<entries, workspace, allocated, container, call, starter, reuse>>

IdleCall == [stage |-> "idle", ws |-> Nothing]
IdleStarter == [ws |-> Nothing, todo |-> {}, svc |-> Nothing, port |-> 0]
NoService == [s \in Services |-> 0]

Id(w) == workspace[w].id
Exists(i) == container[i] # "none"
-----------------------------------------------------------------------------
Init ==
    /\ entries = [i \in Ids |-> Nothing]
    /\ workspace = [w \in Creations |->
                      [stage |-> "idle", id |-> Nothing, status |-> "none",
                       port |-> 0, services |-> NoService]]
    /\ allocated = {}
    /\ container = [i \in Ids |-> "none"]
    /\ call = [k \in Callers |-> IdleCall]
    /\ starter = [s \in Starters |-> IdleStarter]
    /\ reuse \in BOOLEAN

\* Mutant of FirstFree: one search over the ports of both kinds.
FirstFreeOfAny(range) == Min((SSHPorts \cup ServicePorts) \ allocated)

\* Mutant of FirstFree: never looks at the set of allocated ports.
FirstOfRange(range) == Min(range)

\* AllocateSSHPort and AllocateServicePort: the first port of a range not in use.
FirstFree(range) == Min(range \ allocated)

\* provider.Destroy on identifier i succeeds.
Destroy(i) ==
    /\ Exists(i) \/ DestroyIdempotent
    /\ container' = [container EXCEPT ![i] = "none"]
-----------------------------------------------------------------------------
(* CreateWorkspace.                                                        *)

\* The command is valid and an SSH port is free; a full range is an error.
AllocateSSH(w) ==
    /\ workspace[w].stage = "idle"
    /\ SSHPorts \ allocated # {}
    /\ \E i \in Ids :
         /\ reuse \/ \A v \in Creations : Id(v) # i
         /\ workspace' = [workspace EXCEPT ![w].stage = "insert", ![w].id = i,
                                           ![w].port = FirstFree(SSHPorts)]
    /\ allocated' = allocated \cup {FirstFree(SSHPorts)}
    /\ UNCHANGED <<entries, container, call, starter>>

\* The entry is written, over one that may exist already.
InsertEntry(w) ==
    /\ workspace[w].stage = "insert"
    /\ entries' = [entries EXCEPT ![Id(w)] = w]
    /\ workspace' = [workspace EXCEPT ![w].stage = "create", ![w].status = "creating"]
    /\ UNCHANGED <<allocated, container, call, starter>>

\* The call ends with status s.
End(w, s) == workspace' = [workspace EXCEPT ![w].stage = "done", ![w].status = s]

\* provider.Create, or an unknown provider or an error of the provider.
CreateContainer(w) ==
    /\ workspace[w].stage = "create"
    /\ \/ /\ ~ Exists(Id(w))
          /\ container' = [container EXCEPT ![Id(w)] = "created"]
          /\ workspace' = [workspace EXCEPT ![w].stage = "start"]
       \/ End(w, "error") /\ UNCHANGED container
    /\ UNCHANGED <<entries, allocated, call, starter>>

\* provider.Start.
StartContainer(w) ==
    /\ workspace[w].stage = "start"
    /\ \/ /\ Exists(Id(w))
          /\ container' = [container EXCEPT ![Id(w)] = "running"]
          /\ workspace' = [workspace EXCEPT ![w].stage = "ssh"]
       \/ /\ workspace' = [workspace EXCEPT ![w].stage = "abort"]
          /\ UNCHANGED container
    /\ UNCHANGED <<entries, allocated, call, starter>>

\* configureSSH runs commands in the container, which must be running.
ConfigureSSH(w) ==
    /\ workspace[w].stage = "ssh"
    /\ \/ /\ container[Id(w)] = "running"
          /\ workspace' = [workspace EXCEPT ![w].stage = "finish"]
       \/ workspace' = [workspace EXCEPT ![w].stage = "abort"]
    /\ UNCHANGED <<entries, allocated, container, call, starter>>

\* Mutant of AbortCreate: goes on after cleaning up, as if it had succeeded.
AbortCreateAndGoOn(w) ==
    /\ workspace[w].stage = "abort"
    /\ workspace' = [workspace EXCEPT ![w].stage = "finish"]
    /\ Destroy(Id(w)) \/ UNCHANGED container
    /\ UNCHANGED <<entries, allocated, call, starter>>

\* After a failed start or configuration: Destroy, its error ignored.  The entry
\* and its port stay until the workspace is deleted.  (A failed configuration also
\* stops the container first, whose error is ignored as well; left out, since a
\* container that survives is listed whether it runs or not.)
AbortCreate(w) ==
    /\ workspace[w].stage = "abort"
    /\ End(w, "error")
    /\ Destroy(Id(w)) \/ UNCHANGED container
    /\ UNCHANGED <<entries, allocated, call, starter>>

FinishCreate(w) ==
    /\ workspace[w].stage = "finish"
    /\ End(w, "running")
    /\ UNCHANGED <<entries, allocated, container, call, starter>>
-----------------------------------------------------------------------------
(* StartServices: for each service, in dependency order, allocate a port   *)
(* and store the service in the workspace, then run its command, which     *)
(* changes nothing modelled here.                                          *)

BeginServices(s) ==
    /\ starter[s].ws = Nothing
    /\ \E i \in Ids : /\ entries[i] # Nothing
                      /\ starter' = [starter EXCEPT ![s].ws = entries[i], ![s].todo = Services]
    /\ UNCHANGED <<entries, workspace, allocated, container, call>>

\* A service for which no port is free is skipped.
AllocateService(s) ==
    /\ starter[s].todo # {} /\ starter[s].svc = Nothing
    /\ \E v \in starter[s].todo :
         IF ServicePorts \subseteq allocated
         THEN /\ starter' = [starter EXCEPT ![s].todo = @ \ {v}]
              /\ UNCHANGED allocated
         ELSE /\ starter' = [starter EXCEPT ![s].todo = @ \ {v}, ![s].svc = v,
                                            ![s].port = FirstFree(ServicePorts)]
              /\ allocated' = allocated \cup {FirstFree(ServicePorts)}
    /\ UNCHANGED <<entries, workspace, container, call>>

\* The port of a service stored before is overwritten, not released.
StoreService(s) ==
    /\ starter[s].svc # Nothing
    /\ workspace' = [workspace EXCEPT ![starter[s].ws].services[starter[s].svc] = starter[s].port]
    /\ starter' = [starter EXCEPT ![s].svc = Nothing, ![s].port = 0]
    /\ UNCHANGED <<entries, allocated, container, call>>

EndServices(s) ==
    /\ starter[s].ws # Nothing /\ starter[s].todo = {} /\ starter[s].svc = Nothing
    /\ starter' = [starter EXCEPT ![s] = IdleStarter]
    /\ UNCHANGED <<entries, workspace, allocated, container, call>>
-----------------------------------------------------------------------------
(* StopWorkspace and DeleteWorkspace: a lookup, then work on the pointer.  *)

Lookup(k, stage) ==
    /\ call[k].stage = "idle"
    /\ reuse /\ ~Overlapping => \A j \in Callers : call[j].stage = "idle"
    /\ \E i \in Ids : /\ entries[i] # Nothing
                      /\ call' = [call EXCEPT ![k] = [stage |-> stage, ws |-> entries[i]]]
    /\ UNCHANGED <<entries, workspace, allocated, container, starter>>

BeginStop(k)   == Lookup(k, "mark")
BeginDelete(k) == Lookup(k, "destroy")

Goto(k, stage) == call' = [call EXCEPT ![k].stage = stage]
Return(k) == call' = [call EXCEPT ![k] = IdleCall]

\* The status is written before the container is stopped.
MarkStopped(k) ==
    /\ call[k].stage = "mark"
    /\ workspace' = [workspace EXCEPT ![call[k].ws].status = "stopped"]
    /\ Goto(k, "stop")
    /\ UNCHANGED <<entries, allocated, container, starter>>

\* provider.Stop; an error is returned to the client and undoes nothing.
StopContainer(k) ==
    LET i == Id(call[k].ws) IN
    /\ call[k].stage = "stop"
    /\ \/ Exists(i) /\ container' = [container EXCEPT ![i] = "stopped"]
       \/ UNCHANGED container
    /\ Return(k)
    /\ UNCHANGED <<entries, workspace, allocated, starter>>

\* Mutant of DestroyContainer: goes on to forget the workspace on an error.
DestroyContainerUnchecked(k) ==
    /\ call[k].stage = "destroy"
    /\ Goto(k, "release")
    /\ Destroy(Id(call[k].ws)) \/ UNCHANGED container
    /\ UNCHANGED <<entries, workspace, allocated, starter>>

\* provider.Destroy: on an error the workspace keeps its entry and its ports.
DestroyContainer(k) ==
    /\ call[k].stage = "destroy"
    /\ \/ Destroy(Id(call[k].ws)) /\ Goto(k, "release")
       \/ Return(k) /\ UNCHANGED container
    /\ UNCHANGED <<entries, workspace, allocated, starter>>

\* ReleasePort for the SSH port and each service of the workspace looked up.
ReleasePorts(k) ==
    LET w == workspace[call[k].ws] IN
    /\ call[k].stage = "release"
    /\ allocated' = allocated \ ({w.port} \cup {w.services[s] : s \in Services})
    /\ Goto(k, "remove")
    /\ UNCHANGED <<entries, workspace, container, starter>>

\* The entry under the identifier goes, whichever workspace it is by now.
RemoveEntry(k) ==
    /\ call[k].stage = "remove"
    /\ entries' = [entries EXCEPT ![Id(call[k].ws)] = Nothing]
    /\ Return(k)
    /\ UNCHANGED <<workspace, allocated, container, starter>>
-----------------------------------------------------------------------------
CreateWorkspace(w) ==
    \/ AllocateSSH(w) \/ InsertEntry(w) \/ CreateContainer(w) \/ StartContainer(w)
    \/ ConfigureSSH(w) \/ AbortCreate(w) \/ FinishCreate(w)
StartServices(s) ==
    BeginServices(s) \/ AllocateService(s) \/ StoreService(s) \/ EndServices(s)
StopWorkspace(k) == BeginStop(k) \/ MarkStopped(k) \/ StopContainer(k)
DeleteWorkspace(k) ==
    BeginDelete(k) \/ DestroyContainer(k) \/ ReleasePorts(k) \/ RemoveEntry(k)

Next ==
    /\ \/ \E w \in Creations : CreateWorkspace(w)
       \/ \E s \in Starters : StartServices(s)
       \/ \E k \in Callers : StopWorkspace(k) \/ DeleteWorkspace(k)
    /\ UNCHANGED reuse

Spec == Init /\ [][Next]_vars
-----------------------------------------------------------------------------
(* What must hold.                                                         *)

Stage == {"idle", "insert", "create", "start", "ssh", "finish", "abort", "done"}
Status == {"none", "creating", "running", "stopped", "error"}
Workspace == [stage : Stage, id : Ids \cup {Nothing}, status : Status,
              port : SSHPorts \cup {0}, services : [Services -> ServicePorts \cup {0}]]

\* Every variable stays in its range.
TypeOK ==
    /\ entries \in [Ids -> Creations \cup {Nothing}]
    /\ workspace \in [Creations -> Workspace]
    /\ allocated \in SUBSET (SSHPorts \cup ServicePorts)
    /\ container \in [Ids -> {"none", "created", "running", "stopped"}]
    /\ call \in [Callers -> [stage : {"idle", "mark", "stop", "destroy", "release", "remove"},
                             ws : Creations \cup {Nothing}]]
    /\ starter \in [Starters -> [ws : Creations \cup {Nothing}, todo : SUBSET Services,
                                 svc : Services \cup {Nothing}, port : ServicePorts \cup {0}]]
    /\ reuse \in BOOLEAN

\* The workspace is in the map and no delete has released its ports.
Listed(w) ==
    /\ workspace[w].id \in Ids /\ entries[Id(w)] = w
    /\ \A k \in Callers : call[k] # [stage |-> "remove", ws |-> w]

\* The ports a workspace holds: its SSH port and those of its services.
PortsOf(w) == {workspace[w].port} \cup ({workspace[w].services[s] : s \in Services} \ {0})

(***************************************************************************)
(* Listed workspaces never share a host port, and every port they hold is  *)
(* marked allocated.  README.md promises "No port conflicts between        *)
(* workspaces"; a delete works on the pointer it looked up before it       *)
(* destroyed the container, so the ports it releases may by then belong to *)
(* somebody else.                                                          *)
(***************************************************************************)
PortsUnique ==
    \A w \in Creations : Listed(w) =>
        /\ PortsOf(w) \subseteq allocated
        /\ \A v \in Creations \ {w} : Listed(v) => PortsOf(w) \cap PortsOf(v) = {}

(***************************************************************************)
(* No container is lost: as long as it exists, a client can find a         *)
(* workspace with its identifier to delete it with, provided that no two   *)
(* creations share an identifier.                                          *)
(***************************************************************************)
ContainersListed == ~reuse => \A i \in Ids : Exists(i) => entries[i] # Nothing

(***************************************************************************)
(* A workspace reported "running" has a container, unless a delete that    *)
(* destroyed it has yet to remove the entry or identifiers are reused.     *)
(***************************************************************************)
RunningHasContainer ==
    \A w \in Creations :
        /\ ~reuse /\ workspace[w].status = "running" /\ workspace[w].id \in Ids /\ entries[Id(w)] = w
        /\ \A k \in Callers : ~ (call[k].ws = w /\ call[k].stage \in {"release", "remove"})
        => Exists(Id(w))
=============================================================================
