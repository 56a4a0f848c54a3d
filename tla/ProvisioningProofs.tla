------------------------- MODULE ProvisioningProofs -------------------------
(***************************************************************************)
(* Theorems about Provisioning, for any number of creations and callers    *)
(* and any bound on the clock.                                             *)
(***************************************************************************)
EXTENDS Provisioning, TLAPS

USE MaxIdAssumption, MinAdvanceAssumption, NoWorkspaceAssumption

-----------------------------------------------------------------------------
(* Type correctness.                                                       *)

\* TypeOK is not inductive: a goroutine indexes the registry by its identifier,
\* which is in range only once it has read the clock; likewise a request.
Assigned ==
    /\ \A c \in Creations : goroutine[c].stage # "idle" => goroutine[c].id \in Ids
    /\ \A k \in Callers : call[k].op # "idle" => call[k].id \in Ids

TypeInv == TypeOK /\ Assigned

\* What the registry operations do to the type of objects and services.
LEMMA UpdateTypes ==
    ASSUME TypeOK, NEW i
    PROVE  /\ \A s \in Status : UpdateStatus(i, s) => object' \in [Creations -> Object]
           /\ \A p \in Port : UpdateSSHPort(i, p) => object' \in [Creations -> Object]
<1>1. ASSUME NEW s \in Status, NEW o \in Object
      PROVE  [o EXCEPT !.status = s] \in Object
  BY DEF Object
<1>2. ASSUME NEW p \in Port, NEW o \in Object
      PROVE  [o EXCEPT !.port = p] \in Object
  BY DEF Object
<1>3. object \in [Creations -> Object]
  BY DEF TypeOK
<1> QED
  BY <1>1, <1>2, <1>3 DEF UpdateStatus, UpdateSSHPort

\* The initial state is well typed.
LEMMA InitTypeInv == Init => TypeInv
  BY DEF Init, TypeInv, TypeOK, Assigned, Ids, Stage, Object, Status, Port

\* Moving a goroutine that has its identifier to a later stage keeps it typed.
LEMMA GotoTypes ==
    ASSUME TypeInv, NEW c \in Creations, NEW s \in Stage,
           goroutine[c].stage # "idle", Goto(c, s)
    PROVE  /\ goroutine' \in [Creations -> [stage : Stage, id : 0..MaxId]]
           /\ \A d \in Creations :
                goroutine'[d].stage # "idle" => goroutine'[d].id \in Ids
  BY DEF TypeInv, TypeOK, Assigned, Goto

\* The steps of a creation's handler and goroutine keep every type.
LEMMA CreationTypeInv ==
    ASSUME TypeInv, NEW c \in Creations,
           AcceptCreate(c) \/ RegisterWorkspace(c) \/ Provision(c)
    PROVE  TypeInv'
<1> DEFINE i == goroutine[c].id
           Typed == /\ goroutine' \in [Creations -> [stage : Stage, id : 0..MaxId]]
                    /\ \A d \in Creations :
                         goroutine'[d].stage # "idle" => goroutine'[d].id \in Ids
<1>1. {"refused", "start", "port", "done", "clone", "create", "fail", "boot",
       "map", "services", "finish", "fork"} \subseteq Stage \ {"idle"}
  BY DEF Stage, Live
<1>2. goroutine[c].stage # "idle" => i \in Ids
  BY DEF TypeInv, Assigned
<1>3. \A s \in Stage : goroutine[c].stage # "idle" /\ Goto(c, s) => Typed
  BY GotoTypes
<1>4. {"creating", "running", "error"} \subseteq Status
  BY DEF Status
<1>5. {"guessed", "mapped"} \subseteq Port
  BY DEF Port
<1> HIDE DEF i, Typed
<1>a. CASE AcceptCreate(c)
  <2>1. PICK d \in MinAdvance..1 :
          /\ clock + d \in Ids
          /\ clock' = clock + d
          /\ goroutine' = [goroutine EXCEPT ![c] = [stage |-> "fork", id |-> clock + d]]
    BY <1>a DEF AcceptCreate
  <2>2. clock' \in 0..MaxId
    BY <2>1 DEF Ids
  <2>3. [stage |-> "fork", id |-> clock + d] \in [stage : Stage, id : 0..MaxId]
    BY <2>1, <2>2, <1>1
  <2>4. goroutine' \in [Creations -> [stage : Stage, id : 0..MaxId]]
    BY <2>1, <2>3 DEF TypeInv, TypeOK
  <2>5. \A e \in Creations : goroutine'[e].stage # "idle" => goroutine'[e].id \in Ids
    BY <2>1 DEF TypeInv, TypeOK, Assigned
  <2> QED
    BY <1>a, <2>2, <2>4, <2>5 DEF AcceptCreate, TypeInv, TypeOK, Assigned, registryVars
<1>b. CASE RegisterWorkspace(c)
  <2>1. CASE Registered(i)
    BY <1>b, <2>1, <1>1, <1>3 DEF RegisterWorkspace, TypeInv, TypeOK, Assigned, i, Typed
  <2>2. CASE ~ Registered(i)
    <3>1. object' = [object EXCEPT ![c].status = "creating"]
      BY <1>b, <2>2 DEF RegisterWorkspace, i
    <3>2. object' \in [Creations -> Object]
      BY <3>1, <1>4 DEF TypeInv, TypeOK, Object
    <3>3. registry' \in [Ids -> Creations \cup {NoWorkspace}]
      BY <1>b, <2>2 DEF RegisterWorkspace, TypeInv, TypeOK, i
    <3>4. Typed
      BY <1>b, <2>2, <1>1, <1>3 DEF RegisterWorkspace, i
    <3> QED
      BY <1>b, <3>2, <3>3, <3>4 DEF RegisterWorkspace, TypeInv, TypeOK, Assigned, Typed
  <2> QED
    BY <2>1, <2>2
<1>c. CASE MarkCreating(c)
  <2>1. object' \in [Creations -> Object]
    BY <1>c, <1>4, UpdateTypes DEF MarkCreating, TypeInv
  <2>2. Typed
    BY <1>c, <1>1, <1>3 DEF MarkCreating
  <2> QED
    BY <1>c, <2>1, <2>2 DEF MarkCreating, TypeInv, TypeOK, Assigned, Typed
<1>d. CASE GuessPort(c)
  <2>1. object' \in [Creations -> Object]
    BY <1>d, <1>5, UpdateTypes DEF GuessPort, TypeInv
  <2>2. Typed
    BY <1>d, <1>1, <1>3 DEF GuessPort
  <2> QED
    BY <1>d, <2>1, <2>2 DEF GuessPort, TypeInv, TypeOK, Assigned, Typed
<1>e. CASE CloneRepository(c)
  <2>1. Typed
    BY <1>e, <1>1, <1>3 DEF CloneRepository
  <2> QED
    BY <1>e, <2>1 DEF CloneRepository, TypeInv, TypeOK, Assigned, Typed, registryVars
<1>f. CASE CreateContainer(c)
  <2>1. Typed
    BY <1>f, <1>1, <1>3 DEF CreateContainer
  <2>2. container' \in [Ids -> {"none", "created", "started"}]
    BY <1>f DEF CreateContainer, TypeInv, TypeOK
  <2> QED
    BY <1>f, <2>1, <2>2 DEF CreateContainer, TypeInv, TypeOK, Assigned, Typed, registryVars
<1>g. CASE StartContainer(c)
  <2>1. Typed
    BY <1>g, <1>1, <1>3 DEF StartContainer
  <2>2. container' \in [Ids -> {"none", "created", "started"}]
    BY <1>g DEF StartContainer, TypeInv, TypeOK
  <2> QED
    BY <1>g, <2>1, <2>2 DEF StartContainer, TypeInv, TypeOK, Assigned, Typed, registryVars
<1>h. CASE MapPorts(c)
  <2>1. object' \in [Creations -> Object]
    BY <1>h, <1>5, UpdateTypes DEF MapPorts, TypeInv, TypeOK
  <2>2. Typed
    BY <1>h, <1>1, <1>3 DEF MapPorts
  <2> QED
    BY <1>h, <2>1, <2>2 DEF MapPorts, TypeInv, TypeOK, Assigned, Typed
<1>i. CASE SetupServices(c)
  <2>1. services' \in SUBSET Ids
    BY <1>i, <1>2 DEF SetupServices, UpdateServices, TypeInv, TypeOK, i
  <2>2. Typed
    BY <1>i, <1>1, <1>3 DEF SetupServices
  <2> QED
    BY <1>i, <2>1, <2>2 DEF SetupServices, TypeInv, TypeOK, Assigned, Typed
<1>j. CASE FinishProvision(c)
  <2>1. object' \in [Creations -> Object]
    BY <1>j, <1>4, UpdateTypes DEF FinishProvision, TypeInv
  <2>2. Typed
    BY <1>j, <1>1, <1>3 DEF FinishProvision
  <2> QED
    BY <1>j, <2>1, <2>2 DEF FinishProvision, TypeInv, TypeOK, Assigned, Typed
<1>k. CASE FailProvision(c)
  <2>1. object' \in [Creations -> Object]
    BY <1>k, <1>4, UpdateTypes DEF FailProvision, TypeInv
  <2>2. Typed
    BY <1>k, <1>1, <1>3 DEF FailProvision
  <2> QED
    BY <1>k, <2>1, <2>2 DEF FailProvision, TypeInv, TypeOK, Assigned, Typed
<1> QED
  BY <1>a, <1>b, <1>c, <1>d, <1>e, <1>f, <1>g, <1>h, <1>i, <1>j, <1>k DEF Provision

\* So do the steps of a stop or delete request.
LEMMA CallTypeInv ==
    ASSUME TypeInv, NEW k \in Callers,
           BeginStop(k) \/ BeginDelete(k) \/ FinishStop(k) \/ FinishDelete(k)
    PROVE  TypeInv'
<1> DEFINE Typed == /\ call' \in [Callers -> [op : {"idle", "stop", "delete"}, id : 0..MaxId]]
                    /\ \A j \in Callers : call'[j].op # "idle" => call'[j].id \in Ids
<1>1. ASSUME NEW op \in {"stop", "delete"}, NEW i \in Ids, Begin(k, op, i)
      PROVE  TypeInv'
  <2>1. [op |-> op, id |-> i] \in [op : {"idle", "stop", "delete"}, id : 0..MaxId]
    BY DEF Ids
  <2>2. Typed
    BY <1>1, <2>1 DEF Begin, TypeInv, TypeOK, Assigned
  <2> QED
    BY <1>1, <2>2 DEF Begin, TypeInv, TypeOK, Assigned, registryVars
<1>2. Return(k) => Typed
  BY DEF Return, TypeInv, TypeOK, Assigned
<1>3. CASE FinishStop(k)
  <2>1. object' \in [Creations -> Object]
    BY <1>3, UpdateTypes DEF FinishStop, TypeInv, Status
  <2> QED
    BY <1>3, <1>2, <2>1 DEF FinishStop, TypeInv, TypeOK, Assigned
<1>4. CASE FinishDelete(k)
  <2>1. registry' \in [Ids -> Creations \cup {NoWorkspace}]
    BY <1>4 DEF FinishDelete, DeleteEntry, TypeInv, TypeOK
  <2>2. services' \in SUBSET Ids
    BY <1>4 DEF FinishDelete, DeleteEntry, TypeInv, TypeOK
  <2> QED
    BY <1>4, <1>2, <2>1, <2>2 DEF FinishDelete, TypeInv, TypeOK, Assigned
<1> QED
  BY <1>1, <1>3, <1>4 DEF BeginStop, BeginDelete

\* So does a restart.
LEMMA RestartTypeInv ==
    ASSUME TypeInv, Restart
    PROVE  TypeInv'
<1>1. goroutine' \in [Creations -> [stage : Stage, id : 0..MaxId]]
  <2>1. \A c \in Creations : [goroutine[c] EXCEPT !.stage = "killed"]
                               \in [stage : Stage, id : 0..MaxId]
    BY DEF TypeInv, TypeOK, Stage
  <2> QED
    BY <2>1 DEF Restart, TypeInv, TypeOK
<1>2. \A c \in Creations : goroutine'[c].stage # "idle" => goroutine'[c].id \in Ids
  BY DEF Restart, TypeInv, TypeOK, Assigned, Live
<1>3. call' \in [Callers -> [op : {"idle", "stop", "delete"}, id : 0..MaxId]]
  BY DEF Restart
<1>4. registry' \in [Ids -> Creations \cup {NoWorkspace}] /\ services' \in SUBSET Ids
  BY DEF Restart
<1>5. \A k \in Callers : call'[k].op = "idle"
  BY DEF Restart
<1> QED
  BY <1>1, <1>2, <1>3, <1>4, <1>5 DEF Restart, TypeInv, TypeOK, Assigned

\* The invariant is inductive.
LEMMA NextTypeInv == TypeInv /\ [Next]_vars => TypeInv'
<1> SUFFICES ASSUME TypeInv, [Next]_vars PROVE TypeInv'
  OBVIOUS
<1>1. CASE UNCHANGED vars
  BY <1>1 DEF vars, registryVars, TypeInv, TypeOK, Assigned
<1>2. CASE Next
  BY <1>2, CreationTypeInv, CallTypeInv, RestartTypeInv DEF Next
<1> QED
  BY <1>1, <1>2

\* Every reachable state is well typed.
THEOREM TypeCorrect == Spec => []TypeOK
<1>1. TypeInv => TypeOK
  BY DEF TypeInv
<1> QED
  BY <1>1, InitTypeInv, NextTypeInv, PTL DEF Spec
-----------------------------------------------------------------------------
(* A running workspace was started, and services have a workspace.         *)

\* A registered object is the one of a creation that carries the identifier.
Linked ==
    \A i \in Ids, c \in Creations : registry[i] = c =>
        goroutine[c].id = i /\ goroutine[c].stage \notin {"idle", "fork"}

\* An object has no status before its creation registers it.
Unborn ==
    \A c \in Creations :
        goroutine[c].stage \in {"idle", "fork"} => object[c].status = "none"

\* Past provider.Start the container is started.
StagesStarted ==
    \A c \in Creations : goroutine[c].stage \in {"map", "services", "finish"}
        => container[goroutine[c].id] = "started"

\* The inductive invariant: what "running" means depends on which goroutine
\* wrote it, through whose identifier, and on how far that one had come.
SafeInv ==
    /\ Linked
    /\ Unborn
    /\ StagesStarted
    /\ RunningWasStarted
    /\ ServicesBelong

\* The new status of an object: what was written if it is the registered one.
LEMMA UpdateStatusEffect ==
    ASSUME TypeInv, NEW i \in Ids, NEW s \in Status, UpdateStatus(i, s),
           NEW c \in Creations
    PROVE  object'[c].status = IF registry[i] = c THEN s ELSE object[c].status
  BY DEF UpdateStatus, TypeInv, TypeOK, Object

\* Writing a port leaves every status.
LEMMA UpdateSSHPortEffect ==
    ASSUME TypeInv, NEW i \in Ids, NEW p \in Port, UpdateSSHPort(i, p),
           NEW c \in Creations
    PROVE  object'[c].status = object[c].status
  BY DEF UpdateSSHPort, TypeInv, TypeOK, Object

\* A step of a goroutine that is past the handler: only its stage changes.
LEMMA GotoEffect ==
    ASSUME TypeInv, NEW c \in Creations, NEW s \in Stage, Goto(c, s),
           NEW d \in Creations
    PROVE  /\ goroutine'[d].id = goroutine[d].id
           /\ goroutine'[d].stage = IF d = c THEN s ELSE goroutine[d].stage
  BY DEF Goto, TypeInv, TypeOK

(***************************************************************************)
(* What a step of a live goroutine may do without breaking the invariant:  *)
(* write a status through its own identifier, "running" only from the last *)
(* stage; register services of a registered workspace; never un-start a    *)
(* container; and enter a late stage only with its container started.      *)
(***************************************************************************)
LEMMA LiveStepSafe ==
    ASSUME TypeInv, SafeInv, NEW c \in Creations, goroutine[c].stage \in Live,
           NEW s \in Live \cup {"done"}, Goto(c, s),
           registry' = registry,
           \A j \in services' : j \in services \/ Registered(j),
           \A d \in Creations :
              \/ object'[d].status = object[d].status
              \/ /\ registry[goroutine[c].id] = d
                 /\ object'[d].status = "running" => goroutine[c].stage = "finish",
           \A j \in Ids : container[j] = "started" => container'[j] = "started",
           s \in {"map", "services", "finish"} => container'[goroutine[c].id] = "started"
    PROVE  SafeInv'
<1> DEFINE i == goroutine[c].id
<1>1. i \in Ids /\ goroutine[c].stage \notin {"idle", "fork"}
  BY DEF TypeInv, Assigned, Live
<1>2. s \in Stage /\ s \notin {"idle", "fork"}
  BY DEF Stage, Live
<1>3. \A d \in Creations :
        /\ goroutine'[d].id = goroutine[d].id
        /\ goroutine'[d].stage = IF d = c THEN s ELSE goroutine[d].stage
  BY <1>2, GotoEffect
<1>4. \A d \in Creations : goroutine[d].stage \notin {"idle", "fork"} => goroutine[d].id \in Ids
  BY DEF TypeInv, Assigned
<1>5. Linked'
  BY <1>1, <1>2, <1>3 DEF SafeInv, Linked
<1>6. Unborn'
  BY <1>1, <1>2, <1>3 DEF SafeInv, Linked, Unborn
<1>7. StagesStarted'
  BY <1>1, <1>3, <1>4 DEF SafeInv, StagesStarted
<1>8. RunningWasStarted'
  <2> SUFFICES ASSUME NEW d \in Creations, object'[d].status = "running"
               PROVE  container'[goroutine[d].id] = "started"
    BY <1>3 DEF RunningWasStarted
  <2>1. CASE object'[d].status = object[d].status
    <3>1. goroutine[d].stage \notin {"idle", "fork"}
      BY <2>1 DEF SafeInv, Unborn
    <3> QED
      BY <2>1, <3>1, <1>4 DEF SafeInv, RunningWasStarted
  <2>2. CASE registry[i] = d /\ goroutine[c].stage = "finish"
    BY <2>2, <1>1 DEF SafeInv, StagesStarted, Linked
  <2> QED
    BY <2>1, <2>2
<1>9. ServicesBelong'
  BY DEF SafeInv, ServicesBelong, Registered
<1> QED
  BY <1>5, <1>6, <1>7, <1>8, <1>9 DEF SafeInv

\* The steps of a provisioning, each an instance of LiveStepSafe.
LEMMA ProvisionSafe ==
    ASSUME TypeInv, SafeInv, NEW c \in Creations, Provision(c)
    PROVE  SafeInv'
<1> DEFINE i == goroutine[c].id
<1>1. goroutine[c].stage \in Live /\ i \in Ids
  <2>1. goroutine[c].stage \in Live
    BY DEF Provision, MarkCreating, GuessPort, CloneRepository, CreateContainer,
           StartContainer, MapPorts, SetupServices, FinishProvision, FailProvision, Live
  <2> QED
    BY <2>1 DEF TypeInv, Assigned, Live
<1>2. {"port", "done", "clone", "create", "fail", "boot", "map", "services", "finish"}
        \subseteq Live \cup {"done"}
  BY DEF Live
<1>3. {"creating", "running", "error"} \subseteq Status /\ {"guessed", "mapped"} \subseteq Port
  BY DEF Status, Port
<1>4. \A s \in Status : UpdateStatus(i, s) =>
        \A d \in Creations : object'[d].status = IF registry[i] = d THEN s ELSE object[d].status
  BY <1>1, UpdateStatusEffect
<1>5. \A p \in Port : UpdateSSHPort(i, p) =>
        \A d \in Creations : object'[d].status = object[d].status
  BY <1>1, UpdateSSHPortEffect
<1>6. goroutine[c].stage \in {"map", "services", "finish"} => container[i] = "started"
  BY DEF SafeInv, StagesStarted
<1> HIDE DEF i
<1>a. CASE MarkCreating(c)
  BY <1>a, <1>1, <1>2, <1>3, <1>4, LiveStepSafe DEF MarkCreating, i
<1>b. CASE GuessPort(c)
  BY <1>b, <1>1, <1>2, <1>3, <1>5, LiveStepSafe DEF GuessPort, i
<1>c. CASE CloneRepository(c)
  BY <1>c, <1>1, <1>2, LiveStepSafe DEF CloneRepository, registryVars
<1>d. CASE CreateContainer(c)
  <2>1. \A j \in Ids : container[j] = "started" => container'[j] = "started"
    BY <1>d DEF CreateContainer, TypeInv, TypeOK
  <2> QED
    BY <1>d, <2>1, <1>1, <1>2, LiveStepSafe DEF CreateContainer, registryVars
<1>e. CASE StartContainer(c)
  <2>1. \A j \in Ids : container[j] = "started" => container'[j] = "started"
    BY <1>e DEF StartContainer, TypeInv, TypeOK
  <2>2. CASE container' = [container EXCEPT ![i] = "started"] /\ Goto(c, "map")
    <3>1. container'[i] = "started"
      BY <2>2, <1>1 DEF TypeInv, TypeOK
    <3> QED
      BY <1>e, <2>1, <2>2, <3>1, <1>1, <1>2, LiveStepSafe DEF StartContainer, registryVars, i
  <2>3. CASE Goto(c, "fail") /\ UNCHANGED container
    BY <1>e, <2>3, <1>1, <1>2, LiveStepSafe DEF StartContainer, registryVars
  <2> QED
    BY <1>e, <2>2, <2>3 DEF StartContainer, i
<1>f. CASE MapPorts(c)
  <2>1. \A d \in Creations : object'[d].status = object[d].status
    BY <1>f, <1>3, <1>5 DEF MapPorts, i
  <2> QED
    BY <1>f, <2>1, <1>1, <1>2, <1>6, LiveStepSafe DEF MapPorts, i
<1>g. CASE SetupServices(c)
  <2>1. \A j \in services' : j \in services \/ Registered(j)
    BY <1>g DEF SetupServices, UpdateServices
  <2>2. \E s \in {"finish", "fail"} : Goto(c, s)
    BY <1>g DEF SetupServices
  <2> QED
    BY <1>g, <2>1, <2>2, <1>1, <1>2, <1>6, LiveStepSafe DEF SetupServices, i
<1>h. CASE FinishProvision(c)
  BY <1>h, <1>1, <1>2, <1>3, <1>4, LiveStepSafe DEF FinishProvision, i
<1>i. CASE FailProvision(c)
  BY <1>i, <1>1, <1>2, <1>3, <1>4, LiveStepSafe DEF FailProvision, i
<1> QED
  BY <1>a, <1>b, <1>c, <1>d, <1>e, <1>f, <1>g, <1>h, <1>i DEF Provision

\* The two steps of the creation handler.
LEMMA CreateSafe ==
    ASSUME TypeInv, SafeInv, NEW c \in Creations,
           AcceptCreate(c) \/ RegisterWorkspace(c)
    PROVE  SafeInv'
<1>1. CASE AcceptCreate(c)
  <2>1. PICK e \in MinAdvance..1 :
          goroutine' = [goroutine EXCEPT ![c] = [stage |-> "fork", id |-> clock + e]]
    BY <1>1 DEF AcceptCreate
  <2>2. /\ goroutine'[c].stage = "fork"
        /\ \A d \in Creations \ {c} : goroutine'[d] = goroutine[d]
    BY <2>1 DEF TypeInv, TypeOK
  <2>3. \A d \in Creations : object[d].status = "running" => d # c
    BY <1>1 DEF AcceptCreate, SafeInv, Unborn
  <2>4. Linked'
    BY <1>1, <2>2 DEF AcceptCreate, registryVars, SafeInv, Linked
  <2>5. Unborn'
    BY <1>1, <2>2 DEF AcceptCreate, registryVars, SafeInv, Unborn
  <2>6. StagesStarted'
    BY <1>1, <2>2 DEF AcceptCreate, SafeInv, StagesStarted
  <2>7. RunningWasStarted'
    BY <1>1, <2>2, <2>3 DEF AcceptCreate, registryVars, SafeInv, RunningWasStarted
  <2>8. ServicesBelong'
    BY <1>1 DEF AcceptCreate, registryVars, SafeInv, ServicesBelong, Registered
  <2> QED
    BY <2>4, <2>5, <2>6, <2>7, <2>8 DEF SafeInv
<1>2. CASE RegisterWorkspace(c)
  <2> DEFINE i == goroutine[c].id
  <2>1. i \in Ids /\ goroutine[c].stage = "fork"
    BY <1>2 DEF RegisterWorkspace, TypeInv, Assigned
  <2>2. PICK s \in {"refused", "start"} : Goto(c, s)
    BY <1>2 DEF RegisterWorkspace
  <2>3. \A d \in Creations :
          /\ goroutine'[d].id = goroutine[d].id
          /\ goroutine'[d].stage = IF d = c THEN s ELSE goroutine[d].stage
    BY <2>2, GotoEffect DEF Stage, Live
  <2>4. \A j \in Ids, d \in Creations : registry'[j] = d => registry[j] = d \/ (j = i /\ d = c)
    BY <1>2 DEF RegisterWorkspace, TypeInv, TypeOK
  <2>5. \A d \in Creations : object'[d].status = object[d].status
                               \/ (d = c /\ object'[d].status = "creating")
    BY <1>2 DEF RegisterWorkspace, TypeInv, TypeOK, Object
  <2>6. \A j \in Ids : Registered(j) => Registered(j)'
    BY <1>2 DEF RegisterWorkspace, TypeInv, TypeOK, Registered
  <2>7. Linked'
    BY <2>2, <2>3, <2>4 DEF SafeInv, Linked
  <2>8. Unborn'
    BY <2>2, <2>3, <2>5 DEF SafeInv, Unborn
  <2>9. StagesStarted'
    BY <1>2, <2>2, <2>3 DEF RegisterWorkspace, SafeInv, StagesStarted
  <2>10. RunningWasStarted'
    BY <1>2, <2>3, <2>5 DEF RegisterWorkspace, SafeInv, RunningWasStarted
  <2>11. ServicesBelong'
    BY <1>2, <2>6 DEF RegisterWorkspace, SafeInv, ServicesBelong, TypeInv, TypeOK
  <2> QED
    BY <2>7, <2>8, <2>9, <2>10, <2>11 DEF SafeInv
<1> QED
  BY <1>1, <1>2

\* The steps of a stop or delete request.
LEMMA CallSafe ==
    ASSUME TypeInv, SafeInv, NEW k \in Callers,
           BeginStop(k) \/ BeginDelete(k) \/ FinishStop(k) \/ FinishDelete(k)
    PROVE  SafeInv'
<1>1. CASE BeginStop(k) \/ BeginDelete(k)
  BY <1>1 DEF BeginStop, BeginDelete, Begin, registryVars, SafeInv, Linked, Unborn,
              StagesStarted, RunningWasStarted, ServicesBelong, Registered
<1>2. CASE FinishStop(k)
  <2>1. call[k].id \in Ids
    BY <1>2 DEF FinishStop, TypeInv, Assigned
  <2>2. \A d \in Creations : object'[d].status =
          IF registry[call[k].id] = d THEN "stopped" ELSE object[d].status
    BY <1>2, <2>1, UpdateStatusEffect DEF FinishStop, Status
  <2>3. Unborn'
    BY <1>2, <2>1, <2>2 DEF FinishStop, SafeInv, Unborn, Linked
  <2>4. RunningWasStarted'
    BY <1>2, <2>2 DEF FinishStop, SafeInv, RunningWasStarted
  <2> QED
    BY <1>2, <2>3, <2>4 DEF FinishStop, SafeInv, Linked, StagesStarted, ServicesBelong, Registered
<1>3. CASE FinishDelete(k)
  <2>1. registry' = [registry EXCEPT ![call[k].id] = NoWorkspace]
        /\ services' = services \ {call[k].id}
    BY <1>3 DEF FinishDelete, DeleteEntry
  <2>2. Linked'
    BY <1>3, <2>1 DEF FinishDelete, SafeInv, Linked, TypeInv, TypeOK
  <2>3. ServicesBelong'
    BY <2>1 DEF SafeInv, ServicesBelong, Registered, TypeInv, TypeOK
  <2> QED
    BY <1>3, <2>2, <2>3 DEF FinishDelete, SafeInv, Unborn, StagesStarted, RunningWasStarted
<1> QED
  BY <1>1, <1>2, <1>3

\* A restart: the registry is empty, and killed goroutines write nothing more.
LEMMA RestartSafe ==
    ASSUME TypeInv, SafeInv, Restart
    PROVE  SafeInv'
<1>1. \A c \in Creations :
        /\ goroutine'[c].id = goroutine[c].id
        /\ goroutine'[c].stage = IF goroutine[c].stage \in Live \cup {"fork"}
                                 THEN "killed" ELSE goroutine[c].stage
  BY DEF Restart, TypeInv, TypeOK
<1>2. Linked' /\ ServicesBelong'
  BY DEF Restart, Linked, ServicesBelong
<1>3. Unborn'
  BY <1>1 DEF Restart, SafeInv, Unborn
<1>4. StagesStarted'
  BY <1>1 DEF StagesStarted, Live
<1>5. RunningWasStarted'
  BY <1>1 DEF Restart, SafeInv, RunningWasStarted
<1> QED
  BY <1>2, <1>3, <1>4, <1>5 DEF SafeInv

\* The initial states satisfy SafeInv: nothing is registered, so nothing is
\* linked.
LEMMA InitSafe == Init => SafeInv
  BY DEF Init, SafeInv, Linked, Unborn, StagesStarted, RunningWasStarted, ServicesBelong

\* The invariant is inductive.
LEMMA NextSafe == TypeInv /\ SafeInv /\ [Next]_vars => SafeInv'
<1> SUFFICES ASSUME TypeInv, SafeInv, [Next]_vars PROVE SafeInv'
  OBVIOUS
<1>1. CASE UNCHANGED vars
  BY <1>1 DEF vars, registryVars, SafeInv, Linked, Unborn, StagesStarted,
              RunningWasStarted, ServicesBelong, Registered
<1>2. CASE Next
  BY <1>2, CreateSafe, ProvisionSafe, CallSafe, RestartSafe DEF Next
<1> QED
  BY <1>1, <1>2

\* SafeInv, with the types, holds throughout: a request accepted, a step or a
\* restart of the server keeps it.
LEMMA SafeInvariant == Spec => [](TypeInv /\ SafeInv)
  BY InitTypeInv, InitSafe, NextTypeInv, NextSafe, PTL DEF Spec

(***************************************************************************)
(* However creations, stops, deletes, failures and restarts interleave,    *)
(* and even if two requests read the same identifier, a workspace object   *)
(* says "running" only when its container was started.                     *)
(***************************************************************************)
THEOREM RunningIsStarted == Spec => []RunningWasStarted
<1>1. TypeInv /\ SafeInv => RunningWasStarted
  BY DEF SafeInv
<1> QED
  BY <1>1, SafeInvariant, PTL

\* No entry of the services map outlives its workspace.
THEOREM ServicesHaveWorkspace == Spec => []ServicesBelong
<1>1. TypeInv /\ SafeInv => ServicesBelong
  BY DEF SafeInv
<1> QED
  BY <1>1, SafeInvariant, PTL
-----------------------------------------------------------------------------
(* With a clock that never repeats: no resurrection, and final outcomes.   *)

\* Identifiers come from the clock and no two creations share one.
Distinct ==
    /\ \A c \in Creations : goroutine[c].id <= clock
    /\ \A c, d \in Creations :
          c # d /\ goroutine[c].stage # "idle" /\ goroutine[d].stage # "idle"
            => goroutine[c].id # goroutine[d].id

\* While a goroutine is live its object has no outcome yet.
Undecided ==
    \A c \in Creations : goroutine[c].stage \in Live =>
        object[c].status \in {"creating", "stopped"}

\* A registered object has a status.
Born == \A i \in Ids, c \in Creations : registry[i] = c => object[c].status # "none"

FineInv == Distinct /\ Undecided /\ Born

\* What OutcomeIsFinal and NoResurrection ask of one step.
OutcomeStep ==
    \A c \in Creations :
        object[c].status \in {"error", "running"} =>
            object'[c].status \in {object[c].status, "stopped"}

GoneStep ==
    \A i \in Ids :
        WasRegistered(i) /\ ~ Registered(i) => registry'[i] = NoWorkspace

\* A live goroutine writes to its own object only, its outcome as its last act.
LEMMA LiveStepFine ==
    ASSUME TypeInv, SafeInv, FineInv, NEW c \in Creations, goroutine[c].stage \in Live,
           NEW s \in Live \cup {"done"}, Goto(c, s),
           registry' = registry, clock' = clock,
           \A d \in Creations :
              \/ object'[d].status = object[d].status
              \/ /\ registry[goroutine[c].id] = d
                 /\ object'[d].status # "none"
                 /\ object'[d].status = "creating" \/ s = "done"
    PROVE  FineInv' /\ OutcomeStep /\ GoneStep
<1>1. goroutine[c].id \in Ids /\ goroutine[c].stage \notin {"idle", "fork"}
  BY DEF TypeInv, Assigned, Live
<1>2. s \in Stage /\ s # "idle"
  BY DEF Stage, Live
<1>3. \A d \in Creations :
        /\ goroutine'[d].id = goroutine[d].id
        /\ goroutine'[d].stage = IF d = c THEN s ELSE goroutine[d].stage
  BY <1>2, GotoEffect
<1>4. \A d \in Creations : registry[goroutine[c].id] = d => d = c
  BY <1>1 DEF SafeInv, Linked, FineInv, Distinct
<1>5. Distinct'
  BY <1>1, <1>3 DEF FineInv, Distinct
<1>6. Undecided'
  BY <1>3, <1>4 DEF FineInv, Undecided, Live
<1>7. OutcomeStep
  BY <1>4 DEF OutcomeStep, FineInv, Undecided
<1>8. GoneStep
  BY DEF GoneStep, Registered
<1>9. Born'
  BY DEF FineInv, Born
<1> QED
  BY <1>5, <1>6, <1>7, <1>8, <1>9 DEF FineInv

\* The steps of a provisioning, each an instance of LiveStepFine.
LEMMA ProvisionFine ==
    ASSUME TypeInv, SafeInv, FineInv, NEW c \in Creations, Provision(c)
    PROVE  FineInv' /\ OutcomeStep /\ GoneStep
<1> DEFINE i == goroutine[c].id
<1>1. goroutine[c].stage \in Live /\ i \in Ids
  <2>1. goroutine[c].stage \in Live
    BY DEF Provision, MarkCreating, GuessPort, CloneRepository, CreateContainer,
           StartContainer, MapPorts, SetupServices, FinishProvision, FailProvision, Live
  <2> QED
    BY <2>1 DEF TypeInv, Assigned, Live
<1>2. {"port", "done", "clone", "create", "fail", "boot", "map", "services", "finish"}
        \subseteq Live \cup {"done"}
  BY DEF Live
<1>3. {"creating", "running", "error"} \subseteq Status /\ {"guessed", "mapped"} \subseteq Port
  BY DEF Status, Port
<1>4. \A s \in Status : UpdateStatus(i, s) =>
        \A d \in Creations : object'[d].status = IF registry[i] = d THEN s ELSE object[d].status
  BY <1>1, UpdateStatusEffect
<1>5. \A p \in Port : UpdateSSHPort(i, p) =>
        \A d \in Creations : object'[d].status = object[d].status
  BY <1>1, UpdateSSHPortEffect
<1> HIDE DEF i
<1>a. CASE MarkCreating(c)
  BY <1>a, <1>1, <1>2, <1>3, <1>4, LiveStepFine DEF MarkCreating, i
<1>b. CASE GuessPort(c)
  BY <1>b, <1>1, <1>2, <1>3, <1>5, LiveStepFine DEF GuessPort, i
<1>c. CASE CloneRepository(c)
  BY <1>c, <1>1, <1>2, LiveStepFine DEF CloneRepository, registryVars
<1>d. CASE CreateContainer(c)
  BY <1>d, <1>1, <1>2, LiveStepFine DEF CreateContainer, registryVars
<1>e. CASE StartContainer(c)
  BY <1>e, <1>1, <1>2, LiveStepFine DEF StartContainer, registryVars
<1>f. CASE MapPorts(c)
  <2>1. \A d \in Creations : object'[d].status = object[d].status
    BY <1>f, <1>3, <1>5 DEF MapPorts, i
  <2> QED
    BY <1>f, <2>1, <1>1, <1>2, LiveStepFine DEF MapPorts
<1>g. CASE SetupServices(c)
  <2>1. \E s \in {"finish", "fail"} : Goto(c, s)
    BY <1>g DEF SetupServices
  <2> QED
    BY <1>g, <2>1, <1>1, <1>2, LiveStepFine DEF SetupServices
<1>h. CASE FinishProvision(c)
  BY <1>h, <1>1, <1>2, <1>3, <1>4, LiveStepFine DEF FinishProvision, i
<1>i. CASE FailProvision(c)
  BY <1>i, <1>1, <1>2, <1>3, <1>4, LiveStepFine DEF FailProvision, i
<1> QED
  BY <1>a, <1>b, <1>c, <1>d, <1>e, <1>f, <1>g, <1>h, <1>i DEF Provision

\* Reading the clock: here, and only here, it matters that it always advances.
LEMMA AcceptFine ==
    ASSUME MinAdvance = 1, TypeInv, SafeInv, FineInv, NEW c \in Creations, AcceptCreate(c)
    PROVE  FineInv' /\ OutcomeStep /\ GoneStep
<1>1. /\ clock' = clock + 1
      /\ goroutine' = [goroutine EXCEPT ![c] = [stage |-> "fork", id |-> clock + 1]]
      /\ clock \in Nat
  BY DEF AcceptCreate, TypeInv, TypeOK
<1>2. /\ goroutine'[c].stage = "fork" /\ goroutine'[c].id = clock + 1
      /\ \A d \in Creations \ {c} : goroutine'[d] = goroutine[d]
  BY <1>1 DEF TypeInv, TypeOK
<1>3. \A d \in Creations : goroutine[d].id \in Nat /\ goroutine[d].id <= clock
  BY DEF TypeInv, TypeOK, FineInv, Distinct
<1>4. \A d \in Creations : goroutine'[d].id <= clock'
  BY <1>1, <1>2, <1>3
<1>5. Distinct'
  BY <1>1, <1>2, <1>3, <1>4 DEF FineInv, Distinct
<1>6. Undecided'
  BY <1>2 DEF AcceptCreate, registryVars, FineInv, Undecided, Live
<1>7. OutcomeStep /\ GoneStep /\ Born'
  BY DEF AcceptCreate, registryVars, OutcomeStep, GoneStep, Registered, FineInv, Born
<1> QED
  BY <1>5, <1>6, <1>7 DEF FineInv

\* The entry a create request writes has an identifier no workspace had
\* before, so FineInv is kept.
LEMMA RegisterFine ==
    ASSUME TypeInv, SafeInv, FineInv, NEW c \in Creations, RegisterWorkspace(c)
    PROVE  FineInv' /\ OutcomeStep /\ GoneStep
<1> DEFINE i == goroutine[c].id
<1>1. i \in Ids /\ goroutine[c].stage = "fork" /\ object[c].status = "none"
  BY DEF RegisterWorkspace, TypeInv, Assigned, SafeInv, Unborn
<1>2. PICK s \in {"refused", "start"} : Goto(c, s)
  BY DEF RegisterWorkspace
<1>3. \A d \in Creations :
        /\ goroutine'[d].id = goroutine[d].id
        /\ goroutine'[d].stage = IF d = c THEN s ELSE goroutine[d].stage
  BY <1>2, GotoEffect DEF Stage, Live
<1>4. \A d \in Creations \ {c} : object'[d].status = object[d].status
  BY DEF RegisterWorkspace, TypeInv, TypeOK, Object
<1>5. goroutine'[c].stage \in Live => object'[c].status = "creating"
  BY <1>1, <1>2, <1>3 DEF RegisterWorkspace, TypeInv, TypeOK, Object, Live, Goto
<1>6. Distinct'
  BY <1>1, <1>2, <1>3 DEF RegisterWorkspace, FineInv, Distinct
<1>7. Undecided'
  BY <1>3, <1>4, <1>5 DEF FineInv, Undecided
<1>8. OutcomeStep
  BY <1>1, <1>4 DEF OutcomeStep
<1>9. GoneStep
  <2>1. ~ WasRegistered(i)
    <3>1. \A d \in Creations : goroutine[d].id = i /\ d # c => goroutine[d].stage = "idle"
      BY <1>1 DEF FineInv, Distinct
    <3> QED
      BY <1>1, <3>1 DEF WasRegistered, SafeInv, Unborn
  <2>2. \A j \in Ids : j # i => registry'[j] = registry[j]
    BY DEF RegisterWorkspace, TypeInv, TypeOK
  <2> QED
    BY <2>1, <2>2 DEF GoneStep, Registered
<1>10. Born'
  <2>1. \A j \in Ids, d \in Creations : registry'[j] = d => registry[j] = d \/ d = c
    BY DEF RegisterWorkspace, TypeInv, TypeOK
  <2>2. \A j \in Ids : registry[j] # c
    BY <1>1 DEF SafeInv, Linked
  <2>3. object'[c].status # "none" \/ registry' = registry
    BY DEF RegisterWorkspace, TypeInv, TypeOK, Object
  <2> QED
    BY <1>4, <2>1, <2>2, <2>3 DEF FineInv, Born
<1> QED
  BY <1>6, <1>7, <1>8, <1>9, <1>10 DEF FineInv

\* A step of a stop or delete request keeps FineInv: it never touches a
\* request being served.
LEMMA CallFine ==
    ASSUME TypeInv, SafeInv, FineInv, NEW k \in Callers,
           BeginStop(k) \/ BeginDelete(k) \/ FinishStop(k) \/ FinishDelete(k)
    PROVE  FineInv' /\ OutcomeStep /\ GoneStep
<1>1. CASE BeginStop(k) \/ BeginDelete(k)
  BY <1>1 DEF BeginStop, BeginDelete, Begin, registryVars, FineInv, Distinct, Undecided, Born,
              OutcomeStep, GoneStep, Registered
<1>2. CASE FinishStop(k)
  <2>1. call[k].id \in Ids
    BY <1>2 DEF FinishStop, TypeInv, Assigned
  <2>2. \A d \in Creations : object'[d].status =
          IF registry[call[k].id] = d THEN "stopped" ELSE object[d].status
    BY <1>2, <2>1, UpdateStatusEffect DEF FinishStop, Status
  <2> QED
    BY <1>2, <2>2 DEF FinishStop, FineInv, Distinct, Undecided, Born, OutcomeStep,
                      GoneStep, Registered
<1>3. CASE FinishDelete(k)
  <2>1. GoneStep
    BY <1>3 DEF FinishDelete, DeleteEntry, GoneStep, Registered, TypeInv, TypeOK
  <2>2. Born'
    BY <1>3 DEF FinishDelete, DeleteEntry, FineInv, Born, TypeInv, TypeOK
  <2> QED
    BY <1>3, <2>1, <2>2 DEF FinishDelete, FineInv, Distinct, Undecided, OutcomeStep
<1> QED
  BY <1>1, <1>2, <1>3

\* A restart of the server keeps FineInv: it forgets entries, and every
\* goroutine with them.
LEMMA RestartFine ==
    ASSUME TypeInv, SafeInv, FineInv, Restart
    PROVE  FineInv' /\ OutcomeStep /\ GoneStep
<1>1. \A c \in Creations :
        /\ goroutine'[c].id = goroutine[c].id
        /\ goroutine'[c].stage = IF goroutine[c].stage \in Live \cup {"fork"}
                                 THEN "killed" ELSE goroutine[c].stage
  BY DEF Restart, TypeInv, TypeOK
<1>2. Distinct'
  BY <1>1 DEF Restart, FineInv, Distinct, Live
<1>3. Undecided'
  BY <1>1 DEF Restart, FineInv, Undecided, Live
<1>4. OutcomeStep /\ GoneStep /\ Born'
  BY DEF Restart, OutcomeStep, GoneStep, Born
<1> QED
  BY <1>2, <1>3, <1>4 DEF FineInv

\* The initial states satisfy FineInv: no request was made.
LEMMA InitFine == Init => FineInv
  BY DEF Init, FineInv, Distinct, Undecided, Born, Live

\* Every step keeps FineInv, one case per action.
LEMMA NextFine ==
    ASSUME MinAdvance = 1, TypeInv, SafeInv, FineInv, [Next]_vars
    PROVE  FineInv' /\ OutcomeStep /\ GoneStep
<1>1. CASE UNCHANGED vars
  BY <1>1 DEF vars, registryVars, FineInv, Distinct, Undecided, Born, OutcomeStep,
              GoneStep, Registered
<1>2. CASE Next
  BY <1>2, AcceptFine, RegisterFine, ProvisionFine, CallFine, RestartFine DEF Next
<1> QED
  BY <1>1, <1>2

\* When two requests never read the same clock, FineInv holds throughout,
\* with the types and SafeInv.
LEMMA FineInvariant ==
    ASSUME MinAdvance = 1
    PROVE  Spec => [](TypeInv /\ SafeInv /\ FineInv)
<1>1. TypeInv /\ SafeInv /\ FineInv /\ [Next]_vars => FineInv'
  BY NextFine
<1> QED
  BY <1>1, InitFine, InitTypeInv, NextTypeInv, InitSafe, NextSafe, PTL DEF Spec

(***************************************************************************)
(* If the clock tells requests apart, a workspace that was deleted, or     *)
(* forgotten by a restart, never comes back.                               *)
(***************************************************************************)
THEOREM GoneIsGone ==
    ASSUME MinAdvance = 1
    PROVE  Spec => NoResurrection
<1>1. TypeInv /\ SafeInv /\ FineInv /\ [Next]_vars
        => [\A i \in Ids :
              WasRegistered(i) /\ ~ Registered(i) => registry'[i] = NoWorkspace]_vars
  BY NextFine DEF GoneStep
<1> QED
  BY <1>1, FineInvariant, PTL DEF Spec, NoResurrection

(***************************************************************************)
(* If the clock tells requests apart, the outcome of a provisioning is     *)
(* final: after "error" or "running" an object can only be stopped.        *)
(***************************************************************************)
THEOREM OutcomesAreFinal ==
    ASSUME MinAdvance = 1
    PROVE  Spec => OutcomeIsFinal
<1>1. TypeInv /\ SafeInv /\ FineInv /\ [Next]_vars
        => [\A c \in Creations :
              object[c].status \in {"error", "running"} =>
                 object'[c].status \in {object[c].status, "stopped"}]_vars
  BY NextFine DEF OutcomeStep
<1> QED
  BY <1>1, FineInvariant, PTL DEF Spec, OutcomeIsFinal

-----------------------------------------------------------------------------
(* Refinement: every step of Provisioning is a step of WorkspaceApi, or    *)
(* changes nothing a client sees, if the clock never repeats an            *)
(* identifier.                                                             *)

Inv == TypeInv /\ SafeInv /\ FineInv

\* What WorkspaceApi sees of the identifier of creation c.
Shown(c) ==
    IF registry[goroutine[c].id] = c THEN object[c].status
    ELSE IF object[c].status # "none" THEN "gone" ELSE "absent"

WorkOf(c) ==
    IF goroutine[c].stage = "start" THEN "queued"
    ELSE IF goroutine[c].stage \in Live THEN "busy" ELSE "none"

\* The creation that carries an identifier determines what is seen of it.
LEMMA ViewOfCreation ==
    ASSUME Inv, NEW c \in Creations, goroutine[c].stage # "idle"
    PROVE  /\ goroutine[c].id \in Ids
           /\ ApiStatus[goroutine[c].id] = Shown(c)
           /\ ApiWork[goroutine[c].id] = WorkOf(c)
<1> DEFINE i == goroutine[c].id
<1>1. i \in Ids
  BY DEF Inv, TypeInv, Assigned
<1>2. \A d \in Creations : goroutine[d].id = i /\ d # c => goroutine[d].stage = "idle"
  BY DEF Inv, FineInv, Distinct
<1>3. \A d \in Creations : goroutine[d].stage = "idle" => object[d].status = "none"
  BY DEF Inv, SafeInv, Unborn
<1>4. Registered(i) <=> registry[i] = c
  <2>1. registry[i] \in Creations => registry[i] = c
    BY <1>1, <1>2 DEF Inv, SafeInv, Linked
  <2>2. registry[i] \in Creations \cup {NoWorkspace}
    BY <1>1 DEF Inv, TypeInv, TypeOK
  <2> QED
    BY <2>1, <2>2, NoWorkspaceAssumption DEF Registered
<1>5. WasRegistered(i) <=> object[c].status # "none"
  BY <1>2, <1>3 DEF WasRegistered
<1>6. /\ AtStage(i, {"start"}) <=> goroutine[c].stage = "start"
      /\ AtStage(i, Live) <=> goroutine[c].stage \in Live
  BY <1>2 DEF AtStage, Live
<1>7. ApiStatus[i] = Shown(c)
  BY <1>1, <1>4, <1>5 DEF ApiStatus, Shown
<1>8. ApiWork[i] = WorkOf(c)
  BY <1>1, <1>6 DEF ApiWork, WorkOf
<1> QED
  BY <1>1, <1>7, <1>8

\* The same as a state predicate, to be used of a successor state.
View ==
    \A c \in Creations : goroutine[c].stage # "idle" =>
        /\ goroutine[c].id \in Ids
        /\ ApiStatus[goroutine[c].id] = Shown(c)
        /\ ApiWork[goroutine[c].id] = WorkOf(c)

\* What the refinement needs to know of a state: it is kept apart so that it
\* can be used of the next state too.
LEMMA InvView == Inv => View
  BY ViewOfCreation DEF View

\* A step that touches what belongs to one identifier is seen only there.
LEMMA SeenOnlyThere ==
    ASSUME Inv, NEW i \in Ids,
           \A j \in Ids \ {i} : registry'[j] = registry[j],
           \A d \in Creations : goroutine'[d].id = goroutine[d].id,
           \A d \in Creations : goroutine[d].id # i =>
              /\ object'[d].status = object[d].status
              /\ goroutine'[d].stage = goroutine[d].stage
    PROVE  /\ ApiStatus' = [ApiStatus EXCEPT ![i] = ApiStatus'[i]]
           /\ ApiWork' = [ApiWork EXCEPT ![i] = ApiWork'[i]]
<1>1. ASSUME NEW j \in Ids \ {i}
      PROVE  ApiStatus'[j] = ApiStatus[j] /\ ApiWork'[j] = ApiWork[j]
  <2>1. registry'[j] = registry[j] /\ (Registered(j)' <=> Registered(j))
    BY <1>1 DEF Registered
  <2>2. WasRegistered(j)' <=> WasRegistered(j)
    BY <1>1 DEF WasRegistered
  <2>3. Registered(j) => object'[registry[j]].status = object[registry[j]].status
    <3>1. Registered(j) => registry[j] \in Creations /\ goroutine[registry[j]].id = j
      BY <1>1 DEF Registered, Inv, TypeInv, TypeOK, SafeInv, Linked
    <3> QED
      BY <1>1, <3>1
  <2>4. /\ AtStage(j, {"start"})' <=> AtStage(j, {"start"})
        /\ AtStage(j, Live)' <=> AtStage(j, Live)
    BY <1>1 DEF AtStage, Live
  <2>5. ApiStatus'[j] = ApiStatus[j]
    BY <2>1, <2>2, <2>3 DEF ApiStatus
  <2>6. ApiWork'[j] = ApiWork[j]
    BY <2>4 DEF ApiWork
  <2> QED
    BY <2>5, <2>6
<1>2. /\ ApiStatus = [j \in Ids |-> ApiStatus[j]] /\ ApiStatus' = [j \in Ids |-> ApiStatus'[j]]
      /\ ApiWork = [j \in Ids |-> ApiWork[j]] /\ ApiWork' = [j \in Ids |-> ApiWork'[j]]
  BY DEF ApiStatus, ApiWork
<1> QED
  BY <1>1, <1>2

\* A step of a creation that has its identifier is seen there, as the creation shows it.
LEMMA OwnStep ==
    ASSUME Inv, Inv', NEW c \in Creations, goroutine[c].stage # "idle",
           NEW s \in Stage \ {"idle"}, Goto(c, s),
           \A j \in Ids \ {goroutine[c].id} : registry'[j] = registry[j],
           \A d \in Creations \ {c} : object'[d].status = object[d].status
    PROVE  /\ goroutine[c].id \in Ids
           /\ ApiStatus[goroutine[c].id] = Shown(c)
           /\ ApiWork[goroutine[c].id] = WorkOf(c)
           /\ ApiStatus' = [ApiStatus EXCEPT ![goroutine[c].id] = Shown(c)']
           /\ ApiWork' = [ApiWork EXCEPT ![goroutine[c].id] = WorkOf(c)']
           /\ goroutine'[c].stage = s
<1> DEFINE i == goroutine[c].id
<1>1. \A d \in Creations :
        /\ goroutine'[d].id = goroutine[d].id
        /\ goroutine'[d].stage = IF d = c THEN s ELSE goroutine[d].stage
  BY GotoEffect DEF Inv
<1>2. i \in Ids /\ ApiStatus[i] = Shown(c) /\ ApiWork[i] = WorkOf(c)
  BY ViewOfCreation
<1>3. ApiStatus'[i] = Shown(c)' /\ ApiWork'[i] = WorkOf(c)'
  <2>1. (goroutine[c].stage # "idle")'
    BY <1>1
  <2>2. View'
    BY InvView, PTL
  <2> QED
    BY <2>1, <2>2, <1>1 DEF View
<1>4. /\ ApiStatus' = [ApiStatus EXCEPT ![i] = ApiStatus'[i]]
      /\ ApiWork' = [ApiWork EXCEPT ![i] = ApiWork'[i]]
  BY <1>1, <1>2, SeenOnlyThere
<1> QED
  BY <1>1, <1>2, <1>3, <1>4

\* Steps of the goroutine that are not seen: the object shows what it showed.
LEMMA ProvisionStep ==
    ASSUME Inv, Inv', NEW c \in Creations, Provision(c)
    PROVE  [Api!Next]_(Api!apiVars)
<1> DEFINE i == goroutine[c].id
<1>1. goroutine[c].stage \in Live /\ goroutine[c].stage # "idle"
  BY DEF Provision, MarkCreating, GuessPort, CloneRepository, CreateContainer,
         StartContainer, MapPorts, SetupServices, FinishProvision, FailProvision, Live
<1>2. i \in Ids
  BY <1>1 DEF Inv, TypeInv, Assigned
<1>3. \A d \in Creations : registry[i] = d => d = c
  BY <1>1, <1>2 DEF Inv, SafeInv, Linked, FineInv, Distinct
<1>4. object[c].status \in {"creating", "stopped"}
  BY <1>1 DEF Inv, FineInv, Undecided
<1>5. Live \cup {"done"} \subseteq Stage \ {"idle"}
  BY DEF Stage, Live
<1>6. {"creating", "running", "error"} \subseteq Status /\ {"guessed", "mapped"} \subseteq Port
  BY DEF Status, Port
<1>7. \A s \in Status : UpdateStatus(i, s) =>
        \A d \in Creations : object'[d].status = IF registry[i] = d THEN s ELSE object[d].status
  BY <1>2, UpdateStatusEffect DEF Inv
<1>8. \A p \in Port : UpdateSSHPort(i, p) =>
        \A d \in Creations : object'[d].status = object[d].status
  BY <1>2, UpdateSSHPortEffect DEF Inv
<1>9. Api!Present(i) <=> registry[i] = c
  <2>1. ApiStatus[i] = Shown(c)
    BY <1>1, ViewOfCreation
  <2> QED
    BY <2>1, <1>4 DEF Api!Present, Shown
<1>10. \A s \in Live \cup {"done"} : Goto(c, s) /\ registry' = registry
         /\ (\A d \in Creations \ {c} : object'[d].status = object[d].status)
         => /\ ApiStatus[i] = Shown(c)
            /\ ApiWork[i] = WorkOf(c)
            /\ ApiStatus' = [ApiStatus EXCEPT ![i] = Shown(c)']
            /\ ApiWork' = [ApiWork EXCEPT ![i] = WorkOf(c)']
            /\ goroutine'[c].stage = s /\ goroutine'[c].id = i
  BY <1>1, <1>5, OwnStep, GotoEffect DEF Inv
<1>11. DOMAIN ApiStatus = Ids /\ DOMAIN ApiWork = Ids
       /\ ApiStatus = [j \in Ids |-> ApiStatus[j]] /\ ApiWork = [j \in Ids |-> ApiWork[j]]
  BY DEF ApiStatus, ApiWork
<1> HIDE DEF i
<1>a. ASSUME goroutine[c].stage # "start", registry' = registry,
             NEW s \in Live \ {"start"}, Goto(c, s),
             \A d \in Creations : object'[d].status = object[d].status
      PROVE  UNCHANGED Api!apiVars
  <2>1. Shown(c)' = Shown(c) /\ WorkOf(c)' = WorkOf(c)
    BY <1>1, <1>a, <1>10 DEF Shown, WorkOf, i
  <2>2. ApiStatus' = ApiStatus /\ ApiWork' = ApiWork
    BY <1>a, <2>1, <1>10, <1>11
  <2> QED
    BY <2>2 DEF Api!apiVars
<1>b. ASSUME goroutine[c].stage \in {"finish", "fail"}, registry' = registry, Goto(c, "done"),
             NEW s \in {"running", "error"},
             \A d \in Creations : object'[d].status =
                IF registry[i] = d THEN s ELSE object[d].status
      PROVE  Api!Settle(i)
  <2>1. ApiWork[i] = "busy"
    BY <1>b, <1>1, <1>3, <1>10 DEF WorkOf
  <2>2. ApiWork' = [ApiWork EXCEPT ![i] = "none"]
    BY <1>b, <1>3, <1>10 DEF WorkOf, Live
  <2>3. CASE registry[i] = c
    <3>1. ApiStatus' = [ApiStatus EXCEPT ![i] = s]
      BY <1>b, <2>3, <1>3, <1>10 DEF Shown
    <3> QED
      BY <2>1, <2>2, <2>3, <3>1, <1>9 DEF Api!Settle
  <2>4. CASE registry[i] # c
    <3>1. Shown(c)' = Shown(c)
      BY <1>b, <2>4, <1>3, <1>10 DEF Shown, i
    <3>2. ApiStatus' = ApiStatus
      BY <1>b, <2>4, <3>1, <1>3, <1>10, <1>11
    <3> QED
      BY <2>1, <2>2, <2>4, <3>2, <1>9 DEF Api!Settle
  <2> QED
    BY <2>3, <2>4
<1>c. CASE MarkCreating(c)
  <2>1. \A d \in Creations : object'[d].status =
          IF registry[i] = d THEN "creating" ELSE object[d].status
    BY <1>c, <1>6, <1>7 DEF MarkCreating, i
  <2>2. ApiWork[i] = "queued"
    BY <1>c, <1>1, ViewOfCreation DEF MarkCreating, WorkOf, i
  <2>3. CASE registry[i] = c
    <3>1. Goto(c, "port") /\ registry' = registry
      BY <1>c, <2>3, <1>2, NoWorkspaceAssumption DEF MarkCreating, Registered, i
    <3>2. ApiStatus' = [ApiStatus EXCEPT ![i] = "creating"]
      BY <2>1, <2>3, <3>1, <1>3, <1>10 DEF Shown, Live
    <3>3. ApiWork' = [ApiWork EXCEPT ![i] = "busy"]
      BY <2>1, <3>1, <1>3, <1>10 DEF WorkOf, Live
    <3> QED
      BY <1>2, <1>9, <2>2, <2>3, <3>2, <3>3 DEF Api!Next, Api!Start
  <2>4. CASE registry[i] # c
    <3>1. Goto(c, "done") /\ registry' = registry
      <4>1. registry[i] \in Creations \cup {NoWorkspace}
        BY <1>2 DEF Inv, TypeInv, TypeOK
      <4> QED
        BY <1>c, <2>4, <4>1, <1>3 DEF MarkCreating, Registered, i
    <3>2. Shown(c)' = Shown(c)
      BY <2>1, <2>4, <3>1, <1>3, <1>10 DEF Shown, i
    <3>3. ApiStatus' = ApiStatus
      BY <2>1, <3>1, <3>2, <1>3, <1>10, <1>11
    <3>4. ApiWork' = [ApiWork EXCEPT ![i] = "none"]
      BY <2>1, <3>1, <1>3, <1>10 DEF WorkOf, Live
    <3> QED
      BY <1>2, <1>9, <2>2, <2>4, <3>3, <3>4 DEF Api!Next, Api!Start
  <2> QED
    BY <2>3, <2>4
<1>d. CASE GuessPort(c)
  BY <1>d, <1>a, <1>6, <1>8 DEF GuessPort, Live, i
<1>e. CASE CloneRepository(c)
  BY <1>e, <1>a DEF CloneRepository, registryVars, Live
<1>f. CASE CreateContainer(c)
  BY <1>f, <1>a DEF CreateContainer, registryVars, Live
<1>g. CASE StartContainer(c)
  BY <1>g, <1>a DEF StartContainer, registryVars, Live
<1>h. CASE MapPorts(c)
  <2>1. \A d \in Creations : object'[d].status = object[d].status
    BY <1>h, <1>6, <1>8 DEF MapPorts, i
  <2> QED
    BY <1>h, <2>1, <1>a DEF MapPorts, Live
<1>j. CASE SetupServices(c)
  <2>1. \E s \in {"finish", "fail"} : Goto(c, s)
    BY <1>j DEF SetupServices
  <2> QED
    BY <1>j, <2>1, <1>a DEF SetupServices, Live
<1>k. CASE FinishProvision(c)
  <2>1. Api!Settle(i)
    BY <1>k, <1>b, <1>6, <1>7 DEF FinishProvision, i
  <2> QED
    BY <2>1, <1>2 DEF Api!Next
<1>l. CASE FailProvision(c)
  <2>1. Api!Settle(i)
    BY <1>l, <1>b, <1>6, <1>7 DEF FailProvision, i
  <2> QED
    BY <2>1, <1>2 DEF Api!Next
<1> QED
  BY <1>c, <1>d, <1>e, <1>f, <1>g, <1>h, <1>j, <1>k, <1>l DEF Provision

\* Reading the clock is not seen: the identifier is new and its object unborn.
LEMMA AcceptStep ==
    ASSUME MinAdvance = 1, Inv, Inv', NEW c \in Creations, AcceptCreate(c)
    PROVE  UNCHANGED Api!apiVars
<1>1. /\ goroutine' = [goroutine EXCEPT ![c] = [stage |-> "fork", id |-> clock + 1]]
      /\ goroutine[c].stage = "idle" /\ object[c].status = "none"
      /\ registry' = registry /\ object' = object
  BY DEF AcceptCreate, registryVars, Inv, SafeInv, Unborn
<1>2. /\ goroutine'[c].stage = "fork"
      /\ \A d \in Creations \ {c} : goroutine'[d] = goroutine[d]
  BY <1>1 DEF Inv, TypeInv, TypeOK
<1>3. \A i \in Ids : WasRegistered(i)' <=> WasRegistered(i)
  BY <1>1, <1>2 DEF WasRegistered
<1>4. \A i \in Ids : /\ AtStage(i, {"start"})' <=> AtStage(i, {"start"})
                     /\ AtStage(i, Live)' <=> AtStage(i, Live)
  BY <1>1, <1>2 DEF AtStage, Live
<1>5. ApiStatus' = ApiStatus
  BY <1>1, <1>3 DEF ApiStatus, Registered
<1>6. ApiWork' = ApiWork
  BY <1>4 DEF ApiWork
<1> QED
  BY <1>5, <1>6 DEF Api!apiVars

\* Registering a creation is a submission.
LEMMA RegisterStep ==
    ASSUME Inv, Inv', NEW c \in Creations, RegisterWorkspace(c)
    PROVE  Api!Next
<1> DEFINE i == goroutine[c].id
<1>1. i \in Ids /\ goroutine[c].stage = "fork" /\ object[c].status = "none"
  BY DEF RegisterWorkspace, Inv, TypeInv, Assigned, SafeInv, Unborn
<1>2. \A d \in Creations : registry[i] # d
  BY <1>1 DEF Inv, SafeInv, Linked, FineInv, Distinct
<1>3. ~ Registered(i)
  BY <1>1, <1>2 DEF Registered, Inv, TypeInv, TypeOK
<1>4. /\ registry' = [registry EXCEPT ![i] = c]
      /\ object' = [object EXCEPT ![c].status = "creating"]
      /\ Goto(c, "start")
  BY <1>3 DEF RegisterWorkspace
<1>5. /\ \A j \in Ids \ {i} : registry'[j] = registry[j]
      /\ \A d \in Creations \ {c} : object'[d].status = object[d].status
      /\ registry'[i] = c /\ object'[c].status = "creating"
      /\ goroutine'[c].id = i
  BY <1>1, <1>4 DEF Inv, TypeInv, TypeOK, Object, Goto
<1>6. /\ ApiStatus[i] = Shown(c)
      /\ ApiStatus' = [ApiStatus EXCEPT ![i] = Shown(c)']
      /\ ApiWork' = [ApiWork EXCEPT ![i] = WorkOf(c)']
      /\ goroutine'[c].stage = "start"
  BY <1>1, <1>4, <1>5, OwnStep DEF Stage, Live
<1>7. Shown(c) = "absent" /\ Shown(c)' = "creating" /\ WorkOf(c)' = "queued"
  BY <1>1, <1>2, <1>5, <1>6 DEF Shown, WorkOf
<1> QED
  BY <1>1, <1>6, <1>7 DEF Api!Next, Api!Submit

\* A stop and a delete are themselves, or come too late to be seen.
LEMMA CallStep ==
    ASSUME Inv, Inv', NEW k \in Callers,
           BeginStop(k) \/ BeginDelete(k) \/ FinishStop(k) \/ FinishDelete(k)
    PROVE  [Api!Next]_(Api!apiVars)
<1>0. /\ ApiStatus = [j \in Ids |-> ApiStatus[j]]
      /\ ApiWork = [j \in Ids |-> ApiWork[j]]
  BY DEF ApiStatus, ApiWork
<1>1. ASSUME registry' = registry, object' = object, goroutine' = goroutine
      PROVE  UNCHANGED Api!apiVars
  BY <1>1 DEF Api!apiVars, ApiStatus, ApiWork, Registered, WasRegistered, AtStage
<1>2. ASSUME goroutine' = goroutine
      PROVE  ApiWork' = ApiWork
  BY <1>2 DEF ApiWork, AtStage
<1>3. CASE BeginStop(k) \/ BeginDelete(k)
  BY <1>1, <1>3 DEF BeginStop, BeginDelete, Begin, registryVars
<1>4. CASE FinishStop(k)
  <2> DEFINE i == call[k].id
  <2>1. i \in Ids
    BY <1>4 DEF FinishStop, Inv, TypeInv, Assigned
  <2>2. \A d \in Creations : object'[d].status =
          IF registry[i] = d THEN "stopped" ELSE object[d].status
    BY <1>4, <2>1, UpdateStatusEffect DEF FinishStop, Status, Inv
  <2>3. registry' = registry /\ goroutine' = goroutine
    BY <1>4 DEF FinishStop
  <2>4. CASE ~ Registered(i)
    <3>1. object' = object
      BY <1>4, <2>1, <2>4, NoWorkspaceAssumption
         DEF FinishStop, UpdateStatus, Registered, Inv, TypeInv, TypeOK
    <3> QED
      BY <1>1, <2>3, <3>1
  <2>5. CASE Registered(i)
    <3>1. PICK c \in Creations : registry[i] = c /\ goroutine[c].id = i
                                 /\ goroutine[c].stage # "idle" /\ object[c].status # "none"
      BY <2>1, <2>5 DEF Registered, Inv, TypeInv, TypeOK, SafeInv, Linked, FineInv, Born
    <3>2. Api!Present(i)
      BY <2>1, <3>1, <2>5 DEF Api!Present, ApiStatus, Inv, TypeInv, TypeOK, Object, Status
    <3>3. \A d \in Creations : goroutine[d].id # i => object'[d].status = object[d].status
      BY <2>2, <3>1
    <3>4. ApiStatus' = [ApiStatus EXCEPT ![i] = ApiStatus'[i]]
      BY <2>1, <2>3, <3>3, SeenOnlyThere
    <3>5. ApiStatus'[i] = "stopped"
      BY <2>1, <2>2, <2>3, <2>5, <3>1 DEF ApiStatus, Registered
    <3> QED
      BY <1>2, <2>1, <2>3, <3>2, <3>4, <3>5 DEF Api!Next, Api!Stop
  <2> QED
    BY <2>4, <2>5
<1>5. CASE FinishDelete(k)
  <2> DEFINE i == call[k].id
  <2>1. i \in Ids
    BY <1>5 DEF FinishDelete, Inv, TypeInv, Assigned
  <2>2. registry' = [registry EXCEPT ![i] = NoWorkspace]
        /\ object' = object /\ goroutine' = goroutine
    BY <1>5 DEF FinishDelete, DeleteEntry
  <2>3. CASE ~ Registered(i)
    <3>1. registry' = registry
      BY <2>1, <2>2, <2>3 DEF Registered, Inv, TypeInv, TypeOK
    <3> QED
      BY <1>1, <2>2, <3>1
  <2>4. CASE Registered(i)
    <3>1. PICK c \in Creations : registry[i] = c /\ goroutine[c].id = i /\ object[c].status # "none"
      BY <2>1, <2>4 DEF Registered, Inv, TypeInv, TypeOK, SafeInv, Linked, FineInv, Born
    <3>2. Api!Present(i)
      BY <2>1, <3>1, <2>4 DEF Api!Present, ApiStatus, Inv, TypeInv, TypeOK, Object, Status
    <3>3. registry \in [Ids -> Creations \cup {NoWorkspace}]
      BY DEF Inv, TypeInv, TypeOK
    <3>4. \A j \in Ids \ {i} : registry'[j] = registry[j]
      BY <2>2, <3>3
    <3>5. ApiStatus' = [ApiStatus EXCEPT ![i] = ApiStatus'[i]]
      BY <2>1, <2>2, <3>4, SeenOnlyThere
    <3>6. \A j \in Ids : j = i => WasRegistered(j)' /\ ~ Registered(j)'
      BY <2>1, <2>2, <3>1, <3>3 DEF WasRegistered, Registered
    <3>7. ApiStatus'[i] = "gone"
      BY <2>1, <3>6 DEF ApiStatus
    <3> QED
      BY <1>2, <2>1, <2>2, <3>2, <3>5, <3>7 DEF Api!Next, Api!Delete
  <2> QED
    BY <2>3, <2>4
<1> QED
  BY <1>3, <1>4, <1>5

\* A restart is a crash.
LEMMA RestartStep ==
    ASSUME Inv, Inv', Restart
    PROVE  Api!Crash
<1>1. /\ registry' = [i \in Ids |-> NoWorkspace] /\ object' = object
      /\ \A c \in Creations :
           /\ goroutine'[c].id = goroutine[c].id
           /\ goroutine'[c].stage = IF goroutine[c].stage \in Live \cup {"fork"}
                                    THEN "killed" ELSE goroutine[c].stage
  BY DEF Restart, Inv, TypeInv, TypeOK
<1>2. \A i \in Ids : /\ ~ Registered(i)'
                     /\ WasRegistered(i)' <=> WasRegistered(i)
  BY <1>1 DEF Registered, WasRegistered
<1>3. \A i \in Ids : ~ AtStage(i, {"start"})' /\ ~ AtStage(i, Live)'
  BY <1>1 DEF AtStage, Live
<1>4. ASSUME NEW i \in Ids
      PROVE  ApiStatus'[i] = IF Api!Present(i) THEN "gone" ELSE ApiStatus[i]
  <2>1. ApiStatus'[i] = IF WasRegistered(i) THEN "gone" ELSE "absent"
    BY <1>2, <1>4 DEF ApiStatus
  <2>2. CASE Registered(i)
    <3>1. PICK c \in Creations : registry[i] = c /\ goroutine[c].id = i /\ object[c].status # "none"
      BY <1>4, <2>2 DEF Registered, Inv, TypeInv, TypeOK, SafeInv, Linked, FineInv, Born
    <3>2. Api!Present(i)
      BY <1>4, <2>2, <3>1 DEF Api!Present, ApiStatus, Inv, TypeInv, TypeOK, Object, Status
    <3> QED
      BY <2>1, <3>1, <3>2 DEF WasRegistered
  <2>3. CASE ~ Registered(i)
    <3>1. ApiStatus[i] = IF WasRegistered(i) THEN "gone" ELSE "absent"
      BY <1>4, <2>3 DEF ApiStatus
    <3> QED
      BY <2>1, <3>1 DEF Api!Present
  <2> QED
    BY <2>2, <2>3
<1>5. ApiStatus' = [i \in Ids |-> IF Api!Present(i) THEN "gone" ELSE ApiStatus[i]]
  <2>1. ApiStatus' = [i \in Ids |-> ApiStatus'[i]]
    BY DEF ApiStatus
  <2> QED
    BY <1>4, <2>1
<1>6. ApiWork' = [i \in Ids |-> "none"]
  BY <1>3 DEF ApiWork
<1> QED
  BY <1>5, <1>6 DEF Api!Crash

\* The initial states are initial states of the abstract life cycle.
LEMMA InitApi == Init => Api!Init
  BY NoWorkspaceAssumption DEF Init, Api!Init, ApiStatus, ApiWork, Registered, WasRegistered,
                               AtStage, Live

\* Every step is a step of the abstract life cycle or leaves it unchanged,
\* one case per action.
LEMMA NextApi ==
    ASSUME MinAdvance = 1, Inv, Inv', [Next]_vars
    PROVE  [Api!Next]_(Api!apiVars)
<1>1. CASE UNCHANGED vars
  BY <1>1 DEF vars, registryVars, Api!apiVars, ApiStatus, ApiWork, Registered, WasRegistered,
              AtStage
<1>2. CASE Next
  BY <1>2, AcceptStep, RegisterStep, ProvisionStep, CallStep, RestartStep DEF Next, Api!Next
<1> QED
  BY <1>1, <1>2

(***************************************************************************)
(* If the clock tells requests apart, the server keeps the safety promise  *)
(* of WorkspaceApi: on every identifier polls show one provisioning that   *)
(* starts once, settles at most once, and never undoes a deletion.         *)
(***************************************************************************)
THEOREM ImplementsWorkspaceApi ==
    ASSUME MinAdvance = 1
    PROVE  Spec => RefinesApi
<1>1. Inv /\ Inv' /\ [Next]_vars => [Api!Next]_(Api!apiVars)
  BY NextApi
<1>2. Spec => []Inv
  BY FineInvariant, PTL DEF Inv
<1> QED
  BY <1>1, <1>2, InitApi, PTL DEF Spec, RefinesApi, Api!Spec
=============================================================================
