----------------------- MODULE WorkspaceManagerProofs -----------------------
(***************************************************************************)
(* Proofs about WorkspaceManager: types, the containers and the host ports *)
(* of the workspaces of a node.                                            *)
(***************************************************************************)
EXTENDS WorkspaceManager, WellFoundedInduction, TLAPS

\* The search for a free port finds one when there is one.
LEMMA MinIsIn ==
    ASSUME NEW S \in SUBSET Nat, S # {}
    PROVE  Min(S) \in S
<1> DEFINE R == OpToRel(<, Nat)
<1>1. IsWellFoundedOn(R, Nat)
  BY NatLessThanWellFounded
<1>2. \A x, y \in Nat : <<x, y>> \in R <=> x < y
  BY DEF OpToRel
<1> HIDE DEF R
<1>3. PICK x \in S : \A y \in S : ~ (<<y, x>> \in R)
  BY <1>1, WFMin
<1>4. \A y \in S : x <= y
  <2> SUFFICES ASSUME NEW y \in S PROVE x <= y
    OBVIOUS
  <2>1. x \in Nat /\ y \in Nat /\ ~ (x > y)
    BY <1>2, <1>3
  <2> QED
    BY <2>1
<1> QED
  BY <1>4 DEF Min

\* The port that is allocated for SSH was free ...
LEMMA SSHPortIsFree ==
    ASSUME SSHPorts \ allocated # {}
    PROVE  FirstFree(SSHPorts) \in SSHPorts \ allocated
  BY MinIsIn, PortsAssumption DEF FirstFree

\* ... and so was one for a service.
LEMMA ServicePortIsFree ==
    ASSUME ~ (ServicePorts \subseteq allocated)
    PROVE  FirstFree(ServicePorts) \in ServicePorts \ allocated
  BY MinIsIn, PortsAssumption DEF FirstFree

-----------------------------------------------------------------------------
(* What the steps do to the record of a workspace.                         *)

Inserted(w) == workspace[w].stage \notin {"idle", "insert"}

\* No other workspace changes, and this one keeps its services.
OnlyOf(w) ==
    /\ workspace' \in [Creations -> Workspace]
    /\ \A v \in Creations \ {w} : workspace'[v] = workspace[v]
    /\ workspace'[w].services = workspace[w].services

\* It keeps its identifier and its SSH port, too.
Progress(w, stage, status) ==
    /\ OnlyOf(w)
    /\ workspace'[w].id = workspace[w].id /\ workspace'[w].port = workspace[w].port
    /\ workspace'[w].stage = stage /\ workspace'[w].status = status

\* A write of the stage, of the stage and the status, or of the status of a workspace
\* changes nothing else.
LEMMA StageEffect ==
    ASSUME workspace \in [Creations -> Workspace], NEW w \in Creations, NEW s \in Stage,
           workspace' = [workspace EXCEPT ![w].stage = s]
    PROVE  Progress(w, s, workspace[w].status)
<1> DEFINE r == [workspace[w] EXCEPT !.stage = s]
<1>1. workspace[w] \in Workspace
  OBVIOUS
<1>2. /\ r \in Workspace /\ r.stage = s /\ r.id = workspace[w].id
      /\ r.status = workspace[w].status /\ r.port = workspace[w].port
      /\ r.services = workspace[w].services
  BY <1>1 DEF Workspace
<1>3. workspace' = [workspace EXCEPT ![w] = r]
  OBVIOUS
<1> HIDE DEF r
<1> QED
  BY <1>2, <1>3 DEF Progress, OnlyOf

\* The stage and the status.
LEMMA StageStatusEffect ==
    ASSUME workspace \in [Creations -> Workspace], NEW w \in Creations, NEW s \in Stage,
           NEW x \in Status,
           workspace' = [workspace EXCEPT ![w].stage = s, ![w].status = x]
    PROVE  Progress(w, s, x)
<1> DEFINE r == [workspace[w] EXCEPT !.stage = s, !.status = x]
<1>1. workspace[w] \in Workspace
  OBVIOUS
<1>2. /\ r \in Workspace /\ r.stage = s /\ r.id = workspace[w].id
      /\ r.status = x /\ r.port = workspace[w].port
      /\ r.services = workspace[w].services
  BY <1>1 DEF Workspace
<1>3. workspace' = [workspace EXCEPT ![w] = r]
  OBVIOUS
<1> HIDE DEF r
<1> QED
  BY <1>2, <1>3 DEF Progress, OnlyOf

\* The status.
LEMMA StatusEffect ==
    ASSUME workspace \in [Creations -> Workspace], NEW w \in Creations, NEW x \in Status,
           workspace' = [workspace EXCEPT ![w].status = x]
    PROVE  Progress(w, workspace[w].stage, x)
<1> DEFINE r == [workspace[w] EXCEPT !.status = x]
<1>1. workspace[w] \in Workspace
  OBVIOUS
<1>2. /\ r \in Workspace /\ r.stage = workspace[w].stage /\ r.id = workspace[w].id
      /\ r.status = x /\ r.port = workspace[w].port
      /\ r.services = workspace[w].services
  BY <1>1 DEF Workspace
<1>3. workspace' = [workspace EXCEPT ![w] = r]
  OBVIOUS
<1> HIDE DEF r
<1> QED
  BY <1>2, <1>3 DEF Progress, OnlyOf

\* A new workspace gets an identifier and a free port ...
LEMMA AllocateEffect ==
    ASSUME TypeOK, NEW w \in Creations, AllocateSSH(w)
    PROVE  /\ OnlyOf(w) /\ workspace'[w].stage = "insert"
           /\ workspace'[w].status = workspace[w].status
           /\ workspace'[w].id \in Ids
           /\ reuse \/ \A v \in Creations : Id(v) # workspace'[w].id
           /\ workspace'[w].port \in SSHPorts \ allocated
           /\ allocated' = allocated \cup {workspace'[w].port}
<1>1. PICK i \in Ids :
         /\ reuse \/ \A v \in Creations : Id(v) # i
         /\ workspace' = [workspace EXCEPT ![w].stage = "insert", ![w].id = i,
                                           ![w].port = FirstFree(SSHPorts)]
  BY DEF AllocateSSH
<1> DEFINE p == FirstFree(SSHPorts)
<1>2. p \in SSHPorts \ allocated /\ allocated' = allocated \cup {p}
  BY SSHPortIsFree DEF AllocateSSH
<1> HIDE DEF p
<1> DEFINE r == [workspace[w] EXCEPT !.stage = "insert", !.id = i, !.port = p]
<1>3. workspace[w] \in Workspace /\ workspace \in [Creations -> Workspace]
  BY DEF TypeOK
<1>4. /\ r \in Workspace /\ r.stage = "insert" /\ r.id = i
      /\ r.status = workspace[w].status /\ r.port = p
      /\ r.services = workspace[w].services
  BY <1>2, <1>3, ZenonT(30) DEF Workspace, Stage
<1>5. workspace' = [workspace EXCEPT ![w] = r]
  BY <1>1, <1>3 DEF p
<1>6. i \in Ids /\ (reuse \/ \A v \in Creations : Id(v) # i)
  BY <1>1
<1> HIDE DEF r
<1>7. workspace'[w] = r /\ OnlyOf(w)
  BY <1>3, <1>4, <1>5 DEF OnlyOf
<1> QED
  BY <1>2, <1>4, <1>6, <1>7

\* ... and a service that is stored changes the port of that service only.
LEMMA StoreEffect ==
    ASSUME TypeOK, NEW s \in Starters, StoreService(s), starter[s].ws \in Creations
    PROVE  LET w == starter[s].ws IN
           /\ workspace' \in [Creations -> Workspace]
           /\ \A v \in Creations \ {w} : workspace'[v] = workspace[v]
           /\ workspace'[w].stage = workspace[w].stage /\ workspace'[w].id = workspace[w].id
           /\ workspace'[w].status = workspace[w].status
           /\ workspace'[w].port = workspace[w].port
           /\ \A v \in Services :
                 workspace'[w].services[v] \in {workspace[w].services[v], starter[s].port}
<1> DEFINE w == starter[s].ws
           v == starter[s].svc
           p == starter[s].port
           q == [workspace[w].services EXCEPT ![v] = p]
           r == [workspace[w] EXCEPT !.services = q]
<1>1. /\ workspace[w] \in Workspace /\ workspace \in [Creations -> Workspace]
      /\ starter[s] \in [ws : Creations \cup {Nothing}, todo : SUBSET Services,
                         svc : Services \cup {Nothing}, port : ServicePorts \cup {0}]
  BY DEF TypeOK
<1>2. v \in Services /\ p \in ServicePorts \cup {0} /\ w \in Creations
  BY <1>1 DEF StoreService
<1>3. workspace' = [workspace EXCEPT ![w] = r]
  BY DEF StoreService
<1> HIDE DEF w, v, p
<1>4. workspace[w].services \in [Services -> ServicePorts \cup {0}]
  BY <1>1 DEF Workspace
<1>5. /\ q \in [Services -> ServicePorts \cup {0}]
      /\ \A u \in Services : q[u] \in {workspace[w].services[u], p}
  BY <1>2, <1>4
<1> HIDE DEF q
<1>6. /\ r \in Workspace /\ r.stage = workspace[w].stage /\ r.id = workspace[w].id
      /\ r.status = workspace[w].status /\ r.port = workspace[w].port /\ r.services = q
  BY <1>1, <1>5 DEF Workspace
<1> HIDE DEF r
<1>7. workspace' \in [Creations -> Workspace] /\ workspace'[w] = r
      /\ \A u \in Creations \ {w} : workspace'[u] = workspace[u]
  BY <1>1, <1>2, <1>3, <1>6
<1> QED
  BY <1>5, <1>6, <1>7 DEF w, p

CallStages == {"idle", "mark", "stop", "destroy", "release", "remove"}
Call == [stage : CallStages, ws : Creations \cup {Nothing}]
Job == [ws : Creations \cup {Nothing}, todo : SUBSET Services,
        svc : Services \cup {Nothing}, port : ServicePorts \cup {0}]

\* What becomes of the calls when one goes on to its next step ...
LEMMA GotoEffect ==
    ASSUME call \in [Callers -> Call], NEW k \in Callers, NEW s \in CallStages, Goto(k, s)
    PROVE  /\ call' \in [Callers -> Call]
           /\ \A j \in Callers \ {k} : call'[j] = call[j]
           /\ call'[k].stage = s /\ call'[k].ws = call[k].ws
<1> DEFINE r == [call[k] EXCEPT !.stage = s]
<1>1. r \in Call /\ r.stage = s /\ r.ws = call[k].ws
  <2>1. call[k] \in Call
    OBVIOUS
  <2> QED
    BY <2>1 DEF Call
<1>2. call' = [call EXCEPT ![k] = r]
  BY DEF Goto
<1> HIDE DEF r
<1> QED
  BY <1>1, <1>2

\* ... and when it returns.
LEMMA ReturnEffect ==
    ASSUME call \in [Callers -> Call], NEW k \in Callers, Return(k)
    PROVE  /\ call' \in [Callers -> Call]
           /\ \A j \in Callers \ {k} : call'[j] = call[j]
           /\ call'[k].stage = "idle"
<1>1. IdleCall \in Call /\ IdleCall.stage = "idle"
  BY DEF IdleCall, Call, CallStages
<1> HIDE DEF IdleCall
<1> QED
  BY <1>1 DEF Return

\* A call that begins has looked its workspace up in the map.
LEMMA LookupEffect ==
    ASSUME TypeOK, NEW k \in Callers, NEW s \in CallStages, Lookup(k, s)
    PROVE  /\ call' \in [Callers -> Call]
           /\ \A j \in Callers \ {k} : call'[j] = call[j]
           /\ call[k].stage = "idle" /\ call'[k].stage = s
           /\ \E i \in Ids : entries[i] # Nothing /\ call'[k].ws = entries[i]
<1>1. PICK i \in Ids : /\ entries[i] # Nothing
                       /\ call' = [call EXCEPT ![k] = [stage |-> s, ws |-> entries[i]]]
  BY DEF Lookup
<1> DEFINE r == [stage |-> s, ws |-> entries[i]]
<1>2. entries[i] \in Creations \cup {Nothing} /\ call \in [Callers -> Call]
  BY DEF TypeOK, Call, CallStages
<1>3. r \in Call /\ r.stage = s /\ r.ws = entries[i]
  BY <1>2 DEF Call
<1>4. call' = [call EXCEPT ![k] = r] /\ call[k].stage = "idle"
  BY <1>1 DEF Lookup
<1> HIDE DEF r
<1> QED
  BY <1>1, <1>2, <1>3, <1>4

-----------------------------------------------------------------------------
(* The jobs that start services.                                           *)

\* A job has a workspace from the map, and a port of its own while it stores
\* a service.
JobInv ==
    \A s \in Starters :
        /\ starter[s].ws # Nothing => Inserted(starter[s].ws)
        /\ starter[s].todo # {} \/ starter[s].svc # Nothing => starter[s].ws # Nothing
        /\ starter[s].svc # Nothing => starter[s].port \in ServicePorts

\* What becomes of the jobs when one makes a step.
JobStep(s) ==
    /\ starter' \in [Starters -> Job]
    /\ \A t \in Starters \ {s} : starter'[t] = starter[t]

\* What each step of a start of services changes: it begins with a workspace
\* that has an entry ...
LEMMA BeginServicesEffect ==
    ASSUME TypeOK, NEW s \in Starters, BeginServices(s)
    PROVE  /\ JobStep(s) /\ starter'[s].svc = starter[s].svc
           /\ starter'[s].port = starter[s].port
           /\ \E i \in Ids : entries[i] # Nothing /\ starter'[s].ws = entries[i]
<1>1. PICK i \in Ids :
         /\ entries[i] # Nothing
         /\ starter' = [starter EXCEPT ![s].ws = entries[i], ![s].todo = Services]
  BY DEF BeginServices
<1> DEFINE r == [starter[s] EXCEPT !.ws = entries[i], !.todo = Services]
<1>2. entries[i] \in Creations \cup {Nothing} /\ starter \in [Starters -> Job]
  BY DEF TypeOK, Job
<1>3. /\ r \in Job /\ r.ws = entries[i] /\ r.svc = starter[s].svc
      /\ r.port = starter[s].port
  <2>1. starter[s] \in Job
    BY <1>2
  <2> QED
    BY <1>2, <2>1 DEF Job
<1>4. starter' = [starter EXCEPT ![s] = r]
  BY <1>1, <1>2
<1> HIDE DEF r
<1> QED
  BY <1>1, <1>2, <1>3, <1>4 DEF JobStep

\* ... allocates a free port for one service ...
LEMMA AllocateServiceEffect ==
    ASSUME TypeOK, NEW s \in Starters, AllocateService(s)
    PROVE  /\ JobStep(s) /\ starter'[s].ws = starter[s].ws
           /\ starter[s].svc = Nothing /\ starter[s].todo # {}
           /\ \/ /\ starter'[s].svc = Nothing /\ UNCHANGED allocated
              \/ /\ starter'[s].svc # Nothing
                 /\ starter'[s].port \in ServicePorts \ allocated
                 /\ allocated' = allocated \cup {starter'[s].port}
<1>1. PICK v \in starter[s].todo :
         IF ServicePorts \subseteq allocated
         THEN /\ starter' = [starter EXCEPT ![s].todo = @ \ {v}]
              /\ UNCHANGED allocated
         ELSE /\ starter' = [starter EXCEPT ![s].todo = @ \ {v}, ![s].svc = v,
                                            ![s].port = FirstFree(ServicePorts)]
              /\ allocated' = allocated \cup {FirstFree(ServicePorts)}
  BY DEF AllocateService
<1>2. starter[s] \in Job /\ starter \in [Starters -> Job]
  BY DEF TypeOK, Job
<1>3. /\ starter[s].svc = Nothing /\ starter[s].todo # {}
      /\ starter[s].todo \subseteq Services /\ v \in Services /\ v # Nothing
  BY <1>2, NothingAssumption DEF AllocateService, Job
<1>4. CASE ServicePorts \subseteq allocated
  <2> DEFINE r == [starter[s] EXCEPT !.todo = @ \ {v}]
  <2>1. r \in Job /\ r.ws = starter[s].ws /\ r.svc = starter[s].svc
    BY <1>2, <1>3 DEF Job
  <2>2. starter' = [starter EXCEPT ![s] = r] /\ UNCHANGED allocated
    BY <1>1, <1>2, <1>4
  <2> HIDE DEF r
  <2> QED
    BY <1>2, <1>3, <2>1, <2>2 DEF JobStep
<1>5. CASE ~ (ServicePorts \subseteq allocated)
  <2> DEFINE p == FirstFree(ServicePorts)
  <2>1. p \in ServicePorts \ allocated
    BY <1>5, ServicePortIsFree
  <2>2. /\ starter' = [starter EXCEPT ![s].todo = @ \ {v}, ![s].svc = v, ![s].port = p]
        /\ allocated' = allocated \cup {p}
    BY <1>1, <1>5
  <2> HIDE DEF p
  <2> DEFINE r == [starter[s] EXCEPT !.todo = @ \ {v}, !.svc = v, !.port = p]
  <2>3. r \in Job /\ r.ws = starter[s].ws /\ r.svc = v /\ r.port = p
    BY <1>2, <1>3, <2>1 DEF Job
  <2>4. starter' = [starter EXCEPT ![s] = r]
    BY <1>2, <2>2
  <2> HIDE DEF r
  <2>5. JobStep(s) /\ starter'[s] = r
    BY <1>2, <2>3, <2>4 DEF JobStep
  <2>6. starter'[s].svc # Nothing /\ starter'[s].port = p /\ starter'[s].ws = starter[s].ws
    BY <1>3, <2>3, <2>5
  <2> QED
    BY <1>3, <2>1, <2>2, <2>5, <2>6
<1> QED
  BY <1>4, <1>5

\* ... stores it in the workspace ...
LEMMA StoreServiceEffect ==
    ASSUME TypeOK, NEW s \in Starters, StoreService(s)
    PROVE  /\ JobStep(s) /\ starter'[s].ws = starter[s].ws
           /\ starter[s].svc # Nothing /\ starter'[s].svc = Nothing
<1>1. starter[s] \in Job /\ starter \in [Starters -> Job]
  BY DEF TypeOK, Job
<1> DEFINE r == [starter[s] EXCEPT !.svc = Nothing, !.port = 0]
<1>2. r \in Job /\ r.ws = starter[s].ws /\ r.svc = Nothing
  BY <1>1 DEF Job
<1>3. starter' = [starter EXCEPT ![s] = r] /\ starter[s].svc # Nothing
  BY <1>1 DEF StoreService
<1> HIDE DEF r
<1> QED
  BY <1>1, <1>2, <1>3 DEF JobStep

\* ... and ends.
LEMMA EndServicesEffect ==
    ASSUME TypeOK, NEW s \in Starters, EndServices(s)
    PROVE  JobStep(s) /\ starter'[s] = IdleStarter
<1>1. IdleStarter \in Job /\ starter \in [Starters -> Job]
  BY DEF TypeOK, Job, IdleStarter
<1> QED
  BY <1>1 DEF EndServices, JobStep

-----------------------------------------------------------------------------
(* Types, with what the stage of a creation says of its workspace.         *)

\* Between its allocation and its end a creation has a name and an SSH port;
\* before, nothing; the map holds workspaces under their own identifiers.
ShapeInv ==
    /\ TypeOK /\ JobInv
    /\ \A w \in Creations :
          IF workspace[w].stage = "idle"
          THEN /\ workspace[w].id = Nothing /\ workspace[w].status = "none"
               /\ workspace[w].services = NoService
          ELSE workspace[w].id \in Ids /\ workspace[w].port \in SSHPorts
    /\ \A w \in Creations : workspace[w].status = "running" => workspace[w].stage = "done"
    /\ \A i \in Ids : entries[i] # Nothing =>
          entries[i] \in Creations /\ Id(entries[i]) = i /\ Inserted(entries[i])
    /\ \A k \in Callers : call[k].stage # "idle" =>
          call[k].ws \in Creations /\ Inserted(call[k].ws)

\* A step that keeps every workspace inserted that was, under its identifier,
\* keeps the map, the calls and the jobs in shape, when these do not change.
Settles(w) ==
    /\ OnlyOf(w)
    /\ workspace'[w].id \in Ids /\ workspace'[w].port \in SSHPorts
    /\ workspace'[w].stage # "idle"
    /\ workspace'[w].status = "running" => workspace'[w].stage = "done"
    /\ Inserted(w) => Inserted(w)' /\ workspace'[w].id = workspace[w].id

\* A creation that goes one step on keeps the shape of the workspaces.
LEMMA SettledShape ==
    ASSUME ShapeInv, NEW w \in Creations, Settles(w)
    PROVE  /\ \A v \in Creations :
                 IF workspace'[v].stage = "idle"
                 THEN /\ workspace'[v].id = Nothing /\ workspace'[v].status = "none"
                      /\ workspace'[v].services = NoService
                 ELSE workspace'[v].id \in Ids /\ workspace'[v].port \in SSHPorts
           /\ \A v \in Creations : workspace'[v].status = "running" => workspace'[v].stage = "done"
           /\ \A v \in Creations : Inserted(v) => Inserted(v)' /\ Id(v)' = Id(v)
<1>1. \A v \in Creations : v # w => workspace'[v] = workspace[v]
  BY DEF Settles, OnlyOf
<1> QED
  BY <1>1 DEF Settles, ShapeInv, Inserted, Id

\* What the steps of a creation do to its workspace.
LEMMA CreateSteps ==
    ASSUME ShapeInv, NEW w \in Creations
    PROVE  /\ InsertEntry(w) => Progress(w, "create", "creating")
           /\ CreateContainer(w) => \/ Progress(w, "start", workspace[w].status)
                                    \/ Progress(w, "done", "error") /\ UNCHANGED container
           /\ StartContainer(w) => \/ Progress(w, "ssh", workspace[w].status)
                                   \/ Progress(w, "abort", workspace[w].status)
           /\ ConfigureSSH(w) => \/ Progress(w, "finish", workspace[w].status)
                                 \/ Progress(w, "abort", workspace[w].status)
           /\ AbortCreate(w) => Progress(w, "done", "error")
           /\ FinishCreate(w) => Progress(w, "done", "running")
<1>1. /\ workspace \in [Creations -> Workspace]
      /\ "create" \in Stage /\ "start" \in Stage /\ "ssh" \in Stage /\ "abort" \in Stage
      /\ "finish" \in Stage /\ "done" \in Stage
      /\ "creating" \in Status /\ "error" \in Status /\ "running" \in Status
  BY DEF ShapeInv, TypeOK, Stage, Status
<1>2. InsertEntry(w) => Progress(w, "create", "creating")
  BY <1>1, StageStatusEffect DEF InsertEntry
<1>3. ASSUME CreateContainer(w)
      PROVE  \/ Progress(w, "start", workspace[w].status)
             \/ Progress(w, "done", "error") /\ UNCHANGED container
  BY <1>1, <1>3, StageEffect, StageStatusEffect DEF CreateContainer, End
<1>4. ASSUME StartContainer(w)
      PROVE  \/ Progress(w, "ssh", workspace[w].status)
             \/ Progress(w, "abort", workspace[w].status)
  BY <1>1, <1>4, StageEffect DEF StartContainer
<1>5. ASSUME ConfigureSSH(w)
      PROVE  \/ Progress(w, "finish", workspace[w].status)
             \/ Progress(w, "abort", workspace[w].status)
  BY <1>1, <1>5, StageEffect DEF ConfigureSSH
<1>6. AbortCreate(w) => Progress(w, "done", "error")
  BY <1>1, StageStatusEffect DEF AbortCreate, End
<1>7. FinishCreate(w) => Progress(w, "done", "running")
  BY <1>1, StageStatusEffect DEF FinishCreate, End
<1> QED
  BY <1>2, <1>3, <1>4, <1>5, <1>6, <1>7

\* Every step of a creation does.
LEMMA CreateSettles ==
    ASSUME ShapeInv, NEW w \in Creations, CreateWorkspace(w)
    PROVE  Settles(w)
<1>0. /\ workspace[w].stage # "idle" => workspace[w].id \in Ids /\ workspace[w].port \in SSHPorts
      /\ workspace[w].stage = "idle" => workspace[w].status = "none"
      /\ workspace[w].status = "running" => workspace[w].stage = "done"
  BY DEF ShapeInv
<1>1. CASE AllocateSSH(w)
  <2>1. workspace[w].stage = "idle" /\ TypeOK
    BY <1>1 DEF AllocateSSH, ShapeInv
  <2> QED
    BY <1>0, <1>1, <2>1, AllocateEffect DEF Settles, Inserted
<1>2. ASSUME NEW st \in {"create", "start", "ssh", "finish", "abort"},
             Progress(w, st, "creating") \/ Progress(w, st, workspace[w].status),
             workspace[w].stage \notin {"idle", "done"}
      PROVE  Settles(w)
  BY <1>0, <1>2 DEF Settles, Inserted, Progress
<1>3. ASSUME NEW x \in Status, Progress(w, "done", x), workspace[w].stage # "idle"
      PROVE  Settles(w)
  BY <1>0, <1>3 DEF Settles, Inserted, Progress
<1>4. "error" \in Status /\ "running" \in Status
  BY DEF Status
<1>5. CASE InsertEntry(w)
  BY <1>2, <1>5, CreateSteps DEF InsertEntry
<1>6. CASE CreateContainer(w)
  BY <1>2, <1>3, <1>4, <1>6, CreateSteps DEF CreateContainer
<1>7. CASE StartContainer(w)
  BY <1>2, <1>7, CreateSteps DEF StartContainer
<1>8. CASE ConfigureSSH(w)
  BY <1>2, <1>8, CreateSteps DEF ConfigureSSH
<1>9. CASE AbortCreate(w)
  BY <1>3, <1>4, <1>9, CreateSteps DEF AbortCreate
<1>10. CASE FinishCreate(w)
  BY <1>3, <1>4, <1>10, CreateSteps DEF FinishCreate
<1> QED
  BY <1>1, <1>5, <1>6, <1>7, <1>8, <1>9, <1>10 DEF CreateWorkspace

ContainerStates == {"none", "created", "running", "stopped"}

\* Types hold when they hold of each part.
LEMMA TypesOfParts ==
    ASSUME entries' \in [Ids -> Creations \cup {Nothing}],
           workspace' \in [Creations -> Workspace],
           allocated' \in SUBSET (SSHPorts \cup ServicePorts),
           container' \in [Ids -> ContainerStates],
           call' \in [Callers -> Call], starter' \in [Starters -> Job], reuse' \in BOOLEAN
    PROVE  TypeOK'
  BY DEF TypeOK, ContainerStates, Call, CallStages, Job

\* The types of the variables.
LEMMA PartsOfTypes ==
    ASSUME TypeOK
    PROVE  /\ entries \in [Ids -> Creations \cup {Nothing}]
           /\ workspace \in [Creations -> Workspace]
           /\ allocated \in SUBSET (SSHPorts \cup ServicePorts)
           /\ container \in [Ids -> ContainerStates]
           /\ call \in [Callers -> Call] /\ starter \in [Starters -> Job] /\ reuse \in BOOLEAN
  BY DEF TypeOK, ContainerStates, Call, CallStages, Job

\* So creations keep the shape.
LEMMA CreateShape ==
    ASSUME ShapeInv, NEW w \in Creations, CreateWorkspace(w), UNCHANGED reuse
    PROVE  ShapeInv'
<1>0. TypeOK /\ JobInv
  BY DEF ShapeInv
<1>1. Settles(w) /\ workspace' \in [Creations -> Workspace]
  BY CreateSettles DEF Settles, OnlyOf
<1>2. UNCHANGED <<call, starter>>
  BY DEF CreateWorkspace, AllocateSSH, InsertEntry, CreateContainer, StartContainer,
         ConfigureSSH, AbortCreate, FinishCreate
<1>3. container' \in [Ids -> ContainerStates]
  <2>1. \/ UNCHANGED container
        \/ \E s \in ContainerStates : container' = [container EXCEPT ![Id(w)] = s]
    BY DEF CreateWorkspace, AllocateSSH, InsertEntry, CreateContainer, StartContainer,
           ConfigureSSH, AbortCreate, FinishCreate, Destroy, ContainerStates
  <2> QED
    BY <1>0, <2>1, PartsOfTypes
<1>4. allocated' \in SUBSET (SSHPorts \cup ServicePorts)
  <2>1. CASE AllocateSSH(w)
    BY <1>0, <2>1, AllocateEffect, PartsOfTypes
  <2>2. CASE ~ AllocateSSH(w)
    BY <1>0, <2>2, PartsOfTypes DEF CreateWorkspace, InsertEntry, CreateContainer, StartContainer,
                             ConfigureSSH, AbortCreate, FinishCreate
  <2> QED
    BY <2>1, <2>2
<1>5. \/ UNCHANGED entries
      \/ InsertEntry(w) /\ entries' = [entries EXCEPT ![Id(w)] = w]
  BY DEF CreateWorkspace, AllocateSSH, InsertEntry, CreateContainer, StartContainer,
         ConfigureSSH, AbortCreate, FinishCreate
<1>6. entries' \in [Ids -> Creations \cup {Nothing}]
  BY <1>0, <1>5, PartsOfTypes
<1>7. TypeOK'
  BY <1>0, <1>1, <1>2, <1>3, <1>4, <1>6, PartsOfTypes, TypesOfParts
<1>8. /\ \A v \in Creations :
            IF workspace'[v].stage = "idle"
            THEN /\ workspace'[v].id = Nothing /\ workspace'[v].status = "none"
                 /\ workspace'[v].services = NoService
            ELSE workspace'[v].id \in Ids /\ workspace'[v].port \in SSHPorts
      /\ \A v \in Creations : workspace'[v].status = "running" => workspace'[v].stage = "done"
      /\ \A v \in Creations : Inserted(v) => Inserted(v)' /\ Id(v)' = Id(v)
  BY <1>1, SettledShape
<1>9. ASSUME NEW i \in Ids, entries'[i] # Nothing
      PROVE  /\ entries'[i] \in Creations /\ workspace'[entries'[i]].id = i
             /\ workspace'[entries'[i]].stage \notin {"idle", "insert"}
  <2>1. CASE entries'[i] = entries[i]
    BY <1>8, <1>9, <2>1 DEF ShapeInv, Inserted, Id
  <2>2. CASE entries'[i] # entries[i]
    <3>1. InsertEntry(w) /\ i = Id(w) /\ entries'[i] = w
      BY <1>0, <1>5, <2>2, PartsOfTypes
    <3>2. Progress(w, "create", "creating")
      BY <3>1, CreateSteps
    <3> QED
      BY <3>1, <3>2 DEF Progress, Id
  <2> QED
    BY <2>1, <2>2
<1>10. ASSUME NEW k \in Callers, call[k].stage # "idle"
       PROVE  call[k].ws \in Creations /\ workspace'[call[k].ws].stage \notin {"idle", "insert"}
  BY <1>8, <1>10 DEF ShapeInv, Inserted
<1>11. JobInv'
  <2>1. \A s \in Starters : starter[s].ws # Nothing => starter[s].ws \in Creations
    BY <1>0, PartsOfTypes DEF Job
  <2> QED
    BY <1>0, <1>2, <1>8, <2>1 DEF JobInv, Inserted
<1> QED
  BY <1>2, <1>7, <1>8, <1>9, <1>10, <1>11 DEF ShapeInv, Inserted, Id

\* A step of a job or a call leaves every workspace at its stage.
Steady ==
    /\ workspace' \in [Creations -> Workspace]
    /\ \A w \in Creations :
          /\ workspace'[w].stage = workspace[w].stage /\ workspace'[w].id = workspace[w].id
          /\ workspace'[w].port = workspace[w].port
          /\ workspace'[w].status \in {workspace[w].status, "stopped"}
          /\ workspace[w].stage = "idle" => workspace'[w] = workspace[w]

\* A step that leaves every workspace at its stage, and removes an entry at
\* most, keeps the shape.
LEMMA SteadyShape ==
    ASSUME ShapeInv, Steady, TypeOK', JobInv',
           \A i \in Ids : entries'[i] \in {entries[i], Nothing},
           \A k \in Callers : call'[k].stage # "idle" =>
               \/ call'[k].ws = call[k].ws /\ call[k].stage # "idle"
               \/ \E i \in Ids : entries[i] # Nothing /\ call'[k].ws = entries[i]
    PROVE  ShapeInv'
<1>1. /\ \A w \in Creations :
            IF workspace'[w].stage = "idle"
            THEN /\ workspace'[w].id = Nothing /\ workspace'[w].status = "none"
                 /\ workspace'[w].services = NoService
            ELSE workspace'[w].id \in Ids /\ workspace'[w].port \in SSHPorts
      /\ \A w \in Creations : workspace'[w].status = "running" => workspace'[w].stage = "done"
  BY DEF ShapeInv, Steady
<1>2. \A i \in Ids : entries'[i] # Nothing =>
         /\ entries'[i] \in Creations /\ workspace'[entries'[i]].id = i
         /\ workspace'[entries'[i]].stage \notin {"idle", "insert"}
  BY DEF ShapeInv, Steady, Inserted, Id
<1>3. \A k \in Callers : call'[k].stage # "idle" =>
         call'[k].ws \in Creations /\ workspace'[call'[k].ws].stage \notin {"idle", "insert"}
  BY DEF ShapeInv, Steady, Inserted
<1> QED
  BY <1>1, <1>2, <1>3 DEF ShapeInv, Inserted, Id

\* A step that changes no workspace is one.
LEMMA UnchangedIsSteady ==
    ASSUME TypeOK, UNCHANGED workspace
    PROVE  Steady
  BY PartsOfTypes DEF Steady

\* Storing the port of a service is one.
LEMMA StoreIsSteady ==
    ASSUME ShapeInv, NEW s \in Starters, StoreService(s)
    PROVE  Steady
<1>0. TypeOK
  BY DEF ShapeInv
<1>1. starter[s].ws \in Creations /\ Inserted(starter[s].ws)
  <2>1. starter[s].ws # Nothing /\ starter[s].ws \in Creations \cup {Nothing}
    BY <1>0, PartsOfTypes DEF ShapeInv, JobInv, StoreService, Job
  <2> QED
    BY <2>1 DEF ShapeInv, JobInv
<1> DEFINE w == starter[s].ws
<1>2. /\ workspace' \in [Creations -> Workspace]
      /\ \A v \in Creations \ {w} : workspace'[v] = workspace[v]
      /\ workspace'[w].stage = workspace[w].stage /\ workspace'[w].id = workspace[w].id
      /\ workspace'[w].status = workspace[w].status
      /\ workspace'[w].port = workspace[w].port
  BY <1>0, <1>1, StoreEffect
<1> HIDE DEF w
<1>3. workspace[w].stage # "idle"
  BY <1>1 DEF Inserted, w
<1> QED
  BY <1>2, <1>3 DEF Steady

\* The jobs stay in order whatever one of them does.
LEMMA JobsStay ==
    ASSUME ShapeInv, NEW s \in Starters, StartServices(s), Steady
    PROVE  JobInv' /\ starter' \in [Starters -> Job]
           /\ allocated' \in SUBSET (SSHPorts \cup ServicePorts)
<1>0. TypeOK /\ JobInv /\ \A t \in Starters : starter[t].ws # Nothing => starter[t].ws \in Creations
  BY PartsOfTypes DEF ShapeInv, Job
<1>1. \A w \in Creations : Inserted(w) => workspace'[w].stage \notin {"idle", "insert"}
  BY DEF Steady, Inserted
<1>2. ASSUME JobStep(s),
             starter'[s].ws # Nothing =>
                 \/ starter'[s].ws = starter[s].ws
                 \/ \E i \in Ids : entries[i] # Nothing /\ starter'[s].ws = entries[i],
             starter'[s].todo # {} \/ starter'[s].svc # Nothing => starter'[s].ws # Nothing,
             starter'[s].svc # Nothing => starter'[s].port \in ServicePorts
      PROVE  JobInv'
  <2>1. starter'[s].ws # Nothing => workspace'[starter'[s].ws].stage \notin {"idle", "insert"}
    BY <1>0, <1>1, <1>2 DEF ShapeInv, JobInv
  <2>2. \A t \in Starters \ {s} : starter'[t].ws # Nothing =>
           workspace'[starter'[t].ws].stage \notin {"idle", "insert"}
    BY <1>0, <1>1, <1>2 DEF JobInv, JobStep
  <2> QED
    BY <1>0, <1>2, <2>1, <2>2 DEF JobInv, JobStep, Inserted
<1>3. CASE BeginServices(s)
  <2>1. /\ JobStep(s) /\ starter'[s].svc = starter[s].svc
        /\ starter'[s].port = starter[s].port
        /\ \E i \in Ids : entries[i] # Nothing /\ starter'[s].ws = entries[i]
    BY <1>0, <1>3, BeginServicesEffect
  <2>2. starter[s].svc = Nothing /\ UNCHANGED allocated
    BY <1>0, <1>3 DEF BeginServices, JobInv
  <2> QED
    BY <1>0, <1>2, <2>1, <2>2, PartsOfTypes DEF JobStep
<1>4. CASE AllocateService(s)
  <2>1. /\ JobStep(s) /\ starter'[s].ws = starter[s].ws
        /\ starter[s].svc = Nothing /\ starter[s].todo # {}
        /\ \/ /\ starter'[s].svc = Nothing /\ UNCHANGED allocated
           \/ /\ starter'[s].svc # Nothing
              /\ starter'[s].port \in ServicePorts \ allocated
              /\ allocated' = allocated \cup {starter'[s].port}
    BY <1>0, <1>4, AllocateServiceEffect
  <2>2. starter[s].ws # Nothing
    BY <1>0, <2>1 DEF JobInv
  <2>3. JobInv'
    BY <1>2, <2>1, <2>2
  <2>4. allocated' \in SUBSET (SSHPorts \cup ServicePorts)
    BY <1>0, <2>1, PartsOfTypes
  <2> QED
    BY <2>1, <2>3, <2>4 DEF JobStep
<1>5. CASE StoreService(s)
  <2>1. /\ JobStep(s) /\ starter'[s].ws = starter[s].ws
        /\ starter[s].svc # Nothing /\ starter'[s].svc = Nothing
    BY <1>0, <1>5, StoreServiceEffect
  <2>2. UNCHANGED allocated /\ starter[s].ws # Nothing
    BY <1>0, <1>5 DEF StoreService, JobInv
  <2> QED
    BY <1>0, <1>2, <2>1, <2>2, PartsOfTypes DEF JobStep
<1>6. CASE EndServices(s)
  <2>1. JobStep(s) /\ starter'[s] = IdleStarter
    BY <1>0, <1>6, EndServicesEffect
  <2>2. UNCHANGED allocated
    BY <1>6 DEF EndServices
  <2>3. IdleStarter.ws = Nothing /\ IdleStarter.todo = {} /\ IdleStarter.svc = Nothing
    BY DEF IdleStarter
  <2> QED
    BY <1>0, <1>2, <2>1, <2>2, <2>3, PartsOfTypes DEF JobStep
<1> QED
  BY <1>3, <1>4, <1>5, <1>6 DEF StartServices

\* The starts of services keep the shape.
LEMMA ServicesShape ==
    ASSUME ShapeInv, NEW s \in Starters, StartServices(s), UNCHANGED reuse
    PROVE  ShapeInv' /\ Steady
<1>0. TypeOK
  BY DEF ShapeInv
<1>1. UNCHANGED <<entries, container, call>>
  BY DEF StartServices, BeginServices, AllocateService, StoreService, EndServices
<1>2. Steady
  <2>1. CASE StoreService(s)
    BY <2>1, StoreIsSteady
  <2>2. CASE ~ StoreService(s)
    BY <1>0, <2>2, UnchangedIsSteady
       DEF StartServices, BeginServices, AllocateService, EndServices
  <2> QED
    BY <2>1, <2>2
<1>3. JobInv' /\ starter' \in [Starters -> Job]
      /\ allocated' \in SUBSET (SSHPorts \cup ServicePorts)
  BY <1>2, JobsStay
<1>4. TypeOK'
  <2>1. workspace' \in [Creations -> Workspace]
    BY <1>2 DEF Steady
  <2> QED
    BY <1>0, <1>1, <1>3, <2>1, PartsOfTypes, TypesOfParts
<1> QED
  BY <1>1, <1>2, <1>3, <1>4, SteadyShape

\* How a call goes on: it begins on a workspace of the map, makes a step on the
\* workspace it has, or returns.
Begins(k, s) ==
    /\ call[k].stage = "idle" /\ call'[k].stage = s
    /\ \E i \in Ids : entries[i] # Nothing /\ call'[k].ws = entries[i]
GoesOn(k, from, to) ==
    call[k].stage = from /\ call'[k].stage = to /\ call'[k].ws = call[k].ws
Returns(k, from) == call[k].stage = from /\ call'[k].stage = "idle"

OnlyCall(k) ==
    /\ call' \in [Callers -> Call]
    /\ \A j \in Callers \ {k} : call'[j] = call[j]

\* What each step of a stop or a delete changes.
LEMMA CallSteps ==
    ASSUME TypeOK, NEW k \in Callers
    PROVE  /\ BeginStop(k) => OnlyCall(k) /\ Begins(k, "mark")
           /\ BeginDelete(k) => OnlyCall(k) /\ Begins(k, "destroy")
           /\ MarkStopped(k) => OnlyCall(k) /\ GoesOn(k, "mark", "stop")
           /\ StopContainer(k) => OnlyCall(k) /\ Returns(k, "stop")
           /\ DestroyContainer(k) =>
                 /\ OnlyCall(k)
                 /\ \/ Destroy(Id(call[k].ws)) /\ GoesOn(k, "destroy", "release")
                    \/ Returns(k, "destroy") /\ UNCHANGED container
           /\ ReleasePorts(k) => OnlyCall(k) /\ GoesOn(k, "release", "remove")
           /\ RemoveEntry(k) => OnlyCall(k) /\ Returns(k, "remove")
<1>0. call \in [Callers -> Call] /\ \A s \in {"mark", "stop", "destroy", "release", "remove"} : s \in CallStages
  BY PartsOfTypes DEF CallStages
<1>1. BeginStop(k) => OnlyCall(k) /\ Begins(k, "mark")
  BY <1>0, LookupEffect DEF BeginStop, OnlyCall, Begins
<1>2. BeginDelete(k) => OnlyCall(k) /\ Begins(k, "destroy")
  BY <1>0, LookupEffect DEF BeginDelete, OnlyCall, Begins
<1>3. MarkStopped(k) => OnlyCall(k) /\ GoesOn(k, "mark", "stop")
  BY <1>0, GotoEffect DEF MarkStopped, OnlyCall, GoesOn
<1>4. StopContainer(k) => OnlyCall(k) /\ Returns(k, "stop")
  BY <1>0, ReturnEffect DEF StopContainer, OnlyCall, Returns
<1>5. ASSUME DestroyContainer(k)
      PROVE  /\ OnlyCall(k)
             /\ \/ Destroy(Id(call[k].ws)) /\ GoesOn(k, "destroy", "release")
                \/ Returns(k, "destroy") /\ UNCHANGED container
  <2>1. CASE Destroy(Id(call[k].ws)) /\ Goto(k, "release")
    BY <1>0, <1>5, <2>1, GotoEffect DEF DestroyContainer, OnlyCall, GoesOn
  <2>2. CASE Return(k) /\ UNCHANGED container
    BY <1>0, <1>5, <2>2, ReturnEffect DEF DestroyContainer, OnlyCall, Returns
  <2> QED
    BY <1>5, <2>1, <2>2 DEF DestroyContainer
<1>6. ReleasePorts(k) => OnlyCall(k) /\ GoesOn(k, "release", "remove")
  BY <1>0, GotoEffect DEF ReleasePorts, OnlyCall, GoesOn
<1>7. RemoveEntry(k) => OnlyCall(k) /\ Returns(k, "remove")
  BY <1>0, ReturnEffect DEF RemoveEntry, OnlyCall, Returns
<1> QED
  BY <1>1, <1>2, <1>3, <1>4, <1>5, <1>6, <1>7

\* A workspace that is marked as stopped keeps its stage.
LEMMA MarkIsSteady ==
    ASSUME ShapeInv, NEW k \in Callers, MarkStopped(k)
    PROVE  /\ call[k].ws \in Creations
           /\ Progress(call[k].ws, workspace[call[k].ws].stage, "stopped") /\ Steady
<1> DEFINE w == call[k].ws
<1>1. w \in Creations /\ workspace[w].stage # "idle"
  BY DEF ShapeInv, MarkStopped, Inserted
<1>2. workspace \in [Creations -> Workspace] /\ "stopped" \in Status
  BY PartsOfTypes DEF ShapeInv, Status
<1>3. workspace' = [workspace EXCEPT ![w].status = "stopped"]
  BY DEF MarkStopped
<1> HIDE DEF w
<1>4. Progress(w, workspace[w].stage, "stopped")
  BY <1>1, <1>2, <1>3, StatusEffect
<1>5. Steady
  BY <1>1, <1>4 DEF Progress, OnlyOf, Steady
<1> QED
  BY <1>1, <1>4, <1>5 DEF w

\* Stops and deletes keep the shape.
LEMMA CallsShape ==
    ASSUME ShapeInv, NEW k \in Callers, StopWorkspace(k) \/ DeleteWorkspace(k), UNCHANGED reuse
    PROVE  ShapeInv' /\ Steady
<1> USE DEF StopWorkspace, DeleteWorkspace, BeginStop, BeginDelete, Lookup, MarkStopped,
            StopContainer, DestroyContainer, ReleasePorts, RemoveEntry
<1>0. TypeOK /\ JobInv
  BY DEF ShapeInv
<1>1. OnlyCall(k) /\ \/ \E s \in CallStages : Begins(k, s)
                     \/ \E s, t \in CallStages : s # "idle" /\ GoesOn(k, s, t)
                     \/ call'[k].stage = "idle"
  BY <1>0, CallSteps DEF CallStages, Returns
<1>2. Steady
  <2>1. CASE MarkStopped(k)
    BY <2>1, MarkIsSteady
  <2>2. CASE ~ MarkStopped(k)
    BY <1>0, <2>2, UnchangedIsSteady
  <2> QED
    BY <2>1, <2>2
<1>3. UNCHANGED starter
  OBVIOUS
<1>4. JobInv'
  <2>1. \A s \in Starters : starter[s].ws # Nothing => starter[s].ws \in Creations
    BY <1>0, PartsOfTypes DEF Job
  <2> QED
    BY <1>0, <1>2, <1>3, <2>1 DEF JobInv, Inserted, Steady
<1>5. container' \in [Ids -> ContainerStates]
  <2>1. \/ UNCHANGED container
        \/ \E i, s : s \in ContainerStates /\ container' = [container EXCEPT ![i] = s]
    BY DEF Destroy, ContainerStates
  <2> QED
    BY <1>0, <2>1, PartsOfTypes
<1>6. \/ UNCHANGED entries
      \/ \E i : entries' = [entries EXCEPT ![i] = Nothing]
  OBVIOUS
<1>7. entries' \in [Ids -> Creations \cup {Nothing}] /\ \A i \in Ids : entries'[i] \in {entries[i], Nothing}
  BY <1>0, <1>6, PartsOfTypes
<1>8. allocated' \in SUBSET (SSHPorts \cup ServicePorts)
  BY <1>0, PartsOfTypes
<1>9. TypeOK'
  <2>1. workspace' \in [Creations -> Workspace] /\ call' \in [Callers -> Call]
    BY <1>1, <1>2 DEF Steady, OnlyCall
  <2> QED
    BY <1>0, <1>3, <1>5, <1>7, <1>8, <2>1, PartsOfTypes, TypesOfParts
<1>10. \A j \in Callers : call'[j].stage # "idle" =>
          \/ call'[j].ws = call[j].ws /\ call[j].stage # "idle"
          \/ \E i \in Ids : entries[i] # Nothing /\ call'[j].ws = entries[i]
  BY <1>1 DEF OnlyCall, Begins, GoesOn
<1> QED
  BY <1>2, <1>4, <1>7, <1>9, <1>10, SteadyShape

\* In every behaviour stages, calls and starts of services have the shape
\* ShapeInv says.
LEMMA ShapeInvHolds == Spec => []ShapeInv
<1>1. Init => ShapeInv
  <2> SUFFICES ASSUME Init PROVE ShapeInv
    OBVIOUS
  <2>1. \A w \in Creations : workspace[w] \in Workspace
    BY DEF Init, Workspace, NoService, Stage, Status
  <2>2. workspace \in [Creations -> Workspace]
    BY <2>1 DEF Init
  <2>3. starter \in [Starters -> Job] /\ call \in [Callers -> Call]
    BY DEF Init, IdleStarter, IdleCall, Job, Call, CallStages
  <2>4. TypeOK
    BY <2>2, <2>3 DEF Init, TypeOK, Job, Call, CallStages
  <2>5. JobInv
    BY DEF Init, IdleStarter, JobInv
  <2> QED
    BY <2>4, <2>5 DEF Init, ShapeInv, IdleCall
<1>2. ShapeInv /\ [Next]_vars => ShapeInv'
  <2> SUFFICES ASSUME ShapeInv, [Next]_vars PROVE ShapeInv'
    OBVIOUS
  <2>1. ASSUME NEW w \in Creations, CreateWorkspace(w), UNCHANGED reuse PROVE ShapeInv'
    BY <2>1, CreateShape
  <2>2. ASSUME NEW s \in Starters, StartServices(s), UNCHANGED reuse PROVE ShapeInv'
    BY <2>2, ServicesShape
  <2>3. ASSUME NEW k \in Callers, StopWorkspace(k) \/ DeleteWorkspace(k), UNCHANGED reuse
        PROVE  ShapeInv'
    BY <2>3, CallsShape
  <2>4. CASE UNCHANGED vars
    <3>1. TypeOK' /\ JobInv'
      BY <2>4 DEF vars, ShapeInv, TypeOK, JobInv, Inserted
    <3> QED
      BY <2>4, <3>1 DEF vars, ShapeInv, Inserted, Id
  <2> QED
    BY <2>1, <2>2, <2>3, <2>4 DEF Next
<1> QED
  BY <1>1, <1>2, PTL DEF Spec

\* Every variable of the manager stays in its range: the map, the ports, the
\* records of the workspaces and of the calls (workspace_manager.go:75-566).
THEOREM TypeCorrect == Spec => []TypeOK
<1>1. ShapeInv => TypeOK
  BY DEF ShapeInv
<1> QED
  BY <1>1, ShapeInvHolds, PTL

-----------------------------------------------------------------------------
(* Containers, when no two creations share an identifier and destroying a  *)
(* container that is gone is an error.                                     *)

\* A delete that destroyed the container has yet to forget the workspace.
Forgets(k, w) == call[k].ws = w /\ call[k].stage \in {"release", "remove"}

Alive(w) == workspace[w].stage \in {"start", "ssh", "finish"} \/ workspace[w].status = "running"

\* No two workspaces share an identifier.
DistinctIds ==
    \A v, w \in Creations :
        v # w /\ workspace[v].stage # "idle" /\ workspace[w].stage # "idle" => Id(v) # Id(w)

\* Until its container is made a workspace has none, and nothing forgets it.
NotYet ==
    \A w \in Creations :
        /\ workspace[w].stage \in {"insert", "create"} =>
              ~Exists(Id(w)) /\ \A k \in Callers : ~Forgets(k, w)
        /\ workspace[w].stage = "create" => entries[Id(w)] = w

\* One delete at most forgets a workspace; its container is gone by then.
ForgottenOnce ==
    \A k \in Callers, w \in Creations : Forgets(k, w) =>
        /\ ~Exists(Id(w)) /\ entries[Id(w)] = w
        /\ \A j \in Callers \ {k} : ~Forgets(j, w)

BoxesListed == \A i \in Ids : Exists(i) => entries[i] # Nothing

AliveHasContainer ==
    \A w \in Creations :
        Alive(w) /\ entries[Id(w)] = w /\ (\A k \in Callers : ~Forgets(k, w)) => Exists(Id(w))

ContainerInv ==
    ~reuse => DistinctIds /\ NotYet /\ ForgottenOnce /\ BoxesListed /\ AliveHasContainer

\* What is left to show of a step that changes no container, no entry and no
\* call's right to forget.
LEMMA ContainersKept ==
    ASSUME ShapeInv, ContainerInv, ~reuse, NEW w \in Creations, OnlyOf(w),
           workspace[w].stage # "idle" /\ workspace'[w].stage \notin {"idle", "insert"},
           workspace'[w].id = workspace[w].id,
           workspace'[w].stage = "create" => workspace[w].stage = "create",
           Alive(w)' => Alive(w) \/ Exists(Id(w)),
           \A i \in Ids : Exists(i)' = Exists(i), UNCHANGED entries,
           \A k \in Callers, v \in Creations : Forgets(k, v)' = Forgets(k, v)
    PROVE  DistinctIds' /\ NotYet' /\ ForgottenOnce' /\ BoxesListed' /\ AliveHasContainer'
<1>1. /\ \A v \in Creations : v # w => workspace'[v] = workspace[v]
      /\ \A v \in Creations : Id(v)' = Id(v)
      /\ \A v \in Creations : workspace[v].stage # "idle" => Id(v) \in Ids
  BY DEF OnlyOf, Id, ShapeInv
<1>2. DistinctIds'
  BY <1>1 DEF ContainerInv, DistinctIds
<1>3. NotYet'
  <2> SUFFICES ASSUME NEW v \in Creations
               PROVE  /\ workspace'[v].stage \in {"insert", "create"} =>
                            ~Exists(Id(v))' /\ \A k \in Callers : ~Forgets(k, v)'
                      /\ workspace'[v].stage = "create" => entries'[Id(v)'] = v
    BY DEF NotYet
  <2>1. workspace'[v].stage \in {"insert", "create"} => workspace[v].stage = workspace'[v].stage
    BY <1>1
  <2>2. Exists(Id(v))' = Exists(Id(v)) \/ workspace[v].stage = "idle"
    BY <1>1 DEF Exists
  <2> QED
    BY <1>1, <2>1, <2>2 DEF ContainerInv, NotYet
<1>4. ForgottenOnce'
  <2>1. \A k \in Callers, v \in Creations : Forgets(k, v) => workspace[v].stage # "idle"
    BY DEF ShapeInv, Forgets, Inserted
  <2>2. \A v \in Creations : workspace[v].stage # "idle" => Exists(Id(v))' = Exists(Id(v))
    BY <1>1 DEF Exists
  <2> QED
    BY <1>1, <2>1, <2>2 DEF ContainerInv, ForgottenOnce
<1>5. BoxesListed'
  BY DEF ContainerInv, BoxesListed
<1>6. AliveHasContainer'
  <2> SUFFICES ASSUME NEW v \in Creations, Alive(v)', entries'[Id(v)'] = v,
                      \A k \in Callers : ~Forgets(k, v)'
               PROVE  Exists(Id(v))'
    BY DEF AliveHasContainer
  <2>1. workspace[v].stage # "idle"
    BY <1>1 DEF Alive, ShapeInv
  <2>2. Exists(Id(v))' = Exists(Id(v))
    BY <1>1, <2>1 DEF Exists
  <2>3. Alive(v) \/ Exists(Id(v))
    BY <1>1 DEF Alive
  <2> QED
    BY <1>1, <2>2, <2>3 DEF ContainerInv, AliveHasContainer
<1> QED
  BY <1>2, <1>3, <1>4, <1>5, <1>6

\* The invariant of the containers is kept by a creation that allocates its
\* port, ...
LEMMA AllocateContainers ==
    ASSUME ShapeInv, ContainerInv, ~reuse, NEW w \in Creations, AllocateSSH(w)
    PROVE  DistinctIds' /\ NotYet' /\ ForgottenOnce' /\ BoxesListed' /\ AliveHasContainer'
<1>1. TypeOK /\ workspace[w].stage = "idle" /\ UNCHANGED <<entries, container, call>>
  BY DEF ShapeInv, AllocateSSH
<1>2. /\ \A v \in Creations \ {w} : workspace'[v] = workspace[v]
      /\ workspace'[w].stage = "insert" /\ workspace'[w].status = "none"
      /\ workspace'[w].id \in Ids /\ \A v \in Creations : Id(v) # workspace'[w].id
  BY <1>1, AllocateEffect DEF OnlyOf, ShapeInv
<1>3. \A k \in Callers : ~Forgets(k, w)
  BY <1>1 DEF ShapeInv, Forgets, Inserted
<1>4. container[workspace'[w].id] = "none"
  <2>1. entries[workspace'[w].id] = Nothing
    BY <1>2 DEF ShapeInv
  <2> QED
    BY <1>2, <2>1 DEF ContainerInv, BoxesListed, Exists
<1>5. DistinctIds'
  BY <1>1, <1>2 DEF ContainerInv, DistinctIds, Id
<1>6. NotYet'
  BY <1>1, <1>2, <1>3, <1>4 DEF ContainerInv, NotYet, Id, Exists, Forgets
<1>7. ForgottenOnce'
  BY <1>1, <1>2, <1>3 DEF ContainerInv, ForgottenOnce, Id, Exists, Forgets
<1>8. BoxesListed'
  BY <1>1 DEF ContainerInv, BoxesListed, Exists
<1>9. AliveHasContainer'
  BY <1>1, <1>2 DEF ContainerInv, AliveHasContainer, Alive, Id, Exists, Forgets
<1> QED
  BY <1>5, <1>6, <1>7, <1>8, <1>9

\* ... by one that inserts its entry, ...
LEMMA InsertContainers ==
    ASSUME ShapeInv, ContainerInv, ~reuse, NEW w \in Creations, InsertEntry(w)
    PROVE  DistinctIds' /\ NotYet' /\ ForgottenOnce' /\ BoxesListed' /\ AliveHasContainer'
<1>1. /\ TypeOK /\ workspace[w].stage = "insert" /\ UNCHANGED <<container, call>>
      /\ entries' = [entries EXCEPT ![Id(w)] = w]
  BY DEF ShapeInv, InsertEntry
<1>2. /\ \A v \in Creations \ {w} : workspace'[v] = workspace[v]
      /\ workspace'[w].stage = "create" /\ workspace'[w].status = "creating"
      /\ workspace'[w].id = workspace[w].id
  BY CreateSteps DEF Progress, OnlyOf
<1>3. /\ entries \in [Ids -> Creations \cup {Nothing}] /\ Id(w) \in Ids
      /\ \A v \in Creations : workspace[v].stage # "idle" => Id(v) \in Ids
  BY <1>1, PartsOfTypes DEF ShapeInv, Id
<1>4. /\ entries'[Id(w)] = w /\ \A i \in Ids : i # Id(w) => entries'[i] = entries[i]
      /\ w # Nothing
  BY <1>1, <1>3, NothingAssumption
<1>5. \A v \in Creations : v # w /\ workspace[v].stage # "idle" => Id(v) # Id(w)
  BY <1>1 DEF ContainerInv, DistinctIds
<1>6. \A k \in Callers, v \in Creations : Forgets(k, v) => v # w /\ workspace[v].stage # "idle"
  BY <1>1 DEF ShapeInv, Forgets, Inserted
<1>7. DistinctIds'
  BY <1>1, <1>2 DEF ContainerInv, DistinctIds, Id
<1>8. NotYet'
  BY <1>1, <1>2, <1>3, <1>4, <1>5 DEF ContainerInv, NotYet, Id, Exists, Forgets
<1>9. ForgottenOnce'
  BY <1>1, <1>2, <1>3, <1>4, <1>5, <1>6 DEF ContainerInv, ForgottenOnce, Id, Exists, Forgets
<1>10. BoxesListed'
  BY <1>1, <1>4 DEF ContainerInv, BoxesListed, Exists
<1>11. AliveHasContainer'
  BY <1>1, <1>2, <1>3, <1>4, <1>5 DEF ContainerInv, AliveHasContainer, Alive, Id, Exists, Forgets, ShapeInv
<1> QED
  BY <1>7, <1>8, <1>9, <1>10, <1>11

\* The container of one workspace is made, or destroyed by its creation.
LEMMA OwnContainer ==
    ASSUME ShapeInv, ContainerInv, ~reuse, NEW w \in Creations, OnlyOf(w),
           workspace[w].stage # "idle", workspace'[w].stage \in {"start", "done"},
           workspace'[w].id = workspace[w].id, UNCHANGED <<entries, call>>,
           NEW s \in ContainerStates, container' = [container EXCEPT ![Id(w)] = s],
           s # "none" => workspace[w].stage = "create",
           s = "none" => workspace'[w].status = "error" /\ workspace'[w].stage = "done"
    PROVE  DistinctIds' /\ NotYet' /\ ForgottenOnce' /\ BoxesListed' /\ AliveHasContainer'
<1>1. /\ \A v \in Creations \ {w} : workspace'[v] = workspace[v]
      /\ container \in [Ids -> ContainerStates]
      /\ \A v \in Creations : workspace[v].stage # "idle" => Id(v) \in Ids
  BY PartsOfTypes DEF OnlyOf, ShapeInv, Id
<1>2. /\ container'[Id(w)] = s /\ \A i \in Ids : i # Id(w) => container'[i] = container[i]
  BY <1>1
<1>3. \A v \in Creations : v # w /\ workspace[v].stage # "idle" => Id(v) # Id(w)
  BY DEF ContainerInv, DistinctIds
<1>4. \A k \in Callers, v \in Creations : Forgets(k, v) => workspace[v].stage # "idle"
  BY DEF ShapeInv, Forgets, Inserted
<1>5. s # "none" => entries[Id(w)] = w /\ \A k \in Callers : ~Forgets(k, w)
  BY DEF ContainerInv, NotYet
<1>6. DistinctIds'
  BY <1>1 DEF ContainerInv, DistinctIds, Id
<1>7. NotYet'
  BY <1>1, <1>2, <1>3 DEF ContainerInv, NotYet, Id, Exists, Forgets
<1>8. ForgottenOnce'
  <2> SUFFICES ASSUME NEW k \in Callers, NEW v \in Creations, Forgets(k, v)
               PROVE  /\ container'[workspace'[v].id] = "none" /\ entries[workspace'[v].id] = v
                      /\ \A j \in Callers \ {k} : ~Forgets(j, v)
    BY DEF ForgottenOnce, Exists, Id, Forgets
  <2>1. ~Exists(Id(v)) /\ entries[Id(v)] = v /\ \A j \in Callers \ {k} : ~Forgets(j, v)
    BY DEF ContainerInv, ForgottenOnce
  <2>2. CASE v = w
    BY <1>2, <1>5, <2>1, <2>2 DEF Id
  <2>3. CASE v # w
    BY <1>1, <1>2, <1>3, <1>4, <2>1, <2>3 DEF Id, Exists
  <2> QED
    BY <2>2, <2>3
<1>9. BoxesListed'
  BY <1>1, <1>2, <1>5, NothingAssumption DEF ContainerInv, BoxesListed, Exists
<1>10. AliveHasContainer'
  <2> SUFFICES ASSUME NEW v \in Creations, Alive(v)', entries[workspace'[v].id] = v,
                      \A k \in Callers : ~Forgets(k, v)
               PROVE  container'[workspace'[v].id] # "none"
    BY DEF AliveHasContainer, Exists, Id, Forgets
  <2>1. CASE v = w
    BY <1>2, <2>1 DEF Alive, Id
  <2>2. CASE v # w
    <3>1. Alive(v) /\ entries[Id(v)] = v /\ workspace[v].stage # "idle"
      BY <1>1, <2>2 DEF Alive, Id, ShapeInv
    <3>2. Exists(Id(v))
      BY <3>1 DEF ContainerInv, AliveHasContainer
    <3> QED
      BY <1>1, <1>2, <1>3, <2>2, <3>1, <3>2 DEF Exists, Id
  <2> QED
    BY <2>1, <2>2
<1> QED
  BY <1>6, <1>7, <1>8, <1>9, <1>10

\* ... by every other step of one, ...
LEMMA CreateContainers ==
    ASSUME ShapeInv, ContainerInv, ~DestroyIdempotent, ~reuse, NEW w \in Creations,
           CreateWorkspace(w)
    PROVE  DistinctIds' /\ NotYet' /\ ForgottenOnce' /\ BoxesListed' /\ AliveHasContainer'
<1>0. TypeOK /\ container \in [Ids -> ContainerStates]
      /\ "none" \in ContainerStates /\ "created" \in ContainerStates /\ "running" \in ContainerStates
  BY PartsOfTypes DEF ShapeInv, ContainerStates
<1>1. CASE AllocateSSH(w)
  BY <1>1, AllocateContainers
<1>2. CASE InsertEntry(w)
  BY <1>2, InsertContainers
<1>3. ASSUME NEW st \in {"start", "ssh", "finish", "abort", "done"},
             NEW x,
             Progress(w, st, x), workspace[w].stage # "idle",
             Alive(w) \/ (st \in {"abort", "done"} /\ x # "running"),
             \A i \in Ids : Exists(i)' = Exists(i), UNCHANGED <<entries, call>>
      PROVE  DistinctIds' /\ NotYet' /\ ForgottenOnce' /\ BoxesListed' /\ AliveHasContainer'
  <2>1. OnlyOf(w) /\ workspace'[w].id = workspace[w].id /\ workspace'[w].stage = st
        /\ workspace'[w].status = x
    BY <1>3 DEF Progress
  <2>2. Alive(w)' => Alive(w) \/ Exists(Id(w))
    BY <1>3, <2>1 DEF Alive
  <2>3. \A k \in Callers, v \in Creations : Forgets(k, v)' = Forgets(k, v)
    BY <1>3 DEF Forgets
  <2> QED
    BY <1>3, <2>1, <2>2, <2>3, ContainersKept
<1>4. CASE CreateContainer(w)
  <2>0. workspace[w].stage = "create" /\ UNCHANGED <<entries, call>> /\ workspace[w].status # "running"
    BY <1>4 DEF CreateContainer, ShapeInv
  <2>1. CASE container' = [container EXCEPT ![Id(w)] = "created"]
             /\ Progress(w, "start", workspace[w].status)
    BY <1>0, <2>0, <2>1, OwnContainer DEF Progress
  <2>2. CASE Progress(w, "done", "error") /\ UNCHANGED container
    BY <1>3, <2>0, <2>2 DEF Exists
  <2>3. CASE container' = [container EXCEPT ![Id(w)] = "created"]
             /\ workspace' = [workspace EXCEPT ![w].stage = "start"]
    <3>1. workspace \in [Creations -> Workspace] /\ "start" \in Stage
      BY <1>0, PartsOfTypes DEF Stage
    <3>2. Progress(w, "start", workspace[w].status)
      BY <2>3, <3>1, StageEffect
    <3> QED
      BY <2>1, <2>3, <3>2
  <2>4. CASE End(w, "error") /\ UNCHANGED container
    <3>1. workspace \in [Creations -> Workspace] /\ "done" \in Stage /\ "error" \in Status
      BY <1>0, PartsOfTypes DEF Stage, Status
    <3>2. Progress(w, "done", "error")
      BY <2>4, <3>1, StageStatusEffect DEF End
    <3> QED
      BY <2>2, <2>4, <3>2
  <2> QED
    BY <1>4, <2>3, <2>4 DEF CreateContainer
<1>5. CASE StartContainer(w)
  <2>0. workspace[w].stage = "start" /\ UNCHANGED <<entries, call>>
    BY <1>5 DEF StartContainer
  <2>1. \A i \in Ids : Exists(i)' = Exists(i)
    BY <1>0, <1>5 DEF StartContainer, Exists
  <2>2. Alive(w)
    BY <2>0 DEF Alive
  <2> QED
    BY <1>3, <1>5, <2>0, <2>1, <2>2, CreateSteps
<1>6. CASE ConfigureSSH(w)
  <2>0. workspace[w].stage = "ssh" /\ UNCHANGED <<entries, call, container>>
    BY <1>6 DEF ConfigureSSH
  <2>1. \A i \in Ids : Exists(i)' = Exists(i)
    BY <2>0 DEF Exists
  <2>2. Alive(w)
    BY <2>0 DEF Alive
  <2> QED
    BY <1>3, <1>6, <2>0, <2>1, <2>2, CreateSteps
<1>7. CASE AbortCreate(w)
  <2>0. workspace[w].stage = "abort" /\ UNCHANGED <<entries, call>> /\ Progress(w, "done", "error")
    BY <1>7, CreateSteps DEF AbortCreate
  <2>1. CASE Destroy(Id(w))
    <3>1. container' = [container EXCEPT ![Id(w)] = "none"]
      BY <2>1 DEF Destroy
    <3> QED
      BY <1>0, <2>0, <3>1, OwnContainer DEF Progress
  <2>2. CASE UNCHANGED container
    <3>1. \A i \in Ids : Exists(i)' = Exists(i)
      BY <2>2 DEF Exists
    <3> QED
      BY <1>3, <2>0, <3>1
  <2> QED
    BY <1>7, <2>1, <2>2 DEF AbortCreate
<1>8. CASE FinishCreate(w)
  <2>0. workspace[w].stage = "finish" /\ UNCHANGED <<entries, call, container>>
        /\ Progress(w, "done", "running")
    BY <1>8, CreateSteps DEF FinishCreate
  <2>1. \A i \in Ids : Exists(i)' = Exists(i)
    BY <2>0 DEF Exists
  <2>2. Alive(w)
    BY <2>0 DEF Alive
  <2> QED
    BY <1>3, <2>0, <2>1, <2>2
<1> QED
  BY <1>1, <1>2, <1>4, <1>5, <1>6, <1>7, <1>8 DEF CreateWorkspace

\* A step that leaves every stage as it is, and the containers that exist.
LEMMA SteadyContainers ==
    ASSUME ShapeInv, ContainerInv, ~reuse, Steady,
           \A i \in Ids : Exists(i)' = Exists(i), UNCHANGED entries,
           \A k \in Callers, v \in Creations : Forgets(k, v)' = Forgets(k, v)
    PROVE  DistinctIds' /\ NotYet' /\ ForgottenOnce' /\ BoxesListed' /\ AliveHasContainer'
<1>1. \A v \in Creations : /\ workspace'[v].stage = workspace[v].stage
                           /\ Id(v)' = Id(v)
                           /\ Alive(v)' => Alive(v)
                           /\ workspace[v].stage # "idle" => Id(v) \in Ids
  BY DEF Steady, Id, Alive, ShapeInv
<1>2. \A v \in Creations : workspace[v].stage # "idle" => Exists(Id(v))' = Exists(Id(v))
  BY <1>1 DEF Exists
<1>3. \A k \in Callers, v \in Creations : Forgets(k, v) => workspace[v].stage # "idle"
  BY DEF ShapeInv, Forgets, Inserted
<1>4. \A v \in Creations : Alive(v) => workspace[v].stage # "idle"
  BY DEF Alive, ShapeInv
<1>5. DistinctIds'
  BY <1>1 DEF ContainerInv, DistinctIds
<1>6. NotYet'
  BY <1>1, <1>2 DEF ContainerInv, NotYet
<1>7. ForgottenOnce'
  BY <1>1, <1>2, <1>3 DEF ContainerInv, ForgottenOnce
<1>8. BoxesListed'
  BY DEF ContainerInv, BoxesListed
<1>9. AliveHasContainer'
  BY <1>1, <1>2, <1>4 DEF ContainerInv, AliveHasContainer
<1> QED
  BY <1>5, <1>6, <1>7, <1>8, <1>9

\* A delete that destroyed the container is the only one that did.
LEMMA DestroyContainers ==
    ASSUME ShapeInv, ContainerInv, ~DestroyIdempotent, ~reuse, NEW k \in Callers,
           OnlyCall(k), GoesOn(k, "destroy", "release"), Destroy(Id(call[k].ws)),
           UNCHANGED <<entries, workspace>>
    PROVE  DistinctIds' /\ NotYet' /\ ForgottenOnce' /\ BoxesListed' /\ AliveHasContainer'
<1> DEFINE w == call[k].ws
           i == Id(w)
<1>1. /\ w \in Creations /\ i \in Ids /\ workspace[w].stage # "idle"
      /\ \A v \in Creations : workspace[v].stage # "idle" => Id(v) \in Ids
  BY DEF ShapeInv, GoesOn, Inserted, Id
<1>2. container[i] # "none" /\ container' = [container EXCEPT ![i] = "none"]
      /\ container \in [Ids -> ContainerStates]
  BY PartsOfTypes DEF Destroy, Exists, ShapeInv
<1>3. container'[i] = "none" /\ \A j \in Ids : j # i => container'[j] = container[j]
  BY <1>1, <1>2
<1>4. /\ call'[k].ws = w /\ call'[k].stage = "release" /\ call[k].stage = "destroy"
      /\ \A j \in Callers : j # k => call'[j] = call[j]
  BY DEF OnlyCall, GoesOn
<1> HIDE DEF w, i
<1>5. \A v \in Creations : v # w /\ workspace[v].stage # "idle" => Id(v) # i
  BY <1>1 DEF ContainerInv, DistinctIds, i
<1>6. \A j \in Callers : ~Forgets(j, w)
  BY <1>1, <1>2 DEF ContainerInv, ForgottenOnce, Exists, i
<1>7. entries[i] = w
  <2>1. entries[i] # Nothing
    BY <1>1, <1>2 DEF ContainerInv, BoxesListed, Exists
  <2>2. entries[i] \in Creations /\ Id(entries[i]) = i /\ workspace[entries[i]].stage # "idle"
    BY <1>1, <2>1 DEF ShapeInv, Inserted
  <2> QED
    BY <1>5, <2>2
<1>8. workspace[w].stage \notin {"insert", "create"}
  BY <1>1, <1>2 DEF ContainerInv, NotYet, Exists, i
<1>9. \A j \in Callers, v \in Creations :
         Forgets(j, v)' <=> (Forgets(j, v) \/ (j = k /\ v = w))
  BY <1>4, <1>6 DEF Forgets
<1>10. \A j \in Callers, v \in Creations : Forgets(j, v) => v # w /\ workspace[v].stage # "idle"
  BY <1>6 DEF ShapeInv, Forgets, Inserted
<1>11. DistinctIds'
  BY DEF ContainerInv, DistinctIds, Id
<1>12. NotYet'
  BY <1>1, <1>3, <1>5, <1>8, <1>9 DEF ContainerInv, NotYet, Id, Exists
<1>13. ForgottenOnce'
  <2> SUFFICES ASSUME NEW j \in Callers, NEW v \in Creations, Forgets(j, v)'
               PROVE  /\ container'[Id(v)] = "none" /\ entries[Id(v)] = v
                      /\ \A l \in Callers \ {j} : ~Forgets(l, v)'
    BY DEF ForgottenOnce, Exists, Id
  <2>1. CASE Forgets(j, v)
    <3>1. ~Exists(Id(v)) /\ entries[Id(v)] = v /\ \A l \in Callers \ {j} : ~Forgets(l, v)
      BY <2>1 DEF ContainerInv, ForgottenOnce
    <3> QED
      BY <1>1, <1>3, <1>5, <1>9, <1>10, <2>1, <3>1 DEF Exists
  <2>2. CASE j = k /\ v = w
    BY <1>3, <1>6, <1>7, <1>9, <2>2 DEF i
  <2> QED
    BY <1>9, <2>1, <2>2
<1>14. BoxesListed'
  BY <1>3 DEF ContainerInv, BoxesListed, Exists
<1>15. AliveHasContainer'
  <2> SUFFICES ASSUME NEW v \in Creations, Alive(v), entries[Id(v)] = v,
                      \A j \in Callers : ~Forgets(j, v)'
               PROVE  container'[Id(v)] # "none"
    BY DEF AliveHasContainer, Exists, Id, Alive
  <2>1. v # w /\ \A j \in Callers : ~Forgets(j, v)
    BY <1>9
  <2>2. Exists(Id(v)) /\ workspace[v].stage # "idle"
    BY <2>1 DEF ContainerInv, AliveHasContainer, Alive, ShapeInv
  <2> QED
    BY <1>1, <1>3, <1>5, <2>1, <2>2 DEF Exists
<1> QED
  BY <1>11, <1>12, <1>13, <1>14, <1>15

\* The entry goes last.
LEMMA RemoveContainers ==
    ASSUME ShapeInv, ContainerInv, ~reuse, NEW k \in Callers, RemoveEntry(k)
    PROVE  DistinctIds' /\ NotYet' /\ ForgottenOnce' /\ BoxesListed' /\ AliveHasContainer'
<1> DEFINE w == call[k].ws
           i == Id(w)
<1>0. TypeOK /\ OnlyCall(k) /\ Returns(k, "remove") /\ UNCHANGED <<workspace, container>>
  BY CallSteps DEF ShapeInv, RemoveEntry
<1>1. /\ w \in Creations /\ i \in Ids /\ workspace[w].stage # "idle" /\ Forgets(k, w)
      /\ \A v \in Creations : workspace[v].stage # "idle" => Id(v) \in Ids
  BY <1>0 DEF ShapeInv, Returns, Inserted, Id, Forgets
<1>2. entries' = [entries EXCEPT ![i] = Nothing] /\ entries \in [Ids -> Creations \cup {Nothing}]
  BY <1>0, PartsOfTypes DEF RemoveEntry
<1> HIDE DEF w, i
<1>3. entries'[i] = Nothing /\ \A j \in Ids : j # i => entries'[j] = entries[j]
  BY <1>1, <1>2
<1>4. \A v \in Creations : v # w /\ workspace[v].stage # "idle" => Id(v) # i
  BY <1>1 DEF ContainerInv, DistinctIds, i
<1>5. ~Exists(i) /\ \A j \in Callers \ {k} : ~Forgets(j, w)
  BY <1>1 DEF ContainerInv, ForgottenOnce, i
<1>6. \A j \in Callers, v \in Creations : Forgets(j, v)' <=> (Forgets(j, v) /\ j # k)
  BY <1>0 DEF OnlyCall, Returns, Forgets
<1>7. \A v \in Creations : Forgets(k, v) => v = w
  BY DEF Forgets, w
<1>8. \A j \in Callers, v \in Creations : Forgets(j, v) => workspace[v].stage # "idle"
  BY DEF ShapeInv, Forgets, Inserted
<1>9. DistinctIds'
  BY <1>0 DEF ContainerInv, DistinctIds, Id
<1>10. NotYet'
  <2> SUFFICES ASSUME NEW v \in Creations, workspace[v].stage \in {"insert", "create"}
               PROVE  /\ container[Id(v)] = "none" /\ \A j \in Callers : ~Forgets(j, v)'
                      /\ workspace[v].stage = "create" => entries'[Id(v)] = v
    BY <1>0 DEF NotYet, Exists, Id
  <2>1. ~Exists(Id(v)) /\ (\A j \in Callers : ~Forgets(j, v))
        /\ (workspace[v].stage = "create" => entries[Id(v)] = v)
    BY DEF ContainerInv, NotYet
  <2>2. v # w
    BY <1>1, <2>1
  <2> QED
    BY <1>1, <1>3, <1>4, <1>6, <2>1, <2>2 DEF Exists
<1>11. ForgottenOnce'
  <2> SUFFICES ASSUME NEW j \in Callers, NEW v \in Creations, Forgets(j, v), j # k
               PROVE  /\ container[Id(v)] = "none" /\ entries'[Id(v)] = v
                      /\ \A l \in Callers \ {j} : ~Forgets(l, v)'
    BY <1>0, <1>6 DEF ForgottenOnce, Exists, Id
  <2>1. ~Exists(Id(v)) /\ entries[Id(v)] = v /\ \A l \in Callers \ {j} : ~Forgets(l, v)
    BY DEF ContainerInv, ForgottenOnce
  <2>2. v # w /\ workspace[v].stage # "idle"
    BY <1>5, <1>8
  <2> QED
    BY <1>1, <1>3, <1>4, <1>6, <2>1, <2>2 DEF Exists
<1>12. BoxesListed'
  BY <1>0, <1>3, <1>5 DEF ContainerInv, BoxesListed, Exists
<1>13. AliveHasContainer'
  <2> SUFFICES ASSUME NEW v \in Creations, Alive(v), entries'[Id(v)] = v,
                      \A j \in Callers : ~Forgets(j, v)'
               PROVE  container[Id(v)] # "none"
    BY <1>0 DEF AliveHasContainer, Exists, Id, Alive
  <2>1. workspace[v].stage # "idle" /\ v # Nothing
    BY NothingAssumption DEF Alive, ShapeInv
  <2>2. Id(v) # i /\ entries[Id(v)] = v
    BY <1>1, <1>3, <2>1
  <2>3. v # w
    BY <2>2 DEF i
  <2>4. \A j \in Callers : ~Forgets(j, v)
    BY <1>6, <1>7, <2>3
  <2> QED
    BY <2>2, <2>4 DEF ContainerInv, AliveHasContainer, Exists
<1> QED
  BY <1>9, <1>10, <1>11, <1>12, <1>13

\* ... and by the steps of stops and deletes.
LEMMA CallContainers ==
    ASSUME ShapeInv, ContainerInv, ~DestroyIdempotent, ~reuse, NEW k \in Callers,
           StopWorkspace(k) \/ DeleteWorkspace(k), UNCHANGED reuse
    PROVE  DistinctIds' /\ NotYet' /\ ForgottenOnce' /\ BoxesListed' /\ AliveHasContainer'
<1>0. TypeOK /\ Steady /\ container \in [Ids -> ContainerStates]
  BY CallsShape, PartsOfTypes DEF ShapeInv
<1>1. ASSUME OnlyCall(k), call[k].stage \notin {"release", "remove"},
             call'[k].stage \notin {"release", "remove"}
      PROVE  \A j \in Callers, v \in Creations : Forgets(j, v)' = Forgets(j, v)
  BY <1>1 DEF OnlyCall, Forgets
<1>2. CASE BeginStop(k) \/ BeginDelete(k)
  <2>1. UNCHANGED <<entries, container>>
    BY <1>2 DEF BeginStop, BeginDelete, Lookup
  <2>2. OnlyCall(k) /\ call[k].stage = "idle" /\ call'[k].stage \in {"mark", "destroy"}
    BY <1>0, <1>2, CallSteps DEF Begins
  <2>3. \A j \in Callers, v \in Creations : Forgets(j, v)' = Forgets(j, v)
    BY <1>1, <2>2
  <2>4. \A i \in Ids : Exists(i)' = Exists(i)
    BY <2>1 DEF Exists
  <2> QED
    BY <1>0, <2>1, <2>3, <2>4, SteadyContainers
<1>3. CASE MarkStopped(k)
  <2>1. UNCHANGED <<entries, container>>
    BY <1>3 DEF MarkStopped
  <2>2. OnlyCall(k) /\ GoesOn(k, "mark", "stop")
    BY <1>0, <1>3, CallSteps
  <2>3. \A j \in Callers, v \in Creations : Forgets(j, v)' = Forgets(j, v)
    BY <1>1, <2>2 DEF GoesOn
  <2>4. \A i \in Ids : Exists(i)' = Exists(i)
    BY <2>1 DEF Exists
  <2> QED
    BY <1>0, <2>1, <2>3, <2>4, SteadyContainers
<1>4. CASE StopContainer(k)
  <2>1. UNCHANGED entries
    BY <1>4 DEF StopContainer
  <2>2. OnlyCall(k) /\ Returns(k, "stop")
    BY <1>0, <1>4, CallSteps
  <2>3. \A j \in Callers, v \in Creations : Forgets(j, v)' = Forgets(j, v)
    BY <1>1, <2>2 DEF Returns
  <2>4. \A i \in Ids : Exists(i)' = Exists(i)
    BY <1>0, <1>4 DEF StopContainer, Exists
  <2> QED
    BY <1>0, <2>1, <2>3, <2>4, SteadyContainers
<1>5. CASE DestroyContainer(k)
  <2>1. UNCHANGED <<entries, workspace>>
    BY <1>5 DEF DestroyContainer
  <2>2. CASE Destroy(Id(call[k].ws)) /\ GoesOn(k, "destroy", "release")
    BY <1>0, <1>5, <2>1, <2>2, CallSteps, DestroyContainers
  <2>3. CASE Returns(k, "destroy") /\ UNCHANGED container
    <3>1. \A j \in Callers, v \in Creations : Forgets(j, v)' = Forgets(j, v)
      BY <1>0, <1>1, <1>5, <2>3, CallSteps DEF Returns
    <3>2. \A i \in Ids : Exists(i)' = Exists(i)
      BY <2>3 DEF Exists
    <3> QED
      BY <1>0, <2>1, <3>1, <3>2, SteadyContainers
  <2> QED
    BY <1>0, <1>5, <2>2, <2>3, CallSteps
<1>6. CASE ReleasePorts(k)
  <2>1. UNCHANGED <<entries, container>>
    BY <1>6 DEF ReleasePorts
  <2>2. OnlyCall(k) /\ GoesOn(k, "release", "remove")
    BY <1>0, <1>6, CallSteps
  <2>3. \A j \in Callers, v \in Creations : Forgets(j, v)' = Forgets(j, v)
    BY <2>2 DEF OnlyCall, GoesOn, Forgets
  <2>4. \A i \in Ids : Exists(i)' = Exists(i)
    BY <2>1 DEF Exists
  <2> QED
    BY <1>0, <2>1, <2>3, <2>4, SteadyContainers
<1>7. CASE RemoveEntry(k)
  BY <1>7, RemoveContainers
<1> QED
  BY <1>2, <1>3, <1>4, <1>5, <1>6, <1>7 DEF StopWorkspace, DeleteWorkspace

\* In every behaviour the containers are as ContainerInv says.
LEMMA ContainerInvHolds == ASSUME ~DestroyIdempotent PROVE Spec => []ContainerInv
<1>1. Init => ContainerInv
  BY DEF Init, ContainerInv, DistinctIds, NotYet, ForgottenOnce, BoxesListed, AliveHasContainer,
         Forgets, Alive, Exists, IdleCall
<1>2. ShapeInv /\ ContainerInv /\ [Next]_vars => ContainerInv'
  <2> SUFFICES ASSUME ShapeInv, ContainerInv, [Next]_vars, ~reuse'
               PROVE  DistinctIds' /\ NotYet' /\ ForgottenOnce' /\ BoxesListed' /\ AliveHasContainer'
    BY DEF ContainerInv
  <2>0. ~reuse /\ UNCHANGED reuse
    BY DEF Next, vars
  <2> DEFINE G == DistinctIds' /\ NotYet' /\ ForgottenOnce' /\ BoxesListed' /\ AliveHasContainer'
  <2>1. ASSUME NEW w \in Creations, CreateWorkspace(w) PROVE G
    BY <2>0, <2>1, CreateContainers
  <2>2. ASSUME NEW s \in Starters, StartServices(s) PROVE G
    <3>1. Steady
      BY <2>0, <2>2, ServicesShape
    <3>2. UNCHANGED <<entries, container, call>>
      BY <2>2 DEF StartServices, BeginServices, AllocateService, StoreService, EndServices
    <3>3. \A i \in Ids : Exists(i)' = Exists(i)
      BY <3>2 DEF Exists
    <3>4. \A j \in Callers, v \in Creations : Forgets(j, v)' = Forgets(j, v)
      BY <3>2 DEF Forgets
    <3> QED
      BY <2>0, <3>1, <3>2, <3>3, <3>4, SteadyContainers
  <2>3. ASSUME NEW k \in Callers, StopWorkspace(k) \/ DeleteWorkspace(k) PROVE G
    BY <2>0, <2>3, CallContainers
  <2>4. CASE UNCHANGED vars
    <3>1. Steady /\ UNCHANGED <<entries, container, call>>
      BY <2>4, UnchangedIsSteady DEF vars, ShapeInv
    <3>2. \A i \in Ids : Exists(i)' = Exists(i)
      BY <3>1 DEF Exists
    <3>3. \A j \in Callers, v \in Creations : Forgets(j, v)' = Forgets(j, v)
      BY <3>1 DEF Forgets
    <3> QED
      BY <2>0, <3>1, <3>2, <3>3, SteadyContainers
  <2> QED
    BY <2>1, <2>2, <2>3, <2>4 DEF Next
<1> QED
  BY <1>1, <1>2, ShapeInvHolds, PTL DEF Spec

\* Where destroying a container that is gone is an error and no identifier is
\* reused, no container is lost: the map has a workspace of its identifier
\* (workspace_manager.go:75-157, 184-233).
THEOREM NoContainerLost == ASSUME ~DestroyIdempotent PROVE Spec => []ContainersListed
<1>1. ContainerInv => ContainersListed
  BY DEF ContainerInv, BoxesListed, ContainersListed
<1> QED
  BY <1>1, ContainerInvHolds, PTL

\* There, a workspace that is reported running has its container until a
\* delete destroyed it (workspace_manager.go:116-157, 184-233).
THEOREM RunningIsBacked == ASSUME ~DestroyIdempotent PROVE Spec => []RunningHasContainer
<1>1. ContainerInv => RunningHasContainer
  BY DEF ContainerInv, AliveHasContainer, RunningHasContainer, Alive, Forgets
<1> QED
  BY <1>1, ContainerInvHolds, PTL

-----------------------------------------------------------------------------
(* Host ports.  A workspace holds its ports while a call may still release *)
(* them: from the allocation of the first until the entry is overwritten   *)
(* or a delete has released them; and, where identifiers are reused, while *)
(* a call has the workspace, whatever the map says.                        *)

Holds(w) ==
    \/ workspace[w].stage = "insert"
    \/ /\ Inserted(w) /\ entries[Id(w)] = w
       /\ \A k \in Callers : ~ (call[k].ws = w /\ call[k].stage = "remove")
    \/ /\ reuse
       /\ \E k \in Callers :
             call[k].ws = w /\ call[k].stage \in {"mark", "stop", "destroy", "release"}

Held == {w \in Creations : Holds(w)}

\* Clients that reuse identifiers stop and delete one at a time.
OneCall ==
    reuse => \A j, k \in Callers : call[j].stage # "idle" /\ call[k].stage # "idle" => j = k

HeldAllocated == \A w \in Held : PortsOf(w) \subseteq allocated

HeldDisjoint == \A v, w \in Held : v # w => PortsOf(v) \cap PortsOf(w) = {}

Storing(s) == starter[s].svc # Nothing

StoringApart ==
    \A s \in Starters : Storing(s) =>
        /\ starter[s].port \in allocated
        /\ \A w \in Held : starter[s].port \notin PortsOf(w)
        /\ \A t \in Starters \ {s} : Storing(t) => starter[t].port # starter[s].port

PortInv == HeldAllocated /\ HeldDisjoint /\ StoringApart

\* The ports of a workspace are its own and those of its services.
LEMMA PortsOfIs ==
    \A p : \A w \in Creations :
        p \in PortsOf(w) <=>
            \/ p = workspace[w].port
            \/ p # 0 /\ \E s \in Services : p = workspace[w].services[s]
  BY DEF PortsOf

\* Who may still release a port has one.
LEMMA HeldShape ==
    ASSUME ShapeInv, NEW w \in Held
    PROVE  w \in Creations /\ workspace[w].stage # "idle" /\ workspace[w].port \in SSHPorts
<1>1. w \in Creations /\ Holds(w)
  BY DEF Held
<1>2. workspace[w].stage # "idle"
  BY <1>1 DEF ShapeInv, Holds, Inserted
<1> QED
  BY <1>1, <1>2 DEF ShapeInv

\* A step after which no workspace holds more than before.
LEMMA PortsKept ==
    ASSUME PortInv, Held' \subseteq Held, UNCHANGED allocated,
           \A w \in Held' : PortsOf(w)' = PortsOf(w),
           \A s \in Starters : Storing(s)' => Storing(s) /\ starter'[s].port = starter[s].port
    PROVE  PortInv'
<1>1. HeldAllocated'
  BY DEF PortInv, HeldAllocated
<1>2. HeldDisjoint'
  BY DEF PortInv, HeldDisjoint
<1>3. StoringApart'
  BY DEF PortInv, StoringApart
<1> QED
  BY <1>1, <1>2, <1>3 DEF PortInv

\* PortInv is kept by a creation that allocates its port, ...
LEMMA AllocatePorts ==
    ASSUME ShapeInv, PortInv, NEW w \in Creations, AllocateSSH(w), UNCHANGED reuse
    PROVE  PortInv'
<1>1. TypeOK /\ workspace[w].stage = "idle" /\ UNCHANGED <<entries, call, starter>>
  BY DEF ShapeInv, AllocateSSH
<1>2. /\ \A v \in Creations \ {w} : workspace'[v] = workspace[v]
      /\ workspace'[w].stage = "insert"
      /\ workspace'[w].services = workspace[w].services
      /\ workspace'[w].port \in SSHPorts \ allocated
      /\ allocated' = allocated \cup {workspace'[w].port}
  BY <1>1, AllocateEffect DEF OnlyOf
<1>3. workspace[w].services = NoService
  BY <1>1 DEF ShapeInv
<1>4. \A p : p \in PortsOf(w)' <=> p = workspace'[w].port
  BY <1>2, <1>3 DEF PortsOf, NoService
<1>5. \A v \in Creations \ {w} : PortsOf(v)' = PortsOf(v) /\ Holds(v)' = Holds(v)
  BY <1>1, <1>2 DEF PortsOf, Holds, Inserted, Id
<1>6. \A v \in Held' : v # w => v \in Held
  BY <1>5 DEF Held
<1>7. \A v \in Held' : v \in Creations
  BY DEF Held
<1> DEFINE q == workspace'[w].port
<1>8. q \notin allocated /\ allocated' = allocated \cup {q} /\ \A p : p \in PortsOf(w)' <=> p = q
  BY <1>2, <1>4
<1> HIDE DEF q
<1>9. HeldAllocated'
  BY <1>5, <1>6, <1>7, <1>8 DEF PortInv, HeldAllocated
<1>10. HeldDisjoint'
  <2> SUFFICES ASSUME NEW u \in Held', NEW v \in Held', u # v, NEW p \in PortsOf(u)', p \in PortsOf(v)'
               PROVE  FALSE
    BY DEF HeldDisjoint
  <2>1. CASE u # w /\ v # w
    BY <1>5, <1>6, <1>7, <2>1 DEF PortInv, HeldDisjoint
  <2>2. CASE u = w \/ v = w
    BY <1>5, <1>6, <1>7, <1>8, <2>2 DEF PortInv, HeldAllocated
  <2> QED
    BY <2>1, <2>2
<1>11. StoringApart'
  <2>1. \A s \in Starters : Storing(s)' = Storing(s) /\ starter'[s].port = starter[s].port
    BY <1>1 DEF Storing
  <2> QED
    BY <1>5, <1>6, <1>7, <1>8, <2>1 DEF PortInv, StoringApart
<1> QED
  BY <1>9, <1>10, <1>11 DEF PortInv

\* ... by a start of services that allocates one, ...
LEMMA AllocateServicePorts ==
    ASSUME ShapeInv, PortInv, NEW s \in Starters, AllocateService(s), UNCHANGED reuse
    PROVE  PortInv'
<1>1. TypeOK /\ UNCHANGED <<entries, workspace, call>>
  BY DEF ShapeInv, AllocateService
<1>2. /\ JobStep(s) /\ starter'[s].ws = starter[s].ws /\ starter[s].svc = Nothing
      /\ \/ /\ starter'[s].svc = Nothing /\ UNCHANGED allocated
         \/ /\ starter'[s].svc # Nothing
            /\ starter'[s].port \in ServicePorts \ allocated
            /\ allocated' = allocated \cup {starter'[s].port}
  BY <1>1, AllocateServiceEffect
<1>3. Held' = Held /\ \A w : PortsOf(w)' = PortsOf(w)
  BY <1>1 DEF Held, Holds, Inserted, Id, PortsOf
<1>4. \A t \in Starters : t # s => Storing(t)' = Storing(t) /\ starter'[t].port = starter[t].port
  BY <1>2 DEF JobStep, Storing
<1>5. CASE starter'[s].svc = Nothing /\ UNCHANGED allocated
  <2>1. \A t \in Starters : Storing(t)' => Storing(t) /\ starter'[t].port = starter[t].port
    BY <1>4, <1>5 DEF Storing
  <2> QED
    BY <1>3, <1>5, <2>1, PortsKept
<1>6. CASE /\ starter'[s].port \in ServicePorts \ allocated
           /\ allocated' = allocated \cup {starter'[s].port}
  <2> DEFINE q == starter'[s].port
  <2>1. q \notin allocated /\ allocated' = allocated \cup {q} /\ starter'[s].port = q
    BY <1>6
  <2> HIDE DEF q
  <2>2. HeldAllocated' /\ HeldDisjoint'
    BY <1>3, <2>1 DEF PortInv, HeldAllocated, HeldDisjoint
  <2>3. StoringApart'
    BY <1>3, <1>4, <2>1 DEF PortInv, HeldAllocated, StoringApart
  <2> QED
    BY <2>2, <2>3 DEF PortInv
<1> QED
  BY <1>2, <1>5, <1>6

\* ... and by one that stores it.
LEMMA StorePorts ==
    ASSUME ShapeInv, PortInv, NEW s \in Starters, StoreService(s), UNCHANGED reuse
    PROVE  PortInv'
<1>1. TypeOK /\ UNCHANGED <<entries, allocated, call>>
  BY DEF ShapeInv, StoreService
<1>2. /\ JobStep(s) /\ starter[s].svc # Nothing /\ starter'[s].svc = Nothing
  BY <1>1, StoreServiceEffect
<1>3. PICK w \in Creations, q \in ServicePorts : w = starter[s].ws /\ q = starter[s].port
  BY <1>1, <1>2, PartsOfTypes DEF ShapeInv, JobInv, Job
<1>4. /\ \A v \in Creations \ {w} : workspace'[v] = workspace[v]
      /\ workspace'[w].stage = workspace[w].stage /\ workspace'[w].id = workspace[w].id
      /\ workspace'[w].port = workspace[w].port
      /\ \A v \in Services : workspace'[w].services[v] \in {workspace[w].services[v], q}
  BY <1>1, <1>3, StoreEffect
<1>5. q \in allocated /\ \A v \in Held : q \notin PortsOf(v)
  BY <1>2, <1>3 DEF PortInv, StoringApart, Storing
<1>6. \A t \in Starters \ {s} : Storing(t) => starter[t].port # q
  BY <1>2, <1>3 DEF PortInv, StoringApart, Storing
<1>7. Held' = Held
  BY <1>1, <1>3, <1>4 DEF Held, Holds, Inserted, Id
<1>8. /\ \A v \in Creations : v # w => PortsOf(v)' = PortsOf(v)
      /\ \A p : p \in PortsOf(w)' => p \in PortsOf(w) \/ p = q
  BY <1>4 DEF PortsOf
<1>9. \A v \in Held : v \in Creations
  BY DEF Held
<1>10. \A t \in Starters : Storing(t)' => t # s /\ Storing(t) /\ starter'[t].port = starter[t].port
  BY <1>2 DEF JobStep, Storing
<1>11. HeldAllocated'
  BY <1>1, <1>5, <1>7, <1>8, <1>9 DEF PortInv, HeldAllocated
<1>12. HeldDisjoint'
  <2> SUFFICES ASSUME NEW u \in Held, NEW v \in Held, u # v, NEW p, p \in PortsOf(u)', p \in PortsOf(v)'
               PROVE  FALSE
    BY <1>7 DEF HeldDisjoint
  <2>1. p \in PortsOf(u) \/ (u = w /\ p = q)
    BY <1>8, <1>9
  <2>2. p \in PortsOf(v) \/ (v = w /\ p = q)
    BY <1>8, <1>9
  <2> QED
    BY <1>5, <2>1, <2>2 DEF PortInv, HeldDisjoint
<1>13. StoringApart'
  <2> SUFFICES ASSUME NEW t \in Starters, Storing(t)'
               PROVE  /\ starter'[t].port \in allocated
                      /\ \A v \in Held : starter'[t].port \notin PortsOf(v)'
                      /\ \A r \in Starters \ {t} : Storing(r)' => starter'[r].port # starter'[t].port
    BY <1>1, <1>7 DEF StoringApart
  <2>1. t # s /\ Storing(t) /\ starter'[t].port = starter[t].port /\ starter[t].port # q
    BY <1>6, <1>10
  <2>2. /\ starter[t].port \in allocated /\ \A v \in Held : starter[t].port \notin PortsOf(v)
        /\ \A r \in Starters \ {t} : Storing(r) => starter[r].port # starter[t].port
    BY <2>1 DEF PortInv, StoringApart
  <2> QED
    BY <1>8, <1>9, <1>10, <2>1, <2>2
<1> QED
  BY <1>11, <1>12, <1>13 DEF PortInv

\* The steps of a creation after the first leave the ports alone.
LEMMA CreatePorts ==
    ASSUME ShapeInv, PortInv, NEW w \in Creations, CreateWorkspace(w), ~AllocateSSH(w),
           UNCHANGED reuse
    PROVE  PortInv'
<1>1. TypeOK /\ UNCHANGED <<allocated, call, starter>>
  BY DEF ShapeInv, CreateWorkspace, InsertEntry, CreateContainer, StartContainer,
         ConfigureSSH, AbortCreate, FinishCreate
<1>2. \E st, x : Progress(w, st, x) /\ st \notin {"idle", "insert"}
  BY CreateSteps DEF CreateWorkspace
<1>3. /\ \A v \in Creations \ {w} : workspace'[v] = workspace[v]
      /\ workspace'[w].services = workspace[w].services
      /\ workspace'[w].id = workspace[w].id /\ workspace'[w].port = workspace[w].port
      /\ workspace'[w].stage \notin {"idle", "insert"}
  BY <1>2 DEF Progress, OnlyOf
<1>4. \A v \in Creations : PortsOf(v)' = PortsOf(v) /\ Id(v)' = Id(v)
  BY <1>3 DEF PortsOf, Id
<1>5. \/ Inserted(w) /\ UNCHANGED entries
      \/ workspace[w].stage = "insert" /\ entries' = [entries EXCEPT ![Id(w)] = w]
  BY DEF CreateWorkspace, InsertEntry, CreateContainer, StartContainer,
         ConfigureSSH, AbortCreate, FinishCreate, Inserted
<1>6. /\ entries \in [Ids -> Creations \cup {Nothing}]
      /\ \A v \in Creations : Inserted(v) => Id(v) \in Ids
  BY <1>1, PartsOfTypes DEF ShapeInv, Inserted, Id
<1>7. ASSUME NEW v \in Creations, Holds(v)'
      PROVE  Holds(v)
  <2>1. CASE v = w
    BY <1>1, <1>3, <1>4, <1>5, <1>7, <2>1 DEF Holds, Inserted
  <2>2. CASE v # w
    <3>1. workspace'[v] = workspace[v]
      BY <1>3, <2>2
    <3>2. entries'[Id(v)] = v /\ Inserted(v) => entries[Id(v)] = v
      BY <1>5, <1>6, <2>2
    <3> QED
      BY <1>1, <1>4, <1>7, <3>1, <3>2 DEF Holds, Inserted
  <2> QED
    BY <2>1, <2>2
<1>8. Held' \subseteq Held /\ \A v \in Held' : PortsOf(v)' = PortsOf(v)
  BY <1>4, <1>7 DEF Held
<1>9. \A s \in Starters : Storing(s)' => Storing(s) /\ starter'[s].port = starter[s].port
  BY <1>1 DEF Storing
<1> QED
  BY <1>1, <1>8, <1>9, PortsKept

\* A call that begins takes a workspace of the map.
LEMMA OneCallStays ==
    ASSUME ShapeInv, OneCall, ~Overlapping, NEW k \in Callers,
           StopWorkspace(k) \/ DeleteWorkspace(k), UNCHANGED reuse
    PROVE  OneCall'
<1>1. TypeOK
  BY DEF ShapeInv
<1>2. CASE BeginStop(k) \/ BeginDelete(k)
  <2>1. OnlyCall(k) /\ (reuse => \A j \in Callers : call[j].stage = "idle")
    BY <1>1, <1>2, CallSteps DEF BeginStop, BeginDelete, Lookup
  <2> QED
    BY <2>1 DEF OneCall, OnlyCall
<1>3. CASE ~ (BeginStop(k) \/ BeginDelete(k))
  <2>1. OnlyCall(k) /\ call[k].stage # "idle"
    BY <1>1, <1>3, CallSteps DEF StopWorkspace, DeleteWorkspace, GoesOn, Returns
  <2> QED
    BY <2>1 DEF OneCall, OnlyCall
<1> QED
  BY <1>2, <1>3

\* The workspaces that a call which releases nothing leaves held.
LEMMA HeldByCalls ==
    ASSUME ShapeInv, OneCall, ~Overlapping, NEW k \in Callers,
           StopWorkspace(k) \/ DeleteWorkspace(k), ~ReleasePorts(k), UNCHANGED reuse
    PROVE  Held' \subseteq Held
<1>1. TypeOK
  BY DEF ShapeInv
<1>2. Steady /\ OnlyCall(k)
  BY <1>1, CallsShape, CallSteps DEF StopWorkspace, DeleteWorkspace
<1>3. \A v \in Creations : workspace'[v].stage = workspace[v].stage /\ Id(v)' = Id(v)
  BY <1>2 DEF Steady, Id
<1> SUFFICES ASSUME NEW v \in Creations, Holds(v)' PROVE Holds(v)
  BY DEF Held
<1>4. CASE BeginStop(k) \/ BeginDelete(k)
  <2>1. /\ call[k].stage = "idle" /\ call'[k].stage \in {"mark", "destroy"}
        /\ \E i \in Ids : entries[i] # Nothing /\ call'[k].ws = entries[i]
        /\ UNCHANGED entries
        /\ reuse => \A j \in Callers : call[j].stage = "idle"
    BY <1>1, <1>4, CallSteps DEF Begins, BeginStop, BeginDelete, Lookup
  <2>2. \A j \in Callers : j # k => call'[j] = call[j]
    BY <1>2 DEF OnlyCall
  <2>3. CASE reuse /\ call'[k].ws = v
    <3>1. Inserted(v) /\ entries[Id(v)] = v
      BY <2>1, <2>3 DEF ShapeInv
    <3> QED
      BY <2>1, <2>3, <3>1 DEF Holds
  <2>4. CASE ~ (reuse /\ call'[k].ws = v)
    <3>1. \A j \in Callers : call[j].ws = v /\ call[j].stage = "remove" =>
             call'[j].ws = v /\ call'[j].stage = "remove"
      BY <2>1, <2>2
    <3>2. reuse => \A j \in Callers : call'[j].ws = v => call[j] = call'[j]
      BY <2>2, <2>4
    <3> QED
      BY <1>3, <2>1, <3>1, <3>2 DEF Holds, Inserted
  <2> QED
    BY <2>3, <2>4
<1>5. CASE MarkStopped(k) \/ StopContainer(k) \/ DestroyContainer(k)
  <2>1. /\ call[k].stage \in {"mark", "stop", "destroy"} /\ UNCHANGED entries
        /\ \/ call'[k].ws = call[k].ws /\ call'[k].stage \in {"stop", "release"}
           \/ call'[k].stage = "idle"
    BY <1>1, <1>5, CallSteps DEF GoesOn, Returns, MarkStopped, StopContainer, DestroyContainer
  <2>2. \A j \in Callers : j # k => call'[j] = call[j]
    BY <1>2 DEF OnlyCall
  <2>3. \A j \in Callers : call[j].ws = v /\ call[j].stage = "remove" =>
           call'[j].ws = v /\ call'[j].stage = "remove"
    BY <2>1, <2>2
  <2>4. \A j \in Callers : call'[j].ws = v /\ call'[j].stage \in {"mark", "stop", "destroy", "release"} =>
           call[j].ws = v /\ call[j].stage \in {"mark", "stop", "destroy", "release"}
    BY <2>1, <2>2
  <2> QED
    BY <1>3, <2>1, <2>3, <2>4 DEF Holds, Inserted
<1>6. CASE RemoveEntry(k)
  <2>1. /\ call[k].stage = "remove" /\ call'[k].stage = "idle"
        /\ entries' = [entries EXCEPT ![Id(call[k].ws)] = Nothing]
        /\ entries \in [Ids -> Creations \cup {Nothing}]
    BY <1>1, <1>6, CallSteps, PartsOfTypes DEF Returns, RemoveEntry
  <2>2. \A j \in Callers : j # k => call'[j] = call[j]
    BY <1>2 DEF OnlyCall
  <2>3. \A j \in Callers : call'[j].stage # "idle" => call[j] = call'[j]
    BY <2>1, <2>2
  <2>4. ASSUME Inserted(v), entries'[Id(v)] = v
        PROVE  entries[Id(v)] = v /\ v # call[k].ws
    <3>1. Id(v) \in Ids /\ v # Nothing
      BY <2>4, NothingAssumption DEF ShapeInv, Inserted, Id
    <3> QED
      BY <2>1, <2>4, <3>1
  <2>5. ASSUME v # call[k].ws, NEW j \in Callers, call[j].ws = v, call[j].stage = "remove"
        PROVE  call'[j].ws = v /\ call'[j].stage = "remove"
    BY <2>2, <2>5
  <2> QED
    BY <1>3, <2>3, <2>4, <2>5 DEF Holds, Inserted
<1> QED
  BY <1>4, <1>5, <1>6 DEF StopWorkspace, DeleteWorkspace

\* A delete that releases ports holds them, and nobody else does.
LEMMA ReleaseKeepsPorts ==
    ASSUME ShapeInv, ContainerInv, OneCall, PortInv, NEW k \in Callers, ReleasePorts(k),
           UNCHANGED reuse
    PROVE  PortInv'
<1>1. /\ TypeOK /\ UNCHANGED <<entries, workspace, container, starter>>
      /\ OnlyCall(k) /\ GoesOn(k, "release", "remove")
  BY CallSteps DEF ShapeInv, ReleasePorts
<1>2. PICK w \in Creations : w = call[k].ws
  BY <1>1 DEF ShapeInv, GoesOn
<1>3. /\ Inserted(w) /\ Id(w) \in Ids /\ call[k].stage = "release"
      /\ call'[k].stage = "remove" /\ call'[k].ws = w
      /\ \A j \in Callers : j # k => call'[j] = call[j]
  BY <1>1, <1>2 DEF ShapeInv, GoesOn, Inserted, OnlyCall, Id
<1>4. w \in Held
  <2>1. CASE reuse
    BY <1>2, <1>3, <2>1 DEF Held, Holds
  <2>2. CASE ~reuse
    <3>1. Forgets(k, w)
      BY <1>2, <1>3 DEF Forgets
    <3>2. entries[Id(w)] = w /\ \A j \in Callers \ {k} : ~Forgets(j, w)
      BY <2>2, <3>1 DEF ContainerInv, ForgottenOnce
    <3> QED
      BY <1>3, <3>2 DEF Held, Holds, Forgets
  <2> QED
    BY <2>1, <2>2
<1>5. w \notin Held'
  <2>1. ~ Holds(w)'
    BY <1>1, <1>2, <1>3 DEF Holds, Inserted, OneCall
  <2> QED
    BY <2>1 DEF Held
<1>6. Held' \subseteq Held
  <2> SUFFICES ASSUME NEW v \in Creations, Holds(v)', v # w PROVE Holds(v)
    BY <1>5 DEF Held
  <2>1. \A j \in Callers : call'[j].ws = v => call[j] = call'[j]
    BY <1>3
  <2>2. \A j \in Callers : call[j].ws = v => call[j] = call'[j]
    BY <1>2, <1>3
  <2> QED
    BY <1>1, <2>1, <2>2 DEF Holds, Inserted, Id
<1>7. \A v \in Creations : PortsOf(v)' = PortsOf(v)
  BY <1>1 DEF PortsOf
<1>8. allocated' = allocated \ ({workspace[w].port} \cup {workspace[w].services[s] : s \in Services})
  BY <1>2 DEF ReleasePorts
<1>9. \A p \in allocated : p # 0 /\ p \notin PortsOf(w) => p \in allocated'
  BY <1>8 DEF PortsOf
<1>10. \A v \in Held : /\ v \in Creations
                       /\ 0 \notin PortsOf(v)
  <2> SUFFICES ASSUME NEW v \in Held PROVE v \in Creations /\ 0 \notin PortsOf(v)
    OBVIOUS
  <2>1. v \in Creations /\ workspace[v].port \in SSHPorts
    BY HeldShape
  <2>2. workspace[v].port # 0
    BY <2>1, PortsAssumption
  <2> QED
    BY <2>1, <2>2 DEF PortsOf
<1>11. HeldAllocated'
  <2> SUFFICES ASSUME NEW v \in Held', NEW p, p \in PortsOf(v) PROVE p \in allocated'
    BY <1>6, <1>7, <1>10 DEF HeldAllocated
  <2>1. v \in Held /\ v # w
    BY <1>5, <1>6
  <2>2. p \in allocated /\ p \notin PortsOf(w)
    BY <1>4, <2>1 DEF PortInv, HeldAllocated, HeldDisjoint
  <2> QED
    BY <1>9, <1>10, <2>1, <2>2
<1>12. HeldDisjoint'
  BY <1>6, <1>7, <1>10 DEF PortInv, HeldDisjoint
<1>13. StoringApart'
  <2>1. \A s \in Starters : Storing(s)' = Storing(s) /\ starter'[s] = starter[s]
    BY <1>1 DEF Storing
  <2>2. \A s \in Starters : Storing(s) => starter[s].port # 0
    BY PortsAssumption DEF ShapeInv, JobInv, Storing
  <2> QED
    BY <1>4, <1>6, <1>7, <1>9, <1>10, <2>1, <2>2 DEF PortInv, StoringApart
<1> QED
  BY <1>11, <1>12, <1>13 DEF PortInv

\* In every behaviour the ports are as PortInv says, while calls about a reused
\* identifier do not overlap.
LEMMA PortInvHolds ==
    ASSUME ~Overlapping, ~DestroyIdempotent PROVE Spec => [](OneCall /\ PortInv)
<1>1. Init => OneCall /\ PortInv
  <2> SUFFICES ASSUME Init PROVE OneCall /\ PortInv
    OBVIOUS
  <2>1. \A k \in Callers : call[k].stage = "idle"
    BY DEF Init, IdleCall
  <2>2. Held = {}
    BY <2>1 DEF Init, Held, Holds, Inserted
  <2>3. \A s \in Starters : ~Storing(s)
    BY DEF Init, IdleStarter, Storing
  <2> QED
    BY <2>1, <2>2, <2>3 DEF OneCall, PortInv, HeldAllocated, HeldDisjoint, StoringApart
<1>2. ShapeInv /\ ContainerInv /\ OneCall /\ PortInv /\ [Next]_vars => (OneCall /\ PortInv)'
  <2> SUFFICES ASSUME ShapeInv, ContainerInv, OneCall, PortInv, [Next]_vars
               PROVE  OneCall' /\ PortInv'
    OBVIOUS
  <2>0. TypeOK
    BY DEF ShapeInv
  <2>1. ASSUME NEW w \in Creations, CreateWorkspace(w), UNCHANGED reuse
        PROVE  OneCall' /\ PortInv'
    <3>1. UNCHANGED call
      BY <2>1 DEF CreateWorkspace, AllocateSSH, InsertEntry, CreateContainer, StartContainer,
                  ConfigureSSH, AbortCreate, FinishCreate
    <3> QED
      BY <2>1, <3>1, AllocatePorts, CreatePorts DEF OneCall
  <2>2. ASSUME NEW s \in Starters, StartServices(s), UNCHANGED reuse
        PROVE  OneCall' /\ PortInv'
    <3>1. UNCHANGED <<call, entries>>
      BY <2>2 DEF StartServices, BeginServices, AllocateService, StoreService, EndServices
    <3>2. OneCall'
      BY <2>2, <3>1 DEF OneCall
    <3>3. CASE AllocateService(s)
      BY <2>2, <3>2, <3>3, AllocateServicePorts
    <3>4. CASE StoreService(s)
      BY <2>2, <3>2, <3>4, StorePorts
    <3>5. CASE BeginServices(s) \/ EndServices(s)
      <4>1. UNCHANGED <<workspace, allocated>>
        BY <3>5 DEF BeginServices, EndServices
      <4>2. Held' = Held /\ \A w : PortsOf(w)' = PortsOf(w)
        BY <2>2, <3>1, <4>1 DEF Held, Holds, Inserted, Id, PortsOf
      <4>3. JobStep(s) /\ (Storing(s)' => Storing(s) /\ starter'[s].port = starter[s].port)
        BY <2>0, <3>5, BeginServicesEffect, EndServicesEffect DEF Storing, IdleStarter
      <4>4. \A t \in Starters : Storing(t)' => Storing(t) /\ starter'[t].port = starter[t].port
        BY <4>3 DEF JobStep, Storing
      <4> QED
        BY <3>2, <4>1, <4>2, <4>4, PortsKept
    <3> QED
      BY <2>2, <3>3, <3>4, <3>5 DEF StartServices
  <2>3. ASSUME NEW k \in Callers, StopWorkspace(k) \/ DeleteWorkspace(k), UNCHANGED reuse
        PROVE  OneCall' /\ PortInv'
    <3>1. OneCall'
      BY <2>3, OneCallStays
    <3>2. CASE ReleasePorts(k)
      BY <2>3, <3>1, <3>2, ReleaseKeepsPorts
    <3>3. CASE ~ReleasePorts(k)
      <4>1. Held' \subseteq Held
        BY <2>3, <3>3, HeldByCalls
      <4>2. UNCHANGED <<allocated, starter>>
        BY <2>3, <3>3 DEF StopWorkspace, DeleteWorkspace, BeginStop, BeginDelete, Lookup,
                          MarkStopped, StopContainer, DestroyContainer, RemoveEntry
      <4>3. \A w \in Creations : workspace'[w].port = workspace[w].port
                                 /\ workspace'[w].services = workspace[w].services
        <5>1. CASE MarkStopped(k)
          BY <5>1, MarkIsSteady DEF Progress, OnlyOf
        <5>2. CASE ~MarkStopped(k)
          BY <2>3, <3>3, <5>2 DEF StopWorkspace, DeleteWorkspace, BeginStop, BeginDelete, Lookup,
                                  StopContainer, DestroyContainer, RemoveEntry
        <5> QED
          BY <5>1, <5>2
      <4>4. \A w \in Held' : PortsOf(w)' = PortsOf(w)
        BY <4>3 DEF Held, PortsOf
      <4>5. \A s \in Starters : Storing(s)' => Storing(s) /\ starter'[s].port = starter[s].port
        BY <4>2 DEF Storing
      <4> QED
        BY <3>1, <4>1, <4>2, <4>4, <4>5, PortsKept
    <3> QED
      BY <3>2, <3>3
  <2>4. CASE UNCHANGED vars
    <3>1. Held' = Held /\ \A w : PortsOf(w)' = PortsOf(w)
      BY <2>4 DEF vars, Held, Holds, Inserted, Id, PortsOf
    <3>2. \A s \in Starters : Storing(s)' => Storing(s) /\ starter'[s].port = starter[s].port
      BY <2>4 DEF vars, Storing
    <3> QED
      BY <2>4, <3>1, <3>2, PortsKept DEF vars, OneCall
  <2> QED
    BY <2>1, <2>2, <2>3, <2>4 DEF Next
<1> QED
  BY <1>1, <1>2, ShapeInvHolds, ContainerInvHolds, PTL DEF Spec

\* Where clients that reuse identifiers do not overlap their stops and deletes,
\* listed workspaces never share a host port, and what they hold is allocated
\* (workspace_manager.go:75-157, 218-233, 484-566).
THEOREM NoPortConflict ==
    ASSUME ~Overlapping, ~DestroyIdempotent PROVE Spec => []PortsUnique
<1>1. ShapeInv /\ PortInv => PortsUnique
  <2> SUFFICES ASSUME ShapeInv, PortInv PROVE PortsUnique
    OBVIOUS
  <2>1. ASSUME NEW w \in Creations, Listed(w) PROVE w \in Held
    <3>1. Inserted(w)
      BY <2>1, NothingAssumption DEF Listed, ShapeInv, Id
    <3>2. \A k \in Callers : ~ (call[k].ws = w /\ call[k].stage = "remove")
      BY <2>1, PartsOfTypes DEF Listed, ShapeInv, Call
    <3> QED
      BY <2>1, <3>1, <3>2 DEF Held, Holds, Listed
  <2> QED
    BY <2>1 DEF PortInv, HeldAllocated, HeldDisjoint, PortsUnique
<1> QED
  BY <1>1, ShapeInvHolds, PortInvHolds, PTL
=============================================================================
