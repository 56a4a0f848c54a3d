--------------------------- MODULE ComponentsProofs ---------------------------
(***************************************************************************)
(* Theorems about the components that MCComponents checks side by side:    *)
(* the service manager, the services and the locks of the workspace        *)
(* manager, the transports and the configuration of the coding agents.     *)
(* Each moves by itself, so each theorem is about one of them.             *)
(***************************************************************************)
EXTENDS ServiceManager, ServiceHealth, Transports, AgentConfig, ManagerLocks, TLAPS

-----------------------------------------------------------------------------
(* The service manager.                                                    *)

ManagerSpec == InitManager /\ [][NextManager]_managerVars

KnownService == [status : {"starting", "running", "stopping", "stopped"},
                 health : {"unknown", "no_port", "unhealthy", "healthy", "stopped"}]
Busy == [kind : {"start", "stop", "check"}, pc : {"work", "told", "tell"},
         name : Names, svc : KnownService]

ManagerTypes ==
    /\ managed \in [Names -> KnownService \cup {Missing}]
    /\ agentCopy \in [Names -> KnownService \cup {Missing}]
    /\ op \in [Clients -> Busy \cup {NoOp}]
    /\ calls \in Nat
    /\ registered \in [Names -> BOOLEAN]
    /\ raced \in [Names -> BOOLEAN]
    /\ touched \in [Names -> BOOLEAN]

\* While no calls about n have overlapped, the one in flight is alone, it is
\* about a registered service, and what it is about to tell is what it wrote;
\* between calls the agent has what it was told, or has written over it.
NameInv(n) ==
    /\ registered[n] => managed[n] # Missing
    /\ ~ raced[n] =>
          /\ \A c, d \in Clients : op[c].name = n /\ op[d].name = n => c = d
          /\ ~ registered[n] => managed[n] = Missing /\ ~ InFlight(n)
          /\ \A c \in Clients :
                op[c].name = n /\ op[c].pc = "tell" => op[c].svc = managed[n]
          /\ ~ InFlight(n) /\ ~ touched[n] =>
                \/ agentCopy[n] = managed[n]
                \/ managed[n] = Missing /\ agentCopy[n] = Service("stopped", "stopped")

ManagerInv == ManagerTypes /\ \A n \in Names : NameInv(n)

\* The values of the table and of a client.
LEMMA ManagerValues ==
    /\ Missing \notin KnownService /\ NoOp \notin Busy
    /\ NoOp.name = "none" /\ NoOp.pc = "idle" /\ NoOp.kind = "none"
    /\ \A status \in {"starting", "running", "stopping", "stopped"},
          health \in {"unknown", "no_port", "unhealthy", "healthy", "stopped"} :
             Service(status, health) \in KnownService
  BY DEF Missing, NoOp, Service, KnownService, Busy

\* A call about n touches what belongs to n only, and one client.
LEMMA OtherNames ==
    ASSUME NEW n \in Names, NEW c \in Clients, NEW o,
           ManagerTypes,
           op' = [op EXCEPT ![c] = o], op[c].name \in {n, "none"}, o.name \in {n, "none"},
           NEW m \in Names, m # n, NameInv(m),
           managed'[m] = managed[m], agentCopy'[m] = agentCopy[m],
           registered'[m] = registered[m], raced'[m] = raced[m],
           touched'[m] = touched[m]
    PROVE  NameInv(m)'
<1>1. m # "none"
  BY CallsAssumption
<1>2. \A d \in Clients : op'[d].name = m => op'[d] = op[d]
  BY <1>1 DEF ManagerTypes
<1>3. \A d \in Clients : op[d].name = m => op'[d] = op[d]
  BY <1>1 DEF ManagerTypes
<1>4. InFlight(m)' <=> InFlight(m)
  BY <1>2, <1>3 DEF InFlight
<1> QED
  BY <1>2, <1>4 DEF NameInv

\* A call that holds the lock throughout touches no client.
LEMMA OtherNamesLocked ==
    ASSUME op' = op, NEW m \in Names, NameInv(m),
           managed'[m] = managed[m], agentCopy'[m] = agentCopy[m],
           registered'[m] = registered[m], raced'[m] = raced[m],
           touched'[m] = touched[m]
    PROVE  NameInv(m)'
  BY DEF NameInv, InFlight

\* The calls that hold the lock.
LEMMA LockedCallsKeep ==
    ASSUME ManagerInv, NEW n \in Names,
           RegisterService(n) \/ UnregisterService(n) \/ UpdateService(n)
    PROVE  ManagerInv'
<1>1. op' = op /\ ManagerTypes /\ NameInv(n)
  BY DEF ManagerInv, RegisterService, UnregisterService, UpdateService
<1>2. calls' \in Nat
  BY <1>1 DEF RegisterService, UnregisterService, UpdateService, Called, ManagerTypes
<1>3. InFlight(n)' <=> InFlight(n)
  BY <1>1 DEF InFlight
<1>4. InFlight(n) \in BOOLEAN
  BY DEF InFlight
<1>5. CASE RegisterService(n)
  <2> DEFINE s == Service("starting", "unknown")
  <2>1. s \in KnownService /\ s # Missing
    BY ManagerValues
  <2>2. /\ managed' = [managed EXCEPT ![n] = s] /\ agentCopy' = [agentCopy EXCEPT ![n] = s]
        /\ registered' = [registered EXCEPT ![n] = TRUE]
        /\ raced' = [raced EXCEPT ![n] = InFlight(n)]
        /\ touched' = [touched EXCEPT ![n] = FALSE]
    BY <1>5 DEF RegisterService, UpdateServiceInAgent
  <2> HIDE DEF s
  <2>3. ManagerTypes'
    BY <1>1, <1>2, <1>4, <2>1, <2>2 DEF ManagerTypes
  <2>4. /\ managed'[n] = s /\ agentCopy'[n] = s /\ registered'[n]
        /\ raced'[n] = InFlight(n)
    BY <1>1, <2>2 DEF ManagerTypes
  <2>5. NameInv(n)'
    BY <1>1, <1>3, <2>1, <2>4 DEF NameInv, InFlight
  <2>6. \A m \in Names : m # n => NameInv(m)'
    BY <1>1, <2>2, OtherNamesLocked DEF ManagerInv, ManagerTypes
  <2> QED
    BY <2>3, <2>5, <2>6 DEF ManagerInv
<1>6. CASE UnregisterService(n)
  <2> DEFINE s == Service("stopped", "stopped")
  <2>1. s \in KnownService
    BY ManagerValues
  <2>2. /\ managed' = [managed EXCEPT ![n] = Missing] /\ agentCopy' = [agentCopy EXCEPT ![n] = s]
        /\ registered' = [registered EXCEPT ![n] = FALSE]
        /\ raced' = [raced EXCEPT ![n] = InFlight(n)]
        /\ touched' = [touched EXCEPT ![n] = FALSE]
    BY <1>6 DEF UnregisterService, UpdateServiceInAgent
  <2>3. /\ managed'[n] = Missing /\ agentCopy'[n] = s /\ ~ registered'[n]
        /\ raced'[n] = InFlight(n)
    BY <1>1, <2>2 DEF ManagerTypes
  <2>4. NameInv(n)'
    BY <1>1, <1>3, <2>3 DEF NameInv, InFlight
  <2> HIDE DEF s
  <2>5. ManagerTypes'
    BY <1>1, <1>2, <1>4, <2>1, <2>2 DEF ManagerTypes
  <2>6. \A m \in Names : m # n => NameInv(m)'
    BY <1>1, <2>2, OtherNamesLocked DEF ManagerInv, ManagerTypes
  <2> QED
    BY <2>4, <2>5, <2>6 DEF ManagerInv
<1>7. CASE UpdateService(n)
  <2> DEFINE s == Service("running", "unknown")
  <2>1. s \in KnownService /\ s # Missing
    BY ManagerValues
  <2>2. /\ managed' = [managed EXCEPT ![n] = s] /\ agentCopy' = [agentCopy EXCEPT ![n] = s]
        /\ registered' = registered /\ managed[n] # Missing
        /\ raced' = [raced EXCEPT ![n] = raced[n] \/ InFlight(n)]
        /\ touched' = [touched EXCEPT ![n] = FALSE]
    BY <1>7 DEF UpdateService, UpdateServiceInAgent
  <2> HIDE DEF s
  <2>3. ManagerTypes'
    BY <1>1, <1>2, <1>4, <2>1, <2>2 DEF ManagerTypes
  <2>4. /\ managed'[n] = s /\ agentCopy'[n] = s
        /\ raced'[n] <=> (raced[n] \/ InFlight(n))
    BY <1>1, <2>2 DEF ManagerTypes
  <2>5. NameInv(n)'
    BY <1>1, <1>3, <2>1, <2>2, <2>4 DEF NameInv, InFlight
  <2>6. \A m \in Names : m # n => NameInv(m)'
    BY <1>1, <2>2, OtherNamesLocked DEF ManagerInv, ManagerTypes
  <2> QED
    BY <2>3, <2>5, <2>6 DEF ManagerInv
<1> QED
  BY <1>5, <1>6, <1>7

\* A call that begins: it has the copy of a service that is listed.
LEMMA BeginKeeps ==
    ASSUME ManagerInv, NEW c \in Clients, NEW n \in Names,
           StartService(c, n) \/ StopService(c, n) \/ CheckServiceHealth(c, n)
    PROVE  ManagerInv'
<1>1. ManagerTypes /\ NameInv(n) /\ managed[n] \in KnownService /\ op[c] = NoOp
  BY DEF ManagerInv, ManagerTypes, StartService, StopService, CheckServiceHealth, Begin
<1>2. PICK svc \in KnownService, kind \in {"start", "stop", "check"} :
         /\ managed' = [managed EXCEPT ![n] = svc]
         /\ op' = [op EXCEPT ![c] = [kind |-> kind, pc |-> "work", name |-> n, svc |-> svc]]
  <2>1. CASE StartService(c, n)
    <3>1. managed' = [managed EXCEPT ![n].status = "starting"] /\ Begin(c, n, "start", managed'[n])
      BY <2>1 DEF StartService
    <3>2. managed'[n] \in KnownService /\ managed' = [managed EXCEPT ![n] = managed'[n]]
      BY <1>1, <3>1 DEF ManagerTypes, KnownService
    <3> QED
      BY <3>1, <3>2 DEF Begin
  <2>2. CASE StopService(c, n)
    <3>1. managed' = [managed EXCEPT ![n].status = "stopping"] /\ Begin(c, n, "stop", managed'[n])
      BY <2>2 DEF StopService
    <3>2. managed'[n] \in KnownService /\ managed' = [managed EXCEPT ![n] = managed'[n]]
      BY <1>1, <3>1 DEF ManagerTypes, KnownService
    <3> QED
      BY <3>1, <3>2 DEF Begin
  <2>3. CASE CheckServiceHealth(c, n)
    <3>1. managed' = managed /\ Begin(c, n, "check", managed[n])
      BY <2>3 DEF CheckServiceHealth
    <3>2. managed' = [managed EXCEPT ![n] = managed[n]]
      BY <1>1, <3>1 DEF ManagerTypes
    <3> QED
      BY <1>1, <3>1, <3>2 DEF Begin
  <2> QED
    BY <2>1, <2>2, <2>3
<1>3. /\ calls' = calls + 1 /\ registered' = registered /\ UNCHANGED agentSide
      /\ raced' = [raced EXCEPT ![n] = raced[n] \/ InFlight(n)] /\ managed[n] # Missing
  BY DEF StartService, StopService, CheckServiceHealth, Begin, Called
<1> DEFINE o == [kind |-> kind, pc |-> "work", name |-> n, svc |-> svc]
<1>4. o \in Busy /\ o.name = n /\ o.pc = "work"
  BY DEF Busy
<1>5. op' = [op EXCEPT ![c] = o]
  BY <1>2
<1> HIDE DEF o
<1>6. InFlight(n) \in BOOLEAN
  BY DEF InFlight
<1>7. ManagerTypes'
  <2>1. managed' \in [Names -> KnownService \cup {Missing}]
    BY <1>1, <1>2 DEF ManagerTypes
  <2>2. op' \in [Clients -> Busy \cup {NoOp}]
    BY <1>1, <1>4, <1>5 DEF ManagerTypes
  <2>3. raced' \in [Names -> BOOLEAN]
    BY <1>1, <1>3, <1>6 DEF ManagerTypes
  <2> QED
    BY <1>1, <1>3, <2>1, <2>2, <2>3 DEF ManagerTypes, agentSide
<1>8. NameInv(n)'
  <2>1. managed'[n] # Missing
    BY <1>1, <1>2, ManagerValues DEF ManagerTypes
  <2>2. raced'[n] <=> (raced[n] \/ InFlight(n))
    BY <1>1, <1>3 DEF ManagerTypes
  <2>3. op'[c] = o /\ \A d \in Clients : d # c => op'[d] = op[d]
    BY <1>1, <1>5 DEF ManagerTypes
  <2>4. InFlight(n)'
    BY <1>4, <2>3 DEF InFlight
  <2>5. ASSUME ~ raced'[n]
        PROVE  /\ \A d \in Clients : op'[d].name = n => d = c
               /\ registered[n]
    BY <1>1, <1>3, <2>2, <2>3, <2>5 DEF NameInv, InFlight
  <2> QED
    BY <1>3, <1>4, <2>1, <2>3, <2>4, <2>5 DEF NameInv, agentSide
<1>9. \A m \in Names : m # n => NameInv(m)'
  <2>1. op[c].name = "none"
    BY <1>1, ManagerValues
  <2> QED
    <3> SUFFICES ASSUME NEW m \in Names, m # n PROVE NameInv(m)'
      OBVIOUS
    <3>1. /\ managed'[m] = managed[m] /\ agentCopy'[m] = agentCopy[m]
          /\ registered'[m] = registered[m] /\ raced'[m] = raced[m]
          /\ touched'[m] = touched[m] /\ NameInv(m)
      BY <1>1, <1>2, <1>3 DEF ManagerInv, ManagerTypes, agentSide
    <3> QED
      BY <1>1, <1>4, <1>5, <2>1, <3>1, OtherNames
<1> QED
  BY <1>7, <1>8, <1>9 DEF ManagerInv

\* What WriteBack may write is again a service, and not a missing one.
LEMMA ResultsAreServices ==
    ASSUME NEW c \in Clients, op[c] \in Busy
    PROVE  Results(c) \subseteq KnownService
<1>1. CASE op[c].kind = "start"
  BY <1>1, ManagerValues DEF Results
<1>2. CASE op[c].kind = "stop"
  BY <1>2, ManagerValues DEF Results
<1>3. CASE op[c].kind \notin {"start", "stop"}
  <2>1. op[c].svc \in KnownService
    BY DEF Busy
  <2>2. \A h \in PerformHealthCheck : [op[c].svc EXCEPT !.health = h] \in KnownService
    BY <2>1 DEF KnownService, PerformHealthCheck
  <2> QED
    BY <1>3, <2>2 DEF Results
<1> QED
  BY <1>1, <1>2, <1>3

\* The later steps of a call.
LEMMA GoOnKeeps ==
    ASSUME ManagerInv, NEW c \in Clients, TellStarting(c) \/ WriteBack(c) \/ Tell(c)
    PROVE  ManagerInv'
<1>1. op[c] \in Busy
  <2>1. op[c] \in Busy \cup {NoOp} /\ op[c].pc \in {"work", "told", "tell"}
    BY DEF ManagerInv, ManagerTypes, TellStarting, WriteBack, Tell
  <2> QED
    BY <2>1, ManagerValues
<1>0. PICK n \in Names : op[c].name = n
  BY <1>1 DEF Busy
<1>2. n \in Names /\ op[c].svc \in KnownService /\ InFlight(n) /\ op[c].name = n
  BY <1>0, <1>1 DEF Busy, InFlight
<1>3. /\ ManagerTypes /\ NameInv(n) /\ UNCHANGED <<calls, registered, raced>>
  BY <1>2 DEF ManagerInv, TellStarting, WriteBack, Tell
<1>4. ~ raced[n] => registered[n] /\ \A d \in Clients : op[d].name = n => d = c
  BY <1>2, <1>3 DEF NameInv
<1>5. CASE TellStarting(c)
  <2>1. /\ agentCopy' = [agentCopy EXCEPT ![n] = op[c].svc] /\ managed' = managed
        /\ op' = [op EXCEPT ![c] = [op[c] EXCEPT !.pc = "told"]]
        /\ touched' = [touched EXCEPT ![n] = FALSE]
    BY <1>0, <1>5 DEF TellStarting, UpdateServiceInAgent
  <2> DEFINE o == [op[c] EXCEPT !.pc = "told"]
  <2>2. o \in Busy /\ o.name = n /\ o.pc = "told"
    BY <1>0, <1>1 DEF Busy
  <2> HIDE DEF o
  <2>3. op' = [op EXCEPT ![c] = o]
    BY <2>1 DEF o
  <2>4. ManagerTypes'
    BY <1>2, <1>3, <2>1, <2>2, <2>3 DEF ManagerTypes
  <2>5. op'[c] = o /\ \A d \in Clients : d # c => op'[d] = op[d]
    BY <1>3, <2>3 DEF ManagerTypes
  <2>6. InFlight(n)'
    BY <2>2, <2>5 DEF InFlight
  <2>7. NameInv(n)'
    BY <1>2, <1>3, <1>4, <2>1, <2>2, <2>5, <2>6 DEF NameInv
  <2>8. \A m \in Names : m # n => NameInv(m)'
    <3>1. op[c].name = n
      BY <1>0
    <3> QED
      BY <1>2, <1>3, <2>1, <2>2, <2>3, <3>1, OtherNames DEF ManagerInv, ManagerTypes
  <2> QED
    BY <2>4, <2>7, <2>8 DEF ManagerInv
<1>6. CASE WriteBack(c)
  <2>1. PICK svc \in Results(c) :
           /\ managed' = [managed EXCEPT ![n] = svc] /\ agentCopy' = agentCopy
           /\ touched' = touched
           /\ op' = [op EXCEPT ![c].pc = "tell", ![c].svc = svc]
    BY <1>0, <1>6 DEF WriteBack, agentSide
  <2>2. svc \in KnownService /\ svc # Missing
    BY <1>1, ResultsAreServices, ManagerValues
  <2> DEFINE o == [op[c] EXCEPT !.pc = "tell", !.svc = svc]
  <2>3. o \in Busy /\ o.name = n /\ o.pc = "tell" /\ o.svc = svc
    BY <1>0, <1>1, <2>2 DEF Busy
  <2>4. op' = [op EXCEPT ![c] = o]
    BY <1>3, <2>1 DEF ManagerTypes
  <2>5. op[c].name = n
    BY <1>0
  <2> HIDE DEF o
  <2>6. ManagerTypes'
    BY <1>2, <1>3, <2>1, <2>2, <2>3, <2>4 DEF ManagerTypes
  <2>7. op'[c] = o /\ \A d \in Clients : d # c => op'[d] = op[d]
    BY <1>3, <2>4 DEF ManagerTypes
  <2>8. InFlight(n)' /\ managed'[n] = svc
    BY <1>2, <1>3, <2>1, <2>3, <2>7 DEF InFlight, ManagerTypes
  <2>9. NameInv(n)'
    BY <1>2, <1>3, <1>4, <2>2, <2>3, <2>7, <2>8 DEF NameInv
  <2>10. \A m \in Names : m # n => NameInv(m)'
    BY <1>2, <1>3, <2>1, <2>3, <2>4, <2>5, OtherNames DEF ManagerInv, ManagerTypes
  <2> QED
    BY <2>6, <2>9, <2>10 DEF ManagerInv
<1>7. CASE Tell(c)
  <2>1. /\ agentCopy' = [agentCopy EXCEPT ![n] = op[c].svc] /\ managed' = managed
        /\ op' = [op EXCEPT ![c] = NoOp] /\ op[c].pc = "tell" /\ op[c].name = n
        /\ touched' = [touched EXCEPT ![n] = FALSE]
    BY <1>0, <1>7 DEF Tell, UpdateServiceInAgent
  <2>2. ManagerTypes'
    BY <1>2, <1>3, <2>1 DEF ManagerTypes
  <2>3. op'[c].name # n /\ \A d \in Clients : d # c => op'[d] = op[d]
    BY <1>2, <1>3, <2>1, CallsAssumption, ManagerValues DEF ManagerTypes
  <2>4. ~ raced[n] => ~ InFlight(n)' /\ op[c].svc = managed[n]
    BY <1>2, <1>3, <1>4, <2>1, <2>3 DEF InFlight, NameInv
  <2>5. agentCopy'[n] = op[c].svc
    BY <1>2, <1>3, <2>1 DEF ManagerTypes
  <2>6. NameInv(n)'
    BY <1>2, <1>3, <1>4, <2>1, <2>3, <2>4, <2>5 DEF NameInv, InFlight
  <2>7. \A m \in Names : m # n => NameInv(m)'
    BY <1>2, <1>3, <2>1, ManagerValues, OtherNames DEF ManagerInv, ManagerTypes
  <2> QED
    BY <2>2, <2>6, <2>7 DEF ManagerInv
<1> QED
  BY <1>5, <1>6, <1>7

\* What the agent writes to its own table is no concern of the manager's.
LEMMA AgentWritesKeep ==
    ASSUME ManagerInv, NEW n \in Names, AgentWrites(n)
    PROVE  ManagerInv'
<1>1. ManagerTypes /\ calls' \in Nat
  BY DEF ManagerInv, ManagerTypes, AgentWrites, Called
<1>2. /\ managed' = managed /\ op' = op /\ registered' = registered /\ raced' = raced
      /\ touched' = [touched EXCEPT ![n] = TRUE]
  BY DEF AgentWrites
<1>3. PICK svc \in KnownService \cup {Missing} : agentCopy' = [agentCopy EXCEPT ![n] = svc]
  BY ManagerValues DEF AgentWrites, MarkSession, DeleteSession
<1>4. ManagerTypes'
  BY <1>1, <1>2, <1>3 DEF ManagerTypes
<1>5. NameInv(n)'
  <2>1. NameInv(n) /\ touched'[n]
    BY <1>1, <1>2 DEF ManagerInv, ManagerTypes
  <2> QED
    BY <1>2, <2>1 DEF NameInv, InFlight
<1>6. \A m \in Names : m # n => NameInv(m)'
  <2>1. ASSUME NEW m \in Names, m # n
        PROVE  /\ agentCopy'[m] = agentCopy[m] /\ touched'[m] = touched[m] /\ NameInv(m)
    BY <1>1, <1>2, <1>3, <2>1 DEF ManagerInv, ManagerTypes
  <2> QED
    BY <1>2, <2>1, OtherNamesLocked
<1> QED
  BY <1>4, <1>5, <1>6 DEF ManagerInv

\* Both tables of the service manager keep up with what was registered, for
\* any names, clients and overlapping calls, whatever the agent writes.
THEOREM ManagerTablesKeepUp == ManagerSpec => []TablesKeepUp
<1>1. InitManager => ManagerInv
  <2> SUFFICES ASSUME InitManager PROVE ManagerInv
    OBVIOUS
  <2>1. ManagerTypes
    BY DEF InitManager, ManagerTypes
  <2>2. \A n \in Names : ~ InFlight(n)
    BY CallsAssumption, ManagerValues DEF InitManager, InFlight
  <2>3. \A n \in Names : NameInv(n)
    BY <2>2 DEF InitManager, NameInv, InFlight
  <2> QED
    BY <2>1, <2>3 DEF ManagerInv
<1>2. ManagerInv /\ [NextManager]_managerVars => ManagerInv'
  <2> SUFFICES ASSUME ManagerInv, [NextManager]_managerVars PROVE ManagerInv'
    OBVIOUS
  <2>1. CASE UNCHANGED managerVars
    BY <2>1 DEF managerVars, ManagerInv, ManagerTypes, NameInv, InFlight
  <2>2. CASE NextManager
    BY <2>2, LockedCallsKeep, BeginKeeps, GoOnKeeps, AgentWritesKeep
       DEF NextManager, DiscoverServices
  <2> QED
    BY <2>1, <2>2
<1>3. ManagerInv => TablesKeepUp
  <2> SUFFICES ASSUME ManagerInv, NEW n \in Names PROVE NoGhost(n) /\ AgentFollows(n)
    BY DEF TablesKeepUp
  <2>1. NameInv(n)
    BY DEF ManagerInv
  <2> QED
    BY <2>1 DEF NameInv, NoGhost, AgentFollows
<1> QED
  BY <1>1, <1>2, <1>3, PTL DEF ManagerSpec

-----------------------------------------------------------------------------
(* The health of services.                                                 *)

ServicesSpec == InitServices /\ [][NextServices]_serviceVars

CallType == [pc : {"idle", "next", "exec", "mark", "done"}, ws : 0..MaxCreations,
             todo : SUBSET Svcs, svc : Svcs \cup {Nobody}, attempt : Nat,
             ok : BOOLEAN, live : BOOLEAN]
CheckType == [pc : {"none", "sleeping", "found", "ran", "over"},
              target : Objects \cup {<<>>}, ok : BOOLEAN]
ObjectType == [status : {"none", "starting", "running", "error", "unhealthy"},
               health : {"none", "healthy", "unhealthy"}]

ServiceTypes ==
    /\ created \in Creations /\ current \in 0..created
    /\ listed \in [Creations \X Svcs -> Calls \cup {Nobody}]
    /\ object \in [Objects -> ObjectType]
    /\ start \in [Calls -> CallType]
    /\ check \in [Objects -> CheckType]

\* The call has put the object in a table; it does so once, in the table of
\* the workspace it found when it started.
Was(o) == start[o[1]].pc # "idle" /\ o[2] \notin start[o[1]].todo
ListedOnce ==
    /\ \A c \in Calls : start[c].pc # "idle" => start[c].ws \in 1..created
    /\ \A c \in Calls :
          start[c].pc \in {"exec", "mark"} => start[c].svc \in Svcs \ start[c].todo
    /\ \A k \in Creations \X Svcs :
          listed[k] # Nobody => Was(<<listed[k], k[2]>>) /\ start[listed[k]].ws = k[1]

\* An object that was listed and is not will not be listed again, so it does
\* not matter what a late check writes there.
Retired(o) == Was(o) /\ o \notin Listed(o[2])
Passed(o) == o \in passed \/ Retired(o)

CheckInv(o) ==
    check[o].pc \in {"found", "ran"} =>
        \E t \in Objects :
            /\ check[o].target = t /\ t[2] = o[2] /\ Was(t)
            /\ check[o].pc = "ran" /\ check[o].ok => Passed(t)
ObjectInv(o) ==
    /\ object[o].health = "healthy" => Passed(o)
    /\ object[o].status = "running" => o \in started \/ Passed(o)

ServicesInv ==
    /\ ServiceTypes /\ ListedOnce
    /\ \A c \in Calls : start[c].pc = "mark" /\ start[c].ok => <<c, start[c].svc>> \in started
    /\ \A o \in Objects : CheckInv(o) /\ ObjectInv(o)

\* The bound on creations bounds the current one.
LEMMA CurrentBound ==
    ASSUME ServiceTypes
    PROVE  current \in 0..MaxCreations /\ created \in 1..MaxCreations
  BY AttemptsAssumption DEF ServiceTypes, Creations

\* The table of the current workspace, seen object by object.
LEMMA ListedFacts ==
    ASSUME ServiceTypes, NEW s \in Svcs
    PROVE  /\ Listed(s) \subseteq Objects
           /\ \A o \in Objects :
                 o \in Listed(s) <=> /\ o[2] = s /\ current # 0
                                     /\ listed[<<current, s>>] = o[1]
<1>1. CASE current = 0
  BY <1>1 DEF Listed
<1>2. CASE current # 0
  <2>1. <<current, s>> \in Creations \X Svcs
    <3>1. current \in 1..MaxCreations
      BY <1>2, CurrentBound
    <3> QED
      BY <3>1 DEF Creations
  <2>2. listed[<<current, s>>] \in Calls \cup {Nobody}
    BY <2>1 DEF ServiceTypes
  <2>3. \A o \in Objects : o = <<o[1], o[2]>> /\ o[1] \in Calls /\ o[2] \in Svcs
    BY DEF Objects
  <2> QED
    BY <1>2, <2>2, <2>3, AttemptsAssumption DEF Listed, Objects
<1> QED
  BY <1>1, <1>2

\* A call goes forward.
LEMMA CallsGoOn ==
    ASSUME ServiceTypes, ListedOnce, [NextServices]_serviceVars
    PROVE  /\ start' \in [Calls -> CallType]
           /\ \A c \in Calls : start[c].pc # "idle" =>
                 /\ start'[c].pc # "idle" /\ start'[c].ws = start[c].ws
                 /\ start'[c].todo \subseteq start[c].todo
<1> DEFINE Forward(c, r) == /\ r \in CallType
                            /\ start[c].pc # "idle" =>
                                  /\ r.pc # "idle" /\ r.ws = start[c].ws
                                  /\ r.todo \subseteq start[c].todo
<1>0. start \in [Calls -> CallType]
  BY DEF ServiceTypes
<1>1. ASSUME NEW c \in Calls, NEW r, Forward(c, r), start' = [start EXCEPT ![c] = r]
      PROVE  /\ start' \in [Calls -> CallType]
             /\ \A d \in Calls : start[d].pc # "idle" =>
                   /\ start'[d].pc # "idle" /\ start'[d].ws = start[d].ws
                   /\ start'[d].todo \subseteq start[d].todo
  BY <1>0, <1>1
<1>2. ASSUME NEW c \in Calls,
             \/ StartServices(c) \/ StartServiceWithRetry(c) \/ MarkService(c)
             \/ HandlerReturns(c) \/ Cancel(c)
             \/ \E s \in Svcs : ListService(c, s)
      PROVE  \E r : Forward(c, r) /\ start' = [start EXCEPT ![c] = r]
  <2>1. start[c] \in CallType
    BY <1>0
  <2>2. CASE StartServices(c)
    <3>1. start' = [start EXCEPT ![c] = [IdleStart EXCEPT !.pc = "next", !.ws = current,
                                                     !.todo = Svcs, !.live = TRUE]]
          /\ start[c].pc = "idle"
      BY <2>2 DEF StartServices
    <3>2. [IdleStart EXCEPT !.pc = "next", !.ws = current, !.todo = Svcs, !.live = TRUE]
            \in CallType
      <4>1. current \in 0..MaxCreations
        BY CurrentBound
      <4> QED
        BY <4>1 DEF IdleStart, CallType
    <3> QED
      BY <3>1, <3>2
  <2>3. ASSUME NEW s \in Svcs, ListService(c, s)
        PROVE  \E r : Forward(c, r) /\ start' = [start EXCEPT ![c] = r]
    <3> DEFINE r == [start[c] EXCEPT !.pc = "exec", !.svc = s, !.attempt = 1, !.todo = @ \ {s}]
    <3>1. Forward(c, r)
      BY <2>1, <2>3 DEF CallType
    <3>2. start' = [start EXCEPT ![c] = r]
      BY <1>0, <2>3 DEF ListService
    <3> QED
      BY <3>1, <3>2
  <2>4. CASE StartServiceWithRetry(c)
    <3>1. start[c].pc = "exec"
      BY <2>4 DEF StartServiceWithRetry
    <3>2. CASE start' = [start EXCEPT ![c].attempt = @ + 1]
      <4> DEFINE r == [start[c] EXCEPT !.attempt = @ + 1]
      <4>1. Forward(c, r)
        BY <2>1, <3>1 DEF CallType
      <4> QED
        BY <1>0, <3>2, <4>1
    <3>3. ASSUME NEW ok \in BOOLEAN, start' = [start EXCEPT ![c].pc = "mark", ![c].ok = ok]
          PROVE  \E r : Forward(c, r) /\ start' = [start EXCEPT ![c] = r]
      <4> DEFINE r == [start[c] EXCEPT !.pc = "mark", !.ok = ok]
      <4>1. Forward(c, r)
        BY <2>1, <3>1 DEF CallType
      <4>2. start' = [start EXCEPT ![c] = r]
        BY <1>0, <3>3
      <4> QED
        BY <4>1, <4>2
    <3> QED
      BY <2>4, <3>2, <3>3 DEF StartServiceWithRetry
  <2>5. CASE MarkService(c)
    <3> DEFINE r == [start[c] EXCEPT !.pc = "next", !.svc = Nobody, !.attempt = 0, !.ok = FALSE]
    <3>1. Forward(c, r)
      BY <2>1, <2>5 DEF CallType
    <3>2. start' = [start EXCEPT ![c] = r]
      BY <1>0, <2>5 DEF MarkService
    <3> QED
      BY <3>1, <3>2
  <2>6. CASE HandlerReturns(c)
    <3> DEFINE r == [start[c] EXCEPT !.pc = "done", !.live = FALSE]
    <3>1. Forward(c, r)
      BY <2>1, <2>6 DEF CallType
    <3>2. start' = [start EXCEPT ![c] = r]
      BY <1>0, <2>6 DEF HandlerReturns
    <3> QED
      BY <3>1, <3>2
  <2>7. CASE Cancel(c)
    <3> DEFINE r == [start[c] EXCEPT !.live = FALSE]
    <3>1. Forward(c, r)
      BY <2>1, <2>7 DEF CallType
    <3>2. start' = [start EXCEPT ![c] = r]
      BY <1>0, <2>7 DEF Cancel
    <3> QED
      BY <3>1, <3>2
  <2> QED
    BY <1>2, <2>2, <2>3, <2>4, <2>5, <2>6, <2>7
<1>3. CASE start' = start
  BY <1>0, <1>3
<1>4. \/ start' = start
      \/ \E c \in Calls : 
            \/ StartServices(c) \/ StartServiceWithRetry(c) \/ MarkService(c)
            \/ HandlerReturns(c) \/ Cancel(c)
            \/ \E s \in Svcs : ListService(c, s)
  BY DEF NextServices, serviceVars, LookUp, RunCheck, WriteHealth, DeleteWorkspace,
         CreateWorkspace
<1> HIDE DEF Forward
<1> QED
  BY <1>1, <1>2, <1>3, <1>4

\* Every step keeps the types.
LEMMA ServiceTypesKept ==
    ASSUME ServicesInv, [NextServices]_serviceVars
    PROVE  ServiceTypes'
<1> USE DEF history
<1>0. ServiceTypes /\ ListedOnce /\ start' \in [Calls -> CallType]
  BY CallsGoOn DEF ServicesInv
<1>1. /\ created \in 1..MaxCreations /\ current \in 0..created
      /\ listed \in [Creations \X Svcs -> Calls \cup {Nobody}]
      /\ object \in [Objects -> ObjectType] /\ check \in [Objects -> CheckType]
  BY <1>0, CurrentBound DEF ServiceTypes
<1>2. UNCHANGED <<created, current>> \/ DeleteWorkspace \/ CreateWorkspace
  BY ZenonT(30)
     DEF NextServices, serviceVars, StartServices, StartServiceWithRetry, MarkService,
         HandlerReturns, Cancel, ListService, LookUp, RunCheck, WriteHealth
<1>3. created' \in Creations /\ current' \in 0..created'
  <2>1. CASE UNCHANGED <<created, current>>
    BY <1>0, <2>1 DEF ServiceTypes
  <2>2. CASE DeleteWorkspace
    BY <1>1, <2>2 DEF DeleteWorkspace, Creations
  <2>3. CASE CreateWorkspace
    BY <1>1, <2>3, AttemptsAssumption DEF CreateWorkspace, Creations
  <2> QED
    BY <1>2, <2>1, <2>2, <2>3
<1>4. listed' \in [Creations \X Svcs -> Calls \cup {Nobody}]
  <2>1. ASSUME NEW c \in Calls, NEW s \in Svcs, ListService(c, s)
        PROVE  listed' \in [Creations \X Svcs -> Calls \cup {Nobody}]
    BY <1>1, <2>1 DEF ListService
  <2>2. CASE UNCHANGED listed
    BY <1>1, <2>2
  <2>3. UNCHANGED listed \/ \E c \in Calls, s \in Svcs : ListService(c, s)
    BY DEF NextServices, serviceVars, StartServices, StartServiceWithRetry, MarkService,
           HandlerReturns, Cancel, LookUp, RunCheck, WriteHealth, DeleteWorkspace,
           CreateWorkspace
  <2> QED
    BY <2>1, <2>2, <2>3
<1>5. object' \in [Objects -> ObjectType]
  <2>1. ASSUME NEW o \in Objects,
               NEW st \in {"starting", "running", "error"}, object' = [object EXCEPT ![o].status = st]
        PROVE  object' \in [Objects -> ObjectType]
    <3>1. [object[o] EXCEPT !.status = st] \in ObjectType
      BY <1>1 DEF ObjectType
    <3>2. object' = [object EXCEPT ![o] = [object[o] EXCEPT !.status = st]]
      BY <1>1, <2>1
    <3> QED
      BY <1>1, <3>1, <3>2
  <2>2. ASSUME NEW c \in Calls, NEW s \in Svcs, ListService(c, s)
        PROVE  object' \in [Objects -> ObjectType]
    BY <2>1, <2>2 DEF ListService, Objects
  <2>3. ASSUME NEW c \in Calls, MarkService(c)
        PROVE  object' \in [Objects -> ObjectType]
    <3>1. <<c, start[c].svc>> \in Objects
      BY <1>0, <2>3 DEF MarkService, ListedOnce, Objects
    <3>2. \E st \in {"running", "error"} :
             object' = [object EXCEPT ![<<c, start[c].svc>>].status = st]
      BY <2>3 DEF MarkService
    <3> QED
      BY <2>1, <3>1, <3>2
  <2>4. ASSUME NEW o \in Objects, WriteHealth(o)
        PROVE  object' \in [Objects -> ObjectType]
    <3>1. \A ok \in BOOLEAN : Verdict(ok) \in ObjectType
      BY DEF Verdict, ObjectType
    <3>2. check[o].ok \in BOOLEAN
      BY <1>1 DEF CheckType
    <3>3. object' = [t \in Objects |-> IF t \in Target(o) THEN Verdict(check[o].ok) ELSE object[t]]
      BY <2>4 DEF WriteHealth, CheckHTTPHealth, CheckTCPHealth, CheckExecHealth
    <3> HIDE DEF Verdict
    <3> QED
      BY <1>1, <3>1, <3>2, <3>3
  <2>5. CASE UNCHANGED object
    BY <1>1, <2>5
  <2>6. \/ UNCHANGED object
        \/ \E c \in Calls : MarkService(c) \/ \E s \in Svcs : ListService(c, s)
        \/ \E o \in Objects : WriteHealth(o)
    BY DEF NextServices, serviceVars, StartServices, StartServiceWithRetry,
           HandlerReturns, Cancel, LookUp, RunCheck, DeleteWorkspace, CreateWorkspace
  <2> QED
    BY <2>2, <2>3, <2>4, <2>5, <2>6
<1>6. check' \in [Objects -> CheckType]
  <2>1. ASSUME NEW o \in Objects, NEW r \in CheckType, check' = [check EXCEPT ![o] = r]
        PROVE  check' \in [Objects -> CheckType]
    BY <1>1, <2>1
  <2>2. ASSUME NEW c \in Calls, MarkService(c)
        PROVE  check' \in [Objects -> CheckType]
    <3> DEFINE o == <<c, start[c].svc>>
    <3>1. o \in Objects
      BY <1>0, <2>2 DEF MarkService, ListedOnce, Objects
    <3>2. check' = check \/ check' = [check EXCEPT ![o].pc = "sleeping"]
      BY <2>2 DEF MarkService
    <3>3. [check[o] EXCEPT !.pc = "sleeping"] \in CheckType
      BY <1>1, <3>1 DEF CheckType
    <3> HIDE DEF o
    <3>4. check' = check \/ check' = [check EXCEPT ![o] = [check[o] EXCEPT !.pc = "sleeping"]]
      BY <1>1, <3>1, <3>2
    <3> QED
      BY <1>1, <2>1, <3>1, <3>3, <3>4
  <2>3. ASSUME NEW o \in Objects, LookUp(o)
        PROVE  check' \in [Objects -> CheckType]
    <3>1. CASE Listed(o[2]) = {}
      <4>1. [check[o] EXCEPT !.pc = "over"] \in CheckType
        BY <1>1 DEF CheckType
      <4>2. check' = [check EXCEPT ![o] = [check[o] EXCEPT !.pc = "over"]]
        BY <1>1, <2>3, <3>1 DEF LookUp
      <4> QED
        BY <2>1, <4>1, <4>2
    <3>2. CASE Listed(o[2]) # {}
      <4>1. PICK t \in Listed(o[2]) :
               check' = [check EXCEPT ![o].pc = "found", ![o].target = t]
        BY <2>3, <3>2 DEF LookUp
      <4>2. o[2] \in Svcs
        BY DEF Objects
      <4>3. t \in Objects
        BY <1>0, <4>1, <4>2, ListedFacts
      <4>4. [check[o] EXCEPT !.pc = "found", !.target = t] \in CheckType
        BY <1>1, <4>3 DEF CheckType
      <4>5. check' = [check EXCEPT ![o] = [check[o] EXCEPT !.pc = "found", !.target = t]]
        BY <1>1, <4>1
      <4> QED
        BY <2>1, <4>4, <4>5
    <3> QED
      BY <3>1, <3>2
  <2>4. ASSUME NEW o \in Objects, RunCheck(o)
        PROVE  check' \in [Objects -> CheckType]
    <3>1. PICK ok \in BOOLEAN : check' = [check EXCEPT ![o].pc = "ran", ![o].ok = ok]
      BY <2>4 DEF RunCheck
    <3>2. [check[o] EXCEPT !.pc = "ran", !.ok = ok] \in CheckType
      BY <1>1 DEF CheckType
    <3>3. check' = [check EXCEPT ![o] = [check[o] EXCEPT !.pc = "ran", !.ok = ok]]
      BY <1>1, <3>1
    <3> QED
      BY <2>1, <3>2, <3>3
  <2>5. ASSUME NEW o \in Objects, WriteHealth(o)
        PROVE  check' \in [Objects -> CheckType]
    <3>1. [NoCheck EXCEPT !.pc = "over"] \in CheckType
      BY DEF NoCheck, CheckType
    <3> QED
      BY <2>1, <2>5, <3>1 DEF WriteHealth
  <2>6. CASE UNCHANGED check
    BY <1>1, <2>6
  <2>7. \/ UNCHANGED check
        \/ \E c \in Calls : MarkService(c)
        \/ \E o \in Objects : LookUp(o) \/ RunCheck(o) \/ WriteHealth(o)
    BY DEF NextServices, serviceVars, StartServices, StartServiceWithRetry, ListService,
           HandlerReturns, Cancel, DeleteWorkspace, CreateWorkspace
  <2> QED
    BY <2>2, <2>3, <2>4, <2>5, <2>6, <2>7
<1> QED
  BY <1>0, <1>3, <1>4, <1>5, <1>6 DEF ServiceTypes

\* An object that was listed stays one that was, and one that is retired stays
\* retired, whoever deletes or creates the workspace or starts services in it.
LEMMA RetiredStays ==
    ASSUME ServicesInv, [NextServices]_serviceVars, NEW o \in Objects
    PROVE  /\ Was(o) => Was(o)'
           /\ Retired(o) => Retired(o)'
           /\ Passed(o) => Passed(o)'
<1>0. ServiceTypes /\ ListedOnce /\ ServiceTypes' /\ o[1] \in Calls /\ o[2] \in Svcs
  BY ServiceTypesKept DEF ServicesInv, Objects
<1>1. Was(o) => Was(o)'
  BY <1>0, CallsGoOn DEF Was
<1>2. ASSUME Retired(o)
      PROVE  o \notin Listed(o[2])'
  <2>1. Was(o) /\ ~ (current # 0 /\ listed[<<current, o[2]>>] = o[1])
    BY <1>0, <1>2, ListedFacts DEF Retired
  <2> SUFFICES ASSUME current' # 0, listed'[<<current', o[2]>>] = o[1]
               PROVE  FALSE
    <3>1. o \in Listed(o[2])' =>
             current' # 0 /\ o \in {<<listed'[<<current', o[2]>>], o[2]>>}
      BY DEF Listed
    <3>2. o \in {<<listed'[<<current', o[2]>>], o[2]>>} => listed'[<<current', o[2]>>] = o[1]
      OBVIOUS
    <3> QED
      BY <3>1, <3>2
  <2>2. CASE UNCHANGED <<current, listed>>
    BY <2>1, <2>2
  <2>3. CASE DeleteWorkspace
    BY <2>3 DEF DeleteWorkspace
  <2>4. CASE CreateWorkspace
    <3>1. current' = created + 1 /\ listed' = listed
      BY <2>4 DEF CreateWorkspace
    <3>2. <<current', o[2]>> \in Creations \X Svcs
      BY <1>0, CurrentBound, <2>4, AttemptsAssumption DEF CreateWorkspace, Creations, ServiceTypes
    <3>3. o[1] # Nobody
      BY <1>0, AttemptsAssumption
    <3>4. start[o[1]].ws = created + 1
      <4>1. PICK k \in Creations \X Svcs : k = <<current', o[2]>>
        BY <3>2
      <4>2. listed[k] = o[1] /\ k[1] = created + 1
        BY <3>1, <4>1
      <4>3. start[listed[k]].ws = k[1]
        BY <1>0, <3>3, <4>2 DEF ListedOnce
      <4> QED
        BY <4>2, <4>3
    <3>5. start[o[1]].ws \in 1..created
      BY <1>0, <2>1 DEF ListedOnce, Was
    <3>6. created \in Nat
      BY <1>0, CurrentBound
    <3> QED
      BY <3>4, <3>5, <3>6
  <2>5. ASSUME NEW c \in Calls, NEW s \in Svcs, ListService(c, s)
        PROVE  FALSE
    <3>1. /\ current' = current /\ s \in start[c].todo
          /\ listed' = [listed EXCEPT ![<<start[c].ws, s>>] = c]
      BY <2>5 DEF ListService
    <3>2. <<current, o[2]>> \in Creations \X Svcs
      BY <1>0, <3>1, CurrentBound DEF Creations
    <3>3. <<current, o[2]>> = <<start[c].ws, s>> /\ c = o[1]
      BY <1>0, <2>1, <3>1, <3>2 DEF ServiceTypes
    <3> QED
      BY <2>1, <3>1, <3>3 DEF Was
  <2>6. \/ UNCHANGED <<current, listed>> \/ DeleteWorkspace \/ CreateWorkspace
        \/ \E c \in Calls, s \in Svcs : ListService(c, s)
    BY DEF NextServices, serviceVars, StartServices, StartServiceWithRetry, MarkService,
           HandlerReturns, Cancel, LookUp, RunCheck, WriteHealth
  <2> QED
    BY <2>2, <2>3, <2>4, <2>5, <2>6
<1>3. Retired(o) => Retired(o)'
  BY <1>1, <1>2 DEF Retired
<1>4. passed \subseteq passed'
  BY DEF NextServices, serviceVars, StartServices, StartServiceWithRetry, MarkService,
         HandlerReturns, Cancel, ListService, LookUp, RunCheck, WriteHealth, DeleteWorkspace,
         CreateWorkspace, history
<1> QED
  BY <1>1, <1>3, <1>4 DEF Passed

\* The table lists each call's objects once.
LEMMA ListedOnceKept ==
    ASSUME ServicesInv, [NextServices]_serviceVars
    PROVE  ListedOnce'
<1>0. /\ ServiceTypes /\ ListedOnce /\ created \in Nat /\ current \in 0..created
      /\ start \in [Calls -> CallType]
      /\ \A c \in Calls : start[c].pc # "idle" =>
            /\ start'[c].pc # "idle" /\ start'[c].ws = start[c].ws
            /\ start'[c].todo \subseteq start[c].todo
  BY CallsGoOn, CurrentBound DEF ServicesInv, ServiceTypes
<1>1. created' \in {created, created + 1}
  BY DEF NextServices, serviceVars, StartServices, StartServiceWithRetry, MarkService,
         HandlerReturns, Cancel, ListService, LookUp, RunCheck, WriteHealth, DeleteWorkspace,
         CreateWorkspace
<1>2. ASSUME NEW c \in Calls, StartServices(c)
      PROVE  ListedOnce'
  <2>1. /\ UNCHANGED <<listed, created>> /\ current # 0 /\ start[c].pc = "idle"
        /\ start' = [start EXCEPT ![c] = [IdleStart EXCEPT !.pc = "next", !.ws = current,
                                                         !.todo = Svcs, !.live = TRUE]]
    BY <1>2 DEF StartServices
  <2>2. start'[c].pc = "next" /\ start'[c].ws = current
    BY <1>0, <2>1 DEF IdleStart
  <2>3. \A d \in Calls : d # c => start'[d] = start[d]
    BY <1>0, <2>1
  <2>4. \A k \in Creations \X Svcs : listed[k] # Nobody => listed[k] \in Calls \ {c}
    BY <1>0, <2>1 DEF ListedOnce, Was, ServiceTypes
  <2> QED
    BY <1>0, <2>1, <2>2, <2>3, <2>4 DEF ListedOnce, Was
<1>3. ASSUME NEW c \in Calls, NEW s \in Svcs, ListService(c, s)
      PROVE  ListedOnce'
  <2>1. /\ created' = created /\ start[c].pc = "next" /\ s \in start[c].todo
        /\ listed' = [listed EXCEPT ![<<start[c].ws, s>>] = c]
        /\ start' = [start EXCEPT ![c].pc = "exec", ![c].svc = s, ![c].attempt = 1,
                                ![c].todo = @ \ {s}]
    BY <1>3 DEF ListService
  <2>2. /\ start'[c].pc = "exec" /\ start'[c].svc = s /\ start'[c].todo = start[c].todo \ {s}
        /\ start'[c].ws = start[c].ws
    BY <1>0, <2>1 DEF CallType
  <2>3. \A d \in Calls : d # c => start'[d] = start[d]
    BY <1>0, <2>1
  <2>4. \A d \in Calls : start'[d].pc # "idle" => start'[d].ws \in 1..created'
    BY <1>0, <2>1, <2>2, <2>3 DEF ListedOnce
  <2>5. \A d \in Calls :
           start'[d].pc \in {"exec", "mark"} => start'[d].svc \in Svcs \ start'[d].todo
    BY <1>0, <2>2, <2>3 DEF ListedOnce
  <2>6. ASSUME NEW k \in Creations \X Svcs, listed'[k] # Nobody
        PROVE  Was(<<listed[k], k[2]>>)' /\ start'[listed'[k]].ws = k[1]
    <3>1. CASE k = <<start[c].ws, s>>
      <4>1. listed'[k] = c /\ k[2] = s /\ k[1] = start[c].ws
        BY <1>0, <2>1, <3>1 DEF ServiceTypes
      <4> QED
        BY <2>2, <4>1 DEF Was
    <3>2. CASE k # <<start[c].ws, s>>
      <4>1. listed'[k] = listed[k] /\ listed[k] \in Calls
        BY <1>0, <2>1, <2>6, <3>2 DEF ServiceTypes
      <4>2. Was(<<listed[k], k[2]>>) /\ start[listed[k]].ws = k[1]
        BY <1>0, <2>6, <4>1 DEF ListedOnce
      <4> QED
        BY <1>0, <4>1, <4>2 DEF Was
    <3> QED
      BY <3>1, <3>2
  <2> QED
    BY <2>4, <2>5, <2>6 DEF ListedOnce
<1>4. CASE \E c \in Calls :
              StartServiceWithRetry(c) \/ MarkService(c) \/ HandlerReturns(c) \/ Cancel(c)
  <2>1. listed' = listed /\ created' = created
    BY <1>4 DEF StartServiceWithRetry, MarkService, HandlerReturns, Cancel
  <2>2. \A d \in Calls :
           start'[d].pc # "idle" =>
              /\ start[d].pc # "idle"
              /\ start'[d].pc \in {"exec", "mark"} =>
                    start[d].pc \in {"exec", "mark"} /\ start'[d].svc = start[d].svc
    <3>1. ASSUME NEW c \in Calls, StartServiceWithRetry(c), NEW d \in Calls
          PROVE  /\ start[d].pc = "idle" => start'[d].pc = "idle"
                 /\ start'[d].pc \in {"exec", "mark"} =>
                       start[d].pc \in {"exec", "mark"} /\ start'[d].svc = start[d].svc
      BY <1>0, <3>1 DEF StartServiceWithRetry, CallType
    <3>2. ASSUME NEW c \in Calls, MarkService(c), NEW d \in Calls
          PROVE  /\ start[d].pc = "idle" => start'[d].pc = "idle"
                 /\ start'[d].pc \in {"exec", "mark"} =>
                       start[d].pc \in {"exec", "mark"} /\ start'[d].svc = start[d].svc
      BY <1>0, <3>2 DEF MarkService, CallType
    <3>3. ASSUME NEW c \in Calls, HandlerReturns(c) \/ Cancel(c), NEW d \in Calls
          PROVE  /\ start[d].pc = "idle" => start'[d].pc = "idle" \/ start'[d].pc = start[d].pc
                 /\ start'[d].pc \in {"exec", "mark"} =>
                       start[d].pc \in {"exec", "mark"} /\ start'[d].svc = start[d].svc
      BY <1>0, <3>3 DEF HandlerReturns, Cancel, CallType
    <3> QED
      BY <1>4, <3>1, <3>2, <3>3
  <2>3. \A k \in Creations \X Svcs : listed[k] # Nobody => listed[k] \in Calls
    BY <1>0 DEF ServiceTypes
  <2>4. \A d \in Calls : start'[d].pc # "idle" => start'[d].ws \in 1..created'
    BY <1>0, <2>1, <2>2 DEF ListedOnce
  <2>5. \A d \in Calls :
           start'[d].pc \in {"exec", "mark"} => start'[d].svc \in Svcs \ start'[d].todo
    BY <1>0, <2>2 DEF ListedOnce
  <2>6. \A k \in Creations \X Svcs :
           listed'[k] # Nobody => Was(<<listed[k], k[2]>>)' /\ start'[listed'[k]].ws = k[1]
    BY <1>0, <2>1, <2>3 DEF ListedOnce, Was
  <2> QED
    BY <2>4, <2>5, <2>6 DEF ListedOnce
<1>5. CASE UNCHANGED <<listed, start>>
  BY <1>0, <1>1, <1>5 DEF ListedOnce, Was
<1>6. \/ UNCHANGED <<listed, start>>
      \/ \E c \in Calls : StartServices(c) \/ \E s \in Svcs : ListService(c, s)
      \/ \E c \in Calls :
            StartServiceWithRetry(c) \/ MarkService(c) \/ HandlerReturns(c) \/ Cancel(c)
  BY DEF NextServices, serviceVars, LookUp, RunCheck, WriteHealth, DeleteWorkspace,
         CreateWorkspace
<1> QED
  BY <1>2, <1>3, <1>4, <1>5, <1>6

\* A call that marks a service as running has run it.
MarkedWasStarted ==
    \A c \in Calls : start[c].pc = "mark" /\ start[c].ok => <<c, start[c].svc>> \in started

\* A start is marked as succeeded only when a command has started the service,
\* which is not forgotten.
LEMMA MarkedKept ==
    ASSUME ServicesInv, [NextServices]_serviceVars
    PROVE  MarkedWasStarted' /\ started \subseteq started'
<1>0. start \in [Calls -> CallType] /\ MarkedWasStarted
  BY DEF ServicesInv, ServiceTypes, MarkedWasStarted
<1>1. started \subseteq started'
  BY DEF NextServices, serviceVars, StartServices, StartServiceWithRetry, MarkService,
         HandlerReturns, Cancel, ListService, LookUp, RunCheck, WriteHealth, DeleteWorkspace,
         CreateWorkspace, history
<1>2. ASSUME NEW c \in Calls, StartServiceWithRetry(c)
      PROVE  MarkedWasStarted'
  <2>1. \A d \in Calls : d # c => start'[d] = start[d]
    BY <1>0, <1>2 DEF StartServiceWithRetry
  <2>2. start'[c].pc = "mark" /\ start'[c].ok => <<c, start'[c].svc>> \in started'
    BY <1>0, <1>2 DEF StartServiceWithRetry, CallType
  <2> QED
    BY <1>0, <1>1, <2>1, <2>2 DEF MarkedWasStarted
<1>3. ASSUME NEW c \in Calls,
             \/ StartServices(c) \/ MarkService(c) \/ HandlerReturns(c) \/ Cancel(c)
             \/ \E s \in Svcs : ListService(c, s)
      PROVE  MarkedWasStarted'
  <2>1. \A d \in Calls : d # c => start'[d] = start[d]
    BY <1>0, <1>3 DEF StartServices, MarkService, HandlerReturns, Cancel, ListService
  <2>2. \/ start'[c].pc # "mark"
        \/ /\ start'[c].pc = start[c].pc /\ start'[c].ok = start[c].ok
           /\ start'[c].svc = start[c].svc
    <3>1. CASE StartServices(c)
      BY <1>0, <3>1 DEF StartServices, IdleStart
    <3>2. CASE MarkService(c)
      BY <1>0, <3>2 DEF MarkService, CallType
    <3>3. CASE HandlerReturns(c)
      BY <1>0, <3>3 DEF HandlerReturns, CallType
    <3>4. CASE Cancel(c)
      BY <1>0, <3>4 DEF Cancel, CallType
    <3>5. CASE \E s \in Svcs : ListService(c, s)
      BY <1>0, <3>5 DEF ListService, CallType
    <3> QED
      BY <1>3, <3>1, <3>2, <3>3, <3>4, <3>5
  <2> QED
    BY <1>0, <1>1, <2>1, <2>2 DEF MarkedWasStarted
<1>4. CASE UNCHANGED start
  BY <1>0, <1>1, <1>4 DEF MarkedWasStarted
<1>5. \/ UNCHANGED start
      \/ \E c \in Calls :
            \/ StartServiceWithRetry(c)
            \/ StartServices(c) \/ MarkService(c) \/ HandlerReturns(c) \/ Cancel(c)
            \/ \E s \in Svcs : ListService(c, s)
  BY DEF NextServices, serviceVars, LookUp, RunCheck, WriteHealth, DeleteWorkspace,
         CreateWorkspace
<1> QED
  BY <1>1, <1>2, <1>3, <1>4, <1>5

\* What a check found of the object it looked up, it may write there later.
LEMMA CheckKept ==
    ASSUME ServicesInv, [NextServices]_serviceVars, NEW o \in Objects
    PROVE  CheckInv(o)'
<1>0. ServiceTypes /\ ListedOnce /\ CheckInv(o) /\ o[2] \in Svcs /\ check \in [Objects -> CheckType]
  BY DEF ServicesInv, ServiceTypes, Objects
<1>1. CASE check'[o] = check[o]
  BY <1>0, <1>1, RetiredStays DEF CheckInv
<1>2. CASE check'[o].pc \notin {"found", "ran"}
  BY <1>2 DEF CheckInv
<1>3. CASE LookUp(o)
  <2>1. CASE Listed(o[2]) = {}
    <3>1. check'[o].pc = "over"
      BY <1>0, <1>3, <2>1 DEF LookUp, CheckType
    <3> QED
      BY <1>2, <3>1
  <2>2. CASE Listed(o[2]) # {}
    <3>1. PICK t \in Listed(o[2]) : check' = [check EXCEPT ![o].pc = "found", ![o].target = t]
      BY <1>3, <2>2 DEF LookUp
    <3>2. t \in Objects
      BY <1>0, <3>1, ListedFacts
    <3>3. t[2] = o[2] /\ current # 0 /\ listed[<<current, o[2]>>] = t[1]
      BY <1>0, <3>1, <3>2, ListedFacts
    <3>4. <<current, o[2]>> \in Creations \X Svcs
      BY <1>0, <3>3, CurrentBound DEF Creations
    <3>5. t[1] \in Calls /\ t[1] # Nobody /\ t = <<t[1], t[2]>>
      BY <3>2, AttemptsAssumption DEF Objects
    <3>6. Was(t)
      <4>1. PICK k \in Creations \X Svcs : k = <<current, o[2]>>
        BY <3>4
      <4>2. listed[k] = t[1] /\ k[2] = t[2]
        BY <3>3, <4>1
      <4>3. Was(<<listed[k], k[2]>>)
        BY <1>0, <3>5, <4>2 DEF ListedOnce
      <4> QED
        BY <3>5, <4>2, <4>3
    <3>7. check'[o].pc = "found" /\ check'[o].target = t
      BY <1>0, <3>1 DEF CheckType
    <3>8. Was(t)'
      BY <3>2, <3>6, RetiredStays
    <3> QED
      BY <3>2, <3>3, <3>7, <3>8 DEF CheckInv
  <2> QED
    BY <2>1, <2>2
<1>4. CASE RunCheck(o)
  <2>1. PICK ok \in BOOLEAN :
           /\ check[o].pc = "found" /\ check' = [check EXCEPT ![o].pc = "ran", ![o].ok = ok]
           /\ passed' = IF ok THEN passed \cup Listed(o[2]) ELSE passed
    BY <1>4 DEF RunCheck
  <2>2. PICK t \in Objects : check[o].target = t /\ t[2] = o[2] /\ Was(t)
    BY <1>0, <2>1 DEF CheckInv
  <2>3. check'[o].pc = "ran" /\ check'[o].target = t /\ (check'[o].ok <=> ok)
    BY <1>0, <2>1, <2>2 DEF CheckType
  <2>4. Was(t)'
    BY <2>2, RetiredStays
  <2>5. ok => Passed(t)'
    <3>1. CASE t \in Listed(o[2])
      BY <2>1, <3>1 DEF Passed
    <3>2. CASE t \notin Listed(o[2])
      BY <2>2, <3>2, RetiredStays DEF Passed, Retired
    <3> QED
      BY <3>1, <3>2
  <2> QED
    BY <2>2, <2>3, <2>4, <2>5 DEF CheckInv
<1>5. ASSUME NEW q \in Objects, q # o, LookUp(q) \/ RunCheck(q) \/ WriteHealth(q)
      PROVE  check'[o] = check[o]
  BY <1>0, <1>5 DEF LookUp, RunCheck, WriteHealth
<1>6. CASE WriteHealth(o)
  <2>1. check'[o].pc = "over"
    BY <1>0, <1>6 DEF WriteHealth, NoCheck
  <2> QED
    BY <1>2, <2>1
<1>7. ASSUME NEW c \in Calls, MarkService(c)
      PROVE  check'[o] = check[o] \/ check'[o].pc = "sleeping"
  BY <1>0, <1>7 DEF MarkService, CheckType
<1>8. \/ UNCHANGED check \/ \E c \in Calls : MarkService(c)
      \/ \E q \in Objects : LookUp(q) \/ RunCheck(q) \/ WriteHealth(q)
  BY DEF NextServices, serviceVars, StartServices, StartServiceWithRetry, ListService,
         HandlerReturns, Cancel, DeleteWorkspace, CreateWorkspace
<1>9. CASE UNCHANGED check
  BY <1>1, <1>9
<1> QED
  BY <1>1, <1>2, <1>3, <1>4, <1>5, <1>6, <1>7, <1>8, <1>9

\* What an object says was found out about it, or nobody asks it any more.
LEMMA ObjectKept ==
    ASSUME ServicesInv, [NextServices]_serviceVars, NEW o \in Objects
    PROVE  ObjectInv(o)'
<1>0. /\ ServiceTypes /\ ListedOnce /\ ObjectInv(o) /\ object \in [Objects -> ObjectType]
      /\ started \subseteq started' /\ (Passed(o) => Passed(o)')
  BY MarkedKept, RetiredStays DEF ServicesInv, ServiceTypes
<1>1. CASE object'[o] = object[o]
  BY <1>0, <1>1 DEF ObjectInv
<1>2. ASSUME NEW c \in Calls, NEW s \in Svcs, ListService(c, s)
      PROVE  ObjectInv(o)'
  <2>1. /\ object'[o].health = object[o].health
        /\ object'[o].status = object[o].status \/ object'[o].status = "starting"
    BY <1>0, <1>2 DEF ListService, ObjectType
  <2> QED
    BY <1>0, <2>1 DEF ObjectInv
<1>3. ASSUME NEW c \in Calls, MarkService(c)
      PROVE  ObjectInv(o)'
  <2> DEFINE q == <<c, start[c].svc>>
  <2>1. object' = [object EXCEPT ![q].status = IF start[c].ok THEN "running" ELSE "error"]
    BY <1>3 DEF MarkService
  <2>2. start[c].ok => q \in started
    BY <1>3 DEF MarkService, ServicesInv
  <2>3. object'[o].health = object[o].health
    BY <1>0, <2>1 DEF ObjectType
  <2>4. o # q => object'[o].status = object[o].status
    BY <1>0, <2>1 DEF ObjectType
  <2>5. o = q /\ ~ start[c].ok => object'[o].status = "error"
    BY <1>0, <2>1 DEF ObjectType
  <2> HIDE DEF q
  <2> QED
    BY <1>0, <2>2, <2>3, <2>4, <2>5 DEF ObjectInv
<1>4. ASSUME NEW q \in Objects, WriteHealth(q)
      PROVE  ObjectInv(o)'
  <2>1. /\ check[q].pc = "ran"
        /\ object' = [t \in Objects |-> IF t \in Target(q) THEN Verdict(check[q].ok) ELSE object[t]]
    BY <1>4 DEF WriteHealth, CheckHTTPHealth, CheckTCPHealth, CheckExecHealth
  <2>2. PICK t \in Objects : check[q].target = t /\ (check[q].ok => Passed(t))
    BY <2>1 DEF ServicesInv, CheckInv
  <2>3. CASE o # t
    <3>1. object'[o] = object[o]
      BY <2>1, <2>2, <2>3 DEF Target
    <3> QED
      BY <1>1, <3>1
  <2>4. CASE o = t
    <3>1. object'[o] = Verdict(check[q].ok)
      BY <2>1, <2>2, <2>4 DEF Target
    <3>2. ~ check[q].ok => object'[o].health = "unhealthy" /\ object'[o].status = "unhealthy"
      BY <3>1 DEF Verdict
    <3>3. check[q].ok => Passed(o)'
      BY <1>0, <2>2, <2>4
    <3> QED
      BY <3>2, <3>3 DEF ObjectInv
  <2> QED
    BY <2>3, <2>4
<1>5. \/ UNCHANGED object
      \/ \E c \in Calls : MarkService(c) \/ \E s \in Svcs : ListService(c, s)
      \/ \E q \in Objects : WriteHealth(q)
  BY DEF NextServices, serviceVars, StartServices, StartServiceWithRetry,
         HandlerReturns, Cancel, LookUp, RunCheck, DeleteWorkspace, CreateWorkspace
<1> QED
  BY <1>1, <1>2, <1>3, <1>4, <1>5

\* The invariant holds in every reachable state.
LEMMA ServicesInvHolds == ServicesSpec => []ServicesInv
<1>1. InitServices => ServicesInv
  <2> SUFFICES ASSUME InitServices PROVE ServicesInv
    OBVIOUS
  <2>1. IdleStart \in CallType /\ NoCheck \in CheckType /\ IdleStart.pc = "idle" /\ NoCheck.pc = "none"
    BY AttemptsAssumption DEF IdleStart, NoCheck, CallType, CheckType
  <2>2. created \in Creations /\ current \in 0..created
    BY AttemptsAssumption DEF InitServices, Creations
  <2>3. ServiceTypes
    BY <2>1, <2>2 DEF InitServices, ServiceTypes, ObjectType
  <2>4. ListedOnce
    BY <2>1 DEF InitServices, ListedOnce
  <2>5. \A o \in Objects : CheckInv(o) /\ ObjectInv(o)
    BY <2>1 DEF InitServices, CheckInv, ObjectInv
  <2> QED
    BY <2>1, <2>3, <2>4, <2>5 DEF InitServices, ServicesInv
<1>2. ServicesInv /\ [NextServices]_serviceVars => ServicesInv'
  BY ServiceTypesKept, ListedOnceKept, MarkedKept, CheckKept, ObjectKept
     DEF ServicesInv, MarkedWasStarted
<1> QED
  BY <1>1, <1>2, PTL DEF ServicesSpec

\* A service that is listed and healthy passed a check while it was listed,
\* for any number of overlapping calls, deletes and creations.
THEOREM HealthIsTrue == ServicesSpec => []HealthIsOfThisStart
<1>1. ServicesInv => HealthIsOfThisStart
  BY ListedFacts DEF ServicesInv, ObjectInv, Passed, Retired, HealthIsOfThisStart
<1> QED
  BY <1>1, ServicesInvHolds, PTL

\* A service that is shown as running was executed, or found up by a check.
THEOREM RunningIsTrue == ServicesSpec => []RunningWasExecuted
<1>1. ServicesInv => RunningWasExecuted
  <2> SUFFICES ASSUME ServicesInv, NEW s \in Svcs, "running" \in GetWorkspaceStatus(s),
                      NEW o \in Listed(s)
               PROVE  o \in started \cup passed
    BY DEF RunningWasExecuted
  <2>1. \A q \in Listed(s) : q = o
    BY DEF Listed
  <2>2. object[o].status = "running"
    BY <2>1 DEF GetWorkspaceStatus
  <2> QED
    BY <2>2, ListedFacts DEF ServicesInv, ObjectInv, Passed, Retired
<1> QED
  BY <1>1, ServicesInvHolds, PTL

-----------------------------------------------------------------------------
(* The transports.                                                         *)

TransportSpec == InitTransports /\ [][NextTransports]_transportVars

Stops == {"idle", "lock", "locking", "locked", "dialing", "rlock", "reading", "nested",
          "again", "testing", "using"}

\* Who holds the lock, and where: a writer that is in has no reader beside it,
\* and whoever reads the lock is at one of three places.
LockInv ==
    /\ at \in [Callers -> Stops] /\ call \in [Callers -> WriteCalls \cup ReadCalls]
    /\ readers \in [Callers -> Nat] /\ writer \in Callers \cup {NoOne}
    /\ writer # NoOne => at[writer] \in {"locking", "locked", "dialing", "nested"}
    /\ \A c \in Callers :
          /\ at[c] \in {"locking", "locked", "dialing"} => writer = c
          /\ at[c] \in {"locked", "dialing"} => \A d \in Callers : readers[d] = 0
          /\ at[c] \in {"reading", "testing"} => readers[c] # 0
          /\ readers[c] # 0 => at[c] \in {"reading", "testing", "nested"}
          /\ at[c] = "nested" => call[c] \in {"Connect", "GetInfo"}

\* The ways a step may move a caller.
StayMove(c, place) ==
    /\ Stay(c, place)
    /\ \/ at[c] = "locked" /\ place \in {"nested", "dialing"} /\ call[c] = "Connect"
       \/ at[c] = "reading" /\ place = "nested" /\ call[c] = "GetInfo"
       \/ at[c] = "using" /\ place = "idle"
LockMove(c) ==
    \/ Lock(c) \/ RLock(c) \/ \E o \in WriteCalls \cup ReadCalls : Enter(c, o)
    \/ at[c] \in {"locked", "dialing"} /\ Unlock(c)
    \/ at[c] \in {"reading", "testing"} /\ \E p \in {"idle", "using", "again"} : RUnlock(c, p)
    \/ \E p \in {"nested", "dialing", "idle"} : StayMove(c, p)

\* Every step moves a caller in one of these ways, or none.
LEMMA StepsMove ==
    ASSUME [NextTransports]_transportVars
    PROVE  UNCHANGED lockVars \/ \E c \in Callers : LockMove(c)
<1>1. ASSUME NEW c \in Callers,
             \/ SSHConnect(c) \/ Connected(c) \/ SSHDisconnect(c)
             \/ SSHIsConnected(c) \/ SSHGetInfo(c) \/ SSHClient(c)
             \/ SSHExecute(c) \/ SSHUpload(c) \/ SSHDownload(c)
      PROVE  LockMove(c)
  BY <1>1 DEF SSHConnect, Connected, SSHDisconnect, SSHIsConnected, SSHGetInfo, SSHClient,
              SSHExecute, SSHUpload, SSHDownload, Use, SSH, LockMove, StayMove
<1>2. ASSUME NEW c \in Callers,
             \/ \E t \in Targets : HTTPConnect(c, t)
             \/ HTTPDisconnect(c) \/ HTTPIsConnected(c) \/ HTTPGetInfo(c)
             \/ HTTPTarget(c) \/ HTTPExecute(c) \/ HTTPUpload(c) \/ HTTPDownload(c)
      PROVE  LockMove(c)
  BY <1>2 DEF HTTPConnect, HTTPDisconnect, HTTPIsConnected, HTTPGetInfo, HTTPTarget,
              HTTPExecute, HTTPUpload, HTTPDownload, Send, HTTP, LockMove, StayMove
<1>3. ASSUME NEW c \in Callers,
             Lock(c) \/ RLock(c) \/ \E o \in WriteCalls \cup ReadCalls : Enter(c, o)
      PROVE  LockMove(c)
  BY <1>3 DEF LockMove
<1>4. CASE SSHPeer \/ HTTPPeer \/ (\E d \in Dials : Dialled(d)) \/ UNCHANGED transportVars
  BY <1>4 DEF SSHPeer, HTTPPeer, Dialled, transportVars
<1> QED
  BY <1>1, <1>2, <1>3, <1>4 DEF NextTransports

\* The lock's invariant is kept by each of them.
LEMMA LockKept ==
    ASSUME LockInv, NEW c \in Callers, LockMove(c)
    PROVE  LockInv'
<1> USE DEF Goto
<1>0. \A d \in Callers : d # c => at'[d] = at[d]
  BY DEF LockInv, LockMove, Lock, RLock, Enter, Unlock, Return, RUnlock, StayMove, Stay
<1>1. CASE \E o \in WriteCalls \cup ReadCalls : Enter(c, o)
  <2>1. PICK o \in WriteCalls \cup ReadCalls :
           /\ call' = [call EXCEPT ![c] = o] /\ at[c] = "idle"
           /\ at' = [at EXCEPT ![c] = IF o \in WriteCalls THEN "lock" ELSE "rlock"]
           /\ UNCHANGED <<writer, readers>>
    BY <1>1 DEF Enter
  <2> QED
    BY <1>0, <2>1 DEF LockInv, Stops
<1>2. CASE Lock(c)
  <2>1. UNCHANGED <<readers, call>>
    BY <1>2 DEF Lock
  <2>2. CASE at[c] = "lock" /\ writer = NoOne /\ writer' = c /\ at' = [at EXCEPT ![c] = "locking"]
    <3>1. \A d \in Callers : at[d] \notin {"locking", "locked", "dialing"}
      BY <2>2, CallersAreNotDials DEF LockInv
    <3> QED
      BY <1>0, <2>1, <2>2, <3>1 DEF LockInv, Stops
  <2>3. CASE /\ at[c] = "locking" /\ (\A d \in Callers : readers[d] = 0)
             /\ at' = [at EXCEPT ![c] = "locked"] /\ UNCHANGED writer
    BY <1>0, <2>1, <2>3 DEF LockInv, Stops
  <2> QED
    BY <1>2, <2>2, <2>3 DEF Lock
<1>3. CASE RLock(c)
  <2>1. /\ at[c] \in {"rlock", "nested", "again"} /\ writer = NoOne
        /\ readers' = [readers EXCEPT ![c] = readers[c] + 1] /\ UNCHANGED <<writer, call>>
        /\ at' = [at EXCEPT ![c] = IF at[c] = "rlock" THEN "reading" ELSE "testing"]
    <3>1. /\ DOMAIN Reading = {"rlock", "nested", "again"} /\ Reading["rlock"] = "reading"
          /\ Reading["nested"] = "testing" /\ Reading["again"] = "testing"
      BY DEF Reading
    <3>2. /\ at[c] \in DOMAIN Reading /\ writer = NoOne
          /\ readers' = [readers EXCEPT ![c] = readers[c] + 1] /\ UNCHANGED <<writer, call>>
          /\ at' = [at EXCEPT ![c] = Reading[at[c]]]
      BY <1>3 DEF RLock
    <3>3. Reading[at[c]] = IF at[c] = "rlock" THEN "reading" ELSE "testing"
      BY <3>1, <3>2
    <3> QED
      BY <3>1, <3>2, <3>3
  <2>2. /\ at' \in [Callers -> Stops] /\ at'[c] \in {"reading", "testing"}
        /\ readers' \in [Callers -> Nat] /\ readers'[c] # 0
        /\ \A d \in Callers : d # c => readers'[d] = readers[d]
    BY <2>1 DEF LockInv, Stops
  <2>3. \A d \in Callers : at'[d] \notin {"locking", "locked", "dialing"}
    BY <1>0, <2>1, <2>2, CallersAreNotDials DEF LockInv
  <2> QED
    BY <1>0, <2>1, <2>2, <2>3 DEF LockInv
<1>4. CASE at[c] \in {"locked", "dialing"} /\ Unlock(c)
  <2>1. writer = c /\ writer' = NoOne /\ at' = [at EXCEPT ![c] = "idle"] /\ UNCHANGED <<readers, call>>
    BY <1>4 DEF LockInv, Unlock, Return
  <2>2. at' \in [Callers -> Stops] /\ at'[c] = "idle"
    BY <2>1 DEF LockInv, Stops
  <2>3. \A d \in Callers : at'[d] \notin {"locking", "locked", "dialing"}
    BY <1>0, <2>1, <2>2 DEF LockInv
  <2>4. readers[c] = 0
    BY <1>4 DEF LockInv
  <2> QED
    BY <1>0, <2>1, <2>2, <2>3, <2>4 DEF LockInv
<1>5. CASE at[c] \in {"reading", "testing"} /\ \E p \in {"idle", "using", "again"} : RUnlock(c, p)
  <2>1. PICK p \in {"idle", "using", "again"} :
           /\ readers' = [readers EXCEPT ![c] = 0] /\ at' = [at EXCEPT ![c] = p]
           /\ UNCHANGED <<writer, call>>
    BY <1>5 DEF RUnlock
  <2>2. /\ at' \in [Callers -> Stops] /\ at'[c] = p
        /\ readers' \in [Callers -> Nat] /\ readers'[c] = 0
        /\ \A d \in Callers : d # c => readers'[d] = readers[d]
    BY <2>1 DEF LockInv, Stops
  <2>3. writer # c
    BY <1>5, CallersAreNotDials DEF LockInv
  <2>4. \A d \in Callers : readers[d] = 0 => readers'[d] = 0
    BY <2>2
  <2> QED
    BY <1>0, <2>1, <2>2, <2>3, <2>4 DEF LockInv
<1>6. ASSUME NEW p \in {"nested", "dialing", "idle"}, StayMove(c, p)
      PROVE  LockInv'
  <2>1. at' = [at EXCEPT ![c] = p] /\ UNCHANGED <<writer, readers, call>>
    BY <1>6 DEF StayMove, Stay
  <2>2. at' \in [Callers -> Stops] /\ at'[c] = p
    BY <2>1 DEF LockInv, Stops
  <2>3. CASE at[c] = "locked" /\ p \in {"nested", "dialing"} /\ call[c] = "Connect"
    BY <1>0, <2>1, <2>2, <2>3 DEF LockInv
  <2>4. CASE at[c] = "reading" /\ p = "nested" /\ call[c] = "GetInfo"
    BY <1>0, <2>1, <2>2, <2>4, CallersAreNotDials DEF LockInv
  <2>5. CASE at[c] = "using" /\ p = "idle"
    BY <1>0, <2>1, <2>2, <2>5, CallersAreNotDials DEF LockInv
  <2> QED
    BY <1>6, <2>3, <2>4, <2>5 DEF StayMove
<1> QED
  BY <1>1, <1>2, <1>3, <1>4, <1>5, <1>6 DEF LockMove

\* In every behaviour the lock of the transports is held by who stands where it
\* is held.
LEMMA LockInvHolds == TransportSpec => []LockInv
<1>1. InitTransports => LockInv
  BY DEF InitTransports, LockInv, Stops, WriteCalls, ReadCalls, UseCalls
<1>2. LockInv /\ [NextTransports]_transportVars => LockInv'
  <2> SUFFICES ASSUME LockInv, [NextTransports]_transportVars PROVE LockInv'
    OBVIOUS
  <2>1. CASE UNCHANGED lockVars
    BY <2>1 DEF LockInv, lockVars
  <2> QED
    BY <2>1, StepsMove, LockKept
<1> QED
  BY <1>1, <1>2, PTL DEF TransportSpec

\* Calls of a transport block one another in one way only, whatever they are
\* and however many there are.
THEOREM OnlyNestingBlocks == TransportSpec => []BlockedOnlyByNesting
<1>1. LockInv => BlockedOnlyByNesting
  <2> SUFFICES ASSUME LockInv, Frozen, NEW c \in Callers, at[c] # "idle",
                      \A d \in Callers : at[d] # "nested"
               PROVE  FALSE
    BY DEF BlockedOnlyByNesting
  <2>1. ASSUME NEW d \in Callers, readers[d] # 0
        PROVE  FALSE
    BY <2>1 DEF LockInv, Frozen, Wants
  <2>2. writer # NoOne
    BY <2>1 DEF Frozen, Wants
  <2>3. writer \in Callers /\ at[writer] \in {"locking", "locked", "dialing"}
    BY <2>2 DEF LockInv
  <2> QED
    BY <2>1, <2>3 DEF Frozen, Wants
<1> QED
  BY <1>1, LockInvHolds, PTL

\* While no Connect gave up on its dial, a dial in progress is awaited under
\* the write lock, and there is no client until it ends.
ConnectionInv ==
    /\ dials \in [Dials -> {"none", "running", "connected", "failed"}]
    /\ dialOf \in [Callers -> Dials \cup {0}] /\ open \subseteq Dials
    /\ overdue = {} =>
          /\ open \subseteq {client}
          /\ \A d \in Dials : dials[d] = "running" =>
                client = 0 /\ \E c \in Callers : at[c] = "dialing" /\ dialOf[c] = d


\* Every step dials, connects and disconnects as ConnectionInv says.
LEMMA ConnectionKept ==
    ASSUME LockInv, ConnectionInv, [NextTransports]_transportVars
    PROVE  ConnectionInv'
<1> USE DEF Goto
<1>0. /\ at \in [Callers -> Stops] /\ dialOf \in [Callers -> Dials \cup {0}]
      /\ dials \in [Dials -> {"none", "running", "connected", "failed"}] /\ open \subseteq Dials
  BY DEF LockInv, ConnectionInv
<1>1. CASE /\ UNCHANGED <<dials, dialOf, overdue, client>> /\ open' \subseteq open
           /\ \A c \in Callers : at[c] = "dialing" => at'[c] = "dialing"
  BY <1>1 DEF ConnectionInv
<1>2. ASSUME NEW c \in Callers, SSHConnect(c)
      PROVE  ConnectionInv'
  <2>1. /\ at[c] = "locked" /\ UNCHANGED <<client, open, overdue>>
        /\ \A d \in Callers : d # c => at'[d] = at[d]
    BY <1>0, <1>2 DEF SSHConnect, SSH, Stay, Unlock, Return
  <2>2. CASE UNCHANGED <<dials, dialOf>>
    BY <2>1, <2>2, <1>1
  <2>3. CASE ~ UNCHANGED <<dials, dialOf>>
    <3>1. PICK d \in Dials :
             /\ client = 0 /\ at' = [at EXCEPT ![c] = "dialing"]
             /\ dials' = [dials EXCEPT ![d] = "running"] /\ dialOf' = [dialOf EXCEPT ![c] = d]
      BY <1>2, <2>3 DEF SSHConnect, Stay
    <3>2. at'[c] = "dialing" /\ dialOf'[c] = d /\ \A e \in Callers : e # c => dialOf'[e] = dialOf[e]
      BY <1>0, <3>1
    <3>3. \A e \in Dials : dials'[e] = "running" => e = d \/ dials[e] = "running"
      BY <1>0, <3>1
    <3>4. /\ dials' \in [Dials -> {"none", "running", "connected", "failed"}]
          /\ dialOf' \in [Callers -> Dials \cup {0}]
      BY <1>0, <3>1
    <3>5. ASSUME overdue = {}, NEW e \in Dials, dials'[e] = "running"
          PROVE  \E b \in Callers : at'[b] = "dialing" /\ dialOf'[b] = e
      <4>1. CASE e = d
        BY <3>2, <4>1
      <4>2. CASE e # d
        <5>1. PICK b \in Callers : at[b] = "dialing" /\ dialOf[b] = e
          BY <3>3, <3>5, <4>2 DEF ConnectionInv
        <5> QED
          BY <2>1, <3>2, <5>1
      <4> QED
        BY <4>1, <4>2
    <3> QED
      BY <2>1, <3>1, <3>4, <3>5 DEF ConnectionInv
  <2> QED
    BY <2>2, <2>3
<1>3. ASSUME NEW d \in Dials, Dialled(d)
      PROVE  ConnectionInv'
  <2>1. UNCHANGED <<at, dialOf, overdue>> /\ dials[d] = "running"
    BY <1>3 DEF Dialled, lockVars
  <2>2. PICK s \in {"connected", "failed"} : dials' = [dials EXCEPT ![d] = s]
    BY <1>3 DEF Dialled
  <2>3. \/ client' = d /\ open' = open \cup {d}
        \/ UNCHANGED <<client, open>>
    BY <1>3 DEF Dialled
  <2>4. dials' \in [Dials -> {"none", "running", "connected", "failed"}] /\ open' \subseteq Dials
    BY <1>0, <2>2, <2>3
  <2>5. ASSUME overdue = {}
        PROVE  /\ open' \subseteq {client'}
               /\ \A e \in Dials : dials'[e] # "running"
    <3>1. client = 0 /\ open \subseteq {client}
      BY <2>1, <2>5 DEF ConnectionInv
    <3>2. open = {}
      BY <1>0, <3>1, CallersAreNotDials DEF Dials
    <3>3. ASSUME NEW e \in Dials, dials'[e] = "running"
          PROVE  FALSE
      <4>1. e # d /\ dials[e] = "running"
        BY <1>0, <2>2, <3>3
      <4>2. PICK b \in Callers : at[b] = "dialing" /\ dialOf[b] = e
        BY <2>5, <4>1 DEF ConnectionInv
      <4>3. PICK c \in Callers : at[c] = "dialing" /\ dialOf[c] = d
        BY <2>1, <2>5 DEF ConnectionInv
      <4>4. b = c
        BY <4>2, <4>3 DEF LockInv
      <4> QED
        BY <4>1, <4>2, <4>3, <4>4
    <3> QED
      BY <2>3, <3>2, <3>3
  <2> QED
    BY <1>0, <2>1, <2>4, <2>5 DEF ConnectionInv
<1>4. ASSUME NEW c \in Callers, Connected(c)
      PROVE  ConnectionInv'
  <2>1. /\ at[c] = "dialing" /\ UNCHANGED <<client, open, dials>>
        /\ at' = [at EXCEPT ![c] = "idle"] /\ dialOf' = [dialOf EXCEPT ![c] = 0]
        /\ \/ dials[dialOf[c]] \in {"connected", "failed"} /\ UNCHANGED overdue
           \/ overdue' = overdue \cup {dialOf[c]}
    BY <1>4 DEF Connected, SSH, Unlock, Return
  <2>2. \A b \in Callers : b # c => at'[b] = at[b] /\ dialOf'[b] = dialOf[b]
    BY <1>0, <2>1
  <2>3. ASSUME overdue' = {}, NEW e \in Dials, dials[e] = "running"
        PROVE  client = 0 /\ \E b \in Callers : at'[b] = "dialing" /\ dialOf'[b] = e
    <3>1. overdue = {} /\ dials[dialOf[c]] \in {"connected", "failed"}
      BY <2>1, <2>3
    <3>2. PICK b \in Callers : at[b] = "dialing" /\ dialOf[b] = e
      BY <2>3, <3>1 DEF ConnectionInv
    <3> QED
      BY <2>2, <2>3, <3>1, <3>2 DEF ConnectionInv
  <2>4. dialOf' \in [Callers -> Dials \cup {0}]
    BY <1>0, <2>1
  <2>5. overdue' = {} => overdue = {}
    BY <2>1
  <2> QED
    BY <1>0, <2>1, <2>3, <2>4, <2>5 DEF ConnectionInv
<1>5. ASSUME NEW c \in Callers, SSHDisconnect(c)
      PROVE  ConnectionInv'
  <2>1. /\ at[c] = "locked" /\ UNCHANGED <<dials, dialOf, overdue>>
        /\ open' = open \ {client} /\ client' = 0 /\ at' = [at EXCEPT ![c] = "idle"]
    BY <1>5 DEF SSHDisconnect, SSH, Unlock, Return
  <2>2. \A b \in Callers : at[b] = "dialing" => at'[b] = "dialing"
    BY <1>0, <2>1
  <2> QED
    BY <2>1, <2>2 DEF ConnectionInv
<1>6. ASSUME NEW c \in Callers,
             \/ Lock(c) \/ RLock(c) \/ \E o \in WriteCalls \cup ReadCalls : Enter(c, o)
             \/ SSHIsConnected(c) \/ SSHGetInfo(c) \/ SSHClient(c)
             \/ SSHExecute(c) \/ SSHUpload(c) \/ SSHDownload(c)
             \/ (\E t \in Targets : HTTPConnect(c, t))
             \/ HTTPDisconnect(c) \/ HTTPIsConnected(c) \/ HTTPGetInfo(c)
             \/ HTTPTarget(c) \/ HTTPExecute(c) \/ HTTPUpload(c) \/ HTTPDownload(c)
      PROVE  ConnectionInv'
  <2>1. UNCHANGED <<dials, dialOf, overdue, client, open>>
    BY <1>6 DEF Lock, RLock, Enter, SSHIsConnected, SSHGetInfo, SSHClient, SSHExecute, SSHUpload,
                SSHDownload, Use, HTTPConnect, HTTPDisconnect, HTTPIsConnected, HTTPGetInfo,
                HTTPTarget, HTTPExecute, HTTPUpload, HTTPDownload, Send, HTTP, sshVars
  <2>2. at[c] # "dialing" /\ \A d \in Callers : d # c => at'[d] = at[d]
    <3>1. CASE Lock(c) \/ RLock(c) \/ \E o \in WriteCalls \cup ReadCalls : Enter(c, o)
      BY <1>0, <3>1 DEF Lock, RLock, Reading, Enter
    <3>2. CASE \/ SSHIsConnected(c) \/ SSHGetInfo(c) \/ SSHClient(c)
               \/ SSHExecute(c) \/ SSHUpload(c) \/ SSHDownload(c)
      BY <1>0, <3>2 DEF SSHIsConnected, SSHGetInfo, SSHClient, SSHExecute, SSHUpload,
                        SSHDownload, Use, SSH, RUnlock, Stay
    <3>3. CASE \/ (\E t \in Targets : HTTPConnect(c, t))
               \/ HTTPDisconnect(c) \/ HTTPIsConnected(c) \/ HTTPGetInfo(c)
               \/ HTTPTarget(c) \/ HTTPExecute(c) \/ HTTPUpload(c) \/ HTTPDownload(c)
      BY <1>0, <3>3 DEF HTTPConnect, HTTPDisconnect, HTTPIsConnected, HTTPGetInfo,
                HTTPTarget, HTTPExecute, HTTPUpload, HTTPDownload, Send, HTTP, RUnlock, Stay,
                Unlock, Return
    <3> QED
      BY <1>6, <3>1, <3>2, <3>3
  <2> QED
    BY <2>1, <2>2, <1>1
<1>7. CASE SSHPeer \/ HTTPPeer \/ UNCHANGED transportVars
  BY <1>1, <1>7 DEF SSHPeer, HTTPPeer, transportVars, lockVars, sshVars
<1> QED
  BY <1>2, <1>3, <1>4, <1>5, <1>6, <1>7 DEF NextTransports

\* An SSH transport leaves no connection open that it does not refer to, as
\* long as no Connect gave up on its dial.
THEOREM OneConnectionAtATime == TransportSpec => []OneConnection
<1>1. InitTransports => ConnectionInv
  BY DEF InitTransports, ConnectionInv
<1>2. LockInv /\ ConnectionInv /\ [NextTransports]_transportVars => ConnectionInv'
  BY ConnectionKept
<1>3. ConnectionInv => OneConnection
  BY DEF ConnectionInv, OneConnection
<1> QED
  BY <1>1, <1>2, <1>3, LockInvHolds, PTL DEF TransportSpec

\* What a call of the HTTP transport copied is still the target, or what it
\* tested is what it copied, unless a Connect named another target meanwhile.
TargetOf(c) ==
    c \notin moved =>
        /\ at[c] \in {"again", "testing"} /\ call[c] \in UseCalls => seen[c] = target
        /\ at[c] = "using" => seen[c] = tested[c]
TargetInv ==
    protocol = "http" =>
        /\ seen \in [Callers -> Targets \cup {0}] /\ tested \in [Callers -> Targets \cup {0}]
        /\ target \in Targets
        /\ \A c \in Callers : TargetOf(c)

\* Every step tests and uses a target as TargetInv says.
LEMMA TargetKept ==
    ASSUME LockInv, TargetInv, [NextTransports]_transportVars
    PROVE  TargetInv'
<1> USE DEF Goto
<1>0. protocol' = protocol /\ at \in [Callers -> Stops] /\ call \in [Callers -> WriteCalls \cup ReadCalls]
  <2>1. protocol' = protocol
    BY DEF NextTransports, transportVars, Lock, RLock, Enter, SSHConnect, Connected, SSHDisconnect,
           SSHIsConnected, SSHGetInfo, SSHClient, SSHExecute, SSHUpload, SSHDownload, Use, SSH,
           HTTPConnect, HTTPDisconnect, HTTPIsConnected, HTTPGetInfo, HTTPTarget, HTTPExecute,
           HTTPUpload, HTTPDownload, Send, HTTP, SSHPeer, HTTPPeer, Dialled
  <2> QED
    BY <2>1 DEF LockInv
<1> SUFFICES ASSUME protocol = "http" PROVE TargetInv'
  BY <1>0 DEF TargetInv
<1>1. /\ seen \in [Callers -> Targets \cup {0}] /\ tested \in [Callers -> Targets \cup {0}]
      /\ target \in Targets /\ \A c \in Callers : TargetOf(c)
  BY DEF TargetInv
<1>2. ASSUME NEW c \in Callers, \E o \in WriteCalls \cup ReadCalls : Enter(c, o)
      PROVE  TargetInv'
  <2>1. /\ UNCHANGED <<seen, tested, target, moved>>
        /\ \A d \in Callers : d # c => at'[d] = at[d] /\ call'[d] = call[d]
        /\ at'[c] \in {"lock", "rlock"}
    BY <1>0, <1>2 DEF Enter, httpVars
  <2> QED
    BY <1>1, <2>1 DEF TargetInv, TargetOf
<1>3. ASSUME NEW c \in Callers, Lock(c)
      PROVE  TargetInv'
  <2>1. /\ UNCHANGED <<seen, tested, target, moved, call>>
        /\ \A d \in Callers : d # c => at'[d] = at[d]
        /\ at'[c] \in {"locking", "locked"}
    BY <1>0, <1>3 DEF Lock, httpVars
  <2> QED
    BY <1>1, <2>1 DEF TargetInv, TargetOf
<1>4. ASSUME NEW c \in Callers, RLock(c)
      PROVE  TargetInv'
  <2>1. /\ DOMAIN Reading = {"rlock", "nested", "again"} /\ Reading["rlock"] = "reading"
        /\ Reading["nested"] = "testing" /\ Reading["again"] = "testing"
    BY DEF Reading
  <2>2. /\ UNCHANGED <<seen, tested, target, moved, call>>
        /\ \A d \in Callers : d # c => at'[d] = at[d]
        /\ at'[c] = Reading[at[c]] /\ at[c] \in DOMAIN Reading
    BY <1>0, <1>4 DEF RLock, httpVars
  <2>3. at[c] = "nested" => call[c] \notin UseCalls
    BY DEF LockInv, UseCalls
  <2> QED
    BY <1>1, <2>1, <2>2, <2>3 DEF TargetInv, TargetOf
<1>5. ASSUME NEW c \in Callers, NEW t \in Targets, HTTPConnect(c, t)
      PROVE  TargetInv'
  <2>1. /\ UNCHANGED <<seen, tested, call>> /\ target' = t /\ at[c] = "locked"
        /\ \A d \in Callers : d # c => at'[d] = at[d]
        /\ at'[c] = "idle"
        /\ moved' = IF t = target THEN moved
                    ELSE {d \in Callers : at[d] \in {"again", "using"}}
    BY <1>0, <1>5 DEF HTTPConnect, HTTP, Unlock, Return
  <2>2. \A d \in Callers : at[d] # "testing"
    BY <2>1 DEF LockInv
  <2>3. \A d \in Callers : TargetOf(d)'
    <3> SUFFICES ASSUME NEW d \in Callers PROVE TargetOf(d)'
      OBVIOUS
    <3>1. CASE t = target \/ d = c
      BY <1>1, <2>1, <3>1 DEF TargetOf
    <3>2. CASE t # target /\ d # c
      BY <2>1, <2>2, <3>2 DEF TargetOf
    <3> QED
      BY <3>1, <3>2
  <2> QED
    BY <1>1, <2>1, <2>3 DEF TargetInv
<1>6. ASSUME NEW c \in Callers, HTTPDisconnect(c) \/ HTTPGetInfo(c)
      PROVE  TargetInv'
  <2>1. /\ UNCHANGED <<seen, tested, target, moved, call>>
        /\ \A d \in Callers : d # c => at'[d] = at[d]
        /\ at'[c] \in {"idle", "nested"}
    BY <1>0, <1>6 DEF HTTPDisconnect, HTTPGetInfo, HTTP, Unlock, Return, Stay
  <2> QED
    BY <1>1, <2>1 DEF TargetInv, TargetOf
<1>7. ASSUME NEW c \in Callers, HTTPIsConnected(c)
      PROVE  TargetInv'
  <2>1. /\ \/ at[c] = "reading" /\ call[c] = "IsConnected"
           \/ at[c] = "testing"
        /\ UNCHANGED <<target, call>>
        /\ \A d \in Callers : d # c => at'[d] = at[d]
    BY <1>0, <1>7 DEF HTTPIsConnected, HTTP, RUnlock
  <2>2. CASE call[c] \in UseCalls /\ connected /\ testConnection
    <3>1. /\ at'[c] = "using" /\ UNCHANGED <<seen, moved>> /\ tested' = [tested EXCEPT ![c] = target]
      BY <1>0, <1>7, <2>2 DEF HTTPIsConnected, RUnlock
    <3>2. at[c] = "testing"
      BY <2>1, <2>2 DEF UseCalls
    <3>3. /\ tested' \in [Callers -> Targets \cup {0}] /\ tested'[c] = target
          /\ \A d \in Callers : d # c => tested'[d] = tested[d]
      BY <1>1, <3>1
    <3> QED
      BY <1>1, <2>1, <2>2, <3>1, <3>2, <3>3 DEF TargetInv, TargetOf
  <2>3. CASE ~ (call[c] \in UseCalls /\ connected /\ testConnection)
    <3>1. /\ at'[c] = "idle" /\ UNCHANGED tested /\ moved' = moved \ {c}
          /\ seen' = [seen EXCEPT ![c] = 0]
      BY <1>0, <1>7, <2>3 DEF HTTPIsConnected, RUnlock, Forget
    <3>2. /\ seen' \in [Callers -> Targets \cup {0}]
          /\ \A d \in Callers : d # c => seen'[d] = seen[d]
      BY <1>1, <3>1
    <3> QED
      BY <1>1, <2>1, <3>1, <3>2 DEF TargetInv, TargetOf
  <2> QED
    BY <2>2, <2>3
<1>8. ASSUME NEW c \in Callers, HTTPTarget(c)
      PROVE  TargetInv'
  <2>1. /\ UNCHANGED <<tested, target, moved, call>> /\ seen' = [seen EXCEPT ![c] = target]
        /\ \A d \in Callers : d # c => at'[d] = at[d]
        /\ at'[c] = "again"
    BY <1>0, <1>8 DEF HTTPTarget, HTTP, RUnlock
  <2>2. /\ seen' \in [Callers -> Targets \cup {0}] /\ seen'[c] = target
        /\ \A d \in Callers : d # c => seen'[d] = seen[d]
    BY <1>1, <2>1
  <2> QED
    BY <1>1, <2>1, <2>2 DEF TargetInv, TargetOf
<1>9. ASSUME NEW c \in Callers, HTTPExecute(c) \/ HTTPUpload(c) \/ HTTPDownload(c)
      PROVE  TargetInv'
  <2>1. /\ UNCHANGED <<target, call>> /\ seen' = [seen EXCEPT ![c] = 0]
        /\ tested' = [tested EXCEPT ![c] = 0] /\ moved' = moved \ {c}
        /\ \A d \in Callers : d # c => at'[d] = at[d]
        /\ at'[c] = "idle"
    BY <1>0, <1>9 DEF HTTPExecute, HTTPUpload, HTTPDownload, Send, HTTP, Stay, Forget
  <2>2. /\ seen' \in [Callers -> Targets \cup {0}] /\ tested' \in [Callers -> Targets \cup {0}]
        /\ \A d \in Callers : d # c => seen'[d] = seen[d] /\ tested'[d] = tested[d]
    BY <1>1, <2>1
  <2> QED
    BY <1>1, <2>1, <2>2 DEF TargetInv, TargetOf
<1>10. CASE HTTPPeer \/ UNCHANGED transportVars
  BY <1>1, <1>10 DEF HTTPPeer, transportVars, lockVars, httpVars, TargetInv, TargetOf
<1>11. ~ SSHPeer /\ (\A d \in Dials : ~ Dialled(d)) /\ \A c \in Callers :
          /\ ~ SSHConnect(c) /\ ~ Connected(c) /\ ~ SSHDisconnect(c)
          /\ ~ SSHIsConnected(c) /\ ~ SSHGetInfo(c) /\ ~ SSHClient(c)
          /\ ~ SSHExecute(c) /\ ~ SSHUpload(c) /\ ~ SSHDownload(c)
  BY DEF SSHPeer, Dialled, SSHConnect, Connected, SSHDisconnect, SSHIsConnected, SSHGetInfo,
         SSHClient, SSHExecute, SSHUpload, SSHDownload, Use, SSH
<1> QED
  BY <1>2, <1>3, <1>4, <1>5, <1>6, <1>7, <1>8, <1>9, <1>10, <1>11 DEF NextTransports

\* A request of the HTTP transport goes to the target that was just tested.
THEOREM RequestGoesWhereTested == TransportSpec => []SentWhereTested
<1>1. InitTransports => TargetInv
  <2> SUFFICES ASSUME InitTransports PROVE TargetInv
    OBVIOUS
  <2> QED
    BY DEF InitTransports, TargetInv, TargetOf
<1>2. LockInv /\ TargetInv /\ [NextTransports]_transportVars => TargetInv'
  BY TargetKept
<1>3. TargetInv => SentWhereTested
  BY DEF TargetInv, TargetOf, SentWhereTested
<1> QED
  BY <1>1, <1>2, <1>3, LockInvHolds, PTL DEF TransportSpec

-----------------------------------------------------------------------------
(* The rules and files of the coding agents.                               *)

ConfigSpec == InitConfig /\ [][NextConfig]_configVars

Contents == Texts \cup {None, "blank"}
RuleTexts == [Rules -> Contents]
Files == [Places \X Kinds \X Rules -> Contents]
Settings == [Places \X Agents -> {"none", "rendered", "fixed"}]

ConfigTypes ==
    /\ local \in RuleTexts /\ override \in RuleTexts /\ upstream \in [Rules -> Texts]
    /\ config \in Configs
    /\ clone \in [{"merge", "update"} -> RuleTexts] /\ lock \in RuleTexts
    /\ agents \subseteq Agents /\ trees \subseteq Worktrees
    /\ file \in Files /\ settings \in Settings

\* What the files of an apply depend on stays as it was: a worktree that was
\* served is there, and the extended repository is not cloned again.
AppliedStays ==
    /\ applied \subseteq {"root"} \cup trees
    /\ "root" \in applied /\ Rules # {} =>
          config = "plain" \/ clone["merge"] # Absent

ConfigInv == ConfigTypes /\ LockedIsMerged /\ AppliedStays /\ ApplyIsComplete

\* A clone that is made once is the clone of every later merge.
LEMMA CloneStays ==
    ASSUME ConfigTypes, NEW c \in LoadExtends
    PROVE  /\ c \in RuleTexts
           /\ clone["merge"] # Absent => c = clone["merge"]
           /\ config = "plain" => c = clone["merge"]
           /\ config # "plain" /\ Rules # {} => c # Absent
<1>1. c \in {clone["merge"], upstream}
  BY DEF LoadExtends, PullWithoutUpdate, CloneRepo
<1>2. clone["merge"] \in RuleTexts /\ upstream \in RuleTexts
  BY DEF ConfigTypes, RuleTexts, Contents
<1>3. Rules # {} => upstream # Absent
  BY DEF ConfigTypes, Absent, Texts, None
<1>4. /\ clone["merge"] # Absent => c = clone["merge"]
      /\ config = "plain" => c = clone["merge"]
      /\ config # "plain" /\ clone["merge"] = Absent => c = upstream
  BY DEF LoadExtends, PullWithoutUpdate, CloneRepo
<1> QED
  BY <1>1, <1>2, <1>3, <1>4

\* What is merged are texts of rules.
LEMMA MergedTypes ==
    ASSUME ConfigTypes, NEW c \in RuleTexts
    PROVE  /\ Merged(c).base = local
           /\ \A s \in Sources : Merged(c)[s] \in RuleTexts
           /\ \A r \in Rules : FinalRule(Merged(c), r) \in Contents
<1>1. ApplyAgentOverrides \in RuleTexts
  <2>1. \A r \in Rules : override[r] \in Contents
    BY DEF ConfigTypes, RuleTexts
  <2> QED
    BY <2>1 DEF ApplyAgentOverrides, ApplyOverrideForType, RuleTexts, Contents, Absent
<1>2. LoadTemplatesFromExtendsRepo(c) \in RuleTexts
  BY DEF LoadTemplatesFromExtendsRepo, LoadTemplatesFromDir, RuleTexts, Contents, Absent
<1>3. /\ Merged(c).base = local /\ Merged(c).override = ApplyAgentOverrides
      /\ Merged(c).plugin = LoadTemplatesFromExtendsRepo(c)
  BY DEF Merged
<1>4. \A s \in Sources : Merged(c)[s] \in RuleTexts
  BY <1>1, <1>2, <1>3 DEF Sources, ConfigTypes
<1>5. \A r \in Rules : FinalRule(Merged(c), r) \in Contents
  BY <1>1, <1>2, <1>3 DEF FinalRule, ConfigTypes, RuleTexts
<1> QED
  BY <1>3, <1>4, <1>5

\* GenerateAgentConfigs writes files of the place it is given, and no copies.
LEMMA GeneratedTypes ==
    ASSUME ConfigTypes, NEW c \in RuleTexts, NEW f \in Files, NEW place \in Places, NEW done
    PROVE  LET g == GenerateAgentConfigs(f, place, Merged(c), done) IN
           /\ g \in Files
           /\ \A k \in Places \X Kinds \X Rules : k[1] # place \/ k[2] = "copy" => g[k] = f[k]
<1> DEFINE m == Merged(c)
           h == AgentsMd(f, place, m)
<1>0. /\ \A k \in Places \X Kinds \X Rules : k[2] \in Kinds /\ k[3] \in Rules
      /\ DOMAIN f = Places \X Kinds \X Rules
      /\ "copy" \notin Sources /\ "AGENTS.md" # "copy" /\ "own" # "copy"
  BY DEF Files, Sources
<1>1. \A s \in Sources : m[s] \in RuleTexts
  BY MergedTypes
<1>2. \A r \in Rules : FinalRule(m, r) \in Contents
  BY MergedTypes
<1> HIDE DEF m
<1>3. /\ h \in Files
      /\ \A k \in Places \X Kinds \X Rules : k[1] # place \/ k[2] = "copy" => h[k] = f[k]
  BY <1>0, <1>2 DEF AgentsMd, Files
<1> HIDE DEF h
<1>4. /\ RuleFiles(h, place, m) \in Files
      /\ \A k \in Places \X Kinds \X Rules :
            k[1] # place \/ k[2] = "copy" => RuleFiles(h, place, m)[k] = h[k]
  <2>1. /\ DOMAIN AgentRules(m) \subseteq Sources
        /\ \A s \in DOMAIN AgentRules(m) : AgentRules(m)[s] = m[s]
    BY DEF AgentRules, Relevant, Sources
  <2>2. \A r \in Rules : override[r] \in Contents
    BY DEF ConfigTypes, RuleTexts
  <2>3. DOMAIN h = Places \X Kinds \X Rules
    BY <1>3 DEF Files
  <2>4. \A k \in Places \X Kinds \X Rules :
           k[2] \in DOMAIN AgentRules(m) => AgentRules(m)[k[2]][k[3]] \in Contents
    BY <1>0, <1>1, <2>1 DEF RuleTexts
  <2> QED
    BY <1>0, <1>3, <2>1, <2>2, <2>3, <2>4 DEF RuleFiles, Files
<1> QED
  BY <1>3, <1>4 DEF GenerateAgentConfigs, h, m

\* What AGENTS.md gets for a rule is the text of one of its sources, which is
\* written to a file of its own.
LEMMA GeneratedIsBacked ==
    ASSUME ConfigTypes, NEW c \in RuleTexts, NEW f \in Files, NEW done, "opencode" \in done,
           NEW q \in Rules, FinalRule(Merged(c), q) # None, NEW r \in Rules
    PROVE  LET g == GenerateAgentConfigs(f, "root", Merged(c), done)
               text == g[<<"root", "AGENTS.md", r>>] IN
           text # None => \E s \in Sources : g[<<"root", s, r>>] = text
<1> DEFINE m == Merged(c)
           h == AgentsMd(f, "root", m)
           g == RuleFiles(h, "root", m)
           final == FinalRule(m, r)
<1>1. GenerateAgentConfigs(f, "root", m, done) = g
  BY DEF GenerateAgentConfigs
<1>2. DOMAIN f = Places \X Kinds \X Rules /\ "root" \in Places /\ "AGENTS.md" \in Kinds /\ Sources \subseteq Kinds
  BY DEF Files, Places, Kinds
<1>3. h[<<"root", "AGENTS.md", r>>] = final
  <2>1. [a \in Rules |-> FinalRule(m, a)] # Absent
    BY DEF Absent
  <2>2. <<"root", "AGENTS.md", r>> \in DOMAIN f
    BY <1>2
  <2> HIDE DEF m
  <2> QED
    BY <2>1, <2>2 DEF AgentsMd
<1>4. DOMAIN h = Places \X Kinds \X Rules
  BY <1>2 DEF AgentsMd
<1>5. /\ DOMAIN AgentRules(m) = Relevant /\ "AGENTS.md" \notin Relevant
      /\ Relevant \subseteq Sources /\ \A s \in Relevant : AgentRules(m)[s] = m[s]
  BY DEF AgentRules, Relevant, Sources
<1> HIDE DEF h
<1>6. g[<<"root", "AGENTS.md", r>>] = final
  <2>1. <<"root", "AGENTS.md", r>> \in DOMAIN h
    BY <1>2, <1>4
  <2> HIDE DEF m, final
  <2> QED
    BY <1>3, <1>5, <2>1 DEF RuleFiles
<1>7. ASSUME NEW s \in Relevant, m[s][r] # None
      PROVE  g[<<"root", s, r>>] = m[s][r]
  <2>1. <<"root", s, r>> \in DOMAIN h
    BY <1>2, <1>4, <1>5
  <2> HIDE DEF m
  <2> QED
    BY <1>5, <1>7, <2>1 DEF RuleFiles
<1>8. final # None => \E s \in Relevant : m[s][r] # None /\ m[s][r] = final
  <2>1. m.plugin = m["plugin"] /\ m.override = m["override"] /\ m.base = m["base"]
    OBVIOUS
  <2> HIDE DEF m
  <2> QED
    BY <2>1 DEF FinalRule, Relevant
<1> HIDE DEF g, m, final
<1>9. g[<<"root", "AGENTS.md", r>>] # None =>
         \E s \in Sources : g[<<"root", s, r>>] = g[<<"root", "AGENTS.md", r>>]
  <2> SUFFICES ASSUME final # None
               PROVE  \E s \in Sources : g[<<"root", s, r>>] = final
    BY <1>6
  <2>1. PICK s \in Relevant : m[s][r] # None /\ m[s][r] = final
    BY <1>8
  <2> QED
    BY <1>5, <1>7, <2>1
<1> QED
  BY <1>1, <1>9 DEF m

\* The Markdown rules are copied to the project and from there to each
\* worktree found, but for those passed over; nothing else is written.
LEMMA CopiesAreMade ==
    ASSUME ConfigTypes, NEW f \in Files, NEW gone
    PROVE  LET g == GenerateOpenCode(f, gone) IN
           /\ g \in Files
           /\ \A k \in Places \X Kinds \X Rules : k[2] # "copy" => g[k] = f[k]
           /\ \A p \in {"root"} \cup Found, r \in Markdown :
                 local[r] # None /\ gone \cap {<<p, r>>, <<"root", r>>} = {}
                     => g[<<p, "copy", r>>] = local[r]
<1> DEFINE h == CopyToRoot(f, gone)
           g == CopyToTrees(h, gone)
<1>1. DOMAIN f = Places \X Kinds \X Rules /\ \A r \in Rules : local[r] \in Contents
  BY DEF Files, ConfigTypes, RuleTexts
<1>2. /\ {"root"} \cup Found \subseteq Places /\ "copy" \in Kinds /\ Markdown \subseteq Rules
      /\ Found \subseteq Worktrees /\ "root" \notin Worktrees
  BY ShippedAreRules DEF Found, Places, Kinds, ConfigTypes
<1>3. /\ h \in Files
      /\ \A k \in Places \X Kinds \X Rules : k[2] # "copy" \/ k[1] # "root" => h[k] = f[k]
      /\ \A r \in Markdown :
            local[r] # None /\ <<"root", r>> \notin gone => h[<<"root", "copy", r>>] = local[r]
  BY <1>1, <1>2 DEF CopyToRoot, Files
<1> HIDE DEF h
<1>4. DOMAIN h = Places \X Kinds \X Rules /\ \A r \in Rules : h[<<"root", "copy", r>>] \in Contents
  BY <1>2, <1>3 DEF Files
<1>5. /\ g \in Files
      /\ \A k \in Places \X Kinds \X Rules : k[2] # "copy" \/ k[1] \notin Found => g[k] = h[k]
      /\ \A p \in Found, r \in Markdown :
            h[<<"root", "copy", r>>] # None /\ <<p, r>> \notin gone
                => g[<<p, "copy", r>>] = h[<<"root", "copy", r>>]
  BY <1>2, <1>3, <1>4 DEF CopyToTrees, Files
<1> HIDE DEF g
<1>6. ASSUME NEW p \in {"root"} \cup Found, NEW r \in Markdown, local[r] # None,
             <<p, r>> \notin gone, <<"root", r>> \notin gone
      PROVE  g[<<p, "copy", r>>] = local[r]
  <2>1. h[<<"root", "copy", r>>] = local[r]
    BY <1>3, <1>6
  <2>2. CASE p \in Found
    BY <1>5, <1>6, <2>1, <2>2
  <2>3. CASE p \notin Found
    <3>1. p = "root" /\ <<p, "copy", r>> \in Places \X Kinds \X Rules /\ <<p, "copy", r>>[1] = p
      BY <1>2, <1>6, <2>3
    <3> QED
      BY <1>5, <2>1, <2>3, <3>1
  <2> QED
    BY <2>2, <2>3
<1>7. \A k \in Places \X Kinds \X Rules : k[2] # "copy" => g[k] = f[k]
  BY <1>3, <1>5
<1> QED
  BY <1>5, <1>6, <1>7 DEF GenerateOpenCode, h, g

\* Each installed agent's own file gets its fixed text, unless passed over.
LEMMA SettingsAreFixed ==
    ASSUME ConfigTypes, NEW st \in Settings, NEW gone
    PROVE  LET g == GenerateClaudeCode(GenerateClaudeDesktop(GenerateOpenCodeJSON(
                        GenerateCursor(st, gone), gone), gone), gone) IN
           /\ g \in Settings
           /\ \A p \in {"root"} \cup Found, a \in agents :
                 <<p, a>> \notin gone => g[<<p, a>>] = "fixed"
<1>1. {"root"} \cup Found \subseteq Places /\ agents \subseteq Agents
  BY DEF Found, Places, ConfigTypes
<1>2. ASSUME NEW s \in Settings, NEW a \in Agents
      PROVE  /\ Fixed(s, a, gone) \in Settings
             /\ \A p \in {"root"} \cup Found :
                   a \in agents /\ <<p, a>> \notin gone => Fixed(s, a, gone)[<<p, a>>] = "fixed"
             /\ \A k \in Places \X Agents : s[k] = "fixed" => Fixed(s, a, gone)[k] = "fixed"
  BY <1>1 DEF Fixed, Settings
<1> DEFINE s1 == GenerateCursor(st, gone)
           s2 == GenerateOpenCodeJSON(s1, gone)
           s3 == GenerateClaudeDesktop(s2, gone)
           s4 == GenerateClaudeCode(s3, gone)
<1>3. "cursor" \in Agents /\ "opencode" \in Agents /\ "claude-desktop" \in Agents /\ "claude-code" \in Agents
  BY DEF Agents
<1>4. s1 = Fixed(st, "cursor", gone) /\ s2 = Fixed(s1, "opencode", gone)
      /\ s3 = Fixed(s2, "claude-desktop", gone) /\ s4 = Fixed(s3, "claude-code", gone)
  BY DEF GenerateCursor, GenerateOpenCodeJSON, GenerateClaudeDesktop, GenerateClaudeCode
<1> HIDE DEF s1, s2, s3, s4
<1>5. /\ s1 \in Settings
      /\ \A p \in {"root"} \cup Found :
            "cursor" \in agents /\ <<p, "cursor">> \notin gone => s1[<<p, "cursor">>] = "fixed"
  BY <1>2, <1>3, <1>4
<1>6. /\ s2 \in Settings
      /\ \A p \in {"root"} \cup Found :
            "opencode" \in agents /\ <<p, "opencode">> \notin gone => s2[<<p, "opencode">>] = "fixed"
      /\ \A k \in Places \X Agents : s1[k] = "fixed" => s2[k] = "fixed"
  BY <1>2, <1>3, <1>4, <1>5
<1>7. /\ s3 \in Settings
      /\ \A p \in {"root"} \cup Found :
            "claude-desktop" \in agents /\ <<p, "claude-desktop">> \notin gone
                => s3[<<p, "claude-desktop">>] = "fixed"
      /\ \A k \in Places \X Agents : s2[k] = "fixed" => s3[k] = "fixed"
  BY <1>2, <1>3, <1>4, <1>6
<1>8. /\ s4 \in Settings
      /\ \A p \in {"root"} \cup Found :
            "claude-code" \in agents /\ <<p, "claude-code">> \notin gone
                => s4[<<p, "claude-code">>] = "fixed"
      /\ \A k \in Places \X Agents : s3[k] = "fixed" => s4[k] = "fixed"
  BY <1>2, <1>3, <1>4, <1>7, ZenonT(30)
<1>9. ASSUME NEW p \in {"root"} \cup Found, NEW a \in agents, <<p, a>> \notin gone
      PROVE  s4[<<p, a>>] = "fixed"
  <2>1. a \in {"cursor", "opencode", "claude-desktop", "claude-code"}
    BY <1>1 DEF Agents
  <2>2. \A b \in Agents : <<p, b>> \in Places \X Agents
    BY <1>1
  <2>3. CASE a = "cursor"
    BY <1>3, <1>5, <1>6, <1>7, <1>8, <1>9, <2>2, <2>3
  <2>4. CASE a = "opencode"
    BY <1>3, <1>6, <1>7, <1>8, <1>9, <2>2, <2>4
  <2>5. CASE a = "claude-desktop"
    BY <1>3, <1>7, <1>8, <1>9, <2>2, <2>5
  <2>6. CASE a = "claude-code"
    BY <1>8, <1>9, <2>6
  <2> QED
    BY <2>1, <2>3, <2>4, <2>5, <2>6
<1> QED
  BY <1>8, <1>9 DEF s1, s2, s3, s4

\* Rendering an agent's template touches the files of its place.
LEMMA RenderedTypes ==
    ASSUME ConfigTypes, NEW st \in Settings, NEW place \in Places, NEW done
    PROVE  /\ Rendered(st, place, done) \in Settings
           /\ \A k \in Places \X Agents : k[1] # place => Rendered(st, place, done)[k] = st[k]
  BY DEF Rendered, Settings

\* Nothing but the sources, the clone and the files of the project bears on
\* whether AGENTS.md is backed by rule files.
LEMMA BackedStays ==
    ASSUME MdIsBacked, UNCHANGED <<local, override, config, agents, nested>>,
           clone'["merge"] = clone["merge"],
           \A k \in Kinds, r \in Rules : file'[<<"root", k, r>>] = file[<<"root", k, r>>]
    PROVE  MdIsBacked'
<1>1. \A q \in Rules :
         FinalRule(Merged(clone["merge"]), q)' = FinalRule(Merged(clone["merge"]), q)
  BY DEF FinalRule, Merged, ApplyAgentOverrides, ApplyOverrideForType,
         LoadTemplatesFromExtendsRepo, LoadTemplatesFromDir
<1>2. Sources \subseteq Kinds /\ "AGENTS.md" \in Kinds
  BY DEF Kinds
<1> QED
  BY <1>1, <1>2 DEF MdIsBacked

\* A step that leaves the sources, and the files of the places where the last
\* apply still holds, as they are, keeps what holds of them.
LEMMA AppliedKept ==
    ASSUME ConfigInv, ConfigTypes', LockedIsMerged',
           UNCHANGED <<local, override, config, agents, nested, skipped>>,
           applied' \subseteq applied, applied' \subseteq {"root"} \cup trees',
           "root" \in applied' /\ Rules # {} => clone'["merge"] = clone["merge"],
           \A p \in applied', k \in Kinds, r \in Rules : file'[<<p, k, r>>] = file[<<p, k, r>>],
           \A p \in applied', a \in Agents : settings'[<<p, a>>] = settings[<<p, a>>]
    PROVE  ConfigInv'
<1>1. AppliedStays'
  BY DEF ConfigInv, AppliedStays, Absent
<1>2. ASSUME NEW p \in applied'
      PROVE  RulesCopied(p)' /\ SettingsFixed(p)'
  <2>1. RulesCopied(p) /\ SettingsFixed(p) /\ agents \subseteq Agents
    BY <1>2 DEF ConfigInv, ApplyIsComplete, ConfigTypes
  <2>2. "copy" \in Kinds /\ Markdown \subseteq Rules
    BY ShippedAreRules DEF Kinds
  <2>3. RulesCopied(p)'
    BY <1>2, <2>1, <2>2 DEF RulesCopied
  <2>4. SettingsFixed(p)'
    BY <1>2, <2>1 DEF SettingsFixed
  <2> QED
    BY <2>3, <2>4
<1>3. ASSUME "root" \in applied'
      PROVE  MdIsBacked'
  <2>1. CASE Rules = {}
    BY <2>1 DEF MdIsBacked
  <2>2. CASE Rules # {}
    <3>1. MdIsBacked /\ clone'["merge"] = clone["merge"]
      BY <1>3, <2>2 DEF ConfigInv, ApplyIsComplete
    <3>2. \A k \in Kinds, r \in Rules : file'[<<"root", k, r>>] = file[<<"root", k, r>>]
      BY <1>3
    <3> QED
      BY <3>1, <3>2, BackedStays
  <2> QED
    BY <2>1, <2>2
<1>4. ApplyIsComplete'
  BY <1>2, <1>3 DEF ApplyIsComplete
<1> QED
  BY <1>1, <1>4 DEF ConfigInv

\* An apply that ends early may spoil the files of the project, and leaves
\* those of the worktrees as they were.
LEMMA ApplyFailsKeeps ==
    ASSUME ConfigInv, NEW c \in LoadExtends, NEW done, ApplyFails(c, done),
           clone' = [clone EXCEPT !["merge"] = c],
           UNCHANGED <<sources, lock, installed, trees>>
    PROVE  ConfigInv'
<1> USE DEF sources, installed
<1> DEFINE g == GenerateAgentConfigs(file, "root", Merged(c), done)
<1>0. ConfigTypes /\ "root" \in Places /\ file \in Files /\ settings \in Settings
  BY DEF ConfigInv, ConfigTypes, Places
<1>1. /\ file' = g /\ settings' = Rendered(settings, "root", done)
      /\ applied' = applied \ {"root"} /\ skipped' = skipped
  BY DEF ApplyFails
<1>2. c \in RuleTexts /\ (clone["merge"] # Absent => c = clone["merge"])
  BY <1>0, CloneStays
<1>3. clone'["merge"] = c /\ clone' \in [{"merge", "update"} -> RuleTexts]
  BY <1>0, <1>2 DEF ConfigTypes
<1>4. /\ g \in Files
      /\ \A k \in Places \X Kinds \X Rules : k[1] # "root" => g[k] = file[k]
  BY <1>0, <1>2, GeneratedTypes
<1>5. /\ settings' \in Settings
      /\ \A k \in Places \X Agents : k[1] # "root" => settings'[k] = settings[k]
  BY <1>0, <1>1, RenderedTypes
<1> HIDE DEF g
<1>6. ConfigTypes'
  BY <1>0, <1>1, <1>3, <1>4, <1>5 DEF ConfigTypes
<1>7. LockedIsMerged'
  BY <1>2, <1>3 DEF ConfigInv, LockedIsMerged
<1>8. applied' \subseteq applied /\ applied' \subseteq trees /\ "root" \notin applied'
  BY <1>1 DEF ConfigInv, AppliedStays
<1>9. ASSUME NEW p \in applied', NEW k \in Kinds, NEW r \in Rules
      PROVE  file'[<<p, k, r>>] = file[<<p, k, r>>]
  <2>1. p # "root" /\ <<p, k, r>> \in Places \X Kinds \X Rules /\ <<p, k, r>>[1] = p
    BY <1>0, <1>8, <1>9 DEF Places, ConfigTypes
  <2> QED
    BY <1>1, <1>4, <2>1
<1>10. ASSUME NEW p \in applied', NEW a \in Agents
       PROVE  settings'[<<p, a>>] = settings[<<p, a>>]
  <2>1. p # "root" /\ <<p, a>> \in Places \X Agents /\ <<p, a>>[1] = p
    BY <1>0, <1>8, <1>10 DEF Places, ConfigTypes
  <2> QED
    BY <1>5, <2>1
<1> QED
  BY <1>1, <1>6, <1>7, <1>8, <1>9, <1>10, AppliedKept

\* One that comes through establishes what its history variable says of it.
LEMMA ApplySucceedsKeeps ==
    ASSUME ConfigInv, NEW c \in LoadExtends, NEW gone, ApplySucceeds(c, gone),
           clone' = [clone EXCEPT !["merge"] = c],
           UNCHANGED <<sources, lock, installed, trees>>
    PROVE  ConfigInv'
<1> USE DEF sources, installed
<1> DEFINE g == GenerateAgentConfigs(file, "root", Merged(c), Parts)
           o == GenerateOpenCode(g, gone)
           st == Rendered(settings, "root", Parts)
           s4 == GenerateClaudeCode(GenerateClaudeDesktop(GenerateOpenCodeJSON(
                     GenerateCursor(st, gone), gone), gone), gone)
<1>0. ConfigTypes /\ "root" \in Places /\ file \in Files /\ settings \in Settings
  BY DEF ConfigInv, ConfigTypes, Places
<1>1. /\ file' = IF "opencode" \in agents THEN o ELSE g
      /\ settings' = s4 /\ applied' = {"root"} \cup Found /\ skipped' = gone
  BY DEF ApplySucceeds
<1>2. /\ c \in RuleTexts
      /\ clone["merge"] # Absent => c = clone["merge"]
      /\ config = "plain" => c = clone["merge"]
      /\ config # "plain" /\ Rules # {} => c # Absent
  BY <1>0, CloneStays
<1>3. clone'["merge"] = c /\ clone' \in [{"merge", "update"} -> RuleTexts]
  BY <1>0, <1>2 DEF ConfigTypes
<1>4. g \in Files
  BY <1>0, <1>2, GeneratedTypes
<1>5. "opencode" \in agents => "opencode" \in Parts
  BY DEF Parts, Templated
<1>6. ASSUME "opencode" \in agents, NEW q \in Rules, FinalRule(Merged(c), q) # None,
             NEW r \in Rules, g[<<"root", "AGENTS.md", r>>] # None
      PROVE  \E s \in Sources : g[<<"root", s, r>>] = g[<<"root", "AGENTS.md", r>>]
  BY <1>0, <1>2, <1>5, <1>6, GeneratedIsBacked
<1> HIDE DEF g
<1>7. /\ o \in Files
      /\ \A k \in Places \X Kinds \X Rules : k[2] # "copy" => o[k] = g[k]
      /\ \A p \in {"root"} \cup Found, r \in Markdown :
            local[r] # None /\ gone \cap {<<p, r>>, <<"root", r>>} = {}
                => o[<<p, "copy", r>>] = local[r]
  BY <1>0, <1>4, CopiesAreMade
<1>8. st \in Settings
  BY <1>0, RenderedTypes
<1>9. /\ s4 \in Settings
      /\ \A p \in {"root"} \cup Found, a \in agents : <<p, a>> \notin gone => s4[<<p, a>>] = "fixed"
  BY <1>0, <1>8, SettingsAreFixed
<1> HIDE DEF o, st, s4
<1>10. ConfigTypes'
  <2>1. file' \in Files /\ settings' \in Settings
    BY <1>1, <1>4, <1>7, <1>9
  <2> QED
    BY <1>0, <1>3, <2>1 DEF ConfigTypes
<1>11. LockedIsMerged'
  BY <1>2, <1>3 DEF ConfigInv, LockedIsMerged
<1>12. AppliedStays'
  <2>1. applied' \subseteq {"root"} \cup trees'
    BY <1>1 DEF Found
  <2>2. Rules # {} => config' = "plain" \/ clone'["merge"] # Absent
    BY <1>2, <1>3
  <2> QED
    BY <2>1, <2>2 DEF AppliedStays, Absent
<1>13. ASSUME NEW p \in {"root"} \cup Found
       PROVE  RulesCopied(p)' /\ SettingsFixed(p)'
  <2>1. SettingsFixed(p)'
    BY <1>1, <1>9, <1>13 DEF SettingsFixed
  <2>2. RulesCopied(p)'
    BY <1>1, <1>7, <1>13 DEF RulesCopied
  <2> QED
    BY <2>1, <2>2
<1>14. \A q \in Rules : FinalRule(Merged(clone["merge"]), q)' = FinalRule(Merged(c), q)
  BY <1>3 DEF FinalRule, Merged, ApplyAgentOverrides, ApplyOverrideForType,
              LoadTemplatesFromExtendsRepo, LoadTemplatesFromDir
<1>15. MdIsBacked'
  <2> SUFFICES ASSUME "opencode" \in agents, NEW q \in Rules, FinalRule(Merged(c), q) # None,
                      NEW r \in Rules, file'[<<"root", "AGENTS.md", r>>] # None
               PROVE  \E s \in Sources :
                         file'[<<"root", s, r>>] = file'[<<"root", "AGENTS.md", r>>]
    BY <1>14 DEF MdIsBacked
  <2>1. ASSUME NEW k \in Sources \cup {"AGENTS.md"}
        PROVE  file'[<<"root", k, r>>] = g[<<"root", k, r>>]
    <3>1. /\ k # "copy" /\ <<"root", k, r>> \in Places \X Kinds \X Rules
          /\ <<"root", k, r>>[2] = k
      BY <1>0, <2>1 DEF Sources, Kinds
    <3> QED
      BY <1>1, <1>7, <3>1
  <2> QED
    BY <1>6, <2>1
<1> QED
  BY <1>1, <1>10, <1>11, <1>12, <1>13, <1>15 DEF ConfigInv, ApplyIsComplete

\* Apply does one or the other.
LEMMA ApplyKeeps ==
    ASSUME ConfigInv, Apply
    PROVE  ConfigInv'
<1>1. PICK c \in LoadExtends :
         /\ clone' = [clone EXCEPT !["merge"] = c]
         /\ \/ \E done \in GoesThrough : ApplyFails(c, done)
            \/ \E gone \in Skippable : ApplySucceeds(c, gone)
         /\ UNCHANGED <<sources, lock, installed, trees>>
  BY DEF Apply
<1> QED
  BY <1>1, ApplyFailsKeeps, ApplySucceedsKeeps

\* A worktree that is created gets the files of its own place.
LEMMA CreateWorktreeKeeps ==
    ASSUME ConfigInv, NEW t \in Worktrees, CreateWorktree(t)
    PROVE  ConfigInv'
<1> USE DEF sources, installed
<1> DEFINE g(c, done) == GenerateAgentConfigs(file, t, Merged(c), done)
<1>0. ConfigTypes /\ t \in Places /\ file \in Files /\ settings \in Settings
  BY DEF ConfigInv, ConfigTypes, Places
<1>1. PICK c \in LoadExtends, done \in GoesThrough :
         /\ t \notin trees /\ trees' = trees \cup {t}
         /\ clone' = [clone EXCEPT !["merge"] = c]
         /\ file' = g(c, done) /\ settings' = Rendered(settings, t, done)
         /\ UNCHANGED <<sources, lock, installed, applied, skipped>>
  BY DEF CreateWorktree
<1>2. /\ c \in RuleTexts
      /\ clone["merge"] # Absent => c = clone["merge"]
      /\ config = "plain" => c = clone["merge"]
  BY <1>0, CloneStays
<1>3. clone'["merge"] = c /\ clone' \in [{"merge", "update"} -> RuleTexts]
  BY <1>0, <1>1, <1>2 DEF ConfigTypes
<1>4. /\ g(c, done) \in Files
      /\ \A k \in Places \X Kinds \X Rules :
            k[1] # t \/ k[2] = "copy" => g(c, done)[k] = file[k]
  BY <1>0, <1>2, GeneratedTypes
<1>5. /\ settings' \in Settings
      /\ \A k \in Places \X Agents : k[1] # t => settings'[k] = settings[k]
  BY <1>0, <1>1, RenderedTypes
<1> HIDE DEF g
<1>6. ConfigTypes'
  BY <1>0, <1>1, <1>3, <1>4, <1>5 DEF ConfigTypes
<1>7. LockedIsMerged'
  BY <1>1, <1>2, <1>3 DEF ConfigInv, LockedIsMerged
<1>8. applied' \subseteq {"root"} \cup trees /\ applied' = applied /\ t \notin applied'
  BY <1>1, ShippedAreRules DEF ConfigInv, AppliedStays
<1>9. ASSUME NEW p \in applied', NEW k \in Kinds, NEW r \in Rules
      PROVE  file'[<<p, k, r>>] = file[<<p, k, r>>]
  <2>1. p # t /\ <<p, k, r>> \in Places \X Kinds \X Rules /\ <<p, k, r>>[1] = p
    BY <1>0, <1>8, <1>9 DEF Places, ConfigTypes
  <2> QED
    BY <1>1, <1>4, <2>1
<1>10. ASSUME NEW p \in applied', NEW a \in Agents
       PROVE  settings'[<<p, a>>] = settings[<<p, a>>]
  <2>1. p # t /\ <<p, a>> \in Places \X Agents /\ <<p, a>>[1] = p
    BY <1>0, <1>8, <1>10 DEF Places, ConfigTypes
  <2> QED
    BY <1>5, <2>1
<1>11. "root" \in applied' /\ Rules # {} => clone'["merge"] = clone["merge"]
  BY <1>1, <1>2, <1>3 DEF ConfigInv, AppliedStays
<1> QED
  BY <1>1, <1>6, <1>7, <1>8, <1>9, <1>10, <1>11, AppliedKept

\* A worktree that is removed takes its files along.
LEMMA RemoveWorktreeKeeps ==
    ASSUME ConfigInv, NEW t \in Worktrees, RemoveWorktree(t)
    PROVE  ConfigInv'
<1> USE DEF sources, installed
<1>0. ConfigTypes /\ file \in Files /\ settings \in Settings
  BY DEF ConfigInv, ConfigTypes
<1>1. /\ trees' = trees \ {t} /\ applied' = applied \ {t}
      /\ file' = [k \in DOMAIN file |-> IF k[1] = t THEN None ELSE file[k]]
      /\ settings' = [k \in DOMAIN settings |-> IF k[1] = t THEN "none" ELSE settings[k]]
      /\ UNCHANGED <<local, override, config, upstream, clone, lock, agents, nested, skipped>>
  BY DEF RemoveWorktree
<1>2. /\ file' \in Files
      /\ \A k \in Places \X Kinds \X Rules : k[1] # t => file'[k] = file[k]
  BY <1>0, <1>1 DEF Files, Contents
<1>3. /\ settings' \in Settings
      /\ \A k \in Places \X Agents : k[1] # t => settings'[k] = settings[k]
  BY <1>0, <1>1 DEF Settings
<1>4. ConfigTypes'
  BY <1>0, <1>1, <1>2, <1>3 DEF ConfigTypes
<1>5. LockedIsMerged'
  BY <1>1 DEF ConfigInv, LockedIsMerged
<1>6. applied' \subseteq {"root"} \cup trees' /\ applied' \subseteq Places /\ t \notin applied'
  BY <1>0, <1>1 DEF ConfigInv, AppliedStays, ConfigTypes, Places
<1>7. ASSUME NEW p \in applied', NEW k \in Kinds, NEW r \in Rules
      PROVE  file'[<<p, k, r>>] = file[<<p, k, r>>]
  <2>1. p # t /\ <<p, k, r>> \in Places \X Kinds \X Rules /\ <<p, k, r>>[1] = p
    BY <1>6, <1>7
  <2> QED
    BY <1>2, <2>1
<1>8. ASSUME NEW p \in applied', NEW a \in Agents
      PROVE  settings'[<<p, a>>] = settings[<<p, a>>]
  <2>1. p # t /\ <<p, a>> \in Places \X Agents /\ <<p, a>>[1] = p
    BY <1>6, <1>8
  <2> QED
    BY <1>3, <2>1
<1>9. applied' \subseteq applied /\ clone'["merge"] = clone["merge"]
  BY <1>1
<1> QED
  BY <1>1, <1>4, <1>5, <1>6, <1>7, <1>8, <1>9, AppliedKept

\* Update has clones of its own, and a lock pins the clone that is merged.
LEMMA UpdatesKeep ==
    ASSUME ConfigInv, Update \/ PluginUpdate
    PROVE  ConfigInv'
<1> USE DEF sources, installed, generated
<1>0. ConfigTypes
  BY DEF ConfigInv
<1>1. CASE Update
  <2>1. PICK c \in PullWithUpdate(clone["update"]) : clone' = [clone EXCEPT !["update"] = c]
    BY <1>1 DEF Update
  <2>2. c \in RuleTexts
    <3>1. c \in {clone["update"], upstream}
      BY <2>1 DEF PullWithUpdate, CloneRepo, UpdateRepo
    <3> QED
      BY <1>0, <3>1 DEF ConfigTypes, RuleTexts, Contents
  <2>3. clone'["merge"] = clone["merge"] /\ clone' \in [{"merge", "update"} -> RuleTexts]
    BY <1>0, <2>1, <2>2 DEF ConfigTypes
  <2>4. UNCHANGED <<sources, lock, installed, generated, applied, skipped>>
    BY <1>1 DEF Update
  <2>5. ConfigTypes'
    BY <1>0, <2>3, <2>4 DEF ConfigTypes
  <2>6. LockedIsMerged'
    BY <2>3, <2>4 DEF ConfigInv, LockedIsMerged
  <2>7. applied' \subseteq {"root"} \cup trees'
    BY <2>4 DEF ConfigInv, AppliedStays
  <2> QED
    BY <2>3, <2>4, <2>5, <2>6, <2>7, AppliedKept
<1>2. CASE PluginUpdate
  <2>1. lock' = clone["merge"] /\ UNCHANGED <<sources, clone, installed, generated, applied, skipped>>
    BY <1>2 DEF PluginUpdate
  <2>2. ConfigTypes'
    BY <1>0, <2>1 DEF ConfigTypes
  <2>3. LockedIsMerged'
    BY <2>1 DEF LockedIsMerged
  <2>4. applied' \subseteq {"root"} \cup trees'
    BY <2>1 DEF ConfigInv, AppliedStays
  <2> QED
    BY <2>1, <2>2, <2>3, <2>4, AppliedKept
<1> QED
  BY <1>1, <1>2

\* What a person who edits may change.
Edited ==
    /\ local' \in RuleTexts /\ override' \in RuleTexts /\ upstream' \in [Rules -> Texts]
    /\ config' \in Configs
    /\ UNCHANGED <<clone, lock, agents, trees, file, settings, nested, skipped>>
    /\ \/ applied' = {}
       \/ UNCHANGED <<local, override, config, applied>>

\* After an edit in the project no apply holds any more; one at GitHub leaves
\* the project as it is.
LEMMA EditsKeep ==
    ASSUME ConfigInv, InitProject \/ \E r \in Rules : Edit(r)
    PROVE  ConfigInv'
<1> USE DEF installed, generated
<1>0. ConfigTypes
  BY DEF ConfigInv
<1>1. Edited
  <2>1. CASE InitProject
    <3>1. local' \in RuleTexts
      <4>1. PICK new \in SUBSET Shipped :
               local' = [r \in Rules |-> IF r \in new THEN "x" ELSE local[r]]
        BY <2>1 DEF InitProject
      <4> QED
        BY <1>0, <4>1 DEF ConfigTypes, RuleTexts, Contents, Texts
    <3> QED
      BY <1>0, <2>1, <3>1 DEF InitProject, ConfigTypes, Configs, Edited
  <2>2. ASSUME NEW r \in Rules, Edit(r)
        PROVE  Edited
    <3>1. /\ applied' = {} \/ UNCHANGED <<local, override, config, applied>>
          /\ UNCHANGED <<clone, lock, installed, generated, skipped>>
      BY <2>2 DEF Edit
    <3>2. CASE \E t \in Texts \cup {None} :
                  local' = [local EXCEPT ![r] = t] /\ UNCHANGED <<override, config, upstream>>
      BY <1>0, <3>1, <3>2 DEF ConfigTypes, RuleTexts, Contents, Edited
    <3>3. CASE \E t \in Texts \cup {None, "blank"} :
                  override' = [override EXCEPT ![r] = t] /\ UNCHANGED <<local, config, upstream>>
      BY <1>0, <3>1, <3>3 DEF ConfigTypes, RuleTexts, Contents, Edited
    <3>4. CASE \E t \in Texts :
                  upstream' = [upstream EXCEPT ![r] = t] /\ UNCHANGED <<local, override, config>>
      BY <1>0, <3>1, <3>4 DEF ConfigTypes, Edited
    <3>5. CASE config' \in Configs /\ UNCHANGED <<local, override, upstream>>
      BY <1>0, <3>1, <3>5 DEF ConfigTypes, Edited
    <3> QED
      BY <2>2, <3>2, <3>3, <3>4, <3>5 DEF Edit
  <2> QED
    BY <2>1, <2>2
<1>2. ConfigTypes'
  BY <1>0, <1>1 DEF ConfigTypes, Edited
<1>3. LockedIsMerged'
  BY <1>1 DEF ConfigInv, LockedIsMerged, Edited
<1>4. CASE applied' = {}
  BY <1>2, <1>3, <1>4 DEF ConfigInv, AppliedStays, ApplyIsComplete
<1>5. CASE UNCHANGED <<local, override, config, applied>>
  <2>1. applied' \subseteq {"root"} \cup trees'
    BY <1>1, <1>5 DEF ConfigInv, AppliedStays, Edited
  <2> QED
    BY <1>1, <1>2, <1>3, <1>5, <2>1, AppliedKept DEF Edited
<1> QED
  BY <1>1, <1>4, <1>5 DEF Edited

\* In every behaviour of the configuration, what is locked and what is applied
\* agree with the files as ConfigInv says.
LEMMA ConfigInvHolds == ConfigSpec => []ConfigInv
<1>1. InitConfig => ConfigInv
  <2> SUFFICES ASSUME InitConfig PROVE ConfigInv
    OBVIOUS
  <2>1. Absent \in RuleTexts
    BY DEF Absent, RuleTexts, Contents
  <2>2. clone \in [{"merge", "update"} -> RuleTexts] /\ local \in RuleTexts
    BY <2>1 DEF InitConfig, RuleTexts, Contents, Texts
  <2>3. file \in Files /\ settings \in Settings /\ upstream \in [Rules -> Texts]
    BY DEF InitConfig, Files, Settings, Contents, Texts
  <2>4. agents \subseteq Agents
    BY DEF InitConfig, DetectInstalledAgents
  <2>5. ConfigTypes
    BY <2>1, <2>2, <2>3, <2>4 DEF InitConfig, ConfigTypes, Configs
  <2> QED
    BY <2>5 DEF InitConfig, ConfigInv, LockedIsMerged, AppliedStays, ApplyIsComplete
<1>2. ConfigInv /\ [NextConfig]_configVars => ConfigInv'
  <2> SUFFICES ASSUME ConfigInv, [NextConfig]_configVars PROVE ConfigInv'
    OBVIOUS
  <2>1. CASE Apply
    BY <2>1, ApplyKeeps
  <2>2. CASE Update \/ PluginUpdate
    BY <2>2, UpdatesKeep
  <2>3. CASE InitProject \/ \E r \in Rules : Edit(r)
    BY <2>3, EditsKeep
  <2>4. ASSUME NEW t \in Worktrees, CreateWorktree(t) \/ RemoveWorktree(t)
        PROVE  ConfigInv'
    BY <2>4, CreateWorktreeKeeps, RemoveWorktreeKeeps
  <2>5. CASE UNCHANGED configVars
    <3>1. ConfigTypes'
      BY <2>5 DEF configVars, ConfigInv, ConfigTypes
    <3>2. LockedIsMerged'
      BY <2>5 DEF configVars, ConfigInv, LockedIsMerged
    <3>3. applied' \subseteq {"root"} \cup trees'
      BY <2>5 DEF configVars, ConfigInv, AppliedStays
    <3> QED
      BY <2>5, <3>1, <3>2, <3>3, AppliedKept DEF configVars
  <2> QED
    BY <2>1, <2>2, <2>3, <2>4, <2>5 DEF NextConfig
<1> QED
  BY <1>1, <1>2, PTL DEF ConfigSpec

\* As long as nobody edits a source after an apply, its results are in the
\* project and in each worktree that was there, whatever else is run and
\* however it fails; what an apply passed over is excepted
\* (ctrl.go:662-1100, config.go:240-396).
THEOREM AppliedIsComplete == ConfigSpec => []ApplyIsComplete
<1>1. ConfigInv => ApplyIsComplete
  BY DEF ConfigInv
<1> QED
  BY <1>1, ConfigInvHolds, PTL

\* What nexus.lock pins is what later commands merge (manager.go:165-175,
\* ctrl.go:1153-1226).
THEOREM LockedStaysMerged == ConfigSpec => []LockedIsMerged
<1>1. ConfigInv => LockedIsMerged
  BY DEF ConfigInv
<1> QED
  BY <1>1, ConfigInvHolds, PTL

-----------------------------------------------------------------------------
(* The locks of the workspace manager.                                     *)

LocksSpec == InitLocks /\ [][NextLocks]_lockingVars

OpKinds == {"RLock", "RUnlock", "Lock", "locking", "Unlock"}
Operation == [kind : OpKinds, m : Mutexes]

\* Which operations stand beside one another in a request: what opens a lock is
\* closed next, but for the read lock of the table, which a list holds longer.
Opening(x, m) == x.kind = "RLock" /\ x.m = m
Closing(x, m) == x.kind = "RUnlock" /\ x.m = m
Beside(x, y) ==
    /\ x.kind = "Lock" <=> y.kind = "locking"
    /\ x.kind = "locking" <=> y.kind = "Unlock"
    /\ x.kind \in {"Lock", "locking"} => x.m = y.m
    /\ Opening(x, "ws") <=> Closing(y, "ws")

\* A request takes a lock first and releases one last ...
Paired(t) ==
    /\ t \in Seq(Operation) /\ t # <<>>
    /\ t[1].kind \in {"RLock", "Lock"} /\ t[Len(t)].kind \in {"RUnlock", "Unlock"}
    /\ \A i \in 1 .. Len(t) - 1 : Beside(t[i], t[i + 1])
\* ... one that is not a list closes the table, too, as soon as it has opened it ...
Plain(t) == \A i \in 1 .. Len(t) - 1 : Opening(t[i], "wm") <=> Closing(t[i + 1], "wm")
\* ... and most do not write the table.
NoTableWrite(t) == \A i \in 1 .. Len(t) : t[i].m = "wm" => t[i].kind \in {"RLock", "RUnlock"}

\* The fields of an operation.
LEMMA OpFacts ==
    ASSUME NEW k \in OpKinds, NEW m \in Mutexes
    PROVE  Op(k, m) \in Operation /\ Op(k, m).kind = k /\ Op(k, m).m = m
BY DEF Op, Operation

\* A read lock that is released next.
LEMMA ReadFacts ==
    ASSUME NEW m \in Mutexes
    PROVE  Paired(Read(m)) /\ Plain(Read(m)) /\ NoTableWrite(Read(m))
<1> DEFINE x == Op("RLock", m)  y == Op("RUnlock", m)
<1>1. /\ x \in Operation /\ x.kind = "RLock" /\ x.m = m
      /\ y \in Operation /\ y.kind = "RUnlock" /\ y.m = m
  BY OpFacts DEF OpKinds
<1>2. Read(m) = <<x, y>>
  BY DEF Read
<1> HIDE DEF x, y
<1>3. /\ Read(m) \in Seq(Operation) /\ Len(Read(m)) = 2 /\ Read(m) # <<>>
      /\ Read(m)[1] = x /\ Read(m)[2] = y
  BY <1>1, <1>2
<1>4. Beside(x, y) /\ (Opening(x, "wm") <=> Closing(y, "wm"))
  BY <1>1 DEF Beside, Opening, Closing
<1>5. \A i \in 1 .. Len(Read(m)) - 1 : i = 1
  BY <1>3
<1>6. \A i \in 1 .. Len(Read(m)) : i = 1 \/ i = 2
  BY <1>3
<1> QED
  BY <1>1, <1>3, <1>4, <1>5, <1>6 DEF Paired, Plain, NoTableWrite

\* A write lock, announced, waited for and released.
LEMMA WriteFacts ==
    ASSUME NEW m \in Mutexes
    PROVE  Paired(Write(m)) /\ Plain(Write(m)) /\ (m = "ws" => NoTableWrite(Write(m)))
<1> DEFINE x == Op("Lock", m)  y == Op("locking", m)  z == Op("Unlock", m)
<1>1. /\ x \in Operation /\ x.kind = "Lock" /\ x.m = m
      /\ y \in Operation /\ y.kind = "locking" /\ y.m = m
      /\ z \in Operation /\ z.kind = "Unlock" /\ z.m = m
  BY OpFacts DEF OpKinds
<1>2. Write(m) = <<x, y, z>>
  BY DEF Write
<1> HIDE DEF x, y, z
<1>3. /\ Write(m) \in Seq(Operation) /\ Len(Write(m)) = 3 /\ Write(m) # <<>>
      /\ Write(m)[1] = x /\ Write(m)[2] = y /\ Write(m)[3] = z
  BY <1>1, <1>2
<1>4. /\ Beside(x, y) /\ (Opening(x, "wm") <=> Closing(y, "wm"))
      /\ Beside(y, z) /\ (Opening(y, "wm") <=> Closing(z, "wm"))
  BY <1>1 DEF Beside, Opening, Closing
<1>5. \A i \in 1 .. Len(Write(m)) - 1 : i = 1 \/ i = 2
  BY <1>3
<1>6. \A i \in 1 .. Len(Write(m)) : i = 1 \/ i = 2 \/ i = 3
  BY <1>3
<1>7. Paired(Write(m))
  BY <1>1, <1>3, <1>4, <1>5, 1 + 1 = 2, 2 + 1 = 3 DEF Paired
<1>8. Plain(Write(m))
  BY <1>3, <1>4, <1>5, 1 + 1 = 2, 2 + 1 = 3 DEF Plain
<1>9. m = "ws" => NoTableWrite(Write(m))
  BY <1>1, <1>3, <1>6 DEF NoTableWrite
<1> QED
  BY <1>7, <1>8, <1>9

\* Requests one after the other are a request of the same kind.
LEMMA OneAfterTheOther ==
    ASSUME NEW s, NEW t, Paired(s), Paired(t), Plain(s), Plain(t)
    PROVE  /\ Paired(s \o t) /\ Plain(s \o t)
           /\ NoTableWrite(s) /\ NoTableWrite(t) => NoTableWrite(s \o t)
<1>1. /\ s \in Seq(Operation) /\ t \in Seq(Operation) /\ s \o t \in Seq(Operation)
      /\ Len(s \o t) = Len(s) + Len(t) /\ Len(s) \in Nat \ {0} /\ Len(t) \in Nat \ {0}
      /\ \A i \in 1 .. Len(s) : (s \o t)[i] = s[i]
      /\ \A i \in 1 .. Len(t) : (s \o t)[Len(s) + i] = t[i]
  BY DEF Paired
<1>2. ASSUME NEW i \in 1 .. Len(s \o t) - 1
      PROVE  /\ Beside((s \o t)[i], (s \o t)[i + 1])
             /\ Opening((s \o t)[i], "wm") <=> Closing((s \o t)[i + 1], "wm")
  <2>1. CASE i < Len(s)
    <3>1. (s \o t)[i] = s[i] /\ (s \o t)[i + 1] = s[i + 1] /\ i \in 1 .. Len(s) - 1
      BY <1>1, <1>2, <2>1
    <3> QED
      BY <3>1 DEF Paired, Plain
  <2>2. CASE i = Len(s)
    <3>1. (s \o t)[i] = s[Len(s)] /\ (s \o t)[i + 1] = t[1]
      BY <1>1, <1>2, <2>2
    <3> QED
      BY <3>1 DEF Paired, Beside, Opening, Closing
  <2>3. CASE i > Len(s)
    <3> DEFINE j == i - Len(s)
    <3>1. /\ j \in 1 .. Len(t) - 1 /\ j \in 1 .. Len(t) /\ j + 1 \in 1 .. Len(t)
          /\ i = Len(s) + j /\ i + 1 = Len(s) + (j + 1)
      BY <1>1, <1>2, <2>3
    <3> HIDE DEF j
    <3>2. (s \o t)[i] = t[j] /\ (s \o t)[i + 1] = t[j + 1]
      BY <1>1, <3>1
    <3> QED
      BY <3>1, <3>2 DEF Paired, Plain
  <2> QED
    BY <1>1, <1>2, <2>1, <2>2, <2>3
<1>3. ASSUME NoTableWrite(s), NoTableWrite(t), NEW i \in 1 .. Len(s \o t)
      PROVE  (s \o t)[i].m = "wm" => (s \o t)[i].kind \in {"RLock", "RUnlock"}
  <2>1. CASE i <= Len(s)
    BY <1>1, <1>3, <2>1 DEF NoTableWrite
  <2>2. CASE i > Len(s)
    <3>1. i - Len(s) \in 1 .. Len(t) /\ i = Len(s) + (i - Len(s))
      BY <1>1, <1>3, <2>2
    <3>2. (s \o t)[i] = t[i - Len(s)]
      BY <1>1, <3>1
    <3> QED
      BY <1>3, <3>1, <3>2 DEF NoTableWrite
  <2> QED
    BY <1>1, <1>3, <2>1, <2>2
<1>4. /\ (s \o t)[1] = s[1] /\ (s \o t)[Len(s \o t)] = t[Len(t)] /\ s \o t # <<>>
  BY <1>1
<1>5. NoTableWrite(s) /\ NoTableWrite(t) => NoTableWrite(s \o t)
  BY <1>3 DEF NoTableWrite
<1>6. Paired(s \o t)
  BY <1>1, <1>2, <1>4 DEF Paired
<1>7. Plain(s \o t)
  BY <1>2 DEF Plain
<1> QED
  BY <1>5, <1>6, <1>7

\* The requests but the list.
LEMMA PlainRoutes ==
    ASSUME NEW kind \in Handled \ {"list"}
    PROVE  /\ Paired(RegisterRoutes(kind)) /\ Plain(RegisterRoutes(kind))
           /\ kind \notin {"create", "delete"} => NoTableWrite(RegisterRoutes(kind))
<1> DEFINE Good(t) == Paired(t) /\ Plain(t)
           Sound(t) == Good(t) /\ NoTableWrite(t)
<1>1. \A s, t : Good(s) /\ Good(t) => Good(s \o t)
  BY OneAfterTheOther
<1>2. \A s, t : Sound(s) /\ Sound(t) => Sound(s \o t)
  BY OneAfterTheOther
<1>3. Sound(Read("wm")) /\ Sound(Read("ws")) /\ Sound(Write("ws")) /\ Good(Write("wm"))
  BY ReadFacts, WriteFacts DEF Mutexes
<1>4. Good(Read("wm"))
  BY <1>3
<1> HIDE DEF Good, Sound
<1>5. Good(CreateRequest) /\ Good(DeleteRequest)
  BY <1>1, <1>3, <1>4 DEF CreateRequest, DeleteRequest
<1>6. Sound(StatusRequest) /\ Sound(HealthRequest) /\ Sound(StartServicesRequest)
  BY <1>2, <1>3 DEF StatusRequest, HealthRequest, StartServicesRequest
<1>7. Sound(StopRequest)
  BY <1>2, <1>3, <1>6 DEF StopRequest
<1>8. Sound(RunHealthCheck)
  BY <1>2, <1>3 DEF RunHealthCheck
<1>9. kind \in {"create", "delete"} => Good(RegisterRoutes(kind))
  BY <1>5 DEF RegisterRoutes, HandleWorkspaceAction
<1>10. kind \notin {"create", "delete"} => Sound(RegisterRoutes(kind))
  BY <1>6, <1>7, <1>8 DEF RegisterRoutes, HandleWorkspaceAction, Handled
<1> USE DEF Good, Sound
<1> QED
  BY <1>9, <1>10

\* The operations of a list by their place.
ListOp(i) ==
    CASE i = 1 -> Op("RLock", "wm")
      [] i = ListLength -> Op("RUnlock", "wm")
      [] OTHER -> CASE (i - 2) % 4 = 0 -> Op("RLock", "wm")
                    [] (i - 2) % 4 = 1 -> Op("RUnlock", "wm")
                    [] (i - 2) % 4 = 2 -> Op("RLock", "ws")
                    [] (i - 2) % 4 = 3 -> Op("RUnlock", "ws")

\* A list is the sequence of its operations.
LEMMA ListFacts ==
    /\ ListLength \in Nat /\ ListLength >= 2 /\ (ListLength - 2) % 4 = 0
    /\ ListRequest \in Seq(Operation) /\ Len(ListRequest) = ListLength
    /\ \A i \in 1 .. ListLength : ListRequest[i] = ListOp(i)
<1>1. ListLength \in Nat /\ ListLength >= 2 /\ (ListLength - 2) % 4 = 0
  BY TabledAssumption DEF ListLength
<1>2. /\ StatusRequest[1] = Op("RLock", "wm") /\ StatusRequest[2] = Op("RUnlock", "wm")
      /\ StatusRequest[3] = Op("RLock", "ws") /\ StatusRequest[4] = Op("RUnlock", "ws")
  BY DEF StatusRequest, Read
<1>3. ASSUME NEW i \in 1 .. ListLength
      PROVE  ListRequest[i] = ListOp(i) /\ ListOp(i) \in Operation
  <2>1. /\ Op("RLock", "wm") \in Operation /\ Op("RUnlock", "wm") \in Operation
        /\ Op("RLock", "ws") \in Operation /\ Op("RUnlock", "ws") \in Operation
    BY OpFacts DEF OpKinds, Mutexes
  <2>2. (i - 2) % 4 \in 0 .. 3
    BY <1>1
  <2>3. 1 + ((i - 2) % 4) = 1 \/ 1 + ((i - 2) % 4) = 2 \/ 1 + ((i - 2) % 4) = 3 \/ 1 + ((i - 2) % 4) = 4
    BY <2>2
  <2>4. ListRequest[i] = CASE i = 1 -> Op("RLock", "wm")
                           [] i = ListLength -> Op("RUnlock", "wm")
                           [] OTHER -> StatusRequest[1 + ((i - 2) % 4)]
    BY DEF ListRequest
  <2>5. CASE i = 1 \/ i = ListLength
    BY <2>1, <2>4, <2>5, <1>1 DEF ListOp
  <2>6. CASE i # 1 /\ i # ListLength
    <3>1. ListRequest[i] = StatusRequest[1 + ((i - 2) % 4)]
      BY <2>4, <2>6
    <3>2. ListOp(i) = CASE (i - 2) % 4 = 0 -> Op("RLock", "wm")
                        [] (i - 2) % 4 = 1 -> Op("RUnlock", "wm")
                        [] (i - 2) % 4 = 2 -> Op("RLock", "ws")
                        [] (i - 2) % 4 = 3 -> Op("RUnlock", "ws")
      BY <2>6 DEF ListOp
    <3> DEFINE k == (i - 2) % 4
    <3>3. k = 0 \/ k = 1 \/ k = 2 \/ k = 3
      BY <2>2
    <3>4. ListRequest[i] = StatusRequest[k + 1]
      BY <3>1
    <3>5. ListOp(i) = CASE k = 0 -> Op("RLock", "wm") [] k = 1 -> Op("RUnlock", "wm")
                        [] k = 2 -> Op("RLock", "ws") [] k = 3 -> Op("RUnlock", "ws")
      BY <3>2
    <3> HIDE DEF k
    <3> QED
      BY <1>2, <2>1, <3>3, <3>4, <3>5
  <2> QED
    BY <2>5, <2>6
<1>4. ListRequest \in [1 .. ListLength -> Operation]
  BY <1>3 DEF ListRequest
<1>5. ListRequest \in Seq(Operation) /\ Len(ListRequest) = ListLength
  BY <1>1, <1>4
<1> QED
  BY <1>1, <1>3, <1>5

\* What an operation of a list opens or closes.
LEMMA ListOps ==
    ASSUME NEW i \in 1 .. ListLength
    PROVE  /\ ListOp(i) \in Operation /\ ListOp(i).kind \in {"RLock", "RUnlock"}
           /\ Opening(ListOp(i), "ws") <=> (i # 1 /\ i # ListLength /\ (i - 2) % 4 = 2)
           /\ Closing(ListOp(i), "ws") <=> (i # 1 /\ i # ListLength /\ (i - 2) % 4 = 3)
           /\ Opening(ListOp(i), "wm") <=> (i = 1 \/ (i # ListLength /\ (i - 2) % 4 = 0))
           /\ Closing(ListOp(i), "wm") <=> (i = ListLength \/ (i # 1 /\ (i - 2) % 4 = 1))
<1>1. ListLength \in Nat /\ ListLength >= 2 /\ (ListLength - 2) % 4 = 0
  BY ListFacts
<1>2. \A k \in {"RLock", "RUnlock"}, m \in Mutexes :
         Op(k, m) \in Operation /\ Op(k, m).kind = k /\ Op(k, m).m = m
  BY OpFacts DEF OpKinds
<1>3. CASE i = 1
  <2>1. i # ListLength
    BY <1>1, <1>3
  <2>2. ListOp(i) = Op("RLock", "wm")
    BY <1>3, <2>1 DEF ListOp
  <2> QED
    BY <1>2, <1>3, <2>1, <2>2 DEF Opening, Closing, Mutexes
<1>4. CASE i = ListLength
  <2>1. i # 1
    BY <1>1, <1>4
  <2>2. ListOp(i) = Op("RUnlock", "wm")
    BY <1>4, <2>1 DEF ListOp
  <2>3. (i - 2) % 4 # 1
    BY <1>1, <1>4
  <2> QED
    BY <1>2, <1>4, <2>1, <2>2 DEF Opening, Closing, Mutexes
<1>5. CASE i # 1 /\ i # ListLength
  <2> DEFINE k == (i - 2) % 4
  <2>1. k = 0 \/ k = 1 \/ k = 2 \/ k = 3
    BY <1>1
  <2>2. ListOp(i) = CASE k = 0 -> Op("RLock", "wm") [] k = 1 -> Op("RUnlock", "wm")
                      [] k = 2 -> Op("RLock", "ws") [] k = 3 -> Op("RUnlock", "ws")
    BY <1>5 DEF ListOp
  <2> HIDE DEF k
  <2>3. /\ ListOp(i) \in Operation /\ ListOp(i).kind \in {"RLock", "RUnlock"}
        /\ (Opening(ListOp(i), "ws") <=> k = 2) /\ (Closing(ListOp(i), "ws") <=> k = 3)
        /\ (Opening(ListOp(i), "wm") <=> k = 0) /\ (Closing(ListOp(i), "wm") <=> k = 1)
    BY <1>2, <2>1, <2>2 DEF Opening, Closing, Mutexes
  <2> USE DEF k
  <2> QED
    BY <1>5, <2>3
<1> QED
  BY <1>3, <1>4, <1>5

\* A list pairs its locks, and does not write the table.
LEMMA ListPaired == Paired(ListRequest) /\ NoTableWrite(ListRequest)
<1>1. /\ ListLength \in Nat /\ ListLength >= 2 /\ (ListLength - 2) % 4 = 0
      /\ ListRequest \in Seq(Operation) /\ Len(ListRequest) = ListLength
      /\ \A i \in 1 .. ListLength : ListRequest[i] = ListOp(i)
  BY ListFacts
<1>2. ASSUME NEW i \in 1 .. ListLength - 1
      PROVE  Beside(ListOp(i), ListOp(i + 1))
  <2>1. i \in 1 .. ListLength /\ i + 1 \in 1 .. ListLength /\ i # ListLength /\ i + 1 # 1
    BY <1>1, <1>2
  <2>2. i # 1 /\ (i - 2) % 4 = 2 <=> i + 1 # ListLength /\ ((i + 1) - 2) % 4 = 3
    BY <1>1, <2>1
  <2>3. Opening(ListOp(i), "ws") <=> Closing(ListOp(i + 1), "ws")
    BY <2>1, <2>2, ListOps
  <2>4. ListOp(i).kind \in {"RLock", "RUnlock"} /\ ListOp(i + 1).kind \in {"RLock", "RUnlock"}
    BY <2>1, ListOps
  <2> QED
    BY <2>3, <2>4 DEF Beside
<1>3. /\ ListOp(1).kind = "RLock" /\ ListOp(ListLength).kind = "RUnlock"
      /\ 1 \in 1 .. ListLength /\ ListLength \in 1 .. ListLength
  BY <1>1, ListOps, OpFacts DEF ListOp, OpKinds, Mutexes
<1>4. \A i \in 1 .. ListLength - 1 : i \in 1 .. ListLength /\ i + 1 \in 1 .. ListLength
  BY <1>1
<1>5. Paired(ListRequest)
  BY <1>1, <1>2, <1>3, <1>4 DEF Paired
<1>6. NoTableWrite(ListRequest)
  BY <1>1, ListOps DEF NoTableWrite
<1> QED
  BY <1>5, <1>6

-----------------------------------------------------------------------------
(* What is left of a request.                                              *)

\* t is the end of the request s.
IsRest(t, s) ==
    /\ t \in Seq(Operation) /\ Len(t) <= Len(s)
    /\ \A i \in 1 .. Len(t) : t[i] = s[Len(s) - Len(t) + i]

\* How often a list that has t left holds the read lock of the table.
ListReads(t) ==
    IF t = <<>> \/ Len(t) = ListLength THEN 0
    ELSE IF Len(t) > 1 /\ Closing(Head(t), "wm") THEN 2 ELSE 1

\* What is left of a request after its next operation, and how the two agree.
LEMMA RestFacts ==
    ASSUME NEW t, NEW s, Paired(s), IsRest(t, s), t # <<>>
    PROVE  /\ Head(t) \in Operation /\ Tail(t) \in Seq(Operation) /\ IsRest(Tail(t), s)
           /\ Tail(t) = <<>> => Head(t).kind \in {"RUnlock", "Unlock"}
           /\ Tail(t) # <<>> => /\ Head(Tail(t)) \in Operation
                                /\ Beside(Head(t), Head(Tail(t)))
                                /\ Plain(s) => (Opening(Head(t), "wm") <=> Closing(Head(Tail(t)), "wm"))
           /\ NoTableWrite(s) => (Head(t).m = "wm" => Head(t).kind \in {"RLock", "RUnlock"})
<1> DEFINE n == Len(s)  k == Len(t)
<1>1. /\ s \in Seq(Operation) /\ n \in Nat /\ k \in Nat /\ k > 0 /\ k <= n
      /\ t \in Seq(Operation)
      /\ Head(t) = t[1] /\ Tail(t) \in Seq(Operation) /\ Len(Tail(t)) = k - 1
      /\ \A i \in 1 .. k - 1 : Tail(t)[i] = t[i + 1]
      /\ \A i \in 1 .. k : t[i] = s[n - k + i]
  BY DEF Paired, IsRest
<1> HIDE DEF n, k
<1>2. Head(t) = s[n - k + 1] /\ n - k + 1 \in 1 .. n
  BY <1>1
<1>3. IsRest(Tail(t), s)
  <2>1. ASSUME NEW i \in 1 .. k - 1 PROVE Tail(t)[i] = s[n - (k - 1) + i]
    <3>1. i + 1 \in 1 .. k /\ n - k + (i + 1) = n - (k - 1) + i
      BY <1>1, <2>1
    <3> QED
      BY <1>1, <3>1
  <2> QED
    BY <1>1, <2>1 DEF IsRest, n
<1>4. ASSUME Tail(t) = <<>> PROVE Head(t).kind \in {"RUnlock", "Unlock"}
  <2>1. k = 1
    <3> DEFINE u == Tail(t)
    <3>1. u = <<>> /\ Len(u) = k - 1
      BY <1>1, <1>4
    <3> HIDE DEF u
    <3>2. Len(u) = 0
      BY <3>1
    <3> QED
      BY <1>1, <3>1, <3>2
  <2> QED
    BY <1>1, <1>2, <2>1 DEF Paired, n
<1>5. ASSUME Tail(t) # <<>>
      PROVE  /\ Head(Tail(t)) = s[(n - k + 1) + 1]
             /\ n - k + 1 \in 1 .. n - 1 /\ (n - k + 1) + 1 \in 1 .. n
  <2>1. k - 1 > 0 /\ Head(Tail(t)) = Tail(t)[1] /\ 1 \in 1 .. k - 1
    BY <1>1, <1>5
  <2>2. Tail(t)[1] = t[2] /\ 2 \in 1 .. k
    BY <1>1, <2>1, 1 + 1 = 2
  <2> QED
    BY <1>1, <2>1, <2>2, n - k + 2 = (n - k + 1) + 1
<1>6. ASSUME Tail(t) # <<>>
      PROVE  /\ Head(Tail(t)) \in Operation
             /\ Beside(Head(t), Head(Tail(t)))
             /\ Plain(s) => (Opening(Head(t), "wm") <=> Closing(Head(Tail(t)), "wm"))
  <2>1. /\ Head(t) = s[n - k + 1] /\ Head(Tail(t)) = s[(n - k + 1) + 1]
        /\ n - k + 1 \in 1 .. n - 1 /\ (n - k + 1) + 1 \in 1 .. n
    BY <1>2, <1>5, <1>6
  <2>2. Beside(Head(t), Head(Tail(t)))
    BY <2>1 DEF Paired, n
  <2>3. Plain(s) => (Opening(Head(t), "wm") <=> Closing(Head(Tail(t)), "wm"))
    BY <2>1 DEF Plain, n
  <2>4. Head(Tail(t)) \in Operation
    BY <1>1, <2>1 DEF n
  <2> QED
    BY <2>2, <2>3, <2>4
<1>7. NoTableWrite(s) => (Head(t).m = "wm" => Head(t).kind \in {"RLock", "RUnlock"})
  BY <1>2 DEF NoTableWrite, n
<1>8. Head(t) \in Operation
  BY <1>1, <1>2 DEF n
<1> QED
  BY <1>1, <1>3, <1>4, <1>6, <1>7, <1>8

\* How the next operation of a list changes what it reads.
LEMMA ListReadsNext ==
    ASSUME NEW t, IsRest(t, ListRequest), t # <<>>
    PROVE  /\ Opening(Head(t), "wm") => ListReads(Tail(t)) = ListReads(t) + 1
           /\ Closing(Head(t), "wm") => ListReads(Tail(t)) = ListReads(t) - 1
           /\ ~ Opening(Head(t), "wm") /\ ~ Closing(Head(t), "wm") => ListReads(Tail(t)) = ListReads(t)
           /\ Opening(Head(t), "wm") /\ ListReads(t) # 0 => ListReads(t) = 1
           /\ Head(t).kind \in {"RLock", "RUnlock"}
<1> DEFINE n == ListLength  k == Len(t)  u == Tail(t)  i == (n - k) + 1
<1>1. n \in Nat /\ n >= 2 /\ (n - 2) % 4 = 0
  BY ListFacts
<1>2. /\ k \in Nat /\ k > 0 /\ k <= n /\ i \in 1 .. n
      /\ Head(t) = ListOp(i) /\ Len(u) = k - 1 /\ (u = <<>> <=> k = 1)
  <2>1. /\ t \in Seq(Operation) /\ Len(ListRequest) = n /\ k \in Nat /\ k > 0 /\ k <= n
        /\ \A j \in 1 .. k : t[j] = ListRequest[n - k + j]
        /\ \A j \in 1 .. n : ListRequest[j] = ListOp(j)
    BY ListFacts DEF IsRest
  <2>2. Head(t) = t[1] /\ Len(u) = k - 1
    BY <2>1
  <2>3. u = <<>> <=> k = 1
    <3>1. u \in Seq(Operation) /\ Len(u) = k - 1
      BY <2>1
    <3> HIDE DEF u
    <3>2. ASSUME u = <<>> PROVE Len(u) = 0
      BY <3>2
    <3>3. ASSUME Len(u) = 0 PROVE u = <<>>
      BY <3>1, <3>3
    <3> QED
      BY <2>1, <3>1, <3>2, <3>3
  <2>4. i \in 1 .. n /\ 1 \in 1 .. k
    BY <1>1, <2>1
  <2> QED
    BY <2>1, <2>2, <2>3, <2>4
<1>3. k # 1 => /\ i + 1 \in 1 .. n /\ Head(u) = ListOp(i + 1)
  <2> SUFFICES ASSUME k # 1
               PROVE  i + 1 \in 1 .. n /\ Head(u) = ListOp(i + 1)
    OBVIOUS
  <2>1. i + 1 \in 1 .. n
    BY <1>1, <1>2
  <2>2. Head(u) = t[2] /\ t[2] = ListRequest[n - k + 2]
    <3>1. /\ t \in Seq(Operation) /\ Len(ListRequest) = n
          /\ \A j \in 1 .. k : t[j] = ListRequest[n - k + j]
      BY ListFacts DEF IsRest
    <3>2. u \in Seq(Operation) /\ u # <<>> /\ 2 \in 1 .. k
      BY <1>2, <3>1
    <3>3. Head(u) = u[1] /\ u[1] = t[2]
      BY <3>1, <3>2
    <3> QED
      BY <3>1, <3>2, <3>3
  <2> QED
    BY <1>1, <1>2, <2>1, <2>2, ListFacts
<1>4. ListReads(t) = IF k = n THEN 0 ELSE IF k > 1 /\ Closing(Head(t), "wm") THEN 2 ELSE 1
  BY <1>2 DEF ListReads
<1>5. ListReads(u) = IF k = 1 THEN 0 ELSE IF k - 1 > 1 /\ Closing(Head(u), "wm") THEN 2 ELSE 1
  <2> HIDE DEF u
  <2>1. Len(u) # n
    BY <1>1, <1>2
  <2> QED
    BY <1>2, <2>1 DEF ListReads
<1> HIDE DEF n, k, u, i
<1>6. /\ Head(t).kind \in {"RLock", "RUnlock"}
      /\ Opening(Head(t), "wm") <=> (i = 1 \/ (i # n /\ (i - 2) % 4 = 0))
      /\ Closing(Head(t), "wm") <=> (i = n \/ (i # 1 /\ (i - 2) % 4 = 1))
  BY <1>2, ListOps DEF n
<1>7. k # 1 => (Closing(Head(u), "wm") <=> (i + 1 = n \/ ((i + 1) - 2) % 4 = 1))
  <2> SUFFICES ASSUME k # 1
               PROVE  Closing(Head(u), "wm") <=> (i + 1 = n \/ ((i + 1) - 2) % 4 = 1)
    OBVIOUS
  <2>1. Closing(ListOp(i + 1), "wm") <=> (i + 1 = n \/ (i + 1 # 1 /\ ((i + 1) - 2) % 4 = 1))
    BY <1>3, ListOps DEF n
  <2>2. i + 1 # 1
    BY <1>2
  <2> QED
    BY <1>3, <2>1, <2>2
<1>8. (i = 1 <=> k = n) /\ (i = n <=> k = 1) /\ (i + 1 = n <=> k - 1 = 1) /\ k = (n - i) + 1
  BY <1>1, <1>2 DEF i
<1>9. CASE k = 1
  <2>1. /\ i = n /\ i # 1 /\ Closing(Head(t), "wm") /\ ~ Opening(Head(t), "wm")
    BY <1>1, <1>6, <1>8, <1>9
  <2>2. ListReads(t) = 1 /\ ListReads(u) = 0
    BY <1>1, <1>4, <1>5, <1>9
  <2> QED
    BY <1>6, <2>1, <2>2 DEF u
<1>10. CASE k = n /\ k # 1
  <2>1. i = 1 /\ i # n /\ (i - 2) % 4 # 1
    BY <1>1, <1>8, <1>10
  <2>2. Opening(Head(t), "wm") /\ ~ Closing(Head(t), "wm")
    BY <1>6, <2>1
  <2>3. k - 1 > 1 => ~ Closing(Head(u), "wm")
    <3>1. ((i + 1) - 2) % 4 = 0
      BY <2>1
    <3> QED
      BY <1>1, <1>7, <1>8, <1>10, <3>1
  <2>4. ListReads(t) = 0 /\ ListReads(u) = 1
    BY <1>1, <1>4, <1>5, <1>10, <2>3
  <2> QED
    BY <1>6, <2>2, <2>4 DEF u
<1>11. CASE k # n /\ k # 1
  <2>1. i # 1 /\ i # n /\ k > 1
    BY <1>2, <1>8, <1>11
  <2>2. (Opening(Head(t), "wm") <=> (i - 2) % 4 = 0) /\ (Closing(Head(t), "wm") <=> (i - 2) % 4 = 1)
    BY <1>6, <2>1
  <2>3. ListReads(t) = IF (i - 2) % 4 = 1 THEN 2 ELSE 1
    BY <1>4, <1>11, <2>1, <2>2
  <2>4. ((i + 1) - 2) % 4 = 1 <=> (i - 2) % 4 = 0
    BY <1>1, <1>2
  <2>5. (i - 2) % 4 = 0 => i + 1 # n
    BY <1>1, <1>2
  <2>6. ListReads(u) = IF (i - 2) % 4 = 0 THEN 2 ELSE 1
    BY <1>2, <1>5, <1>7, <1>8, <1>11, <2>1, <2>4, <2>5
  <2>7. \/ (i - 2) % 4 = 0 /\ (i - 2) % 4 # 1
        \/ (i - 2) % 4 = 1 /\ (i - 2) % 4 # 0
        \/ (i - 2) % 4 # 0 /\ (i - 2) % 4 # 1
    OBVIOUS
  <2> QED
    BY <1>6, <2>2, <2>3, <2>6, <2>7 DEF u
<1> QED
  BY <1>9, <1>10, <1>11

-----------------------------------------------------------------------------
(* What a request holds is known from what it does next.                   *)

LockTypes ==
    /\ todo \in [Requests -> Seq(Operation)]
    /\ asked \in [Requests -> Handled \cup {"none"}]
    /\ announced \in [Mutexes -> Requests \cup {Free}]
    /\ reading \in [Mutexes \X Requests -> Int]

\* What q still has to do is the end of what it was asked.
Continues(q) ==
    todo[q] # <<>> => asked[q] \in Handled /\ IsRest(todo[q], RegisterRoutes(asked[q]))

NextIs(q, kinds, m) == todo[q] # <<>> /\ Head(todo[q]).kind \in kinds /\ Head(todo[q]).m = m
Holds(q) ==
    /\ \A m \in Mutexes : announced[m] = q <=> NextIs(q, {"locking", "Unlock"}, m)
    /\ reading[<<"ws", q>>] = IF NextIs(q, {"RUnlock"}, "ws") THEN 1 ELSE 0
    /\ reading[<<"wm", q>>] =
          IF asked[q] = "list" THEN ListReads(todo[q])
          ELSE IF NextIs(q, {"RUnlock"}, "wm") THEN 1 ELSE 0

LocksInv == LockTypes /\ \A q \in Requests : Continues(q) /\ Holds(q)

\* The same of every route, the list among them.
LEMMA RoutesPaired ==
    ASSUME NEW kind \in Handled
    PROVE  /\ Paired(RegisterRoutes(kind))
           /\ kind = "list" => RegisterRoutes(kind) = ListRequest
           /\ kind # "list" => Plain(RegisterRoutes(kind))
           /\ kind \notin {"create", "delete"} => NoTableWrite(RegisterRoutes(kind))
<1>1. CASE kind = "list"
  <2>1. RegisterRoutes(kind) = ListRequest
    BY <1>1 DEF RegisterRoutes
  <2> QED
    BY <1>1, <2>1, ListPaired
<1>2. CASE kind # "list"
  BY <1>2, PlainRoutes
<1> QED
  BY <1>1, <1>2

\* At the start nobody holds anything.
LEMMA InitHolds == InitLocks => LocksInv
<1> SUFFICES ASSUME InitLocks PROVE LocksInv
  OBVIOUS
<1>1. LockTypes
  BY DEF InitLocks, LockTypes
<1>2. ASSUME NEW q \in Requests PROVE Continues(q) /\ Holds(q)
  BY FreeAssumption DEF InitLocks, Continues, Holds, NextIs, Mutexes
<1> QED
  BY <1>1, <1>2 DEF LocksInv

\* A request arrives where there is none, and has taken nothing yet.
LEMMA ArriveHolds ==
    ASSUME LocksInv, NEW q \in Requests, NEW kind \in Handled, Arrive(q, kind)
    PROVE  LocksInv'
<1> DEFINE s == RegisterRoutes(kind)
<1>1. /\ s \in Seq(Operation) /\ s # <<>> /\ Head(s) = s[1] /\ s[1].kind \in {"RLock", "Lock"}
      /\ IsRest(s, s)
  <2>1. s \in Seq(Operation) /\ s # <<>> /\ s[1].kind \in {"RLock", "Lock"}
    BY RoutesPaired DEF Paired
  <2>2. \A i \in 1 .. Len(s) : s[i] = s[Len(s) - Len(s) + i]
    BY <2>1
  <2> QED
    BY <2>1, <2>2 DEF IsRest
<1>2. kind = "list" => ListReads(s) = 0
  BY ListFacts, RoutesPaired DEF ListReads
<1> HIDE DEF s
<1>3. todo' = [todo EXCEPT ![q] = s] /\ asked' = [asked EXCEPT ![q] = kind] /\ todo[q] = <<>>
  BY DEF Arrive, s
<1>4. LockTypes'
  BY <1>1, <1>3 DEF LocksInv, LockTypes, Arrive
<1>5. ASSUME NEW r \in Requests, r # q PROVE Continues(r)' /\ Holds(r)'
  <2>1. todo'[r] = todo[r] /\ asked'[r] = asked[r] /\ announced' = announced /\ reading' = reading
    BY <1>3, <1>5 DEF Arrive, LocksInv, LockTypes
  <2> QED
    BY <2>1 DEF LocksInv, Continues, Holds, NextIs
<1>6. Continues(q)' /\ Holds(q)'
  <2>1. todo'[q] = s /\ asked'[q] = kind /\ announced' = announced /\ reading' = reading
    BY <1>3 DEF Arrive, LocksInv, LockTypes
  <2>2. Continues(q)'
    BY <1>1, <2>1 DEF Continues, s
  <2>3. /\ \A m \in Mutexes : announced[m] # q
        /\ reading[<<"ws", q>>] = 0 /\ reading[<<"wm", q>>] = 0
    BY <1>3 DEF LocksInv, Holds, NextIs, ListReads
  <2>4. \A m \in Mutexes, kinds \in {{"locking", "Unlock"}, {"RUnlock"}} : ~ NextIs(q, kinds, m)'
    BY <1>1, <2>1 DEF NextIs
  <2> QED
    BY <1>2, <2>1, <2>2, <2>3, <2>4 DEF Holds, Mutexes
<1> QED
  BY <1>4, <1>5, <1>6 DEF LocksInv

\* An operation changes what its request holds as the next operation says,
\* and what no other request holds.
LEMMA DoHolds ==
    ASSUME LocksInv, NEW q \in Requests, Do(q)
    PROVE  LocksInv'
<1> DEFINE t == todo[q]  u == Tail(t)  o == Head(t)  s == RegisterRoutes(asked[q])
<1>1. /\ t # <<>> /\ IsRest(t, s) /\ Paired(s)
      /\ asked[q] = "list" => s = ListRequest
      /\ asked[q] # "list" => Plain(s)
  BY RoutesPaired DEF LocksInv, Continues, Do
<1>2. /\ o \in Operation /\ u \in Seq(Operation) /\ IsRest(u, s)
      /\ u = <<>> => o.kind \in {"RUnlock", "Unlock"}
      /\ u # <<>> => Head(u) \in Operation /\ Beside(o, Head(u))
      /\ u # <<>> /\ asked[q] # "list" => (Opening(o, "wm") <=> Closing(Head(u), "wm"))
  BY <1>1, RestFacts
<1>3. asked[q] = "list" =>
         /\ Opening(o, "wm") => ListReads(u) = ListReads(t) + 1
         /\ Closing(o, "wm") => ListReads(u) = ListReads(t) - 1
         /\ ~ Opening(o, "wm") /\ ~ Closing(o, "wm") => ListReads(u) = ListReads(t)
  BY <1>1, ListReadsNext
<1>4. /\ CanDo(q, o)
      /\ announced' = CASE o.kind = "Lock" -> [announced EXCEPT ![o.m] = q]
                        [] o.kind = "Unlock" -> [announced EXCEPT ![o.m] = Free]
                        [] OTHER -> announced
      /\ reading' = CASE o.kind = "RLock" -> [reading EXCEPT ![<<o.m, q>>] = @ + 1]
                      [] o.kind = "RUnlock" -> [reading EXCEPT ![<<o.m, q>>] = @ - 1]
                      [] OTHER -> reading
      /\ todo' = [todo EXCEPT ![q] = u] /\ asked' = asked
  BY DEF Do
<1>5. LockTypes
  BY DEF LocksInv
<1>6. Holds(q)
  BY DEF LocksInv
<1>7. \A m \in Mutexes : announced[m] = q <=> o.kind \in {"locking", "Unlock"} /\ o.m = m
  BY <1>1, <1>6 DEF Holds, NextIs
<1>8. /\ reading[<<"ws", q>>] = IF Closing(o, "ws") THEN 1 ELSE 0
      /\ reading[<<"wm", q>>] = IF asked[q] = "list" THEN ListReads(t)
                                ELSE IF Closing(o, "wm") THEN 1 ELSE 0
  BY <1>1, <1>6 DEF Holds, NextIs, Closing
<1>9. todo'[q] = u /\ \A r \in Requests \ {q} : todo'[r] = todo[r]
  BY <1>4, <1>5 DEF LockTypes
<1> HIDE DEF t, u, o, s
<1>10. o.kind \in OpKinds /\ o.m \in Mutexes
  BY <1>2 DEF Operation
<1>11. LockTypes'
  <2>1. todo' \in [Requests -> Seq(Operation)] /\ asked' \in [Requests -> Handled \cup {"none"}]
    BY <1>2, <1>4, <1>5 DEF LockTypes
  <2>2. announced' \in [Mutexes -> Requests \cup {Free}]
    BY <1>4, <1>5, <1>10 DEF LockTypes
  <2>3. reading' \in [Mutexes \X Requests -> Int]
    BY <1>4, <1>5, <1>10 DEF LockTypes
  <2> QED
    BY <2>1, <2>2, <2>3 DEF LockTypes
<1>12. \A m \in Mutexes, r \in Requests \ {q} : reading'[<<m, r>>] = reading[<<m, r>>]
  BY <1>4, <1>5, <1>10 DEF LockTypes
<1>13. ASSUME NEW m \in Mutexes
       PROVE  /\ Opening(o, m) => reading'[<<m, q>>] = reading[<<m, q>>] + 1
              /\ Closing(o, m) => reading'[<<m, q>>] = reading[<<m, q>>] - 1
              /\ ~ Opening(o, m) /\ ~ Closing(o, m) => reading'[<<m, q>>] = reading[<<m, q>>]
  BY <1>4, <1>5, <1>10 DEF LockTypes, Opening, Closing
<1>14. ASSUME NEW m \in Mutexes, NEW r \in Requests \ {q}
       PROVE  announced'[m] = r <=> announced[m] = r
  <2>1. CASE o.kind = "Lock"
    <3>1. announced[o.m] = Free /\ announced' = [announced EXCEPT ![o.m] = q]
      BY <1>4, <2>1 DEF CanDo
    <3> QED
      BY <1>5, <1>10, <3>1, FreeAssumption DEF LockTypes
  <2>2. CASE o.kind = "Unlock"
    <3>1. announced[o.m] = q /\ announced' = [announced EXCEPT ![o.m] = Free]
      BY <1>4, <1>7, <1>10, <2>2
    <3> QED
      BY <1>5, <1>10, <3>1, FreeAssumption DEF LockTypes
  <2>3. CASE o.kind \notin {"Lock", "Unlock"}
    BY <1>4, <2>3
  <2> QED
    BY <2>1, <2>2, <2>3
<1>15. ASSUME NEW m \in Mutexes
       PROVE  announced'[m] = q <=> o.kind \in {"Lock", "locking"} /\ o.m = m
  <2>1. CASE o.kind = "Lock"
    BY <1>4, <1>5, <1>7, <1>10, <2>1 DEF LockTypes
  <2>2. CASE o.kind = "Unlock"
    BY <1>4, <1>5, <1>7, <1>10, <2>2, FreeAssumption DEF LockTypes
  <2>3. CASE o.kind \notin {"Lock", "Unlock"}
    BY <1>4, <1>7, <2>3
  <2> QED
    BY <2>1, <2>2, <2>3
<1>16. ASSUME NEW r \in Requests, r # q PROVE Continues(r)' /\ Holds(r)'
  <2>1. todo'[r] = todo[r] /\ asked'[r] = asked[r] /\ Continues(r) /\ Holds(r)
    BY <1>4, <1>9, <1>16 DEF LocksInv
  <2>2. /\ \A m \in Mutexes : announced'[m] = r <=> announced[m] = r
        /\ \A m \in Mutexes : reading'[<<m, r>>] = reading[<<m, r>>]
    BY <1>12, <1>14, <1>16
  <2> QED
    BY <2>1, <2>2 DEF Continues, Holds, NextIs, Mutexes
<1>17. Continues(q)'
  BY <1>1, <1>2, <1>4, <1>9 DEF Continues, LocksInv, t, s
<1>18. ASSUME NEW m \in Mutexes
       PROVE  announced'[m] = q <=> NextIs(q, {"locking", "Unlock"}, m)'
  <2>1. CASE u = <<>>
    BY <1>2, <1>9, <1>15, <2>1 DEF NextIs
  <2>2. CASE u # <<>>
    BY <1>2, <1>9, <1>15, <2>2 DEF NextIs, Beside
  <2> QED
    BY <2>1, <2>2
<1>19. reading'[<<"ws", q>>] = IF NextIs(q, {"RUnlock"}, "ws")' THEN 1 ELSE 0
  <2>1. NextIs(q, {"RUnlock"}, "ws")' <=> Opening(o, "ws")
    BY <1>2, <1>9 DEF NextIs, Beside, Opening, Closing
  <2>2. ~ (Opening(o, "ws") /\ Closing(o, "ws"))
    BY DEF Opening, Closing
  <2> QED
    BY <1>8, <1>13, <2>1, <2>2 DEF Mutexes
<1>20. asked[q] # "list" =>
          reading'[<<"wm", q>>] = IF NextIs(q, {"RUnlock"}, "wm")' THEN 1 ELSE 0
  <2> SUFFICES ASSUME asked[q] # "list"
               PROVE  reading'[<<"wm", q>>] = IF NextIs(q, {"RUnlock"}, "wm")' THEN 1 ELSE 0
    OBVIOUS
  <2>1. NextIs(q, {"RUnlock"}, "wm")' <=> Opening(o, "wm")
    BY <1>2, <1>9 DEF NextIs, Opening, Closing
  <2>2. ~ (Opening(o, "wm") /\ Closing(o, "wm"))
    BY DEF Opening, Closing
  <2> QED
    BY <1>8, <1>13, <2>1, <2>2 DEF Mutexes
<1>21. asked[q] = "list" => reading'[<<"wm", q>>] = ListReads(u)
  BY <1>3, <1>8, <1>13 DEF Mutexes
<1>22. Holds(q)'
  BY <1>4, <1>9, <1>18, <1>19, <1>20, <1>21 DEF Holds
<1> QED
  BY <1>11, <1>16, <1>17, <1>22 DEF LocksInv

\* In every behaviour of the requests' locks, what a request holds is what its
\* next operation says.
THEOREM LocksInvHolds == LocksSpec => []LocksInv
<1>1. LocksInv /\ [NextLocks]_lockingVars => LocksInv'
  <2> SUFFICES ASSUME LocksInv, [NextLocks]_lockingVars PROVE LocksInv'
    OBVIOUS
  <2>1. ASSUME UNCHANGED lockingVars PROVE LocksInv'
    BY <2>1 DEF lockingVars, LocksInv, LockTypes, Continues, Holds, NextIs
  <2>2. ASSUME NextLocks PROVE LocksInv'
    BY <2>2, ArriveHolds, DoHolds DEF NextLocks
  <2> QED
    BY <2>1, <2>2
<1> QED
  BY <1>1, InitHolds, PTL DEF LocksSpec

\* Whoever waits when all wait does so for the table, and the one that keeps it
\* is a list.
LEMMA StuckInList == LocksInv => StuckOnlyInList
<1> SUFFICES ASSUME LocksInv,
                    NEW q0 \in Requests, Waiting(q0),
                    \A q \in Requests : todo[q] = <<>> \/ Waiting(q)
             PROVE  /\ \E q \in Requests : /\ asked[q] = "list" /\ reading[<<"wm", q>>] = 1
                                           /\ todo[q] # <<>> /\ Head(todo[q]) = Op("RLock", "wm")
                    /\ \E q \in Requests : announced["wm"] = q /\ asked[q] \in {"create", "delete"}
  BY DEF StuckOnlyInList
\* What a request that waits wants.
<1>1. ASSUME NEW q \in Requests, todo[q] # <<>>
      PROVE  /\ Waiting(q) /\ ~ CanDo(q, Head(todo[q]))
             /\ Head(todo[q]) \in Operation
             /\ Head(todo[q]).kind \in {"RLock", "Lock", "locking"}
             /\ asked[q] \in Handled
             /\ IsRest(todo[q], RegisterRoutes(asked[q]))
  <2>1. Waiting(q) /\ ~ CanDo(q, Head(todo[q]))
    BY <1>1 DEF Waiting
  <2>2. asked[q] \in Handled /\ IsRest(todo[q], RegisterRoutes(asked[q]))
    BY <1>1 DEF LocksInv, Continues
  <2>3. Head(todo[q]) \in Operation
    BY <1>1, <2>2, RestFacts, RoutesPaired
  <2> QED
    BY <2>1, <2>2, <2>3 DEF CanDo, Operation, OpKinds
\* Nobody reads a workspace, and of the table only lists are reading.
<1>2. ASSUME NEW q \in Requests PROVE reading[<<"ws", q>>] = 0
  BY <1>1 DEF LocksInv, Holds, NextIs
<1>3. ASSUME NEW q \in Requests, reading[<<"wm", q>>] # 0
      PROVE  asked[q] = "list" /\ todo[q] # <<>> /\ ListReads(todo[q]) = reading[<<"wm", q>>]
  BY <1>1, <1>3 DEF LocksInv, Holds, NextIs, ListReads
\* So nobody waits for a workspace.
<1>4. ASSUME NEW q \in Requests, todo[q] # <<>>, Head(todo[q]).kind = "locking"
      PROVE  Head(todo[q]).m = "wm" /\ \E r \in Requests : reading[<<"wm", r>>] # 0
  BY <1>1, <1>2, <1>4 DEF CanDo, Operation, Mutexes
<1>5. ASSUME NEW q \in Requests, todo[q] # <<>>, Head(todo[q]).kind \in {"RLock", "Lock"}
      PROVE  /\ Head(todo[q]).m = "wm"
             /\ \E r \in Requests : todo[r] # <<>> /\ Head(todo[r]).kind = "locking"
  <2> DEFINE m == Head(todo[q]).m
  <2>1. m \in Mutexes /\ announced[m] # Free
    BY <1>1, <1>5 DEF CanDo, Operation
  <2>2. PICK r \in Requests : announced[m] = r
    BY <2>1 DEF LocksInv, LockTypes
  <2>3. NextIs(r, {"locking", "Unlock"}, m)
    BY <2>1, <2>2 DEF LocksInv, Holds
  <2>4. todo[r] # <<>> /\ Head(todo[r]).kind = "locking" /\ Head(todo[r]).m = m
    BY <1>1, <2>3 DEF NextIs
  <2> QED
    BY <1>4, <2>4
\* The writer that was announced for the table ...
<1>6. PICK w \in Requests : /\ todo[w] # <<>> /\ Head(todo[w]).kind = "locking"
  BY <1>1, <1>5 DEF Waiting
<1>7. announced["wm"] = w /\ asked[w] \in {"create", "delete"}
  <2>1. Head(todo[w]).m = "wm"
    BY <1>4, <1>6
  <2>2. announced["wm"] = w
    BY <1>6, <2>1 DEF LocksInv, Holds, NextIs, Mutexes
  <2>3. asked[w] \in Handled /\ IsRest(todo[w], RegisterRoutes(asked[w]))
    BY <1>1, <1>6
  <2>4. ~ NoTableWrite(RegisterRoutes(asked[w]))
    BY <1>6, <2>1, <2>3, RestFacts, RoutesPaired
  <2> QED
    BY <2>2, <2>3, <2>4, RoutesPaired
\* ... and the list that has read it.
<1>8. PICK r \in Requests : reading[<<"wm", r>>] # 0
  BY <1>4, <1>6
<1>9. /\ asked[r] = "list" /\ reading[<<"wm", r>>] = 1
      /\ todo[r] # <<>> /\ Head(todo[r]) = Op("RLock", "wm")
  <2>1. asked[r] = "list" /\ todo[r] # <<>> /\ ListReads(todo[r]) = reading[<<"wm", r>>]
    BY <1>3, <1>8
  <2>2. /\ Head(todo[r]) \in Operation /\ Head(todo[r]).kind \in {"RLock", "Lock", "locking"}
        /\ IsRest(todo[r], ListRequest)
    BY <1>1, <2>1, RoutesPaired
  <2>3. Head(todo[r]).kind = "RLock"
    BY <2>1, <2>2, ListReadsNext
  <2>4. Head(todo[r]).m = "wm"
    BY <1>5, <2>1, <2>3
  <2>5. ListReads(todo[r]) = 1
    BY <1>8, <2>1, <2>2, <2>3, <2>4, ListReadsNext DEF Opening
  <2>6. Head(todo[r]) = Op("RLock", "wm")
    BY <2>2, <2>3, <2>4 DEF Operation, Op
  <2> QED
    BY <2>1, <2>5, <2>6
<1> QED
  BY <1>7, <1>9

\* Requests block one another for ever only where a list reads the table again
\* behind a create or a delete that has announced itself
\* (workspace_handler.go:119-144).
THEOREM RequestsStuckOnlyInList == LocksSpec => []StuckOnlyInList
BY LocksInvHolds, StuckInList, PTL
=============================================================================
