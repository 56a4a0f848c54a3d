---------------------------- MODULE MCComponents ----------------------------
(* Six components that share no state, checked in one run: the first      *)
(* state chooses which of them moves, and the others rest in one of their  *)
(* initial states.                                                         *)
EXTENDS AgentConfig, Dependencies, Transports, ServiceHealth, ServiceManager,
        ManagerLocks

VARIABLE component   \* the one that moves

RestingConfig ==
    agents = {} /\ oneDir = TRUE /\ nested = {} /\ tpl = {} /\ InitConfig
RestingDependencies ==
    /\ manifest = [n \in Things |-> [version |-> 1, deps |-> {}]]
    /\ active = {Min(Things)} /\ InitDependencies
RestingTransports ==
    protocol = "ssh" /\ target = (CHOOSE t \in Targets : TRUE) /\ InitTransports

(* The last three have one initial state each.                             *)
InitComponents ==
    /\ component \in {"config", "dependencies", "transports", "services", "manager", "locks"}
    /\ IF component = "config" THEN InitConfig ELSE RestingConfig
    /\ IF component = "dependencies" THEN InitDependencies ELSE RestingDependencies
    /\ IF component = "transports" THEN InitTransports ELSE RestingTransports
    /\ InitServices /\ InitManager /\ InitLocks

NextComponents ==
    \/ /\ component = "config" /\ NextConfig
       /\ UNCHANGED <<component, dependencyVars, transportVars, serviceVars, managerVars, lockingVars>>
    \/ /\ component = "dependencies" /\ NextDependencies
       /\ UNCHANGED <<component, configVars, transportVars, serviceVars, managerVars, lockingVars>>
    \/ /\ component = "transports" /\ NextTransports
       /\ UNCHANGED <<component, configVars, dependencyVars, serviceVars, managerVars, lockingVars>>
    \/ /\ component = "services" /\ NextServices
       /\ UNCHANGED <<component, configVars, dependencyVars, transportVars, managerVars, lockingVars>>
    \/ /\ component = "manager" /\ NextManager
       /\ UNCHANGED <<component, configVars, dependencyVars, transportVars, serviceVars, lockingVars>>
    \/ /\ component = "locks" /\ NextLocks
       /\ UNCHANGED <<component, configVars, dependencyVars, transportVars, serviceVars, managerVars>>

Spec ==
    InitComponents /\ [][NextComponents]_<<component, configVars, dependencyVars,
                                           transportVars, serviceVars, managerVars, lockingVars>>
=============================================================================
