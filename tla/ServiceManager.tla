--------------------------- MODULE ServiceManager ---------------------------
(***************************************************************************)
(* The agent's service manager and service discovery (pkg/agent/           *)
(* services.go).  The manager keeps a table of its own and copies each     *)
(* change to the agent's; registering, unregistering and updating hold the *)
(* manager's lock throughout, while starting, stopping and checking a      *)
(* service let it go in between and write back the copy they began with.   *)
(* The agent writes its own table too: a session, which is registered      *)
(* under its identifier, has an entry there of the agent's.                *)
(***************************************************************************)
EXTENDS Naturals

CONSTANTS Names,    \* names of services
          Clients,  \* concurrent callers, the monitor of the services among them
          MaxCalls  \* bound: calls

ASSUME CallsAssumption == MaxCalls \in Nat /\ "none" \notin Names

VARIABLES managed,    \* sm.services
          agentCopy,  \* the same names in agent.services
          op,         \* the call each client is in
          calls,      \* calls so far
          registered, \* history: was Register the last to register or unregister it?
          raced,      \* history: have calls about it overlapped since?
          touched     \* history: has the agent written it since the manager did?

managerVars == <<managed, agentCopy, op, calls, registered, raced, touched>>
agentSide == <<agentCopy, touched>>

Service(status, health) == [status |-> status, health |-> health]
Missing == Service("none", "none")
NoOp == [kind |-> "none", pc |-> "idle", name |-> "none", svc |-> Missing]

InitManager ==
    /\ managed = [n \in Names |-> Missing]
    /\ agentCopy = [n \in Names |-> Missing]
    /\ op = [c \in Clients |-> NoOp]
    /\ calls = 0
    /\ registered = [n \in Names |-> FALSE]
    /\ raced = [n \in Names |-> FALSE]
    /\ touched = [n \in Names |-> FALSE]

InFlight(n) == \E c \in Clients : op[c].name = n

UpdateServiceInAgent(n, svc) ==
    /\ agentCopy' = [agentCopy EXCEPT ![n] = svc]
    /\ touched' = [touched EXCEPT ![n] = FALSE]

Called(n) == calls < MaxCalls /\ calls' = calls + 1

-----------------------------------------------------------------------------
(* Calls that hold the lock; DiscoverServices registers each session.      *)

RegisterService(n) ==
    /\ Called(n)
    /\ managed' = [managed EXCEPT ![n] = Service("starting", "unknown")]
    /\ UpdateServiceInAgent(n, Service("starting", "unknown"))
    /\ registered' = [registered EXCEPT ![n] = TRUE]
    /\ raced' = [raced EXCEPT ![n] = InFlight(n)]
    /\ UNCHANGED op

DiscoverServices(sessions) == \E n \in sessions : RegisterService(n)

(* The agent keeps an entry that says "stopped".                           *)
UnregisterService(n) ==
    /\ Called(n) /\ managed[n] # Missing
    /\ managed' = [managed EXCEPT ![n] = Missing]
    /\ UpdateServiceInAgent(n, Service("stopped", "stopped"))
    /\ registered' = [registered EXCEPT ![n] = FALSE]
    /\ raced' = [raced EXCEPT ![n] = InFlight(n)]
    /\ UNCHANGED op

UpdateService(n) ==
    /\ Called(n) /\ managed[n] # Missing
    /\ managed' = [managed EXCEPT ![n] = Service("running", "unknown")]
    /\ UpdateServiceInAgent(n, Service("running", "unknown"))
    /\ raced' = [raced EXCEPT ![n] = @ \/ InFlight(n)]
    /\ UNCHANGED <<op, registered>>

-----------------------------------------------------------------------------
(* Calls that let it go.  The local copy is taken, and for a start or stop *)
(* also written, in the first critical section.                            *)

Begin(c, n, kind, svc) ==
    /\ Called(n)
    /\ op[c] = NoOp
    /\ op' = [op EXCEPT ![c] = [kind |-> kind, pc |-> "work", name |-> n, svc |-> svc]]
    /\ raced' = [raced EXCEPT ![n] = @ \/ InFlight(n)]
    /\ UNCHANGED registered

StartService(c, n) ==
    /\ managed[n] # Missing
    /\ managed' = [managed EXCEPT ![n].status = "starting"]
    /\ Begin(c, n, "start", managed'[n])
    /\ UNCHANGED agentSide

StopService(c, n) ==
    /\ managed[n] # Missing
    /\ managed' = [managed EXCEPT ![n].status = "stopping"]
    /\ Begin(c, n, "stop", managed'[n])
    /\ UNCHANGED agentSide

(* Mutant of CheckServiceHealth: the monitor's list is taken at its word.  *)
CheckAnyway(c, n) ==
    /\ Begin(c, n, "check", managed[n])
    /\ UNCHANGED <<managed, agentSide>>

CheckServiceHealth(c, n) ==
    /\ managed[n] # Missing
    /\ Begin(c, n, "check", managed[n])
    /\ UNCHANGED <<managed, agentSide>>

(* A start tells the agent that it has begun; the others do not.           *)
TellStarting(c) ==
    /\ op[c].kind = "start" /\ op[c].pc = "work"
    /\ UpdateServiceInAgent(op[c].name, op[c].svc)
    /\ op' = [op EXCEPT ![c].pc = "told"]
    /\ UNCHANGED <<managed, calls, registered, raced>>

PerformHealthCheck == {"no_port", "unhealthy", "healthy"}

Results(c) ==
    CASE op[c].kind = "start" -> {Service("running", "healthy")}
      [] op[c].kind = "stop" -> {Service("stopped", "stopped")}
      [] OTHER -> {[op[c].svc EXCEPT !.health = h] : h \in PerformHealthCheck}

(* The result is written whether or not the service is still registered.   *)
WriteBack(c) ==
    /\ op[c].pc = IF op[c].kind = "start" THEN "told" ELSE "work"
    /\ \E svc \in Results(c) :
          /\ managed' = [managed EXCEPT ![op[c].name] = svc]
          /\ op' = [op EXCEPT ![c].pc = "tell", ![c].svc = svc]
    /\ UNCHANGED <<agentSide, calls, registered, raced>>

(* Mutant of Tell: only a stop tells the agent how it ended.               *)
TellStopped(c) ==
    /\ op[c].pc = "tell"
    /\ IF op[c].kind = "stop" THEN UpdateServiceInAgent(op[c].name, op[c].svc)
       ELSE UNCHANGED agentSide
    /\ op' = [op EXCEPT ![c] = NoOp]
    /\ UNCHANGED <<managed, calls, registered, raced>>

Tell(c) ==
    /\ op[c].pc = "tell"
    /\ UpdateServiceInAgent(op[c].name, op[c].svc)
    /\ op' = [op EXCEPT ![c] = NoOp]
    /\ UNCHANGED <<managed, calls, registered, raced>>

-----------------------------------------------------------------------------
(* The agent's monitor marks a session it has found, and the monitor, a    *)
(* stop and the command executor delete one that is gone; none of them     *)
(* takes the manager's lock.                                               *)
MarkSession(n) == agentCopy' = [agentCopy EXCEPT ![n] = Service("running", "healthy")]
DeleteSession(n) == agentCopy' = [agentCopy EXCEPT ![n] = Missing]

AgentWrites(n) ==
    /\ Called(n)
    /\ MarkSession(n) \/ DeleteSession(n)
    /\ touched' = [touched EXCEPT ![n] = TRUE]
    /\ UNCHANGED <<managed, op, registered, raced>>

NextManager ==
    \/ DiscoverServices(Names)
    \/ \E n \in Names : UnregisterService(n) \/ UpdateService(n) \/ AgentWrites(n)
    \/ \E c \in Clients :
          \/ \E n \in Names : StartService(c, n) \/ StopService(c, n) \/ CheckServiceHealth(c, n)
          \/ TellStarting(c) \/ WriteBack(c) \/ Tell(c)

-----------------------------------------------------------------------------
(* A registered service is listed until it is unregistered, whatever calls *)
(* overlap, and one that was unregistered is listed again only through a   *)
(* call that overlapped with that ...                                      *)
NoGhost(n) ==
    /\ registered[n] => managed[n] # Missing
    /\ ~registered[n] /\ ~raced[n] => managed[n] = Missing

(* ... and between calls the agent's table says of it what the manager's   *)
(* says, or "stopped" once unregistered, unless calls about it overlapped  *)
(* or the agent has written there since the manager last did; the next     *)
(* call about it puts that right.                                          *)
AgentFollows(n) ==
    ~raced[n] /\ ~InFlight(n) /\ ~touched[n] =>
        agentCopy[n] = IF managed[n] # Missing \/ agentCopy[n] = Missing THEN managed[n]
                       ELSE Service("stopped", "stopped")

(* Both tables keep up with what was registered, although starts, stops    *)
(* and checks write back copies and the agent writes its own table         *)
(* (services.go:28-58, 103-204; node.go:517-526, 576-577).                 *)
TablesKeepUp == \A n \in Names : NoGhost(n) /\ AgentFollows(n)
=============================================================================
