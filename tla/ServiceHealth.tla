---------------------------- MODULE ServiceHealth ----------------------------
(***************************************************************************)
(* What StartServices of the node agent's workspace manager does to the    *)
(* services themselves (pkg/agent/workspace_manager.go): it runs the       *)
(* command of each with retries and starts a goroutine that checks its     *)
(* health two seconds later.  (WorkspaceManager has the ports, and leaves  *)
(* out what this module has.)                                              *)
(*                                                                         *)
(* The tables hold pointers.  A call allocates one ManagedService for each *)
(* service, so <<call, service>> names it; a workspace that is deleted and *)
(* created again has a new table.  The goroutine looks its service up,     *)
(* runs the check in the container and writes what it found through the    *)
(* pointer, and other calls, deletes and creates come in between.  One     *)
(* workspace identifier stands for all: they share nothing modelled here.  *)
(***************************************************************************)
EXTENDS Naturals, FiniteSets

CONSTANTS Calls,       \* calls to StartServices
          Svcs,        \* services of the workspace, each with a health check
          MaxAttempts, \* maxRetries
          MaxCreations \* bound: creations of the workspace

Nobody == "nobody"
ASSUME AttemptsAssumption ==
    /\ MaxAttempts \in Nat \ {0} /\ MaxCreations \in Nat \ {0}
    /\ Nobody \notin Calls \cup Svcs

VARIABLES current,  \* the creation listed in wm.workspaces, or 0
          created,  \* creations so far
          listed,   \* listed[w, s]: the call whose object workspace.Services has
          object,   \* object[c, s]: the ManagedService
          start,    \* the state of each call
          check,    \* check[c, s]: its health check
          started,  \* history: objects whose command succeeded
          passed    \* history: objects listed while a check succeeded

serviceVars == <<current, created, listed, object, start, check, started, passed>>
history == <<started, passed>>

Objects == Calls \X Svcs
Creations == 1 .. MaxCreations
IdleStart == [pc |-> "idle", ws |-> 0, todo |-> {}, svc |-> Nobody,
              attempt |-> 0, ok |-> FALSE, live |-> FALSE]
NoCheck == [pc |-> "none", target |-> <<>>, ok |-> FALSE]

InitServices ==
    /\ current = 1 /\ created = 1
    /\ listed = [k \in Creations \X Svcs |-> Nobody]
    /\ object = [o \in Objects |-> [status |-> "none", health |-> "none"]]
    /\ start = [c \in Calls |-> IdleStart]
    /\ check = [o \in Objects |-> NoCheck]
    /\ started = {} /\ passed = {}

(* The objects the manager knows; GetWorkspaceStatus shows their statuses. *)
Listed(s) == IF current = 0 \/ listed[<<current, s>>] = Nobody THEN {}
             ELSE {<<listed[<<current, s>>], s>>}
GetWorkspaceStatus(s) == {object[o].status : o \in Listed(s)}

-----------------------------------------------------------------------------
(* StartServices.                                                          *)

(* handleStartServices gives the call a context of 60 seconds.             *)
StartServices(c) ==
    /\ start[c].pc = "idle" /\ current # 0
    /\ start' = [start EXCEPT ![c] = [IdleStart EXCEPT !.pc = "next", !.ws = current,
                                                     !.todo = Svcs, !.live = TRUE]]
    /\ UNCHANGED <<current, created, listed, object, check, history>>

(* Mutant of ListService: a service counts as running when it is listed.   *)
ListServiceRunning(c, s) ==
    /\ start[c].pc = "next" /\ s \in start[c].todo
    /\ object' = [object EXCEPT ![<<c, s>>].status = "running"]
    /\ listed' = [listed EXCEPT ![<<start[c].ws, s>>] = c]
    /\ start' = [start EXCEPT ![c].pc = "exec", ![c].svc = s, ![c].attempt = 1,
                            ![c].todo = @ \ {s}]
    /\ UNCHANGED <<current, created, check, history>>

(* The new object takes the place of that of an earlier call.              *)
ListService(c, s) ==
    /\ start[c].pc = "next" /\ s \in start[c].todo
    /\ object' = [object EXCEPT ![<<c, s>>].status = "starting"]
    /\ listed' = [listed EXCEPT ![<<start[c].ws, s>>] = c]
    /\ start' = [start EXCEPT ![c].pc = "exec", ![c].svc = s, ![c].attempt = 1,
                            ![c].todo = @ \ {s}]
    /\ UNCHANGED <<current, created, check, history>>

(* A command run in the container with the context of call c can succeed.  *)
CanRun(c) == start[c].live /\ current # 0

(* startServiceWithRetry: a cancelled context ends the attempts.           *)
StartServiceWithRetry(c) ==
    /\ start[c].pc = "exec"
    /\ \/ /\ CanRun(c)
          /\ start' = [start EXCEPT ![c].pc = "mark", ![c].ok = TRUE]
          /\ started' = started \cup {<<c, start[c].svc>>}
       \/ /\ start[c].live /\ start[c].attempt < MaxAttempts
          /\ start' = [start EXCEPT ![c].attempt = @ + 1]
          /\ UNCHANGED started
       \/ /\ ~start[c].live \/ start[c].attempt = MaxAttempts
          /\ start' = [start EXCEPT ![c].pc = "mark", ![c].ok = FALSE]
          /\ UNCHANGED started
    /\ UNCHANGED <<current, created, listed, object, check, passed>>

(* The status is written without a lock, and the check is set off.         *)
MarkService(c) ==
    LET o == <<c, start[c].svc>> IN
    /\ start[c].pc = "mark"
    /\ object' = [object EXCEPT ![o].status = IF start[c].ok THEN "running" ELSE "error"]
    /\ check' = IF start[c].ok THEN [check EXCEPT ![o].pc = "sleeping"] ELSE check
    /\ start' = [start EXCEPT ![c].pc = "next", ![c].svc = Nobody, ![c].attempt = 0,
                            ![c].ok = FALSE]
    /\ UNCHANGED <<current, created, listed, history>>

(* The handler returns, which cancels the context the checks use as well.  *)
HandlerReturns(c) ==
    /\ start[c].pc = "next" /\ start[c].todo = {}
    /\ start' = [start EXCEPT ![c].pc = "done", ![c].live = FALSE]
    /\ UNCHANGED <<current, created, listed, object, check, history>>

(* The 60 seconds are over, or the client is gone.                         *)
Cancel(c) ==
    /\ start[c].live
    /\ start' = [start EXCEPT ![c].live = FALSE]
    /\ UNCHANGED <<current, created, listed, object, check, history>>

-----------------------------------------------------------------------------
(* runHealthCheck.                                                         *)

LookUp(o) ==
    /\ check[o].pc = "sleeping"
    /\ check' = IF Listed(o[2]) = {} THEN [check EXCEPT ![o].pc = "over"]
                ELSE [check EXCEPT ![o].pc = "found",
                                   ![o].target = CHOOSE t \in Listed(o[2]) : TRUE]
    /\ UNCHANGED <<current, created, listed, object, start, history>>

(* curl, nc or the command of the check, in the container.                 *)
RunCheck(o) ==
    /\ check[o].pc = "found"
    /\ \E ok \in BOOLEAN :
          /\ ok => CanRun(o[1])
          /\ check' = [check EXCEPT ![o].pc = "ran", ![o].ok = ok]
          /\ passed' = IF ok THEN passed \cup Listed(o[2]) ELSE passed
    /\ UNCHANGED <<current, created, listed, object, start, started>>

Verdict(ok) == [status |-> IF ok THEN "running" ELSE "unhealthy",
                health |-> IF ok THEN "healthy" ELSE "unhealthy"]
CheckHTTPHealth(ok) == Verdict(ok)
CheckTCPHealth(ok) == Verdict(ok)
CheckExecHealth(ok) == Verdict(ok)

(* Mutant of Target: the service is looked up when the check has run.     *)
TargetNow(o) == Listed(o[2])

Target(o) == {check[o].target}

WriteHealth(o) ==
    /\ check[o].pc = "ran"
    /\ \E verdict \in {CheckHTTPHealth(check[o].ok), CheckTCPHealth(check[o].ok),
                       CheckExecHealth(check[o].ok)} :
          object' = [t \in Objects |-> IF t \in Target(o) THEN verdict ELSE object[t]]
    /\ check' = [check EXCEPT ![o] = [NoCheck EXCEPT !.pc = "over"]]
    /\ UNCHANGED <<current, created, listed, start, history>>

-----------------------------------------------------------------------------
(* The workspace is deleted, or created again; the container goes before   *)
(* the entry does.                                                         *)
DeleteWorkspace ==
    /\ current # 0 /\ current' = 0
    /\ UNCHANGED <<created, listed, object, start, check, history>>

CreateWorkspace ==
    /\ created < MaxCreations
    /\ created' = created + 1 /\ current' = created'
    /\ UNCHANGED <<listed, object, start, check, history>>

NextServices ==
    \/ \E c \in Calls :
          \/ StartServices(c) \/ StartServiceWithRetry(c) \/ MarkService(c)
          \/ HandlerReturns(c) \/ Cancel(c)
          \/ \E s \in Svcs : ListService(c, s)
    \/ \E o \in Objects : LookUp(o) \/ RunCheck(o) \/ WriteHealth(o)
    \/ DeleteWorkspace \/ CreateWorkspace

-----------------------------------------------------------------------------
(* A service is healthy only by a check that succeeded while this start of *)
(* it was listed, not by one of an earlier start or of a workspace that is *)
(* gone, although the check runs without a lock and is written later       *)
(* (workspace_manager.go:359-401).                                         *)
HealthIsOfThisStart ==
    \A s \in Svcs : \A o \in Listed(s) : object[o].health = "healthy" => o \in passed

(* The status handler shows a service as running only when the command of  *)
(* this start of it succeeded or a check found it up                       *)
(* (workspace_manager.go:284-317, 403-449, 566-595).                       *)
RunningWasExecuted ==
    \A s \in Svcs :
        "running" \in GetWorkspaceStatus(s) => Listed(s) \subseteq started \cup passed
=============================================================================
