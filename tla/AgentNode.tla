------------------------------ MODULE AgentNode ------------------------------
(***************************************************************************)
(* The node agent (pkg/agent/node.go, executor.go): it registers with the  *)
(* coordination server and then runs three goroutines, of which two change *)
(* its tables: the command processor, which executes one command after     *)
(* the other, and the service monitor, which compares the session table    *)
(* with what the provider lists.  Stop runs beside them, and neither of    *)
(* them looks at `running`.                                                *)
(*                                                                         *)
(* The agent passes no configuration to Create, which only the LXC driver  *)
(* accepts, so every session is a container of that driver (module         *)
(* Drivers).  One step is one provider call or one critical section.  The  *)
(* monitor and Stop use the tables without the lock; the Go runtime may    *)
(* then end the process, which is action Crash.                            *)
(***************************************************************************)
EXTENDS Drivers, Sequences, SequencesExt

CONSTANTS
    Sessions,     \* session identifiers
    OfflineMode,  \* the setting of that name
    Reuse,        \* may an identifier be created again?
    Ahead,        \* sessions whose containers `lxc list` prints before everybody else's
    NoSession,
    MaxCommands,  \* bound: commands given to the agent
    MaxOutside    \* bound: crashes, vanished containers, failed lists

ASSUME AgentAssumption == NoSession \notin Sessions /\ Ahead \subseteq Sessions

Providers == {"docker", "lxc", "qemu"}
Actions == {"create", "stop", "destroy", "query"}

VARIABLES
    life,       \* the process: "new", "starting", "up", "failed" (Start returned
                \* an error), "stopping", "stopped", "crashed"
    running,    \* a.running
    sessions,   \* keys of a.sessions
    services,   \* keys of a.services
    box,        \* the container of each session
    queue,      \* commandCh
    cmd,        \* the command being executed
    monitor,    \* updateServiceHealth
    stopTodo,   \* the entries Stop's loop has not reached
    given,      \* commands given so far
    outside,    \* steps of the outside world so far
    tried,      \* history: identifiers some create was given for
    alive       \* history: sessions created whose container nobody touched since

vars == <<life, running, sessions, services, box, queue, cmd,
          monitor, stopTodo, given, outside, tried, alive>>
process == <<life, running, stopTodo>>
tables == <<sessions, services>>
channel == <<queue, given, tried>>

NoCommand == [action |-> "none", s |-> NoSession, pc |-> "idle", ok |-> FALSE]
Quiet == [pc |-> "idle", todo |-> {}, s |-> NoSession, found |-> FALSE]

Up == life \in {"up", "stopping", "stopped"}

-----------------------------------------------------------------------------
(* Start and Stop.                                                         *)

(* running is set before the node is registered ...                        *)
Start ==
    /\ life \in {"new", "failed", "stopped"} /\ ~running
    /\ life' = "starting" /\ running' = TRUE
    /\ UNCHANGED <<stopTodo, tables, box, channel, cmd, monitor, outside, alive>>

(* ... and stays set when that fails.                                      *)
RegisterWithServer ==
    /\ life = "starting"
    /\ \E accepted \in BOOLEAN :
          life' = IF accepted \/ OfflineMode THEN "up" ELSE "failed"
    /\ UNCHANGED <<running, stopTodo, tables, box, channel, cmd, monitor, outside, alive>>

Stop ==
    /\ life = "up" /\ running
    /\ life' = "stopping" /\ running' = FALSE
    /\ stopTodo' = sessions
    /\ UNCHANGED <<tables, box, channel, cmd, monitor, outside, alive>>

(* stopSession, under the lock; the error of the provider is only logged.  *)
(* The loop ranges over the live map: it may also meet entries added       *)
(* since, and does not meet those removed.                                 *)
StopSession(s) ==
    /\ life = "stopping" /\ s \in sessions
    /\ \E o \in LXCStop(box[s]) : box' = [box EXCEPT ![s] = o.status]
    /\ sessions' = sessions \ {s} /\ services' = services \ {s}
    /\ stopTodo' = stopTodo \ {s}
    /\ alive' = alive \ {s}
    /\ UNCHANGED <<life, running, channel, cmd, monitor, outside>>

UnregisterFromServer ==
    /\ life = "stopping" /\ stopTodo \cap sessions = {}
    /\ life' = "stopped" /\ stopTodo' = {}
    /\ UNCHANGED <<running, tables, box, channel, cmd, monitor, outside, alive>>

-----------------------------------------------------------------------------
(* The command processor.  It also ends when its context does (node.go:405),*)
(* which is context.Background() (cmd/nexus/main.go:415): never.           *)

(* A command arrives on the channel.                                       *)
Submit(action, s) ==
    /\ Up /\ given < MaxCommands
    /\ action = "create" /\ ~Reuse => s \notin tried
    /\ tried' = IF action = "create" THEN tried \cup {s} ELSE tried
    /\ given' = given + 1
    /\ queue' = Append(queue, [NoCommand EXCEPT !.action = action, !.s = s])
    /\ UNCHANGED <<process, tables, box, cmd, monitor, outside, alive>>

(* The commands that change nothing: "start" and "exec" check that the     *)
(* session is known and then report success, a service's status needs the  *)
(* service, and the lists always succeed.                                  *)
StartSession(s) == s \in sessions
ExecInSession(s) == s \in sessions
GetServiceStatus(s) == s \in services
ListSessions == TRUE
ExecuteServiceCommand(s) == {GetServiceStatus(s), TRUE}
Queries(s) == {StartSession(s), ExecInSession(s), ListSessions} \cup ExecuteServiceCommand(s)

(* The executor looks the session up to stop or destroy it.                *)
FirstStep(c) ==
    IF c.action = "create" \/ (c.action \in {"stop", "destroy"} /\ c.s \in sessions)
    THEN "provider" ELSE "answer"

Outcomes(c) == IF c.action = "query" THEN Queries(c.s) ELSE {FALSE}

(* Mutant of Take: a stopped agent takes no more commands.                 *)
TakeWhenRunning ==
    /\ Up /\ running /\ cmd = NoCommand /\ queue # <<>>
    /\ \E ok \in Outcomes(Head(queue)) :
          cmd' = [Head(queue) EXCEPT !.pc = FirstStep(Head(queue)), !.ok = ok]
    /\ queue' = Tail(queue)
    /\ UNCHANGED <<process, tables, box, given, tried, monitor, outside, alive>>

Take ==
    /\ Up /\ cmd = NoCommand /\ queue # <<>>
    /\ \E ok \in Outcomes(Head(queue)) :
          cmd' = [Head(queue) EXCEPT !.pc = FirstStep(Head(queue)), !.ok = ok]
    /\ queue' = Tail(queue)
    /\ UNCHANGED <<process, tables, box, given, tried, monitor, outside, alive>>

(* One step of the provider's createLocal: init, and then the mount.       *)
CreateSession ==
    /\ Up /\ cmd.action = "create"
    /\ \/ /\ cmd.pc = "provider"
          /\ \E kind \in Providers :
             \E o \in IF kind = "lxc" THEN LXCCreate(box[cmd.s], FALSE)
                      ELSE DockerCreate(box[cmd.s], FALSE, FALSE, TRUE) :
                 /\ box' = [box EXCEPT ![cmd.s] = o.status]
                 /\ cmd' = [cmd EXCEPT !.pc = IF o.ok THEN "mount" ELSE "answer"]
       \/ /\ cmd.pc = "mount"
          /\ \E o \in LXCMount(box[cmd.s]) :
                 /\ box' = [box EXCEPT ![cmd.s] = o.status]
                 /\ cmd' = [cmd EXCEPT !.pc = IF o.ok THEN "insert" ELSE "answer"]
    /\ UNCHANGED <<process, tables, channel, monitor, outside, alive>>

InsertSession ==
    /\ Up /\ cmd.pc = "insert"
    /\ sessions' = sessions \cup {cmd.s}
    /\ alive' = IF box[cmd.s] = "none" THEN alive ELSE alive \cup {cmd.s}
    /\ cmd' = [cmd EXCEPT !.pc = "answer", !.ok = TRUE]
    /\ UNCHANGED <<process, services, box, channel, monitor, outside>>

StopOutcomes == IF cmd.action = "stop" THEN LXCStop(box[cmd.s]) ELSE LXCDestroy(box[cmd.s])

(* Mutant of ProviderCall: the provider's error is logged and forgotten.   *)
ProviderCallUnchecked ==
    /\ Up /\ cmd.pc = "provider" /\ cmd.action \in {"stop", "destroy"}
    /\ \E o \in StopOutcomes : box' = [box EXCEPT ![cmd.s] = o.status]
    /\ cmd' = [cmd EXCEPT !.pc = "delete"]
    /\ alive' = alive \ {cmd.s}
    /\ UNCHANGED <<process, tables, channel, monitor, outside>>

(* stop and destroy call the provider without the lock ...                 *)
ProviderCall ==
    /\ Up /\ cmd.pc = "provider" /\ cmd.action \in {"stop", "destroy"}
    /\ \E o \in StopOutcomes :
          /\ box' = [box EXCEPT ![cmd.s] = o.status]
          /\ alive' = IF o.ok THEN alive \ {cmd.s} ELSE alive
          /\ cmd' = [cmd EXCEPT !.pc = IF o.ok THEN "delete" ELSE "answer", !.ok = FALSE]
    /\ UNCHANGED <<process, tables, channel, monitor, outside>>

(* ... and remove the entries afterwards.                                  *)
DeleteSession ==
    /\ Up /\ cmd.pc = "delete"
    /\ sessions' = sessions \ {cmd.s} /\ services' = services \ {cmd.s}
    /\ cmd' = [cmd EXCEPT !.pc = "answer", !.ok = TRUE]
    /\ UNCHANGED <<process, box, channel, monitor, outside, alive>>

(* The result is posted once; when that fails it is lost, and the agent    *)
(* goes on just the same.                                                  *)
SendCommandResult ==
    /\ Up /\ cmd.pc = "answer"
    /\ cmd' = NoCommand
    /\ UNCHANGED <<process, tables, box, channel, monitor, outside, alive>>

-----------------------------------------------------------------------------
(* The service monitor, without the lock.                                  *)

MonitorTick ==
    /\ Up /\ monitor.pc = "idle" /\ sessions # {}
    /\ monitor' = [Quiet EXCEPT !.pc = "range", !.todo = sessions]
    /\ UNCHANGED <<process, tables, box, channel, cmd, outside, alive>>

(* What `lxc list` prints first: a container whose name comes before the   *)
(* others', or one that is no session's.                                   *)
PrintedFirst ==
    LET present == {a \in Ahead : box[a] # "none"}
    IN  IF present = {} THEN {NoSession} ELSE present

(* Mutant of MonitorList: only a running container counts.                 *)
MonitorListRunning(s) ==
    /\ Up /\ monitor.pc = "range" /\ s \in monitor.todo \cap sessions
    /\ \E first \in PrintedFirst :
          monitor' = [monitor EXCEPT !.pc = "listed", !.s = s, !.todo = @ \ {s},
                                     !.found = box[s] = "running" /\ s # first]
    /\ UNCHANGED <<process, tables, box, channel, cmd, outside, alive>>

MonitorList(s) ==
    /\ Up /\ monitor.pc = "range" /\ s \in monitor.todo \cap sessions
    /\ \E first \in PrintedFirst :
          monitor' = [monitor EXCEPT !.pc = "listed", !.s = s, !.todo = @ \ {s},
                                     !.found = LXCListed(box[s], s = first)]
    /\ UNCHANGED <<process, tables, box, channel, cmd, outside, alive>>

(* A list that cannot be had says nothing: the entry is left as it is.     *)
MonitorListFails(s) ==
    /\ Up /\ monitor.pc = "range" /\ s \in monitor.todo \cap sessions
    /\ outside < MaxOutside /\ outside' = outside + 1
    /\ monitor' = [monitor EXCEPT !.todo = @ \ {s}]
    /\ UNCHANGED <<process, tables, box, channel, cmd, alive>>

(* Mutant of MonitorWrite: only the service of a lost session is dropped.  *)
MonitorWriteServices ==
    /\ Up /\ monitor.pc = "listed"
    /\ services' = IF monitor.found THEN services \cup {monitor.s} ELSE services \ {monitor.s}
    /\ monitor' = [monitor EXCEPT !.pc = "range", !.s = NoSession, !.found = FALSE]
    /\ UNCHANGED <<process, sessions, box, channel, cmd, outside, alive>>

(* What was listed is written down later, whatever happened since.         *)
MonitorWrite ==
    /\ Up /\ monitor.pc = "listed"
    /\ IF monitor.found
       THEN services' = services \cup {monitor.s} /\ UNCHANGED sessions
       ELSE services' = services \ {monitor.s} /\ sessions' = sessions \ {monitor.s}
    /\ monitor' = [monitor EXCEPT !.pc = "range", !.s = NoSession, !.found = FALSE]
    /\ UNCHANGED <<process, box, channel, cmd, outside, alive>>

MonitorDone ==
    /\ Up /\ monitor.pc = "range" /\ monitor.todo \cap sessions = {}
    /\ monitor' = Quiet
    /\ UNCHANGED <<process, tables, box, channel, cmd, outside, alive>>

-----------------------------------------------------------------------------
(* The outside: a container is removed behind the agent's back; two        *)
(* goroutines are caught in one map; the process is started again.         *)

Vanish(s) ==
    /\ outside < MaxOutside /\ outside' = outside + 1
    /\ box[s] # "none" /\ cmd.s # s
    /\ box' = [box EXCEPT ![s] = "none"]
    /\ alive' = alive \ {s}
    /\ UNCHANGED <<process, tables, channel, cmd, monitor>>

(* The maps in use without the lock, and those being written.              *)
Unlocked == monitor.pc # "idle" \/ life = "stopping"
Writing == cmd.pc \in {"insert", "delete"} \/ (monitor.pc = "listed" /\ life = "stopping")

Crash ==
    /\ Up /\ Unlocked /\ Writing
    /\ outside < MaxOutside /\ outside' = outside + 1
    /\ life' = "crashed" /\ running' = FALSE
    /\ UNCHANGED <<stopTodo, tables, box, channel, cmd, monitor, alive>>

(* A new process: NewAgent's tables are empty, its node has a new name.    *)
NewAgent ==
    /\ life = "crashed"
    /\ life' = "new" /\ running' = FALSE
    /\ sessions' = {} /\ services' = {} /\ stopTodo' = {}
    /\ queue' = <<>> /\ cmd' = NoCommand /\ monitor' = Quiet
    /\ alive' = {}
    /\ UNCHANGED <<box, given, tried, outside>>

Init ==
    /\ life = "new" /\ running = FALSE
    /\ sessions = {} /\ services = {} /\ stopTodo = {}
    /\ box = [s \in Sessions |-> "none"]
    /\ queue = <<>> /\ cmd = NoCommand
    /\ monitor = Quiet
    /\ given = 0 /\ outside = 0 /\ tried = {} /\ alive = {}

Processor ==
    \/ Take \/ CreateSession \/ InsertSession \/ ProviderCall \/ DeleteSession
    \/ SendCommandResult
Monitor == MonitorTick \/ (\E s \in Sessions : MonitorList(s)) \/ MonitorWrite \/ MonitorDone
Owner ==
    \/ Start \/ RegisterWithServer \/ Stop \/ UnregisterFromServer
    \/ \E s \in Sessions : StopSession(s)
Outside ==
    \/ \E s \in Sessions : Vanish(s) \/ MonitorListFails(s)
    \/ Crash \/ NewAgent

Next ==
    \/ Processor \/ Monitor \/ Owner \/ Outside
    \/ \E action \in Actions, s \in Sessions : Submit(action, s)

Spec == Init /\ [][Next]_vars

(* The goroutines are scheduled, and every call of the provider returns.   *)
FairSpec == Spec /\ WF_vars(Processor) /\ WF_vars(Monitor)

-----------------------------------------------------------------------------
(* The result of a create, stop or destroy that is about to be sent as a   *)
(* success is true: the container is there, is not running, or is gone.    *)
SuccessIsTrue ==
    cmd.pc = "answer" /\ cmd.ok =>
        /\ cmd.action = "create" => box[cmd.s] # "none"
        /\ cmd.action = "stop" => box[cmd.s] # "running"
        /\ cmd.action = "destroy" => box[cmd.s] = "none"

(* While identifiers are not reused, a session whose container nobody      *)
(* stopped or destroyed since it was created stays in the table, whatever  *)
(* the monitor and the other commands do meanwhile.  Only those that `lxc  *)
(* list` may print first are excepted: the monitor does not find them and  *)
(* forgets them while they live (lxc.go:364, node.go:524-527).             *)
AliveIsKnown == ~Reuse /\ Up => alive \ Ahead \subseteq sessions

(* Every command taken by a process that does not crash is answered or its *)
(* answer lost, and the next is taken.                                     *)
QueueDrains == (Up /\ queue # <<>>) ~> (queue = <<>> \/ ~Up)

(* A session whose container vanished is forgotten.                        *)
VanishedIsForgotten ==
    \A s \in Sessions :
        (Up /\ s \in sessions /\ box[s] = "none") ~> (s \notin sessions \/ box[s] # "none" \/ ~Up)
=============================================================================
