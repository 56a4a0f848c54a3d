---------------------------- MODULE AgentNodeProofs ----------------------------
(***************************************************************************)
(* Theorems about AgentNode, for any sessions, any commands and any        *)
(* interleaving of the processor, the monitor, Stop and the outside.       *)
(***************************************************************************)
EXTENDS AgentNode, TLAPS

USE AgentAssumption

-----------------------------------------------------------------------------
(* Type correctness.                                                       *)

Command == [action : Actions, s : Sessions, pc : {"idle"}, ok : {FALSE}]
Steps == {"idle", "provider", "mount", "insert", "delete", "answer"}
Execution == [action : Actions \cup {"none"}, s : Sessions \cup {NoSession}, pc : Steps,
              ok : BOOLEAN]
MonitorType == [pc : {"idle", "range", "listed"}, todo : SUBSET Sessions,
                s : Sessions \cup {NoSession}, found : BOOLEAN]

TypeOK ==
    /\ life \in {"new", "starting", "up", "failed", "stopping", "stopped", "crashed"}
    /\ running \in BOOLEAN
    /\ sessions \subseteq Sessions /\ services \subseteq Sessions
    /\ box \in [Sessions -> Statuses]
    /\ queue \in Seq(Command)
    /\ cmd \in Execution
    /\ monitor \in MonitorType
    /\ stopTodo \subseteq Sessions
    /\ given \in Nat /\ outside \in Nat
    /\ tried \subseteq Sessions /\ alive \subseteq Sessions

\* What is executed is a command of some session, and so is what is listed.
BusyHaveSessions ==
    /\ cmd.pc # "idle" => cmd.s \in Sessions /\ cmd.action \in Actions
    /\ monitor.pc = "listed" => monitor.s \in Sessions

TypeInv == TypeOK /\ BusyHaveSessions

-----------------------------------------------------------------------------
(* The inductive invariants.                                               *)

\* Which commands reach which step, and what their container is like there: a
\* success is reported only past a provider call that had one, and until it is
\* sent nobody else undoes it.
StepsAreEarned ==
    /\ cmd.pc \in {"provider", "mount", "insert", "delete"} =>
          ~ cmd.ok /\ cmd.action \in {"create", "stop", "destroy"}
    /\ cmd.pc \in {"mount", "insert"} => cmd.action = "create"
    /\ cmd.pc = "insert" => box[cmd.s] # "none"
    /\ cmd.pc = "delete" => /\ cmd.action \in {"stop", "destroy"}
                            /\ cmd.action = "stop" => box[cmd.s] # "running"
                            /\ cmd.action = "destroy" => box[cmd.s] = "none"

SuccessInv == StepsAreEarned /\ SuccessIsTrue

\* A create of s is waiting, or being executed and has not inserted s yet.
Waiting(s) == \E i \in 1..Len(queue) : queue[i].action = "create" /\ queue[i].s = s
Inserting(s) ==
    cmd.action = "create" /\ cmd.s = s /\ cmd.pc \in {"provider", "mount", "insert"}
Settled(s) == s \in tried /\ ~ Waiting(s) /\ ~ Inserting(s)

\* While identifiers are not reused there is one create per session.
OneCreate ==
    /\ \A i, j \in 1..Len(queue) :
          queue[i].action = "create" /\ queue[j].action = "create" /\ queue[i].s = queue[j].s
              => i = j
    /\ \A s \in Sessions : Inserting(s) => s \in tried /\ ~ Waiting(s)
    /\ \A s \in Sessions : Waiting(s) => s \in tried

\* So what the tables know will not be created again, and what the monitor did
\* not find, or a command deletes, is not alive and cannot come back to life.
KnownAreSettled ==
    /\ \A s \in sessions \cup alive : Settled(s)
    /\ alive \ Ahead \subseteq sessions
    /\ \A s \in alive : box[s] # "none"
    /\ monitor.pc = "listed" =>
          Settled(monitor.s) /\ (~ monitor.found => monitor.s \notin alive \ Ahead)
    /\ cmd.pc = "delete" => cmd.s \notin alive

AliveInv == OneCreate /\ KnownAreSettled

-----------------------------------------------------------------------------
(* What a call of the driver may do.                                       *)

\* The outcomes of the calls the agent makes, for any status of the container.
LEMMA DriverCalls ==
    ASSUME NEW b \in Statuses
    PROVE  /\ \A o \in LXCStop(b) :
                 /\ o.status \in Statuses /\ (o.status = "none" <=> b = "none")
                 /\ o.ok => o.status = "stopped"
                 /\ ~ o.ok => o.status = b
           /\ \A o \in LXCDestroy(b) :
                 o.status \in Statuses /\ (IF o.ok THEN o.status = "none" ELSE o.status = b)
           /\ \A o \in LXCCreate(b, FALSE) :
                 /\ o.status \in Statuses /\ (b # "none" => o.status # "none")
           /\ \A o \in DockerCreate(b, FALSE, FALSE, TRUE) : o.status = b /\ ~ o.ok
           /\ \A o \in LXCMount(b) : o.status \in Statuses /\ (o.ok => o.status # "none")
<1>1. /\ Refused(b).status = b /\ ~ Refused(b).ok
      /\ \A a \in Statuses : Did(a).status = a /\ Did(a).ok
      /\ Refused("none").status = "none" /\ ~ Refused("none").ok
  BY DEF Refused, Did
<1>2. "stopped" \in Statuses /\ "none" \in Statuses /\ "created" \in Statuses
  BY DEF Statuses
<1>3. \A o \in LXCStop(b) : o = Refused(b) \/ (o = Did("stopped") /\ b = "running")
  BY DEF LXCStop, Either
<1>4. \A o \in LXCDestroy(b) : o = Refused(b) \/ o = Did("none")
  BY DEF LXCDestroy, Either
<1>5. \A o \in LXCCreate(b, FALSE) : o = Refused(b) \/ o = Did("created")
  BY DEF LXCCreate, LXCInit, Either
<1>6. \A o \in DockerCreate(b, FALSE, FALSE, TRUE) : o = Refused(b)
  BY DEF DockerCreate
<1>7. \A o \in LXCMount(b) :
         \/ o.status = b /\ b # "none"
         \/ ~ o.ok /\ \E d \in LXCDestroy(b) : o.status = d.status
  BY DEF LXCMount
<1> HIDE DEF Refused, Did
<1>8. \A o \in LXCStop(b) :
         /\ o.status \in Statuses /\ (o.status = "none" <=> b = "none")
         /\ o.ok => o.status = "stopped"
         /\ ~ o.ok => o.status = b
  BY <1>1, <1>2, <1>3
<1>9. \A o \in LXCDestroy(b) :
         o.status \in Statuses /\ (IF o.ok THEN o.status = "none" ELSE o.status = b)
  BY <1>1, <1>2, <1>4
<1>10. \A o \in LXCCreate(b, FALSE) :
          o.status \in Statuses /\ (b # "none" => o.status # "none")
  BY <1>1, <1>2, <1>5
<1>11. \A o \in DockerCreate(b, FALSE, FALSE, TRUE) : o.status = b /\ ~ o.ok
  BY <1>1, <1>6
<1>12. \A o \in LXCMount(b) : o.status \in Statuses /\ (o.ok => o.status # "none")
  BY <1>7, <1>9
<1> QED
  BY <1>8, <1>9, <1>10, <1>11, <1>12

-----------------------------------------------------------------------------
(* Types are kept.                                                         *)

\* The resting values, and a command as it is put in the channel.
LEMMA RestTypes ==
    /\ NoCommand \in Execution /\ NoCommand.pc = "idle" /\ NoCommand.action = "none"
    /\ NoCommand.s = NoSession
    /\ Quiet \in MonitorType /\ Quiet.pc = "idle"
    /\ \A action \in Actions, s \in Sessions :
          [NoCommand EXCEPT !.action = action, !.s = s] \in Command
  BY DEF NoCommand, Quiet, Execution, MonitorType, Command, Steps, Actions

\* The initial state is well typed.
LEMMA InitTypeInv == Init => TypeInv
<1> SUFFICES ASSUME Init PROVE TypeInv
  OBVIOUS
<1>1. cmd \in Execution /\ monitor \in MonitorType /\ cmd.pc = "idle" /\ monitor.pc = "idle"
  BY RestTypes DEF Init
<1>2. box \in [Sessions -> Statuses] /\ queue \in Seq(Command)
  BY DEF Init, Statuses
<1>3. TypeOK
  BY <1>1, <1>2 DEF Init, TypeOK
<1> QED
  BY <1>1, <1>3 DEF TypeInv, BusyHaveSessions

\* So is what a step of a command makes of it.
LEMMA ExecutionTypes ==
    ASSUME TypeInv, NEW pc \in Steps, NEW ok \in BOOLEAN
    PROVE  /\ [cmd EXCEPT !.pc = pc] \in Execution
           /\ [cmd EXCEPT !.pc = pc, !.ok = ok] \in Execution
  BY DEF TypeInv, TypeOK, Execution

\* A step of a command changes nothing else of it.
LEMMA ExecutionFields ==
    ASSUME TypeInv, NEW pc, NEW ok
    PROVE  /\ LET c == [cmd EXCEPT !.pc = pc] IN
              c.s = cmd.s /\ c.action = cmd.action /\ c.pc = pc /\ c.ok = cmd.ok
           /\ LET c == [cmd EXCEPT !.pc = pc, !.ok = ok] IN
              c.s = cmd.s /\ c.action = cmd.action /\ c.pc = pc /\ c.ok = ok
  BY DEF TypeInv, TypeOK, Execution

\* A command taken out of the channel is an execution of it.
LEMMA TakeTypes ==
    ASSUME TypeInv, Take
    PROVE  LET c == Head(queue) IN
           /\ c \in Command /\ queue' \in Seq(Command) /\ cmd' \in Execution
           /\ cmd'.action = c.action /\ cmd'.s = c.s
           /\ cmd'.pc = FirstStep(c) /\ cmd'.ok \in Outcomes(c)
<1> DEFINE c == Head(queue)
<1>1. c \in Command /\ queue' \in Seq(Command)
  BY DEF Take, TypeInv, TypeOK
<1>2. PICK ok \in Outcomes(c) : cmd' = [c EXCEPT !.pc = FirstStep(c), !.ok = ok]
  BY DEF Take
<1>3. ok \in BOOLEAN
  <2>1. CASE c.action = "query"
    <3>1. ok \in Queries(c.s)
      BY <1>2, <2>1 DEF Outcomes
    <3>2. StartSession(c.s) \in BOOLEAN /\ ExecInSession(c.s) \in BOOLEAN
          /\ ListSessions \in BOOLEAN /\ GetServiceStatus(c.s) \in BOOLEAN
      BY DEF StartSession, ExecInSession, ListSessions, GetServiceStatus
    <3> QED
      BY <3>1, <3>2 DEF Queries, ExecuteServiceCommand
  <2>2. CASE c.action # "query"
    BY <1>2, <2>2 DEF Outcomes
  <2> QED
    BY <2>1, <2>2
<1>4. FirstStep(c) \in Steps
  BY DEF FirstStep, Steps
<1> HIDE DEF c
<1> QED
  BY <1>1, <1>2, <1>3, <1>4 DEF c, Command, Execution

\* The steps of the command processor keep every type.
LEMMA ProcessorTypeInv ==
    ASSUME TypeInv, Processor
    PROVE  TypeInv'
<1> USE DEF process, tables, channel
<1>1. CASE Take
  <2>1. cmd'.s \in Sessions /\ cmd'.action \in Actions
    BY <1>1, TakeTypes DEF Command
  <2> QED
    BY <1>1, <2>1, TakeTypes DEF Take, TypeInv, TypeOK, BusyHaveSessions
<1>2. CASE CreateSession
  <2>1. cmd.s \in Sessions /\ cmd.action \in Actions
    BY <1>2 DEF CreateSession, TypeInv, BusyHaveSessions
  <2>2. \E b \in Statuses, pc \in Steps :
           box' = [box EXCEPT ![cmd.s] = b] /\ cmd' = [cmd EXCEPT !.pc = pc]
    <3>1. box[cmd.s] \in Statuses
      BY <2>1 DEF TypeInv, TypeOK
    <3>2. {"mount", "insert", "answer"} \subseteq Steps
      BY DEF Steps
    <3>3. CASE cmd.pc = "provider"
      <4>1. PICK kind \in Providers :
               \E o \in IF kind = "lxc" THEN LXCCreate(box[cmd.s], FALSE)
                        ELSE DockerCreate(box[cmd.s], FALSE, FALSE, TRUE) :
                   /\ box' = [box EXCEPT ![cmd.s] = o.status]
                   /\ cmd' = [cmd EXCEPT !.pc = IF o.ok THEN "mount" ELSE "answer"]
        BY <1>2, <3>3 DEF CreateSession
      <4>2. PICK o \in LXCCreate(box[cmd.s], FALSE) \cup DockerCreate(box[cmd.s], FALSE, FALSE, TRUE) :
               /\ box' = [box EXCEPT ![cmd.s] = o.status]
               /\ cmd' = [cmd EXCEPT !.pc = IF o.ok THEN "mount" ELSE "answer"]
        BY <4>1
      <4>3. o.status \in Statuses
        BY <3>1, DriverCalls
      <4> QED
        BY <4>2, <4>3, <3>2
    <3>4. CASE cmd.pc = "mount"
      <4>1. PICK o \in LXCMount(box[cmd.s]) :
               /\ box' = [box EXCEPT ![cmd.s] = o.status]
               /\ cmd' = [cmd EXCEPT !.pc = IF o.ok THEN "insert" ELSE "answer"]
        BY <1>2, <3>4 DEF CreateSession
      <4> QED
        BY <4>1, <3>1, <3>2, DriverCalls
    <3> QED
      BY <1>2, <3>3, <3>4 DEF CreateSession
  <2>3. cmd' \in Execution /\ cmd'.s = cmd.s /\ cmd'.action = cmd.action
    <3>1. PICK pc \in Steps : cmd' = [cmd EXCEPT !.pc = pc]
      BY <2>2
    <3> QED
      BY <3>1, ExecutionTypes, ExecutionFields
  <2>4. box' \in [Sessions -> Statuses]
    BY <2>1, <2>2 DEF TypeInv, TypeOK
  <2> QED
    BY <1>2, <2>1, <2>3, <2>4 DEF CreateSession, TypeInv, TypeOK, BusyHaveSessions
<1>3. CASE InsertSession
  <2>1. cmd.s \in Sessions /\ cmd.action \in Actions /\ cmd' = [cmd EXCEPT !.pc = "answer", !.ok = TRUE]
    BY <1>3 DEF InsertSession, TypeInv, BusyHaveSessions
  <2>2. cmd' \in Execution /\ cmd'.s \in Sessions /\ cmd'.action \in Actions
    BY <2>1, ExecutionTypes, ZenonT(30) DEF Steps, TypeInv, TypeOK, Execution
  <2> QED
    BY <1>3, <2>1, <2>2 DEF InsertSession, TypeInv, TypeOK, BusyHaveSessions
<1>4. CASE ProviderCall
  <2>1. cmd.s \in Sessions /\ cmd.action \in Actions
    BY <1>4 DEF ProviderCall, TypeInv, BusyHaveSessions
  <2>2. \E b \in Statuses, pc \in Steps :
           box' = [box EXCEPT ![cmd.s] = b] /\ cmd' = [cmd EXCEPT !.pc = pc, !.ok = FALSE]
    <3>1. box[cmd.s] \in Statuses
      BY <2>1 DEF TypeInv, TypeOK
    <3>2. {"delete", "answer"} \subseteq Steps
      BY DEF Steps
    <3> QED
      <4>1. \A o \in StopOutcomes : o.status \in Statuses
        BY <3>1, DriverCalls DEF StopOutcomes
      <4>2. PICK o \in StopOutcomes :
               /\ box' = [box EXCEPT ![cmd.s] = o.status]
               /\ cmd' = [cmd EXCEPT !.pc = IF o.ok THEN "delete" ELSE "answer", !.ok = FALSE]
        BY <1>4 DEF ProviderCall
      <4> QED
        BY <4>1, <4>2, <3>2
  <2>3. cmd' \in Execution /\ cmd'.s = cmd.s /\ cmd'.action = cmd.action
    <3>1. PICK pc \in Steps : cmd' = [cmd EXCEPT !.pc = pc, !.ok = FALSE]
      BY <2>2
    <3>2. [cmd EXCEPT !.pc = pc, !.ok = FALSE] \in Execution
      BY ExecutionTypes
    <3> QED
      BY <3>1, <3>2 DEF TypeInv, TypeOK, Execution
  <2>4. box' \in [Sessions -> Statuses] /\ alive' \subseteq Sessions
    BY <1>4, <2>1, <2>2 DEF ProviderCall, TypeInv, TypeOK
  <2> QED
    BY <1>4, <2>1, <2>3, <2>4 DEF ProviderCall, TypeInv, TypeOK, BusyHaveSessions
<1>5. CASE DeleteSession
  <2>1. cmd.s \in Sessions /\ cmd.action \in Actions /\ cmd' = [cmd EXCEPT !.pc = "answer", !.ok = TRUE]
    BY <1>5 DEF DeleteSession, TypeInv, BusyHaveSessions
  <2>2. cmd' \in Execution /\ cmd'.s \in Sessions /\ cmd'.action \in Actions
    BY <2>1, ExecutionTypes, ZenonT(30) DEF Steps, TypeInv, TypeOK, Execution
  <2> QED
    BY <1>5, <2>1, <2>2 DEF DeleteSession, TypeInv, TypeOK, BusyHaveSessions
<1>6. CASE SendCommandResult
  BY <1>6, RestTypes DEF SendCommandResult, TypeInv, TypeOK, BusyHaveSessions
<1> QED
  BY <1>1, <1>2, <1>3, <1>4, <1>5, <1>6 DEF Processor

\* So do the steps of the monitor.
LEMMA MonitorTypeInv ==
    ASSUME TypeInv,
           \/ MonitorTick \/ MonitorWrite \/ MonitorDone
           \/ \E s \in Sessions : MonitorList(s) \/ MonitorListFails(s)
    PROVE  TypeInv'
<1> USE DEF process, tables, channel
<1>0. monitor \in MonitorType
  BY DEF TypeInv, TypeOK
<1>1. CASE MonitorTick
  BY <1>1, RestTypes DEF MonitorTick, TypeInv, TypeOK, BusyHaveSessions, MonitorType
<1>2. CASE MonitorWrite
  BY <1>0, <1>2 DEF MonitorWrite, TypeInv, TypeOK, BusyHaveSessions, MonitorType
<1>3. CASE MonitorDone
  BY <1>3, RestTypes DEF MonitorDone, TypeInv, TypeOK, BusyHaveSessions
<1>4. ASSUME NEW s \in Sessions, MonitorList(s)
      PROVE  TypeInv'
  <2>1. \A first : LXCListed(box[s], s = first) \in BOOLEAN
    BY DEF LXCListed
  <2>2. PICK found \in BOOLEAN :
           monitor' = [monitor EXCEPT !.pc = "listed", !.s = s, !.todo = @ \ {s}, !.found = found]
    BY <1>4, <2>1 DEF MonitorList
  <2> QED
    BY <1>0, <1>4, <2>2 DEF MonitorList, TypeInv, TypeOK, BusyHaveSessions, MonitorType
<1>5. ASSUME NEW s \in Sessions, MonitorListFails(s)
      PROVE  TypeInv'
  BY <1>0, <1>5 DEF MonitorListFails, TypeInv, TypeOK, BusyHaveSessions, MonitorType
<1> QED
  BY <1>1, <1>2, <1>3, <1>4, <1>5

\* So do Start, Stop, a new command and the outside.
LEMMA OwnerTypeInv ==
    ASSUME TypeInv,
           \/ Owner \/ Crash \/ NewAgent
           \/ \E s \in Sessions : Vanish(s) \/ \E action \in Actions : Submit(action, s)
    PROVE  TypeInv'
<1> USE DEF process, tables, channel
<1>1. CASE Start \/ RegisterWithServer \/ Stop \/ UnregisterFromServer
  BY <1>1 DEF Start, RegisterWithServer, Stop, UnregisterFromServer, TypeInv, TypeOK,
              BusyHaveSessions
<1>2. ASSUME NEW s \in Sessions, StopSession(s)
      PROVE  TypeInv'
  <2>1. box' \in [Sessions -> Statuses]
    <3>1. box \in [Sessions -> Statuses] /\ box[s] \in Statuses
      BY DEF TypeInv, TypeOK
    <3>2. \A o \in LXCStop(box[s]) : o.status \in Statuses
      BY <3>1, DriverCalls
    <3>3. \A o \in LXCDestroy(box[s]) : o.status \in Statuses
      BY <3>1, DriverCalls
    <3> QED
      BY <1>2, <3>1, <3>2, <3>3 DEF StopSession
  <2> QED
    BY <1>2, <2>1 DEF StopSession, TypeInv, TypeOK, BusyHaveSessions
<1>3. ASSUME NEW s \in Sessions, Vanish(s)
      PROVE  TypeInv'
  BY <1>3 DEF Vanish, TypeInv, TypeOK, BusyHaveSessions, Statuses
<1>4. ASSUME NEW s \in Sessions, NEW action \in Actions, Submit(action, s)
      PROVE  TypeInv'
  <2> DEFINE c == [NoCommand EXCEPT !.action = action, !.s = s]
  <2>1. c \in Command
    BY RestTypes
  <2>2. queue' = Append(queue, c)
    BY <1>4 DEF Submit
  <2> HIDE DEF c
  <2>3. queue' \in Seq(Command)
    BY <2>1, <2>2 DEF TypeInv, TypeOK
  <2>4. tried' \subseteq Sessions /\ given' \in Nat
    <3>1. tried \subseteq Sessions /\ given \in Nat
      BY DEF TypeInv, TypeOK
    <3>2. tried' = tried \/ tried' = tried \cup {s}
      BY <1>4 DEF Submit
    <3>3. given' = given + 1
      BY <1>4 DEF Submit
    <3> QED
      BY <3>1, <3>2, <3>3
  <2>5. TypeOK'
    BY <1>4, <2>3, <2>4 DEF Submit, TypeInv, TypeOK
  <2>6. BusyHaveSessions'
    BY <1>4 DEF Submit, TypeInv, BusyHaveSessions
  <2> QED
    BY <2>5, <2>6 DEF TypeInv
<1>5. CASE Crash
  <2>1. outside' \in Nat
    BY <1>5 DEF Crash, TypeInv, TypeOK
  <2>2. life' \in {"new", "starting", "up", "failed", "stopping", "stopped", "crashed"}
    BY <1>5 DEF Crash
  <2>3. running' \in BOOLEAN
    BY <1>5 DEF Crash
  <2>4. <<sessions, services, box, queue, cmd, monitor, stopTodo, given, tried, alive>>'
         = <<sessions, services, box, queue, cmd, monitor, stopTodo, given, tried, alive>>
    BY <1>5 DEF Crash
  <2>5. BusyHaveSessions'
    BY <2>4 DEF TypeInv, BusyHaveSessions
  <2>6. TypeOK'
    BY <2>1, <2>2, <2>3, <2>4 DEF TypeInv, TypeOK
  <2> QED
    BY <2>5, <2>6 DEF TypeInv
<1>6. CASE NewAgent
  <2>1. cmd' \in Execution /\ monitor' \in MonitorType /\ cmd'.pc = "idle" /\ monitor'.pc = "idle"
    BY <1>6, RestTypes DEF NewAgent
  <2>2. queue' \in Seq(Command)
    BY <1>6 DEF NewAgent
  <2>3. TypeOK'
    BY <1>6, <2>1, <2>2 DEF NewAgent, TypeInv, TypeOK
  <2> QED
    BY <2>1, <2>3 DEF TypeInv, BusyHaveSessions
<1> QED
  BY <1>1, <1>2, <1>3, <1>4, <1>5, <1>6 DEF Owner

\* The types are kept by every step.
LEMMA NextTypeInv == TypeInv /\ [Next]_vars => TypeInv'
<1> SUFFICES ASSUME TypeInv, [Next]_vars PROVE TypeInv'
  OBVIOUS
<1>1. CASE UNCHANGED vars
  BY <1>1 DEF vars, TypeInv, TypeOK, BusyHaveSessions
<1> QED
  BY <1>1, ProcessorTypeInv, MonitorTypeInv, OwnerTypeInv DEF Next, Monitor, Outside

\* Every reachable state is well typed.
THEOREM TypeCorrect == Spec => []TypeInv
  BY InitTypeInv, NextTypeInv, PTL DEF Spec

-----------------------------------------------------------------------------
(* A success that is reported is true.                                     *)

\* Whatever the others do to the container of the command being executed, at
\* most a running container is stopped; that undoes no success.
LEMMA OthersKeepSuccess ==
    ASSUME SuccessInv, cmd' = cmd,
           \/ cmd.pc = "idle"
           \/ box'[cmd.s] = box[cmd.s]
           \/ box[cmd.s] # "none" /\ box'[cmd.s] = "stopped"
    PROVE  SuccessInv'
  BY DEF SuccessInv, StepsAreEarned, SuccessIsTrue

\* The steps of the command itself.
LEMMA ProcessorKeepsSuccess ==
    ASSUME TypeInv, SuccessInv, Processor
    PROVE  SuccessInv'
<1> USE DEF process, tables, channel
<1>1. CASE Take
  <2> DEFINE c == Head(queue)
  <2>1. /\ cmd'.action = c.action /\ cmd'.pc = FirstStep(c) /\ cmd'.ok \in Outcomes(c)
        /\ c \in Command
    BY <1>1, TakeTypes
  <2> HIDE DEF c
  <2>2. c.action # "query" => ~ cmd'.ok
    BY <2>1 DEF Outcomes
  <2>3. /\ cmd'.pc \in {"provider", "answer"}
        /\ cmd'.pc = "provider" => c.action \in {"create", "stop", "destroy"}
    BY <2>1 DEF FirstStep
  <2> QED
    BY <2>1, <2>2, <2>3 DEF SuccessInv, StepsAreEarned, SuccessIsTrue
<1>2. CASE CreateSession
  <2>1. cmd.s \in Sessions /\ box \in [Sessions -> Statuses] /\ box[cmd.s] \in Statuses
    BY <1>2 DEF CreateSession, TypeInv, TypeOK, BusyHaveSessions
  <2>2. cmd.action = "create" /\ ~ cmd.ok
    BY <1>2 DEF CreateSession, SuccessInv, StepsAreEarned
  <2>3. CASE cmd.pc = "provider"
    <3>1. PICK pc \in {"mount", "answer"} : cmd' = [cmd EXCEPT !.pc = pc]
      BY <1>2, <2>3 DEF CreateSession
    <3>2. cmd'.action = "create" /\ ~ cmd'.ok /\ cmd'.pc \in {"mount", "answer"}
      BY <2>2, <3>1, ExecutionFields
    <3> QED
      BY <3>2 DEF SuccessInv, StepsAreEarned, SuccessIsTrue
  <2>4. CASE cmd.pc = "mount"
    <3>1. PICK o \in LXCMount(box[cmd.s]) :
             /\ box' = [box EXCEPT ![cmd.s] = o.status]
             /\ cmd' = [cmd EXCEPT !.pc = IF o.ok THEN "insert" ELSE "answer"]
      BY <1>2, <2>4 DEF CreateSession
    <3>2. PICK pc \in {"insert", "answer"} :
             cmd' = [cmd EXCEPT !.pc = pc] /\ (pc = "insert" => o.ok)
      BY <3>1
    <3>3. cmd'.action = "create" /\ ~ cmd'.ok /\ cmd'.s = cmd.s /\ cmd'.pc = pc
      BY <2>2, <3>2, ExecutionFields
    <3>4. o.ok => o.status # "none"
      BY <2>1, DriverCalls
    <3>5. box'[cmd.s] = o.status
      BY <2>1, <3>1
    <3> QED
      BY <3>2, <3>3, <3>4, <3>5 DEF SuccessInv, StepsAreEarned, SuccessIsTrue
  <2> QED
    BY <1>2, <2>3, <2>4 DEF CreateSession
<1>3. CASE InsertSession
  <2>1. cmd.action = "create" /\ box[cmd.s] # "none"
    BY <1>3 DEF InsertSession, SuccessInv, StepsAreEarned
  <2>2. /\ cmd'.s = cmd.s /\ cmd'.action = cmd.action /\ cmd'.pc = "answer" /\ cmd'.ok
        /\ box' = box
    BY <1>3, ExecutionFields DEF InsertSession
  <2> QED
    BY <2>1, <2>2 DEF SuccessInv, StepsAreEarned, SuccessIsTrue
<1>4. CASE ProviderCall
  <2>1. cmd.s \in Sessions /\ box \in [Sessions -> Statuses] /\ box[cmd.s] \in Statuses
    BY <1>4 DEF ProviderCall, TypeInv, TypeOK, BusyHaveSessions
  <2>2. PICK o \in StopOutcomes :
           /\ box' = [box EXCEPT ![cmd.s] = o.status]
           /\ cmd' = [cmd EXCEPT !.pc = IF o.ok THEN "delete" ELSE "answer", !.ok = FALSE]
    BY <1>4 DEF ProviderCall
  <2>3. PICK pc \in {"delete", "answer"} :
           cmd' = [cmd EXCEPT !.pc = pc, !.ok = FALSE] /\ (pc = "delete" => o.ok)
    BY <2>2
  <2>4. /\ cmd'.s = cmd.s /\ cmd'.action = cmd.action /\ cmd'.pc = pc /\ ~ cmd'.ok
    BY <2>3 DEF TypeInv, TypeOK, Execution
  <2>8. box'[cmd.s] = o.status
    BY <2>1, <2>2
  <2>5. cmd.action = "stop" => (o.ok => o.status # "running")
    BY <2>1, DriverCalls DEF StopOutcomes
  <2>6. cmd.action = "destroy" => (o.ok => o.status = "none")
    BY <2>1, DriverCalls DEF StopOutcomes
  <2>7. cmd.action \in {"stop", "destroy"}
    BY <1>4 DEF ProviderCall
  <2> QED
    BY <2>3, <2>4, <2>5, <2>6, <2>7, <2>8 DEF SuccessInv, StepsAreEarned, SuccessIsTrue
<1>5. CASE DeleteSession
  <2>1. /\ cmd'.s = cmd.s /\ cmd'.action = cmd.action /\ cmd'.pc = "answer" /\ cmd'.ok
        /\ box' = box
    BY <1>5, ExecutionFields DEF DeleteSession
  <2>2. /\ cmd.action \in {"stop", "destroy"}
        /\ cmd.action = "stop" => box[cmd.s] # "running"
        /\ cmd.action = "destroy" => box[cmd.s] = "none"
    BY <1>5 DEF DeleteSession, SuccessInv, StepsAreEarned
  <2> QED
    BY <2>1, <2>2 DEF SuccessInv, StepsAreEarned, SuccessIsTrue
<1>6. CASE SendCommandResult
  BY <1>6, RestTypes DEF SendCommandResult, SuccessInv, StepsAreEarned, SuccessIsTrue
<1> QED
  BY <1>1, <1>2, <1>3, <1>4, <1>5, <1>6 DEF Processor

\* Every step keeps the invariant.
LEMMA NextSuccessInv == TypeInv /\ SuccessInv /\ [Next]_vars => SuccessInv'
<1> SUFFICES ASSUME TypeInv, SuccessInv, [Next]_vars PROVE SuccessInv'
  OBVIOUS
<1> USE DEF process, tables, channel
<1>1. CASE Processor
  BY <1>1, ProcessorKeepsSuccess
<1>2. ASSUME NEW s \in Sessions, StopSession(s)
      PROVE  SuccessInv'
  <2>1. PICK o \in LXCStop(box[s]) : box' = [box EXCEPT ![s] = o.status]
    BY <1>2 DEF StopSession
  <2>2. box \in [Sessions -> Statuses] /\ box[s] \in Statuses
    BY DEF TypeInv, TypeOK
  <2>3. /\ o.status = "none" <=> box[s] = "none"
        /\ o.ok => o.status = "stopped"
        /\ ~ o.ok => o.status = box[s]
    BY <2>2, DriverCalls
  <2>4. cmd.pc = "idle" \/ cmd.s \in Sessions
    BY DEF TypeInv, BusyHaveSessions
  <2>5. cmd' = cmd
    BY <1>2 DEF StopSession
  <2>6. CASE cmd.s = s
    BY <2>1, <2>2, <2>3, <2>5, <2>6, OthersKeepSuccess
  <2>7. CASE cmd.s # s
    BY <2>1, <2>2, <2>4, <2>5, <2>7, OthersKeepSuccess
  <2> QED
    BY <2>6, <2>7
<1>3. ASSUME NEW s \in Sessions, Vanish(s)
      PROVE  SuccessInv'
  <2>1. cmd.pc = "idle" \/ box'[cmd.s] = box[cmd.s]
    BY <1>3 DEF Vanish, TypeInv, TypeOK, BusyHaveSessions
  <2> QED
    BY <1>3, <2>1, OthersKeepSuccess DEF Vanish
<1>4. CASE NewAgent
  BY <1>4, RestTypes DEF NewAgent, SuccessInv, StepsAreEarned, SuccessIsTrue
<1>5. CASE UNCHANGED <<cmd, box>>
  BY <1>5, OthersKeepSuccess
<1>6. \/ Processor \/ NewAgent \/ UNCHANGED <<cmd, box>>
      \/ \E s \in Sessions : StopSession(s) \/ Vanish(s)
  BY DEF Next, Monitor, Owner, Outside, MonitorTick, MonitorList, MonitorWrite, MonitorDone,
         MonitorListFails, Start, RegisterWithServer, Stop, UnregisterFromServer, Crash,
         Submit, vars
<1> QED
  BY <1>1, <1>2, <1>3, <1>4, <1>5, <1>6

\* The result of a create, stop or destroy about to be sent as a success is
\* true of the container, whatever Stop, the monitor and the outside did since.
THEOREM ReportedIsTrue == Spec => []SuccessIsTrue
<1>1. Init => SuccessInv
  BY RestTypes DEF Init, SuccessInv, StepsAreEarned, SuccessIsTrue
<1>2. SuccessInv => SuccessIsTrue
  BY DEF SuccessInv
<1> QED
  BY <1>1, <1>2, NextSuccessInv, TypeCorrect, PTL DEF Spec

-----------------------------------------------------------------------------
(* What nobody stopped is known.                                           *)

\* Appending and taking, element by element.
LEMMA AppendFacts ==
    ASSUME NEW S, NEW q \in Seq(S), NEW e \in S
    PROVE  /\ Len(Append(q, e)) = Len(q) + 1
           /\ \A i \in 1..Len(q) : Append(q, e)[i] = q[i]
           /\ Append(q, e)[Len(q) + 1] = e
  OBVIOUS

\* What is left of a queue after its head.
LEMMA TailFacts ==
    ASSUME NEW S, NEW q \in Seq(S), q # <<>>
    PROVE  /\ Len(q) \in Nat \ {0} /\ Len(Tail(q)) = Len(q) - 1 /\ Head(q) = q[1]
           /\ \A i \in 1..Len(Tail(q)) : i + 1 \in 1..Len(q) /\ Tail(q)[i] = q[i + 1]
  OBVIOUS

\* The step of a command moves no command, and starts no create.
LEMMA QuietKeepsSettled ==
    ASSUME OneCreate, queue' = queue, tried' = tried,
           \A t \in Sessions : Inserting(t)' => Inserting(t)
    PROVE  OneCreate' /\ (\A t \in Sessions : Settled(t) => Settled(t)')
<1>1. \A t \in Sessions : Waiting(t)' <=> Waiting(t)
  BY DEF Waiting
<1> QED
  BY <1>1 DEF OneCreate, Settled

\* Taking a command: a create that is taken waits no more.
LEMMA TakeKeepsSettled ==
    ASSUME TypeInv, OneCreate, Take
    PROVE  OneCreate' /\ (\A t \in Sessions : Settled(t) => Settled(t)')
<1> DEFINE c == Head(queue)
<1>1. /\ queue \in Seq(Command) /\ queue # <<>> /\ queue' = Tail(queue) /\ tried' = tried
      /\ cmd = NoCommand
  BY DEF Take, TypeInv, TypeOK, channel
<1>2. c = queue[1] /\ Len(queue) \in Nat \ {0} /\ Len(queue') = Len(queue) - 1
  BY <1>1, TailFacts
<1>3. \A i \in 1..Len(queue') : i + 1 \in 1..Len(queue) /\ queue'[i] = queue[i + 1]
  BY <1>1, TailFacts
<1>4. cmd'.action = c.action /\ cmd'.s = c.s
  BY TakeTypes
<1> HIDE DEF c
<1>5. \A t \in Sessions : Waiting(t)' => Waiting(t)
  BY <1>3 DEF Waiting
<1>6. \A t \in Sessions : Inserting(t)' => c.action = "create" /\ c.s = t
  BY <1>4 DEF Inserting
<1>7. ASSUME c.action = "create"
      PROVE  Waiting(c.s) /\ \A t \in Sessions : t = c.s => ~ Waiting(t)'
  <2>1. 1 \in 1..Len(queue)
    BY <1>2
  <2>2. ASSUME NEW i \in 1..Len(queue'), queue'[i].action = "create", queue'[i].s = c.s
        PROVE  FALSE
    <3>1. i + 1 = 1
      BY <1>2, <1>3, <1>7, <2>1, <2>2 DEF OneCreate
    <3> QED
      BY <3>1
  <2>3. Waiting(c.s)
    BY <1>2, <1>7, <2>1 DEF Waiting
  <2>4. \A t \in Sessions : t = c.s => ~ Waiting(t)'
    BY <2>2 DEF Waiting
  <2> QED
    BY <2>3, <2>4
<1>8. \A i, j \in 1..Len(queue') :
         (queue'[i].action = "create" /\ queue'[j].action = "create" /\ queue'[i].s = queue'[j].s)
            => i = j
  <2> SUFFICES ASSUME NEW i \in 1..Len(queue'), NEW j \in 1..Len(queue'),
                      queue'[i].action = "create", queue'[j].action = "create",
                      queue'[i].s = queue'[j].s
               PROVE  i = j
    OBVIOUS
  <2>1. i + 1 = j + 1
    BY <1>3 DEF OneCreate
  <2> QED
    BY <2>1
<1>9. \A t \in Sessions : Inserting(t)' => t \in tried' /\ ~ Waiting(t)'
  <2> SUFFICES ASSUME NEW t \in Sessions, Inserting(t)'
               PROVE  t \in tried' /\ ~ Waiting(t)'
    OBVIOUS
  <2>1. c.action = "create" /\ c.s = t
    BY <1>6
  <2>2. Waiting(t) /\ ~ Waiting(t)'
    BY <1>7, <2>1
  <2> QED
    BY <1>1, <2>2 DEF OneCreate
<1>10. \A t \in Sessions : Waiting(t)' => t \in tried'
  BY <1>1, <1>5 DEF OneCreate
<1>11. OneCreate'
  BY <1>8, <1>9, <1>10 DEF OneCreate
<1>12. \A t \in Sessions : Settled(t) => Settled(t)'
  BY <1>1, <1>5, <1>6, <1>7 DEF Settled
<1> QED
  BY <1>11, <1>12

\* Giving a command: a create is for an identifier that is new.
LEMMA SubmitKeepsSettled ==
    ASSUME TypeInv, OneCreate, ~ Reuse, NEW s \in Sessions, NEW action \in Actions,
           Submit(action, s)
    PROVE  OneCreate' /\ (\A t \in Sessions : Settled(t) => Settled(t)')
<1> DEFINE c == [NoCommand EXCEPT !.action = action, !.s = s]
<1>1. c \in Command /\ c.action = action /\ c.s = s
  BY RestTypes DEF NoCommand
<1>2. /\ queue' = Append(queue, c) /\ cmd' = cmd /\ queue \in Seq(Command)
      /\ action = "create" => s \notin tried
  BY DEF Submit, TypeInv, TypeOK
<1>3. tried' = (IF action = "create" THEN tried \cup {s} ELSE tried)
  BY DEF Submit
<1> HIDE DEF c
<1>4. /\ Len(queue) \in Nat /\ Len(queue') = Len(queue) + 1
      /\ \A i \in 1..Len(queue) : queue'[i] = queue[i]
      /\ queue'[Len(queue) + 1] = c
  BY <1>1, <1>2, AppendFacts
<1>5. \A i \in 1..Len(queue') : i \in 1..Len(queue) \/ i = Len(queue) + 1
  BY <1>4
<1>6. \A t \in Sessions : Waiting(t)' => Waiting(t) \/ (action = "create" /\ t = s)
  BY <1>1, <1>4, <1>5 DEF Waiting
<1>7. \A t \in Sessions : Inserting(t)' <=> Inserting(t)
  BY <1>2 DEF Inserting
<1>8. action = "create" => ~ Waiting(s)
  BY <1>2 DEF OneCreate
<1>9. \A i, j \in 1..Len(queue') :
         (queue'[i].action = "create" /\ queue'[j].action = "create" /\ queue'[i].s = queue'[j].s)
            => i = j
  <2> SUFFICES ASSUME NEW i \in 1..Len(queue'), NEW j \in 1..Len(queue'),
                      queue'[i].action = "create", queue'[j].action = "create",
                      queue'[i].s = queue'[j].s
               PROVE  i = j
    OBVIOUS
  <2>1. CASE i \in 1..Len(queue) /\ j \in 1..Len(queue)
    BY <1>4, <2>1 DEF OneCreate
  <2>2. CASE i \in 1..Len(queue) /\ j = Len(queue) + 1
    BY <1>1, <1>4, <1>8, <2>2 DEF Waiting
  <2>3. CASE j \in 1..Len(queue) /\ i = Len(queue) + 1
    BY <1>1, <1>4, <1>8, <2>3 DEF Waiting
  <2> QED
    BY <1>5, <2>1, <2>2, <2>3
<1>10. OneCreate'
  BY <1>2, <1>3, <1>6, <1>7, <1>9 DEF OneCreate
<1>11. \A t \in Sessions : Settled(t) => Settled(t)'
  BY <1>2, <1>3, <1>6, <1>7 DEF Settled
<1> QED
  BY <1>10, <1>11

\* So no step unsettles a session, except that a new process forgets them all.
LEMMA StepKeepsSettled ==
    ASSUME TypeInv, OneCreate, ~ Reuse, [Next]_vars
    PROVE  OneCreate' /\ (NewAgent \/ \A t \in Sessions : Settled(t) => Settled(t)')
<1>1. CASE Take
  BY <1>1, TakeKeepsSettled
<1>2. ASSUME NEW s \in Sessions, NEW action \in Actions, Submit(action, s)
      PROVE  OneCreate' /\ (\A t \in Sessions : Settled(t) => Settled(t)')
  BY <1>2, SubmitKeepsSettled
<1>3. CASE NewAgent
  <2>1. Len(queue') = 0 /\ cmd'.action = "none"
    BY <1>3, RestTypes DEF NewAgent
  <2> QED
    BY <1>3, <2>1 DEF OneCreate, Waiting, Inserting
<1>4. CASE CreateSession \/ InsertSession \/ ProviderCall \/ DeleteSession \/ SendCommandResult
  <2>1. queue' = queue /\ tried' = tried
    BY <1>4 DEF CreateSession, InsertSession, ProviderCall, DeleteSession, SendCommandResult,
                channel
  <2>2. \A t \in Sessions : Inserting(t)' => Inserting(t)
    <3>1. CASE CreateSession
      <4>1. cmd.action = "create" /\ cmd.pc \in {"provider", "mount"}
        BY <3>1 DEF CreateSession
      <4>2. cmd'.s = cmd.s
        <5>1. \E pc \in Steps : cmd' = [cmd EXCEPT !.pc = pc]
          BY <3>1 DEF CreateSession, Steps
        <5> QED
          BY <5>1, ExecutionFields
      <4> QED
        BY <4>1, <4>2 DEF Inserting
    <3>2. CASE InsertSession \/ DeleteSession
      <4>1. cmd'.pc = "answer"
        <5>1. cmd' = [cmd EXCEPT !.pc = "answer", !.ok = TRUE]
          BY <3>2 DEF InsertSession, DeleteSession
        <5> QED
          BY <5>1 DEF TypeInv, TypeOK, Execution
      <4> QED
        BY <4>1 DEF Inserting
    <3>3. CASE ProviderCall
      <4>1. cmd'.action = cmd.action /\ cmd.action # "create"
        <5>1. \E pc \in Steps : cmd' = [cmd EXCEPT !.pc = pc, !.ok = FALSE]
          BY <3>3 DEF ProviderCall, Steps
        <5> QED
          BY <3>3, <5>1 DEF ProviderCall, TypeInv, TypeOK, Execution
      <4> QED
        BY <4>1 DEF Inserting
    <3>4. CASE SendCommandResult
      BY <3>4, RestTypes DEF SendCommandResult, Inserting
    <3> QED
      BY <1>4, <3>1, <3>2, <3>3, <3>4
  <2> QED
    BY <2>1, <2>2, QuietKeepsSettled
<1>5. CASE UNCHANGED <<queue, tried, cmd>>
  <2>1. \A t \in Sessions : Inserting(t)' => Inserting(t)
    BY <1>5 DEF Inserting
  <2> QED
    BY <1>5, <2>1, QuietKeepsSettled
<1>6. \/ Take \/ NewAgent \/ UNCHANGED <<queue, tried, cmd>>
      \/ CreateSession \/ InsertSession \/ ProviderCall \/ DeleteSession \/ SendCommandResult
      \/ \E action \in Actions, s \in Sessions : Submit(action, s)
  BY DEF Next, Processor, Monitor, Owner, Outside, MonitorTick, MonitorList, MonitorWrite,
         MonitorDone, MonitorListFails, Start, RegisterWithServer, Stop, StopSession,
         UnregisterFromServer, Vanish, Crash, vars, channel
<1> QED
  BY <1>1, <1>2, <1>3, <1>4, <1>5, <1>6

\* A step that adds no session, takes no container away from one that is
\* alive, and leaves the monitor and the command where they are.
LEMMA FewerKeepKnown ==
    ASSUME KnownAreSettled, sessions \subseteq Sessions, alive \subseteq Sessions,
           BusyHaveSessions,
           \A t \in Sessions : Settled(t) => Settled(t)',
           sessions' \subseteq sessions, alive' \subseteq alive, alive' \ Ahead \subseteq sessions',
           \A t \in alive' : box'[t] # "none",
           \/ monitor'.pc # "listed"
           \/ monitor' = monitor
           \/ /\ monitor'.s \in sessions
              /\ ~ monitor'.found => monitor'.s \notin alive' \ Ahead,
           \/ cmd'.pc # "delete"
           \/ cmd' = cmd
           \/ cmd'.s \notin alive'
    PROVE  KnownAreSettled'
  BY DEF KnownAreSettled, BusyHaveSessions

\* The steps of the processor.
LEMMA ProcessorKeepsKnown ==
    ASSUME TypeInv, SuccessInv, OneCreate, KnownAreSettled, Processor,
           \A t \in Sessions : Settled(t) => Settled(t)'
    PROVE  KnownAreSettled'
<1> USE DEF process, tables, channel
<1>0. /\ BusyHaveSessions /\ sessions \subseteq Sessions /\ alive \subseteq Sessions
      /\ alive \ Ahead \subseteq sessions
      /\ box \in [Sessions -> Statuses] /\ \A t \in alive : box[t] # "none"
  BY DEF TypeInv, TypeOK, KnownAreSettled
<1>1. CASE Take
  <2>1. cmd'.pc # "delete"
    BY <1>1, TakeTypes DEF FirstStep
  <2>2. UNCHANGED <<sessions, alive, box, monitor>>
    BY <1>1 DEF Take
  <2> QED
    BY <1>0, <2>1, <2>2, FewerKeepKnown
<1>2. CASE CreateSession
  <2>1. UNCHANGED <<sessions, alive, monitor>>
    BY <1>2 DEF CreateSession
  <2>2. cmd.s \in Sessions /\ Inserting(cmd.s)
    BY <1>2 DEF CreateSession, Inserting, TypeInv, BusyHaveSessions
  <2>3. \A t \in alive : box'[t] = box[t]
    <3>1. cmd.s \notin alive
      BY <2>2 DEF KnownAreSettled, Settled
    <3>2. \E b : box' = [box EXCEPT ![cmd.s] = b]
      BY <1>2 DEF CreateSession
    <3> QED
      BY <1>0, <3>1, <3>2
  <2>4. cmd'.pc # "delete"
    <3>1. PICK pc \in {"mount", "insert", "answer"} : cmd' = [cmd EXCEPT !.pc = pc]
      BY <1>2 DEF CreateSession
    <3> QED
      BY <3>1, ExecutionFields
  <2> QED
    BY <1>0, <2>1, <2>3, <2>4, FewerKeepKnown
<1>3. CASE InsertSession
  <2>1. /\ sessions' = sessions \cup {cmd.s} /\ UNCHANGED <<box, monitor>>
        /\ alive' \subseteq alive \cup {cmd.s}
    BY <1>3 DEF InsertSession
  <2>2. cmd.action = "create" /\ cmd.s \in Sessions /\ box[cmd.s] # "none"
    BY <1>3 DEF InsertSession, SuccessInv, StepsAreEarned, TypeInv, BusyHaveSessions
  <2>3. Inserting(cmd.s) /\ cmd'.pc = "answer"
    BY <1>3, <2>2, ExecutionFields DEF InsertSession, Inserting
  <2>4. \A t \in Sessions : ~ Inserting(t)'
    BY <2>3 DEF Inserting
  <2>5. cmd.s \in tried' /\ ~ Waiting(cmd.s)
    BY <1>3, <2>2, <2>3 DEF OneCreate, InsertSession
  <2>6. \A t \in Sessions : Waiting(t)' <=> Waiting(t)
    BY <1>3 DEF InsertSession, Waiting
  <2>7. \A t \in sessions' \cup alive' : Settled(t)'
    <3>1. ASSUME NEW t \in Sessions, t = cmd.s
          PROVE  Settled(t)'
      BY <2>4, <2>5, <2>6, <3>1 DEF Settled
    <3> QED
      BY <1>0, <2>1, <2>2, <3>1 DEF KnownAreSettled
  <2>8. (monitor.pc = "listed" =>
            Settled(monitor.s) /\ (~ monitor.found => monitor.s \notin alive \ Ahead))'
    <3> SUFFICES ASSUME monitor.pc = "listed"
                 PROVE  Settled(monitor.s)' /\ (~ monitor.found => monitor.s \notin alive' \ Ahead)
      BY <2>1
    <3>1. monitor.s \in Sessions /\ Settled(monitor.s)
      BY DEF KnownAreSettled, TypeInv, BusyHaveSessions
    <3>2. monitor.s # cmd.s
      BY <2>3, <3>1 DEF Settled
    <3>3. ASSUME NEW t \in Sessions, t = monitor.s
          PROVE  Settled(t)'
      BY <3>1, <3>3
    <3>4. Settled(monitor.s)'
      BY <3>1, <3>3, <2>1
    <3> QED
      BY <2>1, <3>2, <3>4 DEF KnownAreSettled
  <2>9. alive' \ Ahead \subseteq sessions' /\ \A t \in alive' : box'[t] # "none"
    BY <1>0, <2>1, <2>2
  <2> QED
    BY <2>3, <2>7, <2>8, <2>9 DEF KnownAreSettled
<1>4. CASE ProviderCall
  <2>1. cmd.s \in Sessions /\ box[cmd.s] \in Statuses /\ cmd.action \in {"stop", "destroy"}
    BY <1>0, <1>4 DEF ProviderCall, BusyHaveSessions
  <2>2. PICK o \in StopOutcomes :
           /\ box' = [box EXCEPT ![cmd.s] = o.status]
           /\ alive' = IF o.ok THEN alive \ {cmd.s} ELSE alive
           /\ cmd' = [cmd EXCEPT !.pc = IF o.ok THEN "delete" ELSE "answer", !.ok = FALSE]
    BY <1>4 DEF ProviderCall
  <2>3. ~ o.ok => o.status = box[cmd.s]
    BY <2>1, DriverCalls DEF StopOutcomes
  <2>4. /\ alive' \subseteq alive
        /\ o.ok => cmd.s \notin alive'
    BY <2>2
  <2>5. \A t \in alive' : box'[t] = box[t]
    BY <1>0, <2>1, <2>2, <2>3, <2>4
  <2>6. PICK pc \in {"delete", "answer"} :
           cmd' = [cmd EXCEPT !.pc = pc, !.ok = FALSE] /\ (pc = "delete" => o.ok)
    BY <2>2
  <2>7. cmd'.s = cmd.s /\ cmd'.pc = pc
    BY <2>6 DEF TypeInv, TypeOK, Execution
  <2>8. cmd'.pc = "delete" => cmd'.s \notin alive'
    BY <2>4, <2>6, <2>7
  <2>9. UNCHANGED <<sessions, monitor>>
    BY <1>4 DEF ProviderCall
  <2> QED
    BY <1>0, <2>4, <2>5, <2>8, <2>9, FewerKeepKnown
<1>5. CASE DeleteSession
  <2>1. sessions' = sessions \ {cmd.s} /\ cmd.s \notin alive /\ UNCHANGED <<alive, box, monitor>>
    BY <1>5 DEF DeleteSession, KnownAreSettled
  <2>2. cmd'.pc = "answer"
    BY <1>5, ExecutionFields DEF DeleteSession
  <2> QED
    BY <1>0, <2>1, <2>2, FewerKeepKnown
<1>6. CASE SendCommandResult
  <2>1. cmd'.pc = "idle" /\ UNCHANGED <<sessions, alive, box, monitor>>
    BY <1>6, RestTypes DEF SendCommandResult
  <2> QED
    BY <1>0, <2>1, FewerKeepKnown
<1> QED
  BY <1>1, <1>2, <1>3, <1>4, <1>5, <1>6 DEF Processor

\* The steps of everybody else.
LEMMA OthersKeepKnown ==
    ASSUME TypeInv, KnownAreSettled, [Next]_vars, ~ Processor, ~ NewAgent,
           \A t \in Sessions : Settled(t) => Settled(t)'
    PROVE  KnownAreSettled'
<1> USE DEF process, tables, channel
<1>0. /\ BusyHaveSessions /\ sessions \subseteq Sessions /\ alive \subseteq Sessions
      /\ alive \ Ahead \subseteq sessions
      /\ box \in [Sessions -> Statuses] /\ monitor \in MonitorType
      /\ \A t \in alive : box[t] # "none"
  BY DEF TypeInv, TypeOK, KnownAreSettled
<1>1. ASSUME NEW s \in Sessions, MonitorList(s)
      PROVE  KnownAreSettled'
  <2>1. PICK first \in PrintedFirst :
           monitor' = [monitor EXCEPT !.pc = "listed", !.s = s, !.todo = @ \ {s},
                                      !.found = LXCListed(box[s], s = first)]
    BY <1>1 DEF MonitorList
  <2>5. first \in Ahead \cup {NoSession}
    BY DEF PrintedFirst
  <2>2. s \in sessions /\ UNCHANGED <<sessions, alive, box, cmd>>
    BY <1>1 DEF MonitorList
  <2>3. monitor'.s = s /\ monitor'.found = LXCListed(box[s], s = first)
    BY <1>0, <2>1 DEF MonitorType
  <2>4. ~ monitor'.found => box[s] = "none" \/ s \in Ahead
    BY <2>3, <2>5 DEF LXCListed
  <2> QED
    BY <1>0, <2>2, <2>3, <2>4, FewerKeepKnown
<1>2. CASE MonitorWrite
  <2>1. /\ sessions' \subseteq sessions /\ UNCHANGED <<alive, box, cmd>>
        /\ alive \ Ahead \subseteq sessions'
    <3>1. CASE monitor.found
      BY <1>0, <1>2, <3>1 DEF MonitorWrite
    <3>2. CASE ~ monitor.found
      BY <1>0, <1>2, <3>2 DEF MonitorWrite, KnownAreSettled
    <3> QED
      BY <3>1, <3>2
  <2>2. monitor'.pc = "range"
    BY <1>0, <1>2 DEF MonitorWrite, MonitorType
  <2> QED
    BY <1>0, <2>1, <2>2, FewerKeepKnown
<1>3. ASSUME NEW s \in Sessions, StopSession(s)
      PROVE  KnownAreSettled'
  <2>1. /\ sessions' = sessions \ {s} /\ alive' = alive \ {s} /\ UNCHANGED <<cmd, monitor>>
        /\ \E b : box' = [box EXCEPT ![s] = b]
    BY <1>3 DEF StopSession
  <2>2. \A t \in alive' : box'[t] = box[t]
    BY <1>0, <2>1
  <2> QED
    BY <1>0, <2>1, <2>2, FewerKeepKnown
<1>4. ASSUME NEW s \in Sessions, Vanish(s)
      PROVE  KnownAreSettled'
  <2>1. /\ alive' = alive \ {s} /\ UNCHANGED <<cmd, monitor, sessions>>
        /\ box' = [box EXCEPT ![s] = "none"]
    BY <1>4 DEF Vanish
  <2>2. \A t \in alive' : box'[t] = box[t]
    BY <1>0, <2>1
  <2> QED
    BY <1>0, <2>1, <2>2, FewerKeepKnown
<1>5. CASE MonitorTick \/ MonitorDone \/ \E s \in Sessions : MonitorListFails(s)
  <2>1. UNCHANGED <<sessions, alive, box, cmd>>
    BY <1>5 DEF MonitorTick, MonitorDone, MonitorListFails
  <2>2. monitor'.pc # "listed"
    <3>1. CASE MonitorTick
      BY <3>1 DEF MonitorTick, Quiet
    <3>2. CASE MonitorDone
      BY <3>2, RestTypes DEF MonitorDone
    <3>3. CASE \E s \in Sessions : MonitorListFails(s)
      BY <1>0, <3>3 DEF MonitorListFails, MonitorType
    <3> QED
      BY <1>5, <3>1, <3>2, <3>3
  <2> QED
    BY <1>0, <2>1, <2>2, FewerKeepKnown
<1>6. CASE UNCHANGED <<sessions, alive, box, cmd, monitor>>
  BY <1>0, <1>6, FewerKeepKnown
<1>7. \/ MonitorWrite \/ MonitorTick \/ MonitorDone
      \/ \E s \in Sessions : MonitorList(s) \/ MonitorListFails(s) \/ StopSession(s) \/ Vanish(s)
      \/ UNCHANGED <<sessions, alive, box, cmd, monitor>>
  BY DEF Next, Monitor, Owner, Outside, Start, RegisterWithServer, Stop,
         UnregisterFromServer, Crash, Submit, vars
<1> QED
  BY <1>1, <1>2, <1>3, <1>4, <1>5, <1>6, <1>7

\* The invariant is kept by every step.
LEMMA NextAliveInv ==
    ASSUME ~ Reuse
    PROVE  TypeInv /\ SuccessInv /\ AliveInv /\ [Next]_vars => AliveInv'
<1> SUFFICES ASSUME TypeInv, SuccessInv, OneCreate, KnownAreSettled, [Next]_vars
             PROVE  OneCreate' /\ KnownAreSettled'
  BY DEF AliveInv
<1>1. OneCreate' /\ (NewAgent \/ \A t \in Sessions : Settled(t) => Settled(t)')
  BY StepKeepsSettled
<1>2. CASE NewAgent
  <2>1. sessions' = {} /\ alive' = {} /\ cmd'.pc = "idle" /\ monitor'.pc = "idle"
    BY <1>2, RestTypes DEF NewAgent
  <2>2. KnownAreSettled'
    BY <2>1 DEF KnownAreSettled
  <2> QED
    BY <1>1, <2>2
<1>3. CASE ~ NewAgent
  BY <1>1, <1>3, ProcessorKeepsKnown, OthersKeepKnown
<1> QED
  BY <1>2, <1>3

\* While identifiers are not reused, a session whose container nobody stopped or
\* destroyed stays in the table, but for those that lxc may print first.
THEOREM NotForgotten == Spec => []AliveIsKnown
<1>1. CASE Reuse
  <2>1. AliveIsKnown
    BY <1>1 DEF AliveIsKnown
  <2> QED
    BY <2>1, PTL
<1>2. CASE ~ Reuse
  <2>1. Init => SuccessInv /\ AliveInv
    <3> SUFFICES ASSUME Init PROVE SuccessInv /\ AliveInv
      OBVIOUS
    <3>1. /\ Len(queue) = 0 /\ cmd.pc = "idle" /\ cmd.action = "none" /\ monitor.pc = "idle"
          /\ sessions = {} /\ alive = {}
      BY RestTypes DEF Init
    <3>2. SuccessInv
      BY <3>1 DEF SuccessInv, StepsAreEarned, SuccessIsTrue
    <3>3. OneCreate /\ KnownAreSettled
      BY <3>1 DEF OneCreate, KnownAreSettled, Waiting, Inserting
    <3> QED
      BY <3>2, <3>3 DEF AliveInv
  <2>2. AliveInv => AliveIsKnown
    BY DEF AliveInv, KnownAreSettled, AliveIsKnown
  <2>3. TypeInv /\ SuccessInv /\ AliveInv /\ [Next]_vars => AliveInv'
    BY <1>2, NextAliveInv
  <2> QED
    BY <2>1, <2>2, <2>3, NextSuccessInv, TypeCorrect, PTL DEF Spec
<1> QED
  BY <1>1, <1>2
=============================================================================
