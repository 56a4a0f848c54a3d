---------------------------- MODULE Dependencies ----------------------------
(***************************************************************************)
(* The orders in which services that depend on each other are taken: those *)
(* of a workspace (pkg/agent) and those of the orchestrator                *)
(* (pkg/orchestration).  The graphs are those of Plugins: active are the   *)
(* services that are listed, and what they need need not be listed.        *)
(*                                                                         *)
(* Both algorithms visit depth first, by a function that calls itself.     *)
(* Here a visit is a loop: its state has the stack of the calls under way  *)
(* and the order made so far, and a turn of it goes on to the next name in *)
(* the list that the topmost call ranges over, or returns from that call.  *)
(* Every name is entered once and left once.                               *)
(***************************************************************************)
EXTENDS Plugins

NoName == 0
Nothing == [stack |-> << >>, result |-> << >>, failed |-> FALSE]
Moves == 2 * Cardinality(Things)

\* depGraph: what is listed and what that depends on.
DepGraph(dependsOn, services) ==
    [n \in Things |-> IF n \in ToSet(services) THEN dependsOn[n] ELSE << >>]

\* The next name not visited, of the services or of what the topmost call visits.
NextName(graph, services, st, visited) ==
    LET names == IF st.stack = << >> THEN services ELSE graph[Last(st.stack)]
        left == {i \in 1 .. Len(names) : names[i] \notin visited}
    IN  IF left = {} THEN NoName ELSE names[Min(left)]

-----------------------------------------------------------------------------
(* WorkspaceManager.resolveServiceDependencies: visiting is what is on the *)
(* stack and visited what is in the order.  Who is met while visited is an *)
(* error.  A name that no service has ends up in the order as a service    *)
(* without a command.                                                      *)

(* Mutant of Visit: a cycle is not noticed.                                *)
VisitAgain(st, n) == [st EXCEPT !.stack = Append(@, n)]

Visit(st, n) ==
    IF n \in ToSet(st.stack) THEN [st EXCEPT !.failed = TRUE]
    ELSE [st EXCEPT !.stack = Append(@, n)]

(* Mutant of Visited: who is left is put in front.                         *)
VisitedInFront(st) ==
    [st EXCEPT !.stack = Front(@), !.result = << Last(st.stack) >> \o @]

Visited(st) == [st EXCEPT !.stack = Front(@), !.result = Append(@, Last(st.stack))]

VisitTurn(graph, services, st) ==
    LET n == NextName(graph, services, st, ToSet(st.result)) IN
    IF st.failed THEN st
    ELSE IF n # NoName THEN Visit(st, n)
    ELSE IF st.stack = << >> THEN st ELSE Visited(st)

ResolveServiceDependencies(dependsOn, services) ==
    LET turn[k \in 0 .. Moves] ==
          IF k = 0 THEN Nothing
          ELSE VisitTurn(DepGraph(dependsOn, services), services, turn[k - 1])
        end == turn[Moves]
    IN  IF end.failed THEN Error ELSE end.result

-----------------------------------------------------------------------------
(* BaseOrchestrator.resolveDependencies marks a service when it is met     *)
(* first and knows no error; the services come in the order of a map.      *)
Marked(st) == ToSet(st.stack) \cup ToSet(st.result)

(* Mutant of OrchestrateTurn: a service is put before what it depends on.  *)
OrchestrateFirst(graph, services, st) ==
    LET n == NextName(graph, services, st, ToSet(st.result)) IN
    IF n # NoName THEN [st EXCEPT !.stack = Append(@, n), !.result = Append(@, n)]
    ELSE IF st.stack = << >> THEN st ELSE [st EXCEPT !.stack = Front(@)]

OrchestrateTurn(graph, services, st) ==
    LET n == NextName(graph, services, st, Marked(st)) IN
    IF n # NoName THEN [st EXCEPT !.stack = Append(@, n)]
    ELSE IF st.stack = << >> THEN st
    ELSE [st EXCEPT !.stack = Front(@), !.result = Append(@, Last(st.stack))]

OrchestratorOrder(dependsOn, services) ==
    LET turn[k \in 0 .. Moves] ==
          IF k = 0 THEN Nothing
          ELSE OrchestrateTurn(DepGraph(dependsOn, services), services, turn[k - 1])
    IN  turn[Moves].result

-----------------------------------------------------------------------------
(* What there is to start: what is listed, and what that depends on.       *)
Needs(dependsOn, services) ==
    [n \in Things |-> ToSet(DepGraph(dependsOn, services)[n])]
Needed(dependsOn, services) ==
    ToSet(services) \cup UNION {Needs(dependsOn, services)[n] : n \in Things}

(* Services and their dependencies may be listed in any order; the agent   *)
(* refuses a cycle ...                                                     *)
ServicesInOrder(dependsOn, services) ==
    LET needs == Needs(dependsOn, services)
        all == Needed(dependsOn, services)
        order == ResolveServiceDependencies(dependsOn, services)
    IN  IF Cyclic(needs, all) THEN order = Error ELSE Orders(needs, order, all)

(* ... and the orchestrator, which starts them all at once anyway, does    *)
(* not look for one.                                                       *)
OrchestratedInOrder(dependsOn, services) ==
    LET needs == Needs(dependsOn, services)
        all == Needed(dependsOn, services)
    IN  ~Cyclic(needs, all) => Orders(needs, OrchestratorOrder(dependsOn, services), all)

(* Each of the three algorithms puts everything after what it depends on,  *)
(* on every graph and whatever order its input comes in                    *)
(* (registry.go:103-183, workspace_manager.go:451-500,                     *)
(* orchestrator.go:199-228).                                               *)
DependenciesFirst ==
    /\ PluginsInOrder
    /\ LET dependsOn == [n \in Things |-> SetToSeq(Deps[n])] IN
       \A services \in SetToSeqs(active) :
          /\ ServicesInOrder(dependsOn, services)
          /\ OrchestratedInOrder(dependsOn, services)
=============================================================================
