----------------------------- MODULE NodeEvents -----------------------------
(***************************************************************************)
(* The coordination server's node registry and its event streams: requests *)
(* that register, update and unregister nodes (pkg/coordination/handlers.go*)
(* over the in-memory registry of registry.go), command results, and the   *)
(* clients that follow them over Server-Sent Events.                       *)
(*                                                                         *)
(* A request changes the registry in one critical section and broadcasts   *)
(* in another.  A "node_registered" event carries a copy of the node, a    *)
(* "node_updated" event a pointer to it, read when the event is written to *)
(* the client.  The node a request registers is named by the request.      *)
(***************************************************************************)
EXTENDS Naturals, SequencesExt

CONSTANTS
    Requests,    \* requests about nodes, each made once
    Streams,     \* SSE connections, each made once
    Nodes,       \* node identifiers
    Values,      \* what an update can change in a node
    Capacity,    \* of a client's channel (10)
    ResultRoom,  \* of commandCh (100)
    MaxResults,  \* bound: command results submitted
    Serial,      \* requests about the same node do not overlap
    Absent       \* no such node

ASSUME CapacityAssumption == {Capacity, ResultRoom} \subseteq Nat \ {0} /\ MaxResults \in Nat
ASSUME SerialAssumption == Serial \in BOOLEAN
ASSUME AbsentAssumption == Absent \notin Requests \cup Values

VARIABLES
    nodes,      \* InMemoryRegistry.nodes: identifier -> the node registered
    value,      \* the node a request registered -> its fields
    request,    \* request -> how far it is and what it announces
    clients,    \* Server.clients
    stream,     \* stream -> its handler and its channel
    commandCh,  \* the results accepted
    pump,       \* the result broadcastResults took and has not broadcast, or 0
    submitted   \* results submitted so far

nodeVars == <<nodes, value>>
resultVars == <<commandCh, pump, submitted>>
vars == <<nodes, value, request, clients, stream, commandCh, pump, submitted>>

Idle == [stage |-> "new", node |-> Absent, kind |-> "none", subject |-> Absent, copy |-> Absent]
Closed == [stage |-> "idle", queue |-> <<>>, closed |-> FALSE, view |-> [n \in Nodes |-> Absent],
           empty |-> FALSE]

Init ==
    /\ nodes = [n \in Nodes |-> Absent]
    /\ value = [r \in Requests |-> Absent]
    /\ request = [r \in Requests |-> Idle]
    /\ clients = {}
    /\ stream = [s \in Streams |-> Closed]
    /\ commandCh = <<>> /\ pump = 0 /\ submitted = 0

\* What List returns, as it is when it is encoded.
Current == [n \in Nodes |-> IF nodes[n] = Absent THEN Absent ELSE value[nodes[n]]]
-----------------------------------------------------------------------------
(* Requests about nodes.                                                   *)

Active(r) == request[r].stage \notin {"new", "done"}

Begin(r, n) ==
    /\ request[r].stage = "new"
    /\ Serial => \A q \in Requests : Active(q) => request[q].node # n

Goto(r, stage) == request' = [request EXCEPT ![r].stage = stage]

Announcing(r, n, kind, subject, stage) ==
    request' = [request EXCEPT ![r] = [stage |-> stage, node |-> n, kind |-> kind,
                                       subject |-> subject, copy |-> Absent]]

\* Registry.Register: over the node that had the identifier before.
Register(r) ==
    \E n \in Nodes, v \in Values :
        /\ Begin(r, n)
        /\ nodes' = [nodes EXCEPT ![n] = r]
        /\ value' = [value EXCEPT ![r] = v]
        /\ Announcing(r, n, "registered", r, "copy")
        /\ UNCHANGED <<clients, stream, resultVars>>

\* The event's copy of the node, made outside both locks.
Copy(r) ==
    /\ request[r].stage = "copy"
    /\ request' = [request EXCEPT ![r].stage = "announce", ![r].copy = value[r]]
    /\ UNCHANGED <<nodeVars, clients, stream, resultVars>>

\* Registry.Update changes the node in place; of an unknown node it is an error.
Update(r) ==
    \E n \in Nodes, v \in Values :
        /\ Begin(r, n) /\ nodes[n] # Absent
        /\ value' = [value EXCEPT ![nodes[n]] = v]
        /\ Announcing(r, n, "updated", Absent, "get")
        /\ UNCHANGED <<nodes, clients, stream, resultVars>>

\* Registry.Get after the update; if the node is gone there is no event.
GetUpdated(r) ==
    LET n == request[r].node IN
    /\ request[r].stage = "get"
    /\ IF nodes[n] = Absent
       THEN Goto(r, "done")
       ELSE request' = [request EXCEPT ![r].stage = "announce", ![r].subject = nodes[n]]
    /\ UNCHANGED <<nodeVars, clients, stream, resultVars>>

\* Registry.Unregister, of an unknown node too.
Unregister(r) ==
    \E n \in Nodes :
        /\ Begin(r, n)
        /\ nodes' = [nodes EXCEPT ![n] = Absent]
        /\ Announcing(r, n, "unregistered", Absent, "announce")
        /\ UNCHANGED <<value, clients, stream, resultVars>>
-----------------------------------------------------------------------------
(* broadcastEvent: a client whose channel is full is closed and forgotten. *)

Full(s) == Len(stream[s].queue) >= Capacity

\* Mutant of Broadcast: a slow client only misses the event.
BroadcastDropping(event) ==
    /\ stream' = [s \in Streams |-> IF s \in clients /\ ~ Full(s)
                                    THEN [stream[s] EXCEPT !.queue = Append(@, event)]
                                    ELSE stream[s]]
    /\ UNCHANGED clients

\* Mutant of Broadcast: waits for room in every channel.
BroadcastBlocking(event) ==
    /\ \A s \in clients : ~ Full(s)
    /\ BroadcastDropping(event)

Broadcast(event) ==
    /\ stream' = [s \in Streams |->
                    IF s \notin clients THEN stream[s]
                    ELSE IF Full(s) THEN [stream[s] EXCEPT !.closed = TRUE]
                    ELSE [stream[s] EXCEPT !.queue = Append(@, event)]]
    /\ clients' = {s \in clients : ~ Full(s)}

Event(kind, n, subject, copy, result) ==
    [kind |-> kind, node |-> n, subject |-> subject, copy |-> copy, result |-> result]

Announce(r) ==
    LET q == request[r] IN
    /\ q.stage = "announce"
    /\ Broadcast(Event(q.kind, q.node, q.subject, q.copy, 0))
    /\ Goto(r, "done")
    /\ UNCHANGED <<nodeVars, resultVars>>
-----------------------------------------------------------------------------
(* Command results: handleSendCommand and handleCommandResult submit one,  *)
(* broadcastResults broadcasts one at a time.                              *)

Submit ==
    /\ submitted < MaxResults
    /\ submitted' = submitted + 1
    /\ commandCh' = IF Len(commandCh) < ResultRoom THEN Append(commandCh, submitted') ELSE commandCh
    /\ UNCHANGED <<nodeVars, request, clients, stream, pump>>

TakeResult ==
    /\ pump = 0 /\ commandCh # <<>>
    /\ pump' = Head(commandCh)
    /\ commandCh' = Tail(commandCh)
    /\ UNCHANGED <<nodeVars, request, clients, stream, submitted>>

BroadcastResult ==
    /\ pump # 0
    /\ Broadcast(Event("result", Absent, Absent, Absent, pump))
    /\ pump' = 0
    /\ UNCHANGED <<nodeVars, request, commandCh, submitted>>
-----------------------------------------------------------------------------
(* handleServerSentEvents.                                                 *)

Connect(s) ==
    /\ stream[s].stage = "idle"
    /\ clients' = clients \cup {s}
    /\ stream' = [stream EXCEPT ![s].stage = "listed"]
    /\ UNCHANGED <<nodeVars, request, resultVars>>

SendInitialState(s) ==
    /\ stream[s].stage = "listed"
    /\ stream' = [stream EXCEPT ![s].stage = "open", ![s].view = Current]
    /\ UNCHANGED <<nodeVars, request, clients, resultVars>>

\* What a client that applies event e believes of its node.
Applied(e) == CASE e.kind = "registered" -> e.copy
                [] e.kind = "updated" -> value[e.subject]
                [] OTHER -> Absent

Deliver(s) ==
    LET e == Head(stream[s].queue) IN
    /\ stream[s].stage = "open" /\ stream[s].queue # <<>>
    /\ stream' = [stream EXCEPT ![s].queue = Tail(@),
                                ![s].view = IF e.kind = "result" THEN @
                                            ELSE [@ EXCEPT ![e.node] = Applied(e)]]
    /\ UNCHANGED <<nodeVars, request, clients, resultVars>>

\* A closed channel that is empty yields the zero Event, which is sent too.
DeliverEmpty(s) ==
    /\ stream[s].stage = "open" /\ stream[s].queue = <<>> /\ stream[s].closed
    /\ stream' = [stream EXCEPT ![s].empty = TRUE]
    /\ UNCHANGED <<nodeVars, request, clients, resultVars>>

\* Mutant of Leave: the channel is closed before it is forgotten.
LeaveClosing(s) ==
    /\ stream[s].stage = "open"
    /\ stream' = [stream EXCEPT ![s].stage = "leaving", ![s].closed = TRUE]
    /\ UNCHANGED <<nodeVars, request, clients, resultVars>>

\* The client went away: the deferred function forgets it, then closes.
Leave(s) ==
    /\ stream[s].stage = "open"
    /\ clients' = clients \ {s}
    /\ stream' = [stream EXCEPT ![s].stage = "leaving"]
    /\ UNCHANGED <<nodeVars, request, resultVars>>

\* Closing a channel that broadcastEvent closed is a panic.
CloseChannel(s) ==
    /\ stream[s].stage = "leaving"
    /\ stream' = [stream EXCEPT ![s].stage = IF stream[s].closed THEN "panicked" ELSE "gone",
                                ![s].closed = TRUE]
    /\ UNCHANGED <<nodeVars, request, clients, resultVars>>
-----------------------------------------------------------------------------
Handle(r) == Copy(r) \/ GetUpdated(r) \/ Announce(r)

Next ==
    \/ \E r \in Requests : Register(r) \/ Update(r) \/ Unregister(r) \/ Handle(r)
    \/ Submit \/ TakeResult \/ BroadcastResult
    \/ \E s \in Streams : \/ Connect(s) \/ SendInitialState(s) \/ Deliver(s) \/ DeliverEmpty(s)
                          \/ Leave(s) \/ CloseChannel(s)

Spec == Init /\ [][Next]_vars

\* Goroutines of the server are scheduled; clients need not read.
FairSpec == Spec /\ \A r \in Requests : WF_vars(Handle(r))
                 /\ WF_vars(TakeResult \/ BroadcastResult)
-----------------------------------------------------------------------------
(* What must hold.                                                         *)

(***************************************************************************)
(* broadcastEvent never sends on a closed channel, which would panic in    *)
(* the handler of an innocent request: a channel is forgotten before it is *)
(* closed, whoever closes it.                                              *)
(***************************************************************************)
NoSendOnClosed == \A s \in clients : ~ stream[s].closed

(***************************************************************************)
(* Once no request is in progress and a stream has delivered its channel,  *)
(* a client that applied the initial state and every event knows the       *)
(* registry as it is, unless it was cut off for being slow.  The stream is *)
(* listed before the initial state is read, and events are delivered in    *)
(* order.                                                                  *)
(***************************************************************************)
ViewConverges ==
    \A s \in Streams :
        /\ stream[s].stage = "open" /\ stream[s].queue = <<>> /\ ~ stream[s].closed
        /\ \A r \in Requests : ~ Active(r)
        => stream[s].view = Current

(***************************************************************************)
(* A client that does not read never blocks the server: every request      *)
(* about a node is answered, and every result accepted is broadcast.       *)
(***************************************************************************)
RequestsFinish ==
    /\ \A r \in Requests : Active(r) ~> ~ Active(r)
    /\ commandCh # <<>> ~> commandCh = <<>>

(***************************************************************************)
(* A stream carries updates only: it never sends an event that nobody      *)
(* broadcast (handlers.go: "provides SSE streaming for real-time           *)
(* updates").                                                              *)
(***************************************************************************)
OnlyUpdates == \A s \in Streams : ~ stream[s].empty
=============================================================================
