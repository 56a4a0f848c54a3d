--------------------------- MODULE NodeEventsProofs ---------------------------
(***************************************************************************)
(* Theorems about NodeEvents, for any number of requests, streams, nodes   *)
(* and values and any capacity of the channels.                            *)
(***************************************************************************)
EXTENDS NodeEvents, TLAPS

USE CapacityAssumption, SerialAssumption, AbsentAssumption

-----------------------------------------------------------------------------
(* Type correctness.                                                       *)

RequestStage == {"new", "copy", "get", "announce", "done"}
Kind == {"none", "registered", "updated", "unregistered", "result"}
StreamStage == {"idle", "listed", "open", "leaving", "gone", "panicked"}
Known == Values \cup {Absent}

Work == [stage : RequestStage, node : Nodes \cup {Absent}, kind : Kind,
         subject : Requests \cup {Absent}, copy : Known]
EventType == [kind : Kind, node : Nodes \cup {Absent}, subject : Requests \cup {Absent},
              copy : Known, result : Nat]
Connection == [stage : StreamStage, queue : Seq(EventType), closed : BOOLEAN,
               view : [Nodes -> Known], empty : BOOLEAN]

TypeOK ==
    /\ nodes \in [Nodes -> Requests \cup {Absent}]
    /\ value \in [Requests -> Known]
    /\ request \in [Requests -> Work]
    /\ clients \subseteq Streams
    /\ stream \in [Streams -> Connection]
    /\ commandCh \in Seq(Nat) /\ pump \in Nat /\ submitted \in Nat

\* What TypeOK leaves open: a request past its start is about a node, as is an
\* event that is not a result, and an update points to a node registered.
NamedRequest(w) ==
    w.stage # "new" =>
        /\ w.node \in Nodes /\ w.kind \in {"registered", "updated", "unregistered"}
        /\ w.stage = "copy" => w.kind = "registered"
        /\ w.stage = "announce" /\ w.kind = "updated" => w.subject # Absent
NamedEvent(e) ==
    /\ e.kind # "result" => e.node \in Nodes
    /\ e.kind = "updated" => e.subject # Absent
NamedChannel(c) == \A i \in 1..Len(c.queue) : NamedEvent(c.queue[i])

Named ==
    /\ \A r \in Requests : NamedRequest(request[r])
    /\ \A s \in Streams : NamedChannel(stream[s])

TypeInv == TypeOK /\ Named

-----------------------------------------------------------------------------
(* The inductive invariants.                                               *)

About(e, n) == e.kind # "result" /\ e.node = n

\* A stream is a client only while it is connected and its channel is open,
\* and it is one unless it is cut off.
Following(s) == stream[s].stage \in {"listed", "open"} /\ ~ stream[s].closed

ClientsFollow ==
    /\ \A s \in Streams : s \in clients <=> Following(s)
    /\ \A s \in Streams :
          stream[s].stage = "idle" => ~ stream[s].closed /\ stream[s].queue = <<>>

\* The node registered under an identifier, and the node of an update in a
\* channel, is the one of a request that registered that identifier.
Owners ==
    /\ \A n \in Nodes : nodes[n] # Absent =>
          request[nodes[n]].stage # "new" /\ request[nodes[n]].node = n
    /\ \A s \in Streams : \A i \in 1..Len(stream[s].queue) :
          LET e == stream[s].queue[i] IN
          e.kind = "updated" =>
              /\ e.subject \in Requests
              /\ request[e.subject].stage # "new" /\ request[e.subject].node = e.node

\* Requests about a node do not overlap.
OneRequest ==
    \A r, q \in Requests :
        Active(r) /\ Active(q) /\ request[r].node = request[q].node => r = q

\* What a request is about to announce is how its node is.
Announced(r) ==
    LET q == request[r] IN
    /\ q.stage = "copy" => q.kind = "registered" /\ nodes[q.node] = r
    /\ q.stage = "get" => q.kind = "updated" /\ nodes[q.node] # Absent
    /\ q.stage = "announce" =>
          /\ q.kind = "registered" => nodes[q.node] = r /\ q.copy = value[r]
          /\ q.kind = "updated" => q.subject = nodes[q.node] /\ nodes[q.node] # Absent
          /\ q.kind = "unregistered" => nodes[q.node] = Absent

\* What List returns of one node.
Listed(n) == IF nodes[n] = Absent THEN Absent ELSE value[nodes[n]]

\* The last event about a node in a channel, or without one the client's view,
\* shows the node as it is, unless a request about it is under way.
Busy(n) == \E r \in Requests : Active(r) /\ request[r].node = n
LastAbout(s, n, i) ==
    /\ About(stream[s].queue[i], n)
    /\ \A j \in 1..Len(stream[s].queue) : j > i => ~ About(stream[s].queue[j], n)
NoneAbout(s, n) == \A i \in 1..Len(stream[s].queue) : ~ About(stream[s].queue[i], n)

Caught(s, n) ==
    /\ \A i \in 1..Len(stream[s].queue) :
          LastAbout(s, n, i) => Applied(stream[s].queue[i]) = Listed(n)
    /\ stream[s].stage = "open" /\ NoneAbout(s, n) => stream[s].view[n] = Listed(n)

CatchesUp == \A s \in Streams, n \in Nodes : Following(s) /\ ~ Busy(n) => Caught(s, n)

ViewInv ==
    /\ Owners
    /\ OneRequest
    /\ \A r \in Requests : Announced(r)
    /\ CatchesUp

-----------------------------------------------------------------------------
(* Channels, broadcasts and requests: what the operators do.               *)

\* A channel after an event was sent on it.
LEMMA AppendFacts ==
    ASSUME NEW q \in Seq(EventType), NEW e \in EventType
    PROVE  /\ Append(q, e) \in Seq(EventType) /\ Len(Append(q, e)) = Len(q) + 1
           /\ \A i \in 1..Len(q) : Append(q, e)[i] = q[i]
           /\ Append(q, e)[Len(q) + 1] = e
  OBVIOUS

\* A channel after an event was received from it.
LEMMA TailFacts ==
    ASSUME NEW q \in Seq(EventType), q # <<>>
    PROVE  /\ Tail(q) \in Seq(EventType) /\ Len(q) \in Nat \ {0} /\ Len(Tail(q)) = Len(q) - 1
           /\ \A i \in 1..Len(Tail(q)) : Tail(q)[i] = q[i + 1]
           /\ Head(q) = q[1] /\ Head(q) \in EventType
  OBVIOUS

\* Records of the two kinds, with one field replaced.
LEMMA RecordTypes ==
    /\ Idle \in Work /\ Closed \in Connection
    /\ \A w \in Work, stage \in RequestStage : [w EXCEPT !.stage = stage] \in Work
    /\ \A c \in Connection, stage \in StreamStage : [c EXCEPT !.stage = stage] \in Connection
    /\ \A c \in Connection : /\ [c EXCEPT !.closed = TRUE] \in Connection
                             /\ [c EXCEPT !.empty = TRUE] \in Connection
<1>1. Idle \in Work
  BY DEF Idle, Work, RequestStage, Kind, Known
<1>2. Closed \in Connection
  BY DEF Closed, Connection, StreamStage, Known
<1> QED
  BY <1>1, <1>2 DEF Work, Connection

\* The effect of a broadcast on one stream.
LEMMA BroadcastEffect ==
    ASSUME TypeInv, NEW event \in EventType, Broadcast(event), NEW s \in Streams
    PROVE  /\ stream'[s] \in Connection
           /\ stream'[s].stage = stream[s].stage /\ stream'[s].view = stream[s].view
           /\ s \notin clients => stream'[s] = stream[s]
           /\ s \in clients /\ Full(s) =>
                 stream'[s].closed /\ stream'[s].queue = stream[s].queue
           /\ s \in clients /\ ~ Full(s) =>
                 /\ stream'[s].closed = stream[s].closed
                 /\ stream'[s].queue = Append(stream[s].queue, event)
           /\ s \in clients' <=> s \in clients /\ ~ Full(s)
<1>1. stream[s] \in Connection
  BY DEF TypeInv, TypeOK
<1>2. Append(stream[s].queue, event) \in Seq(EventType)
  BY <1>1, AppendFacts DEF Connection
<1>3. stream'[s] = IF s \notin clients THEN stream[s]
                   ELSE IF Full(s) THEN [stream[s] EXCEPT !.closed = TRUE]
                   ELSE [stream[s] EXCEPT !.queue = Append(stream[s].queue, event)]
  BY DEF Broadcast
<1>4. s \in clients' <=> s \in clients /\ ~ Full(s)
  BY DEF Broadcast
<1> HIDE DEF Full, Broadcast
<1> QED
  BY <1>1, <1>2, <1>3, <1>4 DEF Connection

\* A broadcast keeps the streams typed, and their channels named.
LEMMA BroadcastTypes ==
    ASSUME TypeInv, NEW event \in EventType, Broadcast(event), NamedEvent(event)
    PROVE  /\ stream' \in [Streams -> Connection] /\ clients' \subseteq Streams
           /\ \A s \in Streams : NamedChannel(stream'[s])
<1>1. stream' \in [Streams -> Connection]
  <2>1. \A s \in Streams : stream'[s] \in Connection
    BY BroadcastEffect
  <2> QED
    BY <2>1 DEF Broadcast
<1>2. clients' \subseteq Streams
  BY DEF Broadcast, TypeInv, TypeOK
<1>3. ASSUME NEW s \in Streams, NEW i \in 1..Len(stream'[s].queue)
      PROVE  NamedEvent(stream'[s].queue[i])
  <2>1. stream[s].queue \in Seq(EventType) /\ NamedChannel(stream[s])
    BY DEF TypeInv, TypeOK, Connection, Named
  <2>2. CASE stream'[s].queue = stream[s].queue
    BY <1>3, <2>1, <2>2 DEF NamedChannel
  <2>3. CASE stream'[s].queue = Append(stream[s].queue, event)
    <3>1. i \in 1..Len(stream[s].queue) \/ i = Len(stream[s].queue) + 1
      BY <1>3, <2>1, <2>3, AppendFacts
    <3> QED
      BY <1>3, <2>1, <2>3, <3>1, AppendFacts DEF NamedChannel
  <2> QED
    BY <2>2, <2>3, BroadcastEffect
<1> QED
  BY <1>1, <1>2, <1>3 DEF NamedChannel

\* The event of a request, and that of a result.
LEMMA EventTypes ==
    ASSUME TypeInv
    PROVE  /\ \A r \in Requests : LET q == request[r] IN
                 Event(q.kind, q.node, q.subject, q.copy, 0) \in EventType
           /\ Event("result", Absent, Absent, Absent, pump) \in EventType
  BY DEF TypeInv, TypeOK, Event, EventType, Work, Kind, Known

\* What a client comes to believe of a node is a value it can have.
LEMMA AppliedTypes ==
    ASSUME TypeInv, NEW e \in EventType, NamedEvent(e)
    PROVE  Applied(e) \in Known
  BY DEF NamedEvent, TypeInv, TypeOK, Applied, EventType, Known

-----------------------------------------------------------------------------
(* Types are kept.                                                         *)

\* The initial state is well typed.
LEMMA InitTypeInv == Init => TypeInv
<1> SUFFICES ASSUME Init PROVE TypeInv
  OBVIOUS
<1>1. request \in [Requests -> Work] /\ \A r \in Requests : request[r].stage = "new"
  BY RecordTypes DEF Init, Idle
<1>2. stream \in [Streams -> Connection] /\ \A s \in Streams : stream[s].queue = <<>>
  BY RecordTypes DEF Init, Closed
<1> QED
  BY <1>1, <1>2 DEF Init, TypeInv, TypeOK, Named, NamedRequest, NamedChannel, Known

\* A step that replaces one request by a typed and named one keeps them so.
LEMMA RequestTypes ==
    ASSUME TypeInv, NEW r \in Requests, NEW w \in Work, request' = [request EXCEPT ![r] = w],
           NamedRequest(w)
    PROVE  /\ request' \in [Requests -> Work]
           /\ \A q \in Requests : NamedRequest(request'[q])
<1>1. request' \in [Requests -> Work]
  BY DEF TypeInv, TypeOK
<1>2. \A q \in Requests : request'[q] = IF q = r THEN w ELSE request[q]
  BY DEF TypeInv, TypeOK
<1> QED
  BY <1>1, <1>2 DEF TypeInv, Named

\* So does a request that starts.
LEMMA AnnouncingTypes ==
    ASSUME TypeInv, NEW r \in Requests, NEW n \in Nodes, NEW subject \in Requests \cup {Absent},
           \/ Announcing(r, n, "registered", subject, "copy")
           \/ Announcing(r, n, "updated", subject, "get")
           \/ Announcing(r, n, "unregistered", subject, "announce")
    PROVE  /\ request' \in [Requests -> Work]
           /\ \A q \in Requests : NamedRequest(request'[q])
<1>1. ASSUME NEW kind, NEW stage, Announcing(r, n, kind, subject, stage),
             <<kind, stage>> \in {<<"registered", "copy">>, <<"updated", "get">>,
                                  <<"unregistered", "announce">>}
      PROVE  /\ request' \in [Requests -> Work]
             /\ \A q \in Requests : NamedRequest(request'[q])
  <2> DEFINE w == [stage |-> stage, node |-> n, kind |-> kind, subject |-> subject,
                   copy |-> Absent]
  <2>1. w \in Work
    BY <1>1 DEF Work, Known, Kind, RequestStage
  <2>2. NamedRequest(w)
    BY <1>1 DEF NamedRequest
  <2>3. request' = [request EXCEPT ![r] = w]
    BY <1>1 DEF Announcing
  <2> HIDE DEF w
  <2> QED
    BY <2>1, <2>2, <2>3, RequestTypes
<1> QED
  BY <1>1

\* Steps of requests keep the types.
LEMMA RequestTypeInv ==
    ASSUME TypeInv, NEW r \in Requests,
           Register(r) \/ Update(r) \/ Unregister(r) \/ Handle(r)
    PROVE  TypeInv'
<1> USE DEF nodeVars, resultVars
<1> DEFINE q == request[r]
           Named1 == \A p \in Requests : NamedRequest(request'[p])
<1>0. q \in Work /\ NamedRequest(q)
  BY DEF TypeInv, TypeOK, Named
<1>1. CASE Register(r)
  <2>1. PICK n \in Nodes, v \in Values :
          /\ nodes' = [nodes EXCEPT ![n] = r] /\ value' = [value EXCEPT ![r] = v]
          /\ Announcing(r, n, "registered", r, "copy")
    BY <1>1 DEF Register
  <2>2. request' \in [Requests -> Work] /\ Named1
    BY <2>1, AnnouncingTypes
  <2> QED
    BY <1>1, <2>1, <2>2 DEF Register, TypeInv, TypeOK, Named, Known
<1>2. CASE Copy(r)
  <2> DEFINE w == [q EXCEPT !.stage = "announce", !.copy = value[r]]
  <2>1. w \in Work /\ NamedRequest(w)
    BY <1>0, <1>2 DEF Copy, Work, RequestStage, NamedRequest, TypeInv, TypeOK
  <2>2. request' = [request EXCEPT ![r] = w]
    BY <1>2 DEF Copy
  <2> HIDE DEF w
  <2>3. request' \in [Requests -> Work] /\ Named1
    BY <2>1, <2>2, RequestTypes
  <2> QED
    BY <1>2, <2>3 DEF Copy, TypeInv, TypeOK, Named
<1>3. CASE Update(r)
  <2>1. PICK n \in Nodes, v \in Values :
          /\ nodes[n] # Absent /\ value' = [value EXCEPT ![nodes[n]] = v]
          /\ Announcing(r, n, "updated", Absent, "get")
    BY <1>3 DEF Update
  <2>2. request' \in [Requests -> Work] /\ Named1
    BY <2>1, AnnouncingTypes
  <2> QED
    BY <1>3, <2>1, <2>2 DEF Update, TypeInv, TypeOK, Named, Known
<1>4. CASE GetUpdated(r)
  <2> DEFINE done == [q EXCEPT !.stage = "done"]
             w == [q EXCEPT !.stage = "announce", !.subject = nodes[q.node]]
  <2>1. q.stage = "get" /\ q.node \in Nodes
    BY <1>0, <1>4 DEF GetUpdated, NamedRequest
  <2>2. nodes[q.node] \in Requests \cup {Absent}
    BY <2>1 DEF TypeInv, TypeOK
  <2>3. done \in Work /\ NamedRequest(done) /\ w \in Work
    BY <1>0, <2>1, <2>2 DEF Work, RequestStage, NamedRequest
  <2>4. nodes[q.node] # Absent => NamedRequest(w)
    BY <1>0, <2>1 DEF Work, NamedRequest
  <2>5. \/ request' = [request EXCEPT ![r] = done]
        \/ nodes[q.node] # Absent /\ request' = [request EXCEPT ![r] = w]
    BY <1>4 DEF GetUpdated, Goto
  <2> HIDE DEF done, w, q
  <2>6. request' \in [Requests -> Work] /\ Named1
    BY <2>3, <2>4, <2>5, RequestTypes
  <2> QED
    BY <1>4, <2>6 DEF GetUpdated, TypeInv, TypeOK, Named
<1>5. CASE Unregister(r)
  <2>1. PICK n \in Nodes :
          nodes' = [nodes EXCEPT ![n] = Absent] /\ Announcing(r, n, "unregistered", Absent, "announce")
    BY <1>5 DEF Unregister
  <2>2. request' \in [Requests -> Work] /\ Named1
    BY <2>1, AnnouncingTypes
  <2> QED
    BY <1>5, <2>1, <2>2 DEF Unregister, TypeInv, TypeOK, Named
<1>6. CASE Announce(r)
  <2> DEFINE done == [q EXCEPT !.stage = "done"]
             e == Event(q.kind, q.node, q.subject, q.copy, 0)
  <2>1. done \in Work /\ NamedRequest(done)
    BY <1>0, <1>6 DEF Announce, Work, RequestStage, NamedRequest
  <2>2. request' \in [Requests -> Work] /\ Named1
    BY <1>6, <2>1, RequestTypes DEF Announce, Goto
  <2>3. e \in EventType /\ NamedEvent(e) /\ Broadcast(e)
    BY <1>0, <1>6, EventTypes DEF Announce, Event, NamedRequest, NamedEvent
  <2> HIDE DEF e
  <2> QED
    BY <1>6, <2>2, <2>3, BroadcastTypes DEF Announce, TypeInv, TypeOK, Named
<1> QED
  BY <1>1, <1>2, <1>3, <1>4, <1>5, <1>6 DEF Handle

\* The steps of results keep the types.
LEMMA ResultTypeInv ==
    ASSUME TypeInv, Submit \/ TakeResult \/ BroadcastResult
    PROVE  TypeInv'
<1> USE DEF nodeVars
<1>1. CASE Submit
  BY <1>1 DEF Submit, TypeInv, TypeOK, Named
<1>2. CASE TakeResult
  <2>1. commandCh' \in Seq(Nat) /\ pump' \in Nat
    BY <1>2 DEF TakeResult, TypeInv, TypeOK
  <2> QED
    BY <1>2, <2>1 DEF TakeResult, TypeInv, TypeOK, Named
<1>3. CASE BroadcastResult
  <2> DEFINE e == Event("result", Absent, Absent, Absent, pump)
  <2>1. e \in EventType /\ NamedEvent(e) /\ Broadcast(e)
    BY <1>3, EventTypes DEF BroadcastResult, Event, NamedEvent
  <2> HIDE DEF e
  <2> QED
    BY <1>3, <2>1, BroadcastTypes DEF BroadcastResult, TypeInv, TypeOK, Named
<1> QED
  BY <1>1, <1>2, <1>3

\* A step that replaces one stream by a typed one, whose channel holds no new
\* event, keeps the streams typed and their channels named.
LEMMA StreamTypes ==
    ASSUME TypeInv, NEW s \in Streams, NEW c \in Connection, stream' = [stream EXCEPT ![s] = c],
           \/ c.queue = stream[s].queue
           \/ stream[s].queue # <<>> /\ c.queue = Tail(stream[s].queue)
    PROVE  /\ stream' \in [Streams -> Connection]
           /\ \A t \in Streams : NamedChannel(stream'[t])
<1>1. stream' \in [Streams -> Connection]
  BY DEF TypeInv, TypeOK
<1>2. stream[s].queue \in Seq(EventType) /\ NamedChannel(stream[s])
  BY DEF TypeInv, TypeOK, Connection, Named
<1>3. NamedChannel(c)
  <2>1. CASE c.queue = stream[s].queue
    BY <1>2, <2>1 DEF NamedChannel
  <2>2. CASE stream[s].queue # <<>> /\ c.queue = Tail(stream[s].queue)
    <3>1. \A i \in 1..Len(c.queue) :
             i + 1 \in 1..Len(stream[s].queue) /\ c.queue[i] = stream[s].queue[i + 1]
      BY <1>2, <2>2, TailFacts
    <3> QED
      BY <1>2, <3>1 DEF NamedChannel
  <2> QED
    BY <2>1, <2>2
<1>4. \A t \in Streams : stream'[t] = IF t = s THEN c ELSE stream[t]
  BY DEF TypeInv, TypeOK
<1> QED
  BY <1>1, <1>3, <1>4 DEF TypeInv, Named

\* What a client knows after a step, and its channel after a delivery.
LEMMA DeliverTypes ==
    ASSUME TypeInv, NEW s \in Streams
    PROVE  /\ Current \in [Nodes -> Known]
           /\ stream[s].queue # <<>> =>
                 LET e == Head(stream[s].queue)
                     view == IF e.kind = "result" THEN stream[s].view
                             ELSE [stream[s].view EXCEPT ![e.node] = Applied(e)]
                 IN  view \in [Nodes -> Known] /\ Tail(stream[s].queue) \in Seq(EventType)
<1>1. Current \in [Nodes -> Known]
  BY DEF Current, TypeInv, TypeOK, Known
<1>2. ASSUME stream[s].queue # <<>>
      PROVE  LET e == Head(stream[s].queue)
                 view == IF e.kind = "result" THEN stream[s].view
                         ELSE [stream[s].view EXCEPT ![e.node] = Applied(e)]
             IN  view \in [Nodes -> Known] /\ Tail(stream[s].queue) \in Seq(EventType)
  <2> DEFINE e == Head(stream[s].queue)
  <2>1. stream[s] \in Connection /\ NamedChannel(stream[s])
    BY DEF TypeInv, TypeOK, Named
  <2>2. e \in EventType /\ e = stream[s].queue[1] /\ 1 \in 1..Len(stream[s].queue)
        /\ Tail(stream[s].queue) \in Seq(EventType)
    BY <1>2, <2>1, TailFacts DEF Connection
  <2>3. Applied(e) \in Known
    BY <2>1, <2>2, AppliedTypes DEF NamedChannel
  <2> HIDE DEF e
  <2>4. stream[s].view \in [Nodes -> Known]
    BY <2>1 DEF Connection
  <2> QED
    BY <2>2, <2>3, <2>4 DEF e
<1> QED
  BY <1>1, <1>2

\* The steps of a stream keep the types.
LEMMA StreamTypeInv ==
    ASSUME TypeInv, NEW s \in Streams,
           \/ Connect(s) \/ SendInitialState(s) \/ Deliver(s) \/ DeliverEmpty(s)
           \/ Leave(s) \/ CloseChannel(s)
    PROVE  TypeInv'
<1> DEFINE Typed == /\ stream' \in [Streams -> Connection]
                    /\ \A t \in Streams : NamedChannel(stream'[t])
<1>1. stream[s] \in Connection
  BY DEF TypeInv, TypeOK
<1>2. ASSUME NEW stage \in StreamStage, stream' = [stream EXCEPT ![s].stage = stage]
      PROVE  Typed
  <2>1. [stream[s] EXCEPT !.stage = stage] \in Connection
    BY <1>1 DEF Connection
  <2> QED
    BY <1>1, <1>2, <2>1, StreamTypes DEF Connection
<1>3. CASE Connect(s) \/ Leave(s)
  <2>1. Typed
    BY <1>2, <1>3 DEF Connect, Leave, StreamStage
  <2> QED
    BY <1>3, <2>1 DEF Connect, Leave, TypeInv, TypeOK, Named, nodeVars, resultVars
<1>4. CASE SendInitialState(s)
  <2> DEFINE c == [stream[s] EXCEPT !.stage = "open", !.view = Current]
  <2>1. c \in Connection /\ c.queue = stream[s].queue
    BY <1>1, DeliverTypes DEF Connection, StreamStage
  <2>2. stream' = [stream EXCEPT ![s] = c]
    BY <1>4 DEF SendInitialState
  <2> HIDE DEF c
  <2>3. Typed
    BY <2>1, <2>2, StreamTypes
  <2> QED
    BY <1>4, <2>3 DEF SendInitialState, TypeInv, TypeOK, Named, nodeVars, resultVars
<1>5. CASE Deliver(s)
  <2> DEFINE e == Head(stream[s].queue)
             view == IF e.kind = "result" THEN stream[s].view
                     ELSE [stream[s].view EXCEPT ![e.node] = Applied(e)]
             c == [stream[s] EXCEPT !.queue = Tail(stream[s].queue), !.view = view]
  <2>1. view \in [Nodes -> Known] /\ Tail(stream[s].queue) \in Seq(EventType)
    BY <1>5, DeliverTypes DEF Deliver
  <2>2. stream' = [stream EXCEPT ![s] = c]
    BY <1>5 DEF Deliver
  <2> HIDE DEF view
  <2>3. c \in Connection /\ c.queue = Tail(stream[s].queue)
    BY <1>1, <2>1 DEF Connection
  <2> HIDE DEF c
  <2>4. Typed
    BY <1>5, <2>2, <2>3, StreamTypes DEF Deliver
  <2> QED
    BY <1>5, <2>4 DEF Deliver, TypeInv, TypeOK, Named, nodeVars, resultVars
<1>6. CASE DeliverEmpty(s)
  <2>1. [stream[s] EXCEPT !.empty = TRUE] \in Connection
    BY <1>1 DEF Connection
  <2>2. Typed
    BY <1>1, <1>6, <2>1, StreamTypes DEF DeliverEmpty, Connection
  <2> QED
    BY <1>6, <2>2 DEF DeliverEmpty, TypeInv, TypeOK, Named, nodeVars, resultVars
<1>7. CASE CloseChannel(s)
  <2> DEFINE stage == IF stream[s].closed THEN "panicked" ELSE "gone"
             c == [stream[s] EXCEPT !.stage = stage, !.closed = TRUE]
  <2>1. stream' = [stream EXCEPT ![s] = c] /\ stage \in StreamStage
    BY <1>7 DEF CloseChannel, StreamStage
  <2> HIDE DEF stage
  <2>2. c \in Connection /\ c.queue = stream[s].queue
    BY <1>1, <2>1 DEF Connection
  <2> HIDE DEF c
  <2>3. Typed
    BY <2>1, <2>2, StreamTypes
  <2> QED
    BY <1>7, <2>3 DEF CloseChannel, TypeInv, TypeOK, Named, nodeVars, resultVars
<1> QED
  BY <1>3, <1>4, <1>5, <1>6, <1>7

\* The types are kept by every step.
LEMMA NextTypeInv == TypeInv /\ [Next]_vars => TypeInv'
<1> SUFFICES ASSUME TypeInv, [Next]_vars PROVE TypeInv'
  OBVIOUS
<1>1. CASE UNCHANGED vars
  BY <1>1 DEF vars, TypeInv, TypeOK, Named
<1> QED
  BY <1>1, RequestTypeInv, ResultTypeInv, StreamTypeInv DEF Next

\* Every reachable state is well typed.
THEOREM TypeCorrect == Spec => []TypeInv
  BY InitTypeInv, NextTypeInv, PTL DEF Spec

-----------------------------------------------------------------------------
(* A channel is forgotten before it is closed.                             *)

\* The initial state, without clients, satisfies the invariant.
LEMMA InitClients == Init => ClientsFollow
  BY DEF Init, Closed, ClientsFollow, Following

\* A broadcast forgets the clients it closes, and reaches only clients.
LEMMA BroadcastClients ==
    ASSUME TypeInv, ClientsFollow, NEW event \in EventType, Broadcast(event)
    PROVE  ClientsFollow'
<1> SUFFICES ASSUME NEW s \in Streams
             PROVE  /\ s \in clients' <=> Following(s)'
                    /\ stream'[s].stage = "idle" =>
                          ~ stream'[s].closed /\ stream'[s].queue = <<>>
  BY DEF ClientsFollow
<1>1. s \in clients <=> Following(s)
  BY DEF ClientsFollow
<1> QED
  BY <1>1, BroadcastEffect DEF ClientsFollow, Following

\* The invariant is inductive, whether or not requests overlap.
LEMMA NextClients == TypeInv /\ ClientsFollow /\ [Next]_vars => ClientsFollow'
<1> SUFFICES ASSUME TypeInv, ClientsFollow, [Next]_vars PROVE ClientsFollow'
  OBVIOUS
<1>1. CASE UNCHANGED <<clients, stream>>
  BY <1>1 DEF ClientsFollow, Following
<1>2. ASSUME NEW r \in Requests, Register(r) \/ Update(r) \/ Unregister(r) \/ Handle(r)
      PROVE  ClientsFollow'
  <2>1. CASE Announce(r)
    <3> DEFINE e == Event(request[r].kind, request[r].node, request[r].subject, request[r].copy, 0)
    <3>1. e \in EventType /\ Broadcast(e)
      BY <2>1, EventTypes DEF Announce
    <3> QED
      BY <3>1, BroadcastClients
  <2> QED
    BY <1>1, <1>2, <2>1 DEF Register, Update, Unregister, Handle, Copy, GetUpdated
<1>3. CASE BroadcastResult
  BY <1>3, EventTypes, BroadcastClients DEF BroadcastResult
<1>4. CASE Submit \/ TakeResult
  BY <1>1, <1>4 DEF Submit, TakeResult
<1>5. ASSUME NEW s \in Streams,
             \/ Connect(s) \/ SendInitialState(s) \/ Deliver(s) \/ DeliverEmpty(s)
             \/ Leave(s) \/ CloseChannel(s)
      PROVE  ClientsFollow'
  <2>1. \A t \in Streams \ {s} : stream'[t] = stream[t] /\ (t \in clients' <=> t \in clients)
    BY <1>5 DEF Connect, SendInitialState, Deliver, DeliverEmpty, Leave, CloseChannel,
                TypeInv, TypeOK
  <2>2. stream[s] \in Connection /\ (s \in clients <=> Following(s))
    BY DEF TypeInv, TypeOK, ClientsFollow
  <2>3. /\ s \in clients' <=> Following(s)'
        /\ stream'[s].stage = "idle" => ~ stream'[s].closed /\ stream'[s].queue = <<>>
    <3>1. CASE Connect(s)
      BY <2>2, <3>1 DEF Connect, ClientsFollow, Following, Connection, TypeInv, TypeOK
    <3>2. CASE SendInitialState(s)
      <4>1. /\ stream'[s].stage = "open" /\ stream[s].stage = "listed"
            /\ stream'[s].closed = stream[s].closed /\ clients' = clients
        BY <2>2, <3>2 DEF SendInitialState, Connection, TypeInv, TypeOK
      <4> QED
        BY <2>2, <4>1 DEF Following
    <3>5. CASE DeliverEmpty(s)
      BY <2>2, <3>5 DEF DeliverEmpty, Following, Connection, TypeInv, TypeOK
    <3>3. CASE Deliver(s)
      BY <2>2, <3>3 DEF Deliver, Following, Connection, TypeInv, TypeOK
    <3>4. CASE Leave(s) \/ CloseChannel(s)
      BY <2>2, <3>4 DEF Leave, CloseChannel, Following, Connection, TypeInv, TypeOK
    <3> QED
      BY <1>5, <3>1, <3>2, <3>3, <3>4, <3>5
  <2> QED
    BY <2>1, <2>3 DEF ClientsFollow, Following
<1>6. CASE UNCHANGED vars
  BY <1>1, <1>6 DEF vars
<1> QED
  BY <1>2, <1>3, <1>4, <1>5, <1>6 DEF Next

\* No broadcast ever sends on a closed channel: the client that is cut off, or
\* leaves, is forgotten in the step before or in the same critical section.
THEOREM NeverSendOnClosed == Spec => []NoSendOnClosed
<1>1. TypeInv /\ ClientsFollow => NoSendOnClosed
  BY DEF TypeInv, TypeOK, ClientsFollow, Following, NoSendOnClosed
<1> QED
  BY <1>1, TypeCorrect, InitClients, NextClients, PTL DEF Spec

-----------------------------------------------------------------------------
(* A client that applied everything knows the registry.                    *)

\* The initial state, where nobody follows, satisfies the invariant.
LEMMA InitView == Init => ViewInv
  BY DEF Init, Idle, Closed, ViewInv, Owners, OneRequest, Active, Announced, CatchesUp, Following

\* The start of a request may change its own node: its value, or which it is.
\* Then nobody need be caught up about that node until the request is done.
LEMMA StartKeeps ==
    ASSUME Serial, TypeInv, ViewInv, NEW r \in Requests, NEW n \in Nodes, Begin(r, n),
           UNCHANGED <<clients, stream>>,
           \A q \in Requests : q # r => request'[q] = request[q],
           request'[r].node = n, request'[r].stage \in {"copy", "get", "announce"},
           \A m \in Nodes : m # n => nodes'[m] = nodes[m],
           nodes'[n] \in {Absent, r, nodes[n]},
           \A q \in Requests : q # r /\ q # nodes[n] => value'[q] = value[q],
           Announced(r)'
    PROVE  ViewInv'
<1>1. /\ request[r].stage = "new" /\ ~ Active(r) /\ Active(r)'
      /\ \A q \in Requests : Active(q) => request[q].node # n
  BY DEF Begin, Active
<1>2. \A q \in Requests : q # r => (Active(q)' <=> Active(q))
  BY DEF Active
<1>3. \A m \in Nodes : nodes[m] # Absent =>
         nodes[m] \in Requests /\ nodes[m] # r /\ request[nodes[m]].node = m
  BY <1>1 DEF ViewInv, Owners, TypeInv, TypeOK
<1>4. Owners'
  <2>1. ASSUME NEW m \in Nodes, nodes'[m] # Absent
        PROVE  request'[nodes'[m]].stage # "new" /\ request'[nodes'[m]].node = m
    <3>1. CASE nodes'[m] = nodes[m]
      BY <1>3, <2>1, <3>1 DEF ViewInv, Owners
    <3>2. CASE m = n /\ nodes'[m] = r
      BY <3>2
    <3> QED
      BY <2>1, <3>1, <3>2
  <2>2. ASSUME NEW s \in Streams, NEW i \in 1..Len(stream[s].queue),
               stream[s].queue[i].kind = "updated"
        PROVE  LET e == stream[s].queue[i] IN
               /\ e.subject \in Requests
               /\ request'[e.subject].stage # "new" /\ request'[e.subject].node = e.node
    BY <1>1, <2>2 DEF ViewInv, Owners
  <2> QED
    BY <2>1, <2>2 DEF Owners
<1>5. OneRequest'
  BY <1>1, <1>2 DEF ViewInv, OneRequest
<1>6. ASSUME NEW q \in Requests
      PROVE  Announced(q)'
  <2>1. CASE q = r
    BY <2>1
  <2>2. CASE q # r /\ ~ Active(q)
    BY <1>2, <2>2 DEF Announced, Active
  <2>3. CASE q # r /\ Active(q)
    <3>1. request[q].node \in Nodes /\ request[q].node # n /\ q # nodes[n]
      BY <1>1, <1>3, <2>3 DEF TypeInv, Named, NamedRequest, Active
    <3>2. Announced(q) /\ request'[q] = request[q] /\ value'[q] = value[q]
          /\ nodes'[request[q].node] = nodes[request[q].node]
      BY <2>3, <3>1 DEF ViewInv
    <3> QED
      BY <3>2 DEF Announced
  <2> QED
    BY <2>1, <2>2, <2>3
<1>7. ASSUME NEW s \in Streams, NEW m \in Nodes, Following(s)', ~ Busy(m)'
      PROVE  Caught(s, m)'
  <2>1. m # n /\ ~ Busy(m) /\ Following(s)
    BY <1>1, <1>2, <1>7 DEF Busy, Following
  <2>2. Caught(s, m)
    BY <2>1 DEF ViewInv, CatchesUp
  <2>3. Listed(m)' = Listed(m)
    BY <1>3, <2>1 DEF Listed
  <2>4. ASSUME NEW i \in 1..Len(stream[s].queue), About(stream[s].queue[i], m)
        PROVE  Applied(stream[s].queue[i])' = Applied(stream[s].queue[i])
    <3> DEFINE e == stream[s].queue[i]
    <3>1. e.kind = "updated" =>
             /\ e.subject \in Requests /\ request[e.subject].stage # "new"
             /\ request[e.subject].node = m
      BY <2>4 DEF ViewInv, Owners, About
    <3>2. e.kind = "updated" => value'[e.subject] = value[e.subject]
      BY <1>1, <1>3, <2>1, <3>1, AbsentAssumption
    <3> HIDE DEF e
    <3>3. stream'[s].queue[i] = e
      BY DEF e
    <3>4. (Applied(e))' = Applied(e)
      BY <3>2 DEF Applied, e
    <3> QED
      BY <3>4 DEF e
  <2> QED
    BY <2>2, <2>3, <2>4 DEF Caught, LastAbout, NoneAbout
<1> QED
  BY <1>4, <1>5, <1>6, <1>7 DEF ViewInv, CatchesUp

\* A request that goes on to its announcement changes nothing else.
LEMMA ContinueKeeps ==
    ASSUME TypeInv, ViewInv, NEW r \in Requests, Active(r),
           UNCHANGED <<nodes, value, clients, stream>>,
           \A q \in Requests : q # r => request'[q] = request[q],
           request'[r].node = request[r].node, request'[r].stage \in {"copy", "get", "announce"},
           Announced(r)'
    PROVE  ViewInv'
<1>1. \A q \in Requests : (Active(q)' <=> Active(q)) /\ request'[q].node = request[q].node
  BY DEF Active
<1>2. \A q \in Requests : request[q].stage # "new" => request'[q].stage # "new"
  BY DEF Active
<1>3. Owners'
  BY <1>1, <1>2, AbsentAssumption DEF ViewInv, Owners, TypeInv, TypeOK
<1>4. OneRequest'
  BY <1>1 DEF ViewInv, OneRequest
<1>5. \A q \in Requests : Announced(q)'
  BY DEF ViewInv, Announced
<1>6. CatchesUp'
  <2>1. \A m : Busy(m)' <=> Busy(m)
    BY <1>1 DEF Busy
  <2>2. ASSUME NEW s \in Streams, NEW m \in Nodes, Caught(s, m)
        PROVE  Caught(s, m)'
    BY <2>2 DEF Caught, LastAbout, NoneAbout, Applied, Listed
  <2> QED
    BY <2>1, <2>2 DEF ViewInv, CatchesUp, Following
<1> QED
  BY <1>3, <1>4, <1>5, <1>6 DEF ViewInv

\* An event that is not about a node leaves a client as caught up as it was,
\* one that shows how the node is makes it so.
LEMMA SendCaught ==
    ASSUME TypeInv, UNCHANGED <<nodes, value>>, NEW s \in Streams, NEW m \in Nodes,
           NEW e \in EventType, stream'[s].queue = Append(stream[s].queue, e),
           stream'[s].stage = stream[s].stage, stream'[s].view = stream[s].view,
           \/ About(e, m) /\ Applied(e) = Listed(m)
           \/ ~ About(e, m) /\ Caught(s, m)
    PROVE  Caught(s, m)'
<1> DEFINE q == stream[s].queue
           a == Len(q) + 1
<1>1. q \in Seq(EventType) /\ Len(q) \in Nat
  BY DEF TypeInv, TypeOK, Connection
<1>2. /\ Len(stream'[s].queue) = a /\ stream'[s].queue[a] = e /\ a \in 1..a
      /\ \A i \in 1..Len(q) : stream'[s].queue[i] = q[i] /\ i \in 1..a /\ i < a
      /\ \A i \in 1..a : i \in 1..Len(q) \/ i = a
  BY <1>1, AppendFacts
<1> HIDE DEF q, a
<1>3. Listed(m)' = Listed(m)
  BY DEF Listed
<1>4. ASSUME NEW i \in 1..a, LastAbout(s, m, i)'
      PROVE  Applied(stream[s].queue[i])' = Listed(m)
  <2>1. CASE About(e, m) /\ Applied(e) = Listed(m)
    <3>1. i = a
      <4>1. About(stream'[s].queue[a], m)
        BY <1>2, <2>1
      <4>2. i \in 1..Len(q) => FALSE
        BY <1>2, <1>4, <4>1 DEF LastAbout, About
      <4> QED
        BY <1>2, <4>2
    <3> QED
      BY <1>2, <2>1, <3>1 DEF Applied
  <2>2. CASE ~ About(e, m) /\ Caught(s, m)
    <3>1. i \in 1..Len(q) /\ stream'[s].queue[i] = q[i]
      BY <1>2, <1>4, <2>2 DEF LastAbout, About
    <3>2. LastAbout(s, m, i)
      BY <1>2, <1>4, <3>1 DEF LastAbout, About, q
    <3>3. Applied(q[i]) = Listed(m)
      BY <2>2, <3>1, <3>2 DEF Caught, q
    <3> QED
      BY <3>1, <3>3 DEF Applied
  <2> QED
    BY <2>1, <2>2
<1>5. ASSUME stream'[s].stage = "open", NoneAbout(s, m)'
      PROVE  stream'[s].view[m] = Listed(m)
  <2>1. ~ About(e, m)
    BY <1>2, <1>5 DEF NoneAbout, About
  <2>2. NoneAbout(s, m)
    BY <1>2, <1>5 DEF NoneAbout, About, q
  <2> QED
    BY <1>5, <2>1, <2>2 DEF Caught
<1> QED
  BY <1>2, <1>3, <1>4, <1>5 DEF Caught

\* A broadcast of the last word on a request's node, or of a result, reaches
\* every stream that goes on following.
LEMMA BroadcastKeeps ==
    ASSUME TypeInv, ClientsFollow, ViewInv, UNCHANGED <<nodes, value>>,
           NEW e \in EventType, Broadcast(e),
           \A m \in Nodes : ~ Busy(m)' => IF About(e, m) THEN Applied(e) = Listed(m) ELSE ~ Busy(m)
    PROVE  CatchesUp'
<1> SUFFICES ASSUME NEW s \in Streams, NEW m \in Nodes, Following(s)', ~ Busy(m)'
             PROVE  Caught(s, m)'
  BY DEF CatchesUp
<1>1. s \in clients /\ ~ Full(s)
  BY BroadcastClients, BroadcastEffect DEF ClientsFollow
<1>2. Following(s)
  BY <1>1 DEF ClientsFollow
<1>3. /\ stream'[s].queue = Append(stream[s].queue, e)
      /\ stream'[s].stage = stream[s].stage /\ stream'[s].view = stream[s].view
  BY <1>1, BroadcastEffect
<1>4. ~ About(e, m) => Caught(s, m)
  BY <1>2 DEF ViewInv, CatchesUp
<1> QED
  BY <1>3, <1>4, SendCaught

\* A broadcast of an update that points to the node keeps every pointer right.
LEMMA BroadcastOwners ==
    ASSUME TypeInv, Owners, NEW e \in EventType, Broadcast(e), UNCHANGED nodes,
           \A q \in Requests : request[q].stage # "new" =>
              request'[q].stage # "new" /\ request'[q].node = request[q].node,
           e.kind = "updated" =>
              /\ e.subject \in Requests
              /\ request[e.subject].stage # "new" /\ request[e.subject].node = e.node
    PROVE  Owners'
<1>1. ASSUME NEW n \in Nodes, nodes[n] # Absent
      PROVE  request'[nodes[n]].stage # "new" /\ request'[nodes[n]].node = n
  BY <1>1 DEF Owners, TypeInv, TypeOK
<1>2. ASSUME NEW s \in Streams, NEW i \in 1..Len(stream'[s].queue),
             stream'[s].queue[i].kind = "updated"
      PROVE  LET f == stream'[s].queue[i] IN
             /\ f.subject \in Requests
             /\ request'[f.subject].stage # "new" /\ request'[f.subject].node = f.node
  <2>1. stream[s].queue \in Seq(EventType)
    BY DEF TypeInv, TypeOK, Connection
  <2>2. CASE stream'[s].queue = stream[s].queue
    BY <1>2, <2>2 DEF Owners
  <2>3. CASE stream'[s].queue = Append(stream[s].queue, e)
    <3>1. \/ i \in 1..Len(stream[s].queue) /\ stream'[s].queue[i] = stream[s].queue[i]
          \/ stream'[s].queue[i] = e
      BY <1>2, <2>1, <2>3, AppendFacts
    <3> DEFINE f == stream'[s].queue[i]
    <3>2. /\ f.subject \in Requests
          /\ request[f.subject].stage # "new" /\ request[f.subject].node = f.node
      <4>1. CASE i \in 1..Len(stream[s].queue) /\ stream'[s].queue[i] = stream[s].queue[i]
        BY <1>2, <4>1 DEF Owners
      <4>2. CASE stream'[s].queue[i] = e
        BY <1>2, <4>2
      <4> QED
        BY <3>1, <4>1, <4>2
    <3> QED
      BY <3>2
  <2> QED
    BY <2>2, <2>3, BroadcastEffect
<1> QED
  BY <1>1, <1>2 DEF Owners

\* What the request and result steps do, each an instance of the lemmas above.
LEMMA RequestView ==
    ASSUME Serial, TypeInv, ClientsFollow, ViewInv, NEW r \in Requests,
           Register(r) \/ Update(r) \/ Unregister(r) \/ Handle(r)
    PROVE  ViewInv'
<1> DEFINE n == request[r].node
<1>0. \A q \in Requests : request[q] \in Work
  BY DEF TypeInv, TypeOK
<1>1. CASE Register(r)
  <2>1. PICK m \in Nodes, v \in Values :
          /\ Begin(r, m)
          /\ nodes' = [nodes EXCEPT ![m] = r] /\ value' = [value EXCEPT ![r] = v]
          /\ Announcing(r, m, "registered", r, "copy")
    BY <1>1 DEF Register
  <2>2. request'[r].stage = "copy" /\ request'[r].kind = "registered" /\ request'[r].node = m
        /\ \A q \in Requests : q # r => request'[q] = request[q]
    BY <2>1 DEF Announcing, TypeInv, TypeOK
  <2>3. nodes'[m] = r /\ (\A l \in Nodes : l # m => nodes'[l] = nodes[l])
        /\ \A q \in Requests : q # r => value'[q] = value[q]
    BY <2>1 DEF TypeInv, TypeOK
  <2>4. Announced(r)'
    BY <2>2, <2>3 DEF Announced
  <2> QED
    BY <1>1, <2>1, <2>2, <2>3, <2>4, StartKeeps DEF Register
<1>2. CASE Update(r)
  <2>1. PICK m \in Nodes, v \in Values :
          /\ Begin(r, m) /\ nodes[m] # Absent
          /\ value' = [value EXCEPT ![nodes[m]] = v]
          /\ Announcing(r, m, "updated", Absent, "get")
    BY <1>2 DEF Update
  <2>2. request'[r].stage = "get" /\ request'[r].kind = "updated" /\ request'[r].node = m
        /\ \A q \in Requests : q # r => request'[q] = request[q]
    BY <2>1 DEF Announcing, TypeInv, TypeOK
  <2>3. nodes' = nodes /\ \A q \in Requests : q # nodes[m] => value'[q] = value[q]
    BY <1>2, <2>1 DEF Update, TypeInv, TypeOK
  <2>4. Announced(r)'
    BY <2>1, <2>2, <2>3 DEF Announced
  <2> QED
    BY <1>2, <2>1, <2>2, <2>3, <2>4, StartKeeps DEF Update
<1>3. CASE Unregister(r)
  <2>1. PICK m \in Nodes :
          /\ Begin(r, m) /\ nodes' = [nodes EXCEPT ![m] = Absent]
          /\ Announcing(r, m, "unregistered", Absent, "announce")
    BY <1>3 DEF Unregister
  <2>2. request'[r].stage = "announce" /\ request'[r].kind = "unregistered" /\ request'[r].node = m
        /\ \A q \in Requests : q # r => request'[q] = request[q]
    BY <2>1 DEF Announcing, TypeInv, TypeOK
  <2>3. nodes'[m] = Absent /\ (\A l \in Nodes : l # m => nodes'[l] = nodes[l])
    BY <2>1 DEF TypeInv, TypeOK
  <2>4. Announced(r)'
    BY <2>2, <2>3 DEF Announced
  <2> QED
    BY <1>3, <2>1, <2>2, <2>3, <2>4, StartKeeps DEF Unregister
<1>4. Announced(r)
  BY DEF ViewInv
<1>5. CASE Copy(r)
  <2>1. request[r].stage = "copy" /\ Active(r)
    BY <1>5 DEF Copy, Active
  <2>2. /\ request'[r].stage = "announce" /\ request'[r].copy = value[r]
        /\ request'[r].node = n /\ request'[r].kind = request[r].kind
        /\ \A q \in Requests : q # r => request'[q] = request[q]
    BY <1>0, <1>5 DEF Copy, Work, TypeInv, TypeOK
  <2>3. UNCHANGED <<nodes, value, clients, stream>>
    BY <1>5 DEF Copy, nodeVars
  <2>4. Announced(r)'
    BY <1>4, <2>1, <2>2, <2>3 DEF Announced
  <2> QED
    BY <2>1, <2>2, <2>3, <2>4, ContinueKeeps
<1>6. CASE GetUpdated(r)
  <2>1. request[r].stage = "get" /\ Active(r) /\ nodes[n] # Absent
    BY <1>4, <1>6 DEF GetUpdated, Active, Announced
  <2>2. /\ request'[r].stage = "announce" /\ request'[r].subject = nodes[n]
        /\ request'[r].node = n /\ request'[r].kind = request[r].kind
        /\ \A q \in Requests : q # r => request'[q] = request[q]
    BY <1>0, <1>6, <2>1 DEF GetUpdated, Work, TypeInv, TypeOK
  <2>3. UNCHANGED <<nodes, value, clients, stream>>
    BY <1>6 DEF GetUpdated, nodeVars
  <2>4. Announced(r)'
    BY <1>4, <2>1, <2>2, <2>3 DEF Announced
  <2> QED
    BY <2>1, <2>2, <2>3, <2>4, ContinueKeeps
<1>7. CASE Announce(r)
  <2> DEFINE e == Event(request[r].kind, n, request[r].subject, request[r].copy, 0)
  <2>1. request[r].stage = "announce" /\ Active(r) /\ n \in Nodes /\ NamedRequest(request[r])
    BY <1>7 DEF Announce, Active, TypeInv, Named, NamedRequest
  <2>2. /\ request'[r].stage = "done" /\ ~ Active(r)'
        /\ request'[r].node = n
        /\ \A q \in Requests : q # r => request'[q] = request[q]
    BY <1>0, <1>7 DEF Announce, Goto, Active, Work, TypeInv, TypeOK
  <2>3. \A q \in Requests : q # r => (Active(q)' <=> Active(q))
    BY <2>2 DEF Active
  <2>4. e \in EventType /\ Broadcast(e) /\ UNCHANGED <<nodes, value>>
    BY <1>7, EventTypes DEF Announce, nodeVars
  <2>5. /\ e.kind = request[r].kind /\ e.node = n /\ e.copy = request[r].copy
        /\ e.subject = request[r].subject
        /\ e.kind \in {"registered", "updated", "unregistered"}
    BY <2>1 DEF Event, NamedRequest
  <2> HIDE DEF e, n
  <2>6. e.kind = "updated" =>
           /\ e.subject \in Requests
           /\ request[e.subject].stage # "new" /\ request[e.subject].node = e.node
    BY <1>4, <2>1, <2>5 DEF Announced, ViewInv, Owners, TypeInv, TypeOK, n
  <2>7. Owners'
    <3>1. \A q \in Requests : request[q].stage # "new" =>
             request'[q].stage # "new" /\ request'[q].node = request[q].node
      BY <2>2 DEF n
    <3> QED
      BY <2>4, <2>6, <3>1, BroadcastOwners DEF ViewInv
  <2>8. OneRequest'
    BY <2>2, <2>3 DEF ViewInv, OneRequest
  <2>9. ASSUME NEW q \in Requests
        PROVE  Announced(q)'
    BY <2>2, <2>4 DEF ViewInv, Announced
  <2>10. Applied(e) = Listed(n)
    BY <1>4, <2>1, <2>5 DEF Announced, Applied, Listed, n
  <2>11. ASSUME NEW m \in Nodes, ~ Busy(m)'
         PROVE  IF About(e, m) THEN Applied(e) = Listed(m) ELSE ~ Busy(m)
    <3>1. CASE m = n
      BY <2>5, <2>10, <3>1 DEF About
    <3>2. CASE m # n
      BY <2>2, <2>3, <2>5, <2>11, <3>2 DEF Busy, About, n
    <3> QED
      BY <3>1, <3>2
  <2>12. CatchesUp'
    BY <2>4, <2>11, BroadcastKeeps
  <2> QED
    BY <2>7, <2>8, <2>9, <2>12 DEF ViewInv
<1> QED
  BY <1>1, <1>2, <1>3, <1>5, <1>6, <1>7 DEF Handle

\* A result is about no node.
LEMMA ResultView ==
    ASSUME TypeInv, ClientsFollow, ViewInv, BroadcastResult
    PROVE  ViewInv'
<1> DEFINE e == Event("result", Absent, Absent, Absent, pump)
<1>1. e \in EventType /\ Broadcast(e) /\ e.kind = "result"
      /\ UNCHANGED <<nodes, value, request>>
  BY EventTypes DEF BroadcastResult, nodeVars, Event
<1> HIDE DEF e
<1>2. Owners'
  BY <1>1, BroadcastOwners DEF ViewInv
<1>3. OneRequest' /\ \A r \in Requests : Announced(r)'
  BY <1>1 DEF ViewInv, OneRequest, Announced, Active
<1>4. \A m \in Nodes : ~ Busy(m)' => IF About(e, m) THEN Applied(e) = Listed(m) ELSE ~ Busy(m)
  BY <1>1 DEF Busy, Active, About
<1>5. CatchesUp'
  BY <1>1, <1>4, BroadcastKeeps
<1> QED
  BY <1>2, <1>3, <1>5 DEF ViewInv

\* A step of one stream leaves the requests, and the other streams, alone.
LEMMA StreamKeeps ==
    ASSUME TypeInv, ViewInv, NEW s \in Streams, UNCHANGED <<nodes, value, request>>,
           \A t \in Streams : t # s => stream'[t] = stream[t],
           \A i \in 1..Len(stream'[s].queue) :
              LET e == stream'[s].queue[i] IN
              e.kind = "updated" =>
                 /\ e.subject \in Requests
                 /\ request[e.subject].stage # "new" /\ request[e.subject].node = e.node,
           \A m \in Nodes : Following(s)' /\ ~ Busy(m) => Caught(s, m)'
    PROVE  ViewInv'
<1>1. Owners'
  <2>1. \A t \in Streams : t # s => \A i \in 1..Len(stream'[t].queue) :
           LET e == stream'[t].queue[i] IN
           e.kind = "updated" =>
              /\ e.subject \in Requests
              /\ request[e.subject].stage # "new" /\ request[e.subject].node = e.node
    BY DEF ViewInv, Owners
  <2>2. \A n \in Nodes : nodes[n] # Absent =>
           request[nodes[n]].stage # "new" /\ request[nodes[n]].node = n
    BY DEF ViewInv, Owners
  <2> QED
    BY <2>1, <2>2 DEF Owners
<1>2. OneRequest' /\ \A r \in Requests : Announced(r)'
  BY DEF ViewInv, OneRequest, Announced, Active
<1>3. \A m : Busy(m)' <=> Busy(m)
  BY DEF Busy, Active
<1>4. ASSUME NEW t \in Streams, t # s, NEW m \in Nodes, Following(t)', ~ Busy(m)
      PROVE  Caught(t, m)'
  <2>1. stream'[t] = stream[t] /\ Following(t)
    BY <1>4 DEF Following
  <2>2. Caught(t, m)
    BY <1>4, <2>1 DEF ViewInv, CatchesUp
  <2> QED
    BY <2>1, <2>2 DEF Caught, LastAbout, NoneAbout, Applied, Listed
<1> QED
  BY <1>1, <1>2, <1>3, <1>4 DEF ViewInv, CatchesUp

\* A stream catches up with its initial state, and stays so by what it delivers.
LEMMA StreamView ==
    ASSUME TypeInv, ClientsFollow, ViewInv, NEW s \in Streams,
           \/ Connect(s) \/ SendInitialState(s) \/ Deliver(s) \/ DeliverEmpty(s)
           \/ Leave(s) \/ CloseChannel(s)
    PROVE  ViewInv'
<1> DEFINE q == stream[s].queue
           Right(e) == e.kind = "updated" =>
                         /\ e.subject \in Requests
                         /\ request[e.subject].stage # "new" /\ request[e.subject].node = e.node
<1>1. UNCHANGED <<nodes, value, request>> /\ \A t \in Streams : t # s => stream'[t] = stream[t]
  BY DEF Connect, SendInitialState, Deliver, DeliverEmpty, Leave, CloseChannel,
         nodeVars, TypeInv, TypeOK
<1>2. q \in Seq(EventType) /\ stream[s] \in Connection /\ \A i \in 1..Len(q) : Right(q[i])
  BY DEF TypeInv, TypeOK, Connection, ViewInv, Owners
<1>3. \A m \in Nodes : Following(s) /\ ~ Busy(m) => Caught(s, m)
  BY DEF ViewInv, CatchesUp
<1>4. \A m \in Nodes : Listed(m)' = Listed(m)
  BY <1>1 DEF Listed
<1>5. CASE Connect(s)
  <2>1. q = <<>> /\ stream'[s].queue = q /\ stream'[s].stage = "listed"
    BY <1>2, <1>5 DEF Connect, ClientsFollow, Connection, TypeInv, TypeOK
  <2>2. \A m \in Nodes : Caught(s, m)'
    BY <2>1 DEF Caught
  <2> QED
    BY <1>1, <2>1, <2>2, StreamKeeps
<1>6. CASE SendInitialState(s)
  <2>1. /\ stream'[s].queue = q /\ stream'[s].view = Current
        /\ Following(s)' => Following(s)
    <3> DEFINE c == [stream[s] EXCEPT !.stage = "open", !.view = Current]
    <3>1. stream'[s] = c
      BY <1>6 DEF SendInitialState, TypeInv, TypeOK
    <3>2. c.queue = q /\ c.view = Current /\ c.closed = stream[s].closed
      BY <1>2 DEF Connection
    <3> HIDE DEF c
    <3> QED
      BY <1>6, <3>1, <3>2 DEF SendInitialState, Following
  <2>2. \A m \in Nodes : Current[m] = Listed(m)
    BY DEF Current, Listed
  <2>3. ASSUME NEW m \in Nodes, Following(s)', ~ Busy(m)
        PROVE  Caught(s, m)'
    <3>1. Caught(s, m)
      BY <1>3, <2>1, <2>3
    <3> QED
      BY <1>1, <1>4, <2>1, <2>2, <3>1 DEF Caught, LastAbout, NoneAbout, Applied
  <2>4. \A i \in 1..Len(stream'[s].queue) : Right(stream'[s].queue[i])
    BY <1>2, <2>1
  <2> QED
    BY <1>1, <2>3, <2>4, StreamKeeps
<1>7. CASE Deliver(s)
  <2> DEFINE e == Head(q)
             view == IF e.kind = "result" THEN stream[s].view
                     ELSE [stream[s].view EXCEPT ![e.node] = Applied(e)]
             c == [stream[s] EXCEPT !.queue = Tail(q), !.view = view]
  <2>1. q # <<>> /\ stream[s].stage = "open" /\ stream'[s] = c
    BY <1>7 DEF Deliver, TypeInv, TypeOK
  <2>2. /\ e = q[1] /\ Len(q) \in Nat \ {0} /\ Len(Tail(q)) = Len(q) - 1
        /\ \A i \in 1..Len(Tail(q)) : Tail(q)[i] = q[i + 1]
    BY <1>2, <2>1, TailFacts
  <2> HIDE DEF view
  <2>3. /\ stream'[s].queue = Tail(q) /\ stream'[s].view = view
        /\ stream'[s].stage = "open" /\ stream'[s].closed = stream[s].closed
    BY <1>2, <2>1 DEF Connection
  <2> HIDE DEF q, c
  <2>4. \A i \in 1..Len(stream'[s].queue) :
           i + 1 \in 1..Len(q) /\ stream'[s].queue[i] = q[i + 1]
    BY <2>2, <2>3
  <2>5. \A i \in 1..Len(stream'[s].queue) : Right(stream'[s].queue[i])
    BY <1>2, <2>4
  <2>6. ASSUME NEW m \in Nodes, Following(s)', ~ Busy(m)
        PROVE  Caught(s, m)'
    <3>1. Caught(s, m)
      BY <1>3, <2>1, <2>3, <2>6 DEF Following
    <3>2. ASSUME NEW i \in 1..Len(stream'[s].queue), LastAbout(s, m, i)'
          PROVE  Applied(stream[s].queue[i])' = Listed(m)
      <4>1. LastAbout(s, m, i + 1)
        <5>1. About(q[i + 1], m)
          BY <2>4, <3>2 DEF LastAbout, About
        <5>2. ASSUME NEW j \in 1..Len(q), j > i + 1
              PROVE  ~ About(q[j], m)
          <6>1. j - 1 \in 1..Len(stream'[s].queue) /\ j - 1 > i /\ (j - 1) + 1 = j
            BY <2>2, <2>3, <5>2
          <6>2. ~ About(stream'[s].queue[j - 1], m)
            BY <3>2, <6>1 DEF LastAbout, About
          <6> QED
            BY <2>4, <6>1, <6>2
        <5> QED
          BY <5>1, <5>2 DEF LastAbout, q
      <4>2. Applied(q[i + 1]) = Listed(m)
        BY <2>4, <3>1, <4>1 DEF Caught, q
      <4> QED
        BY <1>1, <2>4, <4>2 DEF Applied
    <3>3. ASSUME NoneAbout(s, m)'
          PROVE  view[m] = Listed(m)
      <4>1. ASSUME NEW j \in 2..Len(q)
            PROVE  ~ About(q[j], m)
        <5>1. j - 1 \in 1..Len(stream'[s].queue) /\ (j - 1) + 1 = j
          BY <2>2, <2>3, <4>1
        <5> QED
          BY <2>4, <3>3, <5>1 DEF NoneAbout, About
      <4>2. stream[s].view \in [Nodes -> Known] /\ 1 \in 1..Len(q)
        BY <1>2, <2>2 DEF Connection
      <4>3. CASE About(e, m)
        <5>1. LastAbout(s, m, 1)
          <6>1. \A j \in 1..Len(q) : j > 1 => j \in 2..Len(q)
            BY <2>2
          <6> QED
            BY <2>2, <4>1, <4>3, <6>1 DEF LastAbout, q
        <5>2. Applied(e) = Listed(m)
          BY <2>2, <3>1, <4>2, <5>1 DEF Caught, q
        <5>3. view[m] = Applied(e)
          BY <4>2, <4>3 DEF view, About
        <5> QED
          BY <5>2, <5>3
      <4>4. CASE ~ About(e, m)
        <5>1. NoneAbout(s, m)
          <6>1. \A j \in 1..Len(q) : j = 1 \/ j \in 2..Len(q)
            BY <2>2
          <6> QED
            BY <2>2, <4>1, <4>4, <6>1 DEF NoneAbout, q
        <5>2. view[m] = stream[s].view[m]
          BY <4>2, <4>4 DEF view, About
        <5> QED
          BY <2>1, <3>1, <5>1, <5>2 DEF Caught
      <4> QED
        BY <4>3, <4>4
    <3> QED
      BY <1>4, <2>3, <3>2, <3>3 DEF Caught
  <2> QED
    BY <1>1, <2>5, <2>6, StreamKeeps
<1>8. CASE DeliverEmpty(s) \/ Leave(s) \/ CloseChannel(s)
  <2>1. /\ stream'[s].queue = q /\ stream'[s].view = stream[s].view
        /\ Following(s)' => Following(s) /\ stream'[s].stage = stream[s].stage
    <3>1. CASE DeliverEmpty(s)
      BY <1>2, <3>1 DEF DeliverEmpty, Following, Connection, TypeInv, TypeOK
    <3>2. CASE Leave(s)
      BY <1>2, <3>2 DEF Leave, Following, Connection, TypeInv, TypeOK
    <3>3. CASE CloseChannel(s)
      BY <1>2, <3>3 DEF CloseChannel, Following, Connection, TypeInv, TypeOK
    <3> QED
      BY <1>8, <3>1, <3>2, <3>3
  <2>2. ASSUME NEW m \in Nodes, Following(s)', ~ Busy(m)
        PROVE  Caught(s, m)'
    <3>1. Caught(s, m)
      BY <1>3, <2>1, <2>2
    <3> QED
      BY <1>1, <1>4, <2>1, <2>2, <3>1 DEF Caught, LastAbout, NoneAbout, Applied
  <2>3. \A i \in 1..Len(stream'[s].queue) : Right(stream'[s].queue[i])
    BY <1>2, <2>1
  <2> QED
    BY <1>1, <2>2, <2>3, StreamKeeps
<1> QED
  BY <1>5, <1>6, <1>7, <1>8

\* The invariant is inductive when requests about a node do not overlap.
LEMMA NextView ==
    ASSUME Serial
    PROVE  TypeInv /\ ClientsFollow /\ ViewInv /\ [Next]_vars => ViewInv'
<1> SUFFICES ASSUME TypeInv, ClientsFollow, ViewInv, [Next]_vars PROVE ViewInv'
  OBVIOUS
<1>1. CASE UNCHANGED <<nodes, value, request, clients, stream>>
  BY <1>1 DEF ViewInv, Owners, OneRequest, Announced, CatchesUp, Caught, LastAbout,
              NoneAbout, Applied, Listed, Busy, Active, Following
<1>2. CASE Submit \/ TakeResult
  BY <1>1, <1>2 DEF Submit, TakeResult, nodeVars
<1>3. CASE UNCHANGED vars
  BY <1>1, <1>3 DEF vars
<1> QED
  BY <1>2, <1>3, RequestView, ResultView, StreamView DEF Next

\* A client that is not cut off knows the registry as it is once it applied the
\* initial state and every event, provided that requests about one node do not
\* overlap; those about different nodes, results and connections may.
THEOREM ViewsConverge ==
    ASSUME Serial
    PROVE  Spec => []ViewConverges
<1>1. TypeInv /\ ViewInv => ViewConverges
  <2> SUFFICES ASSUME TypeInv, ViewInv, NEW s \in Streams,
                      stream[s].stage = "open", stream[s].queue = <<>>, ~ stream[s].closed,
                      \A r \in Requests : ~ Active(r)
               PROVE  stream[s].view = Current
    BY DEF ViewConverges
  <2>1. \A n \in Nodes : Caught(s, n)
    BY DEF ViewInv, CatchesUp, Following, Busy
  <2>2. \A n \in Nodes : stream[s].view[n] = Listed(n)
    BY <2>1 DEF Caught, NoneAbout
  <2>3. stream[s].view \in [Nodes -> Known]
    BY DEF TypeInv, TypeOK, Connection
  <2> QED
    BY <2>2, <2>3 DEF Current, Listed
<1> QED
  BY <1>1, TypeCorrect, InitClients, NextClients, InitView, NextView, PTL DEF Spec
==============================================================================
