--------------------------- MODULE TransportPool ----------------------------
(***************************************************************************)
(* The connection pool of the transport layer (pkg/transport/pool.go) for  *)
(* one target, over SSH transports (pkg/transport/ssh.go).  The lists of   *)
(* two targets share only the lock and the counters.                       *)
(*                                                                         *)
(* Every method of the pool runs under p.mu, so it is one step; what a     *)
(* client does with the connection it got is not.  Close and               *)
(* CleanupIdleConnections range over a slice while                         *)
(* destroyConnectionLocked shifts the elements of the array under it, so   *)
(* the array is modelled, and not only the list it stands for.             *)
(***************************************************************************)
EXTENDS Naturals, SequencesExt

CONSTANTS
    Clients,          \* goroutines that use the pool
    Conns,            \* the PooledConnection objects a run may create
    MaxConns,         \* Connection.MaxConns
    MaxIdle,          \* Connection.MaxIdle
    DisconnectFails,  \* closing an SSH client may return an error
    NoConn            \* no connection

ASSUME BoundsAssumption == MaxConns \in Nat \ {0} /\ MaxIdle \in Nat \ {0}
ASSUME SwitchAssumption == DisconnectFails \in BOOLEAN
ASSUME NoConnAssumption == NoConn \notin Conns

VARIABLES
    list,       \* p.conns[target]
    conn,       \* connection object -> its state
    client,     \* client -> the wrapper it holds and what it is doing
    destroyed,  \* metrics.Destroyed
    orphans     \* history: the connections Close found in use

vars == <<list, conn, client, destroyed, orphans>>

\* A connection object: created, held by a wrapper, its SSH client (none, live
\* or dead), older than MaxLifetime (an hour, as in isHealthy), and returned
\* longer than IdleTimeout ago.
Connection == [created : BOOLEAN, inUse : BOOLEAN, link : {"none", "live", "dead"},
               old : BOOLEAN, expired : BOOLEAN]

Init ==
    /\ list = <<>>
    /\ conn = [c \in Conns |-> [created |-> FALSE, inUse |-> FALSE, link |-> "none",
                                old |-> FALSE, expired |-> FALSE]]
    /\ client = [k \in Clients |-> [stage |-> "idle", conn |-> NoConn]]
    /\ destroyed = 0
    /\ orphans = {}

\* The indices of the list that GetMetrics counts as Idle.
Idle(l, state) == {i \in DOMAIN l : ~ state[l[i]].inUse}
Healthy(c) == conn[c].link = "live" /\ ~ conn[c].old

\* The connections among S whose disconnect returns an error, if attempted.
Failures(S) == IF DisconnectFails THEN SUBSET {c \in S : conn[c].link # "none"} ELSE {{}}
-----------------------------------------------------------------------------
(* destroyConnectionLocked.  The record s is the pool while a method runs: *)
(* the array behind the list, how many of its elements are the list, the   *)
(* connections and the counter.  Removing an element shifts the later ones *)
(* down and leaves the last where it was.                                  *)

Pool(l, state) == [array |-> l, live |-> Len(l), conn |-> state, destroyed |-> destroyed,
                   kept |-> <<>>]
Live(s) == SubSeq(s.array, 1, s.live)

Places(s, c) == {j \in 1 .. s.live : s.array[j] = c}
Unlist(s, c) ==
    IF Places(s, c) = {} THEN s
    ELSE [s EXCEPT !.array = [j \in DOMAIN @ |->
                                 IF j \in Min(Places(s, c)) .. s.live - 1 THEN @[j + 1] ELSE @[j]],
                   !.live = @ - 1]

\* Mutant of DestroyConnectionLocked: the connection stays in the list.
DestroyKeepingListed(s, c, failures) ==
    IF s.conn[c].inUse THEN s
    ELSE [s EXCEPT !.conn[c].link = "none", !.destroyed = IF c \in failures THEN @ ELSE @ + 1]

\* A connection in use is an error; so is a client that cannot be closed, which
\* the transport forgets all the same and the pool keeps.
DestroyConnectionLocked(s, c, failures) ==
    LET closed == [s EXCEPT !.conn[c].link = "none"] IN
    IF s.conn[c].inUse THEN s
    ELSE IF s.conn[c].link # "none" /\ c \in failures THEN closed
    ELSE [Unlist(closed, c) EXCEPT !.destroyed = @ + 1]
-----------------------------------------------------------------------------
(* Get: the first idle healthy connection of the list, else a new one.     *)

Hand(k, c) == client' = [client EXCEPT ![k] = [stage |-> "using", conn |-> c]]

\* Mutant of Reusable: does not ask whether the connection is in use.
ReusableInUse(c) == Healthy(c)

Reusable(c) == ~ conn[c].inUse /\ Healthy(c)
FirstReusable == SelectInSeq(list, Reusable)

Reuse(k) ==
    /\ client[k].stage = "idle"
    /\ FirstReusable # 0
    /\ LET c == list[FirstReusable] IN
         /\ conn' = [conn EXCEPT ![c].inUse = TRUE, ![c].expired = FALSE]
         /\ Hand(k, c)
    /\ UNCHANGED <<list, destroyed, orphans>>

\* The transport of a new connection is not connected yet.  An exhausted pool
\* and a factory that fails change nothing.
Create(k) ==
    /\ client[k].stage = "idle"
    /\ FirstReusable = 0 /\ Len(list) < MaxConns
    /\ \E c \in Conns :
         /\ ~ conn[c].created
         /\ conn' = [conn EXCEPT ![c].created = TRUE, ![c].inUse = TRUE]
         /\ list' = Append(list, c)
         /\ Hand(k, c)
    /\ UNCHANGED <<destroyed, orphans>>
-----------------------------------------------------------------------------
(* What a client does with its connection.                                 *)

\* SSHTransport.Connect.  When there is an SSH client already, Connect asks
\* IsConnected, which waits for the lock that Connect holds.
Connect(k) ==
    LET c == client[k].conn IN
    /\ client[k].stage = "using"
    /\ \/ /\ conn[c].link = "none"
          /\ conn' = [conn EXCEPT ![c].link = "live"]
          /\ UNCHANGED client
       \/ /\ conn[c].link # "none"
          /\ client' = [client EXCEPT ![k].stage = "stuck"]
          /\ UNCHANGED conn
    /\ UNCHANGED <<list, destroyed, orphans>>

\* Mutant of Overflow: the connection being returned is not counted.
OverflowWithoutSelf(c, state) == Cardinality(Idle(list, state) \ {i \in DOMAIN list : list[i] = c}) > MaxIdle

\* put: too many idle connections, the one being returned among them.
Overflow(c, state) == Cardinality(Idle(list, state)) > MaxIdle

\* PooledTransportWrapper.Disconnect, that is put: the client lets go.
Put(k) ==
    LET c == client[k].conn
        returned == [conn EXCEPT ![c].inUse = FALSE, ![c].expired = FALSE]
    IN
    /\ client[k].stage = "using"
    /\ \E failures \in Failures({c}) :
         LET s == IF Overflow(c, returned) \/ conn[c].old
                  THEN DestroyConnectionLocked(Pool(list, returned), c, failures)
                  ELSE Pool(list, returned)
         IN conn' = s.conn /\ list' = Live(s) /\ destroyed' = s.destroyed
    /\ client' = [client EXCEPT ![k] = [stage |-> "idle", conn |-> NoConn]]
    /\ UNCHANGED orphans
-----------------------------------------------------------------------------
(* Close and CleanupIdleConnections: the i-th turn of their loops looks at *)
(* the i-th element of the array as the turns before left it.              *)

\* Close: every connection that is not in use, then the list is dropped, the
\* others with it.  The pool can be used again.
Closed(failures) ==
    LET turn[i \in 0 .. Len(list)] ==
          IF i = 0 THEN Pool(list, conn)
          ELSE DestroyConnectionLocked(turn[i - 1], turn[i - 1].array[i], failures)
    IN turn[Len(list)]

Close ==
    /\ \E failures \in Failures(ToSet(list)) :
          /\ conn' = Closed(failures).conn
          /\ destroyed' = Closed(failures).destroyed
    /\ list' = <<>>
    /\ orphans' = orphans \cup {c \in Conns : conn[c].inUse}
    /\ UNCHANGED client

\* Mutant of ToClean: the connections clients hold expire too.
ToCleanInUse(state, c) == state[c].expired \/ state[c].inUse

ToClean(state, c) == ~ state[c].inUse /\ state[c].expired

\* CleanupIdleConnections: expired ones are destroyed, and forgotten even when
\* that fails; the list becomes the others.
CleanOne(s, c, failures) ==
    IF ToClean(s.conn, c) THEN DestroyConnectionLocked(s, c, failures)
    ELSE [s EXCEPT !.kept = Append(@, c)]

Cleaned(failures) ==
    LET turn[i \in 0 .. Len(list)] ==
          IF i = 0 THEN Pool(list, conn)
          ELSE CleanOne(turn[i - 1], turn[i - 1].array[i], failures)
    IN turn[Len(list)]

CleanupIdleConnections ==
    /\ \E failures \in Failures(ToSet(list)) :
          /\ conn' = Cleaned(failures).conn
          /\ list' = Cleaned(failures).kept
          /\ destroyed' = Cleaned(failures).destroyed
    /\ UNCHANGED <<client, orphans>>
-----------------------------------------------------------------------------
(* The network and the clock.                                              *)

Break(c) == conn[c].link = "live" /\ conn' = [conn EXCEPT ![c].link = "dead"]
Age(c) == conn[c].created /\ ~ conn[c].old /\ conn' = [conn EXCEPT ![c].old = TRUE]
Expire(c) ==
    /\ conn[c].created /\ ~ conn[c].inUse /\ ~ conn[c].expired
    /\ conn' = [conn EXCEPT ![c].expired = TRUE]

Environment(c) == (Break(c) \/ Age(c) \/ Expire(c)) /\ UNCHANGED <<list, client, destroyed, orphans>>

Next ==
    \/ \E k \in Clients : Reuse(k) \/ Create(k) \/ Connect(k) \/ Put(k)
    \/ Close \/ CleanupIdleConnections
    \/ \E c \in Conns : Environment(c)

Spec == Init /\ [][Next]_vars
-----------------------------------------------------------------------------
(* What must hold.                                                         *)

Listed(c) == Contains(list, c)
Held(c) == \E k \in Clients : client[k].conn = c
Created == {c \in Conns : conn[c].created}

(***************************************************************************)
(* Two clients never share a connection, and the pool knows which ones are *)
(* held: Get marks the connection and every path that takes one back or    *)
(* closes one looks at the mark.                                           *)
(***************************************************************************)
ExclusiveUse ==
    /\ \A k, l \in Clients : client[k].conn = client[l].conn /\ k # l => client[k].conn = NoConn
    /\ \A c \in Conns : conn[c].inUse <=> Held(c)

\* Open connections that nobody uses.
IdleOpen == {i \in Idle(list, conn) : conn[list[i]].link # "none"}

(***************************************************************************)
(* The pool keeps at most MaxIdle open connections that nobody uses        *)
(* (TestPoolMaxIdle), whatever was closed or failed to close before.  And  *)
(* it never counts as destroyed a connection it still has, nor one twice:  *)
(* what was created covers what was destroyed and what GetMetrics reports  *)
(* as Active and Idle.                                                     *)
(***************************************************************************)
PoolCounts ==
    /\ Cardinality(IdleOpen) <= MaxIdle
    /\ destroyed + Len(list) <= Cardinality(Created)

(***************************************************************************)
(* No connection is lost: while its SSH client is open, it is in the list  *)
(* or a client will return it.  The ones in use when the pool was closed   *)
(* are excepted: Close drops them from the list, and put leaves them open. *)
(***************************************************************************)
NoLeak == \A c \in Conns : conn[c].link # "none" => Listed(c) \/ Held(c) \/ c \in orphans
=============================================================================
