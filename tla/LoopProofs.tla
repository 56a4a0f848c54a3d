----------------------------- MODULE LoopProofs -----------------------------
(***************************************************************************)
(* Theorems about the components whose operations are loops, and about     *)
(* loops: what holds after every turn of one is shown for the smallest     *)
(* turn after which it would not.                                          *)
(*                                                                         *)
(* The transport pool: for any limits, no two clients hold the same        *)
(* connection; for lists of two connections at most, the limits and the    *)
(* counter are right and no open connection is lost.  The plugins: for any *)
(* manifests, they are taken in an order that respects what they depend    *)
(* on, and a lock file that passes for up to date is.  The services: for   *)
(* any lists of them and of what they depend on, the same of the agent's   *)
(* order and of the orchestrator's.                                        *)
(***************************************************************************)
EXTENDS TransportPool, Dependencies, FiniteSetTheorems, WellFoundedInduction, TLAPS

-----------------------------------------------------------------------------
(* Loops.                                                                  *)

\* A set of numbers has a smallest one.
LEMMA SmallestOf ==
    ASSUME NEW S \in SUBSET Nat, S # {}
    PROVE  \E n \in S : \A k \in S : n <= k
<1> DEFINE R == OpToRel(<, Nat)
<1>1. IsWellFoundedOn(R, Nat)
  BY NatLessThanWellFounded
<1>2. \A y, x \in Nat : <<y, x>> \in R <=> y < x
  BY DEF OpToRel
<1> HIDE DEF R
<1>3. PICK n \in S : \A y \in S : <<y, n>> \notin R
  BY <1>1, WFMin
<1>4. ASSUME NEW k \in S PROVE n <= k
  <2>1. ~ (k < n)
    BY <1>2, <1>3
  <2> QED
    BY <2>1
<1> QED
  BY <1>4

\* A loop of n turns starts at base, in S[0]; its i-th turn leads from S[i - 1] to
\* S[i].  A run is the function of what it has made after each turn.
Turns(n, S, base, turn) ==
    base \in S[0] /\ \A i \in 1 .. n : \A s \in S[i - 1] : turn[<<s, i>>] \in S[i]
RunOf(g, n, S, base, turn) ==
    /\ g = [i \in 0 .. n |-> IF i = 0 THEN base ELSE turn[<<g[i - 1], i>>]]
    /\ \A i \in 0 .. n : g[i] \in S[i]

\* A loop of n turns has a run, and S[i] holds after its i-th turn.
LEMMA LoopRuns ==
    ASSUME NEW n \in Nat, NEW S, NEW base, NEW turn, Turns(n, S, base, turn)
    PROVE  \E g : RunOf(g, n, S, base, turn)
<1> USE DEF Turns, RunOf
<1> DEFINE Run(g, m) == /\ g = [i \in 0 .. m |-> IF i = 0 THEN base ELSE turn[<<g[i - 1], i>>]]
                        /\ \A i \in 0 .. m : g[i] \in S[i]
           Bad == {m \in 0 .. n : ~ \E g : Run(g, m)}
<1>1. \E g : Run(g, 0)
  <2> DEFINE g == [i \in 0 .. 0 |-> base]
  <2>1. g = [i \in 0 .. 0 |-> IF i = 0 THEN base ELSE turn[<<g[i - 1], i>>]]
    OBVIOUS
  <2>2. \A i \in 0 .. 0 : g[i] \in S[i]
    OBVIOUS
  <2> QED
    BY <2>1, <2>2
<1>2. ASSUME NEW m \in 1 .. n, NEW g, Run(g, m - 1)
      PROVE  \E h : Run(h, m)
  <2> DEFINE h == [i \in 0 .. m |-> IF i = m THEN turn[<<g[m - 1], m>>] ELSE g[i]]
  <2>1. \A i \in 0 .. m - 1 : h[i] = g[i]
    OBVIOUS
  <2>2. h[m] = turn[<<g[m - 1], m>>] /\ g[m - 1] \in S[m - 1] /\ g[m - 1] = h[m - 1]
    BY <1>2, <2>1
  <2>3. ASSUME NEW i \in 0 .. m
        PROVE  h[i] = (IF i = 0 THEN base ELSE turn[<<h[i - 1], i>>]) /\ h[i] \in S[i]
    <3>1. CASE i = m
      <4> HIDE DEF h
      <4>1. i # 0 /\ i - 1 = m - 1 /\ h[i] = turn[<<h[i - 1], i>>]
        BY <2>2, <3>1
      <4>2. turn[<<h[i - 1], i>>] \in S[i]
        BY <2>2, <3>1
      <4> QED
        BY <4>1, <4>2
    <3>2. CASE i # m
      <4>1. i \in 0 .. m - 1 /\ (i # 0 => i - 1 \in 0 .. m - 1)
        BY <3>2
      <4>2. h[i] = g[i] /\ (i # 0 => h[i - 1] = g[i - 1])
        BY <2>1, <4>1
      <4>3. g[i] = (IF i = 0 THEN base ELSE turn[<<g[i - 1], i>>]) /\ g[i] \in S[i]
        BY <1>2, <4>1
      <4> QED
        BY <4>2, <4>3
    <3> QED
      BY <3>1, <3>2
  <2> HIDE DEF h
  <2>4. h = [i \in 0 .. m |-> h[i]]
    BY DEF h
  <2>5. h = [i \in 0 .. m |-> IF i = 0 THEN base ELSE turn[<<h[i - 1], i>>]]
    BY <2>3, <2>4
  <2> QED
    BY <2>3, <2>5
<1>3. Bad = {}
  <2> SUFFICES ASSUME Bad # {} PROVE FALSE
    OBVIOUS
  <2> HIDE DEF Run
  <2>0. Bad \in SUBSET Nat
    OBVIOUS
  <2>1. PICK m \in Bad : \A k \in Bad : m <= k
    <3> HIDE DEF Bad
    <3> QED
      BY <2>0, SmallestOf
  <2>2. m \in 1 .. n /\ m - 1 \in 0 .. n /\ m - 1 \notin Bad
    BY <1>1, <2>1
  <2>3. PICK g : Run(g, m - 1)
    BY <2>2
  <2> QED
    BY <1>2, <2>1, <2>2, <2>3
<1>4. \E g : Run(g, n)
  <2> HIDE DEF Run
  <2>1. n \in 0 .. n /\ n \notin Bad
    BY <1>3
  <2> QED
    BY <2>1
<1> QED
  BY <1>4

\* What holds before the first turn and is kept by every turn holds at the end.
LEMMA LoopKeeps ==
    ASSUME NEW n \in Nat, NEW S, NEW h, h[0] \in S[0],
           \A i \in 1 .. n : h[i - 1] \in S[i - 1] => h[i] \in S[i]
    PROVE  h[n] \in S[n]
<1> DEFINE Bad == {m \in 0 .. n : h[m] \notin S[m]}
<1>1. Bad = {}
  <2> SUFFICES ASSUME Bad # {} PROVE FALSE
    OBVIOUS
  <2>0. Bad \in SUBSET Nat
    OBVIOUS
  <2>1. PICK m \in Bad : \A k \in Bad : m <= k
    <3> HIDE DEF Bad
    <3> QED
      BY <2>0, SmallestOf
  <2>2. m \in 1 .. n /\ m - 1 \in 0 .. n /\ m - 1 \notin Bad
    BY <2>1
  <2> QED
    BY <2>1, <2>2
<1> QED
  BY <1>1

Distinct(l) == \A i, j \in 1 .. Len(l) : l[i] = l[j] => i = j

-----------------------------------------------------------------------------
(* The transport pool: what its theorems say, and need.                     *)

ClientState == [stage : {"idle", "using", "stuck"}, conn : Conns \cup {NoConn}]

\* The pool while a method runs.
PoolState == [array : Seq(Created), live : Nat, conn : [Conns -> Connection],
              destroyed : Nat, kept : Seq(Created)]

TypeInv ==
    /\ list \in Seq(Created)
    /\ conn \in [Conns -> Connection]
    /\ client \in [Clients -> ClientState]
    /\ destroyed \in Nat
    /\ orphans \subseteq Conns
    /\ \A k \in Clients : client[k].stage = "idle" <=> client[k].conn = NoConn

\* A connection that is held is marked, and exists.
UseInv ==
    /\ TypeInv /\ ExclusiveUse
    /\ \A c \in Conns : conn[c].inUse => conn[c].created

\* The connections that are not in the list and that nobody holds: those that
\* were destroyed are among them, and counted once.
Gone == {c \in Created : ~ conn[c].inUse /\ ~ Listed(c)}
\* IdleOpen, as connections instead of places in the list.
OpenIdle == {c \in Created : Listed(c) /\ ~ conn[c].inUse /\ conn[c].link # "none"}
CountInv ==
    /\ Len(list) <= MaxConns /\ Distinct(list)
    /\ IsFiniteSet(Created) /\ destroyed <= Cardinality(Gone)
    /\ Cardinality(OpenIdle) <= MaxIdle

\* What is held or open is in the list, unless the pool was closed under it.
KeepInv == \A c \in Conns : conn[c].inUse \/ conn[c].link # "none" => Listed(c) \/ c \in orphans

PoolInv == UseInv /\ CountInv /\ KeepInv

-----------------------------------------------------------------------------
(* destroyConnectionLocked.                                                *)

\* Removing a connection leaves the array as long as it was, and its last
\* element where it is.
LEMMA UnlistFacts ==
    ASSUME NEW s \in PoolState, s.live <= Len(s.array), NEW c \in Conns
    PROVE  LET u == Unlist(s, c) IN
           /\ u \in PoolState /\ u.conn = s.conn /\ u.kept = s.kept /\ u.destroyed = s.destroyed
           /\ Len(u.array) = Len(s.array) /\ u.live <= s.live
           /\ Len(s.array) # 0 => u.array[Len(s.array)] = s.array[Len(s.array)]
           /\ Distinct(Live(s)) => /\ Distinct(Live(u))
                                   /\ ToSet(Live(u)) = ToSet(Live(s)) \ {c}
<1> DEFINE u == Unlist(s, c)  n == Len(s.array)
<1>0. /\ s.array \in Seq(Created) /\ s.live \in Nat /\ n \in Nat /\ s.conn \in [Conns -> Connection]
      /\ s.destroyed \in Nat /\ s.kept \in Seq(Created)
      /\ DOMAIN s.array = 1 .. n /\ \A j \in 1 .. n : s.array[j] \in Created
  BY DEF PoolState
<1>1. Live(s) = [j \in 1 .. s.live |-> s.array[j]] /\ Live(s) \in Seq(Created) /\ Len(Live(s)) = s.live
  BY <1>0 DEF Live
<1>2. CASE Places(s, c) = {}
  <2>1. u = s
    BY <1>2 DEF Unlist
  <2>2. c \notin ToSet(Live(s))
    BY <1>1, <1>2 DEF Places, ToSet
  <2> QED
    BY <1>0, <2>1, <2>2
<1>3. CASE Places(s, c) # {}
  <2> DEFINE at == Min(Places(s, c))
             a == [j \in 1 .. n |-> IF j \in at .. s.live - 1 THEN s.array[j + 1] ELSE s.array[j]]
  <2>1. at \in 1 .. s.live /\ s.array[at] = c
    <3>1. Places(s, c) \in SUBSET Nat /\ Places(s, c) # {}
      BY <1>3 DEF Places
    <3>2. \E x \in Places(s, c) : \A y \in Places(s, c) : x <= y
      BY <3>1, SmallestOf
    <3>3. at \in Places(s, c)
      BY <3>2 DEF Min
    <3> QED
      BY <3>3 DEF Places
  <2>2. u = [s EXCEPT !.array = a, !.live = s.live - 1]
    BY <1>0, <1>3 DEF Unlist
  <2> HIDE DEF at
  <2>3. \A j \in 1 .. n : j \in at .. s.live - 1 => j + 1 \in 1 .. n
    BY <1>0, <2>1
  <2>4. a \in [1 .. n -> Created]
    BY <1>0, <2>3
  <2>5. a \in Seq(Created) /\ Len(a) = n
    BY <1>0, <2>4
  <2>6. n # 0 => a[n] = s.array[n]
    BY <1>0, <2>1
  <2>7. s.live - 1 \in Nat
    BY <1>0, <2>1
  <2> HIDE DEF a
  <2>8. /\ u.array = a /\ u.live = s.live - 1 /\ u.conn = s.conn /\ u.kept = s.kept
        /\ u.destroyed = s.destroyed /\ u \in PoolState
    BY <1>0, <2>2, <2>5, <2>7 DEF PoolState
  <2>9. /\ Len(Live(u)) = s.live - 1
        /\ \A j \in 1 .. s.live - 1 : Live(u)[j] = IF j >= at THEN s.array[j + 1] ELSE s.array[j]
    <3> HIDE DEF u
    <3>1. Live(u) = [j \in 1 .. s.live - 1 |-> a[j]] /\ Len(Live(u)) = s.live - 1
      BY <1>0, <2>5, <2>7, <2>8 DEF Live
    <3>2. \A j \in 1 .. s.live - 1 : a[j] = IF j >= at THEN s.array[j + 1] ELSE s.array[j]
      BY <1>0, <2>1 DEF a
    <3> QED
      BY <3>1, <3>2
  <2> HIDE DEF u
  <2>10. ASSUME Distinct(Live(s))
         PROVE  Distinct(Live(u)) /\ ToSet(Live(u)) = ToSet(Live(s)) \ {c}
    <3> DEFINE e(j) == IF j >= at THEN j + 1 ELSE j
    <3>1. \A j \in 1 .. s.live - 1 : e(j) \in 1 .. s.live /\ e(j) # at /\ Live(u)[j] = Live(s)[e(j)]
      BY <1>0, <1>1, <2>1, <2>9
    <3>2. \A i, j \in 1 .. s.live - 1 : e(i) = e(j) => i = j
      BY <1>0, <2>1
    <3>3. \A i \in 1 .. s.live : i # at => \E j \in 1 .. s.live - 1 : e(j) = i
      <4> TAKE i \in 1 .. s.live
      <4> HAVE i # at
      <4>1. CASE i < at
        <5>1. i \in 1 .. s.live - 1 /\ e(i) = i
          BY <1>0, <2>1, <4>1
        <5> QED
          BY <5>1
      <4>2. CASE i > at
        <5>1. i - 1 \in 1 .. s.live - 1 /\ e(i - 1) = i
          BY <1>0, <2>1, <4>2
        <5> HIDE DEF e
        <5> QED
          BY <5>1
      <4> QED
        BY <1>0, <2>1, <4>1, <4>2
    <3>4. DOMAIN Live(u) = 1 .. s.live - 1 /\ DOMAIN Live(s) = 1 .. s.live /\ Live(s)[at] = c
      <4>1. Live(u) = [j \in 1 .. s.live - 1 |-> a[j]]
        BY <1>0, <2>5, <2>7, <2>8 DEF Live
      <4> QED
        BY <1>1, <2>1, <4>1
    <3> HIDE DEF e
    <3>5. \A i, j \in 1 .. s.live : Live(s)[i] = Live(s)[j] => i = j
      BY <1>1, <2>10 DEF Distinct
    <3>6. Distinct(Live(u))
      BY <2>9, <3>1, <3>2, <3>5 DEF Distinct
    <3>7. \A x \in ToSet(Live(u)) : x \in ToSet(Live(s)) \ {c}
      BY <2>1, <3>1, <3>4, <3>5 DEF ToSet
    <3>8. \A x \in ToSet(Live(s)) \ {c} : x \in ToSet(Live(u))
      BY <2>1, <3>1, <3>3, <3>4 DEF ToSet
    <3> QED
      BY <3>6, <3>7, <3>8
  <2> QED
    BY <1>0, <2>5, <2>6, <2>8, <2>10 DEF u
<1> QED
  BY <1>2, <1>3

\* A connection that is not in use is closed, and when that succeeds counted and
\* removed from the list.
LEMMA DestroyFacts ==
    ASSUME NEW s \in PoolState, s.live <= Len(s.array), NEW c \in Conns, NEW failures
    PROVE  LET d == DestroyConnectionLocked(s, c, failures) IN
           /\ d \in PoolState /\ d.kept = s.kept
           /\ d.conn = IF s.conn[c].inUse THEN s.conn ELSE [s.conn EXCEPT ![c].link = "none"]
           /\ Len(d.array) = Len(s.array) /\ d.live <= s.live
           /\ Len(s.array) # 0 => d.array[Len(s.array)] = s.array[Len(s.array)]
           /\ \/ d.destroyed = s.destroyed /\ Live(d) = Live(s)
              \/ /\ d.destroyed = s.destroyed + 1 /\ ~ s.conn[c].inUse
                 /\ Distinct(Live(s)) => /\ Distinct(Live(d))
                                         /\ ToSet(Live(d)) = ToSet(Live(s)) \ {c}
<1> DEFINE d == DestroyConnectionLocked(s, c, failures)
           closed == [s EXCEPT !.conn[c].link = "none"]
           u == Unlist(closed, c)
<1>0. /\ s.array \in Seq(Created) /\ s.live \in Nat /\ s.conn \in [Conns -> Connection]
      /\ s.destroyed \in Nat /\ s.kept \in Seq(Created) /\ Len(s.array) \in Nat
  BY DEF PoolState
<1>1. CASE s.conn[c].inUse
  BY <1>0, <1>1 DEF DestroyConnectionLocked
<1>2. CASE ~ s.conn[c].inUse
  <2> DEFINE state == [s.conn EXCEPT ![c].link = "none"]
  <2>1. state \in [Conns -> Connection]
    BY <1>0 DEF Connection
  <2>2. closed = [s EXCEPT !.conn = state]
    BY <1>0 DEF PoolState
  <2> HIDE DEF state
  <2>3. /\ closed \in PoolState /\ closed.array = s.array /\ closed.live = s.live
        /\ closed.conn = state /\ closed.destroyed = s.destroyed /\ closed.kept = s.kept
    BY <1>0, <2>1, <2>2 DEF PoolState
  <2>4. Live(closed) = Live(s)
    BY <2>3 DEF Live
  <2>5. CASE s.conn[c].link # "none" /\ c \in failures
    <3>1. d = closed
      BY <1>2, <2>5 DEF DestroyConnectionLocked
    <3> HIDE DEF d, closed
    <3> QED
      BY <1>0, <1>2, <2>3, <2>4, <3>1 DEF state, d
  <2>6. CASE ~ (s.conn[c].link # "none" /\ c \in failures)
    <3>1. d = [u EXCEPT !.destroyed = @ + 1]
      BY <1>2, <2>6 DEF DestroyConnectionLocked
    <3> HIDE DEF d, closed
    <3>2. /\ u \in PoolState /\ u.conn = closed.conn /\ u.kept = closed.kept
          /\ u.destroyed = closed.destroyed
          /\ Len(u.array) = Len(closed.array) /\ u.live <= closed.live
          /\ Len(closed.array) # 0 => u.array[Len(closed.array)] = closed.array[Len(closed.array)]
          /\ Distinct(Live(closed)) => /\ Distinct(Live(u))
                                       /\ ToSet(Live(u)) = ToSet(Live(closed)) \ {c}
      BY <2>3, UnlistFacts
    <3> HIDE DEF u
    <3>3. /\ u.array \in Seq(Created) /\ u.live \in Nat /\ u.conn \in [Conns -> Connection]
          /\ u.destroyed \in Nat /\ u.destroyed + 1 \in Nat /\ u.kept \in Seq(Created)
      BY <3>2 DEF PoolState
    <3>4. d = [u EXCEPT !.destroyed = u.destroyed + 1]
      BY <3>1
    <3>5. /\ d.array = u.array /\ d.live = u.live /\ d.conn = u.conn
          /\ d.kept = u.kept /\ d.destroyed = u.destroyed + 1 /\ d \in PoolState
      BY <3>2, <3>3, <3>4 DEF PoolState
    <3>6. Live(d) = Live(u)
      BY <3>5 DEF Live
    <3> QED
      BY <1>0, <1>2, <2>3, <2>4, <3>2, <3>5, <3>6 DEF state, d
  <2> QED
    BY <2>5, <2>6
<1> QED
  BY <1>1, <1>2

-----------------------------------------------------------------------------
(* Close and CleanupIdleConnections.                                       *)

\* What a method may change of the connections: it closes some.
Closes(state) ==
    /\ state \in [Conns -> Connection]
    /\ \A c \in Conns :
          /\ state[c].inUse = conn[c].inUse /\ state[c].created = conn[c].created
          /\ state[c].link \in {conn[c].link, "none"}

\* After i turns, when the list has two elements at most, what lies ahead in the
\* array is what the list had there; every connection met is kept, in use or
\* closed; and the ones counted are gone.
Met(i) == {list[j] : j \in 1 .. i}
GoneBy(s, i) == Gone \cup {c \in Met(i) : ~ conn[c].inUse /\ c \notin ToSet(s.kept)}
TurnInv(s, i) ==
    /\ Len(list) # 0 => s.array[Len(list)] = list[Len(list)]
    /\ i = 0 => s.array = list
    /\ Distinct(s.kept) /\ ToSet(s.kept) \subseteq Met(i) /\ Len(s.kept) <= i
    /\ \A c \in Met(i) : c \in ToSet(s.kept) \/ conn[c].inUse \/ s.conn[c].link = "none"
    /\ s.destroyed <= Cardinality(GoneBy(s, i))

After(i) == {s \in PoolState :
                /\ Len(s.array) = Len(list) /\ s.live <= Len(list) /\ Closes(s.conn)
                /\ MaxConns <= 2 /\ PoolInv => TurnInv(s, i)}

\* Before the first turn.
LEMMA LoopStarts ==
    ASSUME UseInv
    PROVE  Pool(list, conn) \in After(0) /\ Pool(list, conn).kept = <<>>
<1> DEFINE s == Pool(list, conn)
<1>1. /\ list \in Seq(Created) /\ conn \in [Conns -> Connection] /\ destroyed \in Nat
  BY DEF UseInv, TypeInv
<1>2. /\ s \in PoolState /\ s.array = list /\ s.live = Len(list) /\ s.conn = conn
      /\ s.destroyed = destroyed /\ s.kept = <<>>
  BY <1>1 DEF Pool, PoolState
<1> HIDE DEF s
<1>3. ASSUME PoolInv PROVE TurnInv(s, 0)
  <2>1. Met(0) = {}
    BY DEF Met
  <2>2. GoneBy(s, 0) = Gone
    BY <2>1 DEF GoneBy
  <2>3. ToSet(s.kept) = {} /\ Distinct(s.kept) /\ Len(s.kept) <= 0
    BY <1>2 DEF ToSet, Distinct
  <2> QED
    BY <1>2, <1>3, <2>1, <2>2, <2>3 DEF TurnInv, PoolInv, CountInv
<1>4. Closes(s.conn)
  BY <1>1, <1>2 DEF Closes
<1> QED
  BY <1>1, <1>2, <1>3, <1>4 DEF After, s

\* The element a turn looks at.
LEMMA TurnLooksAt ==
    ASSUME UseInv, NEW i \in 1 .. Len(list), NEW s \in After(i - 1)
    PROVE  /\ s.array[i] \in Conns /\ s.array[i] \in Created
           /\ s \in PoolState /\ Len(s.array) = Len(list)
           /\ s.live <= Len(s.array) /\ Closes(s.conn) /\ Len(list) \in Nat \ {0}
           /\ MaxConns <= 2 /\ PoolInv =>
                 /\ s.array[i] = list[i] /\ TurnInv(s, i - 1)
                 /\ Met(i) = Met(i - 1) \cup {list[i]} /\ list[i] \notin Met(i - 1)
                 /\ conn[list[i]].created /\ Listed(list[i])
                 /\ IsFiniteSet(GoneBy(s, i - 1)) /\ list[i] \notin GoneBy(s, i - 1)
<1>1. list \in Seq(Created) /\ Len(list) \in Nat \ {0}
  BY DEF UseInv, TypeInv
<1>2. /\ s \in PoolState /\ Len(s.array) = Len(list) /\ s.live <= Len(list) /\ Closes(s.conn)
      /\ MaxConns <= 2 /\ PoolInv => TurnInv(s, i - 1)
  BY DEF After
<1>3. s.array[i] \in Created /\ s.array[i] \in Conns
  BY <1>1, <1>2 DEF PoolState, Created
<1>4. ASSUME MaxConns <= 2, PoolInv
      PROVE  /\ s.array[i] = list[i] /\ TurnInv(s, i - 1)
             /\ Met(i) = Met(i - 1) \cup {list[i]} /\ list[i] \notin Met(i - 1)
             /\ conn[list[i]].created /\ Listed(list[i])
             /\ IsFiniteSet(GoneBy(s, i - 1)) /\ list[i] \notin GoneBy(s, i - 1)
  <2>1. TurnInv(s, i - 1)
    BY <1>2, <1>4
  <2>2. s.array[i] = list[i]
    <3>1. Len(list) <= 2
      BY <1>1, <1>4, BoundsAssumption DEF PoolInv, CountInv
    <3>2. CASE i = 1
      BY <2>1, <3>2 DEF TurnInv
    <3>3. CASE i # 1
      <4>1. i = Len(list)
        BY <1>1, <3>1, <3>3
      <4> QED
        BY <1>1, <2>1, <4>1 DEF TurnInv
    <3> QED
      BY <3>2, <3>3
  <2>3. Met(i) = Met(i - 1) \cup {list[i]}
    BY DEF Met
  <2>4. list[i] \notin Met(i - 1)
    <3>1. \A j \in 1 .. i - 1 : j \in 1 .. Len(list) /\ j # i
      BY <1>1
    <3> QED
      BY <1>4, <3>1 DEF Met, PoolInv, CountInv, Distinct
  <2>5. conn[list[i]].created /\ Listed(list[i])
    BY <1>1 DEF UseInv, TypeInv, Created, Listed, Contains
  <2>6. \A j \in 1 .. i - 1 : list[j] \in Created
    BY <1>1 DEF UseInv, TypeInv
  <2>7. GoneBy(s, i - 1) \subseteq Created
    BY <2>6 DEF GoneBy, Gone, Met
  <2>8. IsFiniteSet(GoneBy(s, i - 1))
    BY <1>4, <2>7, FS_Subset DEF PoolInv, CountInv
  <2>9. list[i] \notin GoneBy(s, i - 1)
    BY <2>4, <2>5 DEF GoneBy, Gone
  <2> QED
    BY <2>1, <2>2, <2>3, <2>4, <2>5, <2>8, <2>9
<1> QED
  BY <1>1, <1>2, <1>3, <1>4

\* A turn that destroys the connection it looks at, or finds it in use.
LEMMA DestroyTurn ==
    ASSUME UseInv, NEW failures, NEW i \in 1 .. Len(list), NEW s \in After(i - 1)
    PROVE  LET d == DestroyConnectionLocked(s, s.array[i], failures) IN
           d \in After(i) /\ d.kept = s.kept
<1> DEFINE c == s.array[i]
           d == DestroyConnectionLocked(s, c, failures)
<1>1. /\ c \in Conns /\ s \in PoolState /\ Len(s.array) = Len(list)
      /\ s.live <= Len(s.array) /\ Closes(s.conn) /\ Len(list) \in Nat \ {0}
  BY TurnLooksAt
<1> HIDE DEF c
<1>2. /\ d \in PoolState /\ d.kept = s.kept
      /\ d.conn = IF s.conn[c].inUse THEN s.conn ELSE [s.conn EXCEPT ![c].link = "none"]
      /\ Len(d.array) = Len(s.array) /\ d.live <= s.live
      /\ Len(s.array) # 0 => d.array[Len(s.array)] = s.array[Len(s.array)]
      /\ \/ d.destroyed = s.destroyed
         \/ d.destroyed = s.destroyed + 1 /\ ~ s.conn[c].inUse
  <2> HIDE DEF d
  <2>1. /\ d \in PoolState /\ d.kept = s.kept
        /\ d.conn = IF s.conn[c].inUse THEN s.conn ELSE [s.conn EXCEPT ![c].link = "none"]
        /\ Len(d.array) = Len(s.array) /\ d.live <= s.live
        /\ Len(s.array) # 0 => d.array[Len(s.array)] = s.array[Len(s.array)]
        /\ \/ d.destroyed = s.destroyed /\ Live(d) = Live(s)
           \/ /\ d.destroyed = s.destroyed + 1 /\ ~ s.conn[c].inUse
              /\ Distinct(Live(s)) => /\ Distinct(Live(d))
                                      /\ ToSet(Live(d)) = ToSet(Live(s)) \ {c}
    BY <1>1, DestroyFacts DEF d
  <2> QED
    BY <2>1
<1>3. ASSUME MaxConns <= 2, PoolInv
      PROVE  /\ c = list[i] /\ TurnInv(s, i - 1)
             /\ Met(i) = Met(i - 1) \cup {c} /\ c \notin Met(i - 1)
             /\ IsFiniteSet(GoneBy(s, i - 1)) /\ c \notin GoneBy(s, i - 1)
  BY <1>3, TurnLooksAt DEF c
<1> HIDE DEF d
<1>4. d.live <= Len(list)
  BY <1>1, <1>2 DEF PoolState
<1>5. s.conn \in [Conns -> Connection] /\ s.conn[c].inUse = conn[c].inUse
  BY <1>1 DEF Closes
<1>6. /\ d.conn \in [Conns -> Connection]
      /\ \A x \in Conns : /\ d.conn[x].inUse = s.conn[x].inUse
                          /\ d.conn[x].created = s.conn[x].created
                          /\ d.conn[x].link \in {s.conn[x].link, "none"}
      /\ s.conn[c].inUse \/ d.conn[c].link = "none"
  <2>1. CASE s.conn[c].inUse
    BY <1>2, <1>5, <2>1
  <2>2. CASE ~ s.conn[c].inUse
    <3> DEFINE r == [s.conn[c] EXCEPT !.link = "none"]
    <3>1. /\ r \in Connection /\ r.inUse = s.conn[c].inUse /\ r.created = s.conn[c].created
          /\ r.link = "none"
      BY <1>1, <1>5 DEF Connection
    <3>2. d.conn = [s.conn EXCEPT ![c] = r]
      BY <1>2, <2>2
    <3> HIDE DEF r
    <3> QED
      BY <1>1, <1>5, <3>1, <3>2
  <2> QED
    BY <2>1, <2>2
<1>7. Closes(d.conn)
  BY <1>1, <1>6 DEF Closes
<1>8. ASSUME MaxConns <= 2, PoolInv PROVE TurnInv(d, i)
  <2>1. /\ c = list[i] /\ TurnInv(s, i - 1)
        /\ Met(i) = Met(i - 1) \cup {c} /\ c \notin Met(i - 1)
        /\ IsFiniteSet(GoneBy(s, i - 1)) /\ c \notin GoneBy(s, i - 1)
    BY <1>3, <1>8
  <2>2. /\ Len(list) # 0 => d.array[Len(list)] = list[Len(list)]
        /\ i # 0
    BY <1>1, <1>2, <2>1 DEF TurnInv
  <2>3. /\ Distinct(d.kept) /\ ToSet(d.kept) \subseteq Met(i) /\ Len(d.kept) <= i
        /\ c \notin ToSet(s.kept)
    <3>1. Len(s.kept) \in Nat
      BY <1>1 DEF PoolState
    <3> QED
      BY <1>1, <1>2, <2>1, <3>1 DEF TurnInv
  <2>4. \A x \in Met(i) : x \in ToSet(d.kept) \/ conn[x].inUse \/ d.conn[x].link = "none"
    <3>1. \A x \in Met(i - 1) : x \in Conns
      BY <1>1, <1>8 DEF Met, UseInv, TypeInv, Created
    <3>2. \A x \in Met(i - 1) : x \in ToSet(d.kept) \/ conn[x].inUse \/ d.conn[x].link = "none"
      BY <1>2, <1>6, <2>1, <3>1 DEF TurnInv
    <3> QED
      BY <1>5, <1>6, <2>1, <3>2
  <2>5. d.destroyed <= Cardinality(GoneBy(d, i))
    <3>1. s.destroyed \in Nat /\ s.destroyed <= Cardinality(GoneBy(s, i - 1))
          /\ Cardinality(GoneBy(s, i - 1)) \in Nat
      BY <1>1, <2>1, FS_CardinalityType DEF TurnInv, PoolState
    <3>2. CASE conn[c].inUse
      <4>1. GoneBy(d, i) = GoneBy(s, i - 1) /\ d.destroyed = s.destroyed
        BY <1>2, <1>5, <2>1, <3>2 DEF GoneBy
      <4> QED
        BY <3>1, <4>1
    <3>3. CASE ~ conn[c].inUse
      <4>1. GoneBy(d, i) = GoneBy(s, i - 1) \cup {c}
        BY <1>2, <2>1, <2>3, <3>3 DEF GoneBy
      <4>2. Cardinality(GoneBy(d, i)) = Cardinality(GoneBy(s, i - 1)) + 1
        BY <2>1, <4>1, FS_AddElement
      <4> QED
        BY <1>2, <3>1, <4>2
    <3> QED
      BY <3>2, <3>3
  <2> QED
    BY <2>2, <2>3, <2>4, <2>5 DEF TurnInv
<1> QED
  BY <1>1, <1>2, <1>4, <1>7, <1>8 DEF After, d, c

\* A turn that keeps the connection it looks at.
LEMMA KeepTurn ==
    ASSUME UseInv, NEW i \in 1 .. Len(list), NEW s \in After(i - 1)
    PROVE  [s EXCEPT !.kept = Append(@, s.array[i])] \in After(i)
<1> DEFINE c == s.array[i]
           d == [s EXCEPT !.kept = Append(@, c)]
<1>1. /\ c \in Conns /\ c \in Created /\ s \in PoolState /\ Len(s.array) = Len(list)
      /\ s.live <= Len(s.array) /\ Closes(s.conn) /\ Len(list) \in Nat \ {0}
  BY TurnLooksAt
<1>2. ASSUME MaxConns <= 2, PoolInv
      PROVE  /\ c = list[i] /\ TurnInv(s, i - 1)
             /\ Met(i) = Met(i - 1) \cup {c} /\ c \notin Met(i - 1)
  BY <1>2, TurnLooksAt
<1> HIDE DEF c
<1>3. /\ d \in PoolState /\ d.kept = Append(s.kept, c) /\ d.conn = s.conn
      /\ d.array = s.array /\ d.live = s.live /\ d.destroyed = s.destroyed
  <2> DEFINE k == Append(s.kept, c)
  <2>1. k \in Seq(Created)
    BY <1>1 DEF PoolState
  <2>2. d = [s EXCEPT !.kept = k]
    OBVIOUS
  <2> HIDE DEF k, d
  <2>3. /\ d.kept = k /\ d.conn = s.conn /\ d.array = s.array /\ d.live = s.live
        /\ d.destroyed = s.destroyed /\ d \in PoolState
    BY <1>1, <2>1, <2>2 DEF PoolState
  <2> QED
    BY <2>3 DEF k
<1> HIDE DEF d
<1>4. /\ s.kept \in Seq(Created) /\ Len(d.kept) = Len(s.kept) + 1 /\ Len(s.kept) \in Nat
      /\ \A j \in 1 .. Len(s.kept) : d.kept[j] = s.kept[j]
      /\ d.kept[Len(s.kept) + 1] = c
      /\ DOMAIN s.kept = 1 .. Len(s.kept) /\ DOMAIN d.kept = 1 .. Len(s.kept) + 1
  BY <1>1, <1>3 DEF PoolState
<1>5. ToSet(d.kept) = ToSet(s.kept) \cup {c}
  <2>1. \A j \in 1 .. Len(s.kept) + 1 : j \in 1 .. Len(s.kept) \/ j = Len(s.kept) + 1
    BY <1>4
  <2>2. Len(s.kept) + 1 \in 1 .. Len(s.kept) + 1 /\ \A j \in 1 .. Len(s.kept) : j \in 1 .. Len(s.kept) + 1
    BY <1>4
  <2> QED
    BY <1>4, <2>1, <2>2 DEF ToSet
<1>6. ASSUME MaxConns <= 2, PoolInv PROVE TurnInv(d, i)
  <2>1. /\ c = list[i] /\ TurnInv(s, i - 1)
        /\ Met(i) = Met(i - 1) \cup {c} /\ c \notin Met(i - 1)
    BY <1>2, <1>6
  <2>2. c \notin ToSet(s.kept)
    BY <2>1 DEF TurnInv
  <2>3. Distinct(d.kept)
    <3>1. \A j \in 1 .. Len(s.kept) : s.kept[j] # c
      BY <1>4, <2>2 DEF ToSet
    <3>2. \A x, y \in 1 .. Len(s.kept) : s.kept[x] = s.kept[y] => x = y
      BY <2>1 DEF TurnInv, Distinct
    <3>3. \A x \in 1 .. Len(d.kept) : x \in 1 .. Len(s.kept) \/ x = Len(d.kept)
      BY <1>4
    <3>4. d.kept[Len(d.kept)] = c
      BY <1>4
    <3> QED
      BY <1>4, <3>1, <3>2, <3>3, <3>4 DEF Distinct
  <2>4. GoneBy(d, i) = GoneBy(s, i - 1)
    BY <1>5, <2>1 DEF GoneBy
  <2>5. Len(d.kept) <= i /\ i # 0
    BY <1>4, <2>1 DEF TurnInv
  <2>6. Len(list) # 0 => d.array[Len(list)] = list[Len(list)]
    BY <1>3, <2>1 DEF TurnInv
  <2>7. ToSet(d.kept) \subseteq Met(i)
    BY <1>5, <2>1 DEF TurnInv
  <2>8. \A x \in Met(i) : x \in ToSet(d.kept) \/ conn[x].inUse \/ d.conn[x].link = "none"
    BY <1>3, <1>5, <2>1 DEF TurnInv
  <2>9. d.destroyed <= Cardinality(GoneBy(d, i))
    BY <1>3, <2>1, <2>4 DEF TurnInv
  <2> QED
    BY <2>3, <2>5, <2>6, <2>7, <2>8, <2>9 DEF TurnInv
<1> QED
  BY <1>1, <1>3, <1>6 DEF After, d, c

-----------------------------------------------------------------------------
\* What Close returns with: nothing is kept.
ClosedTo(i) == {s \in After(i) : s.kept = <<>>}

\* Close ends its loop in such a pool.
LEMMA ClosedFacts ==
    ASSUME UseInv, NEW failures
    PROVE  Closed(failures) \in ClosedTo(Len(list))
<1> DEFINE n == Len(list)
           S == [i \in 0 .. n |-> ClosedTo(i)]
           base == Pool(list, conn)
           turn == [x \in PoolState \X (1 .. n) |->
                       DestroyConnectionLocked(x[1], x[1].array[x[2]], failures)]
           IsLoop(h) == h = [i \in 0 .. n |->
                               IF i = 0 THEN base
                               ELSE DestroyConnectionLocked(h[i - 1], h[i - 1].array[i], failures)]
<1>1. n \in Nat /\ base \in S[0]
  BY LoopStarts DEF UseInv, TypeInv, ClosedTo
<1>2. ASSUME NEW i \in 1 .. n, NEW s \in S[i - 1]
      PROVE  /\ turn[<<s, i>>] = DestroyConnectionLocked(s, s.array[i], failures)
             /\ turn[<<s, i>>] \in S[i]
  <2>0. i - 1 \in 0 .. n /\ i \in 0 .. n
    BY <1>1
  <2>1. s \in After(i - 1) /\ s.kept = <<>> /\ s \in PoolState
    BY <2>0 DEF ClosedTo, After
  <2> HIDE DEF S
  <2>2. turn[<<s, i>>] = DestroyConnectionLocked(s, s.array[i], failures)
    BY <2>1
  <2>3. /\ DestroyConnectionLocked(s, s.array[i], failures) \in After(i)
        /\ DestroyConnectionLocked(s, s.array[i], failures).kept = s.kept
    BY <2>1, DestroyTurn
  <2> HIDE DEF turn
  <2>4. S[i] = ClosedTo(i)
    BY <2>0 DEF S
  <2> QED
    BY <2>1, <2>2, <2>3, <2>4 DEF ClosedTo
<1> HIDE DEF base, turn, S
<1>3. PICK g : /\ g = [i \in 0 .. n |-> IF i = 0 THEN base ELSE turn[<<g[i - 1], i>>]]
               /\ \A i \in 0 .. n : g[i] \in S[i]
  <2>1. Turns(n, S, base, turn)
    BY <1>1, <1>2 DEF Turns
  <2>2. \E g : RunOf(g, n, S, base, turn)
    BY <1>1, <2>1, LoopRuns
  <2> QED
    BY <2>2 DEF RunOf

<1>4. \A i \in 0 .. n : g[i] = IF i = 0 THEN base
                               ELSE DestroyConnectionLocked(g[i - 1], g[i - 1].array[i], failures)
  <2> TAKE i \in 0 .. n
  <2>1. g[i] = IF i = 0 THEN base ELSE turn[<<g[i - 1], i>>]
    BY <1>3
  <2>2. CASE i = 0
    BY <2>1, <2>2
  <2>3. CASE i # 0
    <3>1. i \in 1 .. n /\ i - 1 \in 0 .. n
      BY <1>1, <2>3
    <3>2. g[i - 1] \in S[i - 1]
      BY <1>3, <3>1
    <3>3. turn[<<g[i - 1], i>>] = DestroyConnectionLocked(g[i - 1], g[i - 1].array[i], failures)
      BY <1>2, <3>1, <3>2
    <3> QED
      BY <2>1, <2>3, <3>3
  <2> QED
    BY <2>2, <2>3
<1>5. IsLoop(g)
  <2>1. g = [i \in 0 .. n |-> g[i]]
    BY <1>3
  <2> QED
    BY <1>4, <2>1
<1>6. Closed(failures) = (CHOOSE h : IsLoop(h))[n]
  BY DEF Closed, base
<1> DEFINE loop == CHOOSE h : IsLoop(h)
<1>7. IsLoop(loop)
  <2> HIDE DEF IsLoop
  <2> QED
    BY <1>5
<1> HIDE DEF loop
<1>8. loop[0] = base /\ 0 \in 0 .. n
  BY <1>1, <1>7
<1>9. ASSUME NEW i \in 1 .. n, loop[i - 1] \in S[i - 1]
      PROVE  loop[i] \in S[i]
  <2>1. i \in 0 .. n /\ i # 0
    BY <1>1
  <2>2. loop[i] = DestroyConnectionLocked(loop[i - 1], loop[i - 1].array[i], failures)
    BY <1>7, <2>1
  <2> QED
    BY <1>2, <1>9, <2>2
<1>10. loop[n] \in S[n]
  <2> HIDE DEF IsLoop
  <2> QED
    BY <1>1, <1>8, <1>9, LoopKeeps
<1> QED
  BY <1>1, <1>6, <1>10 DEF loop, S

\* CleanupIdleConnections keeps what is in use.
CleanedTo(i) == {s \in After(i) :
                    MaxConns <= 2 /\ PoolInv =>
                        \A c \in Met(i) : conn[c].inUse => c \in ToSet(s.kept)}

\* A turn of its loop, which destroys the connection or keeps it.
LEMMA CleanTurn ==
    ASSUME UseInv, NEW failures, NEW i \in 1 .. Len(list), NEW s \in CleanedTo(i - 1)
    PROVE  CleanOne(s, s.array[i], failures) \in CleanedTo(i)
<1> DEFINE c == s.array[i]
           d == CleanOne(s, c, failures)
<1>0. s \in After(i - 1)
  BY DEF CleanedTo
<1>1. c \in Conns /\ s \in PoolState /\ Closes(s.conn)
  BY <1>0, TurnLooksAt
<1>2. s.conn[c].inUse = conn[c].inUse
  BY <1>1 DEF Closes
<1>3. ASSUME MaxConns <= 2, PoolInv
      PROVE  /\ Met(i) = Met(i - 1) \cup {c}
             /\ \A x \in Met(i - 1) : conn[x].inUse => x \in ToSet(s.kept)
  <2>1. Met(i) = Met(i - 1) \cup {c}
    BY <1>0, <1>3, TurnLooksAt
  <2> QED
    BY <1>3, <2>1 DEF CleanedTo
<1>4. CASE ToClean(s.conn, c)
  <2>1. d = DestroyConnectionLocked(s, c, failures) /\ ~ conn[c].inUse
    BY <1>2, <1>4 DEF CleanOne, ToClean
  <2> HIDE DEF d
  <2>2. d \in After(i) /\ d.kept = s.kept
    BY <1>0, <2>1, DestroyTurn
  <2> HIDE DEF c
  <2> QED
    BY <1>3, <2>1, <2>2 DEF CleanedTo, d, c
<1>5. CASE ~ ToClean(s.conn, c)
  <2> DEFINE k == Append(s.kept, c)
  <2>1. d = [s EXCEPT !.kept = Append(@, c)]
    BY <1>5 DEF CleanOne
  <2> HIDE DEF d
  <2>2. d \in After(i)
    BY <1>0, <2>1, KeepTurn
  <2>3. d.kept = k
    BY <1>1, <2>1 DEF PoolState
  <2>4. s.kept \in Seq(Created)
    BY <1>1 DEF PoolState
  <2> HIDE DEF c
  <2>5. /\ Len(k) = Len(s.kept) + 1 /\ Len(s.kept) \in Nat /\ k[Len(s.kept) + 1] = c
        /\ \A j \in 1 .. Len(s.kept) : k[j] = s.kept[j]
        /\ DOMAIN s.kept = 1 .. Len(s.kept) /\ DOMAIN k = 1 .. Len(s.kept) + 1
    BY <1>1, <2>4
  <2> HIDE DEF k
  <2>6. ToSet(s.kept) \subseteq ToSet(k) /\ c \in ToSet(k)
    <3>1. \A j \in 1 .. Len(s.kept) : j \in 1 .. Len(s.kept) + 1
      BY <2>5
    <3>2. Len(s.kept) + 1 \in 1 .. Len(s.kept) + 1
      BY <2>5
    <3> QED
      BY <2>5, <3>1, <3>2 DEF ToSet
  <2> QED
    BY <1>3, <2>2, <2>3, <2>6 DEF CleanedTo, d, c
<1> QED
  BY <1>4, <1>5

\* ... and ends its loop in such a pool.
LEMMA CleanedFacts ==
    ASSUME UseInv, NEW failures
    PROVE  Cleaned(failures) \in CleanedTo(Len(list))
<1> DEFINE n == Len(list)
           S == [i \in 0 .. n |-> CleanedTo(i)]
           base == Pool(list, conn)
           turn == [x \in PoolState \X (1 .. n) |->
                       CleanOne(x[1], x[1].array[x[2]], failures)]
           IsLoop(h) == h = [i \in 0 .. n |->
                               IF i = 0 THEN base
                               ELSE CleanOne(h[i - 1], h[i - 1].array[i], failures)]
<1>1. n \in Nat /\ base \in S[0]
  <2>1. n \in Nat /\ base \in After(0)
    BY LoopStarts DEF UseInv, TypeInv
  <2>2. Met(0) = {}
    BY DEF Met
  <2> QED
    BY <2>1, <2>2 DEF CleanedTo
<1>2. ASSUME NEW i \in 1 .. n, NEW s \in S[i - 1]
      PROVE  /\ turn[<<s, i>>] = CleanOne(s, s.array[i], failures)
             /\ turn[<<s, i>>] \in S[i]
  <2>0. i - 1 \in 0 .. n /\ i \in 0 .. n
    BY <1>1
  <2>1. s \in CleanedTo(i - 1) /\ s \in PoolState
    BY <2>0 DEF CleanedTo, After
  <2> HIDE DEF S
  <2>2. turn[<<s, i>>] = CleanOne(s, s.array[i], failures)
    BY <2>1
  <2>3. CleanOne(s, s.array[i], failures) \in CleanedTo(i)
    BY <2>1, CleanTurn
  <2> HIDE DEF turn
  <2>4. S[i] = CleanedTo(i)
    BY <2>0 DEF S
  <2> QED
    BY <2>2, <2>3, <2>4
<1> HIDE DEF base, turn, S
<1>3. PICK g : /\ g = [i \in 0 .. n |-> IF i = 0 THEN base ELSE turn[<<g[i - 1], i>>]]
               /\ \A i \in 0 .. n : g[i] \in S[i]
  <2>1. Turns(n, S, base, turn)
    BY <1>1, <1>2 DEF Turns
  <2>2. \E g : RunOf(g, n, S, base, turn)
    BY <1>1, <2>1, LoopRuns
  <2> QED
    BY <2>2 DEF RunOf

<1>4. \A i \in 0 .. n : g[i] = IF i = 0 THEN base
                               ELSE CleanOne(g[i - 1], g[i - 1].array[i], failures)
  <2> TAKE i \in 0 .. n
  <2>1. g[i] = IF i = 0 THEN base ELSE turn[<<g[i - 1], i>>]
    BY <1>3
  <2>2. CASE i = 0
    BY <2>1, <2>2
  <2>3. CASE i # 0
    <3>1. i \in 1 .. n /\ i - 1 \in 0 .. n
      BY <1>1, <2>3
    <3>2. g[i - 1] \in S[i - 1]
      BY <1>3, <3>1
    <3>3. turn[<<g[i - 1], i>>] = CleanOne(g[i - 1], g[i - 1].array[i], failures)
      BY <1>2, <3>1, <3>2
    <3> QED
      BY <2>1, <2>3, <3>3
  <2> QED
    BY <2>2, <2>3
<1>5. IsLoop(g)
  <2>1. g = [i \in 0 .. n |-> g[i]]
    BY <1>3
  <2> QED
    BY <1>4, <2>1
<1>6. Cleaned(failures) = (CHOOSE h : IsLoop(h))[n]
  BY DEF Cleaned, base
<1> DEFINE loop == CHOOSE h : IsLoop(h)
<1>7. IsLoop(loop)
  <2> HIDE DEF IsLoop
  <2> QED
    BY <1>5
<1> HIDE DEF loop
<1>8. loop[0] = base /\ 0 \in 0 .. n
  BY <1>1, <1>7
<1>9. ASSUME NEW i \in 1 .. n, loop[i - 1] \in S[i - 1]
      PROVE  loop[i] \in S[i]
  <2>1. i \in 0 .. n /\ i # 0
    BY <1>1
  <2>2. loop[i] = CleanOne(loop[i - 1], loop[i - 1].array[i], failures)
    BY <1>7, <2>1
  <2> QED
    BY <1>2, <1>9, <2>2
<1>10. loop[n] \in S[n]
  <2> HIDE DEF IsLoop
  <2> QED
    BY <1>1, <1>8, <1>9, LoopKeeps
<1> QED
  BY <1>1, <1>6, <1>10 DEF loop, S

-----------------------------------------------------------------------------
(* The steps that leave the list and the counter alone.                    *)

\* Get takes the first connection that can be used again, if there is one.
LEMMA FirstIsReusable ==
    ASSUME UseInv, FirstReusable # 0
    PROVE  FirstReusable \in 1 .. Len(list) /\ Reusable(list[FirstReusable])
<1> DEFINE I == {i \in 1 .. Len(list) : Reusable(list[i])}
<1>1. I \in SUBSET Nat
  BY DEF UseInv, TypeInv
<1>2. FirstReusable = IF I # {} THEN Min(I) ELSE 0
  BY DEF FirstReusable, SelectInSeq
<1>3. I # {} => Min(I) \in I
  <2> SUFFICES ASSUME I # {} PROVE Min(I) \in I
    OBVIOUS
  <2> HIDE DEF I
  <2>1. \E x \in I : \A y \in I : x <= y
    BY <1>1, SmallestOf
  <2> QED
    BY <2>1 DEF Min
<1> QED
  BY <1>2, <1>3

\* What the list holds are connections.
LEMMA ListedConns ==
    ASSUME UseInv
    PROVE  /\ list \in Seq(Created) /\ Len(list) \in Nat
           /\ \A i \in 1 .. Len(list) : /\ list[i] \in Created /\ list[i] \in Conns
                                        /\ conn[list[i]].created /\ Listed(list[i])
<1>1. list \in Seq(Created)
  BY DEF UseInv, TypeInv
<1>2. \A i \in 1 .. Len(list) : list[i] \in Created
  BY <1>1
<1> QED
  BY <1>1, <1>2 DEF Created, Listed, Contains

\* An idle client gets a connection nobody uses.
LEMMA HandKeepsUse ==
    ASSUME UseInv, NEW k \in Clients, client[k].stage = "idle", NEW c \in Conns,
           ~ conn[c].inUse, Hand(k, c), conn' \in [Conns -> Connection],
           conn'[c].inUse, conn'[c].created, \A x \in Conns \ {c} : conn'[x] = conn[x],
           list' \in Seq(Created'), UNCHANGED <<destroyed, orphans>>
    PROVE  UseInv'
<1>1. client \in [Clients -> ClientState] /\ client[k].conn = NoConn
  BY DEF UseInv, TypeInv
<1>2. /\ client' \in [Clients -> ClientState]
      /\ client'[k].stage = "using" /\ client'[k].conn = c
      /\ \A l \in Clients \ {k} : client'[l] = client[l]
  BY <1>1 DEF Hand, ClientState
<1>3. c # NoConn /\ \A l \in Clients : client[l].conn # c
  BY NoConnAssumption DEF UseInv, ExclusiveUse, Held
<1>4. TypeInv'
  BY <1>2, <1>3 DEF UseInv, TypeInv
<1>5. \A l, m \in Clients : client'[l].conn = client'[m].conn /\ l # m => client'[l].conn = NoConn
  <2>1. \A l, m \in Clients : client[l].conn = client[m].conn /\ l # m => client[l].conn = NoConn
    BY DEF UseInv, ExclusiveUse
  <2> TAKE l, m \in Clients
  <2> HAVE client'[l].conn = client'[m].conn /\ l # m
  <2>2. CASE l = k
    BY <1>2, <1>3, <2>2
  <2>3. CASE m = k
    BY <1>2, <1>3, <2>3
  <2>4. CASE l # k /\ m # k
    BY <1>2, <2>1, <2>4
  <2> QED
    BY <2>2, <2>3, <2>4
<1>6. ASSUME NEW x \in Conns PROVE conn'[x].inUse <=> Held(x)'
  <2>1. CASE x = c
    BY <1>2, <2>1 DEF Held
  <2>2. CASE x # c
    <3>1. conn'[x].inUse <=> Held(x)
      BY <2>2 DEF UseInv, ExclusiveUse
    <3>2. Held(x) <=> Held(x)'
      BY <1>1, <1>2, <2>2, NoConnAssumption DEF Held
    <3> QED
      BY <3>1, <3>2
  <2> QED
    BY <2>1, <2>2
<1> QED
  BY <1>4, <1>5, <1>6 DEF UseInv, ExclusiveUse

\* What changes neither who holds what nor the marks keeps the marks right.
LEMMA SameUse ==
    ASSUME UseInv, conn' \in [Conns -> Connection], list' \in Seq(Created),
           destroyed' \in Nat, orphans' \subseteq Conns,
           \A c \in Conns : conn'[c].inUse = conn[c].inUse /\ conn'[c].created = conn[c].created,
           client' \in [Clients -> ClientState],
           \A k \in Clients : /\ client'[k].conn = client[k].conn
                              /\ client'[k].stage = "idle" <=> client[k].stage = "idle"
    PROVE  UseInv'
<1>1. Created' = Created
  BY DEF Created
<1>2. TypeInv'
  BY <1>1 DEF UseInv, TypeInv
<1>3. \A c \in Conns : Held(c)' <=> Held(c)
  BY DEF Held
<1>4. ExclusiveUse'
  BY <1>3 DEF UseInv, ExclusiveUse
<1> QED
  BY <1>2, <1>4 DEF UseInv

\* Nor does what keeps the list, and what is open and nobody uses, change what
\* the pool counts.
LEMMA SameCounts ==
    ASSUME UseInv, CountInv, KeepInv, UNCHANGED <<list, destroyed, orphans>>,
           \A c \in Conns :
              /\ conn'[c].inUse = conn[c].inUse /\ conn'[c].created = conn[c].created
              /\ conn[c].inUse \/ (conn'[c].link = "none" <=> conn[c].link = "none")
    PROVE  CountInv' /\ KeepInv'
<1>2. Created' = Created
  BY DEF Created
<1>3. Gone' = Gone /\ OpenIdle' = OpenIdle
  BY <1>2 DEF Gone, OpenIdle, Listed, Created
<1>4. KeepInv'
  BY DEF KeepInv, Listed
<1> QED
  BY <1>2, <1>3, <1>4 DEF CountInv

\* Get of a connection that is in the list.
LEMMA ReuseStep ==
    ASSUME UseInv, NEW k \in Clients, Reuse(k)
    PROVE  UseInv' /\ (CountInv /\ KeepInv => CountInv' /\ KeepInv')
<1> DEFINE c == list[FirstReusable]
           r == [conn[c] EXCEPT !.inUse = TRUE, !.expired = FALSE]
<1>1. c \in Conns /\ Listed(c) /\ conn[c].created /\ ~ conn[c].inUse /\ conn[c].link = "live"
  BY FirstIsReusable, ListedConns DEF Reuse, Reusable, Healthy
<1>2. conn \in [Conns -> Connection] /\ conn[c] \in Connection
  BY <1>1 DEF UseInv, TypeInv
<1>3. conn' = [conn EXCEPT ![c] = r] /\ Hand(k, c) /\ client[k].stage = "idle"
      /\ UNCHANGED <<list, destroyed, orphans>>
  BY <1>1, <1>2 DEF Reuse
<1>4. r \in Connection /\ r.inUse = TRUE /\ r.created = conn[c].created /\ r.link = "live"
  BY <1>1, <1>2 DEF Connection
<1> HIDE DEF r, c
<1>5. /\ conn' \in [Conns -> Connection] /\ conn'[c] = r
      /\ \A x \in Conns \ {c} : conn'[x] = conn[x]
  BY <1>1, <1>2, <1>3, <1>4
<1>6. Created' = Created
  BY <1>4, <1>5 DEF Created
<1>7. CountInv /\ KeepInv => CountInv' /\ KeepInv'
  <2> SUFFICES ASSUME CountInv, KeepInv PROVE CountInv' /\ KeepInv'
    OBVIOUS
  <2>3. Gone' = Gone
    BY <1>1, <1>3, <1>5, <1>6 DEF Gone, Listed, Created
  <2>4. OpenIdle' = OpenIdle \ {c}
    BY <1>3, <1>4, <1>5, <1>6 DEF OpenIdle, Listed, Created
  <2>5. IsFiniteSet(OpenIdle)
    BY FS_Subset DEF CountInv, OpenIdle
  <2>6. Cardinality(OpenIdle') <= Cardinality(OpenIdle) /\ Cardinality(OpenIdle') \in Nat
        /\ Cardinality(OpenIdle) \in Nat
    BY <2>4, <2>5, FS_Subset, FS_CardinalityType
  <2>7. KeepInv'
    BY <1>1, <1>3, <1>5 DEF KeepInv, Listed
  <2> QED
    BY <1>3, <1>6, <2>3, <2>6, <2>7, BoundsAssumption DEF CountInv
<1>8. list' \in Seq(Created')
  BY <1>3, <1>6, ListedConns
<1>9. UseInv'
  BY <1>1, <1>3, <1>4, <1>5, <1>8, HandKeepsUse
<1> QED
  BY <1>7, <1>9

\* A new connection joins the list, in use.
LEMMA CreateStep ==
    ASSUME UseInv, NEW k \in Clients, Create(k)
    PROVE  UseInv' /\ (CountInv /\ KeepInv => CountInv' /\ KeepInv')
<1>1. PICK c \in Conns : /\ ~ conn[c].created /\ list' = Append(list, c) /\ Hand(k, c)
                         /\ conn' = [conn EXCEPT ![c].created = TRUE, ![c].inUse = TRUE]
  BY DEF Create
<1>2. Len(list) < MaxConns /\ client[k].stage = "idle" /\ UNCHANGED <<destroyed, orphans>>
  BY DEF Create
<1>3. conn \in [Conns -> Connection] /\ ~ conn[c].inUse
  BY <1>1 DEF UseInv, TypeInv
<1> DEFINE r == [conn[c] EXCEPT !.created = TRUE, !.inUse = TRUE]
<1>4. r \in Connection /\ r.inUse = TRUE /\ r.created = TRUE
  BY <1>3 DEF Connection
<1>5. conn' = [conn EXCEPT ![c] = r]
  BY <1>1, <1>3
<1> HIDE DEF r
<1>6. /\ conn' \in [Conns -> Connection] /\ conn'[c] = r
      /\ \A x \in Conns \ {c} : conn'[x] = conn[x]
  BY <1>3, <1>4, <1>5
<1>7. Created' = Created \cup {c} /\ c \notin Created
  BY <1>1, <1>4, <1>6 DEF Created
<1>8. /\ list \in Seq(Created) /\ list \in Seq(Created') /\ list' \in Seq(Created')
      /\ Len(list') = Len(list) + 1 /\ Len(list) \in Nat /\ list'[Len(list) + 1] = c
      /\ \A i \in 1 .. Len(list) : list'[i] = list[i] /\ list[i] \in Created
  BY <1>1, <1>7, ListedConns
<1>9. UseInv'
  BY <1>1, <1>2, <1>3, <1>4, <1>6, <1>8, HandKeepsUse
<1>10. \A x \in Conns : Listed(x)' <=> Listed(x) \/ x = c
  <2>1. \A i \in 1 .. Len(list') : i \in 1 .. Len(list) \/ i = Len(list) + 1
    BY <1>8
  <2>2. Len(list) + 1 \in 1 .. Len(list') /\ \A i \in 1 .. Len(list) : i \in 1 .. Len(list')
    BY <1>8
  <2> QED
    BY <1>8, <2>1, <2>2 DEF Listed, Contains
<1>11. ASSUME CountInv, KeepInv PROVE CountInv' /\ KeepInv'
  <2>1. Gone' = Gone
    BY <1>4, <1>6, <1>7, <1>10 DEF Gone, Created
  <2>2. OpenIdle' = OpenIdle
    BY <1>4, <1>6, <1>7, <1>10 DEF OpenIdle, Created
  <2>3. IsFiniteSet(Created')
    BY <1>7, <1>11, FS_AddElement DEF CountInv
  <2>4. Distinct(list')
    <3>1. \A i \in 1 .. Len(list) : list[i] # c
      BY <1>7, <1>8
    <3>2. \A i \in 1 .. Len(list') : i \in 1 .. Len(list) \/ i = Len(list) + 1
      BY <1>8
    <3>3. \A i, j \in 1 .. Len(list) : list[i] = list[j] => i = j
      BY <1>11 DEF CountInv, Distinct
    <3> QED
      BY <1>8, <3>1, <3>2, <3>3 DEF Distinct
  <2>5. Len(list') <= MaxConns
    BY <1>2, <1>8, BoundsAssumption
  <2>6. KeepInv'
    BY <1>2, <1>6, <1>10, <1>11 DEF KeepInv
  <2> QED
    BY <1>2, <1>11, <2>1, <2>2, <2>3, <2>4, <2>5, <2>6 DEF CountInv
<1> QED
  BY <1>9, <1>11

\* What a client does with its connection: the connection is in use.
LEMMA HolderFacts ==
    ASSUME UseInv, NEW k \in Clients, client[k].stage = "using"
    PROVE  client[k].conn \in Conns /\ conn[client[k].conn].inUse
<1>1. client[k] \in ClientState /\ client[k].conn # NoConn
  BY DEF UseInv, TypeInv
<1>2. client[k].conn \in Conns
  BY <1>1 DEF ClientState
<1> QED
  BY <1>2 DEF UseInv, ExclusiveUse, Held

\* Connect opens a connection that is in use, or its client is stuck.
LEMMA ConnectStep ==
    ASSUME UseInv, NEW k \in Clients, Connect(k)
    PROVE  UseInv' /\ (CountInv /\ KeepInv => CountInv' /\ KeepInv')
<1> DEFINE c == client[k].conn
<1>1. /\ client[k].stage = "using" /\ c \in Conns /\ conn[c].inUse
      /\ UNCHANGED <<list, destroyed, orphans>>
  BY HolderFacts DEF Connect
<1>2. /\ conn \in [Conns -> Connection] /\ client \in [Clients -> ClientState]
      /\ list \in Seq(Created) /\ destroyed \in Nat /\ orphans \subseteq Conns
  BY DEF UseInv, TypeInv
<1>3. CASE conn[c].link = "none"
  <2> DEFINE r == [conn[c] EXCEPT !.link = "live"]
  <2>1. r \in Connection /\ r.inUse = conn[c].inUse /\ r.created = conn[c].created
    BY <1>1, <1>2 DEF Connection
  <2>2. conn' = [conn EXCEPT ![c] = r] /\ client' = client
    BY <1>1, <1>2, <1>3 DEF Connect
  <2> HIDE DEF r, c
  <2>3. /\ conn' \in [Conns -> Connection]
        /\ \A x \in Conns :
              /\ conn'[x].inUse = conn[x].inUse /\ conn'[x].created = conn[x].created
              /\ conn[x].inUse \/ (conn'[x].link = "none" <=> conn[x].link = "none")
    BY <1>1, <1>2, <2>1, <2>2
  <2>4. UseInv'
    <3>1. list' \in Seq(Created) /\ destroyed' \in Nat /\ orphans' \subseteq Conns
      BY <1>1, <1>2
    <3> QED
      BY <1>2, <2>2, <2>3, <3>1, SameUse
  <2> QED
    BY <1>1, <2>3, <2>4, SameCounts
<1>4. CASE conn[c].link # "none"
  <2> DEFINE r == [client[k] EXCEPT !.stage = "stuck"]
  <2>1. r \in ClientState /\ r.conn = client[k].conn /\ r.stage = "stuck"
    BY <1>2 DEF ClientState
  <2>2. client' = [client EXCEPT ![k] = r] /\ conn' = conn
    BY <1>1, <1>2, <1>4 DEF Connect
  <2> HIDE DEF r, c
  <2>3. /\ client' \in [Clients -> ClientState]
        /\ \A l \in Clients : /\ client'[l].conn = client[l].conn
                              /\ client'[l].stage = "idle" <=> client[l].stage = "idle"
    BY <1>1, <1>2, <2>1, <2>2
  <2>4. UseInv'
    <3>1. /\ list' \in Seq(Created) /\ destroyed' \in Nat /\ orphans' \subseteq Conns
          /\ conn' \in [Conns -> Connection]
          /\ \A x \in Conns : conn'[x].inUse = conn[x].inUse /\ conn'[x].created = conn[x].created
      BY <1>1, <1>2, <2>2
    <3> QED
      BY <2>3, <3>1, SameUse
  <2> QED
    BY <1>1, <2>2, <2>4, SameCounts
<1> QED
  BY <1>3, <1>4

\* The network and the clock.
LEMMA EnvironmentStep ==
    ASSUME UseInv, NEW c \in Conns, Environment(c)
    PROVE  UseInv' /\ (CountInv /\ KeepInv => CountInv' /\ KeepInv')
<1>1. UNCHANGED <<list, client, destroyed, orphans>>
  BY DEF Environment
<1>2. /\ conn \in [Conns -> Connection] /\ client \in [Clients -> ClientState]
      /\ list \in Seq(Created) /\ destroyed \in Nat /\ orphans \subseteq Conns
  BY DEF UseInv, TypeInv
<1>3. PICK r \in Connection :
         /\ conn' = [conn EXCEPT ![c] = r]
         /\ r.inUse = conn[c].inUse /\ r.created = conn[c].created
         /\ r.link = "none" <=> conn[c].link = "none"
  <2>1. CASE Break(c)
    <3> DEFINE r == [conn[c] EXCEPT !.link = "dead"]
    <3>1. /\ r \in Connection /\ r.inUse = conn[c].inUse /\ r.created = conn[c].created
          /\ r.link = "dead"
      BY <1>2 DEF Connection
    <3>2. conn' = [conn EXCEPT ![c] = r] /\ conn[c].link = "live"
      BY <1>2, <2>1 DEF Break
    <3> HIDE DEF r
    <3> QED
      BY <3>1, <3>2
  <2>2. CASE Age(c)
    <3> DEFINE r == [conn[c] EXCEPT !.old = TRUE]
    <3>1. /\ r \in Connection /\ r.inUse = conn[c].inUse /\ r.created = conn[c].created
          /\ r.link = conn[c].link
      BY <1>2 DEF Connection
    <3>2. conn' = [conn EXCEPT ![c] = r]
      BY <1>2, <2>2 DEF Age
    <3> HIDE DEF r
    <3> QED
      BY <3>1, <3>2
  <2>3. CASE Expire(c)
    <3> DEFINE r == [conn[c] EXCEPT !.expired = TRUE]
    <3>1. /\ r \in Connection /\ r.inUse = conn[c].inUse /\ r.created = conn[c].created
          /\ r.link = conn[c].link
      BY <1>2 DEF Connection
    <3>2. conn' = [conn EXCEPT ![c] = r]
      BY <1>2, <2>3 DEF Expire
    <3> HIDE DEF r
    <3> QED
      BY <3>1, <3>2
  <2> QED
    BY <2>1, <2>2, <2>3 DEF Environment
<1>4. /\ conn' \in [Conns -> Connection]
      /\ \A x \in Conns :
            /\ conn'[x].inUse = conn[x].inUse /\ conn'[x].created = conn[x].created
            /\ conn[x].inUse \/ (conn'[x].link = "none" <=> conn[x].link = "none")
  BY <1>2, <1>3
<1>5. UseInv'
  BY <1>1, <1>2, <1>4, SameUse
<1> QED
  BY <1>1, <1>4, <1>5, SameCounts

-----------------------------------------------------------------------------
(* The steps that may destroy connections.                                 *)

\* The list a pool stands for.
LEMMA LiveFacts ==
    ASSUME NEW s \in PoolState, s.live <= Len(s.array)
    PROVE  /\ Live(s) \in Seq(Created) /\ Len(Live(s)) = s.live
           /\ \A j \in 1 .. s.live : Live(s)[j] = s.array[j]
           /\ \A c \in Conns : c \in ToSet(Live(s)) <=> Contains(Live(s), c)
<1>1. s.array \in Seq(Created) /\ s.live \in Nat
  BY DEF PoolState
<1>2. /\ Live(s) \in Seq(Created) /\ Len(Live(s)) = s.live
      /\ \A j \in 1 .. s.live : Live(s)[j] = s.array[j]
      /\ DOMAIN Live(s) = 1 .. s.live
  BY <1>1 DEF Live
<1> QED
  BY <1>2 DEF ToSet, Contains

\* Fewer connections are open and idle when the open and idle ones were so before.
LEMMA FewerOpen ==
    ASSUME IsFiniteSet(Created), Cardinality(OpenIdle) <= MaxIdle, OpenIdle' \subseteq OpenIdle
    PROVE  Cardinality(OpenIdle') <= MaxIdle
<1>1. IsFiniteSet(OpenIdle)
  BY FS_Subset DEF OpenIdle
<1>2. /\ Cardinality(OpenIdle') <= Cardinality(OpenIdle)
      /\ Cardinality(OpenIdle') \in Nat /\ Cardinality(OpenIdle) \in Nat
  BY <1>1, FS_Subset, FS_CardinalityType
<1> QED
  BY <1>2, BoundsAssumption

\* Close empties the list: what it leaves open was in use.
LEMMA CloseStep ==
    ASSUME UseInv, Close
    PROVE  UseInv' /\ (MaxConns <= 2 /\ CountInv /\ KeepInv => CountInv' /\ KeepInv')
<1>1. PICK failures \in Failures(ToSet(list)) :
         conn' = Closed(failures).conn /\ destroyed' = Closed(failures).destroyed
  BY DEF Close
<1> DEFINE d == Closed(failures)  n == Len(list)
<1>2. d \in After(n) /\ d.kept = <<>>
  BY ClosedFacts DEF ClosedTo
<1> HIDE DEF d
<1>3. /\ d \in PoolState /\ Closes(d.conn) /\ conn' = d.conn /\ destroyed' = d.destroyed
      /\ list' = <<>> /\ orphans' = orphans \cup {c \in Conns : conn[c].inUse}
      /\ client' = client
  BY <1>1, <1>2 DEF After, Close, d
<1>4. /\ conn' \in [Conns -> Connection]
      /\ \A c \in Conns : conn'[c].inUse = conn[c].inUse /\ conn'[c].created = conn[c].created
                         /\ conn'[c].link \in {conn[c].link, "none"}
  BY <1>3 DEF Closes
<1>5. UseInv'
  <2>1. /\ list' \in Seq(Created) /\ destroyed' \in Nat /\ orphans' \subseteq Conns
        /\ client' \in [Clients -> ClientState]
    BY <1>3 DEF UseInv, TypeInv, PoolState
  <2> QED
    BY <1>3, <1>4, <2>1, SameUse
<1>6. ASSUME MaxConns <= 2, CountInv, KeepInv PROVE CountInv' /\ KeepInv'
  <2>1. TurnInv(d, n)
    BY <1>2, <1>6 DEF After, PoolInv
  <2>2. Created' = Created /\ IsFiniteSet(Created)
    BY <1>4, <1>6 DEF Created, CountInv
  <2>3. \A c \in Conns : ~ Listed(c)'
    BY <1>3 DEF Listed, Contains
  <2>4. OpenIdle' = {}
    BY <2>3 DEF OpenIdle, Created
  <2>5. \A c \in Met(n) : c \in Created
    BY ListedConns DEF Met
  <2>6. GoneBy(d, n) \subseteq Gone'
    BY <1>4, <2>2, <2>3, <2>5 DEF GoneBy, Gone, Created
  <2>7. Gone' \subseteq Created
    BY <2>2 DEF Gone
  <2>8. destroyed' <= Cardinality(Gone')
    <3>1. IsFiniteSet(Gone')
      BY <2>2, <2>7, FS_Subset
    <3>2. Cardinality(GoneBy(d, n)) <= Cardinality(Gone') /\ IsFiniteSet(GoneBy(d, n))
      BY <2>6, <3>1, FS_Subset
    <3>3. Cardinality(GoneBy(d, n)) \in Nat /\ Cardinality(Gone') \in Nat /\ d.destroyed \in Nat
      BY <1>3, <3>1, <3>2, FS_CardinalityType DEF PoolState
    <3> QED
      BY <1>3, <2>1, <3>2, <3>3 DEF TurnInv
  <2>9. Len(list') <= MaxConns /\ Distinct(list')
    BY <1>3, BoundsAssumption DEF Distinct
  <2>10. Cardinality(OpenIdle') <= MaxIdle
    BY <2>4, FS_EmptySet, BoundsAssumption
  <2>11. ASSUME NEW c \in Conns, conn'[c].inUse \/ conn'[c].link # "none"
         PROVE  c \in orphans'
    <3>1. CASE conn[c].inUse \/ c \in orphans
      BY <1>3, <3>1
    <3>2. CASE ~ conn[c].inUse /\ c \notin orphans
      <4>1. conn'[c].link # "none" /\ conn[c].link # "none"
        BY <1>4, <2>11, <3>2
      <4>2. Listed(c)
        BY <1>6, <3>2, <4>1 DEF KeepInv
      <4>3. c \in Met(n)
        BY <4>2 DEF Listed, Contains, Met
      <4>4. c \notin ToSet(d.kept)
        BY <1>2 DEF ToSet
      <4> QED
        BY <1>3, <2>1, <3>2, <4>1, <4>3, <4>4 DEF TurnInv
    <3> QED
      BY <3>1, <3>2
  <2> QED
    BY <2>2, <2>8, <2>9, <2>10, <2>11 DEF CountInv, KeepInv
<1> QED
  BY <1>5, <1>6

\* Cleanup keeps every connection that is in use or open, without repetition.
LEMMA CleanupStep ==
    ASSUME UseInv, CleanupIdleConnections
    PROVE  UseInv' /\ (MaxConns <= 2 /\ CountInv /\ KeepInv => CountInv' /\ KeepInv')
<1>1. PICK failures \in Failures(ToSet(list)) :
         /\ conn' = Cleaned(failures).conn /\ destroyed' = Cleaned(failures).destroyed
         /\ list' = Cleaned(failures).kept
  BY DEF CleanupIdleConnections
<1> DEFINE d == Cleaned(failures)  n == Len(list)
<1>2. d \in CleanedTo(n) /\ d \in After(n)
  BY CleanedFacts DEF CleanedTo
<1> HIDE DEF d
<1>3. /\ d \in PoolState /\ Closes(d.conn) /\ conn' = d.conn /\ destroyed' = d.destroyed
      /\ list' = d.kept /\ orphans' = orphans /\ client' = client
  BY <1>1, <1>2 DEF After, CleanupIdleConnections, d
<1>4. /\ conn' \in [Conns -> Connection]
      /\ \A c \in Conns : conn'[c].inUse = conn[c].inUse /\ conn'[c].created = conn[c].created
                         /\ conn'[c].link \in {conn[c].link, "none"}
  BY <1>3 DEF Closes
<1>5. UseInv'
  <2>1. /\ list' \in Seq(Created) /\ destroyed' \in Nat /\ orphans' \subseteq Conns
        /\ client' \in [Clients -> ClientState]
    BY <1>3 DEF UseInv, TypeInv, PoolState
  <2> QED
    BY <1>3, <1>4, <2>1, SameUse
<1>6. ASSUME MaxConns <= 2, CountInv, KeepInv PROVE CountInv' /\ KeepInv'
  <2>1. TurnInv(d, n) /\ \A c \in Met(n) : conn[c].inUse => c \in ToSet(d.kept)
    BY <1>2, <1>6 DEF After, CleanedTo, PoolInv
  <2>2. Created' = Created /\ IsFiniteSet(Created)
    BY <1>4, <1>6 DEF Created, CountInv
  <2>3. \A c \in Conns : Listed(c)' <=> c \in ToSet(d.kept)
    <3>1. d.kept \in Seq(Created)
      BY <1>3 DEF PoolState
    <3> QED
      BY <1>3, <3>1 DEF Listed, Contains, ToSet
  <2>4. \A c \in Conns : Listed(c) <=> c \in Met(n)
    BY DEF Listed, Contains, Met
  <2>5. OpenIdle' \subseteq OpenIdle
    BY <1>4, <2>1, <2>2, <2>3, <2>4 DEF OpenIdle, Created, TurnInv
  <2>6. \A c \in Met(n) : c \in Created
    BY ListedConns DEF Met
  <2>7. GoneBy(d, n) \subseteq Gone'
    BY <1>4, <2>1, <2>2, <2>3, <2>4, <2>6 DEF GoneBy, Gone, Created, TurnInv
  <2>8. destroyed' <= Cardinality(Gone')
    <3>1. IsFiniteSet(Gone')
      BY <2>2, FS_Subset DEF Gone
    <3>2. Cardinality(GoneBy(d, n)) <= Cardinality(Gone') /\ IsFiniteSet(GoneBy(d, n))
      BY <2>7, <3>1, FS_Subset
    <3>3. Cardinality(GoneBy(d, n)) \in Nat /\ Cardinality(Gone') \in Nat /\ d.destroyed \in Nat
      BY <1>3, <3>1, <3>2, FS_CardinalityType DEF PoolState
    <3> QED
      BY <1>3, <2>1, <3>2, <3>3 DEF TurnInv
  <2>9. Len(list') <= MaxConns /\ Distinct(list')
    <3>1. Len(d.kept) <= n /\ Len(d.kept) \in Nat /\ n <= MaxConns /\ n \in Nat
      BY <1>3, <1>6, <2>1, ListedConns DEF TurnInv, CountInv, PoolState
    <3> QED
      BY <1>3, <2>1, <3>1, BoundsAssumption DEF TurnInv
  <2>10. Cardinality(OpenIdle') <= MaxIdle
    BY <1>6, <2>5, FewerOpen DEF CountInv
  <2>11. ASSUME NEW c \in Conns, conn'[c].inUse \/ conn'[c].link # "none"
         PROVE  Listed(c)' \/ c \in orphans'
    <3>1. conn[c].inUse \/ conn[c].link # "none"
      BY <1>4, <2>11
    <3>2. c \in Met(n) \/ c \in orphans
      BY <1>6, <2>4, <3>1 DEF KeepInv
    <3>3. CASE c \in Met(n)
      BY <1>3, <1>4, <2>1, <2>3, <2>11, <3>3 DEF TurnInv
    <3> QED
      BY <1>3, <3>2, <3>3
  <2> QED
    BY <2>2, <2>8, <2>9, <2>10, <2>11 DEF CountInv, KeepInv
<1> QED
  BY <1>5, <1>6

\* put: the client lets go, and the connection stays in the list, or is closed.
LEMMA PutFacts ==
    ASSUME UseInv, NEW k \in Clients, Put(k)
    PROVE  LET c == client[k].conn IN
           /\ c \in Conns /\ conn[c].inUse /\ conn[c].created
           /\ client' = [client EXCEPT ![k] = [stage |-> "idle", conn |-> NoConn]]
           /\ orphans' = orphans
           /\ conn' \in [Conns -> Connection] /\ \A x \in Conns \ {c} : conn'[x] = conn[x]
           /\ ~ conn'[c].inUse /\ conn'[c].created
           /\ list' \in Seq(Created) /\ Len(list') <= Len(list) /\ destroyed' \in Nat
           /\ \/ /\ list' = list /\ destroyed' = destroyed
                 /\ conn'[c].link = "none" \/ Cardinality(Idle(list, conn')) <= MaxIdle
              \/ /\ destroyed' = destroyed + 1 /\ conn'[c].link = "none"
                 /\ Distinct(list) => /\ Distinct(list')
                                      /\ \A x \in Conns : Listed(x)' <=> Listed(x) /\ x # c
<1> DEFINE c == client[k].conn
           returned == [conn EXCEPT ![c].inUse = FALSE, ![c].expired = FALSE]
           p == Pool(list, returned)
<1>1. client[k].stage = "using"
  BY DEF Put
<1>2. c \in Conns /\ conn[c].inUse /\ conn[c].created
  BY <1>1, HolderFacts DEF UseInv
<1>3. PICK failures \in Failures({c}) :
         LET s == IF Overflow(c, returned) \/ conn[c].old
                  THEN DestroyConnectionLocked(p, c, failures) ELSE p
         IN conn' = s.conn /\ list' = Live(s) /\ destroyed' = s.destroyed
  BY DEF Put
<1>4. conn \in [Conns -> Connection] /\ list \in Seq(Created) /\ destroyed \in Nat
  BY DEF UseInv, TypeInv
<1>5. /\ returned \in [Conns -> Connection] /\ \A x \in Conns \ {c} : returned[x] = conn[x]
      /\ ~ returned[c].inUse /\ returned[c].created
  <2> DEFINE r == [conn[c] EXCEPT !.inUse = FALSE, !.expired = FALSE]
  <2>1. r \in Connection /\ r.inUse = FALSE /\ r.created = conn[c].created
    BY <1>2, <1>4 DEF Connection
  <2>2. returned = [conn EXCEPT ![c] = r]
    BY <1>2, <1>4
  <2> HIDE DEF r, returned, c
  <2> QED
    BY <1>2, <1>4, <2>1, <2>2
<1> HIDE DEF returned
<1>6. /\ p \in PoolState /\ p.array = list /\ p.live = Len(list) /\ p.conn = returned
      /\ p.destroyed = destroyed
  BY <1>4, <1>5 DEF Pool, PoolState
<1>7. Live(p) = list /\ Len(p.array) \in Nat /\ p.live <= Len(p.array)
  BY <1>4, <1>6 DEF Live
<1> HIDE DEF p
<1> DEFINE d == DestroyConnectionLocked(p, c, failures)
<1>8. CASE Overflow(c, returned) \/ conn[c].old
  <2>1. conn' = d.conn /\ list' = Live(d) /\ destroyed' = d.destroyed
    BY <1>3, <1>8
  <2> HIDE DEF d, c
  <2>2. /\ d \in PoolState
        /\ d.conn = IF p.conn[c].inUse THEN p.conn ELSE [p.conn EXCEPT ![c].link = "none"]
        /\ Len(d.array) = Len(p.array) /\ d.live <= p.live
        /\ \/ d.destroyed = p.destroyed /\ Live(d) = Live(p)
           \/ /\ d.destroyed = p.destroyed + 1
              /\ Distinct(Live(p)) => /\ Distinct(Live(d))
                                      /\ ToSet(Live(d)) = ToSet(Live(p)) \ {c}
    <3>1. /\ d \in PoolState /\ d.kept = p.kept
          /\ d.conn = IF p.conn[c].inUse THEN p.conn ELSE [p.conn EXCEPT ![c].link = "none"]
          /\ Len(d.array) = Len(p.array) /\ d.live <= p.live
          /\ Len(p.array) # 0 => d.array[Len(p.array)] = p.array[Len(p.array)]
          /\ \/ d.destroyed = p.destroyed /\ Live(d) = Live(p)
             \/ /\ d.destroyed = p.destroyed + 1 /\ ~ p.conn[c].inUse
                /\ Distinct(Live(p)) => /\ Distinct(Live(d))
                                        /\ ToSet(Live(d)) = ToSet(Live(p)) \ {c}
      <4>1. c \in Conns
        BY <1>2 DEF c
      <4> QED
        BY <1>6, <1>7, <4>1, DestroyFacts DEF d
    <3> QED
      BY <3>1
  <2>3. d.live <= Len(d.array) /\ d.live \in Nat /\ d.destroyed \in Nat
    BY <1>6, <1>7, <2>2 DEF PoolState
  <2>4. /\ conn' \in [Conns -> Connection] /\ \A x \in Conns \ {c} : conn'[x] = conn[x]
        /\ ~ conn'[c].inUse /\ conn'[c].created /\ conn'[c].link = "none"
    <3> DEFINE r == [returned[c] EXCEPT !.link = "none"]
    <3>1. /\ r \in Connection /\ r.inUse = returned[c].inUse /\ r.created = returned[c].created
          /\ r.link = "none"
      BY <1>2, <1>5 DEF Connection
    <3>2. conn' = [returned EXCEPT ![c] = r]
      BY <1>5, <1>6, <2>1, <2>2
    <3> HIDE DEF r
    <3> QED
      BY <1>2, <1>5, <3>1, <3>2
  <2>5. /\ list' \in Seq(Created) /\ Len(list') = d.live
        /\ \A x \in Conns : x \in ToSet(list') <=> Listed(x)'
    BY <2>1, <2>2, <2>3, LiveFacts DEF Listed
  <2>6. \A x \in Conns : x \in ToSet(list) <=> Listed(x)
    BY <1>6, <1>7, LiveFacts DEF Listed
  <2> QED
    BY <1>2, <1>6, <1>7, <2>1, <2>2, <2>3, <2>4, <2>5, <2>6 DEF Put, c
<1>9. CASE ~ (Overflow(c, returned) \/ conn[c].old)
  <2>1. conn' = returned /\ list' = list /\ destroyed' = destroyed
    BY <1>3, <1>6, <1>7, <1>9
  <2>2. Cardinality(Idle(list, conn')) <= MaxIdle
    <3>1. Idle(list, returned) \subseteq 1 .. Len(list) /\ Len(list) \in Nat
      BY <1>4 DEF Idle
    <3>2. IsFiniteSet(1 .. Len(list))
      BY <3>1, FS_Interval
    <3>3. Cardinality(Idle(list, returned)) \in Nat
      BY <3>1, <3>2, FS_Subset, FS_CardinalityType
    <3>4. ~ (Cardinality(Idle(list, returned)) > MaxIdle)
      BY <1>9 DEF Overflow
    <3> QED
      BY <2>1, <3>3, <3>4, BoundsAssumption
  <2>3. Len(list') <= Len(list)
    BY <1>4, <2>1
  <2> QED
    BY <1>2, <1>4, <1>5, <2>1, <2>2, <2>3 DEF Put
<1> QED
  BY <1>8, <1>9

\* A connection given back stays within the limit, or is closed and counted.
LEMMA PutStep ==
    ASSUME UseInv, NEW k \in Clients, Put(k)
    PROVE  UseInv' /\ (CountInv /\ KeepInv => CountInv' /\ KeepInv')
<1> DEFINE c == client[k].conn
<1>1. /\ c \in Conns /\ conn[c].inUse /\ conn[c].created
      /\ client' = [client EXCEPT ![k] = [stage |-> "idle", conn |-> NoConn]]
      /\ orphans' = orphans
      /\ conn' \in [Conns -> Connection] /\ \A x \in Conns \ {c} : conn'[x] = conn[x]
      /\ ~ conn'[c].inUse /\ conn'[c].created
      /\ list' \in Seq(Created) /\ Len(list') <= Len(list) /\ destroyed' \in Nat
      /\ \/ /\ list' = list /\ destroyed' = destroyed
            /\ conn'[c].link = "none" \/ Cardinality(Idle(list, conn')) <= MaxIdle
         \/ /\ destroyed' = destroyed + 1 /\ conn'[c].link = "none"
            /\ Distinct(list) => /\ Distinct(list')
                                 /\ \A x \in Conns : Listed(x)' <=> Listed(x) /\ x # c
  BY PutFacts
<1>2. Created' = Created
  BY <1>1 DEF Created
<1>3. client \in [Clients -> ClientState] /\ orphans \subseteq Conns
  BY DEF UseInv, TypeInv
<1> DEFINE r == [stage |-> "idle", conn |-> NoConn]
<1>4. r \in ClientState /\ r.stage = "idle" /\ r.conn = NoConn
  BY DEF ClientState
<1>5. client' = [client EXCEPT ![k] = r]
  BY <1>1
<1> HIDE DEF r
<1>6. /\ client' \in [Clients -> ClientState] /\ client'[k] = r
      /\ \A l \in Clients \ {k} : client'[l] = client[l]
  BY <1>3, <1>4, <1>5
<1>7. \A l \in Clients \ {k} : client[l].conn # c
  BY <1>1, NoConnAssumption DEF UseInv, ExclusiveUse
<1> HIDE DEF c
<1>8. UseInv'
  <2>1. TypeInv'
    BY <1>1, <1>2, <1>3, <1>4, <1>6 DEF UseInv, TypeInv
  <2>2. \A l, m \in Clients : client[l].conn = client[m].conn /\ l # m => client[l].conn = NoConn
    BY DEF UseInv, ExclusiveUse
  <2>3. \A l, m \in Clients : client'[l].conn = client'[m].conn /\ l # m => client'[l].conn = NoConn
    <3> TAKE l, m \in Clients
    <3> HAVE client'[l].conn = client'[m].conn /\ l # m
    <3>1. CASE l = k \/ m = k
      BY <1>4, <1>6, <3>1
    <3>2. CASE l # k /\ m # k
      BY <1>6, <2>2, <3>2
    <3> QED
      BY <3>1, <3>2
  <2>4. ASSUME NEW x \in Conns PROVE conn'[x].inUse <=> Held(x)'
    <3>1. x # NoConn /\ (conn[x].inUse <=> Held(x))
      BY NoConnAssumption DEF UseInv, ExclusiveUse
    <3>2. CASE x = c
      <4>1. ~ Held(x)'
        BY <1>4, <1>6, <1>7, <3>1, <3>2 DEF Held
      <4> QED
        BY <1>1, <3>2, <4>1
    <3>3. CASE x # c
      <4>1. Held(x)' <=> Held(x)
        BY <1>4, <1>6, <3>1, <3>3 DEF Held, c
      <4> QED
        BY <1>1, <3>1, <3>3, <4>1
    <3> QED
      BY <3>2, <3>3
  <2>5. \A x \in Conns : conn'[x].inUse => conn'[x].created
    BY <1>1 DEF UseInv
  <2> QED
    BY <2>1, <2>3, <2>4, <2>5 DEF UseInv, ExclusiveUse
<1>9. ASSUME CountInv, KeepInv PROVE CountInv' /\ KeepInv'
  <2>1. IsFiniteSet(Created') /\ IsFiniteSet(Gone) /\ IsFiniteSet(Gone')
    BY <1>2, <1>9, FS_Subset DEF CountInv, Gone
  <2>2. /\ Cardinality(Gone) \in Nat /\ Cardinality(Gone') \in Nat /\ destroyed \in Nat
        /\ c \notin Gone /\ Distinct(list)
    BY <1>1, <1>9, <2>1, FS_CardinalityType DEF Gone, UseInv, TypeInv, CountInv
  <2>3. Len(list') <= MaxConns
    BY <1>1, <1>9, ListedConns, BoundsAssumption DEF CountInv
  <2>4. CASE list' = list /\ destroyed' = destroyed
    <3>1. \A x \in Conns : Listed(x)' <=> Listed(x)
      BY <2>4 DEF Listed
    <3>2. Gone \subseteq Gone'
      BY <1>1, <1>2, <2>2, <3>1 DEF Gone, Created
    <3>3. destroyed' <= Cardinality(Gone')
      BY <1>9, <2>1, <2>2, <2>4, <3>2, FS_Subset DEF CountInv
    <3>4. KeepInv'
      BY <1>1, <1>9, <3>1 DEF KeepInv
    <3>5. Cardinality(OpenIdle') <= MaxIdle
      <4>1. CASE conn'[c].link = "none"
        <5>1. OpenIdle' \subseteq OpenIdle
          BY <1>1, <1>2, <3>1, <4>1 DEF OpenIdle, Created
        <5> QED
          BY <1>9, <5>1, FewerOpen DEF CountInv
      <4>2. CASE Cardinality(Idle(list, conn')) <= MaxIdle
        <5> DEFINE I == Idle(list, conn')  T == {list[i] : i \in I}
        <5>1. I \subseteq 1 .. Len(list) /\ Len(list) \in Nat
          BY ListedConns DEF Idle
        <5>2. IsFiniteSet(I)
          <6>1. IsFiniteSet(1 .. Len(list))
            BY <5>1, FS_Interval
          <6> HIDE DEF I
          <6> QED
            BY <5>1, <6>1, FS_Subset
        <5>3. OpenIdle' \subseteq T
          BY <2>4, <5>1 DEF OpenIdle, Listed, Contains, Idle
        <5> HIDE DEF I
        <5>4. IsFiniteSet(T) /\ Cardinality(T) <= Cardinality(I)
          <6> DEFINE f == [i \in I |-> list[i]]
          <6>1. f \in Surjection(I, T)
            BY DEF Surjection
          <6> HIDE DEF f, T
          <6> QED
            BY <5>2, <6>1, FS_Surjection
        <5>5. /\ Cardinality(OpenIdle') <= Cardinality(T) /\ Cardinality(T) \in Nat
              /\ Cardinality(I) \in Nat /\ Cardinality(OpenIdle') \in Nat
          BY <5>2, <5>3, <5>4, FS_Subset, FS_CardinalityType
        <5> QED
          BY <4>2, <5>4, <5>5, BoundsAssumption DEF I
      <4> QED
        BY <1>1, <2>4, <4>1, <4>2
    <3> QED
      BY <1>9, <2>1, <2>3, <2>4, <3>3, <3>4, <3>5 DEF CountInv
  <2>5. CASE /\ destroyed' = destroyed + 1 /\ conn'[c].link = "none"
             /\ Distinct(list) => /\ Distinct(list')
                                  /\ \A x \in Conns : Listed(x)' <=> Listed(x) /\ x # c
    <3>1. Distinct(list') /\ \A x \in Conns : Listed(x)' <=> Listed(x) /\ x # c
      BY <2>2, <2>5
    <3>2. Gone \cup {c} \subseteq Gone'
      BY <1>1, <1>2, <2>2, <3>1 DEF Gone, Created
    <3>3. destroyed' <= Cardinality(Gone')
      <4>1. Cardinality(Gone \cup {c}) = Cardinality(Gone) + 1
        BY <2>1, <2>2, FS_AddElement
      <4>2. Cardinality(Gone \cup {c}) <= Cardinality(Gone')
        BY <2>1, <3>2, FS_Subset
      <4> QED
        BY <1>9, <2>2, <2>5, <4>1, <4>2 DEF CountInv
    <3>4. KeepInv'
      BY <1>1, <1>9, <2>5, <3>1 DEF KeepInv
    <3>5. OpenIdle' \subseteq OpenIdle
      BY <1>1, <1>2, <2>5, <3>1 DEF OpenIdle, Created
    <3>6. Cardinality(OpenIdle') <= MaxIdle
      BY <1>9, <3>5, FewerOpen DEF CountInv
    <3> QED
      BY <2>1, <2>3, <3>1, <3>3, <3>4, <3>6 DEF CountInv
  <2> QED
    BY <1>1, <2>4, <2>5
<1> QED
  BY <1>8, <1>9

-----------------------------------------------------------------------------
(* The theorems.                                                           *)

\* The initial pool, empty, satisfies the invariants.
LEMMA InitPool == Init => UseInv /\ CountInv /\ KeepInv
<1> SUFFICES ASSUME Init PROVE UseInv /\ CountInv /\ KeepInv
  OBVIOUS
<1> DEFINE c0 == [created |-> FALSE, inUse |-> FALSE, link |-> "none", old |-> FALSE,
                  expired |-> FALSE]
           k0 == [stage |-> "idle", conn |-> NoConn]
<1>1. c0 \in Connection /\ ~ c0.inUse /\ ~ c0.created /\ c0.link = "none"
  BY DEF Connection
<1>2. k0 \in ClientState /\ k0.stage = "idle" /\ k0.conn = NoConn
  BY DEF ClientState
<1>3. /\ list = <<>> /\ conn = [c \in Conns |-> c0] /\ client = [k \in Clients |-> k0]
      /\ destroyed = 0 /\ orphans = {}
  BY DEF Init
<1> HIDE DEF c0, k0
<1>4. Created = {}
  BY <1>1, <1>3 DEF Created
<1>5. UseInv
  BY <1>1, <1>2, <1>3, NoConnAssumption DEF UseInv, TypeInv, ExclusiveUse, Held
<1>6. Gone = {} /\ OpenIdle = {}
  BY <1>4 DEF Gone, OpenIdle
<1>7. CountInv
  BY <1>3, <1>4, <1>6, FS_EmptySet, BoundsAssumption DEF CountInv, Distinct
<1>8. KeepInv
  BY <1>1, <1>3 DEF KeepInv
<1> QED
  BY <1>5, <1>7, <1>8

\* Every step keeps them; those of the counts for a list of two at most.
LEMMA NextPool ==
    ASSUME UseInv, [Next]_vars
    PROVE  UseInv' /\ (MaxConns <= 2 /\ CountInv /\ KeepInv => CountInv' /\ KeepInv')
<1>1. ASSUME NEW k \in Clients, Reuse(k) \/ Create(k) \/ Connect(k) \/ Put(k)
      PROVE  UseInv' /\ (CountInv /\ KeepInv => CountInv' /\ KeepInv')
  BY <1>1, ReuseStep, CreateStep, ConnectStep, PutStep
<1>2. ASSUME NEW c \in Conns, Environment(c)
      PROVE  UseInv' /\ (CountInv /\ KeepInv => CountInv' /\ KeepInv')
  BY <1>2, EnvironmentStep
<1>3. CASE UNCHANGED vars
  <2>1. UseInv'
    BY <1>3 DEF UseInv, TypeInv, ExclusiveUse, Held, Created, vars
  <2>2. CountInv /\ KeepInv => CountInv' /\ KeepInv'
    BY <1>3, SameCounts DEF vars
  <2> QED
    BY <2>1, <2>2
<1> QED
  BY <1>1, <1>2, <1>3, CloseStep, CleanupStep DEF Next

\* No two clients hold the same connection, and the marks of the connections say
\* which are held, for any limits of the pool and whatever fails.
THEOREM ConnectionsHeldOnce == Spec => []ExclusiveUse
<1>1. Init => UseInv
  BY InitPool
<1>2. UseInv /\ [Next]_vars => UseInv'
  BY NextPool
<1>3. UseInv => ExclusiveUse
  BY DEF UseInv
<1> QED
  BY <1>1, <1>2, <1>3, PTL DEF Spec

\* What the invariant says of the counts.
LEMMA CountsFollow ==
    ASSUME UseInv, CountInv
    PROVE  PoolCounts
<1>1. /\ list \in Seq(Created) /\ Len(list) \in Nat /\ destroyed \in Nat
      /\ \A i \in 1 .. Len(list) : /\ list[i] \in Created /\ list[i] \in Conns
                                   /\ conn[list[i]].created /\ Listed(list[i])
      /\ \A i, j \in 1 .. Len(list) : list[i] = list[j] => i = j
  BY ListedConns DEF UseInv, TypeInv, CountInv, Distinct
<1>2. Cardinality(IdleOpen) <= MaxIdle
  <2> DEFINE f == [i \in IdleOpen |-> list[i]]
  <2>1. IdleOpen \subseteq 1 .. Len(list)
    BY <1>1 DEF IdleOpen, Idle
  <2>2. f \in Injection(IdleOpen, OpenIdle)
    BY <1>1, <2>1 DEF Injection, IsInjective, OpenIdle, IdleOpen, Idle
  <2>3. IsFiniteSet(OpenIdle)
    BY FS_Subset DEF CountInv, OpenIdle
  <2> HIDE DEF f
  <2>4. IsFiniteSet(IdleOpen) /\ Cardinality(IdleOpen) <= Cardinality(OpenIdle)
    BY <2>2, <2>3, FS_Injection
  <2>5. Cardinality(IdleOpen) \in Nat /\ Cardinality(OpenIdle) \in Nat
    BY <2>3, <2>4, FS_CardinalityType
  <2> QED
    BY <2>4, <2>5, BoundsAssumption DEF CountInv
<1>3. destroyed + Len(list) <= Cardinality(Created)
  <2> DEFINE n == Len(list)  g == [i \in 1 .. n |-> list[i]]  R == {list[i] : i \in 1 .. n}
  <2>1. g \in Bijection(1 .. n, R)
    BY <1>1 DEF Bijection, Injection, Surjection, IsInjective
  <2>2. IsFiniteSet(1 .. n) /\ Cardinality(1 .. n) = n
    <3>1. n \in Int /\ n >= 0 /\ 1 \in Int
      BY <1>1
    <3> HIDE DEF n
    <3>2. IsFiniteSet(1 .. n) /\ Cardinality(1 .. n) = IF 1 > n THEN 0 ELSE n - 1 + 1
      BY <3>1, FS_Interval
    <3> QED
      BY <3>1, <3>2
  <2> HIDE DEF g, R
  <2>3. IsFiniteSet(R) /\ Cardinality(R) = n
    BY <2>1, <2>2, FS_Bijection DEF ExistsBijection
  <2>4. IsFiniteSet(Gone) /\ Gone \subseteq Created /\ IsFiniteSet(Created)
    BY FS_Subset DEF CountInv, Gone
  <2>5. R \subseteq Created /\ Gone \cap R = {}
    BY <1>1 DEF R, Gone
  <2>6. Cardinality(Gone \cup R) = Cardinality(Gone) + n
    <3>1. /\ Cardinality(Gone \cup R) = Cardinality(Gone) + Cardinality(R) - Cardinality(Gone \cap R)
          /\ Cardinality(Gone \cap R) = 0 /\ Cardinality(Gone) \in Nat
      BY <2>3, <2>4, <2>5, FS_Union, FS_EmptySet, FS_CardinalityType
    <3> QED
      BY <1>1, <2>3, <3>1
  <2>7. Cardinality(Gone \cup R) <= Cardinality(Created)
    BY <2>4, <2>5, FS_Subset
  <2>8. Cardinality(Gone) \in Nat /\ Cardinality(Created) \in Nat
    BY <2>4, FS_CardinalityType
  <2> QED
    BY <1>1, <2>6, <2>7, <2>8 DEF CountInv
<1> QED
  BY <1>2, <1>3 DEF PoolCounts

\* The invariant of a pool of two connections at most.
LEMMA PairInv ==
    ASSUME MaxConns <= 2
    PROVE  Spec => [](UseInv /\ CountInv /\ KeepInv)
<1>1. Init => UseInv /\ CountInv /\ KeepInv
  BY InitPool
<1>2. UseInv /\ CountInv /\ KeepInv /\ [Next]_vars => UseInv' /\ CountInv' /\ KeepInv'
  BY NextPool
<1> QED
  BY <1>1, <1>2, PTL DEF Spec

\* A pool of at most two connections a target keeps no more idle ones than it
\* may, and counts each destroyed connection once; with three it may not.
THEOREM PairCounts ==
    ASSUME MaxConns <= 2
    PROVE  Spec => []PoolCounts
<1>1. UseInv /\ CountInv => PoolCounts
  BY CountsFollow
<1> QED
  BY <1>1, PairInv, PTL

\* Nor does it lose an open connection.
THEOREM PairKeeps ==
    ASSUME MaxConns <= 2
    PROVE  Spec => []NoLeak
<1>1. KeepInv => NoLeak
  BY DEF KeepInv, NoLeak
<1> QED
  BY <1>1, PairInv, PTL

-----------------------------------------------------------------------------
(* Orders: each after what it depends on.                                  *)

InTurn(deps, r) == \A i \in 1 .. Len(r) : deps[r[i]] \subseteq {r[j] : j \in 1 .. i - 1}

\* Another name goes to the end of a list without repetitions.
LEMMA AppendFacts ==
    ASSUME NEW S, NEW r \in Seq(S), NEW n \in S, n \notin ToSet(r), Distinct(r)
    PROVE  LET q == Append(r, n) IN
           /\ q \in Seq(S) /\ Distinct(q) /\ Len(q) = Len(r) + 1 /\ q[Len(q)] = n
           /\ \A i \in 1 .. Len(r) : q[i] = r[i]
           /\ ToSet(q) = ToSet(r) \cup {n}
<1> DEFINE q == Append(r, n)  m == Len(r)
<1>1. /\ m \in Nat /\ DOMAIN r = 1 .. m
      /\ q \in Seq(S) /\ Len(q) = m + 1 /\ DOMAIN q = 1 .. m + 1
      /\ q[m + 1] = n /\ \A i \in 1 .. m : q[i] = r[i]
  OBVIOUS
<1> HIDE DEF q
<1>2. \A i \in 1 .. m : q[i] # n
  BY <1>1 DEF ToSet
<1>3. Distinct(q)
  <2> SUFFICES ASSUME NEW i \in 1 .. m + 1, NEW j \in 1 .. m + 1, q[i] = q[j] PROVE i = j
    BY <1>1 DEF Distinct
  <2>1. CASE i \in 1 .. m /\ j \in 1 .. m
    BY <1>1, <2>1 DEF Distinct
  <2>2. CASE i = m + 1 \/ j = m + 1
    BY <1>1, <1>2, <2>2
  <2> QED
    BY <1>1, <2>1, <2>2
<1>4. ToSet(q) = ToSet(r) \cup {n}
  <2>1. \A i \in 1 .. m + 1 : i \in 1 .. m \/ i = m + 1
    BY <1>1
  <2>2. \A i \in 1 .. m : i \in 1 .. m + 1
    BY <1>1
  <2>3. m + 1 \in 1 .. m + 1
    BY <1>1
  <2> QED
    BY <1>1, <2>1, <2>2, <2>3 DEF ToSet
<1> QED
  BY <1>1, <1>3, <1>4 DEF q

\* It may go there when all it depends on is in the list.
LEMMA AppendInTurn ==
    ASSUME NEW S, NEW r \in Seq(S), NEW n \in S, n \notin ToSet(r), Distinct(r),
           NEW deps, InTurn(deps, r), deps[n] \subseteq ToSet(r)
    PROVE  InTurn(deps, Append(r, n))
<1> DEFINE q == Append(r, n)  m == Len(r)
<1>1. /\ m \in Nat /\ DOMAIN r = 1 .. m /\ Len(q) = m + 1
      /\ q[m + 1] = n /\ \A i \in 1 .. m : q[i] = r[i]
  OBVIOUS
<1> HIDE DEF q
<1> SUFFICES ASSUME NEW i \in 1 .. m + 1
             PROVE  deps[q[i]] \subseteq {q[j] : j \in 1 .. i - 1}
  BY <1>1 DEF InTurn, q
<1>2. CASE i \in 1 .. m
  <2>1. deps[r[i]] \subseteq {r[j] : j \in 1 .. i - 1}
    BY <1>2 DEF InTurn
  <2>2. \A j \in 1 .. i - 1 : j \in 1 .. m /\ q[j] = r[j]
    BY <1>1, <1>2
  <2> QED
    BY <1>1, <1>2, <2>1, <2>2
<1>3. CASE i = m + 1
  <2>1. q[i] = n /\ 1 .. i - 1 = 1 .. m
    BY <1>1, <1>3
  <2>2. ToSet(r) = {r[j] : j \in 1 .. m}
    BY <1>1 DEF ToSet
  <2> QED
    BY <1>1, <2>1, <2>2
<1> QED
  BY <1>1, <1>2, <1>3

\* What has such an order has no cycle.
LEMMA OrderedIsAcyclic ==
    ASSUME NEW S, NEW r \in Seq(S), NEW deps, Distinct(r), InTurn(deps, r)
    PROVE  ~ Cyclic(deps, ToSet(r)) /\ DepsFirst(deps, r)
<1> DEFINE m == Len(r)
<1>1. /\ m \in Nat /\ DOMAIN r = 1 .. m
      /\ \A i \in 1 .. m : deps[r[i]] \subseteq {r[j] : j \in 1 .. i - 1}
  <2>1. m \in Nat /\ DOMAIN r = 1 .. m
    OBVIOUS
  <2>2. \A i \in 1 .. m : deps[r[i]] \subseteq {r[j] : j \in 1 .. i - 1}
    BY ZenonT(30) DEF InTurn
  <2> QED
    BY <2>1, <2>2
<1>2. ASSUME Cyclic(deps, ToSet(r))
      PROVE  FALSE
  <2>1. PICK t \in SUBSET ToSet(r) : t # {} /\ \A n \in t : deps[n] \cap t # {}
    BY <1>2 DEF Cyclic
  <2> DEFINE P == {i \in 1 .. m : r[i] \in t}
  <2>2. P \in SUBSET Nat /\ P # {}
    BY <1>1, <2>1 DEF ToSet
  <2>3. PICK i \in P : \A k \in P : i <= k
    <3> HIDE DEF P
    <3> QED
      BY <2>2, SmallestOf
  <2>4. i \in 1 .. m /\ r[i] \in t
    OBVIOUS
  <2>5. PICK d \in deps[r[i]] : d \in t
    BY <2>1, <2>4
  <2>6. PICK k \in 1 .. i - 1 : r[k] = d
    BY <1>1, <2>4, <2>5
  <2>7. k \in P /\ k < i
    BY <1>1, <2>4, <2>5, <2>6
  <2> QED
    BY <1>1, <2>3, <2>4, <2>7
<1>3. DepsFirst(deps, r)
  <2> SUFFICES ASSUME NEW i \in 1 .. m, NEW j \in 1 .. m, r[j] \in deps[r[i]] PROVE j < i
    BY DEF DepsFirst
  <2>1. PICK k \in 1 .. i - 1 : r[k] = r[j]
    BY <1>1
  <2>2. k \in 1 .. m /\ k < i
    BY <1>1, <2>1
  <2>3. k = j
    BY <1>1, <2>1, <2>2 DEF Distinct
  <2> QED
    BY <2>2, <2>3
<1> QED
  BY <1>2, <1>3

\* Different names of a finite set: as many as it has, if and only if all of them.
LEMMA AllOfThem ==
    ASSUME NEW S, IsFiniteSet(S), NEW r \in Seq(S), Distinct(r)
    PROVE  /\ Len(r) <= Cardinality(S)
           /\ Len(r) = Cardinality(S) <=> ToSet(r) = S
<1> DEFINE m == Len(r)
<1>1. m \in Nat /\ r \in [1 .. m -> S]
  OBVIOUS
<1>2. r \in Injection(1 .. m, S)
  BY <1>1 DEF Distinct, Injection, IsInjective
<1>3. /\ Cardinality(1 .. m) <= Cardinality(S)
      /\ Cardinality(1 .. m) = Cardinality(S) <=> r \in Surjection(1 .. m, S)
  BY <1>2, FS_Injection
<1>4. Cardinality(1 .. m) = m
  <2> HIDE DEF m
  <2>1. Cardinality(1 .. m) = IF 1 > m THEN 0 ELSE m - 1 + 1
    BY <1>1, FS_Interval
  <2> QED
    BY <1>1, <2>1
<1>5. r \in Surjection(1 .. m, S) <=> ToSet(r) = S
  BY <1>1 DEF Surjection, ToSet
<1> QED
  BY <1>3, <1>4, <1>5

-----------------------------------------------------------------------------
(* The plugins and the lock file.                                          *)

PluginSpec == InitDependencies /\ [][NextDependencies]_dependencyVars

\* Manifests are of known names, and depend on known names.
Manifest == [version : Versions, deps : SUBSET Things]
ManifestTypes ==
    /\ DOMAIN manifest \subseteq Things
    /\ \A n \in DOMAIN manifest : manifest[n] \in Manifest
    /\ active \subseteq Things

\* Who has no manifest depends on nobody.
LEMMA DepsTypes == ManifestTypes => Deps \in [Things -> SUBSET Things]
  BY DEF ManifestTypes, Manifest, Deps

\* After k rounds from s: what was found is needed, and as much as k names of it,
\* unless there is no more to find.
Found(s, k) == {f \in SUBSET Things :
                   /\ s \subseteq f
                   /\ \A t \in SUBSET Things : s \subseteq t /\ DepsClosed(t) => f \subseteq t
                   /\ DepsClosed(f) \/ Cardinality(f) >= k}

\* A round more finds what those that were found depend on.
LEMMA AddFinds ==
    ASSUME ManifestTypes, NEW s \in SUBSET Things, NEW k \in Nat, NEW f \in Found(s, k)
    PROVE  AddDeps(f) \in Found(s, k + 1)
<1> DEFINE g == AddDeps(f)
<1>1. Deps \in [Things -> SUBSET Things] /\ f \subseteq Things
  BY DepsTypes DEF Found
<1>2. g \subseteq Things /\ f \subseteq g /\ \A n \in f : Deps[n] \subseteq g
  BY <1>1 DEF AddDeps
<1>3. ASSUME NEW t \in SUBSET Things, s \subseteq t, DepsClosed(t)
      PROVE  g \subseteq t
  <2>1. f \subseteq t
    BY <1>3 DEF Found
  <2> QED
    BY <1>3, <2>1 DEF AddDeps, DepsClosed
<1>4. CASE DepsClosed(f)
  <2>1. g = f
    BY <1>4 DEF AddDeps, DepsClosed
  <2> QED
    BY <1>2, <1>3, <1>4, <2>1 DEF Found
<1>5. CASE ~ DepsClosed(f)
  <2>1. PICK x \in g : x \notin f
    BY <1>2, <1>5 DEF DepsClosed
  <2>2. IsFiniteSet(g) /\ IsFiniteSet(f)
    BY <1>1, <1>2, FS_Subset, ThingsAreNumbers
  <2>3. Cardinality(f) < Cardinality(g)
    <3>1. Cardinality(f) <= Cardinality(g) /\ (Cardinality(g) = Cardinality(f) => g = f)
      BY <1>2, <2>2, FS_Subset
    <3>2. Cardinality(f) \in Nat /\ Cardinality(g) \in Nat
      BY <2>2, FS_CardinalityType
    <3> QED
      BY <2>1, <3>1, <3>2
  <2>4. Cardinality(f) >= k
    BY <1>5 DEF Found
  <2>5. Cardinality(g) >= k + 1
    BY <2>2, <2>3, <2>4, FS_CardinalityType
  <2> HIDE DEF g
  <2>6. s \subseteq g
    BY <1>2 DEF Found
  <2> QED
    BY <1>2, <1>3, <2>5, <2>6 DEF Found, g
<1> QED
  BY <1>4, <1>5

\* The rounds find exactly what is needed.
LEMMA AllPluginsFacts ==
    ASSUME ManifestTypes, NEW s \in SUBSET Things
    PROVE  AllPlugins(s) = Closure(s) /\ DepsClosed(AllPlugins(s)) /\ AllPlugins(s) \subseteq Things
<1> DEFINE n == Cardinality(Things)
           S == [i \in 0 .. n |-> Found(s, i)]
           turn == [x \in (SUBSET Things) \X (1 .. n) |-> AddDeps(x[1])]
           IsLoop(h) == h = [i \in 0 .. n |-> IF i = 0 THEN s ELSE AddDeps(h[i - 1])]
<1>0. n \in Nat
  BY FS_CardinalityType, ThingsAreNumbers
<1>1. s \in S[0]
  <2>1. Cardinality(s) >= 0
    <3>1. IsFiniteSet(s)
      BY FS_Subset, ThingsAreNumbers
    <3> QED
      BY <3>1, FS_CardinalityType
  <2> HIDE DEF n
  <2> QED
    BY <1>0, <2>1 DEF Found
<1> HIDE DEF n
<1>2. ASSUME NEW i \in 1 .. n, NEW f \in S[i - 1]
      PROVE  turn[<<f, i>>] = AddDeps(f) /\ AddDeps(f) \in S[i]
  <2>0. i - 1 \in 0 .. n /\ i \in 0 .. n /\ i - 1 \in Nat /\ i - 1 + 1 = i
    BY <1>0
  <2>1. f \in Found(s, i - 1) /\ f \in SUBSET Things
    BY <2>0 DEF Found
  <2>2. AddDeps(f) \in Found(s, i - 1 + 1)
    BY <2>0, <2>1, AddFinds
  <2> QED
    BY <2>0, <2>1, <2>2
<1> HIDE DEF turn, S
<1>3. PICK g : /\ g = [i \in 0 .. n |-> IF i = 0 THEN s ELSE turn[<<g[i - 1], i>>]]
               /\ \A i \in 0 .. n : g[i] \in S[i]
  <2>1. Turns(n, S, s, turn)
    BY <1>1, <1>2 DEF Turns
  <2>2. \E g : RunOf(g, n, S, s, turn)
    BY <1>0, <2>1, LoopRuns
  <2> QED
    BY <2>2 DEF RunOf
<1>4. \A i \in 0 .. n : g[i] = IF i = 0 THEN s ELSE AddDeps(g[i - 1])
  <2> TAKE i \in 0 .. n
  <2>1. g[i] = IF i = 0 THEN s ELSE turn[<<g[i - 1], i>>]
    BY <1>3
  <2>2. CASE i = 0
    BY <2>1, <2>2
  <2>3. CASE i # 0
    <3>1. i \in 1 .. n /\ i - 1 \in 0 .. n
      BY <1>0, <2>3
    <3>2. g[i - 1] \in S[i - 1]
      BY <1>3, <3>1
    <3>3. turn[<<g[i - 1], i>>] = AddDeps(g[i - 1])
      BY <1>2, <3>1, <3>2
    <3> QED
      BY <2>1, <2>3, <3>3
  <2> QED
    BY <2>2, <2>3
<1>5. IsLoop(g)
  <2>1. g = [i \in 0 .. n |-> g[i]]
    BY <1>3
  <2> QED
    BY <1>4, <2>1
<1>6. AllPlugins(s) = (CHOOSE h : IsLoop(h))[n]
  BY DEF AllPlugins, n
<1> DEFINE loop == CHOOSE h : IsLoop(h)
<1>7. IsLoop(loop)
  <2> HIDE DEF IsLoop
  <2> QED
    BY <1>5
<1> HIDE DEF loop
<1>8. loop[0] = s
  BY <1>0, <1>7
<1>9. ASSUME NEW i \in 1 .. n, loop[i - 1] \in S[i - 1]
      PROVE  loop[i] \in S[i]
  <2>1. i \in 0 .. n /\ i # 0
    BY <1>0
  <2>2. loop[i] = AddDeps(loop[i - 1])
    BY <1>7, <2>1
  <2> QED
    BY <1>2, <1>9, <2>2
<1>10. loop[n] \in S[n]
  <2> HIDE DEF IsLoop
  <2> QED
    BY <1>0, <1>1, <1>8, <1>9, LoopKeeps
<1> DEFINE a == AllPlugins(s)
<1>11. a \in Found(s, n)
  BY <1>0, <1>6, <1>10 DEF loop, S
<1> HIDE DEF a
<1>12. DepsClosed(a)
  <2>1. CASE Cardinality(a) >= n
    <3>1. Cardinality(a) = n => a = Things
      BY <1>11, FS_Subset, ThingsAreNumbers DEF Found, n
    <3>2. Cardinality(a) <= n /\ Cardinality(a) \in Nat
      BY <1>11, FS_Subset, FS_CardinalityType, ThingsAreNumbers DEF Found, n
    <3>3. a = Things
      BY <1>0, <2>1, <3>1, <3>2
    <3> QED
      BY <3>3, DepsTypes DEF DepsClosed
  <2> QED
    BY <1>11, <2>1 DEF Found
<1>13. a \subseteq Things /\ s \subseteq a
       /\ \A t \in SUBSET Things : s \subseteq t /\ DepsClosed(t) => a \subseteq t
  BY <1>11 DEF Found
<1>14. a = Closure(s)
  BY <1>12, <1>13 DEF Closure
<1> QED
  BY <1>12, <1>13, <1>14 DEF a

\* After k turns of Kahn's loop: different names, each after those it depends on,
\* and k of them, unless none is ready.
Taken(all, k) == {r \in Seq(all) :
                     /\ Distinct(r)
                     /\ InTurn(Deps, r)
                     /\ Ready(all, r) = {} \/ Len(r) = k}

\* A turn more takes the first that is ready.
LEMMA ReadyIsTaken ==
    ASSUME ManifestTypes, NEW all \in SUBSET Things, NEW k \in Nat, NEW r \in Taken(all, k)
    PROVE  TakeReady(all, r) \in Taken(all, k + 1)
<1>1. CASE Ready(all, r) = {}
  BY <1>1 DEF TakeReady, Taken
<1>2. CASE Ready(all, r) # {}
  <2> DEFINE n == Min(Ready(all, r))
             q == Append(r, n)
             m == Len(r)
  <2>1. n \in Ready(all, r)
    <3>1. Ready(all, r) \in SUBSET Nat
      BY ThingsAreNumbers DEF Ready
    <3>2. \E x \in Ready(all, r) : \A y \in Ready(all, r) : x <= y
      BY <1>2, <3>1, SmallestOf
    <3> QED
      BY <3>2 DEF Min
  <2>2. TakeReady(all, r) = q
    BY <1>2 DEF TakeReady
  <2> HIDE DEF n
  <2>3. /\ r \in Seq(all) /\ m = k /\ Distinct(r) /\ InTurn(Deps, r)
        /\ n \in all /\ n \notin ToSet(r) /\ Deps[n] \subseteq ToSet(r)
    BY <1>2, <2>1 DEF Taken, Ready
  <2>4. q \in Seq(all) /\ Distinct(q) /\ Len(q) = m + 1
    BY <2>3, AppendFacts
  <2>5. InTurn(Deps, q)
    BY <2>3, AppendInTurn
  <2> HIDE DEF q
  <2> QED
    BY <2>2, <2>3, <2>4, <2>5 DEF Taken
<1> QED
  BY <1>1, <1>2

\* Kahn's loop ends with different names, each after those it depends on, and
\* none is ready.
LEMMA SortedFacts ==
    ASSUME ManifestTypes, NEW all \in SUBSET Things
    PROVE  Sorted(all) \in Taken(all, Cardinality(all)) /\ Ready(all, Sorted(all)) = {}
<1> DEFINE n == Cardinality(all)
           S == [i \in 0 .. n |-> Taken(all, i)]
           turn == [x \in Seq(all) \X (1 .. n) |-> TakeReady(all, x[1])]
           IsLoop(h) == h = [i \in 0 .. n |-> IF i = 0 THEN << >> ELSE TakeReady(all, h[i - 1])]
<1>0. n \in Nat /\ IsFiniteSet(all)
  <2>1. IsFiniteSet(all)
    BY FS_Subset, ThingsAreNumbers
  <2> QED
    BY <2>1, FS_CardinalityType
<1> HIDE DEF n
<1>1. << >> \in S[0]
  BY <1>0 DEF Taken, Distinct, InTurn
<1>2. ASSUME NEW i \in 1 .. n, NEW f \in S[i - 1]
      PROVE  turn[<<f, i>>] = TakeReady(all, f) /\ TakeReady(all, f) \in S[i]
  <2>0. i - 1 \in 0 .. n /\ i \in 0 .. n /\ i - 1 \in Nat /\ i - 1 + 1 = i
    BY <1>0
  <2>1. f \in Taken(all, i - 1) /\ f \in Seq(all)
    BY <2>0 DEF Taken
  <2>2. TakeReady(all, f) \in Taken(all, i - 1 + 1)
    BY <2>0, <2>1, ReadyIsTaken
  <2> QED
    BY <2>0, <2>1, <2>2
<1> HIDE DEF turn, S
<1>3. PICK g : /\ g = [i \in 0 .. n |-> IF i = 0 THEN << >> ELSE turn[<<g[i - 1], i>>]]
               /\ \A i \in 0 .. n : g[i] \in S[i]
  <2>1. Turns(n, S, << >>, turn)
    BY <1>1, <1>2 DEF Turns
  <2>2. \E g : RunOf(g, n, S, << >>, turn)
    BY <1>0, <2>1, LoopRuns
  <2> QED
    BY <2>2 DEF RunOf
<1>4. \A i \in 0 .. n : g[i] = IF i = 0 THEN << >> ELSE TakeReady(all, g[i - 1])
  <2> TAKE i \in 0 .. n
  <2>1. g[i] = IF i = 0 THEN << >> ELSE turn[<<g[i - 1], i>>]
    BY <1>3
  <2>2. CASE i = 0
    BY <2>1, <2>2
  <2>3. CASE i # 0
    <3>1. i \in 1 .. n /\ i - 1 \in 0 .. n
      BY <1>0, <2>3
    <3>2. g[i - 1] \in S[i - 1]
      BY <1>3, <3>1
    <3>3. turn[<<g[i - 1], i>>] = TakeReady(all, g[i - 1])
      BY <1>2, <3>1, <3>2
    <3> QED
      BY <2>1, <2>3, <3>3
  <2> QED
    BY <2>2, <2>3
<1>5. IsLoop(g)
  <2>1. g = [i \in 0 .. n |-> g[i]]
    BY <1>3
  <2> QED
    BY <1>4, <2>1
<1>6. Sorted(all) = (CHOOSE h : IsLoop(h))[n]
  BY DEF Sorted, n
<1> DEFINE loop == CHOOSE h : IsLoop(h)
<1>7. IsLoop(loop)
  <2> HIDE DEF IsLoop
  <2> QED
    BY <1>5
<1> HIDE DEF loop
<1>8. loop[0] = << >>
  BY <1>0, <1>7
<1>9. ASSUME NEW i \in 1 .. n, loop[i - 1] \in S[i - 1]
      PROVE  loop[i] \in S[i]
  <2>1. i \in 0 .. n /\ i # 0
    BY <1>0
  <2>2. loop[i] = TakeReady(all, loop[i - 1])
    BY <1>7, <2>1
  <2> QED
    BY <1>2, <1>9, <2>2
<1>10. loop[n] \in S[n]
  <2> HIDE DEF IsLoop
  <2> QED
    BY <1>0, <1>1, <1>8, <1>9, LoopKeeps
<1> DEFINE r == Sorted(all)
<1>11. r \in Taken(all, n)
  BY <1>0, <1>6, <1>10 DEF loop, S
<1> HIDE DEF r
<1>12. Ready(all, r) = {}
  <2>1. CASE Len(r) = n
    <3>1. ToSet(r) = all
      BY <1>0, <1>11, <2>1, AllOfThem DEF Taken, n
    <3> QED
      BY <3>1 DEF Ready
  <2> QED
    BY <1>11, <2>1 DEF Taken
<1> QED
  BY <1>11, <1>12 DEF r, n

\* Kahn's loop takes all, each after those it depends on, or there is a cycle.
LEMMA SortedOrCyclic ==
    ASSUME ManifestTypes, NEW all \in SUBSET Things, DepsClosed(all)
    PROVE  IF Cyclic(Deps, all) THEN Len(Sorted(all)) # Cardinality(all)
                          ELSE Orders(Deps, Sorted(all), all)
<1> DEFINE r == Sorted(all)  m == Len(r)
<1>1. r \in Taken(all, Cardinality(all)) /\ Ready(all, r) = {}
  BY SortedFacts
<1> HIDE DEF r
<1>2. /\ r \in Seq(all) /\ m \in Nat /\ DOMAIN r = 1 .. m /\ Distinct(r)
      /\ InTurn(Deps, r)
  BY <1>1 DEF Taken
<1>3. IsFiniteSet(all)
  BY FS_Subset, ThingsAreNumbers
<1>4. m = Cardinality(all) <=> ToSet(r) = all
  BY <1>2, <1>3, AllOfThem
<1>5. ~ Cyclic(Deps, ToSet(r)) /\ DepsFirst(Deps, r)
  BY <1>2, OrderedIsAcyclic
<1>6. ASSUME ToSet(r) # all
      PROVE  Cyclic(Deps, all)
  <2> DEFINE t == all \ ToSet(r)
  <2>1. t # {} /\ t \in SUBSET all
    BY <1>2, <1>6 DEF ToSet
  <2>2. ASSUME NEW n \in t PROVE Deps[n] \cap t # {}
    <3>1. ~ (Deps[n] \subseteq ToSet(r))
      BY <1>1, <2>2 DEF Ready
    <3>2. Deps[n] \subseteq all
      BY <2>2 DEF DepsClosed
    <3> QED
      BY <3>1, <3>2
  <2> QED
    BY <2>1, <2>2 DEF Cyclic
<1>7. CASE Cyclic(Deps, all)
  BY <1>4, <1>5, <1>7 DEF r
<1>8. CASE ~ Cyclic(Deps, all)
  <2>1. Orders(Deps, r, all)
    BY <1>4, <1>5, <1>6, <1>8 DEF Orders
  <2> QED
    BY <1>8, <2>1 DEF r
<1> QED
  BY <1>7, <1>8

\* What ResolveDependencies answers is right in every state.
LEMMA ResolvedFacts ==
    ASSUME ManifestTypes
    PROVE  PluginsInOrder
<1> DEFINE all == Closure(active)  order == ResolveDependencies(active)
<1>0. active \in SUBSET Things
  BY DEF ManifestTypes
<1>1. AllPlugins(active) = all /\ DepsClosed(all) /\ all \in SUBSET Things
  BY <1>0, AllPluginsFacts
<1>2. order = IF all \subseteq DOMAIN manifest /\ Len(Sorted(all)) = Cardinality(all)
              THEN Sorted(all) ELSE Error
  BY <1>1 DEF ResolveDependencies
<1> HIDE DEF all, order
<1>3. IF Cyclic(Deps, all) THEN Len(Sorted(all)) # Cardinality(all) ELSE Orders(Deps, Sorted(all), all)
  BY <1>1, SortedOrCyclic
<1>4. IF all \subseteq DOMAIN manifest /\ ~ Cyclic(Deps, all) THEN Orders(Deps, order, all) ELSE order = Error
  BY <1>2, <1>3 DEF Orders
<1> QED
  BY <1>4 DEF PluginsInOrder, all, order

\* An entry of the lock file: its SHA says what was pinned.
Entry == {e \in [name : Things, version : Versions, deps : SUBSET Things,
                 sha : Things \X Versions \X (SUBSET Things)] :
             e.sha = <<e.name, e.version, e.deps>>}

\* The lock file holds entries, with their hash.
LockfileInv ==
    /\ lockfile.entries \subseteq Entry
    /\ lockfile.hash = GenerateContentHash(lockfile.entries)

PluginInv == ManifestTypes /\ LockfileInv

\* The hash of entries tells them from all others.
LEMMA HashTells ==
    ASSUME NEW a \in SUBSET Entry, NEW b \in SUBSET Entry,
           GenerateContentHash(a) = GenerateContentHash(b)
    PROVE  a \subseteq b
<1> SUFFICES ASSUME NEW e \in a PROVE e \in b
  OBVIOUS
<1>1. <<e.name, e.version, e.sha>> \in GenerateContentHash(b)
  BY DEF GenerateContentHash
<1>2. PICK f \in b : <<e.name, e.version, e.sha>> = <<f.name, f.version, f.sha>>
  BY <1>1 DEF GenerateContentHash
<1>3. e.name = f.name /\ e.version = f.version /\ e.sha = f.sha
  BY <1>2
<1>4. e.sha = <<e.name, e.version, e.deps>> /\ f.sha = <<f.name, f.version, f.deps>>
  BY DEF Entry
<1>5. e.deps = f.deps
  <2>1. <<e.name, e.version, e.deps>> = <<f.name, f.version, f.deps>>
    BY <1>3, <1>4
  <2> QED
    BY <2>1
<1>6. e = f
  BY <1>3, <1>5 DEF Entry
<1> QED
  BY <1>6

\* The entries of the plugins s, as they are now.
Pins(s) == {[name |-> n, version |-> manifest[n].version,
             deps |-> manifest[n].deps, sha |-> GeneratePluginSHA(n)] : n \in s}

\* Each of them is an entry.
LEMMA PinsAreEntries ==
    ASSUME ManifestTypes, NEW s \in SUBSET DOMAIN manifest
    PROVE  Pins(s) \in SUBSET Entry
<1> SUFFICES ASSUME NEW n \in s
             PROVE  [name |-> n, version |-> manifest[n].version,
                     deps |-> manifest[n].deps, sha |-> GeneratePluginSHA(n)] \in Entry
  BY DEF Pins
<1>1. n \in Things /\ manifest[n].version \in Versions /\ manifest[n].deps \in SUBSET Things
  BY DEF ManifestTypes, Manifest
<1>2. GeneratePluginSHA(n) \in Things \X Versions \X (SUBSET Things)
  BY <1>1 DEF GeneratePluginSHA
<1> QED
  BY <1>1, <1>2 DEF Entry, GeneratePluginSHA

\* What SaveLockfile writes: the plugins that are needed, as they are.
LEMMA GenerateFacts ==
    ASSUME ManifestTypes, ResolveDependencies(active) # Error
    PROVE  /\ Closure(active) \in SUBSET DOMAIN manifest
           /\ GenerateLockfile(active).entries = Pins(Closure(active))
           /\ GenerateLockfile(active).hash = GenerateContentHash(Pins(Closure(active)))
<1> DEFINE all == Closure(active)  order == ResolveDependencies(active)
<1>1. IF all \subseteq DOMAIN manifest /\ ~ Cyclic(Deps, all) THEN Orders(Deps, order, all) ELSE order = Error
  BY ResolvedFacts DEF PluginsInOrder
<1> HIDE DEF all, order
<1>2. order # Error
  BY DEF order
<1>3. all \subseteq DOMAIN manifest /\ ToSet(order) = all
  BY <1>1, <1>2 DEF Orders
<1>4. /\ GenerateLockfile(active).entries = Pins(ToSet(order))
      /\ GenerateLockfile(active).hash = GenerateContentHash(Pins(ToSet(order)))
  BY DEF GenerateLockfile, Pins, order
<1> QED
  BY <1>3, <1>4 DEF all

\* Both are kept by every change of a manifest and by SaveLockfile.
LEMMA PluginInvHolds == PluginSpec => []PluginInv
<1>1. InitDependencies => PluginInv
  <2> SUFFICES ASSUME InitDependencies PROVE PluginInv
    OBVIOUS
  <2>1. ManifestTypes
    BY DEF InitDependencies, ManifestTypes, Manifest, Versions
  <2>2. LockfileInv
    BY DEF InitDependencies, LockfileInv, NoLock, GenerateContentHash
  <2> QED
    BY <2>1, <2>2 DEF PluginInv
<1>2. PluginInv /\ [NextDependencies]_dependencyVars => PluginInv'
  <2> SUFFICES ASSUME PluginInv, [NextDependencies]_dependencyVars PROVE PluginInv'
    OBVIOUS
  <2> USE DEF PluginInv
  <2>1. CASE UNCHANGED dependencyVars
    <3>1. ManifestTypes'
      BY <2>1 DEF ManifestTypes, dependencyVars
    <3>2. LockfileInv'
      BY <2>1 DEF LockfileInv, dependencyVars, GenerateContentHash
    <3> QED
      BY <3>1, <3>2
  <2>2. ASSUME NEW n \in Things, NEW v \in Versions, NEW d \in SUBSET Things,
               DiscoverPlugins(n, v, d)
        PROVE  PluginInv'
    <3>1. /\ DOMAIN manifest' \subseteq Things
          /\ \A m \in DOMAIN manifest' : manifest'[m] \in Manifest
      <4>1. CASE manifest' = [m \in DOMAIN manifest \cup {n} |->
                                 IF m = n THEN [version |-> v, deps |-> d] ELSE manifest[m]]
        BY <4>1 DEF ManifestTypes, Manifest
      <4>2. CASE manifest' = [m \in DOMAIN manifest \ {n} |-> manifest[m]]
        BY <4>2 DEF ManifestTypes
      <4> QED
        BY <2>2, <4>1, <4>2 DEF DiscoverPlugins
    <3>2. active' = active /\ lockfile' = lockfile
      BY <2>2 DEF DiscoverPlugins
    <3>3. ManifestTypes'
      BY <3>1, <3>2 DEF ManifestTypes
    <3>4. LockfileInv'
      BY <3>2 DEF LockfileInv, GenerateContentHash
    <3> QED
      BY <3>3, <3>4
  <2>3. CASE SaveLockfile
    <3>1. lockfile' = GenerateLockfile(active) /\ UNCHANGED <<manifest, active>>
          /\ ResolveDependencies(active) # Error
      BY <2>3 DEF SaveLockfile
    <3>2. ManifestTypes'
      BY <3>1 DEF ManifestTypes
    <3> DEFINE pins == Pins(Closure(active))
    <3>3. lockfile'.entries = pins /\ lockfile'.hash = GenerateContentHash(pins)
          /\ Closure(active) \in SUBSET DOMAIN manifest
      BY <3>1, GenerateFacts
    <3> HIDE DEF pins
    <3>4. pins \in SUBSET Entry
      BY <3>3, PinsAreEntries DEF pins
    <3>5. LockfileInv'
      BY <3>3, <3>4 DEF LockfileInv, GenerateContentHash
    <3> QED
      BY <3>2, <3>5
  <2> QED
    BY <2>1, <2>2, <2>3 DEF NextDependencies
<1> QED
  BY <1>1, <1>2, PTL DEF PluginSpec

\* ResolveDependencies puts every plugin that is needed after those it depends
\* on, once, and answers with an error if one of them is missing or waits for
\* itself, whatever the manifests are (registry.go:103-183).
THEOREM PluginsAreInOrder == PluginSpec => []PluginsInOrder
<1>1. PluginInv => PluginsInOrder
  BY ResolvedFacts DEF PluginInv
<1> QED
  BY <1>1, PluginInvHolds, PTL

\* A lock file that passes for up to date pins every needed plugin as it is now
\* (manager.go:54-103, 154-169).
THEOREM LockfileIsCurrent == PluginSpec => []UpToDateIsCurrent
<1>1. PluginInv => UpToDateIsCurrent
  <2> SUFFICES ASSUME PluginInv, IsUpToDate(active)
               PROVE  /\ VerifyIntegrity(lockfile)
                      /\ lockfile.entries = Pins(Closure(active))
    BY DEF UpToDateIsCurrent, Pins
  <2> DEFINE pins == Pins(Closure(active))
  <2>1. /\ Closure(active) \in SUBSET DOMAIN manifest
        /\ lockfile.hash = GenerateContentHash(pins)
    <3>1. ResolveDependencies(active) # Error /\ lockfile.hash = GenerateLockfile(active).hash
      BY DEF IsUpToDate
    <3> QED
      BY <3>1, GenerateFacts DEF PluginInv
  <2>2. pins \in SUBSET Entry
    BY <2>1, PinsAreEntries DEF PluginInv
  <2> HIDE DEF pins
  <2>3. /\ lockfile.entries \in SUBSET Entry
        /\ lockfile.hash = GenerateContentHash(lockfile.entries)
    BY DEF PluginInv, LockfileInv
  <2>4. lockfile.entries = pins
    <3>1. lockfile.entries \subseteq pins
      BY <2>1, <2>2, <2>3, HashTells
    <3>2. pins \subseteq lockfile.entries
      BY <2>1, <2>2, <2>3, HashTells
    <3> QED
      BY <3>1, <3>2
  <2> QED
    BY <2>3, <2>4 DEF VerifyIntegrity, pins
<1> QED
  BY <1>1, PluginInvHolds, PTL

-----------------------------------------------------------------------------
(* The services.                                                           *)

\* Lists of what each name depends on, as sets, and all names there are then.
Graphs == [Things -> Seq(Things)]
NeedsOf(graph) == [n \in Things |-> ToSet(graph[n])]
AllOf(graph, services) == ToSet(services) \cup UNION {NeedsOf(graph)[n] : n \in Things}

\* The stack is a path, without repetitions; the order respects the dependencies.
VisitState(graph, services) ==
    {st \in [stack : Seq(AllOf(graph, services)), result : Seq(AllOf(graph, services)),
             failed : BOOLEAN] :
        /\ Distinct(st.stack) /\ Distinct(st.result)
        /\ ToSet(st.stack) \cap ToSet(st.result) = {}
        /\ InTurn(NeedsOf(graph), st.result)
        /\ \A i \in 1 .. Len(st.stack) - 1 : st.stack[i + 1] \in NeedsOf(graph)[st.stack[i]]}

\* All services have been visited.
Settled(services, st) == st.stack = << >> /\ ToSet(services) \subseteq ToSet(st.result)
\* The turns so far: one for a name that is on the stack, two for one in the order.
Moved(st) == Len(st.stack) + 2 * Len(st.result)

\* After k turns: a cycle was met, or all is done, or every turn entered or left a name.
AfterVisits(graph, services, k) ==
    {st \in VisitState(graph, services) :
        IF st.failed THEN Cyclic(NeedsOf(graph), AllOf(graph, services))
        ELSE Settled(services, st) \/ Moved(st) = k}

LEMMA GraphFacts ==
    ASSUME NEW graph \in Graphs, NEW services \in Seq(Things)
    PROVE  /\ AllOf(graph, services) \in SUBSET Things
           /\ ToSet(services) \subseteq AllOf(graph, services)
           /\ \A n \in Things : /\ NeedsOf(graph)[n] = ToSet(graph[n])
                                /\ NeedsOf(graph)[n] \subseteq AllOf(graph, services)
                                /\ graph[n] \in Seq(Things)
<1>1. \A s \in Seq(Things) : ToSet(s) \subseteq Things
  BY DEF ToSet
<1>2. \A n \in Things : graph[n] \in Seq(Things)
  BY DEF Graphs
<1> QED
  BY <1>1, <1>2 DEF NeedsOf, AllOf

\* A path whose last depends on one of it closes a cycle.
LEMMA PathCycle ==
    ASSUME NEW graph, NEW services, NEW st \in VisitState(graph, services),
           NEW n \in ToSet(st.stack), n \in NeedsOf(graph)[Last(st.stack)]
    PROVE  Cyclic(NeedsOf(graph), AllOf(graph, services))
<1> DEFINE s == st.stack  m == Len(s)  deps == NeedsOf(graph)  all == AllOf(graph, services)
<1> HIDE DEF deps, all
<1>1. /\ s \in Seq(all) /\ m \in Nat /\ DOMAIN s = 1 .. m
      /\ \A i \in 1 .. m - 1 : s[i + 1] \in deps[s[i]]
      /\ n \in deps[s[m]]
  BY DEF VisitState, Last, deps, all
<1>2. PICK p \in 1 .. m : s[p] = n
  BY <1>1 DEF ToSet
<1> HIDE DEF s
<1> DEFINE t == {s[i] : i \in p .. m}
<1>3. t \in SUBSET all /\ t # {}
  BY <1>1, <1>2
<1>4. ASSUME NEW i \in p .. m PROVE deps[s[i]] \cap t # {}
  <2>1. CASE i = m
    BY <1>1, <1>2, <2>1
  <2>2. CASE i # m
    <3>1. i \in 1 .. m - 1 /\ i + 1 \in p .. m
      <4>1. m \in Nat /\ p \in 1 .. m /\ i \in p .. m /\ i # m
        BY <1>1, <1>2, <2>2
      <4> HIDE DEF m
      <4> QED
        BY <4>1
    <3> QED
      BY <1>1, <3>1
  <2> QED
    BY <2>1, <2>2
<1>5. Cyclic(deps, all)
  <2>1. \A x \in t : deps[x] \cap t # {}
    BY <1>4
  <2> HIDE DEF t
  <2> QED
    BY <1>3, <2>1 DEF Cyclic
<1> QED
  BY <1>5 DEF deps, all

\* The next name is one of the list that is not visited, if there is one.
LEMMA NextNameFacts ==
    ASSUME NEW graph \in Graphs, NEW services \in Seq(Things), NEW visited, NEW st,
           st.stack = << >> \/ Last(st.stack) \in Things
    PROVE  LET names == IF st.stack = << >> THEN services ELSE graph[Last(st.stack)]
               n == NextName(graph, services, st, visited)
           IN  IF ToSet(names) \subseteq visited THEN n = NoName
               ELSE n # NoName /\ n \in ToSet(names) \ visited
<1> DEFINE names == IF st.stack = << >> THEN services ELSE graph[Last(st.stack)]
           left == {i \in 1 .. Len(names) : names[i] \notin visited}
           n == NextName(graph, services, st, visited)
<1>1. n = IF left = {} THEN NoName ELSE names[Min(left)]
  BY DEF NextName
<1>2. names \in Seq(Things)
  BY DEF Graphs
<1> HIDE DEF n, names
<1>3. ToSet(names) = {names[i] : i \in 1 .. Len(names)} /\ ToSet(names) \subseteq Things
  BY <1>2 DEF ToSet
<1>4. CASE left = {}
  BY <1>1, <1>3, <1>4 DEF n, names
<1>5. CASE left # {}
  <2>1. left \in SUBSET Nat
    OBVIOUS
  <2>2. \E x \in left : \A y \in left : x <= y
    <3> HIDE DEF left
    <3> QED
      BY <1>5, <2>1, SmallestOf
  <2>3. Min(left) \in left
    <3> HIDE DEF left
    <3> QED
      BY <2>2 DEF Min
  <2>4. n = names[Min(left)] /\ n \in ToSet(names) /\ n \notin visited
    BY <1>1, <1>3, <1>5, <2>3
  <2>5. n # NoName
    BY <1>3, <2>4, ThingsAreNumbers DEF NoName
  <2> QED
    BY <2>4, <2>5 DEF n, names
<1> QED
  BY <1>4, <1>5

\* A name is entered.
LEMMA EnterFacts ==
    ASSUME NEW graph \in Graphs, NEW services \in Seq(Things), NEW k \in Nat,
           NEW st \in AfterVisits(graph, services, k), ~ st.failed,
           NEW n \in AllOf(graph, services), n \notin ToSet(st.stack), n \notin ToSet(st.result),
           IF st.stack = << >> THEN n \in ToSet(services) ELSE n \in NeedsOf(graph)[Last(st.stack)]
    PROVE  [st EXCEPT !.stack = Append(@, n)] \in AfterVisits(graph, services, k + 1)
<1> DEFINE s == st.stack  m == Len(s)  deps == NeedsOf(graph)  all == AllOf(graph, services)
           q == Append(s, n)  u == [st EXCEPT !.stack = Append(@, n)]
<1> HIDE DEF deps, all
<1>1. /\ st \in [stack : Seq(all), result : Seq(all), failed : BOOLEAN]
      /\ Distinct(s) /\ Distinct(st.result) /\ ToSet(s) \cap ToSet(st.result) = {}
      /\ InTurn(deps, st.result)
      /\ \A i \in 1 .. m - 1 : s[i + 1] \in deps[s[i]]
  BY DEF AfterVisits, VisitState, deps, all
<1>2. s \in Seq(all) /\ m \in Nat /\ Len(st.result) \in Nat
  BY <1>1
<1>3. n \in all /\ IF s = << >> THEN n \in ToSet(services) ELSE n \in deps[s[m]]
  BY DEF Last, deps, all
<1>4. u.stack = q /\ u.result = st.result /\ u.failed = FALSE
      /\ u \in [stack : Seq(all), result : Seq(all), failed : BOOLEAN]
  <2>1. q \in Seq(all)
    BY <1>2, <1>3
  <2>2. u = [st EXCEPT !.stack = q]
    OBVIOUS
  <2> HIDE DEF q, u
  <2> QED
    BY <1>1, <2>1, <2>2
<1> HIDE DEF u
<1>5. /\ q \in Seq(all) /\ Distinct(q) /\ Len(q) = m + 1 /\ q[Len(q)] = n
      /\ \A i \in 1 .. m : q[i] = s[i]
      /\ ToSet(q) = ToSet(s) \cup {n}
  BY <1>1, <1>2, <1>3, AppendFacts
<1> HIDE DEF q
<1>6. ASSUME NEW i \in 1 .. Len(q) - 1 PROVE q[i + 1] \in deps[q[i]]
  <2>1. CASE i = m
    <3>1. m # 0 /\ q[i + 1] = n /\ q[i] = s[m]
      <4>1. m \in Nat /\ i \in 1 .. m /\ Len(q) = m + 1 /\ m # 0
        BY <1>2, <1>5, <2>1
      <4> HIDE DEF m
      <4> QED
        BY <1>5, <2>1, <4>1
    <3>2. s # << >>
      BY <3>1
    <3> QED
      BY <1>3, <3>1, <3>2
  <2>2. CASE i # m
    <3>1. i \in 1 .. m - 1 /\ i + 1 \in 1 .. m /\ i \in 1 .. m
      BY <1>2, <1>5, <2>2
    <3> QED
      BY <1>1, <1>5, <3>1
  <2> QED
    BY <2>1, <2>2
<1>7. u \in VisitState(graph, services)
  <2>1. ToSet(u.stack) \cap ToSet(u.result) = {}
    BY <1>1, <1>4, <1>5
  <2> QED
    BY <1>1, <1>4, <1>5, <1>6, <2>1 DEF VisitState, deps, all
<1>8. Moved(st) = k
  <2>1. ~ Settled(services, st)
    BY <1>3 DEF Settled
  <2> QED
    BY <2>1 DEF AfterVisits
<1>9. Moved(u) = k + 1
  <2> DEFINE l == Len(st.result)
  <2>1. Moved(u) = m + 1 + 2 * l /\ Moved(st) = m + 2 * l /\ l \in Nat
    BY <1>2, <1>4, <1>5 DEF Moved
  <2> HIDE DEF m, l
  <2> QED
    BY <1>2, <1>8, <2>1
<1>10. u \in AfterVisits(graph, services, k + 1)
  BY <1>4, <1>7, <1>9 DEF AfterVisits
<1> QED
  BY <1>10 DEF u

\* A name is left, when all it depends on is in the order.
LEMMA LeaveFacts ==
    ASSUME NEW graph \in Graphs, NEW services \in Seq(Things), NEW k \in Nat,
           NEW st \in AfterVisits(graph, services, k), ~ st.failed,
           st.stack # << >>, NeedsOf(graph)[Last(st.stack)] \subseteq ToSet(st.result)
    PROVE  Visited(st) \in AfterVisits(graph, services, k + 1)
<1> DEFINE s == st.stack  m == Len(s)  r == st.result
           deps == NeedsOf(graph)  all == AllOf(graph, services)
           f == Front(s)  n == Last(s)  q == Append(r, n)  u == Visited(st)
<1> HIDE DEF deps, all
<1>1. /\ st \in [stack : Seq(all), result : Seq(all), failed : BOOLEAN]
      /\ Distinct(s) /\ Distinct(r) /\ ToSet(s) \cap ToSet(r) = {}
      /\ InTurn(deps, r)
      /\ \A i \in 1 .. m - 1 : s[i + 1] \in deps[s[i]]
  BY DEF AfterVisits, VisitState, deps, all
<1>2. s \in Seq(all) /\ r \in Seq(all) /\ m \in Nat /\ m # 0 /\ Len(r) \in Nat /\ DOMAIN s = 1 .. m
  BY <1>1
<1>3. f \in Seq(all) /\ Len(f) = m - 1 /\ \A i \in 1 .. m - 1 : f[i] = s[i]
  <2>1. f = SubSeq(s, 1, m - 1)
    BY DEF Front
  <2> HIDE DEF s, f
  <2> QED
    BY <1>2, <2>1
<1>4. n = s[m] /\ n \in all /\ n \in ToSet(s)
  <2>1. n = s[m] /\ m \in DOMAIN s
    BY <1>2 DEF Last
  <2> HIDE DEF n, s
  <2> QED
    BY <1>2, <2>1 DEF ToSet
<1>5. u.stack = f /\ u.result = q /\ u.failed = FALSE
      /\ (q \in Seq(all) => u \in [stack : Seq(all), result : Seq(all), failed : BOOLEAN])
  BY <1>1, <1>3 DEF Visited
<1> HIDE DEF u, f, n
<1>6. n \notin ToSet(r) /\ deps[n] \subseteq ToSet(r)
  BY <1>1, <1>4 DEF deps, n
<1>7. /\ q \in Seq(all) /\ Distinct(q) /\ Len(q) = Len(r) + 1 /\ ToSet(q) = ToSet(r) \cup {n}
  BY <1>1, <1>2, <1>4, <1>6, AppendFacts
<1>8. InTurn(deps, q)
  BY <1>1, <1>2, <1>4, <1>6, AppendInTurn
<1> HIDE DEF q
<1>9. Distinct(f)
  BY <1>1, <1>2, <1>3 DEF Distinct
<1>10. ToSet(f) \subseteq ToSet(s) \ {n}
  <2>0. ToSet(f) = {f[i] : i \in 1 .. m - 1}
    BY <1>3 DEF ToSet
  <2> SUFFICES ASSUME NEW i \in 1 .. m - 1 PROVE f[i] \in ToSet(s) \ {n}
    BY <2>0
  <2>1. i \in 1 .. m /\ m \in 1 .. m /\ i # m
    BY <1>2
  <2> QED
    BY <1>1, <1>2, <1>3, <1>4, <2>1 DEF ToSet, Distinct
<1>11. \A i \in 1 .. Len(f) - 1 : f[i + 1] \in deps[f[i]]
  <2> SUFFICES ASSUME NEW i \in 1 .. m - 2 PROVE f[i + 1] \in deps[f[i]]
    BY <1>2, <1>3
  <2>1. i \in 1 .. m - 1 /\ i + 1 \in 1 .. m - 1
    BY <1>2
  <2> QED
    BY <1>1, <1>3, <2>1
<1>12. u \in VisitState(graph, services)
  <2>1. ToSet(u.stack) \cap ToSet(u.result) = {}
    BY <1>1, <1>5, <1>7, <1>10
  <2> QED
    BY <1>5, <1>7, <1>8, <1>9, <1>11, <2>1 DEF VisitState, deps, all
<1>13. Moved(st) = k
  BY DEF AfterVisits, Settled
<1>14. Moved(u) = k + 1
  <2>1. Moved(u) = m - 1 + 2 * (Len(r) + 1) /\ Moved(st) = m + 2 * Len(r)
    BY <1>3, <1>5, <1>7 DEF Moved
  <2> HIDE DEF m, r
  <2> QED
    BY <1>2, <1>13, <2>1
<1>15. u \in AfterVisits(graph, services, k + 1)
  BY <1>5, <1>12, <1>14 DEF AfterVisits
<1> QED
  BY <1>15 DEF u

\* What the list of the topmost call is about.
LEMMA TopmostFacts ==
    ASSUME NEW graph \in Graphs, NEW services \in Seq(Things),
           NEW st \in VisitState(graph, services), NEW visited
    PROVE  LET names == IF st.stack = << >> THEN ToSet(services)
                        ELSE NeedsOf(graph)[Last(st.stack)]
               n == NextName(graph, services, st, visited)
           IN  /\ IF names \subseteq visited THEN n = NoName
                  ELSE n # NoName /\ n \in names \ visited
               /\ names \subseteq AllOf(graph, services)
               /\ st.stack # << >> => Last(st.stack) \in Things
<1>1. st.stack \in Seq(AllOf(graph, services)) /\ AllOf(graph, services) \in SUBSET Things
  BY GraphFacts DEF VisitState
<1>2. st.stack # << >> => Last(st.stack) \in Things
  BY <1>1 DEF Last
<1>3. st.stack # << >> => NeedsOf(graph)[Last(st.stack)] = ToSet(graph[Last(st.stack)])
  BY <1>2, GraphFacts
<1>4. CASE st.stack = << >>
  BY <1>4, NextNameFacts, GraphFacts
<1>5. CASE st.stack # << >>
  BY <1>2, <1>3, <1>5, NextNameFacts, GraphFacts
<1> QED
  BY <1>4, <1>5

\* A turn of the agent's visit.
LEMMA VisitTurnFacts ==
    ASSUME NEW graph \in Graphs, NEW services \in Seq(Things), NEW k \in Nat,
           NEW st \in AfterVisits(graph, services, k)
    PROVE  VisitTurn(graph, services, st) \in AfterVisits(graph, services, k + 1)
<1> DEFINE names == IF st.stack = << >> THEN ToSet(services) ELSE NeedsOf(graph)[Last(st.stack)]
           n == NextName(graph, services, st, ToSet(st.result))
           t == VisitTurn(graph, services, st)
<1>0. st \in VisitState(graph, services)
  BY DEF AfterVisits
<1>1. /\ IF names \subseteq ToSet(st.result) THEN n = NoName
         ELSE n # NoName /\ n \in names \ ToSet(st.result)
      /\ names \subseteq AllOf(graph, services)
  BY <1>0, TopmostFacts
<1>2. t = IF st.failed THEN st ELSE IF n # NoName THEN Visit(st, n)
          ELSE IF st.stack = << >> THEN st ELSE Visited(st)
  BY DEF VisitTurn
<1> HIDE DEF t, n
<1>3. CASE st.failed
  <2>1. t = st
    BY <1>2, <1>3
  <2>2. st \in AfterVisits(graph, services, k + 1)
    BY <1>3 DEF AfterVisits
  <2> QED
    BY <2>1, <2>2 DEF t
<1>4. CASE ~ st.failed /\ n # NoName /\ n \in ToSet(st.stack)
  <2>1. t = [st EXCEPT !.failed = TRUE]
    BY <1>2, <1>4 DEF Visit
  <2>2. st.stack # << >>
    BY <1>4 DEF ToSet
  <2>3. n \in NeedsOf(graph)[Last(st.stack)]
    BY <1>1, <1>4, <2>2
  <2>4. Cyclic(NeedsOf(graph), AllOf(graph, services))
    BY <1>0, <1>4, <2>3, PathCycle
  <2> DEFINE all == AllOf(graph, services)
  <2>5. t \in [stack : Seq(all), result : Seq(all), failed : BOOLEAN]
        /\ t.stack = st.stack /\ t.result = st.result /\ t.failed = TRUE
    BY <1>0, <2>1 DEF VisitState
  <2>6. t \in VisitState(graph, services)
    BY <1>0, <2>5 DEF VisitState
  <2> QED
    BY <2>4, <2>5, <2>6 DEF AfterVisits, t
<1>5. CASE ~ st.failed /\ n # NoName /\ n \notin ToSet(st.stack)
  <2>1. t = [st EXCEPT !.stack = Append(@, n)]
    BY <1>2, <1>5 DEF Visit
  <2>2. n \in AllOf(graph, services) /\ n \in names /\ n \notin ToSet(st.result)
    BY <1>1, <1>5
  <2>3. [st EXCEPT !.stack = Append(@, n)] \in AfterVisits(graph, services, k + 1)
    BY <1>5, <2>2, EnterFacts
  <2> QED
    BY <2>1, <2>3 DEF t
<1>6. CASE ~ st.failed /\ n = NoName
  <2>1. names \subseteq ToSet(st.result)
    BY <1>1, <1>6
  <2>2. CASE st.stack = << >>
    <3>1. t = st /\ Settled(services, st)
      BY <1>2, <1>6, <2>1, <2>2 DEF Settled
    <3>2. st \in AfterVisits(graph, services, k + 1)
      BY <1>6, <3>1 DEF AfterVisits
    <3> QED
      BY <3>1, <3>2 DEF t
  <2>3. CASE st.stack # << >>
    <3>1. t = Visited(st)
      BY <1>2, <1>6, <2>3
    <3>2. NeedsOf(graph)[Last(st.stack)] \subseteq ToSet(st.result)
      BY <2>1, <2>3
    <3>3. Visited(st) \in AfterVisits(graph, services, k + 1)
      BY <1>6, <2>3, <3>2, LeaveFacts
    <3> QED
      BY <3>1, <3>3 DEF t
  <2> QED
    BY <2>2, <2>3
<1> QED
  BY <1>3, <1>4, <1>5, <1>6 DEF t

\* A turn of the orchestrator's is the same, if there is no cycle.
LEMMA OrchestrateTurnFacts ==
    ASSUME NEW graph \in Graphs, NEW services \in Seq(Things), NEW k \in Nat,
           NEW st \in AfterVisits(graph, services, k),
           ~ Cyclic(NeedsOf(graph), AllOf(graph, services))
    PROVE  OrchestrateTurn(graph, services, st) = VisitTurn(graph, services, st)
<1> DEFINE names == IF st.stack = << >> THEN ToSet(services) ELSE NeedsOf(graph)[Last(st.stack)]
           n == NextName(graph, services, st, ToSet(st.result))
           o == NextName(graph, services, st, Marked(st))
<1>0. st \in VisitState(graph, services) /\ ~ st.failed
  BY DEF AfterVisits
<1>1. names \cap ToSet(st.stack) = {}
  <2>1. CASE st.stack = << >>
    BY <2>1 DEF ToSet
  <2>2. CASE st.stack # << >>
    BY <1>0, <2>2, PathCycle
  <2> QED
    BY <2>1, <2>2
<1>2. OrchestrateTurn(graph, services, st) =
          IF o # NoName THEN [st EXCEPT !.stack = Append(@, o)]
          ELSE IF st.stack = << >> THEN st ELSE Visited(st)
  BY DEF OrchestrateTurn, Visited
<1>3. o = n
  <2> DEFINE l == IF st.stack = << >> THEN services ELSE graph[Last(st.stack)]
             left == {i \in 1 .. Len(l) : l[i] \notin ToSet(st.result)}
             open == {i \in 1 .. Len(l) : l[i] \notin Marked(st)}
  <2>1. /\ n = IF left = {} THEN NoName ELSE l[Min(left)]
        /\ o = IF open = {} THEN NoName ELSE l[Min(open)]
    BY DEF NextName
  <2>2. names = ToSet(l) /\ l \in Seq(Things)
    BY <1>0, TopmostFacts, GraphFacts
  <2> HIDE DEF l, names
  <2>3. \A i \in 1 .. Len(l) : l[i] \notin ToSet(st.stack)
    <3>1. \A i \in 1 .. Len(l) : l[i] \in ToSet(l)
      BY <2>2 DEF ToSet
    <3> QED
      BY <1>1, <2>2, <3>1
  <2>4. left = open
    BY <2>3 DEF Marked
  <2> HIDE DEF left, open, n, o
  <2> QED
    BY <2>1, <2>4
<1>4. n # NoName => Visit(st, n) = [st EXCEPT !.stack = Append(@, n)]
  <2>1. n # NoName => n \in names
    BY <1>0, TopmostFacts
  <2> QED
    BY <1>1, <2>1 DEF Visit
<1>5. VisitTurn(graph, services, st) =
          IF n # NoName THEN Visit(st, n)
          ELSE IF st.stack = << >> THEN st ELSE Visited(st)
  <2>1. VisitTurn(graph, services, st) =
            IF st.failed THEN st ELSE IF n # NoName THEN Visit(st, n)
            ELSE IF st.stack = << >> THEN st ELSE Visited(st)
    BY DEF VisitTurn
  <2> HIDE DEF n
  <2> QED
    BY <1>0, <2>1
<1> HIDE DEF names, n, o
<1>6. CASE n = NoName
  BY <1>2, <1>3, <1>5, <1>6
<1>7. CASE n # NoName
  BY <1>2, <1>3, <1>4, <1>5, <1>7
<1> QED
  BY <1>6, <1>7

\* A state in which nothing moves any more: all is in the order.
LEMMA EndFacts ==
    ASSUME NEW graph \in Graphs, NEW services \in Seq(Things),
           NEW st \in AfterVisits(graph, services, Moves),
           \A n \in Things : n \notin ToSet(services) => graph[n] = << >>
    PROVE  IF Cyclic(NeedsOf(graph), AllOf(graph, services)) THEN st.failed
           ELSE /\ ~ st.failed
                /\ Orders(NeedsOf(graph), st.result, AllOf(graph, services))
<1> DEFINE s == st.stack  r == st.result  deps == NeedsOf(graph)  all == AllOf(graph, services)
           N == Cardinality(Things)
<1>0. /\ all \in SUBSET Things /\ ToSet(services) \subseteq all
      /\ \A n \in Things : deps[n] = ToSet(graph[n])
      /\ all = ToSet(services) \cup UNION {deps[n] : n \in Things}
  BY GraphFacts DEF AllOf
<1> HIDE DEF deps, all
<1>1. /\ s \in Seq(all) /\ r \in Seq(all) /\ st.failed \in BOOLEAN
      /\ Distinct(s) /\ Distinct(r) /\ ToSet(s) \cap ToSet(r) = {} /\ InTurn(deps, r)
  BY DEF AfterVisits, VisitState, deps, all
<1> HIDE DEF s, r
<1>2. Len(s) \in Nat /\ Len(r) \in Nat /\ IsFiniteSet(all) /\ N \in Nat
      /\ ToSet(s) \subseteq all /\ ToSet(r) \subseteq all
  <2>1. IsFiniteSet(all) /\ N \in Nat
    BY <1>0, FS_Subset, FS_CardinalityType, ThingsAreNumbers
  <2>2. ToSet(s) \subseteq all /\ ToSet(r) \subseteq all
    BY <1>1 DEF ToSet
  <2> QED
    BY <1>1, <2>1, <2>2
<1> HIDE DEF N
<1>3. ASSUME st.failed PROVE Cyclic(deps, all)
  BY <1>3 DEF AfterVisits, deps, all
<1>4. ASSUME ~ st.failed PROVE ToSet(services) \subseteq ToSet(r)
  <2>1. CASE Settled(services, st)
    BY <2>1 DEF Settled, r
  <2>2. CASE Moved(st) = Moves
    <3>1. Len(r) <= Cardinality(ToSet(r)) /\ Len(s) <= Cardinality(ToSet(s))
      <4>1. \A q \in Seq(all) : q \in Seq(ToSet(q)) /\ ToSet(q) \subseteq all
        BY DEF ToSet
      <4>2. \A q \in Seq(all) : IsFiniteSet(ToSet(q))
        BY <1>2, <4>1, FS_Subset
      <4> QED
        BY <1>1, <4>1, <4>2, AllOfThem
    <3>2. /\ Cardinality(ToSet(s) \cup ToSet(r)) = Cardinality(ToSet(s)) + Cardinality(ToSet(r))
          /\ Cardinality(ToSet(s)) \in Nat /\ Cardinality(ToSet(r)) \in Nat
      <4>1. IsFiniteSet(ToSet(s)) /\ IsFiniteSet(ToSet(r))
        BY <1>2, FS_Subset
      <4>2. Cardinality(ToSet(s) \cap ToSet(r)) = 0
        BY <1>1, FS_EmptySet
      <4>3. Cardinality(ToSet(s)) \in Nat /\ Cardinality(ToSet(r)) \in Nat
        BY <4>1, FS_CardinalityType
      <4>4. Cardinality(ToSet(s) \cup ToSet(r)) =
               Cardinality(ToSet(s)) + Cardinality(ToSet(r)) - Cardinality(ToSet(s) \cap ToSet(r))
        BY <4>1, FS_Union
      <4> QED
        BY <4>2, <4>3, <4>4
    <3>3. Cardinality(ToSet(s) \cup ToSet(r)) <= Cardinality(all) /\ Cardinality(all) <= N
          /\ Cardinality(all) \in Nat
      BY <1>0, <1>2, FS_Subset, FS_CardinalityType, ThingsAreNumbers DEF N
    <3>4. Len(s) + 2 * Len(r) = 2 * N
      BY <2>2 DEF Moved, Moves, s, r, N
    <3>5. Len(r) = Cardinality(all)
      <4> DEFINE a == Len(s)  b == Len(r)  c == Cardinality(ToSet(s))  d == Cardinality(ToSet(r))
                 e == Cardinality(ToSet(s) \cup ToSet(r))  g == Cardinality(all)
      <4>1. /\ a \in Nat /\ b \in Nat /\ c \in Nat /\ d \in Nat /\ g \in Nat /\ N \in Nat
            /\ b <= d /\ a <= c /\ e = c + d /\ e <= g /\ g <= N /\ a + 2 * b = 2 * N
        BY <1>2, <3>1, <3>2, <3>3, <3>4
      <4> HIDE DEF a, b, c, d, e, g
      <4>2. b = g
        BY <4>1
      <4> QED
        BY <4>2 DEF b, g
    <3>6. ToSet(r) = all
      BY <1>1, <1>2, <3>5, AllOfThem
    <3> QED
      BY <1>0, <3>6
  <2> QED
    BY <1>4, <2>1, <2>2 DEF AfterVisits
<1>5. ASSUME ~ st.failed PROVE ToSet(r) = all
  <2>1. ASSUME NEW n \in Things PROVE deps[n] \subseteq ToSet(r)
    <3>1. CASE n \in ToSet(services)
      <4>0. n \in ToSet(r)
        BY <1>4, <1>5, <3>1
      <4>1. PICK i \in 1 .. Len(r) : r[i] = n
        BY <1>1, <4>0 DEF ToSet
      <4>2. deps[n] \subseteq {r[j] : j \in 1 .. i - 1}
        BY <1>1, <4>1 DEF InTurn
      <4>3. \A j \in 1 .. i - 1 : r[j] \in ToSet(r)
        BY <1>1, <1>2, <4>1 DEF ToSet
      <4> QED
        BY <4>2, <4>3
    <3>2. CASE n \notin ToSet(services)
      BY <1>0, <3>2 DEF ToSet
    <3> QED
      BY <3>1, <3>2
  <2> QED
    BY <1>0, <1>2, <1>4, <1>5, <2>1
<1>6. ASSUME ~ st.failed PROVE ~ Cyclic(deps, all) /\ Orders(deps, r, all)
  <2>1. ~ Cyclic(deps, ToSet(r)) /\ DepsFirst(deps, r)
    BY <1>1, OrderedIsAcyclic
  <2>2. Len(r) = Cardinality(all)
    BY <1>1, <1>2, <1>5, <1>6, AllOfThem
  <2> QED
    BY <1>5, <1>6, <2>1, <2>2 DEF Orders
<1>7. IF Cyclic(deps, all) THEN st.failed ELSE ~ st.failed /\ Orders(deps, r, all)
  BY <1>1, <1>3, <1>6
<1> QED
  BY <1>7 DEF deps, all, r

\* The state of the agent's visit after each turn.
VisitLoop(graph, services, h) ==
    h = [k \in 0 .. Moves |-> IF k = 0 THEN Nothing ELSE VisitTurn(graph, services, h[k - 1])]

LEMMA VisitLoopFacts ==
    ASSUME NEW graph \in Graphs, NEW services \in Seq(Things)
    PROVE  LET loop == CHOOSE h : VisitLoop(graph, services, h) IN
           /\ VisitLoop(graph, services, loop)
           /\ \A k \in 0 .. Moves : loop[k] \in AfterVisits(graph, services, k)
<1> DEFINE n == Moves
           S == [i \in 0 .. n |-> AfterVisits(graph, services, i)]
           turn == [x \in VisitState(graph, services) \X (1 .. n) |-> VisitTurn(graph, services, x[1])]
           loop == CHOOSE h : VisitLoop(graph, services, h)
<1>0. n \in Nat
  <2>1. Cardinality(Things) \in Nat
    BY FS_CardinalityType, ThingsAreNumbers
  <2> QED
    BY <2>1 DEF Moves
<1> HIDE DEF n
<1>1. Nothing \in S[0]
  <2> DEFINE all == AllOf(graph, services)  deps == NeedsOf(graph)
  <2> HIDE DEF all, deps
  <2>1. /\ Nothing \in [stack : Seq(all), result : Seq(all), failed : BOOLEAN]
        /\ Nothing.stack = << >> /\ Nothing.result = << >> /\ ~ Nothing.failed
    BY DEF Nothing
  <2>2. ToSet(<< >>) = {} /\ Distinct(<< >>) /\ InTurn(deps, << >>) /\ Len(<< >>) = 0
    BY DEF ToSet, Distinct, InTurn
  <2>3. Nothing \in VisitState(graph, services)
    BY <2>1, <2>2 DEF VisitState, all, deps
  <2>4. Moved(Nothing) = 0
    BY <2>1, <2>2 DEF Moved
  <2>5. Nothing \in AfterVisits(graph, services, 0)
    BY <2>1, <2>3, <2>4 DEF AfterVisits
  <2> QED
    BY <1>0, <2>5
<1>2. ASSUME NEW i \in 1 .. n, NEW s \in S[i - 1]
      PROVE  turn[<<s, i>>] = VisitTurn(graph, services, s) /\ VisitTurn(graph, services, s) \in S[i]
  <2>0. i - 1 \in 0 .. n /\ i \in 0 .. n /\ i - 1 \in Nat /\ i - 1 + 1 = i
    BY <1>0
  <2>1. s \in AfterVisits(graph, services, i - 1) /\ s \in VisitState(graph, services)
    BY <2>0 DEF AfterVisits
  <2>2. VisitTurn(graph, services, s) \in AfterVisits(graph, services, i - 1 + 1)
    BY <2>0, <2>1, VisitTurnFacts
  <2> QED
    BY <2>0, <2>1, <2>2
<1> HIDE DEF turn, S
<1>3. PICK g : /\ g = [i \in 0 .. n |-> IF i = 0 THEN Nothing ELSE turn[<<g[i - 1], i>>]]
               /\ \A i \in 0 .. n : g[i] \in S[i]
  <2>1. Turns(n, S, Nothing, turn)
    BY <1>1, <1>2 DEF Turns
  <2>2. \E g : RunOf(g, n, S, Nothing, turn)
    BY <1>0, <2>1, LoopRuns
  <2> QED
    BY <2>2 DEF RunOf
<1>4. \A i \in 0 .. n : g[i] = IF i = 0 THEN Nothing ELSE VisitTurn(graph, services, g[i - 1])
  <2> TAKE i \in 0 .. n
  <2>1. g[i] = IF i = 0 THEN Nothing ELSE turn[<<g[i - 1], i>>]
    BY <1>3
  <2>2. CASE i = 0
    BY <2>1, <2>2
  <2>3. CASE i # 0
    <3>1. i \in 1 .. n /\ i - 1 \in 0 .. n
      BY <1>0, <2>3
    <3>2. g[i - 1] \in S[i - 1]
      BY <1>3, <3>1
    <3>3. turn[<<g[i - 1], i>>] = VisitTurn(graph, services, g[i - 1])
      BY <1>2, <3>1, <3>2
    <3> QED
      BY <2>1, <2>3, <3>3
  <2> QED
    BY <2>2, <2>3
<1>5. VisitLoop(graph, services, g)
  <2>1. g = [i \in 0 .. n |-> g[i]]
    BY <1>3
  <2>2. g = [i \in 0 .. n |-> IF i = 0 THEN Nothing ELSE VisitTurn(graph, services, g[i - 1])]
    BY <1>4, <2>1
  <2> QED
    BY <2>2 DEF VisitLoop, n
<1>6. VisitLoop(graph, services, loop)
  BY <1>5
<1> HIDE DEF loop
<1>7. loop[0] \in S[0]
  BY <1>0, <1>1, <1>6 DEF VisitLoop, n
<1>8. ASSUME NEW i \in 1 .. n, loop[i - 1] \in S[i - 1]
      PROVE  loop[i] \in S[i]
  <2>1. i \in 0 .. n /\ i # 0
    BY <1>0
  <2>2. loop[i] = VisitTurn(graph, services, loop[i - 1])
    BY <1>6, <2>1 DEF VisitLoop, n
  <2> QED
    BY <1>2, <1>8, <2>2
<1>9. ASSUME NEW k \in 0 .. n PROVE loop[k] \in AfterVisits(graph, services, k)
  <2>1. k \in Nat /\ \A i \in 1 .. k : i \in 1 .. n
    BY <1>0
  <2>2. loop[k] \in S[k]
    BY <1>7, <1>8, <2>1, LoopKeeps
  <2> QED
    BY <2>2 DEF S
<1> QED
  BY <1>6, <1>9 DEF loop, n

\* Without a cycle, the orchestrator's visit goes through the same states.
OrchestrateLoop(graph, services, h) ==
    h = [k \in 0 .. Moves |-> IF k = 0 THEN Nothing ELSE OrchestrateTurn(graph, services, h[k - 1])]

LEMMA OrchestrateLoopFacts ==
    ASSUME NEW graph \in Graphs, NEW services \in Seq(Things),
           ~ Cyclic(NeedsOf(graph), AllOf(graph, services))
    PROVE  LET agent == CHOOSE h : VisitLoop(graph, services, h)
               loop == CHOOSE h : OrchestrateLoop(graph, services, h)
           IN  loop[Moves] = agent[Moves]
<1> DEFINE n == Moves
           agent == CHOOSE h : VisitLoop(graph, services, h)
           loop == CHOOSE h : OrchestrateLoop(graph, services, h)
           S == [i \in 0 .. n |-> {agent[i]}]
<1>0. n \in Nat
  <2>1. Cardinality(Things) \in Nat
    BY FS_CardinalityType, ThingsAreNumbers
  <2> QED
    BY <2>1 DEF Moves
<1>1. /\ VisitLoop(graph, services, agent)
      /\ \A k \in 0 .. n : agent[k] \in AfterVisits(graph, services, k)
  BY VisitLoopFacts
<1> HIDE DEF agent, n
<1>2. \A i \in 0 .. n : agent[i] = IF i = 0 THEN Nothing
                                   ELSE OrchestrateTurn(graph, services, agent[i - 1])
  <2> TAKE i \in 0 .. n
  <2>1. agent[i] = IF i = 0 THEN Nothing ELSE VisitTurn(graph, services, agent[i - 1])
    BY <1>1 DEF VisitLoop, n
  <2>2. CASE i # 0
    <3>1. i - 1 \in 0 .. n /\ i - 1 \in Nat
      BY <1>0, <2>2
    <3>2. OrchestrateTurn(graph, services, agent[i - 1]) = VisitTurn(graph, services, agent[i - 1])
      BY <1>1, <3>1, OrchestrateTurnFacts
    <3> QED
      BY <2>1, <2>2, <3>2
  <2> QED
    BY <2>1, <2>2
<1>3. OrchestrateLoop(graph, services, agent)
  <2>1. agent = [i \in 0 .. n |-> agent[i]]
    BY <1>1 DEF VisitLoop, n
  <2>2. agent = [i \in 0 .. n |-> IF i = 0 THEN Nothing
                                  ELSE OrchestrateTurn(graph, services, agent[i - 1])]
    BY <1>2, <2>1
  <2> QED
    BY <2>2 DEF OrchestrateLoop, n
<1>4. OrchestrateLoop(graph, services, loop)
  BY <1>3
<1> HIDE DEF loop
<1>5. loop[0] \in S[0]
  BY <1>0, <1>2, <1>4 DEF OrchestrateLoop, n
<1>6. ASSUME NEW i \in 1 .. n, loop[i - 1] \in S[i - 1]
      PROVE  loop[i] \in S[i]
  <2>1. i \in 0 .. n /\ i # 0 /\ i - 1 \in 0 .. n
    BY <1>0
  <2>2. loop[i] = OrchestrateTurn(graph, services, loop[i - 1])
    BY <1>4, <2>1 DEF OrchestrateLoop, n
  <2>3. loop[i - 1] = agent[i - 1]
    BY <1>6, <2>1
  <2>4. loop[i] = agent[i]
    BY <1>2, <2>1, <2>2, <2>3
  <2> QED
    BY <2>1, <2>4
<1> HIDE DEF S
<1>7. loop[n] \in S[n]
  BY <1>0, <1>5, <1>6, LoopKeeps
<1> QED
  BY <1>0, <1>7 DEF S, loop, agent, n

\* Whatever services are listed, and however they list what they depend on, the
\* agent's order has each of them once and after what it depends on, or is an
\* error if there is a cycle (workspace_manager.go:451-500), and the orchestrator
\* finds such an order if there is no cycle (orchestrator.go:199-228).
THEOREM ServicesAreInOrder ==
    ASSUME NEW dependsOn \in [Things -> Seq(Things)], NEW services \in Seq(Things)
    PROVE  ServicesInOrder(dependsOn, services) /\ OrchestratedInOrder(dependsOn, services)
<1> DEFINE graph == DepGraph(dependsOn, services)
           needs == Needs(dependsOn, services)
           all == Needed(dependsOn, services)
           agent == CHOOSE h : VisitLoop(graph, services, h)
           loop == CHOOSE h : OrchestrateLoop(graph, services, h)
           end == agent[Moves]
<1>1. /\ graph \in Graphs
      /\ \A n \in Things : n \notin ToSet(services) => graph[n] = << >>
  BY DEF DepGraph, Graphs
<1>2. needs = NeedsOf(graph) /\ all = AllOf(graph, services)
  BY DEF Needs, Needed, NeedsOf, AllOf
<1>3. ResolveServiceDependencies(dependsOn, services) = IF end.failed THEN Error ELSE end.result
  BY DEF ResolveServiceDependencies, VisitLoop
<1>4. OrchestratorOrder(dependsOn, services) = loop[Moves].result
  BY DEF OrchestratorOrder, OrchestrateLoop
<1> HIDE DEF graph, needs, all
<1>5. end \in AfterVisits(graph, services, Moves)
  <2>1. \A k \in 0 .. Moves : agent[k] \in AfterVisits(graph, services, k)
    BY <1>1, VisitLoopFacts
  <2>2. Cardinality(Things) \in Nat
    BY FS_CardinalityType, ThingsAreNumbers
  <2>3. Moves \in 0 .. Moves
    BY <2>2 DEF Moves
  <2> QED
    BY <2>1, <2>3
<1>6. ~ Cyclic(needs, all) => loop[Moves] = end
  BY <1>1, <1>2, OrchestrateLoopFacts
<1> HIDE DEF agent, loop
<1>7. IF Cyclic(needs, all) THEN end.failed ELSE ~ end.failed /\ Orders(needs, end.result, all)
  BY <1>1, <1>2, <1>5, EndFacts
<1>8. ServicesInOrder(dependsOn, services)
  BY <1>3, <1>7 DEF ServicesInOrder, needs, all
<1>9. OrchestratedInOrder(dependsOn, services)
  BY <1>4, <1>6, <1>7 DEF OrchestratedInOrder, needs, all
<1> QED
  BY <1>8, <1>9

\* A finite set has its members in some order.
LEMMA SetToSeqFacts ==
    ASSUME NEW S, IsFiniteSet(S)
    PROVE  SetToSeq(S) \in Seq(S) /\ ToSet(SetToSeq(S)) = S
<1> DEFINE n == Cardinality(S)
<1>1. n \in Nat
  BY FS_CardinalityType
<1>2. \E f \in [1 .. n -> S] : IsInjective(f)
  <2>1. PICK f : f \in Bijection(1 .. n, S)
    BY FS_CardinalityType DEF ExistsBijection
  <2> QED
    BY <2>1 DEF Bijection, Injection
<1> DEFINE f == SetToSeq(S)
<1>3. f \in [1 .. n -> S] /\ IsInjective(f)
  BY <1>2 DEF SetToSeq
<1> HIDE DEF f, n
<1>4. f \in Seq(S) /\ Len(f) = n
  BY <1>1, <1>3
<1>5. Distinct(f)
  BY <1>3, <1>4 DEF Distinct, IsInjective
<1>6. ToSet(f) = S
  BY <1>4, <1>5, AllOfThem DEF n
<1> QED
  BY <1>4, <1>6 DEF f

\* Each of the three algorithms puts everything after what it depends on
\* (registry.go:103-183, workspace_manager.go:451-500, orchestrator.go:199-228).
THEOREM AllAreInOrder == PluginSpec => []DependenciesFirst
<1>1. PluginInv => DependenciesFirst
  <2> SUFFICES ASSUME PluginInv PROVE DependenciesFirst
    OBVIOUS
  <2>1. ManifestTypes
    BY DEF PluginInv
  <2> DEFINE dependsOn == [n \in Things |-> SetToSeq(Deps[n])]
  <2>2. dependsOn \in [Things -> Seq(Things)]
    <3> SUFFICES ASSUME NEW n \in Things PROVE SetToSeq(Deps[n]) \in Seq(Things)
      OBVIOUS
    <3>1. Deps[n] \in SUBSET Things
      BY <2>1, DepsTypes
    <3>2. SetToSeq(Deps[n]) \in Seq(Deps[n])
      BY <3>1, FS_Subset, ThingsAreNumbers, SetToSeqFacts
    <3> QED
      BY <3>1, <3>2
  <2> HIDE DEF dependsOn
  <2>3. \A services \in SetToSeqs(active) : services \in Seq(Things)
    <3>1. IsFiniteSet(active) /\ active \in SUBSET Things
      BY <2>1, FS_Subset, ThingsAreNumbers DEF ManifestTypes
    <3>2. Cardinality(active) \in Nat
      BY <3>1, FS_CardinalityType
    <3> QED
      BY <3>1, <3>2 DEF SetToSeqs
  <2>4. \A services \in SetToSeqs(active) :
           ServicesInOrder(dependsOn, services) /\ OrchestratedInOrder(dependsOn, services)
    BY <2>2, <2>3, ServicesAreInOrder
  <2>5. PluginsInOrder
    BY <2>1, ResolvedFacts
  <2> QED
    BY <2>4, <2>5 DEF DependenciesFirst, dependsOn
<1> QED
  BY <1>1, PluginInvHolds, PTL
=============================================================================
