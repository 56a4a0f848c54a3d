----------------------------- MODULE Transports -----------------------------
(***************************************************************************)
(* One SSH or HTTP transport (pkg/transport) that several goroutines call: *)
(* its read-write mutex, the goroutine that dials, the connection or the   *)
(* target it keeps, and the peer, which may hang, break off or be ill.     *)
(***************************************************************************)
EXTENDS Naturals, FiniteSets

CONSTANTS Callers,       \* goroutines that call the transport
          Targets,       \* addresses an HTTP transport can be given
          MaxDials       \* bound: SSH connections dialled

NoOne == 0
Dials == 1..MaxDials
ASSUME CallersAreNotDials == NoOne \notin Callers /\ MaxDials \in Nat

VARIABLES protocol,      \* "ssh" or "http"
          writer,        \* who holds the write lock or has announced that it wants it
          readers,       \* how often each caller holds the read lock
          at, call,      \* where each caller is, in which call
          client, open,  \* SSH: s.client (a dial's number), connections open
          dials, dialOf, \* SSH: the dialling goroutines, the one a Connect waits for
          overdue,       \* SSH: dials whose Connect gave up
          hung,          \* SSH: the peer accepts requests and answers none
          target,        \* HTTP: config.Target
          connected,     \* HTTP: info.Connected
          healthy,       \* HTTP: targets that answer /health
          seen, tested,  \* what a call read under the lock, the target it tested
          moved          \* calls during which a Connect set another target
lockVars == <<writer, readers, at, call>>
sshVars == <<client, open, dials, dialOf, overdue, hung>>
httpVars == <<target, connected, healthy, tested, moved>>
transportVars == <<protocol, lockVars, sshVars, httpVars, seen>>

WriteCalls == {"Connect", "Disconnect"}
UseCalls == {"Execute", "Upload", "Download"}
ReadCalls == UseCalls \cup {"IsConnected", "GetInfo"}

InitTransports ==
    /\ protocol \in {"ssh", "http"}
    /\ writer = NoOne /\ readers = [c \in Callers |-> 0]
    /\ at = [c \in Callers |-> "idle"] /\ call = [c \in Callers |-> "Connect"]
    /\ client = 0 /\ open = {} /\ overdue = {} /\ hung = FALSE
    /\ dials = [d \in Dials |-> "none"] /\ dialOf = [c \in Callers |-> 0]
    /\ target \in Targets /\ connected = FALSE /\ healthy = {}
    /\ seen = [c \in Callers |-> 0] /\ tested = [c \in Callers |-> 0] /\ moved = {}

-----------------------------------------------------------------------------
(* sync.RWMutex: a writer announces itself, which keeps new readers out,   *)
(* and then waits for those who read.                                      *)
Goto(c, place) == at' = [at EXCEPT ![c] = place]
Return(c) == Goto(c, "idle")
Unlock(c) == writer' = NoOne /\ Return(c) /\ UNCHANGED <<readers, call>>
RUnlock(c, place) ==
    readers' = [readers EXCEPT ![c] = 0] /\ Goto(c, place) /\ UNCHANGED <<writer, call>>
Stay(c, place) == Goto(c, place) /\ UNCHANGED <<writer, readers, call>>

Enter(c, o) ==
    /\ at[c] = "idle"
    /\ call' = [call EXCEPT ![c] = o]
    /\ Goto(c, IF o \in WriteCalls THEN "lock" ELSE "rlock")
    /\ UNCHANGED <<protocol, writer, readers, sshVars, httpVars, seen>>

Lock(c) ==
    /\ \/ at[c] = "lock" /\ writer = NoOne /\ writer' = c /\ Goto(c, "locking")
       \/ at[c] = "locking" /\ (\A d \in Callers : readers[d] = 0)
          /\ Goto(c, "locked") /\ UNCHANGED writer
    /\ UNCHANGED <<protocol, readers, call, sshVars, httpVars, seen>>

(* "rlock" is the first read lock of a call, "nested" the one IsConnected  *)
(* takes while the caller holds the lock, "again" after it was released.   *)
Reading == [rlock |-> "reading", nested |-> "testing", again |-> "testing"]
RLock(c) ==
    /\ at[c] \in DOMAIN Reading /\ writer = NoOne
    /\ readers' = [readers EXCEPT ![c] = @ + 1]
    /\ Goto(c, Reading[at[c]])
    /\ UNCHANGED <<protocol, writer, call, sshVars, httpVars, seen>>

-----------------------------------------------------------------------------
(* The SSH transport.                                                      *)
SSH(c, place) == protocol = "ssh" /\ at[c] = place /\ UNCHANGED <<protocol, httpVars>>

(* Mutant of SSHConnect: it dials whatever client there is.                *)
SSHConnectAnyway(c) ==
    /\ SSH(c, "locked") /\ call[c] = "Connect"
    /\ \E d \in Dials :
          /\ dials[d] = "none"
          /\ dials' = [dials EXCEPT ![d] = "running"] /\ dialOf' = [dialOf EXCEPT ![c] = d]
    /\ Stay(c, "dialing")
    /\ UNCHANGED <<client, open, overdue, hung, seen>>

(* Connect holds the write lock; with a client it asks IsConnected.  A     *)
(* target it cannot parse is an error.                                     *)
SSHConnect(c) ==
    /\ SSH(c, "locked") /\ call[c] = "Connect"
    /\ \/ client # 0 /\ Stay(c, "nested") /\ UNCHANGED <<dials, dialOf>>
       \/ client = 0 /\ Unlock(c) /\ UNCHANGED <<dials, dialOf>>
       \/ /\ client = 0 /\ Stay(c, "dialing")
          /\ \E d \in Dials :
                /\ dials[d] = "none" /\ (\A e \in Dials : e < d => dials[e] # "none")
                /\ dials' = [dials EXCEPT ![d] = "running"]
                /\ dialOf' = [dialOf EXCEPT ![c] = d]
    /\ UNCHANGED <<client, open, overdue, hung, seen>>

(* The goroutine of Connect sets s.client whether or not it is awaited.    *)
Dialled(d) ==
    /\ protocol = "ssh" /\ dials[d] = "running"
    /\ \/ /\ dials' = [dials EXCEPT ![d] = "connected"]
          /\ client' = d /\ open' = open \cup {d}
       \/ dials' = [dials EXCEPT ![d] = "failed"] /\ UNCHANGED <<client, open>>
    /\ UNCHANGED <<protocol, lockVars, dialOf, overdue, hung, httpVars, seen>>

(* Connect returns when the goroutine reports or the context ends.         *)
Connected(c) ==
    /\ SSH(c, "dialing") /\ Unlock(c)
    /\ \/ dials[dialOf[c]] \in {"connected", "failed"} /\ UNCHANGED overdue
       \/ overdue' = overdue \cup {dialOf[c]}
    /\ dialOf' = [dialOf EXCEPT ![c] = 0]
    /\ UNCHANGED <<client, open, dials, hung, seen>>

(* Mutant of SSHDisconnect: the connection is forgotten, not closed.       *)
SSHDisconnectKeepsOpen(c) ==
    /\ SSH(c, "locked") /\ call[c] = "Disconnect"
    /\ client' = 0
    /\ Unlock(c) /\ UNCHANGED <<open, dials, dialOf, overdue, hung, seen>>

SSHDisconnect(c) ==
    /\ SSH(c, "locked") /\ call[c] = "Disconnect"
    /\ open' = open \ {client} /\ client' = 0
    /\ Unlock(c) /\ UNCHANGED <<dials, dialOf, overdue, hung, seen>>

(* IsConnected sends a keepalive under the read lock, without a deadline.  *)
Answering(d) == d \notin open \/ ~hung
SSHIsConnected(c) ==
    /\ \/ SSH(c, "reading") /\ call[c] = "IsConnected"
       \/ SSH(c, "testing")
    /\ client = 0 \/ Answering(client)
    /\ RUnlock(c, "idle") /\ UNCHANGED <<sshVars, seen>>

SSHGetInfo(c) ==
    /\ SSH(c, "reading") /\ call[c] = "GetInfo"
    /\ IF client = 0 THEN RUnlock(c, "idle") ELSE Stay(c, "nested")
    /\ UNCHANGED <<sshVars, seen>>

(* The other calls read s.client under the lock and use it after.          *)
SSHClient(c) ==
    /\ SSH(c, "reading") /\ call[c] \in UseCalls
    /\ seen' = [seen EXCEPT ![c] = client]
    /\ RUnlock(c, IF client = 0 THEN "idle" ELSE "using")
    /\ UNCHANGED sshVars

Use(c, o) ==
    /\ SSH(c, "using") /\ call[c] = o /\ Stay(c, "idle")
    /\ seen' = [seen EXCEPT ![c] = 0] /\ UNCHANGED sshVars
\* Execute watches its context once the command runs; opening the session and
\* setting its environment, which wait for the peer, are taken to return.
SSHExecute(c) == Use(c, "Execute")
SSHUpload(c) == Use(c, "Upload") /\ Answering(seen[c])
SSHDownload(c) == Use(c, "Download") /\ Answering(seen[c])

SSHPeer ==
    /\ protocol = "ssh"
    /\ \/ hung' = ~hung /\ UNCHANGED open
       \/ (\E d \in open : open' = open \ {d}) /\ UNCHANGED hung
    /\ UNCHANGED <<protocol, lockVars, client, dials, dialOf, overdue, httpVars, seen>>

-----------------------------------------------------------------------------
(* The HTTP transport: connected means that a Connect succeeded once.      *)
HTTP(c, place) ==
    protocol = "http" /\ at[c] = place /\ UNCHANGED <<protocol, sshVars, healthy>>

testConnection == target \in healthy
Forget(c) == seen' = [seen EXCEPT ![c] = 0] /\ moved' = moved \ {c}

HTTPConnect(c, t) ==
    /\ HTTP(c, "locked") /\ call[c] = "Connect"
    /\ target' = t
    /\ connected' = (connected \/ t \in healthy)
    /\ moved' = IF t = target THEN moved
                ELSE {d \in Callers : at[d] \in {"again", "using"}}
    /\ Unlock(c) /\ UNCHANGED <<seen, tested>>

HTTPDisconnect(c) ==
    /\ HTTP(c, "locked") /\ call[c] = "Disconnect"
    /\ connected' = FALSE
    /\ Unlock(c) /\ UNCHANGED <<target, seen, tested, moved>>

(* IsConnected asks the target for its health under the read lock, for     *)
(* five seconds at most; after it a call goes on or fails.                 *)
HTTPIsConnected(c) ==
    /\ \/ HTTP(c, "reading") /\ call[c] = "IsConnected"
       \/ HTTP(c, "testing")
    /\ IF call[c] \in UseCalls /\ connected /\ testConnection
       THEN /\ RUnlock(c, "using") /\ UNCHANGED <<seen, moved>>
            /\ tested' = [tested EXCEPT ![c] = target]
       ELSE RUnlock(c, "idle") /\ Forget(c) /\ UNCHANGED tested
    /\ UNCHANGED <<target, connected>>

HTTPGetInfo(c) ==
    /\ HTTP(c, "reading") /\ call[c] = "GetInfo"
    /\ Stay(c, "nested") /\ UNCHANGED <<target, connected, seen, tested, moved>>

(* Mutant of HTTPTarget: the read lock is kept over IsConnected.           *)
HTTPTargetLocked(c) ==
    /\ HTTP(c, "reading") /\ call[c] \in UseCalls
    /\ seen' = [seen EXCEPT ![c] = target]
    /\ Stay(c, "again") /\ UNCHANGED <<target, connected, tested, moved>>

(* Mutant of HTTPTarget: the request is sent without IsConnected.          *)
HTTPTargetUntested(c) ==
    /\ HTTP(c, "reading") /\ call[c] \in UseCalls
    /\ seen' = [seen EXCEPT ![c] = target]
    /\ RUnlock(c, "using") /\ UNCHANGED <<target, connected, tested, moved>>

(* The other calls copy the target under the lock, release it, and ask     *)
(* IsConnected.                                                            *)
HTTPTarget(c) ==
    /\ HTTP(c, "reading") /\ call[c] \in UseCalls
    /\ seen' = [seen EXCEPT ![c] = target]
    /\ RUnlock(c, "again") /\ UNCHANGED <<target, connected, tested, moved>>

(* The request to the target that was copied; whatever it answers, the     *)
(* call returns.                                                           *)
Send(c, o) ==
    /\ HTTP(c, "using") /\ call[c] = o
    /\ Stay(c, "idle") /\ Forget(c) /\ tested' = [tested EXCEPT ![c] = 0]
    /\ UNCHANGED <<target, connected>>
HTTPExecute(c) == Send(c, "Execute")
HTTPUpload(c) == Send(c, "Upload")
HTTPDownload(c) == Send(c, "Download")

HTTPPeer ==
    /\ protocol = "http"
    /\ \E t \in Targets : healthy' = IF t \in healthy THEN healthy \ {t} ELSE healthy \cup {t}
    /\ UNCHANGED <<protocol, lockVars, sshVars, target, connected, tested, moved, seen>>

-----------------------------------------------------------------------------
NextTransports ==
    \/ \E c \in Callers :
          \/ \E o \in WriteCalls \cup ReadCalls : Enter(c, o)
          \/ Lock(c) \/ RLock(c)
          \/ SSHConnect(c) \/ Connected(c) \/ SSHDisconnect(c)
          \/ SSHIsConnected(c) \/ SSHGetInfo(c) \/ SSHClient(c)
          \/ SSHExecute(c) \/ SSHUpload(c) \/ SSHDownload(c)
          \/ \E t \in Targets : HTTPConnect(c, t)
          \/ HTTPDisconnect(c) \/ HTTPIsConnected(c) \/ HTTPGetInfo(c)
          \/ HTTPTarget(c) \/ HTTPExecute(c) \/ HTTPUpload(c) \/ HTTPDownload(c)
    \/ \E d \in Dials : Dialled(d)
    \/ SSHPeer \/ HTTPPeer

-----------------------------------------------------------------------------
(* Calls that want the lock get it, unless one of three things has         *)
(* happened: Connect asks IsConnected while it holds the write lock        *)
(* (ssh.go:50, 53, 120), GetInfo takes the read lock twice around a writer *)
(* (ssh.go:300-308, http.go:285-291), or a keepalive waits for a peer that *)
(* hangs (ssh.go:127).                                                     *)
Wants(c) ==
    \/ at[c] \in {"lock", "rlock", "again"} /\ writer # NoOne
    \/ at[c] = "locking" /\ \E d \in Callers : readers[d] # 0
Frozen == \A c \in Callers : at[c] = "idle" \/ Wants(c) \/ (at[c] = "nested" /\ writer # NoOne)
BlockedOnlyByNesting ==
    Frozen => (\A c \in Callers : at[c] = "idle") \/ (\E c \in Callers : at[c] = "nested")

(* The transport has one connection: none is open that s.client does not   *)
(* refer to, so Disconnect can close it, unless a Connect gave up on its   *)
(* dial, which then sets s.client all the same (ssh.go:74-92).             *)
OneConnection == overdue = {} => open \subseteq {client}

(* A request goes to the target whose health was just tested, unless a     *)
(* Connect named another one meanwhile (http.go:101-112, 166-171, 230-235).*)
SentWhereTested ==
    \A c \in Callers : protocol = "http" /\ at[c] = "using" /\ c \notin moved
                         => seen[c] = tested[c]
=============================================================================
