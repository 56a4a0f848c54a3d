---------------------------- MODULE ManagerLocks ----------------------------
(***************************************************************************)
(* The locks of the node agent's workspace manager as its HTTP handlers    *)
(* take them (pkg/agent/workspace_handler.go, workspace_manager.go): wm.mu *)
(* guards the table of workspaces and workspace.mu one workspace, both     *)
(* read-write locks of package sync, in which a writer that waits keeps    *)
(* new readers out.                                                        *)
(*                                                                         *)
(* A request is the sequence of its lock operations; what it does between  *)
(* them is in WorkspaceManager and ServiceHealth.  The table holds the     *)
(* given number of workspaces, whose locks are one lock here.  The lock of *)
(* the ports is never held while another is taken, and is left out.        *)
(***************************************************************************)
EXTENDS Integers, Sequences

CONSTANTS Requests,   \* concurrent requests, the health checks among them
          Tabled      \* workspaces in the table

ASSUME TabledAssumption == Tabled \in Nat

VARIABLES todo,      \* the lock operations each request still has to do
          asked,     \* which request each is
          announced, \* announced[m]: the writer that waits for lock m or holds it
          reading    \* reading[m, q]: how often q holds the read lock of m

lockingVars == <<todo, asked, announced, reading>>

Mutexes == {"wm", "ws"}
Free == "free"
ASSUME FreeAssumption == Free \notin Requests
Op(kind, m) == [kind |-> kind, m |-> m]
Read(m) == <<Op("RLock", m), Op("RUnlock", m)>>
Write(m) == <<Op("Lock", m), Op("locking", m), Op("Unlock", m)>>

-----------------------------------------------------------------------------
(* What each request does.                                                 *)

CreateRequest == Write("wm")
StatusRequest == Read("wm") \o Read("ws")
HealthRequest == Read("wm")
\* One write stands for one per service and one at the end: each is let go
\* before the next, with no lock held meanwhile.
StartServicesRequest == Read("wm") \o Write("ws")
StopRequest == Read("wm") \o Write("ws") \o StatusRequest
RunHealthCheck == Read("wm") \o Read("ws") \o Write("ws")

(* Mutant of DeleteRequest: the read lock is held until the end.           *)
DeleteUnderRLock == <<Op("RLock", "wm")>> \o Write("wm") \o <<Op("RUnlock", "wm")>>

DeleteRequest == Read("wm") \o Write("wm")

(* The list asks for the status of each workspace under the read lock.     *)
ListLength == 4 * Tabled + 2
ListRequest ==
    [i \in 1 .. ListLength |->
        CASE i = 1 -> Op("RLock", "wm")
          [] i = ListLength -> Op("RUnlock", "wm")
          [] OTHER -> StatusRequest[1 + ((i - 2) % 4)]]

(* The routes, and the goroutine StartServices leaves behind.              *)
HandleWorkspaceAction(kind) ==
    CASE kind = "startServices" -> StartServicesRequest
      [] kind = "stop" -> StopRequest
      [] kind = "delete" -> DeleteRequest
RegisterRoutes(kind) ==
    CASE kind = "create" -> CreateRequest
      [] kind = "list" -> ListRequest
      [] kind = "status" -> StatusRequest
      [] kind = "health" -> HealthRequest
      [] kind = "check" -> RunHealthCheck
      [] OTHER -> HandleWorkspaceAction(kind)
Handled == {"create", "list", "status", "health", "check", "startServices", "stop", "delete"}

-----------------------------------------------------------------------------
InitLocks ==
    /\ todo = [q \in Requests |-> <<>>]
    /\ asked = [q \in Requests |-> "none"]
    /\ announced = [m \in Mutexes |-> Free]
    /\ reading = [k \in Mutexes \X Requests |-> 0]

Arrive(q, kind) ==
    /\ todo[q] = <<>>
    /\ todo' = [todo EXCEPT ![q] = RegisterRoutes(kind)]
    /\ asked' = [asked EXCEPT ![q] = kind]
    /\ UNCHANGED <<announced, reading>>

(* A writer announces itself, then waits for the readers ("locking").      *)
CanDo(q, op) ==
    CASE op.kind \in {"RLock", "Lock"} -> announced[op.m] = Free
      [] op.kind = "locking" -> \A r \in Requests : reading[<<op.m, r>>] = 0
      [] OTHER -> TRUE

Do(q) ==
    /\ todo[q] # <<>>
    /\ LET op == Head(todo[q]) IN
       /\ CanDo(q, op)
       /\ announced' = CASE op.kind = "Lock" -> [announced EXCEPT ![op.m] = q]
                         [] op.kind = "Unlock" -> [announced EXCEPT ![op.m] = Free]
                         [] OTHER -> announced
       /\ reading' = CASE op.kind = "RLock" -> [reading EXCEPT ![<<op.m, q>>] = @ + 1]
                       [] op.kind = "RUnlock" -> [reading EXCEPT ![<<op.m, q>>] = @ - 1]
                       [] OTHER -> reading
    /\ todo' = [todo EXCEPT ![q] = Tail(@)]
    /\ UNCHANGED asked

NextLocks ==
    \E q \in Requests :
       \/ \E kind \in Handled : Arrive(q, kind)
       \/ Do(q)

-----------------------------------------------------------------------------
(* Requests block one another for ever in one way only: a list has read    *)
(* the table and wants to read it again for a status, and a create or a    *)
(* delete has announced itself in between (workspace_handler.go:128-135,   *)
(* workspace_manager.go:93-116, 530-595).                                  *)
Waiting(q) == todo[q] # <<>> /\ ~CanDo(q, Head(todo[q]))
StuckOnlyInList ==
    (\E q \in Requests : Waiting(q)) /\ (\A q \in Requests : todo[q] = <<>> \/ Waiting(q))
        => /\ \E q \in Requests : asked[q] = "list" /\ reading[<<"wm", q>>] = 1
                                  /\ todo[q] # <<>> /\ Head(todo[q]) = Op("RLock", "wm")
           /\ \E q \in Requests : announced["wm"] = q /\ asked[q] \in {"create", "delete"}
=============================================================================
