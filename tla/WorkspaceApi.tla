---------------------------- MODULE WorkspaceApi ----------------------------
(***************************************************************************)
(* What a client of the coordination server may rely on, stated on the     *)
(* identifiers alone: the status a poll reports and whether a provisioning *)
(* is under way.  No goroutine, registry or container appears here;        *)
(* Provisioning is shown to implement it.                                  *)
(***************************************************************************)
CONSTANT Ids

VARIABLES
    status,   \* what a poll of the identifier reports
    work      \* whether its provisioning has yet to start, is busy or is over

apiVars == <<status, work>>

Present(i) == status[i] \notin {"absent", "gone"}

Init ==
    /\ status = [i \in Ids |-> "absent"]
    /\ work = [i \in Ids |-> "none"]

\* A creation is accepted: the identifier is new and provisioning is queued.
Submit(i) ==
    /\ status[i] = "absent"
    /\ status' = [status EXCEPT ![i] = "creating"]
    /\ work' = [work EXCEPT ![i] = "queued"]

\* Provisioning starts; a stop that came first is forgotten.
Start(i) ==
    /\ work[i] = "queued"
    /\ IF Present(i)
       THEN /\ status' = [status EXCEPT ![i] = "creating"]
            /\ work' = [work EXCEPT ![i] = "busy"]
       ELSE /\ work' = [work EXCEPT ![i] = "none"]
            /\ UNCHANGED status

\* Provisioning ends, once, with its outcome if there is someone to tell.
Settle(i) ==
    /\ work[i] = "busy"
    /\ work' = [work EXCEPT ![i] = "none"]
    /\ IF Present(i)
       THEN \E s \in {"running", "error"} : status' = [status EXCEPT ![i] = s]
       ELSE UNCHANGED status

Stop(i) ==
    /\ Present(i)
    /\ status' = [status EXCEPT ![i] = "stopped"]
    /\ UNCHANGED work

Delete(i) ==
    /\ Present(i)
    /\ status' = [status EXCEPT ![i] = "gone"]
    /\ UNCHANGED work

\* A crash forgets every workspace and ends every provisioning.
Crash ==
    /\ status' = [i \in Ids |-> IF Present(i) THEN "gone" ELSE status[i]]
    /\ work' = [i \in Ids |-> "none"]

Next ==
    \/ \E i \in Ids : Submit(i) \/ Start(i) \/ Settle(i) \/ Stop(i) \/ Delete(i)
    \/ Crash

Spec == Init /\ [][Next]_apiVars

FairSpec == Spec /\ \A i \in Ids : WF_apiVars(Start(i)) /\ WF_apiVars(Settle(i))
=============================================================================
