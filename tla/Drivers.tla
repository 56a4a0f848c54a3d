------------------------------- MODULE Drivers -------------------------------
(***************************************************************************)
(* What one call of the Docker and LXC drivers (pkg/provider) does to the  *)
(* container of a session.  An operator takes the container's status and   *)
(* gives the outcomes the call can have: the status it leaves, and whether *)
(* it returned without an error.  The engines themselves are external; any *)
(* call may also be refused for reasons of theirs.                         *)
(***************************************************************************)
EXTENDS Naturals, FiniteSets

Statuses == {"none", "created", "running", "stopped"}

Did(s) == [status |-> s, ok |-> TRUE]
Refused(s) == [status |-> s, ok |-> FALSE]
Either(s, possible, after) ==
    {Refused(s)} \cup (IF possible THEN {Did(after)} ELSE {})

-----------------------------------------------------------------------------
(* With a remote node configured, a driver first dials "user@node", which  *)
(* is no host name: Connect fails and no command is sent.                  *)
DockerRemote(s) == {Refused(s)}
LXCRemote(s) == {Refused(s)}

(* Docker names the container after the session and binds the workspace    *)
(* directory, which has to exist; createLocal pulls the image first.       *)
DockerCreateLocal(s, mountable) == Either(s, s = "none" /\ mountable, "created")

(* The agent passes no configuration: Docker rejects that, LXC does not.   *)
DockerCreate(s, configured, remote, mountable) ==
    IF ~configured THEN {Refused(s)}
    ELSE IF remote THEN DockerRemote(s) ELSE DockerCreateLocal(s, mountable)

(* The Docker engine accepts starting what runs and stopping what does not.*)
DockerStart(s) == Either(s, s # "none", "running")
DockerStop(s) == Either(s, s # "none", IF s = "running" THEN "stopped" ELSE s)
DockerDestroy(s) == Either(s, s # "none", "none")

(* Exec reads the output to its end and never asks for the exit code.      *)
DockerExec(s) == {r \in BOOLEAN : r => s = "running"}

(* The list holds every container with the label, whatever its state.      *)
DockerListed(s) == s # "none"

-----------------------------------------------------------------------------
(* createLocal is lxc init, MkdirAll and lxc config device add ...         *)
LXCInit(s) == Either(s, s = "none", "created")
LXCCreate(s, remote) == IF remote THEN LXCRemote(s) ELSE LXCInit(s)

(* lxc delete refuses a running container; so Destroy does not stop one.   *)
LXCStart(s) == Either(s, s \in {"created", "stopped"}, "running")
LXCStop(s) == Either(s, s = "running", "stopped")
LXCDestroy(s) == Either(s, s \in {"created", "stopped"}, "none")

(* Mutant of LXCMount: the container of a failed mount is left behind.     *)
LXCMountNoCleanup(s) ==
    {[status |-> s, ok |-> ok, clean |-> TRUE] : ok \in {b \in BOOLEAN : b => s # "none"}}

(* ... and when one of the last two fails, the container is destroyed.     *)
(* An error of that is dropped and the container stays: not `clean`.       *)
LXCMount(s) ==
    {o \in {[status |-> s, ok |-> TRUE, clean |-> TRUE]} : s # "none"} \cup
    {[status |-> o.status, ok |-> FALSE, clean |-> o.ok] : o \in LXCDestroy(s)}

LXCExec(s) == {r \in BOOLEAN : r => s = "running"}

(* listLocal drops the first line of `lxc list`, which has no header: the  *)
(* container printed first is never listed.                                *)
LXCListed(s, first) == s # "none" /\ ~first
=============================================================================
