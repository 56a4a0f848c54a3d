----------------------------- MODULE Controller -----------------------------
(***************************************************************************)
(* The local controller behind the `nexus branch` commands                 *)
(* (pkg/ctrl/ctrl.go), with the git worktree manager (pkg/worktree) and    *)
(* the Docker and LXC drivers (pkg/provider) it calls.                     *)
(*                                                                         *)
(* Every invocation of the CLI is a process of its own; several run at     *)
(* once, and any of them may be interrupted between two external calls.    *)
(* One step is one git, docker or lxc command, or one block of file-system *)
(* work that no other command can observe half done; what a call of a      *)
(* driver does to a container is in module Drivers.                        *)
(*                                                                         *)
(* The commands share the repository (its HEAD, its branches, its          *)
(* registered worktrees), two directories that hold workspaces, the        *)
(* configuration file and the containers.  git, docker and lxc are         *)
(* external: they are modelled from the way the code calls them.           *)
(***************************************************************************)
EXTENDS Drivers

CONSTANTS
    Names,        \* names given to the branch commands
    Main,         \* the safe branch (main or master)
    Detached,     \* what git rev-parse calls a detached HEAD
    Procs,        \* invocations that can be active at the same time
    OneDir,       \* does the worktree manager use the controller's directory?
    LxcFirst,     \* the name in the first line `lxc list` prints, if one of ours
    NoName,
    MaxCommands,  \* bound: commands started in a behaviour
    MaxOutside    \* bound: steps of the user and of the container engines

ASSUME NamesAreBranches ==
    /\ Main \notin Names /\ NoName \notin Names
    /\ Detached \notin Names \cup {Main, NoName}

Kinds == {"docker", "lxc"}

(* The CLI gives the worktree manager .nexus/worktrees and the controller  *)
(* looks in .nexus-runtime/state/worktrees; NewBaseController's own        *)
(* default is to use the latter for both.                                  *)
Ctl == "state"
Mgr == IF OneDir THEN "state" ELSE "nexus"
Places == {"nexus", "state"}

VARIABLES
    cfg,        \* config.yaml: [loads, provider, remote, setup]
    head,       \* branch checked out in the main working tree, or Detached
    branches,   \* local branches
    trees,      \* worktrees git has registered, by branch
    dir,        \* dir[place, name]: what is there
    dirty,      \* worktrees with files git does not know
    box,        \* box[kind, name]: the container of that session name
    proc,       \* proc[p]: the command process p runs
    started,    \* commands started so far
    outside     \* steps of the outside world so far

vars == <<cfg, head, branches, trees, dir, dirty, box, proc, started, outside>>
git == <<head, branches, trees>>
files == <<dir, dirty>>
bounds == <<started, outside>>

NoBox == [status |-> "none", id |-> 0]
Commands == {"create", "up", "down", "rm", "kill", "exec", "services",
             "connect", "list"}

(* Two fields keep what a command does not say: `slipped`, that git moved  *)
(* to the new branch and not back, and `dropped`, the provider and name of *)
(* each driver error that was ignored.                                     *)
Idle == [cmd |-> "none", name |-> NoName, pc |-> "idle", cur |-> NoName,
         kind |-> "none", id |-> 0, todo |-> {}, found |-> FALSE, alone |-> TRUE,
         slipped |-> FALSE, dropped |-> {}, seen |-> {}, result |-> "none"]

Active(p) == proc[p].pc \notin {"idle", "done"}

(* What a change of one process record is, and what the end of a command   *)
(* is.  Only the result of a command that ran alone and that something is  *)
(* claimed about is kept, until something else happens.                    *)
Goto(p, pc) == proc' = [proc EXCEPT ![p].pc = pc]
Outcome(r, result) ==
    IF ~r.alone \/ r.cmd \in {"exec", "services", "connect", "kill", "rm"} THEN Idle
    ELSE [Idle EXCEPT !.cmd = r.cmd, !.name = r.name, !.pc = "done", !.cur = r.cur,
                      !.slipped = r.slipped, !.dropped = r.dropped, !.seen = r.seen,
                      !.result = result]
FinishAs(p, r, result) == proc' = [proc EXCEPT ![p] = Outcome(r, result)]
Finish(p, result) == FinishAs(p, proc[p], result)
Settled == [q \in Procs |-> IF Active(q) THEN proc[q] ELSE Idle]

-----------------------------------------------------------------------------
(* Which operation of the controller a command runs, by its first step.    *)
FirstStep(cmd) ==
    CASE cmd = "create" -> "stat" [] cmd = "rm" -> "treeRemove" [] cmd = "kill" -> "search"
      [] cmd = "list" -> "list" [] OTHER -> "load"

(* Starting a command.  `alone` records that no other command overlapped it. *)

Start(p, cmd, n) ==
    /\ ~Active(p) /\ started < MaxCommands
    /\ started' = started + 1
    /\ LET others == {q \in Procs : Active(q)}
       IN  proc' = [q \in Procs |->
                IF q = p THEN [Idle EXCEPT !.cmd = cmd, !.name = n, !.pc = FirstStep(cmd),
                           !.id = started', !.todo = Kinds, !.alone = others = {}]
                ELSE IF q \in others THEN [proc[q] EXCEPT !.alone = FALSE]
                ELSE Idle]
    /\ UNCHANGED <<cfg, git, files, box, outside>>

(* Steps that are no command's.                                            *)
Outside == outside < MaxOutside /\ outside' = outside + 1

(* An interrupted command leaves everything as it was.                     *)
Interrupt(p) ==
    /\ Active(p) /\ Outside
    /\ proc' = [Settled EXCEPT ![p] = Idle]
    /\ UNCHANGED <<cfg, git, files, box, started>>

-----------------------------------------------------------------------------
(* branch create: WorkspaceCreate and the worktree manager's Add.  Any git *)
(* command may be refused (a lock, files in the way), and one that did its *)
(* work may report an error all the same (a hook of the user's).           *)

(* git refuses to check out a branch that another worktree holds.          *)
CanCheckout(b) == b \in branches /\ b \notin trees

CreateStat(p) ==
    LET n == proc[p].name IN
    /\ proc[p].pc = "stat"
    /\ IF dir[<<Ctl, n>>] # "none" THEN Finish(p, "exists")
       ELSE IF dir[<<Mgr, n>>] # "none" THEN Goto(p, "configure")
       ELSE Goto(p, "readHead")
    /\ UNCHANGED <<cfg, git, files, box, bounds>>

(* getCurrentBranch, and the move to a safe branch when the wanted branch  *)
(* is the one checked out.                                                 *)
ReadHead(p) ==
    LET n == proc[p].name
        read == [proc[p] EXCEPT !.pc = "makeBranch", !.cur = head]
    IN  /\ proc[p].pc = "readHead"
        /\ \/ FinishAs(p, read, "error") /\ UNCHANGED head
           \/ /\ head # n
              /\ proc' = [proc EXCEPT ![p] = read]
              /\ UNCHANGED head
           \/ /\ head = n /\ CanCheckout(Main)
              /\ head' = Main
              /\ proc' = [proc EXCEPT ![p] = read] \/ FinishAs(p, read, "error")
        /\ UNCHANGED <<cfg, branches, trees, files, box, bounds>>

(* Mutant of SwitchBack: the repository is left on the new branch.         *)
NoSwitchBack(p) ==
    /\ proc[p].pc = "switchBack"
    /\ Goto(p, "treeAdd")
    /\ UNCHANGED <<cfg, git, files, box, bounds>>

(* git checkout -b leaves the main working tree on the new branch ...      *)
MakeBranch(p) ==
    LET n == proc[p].name IN
    /\ proc[p].pc = "makeBranch"
    /\ \/ Finish(p, "error") /\ UNCHANGED <<head, branches>>
       \/ n \in branches /\ Goto(p, "treeAdd") /\ UNCHANGED <<head, branches>>
       \/ /\ n \notin branches
          /\ branches' = branches \cup {n}
          /\ head' = n
          /\ Goto(p, "switchBack") \/ FinishAs(p, [proc[p] EXCEPT !.slipped = TRUE], "error")
    /\ UNCHANGED <<cfg, trees, files, box, bounds>>

(* ... until it is switched back.  The outcome of that is ignored: git may *)
(* refuse, and `git checkout HEAD` after a detached HEAD moves nothing.    *)
SwitchBack(p) ==
    /\ proc[p].pc = "switchBack"
    /\ \/ /\ CanCheckout(proc[p].cur)
          /\ head' = proc[p].cur
          /\ Goto(p, "treeAdd")
       \/ /\ proc' = [proc EXCEPT ![p].pc = "treeAdd", ![p].slipped = TRUE]
          /\ UNCHANGED head
    /\ UNCHANGED <<cfg, branches, trees, files, box, bounds>>

(* git worktree add: refused while the branch is checked out, or when the  *)
(* path is still registered, even if the directory is gone.                *)
CanAdd(n) == n # head /\ n \notin trees /\ dir[<<Mgr, n>>] = "none"

(* Mutant of TreeAdd: its failure is not reported.                         *)
TreeAddUnchecked(p) ==
    LET n == proc[p].name IN
    /\ proc[p].pc = "treeAdd"
    /\ \/ UNCHANGED <<trees, dir>>
       \/ CanAdd(n) /\ trees' = trees \cup {n} /\ dir' = [dir EXCEPT ![<<Mgr, n>>] = "tree"]
    /\ Goto(p, "configure")
    /\ UNCHANGED <<cfg, head, branches, dirty, box, bounds>>

TreeAdd(p) ==
    LET n == proc[p].name IN
    /\ proc[p].pc = "treeAdd"
    /\ \/ Finish(p, "error") /\ UNCHANGED <<trees, dir>>
       \/ /\ CanAdd(n)
          /\ trees' = trees \cup {n}
          /\ dir' = [dir EXCEPT ![<<Mgr, n>>] = "tree"]
          /\ Goto(p, "configure") \/ Finish(p, "error")
    /\ UNCHANGED <<cfg, head, branches, dirty, box, bounds>>

(* The rest of WorkspaceCreate: load the configuration, merge templates,   *)
(* write the agents' files into the worktree.  A failure undoes nothing.   *)
Configure(p) ==
    LET n == proc[p].name IN
    /\ proc[p].pc = "configure"
    /\ \/ Finish(p, "error") /\ UNCHANGED files
       \/ /\ cfg.loads
          /\ \E writes \in BOOLEAN :
                /\ dirty' = IF writes THEN dirty \cup {n} ELSE dirty
                /\ dir' = IF writes /\ dir[<<Mgr, n>>] = "none"
                          THEN [dir EXCEPT ![<<Mgr, n>>] = "plain"] ELSE dir
          /\ \E result \in {"ok", "error"} : Finish(p, result)
    /\ UNCHANGED <<cfg, git, box, bounds>>

-----------------------------------------------------------------------------
(* branch up: WorkspaceUp over the provider the configuration names.       *)

LoadUp(p) ==
    /\ proc[p].pc = "load" /\ proc[p].cmd = "up"
    /\ IF ~cfg.loads THEN Finish(p, "error")
       ELSE proc' = [proc EXCEPT ![p].pc = "boxCreate", ![p].kind = cfg.provider]
    /\ UNCHANGED <<cfg, git, files, box, bounds>>

(* What a driver call does to the container of a session; a container is   *)
(* known by the number of the command that created it.                     *)
Effect(s, o, id) ==
    [box EXCEPT ![s] = IF o.status = "none" THEN NoBox
                       ELSE [status |-> o.status, id |-> id]]

BoxCreate(p) ==
    LET s == <<proc[p].kind, proc[p].name>>
        outcomes == IF s[1] = "docker"
                    THEN DockerCreate(box[s].status, TRUE, cfg.remote, dir[<<Ctl, s[2]>>] # "none")
                    ELSE LXCCreate(box[s].status, cfg.remote)
    IN  /\ proc[p].pc = "boxCreate"
        /\ \E o \in outcomes :
              IF o.ok
              THEN /\ box' = Effect(s, o, proc[p].id)
                   /\ Goto(p, IF s[1] = "docker" THEN "boxStart" ELSE "lxcMount")
              ELSE Finish(p, "error") /\ UNCHANGED box
        /\ UNCHANGED <<cfg, git, files, bounds>>

(* LXC's MkdirAll makes the workspace directory when there is none.        *)
Mount(p) ==
    LET s == <<"lxc", proc[p].name>> IN
    /\ proc[p].pc = "lxcMount"
    /\ dir' = IF dir[<<Ctl, s[2]>>] = "none" THEN [dir EXCEPT ![<<Ctl, s[2]>>] = "plain"] ELSE dir
    /\ \E o \in LXCMount(box[s].status) :
          /\ box' = Effect(s, o, box[s].id)
          /\ IF o.ok THEN Goto(p, "boxStart")
             ELSE FinishAs(p, [proc[p] EXCEPT !.dropped = IF o.clean THEN {} ELSE {s}],
                           "mountFailed")
    /\ UNCHANGED <<cfg, git, dirty, bounds>>

(* Docker finds the container by the id Create or List returned, LXC by    *)
(* its name.                                                               *)
Seen(p) ==
    LET b == box[<<proc[p].kind, proc[p].name>>]
    IN  IF proc[p].kind = "docker" /\ b.id # proc[p].id THEN "none" ELSE b.status

BoxStart(p) ==
    LET s == <<proc[p].kind, proc[p].name>>
        outcomes == IF s[1] = "docker" THEN DockerStart(Seen(p)) ELSE LXCStart(Seen(p))
    IN  /\ proc[p].pc = "boxStart"
        /\ \E o \in outcomes :
              IF o.ok THEN box' = Effect(s, o, box[s].id) /\ Goto(p, "setup")
              ELSE Finish(p, "error") /\ UNCHANGED box
        /\ UNCHANGED <<cfg, git, files, bounds>>

(* runHook writes .env into the worktree and runs a script of the user's   *)
(* there; that either fails is only a warning.                             *)
HookWrites(n) == IF dir[<<Ctl, n>>] = "tree" THEN dirty \cup {n} ELSE dirty

(* After the hook .env is written again, with the ports the container got, *)
(* and the setup hook runs inside it; its failure fails the command.       *)
Setup(p) ==
    LET n == proc[p].name IN
    /\ proc[p].pc = "setup"
    /\ dirty' = HookWrites(n)
    /\ \/ Finish(p, "ok")
       \/ cfg.setup /\ Finish(p, "error")
    /\ UNCHANGED <<cfg, git, dir, box, bounds>>

-----------------------------------------------------------------------------
(* branch down, kill, exec, shell, services, connect and list: commands    *)
(* that search the sessions.                                               *)

LoadSearch(p) ==
    /\ proc[p].pc = "load" /\ proc[p].cmd = "down"
    /\ IF cfg.loads THEN Goto(p, "search") ELSE Finish(p, "error")
    /\ UNCHANGED <<cfg, git, files, box, bounds>>

Listed(k, n) == IF k = "docker" THEN DockerListed(box[<<k, n>>].status)
                ELSE LXCListed(box[<<k, n>>].status, n = LxcFirst)

(* A provider whose list fails is passed over like one without a session.  *)
PassOver(p, k) ==
    LET n == proc[p].name IN
    \/ ~Listed(k, n) /\ proc' = [proc EXCEPT ![p].todo = @ \ {k}]
    \/ proc' = [proc EXCEPT ![p].todo = @ \ {k}, ![p].dropped = @ \cup {<<k, n>>}]

(* Mutant of Search: Down stops looking after the first provider.          *)
SearchOne(p) ==
    /\ proc[p].pc = "search"
    /\ \E k \in proc[p].todo :
          \/ /\ Listed(k, proc[p].name)
             /\ proc' = [proc EXCEPT ![p].pc = "use", ![p].kind = k,
                              ![p].id = box[<<k, proc[p].name>>].id, ![p].todo = {}]
          \/ PassOver(p, k)
    /\ UNCHANGED <<cfg, git, files, box, bounds>>

(* The providers are a Go map: they are searched in any order.             *)
Search(p) ==
    /\ proc[p].pc = "search"
    /\ \E k \in proc[p].todo :
          \/ /\ Listed(k, proc[p].name)
             /\ proc' = [proc EXCEPT ![p].pc = "use", ![p].kind = k,
                              ![p].id = box[<<k, proc[p].name>>].id, ![p].todo = @ \ {k}]
          \/ PassOver(p, k)
    /\ UNCHANGED <<cfg, git, files, box, bounds>>

SearchEnds(p) ==
    /\ proc[p].pc = "search" /\ proc[p].todo = {}
    /\ Finish(p, IF proc[p].found THEN "ok" ELSE "notFound")
    /\ UNCHANGED <<cfg, git, files, box, bounds>>

(* Down goes on to the other providers; Kill returns after the first.      *)
Destroy(p) ==
    LET s == <<proc[p].kind, proc[p].name>>
        outcomes == IF s[1] = "docker" THEN DockerDestroy(Seen(p)) ELSE LXCDestroy(Seen(p))
    IN  /\ proc[p].pc = "use" /\ proc[p].cmd \in {"down", "kill"}
        /\ \E o \in outcomes :
              IF ~o.ok THEN Finish(p, "error") /\ UNCHANGED box
              ELSE /\ box' = Effect(s, o, box[s].id)
                   /\ IF proc[p].cmd = "kill" THEN Finish(p, "ok")
                      ELSE proc' = [proc EXCEPT ![p].pc = "search", ![p].found = TRUE]
        /\ UNCHANGED <<cfg, git, files, bounds>>

(* Shell and exec run in the first session found; nothing is changed, so   *)
(* the search and the call are one step.  Nothing is found when the lists  *)
(* of the providers that have a session of the name all fail.              *)
Exec(p) ==
    LET n == proc[p].name
        runs(k) == IF k = "docker" THEN DockerExec(box[<<k, n>>].status)
                   ELSE LXCExec(box[<<k, n>>].status)
    IN  /\ proc[p].pc = "load" /\ proc[p].cmd = "exec"
        /\ \/ ~cfg.loads /\ Finish(p, "error")
           \/ cfg.loads /\ Finish(p, "notFound")
           \/ /\ cfg.loads
              /\ \E k \in {k \in Kinds : Listed(k, n)} : \E ran \in runs(k) :
                    Finish(p, IF ran THEN "ok" ELSE "error")
        /\ UNCHANGED <<cfg, git, files, box, bounds>>

(* WorkspaceServices returns the ports of the first session found.         *)
Services(p) ==
    /\ proc[p].pc = "load" /\ proc[p].cmd = "services"
    /\ \/ ~cfg.loads /\ Finish(p, "error")
       \/ cfg.loads /\ Finish(p, "notFound")
       \/ cfg.loads /\ (\E k \in Kinds : Listed(k, proc[p].name)) /\ Finish(p, "ok")
    /\ UNCHANGED <<cfg, git, files, box, bounds>>

(* WorkspaceConnect prints the first session listed, running or not, and   *)
(* succeeds without one.                                                   *)
Connect(p) ==
    /\ proc[p].pc = "load" /\ proc[p].cmd = "connect"
    /\ Finish(p, IF cfg.loads THEN "ok" ELSE "error")
    /\ UNCHANGED <<cfg, git, files, box, bounds>>

(* What a list shows of the workspaces in one place, when some of the      *)
(* calls that ask a provider for its sessions fail.                        *)
Shown(place, dropped) ==
    {n \in Names : /\ cfg.loads /\ dir[<<place, n>>] # "none"
                   /\ \E k \in Kinds : <<k, n>> \notin dropped /\ Listed(k, n)}

(* Mutant of List: the workspaces are looked up where the worktree manager *)
(* keeps them.                                                             *)
ListManaged(p) ==
    /\ proc[p].pc = "list"
    /\ \E dropped \in SUBSET (Kinds \X Names) :
          FinishAs(p, [proc[p] EXCEPT !.seen = Shown(Mgr, dropped), !.dropped = dropped], "ok")
    /\ UNCHANGED <<cfg, git, files, box, bounds>>

(* WorkspaceList: the directories of the controller, as running when some  *)
(* provider lists a session of the name.  For every directory every        *)
(* provider is asked again, and one that fails is passed over.             *)
List(p) ==
    /\ proc[p].pc = "list"
    /\ \E dropped \in SUBSET (Kinds \X {n \in Names : cfg.loads /\ dir[<<Ctl, n>>] # "none"}) :
          FinishAs(p, [proc[p] EXCEPT !.seen = Shown(Ctl, dropped), !.dropped = dropped], "ok")
    /\ UNCHANGED <<cfg, git, files, box, bounds>>

-----------------------------------------------------------------------------
(* branch rm: WorkspaceRm, which is the worktree manager's Remove.         *)

(* git worktree remove refuses a worktree with files it does not know; the *)
(* outcome is ignored ...                                                  *)
TreeRemove(p) ==
    LET n == proc[p].name IN
    /\ proc[p].pc = "treeRemove"
    /\ IF n \in trees /\ ~(dir[<<Mgr, n>>] # "none" /\ n \in dirty)
       THEN /\ trees' = trees \ {n}
            /\ dir' = [dir EXCEPT ![<<Mgr, n>>] = "none"]
       ELSE UNCHANGED <<trees, dir>>
    /\ Goto(p, "removeAll")
    /\ UNCHANGED <<cfg, head, branches, dirty, box, bounds>>

(* ... and the directory is deleted in any case.                           *)
RemoveAll(p) ==
    LET n == proc[p].name IN
    /\ proc[p].pc = "removeAll"
    /\ dir' = [dir EXCEPT ![<<Mgr, n>>] = "none"]
    /\ dirty' = dirty \ {n}
    /\ Finish(p, "ok")
    /\ UNCHANGED <<cfg, git, box, bounds>>

-----------------------------------------------------------------------------
(* The user and the engines.                                               *)

(* nexus init writes the default configuration over the one that is there. *)
InitProject ==
    /\ Outside
    /\ cfg' = [loads |-> TRUE, provider |-> "docker", remote |-> FALSE, setup |-> TRUE]
    /\ proc' = Settled
    /\ UNCHANGED <<git, files, box, started>>

(* The user changes one setting, or breaks the file.                       *)
EditConfig ==
    /\ Outside
    /\ \/ cfg' = [cfg EXCEPT !.loads = FALSE]
       \/ cfg' = [cfg EXCEPT !.remote = TRUE]
       \/ \E k \in Kinds : k # cfg.provider /\ cfg' = [cfg EXCEPT !.provider = k]
    /\ proc' = Settled
    /\ UNCHANGED <<git, files, box, started>>

(* The container's own process ends.                                       *)
BoxStops(k, n) ==
    /\ Outside
    /\ box[<<k, n>>].status = "running"
    /\ box' = [box EXCEPT ![<<k, n>>].status = "stopped"]
    /\ proc' = Settled
    /\ UNCHANGED <<cfg, git, files, started>>

-----------------------------------------------------------------------------

Init ==
    /\ cfg \in [loads : {TRUE}, provider : Kinds, remote : {FALSE}, setup : {TRUE}]
    /\ head \in {Main, Detached} \cup Names
    /\ branches = {Main, head} \ {Detached}
    /\ trees = {}
    /\ dir = [s \in Places \X Names |-> "none"]
    /\ dirty = {}
    /\ box = [s \in Kinds \X Names |-> NoBox]
    /\ proc = [p \in Procs |-> Idle]
    /\ started = 0
    /\ outside = 0

Step(p) ==
    \/ CreateStat(p) \/ ReadHead(p) \/ MakeBranch(p) \/ SwitchBack(p)
    \/ TreeAdd(p) \/ Configure(p)
    \/ LoadUp(p) \/ BoxCreate(p) \/ Mount(p) \/ BoxStart(p) \/ Setup(p)
    \/ LoadSearch(p) \/ Search(p) \/ SearchEnds(p) \/ Destroy(p) \/ Exec(p) \/ Services(p)
    \/ Connect(p)
    \/ List(p) \/ TreeRemove(p) \/ RemoveAll(p)

Next ==
    \/ \E p \in Procs : Step(p) \/ Interrupt(p)
    \/ \E p \in Procs, cmd \in Commands, n \in Names : Start(p, cmd, n)
    \/ InitProject \/ EditConfig
    \/ \E k \in Kinds, n \in Names : BoxStops(k, n)

Spec == Init /\ [][Next]_vars

-----------------------------------------------------------------------------
(* p has just run a whole command without another one overlapping it.      *)
Ran(p, cmd, result) ==
    /\ proc[p].cmd = cmd /\ proc[p].pc = "done" /\ proc[p].alone
    /\ proc[p].result = result

(* Creating a workspace moves the user's working tree to the new branch    *)
(* and back.  After a create that reports success the user is on the       *)
(* branch they were on, or on the safe branch if they asked for their own; *)
(* after one that fails they may also have been left where they were, and  *)
(* they are on the new branch only if git did not move back.               *)
HeadRestored ==
    \A p \in Procs, result \in {"ok", "error"} :
        Ran(p, "create", result) /\ proc[p].cur # NoName =>
            \/ head = IF proc[p].cur = proc[p].name THEN Main ELSE proc[p].cur
            \/ result = "error" /\ head = proc[p].cur
            \/ result = "error" /\ head = proc[p].name /\ proc[p].slipped

(* A create that reports success and had to add the worktree leaves a      *)
(* worktree git knows, on a branch of that name.                           *)
CreateMakesTree ==
    \A p \in Procs : Ran(p, "create", "ok") /\ proc[p].cur # NoName =>
        /\ dir[<<Mgr, proc[p].name>>] = "tree"
        /\ proc[p].name \in trees /\ proc[p].name \in branches

(* A down that reports success leaves no session of that name with a       *)
(* provider that lists it, of the providers whose list did not fail; and   *)
(* an up whose LXC container could not be mounted leaves no container,     *)
(* unless the deletion failed as well.                                     *)
NothingLeft ==
    \A p \in Procs :
        /\ Ran(p, "down", "ok") =>
              \A k \in Kinds : <<k, proc[p].name>> \in proc[p].dropped \/ ~Listed(k, proc[p].name)
        /\ Ran(p, "up", "mountFailed") =>
              \/ <<"lxc", proc[p].name>> \in proc[p].dropped
              \/ box[<<"lxc", proc[p].name>>] = NoBox

(* The list shows every workspace with a running container that its        *)
(* provider lists, whatever commands made and removed it before, if that   *)
(* call of the provider's list did not fail.                               *)
ListShowsRunning ==
    \A p \in Procs : Ran(p, "list", "ok") /\ cfg.loads =>
        \A k \in Kinds, n \in Names :
            /\ box[<<k, n>>].status = "running" /\ Listed(k, n)
            /\ <<k, n>> \notin proc[p].dropped
            => n \in proc[p].seen
=============================================================================
