-------------------------- MODULE ControllerProofs --------------------------
(***************************************************************************)
(* Proofs about Controller: what a branch command that ran alone leaves    *)
(* behind, for any number of names, processes and commands.                *)
(***************************************************************************)
EXTENDS Controller, TLAPS

CreatePcs == {"stat", "readHead", "makeBranch", "switchBack", "treeAdd", "configure"}
UpPcs == {"boxCreate", "lxcMount", "boxStart", "setup"}
SearchPcs == {"search", "use"}
Pcs == {"idle", "done", "load", "list", "treeRemove", "removeAll"}
       \cup CreatePcs \cup UpPcs \cup SearchPcs
Results == {"none", "ok", "error", "exists", "notFound", "mountFailed"}

Process == [cmd : Commands \cup {"none"}, name : Names \cup {NoName}, pc : Pcs,
            cur : Names \cup {Main, Detached, NoName}, kind : Kinds \cup {"none"}, id : Nat,
            todo : SUBSET Kinds, found : BOOLEAN, alone : BOOLEAN, slipped : BOOLEAN,
            dropped : SUBSET (Kinds \X Names), seen : SUBSET Names, result : Results]
Box == [status : Statuses, id : Nat]

Types ==
    /\ cfg \in [loads : BOOLEAN, provider : Kinds, remote : BOOLEAN, setup : BOOLEAN]
    /\ head \in Names \cup {Main, Detached} /\ branches \subseteq Names \cup {Main}
    /\ dir \in [Places \X Names -> {"none", "tree", "plain"}]
    /\ box \in [Kinds \X Names -> Box]
    /\ proc \in [Procs -> Process] /\ started \in Nat

\* Which steps a command makes, on a name it was given.
Consistent(r) ==
    /\ r.pc \notin {"idle", "done"} => r.name \in Names
    /\ r.pc \in CreatePcs => r.cmd = "create"
    /\ r.pc \in UpPcs => r.cmd = "up" /\ r.kind \in Kinds
    /\ r.pc \in SearchPcs => r.cmd \in {"down", "kill"}
    /\ r.pc = "use" => r.kind \in Kinds
    /\ r.pc = "lxcMount" => r.kind = "lxc"
    /\ r.pc \in {"stat", "readHead"} => r.cur = NoName
    /\ r.pc = "load" => r.todo = Kinds
    /\ r.pc = "list" => r.cmd = "list"
    /\ r.pc \in {"treeRemove", "removeAll"} => r.cmd = "rm"
Steps == \A p \in Procs : Consistent(proc[p])

\* A command that is alone, or whose result is kept, has no other beside it.
Solo ==
    \A p, q \in Procs :
        p # q /\ proc[p].alone /\ proc[p].pc # "idle" => ~Active(q)

\* What git sees to: a branch is checked out once, and a worktree has a branch.
GitInv ==
    /\ head \in branches \cup {Detached} /\ head \notin trees /\ trees \subseteq branches
    /\ \A p \in Procs :
          proc[p].pc \in {"switchBack", "treeAdd"} => proc[p].name \in branches

-----------------------------------------------------------------------------
(* What a step does to the process that makes it.                          *)

OnlyProc(p) ==
    /\ proc' \in [Procs -> Process]
    /\ \A q \in Procs \ {p} : proc'[q] = proc[q]

Carries(p) ==
    /\ OnlyProc(p)
    /\ proc'[p].cmd = proc[p].cmd /\ proc'[p].name = proc[p].name
    /\ proc'[p].alone = proc[p].alone

\* It goes on, with the branch it found checked out.
GoesOn(p, pc, cur) == Carries(p) /\ proc'[p].pc = pc /\ proc'[p].cur = cur

\* It goes on, all else unchanged.
Went(p, pc) ==
    /\ GoesOn(p, pc, proc[p].cur)
    /\ proc'[p].kind = proc[p].kind /\ proc'[p].todo = proc[p].todo
    /\ proc'[p].slipped = proc[p].slipped /\ proc'[p].dropped = proc[p].dropped

\* It ends as r; its result is kept when it was alone.
EndedAs(p, r, result) ==
    /\ OnlyProc(p)
    /\ \/ proc'[p].pc = "idle"
       \/ /\ Carries(p) /\ proc[p].alone /\ proc'[p].pc = "done"
          /\ proc'[p].cur = r.cur /\ proc'[p].slipped = r.slipped
          /\ proc'[p].dropped = r.dropped /\ proc'[p].seen = r.seen
          /\ proc'[p].result = result
Ended(p, result) == EndedAs(p, proc[p], result)

\* The fields of a process.
LEMMA ProcessFields ==
    ASSUME NEW r \in Process
    PROVE  /\ r.cmd \in Commands \cup {"none"} /\ r.name \in Names \cup {NoName} /\ r.pc \in Pcs
           /\ r.cur \in Names \cup {Main, Detached, NoName} /\ r.kind \in Kinds \cup {"none"}
           /\ r.todo \subseteq Kinds /\ r.found \in BOOLEAN /\ r.alone \in BOOLEAN
           /\ r.slipped \in BOOLEAN /\ r.dropped \subseteq Kinds \X Names
           /\ r.seen \subseteq Names /\ r.id \in Nat /\ r.result \in Results
  BY DEF Process

\* A process that runs no command is a process.
LEMMA IdleIsProcess == Idle \in Process /\ Idle.pc = "idle"
  BY DEF Idle, Process, Pcs, Results

\* Goto changes nothing of a process but its place.
LEMMA GotoMoves ==
    ASSUME proc \in [Procs -> Process], NEW p \in Procs, NEW pc \in Pcs, Goto(p, pc)
    PROVE  Went(p, pc)
<1> DEFINE r == [proc[p] EXCEPT !.pc = pc]
<1>1. proc[p] \in Process
  OBVIOUS
<1>2. /\ r \in Process /\ r.pc = pc /\ r.cmd = proc[p].cmd /\ r.name = proc[p].name
      /\ r.alone = proc[p].alone /\ r.cur = proc[p].cur /\ r.kind = proc[p].kind
      /\ r.todo = proc[p].todo /\ r.slipped = proc[p].slipped /\ r.dropped = proc[p].dropped
  BY <1>1 DEF Process
<1>3. proc' = [proc EXCEPT ![p] = r]
  BY DEF Goto
<1> HIDE DEF r
<1> QED
  BY <1>2, <1>3 DEF Went, GoesOn, Carries, OnlyProc

\* FinishAs ends the command of one process.
LEMMA FinishAsEnds ==
    ASSUME proc \in [Procs -> Process], NEW p \in Procs, NEW result \in Results,
           NEW r \in Process, r.cmd = proc[p].cmd, r.name = proc[p].name,
           r.alone = proc[p].alone, FinishAs(p, r, result)
    PROVE  EndedAs(p, r, result)
<1>0. proc' = [proc EXCEPT ![p] = Outcome(r, result)]
  BY DEF FinishAs
<1> DEFINE kept == ~(~r.alone \/ r.cmd \in {"exec", "services", "connect", "kill", "rm"})
<1>1. CASE ~kept
  <2>1. Outcome(r, result) = Idle
    BY <1>1 DEF Outcome
  <2> QED
    BY <1>0, <2>1, IdleIsProcess DEF EndedAs, OnlyProc
<1>2. CASE kept
  <2> DEFINE s == [Idle EXCEPT !.cmd = r.cmd, !.name = r.name, !.pc = "done", !.cur = r.cur,
                               !.slipped = r.slipped, !.dropped = r.dropped, !.seen = r.seen,
                               !.result = result]
  <2>1. Outcome(r, result) = s
    BY <1>2 DEF Outcome
  <2>2. /\ s.pc = "done" /\ s.cmd = r.cmd /\ s.name = r.name /\ s.alone = TRUE /\ s.cur = r.cur
        /\ s.slipped = r.slipped /\ s.dropped = r.dropped /\ s.seen = r.seen
        /\ s.result = result
    BY ZenonT(30) DEF Idle
  <2>3. s \in Process
    BY IdleIsProcess, ProcessFields DEF Process, Pcs
  <2>4. r.alone = TRUE
    BY <1>2, ProcessFields
  <2> HIDE DEF s, kept
  <2> QED
    BY <1>0, <2>1, <2>2, <2>3, <2>4 DEF EndedAs, OnlyProc, Carries
<1> QED
  BY <1>1, <1>2

\* A command that finishes has ended.
LEMMA FinishEnds ==
    ASSUME proc \in [Procs -> Process], NEW p \in Procs, NEW result \in Results, Finish(p, result)
    PROVE  Ended(p, result)
  BY FinishAsEnds DEF Finish, Ended

-----------------------------------------------------------------------------
(* What the drivers' calls can do to a container.                          *)

\* The outcomes of the Docker calls the controller makes, when they succeed.
LEMMA DockerOutcomes ==
    ASSUME NEW s \in Statuses, NEW remote \in BOOLEAN, NEW mountable \in BOOLEAN
    PROVE  /\ \A o \in DockerCreate(s, TRUE, remote, mountable) :
                  o.ok => mountable /\ s = "none" /\ o.status = "created"
           /\ \A o \in DockerStart(s) : o.ok => s # "none" /\ o.status = "running"
           /\ \A o \in DockerDestroy(s) : o.ok => s # "none" /\ o.status = "none"
  BY DEF DockerCreate, DockerRemote, DockerCreateLocal, DockerStart, DockerDestroy,
         Either, Refused, Did

\* The same of LXC.
LEMMA LXCOutcomes ==
    ASSUME NEW s \in Statuses, NEW remote \in BOOLEAN
    PROVE  /\ \A o \in LXCCreate(s, remote) : o.ok => s = "none" /\ o.status = "created"
           /\ \A o \in LXCStart(s) : o.ok => s # "none" /\ o.status = "running"
           /\ \A o \in LXCDestroy(s) : o.ok => s # "none" /\ o.status = "none"
  BY DEF LXCCreate, LXCRemote, LXCInit, LXCStart, LXCDestroy, Either, Refused, Did

\* A mount leaves the container as it was, or none; a failed one that cleaned up
\* leaves none.
LEMMA MountOutcomes ==
    ASSUME NEW s \in Statuses, NEW o \in LXCMount(s)
    PROVE  /\ o.status \in {s, "none"}
           /\ o.clean /\ ~o.ok => o.status = "none"
<1>1. CASE o = [status |-> s, ok |-> TRUE, clean |-> TRUE]
  BY <1>1
<1>2. CASE o \in {[status |-> e.status, ok |-> FALSE, clean |-> e.ok] : e \in LXCDestroy(s)}
  <2>1. PICK e \in LXCDestroy(s) : o = [status |-> e.status, ok |-> FALSE, clean |-> e.ok]
    BY <1>2
  <2>2. e = Refused(s) \/ e = Did("none")
    BY DEF LXCDestroy, Either
  <2> QED
    BY <2>1, <2>2 DEF Refused, Did
<1> QED
  BY <1>1, <1>2 DEF LXCMount

\* Nothing but the one container changes.
LEMMA EffectOnBox ==
    ASSUME box \in [Kinds \X Names -> Box], NEW s \in Kinds \X Names,
           NEW o, o.status \in Statuses, NEW id \in Nat, box' = Effect(s, o, id)
    PROVE  /\ box' \in [Kinds \X Names -> Box]
           /\ box'[s].status = o.status
           /\ o.status = "none" => box'[s] = NoBox
           /\ \A r \in Kinds \X Names : r # s => box'[r] = box[r]
<1> DEFINE b == IF o.status = "none" THEN NoBox ELSE [status |-> o.status, id |-> id]
<1>1. /\ b \in Box /\ b.status = o.status
      /\ o.status = "none" => b = NoBox
  BY DEF NoBox, Box, Statuses
<1>2. box' = [box EXCEPT ![s] = b]
  BY DEF Effect
<1> HIDE DEF b
<1> QED
  BY <1>1, <1>2

-----------------------------------------------------------------------------
(* Types, and the steps a command makes.                                   *)

Moved(p) ==
    /\ OnlyProc(p) /\ Consistent(proc'[p])
    /\ proc'[p].pc = "idle" \/ Carries(p)

\* A process that goes on to a place its command has is moved.
LEMMA WentMoves ==
    ASSUME Types, Steps, NEW p \in Procs, NEW pc \in Pcs, Went(p, pc),
           Active(p),
           pc \in CreatePcs => proc[p].cmd = "create",
           pc \in UpPcs => proc[p].cmd = "up" /\ proc[p].kind \in Kinds,
           pc \in SearchPcs => proc[p].cmd \in {"down", "kill"},
           pc = "use" => proc[p].kind \in Kinds,
           pc = "lxcMount" => proc[p].kind = "lxc",
           pc \in {"stat", "readHead"} => proc[p].cur = NoName,
           pc \notin {"load", "list"},
           pc \in {"treeRemove", "removeAll"} => proc[p].cmd = "rm"
    PROVE  Moved(p)
  BY DEF Steps, Consistent, Active, Went, GoesOn, Carries, Moved

\* A process whose command has ended is moved.
LEMMA EndedMoves ==
    ASSUME Types, Steps, NEW p \in Procs, NEW r, NEW result, EndedAs(p, r, result)
    PROVE  Moved(p)
  BY DEF Consistent, EndedAs, Moved, CreatePcs, UpPcs, SearchPcs

\* A step of one process keeps the types when it writes values of them.
LEMMA TypesKept ==
    ASSUME Types, NEW p \in Procs, OnlyProc(p),
           cfg' = cfg, started' = started,
           head' \in Names \cup {Main, Detached}, branches' \subseteq Names \cup {Main},
           dir' \in [Places \X Names -> {"none", "tree", "plain"}],
           box' \in [Kinds \X Names -> Box]
    PROVE  Types'
  BY DEF Types, OnlyProc

\* The steps that leave git and the containers alone.
PlainStep(p) ==
    \/ CreateStat(p) \/ Configure(p) \/ LoadUp(p) \/ Setup(p) \/ LoadSearch(p)
    \/ Search(p) \/ SearchEnds(p) \/ Exec(p) \/ Services(p) \/ Connect(p) \/ List(p)
    \/ RemoveAll(p)

\* The steps that leave git and the containers alone keep the types ...
LEMMA PlainStepTypes ==
    ASSUME Types, Steps, NEW p \in Procs, PlainStep(p), Moved(p)
    PROVE  Types'
<1>1. /\ dir \in [Places \X Names -> {"none", "tree", "plain"}]
      /\ Mgr \in Places /\ Ctl \in Places
  BY DEF Types, Places, Mgr, Ctl
<1>2. dir' \in [Places \X Names -> {"none", "tree", "plain"}]
  BY <1>1 DEF PlainStep, CreateStat, Configure, LoadUp, Setup, LoadSearch, Search, SearchEnds,
              Exec, Services, Connect, List, RemoveAll, files, git, bounds
<1>3. UNCHANGED <<cfg, head, branches, trees, box, started>>
  BY DEF PlainStep, CreateStat, Configure, LoadUp, Setup, LoadSearch, Search, SearchEnds,
         Exec, Services, Connect, List, RemoveAll, files, git, bounds
<1> QED
  BY <1>2, <1>3, TypesKept DEF Types, Moved

\* The search of a provider finds a session or goes on without it, for the
\* reason that it has none or that an error is dropped.
LEMMA SearchSteps ==
    ASSUME Types, Steps, NEW p \in Procs, Search(p)
    PROVE  /\ Moved(p) /\ Carries(p) /\ proc[p].dropped \subseteq proc'[p].dropped
           /\ \E k \in proc[p].todo :
                 /\ proc'[p].todo = proc[p].todo \ {k}
                 /\ \/ proc'[p].pc = "use" /\ proc'[p].kind = k
                    \/ /\ proc'[p].pc = "search"
                       /\ ~Listed(k, proc[p].name) \/ <<k, proc[p].name>> \in proc'[p].dropped
<1>0. /\ proc \in [Procs -> Process] /\ proc[p] \in Process /\ Consistent(proc[p])
      /\ box \in [Kinds \X Names -> Box]
  BY DEF Types, Steps
<1>1. PICK k \in proc[p].todo :
         \/ proc' = [proc EXCEPT ![p].pc = "use", ![p].kind = k,
                         ![p].id = box[<<k, proc[p].name>>].id, ![p].todo = @ \ {k}]
         \/ PassOver(p, k)
  BY DEF Search
<1>2. /\ k \in Kinds /\ proc[p].name \in Names /\ proc[p].pc = "search"
      /\ proc[p].cmd \in {"down", "kill"} /\ proc[p].todo \subseteq Kinds
      /\ proc[p].dropped \subseteq Kinds \X Names
  BY <1>0, <1>1, ProcessFields DEF Search, Consistent, SearchPcs
<1>3. box[<<k, proc[p].name>>].id \in Nat
  BY <1>0, <1>2 DEF Box
<1> DEFINE r == [proc[p] EXCEPT !.pc = "use", !.kind = k,
                     !.id = box[<<k, proc[p].name>>].id, !.todo = @ \ {k}]
           s == [proc[p] EXCEPT !.todo = @ \ {k}]
           d == [proc[p] EXCEPT !.todo = @ \ {k}, !.dropped = @ \cup {<<k, proc[p].name>>}]
<1>4. \/ proc' = [proc EXCEPT ![p] = r]
      \/ proc' = [proc EXCEPT ![p] = s] /\ ~Listed(k, proc[p].name)
      \/ proc' = [proc EXCEPT ![p] = d]
  BY <1>1 DEF PassOver
<1>5. /\ r \in Process /\ r.pc = "use" /\ r.kind = k /\ r.todo = proc[p].todo \ {k}
      /\ r.cmd = proc[p].cmd /\ r.name = proc[p].name /\ r.alone = proc[p].alone
      /\ r.dropped = proc[p].dropped
  BY <1>0, <1>2, <1>3 DEF Process, Pcs, SearchPcs
<1>6. /\ s \in Process /\ s.pc = "search" /\ s.todo = proc[p].todo \ {k}
      /\ s.cmd = proc[p].cmd /\ s.name = proc[p].name /\ s.alone = proc[p].alone
      /\ s.dropped = proc[p].dropped
  BY <1>0, <1>2 DEF Process, Pcs, SearchPcs
<1>7. /\ d \in Process /\ d.pc = "search" /\ d.todo = proc[p].todo \ {k}
      /\ d.cmd = proc[p].cmd /\ d.name = proc[p].name /\ d.alone = proc[p].alone
      /\ d.dropped = proc[p].dropped \cup {<<k, proc[p].name>>}
  <2>1. PICK e : e = proc[p].dropped \cup {<<k, proc[p].name>>}
    OBVIOUS
  <2>2. e \in SUBSET (Kinds \X Names)
    BY <1>2, <2>1
  <2>3. d = [proc[p] EXCEPT !.todo = @ \ {k}, !.dropped = e]
    BY <2>1
  <2> HIDE DEF d
  <2>4. /\ d \in Process /\ d.pc = "search" /\ d.todo = proc[p].todo \ {k}
        /\ d.cmd = proc[p].cmd /\ d.name = proc[p].name /\ d.alone = proc[p].alone
        /\ d.dropped = e
    BY <1>0, <1>2, <2>2, <2>3 DEF Process, Pcs, SearchPcs
  <2> QED
    BY <2>1, <2>4
<1> HIDE DEF r, s, d
<1>8. /\ OnlyProc(p)
      /\ \/ proc'[p] = r
         \/ proc'[p] = s /\ ~Listed(k, proc[p].name)
         \/ proc'[p] = d
  BY <1>0, <1>4, <1>5, <1>6, <1>7 DEF OnlyProc
<1>9. Carries(p)
  BY <1>5, <1>6, <1>7, <1>8 DEF Carries
<1>10. Consistent(r) /\ Consistent(s) /\ Consistent(d)
  BY <1>2, <1>5, <1>6, <1>7 DEF Consistent, CreatePcs, UpPcs, SearchPcs
<1> QED
  BY <1>5, <1>6, <1>7, <1>8, <1>9, <1>10 DEF Moved

\* Up takes the provider the configuration names.
LEMMA LoadUpSteps ==
    ASSUME Types, Steps, NEW p \in Procs, LoadUp(p)
    PROVE  /\ Moved(p) /\ proc[p].cmd = "up"
           /\ Ended(p, "error") \/ (Carries(p) /\ proc'[p].pc = "boxCreate")
<1>1. /\ proc \in [Procs -> Process] /\ proc[p] \in Process /\ Consistent(proc[p])
      /\ cfg \in [loads : BOOLEAN, provider : Kinds, remote : BOOLEAN, setup : BOOLEAN]
  BY DEF Types, Steps
<1> DEFINE r == [proc[p] EXCEPT !.pc = "boxCreate", !.kind = cfg.provider]
<1>2. CASE cfg.loads
  <2>1. /\ r \in Process /\ r.pc = "boxCreate" /\ r.cmd = "up" /\ r.kind \in Kinds
        /\ r.name = proc[p].name /\ r.alone = proc[p].alone
        /\ proc[p].cmd = "up" /\ proc[p].pc = "load"
    BY <1>1 DEF LoadUp, Process, Pcs, UpPcs
  <2>2. proc' = [proc EXCEPT ![p] = r]
    BY <1>2 DEF LoadUp
  <2> HIDE DEF r
  <2>3. OnlyProc(p) /\ proc'[p] = r
    BY <1>1, <2>1, <2>2 DEF OnlyProc
  <2>4. Carries(p)
    BY <2>1, <2>3 DEF Carries
  <2>5. Consistent(r)
    BY <1>1, <2>1 DEF Consistent, CreatePcs, UpPcs, SearchPcs
  <2> QED
    BY <2>1, <2>3, <2>4, <2>5 DEF Moved
<1>3. CASE ~cfg.loads
  BY <1>1, <1>3, FinishEnds, EndedMoves DEF Ended, LoadUp, Results
<1> QED
  BY <1>2, <1>3

\* A list ends, with what it shows and what it was not told.
LEMMA ListSteps ==
    ASSUME Types, NEW p \in Procs, List(p)
    PROVE  \E dropped \in SUBSET (Kinds \X Names) :
              EndedAs(p, [proc[p] EXCEPT !.seen = Shown(Ctl, dropped), !.dropped = dropped], "ok")
<1>1. PICK dropped \in SUBSET (Kinds \X Names) :
         FinishAs(p, [proc[p] EXCEPT !.seen = Shown(Ctl, dropped), !.dropped = dropped], "ok")
  BY DEF List
<1> DEFINE r == [proc[p] EXCEPT !.seen = Shown(Ctl, dropped), !.dropped = dropped]
<1>2. proc[p] \in Process /\ proc \in [Procs -> Process] /\ Shown(Ctl, dropped) \subseteq Names
  BY DEF Types, Shown
<1>3. /\ r \in Process /\ r.cmd = proc[p].cmd /\ r.name = proc[p].name
      /\ r.alone = proc[p].alone
  BY <1>2 DEF Process
<1> HIDE DEF r
<1>4. EndedAs(p, r, "ok")
  BY <1>1, <1>2, <1>3, FinishAsEnds DEF Results, r
<1> QED
  BY <1>4 DEF r

\* ... and move their process.
LEMMA PlainStepMoves ==
    ASSUME Types, Steps, NEW p \in Procs, PlainStep(p)
    PROVE  Moved(p)
<1>1. /\ proc \in [Procs -> Process] /\ proc[p] \in Process /\ Consistent(proc[p])
      /\ box \in [Kinds \X Names -> Box]
      /\ cfg \in [loads : BOOLEAN, provider : Kinds, remote : BOOLEAN, setup : BOOLEAN]
  BY DEF Types, Steps
<1>2. {"ok", "error", "exists", "notFound", "mountFailed", "none"} = Results
  BY DEF Results
<1>3. ASSUME NEW result \in Results, Finish(p, result)
      PROVE  Moved(p)
  BY <1>1, <1>3, FinishEnds, EndedMoves DEF Ended
<1>4. ASSUME NEW pc \in Pcs, Goto(p, pc)
      PROVE  Went(p, pc)
  BY <1>1, <1>4, GotoMoves
<1>5. CASE CreateStat(p)
  <2>1. CASE Goto(p, "configure")
    BY <1>1, <1>4, <1>5, <2>1, WentMoves
       DEF CreateStat, Consistent, Active, CreatePcs, UpPcs, SearchPcs, Pcs
  <2>2. CASE Goto(p, "readHead")
    BY <1>1, <1>4, <1>5, <2>2, WentMoves
       DEF CreateStat, Consistent, Active, CreatePcs, UpPcs, SearchPcs, Pcs
  <2> QED
    BY <1>2, <1>3, <1>5, <2>1, <2>2 DEF CreateStat
<1>6. CASE Configure(p)
  BY <1>2, <1>3, <1>6 DEF Configure
<1>7. CASE LoadUp(p)
  BY <1>7, LoadUpSteps
<1>8. CASE Setup(p)
  BY <1>2, <1>3, <1>8 DEF Setup
<1>9. CASE LoadSearch(p)
  <2>1. CASE Goto(p, "search")
    BY <1>1, <1>4, <1>9, <2>1, WentMoves
       DEF LoadSearch, Consistent, Active, CreatePcs, UpPcs, SearchPcs, Pcs
  <2> QED
    BY <1>2, <1>3, <1>9, <2>1 DEF LoadSearch
<1>10. CASE Search(p)
  BY <1>10, SearchSteps
<1>11. CASE SearchEnds(p)
  BY <1>2, <1>3, <1>11 DEF SearchEnds
<1>12. CASE Exec(p)
  BY <1>2, <1>3, <1>12 DEF Exec
<1>13. CASE Services(p)
  BY <1>2, <1>3, <1>13 DEF Services
<1>14. CASE Connect(p)
  BY <1>2, <1>3, <1>14 DEF Connect
<1>15. CASE List(p)
  BY <1>1, <1>15, ListSteps, EndedMoves
<1>16. CASE RemoveAll(p)
  BY <1>2, <1>3, <1>16 DEF RemoveAll
<1> QED
  BY <1>5, <1>6, <1>7, <1>8, <1>9, <1>10, <1>11, <1>12, <1>13, <1>14, <1>15, <1>16 DEF PlainStep

\* The branch that was checked out is remembered.
LEMMA ReadHeadSteps ==
    ASSUME Types, Steps, NEW p \in Procs, ReadHead(p)
    PROVE  /\ Moved(p)
           /\ \/ head' = head
              \/ head = proc[p].name /\ CanCheckout(Main) /\ head' = Main
           /\ \/ /\ GoesOn(p, "makeBranch", head)
                 /\ head' = IF head = proc[p].name THEN Main ELSE head
              \/ \E r \in Process : r.cur = head /\ EndedAs(p, r, "error")
<1> DEFINE read == [proc[p] EXCEPT !.pc = "makeBranch", !.cur = head]
<1>1. /\ proc \in [Procs -> Process] /\ proc[p] \in Process /\ Consistent(proc[p])
      /\ head \in Names \cup {Main, Detached} /\ proc[p].pc = "readHead"
  BY DEF Types, Steps, ReadHead
<1>2. /\ read \in Process /\ read.pc = "makeBranch" /\ read.cur = head
      /\ read.cmd = proc[p].cmd /\ read.name = proc[p].name /\ read.alone = proc[p].alone
  BY <1>1 DEF Process, Pcs, CreatePcs
<1>3. /\ \/ head' = head
         \/ head = proc[p].name /\ CanCheckout(Main) /\ head' = Main
      /\ \/ /\ proc' = [proc EXCEPT ![p] = read]
            /\ head' = IF head = proc[p].name THEN Main ELSE head
         \/ FinishAs(p, read, "error")
  BY DEF ReadHead
<1> HIDE DEF read
<1>4. CASE FinishAs(p, read, "error")
  BY <1>1, <1>2, <1>3, <1>4, FinishAsEnds, EndedMoves DEF Results
<1>5. CASE /\ proc' = [proc EXCEPT ![p] = read]
           /\ head' = IF head = proc[p].name THEN Main ELSE head
  <2>1. GoesOn(p, "makeBranch", head) /\ proc'[p] = read
    BY <1>1, <1>2, <1>5 DEF GoesOn, Carries, OnlyProc
  <2>2. Consistent(read)
    BY <1>1, <1>2 DEF Consistent, CreatePcs, UpPcs, SearchPcs
  <2> QED
    BY <1>3, <1>5, <2>1, <2>2 DEF Moved, GoesOn, Carries
<1> QED
  BY <1>3, <1>4, <1>5

\* A new branch is made, and the working tree stays where it was or is on it.
LEMMA MakeBranchSteps ==
    ASSUME Types, Steps, NEW p \in Procs, MakeBranch(p)
    PROVE  /\ Moved(p) /\ trees' = trees
           /\ \/ /\ Ended(p, "error") \/ (Went(p, "treeAdd") /\ proc[p].name \in branches)
                 /\ head' = head /\ branches' = branches
              \/ /\ \/ Went(p, "switchBack")
                    \/ \E r \in Process : /\ r.cur = proc[p].cur /\ r.slipped
                                          /\ EndedAs(p, r, "error")
                 /\ proc[p].name \notin branches
                 /\ head' = proc[p].name /\ branches' = branches \cup {proc[p].name}
<1> DEFINE r == [proc[p] EXCEPT !.slipped = TRUE]
<1>1. /\ proc \in [Procs -> Process] /\ proc[p] \in Process /\ Consistent(proc[p])
      /\ proc[p].pc = "makeBranch"
  BY DEF Types, Steps, MakeBranch
<1>2. /\ r \in Process /\ r.cur = proc[p].cur /\ r.slipped = TRUE
      /\ r.cmd = proc[p].cmd /\ r.name = proc[p].name /\ r.alone = proc[p].alone
  BY <1>1 DEF Process
<1>3. /\ trees' = trees
      /\ \/ /\ Finish(p, "error") \/ (Goto(p, "treeAdd") /\ proc[p].name \in branches)
            /\ head' = head /\ branches' = branches
         \/ /\ Goto(p, "switchBack") \/ FinishAs(p, r, "error")
            /\ proc[p].name \notin branches
            /\ head' = proc[p].name /\ branches' = branches \cup {proc[p].name}
  BY DEF MakeBranch
<1> HIDE DEF r
<1>4. CASE Finish(p, "error") \/ FinishAs(p, r, "error")
  BY <1>1, <1>2, <1>3, <1>4, FinishEnds, FinishAsEnds, EndedMoves, GotoMoves
     DEF Results, Pcs, CreatePcs, Ended
<1>5. ASSUME NEW pc \in {"treeAdd", "switchBack"}, Goto(p, pc)
      PROVE  Went(p, pc) /\ Moved(p)
  <2>1. Went(p, pc)
    BY <1>1, <1>5, GotoMoves DEF Pcs, CreatePcs
  <2> QED
    BY <1>1, <1>5, <2>1, WentMoves DEF Consistent, Active, CreatePcs, UpPcs, SearchPcs, Pcs
<1> QED
  BY <1>3, <1>4, <1>5

\* The working tree is moved back, or that is noted.
LEMMA SwitchBackSteps ==
    ASSUME Types, Steps, NEW p \in Procs, SwitchBack(p)
    PROVE  /\ Moved(p) /\ GoesOn(p, "treeAdd", proc[p].cur)
           /\ UNCHANGED <<branches, trees>>
           /\ \/ CanCheckout(proc[p].cur) /\ head' = proc[p].cur
              \/ head' = head /\ proc'[p].slipped
<1> DEFINE r == [proc[p] EXCEPT !.pc = "treeAdd", !.slipped = TRUE]
<1>1. /\ proc \in [Procs -> Process] /\ proc[p] \in Process /\ Consistent(proc[p])
      /\ proc[p].pc = "switchBack" /\ UNCHANGED <<branches, trees>>
  BY DEF Types, Steps, SwitchBack
<1>2. CASE Goto(p, "treeAdd") /\ CanCheckout(proc[p].cur) /\ head' = proc[p].cur
  <2>1. Went(p, "treeAdd")
    BY <1>1, <1>2, GotoMoves DEF Pcs, CreatePcs
  <2>2. Moved(p)
    BY <1>1, <2>1, WentMoves DEF Consistent, Active, CreatePcs, UpPcs, SearchPcs, Pcs
  <2> QED
    BY <1>1, <1>2, <2>1, <2>2 DEF Went
<1>3. CASE proc' = [proc EXCEPT ![p] = r] /\ head' = head
  <2>1. /\ r \in Process /\ r.pc = "treeAdd" /\ r.slipped = TRUE /\ r.cur = proc[p].cur
        /\ r.cmd = proc[p].cmd /\ r.name = proc[p].name /\ r.alone = proc[p].alone
    BY <1>1 DEF Process, Pcs, CreatePcs
  <2> HIDE DEF r
  <2>2. GoesOn(p, "treeAdd", proc[p].cur) /\ proc'[p] = r
    BY <1>1, <1>3, <2>1 DEF GoesOn, Carries, OnlyProc
  <2>3. Consistent(r)
    BY <1>1, <2>1 DEF Consistent, CreatePcs, UpPcs, SearchPcs
  <2> QED
    BY <1>1, <1>3, <2>1, <2>2, <2>3 DEF Moved, GoesOn, Carries
<1> QED
  BY <1>2, <1>3 DEF SwitchBack

\* The steps that change what git keeps.
GitStep(p) == MakeBranch(p) \/ SwitchBack(p) \/ TreeAdd(p) \/ TreeRemove(p)

\* The steps that run git move their process ...
LEMMA GitStepMoves ==
    ASSUME Types, Steps, NEW p \in Procs, GitStep(p) \/ ReadHead(p)
    PROVE  Moved(p)
<1>1. /\ proc \in [Procs -> Process] /\ proc[p] \in Process /\ Consistent(proc[p])
  BY DEF Types, Steps
<1>2. ASSUME NEW pc \in Pcs, Goto(p, pc)
      PROVE  Went(p, pc)
  BY <1>1, <1>2, GotoMoves
<1>3. CASE MakeBranch(p)
  BY <1>3, MakeBranchSteps
<1>4. CASE SwitchBack(p)
  BY <1>4, SwitchBackSteps
<1>5. CASE TreeAdd(p)
  <2>1. CASE Goto(p, "configure")
    BY <1>1, <1>2, <1>5, <2>1, WentMoves
       DEF TreeAdd, Consistent, Active, CreatePcs, UpPcs, SearchPcs, Pcs
  <2>2. CASE Finish(p, "error")
    BY <1>1, <2>2, FinishEnds, EndedMoves DEF Ended, Results
  <2> QED
    BY <1>5, <2>1, <2>2 DEF TreeAdd
<1>6. CASE TreeRemove(p)
  BY <1>1, <1>2, <1>6, WentMoves
     DEF TreeRemove, Consistent, Active, CreatePcs, UpPcs, SearchPcs, Pcs
<1> QED
  BY <1>3, <1>4, <1>5, <1>6, ReadHeadSteps DEF GitStep

\* ... and keep the types.
LEMMA GitStepTypes ==
    ASSUME Types, Steps, NEW p \in Procs, GitStep(p) \/ ReadHead(p), Moved(p)
    PROVE  Types'
<1>1. /\ dir \in [Places \X Names -> {"none", "tree", "plain"}]
      /\ head \in Names \cup {Main, Detached} /\ branches \subseteq Names \cup {Main}
      /\ box \in [Kinds \X Names -> Box]
      /\ proc[p].pc = "makeBranch" => proc[p].name \in Names
  BY DEF Types, Steps, Consistent
<1>2. dir' \in [Places \X Names -> {"none", "tree", "plain"}]
  BY <1>1 DEF GitStep, MakeBranch, SwitchBack, TreeAdd, TreeRemove, ReadHead, files
<1>3. UNCHANGED <<cfg, box, started>>
  BY DEF GitStep, MakeBranch, SwitchBack, TreeAdd, TreeRemove, ReadHead, files, bounds
<1>4. branches' \subseteq Names \cup {Main}
  BY <1>1 DEF GitStep, MakeBranch, SwitchBack, TreeAdd, TreeRemove, ReadHead
<1>5. head' \in Names \cup {Main, Detached}
  BY <1>1 DEF GitStep, MakeBranch, SwitchBack, TreeAdd, TreeRemove, ReadHead, CanCheckout
<1> QED
  BY <1>1, <1>2, <1>3, <1>4, <1>5, TypesKept DEF Moved

-----------------------------------------------------------------------------
(* What the steps that call a driver do to the container they call it for. *)

Touched(p, k) ==
    /\ box' \in [Kinds \X Names -> Box]
    /\ \A r \in Kinds \X Names : r # <<k, proc[p].name>> => box'[r] = box[r]

\* The fields of a container.
LEMMA BoxStatus ==
    ASSUME Types, NEW s \in Kinds \X Names
    PROVE  box[s].status \in Statuses /\ box[s].id \in Nat
  BY DEF Types, Box

\* Create: nothing, or a container that was not there.
LEMMA BoxCreateSteps ==
    ASSUME Types, Steps, NEW p \in Procs, BoxCreate(p)
    PROVE  /\ Moved(p) /\ proc[p].name \in Names /\ proc[p].kind \in Kinds
           /\ Touched(p, proc[p].kind)
           /\ \/ Ended(p, "error") /\ box' = box
              \/ /\ box'[<<proc[p].kind, proc[p].name>>].status = "created"
                 /\ \/ Went(p, "boxStart") /\ dir[<<Ctl, proc[p].name>>] # "none"
                    \/ Went(p, "lxcMount") /\ proc[p].kind = "lxc"
<1> DEFINE s == <<proc[p].kind, proc[p].name>>
           outcomes == IF s[1] = "docker"
                       THEN DockerCreate(box[s].status, TRUE, cfg.remote, dir[<<Ctl, s[2]>>] # "none")
                       ELSE LXCCreate(box[s].status, cfg.remote)
<1>1. /\ proc \in [Procs -> Process] /\ proc[p] \in Process /\ Consistent(proc[p])
      /\ box \in [Kinds \X Names -> Box] /\ cfg.remote \in BOOLEAN
      /\ proc[p].pc = "boxCreate" /\ proc[p].id \in Nat
  BY ProcessFields DEF Types, Steps, BoxCreate
<1>2. /\ proc[p].name \in Names /\ proc[p].kind \in Kinds /\ proc[p].cmd = "up"
      /\ s \in Kinds \X Names /\ s[1] = proc[p].kind /\ s[2] = proc[p].name
      /\ box[s].status \in Statuses
  BY <1>1, BoxStatus DEF Consistent, UpPcs
<1>3. PICK o \in outcomes :
         IF o.ok
         THEN /\ box' = Effect(s, o, proc[p].id)
              /\ Goto(p, IF s[1] = "docker" THEN "boxStart" ELSE "lxcMount")
         ELSE Finish(p, "error") /\ UNCHANGED box
  BY DEF BoxCreate
<1>4. ASSUME NEW pc \in Pcs, Goto(p, pc)
      PROVE  Went(p, pc)
  BY <1>1, <1>4, GotoMoves
<1>5. CASE o.ok
  <2>1. o.status = "created" /\ (s[1] = "docker" => dir[<<Ctl, proc[p].name>>] # "none")
    BY <1>1, <1>2, <1>3, <1>5, DockerOutcomes, LXCOutcomes, ZenonT(30)
  <2> HIDE DEF s, outcomes
  <2>2. Touched(p, proc[p].kind) /\ box'[s].status = "created"
    <3>1. s = <<proc[p].kind, proc[p].name>>
      BY DEF s
    <3>2. o.status \in Statuses
      BY <2>1 DEF Statuses
    <3>3. box' = Effect(s, o, proc[p].id)
      BY <1>3, <1>5
    <3>4. /\ box' \in [Kinds \X Names -> Box]
          /\ box'[s].status = o.status
          /\ \A r \in Kinds \X Names : r # s => box'[r] = box[r]
      BY <1>1, <1>2, <3>2, <3>3, EffectOnBox
    <3> QED
      BY <2>1, <3>1, <3>4 DEF Touched
  <2>3. \/ Went(p, "boxStart") /\ s[1] = "docker"
        \/ Went(p, "lxcMount") /\ proc[p].kind = "lxc"
    BY <1>2, <1>3, <1>4, <1>5 DEF Pcs, UpPcs, Kinds
  <2>4. Moved(p)
    BY <1>1, <1>2, <2>3, WentMoves DEF Pcs, UpPcs, CreatePcs, SearchPcs, Active
  <2> QED
    BY <1>2, <2>1, <2>2, <2>3, <2>4 DEF s
<1>6. CASE ~o.ok
  BY <1>1, <1>2, <1>3, <1>6, FinishEnds, EndedMoves DEF Ended, Results, Touched
<1> QED
  BY <1>5, <1>6

\* Mount: the directory is there; if it fails the container is gone or the error
\* of deleting it is dropped.
LEMMA MountSteps ==
    ASSUME Types, Steps, NEW p \in Procs, Mount(p)
    PROVE  LET s == <<"lxc", proc[p].name>> IN
           /\ Moved(p) /\ proc[p].name \in Names /\ Touched(p, "lxc")
           /\ dir' \in [Places \X Names -> {"none", "tree", "plain"}]
           /\ dir'[<<Ctl, proc[p].name>>] # "none"
           /\ \A d \in Places \X Names : dir[d] # "none" => dir'[d] = dir[d]
           /\ box'[s].status \in {box[s].status, "none"}
           /\ \/ Went(p, "boxStart")
              \/ \E r \in Process :
                    /\ EndedAs(p, r, "mountFailed")
                    /\ s \in r.dropped \/ box'[s] = NoBox
<1> DEFINE s == <<"lxc", proc[p].name>>
<1>1. /\ proc \in [Procs -> Process] /\ proc[p] \in Process /\ Consistent(proc[p])
      /\ box \in [Kinds \X Names -> Box] /\ proc[p].pc = "lxcMount"
      /\ dir \in [Places \X Names -> {"none", "tree", "plain"}] /\ Ctl \in Places
  BY DEF Types, Steps, Mount, Ctl, Places
<1>2. /\ proc[p].name \in Names /\ proc[p].kind = "lxc" /\ proc[p].cmd = "up"
      /\ s \in Kinds \X Names /\ s[2] = proc[p].name
      /\ box[s].status \in Statuses /\ box[s].id \in Nat
  BY <1>1, BoxStatus DEF Consistent, UpPcs, Kinds
<1> DEFINE r(o) == [proc[p] EXCEPT !.dropped = IF o.clean THEN {} ELSE {s}]
<1>3. PICK o \in LXCMount(box[s].status) :
         /\ box' = Effect(s, o, box[s].id)
         /\ IF o.ok THEN Goto(p, "boxStart") ELSE FinishAs(p, r(o), "mountFailed")
  BY DEF Mount
<1>4. /\ o.status \in {box[s].status, "none"} /\ o.status \in Statuses
      /\ o.clean /\ ~o.ok => o.status = "none"
  BY <1>2, MountOutcomes DEF Statuses
<1>5. /\ dir' \in [Places \X Names -> {"none", "tree", "plain"}]
      /\ dir'[<<Ctl, proc[p].name>>] # "none"
      /\ \A d \in Places \X Names : dir[d] # "none" => dir'[d] = dir[d]
  BY <1>1, <1>2 DEF Mount
<1>6. s = <<"lxc", proc[p].name>>
  OBVIOUS
<1> HIDE DEF s
<1>7. /\ Touched(p, "lxc") /\ box'[s].status = o.status
      /\ o.status = "none" => box'[s] = NoBox
  BY <1>1, <1>2, <1>3, <1>4, <1>6, EffectOnBox DEF Touched
<1>8. CASE o.ok
  <2>1. Went(p, "boxStart")
    BY <1>1, <1>3, <1>8, GotoMoves DEF Pcs, UpPcs
  <2>2. Moved(p)
    BY <1>1, <1>2, <2>1, WentMoves DEF Pcs, UpPcs, CreatePcs, SearchPcs, Active, Kinds
  <2> QED
    BY <1>2, <1>4, <1>5, <1>7, <2>1, <2>2 DEF s
<1>9. CASE ~o.ok
  <2> DEFINE d == IF o.clean THEN {} ELSE {s}
  <2>1. d \subseteq Kinds \X Names /\ (s \in d \/ o.clean)
    BY <1>2
  <2>2. PICK e : e = d
    OBVIOUS
  <2>3. r(o) = [proc[p] EXCEPT !.dropped = e]
    BY <2>2
  <2>4. PICK q : q = [proc[p] EXCEPT !.dropped = e]
    OBVIOUS
  <2>5. /\ q \in Process /\ q.cmd = proc[p].cmd /\ q.name = proc[p].name
        /\ q.alone = proc[p].alone /\ q.dropped = e
    BY <1>1, <2>1, <2>2, <2>4 DEF Process
  <2>6. FinishAs(p, q, "mountFailed")
    BY <1>3, <1>9, <2>3, <2>4
  <2>7. EndedAs(p, q, "mountFailed") /\ Moved(p)
    BY <1>1, <2>5, <2>6, FinishAsEnds, EndedMoves DEF Results
  <2>8. s \in q.dropped \/ box'[s] = NoBox
    BY <1>4, <1>7, <1>9, <2>1, <2>2, <2>5
  <2> QED
    BY <1>2, <1>4, <1>5, <1>7, <2>5, <2>7, <2>8 DEF s
<1> QED
  BY <1>8, <1>9

\* Start: nothing, or the container that is there runs.
LEMMA BoxStartSteps ==
    ASSUME Types, Steps, NEW p \in Procs, BoxStart(p)
    PROVE  /\ Moved(p) /\ proc[p].name \in Names /\ proc[p].kind \in Kinds
           /\ Touched(p, proc[p].kind)
           /\ Ended(p, "error") \/ Went(p, "setup")
<1> DEFINE s == <<proc[p].kind, proc[p].name>>
           outcomes == IF s[1] = "docker" THEN DockerStart(Seen(p)) ELSE LXCStart(Seen(p))
<1>1. /\ proc \in [Procs -> Process] /\ proc[p] \in Process /\ Consistent(proc[p])
      /\ box \in [Kinds \X Names -> Box] /\ proc[p].pc = "boxStart"
  BY DEF Types, Steps, BoxStart
<1>2. /\ proc[p].name \in Names /\ proc[p].kind \in Kinds /\ proc[p].cmd = "up"
      /\ s \in Kinds \X Names /\ box[s].status \in Statuses /\ box[s].id \in Nat
  BY <1>1, BoxStatus DEF Consistent, UpPcs
<1>3. Seen(p) \in Statuses
  BY <1>2 DEF Seen, Statuses
<1>4. PICK o \in outcomes :
         IF o.ok THEN box' = Effect(s, o, box[s].id) /\ Goto(p, "setup")
         ELSE Finish(p, "error") /\ UNCHANGED box
  BY DEF BoxStart
<1>5. CASE o.ok
  <2>1. o.status = "running"
    BY <1>3, <1>4, <1>5, DockerOutcomes, LXCOutcomes
  <2>2. s = <<proc[p].kind, proc[p].name>> /\ o.status \in Statuses
    BY <2>1 DEF Statuses
  <2> HIDE DEF s, outcomes
  <2>3. Touched(p, proc[p].kind)
    BY <1>1, <1>2, <1>4, <1>5, <2>2, EffectOnBox DEF Touched
  <2>4. Went(p, "setup")
    BY <1>1, <1>4, <1>5, GotoMoves DEF Pcs, UpPcs
  <2>5. Moved(p)
    BY <1>1, <1>2, <2>4, WentMoves DEF Pcs, UpPcs, CreatePcs, SearchPcs, Active
  <2> QED
    BY <1>2, <2>3, <2>4, <2>5
<1>6. CASE ~o.ok
  BY <1>1, <1>2, <1>4, <1>6, FinishEnds, EndedMoves DEF Ended, Results, Touched
<1> QED
  BY <1>5, <1>6

\* Destroy: nothing, or no container is left under that name.
LEMMA DestroySteps ==
    ASSUME Types, Steps, NEW p \in Procs, Destroy(p)
    PROVE  /\ Moved(p) /\ proc[p].name \in Names /\ proc[p].kind \in Kinds
           /\ Touched(p, proc[p].kind)
           /\ \/ Ended(p, "error") /\ box' = box
              \/ /\ box'[<<proc[p].kind, proc[p].name>>].status = "none"
                 /\ \/ Ended(p, "ok") /\ proc[p].cmd = "kill"
                    \/ /\ Carries(p) /\ proc'[p].pc = "search" /\ proc'[p].todo = proc[p].todo
                       /\ proc'[p].dropped = proc[p].dropped
<1> DEFINE s == <<proc[p].kind, proc[p].name>>
           outcomes == IF s[1] = "docker" THEN DockerDestroy(Seen(p)) ELSE LXCDestroy(Seen(p))
<1>1. /\ proc \in [Procs -> Process] /\ proc[p] \in Process /\ Consistent(proc[p])
      /\ box \in [Kinds \X Names -> Box] /\ proc[p].pc = "use"
  BY DEF Types, Steps, Destroy
<1>2. /\ proc[p].name \in Names /\ proc[p].kind \in Kinds /\ proc[p].cmd \in {"down", "kill"}
      /\ s \in Kinds \X Names /\ box[s].status \in Statuses /\ box[s].id \in Nat
  BY <1>1, BoxStatus DEF Consistent, SearchPcs
<1>3. Seen(p) \in Statuses
  BY <1>2 DEF Seen, Statuses
<1>4. PICK o \in outcomes :
         IF ~o.ok THEN Finish(p, "error") /\ UNCHANGED box
         ELSE /\ box' = Effect(s, o, box[s].id)
              /\ IF proc[p].cmd = "kill" THEN Finish(p, "ok")
                 ELSE proc' = [proc EXCEPT ![p].pc = "search", ![p].found = TRUE]
  BY DEF Destroy
<1>5. CASE o.ok
  <2>1. o.status = "none"
    BY <1>3, <1>4, <1>5, DockerOutcomes, LXCOutcomes
  <2>2. s = <<proc[p].kind, proc[p].name>> /\ o.status \in Statuses
    BY <2>1 DEF Statuses
  <2> HIDE DEF s, outcomes
  <2>3. Touched(p, proc[p].kind) /\ box'[s].status = "none"
    BY <1>1, <1>2, <1>4, <1>5, <2>1, <2>2, EffectOnBox DEF Touched
  <2>4. CASE proc[p].cmd = "kill"
    <3>1. Ended(p, "ok") /\ Moved(p)
      BY <1>1, <1>4, <1>5, <2>4, FinishEnds, EndedMoves DEF Ended, Results
    <3> QED
      BY <1>2, <2>2, <2>3, <2>4, <3>1
  <2>5. CASE proc[p].cmd # "kill"
    <3> DEFINE r == [proc[p] EXCEPT !.pc = "search", !.found = TRUE]
    <3>1. /\ r \in Process /\ r.pc = "search" /\ r.todo = proc[p].todo
          /\ r.dropped = proc[p].dropped
          /\ r.cmd = proc[p].cmd /\ r.name = proc[p].name /\ r.alone = proc[p].alone
      BY <1>1 DEF Process, Pcs, SearchPcs
    <3>2. proc' = [proc EXCEPT ![p] = r]
      BY <1>4, <1>5, <2>5
    <3> HIDE DEF r
    <3>3. OnlyProc(p) /\ proc'[p] = r
      BY <1>1, <3>1, <3>2 DEF OnlyProc
    <3>4. Carries(p) /\ Consistent(r)
      BY <1>2, <3>1, <3>3 DEF Carries, Consistent, CreatePcs, UpPcs, SearchPcs
    <3> QED
      BY <1>2, <2>2, <2>3, <3>1, <3>3, <3>4 DEF Moved
  <2> QED
    BY <2>4, <2>5
<1>6. CASE ~o.ok
  BY <1>1, <1>2, <1>4, <1>6, FinishEnds, EndedMoves DEF Ended, Results, Touched
<1> QED
  BY <1>5, <1>6

\* The steps that call a driver.
BoxStep(p) == BoxCreate(p) \/ Mount(p) \/ BoxStart(p) \/ Destroy(p)

\* The steps that call a provider move their process and keep the types.
LEMMA BoxStepMoves ==
    ASSUME Types, Steps, NEW p \in Procs, BoxStep(p)
    PROVE  Types' /\ Moved(p)
<1>1. Moved(p) /\ box' \in [Kinds \X Names -> Box]
  BY BoxCreateSteps, MountSteps, BoxStartSteps, DestroySteps DEF BoxStep, Touched
<1>2. dir' \in [Places \X Names -> {"none", "tree", "plain"}]
  BY MountSteps DEF BoxStep, BoxCreate, BoxStart, Destroy, files, Types
<1>3. UNCHANGED <<cfg, head, branches, started>>
  BY DEF BoxStep, BoxCreate, Mount, BoxStart, Destroy, git, bounds
<1> QED
  BY <1>1, <1>2, <1>3, TypesKept DEF Types, Moved

\* A step of a command changes its own process only, and keeps it consistent.
LEMMA StepMoves ==
    ASSUME Types, Steps, NEW p \in Procs, Step(p)
    PROVE  Types' /\ Steps' /\ Moved(p) /\ Active(p)
<1>1. PlainStep(p) \/ GitStep(p) \/ ReadHead(p) \/ BoxStep(p)
  BY DEF Step, PlainStep, GitStep, BoxStep
<1>2. Types' /\ Moved(p)
  BY <1>1, PlainStepMoves, PlainStepTypes, GitStepMoves, GitStepTypes, BoxStepMoves
<1>3. Steps'
  BY <1>2 DEF Steps, Moved, OnlyProc
<1>4. Active(p)
  BY DEF Step, Active, CreateStat, ReadHead, MakeBranch, SwitchBack, TreeAdd, Configure, LoadUp,
         BoxCreate, Mount, BoxStart, Setup, LoadSearch, Search, SearchEnds, Destroy, Exec,
         Services, Connect, List, TreeRemove, RemoveAll
<1> QED
  BY <1>2, <1>3, <1>4

-----------------------------------------------------------------------------
(* Starting a command, and the steps that are no command's.                *)

\* It has ended, or it is under way and stays as it is.
Rested(q) == proc'[q] = Idle \/ (Active(q) /\ proc'[q] = proc[q])

\* It has just been started, alone or not.
Begun(p) ==
    /\ proc'[p].pc \in {"stat", "treeRemove", "search", "list", "load"}
    /\ proc'[p].todo = Kinds /\ proc'[p].cur = NoName

\* What comes from outside moves no command, and a container only stops.
LEMMA OutsideSteps ==
    ASSUME Types, Steps,
           \/ \E p \in Procs : Interrupt(p)
           \/ InitProject \/ EditConfig
           \/ \E k \in Kinds, n \in Names : BoxStops(k, n)
    PROVE  /\ Types' /\ Steps' /\ \A q \in Procs : Rested(q)
           /\ UNCHANGED <<git, files>>
           /\ \A s \in Kinds \X Names :
                 \/ box'[s] = box[s]
                 \/ box[s].status = "running" /\ box'[s].status = "stopped"
<1>1. /\ proc \in [Procs -> Process] /\ box \in [Kinds \X Names -> Box]
      /\ cfg \in [loads : BOOLEAN, provider : Kinds, remote : BOOLEAN, setup : BOOLEAN]
  BY DEF Types
<1>2. Settled \in [Procs -> Process] /\ \A q \in Procs : Settled[q] = Idle \/ (Active(q) /\ Settled[q] = proc[q])
  BY <1>1, IdleIsProcess DEF Settled
<1>3. /\ proc' \in [Procs -> Process] /\ UNCHANGED <<git, files, started>>
      /\ \A q \in Procs : Rested(q)
  <2>1. CASE \E p \in Procs : Interrupt(p)
    BY <1>2, <2>1, IdleIsProcess DEF Interrupt, Rested
  <2>2. CASE InitProject \/ EditConfig \/ \E k \in Kinds, n \in Names : BoxStops(k, n)
    BY <1>2, <2>2 DEF InitProject, EditConfig, BoxStops, Rested
  <2> QED
    BY <2>1, <2>2
<1>4. /\ box' \in [Kinds \X Names -> Box]
      /\ \A s \in Kinds \X Names :
            \/ box'[s] = box[s]
            \/ box[s].status = "running" /\ box'[s].status = "stopped"
  <2>1. CASE box' = box
    BY <1>1, <2>1
  <2>2. CASE \E k \in Kinds, n \in Names : BoxStops(k, n)
    <3>1. PICK k \in Kinds, n \in Names : BoxStops(k, n)
      BY <2>2
    <3> DEFINE b == [box[<<k, n>>] EXCEPT !.status = "stopped"]
    <3>2. b \in Box /\ b.status = "stopped"
      BY <1>1 DEF Box, Statuses
    <3>3. box' = [box EXCEPT ![<<k, n>>] = b] /\ box[<<k, n>>].status = "running"
      BY <3>1 DEF BoxStops
    <3> HIDE DEF b
    <3> QED
      BY <1>1, <3>2, <3>3
  <2> QED
    BY <2>1, <2>2 DEF Interrupt, InitProject, EditConfig
<1>5. cfg' \in [loads : BOOLEAN, provider : Kinds, remote : BOOLEAN, setup : BOOLEAN]
  <2>1. CASE EditConfig
    <3>1. PICK k \in Kinds : cfg' \in {[cfg EXCEPT !.loads = FALSE], [cfg EXCEPT !.remote = TRUE],
                                     [cfg EXCEPT !.provider = k]}
      BY <2>1 DEF EditConfig, Kinds
    <3> QED
      BY <1>1, <3>1
  <2>2. CASE InitProject
    BY <2>2 DEF InitProject, Kinds
  <2>3. CASE cfg' = cfg
    BY <1>1, <2>3
  <2> QED
    BY <2>1, <2>2, <2>3 DEF Interrupt, BoxStops
<1>6. Types'
  BY <1>3, <1>4, <1>5 DEF Types, git, files
<1>7. Steps'
  BY <1>3, IdleIsProcess DEF Steps, Rested, Consistent, CreatePcs, UpPcs, SearchPcs
<1> QED
  BY <1>3, <1>4, <1>6, <1>7

\* A command that starts changes only its process, and ends the claims of those
\* beside it.
LEMMA StartSteps ==
    ASSUME Types, Steps, NEW p \in Procs, NEW cmd \in Commands, NEW n \in Names, Start(p, cmd, n)
    PROVE  /\ Types' /\ Steps'
           /\ UNCHANGED <<cfg, git, files, box>>
           /\ Begun(p) /\ (proc'[p].alone => \A q \in Procs : ~Active(q))
           /\ \A q \in Procs \ {p} : proc'[q] = Idle \/ (Active(q) /\ proc'[q].alone = FALSE)
<1> DEFINE others == {q \in Procs : Active(q)}
           r == [Idle EXCEPT !.cmd = cmd, !.name = n, !.pc = FirstStep(cmd),
                             !.id = started', !.todo = Kinds, !.alone = others = {}]
<1>0. proc \in [Procs -> Process] /\ \A q \in Procs : Consistent(proc[q])
  BY DEF Types, Steps
<1>1. /\ proc \in [Procs -> Process] /\ started' \in Nat
      /\ \A q \in Procs : proc[q] \in Process /\ Consistent(proc[q])
  <2>1. started' = started + 1 /\ started \in Nat
    BY DEF Types, Start
  <2> QED
    BY <1>0, <2>1
<1>2. FirstStep(cmd) \in {"stat", "treeRemove", "search", "list", "load"}
  BY DEF FirstStep
<1>3. /\ r \in Process /\ r.pc = FirstStep(cmd) /\ r.todo = Kinds /\ r.cur = NoName
      /\ r.cmd = cmd /\ r.name = n
      /\ r.alone => others = {}
  <2>1. (others = {}) \in BOOLEAN /\ FirstStep(cmd) \in Pcs /\ Kinds \in SUBSET Kinds
    BY <1>2 DEF Pcs, CreatePcs, SearchPcs
  <2> HIDE DEF others
  <2>2. [Idle EXCEPT !.cmd = cmd, !.name = n, !.pc = FirstStep(cmd), !.id = started',
                     !.todo = Kinds] \in Process
    BY <1>1, <2>1, IdleIsProcess DEF Process
  <2>3. r \in Process
    BY <2>1, <2>2 DEF Process
  <2> QED
    BY <2>3, ZenonT(30) DEF Idle
<1>4. Consistent(r)
  BY <1>2, <1>3 DEF Consistent, FirstStep, CreatePcs, UpPcs, SearchPcs, Commands
<1>5. ASSUME NEW q \in Procs
      PROVE  LET s == [proc[q] EXCEPT !.alone = FALSE] IN
             s \in Process /\ s.alone = FALSE /\ s.pc = proc[q].pc /\ Consistent(s)
  BY <1>1 DEF Process, Consistent
<1>6. proc' = [q \in Procs |-> IF q = p THEN r
                               ELSE IF q \in others THEN [proc[q] EXCEPT !.alone = FALSE]
                               ELSE Idle]
  BY DEF Start
<1>7. Consistent(Idle)
  BY IdleIsProcess DEF Consistent, CreatePcs, UpPcs, SearchPcs
<1>8. UNCHANGED <<cfg, git, files, box>>
  BY DEF Start
<1>9. \A q \in Procs : (q \in others) <=> Active(q)
  OBVIOUS
<1> HIDE DEF r, others
<1>10. /\ proc' \in [Procs -> Process] /\ proc'[p] = r
       /\ \A q \in Procs : Consistent(proc'[q])
       /\ \A q \in Procs \ {p} : proc'[q] = Idle \/ (Active(q) /\ proc'[q].alone = FALSE)
  BY <1>3, <1>4, <1>5, <1>6, <1>7, <1>9, IdleIsProcess
<1>11. Types' /\ Steps'
  BY <1>1, <1>8, <1>10 DEF Types, Steps, git, files
<1> QED
  BY <1>2, <1>3, <1>8, <1>9, <1>10, <1>11 DEF Begun

-----------------------------------------------------------------------------
(* The base of the inductive invariant.                                    *)

Base == Types /\ Steps /\ Solo

\* The initial state satisfies both invariants.
LEMMA InitBase == ASSUME Init PROVE Base /\ GitInv
<1>1. /\ \A p \in Procs : proc[p] = Idle
      /\ proc \in [Procs -> Process]
  BY IdleIsProcess DEF Init
<1>2. Types
  <2>1. NoBox \in Box
    BY DEF NoBox, Box, Statuses
  <2>2. cfg \in [loads : BOOLEAN, provider : Kinds, remote : BOOLEAN, setup : BOOLEAN]
    BY DEF Init
  <2> QED
    BY <1>1, <2>1, <2>2 DEF Init, Types
<1>3. Steps /\ Solo
  BY <1>1, IdleIsProcess DEF Steps, Solo, Consistent, CreatePcs, UpPcs, SearchPcs
<1>4. GitInv
  BY <1>1, IdleIsProcess DEF Init, GitInv
<1> QED
  BY <1>2, <1>3, <1>4 DEF Base

\* While a command that is alone is under way, or its result is kept, the
\* others are idle: when a command makes a step, nothing is claimed of others.
LEMMA OthersSilent ==
    ASSUME Base, NEW p \in Procs, Step(p), NEW q \in Procs, q # p, proc'[q].alone
    PROVE  proc'[q].pc = "idle"
  BY StepMoves DEF Base, Solo, Moved, OnlyProc

\* Base is kept by the steps of commands, ...
LEMMA StepKeepsBase ==
    ASSUME Base, NEW p \in Procs, Step(p)
    PROVE  Base'
<1>1. Types' /\ Steps' /\ Moved(p) /\ Active(p)
  BY StepMoves DEF Base
<1>2. ASSUME NEW a \in Procs, NEW b \in Procs, a # b, proc'[a].alone, proc'[a].pc # "idle"
      PROVE  proc'[b].pc \in {"idle", "done"}
  <2>1. a = p
    BY <1>2, OthersSilent
  <2>2. proc'[b] = proc[b] /\ proc[p].alone /\ proc[p].pc # "idle"
    BY <1>1, <1>2, <2>1 DEF Moved, OnlyProc, Carries, Active
  <2> QED
    BY <1>2, <2>1, <2>2 DEF Base, Solo, Active
<1>3. Solo'
  BY <1>2 DEF Solo, Active
<1> QED
  BY <1>1, <1>3 DEF Base

OutsideStep ==
    \/ \E p \in Procs : Interrupt(p)
    \/ InitProject \/ EditConfig
    \/ \E k \in Kinds, n \in Names : BoxStops(k, n)

\* ... by what comes from outside, ...
LEMMA OutsideKeepsBase == ASSUME Base, OutsideStep PROVE Base' /\ \A q \in Procs : Rested(q)
<1>1. Types' /\ Steps' /\ \A q \in Procs : Rested(q)
  BY OutsideSteps DEF Base, OutsideStep
<1>2. Solo'
  BY <1>1, IdleIsProcess DEF Base, Solo, Rested, Active
<1> QED
  BY <1>1, <1>2 DEF Base

\* ... and when a command starts.
LEMMA StartKeepsBase ==
    ASSUME Base, NEW p \in Procs, NEW cmd \in Commands, NEW n \in Names, Start(p, cmd, n)
    PROVE  Base'
<1>1. /\ Types' /\ Steps'
      /\ Begun(p) /\ (proc'[p].alone => \A q \in Procs : ~Active(q))
      /\ \A q \in Procs \ {p} : proc'[q] = Idle \/ (Active(q) /\ proc'[q].alone = FALSE)
  BY StartSteps DEF Base
<1>2. ASSUME NEW a \in Procs, NEW b \in Procs, a # b, proc'[a].alone, proc'[a].pc # "idle"
      PROVE  proc'[b].pc \in {"idle", "done"}
  <2>1. a = p
    BY <1>1, <1>2, IdleIsProcess
  <2> QED
    BY <1>1, <1>2, <2>1, IdleIsProcess
<1>3. Solo'
  BY <1>2 DEF Solo, Active
<1> QED
  BY <1>1, <1>3 DEF Base

\* Every step is of one of these three kinds.
LEMMA NextIsOneOf ==
    ASSUME Next
    PROVE  \/ \E p \in Procs : Step(p)
           \/ OutsideStep
           \/ \E p \in Procs, cmd \in Commands, n \in Names : Start(p, cmd, n)
  BY DEF Next, OutsideStep

\* The types of the variables hold, and the processes keep apart.
THEOREM BaseHolds == Spec => []Base
<1>1. Init => Base
  BY InitBase
<1>2. Base /\ [Next]_vars => Base'
  <2>1. CASE UNCHANGED vars
    BY <2>1 DEF vars, git, files, bounds, Base, Types, Steps, Solo, Active
  <2> QED
    BY <2>1, NextIsOneOf, StepKeepsBase, OutsideKeepsBase, StartKeepsBase
<1> QED
  BY <1>1, <1>2, PTL DEF Spec

-----------------------------------------------------------------------------
(* Git: a branch is checked out in one place, and a worktree has a branch. *)

\* GitInv is kept by the steps of commands, ...
LEMMA StepKeepsGit ==
    ASSUME Base, GitInv, NEW p \in Procs, Step(p)
    PROVE  GitInv'
<1>1. Moved(p) /\ proc \in [Procs -> Process] /\ Types /\ Steps
  BY StepMoves DEF Base, Types
<1>2. /\ head \in branches \cup {Detached} /\ head \notin trees /\ trees \subseteq branches
      /\ branches \subseteq Names \cup {Main} /\ Detached \notin Names \cup {Main}
      /\ \A q \in Procs : proc[q].pc \in {"switchBack", "treeAdd"} => proc[q].name \in branches
  BY NamesAreBranches DEF GitInv, Base, Types
<1>3. ASSUME branches \subseteq branches',
             proc'[p].pc \in {"switchBack", "treeAdd"} => proc'[p].name \in branches'
      PROVE  \A q \in Procs : proc'[q].pc \in {"switchBack", "treeAdd"} => proc'[q].name \in branches'
  BY <1>1, <1>2, <1>3 DEF Moved, OnlyProc
<1>4. CASE ReadHead(p)
  <2>1. proc'[p].pc \in {"makeBranch", "idle", "done"}
    BY <1>1, <1>4, ReadHeadSteps DEF GoesOn, EndedAs
  <2>2. /\ UNCHANGED <<branches, trees>>
        /\ head' = head \/ (CanCheckout(Main) /\ head' = Main)
    BY <1>1, <1>4, ReadHeadSteps DEF ReadHead
  <2> QED
    BY <1>2, <1>3, <2>1, <2>2 DEF GitInv, CanCheckout
<1>5. CASE MakeBranch(p)
  <2>1. proc'[p].pc = "idle" \/ proc'[p].name = proc[p].name
    BY <1>1 DEF Moved, Carries
  <2>2. /\ proc'[p].pc \in {"switchBack", "treeAdd"} => proc[p].name \in branches'
        /\ branches \subseteq branches' /\ trees' = trees
        /\ \/ head' = head
           \/ proc[p].name \notin branches /\ head' = proc[p].name /\ head' \in branches'
    BY <1>1, <1>5, MakeBranchSteps DEF Went, GoesOn, Ended, EndedAs
  <2>3. head' \in branches' \cup {Detached} /\ head' \notin trees' /\ trees' \subseteq branches'
    BY <1>2, <2>2
  <2> QED
    BY <1>3, <2>1, <2>2, <2>3 DEF GitInv
<1>6. CASE SwitchBack(p)
  <2>1. proc'[p].name = proc[p].name /\ proc[p].name \in branches
    BY <1>1, <1>2, <1>6, SwitchBackSteps DEF SwitchBack, GoesOn, Carries
  <2>2. /\ UNCHANGED <<branches, trees>>
        /\ head' = head \/ (CanCheckout(proc[p].cur) /\ head' = proc[p].cur)
    BY <1>1, <1>6, SwitchBackSteps
  <2> QED
    BY <1>2, <1>3, <2>1, <2>2 DEF GitInv, CanCheckout
<1>7. CASE TreeAdd(p)
  <2>1. proc'[p].pc \in {"configure", "idle", "done"}
    BY <1>1, <1>7, GotoMoves, FinishEnds DEF TreeAdd, Went, GoesOn, Ended, EndedAs, Results, Pcs, CreatePcs
  <2>2. (proc[p].name \in branches /\ head # proc[p].name) \/ UNCHANGED trees
    BY <1>2, <1>7 DEF TreeAdd, CanAdd
  <2> QED
    BY <1>2, <1>3, <1>7, <2>1, <2>2 DEF TreeAdd, GitInv
<1>8. CASE TreeRemove(p)
  <2>1. proc'[p].pc = "removeAll"
    BY <1>1, <1>8, GotoMoves DEF TreeRemove, Went, GoesOn, Pcs
  <2> QED
    BY <1>2, <1>3, <1>8, <2>1 DEF TreeRemove, GitInv
<1>9. CASE PlainStep(p) \/ BoxStep(p)
  <2>1. UNCHANGED git
    BY <1>9 DEF PlainStep, CreateStat, Configure, LoadUp, Setup, LoadSearch, Search, SearchEnds,
                Exec, Services, Connect, List, RemoveAll, BoxStep, BoxCreate, Mount, BoxStart,
                Destroy
  <2>2. proc'[p].pc \notin {"switchBack", "treeAdd"}
    <3>1. CASE PlainStep(p)
      <4>1. CASE Search(p)
        BY <1>1, <4>1, SearchSteps
      <4>2. CASE LoadUp(p)
        BY <1>1, <4>2, LoadUpSteps DEF Ended, EndedAs
      <4>3. CASE List(p)
        BY <1>1, <4>3, ListSteps DEF EndedAs
      <4>4. CASE \E result \in Results : Finish(p, result)
        BY <1>1, <4>4, FinishEnds DEF Ended, EndedAs
      <4>5. CASE \E pc \in {"configure", "readHead", "search"} : Goto(p, pc)
        BY <1>1, <4>5, GotoMoves DEF Went, GoesOn, Pcs, CreatePcs, SearchPcs
      <4> QED
        BY <3>1, <4>1, <4>2, <4>3, <4>4, <4>5
           DEF PlainStep, CreateStat, Configure, LoadUp, Setup, LoadSearch, SearchEnds,
               Exec, Services, Connect, RemoveAll, Results
    <3>2. CASE BoxStep(p)
      BY <1>1, <3>2, BoxCreateSteps, MountSteps, BoxStartSteps, DestroySteps
         DEF BoxStep, Went, GoesOn, Ended, EndedAs
    <3> QED
      BY <1>9, <3>1, <3>2
  <2> QED
    BY <1>2, <1>3, <2>1, <2>2 DEF GitInv, git
<1> QED
  BY <1>4, <1>5, <1>6, <1>7, <1>8, <1>9 DEF Step, PlainStep, BoxStep

\* ... and by all others.
LEMMA OthersKeepGit ==
    ASSUME Base, GitInv,
           OutsideStep \/ \E p \in Procs, cmd \in Commands, n \in Names : Start(p, cmd, n)
    PROVE  GitInv'
<1>1. CASE OutsideStep
  <2>1. UNCHANGED git /\ \A q \in Procs : Rested(q)
    BY <1>1, OutsideSteps DEF Base, OutsideStep
  <2> QED
    BY <2>1, IdleIsProcess DEF GitInv, git, Rested
<1>2. ASSUME NEW p \in Procs, NEW cmd \in Commands, NEW n \in Names, Start(p, cmd, n)
      PROVE  GitInv'
  <2>1. UNCHANGED git /\ Begun(p)
    BY <1>2, StartSteps DEF Base
  <2>2. ASSUME NEW q \in Procs, q # p
        PROVE  \/ proc'[q] = Idle
               \/ proc'[q].pc = proc[q].pc /\ proc'[q].name = proc[q].name
    <3>1. proc[q] \in Process
      BY DEF Base, Types
    <3>2. proc'[q] = Idle \/ proc'[q] = [proc[q] EXCEPT !.alone = FALSE]
      BY <1>2, <2>2 DEF Start
    <3> QED
      BY <3>1, <3>2 DEF Process
  <2> QED
    BY <2>1, <2>2, IdleIsProcess DEF GitInv, git, Begun
<1> QED
  BY <1>1, <1>2

-----------------------------------------------------------------------------
(* What holds of the repository while a create is under way alone, and     *)
(* after it.                                                               *)

Target(p) == IF proc[p].cur = proc[p].name THEN Main ELSE proc[p].cur
Created(p, results) ==
    proc[p].pc = "done" /\ proc[p].cmd = "create" /\ proc[p].result \in results

HeadClaim(p) ==
    /\ proc[p].pc = "makeBranch" => head = Target(p) /\ proc[p].cur \in branches \cup {Detached}
    /\ proc[p].pc = "switchBack" => proc[p].cur # proc[p].name /\ head = proc[p].name
    /\ proc[p].pc = "treeAdd" =>
          head = Target(p) \/ (head = proc[p].name /\ proc[p].slipped)
    /\ (proc[p].pc = "configure" \/ Created(p, {"ok"})) /\ proc[p].cur # NoName =>
          head = Target(p)
    /\ Created(p, {"error"}) /\ proc[p].cur # NoName =>
          \/ head \in {Target(p), proc[p].cur}
          \/ head = proc[p].name /\ proc[p].slipped

TreeClaim(p) ==
    (proc[p].pc = "configure" \/ Created(p, {"ok"})) /\ proc[p].cur # NoName =>
        /\ dir[<<Mgr, proc[p].name>>] = "tree"
        /\ proc[p].name \in trees /\ proc[p].name \in branches

\* Which steps a command has.
LEMMA WhichStep ==
    ASSUME Types, Steps, NEW p \in Procs, Step(p)
    PROVE  /\ proc[p].cmd = "create" =>
                CreateStat(p) \/ ReadHead(p) \/ MakeBranch(p) \/ SwitchBack(p)
                \/ TreeAdd(p) \/ Configure(p)
           /\ proc[p].cmd = "up" =>
                LoadUp(p) \/ BoxCreate(p) \/ Mount(p) \/ BoxStart(p) \/ Setup(p)
           /\ proc[p].cmd = "down" =>
                LoadSearch(p) \/ Search(p) \/ SearchEnds(p) \/ Destroy(p)
           /\ proc[p].cmd = "list" => List(p)
<1>1. Consistent(proc[p])
  BY DEF Steps
<1>2. /\ CreateStat(p) \/ ReadHead(p) \/ MakeBranch(p) \/ SwitchBack(p) \/ TreeAdd(p)
         \/ Configure(p) => proc[p].cmd = "create"
      /\ BoxCreate(p) \/ Mount(p) \/ BoxStart(p) \/ Setup(p) => proc[p].cmd = "up"
      /\ Search(p) \/ SearchEnds(p) \/ Destroy(p) => proc[p].cmd \in {"down", "kill"}
      /\ List(p) => proc[p].cmd = "list"
      /\ TreeRemove(p) \/ RemoveAll(p) => proc[p].cmd = "rm"
  BY <1>1 DEF Consistent, CreatePcs, UpPcs, SearchPcs, CreateStat, ReadHead, MakeBranch,
              SwitchBack, TreeAdd, Configure, BoxCreate, Mount, BoxStart, Setup, Search,
              SearchEnds, Destroy, List, TreeRemove, RemoveAll
<1>3. /\ LoadUp(p) => proc[p].cmd = "up"
      /\ LoadSearch(p) => proc[p].cmd = "down"
      /\ Exec(p) => proc[p].cmd = "exec"
      /\ Services(p) => proc[p].cmd = "services"
      /\ Connect(p) => proc[p].cmd = "connect"
  BY DEF LoadUp, LoadSearch, Exec, Services, Connect
<1> QED
  BY <1>2, <1>3 DEF Step

\* A step of a create keeps what its later steps rest on.
LEMMA CreateSteps ==
    ASSUME Base, GitInv, NEW p \in Procs, Step(p), proc[p].cmd = "create",
           HeadClaim(p), TreeClaim(p)
    PROVE  HeadClaim(p)' /\ TreeClaim(p)'
<1>1. Types /\ Steps /\ proc \in [Procs -> Process] /\ Consistent(proc[p])
  BY DEF Base, Types, Steps
<1>2. ASSUME NEW result \in Results, Ended(p, result), UNCHANGED <<head, branches, trees>>,
             result = "error" =>
                \/ proc[p].cur = NoName \/ head = Target(p)
                \/ head = proc[p].name /\ proc[p].slipped,
             result = "ok" => proc[p].cur = NoName \/
                (/\ dir'[<<Mgr, proc[p].name>>] = "tree"
                 /\ proc[p].name \in trees /\ proc[p].name \in branches
                 /\ head = Target(p))
      PROVE  HeadClaim(p)' /\ TreeClaim(p)'
  BY <1>2 DEF Ended, EndedAs, Carries, HeadClaim, TreeClaim, Created, Target
<1>3. CASE CreateStat(p)
  <2>1. proc[p].cur = NoName
    BY <1>1, <1>3 DEF CreateStat, Consistent
  <2>2. CASE Finish(p, "exists")
    BY <1>1, <1>2, <1>3, <2>2, FinishEnds DEF CreateStat, Results, git
  <2>3. CASE Goto(p, "configure") \/ Goto(p, "readHead")
    <3>1. proc'[p].cur = NoName /\ proc'[p].pc \in {"configure", "readHead"}
      BY <1>1, <2>1, <2>3, GotoMoves DEF Went, GoesOn, Pcs, CreatePcs
    <3> QED
      BY <3>1 DEF HeadClaim, TreeClaim, Created
  <2> QED
    BY <1>3, <2>2, <2>3 DEF CreateStat
<1>4. CASE ReadHead(p)
  <2>1. CASE \E r \in Process : r.cur = head /\ EndedAs(p, r, "error")
    <3>1. head' = head \/ (head = proc[p].name /\ head' = Main)
      BY <1>1, <1>4, ReadHeadSteps
    <3>2. /\ proc'[p].pc \in {"idle", "done"}
          /\ proc'[p].pc = "done" => /\ proc'[p].cur = head /\ proc'[p].result = "error"
                                     /\ proc'[p].name = proc[p].name
      BY <2>1 DEF EndedAs, Carries
    <3> QED
      BY <3>1, <3>2 DEF HeadClaim, TreeClaim, Created, Target
  <2>2. CASE /\ GoesOn(p, "makeBranch", head)
             /\ head' = IF head = proc[p].name THEN Main ELSE head
    BY <1>4, <2>2 DEF ReadHead, GitInv, GoesOn, Carries, HeadClaim, TreeClaim, Created, Target
  <2> QED
    BY <1>1, <1>4, <2>1, <2>2, ReadHeadSteps
<1>5. CASE MakeBranch(p)
  <2>1. head = Target(p)
    BY <1>5 DEF MakeBranch, HeadClaim
  <2>2. CASE Ended(p, "error") /\ head' = head
    BY <1>1, <1>5, <2>1, <2>2 DEF Ended, EndedAs, Carries, HeadClaim, TreeClaim, Created, Target
  <2>3. CASE Went(p, "treeAdd") /\ head' = head
    BY <2>1, <2>3 DEF Went, GoesOn, Carries, HeadClaim, TreeClaim, Created, Target
  <2>4. CASE Went(p, "switchBack") /\ proc[p].name \notin branches /\ head' = proc[p].name
    <3>1. proc[p].cur \in branches \cup {Detached} /\ proc[p].name \in Names
      BY <1>1, <1>5 DEF MakeBranch, HeadClaim, Consistent
    <3>2. proc[p].cur # proc[p].name
      BY <2>4, <3>1, NamesAreBranches
    <3> QED
      BY <2>4, <3>2 DEF Went, GoesOn, Carries, HeadClaim, TreeClaim, Created
  <2>5. CASE /\ \E r \in Process : r.cur = proc[p].cur /\ r.slipped /\ EndedAs(p, r, "error")
             /\ head' = proc[p].name
    <3>1. /\ proc'[p].pc \in {"idle", "done"}
          /\ proc'[p].pc = "done" => /\ proc'[p].result = "error" /\ proc'[p].slipped
                                     /\ proc'[p].name = proc[p].name
      BY <2>5 DEF EndedAs, Carries
    <3> QED
      BY <2>5, <3>1 DEF HeadClaim, TreeClaim, Created
  <2> QED
    BY <1>1, <1>5, <2>2, <2>3, <2>4, <2>5, MakeBranchSteps
<1>6. CASE SwitchBack(p)
  <2>1. proc[p].cur # proc[p].name /\ head = proc[p].name
    BY <1>6 DEF SwitchBack, HeadClaim
  <2>2. /\ GoesOn(p, "treeAdd", proc[p].cur)
        /\ head' = proc[p].cur \/ (head' = head /\ proc'[p].slipped)
    BY <1>1, <1>6, SwitchBackSteps
  <2> QED
    BY <2>1, <2>2 DEF GoesOn, Carries, HeadClaim, TreeClaim, Created, Target
<1>7. CASE TreeAdd(p)
  <2>1. /\ head = Target(p) \/ (head = proc[p].name /\ proc[p].slipped)
        /\ proc[p].name \in branches /\ proc[p].name \in Names
        /\ dir \in [Places \X Names -> {"none", "tree", "plain"}] /\ Mgr \in Places
    BY <1>1, <1>7 DEF TreeAdd, HeadClaim, GitInv, Types, Consistent, Mgr, Places
  <2>2. CASE /\ CanAdd(proc[p].name) /\ trees' = trees \cup {proc[p].name}
             /\ dir' = [dir EXCEPT ![<<Mgr, proc[p].name>>] = "tree"]
             /\ Goto(p, "configure")
    <3>1. /\ Went(p, "configure") /\ head' = head /\ branches' = branches
      BY <1>1, <1>7, <2>2, GotoMoves DEF TreeAdd, Pcs, CreatePcs
    <3>2. head = Target(p) /\ dir'[<<Mgr, proc[p].name>>] = "tree" /\ proc[p].name \in trees'
      BY <2>1, <2>2 DEF CanAdd
    <3> QED
      BY <2>1, <3>1, <3>2 DEF Went, GoesOn, Carries, HeadClaim, TreeClaim, Created, Target
  <2>3. CASE Finish(p, "error")
    <3>1. Ended(p, "error") /\ head' = head
      BY <1>1, <1>7, <2>3, FinishEnds DEF TreeAdd, Results
    <3> QED
      BY <2>1, <3>1 DEF Ended, EndedAs, Carries, HeadClaim, TreeClaim, Created, Target
  <2> QED
    BY <1>7, <2>2, <2>3 DEF TreeAdd
<1>8. CASE Configure(p)
  <2>1. /\ proc[p].cur = NoName \/ (/\ head = Target(p) /\ dir[<<Mgr, proc[p].name>>] = "tree"
                                    /\ proc[p].name \in trees /\ proc[p].name \in branches)
        /\ UNCHANGED git
    BY <1>8 DEF Configure, HeadClaim, TreeClaim
  <2>2. dir[<<Mgr, proc[p].name>>] # "none" => dir' = dir
    BY <1>8 DEF Configure, files
  <2>3. PICK result \in {"ok", "error"} : Ended(p, result)
    BY <1>1, <1>8, FinishEnds DEF Configure, Results
  <2> QED
    BY <1>2, <2>1, <2>2, <2>3 DEF git, Results
<1> QED
  BY <1>1, <1>3, <1>4, <1>5, <1>6, <1>7, <1>8, WhichStep

-----------------------------------------------------------------------------
(* What holds of the containers while a down or an up is under way alone,  *)
(* and after it.                                                           *)

SearchClaim(p) ==
    proc[p].cmd = "down" =>
        /\ proc[p].pc \in SearchPcs =>
              \A k \in Kinds : \/ k \in proc[p].todo
                               \/ proc[p].pc = "use" /\ k = proc[p].kind
                               \/ <<k, proc[p].name>> \in proc[p].dropped
                               \/ ~Listed(k, proc[p].name)
        /\ proc[p].pc = "done" /\ proc[p].result = "ok" =>
              \A k \in Kinds : <<k, proc[p].name>> \in proc[p].dropped \/ ~Listed(k, proc[p].name)

MountClaim(p) ==
    proc[p].pc = "done" /\ proc[p].cmd = "up" /\ proc[p].result = "mountFailed" =>
        \/ <<"lxc", proc[p].name>> \in proc[p].dropped
        \/ box[<<"lxc", proc[p].name>>] = NoBox

\* A session is listed by the status of its container.
LEMMA ListedByStatus ==
    ASSUME NEW k \in Kinds, NEW n \in Names
    PROVE  /\ box[<<k, n>>].status = "none" => ~Listed(k, n)
           /\ box'[<<k, n>>].status = "none" => ~Listed(k, n)'
           /\ ~Listed(k, n) /\ (box'[<<k, n>>].status = box[<<k, n>>].status) => ~Listed(k, n)'
           /\ (/\ ~Listed(k, n)
               /\ box[<<k, n>>].status = "running" /\ box'[<<k, n>>].status = "stopped")
              => ~Listed(k, n)'
  BY DEF Listed, DockerListed, LXCListed

\* A step of a down keeps what it knows of the providers it has searched.
LEMMA DownSteps ==
    ASSUME Base, NEW p \in Procs, Step(p), proc[p].cmd = "down", SearchClaim(p)
    PROVE  SearchClaim(p)'
<1>1. /\ Types /\ Steps /\ proc \in [Procs -> Process] /\ Consistent(proc[p])
      /\ proc[p].name \in Names
  BY StepMoves DEF Base, Types, Steps, Consistent, Active
<1>2. PICK n \in Names : n = proc[p].name
  BY <1>1
<1>3. CASE LoadSearch(p)
  <2>1. CASE Goto(p, "search")
    <3>1. Went(p, "search") /\ proc[p].todo = Kinds
      BY <1>1, <1>3, <2>1, GotoMoves DEF LoadSearch, Consistent, Pcs, SearchPcs
    <3> QED
      BY <3>1 DEF Went, GoesOn, Carries, SearchClaim
  <2>2. CASE Finish(p, "error")
    <3>1. Ended(p, "error")
      BY <1>1, <2>2, FinishEnds DEF Results
    <3> QED
      BY <3>1 DEF Ended, EndedAs, SearchClaim, SearchPcs
  <2> QED
    BY <1>3, <2>1, <2>2 DEF LoadSearch
<1>4. CASE Search(p)
  <2>1. PICK k \in proc[p].todo :
           /\ proc'[p].todo = proc[p].todo \ {k}
           /\ \/ proc'[p].pc = "use" /\ proc'[p].kind = k
              \/ /\ proc'[p].pc = "search"
                 /\ ~Listed(k, n) \/ <<k, n>> \in proc'[p].dropped
    BY <1>1, <1>2, <1>4, SearchSteps
  <2>2. /\ Carries(p) /\ box' = box /\ proc[p].pc = "search"
        /\ proc[p].dropped \subseteq proc'[p].dropped
    BY <1>1, <1>4, SearchSteps DEF Search
  <2>3. proc'[p].name = n
    BY <1>2, <2>2 DEF Carries
  <2>4. ASSUME NEW j \in Kinds
        PROVE  \/ j \in proc'[p].todo
               \/ proc'[p].pc = "use" /\ j = proc'[p].kind
               \/ <<j, n>> \in proc'[p].dropped
               \/ ~Listed(j, n)'
    <3>1. j \in proc[p].todo \/ <<j, n>> \in proc[p].dropped \/ ~Listed(j, n)
      BY <1>1, <1>2, <1>4, <2>2 DEF SearchClaim, SearchPcs
    <3>2. ~Listed(j, n) => ~Listed(j, n)'
      BY <2>2, ListedByStatus
    <3> QED
      BY <2>1, <2>2, <3>1, <3>2
  <2>5. proc'[p].pc # "done"
    BY <2>1
  <2> QED
    BY <2>3, <2>4, <2>5 DEF SearchClaim
<1>5. CASE SearchEnds(p)
  <2>1. /\ \A k \in Kinds : <<k, n>> \in proc[p].dropped \/ ~Listed(k, n)
        /\ box' = box
    BY <1>2, <1>5 DEF SearchEnds, SearchClaim, SearchPcs
  <2>2. \A k \in Kinds : <<k, n>> \in proc[p].dropped \/ ~Listed(k, n)'
    BY <2>1, ListedByStatus
  <2>3. PICK result \in Results : Ended(p, result)
    BY <1>1, <1>5, FinishEnds DEF SearchEnds, Results
  <2> QED
    BY <1>2, <2>2, <2>3 DEF Ended, EndedAs, Carries, SearchClaim, SearchPcs
<1>6. CASE Destroy(p)
  <2>1. CASE Ended(p, "error")
    BY <2>1 DEF Ended, EndedAs, SearchClaim, SearchPcs
  <2>2. CASE /\ box'[<<proc[p].kind, n>>].status = "none"
             /\ Carries(p) /\ proc'[p].pc = "search" /\ proc'[p].todo = proc[p].todo
             /\ proc'[p].dropped = proc[p].dropped
    <3>1. proc[p].kind \in Kinds /\ Touched(p, proc[p].kind) /\ proc[p].pc = "use"
      BY <1>1, <1>6, DestroySteps DEF Destroy
    <3>2. ASSUME NEW j \in Kinds
          PROVE  j \in proc'[p].todo \/ <<j, n>> \in proc'[p].dropped \/ ~Listed(j, n)'
      <4>1. CASE j = proc[p].kind
        BY <2>2, <4>1, ListedByStatus
      <4>2. CASE j # proc[p].kind
        <5>1. j \in proc[p].todo \/ <<j, n>> \in proc[p].dropped \/ ~Listed(j, n)
          BY <1>2, <1>6, <3>1, <4>2 DEF SearchClaim, SearchPcs
        <5>2. box'[<<j, n>>] = box[<<j, n>>]
          BY <1>2, <3>1, <4>2 DEF Touched
        <5> QED
          BY <2>2, <5>1, <5>2, ListedByStatus
      <4> QED
        BY <4>1, <4>2
    <3>3. proc'[p].name = n
      BY <1>2, <2>2 DEF Carries
    <3> QED
      BY <2>2, <3>2, <3>3 DEF SearchClaim
  <2> QED
    BY <1>1, <1>2, <1>6, <2>1, <2>2, DestroySteps
<1> QED
  BY <1>1, <1>3, <1>4, <1>5, <1>6, WhichStep

\* A step of an up keeps what is claimed of a failed mount.
LEMMA UpSteps ==
    ASSUME Base, NEW p \in Procs, Step(p), proc[p].cmd = "up", MountClaim(p)
    PROVE  MountClaim(p)'
<1>1. Types /\ Steps /\ proc \in [Procs -> Process]
  BY DEF Base, Types
<1>2. CASE Mount(p)
  <2>1. CASE Went(p, "boxStart")
    BY <2>1 DEF Went, GoesOn, MountClaim
  <2>2. CASE \E r \in Process : /\ EndedAs(p, r, "mountFailed")
                               /\ \/ <<"lxc", proc[p].name>> \in r.dropped
                                  \/ box'[<<"lxc", proc[p].name>>] = NoBox
    BY <2>2 DEF EndedAs, Carries, MountClaim
  <2> QED
    BY <1>1, <1>2, <2>1, <2>2, MountSteps
<1>3. CASE BoxCreate(p)
  BY <1>1, <1>3, BoxCreateSteps DEF Went, GoesOn, Ended, EndedAs, Carries, MountClaim
<1>4. CASE BoxStart(p)
  BY <1>1, <1>4, BoxStartSteps DEF Went, GoesOn, Ended, EndedAs, MountClaim
<1>5. CASE LoadUp(p)
  BY <1>1, <1>5, LoadUpSteps DEF Ended, EndedAs, MountClaim
<1>6. CASE Setup(p)
  <2>1. PICK result \in {"ok", "error"} : Ended(p, result)
    BY <1>1, <1>6, FinishEnds DEF Setup, Results
  <2> QED
    BY <2>1 DEF Ended, EndedAs, MountClaim
<1> QED
  BY <1>1, <1>2, <1>3, <1>4, <1>5, <1>6, WhichStep

-----------------------------------------------------------------------------
(* The inductive invariant: a claim is made of a command that is alone.    *)

Claims(p) == HeadClaim(p) /\ TreeClaim(p) /\ SearchClaim(p) /\ MountClaim(p)
Inv == Base /\ GitInv /\ \A p \in Procs : proc[p].alone => Claims(p)

\* Nothing is claimed of a process that runs no command.
LEMMA IdleClaims ==
    ASSUME NEW p \in Procs, proc'[p].pc = "idle"
    PROVE  Claims(p)'
  BY DEF Claims, HeadClaim, TreeClaim, SearchClaim, MountClaim, Created, SearchPcs

\* A step of a command of one kind makes nothing of what is claimed of another.
LEMMA OtherCommands ==
    ASSUME NEW p \in Procs, Consistent(proc'[p]), Carries(p)
    PROVE  /\ proc[p].cmd # "create" => HeadClaim(p)' /\ TreeClaim(p)'
           /\ proc[p].cmd # "down" => SearchClaim(p)'
           /\ proc[p].cmd # "up" => MountClaim(p)'
  BY DEF Consistent, Carries, HeadClaim, TreeClaim, SearchClaim, MountClaim, Created,
         CreatePcs, UpPcs, SearchPcs

\* Inv is kept by the steps of commands, ...
LEMMA StepKeepsInv ==
    ASSUME Inv, NEW p \in Procs, Step(p)
    PROVE  Inv'
<1>1. Base /\ GitInv /\ Moved(p) /\ (proc[p].alone => Claims(p))
  BY StepMoves DEF Inv, Base
<1>2. ASSUME NEW q \in Procs, proc'[q].alone
      PROVE  Claims(q)'
  <2>1. CASE proc'[q].pc = "idle"
    BY <2>1, IdleClaims
  <2>2. CASE proc'[q].pc # "idle"
    <3>1. q = p
      BY <1>1, <1>2, <2>2, OthersSilent
    <3>2. Carries(p) /\ Consistent(proc'[p]) /\ Claims(p)
      BY <1>1, <1>2, <2>2, <3>1 DEF Moved, Carries
    <3>3. HeadClaim(p)' /\ TreeClaim(p)'
      BY <1>1, <3>2, CreateSteps, OtherCommands DEF Claims
    <3>4. SearchClaim(p)'
      BY <1>1, <3>2, DownSteps, OtherCommands DEF Claims
    <3>5. MountClaim(p)'
      BY <1>1, <3>2, UpSteps, OtherCommands DEF Claims
    <3> QED
      BY <3>1, <3>3, <3>4, <3>5 DEF Claims
  <2> QED
    BY <2>1, <2>2
<1> QED
  BY <1>1, <1>2, StepKeepsBase, StepKeepsGit DEF Inv

\* ... by what comes from outside, ...
LEMMA OutsideKeepsInv ==
    ASSUME Inv, OutsideStep
    PROVE  Inv'
<1>1. /\ Base /\ Types /\ Steps /\ GitInv
      /\ UNCHANGED <<git, files>> /\ \A q \in Procs : Rested(q)
      /\ \A s \in Kinds \X Names :
            \/ box'[s] = box[s]
            \/ box[s].status = "running" /\ box'[s].status = "stopped"
  BY OutsideSteps DEF Inv, Base, OutsideStep
<1>2. ASSUME NEW q \in Procs, proc'[q].alone
      PROVE  Claims(q)'
  <2>1. CASE proc'[q] = Idle
    BY <2>1, IdleClaims, IdleIsProcess
  <2>2. CASE Active(q) /\ proc'[q] = proc[q]
    <3>1. Claims(q) /\ proc[q].pc \notin {"idle", "done"} /\ proc[q].name \in Names
      BY <1>1, <1>2, <2>2 DEF Inv, Active, Steps, Consistent
    <3>2. PICK n \in Names : n = proc[q].name
      BY <3>1
    <3>3. HeadClaim(q)' /\ TreeClaim(q)'
      BY <1>1, <2>2, <3>1
         DEF Claims, HeadClaim, TreeClaim, Created, Target, CanCheckout, git, files
    <3>4. SearchClaim(q)'
      <4>1. ASSUME NEW k \in Kinds, ~Listed(k, n)
            PROVE  ~Listed(k, n)'
        <5>1. \/ box'[<<k, n>>] = box[<<k, n>>]
              \/ box[<<k, n>>].status = "running" /\ box'[<<k, n>>].status = "stopped"
          BY <1>1
        <5> QED
          BY <4>1, <5>1, ListedByStatus
      <4>2. SearchClaim(q) /\ proc'[q].name = n
        BY <2>2, <3>1, <3>2 DEF Claims
      <4> QED
        BY <2>2, <3>1, <3>2, <4>1, <4>2 DEF SearchClaim
    <3>5. MountClaim(q)'
      <4>1. <<"lxc", n>> \in Kinds \X Names
        BY DEF Kinds
      <4> QED
        BY <1>1, <2>2, <3>1, <3>2, <4>1 DEF Claims, MountClaim
    <3> QED
      BY <3>3, <3>4, <3>5 DEF Claims
  <2> QED
    BY <1>1, <2>1, <2>2 DEF Rested
<1> QED
  BY <1>1, <1>2, OutsideKeepsBase, OthersKeepGit DEF Inv

\* ... when a command starts, ...
LEMMA StartKeepsInv ==
    ASSUME Inv, NEW p \in Procs, NEW cmd \in Commands, NEW n \in Names, Start(p, cmd, n)
    PROVE  Inv'
<1>1. Base /\ GitInv /\ Begun(p)
      /\ \A q \in Procs \ {p} : proc'[q] = Idle \/ (Active(q) /\ proc'[q].alone = FALSE)
  BY StartSteps DEF Inv, Base
<1>2. ASSUME NEW q \in Procs, proc'[q].alone
      PROVE  Claims(q)'
  <2>1. CASE q = p
    BY <1>1, <2>1
       DEF Begun, Claims, HeadClaim, TreeClaim, SearchClaim, MountClaim, Created, SearchPcs
  <2>2. CASE q # p
    BY <1>1, <1>2, <2>2, IdleClaims, IdleIsProcess
  <2> QED
    BY <2>1, <2>2
<1> QED
  BY <1>1, <1>2, StartKeepsBase, OthersKeepGit DEF Inv

\* ... and by a step that changes nothing.
LEMMA StutterKeepsInv == ASSUME Inv, UNCHANGED vars PROVE Inv'
<1>1. /\ proc' = proc /\ head' = head /\ branches' = branches /\ trees' = trees
      /\ dir' = dir /\ box' = box /\ cfg' = cfg /\ started' = started
  BY DEF vars
<1>2. Base' /\ GitInv'
  BY <1>1 DEF Inv, Base, Types, Steps, Solo, Active, GitInv
<1>3. \A p \in Procs : Claims(p) => Claims(p)'
  BY <1>1 DEF Claims, HeadClaim, TreeClaim, SearchClaim, MountClaim, Created, Target,
              CanCheckout, Listed
<1> QED
  BY <1>1, <1>2, <1>3 DEF Inv

\* In every behaviour the repository, the containers and the commands are as
\* Inv says, the types among it.
THEOREM InvHolds == Spec => []Inv
<1>1. Init => Inv
  <2> SUFFICES ASSUME Init PROVE Inv
    OBVIOUS
  <2>1. \A p \in Procs : proc[p].pc = "idle"
    BY IdleIsProcess DEF Init
  <2>2. \A p \in Procs : Claims(p)
    BY <2>1 DEF Claims, HeadClaim, TreeClaim, SearchClaim, MountClaim, Created, SearchPcs
  <2> QED
    BY <2>2, InitBase DEF Inv
<1>2. Inv /\ [Next]_vars => Inv'
  BY NextIsOneOf, StepKeepsInv, OutsideKeepsInv, StartKeepsInv, StutterKeepsInv
<1> QED
  BY <1>1, <1>2, PTL DEF Spec

-----------------------------------------------------------------------------
(* After a create that ran alone and succeeded the user is on the branch   *)
(* they were on, or on the safe one if they asked for their own; after one *)
(* that failed they are on the new branch only if git refused to move      *)
(* back: WorkspaceCreate and the worktree manager's Add together.          *)
THEOREM HeadIsRestored == Spec => []HeadRestored
<1>1. Inv => HeadRestored
  BY DEF Inv, Claims, HeadClaim, Created, Target, HeadRestored, Ran
<1> QED
  BY <1>1, InvHolds, PTL

\* A create that reports success and added the worktree left one git knows.
THEOREM CreatedIsATree == Spec => []CreateMakesTree
<1>1. Inv => CreateMakesTree
  BY DEF Inv, Claims, TreeClaim, Created, CreateMakesTree, Ran
<1> QED
  BY <1>1, InvHolds, PTL

\* A down that reports success leaves no listed session of that name with a
\* provider whose list did not fail, and a failed LXC mount leaves no container
\* unless deleting it failed too (WorkspaceDown, createLocal of LXC).
THEOREM NothingIsLeft == Spec => []NothingLeft
<1>1. Inv => NothingLeft
  BY DEF Inv, Claims, SearchClaim, MountClaim, NothingLeft, Ran
<1> QED
  BY <1>1, InvHolds, PTL

-----------------------------------------------------------------------------
(* The list, when the worktree manager keeps out of the controller's       *)
(* directory, which is what the CLI configures.                            *)

\* A container that was started has a workspace directory.
Mounted ==
    /\ \A s \in Kinds \X Names :
          box[s].status \in {"running", "stopped"} => dir[<<Ctl, s[2]>>] # "none"
    /\ \A p \in Procs : proc[p].pc = "boxStart" => dir[<<Ctl, proc[p].name>>] # "none"

ListClaim(p) ==
    (proc[p].pc = "done" /\ proc[p].cmd = "list" /\ cfg.loads) =>
        \A k \in Kinds, n \in Names :
            /\ box[<<k, n>>].status = "running" /\ Listed(k, n)
            /\ <<k, n>> \notin proc[p].dropped
            => n \in proc[p].seen

ListInv == Base /\ Mounted /\ \A p \in Procs : proc[p].alone => ListClaim(p)

\* No command removes a directory of the controller's.
LEMMA DirectoriesStay ==
    ASSUME ~OneDir, Base, NEW p \in Procs, Step(p), NEW n \in Names, dir[<<Ctl, n>>] # "none"
    PROVE  dir'[<<Ctl, n>>] # "none"
<1>1. /\ dir \in [Places \X Names -> {"none", "tree", "plain"}] /\ Ctl # Mgr
      /\ Ctl \in Places /\ Mgr \in Places /\ Types /\ Steps
  BY DEF Base, Types, Ctl, Mgr, Places
<1>2. CASE Mount(p)
  BY <1>1, <1>2, MountSteps
<1>3. CASE TreeAdd(p) \/ Configure(p) \/ TreeRemove(p) \/ RemoveAll(p)
  <2>1. PICK m : m = proc[p].name
    OBVIOUS
  <2>2. \/ dir' = dir
        \/ \E v \in {"none", "tree", "plain"} : dir' = [dir EXCEPT ![<<Mgr, m>>] = v]
    BY <1>3, <2>1 DEF TreeAdd, Configure, TreeRemove, RemoveAll, files
  <2> QED
    BY <1>1, <2>2
<1>4. CASE ~(Mount(p) \/ TreeAdd(p) \/ Configure(p) \/ TreeRemove(p) \/ RemoveAll(p))
  <2>1. dir' = dir
    BY <1>4 DEF Step, files, CreateStat, ReadHead, MakeBranch, SwitchBack, LoadUp, BoxCreate,
                BoxStart, Setup, LoadSearch, Search, SearchEnds, Destroy, Exec, Services,
                Connect, List
  <2> QED
    BY <2>1
<1> QED
  BY <1>2, <1>3, <1>4

\* A started container has a directory: kept by the steps of commands.
LEMMA StepKeepsMounted ==
    ASSUME ~OneDir, Base, Mounted, NEW p \in Procs, Step(p)
    PROVE  Mounted'
<1>1. Types /\ Steps /\ Types' /\ Steps' /\ Moved(p) /\ proc[p].name \in Names
  BY StepMoves DEF Base, Steps, Consistent, Active
<1>2. \A n \in Names : dir[<<Ctl, n>>] # "none" => dir'[<<Ctl, n>>] # "none"
  BY DirectoriesStay
<1>3. PICK n \in Names : n = proc[p].name
  BY <1>1
<1>4. proc'[p].pc = "boxStart" => dir'[<<Ctl, n>>] # "none"
  <2>1. CASE BoxCreate(p)
    BY <1>1, <1>2, <1>3, <2>1, BoxCreateSteps DEF Went, GoesOn, Ended, EndedAs
  <2>2. CASE Mount(p)
    BY <1>1, <1>3, <2>2, MountSteps
  <2>3. CASE BoxStart(p)
    BY <1>1, <2>3, BoxStartSteps DEF Went, GoesOn, Ended, EndedAs
  <2>4. CASE LoadUp(p)
    BY <1>1, <2>4, LoadUpSteps DEF Ended, EndedAs
  <2>5. CASE Setup(p)
    BY <1>1, <2>5, FinishEnds DEF Setup, Ended, EndedAs, Types, Results
  <2>6. CASE proc[p].cmd # "up"
    BY <1>1, <2>6 DEF Moved, Carries, Consistent, UpPcs
  <2> QED
    BY <1>1, <2>1, <2>2, <2>3, <2>4, <2>5, <2>6, WhichStep
<1>5. ASSUME NEW s \in Kinds \X Names, box'[s].status \in {"running", "stopped"}
      PROVE  dir'[<<Ctl, s[2]>>] # "none"
  <2>1. CASE box'[s].status = box[s].status
    BY <1>2, <1>5, <2>1 DEF Mounted
  <2>2. CASE BoxCreate(p)
    <3>1. \/ box'[s] = box[s] \/ box'[s].status = "created"
      BY <1>1, <2>2, BoxCreateSteps DEF Touched
    <3> QED
      BY <1>5, <2>1, <3>1
  <2>3. CASE Mount(p)
    <3>1. box'[s] = box[s] \/ box'[s].status \in {box[s].status, "none"}
      BY <1>1, <2>3, MountSteps DEF Touched
    <3> QED
      BY <1>5, <2>1, <3>1
  <2>4. CASE BoxStart(p)
    <3>1. box'[s] = box[s] \/ s = <<proc[p].kind, n>>
      BY <1>1, <1>3, <2>4, BoxStartSteps DEF Touched
    <3>2. dir[<<Ctl, n>>] # "none"
      BY <1>3, <2>4 DEF BoxStart, Mounted
    <3> QED
      BY <1>2, <2>1, <3>1, <3>2
  <2>5. CASE Destroy(p)
    <3>1. box'[s] = box[s] \/ box'[s].status = "none"
      BY <1>1, <2>5, DestroySteps DEF Touched
    <3> QED
      BY <1>5, <2>1, <3>1
  <2>6. CASE PlainStep(p) \/ GitStep(p) \/ ReadHead(p)
    <3>1. box' = box
      BY <2>6 DEF PlainStep, CreateStat, Configure, LoadUp, Setup, LoadSearch, Search, SearchEnds,
                  Exec, Services, Connect, List, RemoveAll, GitStep, MakeBranch, SwitchBack,
                  TreeAdd, TreeRemove, ReadHead
    <3> QED
      BY <2>1, <3>1
  <2> QED
    BY <2>2, <2>3, <2>4, <2>5, <2>6 DEF Step, PlainStep, GitStep
<1>6. ASSUME NEW q \in Procs, proc'[q].pc = "boxStart"
      PROVE  dir'[<<Ctl, proc'[q].name>>] # "none"
  <2>1. CASE q = p
    BY <1>1, <1>3, <1>4, <1>6, <2>1 DEF Moved, Carries
  <2>2. CASE q # p
    <3>1. proc'[q] = proc[q] /\ proc[q].name \in Names
      BY <1>1, <1>6, <2>2 DEF Moved, OnlyProc, Steps, Consistent
    <3> QED
      BY <1>2, <1>6, <3>1 DEF Mounted
  <2> QED
    BY <2>1, <2>2
<1> QED
  BY <1>5, <1>6 DEF Mounted

\* ListInv is kept by the steps of commands, ...
LEMMA StepKeepsList ==
    ASSUME ~OneDir, ListInv, NEW p \in Procs, Step(p)
    PROVE  ListInv'
<1>1. Base /\ Types /\ Steps /\ Mounted /\ Moved(p) /\ proc \in [Procs -> Process]
  BY StepMoves DEF ListInv, Base, Types
<1>2. ASSUME NEW q \in Procs, proc'[q].alone
      PROVE  ListClaim(q)'
  <2>1. CASE proc'[q].pc = "idle"
    BY <2>1 DEF ListClaim
  <2>2. CASE proc'[q].pc # "idle"
    <3>1. q = p /\ Carries(p)
      BY <1>1, <1>2, <2>2, OthersSilent DEF Moved
    <3>2. CASE proc[p].cmd # "list"
      BY <3>1, <3>2 DEF ListClaim, Carries
    <3>3. CASE proc[p].cmd = "list"
      <4>1. List(p)
        BY <1>1, <3>3, WhichStep
      <4>2. PICK dropped \in SUBSET (Kinds \X Names) :
               EndedAs(p, [proc[p] EXCEPT !.seen = Shown(Ctl, dropped), !.dropped = dropped], "ok")
        BY <1>1, <4>1, ListSteps
      <4>3. proc'[p].seen = Shown(Ctl, dropped) /\ proc'[p].dropped = dropped
        <5>1. PICK r : r = [proc[p] EXCEPT !.seen = Shown(Ctl, dropped), !.dropped = dropped]
          OBVIOUS
        <5>2. r.seen = Shown(Ctl, dropped) /\ r.dropped = dropped
          BY <1>1, <5>1 DEF Process
        <5> QED
          BY <2>2, <3>1, <4>2, <5>1, <5>2 DEF EndedAs
      <4>4. ASSUME NEW k \in Kinds, NEW n \in Names, cfg.loads,
                   box[<<k, n>>].status = "running", Listed(k, n), <<k, n>> \notin dropped
            PROVE  n \in Shown(Ctl, dropped)
        <5>1. dir[<<Ctl, n>>] # "none"
          BY <1>1, <4>4 DEF Mounted
        <5> QED
          BY <4>4, <5>1 DEF Shown
      <4>5. box' = box /\ cfg' = cfg
        BY <4>1 DEF List
      <4> QED
        BY <3>1, <4>3, <4>4, <4>5 DEF ListClaim, Listed
    <3> QED
      BY <3>2, <3>3
  <2> QED
    BY <2>1, <2>2
<1> QED
  BY <1>1, <1>2, StepKeepsBase, StepKeepsMounted DEF ListInv

\* ... and by all others.
LEMMA OthersKeepList ==
    ASSUME ListInv,
           OutsideStep \/ \E p \in Procs, cmd \in Commands, n \in Names : Start(p, cmd, n)
    PROVE  ListInv'
<1>1. Base /\ Mounted
  BY DEF ListInv
<1>2. CASE OutsideStep
  <2>1. /\ UNCHANGED dir /\ \A q \in Procs : Rested(q)
        /\ \A s \in Kinds \X Names :
              \/ box'[s] = box[s]
              \/ box[s].status = "running" /\ box'[s].status = "stopped"
    BY <1>1, <1>2, OutsideSteps DEF Base, OutsideStep, files
  <2>2. Mounted'
    BY <1>1, <2>1, IdleIsProcess DEF Mounted, Rested
  <2>3. \A p \in Procs : ListClaim(p)'
    BY <2>1, IdleIsProcess DEF Rested, Active, ListClaim
  <2> QED
    BY <1>1, <1>2, <2>2, <2>3, OutsideKeepsBase DEF ListInv
<1>3. ASSUME NEW p \in Procs, NEW cmd \in Commands, NEW n \in Names, Start(p, cmd, n)
      PROVE  ListInv'
  <2>1. /\ UNCHANGED <<dir, box>> /\ Begun(p)
        /\ \A q \in Procs \ {p} : proc'[q] = Idle \/ (Active(q) /\ proc'[q].alone = FALSE)
    BY <1>1, <1>3, StartSteps DEF Base, files
  <2>2. ASSUME NEW q \in Procs, q # p
        PROVE  \/ proc'[q] = Idle
               \/ proc'[q].pc = proc[q].pc /\ proc'[q].name = proc[q].name
    <3>1. proc[q] \in Process
      BY <1>1 DEF Base, Types
    <3>2. proc'[q] = Idle \/ proc'[q] = [proc[q] EXCEPT !.alone = FALSE]
      BY <1>3, <2>2 DEF Start
    <3> QED
      BY <3>1, <3>2 DEF Process
  <2>3. Mounted'
    BY <1>1, <2>1, <2>2, IdleIsProcess DEF Mounted, Begun
  <2>4. \A q \in Procs : proc'[q].alone => ListClaim(q)'
    BY <2>1, IdleIsProcess DEF Begun, ListClaim
  <2> QED
    BY <1>1, <1>3, <2>3, <2>4, StartKeepsBase DEF ListInv
<1> QED
  BY <1>2, <1>3

\* What the list command prints holds every running container that its
\* provider lists, whatever commands were run before it (WorkspaceList looks in
\* the directories the up command mounted).
THEOREM ListIsComplete ==
    ASSUME ~OneDir
    PROVE  Spec => []ListShowsRunning
<1>1. Init => ListInv
  <2> SUFFICES ASSUME Init PROVE ListInv
    OBVIOUS
  <2>1. \A p \in Procs : proc[p].pc = "idle"
    BY IdleIsProcess DEF Init
  <2>2. \A s \in Kinds \X Names : box[s].status = "none"
    BY DEF Init, NoBox
  <2> QED
    BY <2>1, <2>2, InitBase DEF ListInv, Mounted, ListClaim
<1>2. ListInv /\ [Next]_vars => ListInv'
  <2> SUFFICES ASSUME ListInv, [Next]_vars PROVE ListInv'
    OBVIOUS
  <2>1. CASE UNCHANGED vars
    <3>1. /\ proc' = proc /\ head' = head /\ branches' = branches
          /\ dir' = dir /\ box' = box /\ cfg' = cfg /\ started' = started
      BY <2>1 DEF vars
    <3>2. Base' /\ Mounted'
      BY <3>1 DEF ListInv, Base, Types, Steps, Solo, Active, Mounted
    <3>3. \A p \in Procs : ListClaim(p) => ListClaim(p)'
      BY <3>1 DEF ListClaim, Listed
    <3> QED
      BY <3>1, <3>2, <3>3 DEF ListInv
  <2> QED
    BY <2>1, NextIsOneOf, StepKeepsList, OthersKeepList
<1>3. ListInv => ListShowsRunning
  BY DEF ListInv, ListClaim, ListShowsRunning, Ran
<1> QED
  BY <1>1, <1>2, <1>3, PTL DEF Spec
==========================================================================
