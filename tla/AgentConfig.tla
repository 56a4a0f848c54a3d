----------------------------- MODULE AgentConfig -----------------------------
(***************************************************************************)
(* The rules that nexus writes for coding agents: where they come from     *)
(* (pkg/templates), which files they become (pkg/config, pkg/ctrl) and     *)
(* what `nexus init`, `apply`, `update` and `plugin update` do to them.    *)
(*                                                                         *)
(* A rule is a name; a source or a file holds one text for it, or none.    *)
(* One extended repository, with one plugin directory, stands for them     *)
(* all.  Skills and commands are loaded and copied the way rules are, and  *)
(* are left out.  A command is one step: nothing else writes these files,  *)
(* but a write may fail, and the command end there or go on without it.    *)
(***************************************************************************)
EXTENDS Naturals, Sequences, FiniteSets

CONSTANTS Rules,      \* names of rules
          Markdown,   \* those kept in .md files; the others are .mdc or .yaml
          Shipped,    \* the rules `nexus init` writes
          Worktrees,  \* names of worktrees
          MaxEdits    \* bound: edits, upstream commits and failed writes

ASSUME ShippedAreRules ==
    /\ Shipped \subseteq Markdown /\ Markdown \subseteq Rules
    /\ "root" \notin Worktrees /\ MaxEdits \in Nat

VARIABLES local,      \* .nexus/templates/rules
          override,   \* .nexus/agents/opencode/rules
          config,     \* what config.yaml says of the extended repository
          tpl,        \* the agents whose template can be read and parsed
          upstream,   \* the extended repository at GitHub
          clone,      \* its clone for Merge (.nexus/remotes) and Update (remotes)
          lock,       \* what nexus.lock has pinned
          agents,     \* agents installed on this machine
          oneDir,     \* are worktrees made where the controller looks?
          nested,     \* the plugin's rules that lie in rules/rules
          trees,      \* worktrees that exist
          file,       \* file[place, kind, rule]: the text of a generated file
          settings,   \* settings[place, agent]: who wrote the agent's own file
          ignored,    \* lines nexus added to .gitignore
          applied,    \* history: places where the last apply still holds
          skipped,    \* history: what it failed to write, as <<place, rule or agent>>
          edits       \* counter for the bound
configVars == <<local, override, config, tpl, upstream, clone, lock, agents,
                oneDir, nested, trees, file, settings, ignored, applied, skipped, edits>>

(* Not extended; extended; extended, and its plugin listed by name.        *)
Configs == {"plain", "extends", "lists"}

None == "none"
Texts == {"x", "y"}
Absent == [r \in Rules |-> None]
Places == Worktrees \cup {"root"}
Sources == {"base", "override", "plugin"}
Agents == {"cursor", "opencode", "claude-desktop", "claude-code"}
Kinds == Sources \cup {"own", "AGENTS.md", "copy"}
installed == <<agents, oneDir, nested>>
generated == <<trees, file, settings>>
sources == <<local, override, config, tpl, upstream>>

(* The claude command stands for two agents.                               *)
DetectInstalledAgents ==
    {a \in SUBSET Agents : "claude-desktop" \in a <=> "claude-code" \in a}

InitConfig ==
    /\ local = [r \in Rules |-> IF r \in Shipped THEN "x" ELSE None]
    /\ override = Absent
    /\ config = "plain"
    /\ tpl \in {{}, Agents \ {"cursor"}}
    /\ upstream = [r \in Rules |-> "y"]
    /\ clone = [d \in {"merge", "update"} |-> Absent]
    /\ lock = Absent
    /\ agents \in DetectInstalledAgents
    /\ oneDir \in BOOLEAN
    /\ nested \in {{}, Rules}
    /\ trees = {}
    /\ file = [f \in Places \X Kinds \X Rules |-> None]
    /\ settings = [f \in Places \X Agents |-> "none"]
    /\ ignored = {}
    /\ applied = {}
    /\ skipped = {}
    /\ edits = 0

-----------------------------------------------------------------------------
(* Merge.  The clone of an extended repository is made once and never      *)
(* updated; a blank override removes nothing but an override.              *)

CloneRepo == {upstream}

(* Mutant of PullWithoutUpdate: the clone is brought up to date.           *)
PullAlways(c) == CloneRepo

PullWithoutUpdate(c) == IF c = Absent THEN CloneRepo ELSE {c}

LoadExtends == IF config = "plain" THEN {clone["merge"]} ELSE PullWithoutUpdate(clone["merge"])

(* loadTemplatesFromDir takes the kind of a template from the first part   *)
(* of its path below the directory it is given; for a plugin that          *)
(* directory is already `rules`, so that only rules/rules is read.         *)
LoadTemplatesFromDir(c) == [r \in Rules |-> IF r \in nested THEN c[r] ELSE None]
LoadTemplatesFromExtendsRepo(c) == IF config = "plain" THEN Absent ELSE LoadTemplatesFromDir(c)

ApplyOverrideForType(target) ==
    [r \in Rules |-> CASE override[r] = "blank" -> None
                       [] override[r] = None -> target[r]
                       [] OTHER -> override[r]]
ApplyAgentOverrides == ApplyOverrideForType(Absent)

Merged(c) == [base |-> local,
              override |-> ApplyAgentOverrides,
              plugin |-> LoadTemplatesFromExtendsRepo(c)]

(* GenerateAgentConfigs goes through base, override and the listed plugins *)
(* in this order, and a later one wins.                                    *)
Relevant == {"base", "override"} \cup (IF config = "lists" THEN {"plugin"} ELSE {})
FinalRule(m, r) ==
    IF config = "lists" /\ m.plugin[r] # None THEN m.plugin[r]
    ELSE IF m.override[r] # None THEN m.override[r] ELSE m.base[r]

(* Mutant of AgentRules: only the templates of the project are collected.  *)
AgentRulesLocal(m) == [s \in {"base"} |-> m[s]]

AgentRules(m) == [s \in Relevant |-> m[s]]

(* Files of other rules and of earlier calls are never removed; AGENTS.md  *)
(* is written anew, unless there is no rule to write.                      *)
AgentsMd(f, place, m) ==
    LET final == [r \in Rules |-> FinalRule(m, r)] IN
    [k \in DOMAIN f |->
        IF k[1] = place /\ k[2] = "AGENTS.md" /\ final # Absent
        THEN final[k[3]] ELSE f[k]]

RuleFiles(f, place, m) ==
    LET collected == AgentRules(m) IN
    [k \in DOMAIN f |->
        IF k[1] # place THEN f[k]
        ELSE IF k[2] \in DOMAIN collected /\ collected[k[2]][k[3]] # None
             THEN collected[k[2]][k[3]]
        ELSE IF k[2] = "own" /\ override[k[3]] # None THEN override[k[3]]
        ELSE f[k]]

(* What GenerateAgentConfigs does, in this order; Cursor has no template   *)
(* and is passed over.                                                     *)
Order == <<"AGENTS.md", "opencode", "claude-desktop", "claude-code", ".gitignore">>
Templated == agents \ {"cursor"}
Parts == {"AGENTS.md", ".gitignore"} \cup Templated

(* It ends at the first part that fails, for want of a template or because *)
(* a file cannot be written, and keeps the parts before it.  (A part that  *)
(* fails is taken to write nothing.)                                       *)
GoesThrough ==
    {done \in {Parts \cap {Order[j] : j \in 1..i} : i \in 0..Len(Order)} :
        done \cap Agents \subseteq tpl}

(* The bound: a stop before a missing template has been counted already.   *)
Counted(n) == edits + n <= MaxEdits /\ edits' = edits + n
EndsAfter(done) == Counted(IF done = UNION GoesThrough THEN 0 ELSE 1)

GenerateAgentConfigs(f, place, m, done) ==
    IF "opencode" \in done THEN RuleFiles(AgentsMd(f, place, m), place, m)
    ELSE IF "AGENTS.md" \in done THEN AgentsMd(f, place, m)
    ELSE f

(* The file of each agent it gets to is rendered from the template.        *)
Rendered(st, place, done) ==
    [k \in DOMAIN st |-> IF k[1] = place /\ k[2] \in done THEN "rendered" ELSE st[k]]

Patterns(m) ==
    (IF \E r \in Rules : FinalRule(m, r) # None THEN {"AGENTS.md"} ELSE {})
    \cup (IF "opencode" \in agents THEN {"AGENTS.md"} ELSE {})
    \cup (agents \ {"cursor", "opencode"})

UpdateGitignore(lines, done) ==
    ignored' = IF ".gitignore" \in done THEN ignored \cup lines ELSE ignored

-----------------------------------------------------------------------------
(* Apply, after GenerateAgentConfigs: the templates are copied to          *)
(* .opencode of the project, and from there to that of every worktree the  *)
(* controller finds: .md files only, and without those of `gone`, which    *)
(* could not be read, rendered or written; at most a warning tells of it.  *)

Found == IF oneDir THEN trees ELSE {}

AnyFiles == {gone \in SUBSET (Places \X (Markdown \cup Agents)) : Cardinality(gone) <= MaxEdits}
Skippable ==
    {gone \in AnyFiles :
        \A k \in gone : k[1] \in {"root"} \cup Found /\ k[2] \in Markdown \cup agents}

CopyToRoot(f, gone) ==
    [k \in DOMAIN f |->
        IF /\ k[1] = "root" /\ k[2] = "copy" /\ <<"root", k[3]>> \notin gone
           /\ k[3] \in Markdown /\ local[k[3]] # None
        THEN local[k[3]] ELSE f[k]]

CopyToTrees(f, gone) ==
    [k \in DOMAIN f |->
        IF /\ k[1] \in Found /\ k[2] = "copy" /\ <<k[1], k[3]>> \notin gone
           /\ f[<<"root", "copy", k[3]>>] # None
        THEN f[<<"root", "copy", k[3]>>] ELSE f[k]]

(* Mutant of GenerateOpenCode: the worktrees are served before the project.*)
GenerateOpenCodeTreesFirst(f, gone) == CopyToRoot(CopyToTrees(f, gone), gone)

GenerateOpenCode(f, gone) == CopyToTrees(CopyToRoot(f, gone), gone)

(* Each installed agent's own file then gets a fixed text, in the project  *)
(* and in the same worktrees; Cursor's are two rules under .cursor.        *)
Fixed(st, a, gone) ==
    [k \in DOMAIN st |->
        IF a \in agents /\ k = <<k[1], a>> /\ k[1] \in {"root"} \cup Found /\ k \notin gone
        THEN "fixed" ELSE st[k]]
GenerateCursor(st, gone) == Fixed(st, "cursor", gone)
GenerateOpenCodeJSON(st, gone) == Fixed(st, "opencode", gone)
GenerateClaudeDesktop(st, gone) == Fixed(st, "claude-desktop", gone)
GenerateClaudeCode(st, gone) == Fixed(st, "claude-code", gone)

(* Merging or GenerateAgentConfigs ends early, and with it the command.    *)
ApplyFails(c, done) ==
    /\ done # Parts /\ EndsAfter(done)
    /\ file' = GenerateAgentConfigs(file, "root", Merged(c), done)
    /\ settings' = Rendered(settings, "root", done)
    /\ applied' = applied \ {"root"}
    /\ UNCHANGED <<ignored, skipped>>

ApplySucceeds(c, gone) ==
    LET f == GenerateAgentConfigs(file, "root", Merged(c), Parts) IN
    /\ Parts \in GoesThrough /\ Counted(Cardinality(gone))
    /\ file' = IF "opencode" \in agents THEN GenerateOpenCode(f, gone) ELSE f
    /\ settings' =
           GenerateClaudeCode(GenerateClaudeDesktop(GenerateOpenCodeJSON(GenerateCursor(
               Rendered(settings, "root", Parts), gone), gone), gone), gone)
    /\ UpdateGitignore(Patterns(Merged(c)), Parts)
    /\ applied' = {"root"} \cup Found
    /\ skipped' = gone

(* Without an agent, and when the clone fails, it does nothing.            *)
Apply ==
    \E c \in LoadExtends :
    /\ agents # {}
    /\ clone' = [clone EXCEPT !["merge"] = c]
    /\ \/ \E done \in GoesThrough : ApplyFails(c, done)
       \/ \E gone \in Skippable : ApplySucceeds(c, gone)
    /\ UNCHANGED <<sources, lock, installed, trees>>

(* branch create: the worktree, then the files of GenerateAgentConfigs.    *)
(* (Controller has the steps in between, and what happens when one fails.) *)
CreateWorktree(t) ==
    \E c \in LoadExtends, done \in GoesThrough :
    LET m == Merged(c) IN
    /\ t \notin trees
    /\ trees' = trees \cup {t}
    /\ clone' = [clone EXCEPT !["merge"] = c]
    /\ file' = GenerateAgentConfigs(file, t, m, done)
    /\ settings' = Rendered(settings, t, done)
    /\ UpdateGitignore(Patterns(m), done)
    /\ EndsAfter(done)
    /\ UNCHANGED <<sources, lock, installed, applied, skipped>>

RemoveWorktree(t) ==
    /\ t \in trees
    /\ trees' = trees \ {t}
    /\ file' = [k \in DOMAIN file |-> IF k[1] = t THEN None ELSE file[k]]
    /\ settings' = [k \in DOMAIN settings |-> IF k[1] = t THEN "none" ELSE settings[k]]
    /\ applied' = applied \ {t}
    /\ UNCHANGED <<sources, clone, lock, installed, ignored, skipped, edits>>

(* `nexus update` keeps its clones in ./remotes, which nothing merges; a   *)
(* pull that fails on every branch leaves the clone as it was.             *)
UpdateRepo(c) == {c, upstream}
PullWithUpdate(c) == IF c = Absent THEN CloneRepo ELSE UpdateRepo(c)

Update ==
    /\ config # "plain"
    /\ \E c \in PullWithUpdate(clone["update"]) : clone' = [clone EXCEPT !["update"] = c]
    /\ UNCHANGED <<sources, lock, installed, generated, ignored, applied, skipped, edits>>

(* `nexus plugin update` pins the commits of the clones in .nexus/remotes, *)
(* as they are, and writes no file when there is none.                     *)
PluginUpdate ==
    /\ clone["merge"] # Absent
    /\ lock' = clone["merge"]
    /\ UNCHANGED <<sources, clone, installed, generated, ignored, applied, skipped, edits>>

(* `nexus init` writes its files whether or not there are some already:    *)
(* config.yaml, the rules, the templates; one that fails ends it.          *)
InitProject ==
    /\ Counted(1)
    /\ \E new \in SUBSET Shipped, i \in 1..4 :
          /\ new # Shipped => i = 1
          /\ local' = [r \in Rules |-> IF r \in new THEN "x" ELSE local[r]]
          /\ tpl' = tpl \cup {Order[j] : j \in 2..i}
    /\ config' = "plain"
    /\ applied' = {}
    /\ UNCHANGED <<override, upstream, clone, lock, installed, generated, ignored, skipped>>

(* People edit the sources, at GitHub and in the project.                  *)
Edit(r) ==
    /\ Counted(1)
    /\ \/ \E t \in Texts \cup {None} :
             local' = [local EXCEPT ![r] = t] /\ UNCHANGED <<override, config, upstream>>
       \/ \E t \in Texts \cup {None, "blank"} :
             override' = [override EXCEPT ![r] = t] /\ UNCHANGED <<local, config, upstream>>
       \/ \E t \in Texts :
             upstream' = [upstream EXCEPT ![r] = t] /\ UNCHANGED <<local, override, config>>
       \/ config' \in Configs /\ UNCHANGED <<local, override, upstream>>
    /\ applied' = IF <<local', override', config'>> = <<local, override, config>>
                  THEN applied ELSE {}
    /\ UNCHANGED <<tpl, clone, lock, installed, generated, ignored, skipped>>

NextConfig ==
    \/ Apply \/ Update \/ PluginUpdate \/ InitProject
    \/ \E t \in Worktrees : CreateWorktree(t) \/ RemoveWorktree(t)
    \/ \E r \in Rules : Edit(r)

-----------------------------------------------------------------------------
(* OpenCode finds the project's Markdown rules, as they are now, but for   *)
(* those that could not be copied here or to the project ...               *)
RulesCopied(p) ==
    "opencode" \in agents =>
        \A r \in Markdown :
            local[r] # None /\ skipped \cap {<<p, r>>, <<"root", r>>} = {}
                => file[<<p, "copy", r>>] = local[r]

(* ... every installed agent has its file, the fixed one, whatever was     *)
(* rendered for it, unless it could not be written ...                     *)
SettingsFixed(p) ==
    \A a \in agents : <<p, a>> \notin skipped => settings[<<p, a>>] = "fixed"

(* ... and what AGENTS.md shows is a rule file with the same text, though *)
(* the one is rewritten and the others are added to.                       *)
MdIsBacked ==
    "opencode" \in agents =>
        \A r \in Rules :
            LET text == file[<<"root", "AGENTS.md", r>>] IN
            (\E q \in Rules : FinalRule(Merged(clone["merge"]), q) # None) /\ text # None
                => \E s \in Sources : file[<<"root", s, r>>] = text

(* As long as nobody edits a source after an apply, its results are in the *)
(* project and in each worktree that existed where the controller looks,   *)
(* whatever was there before and however often later commands fail         *)
(* (ctrl.go:662-1100, config.go:240-396); a failed apply may spoil those   *)
(* of the project, not of the worktrees.                                   *)
ApplyIsComplete ==
    /\ \A p \in applied : RulesCopied(p) /\ SettingsFixed(p)
    /\ "root" \in applied => MdIsBacked

(* What nexus.lock pins is what later commands merge, however often the    *)
(* extended repository changes or is updated (manager.go:165-175,          *)
(* ctrl.go:1153-1226).                                                     *)
LockedIsMerged == lock # Absent => clone["merge"] = lock
=============================================================================
