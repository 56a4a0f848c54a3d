SPECIFICATION Spec
CONSTANTS
  Rules = {r, s}
  Markdown = {r}
  Shipped = {r}
  Worktrees = {t}
  MaxEdits = 2
  Things = {1, 2, 3}
  MaxChanges = 1
  Callers = {c1, c2}
  Targets = {t1, t2}
  MaxDials = 2
  Calls = {a, b}
  Svcs = {web}
  MaxAttempts = 2
  MaxCreations = 2
  Names = {web}
  Clients = {c1, c2}
  MaxCalls = 4
  Requests = {q1, q2, q3}
  Tabled = 1
INVARIANTS
  ApplyIsComplete
  LockedIsMerged
  UpToDateIsCurrent
  DependenciesFirst
  BlockedOnlyByNesting
  OneConnection
  SentWhereTested
  HealthIsOfThisStart
  RunningWasExecuted
  TablesKeepUp
  StuckOnlyInList
CHECK_DEADLOCK FALSE
