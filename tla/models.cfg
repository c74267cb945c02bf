SPECIFICATION Spec
CONSTANTS
  Spark = spark
  Profiles = {spark, p}
  Models = {m}
  Editors = {k1, k2}
  Probes = {n}
  Jobs = {j}
  MaxRevision = 2
  MaxRestarts = 1
  Projects = {p1, p2}
  Commands = {k1, k2}
  Routes = {x1, x2}
  Targets = {t1}
  NoTarget = NoTarget
  NoRoute = NoRoute
  MaxPending = 2
  MaxShown = 1
  MaxSaves = 1
  Sessions = {s}
  Workers = {w}
  Users = {k1, k2}
  Approvals = {x1, x2}
  NoApproval = NoApproval
  Replies <- MCReplies
  MaxRounds = 2
  MaxTurns = 2
  MaxStops = 1
  Protocols = {"chat", "responses", "messages"}
  Answers <- MCAnswers
  task1 = task1
  task2 = task2
  task3 = task3
  Tasks = {task1, task2, task3}
  Plans <- MCPlans
  Concurrency = 2
  MaxExecutions = 3
  Lookups = {l1, l2}
  MaxTotal = 4
  MaxSingle = 2
  MaxLookups = 4
  Paths = {f1, f2}
  MaxForeign = 2
  Folders = {f1}
  Askers = {k1, k2}
  MaxCommands = 3
  MaxMoves = 1
  MaxWindows = 2
  MaxAppEnds = 1
SYMMETRY Sym
INVARIANTS TypeOK ChoicesAreExact AgentsAreExact AnswersAreExact WorkersAreExact
CHECK_DEADLOCK FALSE
