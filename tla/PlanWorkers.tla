----------------------------- MODULE PlanWorkers -----------------------------
(* The tasks of a plan (hub-scheduler, hub_runtime::workers and ::plan). The   *)
(* scheduler starts a task when all its dependencies are completed; a worker   *)
(* gives it a worktree with the results of the dependencies and a Codex thread *)
(* of its own, waits for the turn and saves the diff as the outcome. A hub     *)
(* that stopped recovers from the rows, the outcomes and the worktrees.        *)
EXTENDS Naturals, FiniteSets

CONSTANTS
  Tasks,
  Plans,         \* the plans: who depends on whom
  Concurrency,   \* tasks that may run at once
  MaxExecutions  \* bound: executions of the scheduler

ASSUME PlansAssumption == Plans \subseteq [Tasks -> SUBSET Tasks]
ASSUME ConcurrencyAssumption == Concurrency \in 1..8
ASSUME ExecutionsAssumption == MaxExecutions \in Nat

VARIABLES
  deps,      \* dependencies of the tasks of the plan
  dag,       \* statuses in the memory of the scheduler
  stored,       \* statuses in the store
  on,        \* the scheduler executes
  executions,
  job,       \* where the worker of a task is
  tree,      \* worktree of a task: made by git, and kept in the store
  holds,     \* tasks whose work is in it
  applied,   \* dependencies whose diff was applied to it
  made,      \* Codex threads that were made for a task
  bound,     \* tasks with a thread in the store
  turn,      \* last turn of that thread
  outcome    \* saved outcome: the tasks whose work its diff holds

treeVars == <<tree, holds, applied>>
threadVars == <<made, bound>>
planVars == <<deps, dag, stored, on, executions, job, treeVars, threadVars, turn, outcome>>

-----------------------------------------------------------------------------
Statuses == {"pending", "blocked", "ready", "running", "reviewing", "completed", "failed"}

\* TaskStatus::can_transition, of the transitions that the scheduler asks for.
CanTransition ==
  {<<"pending", "ready">>, <<"pending", "blocked">>, <<"blocked", "ready">>, <<"ready", "running">>,
   <<"running", "reviewing">>, <<"running", "failed">>, <<"reviewing", "completed">>}

\* The work of a task is in its worktree, and in the outcome.
Done(t) == t \in outcome[t]

Spawned == {t \in Tasks : job[t] # "none"}

PlanType ==
  /\ deps \in Plans
  /\ dag \in [Tasks -> Statuses] /\ stored \in [Tasks -> Statuses]
  /\ on \in BOOLEAN /\ executions \in 0..MaxExecutions
  /\ job \in [Tasks -> {"none", "begin", "create", "keep", "patch", "thread", "bind", "resume", "start",
                        "wait", "diff", "done", "failed"}]
  /\ tree \in [Tasks -> {"none", "made", "kept"}]
  /\ holds \in [Tasks -> SUBSET Tasks] /\ applied \in [Tasks -> SUBSET Tasks]
  /\ made \in [Tasks -> Nat] /\ bound \in SUBSET Tasks
  /\ turn \in [Tasks -> {"none", "active", "completed", "failed"}]
  /\ outcome \in [Tasks -> SUBSET Tasks]
  /\ Cardinality(Spawned) <= Concurrency

\* Dag::new: the dependencies are tasks of the plan, and no task waits for itself.
Acyclic(d) ==
  \A S \in SUBSET Tasks : S # {} => \E t \in S : d[t] \cap S = {}

PlanInit ==
  /\ deps \in {d \in Plans : Acyclic(d)}
  /\ dag = [t \in Tasks |-> "pending"] /\ stored = dag
  /\ on = FALSE /\ executions = 0
  /\ job = [t \in Tasks |-> "none"]
  /\ tree = [t \in Tasks |-> "none"]
  /\ holds = [t \in Tasks |-> {}] /\ applied = [t \in Tasks |-> {}]
  /\ made = [t \in Tasks |-> 0] /\ bound = {}
  /\ turn = [t \in Tasks |-> "none"]
  /\ outcome = [t \in Tasks |-> {}]

-----------------------------------------------------------------------------
(* hub_scheduler::execute *)

\* The first execution takes the statuses of the new tasks.
ExecutesPlan ==
  /\ ~on /\ executions = 0 /\ executions < MaxExecutions
  /\ on' = TRUE /\ executions' = 1
  /\ UNCHANGED <<deps, dag, stored, job, treeVars, threadVars, turn, outcome>>

\* Mutant: only the rows say what is done.
RecoveredRow(t) == IF stored[t] \in {"running", "reviewing"} THEN "pending" ELSE stored[t]

\* PlanRuntime::recover: what has an outcome is completed, what was running starts over.
Recovered(t) ==
  IF Done(t) THEN "completed"
  ELSE IF stored[t] \in {"running", "reviewing"} THEN "pending" ELSE stored[t]

\* A completed task without its outcome is an error.
Recoverable == \A t \in Tasks : stored[t] = "completed" => Done(t)

Recovers ==
  /\ ~on /\ executions \in 1..(MaxExecutions - 1)
  /\ Recoverable
  /\ dag' = [t \in Tasks |-> Recovered(t)]
  /\ on' = TRUE /\ executions' = executions + 1
  /\ UNCHANGED <<deps, stored, job, treeVars, threadVars, turn, outcome>>

\* Dag::refresh
Refreshed(t) ==
  IF dag[t] \notin {"pending", "blocked"} THEN dag[t]
  ELSE IF \E d \in deps[t] : dag[d] = "failed" THEN "blocked"
  ELSE IF \A d \in deps[t] : dag[d] = "completed" THEN "ready"
  ELSE dag[t]

Startable ==
  {t \in Tasks : Refreshed(t) = "ready" /\ Cardinality(Spawned) < Concurrency}

Reviewing == {t \in Tasks : dag[t] = "reviewing"}

\* The task is running, in memory and in the store, then its worker is spawned.
Starts(t) ==
  /\ on /\ Reviewing = {}
  /\ t \in Startable
  /\ dag' = [x \in Tasks |-> IF x = t THEN "running" ELSE Refreshed(x)]
  /\ stored' = [stored EXCEPT ![t] = "running"]
  /\ job' = [job EXCEPT ![t] = "begin"]
  /\ UNCHANGED <<deps, on, executions, treeVars, threadVars, turn, outcome>>

\* Nothing can be started: the next worker that returned is joined.
Joins(t) ==
  /\ on /\ Reviewing = {} /\ Startable = {}
  /\ job[t] \in {"done", "failed"}
  /\ LET status == IF job[t] = "done" THEN "reviewing" ELSE "failed"
     IN /\ <<dag[t], status>> \in CanTransition
        /\ dag' = [x \in Tasks |-> IF x = t THEN status ELSE Refreshed(x)]
        /\ stored' = [stored EXCEPT ![t] = status]
  /\ job' = [job EXCEPT ![t] = "none"]
  /\ UNCHANGED <<deps, on, executions, treeVars, threadVars, turn, outcome>>

Accepts(t) ==
  /\ on /\ t \in Reviewing
  /\ dag' = [dag EXCEPT ![t] = "completed"]
  /\ stored' = [stored EXCEPT ![t] = "completed"]
  /\ UNCHANGED <<deps, on, executions, job, treeVars, threadVars, turn, outcome>>

\* Nothing runs and nothing can: the statuses are stored one after the other, and a write
\* that fails or a stop of the hub leaves some of them as they were.
EndsPlan ==
  /\ on /\ Reviewing = {} /\ Startable = {} /\ Spawned = {}
  /\ dag' = [t \in Tasks |-> Refreshed(t)]
  /\ \E S \in SUBSET Tasks : stored' = [t \in Tasks |-> IF t \in S THEN Refreshed(t) ELSE stored[t]]
  /\ on' = FALSE
  /\ UNCHANGED <<deps, executions, job, treeVars, threadVars, turn, outcome>>

\* A status cannot be stored, or the hub stops: the workers are dropped where they are,
\* and the turns go on, or end with the hub.
Breaks ==
  /\ on
  /\ on' = FALSE
  /\ job' = [t \in Tasks |-> "none"]
  /\ turn' \in {turn, [t \in Tasks |-> IF turn[t] = "active" THEN "failed" ELSE turn[t]]}
  /\ UNCHANGED <<deps, dag, stored, executions, treeVars, threadVars, outcome>>

-----------------------------------------------------------------------------
(* Workers::run_inner *)

Goes(t, at) == job' = [job EXCEPT ![t] = at]

\* A worktree of the store is taken up again with its thread; without one it is left
\* to the user.
Begins(t) ==
  /\ job[t] = "begin"
  /\ Goes(t, IF tree[t] # "kept" THEN "create" ELSE IF t \in bound THEN "resume" ELSE "failed")
  /\ UNCHANGED <<deps, dag, stored, on, executions, treeVars, threadVars, turn, outcome>>

\* GitWorktrees::create: a directory that is there already is left to the user.
CreatesTree(t) ==
  /\ job[t] = "create"
  /\ IF tree[t] = "none"
     THEN tree' = [tree EXCEPT ![t] = "made"] /\ Goes(t, "keep")
     ELSE Goes(t, "failed") /\ UNCHANGED tree
  /\ UNCHANGED <<holds, applied>>
  /\ UNCHANGED <<deps, dag, stored, on, executions, threadVars, turn, outcome>>

Keeps(t) ==
  /\ job[t] = "keep"
  /\ tree' = [tree EXCEPT ![t] = "kept"]
  /\ Goes(t, "patch")
  /\ UNCHANGED <<holds, applied>>
  /\ UNCHANGED <<deps, dag, stored, on, executions, threadVars, turn, outcome>>

\* apply_dependency_patch: the diff of a dependency holds what it was given itself. What
\* the worktree has already does not apply a second time.
Applies(t, d) == Done(d) /\ outcome[d] \cap holds[t] = {}

Patches(t) ==
  /\ job[t] = "patch"
  /\ \E d \in deps[t] \ applied[t] :
       IF Applies(t, d)
       THEN /\ holds' = [holds EXCEPT ![t] = @ \cup outcome[d]]
            /\ applied' = [applied EXCEPT ![t] = @ \cup {d}]
            /\ UNCHANGED job
       ELSE Goes(t, "failed") /\ UNCHANGED <<holds, applied>>
  /\ UNCHANGED tree
  /\ UNCHANGED <<deps, dag, stored, on, executions, threadVars, turn, outcome>>

\* Mutant: the thread is made as soon as the worktree is there.
PatchedAny(t) == TRUE

Patched(t) == deps[t] \subseteq applied[t]

\* The capsule is stored.
Prepares(t) ==
  /\ job[t] = "patch"
  /\ Patched(t)
  /\ Goes(t, "thread")
  /\ UNCHANGED <<deps, dag, stored, on, executions, treeVars, threadVars, turn, outcome>>

\* create_worker_with_options: Codex makes the thread, then it is stored and bound.
MakesThread(t) ==
  /\ job[t] = "thread"
  /\ made' = [made EXCEPT ![t] = @ + 1] /\ UNCHANGED bound
  /\ Goes(t, "bind")
  /\ UNCHANGED <<deps, dag, stored, on, executions, treeVars, turn, outcome>>

Binds(t) ==
  /\ job[t] = "bind"
  /\ bound' = bound \cup {t} /\ UNCHANGED made
  /\ Goes(t, "start")
  /\ UNCHANGED <<deps, dag, stored, on, executions, treeVars, turn, outcome>>

\* Sessions::resume: a turn that still runs is waited for.
Resumes(t) ==
  /\ job[t] = "resume"
  /\ Goes(t, IF turn[t] = "active" THEN "wait" ELSE "start")
  /\ UNCHANGED <<deps, dag, stored, on, executions, treeVars, threadVars, turn, outcome>>

StartsTask(t) ==
  /\ job[t] = "start"
  /\ turn' = [turn EXCEPT ![t] = "active"]
  /\ Goes(t, "wait")
  /\ UNCHANGED <<deps, dag, stored, on, executions, treeVars, threadVars, outcome>>

\* Codex: the work is in the worktree when the turn is completed.
TurnEnds(t) ==
  /\ turn[t] = "active"
  /\ \/ /\ turn' = [turn EXCEPT ![t] = "completed"]
        /\ holds' = [holds EXCEPT ![t] = @ \cup {t}]
     \/ turn' = [turn EXCEPT ![t] = "failed"] /\ UNCHANGED holds
  /\ UNCHANGED <<tree, applied>>
  /\ UNCHANGED <<deps, dag, stored, on, executions, job, threadVars, outcome>>

HearsEnd(t) ==
  /\ job[t] = "wait" /\ turn[t] # "active"
  /\ Goes(t, IF turn[t] = "completed" THEN "diff" ELSE "failed")
  /\ UNCHANGED <<deps, dag, stored, on, executions, treeVars, threadVars, turn, outcome>>

\* Ten minutes are over, or events were missed: the turn is asked to end, and may not.
GivesUp(t) ==
  /\ job[t] = "wait"
  /\ turn' \in {turn, [turn EXCEPT ![t] = IF @ = "active" THEN "failed" ELSE @]}
  /\ Goes(t, "failed")
  /\ UNCHANGED <<deps, dag, stored, on, executions, treeVars, threadVars, outcome>>

\* The outcome is stored; what comes after it, the memory, may still fail the worker.
SavesOutcome(t) ==
  /\ job[t] = "diff"
  /\ outcome' = [outcome EXCEPT ![t] = holds[t]]
  /\ \E at \in {"done", "failed"} : Goes(t, at)
  /\ UNCHANGED <<deps, dag, stored, on, executions, treeVars, threadVars, turn>>

\* Git, the store, the provider or a limit fails a step.
FailsJob(t) ==
  /\ job[t] \in {"begin", "create", "keep", "patch", "thread", "bind", "resume", "start", "diff"}
  /\ Goes(t, "failed")
  /\ UNCHANGED <<deps, dag, stored, on, executions, treeVars, threadVars, turn, outcome>>

PlanNext ==
  \/ ExecutesPlan \/ Recovers \/ EndsPlan \/ Breaks
  \/ \E t \in Tasks :
       \/ Starts(t) \/ Joins(t) \/ Accepts(t)
       \/ Begins(t) \/ CreatesTree(t) \/ Keeps(t) \/ Patches(t) \/ Prepares(t) \/ MakesThread(t) \/ Binds(t)
       \/ Resumes(t) \/ StartsTask(t) \/ TurnEnds(t) \/ HearsEnd(t) \/ GivesUp(t) \/ SavesOutcome(t) \/ FailsJob(t)

-----------------------------------------------------------------------------
(* Properties *)

\* The turn of a task starts on the results of all its dependencies, in whatever
\* execution they were completed: their outcomes are saved, and its worktree holds the
\* work of every task that it waits for, directly or not.
DependenciesComeFirst ==
  \A t \in Tasks : turn[t] # "none" =>
    \A d \in deps[t] : Done(d) /\ outcome[d] \subseteq holds[t] /\ deps[d] \subseteq outcome[d]

\* A task has one thread and one worktree, whatever was cut off, and a task that has its
\* outcome is left alone: no worker, no turn.
OneWorkerPerTask ==
  \A t \in Tasks :
    /\ made[t] <= 1
    /\ Done(t) => turn[t] = "completed" /\ job[t] \in {"none", "done", "failed"}

\* An execution can always be recovered from: what the rows call completed has its
\* outcome, whatever was cut off between the two.
RowsAreRecoverable == Recoverable
=============================================================================
