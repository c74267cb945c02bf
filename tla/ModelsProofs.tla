---------------------------- MODULE ModelsProofs ----------------------------
(* Theorems about Models, for any profiles, routes, threads, approvals, users, *)
(* replies, answers, plans, tasks, budgets, files, folders and bounds: each    *)
(* part keeps its own invariant while it runs, and one that does not run stays *)
(* as it began. The invariant of the answers is that of ProviderStreamsProofs. *)
EXTENDS Models, ProviderStreamsProofs, TLAPS, FiniteSetTheorems, SequenceTheorems

-----------------------------------------------------------------------------
(* The workers of a plan *)

Points ==
  {"none", "begin", "create", "keep", "patch", "thread", "bind", "resume", "start", "wait",
   "diff", "done", "failed"}

PlanTyped ==
  /\ deps \in [Tasks -> SUBSET Tasks]
  /\ dag \in [Tasks -> Statuses] /\ stored \in [Tasks -> Statuses]
  /\ on \in BOOLEAN /\ executions \in Nat
  /\ job \in [Tasks -> Points]
  /\ tree \in [Tasks -> {"none", "made", "kept"}]
  /\ holds \in [Tasks -> SUBSET Tasks] /\ applied \in [Tasks -> SUBSET Tasks]
  /\ made \in [Tasks -> Nat] /\ bound \in SUBSET Tasks
  /\ turn \in [Tasks -> {"none", "active", "completed", "failed"}]
  /\ outcome \in [Tasks -> SUBSET Tasks]

(* A worker is one of a running task, and makes its thread in a worktree of    *)
(* its own, before it has one.                                                 *)
WorkerOf(t) ==
  /\ job[t] # "none" => on /\ dag[t] = "running"
  /\ job[t] \in {"create", "keep", "patch", "thread"} => made[t] = 0
  /\ job[t] \in {"patch", "thread"} => tree[t] = "kept"
  /\ made[t] > 0 => tree[t] = "kept"
  /\ made[t] <= 1
  /\ turn[t] = "completed" => t \in holds[t]
  /\ job[t] = "diff" => turn[t] = "completed"
  /\ job[t] = "done" => Done(t)

(* A task with its outcome is over for the scheduler, the rows and the worker. *)
OverOf(t) ==
  /\ Done(t) => executions > 0 /\ turn[t] = "completed" /\ job[t] \in {"none", "done", "failed"}
  /\ Done(t) /\ on => dag[t] \in {"running", "reviewing", "completed", "failed"}
  /\ dag[t] \in {"reviewing", "completed"} => Done(t)
  /\ stored[t] = "completed" => Done(t)

(* From its thread on, a task has in its worktree what it depends on.          *)
Given(t) == \A d \in deps[t] : Done(d) /\ outcome[d] \subseteq holds[t]

BaseOf(t) ==
  /\ Done(t) => deps[t] \subseteq outcome[t]
  /\ \A d \in applied[t] : Done(d) /\ outcome[d] \subseteq holds[t]
  /\ \/ job[t] \in {"thread", "bind", "resume", "start", "wait", "diff"}
     \/ t \in bound
     \/ turn[t] # "none"
     => Given(t)

PlanInv ==
  /\ PlanTyped
  /\ on => executions > 0
  /\ \A t \in Tasks : WorkerOf(t) /\ OverOf(t) /\ BaseOf(t)

LEMMA PlanTypedStep ==
  ASSUME PlanInv, [PlanNext]_planVars
  PROVE  PlanTyped' /\ (on => executions > 0)'
<1> USE DEF PlanInv, PlanTyped, Points, Statuses, treeVars, threadVars
<1>1. ASSUME ExecutesPlan PROVE PlanTyped' /\ (on => executions > 0)'
  BY <1>1 DEF ExecutesPlan
<1>2. ASSUME Recovers PROVE PlanTyped' /\ (on => executions > 0)'
  BY <1>2 DEF Recovers, Recovered, Recoverable
<1>3. ASSUME EndsPlan PROVE PlanTyped' /\ (on => executions > 0)'
  <2>1. dag' \in [Tasks -> Statuses]
    BY <1>3 DEF EndsPlan, Refreshed
  <2>2. \A t \in Tasks : Refreshed(t) \in Statuses
    BY DEF Refreshed
  <2>3. stored' \in [Tasks -> Statuses]
    BY <1>3, <2>2 DEF EndsPlan
  <2> QED
    BY <1>3, <2>1, <2>3 DEF EndsPlan, Spawned
<1>4. ASSUME Breaks PROVE PlanTyped' /\ (on => executions > 0)'
  BY <1>4 DEF Breaks
<1>5. ASSUME NEW t \in Tasks, Starts(t) PROVE PlanTyped' /\ (on => executions > 0)'
  BY <1>5 DEF Starts, Refreshed, Startable
<1>6. ASSUME NEW t \in Tasks, Joins(t) PROVE PlanTyped' /\ (on => executions > 0)'
  BY <1>6 DEF Joins, Refreshed
<1>7. ASSUME NEW t \in Tasks, Accepts(t) PROVE PlanTyped' /\ (on => executions > 0)'
  BY <1>7 DEF Accepts, Reviewing
<1>8. ASSUME NEW t \in Tasks, Begins(t) PROVE PlanTyped' /\ (on => executions > 0)'
  BY <1>8 DEF Begins, Goes
<1>9. ASSUME NEW t \in Tasks, CreatesTree(t) PROVE PlanTyped' /\ (on => executions > 0)'
  BY <1>9 DEF CreatesTree, Goes
<1>10. ASSUME NEW t \in Tasks, Keeps(t) PROVE PlanTyped' /\ (on => executions > 0)'
  BY <1>10 DEF Keeps, Goes
<1>11. ASSUME NEW t \in Tasks, Patches(t) PROVE PlanTyped' /\ (on => executions > 0)'
  BY <1>11 DEF Patches, Applies, Goes
<1>12. ASSUME NEW t \in Tasks, Prepares(t) PROVE PlanTyped' /\ (on => executions > 0)'
  BY <1>12 DEF Prepares, Patched, Goes
<1>13. ASSUME NEW t \in Tasks, MakesThread(t) PROVE PlanTyped' /\ (on => executions > 0)'
  BY <1>13 DEF MakesThread, Goes
<1>14. ASSUME NEW t \in Tasks, Binds(t) PROVE PlanTyped' /\ (on => executions > 0)'
  BY <1>14 DEF Binds, Goes
<1>15. ASSUME NEW t \in Tasks, Resumes(t) PROVE PlanTyped' /\ (on => executions > 0)'
  BY <1>15 DEF Resumes, Goes
<1>16. ASSUME NEW t \in Tasks, StartsTask(t) PROVE PlanTyped' /\ (on => executions > 0)'
  BY <1>16 DEF StartsTask, Goes
<1>17. ASSUME NEW t \in Tasks, TurnEnds(t) PROVE PlanTyped' /\ (on => executions > 0)'
  BY <1>17 DEF TurnEnds
<1>18. ASSUME NEW t \in Tasks, HearsEnd(t) PROVE PlanTyped' /\ (on => executions > 0)'
  BY <1>18 DEF HearsEnd, Goes
<1>19. ASSUME NEW t \in Tasks, GivesUp(t) PROVE PlanTyped' /\ (on => executions > 0)'
  BY <1>19 DEF GivesUp, Goes
<1>20. ASSUME NEW t \in Tasks, SavesOutcome(t) PROVE PlanTyped' /\ (on => executions > 0)'
  BY <1>20 DEF SavesOutcome, Goes
<1>21. ASSUME NEW t \in Tasks, FailsJob(t) PROVE PlanTyped' /\ (on => executions > 0)'
  BY <1>21 DEF FailsJob, Goes
<1>22. CASE UNCHANGED planVars
  BY <1>22 DEF planVars
<1> QED
  BY <1>1, <1>2, <1>3, <1>4, <1>5, <1>6, <1>7, <1>8, <1>9, <1>10, <1>11,
     <1>12, <1>13, <1>14, <1>15, <1>16, <1>17, <1>18, <1>19, <1>20, <1>21, <1>22
  DEF PlanNext

LEMMA WorkersStep ==
  ASSUME PlanInv, [PlanNext]_planVars
  PROVE  \A x \in Tasks : WorkerOf(x)'
<1> USE DEF PlanInv, PlanTyped, WorkerOf, OverOf, Done, treeVars, threadVars
<1>1. ASSUME ExecutesPlan PROVE \A x \in Tasks : WorkerOf(x)'
  BY <1>1 DEF ExecutesPlan
<1>2. ASSUME Recovers PROVE \A x \in Tasks : WorkerOf(x)'
  BY <1>2 DEF Recovers, Recovered, Recoverable
<1>3. ASSUME EndsPlan PROVE \A x \in Tasks : WorkerOf(x)'
  BY <1>3 DEF EndsPlan, Refreshed, Spawned
<1>4. ASSUME Breaks PROVE \A x \in Tasks : WorkerOf(x)'
  BY <1>4 DEF Breaks
<1>5. ASSUME NEW t \in Tasks, Starts(t) PROVE \A x \in Tasks : WorkerOf(x)'
  BY <1>5 DEF Starts, Refreshed, Startable
<1>6. ASSUME NEW t \in Tasks, Joins(t) PROVE \A x \in Tasks : WorkerOf(x)'
  BY <1>6 DEF Joins, Refreshed
<1>7. ASSUME NEW t \in Tasks, Accepts(t) PROVE \A x \in Tasks : WorkerOf(x)'
  BY <1>7 DEF Accepts, Reviewing
<1>8. ASSUME NEW t \in Tasks, Begins(t) PROVE \A x \in Tasks : WorkerOf(x)'
  BY <1>8 DEF Begins, Goes
<1>9. ASSUME NEW t \in Tasks, CreatesTree(t) PROVE \A x \in Tasks : WorkerOf(x)'
  BY <1>9 DEF CreatesTree, Goes
<1>10. ASSUME NEW t \in Tasks, Keeps(t) PROVE \A x \in Tasks : WorkerOf(x)'
  BY <1>10 DEF Keeps, Goes
<1>11. ASSUME NEW t \in Tasks, Patches(t) PROVE \A x \in Tasks : WorkerOf(x)'
  BY <1>11 DEF Patches, Applies, Goes
<1>12. ASSUME NEW t \in Tasks, Prepares(t) PROVE \A x \in Tasks : WorkerOf(x)'
  BY <1>12 DEF Prepares, Patched, Goes
<1>13. ASSUME NEW t \in Tasks, MakesThread(t) PROVE \A x \in Tasks : WorkerOf(x)'
  BY <1>13 DEF MakesThread, Goes
<1>14. ASSUME NEW t \in Tasks, Binds(t) PROVE \A x \in Tasks : WorkerOf(x)'
  BY <1>14 DEF Binds, Goes
<1>15. ASSUME NEW t \in Tasks, Resumes(t) PROVE \A x \in Tasks : WorkerOf(x)'
  BY <1>15 DEF Resumes, Goes
<1>16. ASSUME NEW t \in Tasks, StartsTask(t) PROVE \A x \in Tasks : WorkerOf(x)'
  BY <1>16 DEF StartsTask, Goes
<1>17. ASSUME NEW t \in Tasks, TurnEnds(t) PROVE \A x \in Tasks : WorkerOf(x)'
  BY <1>17 DEF TurnEnds
<1>18. ASSUME NEW t \in Tasks, HearsEnd(t) PROVE \A x \in Tasks : WorkerOf(x)'
  BY <1>18 DEF HearsEnd, Goes
<1>19. ASSUME NEW t \in Tasks, GivesUp(t) PROVE \A x \in Tasks : WorkerOf(x)'
  BY <1>19 DEF GivesUp, Goes
<1>20. ASSUME NEW t \in Tasks, SavesOutcome(t) PROVE \A x \in Tasks : WorkerOf(x)'
  BY <1>20 DEF SavesOutcome, Goes
<1>21. ASSUME NEW t \in Tasks, FailsJob(t) PROVE \A x \in Tasks : WorkerOf(x)'
  BY <1>21 DEF FailsJob, Goes
<1>22. CASE UNCHANGED planVars
  BY <1>22 DEF planVars
<1> QED
  BY <1>1, <1>2, <1>3, <1>4, <1>5, <1>6, <1>7, <1>8, <1>9, <1>10, <1>11,
     <1>12, <1>13, <1>14, <1>15, <1>16, <1>17, <1>18, <1>19, <1>20, <1>21, <1>22
  DEF PlanNext

LEMMA OverStep ==
  ASSUME PlanInv, [PlanNext]_planVars
  PROVE  \A x \in Tasks : OverOf(x)'
<1> USE DEF PlanInv, PlanTyped, WorkerOf, OverOf, Done, treeVars, threadVars
<1>1. ASSUME ExecutesPlan PROVE \A x \in Tasks : OverOf(x)'
  BY <1>1 DEF ExecutesPlan
<1>2. ASSUME Recovers PROVE \A x \in Tasks : OverOf(x)'
  BY <1>2 DEF Recovers, Recovered, Recoverable
<1>3. ASSUME EndsPlan PROVE \A x \in Tasks : OverOf(x)'
  BY <1>3 DEF EndsPlan, Refreshed, Spawned
<1>4. ASSUME Breaks PROVE \A x \in Tasks : OverOf(x)'
  BY <1>4 DEF Breaks
<1>5. ASSUME NEW t \in Tasks, Starts(t) PROVE \A x \in Tasks : OverOf(x)'
  BY <1>5 DEF Starts, Refreshed, Startable
<1>6. ASSUME NEW t \in Tasks, Joins(t) PROVE \A x \in Tasks : OverOf(x)'
  BY <1>6 DEF Joins, Refreshed
<1>7. ASSUME NEW t \in Tasks, Accepts(t) PROVE \A x \in Tasks : OverOf(x)'
  BY <1>7 DEF Accepts, Reviewing
<1>8. ASSUME NEW t \in Tasks, Begins(t) PROVE \A x \in Tasks : OverOf(x)'
  BY <1>8 DEF Begins, Goes
<1>9. ASSUME NEW t \in Tasks, CreatesTree(t) PROVE \A x \in Tasks : OverOf(x)'
  BY <1>9 DEF CreatesTree, Goes
<1>10. ASSUME NEW t \in Tasks, Keeps(t) PROVE \A x \in Tasks : OverOf(x)'
  BY <1>10 DEF Keeps, Goes
<1>11. ASSUME NEW t \in Tasks, Patches(t) PROVE \A x \in Tasks : OverOf(x)'
  BY <1>11 DEF Patches, Applies, Goes
<1>12. ASSUME NEW t \in Tasks, Prepares(t) PROVE \A x \in Tasks : OverOf(x)'
  BY <1>12 DEF Prepares, Patched, Goes
<1>13. ASSUME NEW t \in Tasks, MakesThread(t) PROVE \A x \in Tasks : OverOf(x)'
  BY <1>13 DEF MakesThread, Goes
<1>14. ASSUME NEW t \in Tasks, Binds(t) PROVE \A x \in Tasks : OverOf(x)'
  BY <1>14 DEF Binds, Goes
<1>15. ASSUME NEW t \in Tasks, Resumes(t) PROVE \A x \in Tasks : OverOf(x)'
  BY <1>15 DEF Resumes, Goes
<1>16. ASSUME NEW t \in Tasks, StartsTask(t) PROVE \A x \in Tasks : OverOf(x)'
  BY <1>16 DEF StartsTask, Goes
<1>17. ASSUME NEW t \in Tasks, TurnEnds(t) PROVE \A x \in Tasks : OverOf(x)'
  BY <1>17 DEF TurnEnds
<1>18. ASSUME NEW t \in Tasks, HearsEnd(t) PROVE \A x \in Tasks : OverOf(x)'
  BY <1>18 DEF HearsEnd, Goes
<1>19. ASSUME NEW t \in Tasks, GivesUp(t) PROVE \A x \in Tasks : OverOf(x)'
  BY <1>19 DEF GivesUp, Goes
<1>20. ASSUME NEW t \in Tasks, SavesOutcome(t) PROVE \A x \in Tasks : OverOf(x)'
  BY <1>20 DEF SavesOutcome, Goes
<1>21. ASSUME NEW t \in Tasks, FailsJob(t) PROVE \A x \in Tasks : OverOf(x)'
  BY <1>21 DEF FailsJob, Goes
<1>22. CASE UNCHANGED planVars
  BY <1>22 DEF planVars
<1> QED
  BY <1>1, <1>2, <1>3, <1>4, <1>5, <1>6, <1>7, <1>8, <1>9, <1>10, <1>11,
     <1>12, <1>13, <1>14, <1>15, <1>16, <1>17, <1>18, <1>19, <1>20, <1>21, <1>22
  DEF PlanNext

LEMMA BaseStep ==
  ASSUME PlanInv, [PlanNext]_planVars
  PROVE  \A x \in Tasks : BaseOf(x)'
<1> USE DEF PlanInv, PlanTyped, WorkerOf, OverOf, BaseOf, Given, Done, treeVars, threadVars
<1>1. ASSUME ExecutesPlan PROVE \A x \in Tasks : BaseOf(x)'
  BY <1>1 DEF ExecutesPlan
<1>2. ASSUME Recovers PROVE \A x \in Tasks : BaseOf(x)'
  BY <1>2 DEF Recovers, Recovered, Recoverable
<1>3. ASSUME EndsPlan PROVE \A x \in Tasks : BaseOf(x)'
  BY <1>3 DEF EndsPlan, Refreshed, Spawned
<1>4. ASSUME Breaks PROVE \A x \in Tasks : BaseOf(x)'
  BY <1>4 DEF Breaks
<1>5. ASSUME NEW t \in Tasks, Starts(t) PROVE \A x \in Tasks : BaseOf(x)'
  BY <1>5 DEF Starts, Refreshed, Startable
<1>6. ASSUME NEW t \in Tasks, Joins(t) PROVE \A x \in Tasks : BaseOf(x)'
  BY <1>6 DEF Joins, Refreshed
<1>7. ASSUME NEW t \in Tasks, Accepts(t) PROVE \A x \in Tasks : BaseOf(x)'
  BY <1>7 DEF Accepts, Reviewing
<1>8. ASSUME NEW t \in Tasks, Begins(t) PROVE \A x \in Tasks : BaseOf(x)'
  BY <1>8 DEF Begins, Goes
<1>9. ASSUME NEW t \in Tasks, CreatesTree(t) PROVE \A x \in Tasks : BaseOf(x)'
  BY <1>9 DEF CreatesTree, Goes
<1>10. ASSUME NEW t \in Tasks, Keeps(t) PROVE \A x \in Tasks : BaseOf(x)'
  BY <1>10 DEF Keeps, Goes
<1>11. ASSUME NEW t \in Tasks, Patches(t) PROVE \A x \in Tasks : BaseOf(x)'
  BY <1>11 DEF Patches, Applies, Goes
<1>12. ASSUME NEW t \in Tasks, Prepares(t) PROVE \A x \in Tasks : BaseOf(x)'
  BY <1>12 DEF Prepares, Patched, Goes
<1>13. ASSUME NEW t \in Tasks, MakesThread(t) PROVE \A x \in Tasks : BaseOf(x)'
  BY <1>13 DEF MakesThread, Goes
<1>14. ASSUME NEW t \in Tasks, Binds(t) PROVE \A x \in Tasks : BaseOf(x)'
  BY <1>14 DEF Binds, Goes
<1>15. ASSUME NEW t \in Tasks, Resumes(t) PROVE \A x \in Tasks : BaseOf(x)'
  BY <1>15 DEF Resumes, Goes
<1>16. ASSUME NEW t \in Tasks, StartsTask(t) PROVE \A x \in Tasks : BaseOf(x)'
  BY <1>16 DEF StartsTask, Goes
<1>17. ASSUME NEW t \in Tasks, TurnEnds(t) PROVE \A x \in Tasks : BaseOf(x)'
  BY <1>17 DEF TurnEnds
<1>18. ASSUME NEW t \in Tasks, HearsEnd(t) PROVE \A x \in Tasks : BaseOf(x)'
  BY <1>18 DEF HearsEnd, Goes
<1>19. ASSUME NEW t \in Tasks, GivesUp(t) PROVE \A x \in Tasks : BaseOf(x)'
  BY <1>19 DEF GivesUp, Goes
<1>20. ASSUME NEW t \in Tasks, SavesOutcome(t) PROVE \A x \in Tasks : BaseOf(x)'
  BY <1>20 DEF SavesOutcome, Goes
<1>21. ASSUME NEW t \in Tasks, FailsJob(t) PROVE \A x \in Tasks : BaseOf(x)'
  BY <1>21 DEF FailsJob, Goes
<1>22. CASE UNCHANGED planVars
  BY <1>22 DEF planVars
<1> QED
  BY <1>1, <1>2, <1>3, <1>4, <1>5, <1>6, <1>7, <1>8, <1>9, <1>10, <1>11,
     <1>12, <1>13, <1>14, <1>15, <1>16, <1>17, <1>18, <1>19, <1>20, <1>21, <1>22
  DEF PlanNext

LEMMA PlanStarts ==
  ASSUME PlanInit
  PROVE  PlanInv
<1>1. deps \in [Tasks -> SUBSET Tasks]
  BY PlansAssumption DEF PlanInit
<1>2. PlanTyped /\ on = FALSE
  BY <1>1 DEF PlanInit, PlanTyped, Statuses, Points
<1>3. \A t \in Tasks : /\ dag[t] = "pending" /\ stored[t] = "pending" /\ job[t] = "none" /\ turn[t] = "none"
                       /\ made[t] = 0 /\ applied[t] = {} /\ outcome[t] = {}
  BY DEF PlanInit
<1>4. bound = {}
  BY DEF PlanInit
<1> QED
  BY <1>2, <1>3, <1>4 DEF PlanInv, WorkerOf, OverOf, BaseOf, Done

LEMMA PlanKeeps ==
  ASSUME PlanInv, [PlanNext]_planVars
  PROVE  PlanInv'
  BY PlanTypedStep, WorkersStep, OverStep, BaseStep DEF PlanInv

LEMMA PlanIsExact ==
  ASSUME PlanInv
  PROVE  DependenciesComeFirst /\ OneWorkerPerTask /\ RowsAreRecoverable
<1> USE DEF PlanInv, PlanTyped
<1>1. DependenciesComeFirst
  BY DEF DependenciesComeFirst, BaseOf, Given
<1>2. OneWorkerPerTask
  BY DEF OneWorkerPerTask, WorkerOf, OverOf
<1>3. RowsAreRecoverable
  BY DEF RowsAreRecoverable, Recoverable, OverOf
<1> QED
  BY <1>1, <1>2, <1>3

-----------------------------------------------------------------------------
(* The budget of a task *)

(* What is asked for before there is a capsule is nothing, so that the initial *)
(* context is taken from the whole budget.                                     *)
BrokerInv ==
  /\ capsule \in Nat /\ spent \in Nat /\ MaxTotal \in Nat
  /\ lookup \in [Lookups -> [at : {"idle", "source", "finish", "denied"}, budget : Nat]]
  /\ capsule = 0 => spent = 0 /\ \A c \in Lookups : lookup[c].at = "idle"
  /\ BudgetIsKept

LEMMA BrokerStarts ==
  ASSUME BrokerInit
  PROVE  BrokerInv
  BY BudgetAssumption DEF BrokerInit, BrokerInv, BudgetIsKept, NoLookup

LEMMA NothingSpent ==
  ASSUME NEW n \in Nat, NEW total \in Nat, n <= total
  PROVE  n + 0 <= total
  OBVIOUS

LEMMA BrokerKeeps ==
  ASSUME BrokerInv, [BrokerNext]_brokerVars
  PROVE  BrokerInv'
<1> USE DEF BrokerInv, BudgetIsKept
<1>1. ASSUME BuildsInitial PROVE BrokerInv'
  <2>1. spent = 0 /\ \A c \in Lookups : lookup[c].at = "idle"
    BY <1>1 DEF BuildsInitial
  <2>2. capsule' \in 1..MaxTotal /\ UNCHANGED <<lookup, spent>>
    BY <1>1 DEF BuildsInitial
  <2>3. capsule' \in Nat /\ capsule' <= MaxTotal /\ spent' = 0
    BY <2>1, <2>2
  <2>4. capsule' + spent' <= MaxTotal
    BY NothingSpent, <2>3, MaxTotal \in Nat, Zenon
  <2> QED
    BY <2>1, <2>2, <2>3, <2>4
<1>2. ASSUME BrokerStops PROVE BrokerInv'
  BY <1>2 DEF BrokerStops, NoLookup
<1>3. ASSUME NEW c \in Lookups, Retrieves(c) PROVE BrokerInv'
  <2>1. MaxSingle \in Nat
    BY BudgetAssumption
  <2>2. PICK at \in {"source", "denied"}, budget \in Nat :
          lookup' = [lookup EXCEPT ![c] = [at |-> at, budget |-> budget]]
    <3>1. PICK budget \in 1..(MaxSingle + 1) :
            lookup' = [lookup EXCEPT ![c] =
                         [at |-> IF Fits(budget) THEN "source" ELSE "denied", budget |-> budget]]
      BY <1>3 DEF Retrieves
    <3>2. budget \in Nat
      BY <2>1
    <3> QED
      BY <3>1, <3>2
  <2>3. capsule # 0 /\ UNCHANGED <<capsule, spent>>
    BY <1>3 DEF Retrieves
  <2> QED
    BY <2>2, <2>3
<1>4. ASSUME NEW c \in Lookups, Finds(c) PROVE BrokerInv'
  <2>1. PICK at \in {"finish", "denied"} : lookup' = [lookup EXCEPT ![c].at = at]
    BY <1>4 DEF Finds
  <2>2. [lookup[c] EXCEPT !.at = at] \in [at : {"idle", "source", "finish", "denied"}, budget : Nat]
    OBVIOUS
  <2>3. capsule # 0 /\ UNCHANGED <<capsule, spent>>
    BY <1>4 DEF Finds
  <2> QED
    BY <2>1, <2>2, <2>3
<1>5. ASSUME NEW c \in Lookups, CommitsLookup(c) PROVE BrokerInv'
  <2>1. capsule # 0 /\ capsule' = capsule
    BY <1>5 DEF CommitsLookup
  <2>2. PICK estimate \in 1..lookup[c].budget :
          \/ /\ capsule + spent + estimate <= MaxTotal /\ spent' = spent + estimate
             /\ lookup' = [lookup EXCEPT ![c] = NoLookup]
          \/ spent' = spent /\ lookup' = [lookup EXCEPT ![c].at = "denied"]
    BY <1>5 DEF CommitsLookup, Commits, Estimates
  <2>3. estimate \in Nat
    BY <2>2
  <2>4. NoLookup \in [at : {"idle", "source", "finish", "denied"}, budget : Nat]
    BY DEF NoLookup
  <2>5. [lookup[c] EXCEPT !.at = "denied"] \in [at : {"idle", "source", "finish", "denied"}, budget : Nat]
    OBVIOUS
  <2>6. lookup' \in [Lookups -> [at : {"idle", "source", "finish", "denied"}, budget : Nat]]
    BY <2>2, <2>4, <2>5
  <2>7. spent' \in Nat /\ capsule' + spent' <= MaxTotal
    BY <2>1, <2>2, <2>3
  <2> QED
    BY <2>1, <2>6, <2>7
<1>6. ASSUME NEW c \in Lookups, Denies(c) PROVE BrokerInv'
  BY <1>6 DEF Denies, NoLookup
<1>7. CASE UNCHANGED brokerVars
  BY <1>7 DEF brokerVars
<1> QED
  BY <1>1, <1>2, <1>3, <1>4, <1>5, <1>6, <1>7 DEF BrokerNext

-----------------------------------------------------------------------------
(* The edit of a local worker *)

EditTyped ==
  /\ file \in [Paths -> {"before", "after", "other"}]
  /\ foreign \in SUBSET Paths
  /\ point \in {"generate", "prepare", "check", "write", "rename", "verify", "include", "rollback",
                "restore", "done", "refused", "failed"}
  /\ edits \in SUBSET Paths
  /\ written \in SUBSET edits
  /\ now \in Paths
  /\ rollbackFailed \in BOOLEAN

(* The file that a step is about, which may hold the edit although it is not   *)
(* listed as written.                                                          *)
AtWork(p) == point \in {"verify", "include", "restore"} /\ p = now

(* A file holds the edit only if it is to be put back, or cannot be; before    *)
(* the first write none does.                                                  *)
EditOf(p) ==
  /\ point \in {"generate", "prepare", "check", "refused"} => file[p] # "after"
  /\ file[p] = "after" => p \in written \cup unread \/ AtWork(p) \/ rollbackFailed
  /\ p \in written /\ point \in {"write", "rename", "verify", "done"} => file[p] = "after" \/ p \in foreign

EditInv ==
  /\ EditTyped
  /\ point \in {"rename", "verify"} => now \in edits
  /\ point = "include" => now \in edits
  /\ point \in {"generate", "prepare", "check", "refused", "failed"} => written = {}
  /\ point = "done" => written = edits
  /\ \A p \in Paths : EditOf(p)

LEMMA EditStarts ==
  ASSUME EditInit
  PROVE  EditInv
  BY PathsAssumption DEF EditInit, EditInv, EditTyped, EditOf, AtWork

LEMMA EditKeeps ==
  ASSUME EditInv, [EditNext]_editVars
  PROVE  EditInv'
<1> USE DEF EditInv, EditTyped, EditOf, AtWork
<1>1. ASSUME Proposes PROVE EditInv'
  BY <1>1 DEF Proposes
<1>2. ASSUME HasChecked PROVE EditInv'
  BY <1>2 DEF HasChecked
<1>3. ASSUME Renames PROVE EditInv'
  BY <1>3 DEF Renames, Replaces
<1>4. ASSUME Verifies PROVE EditInv'
  <2>1. UNCHANGED <<file, foreign, edits, now, unread, rollbackFailed>> /\ point = "verify"
    BY <1>4 DEF Verifies
  <2>2. CASE point' = "include" /\ written' = written
    BY <2>1, <2>2
  <2>3. CASE /\ file[now] = "after" /\ written' = written \cup {now}
             /\ point' = IF written' = edits THEN "done" ELSE "write"
    <3>1. point' \in {"done", "write"} /\ (point' = "done" => written' = edits)
      BY <2>3
    <3>2. written' \in SUBSET edits
      BY <2>1, <2>3
    <3>3. \A p \in Paths : EditOf(p)'
      BY <2>1, <2>3, <3>1
    <3> QED
      BY <2>1, <3>1, <3>2, <3>3
  <2> QED
    BY <1>4, <2>2, <2>3 DEF Verifies
<1>5. ASSUME Includes PROVE EditInv'
  BY <1>5 DEF Includes, Included
<1>6. ASSUME Restores PROVE EditInv'
  BY <1>6 DEF Restores, Replaces
<1>7. ASSUME EndsRollback PROVE EditInv'
  BY <1>7 DEF EndsRollback
<1>8. ASSUME NEW p \in Paths, Checks(p) PROVE EditInv'
  BY <1>8 DEF Checks
<1>9. ASSUME NEW p \in Paths, OpensTemp(p) PROVE EditInv'
  BY <1>9 DEF OpensTemp
<1>10. ASSUME NEW p \in Paths, RollsBack(p) PROVE EditInv'
  <2>1. UNCHANGED <<file, foreign, edits, unread>> /\ point = "rollback" /\ written' = written \ {p}
    BY <1>10 DEF RollsBack
  <2>2. CASE file[p] = "after" /\ now' = p /\ point' = "restore" /\ rollbackFailed' = rollbackFailed
    BY <2>1, <2>2
  <2>3. CASE rollbackFailed' = TRUE /\ now' = now /\ point' = point
    BY <2>1, <2>3
  <2> QED
    BY <1>10, <2>2, <2>3 DEF RollsBack
<1>11. ASSUME NEW p \in Paths, ForeignWrites(p) PROVE EditInv'
  BY <1>11 DEF ForeignWrites
<1>12. CASE UNCHANGED editVars
  BY <1>12 DEF editVars
<1> QED
  BY <1>1, <1>2, <1>3, <1>4, <1>5, <1>6, <1>7, <1>8, <1>9, <1>10, <1>11, <1>12 DEF EditNext

LEMMA EditIsWhole ==
  ASSUME EditInv
  PROVE  EditsAreWhole
  BY DEF EditInv, EditTyped, EditOf, AtWork, EditsAreWhole

-----------------------------------------------------------------------------
(* ProviderProfiles: what a command or the registry holds is in the store.     *)

\* Revision n of a profile was saved with this `enabled'.
WasSaved(store, id, n, enabled) == n \in 1..Len(store[id]) /\ store[id][n] = enabled

EditRecords == [at : {"idle", "open", "checking", "checked", "stored"},
                id : Profiles, revision : Nat, on : BOOLEAN]

JobRecords == [at : {"idle", "asking", "listed", "eligible", "running"}, id : Profiles,
               revision : Nat, link : Nat, model : Models]

ProfilesInv ==
  /\ saved \in [Profiles -> Seq(BOOLEAN)]
  /\ registry \in [Profiles -> [revision : Nat, on : BOOLEAN]]
  /\ link \in [Profiles -> Nat]
  /\ editor \in [Editors -> EditRecords]
  /\ worker \in [Jobs -> JobRecords]
  /\ \A e \in Editors : editor[e].at = "stored" => WasSaved(saved, editor[e].id, editor[e].revision, editor[e].on)
  /\ \A id \in Profiles :
       /\ registry[id].revision > 0 => WasSaved(saved, id, registry[id].revision, registry[id].on)
       /\ link[id] # 0 => registry[id] = [revision |-> link[id], on |-> TRUE]
  /\ \A w \in Jobs : worker[w].at = "running" => WasSaved(saved, worker[w].id, worker[w].link, TRUE)

LEMMA Idles ==
  /\ NoEdit \in EditRecords /\ NoEdit.at = "idle"
  /\ NoProbe \in JobRecords /\ NoProbe.at = "idle"
  BY SparkAssumption, ModelsAssumption DEF NoEdit, NoProbe, EditRecords, JobRecords

LEMMA RowWasSaved ==
  ASSUME saved \in [Profiles -> Seq(BOOLEAN)], NEW id \in Profiles
  PROVE  /\ Row(id) \in [revision : Nat, on : BOOLEAN]
         /\ Row(id).revision > 0 => WasSaved(saved, id, Row(id).revision, Row(id).on)
         /\ Row(id).on => Row(id).revision > 0
  BY DEF Row, WasSaved

LEMMA ProfilesStart == ProfilesInit => ProfilesInv
<1> SUFFICES ASSUME ProfilesInit PROVE ProfilesInv
  OBVIOUS
<1>1. <<TRUE>> \in Seq(BOOLEAN) /\ <<>> \in Seq(BOOLEAN) /\ Len(<<TRUE>>) = 1 /\ <<TRUE>>[1] = TRUE
  OBVIOUS
<1>2. saved \in [Profiles -> Seq(BOOLEAN)] /\ \A id \in Profiles : id # Spark => saved[id] = <<>>
  BY <1>1 DEF ProfilesInit
<1>3. saved[Spark] = <<TRUE>>
  BY SparkAssumption DEF ProfilesInit
<1>4. Row(Spark) = [revision |-> 1, on |-> TRUE]
  BY <1>1, <1>3 DEF Row
<1>5. \A id \in Profiles : registry[id] = Row(id) /\ link[id] = IF id = Spark THEN 1 ELSE 0
  BY DEF ProfilesInit
<1>6. registry \in [Profiles -> [revision : Nat, on : BOOLEAN]]
  BY <1>2, RowWasSaved DEF ProfilesInit
<1>7. \A id \in Profiles :
        /\ registry[id].revision > 0 => WasSaved(saved, id, registry[id].revision, registry[id].on)
        /\ link[id] # 0 => registry[id] = [revision |-> link[id], on |-> TRUE]
  BY <1>2, <1>4, <1>5, RowWasSaved
<1>8. link \in [Profiles -> Nat] /\ editor \in [Editors -> EditRecords] /\ worker \in [Jobs -> JobRecords]
  BY Idles DEF ProfilesInit
<1>9. /\ \A e \in Editors : editor[e].at = "idle"
      /\ \A w \in Jobs : worker[w].at = "idle"
  BY Idles DEF ProfilesInit
<1> QED
  BY <1>2, <1>6, <1>7, <1>8, <1>9 DEF ProfilesInv

\* A profile gets its next revision; the earlier ones stay.
LEMMA Growing ==
  ASSUME saved \in [Profiles -> Seq(BOOLEAN)], NEW id \in Profiles, NEW enabled \in BOOLEAN,
         saved' = [saved EXCEPT ![id] = Append(@, enabled)]
  PROVE  /\ saved' \in [Profiles -> Seq(BOOLEAN)]
         /\ WasSaved(saved', id, Len(saved[id]) + 1, enabled)
         /\ \A other \in Profiles, n \in Nat, was \in BOOLEAN :
              WasSaved(saved, other, n, was) => WasSaved(saved', other, n, was)
<1>1. /\ Append(saved[id], enabled) \in Seq(BOOLEAN) /\ Len(Append(saved[id], enabled)) = Len(saved[id]) + 1
      /\ Append(saved[id], enabled)[Len(saved[id]) + 1] = enabled
      /\ \A n \in 1..Len(saved[id]) : Append(saved[id], enabled)[n] = saved[id][n]
  OBVIOUS
<1>2. saved' \in [Profiles -> Seq(BOOLEAN)] /\ saved'[id] = Append(saved[id], enabled)
  BY <1>1
<1>3. \A other \in Profiles \ {id} : saved'[other] = saved[other]
  OBVIOUS
<1>4. Len(saved[id]) \in Nat
  OBVIOUS
<1>5. WasSaved(saved', id, Len(saved[id]) + 1, enabled)
  BY <1>1, <1>2, <1>4 DEF WasSaved
<1>6. ASSUME NEW other \in Profiles, NEW n \in Nat, NEW was \in BOOLEAN, WasSaved(saved, other, n, was)
      PROVE  WasSaved(saved', other, n, was)
  BY <1>1, <1>2, <1>3, <1>4, <1>6 DEF WasSaved
<1> QED
  BY <1>2, <1>5, <1>6

LEMMA ProfilesKeep == ProfilesInv /\ [ProfilesNext]_profileVars => ProfilesInv'
<1> SUFFICES ASSUME ProfilesInv, [ProfilesNext]_profileVars PROVE ProfilesInv'
  OBVIOUS
<1> USE DEF ProfilesInv
\* The store and the registry are as they were.
<1>1. ASSUME NEW e \in Editors, NEW x \in EditRecords, x.at # "stored",
             editor' = [editor EXCEPT ![e] = x], UNCHANGED <<saved, registry, link, worker>>
      PROVE  ProfilesInv'
  BY <1>1 DEF WasSaved
<1>2. ASSUME NEW w \in Jobs, NEW x \in JobRecords, x.at = "running" => WasSaved(saved, x.id, x.link, TRUE),
             worker' = [worker EXCEPT ![w] = x], UNCHANGED <<saved, registry, link, editor>>
      PROVE  ProfilesInv'
  BY <1>2 DEF WasSaved
<1>3. ASSUME UNCHANGED <<saved, registry, link, editor, worker>> PROVE ProfilesInv'
  BY <1>3 DEF WasSaved
<1>4. ASSUME NEW e \in Editors, OpensForm(e) PROVE ProfilesInv'
  <2>1. PICK id \in Profiles, enabled \in BOOLEAN :
          editor' = [editor EXCEPT ![e] = [at |-> "open", id |-> id, revision |-> Len(saved[id]) + 1, on |-> enabled]]
    BY <1>4 DEF OpensForm
  <2>2. [at |-> "open", id |-> id, revision |-> Len(saved[id]) + 1, on |-> enabled] \in EditRecords
    BY DEF EditRecords
  <2> QED
    BY <1>4, <1>1, <2>1, <2>2 DEF OpensForm
<1>5. ASSUME NEW e \in Editors, Submits(e) PROVE ProfilesInv'
  BY <1>5, <1>1, Idles DEF Submits, EditRecords
<1>6. ASSUME NEW e \in Editors, Lists(e) PROVE ProfilesInv'
  BY <1>6, <1>1, Idles DEF Lists, EditRecords
<1>7. ASSUME NEW e \in Editors, Stores(e) PROVE ProfilesInv'
  <2>1. CASE MaySave(e)
    <3> DEFINE id == editor[e].id
    <3>1. id \in Profiles /\ editor[e].on \in BOOLEAN /\ editor[e].revision = Len(saved[id]) + 1
      BY <2>1 DEF MaySave, Follows, EditRecords
    <3>2. SubSeq(saved[id], 1, editor[e].revision - 1) \o <<editor[e].on>> = Append(saved[id], editor[e].on)
      <4>1. saved[id] \in Seq(BOOLEAN) /\ editor[e].revision - 1 = Len(saved[id])
        BY <3>1
      <4>2. SubSeq(saved[id], 1, Len(saved[id])) = saved[id]
        BY <4>1, SubSeqFull
      <4>3. Append(saved[id], editor[e].on) = saved[id] \o <<editor[e].on>>
        BY <3>1, <4>1, AppendIsConcat
      <4> QED
        BY <4>1, <4>2, <4>3
    <3>3. saved' = [saved EXCEPT ![id] = Append(@, editor[e].on)]
      BY <1>7, <2>1, <3>1, <3>2 DEF Stores, Saves
    <3>4. editor' = [editor EXCEPT ![e].at = "stored"] /\ UNCHANGED <<registry, link, worker>>
      BY <1>7, <2>1 DEF Stores
    <3>5. /\ saved' \in [Profiles -> Seq(BOOLEAN)] /\ WasSaved(saved', id, Len(saved[id]) + 1, editor[e].on)
          /\ \A other \in Profiles, n \in Nat, was \in BOOLEAN :
               WasSaved(saved, other, n, was) => WasSaved(saved', other, n, was)
      BY <3>1, <3>3, Growing
    <3>6. /\ editor' \in [Editors -> EditRecords]
          /\ \A d \in Editors \ {e} : editor'[d] = editor[d]
          /\ editor'[e].id = editor[e].id /\ editor'[e].revision = editor[e].revision /\ editor'[e].on = editor[e].on
      BY <3>4 DEF EditRecords
    <3>7. \A d \in Editors : editor'[d].at = "stored" => WasSaved(saved', editor'[d].id, editor'[d].revision, editor'[d].on)
      <4>1. ASSUME NEW d \in Editors, editor'[d].at = "stored", d # e
            PROVE  WasSaved(saved', editor'[d].id, editor'[d].revision, editor'[d].on)
        <5>0. editor'[d] = editor[d]
          BY <3>6, <4>1
        <5>1. WasSaved(saved, editor[d].id, editor[d].revision, editor[d].on)
          BY <4>1, <5>0
        <5>2. editor[d].id \in Profiles /\ editor[d].revision \in Nat /\ editor[d].on \in BOOLEAN
          BY DEF EditRecords
        <5> QED
          BY <3>5, <5>0, <5>1, <5>2
      <4>2. WasSaved(saved', editor'[e].id, editor'[e].revision, editor'[e].on)
        <5>1. editor'[e].id = id /\ editor'[e].revision = Len(saved[id]) + 1 /\ editor'[e].on = editor[e].on
          BY <3>1, <3>6
        <5> QED
          BY <3>5, <5>1
      <4> QED
        BY <4>1, <4>2
    <3>8. \A i \in Profiles : registry[i].revision > 0 => WasSaved(saved', i, registry[i].revision, registry[i].on)
      BY <3>5
    <3>9. \A w \in Jobs : worker[w].at = "running" => WasSaved(saved', worker[w].id, worker[w].link, TRUE)
      BY <3>5 DEF JobRecords
    <3> QED
      BY <3>4, <3>5, <3>6, <3>7, <3>8, <3>9
  <2>2. CASE ~MaySave(e)
    BY <1>7, <2>2, <1>1, Idles DEF Stores
  <2> QED
    BY <2>1, <2>2
<1>8. ASSUME NEW e \in Editors, Inserts(e) PROVE ProfilesInv'
  BY <1>8, Idles DEF Inserts, Connected, WasSaved, EditRecords
<1>9. ASSUME LocalSettings PROVE ProfilesInv'
  <2>1. UNCHANGED <<registry, link, editor, worker>>
    BY <1>9 DEF LocalSettings
  <2>2. /\ saved' \in [Profiles -> Seq(BOOLEAN)]
        /\ \A other \in Profiles, n \in Nat, was \in BOOLEAN :
             WasSaved(saved, other, n, was) => WasSaved(saved', other, n, was)
    BY <1>9, SparkAssumption, Growing DEF LocalSettings
  <2>3. \A e \in Editors : editor[e].at = "stored" => WasSaved(saved', editor[e].id, editor[e].revision, editor[e].on)
    BY <2>2 DEF EditRecords
  <2>4. \A id \in Profiles : registry[id].revision > 0 => WasSaved(saved', id, registry[id].revision, registry[id].on)
    BY <2>2
  <2>5. \A w \in Jobs : worker[w].at = "running" => WasSaved(saved', worker[w].id, worker[w].link, TRUE)
    BY <2>2 DEF JobRecords
  <2> QED
    BY <2>1, <2>2, <2>3, <2>4, <2>5
<1>10. ASSUME NEW w \in Jobs, Validates(w) PROVE ProfilesInv'
  <2>1. PICK id \in Profiles, m \in Models : worker' = [worker EXCEPT ![w] =
          [at |-> "asking", id |-> id, revision |-> 0, link |-> link[id], model |-> m]]
    BY <1>10 DEF Validates
  <2>2. [at |-> "asking", id |-> id, revision |-> 0, link |-> link[id], model |-> m] \in JobRecords
    BY DEF JobRecords
  <2> QED
    BY <1>10, <1>2, <2>1, <2>2 DEF Validates
<1>11. ASSUME NEW w \in Jobs, Listed(w) \/ Eligible(w) \/ Ends(w) PROVE ProfilesInv'
  BY <1>11, <1>2, Idles DEF Listed, Eligible, Ends, JobRecords
<1>12. ASSUME NEW w \in Jobs, Runs(w) PROVE ProfilesInv'
  <2> DEFINE id == worker[w].id
             x == [worker[w] EXCEPT !.at = "running", !.link = link[id], !.revision = registry[id].revision]
  <2>1. id \in Profiles /\ link[id] \in Nat /\ registry[id].revision \in Nat
    BY DEF JobRecords
  <2>2. x \in JobRecords /\ x.id = id /\ x.link = link[id]
    BY <2>1 DEF JobRecords
  <2>3. CASE link[id] # 0
    <3>1. registry[id].revision = link[id] /\ registry[id].on = TRUE /\ registry[id].revision > 0
      BY <2>1, <2>3
    <3>2. WasSaved(saved, id, link[id], TRUE)
      BY <2>1, <3>1
    <3>3. worker' = [worker EXCEPT ![w] = x] /\ UNCHANGED <<saved, registry, link, editor>>
      BY <1>12, <2>3 DEF Runs
    <3> HIDE DEF x
    <3> QED
      BY <1>2, <2>2, <3>2, <3>3
  <2>4. CASE link[id] = 0
    BY <1>12, <1>2, <2>4, Idles DEF Runs
  <2> QED
    BY <2>3, <2>4
<1>13. ASSUME RestartProfiles PROVE ProfilesInv'
  BY <1>13, RowWasSaved, Idles DEF RestartProfiles, WasSaved
<1> QED
  BY <1>3, <1>4, <1>5, <1>6, <1>7, <1>8, <1>9, <1>10, <1>11, <1>12, <1>13
     DEF ProfilesNext, profileVars, ProbeBegins, ProbeConnects, ProbeAnswered, ProbeRecords

LEMMA ProfilesAreSaved == ProfilesInv => ConnectionsAreSaved
  BY DEF ProfilesInv, ConnectionsAreSaved, WasSaved, JobRecords

-----------------------------------------------------------------------------
(* AutoRouting: the previews of one id are of one project, follow each other   *)
(* by their revision, and the route that is pending is the last of them.       *)

Previewed ==
  [id : Routes, revision : Nat, project : Projects, text : SettingTexts,
   assessment : Assessments, target : Targets \cup {NoTarget}]

Making == {"reading", "assessing", "choosing", "made"}

CommandRecords ==
  [at : Making \cup {"idle", "revising", "revised", "validating", "valid"},
   route : Previewed \cup {NoRoute}, want : Targets \cup {NoTarget}]

\* What a command x has established of the route it holds.
Holds(x) ==
  /\ x \in CommandRecords
  /\ x.at # "idle" => x.route \in Previewed
  /\ x.at \in Making => x.route.revision = 0 /\ \A p \in shown : p.id # x.route.id
  /\ x.at = "revising" => x.route \in shown
  /\ x.at = "revised" =>
       \E p \in shown : p.id = x.route.id /\ p.project = x.route.project /\ x.route.revision = p.revision + 1
  /\ x.at \in {"validating", "valid"} => x.route \in shown /\ Runnable(x.route)

\* A route that is being made has an id of its own.
OwnIds ==
  \A c, d \in Commands : c # d /\ command[c].at \in Making /\ command[d].at \in Making =>
    command[c].route.id # command[d].route.id

PreviewsFollow ==
  /\ shown \subseteq Previewed /\ pending \subseteq shown
  /\ \A p, q \in shown : p.id = q.id => p.project = q.project /\ (p.revision = q.revision => p = q)
  /\ \A r \in pending, p \in shown : p.id = r.id => p.revision <= r.revision
  /\ \A r, s \in pending : r.project = s.project => r = s
  /\ IsFiniteSet(pending) /\ Cardinality(pending) <= MaxPending

RanOnce ==
  /\ ran \in [Routes -> Seq(Previewed)]
  /\ \A id \in Routes :
       \/ ran[id] = <<>>
       \/ /\ Len(ran[id]) = 1 /\ ran[id][1] \in shown /\ ran[id][1].id = id /\ Runnable(ran[id][1])
          /\ Pending(id) = {}

RoutesInv ==
  /\ settings \in SettingTexts
  /\ command \in [Commands -> CommandRecords]
  /\ \A c \in Commands : Holds(command[c])
  /\ OwnIds /\ PreviewsFollow /\ RanOnce

LEMMA NoCommandHolds == NoCommand \in CommandRecords /\ NoCommand.at = "idle" /\ Holds(NoCommand)
  BY DEF NoCommand, CommandRecords, Holds, Making

LEMMA RoutesStart == RoutesInit => RoutesInv
  BY NoCommandHolds, FS_EmptySet, PendingAssumption
     DEF RoutesInit, RoutesInv, PreviewsFollow, RanOnce, OwnIds, Making

LEMMA RoutesKeep == RoutesInv /\ [RoutesNext]_routingVars => RoutesInv'
<1> SUFFICES ASSUME RoutesInv, [RoutesNext]_routingVars PROVE RoutesInv'
  OBVIOUS
<1> USE DEF RoutesInv
\* Only one command has come to another point, with what it has established there.
<1>1. ASSUME NEW c \in Commands, NEW x, command' = [command EXCEPT ![c] = x], Holds(x),
             x.at \in Making => command[c].at \in Making /\ x.route.id = command[c].route.id,
             settings' \in SettingTexts, UNCHANGED <<pending, shown, ran>>
      PROVE  RoutesInv'
  <2>1. command' \in [Commands -> CommandRecords] /\ command'[c] = x /\ \A d \in Commands \ {c} : command'[d] = command[d]
    BY <1>1 DEF Holds
  <2>2. \A d \in Commands : Holds(command'[d])
    BY <1>1, <2>1
  <2>3. \A d \in Commands : Holds(command[d])'
    BY <1>1, <2>2 DEF Holds
  <2>4. OwnIds'
    BY <1>1, <2>1 DEF OwnIds
  <2>5. PreviewsFollow' /\ RanOnce'
    BY <1>1 DEF PreviewsFollow, RanOnce, Pending
  <2> QED
    BY <1>1, <2>1, <2>3, <2>4, <2>5
<1>2. ASSUME settings' \in SettingTexts, UNCHANGED <<command, pending, shown, ran>> PROVE RoutesInv'
  BY <1>2 DEF Holds, OwnIds, PreviewsFollow, RanOnce, Pending
<1>3. ASSUME NEW c \in Commands, Previews(c) PROVE RoutesInv'
  <2>1. PICK id \in Routes \ Used, p \in Projects : command' = [command EXCEPT ![c] =
          [at |-> "reading", want |-> NoTarget,
           route |-> [id |-> id, revision |-> 0, project |-> p, text |-> settings,
                      assessment |-> "clear", target |-> NoTarget]]]
    BY <1>3 DEF Previews
  <2> DEFINE route == [id |-> id, revision |-> 0, project |-> p, text |-> settings,
                       assessment |-> "clear", target |-> NoTarget]
             x == [at |-> "reading", want |-> NoTarget, route |-> route]
  <2>2. route \in Previewed /\ route.id = id /\ route.revision = 0
    BY DEF Previewed, Assessments
  <2>3. (\A q \in shown : q.id # id) /\ \A d \in Commands : command[d].at # "idle" => command[d].route.id # id
    BY DEF Used, Held
  <2>4. x \in CommandRecords /\ x.at = "reading" /\ x.route = route
    BY <2>2 DEF CommandRecords, Making
  <2> HIDE DEF route, x
  <2>5. Holds(x)
    BY <2>2, <2>3, <2>4 DEF Holds, Making
  <2>6. command' = [command EXCEPT ![c] = x] /\ UNCHANGED <<settings, pending, shown, ran>>
    BY <1>3, <2>1 DEF Previews, x, route
  <2>7. command' \in [Commands -> CommandRecords] /\ command'[c] = x /\ \A d \in Commands \ {c} : command'[d] = command[d]
    BY <2>4, <2>6
  <2>8. \A d \in Commands : Holds(command[d])'
    BY <2>5, <2>6, <2>7 DEF Holds
  <2>9. OwnIds'
    BY <2>2, <2>3, <2>4, <2>7 DEF OwnIds, Making
  <2>10. PreviewsFollow' /\ RanOnce'
    BY <2>6 DEF PreviewsFollow, RanOnce, Pending
  <2> QED
    BY <2>6, <2>7, <2>8, <2>9, <2>10
<1>4. ASSUME NEW c \in Commands, ReadsSettings(c) PROVE RoutesInv'
  <2> DEFINE x == [command[c] EXCEPT !.at = "assessing"]
  <2>1. Holds(x) /\ x.at = "assessing" /\ x.route = command[c].route
    BY <1>4 DEF ReadsSettings, Holds, CommandRecords, Making
  <2>2. command' = [command EXCEPT ![c] = x] /\ settings' \in SettingTexts /\ UNCHANGED <<pending, shown, ran>>
    BY <1>4 DEF ReadsSettings, SettingTexts, Saved
  <2> HIDE DEF x
  <2> QED
    BY <1>1, <1>4, <2>1, <2>2 DEF ReadsSettings, Making
<1>5. ASSUME NEW c \in Commands, Assesses(c) PROVE RoutesInv'
  <2>1. PICK a \in Assessments : command' = [command EXCEPT ![c].at = "choosing", ![c].route.assessment = a]
    BY <1>5 DEF Assesses
  <2> DEFINE route == [command[c].route EXCEPT !.assessment = a]
             x == [command[c] EXCEPT !.at = "choosing", !.route = route]
  <2>2. command[c].at = "assessing" /\ command[c].route \in Previewed
    BY <1>5 DEF Assesses, Holds
  <2>3. route \in Previewed /\ route.id = command[c].route.id /\ route.revision = command[c].route.revision
    BY <2>2 DEF Previewed
  <2>4. x \in CommandRecords /\ x.at = "choosing" /\ x.route = route
    BY <2>3 DEF CommandRecords, Making
  <2>5. command' = [command EXCEPT ![c] = x] /\ UNCHANGED <<settings, pending, shown, ran>>
    BY <1>5, <2>1, <2>2 DEF Assesses, CommandRecords
  <2> HIDE DEF route, x
  <2>6. Holds(x)
    BY <2>2, <2>3, <2>4 DEF Holds, Making
  <2> QED
    BY <1>1, <2>2, <2>3, <2>4, <2>5, <2>6 DEF Making
\* A target is chosen for a route: nothing else of it changes.
<1>6. ASSUME NEW route \in Previewed, NEW S \in SUBSET Targets, NEW r \in Chosen(route, S)
      PROVE  r \in Previewed /\ r.id = route.id /\ r.revision = route.revision /\ r.project = route.project
  BY <1>6 DEF Chosen, Previewed
<1>7. ASSUME NEW c \in Commands, Chooses(c) PROVE RoutesInv'
  <2>1. command[c].at = "choosing" /\ command[c].route \in Previewed
    BY <1>7 DEF Chooses, Holds
  <2>2. PICK r \in Chosen(command[c].route, Targets) : command' = [command EXCEPT ![c] =
          IF Fresh(r) THEN [@ EXCEPT !.at = "made", !.route = r] ELSE NoCommand]
    BY <1>7 DEF Chooses
  <2>3. r \in Previewed /\ r.id = command[c].route.id /\ r.revision = command[c].route.revision
    BY <1>6, <2>1
  <2> DEFINE x == [command[c] EXCEPT !.at = "made", !.route = r]
  <2>4. x \in CommandRecords /\ x.at = "made" /\ x.route = r
    BY <2>3 DEF CommandRecords, Making
  <2>5. CASE Fresh(r)
    <3>1. command' = [command EXCEPT ![c] = x] /\ UNCHANGED <<settings, pending, shown, ran>>
      BY <1>7, <2>2, <2>5 DEF Chooses
    <3> HIDE DEF x
    <3>2. Holds(x)
      BY <2>1, <2>3, <2>4 DEF Holds, Making
    <3> QED
      BY <1>1, <2>1, <2>3, <2>4, <3>1, <3>2 DEF Making
  <2>6. CASE ~Fresh(r)
    BY <1>1, <1>7, <2>2, <2>6, NoCommandHolds DEF Chooses, Making
  <2> QED
    BY <2>5, <2>6
\* A command ends after the routes have changed; those that go on still hold what they
\* did, for no preview is forgotten and none has the id of a route that is being made.
<1>8. ASSUME NEW c \in Commands, command' = [command EXCEPT ![c] = NoCommand],
             shown \subseteq shown',
             \A p \in shown' \ shown : \A d \in Commands \ {c} :
               command[d].at \in Making => command[d].route.id # p.id
      PROVE  /\ command' \in [Commands -> CommandRecords]
             /\ \A d \in Commands : Holds(command[d])'
             /\ OwnIds'
  <2>1. command' \in [Commands -> CommandRecords] /\ command'[c] = NoCommand
    BY <1>8, NoCommandHolds
  <2>2. \A d \in Commands \ {c} : command'[d] = command[d]
    BY <1>8
  <2>3. Holds(command[c])'
    BY <2>1, NoCommandHolds DEF Holds, Making
  <2>4. ASSUME NEW d \in Commands \ {c} PROVE Holds(command[d])'
    BY <1>8, <2>2 DEF Holds
  <2>5. OwnIds'
    BY <2>1, <2>2, NoCommandHolds DEF OwnIds, Making
  <2> QED
    BY <2>1, <2>3, <2>4, <2>5
<1>9. ASSUME NEW c \in Commands, Shows(c) PROVE RoutesInv'
  <2> DEFINE route == command[c].route
             staying == Kept(route)
  <2>1. /\ command[c].at = "made" /\ route \in Previewed /\ route.revision = 0
        /\ \A p \in shown : p.id # route.id
        /\ \A d \in Commands \ {c} : command[d].at \in Making => command[d].route.id # route.id
    BY <1>9 DEF Shows, Holds, OwnIds, Making
  <2>2. staying \subseteq pending /\ \A r \in staying : r.project # route.project
    BY DEF Kept
  <2>3. IsFiniteSet(staying) /\ Cardinality(staying) <= Cardinality(pending) /\ Cardinality(staying) \in Nat
    BY <2>2, FS_Subset, FS_CardinalityType DEF PreviewsFollow
  <2>4. command' = [command EXCEPT ![c] = NoCommand] /\ UNCHANGED <<settings, ran>>
    BY <1>9 DEF Shows
  <2>5. CASE pending' = staying /\ UNCHANGED shown
    <3>1. PreviewsFollow'
      BY <2>2, <2>3, <2>5, FS_CardinalityType, PendingAssumption DEF PreviewsFollow
    <3>2. RanOnce'
      BY <2>2, <2>4, <2>5 DEF RanOnce, Pending
    <3> QED
      BY <1>8, <2>4, <2>5, <3>1, <3>2
  <2>6. CASE Cardinality(staying) < MaxPending /\ pending' = staying \cup {route} /\ shown' = shown \cup {route}
    <3>1. IsFiniteSet(pending') /\ Cardinality(pending') <= MaxPending
      <4> HIDE DEF staying
      <4>1. IsFiniteSet(staying \cup {route}) /\ Cardinality(staying \cup {route}) <= Cardinality(staying) + 1
        <5>1. /\ IsFiniteSet(staying \cup {route})
              /\ Cardinality(staying \cup {route})
                   = IF route \in staying THEN Cardinality(staying) ELSE Cardinality(staying) + 1
          BY <2>3, FS_AddElement
        <5> QED
          BY <2>3, <5>1
      <4>2. Cardinality(staying \cup {route}) \in Nat
        BY <4>1, FS_CardinalityType
      <4> QED
        BY <2>3, <2>6, <4>1, <4>2, PendingAssumption
    <3>2. PreviewsFollow'
      BY <2>1, <2>2, <2>6, <3>1 DEF PreviewsFollow, Previewed
    <3>3. \A id \in Routes : ran[id] # <<>> => id # route.id
      BY <2>1 DEF RanOnce
    <3>4. RanOnce'
      BY <2>2, <2>4, <2>6, <3>3 DEF RanOnce, Pending
    <3> QED
      BY <1>8, <2>1, <2>4, <2>6, <3>2, <3>4
  <2> QED
    BY <1>9, <2>3, <2>5, <2>6, PendingAssumption DEF Shows
<1>10. ASSUME NEW c \in Commands, Revises(c) PROVE RoutesInv'
  <2>1. PICK route \in pending, t \in Targets :
          /\ route \in shown
          /\ command' = [command EXCEPT ![c] = [at |-> "revising", route |-> route, want |-> t]]
    BY <1>10 DEF Revises
  <2> DEFINE x == [at |-> "revising", route |-> route, want |-> t]
  <2>2. x \in CommandRecords /\ x.at = "revising" /\ x.route = route /\ route \in Previewed
    BY <2>1 DEF CommandRecords, PreviewsFollow
  <2>3. command' = [command EXCEPT ![c] = x] /\ UNCHANGED <<settings, pending, shown, ran>>
    BY <1>10, <2>1 DEF Revises
  <2> HIDE DEF x
  <2>4. Holds(x)
    BY <2>1, <2>2 DEF Holds, Making
  <2> QED
    BY <1>1, <2>2, <2>3, <2>4 DEF Making
<1>11. ASSUME NEW c \in Commands, Rechooses(c) PROVE RoutesInv'
  <2>1. command[c].at = "revising" /\ command[c].route \in Previewed /\ command[c].route \in shown
    BY <1>11 DEF Rechooses, Holds
  <2>2. PICK r \in Chosen(command[c].route, {command[c].want}) : command' = [command EXCEPT ![c] =
          IF Fresh(r) THEN [@ EXCEPT !.at = "revised", !.route = [r EXCEPT !.revision = @ + 1]]
          ELSE NoCommand]
    BY <1>11 DEF Rechooses
  <2>3. r \in Previewed /\ r.id = command[c].route.id /\ r.revision = command[c].route.revision
        /\ r.project = command[c].route.project
    BY <2>1, <2>2 DEF Chosen, Previewed, CommandRecords
  <2> DEFINE next == [r EXCEPT !.revision = @ + 1]
             x == [command[c] EXCEPT !.at = "revised", !.route = next]
  <2>4. next \in Previewed /\ next.id = r.id /\ next.revision = r.revision + 1 /\ next.project = r.project
    BY <2>3 DEF Previewed
  <2>5. x \in CommandRecords /\ x.at = "revised" /\ x.route = next
    BY <2>4 DEF CommandRecords
  <2>6. CASE Fresh(r)
    <3>1. command' = [command EXCEPT ![c] = x] /\ UNCHANGED <<settings, pending, shown, ran>>
      BY <1>11, <2>2, <2>6 DEF Rechooses
    <3> HIDE DEF next, x
    <3>2. Holds(x)
      BY <2>1, <2>3, <2>4, <2>5 DEF Holds, Making
    <3> QED
      BY <1>1, <2>5, <3>1, <3>2 DEF Making
  <2>7. CASE ~Fresh(r)
    BY <1>1, <1>11, <2>2, <2>7, NoCommandHolds DEF Rechooses, Making
  <2> QED
    BY <2>6, <2>7
<1>12. ASSUME NEW c \in Commands, ShowsRevised(c) PROVE RoutesInv'
  <2> DEFINE route == command[c].route
  <2>1. /\ command[c].at = "revised" /\ route \in Previewed
        /\ \E p \in shown : p.id = route.id /\ p.project = route.project /\ route.revision = p.revision + 1
    BY <1>12 DEF ShowsRevised, Holds
  <2>2. command' = [command EXCEPT ![c] = NoCommand] /\ UNCHANGED <<settings, ran>>
    BY <1>12 DEF ShowsRevised
  <2>3. CASE UNCHANGED <<pending, shown>>
    <3>1. PreviewsFollow' /\ RanOnce'
      BY <2>2, <2>3 DEF PreviewsFollow, RanOnce, Pending
    <3> QED
      BY <1>8, <2>2, <2>3, <3>1
  <2>4. CASE /\ Unchanged(route.id, route.revision - 1)
             /\ pending' = (pending \ Pending(route.id)) \cup {route} /\ shown' = shown \cup {route}
    <3>1. PICK old \in pending : old.id = route.id /\ old.revision = route.revision - 1
      BY <2>4 DEF Unchanged, Pending
    <3>2. old \in shown /\ old.project = route.project /\ route.revision = old.revision + 1
      BY <2>1, <3>1 DEF PreviewsFollow, Previewed
    <3>3. \A p \in shown : p.id = route.id => p.project = route.project /\ p.revision < route.revision
      BY <3>1, <3>2 DEF PreviewsFollow, Previewed
    <3> DEFINE others == pending \ {old}
    <3>4. pending' = others \cup {route} /\ \A r \in others : r.id # route.id /\ r.project # route.project
      BY <2>4, <3>1, <3>2 DEF Pending, PreviewsFollow
    <3>5. IsFiniteSet(others) /\ Cardinality(others) = Cardinality(pending) - 1 /\ Cardinality(pending) \in Nat
      BY <3>1, FS_RemoveElement, FS_CardinalityType DEF PreviewsFollow
    <3>6. IsFiniteSet(pending') /\ Cardinality(pending') <= MaxPending
      <4> HIDE DEF others
      <4>1. IsFiniteSet(others \cup {route}) /\ Cardinality(others \cup {route}) <= Cardinality(others) + 1
        BY <3>5, FS_AddElement, FS_CardinalityType
      <4> QED
        BY <3>4, <3>5, <4>1, FS_CardinalityType, PendingAssumption DEF PreviewsFollow
    <3>7. \A p, q \in shown' : p.id = q.id => p.project = q.project /\ (p.revision = q.revision => p = q)
      BY <2>1, <2>4, <3>3 DEF PreviewsFollow, Previewed
    <3>8. \A r \in pending', p \in shown' : p.id = r.id => p.revision <= r.revision
      BY <2>1, <2>4, <3>3, <3>4 DEF PreviewsFollow, Previewed
    <3>9. PreviewsFollow'
      BY <2>1, <2>4, <3>4, <3>6, <3>7, <3>8 DEF PreviewsFollow
    <3>10. ran[route.id] = <<>>
      BY <2>1, <3>1 DEF RanOnce, Pending, Previewed
    <3>11. RanOnce'
      BY <2>2, <2>4, <3>4, <3>10 DEF RanOnce, Pending
    <3>12. \A d \in Commands \ {c} : command[d].at \in Making => command[d].route.id # route.id
      BY <3>1, <3>2 DEF Holds
    <3> QED
      BY <1>8, <2>2, <2>4, <3>9, <3>11, <3>12
  <2> QED
    BY <1>12, <2>3, <2>4 DEF ShowsRevised
<1>13. ASSUME NEW c \in Commands, Consumes(c) PROVE RoutesInv'
  <2>1. PICK route \in pending : /\ Runnable(route)
          /\ command' = [command EXCEPT ![c] = [at |-> "validating", route |-> route, want |-> NoTarget]]
    BY <1>13 DEF Consumes, Pending
  <2> DEFINE x == [at |-> "validating", route |-> route, want |-> NoTarget]
  <2>2. x \in CommandRecords /\ x.at = "validating" /\ x.route = route /\ route \in Previewed /\ route \in shown
    BY <2>1 DEF CommandRecords, PreviewsFollow
  <2>3. command' = [command EXCEPT ![c] = x] /\ UNCHANGED <<settings, pending, shown, ran>>
    BY <1>13, <2>1 DEF Consumes
  <2> HIDE DEF x
  <2>4. Holds(x)
    BY <2>1, <2>2 DEF Holds, Making
  <2> QED
    BY <1>1, <2>2, <2>3, <2>4 DEF Making
<1>14. ASSUME NEW c \in Commands, TargetValid(c) PROVE RoutesInv'
  <2> DEFINE x == [command[c] EXCEPT !.at = "valid"]
  <2>1. x \in CommandRecords /\ x.at = "valid" /\ x.route = command[c].route
    BY DEF CommandRecords
  <2>2. command[c].at = "validating" /\ UNCHANGED <<settings, pending, shown, ran>>
    BY <1>14 DEF TargetValid
  <2>3. command' = [command EXCEPT ![c] = x] \/ command' = [command EXCEPT ![c] = NoCommand]
    BY <1>14 DEF TargetValid
  <2> HIDE DEF x
  <2>4. Holds(x)
    BY <2>1, <2>2 DEF Holds, Making
  <2> QED
    BY <1>1, <2>1, <2>2, <2>3, <2>4, NoCommandHolds DEF Making
<1>15. ASSUME NEW c \in Commands, Creates(c) PROVE RoutesInv'
  <2> DEFINE route == command[c].route
  <2>1. command[c].at = "valid" /\ route \in Previewed /\ route \in shown /\ Runnable(route)
    BY <1>15 DEF Creates, Holds
  <2>2. command' = [command EXCEPT ![c] = NoCommand] /\ UNCHANGED <<settings, shown>>
    BY <1>15 DEF Creates
  <2>3. CASE UNCHANGED <<pending, ran>>
    <3>1. PreviewsFollow' /\ RanOnce'
      BY <2>2, <2>3 DEF PreviewsFollow, RanOnce, Pending
    <3> QED
      BY <1>8, <2>2, <2>3, <3>1
  <2>4. CASE /\ Unchanged(route.id, route.revision)
             /\ pending' = pending \ Pending(route.id)
             /\ ran' = [ran EXCEPT ![route.id] = Append(@, route)]
    <3>1. route.id \in Routes /\ ran[route.id] = <<>>
      BY <2>1, <2>4 DEF RanOnce, Unchanged, Previewed
    <3>2. Append(ran[route.id], route) = <<route>>
      BY <3>1
    <3>3. /\ ran' \in [Routes -> Seq(Previewed)] /\ ran'[route.id] = <<route>>
          /\ \A id \in Routes \ {route.id} : ran'[id] = ran[id]
      BY <2>1, <2>4, <3>1, <3>2 DEF RanOnce
    <3>4. pending' \subseteq pending /\ \A r \in pending' : r.id # route.id
      BY <2>4 DEF Pending
    <3>5. RanOnce'
      <4>1. Len(<<route>>) = 1 /\ <<route>>[1] = route
        OBVIOUS
      <4>2. ASSUME NEW id \in Routes \ {route.id} PROVE ran[id] = <<>> \/ Pending(id)' = {}
        BY <3>4 DEF RanOnce, Pending
      <4>3. {r \in pending' : r.id = route.id} = {}
        BY <3>4
      <4>4. /\ Len(ran'[route.id]) = 1 /\ ran'[route.id][1] \in shown' /\ ran'[route.id][1].id = route.id
            /\ Runnable(ran'[route.id][1])
        BY <2>1, <2>2, <3>3, <4>1
      <4>5. ASSUME NEW id \in Routes \ {route.id}
            PROVE  \/ ran'[id] = <<>>
                   \/ /\ Len(ran'[id]) = 1 /\ ran'[id][1] \in shown' /\ ran'[id][1].id = id
                      /\ Runnable(ran'[id][1]) /\ Pending(id)' = {}
        BY <2>2, <3>3, <4>2 DEF RanOnce
      <4> DEFINE Once(id) == \/ ran'[id] = <<>>
                             \/ /\ Len(ran'[id]) = 1 /\ ran'[id][1] \in shown' /\ ran'[id][1].id = id
                                /\ Runnable(ran'[id][1]) /\ {r \in pending' : r.id = id} = {}
      <4>6. ASSUME NEW id \in Routes PROVE Once(id)
        <5> HIDE DEF route
        <5> QED
          BY <4>3, <4>4, <4>5 DEF Pending
      <4> QED
        BY <3>3, <4>6, Zenon DEF RanOnce, Pending, Runnable
    <3>6. IsFiniteSet(pending') /\ Cardinality(pending') <= MaxPending
      BY <3>4, FS_Subset, FS_CardinalityType, PendingAssumption DEF PreviewsFollow
    <3>7. PreviewsFollow'
      BY <2>2, <3>4, <3>6 DEF PreviewsFollow
    <3> QED
      BY <1>8, <2>2, <3>5, <3>7
  <2> QED
    BY <1>15, <2>3, <2>4 DEF Creates
<1>16. ASSUME set_auto_settings PROVE RoutesInv'
  BY <1>2, <1>16 DEF set_auto_settings, SettingTexts
<1> QED
  BY <1>2, <1>3, <1>4, <1>5, <1>7, <1>9, <1>10, <1>11, <1>12, <1>13, <1>14, <1>15, <1>16
     DEF RoutesNext, routingVars, TenMinutes

LEMMA RoutesRun == RoutesInv => RunsWhatWasShown /\ OneRoutePerProject
<1> SUFFICES ASSUME RoutesInv PROVE RunsWhatWasShown /\ OneRoutePerProject
  OBVIOUS
<1>0. ran \in [Routes -> Seq(Previewed)] /\ \A id \in Routes : ran[id] = <<>> \/ Len(ran[id]) = 1
  BY DEF RoutesInv, RanOnce
<1>1. ASSUME NEW id \in Routes, ran[id] # <<>>
      PROVE  /\ Len(ran[id]) = 1
             /\ {p \in shown : p.id = id /\ p.revision = ran[id][1].revision} = {ran[id][1]}
             /\ Runnable(ran[id][1])
  BY <1>1 DEF RoutesInv, RanOnce, PreviewsFollow
<1>2. RunsWhatWasShown
  <2>1. ASSUME NEW id \in Routes PROVE Len(ran[id]) = 0 \/ (Len(ran[id]) = 1 /\ ran[id] # <<>>)
    <3>1. CASE ran[id] = <<>>
      <4>1. Len(<<>>) = 0
        OBVIOUS
      <4> QED
        BY <3>1, <4>1
    <3>2. CASE ran[id] # <<>>
      <4>1. Len(ran[id]) = 1
        BY <1>0, <3>2, Zenon
      <4> QED
        BY <3>2, <4>1
    <3> QED
      BY <3>1, <3>2
  <2>2. ASSUME NEW id \in Routes
        PROVE  Len(ran[id]) <= 1 /\ \A i \in 1..Len(ran[id]) : i = 1 /\ ran[id] # <<>>
    <3> DEFINE n == Len(ran[id])
    <3>1. n = 0 \/ (n = 1 /\ ran[id] # <<>>)
      BY <2>1, Zenon
    <3> HIDE DEF n
    <3>2. n <= 1 /\ \A i \in 1..n : i = 1 /\ ran[id] # <<>>
      BY <3>1
    <3> QED
      BY <3>2 DEF n
  <2> QED
    BY <1>1, <2>2 DEF RunsWhatWasShown, Runnable, planning_reason
<1> QED
  BY <1>2 DEF RoutesInv, PreviewsFollow, OneRoutePerProject

-----------------------------------------------------------------------------
(* The controller: who has the turn, and what is then true of the agent.       *)

\* A command that has begun is at the head of the chain: there is one at most.
InTurn ==
  \A c \in Askers : asker[c].at \notin {"idle", "queued"} => tail # <<>> /\ Head(tail) = c

\* What a command has established when it comes to a point.
Reached ==
  \A c \in Askers :
    /\ asker[c].at \in {"close", "apply"} => ~serving
    /\ asker[c].at = "verify" /\ asker[c].command.kind = "start" => Clean
    /\ asker[c].at = "launch" => Clean

ControlInv ==
  /\ tail \in Seq(Askers)
  /\ asker \in [Askers -> Asking]
  /\ projectsFile = savedProjects
  /\ InTurn /\ Reached /\ ServesWhatIsShown

LEMMA IdleType == Idle \in Asking /\ Idle.at = "idle"
<1> DEFINE stop == [kind |-> "stop", folder |-> CHOOSE f \in Folders : TRUE, allow |-> "none"]
<1>1. stop \in AppCommands /\ stop.kind = "stop"
  BY DEF AppCommands
<1>2. (CHOOSE q \in AppCommands : q.kind = "stop") \in AppCommands
  BY <1>1
<1> QED
  BY <1>2 DEF Idle, Asking

LEMMA ControlStarts == AppInit => ControlInv
  BY IdleType DEF AppInit, ControlInv, InTurn, Reached, ServesWhatIsShown

\* It is c's turn: the others have not begun.
Leads(c) == tail # <<>> /\ Head(tail) = c /\ \A d \in Askers \ {c} : asker[d].at \in {"idle", "queued"}

LEMMA BegunLeads ==
  ASSUME ControlInv, NEW c \in Askers, asker[c].at \notin {"idle", "queued"} PROVE Leads(c)
  BY DEF ControlInv, InTurn, Leads, Asking

LEMMA QueuedLeads == ASSUME ControlInv, NEW c \in Askers, MayRun(c) PROVE Leads(c)
  BY DEF ControlInv, InTurn, Leads, MayRun, Asking

\* A command that ends leaves none that has begun.
LEMMA Resolving ==
  ASSUME ControlInv, NEW c \in Askers, Leads(c), Resolves(c)
  PROVE  /\ tail' \in Seq(Askers) /\ asker' \in [Askers -> Asking]
         /\ \A d \in Askers : asker'[d].at \in {"idle", "queued"}
  BY IdleType DEF ControlInv, Leads, Resolves

\* One that goes on is the only one that has begun, and is where it went.
LEMMA Reaching ==
  ASSUME ControlInv, NEW c \in Askers, Leads(c),
         NEW place \in {"verify", "stop", "close", "apply", "launch", "starting"}, Reaches(c, place)
  PROVE  /\ tail' \in Seq(Askers) /\ asker' \in [Askers -> Asking] /\ InTurn'
         /\ asker'[c].at = place /\ asker'[c].command = asker[c].command
         /\ \A d \in Askers \ {c} : asker'[d].at \in {"idle", "queued"}
<1>1. asker'[c] = [asker[c] EXCEPT !.at = place] /\ \A d \in Askers \ {c} : asker'[d] = asker[d]
  BY DEF ControlInv, Reaches
<1>2. place \notin {"idle", "queued"} /\ asker[c] \in Asking /\ UNCHANGED tail
  BY DEF ControlInv, Reaches
<1>3. /\ asker'[c].at = place /\ asker'[c].command = asker[c].command
      /\ \A d \in Askers \ {c} : asker'[d].at \in {"idle", "queued"}
  BY <1>1, <1>2 DEF Leads, Asking
<1>4. asker' \in [Askers -> Asking]
  <2>1. [asker[c] EXCEPT !.at = place] \in Asking
    BY <1>2 DEF Asking
  <2> QED
    BY <2>1 DEF ControlInv, Reaches
<1>5. InTurn'
  BY <1>2, <1>3 DEF InTurn, Leads
<1> QED
  BY <1>2, <1>3, <1>4, <1>5 DEF ControlInv

LEMMA ControlKeeps == ControlInv /\ [AppNext]_appVars => ControlInv'
<1> SUFFICES ASSUME ControlInv, [AppNext]_appVars PROVE ControlInv'
  OBVIOUS
<1> USE DEF ControlInv, InTurn, Reached, ServesWhatIsShown, Clean
<1>1. ASSUME NEW c \in Askers, NEW q \in AppCommands, Invokes(c, q) PROVE ControlInv'
  <2>1. asker' \in [Askers -> Asking] /\ asker'[c].at = "queued" /\ \A d \in Askers \ {c} : asker'[d] = asker[d]
    BY <1>1 DEF Invokes, Asking
  <2>2. tail' \in Seq(Askers) /\ tail' # <<>> /\ (tail # <<>> => Head(tail') = Head(tail))
    BY <1>1 DEF Invokes
  <2>3. UNCHANGED <<draftVars, servedVars>>
    BY <1>1 DEF Invokes, draftVars
  <2>4. InTurn'
    BY <2>1, <2>2
  <2>5. Reached' /\ ServesWhatIsShown'
    BY <2>1, <2>3 DEF draftVars, servedVars
  <2> QED
    BY <2>1, <2>2, <2>3, <2>4, <2>5 DEF draftVars
\* A command that ends without the agent or the draft being touched.
<1> DEFINE Ended(c) == Leads(c) /\ Resolves(c)
<1>2. ASSUME NEW c \in Askers, Ended(c), UNCHANGED <<projects, renewed, savedProjects, projectsFile, servedVars>>
      PROVE  ControlInv'
  BY <1>2, Resolving DEF servedVars
<1>3. ASSUME NEW c \in Askers, TakesTurn(c) PROVE ControlInv'
  <2>1. Leads(c) /\ UNCHANGED <<draftVars, servedVars>>
    BY <1>3, QueuedLeads DEF TakesTurn
  <2>2. CASE Resolves(c)
    BY <2>1, <2>2, <1>2 DEF draftVars
  <2>3. CASE Accepted(asker[c].command) /\ KindOf(c) \in {"save", "recheck", "start"} /\ Reaches(c, "verify")
    BY <2>1, <2>3, Reaching DEF Accepted, Configured, KindOf, draftVars, servedVars
  <2>4. CASE Reaches(c, "stop")
    BY <2>1, <2>4, Reaching DEF draftVars, servedVars
  <2> QED
    BY <1>3, <2>2, <2>3, <2>4 DEF TakesTurn
<1>4. ASSUME NEW c \in Askers, NEW f \in Folders, VerifiesRoot(c, f) PROVE ControlInv'
  <2>1. CASE Resolves(c)
    BY <1>4, <2>1, <1>2, BegunLeads DEF VerifiesRoot, At
  <2>2. CASE asker' = [asker EXCEPT ![c].verified = @ \cup {f}] /\ UNCHANGED tail
    <3>1. /\ asker' \in [Askers -> Asking]
          /\ \A d \in Askers : asker'[d].at = asker[d].at /\ asker'[d].command = asker[d].command
      BY <2>2 DEF Asking
    <3> QED
      BY <1>4, <2>2, <3>1 DEF VerifiesRoot, servedVars
  <2> QED
    BY <1>4, <2>1, <2>2 DEF VerifiesRoot
<1>5. ASSUME NEW c \in Askers, HasVerified(c) PROVE ControlInv'
  <2>1. Leads(c) /\ UNCHANGED <<draftVars, servedVars>>
    BY <1>5, BegunLeads DEF HasVerified, At
  <2>2. CASE KindOf(c) = "save" /\ Reaches(c, "stop")
    BY <2>1, <2>2, Reaching DEF draftVars, servedVars
  <2>3. CASE KindOf(c) = "start" /\ Reaches(c, "launch")
    BY <1>5, <2>1, <2>3, Reaching DEF HasVerified, At, KindOf, draftVars, servedVars
  <2>4. CASE Resolves(c)
    BY <2>1, <2>4, <1>2 DEF draftVars
  <2> QED
    BY <1>5, <2>2, <2>3, <2>4 DEF HasVerified
<1>6. ASSUME NEW c \in Askers, StopsNow(c) PROVE ControlInv'
  BY <1>6, BegunLeads, Reaching DEF StopsNow, At, draftVars
<1>7. ASSUME NEW c \in Askers, AgentCloses(c) PROVE ControlInv'
  <2>1. Leads(c) /\ ~serving /\ UNCHANGED <<draftVars, serving>>
    BY <1>7, BegunLeads DEF AgentCloses, At
  <2>2. CASE Reaches(c, "apply")
    BY <2>1, <2>2, Reaching DEF draftVars
  <2>3. CASE Resolves(c)
    BY <2>1, <2>3, Resolving DEF draftVars
  <2> QED
    BY <1>7, <2>2, <2>3 DEF AgentCloses
<1>8. ASSUME NEW c \in Askers, Drafts(c) PROVE ControlInv'
  <2>1. Leads(c) /\ Resolves(c) /\ ~serving /\ UNCHANGED serving
    BY <1>8, BegunLeads DEF Drafts, At, servedVars
  <2> QED
    BY <1>8, <2>1, Resolving DEF Drafts
<1>9. ASSUME NEW c \in Askers, Launches(c) PROVE ControlInv'
  <2>1. Leads(c) /\ Clean /\ UNCHANGED draftVars
    BY <1>9, BegunLeads DEF Launches, At
  <2>2. CASE serving' = TRUE /\ scope' = projectsFile /\ Reaches(c, "starting")
    BY <2>1, <2>2, Reaching DEF draftVars
  <2>3. CASE Resolves(c) /\ UNCHANGED <<serving, scope>>
    BY <2>1, <2>3, Resolving DEF draftVars
  <2> QED
    BY <1>9, <2>2, <2>3 DEF Launches
<1>10. ASSUME NEW c \in Askers, Started(c) PROVE ControlInv'
  <2>1. Leads(c) /\ Resolves(c)
    BY <1>10, BegunLeads DEF Started, At
  <2> QED
    BY <1>10, <2>1, Resolving DEF Started, draftVars
<1>11. ASSUME AppRestarts PROVE ControlInv'
  BY <1>11, IdleType DEF AppRestarts
<1>12. ASSUME UNCHANGED <<controlVars, servedVars>> PROVE ControlInv'
  BY <1>12 DEF controlVars, servedVars, draftVars
<1>13. ASSUME NEW w \in Windows, ReadsSession(w) \/ SetsSession(w) \/ Loads(w) \/ UserCloses(w)
      PROVE ControlInv'
  BY <1>13, <1>12 DEF ReadsSession, SetsSession, Loads, UserCloses, Advances
<1> QED
  BY <1>1, <1>3, <1>4, <1>5, <1>6, <1>7, <1>8, <1>9, <1>10, <1>11, <1>12, <1>13
     DEF AppNext, appVars, OpensWindow, Moves

-----------------------------------------------------------------------------
(* ApprovalWindows: an opening that is still current is the one the windows    *)
(* know, so that at most one can come to show its window.                      *)

UnderWay == {"session", "cookie", "load"}

OpeningsAreKnown ==
  \A w \in Windows : wins[w].at \in UnderWay /\ wins[w].generation = generation =>
    opening = w /\ wins[w].agent = owner

WindowsInv ==
  /\ wins \in [Windows -> Opened]
  /\ generation \in Nat /\ winCount \in Nat /\ appAgent \in Nat /\ appAgents \in Nat
  /\ \A w \in Windows : wins[w].generation <= generation
  /\ OpeningsAreKnown /\ WindowsAreKnown
  /\ \A w \in Windows : wins[w].at = "shown" => opening = 0

LEMMA WindowsStart == AppInit => WindowsInv
  BY DEF AppInit, WindowsInv, OpeningsAreKnown, WindowsAreKnown, NoWindow, Opened, UnderWay

LEMMA WindowsKeep == WindowsInv /\ [AppNext]_appVars => WindowsInv'
<1> SUFFICES ASSUME WindowsInv, [AppNext]_appVars PROVE WindowsInv'
  OBVIOUS
<1> USE DEF WindowsInv, OpeningsAreKnown, WindowsAreKnown, UnderWay
<1>1. Gone \in Opened /\ Gone.at = "gone" /\ Gone.generation = 0 /\ 0 \notin Windows
  BY DEF Gone, NoWindow, Opened, Windows
<1>2. ASSUME CloseWindows, UNCHANGED <<winCount, appAgent, appAgents>> PROVE WindowsInv'
  <2>1. wins' \in [Windows -> Opened]
    BY <1>1, <1>2 DEF CloseWindows
  <2>2. \A w \in Windows : wins'[w] = IF w = window THEN Gone ELSE wins[w]
    BY <1>1, <1>2 DEF CloseWindows
  <2>3. generation' = generation + 1 /\ UNCHANGED <<winCount, appAgent, appAgents>>
    BY <1>2 DEF CloseWindows
  <2>4. \A w \in Windows : wins'[w].at # "shown" /\ wins'[w].generation < generation'
    BY <1>1, <2>2, <2>3 DEF Opened
  <2> QED
    BY <2>1, <2>3, <2>4 DEF Opened
<1>3. ASSUME OpensWindow PROVE WindowsInv'
  BY <1>1, <1>3 DEF OpensWindow, Opened, servedVars
<1>4. ASSUME NEW w \in Windows, NEW from \in UnderWay, NEW to \in {"cookie", "load", "shown"},
             from # "load" => to # "shown", Advances(w, from, to)
      PROVE WindowsInv'
  BY <1>1, <1>4 DEF Advances, Current, Opened, servedVars
<1>5. ASSUME NEW w \in Windows, UserCloses(w) PROVE WindowsInv'
  BY <1>1, <1>5 DEF UserCloses, Opened, servedVars
<1>6. ASSUME AppRestarts PROVE WindowsInv'
  BY <1>6 DEF AppRestarts, NoWindow, Opened
<1>7. ASSUME UNCHANGED windowVars, appAgent' \in Nat, appAgents' \in Nat PROVE WindowsInv'
  BY <1>7 DEF windowVars
<1>8. ASSUME NEW c \in Askers, NEW q \in AppCommands, Invokes(c, q) PROVE WindowsInv'
  BY <1>8, <1>2, <1>7 DEF Invokes, servedVars
<1>9. ASSUME NEW c \in Askers,
             \/ TakesTurn(c) \/ HasVerified(c) \/ \E f \in Folders : VerifiesRoot(c, f)
             \/ StopsNow(c) \/ AgentCloses(c) \/ Drafts(c) \/ Launches(c) \/ Started(c)
      PROVE WindowsInv'
  BY <1>9, <1>7 DEF TakesTurn, HasVerified, VerifiesRoot, StopsNow, AgentCloses, Drafts, Launches, Started,
                    servedVars
<1>10. ASSUME NEW w \in Windows, ReadsSession(w) \/ SetsSession(w) \/ Loads(w) PROVE WindowsInv'
  BY <1>10, <1>4 DEF ReadsSession, SetsSession, Loads
<1> QED
  BY <1>3, <1>5, <1>6, <1>7, <1>8, <1>9, <1>10 DEF AppNext, appVars, Moves, servedVars

-----------------------------------------------------------------------------
(* The turns of an agent *)

Agents ==
  [at : {"idle", "infer", "tools", "register", "publish", "waiting", "granted", "spent", "ended"},
   turn : 0..MaxTurns, todo : Seq(AgentTools), done : Seq(AgentTools), rounds : 0..MaxRounds,
   asks : Approvals \cup {NoApproval},
   result : {"none", "completed", "refused", "failed", "error"}]

\* Points at which a tool has an approval.
AskPoints == {"register", "publish", "waiting", "granted", "spent"}

TurnsTyped ==
  /\ agent \in [Threads -> Agents]
  /\ kept \in [Threads -> Seq(Messages)] /\ talk \in [Threads -> Seq(Messages)]
  /\ \A t \in Threads :
       /\ agent[t].at # "ended" => agent[t].rounds < MaxRounds
       /\ agent[t].at # "idle" => agent[t].turn > 0
       /\ agent[t].at \in AskPoints => agent[t].todo # <<>> /\ agent[t].asks \in Approvals

AsksTyped ==
  /\ row \in [Threads -> {"idle", "dispatching", "running", "awaiting_approval", "completed",
                          "failed", "interrupted"}]
  /\ approval \in [Approvals -> [status : {"none", "pending", "approved", "denied", "consumed"},
                                 thread : Threads, turn : 0..MaxTurns, tool : AgentTools]]
  /\ waiters \subseteq Approvals /\ asked \subseteq Approvals
  /\ channel \in [Approvals -> {"open", "yes", "no", "closed"}]
  /\ user \in [Users -> [at : {"idle", "taken", "stored"}, id : Approvals \cup {NoApproval},
                         approve : BOOLEAN]]
  /\ \A u \in Users : user[u].at # "idle" => user[u].id \in Approvals
  /\ stops \in 0..MaxStops

AgentTyped == TurnsTyped /\ AsksTyped

LEMMA AgentIsTyped == AgentTyped => AgentType
<1> SUFFICES ASSUME AgentTyped PROVE AgentType
  OBVIOUS
<1>1. ASSUME NEW t \in Threads
      PROVE  /\ \A i \in 1..Len(kept[t]) : kept[t][i] \in Messages
             /\ \A i \in 1..Len(talk[t]) : talk[t][i] \in Messages
             /\ agent[t] \in Agents
  BY <1>1 DEF AgentTyped, TurnsTyped
<1> QED
  BY <1>1 DEF AgentTyped, AsksTyped, AgentType, Agents

LEMMA NoTurnTyped ==
  /\ NoTurn \in Agents /\ NoTurn.at = "idle" /\ NoTurn.rounds < MaxRounds /\ NoTurn.asks = NoApproval
  /\ NoTurn.todo = <<>> /\ NoTurn.turn = 0 /\ NoTurn.rounds = 0
  BY TurnAssumption DEF NoTurn, Agents

LEMMA AgentStarts == AgentInit /\ Threads # {} => AgentTyped
<1> SUFFICES ASSUME AgentInit, Threads # {} PROVE AgentTyped
  OBVIOUS
<1>1. agent \in [Threads -> Agents] /\ \A t \in Threads : agent[t] = NoTurn
  BY NoTurnTyped DEF AgentInit
<1>2. kept \in [Threads -> Seq(Messages)] /\ talk \in [Threads -> Seq(Messages)]
  BY DEF AgentInit
<1>3. NoAsk \in [status : {"none", "pending", "approved", "denied", "consumed"},
                 thread : Threads, turn : 0..MaxTurns, tool : AgentTools]
  BY TurnAssumption DEF NoAsk, AgentTools
<1>4. NoDecision \in [at : {"idle", "taken", "stored"}, id : Approvals \cup {NoApproval},
                      approve : BOOLEAN] /\ NoDecision.at = "idle"
  BY DEF NoDecision
<1>5. TurnsTyped
  BY <1>1, <1>2, NoTurnTyped DEF TurnsTyped, AskPoints
<1>6. AsksTyped
  BY <1>3, <1>4, TurnAssumption DEF AgentInit, AsksTyped
<1> QED
  BY <1>5, <1>6 DEF AgentTyped

\* The step of a turn leaves the other threads alone.
LEMMA MessageTyped ==
  ASSUME TurnsTyped, NEW t \in Threads, agent[t].at # "idle",
         NEW role \in {"user", "assistant", "refusal", "tool"}, NEW tools \in Seq(AgentTools)
  PROVE  Message(role, t, tools) \in Messages
<1>1. agent[t].turn \in 1..MaxTurns
  BY DEF TurnsTyped, Agents
<1> QED
  BY <1>1 DEF Message, Messages

\* What is left of the calls, and what is done, when one more is answered.
LEMMA CallsTyped ==
  ASSUME TurnsTyped, NEW t \in Threads, agent[t].todo # <<>>
  PROVE  /\ Tail(agent[t].todo) \in Seq(AgentTools)
         /\ Append(agent[t].done, Head(agent[t].todo)) \in Seq(AgentTools)
         /\ NextTool(t) \in AgentTools
<1>1. agent[t].todo \in Seq(AgentTools) /\ agent[t].done \in Seq(AgentTools)
  BY DEF TurnsTyped, Agents
<1>2. Head(agent[t].todo) \in AgentTools /\ Tail(agent[t].todo) \in Seq(AgentTools)
  BY <1>1
<1> QED
  BY <1>1, <1>2 DEF NextTool

\* The first tool has its answer: the turn looks at the next one.
LEMMA AnsweredTurn ==
  ASSUME TurnsTyped, NEW t \in Threads, agent[t].todo # <<>>, agent[t].at \in {"tools"} \cup AskPoints,
         Answered(t), UNCHANGED <<kept, talk>>
  PROVE  TurnsTyped'
<1> DEFINE new == [agent[t] EXCEPT !.at = "tools", !.todo = Tail(@),
                                  !.done = Append(@, Head(agent[t].todo)), !.asks = NoApproval]
<1>0. new \in Agents
  BY CallsTyped DEF TurnsTyped, Agents
<1>4. agent' = [agent EXCEPT ![t] = new]
  BY DEF TurnsTyped, Agents, Answered
<1>1. agent' \in [Threads -> Agents]
  BY <1>0, <1>4 DEF TurnsTyped
<1>2. /\ \A o \in Threads : o # t => agent'[o] = agent[o]
      /\ agent'[t].at = "tools" /\ agent'[t].rounds = agent[t].rounds /\ agent'[t].turn = agent[t].turn
  BY DEF TurnsTyped, Agents, Answered
<1>3. agent[t].rounds < MaxRounds /\ agent[t].turn > 0
  BY DEF TurnsTyped, AskPoints
<1> QED
  BY <1>1, <1>2, <1>3 DEF TurnsTyped, AskPoints

\* A turn goes from one point to another.
LEMMA MovedTurn ==
  ASSUME TurnsTyped, NEW t \in Threads, agent[t].at \notin {"idle", "ended"},
         NEW at \in {"infer", "tools"} \cup AskPoints, agent' = [agent EXCEPT ![t].at = at],
         at \in AskPoints => agent[t].todo # <<>> /\ agent[t].asks \in Approvals,
         UNCHANGED <<kept, talk>>
  PROVE  TurnsTyped'
<1>0. [agent[t] EXCEPT !.at = at] \in Agents
  BY DEF TurnsTyped, Agents, AskPoints
<1>1. agent' \in [Threads -> Agents]
  BY <1>0 DEF TurnsTyped
<1>2. /\ \A o \in Threads : o # t => agent'[o] = agent[o]
      /\ agent'[t].at = at /\ agent'[t].rounds = agent[t].rounds /\ agent'[t].turn = agent[t].turn
      /\ agent'[t].todo = agent[t].todo /\ agent'[t].asks = agent[t].asks
  BY DEF TurnsTyped, Agents
<1> QED
  BY <1>1, <1>2 DEF TurnsTyped, AskPoints

\* A turn returns, with the transcript to store.
LEMMA ReturnedTurn ==
  ASSUME TurnsTyped, NEW t \in Threads, agent[t].at = "infer",
         NEW result \in {"completed", "refused", "failed", "error"}, NEW said \in Seq(Messages),
         Returns(t, result, said), UNCHANGED kept
  PROVE  TurnsTyped'
<1> DEFINE new == [agent[t] EXCEPT !.at = "ended", !.result = result]
<1>0. new \in Agents
  BY DEF TurnsTyped, Agents
<1>3. agent' = [agent EXCEPT ![t] = new]
  BY DEF TurnsTyped, Agents, Returns
<1>4. talk' \in [Threads -> Seq(Messages)]
  BY DEF TurnsTyped, Returns
<1>1. agent' \in [Threads -> Agents] /\ talk' \in [Threads -> Seq(Messages)]
  BY <1>0, <1>3, <1>4 DEF TurnsTyped
<1>2. /\ \A o \in Threads : o # t => agent'[o] = agent[o]
      /\ agent'[t].at = "ended" /\ agent'[t].turn = agent[t].turn
  BY DEF TurnsTyped, Agents, Returns
<1> QED
  BY <1>1, <1>2 DEF TurnsTyped, AskPoints

\* A turn is over, or its application.
LEMMA OverTurn ==
  ASSUME TurnsTyped, NEW T \in SUBSET Threads,
         agent' = [t \in Threads |-> IF t \in T THEN [NoTurn EXCEPT !.turn = agent[t].turn] ELSE agent[t]],
         talk' = [t \in Threads |-> IF t \in T THEN <<>> ELSE talk[t]],
         UNCHANGED kept
  PROVE  TurnsTyped'
<1>1. \A t \in Threads :
        LET n == [NoTurn EXCEPT !.turn = agent[t].turn]
        IN n \in Agents /\ n.at = "idle" /\ n.rounds < MaxRounds
  BY NoTurnTyped DEF TurnsTyped, Agents
<1>2. agent' \in [Threads -> Agents] /\ talk' \in [Threads -> Seq(Messages)]
  BY <1>1 DEF TurnsTyped
<1> QED
  BY <1>1, <1>2 DEF TurnsTyped, AskPoints

LEMMA TurnStarted ==
  ASSUME TurnsTyped, NEW t \in Threads, StartsTurn(t)
  PROVE  TurnsTyped'
<1> DEFINE number == agent[t].turn + 1
           new == [NoTurn EXCEPT !.at = "infer", !.turn = number]
           message == [role |-> "user", turn |-> number, tools |-> <<>>]
           said == Append(kept[t], message)
<1>1. number \in 1..MaxTurns
  BY TurnAssumption DEF TurnsTyped, Agents, StartsTurn
<1>2. new \in Agents /\ new.at = "infer" /\ new.turn = number /\ new.rounds = 0
  <2> HIDE DEF number
  <2>1. number \in 0..MaxTurns
    BY <1>1
  <2> QED
    BY <2>1, NoTurnTyped DEF Agents
<1>3. message \in Messages
  BY <1>1 DEF Messages
<1>4. said \in Seq(Messages)
  BY <1>3 DEF TurnsTyped
<1>5. /\ agent' = [agent EXCEPT ![t] = new] /\ kept' = [kept EXCEPT ![t] = said]
      /\ talk' = [talk EXCEPT ![t] = said]
  BY DEF StartsTurn
<1> HIDE DEF number, new, said
<1> QED
  BY <1>1, <1>2, <1>4, <1>5, TurnAssumption DEF TurnsTyped, AskPoints

\* The steps of a turn, by what they do with it.
TurnStep(t) ==
  \/ StartsTurn(t) \/ ProviderFails(t) \/ Refuses(t) \/ Completes(t) \/ CallsTools(t)
  \/ RunsTool(t) \/ FailsTool(t) \/ Asks(t) \/ Registers(t) \/ Publishes(t) \/ Hears(t)
  \/ Spends(t) \/ Executes(t) \/ EndsRound(t) \/ StoresMessage(t) \/ Finishes(t) \/ Interrupts(t)

UserStep(u) == Decides(u) \/ StoresDecision(u) \/ SendsDecision(u)

LEMMA TurnsStep ==
  ASSUME TurnsTyped, NEW t \in Threads, TurnStep(t)
  PROVE  TurnsTyped'
<1>0. agent[t] \in Agents /\ kept[t] \in Seq(Messages) /\ talk[t] \in Seq(Messages)
  BY DEF TurnsTyped
<1>1. ASSUME ProviderFails(t) PROVE TurnsTyped'
  BY <1>0, <1>1, ReturnedTurn DEF ProviderFails
<1>2. ASSUME Refuses(t) PROVE TurnsTyped'
  <2>1. PICK calls \in Replies \cup {<<>>} :
          Returns(t, "refused", Append(talk[t], Message("refusal", t, calls)))
    BY <1>2 DEF Refuses
  <2>0. <<>> \in Seq(AgentTools)
    OBVIOUS
  <2>2. calls \in Seq(AgentTools)
    BY <2>0, ReplyAssumption
  <2>3. Message("refusal", t, calls) \in Messages
    BY <1>2, <2>2, MessageTyped DEF Refuses
  <2>4. Append(talk[t], Message("refusal", t, calls)) \in Seq(Messages)
    BY <1>0, <2>3
  <2> QED
    BY <1>2, <2>1, <2>4, ReturnedTurn DEF Refuses
<1>3. ASSUME Completes(t) PROVE TurnsTyped'
  <2>0. <<>> \in Seq(AgentTools)
    OBVIOUS
  <2>1. Message("assistant", t, <<>>) \in Messages
    BY <1>3, <2>0, MessageTyped DEF Completes
  <2>2. Append(talk[t], Message("assistant", t, <<>>)) \in Seq(Messages)
    BY <1>0, <2>1
  <2> QED
    BY <1>3, <2>2, ReturnedTurn DEF Completes
<1>4. ASSUME CallsTools(t) PROVE TurnsTyped'
  <2>1. PICK calls \in Replies :
          /\ talk' = [talk EXCEPT ![t] = Append(@, Message("assistant", t, calls))]
          /\ agent' = [agent EXCEPT ![t].at = "tools", ![t].todo = calls, ![t].done = <<>>]
    BY <1>4 DEF CallsTools
  <2> DEFINE new == [agent[t] EXCEPT !.at = "tools", !.todo = calls, !.done = <<>>]
  <2>2. calls \in Seq(AgentTools) /\ <<>> \in Seq(AgentTools)
    BY ReplyAssumption
  <2>3. Message("assistant", t, calls) \in Messages
    BY <1>4, <2>2, MessageTyped DEF CallsTools
  <2>4. Append(talk[t], Message("assistant", t, calls)) \in Seq(Messages)
    BY <1>0, <2>3
  <2>5. new \in Agents /\ new.at = "tools" /\ new.rounds = agent[t].rounds /\ new.turn = agent[t].turn
    BY <1>0, <2>2 DEF Agents
  <2>6. agent' = [agent EXCEPT ![t] = new]
    BY <1>0, <2>1 DEF TurnsTyped, Agents
  <2>7. talk' \in [Threads -> Seq(Messages)]
    BY <2>1, <2>4 DEF TurnsTyped
  <2>8. agent[t].at = "infer" /\ UNCHANGED kept
    BY <1>4 DEF CallsTools
  <2> HIDE DEF new
  <2> QED
    BY <2>5, <2>6, <2>7, <2>8 DEF TurnsTyped, AskPoints
<1>5. ASSUME RunsTool(t) \/ FailsTool(t) PROVE TurnsTyped'
  BY <1>5, AnsweredTurn DEF RunsTool, FailsTool, Errs
<1>6. ASSUME Asks(t) PROVE TurnsTyped'
  <2>1. PICK a \in Approvals : agent' = [agent EXCEPT ![t].at = "register", ![t].asks = a]
    BY <1>6 DEF Asks
  <2> DEFINE new == [agent[t] EXCEPT !.at = "register", !.asks = a]
  <2>2. /\ new \in Agents /\ new.at = "register" /\ new.rounds = agent[t].rounds
        /\ new.turn = agent[t].turn /\ new.asks = a /\ new.todo = agent[t].todo
    BY <1>0 DEF Agents
  <2>3. agent' = [agent EXCEPT ![t] = new]
    BY <1>0, <2>1 DEF TurnsTyped, Agents
  <2>4. agent[t].at = "tools" /\ agent[t].todo # <<>> /\ UNCHANGED <<kept, talk>>
    BY <1>6 DEF Asks
  <2> HIDE DEF new
  <2> QED
    BY <2>2, <2>3, <2>4 DEF TurnsTyped, AskPoints
<1>7. ASSUME Registers(t) PROVE TurnsTyped'
  BY <1>7, MovedTurn DEF Registers, TurnsTyped, AskPoints
<1>8. ASSUME Publishes(t) PROVE TurnsTyped'
  <2>1. agent[t].at = "publish" /\ agent[t].todo # <<>> /\ agent[t].asks \in Approvals /\ UNCHANGED <<kept, talk>>
    BY <1>8 DEF Publishes, TurnsTyped, AskPoints
  <2>2. Answered(t) \/ agent' = [agent EXCEPT ![t].at = "waiting"]
    BY <1>8 DEF Publishes, Errs
  <2> QED
    BY <2>1, <2>2, AnsweredTurn, MovedTurn DEF AskPoints
<1>9. ASSUME Hears(t) PROVE TurnsTyped'
  <2>1. agent[t].at = "waiting" /\ agent[t].todo # <<>> /\ agent[t].asks \in Approvals /\ UNCHANGED <<kept, talk>>
    BY <1>9 DEF Hears, TurnsTyped, AskPoints
  <2>2. Answered(t) \/ agent' = [agent EXCEPT ![t].at = "granted"]
    BY <1>9 DEF Hears, Errs
  <2> QED
    BY <2>1, <2>2, AnsweredTurn, MovedTurn DEF AskPoints
<1>10. ASSUME Spends(t) PROVE TurnsTyped'
  <2>1. agent[t].at = "granted" /\ agent[t].todo # <<>> /\ agent[t].asks \in Approvals /\ UNCHANGED <<kept, talk>>
    BY <1>10 DEF Spends, TurnsTyped, AskPoints
  <2>2. Answered(t) \/ agent' = [agent EXCEPT ![t].at = "spent"]
    BY <1>10 DEF Spends, Errs
  <2> QED
    BY <2>1, <2>2, AnsweredTurn, MovedTurn DEF AskPoints
<1>11. ASSUME Executes(t) PROVE TurnsTyped'
  <2>1. agent[t].at = "spent" /\ agent[t].todo # <<>> /\ UNCHANGED <<kept, talk>> /\ Answered(t)
    BY <1>11 DEF Executes, TurnsTyped, AskPoints
  <2> QED
    BY <2>1, AnsweredTurn DEF AskPoints
<1>12. ASSUME EndsRound(t) PROVE TurnsTyped'
  <2> DEFINE at == IF RequestsLeft(t) THEN "infer" ELSE "ended"
             result == IF RequestsLeft(t) THEN "none" ELSE "failed"
             new == [agent[t] EXCEPT !.rounds = @ + 1, !.at = at, !.result = result]
  <2>1. agent[t].at = "tools" /\ UNCHANGED kept
    BY <1>12 DEF EndsRound
  <2>2. agent[t].rounds < MaxRounds /\ agent[t].turn > 0 /\ agent[t].rounds \in Nat
    BY <2>1 DEF TurnsTyped, Agents
  <2>3. agent[t].rounds + 1 \in 0..MaxRounds
    BY <2>2, TurnAssumption
  <2>4. new \in Agents /\ new.at = at /\ new.rounds = agent[t].rounds + 1 /\ new.turn = agent[t].turn
    BY <1>0, <2>3 DEF Agents
  <2>5. agent' = [agent EXCEPT ![t] = new]
    BY <1>0, <1>12 DEF TurnsTyped, Agents, EndsRound
  <2>6. at # "ended" => agent[t].rounds + 1 < MaxRounds
    BY DEF RequestsLeft
  <2>7. at \in {"infer", "ended"}
    OBVIOUS
  <2>8. Message("tool", t, agent[t].done) \in Messages
    BY <1>0, <2>1, MessageTyped DEF Agents
  <2>9. Append(talk[t], Message("tool", t, agent[t].done)) \in Seq(Messages)
    BY <1>0, <2>8
  <2>10. talk' \in [Threads -> Seq(Messages)]
    BY <1>12, <2>9 DEF TurnsTyped, EndsRound
  <2> HIDE DEF new, at
  <2> QED
    BY <2>1, <2>2, <2>4, <2>5, <2>6, <2>7, <2>10 DEF TurnsTyped, AskPoints
<1>13. ASSUME StoresMessage(t) PROVE TurnsTyped'
  <2>1. Len(kept[t]) + 1 \in 1..Len(talk[t])
    BY <1>0, <1>13 DEF StoresMessage
  <2>2. talk[t][Len(kept[t]) + 1] \in Messages
    BY <1>0, <2>1
  <2>3. Append(kept[t], talk[t][Len(kept[t]) + 1]) \in Seq(Messages)
    BY <1>0, <2>2
  <2> QED
    BY <1>13, <2>3 DEF StoresMessage, TurnsTyped
<1>14. ASSUME Finishes(t) \/ Interrupts(t) PROVE TurnsTyped'
  <2>1. /\ agent' = [agent EXCEPT ![t] = [NoTurn EXCEPT !.turn = agent[t].turn]]
        /\ talk' = [talk EXCEPT ![t] = <<>>] /\ UNCHANGED kept
    BY <1>14 DEF Finishes, Interrupts
  <2>2. agent' = [o \in Threads |-> IF o \in {t} THEN [NoTurn EXCEPT !.turn = agent[o].turn] ELSE agent[o]]
    BY <2>1 DEF TurnsTyped
  <2>3. talk' = [o \in Threads |-> IF o \in {t} THEN <<>> ELSE talk[o]]
    BY <2>1 DEF TurnsTyped
  <2> QED
    BY <2>1, <2>2, <2>3, OverTurn
<1> QED
  BY <1>1, <1>2, <1>3, <1>4, <1>5, <1>6, <1>7, <1>8, <1>9, <1>10, <1>11, <1>12, <1>13, <1>14, TurnStarted
     DEF TurnStep

LEMMA TurnsKeep == TurnsTyped /\ [AgentNext]_agentVars => TurnsTyped'
<1> SUFFICES ASSUME TurnsTyped, [AgentNext]_agentVars PROVE TurnsTyped'
  OBVIOUS
<1>1. ASSUME NEW u \in Users, UserStep(u) PROVE TurnsTyped'
  BY <1>1 DEF UserStep, Decides, StoresDecision, SendsDecision, TurnsTyped
<1>2. ASSUME Stop PROVE TurnsTyped'
  <2>1. /\ agent' = [t \in Threads |-> IF t \in Threads THEN [NoTurn EXCEPT !.turn = agent[t].turn] ELSE agent[t]]
        /\ talk' = [t \in Threads |-> IF t \in Threads THEN <<>> ELSE talk[t]] /\ UNCHANGED kept
    BY <1>2 DEF Stop
  <2> QED
    BY <2>1, OverTurn
<1>3. ASSUME UNCHANGED agentVars PROVE TurnsTyped'
  BY <1>3 DEF agentVars, TurnsTyped
<1> QED
  BY <1>1, <1>2, <1>3, TurnsStep DEF AgentNext, TurnStep, UserStep

LEMMA DecidedTyped ==
  ASSUME AsksTyped, NEW a \in Approvals, NEW approve
  PROVE  Decided(a, approve) \in [Approvals -> [status : {"none", "pending", "approved", "denied", "consumed"},
                                 thread : Threads, turn : 0..MaxTurns, tool : AgentTools]]
BY DEF AsksTyped, Decided

LEMMA AsksStep ==
  ASSUME AgentTyped, NEW t \in Threads, TurnStep(t)
  PROVE  AsksTyped'
<1> USE DEF AgentTyped, AsksTyped
<1>0. /\ agent[t] \in Agents
      /\ agent[t].at \in AskPoints => agent[t].asks \in Approvals /\ NextTool(t) \in AgentTools
  BY CallsTyped DEF TurnsTyped
<1>1. ASSUME \/ ProviderFails(t) \/ Refuses(t) \/ Completes(t) \/ CallsTools(t) \/ RunsTool(t)
             \/ FailsTool(t) \/ Hears(t) \/ EndsRound(t) \/ StoresMessage(t)
      PROVE AsksTyped'
  BY <1>1 DEF ProviderFails, Refuses, Completes, CallsTools, RunsTool, FailsTool, Hears, EndsRound, StoresMessage
<1>2. ASSUME StartsTurn(t) \/ Finishes(t) \/ Interrupts(t) \/ Executes(t) PROVE AsksTyped'
  BY <1>2 DEF StartsTurn, Finishes, Interrupts, Executes
<1>3. ASSUME Asks(t) PROVE AsksTyped'
  <2>1. NextTool(t) \in AgentTools /\ agent[t].turn \in 0..MaxTurns
    BY <1>0, <1>3, CallsTyped DEF Asks, Agents
  <2>2. row' = [row EXCEPT ![t] = "awaiting_approval"] /\ UNCHANGED <<waiters, channel, asked, user, stops>>
    BY <1>3 DEF Asks
  <2>3. PICK a \in Approvals : approval' = [approval EXCEPT ![a] =
            [status |-> "pending", thread |-> t, turn |-> agent[t].turn, tool |-> NextTool(t)]]
    BY <1>3 DEF Asks
  <2> QED
    BY <2>1, <2>2, <2>3
<1>4. ASSUME Registers(t) PROVE AsksTyped'
  BY <1>0, <1>4 DEF Registers, AskPoints
<1>6. ASSUME Publishes(t) PROVE AsksTyped'
  <2>1. agent[t].asks \in Approvals
    BY <1>0, <1>6 DEF Publishes, AskPoints
  <2>2. UNCHANGED <<row, channel, user, stops>>
    BY <1>6 DEF Publishes
  <2>3. \/ asked' = asked \cup {agent[t].asks} /\ UNCHANGED <<approval, waiters>>
        \/ waiters' = waiters \ {agent[t].asks} /\ approval' = Decided(agent[t].asks, FALSE) /\ UNCHANGED asked
    BY <1>6 DEF Publishes
  <2>4. Decided(agent[t].asks, FALSE) \in
          [Approvals -> [status : {"none", "pending", "approved", "denied", "consumed"},
                         thread : Threads, turn : 0..MaxTurns, tool : AgentTools]]
    BY <2>1, DecidedTyped
  <2> QED
    BY <2>1, <2>2, <2>3, <2>4
<1>7. ASSUME Spends(t) PROVE AsksTyped'
  BY <1>7 DEF Spends
<1> QED
  BY <1>1, <1>2, <1>3, <1>4, <1>6, <1>7 DEF TurnStep

LEMMA AgentKeeps == AgentTyped /\ [AgentNext]_agentVars => AgentTyped'
<1> SUFFICES ASSUME AgentTyped, [AgentNext]_agentVars PROVE AsksTyped'
  BY TurnsKeep DEF AgentTyped
<1> USE DEF AgentTyped, AsksTyped
<1>0. NoDecision \in [at : {"idle", "taken", "stored"}, id : Approvals \cup {NoApproval},
                      approve : BOOLEAN] /\ NoDecision.at = "idle"
  BY DEF NoDecision
<1>1. ASSUME NEW u \in Users, Decides(u) PROVE AsksTyped'
  BY <1>1 DEF Decides
<1>2. ASSUME NEW u \in Users, StoresDecision(u) PROVE AsksTyped'
  <2>1. user[u].id \in Approvals /\ UNCHANGED <<row, waiters, asked, stops>>
    BY <1>2 DEF StoresDecision
  <2>2. CASE /\ approval' = Decided(user[u].id, user[u].approve)
             /\ user' = [user EXCEPT ![u].at = "stored"] /\ UNCHANGED channel
    <3>1. approval' \in [Approvals -> [status : {"none", "pending", "approved", "denied", "consumed"},
                                       thread : Threads, turn : 0..MaxTurns, tool : AgentTools]]
      BY <2>1, <2>2, DecidedTyped
    <3> QED
      BY <2>1, <2>2, <3>1
  <2>3. CASE /\ channel' = [channel EXCEPT ![user[u].id] = "closed"]
             /\ user' = [user EXCEPT ![u] = NoDecision] /\ UNCHANGED approval
    BY <1>0, <2>1, <2>3
  <2> QED
    BY <1>2, <2>2, <2>3 DEF StoresDecision, DecisionStored
<1>3. ASSUME NEW u \in Users, SendsDecision(u) PROVE AsksTyped'
  BY <1>0, <1>3 DEF SendsDecision
<1>4. ASSUME Stop PROVE AsksTyped'
  BY <1>0, <1>4, TurnAssumption DEF Stop
<1>5. ASSUME UNCHANGED agentVars PROVE AsksTyped'
  BY <1>5 DEF agentVars
<1> QED
  BY <1>1, <1>2, <1>3, <1>4, <1>5, AsksStep DEF AgentNext, TurnStep


\* A thread that asks is a worker, before its command, with an approval of its own for
\* it: the user is shown it when it is published, and it is spent before the command runs.
AsksOf(t) ==
  LET a == agent[t].asks
  IN /\ agent[t].at \notin AskPoints => a = NoApproval
     /\ agent[t].at \in AskPoints =>
          /\ t \in Workers /\ NextTool(t) = "outside"
          /\ approval[a].status # "none"
          /\ approval[a].thread = t /\ approval[a].turn = agent[t].turn
          /\ approval[a].tool = "outside"
     /\ agent[t].at \in {"register", "publish"} => a \notin asked
     /\ agent[t].at \in {"waiting", "granted", "spent"} => a \in asked
     /\ agent[t].at = "publish" => a \in waiters
     /\ agent[t].at = "spent" =>
          approval[a].status = "consumed" /\ \A x \in changed : x.approval # a

ShownAreAsked ==
  /\ \A a \in asked : approval[a].status # "none"
  /\ \A u \in Users : user[u].at # "idle" => user[u].id \in asked

SpentOnce ==
  \A x \in changed : x.approval # NoApproval =>
    x.approval \in Approvals /\ approval[x.approval].status = "consumed"

ApprovalInv ==
  /\ \A t \in Threads : AsksOf(t)
  /\ ShownAreAsked /\ SpentOnce /\ ChangesAreAllowed /\ WaitersAreHeard

\* A step leaves the other threads that ask alone when it takes approvals that nobody
\* has, or touches that of its own thread only.
LEMMA OthersAsk ==
  ASSUME AgentTyped, \A o \in Threads : AsksOf(o), NEW t \in Threads,
         \A o \in Threads : o # t => agent'[o] = agent[o],
         \A a \in Approvals : a # agent[t].asks /\ approval[a].status # "none" => approval'[a] = approval[a],
         \A a \in Approvals : a # agent[t].asks => (a \in asked' => a \in asked) /\ (a \in asked => a \in asked'),
         \A a \in Approvals : a # agent[t].asks => (a \in waiters => a \in waiters'),
         \A x \in changed' : x \in changed \/ x.approval = agent[t].asks
  PROVE  \A o \in Threads : o # t => AsksOf(o)'
<1> SUFFICES ASSUME NEW o \in Threads, o # t PROVE AsksOf(o)'
  OBVIOUS
<1>1. agent'[o] = agent[o] /\ AsksOf(o) /\ AsksOf(t)
  OBVIOUS
<1>2. CASE agent[o].at \notin AskPoints
  BY <1>1, <1>2 DEF AsksOf, AskPoints
<1>3. CASE agent[o].at \in AskPoints
  <2>1. /\ agent[o].asks \in Approvals /\ approval[agent[o].asks].thread = o
        /\ approval[agent[o].asks].status # "none"
    BY <1>1, <1>3 DEF AsksOf, AgentTyped, TurnsTyped
  <2>2. agent[t].at \in AskPoints => approval[agent[t].asks].thread = t
    BY <1>1 DEF AsksOf
  <2>3. agent[o].asks # agent[t].asks
    BY <1>1, <2>1, <2>2, ApprovalAssumption DEF AsksOf
  <2>4. approval'[agent[o].asks] = approval[agent[o].asks]
    BY <2>1, <2>3
  <2> QED
    BY <1>1, <1>3, <2>1, <2>3, <2>4 DEF AsksOf, NextTool, AskPoints
<1> QED
  BY <1>2, <1>3

\* What a turn did stays allowed while approvals are spent once and shown for good.
LEMMA ChangesStay ==
  ASSUME AgentTyped, SpentOnce, ChangesAreAllowed,
         \A a \in Approvals : approval[a].status = "consumed" => approval'[a] = approval[a],
         asked \subseteq asked'
  PROVE  \A x \in changed :
           /\ x.thread \in Workers /\ x.tool # "never" /\ ~x.again
           /\ x.tool = "outside" =>
                /\ x.approval \in asked'
                /\ approval'[x.approval] = [status |-> "consumed", thread |-> x.thread,
                                            turn |-> x.turn, tool |-> x.tool]
           /\ x.approval # NoApproval =>
                x.approval \in Approvals /\ approval'[x.approval].status = "consumed"
<1> SUFFICES ASSUME NEW x \in changed
             PROVE /\ x.thread \in Workers /\ x.tool # "never" /\ ~x.again
                   /\ x.tool = "outside" =>
                        /\ x.approval \in asked'
                        /\ approval'[x.approval] = [status |-> "consumed", thread |-> x.thread,
                                                    turn |-> x.turn, tool |-> x.tool]
                   /\ x.approval # NoApproval =>
                        x.approval \in Approvals /\ approval'[x.approval].status = "consumed"
  OBVIOUS
<1>1. x.thread \in Workers /\ x.tool # "never" /\ ~x.again
  BY DEF ChangesAreAllowed
<1>2. x.approval # NoApproval =>
        x.approval \in Approvals /\ approval[x.approval].status = "consumed"
  BY DEF SpentOnce
<1>3. ASSUME x.tool = "outside"
      PROVE /\ x.approval \in asked
            /\ approval[x.approval] = [status |-> "consumed", thread |-> x.thread,
                                       turn |-> x.turn, tool |-> x.tool]
  BY <1>3 DEF ChangesAreAllowed
<1>4. ASSUME x.tool = "outside"
      PROVE  x.approval \in Approvals /\ approval[x.approval].status = "consumed"
  BY <1>3, <1>4 DEF AgentTyped, AsksTyped
<1> QED
  BY <1>1, <1>2, <1>3, <1>4

\* A turn that neither asks nor changes anything.
LEMMA QuietTurn ==
  ASSUME AgentTyped, ApprovalInv, NEW t \in Threads,
         \A o \in Threads : o # t => agent'[o] = agent[o],
         \/ agent'[t].at \notin AskPoints /\ agent'[t].asks = NoApproval
         \/ /\ agent[t].at = "waiting" /\ agent'[t].at = "granted"
            /\ agent'[t].asks = agent[t].asks /\ agent'[t].turn = agent[t].turn
            /\ agent'[t].todo = agent[t].todo,
         UNCHANGED <<approval, waiters, channel, asked, user, changed>>
  PROVE  ApprovalInv'
<1>1. \A o \in Threads : o # t => AsksOf(o)'
  BY OthersAsk DEF ApprovalInv
<1>2. AsksOf(t)'
  <2>1. AsksOf(t)
    BY DEF ApprovalInv
  <2> QED
    BY <2>1 DEF AsksOf, AskPoints, NextTool
<1>3. ShownAreAsked' /\ SpentOnce' /\ ChangesAreAllowed'
  BY DEF ApprovalInv, ShownAreAsked, SpentOnce, ChangesAreAllowed
<1>4. WaitersAreHeard'
  BY DEF ApprovalInv, WaitersAreHeard, AskPoints
<1> QED
  BY <1>1, <1>2, <1>3, <1>4 DEF ApprovalInv

\* How the record of a turn changes.
LEMMA AnsweredShape ==
  ASSUME TurnsTyped, NEW t \in Threads, Answered(t)
  PROVE  /\ \A o \in Threads : o # t => agent'[o] = agent[o]
         /\ agent'[t].at = "tools" /\ agent'[t].asks = NoApproval
BY DEF TurnsTyped, Agents, Answered

LEMMA MovedShape ==
  ASSUME TurnsTyped, NEW t \in Threads, NEW at, agent' = [agent EXCEPT ![t].at = at]
  PROVE  /\ \A o \in Threads : o # t => agent'[o] = agent[o]
         /\ agent'[t].at = at /\ agent'[t].asks = agent[t].asks /\ agent'[t].turn = agent[t].turn
         /\ agent'[t].todo = agent[t].todo
BY DEF TurnsTyped, Agents

LEMMA QuietSteps ==
  ASSUME AgentTyped, ApprovalInv, NEW t \in Threads,
         \/ StartsTurn(t) \/ ProviderFails(t) \/ Refuses(t) \/ Completes(t) \/ CallsTools(t)
         \/ FailsTool(t) \/ Hears(t) \/ EndsRound(t) \/ StoresMessage(t) \/ Finishes(t) \/ Interrupts(t)
  PROVE  ApprovalInv'
<1>0. /\ TurnsTyped /\ AsksOf(t) /\ agent[t] \in Agents
      /\ UNCHANGED <<approval, waiters, channel, asked, user, changed>>
  BY DEF AgentTyped, TurnsTyped, ApprovalInv, StartsTurn, ProviderFails, Refuses, Completes, CallsTools, FailsTool,
         Hears, EndsRound, StoresMessage, Finishes, Interrupts
<1>1. ASSUME StartsTurn(t) \/ Finishes(t) \/ Interrupts(t) PROVE ApprovalInv'
  <2>1. PICK new : /\ agent' = [agent EXCEPT ![t] = new]
                   /\ new.at \in {"idle", "infer"} /\ new.asks = NoApproval
    <3>1. ASSUME NEW number
          PROVE  LET fresh == [NoTurn EXCEPT !.at = "infer", !.turn = number]
                     over == [NoTurn EXCEPT !.turn = number]
                 IN /\ fresh.at = "infer" /\ fresh.asks = NoApproval
                    /\ over.at = "idle" /\ over.asks = NoApproval
      BY DEF NoTurn
    <3>2. CASE StartsTurn(t)
      BY <3>1, <3>2 DEF StartsTurn
    <3>3. CASE Finishes(t) \/ Interrupts(t)
      <4> DEFINE over == [NoTurn EXCEPT !.turn = agent[t].turn]
      <4>1. agent' = [agent EXCEPT ![t] = over]
        BY <3>3 DEF Finishes, Interrupts
      <4>2. over.at = "idle" /\ over.asks = NoApproval
        BY <3>1
      <4> HIDE DEF over
      <4> QED
        BY <4>1, <4>2
    <3> QED
      BY <1>1, <3>2, <3>3
  <2>2. /\ \A o \in Threads : o # t => agent'[o] = agent[o]
        /\ agent'[t].at \in {"idle", "infer"} /\ agent'[t].asks = NoApproval
    BY <1>0, <2>1 DEF TurnsTyped
  <2> QED
    BY <1>0, <2>2, QuietTurn DEF AskPoints
<1>2. ASSUME ProviderFails(t) \/ Refuses(t) \/ Completes(t) PROVE ApprovalInv'
  <2>1. PICK result : agent' = [agent EXCEPT ![t].at = "ended", ![t].result = result]
    BY <1>2 DEF ProviderFails, Refuses, Completes, Returns
  <2>2. /\ \A o \in Threads : o # t => agent'[o] = agent[o]
        /\ agent'[t].at = "ended" /\ agent'[t].asks = agent[t].asks
    BY <1>0, <2>1 DEF TurnsTyped, Agents
  <2>3. agent[t].asks = NoApproval
    BY <1>0, <1>2 DEF AsksOf, AskPoints, ProviderFails, Refuses, Completes
  <2> QED
    BY <1>0, <2>2, <2>3, QuietTurn DEF AskPoints
<1>3. ASSUME CallsTools(t) PROVE ApprovalInv'
  <2>1. PICK calls : agent' = [agent EXCEPT ![t].at = "tools", ![t].todo = calls, ![t].done = <<>>]
    BY <1>3 DEF CallsTools
  <2>2. /\ \A o \in Threads : o # t => agent'[o] = agent[o]
        /\ agent'[t].at = "tools" /\ agent'[t].asks = agent[t].asks
    BY <1>0, <2>1 DEF TurnsTyped, Agents
  <2>3. agent[t].asks = NoApproval
    BY <1>0, <1>3 DEF AsksOf, AskPoints, CallsTools
  <2> QED
    BY <1>0, <2>2, <2>3, QuietTurn DEF AskPoints
<1>4. ASSUME FailsTool(t) PROVE ApprovalInv'
  BY <1>0, <1>4, AnsweredShape, QuietTurn DEF FailsTool, Errs, AskPoints
<1>5. ASSUME Hears(t) PROVE ApprovalInv'
  <2>1. Answered(t) \/ agent' = [agent EXCEPT ![t].at = "granted"]
    BY <1>5 DEF Hears, Errs
  <2>2. CASE Answered(t)
    BY <1>0, <2>2, AnsweredShape, QuietTurn DEF AskPoints
  <2>3. CASE agent' = [agent EXCEPT ![t].at = "granted"]
    BY <1>0, <1>5, <2>3, MovedShape, QuietTurn DEF Hears
  <2> QED
    BY <2>1, <2>2, <2>3
<1>6. ASSUME EndsRound(t) PROVE ApprovalInv'
  <2>1. PICK at \in {"infer", "ended"}, result \in {"none", "failed"} :
          agent' = [agent EXCEPT ![t].rounds = @ + 1, ![t].at = at, ![t].result = result]
    BY <1>6 DEF EndsRound
  <2>2. /\ \A o \in Threads : o # t => agent'[o] = agent[o]
        /\ agent'[t].at = at /\ agent'[t].asks = agent[t].asks
    BY <1>0, <2>1 DEF TurnsTyped, Agents
  <2>3. agent[t].asks = NoApproval
    BY <1>0, <1>6 DEF AsksOf, AskPoints, EndsRound
  <2> QED
    BY <1>0, <2>2, <2>3, QuietTurn DEF AskPoints
<1>7. ASSUME StoresMessage(t) PROVE ApprovalInv'
  BY <1>0, <1>7, QuietTurn DEF StoresMessage, AsksOf, AskPoints
<1> QED
  BY <1>1, <1>2, <1>3, <1>4, <1>5, <1>6, <1>7

\* What a tool that changes something notes.
LEMMA ChangeShape ==
  ASSUME NEW t \in Threads, Changes(t),
         agent[t].asks = NoApproval \/ \A x \in changed : x.approval # agent[t].asks
  PROVE  \E new : /\ changed' = changed \cup {new}
                  /\ new.thread = t /\ new.turn = agent[t].turn /\ new.tool = NextTool(t)
                  /\ new.approval = agent[t].asks /\ ~new.again
<1> DEFINE again == \E x \in changed : x.approval = agent[t].asks /\ agent[t].asks # NoApproval
           new == [thread |-> t, turn |-> agent[t].turn, tool |-> NextTool(t),
                   approval |-> agent[t].asks, again |-> again]
<1>1. changed' = changed \cup {new}
  BY Zenon DEF Changes
<1>2. ~again
  OBVIOUS
<1> HIDE DEF again
<1>3. /\ new.thread = t /\ new.turn = agent[t].turn /\ new.tool = NextTool(t)
      /\ new.approval = agent[t].asks /\ new.again = again
  OBVIOUS
<1>4. ~new.again
  BY Zenon, <1>2, <1>3
<1> HIDE DEF new
<1> QED
  BY <1>1, <1>3, <1>4

\* A tool that needs no approval is of a worker, when it changes something.
LEMMA ToolRuns ==
  ASSUME AgentTyped, ApprovalInv, NEW t \in Threads, RunsTool(t)
  PROVE  ApprovalInv'
<1>0. /\ TurnsTyped /\ AsksOf(t) /\ agent[t].at = "tools" /\ agent[t].asks = NoApproval
      /\ UNCHANGED <<approval, waiters, channel, asked, user>>
      /\ \A o \in Threads : o # t => agent'[o] = agent[o]
      /\ agent'[t].at = "tools" /\ agent'[t].asks = NoApproval
  BY AnsweredShape DEF AgentTyped, ApprovalInv, RunsTool, AsksOf, AskPoints
<1>1. CASE UNCHANGED changed
  BY <1>0, <1>1, QuietTurn DEF AskPoints
<1>2. CASE Changes(t) /\ NextTool(t) # "look"
  <2>1. PICK new : /\ changed' = changed \cup {new}
                   /\ new.thread = t /\ new.tool = NextTool(t) /\ new.approval = NoApproval /\ ~new.again
    BY <1>0, <1>2, ChangeShape
  <2>2. t \in Workers /\ NextTool(t) \in {"replace", "listed"}
    BY <1>2 DEF RunsTool, Allowed
  <2>3. \A o \in Threads : o # t => AsksOf(o)'
    BY <1>0, <2>1, OthersAsk DEF ApprovalInv
  <2>4. AsksOf(t)'
    BY <1>0 DEF AsksOf, AskPoints
  <2>5. ShownAreAsked'
    BY <1>0 DEF ApprovalInv, ShownAreAsked
  <2>6. SpentOnce'
    BY <1>0, <2>1 DEF ApprovalInv, SpentOnce
  <2>7. ChangesAreAllowed'
    BY <1>0, <2>1, <2>2 DEF ApprovalInv, ChangesAreAllowed
  <2>8. WaitersAreHeard'
    BY <1>0 DEF ApprovalInv, WaitersAreHeard
  <2> QED
    BY <2>3, <2>4, <2>5, <2>6, <2>7, <2>8 DEF ApprovalInv
<1> QED
  BY <1>1, <1>2 DEF RunsTool

\* The approval that is asked for is new: nobody has it, and nothing was changed by it.
LEMMA ToolAsks ==
  ASSUME AgentTyped, ApprovalInv, NEW t \in Threads, Asks(t)
  PROVE  ApprovalInv'
<1> DEFINE new(a) == [status |-> "pending", thread |-> t, turn |-> agent[t].turn, tool |-> NextTool(t)]
<1>1. PICK a \in Approvals :
        /\ approval[a].status = "none"
        /\ approval' = [approval EXCEPT ![a] = new(a)]
        /\ agent' = [agent EXCEPT ![t].at = "register", ![t].asks = a]
  BY DEF Asks
<1>2. /\ agent[t].at = "tools" /\ t \in Workers /\ NextTool(t) = "outside"
      /\ UNCHANGED <<waiters, channel, asked, user, changed>>
  BY DEF Asks
<1>3. /\ \A o \in Threads : o # t => agent'[o] = agent[o]
      /\ agent'[t].at = "register" /\ agent'[t].asks = a /\ agent'[t].turn = agent[t].turn
      /\ agent'[t].todo = agent[t].todo
  BY <1>1 DEF AgentTyped, TurnsTyped, Agents
<1>4. /\ \A b \in Approvals : b # a => approval'[b] = approval[b]
      /\ approval'[a].status = "pending" /\ approval'[a].thread = t
      /\ approval'[a].turn = agent[t].turn /\ approval'[a].tool = "outside"
  BY <1>1, <1>2 DEF AgentTyped, AsksTyped
<1>5. a \notin asked
  BY <1>1 DEF ApprovalInv, ShownAreAsked
<1>6. \A o \in Threads : o # t => AsksOf(o)'
  BY <1>1, <1>2, <1>3, <1>4, OthersAsk DEF ApprovalInv
<1>7. AsksOf(t)'
  BY <1>2, <1>3, <1>4, <1>5 DEF AsksOf, AskPoints, NextTool
<1>8. \A b \in Approvals : approval[b].status = "consumed" => approval'[b] = approval[b]
  BY <1>1, <1>4
<1>9. ShownAreAsked'
  BY <1>2, <1>4, <1>5 DEF ApprovalInv, ShownAreAsked, AgentTyped, AsksTyped
<1>10. SpentOnce' /\ ChangesAreAllowed'
  BY <1>2, <1>8, ChangesStay DEF ApprovalInv, SpentOnce, ChangesAreAllowed
<1>11. WaitersAreHeard'
  BY <1>2, <1>3 DEF ApprovalInv, WaitersAreHeard
<1> QED
  BY <1>6, <1>7, <1>9, <1>10, <1>11 DEF ApprovalInv

\* The sender is stored before the user is shown the request.
LEMMA ToolRegisters ==
  ASSUME AgentTyped, ApprovalInv, NEW t \in Threads, Registers(t)
  PROVE  ApprovalInv'
<1>0. /\ TurnsTyped /\ AsksOf(t) /\ agent[t].at = "register"
      /\ waiters' = waiters \cup {agent[t].asks}
      /\ UNCHANGED <<approval, channel, asked, user, changed>>
      /\ \A o \in Threads : o # t => agent'[o] = agent[o]
      /\ agent'[t].at = "publish" /\ agent'[t].asks = agent[t].asks /\ agent'[t].turn = agent[t].turn
      /\ agent'[t].todo = agent[t].todo
  BY MovedShape DEF AgentTyped, ApprovalInv, Registers
<1>1. \A o \in Threads : o # t => AsksOf(o)'
  BY <1>0, OthersAsk DEF ApprovalInv
<1>2. AsksOf(t)'
  BY <1>0 DEF AsksOf, AskPoints, NextTool
<1>3. ShownAreAsked' /\ SpentOnce' /\ ChangesAreAllowed'
  BY <1>0 DEF ApprovalInv, ShownAreAsked, SpentOnce, ChangesAreAllowed
<1>4. WaitersAreHeard'
  BY <1>0 DEF ApprovalInv, WaitersAreHeard
<1> QED
  BY <1>1, <1>2, <1>3, <1>4 DEF ApprovalInv

\* The user is shown the request, whose sender is there, or it is denied at once.
LEMMA ToolPublishes ==
  ASSUME AgentTyped, ApprovalInv, NEW t \in Threads, Publishes(t)
  PROVE  ApprovalInv'
<1> DEFINE a == agent[t].asks
<1>0. /\ TurnsTyped /\ AsksOf(t) /\ agent[t].at = "publish" /\ a \in Approvals
      /\ UNCHANGED <<channel, user, changed>>
  BY DEF AgentTyped, TurnsTyped, ApprovalInv, Publishes, AskPoints
<1>1. CASE /\ asked' = asked \cup {a} /\ agent' = [agent EXCEPT ![t].at = "waiting"]
           /\ UNCHANGED <<approval, waiters>>
  <2>0. /\ \A o \in Threads : o # t => agent'[o] = agent[o]
        /\ agent'[t].at = "waiting" /\ agent'[t].asks = a /\ agent'[t].turn = agent[t].turn
        /\ agent'[t].todo = agent[t].todo
    BY <1>0, <1>1, MovedShape
  <2>1. \A o \in Threads : o # t => AsksOf(o)'
    BY <1>0, <1>1, <2>0, OthersAsk DEF ApprovalInv
  <2>2. AsksOf(t)'
    BY <1>0, <1>1, <2>0 DEF AsksOf, AskPoints, NextTool
  <2>3. ShownAreAsked'
    BY <1>0, <1>1 DEF ApprovalInv, ShownAreAsked, AsksOf, AskPoints
  <2>4. SpentOnce' /\ ChangesAreAllowed'
    BY <1>0, <1>1 DEF ApprovalInv, SpentOnce, ChangesAreAllowed
  <2>5. WaitersAreHeard'
    <3> HIDE DEF a
    <3>1. a \in waiters
      BY <1>0 DEF AsksOf, a
    <3> QED
      BY <1>0, <1>1, <2>0, <3>1 DEF ApprovalInv, WaitersAreHeard
  <2> QED
    BY <2>1, <2>2, <2>3, <2>4, <2>5 DEF ApprovalInv
<1>2. CASE /\ waiters' = waiters \ {a} /\ approval' = Decided(a, FALSE) /\ Answered(t)
           /\ UNCHANGED asked
  <2>0. /\ \A o \in Threads : o # t => agent'[o] = agent[o]
        /\ agent'[t].at = "tools" /\ agent'[t].asks = NoApproval
    BY <1>0, <1>2, AnsweredShape
  <2>1. /\ \A b \in Approvals : b # a => approval'[b] = approval[b]
        /\ approval[a].status = "consumed" => approval'[a] = approval[a]
        /\ approval[a].status # "none" => approval'[a].status # "none"
    BY <1>0, <1>2 DEF Decided, AgentTyped, AsksTyped
  <2>2. \A o \in Threads : o # t => AsksOf(o)'
    BY <1>0, <1>2, <2>0, <2>1, OthersAsk DEF ApprovalInv
  <2>3. AsksOf(t)'
    BY <2>0 DEF AsksOf, AskPoints
  <2>4. ShownAreAsked'
    BY <1>0, <1>2, <2>1 DEF ApprovalInv, ShownAreAsked, AgentTyped, AsksTyped
  <2>5. \A b \in Approvals : approval[b].status = "consumed" => approval'[b] = approval[b]
    BY <2>1
  <2>6. SpentOnce' /\ ChangesAreAllowed'
    BY <1>0, <1>2, <2>5, ChangesStay DEF ApprovalInv, SpentOnce, ChangesAreAllowed
  <2>7. ASSUME NEW o \in Threads, o # t, agent[o].at = "waiting" PROVE agent[o].asks # a
    <3>1. AsksOf(o) /\ agent[o].at \in AskPoints /\ agent[t].at \in AskPoints
      BY <1>0, <2>7 DEF ApprovalInv, AskPoints
    <3> QED
      BY <1>0, <2>7, <3>1 DEF AsksOf
  <2>8. WaitersAreHeard'
    BY <1>0, <1>2, <2>0, <2>7 DEF ApprovalInv, WaitersAreHeard
  <2> QED
    BY <2>2, <2>3, <2>4, <2>6, <2>8 DEF ApprovalInv
<1> QED
  BY <1>1, <1>2 DEF Publishes, Errs

\* An approval that the user granted is spent by its own thread.
LEMMA ToolSpends ==
  ASSUME AgentTyped, ApprovalInv, NEW t \in Threads, Spends(t)
  PROVE  ApprovalInv'
<1> DEFINE a == agent[t].asks
<1>0. /\ TurnsTyped /\ AsksOf(t) /\ agent[t].at = "granted" /\ a \in Approvals
      /\ UNCHANGED <<waiters, channel, asked, user, changed>>
  BY DEF AgentTyped, TurnsTyped, ApprovalInv, Spends, AskPoints
<1>1. CASE /\ Spendable(t) /\ approval' = [approval EXCEPT ![a].status = "consumed"]
           /\ agent' = [agent EXCEPT ![t].at = "spent"]
  <2>0. /\ \A o \in Threads : o # t => agent'[o] = agent[o]
        /\ agent'[t].at = "spent" /\ agent'[t].asks = a /\ agent'[t].turn = agent[t].turn
        /\ agent'[t].todo = agent[t].todo
    BY <1>0, <1>1, MovedShape
  <2>1. /\ \A b \in Approvals : b # a => approval'[b] = approval[b]
        /\ approval[a].status = "approved" /\ approval'[a].status = "consumed"
        /\ approval'[a].thread = approval[a].thread /\ approval'[a].turn = approval[a].turn
        /\ approval'[a].tool = approval[a].tool
    BY <1>0, <1>1 DEF Spendable, AgentTyped, AsksTyped
  <2>2. \A o \in Threads : o # t => AsksOf(o)'
    BY <1>0, <1>1, <2>0, <2>1, OthersAsk DEF ApprovalInv
  <2>3. \A x \in changed : x.approval # a
    BY <1>0, <2>1, ApprovalAssumption DEF ApprovalInv, SpentOnce
  <2>4. AsksOf(t)'
    BY <1>0, <2>0, <2>1, <2>3 DEF AsksOf, AskPoints, NextTool
  <2>5. ShownAreAsked'
    BY <1>0, <2>1 DEF ApprovalInv, ShownAreAsked, AgentTyped, AsksTyped
  <2>6. \A b \in Approvals : approval[b].status = "consumed" => approval'[b] = approval[b]
    BY <2>1
  <2>7. SpentOnce' /\ ChangesAreAllowed'
    BY <1>0, <2>6, ChangesStay DEF ApprovalInv, SpentOnce, ChangesAreAllowed
  <2>8. WaitersAreHeard'
    BY <1>0, <2>0 DEF ApprovalInv, WaitersAreHeard
  <2> QED
    BY <2>2, <2>4, <2>5, <2>7, <2>8 DEF ApprovalInv
<1>2. CASE Answered(t) /\ UNCHANGED approval
  BY <1>0, <1>2, AnsweredShape, QuietTurn DEF AskPoints
<1> QED
  BY <1>1, <1>2 DEF Spends, Errs

\* A command runs with the approval that was spent for it, which nothing used before.
LEMMA ToolExecutes ==
  ASSUME AgentTyped, ApprovalInv, NEW t \in Threads, Executes(t)
  PROVE  ApprovalInv'
<1> DEFINE a == agent[t].asks
<1>0. /\ TurnsTyped /\ AsksOf(t) /\ agent[t].at = "spent" /\ a \in Approvals
      /\ UNCHANGED <<approval, waiters, channel, asked, user>>
      /\ \A o \in Threads : o # t => agent'[o] = agent[o]
      /\ agent'[t].at = "tools" /\ agent'[t].asks = NoApproval
  BY AnsweredShape DEF AgentTyped, TurnsTyped, ApprovalInv, Executes, AskPoints
<1>1. /\ t \in Workers /\ NextTool(t) = "outside" /\ a \in asked /\ approval[a].status = "consumed"
      /\ approval[a].thread = t /\ approval[a].turn = agent[t].turn /\ approval[a].tool = "outside"
      /\ \A x \in changed : x.approval # a
  BY <1>0 DEF AsksOf, AskPoints
<1>2. PICK new : /\ changed' = changed \cup {new}
                 /\ new.thread = t /\ new.turn = agent[t].turn /\ new.tool = "outside"
                 /\ new.approval = a /\ ~new.again
  <2>1. Changes(t)
    BY DEF Executes
  <2> QED
    BY <1>1, <2>1, ChangeShape
<1>3. approval[a] = [status |-> "consumed", thread |-> new.thread, turn |-> new.turn, tool |-> new.tool]
  BY <1>0, <1>1, <1>2 DEF AgentTyped, AsksTyped
<1>4. \A o \in Threads : o # t => AsksOf(o)'
  BY <1>0, <1>2, OthersAsk DEF ApprovalInv
<1>5. AsksOf(t)'
  BY <1>0 DEF AsksOf, AskPoints
<1>6. ShownAreAsked'
  BY <1>0 DEF ApprovalInv, ShownAreAsked
<1>7. SpentOnce'
  BY <1>0, <1>1, <1>2 DEF ApprovalInv, SpentOnce
<1>8. ChangesAreAllowed'
  <2> HIDE DEF a
  <2> QED
    BY <1>0, <1>1, <1>2, <1>3 DEF ApprovalInv, ChangesAreAllowed
<1>9. WaitersAreHeard'
  BY <1>0 DEF ApprovalInv, WaitersAreHeard
<1> QED
  BY <1>4, <1>5, <1>6, <1>7, <1>8, <1>9 DEF ApprovalInv

\* The user decides what was shown; whoever waits for it hears of it.
LEMMA UserDecides ==
  ASSUME AgentTyped, ApprovalInv, NEW u \in Users, UserStep(u)
  PROVE  ApprovalInv'
<1>0. UNCHANGED <<agent, asked, changed>>
  BY DEF UserStep, Decides, StoresDecision, SendsDecision
<1>1. CASE Decides(u)
  <2>1. PICK a \in asked \cap waiters, approve \in BOOLEAN :
          /\ waiters' = waiters \ {a}
          /\ user' = [user EXCEPT ![u] = [at |-> "taken", id |-> a, approve |-> approve]]
    BY <1>1 DEF Decides
  <2>2. UNCHANGED <<approval, channel>> /\ user[u].at = "idle"
    BY <1>1 DEF Decides
  <2>3. /\ \A v \in Users : v # u => user'[v] = user[v]
        /\ user'[u].at = "taken" /\ user'[u].id = a
    BY <2>1 DEF AgentTyped, AsksTyped
  <2>4. \A t \in Threads : AsksOf(t)'
    <3> SUFFICES ASSUME NEW t \in Threads PROVE AsksOf(t)'
      OBVIOUS
    <3>1. AsksOf(t)
      BY DEF ApprovalInv
    <3> QED
      BY <1>0, <2>1, <2>2, <3>1 DEF AsksOf, NextTool
  <2>5. ShownAreAsked'
    <3>1. \A b \in asked' : approval'[b].status # "none"
      BY <1>0, <2>2 DEF ApprovalInv, ShownAreAsked
    <3>2. \A v \in Users : user'[v].at # "idle" => user'[v].id \in asked'
      BY <1>0, <2>1, <2>3 DEF ApprovalInv, ShownAreAsked
    <3> QED
      BY <3>1, <3>2 DEF ShownAreAsked
  <2>6. SpentOnce' /\ ChangesAreAllowed'
    BY <1>0, <2>2 DEF ApprovalInv, SpentOnce, ChangesAreAllowed
  <2>7. WaitersAreHeard'
    BY <1>0, <2>1, <2>2, <2>3 DEF ApprovalInv, WaitersAreHeard
  <2> QED
    BY <2>4, <2>5, <2>6, <2>7 DEF ApprovalInv
<1>2. CASE StoresDecision(u) \/ SendsDecision(u)
  <2>0. UNCHANGED waiters /\ user[u].at # "idle" /\ user[u].id \in Approvals
    BY <1>2 DEF StoresDecision, SendsDecision, AgentTyped, AsksTyped
  <2>1. /\ \A a \in Approvals : approval[a].status # "pending" => approval'[a] = approval[a]
        /\ \A a \in Approvals :
             /\ approval'[a].thread = approval[a].thread /\ approval'[a].turn = approval[a].turn
             /\ approval'[a].tool = approval[a].tool
             /\ approval[a].status # "none" => approval'[a].status # "none"
    BY <1>2, <2>0 DEF StoresDecision, DecisionStored, SendsDecision, Decided, AgentTyped, AsksTyped
  <2>2. /\ \A v \in Users : v # u => user'[v] = user[v]
        /\ \/ user'[u].at # "idle" /\ user'[u].id = user[u].id /\ UNCHANGED channel
           \/ user'[u].at = "idle" /\ channel'[user[u].id] # "open"
        /\ \A a \in Approvals : channel[a] # "open" => channel'[a] # "open"
    BY <1>2, <2>0 DEF StoresDecision, DecisionStored, SendsDecision, NoDecision, AgentTyped, AsksTyped
  <2>3. \A t \in Threads : AsksOf(t)'
    <3> SUFFICES ASSUME NEW t \in Threads PROVE AsksOf(t)'
      OBVIOUS
    <3>1. AsksOf(t) /\ (agent[t].at \in AskPoints => agent[t].asks \in Approvals)
      BY DEF ApprovalInv, AgentTyped, TurnsTyped
    <3> QED
      BY <1>0, <2>0, <2>1, <3>1 DEF AsksOf, NextTool, AskPoints
  <2>4. ShownAreAsked'
    <3>1. \A b \in asked' : approval'[b].status # "none"
      BY <1>0, <2>1 DEF ApprovalInv, ShownAreAsked, AgentTyped, AsksTyped
    <3>2. \A v \in Users : user'[v].at # "idle" => user'[v].id \in asked'
      BY <1>0, <2>0, <2>2 DEF ApprovalInv, ShownAreAsked
    <3> QED
      BY <3>1, <3>2 DEF ShownAreAsked
  <2>5. SpentOnce' /\ ChangesAreAllowed'
    BY <1>0, <2>1, ChangesStay DEF ApprovalInv, SpentOnce, ChangesAreAllowed
  <2>6. WaitersAreHeard'
    <3> SUFFICES ASSUME NEW t \in Threads, agent[t].at = "waiting"
                 PROVE  \/ agent[t].asks \in waiters
                        \/ channel'[agent[t].asks] # "open"
                        \/ \E v \in Users : user'[v].at # "idle" /\ user'[v].id = agent[t].asks
      BY <1>0, <2>0 DEF WaitersAreHeard
    <3>1. agent[t].asks \in Approvals
      BY DEF AgentTyped, TurnsTyped, AskPoints
    <3>2. \/ agent[t].asks \in waiters
          \/ channel[agent[t].asks] # "open"
          \/ \E v \in Users : user[v].at # "idle" /\ user[v].id = agent[t].asks
      BY DEF ApprovalInv, WaitersAreHeard
    <3> QED
      BY <2>2, <3>1, <3>2
  <2> QED
    BY <2>3, <2>4, <2>5, <2>6 DEF ApprovalInv
<1> QED
  BY <1>1, <1>2 DEF UserStep

LEMMA ApprovalStarts == AgentInit => ApprovalInv
<1> SUFFICES ASSUME AgentInit PROVE ApprovalInv
  OBVIOUS
<1>1. \A t \in Threads : agent[t].at = "idle" /\ agent[t].asks = NoApproval
  BY NoTurnTyped DEF AgentInit
<1>2. \A u \in Users : user[u].at = "idle"
  BY DEF AgentInit, NoDecision
<1> QED
  BY <1>1, <1>2 DEF AgentInit, ApprovalInv, AsksOf, AskPoints, ShownAreAsked, SpentOnce, ChangesAreAllowed,
                    WaitersAreHeard

LEMMA ApprovalKeeps == AgentTyped /\ ApprovalInv /\ [AgentNext]_agentVars => ApprovalInv'
<1> SUFFICES ASSUME AgentTyped, ApprovalInv, [AgentNext]_agentVars PROVE ApprovalInv'
  OBVIOUS
<1>1. ASSUME NEW t \in Threads, TurnStep(t) PROVE ApprovalInv'
  BY <1>1, QuietSteps, ToolRuns, ToolAsks, ToolRegisters, ToolPublishes, ToolSpends, ToolExecutes DEF TurnStep
<1>2. ASSUME Stop PROVE ApprovalInv'
  <2>1. \A t \in Threads : agent'[t].at = "idle" /\ agent'[t].asks = NoApproval
    BY <1>2 DEF Stop, NoTurn
  <2>2. \A u \in Users : user'[u].at = "idle"
    BY <1>2 DEF Stop, NoDecision
  <2>3. UNCHANGED <<approval, asked, changed>>
    BY <1>2 DEF Stop
  <2>4. \A t \in Threads : AsksOf(t)'
    BY <2>1 DEF AsksOf, AskPoints
  <2>5. ShownAreAsked' /\ SpentOnce' /\ ChangesAreAllowed' /\ WaitersAreHeard'
    BY <2>1, <2>2, <2>3 DEF ApprovalInv, ShownAreAsked, SpentOnce, ChangesAreAllowed, WaitersAreHeard
  <2> QED
    BY <2>4, <2>5 DEF ApprovalInv
<1>3. ASSUME UNCHANGED agentVars PROVE ApprovalInv'
  BY <1>3 DEF agentVars, ApprovalInv, AsksOf, NextTool, ShownAreAsked, SpentOnce, ChangesAreAllowed, WaitersAreHeard
<1> QED
  BY <1>1, <1>2, <1>3, UserDecides DEF AgentNext, TurnStep, UserStep

-----------------------------------------------------------------------------
(* The transcript of an agent *)

Calls(m) == m.role = "assistant" /\ m.tools # <<>>

\* What the message at i calls is answered by the next one, or was cut by a stop.
Settled(s, i, t, c) ==
  Calls(s[i]) =>
    \/ <<t, s[i].turn>> \in c
    \/ i < Len(s) /\ s[i + 1].role = "tool" /\ s[i + 1].tools = s[i].tools

(* Transcript s of thread t, with the messages k that are stored and the turn  *)
(* a: it goes on from the stored messages with those of the turn. All calls    *)
(* are settled, but those of the round that runs, and the last stored one of a *)
(* turn whose messages are being stored.                                       *)
TalkOf(t, s, k, a, c) ==
  /\ a.at # "idle" =>
       /\ Len(k) <= Len(s)
       /\ \A i \in 1..Len(k) : s[i] = k[i]
       /\ \A i \in 1..Len(s) : i > Len(k) => s[i].turn = a.turn
  /\ a.at \in {"infer", "ended"} => \A i \in 1..Len(s) : Settled(s, i, t, c)
  /\ a.at \in {"tools"} \cup AskPoints =>
       /\ Len(k) < Len(s)
       /\ \A i \in 1..Len(s) : i < Len(s) => Settled(s, i, t, c)
       /\ s[Len(s)].tools = a.done \o a.todo
  /\ \A i \in 1..Len(k) :
       Settled(k, i, t, c) \/ (a.at = "ended" /\ i = Len(k) /\ k[i].turn = a.turn)

TalkInv == \A t \in Threads : TalkOf(t, talk[t], kept[t], agent[t], cut)

\* A message settles no call that was not settled before, and unsettles none.
LEMMA AppendSettles ==
  ASSUME NEW s \in Seq(Messages), NEW m \in Messages, NEW t, NEW c, NEW i \in 1..Len(s),
         Settled(s, i, t, c)
  PROVE  Settled(Append(s, m), i, t, c)
<1>1. /\ Append(s, m) \in Seq(Messages) /\ Len(Append(s, m)) = Len(s) + 1
      /\ \A j \in 1..Len(s) : Append(s, m)[j] = s[j]
  OBVIOUS
<1>2. Len(s) \in Nat /\ i \in 1..Len(s)
  OBVIOUS
<1>3. i < Len(s) => i + 1 \in 1..Len(s)
  BY <1>2
<1> DEFINE r == Append(s, m)
<1>4. r[i] = s[i] /\ (i < Len(s) => r[i + 1] = s[i + 1] /\ i < Len(r))
  BY <1>1, <1>2, <1>3
<1> HIDE DEF r
<1>5. Settled(r, i, t, c)
  BY <1>4 DEF Settled
<1> QED
  BY <1>5 DEF r

\* A message that calls nothing leaves a settled transcript settled.
LEMMA AppendTalk ==
  ASSUME NEW s \in Seq(Messages), NEW m \in Messages, ~Calls(m), NEW t, NEW c,
         \A i \in 1..Len(s) : Settled(s, i, t, c)
  PROVE  \A i \in 1..Len(Append(s, m)) : Settled(Append(s, m), i, t, c)
<1> SUFFICES ASSUME NEW i \in 1..Len(Append(s, m)) PROVE Settled(Append(s, m), i, t, c)
  OBVIOUS
<1>1. Len(Append(s, m)) = Len(s) + 1 /\ Append(s, m)[Len(s) + 1] = m /\ Len(s) \in Nat
  OBVIOUS
<1>2. CASE i = Len(s) + 1
  BY <1>1, <1>2 DEF Settled
<1>3. CASE i # Len(s) + 1
  <2>1. i \in 1..Len(s)
    BY <1>1, <1>3
  <2> QED
    BY <2>1, AppendSettles
<1> QED
  BY <1>2, <1>3

\* The transcript goes on from the stored messages, with one more of the turn.
LEMMA GoesOn ==
  ASSUME NEW s \in Seq(Messages), NEW k \in Seq(Messages), NEW m \in Messages, NEW number, m.turn = number,
         Len(k) <= Len(s), \A i \in 1..Len(k) : s[i] = k[i],
         \A i \in 1..Len(s) : i > Len(k) => s[i].turn = number
  PROVE  /\ Len(k) < Len(Append(s, m))
         /\ \A i \in 1..Len(k) : Append(s, m)[i] = k[i]
         /\ \A i \in 1..Len(Append(s, m)) : i > Len(k) => Append(s, m)[i].turn = number
<1> DEFINE r == Append(s, m)
<1>1. /\ Len(r) = Len(s) + 1 /\ r[Len(s) + 1] = m /\ Len(s) \in Nat /\ Len(k) \in Nat
      /\ \A i \in 1..Len(s) : r[i] = s[i]
  OBVIOUS
<1> HIDE DEF r
<1>2. Len(k) < Len(r) /\ \A i \in 1..Len(k) : r[i] = k[i]
  BY <1>1
<1>3. ASSUME NEW i \in 1..Len(r), i > Len(k) PROVE r[i].turn = number
  <2>1. CASE i = Len(s) + 1
    BY <1>1, <2>1
  <2>2. CASE i # Len(s) + 1
    <3>1. i \in 1..Len(s)
      BY <1>1, <2>2
    <3> QED
      BY <1>1, <1>3, <3>1
  <2> QED
    BY <2>1, <2>2
<1> QED
  BY <1>2, <1>3 DEF r

\* A turn that goes on with the same transcript, and the same calls in its round.
LEMMA SameTalk ==
  ASSUME NEW t, NEW s, NEW k, NEW c, NEW a \in Agents, NEW b \in Agents, TalkOf(t, s, k, a, c),
         b.turn = a.turn,
         \/ a.at \in {"tools"} \cup AskPoints /\ b.at \in {"tools"} \cup AskPoints
            /\ b.done \o b.todo = a.done \o a.todo
         \/ a.at = "infer" /\ b.at = "ended"
  PROVE  TalkOf(t, s, k, b, c)
BY DEF TalkOf, AskPoints

\* The answer of a tool moves it from the calls of the round to what is done.
LEMMA AnsweredSame ==
  ASSUME NEW todo \in Seq(AgentTools), NEW done \in Seq(AgentTools), todo # <<>>
  PROVE  Append(done, Head(todo)) \o Tail(todo) = done \o todo
<1>1. /\ Len(todo) \in Nat /\ Len(todo) > 0 /\ Head(todo) \in AgentTools /\ Head(todo) = todo[1]
      /\ Tail(todo) \in Seq(AgentTools) /\ Len(Tail(todo)) = Len(todo) - 1
      /\ \A i \in 1..Len(Tail(todo)) : Tail(todo)[i] = todo[i + 1]
  OBVIOUS
<1> DEFINE head == Append(done, Head(todo))
           left == head \o Tail(todo)
           right == done \o todo
<1>2. /\ head \in Seq(AgentTools) /\ Len(head) = Len(done) + 1 /\ Len(done) \in Nat
      /\ \A i \in 1..Len(done) : head[i] = done[i]
      /\ head[Len(done) + 1] = todo[1]
  BY <1>1
<1>3. /\ right \in Seq(AgentTools) /\ Len(right) = Len(done) + Len(todo)
      /\ \A i \in 1..Len(right) : right[i] = IF i <= Len(done) THEN done[i] ELSE todo[i - Len(done)]
  OBVIOUS
<1> HIDE DEF head
<1>4. /\ left \in Seq(AgentTools) /\ Len(left) = Len(head) + Len(Tail(todo))
      /\ \A i \in 1..Len(left) : left[i] = IF i <= Len(head) THEN head[i] ELSE Tail(todo)[i - Len(head)]
  BY SMTT(30), <1>1, <1>2
<1> HIDE DEF left, right
<1>5. Len(left) = Len(right)
  BY <1>1, <1>2, <1>3, <1>4
<1>6. ASSUME NEW i \in 1..Len(left) PROVE left[i] = right[i]
  <2>1. i \in Nat /\ i >= 1 /\ i <= Len(done) + Len(todo) /\ i \in 1..Len(right)
    BY <1>1, <1>2, <1>3, <1>5, <1>6
  <2>2. CASE i <= Len(done)
    <3>1. i \in 1..Len(done) /\ i <= Len(head)
      BY <1>2, <2>1, <2>2
    <3>2. left[i] = head[i] /\ right[i] = done[i]
      BY <1>3, <1>4, <2>1, <2>2, <3>1
    <3> QED
      BY <1>2, <3>1, <3>2
  <2>3. CASE i = Len(done) + 1
    BY <1>1, <1>2, <1>3, <1>4, <2>1, <2>3
  <2>4. CASE i > Len(done) + 1
    <3>1. i - Len(head) \in 1..Len(Tail(todo)) /\ (i - Len(head)) + 1 = i - Len(done)
      BY <1>1, <1>2, <2>1, <2>4
    <3>2. left[i] = Tail(todo)[i - Len(head)] /\ right[i] = todo[i - Len(done)]
      BY <1>2, <1>3, <1>4, <2>1, <2>4
    <3> QED
      BY <1>1, <3>1, <3>2
  <2> QED
    BY <1>2, <2>1, <2>2, <2>3, <2>4
<1>7. left = right
  BY <1>3, <1>4, <1>5, <1>6
<1> QED
  BY <1>7 DEF left, right, head

\* A step of one thread, which cuts nothing.
LEMMA OneTalks ==
  ASSUME TurnsTyped, TalkInv, NEW t \in Threads,
         \A o \in Threads : o # t =>
           agent'[o] = agent[o] /\ kept'[o] = kept[o] /\ talk'[o] = talk[o],
         UNCHANGED cut, TalkOf(t, talk'[t], kept'[t], agent'[t], cut)
  PROVE  TalkInv'
<1> SUFFICES ASSUME NEW o \in Threads PROVE TalkOf(o, talk'[o], kept'[o], agent'[o], cut)
  BY DEF TalkInv
<1> QED
  BY DEF TalkInv

LEMMA AnsweredTalks ==
  ASSUME TurnsTyped, TalkInv, NEW t \in Threads, agent[t].todo # <<>>,
         agent[t].at \in {"tools"} \cup AskPoints, Answered(t), UNCHANGED <<kept, talk, cut>>
  PROVE  TalkInv'
<1> DEFINE new == [agent[t] EXCEPT !.at = "tools", !.todo = Tail(@),
                                  !.done = Append(@, Head(agent[t].todo)), !.asks = NoApproval]
<1>0. agent[t] \in Agents /\ agent[t].todo \in Seq(AgentTools) /\ agent[t].done \in Seq(AgentTools)
  BY DEF TurnsTyped, Agents
<1>1. /\ new \in Agents /\ new.at = "tools" /\ new.turn = agent[t].turn
      /\ new.todo = Tail(agent[t].todo) /\ new.done = Append(agent[t].done, Head(agent[t].todo))
  BY <1>0, CallsTyped DEF Agents
<1>2. agent' = [agent EXCEPT ![t] = new]
  BY DEF TurnsTyped, Agents, Answered
<1> HIDE DEF new
<1>3. agent'[t] = new /\ \A o \in Threads : o # t => agent'[o] = agent[o]
  BY <1>2 DEF TurnsTyped
<1>4. new.done \o new.todo = agent[t].done \o agent[t].todo
  BY <1>0, <1>1, AnsweredSame
<1>5. TalkOf(t, talk[t], kept[t], agent[t], cut)
  BY DEF TalkInv
<1>6. TalkOf(t, talk[t], kept[t], new, cut)
  BY <1>0, <1>1, <1>4, <1>5, SameTalk
<1> QED
  BY <1>3, <1>6, OneTalks

LEMMA MovedTalks ==
  ASSUME TurnsTyped, TalkInv, NEW t \in Threads, agent[t].at \in {"tools"} \cup AskPoints,
         NEW at \in AskPoints, NEW asks \in Approvals \cup {NoApproval},
         agent' = [agent EXCEPT ![t].at = at, ![t].asks = asks], UNCHANGED <<kept, talk, cut>>
  PROVE  TalkInv'
<1> DEFINE new == [agent[t] EXCEPT !.at = at, !.asks = asks]
<1>0. agent[t] \in Agents
  BY DEF TurnsTyped
<1>1. /\ new \in Agents /\ new.at = at /\ new.turn = agent[t].turn
      /\ new.todo = agent[t].todo /\ new.done = agent[t].done
  BY <1>0 DEF Agents, AskPoints
<1>2. agent' = [agent EXCEPT ![t] = new]
  BY <1>0 DEF TurnsTyped, Agents
<1> HIDE DEF new
<1>3. agent'[t] = new /\ \A o \in Threads : o # t => agent'[o] = agent[o]
  BY <1>2 DEF TurnsTyped
<1>5. TalkOf(t, talk[t], kept[t], agent[t], cut)
  BY DEF TalkInv
<1>6. TalkOf(t, talk[t], kept[t], new, cut)
  BY <1>0, <1>1, <1>5, SameTalk
<1> QED
  BY <1>3, <1>6, OneTalks

\* The steps of a round that only move a tool on.
LEMMA RoundTalks ==
  ASSUME TurnsTyped, TalkInv, NEW t \in Threads,
         \/ RunsTool(t) \/ FailsTool(t) \/ Asks(t) \/ Registers(t) \/ Publishes(t) \/ Hears(t)
         \/ Spends(t) \/ Executes(t)
  PROVE  TalkInv'
<1>1. /\ UNCHANGED <<kept, talk, cut>> /\ agent[t].at \in {"tools"} \cup AskPoints
      /\ agent[t].todo # <<>> /\ agent[t] \in Agents
  BY DEF TurnsTyped, AskPoints, RunsTool, FailsTool, Asks, Registers, Publishes, Hears, Spends, Executes
<1>2. CASE Answered(t)
  BY <1>1, <1>2, AnsweredTalks
<1>3. CASE \E at \in AskPoints : agent' = [agent EXCEPT ![t].at = at]
  <2>1. PICK at \in AskPoints : agent' = [agent EXCEPT ![t].at = at]
    BY <1>3
  <2>2. agent' = [agent EXCEPT ![t].at = at, ![t].asks = agent[t].asks]
    BY <1>1, <2>1 DEF TurnsTyped, Agents
  <2>3. agent[t].asks \in Approvals \cup {NoApproval}
    BY <1>1 DEF Agents
  <2> QED
    BY <1>1, <2>2, <2>3, MovedTalks
<1>4. CASE Asks(t)
  BY <1>1, <1>4, MovedTalks DEF Asks, AskPoints
<1>5. RunsTool(t) \/ FailsTool(t) \/ Executes(t) => Answered(t)
  BY DEF RunsTool, FailsTool, Executes, Errs
<1>6. Publishes(t) => Answered(t) \/ agent' = [agent EXCEPT ![t].at = "waiting"]
  BY DEF Publishes, Errs
<1>7. Hears(t) => Answered(t) \/ agent' = [agent EXCEPT ![t].at = "granted"]
  BY DEF Hears, Errs
<1>8. Spends(t) => Answered(t) \/ agent' = [agent EXCEPT ![t].at = "spent"]
  BY DEF Spends, Errs
<1>9. Registers(t) => agent' = [agent EXCEPT ![t].at = "publish"]
  BY DEF Registers
<1> QED
  BY <1>2, <1>3, <1>4, <1>5, <1>6, <1>7, <1>8, <1>9 DEF AskPoints

\* The turn is over and its transcript is settled, with one more message or without.
LEMMA ReturnedTalks ==
  ASSUME TurnsTyped, TalkInv, NEW t \in Threads,
         ProviderFails(t) \/ Refuses(t) \/ Completes(t)
  PROVE  TalkInv'
<1>1. PICK result \in {"completed", "refused", "failed", "error"}, said \in Seq(Messages) :
        /\ Returns(t, result, said)
        /\ \/ said = talk[t]
           \/ \E m \in Messages : ~Calls(m) /\ m.turn = agent[t].turn /\ said = Append(talk[t], m)
  <2>0. talk[t] \in Seq(Messages) /\ agent[t].at = "infer" /\ <<>> \in Seq(AgentTools)
    BY DEF TurnsTyped, ProviderFails, Refuses, Completes
  <2>1. CASE ProviderFails(t)
    BY <2>0, <2>1 DEF ProviderFails
  <2>2. CASE Refuses(t)
    <3>1. PICK calls \in Replies \cup {<<>>} :
            Returns(t, "refused", Append(talk[t], Message("refusal", t, calls)))
      BY <2>2 DEF Refuses
    <3>2. calls \in Seq(AgentTools)
      BY <2>0, ReplyAssumption
    <3>3. Message("refusal", t, calls) \in Messages
      BY <2>0, <3>2, MessageTyped
    <3>4. ~Calls(Message("refusal", t, calls)) /\ Message("refusal", t, calls).turn = agent[t].turn
      BY DEF Calls, Message
    <3>5. Append(talk[t], Message("refusal", t, calls)) \in Seq(Messages)
      BY <2>0, <3>3
    <3> QED
      BY <3>1, <3>3, <3>4, <3>5
  <2>3. CASE Completes(t)
    <3>1. PICK result \in {"completed", "error"} :
            Returns(t, result, Append(talk[t], Message("assistant", t, <<>>)))
      BY <2>3 DEF Completes
    <3>3. Message("assistant", t, <<>>) \in Messages
      BY <2>0, MessageTyped
    <3>4. ~Calls(Message("assistant", t, <<>>)) /\ Message("assistant", t, <<>>).turn = agent[t].turn
      BY DEF Calls, Message
    <3>5. Append(talk[t], Message("assistant", t, <<>>)) \in Seq(Messages)
      BY <2>0, <3>3
    <3> QED
      BY <3>1, <3>3, <3>4, <3>5
  <2> QED
    BY <2>1, <2>2, <2>3
<1>2. agent[t].at = "infer" /\ UNCHANGED <<kept, cut>>
  BY DEF ProviderFails, Refuses, Completes
<1>0. /\ agent[t] \in Agents /\ kept[t] \in Seq(Messages) /\ talk[t] \in Seq(Messages)
      /\ TalkOf(t, talk[t], kept[t], agent[t], cut)
  BY DEF TurnsTyped, TalkInv
<1> DEFINE new == [agent[t] EXCEPT !.at = "ended", !.result = result]
<1>3. new \in Agents /\ new.at = "ended" /\ new.turn = agent[t].turn
  BY <1>0 DEF Agents
<1>4. agent' = [agent EXCEPT ![t] = new]
  BY <1>1 DEF TurnsTyped, Agents, Returns
<1> HIDE DEF new
<1>5. /\ agent'[t] = new
      /\ \A o \in Threads : o # t => agent'[o] = agent[o] /\ talk'[o] = talk[o]
      /\ talk'[t] = kept[t] \/ talk'[t] = said
  BY <1>1, <1>4 DEF TurnsTyped, Returns
<1>6. \A i \in 1..Len(kept[t]) : Settled(kept[t], i, t, cut)
  BY <1>0, <1>2 DEF TalkOf
<1>7. CASE talk'[t] = kept[t]
  <2>1. TalkOf(t, kept[t], kept[t], new, cut)
    BY <1>0, <1>3, <1>6 DEF TalkOf, AskPoints
  <2> QED
    BY <1>2, <1>5, <1>7, <2>1, OneTalks
<1>8. CASE talk'[t] = said /\ said = talk[t]
  <2>1. TalkOf(t, talk[t], kept[t], new, cut)
    BY <1>0, <1>2, <1>3, SameTalk
  <2> QED
    BY <1>2, <1>5, <1>8, <2>1, OneTalks
<1>9. ASSUME NEW m \in Messages, ~Calls(m), m.turn = agent[t].turn, talk'[t] = Append(talk[t], m)
      PROVE  TalkInv'
  <2>1. /\ Len(kept[t]) <= Len(talk[t]) /\ \A i \in 1..Len(kept[t]) : talk[t][i] = kept[t][i]
        /\ \A i \in 1..Len(talk[t]) : i > Len(kept[t]) => talk[t][i].turn = agent[t].turn
        /\ \A i \in 1..Len(talk[t]) : Settled(talk[t], i, t, cut)
    BY <1>0, <1>2 DEF TalkOf
  <2> DEFINE r == Append(talk[t], m)
  <2>2. \A i \in 1..Len(r) : Settled(r, i, t, cut)
    BY <1>0, <1>9, <2>1, AppendTalk
  <2>3. /\ Len(kept[t]) < Len(r) /\ \A i \in 1..Len(kept[t]) : r[i] = kept[t][i]
        /\ \A i \in 1..Len(r) : i > Len(kept[t]) => r[i].turn = agent[t].turn
    BY <1>0, <1>9, <2>1, GoesOn
  <2>5. r \in Seq(Messages)
    BY <1>0
  <2> HIDE DEF r
  <2>4. TalkOf(t, r, kept[t], new, cut)
    BY <1>0, <1>3, <1>6, <2>2, <2>3, <2>5 DEF TalkOf, AskPoints
  <2> QED
    BY <1>2, <1>5, <1>9, <2>4, OneTalks DEF r
<1> QED
  BY <1>1, <1>5, <1>7, <1>8, <1>9

\* A turn begins with the stored messages and that of the user.
LEMMA StartedTalks ==
  ASSUME TurnsTyped, TalkInv, NEW t \in Threads, StartsTurn(t)
  PROVE  TalkInv'
<1> DEFINE number == agent[t].turn + 1
           new == [NoTurn EXCEPT !.at = "infer", !.turn = number]
           message == [role |-> "user", turn |-> number, tools |-> <<>>]
           said == Append(kept[t], message)
<1>0. /\ agent[t] \in Agents /\ kept[t] \in Seq(Messages)
      /\ TalkOf(t, talk[t], kept[t], agent[t], cut) /\ agent[t].at = "idle"
  BY DEF TurnsTyped, TalkInv, StartsTurn
<1>1. message \in Messages /\ ~Calls(message)
  <2>1. number \in 1..MaxTurns
    BY <1>0, TurnAssumption DEF Agents, StartsTurn
  <2> QED
    BY <2>1 DEF Messages, Calls
<1>2. new.at = "infer" /\ new.turn = number
  BY DEF NoTurn
<1>3. /\ agent' = [agent EXCEPT ![t] = new] /\ kept' = [kept EXCEPT ![t] = said]
      /\ talk' = [talk EXCEPT ![t] = said] /\ UNCHANGED cut
  BY DEF StartsTurn
<1>4. \A i \in 1..Len(kept[t]) : Settled(kept[t], i, t, cut)
  BY <1>0 DEF TalkOf
<1>5. \A i \in 1..Len(said) : Settled(said, i, t, cut)
  BY <1>0, <1>1, <1>4, AppendTalk
<1>6. said \in Seq(Messages)
  BY <1>0, <1>1
<1> HIDE DEF new, said, message, number
<1>7. TalkOf(t, said, said, new, cut)
  BY <1>2, <1>5, <1>6 DEF TalkOf, AskPoints
<1>8. /\ agent'[t] = new /\ kept'[t] = said /\ talk'[t] = said
      /\ \A o \in Threads : o # t =>
           agent'[o] = agent[o] /\ kept'[o] = kept[o] /\ talk'[o] = talk[o]
  BY <1>3 DEF TurnsTyped
<1> QED
  BY <1>3, <1>7, <1>8, OneTalks

\* A round begins with the message that calls its tools.
LEMMA CalledTalks ==
  ASSUME TurnsTyped, TalkInv, NEW t \in Threads, CallsTools(t)
  PROVE  TalkInv'
<1>0. /\ agent[t] \in Agents /\ kept[t] \in Seq(Messages) /\ talk[t] \in Seq(Messages)
      /\ TalkOf(t, talk[t], kept[t], agent[t], cut) /\ agent[t].at = "infer"
      /\ UNCHANGED <<kept, cut>>
  BY DEF TurnsTyped, TalkInv, CallsTools
<1>1. PICK calls \in Replies :
        /\ talk' = [talk EXCEPT ![t] = Append(@, Message("assistant", t, calls))]
        /\ agent' = [agent EXCEPT ![t].at = "tools", ![t].todo = calls, ![t].done = <<>>]
  BY DEF CallsTools
<1> DEFINE new == [agent[t] EXCEPT !.at = "tools", !.todo = calls, !.done = <<>>]
           m == Message("assistant", t, calls)
           r == Append(talk[t], m)
<1>2. calls \in Seq(AgentTools) /\ <<>> \in Seq(AgentTools)
  BY ReplyAssumption
<1>3. m \in Messages /\ m.turn = agent[t].turn /\ m.tools = calls
  <2>1. m \in Messages
    BY <1>0, <1>2, MessageTyped
  <2> QED
    BY <2>1 DEF Message
<1>4. /\ new \in Agents /\ new.at = "tools" /\ new.turn = agent[t].turn
      /\ new.todo = calls /\ new.done = <<>>
  BY <1>0, <1>2 DEF Agents
<1>5. agent' = [agent EXCEPT ![t] = new] /\ talk' = [talk EXCEPT ![t] = r]
  BY <1>0, <1>1 DEF TurnsTyped, Agents
<1>6. new.done \o new.todo = calls
  BY <1>2, <1>4
<1> HIDE DEF new, m
<1>7. /\ r \in Seq(Messages) /\ Len(r) = Len(talk[t]) + 1 /\ r[Len(r)] = m /\ Len(talk[t]) \in Nat
  BY <1>0, <1>3
<1>8. /\ Len(kept[t]) <= Len(talk[t]) /\ \A i \in 1..Len(kept[t]) : talk[t][i] = kept[t][i]
      /\ \A i \in 1..Len(talk[t]) : i > Len(kept[t]) => talk[t][i].turn = agent[t].turn
      /\ \A i \in 1..Len(talk[t]) : Settled(talk[t], i, t, cut)
      /\ \A i \in 1..Len(kept[t]) : Settled(kept[t], i, t, cut)
  BY <1>0 DEF TalkOf
<1>9. \A i \in 1..Len(talk[t]) : Settled(r, i, t, cut)
  BY <1>0, <1>3, <1>8, AppendSettles
<1>10. /\ Len(kept[t]) < Len(r) /\ \A i \in 1..Len(kept[t]) : r[i] = kept[t][i]
       /\ \A i \in 1..Len(r) : i > Len(kept[t]) => r[i].turn = agent[t].turn
  BY <1>0, <1>3, <1>8, GoesOn
<1> HIDE DEF r
<1>11. \A i \in 1..Len(r) : i < Len(r) => Settled(r, i, t, cut)
  BY <1>7, <1>9
<1>12. TalkOf(t, r, kept[t], new, cut)
  BY <1>0, <1>3, <1>4, <1>6, <1>7, <1>8, <1>10, <1>11 DEF TalkOf, AskPoints
<1>13. /\ agent'[t] = new /\ talk'[t] = r
       /\ \A o \in Threads : o # t => agent'[o] = agent[o] /\ talk'[o] = talk[o]
  BY <1>5 DEF TurnsTyped
<1> QED
  BY <1>0, <1>12, <1>13, OneTalks

\* The results of a round are the message that follows its calls.
LEMMA EndedTalks ==
  ASSUME TurnsTyped, TalkInv, NEW t \in Threads, EndsRound(t)
  PROVE  TalkInv'
<1>0. /\ agent[t] \in Agents /\ kept[t] \in Seq(Messages) /\ talk[t] \in Seq(Messages)
      /\ TalkOf(t, talk[t], kept[t], agent[t], cut) /\ agent[t].at = "tools" /\ agent[t].todo = <<>>
      /\ UNCHANGED <<kept, cut>>
  BY DEF TurnsTyped, TalkInv, EndsRound
<1> DEFINE at == IF RequestsLeft(t) THEN "infer" ELSE "ended"
           result == IF RequestsLeft(t) THEN "none" ELSE "failed"
           new == [agent[t] EXCEPT !.rounds = @ + 1, !.at = at, !.result = result]
           m == Message("tool", t, agent[t].done)
           r == Append(talk[t], m)
<1>1. m \in Messages /\ m.role = "tool" /\ m.turn = agent[t].turn /\ m.tools = agent[t].done
  <2>1. m \in Messages
    BY <1>0, MessageTyped DEF Agents
  <2> QED
    BY <2>1 DEF Message
<1>2. new.at \in {"infer", "ended"} /\ new.turn = agent[t].turn
  BY <1>0 DEF Agents
<1>3. agent' = [agent EXCEPT ![t] = new] /\ talk' = [talk EXCEPT ![t] = r]
  BY <1>0 DEF TurnsTyped, Agents, EndsRound
<1> HIDE DEF new, m, at, result
<1>4. /\ r \in Seq(Messages) /\ Len(r) = Len(talk[t]) + 1 /\ r[Len(r)] = m /\ Len(talk[t]) \in Nat
      /\ \A i \in 1..Len(talk[t]) : r[i] = talk[t][i]
  BY <1>0, <1>1
<1>5. /\ Len(kept[t]) < Len(talk[t]) /\ \A i \in 1..Len(kept[t]) : talk[t][i] = kept[t][i]
      /\ \A i \in 1..Len(talk[t]) : i > Len(kept[t]) => talk[t][i].turn = agent[t].turn
      /\ \A i \in 1..Len(talk[t]) : i < Len(talk[t]) => Settled(talk[t], i, t, cut)
      /\ talk[t][Len(talk[t])].tools = agent[t].done \o agent[t].todo
      /\ \A i \in 1..Len(kept[t]) : Settled(kept[t], i, t, cut)
  BY <1>0 DEF TalkOf, AskPoints
<1>6. agent[t].done \o agent[t].todo = agent[t].done
  BY <1>0 DEF Agents
<1>7. ASSUME NEW i \in 1..Len(r) PROVE Settled(r, i, t, cut)
  <2>1. CASE i = Len(r)
    BY <1>1, <1>4, <2>1 DEF Settled, Calls
  <2>2. CASE i = Len(talk[t])
    <3>1. i < Len(r) /\ i + 1 = Len(r) /\ i \in 1..Len(talk[t])
      BY <1>4, <2>2
    <3>2. r[i].tools = agent[t].done
      BY <1>4, <1>5, <1>6, <2>2, <3>1
    <3> QED
      BY <1>1, <1>4, <3>1, <3>2 DEF Settled
  <2>3. CASE i < Len(talk[t])
    <3>1. i \in 1..Len(talk[t]) /\ Settled(talk[t], i, t, cut)
      BY <1>4, <1>5, <2>3
    <3> QED
      BY <1>0, <1>1, <3>1, AppendSettles
  <2> QED
    BY <1>4, <2>1, <2>2, <2>3
<1>8. Len(kept[t]) <= Len(talk[t])
  BY <1>0, <1>5
<1>9. /\ Len(kept[t]) < Len(r) /\ \A i \in 1..Len(kept[t]) : r[i] = kept[t][i]
      /\ \A i \in 1..Len(r) : i > Len(kept[t]) => r[i].turn = agent[t].turn
  BY <1>0, <1>1, <1>5, <1>8, GoesOn
<1> HIDE DEF r
<1>10. TalkOf(t, r, kept[t], new, cut)
  <2>1. Len(kept[t]) <= Len(r)
    BY <1>0, <1>4, <1>8
  <2>2. new.at # "tools" /\ new.at \notin AskPoints
    BY <1>2 DEF AskPoints
  <2> QED
    BY <1>2, <1>5, <1>7, <1>9, <2>1, <2>2 DEF TalkOf
<1>11. /\ agent'[t] = new /\ talk'[t] = r
       /\ \A o \in Threads : o # t => agent'[o] = agent[o] /\ talk'[o] = talk[o]
  BY <1>3 DEF TurnsTyped
<1> QED
  BY <1>0, <1>10, <1>11, OneTalks

\* The messages of the turn are stored in their order: a call is the last stored one
\* until its answer is stored.
LEMMA StoredTalks ==
  ASSUME TurnsTyped, TalkInv, NEW t \in Threads, StoresMessage(t)
  PROVE  TalkInv'
<1> DEFINE s == talk[t]
           k == kept[t]
           m == s[Len(k) + 1]
           r == Append(k, m)
<1>0. /\ s \in Seq(Messages) /\ k \in Seq(Messages) /\ TalkOf(t, s, k, agent[t], cut)
      /\ agent[t].at = "ended" /\ Len(k) < Len(s) /\ kept' = [kept EXCEPT ![t] = r]
      /\ UNCHANGED <<agent, talk, cut>>
  BY DEF TurnsTyped, TalkInv, StoresMessage
<1>1. /\ Len(k) <= Len(s) /\ \A i \in 1..Len(k) : s[i] = k[i]
      /\ \A i \in 1..Len(s) : i > Len(k) => s[i].turn = agent[t].turn
      /\ \A i \in 1..Len(s) : Settled(s, i, t, cut)
      /\ \A i \in 1..Len(k) : Settled(k, i, t, cut) \/ (i = Len(k) /\ k[i].turn = agent[t].turn)
  BY <1>0 DEF TalkOf
<1> HIDE DEF s, k
<1>2. Len(k) + 1 \in 1..Len(s) /\ Len(k) \in Nat /\ Len(s) \in Nat
  BY <1>0
<1>3. m \in Messages
  BY <1>0, <1>2
<1>4. /\ r \in Seq(Messages) /\ Len(r) = Len(k) + 1 /\ r[Len(k) + 1] = m
      /\ \A i \in 1..Len(k) : r[i] = k[i]
  BY <1>0, <1>3
<1>5. m = s[Len(k) + 1] /\ m.turn = agent[t].turn
  BY <1>1, <1>2
<1> HIDE DEF r, m
<1>6. Len(r) <= Len(s) /\ \A i \in 1..Len(r) : s[i] = r[i]
  <2>1. ASSUME NEW i \in 1..Len(r) PROVE s[i] = r[i]
    <3>1. CASE i = Len(k) + 1
      BY <1>4, <1>5, <3>1
    <3>2. CASE i # Len(k) + 1
      <4>1. i \in 1..Len(k)
        BY <1>2, <1>4, <3>2
      <4> QED
        BY <1>1, <1>4, <4>1
    <3> QED
      BY <3>1, <3>2
  <2> QED
    BY <1>2, <1>4, <2>1
<1>7. ASSUME NEW i \in 1..Len(r) PROVE Settled(r, i, t, cut) \/ (i = Len(r) /\ r[i].turn = agent[t].turn)
  <2>1. CASE i = Len(k) + 1
    BY <1>4, <1>5, <2>1
  <2>2. CASE i # Len(k) + 1
    <3>1. i \in 1..Len(k) /\ i \in 1..Len(s) /\ i + 1 \in 1..Len(r) /\ i < Len(r)
      BY <1>2, <1>4, <2>2
    <3>2. s[i] = r[i] /\ s[i + 1] = r[i + 1] /\ Settled(s, i, t, cut)
      BY <1>1, <1>6, <3>1
    <3> QED
      BY <3>1, <3>2 DEF Settled
  <2> QED
    BY <2>1, <2>2
<1>8. \A i \in 1..Len(s) : i > Len(r) => s[i].turn = agent[t].turn
  BY <1>1, <1>2, <1>4
<1>9. TalkOf(t, s, r, agent[t], cut)
  BY <1>0, <1>1, <1>4, <1>6, <1>7, <1>8 DEF TalkOf, AskPoints
<1>10. kept'[t] = r /\ \A o \in Threads : o # t => kept'[o] = kept[o]
  BY <1>0 DEF TurnsTyped
<1> QED
  BY <1>0, <1>9, <1>10, OneTalks DEF s

\* A turn is over when all is stored, or nothing.
LEMMA OverTalks ==
  ASSUME TurnsTyped, TalkInv, NEW t \in Threads, Finishes(t) \/ Interrupts(t)
  PROVE  TalkInv'
<1> DEFINE new == [NoTurn EXCEPT !.turn = agent[t].turn]
<1>0. /\ talk[t] \in Seq(Messages) /\ kept[t] \in Seq(Messages)
      /\ TalkOf(t, talk[t], kept[t], agent[t], cut) /\ UNCHANGED <<kept, cut>>
      /\ agent' = [agent EXCEPT ![t] = new] /\ talk' = [talk EXCEPT ![t] = <<>>]
      /\ \/ agent[t].at = "ended" /\ Len(kept[t]) = Len(talk[t])
         \/ agent[t].at = "infer"
  BY DEF TurnsTyped, TalkInv, Finishes, Interrupts
<1>1. new.at = "idle"
  BY DEF NoTurn
<1> HIDE DEF new
<1>2. \A i \in 1..Len(kept[t]) : Settled(kept[t], i, t, cut)
  <2>1. CASE agent[t].at = "infer"
    BY <1>0, <2>1 DEF TalkOf
  <2>2. CASE agent[t].at = "ended" /\ Len(kept[t]) = Len(talk[t])
    <3>1. /\ \A i \in 1..Len(kept[t]) : talk[t][i] = kept[t][i]
          /\ \A i \in 1..Len(talk[t]) : Settled(talk[t], i, t, cut)
      BY <1>0, <2>2 DEF TalkOf
    <3>2. talk[t] = kept[t]
      BY <1>0, <2>2, <3>1
    <3> QED
      BY <3>1, <3>2
  <2> QED
    BY <1>0, <2>1, <2>2
<1>3. TalkOf(t, <<>>, kept[t], new, cut)
  BY <1>1, <1>2 DEF TalkOf, AskPoints
<1>4. /\ agent'[t] = new /\ talk'[t] = <<>>
      /\ \A o \in Threads : o # t => agent'[o] = agent[o] /\ talk'[o] = talk[o]
  BY <1>0 DEF TurnsTyped
<1> QED
  BY <1>0, <1>3, <1>4, OneTalks

LEMMA TalkStarts == AgentInit => TalkInv
<1> SUFFICES ASSUME AgentInit, NEW t \in Threads
             PROVE TalkOf(t, talk[t], kept[t], agent[t], cut)
  BY DEF TalkInv
<1>1. agent[t].at = "idle" /\ kept[t] = <<>>
  BY NoTurnTyped DEF AgentInit
<1> QED
  BY <1>1 DEF TalkOf, AskPoints

LEMMA TalkKeeps == TurnsTyped /\ TalkInv /\ [AgentNext]_agentVars => TalkInv'
<1> SUFFICES ASSUME TurnsTyped, TalkInv, [AgentNext]_agentVars PROVE TalkInv'
  OBVIOUS
<1>1. ASSUME NEW t \in Threads, TurnStep(t) PROVE TalkInv'
  BY <1>1, RoundTalks, ReturnedTalks, StartedTalks, CalledTalks, EndedTalks, StoredTalks, OverTalks DEF TurnStep
<1>2. ASSUME NEW u \in Users, UserStep(u) PROVE TalkInv'
  BY <1>2 DEF UserStep, Decides, StoresDecision, SendsDecision, TalkInv
<1>3. ASSUME Stop PROVE TalkInv'
  <2> SUFFICES ASSUME NEW t \in Threads PROVE TalkOf(t, talk'[t], kept'[t], agent'[t], cut')
    BY DEF TalkInv
  <2>1. agent'[t].at = "idle" /\ kept'[t] = kept[t]
    BY <1>3 DEF Stop, NoTurn
  <2>2. cut \subseteq cut' /\ (agent[t].at # "idle" => <<t, agent[t].turn>> \in cut')
    BY <1>3 DEF Stop
  <2>3. TalkOf(t, talk[t], kept[t], agent[t], cut)
    BY DEF TalkInv
  <2>4. \A i \in 1..Len(kept[t]) : Settled(kept[t], i, t, cut')
    BY <2>2, <2>3 DEF TalkOf, Settled
  <2> QED
    BY <2>1, <2>4 DEF TalkOf, AskPoints
<1>4. ASSUME UNCHANGED agentVars PROVE TalkInv'
  BY <1>4 DEF agentVars, TalkInv
<1> QED
  BY <1>1, <1>2, <1>3, <1>4 DEF AgentNext, TurnStep, UserStep

LEMMA TalkIsAnswered == TurnsTyped /\ TalkInv => CallsAreAnswered
<1> SUFFICES ASSUME TurnsTyped, TalkInv, NEW t \in Threads, agent[t].at = "infer", NEW i \in 1..Len(talk[t]),
                    talk[t][i].role = "assistant", talk[t][i].tools # <<>>, <<t, talk[t][i].turn>> \notin cut
             PROVE  i < Len(talk[t]) /\ talk[t][i + 1].role = "tool" /\ talk[t][i + 1].tools = talk[t][i].tools
  BY DEF CallsAreAnswered
<1>1. Settled(talk[t], i, t, cut)
  BY DEF TalkInv, TalkOf
<1> QED
  BY <1>1 DEF Settled, Calls

-----------------------------------------------------------------------------
(* The types of the parts *)

LEMMA BrokerTypes == BrokerInit => BrokerType
  BY BudgetAssumption, LookupAssumption DEF BrokerInit, BrokerType, NoLookup

LEMMA BrokerKeepsType == BrokerType /\ [BrokerNext]_brokerVars => BrokerType'
<1> SUFFICES ASSUME BrokerType, [BrokerNext]_brokerVars PROVE BrokerType'
  OBVIOUS
<1> USE BudgetAssumption, LookupAssumption DEF BrokerType
<1>0. NoLookup \in [at : {"idle", "source", "finish", "denied"}, budget : 0..(MaxSingle + 1)]
  BY DEF NoLookup
<1>1. ASSUME BuildsInitial \/ BrokerStops PROVE BrokerType'
  BY <1>0, <1>1 DEF BuildsInitial, BrokerStops
<1>2. ASSUME NEW c \in Lookups, Retrieves(c) PROVE BrokerType'
  <2>1. PICK budget \in 1..(MaxSingle + 1), at \in {"source", "denied"} :
          lookup' = [lookup EXCEPT ![c] = [at |-> at, budget |-> budget]]
    BY <1>2 DEF Retrieves
  <2> QED
    BY <1>2, <2>1 DEF Retrieves
<1>3. ASSUME NEW c \in Lookups, Finds(c) \/ Denies(c) PROVE BrokerType'
  BY <1>0, <1>3 DEF Finds, Denies
<1>4. ASSUME NEW c \in Lookups, CommitsLookup(c) PROVE BrokerType'
  <2>1. PICK estimate \in 1..lookup[c].budget :
          \/ spent' = spent + estimate /\ lookup' = [lookup EXCEPT ![c] = NoLookup]
          \/ UNCHANGED spent /\ lookup' = [lookup EXCEPT ![c].at = "denied"]
    BY <1>4 DEF CommitsLookup, Estimates
  <2>2. estimate \in Nat
    BY <2>1
  <2> QED
    BY <1>0, <1>4, <2>1, <2>2 DEF CommitsLookup
<1>5. ASSUME UNCHANGED brokerVars PROVE BrokerType'
  BY <1>5 DEF brokerVars
<1> QED
  BY <1>1, <1>2, <1>3, <1>4, <1>5 DEF BrokerNext

EditTypes ==
  /\ EditType
  /\ point = "generate" => checked = {} /\ unread = {}

LEMMA EditTypesStart == EditInit => EditTypes
<1> SUFFICES ASSUME EditInit PROVE EditTypes
  OBVIOUS
<1>1. now \in Paths
  BY PathsAssumption DEF EditInit
<1>2. foreignWrites \in 0..MaxForeign
  BY ForeignAssumption DEF EditInit
<1>3. file \in [Paths -> {"before", "after", "other"}]
  BY DEF EditInit
<1> QED
  BY <1>1, <1>2, <1>3 DEF EditInit, EditTypes, EditType

LEMMA EditTypesKeep == EditInv /\ EditTypes /\ [EditNext]_editVars => EditTypes'
<1> SUFFICES ASSUME EditInv, EditTypes, [EditNext]_editVars PROVE EditTypes'
  OBVIOUS
<1> USE DEF EditTypes, EditType
<1>1. foreignWrites' \in 0..MaxForeign
  BY ForeignAssumption DEF EditNext, ForeignWrites, editVars
<1>2. ASSUME NEW p \in Paths, ForeignWrites(p) PROVE EditTypes'
  BY <1>1, <1>2 DEF ForeignWrites
<1>3. ASSUME Proposes PROVE EditTypes'
  BY <1>1, <1>3 DEF Proposes, EditInv
<1>4. ASSUME HasChecked \/ EndsRollback \/ Verifies \/ \E p \in Paths : Checks(p) \/ OpensTemp(p) \/ RollsBack(p)
      PROVE EditTypes'
  BY <1>1, <1>4 DEF HasChecked, EndsRollback, Verifies, Checks, OpensTemp, RollsBack, EditInv
<1>5. ASSUME Renames \/ Restores PROVE EditTypes'
  BY <1>1, <1>5 DEF Renames, Restores, Replaces
<1>6. ASSUME Includes PROVE EditTypes'
  BY <1>1, <1>6 DEF Includes, Included, EditInv
<1>7. ASSUME UNCHANGED editVars PROVE EditTypes'
  BY <1>1, <1>7 DEF editVars
<1> QED
  BY <1>2, <1>3, <1>4, <1>5, <1>6, <1>7 DEF EditNext

\* An execution has at most as many workers as it may.
PlanTypes ==
  /\ deps \in Plans /\ executions \in 0..MaxExecutions
  /\ IsFiniteSet(Spawned) /\ Cardinality(Spawned) <= Concurrency

LEMMA PlanTypesStart == PlanInit => PlanTypes
<1> SUFFICES ASSUME PlanInit PROVE PlanTypes
  OBVIOUS
<1>1. Spawned = {}
  BY DEF PlanInit, Spawned
<1>2. IsFiniteSet(Spawned) /\ Cardinality(Spawned) <= Concurrency
  BY <1>1, FS_EmptySet, ConcurrencyAssumption
<1>3. executions \in 0..MaxExecutions
  BY ExecutionsAssumption DEF PlanInit
<1> QED
  BY <1>2, <1>3 DEF PlanInit, PlanTypes

LEMMA FewerSpawned ==
  ASSUME PlanTypes, Spawned' \subseteq Spawned
  PROVE  IsFiniteSet(Spawned') /\ Cardinality(Spawned') <= Concurrency
<1>1. IsFiniteSet(Spawned) /\ Cardinality(Spawned) <= Concurrency /\ Cardinality(Spawned) \in Nat
  BY FS_CardinalityType DEF PlanTypes
<1>2. IsFiniteSet(Spawned') /\ Cardinality(Spawned') <= Cardinality(Spawned) /\ Cardinality(Spawned') \in Nat
  BY <1>1, FS_Subset, FS_CardinalityType
<1> QED
  BY <1>1, <1>2, ConcurrencyAssumption

LEMMA PlanTypesKeep == PlanTyped /\ PlanTypes /\ [PlanNext]_planVars => PlanTypes'
<1> SUFFICES ASSUME PlanTyped, PlanTypes, [PlanNext]_planVars PROVE PlanTypes'
  OBVIOUS
<1>1. deps' \in Plans
  BY DEF PlanTypes, PlanNext, planVars, ExecutesPlan, Recovers, EndsPlan, Breaks, Starts, Joins, Accepts, Begins,
         CreatesTree, Keeps, Patches, Prepares, MakesThread, Binds, Resumes, StartsTask, TurnEnds, HearsEnd, GivesUp,
         SavesOutcome, FailsJob
<1>2. executions' \in 0..MaxExecutions
  <2>1. CASE ExecutesPlan \/ Recovers
    BY <2>1, ExecutionsAssumption DEF PlanTypes, ExecutesPlan, Recovers
  <2>2. CASE UNCHANGED executions
    BY <2>2 DEF PlanTypes
  <2> QED
    BY <2>1, <2>2 DEF PlanNext, planVars, EndsPlan, Breaks, Starts, Joins, Accepts, Begins,
         CreatesTree, Keeps, Patches, Prepares, MakesThread, Binds, Resumes, StartsTask, TurnEnds, HearsEnd, GivesUp,
         SavesOutcome, FailsJob
<1>3. ASSUME NEW t \in Tasks, Starts(t)
      PROVE  IsFiniteSet(Spawned') /\ Cardinality(Spawned') <= Concurrency
  <2>1. Spawned' = Spawned \cup {t}
    BY <1>3 DEF Starts, Spawned, PlanTyped
  <2>2. IsFiniteSet(Spawned) /\ Cardinality(Spawned) \in Nat /\ Cardinality(Spawned) < Concurrency
    BY <1>3, FS_CardinalityType DEF PlanTypes, Starts, Startable
  <2>3. /\ IsFiniteSet(Spawned \cup {t})
        /\ Cardinality(Spawned \cup {t}) = Cardinality(Spawned) \/ Cardinality(Spawned \cup {t}) = Cardinality(Spawned) + 1
    BY <2>2, FS_AddElement
  <2> QED
    BY <2>1, <2>2, <2>3, ConcurrencyAssumption
<1>4. CASE Spawned' \subseteq Spawned
  BY <1>1, <1>2, <1>4, FewerSpawned DEF PlanTypes
<1>5. ASSUME NEW t \in Tasks, job[t] # "none", NEW at, Goes(t, at) PROVE Spawned' \subseteq Spawned
  BY <1>5 DEF Goes, Spawned, PlanTyped
<1>6. ASSUME UNCHANGED job \/ job' = [t \in Tasks |-> "none"] PROVE Spawned' \subseteq Spawned
  BY <1>6 DEF Spawned
<1>7. ASSUME NEW t \in Tasks, Joins(t) PROVE Spawned' \subseteq Spawned
  BY <1>7 DEF Joins, Spawned, PlanTyped
<1>8. ASSUME NEW t \in Tasks,
             \/ Begins(t) \/ CreatesTree(t) \/ Keeps(t) \/ Patches(t) \/ Prepares(t) \/ MakesThread(t) \/ Binds(t)
             \/ Resumes(t) \/ StartsTask(t) \/ HearsEnd(t) \/ GivesUp(t) \/ SavesOutcome(t) \/ FailsJob(t)
      PROVE  UNCHANGED job \/ (job[t] # "none" /\ \E at : Goes(t, at))
  BY <1>8 DEF Begins, CreatesTree, Keeps, Patches, Prepares, MakesThread, Binds, Resumes, StartsTask,
              HearsEnd, GivesUp, SavesOutcome, FailsJob
<1>9. ASSUME ExecutesPlan \/ Recovers \/ EndsPlan \/ Breaks \/ UNCHANGED planVars
      PROVE  UNCHANGED job \/ job' = [t \in Tasks |-> "none"]
  BY <1>9 DEF ExecutesPlan, Recovers, EndsPlan, Breaks, planVars
<1>10. ASSUME NEW t \in Tasks, Accepts(t) \/ TurnEnds(t) PROVE UNCHANGED job
  BY <1>10 DEF Accepts, TurnEnds
<1>11. CASE \E t \in Tasks : Starts(t)
  BY <1>1, <1>2, <1>3, <1>11 DEF PlanTypes
<1> QED
  BY <1>4, <1>5, <1>6, <1>7, <1>8, <1>9, <1>10, <1>11 DEF PlanNext

\* The types are those of the invariant of the profiles, with the bound on revisions.
Forms == [at : {"idle", "open", "checking", "checked", "stored"},
          id : Profiles, revision : Revisions, on : BOOLEAN]

ProbeJobs == [at : {"idle", "profile", "asking", "supported"}, id : Profiles,
              revision : Revisions, link : Revisions, model : Models]

WorkerJobs == [at : {"idle", "asking", "listed", "eligible", "running"}, id : Profiles,
               revision : Revisions, link : Revisions, model : Models]

\* The tool canary of a probe was answered.
LEMMA SupportedProbe == \A x \in ProbeJobs : [x EXCEPT !.at = "supported"] \in ProbeJobs
  BY SMTT(30) DEF ProbeJobs

LEMMA NothingBegun == NoEdit \in Forms /\ NoProbe \in ProbeJobs /\ NoProbe \in WorkerJobs
<1>1. 0 \in Revisions
  BY RevisionAssumption DEF Revisions
<1> QED
  BY <1>1, SparkAssumption, ModelsAssumption DEF NoEdit, NoProbe, Forms, ProbeJobs, WorkerJobs

LEMMA ProfilesTypesStart == ProfilesInit => ProfilesType
<1> SUFFICES ASSUME ProfilesInit PROVE ProfilesType
  OBVIOUS
<1>1. 0 \in Revisions /\ 1 \in Revisions /\ Revisions \subseteq Nat
  BY RevisionAssumption DEF Revisions
<1>3. ASSUME NEW id \in Profiles
      PROVE  /\ saved[id] \in Seq(BOOLEAN) /\ Len(saved[id]) <= MaxRevision
             /\ Row(id) \in [revision : Revisions, on : BOOLEAN]
  <2>1. CASE id = Spark
    <3>1. saved[id] = <<TRUE>>
      BY <2>1 DEF ProfilesInit
    <3>2. <<TRUE>> \in Seq(BOOLEAN) /\ Len(<<TRUE>>) = 1 /\ <<TRUE>>[1] = TRUE /\ <<TRUE>> # <<>>
      OBVIOUS
    <3> QED
      BY <1>1, <3>1, <3>2, RevisionAssumption DEF Row
  <2>2. CASE id # Spark
    <3>1. saved[id] = <<>>
      BY <2>2 DEF ProfilesInit
    <3>2. <<>> \in Seq(BOOLEAN) /\ Len(<<>>) = 0
      OBVIOUS
    <3> QED
      BY <1>1, <3>1, <3>2, RevisionAssumption DEF Row
  <2> QED
    BY <2>1, <2>2
<1>4. editor \in [Editors -> Forms] /\ probe \in [Probes -> ProbeJobs] /\ worker \in [Jobs -> WorkerJobs]
  BY NothingBegun DEF ProfilesInit
<1>5. registry \in [Profiles -> [revision : Revisions, on : BOOLEAN]] /\ link \in [Profiles -> Revisions]
  BY <1>1, <1>3 DEF ProfilesInit
<1>6. passes = {} /\ answered = {} /\ restarts \in 0..MaxRestarts
  BY RevisionAssumption DEF ProfilesInit
<1> QED
  BY <1>3, <1>4, <1>5, <1>6 DEF ProfilesType, Forms, ProbeJobs, WorkerJobs

LEMMA ProfilesTypesKeep ==
  saved \in [Profiles -> Seq(BOOLEAN)] /\ ProfilesType /\ [ProfilesNext]_profileVars => ProfilesType'
<1> SUFFICES ASSUME saved \in [Profiles -> Seq(BOOLEAN)], ProfilesType, [ProfilesNext]_profileVars
             PROVE  ProfilesType'
  OBVIOUS
<1> USE DEF ProfilesType
<1>1. 0 \in Revisions /\ Revisions \subseteq Nat
  BY RevisionAssumption DEF Revisions
<1>2. NoEdit \in Forms /\ NoProbe \in ProbeJobs /\ NoProbe \in WorkerJobs
  BY NothingBegun
<1> USE DEF Forms, ProbeJobs, WorkerJobs
<1>3. ASSUME NEW id \in Profiles PROVE Row(id) \in [revision : Revisions, on : BOOLEAN]
  BY RevisionAssumption DEF Row, Revisions
<1>4. ASSUME NEW e \in Editors, OpensForm(e) PROVE ProfilesType'
  <2>1. PICK id \in Profiles, enabled \in BOOLEAN :
          /\ Len(saved[id]) < MaxRevision
          /\ editor' = [editor EXCEPT ![e] = [at |-> "open", id |-> id, revision |-> Len(saved[id]) + 1, on |-> enabled]]
    BY <1>4 DEF OpensForm
  <2>2. Len(saved[id]) + 1 \in Revisions
    BY <2>1, RevisionAssumption DEF Revisions
  <2> QED
    BY <1>4, <2>1, <2>2 DEF OpensForm
<1>5. ASSUME NEW e \in Editors, Submits(e) \/ Lists(e) PROVE ProfilesType'
  <2>1. \E new \in {NoEdit} \cup {[editor[e] EXCEPT !.at = at] : at \in {"checking", "checked"}} :
          editor' = [editor EXCEPT ![e] = new]
    BY <1>5 DEF Submits, Lists
  <2>4. editor[e] \in Forms
    OBVIOUS
  <2>5. \A at \in {"checking", "checked"} : [editor[e] EXCEPT !.at = at] \in Forms
    BY <2>4
  <2>2. PICK new \in Forms : editor' = [editor EXCEPT ![e] = new]
    <3> HIDE DEF Forms, ProfilesType
    <3>1. \A new \in {NoEdit} \cup {[editor[e] EXCEPT !.at = at] : at \in {"checking", "checked"}} : new \in Forms
      BY <1>2, <2>5
    <3> QED
      BY <2>1, <3>1
  <2>3. editor' \in [Editors -> Forms]
    BY <2>2
  <2> QED
    BY <1>5, <2>3 DEF Submits, Lists
<1>6. ASSUME NEW e \in Editors, Stores(e) PROVE ProfilesType'
  <2>1. editor' \in [Editors -> Forms]
    <3>3. editor[e] \in Forms
      OBVIOUS
    <3>1. [editor[e] EXCEPT !.at = "stored"] \in Forms
      BY <3>3
    <3>2. PICK new \in Forms : editor' = [editor EXCEPT ![e] = new]
      BY <1>2, <1>6, <3>1 DEF Stores
    <3> QED
      BY <3>2
  <2>2. UNCHANGED <<registry, link, probe, worker, passes, answered, restarts>>
    BY <1>6 DEF Stores
  <2>3. \A id \in Profiles : saved'[id] \in Seq(BOOLEAN) /\ Len(saved'[id]) <= MaxRevision
    <3>1. CASE UNCHANGED saved
      BY <3>1
    <3>2. CASE Follows(e) /\ saved' = Saves(e)
      <4> DEFINE old == saved[editor[e].id]
                 n == editor[e].revision
                 new == SubSeq(old, 1, n - 1) \o <<editor[e].on>>
      <4>1. old \in Seq(BOOLEAN) /\ n = Len(old) + 1 /\ n <= MaxRevision /\ editor[e].on \in BOOLEAN
        BY <3>2, RevisionAssumption DEF Follows, Revisions
      <4>2. saved' = [saved EXCEPT ![editor[e].id] = new]
        BY <3>2 DEF Saves
      <4> HIDE DEF old, n
      <4>3. Len(old) \in Nat /\ n - 1 = Len(old)
        BY <4>1
      <4>4. SubSeq(old, 1, n - 1) \in Seq(BOOLEAN) /\ Len(SubSeq(old, 1, n - 1)) = Len(old)
        BY <4>1, <4>3
      <4>5. new \in Seq(BOOLEAN) /\ Len(new) = Len(old) + 1
        BY <4>1, <4>3, <4>4
      <4> HIDE DEF new
      <4> QED
        BY <4>1, <4>2, <4>5
    <3> QED
      BY <1>6, <3>1, <3>2 DEF Stores, MaySave
  <2> QED
    BY <2>1, <2>2, <2>3
<1>7. ASSUME NEW e \in Editors, Inserts(e) PROVE ProfilesType'
  BY <1>1, <1>2, <1>7 DEF Inserts, Connected
<1>8. ASSUME LocalSettings PROVE ProfilesType'
  <2>1. /\ saved' = [saved EXCEPT ![Spark] = Append(@, TRUE)] /\ Len(saved[Spark]) < MaxRevision
        /\ UNCHANGED <<registry, link, editor, probe, worker, passes, answered, restarts>>
    BY <1>8 DEF LocalSettings
  <2>2. Append(saved[Spark], TRUE) \in Seq(BOOLEAN) /\ Len(Append(saved[Spark], TRUE)) <= MaxRevision
    BY <2>1, SparkAssumption, RevisionAssumption
  <2> QED
    BY <2>1, <2>2
<1>9. ASSUME NEW p \in Probes, ProbeBegins(p) \/ ProbeConnects(p) \/ ProbeAnswered(p) \/ ProbeRecords(p)
      PROVE  ProfilesType'
  <2>1. CASE ProbeBegins(p)
    BY <1>1, <2>1 DEF ProbeBegins
  <2>2. CASE ProbeConnects(p)
    <3>3. probe[p] \in ProbeJobs /\ probe[p].id \in Profiles
      OBVIOUS
    <3>4. link[probe[p].id] \in Revisions
      BY <3>3
    <3>1. [probe[p] EXCEPT !.at = "asking", !.link = link[probe[p].id]] \in ProbeJobs
      BY <3>3, <3>4
    <3>2. PICK new \in ProbeJobs : probe' = [probe EXCEPT ![p] = new]
      BY <1>2, <2>2, <3>1 DEF ProbeConnects
    <3> QED
      BY <2>2, <3>2 DEF ProbeConnects
  <2>3. CASE ProbeAnswered(p)
    <3>1. [probe[p] EXCEPT !.at = "supported"] \in ProbeJobs
      BY SupportedProbe
    <3>2. PICK new \in ProbeJobs : probe' = [probe EXCEPT ![p] = new]
      BY <1>2, <2>3, <3>1 DEF ProbeAnswered
    <3>3. <<probe[p].id, probe[p].link, probe[p].model>> \in Profiles \X Revisions \X Models
      OBVIOUS
    <3> QED
      BY <2>3, <3>2, <3>3 DEF ProbeAnswered
  <2>4. CASE ProbeRecords(p)
    BY <1>2, <2>4 DEF ProbeRecords
  <2> QED
    BY <1>9, <2>1, <2>2, <2>3, <2>4
<1>10. ASSUME NEW w \in Jobs, Validates(w) \/ Listed(w) \/ Eligible(w) \/ Runs(w) \/ Ends(w) PROVE ProfilesType'
  <2>1. CASE Validates(w)
    BY <1>1, <2>1 DEF Validates
  <2>2. CASE Listed(w) \/ Ends(w)
    <3>3. worker[w] \in WorkerJobs
      OBVIOUS
    <3>1. [worker[w] EXCEPT !.at = "listed"] \in WorkerJobs
      BY <3>3
    <3>2. PICK new \in WorkerJobs : worker' = [worker EXCEPT ![w] = new]
      BY <1>2, <2>2, <3>1 DEF Listed, Ends
    <3> QED
      BY <2>2, <3>2 DEF Listed, Ends
  <2>3. CASE Eligible(w)
    <3>3. worker[w] \in WorkerJobs
      OBVIOUS
    <3>4. worker[w].id \in Profiles
      OBVIOUS
    <3>5. registry[worker[w].id] \in [revision : Revisions, on : BOOLEAN]
      BY <3>4
    <3>1. [worker[w] EXCEPT !.at = "eligible", !.revision = registry[worker[w].id].revision] \in WorkerJobs
      BY <3>3, <3>5
    <3>2. PICK new \in WorkerJobs : worker' = [worker EXCEPT ![w] = new]
      BY <1>2, <2>3, <3>1 DEF Eligible
    <3> QED
      BY <2>3, <3>2 DEF Eligible
  <2>4. CASE Runs(w)
    <3>1. [worker[w] EXCEPT !.at = "running", !.link = link[worker[w].id],
                            !.revision = registry[worker[w].id].revision] \in WorkerJobs
      BY ZenonT(30)
    <3>2. PICK new \in WorkerJobs : worker' = [worker EXCEPT ![w] = new]
      BY <1>2, <2>4, <3>1 DEF Runs
    <3> QED
      BY <2>4, <3>2 DEF Runs
  <2> QED
    BY <1>10, <2>1, <2>2, <2>3, <2>4
<1>11. ASSUME RestartProfiles PROVE ProfilesType'
  BY <1>1, <1>2, <1>3, <1>11, RevisionAssumption DEF RestartProfiles
<1>12. ASSUME UNCHANGED profileVars PROVE ProfilesType'
  BY <1>12 DEF profileVars
<1> QED
  BY <1>4, <1>5, <1>6, <1>7, <1>8, <1>9, <1>10, <1>11, <1>12 DEF ProfilesNext

\* The routes of previews and of commands have the revisions that the bound allows.
RoutesTypes ==
  /\ shown \subseteq RouteRecords
  /\ \A c \in Commands : command[c].route \in RouteRecords \cup {NoRoute}
  /\ \A c \in Commands : command[c].at # "idle" => command[c].route \in RouteRecords
  /\ \A c \in Commands : command[c].at = "revising" => command[c].route.revision < MaxShown
  /\ late \subseteq Routes /\ saves \in 0..MaxSaves

LEMMA RoutesAreTyped == RoutesInv /\ RoutesTypes => RoutesType
<1> SUFFICES ASSUME RoutesInv, RoutesTypes PROVE RoutesType
  OBVIOUS
<1>1. shown \subseteq RouteRecords /\ pending \subseteq RouteRecords
  BY DEF RoutesTypes, RoutesInv, PreviewsFollow
<1>2. ASSUME NEW id \in Routes PROVE ran[id] \in Seq(RouteRecords)
  <2>1. CASE ran[id] = <<>>
    BY <2>1
  <2>2. CASE ran[id] # <<>>
    <3>1. ran[id] \in Seq(Previewed) /\ Len(ran[id]) = 1 /\ ran[id][1] \in RouteRecords
      BY <1>1, <2>2 DEF RoutesInv, RanOnce
    <3> DEFINE s == ran[id]
    <3> HIDE DEF s
    <3>2. s \in Seq(Previewed) /\ Len(s) = 1 => s = <<s[1]>>
      OBVIOUS
    <3>3. ASSUME NEW r \in RouteRecords PROVE <<r>> \in Seq(RouteRecords)
      OBVIOUS
    <3> QED
      BY <3>1, <3>2, <3>3 DEF s
  <2> QED
    BY <2>1, <2>2
<1>3. ran \in [Routes -> Seq(RouteRecords)]
  BY <1>2 DEF RoutesInv, RanOnce
<1>4. ASSUME NEW c \in Commands
      PROVE  command[c] \in [at : {"idle", "reading", "assessing", "choosing", "made", "revising", "revised",
                                   "validating", "valid"},
                             route : RouteRecords \cup {NoRoute}, want : Targets \cup {NoTarget}]
  <2>1. command[c] \in CommandRecords /\ command[c].route \in RouteRecords \cup {NoRoute}
    BY DEF RoutesInv, RoutesTypes
  <2> QED
    BY <2>1 DEF CommandRecords, Making
<1> QED
  BY <1>1, <1>3, <1>4 DEF RoutesType, RoutesInv, RoutesTypes

LEMMA RoutesTypesStart == RoutesInit => RoutesTypes
  BY ShownAssumption, NoCommandHolds DEF RoutesInit, RoutesTypes, NoCommand

LEMMA RoutesTypesKeep == RoutesInv /\ RoutesTypes /\ [RoutesNext]_routingVars => RoutesTypes'
<1> SUFFICES ASSUME RoutesInv, RoutesTypes, [RoutesNext]_routingVars PROVE RoutesTypes'
  OBVIOUS
<1> USE DEF RoutesTypes
<1>0. /\ 0 \in 0..MaxShown /\ NoCommand.at = "idle" /\ NoCommand.route = NoRoute
      /\ command \in [Commands -> CommandRecords]
  BY ShownAssumption DEF NoCommand, RoutesInv
\* One command comes to another point; a preview that it shows is the route that it held.
<1>1. ASSUME NEW c \in Commands, NEW x, command' = [command EXCEPT ![c] = x],
             x.route \in RouteRecords \cup {NoRoute}, x.at # "idle" => x.route \in RouteRecords,
             x.at = "revising" => x.route.revision < MaxShown,
             shown' \subseteq shown \cup {command[c].route}, shown' \subseteq shown \/ command[c].at # "idle",
             UNCHANGED <<late, saves>>
      PROVE  RoutesTypes'
  <2>1. command'[c] = x /\ \A d \in Commands \ {c} : command'[d] = command[d]
    BY <1>0, <1>1
  <2>2. shown' \subseteq RouteRecords
    BY <1>1
  <2> QED
    BY <1>1, <2>1, <2>2
<1>2. ASSUME NEW c \in Commands, command' = [command EXCEPT ![c] = NoCommand],
             shown' \subseteq shown \cup {command[c].route}, shown' \subseteq shown \/ command[c].at # "idle",
             UNCHANGED <<late, saves>>
      PROVE  RoutesTypes'
  BY <1>0, <1>1, <1>2
\* The route of a command gets another assessment or another target.
<1>3. ASSUME NEW route \in RouteRecords
      PROVE  /\ \A a \in Assessments : [route EXCEPT !.assessment = a] \in RouteRecords
             /\ \A S \in SUBSET Targets : \A r \in Chosen(route, S) : r \in RouteRecords /\ r.revision = route.revision
  BY DEF RouteRecords, Chosen
<1>4. ASSUME NEW c \in Commands, Previews(c) PROVE RoutesTypes'
  <2>1. PICK id \in Routes \ Used, p \in Projects : command' = [command EXCEPT ![c] =
          [at |-> "reading", want |-> NoTarget,
           route |-> [id |-> id, revision |-> 0, project |-> p, text |-> settings,
                      assessment |-> "clear", target |-> NoTarget]]]
    BY <1>4 DEF Previews
  <2> DEFINE route == [id |-> id, revision |-> 0, project |-> p, text |-> settings,
                       assessment |-> "clear", target |-> NoTarget]
             x == [at |-> "reading", want |-> NoTarget, route |-> route]
  <2>2. route \in RouteRecords
    BY <1>0 DEF RouteRecords, Assessments, RoutesInv
  <2>3. x.at = "reading" /\ x.route = route /\ command' = [command EXCEPT ![c] = x]
    BY <2>1
  <2>4. UNCHANGED <<shown, late, saves>>
    BY <1>4 DEF Previews
  <2> HIDE DEF route, x
  <2> QED
    BY <1>1, <2>2, <2>3, <2>4
<1>5. ASSUME NEW c \in Commands, ReadsSettings(c) \/ TargetValid(c) PROVE RoutesTypes'
  <2>1. command[c].route \in RouteRecords /\ UNCHANGED <<shown, late, saves>>
    BY <1>5 DEF ReadsSettings, TargetValid
  <2>2. ASSUME NEW at \in {"assessing", "valid"}, command' = [command EXCEPT ![c].at = at] PROVE RoutesTypes'
    <3> DEFINE x == [command[c] EXCEPT !.at = at]
    <3>1. x.at = at /\ x.route = command[c].route /\ command' = [command EXCEPT ![c] = x]
      BY <1>0, <2>2 DEF CommandRecords
    <3> HIDE DEF x
    <3> QED
      BY <1>1, <2>1, <2>2, <3>1
  <2>3. \/ command' = [command EXCEPT ![c].at = "assessing"] \/ command' = [command EXCEPT ![c].at = "valid"]
        \/ command' = [command EXCEPT ![c] = NoCommand]
    BY <1>5 DEF ReadsSettings, TargetValid
  <2> QED
    BY <1>2, <2>1, <2>2, <2>3
<1>6. ASSUME NEW c \in Commands, Assesses(c) PROVE RoutesTypes'
  <2>1. PICK a \in Assessments : command' = [command EXCEPT ![c].at = "choosing", ![c].route.assessment = a]
    BY <1>6 DEF Assesses
  <2>2. command[c].route \in RouteRecords /\ UNCHANGED <<shown, late, saves>>
    BY <1>6 DEF Assesses
  <2> DEFINE route == [command[c].route EXCEPT !.assessment = a]
             x == [command[c] EXCEPT !.at = "choosing", !.route = route]
  <2>3. route \in RouteRecords
    BY <1>3, <2>2
  <2>4. x.at = "choosing" /\ x.route = route /\ command' = [command EXCEPT ![c] = x]
    BY <1>0, <2>1 DEF CommandRecords
  <2> HIDE DEF route, x
  <2> QED
    BY <1>1, <2>2, <2>3, <2>4
<1>7. ASSUME NEW c \in Commands, Chooses(c) PROVE RoutesTypes'
  <2>1. PICK r \in Chosen(command[c].route, Targets) : command' = [command EXCEPT ![c] =
          IF Fresh(r) THEN [@ EXCEPT !.at = "made", !.route = r] ELSE NoCommand]
    BY <1>7 DEF Chooses
  <2>2. command[c].route \in RouteRecords /\ UNCHANGED <<shown, late, saves>>
    BY <1>7 DEF Chooses
  <2>3. r \in RouteRecords
    BY <1>3, <2>1, <2>2
  <2> DEFINE x == [command[c] EXCEPT !.at = "made", !.route = r]
  <2>4. x.at = "made" /\ x.route = r
    BY <1>0 DEF CommandRecords
  <2>5. command' = [command EXCEPT ![c] = x] \/ command' = [command EXCEPT ![c] = NoCommand]
    BY <1>0, <2>1
  <2> HIDE DEF x
  <2> QED
    BY <1>1, <1>2, <2>2, <2>3, <2>4, <2>5
<1>8. ASSUME NEW c \in Commands, Shows(c) \/ ShowsRevised(c) \/ Creates(c) PROVE RoutesTypes'
  BY <1>2, <1>8 DEF Shows, ShowsRevised, Creates
<1>9. ASSUME NEW c \in Commands, Revises(c) \/ Consumes(c) PROVE RoutesTypes'
  <2>1. UNCHANGED <<shown, late, saves>>
    BY <1>9 DEF Revises, Consumes
  <2>2. PICK x : /\ command' = [command EXCEPT ![c] = x] /\ x.route \in pending
                 /\ x.at = "revising" => x.route.revision < MaxShown
    <3>1. CASE Revises(c)
      <4>1. PICK route \in pending, t \in Targets :
              /\ route.revision < MaxShown
              /\ command' = [command EXCEPT ![c] = [at |-> "revising", route |-> route, want |-> t]]
        BY <3>1 DEF Revises
      <4> DEFINE x == [at |-> "revising", route |-> route, want |-> t]
      <4>2. x.at = "revising" /\ x.route = route /\ command' = [command EXCEPT ![c] = x]
        BY <4>1
      <4> HIDE DEF x
      <4> QED
        BY <4>1, <4>2
    <3>2. CASE Consumes(c)
      <4>1. PICK route \in pending :
              command' = [command EXCEPT ![c] = [at |-> "validating", route |-> route, want |-> NoTarget]]
        BY <3>2 DEF Consumes, Pending
      <4> DEFINE x == [at |-> "validating", route |-> route, want |-> NoTarget]
      <4>2. x.at = "validating" /\ x.route = route /\ command' = [command EXCEPT ![c] = x]
        BY <4>1
      <4> HIDE DEF x
      <4> QED
        BY <4>1, <4>2
    <3> QED
      BY <1>9, <3>1, <3>2
  <2>3. x.route \in RouteRecords
    BY <2>2 DEF RoutesInv, PreviewsFollow
  <2> QED
    BY <1>1, <2>1, <2>2, <2>3
<1>10. ASSUME NEW c \in Commands, Rechooses(c) PROVE RoutesTypes'
  <2>1. PICK r \in Chosen(command[c].route, {command[c].want}) : command' = [command EXCEPT ![c] =
          IF Fresh(r) THEN [@ EXCEPT !.at = "revised", !.route = [r EXCEPT !.revision = @ + 1]]
          ELSE NoCommand]
    BY <1>10 DEF Rechooses
  <2>2. /\ command[c].route \in RouteRecords /\ command[c].route.revision < MaxShown
        /\ UNCHANGED <<shown, late, saves>>
    BY <1>10 DEF Rechooses
  <2>3. r \in RouteRecords /\ r.revision = command[c].route.revision
    BY <1>0, <2>1, <2>2 DEF Chosen, RouteRecords, CommandRecords
  <2> DEFINE next == [r EXCEPT !.revision = @ + 1]
             x == [command[c] EXCEPT !.at = "revised", !.route = next]
  <2>4. next \in RouteRecords
    BY <2>2, <2>3, ShownAssumption DEF RouteRecords
  <2>5. x.at = "revised" /\ x.route = next
    BY <1>0 DEF CommandRecords
  <2>6. command' = [command EXCEPT ![c] = x] \/ command' = [command EXCEPT ![c] = NoCommand]
    BY <1>0, <2>1
  <2> HIDE DEF next, x
  <2> QED
    BY <1>1, <1>2, <2>2, <2>4, <2>5, <2>6
<1>11. ASSUME set_auto_settings PROVE RoutesTypes'
  BY <1>11, ShownAssumption DEF set_auto_settings
<1>12. ASSUME NEW id \in Routes, TenMinutes(id) PROVE RoutesTypes'
  BY <1>12 DEF TenMinutes
<1>13. ASSUME UNCHANGED routingVars PROVE RoutesTypes'
  BY <1>13 DEF routingVars
<1> QED
  BY <1>4, <1>5, <1>6, <1>7, <1>8, <1>9, <1>10, <1>11, <1>12, <1>13 DEF RoutesNext

\* The parts of AppType: the draft and what is served, the turns of the commands, and the
\* windows. Each command that waits or runs is in the chain once, and an agent is started
\* by a command that then leaves it; an opening has a number of its own.
DraftTypes ==
  /\ present \subseteq Folders /\ available \subseteq Folders /\ renewed \subseteq Folders
  /\ projects \in Scopes /\ savedProjects \in Scopes /\ projectsFile \in Scopes /\ scope \in Scopes
  /\ serving \in BOOLEAN /\ locked \in BOOLEAN
  /\ moves \in 0..MaxMoves /\ appEnds \in 0..MaxAppEnds

InChain == {tail[i] : i \in 1..Len(tail)}

TurnTypes ==
  /\ \A c \in Askers : asker[c].at = "idle" <=> c \notin InChain
  /\ \A i, j \in 1..Len(tail) : tail[i] = tail[j] => i = j
  /\ invoked \in 0..MaxCommands /\ appAgents \in Nat /\ appAgent \in 0..appAgents
  /\ appAgents + Len(tail) <= invoked

WindowTypes ==
  /\ winCount \in 0..MaxWindows
  /\ window \in 0..winCount /\ opening \in 0..winCount /\ owner \in 0..appAgents
  /\ \A w \in Windows : wins[w].at # "none" => w <= winCount

AppTypes == DraftTypes /\ TurnTypes /\ WindowTypes

LEMMA AppIsTyped == ControlInv /\ WindowsInv /\ AppTypes => AppType
<1> SUFFICES ASSUME ControlInv, WindowsInv, AppTypes PROVE AppType
  OBVIOUS
<1>1. \A c \in Askers : asker[c].at = "idle" <=> \A i \in 1..Len(tail) : tail[i] # c
  BY DEF AppTypes, TurnTypes, InChain
<1>2. tail \in Seq(Askers) /\ Len(tail) \in Nat
  BY DEF ControlInv
<1>3. invoked \in 0..MaxCommands /\ appAgents \in 0..MaxCommands /\ appAgent \in 0..appAgents
  BY <1>2, AppBoundsAssumption DEF AppTypes, TurnTypes
<1> QED
  BY <1>1, <1>2, <1>3 DEF ControlInv, WindowsInv, AppTypes, DraftTypes, WindowTypes, AppType

LEMMA AppTypesStart == AppInit => AppTypes
<1> SUFFICES ASSUME AppInit PROVE AppTypes
  OBVIOUS
<1>1. DraftTypes
  <2>1. present = Folders /\ available \subseteq Folders /\ renewed = {}
    BY DEF AppInit, Found
  <2>2. projectsFile \in Scopes /\ projects = projectsFile /\ savedProjects = projectsFile /\ scope = projectsFile
    BY DEF AppInit
  <2>3. serving = FALSE /\ locked = FALSE /\ moves = 0 /\ appEnds = 0
    BY DEF AppInit
  <2>4. serving \in BOOLEAN /\ locked \in BOOLEAN
    BY <2>3
  <2>5. moves \in 0..MaxMoves /\ appEnds \in 0..MaxAppEnds
    BY <2>3, AppBoundsAssumption
  <2>6. present \subseteq Folders /\ available \subseteq Folders /\ renewed \subseteq Folders
    BY <2>1
  <2>7. projects \in Scopes /\ savedProjects \in Scopes /\ projectsFile \in Scopes /\ scope \in Scopes
    BY <2>2
  <2> QED
    BY <2>4, <2>5, <2>6, <2>7 DEF DraftTypes
<1>2. InChain = {} /\ Len(tail) = 0
  BY DEF AppInit, InChain
<1>3. TurnTypes
  BY <1>2, IdleType, AppBoundsAssumption DEF AppInit, TurnTypes
<1>4. WindowTypes
  BY AppBoundsAssumption DEF AppInit, WindowTypes, NoWindow
<1> QED
  BY <1>1, <1>3, <1>4 DEF AppTypes

\* The end of a command: it leaves the chain, of which it was the head.
LEMMA ChainShrinks ==
  ASSUME ControlInv, TurnTypes, NEW c \in Askers, Leads(c), Resolves(c)
  PROVE  /\ \A d \in Askers : asker'[d].at = "idle" <=> d \notin InChain'
         /\ \A i, j \in 1..Len(tail') : tail'[i] = tail'[j] => i = j
         /\ Len(tail) \in Nat \ {0} /\ Len(tail') = Len(tail) - 1
<1>1. tail \in Seq(Askers) /\ tail # <<>> /\ Head(tail) = c /\ tail' = Tail(tail)
  BY DEF ControlInv, Leads, Resolves
<1>2. /\ Len(tail) \in Nat \ {0} /\ Len(tail') = Len(tail) - 1 /\ tail[1] = c
      /\ \A i \in 1..Len(tail') : tail'[i] = tail[i + 1]
  BY <1>1
<1>3. asker'[c].at = "idle" /\ \A d \in Askers \ {c} : asker'[d] = asker[d]
  BY IdleType DEF ControlInv, Resolves
<1>4. InChain' = InChain \ {c}
  <2>1. \A i \in 1..Len(tail') : i + 1 \in 1..Len(tail) /\ i + 1 # 1 /\ tail'[i] = tail[i + 1]
    BY <1>2
  <2>2. \A i \in 1..Len(tail) : i = 1 \/ (i - 1 \in 1..Len(tail') /\ tail'[i - 1] = tail[i])
    BY <1>2
  <2>3. 1 \in 1..Len(tail)
    BY <1>2
  <2>4. ASSUME NEW d \in InChain' PROVE d \in InChain \ {c}
    <3>1. PICK i \in 1..Len(tail') : d = tail'[i]
      BY DEF InChain
    <3> QED
      BY <1>2, <2>1, <2>3, <3>1 DEF InChain, TurnTypes
  <2>5. ASSUME NEW d \in InChain \ {c} PROVE d \in InChain'
    <3>1. PICK i \in 1..Len(tail) : d = tail[i]
      BY DEF InChain
    <3> QED
      BY <1>2, <2>2, <3>1 DEF InChain
  <2> QED
    BY <2>4, <2>5
<1>5. \A i, j \in 1..Len(tail') : tail'[i] = tail'[j] => i = j
  <2> SUFFICES ASSUME NEW i \in 1..Len(tail'), NEW j \in 1..Len(tail'), tail'[i] = tail'[j] PROVE i = j
    OBVIOUS
  <2>1. i + 1 \in 1..Len(tail) /\ j + 1 \in 1..Len(tail) /\ tail[i + 1] = tail[j + 1]
    BY <1>2
  <2>2. i + 1 = j + 1
    BY <2>1 DEF TurnTypes
  <2> QED
    BY <2>2
<1> QED
  BY <1>2, <1>3, <1>4, <1>5 DEF TurnTypes

\* Its call: it is the last of the chain.
LEMMA ChainGrows ==
  ASSUME ControlInv, TurnTypes, NEW c \in Askers, NEW q \in AppCommands, Invokes(c, q)
  PROVE  TurnTypes'
<1>1. tail \in Seq(Askers) /\ tail' = Append(tail, c) /\ asker[c].at = "idle"
  BY DEF ControlInv, Invokes
<1>2. /\ Len(tail) \in Nat /\ Len(tail') = Len(tail) + 1 /\ tail'[Len(tail) + 1] = c
      /\ \A i \in 1..Len(tail) : tail'[i] = tail[i]
  BY <1>1
<1>3. asker'[c].at = "queued" /\ \A d \in Askers \ {c} : asker'[d] = asker[d]
  BY DEF ControlInv, Invokes
<1>4. InChain' = InChain \cup {c}
  <2>1. \A i \in 1..Len(tail') : i \in 1..Len(tail) \/ i = Len(tail) + 1
    BY <1>2
  <2>2. (\A i \in 1..Len(tail) : i \in 1..Len(tail')) /\ Len(tail) + 1 \in 1..Len(tail')
    BY <1>2
  <2>3. ASSUME NEW d \in InChain' PROVE d \in InChain \cup {c}
    <3>1. PICK i \in 1..Len(tail') : d = tail'[i]
      BY DEF InChain
    <3> QED
      BY <1>2, <2>1, <3>1 DEF InChain
  <2>4. ASSUME NEW d \in InChain \cup {c} PROVE d \in InChain'
    BY <1>2, <2>2 DEF InChain
  <2> QED
    BY <2>3, <2>4
<1>5. \A i \in 1..Len(tail) : tail[i] # c
  BY <1>1 DEF TurnTypes, InChain
<1>6. \A i, j \in 1..Len(tail') : tail'[i] = tail'[j] => i = j
  <2> SUFFICES ASSUME NEW i \in 1..Len(tail'), NEW j \in 1..Len(tail'), tail'[i] = tail'[j] PROVE i = j
    OBVIOUS
  <2>1. (i \in 1..Len(tail) \/ i = Len(tail) + 1) /\ (j \in 1..Len(tail) \/ j = Len(tail) + 1)
    BY <1>2
  <2> QED
    BY <1>2, <1>5, <2>1 DEF TurnTypes
<1>7. invoked' = invoked + 1 /\ invoked < MaxCommands /\ UNCHANGED <<appAgent, appAgents>>
  BY DEF Invokes, servedVars
<1>8. \A d \in Askers : asker'[d].at = "idle" <=> d \notin InChain'
  BY <1>3, <1>4 DEF TurnTypes
<1>9. /\ invoked' \in 0..MaxCommands /\ appAgents' \in Nat /\ appAgent' \in 0..appAgents'
      /\ appAgents' + Len(tail') <= invoked'
  BY <1>2, <1>7, AppBoundsAssumption DEF TurnTypes
<1> QED
  BY <1>6, <1>8, <1>9 DEF TurnTypes

LEMMA TurnTypesKeep == ControlInv /\ TurnTypes /\ [AppNext]_appVars => TurnTypes'
<1> SUFFICES ASSUME ControlInv, TurnTypes, [AppNext]_appVars PROVE TurnTypes'
  OBVIOUS
\* A command ends; it may have started an agent, or stopped the one there was.
<1>1. ASSUME NEW c \in Askers, Leads(c), Resolves(c), UNCHANGED invoked,
             \/ appAgents' = appAgents /\ appAgent' \in {0, appAgent}
             \/ appAgents' = appAgents + 1 /\ appAgent' = appAgents'
      PROVE  TurnTypes'
  <2>1. /\ \A d \in Askers : asker'[d].at = "idle" <=> d \notin InChain'
        /\ \A i, j \in 1..Len(tail') : tail'[i] = tail'[j] => i = j
        /\ Len(tail) \in Nat \ {0} /\ Len(tail') = Len(tail) - 1
    BY <1>1, ChainShrinks
  <2>2. invoked' \in 0..MaxCommands /\ appAgents' \in Nat /\ appAgent' \in 0..appAgents'
        /\ appAgents' + Len(tail') <= invoked'
    BY <1>1, <2>1 DEF TurnTypes
  <2> QED
    BY <2>1, <2>2 DEF TurnTypes
\* A command goes on: it stays in the chain.
<1>2. ASSUME UNCHANGED <<tail, invoked, appAgents>>, appAgent' \in {0, appAgent},
             \A d \in Askers : asker'[d].at = "idle" <=> asker[d].at = "idle"
      PROVE  TurnTypes'
  <2>1. InChain' = InChain /\ Len(tail') = Len(tail)
    BY <1>2 DEF InChain
  <2>2. appAgent' \in 0..appAgents'
    BY <1>2 DEF TurnTypes
  <2> QED
    BY <1>2, <2>1, <2>2 DEF TurnTypes
<1>3. ASSUME NEW c \in Askers, asker[c].at # "idle", NEW place \in {"verify", "stop", "close", "apply", "launch", "starting"},
             Reaches(c, place)
      PROVE  UNCHANGED tail /\ \A d \in Askers : asker'[d].at = "idle" <=> asker[d].at = "idle"
  <2>1. asker'[c].at = place /\ \A d \in Askers \ {c} : asker'[d] = asker[d]
    BY <1>3 DEF ControlInv, Reaches, Asking
  <2> QED
    BY <1>3, <2>1 DEF Reaches
<1>4. ASSUME NEW c \in Askers, TakesTurn(c) PROVE TurnTypes'
  <2>1. Leads(c) /\ asker[c].at # "idle" /\ UNCHANGED <<invoked, appAgent, appAgents>>
    BY <1>4, QueuedLeads DEF TakesTurn, At, servedVars
  <2>2. Resolves(c) \/ Reaches(c, "verify") \/ Reaches(c, "stop")
    BY <1>4 DEF TakesTurn
  <2> QED
    BY <1>1, <1>2, <1>3, <2>1, <2>2
<1>5. ASSUME NEW c \in Askers, NEW f \in Folders, VerifiesRoot(c, f) PROVE TurnTypes'
  <2>1. Leads(c) /\ UNCHANGED <<invoked, appAgent, appAgents>>
    BY <1>5, BegunLeads DEF VerifiesRoot, At, servedVars
  <2>2. CASE Resolves(c)
    BY <1>1, <2>1, <2>2
  <2>3. CASE asker' = [asker EXCEPT ![c].verified = @ \cup {f}] /\ UNCHANGED tail
    <3>1. \A d \in Askers : asker'[d].at = asker[d].at
      BY <2>3 DEF ControlInv, Asking
    <3> QED
      BY <1>2, <2>1, <2>3, <3>1
  <2> QED
    BY <1>5, <2>2, <2>3 DEF VerifiesRoot
<1>6. ASSUME NEW c \in Askers, HasVerified(c) \/ StopsNow(c) \/ AgentCloses(c) \/ Drafts(c) \/ Launches(c) \/ Started(c)
      PROVE  TurnTypes'
  <2>1. Leads(c) /\ asker[c].at # "idle" /\ UNCHANGED invoked
    BY <1>6, BegunLeads DEF HasVerified, StopsNow, AgentCloses, Drafts, Launches, Started, At
  <2>2. CASE Resolves(c)
    <3>1. \/ appAgents' = appAgents /\ appAgent' \in {0, appAgent}
          \/ appAgents' = appAgents + 1 /\ appAgent' = appAgents'
      BY <1>6 DEF HasVerified, StopsNow, AgentCloses, Drafts, Launches, Started, servedVars
    <3> QED
      BY <1>1, <2>1, <2>2, <3>1
  <2>3. CASE ~Resolves(c)
    <3>1. UNCHANGED appAgents /\ appAgent' \in {0, appAgent}
      BY <1>6, <2>3 DEF HasVerified, StopsNow, AgentCloses, Drafts, Launches, Started, servedVars
    <3>2. PICK place \in {"verify", "stop", "close", "apply", "launch", "starting"} : Reaches(c, place)
      BY <1>6, <2>3 DEF HasVerified, StopsNow, AgentCloses, Drafts, Launches, Started
    <3> QED
      BY <1>2, <1>3, <2>1, <3>1, <3>2
  <2> QED
    BY <2>2, <2>3
<1>7. ASSUME AppRestarts PROVE TurnTypes'
  <2>1. Len(tail') = 0 /\ InChain' = {} /\ \A d \in Askers : asker'[d].at = "idle"
    BY <1>7, IdleType DEF AppRestarts, InChain
  <2>2. UNCHANGED <<invoked, appAgents>> /\ appAgent' = 0 /\ Len(tail) \in Nat
    BY <1>7 DEF AppRestarts, ControlInv
  <2> QED
    BY <2>1, <2>2 DEF TurnTypes
<1>8. ASSUME UNCHANGED <<tail, asker, invoked, appAgent, appAgents>> PROVE TurnTypes'
  BY <1>2, <1>8 DEF TurnTypes
<1>9. ASSUME \/ OpensWindow \/ UNCHANGED appVars \/ \E f \in Folders : Moves(f)
             \/ \E w \in Windows : ReadsSession(w) \/ SetsSession(w) \/ Loads(w) \/ UserCloses(w)
      PROVE  UNCHANGED <<tail, asker, invoked, appAgent, appAgents>>
  BY <1>9 DEF OpensWindow, Moves, ReadsSession, SetsSession, Loads, UserCloses, Advances, appVars, controlVars, servedVars
<1>10. ASSUME NEW c \in Askers, NEW q \in AppCommands, Invokes(c, q) PROVE TurnTypes'
  BY <1>10, ChainGrows
<1> QED
  BY <1>4, <1>5, <1>6, <1>7, <1>8, <1>9, <1>10 DEF AppNext

LEMMA DraftTypesKeep == ControlInv /\ DraftTypes /\ [AppNext]_appVars => DraftTypes'
<1> SUFFICES ASSUME ControlInv, DraftTypes, [AppNext]_appVars PROVE DraftTypes'
  OBVIOUS
<1> DEFINE Draft == <<projects, renewed, savedProjects, projectsFile, available>>
           Agent == <<serving, scope, locked>>
           World == <<present, moves, appEnds>>
<1>1. ASSUME UNCHANGED Draft, UNCHANGED World, serving' \in BOOLEAN, locked' \in BOOLEAN, scope' \in Scopes
      PROVE  DraftTypes'
  BY <1>1 DEF DraftTypes
<1>2. ASSUME NEW c \in Askers, NEW q \in AppCommands, Invokes(c, q) PROVE DraftTypes'
  BY <1>1, <1>2 DEF Invokes, draftVars, servedVars, worldVars, DraftTypes
<1>3. ASSUME NEW c \in Askers, TakesTurn(c) \/ HasVerified(c) PROVE DraftTypes'
  BY <1>1, <1>3 DEF TakesTurn, HasVerified, draftVars, servedVars, worldVars, DraftTypes
<1>4. ASSUME NEW c \in Askers, NEW f \in Folders, VerifiesRoot(c, f) PROVE DraftTypes'
  <2>1. available' \subseteq available \cup {f}
    BY <1>4 DEF VerifiesRoot
  <2>2. UNCHANGED <<projects, renewed, savedProjects, projectsFile, serving, scope, locked, present, moves, appEnds>>
    BY <1>4 DEF VerifiesRoot, servedVars, worldVars
  <2> QED
    BY <2>1, <2>2 DEF DraftTypes
<1>5. ASSUME NEW c \in Askers, StopsNow(c) \/ AgentCloses(c) \/ Launches(c) \/ Started(c) PROVE DraftTypes'
  <2>1. UNCHANGED Draft /\ UNCHANGED World
    BY <1>5 DEF StopsNow, AgentCloses, Launches, Started, draftVars, worldVars
  <2>2. serving' \in {serving, TRUE, FALSE} /\ locked' \in {locked, TRUE, FALSE} /\ scope' \in {scope, projectsFile}
    BY <1>5 DEF StopsNow, AgentCloses, Launches, Started
  <2> QED
    BY <1>1, <2>1, <2>2 DEF DraftTypes
<1>6. ASSUME NEW c \in Askers, Drafts(c) PROVE DraftTypes'
  <2> DEFINE q == asker[c].command
  <2>1. q \in AppCommands
    BY DEF ControlInv, Asking
  <2>2. q.folder \in Folders /\ q.allow \in Allowances
    <3>1. (CHOOSE f \in Folders : TRUE) \in Folders
      BY FoldersAssumption
    <3> QED
      BY <2>1, <3>1 DEF AppCommands, Allowances
  <2>3. projects' \in {projects, [projects EXCEPT ![q.folder] = q.allow]}
    BY <1>6 DEF Drafts
  <2>4. available' \subseteq available \cup {q.folder} /\ renewed' \subseteq renewed \cup {q.folder}
    BY <1>6 DEF Drafts
  <2>5. projectsFile' \in {projects, projectsFile} /\ savedProjects' \in {projects, savedProjects}
    BY <1>6 DEF Drafts
  <2>6. UNCHANGED <<serving, scope, locked, present, moves, appEnds>>
    BY <1>6 DEF Drafts, servedVars, worldVars
  <2> HIDE DEF q
  <2>7. projects' \in Scopes
    BY <2>2, <2>3 DEF DraftTypes, Scopes
  <2> QED
    BY <2>2, <2>4, <2>5, <2>6, <2>7 DEF DraftTypes
<1>7. ASSUME NEW f \in Folders, Moves(f) PROVE DraftTypes'
  <2>1. present' \subseteq present \cup {f} /\ UNCHANGED Draft /\ UNCHANGED Agent
    BY <1>7 DEF Moves, controlVars, draftVars, servedVars
  <2>2. moves' \in 0..MaxMoves /\ UNCHANGED appEnds
    BY <1>7, AppBoundsAssumption DEF Moves, DraftTypes
  <2> QED
    BY <2>1, <2>2 DEF DraftTypes
<1>8. ASSUME AppRestarts PROVE DraftTypes'
  <2>1. UNCHANGED <<projectsFile, present, moves, scope>> /\ projects' = projectsFile /\ savedProjects' = projectsFile
    BY <1>8 DEF AppRestarts
  <2>2. available' \subseteq present /\ renewed' = {} /\ serving' = FALSE /\ locked' = FALSE
    BY <1>8 DEF AppRestarts, Found
  <2>3. appEnds' \in 0..MaxAppEnds
    BY <1>8, AppBoundsAssumption DEF AppRestarts, DraftTypes
  <2> QED
    BY <2>1, <2>2, <2>3 DEF DraftTypes
<1>9. ASSUME \/ OpensWindow \/ UNCHANGED appVars
             \/ \E w \in Windows : ReadsSession(w) \/ SetsSession(w) \/ Loads(w) \/ UserCloses(w)
      PROVE  DraftTypes'
  <2>1. UNCHANGED Draft /\ UNCHANGED World /\ UNCHANGED Agent
    BY <1>9 DEF OpensWindow, ReadsSession, SetsSession, Loads, UserCloses, Advances, appVars, controlVars, draftVars,
                servedVars, worldVars
  <2> QED
    BY <1>1, <2>1 DEF DraftTypes
<1> QED
  BY <1>2, <1>3, <1>4, <1>5, <1>6, <1>7, <1>8, <1>9 DEF AppNext

LEMMA WindowTypesKeep ==
  WindowsInv /\ TurnTypes /\ WindowTypes /\ [AppNext]_appVars => WindowTypes'
<1> SUFFICES ASSUME WindowsInv, TurnTypes, WindowTypes, [AppNext]_appVars PROVE WindowTypes'
  OBVIOUS
<1>0. /\ wins \in [Windows -> Opened] /\ winCount \in Nat /\ winCount <= MaxWindows
      /\ Windows \subseteq Nat /\ appAgents \in Nat
      /\ Gone.at = "gone" /\ 0 \notin Windows
  BY DEF WindowsInv, WindowTypes, TurnTypes, Windows, Gone, NoWindow
<1>1. ASSUME NEW c \in Askers, NEW q \in AppCommands, Invokes(c, q) PROVE WindowTypes'
  <2>1. UNCHANGED <<winCount, appAgents>>
    BY <1>1 DEF Invokes, windowVars, servedVars
  <2>2. CASE CloseWindows
    <3>1. window' = 0 /\ owner' = 0 /\ opening' = 0
      BY <2>2 DEF CloseWindows
    <3>2. \A w \in Windows : wins'[w].at # "none" => w <= winCount
      BY <1>0, <2>2 DEF CloseWindows, WindowTypes
    <3>3. window' \in 0..winCount' /\ opening' \in 0..winCount' /\ owner' \in 0..appAgents'
      BY <1>0, <2>1, <3>1
    <3>4. winCount' \in 0..MaxWindows
      BY <2>1 DEF WindowTypes
    <3> QED
      BY <2>1, <3>2, <3>3, <3>4 DEF WindowTypes
  <2>3. CASE UNCHANGED windowVars
    BY <2>1, <2>3 DEF windowVars, WindowTypes
  <2> QED
    BY <1>1, <2>2, <2>3 DEF Invokes
<1>2. ASSUME OpensWindow PROVE WindowTypes'
  <2>1. /\ winCount' = winCount + 1 /\ winCount' <= MaxWindows /\ opening' = winCount' /\ owner' = appAgent
        /\ window' \in {0, window} /\ UNCHANGED appAgents
    BY <1>0, <1>2, AppBoundsAssumption DEF OpensWindow, servedVars
  <2>2. \A w \in Windows : w = winCount' \/ wins'[w].at = "gone" \/ wins'[w] = wins[w]
    BY <1>0, <1>2 DEF OpensWindow
  <2>3. \A w \in Windows : wins'[w].at = "gone" /\ wins'[w] # wins[w] => w = winCount' \/ w = window
    BY <1>0, <1>2 DEF OpensWindow
  <2>4. ASSUME NEW w \in Windows, wins'[w].at # "none" PROVE w <= winCount'
    <3>1. w \in Nat /\ winCount' \in Nat /\ window <= winCount'
      BY <1>0, <2>1 DEF WindowTypes
    <3>2. CASE w = winCount' \/ w = window
      BY <3>1, <3>2
    <3>3. CASE wins'[w] = wins[w]
      <4>1. w <= winCount
        BY <2>4, <3>3 DEF WindowTypes
      <4> QED
        BY <1>0, <2>1, <3>1, <4>1
    <3> QED
      BY <2>2, <2>3, <3>2, <3>3
  <2>5. winCount' \in 0..MaxWindows /\ window' \in 0..winCount' /\ opening' \in 0..winCount' /\ owner' \in 0..appAgents'
    BY <1>0, <2>1, AppBoundsAssumption DEF WindowTypes, TurnTypes
  <2> QED
    BY <2>4, <2>5 DEF WindowTypes
<1>3. ASSUME NEW w \in Windows, ReadsSession(w) \/ SetsSession(w) \/ Loads(w) \/ UserCloses(w) PROVE WindowTypes'
  <2>1. wins[w].at # "none" /\ UNCHANGED <<owner, winCount, appAgents>>
    BY <1>3 DEF ReadsSession, SetsSession, Loads, UserCloses, Advances, servedVars
  <2>2. window' \in {0, w, window} /\ opening' \in {0, opening}
    BY <1>3 DEF ReadsSession, SetsSession, Loads, UserCloses, Advances
  <2>3. \A x \in Windows \ {w} : wins'[x] = wins[x]
    BY <1>0, <1>3 DEF ReadsSession, SetsSession, Loads, UserCloses, Advances
  <2>4. w \in 0..winCount
    BY <1>0, <2>1 DEF WindowTypes
  <2>5. \A x \in Windows : wins'[x].at # "none" => x <= winCount
    BY <2>3, <2>4 DEF WindowTypes
  <2>6. window' \in 0..winCount /\ opening' \in 0..winCount
    BY <1>0, <2>2, <2>4 DEF WindowTypes
  <2> QED
    BY <2>1, <2>5, <2>6 DEF WindowTypes
<1>4. ASSUME AppRestarts PROVE WindowTypes'
  <2>1. /\ winCount' = 0 /\ window' = 0 /\ opening' = 0 /\ owner' = 0 /\ UNCHANGED appAgents
        /\ \A w \in Windows : wins'[w].at = "none"
    BY <1>4 DEF AppRestarts, NoWindow
  <2> QED
    BY <1>0, <2>1, AppBoundsAssumption DEF WindowTypes
\* Agents are started by a command, which touches no window.
<1>5. ASSUME UNCHANGED windowVars, appAgents' \in {appAgents, appAgents + 1} PROVE WindowTypes'
  <2>1. owner \in 0..appAgents'
    BY <1>0, <1>5 DEF WindowTypes
  <2> QED
    BY <1>5, <2>1 DEF windowVars, WindowTypes
<1>6. ASSUME NEW c \in Askers,
             \/ TakesTurn(c) \/ HasVerified(c) \/ \E f \in Folders : VerifiesRoot(c, f)
             \/ StopsNow(c) \/ AgentCloses(c) \/ Drafts(c) \/ Launches(c) \/ Started(c)
      PROVE  WindowTypes'
  BY <1>5, <1>6 DEF TakesTurn, HasVerified, VerifiesRoot, StopsNow, AgentCloses, Drafts, Launches, Started, servedVars
<1>7. ASSUME UNCHANGED appVars \/ \E f \in Folders : Moves(f) PROVE WindowTypes'
  BY <1>5, <1>7 DEF Moves, appVars, servedVars
<1> QED
  BY <1>1, <1>2, <1>3, <1>4, <1>6, <1>7 DEF AppNext

LEMMA AppTypesKeep == ControlInv /\ WindowsInv /\ AppTypes /\ [AppNext]_appVars => AppTypes'
  BY DraftTypesKeep, TurnTypesKeep, WindowTypesKeep DEF AppTypes

-----------------------------------------------------------------------------
(* The parts together *)

WorkInv == PlanInv /\ BrokerInv /\ EditInv

ChoiceInv == ProfilesInv /\ RoutesInv /\ ControlInv /\ WindowsInv

\* A run of the agent loop is a run of a thread.
AgentInv == part \in Threads => AgentTyped /\ ApprovalInv /\ TalkInv

LEMMA AgentStarting == Init => AgentInv
  BY AgentStarts, ApprovalStarts, TalkStarts DEF Init, AgentInv

LEMMA AgentSteps == AgentInv /\ [Next]_vars => AgentInv'
<1> SUFFICES ASSUME AgentInv, [Next]_vars, part' \in Threads PROVE (AgentTyped /\ ApprovalInv /\ TalkInv)'
  BY DEF AgentInv
<1>1. [AgentNext]_agentVars /\ part' = part
  BY DEF Next, vars, AgentStep
<1>2. AgentTyped /\ ApprovalInv /\ TalkInv
  BY <1>1 DEF AgentInv
<1> QED
  BY <1>1, <1>2, AgentKeeps, ApprovalKeeps, TalkKeeps DEF AgentTyped

LEMMA AgentIsExact == AgentInv => AgentsAreExact
  BY TalkIsAnswered DEF AgentInv, AgentTyped, ApprovalInv, AgentsAreExact

LEMMA Starting == Init => WorkInv /\ ChoiceInv
  BY PlanStarts, BrokerStarts, EditStarts, ProfilesStart, RoutesStart, ControlStarts, WindowsStart
     DEF Init, WorkInv, ChoiceInv

LEMMA WorkSteps == WorkInv /\ [Next]_vars => WorkInv'
<1> SUFFICES ASSUME WorkInv, [Next]_vars PROVE WorkInv'
  OBVIOUS
<1>1. [PlanNext]_planVars
  BY DEF Next, vars, PlanStep
<1>2. [BrokerNext]_brokerVars
  BY DEF Next, vars, BrokerStep
<1>3. [EditNext]_editVars
  BY DEF Next, vars, EditStep
<1> QED
  BY <1>1, <1>2, <1>3, PlanKeeps, BrokerKeeps, EditKeeps DEF WorkInv

LEMMA ChoiceSteps == ChoiceInv /\ [Next]_vars => ChoiceInv'
<1> SUFFICES ASSUME ChoiceInv, [Next]_vars PROVE ChoiceInv'
  OBVIOUS
<1>1. [ProfilesNext]_profileVars
  BY DEF Next, vars, ProfilesStep
<1>2. [RoutesNext]_routingVars
  BY DEF Next, vars, RoutesStep
<1>3. [AppNext]_appVars
  BY DEF Next, vars, AppStep
<1> QED
  BY <1>1, <1>2, <1>3, ProfilesKeep, RoutesKeep, ControlKeeps, WindowsKeep DEF ChoiceInv

\* The types need what the other invariants say of the same parts.
TypeInv ==
  /\ ProfilesType /\ RoutesTypes /\ StreamsTypes /\ PlanTypes /\ BrokerType /\ EditTypes /\ AppTypes

LEMMA TypesStart == Init => TypeInv
  BY ProfilesTypesStart, RoutesTypesStart, StreamsTypesStart, PlanTypesStart, BrokerTypes, EditTypesStart,
     AppTypesStart DEF Init, TypeInv

LEMMA TypeSteps == WorkInv /\ ChoiceInv /\ TypeInv /\ [Next]_vars => TypeInv'
<1> SUFFICES ASSUME WorkInv, ChoiceInv, TypeInv, [Next]_vars PROVE TypeInv'
  OBVIOUS
<1>1. PlanInv /\ PlanTyped /\ EditInv /\ ProfilesInv /\ RoutesInv /\ ControlInv /\ WindowsInv
  BY DEF WorkInv, ChoiceInv, PlanInv
<1>2. [ProfilesNext]_profileVars /\ [RoutesNext]_routingVars /\ [StreamsNext]_streamVars /\ [PlanNext]_planVars
  BY DEF Next, vars, ProfilesStep, RoutesStep, StreamsStep, PlanStep
<1>3. [BrokerNext]_brokerVars /\ [EditNext]_editVars /\ [AppNext]_appVars
  BY DEF Next, vars, BrokerStep, EditStep, AppStep
<1>4. saved \in [Profiles -> Seq(BOOLEAN)]
  BY <1>1 DEF ProfilesInv
<1>5. ProfilesType' /\ RoutesTypes' /\ StreamsTypes'
  BY <1>1, <1>2, <1>4, ProfilesTypesKeep, RoutesTypesKeep, StreamsTypesKeep DEF TypeInv
<1>6. PlanTypes' /\ BrokerType'
  BY <1>1, <1>2, <1>3, PlanTypesKeep, BrokerKeepsType DEF TypeInv
<1>7. EditTypes' /\ AppTypes'
  BY <1>1, <1>3, EditTypesKeep, AppTypesKeep DEF TypeInv
<1> QED
  BY <1>5, <1>6, <1>7 DEF TypeInv

LEMMA TypesHold == WorkInv /\ ChoiceInv /\ AgentInv /\ TypeInv => TypeOK
<1> SUFFICES ASSUME WorkInv, ChoiceInv, AgentInv, TypeInv PROVE TypeOK
  OBVIOUS
<1>1. RoutesType
  BY RoutesAreTyped DEF ChoiceInv, TypeInv
<1>2. part \in Threads => AgentType
  BY AgentIsTyped DEF AgentInv
<1>3. PlanType
  BY DEF WorkInv, TypeInv, PlanInv, PlanTyped, PlanTypes, PlanType, Points
<1>4. AppType
  BY AppIsTyped DEF ChoiceInv, TypeInv
<1> QED
  BY <1>1, <1>2, <1>3, <1>4 DEF TypeInv, TypeOK, StreamsTypes, EditTypes

LEMMA WorkIsExact == WorkInv => WorkersAreExact
  BY PlanIsExact, EditIsWhole DEF WorkInv, BrokerInv, WorkersAreExact

LEMMA ChoiceIsExact == ChoiceInv => ChoicesAreExact
  BY ProfilesAreSaved, RoutesRun DEF ChoiceInv, ControlInv, WindowsInv, ChoicesAreExact

(* The types of the models: the profiles, the routes and their commands, the   *)
(* agent, the events of a stream, the rows of a plan and as many workers as    *)
(* the plan may have, the budget, the edits and the application, whose         *)
(* commands form a chain in which each that has not ended stands once.         *)
THEOREM ModelsTyped == Spec => []TypeOK
<1> DEFINE All == WorkInv /\ ChoiceInv /\ AgentInv /\ TypeInv
<1>1. Init => All
  BY Starting, AgentStarting, TypesStart
<1>2. All /\ [Next]_vars => All'
  BY WorkSteps, ChoiceSteps, AgentSteps, TypeSteps
<1>3. All => TypeOK
  BY TypesHold
<1> HIDE DEF All
<1>4. All /\ UNCHANGED vars => All'
  BY <1>2
<1> QED
  BY <1>1, <1>2, <1>3, <1>4, PTL DEF Spec

(* The workers of a plan are exact (hub-scheduler, hub_runtime::workers,       *)
(* hub-context): a task starts on the saved work of all that it depends on, in *)
(* one worktree and one thread, is left alone when it has its outcome, and is  *)
(* within its budget; what the rows call completed can be recovered; and the   *)
(* edit of a local worker is whole or undone (hub_runtime::local_worker).      *)
THEOREM WorkersCorrect == Spec => []WorkersAreExact
<1>1. WorkInv /\ UNCHANGED vars => WorkInv'
  BY WorkSteps
<1> QED
  BY Starting, WorkSteps, WorkIsExact, PTL DEF Spec

(* The choices of a user are exact (models.rs, auto_routing.rs, controller.mjs *)
(* and approval-windows.mjs of the agent): the registry serves revisions that  *)
(* the store has, a task runs the one preview that was shown with its id and   *)
(* revision, a project has one route that can run, and an agent serves the     *)
(* projects that are saved and shown, with the approvals of the agent it is.   *)
THEOREM ChoicesCorrect == Spec => []ChoicesAreExact
<1>1. ChoiceInv /\ UNCHANGED vars => ChoiceInv'
  BY ChoiceSteps
<1> QED
  BY Starting, ChoiceSteps, ChoiceIsExact, PTL DEF Spec

(* Agents are exact (api_worker.rs, CommandApprovals, run_with_history): a     *)
(* session changes nothing; a command outside the allowlist runs once for each *)
(* approval, one that the user was shown and granted for this thread, turn and *)
(* command; a turn that waits for a decision can hear it, however the          *)
(* decisions of the users, failures of the store and stops interleave; and     *)
(* every tool call of a transcript is answered, in order, by the message that  *)
(* follows it whenever the provider is asked, over any number of turns,        *)
(* failed, refused or interrupted, but for the turns that a stop cut while     *)
(* their messages were stored.                                                 *)
THEOREM AgentsCorrect == Spec => []AgentsAreExact
<1>1. AgentInv /\ UNCHANGED vars => AgentInv'
  BY AgentSteps
<1> QED
  BY AgentStarting, AgentSteps, AgentIsExact, PTL DEF Spec

(* Answers are exact (parse_openai_chat_sse, parse_openai_response,            *)
(* parse_anthropic_sse and the messages of the next request in provider-api):  *)
(* for any answer, in any number of blocks and fragments, however these        *)
(* alternate and wherever the connection ends, the agent gets the whole answer *)
(* or an error, each block once with all its fragments in order, the calls in  *)
(* their order and each with all its arguments or none; and what goes back to  *)
(* the provider is what it said, but for refusals.                             *)
THEOREM AnswersCorrect == Spec => []AnswersAreExact
<1>1. Init => StreamInv
  BY StreamInvStart DEF Init
<1>2. StreamInv /\ [Next]_vars => StreamInv'
  <2>1. [Next]_vars => [StreamsNext]_streamVars
    BY DEF Next, vars, StreamsStep
  <2> QED
    BY <2>1, StreamInvKeep
<1>3. StreamInv /\ UNCHANGED vars => StreamInv'
  BY <1>2
<1>4. StreamInv => AnswersAreExact
  BY ResponsesWhole, AnswersResent DEF AnswersAreExact
<1> QED
  BY <1>1, <1>2, <1>3, <1>4, PTL DEF Spec
=============================================================================
