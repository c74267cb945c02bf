-------------------------- MODULE ManifestWorkflow --------------------------
(***************************************************************************)
(* One Manifest workflow of the desktop app (src-tauri/src/autonomous.rs): *)
(* the persisted snapshot, the runner task that executes it, the workers   *)
(* of its current batch, the automated review, and the commands that read  *)
(* and rewrite the same snapshot concurrently - import, review import,     *)
(* resume, stop and the UI's poll - across crashes of the application.     *)
(*                                                                         *)
(* A plan step is its index in plan order, as in the code.  What a worker  *)
(* produced is identified by the task id of the attempt that produced it,  *)
(* so the hash of an integrated artifact is the function from steps to     *)
(* the attempts whose patches it contains.                                 *)
(***************************************************************************)
EXTENDS Naturals, FiniteSets

CONSTANTS
  N,            \* number of steps of the plan
  Deps,         \* Deps[i]: dependencies of step i as parse_plan leaves them
  Provider,     \* Provider[i]: frozen provider of step i's target
  Reviewer,     \* provider of settings_snapshot.reviewer_default, or "none"
  Runner,       \* tokio tasks that launch may spawn
  Caller,       \* concurrent command invocations that take workflow_lock
  Free,         \* value of workflow_lock when nobody holds it
  ReviewId,     \* manifest ids of the Review Manifests the user may import
  NoId,         \* "no manifest id"
  MaxLaunches,  \* bound: runs started by import, review import and resume
  MaxCrashes    \* bound: crashes of the application

Steps == 1..N

ASSUME PlanAssumption ==
  /\ N \in Nat \ {0}
  /\ Deps \in [Steps -> SUBSET Steps]
  /\ \A i \in Steps : \A j \in Deps[i] : j < i
  /\ Provider \in [Steps -> {"local", "codex", "api"}]
  /\ Reviewer \in {"none", "codex", "api"}

ASSUME ActorAssumption ==
  /\ Free \notin Caller
  /\ NoId \notin ReviewId
  /\ MaxLaunches \in Nat
  /\ MaxCrashes \in Nat

VARIABLES
  w,             \* setting autonomous:{id}: the persisted AutonomousSnapshot
  receipts,      \* manifest_receipt:* settings of the imported reviews
  threadDone,    \* rows of provider_threads: child of step i is "completed"
  openReviewers, \* Codex reviewer children whose row is not "completed"
  live,          \* LIVE contains the workflow's id
  lock,          \* workflow_lock
  cmd,           \* where each command that takes the lock is
  held,          \* the snapshot each such command will write back
  run,           \* where each runner task is
  verdict,       \* the snapshot the runner read to apply a verdict, and its changes
  job,           \* where the worker future of each step is
  jobErr,        \* a worker of the current batch returned Err
  poll,          \* where autonomous_snapshot is
  stopper,       \* where autonomous_stop is
  remote,        \* attempts of step i with an active turn in the Codex server
  reviewTurn,    \* the last Codex reviewer's turn is active in the Codex server
  sent,          \* history: attempts <<i, task>> whose prompt was sent
  launches,      \* history: snapshots saved in order to be launched
  crashes        \* history: crashes so far

persisted == <<w, receipts, threadDone, openReviewers>>
commands  == <<lock, cmd, held>>
runner    == <<run, verdict>>
workers   == <<job, jobErr>>
viewers   == <<poll, stopper>>
codex     == <<remote, reviewTurn>>
history   == <<sent, launches, crashes>>
vars == <<persisted, live, commands, runner, workers, viewers, codex, history>>

-----------------------------------------------------------------------------
(* The snapshot. *)

StepStatus == {"pending", "running", "completed", "failed", "interrupted", "blocked"}

\* thread.status of a workflow that no one is working on.
Terminal == {"completed", "failed", "interrupted", "reconciliation_required",
             "review_rejected", "awaiting_review", "needs_attention"}
Status == Terminal \cup {"absent", "queued", "running", "integrating", "stopping"}

StepState == [status : StepStatus, task : Nat, child : BOOLEAN, turn : Nat,
              base : [Steps -> Nat], evidence : BOOLEAN]

NoVersion == <<>>

Snapshot == [status : Status, stop : BOOLEAN, iteration : Nat,
             steps : [Steps -> StepState],
             version : {NoVersion} \cup [Steps -> Nat],
             review : {"none", "pass", "fail", "inconclusive"},
             history : SUBSET (Steps \X Nat)]

\* turn 0 is None; base[j] is the attempt of j whose patch was applied first.
FreshStep(task) ==
  [status |-> "pending", task |-> task, child |-> FALSE, turn |-> 0,
   base |-> [j \in Steps |-> 0], evidence |-> FALSE]

Blank == [status |-> "absent", stop |-> FALSE, iteration |-> 0,
          steps |-> [i \in Steps |-> FreshStep(0)], version |-> NoVersion,
          review |-> "none", history |-> {}]

Imported == [Blank EXCEPT !.status = "queued", !.iteration = 1,
                          !.steps = [i \in Steps |-> FreshStep(1)]]

AllCompleted(s) == \A i \in Steps : s.steps[i].status = "completed"

evidence_complete(s) ==
  \A i \in Steps : s.steps[i].status = "completed" /\ s.steps[i].evidence

\* artifact_version of the steps' current patches.
artifact_version(s) == [i \in Steps |-> s.steps[i].task]

\* Mutant: only completed steps are archived.
ArchiveCompleted(s) ==
  s.history \cup {<<i, s.steps[i].task>> : i \in {j \in Steps : s.steps[j].status = "completed"}}

Archive(s) == s.history \cup {<<i, s.steps[i].task>> : i \in Steps}

ancestors[i \in Steps] == Deps[i] \cup UNION {ancestors[j] : j \in Deps[i]}

\* Mutant: dependencies are not waited for.
ready_batch_any(s) == {i \in Steps : s.steps[i].status = "pending"}

\* Pending steps whose dependencies are completed, the first three of the plan.
ready_batch(s) ==
  LET ready == {i \in Steps : /\ s.steps[i].status = "pending"
                              /\ \A j \in Deps[i] : s.steps[j].status = "completed"}
  IN {i \in ready : Cardinality({j \in ready : j < i}) < 3}

\* Mutant: downstream steps keep their old work.
AffectedNamed(changes) == changes

\* The steps a review sends back: those it names and every step downstream.
Affected(changes) ==
  LET hit[i \in Steps] == i \in changes \/ \E j \in Deps[i] : hit[j]
  IN {i \in Steps : hit[i]}

\* Mutant: the new attempt keeps the old task id.
ResetSameTask(step, task, keepChild) ==
  [FreshStep(step.task) EXCEPT !.child = step.child /\ keepChild,
                               !.turn = IF keepChild THEN step.turn ELSE 0]

\* A new attempt of a step; only the provider session survives, if kept.
Reset(step, task, keepChild) ==
  [FreshStep(task) EXCEPT !.child = step.child /\ keepChild,
                          !.turn = IF keepChild THEN step.turn ELSE 0]

-----------------------------------------------------------------------------
(* The whole-snapshot functions prepare_review and prepare_resume. *)

Reviewable == {"awaiting_review", "review_rejected", "needs_attention", "completed"}

\* Mutant: a Pass does not need successful evidence.
CanReviewUnproved(s, version, outcome) ==
  s.status \in Reviewable /\ version # NoVersion /\ s.version = version

CanReview(s, version, outcome) ==
  /\ s.status \in Reviewable
  /\ version # NoVersion /\ s.version = version
  /\ outcome = "pass" => evidence_complete(s)

prepare_review(s, outcome, changes) ==
  IF changes = {}
  THEN [s EXCEPT !.review = outcome,
                 !.status = IF outcome = "pass" THEN "completed" ELSE "review_rejected"]
  ELSE [s EXCEPT !.status = "queued", !.stop = FALSE, !.iteration = @ + 1,
                 !.version = NoVersion, !.review = "none", !.history = Archive(s),
                 !.steps = [i \in Steps |->
                    IF i \in Affected(changes)
                    THEN Reset(s.steps[i], s.iteration + 1, Provider[i] # "local")
                    ELSE s.steps[i]]]

ReviewRetry(s) == s.status \in {"awaiting_review", "needs_attention"} /\ AllCompleted(s)

CanResume(s) ==
  ReviewRetry(s) \/ s.status \in {"interrupted", "failed", "reconciliation_required"}

prepare_resume(s) ==
  LET cleared == [s EXCEPT !.status = "queued", !.stop = FALSE, !.version = NoVersion,
                           !.review = "none", !.history = Archive(s)]
      keepChild(i) == \/ Provider[i] = "codex"
                      \/ Provider[i] = "api" /\ s.status = "reconciliation_required"
  IN IF ReviewRetry(s) THEN cleared
     ELSE [cleared EXCEPT !.iteration = @ + 1,
             !.steps = [i \in Steps |->
                IF s.steps[i].status = "completed" THEN s.steps[i]
                ELSE Reset(s.steps[i], s.iteration + 1, keepChild(i))]]

\* Mutant: running steps get the status of the workflow.
SettleMixed(s, status) ==
  [s EXCEPT !.status = status,
            !.steps = [i \in Steps |-> IF s.steps[i].status \in {"pending", "running"}
                                       THEN [s.steps[i] EXCEPT !.status = status]
                                       ELSE s.steps[i]]]

\* What launch's error path and a poll that finds no runner do to the steps.
Settle(s, status) ==
  [s EXCEPT !.status = status,
            !.steps = [i \in Steps |->
               CASE s.steps[i].status = "pending" -> [s.steps[i] EXCEPT !.status = "blocked"]
                 [] s.steps[i].status = "running" -> [s.steps[i] EXCEPT !.status = "interrupted"]
                 [] OTHER -> s.steps[i]]]

-----------------------------------------------------------------------------
(* Initially nothing was imported. *)

NoCommand == [snap |-> Blank, id |-> NoId]
NoVerdict == [snap |-> Blank, outcome |-> "none", changes |-> {}]

Init ==
  /\ w = Blank /\ receipts = {}
  /\ threadDone = [i \in Steps |-> FALSE] /\ openReviewers = 0
  /\ live = FALSE /\ lock = Free
  /\ cmd = [c \in Caller |-> "idle"] /\ held = [c \in Caller |-> NoCommand]
  /\ run = [r \in Runner |-> "off"] /\ verdict = NoVerdict
  /\ job = [i \in Steps |-> "idle"] /\ jobErr = FALSE
  /\ poll = "idle" /\ stopper = "idle"
  /\ remote = [i \in Steps |-> {}] /\ reviewTurn = FALSE
  /\ sent = {} /\ launches = 0 /\ crashes = 0

-----------------------------------------------------------------------------
(* interrupt_children: every child whose thread row is not completed must   *)
(* confirm its stop.  A Codex child is asked over the current connection,   *)
(* about its saved turn or else about whatever turn thread/read reports; if *)
(* neither exists the outcome of its start is ambiguous and the call fails. *)

\* Mutant: a child without a saved turn is taken for stopped.
OpenChildrenWithTurn == {i \in Steps : /\ Provider[i] = "codex" /\ w.steps[i].child
                                       /\ w.steps[i].turn # 0 /\ ~threadDone[i]}

OpenChildren == {i \in Steps : /\ Provider[i] = "codex"
                               /\ w.steps[i].child /\ ~threadDone[i]}

AmbiguousChild ==
  \/ \E i \in OpenChildren : w.steps[i].turn = 0 /\ remote[i] = {}
  \/ openReviewers > 1
  \/ openReviewers = 1 /\ ~reviewTurn

StopChildren ==
  /\ remote' = [i \in Steps |->
       IF i \notin OpenChildren THEN remote[i]
       ELSE IF w.steps[i].turn = 0 THEN {} ELSE remote[i] \ {w.steps[i].turn}]
  /\ reviewTurn' = (reviewTurn /\ openReviewers = 0)

\* Every child confirmed.
ChildrenStopped ==
  /\ ~AmbiguousChild
  /\ StopChildren

\* Mutant: every stop is awaited for ever.
AlwaysConfirmed == FALSE

\* Some child is ambiguous, or the provider cannot be reached or times out.
ChildrenUnconfirmed ==
  /\ OpenChildren # {} \/ openReviewers > 0
  /\ \/ AmbiguousChild /\ StopChildren
     \/ UNCHANGED codex

-----------------------------------------------------------------------------
(* Commands under workflow_lock. *)

\* Mutant: the stored status is trusted instead of LIVE.
RunnerSettled == w.status \in Terminal

\* LIVE does not contain the workflow.
RunnerGone == ~live

Acquire(c) == lock = Free /\ lock' = c
Release == lock' = Free

Finish(c) ==
  /\ cmd' = [cmd EXCEPT ![c] = "idle"]
  /\ held' = [held EXCEPT ![c] = NoCommand]

\* import_task: receipt, thread row and snapshot in one transaction.
ImportTask(c) ==
  /\ cmd[c] = "idle" /\ launches = 0 /\ MaxLaunches > 0
  /\ Acquire(c)
  /\ w' = Imported
  /\ launches' = 1
  /\ cmd' = [cmd EXCEPT ![c] = "launch"]
  /\ UNCHANGED <<receipts, threadDone, openReviewers, live, held, runner, workers,
                 viewers, codex, sent, crashes>>

\* import_review up to the last await: the artifact and the manifest agree.
BeginReview(c, id, outcome, changes) ==
  /\ cmd[c] = "idle" /\ id \notin receipts
  /\ outcome = "pass" => changes = {}
  /\ changes # {} => launches < MaxLaunches
  /\ Acquire(c) /\ RunnerGone
  /\ CanReview(w, w.version, outcome)
  /\ held' = [held EXCEPT ![c] = [snap |-> prepare_review(w, outcome, changes), id |-> id]]
  /\ cmd' = [cmd EXCEPT ![c] = "accept"]
  /\ UNCHANGED <<persisted, live, runner, workers, viewers, codex, history>>

\* accept_manifest: the whole prepared snapshot, with its receipt.
AcceptReview(c) ==
  /\ cmd[c] = "accept"
  /\ w' = held[c].snap
  /\ receipts' = receipts \cup {held[c].id}
  /\ IF held[c].snap.status = "queued"
     THEN /\ cmd' = [cmd EXCEPT ![c] = "launch"]
          /\ launches' = launches + 1
          /\ UNCHANGED <<lock, held>>
     ELSE /\ Finish(c) /\ Release
          /\ UNCHANGED launches
  /\ UNCHANGED <<threadDone, openReviewers, live, runner, workers, viewers, codex,
                 sent, crashes>>

\* autonomous_resume up to interrupt_children.
BeginResume(c) ==
  /\ cmd[c] = "idle" /\ launches < MaxLaunches
  /\ Acquire(c) /\ RunnerGone
  /\ CanResume(w)
  /\ held' = [held EXCEPT ![c] = [snap |-> prepare_resume(w), id |-> NoId]]
  /\ cmd' = [cmd EXCEPT ![c] = "interrupt"]
  /\ UNCHANGED <<persisted, live, runner, workers, viewers, codex, history>>

ResumeInterrupt(c) ==
  /\ cmd[c] = "interrupt"
  /\ \/ /\ ChildrenStopped
        /\ cmd' = [cmd EXCEPT ![c] = "save"]
        /\ UNCHANGED <<lock, held>>
     \/ /\ ChildrenUnconfirmed
        /\ Finish(c) /\ Release
  /\ UNCHANGED <<persisted, live, runner, workers, viewers, history>>

\* update(|current| *current = w.clone())
SaveResume(c) ==
  /\ cmd[c] = "save"
  /\ w' = held[c].snap
  /\ launches' = launches + 1
  /\ cmd' = [cmd EXCEPT ![c] = "launch"]
  /\ UNCHANGED <<receipts, threadDone, openReviewers, live, lock, held, runner, workers,
                 viewers, codex, sent, crashes>>

\* LIVE.insert, then the runner is spawned; the command returns.
Launch(c) ==
  /\ cmd[c] = "launch"
  /\ live' = TRUE
  /\ \E r \in Runner :
       /\ run[r] = "off"
       /\ run' = [run EXCEPT ![r] = "starting"]
  /\ Finish(c) /\ Release
  /\ UNCHANGED <<persisted, verdict, workers, viewers, codex, history>>

-----------------------------------------------------------------------------
(* The runner task: launch, guarded, run and automated_review. *)

Goto(r, pc) == run' = [run EXCEPT ![r] = pc]

DropJobs ==
  /\ job' = [i \in Steps |-> "idle"]
  /\ jobErr' = FALSE

\* States in which run awaits something, so that guard_with may drop it.
Awaiting == {"starting", "loop", "batch", "apply", "review", "reviewing"}

\* The guard's tick observes the stop, its deadline fires, or run returns Err.
DropRun(r) ==
  /\ run[r] \in Awaiting
  /\ Goto(r, "failing")
  /\ DropJobs
  /\ UNCHANGED <<persisted, live, commands, verdict, viewers, codex, history>>

\* Top of 'review_iterations; at first after the frozen routes are validated.
RunTop(r) ==
  /\ run[r] \in {"starting", "top"}
  /\ run[r] = "starting" => ~w.stop
  /\ w' = [w EXCEPT !.status = "running"]
  /\ Goto(r, "loop")
  /\ UNCHANGED <<receipts, threadDone, openReviewers, live, commands, verdict, workers,
                 viewers, codex, history>>

\* Mark the ready batch running and spawn its workers.
RunBatch(r) ==
  /\ run[r] = "loop" /\ ~w.stop
  /\ ready_batch(w) # {}
  /\ w' = [w EXCEPT !.steps = [i \in Steps |->
            IF i \in ready_batch(w) THEN [w.steps[i] EXCEPT !.status = "running"]
            ELSE w.steps[i]]]
  /\ job' = [i \in Steps |-> IF i \in ready_batch(w) THEN "spawned" ELSE job[i]]
  /\ jobErr' = FALSE
  /\ Goto(r, "batch")
  /\ UNCHANGED <<receipts, threadDone, openReviewers, live, commands, verdict, viewers,
                 codex, history>>

\* The whole batch is drained before its errors are looked at.
RunJoin(r) ==
  /\ run[r] = "batch"
  /\ \A i \in Steps : job[i] = "idle"
  /\ Goto(r, IF jobErr THEN "failing" ELSE "loop")
  /\ UNCHANGED <<persisted, live, commands, verdict, workers, viewers, codex, history>>

RunIntegrate(r) ==
  /\ run[r] = "loop" /\ ~w.stop
  /\ AllCompleted(w)
  /\ w' = [w EXCEPT !.status = "integrating"]
  /\ Goto(r, "apply")
  /\ UNCHANGED <<receipts, threadDone, openReviewers, live, commands, verdict, workers,
                 viewers, codex, history>>

\* All patches applied to the artifact worktree and hashed.
RunPublish(r) ==
  /\ run[r] = "apply"
  /\ w' = [w EXCEPT !.version = artifact_version(w), !.status = "awaiting_review"]
  /\ Goto(r, "review")
  /\ UNCHANGED <<receipts, threadDone, openReviewers, live, commands, verdict, workers,
                 viewers, codex, history>>

\* automated_review refuses before a reviewer exists: none configured, target
\* unavailable, payload too large, or its worktree or session cannot start.
ReviewUnavailable(r) ==
  /\ run[r] = "review"
  /\ w' = [w EXCEPT !.status = "needs_attention"]
  /\ Goto(r, "returning")
  /\ UNCHANGED <<receipts, threadDone, openReviewers, live, commands, verdict, workers,
                 viewers, codex, history>>

\* A fresh reviewer child is saved and its turn starts.
StartReviewer(r) ==
  /\ run[r] = "review" /\ Reviewer # "none"
  /\ openReviewers' = openReviewers + (IF Reviewer = "codex" THEN 1 ELSE 0)
  /\ reviewTurn' = (Reviewer = "codex")
  /\ Goto(r, "reviewing")
  /\ UNCHANGED <<w, receipts, threadDone, live, commands, verdict, workers, viewers,
                 remote, history>>

\* finish_review_run, and the reviewer's thread row becomes completed. Without a
\* verdict its turn may go on: codex_review_turn returns on its timeout, a lost event
\* stream or an error, and interrupts nothing.
FinishReviewer(outcome) ==
  /\ openReviewers' = openReviewers - (IF Reviewer = "codex" THEN 1 ELSE 0)
  /\ reviewTurn' \in {FALSE, reviewTurn /\ outcome = "inconclusive"}
  /\ UNCHANGED <<receipts, threadDone, live, commands, workers, viewers, remote, history>>

BelowReworkLimit(s) == s.iteration < 2

\* No verdict, an invalid one, a changed artifact, or rework past the limit.
NeedsAttention(r, outcome) ==
  /\ run[r] = "reviewing"
  /\ outcome = "fail" => ~BelowReworkLimit(w)
  /\ w' = [w EXCEPT !.status = "needs_attention", !.review = outcome]
  /\ Goto(r, "returning")
  /\ UNCHANGED verdict
  /\ FinishReviewer(outcome)

\* Pass, or rework below the limit: the snapshot is read to be prepared ...
ReadForVerdict(r, outcome, changes) ==
  /\ run[r] = "reviewing"
  /\ IF outcome = "pass" THEN changes = {} ELSE changes # {} /\ BelowReworkLimit(w)
  /\ verdict' = [snap |-> w, outcome |-> outcome, changes |-> changes]
  /\ Goto(r, "verdict")
  /\ UNCHANGED w
  /\ FinishReviewer(outcome)

\* ... and the prepared snapshot replaces whatever is stored by then.
SaveVerdict(r) ==
  /\ run[r] = "verdict"
  /\ LET s == verdict.snap
     IN IF CanReview(s, s.version, verdict.outcome)
        THEN /\ w' = prepare_review(s, verdict.outcome, verdict.changes)
             /\ Goto(r, IF verdict.changes = {} THEN "returning" ELSE "top")
        ELSE /\ UNCHANGED w
             /\ Goto(r, "failing")
  /\ verdict' = NoVerdict
  /\ UNCHANGED <<receipts, threadDone, openReviewers, live, commands, workers, viewers,
                 codex, history>>

\* run returned Ok: the guard polls once more, then LiveGuard is dropped.
RunReturn(r) ==
  /\ run[r] = "returning"
  /\ Goto(r, IF w.stop THEN "failing" ELSE "off")
  /\ live' = w.stop
  /\ UNCHANGED <<persisted, commands, verdict, workers, viewers, codex, history>>

\* launch's error path persists the outcome before it stops the children.
RunFail(r) ==
  /\ run[r] = "failing"
  /\ w' = Settle(w, IF w.stop THEN "interrupted" ELSE "reconciliation_required")
  /\ Goto(r, "cleanup")
  /\ UNCHANGED <<receipts, threadDone, openReviewers, live, commands, verdict, workers,
                 viewers, codex, history>>

RunCleanup(r) ==
  /\ run[r] = "cleanup"
  /\ \/ ChildrenStopped /\ UNCHANGED w
     \/ ChildrenUnconfirmed /\ w' = [w EXCEPT !.status = "reconciliation_required"]
  /\ Goto(r, "off")
  /\ live' = FALSE
  /\ UNCHANGED <<receipts, threadDone, openReviewers, commands, verdict, workers, viewers,
                 history>>

RunnerStep(r) ==
  \/ DropRun(r) \/ RunTop(r) \/ RunBatch(r) \/ RunJoin(r)
  \/ RunIntegrate(r) \/ RunPublish(r)
  \/ ReviewUnavailable(r) \/ StartReviewer(r)
  \/ \E outcome \in {"fail", "inconclusive"} : NeedsAttention(r, outcome)
  \/ \E outcome \in {"pass", "fail"}, changes \in SUBSET Steps :
        ReadForVerdict(r, outcome, changes)
  \/ SaveVerdict(r) \/ RunReturn(r) \/ RunFail(r) \/ RunCleanup(r)

-----------------------------------------------------------------------------
(* The worker of step i.  A worker that fails in any way, or whose guard    *)
(* sees the stop, reports "failed"; its Codex turn may still be active.     *)

Step(i) == w.steps[i]
SetStep(i, s) == w' = [w EXCEPT !.steps = [@ EXCEPT ![i] = s]]
JobAt(i, pc, next) == job[i] = pc /\ job' = [job EXCEPT ![i] = next]

JobError(i) ==
  /\ job[i] # "idle"
  /\ job[i] = "returned" => w.stop
  /\ job' = [job EXCEPT ![i] = "idle"]
  /\ jobErr' = TRUE
  /\ SetStep(i, [Step(i) EXCEPT !.status = "failed"])
  /\ UNCHANGED <<receipts, threadDone, openReviewers, live, commands, runner, viewers,
                 codex, history>>

\* check, fresh worktree, then the patches of every ancestor.
JobPrepare(i) ==
  /\ JobAt(i, "spawned", "prepared") /\ ~w.stop
  /\ SetStep(i, [Step(i) EXCEPT !.base =
        [j \in Steps |-> IF j \in ancestors[i] THEN Step(j).task ELSE 0]])
  /\ UNCHANGED <<receipts, threadDone, openReviewers, jobErr, live, commands, runner,
                 viewers, codex, history>>

\* codex_worker: thread/start, or thread/resume of the saved session, which
\* must not still have an active turn; the row becomes "running".
JobThread(i) ==
  /\ Provider[i] = "codex"
  /\ JobAt(i, "prepared", "threaded") /\ ~w.stop
  /\ Step(i).child => remote[i] = {}
  /\ SetStep(i, [Step(i) EXCEPT !.child = TRUE, !.turn = 0])
  /\ threadDone' = [threadDone EXCEPT ![i] = FALSE]
  /\ UNCHANGED <<receipts, openReviewers, jobErr, live, commands, runner, viewers, codex,
                 history>>

\* The attempt is persisted before anything is sent; a check comes before it
\* (Codex, local) or after it (API).
JobAttempt(i) ==
  /\ JobAt(i, IF Provider[i] = "codex" THEN "threaded" ELSE "prepared", "attempted")
  /\ Provider[i] # "api" => ~w.stop
  /\ IF Provider[i] = "codex" THEN UNCHANGED <<w, threadDone>>
     ELSE /\ SetStep(i, [Step(i) EXCEPT !.child = TRUE])
          /\ threadDone' = [threadDone EXCEPT ![i] = FALSE]
  /\ UNCHANGED <<receipts, openReviewers, jobErr, live, commands, runner, viewers, codex,
                 history>>

JobSend(i) ==
  /\ JobAt(i, "attempted", "waiting")
  /\ Provider[i] = "api" => ~w.stop
  /\ sent' = sent \cup {<<i, Step(i).task>>}
  /\ remote' = IF Provider[i] = "codex"
               THEN [remote EXCEPT ![i] = @ \cup {Step(i).task}] ELSE remote
  /\ UNCHANGED <<persisted, jobErr, live, commands, runner, viewers, reviewTurn, launches,
                 crashes>>

\* turn/start answered: the child's turn is saved.
JobTurn(i) ==
  /\ Provider[i] = "codex"
  /\ JobAt(i, "waiting", "streaming")
  /\ SetStep(i, [Step(i) EXCEPT !.turn = Step(i).task])
  /\ UNCHANGED <<receipts, threadDone, openReviewers, jobErr, live, commands, runner,
                 viewers, codex, history>>

\* The provider finished: evidence is recorded, the row becomes "completed".
JobAnswer(i, evidence) ==
  /\ JobAt(i, IF Provider[i] = "codex" THEN "streaming" ELSE "waiting", "answered")
  /\ SetStep(i, [Step(i) EXCEPT !.evidence = evidence])
  /\ threadDone' = [threadDone EXCEPT ![i] = TRUE]
  /\ remote' = [remote EXCEPT ![i] = @ \ {Step(i).task}]
  /\ UNCHANGED <<receipts, openReviewers, jobErr, live, commands, runner, viewers,
                 reviewTurn, history>>

\* Ownership verified, patch saved; a stop stored meanwhile is honoured.
JobFinish(i) ==
  /\ JobAt(i, "answered", "returned")
  /\ SetStep(i, [Step(i) EXCEPT !.status = IF w.stop THEN "interrupted" ELSE "completed"])
  /\ UNCHANGED <<receipts, threadDone, openReviewers, jobErr, live, commands, runner,
                 viewers, codex, history>>

\* The worker's guard polls once more before it passes Ok on.
JobReturn(i) ==
  /\ JobAt(i, "returned", "idle") /\ ~w.stop
  /\ UNCHANGED <<persisted, jobErr, live, commands, runner, viewers, codex, history>>

JobStep(i) ==
  \/ JobError(i) \/ JobPrepare(i) \/ JobThread(i) \/ JobAttempt(i) \/ JobSend(i)
  \/ JobTurn(i) \/ (\E evidence \in BOOLEAN : JobAnswer(i, evidence))
  \/ JobFinish(i) \/ JobReturn(i)

-----------------------------------------------------------------------------
(* autonomous_snapshot, polled by the UI, and autonomous_stop.  Neither     *)
(* takes workflow_lock.                                                     *)

\* Mutant: only the status "running" is expected to have a runner.
ExpectsRunnerNamed == w.status = "running"

\* The status is not terminal, so there should be a runner.
ExpectsRunner == w.status \notin Terminal \cup {"absent"}

PollRead ==
  /\ poll = "idle" /\ ExpectsRunner
  /\ poll' = "read"
  /\ UNCHANGED <<persisted, live, commands, runner, workers, stopper, codex, history>>

PollCheck ==
  /\ poll = "read"
  /\ poll' = IF live THEN "idle" ELSE "lost"
  /\ UNCHANGED <<persisted, live, commands, runner, workers, stopper, codex, history>>

MarkLost ==
  /\ poll = "lost"
  /\ w' = [Settle(w, "reconciliation_required") EXCEPT !.stop = TRUE]
  /\ poll' = "interrupt"
  /\ UNCHANGED <<receipts, threadDone, openReviewers, live, commands, runner, workers,
                 stopper, codex, history>>

PollInterrupt ==
  /\ poll = "interrupt"
  /\ ChildrenStopped \/ ChildrenUnconfirmed
  /\ poll' = "idle"
  /\ UNCHANGED <<persisted, live, commands, runner, workers, stopper, history>>

StopRead ==
  /\ stopper = "idle"
  /\ w.status \notin {"absent", "completed", "review_rejected", "awaiting_review"}
  /\ stopper' = "read"
  /\ UNCHANGED <<persisted, live, commands, runner, workers, poll, codex, history>>

RequestStop ==
  /\ stopper = "read"
  /\ w' = [w EXCEPT !.stop = TRUE,
                    !.status = IF @ \in Terminal THEN @ ELSE "stopping"]
  /\ stopper' = "requested"
  /\ UNCHANGED <<receipts, threadDone, openReviewers, live, commands, runner, workers, poll,
                 codex, history>>

\* A live runner owns the cleanup.
StopCheck ==
  /\ stopper = "requested"
  /\ stopper' = IF live THEN "idle" ELSE "interrupt"
  /\ UNCHANGED <<persisted, live, commands, runner, workers, poll, codex, history>>

StopInterrupt ==
  /\ stopper = "interrupt"
  /\ \/ ChildrenStopped /\ stopper' = "stopped"
     \/ ChildrenUnconfirmed /\ stopper' = "unconfirmed"
  /\ UNCHANGED <<persisted, live, commands, runner, workers, poll, history>>

StopSettle ==
  /\ stopper \in {"stopped", "unconfirmed"}
  /\ w' = [w EXCEPT !.status =
        IF stopper = "unconfirmed" THEN "reconciliation_required"
        ELSE IF @ = "stopping" THEN "interrupted" ELSE @]
  /\ stopper' = "idle"
  /\ UNCHANGED <<receipts, threadDone, openReviewers, live, commands, runner, workers, poll,
                 codex, history>>

-----------------------------------------------------------------------------
(* The environment: a Codex turn ends on its own, and the application dies, *)
(* which loses everything that is not in the database.                      *)

TurnEnds(i) ==
  /\ job[i] = "idle" /\ remote[i] # {}
  /\ \E a \in remote[i] : remote' = [remote EXCEPT ![i] = @ \ {a}]
  /\ UNCHANGED <<persisted, live, commands, runner, workers, viewers, reviewTurn, history>>

ReviewTurnEnds ==
  /\ reviewTurn /\ reviewTurn' = FALSE
  /\ \A r \in Runner : run[r] # "reviewing"
  /\ UNCHANGED <<persisted, live, commands, runner, workers, viewers, remote, history>>

Crash ==
  /\ crashes < MaxCrashes /\ crashes' = crashes + 1
  /\ live' = FALSE /\ lock' = Free
  /\ cmd' = [c \in Caller |-> "idle"] /\ held' = [c \in Caller |-> NoCommand]
  /\ run' = [r \in Runner |-> "off"] /\ verdict' = NoVerdict
  /\ DropJobs
  /\ poll' = "idle" /\ stopper' = "idle"
  /\ UNCHANGED <<persisted, codex, sent, launches>>

CallerStep(c) ==
  \/ AcceptReview(c) \/ ResumeInterrupt(c) \/ SaveResume(c) \/ Launch(c)

UserStarts(c) ==
  \/ ImportTask(c) \/ BeginResume(c)
  \/ \E id \in ReviewId, outcome \in {"pass", "fail", "inconclusive"},
        changes \in SUBSET Steps : BeginReview(c, id, outcome, changes)

PollStep == PollRead \/ PollCheck \/ MarkLost \/ PollInterrupt
StopStep == RequestStop \/ StopCheck \/ StopInterrupt \/ StopSettle

Next ==
  \/ \E c \in Caller : UserStarts(c) \/ CallerStep(c)
  \/ \E r \in Runner : RunnerStep(r)
  \/ \E i \in Steps : JobStep(i) \/ TurnEnds(i)
  \/ PollStep \/ StopRead \/ StopStep
  \/ ReviewTurnEnds \/ Crash

Spec == Init /\ [][Next]_vars

(* The async runtime keeps polling a task that can make progress, guard_with *)
(* has a deadline, every provider call a timeout, and the UI polls a running *)
(* workflow every 1.5 s.  Users, crashes and providers owe nothing.          *)
Fairness ==
  /\ \A c \in Caller : WF_vars(CallerStep(c))
  /\ \A r \in Runner : WF_vars(RunnerStep(r)) /\ WF_vars(DropRun(r))
  /\ \A i \in Steps : WF_vars(JobStep(i))
  /\ WF_vars(PollStep) /\ WF_vars(StopStep)

FairSpec == Spec /\ Fairness

-----------------------------------------------------------------------------
(* Properties. *)

Active(r) == run[r] # "off"

\* Every variable keeps its type: a stored or held snapshot always parses.
TypeOK ==
  /\ w \in Snapshot
  /\ receipts \subseteq ReviewId
  /\ threadDone \in [Steps -> BOOLEAN] /\ openReviewers \in Nat
  /\ live \in BOOLEAN /\ lock \in Caller \cup {Free}
  /\ cmd \in [Caller -> {"idle", "accept", "interrupt", "save", "launch"}]
  /\ held \in [Caller -> [snap : Snapshot, id : ReviewId \cup {NoId}]]
  /\ \A c \in Caller : cmd[c] = "accept" => held[c].id \in ReviewId
  /\ run \in [Runner -> Awaiting \cup {"off", "top", "verdict", "returning", "failing",
                                       "cleanup"}]
  /\ verdict \in [snap : Snapshot, outcome : {"none", "pass", "fail"}, changes : SUBSET Steps]
  /\ job \in [Steps -> {"idle", "spawned", "prepared", "threaded", "attempted", "waiting",
                        "streaming", "answered", "returned"}]
  /\ jobErr \in BOOLEAN
  /\ poll \in {"idle", "read", "lost", "interrupt"}
  /\ stopper \in {"idle", "read", "requested", "interrupt", "stopped", "unconfirmed"}
  /\ remote \in [Steps -> SUBSET Nat] /\ reviewTurn \in BOOLEAN
  /\ sent \subseteq Steps \X Nat
  /\ launches \in Nat /\ crashes \in Nat

\* Two runner tasks never execute the workflow at once, and the task that does
\* is registered in LIVE, on which stop, poll, resume and review import rely.
OneRunner ==
  /\ \A r, q \in Runner : Active(r) /\ Active(q) => r = q
  /\ \A r \in Runner : Active(r) => live

\* An artifact is only ever published, reviewed or completed when each patch in
\* it was made on top of the very patches of its ancestors that are in it too:
\* rework and resume send back everything downstream of what they reset.
FreshInputs ==
  w.version # NoVersion =>
    \A i \in Steps : \A j \in ancestors[i] : w.steps[i].base[j] = w.version[j]

\* A completed workflow carries a Pass for exactly the artifact built from the
\* current attempt of every step, each with a successful verification.
CompletedIsReviewed ==
  w.status = "completed" =>
    /\ w.review = "pass" /\ w.version = artifact_version(w)
    /\ evidence_complete(w)

\* Every attempt whose prompt was sent is still a current attempt or is in the
\* history: no overwrite of the whole snapshot forgets work that was paid for.
AttemptsKept == sent \subseteq Archive(w)

\* The patches a worker builds on cannot change or be taken back under it: the
\* ancestors of a step being worked on stay completed until the worker is gone.
StableInputs ==
  \A i \in Steps : job[i] # "idle" =>
    \A j \in ancestors[i] : w.steps[j].status = "completed"

\* What a worker builds on is current: the patches under a step being worked on stay,
\* and the artifact that is made of them is made of no others (integrate, rework).
InputsAreCurrent == FreshInputs /\ StableInputs

\* A resume rewrites the snapshot only when no turn of an earlier attempt is
\* still active: it confirmed every stop first.
ResumeOnlyWhenQuiet ==
  \A c \in Caller : cmd[c] = "save" => \A i \in Steps : remote[i] = {}

\* One attempt of a step is sent at most once, whatever crashed, was lost or was
\* resumed in between: an ambiguous send is never replayed.
NoReplay ==
  [][\A i \in Steps :
       job[i] = "attempted" /\ job'[i] = "waiting" => <<i, w.steps[i].task>> \notin sent]_vars

\* A runner that started ends, by itself, by the stop or by the deadline.
RunnerEnds == \A r \in Runner : Active(r) ~> ~Active(r)

\* A workflow does not stay in a running status for ever: its runner or, after a
\* crash, the poll gives it a terminal one.
Settles == (w.status \notin Terminal \cup {"absent"}) ~> (w.status \in Terminal)

-----------------------------------------------------------------------------
(* What comments and tests say of the code, and the code does not keep. *)

\* Comment of update, autonomous.rs:208, "Store lock covers read/modify/write, so
\* parallel completions cannot erase stops": only the user's own resume or review
\* import turns a stored stop request off.
StopNotErased ==
  [][w.stop /\ ~w'.stop =>
       \E c \in Caller : cmd[c] \in {"save", "accept"} /\ cmd'[c] = "launch"]_vars
=============================================================================
