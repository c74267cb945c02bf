------------------------ MODULE ManifestWorkflowProofs ------------------------
(***************************************************************************)
(* Proofs about ManifestWorkflow for every plan, every number of commands   *)
(* and runner tasks, and every bound: first the types and the ownership of  *)
(* the runner, then the data: which attempts there are, on top of what each *)
(* was made, and what an artifact and a review stand for.                   *)
(***************************************************************************)
EXTENDS ManifestWorkflow, TLAPS, WellFoundedInduction

-----------------------------------------------------------------------------
(* The functions on snapshots preserve the type of a snapshot. *)

\* A fresh step state is well formed.
LEMMA FreshStepType ==
  ASSUME NEW task \in Nat
  PROVE  FreshStep(task) \in StepState
  BY DEF FreshStep, StepState, StepStatus

\* A snapshot with another status, or other steps, is a snapshot.
LEMMA SnapshotStatus ==
  ASSUME NEW s \in Snapshot, NEW x \in Status
  PROVE  [s EXCEPT !.status = x] \in Snapshot
  BY DEF Snapshot

LEMMA SnapshotSteps ==
  ASSUME NEW s \in Snapshot, NEW f \in [Steps -> StepState]
  PROVE  [s EXCEPT !.steps = f] \in Snapshot
  BY DEF Snapshot

LEMMA SnapshotStep ==
  ASSUME NEW s \in Snapshot, NEW i \in Steps, NEW x \in StepState
  PROVE  [s EXCEPT !.steps = [@ EXCEPT ![i] = x]] \in Snapshot
  <1>1. s.steps \in [Steps -> StepState]
    BY DEF Snapshot
  <1>2. [s.steps EXCEPT ![i] = x] \in [Steps -> StepState]
    BY <1>1
  <1> QED
    BY <1>2, SnapshotSteps

LEMMA BlankType == Blank \in Snapshot
  <1>1. 0 \in Nat
    OBVIOUS
  <1>2. [i \in Steps |-> FreshStep(0)] \in [Steps -> StepState]
    BY <1>1, FreshStepType
  <1> QED
    BY <1>2 DEF Blank, Snapshot, Status, Terminal, NoVersion

LEMMA ImportedType == Imported \in Snapshot
  <1>1. [i \in Steps |-> FreshStep(1)] \in [Steps -> StepState]
    BY FreshStepType
  <1> QED
    BY <1>1, BlankType DEF Imported, Snapshot, Status

LEMMA ResetType ==
  ASSUME NEW x \in StepState, NEW task \in Nat, NEW keep \in BOOLEAN
  PROVE  Reset(x, task, keep) \in StepState
  <1>1. FreshStep(task) \in StepState
    BY FreshStepType
  <1>2. (x.child /\ keep) \in BOOLEAN /\ (IF keep THEN x.turn ELSE 0) \in Nat
    BY DEF StepState
  <1> QED
    BY <1>1, <1>2 DEF Reset, StepState

LEMMA ArchiveType ==
  ASSUME NEW s \in Snapshot
  PROVE  Archive(s) \in SUBSET (Steps \X Nat)
  <1>1. s.steps \in [Steps -> StepState] /\ s.history \in SUBSET (Steps \X Nat)
    BY DEF Snapshot
  <1>2. \A i \in Steps : s.steps[i].task \in Nat
    BY <1>1 DEF StepState
  <1> QED
    BY <1>1, <1>2 DEF Archive

\* prepare_review yields a snapshot, whatever the verdict and the changes.
LEMMA PrepareReviewType ==
  ASSUME NEW s \in Snapshot, NEW outcome \in {"none", "pass", "fail", "inconclusive"},
         NEW changes
  PROVE  prepare_review(s, outcome, changes) \in Snapshot
  <1>1. CASE changes = {}
    BY <1>1 DEF prepare_review, Snapshot, Status, Terminal
  <1>2. CASE changes # {}
    <2> DEFINE f == [i \in Steps |->
                       IF i \in Affected(changes)
                       THEN Reset(s.steps[i], s.iteration + 1, Provider[i] # "local")
                       ELSE s.steps[i]]
    <2>1. s.iteration + 1 \in Nat
      BY DEF Snapshot
    <2>2. \A i \in Steps : s.steps[i] \in StepState
      BY DEF Snapshot
    <2>3. f \in [Steps -> StepState]
      <3>1. \A i \in Steps : Reset(s.steps[i], s.iteration + 1, Provider[i] # "local") \in StepState
        BY <2>1, <2>2, ResetType
      <3> QED
        BY <2>2, <3>1
    <2>4. Archive(s) \in SUBSET (Steps \X Nat)
      BY ArchiveType
    <2> HIDE DEF f
    <2>5. [s EXCEPT !.status = "queued", !.stop = FALSE, !.iteration = @ + 1,
                    !.version = NoVersion, !.review = "none", !.history = Archive(s),
                    !.steps = f] \in Snapshot
      BY <2>1, <2>3, <2>4 DEF Snapshot, Status
    <2> QED
      BY <1>2, <2>5 DEF prepare_review, f
  <1> QED
    BY <1>1, <1>2

\* prepare_resume yields a snapshot.
LEMMA PrepareResumeType ==
  ASSUME NEW s \in Snapshot
  PROVE  prepare_resume(s) \in Snapshot
  <1> DEFINE cleared == [s EXCEPT !.status = "queued", !.stop = FALSE, !.version = NoVersion,
                                  !.review = "none", !.history = Archive(s)]
             keepChild(i) == \/ Provider[i] = "codex"
                             \/ Provider[i] = "api" /\ s.status = "reconciliation_required"
             f == [i \in Steps |->
                     IF s.steps[i].status = "completed" THEN s.steps[i]
                     ELSE Reset(s.steps[i], s.iteration + 1, keepChild(i))]
  <1>1. s.iteration + 1 \in Nat
    BY DEF Snapshot
  <1>2. \A i \in Steps : s.steps[i] \in StepState
    BY DEF Snapshot
  <1>3. f \in [Steps -> StepState]
    <2>1. \A i \in Steps : Reset(s.steps[i], s.iteration + 1, keepChild(i)) \in StepState
      BY <1>1, <1>2, ResetType
    <2> QED
      BY <1>2, <2>1
  <1>4. cleared \in Snapshot
    BY ArchiveType DEF Snapshot, Status
  <1>5. cleared.iteration = s.iteration
    BY DEF Snapshot
  <1> HIDE DEF f, cleared
  <1>6. [cleared EXCEPT !.iteration = @ + 1, !.steps = f] \in Snapshot
    BY <1>1, <1>3, <1>4, <1>5 DEF Snapshot
  <1> QED
    BY <1>4, <1>6 DEF prepare_resume, f, cleared

\* Settle yields a snapshot for any workflow status.
LEMMA SettleType ==
  ASSUME NEW s \in Snapshot, NEW status \in Status
  PROVE  Settle(s, status) \in Snapshot
  <1> DEFINE f == [i \in Steps |->
                     CASE s.steps[i].status = "pending" -> [s.steps[i] EXCEPT !.status = "blocked"]
                       [] s.steps[i].status = "running" -> [s.steps[i] EXCEPT !.status = "interrupted"]
                       [] OTHER -> s.steps[i]]
  <1>1. \A i \in Steps : s.steps[i] \in StepState
    BY DEF Snapshot
  <1>2. \A i \in Steps : /\ [s.steps[i] EXCEPT !.status = "blocked"] \in StepState
                         /\ [s.steps[i] EXCEPT !.status = "interrupted"] \in StepState
    BY <1>1 DEF StepState, StepStatus
  <1>3. f \in [Steps -> StepState]
    BY <1>1, <1>2
  <1> HIDE DEF f
  <1>4. [s EXCEPT !.status = status, !.steps = f] \in Snapshot
    BY <1>3 DEF Snapshot
  <1> QED
    BY <1>4 DEF Settle, f
-----------------------------------------------------------------------------
(* Type correctness: one lemma per group of actions. *)

LEMMA NoCommandType == NoCommand \in [snap : Snapshot, id : ReviewId \cup {NoId}]
  BY BlankType DEF NoCommand

LEMMA NoVerdictType ==
  NoVerdict \in [snap : Snapshot, outcome : {"none", "pass", "fail"}, changes : SUBSET Steps]
  BY BlankType DEF NoVerdict

LEMMA TypeInit == Init => TypeOK
  <1> SUFFICES ASSUME Init PROVE TypeOK
    OBVIOUS
  <1> USE DEF Init
  <1>1. w \in Snapshot /\ receipts \subseteq ReviewId
    BY BlankType
  <1>2. threadDone \in [Steps -> BOOLEAN] /\ openReviewers \in Nat
    OBVIOUS
  <1>3. held \in [Caller -> [snap : Snapshot, id : ReviewId \cup {NoId}]]
    BY NoCommandType
  <1>4. verdict \in [snap : Snapshot, outcome : {"none", "pass", "fail"}, changes : SUBSET Steps]
    BY NoVerdictType
  <1>5. remote \in [Steps -> SUBSET Nat] /\ sent \subseteq Steps \X Nat
    OBVIOUS
  <1> QED
    BY <1>1, <1>2, <1>3, <1>4, <1>5 DEF TypeOK

\* interrupt_children only removes turns.
LEMMA StopChildrenType ==
  ASSUME TypeOK, StopChildren
  PROVE  remote' \in [Steps -> SUBSET Nat] /\ reviewTurn' \in BOOLEAN
  <1>1. \A i \in Steps : remote[i] \in SUBSET Nat
    BY DEF TypeOK
  <1> QED
    BY <1>1 DEF StopChildren, TypeOK

LEMMA InterruptType ==
  ASSUME TypeOK, ChildrenStopped \/ ChildrenUnconfirmed
  PROVE  remote' \in [Steps -> SUBSET Nat] /\ reviewTurn' \in BOOLEAN
  <1>1. CASE StopChildren
    BY <1>1, StopChildrenType
  <1>2. CASE UNCHANGED codex
    BY <1>2 DEF codex, TypeOK
  <1> QED
    BY <1>1, <1>2 DEF ChildrenStopped, ChildrenUnconfirmed

\* The variables no command touches are in the groups it leaves unchanged.
LEMMA CommandType ==
  ASSUME TypeOK, NEW c \in Caller, UserStarts(c) \/ CallerStep(c)
  PROVE  TypeOK'
  <1> USE DEF TypeOK, persisted, runner, workers, viewers, codex, history
  <1>1. CASE ImportTask(c)
    BY <1>1, ImportedType DEF ImportTask, Acquire
  <1>2. ASSUME NEW id \in ReviewId, NEW outcome \in {"pass", "fail", "inconclusive"},
               NEW changes \in SUBSET Steps, BeginReview(c, id, outcome, changes)
        PROVE  TypeOK'
    <2>1. prepare_review(w, outcome, changes) \in Snapshot
      BY PrepareReviewType
    <2>2. [snap |-> prepare_review(w, outcome, changes), id |-> id]
            \in [snap : Snapshot, id : ReviewId \cup {NoId}]
      BY <2>1
    <2> QED
      BY <1>2, <2>2 DEF BeginReview, Acquire
  <1>3. CASE AcceptReview(c)
    <2>1. held[c].snap \in Snapshot /\ held[c].id \in ReviewId
      BY <1>3 DEF AcceptReview
    <2>2. w' \in Snapshot /\ receipts' \subseteq ReviewId
      BY <1>3, <2>1 DEF AcceptReview
    <2>3. CASE held[c].snap.status = "queued"
      BY <1>3, <2>2, <2>3 DEF AcceptReview
    <2>4. CASE held[c].snap.status # "queued"
      <3>1. cmd' = [cmd EXCEPT ![c] = "idle"] /\ held' = [held EXCEPT ![c] = NoCommand]
        BY <1>3, <2>4 DEF AcceptReview, Finish
      <3>2. /\ lock' = Free /\ launches' = launches
            /\ UNCHANGED <<threadDone, openReviewers, live, runner, workers, viewers, codex,
                           sent, crashes>>
        BY <1>3, <2>4 DEF AcceptReview, Release
      <3>3. /\ cmd' \in [Caller -> {"idle", "accept", "interrupt", "save", "launch"}]
            /\ held' \in [Caller -> [snap : Snapshot, id : ReviewId \cup {NoId}]]
            /\ \A d \in Caller : cmd'[d] = "accept" => held'[d].id \in ReviewId
        BY <3>1, NoCommandType
      <3> QED
        BY <2>2, <3>2, <3>3
    <2> QED
      BY <2>3, <2>4
  <1>4. CASE BeginResume(c)
    <2>1. [snap |-> prepare_resume(w), id |-> NoId]
            \in [snap : Snapshot, id : ReviewId \cup {NoId}]
      BY PrepareResumeType
    <2> QED
      BY <1>4, <2>1 DEF BeginResume, Acquire
  <1>5. CASE ResumeInterrupt(c)
    <2>1. remote' \in [Steps -> SUBSET Nat] /\ reviewTurn' \in BOOLEAN
      BY <1>5, InterruptType DEF ResumeInterrupt
    <2> QED
      BY SMTT(30), <1>5, <2>1, NoCommandType DEF ResumeInterrupt, Finish, Release
  <1>6. CASE SaveResume(c)
    BY <1>6 DEF SaveResume
  <1>7. CASE Launch(c)
    BY <1>7, NoCommandType DEF Launch, Finish, Release, Awaiting
  <1> QED
    BY <1>1, <1>2, <1>3, <1>4, <1>5, <1>6, <1>7 DEF UserStarts, CallerStep

LEMMA ViewerType ==
  ASSUME TypeOK, PollStep \/ StopRead \/ StopStep
  PROVE  TypeOK'
  <1> USE DEF TypeOK, persisted, commands, runner, workers, codex, history
  <1>1. CASE PollRead \/ PollCheck \/ StopRead \/ StopCheck
    BY <1>1 DEF PollRead, PollCheck, StopRead, StopCheck
  <1>2. CASE MarkLost
    <2>1. Settle(w, "reconciliation_required") \in Snapshot
      BY SettleType DEF Status, Terminal
    <2>2. w' \in Snapshot
      BY <1>2, <2>1 DEF MarkLost, Snapshot
    <2> QED
      BY <1>2, <2>2 DEF MarkLost
  <1>3. CASE PollInterrupt
    BY <1>3, InterruptType DEF PollInterrupt
  <1>4. CASE RequestStop
    <2>1. w' \in Snapshot
      BY <1>4 DEF RequestStop, Snapshot, Status
    <2> QED
      BY <1>4, <2>1 DEF RequestStop
  <1>5. CASE StopInterrupt
    BY <1>5, InterruptType DEF StopInterrupt
  <1>6. CASE StopSettle
    <2>1. w' \in Snapshot
      BY <1>6 DEF StopSettle, Snapshot, Status, Terminal
    <2> QED
      BY <1>6, <2>1 DEF StopSettle
  <1> QED
    BY <1>1, <1>2, <1>3, <1>4, <1>5, <1>6 DEF PollStep, StopStep

LEMMA EnvironmentType ==
  ASSUME TypeOK, ReviewTurnEnds \/ Crash \/ \E i \in Steps : TurnEnds(i)
  PROVE  TypeOK'
  <1> USE DEF TypeOK, persisted, commands, runner, workers, viewers, codex, history
  <1>1. CASE ReviewTurnEnds
    BY <1>1 DEF ReviewTurnEnds
  <1>2. CASE Crash
    <2>1. crashes' \in Nat
      BY <1>2 DEF Crash
    <2>2. /\ held' \in [Caller -> [snap : Snapshot, id : ReviewId \cup {NoId}]]
          /\ verdict' \in [snap : Snapshot, outcome : {"none", "pass", "fail"},
                           changes : SUBSET Steps]
      BY <1>2, NoCommandType, NoVerdictType DEF Crash
    <2>3. /\ cmd' \in [Caller -> {"idle", "accept", "interrupt", "save", "launch"}]
          /\ \A c \in Caller : cmd'[c] = "accept" => held'[c].id \in ReviewId
      BY <1>2 DEF Crash
    <2> QED
      BY <1>2, <2>1, <2>2, <2>3 DEF Crash, DropJobs
  <1>3. ASSUME NEW i \in Steps, TurnEnds(i)
        PROVE  TypeOK'
    <2>1. remote' \in [Steps -> SUBSET Nat]
      BY <1>3 DEF TurnEnds
    <2> QED
      BY <1>3, <2>1 DEF TurnEnds
  <1> QED
    BY <1>1, <1>2, <1>3

\* A worker step replaces the state of one step by a well-formed one.
LEMMA SetStepType ==
  ASSUME TypeOK, NEW i \in Steps, NEW x \in StepState, SetStep(i, x)
  PROVE  w' \in Snapshot
  BY SnapshotStep DEF SetStep, TypeOK

LEMMA WorkerType ==
  ASSUME TypeOK, NEW i \in Steps, JobStep(i)
  PROVE  TypeOK'
  <1>0. Step(i) \in StepState
    BY DEF TypeOK, Snapshot, Step
  <1> USE DEF TypeOK, persisted, commands, runner, viewers, codex, history
  <1>1. CASE JobError(i)
    <2>1. [Step(i) EXCEPT !.status = "failed"] \in StepState
      BY <1>0 DEF StepState, StepStatus
    <2>2. w' \in Snapshot
      BY <1>1, <2>1, SetStepType DEF JobError
    <2> QED
      BY <1>1, <2>2 DEF JobError
  <1>2. CASE JobPrepare(i)
    <2> DEFINE b == [j \in Steps |-> IF j \in ancestors[i] THEN Step(j).task ELSE 0]
    <2>1. \A j \in Steps : Step(j).task \in Nat
      BY DEF Step, Snapshot, StepState
    <2>2. b \in [Steps -> Nat]
      BY <2>1
    <2> HIDE DEF b
    <2>3. [Step(i) EXCEPT !.base = b] \in StepState
      BY <1>0, <2>2 DEF StepState
    <2>4. w' \in Snapshot
      BY <1>2, <2>3, SetStepType DEF JobPrepare, b
    <2> QED
      BY <1>2, <2>4 DEF JobPrepare, JobAt
  <1>3. CASE JobThread(i)
    <2>1. [Step(i) EXCEPT !.child = TRUE, !.turn = 0] \in StepState
      BY <1>0 DEF StepState
    <2>2. w' \in Snapshot
      BY <1>3, <2>1, SetStepType DEF JobThread
    <2> QED
      BY <1>3, <2>2 DEF JobThread, JobAt
  <1>4. CASE JobAttempt(i)
    <2>1. [Step(i) EXCEPT !.child = TRUE] \in StepState
      BY <1>0 DEF StepState
    <2>2. w' \in Snapshot
      BY <1>4, <2>1, SetStepType DEF JobAttempt
    <2>3. threadDone' \in [Steps -> BOOLEAN]
      BY <1>4 DEF JobAttempt
    <2> QED
      BY ZenonT(30), <1>4, <2>2, <2>3 DEF JobAttempt, JobAt
  <1>5. CASE JobSend(i)
    <2>1. Step(i).task \in Nat
      BY <1>0 DEF StepState
    <2>2. sent' \subseteq Steps \X Nat
      BY <1>5, <2>1 DEF JobSend
    <2>3. remote' \in [Steps -> SUBSET Nat]
      BY <1>5, <2>1 DEF JobSend
    <2> QED
      BY <1>5, <2>2, <2>3 DEF JobSend, JobAt
  <1>6. CASE JobTurn(i)
    <2>1. [Step(i) EXCEPT !.turn = Step(i).task] \in StepState
      BY <1>0 DEF StepState
    <2>2. w' \in Snapshot
      BY <1>6, <2>1, SetStepType DEF JobTurn
    <2> QED
      BY <1>6, <2>2 DEF JobTurn, JobAt
  <1>7. ASSUME NEW evidence \in BOOLEAN, JobAnswer(i, evidence)
        PROVE  TypeOK'
    <2>1. [Step(i) EXCEPT !.evidence = evidence] \in StepState
      BY <1>0 DEF StepState
    <2>2. w' \in Snapshot
      BY <1>7, <2>1, SetStepType DEF JobAnswer
    <2>3. remote' \in [Steps -> SUBSET Nat] /\ threadDone' \in [Steps -> BOOLEAN]
      BY <1>7 DEF JobAnswer
    <2> QED
      BY <1>7, <2>2, <2>3 DEF JobAnswer, JobAt
  <1>8. CASE JobFinish(i)
    <2>1. [Step(i) EXCEPT !.status = IF w.stop THEN "interrupted" ELSE "completed"] \in StepState
      BY <1>0 DEF StepState, StepStatus
    <2>2. w' \in Snapshot
      BY <1>8, <2>1, SetStepType DEF JobFinish
    <2> QED
      BY <1>8, <2>2 DEF JobFinish, JobAt
  <1>9. CASE JobReturn(i)
    BY <1>9 DEF JobReturn, JobAt
  <1> QED
    BY <1>1, <1>2, <1>3, <1>4, <1>5, <1>6, <1>7, <1>8, <1>9 DEF JobStep

-----------------------------------------------------------------------------
(* Ownership: which of the lock, LIVE and the runner tasks excludes what.   *)

\* A command works only while it holds workflow_lock and no runner is live.
LockInv == \A c \in Caller : cmd[c] # "idle" => lock = c /\ ~live

\* Only a task registered in LIVE runs, and only one does.
LiveInv ==
  /\ \A r \in Runner : Active(r) => live
  /\ \A r, q \in Runner : Active(r) /\ Active(q) => r = q

\* Nothing is launched before it was saved to be launched.
LaunchInv ==
  /\ live => launches > 0
  /\ \A c \in Caller : cmd[c] = "launch" => launches > 0

\* The Codex reviewer a runner waits for is among the open ones.
ReviewerInv ==
  \A r \in Runner : run[r] = "reviewing" /\ Reviewer = "codex" => openReviewers > 0

Ownership == LockInv /\ LiveInv /\ LaunchInv /\ ReviewerInv

IInv == TypeOK /\ Ownership

LEMMA StepStatusType ==
  ASSUME NEW x \in StepState, NEW y \in StepStatus
  PROVE  [x EXCEPT !.status = y] \in StepState
  BY DEF StepState

LEMMA FinishReviewerType ==
  ASSUME NEW outcome, openReviewers \in Nat, Reviewer = "codex" => openReviewers > 0,
         FinishReviewer(outcome)
  PROVE  openReviewers' \in Nat /\ reviewTurn' \in BOOLEAN
  <1>1. openReviewers' = openReviewers - (IF Reviewer = "codex" THEN 1 ELSE 0)
    BY DEF FinishReviewer
  <1>2. reviewTurn' \in BOOLEAN
    BY DEF FinishReviewer
  <1>3. CASE Reviewer = "codex"
    BY <1>1, <1>2, <1>3
  <1>4. CASE Reviewer # "codex"
    BY <1>1, <1>2, <1>4
  <1> QED
    BY <1>3, <1>4

LEMMA RunnerType ==
  ASSUME TypeOK, ReviewerInv, NEW r \in Runner, RunnerStep(r)
  PROVE  TypeOK'
  <1> DEFINE Pcs == Awaiting \cup {"off", "top", "verdict", "returning", "failing", "cleanup"}
  <1> USE DEF TypeOK, persisted, commands, workers, viewers, codex, history
  <1>0. ASSUME NEW pc \in Pcs, Goto(r, pc)
        PROVE  run' \in [Runner -> Pcs]
    BY <1>0 DEF Goto
  <1>1. CASE DropRun(r)
    BY <1>1, <1>0 DEF DropRun, DropJobs
  <1>2. CASE RunTop(r)
    <2>1. w' \in Snapshot
      BY <1>2, SnapshotStatus DEF RunTop, Status
    <2>2. run' \in [Runner -> Pcs]
      BY <1>2, <1>0 DEF RunTop, Awaiting
    <2> QED
      BY <1>2, <2>1, <2>2 DEF RunTop
  <1>3. CASE RunBatch(r)
    <2> DEFINE f == [i \in Steps |->
                       IF i \in ready_batch(w) THEN [w.steps[i] EXCEPT !.status = "running"]
                       ELSE w.steps[i]]
    <2>0. \A i \in Steps : w.steps[i] \in StepState
      BY DEF Snapshot
    <2>1. \A i \in Steps : [w.steps[i] EXCEPT !.status = "running"] \in StepState
      BY <2>0, StepStatusType DEF StepStatus
    <2>2. f \in [Steps -> StepState]
      BY <2>0, <2>1
    <2> HIDE DEF f
    <2>3. w' \in Snapshot
      BY <1>3, <2>2, SnapshotSteps DEF RunBatch, f
    <2>4. run' \in [Runner -> Pcs]
      BY <1>3, <1>0 DEF RunBatch, Awaiting
    <2> QED
      BY <1>3, <2>3, <2>4 DEF RunBatch
  <1>4. CASE RunJoin(r)
    <2>1. run' \in [Runner -> Pcs]
      BY <1>4, <1>0 DEF RunJoin, Awaiting
    <2> QED
      BY <1>4, <2>1 DEF RunJoin
  <1>5. CASE RunIntegrate(r)
    <2>1. w' \in Snapshot
      BY <1>5, SnapshotStatus DEF RunIntegrate, Status
    <2>2. run' \in [Runner -> Pcs]
      BY <1>5, <1>0 DEF RunIntegrate, Awaiting
    <2> QED
      BY <1>5, <2>1, <2>2 DEF RunIntegrate
  <1>6. CASE RunPublish(r)
    <2>1. artifact_version(w) \in [Steps -> Nat]
      BY DEF artifact_version, Snapshot, StepState
    <2>2. w' \in Snapshot
      BY <1>6, <2>1 DEF RunPublish, Snapshot, Status, Terminal
    <2>3. run' \in [Runner -> Pcs]
      BY <1>6, <1>0 DEF RunPublish, Awaiting
    <2> QED
      BY <1>6, <2>2, <2>3 DEF RunPublish
  <1>7. CASE ReviewUnavailable(r)
    <2>1. w' \in Snapshot
      BY <1>7, SnapshotStatus DEF ReviewUnavailable, Status, Terminal
    <2>2. run' \in [Runner -> Pcs]
      BY <1>7, <1>0 DEF ReviewUnavailable
    <2> QED
      BY <1>7, <2>1, <2>2 DEF ReviewUnavailable
  <1>8. CASE StartReviewer(r)
    <2>1. run' \in [Runner -> Pcs]
      BY <1>8, <1>0 DEF StartReviewer, Awaiting
    <2>2. openReviewers' \in Nat
      BY <1>8 DEF StartReviewer
    <2> QED
      BY <1>8, <2>1, <2>2 DEF StartReviewer
  <1>9. ASSUME NEW outcome, FinishReviewer(outcome), run[r] = "reviewing"
        PROVE  openReviewers' \in Nat /\ reviewTurn' \in BOOLEAN
    BY <1>9, FinishReviewerType DEF ReviewerInv
  <1>10. ASSUME NEW outcome \in {"fail", "inconclusive"}, NeedsAttention(r, outcome)
         PROVE  TypeOK'
    <2>1. w' \in Snapshot
      BY <1>10 DEF NeedsAttention, Snapshot, Status, Terminal
    <2>2. run' \in [Runner -> Pcs]
      BY <1>10, <1>0 DEF NeedsAttention
    <2>3. openReviewers' \in Nat /\ reviewTurn' \in BOOLEAN
      BY <1>10, <1>9 DEF NeedsAttention
    <2> QED
      BY <1>10, <2>1, <2>2, <2>3 DEF NeedsAttention, FinishReviewer
  <1>11. ASSUME NEW outcome \in {"pass", "fail"}, NEW changes \in SUBSET Steps,
                ReadForVerdict(r, outcome, changes)
         PROVE  TypeOK'
    <2>1. verdict' \in [snap : Snapshot, outcome : {"none", "pass", "fail"},
                        changes : SUBSET Steps]
      BY <1>11 DEF ReadForVerdict
    <2>2. run' \in [Runner -> Pcs]
      BY <1>11, <1>0 DEF ReadForVerdict
    <2>3. openReviewers' \in Nat /\ reviewTurn' \in BOOLEAN
      BY <1>11, <1>9 DEF ReadForVerdict
    <2> QED
      BY <1>11, <2>1, <2>2, <2>3 DEF ReadForVerdict, FinishReviewer
  <1>12. CASE SaveVerdict(r)
    <2>1. prepare_review(verdict.snap, verdict.outcome, verdict.changes) \in Snapshot
      BY PrepareReviewType
    <2>2. w' \in Snapshot
      BY <1>12, <2>1 DEF SaveVerdict
    <2>3. run' \in [Runner -> Pcs]
      BY <1>12, <1>0 DEF SaveVerdict
    <2>4. verdict' \in [snap : Snapshot, outcome : {"none", "pass", "fail"},
                        changes : SUBSET Steps]
      BY <1>12, NoVerdictType DEF SaveVerdict
    <2> QED
      BY <1>12, <2>2, <2>3, <2>4 DEF SaveVerdict
  <1>13. CASE RunReturn(r)
    <2>1. live' \in BOOLEAN
      BY <1>13 DEF RunReturn, Snapshot
    <2>2. run' \in [Runner -> Pcs]
      BY <1>13, <1>0 DEF RunReturn
    <2> QED
      BY <1>13, <2>1, <2>2 DEF RunReturn
  <1>14. CASE RunFail(r)
    <2>1. w' \in Snapshot
      BY <1>14, SettleType DEF RunFail, Status, Terminal
    <2>2. run' \in [Runner -> Pcs]
      BY <1>14, <1>0 DEF RunFail
    <2> QED
      BY <1>14, <2>1, <2>2 DEF RunFail
  <1>15. CASE RunCleanup(r)
    <2>1. w' \in Snapshot
      <3>1. [w EXCEPT !.status = "reconciliation_required"] \in Snapshot
        BY SnapshotStatus DEF Status, Terminal
      <3> QED
        BY <1>15, <3>1 DEF RunCleanup
    <2>2. run' \in [Runner -> Pcs]
      BY <1>15, <1>0 DEF RunCleanup
    <2>3. remote' \in [Steps -> SUBSET Nat] /\ reviewTurn' \in BOOLEAN
      BY <1>15, InterruptType DEF RunCleanup
    <2> QED
      BY <1>15, <2>1, <2>2, <2>3 DEF RunCleanup
  <1> QED
    BY <1>1, <1>2, <1>3, <1>4, <1>5, <1>6, <1>7, <1>8, <1>10, <1>11, <1>12, <1>13, <1>14,
       <1>15 DEF RunnerStep

LEMMA TypeStep == TypeOK /\ ReviewerInv /\ [Next]_vars => TypeOK'
  <1> SUFFICES ASSUME TypeOK, ReviewerInv, [Next]_vars PROVE TypeOK'
    OBVIOUS
  <1>1. CASE UNCHANGED vars
    BY <1>1 DEF vars, TypeOK, persisted, commands, runner, workers, viewers, codex, history
  <1>2. CASE Next
    BY <1>2, CommandType, RunnerType, WorkerType, ViewerType, EnvironmentType DEF Next
  <1> QED
    BY <1>1, <1>2

-----------------------------------------------------------------------------
(* Ownership is kept by every action. *)

LEMMA OwnershipInit == Init => Ownership
  BY DEF Init, Ownership, LockInv, LiveInv, LaunchInv, ReviewerInv, Active

\* What workers, viewers and turns do leaves every variable of Ownership alone.
LEMMA OwnershipKept ==
  ASSUME Ownership, UNCHANGED <<live, lock, cmd, run, launches, openReviewers>>
  PROVE  Ownership'
  BY DEF Ownership, LockInv, LiveInv, LaunchInv, ReviewerInv, Active

\* A runner that goes on to another place, registered in LIVE as before.
LEMMA OwnershipGoto ==
  ASSUME TypeOK, Ownership, NEW r \in Runner, NEW pc, run[r] # "off", Goto(r, pc),
         UNCHANGED <<live, lock, cmd, launches>>, openReviewers' >= openReviewers,
         openReviewers' \in Nat, pc = "reviewing" /\ Reviewer = "codex" => openReviewers' > 0
  PROVE  Ownership'
  <1>1. \A q \in Runner : Active(q) <=> run[q] # "off"
    BY DEF Active
  <1>2. \A q \in Runner : q # r => run[q] = "off" /\ run'[q] = "off"
    BY <1>1 DEF Goto, TypeOK, Ownership, LiveInv
  <1>3. run'[r] = pc /\ live
    BY <1>1 DEF Goto, TypeOK, Ownership, LiveInv
  <1>4. LockInv' /\ LaunchInv'
    BY DEF Ownership, LockInv, LaunchInv
  <1>5. LiveInv'
    BY <1>2, <1>3 DEF LiveInv, Active
  <1>6. ReviewerInv'
    BY <1>2, <1>3 DEF ReviewerInv
  <1> QED
    BY <1>4, <1>5, <1>6 DEF Ownership

\* A runner that ends drops its LiveGuard.
LEMMA OwnershipOff ==
  ASSUME TypeOK, Ownership, NEW r \in Runner, run[r] # "off", Goto(r, "off"), live' = FALSE,
         UNCHANGED <<lock, cmd, launches>>
  PROVE  Ownership'
  <1>1. \A q \in Runner : run'[q] = "off"
    BY DEF Goto, TypeOK, Ownership, LiveInv, Active
  <1> QED
    BY <1>1 DEF Ownership, LockInv, LaunchInv, LiveInv, ReviewerInv, Active

\* A command that takes the lock, keeps it, launches or gives up.
LEMMA OwnershipCommand ==
  ASSUME IInv, NEW c \in Caller, UserStarts(c) \/ CallerStep(c)
  PROVE  Ownership'
  <1> USE DEF IInv
  <1>a. ASSUME cmd[c] = "idle", Acquire(c)
        PROVE  \A d \in Caller : cmd[d] = "idle"
    BY <1>a, ActorAssumption DEF Acquire, Ownership, LockInv
  <1>b. ASSUME cmd[c] # "idle"
        PROVE  /\ lock = c /\ ~live
               /\ \A d \in Caller : d # c => cmd[d] = "idle"
    BY <1>b DEF Ownership, LockInv
  <1>c. ASSUME UNCHANGED <<run, openReviewers, live>>
        PROVE  LiveInv' /\ ReviewerInv'
    BY <1>c DEF Ownership, LiveInv, ReviewerInv, Active
  <1>1. CASE ImportTask(c)
    <2>1. UNCHANGED <<run, openReviewers, live>> /\ lock' = c /\ launches' = 1
      BY <1>1 DEF ImportTask, Acquire, runner
    <2>2. ~live
      BY <1>1 DEF ImportTask, Ownership, LaunchInv
    <2>3. \A d \in Caller : d # c => cmd'[d] = "idle"
      BY <1>1, <1>a DEF ImportTask, TypeOK
    <2> QED
      BY <2>1, <2>2, <2>3, <1>c DEF Ownership, LockInv, LaunchInv
  <1>2. ASSUME NEW id, NEW outcome, NEW changes, BeginReview(c, id, outcome, changes)
        PROVE  Ownership'
    <2>1. UNCHANGED <<run, openReviewers, live, launches>> /\ lock' = c /\ ~live
      BY <1>2 DEF BeginReview, Acquire, RunnerGone, runner, persisted, history
    <2>2. \A d \in Caller : d # c => cmd'[d] = "idle"
      BY <1>2, <1>a DEF BeginReview, TypeOK
    <2>3. cmd'[c] = "accept"
      BY <1>2 DEF BeginReview, TypeOK
    <2> QED
      BY <2>1, <2>2, <2>3, <1>c DEF Ownership, LockInv, LaunchInv
  <1>3. CASE BeginResume(c)
    <2>1. UNCHANGED <<run, openReviewers, live, launches>> /\ lock' = c /\ ~live
      BY <1>3 DEF BeginResume, Acquire, RunnerGone, runner, persisted, history
    <2>2. \A d \in Caller : d # c => cmd'[d] = "idle"
      BY <1>3, <1>a DEF BeginResume, TypeOK
    <2>3. cmd'[c] = "interrupt"
      BY <1>3 DEF BeginResume, TypeOK
    <2> QED
      BY <2>1, <2>2, <2>3, <1>c DEF Ownership, LockInv, LaunchInv
  <1>4. CASE AcceptReview(c)
    <2>1. UNCHANGED <<run, openReviewers, live>> /\ cmd[c] # "idle"
      BY <1>4 DEF AcceptReview, runner
    <2>2. CASE held[c].snap.status = "queued"
      <3>1. cmd' = [cmd EXCEPT ![c] = "launch"] /\ launches' = launches + 1 /\ lock' = lock
        BY <1>4, <2>2 DEF AcceptReview
      <3> QED
        BY <2>1, <3>1, <1>b, <1>c DEF TypeOK, Ownership, LockInv, LaunchInv
    <2>3. CASE held[c].snap.status # "queued"
      <3>1. cmd' = [cmd EXCEPT ![c] = "idle"] /\ launches' = launches
        BY <1>4, <2>3 DEF AcceptReview, Finish
      <3> QED
        BY <2>1, <3>1, <1>b, <1>c DEF TypeOK, Ownership, LockInv, LaunchInv
    <2> QED
      BY <2>2, <2>3
  <1>5. CASE ResumeInterrupt(c)
    <2>1. UNCHANGED <<run, openReviewers, live, launches>> /\ cmd[c] # "idle"
      BY <1>5 DEF ResumeInterrupt, runner, persisted, history
    <2>2. \/ cmd' = [cmd EXCEPT ![c] = "save"] /\ lock' = lock
          \/ cmd' = [cmd EXCEPT ![c] = "idle"]
      BY <1>5 DEF ResumeInterrupt, Finish
    <2> QED
      BY <2>1, <2>2, <1>b, <1>c DEF TypeOK, Ownership, LockInv, LaunchInv
  <1>6. CASE SaveResume(c)
    <2>1. UNCHANGED <<run, openReviewers, live>> /\ cmd[c] # "idle"
      BY <1>6 DEF SaveResume, runner
    <2>2. cmd' = [cmd EXCEPT ![c] = "launch"] /\ launches' = launches + 1 /\ lock' = lock
      BY <1>6 DEF SaveResume
    <2> QED
      BY <2>1, <2>2, <1>b, <1>c DEF TypeOK, Ownership, LockInv, LaunchInv
  <1>7. CASE Launch(c)
    <2>1. cmd[c] = "launch" /\ live' = TRUE /\ cmd' = [cmd EXCEPT ![c] = "idle"]
      BY <1>7 DEF Launch, Finish
    <2>2. UNCHANGED <<openReviewers, launches>>
      BY <1>7 DEF Launch, persisted, history
    <2>3. \A q \in Runner : run[q] = "off"
      BY <2>1, <1>b DEF Ownership, LiveInv, Active
    <2>4. PICK r \in Runner : run' = [run EXCEPT ![r] = "starting"]
      BY <1>7 DEF Launch
    <2>5. \A q \in Runner : run'[q] = IF q = r THEN "starting" ELSE "off"
      BY <2>3, <2>4 DEF TypeOK
    <2>6. LiveInv' /\ ReviewerInv'
      BY <2>1, <2>5 DEF LiveInv, ReviewerInv, Active
    <2>7. \A d \in Caller : cmd'[d] = "idle"
      BY <2>1, <1>b DEF TypeOK
    <2>8. launches > 0
      BY <2>1 DEF Ownership, LaunchInv
    <2> QED
      BY <2>2, <2>6, <2>7, <2>8 DEF Ownership, LockInv, LaunchInv
  <1> QED
    BY <1>1, <1>2, <1>3, <1>4, <1>5, <1>6, <1>7 DEF UserStarts, CallerStep

\* A runner only moves on, or ends and leaves LIVE.
LEMMA OwnershipRunner ==
  ASSUME IInv, NEW r \in Runner, RunnerStep(r)
  PROVE  Ownership'
  <1> USE DEF IInv
  <1>g. ASSUME NEW pc, Goto(r, pc), run[r] # "off", pc # "reviewing",
               UNCHANGED <<live, lock, cmd, launches, openReviewers>>
        PROVE  Ownership'
    <2>1. openReviewers' >= openReviewers /\ openReviewers' \in Nat
      BY <1>g DEF TypeOK
    <2> QED
      BY <1>g, <2>1, OwnershipGoto
  <1> USE DEF commands, history, persisted, Awaiting
  <1>1. CASE DropRun(r)
    BY <1>1, <1>g DEF DropRun
  <1>2. CASE RunTop(r)
    BY <1>2, <1>g DEF RunTop
  <1>3. CASE RunBatch(r)
    BY <1>3, <1>g DEF RunBatch
  <1>4. CASE RunJoin(r)
    BY <1>4, <1>g DEF RunJoin
  <1>5. CASE RunIntegrate(r)
    BY <1>5, <1>g DEF RunIntegrate
  <1>6. CASE RunPublish(r)
    BY <1>6, <1>g DEF RunPublish
  <1>7. CASE ReviewUnavailable(r)
    BY <1>7, <1>g DEF ReviewUnavailable
  <1>8. CASE StartReviewer(r)
    <2>1. /\ Goto(r, "reviewing") /\ run[r] # "off"
          /\ UNCHANGED <<live, lock, cmd, launches>>
          /\ openReviewers' = openReviewers + (IF Reviewer = "codex" THEN 1 ELSE 0)
      BY <1>8 DEF StartReviewer
    <2>2. openReviewers \in Nat
      BY DEF TypeOK
    <2>3. /\ openReviewers' >= openReviewers /\ openReviewers' \in Nat
          /\ Reviewer = "codex" => openReviewers' > 0
      BY <2>1, <2>2
    <2> QED
      BY <2>1, <2>3, OwnershipGoto
  <1>f. ASSUME NEW pc \in {"verdict", "returning"}, Goto(r, pc), run[r] = "reviewing",
               NEW outcome, FinishReviewer(outcome)
        PROVE  Ownership'
    <2>1. UNCHANGED <<live, lock, cmd, launches>>
      BY <1>f DEF FinishReviewer
    <2>2. \A q \in Runner : q # r => run[q] = "off" /\ run'[q] = "off"
      BY <1>f DEF Goto, TypeOK, Ownership, LiveInv, Active
    <2>3. run'[r] = pc /\ live
      BY <1>f DEF Goto, TypeOK, Ownership, LiveInv, Active
    <2>4. LiveInv' /\ ReviewerInv'
      BY <2>1, <2>2, <2>3 DEF LiveInv, ReviewerInv, Active
    <2> QED
      BY <2>1, <2>4 DEF Ownership, LockInv, LaunchInv
  <1>9. ASSUME NEW outcome, NeedsAttention(r, outcome)
        PROVE  Ownership'
    BY <1>9, <1>f DEF NeedsAttention
  <1>10. ASSUME NEW outcome, NEW changes, ReadForVerdict(r, outcome, changes)
         PROVE  Ownership'
    BY <1>10, <1>f DEF ReadForVerdict
  <1>11. CASE SaveVerdict(r)
    BY <1>11, <1>g DEF SaveVerdict
  <1>12. CASE RunReturn(r)
    <2>1. w.stop \in BOOLEAN /\ live
      BY <1>12 DEF RunReturn, TypeOK, Snapshot, Ownership, LiveInv, Active
    <2>2. CASE w.stop
      <3>1. Goto(r, "failing") /\ live' = live
        BY <1>12, <2>1, <2>2 DEF RunReturn, TypeOK
      <3> QED
        BY <1>12, <3>1, <1>g DEF RunReturn
    <2>3. CASE ~w.stop
      <3>1. Goto(r, "off") /\ live' = FALSE
        BY <1>12, <2>1, <2>3 DEF RunReturn
      <3> QED
        BY <1>12, <3>1, OwnershipOff DEF RunReturn
    <2> QED
      BY <2>2, <2>3
  <1>13. CASE RunFail(r)
    BY <1>13, <1>g DEF RunFail
  <1>14. CASE RunCleanup(r)
    BY <1>14, OwnershipOff DEF RunCleanup
  <1> QED
    BY <1>1, <1>2, <1>3, <1>4, <1>5, <1>6, <1>7, <1>8, <1>9, <1>10, <1>11, <1>12, <1>13,
       <1>14 DEF RunnerStep

LEMMA OwnershipStep == IInv /\ [Next]_vars => Ownership'
  <1> SUFFICES ASSUME IInv, [Next]_vars PROVE Ownership'
    OBVIOUS
  <1> USE DEF persisted, commands, runner, history
  <1>1. CASE UNCHANGED vars
    BY <1>1, OwnershipKept DEF IInv, vars
  <1>2. ASSUME NEW c \in Caller, UserStarts(c) \/ CallerStep(c)
        PROVE  Ownership'
    BY <1>2, OwnershipCommand
  <1>3. ASSUME NEW r \in Runner, RunnerStep(r)
        PROVE  Ownership'
    BY <1>3, OwnershipRunner
  <1>4. ASSUME NEW i \in Steps, JobStep(i) \/ TurnEnds(i)
        PROVE  Ownership'
    <2>1. UNCHANGED <<live, lock, cmd, run, launches, openReviewers>>
      BY <1>4 DEF JobStep, JobError, JobPrepare, JobThread, JobAttempt, JobSend, JobTurn,
                  JobAnswer, JobFinish, JobReturn, TurnEnds
    <2> QED
      BY <2>1, OwnershipKept DEF IInv
  <1>5. CASE PollStep \/ StopRead \/ StopStep
    <2>1. UNCHANGED <<live, lock, cmd, run, launches, openReviewers>>
      BY <1>5 DEF PollStep, PollRead, PollCheck, MarkLost, PollInterrupt, StopRead, StopStep,
                  RequestStop, StopCheck, StopInterrupt, StopSettle
    <2> QED
      BY <2>1, OwnershipKept DEF IInv
  <1>6. CASE ReviewTurnEnds
    BY <1>6, OwnershipKept DEF IInv, ReviewTurnEnds
  <1>7. CASE Crash
    BY <1>7 DEF Crash, Ownership, LockInv, LiveInv, LaunchInv, ReviewerInv, Active
  <1> QED
    BY <1>1, <1>2, <1>3, <1>4, <1>5, <1>6, <1>7 DEF Next

-----------------------------------------------------------------------------
(* The theorems. *)

\* The inductive invariant: types and ownership need each other, because only the
\* uniqueness of the runner keeps the count of open reviewers from going below zero.
THEOREM IInvInvariant == Spec => []IInv
  <1>1. Init => IInv
    BY TypeInit, OwnershipInit DEF IInv
  <1>2. IInv /\ [Next]_vars => IInv'
    BY TypeStep, OwnershipStep DEF IInv, Ownership
  <1> QED
    BY <1>1, <1>2, PTL DEF Spec

\* Every value the program stores or holds keeps its type.
THEOREM TypeCorrect == Spec => []TypeOK
  <1>1. IInv => TypeOK
    BY DEF IInv
  <1> QED
    BY <1>1, IInvInvariant, PTL

\* At most one runner task executes the workflow, and it is registered in LIVE.
THEOREM RunnerUnique == Spec => []OneRunner
  <1>1. IInv => OneRunner
    BY DEF IInv, Ownership, LiveInv, OneRunner
  <1> QED
    BY <1>1, IInvInvariant, PTL

-----------------------------------------------------------------------------
(* The recursive functions of the plan, by their least counterexample. *)

\* A set of numbers that is not empty has a least one.
LEMMA LeastElement ==
  ASSUME NEW S \in SUBSET Nat, S # {}
  PROVE  \E n \in S : \A m \in S : n <= m
  <1>1. IsWellFoundedOn(OpToRel(<, Nat), Nat)
    BY NatLessThanWellFounded
  <1>2. PICK n \in S : \A m \in S : <<m, n>> \notin OpToRel(<, Nat)
    BY <1>1, WFMin
  <1>3. \A m \in S : ~(m < n)
    BY <1>2 DEF OpToRel
  <1> QED
    BY <1>3

\* A partial table of ancestors, up to n.
Table(f, n) ==
  f = [i \in 1..n |-> Deps[i] \cup UNION {f[j] : j \in Deps[i]}]

\* A step depends on earlier steps only, so the table of ancestors can be filled in.
LEMMA TableExists ==
  \A n \in 0..N : \E f : Table(f, n)
  <1> DEFINE Bad == {n \in 0..N : ~ \E f : Table(f, n)}
  <1>1. SUFFICES ASSUME Bad # {} PROVE FALSE
    OBVIOUS
  <1>2. Bad \in SUBSET Nat
    BY PlanAssumption
  <1>3. PICK n \in Bad : \A m \in Bad : n <= m
    BY <1>1, <1>2, LeastElement
  <1>4. n # 0
    <2>1. Table([i \in 1..0 |-> {}], 0)
      BY DEF Table
    <2> QED
      BY <2>1
  <1>5. n - 1 \in 0..N /\ n - 1 \notin Bad /\ n \in 1..N
    BY <1>3, <1>4, PlanAssumption
  <1>6. PICK f : Table(f, n - 1)
    BY <1>5
  <1> DEFINE g == [i \in 1..n |-> IF i = n THEN Deps[n] \cup UNION {f[j] : j \in Deps[n]} ELSE f[i]]
  <1>7. \A i \in 1..n : \A j \in Deps[i] : j \in 1..(n-1) /\ j < i
    BY <1>5, PlanAssumption DEF Steps
  <1>8. \A i \in 1..n : \A j \in Deps[i] : g[j] = f[j]
    BY <1>7, <1>5
  <1>9. \A i \in 1..n : {g[j] : j \in Deps[i]} = {f[j] : j \in Deps[i]}
    BY <1>8
  <1>10. \A i \in 1..(n-1) : f[i] = Deps[i] \cup UNION {f[j] : j \in Deps[i]}
    BY <1>6 DEF Table
  <1>11. \A i \in 1..n : g[i] = Deps[i] \cup UNION {f[j] : j \in Deps[i]}
    <2> TAKE i \in 1..n
    <2>1. CASE i = n
      BY <2>1
    <2>2. CASE i # n
      <3>1. i \in 1..(n-1)
        BY <2>2, <1>5
      <3> QED
        BY <3>1, <2>2, <1>10
    <2> QED
      BY <2>1, <2>2
  <1>12. \A i \in 1..n : g[i] = Deps[i] \cup UNION {g[j] : j \in Deps[i]}
    BY <1>9, <1>11
  <1>13. g = [i \in 1..n |-> g[i]]
    OBVIOUS
  <1> HIDE DEF g
  <1>14. Table(g, n)
    BY <1>12, <1>13, Zenon DEF Table
  <1> QED
    BY <1>14, <1>3

\* The recursive definition of ancestors (workflow_graph.rs) has the value it describes.
LEMMA Ancestors ==
  ancestors = [i \in Steps |-> Deps[i] \cup UNION {ancestors[j] : j \in Deps[i]}]
  <1>1. \E f : f = [i \in Steps |-> Deps[i] \cup UNION {f[j] : j \in Deps[i]}]
    <2>1. N \in 0..N
      BY PlanAssumption
    <2> QED
      BY <2>1, TableExists, Zenon DEF Table, Steps
  <1> QED
    BY <1>1, Zenon DEF ancestors

\* The ancestors of a step are its dependencies and their ancestors.
LEMMA AncestorsOf ==
  ASSUME NEW i \in Steps
  PROVE  /\ ancestors[i] \subseteq Steps
         /\ Deps[i] \subseteq ancestors[i]
         /\ \A j \in Deps[i] : ancestors[j] \subseteq ancestors[i]
         /\ \A k \in ancestors[i] : k \in Deps[i] \/ \E j \in Deps[i] : k \in ancestors[j]
  <1>1. \A k \in Steps : ancestors[k] = Deps[k] \cup UNION {ancestors[j] : j \in Deps[k]}
    BY Ancestors
  <1> DEFINE Bad == {k \in Steps : ~(ancestors[k] \subseteq Steps)}
  <1>2. Bad = {}
    <2> SUFFICES ASSUME Bad # {} PROVE FALSE
      OBVIOUS
    <2>1. Bad \in SUBSET Nat
      BY DEF Steps
    <2>2. PICK n \in Bad : \A m \in Bad : n <= m
      BY <2>1, LeastElement
    <2>3. \A j \in Deps[n] : j \in Steps /\ j < n
      BY PlanAssumption
    <2>4. \A j \in Deps[n] : ancestors[j] \subseteq Steps
      BY <2>1, <2>2, <2>3
    <2> QED
      BY <1>1, <2>2, <2>3, <2>4
  <1> QED
    BY <1>1, <1>2

\* A step is sent back when it is named, or when it depends on one that is sent back.
LEMMA Rework ==
  ASSUME NEW changes
  PROVE  \E hit : /\ hit = [i \in Steps |-> i \in changes \/ \E j \in Deps[i] : hit[j]]
                  /\ Affected(changes) = {i \in Steps : hit[i]}
  <1> DEFINE P(f) == f = [i \in Steps |-> i \in changes \/ \E j \in Deps[i] : f[j]]
             g == [i \in Steps |-> i \in changes \/ \E k \in ancestors[i] : k \in changes]
  <1>1. \A i \in Steps : \A j \in Deps[i] : j \in Steps
    BY PlanAssumption
  <1>2. \A i \in Steps : g[i] <=> (i \in changes \/ \E j \in Deps[i] : g[j])
    BY <1>1, AncestorsOf
  <1>3. P(g)
    <2>1. \A i \in Steps : (i \in changes \/ \E k \in ancestors[i] : k \in changes)
                             <=> (i \in changes \/ \E j \in Deps[i] : g[j])
      BY <1>2
    <2> QED
      BY <2>1
  <1>4. P(CHOOSE f : P(f))
    BY <1>3
  <1> QED
    BY <1>4 DEF Affected

\* What is built on a step that is sent back, however far, is sent back with it.
LEMMA Downstream ==
  ASSUME NEW changes, NEW i \in Steps, NEW j \in ancestors[i], j \in Affected(changes)
  PROVE  i \in Affected(changes)
  <1>1. PICK hit : /\ hit = [k \in Steps |-> k \in changes \/ \E d \in Deps[k] : hit[d]]
                   /\ Affected(changes) = {k \in Steps : hit[k]}
    BY Rework
  <1>2. \A k \in Steps : \A d \in Deps[k] : d \in Affected(changes) => k \in Affected(changes)
    BY <1>1
  <1> DEFINE Bad == {k \in Steps : j \in ancestors[k] /\ k \notin Affected(changes)}
  <1>3. Bad = {}
    <2> SUFFICES ASSUME Bad # {} PROVE FALSE
      OBVIOUS
    <2>1. Bad \in SUBSET Nat
      BY DEF Steps
    <2>2. PICK n \in Bad : \A m \in Bad : n <= m
      BY <2>1, LeastElement
    <2>3. \A d \in Deps[n] : d \in Steps /\ d < n
      BY PlanAssumption
    <2>4. \A d \in Deps[n] : j \in ancestors[d] => d \in Affected(changes)
      BY <2>1, <2>2, <2>3
    <2>5. j \in Deps[n] \/ \E d \in Deps[n] : j \in ancestors[d]
      BY <2>2, AncestorsOf
    <2> QED
      BY <1>2, <2>2, <2>4, <2>5
  <1> QED
    BY <1>3

-----------------------------------------------------------------------------
(* What makes a snapshot sound, and what keeps it so. *)

\* A snapshot s knows every attempt of S, and its next attempts are others.
AttemptsOf(s, S) ==
  /\ S \subseteq Archive(s)
  /\ \A a \in S : a[2] <= s.iteration
  /\ \A i \in Steps : s.steps[i].task <= s.iteration
  /\ \A i \in Steps : s.steps[i].status = "pending" => <<i, s.steps[i].task>> \notin S

\* Step i was based on the current attempts of all its ancestors.
CurrentBase(s, i) == \A j \in ancestors[i] : s.steps[i].base[j] = s.steps[j].task

\* What is completed was made on top of what is completed, and of nothing else.
BasesOf(s) ==
  \A i \in Steps : s.steps[i].status = "completed" =>
    /\ \A j \in ancestors[i] : s.steps[j].status = "completed"
    /\ CurrentBase(s, i)

\* An artifact is that of the current attempts, all of them completed.
ArtifactOf(s) ==
  /\ s.version # NoVersion => AllCompleted(s) /\ s.version = artifact_version(s)
  /\ s.status = "completed" =>
       /\ s.review = "pass" /\ s.version = artifact_version(s)
       /\ evidence_complete(s)

\* A turn that is active (R) belongs to the child of a step whose row (T) says so.
TurnsOf(s, R, T) ==
  \A i \in Steps : R[i] # {} =>
    /\ Provider[i] = "codex" /\ s.steps[i].child /\ ~T[i]
    /\ s.steps[i].turn # 0 => R[i] \subseteq {s.steps[i].turn}

\* What a snapshot must be, given what was sent, the active turns and the child rows.
Sound(s, S, R, T) == AttemptsOf(s, S) /\ BasesOf(s) /\ ArtifactOf(s) /\ TurnsOf(s, R, T)

\* t and s differ in statuses only, and agree on what is completed.
SameWork(s, t) ==
  /\ t.history = s.history /\ t.iteration = s.iteration /\ t.version = s.version
  /\ t.status = "completed" => s.status = "completed" /\ t.review = s.review
  /\ \A i \in Steps :
       /\ t.steps[i].task = s.steps[i].task /\ t.steps[i].base = s.steps[i].base
       /\ t.steps[i].child = s.steps[i].child /\ t.steps[i].turn = s.steps[i].turn
       /\ t.steps[i].evidence = s.steps[i].evidence
       /\ t.steps[i].status = "completed" <=> s.steps[i].status = "completed"
       /\ t.steps[i].status = "pending" => s.steps[i].status = "pending"

\* The archive is a matter of the history and the tasks.
LEMMA SameArchive ==
  ASSUME NEW s, NEW t, t.history = s.history, \A i \in Steps : t.steps[i].task = s.steps[i].task
  PROVE  Archive(t) = Archive(s) /\ artifact_version(t) = artifact_version(s)
  <1>1. {<<i, t.steps[i].task>> : i \in Steps} = {<<i, s.steps[i].task>> : i \in Steps}
    OBVIOUS
  <1>2. [i \in Steps |-> t.steps[i].task] = [i \in Steps |-> s.steps[i].task]
    OBVIOUS
  <1> QED
    BY <1>1, <1>2 DEF Archive, artifact_version

\* Soundness says nothing of the statuses SameWork lets change.
LEMMA SoundSame ==
  ASSUME NEW s, NEW t, NEW S, NEW R, NEW Q, NEW T, Sound(s, S, R, T), SameWork(s, t),
         \A i \in Steps : Q[i] \subseteq R[i]
  PROVE  Sound(t, S, Q, T)
  <1> USE DEF SameWork
  <1>1. Archive(t) = Archive(s) /\ artifact_version(t) = artifact_version(s)
    BY SameArchive
  <1>2. AttemptsOf(t, S)
    BY <1>1 DEF Sound, AttemptsOf
  <1>3. \A i \in Steps : \A j \in ancestors[i] : j \in Steps
    BY AncestorsOf
  <1>4. BasesOf(t)
    BY <1>3 DEF Sound, BasesOf, CurrentBase
  <1>5. ArtifactOf(t)
    BY <1>1 DEF Sound, ArtifactOf, AllCompleted, evidence_complete
  <1>6. TurnsOf(t, Q, T)
    BY DEF Sound, TurnsOf
  <1> QED
    BY <1>2, <1>4, <1>5, <1>6 DEF Sound

\* Settling a run completes no step and gives none up (settle_run).
LEMMA SettleSame ==
  ASSUME NEW s \in Snapshot, NEW x \in Status, x # "completed"
  PROVE  SameWork(s, Settle(s, x))
  <1> DEFINE t == Settle(s, x)
             f == [i \in Steps |->
                     CASE s.steps[i].status = "pending" -> [s.steps[i] EXCEPT !.status = "blocked"]
                       [] s.steps[i].status = "running" -> [s.steps[i] EXCEPT !.status = "interrupted"]
                       [] OTHER -> s.steps[i]]
  <1>1. \A i \in Steps : s.steps[i] \in StepState
    BY DEF Snapshot
  <1>2. \A i \in Steps :
          \/ f[i] = s.steps[i] /\ s.steps[i].status \notin {"pending", "running"}
          \/ /\ s.steps[i].status \in {"pending", "running"}
             /\ \E y \in {"blocked", "interrupted"} : f[i] = [s.steps[i] EXCEPT !.status = y]
    OBVIOUS
  <1>3. \A i \in Steps :
          /\ f[i].task = s.steps[i].task /\ f[i].base = s.steps[i].base
          /\ f[i].child = s.steps[i].child /\ f[i].turn = s.steps[i].turn
          /\ f[i].evidence = s.steps[i].evidence
          /\ f[i].status = "completed" <=> s.steps[i].status = "completed"
          /\ f[i].status = "pending" => s.steps[i].status = "pending"
    BY <1>1, <1>2 DEF StepState
  <1> HIDE DEF f
  <1>4. t = [s EXCEPT !.status = x, !.steps = f]
    BY DEF Settle, f
  <1>5. t.history = s.history /\ t.iteration = s.iteration /\ t.version = s.version
        /\ t.status = x /\ t.steps = f
    BY <1>4 DEF Snapshot
  <1> QED
    BY <1>3, <1>5 DEF SameWork

\* A new attempt of step x.
LEMMA ResetKeeps ==
  ASSUME NEW x \in StepState, NEW task
  PROVE  Reset(x, task, TRUE).child = x.child /\ Reset(x, task, TRUE).turn = x.turn
  BY DEF Reset, FreshStep, StepState

\* A set of steps is sent back, with new attempts, and everything downstream of it.
LEMMA SoundRework ==
  ASSUME NEW s \in Snapshot, NEW t, NEW S, NEW R, NEW T, NEW D \in SUBSET Steps,
         Sound(s, S, R, T), S \subseteq Steps \X Nat,
         t.history = Archive(s), t.iteration = s.iteration + 1, t.version = NoVersion,
         t.status # "completed",
         \A i \in Steps : i \notin D => t.steps[i] = s.steps[i],
         \A i \in D : /\ t.steps[i].status = "pending" /\ t.steps[i].task = s.iteration + 1
                      /\ Provider[i] = "codex" => /\ (s.steps[i].child => t.steps[i].child)
                                                  /\ t.steps[i].turn = s.steps[i].turn,
         \A i \in Steps : s.steps[i].status = "completed" /\ i \notin D =>
            \A j \in ancestors[i] : j \notin D
  PROVE  Sound(t, S, R, T)
  <1>1. s.iteration \in Nat /\ \A i \in Steps : s.steps[i].task \in Nat
    BY DEF Snapshot, StepState
  <1>2. AttemptsOf(t, S)
    <2>1. S \subseteq Archive(t)
      BY DEF Sound, AttemptsOf, Archive
    <2>2. \A a \in S : a[2] \in Nat /\ a[2] <= s.iteration
      BY DEF Sound, AttemptsOf
    <2>3. \A a \in S : a[2] <= t.iteration
      BY <1>1, <2>2
    <2>4. \A i \in Steps : t.steps[i].task <= t.iteration
      BY <1>1 DEF Sound, AttemptsOf
    <2>5. \A i \in Steps : t.steps[i].status = "pending" => <<i, t.steps[i].task>> \notin S
      <3> SUFFICES ASSUME NEW i \in Steps, t.steps[i].status = "pending"
                   PROVE  <<i, t.steps[i].task>> \notin S
        OBVIOUS
      <3>1. CASE i \in D
        <4>1. \A a \in S : a[2] # s.iteration + 1
          BY <1>1, <2>2
        <4>2. <<i, s.iteration + 1>>[2] = s.iteration + 1
          OBVIOUS
        <4> QED
          BY <3>1, <4>1, <4>2
      <3>2. CASE i \notin D
        BY <3>2 DEF Sound, AttemptsOf
      <3> QED
        BY <3>1, <3>2
    <2> QED
      BY <2>1, <2>3, <2>4, <2>5 DEF AttemptsOf
  <1>3. BasesOf(t)
    <2> SUFFICES ASSUME NEW i \in Steps, t.steps[i].status = "completed"
                 PROVE  /\ \A j \in ancestors[i] : t.steps[j].status = "completed"
                        /\ CurrentBase(t, i)
      BY DEF BasesOf
    <2>1. i \notin D
      OBVIOUS
    <2>2. t.steps[i] = s.steps[i] /\ \A j \in ancestors[i] : t.steps[j] = s.steps[j]
      BY <2>1, AncestorsOf
    <2> QED
      BY <2>2 DEF Sound, BasesOf, CurrentBase
  <1>4. ArtifactOf(t)
    BY DEF ArtifactOf
  <1>5. TurnsOf(t, R, T)
    BY DEF Sound, TurnsOf
  <1> QED
    BY <1>2, <1>3, <1>4, <1>5 DEF Sound

\* prepare_review keeps a snapshot sound: it rejects with new attempts, or completes.
LEMMA SoundReview ==
  ASSUME NEW s \in Snapshot, NEW S, NEW R, NEW T, NEW outcome, NEW changes,
         Sound(s, S, R, T), S \subseteq Steps \X Nat, CanReview(s, s.version, outcome)
  PROVE  Sound(prepare_review(s, outcome, changes), S, R, T)
  <1> DEFINE t == prepare_review(s, outcome, changes)
  <1>1. CASE changes = {}
    <2>1. /\ t.history = s.history /\ t.iteration = s.iteration /\ t.version = s.version
          /\ t.steps = s.steps /\ t.review = outcome
          /\ t.status = IF outcome = "pass" THEN "completed" ELSE "review_rejected"
      BY <1>1 DEF prepare_review, Snapshot
    <2> HIDE DEF t
    <2>2. Archive(t) = Archive(s) /\ artifact_version(t) = artifact_version(s)
      BY <2>1, SameArchive
    <2>3. AttemptsOf(t, S) /\ BasesOf(t) /\ TurnsOf(t, R, T)
      BY <2>1, <2>2 DEF Sound, AttemptsOf, BasesOf, CurrentBase, TurnsOf
    <2>4. ArtifactOf(t)
      BY <2>1, <2>2 DEF Sound, ArtifactOf, CanReview, AllCompleted, evidence_complete
    <2> QED
      BY <2>3, <2>4 DEF Sound, t
  <1>2. CASE changes # {}
    <2> DEFINE D == Affected(changes)
               f == [i \in Steps |-> IF i \in D
                       THEN Reset(s.steps[i], s.iteration + 1, Provider[i] # "local")
                       ELSE s.steps[i]]
    <2>1. D \in SUBSET Steps
      BY DEF Affected
    <2>2. \A i \in Steps : \A j \in ancestors[i] : j \in D => i \in D
      BY Downstream
    <2>3. \A i \in Steps : s.steps[i] \in StepState
      BY DEF Snapshot
    <2>4. \A i \in D : /\ f[i].status = "pending" /\ f[i].task = s.iteration + 1
                       /\ Provider[i] = "codex" => /\ (s.steps[i].child => f[i].child)
                                                   /\ f[i].turn = s.steps[i].turn
      <3> SUFFICES ASSUME NEW i \in D
                   PROVE  /\ f[i].status = "pending" /\ f[i].task = s.iteration + 1
                          /\ Provider[i] = "codex" => /\ (s.steps[i].child => f[i].child)
                                                      /\ f[i].turn = s.steps[i].turn
        OBVIOUS
      <3>1. f[i] = Reset(s.steps[i], s.iteration + 1, Provider[i] # "local")
        BY <2>1
      <3>2. s.steps[i] \in StepState
        BY <2>1, <2>3
      <3> HIDE DEF f
      <3>3. f[i].status = "pending" /\ f[i].task = s.iteration + 1
        BY <3>1 DEF Reset, FreshStep
      <3>4. ASSUME Provider[i] = "codex"
            PROVE  f[i] = Reset(s.steps[i], s.iteration + 1, TRUE)
        BY <3>1, <3>4
      <3> QED
        BY <3>2, <3>3, <3>4, ResetKeeps
    <2>5. \A i \in Steps : i \notin D => f[i] = s.steps[i]
      OBVIOUS
    <2> HIDE DEF D
    <2>6. t = [s EXCEPT !.status = "queued", !.stop = FALSE, !.iteration = @ + 1,
                        !.version = NoVersion, !.review = "none", !.history = Archive(s),
                        !.steps = f]
      BY <1>2 DEF prepare_review, D
    <2> HIDE DEF f
    <2>7. /\ t.history = Archive(s) /\ t.iteration = s.iteration + 1 /\ t.version = NoVersion
          /\ t.status = "queued" /\ t.steps = f
      BY <2>6 DEF Snapshot
    <2> HIDE DEF t
    <2>8. Sound(t, S, R, T)
      BY <2>1, <2>2, <2>4, <2>5, <2>7, SoundRework
    <2> QED
      BY <2>8 DEF t
  <1> QED
    BY <1>1, <1>2

\* prepare_resume keeps a snapshot sound: what is queued again has a new attempt.
LEMMA SoundResume ==
  ASSUME NEW s \in Snapshot, NEW S, NEW R, NEW T, Sound(s, S, R, T), S \subseteq Steps \X Nat
  PROVE  Sound(prepare_resume(s), S, R, T)
  <1> DEFINE t == prepare_resume(s)
             cleared == [s EXCEPT !.status = "queued", !.stop = FALSE, !.version = NoVersion,
                                  !.review = "none", !.history = Archive(s)]
  <1>1. CASE ReviewRetry(s)
    <2>1. t = cleared
      BY <1>1 DEF prepare_resume
    <2>2. /\ t.history = Archive(s) /\ t.iteration = s.iteration /\ t.version = NoVersion
          /\ t.status = "queued" /\ t.steps = s.steps
      BY <2>1 DEF Snapshot
    <2> HIDE DEF t
    <2>3. AttemptsOf(t, S)
      BY <2>2 DEF Sound, AttemptsOf, Archive
    <2>4. BasesOf(t) /\ ArtifactOf(t) /\ TurnsOf(t, R, T)
      BY <2>2 DEF Sound, BasesOf, CurrentBase, ArtifactOf, TurnsOf
    <2> QED
      BY <2>3, <2>4 DEF Sound, t
  <1>2. CASE ~ReviewRetry(s)
    <2> DEFINE D == {i \in Steps : s.steps[i].status # "completed"}
               keepChild(i) == \/ Provider[i] = "codex"
                               \/ Provider[i] = "api" /\ s.status = "reconciliation_required"
               f == [i \in Steps |->
                       IF s.steps[i].status = "completed" THEN s.steps[i]
                       ELSE Reset(s.steps[i], s.iteration + 1, keepChild(i))]
    <2>1. \A i \in Steps : s.steps[i] \in StepState
      BY DEF Snapshot
    <2>2. \A i \in D : /\ f[i].status = "pending" /\ f[i].task = s.iteration + 1
                       /\ Provider[i] = "codex" => /\ (s.steps[i].child => f[i].child)
                                                   /\ f[i].turn = s.steps[i].turn
      <3> SUFFICES ASSUME NEW i \in D
                   PROVE  /\ f[i].status = "pending" /\ f[i].task = s.iteration + 1
                          /\ Provider[i] = "codex" => /\ (s.steps[i].child => f[i].child)
                                                      /\ f[i].turn = s.steps[i].turn
        OBVIOUS
      <3>1. f[i] = Reset(s.steps[i], s.iteration + 1, keepChild(i))
        OBVIOUS
      <3>2. s.steps[i] \in StepState
        BY <2>1
      <3> HIDE DEF f
      <3>3. f[i].status = "pending" /\ f[i].task = s.iteration + 1
        BY <3>1 DEF Reset, FreshStep
      <3>4. ASSUME Provider[i] = "codex"
            PROVE  f[i] = Reset(s.steps[i], s.iteration + 1, TRUE)
        BY <3>1, <3>4
      <3>5. ASSUME Provider[i] = "codex"
            PROVE  (s.steps[i].child => f[i].child) /\ f[i].turn = s.steps[i].turn
        <4>1. /\ Reset(s.steps[i], s.iteration + 1, TRUE).child = s.steps[i].child
              /\ Reset(s.steps[i], s.iteration + 1, TRUE).turn = s.steps[i].turn
          BY <3>2, ResetKeeps
        <4> QED
          BY <3>4, <3>5, <4>1
      <3> QED
        BY <3>3, <3>5
    <2>3. \A i \in Steps : i \notin D => f[i] = s.steps[i]
      OBVIOUS
    <2>4. \A i \in Steps : s.steps[i].status = "completed" => \A j \in ancestors[i] : j \notin D
      BY DEF Sound, BasesOf
    <2>5. t = [cleared EXCEPT !.iteration = @ + 1, !.steps = f]
      BY <1>2 DEF prepare_resume
    <2> HIDE DEF f
    <2>6. /\ t.history = Archive(s) /\ t.iteration = s.iteration + 1 /\ t.version = NoVersion
          /\ t.status = "queued" /\ t.steps = f
      BY <2>5 DEF Snapshot
    <2> HIDE DEF t, cleared
    <2>7. D \in SUBSET Steps
      OBVIOUS
    <2> HIDE DEF D
    <2>8. Sound(t, S, R, T)
      BY SMTT(30), <2>2, <2>3, <2>4, <2>6, <2>7, SoundRework
    <2> QED
      BY <2>8 DEF t
  <1> QED
    BY <1>1, <1>2

-----------------------------------------------------------------------------
(* The inductive invariant. *)

\* The stored snapshot is sound, and so is every one that will be written back.
SnapshotInv ==
  /\ Sound(w, sent, remote, threadDone)
  /\ \A c \in Caller : cmd[c] \in {"accept", "interrupt", "save"} =>
        Sound(held[c].snap, sent, remote, threadDone)
  /\ \A r \in Runner : run[r] = "verdict" => Sound(verdict.snap, sent, remote, threadDone)

\* Until its verdict is saved, a run has not completed the workflow.
StageInv ==
  /\ \A r \in Runner :
       /\ run[r] \in Awaiting \cup {"top", "verdict"} => w.status # "completed"
       /\ run[r] = "apply" => AllCompleted(w)
  /\ \A c \in Caller :
       /\ cmd[c] = "launch" => w.status # "completed"
       /\ cmd[c] \in {"interrupt", "save"} => held[c].snap.status = "queued"

\* No turn is active when a resume is saved, or before anything was launched.
QuietInv ==
  /\ \A c \in Caller : cmd[c] = "save" => \A i \in Steps : remote[i] = {}
  /\ launches = 0 => sent = {} /\ \A i \in Steps : remote[i] = {}

\* Workers belong to the batch of a run, and no two of them build on each other.
BatchInv ==
  \A i \in Steps : job[i] # "idle" =>
    /\ \E r \in Runner : run[r] = "batch"
    /\ w.version = NoVersion /\ w.steps[i].status # "pending"
    /\ \A j \in ancestors[i] : w.steps[j].status = "completed" /\ job[j] = "idle"
    /\ \A k \in Steps : i \in ancestors[k] => w.steps[k].status # "completed"

\* What a worker has established about its attempt, by the place where it is.
WorkAt(i) ==
  /\ job[i] \in {"spawned", "prepared", "threaded", "attempted"} =>
       <<i, w.steps[i].task>> \notin sent
  /\ job[i] \notin {"idle", "spawned"} => CurrentBase(w, i)
  /\ Provider[i] = "codex" =>
       /\ job[i] \in {"threaded", "attempted"} => remote[i] = {} /\ w.steps[i].turn = 0
       /\ job[i] \in {"threaded", "attempted", "waiting", "streaming"} =>
            /\ w.steps[i].child /\ ~threadDone[i]
            /\ remote[i] \subseteq {w.steps[i].task}

\* The same for every worker.
WorkInv == \A i \in Steps : WorkAt(i)

\* The inductive invariant; IInv (types and ownership) is needed beside it.
DataInv == SnapshotInv /\ StageInv /\ QuietInv /\ BatchInv /\ WorkInv

\* A new manifest, or an imported one, is sound.
LEMMA BlankSound ==
  ASSUME NEW s, NEW R, NEW T, s \in {Blank, Imported}, \A i \in Steps : R[i] = {}
  PROVE  Sound(s, {}, R, T)
  <1>1. /\ s.version = NoVersion /\ s.status # "completed" /\ s.iteration \in {0, 1}
        /\ \A i \in Steps : s.steps[i].status = "pending" /\ s.steps[i].task = s.iteration
    <2>1. CASE s = Blank
      BY <2>1 DEF Blank, FreshStep
    <2>2. CASE s = Imported
      BY <2>2 DEF Imported, Blank, FreshStep
    <2> QED
      BY <2>1, <2>2
  <1>2. AttemptsOf(s, {})
    BY <1>1 DEF AttemptsOf
  <1> QED
    BY <1>1, <1>2 DEF Sound, BasesOf, ArtifactOf, TurnsOf

\* The invariant holds before anything was launched.
LEMMA DataInit == Init => DataInv
  <1> SUFFICES ASSUME Init PROVE DataInv
    OBVIOUS
  <1> USE DEF Init
  <1>1. Sound(w, sent, remote, threadDone)
    BY BlankSound
  <1>2. w.status # "completed"
    BY DEF Blank
  <1> QED
    BY <1>1, <1>2 DEF DataInv, SnapshotInv, StageInv, QuietInv, BatchInv, WorkInv, WorkAt

\* Without a run in its batch there is no worker.
LEMMA NoBatch ==
  ASSUME BatchInv, \A r \in Runner : run[r] # "batch"
  PROVE  \A i \in Steps : job[i] = "idle"
  BY DEF BatchInv

\* What has no worker says nothing of workers.
LEMMA NoWork ==
  ASSUME \A i \in Steps : job'[i] = "idle"
  PROVE  BatchInv' /\ WorkInv'
  BY DEF BatchInv, WorkInv, WorkAt

\* A step that leaves the work as it is: viewers, and turns that end.
LEMMA DataKept ==
  ASSUME DataInv, SameWork(w, w'), \A i \in Steps : remote'[i] \subseteq remote[i],
         UNCHANGED <<threadDone, cmd, held, run, verdict, job, sent, launches>>
  PROVE  DataInv'
  <1>1. SnapshotInv'
    <2>1. \A s : Sound(s, sent, remote, threadDone) => Sound(s, sent', remote', threadDone')
      BY SoundSame DEF SameWork
    <2>2. Sound(w', sent', remote', threadDone')
      BY SoundSame DEF DataInv, SnapshotInv
    <2> QED
      BY <2>1, <2>2 DEF DataInv, SnapshotInv
  <1>2. StageInv'
    BY DEF DataInv, StageInv, SameWork, AllCompleted
  <1>3. QuietInv'
    BY DEF DataInv, QuietInv
  <1>4. \A i \in Steps : \A j \in ancestors[i] : j \in Steps
    BY AncestorsOf
  <1>5. BatchInv'
    BY <1>4 DEF DataInv, BatchInv, SameWork
  <1>6. WorkInv'
    <2> SUFFICES ASSUME NEW i \in Steps PROVE WorkAt(i)'
      BY DEF WorkInv
    <2>1. WorkAt(i)
      BY DEF DataInv, WorkInv
    <2>2. /\ w'.steps[i].task = w.steps[i].task /\ w'.steps[i].child = w.steps[i].child
          /\ w'.steps[i].turn = w.steps[i].turn /\ remote'[i] \subseteq remote[i]
      BY DEF SameWork
    <2>3. CurrentBase(w, i) => CurrentBase(w', i)
      BY <1>4 DEF CurrentBase, SameWork
    <2> QED
      BY <2>1, <2>2, <2>3 DEF WorkAt
  <1> QED
    BY <1>1, <1>2, <1>3, <1>5, <1>6 DEF DataInv

-----------------------------------------------------------------------------
(* Viewers, turns that end, and commands. *)

\* interrupt_children only removes turns.
LEMMA TurnsShrink ==
  ASSUME TypeOK, ChildrenStopped \/ ChildrenUnconfirmed
  PROVE  \A i \in Steps : remote'[i] \subseteq remote[i]
  <1>1. CASE StopChildren
    BY <1>1 DEF StopChildren
  <1>2. CASE UNCHANGED codex
    BY <1>2 DEF codex
  <1> QED
    BY <1>1, <1>2 DEF ChildrenStopped, ChildrenUnconfirmed

\* A snapshot does the work that it does.
LEMMA SameWorkSelf == \A s : SameWork(s, s)
  BY DEF SameWork

\* The status and the review of a workflow are not its work.
LEMMA StatusSame ==
  ASSUME NEW s \in Snapshot, NEW x, x # "completed", NEW y
  PROVE  /\ SameWork(s, [s EXCEPT !.status = x])
         /\ SameWork(s, [s EXCEPT !.stop = y])
         /\ SameWork(s, [s EXCEPT !.stop = y, !.status = x])
         /\ SameWork(s, [s EXCEPT !.status = x, !.review = y])
  BY DEF SameWork, Snapshot

\* The viewers (poll, stop) keep the invariant.
LEMMA DataViewer ==
  ASSUME TypeOK, DataInv, PollStep \/ StopRead \/ StopStep
  PROVE  DataInv'
  <1> USE DEF persisted, commands, runner, workers, codex, history
  <1>1. CASE PollRead \/ PollCheck \/ StopRead \/ StopCheck
    <2>1. UNCHANGED <<w, remote, threadDone, cmd, held, run, verdict, job, sent, launches>>
      BY <1>1 DEF PollRead, PollCheck, StopRead, StopCheck
    <2> QED
      BY <2>1, SameWorkSelf, DataKept
  <1>2. CASE MarkLost
    <2>1. /\ w' = [Settle(w, "reconciliation_required") EXCEPT !.stop = TRUE]
          /\ UNCHANGED <<remote, threadDone, cmd, held, run, verdict, job, sent, launches>>
      BY <1>2 DEF MarkLost
    <2>2. w \in Snapshot /\ Settle(w, "reconciliation_required") \in Snapshot
      BY SettleType DEF TypeOK, Status, Terminal
    <2>3. SameWork(w, Settle(w, "reconciliation_required"))
      BY <2>2, SettleSame DEF Status, Terminal
    <2>4. SameWork(Settle(w, "reconciliation_required"), w')
      BY <2>1, <2>2, StatusSame
    <2>5. SameWork(w, w')
      BY <2>3, <2>4 DEF SameWork
    <2> QED
      BY <2>1, <2>5, DataKept
  <1>3. CASE PollInterrupt
    <2>1. UNCHANGED <<w, threadDone, cmd, held, run, verdict, job, sent, launches>>
      BY <1>3 DEF PollInterrupt
    <2>2. \A i \in Steps : remote'[i] \subseteq remote[i]
      BY <1>3, TurnsShrink DEF PollInterrupt
    <2> QED
      BY <2>1, <2>2, SameWorkSelf, DataKept
  <1>4. CASE RequestStop
    <2>1. /\ w' = [w EXCEPT !.stop = TRUE, !.status = IF @ \in Terminal THEN @ ELSE "stopping"]
          /\ UNCHANGED <<remote, threadDone, cmd, held, run, verdict, job, sent, launches>>
      BY <1>4 DEF RequestStop
    <2>2. SameWork(w, w')
      BY <2>1 DEF SameWork, TypeOK, Snapshot
    <2> QED
      BY <2>1, <2>2, DataKept
  <1>5. CASE StopInterrupt
    <2>1. UNCHANGED <<w, threadDone, cmd, held, run, verdict, job, sent, launches>>
      BY <1>5 DEF StopInterrupt
    <2>2. \A i \in Steps : remote'[i] \subseteq remote[i]
      BY <1>5, TurnsShrink DEF StopInterrupt
    <2> QED
      BY <2>1, <2>2, SameWorkSelf, DataKept
  <1>6. CASE StopSettle
    <2>1. /\ w' = [w EXCEPT !.status =
                     IF stopper = "unconfirmed" THEN "reconciliation_required"
                     ELSE IF @ = "stopping" THEN "interrupted" ELSE @]
          /\ UNCHANGED <<remote, threadDone, cmd, held, run, verdict, job, sent, launches>>
      BY <1>6 DEF StopSettle
    <2>2. SameWork(w, w')
      BY <2>1 DEF SameWork, TypeOK, Snapshot
    <2> QED
      BY <2>1, <2>2, DataKept
  <1> QED
    BY <1>1, <1>2, <1>3, <1>4, <1>5, <1>6 DEF PollStep, StopStep

\* Turns that end, and restarts, keep the invariant.
LEMMA DataEnvironment ==
  ASSUME TypeOK, DataInv, ReviewTurnEnds \/ Crash \/ \E i \in Steps : TurnEnds(i)
  PROVE  DataInv'
  <1> USE DEF persisted, commands, runner, workers, viewers, history
  <1>1. CASE ReviewTurnEnds
    <2>1. UNCHANGED <<w, remote, threadDone, cmd, held, run, verdict, job, sent, launches>>
      BY <1>1 DEF ReviewTurnEnds
    <2> QED
      BY <2>1, SameWorkSelf, DataKept
  <1>2. ASSUME NEW i \in Steps, TurnEnds(i)
        PROVE  DataInv'
    <2>1. UNCHANGED <<w, threadDone, cmd, held, run, verdict, job, sent, launches>>
      BY <1>2 DEF TurnEnds
    <2>2. \A k \in Steps : remote'[k] \subseteq remote[k]
      BY <1>2 DEF TurnEnds, TypeOK
    <2> QED
      BY <2>1, <2>2, SameWorkSelf, DataKept
  <1>3. CASE Crash
    <2>1. /\ UNCHANGED <<w, remote, threadDone, sent, launches>>
          /\ \A c \in Caller : cmd'[c] = "idle"
          /\ \A r \in Runner : run'[r] = "off"
          /\ \A i \in Steps : job'[i] = "idle"
      BY <1>3 DEF Crash, codex, DropJobs
    <2>2. SnapshotInv'
      BY <2>1 DEF DataInv, SnapshotInv
    <2>3. StageInv' /\ QuietInv'
      BY <2>1 DEF DataInv, StageInv, QuietInv, Awaiting
    <2> QED
      BY <2>1, <2>2, <2>3, NoWork DEF DataInv
  <1> QED
    BY <1>1, <1>2, <1>3

\* A command that works does so alone: no run is active and no worker is left.
LEMMA NoRun ==
  ASSUME Ownership, DataInv, ~live
  PROVE  /\ \A r \in Runner : run[r] = "off"
         /\ \A i \in Steps : job[i] = "idle"
  <1>1. \A r \in Runner : run[r] = "off"
    BY DEF Ownership, LiveInv, Active
  <1> QED
    BY <1>1, NoBatch DEF DataInv

\* A command that leaves the runs, the workers and what was sent alone, and writes
\* back or prepares sound snapshots only.
LEMMA DataPrepared ==
  ASSUME TypeOK, Ownership, DataInv, ~live, NEW c \in Caller,
         \A d \in Caller : d # c => cmd[d] = "idle",
         UNCHANGED <<run, job, sent, threadDone>>, launches' # 0 \/ launches' = launches,
         \A i \in Steps : remote'[i] \subseteq remote[i],
         \A d \in Caller : d # c => cmd'[d] = cmd[d],
         Sound(w', sent', remote', threadDone'),
         cmd'[c] \in {"accept", "interrupt", "save"} =>
           Sound(held'[c].snap, sent', remote', threadDone'),
         cmd'[c] = "launch" => w'.status # "completed",
         cmd'[c] \in {"interrupt", "save"} => held'[c].snap.status = "queued",
         cmd'[c] = "save" => \A i \in Steps : remote'[i] = {}
  PROVE  DataInv'
  <1>1. (\A r \in Runner : run'[r] = "off") /\ (\A i \in Steps : job'[i] = "idle")
    BY NoRun
  <1>2. SnapshotInv'
    BY <1>1 DEF SnapshotInv
  <1>3. StageInv'
    BY <1>1 DEF StageInv, Awaiting
  <1>4. QuietInv'
    <2>1. launches' = 0 => sent' = {} /\ \A i \in Steps : remote'[i] = {}
      BY DEF DataInv, QuietInv
    <2> QED
      BY <2>1 DEF QuietInv
  <1> QED
    BY <1>1, <1>2, <1>3, <1>4, NoWork DEF DataInv

\* Each step of each command keeps the invariant.
LEMMA DataCommand ==
  ASSUME IInv, DataInv, NEW c \in Caller, UserStarts(c) \/ CallerStep(c)
  PROVE  DataInv'
  <1> USE DEF IInv
  <1>a. ASSUME cmd[c] = "idle", Acquire(c)
        PROVE  \A d \in Caller : cmd[d] = "idle"
    BY <1>a, ActorAssumption DEF Acquire, Ownership, LockInv
  <1>b. ASSUME cmd[c] # "idle"
        PROVE  ~live /\ \A d \in Caller : d # c => cmd[d] = "idle"
    BY <1>b DEF Ownership, LockInv
  <1>t. w \in Snapshot /\ held[c].snap \in Snapshot /\ sent \subseteq Steps \X Nat
        /\ launches \in Nat
    BY DEF TypeOK
  <1>s. Sound(w, sent, remote, threadDone)
    BY DEF DataInv, SnapshotInv
  <1> USE DEF persisted, runner, workers, viewers, codex, history
  <1>1. CASE ImportTask(c)
    <2>1. /\ cmd[c] = "idle" /\ Acquire(c) /\ launches = 0 /\ w' = Imported /\ launches' = 1
          /\ UNCHANGED <<run, job, sent, threadDone, remote>>
          /\ cmd' = [cmd EXCEPT ![c] = "launch"]
      BY <1>1 DEF ImportTask
    <2>2. ~live /\ \A d \in Caller : cmd[d] = "idle"
      BY <2>1, <1>a DEF Ownership, LaunchInv
    <2>3. cmd'[c] = "launch" /\ \A d \in Caller : d # c => cmd'[d] = cmd[d]
      BY <2>1 DEF TypeOK
    <2>4. Sound(w', sent', remote', threadDone')
      <3>1. sent = {} /\ \A i \in Steps : remote[i] = {}
        BY <2>1 DEF DataInv, QuietInv
      <3>2. Sound(Imported, {}, remote, threadDone)
        BY <3>1, BlankSound
      <3> QED
        BY <2>1, <3>1, <3>2
    <2>5. w'.status # "completed"
      BY <2>1 DEF Imported, Blank
    <2> QED
      BY <2>1, <2>2, <2>3, <2>4, <2>5, DataPrepared
  <1>2. ASSUME NEW id, NEW outcome, NEW changes, BeginReview(c, id, outcome, changes)
        PROVE  DataInv'
    <2>1. /\ cmd[c] = "idle" /\ Acquire(c) /\ ~live /\ CanReview(w, w.version, outcome)
          /\ UNCHANGED <<w, run, job, sent, threadDone, remote, launches>>
          /\ cmd' = [cmd EXCEPT ![c] = "accept"]
          /\ held' = [held EXCEPT ![c] = [snap |-> prepare_review(w, outcome, changes), id |-> id]]
      BY <1>2 DEF BeginReview, RunnerGone
    <2>2. \A d \in Caller : cmd[d] = "idle"
      BY <2>1, <1>a
    <2>3. /\ cmd'[c] = "accept" /\ \A d \in Caller : d # c => cmd'[d] = cmd[d]
          /\ held'[c].snap = prepare_review(w, outcome, changes)
      BY <2>1 DEF TypeOK
    <2>4. Sound(held'[c].snap, sent', remote', threadDone')
      BY <2>1, <2>3, <1>t, <1>s, SoundReview
    <2> QED
      BY <2>1, <2>2, <2>3, <2>4, <1>s, DataPrepared
  <1>3. CASE BeginResume(c)
    <2>1. /\ cmd[c] = "idle" /\ Acquire(c) /\ ~live
          /\ UNCHANGED <<w, run, job, sent, threadDone, remote, launches>>
          /\ cmd' = [cmd EXCEPT ![c] = "interrupt"]
          /\ held' = [held EXCEPT ![c] = [snap |-> prepare_resume(w), id |-> NoId]]
      BY <1>3 DEF BeginResume, RunnerGone
    <2>2. \A d \in Caller : cmd[d] = "idle"
      BY <2>1, <1>a
    <2>3. /\ cmd'[c] = "interrupt" /\ \A d \in Caller : d # c => cmd'[d] = cmd[d]
          /\ held'[c].snap = prepare_resume(w)
      BY <2>1 DEF TypeOK
    <2>4. Sound(held'[c].snap, sent', remote', threadDone')
      BY <2>1, <2>3, <1>t, <1>s, SoundResume
    <2>5. held'[c].snap.status = "queued"
      BY <2>3, <1>t DEF prepare_resume, Snapshot
    <2> QED
      BY <2>1, <2>2, <2>3, <2>4, <2>5, <1>s, DataPrepared
  <1>4. CASE AcceptReview(c)
    <2>1. /\ cmd[c] = "accept" /\ w' = held[c].snap
          /\ UNCHANGED <<run, job, sent, threadDone, remote>>
      BY <1>4 DEF AcceptReview
    <2>2. ~live /\ \A d \in Caller : d # c => cmd[d] = "idle"
      BY <2>1, <1>b
    <2>3. Sound(w', sent', remote', threadDone')
      BY <2>1 DEF DataInv, SnapshotInv
    <2>4. CASE held[c].snap.status = "queued"
      <3>1. cmd' = [cmd EXCEPT ![c] = "launch"] /\ launches' = launches + 1
        BY <1>4, <2>4 DEF AcceptReview
      <3>2. cmd'[c] = "launch" /\ launches' # 0 /\ \A d \in Caller : d # c => cmd'[d] = cmd[d]
        BY <3>1, <1>t DEF TypeOK
      <3> QED
        BY <2>1, <2>2, <2>3, <2>4, <3>2, DataPrepared
    <2>5. CASE held[c].snap.status # "queued"
      <3>1. cmd' = [cmd EXCEPT ![c] = "idle"] /\ launches' = launches
        BY <1>4, <2>5 DEF AcceptReview, Finish
      <3>2. cmd'[c] = "idle" /\ \A d \in Caller : d # c => cmd'[d] = cmd[d]
        BY <3>1 DEF TypeOK
      <3> QED
        BY <2>1, <2>2, <2>3, <3>1, <3>2, DataPrepared
    <2> QED
      BY <2>4, <2>5
  <1>5. CASE ResumeInterrupt(c)
    <2>1. cmd[c] = "interrupt" /\ UNCHANGED <<w, run, job, sent, threadDone, launches>>
      BY <1>5 DEF ResumeInterrupt
    <2>2. ~live /\ \A d \in Caller : d # c => cmd[d] = "idle"
      BY <2>1, <1>b
    <2>3. \A i \in Steps : remote'[i] \subseteq remote[i]
      BY <1>5, TurnsShrink DEF ResumeInterrupt
    <2>4. \A s : Sound(s, sent, remote, threadDone) => Sound(s, sent', remote', threadDone')
      BY <2>1, <2>3, SameWorkSelf, SoundSame
    <2>5. Sound(w', sent', remote', threadDone')
      BY <2>1, <2>4, <1>s
    <2>6. CASE ChildrenStopped /\ cmd' = [cmd EXCEPT ![c] = "save"] /\ UNCHANGED <<lock, held>>
      <3>1. cmd'[c] = "save" /\ \A d \in Caller : d # c => cmd'[d] = cmd[d]
        BY <2>6 DEF TypeOK
      <3>2. Sound(held'[c].snap, sent', remote', threadDone')
        BY <2>1, <2>4, <2>6 DEF DataInv, SnapshotInv
      <3>4. held'[c].snap.status = "queued"
        BY <2>1, <2>6 DEF DataInv, StageInv, Awaiting
      <3>3. \A i \in Steps : remote'[i] = {}
        <4> SUFFICES ASSUME NEW i \in Steps PROVE remote'[i] = {}
          OBVIOUS
        <4>1. /\ remote'[i] = IF i \notin OpenChildren THEN remote[i]
                              ELSE IF w.steps[i].turn = 0 THEN {}
                                   ELSE remote[i] \ {w.steps[i].turn}
          BY <2>6 DEF ChildrenStopped, StopChildren
        <4>2. remote[i] # {} =>
                /\ i \in OpenChildren
                /\ w.steps[i].turn # 0 => remote[i] \subseteq {w.steps[i].turn}
          BY <1>s DEF Sound, TurnsOf, OpenChildren
        <4> QED
          BY <4>1, <4>2
      <3> QED
        BY <2>1, <2>2, <2>3, <2>5, <3>1, <3>2, <3>3, <3>4, DataPrepared
    <2>7. CASE ChildrenUnconfirmed /\ Finish(c) /\ Release
      <3>1. cmd'[c] = "idle" /\ \A d \in Caller : d # c => cmd'[d] = cmd[d]
        BY <2>7 DEF Finish, TypeOK
      <3> QED
        BY <2>1, <2>2, <2>3, <2>5, <3>1, DataPrepared
    <2> QED
      BY <1>5, <2>6, <2>7 DEF ResumeInterrupt
  <1>6. CASE SaveResume(c)
    <2>1. /\ cmd[c] = "save" /\ w' = held[c].snap /\ launches' = launches + 1
          /\ UNCHANGED <<run, job, sent, threadDone, remote>>
          /\ cmd' = [cmd EXCEPT ![c] = "launch"]
      BY <1>6 DEF SaveResume
    <2>2. ~live /\ \A d \in Caller : d # c => cmd[d] = "idle"
      BY <2>1, <1>b
    <2>3. cmd'[c] = "launch" /\ launches' # 0 /\ \A d \in Caller : d # c => cmd'[d] = cmd[d]
      BY <2>1, <1>t DEF TypeOK
    <2>4. Sound(w', sent', remote', threadDone')
      BY <2>1 DEF DataInv, SnapshotInv
    <2>5. w'.status # "completed"
      BY <2>1 DEF DataInv, StageInv
    <2> QED
      BY <2>1, <2>2, <2>3, <2>4, <2>5, DataPrepared
  <1>7. CASE Launch(c)
    <2>1. /\ cmd[c] = "launch" /\ UNCHANGED <<w, job, sent, threadDone, remote, launches>>
          /\ cmd' = [cmd EXCEPT ![c] = "idle"]
      BY <1>7 DEF Launch, Finish
    <2>2. ~live /\ \A d \in Caller : cmd'[d] = "idle"
      BY <2>1, <1>b DEF TypeOK
    <2>3. /\ \A r \in Runner : run[r] = "off"
          /\ \A i \in Steps : job'[i] = "idle"
      BY <2>1, <2>2, NoRun
    <2>4. PICK r \in Runner : run' = [run EXCEPT ![r] = "starting"]
      BY <1>7 DEF Launch
    <2>5. \A q \in Runner : run'[q] \in {"starting", "off"}
      BY <2>3, <2>4 DEF TypeOK
    <2>6. SnapshotInv'
      BY <2>1, <2>2, <2>5, <1>s DEF SnapshotInv
    <2>7. w'.status # "completed"
      BY <2>1 DEF DataInv, StageInv
    <2>8. StageInv' /\ QuietInv'
      BY <2>1, <2>2, <2>5, <2>7 DEF DataInv, StageInv, QuietInv
    <2> QED
      BY <2>3, <2>6, <2>8, NoWork DEF DataInv
  <1> QED
    BY <1>1, <1>2, <1>3, <1>4, <1>5, <1>6, <1>7 DEF UserStarts, CallerStep

-----------------------------------------------------------------------------
(* The runner. *)

\* A run is active alone, and no command is on its way.
LEMMA RunAlone ==
  ASSUME IInv, NEW r \in Runner, run[r] # "off"
  PROVE  /\ live /\ launches # 0
         /\ \A q \in Runner : q # r => run[q] = "off"
         /\ \A c \in Caller : cmd[c] = "idle"
  <1>1. live /\ \A q \in Runner : q # r => run[q] = "off"
    BY DEF IInv, Ownership, LiveInv, Active
  <1> QED
    BY <1>1 DEF IInv, TypeOK, Ownership, LockInv, LaunchInv

\* The one run that is active goes on to another place, with no worker left.
LEMMA DataGoto ==
  ASSUME IInv, DataInv, NEW r \in Runner, NEW pc, run[r] # "off", Goto(r, pc),
         UNCHANGED <<cmd, held, launches>>,
         \A i \in Steps : job'[i] = "idle",
         Sound(w', sent', remote', threadDone'),
         pc = "verdict" => verdict'.snap = w',
         pc \in Awaiting \cup {"top", "verdict"} => w'.status # "completed",
         pc = "apply" => AllCompleted(w')
  PROVE  DataInv'
  <1>1. \A q \in Runner : run'[q] = IF q = r THEN pc ELSE "off"
    BY RunAlone DEF IInv, Goto, TypeOK
  <1>2. launches' # 0 /\ \A c \in Caller : cmd'[c] = "idle"
    BY RunAlone
  <1>3. SnapshotInv'
    BY <1>1, <1>2 DEF SnapshotInv
  <1>4. StageInv'
    BY <1>1, <1>2 DEF StageInv, Awaiting
  <1>5. QuietInv'
    BY <1>2 DEF QuietInv
  <1> QED
    BY <1>3, <1>4, <1>5, NoWork DEF DataInv

\* Each step of the runner keeps the invariant.
LEMMA DataRunner ==
  ASSUME IInv, DataInv, NEW r \in Runner, RunnerStep(r)
  PROVE  DataInv'
  <1>a. w \in Snapshot /\ verdict.snap \in Snapshot /\ sent \subseteq Steps \X Nat
    BY DEF IInv, TypeOK
  <1>b. Sound(w, sent, remote, threadDone)
    BY DEF DataInv, SnapshotInv
  <1>c. ASSUME run[r] \notin {"off", "batch"}
        PROVE  \A i \in Steps : job[i] = "idle"
    <2>1. \A q \in Runner : run[q] # "batch"
      BY <1>c, RunAlone
    <2> QED
      BY <2>1, NoBatch DEF DataInv
  <1>d. ASSUME SameWork(w, w'), UNCHANGED <<sent, threadDone>>,
               \A i \in Steps : remote'[i] \subseteq remote[i]
        PROVE  Sound(w', sent', remote', threadDone')
    BY <1>b, <1>d, SoundSame
  <1>e. run[r] \in Awaiting \cup {"top", "verdict"} => w.status # "completed"
    BY DEF DataInv, StageInv
  <1> USE DEF persisted, commands, workers, viewers, codex, history
  <1>1. CASE DropRun(r)
    <2>1. /\ run[r] # "off" /\ Goto(r, "failing") /\ \A i \in Steps : job'[i] = "idle"
          /\ UNCHANGED <<w, sent, threadDone, remote, cmd, held, launches>>
      BY <1>1 DEF DropRun, DropJobs, Awaiting
    <2>2. Sound(w', sent', remote', threadDone')
      BY <2>1, <1>b
    <2> QED
      BY <2>1, <2>2, DataGoto DEF Awaiting
  <1>2. CASE RunTop(r)
    <2>1. /\ run[r] \in {"starting", "top"} /\ Goto(r, "loop")
          /\ w' = [w EXCEPT !.status = "running"]
          /\ UNCHANGED <<sent, threadDone, remote, job, cmd, held, launches>>
      BY <1>2 DEF RunTop
    <2>2. SameWork(w, w') /\ w'.status = "running"
      BY <2>1, <1>a, StatusSame DEF Snapshot
    <2>3. Sound(w', sent', remote', threadDone') /\ \A i \in Steps : job'[i] = "idle"
      BY <2>1, <2>2, <1>c, <1>d
    <2> QED
      BY <2>1, <2>2, <2>3, DataGoto
  <1>3. CASE RunBatch(r)
    <2> DEFINE f == [i \in Steps |->
                       IF i \in ready_batch(w) THEN [w.steps[i] EXCEPT !.status = "running"]
                       ELSE w.steps[i]]
    <2>1. /\ run[r] = "loop" /\ Goto(r, "batch") /\ ready_batch(w) # {}
          /\ w' = [w EXCEPT !.steps = f]
          /\ job' = [i \in Steps |-> IF i \in ready_batch(w) THEN "spawned" ELSE job[i]]
          /\ UNCHANGED <<sent, threadDone, remote, cmd, held, launches>>
      BY <1>3 DEF RunBatch
    <2>2. \A i \in ready_batch(w) : /\ i \in Steps /\ w.steps[i].status = "pending"
                                    /\ \A j \in Deps[i] : w.steps[j].status = "completed"
      BY DEF ready_batch
    <2>3. \A i \in Steps : w.steps[i] \in StepState
      BY <1>a DEF Snapshot
    <2>4. \A i \in Steps :
            /\ f[i].task = w.steps[i].task /\ f[i].base = w.steps[i].base
            /\ f[i].child = w.steps[i].child /\ f[i].turn = w.steps[i].turn
            /\ f[i].evidence = w.steps[i].evidence
            /\ f[i].status = IF i \in ready_batch(w) THEN "running" ELSE w.steps[i].status
      BY <2>3 DEF StepState
    <2> HIDE DEF f
    <2>5. /\ w'.history = w.history /\ w'.iteration = w.iteration /\ w'.version = w.version
          /\ w'.status = w.status /\ w'.review = w.review /\ w'.steps = f
      BY <2>1, <1>a DEF Snapshot
    <2>6. SameWork(w, w')
      BY <2>2, <2>4, <2>5 DEF SameWork
    <2>7. Sound(w', sent', remote', threadDone')
      BY <2>1, <2>6, <1>d
    <2>8. w'.status # "completed"
      BY <2>1, <2>5, <1>e DEF Awaiting
    <2>9. \A q \in Runner : run'[q] = IF q = r THEN "batch" ELSE "off"
      BY <2>1, RunAlone DEF IInv, Goto, TypeOK
    <2>10. launches' # 0 /\ \A c \in Caller : cmd'[c] = "idle"
      BY <2>1, RunAlone
    <2>11. SnapshotInv' /\ StageInv' /\ QuietInv'
      BY <2>7, <2>8, <2>9, <2>10 DEF SnapshotInv, StageInv, QuietInv
    <2>12. \A i \in Steps : job'[i] = IF i \in ready_batch(w) THEN "spawned" ELSE "idle"
      BY <2>1, <1>c
    <2>13. ASSUME NEW i \in ready_batch(w)
           PROVE  /\ \A j \in ancestors[i] : w.steps[j].status = "completed"
                  /\ \A k \in Steps : i \in ancestors[k] => w.steps[k].status # "completed"
                  /\ w.version = NoVersion
      <3>1. \A j \in Deps[i] : j \in Steps /\ w.steps[j].status = "completed"
        BY <2>2, PlanAssumption
      <3>2. \A j \in ancestors[i] : j \in Deps[i] \/ \E k \in Deps[i] : j \in ancestors[k]
        BY <2>2, AncestorsOf
      <3>3. \A k \in Steps : w.steps[k].status = "completed" =>
                \A j \in ancestors[k] : w.steps[j].status = "completed"
        BY <1>b DEF Sound, BasesOf
      <3>4. w.version # NoVersion => AllCompleted(w)
        BY <1>b DEF Sound, ArtifactOf
      <3> QED
        BY <2>2, <3>1, <3>2, <3>3, <3>4 DEF AllCompleted
    <2>14. BatchInv'
      <3> SUFFICES ASSUME NEW i \in Steps, job'[i] # "idle"
                   PROVE  /\ \E q \in Runner : run'[q] = "batch"
                          /\ w'.version = NoVersion /\ w'.steps[i].status # "pending"
                          /\ \A j \in ancestors[i] : /\ w'.steps[j].status = "completed"
                                                     /\ job'[j] = "idle"
                          /\ \A k \in Steps : i \in ancestors[k] =>
                                w'.steps[k].status # "completed"
        BY DEF BatchInv
      <3>1. i \in ready_batch(w)
        BY <2>12
      <3>2. \A j \in ancestors[i] : j \in Steps /\ j \notin ready_batch(w)
        BY <3>1, <2>2, <2>13, AncestorsOf
      <3>3. \A j \in ancestors[i] : w'.steps[j].status = "completed" /\ job'[j] = "idle"
        BY <3>1, <3>2, <2>4, <2>5, <2>12, <2>13
      <3> QED
        BY <3>1, <3>3, <2>4, <2>5, <2>9, <2>13
    <2>15. WorkInv'
      <3> SUFFICES ASSUME NEW i \in Steps PROVE WorkAt(i)'
        BY DEF WorkInv
      <3>1. job'[i] \in {"spawned", "idle"}
        BY <2>12
      <3>2. job'[i] = "spawned" => <<i, w'.steps[i].task>> \notin sent'
        BY <2>1, <2>2, <2>4, <2>5, <2>12, <1>b DEF Sound, AttemptsOf
      <3> QED
        BY <3>1, <3>2 DEF WorkAt
    <2> QED
      BY <2>11, <2>14, <2>15 DEF DataInv
  <1>4. CASE RunJoin(r)
    <2>1. /\ run[r] = "batch" /\ \A i \in Steps : job'[i] = "idle"
          /\ UNCHANGED <<w, sent, threadDone, remote, cmd, held, launches>>
      BY <1>4 DEF RunJoin
    <2>2. \E pc \in {"failing", "loop"} : Goto(r, pc)
      BY <1>4 DEF RunJoin
    <2>3. Sound(w', sent', remote', threadDone') /\ w'.status # "completed"
      BY <2>1, <1>b, <1>e DEF Awaiting
    <2> QED
      BY <2>1, <2>2, <2>3, DataGoto
  <1>5. CASE RunIntegrate(r)
    <2>1. /\ run[r] = "loop" /\ Goto(r, "apply") /\ AllCompleted(w)
          /\ w' = [w EXCEPT !.status = "integrating"]
          /\ UNCHANGED <<sent, threadDone, remote, job, cmd, held, launches>>
      BY <1>5 DEF RunIntegrate
    <2>2. SameWork(w, w') /\ w'.status = "integrating"
      BY <2>1, <1>a, StatusSame DEF Snapshot
    <2>3. Sound(w', sent', remote', threadDone') /\ \A i \in Steps : job'[i] = "idle"
      BY <2>1, <2>2, <1>c, <1>d
    <2>4. AllCompleted(w')
      BY <2>1, <2>2 DEF AllCompleted, SameWork
    <2> QED
      BY <2>1, <2>2, <2>3, <2>4, DataGoto
  <1>6. CASE RunPublish(r)
    <2>1. /\ run[r] = "apply" /\ Goto(r, "review")
          /\ w' = [w EXCEPT !.version = artifact_version(w), !.status = "awaiting_review"]
          /\ UNCHANGED <<sent, threadDone, remote, job, cmd, held, launches>>
      BY <1>6 DEF RunPublish
    <2>2. /\ w'.history = w.history /\ w'.iteration = w.iteration /\ w'.steps = w.steps
          /\ w'.version = artifact_version(w) /\ w'.status = "awaiting_review"
      BY <2>1, <1>a DEF Snapshot
    <2>3. Archive(w') = Archive(w) /\ artifact_version(w') = artifact_version(w)
      BY <2>2, SameArchive
    <2>4. AllCompleted(w')
      BY <2>1, <2>2 DEF DataInv, StageInv, AllCompleted
    <2>5. AttemptsOf(w', sent') /\ BasesOf(w') /\ TurnsOf(w', remote', threadDone')
      BY <2>1, <2>2, <2>3, <1>b DEF Sound, AttemptsOf, BasesOf, CurrentBase, TurnsOf
    <2>6. ArtifactOf(w')
      BY <2>2, <2>3, <2>4 DEF ArtifactOf
    <2>7. Sound(w', sent', remote', threadDone') /\ \A i \in Steps : job'[i] = "idle"
      BY <2>1, <2>5, <2>6, <1>c DEF Sound
    <2> QED
      BY <2>1, <2>2, <2>7, DataGoto
  <1>7. CASE ReviewUnavailable(r)
    <2>1. /\ run[r] = "review" /\ Goto(r, "returning")
          /\ w' = [w EXCEPT !.status = "needs_attention"]
          /\ UNCHANGED <<sent, threadDone, remote, job, cmd, held, launches>>
      BY <1>7 DEF ReviewUnavailable
    <2>2. SameWork(w, w')
      BY <2>1, <1>a, StatusSame
    <2>3. Sound(w', sent', remote', threadDone') /\ \A i \in Steps : job'[i] = "idle"
      BY <2>1, <2>2, <1>c, <1>d
    <2> QED
      BY <2>1, <2>3, DataGoto DEF Awaiting
  <1>8. CASE StartReviewer(r)
    <2>1. /\ run[r] = "review" /\ Goto(r, "reviewing")
          /\ UNCHANGED <<w, sent, threadDone, remote, job, cmd, held, launches>>
      BY <1>8 DEF StartReviewer
    <2>2. /\ Sound(w', sent', remote', threadDone') /\ w'.status # "completed"
          /\ \A i \in Steps : job'[i] = "idle"
      BY <2>1, <1>b, <1>c, <1>e DEF Awaiting
    <2> QED
      BY <2>1, <2>2, DataGoto
  <1>9. ASSUME NEW outcome, NeedsAttention(r, outcome)
        PROVE  DataInv'
    <2>1. /\ run[r] = "reviewing" /\ Goto(r, "returning")
          /\ w' = [w EXCEPT !.status = "needs_attention", !.review = outcome]
          /\ UNCHANGED <<sent, threadDone, remote, job, cmd, held, launches>>
      BY <1>9 DEF NeedsAttention, FinishReviewer
    <2>2. SameWork(w, w')
      BY <2>1, <1>a, StatusSame
    <2>3. Sound(w', sent', remote', threadDone') /\ \A i \in Steps : job'[i] = "idle"
      BY <2>1, <2>2, <1>c, <1>d
    <2> QED
      BY <2>1, <2>3, DataGoto DEF Awaiting
  <1>10. ASSUME NEW outcome, NEW changes, ReadForVerdict(r, outcome, changes)
         PROVE  DataInv'
    <2>1. /\ run[r] = "reviewing" /\ Goto(r, "verdict") /\ verdict'.snap = w
          /\ UNCHANGED <<w, sent, threadDone, remote, job, cmd, held, launches>>
      BY <1>10 DEF ReadForVerdict, FinishReviewer
    <2>2. /\ Sound(w', sent', remote', threadDone') /\ w'.status # "completed"
          /\ \A i \in Steps : job'[i] = "idle"
      BY <2>1, <1>b, <1>c, <1>e DEF Awaiting
    <2> QED
      BY <2>1, <2>2, DataGoto
  <1>11. CASE SaveVerdict(r)
    <2>1. /\ run[r] = "verdict"
          /\ UNCHANGED <<sent, threadDone, remote, job, cmd, held, launches>>
      BY <1>11 DEF SaveVerdict
    <2>2. Sound(verdict.snap, sent, remote, threadDone) /\ \A i \in Steps : job'[i] = "idle"
      BY <2>1, <1>c DEF DataInv, SnapshotInv
    <2>3. CASE CanReview(verdict.snap, verdict.snap.version, verdict.outcome)
      <3>1. w' = prepare_review(verdict.snap, verdict.outcome, verdict.changes)
        BY <1>11, <2>3 DEF SaveVerdict
      <3>2. Sound(w', sent', remote', threadDone')
        BY <2>1, <2>2, <2>3, <3>1, <1>a, SoundReview
      <3>3. CASE verdict.changes = {}
        <4>1. Goto(r, "returning")
          BY <1>11, <2>3, <3>3 DEF SaveVerdict
        <4> QED
          BY <2>1, <2>2, <3>2, <4>1, DataGoto DEF Awaiting
      <3>4. CASE verdict.changes # {}
        <4>1. Goto(r, "top")
          BY <1>11, <2>3, <3>4 DEF SaveVerdict
        <4>2. w'.status # "completed"
          BY <3>1, <3>4, <1>a DEF prepare_review, Snapshot
        <4> QED
          BY <2>1, <2>2, <3>2, <4>1, <4>2, DataGoto DEF Awaiting
      <3> QED
        BY <3>3, <3>4
    <2>4. CASE ~CanReview(verdict.snap, verdict.snap.version, verdict.outcome)
      <3>1. UNCHANGED w /\ Goto(r, "failing")
        BY <1>11, <2>4 DEF SaveVerdict
      <3> QED
        BY <2>1, <2>2, <3>1, <1>b, DataGoto DEF Awaiting
    <2> QED
      BY <2>3, <2>4
  <1>12. CASE RunReturn(r)
    <2>1. /\ run[r] = "returning"
          /\ UNCHANGED <<w, sent, threadDone, remote, job, cmd, held, launches>>
      BY <1>12 DEF RunReturn
    <2>2. \E pc \in {"failing", "off"} : Goto(r, pc)
      BY <1>12 DEF RunReturn
    <2>3. Sound(w', sent', remote', threadDone') /\ \A i \in Steps : job'[i] = "idle"
      BY <2>1, <1>b, <1>c
    <2> QED
      BY <2>1, <2>2, <2>3, DataGoto DEF Awaiting
  <1>13. CASE RunFail(r)
    <2>1. /\ run[r] = "failing" /\ Goto(r, "cleanup")
          /\ \E x \in {"interrupted", "reconciliation_required"} : w' = Settle(w, x)
          /\ UNCHANGED <<sent, threadDone, remote, job, cmd, held, launches>>
      BY <1>13 DEF RunFail
    <2>2. SameWork(w, w')
      BY <2>1, <1>a, SettleSame DEF Status, Terminal
    <2>3. Sound(w', sent', remote', threadDone') /\ \A i \in Steps : job'[i] = "idle"
      BY <2>1, <2>2, <1>c, <1>d
    <2> QED
      BY <2>1, <2>3, DataGoto DEF Awaiting
  <1>14. CASE RunCleanup(r)
    <2>1. /\ run[r] = "cleanup" /\ Goto(r, "off")
          /\ w' = w \/ w' = [w EXCEPT !.status = "reconciliation_required"]
          /\ UNCHANGED <<sent, threadDone, job, cmd, held, launches>>
      BY <1>14 DEF RunCleanup
    <2>2. SameWork(w, w')
      BY <2>1, <1>a, StatusSame, SameWorkSelf, ZenonT(60)
    <2>3. \A i \in Steps : remote'[i] \subseteq remote[i]
      BY <1>14, TurnsShrink DEF RunCleanup, IInv
    <2>4. Sound(w', sent', remote', threadDone') /\ \A i \in Steps : job'[i] = "idle"
      BY <2>1, <2>2, <2>3, <1>c, <1>d
    <2> QED
      BY <2>1, <2>4, DataGoto DEF Awaiting
  <1> QED
    BY <1>1, <1>2, <1>3, <1>4, <1>5, <1>6, <1>7, <1>8, <1>9, <1>10, <1>11, <1>12, <1>13,
       <1>14 DEF RunnerStep

-----------------------------------------------------------------------------
(* The workers. *)

\* A worker of step i replaces the state of its own step by x and keeps its attempt.
LEMMA DataWork ==
  ASSUME IInv, DataInv, NEW i \in Steps, NEW x, job[i] # "idle",
         UNCHANGED <<cmd, held, run, verdict, launches>>,
         /\ w'.history = w.history /\ w'.iteration = w.iteration
         /\ w'.version = w.version /\ w'.status = w.status,
         \A k \in Steps : w'.steps[k] = IF k = i THEN x ELSE w.steps[k],
         x.task = w.steps[i].task, x.status # "pending",
         x.status = "completed" => CurrentBase(w', i),
         sent \subseteq sent', sent' \subseteq sent \cup {<<i, x.task>>},
         \A k \in Steps : k # i => /\ remote'[k] = remote[k] /\ threadDone'[k] = threadDone[k]
                                   /\ job'[k] = job[k],
         remote'[i] # {} => /\ Provider[i] = "codex" /\ x.child /\ ~threadDone'[i]
                            /\ x.turn # 0 => remote'[i] \subseteq {x.turn},
         WorkAt(i)'
  PROVE  DataInv'
  <1>1. /\ \E r \in Runner : run[r] = "batch"
        /\ w.version = NoVersion
        /\ \A j \in ancestors[i] : w.steps[j].status = "completed" /\ job[j] = "idle"
        /\ \A k \in Steps : i \in ancestors[k] => w.steps[k].status # "completed"
    BY DEF DataInv, BatchInv
  <1>2. PICK r \in Runner : run[r] = "batch" /\ \A q \in Runner : q # r => run[q] = "off"
    BY <1>1, RunAlone
  <1>3. launches # 0 /\ \A c \in Caller : cmd[c] = "idle"
    BY <1>2, RunAlone
  <1>4. w.status # "completed"
    BY <1>2 DEF DataInv, StageInv, Awaiting
  <1>5. \A k \in Steps : \A j \in ancestors[k] : j \in Steps
    BY AncestorsOf
  <1>6. \A k \in Steps : w'.steps[k].task = w.steps[k].task
    OBVIOUS
  <1>7. Sound(w, sent, remote, threadDone)
    BY DEF DataInv, SnapshotInv
  <1>8. i \notin ancestors[i]
    BY <1>1
  <1>9. AttemptsOf(w', sent')
    <2>1. Archive(w') = Archive(w)
      BY <1>6, SameArchive
    <2>2. <<i, x.task>> \in Archive(w)
      BY DEF Archive
    <2>3. \A a \in sent' : a \in sent \/ a = <<i, x.task>>
      OBVIOUS
    <2>4. \A a \in sent' : a[2] <= w'.iteration
      <3>1. <<i, x.task>>[2] = w.steps[i].task
        OBVIOUS
      <3> QED
        BY <2>3, <3>1, <1>7 DEF Sound, AttemptsOf
    <2>5. \A k \in Steps : w'.steps[k].status = "pending" => <<k, w'.steps[k].task>> \notin sent'
      <3> SUFFICES ASSUME NEW k \in Steps, w'.steps[k].status = "pending"
                   PROVE  <<k, w'.steps[k].task>> \notin sent'
        OBVIOUS
      <3>1. k # i /\ w'.steps[k] = w.steps[k]
        OBVIOUS
      <3>2. <<k, w.steps[k].task>> # <<i, x.task>>
        BY <3>1
      <3> QED
        BY <3>1, <3>2, <2>3, <1>7 DEF Sound, AttemptsOf
    <2>6. sent' \subseteq Archive(w')
      BY <2>1, <2>2, <2>3, <1>7 DEF Sound, AttemptsOf
    <2>7. \A k \in Steps : w'.steps[k].task <= w'.iteration
      BY <1>6, <1>7 DEF Sound, AttemptsOf
    <2> QED
      BY <2>4, <2>5, <2>6, <2>7 DEF AttemptsOf
  <1>10. BasesOf(w')
    <2> SUFFICES ASSUME NEW k \in Steps, w'.steps[k].status = "completed"
                 PROVE  /\ \A j \in ancestors[k] : w'.steps[j].status = "completed"
                        /\ CurrentBase(w', k)
      BY DEF BasesOf
    <2>1. CASE k = i
      BY <2>1, <1>1, <1>5, <1>8
    <2>2. CASE k # i
      <3>1. i \notin ancestors[k]
        BY <2>2, <1>1
      <3>2. /\ \A j \in ancestors[k] : w.steps[j].status = "completed"
            /\ \A j \in ancestors[k] : w.steps[k].base[j] = w.steps[j].task
        BY <2>2, <1>7 DEF Sound, BasesOf, CurrentBase
      <3> QED
        BY <2>2, <3>1, <3>2, <1>5 DEF CurrentBase
    <2> QED
      BY <2>1, <2>2
  <1>11. ArtifactOf(w')
    BY <1>1, <1>4 DEF ArtifactOf
  <1>12. TurnsOf(w', remote', threadDone')
    BY <1>7 DEF Sound, TurnsOf
  <1>13. SnapshotInv'
    BY <1>2, <1>3, <1>9, <1>10, <1>11, <1>12 DEF SnapshotInv, Sound
  <1>14. StageInv'
    BY <1>2, <1>3, <1>4 DEF StageInv
  <1>15. QuietInv'
    BY <1>3 DEF QuietInv
  <1>16. BatchInv'
    <2> SUFFICES ASSUME NEW k \in Steps, job'[k] # "idle"
                 PROVE  /\ \E q \in Runner : run'[q] = "batch"
                        /\ w'.version = NoVersion /\ w'.steps[k].status # "pending"
                        /\ \A j \in ancestors[k] : /\ w'.steps[j].status = "completed"
                                                   /\ job'[j] = "idle"
                        /\ \A l \in Steps : k \in ancestors[l] => w'.steps[l].status # "completed"
      BY DEF BatchInv
    <2>1. job[k] # "idle"
      OBVIOUS
    <2>2. /\ w.steps[k].status # "pending"
          /\ \A j \in ancestors[k] : w.steps[j].status = "completed" /\ job[j] = "idle"
          /\ \A l \in Steps : k \in ancestors[l] => w.steps[l].status # "completed"
      BY <2>1 DEF DataInv, BatchInv
    <2>3. i \notin ancestors[k] /\ k \notin ancestors[i]
      BY <2>1, <2>2, <1>1
    <2> QED
      BY <2>2, <2>3, <1>1, <1>5
  <1>17. WorkInv'
    <2> SUFFICES ASSUME NEW k \in Steps PROVE WorkAt(k)'
      BY DEF WorkInv
    <2>1. CASE k = i
      BY <2>1
    <2>2. CASE k # i
      <3>1. WorkAt(k)
        BY DEF DataInv, WorkInv
      <3>2. /\ job'[k] = job[k] /\ remote'[k] = remote[k] /\ threadDone'[k] = threadDone[k]
            /\ w'.steps[k] = w.steps[k]
        BY <2>2
      <3>3. <<k, w.steps[k].task>> \in sent' => <<k, w.steps[k].task>> \in sent
        BY <2>2
      <3>4. CurrentBase(w, k) => CurrentBase(w', k)
        BY <3>2, <1>5, <1>6 DEF CurrentBase
      <3> QED
        BY <3>1, <3>2, <3>3, <3>4 DEF WorkAt
    <2> QED
      BY <2>1, <2>2
  <1> QED
    BY <1>13, <1>14, <1>15, <1>16, <1>17 DEF DataInv

\* What SetStep leaves alone.
LEMMA SetStepOnly ==
  ASSUME w \in Snapshot, NEW i \in Steps, NEW x, SetStep(i, x)
  PROVE  /\ w'.history = w.history /\ w'.iteration = w.iteration
         /\ w'.version = w.version /\ w'.status = w.status
         /\ \A k \in Steps : w'.steps[k] = IF k = i THEN x ELSE w.steps[k]
  BY DEF SetStep, Snapshot

\* The base of a step that is being worked on, seen through its new state.
LEMMA BaseKept ==
  ASSUME NEW i \in Steps, NEW s, NEW t, \A k \in Steps : t.steps[k].task = s.steps[k].task,
         t.steps[i].base = s.steps[i].base, CurrentBase(s, i)
  PROVE  CurrentBase(t, i)
  BY AncestorsOf DEF CurrentBase

\* Each step of a worker keeps the invariant.
LEMMA DataWorker ==
  ASSUME IInv, DataInv, NEW i \in Steps, JobStep(i)
  PROVE  DataInv'
  <1>a. w \in Snapshot /\ Step(i) \in StepState /\ Step(i) = w.steps[i]
    BY DEF IInv, TypeOK, Snapshot, Step
  <1>b. WorkAt(i)
    BY DEF DataInv, WorkInv
  <1>c. remote[i] # {} =>
          /\ Provider[i] = "codex" /\ w.steps[i].child /\ ~threadDone[i]
          /\ w.steps[i].turn # 0 => remote[i] \subseteq {w.steps[i].turn}
    BY DEF DataInv, SnapshotInv, Sound, TurnsOf
  <1>d. job[i] # "idle" => /\ w.steps[i].status # "pending"
                           /\ \A j \in ancestors[i] : w.steps[j].status = "completed"
    BY DEF DataInv, BatchInv
  <1>e. job \in [Steps -> {"idle", "spawned", "prepared", "threaded", "attempted", "waiting",
                           "streaming", "answered", "returned"}]
        /\ remote \in [Steps -> SUBSET Nat] /\ threadDone \in [Steps -> BOOLEAN]
    BY DEF IInv, TypeOK
  <1>f. w.steps[i].status = "completed" => CurrentBase(w, i)
    BY DEF DataInv, SnapshotInv, Sound, BasesOf
  <1>g. ASSUME NEW x, SetStep(i, x), x.task = w.steps[i].task, x.base = w.steps[i].base
        PROVE  CurrentBase(w, i) => CurrentBase(w', i)
    BY <1>a, <1>g, SetStepOnly, BaseKept
  <1> USE DEF persisted, commands, runner, viewers, codex, history
  <1>1. CASE JobError(i)
    <2> DEFINE x == [Step(i) EXCEPT !.status = "failed"]
    <2>1. /\ job[i] # "idle" /\ job' = [job EXCEPT ![i] = "idle"] /\ SetStep(i, x)
          /\ UNCHANGED <<threadDone, cmd, held, run, verdict, launches, remote, sent>>
      BY <1>1 DEF JobError
    <2>2. /\ x.task = w.steps[i].task /\ x.status = "failed"
          /\ x.child = w.steps[i].child /\ x.turn = w.steps[i].turn
      BY <1>a DEF StepState
    <2> HIDE DEF x
    <2>3. WorkAt(i)'
      BY <2>1, <1>e DEF WorkAt
    <2> QED
      BY <2>1, <2>2, <2>3, <1>a, <1>c, <1>e, SetStepOnly, DataWork
  <1>2. CASE JobPrepare(i)
    <2> DEFINE b == [j \in Steps |-> IF j \in ancestors[i] THEN Step(j).task ELSE 0]
               x == [Step(i) EXCEPT !.base = b]
    <2>1. /\ job[i] = "spawned" /\ job' = [job EXCEPT ![i] = "prepared"] /\ SetStep(i, x)
          /\ UNCHANGED <<threadDone, cmd, held, run, verdict, launches, remote, sent>>
      BY <1>2 DEF JobPrepare, JobAt
    <2>2. /\ x.task = w.steps[i].task /\ x.status = w.steps[i].status
          /\ x.child = w.steps[i].child /\ x.turn = w.steps[i].turn /\ x.base = b
      BY <1>a DEF StepState
    <2>3. \A j \in ancestors[i] : j \in Steps /\ b[j] = w.steps[j].task
      BY AncestorsOf DEF Step
    <2> HIDE DEF x, b
    <2>4. CurrentBase(w', i)
      BY <2>1, <2>2, <2>3, <1>a, SetStepOnly DEF CurrentBase
    <2>5. WorkAt(i)'
      BY <2>1, <2>2, <2>4, <1>a, <1>b, <1>e, SetStepOnly DEF WorkAt
    <2> QED
      BY <2>1, <2>2, <2>4, <2>5, <1>a, <1>c, <1>d, <1>e, SetStepOnly, DataWork
  <1>3. CASE JobThread(i)
    <2> DEFINE x == [Step(i) EXCEPT !.child = TRUE, !.turn = 0]
    <2>1. /\ job[i] = "prepared" /\ job' = [job EXCEPT ![i] = "threaded"] /\ SetStep(i, x)
          /\ Provider[i] = "codex" /\ threadDone' = [threadDone EXCEPT ![i] = FALSE]
          /\ Step(i).child => remote[i] = {}
          /\ UNCHANGED <<cmd, held, run, verdict, launches, remote, sent>>
      BY <1>3 DEF JobThread, JobAt
    <2>2. /\ x.task = w.steps[i].task /\ x.status = w.steps[i].status
          /\ x.child /\ x.turn = 0 /\ x.base = w.steps[i].base
      BY <1>a DEF StepState
    <2> HIDE DEF x
    <2>3. remote[i] = {} /\ ~threadDone'[i]
      BY <2>1, <1>a, <1>c, <1>e
    <2>4. CurrentBase(w', i)
      BY <2>1, <2>2, <1>b, <1>g DEF WorkAt
    <2>5. WorkAt(i)'
      BY <2>1, <2>2, <2>3, <2>4, <1>a, <1>b, <1>e, SetStepOnly DEF WorkAt
    <2>6. /\ w'.history = w.history /\ w'.iteration = w.iteration
          /\ w'.version = w.version /\ w'.status = w.status
          /\ \A k \in Steps : w'.steps[k] = IF k = i THEN x ELSE w.steps[k]
      BY <2>1, <1>a, SetStepOnly
    <2>7. \A k \in Steps : k # i => /\ remote'[k] = remote[k] /\ threadDone'[k] = threadDone[k]
                                    /\ job'[k] = job[k]
      BY <2>1, <1>e
    <2>8. job[i] # "idle" /\ x.status # "pending" /\ remote'[i] = {} /\ sent' = sent
      BY <2>1, <2>2, <2>3, <1>d
    <2> QED
      BY <2>1, <2>2, <2>4, <2>5, <2>6, <2>7, <2>8, DataWork
  <1>4. CASE JobAttempt(i)
    <2>1. /\ job[i] = (IF Provider[i] = "codex" THEN "threaded" ELSE "prepared")
          /\ job' = [job EXCEPT ![i] = "attempted"]
          /\ UNCHANGED <<cmd, held, run, verdict, launches, remote, sent>>
      BY <1>4 DEF JobAttempt, JobAt
    <2>2. CASE Provider[i] = "codex"
      <3>1. UNCHANGED <<w, threadDone>> /\ job[i] = "threaded"
        BY <1>4, <2>1, <2>2 DEF JobAttempt
      <3>2. WorkAt(i)' /\ CurrentBase(w', i)
        BY <2>1, <3>1, <1>b, <1>e DEF WorkAt
      <3>3. /\ w'.history = w.history /\ w'.iteration = w.iteration
            /\ w'.version = w.version /\ w'.status = w.status
            /\ \A k \in Steps : w'.steps[k] = IF k = i THEN w.steps[i] ELSE w.steps[k]
        BY <3>1
      <3> QED
        BY <2>1, <3>1, <3>2, <3>3, <1>c, <1>d, <1>e, DataWork
    <2>3. CASE Provider[i] # "codex"
      <3> DEFINE x == [Step(i) EXCEPT !.child = TRUE]
      <3>1. /\ SetStep(i, x) /\ threadDone' = [threadDone EXCEPT ![i] = FALSE]
            /\ job[i] = "prepared" /\ remote[i] = {}
        BY <1>4, <2>1, <2>3, <1>c DEF JobAttempt
      <3>2. x.task = w.steps[i].task /\ x.status = w.steps[i].status /\ x.base = w.steps[i].base
        BY <1>a DEF StepState
      <3> HIDE DEF x
      <3>3. CurrentBase(w', i)
        BY <3>1, <3>2, <1>b, <1>g DEF WorkAt
      <3>4. WorkAt(i)'
        BY <2>1, <2>3, <3>1, <3>2, <3>3, <1>a, <1>b, <1>e, SetStepOnly DEF WorkAt
      <3>5. /\ w'.history = w.history /\ w'.iteration = w.iteration
            /\ w'.version = w.version /\ w'.status = w.status
            /\ \A k \in Steps : w'.steps[k] = IF k = i THEN x ELSE w.steps[k]
        BY <3>1, <1>a, SetStepOnly
      <3>6. \A k \in Steps : k # i => /\ remote'[k] = remote[k] /\ threadDone'[k] = threadDone[k]
                                      /\ job'[k] = job[k]
        BY <2>1, <3>1, <1>e
      <3>7. job[i] # "idle" /\ x.status # "pending" /\ remote'[i] = {} /\ sent' = sent
        BY <2>1, <3>1, <3>2, <1>d
      <3> QED
        BY <2>1, <3>2, <3>3, <3>4, <3>5, <3>6, <3>7, DataWork
    <2> QED
      BY <2>2, <2>3
  <1>5. CASE JobSend(i)
    <2>1. /\ job[i] = "attempted" /\ job' = [job EXCEPT ![i] = "waiting"]
          /\ sent' = sent \cup {<<i, w.steps[i].task>>}
          /\ remote' = IF Provider[i] = "codex"
                       THEN [remote EXCEPT ![i] = @ \cup {w.steps[i].task}] ELSE remote
          /\ UNCHANGED <<w, threadDone, cmd, held, run, verdict, launches>>
      BY <1>5, <1>a DEF JobSend, JobAt
    <2>2. /\ Provider[i] = "codex" => /\ remote'[i] = {w.steps[i].task} /\ w.steps[i].child
                                      /\ ~threadDone[i] /\ w.steps[i].turn = 0
          /\ Provider[i] # "codex" => remote'[i] = {}
      BY <2>1, <1>b, <1>c, <1>e DEF WorkAt
    <2>3. WorkAt(i)' /\ CurrentBase(w', i)
      BY <2>1, <2>2, <1>b, <1>e DEF WorkAt
    <2>4. /\ w'.history = w.history /\ w'.iteration = w.iteration
          /\ w'.version = w.version /\ w'.status = w.status
          /\ \A k \in Steps : w'.steps[k] = IF k = i THEN w.steps[i] ELSE w.steps[k]
      BY <2>1
    <2>5. \A k \in Steps : k # i => remote'[k] = remote[k] /\ job'[k] = job[k]
      BY <2>1, <1>e
    <2> QED
      BY <2>1, <2>2, <2>3, <2>4, <2>5, <1>d, DataWork
  <1>6. CASE JobTurn(i)
    <2> DEFINE x == [Step(i) EXCEPT !.turn = Step(i).task]
    <2>1. /\ job[i] = "waiting" /\ job' = [job EXCEPT ![i] = "streaming"] /\ SetStep(i, x)
          /\ Provider[i] = "codex"
          /\ UNCHANGED <<threadDone, cmd, held, run, verdict, launches, remote, sent>>
      BY <1>6 DEF JobTurn, JobAt
    <2>2. /\ x.task = w.steps[i].task /\ x.status = w.steps[i].status
          /\ x.child = w.steps[i].child /\ x.turn = w.steps[i].task /\ x.base = w.steps[i].base
      BY <1>a DEF StepState
    <2> HIDE DEF x
    <2>3. w.steps[i].child /\ ~threadDone[i] /\ remote[i] \subseteq {w.steps[i].task}
      BY <2>1, <1>b DEF WorkAt
    <2>4. CurrentBase(w', i)
      BY <2>1, <2>2, <1>b, <1>g DEF WorkAt
    <2>5. WorkAt(i)'
      BY <2>1, <2>2, <2>3, <2>4, <1>a, <1>e, SetStepOnly, ZenonT(60) DEF WorkAt
    <2>6. /\ w'.history = w.history /\ w'.iteration = w.iteration
          /\ w'.version = w.version /\ w'.status = w.status
          /\ \A k \in Steps : w'.steps[k] = IF k = i THEN x ELSE w.steps[k]
      BY <2>1, <1>a, SetStepOnly
    <2>7. \A k \in Steps : k # i => /\ remote'[k] = remote[k] /\ threadDone'[k] = threadDone[k]
                                    /\ job'[k] = job[k]
      BY <2>1, <1>e
    <2>8. job[i] # "idle" /\ x.status # "pending" /\ sent' = sent
      BY <2>1, <2>2, <1>d
    <2>9. x.child /\ ~threadDone'[i] /\ remote'[i] \subseteq {x.turn}
      BY <2>1, <2>2, <2>3
    <2> QED
      BY <2>1, <2>2, <2>4, <2>5, <2>6, <2>7, <2>8, <2>9, DataWork
  <1>7. ASSUME NEW evidence \in BOOLEAN, JobAnswer(i, evidence)
        PROVE  DataInv'
    <2> DEFINE x == [Step(i) EXCEPT !.evidence = evidence]
    <2>1. /\ job[i] = (IF Provider[i] = "codex" THEN "streaming" ELSE "waiting")
          /\ job' = [job EXCEPT ![i] = "answered"] /\ SetStep(i, x)
          /\ threadDone' = [threadDone EXCEPT ![i] = TRUE]
          /\ remote' = [remote EXCEPT ![i] = @ \ {w.steps[i].task}]
          /\ UNCHANGED <<cmd, held, run, verdict, launches, sent>>
      BY <1>7, <1>a DEF JobAnswer, JobAt
    <2>2. /\ x.task = w.steps[i].task /\ x.status = w.steps[i].status
          /\ x.base = w.steps[i].base
      BY <1>a DEF StepState
    <2> HIDE DEF x
    <2>3. remote[i] \subseteq {w.steps[i].task}
      BY <2>1, <1>b, <1>c DEF WorkAt
    <2>4. remote'[i] = {}
      BY <2>1, <2>3, <1>e
    <2>5. CurrentBase(w', i)
      BY <2>1, <2>2, <1>b, <1>g DEF WorkAt
    <2>6. WorkAt(i)'
      BY <2>1, <2>4, <2>5, <1>e DEF WorkAt
    <2>7. \A k \in Steps : k # i => /\ remote'[k] = remote[k] /\ threadDone'[k] = threadDone[k]
                                    /\ job'[k] = job[k]
      BY <2>1, <1>e
    <2>8. job[i] # "idle"
      BY <2>1
    <2>9. /\ w'.history = w.history /\ w'.iteration = w.iteration
          /\ w'.version = w.version /\ w'.status = w.status
          /\ \A k \in Steps : w'.steps[k] = IF k = i THEN x ELSE w.steps[k]
      BY <2>1, <1>a, SetStepOnly
    <2>10. x.status # "pending" /\ sent' = sent
      BY <2>1, <2>2, <2>8, <1>d
    <2> QED
      BY <2>1, <2>2, <2>4, <2>5, <2>6, <2>7, <2>8, <2>9, <2>10, DataWork
  <1>8. CASE JobFinish(i)
    <2> DEFINE x == [Step(i) EXCEPT !.status = IF w.stop THEN "interrupted" ELSE "completed"]
    <2>1. /\ job[i] = "answered" /\ job' = [job EXCEPT ![i] = "returned"] /\ SetStep(i, x)
          /\ UNCHANGED <<threadDone, cmd, held, run, verdict, launches, remote, sent>>
      BY <1>8 DEF JobFinish, JobAt
    <2>2. /\ x.task = w.steps[i].task /\ x.status \in {"interrupted", "completed"}
          /\ x.child = w.steps[i].child /\ x.turn = w.steps[i].turn /\ x.base = w.steps[i].base
      BY <1>a DEF StepState
    <2> HIDE DEF x
    <2>3. CurrentBase(w', i)
      BY <2>1, <2>2, <1>b, <1>g DEF WorkAt
    <2>4. WorkAt(i)'
      BY <2>1, <2>3, <1>e DEF WorkAt
    <2> QED
      BY <2>1, <2>2, <2>3, <2>4, <1>a, <1>c, <1>e, SetStepOnly, DataWork
  <1>9. CASE JobReturn(i)
    <2>1. /\ job[i] = "returned" /\ job' = [job EXCEPT ![i] = "idle"]
          /\ UNCHANGED <<w, threadDone, cmd, held, run, verdict, launches, remote, sent>>
      BY <1>9 DEF JobReturn, JobAt
    <2>2. WorkAt(i)' /\ CurrentBase(w', i)
      BY <2>1, <1>b, <1>e DEF WorkAt
    <2>3. /\ w'.history = w.history /\ w'.iteration = w.iteration
          /\ w'.version = w.version /\ w'.status = w.status
          /\ \A k \in Steps : w'.steps[k] = IF k = i THEN w.steps[i] ELSE w.steps[k]
      BY <2>1
    <2> QED
      BY <2>1, <2>2, <2>3, <1>c, <1>d, <1>e, DataWork
  <1> QED
    BY <1>1, <1>2, <1>3, <1>4, <1>5, <1>6, <1>7, <1>8, <1>9 DEF JobStep

\* Every step of the system keeps the invariant.
LEMMA DataStep == IInv /\ DataInv /\ [Next]_vars => DataInv'
  <1> SUFFICES ASSUME IInv, DataInv, [Next]_vars PROVE DataInv'
    OBVIOUS
  <1>0. TypeOK
    BY DEF IInv
  <1>1. CASE UNCHANGED vars
    <2>1. UNCHANGED <<w, remote, threadDone, cmd, held, run, verdict, job, sent, launches>>
      BY <1>1 DEF vars, persisted, commands, runner, workers, codex, history
    <2> QED
      BY <2>1, SameWorkSelf, DataKept
  <1>2. CASE Next
    BY <1>0, <1>2, DataCommand, DataRunner, DataWorker, DataViewer, DataEnvironment DEF Next
  <1> QED
    BY <1>1, <1>2

-----------------------------------------------------------------------------
(* The theorems. *)

\* The data of the workflow stays sound: of the stored snapshot, and of every one that a
\* command, a run or a review still holds and will write back.
THEOREM DataCorrect == Spec => []DataInv
  <1>1. Init => DataInv
    BY DataInit
  <1>2. IInv /\ DataInv /\ [Next]_vars => DataInv'
    BY DataStep
  <1> QED
    BY <1>1, <1>2, IInvInvariant, PTL DEF Spec

\* An attempt that was sent is never lost or sent back to pending: it is in the current
\* snapshot or in the archive, and a pending step has an attempt that was never sent.
THEOREM AttemptsCorrect == Spec => []AttemptsKept
  <1>1. DataInv => AttemptsKept
    BY DEF DataInv, SnapshotInv, Sound, AttemptsOf, AttemptsKept
  <1> QED
    BY <1>1, DataCorrect, PTL

\* A resume is saved only when no turn of an earlier run is still active.
THEOREM QuietCorrect == Spec => []ResumeOnlyWhenQuiet
  <1>1. DataInv => ResumeOnlyWhenQuiet
    BY DEF DataInv, QuietInv, ResumeOnlyWhenQuiet
  <1> QED
    BY <1>1, DataCorrect, PTL

\* A completed step was made on top of the current attempts of all that it depends on,
\* and nothing below a step that is being worked on changes.
THEOREM InputsCorrect == Spec => []InputsAreCurrent
  <1>1. DataInv => InputsAreCurrent
    <2> SUFFICES ASSUME DataInv PROVE FreshInputs /\ StableInputs
      BY DEF InputsAreCurrent
    <2>1. BasesOf(w) /\ ArtifactOf(w)
      BY DEF DataInv, SnapshotInv, Sound
    <2>2. StableInputs
      BY DEF DataInv, BatchInv, StableInputs
    <2>3. \A i \in Steps : \A j \in ancestors[i] : j \in Steps
      BY AncestorsOf
    <2>4. FreshInputs
      BY <2>1, <2>3 DEF BasesOf, ArtifactOf, FreshInputs, CurrentBase, AllCompleted,
                        artifact_version
    <2> QED
      BY <2>2, <2>4
  <1> QED
    BY <1>1, DataCorrect, PTL

\* A workflow is completed only with a Pass for the artifact of the current attempts, each
\* with a successful verification.
THEOREM ReviewCorrect == Spec => []CompletedIsReviewed
  <1>1. DataInv => CompletedIsReviewed
    BY DEF DataInv, SnapshotInv, Sound, ArtifactOf, CompletedIsReviewed
  <1> QED
    BY <1>1, DataCorrect, PTL

\* No attempt is ever sent twice, whatever stops, resumes or restarts in between.
THEOREM NothingReplayed == Spec => NoReplay
  <1>1. DataInv /\ [Next]_vars =>
          [\A i \in Steps :
             job[i] = "attempted" /\ job'[i] = "waiting" => <<i, w.steps[i].task>> \notin sent]_vars
    BY DEF DataInv, WorkInv, WorkAt
  <1> QED
    BY <1>1, DataCorrect, PTL DEF Spec, NoReplay

===============================================================================
