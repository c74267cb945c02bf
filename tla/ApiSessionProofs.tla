-------------------------- MODULE ApiSessionProofs --------------------------
(***************************************************************************)
(* Proofs about ApiSession for every set of callers and every number of     *)
(* turns and restarts.                                                      *)
(***************************************************************************)
EXTENDS ApiSession, TLAPS

LEMMA ConstantTypes ==
  /\ NoTurn = 0
  /\ Turns \subseteq Nat \ {0}
  /\ \A n \in Turns : 1..n \subseteq Turns
  BY BoundAssumption DEF NoTurn, Turns

LEMMA TerminalType == \A r \in Results : Terminal(r) \in Ended
  BY DEF Results, Terminal, Ended

LEMMA ResolvedType ==
  ASSUME TypeOK, NEW t \in Turns, NEW status \in {"inProgress"} \cup Ended
  PROVE  Resolved(t, status)
           \in [Turns -> {"none", "dispatching", "inProgress"} \cup Ended]
  BY DEF TypeOK, Resolved, Ended

LEMMA WithOutcomeType ==
  ASSUME TypeOK, NEW t \in Turns,
         NEW status \in {"completed", "refused", "failed", "unrecorded", "interrupted"}
  PROVE  WithOutcome(t, status)
           \in [Turns -> {"none", "completed", "refused", "failed", "interrupted"}]
  BY DEF TypeOK, WithOutcome

LEMMA WithStatusType ==
  ASSUME TypeOK, NEW status \in Busy \cup Ended
  PROVE  WithStatus(status)
           \in [exists : BOOLEAN,
                status : {"idle", "reconciliation_required"} \cup Busy \cup Ended]
  BY DEF TypeOK, WithStatus

LEMMA TranscriptsType ==
  ASSUME TypeOK, NEW t \in Turns
  PROVE  Transcripts(t) \subseteq Seq([turn : Turns, role : {"user", "assistant"}])
  <1> DEFINE answer == [turn |-> t, role |-> "assistant"]
  <1>1. answer \in [turn : Turns, role : {"user", "assistant"}]
    OBVIOUS
  <1>2. messages \in Seq([turn : Turns, role : {"user", "assistant"}])
    BY DEF TypeOK
  <1>3. Append(messages, answer) \in Seq([turn : Turns, role : {"user", "assistant"}])
    BY <1>1, <1>2
  <1> QED
    BY <1>2, <1>3 DEF Transcripts, AnswerStored

\* What finish stores of turn t, and that it stores nothing of the others.
LEMMA FinishSaveRows ==
  ASSUME TypeOK, RowsHaveThread, FinishOrder, InterruptedOnly, NEW t \in Turns, FinishSave(t)
  PROVE  /\ result[t] \in Results /\ active' = NoTurn /\ result' = result
         /\ \A u \in Turns : u # t => turns'[u] = turns[u] /\ outcome'[u] = outcome[u]
         /\ \/ turns'[t] = "none"
            \/ turns'[t] = Terminal(result[t]) /\ outcome'[t] = result[t]
            \/ /\ turns'[t] = Terminal(result[t]) /\ result[t] = "unrecorded"
               /\ outcome'[t] \in {"none", "interrupted"}
  <1>1. task[t] = "answered" /\ result[t] \in Results
    BY DEF FinishSave, FinishOrder, Live
  <1>2. journal.ended[t] = "none"
    BY <1>1 DEF FinishOrder
  <1>3. turns' = IF turns[t] = "none" THEN turns ELSE [turns EXCEPT ![t] = Terminal(result[t])]
    BY <1>2 DEF FinishSave, Resolved
  <1>4. outcome' = IF thread.exists /\ result[t] # "unrecorded"
                   THEN [outcome EXCEPT ![t] = result[t]] ELSE outcome
    BY DEF FinishSave, WithOutcome
  <1>5. outcome[t] \in {"none", "interrupted"}
    BY <1>1 DEF InterruptedOnly
  <1> QED
    BY <1>1, <1>3, <1>4, <1>5 DEF FinishSave, TypeOK, RowsHaveThread

\* What an interrupt stores of the turn that the setting names.
LEMMA InterruptRows ==
  ASSUME TypeOK, RowsHaveThread, FinishOrder, NEW c \in Callers, InterruptSave(c)
  PROVE  /\ active' = NoTurn
         /\ \A u \in Turns : u # active => turns'[u] = turns[u] /\ outcome'[u] = outcome[u]
         /\ active # NoTurn =>
              turns'[active] = "none" \/ (turns'[active] = "interrupted"
                                            /\ outcome'[active] = "interrupted")
  <1>1. CASE active = NoTurn
    BY <1>1 DEF InterruptSave
  <1>2. CASE active # NoTurn
    <2>1. active \in Turns /\ journal.ended[active] = "none"
      BY <1>2 DEF TypeOK, FinishOrder
    <2>2. turns' = IF turns[active] = "none" THEN turns
                   ELSE [turns EXCEPT ![active] = "interrupted"]
      BY <1>2, <2>1 DEF InterruptSave, Resolved
    <2>3. outcome' = IF thread.exists THEN [outcome EXCEPT ![active] = "interrupted"]
                     ELSE outcome
      BY <1>2 DEF InterruptSave, WithOutcome
    <2> QED
      BY <1>2, <2>1, <2>2, <2>3 DEF InterruptSave, TypeOK, RowsHaveThread
  <1> QED
    BY <1>1, <1>2

\* Every action keeps the types; a start that saves has a turn.
LEMMA TypeStep ==
  ASSUME TypeOK, FreshTurns, FinishOrder, [Next]_vars
  PROVE  TypeOK'
  <1> USE ConstantTypes, CallerAssumption, BoundAssumption
  <1>1. ASSUME NEW c \in Callers, start(c) PROVE TypeOK'
    BY <1>1 DEF start, Goto, store, tasks, TypeOK, Points, Live, FreshTurns
  <1>2. ASSUME NEW c \in Callers, record_turn_intent(c) PROVE TypeOK'
    <2>1. CASE ~thread.exists
      <3>1. /\ pc' = [pc EXCEPT ![c] = "idle"] /\ owner' = None
            /\ UNCHANGED <<thread, turns, outcome, active, messages, journal, running, task,
                            aborted, result, history, mine, issued, crashes>>
        BY <1>2, <2>1 DEF record_turn_intent, Goto
      <3> QED
        BY <3>1 DEF TypeOK, Points
    <2>2. CASE thread.exists
      <3>1. /\ issued' \in Turns /\ issued' = issued + 1
            /\ turns' = [turns EXCEPT ![issued'] = "dispatching"]
            /\ mine' = [mine EXCEPT ![c] = issued']
            /\ history' = [history EXCEPT ![issued'] = Len(messages) + 1]
            /\ pc' = [pc EXCEPT ![c] = "startSave"] /\ owner' = owner
        BY <1>2, <2>2 DEF record_turn_intent, Goto
      <3>2. history' \in [Turns -> Nat]
        <4>1. messages \in Seq([turn : Turns, role : {"user", "assistant"}])
          BY DEF TypeOK
        <4>2. Len(messages) + 1 \in Nat
          BY <4>1
        <4> QED
          BY <3>1, <4>2 DEF TypeOK
      <3>3. /\ thread' = thread /\ outcome' = outcome /\ active' = active
            /\ messages' = messages /\ journal' = journal /\ running' = running
            /\ task' = task /\ aborted' = aborted /\ result' = result
            /\ crashes' = crashes
        BY <1>2 DEF record_turn_intent
      <3> QED
        BY <3>1, <3>2, <3>3 DEF TypeOK, Ended, Points
    <2> QED
      BY <2>1, <2>2
  <1>3. ASSUME NEW c \in Callers, StartSave(c) PROVE TypeOK'
    <2>1. mine[c] \in Turns
      BY <1>3 DEF StartSave, FreshTurns, TypeOK
    <2>2. turns' \in [Turns -> {"none", "dispatching", "inProgress"} \cup Ended]
      BY <1>3, <2>1, ResolvedType DEF StartSave
    <2>3. messages' \in Seq([turn : Turns, role : {"user", "assistant"}])
      BY <1>3, <2>1 DEF StartSave, TypeOK
    <2> QED
      BY <1>3, <2>1, <2>2, <2>3 DEF StartSave, Goto, tasks, TypeOK, Busy, Points
  <1>4. ASSUME NEW c \in Callers, StartSpawn(c) PROVE TypeOK'
    BY <1>4 DEF StartSpawn, Goto, TurnPublished, WithStatus, TypeOK, Ended, Busy, Results,
         Terminal, Points, Live, FreshTurns, FinishOrder
  <1>5. ASSUME NEW c \in Callers, interrupt(c) PROVE TypeOK'
    BY <1>5 DEF interrupt, Goto, store, TypeOK, Points, Live, FreshTurns
  <1>6. ASSUME NEW c \in Callers, InterruptSave(c) PROVE TypeOK'
    <2>1. turns' \in [Turns -> {"none", "dispatching", "inProgress"} \cup Ended]
      BY <1>6, ResolvedType DEF InterruptSave, TypeOK, Ended
    <2>2. outcome' \in [Turns -> {"none", "completed", "refused", "failed", "interrupted"}]
      BY <1>6, WithOutcomeType DEF InterruptSave, TypeOK
    <2>3. thread' \in [exists : BOOLEAN,
                       status : {"idle", "reconciliation_required"} \cup Busy \cup Ended]
      BY <1>6, WithStatusType DEF InterruptSave, Ended
    <2> QED
      BY <1>6, <2>1, <2>2, <2>3 DEF InterruptSave, Goto, tasks, TypeOK, Points
  <1>7. ASSUME NEW c \in Callers, InterruptPublish(c) PROVE TypeOK'
    BY <1>7 DEF InterruptPublish, Goto, tasks, WithStatus, TypeOK, Ended, Busy, Results,
         Terminal, Points, Live, FreshTurns, FinishOrder
  <1>8. ASSUME NEW c \in Callers, resume(c) PROVE TypeOK'
    BY <1>8 DEF resume, Goto, store, tasks, TypeOK, Points, Live, FreshTurns
  <1>9. ASSUME NEW c \in Callers, ResumeCheck(c) PROVE TypeOK'
    BY <1>9 DEF ResumeCheck, Goto, store, tasks, TypeOK, Points, Live, FreshTurns
  <1>10. ASSUME NEW c \in Callers, ResumeSave(c) PROVE TypeOK'
    BY <1>10 DEF ResumeSave, Goto, tasks, TypeOK, Points, Live, FreshTurns
  <1>11. ASSUME NEW t \in Turns, Answer(t) PROVE TypeOK'
    BY <1>11 DEF Answer, store, TypeOK, Points, Live, FreshTurns
  <1>12. ASSUME NEW t \in Turns, FinishSave(t) PROVE TypeOK'
    <2>1. result[t] \in Results /\ Terminal(result[t]) \in Ended
      BY <1>12, TerminalType DEF FinishSave, FinishOrder, Live
    <2>2. turns' \in [Turns -> {"none", "dispatching", "inProgress"} \cup Ended]
      BY <1>12, <2>1, ResolvedType DEF FinishSave
    <2>3. outcome' \in [Turns -> {"none", "completed", "refused", "failed", "interrupted"}]
      BY <1>12, <2>1, WithOutcomeType DEF FinishSave, Results
    <2>4. thread' \in [exists : BOOLEAN,
                       status : {"idle", "reconciliation_required"} \cup Busy \cup Ended]
      BY <1>12, <2>1, WithStatusType DEF FinishSave
    <2>5. messages' \in Seq([turn : Turns, role : {"user", "assistant"}])
      BY <1>12, TranscriptsType DEF FinishSave
    <2> QED
      BY <1>12, <2>2, <2>3, <2>4, <2>5 DEF FinishSave, TypeOK, Live
  <1>13. ASSUME NEW t \in Turns, FinishPublish(t) PROVE TypeOK'
    BY <1>13 DEF FinishPublish, TurnPublished, WithStatus, TypeOK, Ended, Busy, Results,
         Terminal, Points, Live, FreshTurns, FinishOrder
  <1>14. ASSUME NEW t \in Turns, FinishRemove(t) PROVE TypeOK'
    BY <1>14 DEF FinishRemove, store, TypeOK
  <1>15. ASSUME NEW t \in Turns, Aborted(t) PROVE TypeOK'
    BY <1>15 DEF Aborted, store, TypeOK
  <1>16. ASSUME delete_thread PROVE TypeOK'
    BY <1>16 DEF delete_thread, tasks, TypeOK
  <1>17. ASSUME Crash PROVE TypeOK'
    BY <1>17 DEF Crash, store, TypeOK, Points, Live, FreshTurns
  <1>18. CASE UNCHANGED vars
    BY <1>18 DEF vars, TypeOK
  <1> QED
    BY <1>1, <1>2, <1>3, <1>4, <1>5, <1>6, <1>7, <1>8, <1>9, <1>10, <1>11, <1>12, <1>13,
         <1>14, <1>15, <1>16, <1>17, <1>18 DEF Next, Command, Task

\* The mutex keeps everybody else out of `running' during a start.
LEMMA StartsAloneStep ==
  ASSUME TypeOK, StartsAlone, [Next]_vars
  PROVE  StartsAlone'
  <1> USE ConstantTypes, CallerAssumption
  <1>1. ASSUME NEW c \in Callers, start(c) PROVE StartsAlone'
    BY <1>1 DEF start, Goto, store, tasks, StartsAlone
  <1>2. ASSUME NEW c \in Callers, record_turn_intent(c) PROVE StartsAlone'
    BY <1>2 DEF record_turn_intent, Goto, StartsAlone, TypeOK, Starting, Points
  <1>3. ASSUME NEW c \in Callers, StartSave(c) PROVE StartsAlone'
    BY <1>3 DEF StartSave, Goto, tasks, Resolved, StartsAlone, TypeOK, Starting, Points
  <1>4. ASSUME NEW c \in Callers, StartSpawn(c) PROVE StartsAlone'
    BY <1>4 DEF StartSpawn, Goto, TurnPublished, WithStatus, StartsAlone, TypeOK, Starting,
         Points
  <1>5. ASSUME NEW c \in Callers, interrupt(c) PROVE StartsAlone'
    BY <1>5 DEF interrupt, Goto, store, StartsAlone, TypeOK, Starting, Points
  <1>6. ASSUME NEW c \in Callers, InterruptSave(c) PROVE StartsAlone'
    BY <1>6 DEF InterruptSave, Goto, tasks, Resolved, WithOutcome, WithStatus, StartsAlone,
         TypeOK, Starting, Points
  <1>7. ASSUME NEW c \in Callers, InterruptPublish(c) PROVE StartsAlone'
    BY <1>7 DEF InterruptPublish, Goto, tasks, WithStatus, StartsAlone, TypeOK, Starting, Points
  <1>8. ASSUME NEW c \in Callers, resume(c) PROVE StartsAlone'
    BY <1>8 DEF resume, Goto, store, tasks, StartsAlone, TypeOK, Starting, Points
  <1>9. ASSUME NEW c \in Callers, ResumeCheck(c) PROVE StartsAlone'
    BY <1>9 DEF ResumeCheck, Goto, store, tasks, StartsAlone, TypeOK, Starting, Points
  <1>10. ASSUME NEW c \in Callers, ResumeSave(c) PROVE StartsAlone'
    BY <1>10 DEF ResumeSave, Goto, tasks, StartsAlone, TypeOK, Starting, Points
  <1>11. ASSUME NEW t \in Turns, Answer(t) PROVE StartsAlone'
    BY <1>11 DEF Answer, store, StartsAlone
  <1>12. ASSUME NEW t \in Turns, FinishSave(t) PROVE StartsAlone'
    BY <1>12 DEF FinishSave, StartsAlone
  <1>13. ASSUME NEW t \in Turns, FinishPublish(t) PROVE StartsAlone'
    BY <1>13 DEF FinishPublish, StartsAlone
  <1>14. ASSUME NEW t \in Turns, FinishRemove(t) PROVE StartsAlone'
    BY <1>14 DEF FinishRemove, store, StartsAlone
  <1>15. ASSUME NEW t \in Turns, Aborted(t) PROVE StartsAlone'
    BY <1>15 DEF Aborted, store, StartsAlone
  <1>16. ASSUME delete_thread PROVE StartsAlone'
    BY <1>16 DEF delete_thread, tasks, StartsAlone
  <1>17. ASSUME Crash PROVE StartsAlone'
    BY <1>17 DEF Crash, store, StartsAlone, TypeOK, Starting, Points
  <1>18. CASE UNCHANGED vars
    BY <1>18 DEF vars, StartsAlone
  <1> QED
    BY <1>1, <1>2, <1>3, <1>4, <1>5, <1>6, <1>7, <1>8, <1>9, <1>10, <1>11, <1>12, <1>13,
         <1>14, <1>15, <1>16, <1>17, <1>18 DEF Next, Command, Task

\* A turn gets its row while the thread exists, and loses it with the thread.
LEMMA RowsStep ==
  ASSUME TypeOK, FreshTurns, RowsHaveThread, [Next]_vars
  PROVE  RowsHaveThread'
  <1> USE ConstantTypes
  <1>1. ASSUME NEW c \in Callers, start(c) PROVE RowsHaveThread'
    BY <1>1 DEF start, Goto, store, tasks, RowsHaveThread
  <1>2. ASSUME NEW c \in Callers, record_turn_intent(c) PROVE RowsHaveThread'
    BY <1>2 DEF record_turn_intent, Goto, RowsHaveThread
  <1>3. ASSUME NEW c \in Callers, StartSave(c) PROVE RowsHaveThread'
    BY <1>3 DEF StartSave, Goto, tasks, RowsHaveThread
  <1>4. ASSUME NEW c \in Callers, StartSpawn(c) PROVE RowsHaveThread'
    BY <1>4 DEF StartSpawn, Goto, TurnPublished, WithStatus, RowsHaveThread, TypeOK
  <1>5. ASSUME NEW c \in Callers, interrupt(c) PROVE RowsHaveThread'
    BY <1>5 DEF interrupt, Goto, store, RowsHaveThread
  <1>6. ASSUME NEW c \in Callers, InterruptSave(c) PROVE RowsHaveThread'
    BY <1>6 DEF InterruptSave, Goto, tasks, Resolved, WithOutcome, WithStatus, RowsHaveThread,
         TypeOK
  <1>7. ASSUME NEW c \in Callers, InterruptPublish(c) PROVE RowsHaveThread'
    BY <1>7 DEF InterruptPublish, Goto, tasks, WithStatus, RowsHaveThread, TypeOK
  <1>8. ASSUME NEW c \in Callers, resume(c) PROVE RowsHaveThread'
    BY <1>8 DEF resume, Goto, store, tasks, RowsHaveThread
  <1>9. ASSUME NEW c \in Callers, ResumeCheck(c) PROVE RowsHaveThread'
    BY <1>9 DEF ResumeCheck, Goto, store, tasks, RowsHaveThread
  <1>10. ASSUME NEW c \in Callers, ResumeSave(c) PROVE RowsHaveThread'
    BY <1>10 DEF ResumeSave, Goto, tasks, RowsHaveThread
  <1>11. ASSUME NEW t \in Turns, Answer(t) PROVE RowsHaveThread'
    BY <1>11 DEF Answer, store, RowsHaveThread
  <1>12. ASSUME NEW t \in Turns, FinishSave(t) PROVE RowsHaveThread'
    BY <1>12 DEF FinishSave, Resolved, WithOutcome, WithStatus, Transcripts, RowsHaveThread,
         TypeOK
  <1>13. ASSUME NEW t \in Turns, FinishPublish(t) PROVE RowsHaveThread'
    BY <1>13 DEF FinishPublish, TurnPublished, WithStatus, RowsHaveThread, TypeOK
  <1>14. ASSUME NEW t \in Turns, FinishRemove(t) PROVE RowsHaveThread'
    BY <1>14 DEF FinishRemove, store, RowsHaveThread
  <1>15. ASSUME NEW t \in Turns, Aborted(t) PROVE RowsHaveThread'
    BY <1>15 DEF Aborted, store, RowsHaveThread
  <1>16. ASSUME delete_thread PROVE RowsHaveThread'
    BY <1>16 DEF delete_thread, tasks, RowsHaveThread
  <1>17. ASSUME Crash PROVE RowsHaveThread'
    BY <1>17 DEF Crash, store, RowsHaveThread
  <1>18. CASE UNCHANGED vars
    BY <1>18 DEF vars, TypeOK, RowsHaveThread
  <1> QED
    BY <1>1, <1>2, <1>3, <1>4, <1>5, <1>6, <1>7, <1>8, <1>9, <1>10, <1>11, <1>12, <1>13,
         <1>14, <1>15, <1>16, <1>17, <1>18 DEF Next, Command, Task

\* A turn has no trace before it is started.
LEMMA FreshTurnsStep ==
  ASSUME TypeOK, StartsAlone, FreshTurns, TrackedIsLive, [Next]_vars
  PROVE  FreshTurns'
  <1> USE ConstantTypes, CallerAssumption
  <1>1. ASSUME NEW c \in Callers, start(c) PROVE FreshTurns'
    BY SMTT(30), <1>1 DEF start, Goto, store, tasks, FreshTurns, TypeOK, Starting, Untouched, Live, Points
  <1>2. ASSUME NEW c \in Callers, record_turn_intent(c) PROVE FreshTurns'
    BY SMTT(30), <1>2 DEF record_turn_intent, Goto, FreshTurns, TypeOK, Starting, Untouched, Live, Points
  <1>3. ASSUME NEW c \in Callers, StartSave(c) PROVE FreshTurns'
    BY <1>3 DEF StartSave, Goto, tasks, Resolved, TypeOK, StartsAlone, Starting, FreshTurns,
         Untouched, TrackedIsLive, Live, Ended, Points
  <1>4. ASSUME NEW c \in Callers, StartSpawn(c) PROVE FreshTurns'
    BY <1>4 DEF StartSpawn, Goto, TurnPublished, WithStatus, TypeOK, StartsAlone, Starting,
         FreshTurns, Untouched, TrackedIsLive, Live, Ended, Points
  <1>5. ASSUME NEW c \in Callers, interrupt(c) PROVE FreshTurns'
    BY <1>5 DEF interrupt, Goto, store, TypeOK, StartsAlone, Starting, FreshTurns, Untouched,
         TrackedIsLive, Live, Ended, Points
  <1>6. ASSUME NEW c \in Callers, InterruptSave(c) PROVE FreshTurns'
    BY <1>6 DEF InterruptSave, Goto, tasks, Resolved, WithOutcome, WithStatus, FreshTurns,
         TypeOK, Starting, Untouched, Live, Points
  <1>7. ASSUME NEW c \in Callers, InterruptPublish(c) PROVE FreshTurns'
    BY <1>7 DEF InterruptPublish, Goto, tasks, WithStatus, FreshTurns, TypeOK, Starting,
         Untouched, Live, Points
  <1>8. ASSUME NEW c \in Callers, resume(c) PROVE FreshTurns'
    BY <1>8 DEF resume, Goto, store, tasks, FreshTurns, TypeOK, Starting, Untouched, Live,
         Points
  <1>9. ASSUME NEW c \in Callers, ResumeCheck(c) PROVE FreshTurns'
    BY <1>9 DEF ResumeCheck, Goto, store, tasks, FreshTurns, TypeOK, Starting, Untouched,
         Live, Points
  <1>10. ASSUME NEW c \in Callers, ResumeSave(c) PROVE FreshTurns'
    BY <1>10 DEF ResumeSave, Goto, tasks, FreshTurns, TypeOK, Starting, Untouched, Live, Points
  <1>11. ASSUME NEW t \in Turns, Answer(t) PROVE FreshTurns'
    BY <1>11 DEF Answer, store, FreshTurns, TypeOK, Starting, Untouched, Live, Points
  <1>12. ASSUME NEW t \in Turns, FinishSave(t) PROVE FreshTurns'
    BY <1>12 DEF FinishSave, Resolved, WithOutcome, WithStatus, Transcripts, FreshTurns,
         TypeOK, Starting, Untouched, Live, Points
  <1>13. ASSUME NEW t \in Turns, FinishPublish(t) PROVE FreshTurns'
    BY <1>13 DEF FinishPublish, TurnPublished, WithStatus, FreshTurns, TypeOK, Starting,
         Untouched, Live, Points
  <1>14. ASSUME NEW t \in Turns, FinishRemove(t) PROVE FreshTurns'
    BY <1>14 DEF FinishRemove, store, FreshTurns, TypeOK, Starting, Untouched, Live, Points
  <1>15. ASSUME NEW t \in Turns, Aborted(t) PROVE FreshTurns'
    BY <1>15 DEF Aborted, store, FreshTurns, TypeOK, Starting, Untouched, Live, Points
  <1>16. ASSUME delete_thread PROVE FreshTurns'
    BY <1>16 DEF delete_thread, tasks, check_thread_idle, FreshTurns, TypeOK, Starting,
         Untouched, Live, Points
  <1>17. ASSUME Crash PROVE FreshTurns'
    BY <1>17 DEF Crash, store, FreshTurns, TypeOK, Starting, Untouched, Live, Points
  <1>18. CASE UNCHANGED vars
    BY <1>18 DEF vars, FreshTurns, TypeOK, Starting, Untouched, Live, Points
  <1> QED
    BY <1>1, <1>2, <1>3, <1>4, <1>5, <1>6, <1>7, <1>8, <1>9, <1>10, <1>11, <1>12, <1>13,
         <1>14, <1>15, <1>16, <1>17, <1>18 DEF Next, Command, Task

\* Only live tasks are registered.
LEMMA TrackedStep ==
  ASSUME TypeOK, StartsAlone, FreshTurns, TrackedIsLive, [Next]_vars
  PROVE  TrackedIsLive'
  <1> USE ConstantTypes
  <1>1. ASSUME NEW c \in Callers, start(c) PROVE TrackedIsLive'
    BY <1>1 DEF start, Goto, store, tasks, TrackedIsLive
  <1>2. ASSUME NEW c \in Callers, record_turn_intent(c) PROVE TrackedIsLive'
    BY <1>2 DEF record_turn_intent, Goto, TrackedIsLive
  <1>3. ASSUME NEW c \in Callers, StartSave(c) PROVE TrackedIsLive'
    BY <1>3 DEF StartSave, Goto, tasks, TrackedIsLive
  <1>4. ASSUME NEW c \in Callers, StartSpawn(c) PROVE TrackedIsLive'
    BY <1>4 DEF StartSpawn, Goto, TurnPublished, WithStatus, TrackedIsLive, TypeOK, Starting,
         FreshTurns, Untouched, Live
  <1>5. ASSUME NEW c \in Callers, interrupt(c) PROVE TrackedIsLive'
    BY <1>5 DEF interrupt, Goto, store, TrackedIsLive
  <1>6. ASSUME NEW c \in Callers, InterruptSave(c) PROVE TrackedIsLive'
    BY <1>6 DEF InterruptSave, Goto, tasks, TrackedIsLive
  <1>7. ASSUME NEW c \in Callers, InterruptPublish(c) PROVE TrackedIsLive'
    BY <1>7 DEF InterruptPublish, Goto, tasks, TrackedIsLive
  <1>8. ASSUME NEW c \in Callers, resume(c) PROVE TrackedIsLive'
    BY <1>8 DEF resume, Goto, store, tasks, TrackedIsLive
  <1>9. ASSUME NEW c \in Callers, ResumeCheck(c) PROVE TrackedIsLive'
    BY <1>9 DEF ResumeCheck, Goto, store, tasks, TrackedIsLive
  <1>10. ASSUME NEW c \in Callers, ResumeSave(c) PROVE TrackedIsLive'
    BY <1>10 DEF ResumeSave, Goto, tasks, TrackedIsLive
  <1>11. ASSUME NEW t \in Turns, Answer(t) PROVE TrackedIsLive'
    BY <1>11 DEF Answer, store, TrackedIsLive, TypeOK, Starting, FreshTurns, Untouched, Live
  <1>12. ASSUME NEW t \in Turns, FinishSave(t) PROVE TrackedIsLive'
    BY <1>12 DEF FinishSave, Resolved, WithOutcome, WithStatus, Transcripts, TrackedIsLive,
         TypeOK, Starting, FreshTurns, Untouched, Live
  <1>13. ASSUME NEW t \in Turns, FinishPublish(t) PROVE TrackedIsLive'
    BY <1>13 DEF FinishPublish, TurnPublished, WithStatus, TrackedIsLive, TypeOK, Starting,
         FreshTurns, Untouched, Live
  <1>14. ASSUME NEW t \in Turns, FinishRemove(t) PROVE TrackedIsLive'
    BY <1>14 DEF FinishRemove, store, TrackedIsLive
  <1>15. ASSUME NEW t \in Turns, Aborted(t) PROVE TrackedIsLive'
    BY <1>15 DEF Aborted, store, TrackedIsLive
  <1>16. ASSUME delete_thread PROVE TrackedIsLive'
    BY <1>16 DEF delete_thread, tasks, TrackedIsLive
  <1>17. ASSUME Crash PROVE TrackedIsLive'
    BY <1>17 DEF Crash, store, TrackedIsLive
  <1>18. CASE UNCHANGED vars
    BY <1>18 DEF vars, TrackedIsLive
  <1> QED
    BY <1>1, <1>2, <1>3, <1>4, <1>5, <1>6, <1>7, <1>8, <1>9, <1>10, <1>11, <1>12, <1>13,
         <1>14, <1>15, <1>16, <1>17, <1>18 DEF Next, Command, Task

\* Outcome, setting and completion are written in this order.
LEMMA FinishOrderStep ==
  ASSUME TypeOK, RowsHaveThread, FreshTurns, FinishOrder, InterruptedOnly, OutcomeAgrees,
         [Next]_vars
  PROVE  FinishOrder'
  <1> USE ConstantTypes
  <1>1. ASSUME NEW c \in Callers, start(c) PROVE FinishOrder'
    BY <1>1 DEF start, Goto, store, tasks, FinishOrder
  <1>2. ASSUME NEW c \in Callers, record_turn_intent(c) PROVE FinishOrder'
    BY <1>2 DEF record_turn_intent, Goto, FinishOrder, TypeOK, FreshTurns, Untouched, Live
  <1>3. ASSUME NEW c \in Callers, StartSave(c) PROVE FinishOrder'
    BY <1>3 DEF StartSave, Goto, tasks, Resolved, FinishOrder, TypeOK, FreshTurns, Untouched,
         Live
  <1>4. ASSUME NEW c \in Callers, StartSpawn(c) PROVE FinishOrder'
    BY <1>4 DEF StartSpawn, Goto, TurnPublished, WithStatus, FinishOrder, TypeOK, FreshTurns,
         Untouched, Live
  <1>5. ASSUME NEW c \in Callers, interrupt(c) PROVE FinishOrder'
    BY <1>5 DEF interrupt, Goto, store, FinishOrder
  <1>6. ASSUME NEW c \in Callers, InterruptSave(c) PROVE FinishOrder'
    <2>1. task' = task /\ journal' = journal /\ result' = result /\ active' = NoTurn
      BY <1>6 DEF InterruptSave, tasks
    <2>2. ASSUME NEW u \in Turns, task'[u] = "saved", turns'[u] # "none", outcome'[u] # "none"
           PROVE  \/ Terminal(outcome'[u]) = Terminal(result'[u])
                  \/ result'[u] = "unrecorded" /\ outcome'[u] = "interrupted"
      <3>1. u # active
        BY <2>1, <2>2 DEF FinishOrder
      <3>2. turns'[u] = turns[u] /\ outcome'[u] = outcome[u]
        BY <1>6, <3>1, InterruptRows
      <3> QED
        BY <2>1, <2>2, <3>2 DEF FinishOrder
    <2> QED
      BY <2>1, <2>2 DEF FinishOrder
  <1>7. ASSUME NEW c \in Callers, InterruptPublish(c) PROVE FinishOrder'
    BY <1>7 DEF InterruptPublish, Goto, tasks, FinishOrder
  <1>8. ASSUME NEW c \in Callers, resume(c) PROVE FinishOrder'
    BY <1>8 DEF resume, Goto, store, tasks, FinishOrder
  <1>9. ASSUME NEW c \in Callers, ResumeCheck(c) PROVE FinishOrder'
    BY <1>9 DEF ResumeCheck, Goto, store, tasks, FinishOrder
  <1>10. ASSUME NEW c \in Callers, ResumeSave(c) PROVE FinishOrder'
    BY <1>10 DEF ResumeSave, Goto, tasks, FinishOrder
  <1>11. ASSUME NEW t \in Turns, Answer(t) PROVE FinishOrder'
    BY <1>11 DEF Answer, store, FinishOrder, TypeOK
  <1>12. ASSUME NEW t \in Turns, FinishSave(t) PROVE FinishOrder'
    <2>1. /\ task' = [task EXCEPT ![t] = "saved"] /\ task[t] = "answered" /\ active' = NoTurn
          /\ journal' = journal /\ result' = result
      BY <1>12 DEF FinishSave
    <2>2. /\ \A u \in Turns : journal'.ended[u] # "none" => task'[u] \in {"published", "gone"}
          /\ \A u \in Turns : task'[u] \in Live \ {"agent"} => result'[u] \in Results
      BY <2>1 DEF TypeOK, FinishOrder, Live
    <2>3. ASSUME NEW u \in Turns, task'[u] = "saved", turns'[u] # "none", outcome'[u] # "none"
           PROVE  \/ Terminal(outcome'[u]) = Terminal(result'[u])
                  \/ result'[u] = "unrecorded" /\ outcome'[u] = "interrupted"
      <3>1. CASE u = t
        BY <1>12, <2>1, <2>3, <3>1, FinishSaveRows
      <3>2. CASE u # t
        <4>1. turns'[u] = turns[u] /\ outcome'[u] = outcome[u]
          BY <1>12, <3>2, FinishSaveRows
        <4>2. task[u] = "saved" /\ result'[u] = result[u]
          BY <2>1, <2>3, <3>2 DEF TypeOK
        <4> QED
          BY <2>3, <4>1, <4>2 DEF FinishOrder
      <3> QED
        BY <3>1, <3>2
    <2> QED
      BY <2>1, <2>2, <2>3 DEF FinishOrder
  <1>13. ASSUME NEW t \in Turns, FinishPublish(t) PROVE FinishOrder'
    <2>1. /\ task[t] = "saved" /\ task' = [task EXCEPT ![t] = "published"]
          /\ journal' = [journal EXCEPT !.ended[t] = Terminal(result[t])]
          /\ UNCHANGED <<active, outcome, result>>
      BY <1>13 DEF FinishPublish
    <2>2. \A u \in Turns : u # t => task'[u] = task[u] /\ journal'.ended[u] = journal.ended[u] /\ turns'[u] = turns[u]
      BY <1>13, <2>1 DEF FinishPublish, TurnPublished, TypeOK
    <2>3. task'[t] = "published" /\ active # t
      BY <2>1 DEF TypeOK, FinishOrder
    <2>4. active # NoTurn => active \in Turns
      BY DEF TypeOK
    <2>5. result[t] \in Results
      BY <2>1 DEF FinishOrder, Live
    <2> QED
      BY <2>1, <2>2, <2>3, <2>4, <2>5 DEF FinishOrder
  <1>14. ASSUME NEW t \in Turns, FinishRemove(t) PROVE FinishOrder'
    BY <1>14 DEF FinishRemove, store, FinishOrder, TypeOK
  <1>15. ASSUME NEW t \in Turns, Aborted(t) PROVE FinishOrder'
    BY <1>15 DEF Aborted, store, FinishOrder, TypeOK, FreshTurns, Untouched, Live
  <1>16. ASSUME delete_thread PROVE FinishOrder'
    BY <1>16 DEF delete_thread, tasks, FinishOrder
  <1>17. ASSUME Crash PROVE FinishOrder'
    <2>1. UNCHANGED <<journal, active, result, turns, outcome>>
      BY <1>17 DEF Crash, store
    <2>2. \A u \in Turns : task'[u] \in {"none", "gone"} /\ (task[u] # "none" => task'[u] = "gone")
      BY <1>17 DEF Crash
    <2>3. active # NoTurn => active \in Turns
      BY DEF TypeOK
    <2> QED
      BY <2>1, <2>2, <2>3 DEF FinishOrder, Live
  <1>18. CASE UNCHANGED vars
    <2>1. UNCHANGED <<journal, active, task, result, turns, outcome>>
      BY <1>18 DEF vars
    <2> QED
      BY <2>1 DEF FinishOrder
  <1> QED
    BY <1>1, <1>2, <1>3, <1>4, <1>5, <1>6, <1>7, <1>8, <1>9, <1>10, <1>11, <1>12, <1>13,
         <1>14, <1>15, <1>16, <1>17, <1>18 DEF Next, Command, Task

\* A turn that is not finished has no outcome but that of an interrupt.
LEMMA InterruptedOnlyStep ==
  ASSUME TypeOK, RowsHaveThread, FreshTurns, FinishOrder, InterruptedOnly, [Next]_vars
  PROVE  InterruptedOnly'
  <1> USE ConstantTypes
  <1>1. ASSUME NEW c \in Callers, start(c) \/ resume(c) \/ ResumeCheck(c) PROVE InterruptedOnly'
    BY <1>1 DEF start, resume, ResumeCheck, store, tasks, InterruptedOnly
  <1>2. ASSUME NEW c \in Callers, record_turn_intent(c) PROVE InterruptedOnly'
    BY <1>2 DEF record_turn_intent, InterruptedOnly
  <1>3. ASSUME NEW c \in Callers,
               StartSave(c) \/ InterruptPublish(c) \/ ResumeSave(c)
        PROVE  InterruptedOnly'
    BY <1>3 DEF StartSave, InterruptPublish, ResumeSave, tasks, InterruptedOnly
  <1>4. ASSUME NEW c \in Callers, StartSpawn(c) PROVE InterruptedOnly'
    <2>1. /\ task' = [task EXCEPT ![mine[c]] = "agent"] /\ UNCHANGED <<outcome, result>>
          /\ pc[c] = "startSpawn"
      BY <1>4 DEF StartSpawn
    <2>2. mine[c] \in Turns /\ task[mine[c]] = "none"
      BY <2>1 DEF FreshTurns, Untouched, TypeOK
    <2> QED
      BY <2>1, <2>2 DEF InterruptedOnly, TypeOK
  <1>5. ASSUME NEW c \in Callers, interrupt(c) PROVE InterruptedOnly'
    BY <1>5 DEF interrupt, store, InterruptedOnly
  <1>6. ASSUME NEW c \in Callers, InterruptSave(c) PROVE InterruptedOnly'
    <2>1. UNCHANGED <<task, result>>
      BY <1>6 DEF InterruptSave, tasks
    <2>2. \A t \in Turns : outcome'[t] \in {outcome[t], "interrupted"}
      BY <1>6 DEF InterruptSave, WithOutcome, TypeOK
    <2> QED
      BY <2>1, <2>2 DEF InterruptedOnly
  <1>7. ASSUME NEW t \in Turns, Answer(t) PROVE InterruptedOnly'
    BY <1>7 DEF Answer, store, InterruptedOnly, TypeOK
  <1>8. ASSUME NEW t \in Turns, FinishSave(t) PROVE InterruptedOnly'
    <2>1. task' = [task EXCEPT ![t] = "saved"] /\ result' = result
      BY <1>8 DEF FinishSave
    <2>2. /\ \A u \in Turns : u # t => outcome'[u] = outcome[u]
          /\ result[t] = "unrecorded" => outcome'[t] = outcome[t]
      BY <1>8 DEF FinishSave, WithOutcome, TypeOK
    <2> QED
      BY <2>1, <2>2 DEF InterruptedOnly, TypeOK
  <1>9. ASSUME NEW t \in Turns, FinishPublish(t) \/ FinishRemove(t) \/ Aborted(t)
        PROVE  InterruptedOnly'
    <2>1. /\ \/ task' = [task EXCEPT ![t] = "published"]
             \/ task' = [task EXCEPT ![t] = "gone"]
          /\ UNCHANGED <<outcome, result>>
      BY <1>9 DEF FinishPublish, FinishRemove, Aborted, store
    <2> QED
      BY <2>1 DEF InterruptedOnly, TypeOK
  <1>10. CASE delete_thread
    BY <1>10 DEF delete_thread, tasks, InterruptedOnly
  <1>11. CASE Crash
    BY <1>11 DEF Crash, store, InterruptedOnly
  <1>12. CASE UNCHANGED vars
    BY <1>12 DEF vars, InterruptedOnly
  <1> QED
    BY <1>1, <1>2, <1>3, <1>4, <1>5, <1>6, <1>7, <1>8, <1>9, <1>10, <1>11, <1>12
       DEF Next, Command, Task

\* Both records of an end are written together.
LEMMA OutcomeStep ==
  ASSUME TypeOK, RowsHaveThread, FreshTurns, FinishOrder, InterruptedOnly, OutcomeAgrees,
         [Next]_vars
  PROVE  OutcomeAgrees'
  <1> USE ConstantTypes
  <1>1. ASSUME NEW c \in Callers, start(c) PROVE OutcomeAgrees'
    BY <1>1 DEF start, Goto, store, tasks, OutcomeAgrees
  <1>2. ASSUME NEW c \in Callers, record_turn_intent(c) PROVE OutcomeAgrees'
    BY <1>2 DEF record_turn_intent, Goto, OutcomeAgrees, TypeOK, FreshTurns, Untouched, Live
  <1>3. ASSUME NEW c \in Callers, StartSave(c) PROVE OutcomeAgrees'
    BY <1>3 DEF StartSave, Goto, tasks, Resolved, OutcomeAgrees, TypeOK, FreshTurns,
         Untouched, Live
  <1>4. ASSUME NEW c \in Callers, StartSpawn(c) PROVE OutcomeAgrees'
    BY <1>4 DEF StartSpawn, Goto, TurnPublished, WithStatus, TypeOK, FreshTurns, Untouched,
         FinishOrder, OutcomeAgrees, Live, Ended, Results, Terminal
  <1>5. ASSUME NEW c \in Callers, interrupt(c) PROVE OutcomeAgrees'
    BY <1>5 DEF interrupt, Goto, store, OutcomeAgrees
  <1>6. ASSUME NEW c \in Callers, InterruptSave(c) PROVE OutcomeAgrees'
    <2>1. result' = result
      BY <1>6 DEF InterruptSave, tasks
    <2> QED
      BY <1>6, <2>1, InterruptRows DEF OutcomeAgrees, TypeOK, Terminal
  <1>7. ASSUME NEW c \in Callers, InterruptPublish(c) PROVE OutcomeAgrees'
    BY <1>7 DEF InterruptPublish, Goto, tasks, OutcomeAgrees
  <1>8. ASSUME NEW c \in Callers, resume(c) PROVE OutcomeAgrees'
    BY <1>8 DEF resume, Goto, store, tasks, OutcomeAgrees
  <1>9. ASSUME NEW c \in Callers, ResumeCheck(c) PROVE OutcomeAgrees'
    BY <1>9 DEF ResumeCheck, Goto, store, tasks, OutcomeAgrees
  <1>10. ASSUME NEW c \in Callers, ResumeSave(c) PROVE OutcomeAgrees'
    BY <1>10 DEF ResumeSave, Goto, tasks, OutcomeAgrees
  <1>11. ASSUME NEW t \in Turns, Answer(t) PROVE OutcomeAgrees'
    BY <1>11 DEF Answer, store, OutcomeAgrees, InterruptedOnly, TypeOK
  <1>12. ASSUME NEW t \in Turns, FinishSave(t) PROVE OutcomeAgrees'
    BY <1>12, FinishSaveRows DEF OutcomeAgrees
  <1>13. ASSUME NEW t \in Turns, FinishPublish(t) PROVE OutcomeAgrees'
    BY <1>13 DEF FinishPublish, TurnPublished, WithStatus, TypeOK, FreshTurns, Untouched,
         FinishOrder, OutcomeAgrees, Live, Ended, Results, Terminal
  <1>14. ASSUME NEW t \in Turns, FinishRemove(t) PROVE OutcomeAgrees'
    BY <1>14 DEF FinishRemove, store, OutcomeAgrees
  <1>15. ASSUME NEW t \in Turns, Aborted(t) PROVE OutcomeAgrees'
    BY <1>15 DEF Aborted, store, OutcomeAgrees
  <1>16. ASSUME delete_thread PROVE OutcomeAgrees'
    BY <1>16 DEF delete_thread, tasks, OutcomeAgrees
  <1>17. ASSUME Crash PROVE OutcomeAgrees'
    BY <1>17 DEF Crash, store, OutcomeAgrees
  <1>18. CASE UNCHANGED vars
    BY <1>18 DEF vars, OutcomeAgrees
  <1> QED
    BY <1>1, <1>2, <1>3, <1>4, <1>5, <1>6, <1>7, <1>8, <1>9, <1>10, <1>11, <1>12, <1>13,
         <1>14, <1>15, <1>16, <1>17, <1>18 DEF Next, Command, Task

\* Without an abort the registered task is the only one.
LEMMA OneTurnStep ==
  ASSUME TypeOK, StartsAlone, FreshTurns, OneTurnUninterrupted, [Next]_vars
  PROVE  OneTurnUninterrupted'
  <1> USE ConstantTypes
  <1>1. ASSUME NEW c \in Callers, start(c) PROVE OneTurnUninterrupted'
    BY <1>1 DEF start, Goto, store, tasks, OneTurnUninterrupted, TypeOK, Starting, FreshTurns,
         Untouched, Uninterrupted, Live
  <1>2. ASSUME NEW c \in Callers, record_turn_intent(c) PROVE OneTurnUninterrupted'
    BY <1>2 DEF record_turn_intent, Goto, OneTurnUninterrupted, TypeOK, Starting, FreshTurns,
         Untouched, Uninterrupted, Live
  <1>3. ASSUME NEW c \in Callers, StartSave(c) PROVE OneTurnUninterrupted'
    BY <1>3 DEF StartSave, Goto, tasks, Resolved, OneTurnUninterrupted, TypeOK, Starting,
         FreshTurns, Untouched, Uninterrupted, Live
  <1>4. ASSUME NEW c \in Callers, StartSpawn(c) PROVE OneTurnUninterrupted'
    BY <1>4 DEF StartSpawn, Goto, TurnPublished, WithStatus, TypeOK, StartsAlone, Starting,
         FreshTurns, Untouched, OneTurnUninterrupted, Uninterrupted, Live
  <1>5. ASSUME NEW c \in Callers, interrupt(c) PROVE OneTurnUninterrupted'
    BY <1>5 DEF interrupt, Goto, store, OneTurnUninterrupted, TypeOK, Starting, FreshTurns,
         Untouched, Uninterrupted, Live
  <1>6. ASSUME NEW c \in Callers, InterruptSave(c) PROVE OneTurnUninterrupted'
    BY <1>6 DEF InterruptSave, Goto, tasks, Resolved, WithOutcome, WithStatus,
         OneTurnUninterrupted, TypeOK, Starting, FreshTurns, Untouched, Uninterrupted, Live
  <1>7. ASSUME NEW c \in Callers, InterruptPublish(c) PROVE OneTurnUninterrupted'
    BY <1>7 DEF InterruptPublish, Goto, tasks, WithStatus, OneTurnUninterrupted, TypeOK,
         Starting, FreshTurns, Untouched, Uninterrupted, Live
  <1>8. ASSUME NEW c \in Callers, resume(c) PROVE OneTurnUninterrupted'
    BY <1>8 DEF resume, Goto, store, tasks, OneTurnUninterrupted, TypeOK, Starting,
         FreshTurns, Untouched, Uninterrupted, Live
  <1>9. ASSUME NEW c \in Callers, ResumeCheck(c) PROVE OneTurnUninterrupted'
    BY <1>9 DEF ResumeCheck, Goto, store, tasks, OneTurnUninterrupted, TypeOK, Starting,
         FreshTurns, Untouched, Uninterrupted, Live
  <1>10. ASSUME NEW c \in Callers, ResumeSave(c) PROVE OneTurnUninterrupted'
    BY <1>10 DEF ResumeSave, Goto, tasks, OneTurnUninterrupted, TypeOK, Starting, FreshTurns,
         Untouched, Uninterrupted, Live
  <1>11. ASSUME NEW t \in Turns, Answer(t) PROVE OneTurnUninterrupted'
    BY <1>11 DEF Answer, store, OneTurnUninterrupted, TypeOK, Starting, FreshTurns, Untouched,
         Uninterrupted, Live
  <1>12. ASSUME NEW t \in Turns, FinishSave(t) PROVE OneTurnUninterrupted'
    BY <1>12 DEF FinishSave, Resolved, WithOutcome, WithStatus, Transcripts,
         OneTurnUninterrupted, TypeOK, Starting, FreshTurns, Untouched, Uninterrupted, Live
  <1>13. ASSUME NEW t \in Turns, FinishPublish(t) PROVE OneTurnUninterrupted'
    BY <1>13 DEF FinishPublish, TurnPublished, WithStatus, OneTurnUninterrupted, TypeOK,
         Starting, FreshTurns, Untouched, Uninterrupted, Live
  <1>14. ASSUME NEW t \in Turns, FinishRemove(t) PROVE OneTurnUninterrupted'
    BY <1>14 DEF FinishRemove, store, OneTurnUninterrupted, TypeOK, Starting, FreshTurns,
         Untouched, Uninterrupted, Live
  <1>15. ASSUME NEW t \in Turns, Aborted(t) PROVE OneTurnUninterrupted'
    BY <1>15 DEF Aborted, store, OneTurnUninterrupted, TypeOK, Starting, FreshTurns,
         Untouched, Uninterrupted, Live
  <1>16. ASSUME delete_thread PROVE OneTurnUninterrupted'
    BY <1>16 DEF delete_thread, tasks, check_thread_idle, OneTurnUninterrupted, TypeOK,
         Starting, FreshTurns, Untouched, Uninterrupted, Live
  <1>17. ASSUME Crash PROVE OneTurnUninterrupted'
    BY <1>17 DEF Crash, store, OneTurnUninterrupted, TypeOK, Starting, FreshTurns, Untouched,
         Uninterrupted, Live
  <1>18. CASE UNCHANGED vars
    BY <1>18 DEF vars, OneTurnUninterrupted, TypeOK, Starting, FreshTurns, Untouched,
         Uninterrupted, Live
  <1> QED
    BY <1>1, <1>2, <1>3, <1>4, <1>5, <1>6, <1>7, <1>8, <1>9, <1>10, <1>11, <1>12, <1>13,
         <1>14, <1>15, <1>16, <1>17, <1>18 DEF Next, Command, Task

\* Without an interrupt only its own task ends a turn.
LEMMA UndisturbedStep ==
  ASSUME TypeOK, StartsAlone, FreshTurns, OneTurnUninterrupted, FinishOrder, UndisturbedTurns,
       [Next]_vars
  PROVE  UndisturbedTurns'
  <1> USE ConstantTypes
  <1>1. ASSUME NEW c \in Callers, start(c) PROVE UndisturbedTurns'
    BY <1>1 DEF start, Goto, store, tasks, UndisturbedTurns, TypeOK, Starting, FreshTurns,
         Untouched, Uninterrupted, Live
  <1>2. ASSUME NEW c \in Callers, record_turn_intent(c) PROVE UndisturbedTurns'
    <2>1. /\ messages' = messages /\ task' = task /\ aborted' = aborted
          /\ outcome' = outcome /\ thread' = thread
          /\ Uninterrupted' => Uninterrupted
      BY <1>2 DEF record_turn_intent, Uninterrupted
    <2>2. CASE ~thread.exists
      BY <1>2, <2>1, <2>2 DEF record_turn_intent, Goto, TypeOK, StartsAlone, Starting,
           Untouched, UndisturbedTurns, Live
    <2>3. CASE thread.exists
      <3>1. /\ issued' \in Turns /\ issued' = issued + 1 /\ issued \in Nat
            /\ turns' = [turns EXCEPT ![issued'] = "dispatching"]
            /\ history' = [history EXCEPT ![issued'] = Len(messages) + 1]
            /\ mine' = [mine EXCEPT ![c] = issued']
            /\ pc' = [pc EXCEPT ![c] = "startSave"]
            /\ pc[c] = "startIntent"
        BY <1>2, <2>3 DEF record_turn_intent, Goto, TypeOK
      <3>2. Untouched(issued') /\ outcome[issued'] = "none"
        BY <3>1 DEF FreshTurns
      <3> QED
        BY <1>2, <2>1, <2>3, <3>1, <3>2 DEF TypeOK, StartsAlone, Starting, Untouched,
             UndisturbedTurns, Live
    <2> QED
      BY <2>2, <2>3
  <1>3. ASSUME NEW c \in Callers, StartSave(c) PROVE UndisturbedTurns'
    BY <1>3 DEF StartSave, Goto, tasks, Resolved, TypeOK, StartsAlone, Starting, FreshTurns,
         Untouched, OneTurnUninterrupted, Uninterrupted, UndisturbedTurns, FinishOrder, Live,
         Ended, Busy
  <1>4. ASSUME NEW c \in Callers, StartSpawn(c) PROVE UndisturbedTurns'
    BY <1>4 DEF StartSpawn, Goto, TurnPublished, WithStatus, UndisturbedTurns, TypeOK,
         Starting, FreshTurns, Untouched, Uninterrupted, Live
  <1>5. ASSUME NEW c \in Callers, interrupt(c) PROVE UndisturbedTurns'
    BY <1>5 DEF interrupt, Goto, store, UndisturbedTurns, TypeOK, Starting, FreshTurns,
         Untouched, Uninterrupted, Live
  <1>6. ASSUME NEW c \in Callers, InterruptSave(c) PROVE UndisturbedTurns'
    BY <1>6 DEF InterruptSave, Goto, tasks, Resolved, WithOutcome, WithStatus,
         UndisturbedTurns, TypeOK, Starting, FreshTurns, Untouched, Uninterrupted, Live
  <1>7. ASSUME NEW c \in Callers, InterruptPublish(c) PROVE UndisturbedTurns'
    BY <1>7 DEF InterruptPublish, Goto, tasks, WithStatus, UndisturbedTurns, TypeOK, Starting,
         FreshTurns, Untouched, Uninterrupted, Live
  <1>8. ASSUME NEW c \in Callers, resume(c) PROVE UndisturbedTurns'
    BY <1>8 DEF resume, Goto, store, tasks, UndisturbedTurns, TypeOK, Starting, FreshTurns,
         Untouched, Uninterrupted, Live
  <1>9. ASSUME NEW c \in Callers, ResumeCheck(c) PROVE UndisturbedTurns'
    BY <1>9 DEF ResumeCheck, Goto, store, tasks, UndisturbedTurns, TypeOK, Starting,
         FreshTurns, Untouched, Uninterrupted, Live
  <1>10. ASSUME NEW c \in Callers, ResumeSave(c) PROVE UndisturbedTurns'
    BY <1>10 DEF ResumeSave, Goto, tasks, UndisturbedTurns, TypeOK, Starting, FreshTurns,
         Untouched, Uninterrupted, Live
  <1>11. ASSUME NEW t \in Turns, Answer(t) PROVE UndisturbedTurns'
    BY <1>11 DEF Answer, store, UndisturbedTurns, TypeOK, Starting, FreshTurns, Untouched,
         Uninterrupted, Live
  <1>12. ASSUME NEW t \in Turns, FinishSave(t) PROVE UndisturbedTurns'
    BY <1>12 DEF FinishSave, Resolved, WithOutcome, WithStatus, Transcripts, TypeOK,
         StartsAlone, Starting, FreshTurns, Untouched, OneTurnUninterrupted, Uninterrupted,
         UndisturbedTurns, FinishOrder, Live, Ended, Busy
  <1>13. ASSUME NEW t \in Turns, FinishPublish(t) PROVE UndisturbedTurns'
    BY <1>13 DEF FinishPublish, TurnPublished, WithStatus, UndisturbedTurns, TypeOK, Starting,
         FreshTurns, Untouched, Uninterrupted, Live
  <1>14. ASSUME NEW t \in Turns, FinishRemove(t) PROVE UndisturbedTurns'
    BY <1>14 DEF FinishRemove, store, UndisturbedTurns, TypeOK, Starting, FreshTurns,
         Untouched, Uninterrupted, Live
  <1>15. ASSUME NEW t \in Turns, Aborted(t) PROVE UndisturbedTurns'
    BY <1>15 DEF Aborted, store, UndisturbedTurns, TypeOK, Starting, FreshTurns, Untouched,
         Uninterrupted, Live
  <1>16. ASSUME delete_thread PROVE UndisturbedTurns'
    BY <1>16 DEF delete_thread, tasks, check_thread_idle, TypeOK, StartsAlone, Starting,
         FreshTurns, Untouched, OneTurnUninterrupted, Uninterrupted, UndisturbedTurns,
         FinishOrder, Live, Ended, Busy
  <1>17. ASSUME Crash PROVE UndisturbedTurns'
    BY <1>17 DEF Crash, store, UndisturbedTurns
  <1>18. CASE UNCHANGED vars
    BY <1>18 DEF vars, UndisturbedTurns, TypeOK, Starting, FreshTurns, Untouched,
         Uninterrupted, Live
  <1> QED
    BY <1>1, <1>2, <1>3, <1>4, <1>5, <1>6, <1>7, <1>8, <1>9, <1>10, <1>11, <1>12, <1>13,
         <1>14, <1>15, <1>16, <1>17, <1>18 DEF Next, Command, Task

\* The answer of the only task is appended.
LEMMA AnswerAppended ==
  ASSUME TypeOK, FinishOrder, UndisturbedTurns, Uninterrupted, NEW t \in Turns, FinishSave(t)
  PROVE  /\ \A i \in DOMAIN messages : i \in DOMAIN messages' /\ messages'[i] = messages[i]
         /\ result[t] \in {"completed", "refused"} =>
              \E i \in DOMAIN messages' : messages'[i] = [turn |-> t, role |-> "assistant"]
  <1>1. turns[t] = "inProgress" /\ Len(messages) = history[t]
    BY DEF FinishSave, UndisturbedTurns
  <1>2. /\ messages \in Seq([turn : Turns, role : {"user", "assistant"}])
        /\ Len(messages) \in Nat
    BY DEF TypeOK
  <1>3. CASE result[t] \in {"completed", "refused"}
    <2> DEFINE answer == [turn |-> t, role |-> "assistant"]
    <2>1. messages' = Append(messages, answer)
      BY <1>1, <1>2, <1>3 DEF FinishSave, Transcripts, AnswerStored
    <2>2. /\ DOMAIN messages' = 1..(Len(messages) + 1)
          /\ messages'[Len(messages) + 1] = answer
          /\ \A i \in 1..Len(messages) : messages'[i] = messages[i]
      BY <1>2, <2>1
    <2>3. DOMAIN messages = 1..Len(messages)
      BY <1>2
    <2> QED
      BY <1>2, <2>2, <2>3
  <1>4. CASE result[t] \notin {"completed", "refused"}
    <2>1. messages' = messages \/ messages' = Append(messages, [turn |-> t, role |-> "assistant"])
      BY <1>4 DEF FinishSave, Transcripts, AnswerStored
    <2>2. \A i \in DOMAIN messages : i \in DOMAIN messages' /\ messages'[i] = messages[i]
      BY <1>2, <2>1
    <2> QED
      BY <1>4, <2>2
  <1> QED
    BY <1>3, <1>4

\* A start adds to the transcript.
LEMMA MessagesGrow ==
  ASSUME TypeOK, NEW c \in Callers, StartSave(c)
  PROVE  \A i \in DOMAIN messages : i \in DOMAIN messages' /\ messages'[i] = messages[i]
  BY DEF TypeOK, StartSave

\* The answer of a turn is stored with its outcome and stays.
LEMMA AnswersStep ==
  ASSUME TypeOK, RowsHaveThread, FreshTurns, FinishOrder, UndisturbedTurns, InterruptedOnly,
       AnswersKept, [Next]_vars
  PROVE  AnswersKept'
  <1> USE ConstantTypes
  <1>1. ASSUME NEW c \in Callers, start(c) PROVE AnswersKept'
    BY <1>1 DEF start, Goto, store, tasks, AnswersKept, TypeOK, FreshTurns, Untouched,
         Uninterrupted
  <1>2. ASSUME NEW c \in Callers, record_turn_intent(c) PROVE AnswersKept'
    <2>1. /\ messages' = messages /\ task' = task /\ aborted' = aborted
          /\ outcome' = outcome /\ thread' = thread
          /\ Uninterrupted' => Uninterrupted
      BY <1>2 DEF record_turn_intent, Uninterrupted
    <2>2. CASE ~thread.exists
      BY <1>2, <2>1, <2>2 DEF record_turn_intent, Goto, TypeOK, AnswersKept
    <2>3. CASE thread.exists
      <3>1. /\ issued' \in Turns /\ issued' = issued + 1 /\ issued \in Nat
            /\ turns' = [turns EXCEPT ![issued'] = "dispatching"]
            /\ history' = [history EXCEPT ![issued'] = Len(messages) + 1]
            /\ mine' = [mine EXCEPT ![c] = issued']
            /\ pc' = [pc EXCEPT ![c] = "startSave"]
            /\ pc[c] = "startIntent"
        BY <1>2, <2>3 DEF record_turn_intent, Goto, TypeOK
      <3>2. Untouched(issued') /\ outcome[issued'] = "none"
        BY <3>1 DEF FreshTurns
      <3> QED
        BY <1>2, <2>1, <2>3, <3>1, <3>2 DEF TypeOK, AnswersKept
    <2> QED
      BY <2>2, <2>3
  <1>3. ASSUME NEW c \in Callers, StartSave(c) PROVE AnswersKept'
    <2>1. SUFFICES ASSUME Uninterrupted', NEW u \in Turns, turns'[u] # "none",
                          outcome'[u] \in {"completed", "refused"}
                   PROVE  \E i \in DOMAIN messages' :
                            messages'[i] = [turn |-> u, role |-> "assistant"]
      BY DEF AnswersKept
    <2>2. Uninterrupted /\ outcome' = outcome
      BY <1>3, <2>1 DEF StartSave, tasks, Uninterrupted
    <2>3. turns[u] # "none"
      BY <1>3, <2>1 DEF StartSave, Resolved
    <2>4. PICK i \in DOMAIN messages : messages[i] = [turn |-> u, role |-> "assistant"]
      BY <2>1, <2>2, <2>3 DEF AnswersKept
    <2> QED
      BY <1>3, <2>4, MessagesGrow
  <1>4. ASSUME NEW c \in Callers, StartSpawn(c) PROVE AnswersKept'
    BY <1>4 DEF StartSpawn, Goto, TurnPublished, WithStatus, AnswersKept, TypeOK, FreshTurns,
         Untouched, Uninterrupted
  <1>5. ASSUME NEW c \in Callers, interrupt(c) PROVE AnswersKept'
    BY <1>5 DEF interrupt, Goto, store, AnswersKept, TypeOK, FreshTurns, Untouched,
         Uninterrupted
  <1>6. ASSUME NEW c \in Callers, InterruptSave(c) PROVE AnswersKept'
    BY <1>6 DEF InterruptSave, tasks, UndisturbedTurns, AnswersKept, Uninterrupted
  <1>7. ASSUME NEW c \in Callers, InterruptPublish(c) PROVE AnswersKept'
    BY <1>7 DEF InterruptPublish, Goto, tasks, WithStatus, AnswersKept, TypeOK, FreshTurns,
         Untouched, Uninterrupted
  <1>8. ASSUME NEW c \in Callers, resume(c) PROVE AnswersKept'
    BY <1>8 DEF resume, Goto, store, tasks, AnswersKept, TypeOK, FreshTurns, Untouched,
         Uninterrupted
  <1>9. ASSUME NEW c \in Callers, ResumeCheck(c) PROVE AnswersKept'
    BY <1>9 DEF ResumeCheck, Goto, store, tasks, AnswersKept, TypeOK, FreshTurns, Untouched,
         Uninterrupted
  <1>10. ASSUME NEW c \in Callers, ResumeSave(c) PROVE AnswersKept'
    BY <1>10 DEF ResumeSave, Goto, tasks, AnswersKept, TypeOK, FreshTurns, Untouched,
         Uninterrupted
  <1>11. ASSUME NEW t \in Turns, Answer(t) PROVE AnswersKept'
    BY <1>11 DEF Answer, store, AnswersKept, TypeOK, FreshTurns, Untouched, Uninterrupted
  <1>12. ASSUME NEW t \in Turns, FinishSave(t) PROVE AnswersKept'
    <2>1. SUFFICES ASSUME Uninterrupted', NEW u \in Turns, turns'[u] # "none",
                          outcome'[u] \in {"completed", "refused"}
                   PROVE  \E i \in DOMAIN messages' :
                            messages'[i] = [turn |-> u, role |-> "assistant"]
      BY DEF AnswersKept
    <2>2. Uninterrupted
      BY <1>12, <2>1 DEF FinishSave, Uninterrupted
    <2>3. CASE u = t
      BY <1>12, <2>1, <2>2, <2>3, FinishSaveRows, AnswerAppended
    <2>4. CASE u # t
      <3>1. PICK i \in DOMAIN messages : messages[i] = [turn |-> u, role |-> "assistant"]
        BY <1>12, <2>1, <2>2, <2>4, FinishSaveRows DEF AnswersKept
      <3> QED
        BY <1>12, <2>2, <3>1, AnswerAppended
    <2> QED
      BY <2>3, <2>4
  <1>13. ASSUME NEW t \in Turns, FinishPublish(t) PROVE AnswersKept'
    BY <1>13 DEF FinishPublish, TurnPublished, WithStatus, AnswersKept, TypeOK, FreshTurns,
         Untouched, Uninterrupted
  <1>14. ASSUME NEW t \in Turns, FinishRemove(t) PROVE AnswersKept'
    BY <1>14 DEF FinishRemove, store, AnswersKept, TypeOK, FreshTurns, Untouched, Uninterrupted
  <1>15. ASSUME NEW t \in Turns, Aborted(t) PROVE AnswersKept'
    BY <1>15 DEF Aborted, store, AnswersKept, TypeOK, FreshTurns, Untouched, Uninterrupted
  <1>16. ASSUME delete_thread PROVE AnswersKept'
    BY <1>16 DEF delete_thread, tasks, AnswersKept
  <1>17. ASSUME Crash PROVE AnswersKept'
    BY <1>17 DEF Crash, store, AnswersKept, TypeOK, FreshTurns, Untouched, Uninterrupted
  <1>18. CASE UNCHANGED vars
    BY <1>18 DEF vars, AnswersKept, TypeOK, FreshTurns, Untouched, Uninterrupted
  <1> QED
    BY <1>1, <1>2, <1>3, <1>4, <1>5, <1>6, <1>7, <1>8, <1>9, <1>10, <1>11, <1>12, <1>13,
         <1>14, <1>15, <1>16, <1>17, <1>18 DEF Next, Command, Task

-----------------------------------------------------------------------------
(* The inductive invariant *)

LEMMA InitInvariant == Init => IInv
  <1> SUFFICES ASSUME Init PROVE IInv
    OBVIOUS
  <1> USE ConstantTypes, CallerAssumption, BoundAssumption DEF Init
  <1>1. TypeOK
    <2>1. messages \in Seq([turn : Turns, role : {"user", "assistant"}])
      OBVIOUS
    <2> QED
      BY <2>1 DEF TypeOK, Points, Ended, Busy, Live, Results
  <1>2. StartsAlone /\ RowsHaveThread
    BY DEF StartsAlone, Starting, RowsHaveThread
  <1>3. FreshTurns
    BY DEF FreshTurns, Untouched
  <1>4. FinishOrder /\ InterruptedOnly
    BY DEF FinishOrder, InterruptedOnly, Live
  <1>5. UndisturbedTurns /\ TrackedIsLive /\ OneTurnUninterrupted
    BY DEF UndisturbedTurns, TrackedIsLive, OneTurnUninterrupted, Live
  <1>6. OutcomeAgrees /\ DeleteWaits /\ AnswersKept
    BY DEF OutcomeAgrees, DeleteWaits, AnswersKept
  <1> QED
    BY <1>1, <1>2, <1>3, <1>4, <1>5, <1>6 DEF IInv

LEMMA StepInvariant == IInv /\ [Next]_vars => IInv'
  <1> SUFFICES ASSUME IInv, [Next]_vars PROVE IInv'
    OBVIOUS
  <1> USE DEF IInv
  <1>1. TypeOK' /\ StartsAlone' /\ RowsHaveThread'
    BY TypeStep, StartsAloneStep, RowsStep
  <1>2. FreshTurns' /\ TrackedIsLive'
    BY FreshTurnsStep, TrackedStep
  <1>3. FinishOrder' /\ InterruptedOnly' /\ OutcomeAgrees'
    BY FinishOrderStep, InterruptedOnlyStep, OutcomeStep
  <1>4. OneTurnUninterrupted'
    BY OneTurnStep
  <1>5. UndisturbedTurns'
    BY UndisturbedStep
  <1>6. AnswersKept'
    BY AnswersStep
  <1>7. DeleteWaits'
    BY <1>5 DEF UndisturbedTurns, DeleteWaits
  <1> QED
    BY <1>1, <1>2, <1>3, <1>4, <1>5, <1>6, <1>7

LEMMA Invariance == Spec => []IInv
  BY InitInvariant, StepInvariant, PTL DEF Spec

-----------------------------------------------------------------------------
(* Theorems *)

\* Every variable keeps its type.
THEOREM TypeCorrect == Spec => []TypeOK
  BY Invariance, PTL DEF IInv

\* What `running' names has neither ended nor been aborted.
THEOREM TrackedCorrect == Spec => []TrackedIsLive
  BY Invariance, PTL DEF IInv

\* The status and the outcome of a turn agree, whoever of interrupt and finish wins.
THEOREM OutcomesCorrect == Spec => []OutcomeAgrees
  BY Invariance, PTL DEF IInv

\* Until a turn is interrupted there is one task at most, and `running' names it.
THEOREM OneTurnCorrect == Spec => []OneTurnUninterrupted
  BY Invariance, PTL DEF IInv

\* Until a turn is interrupted no session is deleted under a task at work.
THEOREM DeleteCorrect == Spec => []DeleteWaits
  BY Invariance, PTL DEF IInv

\* Until a turn is interrupted every turn that completed has its answer stored.
THEOREM AnswersCorrect == Spec => []AnswersKept
  BY Invariance, PTL DEF IInv

-----------------------------------------------------------------------------
(* A turn that ended is not reopened *)

Closed == \A t \in Turns : turns[t] \in Ended => turns'[t] \in Ended \cup {"none"}

\* No action reopens a turn.
LEMMA ClosedStep ==
  ASSUME TypeOK, RowsHaveThread, FreshTurns, FinishOrder, InterruptedOnly, [Next]_vars
  PROVE  Closed
  <1> USE ConstantTypes
  <1>1. ASSUME NEW c \in Callers, start(c) PROVE Closed
    BY <1>1 DEF start, Goto, store, tasks, Closed
  <1>2. ASSUME NEW c \in Callers, record_turn_intent(c) PROVE Closed
    BY <1>2 DEF record_turn_intent, Goto, TypeOK, FreshTurns, Untouched, Closed, FinishOrder,
         Ended, Results, Terminal, Live
  <1>3. ASSUME NEW c \in Callers, StartSave(c) PROVE Closed
    BY <1>3 DEF StartSave, Goto, tasks, Resolved, TypeOK, FreshTurns, Untouched, Closed,
         FinishOrder, Ended, Results, Terminal, Live
  <1>4. ASSUME NEW c \in Callers, StartSpawn(c) PROVE Closed
    BY <1>4 DEF StartSpawn, Goto, TurnPublished, WithStatus, Closed, TypeOK
  <1>5. ASSUME NEW c \in Callers, interrupt(c) PROVE Closed
    BY <1>5 DEF interrupt, Goto, store, Closed
  <1>6. ASSUME NEW c \in Callers, InterruptSave(c) PROVE Closed
    BY <1>6, InterruptRows DEF Closed, TypeOK, Ended
  <1>7. ASSUME NEW c \in Callers, InterruptPublish(c) PROVE Closed
    BY <1>7 DEF InterruptPublish, Goto, tasks, Closed
  <1>8. ASSUME NEW c \in Callers, resume(c) PROVE Closed
    BY <1>8 DEF resume, Goto, store, tasks, Closed
  <1>9. ASSUME NEW c \in Callers, ResumeCheck(c) PROVE Closed
    BY <1>9 DEF ResumeCheck, Goto, store, tasks, Closed
  <1>10. ASSUME NEW c \in Callers, ResumeSave(c) PROVE Closed
    BY <1>10 DEF ResumeSave, Goto, tasks, Closed
  <1>11. ASSUME NEW t \in Turns, Answer(t) PROVE Closed
    BY <1>11 DEF Answer, store, Closed
  <1>12. ASSUME NEW t \in Turns, FinishSave(t) PROVE Closed
    BY <1>12, FinishSaveRows, TerminalType DEF Closed, Ended
  <1>13. ASSUME NEW t \in Turns, FinishPublish(t) PROVE Closed
    BY <1>13 DEF FinishPublish, TurnPublished, WithStatus, TypeOK, FreshTurns, Untouched,
         Closed, FinishOrder, Ended, Results, Terminal, Live
  <1>14. ASSUME NEW t \in Turns, FinishRemove(t) PROVE Closed
    BY <1>14 DEF FinishRemove, store, Closed
  <1>15. ASSUME NEW t \in Turns, Aborted(t) PROVE Closed
    BY <1>15 DEF Aborted, store, Closed
  <1>16. ASSUME delete_thread PROVE Closed
    BY <1>16 DEF delete_thread, tasks, Closed
  <1>17. ASSUME Crash PROVE Closed
    BY <1>17 DEF Crash, store, Closed
  <1>18. CASE UNCHANGED vars
    BY <1>18 DEF vars, Closed
  <1> QED
    BY <1>1, <1>2, <1>3, <1>4, <1>5, <1>6, <1>7, <1>8, <1>9, <1>10, <1>11, <1>12, <1>13,
         <1>14, <1>15, <1>16, <1>17, <1>18 DEF Next, Command, Task

THEOREM ClosedCorrect == Spec => ClosedStaysClosed
  <1>1. IInv /\ [Next]_vars => Closed
    BY ClosedStep DEF IInv
  <1>2. IInv /\ [Next]_vars => [Closed]_vars
    BY <1>1
  <1> QED
    BY <1>2, Invariance, PTL DEF Spec, ClosedStaysClosed, Closed

=============================================================================
