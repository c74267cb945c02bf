----------------------------- MODULE ApiSession -----------------------------
(***************************************************************************)
(* One API session of the hub: ApiSessions                                  *)
(* (crates/hub-runtime/src/api_sessions.rs) with the rows it keeps in the   *)
(* Store and the events it publishes.                                       *)
(*                                                                         *)
(* A turn is a tokio task of its own. The map `running' says which task a   *)
(* session has; its mutex is held for all of `start', but only for a look   *)
(* or a removal by everything else. The store has a mutex of its own, held  *)
(* for one block of operations at a time, so a task that is storing its     *)
(* result, an interrupt and the next start can take turns in it. An abort   *)
(* stops a task only at an await.                                           *)
(***************************************************************************)
EXTENDS Integers, Sequences, FiniteSets

CONSTANTS
  Callers,      \* commands that may run at the same time
  None,         \* no caller
  MaxTurns,     \* bound: turns that are started
  MaxCrashes    \* bound: restarts of the application

ASSUME CallerAssumption == None \notin Callers
ASSUME BoundAssumption == MaxTurns \in Nat \ {0} /\ MaxCrashes \in Nat

VARIABLES
  thread,      \* row of provider_threads: exists, status
  turns,       \* rows of turns: status
  outcome,     \* rows of provider_turn_outcomes: status
  active,      \* setting api_active_turn
  messages,    \* rows of provider_messages: turn and role
  journal,     \* events: latest turn_started of the thread, turn_completed of each turn
  running,     \* the turn that the map `running' has for the session
  owner,       \* the command that holds the mutex of `running'
  task,        \* [turn -> where its task is]
  aborted,     \* [turn -> whether its task was aborted]
  result,      \* [turn -> what run_with_history returned]
  history,     \* [turn -> length of the transcript its task was given]
  pc, mine,    \* [caller -> where its command is], [caller -> the turn it starts]
  issued,      \* the turns so far
  crashes      \* the restarts so far

store == <<thread, turns, outcome, active, messages, journal>>
tasks == <<task, aborted, result, history>>
vars == <<thread, turns, outcome, active, messages, journal, running, owner,
          task, aborted, result, history, pc, mine, issued, crashes>>

-----------------------------------------------------------------------------
(* Types *)

NoTurn == 0
Turns == 1..MaxTurns

Ended == {"completed", "failed", "interrupted"}
Busy == {"running", "inProgress", "dispatching"}

\* "failed": the provider failed, or run_with_history returned Err. "unrecorded": it
\* failed, with a detail of more bytes than record_provider_turn_outcome takes.
Results == {"completed", "refused", "failed", "unrecorded"}
\* Mutant: a refusal is a status of its own.
TerminalRefused(r) == r

Terminal(r) == IF r \in {"completed", "interrupted"} THEN r ELSE "failed"

Points == {"idle", "startIntent", "startSave", "startSpawn", "interruptSave",
           "interruptPublish", "resumeCheck", "resumeSave"}
\* Points at which a command holds the mutex of `running'.
Starting == {"startIntent", "startSave", "startSpawn"}

\* Where a task is: waiting for the provider, in its last poll, after each part
\* of `finish', or over.
Live == {"agent", "answered", "saved", "published"}

TypeOK ==
  /\ thread \in [exists : BOOLEAN,
                 status : {"idle", "reconciliation_required"} \cup Busy \cup Ended]
  /\ turns \in [Turns -> {"none", "dispatching", "inProgress"} \cup Ended]
  /\ outcome \in [Turns -> {"none", "completed", "refused", "failed", "interrupted"}]
  /\ active \in {NoTurn} \cup Turns
  /\ messages \in Seq([turn : Turns, role : {"user", "assistant"}])
  /\ journal \in [started : {NoTurn} \cup Turns, ended : [Turns -> {"none"} \cup Ended]]
  /\ running \in {NoTurn} \cup Turns
  /\ owner \in Callers \cup {None}
  /\ task \in [Turns -> {"none", "gone"} \cup Live]
  /\ aborted \in [Turns -> BOOLEAN]
  /\ result \in [Turns -> {"none"} \cup Results]
  /\ history \in [Turns -> Nat]
  /\ pc \in [Callers -> Points]
  /\ mine \in [Callers -> {NoTurn} \cup Turns]
  /\ issued \in {0} \cup Turns
  /\ crashes \in 0..MaxCrashes

-----------------------------------------------------------------------------
(* Operations of the store *)

\* Mutant: the rows of turns are not looked at.
check_thread_only == thread.exists /\ thread.status \notin Busy

check_thread_idle ==
  thread.exists /\ thread.status \notin Busy /\ \A t \in Turns : turns[t] \notin Busy

\* resolve_turn_intent: a completion that is in the journal wins.
Resolved(t, status) ==
  IF turns[t] = "none" THEN turns
  ELSE [turns EXCEPT ![t] = IF journal.ended[t] # "none" THEN journal.ended[t] ELSE status]

\* The row of the thread is updated if it is still there.
WithStatus(status) == IF thread.exists THEN [thread EXCEPT !.status = status] ELSE thread

\* record_provider_turn_outcome needs the row of the thread (a foreign key), and
\* refuses a long detail; its error is ignored.
WithOutcome(t, status) ==
  IF thread.exists /\ status # "unrecorded" THEN [outcome EXCEPT ![t] = status] ELSE outcome

\* EventBus::publish, update_provider_status: the row of the turn; a turn that
\* ended is not reopened.
TurnPublished(t, status) ==
  IF turns[t] = "none" \/ (turns[t] \in Ended /\ status = "inProgress") THEN turns
  ELSE [turns EXCEPT ![t] = status]

-----------------------------------------------------------------------------
(* The session has just been created *)

Init ==
  /\ thread = [exists |-> TRUE, status |-> "idle"]
  /\ turns = [t \in Turns |-> "none"]
  /\ outcome = [t \in Turns |-> "none"]
  /\ active = NoTurn
  /\ messages = <<>>
  /\ journal = [started |-> NoTurn, ended |-> [t \in Turns |-> "none"]]
  /\ running = NoTurn
  /\ owner = None
  /\ task = [t \in Turns |-> "none"]
  /\ aborted = [t \in Turns |-> FALSE]
  /\ result = [t \in Turns |-> "none"]
  /\ history = [t \in Turns |-> 0]
  /\ pc = [c \in Callers |-> "idle"]
  /\ mine = [c \in Callers |-> NoTurn]
  /\ issued = 0
  /\ crashes = 0

Goto(c, point) == pc' = [pc EXCEPT ![c] = point]

-----------------------------------------------------------------------------
(* ApiSessions::start *)

\* Mutant: the session is not asked for its active turn.
start_anyway(c) ==
  /\ pc[c] = "idle"
  /\ thread.exists
  /\ owner = None
  /\ owner' = c
  /\ Goto(c, "startIntent")
  /\ UNCHANGED <<store, running, tasks, mine, issued, crashes>>

\* The mutex of `running' is taken and kept; the mapping, the policy and the
\* provider are read.
start(c) ==
  /\ pc[c] = "idle"
  /\ thread.exists
  /\ owner = None
  /\ running = NoTurn
  /\ owner' = c
  /\ Goto(c, "startIntent")
  /\ UNCHANGED <<store, running, tasks, mine, issued, crashes>>

\* The row of the turn needs the row of the thread (a foreign key). The transcript is
\* read, and the new message added to it.
record_turn_intent(c) ==
  /\ pc[c] = "startIntent"
  /\ \/ /\ ~thread.exists
        /\ owner' = None
        /\ Goto(c, "idle")
        /\ UNCHANGED <<turns, history, mine, issued>>
     \/ /\ thread.exists
        /\ issued + 1 \in Turns
        /\ issued' = issued + 1
        /\ turns' = [turns EXCEPT ![issued + 1] = "dispatching"]
        /\ history' = [history EXCEPT ![issued + 1] = Len(messages) + 1]
        /\ mine' = [mine EXCEPT ![c] = issued + 1]
        /\ Goto(c, "startSave")
        /\ UNCHANGED owner
  /\ UNCHANGED <<thread, outcome, active, messages, journal, running, task, aborted, result,
                 crashes>>

\* One block under the store mutex: the message, the setting, the target, the
\* status of the turn and of the thread (save_thread inserts).
StartSave(c) ==
  /\ pc[c] = "startSave"
  /\ messages' = Append(messages, [turn |-> mine[c], role |-> "user"])
  /\ active' = mine[c]
  /\ turns' = Resolved(mine[c], "inProgress")
  /\ thread' = [exists |-> TRUE, status |-> "running"]
  /\ Goto(c, "startSpawn")
  /\ UNCHANGED <<outcome, journal, running, owner, tasks, mine, issued, crashes>>

\* turn_started is published, the task is spawned and registered.
StartSpawn(c) ==
  /\ pc[c] = "startSpawn"
  /\ journal' = [journal EXCEPT !.started = mine[c]]
  /\ turns' = TurnPublished(mine[c], "inProgress")
  /\ thread' = WithStatus("inProgress")
  /\ task' = [task EXCEPT ![mine[c]] = "agent"]
  /\ running' = mine[c]
  /\ owner' = None
  /\ mine' = [mine EXCEPT ![c] = NoTurn]
  /\ Goto(c, "idle")
  /\ UNCHANGED <<outcome, active, messages, aborted, result, history, issued, crashes>>

-----------------------------------------------------------------------------
(* The task of a turn: run_with_history, then finish *)

\* The provider answers; what follows is one poll up to the await in `finish'.
Answer(t) ==
  /\ task[t] = "agent"
  /\ ~aborted[t]
  /\ \E r \in Results : result' = [result EXCEPT ![t] = r]
  /\ task' = [task EXCEPT ![t] = "answered"]
  /\ UNCHANGED <<store, running, owner, aborted, history, pc, mine, issued, crashes>>

\* Mutant: the message of the user is counted twice.
AnswerOffByOne(t) ==
  IF turns[t] # "none" /\ Len(messages) < history[t]
  THEN Append(messages, [turn |-> t, role |-> "assistant"])
  ELSE messages

\* The answer, unless as many messages as it would be are already stored. It needs
\* the row of its segment (a foreign key), which is deleted with the row of the turn.
AnswerStored(t) ==
  IF turns[t] # "none" /\ Len(messages) <= history[t]
  THEN Append(messages, [turn |-> t, role |-> "assistant"])
  ELSE messages

\* A turn that failed may have answered before, in an earlier round.
Transcripts(t) ==
  {AnswerStored(t)} \cup (IF result[t] \in {"completed", "refused"} THEN {} ELSE {messages})

\* Mutant: the setting still names the turn.
FinishSaveActive(t) ==
  /\ task[t] = "answered"
  /\ messages' \in Transcripts(t)
  /\ outcome' = WithOutcome(t, result[t])
  /\ turns' = Resolved(t, Terminal(result[t]))
  /\ thread' = WithStatus(Terminal(result[t]))
  /\ task' = [task EXCEPT ![t] = "saved"]
  /\ UNCHANGED <<active, journal, running, owner, aborted, result, history, pc, mine,
                 issued, crashes>>

\* The block of `finish' under the store mutex.
FinishSave(t) ==
  /\ task[t] = "answered"
  /\ messages' \in Transcripts(t)
  /\ active' = NoTurn
  /\ outcome' = WithOutcome(t, result[t])
  /\ turns' = Resolved(t, Terminal(result[t]))
  /\ thread' = WithStatus(Terminal(result[t]))
  /\ task' = [task EXCEPT ![t] = "saved"]
  /\ UNCHANGED <<journal, running, owner, aborted, result, history, pc, mine, issued, crashes>>

\* turn_completed is published; the thread follows its latest turn only.
FinishPublish(t) ==
  /\ task[t] = "saved"
  /\ journal' = [journal EXCEPT !.ended[t] = Terminal(result[t])]
  /\ turns' = TurnPublished(t, Terminal(result[t]))
  /\ thread' = IF journal.started \in {NoTurn, t} THEN WithStatus(Terminal(result[t]))
               ELSE thread
  /\ task' = [task EXCEPT ![t] = "published"]
  /\ UNCHANGED <<outcome, active, messages, running, owner, aborted, result, history, pc,
                 mine, issued, crashes>>

\* The session is removed from `running', whichever turn it has there. A free
\* mutex is not an await: an abort does not stop the task here.
FinishRemove(t) ==
  /\ task[t] = "published"
  /\ owner = None
  /\ running' = NoTurn
  /\ task' = [task EXCEPT ![t] = "gone"]
  /\ UNCHANGED <<store, owner, aborted, result, history, pc, mine, issued, crashes>>

\* An aborted task ends at an await: of the provider, or of the mutex of `running'.
Aborted(t) ==
  /\ aborted[t]
  /\ task[t] = "agent" \/ (task[t] = "published" /\ owner # None)
  /\ task' = [task EXCEPT ![t] = "gone"]
  /\ UNCHANGED <<store, running, owner, aborted, result, history, pc, mine, issued, crashes>>

-----------------------------------------------------------------------------
(* ApiSessions::interrupt *)

\* The task is taken out of `running' and aborted.
interrupt(c) ==
  /\ pc[c] = "idle"
  /\ thread.exists
  /\ owner = None
  /\ running # NoTurn
  /\ aborted' = [aborted EXCEPT ![running] = TRUE]
  /\ running' = NoTurn
  /\ Goto(c, "interruptSave")
  /\ UNCHANGED <<store, owner, task, result, history, mine, issued, crashes>>

\* The turn is the one that the setting names now, if any.
InterruptSave(c) ==
  /\ pc[c] = "interruptSave"
  /\ IF active # NoTurn
     THEN /\ turns' = Resolved(active, "interrupted")
          /\ outcome' = WithOutcome(active, "interrupted")
     ELSE UNCHANGED <<turns, outcome>>
  /\ active' = NoTurn
  /\ thread' = WithStatus("interrupted")
  /\ Goto(c, "interruptPublish")
  /\ UNCHANGED <<messages, journal, running, owner, tasks, mine, issued, crashes>>

\* turn_completed without a turn: only the row of the thread is updated.
InterruptPublish(c) ==
  /\ pc[c] = "interruptPublish"
  /\ thread' = WithStatus("interrupted")
  /\ Goto(c, "idle")
  /\ UNCHANGED <<turns, outcome, active, messages, journal, running, owner, tasks, mine,
                 issued, crashes>>

-----------------------------------------------------------------------------
(* ApiSessions::resume, which is also read_task *)

resume(c) ==
  /\ pc[c] = "idle"
  /\ thread.exists
  /\ thread.status \in Busy
  /\ Goto(c, "resumeCheck")
  /\ UNCHANGED <<store, running, owner, tasks, mine, issued, crashes>>

ResumeCheck(c) ==
  /\ pc[c] = "resumeCheck"
  /\ owner = None
  /\ Goto(c, IF running = NoTurn THEN "resumeSave" ELSE "idle")
  /\ UNCHANGED <<store, running, owner, tasks, mine, issued, crashes>>

ResumeSave(c) ==
  /\ pc[c] = "resumeSave"
  /\ thread' = [exists |-> TRUE, status |-> "reconciliation_required"]
  /\ Goto(c, "idle")
  /\ UNCHANGED <<turns, outcome, active, messages, journal, running, owner, tasks, mine,
                 issued, crashes>>

-----------------------------------------------------------------------------
(* Deletion, and the environment *)

delete_thread ==
  /\ check_thread_idle
  /\ thread' = [exists |-> FALSE, status |-> "idle"]
  /\ turns' = [t \in Turns |-> "none"]
  /\ outcome' = [t \in Turns |-> "none"]
  /\ active' = NoTurn
  /\ messages' = <<>>
  /\ journal' = [started |-> NoTurn, ended |-> [t \in Turns |-> "none"]]
  /\ UNCHANGED <<running, owner, tasks, pc, mine, issued, crashes>>

\* The application ends; only the store remains.
Crash ==
  /\ crashes < MaxCrashes
  /\ crashes' = crashes + 1
  /\ running' = NoTurn
  /\ owner' = None
  /\ task' = [t \in Turns |-> IF task[t] = "none" THEN "none" ELSE "gone"]
  /\ pc' = [c \in Callers |-> "idle"]
  /\ mine' = [c \in Callers |-> NoTurn]
  /\ UNCHANGED <<store, aborted, result, history, issued>>

-----------------------------------------------------------------------------

Command(c) ==
  \/ start(c) \/ record_turn_intent(c) \/ StartSave(c) \/ StartSpawn(c)
  \/ interrupt(c) \/ InterruptSave(c) \/ InterruptPublish(c)
  \/ resume(c) \/ ResumeCheck(c) \/ ResumeSave(c)

Task(t) ==
  \/ Answer(t) \/ FinishSave(t) \/ FinishPublish(t) \/ FinishRemove(t) \/ Aborted(t)

Next ==
  \/ \E c \in Callers : Command(c)
  \/ \E t \in Turns : Task(t)
  \/ delete_thread
  \/ Crash

Spec == Init /\ [][Next]_vars

-----------------------------------------------------------------------------
(* Properties *)

Uninterrupted == \A t \in Turns : ~aborted[t]

\* In a session that never interrupted a turn, a task at work is the one that
\* `running' names, so there is one at most: the check at the head of start is
\* enough until an abort is involved, although the task is registered much later.
OneTurnUninterrupted ==
  Uninterrupted => \A t \in Turns : task[t] \in Live => running = t

\* The two records of how a turn ended agree, although interrupt and finish race
\* for them and an interrupt can meet the next turn. Only a failure that the store
\* did not take leaves the outcome of an interrupt that came first.
OutcomeAgrees ==
  \A t \in Turns : turns[t] # "none" /\ outcome[t] # "none"
    => \/ turns[t] = Terminal(outcome[t])
       \/ result[t] = "unrecorded" /\ outcome[t] = "interrupted"

\* A turn that ended is never shown as in progress again: an interrupt can store the
\* end of a turn whose start has not been published yet.
ClosedStaysClosed ==
  [][\A t \in Turns : turns[t] \in Ended => turns'[t] \in Ended \cup {"none"}]_vars

\* What `running' names is a task that has neither ended nor been aborted, so an
\* interrupt always stops something and a session is never blocked by a dead turn.
TrackedIsLive == running # NoTurn => task[running] \in Live /\ ~aborted[running]

\* A session is not deleted while a task of it awaits its provider, in a session
\* that never interrupted a turn, although a resume that was under way since before
\* the turn may already have replaced the status of the thread.
DeleteWaits ==
  Uninterrupted => \A t \in Turns : task[t] \in {"agent", "answered"} => thread.exists

\* A turn that completed has its answer in the transcript, in a session that never
\* interrupted a turn: what is to be stored is found by counting messages.
AnswersKept ==
  Uninterrupted =>
    \A t \in Turns : turns[t] # "none" /\ outcome[t] \in {"completed", "refused"}
      => \E i \in DOMAIN messages : messages[i] = [turn |-> t, role |-> "assistant"]

-----------------------------------------------------------------------------
(* Parts of the inductive invariant of ApiSessionProofs *)

\* A start holds the mutex of `running', and the session has no turn meanwhile.
StartsAlone == \A c \in Callers : pc[c] \in Starting => owner = c /\ running = NoTurn

\* Rows of turns go with the row of the thread.
RowsHaveThread == ~thread.exists => \A t \in Turns : turns[t] = "none"

\* Turns that were not started yet have left no trace.
Untouched(t) == task[t] = "none" /\ ~aborted[t] /\ journal.ended[t] = "none"

FreshTurns ==
  /\ \A t \in Turns : t > issued => Untouched(t) /\ turns[t] = "none" /\ outcome[t] = "none"
  /\ active <= issued
  /\ \A c \in Callers : pc[c] \in {"startSave", "startSpawn"} =>
       mine[c] \in 1..issued /\ Untouched(mine[c])
  /\ \A c \in Callers : pc[c] = "startSave" =>
       /\ active # mine[c] /\ outcome[mine[c]] = "none"
       /\ turns[mine[c]] \in {"dispatching", "none"}

\* Until a turn is finished, and if its failure could not be stored, the one outcome
\* that it may have is of an interrupt.
InterruptedOnly ==
  \A t \in Turns :
    /\ task[t] \in {"none", "agent"} => result[t] = "none"
    /\ task[t] \in {"none", "agent", "answered"} \/ result[t] = "unrecorded"
         => outcome[t] \in {"none", "interrupted"}

\* The completion of a turn is published after its outcome is stored, and once it is
\* stored the setting does not name the turn.
FinishOrder ==
  /\ \A t \in Turns : journal.ended[t] # "none" => task[t] \in {"published", "gone"}
  /\ active # NoTurn =>
       task[active] \notin {"saved", "published"} /\ journal.ended[active] = "none"
  /\ \A t \in Turns : task[t] \in Live \ {"agent"} => result[t] \in Results
  /\ \A t \in Turns : task[t] = "saved" /\ turns[t] # "none" /\ outcome[t] # "none"
       => \/ Terminal(outcome[t]) = Terminal(result[t])
          \/ result[t] = "unrecorded" /\ outcome[t] = "interrupted"

\* Without an interrupt nothing ends a turn before its task, and nothing else adds
\* to the transcript.
UndisturbedTurns ==
  Uninterrupted =>
    /\ \A c \in Callers : pc[c] \notin {"interruptSave", "interruptPublish"}
    /\ \A t \in Turns : task[t] \in {"agent", "answered"} =>
         thread.exists /\ turns[t] = "inProgress" /\ Len(messages) = history[t]
    /\ \A c \in Callers : pc[c] = "startSave" =>
         /\ thread.exists /\ turns[mine[c]] = "dispatching"
         /\ Len(messages) + 1 = history[mine[c]]
    /\ \A c \in Callers : pc[c] = "startSpawn" =>
         /\ thread.exists /\ turns[mine[c]] = "inProgress"
         /\ Len(messages) = history[mine[c]]

IInv ==
  /\ TypeOK /\ StartsAlone /\ RowsHaveThread /\ FreshTurns /\ FinishOrder
  /\ UndisturbedTurns /\ InterruptedOnly
  /\ TrackedIsLive /\ OneTurnUninterrupted /\ OutcomeAgrees /\ DeleteWaits /\ AnswersKept

=============================================================================
