--------------------------- MODULE ThreadSession ---------------------------
(***************************************************************************)
(* One Codex thread of the hub: the per-thread actor of Sessions            *)
(* (crates/hub-runtime/src/lib.rs), the rows the Store keeps about it       *)
(* (crates/hub-db), the journal written by the event bus (crates/           *)
(* hub-events), the connections to the Codex app-server (crates/            *)
(* provider-codex) and the commands of the desktop that use them.           *)
(*                                                                         *)
(* Several commands run at once. Each takes the Sessions of the current     *)
(* connection, waits for the actor of the thread, and talks to the server.  *)
(* A connection may die, be shut down or be replaced at any time, while     *)
(* commands that hold the old one are still running, and the application    *)
(* may crash.                                                               *)
(*                                                                         *)
(* A turn has the number of the intent (row of turns) that started it.      *)
(***************************************************************************)
EXTENDS Integers, Sequences

CONSTANTS
  Callers,          \* commands that may run at the same time
  None,             \* no caller
  Offered,          \* bound: commands that are issued, of those in Commands
  MaxTurns,         \* bound: intents that are recorded
  MaxConnections    \* bound: app-server processes that are spawned

\* Commands that go to the actor, to the whole connection, and to the rows.
Commands == {"resume", "read", "start", "steer", "interrupt", "archive", "restore",
             "reconnect", "set_binary", "delete"}

ASSUME CallerAssumption == None \notin Callers
ASSUME BoundAssumption == MaxTurns \in Nat \ {0} /\ MaxConnections \in Nat \ {0}
ASSUME OfferedAssumption == Offered \subseteq Commands

VARIABLES
  thread,    \* row of provider_threads: exists, status, archived
  turns,     \* rows of turns: status and whether provider_turn_id is known
  journal,   \* events: latest turn_started of the thread, turn_completed of each turn
  conn,      \* the latest connection
  server,    \* [connection -> state of its app-server process]
  wire,      \* [connection -> notifications that its reader has not read]
  remote,    \* the thread in Codex: active turn, stopping, archived
  actor,     \* [connection -> ThreadState and owner of its mutex]
  workflow,  \* owner of workflow_lock and of running_plans (manage_sessions has both)
  pc,        \* [caller -> where its command is]
  via,       \* [caller -> the connection whose Sessions it uses]
  mine,      \* [caller -> its intent]
  reply,     \* [caller -> answer of its last request]
  issued     \* the intents so far

store == <<thread, turns, journal>>
provider == <<conn, server, wire, remote>>
caller == <<pc, via, mine, reply, issued>>
vars == <<thread, turns, journal, conn, server, wire, remote, actor, workflow,
          pc, via, mine, reply, issued>>

-----------------------------------------------------------------------------
(* Types *)

NoTurn == 0
Turns == 1..MaxTurns
Connections == 1..MaxConnections
Failed == -1      \* the request returned Err: rejected, timed out or disconnected

\* Statuses of a turn that ended ("failed" is treated like "completed").
Ended == {"completed", "interrupted"}
\* Statuses that check_thread_idle refuses.
Busy == {"running", "inProgress", "dispatching"}

\* "died": the process ended by itself; "shut": the hub killed it.
ProcessState == {"none", "up", "died", "shut"}

Event == [kind : {"turn_started"}, turn : Turns, status : {"inProgress"}]
           \cup [kind : {"turn_completed"}, turn : Turns, status : Ended]

\* Points at which a command holds the actor of the thread.
Holding ==
  {"resumeWait", "resumeSave", "readWait", "readSave", "startCheck", "startIntent",
   "startSend", "startWait", "steerWait", "interruptWait", "interruptRead",
   "archiveRead", "archiveWait", "restoreRead", "restoreWait"}
\* Points at which it waits for the actor, or for the connection.
Waiting == {"resume", "read", "start", "steer", "interrupt", "archive", "restore"}
\* Commands that hold workflow_lock.
Managing == {"archive", "archiveRead", "archiveWait", "restore", "restoreRead",
             "restoreWait"}

StoreType ==
  /\ thread \in [exists : BOOLEAN, status : {"idle", "running", "inProgress"} \cup Ended,
                 archived : BOOLEAN]
  /\ turns \in [Turns -> [status : {"none", "dispatching", "inProgress", "unknown"} \cup Ended,
                          linked : BOOLEAN]]
  /\ journal \in [started : {NoTurn} \cup Turns,
                  ended : [Turns -> {"none"} \cup Ended]]

ProviderType ==
  /\ conn \in Connections
  /\ server \in [Connections -> ProcessState]
  /\ wire \in [Connections -> Seq(Event)]
  /\ remote \in [active : {NoTurn} \cup Turns, stopping : BOOLEAN, archived : BOOLEAN]

ActorType ==
  actor \in [Connections -> [owner : Callers \cup {None}, active : {NoTurn} \cup Turns,
                             reconciled : BOOLEAN]]

PointType == pc \in [Callers -> {"idle", "reconnect"} \cup Waiting \cup Holding]

CommandType ==
  /\ workflow \in Callers \cup {None}
  /\ via \in [Callers -> Connections]
  /\ mine \in [Callers -> {NoTurn} \cup Turns]
  /\ issued \in {0} \cup Turns

ReplyType == reply \in [Callers -> {Failed, NoTurn} \cup Turns]

TypeOK == StoreType /\ ProviderType /\ ActorType /\ PointType /\ CommandType /\ ReplyType

-----------------------------------------------------------------------------
(* Operations of the store *)

\* Mutant: only turns that Codex has acknowledged count.
PendingTurnStarted == \E t \in Turns : turns[t].status = "inProgress"

\* A row of turns that an archive or a delete waits for.
PendingTurn == \E t \in Turns : turns[t].status \in Busy

check_thread_idle == thread.exists /\ thread.status \notin Busy /\ ~PendingTurn

\* Mutant: the reply overwrites a completion that raced ahead of it.
ResolvedByReply(t, linked, status) ==
  IF turns[t].status = "none" THEN turns
  ELSE [turns EXCEPT ![t] = [status |-> status, linked |-> linked]]

\* The status the turn row gets from the reply or the error of turn/start; a
\* completion that is already in the journal wins.
Resolved(t, linked, status) ==
  IF turns[t].status = "none" THEN turns
  ELSE [turns EXCEPT ![t] =
         [status |-> IF linked /\ journal.ended[t] # "none" THEN journal.ended[t] ELSE status,
          linked |-> linked]]

\* The journal with event m; the row of the thread is looked up by its Codex id.
append_event(m) ==
  IF m.kind = "turn_completed" THEN [journal EXCEPT !.ended[m.turn] = m.status]
  ELSE IF thread.exists THEN [journal EXCEPT !.started = m.turn]
  ELSE journal

\* A start that comes after the completion of its turn changes nothing.
LateStart(m) == m.status = "inProgress" /\ journal.ended[m.turn] # "none"

\* update_provider_status on the row of the turn: a finished turn is not reopened.
TurnsAfter(m) ==
  IF LateStart(m) \/ ~turns[m.turn].linked THEN turns
  ELSE IF turns[m.turn].status \in Ended /\ m.status = "inProgress" THEN turns
  ELSE [turns EXCEPT ![m.turn].status = m.status]

\* Mutant: the completion of any turn sets the row of the thread.
SupersededNever(m) == FALSE

\* The thread has started a turn other than the one of m.
Superseded(m) == append_event(m).started \notin {NoTurn, m.turn}

\* update_provider_status on the row of the thread: only its latest turn counts.
ThreadAfter(m) ==
  IF LateStart(m) \/ Superseded(m) \/ ~thread.exists THEN thread
  ELSE [thread EXCEPT !.status = m.status]

\* save_thread inserts the row again when it is gone.
save_thread(status) ==
  [exists |-> TRUE, status |-> status, archived |-> thread.exists /\ thread.archived]

-----------------------------------------------------------------------------
(* Connections *)

Up(e) == server[e] = "up"

\* CodexProvider::is_alive: the reader has not reached the end of its input.
Alive(e) == Up(e) \/ (server[e] = "died" /\ wire[e] # <<>>)

Fresh == [owner |-> None, active |-> NoTurn, reconciled |-> FALSE]

\* The thread in Codex when the process that ran its turn is gone.
Stopped == [remote EXCEPT !.active = NoTurn, !.stopping = FALSE]

\* AppState::sessions: the current connection, or a new one.
Connect(c) ==
  \/ /\ Alive(conn)
     /\ via' = [via EXCEPT ![c] = conn]
     /\ UNCHANGED <<conn, server>>
  \/ /\ ~Alive(conn)
     /\ conn + 1 \in Connections
     /\ conn' = conn + 1
     /\ server' = [server EXCEPT ![conn + 1] = "up"]
     /\ via' = [via EXCEPT ![c] = conn + 1]

\* What the caller's actor knows, and whether its mutex is free.
Actor(c) == actor[via[c]]
Free(c) == Actor(c).owner = None

\* The caller takes or keeps the actor, and goes to another point.
Keep(c, point, active, reconciled) ==
  /\ actor' = [actor EXCEPT ![via[c]] =
       [owner |-> c, active |-> active, reconciled |-> reconciled]]
  /\ pc' = [pc EXCEPT ![c] = point]

\* The command returns: the guard of the actor is dropped, and workflow_lock.
Finish(c, active, reconciled) ==
  /\ actor' = [actor EXCEPT ![via[c]] =
       [owner |-> None, active |-> active, reconciled |-> reconciled]]
  /\ pc' = [pc EXCEPT ![c] = "idle"]
  /\ workflow' = IF workflow = c THEN None ELSE workflow
  /\ mine' = [mine EXCEPT ![c] = NoTurn]
  /\ reply' = [reply EXCEPT ![c] = NoTurn]
  /\ UNCHANGED <<via, issued>>

\* A request that changes nothing in Codex and returns the active turn, or fails.
Read(c) ==
  \E answer \in {Failed} \cup (IF Up(via[c]) THEN {remote.active} ELSE {}) :
    reply' = [reply EXCEPT ![c] = answer]

\* The answer to a request that has been carried out may be lost.
Answer(c, value) == \E a \in {value, Failed} : reply' = [reply EXCEPT ![c] = a]

\* A request that was not carried out.
Rejected(c) ==
  /\ reply' = [reply EXCEPT ![c] = Failed]
  /\ UNCHANGED <<wire, remote>>

-----------------------------------------------------------------------------
(* The thread has just been created by Sessions::create_with_model *)

Init ==
  /\ thread = [exists |-> TRUE, status |-> "idle", archived |-> FALSE]
  /\ turns = [t \in Turns |-> [status |-> "none", linked |-> FALSE]]
  /\ journal = [started |-> NoTurn, ended |-> [t \in Turns |-> "none"]]
  /\ conn = 1
  /\ server = [e \in Connections |-> IF e = 1 THEN "up" ELSE "none"]
  /\ wire = [e \in Connections |-> <<>>]
  /\ remote = [active |-> NoTurn, stopping |-> FALSE, archived |-> FALSE]
  /\ actor = [e \in Connections |-> [Fresh EXCEPT !.reconciled = (e = 1)]]
  /\ workflow = None
  /\ pc = [c \in Callers |-> "idle"]
  /\ via = [c \in Callers |-> 1]
  /\ mine = [c \in Callers |-> NoTurn]
  /\ reply = [c \in Callers |-> NoTurn]
  /\ issued = 0

-----------------------------------------------------------------------------
(* Commands of the desktop take the Sessions of the current connection *)

\* resume_task, read_task, send_turn, steer_turn, interrupt_turn.
Call(c, point) ==
  /\ point \in Offered
  /\ pc[c] = "idle"
  /\ thread.exists
  /\ Connect(c)
  /\ pc' = [pc EXCEPT ![c] = point]
  /\ UNCHANGED <<store, wire, remote, actor, workflow, mine, reply, issued>>

\* manage_sessions: archive or restore, under workflow_lock.
Manage(c, point) ==
  /\ point \in Offered
  /\ pc[c] = "idle"
  /\ workflow = None
  /\ check_thread_idle
  /\ Connect(c)
  /\ pc' = [pc EXCEPT ![c] = point]
  /\ workflow' = c
  /\ UNCHANGED <<store, wire, remote, actor, mine, reply, issued>>

\* manage_sessions: delete needs neither the actor nor a connection.
delete_thread ==
  /\ "delete" \in Offered
  /\ workflow = None
  /\ check_thread_idle
  /\ thread' = [exists |-> FALSE, status |-> "idle", archived |-> FALSE]
  /\ turns' = [t \in Turns |-> [status |-> "none", linked |-> FALSE]]
  /\ journal' = [started |-> NoTurn, ended |-> [t \in Turns |-> "none"]]
  /\ UNCHANGED <<provider, actor, workflow, caller>>

\* The connection is taken and its process killed. The reader goes on until the
\* end of what the process had written.
Shutdown ==
  /\ IF server[conn] \in {"up", "died"}
     THEN server' = [server EXCEPT ![conn] = "shut"]
     ELSE UNCHANGED server
  /\ remote' = Stopped
  /\ UNCHANGED <<conn, wire>>

NoRunningRow == thread.status \notin {"running", "inProgress"}

\* reconnect_codex looks at running_plans and the rows, and then waits for the
\* connection.
reconnect_codex(c) ==
  /\ "reconnect" \in Offered
  /\ pc[c] = "idle"
  /\ workflow = None
  /\ NoRunningRow
  /\ pc' = [pc EXCEPT ![c] = "reconnect"]
  /\ UNCHANGED <<store, provider, actor, workflow, via, mine, reply, issued>>

ReconnectShutdown(c) ==
  /\ pc[c] = "reconnect"
  /\ Shutdown
  /\ pc' = [pc EXCEPT ![c] = "idle"]
  /\ UNCHANGED <<store, actor, workflow, via, mine, reply, issued>>

\* set_codex_binary looks at the rows while it has running_plans and the connection.
set_codex_binary ==
  /\ "set_binary" \in Offered
  /\ workflow = None
  /\ NoRunningRow
  /\ Shutdown
  /\ UNCHANGED <<store, actor, workflow, caller>>

-----------------------------------------------------------------------------
(* Sessions::resume and Sessions::read *)

SnapshotStatus(active) == IF active = NoTurn THEN "idle" ELSE "running"

\* An archived thread is only viewed.
resume(c) ==
  /\ pc[c] = "resume"
  /\ Free(c)
  /\ IF thread.exists /\ ~thread.archived
     THEN /\ Keep(c, "resumeWait", Actor(c).active, FALSE)
          /\ Read(c)
          /\ UNCHANGED <<workflow, via, mine, issued>>
     ELSE Finish(c, IF thread.exists THEN NoTurn ELSE Actor(c).active, FALSE)
  /\ UNCHANGED <<store, provider>>

\* Mutant: the error of the provider is not propagated.
ResumeReplyUnchecked(c) ==
  /\ pc[c] = "resumeWait"
  /\ Keep(c, "resumeSave", reply[c], TRUE)
  /\ UNCHANGED <<store, provider, workflow, via, mine, reply, issued>>

ResumeReply(c) ==
  /\ pc[c] = "resumeWait"
  /\ IF reply[c] = Failed
     THEN Finish(c, Actor(c).active, FALSE)
     ELSE /\ Keep(c, "resumeSave", reply[c], TRUE)
          /\ UNCHANGED <<workflow, via, mine, reply, issued>>
  /\ UNCHANGED <<store, provider>>

read(c) ==
  /\ pc[c] = "read"
  /\ Free(c)
  /\ IF thread.exists
     THEN /\ Keep(c, "readWait", Actor(c).active, Actor(c).reconciled)
          /\ Read(c)
          /\ UNCHANGED <<workflow, via, mine, issued>>
     ELSE Finish(c, Actor(c).active, Actor(c).reconciled)
  /\ UNCHANGED <<store, provider>>

ReadReply(c) ==
  /\ pc[c] = "readWait"
  /\ IF reply[c] = Failed
     THEN Finish(c, Actor(c).active, Actor(c).reconciled)
     ELSE /\ Keep(c, "readSave", reply[c], FALSE)
          /\ UNCHANGED <<workflow, via, mine, reply, issued>>
  /\ UNCHANGED <<store, provider>>

SaveSnapshot(c) ==
  /\ pc[c] \in {"resumeSave", "readSave"}
  /\ thread' = save_thread(SnapshotStatus(Actor(c).active))
  /\ Finish(c, Actor(c).active, Actor(c).reconciled)
  /\ UNCHANGED <<turns, journal, provider>>

-----------------------------------------------------------------------------
(* Sessions::start_with_options *)

\* Mutant: start does not require a reconciled actor.
CanStartAnyway(c) == thread.exists /\ ~thread.archived

CanStart(c) == thread.exists /\ ~thread.archived /\ Actor(c).reconciled

\* The identity of the intent, and the bound on their number.
Intend(c) ==
  /\ issued + 1 \in Turns
  /\ issued' = issued + 1
  /\ mine' = [mine EXCEPT ![c] = issued + 1]

start(c) ==
  /\ pc[c] = "start"
  /\ Free(c)
  /\ \/ /\ ~CanStart(c)
        /\ Finish(c, Actor(c).active, Actor(c).reconciled)
     \/ /\ CanStart(c)
        /\ Actor(c).active = NoTurn
        /\ Keep(c, "startIntent", NoTurn, TRUE)
        /\ Intend(c)
        /\ UNCHANGED <<workflow, via, reply>>
     \/ /\ CanStart(c)
        /\ Actor(c).active # NoTurn
        /\ Keep(c, "startCheck", Actor(c).active, TRUE)
        /\ Read(c)
        /\ UNCHANGED <<workflow, via, mine, issued>>
  /\ UNCHANGED <<store, provider>>

\* The turn the actor knows may have ended meanwhile.
StartCheck(c) ==
  /\ pc[c] = "startCheck"
  /\ IF reply[c] = NoTurn
     THEN /\ Keep(c, "startIntent", NoTurn, TRUE)
          /\ Intend(c)
          /\ UNCHANGED <<workflow, via, reply>>
     ELSE Finish(c, IF reply[c] = Failed THEN Actor(c).active ELSE reply[c], TRUE)
  /\ UNCHANGED <<store, provider>>

\* The row needs the row of the thread (a foreign key).
record_turn_intent(c) ==
  /\ pc[c] = "startIntent"
  /\ IF thread.exists
     THEN /\ turns' = [turns EXCEPT ![mine[c]].status = "dispatching"]
          /\ Keep(c, "startSend", Actor(c).active, FALSE)
          /\ UNCHANGED <<workflow, via, mine, reply, issued>>
     ELSE /\ Finish(c, Actor(c).active, Actor(c).reconciled)
          /\ UNCHANGED turns
  /\ UNCHANGED <<thread, journal, provider>>

\* turn/start; its effect is atomic with sending it.
StartSend(c) ==
  /\ pc[c] = "startSend"
  /\ Keep(c, "startWait", Actor(c).active, FALSE)
  /\ \/ /\ Up(via[c])
        /\ remote' = [remote EXCEPT !.active = mine[c], !.stopping = FALSE]
        /\ wire' = [wire EXCEPT ![via[c]] = Append(@,
             [kind |-> "turn_started", turn |-> mine[c], status |-> "inProgress"])]
        /\ Answer(c, mine[c])
     \/ Rejected(c)
  /\ UNCHANGED <<store, conn, server, workflow, via, mine, issued>>

\* Mutant: an ambiguous start leaves the actor reconciled.
StartReplyTrusting(c) ==
  /\ pc[c] = "startWait"
  /\ LET ok == reply[c] # Failed
     IN /\ turns' = Resolved(mine[c], ok, IF ok THEN "inProgress" ELSE "unknown")
        /\ Finish(c, IF ok THEN reply[c] ELSE Actor(c).active, TRUE)
  /\ UNCHANGED <<thread, journal, provider>>

\* resolve_turn_intent. Only an answer leaves the actor reconciled.
StartReply(c) ==
  /\ pc[c] = "startWait"
  /\ LET ok == reply[c] # Failed
     IN /\ turns' = Resolved(mine[c], ok, IF ok THEN "inProgress" ELSE "unknown")
        /\ Finish(c, IF ok THEN reply[c] ELSE Actor(c).active, ok)
  /\ UNCHANGED <<thread, journal, provider>>

-----------------------------------------------------------------------------
(* Sessions::steer and Sessions::interrupt *)

CanCommand(c) == thread.exists /\ Actor(c).reconciled /\ Actor(c).active # NoTurn

steer(c) ==
  /\ pc[c] = "steer"
  /\ Free(c)
  /\ IF CanCommand(c)
     THEN /\ Keep(c, "steerWait", Actor(c).active, FALSE)
          /\ IF Up(via[c]) /\ remote.active = Actor(c).active
             THEN Answer(c, NoTurn)
             ELSE reply' = [reply EXCEPT ![c] = Failed]
          /\ UNCHANGED <<workflow, via, mine, issued>>
     ELSE Finish(c, Actor(c).active, Actor(c).reconciled)
  /\ UNCHANGED <<store, provider>>

SteerReply(c) ==
  /\ pc[c] = "steerWait"
  /\ Finish(c, Actor(c).active, reply[c] # Failed)
  /\ UNCHANGED <<store, provider>>

interrupt(c) ==
  /\ pc[c] = "interrupt"
  /\ Free(c)
  /\ \/ /\ ~CanCommand(c)
        /\ Finish(c, Actor(c).active, Actor(c).reconciled)
        /\ UNCHANGED <<wire, remote>>
     \/ /\ CanCommand(c)
        /\ Keep(c, "interruptWait", Actor(c).active, FALSE)
        /\ \/ /\ Up(via[c])
              /\ remote' = [remote EXCEPT !.stopping = @ \/ remote.active = Actor(c).active]
              /\ Answer(c, NoTurn)
              /\ UNCHANGED wire
           \/ Rejected(c)
        /\ UNCHANGED <<workflow, via, mine, issued>>
  /\ UNCHANGED <<store, conn, server>>

\* The acknowledgement does not prove that the turn ended: read the thread.
InterruptReply(c) ==
  /\ pc[c] = "interruptWait"
  /\ IF reply[c] = Failed
     THEN Finish(c, Actor(c).active, FALSE)
     ELSE /\ Keep(c, "interruptRead", Actor(c).active, FALSE)
          /\ Read(c)
          /\ UNCHANGED <<workflow, via, mine, issued>>
  /\ UNCHANGED <<store, provider>>

InterruptRead(c) ==
  /\ pc[c] = "interruptRead"
  /\ IF reply[c] = Failed
     THEN Finish(c, Actor(c).active, FALSE)
     ELSE Finish(c, reply[c], TRUE)
  /\ UNCHANGED <<store, provider>>

-----------------------------------------------------------------------------
(* Sessions::set_archived *)

\* The last check before the provider is read.
set_archived(c, point, next) ==
  /\ pc[c] = point
  /\ Free(c)
  /\ IF check_thread_idle
     THEN /\ Keep(c, next, Actor(c).active, Actor(c).reconciled)
          /\ Read(c)
          /\ UNCHANGED <<workflow, via, mine, issued>>
     ELSE Finish(c, Actor(c).active, Actor(c).reconciled)
  /\ UNCHANGED <<store, provider>>

\* Mutant: the turn that the provider reports as active is ignored.
ArchiveRequestBusy(c, point, next, archived) ==
  /\ pc[c] = point
  /\ \/ /\ reply[c] = Failed
        /\ Finish(c, Actor(c).active, Actor(c).reconciled)
        /\ UNCHANGED <<wire, remote>>
     \/ /\ reply[c] # Failed
        /\ Keep(c, next, Actor(c).active, FALSE)
        /\ Up(via[c])
        /\ remote' = [remote EXCEPT !.archived = archived]
        /\ Answer(c, NoTurn)
        /\ UNCHANGED <<wire, workflow, via, mine, issued>>
  /\ UNCHANGED <<store, conn, server>>

\* Only a thread without an active turn is archived (restored) in Codex.
ArchiveRequest(c, point, next, archived) ==
  /\ pc[c] = point
  /\ \/ /\ reply[c] # NoTurn
        /\ Finish(c, Actor(c).active, Actor(c).reconciled)
        /\ UNCHANGED <<wire, remote>>
     \/ /\ reply[c] = NoTurn
        /\ Keep(c, next, Actor(c).active, FALSE)
        /\ \/ /\ Up(via[c])
              /\ remote' = [remote EXCEPT !.archived = archived]
              /\ Answer(c, NoTurn)
              /\ UNCHANGED wire
           \/ Rejected(c)
        /\ UNCHANGED <<workflow, via, mine, issued>>
  /\ UNCHANGED <<store, conn, server>>

\* set_thread_archived checks the rows again.
ArchiveReply(c, point, archived) ==
  /\ pc[c] = point
  /\ IF reply[c] # Failed /\ check_thread_idle
     THEN thread' = [thread EXCEPT !.archived = archived]
     ELSE UNCHANGED thread
  /\ Finish(c, IF reply[c] = Failed THEN Actor(c).active ELSE NoTurn, FALSE)
  /\ UNCHANGED <<turns, journal, provider>>

-----------------------------------------------------------------------------
(* Events, and the environment *)

\* EventBus::publish from the reader of connection e.
Publish(e) ==
  /\ wire[e] # <<>>
  /\ LET m == Head(wire[e])
     IN /\ journal' = append_event(m)
        /\ turns' = TurnsAfter(m)
        /\ thread' = ThreadAfter(m)
  /\ wire' = [wire EXCEPT ![e] = Tail(@)]
  /\ UNCHANGED <<conn, server, remote, actor, workflow, caller>>

TurnEnds ==
  /\ remote.active # NoTurn
  /\ remote' = Stopped
  /\ wire' = [wire EXCEPT ![conn] = Append(@,
       [kind |-> "turn_completed", turn |-> remote.active,
        status |-> IF remote.stopping THEN "interrupted" ELSE "completed"])]
  /\ UNCHANGED <<store, conn, server, actor, workflow, caller>>

\* The process ends by itself; the reader goes on to the end of its output.
ServerDies ==
  /\ Up(conn)
  /\ server' = [server EXCEPT ![conn] = "died"]
  /\ remote' = Stopped
  /\ UNCHANGED <<store, conn, wire, actor, workflow, caller>>

\* The sink or the provider journal fails: the reader stops, and the process is
\* killed when its connection is dropped.
ReaderStops ==
  /\ Up(conn)
  /\ server' = [server EXCEPT ![conn] = "shut"]
  /\ wire' = [wire EXCEPT ![conn] = <<>>]
  /\ remote' = Stopped
  /\ UNCHANGED <<store, conn, actor, workflow, caller>>

\* The application ends, and every app-server with it; the store remains.
Crash ==
  /\ conn + 1 \in Connections
  /\ server' = [e \in Connections |-> IF server[e] = "none" THEN "none" ELSE "shut"]
  /\ wire' = [e \in Connections |-> <<>>]
  /\ remote' = Stopped
  /\ actor' = [e \in Connections |-> Fresh]
  /\ workflow' = None
  /\ pc' = [c \in Callers |-> "idle"]
  /\ mine' = [c \in Callers |-> NoTurn]
  /\ reply' = [c \in Callers |-> NoTurn]
  /\ UNCHANGED <<store, conn, via, issued>>

-----------------------------------------------------------------------------

Command(c) ==
  \/ \E point \in {"resume", "read", "start", "steer", "interrupt"} : Call(c, point)
  \/ \E point \in {"archive", "restore"} : Manage(c, point)
  \/ reconnect_codex(c)
  \/ ReconnectShutdown(c)
  \/ resume(c) \/ ResumeReply(c)
  \/ read(c) \/ ReadReply(c)
  \/ SaveSnapshot(c)
  \/ start(c) \/ StartCheck(c) \/ record_turn_intent(c) \/ StartSend(c) \/ StartReply(c)
  \/ steer(c) \/ SteerReply(c)
  \/ interrupt(c) \/ InterruptReply(c) \/ InterruptRead(c)
  \/ set_archived(c, "archive", "archiveRead")
  \/ set_archived(c, "restore", "restoreRead")
  \/ ArchiveRequest(c, "archiveRead", "archiveWait", TRUE)
  \/ ArchiveRequest(c, "restoreRead", "restoreWait", FALSE)
  \/ ArchiveReply(c, "archiveWait", TRUE)
  \/ ArchiveReply(c, "restoreWait", FALSE)

Next ==
  \/ \E c \in Callers : Command(c)
  \/ \E e \in Connections : Publish(e)
  \/ delete_thread
  \/ set_codex_binary
  \/ TurnEnds
  \/ ServerDies
  \/ ReaderStops
  \/ Crash

Spec == Init /\ [][Next]_vars

-----------------------------------------------------------------------------
(* Properties *)

\* A turn starts in this step.
TurnStarts == remote'.active \notin {NoTurn, remote.active}

\* No turn/start is sent while Codex still runs a turn of the thread, whatever
\* was lost or reconnected in between ("there is no blind retry of ambiguous
\* requests", docs/PROTOCOLS.md).
OneActiveTurn == [][TurnStarts => remote.active = NoTurn]_vars

\* When a turn starts, its intent is in the store and its thread is not deleted,
\* although deleting takes no actor, and commands of a replaced connection share
\* none with those of the new one.
DispatchIsRecorded ==
  [][TurnStarts => turns[remote'.active].status = "dispatching" /\ thread.exists]_vars

\* A reconciled actor that knows of no active turn is right: the provider has
\* none. This is what start relies on when it does not read the thread.
ReconciledIsTrue ==
  \A e \in Connections :
    Up(e) /\ actor[e].owner = None /\ actor[e].reconciled /\ actor[e].active = NoTurn
      => remote.active = NoTurn

\* The row of a turn says that it ended if and only if its completion is in the
\* journal, whichever of the reply and the notifications came first.
RowsFollowJournal ==
  \A t \in Turns :
    /\ turns[t].linked /\ journal.ended[t] # "none" => turns[t].status = journal.ended[t]
    /\ turns[t].status \in Ended => journal.ended[t] = turns[t].status

\* The row of the thread follows its latest turn: it is in progress only until
\* the completion of that turn, and the completion of an older turn, read late
\* from a connection that was replaced, does not end it.
LatestTurnDecides ==
  /\ thread.status = "inProgress" /\ journal.started # NoTurn
       => journal.ended[journal.started] = "none"
  /\ thread.status \in Ended /\ journal.started # NoTurn
       => journal.ended[journal.started] # "none"

\* A command whose connection is still in use archives only a thread without an
\* active turn, even one whose start timed out and left no busy row. (Commands of
\* a connection that was replaced meanwhile are not serialized with the new ones.)
ArchivedWhenQuiet ==
  [][\A c \in Callers :
       pc[c] = "archiveWait" /\ Up(via[c]) /\ ~thread.archived /\ thread'.archived
         => remote.active = NoTurn]_vars

-----------------------------------------------------------------------------
(* Parts of the inductive invariant of ThreadSessionProofs *)

\* Only the latest connection is up; later ones have no actor yet.
LatestIsUp ==
  /\ \A e \in Connections : Up(e) => e = conn
  /\ \A e \in Connections : e > conn => actor[e] = Fresh
  /\ \A c \in Callers : via[c] <= conn

\* A command inside the actor owns its mutex, and checks or steers only a turn.
ActorLocked ==
  \A c \in Callers :
    /\ pc[c] \in Holding => Actor(c).owner = c
    /\ pc[c] \in {"startCheck", "steerWait"} => Actor(c).active # NoTurn

\* A reconciled actor that knows of no active turn is right, even while owned.
Informed ==
  \A e \in Connections :
    Up(e) /\ actor[e].reconciled /\ actor[e].active = NoTurn => remote.active = NoTurn

\* Points at which a command relies on there being no active turn, and points at
\* which it is about to learn whether there is one.
Relying == {"startIntent", "startSend", "archiveWait", "restoreWait"}
Learning == {"resumeWait", "startCheck", "startWait", "interruptRead", "archiveRead",
             "restoreRead"}

\* While a turn is active, no command of the live connection relies on there
\* being none, or is about to learn that there is none.
InFlight ==
  \A c \in Callers :
    Up(via[c]) /\ remote.active # NoTurn =>
      /\ pc[c] \notin Relying
      /\ pc[c] \in Learning => reply[c] # NoTurn

\* Intents have identities of their own, and rows only once they are recorded.
IntentsUnique ==
  /\ \A c \in Callers : mine[c] <= issued
  /\ \A c, d \in Callers : c # d /\ mine[c] = mine[d] => mine[c] = NoTurn
  /\ \A c \in Callers : pc[c] \in {"startIntent", "startSend", "startWait"}
                          => mine[c] # NoTurn
  /\ \A t \in Turns : t > issued => turns[t] = [status |-> "none", linked |-> FALSE]

\* The row of a start that is under way; it keeps the thread from being deleted.
IntentPending ==
  \A c \in Callers :
    /\ pc[c] = "startIntent" => turns[mine[c]] = [status |-> "none", linked |-> FALSE]
    /\ pc[c] \in {"startSend", "startWait"} =>
         /\ turns[mine[c]] = [status |-> "dispatching", linked |-> FALSE]
         /\ thread.exists

\* Only the row of an answered start says that its turn ended.
EndedIsLinked == \A t \in Turns : turns[t].status \in Ended => turns[t].linked

IInv ==
  /\ TypeOK /\ LatestIsUp /\ ActorLocked /\ Informed /\ InFlight
  /\ IntentsUnique /\ IntentPending /\ EndedIsLinked /\ RowsFollowJournal

\* The row of a deleted thread, until save_thread inserts it again.
DeletedIsIdle == ~thread.exists => thread.status = "idle"

\* A start is read before everything else about its turn.
StartsComeFirst ==
  \A e \in Connections : \A n \in DOMAIN wire[e] :
    wire[e][n].kind = "turn_started" =>
      /\ journal.ended[wire[e][n].turn] = "none"
      /\ \A f \in Connections : \A k \in DOMAIN wire[f] :
           f # e \/ k < n => wire[f][k].turn # wire[e][n].turn

\* The intents that no turn/start has been sent for.
Unsent(t) ==
  t > issued \/ \E c \in Callers : pc[c] \in {"startIntent", "startSend"} /\ mine[c] = t

\* Nobody has heard of a turn before its turn/start.
UnsentIsUnheard ==
  \A t \in Turns : Unsent(t) =>
    /\ journal.ended[t] = "none"
    /\ remote.active # t
    /\ \A e \in Connections : \A n \in DOMAIN wire[e] : wire[e][n].turn # t

\* The active turn is one of the latest connection.
ActiveIsLatest ==
  remote.active # NoTurn =>
    /\ Up(conn)
    /\ \A e \in Connections : \A n \in DOMAIN wire[e] :
         e # conn => wire[e][n].turn # remote.active

OrderInv ==
  /\ DeletedIsIdle /\ StartsComeFirst /\ UnsentIsUnheard /\ ActiveIsLatest
  /\ LatestTurnDecides

=============================================================================
