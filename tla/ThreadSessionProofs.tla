------------------------ MODULE ThreadSessionProofs ------------------------
(***************************************************************************)
(* Proofs about ThreadSession for every set of callers, every number of     *)
(* turns and connections, and every choice of commands.                     *)
(*                                                                         *)
(* The inductive invariant IInv is proved in four parts: the types, who     *)
(* owns the actor of which connection, what a reconciled actor knows, and   *)
(* what the rows of turns say. On it rests OrderInv: the order in which      *)
(* events are heard of, and the row of the thread that they decide.         *)
(***************************************************************************)
EXTENDS ThreadSession, TLAPS

-----------------------------------------------------------------------------
(* Types *)

LEMMA ConstantTypes ==
  /\ NoTurn = 0 /\ Failed = -1
  /\ Turns \subseteq Nat \ {0}
  /\ Connections \subseteq Nat \ {0}
  BY BoundAssumption DEF NoTurn, Failed, Turns, Connections

LEMMA EmptyWire == <<>> \in Seq(Event)
  OBVIOUS

LEMMA AppendWire ==
  ASSUME NEW s \in Seq(Event), NEW m \in Event
  PROVE  Append(s, m) \in Seq(Event)
  OBVIOUS

\* A start past its checks has an intent.
LEMMA IntentType ==
  ASSUME TypeOK, IntentsUnique, NEW c \in Callers,
         pc[c] \in {"startIntent", "startSend", "startWait"}
  PROVE  mine[c] \in Turns
  BY DEF TypeOK, CommandType, IntentsUnique

\* What a command reads of its own state has the right type.
LEMMA OwnType ==
  ASSUME TypeOK, NEW c \in Callers
  PROVE  /\ Actor(c).active \in {NoTurn} \cup Turns
         /\ Actor(c).reconciled \in BOOLEAN
         /\ Actor(c).owner \in Callers \cup {None}
         /\ via[c] \in Connections
         /\ mine[c] \in {NoTurn} \cup Turns
         /\ reply[c] \in {Failed, NoTurn} \cup Turns
  BY DEF TypeOK, Actor, ActorType, CommandType, ReplyType

LEMMA HoldingPoints ==
  {"resumeWait", "resumeSave", "readWait", "readSave", "startCheck", "startIntent",
   "startSend", "startWait", "steerWait", "interruptWait", "interruptRead",
   "archiveRead", "archiveWait", "restoreRead", "restoreWait"} = Holding
  BY DEF Holding

LEMMA KeepType ==
  ASSUME TypeOK, NEW c \in Callers, NEW point \in Holding,
         NEW active \in {NoTurn} \cup Turns, NEW reconciled \in BOOLEAN,
         Keep(c, point, active, reconciled)
  PROVE  ActorType' /\ PointType'
  BY DEF TypeOK, ActorType, PointType, CommandType, Keep

LEMMA FinishType ==
  ASSUME TypeOK, NEW c \in Callers,
         NEW active \in {NoTurn} \cup Turns, NEW reconciled \in BOOLEAN,
         Finish(c, active, reconciled)
  PROVE  ActorType' /\ PointType' /\ CommandType' /\ ReplyType'
  BY DEF TypeOK, ActorType, PointType, CommandType, ReplyType, Finish

LEMMA ReadType ==
  ASSUME TypeOK, NEW c \in Callers, Read(c)
  PROVE  ReplyType'
  BY DEF TypeOK, ReplyType, ProviderType, Read

LEMMA AnswerType ==
  ASSUME TypeOK, NEW c \in Callers, NEW value \in {NoTurn} \cup Turns, Answer(c, value)
  PROVE  ReplyType'
  BY DEF TypeOK, ReplyType, Answer

LEMMA RejectedType ==
  ASSUME TypeOK, NEW c \in Callers, Rejected(c), UNCHANGED <<conn, server>>
  PROVE  ReplyType' /\ ProviderType'
  BY DEF TypeOK, ReplyType, ProviderType, Rejected

LEMMA IntendType ==
  ASSUME TypeOK, NEW c \in Callers, Intend(c), UNCHANGED <<workflow, via>>
  PROVE  CommandType'
  BY DEF TypeOK, CommandType, Intend

LEMMA StoreSame == TypeOK /\ UNCHANGED store => StoreType'
  BY DEF TypeOK, StoreType, store
LEMMA ProviderSame == TypeOK /\ UNCHANGED provider => ProviderType'
  BY DEF TypeOK, ProviderType, provider
LEMMA ActorSame == TypeOK /\ UNCHANGED actor => ActorType'
  BY DEF TypeOK, ActorType
LEMMA CommandSame == TypeOK /\ UNCHANGED <<workflow, via, mine, issued>> => CommandType'
  BY DEF TypeOK, CommandType
LEMMA ReplySame == TypeOK /\ UNCHANGED reply => ReplyType'
  BY DEF TypeOK, ReplyType

LEMMA TypeParts ==
  StoreType' /\ ProviderType' /\ ActorType' /\ PointType' /\ CommandType' /\ ReplyType'
    => TypeOK'
  BY DEF TypeOK

\* The rows after a reply, and after an event.
LEMMA ResolvedType ==
  ASSUME TypeOK, NEW t \in Turns, NEW linked \in BOOLEAN,
         NEW status \in {"inProgress", "unknown"},
         turns' = Resolved(t, linked, status), UNCHANGED <<thread, journal>>
  PROVE  StoreType'
  BY DEF TypeOK, StoreType, Resolved

LEMMA PublishType ==
  ASSUME TypeOK, NEW m \in Event,
         journal' = append_event(m), turns' = TurnsAfter(m), thread' = ThreadAfter(m)
  PROVE  StoreType'
  <1>1. /\ m.turn \in Turns
        /\ m.status \in {"inProgress"} \cup Ended
        /\ m.kind = "turn_completed" => m.status \in Ended
    BY DEF Event
  <1>2. journal' \in [started : {NoTurn} \cup Turns, ended : [Turns -> {"none"} \cup Ended]]
    BY <1>1 DEF TypeOK, StoreType, append_event
  <1>3. turns' \in [Turns -> [status : {"none", "dispatching", "inProgress", "unknown"}
                                         \cup Ended,
                              linked : BOOLEAN]]
    BY <1>1 DEF TypeOK, StoreType, TurnsAfter
  <1>4. thread' \in [exists : BOOLEAN,
                     status : {"idle", "running", "inProgress"} \cup Ended,
                     archived : BOOLEAN]
    BY <1>1 DEF TypeOK, StoreType, ThreadAfter
  <1> QED
    BY <1>2, <1>3, <1>4 DEF StoreType

\* A command inside the actor keeps the types.
LEMMA ActorTypeStep ==
  ASSUME TypeOK, IntentsUnique, NEW c \in Callers,
         \/ resume(c) \/ ResumeReply(c) \/ read(c) \/ ReadReply(c) \/ SaveSnapshot(c)
         \/ start(c) \/ StartCheck(c) \/ record_turn_intent(c) \/ StartSend(c) \/ StartReply(c)
         \/ steer(c) \/ SteerReply(c) \/ interrupt(c) \/ InterruptReply(c) \/ InterruptRead(c)
  PROVE  TypeOK'
  <1> USE OwnType, HoldingPoints, TypeParts, ConstantTypes
  <1>1. CASE resume(c)
    BY <1>1, KeepType, FinishType, ReadType, StoreSame, ProviderSame, CommandSame DEF resume
  <1>2. CASE ResumeReply(c)
    BY <1>2, KeepType, FinishType, StoreSame, ProviderSame, CommandSame, ReplySame DEF ResumeReply
  <1>3. CASE read(c)
    BY <1>3, KeepType, FinishType, ReadType, StoreSame, ProviderSame, CommandSame DEF read
  <1>4. CASE ReadReply(c)
    BY <1>4, KeepType, FinishType, StoreSame, ProviderSame, CommandSame, ReplySame DEF ReadReply
  <1>5. CASE SaveSnapshot(c)
    <2>1. StoreType'
      BY <1>5 DEF TypeOK, StoreType, SaveSnapshot, save_thread, SnapshotStatus
    <2> QED
      BY <1>5, <2>1, FinishType, ProviderSame DEF SaveSnapshot
  <1>6. CASE start(c)
    BY <1>6, KeepType, FinishType, IntendType, ReadType, StoreSame, ProviderSame, CommandSame, ReplySame DEF start
  <1>7. CASE StartCheck(c)
    BY <1>7, KeepType, FinishType, IntendType, StoreSame, ProviderSame, CommandSame, ReplySame DEF StartCheck
  <1>8. CASE record_turn_intent(c)
    <2>0. mine[c] \in Turns
      BY <1>8, IntentType DEF record_turn_intent
    <2>1. StoreType'
      <3>1. CASE UNCHANGED turns
        BY <1>8, <3>1 DEF TypeOK, StoreType, record_turn_intent
      <3>2. CASE turns' = [turns EXCEPT ![mine[c]].status = "dispatching"]
        <4>1. turns' \in [Turns -> [status : {"none", "dispatching", "inProgress", "unknown"}
                                                \cup Ended,
                                   linked : BOOLEAN]]
          BY <2>0, <3>2 DEF TypeOK, StoreType
        <4> QED
          BY <1>8, <4>1 DEF TypeOK, StoreType, record_turn_intent
      <3> QED
        BY <1>8, <3>1, <3>2 DEF record_turn_intent
    <2> QED
      BY <1>8, <2>1, KeepType, FinishType, ProviderSame, CommandSame, ReplySame
      DEF record_turn_intent
  <1>9. CASE StartSend(c)
    <2> DEFINE m == [kind |-> "turn_started", turn |-> mine[c], status |-> "inProgress"]
    <2>1. mine[c] \in Turns /\ m \in Event
      BY <1>9, IntentType DEF StartSend, Event
    <2>2. ProviderType' /\ ReplyType'
      <3>1. CASE Rejected(c)
        BY <1>9, <3>1, RejectedType DEF StartSend
      <3>2. CASE /\ remote' = [remote EXCEPT !.active = mine[c], !.stopping = FALSE]
                 /\ wire' = [wire EXCEPT ![via[c]] = Append(@, m)]
                 /\ Answer(c, mine[c])
        <4>1. ReplyType'
          BY <2>1, <3>2, AnswerType
        <4>2. wire[via[c]] \in Seq(Event) /\ Append(wire[via[c]], m) \in Seq(Event)
          BY <2>1, AppendWire DEF TypeOK, ProviderType
        <4>3. wire' \in [Connections -> Seq(Event)]
          BY <3>2, <4>2 DEF TypeOK, ProviderType
        <4>4. remote' \in [active : {NoTurn} \cup Turns, stopping : BOOLEAN, archived : BOOLEAN]
          BY <2>1, <3>2 DEF TypeOK, ProviderType
        <4>5. UNCHANGED <<conn, server>>
          BY <1>9 DEF StartSend
        <4> QED
          BY <4>1, <4>3, <4>4, <4>5 DEF TypeOK, ProviderType
      <3> QED
        BY <1>9, <3>1, <3>2 DEF StartSend
    <2> QED
      BY <1>9, <2>2, KeepType, StoreSame, CommandSame DEF StartSend
  <1>10. CASE StartReply(c)
    <2>1. mine[c] \in Turns
      BY <1>10, IntentType DEF StartReply
    <2>2. StoreType'
      BY <1>10, <2>1, ResolvedType DEF StartReply
    <2> QED
      BY <1>10, <2>2, FinishType, ProviderSame DEF StartReply
  <1>11. CASE steer(c)
    <2>1. ReplyType'
      <3>1. CASE Answer(c, NoTurn)
        BY <3>1, AnswerType
      <3>2. CASE reply' = [reply EXCEPT ![c] = Failed]
        BY <3>2 DEF TypeOK, ReplyType
      <3> QED
        BY <1>11, <3>1, <3>2, FinishType DEF steer
    <2> QED
      BY <1>11, <2>1, KeepType, FinishType, StoreSame, ProviderSame, CommandSame DEF steer
  <1>12. CASE SteerReply(c)
    BY <1>12, FinishType, StoreSame, ProviderSame DEF SteerReply
  <1>13. CASE interrupt(c)
    <2>1. ProviderType'
      BY <1>13 DEF TypeOK, ProviderType, interrupt, Rejected
    <2>2. ReplyType'
      BY <1>13, AnswerType, RejectedType, FinishType DEF interrupt
    <2> QED
      BY <1>13, <2>1, <2>2, KeepType, FinishType, StoreSame, CommandSame DEF interrupt
  <1>14. CASE InterruptReply(c)
    BY <1>14, KeepType, FinishType, ReadType, StoreSame, ProviderSame, CommandSame DEF InterruptReply
  <1>15. CASE InterruptRead(c)
    BY <1>15, FinishType, StoreSame, ProviderSame DEF InterruptRead
  <1> QED
    BY <1>1, <1>2, <1>3, <1>4, <1>5, <1>6, <1>7, <1>8, <1>9, <1>10, <1>11, <1>12, <1>13, <1>14, <1>15

\* So does the archiving of a thread,
LEMMA ArchiveTypeStep ==
  ASSUME TypeOK, NEW c \in Callers, NEW archived \in BOOLEAN,
         NEW point, NEW next \in Holding,
         \/ set_archived(c, point, next)
         \/ ArchiveRequest(c, point, next, archived)
         \/ ArchiveReply(c, point, archived)
  PROVE  TypeOK'
  <1> USE OwnType, TypeParts, ConstantTypes
  <1>1. CASE set_archived(c, point, next)
    BY <1>1, KeepType, FinishType, ReadType, StoreSame, ProviderSame, CommandSame DEF set_archived
  <1>2. CASE ArchiveRequest(c, point, next, archived)
    <2>1. ProviderType'
      BY <1>2 DEF TypeOK, ProviderType, ArchiveRequest, Rejected
    <2>2. ReplyType'
      BY <1>2, AnswerType, RejectedType, FinishType DEF ArchiveRequest
    <2> QED
      BY <1>2, <2>1, <2>2, KeepType, FinishType, StoreSame, CommandSame DEF ArchiveRequest
  <1>3. CASE ArchiveReply(c, point, archived)
    <2>1. StoreType'
      BY <1>3 DEF TypeOK, StoreType, ArchiveReply
    <2> QED
      BY <1>3, <2>1, FinishType, ProviderSame DEF ArchiveReply
  <1> QED
    BY <1>1, <1>2, <1>3

\* and what happens outside the actor.
LEMMA OuterTypeStep ==
  ASSUME TypeOK,
         \/ \E c \in Callers : \E point \in Waiting : Call(c, point) \/ Manage(c, point)
         \/ \E c \in Callers : reconnect_codex(c) \/ ReconnectShutdown(c)
         \/ delete_thread \/ set_codex_binary
         \/ \E e \in Connections : Publish(e)
         \/ TurnEnds \/ ServerDies \/ ReaderStops \/ Crash
  PROVE  TypeOK'
  <1> USE TypeParts, ConstantTypes DEF store, provider, caller
  <1>1. CASE \E c \in Callers : \E point \in Waiting : Call(c, point) \/ Manage(c, point)
    <2>0. PICK c \in Callers, point \in Waiting : Call(c, point) \/ Manage(c, point)
      BY <1>1
    <2>1. ProviderType' /\ CommandType'
      <3>1. Connect(c) /\ UNCHANGED <<wire, remote, mine, issued>> /\ workflow' \in {workflow, c}
        BY <2>0 DEF Call, Manage
      <3>2. CommandType'
        <4>1. via' \in [Callers -> Connections]
          BY <3>1 DEF TypeOK, ProviderType, CommandType, Connect
        <4> QED
          BY <3>1, <4>1 DEF TypeOK, CommandType
      <3>3. ProviderType'
        <4>1. conn' \in Connections /\ server' \in [Connections -> ProcessState]
          BY <3>1 DEF TypeOK, ProviderType, ProcessState, Connect
        <4> QED
          BY <3>1, <4>1 DEF TypeOK, ProviderType
      <3> QED
        BY <3>2, <3>3
    <2>2. PointType'
      BY <2>0 DEF TypeOK, PointType, Call, Manage
    <2> QED
      BY <2>0, <2>1, <2>2, StoreSame, ActorSame, ReplySame DEF Call, Manage
  <1>2. CASE \E c \in Callers : reconnect_codex(c) \/ ReconnectShutdown(c)
    <2>0. PICK c \in Callers : reconnect_codex(c) \/ ReconnectShutdown(c)
      BY <1>2
    <2>1. ProviderType' /\ PointType'
      <3>1. ProviderType'
        BY <2>0 DEF TypeOK, ProviderType, ProcessState, reconnect_codex, ReconnectShutdown, Shutdown, Stopped
      <3>2. PointType'
        BY <2>0 DEF TypeOK, PointType, reconnect_codex, ReconnectShutdown
      <3> QED
        BY <3>1, <3>2
    <2> QED
      BY <1>2, <2>1, StoreSame, ActorSame, CommandSame, ReplySame
      DEF reconnect_codex, ReconnectShutdown
  <1>3. CASE delete_thread
    <2>1. StoreType'
      BY <1>3 DEF StoreType, delete_thread
    <2>2. UNCHANGED <<provider, actor, pc, workflow, via, mine, issued, reply>>
      BY <1>3 DEF delete_thread
    <2> QED
      BY <2>1, <2>2, ProviderSame, ActorSame, CommandSame, ReplySame DEF TypeOK, PointType
  <1>4. CASE set_codex_binary
    <2>1. ProviderType'
      BY <1>4 DEF TypeOK, ProviderType, ProcessState, set_codex_binary, Shutdown, Stopped
    <2>2. UNCHANGED <<store, actor, pc, workflow, via, mine, issued, reply>>
      BY <1>4 DEF set_codex_binary
    <2> QED
      BY <2>1, <2>2, StoreSame, ActorSame, CommandSame, ReplySame DEF TypeOK, PointType
  <1>5. CASE \E e \in Connections : Publish(e)
    <2>1. PICK e \in Connections : Publish(e)
      BY <1>5
    <2>2. Head(wire[e]) \in Event /\ Tail(wire[e]) \in Seq(Event)
      BY <2>1 DEF TypeOK, ProviderType, Publish
    <2>3. StoreType'
      BY <2>1, <2>2, PublishType DEF Publish
    <2>4. ProviderType'
      BY <2>1, <2>2 DEF TypeOK, ProviderType, Publish
    <2>5. UNCHANGED <<actor, pc, workflow, via, mine, issued, reply>>
      BY <2>1 DEF Publish
    <2> QED
      BY <2>3, <2>4, <2>5, ActorSame, CommandSame, ReplySame DEF TypeOK, PointType
  <1>6. CASE TurnEnds
    <2>1. ProviderType'
      BY <1>6, EmptyWire, AppendWire DEF TypeOK, ProviderType, ProcessState, TurnEnds, Stopped, Event, Ended
    <2>2. UNCHANGED <<store, actor, pc, workflow, via, mine, issued, reply>>
      BY <1>6 DEF TurnEnds
    <2> QED
      BY <2>1, <2>2, StoreSame, ActorSame, CommandSame, ReplySame DEF TypeOK, PointType
  <1>7. CASE ServerDies
    <2>1. ProviderType'
      BY <1>7, EmptyWire, AppendWire DEF TypeOK, ProviderType, ProcessState, ServerDies, Stopped
    <2>2. UNCHANGED <<store, actor, pc, workflow, via, mine, issued, reply>>
      BY <1>7 DEF ServerDies
    <2> QED
      BY <2>1, <2>2, StoreSame, ActorSame, CommandSame, ReplySame DEF TypeOK, PointType
  <1>8. CASE ReaderStops
    <2>1. ProviderType'
      BY <1>8, EmptyWire, AppendWire DEF TypeOK, ProviderType, ProcessState, ReaderStops, Stopped
    <2>2. UNCHANGED <<store, actor, pc, workflow, via, mine, issued, reply>>
      BY <1>8 DEF ReaderStops
    <2> QED
      BY <2>1, <2>2, StoreSame, ActorSame, CommandSame, ReplySame DEF TypeOK, PointType
  <1>9. CASE Crash
    <2>1. ProviderType' /\ ActorType'
      BY <1>9, EmptyWire DEF TypeOK, ProviderType, ActorType, ProcessState, Crash, Stopped, Fresh
    <2>2. PointType' /\ CommandType' /\ ReplyType'
      BY <1>9 DEF TypeOK, PointType, CommandType, ReplyType, Crash
    <2> QED
      BY <1>9, <2>1, <2>2, StoreSame DEF Crash
  <1> QED
    BY <1>1, <1>2, <1>3, <1>4, <1>5, <1>6, <1>7, <1>8, <1>9

LEMMA TypeStep == TypeOK /\ IntentsUnique /\ [Next]_vars => TypeOK'
  <1> SUFFICES ASSUME TypeOK, IntentsUnique, [Next]_vars PROVE TypeOK'
    OBVIOUS
  <1>1. ASSUME NEW c \in Callers, Command(c) PROVE TypeOK'
    <2>1. {"resume", "read", "start", "steer", "interrupt", "archive", "restore"} = Waiting
      BY DEF Waiting
    <2> QED
      BY <1>1, <2>1, HoldingPoints, ActorTypeStep, ArchiveTypeStep, OuterTypeStep DEF Command
  <1>2. CASE UNCHANGED vars
    BY <1>2 DEF TypeOK, StoreType, ProviderType, ActorType, PointType, CommandType, ReplyType, vars
  <1> QED
    BY <1>1, <1>2, OuterTypeStep DEF Next

LEMMA TypeInit == Init => TypeOK
  <1> SUFFICES ASSUME Init PROVE TypeOK
    OBVIOUS
  <1> USE BoundAssumption, ConstantTypes DEF Init
  <1>1. 1 \in Connections
    BY DEF Connections
  <1>2. StoreType
    BY DEF StoreType
  <1>3. ProviderType
    BY <1>1, EmptyWire DEF ProviderType, ProcessState
  <1>4. ActorType
    BY DEF ActorType, Fresh
  <1>5. PointType /\ CommandType /\ ReplyType
    BY <1>1 DEF PointType, CommandType, ReplyType
  <1> QED
    BY <1>2, <1>3, <1>4, <1>5 DEF TypeOK

-----------------------------------------------------------------------------
(* Who owns the actor of which connection *)

\* The steps of a command inside the actor.
Inside(c) ==
  \/ resume(c) \/ ResumeReply(c) \/ read(c) \/ ReadReply(c) \/ SaveSnapshot(c)
  \/ start(c) \/ StartCheck(c) \/ record_turn_intent(c) \/ StartSend(c) \/ StartReply(c)
  \/ steer(c) \/ SteerReply(c) \/ interrupt(c) \/ InterruptReply(c) \/ InterruptRead(c)
  \/ set_archived(c, "archive", "archiveRead")
  \/ set_archived(c, "restore", "restoreRead")
  \/ ArchiveRequest(c, "archiveRead", "archiveWait", TRUE)
  \/ ArchiveRequest(c, "restoreRead", "restoreWait", FALSE)
  \/ ArchiveReply(c, "archiveWait", TRUE)
  \/ ArchiveReply(c, "restoreWait", FALSE)

\* Such a step has the mutex or takes it when it is free, and keeps or drops it.
LEMMA InsideStep ==
  ASSUME NEW c \in Callers, Inside(c)
  PROVE  /\ Free(c) \/ pc[c] \in Holding
         /\ UNCHANGED <<conn, server, via>>
         /\ \/ \E active, reconciled : Finish(c, active, reconciled)
            \/ \E active, reconciled : \E point \in Holding :
                 /\ point \in {"startCheck", "steerWait"} => active # NoTurn
                 /\ Keep(c, point, active, reconciled)
  <1> USE HoldingPoints DEF provider
  <1>1. CASE resume(c) \/ ResumeReply(c) \/ read(c) \/ ReadReply(c) \/ SaveSnapshot(c)
    <2>1. UNCHANGED <<conn, server, via>>
      BY <1>1 DEF resume, ResumeReply, read, ReadReply, SaveSnapshot, Finish
    <2> QED
      BY <1>1, <2>1 DEF resume, ResumeReply, read, ReadReply, SaveSnapshot
  <1>2. CASE start(c) \/ StartCheck(c) \/ record_turn_intent(c) \/ StartSend(c) \/ StartReply(c)
    <2>1. UNCHANGED <<conn, server, via>>
      BY <1>2 DEF start, StartCheck, record_turn_intent, StartSend, StartReply, Finish
    <2> QED
      BY <1>2, <2>1 DEF start, StartCheck, record_turn_intent, StartSend, StartReply
  <1>3. CASE steer(c) \/ SteerReply(c) \/ interrupt(c) \/ InterruptReply(c) \/ InterruptRead(c)
    <2>1. UNCHANGED <<conn, server, via>>
      BY <1>3 DEF steer, SteerReply, interrupt, InterruptReply, InterruptRead, Finish
    <2> QED
      BY <1>3, <2>1 DEF steer, SteerReply, interrupt, InterruptReply, InterruptRead, CanCommand
  <1>4. CASE \/ set_archived(c, "archive", "archiveRead")
             \/ set_archived(c, "restore", "restoreRead")
             \/ ArchiveRequest(c, "archiveRead", "archiveWait", TRUE)
             \/ ArchiveRequest(c, "restoreRead", "restoreWait", FALSE)
             \/ ArchiveReply(c, "archiveWait", TRUE)
             \/ ArchiveReply(c, "restoreWait", FALSE)
    <2>1. UNCHANGED <<conn, server, via>>
      BY <1>4 DEF set_archived, ArchiveRequest, ArchiveReply, Finish
    <2> QED
      BY <1>4, <2>1 DEF set_archived, ArchiveRequest, ArchiveReply
  <1> QED
    BY <1>1, <1>2, <1>3, <1>4 DEF Inside

\* Nobody else is inside the actor that c has or takes.
LEMMA Alone ==
  ASSUME ActorLocked, NEW c \in Callers, Free(c) \/ pc[c] \in Holding,
         NEW d \in Callers, d # c, pc[d] \in Holding
  PROVE  via[d] # via[c]
  BY CallerAssumption DEF ActorLocked, Free, Actor

LEMMA InsideOwner ==
  ASSUME TypeOK, LatestIsUp, ActorLocked, NEW c \in Callers, Inside(c)
  PROVE  LatestIsUp' /\ ActorLocked'
  <1>1. /\ Free(c) \/ pc[c] \in Holding
        /\ UNCHANGED <<conn, server, via>>
    BY InsideStep
  <1>2. \A e \in Connections : e # via[c] => actor'[e] = actor[e]
    BY InsideStep DEF TypeOK, ActorType, Keep, Finish
  <1>3. \A d \in Callers : d # c => pc'[d] = pc[d]
    BY InsideStep DEF TypeOK, PointType, Keep, Finish
  <1>4. LatestIsUp'
    BY <1>1, <1>2, ConstantTypes DEF LatestIsUp, TypeOK, ProviderType, CommandType, Up
  <1>5. /\ pc'[c] \in Holding => actor'[via[c]].owner = c
        /\ pc'[c] \in {"startCheck", "steerWait"} => actor'[via[c]].active # NoTurn
    <2>1. CASE \E active, reconciled : Finish(c, active, reconciled)
      <3>1. pc'[c] = "idle"
        BY <2>1 DEF TypeOK, PointType, Finish
      <3> QED
        BY <3>1 DEF Holding
    <2>2. ASSUME NEW active, NEW reconciled, NEW point \in Holding,
                 point \in {"startCheck", "steerWait"} => active # NoTurn,
                 Keep(c, point, active, reconciled)
          PROVE  /\ actor'[via[c]].owner = c
                 /\ pc'[c] \in {"startCheck", "steerWait"} => actor'[via[c]].active # NoTurn
      <3>1. actor'[via[c]] = [owner |-> c, active |-> active, reconciled |-> reconciled]
        BY <2>2, OwnType DEF TypeOK, ActorType, Keep
      <3>2. pc'[c] = point
        BY <2>2 DEF TypeOK, PointType, Keep
      <3> QED
        BY <2>2, <3>1, <3>2
    <2> QED
      BY <2>1, <2>2, InsideStep
  <1>6. ASSUME NEW d \in Callers
        PROVE  /\ pc'[d] \in Holding => actor'[via'[d]].owner = d
               /\ pc'[d] \in {"startCheck", "steerWait"} => actor'[via'[d]].active # NoTurn
    <2>1. CASE d = c
      BY <1>1, <1>5, <2>1
    <2>2. CASE d # c /\ pc[d] \in Holding
      BY <1>1, <1>2, <1>3, <2>2, Alone, OwnType DEF ActorLocked, Actor
    <2>3. CASE d # c /\ pc[d] \notin Holding
      BY <1>3, <2>3, HoldingPoints
    <2> QED
      BY <2>1, <2>2, <2>3
  <1> QED
    BY <1>4, <1>6 DEF ActorLocked, Actor

\* Every other step.
Outside ==
  \/ \E c \in Callers : \E point \in Waiting : Call(c, point) \/ Manage(c, point)
  \/ \E c \in Callers : reconnect_codex(c) \/ ReconnectShutdown(c)
  \/ delete_thread \/ set_codex_binary
  \/ \E e \in Connections : Publish(e)
  \/ TurnEnds \/ ServerDies \/ ReaderStops \/ Crash

LEMMA NextSteps ==
  [Next]_vars => (\E c \in Callers : Inside(c)) \/ Outside \/ UNCHANGED vars
  <1>1. {"resume", "read", "start", "steer", "interrupt", "archive", "restore"} = Waiting
    BY DEF Waiting
  <1>2. ASSUME NEW c \in Callers, Command(c) PROVE Inside(c) \/ Outside
    BY <1>1, <1>2 DEF Command, Inside, Outside
  <1> QED
    BY <1>2 DEF Next, Outside

LEMMA OwnerStep ==
  TypeOK /\ LatestIsUp /\ ActorLocked /\ [Next]_vars => LatestIsUp' /\ ActorLocked'
  <1> SUFFICES ASSUME TypeOK, LatestIsUp, ActorLocked, [Next]_vars
               PROVE  LatestIsUp' /\ ActorLocked'
    OBVIOUS
  <1> USE ConstantTypes
  <1>1. CASE \E c \in Callers : \E point \in Waiting : Call(c, point) \/ Manage(c, point)
    <2>0. PICK c \in Callers, point \in Waiting : Call(c, point) \/ Manage(c, point)
      BY <1>1
    <2>1. Connect(c) /\ actor' = actor /\ pc[c] = "idle" /\ pc' = [pc EXCEPT ![c] = point]
      BY <2>0 DEF Call, Manage
    <2>2. LatestIsUp'
      <3>1. /\ conn \in Nat /\ via \in [Callers -> Connections]
            /\ server \in [Connections -> ProcessState] /\ Connections \subseteq Nat
        BY DEF TypeOK, ProviderType, CommandType
      <3>2. CASE Alive(conn) /\ via' = [via EXCEPT ![c] = conn] /\ UNCHANGED <<conn, server>>
        BY <2>1, <3>1, <3>2 DEF LatestIsUp, Up
      <3>3. CASE /\ ~Alive(conn) /\ conn + 1 \in Connections /\ conn' = conn + 1
                 /\ server' = [server EXCEPT ![conn + 1] = "up"]
                 /\ via' = [via EXCEPT ![c] = conn + 1]
        <4>1. \A e \in Connections : Up(e)' => e = conn'
          BY <3>1, <3>3 DEF LatestIsUp, Alive, Up
        <4>2. \A e \in Connections : e > conn' => actor'[e] = Fresh
          BY <2>1, <3>1, <3>3 DEF LatestIsUp
        <4>3. ASSUME NEW d \in Callers PROVE via'[d] <= conn'
          <5>1. via[d] \in Nat /\ via[d] <= conn
            BY <3>1 DEF LatestIsUp
          <5>2. via'[d] \in {via[d], conn + 1}
            BY <3>1, <3>3
          <5> QED
            BY <3>1, <3>3, <5>1, <5>2
        <4> QED
          BY <4>1, <4>2, <4>3 DEF LatestIsUp, Fresh
      <3> QED
        BY <2>1, <3>2, <3>3 DEF Connect
    <2>3. \A d \in Callers : d # c => via'[d] = via[d] /\ pc'[d] = pc[d]
      BY <2>1 DEF TypeOK, CommandType, PointType, Connect
    <2>4. pc'[c] \notin Holding
      BY <2>1 DEF TypeOK, PointType, Holding, Waiting
    <2>5. ActorLocked'
      BY <2>1, <2>3, <2>4, HoldingPoints DEF ActorLocked, Actor
    <2> QED
      BY <2>2, <2>5
  <1>2. CASE \E c \in Callers : reconnect_codex(c) \/ ReconnectShutdown(c)
    <2>0. PICK c \in Callers : reconnect_codex(c) \/ ReconnectShutdown(c)
      BY <1>2
    <2>1. UNCHANGED <<conn, via, actor>> /\ pc' \in {[pc EXCEPT ![c] = "idle"], [pc EXCEPT ![c] = "reconnect"]}
      BY <2>0 DEF reconnect_codex, ReconnectShutdown, Shutdown, provider
    <2>2. \A e \in Connections : server'[e] = "up" => server[e] = "up"
      BY <2>0 DEF TypeOK, ProviderType, reconnect_codex, ReconnectShutdown, Shutdown, provider
    <2>3. \A d \in Callers : pc'[d] \in Holding => pc'[d] = pc[d]
      BY <2>1 DEF TypeOK, PointType, Holding
    <2> QED
      BY <2>1, <2>2, <2>3, HoldingPoints DEF LatestIsUp, ActorLocked, Up, Actor
  <1>3. CASE delete_thread \/ set_codex_binary \/ (\E e \in Connections : Publish(e))
             \/ TurnEnds \/ ServerDies \/ ReaderStops \/ UNCHANGED vars
    <2>1. UNCHANGED <<conn, via, actor, pc>>
      BY <1>3 DEF delete_thread, set_codex_binary, Shutdown, Publish, TurnEnds, ServerDies,
                  ReaderStops, provider, caller, vars
    <2>2. \A e \in Connections : server'[e] = "up" => server[e] = "up"
      BY <1>3 DEF TypeOK, ProviderType, delete_thread, set_codex_binary, Shutdown, Publish,
                  TurnEnds, ServerDies, ReaderStops, provider, vars
    <2> QED
      BY <2>1, <2>2 DEF LatestIsUp, ActorLocked, Up, Actor
  <1>4. CASE Crash
    <2>1. LatestIsUp'
      BY <1>4 DEF LatestIsUp, Crash, Up
    <2>2. ActorLocked'
      BY <1>4 DEF ActorLocked, Crash, Holding
    <2> QED
      BY <2>1, <2>2
  <1>5. CASE \E c \in Callers : Inside(c)
    BY <1>5, InsideOwner
  <1> QED
    BY <1>1, <1>2, <1>3, <1>4, <1>5, NextSteps DEF Outside

-----------------------------------------------------------------------------
(* What a reconciled actor knows *)

\* The actor may be reconciled without an active turn only when Codex has none,
\* and so may a command be about to start a turn, or to learn that there is none.
LEMMA KeepKnows ==
  ASSUME TypeOK, LatestIsUp, ActorLocked, Informed, InFlight, NEW c \in Callers,
         Free(c) \/ pc[c] \in Holding, UNCHANGED <<conn, server, via>>,
         NEW point \in Holding, NEW active, NEW reconciled,
         Keep(c, point, active, reconciled),
         \A d \in Callers : d # c => reply'[d] = reply[d],
         remote'.active = remote.active \/ (~reconciled /\ Up(via[c])),
         Up(via[c]) /\ remote'.active # NoTurn =>
           /\ reconciled => active # NoTurn
           /\ point \notin Relying
           /\ point \in Learning => reply'[c] # NoTurn
  PROVE  Informed' /\ InFlight'
  <1>1. \A e \in Connections : e # via[c] => actor'[e] = actor[e]
    BY DEF TypeOK, ActorType, Keep
  <1>2. actor'[via[c]] = [owner |-> c, active |-> active, reconciled |-> reconciled]
    BY OwnType DEF TypeOK, ActorType, Keep
  <1>3. pc'[c] = point /\ \A d \in Callers : d # c => pc'[d] = pc[d]
    BY DEF TypeOK, PointType, Keep
  <1>4. \A e \in Connections : e # via[c] /\ Up(via[c]) => ~Up(e)
    BY OwnType DEF LatestIsUp
  <1>5. Informed'
    <2> SUFFICES ASSUME NEW e \in Connections, server[e] = "up", actor'[e].reconciled,
                        actor'[e].active = NoTurn
                 PROVE  remote'.active = NoTurn
      BY DEF Informed, Up
    <2>1. CASE e = via[c]
      BY <1>2, <2>1 DEF Up
    <2>2. CASE e # via[c]
      BY <1>1, <1>4, <2>2 DEF Informed, Up
    <2> QED
      BY <2>1, <2>2
  <1>6. InFlight'
    <2> SUFFICES ASSUME NEW d \in Callers, server[via[d]] = "up", remote'.active # NoTurn
                 PROVE  /\ pc'[d] \notin Relying
                        /\ pc'[d] \in Learning => reply'[d] # NoTurn
      BY DEF InFlight, Up
    <2>1. CASE d = c
      BY <1>3, <2>1 DEF Up
    <2>2. CASE d # c /\ pc[d] \in Holding
      <3>1. via[d] # via[c] /\ via[d] \in Connections
        BY <2>2, Alone, OwnType
      <3> QED
        BY <1>3, <1>4, <2>2, <3>1 DEF InFlight, Up
    <2>3. CASE d # c /\ pc[d] \notin Holding
      BY <1>3, <2>3, HoldingPoints DEF Relying, Learning
    <2> QED
      BY <2>1, <2>2, <2>3
  <1> QED
    BY <1>5, <1>6

LEMMA FinishKnows ==
  ASSUME TypeOK, LatestIsUp, ActorLocked, Informed, InFlight, NEW c \in Callers,
         Free(c) \/ pc[c] \in Holding, UNCHANGED <<server, remote>>,
         NEW active, NEW reconciled, Finish(c, active, reconciled),
         Up(via[c]) /\ remote.active # NoTurn => (reconciled => active # NoTurn)
  PROVE  Informed' /\ InFlight'
  <1>1. \A e \in Connections : e # via[c] => actor'[e] = actor[e]
    BY DEF TypeOK, ActorType, Finish
  <1>2. actor'[via[c]] = [owner |-> None, active |-> active, reconciled |-> reconciled]
    BY OwnType DEF TypeOK, ActorType, Finish
  <1>3. pc'[c] = "idle" /\ \A d \in Callers : d # c => pc'[d] = pc[d] /\ reply'[d] = reply[d]
    BY DEF TypeOK, PointType, ReplyType, Finish
  <1>4. UNCHANGED via
    BY DEF Finish
  <1>5. Informed'
    <2> SUFFICES ASSUME NEW e \in Connections, server[e] = "up", actor'[e].reconciled,
                        actor'[e].active = NoTurn
                 PROVE  remote.active = NoTurn
      BY DEF Informed, Up
    <2>1. CASE e = via[c]
      BY <1>2, <2>1 DEF Up
    <2>2. CASE e # via[c]
      BY <1>1, <2>2 DEF Informed, Up
    <2> QED
      BY <2>1, <2>2
  <1>6. InFlight'
    BY <1>3, <1>4 DEF InFlight, Up, Relying, Learning
  <1> QED
    BY <1>5, <1>6

\* What a command that is inside, or enters, may rely on.
LEMMA OwnKnowledge ==
  ASSUME TypeOK, Informed, InFlight, ActorLocked, NEW c \in Callers,
         Up(via[c]), remote.active # NoTurn
  PROVE  /\ Actor(c).reconciled => Actor(c).active # NoTurn
         /\ pc[c] \notin Relying
         /\ pc[c] \in Learning => reply[c] # NoTurn
         /\ pc[c] \in {"startCheck", "steerWait"} => Actor(c).active # NoTurn
  BY OwnType DEF Informed, InFlight, ActorLocked, Actor

\* Without an active turn both hold.
LEMMA QuietKnows == remote'.active = NoTurn => Informed' /\ InFlight'
  BY DEF Informed, InFlight

\* An answer is about the caller, and tells the truth about the active turn.
LEMMA ReadKnows ==
  ASSUME TypeOK, NEW c \in Callers, Read(c)
  PROVE  /\ \A d \in Callers : d # c => reply'[d] = reply[d]
         /\ Up(via[c]) /\ remote.active # NoTurn => reply'[c] # NoTurn
  BY ConstantTypes DEF TypeOK, ReplyType, Read

LEMMA AnswerKnows ==
  ASSUME TypeOK, NEW c \in Callers, NEW value, Answer(c, value)
  PROVE  /\ \A d \in Callers : d # c => reply'[d] = reply[d]
         /\ reply'[c] \in {value, Failed}
  BY DEF TypeOK, ReplyType, Answer

LEMMA InsideKnows ==
  ASSUME TypeOK, LatestIsUp, ActorLocked, Informed, InFlight, IntentsUnique,
         NEW c \in Callers, Inside(c)
  PROVE  Informed' /\ InFlight'
  <1> USE OwnKnowledge, HoldingPoints, InsideStep DEF provider, Relying, Learning
  <1>1. CASE resume(c)
    BY <1>1, KeepKnows, FinishKnows, ReadKnows DEF resume
  <1>2. CASE ResumeReply(c)
    BY <1>2, KeepKnows, FinishKnows DEF ResumeReply
  <1>3. CASE read(c)
    BY <1>3, KeepKnows, FinishKnows, ReadKnows DEF read
  <1>4. CASE ReadReply(c)
    BY <1>4, KeepKnows, FinishKnows DEF ReadReply
  <1>5. CASE SaveSnapshot(c)
    BY <1>5, FinishKnows DEF SaveSnapshot
  <1>6. CASE start(c)
    <2>1. UNCHANGED <<conn, server, via, remote>> /\ (Free(c) \/ pc[c] \in Holding)
      BY <1>6, InsideStep DEF start
    <2>2. CASE ~CanStart(c) /\ Finish(c, Actor(c).active, Actor(c).reconciled)
      BY <2>1, <2>2, FinishKnows
    <2>3. CASE CanStart(c) /\ Actor(c).active = NoTurn /\ Keep(c, "startIntent", NoTurn, TRUE)
               /\ UNCHANGED reply
      <3>1. Up(via[c]) => remote.active = NoTurn
        BY <2>3 DEF CanStart
      <3> QED
        BY <2>1, <2>3, <3>1, KeepKnows
    <2>4. CASE CanStart(c) /\ Actor(c).active # NoTurn
               /\ Keep(c, "startCheck", Actor(c).active, TRUE) /\ Read(c)
      BY <2>1, <2>4, KeepKnows, ReadKnows
    <2> QED
      BY <1>6, <2>2, <2>3, <2>4 DEF start
  <1>7. CASE StartCheck(c)
    <2>1. UNCHANGED <<conn, server, via, remote>> /\ (Free(c) \/ pc[c] \in Holding)
      BY <1>7, InsideStep DEF StartCheck
    <2>2. CASE reply[c] = NoTurn /\ Keep(c, "startIntent", NoTurn, TRUE) /\ UNCHANGED reply
      <3>1. Up(via[c]) => remote.active = NoTurn
        BY <1>7, <2>2 DEF StartCheck
      <3> QED
        BY <2>1, <2>2, <3>1, KeepKnows
    <2>3. CASE /\ reply[c] # NoTurn
               /\ Finish(c, IF reply[c] = Failed THEN Actor(c).active ELSE reply[c], TRUE)
      <3>1. CASE reply[c] # Failed
        BY <2>1, <2>3, <3>1, FinishKnows
      <3>2. CASE reply[c] = Failed /\ Finish(c, Actor(c).active, TRUE)
        <4>1. Actor(c).active # NoTurn
          BY <1>7 DEF StartCheck, ActorLocked
        <4> QED
          BY <2>1, <3>2, <4>1, FinishKnows
      <3> QED
        BY <2>3, <3>1, <3>2
    <2> QED
      BY <1>7, <2>2, <2>3 DEF StartCheck
  <1>8. CASE record_turn_intent(c)
    BY <1>8, KeepKnows, FinishKnows DEF record_turn_intent
  <1>9. CASE StartSend(c)
    <2>1. mine[c] # NoTurn /\ mine[c] # Failed
      BY <1>9, IntentType, ConstantTypes DEF StartSend
    <2>2. /\ UNCHANGED <<conn, server, via>> /\ pc[c] \in Holding
          /\ Keep(c, "startWait", Actor(c).active, FALSE)
      BY <1>9 DEF StartSend
    <2>3. CASE Rejected(c)
      <3>1. /\ UNCHANGED remote /\ reply'[c] # NoTurn
            /\ \A d \in Callers : d # c => reply'[d] = reply[d]
        BY <2>3, ConstantTypes DEF Rejected, TypeOK, ReplyType
      <3> QED
        BY <2>2, <3>1, KeepKnows
    <2>4. CASE Up(via[c]) /\ Answer(c, mine[c])
      <3>1. /\ reply'[c] # NoTurn
            /\ \A d \in Callers : d # c => reply'[d] = reply[d]
        BY <2>1, <2>4, AnswerKnows, ConstantTypes
      <3> QED
        BY <2>2, <2>4, <3>1, KeepKnows
    <2> QED
      BY <1>9, <2>3, <2>4 DEF StartSend
  <1>10. CASE StartReply(c)
    BY <1>10, FinishKnows DEF StartReply
  <1>11. CASE steer(c)
    <2>1. UNCHANGED <<conn, server, via, remote>> /\ (Free(c) \/ pc[c] \in Holding)
      BY <1>11, InsideStep DEF steer
    <2>2. CASE Finish(c, Actor(c).active, Actor(c).reconciled)
      BY <2>1, <2>2, FinishKnows
    <2>3. CASE Keep(c, "steerWait", Actor(c).active, FALSE) /\ \A d \in Callers : d # c => reply'[d] = reply[d]
      BY <2>1, <2>3, KeepKnows
    <2> QED
      BY <1>11, <2>2, <2>3, AnswerKnows DEF steer, TypeOK, ReplyType
  <1>12. CASE SteerReply(c)
    BY <1>12, FinishKnows DEF SteerReply
  <1>13. CASE interrupt(c)
    <2>1. UNCHANGED <<conn, server, via>> /\ (Free(c) \/ pc[c] \in Holding)
      BY <1>13, InsideStep DEF interrupt
    <2>2. CASE Finish(c, Actor(c).active, Actor(c).reconciled) /\ UNCHANGED remote
      BY <2>1, <2>2, FinishKnows
    <2>3. remote'.active = remote.active
      BY <1>13 DEF interrupt, Rejected, TypeOK, ProviderType
    <2>4. CASE Keep(c, "interruptWait", Actor(c).active, FALSE)
               /\ \A d \in Callers : d # c => reply'[d] = reply[d]
      BY <2>1, <2>3, <2>4, KeepKnows
    <2> QED
      BY <1>13, <2>2, <2>4, AnswerKnows DEF interrupt, Rejected, TypeOK, ReplyType
  <1>14. CASE InterruptReply(c)
    BY <1>14, KeepKnows, FinishKnows, ReadKnows DEF InterruptReply
  <1>15. CASE InterruptRead(c)
    BY <1>15, FinishKnows DEF InterruptRead
  <1>16. ASSUME NEW point, NEW next \in {"archiveRead", "restoreRead"}, set_archived(c, point, next)
         PROVE  Informed' /\ InFlight'
    BY <1>16, KeepKnows, FinishKnows, ReadKnows DEF set_archived
  <1>17. ASSUME NEW point \in {"archiveRead", "restoreRead"},
                NEW next \in {"archiveWait", "restoreWait"}, NEW archived,
                ArchiveRequest(c, point, next, archived)
         PROVE  Informed' /\ InFlight'
    <2>1. UNCHANGED <<conn, server, via>> /\ pc[c] = point /\ pc[c] \in Holding
      BY <1>17 DEF ArchiveRequest, Finish
    <2>2. CASE Finish(c, Actor(c).active, Actor(c).reconciled) /\ UNCHANGED remote
      BY <2>1, <2>2, FinishKnows
    <2>3. remote'.active = remote.active
      BY <1>17 DEF ArchiveRequest, Rejected, TypeOK, ProviderType
    <2>4. CASE /\ Keep(c, next, Actor(c).active, FALSE) /\ reply[c] = NoTurn
               /\ \A d \in Callers : d # c => reply'[d] = reply[d]
      <3>1. Up(via[c]) => remote.active = NoTurn
        BY <2>1, <2>4
      <3> QED
        BY <2>1, <2>3, <2>4, <3>1, KeepKnows
    <2> QED
      BY <1>17, <2>2, <2>4, AnswerKnows DEF ArchiveRequest, Rejected, TypeOK, ReplyType
  <1>18. ASSUME NEW point, NEW archived, ArchiveReply(c, point, archived)
         PROVE  Informed' /\ InFlight'
    BY <1>18, FinishKnows DEF ArchiveReply
  <1> QED
    BY <1>1, <1>2, <1>3, <1>4, <1>5, <1>6, <1>7, <1>8, <1>9, <1>10, <1>11, <1>12, <1>13,
       <1>14, <1>15, <1>16, <1>17, <1>18 DEF Inside

LEMMA KnowledgeStep ==
  TypeOK /\ LatestIsUp /\ ActorLocked /\ Informed /\ InFlight /\ IntentsUnique /\ [Next]_vars
    => Informed' /\ InFlight'
  <1> SUFFICES ASSUME TypeOK, LatestIsUp, ActorLocked, Informed, InFlight, IntentsUnique, [Next]_vars
               PROVE  Informed' /\ InFlight'
    OBVIOUS
  <1> USE ConstantTypes
  <1>1. CASE \E c \in Callers : \E point \in Waiting : Call(c, point) \/ Manage(c, point)
    <2>0. PICK c \in Callers, point \in Waiting : Call(c, point) \/ Manage(c, point)
      BY <1>1
    <2>1. Connect(c) /\ UNCHANGED <<actor, remote, reply>> /\ pc' = [pc EXCEPT ![c] = point]
      BY <2>0 DEF Call, Manage
    <2>2. point \notin Relying /\ point \notin Learning
      BY DEF Waiting, Relying, Learning
    <2>3. /\ pc'[c] = point
          /\ \A d \in Callers : d # c => pc'[d] = pc[d] /\ via'[d] = via[d]
      BY <2>1 DEF TypeOK, PointType, CommandType, Connect
    <2>4. \A e \in Connections :
            server'[e] = "up" /\ server[e] # "up" => e > conn
      BY <2>1 DEF TypeOK, ProviderType, Connect
    <2>5. Informed'
      <3> SUFFICES ASSUME NEW e \in Connections, server'[e] = "up", actor[e].reconciled,
                          actor[e].active = NoTurn
                   PROVE  remote.active = NoTurn
        BY <2>1 DEF Informed, Up
      <3>1. CASE server[e] = "up"
        BY <3>1 DEF Informed, Up
      <3>2. CASE server[e] # "up"
        BY <2>4, <3>2 DEF LatestIsUp, Fresh
      <3> QED
        BY <3>1, <3>2
    <2>6. InFlight'
      <3> SUFFICES ASSUME NEW d \in Callers, server'[via'[d]] = "up", remote.active # NoTurn
                   PROVE  /\ pc'[d] \notin Relying
                          /\ pc'[d] \in Learning => reply[d] # NoTurn
        BY <2>1 DEF InFlight, Up
      <3>1. CASE d = c
        BY <2>2, <2>3, <3>1
      <3>2. CASE d # c
        <4>1. via[d] \in Connections /\ via[d] <= conn /\ conn \in Nat
          BY OwnType DEF LatestIsUp, TypeOK, ProviderType
        <4>2. \A i, j \in Nat : i <= j => ~(i > j)
          OBVIOUS
        <4>3. via'[d] = via[d]
          BY <2>3, <3>2
        <4>4. server[via[d]] = "up"
          BY <2>4, <4>1, <4>2, <4>3
        <4> QED
          BY <2>3, <3>2, <4>4 DEF InFlight, Up
      <3> QED
        BY <3>1, <3>2
    <2> QED
      BY <2>5, <2>6
  <1>2. CASE \E c \in Callers : reconnect_codex(c)
    <2>0. PICK c \in Callers : reconnect_codex(c)
      BY <1>2
    <2>1. UNCHANGED <<server, remote, actor, via, reply>> /\ pc' = [pc EXCEPT ![c] = "reconnect"]
      BY <2>0 DEF reconnect_codex, provider
    <2> QED
      BY <2>1 DEF TypeOK, PointType, Informed, InFlight, Up, Relying, Learning
  <1>3. CASE \/ \E c \in Callers : ReconnectShutdown(c)
             \/ set_codex_binary \/ TurnEnds \/ ServerDies \/ ReaderStops \/ Crash
    <2>1. remote'.active = NoTurn
      BY <1>3 DEF TypeOK, ProviderType, ReconnectShutdown, set_codex_binary, TurnEnds,
                  ServerDies, ReaderStops, Crash, Shutdown, Stopped
    <2> QED
      BY <2>1, QuietKnows
  <1>4. CASE delete_thread \/ (\E e \in Connections : Publish(e)) \/ UNCHANGED vars
    <2>1. UNCHANGED <<server, remote, actor, pc, via, reply>>
      BY <1>4 DEF delete_thread, Publish, provider, caller, vars
    <2> QED
      BY <2>1 DEF Informed, InFlight, Up
  <1>5. CASE \E c \in Callers : Inside(c)
    BY <1>5, InsideKnows
  <1> QED
    BY <1>1, <1>2, <1>3, <1>4, <1>5, NextSteps DEF Outside

-----------------------------------------------------------------------------
(* What the rows of turns say *)

Rows == IntentsUnique /\ IntentPending /\ EndedIsLinked /\ RowsFollowJournal

Starting == {"startIntent", "startSend", "startWait"}

\* Neither rows nor events change, and no command comes to a new point of start.
LEMMA RowsSame ==
  ASSUME TypeOK, Rows, UNCHANGED <<turns, journal, issued>>, thread.exists => thread'.exists,
         \A d \in Callers : mine'[d] \in {mine[d], NoTurn},
         \A d \in Callers : pc'[d] \in Starting => pc'[d] = pc[d] /\ mine'[d] = mine[d]
  PROVE  Rows'
  <1>1. IntentsUnique'
    <2>1. NoTurn <= issued
      <3>1. issued \in {0} \cup Turns
        BY DEF TypeOK, CommandType
      <3> QED
        BY <3>1, ConstantTypes
    <2>2. \A d \in Callers : mine'[d] <= issued'
      BY <2>1 DEF Rows, IntentsUnique
    <2>3. \A d, e \in Callers : d # e /\ mine'[d] = mine'[e] => mine'[d] = NoTurn
      BY DEF Rows, IntentsUnique
    <2>4. \A d \in Callers : pc'[d] \in Starting => mine'[d] # NoTurn
      BY DEF Rows, IntentsUnique, Starting
    <2>5. \A t \in Turns : t > issued' => turns'[t] = [status |-> "none", linked |-> FALSE]
      BY DEF Rows, IntentsUnique
    <2> QED
      BY <2>2, <2>3, <2>4, <2>5 DEF IntentsUnique, Starting
  <1>2. IntentPending'
    BY DEF Rows, IntentPending, Starting
  <1>3. EndedIsLinked' /\ RowsFollowJournal'
    BY DEF Rows, EndedIsLinked, RowsFollowJournal
  <1> QED
    BY <1>1, <1>2, <1>3 DEF Rows

\* The command goes to a point outside start, or returns.
LEMMA RowsQuiet ==
  ASSUME TypeOK, Rows, NEW c \in Callers, UNCHANGED <<turns, journal, issued>>,
         thread.exists => thread'.exists,
         mine' \in {mine, [mine EXCEPT ![c] = NoTurn]},
         \E p \in ({"idle"} \cup Holding) \ Starting : pc' = [pc EXCEPT ![c] = p]
  PROVE  Rows'
  <1>1. \A d \in Callers : mine'[d] \in {mine[d], NoTurn} /\ (d # c => mine'[d] = mine[d])
    BY DEF TypeOK, CommandType
  <1>2. pc'[c] \notin Starting /\ \A d \in Callers : d # c => pc'[d] = pc[d]
    BY DEF TypeOK, PointType
  <1> QED
    BY <1>1, <1>2, RowsSame

LEMMA RowsFinish ==
  ASSUME TypeOK, Rows, NEW c \in Callers, NEW active, NEW reconciled,
         Finish(c, active, reconciled),
         UNCHANGED <<turns, journal>>, thread.exists => thread'.exists
  PROVE  Rows'
  <1>1. /\ pc'[c] = "idle" /\ mine'[c] = NoTurn
        /\ \A d \in Callers : d # c => pc'[d] = pc[d] /\ mine'[d] = mine[d]
        /\ UNCHANGED issued
    BY DEF Finish, TypeOK, PointType, CommandType
  <1> QED
    BY <1>1, RowsSame DEF Starting

\* A new intent has a number and a row that nobody uses.
LEMMA RowsIntend ==
  ASSUME TypeOK, Rows, NEW c \in Callers, NEW active, NEW reconciled,
         Keep(c, "startIntent", active, reconciled), Intend(c),
         UNCHANGED <<thread, turns, journal>>
  PROVE  Rows'
  <1>1. /\ mine'[c] = issued + 1 /\ pc'[c] = "startIntent"
        /\ \A d \in Callers : d # c => mine'[d] = mine[d] /\ pc'[d] = pc[d]
        /\ issued' = issued + 1 /\ issued + 1 \in Turns
    BY DEF Keep, Intend, TypeOK, PointType, CommandType
  <1>2. issued \in Nat /\ \A d \in Callers : mine[d] \in Nat /\ mine[d] <= issued
    <2>1. issued \in Nat /\ \A d \in Callers : mine[d] \in Nat
      <3>1. {0} \cup Turns \subseteq Nat /\ {NoTurn} \cup Turns \subseteq Nat
        BY ConstantTypes
      <3> QED
        BY <3>1 DEF TypeOK, CommandType
    <2>2. \A d \in Callers : mine[d] <= issued
      BY DEF Rows, IntentsUnique
    <2> QED
      BY <2>1, <2>2
  <1>3. IntentsUnique'
    <2>1. \A d \in Callers : mine'[d] <= issued'
      BY <1>1, <1>2
    <2>2. \A d, e \in Callers : d # e /\ mine'[d] = mine'[e] => mine'[d] = NoTurn
      <3> SUFFICES ASSUME NEW d \in Callers, NEW e \in Callers, d # e, mine'[d] = mine'[e]
                   PROVE  mine'[d] = NoTurn
        OBVIOUS
      <3>1. d # c /\ e # c
        BY <1>1, <1>2
      <3> QED
        BY <1>1, <3>1 DEF Rows, IntentsUnique
    <2>3. \A d \in Callers : pc'[d] \in Starting => mine'[d] # NoTurn
      BY <1>1, ConstantTypes DEF Rows, IntentsUnique, Starting
    <2>4. \A t \in Turns : t > issued' => turns'[t] = [status |-> "none", linked |-> FALSE]
      BY <1>1, <1>2, ConstantTypes DEF Rows, IntentsUnique
    <2> QED
      BY <2>1, <2>2, <2>3, <2>4 DEF IntentsUnique, Starting
  <1>4. turns[issued + 1] = [status |-> "none", linked |-> FALSE]
    BY <1>1, <1>2 DEF Rows, IntentsUnique
  <1>5. IntentPending'
    BY <1>1, <1>4 DEF Rows, IntentPending
  <1>6. EndedIsLinked' /\ RowsFollowJournal'
    BY DEF Rows, EndedIsLinked, RowsFollowJournal
  <1> QED
    BY <1>3, <1>5, <1>6 DEF Rows

\* record_turn_intent writes the row of its own intent,
LEMMA RowsRecord ==
  ASSUME TypeOK, Rows, NEW c \in Callers, record_turn_intent(c)
  PROVE  Rows'
  <1>1. CASE ~thread.exists
    BY <1>1, RowsFinish DEF record_turn_intent
  <1>2. CASE thread.exists
    <2>1. /\ turns' = [turns EXCEPT ![mine[c]].status = "dispatching"]
          /\ UNCHANGED <<thread, journal, mine, issued>>
      BY <1>2 DEF record_turn_intent
    <2>2. /\ pc[c] = "startIntent" /\ pc'[c] = "startSend"
          /\ \A d \in Callers : d # c => pc'[d] = pc[d]
      BY <1>2 DEF record_turn_intent, Keep, TypeOK, PointType
    <2>3. mine[c] \in Turns /\ mine[c] <= issued /\ mine[c] # NoTurn
      BY <2>2, IntentType DEF Rows, IntentsUnique
    <2>4. /\ turns'[mine[c]] = [status |-> "dispatching", linked |-> FALSE]
          /\ \A t \in Turns : t # mine[c] => turns'[t] = turns[t]
      <3>1. turns[mine[c]] = [status |-> "none", linked |-> FALSE]
        BY <2>2 DEF Rows, IntentPending
      <3>2. DOMAIN turns = Turns /\ turns = [t \in Turns |-> turns[t]]
        BY DEF TypeOK, StoreType
      <3>3. turns'[mine[c]].status = "dispatching" /\ ~turns'[mine[c]].linked
        BY <2>1, <2>3, <3>1, <3>2 DEF TypeOK, StoreType
      <3>4. \A t \in Turns : t # mine[c] => turns'[t] = turns[t]
        BY <2>1, <3>2
      <3>5. turns'[mine[c]] \in [status : {"none", "dispatching", "inProgress", "unknown"}
                                           \cup Ended,
                                 linked : BOOLEAN]
        BY <2>1, <2>3 DEF TypeOK, StoreType
      <3>6. turns'[mine[c]] = [status |-> "dispatching", linked |-> FALSE]
        BY <3>3, <3>5
      <3> QED
        BY <3>4, <3>6
    <2>5. IntentsUnique'
      <3>1. /\ \A d \in Callers : mine'[d] <= issued'
            /\ \A d, e \in Callers : d # e /\ mine'[d] = mine'[e] => mine'[d] = NoTurn
        BY <2>1 DEF Rows, IntentsUnique
      <3>2. \A d \in Callers : pc'[d] \in Starting => mine'[d] # NoTurn
        BY <2>1, <2>2, <2>3 DEF Rows, IntentsUnique, Starting
      <3>3. \A t \in Turns : t > issued => t # mine[c]
        BY <2>3, ConstantTypes DEF TypeOK, CommandType
      <3>4. \A t \in Turns : t > issued' => turns'[t] = [status |-> "none", linked |-> FALSE]
        BY <2>1, <2>4, <3>3 DEF Rows, IntentsUnique
      <3> QED
        BY <3>1, <3>2, <3>4 DEF IntentsUnique, Starting
    <2>6. IntentPending'
      <3> SUFFICES ASSUME NEW d \in Callers, pc'[d] \in Starting
                   PROVE  /\ pc'[d] = "startIntent" =>
                               turns'[mine[d]] = [status |-> "none", linked |-> FALSE]
                          /\ pc'[d] \in {"startSend", "startWait"} =>
                               /\ turns'[mine[d]] = [status |-> "dispatching", linked |-> FALSE]
                               /\ thread.exists
        BY <2>1 DEF IntentPending, Starting
      <3>1. CASE d = c
        BY <1>2, <2>2, <2>4, <3>1
      <3>2. CASE d # c
        <4>1. mine[d] \in Turns /\ mine[d] # mine[c]
          BY <2>2, <2>3, <3>2, IntentType DEF Rows, IntentsUnique, Starting
        <4> QED
          BY <2>2, <2>4, <3>2, <4>1 DEF Rows, IntentPending
      <3> QED
        BY <3>1, <3>2
    <2>7. EndedIsLinked' /\ RowsFollowJournal'
      <3>1. "dispatching" \notin Ended /\ turns'[mine[c]].status = "dispatching"
            /\ ~turns'[mine[c]].linked
        BY <2>4 DEF Ended
      <3> QED
        BY <2>1, <2>4, <3>1 DEF Rows, EndedIsLinked, RowsFollowJournal
    <2> QED
      BY <2>5, <2>6, <2>7 DEF Rows
  <1> QED
    BY <1>1, <1>2

\* the reply to turn/start as well,
LEMMA RowsReply ==
  ASSUME TypeOK, Rows, NEW c \in Callers, StartReply(c)
  PROVE  Rows'
  <1> DEFINE ok == reply[c] # Failed
  <1>1. /\ turns' = Resolved(mine[c], ok, IF ok THEN "inProgress" ELSE "unknown")
        /\ UNCHANGED <<thread, journal, issued>>
        /\ pc[c] = "startWait"
    BY DEF StartReply, Finish
  <1>2. /\ pc'[c] = "idle" /\ mine'[c] = NoTurn
        /\ \A d \in Callers : d # c => pc'[d] = pc[d] /\ mine'[d] = mine[d]
    BY DEF StartReply, Finish, TypeOK, PointType, CommandType
  <1>3. /\ mine[c] \in Turns /\ mine[c] <= issued /\ mine[c] # NoTurn
        /\ turns[mine[c]] = [status |-> "dispatching", linked |-> FALSE]
    BY <1>1, IntentType DEF Rows, IntentsUnique, IntentPending
  <1>4. /\ turns'[mine[c]] =
              [status |-> IF ok /\ journal.ended[mine[c]] # "none" THEN journal.ended[mine[c]]
                          ELSE IF ok THEN "inProgress" ELSE "unknown",
               linked |-> ok]
        /\ \A t \in Turns : t # mine[c] => turns'[t] = turns[t]
    BY <1>1, <1>3 DEF Resolved, TypeOK, StoreType
  <1>5. IntentsUnique'
    <2>1. /\ \A d \in Callers : mine'[d] <= issued'
          /\ \A d, e \in Callers : d # e /\ mine'[d] = mine'[e] => mine'[d] = NoTurn
      <3>1. NoTurn <= issued
        BY ConstantTypes DEF TypeOK, CommandType
      <3> QED
        BY <1>1, <1>2, <3>1 DEF Rows, IntentsUnique
    <2>2. \A d \in Callers : pc'[d] \in Starting => mine'[d] # NoTurn
      BY <1>2 DEF Rows, IntentsUnique, Starting
    <2>3. \A t \in Turns : t > issued => t # mine[c]
      BY <1>3, ConstantTypes DEF TypeOK, CommandType
    <2>4. \A t \in Turns : t > issued' => turns'[t] = [status |-> "none", linked |-> FALSE]
      BY <1>1, <1>4, <2>3 DEF Rows, IntentsUnique
    <2> QED
      BY <2>1, <2>2, <2>4 DEF IntentsUnique, Starting
  <1>6. IntentPending'
    <2> SUFFICES ASSUME NEW d \in Callers, pc'[d] \in Starting
                 PROVE  /\ pc'[d] = "startIntent" =>
                             turns'[mine'[d]] = [status |-> "none", linked |-> FALSE]
                        /\ pc'[d] \in {"startSend", "startWait"} =>
                             /\ turns'[mine'[d]] = [status |-> "dispatching", linked |-> FALSE]
                             /\ thread'.exists
      BY DEF IntentPending, Starting
    <2>1. d # c
      BY <1>2 DEF Starting
    <2>2. mine[d] \in Turns /\ mine[d] # mine[c]
      BY <1>2, <1>3, <2>1, IntentType DEF Rows, IntentsUnique, Starting
    <2> QED
      BY <1>1, <1>2, <1>4, <2>1, <2>2 DEF Rows, IntentPending
  <1>7. EndedIsLinked' /\ RowsFollowJournal'
    <2>1. journal.ended[mine[c]] \in {"none"} \cup Ended
      BY <1>3 DEF TypeOK, StoreType
    <2> QED
      <3>1. "inProgress" \notin Ended /\ "unknown" \notin Ended
        BY DEF Ended
      <3>2. /\ ok /\ journal.ended[mine[c]] # "none" =>
                 turns'[mine[c]].status = journal.ended[mine[c]] /\ turns'[mine[c]].linked
            /\ ok /\ journal.ended[mine[c]] = "none" =>
                 turns'[mine[c]].status = "inProgress"
            /\ ~ok => turns'[mine[c]].status = "unknown" /\ ~turns'[mine[c]].linked
        <4> HIDE DEF ok
        <4>1. CASE ok
          BY <1>4, <4>1
        <4>2. CASE ~ok
          BY <1>4, <4>2
        <4> QED
          BY <4>1, <4>2
      <3>3. EndedIsLinked'
        BY <1>4, <3>1, <3>2 DEF Rows, EndedIsLinked
      <3>4. RowsFollowJournal'
        <4>1. ASSUME NEW t \in Turns
              PROVE  /\ turns'[t].linked /\ journal.ended[t] # "none"
                          => turns'[t].status = journal.ended[t]
                     /\ turns'[t].status \in Ended => journal.ended[t] = turns'[t].status
          <5>1. CASE t = mine[c]
            BY <3>1, <3>2, <5>1
          <5>2. CASE t # mine[c]
            BY <1>4, <5>2 DEF Rows, RowsFollowJournal
          <5> QED
            BY <5>1, <5>2
        <4> QED
          BY <1>1, <4>1 DEF RowsFollowJournal
      <3> QED
        BY <3>3, <3>4
  <1> QED
    BY <1>5, <1>6, <1>7 DEF Rows

\* and an event the row of its turn, when the start of that turn was answered.
LEMMA RowsPublish ==
  ASSUME TypeOK, Rows, NEW e \in Connections, Publish(e)
  PROVE  Rows'
  <1> DEFINE m == Head(wire[e])
  <1>1. m \in Event
    BY DEF TypeOK, ProviderType, Publish
  <1>2. /\ m.turn \in Turns
        /\ m.kind = "turn_completed" => m.status \in Ended
        /\ m.kind # "turn_completed" => m.status = "inProgress"
    BY <1>1 DEF Event
  <1>3. /\ journal' = append_event(m) /\ turns' = TurnsAfter(m) /\ thread' = ThreadAfter(m)
        /\ UNCHANGED <<pc, mine, issued>>
    BY DEF Publish, caller
  <1>4. thread'.exists = thread.exists
    BY <1>3 DEF ThreadAfter, TypeOK, StoreType
  <1>5. /\ \A t \in Turns : t # m.turn => turns'[t] = turns[t]
        /\ \A t \in Turns : turns'[t].linked = turns[t].linked
        /\ ~turns[m.turn].linked => turns' = turns
    BY <1>2, <1>3 DEF TurnsAfter, TypeOK, StoreType
  <1>6. \A t \in Turns : ~turns[t].linked => turns'[t] = turns[t]
    BY <1>5
  <1>7. IntentsUnique'
    BY <1>3, <1>6 DEF Rows, IntentsUnique
  <1>8. IntentPending'
    <2>1. \A d \in Callers : pc[d] \in Starting => mine[d] \in Turns
      BY IntentType DEF Rows, Starting
    <2> QED
      BY <1>3, <1>4, <1>6, <2>1 DEF Rows, IntentPending, Starting
  <1>9. /\ \A t \in Turns : t # m.turn => journal'.ended[t] = journal.ended[t]
        /\ m.kind = "turn_completed" => journal'.ended[m.turn] = m.status
        /\ m.kind # "turn_completed" => journal'.ended[m.turn] = journal.ended[m.turn]
    BY <1>2, <1>3 DEF append_event, TypeOK, StoreType
  <1>10. ASSUME turns[m.turn].linked
         PROVE  /\ m.kind = "turn_completed" => turns'[m.turn].status = m.status
                /\ m.kind # "turn_completed" /\ journal.ended[m.turn] # "none" => turns' = turns
                /\ m.kind # "turn_completed" /\ journal.ended[m.turn] = "none"
                     => turns'[m.turn].status = "inProgress"
    <2>1. journal.ended[m.turn] = "none" => turns[m.turn].status \notin Ended
      BY <1>2 DEF Rows, RowsFollowJournal, Ended
    <2>2. "inProgress" \notin Ended
      BY DEF Ended
    <2> QED
      BY <1>2, <1>3, <1>10, <2>1, <2>2 DEF TurnsAfter, LateStart, TypeOK, StoreType
  <1>11. EndedIsLinked'
    BY <1>5, <1>6 DEF Rows, EndedIsLinked, TypeOK, StoreType
  <1>12. RowsFollowJournal'
    <2>1. "inProgress" \notin Ended
      BY DEF Ended
    <2>2. CASE turns[m.turn].linked
      BY <1>2, <1>5, <1>9, <1>10, <2>1, <2>2 DEF Rows, RowsFollowJournal
    <2>3. CASE ~turns[m.turn].linked
      BY <1>5, <1>9, <2>3 DEF Rows, RowsFollowJournal, EndedIsLinked
    <2> QED
      BY <2>2, <2>3
  <1> QED
    BY <1>7, <1>8, <1>11, <1>12 DEF Rows

\* The rows are deleted only when no start is under way.
LEMMA RowsDelete ==
  ASSUME TypeOK, Rows, delete_thread
  PROVE  Rows'
  <1>1. /\ turns' = [t \in Turns |-> [status |-> "none", linked |-> FALSE]]
        /\ journal' = [started |-> NoTurn, ended |-> [t \in Turns |-> "none"]]
        /\ UNCHANGED <<pc, mine, issued>>
    BY DEF delete_thread, caller
  <1>2. \A d \in Callers : pc[d] \notin {"startSend", "startWait"}
    BY IntentType DEF delete_thread, check_thread_idle, PendingTurn, Busy, Rows, IntentPending
  <1>3. IntentsUnique'
    BY <1>1 DEF Rows, IntentsUnique
  <1>4. IntentPending'
    BY <1>1, <1>2, IntentType DEF Rows, IntentPending
  <1>5. EndedIsLinked' /\ RowsFollowJournal'
    BY <1>1 DEF EndedIsLinked, RowsFollowJournal, Ended
  <1> QED
    BY <1>3, <1>4, <1>5 DEF Rows

LEMMA InsideRows ==
  ASSUME TypeOK, Rows, NEW c \in Callers, Inside(c)
  PROVE  Rows'
  <1> USE HoldingPoints DEF store, Starting
  <1>1. CASE resume(c) \/ ResumeReply(c) \/ read(c) \/ ReadReply(c)
    <2>1. UNCHANGED <<thread, turns, journal, issued>> /\ mine' \in {mine, [mine EXCEPT ![c] = NoTurn]}
      BY <1>1 DEF resume, ResumeReply, read, ReadReply, Finish
    <2>2. \E p \in ({"idle"} \cup Holding) \ Starting : pc' = [pc EXCEPT ![c] = p]
      BY <1>1 DEF resume, ResumeReply, read, ReadReply, Finish, Keep
    <2> QED
      BY <2>1, <2>2, RowsQuiet
  <1>2. CASE SaveSnapshot(c)
    BY <1>2, RowsFinish DEF SaveSnapshot, save_thread
  <1>3. CASE start(c) \/ StartCheck(c)
    <2>1. UNCHANGED <<thread, turns, journal>>
      BY <1>3 DEF start, StartCheck
    <2>2. CASE \E active, reconciled : Keep(c, "startIntent", active, reconciled) /\ Intend(c)
      BY <2>1, <2>2, RowsIntend
    <2>3. CASE /\ mine' \in {mine, [mine EXCEPT ![c] = NoTurn]} /\ UNCHANGED issued
               /\ \E point \in {"idle", "startCheck"} : pc' = [pc EXCEPT ![c] = point]
      BY <2>1, <2>3, RowsQuiet
    <2>4. CASE start(c)
      <3>1. \/ Keep(c, "startIntent", NoTurn, TRUE) /\ Intend(c)
            \/ Keep(c, "startCheck", Actor(c).active, TRUE) /\ UNCHANGED <<mine, issued>>
            \/ Finish(c, Actor(c).active, Actor(c).reconciled)
        BY <2>4 DEF start
      <3> QED
        BY <2>2, <2>3, <3>1 DEF Keep, Finish
    <2>5. CASE StartCheck(c)
      <3>1. \/ Keep(c, "startIntent", NoTurn, TRUE) /\ Intend(c)
            \/ Finish(c, IF reply[c] = Failed THEN Actor(c).active ELSE reply[c], TRUE)
        BY <2>5 DEF StartCheck
      <3> QED
        BY <2>2, <2>3, <3>1 DEF Finish
    <2> QED
      BY <1>3, <2>4, <2>5
  <1>4. CASE record_turn_intent(c)
    BY <1>4, RowsRecord
  <1>5. CASE StartSend(c)
    <2>1. /\ UNCHANGED <<thread, turns, journal, issued, mine>>
          /\ pc[c] = "startSend" /\ pc'[c] = "startWait"
          /\ \A d \in Callers : d # c => pc'[d] = pc[d]
      BY <1>5 DEF StartSend, Keep, TypeOK, PointType
    <2>2. IntentsUnique' /\ EndedIsLinked' /\ RowsFollowJournal'
      BY <2>1 DEF Rows, IntentsUnique, EndedIsLinked, RowsFollowJournal
    <2>3. IntentPending'
      BY <2>1 DEF Rows, IntentPending
    <2> QED
      BY <2>2, <2>3 DEF Rows
  <1>6. CASE StartReply(c)
    BY <1>6, RowsReply
  <1>7. CASE \/ steer(c) \/ SteerReply(c) \/ interrupt(c) \/ InterruptReply(c)
             \/ InterruptRead(c)
    <2>1. UNCHANGED <<thread, turns, journal, issued>> /\ mine' \in {mine, [mine EXCEPT ![c] = NoTurn]}
      BY <1>7 DEF steer, SteerReply, interrupt, InterruptReply, InterruptRead, Finish
    <2>2. \E p \in ({"idle"} \cup Holding) \ Starting : pc' = [pc EXCEPT ![c] = p]
      BY <1>7 DEF steer, SteerReply, interrupt, InterruptReply, InterruptRead, Finish, Keep
    <2> QED
      BY <2>1, <2>2, RowsQuiet
  <1>8. ASSUME NEW point, NEW next \in {"archiveRead", "restoreRead"}, set_archived(c, point, next)
         PROVE  Rows'
    <2>1. /\ UNCHANGED <<turns, journal, issued>> /\ (thread.exists => thread'.exists)
          /\ mine' \in {mine, [mine EXCEPT ![c] = NoTurn]}
      BY <1>8 DEF set_archived, Finish, TypeOK, StoreType
    <2>2. \E p \in ({"idle"} \cup Holding) \ Starting : pc' = [pc EXCEPT ![c] = p]
      BY <1>8 DEF set_archived, Finish, Keep
    <2> QED
      BY <2>1, <2>2, RowsQuiet
  <1>9. ASSUME NEW point, NEW next \in {"archiveWait", "restoreWait"}, NEW archived,
                ArchiveRequest(c, point, next, archived)
         PROVE  Rows'
    <2>1. /\ UNCHANGED <<turns, journal, issued>> /\ (thread.exists => thread'.exists)
          /\ mine' \in {mine, [mine EXCEPT ![c] = NoTurn]}
      BY <1>9 DEF ArchiveRequest, Finish, TypeOK, StoreType
    <2>2. \E p \in ({"idle"} \cup Holding) \ Starting : pc' = [pc EXCEPT ![c] = p]
      BY <1>9 DEF ArchiveRequest, Finish, Keep
    <2> QED
      BY <2>1, <2>2, RowsQuiet
  <1>10. ASSUME NEW point, NEW archived, ArchiveReply(c, point, archived)
         PROVE  Rows'
    <2>1. /\ UNCHANGED <<turns, journal, issued>> /\ (thread.exists => thread'.exists)
          /\ mine' \in {mine, [mine EXCEPT ![c] = NoTurn]}
      BY <1>10 DEF ArchiveReply, Finish, TypeOK, StoreType
    <2>2. \E p \in ({"idle"} \cup Holding) \ Starting : pc' = [pc EXCEPT ![c] = p]
      BY <1>10 DEF ArchiveReply, Finish, Keep
    <2> QED
      BY <2>1, <2>2, RowsQuiet
  <1> QED
    BY <1>1, <1>2, <1>3, <1>4, <1>5, <1>6, <1>7, <1>8, <1>9, <1>10 DEF Inside

LEMMA RowsStep == TypeOK /\ Rows /\ [Next]_vars => Rows'
  <1> SUFFICES ASSUME TypeOK, Rows, [Next]_vars PROVE Rows'
    OBVIOUS
  <1>1. CASE \E c \in Callers : \E point \in Waiting : Call(c, point) \/ Manage(c, point)
    <2>0. PICK c \in Callers, point \in Waiting : Call(c, point) \/ Manage(c, point)
      BY <1>1
    <2>1. UNCHANGED <<thread, turns, journal, issued, mine>> /\ pc' = [pc EXCEPT ![c] = point]
      BY <2>0 DEF Call, Manage, store
    <2>2. point \notin Starting
      BY DEF Waiting, Starting
    <2> QED
      BY <2>1, <2>2, RowsSame DEF TypeOK, PointType
  <1>2. CASE \E c \in Callers : reconnect_codex(c) \/ ReconnectShutdown(c)
    <2>0. PICK c \in Callers : reconnect_codex(c) \/ ReconnectShutdown(c)
      BY <1>2
    <2>1. /\ UNCHANGED <<thread, turns, journal, issued, mine>>
          /\ pc' \in {[pc EXCEPT ![c] = "idle"], [pc EXCEPT ![c] = "reconnect"]}
      BY <2>0 DEF reconnect_codex, ReconnectShutdown, store
    <2> QED
      BY <2>1, RowsSame DEF TypeOK, PointType, Starting
  <1>3. CASE set_codex_binary \/ TurnEnds \/ ServerDies \/ ReaderStops \/ UNCHANGED vars
    <2>1. UNCHANGED <<thread, turns, journal, issued, mine, pc>>
      BY <1>3 DEF set_codex_binary, TurnEnds, ServerDies, ReaderStops, store, caller, vars
    <2> QED
      BY <2>1, RowsSame
  <1>4. CASE Crash
    <2>1. /\ UNCHANGED <<thread, turns, journal, issued>>
          /\ \A d \in Callers : mine'[d] = NoTurn /\ pc'[d] = "idle"
      BY <1>4 DEF Crash, store
    <2> QED
      BY <2>1, RowsSame DEF Starting
  <1> QED
    BY <1>1, <1>2, <1>3, <1>4, InsideRows, RowsPublish, RowsDelete, NextSteps DEF Outside

-----------------------------------------------------------------------------
(* The theorems *)

LEMMA InvariantInit == Init => IInv
  <1> SUFFICES ASSUME Init PROVE IInv
    OBVIOUS
  <1>1. TypeOK
    BY TypeInit
  <1>2. LatestIsUp
    <2>1. \A e \in Connections : Up(e) => e = conn
      BY DEF Init, Up
    <2>2. \A e \in Connections : e > conn => actor[e] = Fresh
      <3>1. \A e \in Connections : e > 1 => e # 1
        BY ConstantTypes
      <3>2. \A e \in Connections : e # 1 =>
              actor[e].owner = None /\ actor[e].active = NoTurn /\ ~actor[e].reconciled
        BY DEF Init, Fresh
      <3>3. \A e \in Connections : e # 1 => actor[e] = Fresh
        BY <1>1, <3>2 DEF TypeOK, ActorType, Fresh
      <3> QED
        BY <3>1, <3>3 DEF Init
    <2>3. \A c \in Callers : via[c] <= conn
      <3>1. \A c \in Callers : via[c] = conn
        BY DEF Init
      <3>2. conn \in Nat
        BY <1>1, ConstantTypes DEF TypeOK, ProviderType
      <3>3. conn <= conn
        BY <3>2
      <3> QED
        BY <3>1, <3>3
    <2> QED
      BY <2>1, <2>2, <2>3 DEF LatestIsUp
  <1>3. ActorLocked /\ InFlight
    BY DEF Init, ActorLocked, InFlight, Holding
  <1>4. Informed
    BY DEF Init, Informed
  <1>5. IntentsUnique
    BY ConstantTypes DEF Init, IntentsUnique
  <1>6. IntentPending /\ EndedIsLinked /\ RowsFollowJournal
    BY DEF Init, IntentPending, EndedIsLinked, RowsFollowJournal, Ended
  <1> QED
    BY <1>1, <1>2, <1>3, <1>4, <1>5, <1>6 DEF IInv

LEMMA InvariantStep == IInv /\ [Next]_vars => IInv'
  BY TypeStep, OwnerStep, KnowledgeStep, RowsStep DEF IInv, Rows

LEMMA Invariance == Spec => []IInv
  BY InvariantInit, InvariantStep, PTL DEF Spec

\* Every variable keeps its type, whatever the interleaving of commands, events,
\* and failures of connections.
THEOREM TypeCorrect == Spec => []TypeOK
  <1>1. IInv => TypeOK
    BY DEF IInv
  <1> QED
    BY <1>1, Invariance, PTL

\* An idle actor of the live connection that is reconciled and knows of no active
\* turn is right about Codex (Sessions::start_with_options relies on it).
THEOREM ReconciledCorrect == Spec => []ReconciledIsTrue
  <1>1. IInv => ReconciledIsTrue
    BY DEF IInv, Informed, ReconciledIsTrue
  <1> QED
    BY <1>1, Invariance, PTL

\* The row of a turn agrees with the journal, whichever of the reply to turn/start
\* and its notifications is processed first.
THEOREM RowsCorrect == Spec => []RowsFollowJournal
  <1>1. IInv => RowsFollowJournal
    BY DEF IInv
  <1> QED
    BY <1>1, Invariance, PTL

\* Only turn/start starts a turn.
LEMMA TurnStarter ==
  ASSUME TypeOK, [Next]_vars, TurnStarts
  PROVE  \E c \in Callers : StartSend(c) /\ Up(via[c]) /\ remote'.active = mine[c]
  <1>1. remote'.active # NoTurn /\ remote'.active # remote.active
    BY DEF TurnStarts
  <1>2. CASE \E c \in Callers : Inside(c)
    <2>1. PICK c \in Callers : Inside(c)
      BY <1>2
    <2>2. CASE resume(c) \/ ResumeReply(c) \/ read(c) \/ ReadReply(c) \/ SaveSnapshot(c)
      BY <1>1, <2>2 DEF resume, ResumeReply, read, ReadReply, SaveSnapshot, provider
    <2>3. CASE start(c) \/ StartCheck(c) \/ record_turn_intent(c) \/ StartReply(c)
      BY <1>1, <2>3 DEF start, StartCheck, record_turn_intent, StartReply, provider
    <2>4. CASE StartSend(c)
      BY <1>1, <2>4 DEF StartSend, Rejected, TypeOK, ProviderType
    <2>5. CASE steer(c) \/ SteerReply(c) \/ interrupt(c) \/ InterruptReply(c) \/ InterruptRead(c)
      BY <1>1, <2>5 DEF steer, SteerReply, interrupt, InterruptReply, InterruptRead, Rejected,
                        provider, TypeOK, ProviderType
    <2>6. CASE \/ set_archived(c, "archive", "archiveRead")
               \/ set_archived(c, "restore", "restoreRead")
               \/ ArchiveRequest(c, "archiveRead", "archiveWait", TRUE)
               \/ ArchiveRequest(c, "restoreRead", "restoreWait", FALSE)
               \/ ArchiveReply(c, "archiveWait", TRUE)
               \/ ArchiveReply(c, "restoreWait", FALSE)
      BY <1>1, <2>6 DEF set_archived, ArchiveRequest, ArchiveReply, Rejected, provider, TypeOK,
                        ProviderType
    <2> QED
      BY <2>1, <2>2, <2>3, <2>4, <2>5, <2>6 DEF Inside
  <1>3. CASE Outside \/ UNCHANGED vars
    BY <1>1, <1>3 DEF Outside, Call, Manage, reconnect_codex, ReconnectShutdown, delete_thread,
      set_codex_binary, Publish, TurnEnds, ServerDies, ReaderStops, Crash, Shutdown, Stopped,
      provider, vars, TypeOK, ProviderType
  <1> QED
    BY <1>2, <1>3, NextSteps

\* No turn/start is sent to Codex while it runs a turn of the thread.
THEOREM NoSecondTurn == Spec => OneActiveTurn
  <1>1. IInv /\ [Next]_vars => (TurnStarts => remote.active = NoTurn)
    BY TurnStarter DEF IInv, InFlight, Relying, StartSend
  <1>2. IInv /\ [Next]_vars => [TurnStarts => remote.active = NoTurn]_vars
    BY <1>1
  <1> QED
    BY <1>2, Invariance, PTL DEF Spec, OneActiveTurn

\* A turn that starts has its intent in the store and its thread has not been
\* deleted, although deleting takes no actor.
THEOREM StartIsRecorded == Spec => DispatchIsRecorded
  <1>1. IInv /\ [Next]_vars
          => (TurnStarts => turns[remote'.active].status = "dispatching" /\ thread.exists)
    <2> SUFFICES ASSUME IInv, [Next]_vars, TurnStarts
                 PROVE  turns[remote'.active].status = "dispatching" /\ thread.exists
      OBVIOUS
    <2>1. PICK c \in Callers : StartSend(c) /\ remote'.active = mine[c]
      BY TurnStarter DEF IInv
    <2>2. turns[mine[c]] = [status |-> "dispatching", linked |-> FALSE] /\ thread.exists
      BY <2>1 DEF IInv, IntentPending, StartSend
    <2> QED
      BY <2>1, <2>2
  <1>2. IInv /\ [Next]_vars
          => [TurnStarts => turns[remote'.active].status = "dispatching" /\ thread.exists]_vars
    BY <1>1
  <1> QED
    BY <1>2, Invariance, PTL DEF Spec, DispatchIsRecorded

\* A command on a live connection archives only a thread without an active turn,
\* even one whose start was lost on its way and left no busy row.
THEOREM ArchivedCorrect == Spec => ArchivedWhenQuiet
  <1> DEFINE Quiet ==
        \A c \in Callers :
          pc[c] = "archiveWait" /\ Up(via[c]) /\ ~thread.archived /\ thread'.archived
            => remote.active = NoTurn
  <1>1. IInv => Quiet
    BY DEF IInv, InFlight, Relying
  <1>2. IInv /\ [Next]_vars => [Quiet]_vars
    BY <1>1
  <1> QED
    BY <1>2, Invariance, PTL DEF Spec, ArchivedWhenQuiet

-----------------------------------------------------------------------------
(* The order of events on the wires, and the row of the thread *)

\* A step sends nothing, and no intent becomes unsent again.
LEMMA CalmOrder ==
  ASSUME TypeOK, StartsComeFirst, UnsentIsUnheard, ActiveIsLatest,
         \A e \in Connections : wire'[e] \in {wire[e], <<>>},
         \A t \in Turns : journal'.ended[t] \in {journal.ended[t], "none"},
         remote'.active \in {remote.active, NoTurn},
         \A t \in Turns : Unsent(t)' => Unsent(t),
         remote'.active # NoTurn => conn' = conn /\ server'[conn] = "up"
  PROVE  StartsComeFirst' /\ UnsentIsUnheard' /\ ActiveIsLatest'
  <1>1. \A e \in Connections : \A n \in DOMAIN wire'[e] :
          n \in DOMAIN wire[e] /\ wire'[e][n] = wire[e][n] /\ wire[e][n].turn \in Turns
    <2> SUFFICES ASSUME NEW e \in Connections, NEW n \in DOMAIN wire'[e]
                 PROVE  /\ n \in DOMAIN wire[e] /\ wire'[e][n] = wire[e][n]
                        /\ wire[e][n].turn \in Turns
      OBVIOUS
    <2>1. n \in DOMAIN wire[e] /\ wire'[e][n] = wire[e][n]
      <3>1. CASE wire'[e] = wire[e]
        BY <3>1
      <3>2. CASE wire'[e] = <<>>
        BY <3>2
      <3> QED
        BY <3>1, <3>2
    <2>2. wire[e][n] \in Event
      BY <2>1 DEF TypeOK, ProviderType
    <2> QED
      BY <2>1, <2>2 DEF Event
  <1>2. StartsComeFirst'
    <2> SUFFICES ASSUME NEW e \in Connections, NEW n \in DOMAIN wire'[e],
                        wire'[e][n].kind = "turn_started"
                 PROVE  /\ journal'.ended[wire'[e][n].turn] = "none"
                        /\ \A f \in Connections : \A k \in DOMAIN wire'[f] :
                             f # e \/ k < n => wire'[f][k].turn # wire'[e][n].turn
      BY DEF StartsComeFirst
    <2>1. n \in DOMAIN wire[e] /\ wire'[e][n] = wire[e][n] /\ wire[e][n].turn \in Turns
      BY <1>1
    <2>2. /\ journal.ended[wire[e][n].turn] = "none"
          /\ \A f \in Connections : \A k \in DOMAIN wire[f] :
               f # e \/ k < n => wire[f][k].turn # wire[e][n].turn
      BY <2>1 DEF StartsComeFirst
    <2>3. journal'.ended[wire[e][n].turn] = "none"
      BY <2>1, <2>2
    <2> QED
      BY <1>1, <2>1, <2>2, <2>3
  <1>3. UnsentIsUnheard'
    <2> SUFFICES ASSUME NEW t \in Turns, Unsent(t)'
                 PROVE  /\ journal'.ended[t] = "none"
                        /\ remote'.active # t
                        /\ \A e \in Connections : \A n \in DOMAIN wire'[e] :
                             wire'[e][n].turn # t
      BY DEF UnsentIsUnheard
    <2>1. /\ journal.ended[t] = "none" /\ remote.active # t
          /\ \A e \in Connections : \A n \in DOMAIN wire[e] : wire[e][n].turn # t
      BY DEF UnsentIsUnheard
    <2>2. t # NoTurn
      BY ConstantTypes
    <2> QED
      BY <1>1, <2>1, <2>2
  <1>4. ActiveIsLatest'
    <2> SUFFICES ASSUME remote'.active # NoTurn
                 PROVE  /\ server'[conn'] = "up"
                        /\ \A e \in Connections : \A n \in DOMAIN wire'[e] :
                             e # conn' => wire'[e][n].turn # remote'.active
      BY DEF ActiveIsLatest, Up
    <2>1. remote'.active = remote.active /\ conn' = conn /\ server'[conn'] = "up"
      OBVIOUS
    <2>2. \A e \in Connections : \A n \in DOMAIN wire[e] :
            e # conn => wire[e][n].turn # remote.active
      BY <2>1 DEF ActiveIsLatest
    <2> QED
      BY <1>1, <2>1, <2>2
  <1> QED
    BY <1>2, <1>3, <1>4

\* An intent is unsent from the time its identity is chosen to its turn/start.
LEMMA UnsentStep ==
  ASSUME TypeOK, [Next]_vars
  PROVE  \A t \in Turns : Unsent(t)' => Unsent(t)
  <1> DEFINE Before == {"startIntent", "startSend"}
  <1>1. CASE \E c \in Callers : Inside(c)
    <2>0. PICK c \in Callers : Inside(c)
      BY <1>1
    <2>1. \A d \in Callers : d # c => pc'[d] = pc[d] /\ mine'[d] = mine[d]
      <3>1. \A d \in Callers : d # c => pc'[d] = pc[d]
        BY <2>0, InsideStep DEF TypeOK, PointType, Keep, Finish
      <3>2. mine' = mine \/ mine' = [mine EXCEPT ![c] = NoTurn] \/ mine' = [mine EXCEPT ![c] = issued + 1]
        BY <2>0 DEF Inside, resume, ResumeReply, read, ReadReply, SaveSnapshot, start, StartCheck,
          record_turn_intent, StartSend, StartReply, steer, SteerReply, interrupt, InterruptReply,
          InterruptRead, set_archived, ArchiveRequest, ArchiveReply, Finish, Intend
      <3> QED
        BY <3>1, <3>2 DEF TypeOK, CommandType
    <2>2. UNCHANGED issued \/ (issued + 1 \in Turns /\ issued' = issued + 1)
      BY <2>0 DEF Inside, resume, ResumeReply, read, ReadReply, SaveSnapshot, start, StartCheck,
        record_turn_intent, StartSend, StartReply, steer, SteerReply, interrupt, InterruptReply,
        InterruptRead, set_archived, ArchiveRequest, ArchiveReply, Finish, Intend
    <2>3. pc'[c] \in Before => \/ pc[c] \in Before /\ mine'[c] = mine[c]
                               \/ mine'[c] = issued + 1
      <3>1. ASSUME NEW active, NEW reconciled, Finish(c, active, reconciled)
            PROVE  pc'[c] \notin Before
        BY <3>1 DEF Finish, TypeOK, PointType
      <3>2. ASSUME NEW active, NEW reconciled, NEW point, Keep(c, point, active, reconciled)
            PROVE  pc'[c] = point
        BY <3>2 DEF Keep, TypeOK, PointType
      <3>3. CASE start(c) \/ StartCheck(c)
        <4>1. CASE Intend(c)
          BY <4>1 DEF Intend, TypeOK, CommandType
        <4>2. CASE ~Intend(c)
          <5>1. \/ \E active, reconciled : Finish(c, active, reconciled)
                \/ \E active, reconciled : Keep(c, "startCheck", active, reconciled)
            BY <3>3, <4>2 DEF start, StartCheck
          <5> QED
            BY <3>1, <3>2, <5>1
        <4> QED
          BY <4>1, <4>2
      <3>4. CASE record_turn_intent(c)
        BY <3>1, <3>4 DEF record_turn_intent
      <3>5. CASE resume(c) \/ ResumeReply(c) \/ read(c) \/ ReadReply(c) \/ SaveSnapshot(c)
        <4>1. \/ \E active, reconciled : Finish(c, active, reconciled)
              \/ \E active, reconciled : \E point \in {"resumeWait", "resumeSave", "readWait", "readSave"} :
                   Keep(c, point, active, reconciled)
          BY <3>5 DEF resume, ResumeReply, read, ReadReply, SaveSnapshot
        <4> QED
          BY <3>1, <3>2, <4>1
      <3>6. CASE StartSend(c) \/ StartReply(c)
        <4>1. \/ \E active, reconciled : Finish(c, active, reconciled)
              \/ \E active, reconciled : Keep(c, "startWait", active, reconciled)
          BY <3>6 DEF StartSend, StartReply
        <4> QED
          BY <3>1, <3>2, <4>1
      <3>7. CASE steer(c) \/ SteerReply(c) \/ interrupt(c) \/ InterruptReply(c) \/ InterruptRead(c)
        <4>1. \/ \E active, reconciled : Finish(c, active, reconciled)
              \/ \E active, reconciled : \E point \in {"steerWait", "interruptWait", "interruptRead"} :
                   Keep(c, point, active, reconciled)
          BY <3>7 DEF steer, SteerReply, interrupt, InterruptReply, InterruptRead
        <4> QED
          BY <3>1, <3>2, <4>1
      <3>8. CASE \/ set_archived(c, "archive", "archiveRead")
                 \/ set_archived(c, "restore", "restoreRead")
                 \/ ArchiveRequest(c, "archiveRead", "archiveWait", TRUE)
                 \/ ArchiveRequest(c, "restoreRead", "restoreWait", FALSE)
                 \/ ArchiveReply(c, "archiveWait", TRUE)
                 \/ ArchiveReply(c, "restoreWait", FALSE)
        <4>1. \/ \E active, reconciled : Finish(c, active, reconciled)
              \/ \E active, reconciled :
                   \E point \in {"archiveRead", "restoreRead", "archiveWait", "restoreWait"} :
                     Keep(c, point, active, reconciled)
          BY <3>8 DEF set_archived, ArchiveRequest, ArchiveReply
        <4> QED
          BY <3>1, <3>2, <4>1
      <3> QED
        BY <2>0, <3>3, <3>4, <3>5, <3>6, <3>7, <3>8 DEF Inside
    <2>4. issued \in Nat
      <3>1. issued \in {0} \cup Turns
        BY DEF TypeOK, CommandType
      <3> QED
        BY <3>1, ConstantTypes
    <2> SUFFICES ASSUME NEW t \in Turns, Unsent(t)' PROVE Unsent(t)
      OBVIOUS
    <2>5. t \in Nat
      BY ConstantTypes
    <2>6. CASE t > issued'
      BY <2>2, <2>4, <2>5, <2>6 DEF Unsent
    <2>7. ASSUME NEW d \in Callers, pc'[d] \in Before, mine'[d] = t
          PROVE  Unsent(t)
      <3>1. CASE d # c
        BY <2>1, <2>7, <3>1 DEF Unsent
      <3>2. CASE d = c /\ pc[c] \in Before /\ mine'[c] = mine[c]
        BY <2>7, <3>2 DEF Unsent
      <3>3. CASE d = c /\ mine'[c] = issued + 1
        BY <2>4, <2>7, <3>3 DEF Unsent
      <3> QED
        BY <2>3, <2>7, <3>1, <3>2, <3>3
    <2> QED
      BY <2>6, <2>7 DEF Unsent
  <1>2. CASE Outside \/ UNCHANGED vars
    <2>1. UNCHANGED issued /\ \A d \in Callers : pc'[d] \in Before => pc'[d] = pc[d] /\ mine'[d] = mine[d]
      <3>1. CASE \E c \in Callers : \E point \in Waiting : Call(c, point) \/ Manage(c, point)
        <4>1. PICK c \in Callers, point \in Waiting : Call(c, point) \/ Manage(c, point)
          BY <3>1
        <4>2. UNCHANGED <<mine, issued>> /\ pc' = [pc EXCEPT ![c] = point] /\ point \notin Before
          BY <4>1 DEF Call, Manage, Waiting
        <4> QED
          BY <4>2 DEF TypeOK, PointType
      <3>2. CASE \E c \in Callers : reconnect_codex(c) \/ ReconnectShutdown(c)
        <4>1. PICK c \in Callers : reconnect_codex(c) \/ ReconnectShutdown(c)
          BY <3>2
        <4>2. UNCHANGED <<mine, issued>> /\ \E p \in {"idle", "reconnect"} : pc' = [pc EXCEPT ![c] = p]
          BY <4>1 DEF reconnect_codex, ReconnectShutdown
        <4> QED
          BY <4>2 DEF TypeOK, PointType
      <3>3. CASE \/ delete_thread \/ set_codex_binary \/ (\E e \in Connections : Publish(e))
                 \/ TurnEnds \/ ServerDies \/ ReaderStops \/ UNCHANGED vars
        BY <3>3 DEF delete_thread, set_codex_binary, Publish, TurnEnds, ServerDies, ReaderStops,
                    caller, vars
      <3>4. CASE Crash
        BY <3>4 DEF Crash
      <3> QED
        BY <1>2, <3>1, <3>2, <3>3, <3>4 DEF Outside
    <2> QED
      BY <2>1 DEF Unsent
  <1> QED
    BY <1>1, <1>2, NextSteps

\* A command sends nothing on a wire unless it starts a turn,
LEMMA InsideWire ==
  ASSUME TypeOK, NEW c \in Callers, Inside(c), ~StartSend(c)
  PROVE  UNCHANGED wire /\ remote'.active = remote.active
  <1>1. CASE \/ resume(c) \/ ResumeReply(c) \/ read(c) \/ ReadReply(c) \/ SaveSnapshot(c)
             \/ start(c) \/ StartCheck(c) \/ record_turn_intent(c) \/ StartReply(c)
             \/ steer(c) \/ SteerReply(c) \/ InterruptReply(c) \/ InterruptRead(c)
             \/ set_archived(c, "archive", "archiveRead")
             \/ set_archived(c, "restore", "restoreRead")
             \/ ArchiveReply(c, "archiveWait", TRUE)
             \/ ArchiveReply(c, "restoreWait", FALSE)
    BY <1>1 DEF resume, ResumeReply, read, ReadReply, SaveSnapshot, start, StartCheck,
      record_turn_intent, StartReply, steer, SteerReply, InterruptReply, InterruptRead,
      set_archived, ArchiveReply, provider
  <1>2. CASE \/ interrupt(c)
             \/ ArchiveRequest(c, "archiveRead", "archiveWait", TRUE)
             \/ ArchiveRequest(c, "restoreRead", "restoreWait", FALSE)
    BY <1>2 DEF interrupt, ArchiveRequest, Rejected, TypeOK, ProviderType
  <1> QED
    BY <1>1, <1>2 DEF Inside

\* and never makes the row of the thread say that its turn started or ended.
LEMMA InsideThread ==
  ASSUME TypeOK, DeletedIsIdle, LatestTurnDecides, NEW c \in Callers, Inside(c)
  PROVE  UNCHANGED journal /\ DeletedIsIdle' /\ LatestTurnDecides'
  <1> USE DEF store
  <1>1. CASE \/ resume(c) \/ ResumeReply(c) \/ read(c) \/ ReadReply(c)
             \/ start(c) \/ StartCheck(c) \/ record_turn_intent(c) \/ StartSend(c) \/ StartReply(c)
             \/ steer(c) \/ SteerReply(c) \/ interrupt(c) \/ InterruptReply(c) \/ InterruptRead(c)
             \/ set_archived(c, "archive", "archiveRead")
             \/ set_archived(c, "restore", "restoreRead")
             \/ ArchiveRequest(c, "archiveRead", "archiveWait", TRUE)
             \/ ArchiveRequest(c, "restoreRead", "restoreWait", FALSE)
    <2>1. UNCHANGED <<thread, journal>>
      BY <1>1 DEF resume, ResumeReply, read, ReadReply, start, StartCheck, record_turn_intent,
        StartSend, StartReply, steer, SteerReply, interrupt, InterruptReply, InterruptRead,
        set_archived, ArchiveRequest
    <2> QED
      BY <2>1 DEF DeletedIsIdle, LatestTurnDecides
  <1>2. CASE SaveSnapshot(c)
    <2>1. /\ UNCHANGED journal /\ thread'.exists
          /\ thread'.status \in {"idle", "running"}
      BY <1>2 DEF SaveSnapshot, save_thread, SnapshotStatus
    <2> QED
      BY <2>1 DEF DeletedIsIdle, LatestTurnDecides, Ended
  <1>3. CASE ArchiveReply(c, "archiveWait", TRUE) \/ ArchiveReply(c, "restoreWait", FALSE)
    <2>1. /\ UNCHANGED journal
          /\ thread'.exists = thread.exists /\ thread'.status = thread.status
      BY <1>3 DEF ArchiveReply, TypeOK, StoreType
    <2> QED
      BY <2>1 DEF DeletedIsIdle, LatestTurnDecides
  <1> QED
    BY <1>1, <1>2, <1>3 DEF Inside

\* turn/start is the first that anybody hears of its turn.
LEMMA SendOrder ==
  ASSUME IInv, StartsComeFirst, UnsentIsUnheard, ActiveIsLatest, [Next]_vars,
         NEW c \in Callers, StartSend(c), Up(via[c]), wire' # wire
  PROVE  StartsComeFirst' /\ UnsentIsUnheard' /\ ActiveIsLatest'
  <1> DEFINE t == mine[c]
             m == [kind |-> "turn_started", turn |-> t, status |-> "inProgress"]
             last == Len(wire[conn]) + 1
  <1>1. TypeOK /\ IntentsUnique /\ via[c] = conn /\ conn \in Connections /\ t \in Turns
    BY IntentType, OwnType DEF IInv, LatestIsUp, StartSend, TypeOK, ProviderType
  <1>2. /\ remote' = [remote EXCEPT !.active = t, !.stopping = FALSE]
        /\ wire' = [wire EXCEPT ![conn] = Append(@, m)]
        /\ UNCHANGED <<journal, conn, server, mine, issued>>
        /\ pc[c] = "startSend" /\ pc' = [pc EXCEPT ![c] = "startWait"]
    BY <1>1 DEF StartSend, Rejected, store, Keep
  <1>3. /\ \A e \in Connections : e # conn => wire'[e] = wire[e]
        /\ wire'[conn] = Append(wire[conn], m)
        /\ wire[conn] \in Seq(Event)
        /\ remote'.active = t
    BY <1>1, <1>2 DEF TypeOK, ProviderType
  <1>4. /\ last \in DOMAIN wire'[conn] /\ wire'[conn][last] = m
        /\ \A n \in DOMAIN wire'[conn] :
             n = last \/ (n < last /\ n \in DOMAIN wire[conn] /\ wire'[conn][n] = wire[conn][n])
    <2> HIDE DEF m
    <2> QED
      BY <1>3
  <1>5. /\ journal.ended[t] = "none"
        /\ \A e \in Connections : \A n \in DOMAIN wire[e] : wire[e][n].turn # t
    <2>1. Unsent(t)
      BY <1>2 DEF Unsent
    <2> QED
      BY <1>1, <2>1 DEF UnsentIsUnheard
  <1>6. \A e \in Connections : \A n \in DOMAIN wire[e] : wire[e][n].turn \in Turns
    BY DEF IInv, TypeOK, ProviderType, Event
  <1>7. StartsComeFirst'
    <2> SUFFICES ASSUME NEW e \in Connections, NEW n \in DOMAIN wire'[e],
                        wire'[e][n].kind = "turn_started"
                 PROVE  /\ journal.ended[wire'[e][n].turn] = "none"
                        /\ \A f \in Connections : \A k \in DOMAIN wire'[f] :
                             f # e \/ k < n => wire'[f][k].turn # wire'[e][n].turn
      BY <1>2 DEF StartsComeFirst
    <2>1. CASE e = conn /\ n = last
      <3>1. wire'[e][n].turn = t
        BY <1>4, <2>1
      <3>2. ASSUME NEW f \in Connections, NEW k \in DOMAIN wire'[f], f # e \/ k < n
            PROVE  k \in DOMAIN wire[f] /\ wire'[f][k] = wire[f][k]
        <4>1. CASE f # conn
          BY <1>3, <4>1
        <4>2. CASE f = conn
          <5>1. k # last
            BY <1>3, <2>1, <3>2, <4>2
          <5> QED
            BY <1>4, <4>2, <5>1
        <4> QED
          BY <4>1, <4>2
      <3> QED
        BY <1>5, <3>1, <3>2
    <2>2. CASE e # conn \/ n # last
      <3>1. n \in DOMAIN wire[e] /\ wire'[e][n] = wire[e][n] /\ (e = conn => n < last)
        BY <1>3, <1>4, <2>2
      <3>2. /\ journal.ended[wire[e][n].turn] = "none"
            /\ \A f \in Connections : \A k \in DOMAIN wire[f] :
                 f # e \/ k < n => wire[f][k].turn # wire[e][n].turn
        BY <3>1 DEF StartsComeFirst
      <3>3. ASSUME NEW f \in Connections, NEW k \in DOMAIN wire'[f], f # e \/ k < n
            PROVE  wire'[f][k].turn # wire[e][n].turn
        <4>1. CASE f = conn /\ k = last
          <5>1. wire'[f][k].turn = t
            BY <1>4, <4>1
          <5> QED
            BY <1>5, <3>1, <5>1
        <4>2. CASE f # conn \/ k # last
          <5>1. k \in DOMAIN wire[f] /\ wire'[f][k] = wire[f][k]
            BY <1>3, <1>4, <4>2
          <5> QED
            BY <3>2, <3>3, <5>1
        <4> QED
          BY <4>1, <4>2
      <3> QED
        BY <3>1, <3>2, <3>3
    <2> QED
      BY <2>1, <2>2
  <1>8. UnsentIsUnheard'
    <2> SUFFICES ASSUME NEW u \in Turns, Unsent(u)'
                 PROVE  /\ journal.ended[u] = "none" /\ t # u
                        /\ \A e \in Connections : \A n \in DOMAIN wire'[e] : wire'[e][n].turn # u
      BY <1>2, <1>3 DEF UnsentIsUnheard
    <2>1. u # t
      <3>1. t <= issued /\ t \in Nat /\ issued \in Nat
        <4>1. issued \in {0} \cup Turns
          BY DEF IInv, TypeOK, CommandType
        <4>2. t <= issued
          BY <1>1 DEF IntentsUnique
        <4>3. t \in Nat /\ issued \in Nat
          <5>1. {0} \cup Turns \subseteq Nat
            BY ConstantTypes
          <5>2. t \in {0} \cup Turns
            BY <1>1
          <5> QED
            BY <4>1, <5>1, <5>2
        <4> QED
          BY <4>2, <4>3
      <3>2. ASSUME NEW d \in Callers, pc'[d] \in {"startIntent", "startSend"}
            PROVE  mine[d] # t
        <4>1. d # c
          BY <1>1, <1>2, <3>2 DEF TypeOK, PointType
        <4>2. t # NoTurn
          BY <1>1, ConstantTypes
        <4> QED
          BY <1>1, <4>1, <4>2 DEF IntentsUnique
      <3> QED
        BY <1>2, <3>1, <3>2 DEF Unsent
    <2>2. Unsent(u)
      BY <1>1, UnsentStep
    <2>3. /\ journal.ended[u] = "none"
          /\ \A e \in Connections : \A n \in DOMAIN wire[e] : wire[e][n].turn # u
      BY <2>2 DEF UnsentIsUnheard
    <2>4. ASSUME NEW e \in Connections, NEW n \in DOMAIN wire'[e]
          PROVE  wire'[e][n].turn # u
      <3>1. CASE e = conn /\ n = last
        BY <1>4, <2>1, <3>1
      <3>2. CASE e # conn \/ n # last
        BY <1>3, <1>4, <2>3, <3>2
      <3> QED
        BY <3>1, <3>2
    <2> QED
      BY <2>1, <2>3, <2>4
  <1>9. ActiveIsLatest'
    <2>1. server[conn] = "up"
      BY <1>1 DEF Up
    <2> QED
      BY <1>2, <1>3, <1>5, <2>1 DEF ActiveIsLatest, Up
  <1> QED
    BY <1>7, <1>8, <1>9

\* So is its completion the last,
LEMMA EndOrder ==
  ASSUME TypeOK, StartsComeFirst, UnsentIsUnheard, ActiveIsLatest, [Next]_vars, TurnEnds
  PROVE  StartsComeFirst' /\ UnsentIsUnheard' /\ ActiveIsLatest'
  <1> DEFINE m == [kind |-> "turn_completed", turn |-> remote.active,
                   status |-> IF remote.stopping THEN "interrupted" ELSE "completed"]
             last == Len(wire[conn]) + 1
  <1>1. /\ remote.active # NoTurn /\ remote.active \in Turns /\ conn \in Connections
        /\ UNCHANGED <<journal, conn>>
        /\ remote'.active = NoTurn
        /\ wire' = [wire EXCEPT ![conn] = Append(@, m)]
    BY DEF TurnEnds, Stopped, TypeOK, ProviderType, store
  <1>2. /\ \A e \in Connections : e # conn => wire'[e] = wire[e]
        /\ wire'[conn] = Append(wire[conn], m)
        /\ wire[conn] \in Seq(Event)
    BY <1>1 DEF TypeOK, ProviderType
  <1>3. /\ wire'[conn][last] = m
        /\ \A n \in DOMAIN wire'[conn] :
             n = last \/ (n < last /\ n \in DOMAIN wire[conn] /\ wire'[conn][n] = wire[conn][n])
    <2> HIDE DEF m
    <2> QED
      BY <1>2
  <1>4. ASSUME NEW e \in Connections, NEW n \in DOMAIN wire'[e]
        PROVE  \/ e = conn /\ n = last /\ wire'[e][n] = m
               \/ n \in DOMAIN wire[e] /\ wire'[e][n] = wire[e][n] /\ (e = conn => n < last)
    BY <1>2, <1>3
  <1> m.turn = remote.active /\ m.kind = "turn_completed"
    OBVIOUS
  <1> HIDE DEF m
  <1>5. StartsComeFirst'
    <2> SUFFICES ASSUME NEW e \in Connections, NEW n \in DOMAIN wire'[e],
                        wire'[e][n].kind = "turn_started"
                 PROVE  /\ journal.ended[wire'[e][n].turn] = "none"
                        /\ \A f \in Connections : \A k \in DOMAIN wire'[f] :
                             f # e \/ k < n => wire'[f][k].turn # wire'[e][n].turn
      BY <1>1 DEF StartsComeFirst
    <2>1. n \in DOMAIN wire[e] /\ wire'[e][n] = wire[e][n] /\ (e = conn => n < last)
      BY <1>4
    <2>2. /\ journal.ended[wire[e][n].turn] = "none"
          /\ \A f \in Connections : \A k \in DOMAIN wire[f] :
               f # e \/ k < n => wire[f][k].turn # wire[e][n].turn
      BY <2>1 DEF StartsComeFirst
    <2>3. ASSUME NEW f \in Connections, NEW k \in DOMAIN wire'[f], f # e \/ k < n
          PROVE  wire'[f][k].turn # wire[e][n].turn
      <3>1. CASE k \in DOMAIN wire[f] /\ wire'[f][k] = wire[f][k]
        BY <2>2, <2>3, <3>1
      <3>2. CASE f = conn /\ k = last /\ wire'[f][k] = m
        <4>1. e # conn
          <5> SUFFICES ASSUME e = conn PROVE FALSE
            OBVIOUS
          <5>1. n < last /\ last < n
            BY <2>1, <2>3, <3>2
          <5>2. n \in Nat /\ last \in Nat
            BY <1>2, <2>1
          <5> QED
            BY <5>1, <5>2
        <4>2. wire[e][n].turn # remote.active
          BY <1>1, <2>1, <4>1 DEF ActiveIsLatest
        <4> QED
          BY <3>2, <4>2
      <3> QED
        BY <1>4, <3>1, <3>2
    <2> QED
      BY <2>1, <2>2, <2>3
  <1>6. UnsentIsUnheard'
    <2> SUFFICES ASSUME NEW u \in Turns, Unsent(u)'
                 PROVE  /\ journal.ended[u] = "none" /\ NoTurn # u
                        /\ \A e \in Connections : \A n \in DOMAIN wire'[e] : wire'[e][n].turn # u
      BY <1>1 DEF UnsentIsUnheard
    <2>1. /\ journal.ended[u] = "none" /\ remote.active # u
          /\ \A e \in Connections : \A n \in DOMAIN wire[e] : wire[e][n].turn # u
      BY UnsentStep DEF UnsentIsUnheard
    <2> QED
      BY <1>4, <2>1, ConstantTypes
  <1>7. ActiveIsLatest'
    BY <1>1 DEF ActiveIsLatest
  <1> QED
    BY <1>5, <1>6, <1>7

\* and the journal reads them in that order.
LEMMA Tailed ==
  ASSUME NEW S, NEW s \in Seq(S), s # <<>>, NEW k \in DOMAIN Tail(s)
  PROVE  /\ k \in Nat /\ k > 0 /\ k + 1 \in DOMAIN s
         /\ Tail(s)[k] = s[k + 1]
  OBVIOUS

LEMMA PublishOrder ==
  ASSUME TypeOK, StartsComeFirst, UnsentIsUnheard, ActiveIsLatest, [Next]_vars,
         NEW e \in Connections, Publish(e)
  PROVE  StartsComeFirst' /\ UnsentIsUnheard' /\ ActiveIsLatest'
  <1> DEFINE m == Head(wire[e])
  <1>1. /\ wire[e] # <<>> /\ journal' = append_event(m)
        /\ wire' = [wire EXCEPT ![e] = Tail(@)]
        /\ UNCHANGED <<conn, server, remote, pc, mine, issued>>
    BY DEF Publish, caller
  <1>2. /\ 1 \in DOMAIN wire[e] /\ wire[e][1] = m /\ m \in Event
        /\ wire[e] \in Seq(Event)
    BY <1>1 DEF TypeOK, ProviderType
  <1>3. \A u \in Turns : u # m.turn => journal'.ended[u] = journal.ended[u]
    BY <1>1, <1>2 DEF append_event, TypeOK, StoreType, Event
  <1>4. m.turn \in Turns
    BY <1>2 DEF Event
  <1>5. m.kind # "turn_completed" => journal'.ended[m.turn] = journal.ended[m.turn]
    BY <1>1, <1>4 DEF append_event, TypeOK, StoreType
  <1> HIDE DEF m
  <1>6. ASSUME NEW f \in Connections, NEW k \in DOMAIN wire'[f]
        PROVE  \/ f # e /\ k \in DOMAIN wire[f] /\ wire'[f][k] = wire[f][k]
               \/ /\ f = e /\ k \in Nat /\ k > 0
                  /\ k + 1 \in DOMAIN wire[f] /\ wire'[f][k] = wire[f][k + 1]
    <2>1. CASE f # e
      BY <1>1, <2>1 DEF TypeOK, ProviderType
    <2>2. CASE f = e
      <3>1. wire'[e] = Tail(wire[e])
        BY <1>1 DEF TypeOK, ProviderType
      <3>2. wire[e] \in Seq(Event) /\ wire[e] # <<>> /\ k \in DOMAIN Tail(wire[e])
        BY <1>1, <1>2, <2>2, <3>1
      <3>3. /\ k \in Nat /\ k > 0 /\ k + 1 \in DOMAIN wire[e]
            /\ Tail(wire[e])[k] = wire[e][k + 1]
        BY <3>2, Tailed
      <3> QED
        BY <2>2, <3>1, <3>3
    <2> QED
      BY <2>1, <2>2
  <1>7. \A f \in Connections : \A k \in DOMAIN wire[f] : wire[f][k].turn \in Turns
    BY DEF TypeOK, ProviderType, Event
  <1>8. StartsComeFirst'
    <2> SUFFICES ASSUME NEW g \in Connections, NEW n \in DOMAIN wire'[g],
                        wire'[g][n].kind = "turn_started"
                 PROVE  /\ journal'.ended[wire'[g][n].turn] = "none"
                        /\ \A f \in Connections : \A k \in DOMAIN wire'[f] :
                             f # g \/ k < n => wire'[f][k].turn # wire'[g][n].turn
      BY DEF StartsComeFirst
    <2>1. PICK i \in DOMAIN wire[g] :
            /\ wire'[g][n] = wire[g][i]
            /\ g = e => n \in Nat /\ n > 0 /\ i = n + 1
            /\ g # e => i = n
      BY <1>6
    <2>2. /\ journal.ended[wire[g][i].turn] = "none" /\ wire[g][i].turn \in Turns
          /\ \A f \in Connections : \A k \in DOMAIN wire[f] :
               f # g \/ k < i => wire[f][k].turn # wire[g][i].turn
      BY <1>7, <2>1 DEF StartsComeFirst
    <2>3. m.turn # wire[g][i].turn
      <3>1. e # g \/ 1 < i
        BY <2>1
      <3> QED
        BY <1>2, <2>2, <3>1
    <2>4. ASSUME NEW f \in Connections, NEW k \in DOMAIN wire'[f], f # g \/ k < n
          PROVE  wire'[f][k].turn # wire[g][i].turn
      <3>1. PICK j \in DOMAIN wire[f] :
              /\ wire'[f][k] = wire[f][j]
              /\ f = e => k \in Nat /\ k > 0 /\ j = k + 1
              /\ f # e => j = k
        BY <1>6
      <3>2. f # g \/ j < i
        <4>1. CASE f = g /\ g = e
          BY <2>1, <2>4, <3>1, <4>1
        <4>2. CASE f = g /\ g # e
          BY <2>1, <2>4, <3>1, <4>2
        <4> QED
          BY <4>1, <4>2
      <3> QED
        BY <2>2, <3>1, <3>2
    <2> QED
      BY <1>3, <2>1, <2>2, <2>3, <2>4
  <1>9. UnsentIsUnheard'
    <2> SUFFICES ASSUME NEW u \in Turns, Unsent(u)'
                 PROVE  /\ journal'.ended[u] = "none" /\ remote.active # u
                        /\ \A f \in Connections : \A n \in DOMAIN wire'[f] : wire'[f][n].turn # u
      BY <1>1 DEF UnsentIsUnheard
    <2>1. /\ journal.ended[u] = "none" /\ remote.active # u
          /\ \A f \in Connections : \A n \in DOMAIN wire[f] : wire[f][n].turn # u
      BY UnsentStep DEF UnsentIsUnheard
    <2> QED
      BY <1>2, <1>3, <1>6, <2>1
  <1>10. ActiveIsLatest'
    BY <1>1, <1>6 DEF ActiveIsLatest, Up
  <1> QED
    BY <1>8, <1>9, <1>10

\* Hence a start is never late, and the row of the thread follows its latest turn.
LEMMA PublishThread ==
  ASSUME TypeOK, StartsComeFirst, DeletedIsIdle, LatestTurnDecides,
         NEW e \in Connections, Publish(e)
  PROVE  DeletedIsIdle' /\ LatestTurnDecides'
  <1> DEFINE m == Head(wire[e])
  <1>1. wire[e] # <<>> /\ journal' = append_event(m) /\ thread' = ThreadAfter(m)
    BY DEF Publish
  <1>2. 1 \in DOMAIN wire[e] /\ wire[e][1] = m /\ m \in Event
    BY <1>1 DEF TypeOK, ProviderType
  <1>3. /\ m.turn \in Turns /\ m.turn # NoTurn
        /\ \/ m.kind = "turn_started" /\ m.status = "inProgress"
           \/ m.kind = "turn_completed" /\ m.status \in Ended
    BY <1>2, ConstantTypes DEF Event
  <1>4. m.kind = "turn_started" => journal.ended[m.turn] = "none"
    BY <1>2 DEF StartsComeFirst
  <1>5. ~LateStart(m)
    BY <1>3, <1>4 DEF LateStart, Ended
  <1>6. "inProgress" \notin Ended /\ "idle" \notin Ended /\ "none" \notin Ended
    BY DEF Ended
  <1> HIDE DEF m
  <1>7. CASE ~thread.exists
    <2>1. thread' = thread /\ journal'.started = journal.started
      BY <1>1, <1>7 DEF ThreadAfter, append_event, TypeOK, StoreType
    <2> QED
      BY <1>6, <1>7, <2>1 DEF DeletedIsIdle, LatestTurnDecides
  <1>8. CASE thread.exists /\ m.kind = "turn_started"
    <2>1. /\ journal'.started = m.turn /\ journal'.ended = journal.ended
          /\ thread'.exists /\ thread'.status = "inProgress"
      BY <1>1, <1>3, <1>5, <1>8 DEF ThreadAfter, Superseded, append_event, TypeOK, StoreType
    <2> QED
      BY <1>4, <1>6, <1>8, <2>1 DEF DeletedIsIdle, LatestTurnDecides
  <1>9. CASE thread.exists /\ m.kind = "turn_completed"
    <2>1. /\ journal'.started = journal.started /\ journal'.ended[m.turn] = m.status
          /\ \A u \in Turns : u # m.turn => journal'.ended[u] = journal.ended[u]
          /\ thread'.exists
      BY <1>1, <1>3, <1>9 DEF ThreadAfter, append_event, TypeOK, StoreType
    <2>2. m.status \in Ended
      BY <1>3, <1>9
    <2>3. CASE journal.started \in {NoTurn, m.turn}
      <3>1. thread'.status = m.status
        BY <1>1, <1>5, <1>9, <2>1, <2>3 DEF ThreadAfter, Superseded, TypeOK, StoreType
      <3> QED
        BY <1>6, <2>1, <2>2, <2>3, <3>1 DEF DeletedIsIdle, LatestTurnDecides
    <2>4. CASE journal.started \notin {NoTurn, m.turn}
      <3>1. thread' = thread
        BY <1>1, <2>1, <2>4 DEF ThreadAfter, Superseded
      <3>2. journal.started \in Turns
        BY <2>4 DEF TypeOK, StoreType
      <3> QED
        BY <2>1, <2>4, <3>1, <3>2 DEF DeletedIsIdle, LatestTurnDecides
    <2> QED
      BY <2>3, <2>4
  <1> QED
    BY <1>3, <1>7, <1>8, <1>9

LEMMA OrderStep ==
  ASSUME IInv, IInv', OrderInv, [Next]_vars
  PROVE  OrderInv'
  <1> TypeOK /\ LatestIsUp /\ DeletedIsIdle /\ StartsComeFirst /\ UnsentIsUnheard
      /\ ActiveIsLatest /\ LatestTurnDecides
    BY DEF IInv, OrderInv
  <1>1. CASE \E c \in Callers : Inside(c)
    <2>0. PICK c \in Callers : Inside(c)
      BY <1>1
    <2>1. UNCHANGED journal /\ DeletedIsIdle' /\ LatestTurnDecides'
      BY <2>0, InsideThread
    <2>2. UNCHANGED <<conn, server>>
      BY <2>0, InsideStep
    <2>3. CASE UNCHANGED wire /\ remote'.active = remote.active
      <3>1. StartsComeFirst' /\ UnsentIsUnheard' /\ ActiveIsLatest'
        BY <2>1, <2>2, <2>3, CalmOrder, UnsentStep DEF ActiveIsLatest, Up
      <3> QED
        BY <2>1, <3>1 DEF OrderInv
    <2>4. CASE StartSend(c) /\ Up(via[c]) /\ wire' # wire
      BY <2>1, <2>4, SendOrder DEF OrderInv
    <2>5. CASE StartSend(c) /\ ~(Up(via[c]) /\ wire' # wire)
      <3>1. CASE Rejected(c)
        BY <2>3, <3>1 DEF Rejected
      <3>2. CASE ~Rejected(c)
        <4> DEFINE m == [kind |-> "turn_started", turn |-> mine[c], status |-> "inProgress"]
        <4>1. wire' = [wire EXCEPT ![via[c]] = Append(@, m)] /\ Up(via[c])
          BY <2>5, <3>2 DEF StartSend
        <4>2. via[c] \in Connections /\ wire[via[c]] \in Seq(Event)
          BY OwnType DEF TypeOK, ProviderType
        <4>3. wire'[via[c]] = Append(wire[via[c]], m)
          BY <4>1, <4>2 DEF TypeOK, ProviderType
        <4> HIDE DEF m
        <4>4. Len(Append(wire[via[c]], m)) = Len(wire[via[c]]) + 1 /\ Len(wire[via[c]]) \in Nat
          BY <4>2
        <4>5. wire' # wire
          BY <4>3, <4>4
        <4> QED
          BY <2>5, <4>1, <4>5
      <3> QED
        BY <3>1, <3>2
    <2> QED
      BY <2>0, <2>3, <2>4, <2>5, InsideWire
  <1>2. CASE \E e \in Connections : Publish(e)
    BY <1>2, PublishOrder, PublishThread DEF OrderInv
  <1>3. CASE TurnEnds
    <2>1. DeletedIsIdle' /\ LatestTurnDecides'
      BY <1>3 DEF TurnEnds, store, DeletedIsIdle, LatestTurnDecides
    <2> QED
      BY <1>3, <2>1, EndOrder DEF OrderInv
  <1>4. CASE \E c \in Callers : \E point \in Waiting : Call(c, point) \/ Manage(c, point)
    <2>0. PICK c \in Callers, point \in Waiting : Call(c, point) \/ Manage(c, point)
      BY <1>4
    <2>1. UNCHANGED <<thread, journal, wire, remote>> /\ Connect(c)
      BY <2>0 DEF Call, Manage, store
    <2>2. remote.active # NoTurn => conn' = conn /\ server'[conn] = "up"
      BY <2>1 DEF Connect, Alive, ActiveIsLatest, Up
    <2>3. StartsComeFirst' /\ UnsentIsUnheard' /\ ActiveIsLatest'
      BY <2>1, <2>2, CalmOrder, UnsentStep
    <2> QED
      BY <2>1, <2>3 DEF OrderInv, DeletedIsIdle, LatestTurnDecides
  <1>5. CASE (\E c \in Callers : reconnect_codex(c)) \/ UNCHANGED vars
    <2>1. UNCHANGED <<thread, journal, wire, remote, conn, server>>
      BY <1>5 DEF reconnect_codex, store, provider, vars
    <2>2. StartsComeFirst' /\ UnsentIsUnheard' /\ ActiveIsLatest'
      BY <2>1, CalmOrder, UnsentStep DEF ActiveIsLatest, Up
    <2> QED
      BY <2>1, <2>2 DEF OrderInv, DeletedIsIdle, LatestTurnDecides
  <1>6. CASE \/ \E c \in Callers : ReconnectShutdown(c)
             \/ set_codex_binary \/ ServerDies \/ ReaderStops \/ Crash
    <2>1. UNCHANGED <<thread, journal>> /\ remote'.active = NoTurn
      BY <1>6 DEF ReconnectShutdown, set_codex_binary, Shutdown, ServerDies, ReaderStops, Crash,
        Stopped, store, TypeOK, ProviderType
    <2>2. \A e \in Connections : wire'[e] \in {wire[e], <<>>}
      BY <1>6 DEF ReconnectShutdown, set_codex_binary, Shutdown, ServerDies, ReaderStops, Crash,
        TypeOK, ProviderType
    <2>3. StartsComeFirst' /\ UnsentIsUnheard' /\ ActiveIsLatest'
      BY <2>1, <2>2, CalmOrder, UnsentStep
    <2> QED
      BY <2>1, <2>3 DEF OrderInv, DeletedIsIdle, LatestTurnDecides
  <1>7. CASE delete_thread
    <2>1. /\ UNCHANGED <<wire, remote, conn, server>>
          /\ thread'.status = "idle" /\ journal'.started = NoTurn
          /\ \A t \in Turns : journal'.ended[t] = "none"
      BY <1>7 DEF delete_thread, provider
    <2>2. StartsComeFirst' /\ UnsentIsUnheard' /\ ActiveIsLatest'
      BY <2>1, CalmOrder, UnsentStep DEF ActiveIsLatest, Up
    <2> QED
      BY <2>1, <2>2 DEF OrderInv, DeletedIsIdle, LatestTurnDecides
  <1> QED
    BY <1>1, <1>2, <1>3, <1>4, <1>5, <1>6, <1>7, NextSteps DEF Outside

LEMMA OrderInit == Init => OrderInv
  <1> SUFFICES ASSUME Init PROVE OrderInv
    OBVIOUS
  <1>1. \A e \in Connections : wire[e] = <<>>
    BY DEF Init
  <1>2. /\ thread.status = "idle" /\ remote.active = NoTurn /\ journal.started = NoTurn
        /\ \A t \in Turns : journal.ended[t] = "none"
    BY DEF Init
  <1>3. \A e \in Connections : DOMAIN wire[e] = {}
    BY <1>1
  <1>4. StartsComeFirst
    BY <1>3 DEF StartsComeFirst
  <1>5. UnsentIsUnheard
    BY <1>2, <1>3, ConstantTypes DEF UnsentIsUnheard
  <1> QED
    BY <1>2, <1>4, <1>5 DEF OrderInv, DeletedIsIdle, ActiveIsLatest, LatestTurnDecides, Ended

\* The row of the thread is in progress or ended as its latest turn is, whatever is
\* read late from a connection that was replaced, or again after a deletion.
THEOREM LatestCorrect == Spec => []LatestTurnDecides
  <1>1. IInv /\ IInv' /\ OrderInv /\ [Next]_vars => OrderInv'
    BY OrderStep
  <1>2. OrderInv => LatestTurnDecides
    BY DEF OrderInv
  <1> QED
    BY <1>1, <1>2, OrderInit, Invariance, PTL DEF Spec

=============================================================================
