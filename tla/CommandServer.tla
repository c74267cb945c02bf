---------------------------- MODULE CommandServer ----------------------------
(* Host commands of the standalone MCP server: the requests of one RPC       *)
(* session, which a client may cancel by their id, the slots for active      *)
(* commands, and the process group of each command.                         *)
EXTENDS Naturals, FiniteSets

CONSTANTS
  Requests,    \* futures of command_run requests
  Ids,         \* request ids; the client chooses them and may use one again
  MaxSlots,    \* permits of Server.command_slots (4)
  MaxPending,  \* entries of RpcSession.pending (128)
  MaxReceived  \* how many requests are received

ASSUME CommandAssumption ==
  /\ IsFiniteSet(Requests) /\ Ids # {}
  /\ MaxSlots \in Nat /\ MaxReceived \in Nat

VARIABLES
  pendingIds,   \* RpcSession.pending: id -> absent, armed, or its sender taken
  request,   \* where each request is, and its id
  slots,     \* free permits of command_slots
  group,     \* the process group of each request's command
  received   \* bound

commandVars == <<pendingIds, request, slots, group, received>>

-----------------------------------------------------------------------------
\* A command is polled for the first time (begun), runs, and its future ends.
Live == {"registered", "begun", "running", "drained", "expired"}

NoRequest(id) == [at |-> "idle", id |-> id]

\* The processes of a group: the command itself, what it started, and what holds
\* its pipes open although it left the group ("a deliberately detached process").
NoGroup == [leader |-> FALSE, others |-> FALSE, detached |-> FALSE]

Alive(r) == group[r].leader \/ group[r].others

Killed(r) == group' = [group EXCEPT ![r].leader = FALSE, ![r].others = FALSE]

CommandType ==
  /\ pendingIds \in [Ids -> {"absent", "armed", "taken"}]
  /\ request \in [Requests -> [at : Live \cup {"idle"}, id : Ids]]
  /\ slots \in 0..MaxSlots
  /\ group \in [Requests -> [leader : BOOLEAN, others : BOOLEAN, detached : BOOLEAN]]
  /\ received \in 0..MaxReceived

CommandInit ==
  /\ pendingIds = [i \in Ids |-> "absent"]
  /\ request = [r \in Requests |-> NoRequest(CHOOSE i \in Ids : TRUE)]
  /\ slots = MaxSlots
  /\ group = [r \in Requests |-> NoGroup]
  /\ received = 0

-----------------------------------------------------------------------------
\* RpcSession::handle registers before anything is polled; a duplicate id, or too
\* many, is refused and leaves no trace.
Receive(r, i) ==
  /\ request[r].at = "idle" /\ received < MaxReceived
  /\ received' = received + 1
  /\ pendingIds[i] = "absent"
  /\ Cardinality({j \in Ids : pendingIds[j] # "absent"}) < MaxPending
  /\ pendingIds' = [pendingIds EXCEPT ![i] = "armed"]
  /\ request' = [request EXCEPT ![r] = [at |-> "registered", id |-> i]]
  /\ group' = [group EXCEPT ![r] = NoGroup]
  /\ UNCHANGED slots

\* notifications/cancelled: the sender is taken and used; the id stays occupied
\* until the future of the request drops.
\* Mutant: the id is free at once.
CancelledFrees(i) == "absent"

Cancelled(i) == "taken"

Cancel(i) ==
  /\ pendingIds[i] = "armed"
  /\ pendingIds' = [pendingIds EXCEPT ![i] = Cancelled(i)]
  /\ UNCHANGED <<request, slots, group, received>>

\* The future of a request ends, or is dropped: its permit goes back, its process
\* group is killed, and its guard frees its id.
\* Mutant: only the command itself is killed, as kill_on_drop does.
KilledLeader(r) == group' = [group EXCEPT ![r].leader = FALSE]

KilledOnDrop(r) == Killed(r)

Over(r) ==
  /\ request' = [request EXCEPT ![r].at = "idle"]
  /\ pendingIds' = [pendingIds EXCEPT ![request[r].id] = "absent"]
  /\ slots' = IF request[r].at \in {"running", "drained", "expired"} THEN slots + 1 ELSE slots

\* The select looks at the cancellation first, whenever the future is polled.
CancelWins(r) ==
  /\ request[r].at \in Live \ {"begun"} /\ pendingIds[request[r].id] = "taken"
  /\ Over(r) /\ KilledOnDrop(r)
  /\ UNCHANGED received

\* The HTTP connection of the request is closed: its future is dropped.
HangUp(r) ==
  /\ request[r].at \in Live \ {"begun"}
  /\ Over(r) /\ KilledOnDrop(r)
  /\ UNCHANGED received

\* The first poll: not cancelled so far, on to Server::call.
Begun(r) ==
  /\ request[r].at = "registered" /\ pendingIds[request[r].id] = "armed"
  /\ request' = [request EXCEPT ![r].at = "begun"]
  /\ UNCHANGED <<pendingIds, slots, group, received>>

\* The call is refused - execution is not enabled, no slot is free, the arguments
\* or the directory are not acceptable - or the process cannot be started.
Refused(r) ==
  /\ request[r].at = "begun"
  /\ Over(r)
  /\ UNCHANGED <<group, received>>

Spawned(r) ==
  /\ request[r].at = "begun" /\ slots > 0
  /\ slots' = slots - 1
  /\ request' = [request EXCEPT ![r].at = "running"]
  /\ group' = [group EXCEPT ![r] = [NoGroup EXCEPT !.leader = TRUE]]
  /\ UNCHANGED <<pendingIds, received>>

\* The command starts others, some of which leave its group; processes end.
Forks(r) ==
  /\ Alive(r)
  /\ \/ group' = [group EXCEPT ![r].others = TRUE]
     \/ group' = [group EXCEPT ![r].detached = TRUE]
  /\ UNCHANGED <<pendingIds, request, slots, received>>

Exits(r) ==
  /\ group[r] # NoGroup
  /\ \/ group' = [group EXCEPT ![r].leader = FALSE]
     \/ group' = [group EXCEPT ![r].others = FALSE]
     \/ group' = [group EXCEPT ![r].detached = FALSE]
  /\ group' # group
  /\ UNCHANGED <<pendingIds, request, slots, received>>

\* The command itself has ended: what is left of its group is killed, and its
\* output is read until both pipes are closed.
Waited(r) ==
  /\ request[r].at = "running" /\ ~group[r].leader
  /\ Killed(r)
  /\ request' = [request EXCEPT ![r].at = "drained"]
  /\ UNCHANGED <<pendingIds, slots, received>>

Answered(r) ==
  /\ request[r].at = "drained" /\ ~group[r].detached
  /\ Over(r)
  /\ UNCHANGED <<group, received>>

\* Reading the output fails, or the time is up: the group is killed, and its
\* leader is waited for. The timeout covers the reading of the pipes too.
\* Mutant: it covers the command only.
UnderTimeoutLeader == {"running"}

UnderTimeout == {"running", "drained"}

Expires(r) ==
  /\ request[r].at \in UnderTimeout
  /\ Killed(r)
  /\ request' = [request EXCEPT ![r].at = "expired"]
  /\ UNCHANGED <<pendingIds, slots, received>>

AnsweredLate(r) ==
  /\ request[r].at = "expired" /\ ~group[r].leader
  /\ Over(r)
  /\ UNCHANGED <<group, received>>

CommandNext ==
  \/ \E r \in Requests :
       \/ \E i \in Ids : Receive(r, i)
       \/ CancelWins(r) \/ HangUp(r) \/ Begun(r) \/ Refused(r) \/ Spawned(r)
       \/ Forks(r) \/ Exits(r)
       \/ Waited(r) \/ Answered(r) \/ Expires(r) \/ AnsweredLate(r)
  \/ \E i \in Ids : Cancel(i)

\* tokio polls a future that can make progress, and its timers fire.
CommandFairness ==
  \A r \in Requests :
    /\ WF_commandVars(CancelWins(r)) /\ WF_commandVars(Begun(r))
    /\ WF_commandVars(Refused(r) \/ Spawned(r))
    /\ WF_commandVars(Expires(r)) /\ WF_commandVars(AnsweredLate(r))

-----------------------------------------------------------------------------
(* Properties *)

\* An id is occupied exactly while one future with that id lives, so that a cancel
\* reaches the command it names and never a later one (RpcSession::handle: "an old
\* guard cannot remove a newly reused request id").
IdsAreExact ==
  \A i \in Ids :
    Cardinality({r \in Requests : request[r].at \in Live /\ request[r].id = i})
      = IF pendingIds[i] = "absent" THEN 0 ELSE 1

\* A permit is out exactly for every command that was started and is not over.
SlotsAreExact ==
  slots + Cardinality({r \in Requests : request[r].at \in {"running", "drained", "expired"}})
    = MaxSlots

\* No process of a command's group outlives its request, however that ended.
NoStrayProcess == \A r \in Requests : Alive(r) => request[r].at = "running"

\* No request that was accepted is still to be answered or dropped.
CommandsQuiet == \A r \in Requests : request[r].at \notin Live
=============================================================================
