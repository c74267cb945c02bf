---------------------------- MODULE ApprovalAgent ----------------------------
(* The agent on the Mac: plugins/localoud-mcp/agent/runtime.mjs (startAgent) *)
(* and approval.mjs (ApprovalGate). One agent runs per state directory       *)
(* (agent.lock). The gate reads and replaces approvals.json under a lock, so *)
(* an operation on it is one action; it runs an approved request outside the *)
(* lock and comes back with the result.                                      *)
EXTENDS RelayLink

CONSTANTS
  Scopes,               \* project configurations: roots and capabilities
  Granting,             \* those that enable the tool that is asked for
  NoScope,              \* no scope.json yet
  MaxHistory,           \* MAX_JOBS, the operations the gate retains
  MaxStops              \* bound: how often the agent stops or dies

ASSUME ScopeAssumption ==
  Granting \subseteq Scopes /\ NoScope \notin Scopes /\ MaxStops \in Nat

VARIABLES
  phase,                \* of the agent: "down", "starting", "up", "closing"
  scope,                \* targets: the configuration of this run
  saved,                \* scope.json
  store,                \* approvals.json
  acceptedIn,           \* history: the configuration an operation was put to
  exec,                 \* execution of an approved request
  late,                 \* requests the agent gave up that its Rust server still has
  orphan,               \* requests a Rust server still has whose agent died, and
                        \* the configuration of that server
  effects,              \* history: how often a request was performed
  agNow,                \* deadlines the agent's clock has passed
  behind,               \* the agent's clock is behind the gateway's
  stops                 \* bounded by MaxStops

serverVars == <<late, orphan>>

agentVars == <<phase, scope, saved, store, acceptedIn, exec, serverVars, effects,
               agNow, behind, stops>>

NoRecord == [issue |-> 0, status |-> "none"]

Records == [issue : Issues, status : AgentStatuses] \cup {NoRecord}

AgentType ==
  /\ phase \in {"down", "starting", "up", "closing"}
  /\ scope \in Scopes \cup {NoScope} /\ saved \in Scopes \cup {NoScope}
  /\ store \in [Ops -> Records]
  /\ acceptedIn \in [Ops -> Scopes \cup {NoScope}]
  /\ exec \in [Ops -> {"idle", "started", "sent", "done", "broken"}]
  /\ late \subseteq Ops
  /\ orphan \in [Ops -> Scopes \cup {NoScope}]
  /\ effects \in [Ops -> 0..1]
  /\ agNow \in 0..MaxIssues
  /\ behind \in BOOLEAN
  /\ stops \in 0..MaxStops

AgentInit ==
  /\ phase = "down"
  /\ scope = NoScope /\ saved = NoScope
  /\ store = [o \in Ops |-> NoRecord]
  /\ acceptedIn = [o \in Ops |-> NoScope]
  /\ exec = [o \in Ops |-> "idle"]
  /\ late = {} /\ orphan = [o \in Ops |-> NoScope]
  /\ effects = [o \in Ops |-> 0]
  /\ agNow = 0
  /\ behind \in BOOLEAN
  /\ stops = 0

-----------------------------------------------------------------------------
\* Mutant: the status of the store is sent as it is.
PublicStatusRaw(status) == status

PublicStatus(status) ==
  IF status = "pending" THEN "pending_approval" ELSE status

Update(o, record) ==
  [kind |-> "update", op |-> o, issue |-> record.issue,
   status |-> PublicStatus(record.status)]

Response(o) == [kind |-> "response", op |-> o]

Pending(o) == store[o].status = "pending"

Late(record) == record.issue <= agNow

(* expirePending: every pending operation whose deadline has passed.         *)
Overdue == {o \in Ops : Pending(o) /\ Late(store[o])}

Expired(record) == [record EXCEPT !.status = "expired"]

Swept == [o \in Ops |-> IF o \in Overdue THEN Expired(store[o]) ELSE store[o]]

(* The updates of the operations a sweep changed, in the store's order.      *)
SweepUpdates == Orders({Update(o, Swept[o]) : o \in Overdue})

-----------------------------------------------------------------------------
(* startAgent. The gate of the startup reads the store: what was running is  *)
(* indeterminate.                                                           *)

Recovered(record) ==
  IF record.status = "running" THEN [record EXCEPT !.status = "indeterminate"]
  ELSE record

Start(s) ==
  /\ phase = "down"
  /\ phase' = "starting"
  /\ scope' = s
  /\ store' = [o \in Ops |-> Recovered(store[o])]
  /\ UNCHANGED <<saved, acceptedIn, exec, serverVars, effects, agNow, behind,
                 stops, linkVars>>

(* One operation of the previous configuration is refused.                   *)
DenyOnStart(o) ==
  /\ phase = "starting" /\ saved # scope
  /\ Pending(o)
  /\ store' = [store EXCEPT ![o].status = IF Late(store[o]) THEN "expired" ELSE "denied"]
  /\ UNCHANGED <<phase, scope, saved, acceptedIn, exec, serverVars, effects,
                 agNow, behind, stops, linkVars>>

(* The configuration is published once nothing of another one is pending.    *)
\* Mutant: the configuration is published before the refusals.
MayPublishAtOnce == TRUE

MayPublish == saved = scope \/ ~ \E o \in Ops : Pending(o)

Publish ==
  /\ phase = "starting" /\ MayPublish
  /\ saved' = scope
  /\ phase' = "up"
  /\ UNCHANGED <<scope, store, acceptedIn, exec, serverVars, effects, agNow,
                 behind, stops, linkVars>>

-----------------------------------------------------------------------------
(* handle: a request from the gateway. The capability is looked up, and the  *)
(* request is put to the gate.                                               *)
Refused(m) ==
  SendUp(<<[kind |-> "update", op |-> m.op, issue |-> m.issue, status |-> "failed"],
           Response(m.op)>>)

CanSubmit(m) ==
  /\ m.issue > agNow /\ ~behind
  /\ Cardinality({o \in Ops : store[o] # NoRecord}) < MaxHistory

Accepted(m) == [issue |-> m.issue, status |-> "pending"]

(* submit: a new operation is stored, a known one with the same digest is    *)
(* answered from the store, anything else is rejected without a write.       *)
Submit(m) ==
  \/ /\ store[m.op] = NoRecord /\ CanSubmit(m)
     /\ store' = [Swept EXCEPT ![m.op] = Accepted(m)]
     /\ acceptedIn' = [acceptedIn EXCEPT ![m.op] = scope]
     /\ \E s \in SweepUpdates :
          SendUp(s \o <<Update(m.op, Accepted(m)), Response(m.op)>>)
  \/ /\ store[m.op].issue = m.issue
     /\ store' = Swept
     /\ \E s \in SweepUpdates : SendUp(s \o <<Response(m.op)>>)
     /\ UNCHANGED acceptedIn
  \/ /\ \/ store[m.op] = NoRecord /\ ~CanSubmit(m)
        \/ store[m.op].issue \notin {0, m.issue}
     /\ SendUp(<<Response(m.op)>>)
     /\ UNCHANGED <<store, acceptedIn>>

HandleRequest ==
  /\ phase = "up" /\ down # << >>
  /\ down' = Tail(down)
  /\ LET m == Head(down) IN
       \/ /\ scope \notin Granting
          /\ Refused(m)
          /\ UNCHANGED <<store, acceptedIn>>
       \/ scope \in Granting /\ Submit(m)
  /\ UNCHANGED <<phase, scope, saved, exec, serverVars, effects, agNow, behind,
                 stops, gwOpen, agOpen, drops, issued>>

(* get and list, which the approval window calls.                            *)
List ==
  /\ phase = "up" /\ Overdue # {}
  /\ store' = Swept
  /\ \E s \in SweepUpdates : SendUp(s)
  /\ UNCHANGED <<phase, scope, saved, acceptedIn, exec, serverVars, effects,
                 agNow, behind, stops, gwOpen, agOpen, down, drops, issued>>

-----------------------------------------------------------------------------
(* approve: only what is pending and in time starts to run.                  *)
CanApprove(o) == Pending(o)

Approve(o) ==
  /\ phase = "up" /\ CanApprove(o)
  /\ store' = [store EXCEPT ![o].status = IF Late(store[o]) THEN "expired" ELSE "running"]
  /\ exec' = IF Late(store[o]) THEN exec ELSE [exec EXCEPT ![o] = "started"]
  /\ SendUp(<<Update(o, store'[o])>>)
  /\ UNCHANGED <<phase, scope, saved, acceptedIn, serverVars, effects, agNow,
                 behind, stops, gwOpen, agOpen, down, drops, issued>>

Deny(o) ==
  /\ phase = "up" /\ Pending(o)
  /\ store' = [store EXCEPT ![o].status = IF Late(store[o]) THEN "expired" ELSE "denied"]
  /\ SendUp(<<Update(o, store'[o])>>)
  /\ UNCHANGED <<phase, scope, saved, acceptedIn, exec, serverVars, effects,
                 agNow, behind, stops, gwOpen, agOpen, down, drops, issued>>

(* execute: online, and the project is still where it was; then the request  *)
(* is in the hands of the Rust server.                                       *)
Execute(o) ==
  /\ exec[o] = "started"
  /\ \E ok \in {agOpen, FALSE} : exec' = [exec EXCEPT ![o] = IF ok THEN "sent" ELSE "broken"]
  /\ UNCHANGED <<phase, scope, saved, store, acceptedIn, serverVars, effects,
                 agNow, behind, stops, linkVars>>

PerformRequest(o) ==
  /\ exec[o] = "sent"
  /\ effects' = [effects EXCEPT ![o] = @ + 1]
  /\ exec' = [exec EXCEPT ![o] = "done"]
  /\ UNCHANGED <<phase, scope, saved, store, acceptedIn, serverVars, agNow,
                 behind, stops, linkVars>>

(* The result is lost: a timeout, a result that is too large, a server that  *)
(* dies. After a timeout the server is told to cancel the request, and may   *)
(* come to it before it reads that.                                          *)
Break(o) ==
  /\ exec[o] \in {"sent", "done"}
  /\ exec' = [exec EXCEPT ![o] = "broken"]
  /\ \/ UNCHANGED late
     \/ exec[o] = "sent" /\ late' = late \cup {o}
  /\ UNCHANGED <<phase, scope, saved, store, acceptedIn, orphan, effects, agNow, behind,
                 stops, linkVars>>

(* The server performs what it has in its input although nobody waits for    *)
(* it: the agent gave it up, or died.                                        *)
PerformLate(o) ==
  /\ o \in late \/ orphan[o] # NoScope
  /\ effects' = [effects EXCEPT ![o] = @ + 1]
  /\ late' = late \ {o}
  /\ orphan' = [orphan EXCEPT ![o] = NoScope]
  /\ UNCHANGED <<phase, scope, saved, store, acceptedIn, exec, agNow, behind, stops,
                 linkVars>>

(* The result is stored if the operation is still running. An execution that *)
(* outlives its agent finds it indeterminate and leaves it.                  *)
Outcome(o) == IF exec[o] = "done" THEN "completed" ELSE "failed"

\* Mutant: the result is stored whatever has become of the operation.
StillRunsAlways(o) == TRUE

StillRuns(o) == store[o].status = "running"

Persist(o) ==
  /\ exec[o] \in {"done", "broken"}
  /\ exec' = [exec EXCEPT ![o] = "idle"]
  /\ IF StillRuns(o)
     THEN /\ store' = [store EXCEPT ![o].status = Outcome(o)]
          /\ SendUp(<<Update(o, store'[o])>>)
     ELSE UNCHANGED <<store, up>>
  /\ UNCHANGED <<phase, scope, saved, acceptedIn, serverVars, effects, agNow,
                 behind, stops, gwOpen, agOpen, down, drops, issued>>

(* The write of the result fails: the operation stays running in the store.  *)
PersistFails(o) ==
  /\ exec[o] \in {"done", "broken"} /\ StillRuns(o)
  /\ exec' = [exec EXCEPT ![o] = "idle"]
  /\ UNCHANGED <<phase, scope, saved, store, acceptedIn, serverVars, effects,
                 agNow, behind, stops, linkVars>>

-----------------------------------------------------------------------------
(* close: the socket and the window first, then the Rust server, which ends  *)
(* whatever it still has, then the lock.                                     *)
Close ==
  /\ phase = "up" /\ stops < MaxStops
  /\ phase' = "closing" /\ stops' = stops + 1
  /\ agOpen' = FALSE /\ down' = << >>
  /\ UNCHANGED <<scope, saved, store, acceptedIn, exec, serverVars, effects,
                 agNow, behind, gwOpen, up, drops, issued>>

Unlock ==
  /\ phase = "closing"
  /\ phase' = "down"
  /\ exec' = [o \in Ops |-> IF exec[o] \in {"started", "sent"} THEN "broken" ELSE exec[o]]
  /\ late' = {}
  /\ UNCHANGED <<scope, saved, store, acceptedIn, orphan, effects, agNow, behind, stops,
                 linkVars>>

(* The process dies, or a start fails half way. The server of an agent that  *)
(* died reads its input to the end.                                          *)
Crash ==
  /\ phase # "down" /\ stops < MaxStops
  /\ phase' = "down" /\ stops' = stops + 1
  /\ exec' = [o \in Ops |-> "idle"]
  /\ late' = {}
  /\ orphan' = [o \in Ops |-> IF o \in late \/ exec[o] = "sent" THEN scope ELSE orphan[o]]
  /\ agOpen' = FALSE /\ down' = << >>
  /\ UNCHANGED <<scope, saved, store, acceptedIn, effects, agNow, behind, gwOpen,
                 up, drops, issued>>

(* The socket closes at the agent.                                           *)
AgentLoses ==
  /\ agOpen
  /\ gwOpen => drops < MaxDrops
  /\ drops' = IF gwOpen THEN drops + 1 ELSE drops
  /\ agOpen' = FALSE /\ down' = << >>
  /\ UNCHANGED <<agentVars, gwOpen, up, issued>>

AgentTick ==
  /\ agNow < issued
  /\ agNow' = agNow + 1
  /\ UNCHANGED <<phase, scope, saved, store, acceptedIn, exec, serverVars,
                 effects, behind, stops, linkVars>>

AgentNext ==
  \/ \E s \in Scopes : Start(s)
  \/ \E o \in Ops : DenyOnStart(o) \/ Approve(o) \/ Deny(o) \/ Execute(o)
       \/ PerformRequest(o) \/ PerformLate(o) \/ Break(o) \/ Persist(o) \/ PersistFails(o)
  \/ Publish \/ HandleRequest \/ List \/ Close \/ Unlock \/ Crash
  \/ AgentLoses \/ AgentTick
=============================================================================
