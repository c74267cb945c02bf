----------------------------- MODULE RelayLink -----------------------------
(* The reverse WebSocket between the gateway's Owner object and the agent on *)
(* the Mac: services/mcp-gateway/src/worker.js and                           *)
(* plugins/localoud-mcp/agent/runtime.mjs.                                   *)
(*                                                                         *)
(* Each end has its own belief that the socket is open. A frame arrives in   *)
(* order or, when the connection breaks, not at all: frames to an end that   *)
(* is closed are lost, and so is what was in flight when its reader closes.  *)
EXTENDS Naturals, Sequences, FiniteSets

CONSTANTS
  Ops,                  \* request ids of mutating operations
  MaxIssues,            \* bound: how often an operation is dispatched in all
  MaxDrops              \* bound: how often the connection breaks

ASSUME LinkAssumption ==
  IsFiniteSet(Ops) /\ MaxIssues \in Nat /\ MaxDrops \in Nat

VARIABLES
  gwOpen, agOpen,       \* readyState = 1 at the gateway and at the agent
  down,                 \* requests on their way to the agent
  up,                   \* responses and updates on their way to the gateway
  drops,                \* bounded by MaxDrops
  issued                \* dispatches so far

linkVars == <<gwOpen, agOpen, down, up, drops, issued>>

(* Every dispatch has a deadline of its own, later than those before it, so  *)
(* its number stands for expires_at: a clock that reads n has passed the     *)
(* deadlines 1..n. The digest of a request covers expires_at: two dispatches *)
(* of one request id are two different requests.                            *)
Issues == 1..MaxIssues

Requests == [op : Ops, issue : Issues]

AgentStatuses == {"pending", "running", "completed", "failed", "denied",
                  "expired", "indeterminate"}

PublicStatuses == {"pending_approval", "running", "completed", "failed",
                   "denied", "expired", "indeterminate"}

Frames ==
  [kind : {"update"}, op : Ops, issue : Issues, status : PublicStatuses]
    \cup [kind : {"response"}, op : Ops]

LinkType ==
  /\ gwOpen \in BOOLEAN /\ agOpen \in BOOLEAN
  /\ down \in Seq(Requests)
  /\ up \in Seq(Frames)
  /\ drops \in 0..MaxDrops
  /\ issued \in 0..MaxIssues

LinkInit ==
  /\ gwOpen = FALSE /\ agOpen = FALSE
  /\ down = << >> /\ up = << >>
  /\ drops = 0
  /\ issued = 0

(* socket.send at each end; the agent's send does nothing while offline.     *)
SendDown(request) == down' = IF agOpen THEN Append(down, request) ELSE down

SendUp(frames) == up' = IF agOpen /\ gwOpen THEN up \o frames ELSE up

(* The values of a finite set, in some order.                                *)
Orders(S) == {s \in [1..Cardinality(S) -> S] :
                \A i, j \in DOMAIN s : s[i] = s[j] => i = j}
=============================================================================
