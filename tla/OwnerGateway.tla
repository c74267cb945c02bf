---------------------------- MODULE OwnerGateway ----------------------------
(* The Owner durable object of services/mcp-gateway/src/worker.js: the       *)
(* receipts of mutating operations, the callers that wait for an answer, and *)
(* the connection of the owner's agent.                                     *)
(*                                                                         *)
(* A handler of a durable object is not interleaved with another while it    *)
(* awaits storage, so each is one action, except /invoke: it awaits the      *)
(* agent's answer, and ends in another step.                                 *)
EXTENDS RelayLink

CONSTANT MaxJobs        \* MAX_JOBS, the receipts that are kept

VARIABLES
  job,                  \* storage "job:" + id
  waits,                \* pending: the promise of the caller of /invoke
  gwNow,                \* deadlines the gateway's clock has passed
  gwOld,                \* those it has passed by another JOB_TTL
  revoked               \* device.revoked

gatewayVars == <<job, waits, gwNow, gwOld, revoked>>

NoJob == [issue |-> 0, status |-> "none"]

Jobs == [issue : Issues, status : PublicStatuses \cup {"dispatching"}] \cup {NoJob}

GatewayType ==
  /\ job \in [Ops -> Jobs]
  /\ waits \in [Ops -> {"none", "waiting", "failed"}]
  /\ gwNow \in 0..MaxIssues /\ gwOld \in 0..MaxIssues
  /\ revoked \in BOOLEAN

GatewayInit ==
  /\ job = [o \in Ops |-> NoJob]
  /\ waits = [o \in Ops |-> "none"]
  /\ gwNow = 0 /\ gwOld = 0
  /\ revoked = FALSE

(* rejectSocketPending: every caller of the socket is told it is offline.    *)
FailPending ==
  waits' = [o \in Ops |-> IF waits[o] = "waiting" THEN "failed" ELSE waits[o]]

Kept(o) == job[o] # NoJob /\ job[o].issue > gwOld

(* A new request id: receipts past their time are dropped, the receipt is    *)
(* stored before the request is sent. A known id with the same digest        *)
(* returns its receipt and one with another is refused: no state changes.    *)
(* An offline device or a full table refuses.                                *)
Invoke(o) ==
  /\ ~revoked /\ gwOpen
  /\ job[o] = NoJob /\ waits[o] = "none"
  /\ Cardinality({p \in Ops : Kept(p)}) < MaxJobs
  /\ issued < MaxIssues
  /\ issued' = issued + 1
  /\ job' = [p \in Ops |->
               IF p = o THEN [issue |-> issued + 1, status |-> "dispatching"]
               ELSE IF Kept(p) THEN job[p] ELSE NoJob]
  /\ waits' = [waits EXCEPT ![o] = "waiting"]
  /\ SendDown([op |-> o, issue |-> issued + 1])
  /\ UNCHANGED <<gwNow, gwOld, revoked, gwOpen, agOpen, up, drops>>

(* The fifteen seconds of a caller are over.                                 *)
DeviceTimeout(o) ==
  /\ waits[o] = "waiting"
  /\ waits' = [waits EXCEPT ![o] = "failed"]
  /\ UNCHANGED <<job, gwNow, gwOld, revoked, linkVars>>

(* The catch of /invoke: a receipt that is still dispatching is uncertain.   *)
SettleFailed(o) ==
  /\ waits[o] = "failed"
  /\ waits' = [waits EXCEPT ![o] = "none"]
  /\ job' = IF job[o].status = "dispatching"
            THEN [job EXCEPT ![o].status = "indeterminate"] ELSE job
  /\ UNCHANGED <<gwNow, gwOld, revoked, linkVars>>

Final == {"completed", "failed", "denied", "expired"}

(* webSocketMessage: a response wakes its caller; an update is stored when   *)
(* it is about this dispatch and the receipt is not final.                   *)
\* Mutant: an update is stored whatever dispatch of the id it is about.
AcceptsAnyDispatch(m) == job[m.op] # NoJob /\ job[m.op].status \notin Final

Accepts(m) == job[m.op].issue = m.issue /\ job[m.op].status \notin Final

Receive ==
  /\ gwOpen /\ up # << >>
  /\ LET m == Head(up) IN
       IF m.kind = "response"
       THEN /\ waits' = IF waits[m.op] = "waiting"
                        THEN [waits EXCEPT ![m.op] = "none"] ELSE waits
            /\ UNCHANGED job
       ELSE /\ job' = IF Accepts(m)
                      THEN [job EXCEPT ![m.op].status = m.status] ELSE job
            /\ UNCHANGED waits
  /\ up' = Tail(up)
  /\ UNCHANGED <<gwNow, gwOld, revoked, gwOpen, agOpen, down, drops, issued>>

(* operation_get: a receipt that nobody decided in time is expired.          *)
PollJob(o) ==
  /\ ~revoked
  /\ job[o].status \in {"dispatching", "pending_approval"}
  /\ job[o].issue <= gwNow
  /\ job' = [job EXCEPT ![o].status = "expired"]
  /\ UNCHANGED <<waits, gwNow, gwOld, revoked, linkVars>>

(* The alarm deletes every receipt that is past its deadline by JOB_TTL.     *)
Alarm ==
  /\ \E o \in Ops : job[o] # NoJob /\ ~Kept(o)
  /\ job' = [o \in Ops |-> IF Kept(o) THEN job[o] ELSE NoJob]
  /\ UNCHANGED <<waits, gwNow, gwOld, revoked, linkVars>>

(* Time. A deadline is minutes away and a caller waits for seconds, so no    *)
(* deadline passes while the caller of its request still waits.              *)
GatewayTick ==
  /\ \/ /\ gwNow < issued
        /\ \A o \in Ops : job[o].issue = gwNow + 1 => waits[o] = "none"
        /\ gwNow' = gwNow + 1 /\ UNCHANGED gwOld
     \/ /\ gwOld < gwNow
        /\ gwOld' = gwOld + 1 /\ UNCHANGED gwNow
  /\ UNCHANGED <<job, waits, revoked, linkVars>>

(* webSocketClose, webSocketError.                                           *)
GatewayLoses ==
  /\ gwOpen
  /\ agOpen => drops < MaxDrops
  /\ drops' = IF agOpen THEN drops + 1 ELSE drops
  /\ gwOpen' = FALSE /\ up' = << >>
  /\ FailPending
  /\ UNCHANGED <<job, gwNow, gwOld, revoked, agOpen, down, issued>>

(* /revoke: the device is gone for good.                                     *)
Revoke ==
  /\ ~revoked
  /\ revoked' = TRUE
  /\ gwOpen' = FALSE /\ up' = << >>
  /\ FailPending
  /\ UNCHANGED <<job, gwNow, gwOld, agOpen, down, drops, issued>>

GatewayNext ==
  \/ \E o \in Ops : Invoke(o) \/ DeviceTimeout(o) \/ SettleFailed(o) \/ PollJob(o)
  \/ Receive \/ Alarm \/ GatewayTick \/ GatewayLoses \/ Revoke
=============================================================================
