--------------------------- MODULE RemoteOperation ---------------------------
(* An operation that is asked for in ChatGPT, approved on the Mac and run    *)
(* there: the gateway (OwnerGateway) and the agent (ApprovalAgent) over one  *)
(* connection at a time (RelayLink).                                         *)
EXTENDS OwnerGateway, ApprovalAgent

vars == <<linkVars, gatewayVars, agentVars>>

TypeOK == LinkType /\ GatewayType /\ AgentType

Init == LinkInit /\ GatewayInit /\ AgentInit

(* attach: a new connection replaces the one before it. The gateway fails    *)
(* the callers of the old socket, and the agent sends the state of every     *)
(* operation it knows.                                                      *)
\* Mutant: a new connection starts with the next change only.
ResentNothing == {}

Resent == {Update(o, store[o]) : o \in {p \in Ops : store[p] # NoRecord}}

Attach ==
  /\ phase = "up" /\ ~agOpen /\ ~revoked
  /\ agOpen' = TRUE /\ gwOpen' = TRUE
  /\ down' = << >>
  /\ up' \in Orders(Resent)
  /\ FailPending
  /\ UNCHANGED <<job, gwNow, gwOld, revoked, agentVars, drops, issued>>

Next ==
  \/ GatewayNext /\ UNCHANGED agentVars
  \/ AgentNext /\ UNCHANGED gatewayVars
  \/ Attach

(* The agent reconnects for as long as it runs, each end notices a socket    *)
(* the other has closed, and frames on an open socket are read.              *)
Fairness ==
  /\ WF_vars(Attach)
  /\ WF_vars(Receive /\ UNCHANGED agentVars)
  /\ WF_vars(~gwOpen /\ AgentLoses /\ UNCHANGED gatewayVars)
  /\ WF_vars(~agOpen /\ GatewayLoses /\ UNCHANGED agentVars)

Spec == Init /\ [][Next]_vars

FairSpec == Spec /\ Fairness

-----------------------------------------------------------------------------
(* The promise: an operation is performed at most once, after an approval,   *)
(* and its receipt never claims a completion or a refusal the agent did not  *)
(* decide.                                                                   *)
Stage(o) ==
  CASE store[o].status = "none" -> "new"
    [] store[o].status = "pending" -> "waiting"
    [] store[o].status = "running" -> IF effects[o] = 0 THEN "approved" ELSE "performed"
    [] store[o].status \in {"completed", "denied", "expired"} -> store[o].status
    [] OTHER -> "uncertain"

ReceiptOf(o) ==
  IF job[o].status \in {"completed", "denied"} THEN job[o].status ELSE "open"

Promise == INSTANCE ApprovedOperation WITH
             stage <- [o \in Ops |-> Stage(o)],
             effects <- effects,
             receipt <- [o \in Ops |-> ReceiptOf(o)]

KeepsPromise == Promise!AbstractSpec

(* An approval is for the project and the capabilities the owner was shown:  *)
(* nothing is performed by a server of a configuration other than the one    *)
(* the operation was put to, whenever the agent stopped and with which       *)
(* configuration it came back (runtime.mjs: "A pending digest is never       *)
(* allowed to acquire a different project root").                            *)
ServerScope(o) == IF orphan[o] # NoScope THEN orphan[o] ELSE scope

ScopeBound ==
  [][\A o \in Ops : effects'[o] # effects[o] => ServerScope(o) = acceptedIn[o]]_vars

(* A receipt is about its own dispatch: one that claims a result, a refusal  *)
(* or an execution was accepted by the agent under the same deadline, even   *)
(* when the gateway forgot the first dispatch of the id and made another.    *)
ReceiptOfThisRequest ==
  \A o \in Ops : job[o].status \in {"running", "completed", "denied"} =>
                   store[o].issue = job[o].issue

(* What the agent holds as pending, refused or expired was not performed.    *)
NoLatePerformance ==
  \A o \in Ops : store[o].status \in {"pending", "denied", "expired"} => effects[o] = 0

(* What the agent decided reaches the receipt, although connections break:   *)
(* unless the agent stops, the device is revoked, or the receipt is expired  *)
(* or forgotten first.                                                      *)
Decided(o) ==
  /\ store[o].status \in {"completed", "failed", "denied"}
  /\ job[o].issue = store[o].issue

ReceiptArrives ==
  \A o \in Ops :
    Decided(o) ~> \/ job[o].status \in {store[o].status, "expired"}
                  \/ job[o].issue # store[o].issue
                  \/ revoked \/ phase # "up"
=============================================================================
