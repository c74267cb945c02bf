------------------------ MODULE ApprovedOperation ------------------------
(* What the remote tools promise of a mutating operation (file_create,       *)
(* file_edit, command_run), whatever the network, the gateway and the agent  *)
(* do: it waits for the owner's decision, it is performed at most once and   *)
(* only after an approval, and the receipt the requester reads never claims  *)
(* a result or a refusal the agent did not decide                           *)
(* (services/mcp-gateway/README.md, "Operations and approval").              *)
EXTENDS Naturals

CONSTANT Ops            \* operation ids

VARIABLES
  stage,                \* what has been decided about the operation
  effects,              \* how often it was performed
  receipt               \* what the requester reads

abstractVars == <<stage, effects, receipt>>

Stages == {"new", "waiting", "approved", "performed",
           "completed", "denied", "expired", "uncertain"}

Receipts == {"completed", "denied", "open"}

AbstractType ==
  /\ stage \in [Ops -> Stages]
  /\ effects \in [Ops -> 0..1]
  /\ receipt \in [Ops -> Receipts]

AbstractInit ==
  /\ stage = [o \in Ops |-> "new"]
  /\ effects = [o \in Ops |-> 0]
  /\ receipt = [o \in Ops |-> "open"]

(* The decisions open to an operation. An operation that was performed may   *)
(* end as completed or as something uncertain, one that was not may never    *)
(* be called completed, and one that was is never called denied or expired.  *)
Decisions ==
  {<<"new", "waiting">>, <<"waiting", "approved">>, <<"waiting", "denied">>,
   <<"waiting", "expired">>, <<"approved", "uncertain">>,
   <<"performed", "completed">>, <<"performed", "uncertain">>}

Decide(o) ==
  /\ <<stage[o], stage'[o]>> \in Decisions
  /\ effects'[o] = effects[o]

(* What was approved is performed, once; what is uncertain may be still.     *)
Perform(o) ==
  /\ effects[o] = 0 /\ effects'[o] = 1
  /\ \/ stage[o] = "approved" /\ stage'[o] = "performed"
     \/ stage[o] = "uncertain" /\ stage'[o] = "uncertain"

Rest(o) == stage'[o] = stage[o] /\ effects'[o] = effects[o]

(* A receipt follows the decision, or stays open; it may be forgotten.       *)
Report(o) ==
  \/ receipt'[o] = receipt[o]
  \/ receipt'[o] = "open"
  \/ receipt'[o] = stage[o] /\ stage[o] \in {"completed", "denied"}

AbstractNext ==
  \A o \in Ops : (Decide(o) \/ Perform(o) \/ Rest(o)) /\ Report(o)

AbstractSpec == AbstractInit /\ [][AbstractNext]_abstractVars
=============================================================================
