------------------------------ MODULE ApiAgent ------------------------------
(* The agent loop of an API model (api_worker.rs), for read-only sessions and *)
(* for the workers of a workflow, with the one-shot approvals of commands     *)
(* (CommandApprovals). A turn asks the provider with the whole transcript,    *)
(* runs the tools of the response one after the other, and asks again. A      *)
(* command outside the allowlist waits for the user, in another task.         *)
EXTENDS Naturals, Sequences, FiniteSets

CONSTANTS
  Sessions,      \* API sessions: read-only turns, which can be interrupted
  Workers,       \* API workers: they write and run commands
  Users,         \* invocations of decide_api_tool_approval
  Approvals,     \* ids of approvals
  NoApproval,
  Replies,       \* the sequences of tools that a response may call
  MaxRounds,     \* tool rounds of a turn (32 in the code)
  MaxTurns,      \* bound: turns of a thread
  MaxStops       \* bound: stops of the application

ASSUME ThreadAssumption == Sessions \cap Workers = {}
ASSUME ApprovalAssumption == NoApproval \notin Approvals
ASSUME TurnAssumption == MaxTurns \in Nat /\ MaxRounds \in Nat \ {0} /\ MaxStops \in Nat

VARIABLES
  row,        \* status of the row of the thread
  kept,       \* provider_messages of the thread
  talk,       \* the transcript of the turn that runs
  agent,      \* where the turn is
  approval,   \* tool_approvals: what was asked, and its status
  waiters,    \* CommandApprovals.waiters: the approvals with a sender
  channel,    \* the oneshot channel of an approval
  asked,      \* approvals whose request the user was shown
  user,       \* where each decision is
  changed,    \* history: the tools that changed something
  cut,        \* history: turns that an end of the application cut
  stops

agentVars == <<row, kept, talk, agent, approval, waiters, channel, asked, user, changed, cut, stops>>

-----------------------------------------------------------------------------
Threads == Sessions \cup Workers

\* The tools by what the code does with them: a look at files, an edit, a command of
\* the allowlist, one that needs an approval, and one that is never eligible.
AgentTools == {"look", "replace", "listed", "outside", "never"}
ASSUME ReplyAssumption == Replies \subseteq Seq(AgentTools)

\* A message: who speaks, in which turn, and the tools it calls or answers. A refusal
\* is a message of the assistant that ends its turn.
Messages == [role : {"user", "assistant", "refusal", "tool"}, turn : 1..MaxTurns, tools : Seq(AgentTools)]

NoTurn == [at |-> "idle", turn |-> 0, todo |-> <<>>, done |-> <<>>, rounds |-> 0,
           asks |-> NoApproval, result |-> "none"]

NoAsk == [status |-> "none", thread |-> CHOOSE t \in Threads : TRUE, turn |-> 0, tool |-> "look"]

NoDecision == [at |-> "idle", id |-> NoApproval, approve |-> FALSE]

AgentType ==
  /\ row \in [Threads -> {"idle", "dispatching", "running", "awaiting_approval", "completed",
                          "failed", "interrupted"}]
  /\ \A t \in Threads :
       /\ \A i \in 1..Len(kept[t]) : kept[t][i] \in Messages
       /\ \A i \in 1..Len(talk[t]) : talk[t][i] \in Messages
       /\ agent[t].at \in {"idle", "infer", "tools", "register", "publish", "waiting", "granted",
                           "spent", "ended"}
       /\ agent[t].turn \in 0..MaxTurns /\ agent[t].rounds \in 0..MaxRounds
       /\ agent[t].asks \in Approvals \cup {NoApproval}
       /\ agent[t].result \in {"none", "completed", "refused", "failed", "error"}
  /\ approval \in [Approvals -> [status : {"none", "pending", "approved", "denied", "consumed"},
                                 thread : Threads, turn : 0..MaxTurns, tool : AgentTools]]
  /\ waiters \subseteq Approvals
  /\ channel \in [Approvals -> {"open", "yes", "no", "closed"}]
  /\ asked \subseteq Approvals
  /\ user \in [Users -> [at : {"idle", "taken", "stored"}, id : Approvals \cup {NoApproval},
                         approve : BOOLEAN]]
  /\ stops \in 0..MaxStops

AgentInit ==
  /\ row = [t \in Threads |-> "idle"]
  /\ kept = [t \in Threads |-> <<>>]
  /\ talk = [t \in Threads |-> <<>>]
  /\ agent = [t \in Threads |-> NoTurn]
  /\ approval = [a \in Approvals |-> NoAsk]
  /\ waiters = {} /\ asked = {}
  /\ channel = [a \in Approvals |-> "open"]
  /\ user = [u \in Users |-> NoDecision]
  /\ changed = {} /\ cut = {} /\ stops = 0

Message(role, t, tools) == [role |-> role, turn |-> agent[t].turn, tools |-> tools]

-----------------------------------------------------------------------------
\* ApiSessions::start, and api_worker: the stored messages and that of the user are
\* the transcript. A worker's thread is used again for a rework of a completed step.
StartsTurn(t) ==
  /\ agent[t].at = "idle"
  /\ agent[t].turn < MaxTurns
  /\ t \in Workers => row[t] \in {"idle", "completed"}
  /\ LET turn == agent[t].turn + 1
         said == Append(kept[t], [role |-> "user", turn |-> turn, tools |-> <<>>])
     IN /\ agent' = [agent EXCEPT ![t] = [NoTurn EXCEPT !.at = "infer", !.turn = turn]]
        /\ kept' = [kept EXCEPT ![t] = said]
        /\ talk' = [talk EXCEPT ![t] = said]
  /\ row' = [row EXCEPT ![t] = IF t \in Workers THEN "dispatching" ELSE "running"]
  /\ UNCHANGED <<approval, waiters, channel, asked, user, changed, cut, stops>>

\* What a turn returns with: a transcript to store, unless run_with_history failed.
Returns(t, result, said) ==
  /\ agent' = [agent EXCEPT ![t].at = "ended", ![t].result = result]
  /\ talk' = [talk EXCEPT ![t] = IF result = "error" THEN kept[t] ELSE said]

\* The provider fails: the transcript so far is returned.
ProviderFails(t) ==
  /\ agent[t].at = "infer"
  /\ Returns(t, "failed", talk[t])
  /\ UNCHANGED <<row, kept, approval, waiters, channel, asked, user, changed, cut, stops>>

\* A refusal ends the turn, whatever else the response asks for.
Refuses(t) ==
  /\ agent[t].at = "infer"
  /\ \E calls \in Replies \cup {<<>>} :
       Returns(t, "refused", Append(talk[t], Message("refusal", t, calls)))
  /\ UNCHANGED <<row, kept, approval, waiters, channel, asked, user, changed, cut, stops>>

\* A text completes the turn; an empty one is an error.
Completes(t) ==
  /\ agent[t].at = "infer"
  /\ \E result \in {"completed", "error"} :
       Returns(t, result, Append(talk[t], Message("assistant", t, <<>>)))
  /\ UNCHANGED <<row, kept, approval, waiters, channel, asked, user, changed, cut, stops>>

CallsTools(t) ==
  /\ agent[t].at = "infer"
  /\ \E calls \in Replies :
       /\ talk' = [talk EXCEPT ![t] = Append(@, Message("assistant", t, calls))]
       /\ agent' = [agent EXCEPT ![t].at = "tools", ![t].todo = calls, ![t].done = <<>>]
  /\ UNCHANGED <<row, kept, approval, waiters, channel, asked, user, changed, cut, stops>>

-----------------------------------------------------------------------------
(* call_tool *)

\* The first tool has its result, which may be an error; the next one is looked at.
Answered(t) ==
  agent' = [agent EXCEPT ![t].at = "tools", ![t].todo = Tail(@),
                         ![t].done = Append(@, Head(agent[t].todo)), ![t].asks = NoApproval]

\* Mutant: the first error ends the round.
AnsweredShort(t) ==
  \/ agent' = [agent EXCEPT ![t].at = "tools", ![t].todo = <<>>, ![t].asks = NoApproval]
  \/ agent' = [agent EXCEPT ![t].at = "tools", ![t].todo = Tail(@),
                            ![t].done = Append(@, Head(agent[t].todo)), ![t].asks = NoApproval]

\* An error of any kind is the answer of the tool.
Errs(t) == Answered(t)

NextTool(t) == Head(agent[t].todo)

\* A tool that changes something is noted with the approval it has, and how often that
\* approval was used before.
Changes(t) ==
  LET a == agent[t].asks
  IN changed' = changed \cup {[thread |-> t, turn |-> agent[t].turn, tool |-> NextTool(t), approval |-> a,
                       again |-> \E x \in changed : x.approval = a /\ a # NoApproval]}

\* Mutant: who may write is not asked.
AllowedAll(t, tool) == tool \in {"look", "replace", "listed"}

\* allow_writes and allow_commands; validate_command.
Allowed(t, tool) == tool = "look" \/ (t \in Workers /\ tool \in {"replace", "listed"})

\* A tool that needs nobody: it does its work, or fails.
RunsTool(t) ==
  /\ agent[t].at = "tools" /\ agent[t].todo # <<>>
  /\ Allowed(t, NextTool(t))
  /\ Answered(t)
  /\ IF NextTool(t) = "look" THEN UNCHANGED changed ELSE Changes(t)
  /\ UNCHANGED <<row, kept, talk, approval, waiters, channel, asked, user, cut, stops>>

\* A tool that fails before it changes anything, or that this agent may not use.
FailsTool(t) ==
  /\ agent[t].at = "tools" /\ agent[t].todo # <<>>
  /\ Errs(t)
  /\ UNCHANGED <<row, kept, talk, approval, waiters, channel, asked, user, changed, cut, stops>>

\* authorize: the approval is stored and the thread awaits it, in one block.
Asks(t) ==
  /\ agent[t].at = "tools" /\ agent[t].todo # <<>>
  /\ t \in Workers /\ NextTool(t) = "outside"
  /\ \E a \in Approvals :
       /\ approval[a].status = "none"
       /\ approval' = [approval EXCEPT ![a] =
            [status |-> "pending", thread |-> t, turn |-> agent[t].turn, tool |-> NextTool(t)]]
       /\ agent' = [agent EXCEPT ![t].at = "register", ![t].asks = a]
  /\ row' = [row EXCEPT ![t] = "awaiting_approval"]
  /\ UNCHANGED <<kept, talk, waiters, channel, asked, user, changed, cut, stops>>

Registers(t) ==
  /\ agent[t].at = "register"
  /\ waiters' = waiters \cup {agent[t].asks}
  /\ agent' = [agent EXCEPT ![t].at = "publish"]
  /\ UNCHANGED <<row, kept, talk, approval, channel, asked, user, changed, cut, stops>>

\* decide_tool_approval: a pending approval is decided, once.
Decided(a, approve) ==
  IF approval[a].status = "pending"
  THEN [approval EXCEPT ![a].status = IF approve THEN "approved" ELSE "denied"]
  ELSE approval

\* The event is stored and shown; if it cannot be stored the approval is denied.
Publishes(t) ==
  /\ agent[t].at = "publish"
  /\ LET a == agent[t].asks
     IN \/ /\ asked' = asked \cup {a}
           /\ agent' = [agent EXCEPT ![t].at = "waiting"]
           /\ UNCHANGED <<approval, waiters>>
        \/ /\ waiters' = waiters \ {a}
           /\ approval' = Decided(a, FALSE)
           /\ Errs(t)
           /\ UNCHANGED asked
  /\ UNCHANGED <<row, kept, talk, channel, user, changed, cut, stops>>

\* The receiver hears the decision. A denial is the answer of the tool: the turn goes
\* on, and the thread still awaits the approval.
Hears(t) ==
  /\ agent[t].at = "waiting"
  /\ channel[agent[t].asks] # "open"
  /\ IF channel[agent[t].asks] = "yes"
     THEN agent' = [agent EXCEPT ![t].at = "granted"]
     ELSE Errs(t)
  /\ UNCHANGED <<row, kept, talk, approval, waiters, channel, asked, user, changed, cut, stops>>

\* consume_tool_approval: approved, and for this thread, turn and request.
Spendable(t) ==
  LET a == approval[agent[t].asks]
  IN a.status = "approved" /\ a.thread = t /\ a.turn = agent[t].turn /\ a.tool = NextTool(t)

Spends(t) ==
  /\ agent[t].at = "granted"
  /\ IF Spendable(t)
     THEN /\ approval' = [approval EXCEPT ![agent[t].asks].status = "consumed"]
          /\ agent' = [agent EXCEPT ![t].at = "spent"]
     ELSE Errs(t) /\ UNCHANGED approval
  /\ UNCHANGED <<row, kept, talk, waiters, channel, asked, user, changed, cut, stops>>

\* The thread runs again, and the command is executed in its sandbox.
Executes(t) ==
  /\ agent[t].at = "spent"
  /\ row' = [row EXCEPT ![t] = "running"]
  /\ Changes(t)
  /\ Answered(t)
  /\ UNCHANGED <<kept, talk, approval, waiters, channel, asked, user, cut, stops>>

\* Mutant: one request too many.
RequestsLeftLate(t) == agent[t].rounds < MaxRounds

\* The provider is asked at most MaxRounds times.
RequestsLeft(t) == agent[t].rounds + 1 < MaxRounds

\* All results go into one message; the provider is asked again, or the turn fails.
EndsRound(t) ==
  /\ agent[t].at = "tools" /\ agent[t].todo = <<>>
  /\ talk' = [talk EXCEPT ![t] = Append(@, Message("tool", t, agent[t].done))]
  /\ agent' = [agent EXCEPT ![t].rounds = @ + 1,
                            ![t].at = IF RequestsLeft(t) THEN "infer" ELSE "ended",
                            ![t].result = IF RequestsLeft(t) THEN "none" ELSE "failed"]
  /\ UNCHANGED <<row, kept, approval, waiters, channel, asked, user, changed, cut, stops>>

-----------------------------------------------------------------------------
(* The end of a turn: the messages are stored one by one, then the status *)

StoresMessage(t) ==
  /\ agent[t].at = "ended"
  /\ Len(kept[t]) < Len(talk[t])
  /\ kept' = [kept EXCEPT ![t] = Append(@, talk[t][Len(@) + 1])]
  /\ UNCHANGED <<row, talk, agent, approval, waiters, channel, asked, user, changed, cut, stops>>

Finishes(t) ==
  /\ agent[t].at = "ended"
  /\ Len(kept[t]) = Len(talk[t])
  /\ row' = [row EXCEPT ![t] = IF agent[t].result = "completed" THEN "completed" ELSE "failed"]
  /\ agent' = [agent EXCEPT ![t] = [NoTurn EXCEPT !.turn = agent[t].turn]]
  /\ talk' = [talk EXCEPT ![t] = <<>>]
  /\ UNCHANGED <<kept, approval, waiters, channel, asked, user, changed, cut, stops>>

\* ApiSessions::interrupt: the task is aborted where it awaits the provider.
Interrupts(t) ==
  /\ t \in Sessions
  /\ agent[t].at = "infer"
  /\ row' = [row EXCEPT ![t] = "interrupted"]
  /\ agent' = [agent EXCEPT ![t] = [NoTurn EXCEPT !.turn = agent[t].turn]]
  /\ talk' = [talk EXCEPT ![t] = <<>>]
  /\ UNCHANGED <<kept, approval, waiters, channel, asked, user, changed, cut, stops>>

-----------------------------------------------------------------------------
(* CommandApprovals::decide *)

\* The sender is taken out: another decision of the same approval finds none.
Decides(u) ==
  /\ user[u].at = "idle"
  /\ \E a \in asked \cap waiters, approve \in BOOLEAN :
       /\ waiters' = waiters \ {a}
       /\ user' = [user EXCEPT ![u] = [at |-> "taken", id |-> a, approve |-> approve]]
  /\ UNCHANGED <<row, kept, talk, agent, approval, channel, asked, changed, cut, stops>>

\* Mutant: when the store fails, the sender is not dropped.
DecisionLost(u) ==
  \/ /\ approval[user[u].id].status = "pending"
     /\ approval' = Decided(user[u].id, user[u].approve)
     /\ user' = [user EXCEPT ![u].at = "stored"]
     /\ UNCHANGED channel
  \/ /\ user' = [user EXCEPT ![u] = NoDecision]
     /\ UNCHANGED <<approval, channel>>

\* The store takes the decision of a pending approval, or fails: the sender is dropped,
\* and the turn hears that its channel is closed.
DecisionStored(u) ==
  \/ /\ approval[user[u].id].status = "pending"
     /\ approval' = Decided(user[u].id, user[u].approve)
     /\ user' = [user EXCEPT ![u].at = "stored"]
     /\ UNCHANGED channel
  \/ /\ channel' = [channel EXCEPT ![user[u].id] = "closed"]
     /\ user' = [user EXCEPT ![u] = NoDecision]
     /\ UNCHANGED approval

StoresDecision(u) ==
  /\ user[u].at = "taken"
  /\ DecisionStored(u)
  /\ UNCHANGED <<row, kept, talk, agent, waiters, asked, changed, cut, stops>>

SendsDecision(u) ==
  /\ user[u].at = "stored"
  /\ channel' = [channel EXCEPT ![user[u].id] = IF user[u].approve THEN "yes" ELSE "no"]
  /\ user' = [user EXCEPT ![u] = NoDecision]
  /\ UNCHANGED <<row, kept, talk, agent, approval, waiters, asked, changed, cut, stops>>

-----------------------------------------------------------------------------
\* The application stops, and starts again: turns and waiters are gone, rows stay.
Stop ==
  /\ stops < MaxStops
  /\ stops' = stops + 1
  /\ cut' = cut \cup {<<t, agent[t].turn>> : t \in {x \in Threads : agent[x].at # "idle"}}
  /\ agent' = [t \in Threads |-> [NoTurn EXCEPT !.turn = agent[t].turn]]
  /\ talk' = [t \in Threads |-> <<>>]
  /\ waiters' = {}
  /\ channel' = [a \in Approvals |-> "open"]
  /\ user' = [u \in Users |-> NoDecision]
  /\ UNCHANGED <<row, kept, approval, asked, changed>>

AgentNext ==
  \/ \E t \in Threads :
       \/ StartsTurn(t) \/ ProviderFails(t) \/ Refuses(t) \/ Completes(t) \/ CallsTools(t)
       \/ RunsTool(t) \/ FailsTool(t) \/ Asks(t) \/ Registers(t) \/ Publishes(t) \/ Hears(t)
       \/ Spends(t) \/ Executes(t) \/ EndsRound(t) \/ StoresMessage(t) \/ Finishes(t) \/ Interrupts(t)
  \/ \E u \in Users : Decides(u) \/ StoresDecision(u) \/ SendsDecision(u)
  \/ Stop

-----------------------------------------------------------------------------
(* Properties *)

\* One-shot approvals: what an agent changed it was allowed to change. A session changes
\* nothing; a command outside the allowlist ran once for each approval, one that the user
\* was shown and granted for this thread, turn and command; the rest never ran.
ChangesAreAllowed ==
  /\ \A x \in changed :
       /\ x.thread \in Workers
       /\ x.tool # "never"
       /\ x.tool = "outside" =>
            /\ x.approval \in asked
            /\ approval[x.approval] = [status |-> "consumed", thread |-> x.thread,
                                       turn |-> x.turn, tool |-> x.tool]
  /\ \A x \in changed : ~x.again

\* Every call of a tool is answered, in order, by the message that follows it, whenever
\* the provider is asked: a tool that fails, is unknown or is denied answers with its
\* error. What a refusal asked for is never answered, and neither is what a stop of the
\* application cut off while the messages were stored.
CallsAreAnswered ==
  \A t \in Threads : agent[t].at = "infer" =>
    \A i \in 1..Len(talk[t]) :
      talk[t][i].role = "assistant" /\ talk[t][i].tools # <<>> /\ <<t, talk[t][i].turn>> \notin cut =>
        /\ i < Len(talk[t])
        /\ talk[t][i + 1].role = "tool"
        /\ talk[t][i + 1].tools = talk[t][i].tools

\* A turn that waits can still hear a decision, or has been sent one.
WaitersAreHeard ==
  \A t \in Threads : agent[t].at = "waiting" =>
    \/ agent[t].asks \in waiters
    \/ channel[agent[t].asks] # "open"
    \/ \E u \in Users : user[u].at # "idle" /\ user[u].id = agent[t].asks
=============================================================================
