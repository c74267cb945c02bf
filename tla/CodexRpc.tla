------------------------------ MODULE CodexRpc ------------------------------
(* The JSON-RPC connection to a Codex app-server process: the table of       *)
(* pending requests, the task that reads the server's lines, the mutex of    *)
(* its input, questions to the user, tool calls of workers, and a planning   *)
(* turn that listens to the broadcast of events.                            *)
EXTENDS Naturals, Sequences, FiniteSets

CONSTANTS
  Calls,      \* requests of the hub, one of which starts the planning turn
  Planning,   \* that request
  Answers,    \* invocations of answer_question
  MaxLines,   \* lines of the server that are not read yet
  MaxEvents   \* capacity of the broadcast channel (4096)

ASSUME CodexAssumption ==
  /\ Planning \in Calls
  /\ MaxLines \in Nat /\ MaxEvents \in Nat \ {0}

VARIABLES
  process,    \* the app-server runs
  reader,     \* the reader task: reading, rejecting a server request, or stopped
  alive,      \* CodexProvider.alive
  stdin,      \* who holds the mutex of the server's input
  pending,    \* CodexProvider.pending
  call,       \* where each request is, and its outcome
  lines,      \* the server's output that has not been read
  server,     \* what the server has received and said: requests, turn, question, tool
  question,   \* CodexProvider.questions has the question
  answer,     \* where each answer_question is
  toolCall,   \* the task of the tool call
  planner,    \* structured_read_only_with_reasoning
  events      \* what the planner's receiver has not received

codexVars == <<process, reader, alive, stdin, pending, call, lines, server,
               question, answer, toolCall, planner, events>>

-----------------------------------------------------------------------------
Nobody == "nobody"

\* Who writes to the server: requests, answers, the reader, the task of a tool call.
Writers == Calls \cup Answers \cup {"reader", "tool"}

\* Lines of the server: replies, requests of its own, and notifications, of which
\* the last message and the end of the planning turn matter.
Reply(c) == [kind |-> "reply", of |-> c]
Line(k) == [kind |-> k, of |-> Nobody]

Asks == {"question", "tool", "approval"}
Notes == {"message", "completed"}
LinesType == {Reply(c) : c \in Calls} \cup {Line(k) : k \in Asks \cup Notes}

Waiting == {"checked", "registered", "writing", "waiting"}

CodexType ==
  /\ process \in BOOLEAN /\ alive \in BOOLEAN
  /\ reader \in {"reading", "rejecting", "writing", "ending", "stopped"}
  /\ stdin \in Writers \cup {Nobody}
  /\ pending \subseteq Calls
  /\ call \in [Calls -> Waiting \cup {"idle", "answered", "failed"}]
  /\ lines \in Seq(LinesType) /\ Len(lines) <= MaxLines
  /\ server \in [got : SUBSET Calls, replied : SUBSET Calls, asked : SUBSET Asks,
                 turn : {"none", "running", "said", "ended"},
                 answers : Nat, stalled : BOOLEAN]
  /\ question \in {"none", "pending"}
  /\ answer \in [Answers -> {"idle", "locked", "writing", "done"}]
  /\ toolCall \in {"none", "running", "ready", "writing", "over"}
  /\ planner \in [at : {"idle", "subscribed", "listening", "returned", "failed"},
                  output : BOOLEAN, lagged : BOOLEAN]
  /\ events \in Seq(Notes) /\ Len(events) <= MaxEvents

CodexInit ==
  /\ process = TRUE /\ alive = TRUE /\ reader = "reading"
  /\ stdin = Nobody /\ pending = {} /\ call = [c \in Calls |-> "idle"]
  /\ lines = << >>
  /\ server = [got |-> {}, replied |-> {}, asked |-> {}, turn |-> "none",
               answers |-> 0, stalled |-> FALSE]
  /\ question = "none" /\ answer = [a \in Answers |-> "idle"] /\ toolCall = "none"
  /\ planner = [at |-> "idle", output |-> FALSE, lagged |-> FALSE]
  /\ events = << >>

-----------------------------------------------------------------------------
(* request. The table, the input and the reader are behind mutexes of their  *)
(* own, so the reader may stop between any two of these steps.               *)
linkVars == <<process, reader, alive>>
inputVars == <<stdin, server>>
askVars == <<question, answer, toolCall>>
planVars == <<planner, events>>

\* The planning request is sent by the planner only.
Ask(c) ==
  /\ call[c] = "idle"
  /\ c = Planning => planner.at = "subscribed"
  /\ call' = [call EXCEPT ![c] = IF alive THEN "checked" ELSE "failed"]
  /\ UNCHANGED <<linkVars, inputVars, askVars, planVars, pending, lines>>

Register(c) ==
  /\ call[c] = "checked"
  /\ pending' = pending \cup {c}
  /\ call' = [call EXCEPT ![c] = "registered"]
  /\ UNCHANGED <<linkVars, inputVars, askVars, planVars, lines>>

Write(c) ==
  /\ call[c] = "registered" /\ stdin = Nobody
  /\ stdin' = c
  /\ call' = [call EXCEPT ![c] = "writing"]
  /\ UNCHANGED <<linkVars, server, askVars, planVars, pending, lines>>

\* A write completes when the server reads its input, and fails when there is no
\* process any more. It has no timeout: while a process lives that reads no more and
\* the pipe is full, whoever writes keeps the input.
Flows == ~server.stalled

\* What the write comes to: an error takes the entry back. When the reader has
\* drained the table meanwhile, its error is waiting for the request already.
Written(c) ==
  /\ call[c] = "writing" /\ Flows
  /\ stdin' = Nobody
  /\ IF process
     THEN /\ server' = [server EXCEPT !.got = @ \cup {c},
                          !.turn = IF c = Planning THEN "running" ELSE @]
          /\ call' = [call EXCEPT ![c] = IF c \in pending THEN "waiting" ELSE "failed"]
          /\ UNCHANGED pending
     ELSE /\ call' = [call EXCEPT ![c] = "failed"]
          /\ pending' = pending \ {c}
          /\ UNCHANGED server
  /\ UNCHANGED <<linkVars, askVars, planVars, lines>>

\* Mutant: only a request whose process is gone gives up.
GivesUpDead(c) == call[c] = "waiting" /\ ~process

GivesUp(c) == call[c] = "waiting"

TimesOut(c) ==
  /\ GivesUp(c)
  /\ call' = [call EXCEPT ![c] = "failed"]
  /\ pending' = pending \ {c}
  /\ UNCHANGED <<linkVars, inputVars, askVars, planVars, lines>>

-----------------------------------------------------------------------------
(* The app-server: it reads its input, replies, asks and notifies in any     *)
(* order, and may cease to do any of these, or die.                          *)
Says(line) == Len(lines) < MaxLines /\ process /\ lines' = Append(lines, line)

ServerReplies(c) ==
  /\ c \in server.got \ server.replied
  /\ Says(Reply(c))
  /\ server' = [server EXCEPT !.replied = @ \cup {c}]
  /\ UNCHANGED <<linkVars, stdin, askVars, planVars, pending, call>>

ServerAsks(k) ==
  /\ server.turn \in {"running", "said"} /\ k \notin server.asked
  /\ Says(Line(k))
  /\ server' = [server EXCEPT !.asked = @ \cup {k}]
  /\ UNCHANGED <<linkVars, stdin, askVars, planVars, pending, call>>

\* The turn says its last message, and then it ends.
ServerNotifies ==
  /\ \/ /\ server.turn = "running" /\ Says(Line("message"))
        /\ server' = [server EXCEPT !.turn = "said"]
     \/ /\ server.turn = "said" /\ Says(Line("completed"))
        /\ server' = [server EXCEPT !.turn = "ended"]
  /\ UNCHANGED <<linkVars, stdin, askVars, planVars, pending, call>>

\* It lives and reads its input no more (a while without reading is a write that
\* takes longer).
ServerStalls ==
  /\ process /\ ~server.stalled
  /\ server' = [server EXCEPT !.stalled = TRUE]
  /\ UNCHANGED <<linkVars, stdin, askVars, planVars, pending, call, lines>>

ServerDies ==
  /\ process /\ process' = FALSE
  /\ server' = [server EXCEPT !.stalled = FALSE]
  /\ UNCHANGED <<reader, alive, stdin, askVars, planVars, pending, call, lines>>

\* shutdown: the process is killed and waited for.
Shutdown ==
  /\ process \/ alive
  /\ process' = FALSE /\ alive' = FALSE
  /\ server' = [server EXCEPT !.stalled = FALSE]
  /\ UNCHANGED <<reader, stdin, askVars, planVars, pending, call, lines>>

-----------------------------------------------------------------------------
(* The reader task of spawn_configured                                       *)
\* Mutant: the planner subscribes when it knows its turn.
HearsTurn == planner.at = "listening"

\* The planner's receiver exists from before its turn/start is sent.
Hears == planner.at \in {"subscribed", "listening"}

\* Mutant: nothing is ever dropped for a slow receiver.
BroadcastUnbounded(k) ==
  IF Hears THEN events' = Append(events, k) /\ UNCHANGED planner ELSE UNCHANGED planVars

\* tx.send: a receiver that is too slow misses the oldest events and is told so.
Broadcast(k) ==
  IF ~Hears THEN UNCHANGED planVars
  ELSE IF Len(events) < MaxEvents
       THEN events' = Append(events, k) /\ UNCHANGED planner
       ELSE /\ events' = Append(Tail(events), k)
            /\ planner' = [planner EXCEPT !.lagged = TRUE]

\* Mutant: an answer does not keep the table of questions.
QuestionsUnlocked == TRUE

QuestionsFree == \A a \in Answers : answer[a] \notin {"locked", "writing"}

Reads(kind) == reader = "reading" /\ lines # << >> /\ Head(lines).kind = kind

\* A reply belongs to the request with its id; when that has timed out it is lost.
ReadReply ==
  /\ Reads("reply")
  /\ LET c == Head(lines).of IN
       /\ pending' = pending \ {c}
       /\ call' = [call EXCEPT ![c] = IF c \in pending THEN "answered" ELSE @]
  /\ lines' = Tail(lines)
  /\ UNCHANGED <<linkVars, inputVars, askVars, planVars>>

ReadQuestion ==
  /\ Reads("question") /\ QuestionsFree
  /\ question' = "pending"
  /\ lines' = Tail(lines)
  /\ UNCHANGED <<linkVars, inputVars, answer, toolCall, planVars, pending, call>>

\* A tool call becomes a task of its own, any other request is rejected at once.
ReadToolCall ==
  /\ Reads("tool")
  /\ toolCall' = "running"
  /\ lines' = Tail(lines)
  /\ UNCHANGED <<linkVars, inputVars, question, answer, planVars, pending, call>>

ReadApproval ==
  /\ Reads("approval")
  /\ reader' = "rejecting"
  /\ lines' = Tail(lines)
  /\ UNCHANGED <<process, alive, inputVars, askVars, planVars, pending, call>>

Reject ==
  /\ \/ /\ reader = "rejecting" /\ stdin = Nobody
        /\ reader' = "writing" /\ stdin' = "reader"
     \/ /\ reader = "writing" /\ Flows
        /\ reader' = "reading" /\ stdin' = Nobody
  /\ UNCHANGED <<process, alive, server, askVars, planVars, pending, call, lines>>

\* The end of a turn takes its questions with it.
ReadNotification ==
  /\ \E k \in Notes :
       /\ Reads(k)
       /\ k = "completed" => QuestionsFree
       /\ question' = IF k = "completed" THEN "none" ELSE question
       /\ Broadcast(k)
  /\ lines' = Tail(lines)
  /\ UNCHANGED <<linkVars, inputVars, answer, toolCall, pending, call>>

\* The output ends with the process; or the journal or the store refuses an event,
\* and the reader gives up although the process lives.
ReaderGivesUp ==
  /\ reader = "reading" /\ QuestionsFree
  /\ lines # << >> \/ ~process
  /\ lines' = IF lines = << >> THEN lines ELSE Tail(lines)
  /\ reader' = "ending" /\ alive' = FALSE /\ question' = "none"
  /\ UNCHANGED <<process, inputVars, answer, toolCall, planVars, pending, call>>

ReaderDrains ==
  /\ reader = "ending" /\ reader' = "stopped"
  /\ call' = [c \in Calls |-> IF c \in pending /\ call[c] = "waiting" THEN "failed" ELSE call[c]]
  /\ pending' = {}
  /\ UNCHANGED <<process, alive, inputVars, askVars, planVars, lines>>

-----------------------------------------------------------------------------
(* answer_question holds the table of questions until its line is written.   *)
AnswerLocks(a) ==
  /\ answer[a] = "idle" /\ QuestionsFree
  /\ answer' = [answer EXCEPT ![a] = IF question = "pending" THEN "locked" ELSE "done"]
  /\ UNCHANGED <<linkVars, inputVars, question, toolCall, planVars, pending, call, lines>>

AnswerWrites(a) ==
  /\ answer[a] = "locked" /\ stdin = Nobody
  /\ stdin' = a
  /\ answer' = [answer EXCEPT ![a] = "writing"]
  /\ UNCHANGED <<linkVars, server, question, toolCall, planVars, pending, call, lines>>

\* A question whose answer could not be written stays.
AnswerWritten(a) ==
  /\ answer[a] = "writing" /\ Flows
  /\ stdin' = Nobody
  /\ answer' = [answer EXCEPT ![a] = "done"]
  /\ IF process
     THEN /\ question' = "none"
          /\ server' = [server EXCEPT !.answers = @ + 1]
     ELSE UNCHANGED <<question, server>>
  /\ UNCHANGED <<linkVars, toolCall, planVars, pending, call, lines>>

\* The task of a tool call has a result within thirty seconds: the handler's, that
\* there is no handler, or that it timed out.
ToolReturns ==
  /\ toolCall = "running" /\ toolCall' = "ready"
  /\ UNCHANGED <<linkVars, inputVars, question, answer, planVars, pending, call, lines>>

ToolWrites ==
  /\ \/ /\ toolCall = "ready" /\ stdin = Nobody
        /\ toolCall' = "writing" /\ stdin' = "tool"
     \/ /\ toolCall = "writing" /\ Flows
        /\ toolCall' = "over" /\ stdin' = Nobody
  /\ UNCHANGED <<linkVars, server, question, answer, planVars, pending, call, lines>>

-----------------------------------------------------------------------------
(* structured_read_only_with_reasoning: a turn on a thread of its own, whose *)
(* last message is the result.                                               *)
Subscribe ==
  /\ planner.at = "idle"
  /\ planner' = [planner EXCEPT !.at = "subscribed"]
  /\ UNCHANGED <<linkVars, inputVars, askVars, events, pending, call, lines>>

TurnStarted ==
  /\ planner.at = "subscribed" /\ call[Planning] \in {"answered", "failed"}
  /\ planner' = [planner EXCEPT !.at =
                   IF call[Planning] = "answered" THEN "listening" ELSE "failed"]
  /\ UNCHANGED <<linkVars, inputVars, askVars, events, pending, call, lines>>

\* A turn that ended otherwise than completed, or said what is no JSON, is an error.
PlannerReceives ==
  /\ planner.at = "listening" /\ ~planner.lagged /\ events # << >>
  /\ \/ Head(events) = "message" /\ planner' = [planner EXCEPT !.output = TRUE]
     \/ /\ Head(events) = "completed"
        /\ \E outcome \in {"returned", "failed"} : planner' = [planner EXCEPT !.at = outcome]
  /\ events' = Tail(events)
  /\ UNCHANGED <<linkVars, inputVars, askVars, pending, call, lines>>

\* A deadline, or events were missed: the turn is interrupted and nothing returned.
PlannerGivesUp ==
  /\ planner.at = "listening"
  /\ planner' = [planner EXCEPT !.at = "failed"]
  /\ UNCHANGED <<linkVars, inputVars, askVars, events, pending, call, lines>>

CodexNext ==
  \/ \E c \in Calls :
       Ask(c) \/ Register(c) \/ Write(c) \/ Written(c) \/ TimesOut(c) \/ ServerReplies(c)
  \/ \E k \in Asks : ServerAsks(k)
  \/ ServerNotifies \/ ServerStalls \/ ServerDies \/ Shutdown
  \/ ReadReply \/ ReadQuestion \/ ReadToolCall \/ ReadApproval \/ Reject
  \/ ReadNotification \/ ReaderGivesUp \/ ReaderDrains
  \/ \E a \in Answers : AnswerLocks(a) \/ AnswerWrites(a) \/ AnswerWritten(a)
  \/ ToolReturns \/ ToolWrites
  \/ Subscribe \/ TurnStarted \/ PlannerReceives \/ PlannerGivesUp

\* tokio polls tasks that can make progress, its mutexes are fair, and its timers
\* fire. The server owes nobody a reply, and need not read what is written (Flows).
CodexFairness ==
  /\ \A c \in Calls :
       /\ WF_codexVars(Register(c)) /\ SF_codexVars(Write(c)) /\ WF_codexVars(Written(c))
       /\ WF_codexVars(TimesOut(c))
  /\ \A a \in Answers : SF_codexVars(AnswerWrites(a)) /\ WF_codexVars(AnswerWritten(a))
  /\ WF_codexVars(ToolReturns) /\ SF_codexVars(ToolWrites) /\ SF_codexVars(Reject)
  /\ WF_codexVars(PlannerGivesUp)

-----------------------------------------------------------------------------
(* Properties *)

\* A question is answered at most once, and only while its turn waits for it, with
\* two windows answering and the end of the turn being read meanwhile
\* (answer_question: "this question has ended").
AnsweredOnce ==
  [][server'.answers # server.answers => server.answers = 0 /\ question = "pending"]_codexVars

\* What the planner returns is the complete answer of its turn, however early the
\* turn ended and however slowly it listens (structured_read_only_with_reasoning).
PlanIsComplete == planner.at = "returned" => planner.output

\* No request waits for a reply, which has a timeout (request).
RepliesQuiet == \A c \in Calls : call[c] # "waiting"

\* No request waits for its outcome, and no tool call for its answer to be written.
CallsQuiet ==
  /\ \A c \in Calls : call[c] \notin Waiting
  /\ toolCall \notin {"running", "ready", "writing"}
=============================================================================
