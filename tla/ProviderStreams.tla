--------------------------- MODULE ProviderStreams ---------------------------
(* A request to an API provider (provider-api). The provider streams the      *)
(* blocks of its answer as events; the body is read to its end, then a parser *)
(* of the protocol puts the fragments of each block together. The connection  *)
(* may end anywhere, and the provider may stop at its limit or report an      *)
(* error. What was read is sent back with the next request of the turn.       *)
EXTENDS Naturals, Sequences

CONSTANTS
  Protocols,   \* of {"chat", "responses", "messages"}
  Answers      \* the answers of the provider: sequences of blocks

VARIABLES
  request,     \* protocol of the request, and what the provider means to say
  sent,        \* events of each block that the provider has sent
  events,      \* events that the connection carried
  connection,        \* state of the connection
  inferred,     \* what infer returned
  resent       \* the answer as it is sent back

streamVars == <<request, sent, events, connection, inferred, resent>>

-----------------------------------------------------------------------------
\* A block: what it is, and in how many fragments it is sent.
BlockKinds == {"text", "refusal", "thinking", "call"}
ASSUME AnswerAssumption == Answers \subseteq Seq([kind : BlockKinds, parts : Nat])

ASSUME ProtocolAssumption == Protocols \subseteq {"chat", "responses", "messages"}

\* What an error says of itself, by the words that the code looks for.
Hints == {"other", "rate", "auth", "context", "filter"}

FailureKinds == {"rate_limited", "authentication", "context_length", "refusal", "stream_interrupted",
                 "response_too_large", "invalid_response", "transport", "unknown"}

NoRequest == [protocol |-> "none", answer |-> <<>>]
NoOutcome == [kind |-> "none", content |-> <<>>, state |-> <<>>]

Blocks == DOMAIN request.answer
Kind(i) == request.answer[i].kind

StreamsType ==
  /\ request \in [protocol : Protocols \cup {"none"}, answer : Answers \cup {<<>>}]
  /\ sent \in [Blocks -> Nat]
  /\ \A n \in 1..Len(events) :
       /\ events[n].what \in {"start", "part", "finish", "end", "error", "torn"}
       /\ events[n].block \in Blocks \cup {0}
  /\ connection \in {"idle", "open", "closed", "broken", "large", "rejected"}
  /\ inferred.kind \in FailureKinds \cup {"none", "response"}

StreamsInit ==
  /\ request = NoRequest /\ sent = <<>> /\ events = <<>>
  /\ connection = "idle" /\ inferred = NoOutcome /\ resent = <<>>

Failed(kind) == [NoOutcome EXCEPT !.kind = kind]

-----------------------------------------------------------------------------
(* The request *)

\* http_failure_kind: the status decides, then the words of the body.
HttpFailure(status, hint) ==
  CASE status = 429 -> "rate_limited"
    [] status \in {401, 403} -> "authentication"
    [] OTHER -> CASE hint = "context" -> "context_length"
                  [] hint = "filter" -> "refusal"
                  [] OTHER -> IF status >= 500 THEN "transport" ELSE "unknown"

\* provider_payload_failure, of an error in the stream.
PayloadFailure(hint) ==
  CASE hint = "rate" -> "rate_limited"
    [] hint = "auth" -> "authentication"
    [] hint = "context" -> "context_length"
    [] hint = "filter" -> "refusal"
    [] OTHER -> "invalid_response"

\* infer: no credential, or no connection, or a status that is not a success. The body of
\* such an answer is read to its end too, so it may break off or be too large.
NotSent ==
  /\ connection = "idle"
  /\ connection' = "rejected"
  /\ \E kind \in {"authentication", "transport", "stream_interrupted", "response_too_large"}
                   \cup {HttpFailure(status, hint) : status \in {400, 401, 403, 429, 500}, hint \in Hints} :
       inferred' = Failed(kind)
  /\ UNCHANGED <<request, sent, events, resent>>

\* The chat protocol has no thinking, and one text and one refusal at most.
Speaks(protocol, answer) ==
  protocol = "chat" =>
    \A i, j \in DOMAIN answer :
      /\ answer[i].kind # "thinking"
      /\ i # j /\ answer[i].kind = answer[j].kind => answer[i].kind = "call"

Sends ==
  /\ connection = "idle"
  /\ \E protocol \in Protocols, answer \in Answers :
       /\ Speaks(protocol, answer)
       /\ request' = [protocol |-> protocol, answer |-> answer]
       /\ sent' = [i \in DOMAIN answer |-> 0]
  /\ connection' = "open"
  /\ UNCHANGED <<events, inferred, resent>>

-----------------------------------------------------------------------------
(* The provider *)

Event(what, block, part, hint) == [what |-> what, block |-> block, part |-> part, hint |-> hint]

Emits(event) == events' = Append(events, event)

Emitted(what) == \E n \in 1..Len(events) : events[n].what = what

\* The text and the refusal of the chat protocol have no event that opens them.
Opens(i) == IF request.protocol = "chat" /\ Kind(i) # "call" THEN 0 ELSE 1

PartsSent(i) == IF sent[i] > Opens(i) THEN sent[i] - Opens(i) ELSE 0

Finished(i) == sent[i] = Opens(i) + request.answer[i].parts

\* The provider has more to say: nothing follows an error.
Speaking == connection = "open" /\ ~Emitted("finish") /\ ~Emitted("error")

\* The next event of a block. Blocks may alternate: their events carry an index.
Streams(i) ==
  /\ Speaking
  /\ ~Finished(i)
  /\ sent' = [sent EXCEPT ![i] = @ + 1]
  /\ Emits(IF sent[i] < Opens(i) THEN Event("start", i, 0, "other")
                                 ELSE Event("part", i, PartsSent(i) + 1, "other"))
  /\ UNCHANGED <<request, connection, inferred, resent>>

\* The answer is over, or the provider stops at its limit, or refuses to go on. The
\* responses protocol reports a limit as an error of its own.
Stops ==
  /\ Speaking
  /\ \E reason \in {"other", "filter"} :
       /\ request.protocol = "responses" => reason = "other" /\ \A i \in Blocks : Finished(i)
       /\ Emits(Event("finish", 0, 0, reason))
  /\ UNCHANGED <<request, sent, connection, inferred, resent>>

\* [DONE], response.completed, message_stop.
EndsAnswer ==
  /\ connection = "open" /\ Emitted("finish") /\ ~Emitted("end") /\ ~Emitted("error")
  /\ Emits(Event("end", 0, 0, "other"))
  /\ UNCHANGED <<request, sent, connection, inferred, resent>>

ReportsError ==
  /\ connection = "open" /\ ~Emitted("end") /\ ~Emitted("error")
  /\ \E hint \in Hints : Emits(Event("error", 0, 0, hint))
  /\ UNCHANGED <<request, sent, connection, inferred, resent>>

\* The connection is closed, after an event or in the middle of one; or it breaks; or
\* the body exceeds its limit.
Closes ==
  /\ connection = "open"
  /\ \/ connection' = "closed" /\ UNCHANGED events
     \/ connection' = "closed" /\ ~Emitted("end") /\ Emits(Event("torn", 0, 0, "other"))
     \/ connection' \in {"broken", "large"} /\ UNCHANGED events
  /\ UNCHANGED <<request, sent, inferred, resent>>

-----------------------------------------------------------------------------
(* The parsers *)

\* What a loop over s takes of it, in its order: what stands at the places of S. It is
\* SelectSeq by places, as a recursive function that proofs can unfold.
Taken(s, S) ==
  LET upTo[n \in 0..Len(s)] ==
        IF n = 0 THEN <<>> ELSE IF n \in S THEN Append(upTo[n - 1], s[n]) ELSE upTo[n - 1]
  IN upTo[Len(s)]

Parts(blocks) ==
  LET places == {n \in 1..Len(events) : events[n].what = "part" /\ events[n].block \in blocks}
      found == Taken(events, places)
  IN [n \in 1..Len(found) |-> <<found[n].block, found[n].part>>]

\* Mutant: the fragments of all calls are one call.
PartsMerged(i) == Parts({b \in Blocks : Kind(b) = Kind(i)})

\* The builder of a block, by its index.
PartsOf(i) == Parts({i})

Entry(kind, block, parts) == [kind |-> kind, block |-> block, parts |-> parts]

Seen(i) == \E n \in 1..Len(events) : events[n].block = i

\* The blocks of some kinds that were opened, in the order of their indexes.
Built(kinds) ==
  LET index == [i \in Blocks |-> i]
      found == Taken(index, {i \in Blocks : Kind(i) \in kinds /\ Seen(i)})
  IN [n \in 1..Len(found) |-> Entry(Kind(found[n]), found[n], PartsOf(found[n]))]

NotEmpty(entries) ==
  Taken(entries, {n \in 1..Len(entries) : entries[n].kind = "text" => entries[n].parts # <<>>})

\* parse_openai_chat_sse: one text and one refusal, whatever comes between, then calls.
ChatContent ==
  LET joined(kind) ==
        LET parts == Parts({b \in Blocks : Kind(b) = kind})
        IN IF parts = <<>> THEN <<>> ELSE <<Entry(kind, parts[1][1], parts)>>
  IN joined("text") \o joined("refusal") \o Built({"call"})

\* The items of the responses protocol that are neither a message nor a call: reasoning.
Dropped(i) == request.protocol = "responses" /\ Kind(i) = "thinking"

\* parse_openai_response: the output of the last event, whole but for what is dropped.
ResponsesContent ==
  LET output == [i \in Blocks |-> Entry(Kind(i), i, [n \in 1..request.answer[i].parts |-> <<i, n>>])]
  IN Taken(output, {i \in Blocks : ~Dropped(i)})

\* parse_anthropic_sse: the blocks in order, and the details of a stop as a refusal.
MessagesContent ==
  NotEmpty(Built({"text", "call", "refusal"}))
    \o IF \E n \in 1..Len(events) : events[n].what = "finish" /\ events[n].hint = "filter"
       THEN <<Entry("refusal", 0, <<>>)>> ELSE <<>>

\* Thinking is kept apart, for the next request.
ThinkingState == IF request.protocol = "messages" THEN Built({"thinking"}) ELSE <<>>

Content ==
  CASE request.protocol = "chat" -> ChatContent
    [] request.protocol = "responses" -> ResponsesContent
    [] OTHER -> MessagesContent

\* The arguments of a call are parsed; a call without any has none.
Parses(entry) ==
  entry.kind = "call" =>
    \/ entry.parts = <<>>
    \/ entry.parts = [n \in 1..request.answer[entry.block].parts |-> <<entry.block, n>>]

\* Mutant: what came before the connection closed is the answer.
CompletedAnyway == TRUE

\* An answer is one that the provider ended.
Completed == Emitted("end")

\* The first event that is an error, or no JSON, decides.
Parsed ==
  LET wrong == {n \in 1..Len(events) : events[n].what \in {"error", "torn"}}
      first == events[CHOOSE n \in wrong : \A m \in wrong : n <= m]
      content == Content
  IN IF events = <<>> THEN Failed("invalid_response")
     ELSE IF wrong # {} THEN Failed(PayloadFailure(first.hint))
     ELSE IF ~Completed THEN Failed("stream_interrupted")
     ELSE IF \E n \in 1..Len(content) : ~Parses(content[n]) THEN Failed("invalid_response")
     ELSE [kind |-> "response", content |-> content, state |-> ThinkingState]

\* limited_body, then the parser.
Reads ==
  /\ connection \in {"closed", "broken", "large"} /\ inferred.kind = "none"
  /\ inferred' = CASE connection = "broken" -> Failed("stream_interrupted")
                  [] connection = "large" -> Failed("response_too_large")
                  [] OTHER -> Parsed
  /\ UNCHANGED <<request, sent, events, connection, resent>>

-----------------------------------------------------------------------------
(* The next request of the turn *)

Only(kinds) ==
  Taken(inferred.content, {n \in 1..Len(inferred.content) : inferred.content[n].kind \in kinds})

\* openai_chat_messages, openai_response_input: the texts, then the calls.
OpenAiMessage == Only({"text"}) \o Only({"call"})

\* Mutant: thinking is only shown, never sent back.
ResentBare == Only({"text", "call"})

\* anthropic_messages: the thinking, then the content, without refusals.
AnthropicMessage == inferred.state \o Only({"text", "call"})

Resent == IF request.protocol = "messages" THEN AnthropicMessage ELSE OpenAiMessage

SendsBack ==
  /\ inferred.kind = "response" /\ resent = <<>>
  /\ resent' = Resent
  /\ resent' # <<>>
  /\ UNCHANGED <<request, sent, events, connection, inferred>>

StreamsNext ==
  \/ NotSent \/ Sends
  \/ \E i \in Blocks : Streams(i)
  \/ Stops \/ EndsAnswer \/ ReportsError \/ Closes
  \/ Reads \/ SendsBack

-----------------------------------------------------------------------------
(* Properties *)

\* The fragments of a block that were sent, in the order in which they were sent.
Said(i) == [n \in 1..PartsSent(i) |-> <<i, n>>]

EntriesOf(i, entries) == {n \in 1..Len(entries) : entries[n].block = i}

\* The agent gets the whole answer or an error, however the fragments of its blocks
\* alternate and wherever the connection ends: every block that was sent is there once,
\* with all its fragments in order, and the calls in the order of the provider. Only the
\* reasoning of the responses protocol is left out, for that parser drops it. A call
\* has all its arguments or, if the provider stopped before the first, none. An answer
\* that the provider ended is never an error, but for a call that it did not end.
ResponsesAreWhole ==
  /\ inferred.kind = "response" =>
       LET entries == inferred.state \o inferred.content
       IN /\ Emitted("end") /\ ~Emitted("error") /\ ~Emitted("torn")
          /\ \A i \in Blocks : ~Dropped(i) /\ PartsSent(i) > 0 =>
               \E n \in EntriesOf(i, entries) :
                 EntriesOf(i, entries) = {n} /\ entries[n].kind = Kind(i) /\ entries[n].parts = Said(i)
          /\ \A n, m \in 1..Len(entries) :
               /\ entries[n].kind = "call" => PartsSent(entries[n].block) \in {0, request.answer[entries[n].block].parts}
               /\ n < m /\ entries[n].kind = "call" /\ entries[m].kind = "call" => entries[n].block < entries[m].block
  /\ connection = "closed" /\ Emitted("end") /\ ~Emitted("error") /\ inferred.kind # "none" =>
       \/ inferred.kind = "response"
       \/ inferred.kind = "invalid_response" /\ \E i \in Blocks : Kind(i) = "call" /\ ~Finished(i)

\* What goes back to the provider is what it said: each text, call and, in the messages
\* protocol, thinking, once and whole. Refusals stay behind, and what a parser dropped.
AnswersAreResent ==
  resent # <<>> =>
    \A i \in Blocks : Kind(i) # "refusal" /\ ~Dropped(i) /\ PartsSent(i) > 0 =>
      \E n \in EntriesOf(i, resent) : EntriesOf(i, resent) = {n} /\ resent[n].parts = Said(i)
=============================================================================
