-------------------------------- MODULE Wire --------------------------------
(***************************************************************************)
(* One request on the wire: the conversion of the client's messages         *)
(* (server/anthropic.go, providers/wire.go, providers/workbuddy.go), the    *)
(* chunks of the upstream's answer (sseReader, aggregator) and what the     *)
(* client and the telemetry make of them (server/proxy_routes.go,           *)
(* server/anthropic_stream.go).  A text is the set of marks that the        *)
(* upstream's content filter looks for; the account that serves the request *)
(* and the retries before the first byte are those of Pool.tla.             *)
(***************************************************************************)
EXTENDS Integers, Sequences, FiniteSets, SequencesExt

CONSTANTS
  Calls,      \* tool calls the upstream may make
  MaxTurns,   \* bound on the messages of a request and the blocks of a message
  MaxChunks,  \* bound on the chunks of an answer
  None

VARIABLES
  stage,     \* where the request is
  client,    \* its protocol and whether it asked for a stream
  asked,     \* its messages, as chat messages
  sent,      \* the provider and the messages sent upstream
  upstream,  \* what the upstream has said so far
  answer,    \* the events written to a streaming client
  conv,      \* anthropicStreamConverter
  agg,       \* aggregator
  reply,     \* a non-streaming answer
  event      \* status of the telemetry row, and whose doing it was

vars == <<stage, client, asked, sent, upstream, answer, conv, agg, reply, event>>

Providers == {"codebuddy", "workbuddy_intl"}
Protocols == {"openai", "anthropic"}
Finishes == {"stop", "length", "tool_calls"}

\* A fragment of the identity line and the whole line in a text, that is in a content
\* of one string or in a block of type "text", and the line anywhere else: a block of
\* another type, a tool call's arguments, a field of a client's own.
Marks == {"fragment", "line", "elsewhere"}
Roles == {"system", "developer", "user", "assistant", "tool"}
Turns == [role : Roles, marks : SUBSET Marks]
Blocks == [type : {"text", "tool_use", "tool_result"}, marks : {{}, {"line"}}]

Indexes == 0 .. 2 + Cardinality(Calls)
NoClient == [protocol |-> None, streams |-> FALSE, left |-> FALSE]
NoUpstream ==
  [indexes |-> FALSE, made |-> <<>>, chunks |-> 0, finished |-> FALSE, late |-> FALSE]
NoConv == [started |-> FALSE, stopped |-> FALSE, next |-> 0, active |-> <<>>,
           text |-> None, think |-> None, tool |-> [i \in Indexes |-> None]]
NoAgg == [think |-> FALSE, text |-> FALSE, calls |-> <<>>, finish |-> "stop"]

TypeOK ==
  /\ stage \in {"idle", "asked", "sent", "answer", "end"}
  /\ client \in [protocol : Protocols \cup {None}, streams : BOOLEAN, left : BOOLEAN]
  /\ asked \in Seq(Turns)
  /\ sent.provider \in Providers \cup {None} /\ sent.turns \in Seq(Turns)
  /\ upstream.made \in Seq(Calls) /\ IsInjective(upstream.made) /\ upstream.chunks \in 0 .. MaxChunks
  /\ conv.next \in Indexes /\ conv.active \in Seq(Indexes)
  /\ \A x \in {conv.text, conv.think} \cup {conv.tool[i] : i \in Indexes} : x \in Indexes \cup {None}
  /\ agg.calls \in Seq(SUBSET Calls) /\ agg.finish \in Finishes
  /\ event.status \in {None, "succeeded", "failed", "cancelled"}
  /\ event.by \in {None, "caller", "upstream"}

Init ==
  /\ stage = "idle" /\ client = NoClient /\ asked = <<>>
  /\ sent = [provider |-> None, turns |-> <<>>]
  /\ upstream = NoUpstream /\ answer = <<>> /\ conv = NoConv /\ agg = NoAgg /\ reply = None
  /\ event = [status |-> None, by |-> None]

-----------------------------------------------------------------------------
(* The request.                                                            *)

\* assistantMessage: one message with the text of the blocks and their calls; a tool
\* result is passed over.
AssistantMessage(blocks) ==
  LET with(t) == UNION {blocks[i].marks : i \in {j \in DOMAIN blocks : blocks[j].type = t}}
      calls == IF with("tool_use") = {} THEN {} ELSE {"elsewhere"}
  IN <<[role |-> "assistant", marks |-> with("text") \cup calls]>>

\* anthropicMessageToOpenAI: a tool result is a message of its own, in its place
\* among the texts, which any other block becomes; a message without blocks is
\* kept, empty.
Flushed(acc) ==
  IF acc.text = None THEN acc.out ELSE Append(acc.out, [role |-> acc.role, marks |-> acc.text])

AddBlock(acc, b) ==
  IF b.type = "tool_result"
  THEN [acc EXCEPT !.out = Append(Flushed(acc), [role |-> "tool", marks |-> b.marks]), !.text = None]
  ELSE [acc EXCEPT !.text = b.marks \cup (IF @ = None THEN {} ELSE @)]

OtherMessages(role, blocks) ==
  IF blocks = <<>> THEN <<[role |-> role, marks |-> {}]>>
  ELSE Flushed(FoldLeft(AddBlock, [role |-> role, out |-> <<>>, text |-> None], blocks))

AnthropicMessages(role, blocks) ==
  IF role = "assistant" THEN AssistantMessage(blocks) ELSE OtherMessages(role, blocks)

\* Mutation: history is sent as the client has it.
OutboundHistoryKept(turn) ==
  IF turn.role \in {"system", "developer"}
  THEN [role |-> "system", marks |-> turn.marks \ {"line", "fragment"}] ELSE turn

\* outboundMessage: the developer role becomes system, every phrase is scrubbed
\* from the texts of a system message and the whole line from those of any other;
\* what is not a text goes out as it came.
Outbound(turn) ==
  IF turn.role \in {"system", "developer"}
  THEN [role |-> "system", marks |-> turn.marks \ {"line", "fragment"}]
  ELSE [turn EXCEPT !.marks = @ \ {"line"}]

\* preparedMessages and intlMessages.
Prepared(provider, turns) ==
  LET out == [i \in DOMAIN turns |-> Outbound(turns[i])]
      bare == IF provider = "codebuddy" THEN Len(out) < 2
              ELSE out = <<>> \/ out[1].role # "system"
  IN IF bare THEN <<[role |-> "system", marks |-> {}]>> \o out ELSE out

\* handleChatCompletions refuses a request without messages.
AskOpenAI ==
  /\ stage = "idle"
  /\ \E streams \in BOOLEAN : client' = [NoClient EXCEPT !.protocol = "openai", !.streams = streams]
  /\ \E n \in 1 .. MaxTurns : \E turns \in [1 .. n -> Turns] : asked' = turns
  /\ stage' = "asked"
  /\ UNCHANGED <<sent, upstream, answer, conv, agg, reply, event>>

\* handleAnthropicMessages and anthropicToOpenAI, which accept one without: first the
\* system prompt, if there is one.
AskAnthropic ==
  /\ stage = "idle"
  /\ \E streams \in BOOLEAN : client' = [NoClient EXCEPT !.protocol = "anthropic", !.streams = streams]
  /\ asked' \in {<<>>} \cup {<<[role |-> "system", marks |-> m]>> : m \in SUBSET {"line"}}
  /\ stage' = "asked"
  /\ UNCHANGED <<sent, upstream, answer, conv, agg, reply, event>>

\* The loop of anthropicToOpenAI: the next message of the client, of whatever role.
ReadMessage ==
  /\ stage = "asked" /\ client.protocol = "anthropic" /\ Len(asked) < MaxTurns
  /\ \E role \in Roles, n \in 0 .. MaxTurns : \E blocks \in [1 .. n -> Blocks] :
       asked' = asked \o AnthropicMessages(role, blocks)
  /\ UNCHANGED <<stage, client, sent, upstream, answer, conv, agg, reply, event>>

\* WorkBuddy.Stream and WorkBuddyIntl.Stream.
Send ==
  /\ stage = "asked"
  /\ \E p \in Providers : sent' = [provider |-> p, turns |-> Prepared(p, asked)]
  /\ stage' = "sent"
  /\ UNCHANGED <<client, asked, upstream, answer, conv, agg, reply, event>>

\* The upstream's 200: the response line of a stream is written.
Accepted ==
  /\ stage = "sent"
  /\ \E i \in BOOLEAN : upstream' = [NoUpstream EXCEPT !.indexes = i]
  /\ asked' = <<>> /\ sent' = [provider |-> None, turns |-> <<>>]
  /\ stage' = "answer"
  /\ UNCHANGED <<client, answer, conv, agg, reply, event>>

-----------------------------------------------------------------------------
(* The conversion of a streamed answer (anthropic_stream.go).  x is the     *)
(* converter with the events it has produced.                              *)

Event(type, block, kind, call) == [type |-> type, block |-> block, kind |-> kind, call |-> call]
Emit(x, e) == [x EXCEPT !.out = Append(@, e)]

Started(x) ==
  IF x.c.started THEN x
  ELSE Emit([x EXCEPT !.c.started = TRUE], Event("message_start", None, None, None))

\* reserveBlock and content_block_start.
Reserved(x, kind) ==
  Emit([x EXCEPT !.c.next = @ + 1, !.c.active = Append(@, x.c.next)],
       Event("block_start", x.c.next, kind, None))

Thinking(x) ==
  LET y == IF x.c.think = None THEN [Reserved(x, "thinking") EXCEPT !.c.think = x.c.next] ELSE x
  IN Emit(y, Event("block_delta", y.c.think, "thinking", None))

Text(x) ==
  LET y == IF x.c.text = None THEN [Reserved(x, "text") EXCEPT !.c.text = x.c.next] ELSE x
  IN Emit(y, Event("block_delta", y.c.text, "text", None))

Tool(x, d) ==
  LET y == IF x.c.tool[d.index] = None
           THEN [Reserved(x, "tool_use") EXCEPT !.c.tool[d.index] = x.c.next] ELSE x
  IN Emit(y, Event("block_delta", y.c.tool[d.index], "tool_use", d.call))

\* content_block_stop of one block.
Closed(x, b) == Emit(x, Event("block_stop", b, None, None))

\* Mutation: a finish reason and [DONE] both end the message.
StoppedTwice(x) ==
  Emit([FoldLeft(Closed, Started(x), x.c.active) EXCEPT !.c.active = <<>>, !.c.stopped = TRUE],
       Event("message_stop", None, None, None))

\* stop: every active block is closed, once, and the message ends.
Stopped(x) ==
  IF x.c.stopped THEN x
  ELSE Emit([FoldLeft(Closed, Started(x), x.c.active) EXCEPT !.c.active = <<>>, !.c.stopped = TRUE],
            Event("message_stop", None, None, None))

\* consume, processChunk and processDelta.
Consumed(c, chunk) ==
  LET a == Started([c |-> c, out |-> <<>>])
      b == IF chunk.think THEN Thinking(a) ELSE a
      d == IF chunk.text THEN Text(b) ELSE b
      e == FoldLeft(Tool, d, chunk.calls)
  IN IF chunk.finish = None THEN e ELSE Stopped(e)

ConsumedDone(c) == Stopped(Started([c |-> c, out |-> <<>>]))

-----------------------------------------------------------------------------
(* The answer.                                                             *)

\* normalizeToolCalls: a call without an index gets its position in the chunk.
Normalized(calls) ==
  [i \in DOMAIN calls |-> IF calls[i].index = None THEN [calls[i] EXCEPT !.index = i - 1]
                          ELSE calls[i]]

\* aggregator.process and mergeToolCalls: fragments of one index are one call.
Merged(calls, d) ==
  LET size == IF Len(calls) > d.index THEN Len(calls) ELSE d.index + 1
  IN [i \in 1 .. size |->
        (IF i \in DOMAIN calls THEN calls[i] ELSE {}) \cup (IF i = d.index + 1 THEN {d.call} ELSE {})]

Processed(chunk) ==
  [think |-> agg.think \/ chunk.think, text |-> agg.text \/ chunk.text,
   calls |-> FoldLeft(Merged, agg.calls, chunk.calls),
   finish |-> IF chunk.finish = None THEN agg.finish ELSE chunk.finish]

\* aggregator.response, and openAIToAnthropic, which looks for the calls under a
\* type that the response does not give them.
Reply ==
  LET finish == IF agg.calls = <<>> THEN agg.finish ELSE "tool_calls"
      calls == IF client.protocol = "openai" THEN UNION Range(agg.calls) ELSE {}
  IN [think |-> agg.think, text |-> agg.text, calls |-> calls, finish |-> finish]

\* What one frame adds to a streamed answer.
Written(events) == answer' = IF client.left THEN answer ELSE answer \o events

\* recordEvent and IsClientAbort: an aborted connection is the caller's.
Ends(why, by) ==
  /\ stage' = "end"
  /\ event' = [status |-> CASE why = "done" -> "succeeded"
                             [] why \in {"caller", "reset"} -> "cancelled"
                             [] OTHER -> "failed",
               by |-> by]

\* The calls the upstream has begun, in order, after a fragment of one.
Begun(made, call) == IF call \in Range(made) THEN made ELSE Append(made, call)

\* The tool calls of a chunk, numbered if the upstream numbers them.
Deltas(calls, made) ==
  [i \in DOMAIN calls |->
     [call |-> calls[i],
      index |-> IF upstream.indexes THEN (CHOOSE n \in DOMAIN made : made[n] = calls[i]) - 1
                ELSE None]]

\* The fragments of tool calls that a chunk may have.
Fragments == {<<>>} \cup {<<c>> : c \in Calls} \cup {p \in Calls \X Calls : p[1] # p[2]}

\* The loops of completeChat, streamChat and streamAnthropic for one chunk.
Receives(think, text, finish, calls) ==
  LET made == FoldLeft(Begun, upstream.made, calls)
      chunk == [think |-> think, text |-> text, finish |-> finish,
                calls |-> Normalized(Deltas(calls, made))]
      x == Consumed(conv, chunk)
  IN /\ finish = "tool_calls" => made # <<>>
     /\ upstream' = [upstream EXCEPT
          !.made = made, !.chunks = @ + 1, !.finished = @ \/ finish # None,
          !.late = @ \/ (upstream.finished /\ (think \/ text \/ calls # <<>>))]
     /\ IF ~ client.streams
        THEN agg' = Processed(chunk) /\ UNCHANGED <<answer, conv>>
        ELSE IF client.protocol = "openai"
        THEN /\ Written([i \in DOMAIN chunk.calls |->
                  Event("chunk", chunk.calls[i].index, "tool_use", chunk.calls[i].call)])
             /\ UNCHANGED <<conv, agg>>
        ELSE Written(x.out) /\ conv' = x.c /\ agg' = agg

\* sseReader.Next and upstreamStream.Next, and what the caller makes of the chunk: a
\* finish reason ends neither's loop.
Chunk ==
  /\ stage = "answer" /\ upstream.chunks < MaxChunks
  /\ client.left => client.streams /\ client.protocol = "anthropic"
  /\ \E think, text \in BOOLEAN, finish \in Finishes \cup {None}, calls \in Fragments :
       Receives(think, text, finish, calls)
  /\ UNCHANGED <<stage, client, asked, sent, reply, event>>

\* [DONE], or the end of the body, which looks the same.
Done ==
  /\ stage = "answer"
  /\ LET x == ConsumedDone(conv)
     IN IF ~ client.streams THEN reply' = Reply /\ UNCHANGED <<answer, conv>>
        ELSE IF client.protocol = "openai"
        THEN Written(<<Event("done", None, None, None)>>) /\ UNCHANGED <<conv, reply>>
        ELSE Written(x.out) /\ conv' = x.c /\ reply' = reply
  /\ IF client.left /\ client.streams THEN Ends("caller", "caller") ELSE Ends("done", None)
  /\ UNCHANGED <<client, asked, sent, upstream, agg>>

\* The upstream refuses, or fails under the answer: by a reset of the connection or
\* otherwise.  A stream reports it in band.
Breaks ==
  /\ stage \in {"sent", "answer"}
  /\ \E why \in {"error", "reset"} : Ends(why, "upstream")
  /\ IF stage = "answer" /\ client.streams
     THEN Written(<<Event("error", None, None, None)>>) ELSE answer' = answer
  /\ UNCHANGED <<client, asked, sent, upstream, conv, agg, reply>>

\* The caller closes its connection.
Leaves ==
  /\ stage = "answer" /\ ~ client.left
  /\ client' = [client EXCEPT !.left = TRUE]
  /\ UNCHANGED <<stage, asked, sent, upstream, answer, conv, agg, reply, event>>

\* Its request context ends the upstream call or the next write fails.
Aborted ==
  /\ stage = "answer" /\ client.left
  /\ Ends("caller", "caller")
  /\ UNCHANGED <<client, asked, sent, upstream, answer, conv, agg, reply>>

Next ==
  \/ AskOpenAI \/ AskAnthropic \/ ReadMessage \/ Send \/ Accepted
  \/ Chunk \/ Done \/ Breaks \/ Leaves \/ Aborted

Spec == Init /\ [][Next]_vars

-----------------------------------------------------------------------------
(* Properties.                                                             *)

\* outboundMessage, preparedMessages, intlMessages: whatever mixture of roles the
\* client's protocol and history bring, the upstream gets no developer role, no
\* identity line in a text and no phrase of it in a text of a system message, two
\* messages (WorkBuddy) or a leading system message (WorkBuddy International), and
\* the client's messages in their order.
UpstreamAccepts ==
  stage = "sent" /\ asked # <<>> =>
    LET turns == sent.turns
        added == Len(turns) - Len(asked)
    IN /\ \A i \in DOMAIN turns :
            /\ turns[i].role # "developer" /\ "line" \notin turns[i].marks
            /\ turns[i].role = "system" => "fragment" \notin turns[i].marks
       /\ IF sent.provider = "codebuddy" THEN Len(turns) >= 2 ELSE turns[1].role = "system"
       /\ added \in {0, 1}
       /\ \A i \in DOMAIN asked : asked[i].role # "developer" => turns[i + added].role = asked[i].role

\* "the gateway rejects it wherever it appears in the request" (wire.go:559): not
\* even outside the texts.
IdentityIsScrubbed ==
  stage = "sent" => \A i \in DOMAIN sent.turns : sent.turns[i].marks \cap {"line", "elsewhere"} = {}

Places(type, b) == {i \in DOMAIN answer : answer[i].type = type /\ answer[i].block = b}

\* anthropic_stream.go: a streamed answer starts its message once, before all else,
\* and ends it at most once, also when a finish reason, another and [DONE] all end it
\* and whatever comes after.  As long as the upstream sends no content after its finish
\* reason, it fills a block only between its one start and its one stop, numbers the
\* blocks in order, and has every block closed when it ends the message.  The calls of
\* an upstream that numbers them, or that sends them in one chunk, stay apart, in such
\* a stream, in the upstream's own format and in an aggregated answer.
AnswerIsWellFormed ==
  LET blocks == {answer[i].block : i \in DOMAIN answer} \ {None}
      stops == Places("message_stop", None)
      converted == client.protocol = "anthropic" /\ client.streams
      inTime == ~ (converted /\ upstream.late)
  IN /\ converted /\ answer # <<>> /\ answer[1].type # "error" =>
          Places("message_start", None) = {1}
     /\ Cardinality(stops) <= 1
     /\ converted /\ inTime => \A b \in blocks :
          \E open \in DOMAIN answer :
            /\ Places("block_start", b) = {open} /\ Cardinality(Places("block_stop", b)) <= 1
            /\ \A i \in Places("block_delta", b) :
                 /\ open < i /\ answer[i].kind = answer[open].kind
                 /\ \A j \in Places("block_stop", b) : i < j
            /\ \A i \in stops : Places("block_stop", b) # {} /\ open < i
            /\ b > 0 => \E i \in 1 .. open : answer[i].block = b - 1
     /\ upstream.indexes \/ upstream.chunks = 1 =>
          /\ inTime => \A i, j \in DOMAIN answer :
               answer[i].call # None /\ answer[j].call # None /\ answer[i].block = answer[j].block =>
                 answer[i].call = answer[j].call
          /\ \A i \in DOMAIN agg.calls : Cardinality(agg.calls[i]) = 1

\* "content blocks are opened once and only closed at the very end (never mid-stream)"
\* (anthropic_stream.go:14-15): nothing of a message comes after a block is closed but
\* the end of the others and of the message.
BlocksCloseAtTheEnd ==
  client.protocol = "anthropic" =>
    \A i, j \in DOMAIN answer :
      answer[i].type = "block_stop" /\ answer[j].type \in {"block_start", "block_delta"} => j < i

\* README.md:21: "Upstream tool calls and multimodal messages passed through".
ToolCallsArrive == reply # None => reply.calls = Range(upstream.made)

\* IsClientAbort: "a request ended because the caller went away or gave up, rather
\* than because of an upstream or proxy fault" (provider.go:224).
AbortsAreTheCallers == event.status = "cancelled" => event.by = "caller"
=============================================================================
