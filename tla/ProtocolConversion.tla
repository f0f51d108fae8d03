-------------------------- MODULE ProtocolConversion --------------------------
(***************************************************************************)
(* What the protocol adapter does to one conversation: the items of a       *)
(* Responses or Anthropic request become Chat Completions messages, and the *)
(* chunks of the answer become, in the same request, the events of a        *)
(* Responses stream or of an Anthropic stream.  Texts, arguments and names  *)
(* are left out: an item is its type and the call it belongs to, reasoning  *)
(* is the number of its item, a chunk says which kinds of delta it carries. *)
(* The loops of the converters are steps: what they have made of the items  *)
(* or chunks so far is their state.                                         *)
(***************************************************************************)
EXTENDS Integers, Sequences, FiniteSets

CONSTANTS Ids,           \* call ids
          MaxToolCalls,  \* bound on the calls of an answer
          MaxItems,      \* bound on the items of a request
          MaxChunks      \* bound on the deltas of an answer

ASSUME ProtocolConversionAssumption ==
  MaxToolCalls \in Nat /\ MaxItems \in Nat /\ MaxChunks \in Nat

VARIABLES
  phase,    \* the request is read, the answer is streamed, or all is written
  items,    \* the items of the request so far, in one of the two formats
  chat,     \* responsesMessages: messages and what is pending
  wire,     \* anthropicRequest: messages, and the one whose blocks are read
  answer,   \* what the upstream has answered: kinds, calls, finish reason
  ordered,  \* no chunk went back from text to reasoning or from calls to text
  ant,      \* forwardAnthropicStream, and what its client has made of it
  res       \* forwardResponsesStream

exchangeVars == <<phase, items, chat, wire, answer, ordered, ant, res>>

Item(type, id) == [type |-> type, id |-> id]
Items ==
  {Item(t, 0) : t \in {"reasoning", "assistant", "user", "input"}}
    \cup {Item(t, i) : t \in {"function_call", "output"}, i \in Ids}

\* A Chat message: role, tool_calls, tool_call_id and the reasoning it carries.
Message(role, calls, id, why) == [role |-> role, calls |-> calls, id |-> id, why |-> why]
Plain(role) == Message(role, <<>>, 0, <<>>)
ToolResult(id) == Message("tool", <<>>, id, <<>>)

-----------------------------------------------------------------------------
(* Responses request to Chat messages. *)

NoChat == [msgs |-> <<>>, why |-> <<>>, calls |-> <<>>, last |-> 0]

FlushReasoning(s) ==
  IF s.why = <<>> \/ s.last = 0 THEN s
  ELSE [s EXCEPT !.msgs[s.last].why = @ \o s.why, !.why = <<>>]

FlushCalls(s) ==
  IF s.calls = <<>> THEN s
  ELSE [msgs |-> Append(s.msgs, Message("assistant", s.calls, 0, s.why)),
        why |-> <<>>, calls |-> <<>>, last |-> Len(s.msgs) + 1]

Flushed(s) == FlushCalls(FlushReasoning(s))
Says(s, m) == [s EXCEPT !.msgs = Append(@, m)]

\* Refuted variant: calls are not written out before an output.
AppendItemLate(s, item, n) ==
  CASE item.type = "reasoning" -> [s EXCEPT !.why = Append(@, n)]
    [] item.type = "function_call" -> [s EXCEPT !.calls = Append(@, item.id)]
    [] item.type = "assistant" ->
         [s EXCEPT !.msgs = Append(@, Message("assistant", <<>>, 0, s.why)),
                   !.why = <<>>, !.last = Len(s.msgs) + 1]
    [] item.type = "output" -> Says(s, ToolResult(item.id))
    [] OTHER -> Says(Flushed(s), Plain("user"))

\* appendItem, for the n-th item.
AppendItem(s, item, n) ==
  CASE item.type = "reasoning" -> [s EXCEPT !.why = Append(@, n)]
    [] item.type = "function_call" -> [s EXCEPT !.calls = Append(@, item.id)]
    [] item.type = "assistant" ->
         [s EXCEPT !.msgs = Append(@, Message("assistant", <<>>, 0, s.why)),
                   !.why = <<>>, !.last = Len(s.msgs) + 1]
    [] item.type = "output" -> Says(Flushed(s), ToolResult(item.id))
    [] OTHER -> Says(Flushed(s), Plain("user"))

ResponsesMessages(s) == FlushReasoning(FlushCalls(s)).msgs

-----------------------------------------------------------------------------
(* Anthropic request to Chat messages.  An assistant message collects thinking *)
(* and tool_use; a user message with tool results becomes its plain blocks,   *)
(* then the results.                                                          *)

Role(item) == IF item.type \in {"reasoning", "assistant", "function_call"} THEN "assistant" ELSE "user"

NoBlocks == [role |-> "none", calls |-> <<>>, why |-> <<>>, plain |-> FALSE, results |-> <<>>]
NoWire == [msgs |-> <<>>, block |-> NoBlocks]

\* The loop over the blocks of a message, for the n-th block of the request.
AddBlock(b, item, n) ==
  [role |-> Role(item),
   why |-> IF item.type = "reasoning" THEN Append(b.why, n) ELSE b.why,
   calls |-> IF item.type = "function_call" THEN Append(b.calls, item.id) ELSE b.calls,
   results |-> IF item.type = "output" THEN Append(b.results, ToolResult(item.id)) ELSE b.results,
   plain |-> b.plain \/ item.type \in {"user", "input"}]

AnthropicMessage(b) ==
  CASE b.role = "none" -> <<>>
    [] b.role = "assistant" -> <<Message("assistant", b.calls, 0, b.why)>>
    [] b.role = "user" -> (IF b.plain THEN <<Plain("user")>> ELSE <<>>) \o b.results

\* A client puts consecutive blocks of one role into one message.
Compose(w, item, n) ==
  IF w.block.role \in {"none", Role(item)} THEN [w EXCEPT !.block = AddBlock(@, item, n)]
  ELSE [msgs |-> w.msgs \o AnthropicMessage(w.block), block |-> AddBlock(NoBlocks, item, n)]

AnthropicMessages(w) == w.msgs \o AnthropicMessage(w.block)

-----------------------------------------------------------------------------
(* The answer.  A chunk may carry reasoning, a call and text at once.          *)

NoCall == -1
Indexes == 0 .. MaxToolCalls - 1
Chunk == [why : BOOLEAN, call : Indexes \cup {NoCall}, text : BOOLEAN]
NoAnswer == [why |-> FALSE, text |-> FALSE, calls |-> 0, finish |-> "none"]

\* An upstream numbers its calls from zero and may come back to an earlier one.
Follows(chunk) == chunk.call <= answer.calls

Answered(chunk) ==
  [answer EXCEPT !.why = @ \/ chunk.why, !.text = @ \/ chunk.text,
                 !.calls = IF chunk.call = @ THEN @ + 1 ELSE @]

StreamEvent(ev, index, kind) == [ev |-> ev, index |-> index, kind |-> kind]

\* An Anthropic client: blocks begin one at a time with consecutive indexes, deltas
\* belong to the open block, and the message ends with no block open.
NoClient == [ok |-> TRUE, open |-> "", kinds |-> <<>>, stop |-> "", deltas |-> 0]
Received(c, e) ==
  CASE e.ev = "start" -> [c EXCEPT !.ok = @ /\ c.open = "" /\ e.index = Len(c.kinds),
                                   !.open = e.kind, !.kinds = Append(@, e.kind)]
    [] e.ev = "delta" -> [c EXCEPT !.ok = @ /\ c.open = e.kind /\ e.index + 1 = Len(c.kinds),
                                   !.deltas = @ + 1]
    [] e.ev = "stop" -> [c EXCEPT !.ok = @ /\ c.open # "" /\ e.index + 1 = Len(c.kinds),
                                  !.open = ""]
    [] e.ev = "message_delta" -> [c EXCEPT !.ok = @ /\ c.open = "", !.stop = e.kind]
    [] e.ev = "message_stop" -> c

\* Anthropic: one content block is open at a time.
NoAnt == [client |-> NoClient, block |-> 0, kind |-> "", think |-> FALSE, text |-> FALSE,
          tool |-> NoCall]

Send(a, e) == [a EXCEPT !.client = Received(@, e)]
WriteBlockDone(a) == Send(a, StreamEvent("stop", a.block, a.kind))

\* Refuted variant: the next block begins while the last one is open.
LeaveOpen(a) == IF a.kind = "" THEN a ELSE [a EXCEPT !.block = @ + 1]

\* The block in progress is stopped and the next index taken.
Leave(a) == IF a.kind = "" THEN a ELSE [WriteBlockDone(a) EXCEPT !.block = @ + 1]
StartBlock(a, kind) == [Send(a, StreamEvent("start", a.block, kind)) EXCEPT !.kind = kind]
Delta(a, kind) == Send(a, StreamEvent("delta", a.block, kind))

Thinking(a) ==
  Delta(IF a.think THEN a ELSE [StartBlock(Leave(a), "thinking") EXCEPT !.think = TRUE],
        "thinking")

\* Refuted variant: every delta of a call begins a block.
ToolCallAlways(a, index) == Delta([StartBlock(Leave(a), "tool") EXCEPT !.tool = index], "tool")

ToolCall(a, index) ==
  Delta(IF a.tool = index THEN a ELSE [StartBlock(Leave(a), "tool") EXCEPT !.tool = index],
        "tool")

Text(a) ==
  LET b == IF a.kind = "text" THEN a ELSE [Leave(a) EXCEPT !.kind = "text"]
  IN Delta(IF b.text THEN b ELSE [StartBlock(b, "text") EXCEPT !.text = TRUE], "text")

AnthropicChunk(a, chunk) ==
  LET thought == IF chunk.why THEN Thinking(a) ELSE a
      called == IF chunk.call = NoCall THEN thought ELSE ToolCall(thought, chunk.call)
  IN IF chunk.text THEN Text(called) ELSE called

AnthropicEnd(a) ==
  Send(Send(IF a.kind = "" THEN a ELSE WriteBlockDone(a),
            StreamEvent("message_delta", 0, IF a.tool = NoCall THEN "end_turn" ELSE "tool_use")),
       StreamEvent("message_stop", 0, ""))

-----------------------------------------------------------------------------
\* Responses: a reasoning item, a message item, and the calls when all is read.
OutputItem(type, n) == [type |-> type, n |-> n]
Reasoning == OutputItem("reasoning", 0)
MessageItem == OutputItem("message", 0)
CallItem(i) == OutputItem("call", i)

NoRes == [out |-> <<>>, message |-> FALSE, why |-> FALSE, calls |-> {}, final |-> <<>>]

Emit(r, e) == [r EXCEPT !.out = Append(@, e)]
TextIndex(r) == IF r.why THEN 1 ELSE 0

ResponsesReasoning(r) ==
  LET added == IF r.why THEN r ELSE Emit([r EXCEPT !.why = TRUE], StreamEvent("added", 0, Reasoning))
  IN Emit(added, StreamEvent("delta", 0, Reasoning))

\* Refuted variant: every text delta adds the message.
ResponsesTextAgain(r) ==
  Emit(Emit([r EXCEPT !.message = TRUE], StreamEvent("added", TextIndex(r), MessageItem)),
       StreamEvent("delta", TextIndex(r), MessageItem))

ResponsesText(r) ==
  LET i == TextIndex(r)
      added == IF r.message THEN r
               ELSE Emit([r EXCEPT !.message = TRUE], StreamEvent("added", i, MessageItem))
  IN Emit(added, StreamEvent("delta", i, MessageItem))

ResponsesChunk(r, chunk) ==
  LET thought == IF chunk.why THEN ResponsesReasoning(r) ELSE r
      called == IF chunk.call = NoCall THEN thought ELSE [thought EXCEPT !.calls = @ \cup {chunk.call}]
  IN IF chunk.text THEN ResponsesText(called) ELSE called

\* The calls that are written: up to the first index nobody mentioned.
Called(r) == {i \in r.calls : 0 .. i \subseteq r.calls}
ItemsOf(why, text, calls) ==
  (IF why THEN <<Reasoning>> ELSE <<>>) \o (IF text THEN <<MessageItem>> ELSE <<>>)
    \o [i \in 1 .. calls |-> CallItem(i - 1)]

\* A call is added, its arguments are one delta, and it is done.
CallEvents(r) ==
  [k \in 1 .. 3 * Cardinality(Called(r)) |->
     LET i == (k - 1) \div 3 IN
     StreamEvent(<<"added", "delta", "done">>[k - 3 * i], TextIndex(r) + 1 + i, CallItem(i))]

ResponsesEnd(r) ==
  LET done == (IF r.why THEN <<StreamEvent("done", 0, Reasoning)>> ELSE <<>>)
                \o (IF r.message THEN <<StreamEvent("done", TextIndex(r), MessageItem)>> ELSE <<>>)
  IN [r EXCEPT !.out = @ \o done \o CallEvents(r),
               !.final = ItemsOf(r.why, r.message, Cardinality(Called(r)))]

-----------------------------------------------------------------------------
(* The same answer without streaming: FromChat.                                *)

\* chatResponseToAnthropic: the kinds of the content blocks and the stop reason.
ChatResponseToAnthropic(m) ==
  [content |-> (IF m.why THEN <<"thinking">> ELSE <<>>) \o (IF m.text THEN <<"text">> ELSE <<>>)
                 \o [i \in 1 .. m.calls |-> "tool"],
   stop |-> CASE m.finish = "length" -> "max_tokens"
              [] m.finish = "tool_calls" -> "tool_use"
              [] OTHER -> "end_turn"]

\* chatResponseToResponses: the output items and the status.
ChatResponseToResponses(m) ==
  [output |-> ItemsOf(m.why, m.text, m.calls),
   status |-> IF m.finish = "length" THEN "incomplete" ELSE "completed"]

-----------------------------------------------------------------------------
ExchangeInit ==
  /\ phase = "request" /\ items = <<>> /\ chat = NoChat /\ wire = NoWire
  /\ answer = NoAnswer /\ ordered = TRUE /\ ant = NoAnt /\ res = NoRes

\* A client names a call once and answers it afterwards, once.
Named(type) == {items[k].id : k \in {j \in DOMAIN items : items[j].type = type}}
Sendable(item) ==
  /\ item.type = "function_call" => item.id \notin Named("function_call")
  /\ item.type = "output" => item.id \in Named("function_call") \ Named("output")

ReadItem(item) ==
  /\ phase = "request" /\ Len(items) < MaxItems /\ Sendable(item)
  /\ items' = Append(items, item)
  /\ chat' = AppendItem(chat, item, Len(items) + 1)
  /\ wire' = Compose(wire, item, Len(items) + 1)
  /\ UNCHANGED <<phase, answer, ordered, ant, res>>

\* The converted request goes to the target, which answers with a stream.
Forward ==
  /\ phase = "request" /\ phase' = "stream"
  /\ items' = <<>> /\ chat' = NoChat /\ wire' = NoWire
  /\ UNCHANGED <<answer, ordered, ant, res>>

ReadChunk(chunk) ==
  /\ phase = "stream" /\ Follows(chunk) /\ ant.client.deltas < MaxChunks
  /\ answer' = Answered(chunk)
  /\ ordered' = (/\ ordered
                 /\ chunk.why => ~answer.text /\ answer.calls = 0
                 /\ chunk.text => answer.calls = 0 /\ chunk.call = NoCall
                 /\ chunk.call # NoCall => answer.calls <= chunk.call + 1)
  /\ ant' = AnthropicChunk(ant, chunk) /\ res' = ResponsesChunk(res, chunk)
  /\ UNCHANGED <<phase, items, chat, wire>>

\* The upstream says why it stopped, says [DONE], or the connection ends: the
\* stream is completed in the same way.
Finish(reason) ==
  /\ phase = "stream" /\ phase' = "done"
  /\ answer' = [answer EXCEPT !.finish = reason]
  /\ ant' = AnthropicEnd(ant) /\ res' = ResponsesEnd(res)
  /\ UNCHANGED <<items, chat, wire, ordered>>

ExchangeNext == \/ \E item \in Items : ReadItem(item)
                \/ Forward
                \/ \E chunk \in Chunk : ReadChunk(chunk)
                \/ \E reason \in {"stop", "length", "tool_calls", "none"} : Finish(reason)

ExchangeSpec == ExchangeInit /\ [][ExchangeNext]_exchangeVars

-----------------------------------------------------------------------------
Messages == [role : {"assistant", "user", "tool"}, calls : Seq(Ids), id : Ids \cup {0},
             why : Seq(1 .. MaxItems)]
Chats == [msgs : Seq(Messages), why : Seq(1 .. MaxItems), calls : Seq(Ids), last : Nat]
Wires == [msgs : Seq(Messages),
          block : [role : {"none", "assistant", "user"}, calls : Seq(Ids), why : Seq(1 .. MaxItems),
                   plain : BOOLEAN, results : Seq(Messages)]]

BlockKinds == {"thinking", "text", "tool"}
Clients == [ok : BOOLEAN, open : BlockKinds \cup {""}, kinds : Seq(BlockKinds),
            stop : {"", "end_turn", "tool_use"}, deltas : Nat]
Ants == [client : Clients, block : Nat, kind : BlockKinds \cup {""}, think : BOOLEAN, text : BOOLEAN,
         tool : Indexes \cup {NoCall}]

ExchangeTypeOK ==
  /\ phase \in {"request", "stream", "done"}
  /\ items \in Seq(Items) /\ Len(items) <= MaxItems
  /\ chat \in Chats /\ chat.last <= Len(chat.msgs) /\ wire \in Wires
  /\ answer \in [why : BOOLEAN, text : BOOLEAN, calls : 0 .. MaxToolCalls,
                 finish : {"none", "stop", "length", "tool_calls"}]
  /\ ordered \in BOOLEAN
  /\ ant \in Ants /\ res.calls \subseteq Indexes

\* x has one place in the lists.
Once(lists, x) ==
  \E n \in DOMAIN lists : \E j \in DOMAIN lists[n] :
    /\ lists[n][j] = x
    /\ \A m \in DOMAIN lists : \A i \in DOMAIN lists[m] : lists[m][i] = x => m = n /\ i = j

\* The Chat messages of a request, by either converter, are ones a Chat endpoint
\* accepts as far as calls go: each call of the request is in one place, and each
\* answer to it is one message, which comes after the one that has the call.
CallsPaired(msgs) ==
  LET answers(n, id) == msgs[n].role = "tool" /\ msgs[n].id = id IN
  \A k \in DOMAIN items :
    /\ items[k].type = "function_call" => Once([n \in DOMAIN msgs |-> msgs[n].calls], items[k].id)
    /\ items[k].type = "output" =>
         \E n \in DOMAIN msgs :
           /\ answers(n, items[k].id)
           /\ \A m \in DOMAIN msgs : answers(m, items[k].id) => m = n
           /\ \E m \in 1 .. n - 1 : \E j \in DOMAIN msgs[m].calls : msgs[m].calls[j] = items[k].id

\* No reasoning is lost or sent twice: it goes back to the model with an assistant
\* message, as long as there is one (convert.go, flushReasoning).
ReasoningKept(msgs) ==
  (\E n \in DOMAIN msgs : msgs[n].role = "assistant") =>
    \A k \in DOMAIN items :
      items[k].type = "reasoning" => Once([n \in DOMAIN msgs |-> msgs[n].why], k)

Kept(msgs) == CallsPaired(msgs) /\ ReasoningKept(msgs)

\* Nothing of a request is lost or sent twice, by either converter.
RequestsSafe == ExchangeTypeOK /\ Kept(ResponsesMessages(chat)) /\ Kept(AnthropicMessages(wire))

\* An answer that goes from reasoning to text to calls is a well-formed Anthropic
\* stream at every point.
BlocksWellFormed == ordered => ant.client.ok

\* What a streaming client assembles is what the same answer converts to when it is
\* not streamed: the content blocks, the output items, and the stop reason if the
\* upstream gives one that fits its answer.
StreamEqualsResponse ==
  phase = "done" =>
    /\ ordered => ant.client.kinds = ChatResponseToAnthropic(answer).content
    /\ answer.finish = (IF answer.calls = 0 THEN "stop" ELSE "tool_calls") =>
         ant.client.stop = ChatResponseToAnthropic(answer).stop
    /\ res.final = ChatResponseToResponses(answer).output

\* Every item of the completed Responses answer was added once, done once, and all
\* its deltas lie between; its output_index is its place in the answer if there
\* is text and the answer came in order.
ItemsAddedThenDone ==
  phase = "done" => \A n \in 1 .. Len(res.final) :
    LET kind == res.final[n]
        at(ev) == {k \in 1 .. Len(res.out) : res.out[k].ev = ev /\ res.out[k].kind = kind}
    IN \E a \in at("added"), e \in at("done") :
         /\ at("added") = {a} /\ at("done") = {e}
         /\ \A d \in at("delta") : a < d /\ d < e
         /\ ordered /\ answer.text => res.out[a].index = n - 1 /\ res.out[e].index = n - 1
=============================================================================
