--------------------------- MODULE StreamDialect ---------------------------
(* What a streamed answer looks like to the client: the provider's chunks    *)
(* are parsed into the neutral events of core/ir/stream.go, the text of the  *)
(* events is restored by the warden, and the events are written in the       *)
(* client's dialect. The channels between these steps keep the order         *)
(* (StreamRelay), so that one chunk is one step here, from the parser to the *)
(* client.                                                                   *)
(*                                                                           *)
(* Providers: "openai" (streamToIR, also deepseek, grok and glm), "gemini"   *)
(* and "anthropic" (anthropicSSEToIR). Dialects: "anthropic", "openai" and   *)
(* "responses". A provider and a dialect of the same protocol meet here when *)
(* passthrough is off; "raw" for both is a passthrough stream.               *)
EXTENDS StreamResolver, FiniteSets, FiniteSetsExt

CONSTANTS
    Streams,     \* set of <<provider, dialect>> pairs a stream may have
    Wardens,     \* subset of BOOLEAN: whether the warden restores tokens
    Fragments,   \* the texts a provider may send at once
    RawReads,    \* the pieces a passthrough body may be read in
    Tools,       \* the provider's tool call indices
    MaxChunks    \* bound on the chunks of one stream, for each provider

RawPair == <<"raw", "raw">>
Converted == {"openai", "gemini", "anthropic"} \X {"anthropic", "openai", "responses"}

\* The parsers send no event for a text without a symbol, and a read that gives
\* no byte is not fed.
ASSUME StreamsAssumption == Streams \subseteq Converted \cup {RawPair}
ASSUME WardensAssumption == Wardens \subseteq BOOLEAN
ASSUME TextsAssumption ==
    \A text \in Fragments \cup RawReads : text \in Seq(Symbols) /\ text # <<>>
ASSUME ToolsAssumption == Tools \subseteq Nat

VARIABLES
    provider, dialect, warden,
    sent,        \* what the provider has sent so far, a sequence of chunks
    parser,      \* the parser's bookkeeping
    held,        \* the warden's hold-back buffer
    writer,      \* the dialect writer's bookkeeping
    client,      \* what the client has received, a sequence of messages
    ended        \* the parser and the writer have returned

vars == <<provider, dialect, warden, sent, parser, held, writer, client, ended>>

None == -1

-----------------------------------------------------------------------------
(* Events. A signature is a reasoning delta without text, never rewritten,   *)
(* so it has a kind of its own here.                                         *)
Event(kind, index, data) == [kind |-> kind, index |-> index, data |-> data]
Start(index, type) == Event("content_block_start", index, type)
End(index) == Event("content_block_end", index, "")

\* A chunk of the provider. tool names the call a piece of a tool call is of;
\* data is a text, the number of a piece of arguments, a reason or a count.
Chunk(kind, tool, data) == [kind |-> kind, tool |-> tool, data |-> data]

-----------------------------------------------------------------------------
(* The parsers: new bookkeeping and the events a chunk turns into.           *)

\* block: blockIndex; text: textBlockOpen; tools: the provider's tool indices
\* with their blocks, in the order they appeared.
InitParser == [block |-> None, text |-> FALSE, tools |-> <<>>,
               reason |-> "", usage |-> 0]

\* The text part shared by streamToIR and the Gemini parser.
ParseText(p, text) ==
    IF p.text
    THEN [parser |-> p, events |-> <<Event("text_delta", p.block, text)>>]
    ELSE LET b == p.block + 1
         IN  [parser |-> [p EXCEPT !.block = b, !.text = TRUE],
              events |-> <<Start(b, "text"), Event("text_delta", b, text)>>]

\* Mutant: the text block is left open.
TextLeftOpen(p) == <<>>

\* Closing the open text block before a tool call's block.
CloseText(p) == IF p.text THEN <<End(p.block)>> ELSE <<>>

\* Mutant: arguments go to the block opened last.
ParseOpenAIToolInTurn(p, tool, args) ==
    LET known == \E i \in DOMAIN p.tools : p.tools[i].tool = tool
        q == IF known THEN p
             ELSE [p EXCEPT !.block = @ + 1, !.text = FALSE,
                            !.tools = Append(@, [tool |-> tool, block |-> p.block + 1])]
        opening == IF known THEN <<>>
                   ELSE CloseText(p) \o <<Event("tool_call_start", q.block, tool)>>
        delta == IF args = None THEN <<>> ELSE <<Event("tool_call_delta", q.block, args)>>
    IN  [parser |-> q, events |-> opening \o delta]

\* streamToIR: the first piece of a tool call opens its block; its arguments
\* go to that block, which stays open until the stream ends.
ParseOpenAITool(p, tool, args) ==
    LET known == \E i \in DOMAIN p.tools : p.tools[i].tool = tool
        q == IF known THEN p
             ELSE [p EXCEPT !.block = @ + 1, !.text = FALSE,
                            !.tools = Append(@, [tool |-> tool, block |-> p.block + 1])]
        at == CHOOSE i \in DOMAIN q.tools : q.tools[i].tool = tool
        opening == IF known THEN <<>>
                   ELSE CloseText(p) \o <<Event("tool_call_start", q.block, tool)>>
        delta == IF args = None THEN <<>>
                 ELSE <<Event("tool_call_delta", q.tools[at].block, args)>>
    IN  [parser |-> q, events |-> opening \o delta]

\* The Gemini parser: a function call comes whole and its block is closed.
ParseGeminiTool(p, tool, args) ==
    LET b == p.block + 1
    IN  [parser |-> [p EXCEPT !.block = b, !.text = FALSE,
                              !.tools = Append(@, [tool |-> tool, block |-> b])],
         events |-> CloseText(p)
                    \o <<Event("tool_call_start", b, tool),
                         Event("tool_call_delta", b, args), End(b)>>]

\* A finish reason and a usage count are kept for the tail. Gemini keeps a
\* count only when it is positive.
ParseFinish(p, reason) == [parser |-> [p EXCEPT !.reason = reason], events |-> <<>>]
ParseUsage(p, count) ==
    [parser |-> IF provider = "gemini" /\ count = 0 THEN p
                ELSE [p EXCEPT !.usage = count],
     events |-> <<>>]

\* Mutant: the reason the provider gave is passed on as it is.
ReasonAsGiven(p) == IF p.reason = "" THEN "stop" ELSE p.reason

\* mapOAIFinishReason and the end of the Gemini parser.
StopReason(p) ==
    IF p.tools # <<>> \/ p.reason = "tool_use" THEN "tool_use"
    ELSE IF p.reason = "" THEN "stop" ELSE p.reason

\* The tail of the OpenAI and Gemini parsers: open blocks are closed, a stream
\* without a block gets an empty one, then finish, usage and end.
ParserTail(p) ==
    CloseText(p)
    \o (IF provider = "openai"
        THEN [i \in DOMAIN p.tools |-> End(p.tools[i].block)] ELSE <<>>)
    \o (IF p.block = None THEN <<Start(0, "text"), End(0)>> ELSE <<>>)
    \o <<Event("finish", None, StopReason(p)), Event("usage", None, p.usage),
         Event("stream_end", None, "")>>

\* anthropicSSEToIR: one event for each message of the provider, at the index
\* the provider gave its block; the closing message_delta gives two.
ParseAnthropic(p, c) ==
    LET b == p.block + 1
        opening(ev) == [parser |-> [p EXCEPT !.block = b], events |-> <<ev>>]
        keeping(evs) == [parser |-> p, events |-> evs]
    IN  CASE c.kind = "block_start" /\ c.data = "thinking" -> opening(Start(b, "reasoning"))
          [] c.kind = "block_start" /\ c.data = "text" -> opening(Start(b, "text"))
          [] c.kind = "tool_start" -> opening(Event("tool_call_start", b, c.tool))
          [] c.kind = "text"       -> keeping(<<Event("text_delta", p.block, c.data)>>)
          [] c.kind = "thinking"   -> keeping(<<Event("reasoning_delta", p.block, c.data)>>)
          [] c.kind = "signature"  -> keeping(<<Event("signature_delta", p.block, "")>>)
          [] c.kind = "args"       -> keeping(<<Event("tool_call_delta", p.block, c.data)>>)
          [] c.kind = "block_stop" -> keeping(<<End(p.block)>>)
          [] c.kind = "message_delta" ->
                keeping(<<Event("finish", None, c.data.reason),
                          Event("usage", None, c.data.usage)>>)
          [] c.kind = "message_stop" -> keeping(<<Event("stream_end", None, "")>>)
          [] OTHER -> keeping(<<>>)

-----------------------------------------------------------------------------
(* The dialect writers: new bookkeeping and the messages an event turns into. *)
(* slot is what the client tells blocks apart by: the content block index,   *)
(* the index in tool_calls, or output_index.                                 *)
Message(type, slot, what, data) ==
    [type |-> type, slot |-> slot, what |-> what, data |-> data]
Told(reason, usage) == [reason |-> reason, usage |-> usage]

\* AnthropicConverter.StreamFromIR. Finish and usage wait for the end.
InitAnthropic == [reason |-> "", usage |-> 0]
AnthropicMessages(w, ev) ==
    CASE ev.kind = "stream_start" ->
            <<Message("message_start", None, "", ""), Message("ping", None, "", "")>>
      [] ev.kind = "content_block_start" ->
            <<Message("content_block_start", ev.index, ev.data, "")>>
      [] ev.kind = "tool_call_start" ->
            <<Message("content_block_start", ev.index, "tool_use", ev.data)>>
      [] ev.kind = "text_delta" ->
            <<Message("content_block_delta", ev.index, "text", ev.data)>>
      [] ev.kind = "reasoning_delta" ->
            <<Message("content_block_delta", ev.index, "reasoning", ev.data)>>
      [] ev.kind = "signature_delta" ->
            <<Message("content_block_delta", ev.index, "signature", "")>>
      [] ev.kind = "tool_call_delta" ->
            <<Message("content_block_delta", ev.index, "tool_use", ev.data)>>
      [] ev.kind = "content_block_end" ->
            <<Message("content_block_stop", ev.index, "", "")>>
      [] ev.kind = "stream_end" ->
            <<Message("message_delta", None, "", Told(w.reason, w.usage)),
              Message("message_stop", None, "", "")>>
      [] OTHER -> <<>>
WriteAnthropic(w, ev) ==
    [writer |-> CASE ev.kind = "finish" ->
                        \* irToAnthropicStopReason has no content filter
                        [w EXCEPT !.reason = IF ev.data = "content_filter"
                                             THEN "stop" ELSE ev.data]
                  [] ev.kind = "usage" -> [w EXCEPT !.usage = ev.data]
                  [] OTHER -> w,
     messages |-> AnthropicMessages(w, ev)]

\* StreamIRToOAI. byBlock: toolCallByBlock; its size is nextToolIdx. Reasoning
\* and block boundaries have no chunk; a usage of zero is not sent.
InitOpenAI == [byBlock |-> <<>>]
OpenAIMessages(w, ev) ==
    CASE ev.kind = "tool_call_start" ->
            <<Message("chunk", Cardinality(DOMAIN w.byBlock), "tool_use", ev.data)>>
      [] ev.kind = "tool_call_delta" /\ ev.index \in DOMAIN w.byBlock ->
            <<Message("arguments", w.byBlock[ev.index], "tool_use", ev.data)>>
      [] ev.kind = "text_delta" -> <<Message("content", None, "text", ev.data)>>
      [] ev.kind = "finish" ->
            <<Message("finish", None, "",
                      IF ev.data = "content_filter" THEN "stop" ELSE ev.data)>>
      [] ev.kind = "usage" /\ ev.data > 0 -> <<Message("usage", None, "", ev.data)>>
      [] ev.kind = "stream_end" -> <<Message("[DONE]", None, "", "")>>
      [] OTHER -> <<>>
WriteOpenAI(w, ev) ==
    [writer |-> IF ev.kind = "tool_call_start"
                THEN [byBlock |-> [b \in DOMAIN w.byBlock \cup {ev.index} |->
                                      IF b = ev.index THEN Cardinality(DOMAIN w.byBlock)
                                      ELSE w.byBlock[b]]]
                ELSE w,
     messages |-> OpenAIMessages(w, ev)]

\* ResponsesAdapter.translateEvent. cur: the one block state, None for nil;
\* index: outputIndex, which moves when a block is done.
InitResponses == [cur |-> <<>>, index |-> 0, usage |-> 0]
Block(w, type, tool) == <<[slot |-> w.index, type |-> type, tool |-> tool, text |-> <<>>]>>
WriteResponses(w, ev) ==
    LET open == w.cur # <<>>
        cur == w.cur[1]
        says(w2, ms) == [writer |-> w2, messages |-> ms]
        adding(text) == [w EXCEPT !.cur = <<[cur EXCEPT !.text = @ \o text]>>]
    IN  CASE ev.kind = "content_block_start" ->
                says([w EXCEPT !.cur = Block(w, ev.data, "")],
                     <<Message("output_item.added", w.index, ev.data, "")>>)
          [] ev.kind = "tool_call_start" ->
                says([w EXCEPT !.cur = Block(w, "tool_use", ev.data)],
                     <<Message("output_item.added", w.index, "tool_use", ev.data)>>)
          [] ev.kind = "text_delta" /\ open /\ ev.data # <<>> ->
                says(adding(ev.data), <<Message("output_text.delta", cur.slot, "text", ev.data)>>)
          [] ev.kind = "reasoning_delta" /\ open /\ ev.data # <<>> ->
                says(adding(ev.data),
                     <<Message("reasoning_summary_text.delta", cur.slot, "reasoning", ev.data)>>)
          [] ev.kind = "tool_call_delta" /\ open ->
                says(w, <<Message("function_call_arguments.delta", cur.slot, "tool_use", ev.data)>>)
          [] ev.kind = "content_block_end" /\ open ->
                says([w EXCEPT !.cur = <<>>, !.index = @ + 1],
                     <<Message("output_item.done", cur.slot, cur.type,
                               IF cur.type = "tool_use" THEN cur.tool ELSE cur.text)>>)
          [] ev.kind = "usage" -> says([w EXCEPT !.usage = ev.data], <<>>)
          [] ev.kind = "stream_end" ->
                says(w, <<Message("response.completed", None, "", Told("", w.usage))>>)
          [] OTHER -> says(w, <<>>)

InitWriter(d) == CASE d = "anthropic" -> InitAnthropic
                   [] d = "openai"    -> InitOpenAI
                   [] d = "responses" -> InitResponses
                   [] d = "raw"       -> <<>>
Write(w, ev) == CASE dialect = "anthropic" -> WriteAnthropic(w, ev)
                  [] dialect = "openai"    -> WriteOpenAI(w, ev)
                  [] dialect = "responses" -> WriteResponses(w, ev)

\* What the OpenAI and Responses adapters write before the first event.
Prelude(d) == CASE d = "openai"    -> <<Message("role", None, "", "")>>
                [] d = "responses" -> <<Message("response.created", None, "", "")>>
                [] d = "raw"       -> <<Message("header", None, "", "")>>
                [] d = "anthropic" -> <<>>

-----------------------------------------------------------------------------
\* ResolveEvents on one event: text that is not empty goes through the
\* resolver, a signature does not.
Restore(buf, ev) ==
    IF warden /\ ev.kind \in {"text_delta", "reasoning_delta"} /\ ev.data # <<>>
    THEN LET fed == Feed(buf, ev.data)
         IN  [event |-> [ev EXCEPT !.data = fed.out], held |-> fed.held]
    ELSE [event |-> ev, held |-> buf]

\* One event on its way from the parser to the client.
Pass(acc, ev) ==
    LET restored == Restore(acc.held, ev)
        written == Write(acc.writer, restored.event)
    IN  [held |-> restored.held, writer |-> written.writer,
         client |-> acc.client \o written.messages]

\* The events on their way one after the other.
PassAll(start, events) ==
    LET after[i \in 0..Len(events)] ==
            IF i = 0 THEN start ELSE Pass(after[i - 1], events[i])
    IN  after[Len(events)]

Pending == [held |-> held, writer |-> writer, client |-> client]

Deliver(events) ==
    \E after \in {PassAll(Pending, events)} :
        /\ held' = after.held
        /\ writer' = after.writer
        /\ client' = after.client

\* A chunk arrives: parsed, its events delivered.
Take(chunk, parsed) ==
    /\ sent' = Append(sent, chunk)
    /\ parser' = parsed.parser
    /\ Deliver(parsed.events)
    /\ UNCHANGED <<provider, dialect, warden, ended>>

Streaming == ~ended /\ client # <<>>
Room == Streaming /\ Len(sent) < MaxChunks[provider]
NextPiece == Len(sent) + 1   \* names the piece of arguments sent next

-----------------------------------------------------------------------------
Init ==
    /\ \E pair \in Streams : provider = pair[1] /\ dialect = pair[2]
    /\ warden \in Wardens
    /\ sent = <<>>
    /\ parser = InitParser
    /\ held = <<>>
    /\ writer = InitWriter(dialect)
    /\ client = <<>>
    /\ ended = FALSE

\* The stream is opened: the writer's first messages and the stream start,
\* which for an Anthropic provider is its message_start.
Open ==
    /\ client = <<>> /\ ~ended
    /\ LET first == IF provider = "raw" THEN <<>>
                    ELSE <<Event("stream_start", None, "")>>
       IN  \E after \in {PassAll([Pending EXCEPT !.client = Prelude(dialect)], first)} :
               client' = after.client /\ writer' = after.writer /\ held' = after.held
    /\ UNCHANGED <<provider, dialect, warden, sent, parser, ended>>

\* OpenAI and Gemini chunks: text, a tool call, a finish reason, a usage count.
SendText ==
    /\ Room /\ provider \in {"openai", "gemini"}
    /\ \E f \in Fragments : Take(Chunk("text", None, f), ParseText(parser, f))

SendToolPiece ==
    /\ Room /\ provider = "openai"
    /\ \E t \in Tools, args \in {None, NextPiece} :
           Take(Chunk("tool", t, args), ParseOpenAITool(parser, t, args))

SendFunctionCall ==
    /\ Room /\ provider = "gemini"
    /\ Take(Chunk("tool", NextPiece, NextPiece), ParseGeminiTool(parser, NextPiece, NextPiece))

SendFinish ==
    /\ Room /\ provider \in {"openai", "gemini"}
    /\ \E reason \in {"stop", "tool_use", "content_filter"} :
           Take(Chunk("finish", None, reason), ParseFinish(parser, reason))

SendUsage ==
    /\ Room /\ provider \in {"openai", "gemini"}
    /\ \E count \in 0..1 : Take(Chunk("usage", None, count), ParseUsage(parser, count))

\* The body ends, or breaks: the parser sends its tail either way.
EndOfBody ==
    /\ Streaming /\ provider \in {"openai", "gemini"}
    /\ Deliver(ParserTail(parser))
    /\ ended' = TRUE
    /\ UNCHANGED <<provider, dialect, warden, sent, parser>>

\* An Anthropic provider keeps its own protocol: it opens a block, sends the
\* deltas of that block and closes it before the next one, then the closing
\* message_delta and message_stop. lastKind is what it sent last.
LastKind == IF sent = <<>> THEN "message_start" ELSE sent[Len(sent)].kind
BlockStarts == {i \in DOMAIN sent : sent[i].kind \in {"block_start", "tool_start"}}
LastStart == sent[Max(BlockStarts)]
OpenBlock ==
    IF BlockStarts = {} \/ LastKind \in {"block_stop", "message_delta", "message_stop"}
    THEN "none"
    ELSE IF LastStart.kind = "tool_start" THEN "tool_use" ELSE LastStart.data

AnthropicChunks ==
    CASE LastKind = "message_delta" -> {Chunk("message_stop", None, "")}
      [] OpenBlock = "none" /\ LastKind # "message_delta" ->
            {Chunk("block_start", None, t) : t \in {"text", "thinking"}}
            \cup {Chunk("tool_start", NextPiece, "")}
            \cup {Chunk("message_delta", None, Told(r, 1)) : r \in {"stop", "tool_use"}}
      [] OpenBlock = "text" ->
            {Chunk("text", None, f) : f \in Fragments} \cup {Chunk("block_stop", None, "")}
      [] OpenBlock = "thinking" ->
            {Chunk("thinking", None, f) : f \in Fragments}
            \cup {Chunk("signature", None, ""), Chunk("block_stop", None, "")}
      [] OpenBlock = "tool_use" ->
            {Chunk("args", LastStart.tool, NextPiece), Chunk("block_stop", None, "")}

SendMessage ==
    /\ Room /\ provider = "anthropic" /\ LastKind # "message_stop"
    /\ \E c \in AnthropicChunks : Take(c, ParseAnthropic(parser, c))

\* The provider's body ends, after message_stop or too early.
Cut ==
    /\ Streaming /\ provider = "anthropic"
    /\ ended' = TRUE
    /\ UNCHANGED <<provider, dialect, warden, sent, parser, held, writer, client>>

\* A passthrough body: ResolvingReader feeds what it reads and flushes at the
\* end; without the warden the bytes pass as they are.
Shown(text) == IF text = <<>> THEN <<>> ELSE <<Message("bytes", None, "text", text)>>

ReadRaw ==
    /\ Room /\ provider = "raw"
    /\ \E bytes \in RawReads :
        /\ LET before == IF sent = <<>> THEN <<"">> ELSE sent[Len(sent)].data
           IN  (before[Len(before)] = "lead") <=> (Head(bytes) \in {"open", "close"})
        /\ LET fed == IF warden THEN Feed(held, bytes) ELSE [out |-> bytes, held |-> held]
           IN  held' = fed.held /\ client' = client \o Shown(fed.out)
        /\ sent' = Append(sent, Chunk("text", None, bytes))
    /\ UNCHANGED <<provider, dialect, warden, parser, writer, ended>>

EndOfRaw ==
    /\ Streaming /\ provider = "raw"
    /\ client' = client \o Shown(Flush(held).out)
    /\ held' = Flush(held).held
    /\ ended' = TRUE
    /\ UNCHANGED <<provider, dialect, warden, sent, parser, writer>>

Next ==
    \/ Open \/ SendText \/ SendToolPiece \/ SendFunctionCall \/ SendFinish \/ SendUsage
    \/ EndOfBody \/ SendMessage \/ Cut \/ ReadRaw \/ EndOfRaw

Spec == Init /\ [][Next]_vars

-----------------------------------------------------------------------------
(* Reading both sides: the elements of a sequence at some of its places, in   *)
(* order, and the text of those elements.                                    *)
At(s, places) ==
    LET upTo[i \in 0..Len(s)] ==
            IF i = 0 THEN <<>>
            ELSE IF i \in places THEN Append(upTo[i - 1], s[i]) ELSE upTo[i - 1]
    IN  upTo[Len(s)]
TextAt(s, places) ==
    LET upTo[i \in 0..Len(s)] ==
            IF i = 0 THEN <<>>
            ELSE IF i \in places THEN upTo[i - 1] \o s[i].data ELSE upTo[i - 1]
    IN  upTo[Len(s)]
Data(s) == [i \in DOMAIN s |-> s[i].data]

(* The client's side. *)
Opens(m) == m.type \in {"content_block_start", "output_item.added", "chunk"}
Closes(m) == m.type \in {"content_block_stop", "output_item.done"}
Deltas(m) == m.type \in {"content_block_delta", "arguments", "output_text.delta",
                         "reasoning_summary_text.delta", "function_call_arguments.delta"}
Finals(m) == m.type \in {"message_delta", "finish", "response.completed"}
ToolMessage(m) == m.what = "tool_use"
TextMessage(m) == m.what \in {"text", "reasoning"} /\ (Deltas(m) \/ m.type \in {"content", "bytes"})
MessagesOf(type) == {i \in DOMAIN client : client[i].type = type}
Completed == \E i \in DOMAIN client :
    client[i].type \in {"message_stop", "[DONE]", "response.completed"}
ToolStarts == {i \in DOMAIN client : Opens(client[i]) /\ ToolMessage(client[i])}
ArgumentsAt(slot) == {i \in DOMAIN client : /\ Deltas(client[i]) /\ ToolMessage(client[i])
                                            /\ client[i].slot = slot}
ShownText == TextAt(client, {i \in DOMAIN client : TextMessage(client[i])})

(* The provider's side. *)
SentText == TextAt(sent, {i \in DOMAIN sent : sent[i].kind \in {"text", "thinking"}})
CallPieces == {i \in DOMAIN sent : sent[i].kind \in {"tool", "tool_start"}}
FirstPieces == {i \in CallPieces : \A j \in CallPieces : j < i => sent[j].tool # sent[i].tool}
SentTools == LET pieces == At(sent, FirstPieces) IN [i \in DOMAIN pieces |-> pieces[i].tool]
SentArguments(tool) == {i \in DOMAIN sent : /\ sent[i].kind \in {"tool", "args"}
                                            /\ sent[i].tool = tool /\ sent[i].data # None}
LastSent(places, default) == IF places = {} THEN default ELSE sent[Max(places)].data

\* streamToIR leaves tool blocks open, and the Responses writer follows one
\* block at a time: with these two the blocks overlap, and the first of two
\* parallel calls is never done.
OneBlockAtATime == dialect # "responses" \/ provider # "openai"

\* The messages before the i-th that open a block, and whether such a block is
\* still open when the i-th message comes.
Earlier(c, i) == {j \in 1..(i - 1) : Opens(c[j])}
OpenBefore(c, j, i) ==
    \A k \in (j + 1)..(i - 1) : ~(Closes(c[k]) /\ c[k].slot = c[j].slot)
OfBlock(m, start) == m.what = start.what \/ (m.what = "signature" /\ start.what = "reasoning")

-----------------------------------------------------------------------------
\* No client ever sees a broken frame: blocks are numbered in order, a delta
\* or a stop belongs to a block of its kind that is open, and the closing
\* message comes when every block has been closed, of which the converting
\* parsers always give at least one (streamToIR and the Gemini parser, with
\* StreamFromIR, StreamIRToOAI and translateEvent behind them).
ClientFramed ==
    OneBlockAtATime =>
    \A i \in DOMAIN client :
        LET m == client[i]
            earlier == Earlier(client, i)
            open == {j \in earlier : OpenBefore(client, j, i)}
        IN  /\ Opens(m) => m.slot = Cardinality(earlier)
            /\ Deltas(m) => \E j \in open : client[j].slot = m.slot /\ OfBlock(m, client[j])
            /\ Closes(m) => \E j \in open : client[j].slot = m.slot
            /\ Finals(m) /\ dialect # "openai" =>
                  /\ open = {}
                  /\ provider \in {"openai", "gemini"} => earlier # {}

\* Every tool call of the provider reaches the client once, in the provider's
\* order, and the pieces of its arguments reach that call and no other, however
\* the provider interleaves the calls (toolBlocks in streamToIR and
\* toolCallByBlock in StreamIRToOAI translate indices twice).
ToolCallsIntact ==
    OneBlockAtATime =>
    /\ Data(At(client, ToolStarts)) = SentTools
    /\ \A i \in ToolStarts : Data(At(client, ArgumentsAt(client[i].slot)))
                               = Data(At(sent, SentArguments(client[i].data)))

\* However the provider cuts its text, the client's text is the text of a
\* vault that saw it whole, up to what is still held back; a passthrough
\* stream that has ended holds nothing back, and no more than a token's length
\* is ever held (MaxTokenBytes in stream.go). Reasoning shares the buffer with
\* the text, so the OpenAI dialect, which drops it, is asked without it.
TextRestored ==
    (dialect = "openai" => \A i \in DOMAIN sent : sent[i].kind # "thinking") =>
    /\ ShownText \o (IF warden THEN Resolve(held) ELSE <<>>)
          = (IF warden THEN Resolve(SentText) ELSE SentText)
    /\ dialect = "raw" /\ ended => held = <<>>
    /\ Len(held) <= MaxTokenBytes

\* A completed answer of a converting parser tells the client to act on tool
\* calls exactly when it handed it one or the provider said so, and its usage
\* is the provider's last count (for Gemini the last that was not zero); it
\* closes once.
ClosingTold ==
    Completed /\ provider \in {"openai", "gemini"} =>
    LET reason == LastSent({i \in DOMAIN sent : sent[i].kind = "finish"}, "stop")
        usage == LastSent({i \in DOMAIN sent : /\ sent[i].kind = "usage"
                                               /\ provider = "gemini" => sent[i].data > 0}, 0)
        acts == CallPieces # {} \/ reason = "tool_use"
    IN  CASE dialect = "anthropic" ->
                \E i \in DOMAIN client :
                    /\ MessagesOf("message_delta") = {i}
                    /\ client[i].data.usage = usage
                    /\ (client[i].data.reason = "tool_use") = acts
          [] dialect = "openai" ->
                /\ \E i \in DOMAIN client :
                       MessagesOf("finish") = {i} /\ (client[i].data = "tool_use") = acts
                /\ (usage > 0) = (MessagesOf("usage") # {})
                /\ \A i \in MessagesOf("usage") : client[i].data = usage
          [] dialect = "responses" ->
                \E i \in DOMAIN client :
                    MessagesOf("response.completed") = {i} /\ client[i].data.usage = usage

=============================================================================
