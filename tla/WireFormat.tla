----------------------------- MODULE WireFormat -----------------------------
(* A conversation in its several forms: the body a client writes in its      *)
(* dialect, the neutral form of core/ir, the body a provider is sent, the    *)
(* provider's answer and the answer as the client keeps it. Each conversion  *)
(* is the function the code applies.                                         *)
(*                                                                           *)
(* A text is a sequence of words; what a tool is asked and what it returns   *)
(* are texts too. Every form is a system text with a sequence of messages: a *)
(* message has a role and parts. In the Responses dialect the messages are   *)
(* the input items. Images, is_error, tool declarations, sampling parameters *)
(* and the separators put between joined texts are left out. What a stream   *)
(* adds to the conversion of an answer is the subject of StreamDialect.      *)
EXTENDS Integers, SequencesExt

NoId == 0
NoSignature == 0
Bypass == -1     \* the sentinel that Gemini's validator accepts for a signature

\* kind: "text", "call", "result", "reasoning"; on an Anthropic wire a
\* reasoning part is "thinking" or "redacted_thinking".
Part(kind, text, id, name, sig) ==
    [kind |-> kind, text |-> text, id |-> id, name |-> name, sig |-> sig]
Text(text) == Part("text", text, NoId, "", NoSignature)
Call(id, name, args) == Part("call", args, id, name, NoSignature)
Result(id, text) == Part("result", text, id, "", NoSignature)
Reasoning(text, sig) == Part("reasoning", text, NoId, "", sig)

Message(role, parts) == [role |-> role, parts |-> parts]
Body(system, messages) == [system |-> system, messages |-> messages]

\* The elements of a sequence at some of its places, in order.
At(seq, places) ==
    FlattenSeq([i \in DOMAIN seq |-> IF i \in places THEN <<seq[i]>> ELSE <<>>])

OfKind(parts, kind) == At(parts, {i \in DOMAIN parts : parts[i].kind = kind})
AllParts(messages) == FlattenSeq([i \in DOMAIN messages |-> messages[i].parts])
Texts(parts) == FlattenSeq([i \in DOMAIN parts |-> parts[i].text])
Joined(parts) == Texts(OfKind(parts, "text"))
TextIfAny(text) == IF text = <<>> THEN <<>> ELSE <<Text(text)>>

\* The texts of the messages of a role, and the messages of the others.
TextOfRole(messages, role) ==
    FlattenSeq([i \in DOMAIN messages |->
                   IF messages[i].role = role THEN Joined(messages[i].parts) ELSE <<>>])
WithoutRole(messages, role) ==
    At(messages, {i \in DOMAIN messages : messages[i].role # role})

\* A part with another text.
Retold(p, text) == [p EXCEPT !.text = text]

EachPart(messages, Convert(_)) ==
    [i \in DOMAIN messages |->
        Message(messages[i].role,
                [j \in DOMAIN messages[i].parts |-> Convert(messages[i].parts[j])])]

-----------------------------------------------------------------------------
(* The Anthropic dialect and provider: one block for each part.              *)

PartFromAnthropic(p) ==
    CASE p.kind = "thinking" -> Reasoning(p.text, p.sig)
      [] p.kind = "redacted_thinking" -> Reasoning(<<>>, p.sig)
      [] OTHER -> p

\* reasoningBlockFromIR
PartToAnthropic(p) ==
    IF p.kind # "reasoning" THEN p
    ELSE IF p.text # <<>> THEN [p EXCEPT !.kind = "thinking"]
    ELSE [p EXCEPT !.kind = "redacted_thinking"]

\* NormalizeSystem: system messages are taken out of the conversation and are
\* the system text, unless there is one already.
NormalizeSystem(body) ==
    Body(IF body.system # <<>> THEN body.system ELSE TextOfRole(body.messages, "system"),
         WithoutRole(body.messages, "system"))

FromAnthropic(body) ==
    LET b == NormalizeSystem(body)
    IN  Body(b.system, EachPart(b.messages, PartFromAnthropic))

ToAnthropic(ir) == Body(ir.system, EachPart(ir.messages, PartToAnthropic))

AnswerFromAnthropic(blocks) == [i \in DOMAIN blocks |-> PartFromAnthropic(blocks[i])]

\* ResponseFromIR, as the client keeps it in its history.
AnswerToAnthropic(blocks) ==
    <<Message("assistant", [i \in DOMAIN blocks |-> PartToAnthropic(blocks[i])])>>

-----------------------------------------------------------------------------
(* The OpenAI dialect and provider: the system text is the first message, a  *)
(* tool's result is a message of its own, and there is no reasoning.         *)

\* A user message made of the results of consecutive tool messages.
HoldsResults(m) == m.role = "user" /\ m.parts # <<>> /\ OfKind(m.parts, "result") = m.parts

\* One step of oaiMessagesToAnthropic.
AppendOpenAI(messages, m) ==
    CASE m.role = "tool" ->
            IF messages # <<>> /\ HoldsResults(Last(messages))
            THEN Front(messages)
                 \o <<Message("user", Last(messages).parts \o m.parts)>>
            ELSE Append(messages, Message("user", m.parts))
      [] m.role = "user" ->
            Append(messages, IF m.parts = <<>> THEN Message("user", <<Text(<<>>)>>) ELSE m)
      [] m.role = "assistant" ->
            LET calls == OfKind(m.parts, "call")
                text == Joined(m.parts)
            IN  Append(messages,
                       Message("assistant", IF calls = <<>> THEN <<Text(text)>>
                                            ELSE TextIfAny(text) \o calls))
      [] OTHER -> messages

FromOpenAI(body) ==
    LET others == WithoutRole(body.messages, "system")
        messages[i \in 0..Len(others)] ==
            IF i = 0 THEN <<>> ELSE AppendOpenAI(messages[i - 1], others[i])
    IN  Body(TextOfRole(body.messages, "system"), messages[Len(others)])

\* One message of convertIRMessagesToOAI: the results of a user message come
\* before its text.
MessageToOpenAI(m) ==
    LET text == Joined(m.parts)
        results == OfKind(m.parts, "result")
    IN  IF m.role = "assistant"
        THEN <<Message("assistant", TextIfAny(text) \o OfKind(m.parts, "call"))>>
        ELSE [i \in DOMAIN results |-> Message("tool", <<results[i]>>)]
             \o IF OfKind(m.parts, "text") = <<>> THEN <<>>
                ELSE <<Message("user", <<Text(text)>>)>>

ToOpenAI(ir) ==
    Body(<<>>,
         (IF ir.system = <<>> THEN <<>> ELSE <<Message("system", <<Text(ir.system)>>)>>)
         \o FlattenSeq([i \in DOMAIN ir.messages |-> MessageToOpenAI(ir.messages[i])]))

\* responseToIR
AnswerFromOpenAI(blocks) == TextIfAny(Joined(blocks)) \o OfKind(blocks, "call")

\* IRResponseToOAIBody
AnswerToOpenAI(blocks) ==
    <<Message("assistant", TextIfAny(Joined(blocks)) \o OfKind(blocks, "call"))>>

-----------------------------------------------------------------------------
(* The Responses dialect, which no provider speaks. An item is a message, a  *)
(* "function_call", a "function_call_output" or a "reasoning" item. Since no *)
(* answer of the proxy carries encrypted reasoning, no item does.            *)

\* appendOrMerge: an item joins the last message if that has its role.
Merge(messages, role, part) ==
    IF messages # <<>> /\ Last(messages).role = role
    THEN Front(messages) \o <<Message(role, Append(Last(messages).parts, part))>>
    ELSE Append(messages, Message(role, <<part>>))

\* One step of convertInputItems.
AppendItem(messages, item) ==
    CASE item.role = "function_call" -> Merge(messages, "assistant", item.parts[1])
      [] item.role = "function_call_output" -> Merge(messages, "user", item.parts[1])
      [] item.role = "reasoning" ->
            IF Texts(item.parts) = <<>> THEN messages
            ELSE Merge(messages, "assistant", Reasoning(Texts(item.parts), NoSignature))
      [] OTHER -> Append(messages, IF item.parts = <<>> THEN Message(item.role, <<Text(<<>>)>>)
                                   ELSE item)

\* Decode: the instructions win over the text of developer messages.
FromResponses(body) ==
    LET developer == TextOfRole(body.messages, "developer")
        items == WithoutRole(body.messages, "developer")
        messages[i \in 0..Len(items)] ==
            IF i = 0 THEN <<>> ELSE AppendItem(messages[i - 1], items[i])
    IN  NormalizeSystem(Body(IF body.system = <<>> THEN developer ELSE body.system,
                             messages[Len(items)]))

\* A part of a message becomes an item of its own unless it is text.
ItemOf(role, p) ==
    CASE p.kind = "call" -> Message("function_call", <<p>>)
      [] p.kind = "result" -> Message("function_call_output", <<p>>)
      [] p.kind = "reasoning" -> Message("reasoning", TextIfAny(p.text))
      [] OTHER -> Message(role, <<p>>)

\* Texts that follow each other stay in one item.
AddItem(items, role, p) ==
    IF p.kind = "text" /\ items # <<>> /\ Last(items).role = role
    THEN Front(items) \o <<Message(role, Append(Last(items).parts, p))>>
    ELSE Append(items, ItemOf(role, p))

\* messagesToInputItems
ItemsOf(m) ==
    LET items[i \in 0..Len(m.parts)] ==
            IF i = 0 THEN <<>> ELSE AddItem(items[i - 1], m.role, m.parts[i])
    IN  items[Len(m.parts)]

ToResponses(ir) ==
    Body(ir.system,
         FlattenSeq([i \in DOMAIN ir.messages |-> ItemsOf(ir.messages[i])]))

\* WriteResponse: the reasoning items, and one message whose text is joined;
\* tool calls are not written. A stream has one item for each block.
AnswerToResponses(blocks, stream) ==
    IF stream THEN [i \in DOMAIN blocks |-> ItemOf("assistant", blocks[i])]
    ELSE LET reasoning == OfKind(blocks, "reasoning")
         IN  Append([i \in DOMAIN reasoning |-> ItemOf("assistant", reasoning[i])],
                    Message("assistant", <<Text(Joined(blocks))>>))

-----------------------------------------------------------------------------
(* The Gemini provider: a result is matched to its call by name, calls have  *)
(* no id, and each call carries the signature Gemini gave it.                *)

\* resolveFunctionNameIR: the name of the first call with the id.
FunctionName(messages, id) ==
    LET calls == OfKind(AllParts(messages), "call")
        own == At(calls, {i \in DOMAIN calls : calls[i].id = id})
    IN  IF own = <<>> THEN "unresolved" ELSE own[1].name

\* convertIRParts; sigs maps the ids of the calls with a known signature to it.
PartsToGemini(parts, messages, sigs) ==
    LET Convert(p) ==
            CASE p.kind = "text" -> <<p>>
              [] p.kind = "call" ->
                    <<[p EXCEPT !.id = NoId,
                                !.sig = IF p.id \in DOMAIN sigs THEN sigs[p.id] ELSE Bypass]>>
              [] p.kind = "result" ->
                    <<[p EXCEPT !.id = NoId, !.name = FunctionName(messages, p.id)]>>
              [] OTHER -> <<>>
        converted == FlattenSeq([i \in DOMAIN parts |-> Convert(parts[i])])
    IN  IF converted = <<>> THEN <<Text(<<>>)>> ELSE converted

ToGemini(ir, sigs) ==
    Body(ir.system,
         [i \in DOMAIN ir.messages |->
             Message(IF ir.messages[i].role = "assistant" THEN "model" ELSE "user",
                     PartsToGemini(ir.messages[i].parts, ir.messages, sigs))])

\* Mutant: a signature that comes after the calls is taken for the first one.
OwnerFirst(blocks) == OfKind(blocks, "call")[1].id

\* The call a signature on a part without a call belongs to.
SignatureOwner(blocks) == Last(OfKind(blocks, "call")).id

\* A call arrives with the fresh id it is given; its signature is on its own part
\* or on a later one.
AddGemini(got, p) ==
    CASE p.kind = "reasoning" -> got
      [] p.kind = "call" ->
            [blocks |-> Append(got.blocks, [p EXCEPT !.sig = NoSignature]),
             sigs |-> IF p.sig = NoSignature THEN got.sigs
                      ELSE got.sigs \cup {<<p.id, p.sig>>}]
      [] OTHER ->
            [blocks |-> got.blocks \o TextIfAny(p.text),
             sigs |-> IF p.sig # NoSignature /\ OfKind(got.blocks, "call") # <<>>
                      THEN got.sigs \cup {<<SignatureOwner(got.blocks), p.sig>>}
                      ELSE got.sigs]

\* ResponseToIR: thoughts are dropped, empty text too.
AnswerFromGemini(parts) ==
    LET got[i \in 0..Len(parts)] ==
            IF i = 0 THEN [blocks |-> <<>>, sigs |-> {}] ELSE AddGemini(got[i - 1], parts[i])
    IN  got[Len(parts)]

-----------------------------------------------------------------------------
\* Decode and EncodeRequest of the client's adapter.
Decode(dialect, body) ==
    CASE dialect = "anthropic" -> FromAnthropic(body)
      [] dialect = "openai" -> FromOpenAI(body)
      [] dialect = "responses" -> FromResponses(body)

Encode(dialect, ir) ==
    CASE dialect = "anthropic" -> ToAnthropic(ir)
      [] dialect = "openai" -> ToOpenAI(ir)
      [] dialect = "responses" -> ToResponses(ir)

\* The request a provider's adapter builds, and how it reads an answer.
ToProvider(provider, ir, sigs) ==
    CASE provider = "anthropic" -> ToAnthropic(ir)
      [] provider = "openai" -> ToOpenAI(ir)
      [] provider = "gemini" -> ToGemini(ir, sigs)

FromProvider(provider, parts) ==
    CASE provider = "anthropic" -> [blocks |-> AnswerFromAnthropic(parts), sigs |-> {}]
      [] provider = "openai" -> [blocks |-> AnswerFromOpenAI(parts), sigs |-> {}]
      [] provider = "gemini" -> AnswerFromGemini(parts)

\* What the client keeps of an answer.
Kept(dialect, stream, blocks) ==
    CASE dialect = "anthropic" -> AnswerToAnthropic(blocks)
      [] dialect = "openai" -> AnswerToOpenAI(blocks)
      [] dialect = "responses" -> AnswerToResponses(blocks, stream)

\* WriteResponseAsStream, for an answer made by the proxy itself: text only.
KeptLocal(dialect, stream, blocks) ==
    Kept(dialect, stream /\ dialect # "responses", OfKind(blocks, "text"))
=============================================================================
