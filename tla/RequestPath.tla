---------------------------- MODULE RequestPath -----------------------------
(* A conversation of one client with the proxy, turn by turn: the client     *)
(* sends its whole history in its dialect, the request goes through the      *)
(* command, warden and compression plugins, each attempt picks a provider    *)
(* and the form its body has, and the answer comes back to the client, whose *)
(* next request builds on it. What one turn did to the history, the next     *)
(* turn meets again, perhaps with another provider or after a restart.       *)
(*                                                                           *)
(* The provider repeats what it is told and makes up tool calls, thoughts    *)
(* and signatures. A client answers the calls it got before it goes on.      *)
EXTENDS Warden, Compressor

CONSTANTS
    Setups,       \* set of setups: see the fixed variables
    SystemText,
    Inputs,       \* turn -> what the user may type
    Outputs,      \* what a tool returns
    Providers,
    Replies,      \* what a provider may do: see Reply
    MaxTurns, MaxTries, MaxLosses     \* bounds of a behaviour

\* Each dialect has its own places for the system text.
ASSUME SetupsAssumption ==
    \A s \in Setups :
        /\ \/ s.dialect = "anthropic" /\ s.system \in {"field", "system"}
           \/ s.dialect = "openai" /\ s.system = "system"
           \/ s.dialect = "responses" /\ s.system \in {"field", "developer", "system"}
        /\ s.policy.mode \in {"off", "tokenize", "redact", "block_only"}

ASSUME ProvidersAssumption == Providers \subseteq {"anthropic", "openai", "gemini"}
ASSUME RepliesAssumption == Replies \subseteq {"say", "call", "think", "calls"}
ASSUME MaxTurnsAssumption == MaxTurns \in Nat

IsText(t) == t \in Seq(ToSet(t))

\* What is said is text; the markers of the compressor are its own.
ASSUME TextsAssumption ==
    /\ IsText(SystemText)
    /\ \A i \in 1..MaxTurns : \A t \in Inputs[i] : IsText(t)
    /\ \A t \in Outputs : IsText(t) /\ \A w \in ToSet(t) : w[1] \notin {"omitted", "hash"}

VARIABLES
    setup,       \* fixed for a behaviour: the client's dialect, whether it
                 \* streams, the place of its system text, the warden's policy,
                 \* and whether equal protocols pass through
    history,     \* the conversation as the client has it: a body of its dialect
    phase,       \* "client", "ready" (between attempts) or "sent"
    request,     \* the request after the plugins
    sent,        \* the last body that went to a provider
    disabled,    \* commands are switched off
    sigs,        \* the signature cache: call id -> signature
    store,       \* the CCR store: the originals
    issued,      \* history: the ids of the calls Gemini signed
    thoughts,    \* history: <<signature, text>> of reasoning as it was issued
    made, turns, tries, losses

vars == <<setup, history, phase, request, sent, disabled, sigs, store, issued,
          thoughts, made, turns, tries, losses>>

Setup(dialect, stream, system, policy, passthrough) ==
    [dialect |-> dialect, stream |-> stream, system |-> system,
     policy |-> policy, passthrough |-> passthrough]

dialect == setup.dialect
policy == setup.policy

NoRequest == [asked |-> <<>>, ir |-> Body(<<>>, <<>>), raw |-> Body(<<>>, <<>>),
              vault |-> <<>>, acted |-> {}, whole |-> TRUE, placed |-> TRUE,
              injected |-> FALSE]
NothingSent == [provider |-> "", raw |-> FALSE, body |-> Body(<<>>, <<>>)]

-----------------------------------------------------------------------------
(* The client.                                                               *)

\* The system text is in a field of its own or in a message.
Started(place) ==
    IF place = "field" THEN Body(SystemText, <<>>)
    ELSE Body(<<>>, <<Message(place, <<Text(SystemText)>>)>>)

Init ==
    /\ setup \in Setups
    /\ history = Started(setup.system)
    /\ phase = "client" /\ request = NoRequest /\ sent = NothingSent
    /\ disabled = FALSE
    /\ sigs = <<>> /\ store = {} /\ issued = {} /\ thoughts = {}
    /\ made = 0 /\ turns = 0 /\ tries = 0 /\ losses = 0

\* The calls that wait for a result.
Unanswered ==
    LET calls == OfKind(AllParts(history.messages), "call")
        results == OfKind(AllParts(history.messages), "result")
    IN  At(calls, {i \in DOMAIN calls :
                      \A j \in DOMAIN results : results[j].id # calls[i].id})

\* The results, in the client's dialect.
ResultMessages(calls, output) ==
    LET results == [i \in DOMAIN calls |-> Result(calls[i].id, output)]
        role == IF dialect = "openai" THEN "tool" ELSE "function_call_output"
    IN  IF dialect = "anthropic" THEN <<Message("user", results)>>
        ELSE [i \in DOMAIN results |-> Message(role, <<results[i]>>)]

\* What the client may say now.
Turns ==
    IF Unanswered = <<>> THEN {<<Message("user", <<Text(t)>>)>> : t \in Inputs[turns + 1]}
    ELSE {ResultMessages(Unanswered, o) : o \in Outputs}

-----------------------------------------------------------------------------
(* The command plugin. A command is a word <<"command", name, 0>>.           *)

Reports == {"stats", "model", "health"}
Help == <<"plain", "help", 0>>

\* The index of the last user message, or 0.
LastUser(messages) == Max({i \in DOMAIN messages : messages[i].role = "user"} \cup {0})

\* lastUserText: the last text part of that message.
LastUserText(messages) ==
    LET texts == IF LastUser(messages) = 0 THEN <<>>
                 ELSE OfKind(messages[LastUser(messages)].parts, "text")
    IN  IF texts = <<>> THEN <<>> ELSE Last(texts).text

\* replaceLastUserText
ReplaceLastUserText(messages, text) ==
    LET i == LastUser(messages)
        parts == messages[i].parts
        last == Max({j \in DOMAIN parts : parts[j].kind = "text"})
    IN  [messages EXCEPT
            ![i] = Message(messages[i].role,
                           [parts EXCEPT ![last] = Retold(parts[last], text)])]

\* Execute: the request goes on, perhaps with a report before the rest of the
\* command, or it is answered here. "on" and "off" work even when disabled.
Command(text) ==
    LET name == text[1][2]
        bare == Len(text) = 1
    IN  IF text = <<>> \/ ~Is(text[1], "command") THEN "pass"
        ELSE IF name \in {"on", "off"} /\ bare THEN name
        ELSE IF disabled THEN "pass"
        ELSE IF name \in Reports /\ ~bare /\ Tail(text) # <<Help>> THEN "inject"
        ELSE "answer"

Injected(ir, text) ==
    [ir EXCEPT !.messages =
        ReplaceLastUserText(@, <<<<"report", text[1][2], 0>>>> \o Tail(text))]

LocalAnswer == <<Text(<<<<"report", "local", 0>>>>)>>

-----------------------------------------------------------------------------
(* The request.                                                              *)

\* Mutant: the client's bytes are not made anew.
RefreshNothing(raw, ir, rewritten) == raw

\* RefreshRawBodyIfRewritten
Refresh(raw, ir, rewritten) == IF rewritten THEN Encode(dialect, ir) ELSE raw

\* What the warden makes of a request, when it is on.
Safe(ir, raw) ==
    IF policy.mode = "off" THEN Unscanned(ir, raw) ELSE SanitizeRequest(policy, ir, raw)

\* The plugins after the command plugin; the executor refreshes the raw body
\* before its first attempt.
Prepared(asked, safe, injected) ==
    LET rewritten == Compresses(safe.ir.messages)
        final == IF rewritten
                 THEN [safe.ir EXCEPT !.messages = Compress(safe.ir.messages).messages]
                 ELSE safe.ir
    IN  [asked |-> asked, ir |-> final, raw |-> Refresh(safe.raw, final, rewritten),
         vault |-> safe.vault, acted |-> safe.acted, whole |-> ~safe.failed,
         placed |-> ~safe.misplaced, injected |-> injected]

\* What the CCR store gets from the request.
Stored(safe) ==
    IF Compresses(safe.ir.messages) THEN Compress(safe.ir.messages).stored ELSE {}

\* makeHandler: a request is decoded and runs through the plugins. It becomes
\* ready for its first attempt, is answered by a command, or is refused.
Ask(asked) ==
    /\ phase = "client"
    /\ turns' = turns + 1
    /\ LET body == Body(history.system, history.messages \o asked)
           decoded == Decode(dialect, body)
           text == LastUserText(decoded.messages)
           command == Command(text)
           ir == IF command = "inject" THEN Injected(decoded, text) ELSE decoded
           safe == Safe(ir, body)
           error == WardenError(policy, safe)
       IN  CASE command \in {"on", "off", "answer"} ->
                  /\ disabled' = (command = "off" \/ (disabled /\ command # "on"))
                  /\ history' = Body(body.system, body.messages
                                       \o KeptLocal(dialect, setup.stream, LocalAnswer))
                  /\ UNCHANGED <<phase, request, store, tries>>
             [] command \in {"pass", "inject"} /\ error = "" ->
                  /\ phase' = "ready" /\ tries' = 0
                  /\ request' = Prepared(asked, safe, command = "inject")
                  /\ store' = store \cup Stored(safe)
                  /\ UNCHANGED <<history, disabled>>
             [] OTHER -> UNCHANGED <<history, phase, request, store, disabled, tries>>
    /\ UNCHANGED <<setup, sent, sigs, issued, thoughts, made, losses>>

\* dispatchFor: the client's bytes go to a provider of its own protocol.
RawEligible(provider) == setup.passthrough /\ provider = dialect

\* One attempt. The body is built anew each time.
Send(provider) ==
    /\ phase = "ready" /\ tries < MaxTries
    /\ phase' = "sent" /\ tries' = tries + 1
    /\ sent' = [provider |-> provider, raw |-> RawEligible(provider),
                body |-> IF RawEligible(provider) THEN request.raw
                         ELSE ToProvider(provider, request.ir, sigs)]
    /\ UNCHANGED <<setup, history, request, disabled, sigs, store, issued, thoughts,
                   made, turns, losses>>

\* The attempt fails and the next may begin; after the last one the client is
\* told, and keeps its history as it was.
Fail ==
    /\ phase = "sent"
    /\ IF tries < MaxTries THEN phase' = "ready" /\ UNCHANGED request
       ELSE phase' = "client" /\ request' = NoRequest
    /\ sent' = NothingSent
    /\ UNCHANGED <<setup, history, disabled, sigs, store, issued, thoughts, made,
                   turns, tries, losses>>

-----------------------------------------------------------------------------
(* The answer.                                                               *)

\* The last thing a user typed, as the provider sees it.
Heard(body) ==
    LET typed == {i \in DOMAIN body.messages :
                     body.messages[i].role = "user" /\ Joined(body.messages[i].parts) # <<>>}
    IN  IF typed = {} THEN <<>> ELSE Joined(body.messages[Max(typed)].parts)

\* What the provider sends, with ids and signatures after the n it made. Only
\* Gemini signs calls: on the call itself, or on a part after the last call.
Reply(reply, provider, heard, n) ==
    LET NewCall(i) == Call(n + i, IF i = 1 THEN "read" ELSE "write", <<<<"args", "", n + i>>>>)
        Signed(p) == IF provider = "gemini" THEN [p EXCEPT !.sig = p.id] ELSE p
        subject == At(heard, {i \in DOMAIN heard : ~Is(heard[i], "keyword")})
        Thought == [Reasoning(<<<<"dynamic", "id", 0>>>> \o subject, n + 1)
                        EXCEPT !.kind = IF provider = "anthropic" THEN "thinking" ELSE @]
    IN  CASE reply = "say" -> <<Text(heard)>>
          [] reply = "call" -> <<NewCall(1)>>
          [] reply = "think" ->
                (IF provider = "openai" THEN <<>> ELSE <<Thought>>) \o <<Signed(NewCall(2))>>
          [] reply = "calls" ->
                IF provider = "gemini"
                THEN <<NewCall(1), NewCall(2), [Text(<<>>) EXCEPT !.sig = n + 2]>>
                ELSE <<Text(heard), NewCall(1), NewCall(2)>>

\* The number of the call a signature in the reply is of.
SignedBy(reply, provider, n) ==
    IF provider = "gemini" /\ reply \in {"think", "calls"} THEN {n + 2} ELSE {}

\* The answer as the client keeps it. An answer passed through is restored as
\* a whole, an answer in the neutral form where a person reads it.
Received(parts, provider) ==
    IF sent.raw THEN <<Message("assistant", ResolveRaw(request.vault, parts))>>
    ELSE Kept(dialect, setup.stream,
              ResolveBlocks(request.vault, FromProvider(provider, parts).blocks))

\* The cache keeps what an answer in the neutral form brings.
NewSignatures(parts, provider) ==
    IF sent.raw THEN {} ELSE FromProvider(provider, parts).sigs

Answer(reply) ==
    /\ phase = "sent"
    /\ LET parts == Reply(reply, sent.provider, Heard(sent.body), made)
           new == NewSignatures(parts, sent.provider)
       IN  /\ history' = Body(history.system,
                              history.messages \o request.asked \o Received(parts, sent.provider))
           /\ sigs' = [i \in DOMAIN sigs \cup {s[1] : s \in new} |->
                          IF \E s \in new : s[1] = i THEN (CHOOSE s \in new : s[1] = i)[2]
                          ELSE sigs[i]]
           /\ thoughts' = thoughts \cup {<<parts[i].sig, parts[i].text>> :
                              i \in {j \in DOMAIN parts : parts[j].kind = "thinking"}}
    /\ issued' = issued \cup SignedBy(reply, sent.provider, made)
    /\ made' = made + 2
    /\ phase' = "client" /\ request' = NoRequest /\ sent' = NothingSent
    /\ UNCHANGED <<setup, disabled, store, turns, tries, losses>>

\* The process restarts between two requests: the caches were in memory.
Restart ==
    /\ phase = "client" /\ losses < MaxLosses
    /\ losses' = losses + 1
    /\ sigs' = <<>> /\ store' = {} /\ disabled' = FALSE
    /\ issued' = {}
    /\ UNCHANGED <<setup, history, phase, request, sent, thoughts, made, turns, tries>>

\* A signature's hour is over, and so is that of those stored before it.
Expire(id) ==
    /\ phase # "sent" /\ losses < MaxLosses
    /\ losses' = losses + 1
    /\ sigs' = [i \in {i \in DOMAIN sigs : i > id} |-> sigs[i]]
    /\ issued' = {i \in issued : i > id}
    /\ UNCHANGED <<setup, history, phase, request, sent, disabled, store, thoughts,
                   made, turns, tries>>

Next ==
    \/ turns < MaxTurns /\ \E asked \in Turns : Ask(asked)
    \/ \E provider \in Providers : Send(provider)
    \/ Fail
    \/ \E reply \in Replies : Answer(reply)
    \/ Restart
    \/ \E id \in DOMAIN sigs : Expire(id)

Spec == Init /\ [][Next]_vars
-----------------------------------------------------------------------------
(* Properties.                                                               *)

Rewriting == policy.mode \in {"tokenize", "redact"}

\* A value whose pattern alone makes the warden replace it.
Sure(word) == Is(word, "value") /\ ScoreOf(word[2]) >= 60

\* No body that goes to a provider, in whichever form and at whichever attempt,
\* has a value whose pattern alone is enough in the system text, in a message's
\* text or in reasoning, unless an inspector failed and the policy lets such
\* requests pass (WardenPlugin.sanitizeRequest). The client's own bytes are only
\* promised that if no finding of the request is in the wrong place: a phrase that
\* takes the place of a value takes it out of the substitutions.
ValuesWithheld ==
    (/\ phase = "sent" /\ Rewriting
     /\ request.whole \/ policy.failClosed
     /\ request.placed \/ ~sent.raw) =>
        /\ \A w \in ToSet(sent.body.system) : ~Sure(w)
        /\ \A p \in ToSet(AllParts(sent.body.messages)) :
              p.kind \notin {"call", "result"} => \A w \in ToSet(p.text) : ~Sure(w)

\* When the provider repeats what the user has just typed, the client reads the
\* user's own values and phrases again, each in its place, and never a token
\* (BuiltinVault.Resolve through every form of an answer): as long as the warden
\* found them as they were typed, and their tokens have no more digits than Resolve
\* reads.
RestoredNow ==
    LET typed == request.asked[1].parts
        new == SubSeq(history'.messages, Len(history.messages) + 2, Len(history'.messages))
        shown == FlattenSeq([i \in DOMAIN new |-> new[i].parts])
        Values(text) == SelectSeq(text, LAMBDA w : w[1] \in {"value", "phrase", "token"})
    IN  \A i \in DOMAIN shown :
            (shown[i].kind \notin {"call", "result"} /\ shown[i].text # <<>>)
                => Values(shown[i].text) = Values(Joined(typed))

FoundAsTyped(text) ==
    \A i \in DOMAIN text : ActsOn(Findings(text)[i]) => Findings(text)[i].value = text[i]

Restorable(vault, text) ==
    \A w \in ToSet(text) \cap ToSet(vault) : Tokenize(vault, w)[3] <= TokenLimit

AnswerRestored ==
    [][LET typed == Joined(request.asked[1].parts)
       IN  (/\ phase = "sent" /\ history' # history /\ policy.mode = "tokenize"
            /\ request.asked[1].role = "user" /\ typed # <<>>
            /\ FoundAsTyped(typed) /\ Restorable(request.vault, typed))
               => RestoredNow]_vars

\* What the warden may make something else of in a later turn: what it may act on,
\* a mark, which moves findings, and a token that comes back as a value which is
\* only acted on near a keyword.
Unsteady(word) ==
    \/ word[1] \in {"phrase", "mark"}
    \/ Is(word, "value") /\ ScoreOf(word[2]) + KeywordBonus >= 60
    \/ Is(word, "token") /\ ScoreOf(word[2]) < 60

\* Reasoning that Anthropic signed goes back to it word for word: the tokens it
\* was written with are minted again for the same values in every later turn,
\* and nothing else rewrites it (partToCompress; the signature covers the text).
\* Reasoning with unsteady words is the exception, and so is a request of which
\* an inspector failed.
ReasoningReturned ==
    (phase = "sent" /\ sent.provider = "anthropic" /\ request.whole) =>
        \A p \in ToSet(AllParts(sent.body.messages)) :
            p.sig # NoSignature =>
                \E t \in thoughts :
                    t[1] = p.sig /\ (t[2] = p.text \/ \E w \in ToSet(t[2]) : Unsteady(w))

Position(messages, kind, id) ==
    {i \in DOMAIN messages : \E p \in ToSet(messages[i].parts) : p.kind = kind /\ p.id = id}

Names(m, kind) ==
    LET parts == OfKind(m.parts, kind) IN [i \in DOMAIN parts |-> parts[i].name]

\* Every tool call in a body is followed by its result and every result is that
\* of an earlier call, by its id or, for Gemini, by its name in the next
\* message; whatever was dropped, regrouped or converted on the way (Window.Trim,
\* oaiMessagesToAnthropic, appendOrMerge, resolveFunctionNameIR).
CallsAnswered ==
    phase = "sent" =>
        LET messages == sent.body.messages
            ids == {p.id : p \in {q \in ToSet(AllParts(messages)) : q.kind \in {"call", "result"}}}
        IN  IF sent.provider = "gemini"
            THEN \A i \in DOMAIN messages :
                    Names(messages[i], "call") # <<>> =>
                        /\ i < Len(messages)
                        /\ Names(messages[i + 1], "result") = Names(messages[i], "call")
            ELSE \A id \in ids :
                    \E i \in Position(messages, "call", id), j \in Position(messages, "result", id) :
                        i < j

\* Each call Gemini signed goes back to Gemini with its own signature as long as
\* the cache has it, and any other call with the sentinel, never with the
\* signature of another call (ResponseToIR, convertIRParts).
SignaturesReturned ==
    (phase = "sent" /\ sent.provider = "gemini") =>
        \A p \in ToSet(OfKind(AllParts(sent.body.messages), "call")) :
            LET id == p.text[1][3] IN p.sig = IF id \in issued THEN id ELSE Bypass

\* A decoded body, its system text first, as a sequence of parts with their roles;
\* what tools were asked and returned is left to their ids.
Content(ir) ==
    LET Shown(p) == IF p.kind \in {"text", "reasoning"} THEN p ELSE Retold(p, <<>>)
        Flat(m) == [j \in DOMAIN m.parts |-> [role |-> m.role, part |-> Shown(m.parts[j])]]
    IN  <<[role |-> "system", part |-> Text(ir.system)]>>
        \o FlattenSeq([i \in DOMAIN ir.messages |-> Flat(ir.messages[i])])

\* A word of the client's bytes and one of the neutral request, in the same place:
\* a value that is acted on somewhere in the request is replaced everywhere in the
\* bytes, and a phrase in a spelling of its own nowhere in them.
WordsAgree(x, y) ==
    \/ x = y
    \/ y \in request.acted /\ x = Replacement(policy.mode, request.vault, y)
    \/ /\ Is(x, "phrase") /\ x # Listed(x) /\ Listed(x) \in request.acted
       /\ y = Replacement(policy.mode, request.vault, Listed(x))

\* Whichever form an attempt picks, the provider is told the same, but for the two
\* differences in words: the client's bytes, decoded, are the neutral request
\* (WardenPlugin's mirror and RefreshRawBodyIfRewritten). A command's report is
\* only in the neutral form, block_only masks only the bytes, and a finding in the
\* wrong place is replaced at different places.
BodiesAgree ==
    (phase = "ready" /\ policy.mode # "block_only" /\ request.placed /\ ~request.injected) =>
        LET bytes == Content(Decode(dialect, request.raw))
            neutral == Content(request.ir)
        IN  /\ Len(bytes) = Len(neutral)
            /\ \A i \in DOMAIN neutral :
                  LET x == bytes[i].part.text
                      y == neutral[i].part.text
                  IN  /\ bytes[i] = [neutral[i] EXCEPT !.part = Retold(@, x)]
                      /\ Len(x) = Len(y)
                      /\ \A j \in DOMAIN y : WordsAgree(x[j], y[j])

\* What the marker in a tool's result says of it.
Accounted(text, originals) ==
    \A h \in {w \in ToSet(text) : w[1] = "hash"} :
        LET original == h[2]
            told == CHOOSE w \in ToSet(text) : w[1] = "omitted"
            kept == At(text, {i \in DOMAIN text : text[i][1] \notin {"omitted", "hash"}})
        IN  /\ original \in originals
            /\ Len(kept) + told[3] = Len(original)
            /\ Errors(kept, Alarms(original)) = Errors(original, Alarms(original))

\* A tool result that was crushed tells how much of it is missing, keeps every
\* item that was flagged and every error line, in order, and its marker leads to
\* the original (selectItems, crushLog, storeAndMark).
OmissionsAccounted ==
    phase = "sent" =>
        \A p \in ToSet(OfKind(AllParts(sent.body.messages), "result")) : Accounted(p.text, store)
=============================================================================
