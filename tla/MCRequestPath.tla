--------------------------- MODULE MCRequestPath ----------------------------
(* A finite instance of RequestPath for TLC. *)
EXTENDS RequestPath

Email(n) == Value("email", n)
Plain == <<"plain", "", 0>>
Id(n) == <<"dynamic", "id", n>>

\* An email address is replaced, a card number blocks, a phone number is replaced near
\* its keyword, and so is a phrase.
MCScores == [email |-> 60, card |-> 85, phone |-> 40, override |-> 80]

\* Every dialect and policy, with and without passthrough where it matters.
MCSetups == {
    Setup("anthropic", FALSE, "field", Policy("tokenize", TRUE), TRUE),
    Setup("anthropic", FALSE, "system", Policy("tokenize", FALSE), FALSE),
    Setup("anthropic", TRUE, "field", Policy("block_only", TRUE), TRUE),
    Setup("openai", TRUE, "system", Policy("redact", TRUE), TRUE),
    Setup("openai", FALSE, "system", Policy("tokenize", TRUE), FALSE),
    Setup("responses", TRUE, "developer", Policy("tokenize", TRUE), TRUE),
    Setup("responses", FALSE, "field", Policy("off", FALSE), FALSE)}

Phone == Value("phone", 1)
MCSystemText == <<Plain, Email(3), Phone>>
Shout == Phrase("override", 1)
PanicText == <<Email(4), Shout>>

\* The PII inspector panics on one text: what the others find there is replaced.
MCPanics == {<<"email", PanicText>>, <<"phone", PanicText>>}

\* Two values in one text and one of them in a later one, a value near its keyword,
\* which the system text has without it, a phrase in two spellings, a phrase that a
\* mark moves to the place of a value, and commands.
MCInputs == <<
    {<<Email(1), Id(1), Email(2)>>, <<Keyword("phone"), Phone, Shout>>,
     <<<<"command", "off", 0>>>>},
    {<<Email(2), Phrase("override", 0)>>, PanicText, <<<<"command", "stats", 0>>, Email(4)>>},
    {<<Keyword("phone"), Phone, Email(5)>>, <<Mark, Email(5), Shout>>, <<Value("card", 1)>>}>>

\* An array in which status goes to the schema and msg does not: the error in msg is
\* flagged, the one in status alone is not.
Row(status, msg, score) == <<"item", [status |-> status, msg |-> msg], score>>
Good == <<"plain", 0>>
Bad == <<"error", 0>>
Items == <<Row(Good, <<"plain", 1>>, 1), Row(Good, <<"plain", 2>>, 3), Row(Bad, <<"error", 3>>, 2),
           Row(Good, <<"plain", 4>>, 5), Row(Bad, <<"plain", 5>>, 0), Row(Good, <<"plain", 1>>, 1)>>
Lines == <<<<"line", "info", 1>>, <<"line", "info", 2>>, <<"line", "error", 3>>,
           <<"line", "info", 4>>, <<"line", "info", 5>>>>
\* An object with a value in one of its fields, which the warden does not scan.
ObjectOut == <<<<"field", "", 1>>, Email(2), <<"field", "", 3>>, <<"field", "", 4>>, <<"field", "", 1>>>>
MCOutputs == {Items, Lines, ObjectOut}
=============================================================================
