-------------------------- MODULE MCStreamDialect --------------------------
(* Finite instances of StreamDialect for TLC. *)
EXTENDS StreamDialect

MCStreams == Converted \cup {RawPair}

\* Text as it comes in JSON strings: characters are never split.
MCFragments == {<<"plain">>, Opening, <<"name">>, <<"name">> \o Closing}
\* Text as it comes from the network: split anywhere.
MCRawReads == {<<"lead">>, <<"open">>, <<"name", "lead">>, <<"close">>, <<"plain">>,
               <<"open", "name", "lead", "close">>}

\* Enough for a token in four pieces, for two parallel tool calls, and for an
\* Anthropic answer of one block with two deltas and its closing messages.
MCMaxChunks == [openai |-> 4, gemini |-> 4, anthropic |-> 6, raw |-> 6]
=============================================================================
