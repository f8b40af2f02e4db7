------------------------------ MODULE MCServer ------------------------------
EXTENDS Server

Route(name, provider) == [name |-> name, provider |-> provider]
Haiku == <<"haiku">>
HaikuMini == <<"haiku", "mini">>
ClaudeHaiku == <<"claude", "haiku">>
Opus == <<"opus">>

NativePool == [protocol |-> "anthropic", native |-> TRUE, keys |-> 1]
OwnPool == [protocol |-> "openai", native |-> FALSE, keys |-> 1]

\* A short name before a longer one, and a default model.
Plain == [routes |-> <<Route(Haiku, "vendor"), Route(HaikuMini, "vendor"),
                       Route(Opus, "vendor")>>,
          default |-> Haiku, passthrough |-> FALSE, pools |-> {OwnPool}]

\* Another set of routes, with native passthrough for one vendor of two.
Native == [routes |-> <<Route(ClaudeHaiku, "anthropic")>>,
           default |-> NoName, passthrough |-> TRUE, pools |-> {NativePool, OwnPool}]

\* The file changes and changes back.
MCHistories == {<<Native, Plain, Native>>}

\* A name with prefixes of several lengths, one that is configured in one file and
\* passed through under the other, and one that gets the default or nothing.
MCNames == {<<"claude", "haiku", "mini", "4">>, <<"claude", "opus">>, <<"gpt", "4">>}
=============================================================================
