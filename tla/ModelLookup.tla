---------------------------- MODULE ModelLookup ----------------------------
(* Which configured model serves the model a client asks for: the cascade of *)
(* Config.LookupModel and BuiltinRouter.Route. A name is the sequence of its *)
(* parts, which in the code are joined by dashes.                            *)
EXTENDS Naturals, Sequences, SequencesExt

None == "none"
NoName == <<>>

(* A configuration has the routes in their order, a default model (or none), *)
(* the switch for native passthrough and the pools: their protocol, whether  *)
(* they opted in and whether they have keys. A route has the provider of its *)
(* pool, whose key need not be a protocol's name; validation rejects a route *)
(* without a name.                                                           *)
WellFormed(config) ==
    config.routes \in Seq([name : Seq(STRING) \ {NoName}, provider : STRING])

RouteNames(config) == {config.routes[i].name : i \in DOMAIN config.routes}

\* strings.TrimPrefix(name, "claude-").
TrimClaude(name) == IF Len(name) > 1 /\ name[1] = "claude" THEN Tail(name) ELSE name

\* The first route with the name, or 0.
IndexOf(config, name) ==
    LET found == {i \in DOMAIN config.routes : config.routes[i].name = name}
    IN IF found = {} THEN 0 ELSE Min(found)

\* A configured name fits if the requested one goes on after it with a dash, or ends.
FitsRoute(config, i, name) ==
    IsPrefix(TrimClaude(config.routes[i].name), TrimClaude(name))

\* bestLen: how long the name of a route is, and 0 while there is none.
RouteLength(config, i) ==
    IF i = 0 THEN 0 ELSE Len(TrimClaude(config.routes[i].name))

\* Mutant of LongestPrefix: the first route that fits.
FirstPrefix(config, name) ==
    LET best[i \in 0..Len(config.routes)] ==
            IF i = 0 THEN 0
            ELSE IF FitsRoute(config, i, name) /\ best[i - 1] = 0 THEN i ELSE best[i - 1]
    IN best[Len(config.routes)]

\* The scan for the longest configured name that fits: the first of its length.
LongestPrefix(config, name) ==
    LET best[i \in 0..Len(config.routes)] ==
            IF i = 0 THEN 0
            ELSE IF /\ FitsRoute(config, i, name)
                    /\ RouteLength(config, i) > RouteLength(config, best[i - 1])
                 THEN i ELSE best[i - 1]
    IN best[Len(config.routes)]

InferModelProvider(name) ==
    CASE Len(name) > 1 /\ name[1] = "claude" -> "anthropic"
      [] Len(name) > 1 /\ name[1] \in {"gpt", "chatgpt"} -> "openai"
      [] Len(name) > 0 /\ name[1] \in {"o1", "o3", "o4"} -> "openai"
      [] Len(name) > 1 /\ name[1] = "gemini" -> "gemini"
      [] OTHER -> None

\* Mutant of HasNativePassthroughPool: pools that have not opted in count.
HasPool(config, provider) ==
    \E p \in config.pools : p.protocol = provider /\ p.keys > 0

HasNativePassthroughPool(config, provider) ==
    \E p \in config.pools : p.native /\ p.protocol = provider /\ p.keys > 0

RouteEntry(config, i) ==
    [name |-> config.routes[i].name, provider |-> config.routes[i].provider]
NoEntry == [name |-> NoName, provider |-> None]

\* The cascade: exact, without "claude-", longest prefix, native passthrough, the
\* default model.
LookupModel(config, name) ==
    LET vendor == InferModelProvider(name)
        found == <<IndexOf(config, name), IndexOf(config, TrimClaude(name)),
                   LongestPrefix(config, name)>>
        matching == {step \in 1..3 : found[step] > 0}
        default == IndexOf(config, config.default)
    IN CASE matching # {} -> RouteEntry(config, found[Min(matching)])
         [] /\ matching = {} /\ config.passthrough
            /\ vendor # None /\ HasNativePassthroughPool(config, vendor)
                -> [name |-> name, provider |-> vendor]
         [] OTHER -> IF config.default # name /\ default > 0
                     THEN RouteEntry(config, default) ELSE NoEntry

\* buildRoutingState: the providers that have a passthrough selector.
PassthroughSelectors(config) ==
    IF config.passthrough THEN {p.protocol : p \in {q \in config.pools : q.native}}
    ELSE {}

\* BuiltinRouter.Route with the table of another configuration, for an entry that
\* has been looked up: the selector it finds, if any.
SelectorOf(table, entry) ==
    CASE entry.name \in RouteNames(table) -> [kind |-> "model", of |-> entry.name]
      [] /\ entry.name \notin RouteNames(table)
         /\ entry.provider \in PassthroughSelectors(table)
            -> [kind |-> "passthrough", of |-> entry.provider]
      [] OTHER -> [kind |-> "none", of |-> NoName]
=============================================================================
