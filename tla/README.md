# A TLA+ verification of miroxy

miroxy is an LLM proxy: an HTTP server that takes a client's request in one of
several wire protocols, routes it to a model, picks a credential from a pool,
calls an upstream provider, and retries with other credentials until somebody
answers. This directory holds TLA+ models of the parts of it where concurrency,
failure and time meet, the TLC configurations that check them on small
instances, and TLAPS proofs of what holds on every instance. Paths below are
relative to the repository (`src/`).

## 1. The system and its parts

| Part | Code | State it keeps | Who touches it |
|---|---|---|---|
| Credential pool | `core/selector/credpool.go`, `affinity.go`, `errors.go` | per key: health state, in-flight count, two failure counters, end of cool-down, request and token windows; round-robin counter; sticky bindings | every request goroutine, the probers, the health snapshot loop, all under one mutex that is *dropped* while a secret is fetched |
| Routing and target selectors | `core/selector/routing_selector.go`, `target_selector.go` | per target an atomic in-flight count; an atomic round-robin index; sticky bindings | every request goroutine, no lock around a selection |
| Upstream executor | `internal/server/upstream.go` | per request: attempt number, list of failed attempts, a shared deadline | one goroutine per request |
| Key prober | `internal/server/prober.go` | per model: running flag, back-off tier | one background goroutine at a time, triggered by refused requests |
| Server, reload, lifecycle | `internal/server/server.go`, `proxy_control.go`, `cmd/miroxy/serve.go`, `internal/router/builtin.go` | current routing table and configuration behind atomics; background loops of each generation | SIGHUP, the admin endpoint, stop/start signals, request goroutines |
| Credential sources, usage | `internal/cred/` | health as of the last poll; unflushed usage; cached OAuth token | pollers, flush loops, `Select`, `Release` |
| Local state store | `internal/localstate/store.go` | the last health and usage snapshots | flush loops, start-up |
| Statistics | `internal/stats/stats.go` and the two plugin counters | monotone counters, snapshot, restore | requests, flush loops, admin pages |
| Warden | `internal/warden/` | per request a vault of tokens; a hold-back buffer per stream | the pipeline, one goroutine per stream stage |
| Compression | `internal/compress/` | the store of originals (CCR); otherwise pure functions over a conversation | the pipeline |
| Pipeline, commands | `internal/pipeline/` | plugin order; the neutral request, the client's bytes, the response, stream and release callback of a request; whether commands are on | request goroutine |
| Conversation conversion | `core/ir/`, `internal/wireformat/`, `internal/downstream/`, `internal/upstream/` | the cache of Gemini's signatures; otherwise pure functions over a body | request goroutine |
| Stream conversion | `internal/downstream/`, `internal/wireformat/` | the open block and indices of a stream being converted | request goroutine and relays |
| Configuration | `internal/config/` | immutable after load | start-up, reload |
| Request dump | `internal/dump/store.go` | the open file and its size | request goroutines |
| Upstream adapters, admin, auth, direct mode | `internal/upstream/`, `internal/server/admin.go` ... | none of their own | request goroutine |

How they interact: a request runs through the pipeline to the executor. The
executor asks the model's selector for a plan (a key, its secret and an
adapter), calls upstream, and *releases* the plan with the outcome, which is
what drives the health of keys. A selector is a pool, a `TargetSelector` on a
shared pool, or a `RoutingSelector` over several of those. When a selector has
nothing to offer (`ErrNoSelection`) the request fails and the model's prober is
triggered, which takes the rate-limited keys out of their cool-down to try them.

What makes each part correct, and what is hard about it:

- **Pool**: the in-flight counts are exact although slots are taken and given
  back from five places with the mutex dropped in between; a key in cool-down is
  not used; a request is refused only when every key is in cool-down; limits
  rotate keys but never refuse; no failure and no recovery resets the escalation of
  429 cool-downs; every key comes back. Hard: interleaving of `Select`'s two
  halves, the prober, late releases and restarts from a stale snapshot.
- **Routing and executor**: a request is counted against the target it is at,
  once; the scan over targets, which is not atomic, keeps its order and does not
  refuse what was available; every attempt is released; the retries end. Hard:
  hooks, sticky paths, sources that fail, pools shared by models.
- **Reload and lifecycle**: whatever `LookupModel` serves has a selector; exactly
  the loops of the current generation run; signals and calls are obeyed. Hard:
  two reloads at once, buffered signals, state that survives generations.
- **Sources and usage**: usage is reported at least once and not lost when a
  report fails; a source's health follows credstone's. Hard: lost answers.
- **Streams**: every stage of a relay ends when the client is gone; a plan is
  released once, after the last event. Hard: blocked senders.
- **Warden**: no value that its pattern condemns leaves in a text it scans, in either
  form of a request; the client gets every value back, and no other; the concatenation of what is
  streamed equals the resolved whole, wherever the chunks are cut. Hard: the vault
  is a request's own while the conversation goes on, so that what one turn
  minted has to be minted again, alike, by the next; verdicts depend on the text
  around a value, phrases are found in a canonical copy, and an inspector may panic.
- **Conversation, compression, commands**: a client sends its whole history again
  with every turn, and each turn may meet another provider. Every call keeps its
  result and its own signature, reasoning goes back as it was signed, what is
  left out of a tool result is told and can be found, and the two forms of a
  request stay the same request. Hard: five conversions, three plugins that
  rewrite, caches that forget, answers that were made from rewritten requests.
- **Statistics and their store**: nothing is counted twice, over any restart; a
  breakdown never exceeds its total; what was persisted stays. Hard: a record is
  several additions, a snapshot several reads, and nothing locks either.

## 2. The modules

```
PoolContract  <---- implements ----  CredPool  <-- CredPoolProofs
     ^                                  ^
     | INSTANCE                         +-- MCCredPool
  Executor  <-- ExecutorObserved <-- MCExecutor
     ^
     +-- ExecutorProofs (of Executor and ExecutorObserved)

StreamResolver <-- StreamDialect <-- MCStreamDialect        what a stream says
                       ^
                       +-- StreamTextProofs <-- StreamDialectProofs
StreamRelay <-- StreamRelayProofs, MCStreamRelay            how it gets there

CredSource <-- ExecutorProofs (a section of its own)        leases and usage
ModelLookup <-- Server <-- MCServer                         reload and lifecycle
                  ^
                  +-- ServerProofs

WireFormat <-- Warden     <--+-- RequestPath <-- MCRequestPath  a conversation
WireFormat <-- Compressor <--+       ^
                                     +-- RequestPathProofs

LocalState <-- LocalStateProofs, MCLocalState               counters and restarts
```

### CredPool: the pool with its callers

One action is one critical section of `CredPool.mu`.

| Action | Code |
|---|---|
| `Select`, `SelectNone` | the locked part of `CredPool.Select`: recover expired keys (`Recover`), prune windows, sticky choice, first pass, backstop pass, binding, counting |
| `Fetched`, `FetchFailed` | the source's answer after the mutex was dropped, the second locked part on an error |
| `Release` | `CredPool.Release` with the outcome of the attempt, one disjunct of `Settle` per case of its switch; the outcomes it is told nothing of (`ErrorFree`) are an answer, a rejected request and one that was never sent |
| `RecordTokens` | the executor's later call of `CredPool.RecordTokens` |
| `AnswerRefusal` | the executor answers 503 and calls `keyProber.trigger` |
| `TakeRateLimited`, `ProbeFetched`, `ProbeFetchFailed`, `ProbeReleased`, `ProberStops` | one round of the prober |
| `FlushHealth`, `Restart` | the health snapshot loop; a crash and a start that restores it |
| `Tick` | time passes |

`state`, `inFlight`, `failures`, `rateLimitFailures`, `recentRequests`,
`recentTokens`, `counter` and the affinity map are variables of the same or
nearly the same name. `attempt` and `prober` are the program counters of the
callers. Abstractions: time is relative (`coolLeft` is `coolEnd - now`, windows
hold entries by age), so no run bounds time. The failure counters saturate where
the code stops distinguishing their values, windows count up to the limit they
are compared with, and the round-robin counter is kept modulo a full rotation:
it is a `uint64` and its wrap-around is not modelled. The prober's waiting
time is any time. One prober drives the pool; a named pool that several models
share has one prober for each of them.

### PoolContract: what a pool promises

Two variables: how often each key is in use, and whether it is free, rests after
a 429 or overload ("limited"), or has its breaker open ("broken"). A key is
handed out only when free; a use is given back once and never puts a resting key
back to work; the prober takes all limited keys and no broken one. `CredPool`
implements it under the mapping `Contract` (`slots` is `inFlight`, `status` is
computed from state and cool-down), checked by TLC and proved.

### Executor: retries, routing and the prober of a routed model

Requests are the goroutines of the HTTP server. A request goes through
`selecting` (the head of the retry loop), `scanning` (asking the targets one by
one), `fetching` (a pool has counted it and the source is asked), `calling`
(upstream has it), `releasing` (the hook has given the target back and not yet
the pool). The pools are two variables of the contract, so the model of the
loop does not repeat the model of the pool, and what is checked of it holds for
any pool that keeps the contract.

| Action | Code |
|---|---|
| `Arrive`, `GiveUp` | entry and exhausted loop of `executeNonStream` and `executeStream` |
| `Select` | `RoutingSelector.Select`: the sticky target alone, or all targets in the order of the strategy |
| `TakeKey`, `TargetRefuses`, `StickyExhausted`, `NoSelection` | the answers of the targets' pools |
| `FetchFailed`, `Recovered` | a source's error; on the sticky path the scan goes on, elsewhere the executor dereferences a nil plan and net/http recovers |
| `Wrap` | binding the session and `wrapPlan` |
| `Unhook`, `Settle` | the two halves of the release hook; then the end of the request or its next attempt |
| `TakeRateLimited` ... `ProberStops` | the prober over `RoutingSelector.TakeRateLimited`, which has the first target only |
| `BindingExpires`, `CoolDownEnds` | time |

A stream is a call that lasts until it is drained; `executeStream` differs from
`executeNonStream` in what it does with the answer, not in selecting and
releasing. `sort.Slice` under `least_requests` is any order that sorts the loads
at the moment of the sort; the code loads the atomics one at a time while it
sorts. Keys that share a pool are a set of `KeysOf`; a pool may be behind several
targets.

`ExecutorObserved` adds the history variable `steady`, the targets that have been
available ever since the request's scan began. Nothing reads it; it states what
a scan that is not atomic can still promise.

### StreamResolver and StreamDialect: what a streamed answer says

A provider's chunks are parsed into neutral events (`core/ir/stream.go`), the
text of the events is restored by the warden, and the events are written in the
client's dialect. Each of the three is a state machine; one action here is one
chunk, taken through all of them (`Deliver`), because the channels between them
keep the order, which is what StreamRelay checks.

| Definition | Code |
|---|---|
| `ParseText`, `ParseOpenAITool`, `ParserTail`, ... | `streamToIR`, `GeminiConverter.StreamToIR`: block index, open text block, table of tool blocks, the tail after the body ends or breaks |
| `ParseAnthropic` | `parseAnthropicSSE`, `anthropicSSEToIR` |
| `WriteAnthropic`, `WriteOpenAI`, `WriteResponses` | `StreamFromIR`, `StreamIRToOAI`, `translateEvent` |
| `Feed`, `Drain`, `Peel`, `Flush` | `StreamResolver` in `internal/warden/stream.go`; `Peel` has the six cases of `drain` |
| `Restore`; `ReadRaw`, `EndOfRaw` | `ResolveEvents`; `ResolvingReader` under `writeRawStream` |
| `SendText` ... `SendUsage`, `EndOfBody` | what an OpenAI or Gemini provider may send, in any order |
| `SendMessage`, `Cut` | what an Anthropic provider may send, which keeps its own protocol: one block at a time, then `message_delta` and `message_stop` |

Abstractions. A text is a sequence of symbols, among them the halves of the
token's delimiters, so that a passthrough body can be cut inside a delimiter.
One token stands for all that the vault has minted; a piece of a tool's
arguments is its number. The two counts of a usage are one; of the finish reasons
those are kept that are told apart on the way.

### StreamRelay: how it gets there

The goroutines of one stream, `body > parser > adapter > tracker [> resolver]
[> framer] > writer`, with their channels, the two contexts (the request's, and
the stream's with its timeout) and the release in the handler. Every action is a
channel operation of one goroutine; `select` with both cases ready takes either.

| Actions | Code |
|---|---|
| `ParserRead` ... `ParserGivesUp` | the loop and the tail of `streamToIR`, `StreamToIR` and `parseAnthropicSSE`, with what each does when a send is cancelled |
| `AdapterReceives` ... | the goroutines of `StreamFromUpstream`, `anthropicSSEToIR` |
| `TrackerReceives` ... | `trackUsageStream`, which has no context |
| `ResolverReceives`, `Meet` | `ResolveEvents`, which has none either, and an unbuffered channel |
| `FramerReceives` ... | the goroutine of `AnthropicAdapter.WriteStream` |
| `WriterReceives` ..., `HandlerReleases` | the loops of the three `WriteStream`, then `ReleaseUpstream` in `makeHandler` |
| `ClientLeaves`, `Expire` | the client and the clock |

An event has a number or, in the tail, a kind; one "blocks" event stands for all
those that close the open blocks. The tracker counts a usage that is positive.

### CredSource: leases and usage shared with credstone

One pool whose entry is served by credstone, over the generations that reloads
make. Every call is two actions, so that things happen while it is under way, and
its answer may be lost.

| Action | Code |
|---|---|
| `Asks`, `Granted`, `Refused` | `CredSource.Credential`: fail fast on the last poll's word, `Acquire`, the kinds of credential |
| `Reports`, `CountsTokens` | `ReportOutcome` inside `CredPool.Release`; `AddTokens` by the executor, after the release of a whole answer and mostly before that of a stream |
| `PollBegins`, `PollReaches`, `PollAnswered`, `PollFails` | `pollLoop`, `poll` |
| `FlushBegins`, `FlushReaches`, `FlushConfirmed`, `FlushFails` | `flushLoop`, `flush`: read the deltas, call, subtract what was read |
| `Reload` | the next generation's `newCredPool`, then the context of the last one cancelled |
| `StatusChanges` | credstone |

Abstractions. The number of healthy entries is whether there are any; input and
output tokens are one count. A lease is returned in a goroutine that nobody
waits for and whose failure nobody sees, so it is left out. `CountsTokens` adds
to the first generation's accumulator, because the executor keeps the map it was
made with. `received` and `repeated` are what credstone has counted, and what it
has counted of a call that miroxy believes failed.

### ModelLookup and Server: reload and lifecycle

`ModelLookup` is `LookupModel` with the two tables that `Route` consults, as
operators; a name is the sequence of its parts between dashes. `Server` composes
it with the life of the server: each step of `Reload` on shared state is an action
of its own, for the loop of `runProxy` and for every handler that may reload.

| Action | Code |
|---|---|
| `Build` (in `CallReload`, `TakeHup`) | `Reload` up to `buildRoutingState`, which starts the loops of a new generation |
| `ReadCancel`, `StoreCancel`, `UpdateConfig`, `UpdateRouting`, `CancelOld` | the rest of `Reload`, in its order; `credSourceCancel` is a plain field, so it is read and written in two steps |
| `CallStopOrStart`, `Signal` | `adminProxyStop`, `adminProxyStart`: the look at `proxyRunning`, then the send that does not block |
| `TakeStop`, `TakeStart`, `TakeHup`, `TakeQuit`, `ListenFails` | the cases of the two `select` statements of `runProxy` |
| `Close` | `gracefulShutdown` and `Server.Close` |
| `RouteConfig`, `RouteTable`, `RequestEnds` | `Route` with its two loads; a request may go on for ever |

`config` is what each generation is built from, chosen from `Histories` at the
start: what the file holds whenever it is read. Abstractions: SIGHUP may come at
any time, so its channel is not a variable. A reload that is rejected changes
nothing and is no step. `Server.cfg` and `Server.routing`, which only the admin
pages and the diff read, are left out. The three loops that flush statistics
live as long as the store and are ended with it in `Close`. `overlapped` is a
history variable: whether two reloads have ever been under way at once.

### WireFormat, Warden, Compressor and RequestPath: a conversation

`RequestPath` follows one client through several turns. It sends its history in
its dialect; the request passes the command plugin, the warden and the
compressor; each attempt picks a provider and with it the form its body has; the
answer comes back and is part of the history of the next turn. The other three
modules are the pure functions a turn is made of.

| Action | Code |
|---|---|
| `Ask` | `makeHandler`: `Decode`, then `CommandPlugin.Execute`, `WardenPlugin.Execute`, `CompressPlugin.Execute`; answered by a command, refused, or ready for an attempt |
| `Send` | one attempt of the executor: `dispatchFor` (the client's bytes or the neutral request) and the adapter's `ToUpstream` |
| `Fail` | a failed attempt, then the next one or the end |
| `Answer` | `FromUpstream`, the warden's `resolveResponse`, `WriteResponse` or its stream, and the signatures `ResponseToIR` stores |
| `Restart`, `Expire` | the process starts again, a cached signature's hour is over |

| Definition | Code |
|---|---|
| `FromAnthropic`, `FromOpenAI`, `FromResponses` | `Decode` of the three client adapters: `NormalizeSystem`, `oaiMessagesToAnthropic`, `splitDeveloperRole`, `convertInputItems` |
| `ToAnthropic`, `ToOpenAI`, `ToGemini`, `ToResponses` | the request bodies: `RequestFromIR`, `convertIRMessagesToOAI`, `convertIRParts`, `messagesToInputItems` |
| `AnswerFrom...`, `AnswerTo...` | `ResponseToIR`, `ResponseFromIR`, `responseToIR`, `IRResponseToOAIBody`, `WriteResponse` |
| `ValueScore`, `PhraseScore`, `Canonical`, `Findings`, `ActsOn` | `Detect` of the secret and PII inspectors with `hasNearbyKeyword`, of the phrase inspectors over `Canonicalize`, `BuiltinWarden.Inspect` with its overlaps and its panics, `verdictForScore` |
| `Fields`, `Sanitize`, `Mirror`, `SanitizeRequest`, `WardenError` | `collectTextFields`, `BuiltinWarden.Sanitize`, the substitutions in the raw body, `sanitizeRequest`, `WardenPlugin.Execute` |
| `Minted`, `Tokenize`, `ResolveWord` | `BuiltinVault`: the order of minting, the numbering, `Resolve` |
| `HighVariance`, `Flagged` | `extractSchema`, the error flag of `scoreItem` |
| `AlignPart`, `CrushPart`, `Trim`, `Compress` | `CacheAligner`, `SmartCrusher` with `selectItems` and `kneedle`, `Window.Trim`, `BuiltinCompressor.Compress` |
| `Command`, `Injected`, `LocalAnswer` | `CommandPlugin`: its switch, `respond`, `deliver` |
| `Refresh`, `RawEligible` | `RefreshRawBodyIfRewritten`, `dispatchFor` |

A text is a sequence of words; a word is a value that a pattern matches, a keyword, a
phrase of the deny list in its own or another spelling, a mark that the canonical
copy drops, a token, a mask, a dynamic value, an item or a line of a tool's result,
a command, or plain. A word is one token of the budget.

What the warden makes of a value is computed as the code does it: a type's score for
the pattern and its checksum (`Scores`), 20 more if a keyword of the type is within
`Near` words, and the verdict from the sum, so that the same value may be acted on in
one text and only logged in another. A phrase is looked for in the canonical copy; its
finding has the spelling of the list and the *place of the copy*, and that place of
the text is replaced. An inspector that panics on a text (`Panics`) loses its own
findings there and nobody else's. The mirror replaces the found values wherever the
client's bytes have them as they were found, which is not where a phrase is spelled
otherwise. What is assumed of texts: findings are whole words and all of one length;
the client's bytes spell a value as the decoded request does (no JSON escapes in it);
whether an inspector panics depends on nothing but the text.

An item of an array is a record of fields, each with a value that has an error word
in it or not; which fields go to the schema, and so which items are flagged, is
computed from the whole array. Its score is an attribute. The provider repeats what
it heard, makes up calls, reasoning and signatures, and is external, as is the
client, which answers every call before it goes on. A provider that thinks leaves the
keywords out. Left out:
images, `is_error`, tool declarations, sampling parameters, the separators between
joined texts, encrypted Responses reasoning, and `ForcePassthrough` from one protocol
to another.

### LocalState: counters that outlive the process

The token registry, the compression and the warden statistics share nothing but
the store, so a behaviour follows one of them (`kind`). A counter is named by the
path of its level: a model, a pool of it, a key of that.

| Action | Code |
|---|---|
| `Boot` | `New`: `Open` with its two fall-backs, `Load...Stats`, `Restore` |
| `StartRecord`, `ContinueRecord` (`AddStep`) | `Registry.Record`, the two `Stats.Record`: one step for what is added under one lock |
| `BeginFlush`, `NextLevel`, `ReadCell` | the flush loop and its `Snapshot`, level by level and counter by counter |
| `Save`, `SaveLost` | one `Save...Stats` transaction; a failed one, or one to a store in memory or closed |
| `Close`, `CloseStore` | `Server.Close`: loops are cancelled, then the store is closed, nobody is waited for |
| `Die` | the process ends, at any moment |

Abstractions. Input, output and requests are one number; all requests use one model
route of the token registry. `forPool` inserts into a map under the route's lock that
`PoolSnapshots` reads after leaving it (`stats.go:87`): where Go detects that, the
process ends, which `Die` allows at any moment.

## 3. What the runs check

| Run | Instance | Shows |
|---|---|---|
| `pool_accounting` | 2 keys, 2 attempts, all outcomes, failing sources, prober, least_requests | `InFlightExact` (the counter is who really holds the key), `LeastLoadedChosen` (so balancing is by real load), `ImplementsContract` |
| `pool_limits` | 2 keys, 2 attempts, soft limit 1, token cap 1, a sticky session, the circuit breaker | `RefusedOnlyWhenAllParked`, `ParkedNotSelected`, `RotatesBeforeLimit`, `StickyUntilIneligible` |
| `pool_restart` | 1 key, 2 attempts, all outcomes, prober, snapshots, restarts at any moment, fairness | `EscalationOutlastsFailures`, `EveryKeyComesBack` |
| `pool_schedule` | 1 key, 1 attempt that is answered, rate limited or rejected | that `EscalationOnlyResetBySuccess`, which a comment states, does not hold (section 5) |
| `executor_routing` | 2 requests of one session, 2 targets with a key each, the three strategies, failing sources, prober, cool-downs at any moment | `LoadExact`, `SlotsCoverUses`, `RefusalJustified`, `FallbackKeepsPriority` |
| `executor_retries` | 1 request, 3 attempts, all outcomes, with and without a session, fairness | `EveryRequestEnds` |
| `stream_dialects` | 3 providers, 3 dialects, passthrough, warden on and off; 4 OpenAI or Gemini chunks, 6 Anthropic messages, 6 reads of a passthrough body | `ClientFramed`, `ToolCallsIntact`, `TextRestored` (which also bounds the hold-back by `MaxTokenBytes`), `ClosingTold` |
| `stream_relay` | each provider and each dialect, the resolver in two of four streams, channels of one event, client and timeout at any moment, fairness | `ShownInOrder`, `AnswerSettled`, `BodyClosed`, `SlotGivenBack` (the plan comes back, and once) |
| `credsource` | 1 attempt at a time, 2 generations, 2 leases, every call or answer lost, one of them after credstone has counted; fairness | `UsageExact` (nothing lost, nothing counted twice but by a lost answer), `UsageArrives`, `HealthFollows` |
| `server_life` | 3 generations from a file that changes and changes back, the loop and one handler, 3 calls to stop or start, a signal to quit, 3 names, a request that need not end; fairness | `ServedGenerationLives` (no gap and no leak of background loops), `RoutedHasSelector`, `MostSpecificRoute`, `SignalsObeyed` (a signal to quit ends the process, and a call to stop or start is acted on) |
| `local_state` | each tracker; 2 requests recording at once under two paths each, 2 starts, crashes and stops at any moment, an unreadable file, a store in memory, lost writes; fairness | `PartsCovered`, `CountedOnce`, `PersistedOnlyGrows`, `FileCatchesUp` |
| `request_path` | 3 turns, 3 providers, 2 attempts, one loss of the caches, seven setups of dialect, streaming, policy and passthrough; values of four kinds of score, a keyword, a phrase in two spellings and out of place, a panicking inspector | `ValuesWithheld`, `AnswerRestored`, `ReasoningReturned`, `CallsAnswered`, `SignaturesReturned`, `BodiesAgree`, `OmissionsAccounted` |

The type invariants of CredPool, Executor, CredSource, Server, LocalState,
StreamRelay and StreamDialect are not among the runs' properties: they are proved
(section 4). The modules of the conversation state none: a wrong type there
stops TLC or breaks one of the properties above.

Why the bounds are enough. Two attempts or requests are what it takes for every
race named in the hazards: each is between one operation and another that falls
between its two halves. Two keys are needed to rotate, balance or fall back.
Thresholds, limits and schedules are one more than their smallest sensible value
where the difference between "first" and "last" matters (`Threshold = 2`, two
429 tiers), and otherwise the smallest that is ever reached. `executor_routing`
has `MaxRetries = 1`: to the pools, the loads and the bindings, a further attempt
of a request is what a new request of the same session is; the retry loop itself
is checked by `executor_retries` with three attempts. Its outcomes are one of
each effect on a key: none (`badRequest`), resting (`limited`), broken (`error`).
`SlotBound` caps only how often the prober takes a key whose slot is still
counted; without it the leak of slots (first in section 5) makes the
state space infinite.

For streams: four chunks are a token in four pieces, two parallel tool calls with
two pieces of arguments, or text between two calls; six Anthropic messages are a
block with two deltas and the two closing messages. `MaxTokenBytes` is one more
than a token, so a stray delimiter reaches the give-up length within four
chunks. The channels of StreamRelay have one place for the code's 32 and 64: what
matters is that they fill up, and with one place a content of two events and a
tail of four fill all of them. `ClientFramed` and `ToolCallsIntact` leave out the
one pair for which they fail, OpenAI to Responses (see section 5); `TextRestored` leaves out reasoning for the OpenAI dialect, which drops it.

For the sources, two leases are what it takes to record something while a flush
is under way, and a second generation is what a reload adds; one answer that is
lost after credstone has counted is enough to count twice. Two reloads are the
least that can overlap, and the least in which the second has to end what the
first has started. Three calls to stop or start are a stop, a second stop whose
token is left over, and the start that meets it. The two configurations have a
short name before a longer one, a default, and native passthrough with one pool
that opted in and one that did not; the names reach every step of the cascade.

For the counters, two requests at once and two paths are what it takes to
interleave two records with each other and with a snapshot, and a second start
is the one that can count again what the first has saved. For the conversation,
three turns are the one that mints a token or gets a call, the one that answers it
or goes on, and the one that meets both again behind the window's edge, with
another provider. What the users type has a value that its pattern alone
condemns, one that only its keyword does (and the system text has it without one) and
one that blocks; a phrase that is replaced, as it is listed
and in capitals, and behind a mark that shifts its finding onto a value; a text on
which the PII inspector panics while the injection inspector finds something.
`TokenLimit` stands for 999 and is 3. The budgets are chosen among the lengths of the
texts: a result of 5 or 6 words exceeds `ToolResultBudget = 4`, a request with a result
exceeds `Threshold = 6`, and with two exchanges `TotalBudget = 19`, so that with
`RecentKeep = 1` the window cuts between a call and its result unless it
minds them. Two attempts are one in each form of the body.

Exceptions stated in the properties of `request_path`; all but the ones marked are
needed, that is, the run fails without them.

- With fail_closed off an inspector that panics lets its values through:
  `ValuesWithheld` says so, and `ReasoningReturned` leaves such a request out (*in
  general only: this instance has none with signed reasoning*).
- `ValuesWithheld` promises the client's own bytes only while every finding is at its
  own place (`placed`): a phrase behind a mark takes the place of a value and wins over
  it, and then nothing substitutes the value in the bytes. In the neutral request the
  value is replaced all the same, by the phrase's token. It speaks of the values whose
  pattern alone is enough (`Sure`); what is only condemned near a keyword is meant to
  leave elsewhere.
- `ReasoningReturned` leaves out reasoning with words whose verdict may be another one
  in a later turn (`Unsteady`): a token that comes back as a value which is only
  condemned near a keyword, or a value the warden may act on, a phrase or a mark that
  the provider wrote into it (*only the token is exercised by this instance*).
- `BodiesAgree` compares word by word and allows two differences (`WordsAgree`): a value
  acted on anywhere in the request is replaced everywhere in the bytes, but in the
  neutral form only where it was condemned; a phrase in another spelling is replaced in
  the neutral form and nowhere in the bytes. It leaves out findings in the wrong place,
  block_only, which masks the client's bytes but not the neutral form, and a command's
  report, which is in the neutral form alone.
- `AnswerRestored` speaks of the turns in which the provider repeats the text the user
  has just typed, when the warden found in it what is there (`FoundAsTyped`: a phrase in
  capitals comes back in small letters) and no token has more digits than `Resolve`
  reads (`Restorable`).
- `OmissionsAccounted` speaks of the items that were flagged, as the code flags them.

Fairness. The pool's: the clock runs; sources, attempts and probes end, each
having a context with a deadline; the prober's goroutine is scheduled. No client
is forced to send and `FlushHealth` and `Restart` are never forced. The
executor's: each request's goroutine is scheduled and upstream or the source
answers or fails within the deadline; neither clients, prober nor cool-downs are
fair, so a request ends without their help. The relay's: every goroutine that can
move does, the timeout passes, and the transport fails the read of a body whose
context is done. Nothing makes a provider send. Nothing but the client ends a
`w.Write`, since `serve.go` sets no write timeout: `SlotGivenBack` is therefore
stated under the condition that the writer is not stuck in one for ever, and a
client that neither reads nor leaves holds its plan. The sources': timers fire,
calls end since their client has a timeout, and a call repeated without end is at
some time answered (strong fairness of `PollReaches`, `PollAnswered`,
`FlushReaches` and `FlushConfirmed`): without it credstone may be down for ever. The
server's: goroutines are scheduled, a shutdown ends by its timeout of 30 s, and
`select` chooses at random among the channels that are ready, so that one which
is ready again and again is taken at some time (strong fairness of `TakeStop`,
`TakeStart` and `TakeQuit`). Nobody is forced to call, to signal or to reload, and
no request is forced to end. The counters': the ticker fires, the flush loop runs,
and a save that is tried for ever succeeds at some time (strong fairness of `Save`);
no request has to record, and nobody has to stop or start the process.

## 4. What is proved

`CredPoolProofs` proves for every number of keys and attempts, every strategy,
limit, schedule and window, under `PoolAssumption` (types of the constants, at
least one key, a non-empty schedule):

- `PoolInvariant`: the inductive invariant `IInv`, with its parts `TypeCorrect`
  and `InFlightAlwaysExact`. `InFlightExact` is not inductive by itself: that a
  release or a failed fetch finds a positive count needs that an attempt past
  `Select` names a credential (`AttemptsWellFormed`) and that the prober's work
  lists are disjoint and non-empty in the phases that use them
  (`ProberWellFormed`). The counting rests on how `Load` changes when one attempt
  enters or leaves (`AttemptEnters`, `AttemptLeaves`).
- `NeverSelectsParked`, `LimitsRotate`, `RefusesOnlyWhenAllParked`,
  `BalancesByRealLoad`: the action properties, from `IInv` and the fact that every
  choice function picks a member of its candidates
  (`SelectByCriteriaPicksCandidate`, `ChosenIsCandidate`).
- `EscalationSurvivesFailures` and `SessionsStay`: `EscalationOutlastsFailures`,
  because of the outcomes only those without an error lower the count of 429s, and
  `StickyUntilIneligible`, because looking up and pruning keep a binding or drop it
  (`BindingKeptOrDropped`) and an eligible bound key is the only candidate.

`CredPoolProofs` also proves `PoolKeepsContract`: CredPool implements
PoolContract. Each action maps to a step of the contract or a stutter; recovery
of expired keys is a stutter because the contract's status already looks at the
clock (`RecoverInvisible`).

`ExecutorProofs` proves of the executor, under `ExecutorAssumption` (finitely many
requests, at least one target and one attempt) and over any pools that keep the
contract: `ExecutorInvariant`, and from it `ExecutorTypeCorrect`,
`LoadAlwaysExact` and `UsesAlwaysCovered`. `LoadExact` and `SlotsCoverUses` are
inductive together with `CallsWellFormed` (a request past the selection names its
key and target, and its attempt is not yet counted) and `ProbesApart` (the prober
has a key on one list only). Every action is an instance of one of four shapes
(`RequestStepInv`, `QuietStepInv`, `ProberStepInv`, `TimeInv`), and the counting is
done once, in `RequestMoves`.

The same module proves `RefusalsAreJustified` and `FallbackPrefersEarlier` of
ExecutorObserved. The invariant behind both is `HistoryInv`: a target that
has been available since the scan began is still ahead of it (`ScansKnow`), and
under fallback what is ahead is in order (`FallbackInOrder`). It rests on
`OrdersCover`: whatever the strategy, loads and rotation, the order of a scan
leaves out no target.

`StreamRelayProofs` proves of the pipeline, for every provider and dialect, with and
without the warden, every capacity of the channels and every length of answer,
`RelayInvariant`, and from it `RelayTypeCorrect`, `ShownAlwaysInOrder` and
`EndAlwaysMeansWhole`. What the client sees is in order because everything on the way
is: for each goroutine, the event in its hand and those in the channel behind it
follow one another (`LaneInOrder`), and so do the newest of them and what the
goroutine before is about to send (`Linked`). That a tail has all the content before
it needs that each event of it carries the number of the content made, and that the
parser makes none afterwards (`TailIsWhole`). A cancelled send breaks the line, but
only where the one who should have gone on is done, and the line is claimed only for
those who still pass events on. Every action is one of a few moves (`EveryStepMoves`:
receive, send, meet on the unbuffered channel, leave), and the order is argued once
for each. `NeverPanics` is an action property that no run checks: no goroutine sends on
a closed channel and none closes twice, because a channel is closed by its one
sender as it ends. `SlotReleasedOnce` and `TotalsRecordedOnce` are the safety halves of
`SlotGivenBack` and `AnswerSettled`.

`StreamTextProofs` and `StreamDialectProofs`, which extends it, prove of what a stream
says, for every vocabulary, every length that is held back, any chunks of any text
and every pair of provider and dialect, the following invariants and what they imply
(the first two are in `StreamTextProofs`).

- `StreamAlwaysTyped`: the parser's bookkeeping, the pairs, and the protocol that an
  Anthropic provider keeps.
- `TextAlwaysRestored`. A text is resolved from the left, so it may be resolved in
  two parts wherever no token crosses the cut (`CleanCut`). Each of the six cases of
  `drain` cuts there, and the loop is an induction over its turns; so after any
  chunk, what `Feed` has let out, followed by what it holds, resolved, is the whole
  resolved (`TextInv`). `Flush` then gives what the whole gives. The bound on what is
  held is a case of `Peel`.
- `ClosingAlwaysTold`. The parser's reason and usage are what the provider last said
  (`ToldParser`), and until the tail the client has none of the messages that close
  an answer (`PlainK`), so what it has after the tail is what the tail wrote, once.
- `ClientAlwaysFramed`. `FrameR` relates a writer's bookkeeping to its client and to the
  blocks that the events have open: for the Anthropic dialect they are the client's
  own; for OpenAI each block of a call has a slot, in the order of their starts; the
  Responses writer follows one block, so that none may start while another is open.
  Each event that is `Legal` for the open blocks keeps the relation, and each chunk's
  events are legal for the blocks that the parser says are open (`BlocksOf`, for
  Anthropic what the provider has open): a call has a block of its own, opened before
  the text that is open (`ParserFrames`). `OneBlockAtATime` is used where the Responses
  writer needs it, and nowhere else.
- `ToolCallsAlwaysIntact`. `CallsAgree` says that the client's calls are the named ones
  of the provider, in its order, each at a slot of its own and with exactly the
  arguments sent for it. Arguments are passed on by what the code remembers, never by
  the call's name, so the invariant (`CallInv`) also says that this memory points to
  the call that is meant (`Pointed`): for an OpenAI provider each entry of
  `toolBlocks` names a block, which the OpenAI writer's `toolCallByBlock` maps to the
  slot of that tool's call, and no named tool is without an entry; for an Anthropic
  provider it is the open `tool_use` block; a Gemini call comes whole. A chunk that
  only closes, opens text or counts tokens leaves the calls alone (`Calm`). It rests
  on `FrameInv` for which blocks are open.

All five rest on tables of what each writer does with each kind of event
(`AnthropicWritten`, `OpenAIWritten`, `ResponsesWritten`) and on `PassTable`, which
takes the events of a chunk one by one.

`ExecutorProofs` also proves of CredSource, for any number of attempts, generations,
leases and lost answers, `SourceInvariant` and from it `SourceTypeCorrect` and
`UsageAlwaysExact`. `UsageExact` says of each generation that what was recorded,
with what was counted without miroxy knowing, is what credstone has and what is
pending. That a flush subtracts no more than there is needs `SentIsPending`: deltas
only grow while a call is under way; `FlushWellFormed` says when a call may have been
counted. The argument is one predicate of a single generation (`Sound`), kept by
each kind of step, with the arithmetic in lemmas of its own.

`ServerProofs` proves, for any number of handlers, requests, generations, signals
and whatever the file holds, `ServerInvariant` and from it `ServerTypeCorrect` and
`ServedAlwaysLives`. `ServedGenerationLives` says nothing of what a reload has yet to
do; `Handover` does: while reloads do not overlap there is at most one, its place in
the code says which pointers it has moved, and both its generation and the one it
replaces have their loops, so that the last step may end the old one's. `Build`
needs the part of `ServedGenerationLives` about the time between reloads; after every
other step it follows from `Handover` (`HandoverCovers`).

`ServerProofs` also proves `RoutesMostSpecific` and `RoutedAlwaysHasSelector`, for
any names and any configuration in which every route has a name of at least one
part (`WellFormed`). The scan for the longest prefix is a fold over the routes: by
induction over its turns, what it holds fits the name and nothing before it that fits
is longer (`LongestPrefixFinds`); the steps of the cascade before and after it are
`LookupByRoute` and `LookupElsewhere`. The two loads of `Route` may be of two
generations, so `RequestsServed` remembers that a routed request was looked up in a
configuration that was once built; `RoutedHasSelector` is of those whose two loads
agree.

`LocalStateProofs` proves, for any trackers' paths and any number of requests and
starts, `LocalInvariant` and from it `LocalTypeCorrect`, `NothingCountedTwice` and
`FileOnlyGrows`. Neither `CountedOnce` nor `PersistedOnlyGrows` is inductive: the
file is overwritten by a copy that is older than the counters and was read over
many steps. The invariant (`LocalInv`) puts the numbers of each counter in order.
While the store is a file, the file has no more than memory and memory no more
than was ever added; a counter that the snapshot has read is between the two, and
one of which the snapshot has less than the file is still to be read
(`SnapshotAhead`). So what a save writes is at least what it overwrites.

`PartsAlwaysCovered` rests on a second invariant, `CoverInv`, about sums. In memory the
parts of a whole and the records that have added to the whole and not yet to a part
make up no more than the whole (`LiveCovered`);
the copy is read parts first (`ReadingInOrder`), so a whole that is read after its
parts is no less than their sum then, and one that is still to be read has time to
become more (`CopyCovered`). That a pool without an entry has no counts in the copy
is what lets the snapshot skip it.

`RequestPathProofs` proves what holds of every body that goes to a provider, for any
setups, scores, keywords, panics, texts and bounds of the compressor, any number of
turns and attempts and any order of providers: `ValuesStayHere`, `SignaturesGoBack` and
`OmissionsKnown`, from the invariant `IInv` (`ConversationSound`). None of the three
is inductive: each speaks of the body that was sent, and what that body was made of
is gone by then. So the invariant says of the request and of the body how they were
made. A body is known by two sets, the words that are said in it and the calls and
results in it; each conversion, and each plugin, is a lemma about what becomes of
the two sets, whatever they are (`BodiesOf`). Put together along a request's way:

- `HistoryFine`: the client's history has the shape of its dialect. This is where the
  strength of the invariant lies. The warden scans the decoded request and makes the
  same substitutions in the client's bytes, so a word that decoding loses would go
  out unscanned. `FromAnthropicKeeps` and `FromOpenAIKeeps` show that decoding loses
  nothing of a body in that shape but the system messages of an Anthropic body whose
  system field is set, which such a client does not write; and every answer the proxy
  gives keeps the shape (`ReceivedIs`, `KeptIs`, `RawRestored`).
- `RequestSound`: the neutral request, and the client's bytes where they may be passed
  through, are `Carried`: if the scan was trusted no value that its pattern condemns
  (`Sure`) is said in them, and each result accounts for what it leaves out by an
  original in the store (`CompressTyped`, which rests on `ErrorsPicked`: a selection of places that has all
  errors has the errors of the whole, in order). Such a value is found wherever its
  inspector did not panic (`SureFound`), and whatever wins at its place scores at least
  as much, so the place is rewritten (`SureActed`, `IrClean`): that holds of the neutral
  request even where a phrase was put in the wrong place. The client's bytes need more:
  that the finding that won *is* the value, or it is not among the substitutions
  (`RawClean`), which is what `placed` says. What was injected or compressed brings no
  value.
- `SentSound`: so is what was sent (`GoesToProvider`), and a call that goes to Gemini
  carries what the cache has for it, or the sentinel.
- `CacheSound`: the cache has exactly the signatures that were issued and not lost,
  each under the id of its own call (`AnswerFromGeminiIs`, `CacheGrows`).

Conversions that go from message to message are recursive functions. What they
compute is known by the table of their values, which `Recursion` shows to exist, and
what holds of every line of it by a set of numbers, which `Induction` shows to be all
of them; neither needs an operator as a parameter. TLC cannot evaluate `IInv`, which
asks for a set of words to exist: it checks the three properties and the assumptions.

The module also proves of the vault, for any without repetitions: distinct values
have distinct tokens (`TokensDistinct`, because a type's counter grows strictly,
`CounterGrows`); minting keeps a vault without repetitions (`MintKeepsVault`), and a
value keeps its token while more is minted (`TokenKept`), which is why replacing by
the final vault is the same as the code's replacing text by text; what `Sanitize` did to a
text, resolving undoes (`RoundTrip`), under three conditions that the code does not
always meet and that section 5 tells of: the findings are what the text has at their
places, the tokens have no more digits than `Resolve` reads, and the text had no tokens
of its own.

The assumptions on the constants say what the code guarantees and no more: a use of
the token registry names a route, a pool and a key (`UsesAssumption`), goroutines
that record are finitely many (`RecordersAssumption`), every route of a file
that is read has a name (`HistoriesAssumption`), names and texts are strings
(`NamesAssumption`, `TextsAssumption`, `SymbolsAssumption`), a parser passes on no
empty text (`TextsAssumption`), a tool call's index is a natural number
(`ToolsAssumption`), a stream is of one of the pairs the code converts or passes
through (`StreamsAssumption`), a token fits in what is held back
(`MaxTokenAssumption`), and a channel has room for at least one event
(`CapAssumption`). Of a conversation: a client has one of the places of its dialect for
the system text and the warden one of its modes (`SetupsAssumption`), providers,
and replies are of the kinds that are modelled (`ProvidersAssumption`,
`RepliesAssumption`), scores, the reach of a keyword and the limit of a token's number
are numbers (`ScoresAssumption`, `NearAssumption`, `TokenLimitAssumption`), and the
compressor's markers are words of its
own, so that a tool that prints the same characters writes other words
(`TextsAssumption` of RequestPath). TLC evaluates each of them on the runs.

Only model-checked:

- `BodiesAgree`, `ReasoningReturned`, `CallsAnswered` and `AnswerRestored` of
  `request_path`. They say which words are where, not only which words there may be:
  two forms of a request have the same words in the same order, reasoning has the
  words it had some turns before, a result is in the message after its call. The
  sets of words and of parts by which `RequestPathProofs` knows a body do not tell;
- every liveness property (`EveryKeyComesBack`, `EveryRequestEnds`, `AnswerSettled`,
  `BodyClosed`, `SlotGivenBack`, `UsageArrives`, `HealthFollows`, `SignalsObeyed`,
  `FileCatchesUp`): liveness under fairness is out of the prover's reach.

## 5. Seen while modelling

What the code does that its documents or comments do not say, or say otherwise.
The models follow the code; only the first has a run of its own, which shows it.

- *The 429 schedule.* `credpool.go:246` says of `rateLimitFailures` that "it only resets
  on a successful request". It is reset by every release without an error
  (`credpool.go:443`), and the executor also releases so when `ToUpstream` failed and
  nothing was sent (`upstream.go:168`, `upstream.go:338`) and when the provider rejected
  the request with a 4xx (`upstream.go:226`, `251`, `393`). The run `pool_schedule` finds
  the violation: a key is rate limited, comes back, has a request rejected, and its next
  429 is its first again. What does hold is `EscalationOutlastsFailures`.

- *Probes of a routed model.* The plans that `RoutingSelector.TakeRateLimited` hands
  out (`routing_selector.go:214`) have no release hook, so the prober's `Release`
  does nothing (`routing_selector.go:84`), where `credpool.go:477` has the caller
  release each plan. The slot stays counted, and a key whose probe failed stays
  healthy. `SlotsCoverUses` is the half of the accounting that does hold.
- *Bedrock.* The frames of a stream become `data:` lines without an `event:` line
  (`bedrock_eventstream.go:165`), and the Anthropic parser that `bedrock.go:119` means
  to reuse switches on the event's name (`passthrough.go:285`), so every event of
  such a stream is ignored.
- *Pool.* A 429 with a RetryAfter that arrives while the key is already parked does
  not lengthen its rest (`credpool.go:403`, where `errors.go:6` calls it
  authoritative). Over the soft limit one call advances the rotation twice
  (`credpool.go:297`, where `credpool.go:132` defines a batch by calls).
- *Executor.* A source's error stops the scan, is not `ErrNoSelection`, and the
  executor then dereferences the nil plan (`upstream.go:155`, action `Recovered`),
  where `credsource.go:18` counts on the next key being tried. Under fallback a
  request the target rejects with a 4xx is repeated on the same key, up to
  `maxRetries` times (`upstream.go:226`, where `upstream.go:221` expects the next
  target or key). A token cap on a named pool sees no usage (`upstream.go:279`,
  where `docs/architecture-v1.md:196` says that a success records it).
- *Streams.* `translateEvent` has one current block and `streamToIR` leaves the
  blocks of parallel tool calls open until the end, so a Responses client is never
  told that the first call is done and both have the same `output_index`
  (`openai_responses.go:710`, where line 17 maps every `content_block_stop` to an
  item that is done). The warden's goroutine sends on an unbuffered channel without
  a context: when the writer has returned it stays for ever and its channel is
  never closed, although `stream.go:180` says so; `BodyClosed` and `SlotGivenBack`
  show that the leak reaches neither the body nor the plan. `ReleaseUpstream` is
  always called with nil (`server.go:924`, where `context.go:117` speaks of the
  stream's error), so a key whose streams break is never blamed. A stream that
  times out may lose its closing messages, because `select` takes the send or
  `ctx.Done` at random (`openai.go:674` wants the client to have "a terminated
  stream"). `ResponsesAdapter.WriteResponse` leaves out tool calls; one hold-back
  buffer serves text and reasoning, so a held fragment can come out in the other.
- *Usage.* What is pending when a generation ends is dropped, since the flusher
  returns without a last flush, and tokens that the executor counts afterwards go
  to an accumulator nobody flushes (`server.go:351`; `usage_accumulator.go:15` says
  "never fire-and-discard"). `UsageArrives` is therefore stated without a reload.
- *Reload.* `server.go:81` says that New, Reload and Close "are never concurrent
  with each other", but SIGHUP's loop, the admin handler and a request's command
  may all reload: two that overlap leave a generation whose loops nobody ends, or
  a table whose loops have been ended. `ServedGenerationLives` excludes it by
  `overlapped`. Probers and usage accumulators are those of the first generation
  (`server.go:346`). Models that discovery adds in `New` are gone after a reload,
  and a `--port` flag that differs from the file makes every reload be rejected.
- *Lifecycle.* A stop from the admin page runs `Server.Close`, which ends the
  loops and closes the store; the start that follows opens neither again, though
  `server.go:92` speaks of "a simple 1:1 lifetime with the process". A token left
  in a channel by a second stop or start acts after the next one.
- *Native passthrough.* The timeout of a target without a configured model is
  Go's zero (`builtin.go:98`), so its executor starts with a context that has
  expired (`upstream.go:137`) and no such request is ever served, which
  `config.yaml.example.full:41` describes.
- *Warden, phrases.* `phrases.go:67` has phrase findings "acted on by blocking the
  request outright, never by surgically redacting a span", and therefore allows their
  offsets to be those of the normalized copy. But a phrase that scores 60 to 84, such as
  "disregard the above" (80), gets the verdict Redact and is rewritten like any other
  finding (`secrets.go:49`, `builtin.go:203`): at offsets of the other string, so that
  behind characters the copy drops or shortens something else is cut, and a value found
  at that place is no longer substituted; and with the copy's spelling as its value, so
  that tokenized it comes back in small letters, and `bytes.ReplaceAll`
  (`plugin.go:113`) does not find it in the client's bytes if it was spelled otherwise.
  `plugin.go:79` promises that an attempt passed through sees the same redactions.
  `Misplaced`, `WordsAgree` and `FoundAsTyped` are where the properties allow for it.
- *Warden, verdicts.* A keyword within 40 bytes decides about a phone number, an IP
  address and the looser secrets (`secrets.go:60`), text by text. So a value tokenized in
  "call me at ..." is only logged where no keyword is near: in the neutral request it
  stays there, while the mirror replaces it everywhere in the bytes; and signed reasoning
  that was written with its token comes back with the value, is not tokenized again for
  want of a keyword, and goes back to Anthropic other than it was signed (`Unsteady`). An
  inspector that panics loses its findings in one text (`builtin.go:119`); with
  fail_closed off the mirror still replaces, in all of the bytes, what others or other
  texts have found.
- *Warden, the rest.* Tool arguments and results are neither scanned nor restored in the
  neutral form, while the mirror replaces a value found elsewhere in them too, and a
  body passed through is restored everywhere. The mirror replaces substrings of the
  JSON in the order of a map (`plugin.go:112`). block_only masks the client's bytes
  and leaves the neutral request. Signed reasoning into which a provider
  itself wrote a value is rewritten on the way back. The 1000th token of a type has
  four digits (`vault.go:64`) where `vaultTokenPattern` wants three (`vault.go:18`), so it
  is never restored (`TokenLimit`).
- *Commands.* A report is put into the neutral request only
  (`command_plugin.go:152`), so a provider that gets the client's bytes does not see
  it. The last *user* message decides, where `command_plugin.go:23` speaks of the last
  message: a request that ends with an assistant message after a command runs it.
- *Compression.* `crusher.go:135` and `crusher.go:271` say that error items are always
  kept. An item is flagged for an error word in a high-variance field only
  (`crusher.go:192`), and a field that all items have with at most two values, such as
  a status that is ok or error, goes to the schema with the value of the first item
  (`crusher.go:177`): the items that only this field tells apart are dropped like any
  other. `HighVariance` and `Flagged` model it; `OmissionsAccounted` is of flagged items.
  `Window.Trim` protects the partners of the recent messages in one
  pass and ignores its own scores (`window.go:29`). `crushObject` never counts an
  omission, so its results get no marker, and nothing calls `Retrieve` of the store
  the markers point into, which has no bound. Placeholders of the aligner are
  never put back. Images and `is_error` of a tool result are lost when it is
  compressed or sent to OpenAI.
- *Conversions.* A Responses client's developer text is dropped when there are
  instructions, its tools are not decoded, and its whole answers leave out tool calls
  (`openai_responses.go:481`). Thinking without text goes back as
  redacted_thinking (`anthropic.go:140`).
- *Statistics.* `Registry.Snapshot` reads the totals before the models, so a saved
  total may be less than its parts; `PartsCovered` speaks of the pairs that are read
  in the safe order.

## 6. Not modelled, and why

- *Streams*: the outcome a stream is released with (it is always nil, section 5);
  the JSON of chunks; Bedrock's framing.
- *Executor*: the deadline as a state of the request, token windows behind routed
  models, several probers on one shared pool, the error body the client gets.
- *Sources*: the OAuth refresh, which holds its mutex through the exchange and so
  happens one call after the other.
- *Conversation*: the data named in section 2, which characters the warden's patterns,
  checksums and entropy make a value of, the fallback `crushLines`, and arrays that hold no objects.
- *Request dump*: a debugging aid that appends under one mutex, which nothing reads.
- *Configuration*: parsing, defaults and validation (no state after load).
- *Admin pages, direct mode, HTTP, URLs, SigV4*: stateless I/O over the state of the
  others; what the admin endpoints change is in Server.
- *The embedded database*: a library, of which one transaction is one step.

What a continuation would take first: an abstract relay (what goes in comes out, in
order, and everything ends) that StreamRelay implements; the deadline in Executor;
and lemmas about the order of what single conversions make, from which
`AnswerRestored` and then `CallsAnswered` could be proved turn by turn.
