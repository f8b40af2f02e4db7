---------------------------- MODULE StreamRelay ----------------------------
(* One streamed answer on its way from the provider's body to the client:    *)
(* the goroutines of executeStream, StreamFromUpstream, trackUsageStream,    *)
(* ResolveEvents and WriteStream, the channels between them, the contexts    *)
(* that stop them and the release that ends the stream.                      *)
(*                                                                           *)
(*   body > parser > adapter > tracker [> resolver] [> framer] > writer      *)
(*                                                                           *)
(* The resolver is there when the warden is on, the framer when the client   *)
(* speaks the Anthropic dialect. What the events say is StreamDialect's      *)
(* matter: here a content event has its number, in the order the parser made *)
(* them; the events of the tail have a kind and the number of the last       *)
(* content event before them.                                                *)
EXTENDS Integers, Sequences, FiniteSets

CONSTANTS
    Streams,     \* the streams there may be: <<provider, dialect, warden>>
    Cap,         \* the capacity of each buffered channel
    MaxContent   \* bound on the content events of the answer, the start with them

Channels == {"parsed", "adapted", "tracked", "resolved", "wire"}
Buffered == Channels \ {"resolved"}
Routines == {"parser", "adapter", "tracker", "resolver", "framer", "writer"}

ASSUME CapAssumption == Cap \in [Buffered -> Nat \ {0}]
ASSUME MaxContentAssumption == MaxContent \in Nat \ {0}
ASSUME StreamsAssumption ==
    Streams \subseteq {"openai", "gemini", "anthropic"}
                      \X {"anthropic", "openai", "responses"} \X BOOLEAN

VARIABLES
    provider, dialect, warden,   \* fixed for the stream
    pc,          \* where each goroutine is: "receive", "send" or "done"
    hand,        \* the event it has received and not sent on yet
    queue,       \* the events in each channel
    got,         \* how many events have been taken from each channel
    closed,      \* whether the channel is closed
    made,        \* how many content events the parser has made
    counted,     \* the tracker has seen the usage event
    recorded,    \* how often the tracker has recorded the totals
    shown,       \* the events the client has been written, in order
    gone,        \* the client has disconnected
    expired,     \* the stream's timeout has passed
    handler,     \* "writing", "released" or "returned"
    released     \* how often the selector's Release has been called

stream == <<provider, dialect, warden>>
channels == <<queue, got, closed>>
usage == <<counted, recorded>>
contexts == <<gone, expired, handler, released>>
vars == <<stream, pc, hand, channels, made, usage, shown, contexts>>

-----------------------------------------------------------------------------
Event(n, kind) == [n |-> n, kind |-> kind]

\* The tail of an answer, in order: "blocks" stands for the events that close
\* the open blocks, or for the start and the end of an empty one when there has
\* been none; then come the finish reason, the usage and the end.
Kinds == {"content", "blocks", "finish", "usage", "end"}
Following == [blocks |-> "finish", finish |-> "usage", usage |-> "end"]
NoEvent == Event(0, "content")

\* Mutant: the stream has no timeout of its own.
NeverExpires == gone \/ handler # "writing"

\* The request's context ends with the client or with the handler, the
\* stream's context (context.WithTimeout on it) also by timeout or cancel.
RequestDone == gone \/ handler = "returned"
StreamDone == RequestDone \/ expired \/ handler = "released"

\* The channel the dialect reads, and where each goroutine reads and writes.
Events == IF warden THEN "resolved" ELSE "tracked"
Source(p) ==
    CASE p = "adapter"  -> "parsed"
      [] p = "tracker"  -> "adapted"
      [] p = "resolver" -> "tracked"
      [] p = "framer"   -> Events
      [] p = "writer"   -> IF dialect = "anthropic" THEN "wire" ELSE Events
Sink(p) ==
    CASE p = "parser"   -> "parsed"
      [] p = "adapter"  -> "adapted"
      [] p = "tracker"  -> "tracked"
      [] p = "resolver" -> "resolved"
      [] p = "framer"   -> "wire"

Present(p) == /\ p = "resolver" => warden
              /\ p = "framer" => dialect = "anthropic"

-----------------------------------------------------------------------------
(* Channel operations. *)

\* An event is taken from a buffered channel.
Take(p) ==
    LET c == Source(p)
    IN  /\ pc[p] = "receive" /\ queue[c] # <<>>
        /\ hand' = [hand EXCEPT ![p] = Head(queue[c])]
        /\ queue' = [queue EXCEPT ![c] = Tail(@)]
        /\ got' = [got EXCEPT ![c] = @ + 1]
        /\ UNCHANGED closed

\* The event in hand is put in the goroutine's buffered channel.
Put(p) ==
    LET c == Sink(p)
    IN  /\ pc[p] = "send" /\ Len(queue[c]) < Cap[c]
        /\ queue' = [queue EXCEPT ![c] = Append(@, hand[p])]
        /\ UNCHANGED <<got, closed>>

\* for range has nothing more to read.
Exhausted(p) == pc[p] = "receive" /\ closed[Source(p)] /\ queue[Source(p)] = <<>>

Goes(p, where) == pc' = [pc EXCEPT ![p] = where]

\* The goroutine returns and closes its channel on the way out.
Returns(p) ==
    /\ Goes(p, "done")
    /\ closed' = [closed EXCEPT ![Sink(p)] = TRUE]

-----------------------------------------------------------------------------
\* The OpenAI and Gemini parsers begin with an event of their own; an Anthropic
\* provider sends the first message itself.
Begins == provider # "anthropic"

Init ==
    /\ \E s \in Streams : provider = s[1] /\ dialect = s[2] /\ warden = s[3]
    /\ pc = [p \in Routines |-> IF ~Present(p) THEN "done"
                               ELSE IF p = "parser" /\ Begins THEN "send" ELSE "receive"]
    /\ hand = [p \in Routines |-> IF p = "parser" /\ Begins THEN Event(1, "content") ELSE NoEvent]
    /\ queue = [c \in Channels |-> <<>>]
    /\ got = [c \in Channels |-> 0]
    /\ closed = [c \in Channels |-> FALSE]
    /\ made = IF Begins THEN 1 ELSE 0
    /\ counted = FALSE /\ recorded = 0
    /\ shown = <<>>
    /\ gone = FALSE /\ expired = FALSE
    /\ handler = "writing" /\ released = 0

\* A chunk of the body: the context is looked at before it is worked on.
ParserRead ==
    /\ pc["parser"] = "receive" /\ ~StreamDone /\ made < MaxContent
    /\ made' = made + 1
    /\ hand' = [hand EXCEPT !["parser"] = Event(made + 1, "content")]
    /\ Goes("parser", "send")
    /\ UNCHANGED <<stream, channels, usage, shown, contexts>>

\* The body ends: by itself, or with an error, as it does when the context is
\* done. The OpenAI and Gemini parsers then send their tail all the same; an
\* Anthropic provider has sent its last messages itself. A Gemini answer may
\* end with no block open.
TailBegins ==
    CASE provider = "anthropic" -> {"finish"}
      [] provider = "openai" -> {"blocks"}
      [] provider = "gemini" -> IF made = 1 THEN {"blocks"} ELSE {"blocks", "finish"}

ParserTail ==
    /\ pc["parser"] = "receive" /\ (provider = "anthropic" => ~StreamDone)
    /\ \E kind \in TailBegins : hand' = [hand EXCEPT !["parser"] = Event(made, kind)]
    /\ Goes("parser", "send")
    /\ UNCHANGED <<stream, channels, made, usage, shown, contexts>>

\* The parser returns without a tail: the context is done before a chunk is
\* worked on, or an Anthropic body ends too early.
ParserStops ==
    /\ pc["parser"] = "receive"
    /\ StreamDone \/ provider = "anthropic"
    /\ Returns("parser")
    /\ UNCHANGED <<stream, hand, queue, got, made, usage, shown, contexts>>

\* send: the event goes to the channel. After an event of the tail comes the
\* next one, after the end event the parser returns.
ParserSends ==
    /\ Put("parser")
    /\ CASE hand["parser"].kind = "content" -> Goes("parser", "receive") /\ UNCHANGED hand
         [] hand["parser"].kind = "end"     -> Goes("parser", "tail") /\ UNCHANGED hand
         [] OTHER -> hand' = [hand EXCEPT !["parser"].kind = Following[@]] /\ UNCHANGED pc
    /\ UNCHANGED <<stream, made, usage, shown, contexts>>

\* The parser has sent its tail and returns.
ParserEnds ==
    /\ pc["parser"] = "tail"
    /\ Returns("parser")
    /\ UNCHANGED <<stream, hand, queue, got, made, usage, shown, contexts>>

\* send: the context is done. The parser returns, except that streamToIR does
\* not look at what became of an event of its tail and goes on to the next one,
\* which may still be sent: select takes either case when both are ready. It
\* does look when it closes the blocks of an answer that had some.
Ignored(kind) ==
    /\ provider = "openai"
    /\ kind \in {"finish", "usage"} \/ (kind = "blocks" /\ made = 1)

ParserGivesUp ==
    /\ pc["parser"] = "send" /\ StreamDone
    /\ IF Ignored(hand["parser"].kind)
       THEN hand' = [hand EXCEPT !["parser"].kind = Following[@]] /\ UNCHANGED <<pc, closed>>
       ELSE Returns("parser") /\ UNCHANGED hand
    /\ UNCHANGED <<stream, queue, got, made, usage, shown, contexts>>

\* The goroutine of StreamFromUpstream (anthropicSSEToIR for an Anthropic
\* provider, which returns after the end event).
AdapterReceives ==
    /\ Take("adapter") /\ Goes("adapter", "send")
    /\ UNCHANGED <<stream, made, usage, shown, contexts>>

AdapterSends ==
    /\ Put("adapter")
    /\ Goes("adapter", IF provider = "anthropic" /\ hand["adapter"].kind = "end"
                       THEN "tail" ELSE "receive")
    /\ UNCHANGED <<stream, hand, made, usage, shown, contexts>>

\* Mutant: the result of a cancelled send is ignored.
AdapterSkips ==
    \/ /\ Exhausted("adapter") \/ pc["adapter"] = "tail"
       /\ Returns("adapter")
       /\ UNCHANGED <<stream, hand, queue, got, made, usage, shown, contexts>>
    \/ /\ pc["adapter"] = "send" /\ StreamDone
       /\ Goes("adapter", "receive")
       /\ UNCHANGED <<stream, hand, channels, made, usage, shown, contexts>>

\* Mutant: sending does not look at the context.
AdapterInsists ==
    /\ Exhausted("adapter") \/ pc["adapter"] = "tail"
    /\ Returns("adapter")
    /\ UNCHANGED <<stream, hand, queue, got, made, usage, shown, contexts>>

AdapterReturns ==
    /\ \/ Exhausted("adapter")
       \/ pc["adapter"] = "send" /\ StreamDone
       \/ pc["adapter"] = "tail"
    /\ Returns("adapter")
    /\ UNCHANGED <<stream, hand, queue, got, made, usage, shown, contexts>>

\* trackUsageStream: no context; the totals are recorded when its source ends.
TrackerReceives ==
    /\ Take("tracker") /\ Goes("tracker", "send")
    /\ counted' = (counted \/ hand'["tracker"].kind = "usage")
    /\ UNCHANGED <<stream, made, recorded, shown, contexts>>

TrackerSends ==
    /\ Put("tracker") /\ Goes("tracker", "receive")
    /\ UNCHANGED <<stream, hand, made, usage, shown, contexts>>

TrackerReturns ==
    /\ Exhausted("tracker")
    /\ recorded' = IF counted THEN recorded + 1 ELSE recorded
    /\ Returns("tracker")
    /\ UNCHANGED <<stream, hand, queue, got, made, counted, shown, contexts>>

\* ResolveEvents: no context, and an unbuffered channel, so that sending is
\* meeting a reader (Meet below).
ResolverReceives ==
    /\ Present("resolver") /\ Take("resolver") /\ Goes("resolver", "send")
    /\ UNCHANGED <<stream, made, usage, shown, contexts>>

ResolverReturns ==
    /\ Present("resolver") /\ Exhausted("resolver")
    /\ Returns("resolver")
    /\ UNCHANGED <<stream, hand, queue, got, made, usage, shown, contexts>>

Meet(reader) ==
    /\ pc["resolver"] = "send" /\ pc[reader] = "receive" /\ Source(reader) = "resolved"
    /\ hand' = [hand EXCEPT ![reader] = hand["resolver"]]
    /\ got' = [got EXCEPT !["resolved"] = @ + 1]
    /\ pc' = [pc EXCEPT !["resolver"] = "receive", ![reader] = "send"]
    /\ UNCHANGED <<stream, queue, closed, made, usage, shown, contexts>>

\* The goroutine of AnthropicAdapter.WriteStream around StreamFromIR: it keeps
\* finish and usage for the closing messages and returns after them, or when the
\* request is over while it sends.
Kept(event) == event.kind \in {"finish", "usage"}

FramerReceives ==
    /\ Present("framer") /\ Take("framer")
    /\ Goes("framer", "send")
    /\ UNCHANGED <<stream, made, usage, shown, contexts>>

FramerSends ==
    /\ ~Kept(hand["framer"]) /\ Put("framer")
    /\ Goes("framer", IF hand["framer"].kind = "end" THEN "tail" ELSE "receive")
    /\ UNCHANGED <<stream, hand, made, usage, shown, contexts>>

FramerKeeps ==
    /\ pc["framer"] = "send" /\ Kept(hand["framer"])
    /\ Goes("framer", "receive")
    /\ UNCHANGED <<stream, hand, channels, made, usage, shown, contexts>>

\* Mutant: the channel is not closed on the way out.
FramerLeavesOpen ==
    /\ Present("framer")
    /\ \/ Exhausted("framer")
       \/ pc["framer"] = "send" /\ ~Kept(hand["framer"]) /\ RequestDone
       \/ pc["framer"] = "tail"
    /\ Goes("framer", "done")
    /\ UNCHANGED <<stream, hand, channels, made, usage, shown, contexts>>

FramerReturns ==
    /\ Present("framer")
    /\ \/ Exhausted("framer")
       \/ pc["framer"] = "send" /\ ~Kept(hand["framer"]) /\ RequestDone
       \/ pc["framer"] = "tail"
    /\ Returns("framer")
    /\ UNCHANGED <<stream, hand, queue, got, made, usage, shown, contexts>>

\* The loop of WriteStream in the handler's own goroutine. "send" is being in
\* w.Write, which returns when the client takes the bytes, with an error once
\* the client is gone.
WriterReceives ==
    /\ Take("writer") /\ Goes("writer", "send")
    /\ UNCHANGED <<stream, made, usage, shown, contexts>>

\* The client has the message. The OpenAI dialect returns after its end event;
\* the others read on until their channel is closed.
WriterWrites ==
    /\ pc["writer"] = "send" /\ ~gone
    /\ shown' = Append(shown, hand["writer"])
    /\ Goes("writer", IF dialect = "openai" /\ hand["writer"].kind = "end"
                      THEN "done" ELSE "receive")
    /\ UNCHANGED <<stream, hand, channels, made, usage, contexts>>

\* The client is gone: w.Write may not notice yet, and StreamIRToOAI ignores
\* its error; the other dialects return with it.
WriterMisses ==
    /\ pc["writer"] = "send" /\ gone
    /\ \/ ~(dialect = "openai" /\ hand["writer"].kind = "end") /\ Goes("writer", "receive")
       \/ (dialect = "openai" => hand["writer"].kind = "end") /\ Goes("writer", "done")
    /\ UNCHANGED <<stream, hand, channels, made, usage, shown, contexts>>

WriterReturns ==
    /\ Exhausted("writer") \/ (pc["writer"] = "receive" /\ RequestDone)
    /\ Goes("writer", "done")
    /\ UNCHANGED <<stream, hand, channels, made, usage, shown, contexts>>

\* makeHandler after WriteStream: ReleaseUpstream(nil), which is the selector's
\* Release and the context's cancel, then the handler returns.
HandlerReleases ==
    /\ pc["writer"] = "done" /\ handler = "writing"
    /\ handler' = "released" /\ released' = released + 1
    /\ UNCHANGED <<stream, pc, hand, channels, made, usage, shown, gone, expired>>

\* Mutant: the stream is released once more by a deferred call.
HandlerReleasesAgain ==
    /\ handler = "released"
    /\ handler' = "returned" /\ released' = released + 1
    /\ UNCHANGED <<stream, pc, hand, channels, made, usage, shown, gone, expired>>

HandlerReturns ==
    /\ handler = "released"
    /\ handler' = "returned"
    /\ UNCHANGED <<stream, pc, hand, channels, made, usage, shown, gone, expired, released>>

\* The client disconnects; the stream's timeout passes.
ClientLeaves ==
    /\ ~gone /\ handler # "returned"
    /\ gone' = TRUE
    /\ UNCHANGED <<stream, pc, hand, channels, made, usage, shown, expired, handler, released>>

Expire ==
    /\ ~expired /\ handler = "writing"
    /\ expired' = TRUE
    /\ UNCHANGED <<stream, pc, hand, channels, made, usage, shown, gone, handler, released>>

Parser == ParserRead \/ ParserTail \/ ParserStops \/ ParserSends \/ ParserEnds \/ ParserGivesUp
Adapter == AdapterReceives \/ AdapterSends \/ AdapterReturns
Tracker == TrackerReceives \/ TrackerSends \/ TrackerReturns
Resolver == ResolverReceives \/ ResolverReturns
Framer == FramerReceives \/ FramerSends \/ FramerKeeps \/ FramerReturns
Writer == WriterReceives \/ WriterWrites \/ WriterMisses \/ WriterReturns
Handler == HandlerReleases \/ HandlerReturns

Next == \/ Parser \/ Adapter \/ Tracker \/ Resolver \/ Framer \/ Writer \/ Handler
        \/ \E reader \in {"framer", "writer"} : Meet(reader)
        \/ ClientLeaves \/ Expire

Spec == Init /\ [][Next]_vars

(* Fairness: the runtime runs every goroutine that can move, the timer of the *)
(* timeout fires, and the transport fails the read of a body whose context is *)
(* done. Nothing makes the provider send, and nothing but the client's going  *)
(* ends a w.Write: the server sets no write timeout.                          *)
ParserMoves == ParserSends \/ ParserEnds \/ ParserGivesUp \/ (StreamDone /\ ParserStops)
WriterMoves == WriterReceives \/ Meet("writer") \/ WriterMisses \/ WriterReturns
FramerMoves == Framer \/ Meet("framer")
Fairness ==
    /\ WF_vars(ParserMoves) /\ WF_vars(Adapter) /\ WF_vars(Tracker) /\ WF_vars(Resolver)
    /\ WF_vars(FramerMoves) /\ WF_vars(WriterMoves) /\ WF_vars(Handler)
    /\ WF_vars(Expire)
FairSpec == Spec /\ Fairness

-----------------------------------------------------------------------------
\* Whatever is cancelled, disconnected or timed out on the way, the client has
\* the content from its beginning, in order and without a gap, and nothing of
\* the tail before all of the content the parser has made: the selects on
\* ctx.Done stop a goroutine, and where streamToIR ignores them it is past the
\* content.
Content(event) == event.kind = "content"
Rank == [content |-> 0, blocks |-> 1, finish |-> 2, usage |-> 3, end |-> 4]
ShownInOrder ==
    \A i \in DOMAIN shown :
        /\ Content(shown[i]) => shown[i].n = i
        /\ ~Content(shown[i]) =>
                /\ shown[i].n = Cardinality({j \in 1..(i - 1) : Content(shown[j])})
                /\ shown[i].n = made
        /\ \A j \in 1..(i - 1) : Content(shown[j]) \/ Rank[shown[j].kind] < Rank[shown[i].kind]

EndShown == shown # <<>> /\ shown[Len(shown)].kind = "end"
AllDone == \A p \in Routines : pc[p] = "done"

\* An answer the client has seen to its end is settled: every goroutine of the
\* stream returns and the totals the tracker counted are recorded, once.
AnswerSettled == EndShown ~> AllDone /\ (counted => recorded = 1)

\* StreamFromUpstream "owns closing resp.Body" (src/core/upstream/adapter.go:34):
\* when the client has left, the timeout has passed or the handler is through,
\* the goroutines that close the body return, however the later ones are stuck.
BodyClosed ==
    StreamDone ~> pc["parser"] = "done" /\ pc["adapter"] = "done"

\* The selection a stream holds is given back once and never twice, unless the client neither takes
\* what is written to it nor goes away: a silent provider is ended by the
\* timeout, a client's leaving ends the writer.
SlotGivenBack ==
    /\ [](released <= 1)
    /\ []<>(pc["writer"] # "send") => <>(released = 1)
=============================================================================
