------------------------- MODULE StreamRelayProofs -------------------------
(***************************************************************************)
(* Theorems about StreamRelay for every provider, dialect and setting of   *)
(* the warden, every capacity of the channels and every length of answer.  *)
(***************************************************************************)
EXTENDS StreamRelay, FiniteSetTheorems, TLAPS

AnEvent == [n : Nat, kind : Kinds]

TypeOK ==
    /\ provider \in {"openai", "gemini", "anthropic"}
    /\ dialect \in {"anthropic", "openai", "responses"}
    /\ warden \in BOOLEAN
    /\ pc \in [Routines -> {"receive", "send", "tail", "done"}]
    /\ hand \in [Routines -> AnEvent]
    /\ queue \in [Channels -> Seq(AnEvent)]
    /\ got \in [Channels -> Nat]
    /\ closed \in [Channels -> BOOLEAN]
    /\ made \in Nat
    /\ counted \in BOOLEAN /\ recorded \in Nat
    /\ shown \in Seq(AnEvent)
    /\ gone \in BOOLEAN /\ expired \in BOOLEAN
    /\ handler \in {"writing", "released", "returned"}
    /\ released \in Nat

\* Where e has just passed, only f may come next: the content goes on with the
\* next number, the tail goes on with a later kind.
Follows(e, f) ==
    IF Content(f)
    THEN Content(e) /\ f.n = e.n + 1
    ELSE f.n = e.n /\ (Content(e) \/ Rank[e.kind] < Rank[f.kind])

\* The events of s come in order behind e, and the last of them all.
InLine(e, s) ==
    /\ s # <<>> => Follows(e, s[1])
    /\ \A i \in 1 .. Len(s) - 1 : Follows(s[i], s[i + 1])
LastBehind(e, s) == IF s = <<>> THEN e ELSE s[Len(s)]

\* The last event on the way to q: hand[q] is still the last event q has
\* received when q has sent it on.
Newest(q) == LastBehind(hand[q], queue[Source(q)])

\* Only the framer keeps an event to itself, and only of the tail.
Passed(p, e) == \/ e = hand[p]
                \/ p = "framer" /\ Kept(hand[p]) /\ Follows(e, hand[p])

Readers == Routines \ {"parser"}
Senders == Routines \ {"writer"}

\* p hands its events to q.
Feeds(p, q) == /\ p \in Senders /\ Present(p)
               /\ q \in Readers /\ Present(q)
               /\ Sink(p) = Source(q)

LaneInOrder(q) == InLine(hand[q], queue[Source(q)])
Linked(p, q) ==
    /\ pc[p] = "send" => Follows(Newest(q), hand[p])
    /\ pc[p] = "receive" => Passed(p, Newest(q))

\* Between the parser and the writer nothing is lost, doubled or overtaken, as
\* long as those who would pass it on are still there.
RelayInOrder ==
    /\ \A q \in Readers : Present(q) => LaneInOrder(q)
    /\ \A p \in Senders, q \in Readers : Feeds(p, q) => Linked(p, q)

\* Every event behind the parser's hand.
In(s) == {s[i] : i \in 1 .. Len(s)}
Travelling == {hand[p] : p \in Readers}
              \cup (UNION {In(queue[c]) : c \in Channels})
              \cup In(shown)

\* The parser numbers what it makes, and makes no content after the tail.
TailIsWhole ==
    /\ hand["parser"].n = made
    /\ pc["parser"] = "receive" => Content(hand["parser"])
    /\ \A e \in Travelling :
            ~Content(e) => e.n = made /\ ~Content(hand["parser"])

LastShown == IF shown = <<>> THEN NoEvent ELSE shown[Len(shown)]
WriterInOrder ==
    ~gone => /\ pc["writer"] = "send" => Follows(LastShown, hand["writer"])
             /\ pc["writer"] = "receive" => LastShown = hand["writer"]

\* Who has no part in this stream never runs, and nobody is left to send on a
\* channel that is closed.
Routing ==
    /\ \A p \in Routines : ~Present(p) => pc[p] = "done"
    /\ \A p \in Senders : closed[Sink(p)] => pc[p] = "done"
    /\ \A p \in Routines : pc[p] = "tail" => p \in {"parser", "adapter", "framer"}

\* The unbuffered channel holds nothing, the others what they have room for.
QueuesFit ==
    /\ queue["resolved"] = <<>>
    /\ \A c \in Buffered : Len(queue[c]) <= Cap[c]

\* The slot and the totals: each given once.
GivenOnce ==
    /\ released = IF handler = "writing" THEN 0 ELSE 1
    /\ handler # "writing" => pc["writer"] = "done"
    /\ recorded = IF pc["tracker"] = "done" /\ counted THEN 1 ELSE 0

IInv ==
    /\ TypeOK /\ Routing /\ QueuesFit /\ GivenOnce
    /\ TailIsWhole /\ RelayInOrder /\ WriterInOrder /\ ShownInOrder

-----------------------------------------------------------------------------
(* Where the goroutines read and write.                                      *)

\* Every channel has one reader and one sender in a stream.
LEMMA OneReader ==
    ASSUME NEW q \in Readers, NEW r \in Readers, Present(q), Present(r),
           Source(q) = Source(r)
    PROVE  q = r
BY DEF Readers, Routines, Source, Present, Events

LEMMA OneSender ==
    ASSUME NEW p \in Senders, NEW r \in Senders, Sink(p) = Sink(r)
    PROVE  p = r
BY DEF Senders, Routines, Sink

LEMMA SourceIsChannel ==
    ASSUME NEW q \in Readers
    PROVE  Source(q) \in Channels
BY DEF Readers, Routines, Source, Events, Channels

LEMMA SinkIsChannel ==
    ASSUME NEW p \in Senders
    PROVE  Sink(p) \in Channels /\ (p # "resolver" => Sink(p) \in Buffered)
BY DEF Senders, Routines, Sink, Channels, Buffered

-----------------------------------------------------------------------------
(* The order of events.                                                      *)

LEMMA FollowsTail ==
    ASSUME NEW e \in AnEvent, NEW f \in AnEvent, NEW g \in AnEvent,
           ~Content(f), Follows(e, f), Follows(f, g)
    PROVE  Follows(e, g)
BY DEF AnEvent, Follows, Content, Rank, Kinds

\* What follows the event p has received follows the last one p has passed on.
LEMMA FollowsPassed ==
    ASSUME NEW p \in Routines, hand[p] \in AnEvent,
           NEW e \in AnEvent, NEW f \in AnEvent,
           Passed(p, e), Follows(hand[p], f)
    PROVE  Follows(e, f)
<1>1. CASE e = hand[p]
  BY <1>1
<1>2. CASE Kept(hand[p]) /\ Follows(e, hand[p])
  BY <1>2, FollowsTail DEF Kept, Content
<1> QED
  BY <1>1, <1>2 DEF Passed

LEMMA NextOfTail ==
    ASSUME NEW e \in AnEvent, e.kind \in {"blocks", "finish", "usage"}
    PROVE  /\ [e EXCEPT !.kind = Following[@]] \in AnEvent
           /\ Follows(e, [e EXCEPT !.kind = Following[@]])
           /\ ~Content([e EXCEPT !.kind = Following[@]])
           /\ [e EXCEPT !.kind = Following[@]].n = e.n
BY DEF AnEvent, Follows, Content, Rank, Kinds, Following

-----------------------------------------------------------------------------
(* Types.                                                                    *)

\* Taking, putting and returning keep the types.
LEMMA TakeTypes ==
    ASSUME TypeOK, NEW q \in Readers, Take(q)
    PROVE  /\ hand' \in [Routines -> AnEvent]
           /\ queue' \in [Channels -> Seq(AnEvent)]
           /\ got' \in [Channels -> Nat]
           /\ closed' \in [Channels -> BOOLEAN]
<1>1. Source(q) \in Channels /\ q \in Routines
  BY SourceIsChannel DEF Readers
<1>2. Head(queue[Source(q)]) \in AnEvent /\ Tail(queue[Source(q)]) \in Seq(AnEvent)
  BY <1>1 DEF Take, TypeOK
<1> QED
  BY <1>1, <1>2 DEF Take, TypeOK

LEMMA PutTypes ==
    ASSUME TypeOK, NEW p \in Senders, Put(p)
    PROVE  /\ queue' \in [Channels -> Seq(AnEvent)]
           /\ got' \in [Channels -> Nat]
           /\ closed' \in [Channels -> BOOLEAN]
<1>1. Sink(p) \in Channels /\ p \in Routines
  BY SinkIsChannel DEF Senders
<1>2. hand[p] \in AnEvent
  BY <1>1 DEF TypeOK
<1>3. Append(queue[Sink(p)], hand[p]) \in Seq(AnEvent)
  BY <1>1, <1>2 DEF TypeOK
<1> QED
  BY <1>1, <1>3 DEF Put, TypeOK

LEMMA ReturnsTypes ==
    ASSUME TypeOK, NEW p \in Senders, Returns(p)
    PROVE  /\ pc' \in [Routines -> {"receive", "send", "tail", "done"}]
           /\ closed' \in [Channels -> BOOLEAN]
BY SinkIsChannel DEF Returns, Goes, TypeOK

\* An event of the tail the parser goes on from has one after it.
LEMMA NextInHand ==
    ASSUME TypeOK, hand["parser"].kind \notin {"content", "end"},
           hand' = [hand EXCEPT !["parser"].kind = Following[@]]
    PROVE  /\ hand' \in [Routines -> AnEvent]
           /\ hand'["parser"] = [hand["parser"] EXCEPT !.kind = Following[@]]
           /\ \A p \in Readers : hand'[p] = hand[p]
<1>1. hand["parser"] \in AnEvent /\ "parser" \in Routines
  BY DEF TypeOK, Routines
<1>2. hand["parser"].kind \in {"blocks", "finish", "usage"}
  BY <1>1 DEF AnEvent, Kinds
<1>3. [hand["parser"] EXCEPT !.kind = Following[@]] \in AnEvent
  BY <1>1, <1>2, NextOfTail
<1>4. hand' = [hand EXCEPT !["parser"] = [hand["parser"] EXCEPT !.kind = Following[@]]]
  OBVIOUS
<1> QED
  BY <1>1, <1>3, <1>4 DEF TypeOK, Readers

LEMMA InitTypes == Init => TypeOK
<1> SUFFICES ASSUME Init PROVE TypeOK
  OBVIOUS
<1>1. Event(1, "content") \in AnEvent /\ NoEvent \in AnEvent
  BY DEF Event, NoEvent, AnEvent, Kinds
<1>2. PICK s \in Streams : provider = s[1] /\ dialect = s[2] /\ warden = s[3]
  BY DEF Init
<1>3. s \in {"openai", "gemini", "anthropic"}
            \X {"anthropic", "openai", "responses"} \X BOOLEAN
  BY StreamsAssumption
<1>4. /\ provider \in {"openai", "gemini", "anthropic"}
      /\ dialect \in {"anthropic", "openai", "responses"}
      /\ warden \in BOOLEAN
  BY <1>2, <1>3
<1>5. pc \in [Routines -> {"receive", "send", "tail", "done"}]
  BY DEF Init
<1>6. hand \in [Routines -> AnEvent]
  BY <1>1 DEF Init
<1>7. queue \in [Channels -> Seq(AnEvent)] /\ shown \in Seq(AnEvent)
  BY DEF Init
<1> QED
  BY <1>4, <1>5, <1>6, <1>7 DEF Init, TypeOK

LEMMA NextTypes == TypeOK /\ [Next]_vars => TypeOK'
<1> SUFFICES ASSUME TypeOK, [Next]_vars PROVE TypeOK'
  OBVIOUS
<1> USE DEF stream, channels, usage, contexts
<1>0. /\ \A p \in {"parser", "adapter", "tracker", "resolver", "framer"} : p \in Senders
      /\ \A q \in {"adapter", "tracker", "resolver", "framer", "writer"} : q \in Readers
  BY DEF Senders, Readers, Routines
<1>1. CASE ParserRead
  BY <1>1 DEF ParserRead, Event, AnEvent, Kinds, Goes, Routines, TypeOK
<1>2. CASE ParserTail
  BY <1>2 DEF ParserTail, Event, AnEvent, Kinds, Goes, Routines, TypeOK, TailBegins
<1>3. CASE ParserStops
  BY <1>0, <1>3, ReturnsTypes DEF ParserStops, TypeOK
<1>4. CASE ParserSends
  <2>1. Put("parser") /\ "parser" \in Routines
    BY <1>4 DEF ParserSends, Routines
  <2>2. CASE hand["parser"].kind \in {"content", "end"}
    <3>1. /\ queue' \in [Channels -> Seq(AnEvent)] /\ got' \in [Channels -> Nat]
          /\ closed' \in [Channels -> BOOLEAN]
      BY <1>0, <2>1, PutTypes
    <3>2. hand' = hand /\ (Goes("parser", "receive") \/ Goes("parser", "tail"))
      BY <1>4, <2>2 DEF ParserSends
    <3>3. pc' \in [Routines -> {"receive", "send", "tail", "done"}]
      BY <2>1, <3>2 DEF Goes, TypeOK
    <3> QED
      BY <1>4, <3>1, <3>2, <3>3 DEF ParserSends, TypeOK
  <2>3. CASE hand["parser"].kind \notin {"content", "end"}
    BY <1>0, <1>4, <2>1, <2>3, PutTypes, NextInHand DEF ParserSends, TypeOK
  <2> QED
    BY <2>2, <2>3
<1>5. CASE ParserEnds
  BY <1>0, <1>5, ReturnsTypes DEF ParserEnds, TypeOK
<1>6. CASE ParserGivesUp
  <2>1. CASE Ignored(hand["parser"].kind)
    BY <1>6, <2>1, NextInHand DEF ParserGivesUp, Ignored, TypeOK
  <2>2. CASE ~Ignored(hand["parser"].kind)
    BY <1>0, <1>6, <2>2, ReturnsTypes DEF ParserGivesUp, TypeOK
  <2> QED
    BY <2>1, <2>2
<1>7. CASE AdapterReceives
  BY <1>0, <1>7, TakeTypes DEF AdapterReceives, Goes, TypeOK
<1>8. CASE AdapterSends
  BY <1>0, <1>8, PutTypes DEF AdapterSends, Goes, TypeOK
<1>9. CASE AdapterReturns
  BY <1>0, <1>9, ReturnsTypes DEF AdapterReturns, TypeOK
<1>10. CASE TrackerReceives
  BY <1>0, <1>10, TakeTypes DEF TrackerReceives, Goes, TypeOK
<1>11. CASE TrackerSends
  BY <1>0, <1>11, PutTypes DEF TrackerSends, Goes, TypeOK
<1>12. CASE TrackerReturns
  BY <1>0, <1>12, ReturnsTypes DEF TrackerReturns, TypeOK
<1>13. CASE ResolverReceives
  BY <1>0, <1>13, TakeTypes DEF ResolverReceives, Goes, TypeOK
<1>14. CASE ResolverReturns
  BY <1>0, <1>14, ReturnsTypes DEF ResolverReturns, TypeOK
<1>15. CASE FramerReceives
  BY <1>0, <1>15, TakeTypes DEF FramerReceives, Goes, TypeOK
<1>16. CASE FramerSends
  BY <1>0, <1>16, PutTypes DEF FramerSends, Goes, TypeOK
<1>17. CASE FramerKeeps
  BY <1>17 DEF FramerKeeps, Goes, TypeOK
<1>18. CASE FramerReturns
  BY <1>0, <1>18, ReturnsTypes DEF FramerReturns, TypeOK
<1>19. CASE WriterReceives
  BY <1>0, <1>19, TakeTypes DEF WriterReceives, Goes, TypeOK
<1>20. CASE WriterWrites
  <2>1. "writer" \in Routines
    BY DEF Routines
  <2>2. Append(shown, hand["writer"]) \in Seq(AnEvent)
    BY <2>1 DEF TypeOK
  <2> QED
    BY <1>20, <2>1, <2>2 DEF WriterWrites, Goes, TypeOK
<1>21. CASE WriterMisses
  BY <1>21 DEF WriterMisses, Goes, TypeOK
<1>22. CASE WriterReturns
  BY <1>22 DEF WriterReturns, Goes, TypeOK
<1>23. CASE HandlerReleases
  BY <1>23 DEF HandlerReleases, Goes, TypeOK
<1>24. CASE HandlerReturns
  BY <1>24 DEF HandlerReturns, Goes, TypeOK
<1>25. CASE ClientLeaves
  BY <1>25 DEF ClientLeaves, Goes, TypeOK
<1>26. CASE Expire
  BY <1>26 DEF Expire, Goes, TypeOK
<1>27. ASSUME NEW reader \in {"framer", "writer"}, Meet(reader) PROVE TypeOK'
  <2>1. "resolver" \in Routines /\ reader \in Routines /\ "resolved" \in Channels
    BY DEF Routines, Channels
  <2>2. pc' \in [Routines -> {"receive", "send", "tail", "done"}]
    BY <1>27, <2>1 DEF Meet, TypeOK
  <2>3. hand' \in [Routines -> AnEvent]
    BY <1>27, <2>1 DEF Meet, TypeOK
  <2>4. got' \in [Channels -> Nat]
    BY <1>27, <2>1 DEF Meet, TypeOK
  <2> QED
    BY <1>27, <2>2, <2>3, <2>4 DEF Meet, TypeOK
<1>28. CASE UNCHANGED vars
  BY <1>28 DEF vars, TypeOK
<1> QED
  BY <1>1, <1>2, <1>3, <1>4, <1>5, <1>6, <1>7, <1>8, <1>9, <1>10, <1>11, <1>12, <1>13, <1>14, <1>15, <1>16, <1>17, <1>18, <1>19, <1>20, <1>21, <1>22, <1>23, <1>24, <1>25, <1>26, <1>27, <1>28
     DEF Next, Parser, Adapter, Tracker, Resolver, Framer, Writer, Handler

-----------------------------------------------------------------------------
(* What a step does to the events: the moves of the relay.                   *)

Others == <<made, shown>>

Makes ==
    /\ pc["parser"] = "receive" /\ Goes("parser", "send")
    /\ \E f \in AnEvent :
         /\ hand' = [hand EXCEPT !["parser"] = f]
         /\ f.n = made' /\ made' = IF Content(f) THEN made + 1 ELSE made
    /\ UNCHANGED <<queue, closed, shown>>
Receives(q) ==
    /\ Present(q) /\ Take(q) /\ Goes(q, "send") /\ UNCHANGED Others
Sends(p, x) ==
    /\ p # "resolver" /\ Put(p) /\ Goes(p, x)
    /\ ~(p = "framer" /\ Kept(hand[p]))
    /\ x = "receive" /\ p = "parser" => Content(hand[p])
    /\ x = "tail" => p \in {"parser", "adapter", "framer"}
    /\ UNCHANGED <<hand, made, shown>>

\* The parser goes on to the next event of its tail, whether or not the one in
\* its hand has been sent.
GoesOn ==
    /\ pc["parser"] = "send" /\ UNCHANGED <<pc, closed, made, shown>>
    /\ hand["parser"].kind \in {"blocks", "finish", "usage"}
    /\ hand' = [hand EXCEPT !["parser"].kind = Following[@]]
    /\ Put("parser") \/ UNCHANGED queue
Leaves(p) ==
    /\ pc[p] # "done" /\ Goes(p, "done")
    /\ \/ p = "writer" /\ UNCHANGED closed
       \/ p \in Senders /\ closed' = [closed EXCEPT ![Sink(p)] = TRUE]
    /\ UNCHANGED <<hand, queue, made, shown>>
Keeps ==
    /\ pc["framer"] = "send" /\ Kept(hand["framer"]) /\ Goes("framer", "receive")
    /\ UNCHANGED <<hand, queue, closed, made, shown>>
Writes ==
    /\ pc["writer"] = "send" /\ ~gone
    /\ shown' = Append(shown, hand["writer"])
    /\ Goes("writer", "receive") \/ Goes("writer", "done")
    /\ UNCHANGED <<hand, queue, closed, made>>
Misses ==
    /\ pc["writer"] = "send" /\ gone /\ Goes("writer", "receive")
    /\ UNCHANGED <<hand, queue, closed, made, shown>>
Quiet == UNCHANGED <<pc, hand, queue, closed, made, shown>>

Move ==
    \/ Makes \/ GoesOn \/ Keeps \/ Writes \/ Misses \/ Quiet
    \/ \E q \in Readers : Receives(q)
    \/ \E p \in Senders, x \in {"receive", "tail"} : Sends(p, x)
    \/ \E p \in Routines : Leaves(p)
    \/ \E reader \in {"framer", "writer"} : Meet(reader)

LEMMA EveryStepMoves ==
    ASSUME TypeOK, Routing, [Next]_vars
    PROVE  Move /\ UNCHANGED stream /\ (gone => gone')
<1> USE DEF stream, channels, usage, contexts
<1>0. /\ \A p \in {"parser", "adapter", "tracker", "resolver", "framer"} : p \in Senders /\ p \in Routines
      /\ \A q \in {"adapter", "tracker", "resolver", "framer", "writer"} : q \in Readers /\ q \in Routines
  BY DEF Senders, Readers, Routines
<1>00. hand["parser"] \in AnEvent
  BY <1>0 DEF TypeOK
<1>1. CASE ParserRead
  <2> DEFINE f == Event(made + 1, "content")
  <2>1. f \in AnEvent /\ f.n = made' /\ made' = IF Content(f) THEN made + 1 ELSE made
    BY <1>1 DEF ParserRead, Event, AnEvent, Kinds, Content, TypeOK
  <2>2. hand' = [hand EXCEPT !["parser"] = f]
    BY <1>1 DEF ParserRead
  <2> HIDE DEF f
  <2>3. Makes
    BY <1>1, <2>1, <2>2 DEF ParserRead, Makes
  <2> QED
    BY <1>1, <2>3 DEF ParserRead, Move
<1>2. CASE ParserTail
  <2>0. PICK kind \in TailBegins : hand' = [hand EXCEPT !["parser"] = Event(made, kind)]
    BY <1>2 DEF ParserTail
  <2>00. kind \in Kinds \ {"content"}
    BY <2>0 DEF TailBegins, Kinds, TypeOK
  <2> DEFINE f == Event(made, kind)
  <2>1. f \in AnEvent /\ f.n = made' /\ made' = IF Content(f) THEN made + 1 ELSE made
    BY <1>2, <2>00 DEF ParserTail, Event, AnEvent, Kinds, Content, TypeOK
  <2>2. hand' = [hand EXCEPT !["parser"] = f]
    BY <1>2, <2>0 DEF ParserTail
  <2> HIDE DEF f
  <2>3. Makes
    BY <1>2, <2>1, <2>2 DEF ParserTail, Makes
  <2> QED
    BY <1>2, <2>3 DEF ParserTail, Move
<1>3. CASE ParserStops
  <2>1. Leaves("parser")
    BY <1>0, <1>3 DEF ParserStops, Leaves, Goes, Exhausted, Returns
  <2> QED
    BY <1>0, <1>3, <2>1 DEF ParserStops, Move
<1>4. CASE ParserSends
  <2>1. CASE hand["parser"].kind = "content"
    <3>1. Sends("parser", "receive")
      BY <1>4, <2>1 DEF ParserSends, Sends, Content
    <3> QED
      BY <1>0, <1>4, <3>1 DEF ParserSends, Move
  <2>2. CASE hand["parser"].kind = "end"
    <3>1. Sends("parser", "tail")
      BY <1>4, <2>2 DEF ParserSends, Sends
    <3> QED
      BY <1>0, <1>4, <3>1 DEF ParserSends, Move
  <2>3. CASE hand["parser"].kind \notin {"content", "end"}
    <3>1. GoesOn
      BY <1>00, <1>4, <2>3 DEF ParserSends, Put, GoesOn, AnEvent, Kinds
    <3> QED
      BY <1>4, <3>1 DEF ParserSends, Move
  <2> QED
    BY <2>1, <2>2, <2>3
<1>5. CASE ParserEnds
  <2>1. Leaves("parser")
    BY <1>0, <1>5 DEF ParserEnds, Leaves, Goes, Exhausted, Returns
  <2> QED
    BY <1>0, <1>5, <2>1 DEF ParserEnds, Move
<1>6. CASE ParserGivesUp
  <2>1. CASE Ignored(hand["parser"].kind)
    <3>1. GoesOn
      BY <1>6, <2>1 DEF ParserGivesUp, Ignored, GoesOn
    <3> QED
      BY <1>6, <3>1 DEF ParserGivesUp, Move
  <2>2. CASE ~Ignored(hand["parser"].kind)
    <3>1. Leaves("parser")
      BY <1>0, <1>6, <2>2 DEF ParserGivesUp, Leaves, Returns
    <3> QED
      BY <1>0, <1>6, <3>1 DEF ParserGivesUp, Move
  <2> QED
    BY <2>1, <2>2
<1>7. CASE AdapterReceives
  <2>1. Receives("adapter")
    BY <1>7 DEF AdapterReceives, Receives, Others, Present
  <2> QED
    BY <1>0, <1>7, <2>1 DEF AdapterReceives, Move
<1>8. CASE AdapterSends
  <2>1. PICK x \in {"receive", "tail"} : Sends("adapter", x)
    BY <1>8 DEF AdapterSends, Sends, Goes
  <2> QED
    BY <1>0, <1>8, <2>1 DEF AdapterSends, Move
<1>9. CASE AdapterReturns
  <2>1. Leaves("adapter")
    BY <1>0, <1>9 DEF AdapterReturns, Leaves, Goes, Exhausted, Returns
  <2> QED
    BY <1>0, <1>9, <2>1 DEF AdapterReturns, Move
<1>10. CASE TrackerReceives
  <2>1. Receives("tracker")
    BY <1>10 DEF TrackerReceives, Receives, Others, Present
  <2> QED
    BY <1>0, <1>10, <2>1 DEF TrackerReceives, Move
<1>11. CASE TrackerSends
  <2>1. PICK x \in {"receive", "tail"} : Sends("tracker", x)
    BY <1>11 DEF TrackerSends, Sends, Goes
  <2> QED
    BY <1>0, <1>11, <2>1 DEF TrackerSends, Move
<1>12. CASE TrackerReturns
  <2>1. Leaves("tracker")
    BY <1>0, <1>12 DEF TrackerReturns, Leaves, Goes, Exhausted, Returns
  <2> QED
    BY <1>0, <1>12, <2>1 DEF TrackerReturns, Move
<1>13. CASE ResolverReceives
  <2>1. Receives("resolver")
    BY <1>13 DEF ResolverReceives, Receives, Others, Present
  <2> QED
    BY <1>0, <1>13, <2>1 DEF ResolverReceives, Move
<1>14. CASE ResolverReturns
  <2>1. Leaves("resolver")
    BY <1>0, <1>14 DEF ResolverReturns, Leaves, Goes, Exhausted, Returns
  <2> QED
    BY <1>0, <1>14, <2>1 DEF ResolverReturns, Move
<1>15. CASE FramerReceives
  <2>1. Receives("framer")
    BY <1>15 DEF FramerReceives, Receives, Others, Present
  <2> QED
    BY <1>0, <1>15, <2>1 DEF FramerReceives, Move
<1>16. CASE FramerSends
  <2>1. PICK x \in {"receive", "tail"} : Sends("framer", x)
    BY <1>16 DEF FramerSends, Sends, Goes
  <2> QED
    BY <1>0, <1>16, <2>1 DEF FramerSends, Move
<1>17. CASE FramerKeeps
  BY <1>17 DEF FramerKeeps, Keeps, Goes, Move
<1>18. CASE FramerReturns
  <2>1. Leaves("framer")
    BY <1>0, <1>18 DEF FramerReturns, Leaves, Goes, Exhausted, Returns
  <2> QED
    BY <1>0, <1>18, <2>1 DEF FramerReturns, Move
<1>19. CASE WriterReceives
  <2>1. Receives("writer")
    BY <1>19 DEF WriterReceives, Receives, Others, Present
  <2> QED
    BY <1>0, <1>19, <2>1 DEF WriterReceives, Move
<1>20. CASE WriterWrites
  BY <1>20 DEF WriterWrites, Writes, Goes, Move
<1>21. CASE WriterMisses
  <2>1. CASE Goes("writer", "receive")
    BY <1>21, <2>1 DEF WriterMisses, Misses, Move
  <2>2. CASE Goes("writer", "done")
    <3>1. Leaves("writer")
      BY <1>21, <2>2 DEF WriterMisses, Leaves
    <3> QED
      BY <1>0, <1>21, <3>1 DEF WriterMisses, Move
  <2> QED
    BY <1>21, <2>1, <2>2 DEF WriterMisses
<1>22. CASE WriterReturns
  <2>1. Leaves("writer")
    BY <1>0, <1>22 DEF WriterReturns, Leaves, Goes, Exhausted
  <2> QED
    BY <1>0, <1>22, <2>1 DEF WriterReturns, Move
<1>23. CASE HandlerReleases
  BY <1>23 DEF HandlerReleases, Quiet, Goes, Move
<1>24. CASE HandlerReturns
  BY <1>24 DEF HandlerReturns, Quiet, Goes, Move
<1>25. CASE ClientLeaves
  BY <1>25 DEF ClientLeaves, Quiet, Goes, Move
<1>26. CASE Expire
  BY <1>26 DEF Expire, Quiet, Goes, Move
<1>27. ASSUME NEW reader \in {"framer", "writer"}, Meet(reader) PROVE Move /\ UNCHANGED stream /\ (gone => gone')
  BY <1>27 DEF Meet, Move
<1>28. CASE UNCHANGED vars
  BY <1>28 DEF vars, Quiet, Move
<1> QED
  BY <1>1, <1>2, <1>3, <1>4, <1>5, <1>6, <1>7, <1>8, <1>9, <1>10, <1>11, <1>12, <1>13, <1>14, <1>15, <1>16, <1>17, <1>18, <1>19, <1>20, <1>21, <1>22, <1>23, <1>24, <1>25, <1>26, <1>27, <1>28
     DEF Next, Parser, Adapter, Tracker, Resolver, Framer, Writer, Handler

-----------------------------------------------------------------------------
(* Who runs, and what the channels hold.                                     *)

\* One goroutine goes elsewhere; it closes its channel if it returns.
LEMMA RoutingStep ==
    ASSUME TypeOK, Routing, UNCHANGED stream,
           NEW p \in Routines, pc[p] # "done",
           NEW x \in {"receive", "send", "tail", "done"},
           pc' = [pc EXCEPT ![p] = x],
           x = "tail" => p \in {"parser", "adapter", "framer"},
           \/ closed' = closed
           \/ x = "done" /\ p \in Senders /\ closed' = [closed EXCEPT ![Sink(p)] = TRUE]
    PROVE  Routing'
<1>1. \A r \in Routines : Present(r)' = Present(r) /\ Sink(r)' = Sink(r)
  BY DEF Present, stream, Sink
<1>2. \A r \in Routines : pc'[r] = IF r = p THEN x ELSE pc[r]
  BY DEF TypeOK
<1>3. Present(p)
  BY DEF Routing
<1>4. ASSUME NEW r \in Senders, closed'[Sink(r)]
      PROVE  pc'[r] = "done"
  <2>1. r \in Routines /\ Sink(r) \in Channels
    BY SinkIsChannel DEF Senders
  <2>2. CASE closed' = closed
    <3>1. pc[r] = "done"
      BY <1>4, <2>2 DEF Routing
    <3> QED
      BY <1>2, <2>1, <3>1
  <2>3. CASE x = "done" /\ p \in Senders /\ closed' = [closed EXCEPT ![Sink(p)] = TRUE]
    <3>1. CASE r = p
      BY <1>2, <2>1, <2>3, <3>1
    <3>2. CASE r # p
      <4>1. Sink(r) # Sink(p)
        BY <2>3, <3>2, OneSender
      <4>2. closed[Sink(r)]
        BY <1>4, <2>1, <2>3, <4>1 DEF TypeOK
      <4> QED
        BY <1>2, <2>1, <3>2, <4>2 DEF Routing
    <3> QED
      BY <3>1, <3>2
  <2> QED
    BY <2>2, <2>3
<1>5. \A r \in Senders : (closed[Sink(r)])' = closed'[Sink(r)]
  BY <1>1 DEF Senders
<1> QED
  BY <1>1, <1>2, <1>3, <1>4, <1>5 DEF Routing

LEMMA NextRouting ==
    ASSUME TypeOK, Routing, Move, UNCHANGED stream
    PROVE  Routing'
<1>0. /\ \A q \in Readers : q \in Routines
      /\ \A p \in Senders : p \in Routines
      /\ \A p \in {"parser", "framer", "writer", "resolver"} : p \in Routines
  BY DEF Senders, Readers, Routines
<1>1. CASE Makes
  BY <1>0, <1>1, RoutingStep DEF Makes, Goes
<1>2. CASE GoesOn \/ Quiet
  <2>1. UNCHANGED <<pc, closed>>
    BY <1>2 DEF GoesOn, Quiet
  <2> QED
    BY <2>1 DEF Routing, Present, stream, Sink
<1>3. CASE Keeps
  BY <1>0, <1>3, RoutingStep DEF Keeps, Goes
<1>4. CASE Writes
  BY <1>0, <1>4, RoutingStep DEF Writes, Goes
<1>5. CASE Misses
  BY <1>0, <1>5, RoutingStep DEF Misses, Goes
<1>6. ASSUME NEW q \in Readers, Receives(q) PROVE Routing'
  BY <1>0, <1>6, RoutingStep DEF Receives, Take, Goes
<1>7. ASSUME NEW p \in Senders, NEW x \in {"receive", "tail"}, Sends(p, x)
      PROVE  Routing'
  BY <1>0, <1>7, RoutingStep DEF Sends, Put, Goes
<1>8. ASSUME NEW p \in Routines, Leaves(p) PROVE Routing'
  BY <1>0, <1>8, RoutingStep DEF Leaves, Goes
<1>9. ASSUME NEW reader \in {"framer", "writer"}, Meet(reader) PROVE Routing'
  <2>1. /\ \A r \in Routines : Present(r)' = Present(r)
        /\ \A r \in Routines : Sink(r)' = Sink(r)
    BY DEF Present, stream, Sink
  <2>2. \A r \in Routines : pc'[r] = IF r = "resolver" THEN "receive"
                                     ELSE IF r = reader THEN "send" ELSE pc[r]
    BY <1>0, <1>9 DEF Meet, TypeOK
  <2>3. closed' = closed
    BY <1>9 DEF Meet
  <2>4. pc["resolver"] = "send" /\ pc[reader] = "receive"
    BY <1>9 DEF Meet
  <2>5. \A r \in Senders : (closed[Sink(r)])' = closed[Sink(r)] /\ r \in Routines
    BY <1>0, <2>1, <2>3
  <2> QED
    BY <2>1, <2>2, <2>4, <2>5 DEF Routing
<1> QED
  BY <1>1, <1>2, <1>3, <1>4, <1>5, <1>6, <1>7, <1>8, <1>9 DEF Move

LEMMA TakeFits ==
    ASSUME TypeOK, QueuesFit, NEW q \in Readers, Take(q)
    PROVE  QueuesFit'
<1>1. Source(q) \in Channels
  BY SourceIsChannel
<1>2. queue[Source(q)] \in Seq(AnEvent) /\ queue[Source(q)] # <<>>
  BY <1>1 DEF Take, TypeOK
<1>3. Len(Tail(queue[Source(q)])) <= Len(queue[Source(q)])
  BY <1>2
<1>4. \A c \in Channels :
        queue'[c] = IF c = Source(q) THEN Tail(queue[c]) ELSE queue[c]
  BY <1>1 DEF Take, TypeOK
<1>5. \A c \in Buffered :
        c \in Channels /\ Cap[c] \in Nat /\ Len(queue[c]) \in Nat /\ Len(queue'[c]) \in Nat
  BY <1>4, CapAssumption, <1>2 DEF TypeOK, Buffered, Channels
<1>6. "resolved" \in Channels
  BY DEF Channels
<1>7. queue'["resolved"] = <<>>
  BY <1>2, <1>4, <1>6 DEF QueuesFit
<1>8. ASSUME NEW c \in Buffered PROVE Len(queue'[c]) <= Cap[c]
  <2>1. Len(queue[c]) <= Cap[c]
    BY DEF QueuesFit
  <2>2. Len(queue'[c]) <= Len(queue[c])
    <3>1. CASE c = Source(q)
      <4>1. queue'[c] = Tail(queue[Source(q)])
        BY <1>4, <1>5, <3>1
      <4> QED
        BY <1>3, <3>1, <4>1
    <3>2. CASE c # Source(q)
      BY <1>4, <1>5, <3>2
    <3> QED
      BY <3>1, <3>2
  <2> QED
    BY <1>5, <2>1, <2>2
<1> QED
  BY <1>7, <1>8 DEF QueuesFit

LEMMA PutFits ==
    ASSUME TypeOK, Routing, QueuesFit, NEW p \in Senders, p # "resolver", Put(p)
    PROVE  QueuesFit'
<1>1. Sink(p) \in Buffered /\ p \in Routines
  BY SinkIsChannel DEF Senders
<1>2. queue[Sink(p)] \in Seq(AnEvent) /\ hand[p] \in AnEvent
  BY <1>1 DEF Buffered, TypeOK
<1>3. Len(Append(queue[Sink(p)], hand[p])) = Len(queue[Sink(p)]) + 1
  BY <1>2
<1>4. \A c \in Channels :
        queue'[c] = IF c = Sink(p) THEN Append(queue[c], hand[p]) ELSE queue[c]
  BY <1>1 DEF Put, TypeOK, Buffered
<1>5. Cap[Sink(p)] \in Nat /\ Len(queue[Sink(p)]) \in Nat
  BY <1>1, <1>2, CapAssumption
<1>6. "resolved" \in Channels /\ "resolved" \notin Buffered /\ Buffered \subseteq Channels
  BY DEF Channels, Buffered
<1> QED
  BY <1>1, <1>3, <1>4, <1>5, <1>6 DEF QueuesFit, Put

LEMMA NextFits ==
    ASSUME TypeOK, Routing, QueuesFit, Move
    PROVE  QueuesFit'
<1>1. CASE UNCHANGED queue
  BY <1>1 DEF QueuesFit
<1>2. CASE GoesOn
  <2>1. "parser" \in Senders
    BY DEF Senders, Routines
  <2> QED
    BY <1>1, <1>2, <2>1, PutFits DEF GoesOn
<1>3. ASSUME NEW q \in Readers, Receives(q) PROVE QueuesFit'
  BY <1>3, TakeFits DEF Receives
<1>4. ASSUME NEW p \in Senders, NEW x \in {"receive", "tail"}, Sends(p, x)
      PROVE  QueuesFit'
  BY <1>4, PutFits DEF Sends
<1> QED
  BY <1>1, <1>2, <1>3, <1>4
     DEF Move, Makes, Keeps, Writes, Misses, Quiet, Leaves, Meet

-----------------------------------------------------------------------------
(* The order of the events on their way.                                     *)

LEMMA EventsTyped ==
    ASSUME TypeOK, NEW q \in Readers
    PROVE  /\ hand[q] \in AnEvent
           /\ queue[Source(q)] \in Seq(AnEvent)
           /\ Newest(q) \in AnEvent
<1>1. Source(q) \in Channels /\ q \in Routines
  BY SourceIsChannel DEF Readers
<1>2. queue[Source(q)] \in Seq(AnEvent) /\ hand[q] \in AnEvent
  BY <1>1 DEF TypeOK
<1>3. queue[Source(q)] # <<>> =>
        queue[Source(q)][Len(queue[Source(q)])] \in AnEvent
  BY <1>2
<1> QED
  BY <1>2, <1>3 DEF Newest, LastBehind

\* Taking the first event of a line, and putting one at its end.
LEMMA LineTail ==
    ASSUME NEW e, NEW s \in Seq(AnEvent), s # <<>>, InLine(e, s)
    PROVE  /\ InLine(s[1], Tail(s))
           /\ LastBehind(s[1], Tail(s)) = LastBehind(e, s)
           /\ Follows(e, s[1])
<1> DEFINE t == Tail(s)
<1>1. /\ Len(s) \in Nat \ {0} /\ t \in Seq(AnEvent) /\ Len(t) = Len(s) - 1
      /\ \A i \in 1 .. Len(s) - 1 : t[i] = s[i + 1]
  OBVIOUS
<1> HIDE DEF t
<1>2. t # <<>> => Len(t) # 0
  BY <1>1
<1>3. t = <<>> => Len(t) = 0
  OBVIOUS
<1>4. Follows(e, s[1]) /\ \A i \in 1 .. Len(s) - 1 : Follows(s[i], s[i + 1])
  BY DEF InLine
<1>5. t # <<>> => Follows(s[1], t[1])
  <2>1. t # <<>> => 1 \in 1 .. Len(s) - 1
    BY <1>1, <1>2
  <2> QED
    BY <1>1, <1>4, <2>1
<1>6. ASSUME NEW i \in 1 .. Len(t) - 1 PROVE Follows(t[i], t[i + 1])
  <2>1. i \in 1 .. Len(s) - 1 /\ i + 1 \in 1 .. Len(s) - 1
    BY <1>1
  <2>2. t[i] = s[i + 1] /\ t[i + 1] = s[i + 1 + 1]
    BY <1>1, <2>1
  <2> QED
    BY <1>4, <2>1, <2>2
<1>7. LastBehind(s[1], t) = LastBehind(e, s)
  <2>1. t = <<>> => Len(s) = 1
    BY <1>1, <1>3
  <2>2. t # <<>> => Len(t) \in 1 .. Len(s) - 1 /\ Len(t) + 1 = Len(s)
    BY <1>1, <1>2
  <2>3. t # <<>> => t[Len(t)] = s[Len(s)]
    BY <1>1, <2>2
  <2> QED
    BY <2>1, <2>3 DEF LastBehind
<1>8. InLine(s[1], t)
  BY <1>5, <1>6 DEF InLine
<1> QED
  BY <1>4, <1>7, <1>8 DEF t

LEMMA LineAppend ==
    ASSUME NEW e, NEW s \in Seq(AnEvent), NEW f \in AnEvent,
           InLine(e, s), Follows(LastBehind(e, s), f)
    PROVE  InLine(e, Append(s, f)) /\ LastBehind(e, Append(s, f)) = f
<1> DEFINE t == Append(s, f)
<1>1. /\ Len(s) \in Nat /\ Len(t) = Len(s) + 1 /\ t # <<>> /\ t[Len(s) + 1] = f
      /\ \A i \in 1 .. Len(s) : t[i] = s[i]
      /\ s # <<>> => Len(s) # 0
      /\ s = <<>> => Len(s) = 0
  OBVIOUS
<1> HIDE DEF t
<1>2. Follows(e, t[1])
  <2>1. CASE s = <<>>
    BY <1>1, <2>1 DEF LastBehind
  <2>2. CASE s # <<>>
    <3>1. 1 \in 1 .. Len(s)
      BY <1>1, <2>2
    <3> QED
      BY <1>1, <2>2, <3>1 DEF InLine
  <2> QED
    BY <2>1, <2>2
<1>3. ASSUME NEW i \in 1 .. Len(t) - 1 PROVE Follows(t[i], t[i + 1])
  <2>1. i \in 1 .. Len(s) /\ t[i] = s[i]
    BY <1>1
  <2>2. CASE i = Len(s)
    <3>1. LastBehind(e, s) = s[Len(s)]
      BY <1>1, <2>1 DEF LastBehind
    <3> QED
      BY <1>1, <2>1, <2>2, <3>1
  <2>3. CASE i # Len(s)
    <3>1. i \in 1 .. Len(s) - 1 /\ i + 1 \in 1 .. Len(s)
      BY <1>1, <2>1, <2>3
    <3> QED
      BY <1>1, <2>1, <3>1 DEF InLine
  <2> QED
    BY <2>2, <2>3
<1>4. LastBehind(e, t) = f
  BY <1>1 DEF LastBehind
<1>5. InLine(e, t)
  BY <1>2, <1>3 DEF InLine
<1> QED
  BY <1>4, <1>5 DEF t

\* A reader takes the oldest event of its lane.
LEMMA TakeKeepsLane ==
    ASSUME TypeOK, UNCHANGED stream, NEW q \in Readers, LaneInOrder(q), Take(q)
    PROVE  /\ LaneInOrder(q)'
           /\ Newest(q)' = Newest(q)
           /\ Follows(hand[q], hand'[q])
<1> DEFINE s == queue[Source(q)]
<1>1. Source(q) \in Channels /\ q \in Routines /\ Source(q)' = Source(q)
  BY SourceIsChannel DEF Readers, Source, Events, stream
<1>2. s \in Seq(AnEvent) /\ s # <<>>
  BY <1>1 DEF Take, TypeOK
<1>3. hand'[q] = s[1] /\ queue'[Source(q)] = Tail(s)
  BY <1>1, <1>2 DEF Take, TypeOK
<1>4. InLine(hand[q], s)
  BY DEF LaneInOrder
<1>5. /\ InLine(s[1], Tail(s)) /\ Follows(hand[q], s[1])
      /\ LastBehind(s[1], Tail(s)) = LastBehind(hand[q], s)
  BY <1>2, <1>4, LineTail
<1> QED
  BY <1>1, <1>3, <1>5 DEF LaneInOrder, Newest

\* A sender puts the next event at the end of the lane.
LEMMA PutKeepsLane ==
    ASSUME TypeOK, UNCHANGED stream, NEW p \in Senders, NEW q \in Readers,
           Feeds(p, q), LaneInOrder(q), Linked(p, q), Put(p), hand'[q] = hand[q]
    PROVE  LaneInOrder(q)' /\ Newest(q)' = hand[p]
<1> DEFINE s == queue[Source(q)]
<1>1. /\ Source(q) \in Channels /\ q \in Routines /\ Source(q)' = Source(q)
      /\ Sink(p) = Source(q) /\ p \in Routines
  BY SourceIsChannel DEF Readers, Senders, Source, Events, stream, Feeds
<1>2. s \in Seq(AnEvent) /\ hand[p] \in AnEvent
  BY <1>1 DEF TypeOK
<1>3. queue'[Source(q)] = Append(s, hand[p])
  BY <1>1 DEF Put, TypeOK
<1>4. InLine(hand[q], s) /\ Follows(LastBehind(hand[q], s), hand[p])
  BY DEF LaneInOrder, Newest, Put, Linked
<1>5. /\ InLine(hand[q], Append(s, hand[p]))
      /\ LastBehind(hand[q], Append(s, hand[p])) = hand[p]
  BY <1>2, <1>4, LineAppend
<1> QED
  BY <1>1, <1>3, <1>5 DEF LaneInOrder, Newest

\* A lane is as it was when its reader has received nothing and nothing has
\* been put in its channel.
LEMMA SameLane ==
    ASSUME UNCHANGED stream, NEW q \in Readers, hand'[q] = hand[q],
           queue'[Source(q)] = queue[Source(q)]
    PROVE  /\ LaneInOrder(q)' = LaneInOrder(q)
           /\ Newest(q)' = Newest(q)
BY DEF LaneInOrder, Newest, Source, Events, stream

LEMMA SameFeeds ==
    ASSUME UNCHANGED stream
    PROVE  /\ \A p \in Routines : Present(p)' = Present(p)
           /\ \A p, q : Feeds(p, q)' = Feeds(p, q)
BY DEF Present, Feeds, Sink, Source, Events, stream

\* A step that leaves every lane alone and changes at most what p is at.
LEMMA LanesAlone ==
    ASSUME TypeOK, RelayInOrder, UNCHANGED <<stream, queue>>,
           NEW p \in Routines, \A q \in Readers : hand'[q] = hand[q],
           \A r \in Routines \ {p} : pc'[r] = pc[r] /\ hand'[r] = hand[r],
           \A q \in Readers : Feeds(p, q) =>
                /\ pc'[p] = "send" => Follows(Newest(q), hand'[p])
                /\ pc'[p] = "receive" => Passed(p, Newest(q)) /\ hand'[p] = hand[p]
    PROVE  RelayInOrder'
<1>1. \A q \in Readers : q \in Routines /\ Present(q)' = Present(q)
                         /\ LaneInOrder(q)' = LaneInOrder(q) /\ Newest(q)' = Newest(q)
  BY SameLane, SameFeeds DEF Readers
<1>2. ASSUME NEW r \in Senders, NEW q \in Readers, Feeds(r, q)
      PROVE  Linked(r, q)'
  <2>1. r \in Routines /\ Newest(q)' = Newest(q)
    BY <1>1 DEF Senders
  <2>2. CASE r = p
    BY <1>2, <2>1, <2>2 DEF Linked, Passed
  <2>3. CASE r # p
    <3>1. pc'[r] = pc[r] /\ hand'[r] = hand[r]
      BY <2>1, <2>3
    <3> QED
      BY <1>2, <2>1, <3>1 DEF Linked, Passed, RelayInOrder
  <2> QED
    BY <2>2, <2>3
<1> QED
  BY <1>1, <1>2, SameFeeds DEF RelayInOrder

LEMMA ReceivesInOrder ==
    ASSUME TypeOK, RelayInOrder, UNCHANGED stream, NEW o \in Readers, Receives(o)
    PROVE  RelayInOrder'
<1>1. o \in Routines /\ Source(o) \in Channels
  BY SourceIsChannel DEF Readers
<1>2. \A p \in Routines : pc'[p] = IF p = o THEN "send" ELSE pc[p]
  BY <1>1 DEF Receives, Goes, TypeOK
<1>3. \A p \in Routines \ {o} : hand'[p] = hand[p]
  BY DEF Receives, Take, TypeOK
<1>4. /\ LaneInOrder(o)' /\ Newest(o)' = Newest(o)
      /\ Follows(hand[o], hand'[o])
  BY TakeKeepsLane DEF Receives, RelayInOrder
<1>5. ASSUME NEW q \in Readers, Present(q)
      PROVE  LaneInOrder(q)' /\ Newest(q)' = Newest(q)
  <2>1. CASE q = o
    BY <1>4, <2>1
  <2>2. CASE q # o
    <3>1. Source(q) # Source(o) /\ Source(q) \in Channels /\ q \in Routines
      BY <1>5, <2>2, OneReader, SourceIsChannel DEF Receives, Readers
    <3>2. queue'[Source(q)] = queue[Source(q)] /\ hand'[q] = hand[q]
      BY <1>3, <2>2, <3>1 DEF Receives, Take, TypeOK
    <3> QED
      BY <1>5, <3>2, SameLane DEF RelayInOrder
  <2> QED
    BY <2>1, <2>2
<1>6. ASSUME NEW p \in Senders, NEW q \in Readers, Feeds(p, q)
      PROVE  Linked(p, q)'
  <2>1. Newest(q)' = Newest(q) /\ p \in Routines
    BY <1>5, <1>6 DEF Feeds, Senders
  <2>2. Linked(p, q)
    BY <1>6 DEF RelayInOrder
  <2>3. CASE p = o
    <3>1. Passed(p, Newest(q))
      BY <2>2, <2>3 DEF Receives, Take, Linked
    <3>2. hand[p] \in AnEvent /\ hand'[p] \in AnEvent /\ Newest(q) \in AnEvent
      BY <2>1, <2>3, EventsTyped, TakeTypes DEF Receives, TypeOK
    <3>3. Follows(Newest(q), hand'[p])
      BY <1>4, <2>1, <2>3, <3>1, <3>2, FollowsPassed
    <3> QED
      BY <1>2, <2>1, <2>3, <3>3 DEF Linked
  <2>4. CASE p # o
    <3>1. pc'[p] = pc[p] /\ hand'[p] = hand[p]
      BY <1>2, <1>3, <2>1, <2>4
    <3> QED
      BY <2>1, <2>2, <3>1 DEF Linked, Passed
  <2> QED
    BY <2>3, <2>4
<1> QED
  BY <1>5, <1>6, SameFeeds DEF RelayInOrder, Readers

\* The sender's hand is now at the end of the lane it feeds.
LEMMA PutInOrder ==
    ASSUME TypeOK, Routing, RelayInOrder, UNCHANGED stream,
           NEW o \in Senders, Put(o), \A q \in Readers : hand'[q] = hand[q],
           \A p \in Routines \ {o} : pc'[p] = pc[p] /\ hand'[p] = hand[p],
           pc'[o] = "send" => Follows(hand[o], hand'[o]),
           pc'[o] = "receive" => hand'[o] = hand[o]
    PROVE  RelayInOrder'
<1>1. o \in Routines /\ Present(o) /\ Sink(o) \in Channels
  BY SinkIsChannel DEF Senders, Routing, Put
<1>2. ASSUME NEW q \in Readers, Present(q), Source(q) # Sink(o)
      PROVE  LaneInOrder(q)' /\ Newest(q)' = Newest(q)
  <2>1. queue'[Source(q)] = queue[Source(q)]
    BY <1>1, <1>2, SourceIsChannel DEF Put, TypeOK
  <2> QED
    BY <1>2, <2>1, SameLane DEF RelayInOrder
<1>3. ASSUME NEW q \in Readers, Present(q), Source(q) = Sink(o)
      PROVE  LaneInOrder(q)' /\ Newest(q)' = hand[o]
  <2>1. Feeds(o, q)
    BY <1>1, <1>3 DEF Feeds
  <2> QED
    BY <1>3, <2>1, PutKeepsLane DEF RelayInOrder
<1>4. ASSUME NEW p \in Senders, NEW q \in Readers, Feeds(p, q)
      PROVE  Linked(p, q)'
  <2>1. p \in Routines /\ Present(q) /\ Sink(p) = Source(q)
    BY <1>4 DEF Feeds, Senders
  <2>2. CASE p = o
    <3>1. Newest(q)' = hand[p]
      BY <1>3, <2>1, <2>2
    <3> QED
      BY <2>2, <3>1 DEF Linked, Passed
  <2>3. CASE p # o
    <3>1. Newest(q)' = Newest(q)
      BY <1>2, <2>1, <2>3, OneSender
    <3>2. pc'[p] = pc[p] /\ hand'[p] = hand[p] /\ Linked(p, q)
      BY <1>4, <2>1, <2>3 DEF RelayInOrder
    <3> QED
      BY <3>1, <3>2 DEF Linked, Passed
  <2> QED
    BY <2>2, <2>3
<1> QED
  BY <1>2, <1>3, <1>4, SameFeeds DEF RelayInOrder, Readers

LEMMA MeetInOrder ==
    ASSUME TypeOK, Routing, QueuesFit, RelayInOrder, UNCHANGED stream,
           NEW o \in {"framer", "writer"}, Meet(o)
    PROVE  RelayInOrder'
<1>1. /\ o \in Routines /\ o \in Readers /\ o # "resolver"
      /\ "resolver" \in Senders /\ "resolver" \in Readers /\ "resolver" \in Routines
  BY DEF Routines, Readers, Senders
<1>2. \A p \in Routines : pc'[p] = IF p = "resolver" THEN "receive"
                                   ELSE IF p = o THEN "send" ELSE pc[p]
  BY <1>1 DEF Meet, TypeOK
<1>3. \A p \in Routines : hand'[p] = IF p = o THEN hand["resolver"] ELSE hand[p]
  BY <1>1 DEF Meet, TypeOK
<1>4. Present("resolver") /\ Present(o)
  BY <1>1 DEF Routing, Meet
<1>5. Feeds("resolver", o) /\ Source(o) = "resolved"
  BY <1>1, <1>4 DEF Feeds, Sink, Meet
<1>6. Newest(o) = hand[o] /\ queue[Source(o)] = <<>>
  BY <1>5 DEF QueuesFit, Newest, LastBehind
<1>7. Follows(hand[o], hand["resolver"])
  BY <1>1, <1>5, <1>6 DEF RelayInOrder, Linked, Meet
<1>8. \A q : Source(q)' = Source(q)
  BY DEF Source, Events, stream
<1>9. UNCHANGED queue
  BY DEF Meet
<1>10. LaneInOrder(o)' /\ Newest(o)' = hand["resolver"]
  BY <1>1, <1>3, <1>6, <1>8, <1>9 DEF LaneInOrder, Newest, InLine, LastBehind
<1>11. ASSUME NEW q \in Readers, Present(q), q # o
       PROVE  LaneInOrder(q)' /\ Newest(q)' = Newest(q)
  <2>1. hand'[q] = hand[q]
    BY <1>3, <1>11 DEF Readers
  <2> QED
    BY <1>9, <1>11, <2>1, SameLane DEF RelayInOrder
<1>12. ASSUME NEW p \in Senders, NEW q \in Readers, Feeds(p, q)
       PROVE  Linked(p, q)'
  <2>1. p \in Routines /\ Present(q) /\ Sink(p) = Source(q) /\ Linked(p, q)
    BY <1>12 DEF Feeds, Senders, RelayInOrder
  <2>2. CASE q = o
    <3>1. p = "resolver"
      BY <1>1, <1>5, <2>1, <2>2, OneSender DEF Feeds
    <3> QED
      BY <1>1, <1>2, <1>3, <1>10, <2>2, <3>1 DEF Linked, Passed
  <2>3. CASE q # o /\ p = o
    <3>1. Passed(p, Newest(q))
      BY <2>1, <2>3 DEF Linked, Meet
    <3>2. /\ hand[p] \in AnEvent /\ hand["resolver"] \in AnEvent
          /\ Newest(q) \in AnEvent
      BY <1>1, <2>1, EventsTyped DEF TypeOK
    <3>3. Follows(Newest(q), hand["resolver"])
      BY <1>7, <2>1, <2>3, <3>1, <3>2, FollowsPassed
    <3> QED
      BY <1>1, <1>2, <1>3, <1>11, <2>1, <2>3, <3>3 DEF Linked
  <2>4. CASE q # o /\ p # o
    <3>1. Newest(q)' = Newest(q) /\ hand'[p] = hand[p]
      BY <1>3, <1>11, <2>1, <2>4
    <3>2. p # "resolver"
      BY <1>1, <1>4, <1>5, <2>1, <2>4, OneReader DEF Sink
    <3> QED
      BY <1>2, <2>1, <2>4, <3>1, <3>2 DEF Linked, Passed
  <2> QED
    BY <2>2, <2>3, <2>4
<1> QED
  BY <1>10, <1>11, <1>12, SameFeeds DEF RelayInOrder, Readers

LEMMA NextInOrder ==
    ASSUME TypeOK, Routing, QueuesFit, TailIsWhole, RelayInOrder,
           Move, UNCHANGED stream
    PROVE  RelayInOrder'
<1>0. /\ \A q \in Readers : q \in Routines /\ q # "parser"
      /\ \A p \in Senders : p \in Routines /\ p # "writer"
      /\ "parser" \in Routines /\ "parser" \in Senders
      /\ "framer" \in Routines /\ "writer" \in Routines
      /\ ~(\E q \in Readers : Feeds("writer", q))
  BY DEF Senders, Readers, Routines, Feeds
<1>00. hand["parser"] \in AnEvent
  BY <1>0 DEF TypeOK
<1>1. CASE Makes
  <2>1. PICK f \in AnEvent : /\ hand' = [hand EXCEPT !["parser"] = f]
                             /\ f.n = made' /\ made' = IF Content(f) THEN made + 1 ELSE made
    BY <1>1 DEF Makes
  <2>2. /\ pc["parser"] = "receive" /\ UNCHANGED queue
        /\ \A r \in Routines \ {"parser"} : pc'[r] = pc[r] /\ hand'[r] = hand[r]
        /\ pc'["parser"] = "send" /\ hand'["parser"] = f
    BY <1>0, <1>1, <2>1 DEF Makes, Goes, TypeOK
  <2>3. Follows(hand["parser"], f)
    BY <1>00, <2>1, <2>2 DEF TailIsWhole, Follows, AnEvent
  <2>4. \A q \in Readers : Feeds("parser", q) => Newest(q) = hand["parser"]
    BY <1>0, <2>2 DEF RelayInOrder, Linked, Passed
  <2> QED
    BY <1>0, <2>2, <2>3, <2>4, LanesAlone
<1>2. CASE GoesOn
  <2>1. /\ pc["parser"] = "send" /\ UNCHANGED pc
        /\ \A r \in Routines \ {"parser"} : hand'[r] = hand[r]
        /\ hand'["parser"] = [hand["parser"] EXCEPT !.kind = Following[@]]
    BY <1>0, <1>2, NextInHand DEF GoesOn, Readers
  <2>2. /\ Follows(hand["parser"], hand'["parser"]) /\ ~Content(hand["parser"])
        /\ hand'["parser"] \in AnEvent
    BY <1>00, <1>2, <2>1, NextOfTail DEF GoesOn, Content
  <2>3. CASE Put("parser")
    BY <1>0, <2>1, <2>2, <2>3, PutInOrder
  <2>4. CASE UNCHANGED queue
    <3>1. ASSUME NEW q \in Readers, Feeds("parser", q)
          PROVE  Follows(Newest(q), hand'["parser"])
      BY <1>0, <1>00, <2>1, <2>2, <3>1, EventsTyped, FollowsTail
         DEF RelayInOrder, Linked
    <3> QED
      BY <1>0, <2>1, <2>4, <3>1, LanesAlone
  <2> QED
    BY <1>2, <2>3, <2>4 DEF GoesOn
<1>3. CASE Keeps
  <2>1. /\ pc["framer"] = "send" /\ Kept(hand["framer"]) /\ UNCHANGED <<queue, hand>>
        /\ \A r \in Routines \ {"framer"} : pc'[r] = pc[r]
        /\ pc'["framer"] = "receive"
    BY <1>0, <1>3 DEF Keeps, Goes, TypeOK
  <2>2. \A q \in Readers : Feeds("framer", q) => Passed("framer", Newest(q))
    BY <2>1 DEF RelayInOrder, Linked, Passed, Feeds
  <2> QED
    BY <1>0, <2>1, <2>2, LanesAlone
<1>4. CASE Writes \/ Misses
  <2>1. /\ UNCHANGED <<queue, hand>>
        /\ \A r \in Routines \ {"writer"} : pc'[r] = pc[r]
    BY <1>0, <1>4 DEF Writes, Misses, Goes, TypeOK
  <2> QED
    BY <1>0, <2>1, LanesAlone
<1>5. CASE Quiet
  <2>1. UNCHANGED <<queue, hand, pc>>
    BY <1>5 DEF Quiet
  <2> QED
    BY <1>0, <2>1, LanesAlone
<1>6. ASSUME NEW q \in Readers, Receives(q) PROVE RelayInOrder'
  BY <1>6, ReceivesInOrder
<1>7. ASSUME NEW p \in Senders, NEW x \in {"receive", "tail"}, Sends(p, x)
      PROVE  RelayInOrder'
  <2>1. /\ Put(p) /\ UNCHANGED hand /\ pc'[p] = x
        /\ \A r \in Routines \ {p} : pc'[r] = pc[r]
    BY <1>0, <1>7 DEF Sends, Goes, TypeOK
  <2> QED
    BY <1>0, <2>1, PutInOrder
<1>8. ASSUME NEW p \in Routines, Leaves(p) PROVE RelayInOrder'
  <2>1. /\ UNCHANGED <<queue, hand>> /\ pc'[p] = "done"
        /\ \A r \in Routines \ {p} : pc'[r] = pc[r]
    BY <1>8 DEF Leaves, Goes, TypeOK
  <2> QED
    BY <1>0, <2>1, LanesAlone
<1>9. ASSUME NEW reader \in {"framer", "writer"}, Meet(reader) PROVE RelayInOrder'
  BY <1>9, MeetInOrder
<1> QED
  BY <1>1, <1>2, <1>3, <1>4, <1>5, <1>6, <1>7, <1>8, <1>9 DEF Move

-----------------------------------------------------------------------------
(* What travels is what the parser has made.                                 *)

\* The parser's hand aside, a step adds no event but one the parser sends.
LEMMA TravelledTake ==
    ASSUME TypeOK, NEW q \in Readers, Take(q), UNCHANGED shown
    PROVE  Travelling' \subseteq Travelling
<1>1. Source(q) \in Channels /\ q \in Routines
  BY SourceIsChannel DEF Readers
<1> DEFINE s == queue[Source(q)]
<1>2. s \in Seq(AnEvent) /\ s # <<>>
  BY <1>1 DEF Take, TypeOK
<1>3. /\ s[1] \in In(s) /\ Head(s) = s[1] /\ In(Tail(s)) \subseteq In(s)
      /\ In(s) \subseteq Travelling
  <2>1. Len(s) \in Nat \ {0} /\ Len(Tail(s)) = Len(s) - 1 /\ Head(s) = s[1]
    BY <1>2
  <2>2. \A i \in 1 .. Len(s) - 1 : Tail(s)[i] = s[i + 1]
    BY <1>2
  <2>3. s[1] \in In(s)
    BY <2>1 DEF In
  <2>4. ASSUME NEW e \in In(Tail(s)) PROVE e \in In(s)
    <3>1. PICK i \in 1 .. Len(Tail(s)) : e = Tail(s)[i]
      BY DEF In
    <3>2. i \in 1 .. Len(s) - 1 /\ i + 1 \in 1 .. Len(s)
      BY <2>1, <3>1
    <3> QED
      BY <2>2, <3>1, <3>2 DEF In
  <2> QED
    BY <1>1, <2>1, <2>3, <2>4 DEF Travelling
<1>4. \A p \in Readers : hand'[p] \in {hand[p], Head(s)}
  BY DEF Take, TypeOK, Readers
<1>5. \A c \in Channels : In(queue'[c]) \subseteq In(queue[c])
  BY <1>1, <1>3 DEF Take, TypeOK
<1> HIDE DEF s
<1>6. UNION {In(queue'[c]) : c \in Channels} \subseteq UNION {In(queue[c]) : c \in Channels}
  BY <1>5
<1>7. {hand'[p] : p \in Readers} \subseteq {hand[p] : p \in Readers} \cup In(s)
  BY <1>3, <1>4
<1>8. In(shown)' = In(shown)
  OBVIOUS
<1> QED
  BY <1>3, <1>6, <1>7, <1>8 DEF Travelling

LEMMA TravelledPut ==
    ASSUME TypeOK, NEW o \in Senders, Put(o), UNCHANGED shown,
           \A p \in Readers : hand'[p] = hand[p]
    PROVE  Travelling' \subseteq Travelling \cup {hand[o]}
<1>1. Sink(o) \in Channels /\ o \in Routines
  BY SinkIsChannel DEF Senders
<1> DEFINE s == queue[Sink(o)]
<1>2. s \in Seq(AnEvent) /\ hand[o] \in AnEvent
  BY <1>1 DEF TypeOK
<1>3. In(Append(s, hand[o])) \subseteq In(s) \cup {hand[o]}
  BY <1>2 DEF In
<1>4. \A c \in Channels :
        queue'[c] = IF c = Sink(o) THEN Append(s, hand[o]) ELSE queue[c]
  BY <1>1 DEF Put, TypeOK
<1> HIDE DEF s
<1>5. \A c \in Channels : In(queue'[c]) \subseteq In(queue[c]) \cup {hand[o]}
  BY <1>3, <1>4 DEF s
<1>6. UNION {In(queue'[c]) : c \in Channels}
        \subseteq (UNION {In(queue[c]) : c \in Channels}) \cup {hand[o]}
  BY <1>5
<1>7. {hand'[p] : p \in Readers} \subseteq {hand[p] : p \in Readers}
  OBVIOUS
<1>8. In(shown)' = In(shown)
  OBVIOUS
<1> QED
  BY <1>6, <1>7, <1>8 DEF Travelling

\* No new event behind the parser, and nothing new in its hand.
LEMMA WholeStep ==
    ASSUME TailIsWhole, UNCHANGED made, hand'["parser"] = hand["parser"],
           pc'["parser"] = "receive" => Content(hand["parser"]),
           Travelling' \subseteq Travelling \cup {hand["parser"]}
    PROVE  TailIsWhole'
BY DEF TailIsWhole

LEMMA NextWhole ==
    ASSUME TypeOK, TailIsWhole, Move
    PROVE  TailIsWhole'
<1>0. /\ "parser" \in Routines /\ "writer" \in Readers /\ "parser" \in Senders
      /\ \A q \in Readers : q \in Routines /\ q # "parser"
      /\ \A p \in Senders : p # "parser" => p \in Readers
  BY DEF Readers, Routines, Senders
<1>00. hand["parser"] \in AnEvent
  BY <1>0 DEF TypeOK
<1>1. CASE Makes
  <2>1. PICK f \in AnEvent : /\ hand' = [hand EXCEPT !["parser"] = f]
                             /\ f.n = made' /\ made' = IF Content(f) THEN made + 1 ELSE made
    BY <1>1 DEF Makes
  <2>2. /\ hand'["parser"] = f /\ pc'["parser"] = "send"
        /\ pc["parser"] = "receive"
        /\ \A q \in Readers : hand'[q] = hand[q]
    BY <1>0, <1>1, <2>1 DEF Makes, Goes, TypeOK
  <2>3. Travelling' = Travelling
    BY <1>1, <2>2 DEF Makes, Travelling
  <2>4. \A e \in Travelling : Content(e)
    BY <2>2 DEF TailIsWhole
  <2> QED
    BY <2>1, <2>2, <2>3, <2>4 DEF TailIsWhole
<1>2. CASE GoesOn
  <2>1. /\ hand'["parser"] = [hand["parser"] EXCEPT !.kind = Following[@]]
        /\ \A q \in Readers : hand'[q] = hand[q]
    BY <1>0, <1>2, NextInHand DEF GoesOn
  <2>2. hand'["parser"].n = hand["parser"].n /\ ~Content(hand'["parser"])
    BY <1>00, <1>2, <2>1, NextOfTail DEF GoesOn
  <2>3. ~Content(hand["parser"])
    BY <1>2 DEF GoesOn, Content
  <2>4. Travelling' \subseteq Travelling \cup {hand["parser"]}
    <3>1. CASE Put("parser")
      BY <1>0, <1>2, <2>1, <3>1, TravelledPut DEF GoesOn
    <3>2. CASE UNCHANGED queue
      <4>1. Travelling' = Travelling
        BY <1>2, <2>1, <3>2 DEF GoesOn, Travelling
      <4> QED
        BY <4>1
    <3> QED
      BY <1>2, <3>1, <3>2 DEF GoesOn
  <2>5. pc'["parser"] # "receive" /\ UNCHANGED made
    BY <1>2 DEF GoesOn
  <2> QED
    BY <2>2, <2>3, <2>4, <2>5 DEF TailIsWhole
<1>3. ASSUME UNCHANGED <<hand, queue, shown, made>>,
             pc'["parser"] \in {pc["parser"], "done"}
      PROVE  TailIsWhole'
  <2>1. Travelling' = Travelling
    BY <1>3 DEF Travelling
  <2> QED
    BY <1>3, <2>1, WholeStep DEF TailIsWhole
<1>4. CASE Keeps
  BY <1>3, <1>4 DEF Keeps, Goes, TypeOK
<1>5. CASE Writes
  <2>1. hand["writer"] \in AnEvent /\ shown \in Seq(AnEvent)
    BY <1>0 DEF TypeOK
  <2>2. In(Append(shown, hand["writer"])) \subseteq In(shown) \cup {hand["writer"]}
    BY <2>1 DEF In
  <2>3. hand["writer"] \in Travelling
    BY <1>0 DEF Travelling
  <2>4. In(shown)' \subseteq In(shown) \cup {hand["writer"]}
    BY <1>5, <2>2 DEF Writes
  <2>5. UNCHANGED <<queue, hand, made>>
    BY <1>5 DEF Writes
  <2>6. Travelling' \subseteq Travelling
    BY <2>3, <2>4, <2>5 DEF Travelling
  <2>7. pc'["parser"] = pc["parser"]
    BY <1>0, <1>5 DEF Writes, Goes, TypeOK
  <2> QED
    BY <2>5, <2>6, <2>7, WholeStep DEF TailIsWhole
<1>6. CASE Misses
  BY <1>3, <1>6 DEF Misses, Goes, TypeOK
<1>7. CASE Quiet
  BY <1>3, <1>7 DEF Quiet
<1>8. ASSUME NEW q \in Readers, Receives(q) PROVE TailIsWhole'
  <2>1. Travelling' \subseteq Travelling
    BY <1>8, TravelledTake DEF Receives, Others
  <2>2. /\ hand'["parser"] = hand["parser"] /\ pc'["parser"] = pc["parser"]
        /\ UNCHANGED made
    BY <1>0, <1>8 DEF Receives, Take, Goes, Others, TypeOK
  <2> QED
    BY <2>1, <2>2, WholeStep DEF TailIsWhole
<1>9. ASSUME NEW p \in Senders, NEW x \in {"receive", "tail"}, Sends(p, x)
      PROVE  TailIsWhole'
  <2>1. Travelling' \subseteq Travelling \cup {hand[p]}
    BY <1>9, TravelledPut DEF Sends
  <2>2. p # "parser" => hand[p] \in Travelling
    BY <1>0 DEF Travelling
  <2>3. UNCHANGED <<hand, made>>
    BY <1>9 DEF Sends
  <2>4. pc'["parser"] = "receive" => Content(hand["parser"])
    BY <1>0, <1>9 DEF Sends, Goes, TypeOK, TailIsWhole
  <2>5. Travelling' \subseteq Travelling \cup {hand["parser"]}
    BY <2>1, <2>2
  <2> QED
    BY <2>3, <2>4, <2>5, WholeStep
<1>10. ASSUME NEW p \in Routines, Leaves(p) PROVE TailIsWhole'
  BY <1>0, <1>3, <1>10 DEF Leaves, Goes, TypeOK
<1>11. ASSUME NEW reader \in {"framer", "writer"}, Meet(reader) PROVE TailIsWhole'
  <2>1. "resolver" \in Readers /\ reader \in Routines /\ reader # "parser"
    BY DEF Readers, Routines
  <2>2. \A p \in Readers : hand'[p] \in {hand[p], hand["resolver"]}
    BY <1>11, <2>1 DEF Meet, TypeOK, Readers
  <2>3. hand'["parser"] = hand["parser"] /\ pc'["parser"] = pc["parser"]
    BY <1>0, <1>11, <2>1 DEF Meet, TypeOK
  <2>4. {hand'[p] : p \in Readers} \subseteq {hand[p] : p \in Readers}
    BY <2>1, <2>2
  <2>5. UNCHANGED <<queue, shown, made>>
    BY <1>11 DEF Meet
  <2>6. Travelling' \subseteq Travelling
    BY <2>4, <2>5 DEF Travelling
  <2> QED
    BY <2>3, <2>5, <2>6, WholeStep DEF TailIsWhole
<1> QED
  BY <1>1, <1>2, <1>4, <1>5, <1>6, <1>7, <1>8, <1>9, <1>10, <1>11 DEF Move

-----------------------------------------------------------------------------
(* What the client has been shown.                                           *)

NumContent(s, k) == Cardinality({j \in 1 .. k : Content(s[j])})

\* Up to an event of the content, everything is content.
LEMMA ContentSoFar ==
    ASSUME TypeOK, ShownInOrder, NEW k \in 1 .. Len(shown), Content(shown[k])
    PROVE  NumContent(shown, k) = k
<1>1. \A j \in 1 .. (k - 1) : Content(shown[j])
  <2>0. k \in DOMAIN shown
    BY DEF TypeOK
  <2>1. \A j \in 1 .. (k - 1) : Content(shown[j]) \/ Rank[shown[j].kind] < Rank[shown[k].kind]
    BY <2>0 DEF ShownInOrder
  <2>2. \A j \in 1 .. (k - 1) : j \in 1 .. Len(shown) /\ shown[j] \in AnEvent
    BY DEF TypeOK
  <2> QED
    BY <2>1, <2>2 DEF Content, Rank, AnEvent, Kinds
<1>2. {j \in 1 .. k : Content(shown[j])} = 1 .. k
  BY <1>1
<1>3. Cardinality(1 .. k) = k
  BY FS_Interval
<1> QED
  BY <1>2, <1>3 DEF NumContent

\* The last event shown has the number of the content shown up to it.
LEMMA LastCounts ==
    ASSUME TypeOK, ShownInOrder
    PROVE  LastShown \in AnEvent /\ LastShown.n = NumContent(shown, Len(shown))
<1>1. CASE shown = <<>>
  <2>1. {j \in 1 .. Len(shown) : Content(shown[j])} = {}
    BY <1>1
  <2>2. NumContent(shown, Len(shown)) = 0
    BY <2>1, FS_EmptySet DEF NumContent
  <2> QED
    BY <1>1, <2>2 DEF LastShown, NoEvent, Event, AnEvent, Kinds
<1>2. CASE shown # <<>>
  <2> DEFINE k == Len(shown)
  <2>1. k \in Nat \ {0} /\ shown[k] \in AnEvent /\ LastShown = shown[k] /\ k \in DOMAIN shown
    BY <1>2 DEF TypeOK, LastShown
  <2>2. CASE Content(shown[k])
    <3>1. NumContent(shown, k) = k
      BY <2>1, <2>2, ContentSoFar
    <3>2. shown[k].n = k
      BY <2>1, <2>2 DEF ShownInOrder
    <3> QED
      BY <2>1, <3>1, <3>2
  <2>3. CASE ~Content(shown[k])
    <3>1. {j \in 1 .. k : Content(shown[j])} = {j \in 1 .. (k - 1) : Content(shown[j])}
      BY <2>1, <2>3
    <3>2. shown[k].n = Cardinality({j \in 1 .. (k - 1) : Content(shown[j])})
      BY <2>1, <2>3 DEF ShownInOrder
    <3> QED
      BY <2>1, <3>1, <3>2 DEF NumContent
  <2> QED
    BY <2>2, <2>3
<1> QED
  BY <1>1, <1>2

\* The next event in order may be shown.
LEMMA ShowNext ==
    ASSUME TypeOK, ShownInOrder, NEW e \in AnEvent, Follows(LastShown, e),
           shown' = Append(shown, e), UNCHANGED made, ~Content(e) => e.n = made
    PROVE  ShownInOrder' /\ LastShown' = e
<1> DEFINE k == Len(shown)
<1>1. /\ k \in Nat /\ shown \in Seq(AnEvent) /\ shown' \in Seq(AnEvent)
      /\ Len(shown') = k + 1 /\ shown'[k + 1] = e /\ shown' # <<>>
      /\ \A j \in 1 .. k : shown'[j] = shown[j]
      /\ DOMAIN shown' = 1 .. k + 1 /\ DOMAIN shown = 1 .. k
  BY DEF TypeOK
<1>2. LastShown' = e
  BY <1>1 DEF LastShown
<1>3. LastShown \in AnEvent /\ LastShown.n = NumContent(shown, k)
  BY LastCounts
<1>4. \A i \in 1 .. k + 1 : {j \in 1 .. (i - 1) : Content(shown'[j])}
                          = {j \in 1 .. (i - 1) : Content(shown[j])}
  BY <1>1
<1>5. ASSUME NEW i \in 1 .. k
      PROVE  /\ Content(shown'[i]) => shown'[i].n = i
             /\ ~Content(shown'[i]) =>
                    /\ shown'[i].n = Cardinality({j \in 1 .. (i - 1) : Content(shown'[j])})
                    /\ shown'[i].n = made'
             /\ \A j \in 1 .. (i - 1) :
                    Content(shown'[j]) \/ Rank[shown'[j].kind] < Rank[shown'[i].kind]
  <2>1. /\ Content(shown[i]) => shown[i].n = i
        /\ ~Content(shown[i]) =>
               /\ shown[i].n = Cardinality({j \in 1 .. (i - 1) : Content(shown[j])})
               /\ shown[i].n = made
        /\ \A j \in 1 .. (i - 1) :
               Content(shown[j]) \/ Rank[shown[j].kind] < Rank[shown[i].kind]
    BY <1>1 DEF ShownInOrder
  <2>2. shown'[i] = shown[i] /\ \A j \in 1 .. (i - 1) : shown'[j] = shown[j]
    BY <1>1
  <2>3. {j \in 1 .. (i - 1) : Content(shown'[j])} = {j \in 1 .. (i - 1) : Content(shown[j])}
    BY <1>1, <1>4
  <2> QED
    BY <2>1, <2>2, <2>3
<1>6. Content(e) => e.n = k + 1
  <2> SUFFICES ASSUME Content(e) PROVE e.n = k + 1
    OBVIOUS
  <2>1. Content(LastShown) /\ e.n = LastShown.n + 1
    BY DEF Follows
  <2>2. CASE shown = <<>>
    <3>1. k = 0 /\ LastShown.n = 0
      BY <2>2 DEF LastShown, NoEvent, Event
    <3> QED
      BY <2>1, <3>1
  <2>3. CASE shown # <<>>
    <3>1. k \in 1 .. Len(shown) /\ LastShown = shown[k]
      BY <1>1, <2>3 DEF LastShown
    <3>2. LastShown.n = k
      BY <1>3, <2>1, <3>1, ContentSoFar
    <3> QED
      BY <2>1, <3>2
  <2> QED
    BY <2>2, <2>3
<1>7. ~Content(e) => e.n = Cardinality({j \in 1 .. k : Content(shown'[j])})
  <2>1. ~Content(e) => e.n = NumContent(shown, k)
    BY <1>3 DEF Follows
  <2>2. {j \in 1 .. k : Content(shown'[j])} = {j \in 1 .. k : Content(shown[j])}
    BY <1>1
  <2> QED
    BY <2>1, <2>2 DEF NumContent
<1>8. ASSUME NEW j \in 1 .. k
      PROVE  Content(shown'[j]) \/ Rank[shown'[j].kind] < Rank[e.kind]
  <2>1. /\ shown'[j] = shown[j] /\ LastShown = shown[k] /\ k \in 1 .. Len(shown)
        /\ shown[j] \in AnEvent /\ shown[k] \in AnEvent
    BY <1>1 DEF LastShown
  <2>2. j < k => Content(shown[j]) \/ Rank[shown[j].kind] < Rank[shown[k].kind]
    <3>1. k \in DOMAIN shown
      BY <1>1, <2>1
    <3>2. \A h \in 1 .. (k - 1) :
            Content(shown[h]) \/ Rank[shown[h].kind] < Rank[shown[k].kind]
      BY <3>1 DEF ShownInOrder
    <3>3. j < k => j \in 1 .. (k - 1)
      BY <1>1
    <3> QED
      BY <3>2, <3>3
  <2>3. CASE Content(e)
    <3>1. Content(shown[k])
      BY <2>1, <2>3 DEF Follows
    <3> QED
      BY <1>1, <2>1, <2>2, <3>1 DEF Content, Rank, AnEvent, Kinds
  <2>4. CASE ~Content(e)
    <3>1. Content(shown[k]) \/ Rank[shown[k].kind] < Rank[e.kind]
      BY <2>1, <2>4 DEF Follows
    <3> QED
      BY <1>1, <2>1, <2>2, <2>4, <3>1 DEF Content, Rank, AnEvent, Kinds
  <2> QED
    BY <2>3, <2>4
<1>9. k + 1 - 1 = k
  BY <1>1
<1> HIDE DEF k
<1>10. ASSUME NEW i \in 1 .. k + 1
      PROVE  /\ Content(shown'[i]) => shown'[i].n = i
             /\ ~Content(shown'[i]) =>
                    /\ shown'[i].n = Cardinality({j \in 1 .. (i - 1) : Content(shown'[j])})
                    /\ shown'[i].n = made'
             /\ \A j \in 1 .. (i - 1) :
                    Content(shown'[j]) \/ Rank[shown'[j].kind] < Rank[shown'[i].kind]
  <2>1. CASE i \in 1 .. k
    BY <1>5, <2>1
  <2>2. CASE i = k + 1
    <3>1. shown'[i] = e /\ i - 1 = k
      BY <1>1, <1>9, <2>2
    <3>2. Content(e) => e.n = i
      BY <1>6, <2>2
    <3> HIDE <2>2
    <3> QED
      BY <1>7, <1>8, <3>1, <3>2
  <2>3. i \in 1 .. k \/ i = k + 1
    BY <1>1
  <2> QED
    BY <2>1, <2>2, <2>3
<1>11. DOMAIN shown' = 1 .. k + 1
  BY <1>1
<1>12. ShownInOrder'
  BY <1>10, <1>11 DEF ShownInOrder
<1> QED
  BY <1>2, <1>12

LEMMA NextShown ==
    ASSUME TypeOK, Routing, QueuesFit, TailIsWhole, RelayInOrder,
           WriterInOrder, ShownInOrder,
           Move, UNCHANGED stream, gone => gone'
    PROVE  WriterInOrder' /\ ShownInOrder'
<1>0. /\ "writer" \in Routines /\ "writer" \in Readers /\ "writer" \notin Senders
      /\ \A p \in Senders : p \in Routines /\ p # "writer"
      /\ \A q \in Readers : q \in Routines /\ q # "parser"
  BY DEF Routines, Readers, Senders
<1>00. hand["writer"] \in AnEvent
  BY <1>0 DEF TypeOK
\* The content shown so far is untouched by what the parser makes: it makes
\* content only while no tail has been shown.
<1>1. ASSUME UNCHANGED shown,
             \/ UNCHANGED made
             \/ \A i \in 1 .. Len(shown) : Content(shown[i])
      PROVE  ShownInOrder'
  <2>1. DOMAIN shown = 1 .. Len(shown)
    BY DEF TypeOK
  <2>2. CASE UNCHANGED made
    BY <1>1, <2>2 DEF ShownInOrder
  <2>3. CASE \A i \in 1 .. Len(shown) : Content(shown[i])
    BY <1>1, <2>1, <2>3 DEF ShownInOrder
  <2> QED
    BY <1>1, <2>2, <2>3
<1>2. ASSUME UNCHANGED shown, hand'["writer"] = hand["writer"],
             pc'["writer"] \in {pc["writer"], "done"}
      PROVE  WriterInOrder'
  <2>1. LastShown' = LastShown
    BY <1>2 DEF LastShown
  <2> QED
    BY <1>2, <2>1 DEF WriterInOrder
<1>3. ASSUME UNCHANGED <<shown, made>>, hand'["writer"] = hand["writer"],
             pc'["writer"] \in {pc["writer"], "done"}
      PROVE  WriterInOrder' /\ ShownInOrder'
  BY <1>1, <1>2, <1>3
\* The writer receives the next event.
<1>4. ASSUME UNCHANGED <<shown, made>>, pc["writer"] = "receive",
             pc'["writer"] = "send", Follows(hand["writer"], hand'["writer"])
      PROVE  WriterInOrder' /\ ShownInOrder'
  <2>1. LastShown' = LastShown
    BY <1>4 DEF LastShown
  <2> QED
    BY <1>1, <1>4, <2>1 DEF WriterInOrder
<1>5. CASE Makes
  <2>1. hand'["writer"] = hand["writer"] /\ pc'["writer"] = pc["writer"]
    BY <1>0, <1>5 DEF Makes, Goes, TypeOK
  <2>2. pc["parser"] = "receive" /\ UNCHANGED shown
    BY <1>5 DEF Makes
  <2>3. \A i \in 1 .. Len(shown) : shown[i] \in Travelling
    BY DEF In, Travelling
  <2>4. \A i \in 1 .. Len(shown) : Content(shown[i])
    BY <2>2, <2>3 DEF TailIsWhole
  <2> QED
    BY <1>1, <1>2, <2>1, <2>2, <2>4
<1>6. CASE GoesOn
  <2>1. hand'["writer"] = hand["writer"]
    BY <1>0, <1>6, NextInHand DEF GoesOn
  <2> QED
    BY <1>3, <1>6, <2>1 DEF GoesOn
<1>7. CASE Keeps
  BY <1>0, <1>3, <1>7 DEF Keeps, Goes, TypeOK
<1>8. CASE Writes
  <2>1. Follows(LastShown, hand["writer"])
    BY <1>8 DEF Writes, WriterInOrder
  <2>2. hand["writer"] \in Travelling
    BY <1>0 DEF Travelling
  <2>3. ~Content(hand["writer"]) => hand["writer"].n = made
    BY <2>2 DEF TailIsWhole
  <2>4. ShownInOrder' /\ LastShown' = hand["writer"]
    BY <1>00, <1>8, <2>1, <2>3, ShowNext DEF Writes
  <2>5. pc'["writer"] \in {"receive", "done"} /\ UNCHANGED hand
    BY <1>0, <1>8 DEF Writes, Goes, TypeOK
  <2> QED
    BY <2>4, <2>5 DEF WriterInOrder
<1>9. CASE Misses
  BY <1>1, <1>9 DEF Misses, WriterInOrder
<1>10. CASE Quiet
  BY <1>3, <1>10 DEF Quiet
<1>11. ASSUME NEW q \in Readers, Receives(q)
       PROVE  WriterInOrder' /\ ShownInOrder'
  <2>1. CASE q = "writer"
    <3>1. Follows(hand["writer"], hand'["writer"])
      BY <1>11, <2>1, TakeKeepsLane DEF Receives, RelayInOrder
    <3> QED
      BY <1>0, <1>4, <1>11, <2>1, <3>1 DEF Receives, Take, Goes, Others, TypeOK
  <2>2. CASE q # "writer"
    BY <1>0, <1>3, <1>11, <2>2 DEF Receives, Take, Goes, Others, TypeOK
  <2> QED
    BY <2>1, <2>2
<1>12. ASSUME NEW p \in Senders, NEW x \in {"receive", "tail"}, Sends(p, x)
       PROVE  WriterInOrder' /\ ShownInOrder'
  BY <1>0, <1>3, <1>12 DEF Sends, Goes, TypeOK
<1>13. ASSUME NEW p \in Routines, Leaves(p)
       PROVE  WriterInOrder' /\ ShownInOrder'
  BY <1>0, <1>3, <1>13 DEF Leaves, Goes, TypeOK
<1>14. ASSUME NEW reader \in {"framer", "writer"}, Meet(reader)
       PROVE  WriterInOrder' /\ ShownInOrder'
  <2>1. CASE reader = "writer"
    <3>0. "resolver" \in Senders /\ "resolver" \in Routines
      BY DEF Senders, Routines
    <3>1. Feeds("resolver", "writer")
      BY <1>0, <1>14, <2>1, <3>0 DEF Meet, Routing, Feeds, Sink
    <3>2. Newest("writer") = hand["writer"]
      BY <1>14, <2>1 DEF Meet, Newest, LastBehind, QueuesFit
    <3>3. Follows(hand["writer"], hand["resolver"])
      BY <1>0, <1>14, <3>0, <3>1, <3>2 DEF Meet, RelayInOrder, Linked
    <3> QED
      BY <1>0, <1>4, <1>14, <2>1, <3>0, <3>3 DEF Meet, TypeOK
  <2>2. CASE reader = "framer"
    <3>1. "resolver" \in Routines /\ "framer" \in Routines
      BY DEF Routines
    <3> QED
      BY <1>0, <1>3, <1>14, <2>2, <3>1 DEF Meet, TypeOK
  <2> QED
    BY <2>1, <2>2
<1> QED
  BY <1>5, <1>6, <1>7, <1>8, <1>9, <1>10, <1>11, <1>12, <1>13, <1>14 DEF Move

-----------------------------------------------------------------------------
(* The release and the totals.                                               *)

LEMMA NextGiven ==
    ASSUME TypeOK, GivenOnce, Move, [Next]_vars
    PROVE  GivenOnce'
<1> USE DEF stream, channels, usage, contexts
<1>0. /\ \A q \in Readers : q \in Routines
      /\ \A p \in Senders : p \in Routines
      /\ {"writer", "tracker", "adapter", "framer", "parser", "resolver"} \subseteq Routines
      /\ "tracker" \in Senders /\ "tracker" \in Readers /\ "writer" \notin Senders
  BY DEF Readers, Routines, Senders
\* Who has returned does not come back.
<1>1. ASSUME NEW p \in Routines, pc[p] = "done" PROVE pc'[p] = "done"
  BY <1>0, <1>1
     DEF Move, Makes, GoesOn, Keeps, Writes, Misses, Quiet, Receives, Sends,
         Leaves, Meet, Take, Put, Goes, TypeOK
<1>2. pc["writer"] = "done" => pc'["writer"] = "done"
  BY <1>0, <1>1
\* A step of no concern to the totals.
<1>3. ASSUME UNCHANGED usage, UNCHANGED <<handler, released>>,
             pc'["tracker"] = pc["tracker"]
      PROVE  GivenOnce'
  BY <1>2, <1>3 DEF GivenOnce
<1>4. CASE TrackerReceives
  BY <1>0, <1>2, <1>4 DEF TrackerReceives, Take, Goes, GivenOnce, TypeOK
<1>5. CASE TrackerSends
  BY <1>0, <1>2, <1>5 DEF TrackerSends, Put, Goes, GivenOnce, TypeOK
<1>6. CASE TrackerReturns
  BY <1>0, <1>2, <1>6 DEF TrackerReturns, Exhausted, Returns, Goes, GivenOnce, TypeOK
<1>7. CASE HandlerReleases
  BY <1>2, <1>7 DEF HandlerReleases, GivenOnce
<1>8. CASE HandlerReturns
  BY <1>2, <1>8 DEF HandlerReturns, GivenOnce
<1>9. CASE ClientLeaves \/ Expire
  BY <1>3, <1>9 DEF ClientLeaves, Expire
<1>10. CASE Parser
  BY <1>0, <1>3, <1>10
     DEF Parser, ParserRead, ParserTail, ParserStops, ParserSends, ParserEnds,
         ParserGivesUp, Returns, Goes, TypeOK
<1>11. CASE Adapter
  BY <1>0, <1>3, <1>11
     DEF Adapter, AdapterReceives, AdapterSends, AdapterReturns, Returns, Goes, TypeOK
<1>12. CASE Resolver
  BY <1>0, <1>3, <1>12
     DEF Resolver, ResolverReceives, ResolverReturns, Returns, Goes, TypeOK
<1>13. CASE Framer
  BY <1>0, <1>3, <1>13
     DEF Framer, FramerReceives, FramerSends, FramerKeeps, FramerReturns, Returns,
         Goes, TypeOK
<1>14. CASE Writer
  BY <1>0, <1>3, <1>14
     DEF Writer, WriterReceives, WriterWrites, WriterMisses, WriterReturns, Goes, TypeOK
<1>15. ASSUME NEW reader \in {"framer", "writer"}, Meet(reader) PROVE GivenOnce'
  BY <1>0, <1>3, <1>15 DEF Meet, TypeOK
<1>16. CASE UNCHANGED vars
  BY <1>3, <1>16 DEF vars
<1> QED
  BY <1>4, <1>5, <1>6, <1>7, <1>8, <1>9, <1>10, <1>11, <1>12, <1>13, <1>14,
     <1>15, <1>16 DEF Next, Tracker, Handler

-----------------------------------------------------------------------------
(* The theorems.                                                             *)

LEMMA InitInv == Init => IInv
<1> SUFFICES ASSUME Init PROVE IInv
  OBVIOUS
<1>0. TypeOK
  BY InitTypes
<1>1. /\ "parser" \in Routines /\ "writer" \in Readers /\ "writer" \in Routines
      /\ "tracker" \in Routines /\ Present("tracker") /\ "resolved" \in Channels
      /\ \A p \in Readers : p \in Routines /\ p # "parser"
      /\ \A p \in Senders : p \in Routines /\ Sink(p) \in Channels
  BY SinkIsChannel DEF Routines, Readers, Senders, Channels, Present
<1>2. /\ \A q \in Readers : hand[q] = NoEvent
      /\ \A c \in Channels : queue[c] = <<>> /\ ~closed[c]
      /\ \A p \in Readers : pc[p] \in {"receive", "done"}
      /\ NoEvent.n = 0 /\ Content(NoEvent)
  BY <1>1 DEF Init, NoEvent, Event, Content
<1>3. /\ hand["parser"] = IF Begins THEN Event(1, "content") ELSE NoEvent
      /\ made = IF Begins THEN 1 ELSE 0
      /\ pc["parser"] = IF Begins THEN "send" ELSE "receive"
      /\ Content(hand["parser"]) /\ hand["parser"].n = made
  BY <1>1 DEF Init, NoEvent, Event, Content, Present
<1>4. \A c \in Buffered : Cap[c] \in Nat /\ c \in Channels /\ Len(queue[c]) = 0
  BY <1>2, CapAssumption DEF Buffered
<1>5. Routing /\ QueuesFit
  <2>1. \A p \in Routines : ~Present(p) => pc[p] = "done"
    BY DEF Init
  <2>2. \A p \in Routines : pc[p] # "tail"
    BY DEF Init
  <2> QED
    BY <1>1, <1>2, <1>4, <2>1, <2>2 DEF Routing, QueuesFit
<1>6. GivenOnce
  BY <1>1 DEF Init, GivenOnce
<1>7. Travelling \subseteq {NoEvent}
  <2>1. \A c \in Channels : In(queue[c]) = {}
    BY <1>2 DEF In
  <2>2. In(shown) = {}
    BY DEF Init, In
  <2> QED
    BY <1>2, <2>1, <2>2 DEF Travelling
<1>8. TailIsWhole
  BY <1>2, <1>3, <1>7 DEF TailIsWhole
<1>9. RelayInOrder
  <2>1. ASSUME NEW q \in Readers
        PROVE  LaneInOrder(q) /\ Newest(q) = NoEvent
    BY <1>2, SourceIsChannel DEF LaneInOrder, Newest, InLine, LastBehind
  <2>2. ASSUME NEW p \in Senders, NEW q \in Readers PROVE Linked(p, q)
    <3>1. CASE p = "parser"
      BY <1>2, <1>3, <2>1, <3>1 DEF Linked, Passed, Follows, Event, NoEvent
    <3>2. CASE p # "parser"
      <4>1. p \in Readers
        BY <3>2 DEF Readers, Senders
      <4> QED
        BY <1>2, <2>1, <4>1 DEF Linked, Passed
    <3> QED
      BY <3>1, <3>2
  <2> QED
    BY <2>1, <2>2 DEF RelayInOrder
<1>10. WriterInOrder /\ ShownInOrder
  BY <1>1, <1>2 DEF Init, WriterInOrder, ShownInOrder, LastShown
<1> QED
  BY <1>0, <1>5, <1>6, <1>8, <1>9, <1>10 DEF IInv

LEMMA NextInv == IInv /\ [Next]_vars => IInv'
<1> SUFFICES ASSUME IInv, [Next]_vars PROVE IInv'
  OBVIOUS
<1> USE DEF IInv
<1>1. TypeOK'
  BY NextTypes
<1>2. Move /\ UNCHANGED stream /\ (gone => gone')
  BY EveryStepMoves
<1>3. Routing'
  BY <1>2, NextRouting
<1>4. QueuesFit'
  BY <1>2, NextFits
<1>5. GivenOnce'
  BY <1>2, NextGiven
<1>6. TailIsWhole'
  BY <1>2, NextWhole
<1>7. RelayInOrder'
  BY <1>2, NextInOrder
<1>8. WriterInOrder' /\ ShownInOrder'
  BY <1>2, NextShown
<1> QED
  BY <1>1, <1>3, <1>4, <1>5, <1>6, <1>7, <1>8

\* The inductive invariant holds in every state of a stream.
THEOREM RelayInvariant == Spec => []IInv
BY InitInv, NextInv, PTL DEF Spec

\* Every variable has its type.
THEOREM RelayTypeCorrect == Spec => []TypeOK
BY RelayInvariant, PTL DEF IInv

\* The client has the content from its beginning, in order and without a gap,
\* and the tail only behind all of it, wherever a stream has been cut off.
THEOREM ShownAlwaysInOrder == Spec => []ShownInOrder
BY RelayInvariant, PTL DEF IInv

\* An answer the client has seen to its end is the whole answer.
EndMeansWhole == EndShown => NumContent(shown, Len(shown)) = made

THEOREM EndAlwaysMeansWhole == Spec => []EndMeansWhole
<1>1. IInv => EndMeansWhole
  <2> SUFFICES ASSUME IInv, EndShown
               PROVE  NumContent(shown, Len(shown)) = made
    BY DEF EndMeansWhole
  <2>1. LastShown = shown[Len(shown)] /\ Len(shown) \in DOMAIN shown
    BY DEF IInv, TypeOK, EndShown, LastShown
  <2>2. LastShown.n = NumContent(shown, Len(shown))
    BY LastCounts DEF IInv
  <2>3. LastShown.n = made
    BY <2>1 DEF IInv, ShownInOrder, EndShown, Content
  <2> QED
    BY <2>2, <2>3
<1> QED
  BY <1>1, RelayInvariant, PTL

\* Nobody sends on a closed channel, and who returns, closing its channel, does
\* not find it closed: either would be a panic.
NoPanic ==
    [][\A p \in Senders :
        Put(p) \/ (pc[p] # "done" /\ pc'[p] = "done") => ~closed[Sink(p)]]_vars

THEOREM NeverPanics == Spec => NoPanic
<1>1. IInv /\ [Next]_vars =>
        [\A p \in Senders :
            Put(p) \/ (pc[p] # "done" /\ pc'[p] = "done") => ~closed[Sink(p)]]_vars
  BY DEF IInv, Routing, Senders, Put
<1> QED
  BY <1>1, RelayInvariant, PTL DEF Spec, NoPanic

\* The selector's Release is called once, after the writer is through.
ReleasedOnce == /\ released <= 1
                /\ released = 1 => pc["writer"] = "done"

THEOREM SlotReleasedOnce == Spec => []ReleasedOnce
<1>1. IInv => ReleasedOnce
  BY DEF IInv, GivenOnce, ReleasedOnce
<1> QED
  BY <1>1, RelayInvariant, PTL

\* The totals of a stream are recorded once at most, and when all its
\* goroutines have returned, they have been if there were any.
RecordedOnce == /\ recorded <= 1
                /\ AllDone /\ counted => recorded = 1

THEOREM TotalsRecordedOnce == Spec => []RecordedOnce
<1>1. IInv => RecordedOnce
  BY DEF IInv, GivenOnce, RecordedOnce, AllDone, Routines
<1> QED
  BY <1>1, RelayInvariant, PTL
=============================================================================
