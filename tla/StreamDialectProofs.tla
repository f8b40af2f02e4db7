------------------------ MODULE StreamDialectProofs ------------------------
(* Proofs about what the client of a stream is told, on top of those about   *)
(* its text in StreamTextProofs, for any number of chunks and every pair of  *)
(* provider and dialect:                                                     *)
(*                                                                           *)
(*  - the closing of an answer: what the parser keeps is what the provider   *)
(*    said last, and nothing of the end is told before the tail (ToldInv,    *)
(*    ClosingAlwaysTold);                                                    *)
(*  - frames: what a writer remembers fits what the client has open, and     *)
(*    each chunk's events fit what the parser says is open (FrameR, Legal,   *)
(*    FrameInv, ClientAlwaysFramed);                                         *)
(*  - calls: the client's calls are the provider's, each at a place of its   *)
(*    own, and what a parser or a writer goes by when it passes arguments on *)
(*    points to the call they are of (CallsAgree, Pointed, CallInv,          *)
(*    ToolCallsAlwaysIntact).                                                *)
(*                                                                           *)
(* A writer is known here by a table with one line for each kind of event    *)
(* (AnthropicWritten, OpenAIWritten, ResponsesWritten).                      *)
EXTENDS StreamTextProofs

-----------------------------------------------------------------------------
(* What each writer makes of an event, one line for each kind. *)

AsTold(reason) == IF reason = "content_filter" THEN "stop" ELSE reason

AnthropicWritten(w, kind, index, data, r) ==
    /\ kind = "stream_start" =>
          r.messages = <<Message("message_start", None, "", ""), Message("ping", None, "", "")>>
    /\ kind = "content_block_start" =>
          r.messages = <<Message("content_block_start", index, data, "")>>
    /\ kind = "tool_call_start" =>
          r.messages = <<Message("content_block_start", index, "tool_use", data)>>
    /\ kind = "text_delta" => r.messages = <<Message("content_block_delta", index, "text", data)>>
    /\ kind = "reasoning_delta" =>
          r.messages = <<Message("content_block_delta", index, "reasoning", data)>>
    /\ kind = "signature_delta" =>
          r.messages = <<Message("content_block_delta", index, "signature", "")>>
    /\ kind = "tool_call_delta" =>
          r.messages = <<Message("content_block_delta", index, "tool_use", data)>>
    /\ kind = "content_block_end" =>
          r.messages = <<Message("content_block_stop", index, "", "")>>
    /\ kind = "stream_end" =>
          r.messages = <<Message("message_delta", None, "", Told(w.reason, w.usage)),
                         Message("message_stop", None, "", "")>>
    /\ kind \in {"finish", "usage"} => r.messages = <<>>
    /\ kind = "finish" => r.writer = [w EXCEPT !.reason = AsTold(data)]
    /\ kind = "usage" => r.writer = [w EXCEPT !.usage = data]
    /\ kind \notin {"finish", "usage"} => r.writer = w

LEMMA AnthropicWrites ==
    ASSUME dialect = "anthropic", NEW w, NEW kind, NEW index, NEW data
    PROVE  AnthropicWritten(w, kind, index, data, Write(w, Event(kind, index, data)))
  <1> DEFINE ev == Event(kind, index, data)
  <1>1. ev.kind = kind /\ ev.index = index /\ ev.data = data
    BY DEF Event
  <1> HIDE DEF ev
  <1> DEFINE r == WriteAnthropic(w, ev)
  <1>2. Write(w, ev) = r
    BY DEF Write
  <1> DEFINE ms == r.messages
  <1>3. ms = AnthropicMessages(w, ev)
    BY DEF WriteAnthropic
  <1> HIDE DEF ms
  <1>4. kind = "stream_start" =>
           ms = <<Message("message_start", None, "", ""), Message("ping", None, "", "")>>
    BY <1>1, <1>3 DEF AnthropicMessages
  <1>5. kind = "content_block_start" => ms = <<Message("content_block_start", index, data, "")>>
    BY <1>1, <1>3 DEF AnthropicMessages
  <1>6. kind = "tool_call_start" =>
           ms = <<Message("content_block_start", index, "tool_use", data)>>
    BY <1>1, <1>3 DEF AnthropicMessages
  <1>7. kind = "text_delta" => ms = <<Message("content_block_delta", index, "text", data)>>
    BY <1>1, <1>3 DEF AnthropicMessages
  <1>8. kind = "reasoning_delta" =>
           ms = <<Message("content_block_delta", index, "reasoning", data)>>
    BY <1>1, <1>3 DEF AnthropicMessages
  <1>9. kind = "signature_delta" =>
           ms = <<Message("content_block_delta", index, "signature", "")>>
    BY <1>1, <1>3 DEF AnthropicMessages
  <1>10. kind = "tool_call_delta" =>
            ms = <<Message("content_block_delta", index, "tool_use", data)>>
    BY <1>1, <1>3 DEF AnthropicMessages
  <1>11. kind = "content_block_end" => ms = <<Message("content_block_stop", index, "", "")>>
    BY <1>1, <1>3 DEF AnthropicMessages
  <1>12. kind = "stream_end" =>
            ms = <<Message("message_delta", None, "", Told(w.reason, w.usage)),
                   Message("message_stop", None, "", "")>>
    BY <1>1, <1>3 DEF AnthropicMessages
  <1>13. kind \in {"finish", "usage"} => ms = <<>>
    BY <1>1, <1>3 DEF AnthropicMessages
  <1>14. /\ kind = "finish" => r.writer = [w EXCEPT !.reason = AsTold(data)]
         /\ kind = "usage" => r.writer = [w EXCEPT !.usage = data]
         /\ kind \notin {"finish", "usage"} => r.writer = w
    BY <1>1 DEF WriteAnthropic, AsTold
  <1> HIDE DEF r
  <1>15. AnthropicWritten(w, kind, index, data, r)
    BY <1>4, <1>5, <1>6, <1>7, <1>8, <1>9, <1>10, <1>11, <1>12, <1>13, <1>14, Zenon
       DEF AnthropicWritten, ms
  <1> QED
    BY <1>2, <1>15 DEF ev

WithBlock(w, b) ==
    [byBlock |-> [k \in DOMAIN w.byBlock \cup {b} |->
                     IF k = b THEN Cardinality(DOMAIN w.byBlock) ELSE w.byBlock[k]]]

OpenAIWritten(w, kind, index, data, r) ==
    /\ kind = "tool_call_start" =>
          /\ r.messages = <<Message("chunk", Cardinality(DOMAIN w.byBlock), "tool_use", data)>>
          /\ r.writer = WithBlock(w, index)
    /\ kind = "tool_call_delta" /\ index \in DOMAIN w.byBlock =>
          r.messages = <<Message("arguments", w.byBlock[index], "tool_use", data)>>
    /\ kind = "tool_call_delta" /\ index \notin DOMAIN w.byBlock => r.messages = <<>>
    /\ kind = "text_delta" => r.messages = <<Message("content", None, "text", data)>>
    /\ kind = "finish" => r.messages = <<Message("finish", None, "", AsTold(data))>>
    /\ kind = "usage" /\ data > 0 => r.messages = <<Message("usage", None, "", data)>>
    /\ kind = "usage" /\ ~(data > 0) => r.messages = <<>>
    /\ kind = "stream_end" => r.messages = <<Message("[DONE]", None, "", "")>>
    /\ kind \in {"stream_start", "content_block_start", "content_block_end",
                 "reasoning_delta", "signature_delta"} => r.messages = <<>>
    /\ kind # "tool_call_start" => r.writer = w

LEMMA OpenAIWrites ==
    ASSUME dialect = "openai", NEW w, NEW kind, NEW index, NEW data
    PROVE  OpenAIWritten(w, kind, index, data, Write(w, Event(kind, index, data)))
  <1> DEFINE ev == Event(kind, index, data)
  <1>1. ev.kind = kind /\ ev.index = index /\ ev.data = data
    BY DEF Event
  <1> HIDE DEF ev
  <1> DEFINE r == WriteOpenAI(w, ev)
  <1>2. Write(w, ev) = r
    BY DEF Write
  <1> DEFINE ms == r.messages
  <1>3. ms = OpenAIMessages(w, ev)
    BY DEF WriteOpenAI
  <1> HIDE DEF ms
  <1>4. kind = "tool_call_start" =>
           ms = <<Message("chunk", Cardinality(DOMAIN w.byBlock), "tool_use", data)>>
    BY <1>1, <1>3 DEF OpenAIMessages
  <1>5. /\ kind = "tool_call_delta" /\ index \in DOMAIN w.byBlock =>
              ms = <<Message("arguments", w.byBlock[index], "tool_use", data)>>
        /\ kind = "tool_call_delta" /\ index \notin DOMAIN w.byBlock => ms = <<>>
    BY <1>1, <1>3 DEF OpenAIMessages
  <1>6. kind = "text_delta" => ms = <<Message("content", None, "text", data)>>
    BY <1>1, <1>3 DEF OpenAIMessages
  <1>7. kind = "finish" => ms = <<Message("finish", None, "", AsTold(data))>>
    BY <1>1, <1>3 DEF OpenAIMessages, AsTold
  <1>8. /\ kind = "usage" /\ data > 0 => ms = <<Message("usage", None, "", data)>>
        /\ kind = "usage" /\ ~(data > 0) => ms = <<>>
    BY <1>1, <1>3 DEF OpenAIMessages
  <1>9. kind = "stream_end" => ms = <<Message("[DONE]", None, "", "")>>
    BY <1>1, <1>3 DEF OpenAIMessages
  <1>10. kind \in {"stream_start", "content_block_start", "content_block_end",
                   "reasoning_delta", "signature_delta"} => ms = <<>>
    BY <1>1, <1>3 DEF OpenAIMessages
  <1>11. /\ kind = "tool_call_start" => r.writer = WithBlock(w, index)
         /\ kind # "tool_call_start" => r.writer = w
    BY <1>1 DEF WriteOpenAI, WithBlock
  <1> HIDE DEF r
  <1>12. OpenAIWritten(w, kind, index, data, r)
    BY <1>4, <1>5, <1>6, <1>7, <1>8, <1>9, <1>10, <1>11, Zenon DEF OpenAIWritten, ms
  <1> QED
    BY <1>2, <1>12 DEF ev

ResponsesWritten(w, kind, data, ms) ==
    /\ kind = "content_block_start" => ms = <<Message("output_item.added", w.index, data, "")>>
    /\ kind = "tool_call_start" =>
          ms = <<Message("output_item.added", w.index, "tool_use", data)>>
    /\ kind = "text_delta" /\ w.cur # <<>> /\ data # <<>> =>
          ms = <<Message("output_text.delta", w.cur[1].slot, "text", data)>>
    /\ kind = "reasoning_delta" /\ w.cur # <<>> /\ data # <<>> =>
          ms = <<Message("reasoning_summary_text.delta", w.cur[1].slot, "reasoning", data)>>
    /\ kind = "tool_call_delta" /\ w.cur # <<>> =>
          ms = <<Message("function_call_arguments.delta", w.cur[1].slot, "tool_use", data)>>
    /\ kind = "content_block_end" /\ w.cur # <<>> =>
          \E x : ms = <<Message("output_item.done", w.cur[1].slot, w.cur[1].type, x)>>
    /\ kind = "stream_end" =>
          ms = <<Message("response.completed", None, "", Told("", w.usage))>>
    /\ kind \in {"stream_start", "finish", "usage", "signature_delta"} => ms = <<>>
    /\ kind \in TextKinds /\ ~(w.cur # <<>> /\ data # <<>>) => ms = <<>>
    /\ kind \in {"tool_call_delta", "content_block_end"} /\ w.cur = <<>> => ms = <<>>

LEMMA ResponsesWrites ==
    ASSUME dialect = "responses", NEW w, NEW kind, NEW index, NEW data
    PROVE  /\ ResponsesWritten(w, kind, data, Write(w, Event(kind, index, data)).messages)
           /\ Write(w, Event(kind, index, data)) = WriteResponses(w, Event(kind, index, data))
  <1> DEFINE ev == Event(kind, index, data)
  <1>1. ev.kind = kind /\ ev.index = index /\ ev.data = data
    BY DEF Event
  <1> HIDE DEF ev
  <1> DEFINE r == WriteResponses(w, ev)
  <1>2. Write(w, ev) = r
    BY DEF Write
  <1> DEFINE ms == r.messages
  <1>3. kind = "content_block_start" => ms = <<Message("output_item.added", w.index, data, "")>>
    BY <1>1 DEF WriteResponses
  <1>4. kind = "tool_call_start" =>
           ms = <<Message("output_item.added", w.index, "tool_use", data)>>
    BY <1>1 DEF WriteResponses
  <1>5. kind = "text_delta" /\ w.cur # <<>> /\ data # <<>> =>
           ms = <<Message("output_text.delta", w.cur[1].slot, "text", data)>>
    BY <1>1 DEF WriteResponses
  <1>6. kind = "reasoning_delta" /\ w.cur # <<>> /\ data # <<>> =>
           ms = <<Message("reasoning_summary_text.delta", w.cur[1].slot, "reasoning", data)>>
    BY <1>1 DEF WriteResponses
  <1>7. kind = "tool_call_delta" /\ w.cur # <<>> =>
           ms = <<Message("function_call_arguments.delta", w.cur[1].slot, "tool_use", data)>>
    BY <1>1 DEF WriteResponses
  <1>8. kind = "content_block_end" /\ w.cur # <<>> =>
           \E x : ms = <<Message("output_item.done", w.cur[1].slot, w.cur[1].type, x)>>
    BY <1>1 DEF WriteResponses
  <1>9. kind = "stream_end" => ms = <<Message("response.completed", None, "", Told("", w.usage))>>
    BY <1>1 DEF WriteResponses
  <1>10. /\ kind \in {"stream_start", "finish", "usage", "signature_delta"} => ms = <<>>
         /\ kind \in TextKinds /\ ~(w.cur # <<>> /\ data # <<>>) => ms = <<>>
         /\ kind \in {"tool_call_delta", "content_block_end"} /\ w.cur = <<>> => ms = <<>>
    BY <1>1 DEF WriteResponses, TextKinds
  <1> HIDE DEF r
  <1>11. ResponsesWritten(w, kind, data, ms)
    BY <1>3, <1>4, <1>5, <1>6, <1>7, <1>8, <1>9, <1>10, Zenon DEF ResponsesWritten
  <1> QED
    BY <1>2, <1>11 DEF ev, r

LEMMA MessageIs ==
    \A type, slot, what, data :
       /\ Message(type, slot, what, data).type = type
       /\ Message(type, slot, what, data).slot = slot
       /\ Message(type, slot, what, data).what = what
       /\ Message(type, slot, what, data).data = data
  BY DEF Message

\* The event with its data restored, which only touches text.
RestoredAs(buf, kind, index, data, r) ==
    \E d, h : /\ r = [event |-> Event(kind, index, d), held |-> h]
              /\ kind \notin TextKinds => d = data /\ h = buf

LEMMA RestoreIs ==
    ASSUME NEW buf, NEW kind, NEW index, NEW data
    PROVE  RestoredAs(buf, kind, index, data, Restore(buf, Event(kind, index, data)))
  <1> DEFINE ev == Event(kind, index, data)
  <1>1. ev.kind = kind /\ ev.data = data
    BY DEF Event
  <1>2. \A x : [ev EXCEPT !.data = x] = Event(kind, index, x)
    BY DEF Event
  <1> HIDE DEF ev
  <1>3. CASE warden /\ kind \in TextKinds /\ data # <<>>
    <2>1. Restore(buf, ev) = [event |-> [ev EXCEPT !.data = Feed(buf, data).out],
                              held |-> Feed(buf, data).held]
      BY <1>1, <1>3 DEF Restore, TextKinds
    <2>2. Restore(buf, ev) = [event |-> Event(kind, index, Feed(buf, data).out),
                              held |-> Feed(buf, data).held]
      BY <1>2, <2>1
    <2>3. \E d2, h2 : Restore(buf, ev) = [event |-> Event(kind, index, d2), held |-> h2]
      BY <2>2
    <2> QED
      BY <1>3, <2>3 DEF ev, RestoredAs
  <1>4. CASE ~(warden /\ kind \in TextKinds /\ data # <<>>)
    <2>1. Restore(buf, ev) = [event |-> ev, held |-> buf]
      BY <1>1, <1>4 DEF Restore, TextKinds
    <2> QED
      BY <2>1 DEF ev, RestoredAs
  <1> QED
    BY <1>3, <1>4

\* What one event does to the writer and the client.
PassedAs(acc, kind, index, d, after) ==
    /\ after.writer = Write(acc.writer, Event(kind, index, d)).writer
    /\ after.client = acc.client \o Write(acc.writer, Event(kind, index, d)).messages

LEMMA Passed ==
    ASSUME NEW acc, NEW kind, NEW index, NEW data
    PROVE  \E d : /\ PassedAs(acc, kind, index, d, Pass(acc, Event(kind, index, data)))
                  /\ kind \notin TextKinds => d = data
  <1> DEFINE ev == Event(kind, index, data)
  <1> DEFINE r == Restore(acc.held, ev)
  <1>0. RestoredAs(acc.held, kind, index, data, r)
    BY RestoreIs
  <1>1. PICK d, h : /\ r = [event |-> Event(kind, index, d), held |-> h]
                    /\ kind \notin TextKinds => d = data /\ h = acc.held
    BY <1>0 DEF RestoredAs
  <1>2. r.event = Event(kind, index, d)
    BY <1>1
  <1>3. /\ Pass(acc, ev).writer = Write(acc.writer, r.event).writer
        /\ Pass(acc, ev).client = acc.client \o Write(acc.writer, r.event).messages
    BY PassIs
  <1> HIDE DEF r, ev
  <1>4. PassedAs(acc, kind, index, d, Pass(acc, ev))
    BY <1>2, <1>3 DEF PassedAs
  <1> QED
    BY <1>1, <1>4 DEF ev

-----------------------------------------------------------------------------
(* The end of a stream, as the client is told of it. *)

FinalTypes == {"message_delta", "message_stop", "finish", "usage", "[DONE]",
               "response.completed"}
NoneFinal(ms) ==
    \/ ms = <<>>
    \/ \E m : ms = <<m>> /\ m.type \notin FinalTypes
    \/ \E m, n : ms = <<m, n>> /\ m.type \notin FinalTypes /\ n.type \notin FinalTypes
PlainKinds == {"stream_start", "content_block_start", "tool_call_start", "signature_delta",
               "tool_call_delta", "content_block_end", "text_delta", "reasoning_delta"}

\* Nothing of the end has been told yet.
PlainK(d, acc) ==
    /\ IsSeq(acc.client)
    /\ \A i \in DOMAIN acc.client : acc.client[i].type \notin FinalTypes
    /\ d = "anthropic" => acc.writer = InitAnthropic
    /\ d = "responses" => ResponsesShape(acc.writer)

LEMMA NoneFinalAppend ==
    ASSUME NEW c, IsSeq(c), \A i \in DOMAIN c : c[i].type \notin FinalTypes, NEW ms, NoneFinal(ms)
    PROVE  IsSeq(c \o ms) /\ \A i \in DOMAIN (c \o ms) : (c \o ms)[i].type \notin FinalTypes
  <1>1. ASSUME NEW x, IsSeq(x), \A i \in DOMAIN x : x[i].type \notin FinalTypes,
               NEW m, m.type \notin FinalTypes
        PROVE  /\ IsSeq(Append(x, m))
               /\ \A i \in DOMAIN Append(x, m) : Append(x, m)[i].type \notin FinalTypes
    <2> DEFINE y == Append(x, m)
    <2>0. IsSeq(x)
      BY <1>1
    <2> HIDE DEF y
    <2>1. /\ IsSeq(y) /\ Len(x) \in Nat /\ DOMAIN x = 1..Len(x) /\ DOMAIN y = 1..(Len(x) + 1)
          /\ y[Len(x) + 1] = m /\ \A i \in 1..Len(x) : y[i] = x[i]
      <3>1. IsSeq(Append(x, m)) /\ Len(x) \in Nat /\ DOMAIN x = 1..Len(x)
        BY <2>0, IsSeqAppend
      <3>2. DOMAIN Append(x, m) = 1..(Len(x) + 1) /\ Append(x, m)[Len(x) + 1] = m
        BY <2>0, IsSeqAppend
      <3>3. \A i \in 1..Len(x) : Append(x, m)[i] = x[i]
        BY <2>0, IsSeqAppend
      <3> QED
        BY <3>1, <3>2, <3>3, Zenon DEF y
    <2>2. \A i \in DOMAIN y : i = Len(x) + 1 \/ i \in 1..Len(x)
      BY <2>1
    <2>3. \A i \in DOMAIN y : y[i].type \notin FinalTypes
      BY <1>1, <2>1, <2>2
    <2> QED
      BY <2>1, <2>3 DEF y
  <1>2. CASE ms = <<>>
    BY <1>2, IsSeqFew
  <1>3. ASSUME NEW m, ms = <<m>>, m.type \notin FinalTypes
        PROVE  IsSeq(c \o ms) /\ \A i \in DOMAIN (c \o ms) : (c \o ms)[i].type \notin FinalTypes
    <2>1. c \o ms = Append(c, m)
      BY <1>3, IsSeqAppend
    <2> QED
      BY <1>1, <1>3, <2>1
  <1>4. ASSUME NEW m, NEW n, ms = <<m, n>>, m.type \notin FinalTypes, n.type \notin FinalTypes
        PROVE  IsSeq(c \o ms) /\ \A i \in DOMAIN (c \o ms) : (c \o ms)[i].type \notin FinalTypes
    <2>1. c \o ms = Append(Append(c, m), n)
      BY <1>4, AppendTwo
    <2> DEFINE d == Append(c, m)
    <2>2. IsSeq(d) /\ \A i \in DOMAIN d : d[i].type \notin FinalTypes
      BY <1>1, <1>4
    <2> HIDE DEF d
    <2>3. IsSeq(Append(d, n)) /\ \A i \in DOMAIN Append(d, n) : Append(d, n)[i].type \notin FinalTypes
      BY <1>1, <1>4, <2>2
    <2> QED
      BY <2>1, <2>3 DEF d
  <1> QED
    BY <1>2, <1>3, <1>4 DEF NoneFinal

LEMMA PlainWrites ==
    ASSUME dialect \in Dialects, NEW w, NEW kind \in PlainKinds, NEW index, NEW data
    PROVE  /\ NoneFinal(Write(w, Event(kind, index, data)).messages)
           /\ dialect = "anthropic" => Write(w, Event(kind, index, data)).writer = w
  <1> DEFINE r == Write(w, Event(kind, index, data))
  <1>1. /\ NoneFinal(<<>>)
        /\ \A type, slot, what, d : type \notin FinalTypes =>
              NoneFinal(<<Message(type, slot, what, d)>>)
        /\ \A t1, s1, w1, d1, t2, s2, w2, d2 : t1 \notin FinalTypes /\ t2 \notin FinalTypes =>
              NoneFinal(<<Message(t1, s1, w1, d1), Message(t2, s2, w2, d2)>>)
    <2>1. /\ NoneFinal(<<>>)
          /\ \A m : m.type \notin FinalTypes => NoneFinal(<<m>>)
          /\ \A m, n : m.type \notin FinalTypes /\ n.type \notin FinalTypes => NoneFinal(<<m, n>>)
      BY Zenon DEF NoneFinal
    <2>2. \A type, slot, what, d : type \notin FinalTypes =>
             NoneFinal(<<Message(type, slot, what, d)>>)
      <3> SUFFICES ASSUME NEW type, NEW slot, NEW what, NEW d, type \notin FinalTypes
                   PROVE  NoneFinal(<<Message(type, slot, what, d)>>)
        OBVIOUS
      <3> DEFINE m == Message(type, slot, what, d)
      <3>1. m.type \notin FinalTypes
        BY MessageIs
      <3> HIDE DEF m
      <3>2. NoneFinal(<<m>>)
        BY <2>1, <3>1, Zenon
      <3> QED
        BY <3>2 DEF m
    <2>3. \A t1, s1, w1, d1, t2, s2, w2, d2 : t1 \notin FinalTypes /\ t2 \notin FinalTypes =>
             NoneFinal(<<Message(t1, s1, w1, d1), Message(t2, s2, w2, d2)>>)
      <3> SUFFICES ASSUME NEW t1, NEW s1, NEW w1, NEW d1, NEW t2, NEW s2, NEW w2, NEW d2,
                          t1 \notin FinalTypes, t2 \notin FinalTypes
                   PROVE  NoneFinal(<<Message(t1, s1, w1, d1), Message(t2, s2, w2, d2)>>)
        OBVIOUS
      <3> DEFINE m == Message(t1, s1, w1, d1)
      <3> DEFINE n == Message(t2, s2, w2, d2)
      <3>1. m.type \notin FinalTypes /\ n.type \notin FinalTypes
        BY MessageIs
      <3> HIDE DEF m, n
      <3>2. NoneFinal(<<m, n>>)
        BY <2>1, <3>1, Zenon
      <3> QED
        BY <3>2 DEF m, n
    <2> QED
      BY <2>1, <2>2, <2>3, Zenon
  <1>2. \A type \in {"message_start", "ping", "content_block_start", "content_block_delta",
                     "content_block_stop", "chunk", "arguments", "content", "output_item.added",
                     "output_text.delta", "reasoning_summary_text.delta", "output_item.done",
                     "function_call_arguments.delta"} : type \notin FinalTypes
    BY DEF FinalTypes
  <1> HIDE DEF r
  <1>3. CASE dialect = "anthropic"
    <2>1. AnthropicWritten(w, kind, index, data, r)
      BY <1>3, AnthropicWrites DEF r
    <2>2. r.writer = w
      BY <2>1 DEF AnthropicWritten, PlainKinds
    <2>3. CASE kind = "stream_start"
      <3>1. \A d : d = "" => r.messages = <<Message("message_start", None, d, d),
                                           Message("ping", None, d, d)>>
        BY <2>1, <2>3 DEF AnthropicWritten
      <3>2. "message_start" \notin FinalTypes /\ "ping" \notin FinalTypes
        BY <1>2
      <3>3. \A d : NoneFinal(<<Message("message_start", None, d, d), Message("ping", None, d, d)>>)
        BY <1>1, <3>2, Zenon
      <3>4. NoneFinal(r.messages)
        BY <3>1, <3>3
      <3> QED
        BY <2>2, <3>4 DEF r
    <2>4. CASE kind # "stream_start"
      <3> DEFINE One == \E type, slot, what, d :
               /\ r.messages = <<Message(type, slot, what, d)>>
               /\ type \in {"content_block_start", "content_block_delta", "content_block_stop"}
      <3>0. PICK nil : nil = ""
        OBVIOUS
      <3>1. One
        <4>1. CASE kind \in {"text_delta", "reasoning_delta", "tool_call_delta"}
          <5>1. \E what : r.messages = <<Message("content_block_delta", index, what, data)>>
            BY <2>1, <4>1 DEF AnthropicWritten
          <5> QED
            BY <5>1
        <4>2. CASE kind = "signature_delta"
          <5>1. r.messages = <<Message("content_block_delta", index, "signature", nil)>>
            BY <2>1, <3>0, <4>2 DEF AnthropicWritten
          <5> QED
            BY <5>1
        <4>3. CASE kind = "content_block_start"
          <5>1. r.messages = <<Message("content_block_start", index, data, nil)>>
            BY <2>1, <3>0, <4>3 DEF AnthropicWritten
          <5> QED
            BY <5>1
        <4>4. CASE kind = "tool_call_start"
          BY <2>1, <4>4 DEF AnthropicWritten
        <4>5. CASE kind = "content_block_end"
          <5>1. r.messages = <<Message("content_block_stop", index, nil, nil)>>
            BY <2>1, <3>0, <4>5 DEF AnthropicWritten
          <5> QED
            BY <5>1
        <4> HIDE DEF One
        <4> QED
          BY <2>4, <4>1, <4>2, <4>3, <4>4, <4>5 DEF PlainKinds
      <3>2. NoneFinal(r.messages)
        BY <1>1, <1>2, <3>1
      <3> QED
        BY <2>2, <3>2 DEF r
    <2> QED
      BY <2>3, <2>4
  <1>4. CASE dialect = "openai"
    <2>1. OpenAIWritten(w, kind, index, data, r)
      BY <1>4, OpenAIWrites DEF r
    <2>2. \/ r.messages = <<>>
          \/ \E type, slot, what, d :
               /\ r.messages = <<Message(type, slot, what, d)>>
               /\ type \in {"chunk", "arguments", "content"}
      BY <2>1 DEF OpenAIWritten, PlainKinds
    <2>3. NoneFinal(r.messages)
      BY <1>1, <1>2, <2>2
    <2> QED
      BY <1>4, <2>3 DEF r
  <1>5. CASE dialect = "responses"
    <2>1. ResponsesWritten(w, kind, data, r.messages)
      BY <1>5, ResponsesWrites DEF r
    <2>2. \/ r.messages = <<>>
          \/ \E type, slot, what, d :
               /\ r.messages = <<Message(type, slot, what, d)>>
               /\ type \in {"output_item.added", "output_text.delta",
                            "reasoning_summary_text.delta", "output_item.done",
                            "function_call_arguments.delta"}
      BY <2>1 DEF ResponsesWritten, PlainKinds, TextKinds
    <2>3. NoneFinal(r.messages)
      BY <1>1, <1>2, <2>2
    <2> QED
      BY <1>5, <2>3 DEF r
  <1> QED
    BY <1>3, <1>4, <1>5 DEF Dialects

LEMMA PlainStep ==
    ASSUME dialect \in Dialects, NEW acc, PlainK(dialect, acc),
           NEW kind \in PlainKinds, NEW index, NEW data
    PROVE  PlainK(dialect, Pass(acc, Event(kind, index, data)))
  <1> DEFINE after == Pass(acc, Event(kind, index, data))
  <1>1. PICK d : PassedAs(acc, kind, index, d, after)
    BY Passed
  <1> DEFINE r == Write(acc.writer, Event(kind, index, d))
  <1>2. after.writer = r.writer /\ after.client = acc.client \o r.messages
    BY <1>1 DEF PassedAs
  <1>3. NoneFinal(r.messages) /\ (dialect = "anthropic" => r.writer = acc.writer)
    BY PlainWrites
  <1>4. dialect = "responses" => ResponsesShape(r.writer)
    <2> SUFFICES ASSUME dialect = "responses" PROVE ResponsesShape(r.writer)
      OBVIOUS
    <2>1. kind \in QuietKinds \cup TextKinds /\ ResponsesShape(acc.writer)
      BY DEF PlainKinds, QuietKinds, TextKinds, PlainK
    <2>2. r = WriteResponses(acc.writer, Event(kind, index, d))
      BY ResponsesWrites
    <2>3. ResponsesAfter(acc.writer, kind, d, r.writer)
      BY <2>1, <2>2, ResponsesWriter
    <2> HIDE DEF r
    <2> QED
      BY <2>1, <2>3, ResponsesOpen
  <1> HIDE DEF after, r
  <1>5. /\ IsSeq(after.client)
        /\ \A i \in DOMAIN after.client : after.client[i].type \notin FinalTypes
    BY <1>2, <1>3, NoneFinalAppend DEF PlainK
  <1>6. PlainK(dialect, after)
    BY <1>2, <1>3, <1>4, <1>5 DEF PlainK
  <1> QED
    BY <1>6 DEF after

LEMMA PlainSteps ==
    ASSUME dialect \in Dialects, NEW start, PlainK(dialect, start),
           NEW events, EventsOf(PlainKinds, events)
    PROVE  PlainK(dialect, PassAll(start, events))
  <1>1. PICK S : events \in Seq(S) /\ \A x \in S : EventOf(PlainKinds, x)
    BY DEF EventsOf
  <1> DEFINE n == Len(events)
  <1>2. n \in Nat /\ \A i \in 1..n : EventOf(PlainKinds, events[i])
    BY <1>1
  <1>3. PICK h : Passes(start, events, h) /\ h[n] = PassAll(start, events)
    BY <1>2, PassTable
  <1> DEFINE Good(k) == PlainK(dialect, h[k])
  <1> DEFINE R == {k \in Nat : k <= n => Good(k)}
  <1>4. Good(0)
    BY <1>3 DEF Passes
  <1>5. ASSUME NEW k \in Nat, k + 1 <= n, Good(k) PROVE Good(k + 1)
    <2>1. k + 1 \in 1..n /\ (k + 1) - 1 = k
      BY <1>2, <1>5
    <2>2. PlainK(dialect, h[k])
      BY <1>5
    <2>3. h[k + 1] = Pass(h[k], events[k + 1])
      BY <1>3, <2>1 DEF Passes
    <2>4. PICK kind \in PlainKinds : \E index, data : events[k + 1] = Event(kind, index, data)
      BY <1>2, <2>1 DEF EventOf
    <2>5. PICK index, data : events[k + 1] = Event(kind, index, data)
      BY <2>4
    <2>6. PlainK(dialect, Pass(h[k], Event(kind, index, data)))
      BY <2>2, PlainStep
    <2> QED
      BY <2>3, <2>5, <2>6
  <1> HIDE DEF Good
  <1>6. 0 \in R /\ R \in SUBSET Nat
    BY <1>4
  <1>7. ASSUME NEW k \in R PROVE k + 1 \in R
    BY <1>2, <1>5
  <1>8. R = Nat
    <2> HIDE DEF R
    <2> QED
      BY <1>6, <1>7, Induction
  <1>9. Good(n)
    BY <1>2, <1>8
  <1> QED
    BY <1>3, <1>9 DEF Good

\* The places of one type of message.
Places(c, type) == {i \in DOMAIN c : c[i].type = type}

LEMMA PlacesAppend ==
    ASSUME NEW c, IsSeq(c), NEW m
    PROVE  /\ \A type : m.type # type => Places(Append(c, m), type) = Places(c, type)
           /\ Places(Append(c, m), m.type) = Places(c, m.type) \cup {Len(c) + 1}
           /\ \A type : Places(c, type) \subseteq 1..Len(c)
           /\ \A i \in DOMAIN c : i \in DOMAIN Append(c, m) /\ Append(c, m)[i] = c[i]
           /\ Len(c) + 1 \in DOMAIN Append(c, m) /\ Append(c, m)[Len(c) + 1] = m
           /\ IsSeq(Append(c, m))
  <1> DEFINE d == Append(c, m)
  <1>1. /\ IsSeq(d) /\ Len(c) \in Nat /\ DOMAIN c = 1..Len(c)
        /\ DOMAIN d = 1..(Len(c) + 1) /\ d[Len(c) + 1] = m
        /\ \A i \in 1..Len(c) : d[i] = c[i]
    <2>1. Grown(d, c, m)
      BY AppendGrows
    <2> HIDE DEF d
    <2> QED
      BY <2>1 DEF Grown
  <1> HIDE DEF d
  <1>2. \A type : m.type # type => Places(d, type) = Places(c, type)
    BY <1>1 DEF Places
  <1>3. Places(d, m.type) = Places(c, m.type) \cup {Len(c) + 1}
    BY <1>1 DEF Places
  <1>4. /\ \A type : Places(c, type) \subseteq 1..Len(c)
        /\ \A i \in DOMAIN c : i \in DOMAIN d /\ d[i] = c[i]
        /\ Len(c) + 1 \in DOMAIN d
    BY <1>1 DEF Places
  <1> QED
    BY <1>1, <1>2, <1>3, <1>4 DEF d

\* One message of a type, with its data, and no other of that type.
OnlyOne(c, type, data) == \E i \in DOMAIN c : Places(c, type) = {i} /\ c[i].data = data

LEMMA OnlyOneAppend ==
    ASSUME NEW c, IsSeq(c), NEW m
    PROVE  /\ Places(c, m.type) = {} => OnlyOne(Append(c, m), m.type, m.data)
           /\ \A type, data : OnlyOne(c, type, data) /\ m.type # type =>
                 OnlyOne(Append(c, m), type, data)
           /\ \A type : Places(c, type) = {} /\ m.type # type => Places(Append(c, m), type) = {}
           /\ IsSeq(Append(c, m))
  <1> DEFINE d == Append(c, m)
  <1>1. /\ \A type : m.type # type => Places(d, type) = Places(c, type)
        /\ Places(d, m.type) = Places(c, m.type) \cup {Len(c) + 1}
        /\ \A type : Places(c, type) \subseteq 1..Len(c)
        /\ \A i \in DOMAIN c : i \in DOMAIN d /\ d[i] = c[i]
        /\ Len(c) + 1 \in DOMAIN d /\ d[Len(c) + 1] = m /\ IsSeq(d)
    BY PlacesAppend
  <1> HIDE DEF d
  <1>2. Places(c, m.type) = {} => OnlyOne(d, m.type, m.data)
    BY <1>1 DEF OnlyOne
  <1>3. \A type, data : OnlyOne(c, type, data) /\ m.type # type => OnlyOne(d, type, data)
    BY <1>1 DEF OnlyOne
  <1>4. \A type : Places(c, type) = {} /\ m.type # type => Places(d, type) = {}
    BY <1>1
  <1> QED
    BY <1>1, <1>2, <1>3, <1>4 DEF d

\* What the client has been told at the end.
ToldAfter(d, c, reason, usage) ==
    /\ d = "anthropic" => OnlyOne(c, "message_delta", Told(AsTold(reason), usage))
    /\ d = "openai" => /\ OnlyOne(c, "finish", AsTold(reason))
                       /\ usage > 0 => OnlyOne(c, "usage", usage)
                       /\ ~(usage > 0) => Places(c, "usage") = {}
    /\ d = "responses" => OnlyOne(c, "response.completed", Told("", usage))

LEMMA ClosingIs ==
    ASSUME dialect \in Dialects, NEW acc, PlainK(dialect, acc), NEW reason, NEW usage, NEW nil
    PROVE  ToldAfter(dialect,
                     Pass(Pass(Pass(acc, Event("finish", None, reason)), Event("usage", None, usage)),
                          Event("stream_end", None, nil)).client,
                     reason, usage)
  <1> DEFINE one == Pass(acc, Event("finish", None, reason))
  <1> DEFINE two == Pass(one, Event("usage", None, usage))
  <1> DEFINE three == Pass(two, Event("stream_end", None, nil))
  <1>0. "finish" \notin TextKinds /\ "usage" \notin TextKinds /\ "stream_end" \notin TextKinds
    BY DEF TextKinds
  <1>1. /\ PassedAs(acc, "finish", None, reason, one)
        /\ PassedAs(one, "usage", None, usage, two)
        /\ PassedAs(two, "stream_end", None, nil, three)
    <2>1. PassedAs(acc, "finish", None, reason, one)
      BY <1>0, Passed
    <2> HIDE DEF one
    <2>2. PassedAs(one, "usage", None, usage, two)
      BY <1>0, Passed
    <2> HIDE DEF two
    <2>3. PassedAs(two, "stream_end", None, nil, three)
      BY <1>0, Passed
    <2> QED
      BY <2>1, <2>2, <2>3
  <1> HIDE DEF one, two, three
  <1>2. /\ IsSeq(acc.client) /\ \A type \in FinalTypes : Places(acc.client, type) = {}
    BY DEF PlainK, Places
  <1>3. IsSeq(acc.client \o <<>>) /\ acc.client \o <<>> = acc.client
    BY <1>2, IsSeqFew
  <1>4. \A c, m : IsSeq(c) => c \o <<m>> = Append(c, m)
    BY IsSeqAppend
  <1>4a. \A m, n : acc.client \o <<m, n>> = Append(Append(acc.client, m), n)
    <2> SUFFICES ASSUME NEW m, NEW n
                 PROVE  acc.client \o <<m, n>> = Append(Append(acc.client, m), n)
      OBVIOUS
    <2> DEFINE c == acc.client
    <2>1. IsSeq(c)
      BY <1>2
    <2> HIDE DEF c
    <2>2. c \o <<m, n>> = Append(Append(c, m), n)
      BY <2>1, AppendTwo
    <2> QED
      BY <2>2 DEF c
  <1>4b. PICK blank : blank = ""
    OBVIOUS
  <1>5. CASE dialect = "anthropic"
    <2> DEFINE r1 == Write(acc.writer, Event("finish", None, reason))
    <2> DEFINE r2 == Write(one.writer, Event("usage", None, usage))
    <2> DEFINE r3 == Write(two.writer, Event("stream_end", None, nil))
    <2>1. /\ AnthropicWritten(acc.writer, "finish", None, reason, r1)
          /\ AnthropicWritten(one.writer, "usage", None, usage, r2)
          /\ AnthropicWritten(two.writer, "stream_end", None, nil, r3)
      BY <1>5, AnthropicWrites
    <2>2. /\ one.writer = r1.writer /\ one.client = acc.client \o r1.messages
          /\ two.writer = r2.writer /\ two.client = one.client \o r2.messages
          /\ three.client = two.client \o r3.messages
      BY <1>1 DEF PassedAs
    <2> HIDE DEF r1, r2, r3
    <2>3. r1.messages = <<>> /\ one.writer = [acc.writer EXCEPT !.reason = AsTold(reason)]
      BY <2>1, <2>2 DEF AnthropicWritten
    <2>4. r2.messages = <<>> /\ two.writer = [one.writer EXCEPT !.usage = usage]
      BY <2>1, <2>2 DEF AnthropicWritten
    <2>5. acc.writer = [reason |-> blank, usage |-> 0]
      BY <1>4b, <1>5 DEF PlainK, InitAnthropic
    <2>6. two.writer.reason = AsTold(reason) /\ two.writer.usage = usage
      <3> DEFINE told == AsTold(reason)
      <3> HIDE DEF told
      <3>1. one.writer = [reason |-> told, usage |-> 0]
        BY <2>3, <2>5 DEF told
      <3>2. two.writer = [reason |-> told, usage |-> usage]
        BY <2>4, <3>1
      <3> QED
        BY <3>2 DEF told
    <2>7. two.client = acc.client
      BY <1>3, <2>2, <2>3, <2>4
    <2> DEFINE m == Message("message_delta", None, blank, Told(AsTold(reason), usage))
    <2> DEFINE n == Message("message_stop", None, blank, blank)
    <2>8. r3.messages = <<m, n>>
      BY <1>4b, <2>1, <2>6 DEF AnthropicWritten
    <2>9. m.type = "message_delta" /\ m.data = Told(AsTold(reason), usage) /\ n.type = "message_stop"
      BY MessageIs
    <2> HIDE DEF m, n
    <2>10. three.client = Append(Append(acc.client, m), n)
      BY <1>2, <1>4a, <2>2, <2>7, <2>8
    <2> DEFINE c == Append(acc.client, m)
    <2>11. OnlyOne(c, "message_delta", Told(AsTold(reason), usage)) /\ IsSeq(c)
      <3>1. Places(acc.client, m.type) = {}
        BY <1>2, <2>9 DEF FinalTypes
      <3> QED
        BY <1>2, <2>9, <3>1, OnlyOneAppend
    <2> HIDE DEF c
    <2>12. OnlyOne(Append(c, n), "message_delta", Told(AsTold(reason), usage))
      BY <2>9, <2>11, OnlyOneAppend
    <2> QED
      BY <1>5, <2>10, <2>12 DEF ToldAfter, c, one, two, three
  <1>6. CASE dialect = "openai"
    <2> DEFINE r1 == Write(acc.writer, Event("finish", None, reason))
    <2> DEFINE r2 == Write(one.writer, Event("usage", None, usage))
    <2> DEFINE r3 == Write(two.writer, Event("stream_end", None, nil))
    <2>1. /\ OpenAIWritten(acc.writer, "finish", None, reason, r1)
          /\ OpenAIWritten(one.writer, "usage", None, usage, r2)
          /\ OpenAIWritten(two.writer, "stream_end", None, nil, r3)
      BY <1>6, OpenAIWrites
    <2>2. /\ one.client = acc.client \o r1.messages /\ two.client = one.client \o r2.messages
          /\ three.client = two.client \o r3.messages
      BY <1>1 DEF PassedAs
    <2> HIDE DEF r1, r2, r3
    <2> DEFINE m == Message("finish", None, blank, AsTold(reason))
    <2> DEFINE u == Message("usage", None, blank, usage)
    <2> DEFINE n == Message("[DONE]", None, blank, blank)
    <2>3. r1.messages = <<m>> /\ r3.messages = <<n>>
      BY <1>4b, <2>1 DEF OpenAIWritten
    <2>4. r2.messages = IF usage > 0 THEN <<u>> ELSE <<>>
      BY <1>4b, <2>1 DEF OpenAIWritten
    <2>5. /\ m.type = "finish" /\ m.data = AsTold(reason) /\ n.type = "[DONE]"
          /\ u.type = "usage" /\ u.data = usage
      BY MessageIs
    <2> HIDE DEF m, n, u
    <2>6. one.client = Append(acc.client, m)
      BY <1>2, <1>4, <2>2, <2>3
    <2>7. /\ OnlyOne(one.client, "finish", AsTold(reason)) /\ IsSeq(one.client)
          /\ Places(one.client, "usage") = {}
      <3>1. Places(acc.client, m.type) = {} /\ Places(acc.client, "usage") = {}
        BY <1>2, <2>5 DEF FinalTypes
      <3> QED
        BY <1>2, <2>5, <2>6, <3>1, OnlyOneAppend
    <2>8. CASE usage > 0
      <3>1. two.client = Append(one.client, u)
        BY <1>4, <2>2, <2>4, <2>7, <2>8
      <3>2. /\ OnlyOne(two.client, "finish", AsTold(reason)) /\ OnlyOne(two.client, "usage", usage)
            /\ IsSeq(two.client)
        BY <2>5, <2>7, <3>1, OnlyOneAppend
      <3>3. three.client = Append(two.client, n)
        BY <1>4, <2>2, <2>3, <3>2
      <3>4. OnlyOne(three.client, "finish", AsTold(reason)) /\ OnlyOne(three.client, "usage", usage)
        BY <2>5, <3>2, <3>3, OnlyOneAppend
      <3> QED
        BY <1>6, <2>8, <3>4 DEF ToldAfter, one, two, three
    <2>9. CASE ~(usage > 0)
      <3>1. two.client = one.client
        BY <2>2, <2>4, <2>7, <2>9, IsSeqFew
      <3>2. three.client = Append(one.client, n)
        BY <1>4, <2>2, <2>3, <2>7, <3>1
      <3>3. OnlyOne(three.client, "finish", AsTold(reason)) /\ Places(three.client, "usage") = {}
        BY <2>5, <2>7, <3>2, OnlyOneAppend
      <3> QED
        BY <1>6, <2>9, <3>3 DEF ToldAfter, one, two, three
    <2> QED
      BY <2>8, <2>9
  <1>7. CASE dialect = "responses"
    <2> DEFINE r1 == Write(acc.writer, Event("finish", None, reason))
    <2> DEFINE r2 == Write(one.writer, Event("usage", None, usage))
    <2> DEFINE r3 == Write(two.writer, Event("stream_end", None, nil))
    <2>1. /\ ResponsesWritten(acc.writer, "finish", reason, r1.messages)
          /\ ResponsesWritten(one.writer, "usage", usage, r2.messages)
          /\ ResponsesWritten(two.writer, "stream_end", nil, r3.messages)
      BY <1>7, ResponsesWrites
    <2>2. /\ one.writer = r1.writer /\ one.client = acc.client \o r1.messages
          /\ two.writer = r2.writer /\ two.client = one.client \o r2.messages
          /\ three.client = two.client \o r3.messages
      BY <1>1 DEF PassedAs
    <2>3. two.writer.usage = usage
      <3>1. ResponsesShape(acc.writer)
        BY <1>7 DEF PlainK
      <3>2. "finish" \in QuietKinds \cup TextKinds /\ "usage" \in QuietKinds \cup TextKinds
        BY DEF QuietKinds
      <3>3. ResponsesAfter(acc.writer, "finish", reason, one.writer)
        <4>1. r1 = WriteResponses(acc.writer, Event("finish", None, reason))
          BY <1>7, ResponsesWrites
        <4>2. ResponsesAfter(acc.writer, "finish", reason,
                             WriteResponses(acc.writer, Event("finish", None, reason)).writer)
          BY <3>1, <3>2, ResponsesWriter
        <4> QED
          BY <2>2, <4>1, <4>2, Zenon
      <3>4. ResponsesShape(one.writer)
        BY <3>1, <3>2, <3>3, ResponsesOpen
      <3>5. ResponsesAfter(one.writer, "usage", usage, two.writer)
        <4>1. r2 = WriteResponses(one.writer, Event("usage", None, usage))
          BY <1>7, ResponsesWrites
        <4>2. ResponsesAfter(one.writer, "usage", usage,
                             WriteResponses(one.writer, Event("usage", None, usage)).writer)
          BY <3>2, <3>4, ResponsesWriter
        <4> QED
          BY <2>2, <4>1, <4>2, Zenon
      <3>6. two.writer = Triple(one.writer.cur, one.writer.index, usage)
        BY <3>5 DEF ResponsesAfter
      <3> QED
        BY <3>6, TripleIs
    <2> HIDE DEF r1, r2, r3
    <2>4. two.client = acc.client
      BY <1>3, <2>1, <2>2 DEF ResponsesWritten
    <2> DEFINE m == Message("response.completed", None, blank, Told(blank, usage))
    <2>5. r3.messages = <<m>>
      BY <1>4b, <2>1, <2>3 DEF ResponsesWritten
    <2>6. m.type = "response.completed" /\ m.data = Told(blank, usage)
      BY MessageIs
    <2> HIDE DEF m
    <2>7. three.client = Append(acc.client, m)
      BY <1>2, <1>4, <2>2, <2>4, <2>5
    <2>8. OnlyOne(three.client, "response.completed", Told(blank, usage))
      <3>1. Places(acc.client, m.type) = {}
        BY <1>2, <2>6 DEF FinalTypes
      <3> QED
        BY <1>2, <2>6, <2>7, <3>1, OnlyOneAppend
    <2> QED
      BY <1>4b, <1>7, <2>8 DEF ToldAfter, one, two, three
  <1> QED
    BY <1>5, <1>6, <1>7 DEF Dialects

-----------------------------------------------------------------------------
(* The end of a stream, as the parser keeps it. *)

LastOf(s, places, default) == IF places = {} THEN default ELSE s[Max(places)].data

\* The places J are the places I, and perhaps the one after the first n.
Continues(I, J, n) ==
    I \subseteq 1..n /\ J \subseteq 1..(n + 1) /\ \A i \in 1..n : i \in I <=> i \in J

\* t is s with x at its end: the last of the places J in t, from that of I in s.
LastMoves(t, s, x, I, J) ==
    \A default : LastOf(t, J, default) = IF Len(s) + 1 \in J THEN x.data
                                         ELSE LastOf(s, I, default)

\* The last of the places, when a sequence grows.
LEMMA LastOfAppend ==
    ASSUME NEW s, IsSeq(s), NEW x, NEW I, NEW J, Continues(I, J, Len(s))
    PROVE  LastMoves(Append(s, x), s, x, I, J)
  <1> SUFFICES ASSUME NEW default
               PROVE  LastOf(Append(s, x), J, default) = IF Len(s) + 1 \in J THEN x.data
                                                         ELSE LastOf(s, I, default)
    BY DEF LastMoves
  <1> DEFINE t == Append(s, x)
  <1> DEFINE n == Len(s)
  <1>1. n \in Nat /\ t[n + 1] = x /\ \A i \in 1..n : t[i] = s[i]
    BY IsSeqAppend
  <1> HIDE DEF t, n
  <1>2. /\ I \subseteq 1..n /\ J \subseteq 1..(n + 1) /\ \A i \in 1..n : i \in I <=> i \in J
    BY DEF n, Continues
  <1>3. CASE n + 1 \in J
    <2>1. Max(J) \in J /\ \A y \in J : y <= Max(J)
      <3>1. n + 1 \in Nat /\ J # {}
        BY <1>1, <1>3
      <3> QED
        BY <1>2, <3>1, MaxIs
    <2>2. Max(J) = n + 1
      <3>1. Max(J) \in 1..(n + 1) /\ n + 1 <= Max(J)
        BY <1>2, <1>3, <2>1
      <3> QED
        BY <1>1, <3>1
    <2>3. J # {}
      BY <1>3
    <2> QED
      BY <1>1, <1>3, <2>2, <2>3 DEF LastOf, t, n
  <1>4. CASE n + 1 \notin J
    <2>1. I = J
      <3>1. \A i \in 1..(n + 1) : i = n + 1 \/ i \in 1..n
        BY <1>1
      <3>2. \A i : i \in J => i \in 1..n
        BY <1>2, <1>4, <3>1
      <3>3. \A i : i \in I => i \in 1..n
        BY <1>2
      <3> QED
        BY <1>2, <3>2, <3>3
    <2>2. CASE I = {}
      BY <1>4, <2>1, <2>2 DEF LastOf, n
    <2>3. CASE I # {}
      <3>1. Max(I) \in I
        BY <1>1, <1>2, <2>3, MaxIs
      <3>2. t[Max(I)] = s[Max(I)]
        BY <1>1, <1>2, <3>1
      <3> QED
        BY <1>4, <2>1, <2>3, <3>2 DEF LastOf, t, n
    <2> QED
      BY <2>2, <2>3
  <1> QED
    BY <1>3, <1>4

FinishPlaces(s) == {i \in DOMAIN s : s[i].kind = "finish"}
UsagePlaces(p, s) == {i \in DOMAIN s : /\ s[i].kind = "usage"
                                       /\ p = "gemini" => s[i].data > 0}
CallPlaces(s) == {i \in DOMAIN s : s[i].kind \in {"tool", "tool_start"}}

LEMMA LastTold ==
    ASSUME NEW s, IsSeq(s), NEW c, NEW p
    PROVE  /\ LastOf(Append(s, c), FinishPlaces(Append(s, c)), "")
                = IF c.kind = "finish" THEN c.data ELSE LastOf(s, FinishPlaces(s), "")
           /\ LastOf(Append(s, c), UsagePlaces(p, Append(s, c)), 0)
                = IF c.kind = "usage" /\ (p = "gemini" => c.data > 0) THEN c.data
                  ELSE LastOf(s, UsagePlaces(p, s), 0)
           /\ CallPlaces(Append(s, c)) # {} <=> \/ CallPlaces(s) # {}
                                                \/ c.kind \in {"tool", "tool_start"}
  <1> DEFINE t == Append(s, c)
  <1> DEFINE n == Len(s)
  <1>1. /\ n \in Nat /\ DOMAIN s = 1..n /\ DOMAIN t = 1..(n + 1)
        /\ t[n + 1] = c /\ \A i \in 1..n : t[i] = s[i]
    BY IsSeqAppend
  <1> HIDE DEF t
  <1>2. n + 1 \in 1..(n + 1) /\ \A i \in 1..n : i \in 1..(n + 1)
    BY <1>1
  <1>3. /\ FinishPlaces(s) \subseteq 1..n /\ FinishPlaces(t) \subseteq 1..(n + 1)
        /\ \A i \in 1..n : i \in FinishPlaces(s) <=> i \in FinishPlaces(t)
        /\ n + 1 \in FinishPlaces(t) <=> c.kind = "finish"
    BY <1>1, <1>2 DEF FinishPlaces
  <1>4. /\ UsagePlaces(p, s) \subseteq 1..n /\ UsagePlaces(p, t) \subseteq 1..(n + 1)
        /\ \A i \in 1..n : i \in UsagePlaces(p, s) <=> i \in UsagePlaces(p, t)
        /\ n + 1 \in UsagePlaces(p, t) <=> (c.kind = "usage" /\ (p = "gemini" => c.data > 0))
    BY <1>1, <1>2 DEF UsagePlaces
  <1>5. \A default : LastOf(Append(s, c), FinishPlaces(t), default)
                        = IF n + 1 \in FinishPlaces(t) THEN c.data
                          ELSE LastOf(s, FinishPlaces(s), default)
    <2>1. Continues(FinishPlaces(s), FinishPlaces(t), Len(s))
      BY <1>3 DEF Continues
    <2>2. LastMoves(Append(s, c), s, c, FinishPlaces(s), FinishPlaces(t))
      BY <2>1, LastOfAppend, Zenon
    <2> QED
      BY <2>2, Zenon DEF LastMoves
  <1>6. \A default : LastOf(Append(s, c), UsagePlaces(p, t), default)
                        = IF n + 1 \in UsagePlaces(p, t) THEN c.data
                          ELSE LastOf(s, UsagePlaces(p, s), default)
    <2>1. Continues(UsagePlaces(p, s), UsagePlaces(p, t), Len(s))
      BY <1>4 DEF Continues
    <2>2. LastMoves(Append(s, c), s, c, UsagePlaces(p, s), UsagePlaces(p, t))
      BY <2>1, LastOfAppend, Zenon
    <2> QED
      BY <2>2, Zenon DEF LastMoves
  <1>7. CallPlaces(t) # {} <=> CallPlaces(s) # {} \/ c.kind \in {"tool", "tool_start"}
    <2>1. \A i \in 1..n : i \in CallPlaces(s) <=> i \in CallPlaces(t)
      BY <1>1, <1>2 DEF CallPlaces
    <2>2. n + 1 \in CallPlaces(t) <=> c.kind \in {"tool", "tool_start"}
      BY <1>1, <1>2 DEF CallPlaces
    <2>3. \A i \in CallPlaces(t) : i = n + 1 \/ i \in 1..n
      BY <1>1 DEF CallPlaces
    <2>4. CallPlaces(s) \subseteq 1..n
      BY <1>1 DEF CallPlaces
    <2> QED
      BY <2>1, <2>2, <2>3, <2>4
  <1> QED
    BY <1>3, <1>4, <1>5, <1>6, <1>7 DEF t

\* What the parser has kept is what the provider said last.
ToldParser(p, ps, s) ==
    /\ ps.reason = LastOf(s, FinishPlaces(s), "")
    /\ ps.usage = LastOf(s, UsagePlaces(p, s), 0)
    /\ ps.tools # <<>> <=> CallPlaces(s) # {}

LEMMA KeptFor ==
    ASSUME NEW p, NEW ps, NEW s, IsSeq(s), ToldParser(p, ps, s), NEW q, NEW c,
           q.reason = IF c.kind = "finish" THEN c.data ELSE ps.reason,
           q.usage = IF c.kind = "usage" /\ (p = "gemini" => c.data > 0) THEN c.data ELSE ps.usage,
           q.tools # <<>> <=> ps.tools # <<>> \/ c.kind \in {"tool", "tool_start"}
    PROVE  ToldParser(p, q, Append(s, c))
  <1> DEFINE t == Append(s, c)
  <1> DEFINE counts == c.kind = "usage" /\ (p = "gemini" => c.data > 0)
  <1>1. PICK blank : blank = ""
    OBVIOUS
  <1>2. /\ LastOf(t, FinishPlaces(t), blank)
             = IF c.kind = "finish" THEN c.data ELSE LastOf(s, FinishPlaces(s), blank)
        /\ LastOf(t, UsagePlaces(p, t), 0)
             = IF counts THEN c.data ELSE LastOf(s, UsagePlaces(p, s), 0)
        /\ CallPlaces(t) # {} <=> CallPlaces(s) # {} \/ c.kind \in {"tool", "tool_start"}
    BY <1>1, LastTold
  <1>3. /\ ps.reason = LastOf(s, FinishPlaces(s), blank)
        /\ ps.usage = LastOf(s, UsagePlaces(p, s), 0)
        /\ ps.tools # <<>> <=> CallPlaces(s) # {}
    BY <1>1 DEF ToldParser
  <1>4. q.usage = IF counts THEN c.data ELSE ps.usage
    OBVIOUS
  <1> HIDE DEF t, counts
  <1>5. q.reason = LastOf(t, FinishPlaces(t), blank)
    BY <1>2, <1>3
  <1>6. q.usage = LastOf(t, UsagePlaces(p, t), 0)
    BY <1>2, <1>3, <1>4
  <1>7. q.tools # <<>> <=> CallPlaces(t) # {}
    BY <1>2, <1>3
  <1> QED
    BY <1>1, <1>5, <1>6, <1>7 DEF ToldParser, t

ToldInv ==
    provider \in {"openai", "gemini"} =>
        /\ ToldParser(provider, parser, sent)
        /\ IF ended THEN ToldAfter(dialect, client, StopReason(parser), parser.usage)
           ELSE PlainK(dialect, Pending)

LEMMA ToldTaken ==
    ASSUME StreamTyped, ToldInv, provider \in {"openai", "gemini"}, ~ended,
           NEW chunk, NEW parsed, Take(chunk, parsed), EventsOf(PlainKinds, parsed.events),
           parsed.parser.reason = IF chunk.kind = "finish" THEN chunk.data ELSE parser.reason,
           parsed.parser.usage
              = IF chunk.kind = "usage" /\ (provider = "gemini" => chunk.data > 0)
                THEN chunk.data ELSE parser.usage,
           parsed.parser.tools # <<>> <=> \/ parser.tools # <<>>
                                          \/ chunk.kind \in {"tool", "tool_start"}
    PROVE  ToldInv'
  <1>1. Len(parsed.events) \in Nat
    BY EventsAre DEF EventsOf, IsEvents
  <1>2. /\ sent' = Append(sent, chunk) /\ parser' = parsed.parser
        /\ Pending' = PassAll(Pending, parsed.events)
        /\ provider' = provider /\ dialect' = dialect /\ warden' = warden /\ ended' = ended
    BY <1>1, TakeIs
  <1>3. ToldParser(provider, parser, sent) /\ PlainK(dialect, Pending)
    BY DEF ToldInv
  <1>4. IsSeq(sent) /\ dialect \in Dialects
    BY PairTyped DEF StreamTyped
  <1>5. ToldParser(provider, parsed.parser, Append(sent, chunk))
    BY <1>3, <1>4, KeptFor
  <1>6. PlainK(dialect, PassAll(Pending, parsed.events))
    BY <1>3, <1>4, PlainSteps
  <1> QED
    BY <1>2, <1>5, <1>6 DEF ToldInv

LEMMA ToldInit == Init => ToldInv
  <1> SUFFICES ASSUME Init, provider \in {"openai", "gemini"} PROVE ToldInv
    BY DEF ToldInv
  <1>1. sent = <<>> /\ client = <<>> /\ parser = InitParser /\ ~ended
        /\ writer = InitWriter(dialect)
    BY DEF Init
  <1>2. FinishPlaces(sent) = {} /\ UsagePlaces(provider, sent) = {} /\ CallPlaces(sent) = {}
    BY <1>1 DEF FinishPlaces, UsagePlaces, CallPlaces
  <1>3. PICK blank : blank = ""
    OBVIOUS
  <1>4. parser.reason = blank /\ parser.usage = 0 /\ parser.tools = <<>>
    BY <1>1, <1>3 DEF InitParser
  <1>5. ToldParser(provider, parser, sent)
    BY <1>2, <1>3, <1>4 DEF ToldParser, LastOf
  <1>6. Pending.writer = writer /\ Pending.client = client
    BY DEF Pending
  <1>7. dialect = "anthropic" => writer = InitAnthropic
    BY <1>1 DEF InitWriter
  <1>8. dialect = "responses" => ResponsesShape(writer)
    <2> SUFFICES ASSUME dialect = "responses" PROVE ResponsesShape(writer)
      OBVIOUS
    <2>1. writer = Triple(<<>>, 0, 0)
      BY <1>1 DEF InitWriter, InitResponses, Triple
    <2> DEFINE w == Triple(<<>>, 0, 0)
    <2>2. ResponsesShape(w)
      BY TripleIs
    <2> HIDE DEF w
    <2>3. writer = w
      BY <2>1 DEF w
    <2> QED
      BY <2>2, <2>3
  <1>9. PlainK(dialect, Pending)
    <2>1. IsSeq(client) /\ DOMAIN client = {}
      BY <1>1, IsSeqFew
    <2> QED
      BY <1>6, <1>7, <1>8, <2>1 DEF PlainK
  <1> QED
    BY <1>1, <1>5, <1>9 DEF ToldInv

LEMMA ToldOpen == StreamTyped /\ ToldInv /\ Open => ToldInv'
  <1> SUFFICES ASSUME StreamTyped, ToldInv, Open, provider \in {"openai", "gemini"} PROVE ToldInv'
    BY DEF ToldInv, Open
  <1> DEFINE start == [Pending EXCEPT !.client = Prelude(dialect)]
  <1> DEFINE first == IF provider = "raw" THEN <<>> ELSE <<Event("stream_start", None, "")>>
  <1> DEFINE after == PassAll(start, first)
  <1>1. /\ ~ended
        /\ client' = after.client /\ writer' = after.writer
        /\ UNCHANGED <<provider, dialect, warden, sent, parser, ended>>
    BY DEF Open
  <1>2. ToldParser(provider, parser, sent) /\ PlainK(dialect, Pending) /\ dialect \in Dialects
    BY <1>1, PairTyped DEF ToldInv
  <1>3. start.writer = Pending.writer /\ start.client = Prelude(dialect)
    BY DEF Pending
  <1> HIDE DEF start
  <1>4. PlainK(dialect, start)
    <2>1. \A m : m.type \notin FinalTypes =>
             IsSeq(<<m>>) /\ \A i \in DOMAIN <<m>> : <<m>>[i].type \notin FinalTypes
      <3> SUFFICES ASSUME NEW m, m.type \notin FinalTypes
                   PROVE  IsSeq(<<m>>) /\ \A i \in DOMAIN <<m>> : <<m>>[i].type \notin FinalTypes
        OBVIOUS
      <3> DEFINE c == <<m>>
      <3>1. DOMAIN c = 1..1 /\ c[1] = m /\ IsSeq(c)
        BY IsSeqFew
      <3> HIDE DEF c
      <3>2. \A i \in DOMAIN c : c[i].type \notin FinalTypes
        BY <3>1
      <3> QED
        BY <3>1, <3>2 DEF c
    <2>2. \A type, nil : Message(type, None, nil, nil).type = type
      BY MessageIs
    <2>3. IsSeq(<<>>) /\ DOMAIN <<>> = {}
      BY IsSeqFew
    <2>4. CASE dialect = "anthropic"
      <3>1. Prelude(dialect) = <<>>
        BY <2>4 DEF Prelude
      <3> QED
        BY <1>2, <1>3, <2>3, <3>1 DEF PlainK
    <2>5. CASE dialect \in {"openai", "responses"}
      <3>1. PICK m : Prelude(dialect) = <<m>> /\ m.type \in {"role", "response.created"}
        <4>1. CASE dialect = "openai"
          BY <2>2, <4>1 DEF Prelude
        <4>2. CASE dialect = "responses"
          BY <2>2, <4>2 DEF Prelude
        <4> QED
          BY <2>5, <4>1, <4>2
      <3>2. m.type \notin FinalTypes
        BY <3>1 DEF FinalTypes
      <3> DEFINE c == <<m>>
      <3>3. IsSeq(c) /\ \A i \in DOMAIN c : c[i].type \notin FinalTypes
        BY <2>1, <3>2
      <3> HIDE DEF c
      <3>4. start.client = c
        BY <1>3, <3>1 DEF c
      <3> QED
        BY <1>2, <1>3, <2>5, <3>3, <3>4 DEF PlainK
    <2> QED
      BY <1>2, <2>4, <2>5 DEF Dialects
  <1>5. PlainK(dialect, after)
    <2>1. after = Pass(start, Event("stream_start", None, ""))
      BY PassAllFew
    <2>2. PICK data : data = ""
      OBVIOUS
    <2>3. "stream_start" \in PlainKinds
      BY DEF PlainKinds
    <2>4. PlainK(dialect, Pass(start, Event("stream_start", None, data)))
      BY <1>2, <1>4, <2>3, PlainStep
    <2> QED
      BY <2>1, <2>2, <2>4
  <1> HIDE DEF after
  <1>6. Pending'.writer = after.writer /\ Pending'.client = after.client
    BY <1>1 DEF Pending
  <1>7. PlainK(dialect, Pending')
    BY <1>5, <1>6 DEF PlainK
  <1> QED
    BY <1>1, <1>2, <1>7 DEF ToldInv

PlainEvents(events) == EventsOf(PlainKinds, events)

LEMMA PlainEventsIs ==
    /\ PlainEvents(<<>>)
    /\ \A kind \in PlainKinds : \A index, data : EventOf(PlainKinds, Event(kind, index, data))
    /\ \A x : EventOf(PlainKinds, x) => PlainEvents(<<x>>)
    /\ \A x, y : EventOf(PlainKinds, x) /\ EventOf(PlainKinds, y) => PlainEvents(<<x, y>>)
    /\ \A x, y, z : EventOf(PlainKinds, x) /\ EventOf(PlainKinds, y) /\ EventOf(PlainKinds, z) =>
          PlainEvents(<<x, y, z>>)
    /\ \A a, b : PlainEvents(a) /\ PlainEvents(b) => PlainEvents(a \o b)
    /\ \A events : BlockEvents(events) => PlainEvents(events)
  <1>1. ASSUME NEW events, BlockEvents(events) PROVE PlainEvents(events)
    <2>1. BlockKinds \subseteq PlainKinds
      BY DEF BlockKinds, PlainKinds
    <2> QED
      BY <1>1, <2>1, EventsOfMore DEF BlockEvents, PlainEvents
  <1> QED
    BY <1>1, EventsOfIs DEF PlainEvents

LEMMA ToldSendText == StreamTyped /\ ToldInv /\ SendText => ToldInv'
  <1> SUFFICES ASSUME StreamTyped, ToldInv, SendText PROVE ToldInv'
    OBVIOUS
  <1>1. provider \in {"openai", "gemini"} /\ ~ended /\ ParserTyped(parser)
    BY DEF SendText, Room, Streaming, StreamTyped
  <1>2. PICK f \in Fragments : Take(Chunk("text", None, f), ParseText(parser, f))
    BY DEF SendText
  <1> DEFINE chunk == Chunk("text", None, f)
  <1> DEFINE r == ParseText(parser, f)
  <1>3. chunk.kind = "text"
    BY DEF Chunk
  <1>4. PlainEvents(r.events)
    <2>1. \A b : /\ EventOf(PlainKinds, Event("text_delta", b, f))
                 /\ EventOf(PlainKinds, Start(b, "text"))
      BY PlainEventsIs DEF PlainKinds, Start
    <2>2. CASE parser.text
      <3> DEFINE e == Event("text_delta", parser.block, f)
      <3>1. r.events = <<e>> /\ EventOf(PlainKinds, e)
        BY <2>1, <2>2 DEF ParseText
      <3> HIDE DEF e, r
      <3> QED
        BY <3>1, PlainEventsIs
    <2>3. CASE ~parser.text
      <3> DEFINE e1 == Start(parser.block + 1, "text")
      <3> DEFINE e2 == Event("text_delta", parser.block + 1, f)
      <3>1. r.events = <<e1, e2>> /\ EventOf(PlainKinds, e1) /\ EventOf(PlainKinds, e2)
        BY <2>1, <2>3 DEF ParseText
      <3> HIDE DEF e1, e2, r
      <3> QED
        BY <3>1, PlainEventsIs
    <2> QED
      BY <2>2, <2>3
  <1>5. /\ r.parser.reason = parser.reason /\ r.parser.usage = parser.usage
        /\ r.parser.tools = parser.tools
    BY <1>1 DEF ParseText, ParserTyped
  <1>6. Take(chunk, r)
    BY <1>2
  <1> HIDE DEF chunk, r
  <1> QED
    BY <1>1, <1>3, <1>4, <1>5, <1>6, ToldTaken DEF PlainEvents

LEMMA ToldSendToolPiece == StreamTyped /\ ToldInv /\ SendToolPiece => ToldInv'
  <1> SUFFICES ASSUME StreamTyped, ToldInv, SendToolPiece PROVE ToldInv'
    OBVIOUS
  <1>1. provider = "openai" /\ ~ended /\ ParserTyped(parser)
    BY DEF SendToolPiece, Room, Streaming, StreamTyped
  <1>2. PICK tool \in Tools, args \in {None, NextPiece} :
           Take(Chunk("tool", tool, args), ParseOpenAITool(parser, tool, args))
    BY DEF SendToolPiece
  <1> DEFINE chunk == Chunk("tool", tool, args)
  <1> DEFINE r == ParseOpenAITool(parser, tool, args)
  <1>3. Take(chunk, r) /\ ToolParsed(parser, tool, args, r)
    BY <1>1, <1>2, OpenAIToolIs
  <1>4. chunk.kind = "tool"
    BY DEF Chunk
  <1> HIDE DEF chunk, r
  <1>5. /\ PlainEvents(r.events) /\ r.parser.tools # <<>>
        /\ r.parser.reason = parser.reason /\ r.parser.usage = parser.usage
    <2>1. CASE Known(parser, tool)
      <3>1. r.parser = parser
        BY <1>3, <2>1 DEF ToolParsed
      <3>2. \E b : r.events = IF args = None THEN <<>> ELSE <<Event("tool_call_delta", b, args)>>
        BY <1>3, <2>1 DEF ToolParsed
      <3>3. PICK b : r.events = IF args = None THEN <<>> ELSE <<Event("tool_call_delta", b, args)>>
        BY <3>2
      <3> DEFINE e == Event("tool_call_delta", b, args)
      <3>4. EventOf(PlainKinds, e) /\ (r.events = <<>> \/ r.events = <<e>>)
        BY <3>3, PlainEventsIs DEF PlainKinds
      <3> HIDE DEF e
      <3>5. PlainEvents(r.events)
        BY <3>4, PlainEventsIs
      <3>6. parser.tools # <<>>
        BY <2>1 DEF Known
      <3> QED
        BY <3>1, <3>5, <3>6
    <2>2. CASE ~Known(parser, tool)
      <3>1. /\ r.parser = WithCall(parser, tool)
            /\ r.events = CloseText(parser) \o Opened(parser.block + 1, tool, args)
        BY <1>3, <2>2 DEF ToolParsed
      <3>2. PlainEvents(r.events)
        <4>1. BlockEvents(CloseText(parser)) /\ BlockEvents(Opened(parser.block + 1, tool, args))
          BY OpenedEvents
        <4> QED
          BY <3>1, <4>1, PlainEventsIs
      <3> DEFINE call == [tool |-> tool, block |-> parser.block + 1]
      <3> DEFINE more == Append(parser.tools, call)
      <3>3. /\ r.parser.reason = parser.reason /\ r.parser.usage = parser.usage
            /\ r.parser.tools = more
        <4> HIDE DEF more
        <4>1. r.parser = [parser EXCEPT !.block = parser.block + 1, !.text = FALSE,
                                        !.tools = more]
          BY <3>1 DEF WithCall, more
        <4> QED
          BY <1>1, <4>1 DEF ParserTyped
      <3>4. more # <<>>
        <4>1. PICK S : parser.tools \in Seq(S)
          BY <1>1 DEF ParserTyped
        <4>2. IsSeq(parser.tools)
          BY <4>1 DEF IsSeq
        <4> HIDE DEF call
        <4>3. Len(more) = Len(parser.tools) + 1 /\ Len(parser.tools) \in Nat
          BY <4>2, IsSeqAppend
        <4>4. Len(<<>>) = 0
          OBVIOUS
        <4> HIDE DEF more
        <4> QED
          BY <4>3, <4>4
      <3> QED
        BY <3>2, <3>3, <3>4
    <2> QED
      BY <2>1, <2>2
  <1> QED
    BY <1>1, <1>3, <1>4, <1>5, ToldTaken DEF PlainEvents

LEMMA ToldSendFunctionCall == StreamTyped /\ ToldInv /\ SendFunctionCall => ToldInv'
  <1> SUFFICES ASSUME StreamTyped, ToldInv, SendFunctionCall PROVE ToldInv'
    OBVIOUS
  <1> DEFINE n == NextPiece
  <1>1. provider = "gemini" /\ ~ended /\ ParserTyped(parser)
    BY DEF SendFunctionCall, Room, Streaming, StreamTyped
  <1> DEFINE chunk == Chunk("tool", n, n)
  <1> DEFINE r == ParseGeminiTool(parser, n, n)
  <1>2. Take(chunk, r)
    BY DEF SendFunctionCall
  <1>3. chunk.kind = "tool"
    BY DEF Chunk
  <1>4. PlainEvents(r.events)
    <2> DEFINE b == parser.block + 1
    <2> DEFINE e1 == Event("tool_call_start", b, n)
    <2> DEFINE e2 == Event("tool_call_delta", b, n)
    <2> DEFINE e3 == End(b)
    <2>1. r.events = CloseText(parser) \o <<e1, e2, e3>>
      BY DEF ParseGeminiTool
    <2>2. EventOf(PlainKinds, e1) /\ EventOf(PlainKinds, e2) /\ EventOf(PlainKinds, e3)
      BY PlainEventsIs DEF PlainKinds, End
    <2>3. BlockEvents(CloseText(parser))
      BY OpenedEvents
    <2> HIDE DEF e1, e2, e3, r
    <2> QED
      BY <2>1, <2>2, <2>3, PlainEventsIs
  <1> DEFINE call == [tool |-> n, block |-> parser.block + 1]
  <1> DEFINE more == Append(parser.tools, call)
  <1>5. /\ r.parser.reason = parser.reason /\ r.parser.usage = parser.usage
        /\ r.parser.tools = more
    <2> HIDE DEF more
    <2>1. r.parser = [parser EXCEPT !.block = parser.block + 1, !.text = FALSE, !.tools = more]
      BY DEF ParseGeminiTool, more
    <2> HIDE DEF r
    <2> QED
      BY <1>1, <2>1 DEF ParserTyped
  <1>6. more # <<>>
    <2>1. PICK S : parser.tools \in Seq(S)
      BY <1>1 DEF ParserTyped
    <2>2. IsSeq(parser.tools)
      BY <2>1 DEF IsSeq
    <2> HIDE DEF call
    <2>3. Len(more) = Len(parser.tools) + 1 /\ Len(parser.tools) \in Nat
      BY <2>2, IsSeqAppend
    <2>4. Len(<<>>) = 0
      OBVIOUS
    <2> HIDE DEF more
    <2> QED
      BY <2>3, <2>4
  <1> HIDE DEF chunk, r, more, n
  <1> QED
    BY <1>1, <1>2, <1>3, <1>4, <1>5, <1>6, ToldTaken DEF PlainEvents

LEMMA ToldSendFinishOrUsage == StreamTyped /\ ToldInv /\ (SendFinish \/ SendUsage) => ToldInv'
  <1> SUFFICES ASSUME StreamTyped, ToldInv, SendFinish \/ SendUsage PROVE ToldInv'
    OBVIOUS
  <1>1. provider \in {"openai", "gemini"} /\ ~ended /\ ParserTyped(parser)
    BY DEF SendFinish, SendUsage, Room, Streaming, StreamTyped
  <1>2. CASE SendFinish
    <2>1. PICK reason \in {"stop", "tool_use", "content_filter"} :
             Take(Chunk("finish", None, reason), ParseFinish(parser, reason))
      BY <1>2 DEF SendFinish
    <2> DEFINE chunk == Chunk("finish", None, reason)
    <2> DEFINE r == ParseFinish(parser, reason)
    <2>2. r.events = <<>> /\ chunk.kind = "finish" /\ chunk.data = reason
      BY DEF ParseFinish, Chunk
    <2>3. r.parser.reason = reason /\ r.parser.usage = parser.usage /\ r.parser.tools = parser.tools
      BY <1>1 DEF ParseFinish, ParserTyped
    <2>4. Take(chunk, r)
      BY <2>1
    <2> HIDE DEF chunk, r
    <2>5. PlainEvents(r.events)
      BY <2>2, PlainEventsIs
    <2> QED
      BY <1>1, <2>2, <2>3, <2>4, <2>5, ToldTaken DEF PlainEvents
  <1>3. CASE SendUsage
    <2>1. PICK count \in 0..1 : Take(Chunk("usage", None, count), ParseUsage(parser, count))
      BY <1>3 DEF SendUsage
    <2> DEFINE chunk == Chunk("usage", None, count)
    <2> DEFINE r == ParseUsage(parser, count)
    <2>2. r.events = <<>> /\ chunk.kind = "usage" /\ chunk.data = count
      BY DEF ParseUsage, Chunk
    <2>3. /\ r.parser.reason = parser.reason /\ r.parser.tools = parser.tools
          /\ r.parser.usage = IF provider = "gemini" => count > 0 THEN count ELSE parser.usage
      BY <1>1 DEF ParseUsage, ParserTyped
    <2>4. Take(chunk, r)
      BY <2>1
    <2> HIDE DEF chunk, r
    <2>5. PlainEvents(r.events)
      BY <2>2, PlainEventsIs
    <2> QED
      BY <1>1, <2>2, <2>3, <2>4, <2>5, ToldTaken DEF PlainEvents
  <1> QED
    BY <1>2, <1>3

LEMMA ToldEndOfBody == StreamTyped /\ ToldInv /\ EndOfBody => ToldInv'
  <1> SUFFICES ASSUME StreamTyped, ToldInv, EndOfBody PROVE ToldInv'
    OBVIOUS
  <1>1. /\ provider \in {"openai", "gemini"} /\ ~ended /\ ended'
        /\ Deliver(ParserTail(parser))
        /\ UNCHANGED <<provider, dialect, warden, sent, parser>>
    BY DEF EndOfBody, Streaming
  <1>2. ToldParser(provider, parser, sent) /\ PlainK(dialect, Pending) /\ dialect \in Dialects
        /\ ParserTyped(parser)
    BY <1>1, PairTyped DEF ToldInv, StreamTyped
  <1> DEFINE tail == ParserTail(parser)
  <1> DEFINE closing == TailClosing(parser)
  <1> DEFINE a == CloseText(parser)
  <1> DEFINE b == TailEnds(parser)
  <1> DEFINE c == TailEmpty(parser)
  <1>3. /\ BlockEvents(a) /\ BlockEvents(b) /\ BlockEvents(c) /\ QuietEvents(tail)
        /\ \A start : PassAll(start, tail)
                        = PassAll(PassAll(PassAll(PassAll(start, a), b), c), closing)
    BY <1>2, ParserTailIs
  <1>4. Len(tail) \in Nat
    BY <1>3, EventsAre DEF QuietEvents, EventsOf, IsEvents
  <1>5. Pending' = PassAll(Pending, tail)
    BY <1>1, <1>4, DeliverIs
  <1> DEFINE before == PassAll(PassAll(PassAll(Pending, a), b), c)
  <1>6. PlainK(dialect, before)
    <2>1. PlainEvents(a) /\ PlainEvents(b) /\ PlainEvents(c)
      BY <1>3, PlainEventsIs
    <2> HIDE DEF a, b, c
    <2>2. PlainK(dialect, PassAll(Pending, a))
      BY <1>2, <2>1, PlainSteps DEF PlainEvents
    <2>3. PlainK(dialect, PassAll(PassAll(Pending, a), b))
      BY <1>2, <2>1, <2>2, PlainSteps DEF PlainEvents
    <2> QED
      BY <1>2, <2>1, <2>3, PlainSteps DEF PlainEvents
  <1>7. Pending' = PassAll(before, closing)
    BY <1>3, <1>5
  <1> DEFINE reason == StopReason(parser)
  <1> DEFINE usage == parser.usage
  <1>8. PICK nil : nil = ""
    OBVIOUS
  <1>9. closing = <<Event("finish", None, reason), Event("usage", None, usage),
                    Event("stream_end", None, nil)>>
    BY <1>8 DEF TailClosing
  <1> HIDE DEF before, closing, reason, usage, tail
  <1>10. PassAll(before, closing)
           = Pass(Pass(Pass(before, Event("finish", None, reason)), Event("usage", None, usage)),
                  Event("stream_end", None, nil))
    <2> DEFINE e1 == Event("finish", None, reason)
    <2> DEFINE e2 == Event("usage", None, usage)
    <2> DEFINE e3 == Event("stream_end", None, nil)
    <2>1. closing = <<e1, e2, e3>>
      BY <1>9
    <2> HIDE DEF e1, e2, e3
    <2>3. PassAll(before, closing) = Pass(Pass(Pass(before, e1), e2), e3)
      BY <2>1, PassAllThree
    <2> QED
      BY <2>3 DEF e1, e2, e3
  <1>11. ToldAfter(dialect, Pending'.client, reason, usage)
    BY <1>2, <1>6, <1>7, <1>10, ClosingIs
  <1>12. Pending'.client = client'
    BY DEF Pending
  <1> QED
    BY <1>1, <1>2, <1>11, <1>12 DEF ToldInv, reason, usage

LEMMA ToldKept == StreamTyped /\ ToldInv /\ [Next]_vars => ToldInv'
  <1> SUFFICES ASSUME StreamTyped, ToldInv, [Next]_vars PROVE ToldInv'
    OBVIOUS
  <1>1. CASE Open
    BY <1>1, ToldOpen
  <1>2. CASE SendText
    BY <1>2, ToldSendText
  <1>3. CASE SendToolPiece
    BY <1>3, ToldSendToolPiece
  <1>4. CASE SendFunctionCall
    BY <1>4, ToldSendFunctionCall
  <1>5. CASE SendFinish \/ SendUsage
    BY <1>5, ToldSendFinishOrUsage
  <1>6. CASE EndOfBody
    BY <1>6, ToldEndOfBody
  <1>7. CASE SendMessage \/ Cut \/ ReadRaw \/ EndOfRaw
    <2>1. provider' = provider /\ provider \in {"anthropic", "raw"}
      BY <1>7 DEF SendMessage, Take, Cut, ReadRaw, EndOfRaw
    <2> QED
      BY <2>1 DEF ToldInv
  <1>8. CASE UNCHANGED vars
    <2>1. Pending' = Pending /\ UNCHANGED vars
      BY <1>8 DEF vars, Pending
    <2> QED
      BY <2>1 DEF vars, ToldInv
  <1> QED
    BY <1>1, <1>2, <1>3, <1>4, <1>5, <1>6, <1>7, <1>8 DEF Next

LEMMA ToldInvShows == StreamTyped /\ ToldInv => ClosingTold
  <1> DEFINE finishes == {i \in DOMAIN sent : sent[i].kind = "finish"}
  <1> DEFINE usages == {i \in DOMAIN sent : /\ sent[i].kind = "usage"
                                            /\ provider = "gemini" => sent[i].data > 0}
  <1> DEFINE reason == LastSent(finishes, "stop")
  <1> DEFINE usage == LastSent(usages, 0)
  <1> DEFINE acts == CallPieces # {} \/ reason = "tool_use"
  <1> SUFFICES ASSUME StreamTyped, ToldInv, Completed, provider \in {"openai", "gemini"}
               PROVE  /\ dialect = "anthropic" =>
                           \E i \in DOMAIN client :
                              /\ MessagesOf("message_delta") = {i}
                              /\ client[i].data.usage = usage
                              /\ (client[i].data.reason = "tool_use") = acts
                      /\ dialect = "openai" =>
                           /\ \E i \in DOMAIN client :
                                 MessagesOf("finish") = {i} /\ (client[i].data = "tool_use") = acts
                           /\ (usage > 0) = (MessagesOf("usage") # {})
                           /\ \A i \in MessagesOf("usage") : client[i].data = usage
                      /\ dialect = "responses" =>
                           \E i \in DOMAIN client :
                              /\ MessagesOf("response.completed") = {i}
                              /\ client[i].data.usage = usage
    <2>1. StreamTyped /\ provider \in {"openai", "gemini"} => dialect \in Dialects
      BY PairTyped
    <2> QED
      BY <2>1 DEF ClosingTold, Dialects
  <1> DEFINE told == StopReason(parser)
  <1>1. ToldParser(provider, parser, sent) /\ ParserTyped(parser)
    BY DEF ToldInv, StreamTyped
  <1>2. ToldAfter(dialect, client, told, parser.usage)
    <2>1. ended
      <3> SUFFICES ASSUME ~ended PROVE FALSE
        OBVIOUS
      <3>1. PlainK(dialect, Pending) /\ Pending.client = client
        BY DEF ToldInv, Pending
      <3>2. \A i \in DOMAIN client : client[i].type \notin FinalTypes
        BY <3>1 DEF PlainK
      <3>3. PICK i \in DOMAIN client :
               client[i].type \in {"message_stop", "[DONE]", "response.completed"}
        BY DEF Completed
      <3> QED
        BY <3>2, <3>3 DEF FinalTypes
    <2> QED
      BY <2>1 DEF ToldInv
  <1>3. parser.usage = usage /\ parser.usage \in Nat
    <2>1. usages = UsagePlaces(provider, sent)
      BY Zenon DEF UsagePlaces
    <2>2. parser.usage = LastOf(sent, UsagePlaces(provider, sent), 0)
      BY <1>1 DEF ToldParser
    <2> QED
      BY <1>1, <2>1, <2>2 DEF LastOf, LastSent, ParserTyped
  <1>4. (AsTold(told) = "tool_use") = acts
    <2>1. PICK blank : blank = ""
      OBVIOUS
    <2>2. parser.reason = LastOf(sent, finishes, blank)
      <3>1. finishes = FinishPlaces(sent)
        BY Zenon DEF FinishPlaces
      <3> QED
        BY <1>1, <2>1, <3>1 DEF ToldParser
    <2>3. parser.tools # <<>> <=> CallPieces # {}
      <3>1. CallPieces = CallPlaces(sent)
        BY Zenon DEF CallPieces, CallPlaces
      <3> QED
        BY <1>1, <3>1 DEF ToldParser
    <2>4. (parser.reason = "tool_use") <=> (reason = "tool_use")
      <3>1. CASE finishes = {}
        <4>1. parser.reason = blank /\ reason = "stop"
          BY <2>2, <3>1 DEF LastOf, LastSent
        <4> QED
          BY <2>1, <4>1
      <3>2. CASE finishes # {}
        BY <2>2, <3>2 DEF LastOf, LastSent
      <3> QED
        BY <3>1, <3>2
    <2>5. AsTold(told) = "tool_use" <=> (parser.tools # <<>> \/ parser.reason = "tool_use")
      BY DEF AsTold, StopReason
    <2> HIDE DEF reason, told
    <2> QED
      BY <2>3, <2>4, <2>5
  <1>5. \A type : MessagesOf(type) = Places(client, type)
    BY DEF MessagesOf, Places
  <1>6. \A x, y : Told(x, y).reason = x /\ Told(x, y).usage = y
    BY DEF Told
  <1> HIDE DEF told, usage, acts
  <1>7. CASE dialect = "anthropic"
    <2>1. PICK i \in DOMAIN client :
             /\ Places(client, "message_delta") = {i}
             /\ client[i].data = Told(AsTold(told), parser.usage)
      BY <1>2, <1>7 DEF ToldAfter, OnlyOne
    <2>2. client[i].data.reason = AsTold(told) /\ client[i].data.usage = usage
      BY <1>3, <1>6, <2>1
    <2> QED
      BY <1>4, <1>5, <1>7, <2>1, <2>2
  <1>8. CASE dialect = "openai"
    <2>1. PICK i \in DOMAIN client :
             Places(client, "finish") = {i} /\ client[i].data = AsTold(told)
      BY <1>2, <1>8 DEF ToldAfter, OnlyOne
    <2>2. \E j \in DOMAIN client :
             MessagesOf("finish") = {j} /\ (client[j].data = "tool_use") = acts
      BY <1>4, <1>5, <2>1
    <2>3. /\ (usage > 0) = (MessagesOf("usage") # {})
          /\ \A j \in MessagesOf("usage") : client[j].data = usage
      <3>1. CASE usage > 0
        <4>1. PICK j \in DOMAIN client : Places(client, "usage") = {j} /\ client[j].data = usage
          BY <1>2, <1>3, <1>8, <3>1 DEF ToldAfter, OnlyOne
        <4> QED
          BY <1>5, <3>1, <4>1
      <3>2. CASE ~(usage > 0)
        <4>1. Places(client, "usage") = {}
          BY <1>2, <1>3, <1>8, <3>2 DEF ToldAfter
        <4> QED
          BY <1>5, <3>2, <4>1
      <3> QED
        BY <3>1, <3>2
    <2> QED
      BY <1>8, <2>2, <2>3
  <1>9. CASE dialect = "responses"
    <2>0. PICK blank : blank = ""
      OBVIOUS
    <2>1. PICK i \in DOMAIN client :
             /\ Places(client, "response.completed") = {i}
             /\ client[i].data = Told(blank, parser.usage)
      BY <1>2, <1>9, <2>0 DEF ToldAfter, OnlyOne
    <2>2. client[i].data.usage = usage
      BY <1>3, <1>6, <2>1
    <2> QED
      BY <1>5, <1>9, <2>1, <2>2
  <1> QED
    BY <1>7, <1>8, <1>9, PairTyped DEF Dialects

\* A completed answer of a converting parser closes once, tells the client to
\* act on tool calls exactly when it was handed one or the provider said so,
\* and gives the provider's last count (StopReason and ParserTail, which stand
\* for mapOAIFinishReason and the ends of streamToIR and the Gemini parser, and
\* the end of each writer).
THEOREM ClosingAlwaysTold == Spec => []ClosingTold
  <1>1. Init => StreamTyped /\ ToldInv
    BY TypedInit, ToldInit
  <1>2. (StreamTyped /\ ToldInv) /\ [Next]_vars => (StreamTyped /\ ToldInv)'
    BY TypedStep, ToldKept
  <1>3. StreamTyped /\ ToldInv => ClosingTold
    BY ToldInvShows
  <1> QED
    BY <1>1, <1>2, <1>3, PTL DEF Spec

-----------------------------------------------------------------------------
(* Frames: what one message more does to a client's open blocks. *)

\* An open block, by what the client knows it by.
Slotted(slot, what) == [slot |-> slot, what |-> what]

LEMMA SlottedIs ==
    \A slot, what : Slotted(slot, what).slot = slot /\ Slotted(slot, what).what = what
  BY DEF Slotted

StillOpen(c, i) == {j \in Earlier(c, i) : OpenBefore(c, j, i)}
OpenBlocks(c, i) == {Slotted(c[j].slot, c[j].what) : j \in StillOpen(c, i)}
Converting(p) == p \in {"openai", "gemini"}

\* The i-th message fits the frames before it: n opened so far, blocks still open.
Fits(d, p, n, blocks, m) ==
    /\ Opens(m) => m.slot = n
    /\ Deltas(m) => \E b \in blocks : b.slot = m.slot /\ OfBlock(m, b)
    /\ Closes(m) => \E b \in blocks : b.slot = m.slot
    /\ Finals(m) /\ d # "openai" => blocks = {} /\ (Converting(p) => n # 0)

FrameK(d, p, c, n, blocks) ==
    /\ IsSeq(c)
    /\ \A i \in DOMAIN c : Fits(d, p, Cardinality(Earlier(c, i)), OpenBlocks(c, i), c[i])
    /\ n = Cardinality(Earlier(c, Len(c) + 1)) /\ n \in Nat
    /\ blocks = OpenBlocks(c, Len(c) + 1)

Without(blocks, slot) == {b \in blocks : b.slot # slot}
BlocksAfter(n, blocks, m) ==
    (IF Closes(m) THEN Without(blocks, m.slot) ELSE blocks)
    \cup (IF Opens(m) THEN {Slotted(m.slot, m.what)} ELSE {})

LEMMA EarlierAppend ==
    ASSUME NEW c, IsSeq(c), NEW m
    PROVE  LET t == Append(c, m)
           IN  /\ \A i \in 1..(Len(c) + 1) : /\ Earlier(t, i) = Earlier(c, i)
                                             /\ StillOpen(t, i) = StillOpen(c, i)
                                             /\ OpenBlocks(t, i) = OpenBlocks(c, i)
               /\ Earlier(t, Len(c) + 2)
                    = Earlier(c, Len(c) + 1) \cup (IF Opens(m) THEN {Len(c) + 1} ELSE {})
               /\ \A j \in 1..(Len(c) + 1) :
                     j \in StillOpen(t, Len(c) + 2)
                       <=> \/ /\ j \in StillOpen(c, Len(c) + 1)
                              /\ ~(Closes(m) /\ m.slot = c[j].slot)
                           \/ j = Len(c) + 1 /\ Opens(m)
               /\ \A i \in 1..(Len(c) + 1) : /\ Earlier(c, i) \subseteq 1..Len(c)
                                             /\ StillOpen(c, i) \subseteq Earlier(c, i)
               /\ StillOpen(t, Len(c) + 2) \subseteq 1..(Len(c) + 1)
  <1> DEFINE t == Append(c, m)
  <1> DEFINE n == Len(c)
  <1>1. /\ n \in Nat /\ t[n + 1] = m /\ \A i \in 1..n : t[i] = c[i]
    BY IsSeqAppend
  <1> HIDE DEF t, n
  <1>2. \A i \in 1..(n + 1) : \A j \in 1..(i - 1) : j \in 1..n
    BY <1>1
  <1>3. ASSUME NEW i \in 1..(n + 1)
        PROVE  /\ Earlier(t, i) = Earlier(c, i) /\ Earlier(c, i) \subseteq 1..n
               /\ StillOpen(t, i) = StillOpen(c, i) /\ StillOpen(c, i) \subseteq Earlier(c, i)
               /\ OpenBlocks(t, i) = OpenBlocks(c, i)
    <2>1. \A j \in 1..(i - 1) : j \in 1..n /\ t[j] = c[j]
      BY <1>1, <1>2
    <2>2. Earlier(t, i) = Earlier(c, i) /\ Earlier(c, i) \subseteq 1..n
      BY <2>1 DEF Earlier
    <2>3. \A j \in Earlier(c, i) : j \in 1..(i - 1) /\ j \in 1..n
      BY <2>1 DEF Earlier
    <2>4. ASSUME NEW j \in Earlier(c, i) PROVE OpenBefore(t, j, i) <=> OpenBefore(c, j, i)
      <3>1. t[j] = c[j] /\ \A k \in (j + 1)..(i - 1) : k \in 1..(i - 1)
        BY <1>1, <2>3
      <3>2. \A k \in (j + 1)..(i - 1) : t[k] = c[k]
        BY <2>1, <3>1
      <3> QED
        BY <3>1, <3>2 DEF OpenBefore
    <2>5. StillOpen(t, i) = StillOpen(c, i) /\ StillOpen(c, i) \subseteq Earlier(c, i)
      BY <2>2, <2>4 DEF StillOpen
    <2>6. \A j \in StillOpen(c, i) : t[j] = c[j]
      BY <1>1, <2>3, <2>5
    <2>7. OpenBlocks(t, i) = OpenBlocks(c, i)
      BY <2>5, <2>6 DEF OpenBlocks
    <2> QED
      BY <2>2, <2>5, <2>7
  <1>4. (n + 2) - 1 = n + 1 /\ (n + 1) - 1 = n /\ n + 1 \in 1..(n + 1)
    BY <1>1
  <1>5. Earlier(t, n + 2) = Earlier(c, n + 1) \cup (IF Opens(m) THEN {n + 1} ELSE {})
    <2>1. Earlier(t, n + 2) = {j \in 1..(n + 1) : Opens(t[j])}
      BY <1>4 DEF Earlier
    <2>2. Earlier(c, n + 1) = {j \in 1..n : Opens(c[j])}
      BY <1>4 DEF Earlier
    <2>3. \A j \in 1..(n + 1) : j \in 1..n \/ j = n + 1
      BY <1>1
    <2>4. \A j \in 1..n : j \in 1..(n + 1) /\ j # n + 1
      BY <1>1
    <2> QED
      BY <1>1, <1>4, <2>1, <2>2, <2>3, <2>4
  <1>6. ASSUME NEW j \in 1..(n + 1)
        PROVE  j \in StillOpen(t, n + 2)
                 <=> \/ j \in StillOpen(c, n + 1) /\ ~(Closes(m) /\ m.slot = c[j].slot)
                     \/ j = n + 1 /\ Opens(m)
    <2>1. CASE j = n + 1
      <3>1. (j + 1)..((n + 2) - 1) = {}
        BY <1>1, <2>1
      <3>2. OpenBefore(t, j, n + 2)
        BY <3>1 DEF OpenBefore
      <3>3. j \notin 1..n
        BY <1>1, <2>1
      <3>4. j \notin StillOpen(c, n + 1)
        BY <1>3, <1>4, <3>3
      <3>5. j \in Earlier(t, n + 2) <=> Opens(m)
        BY <1>1, <1>3, <1>4, <1>5, <2>1, <3>3
      <3> QED
        BY <2>1, <3>2, <3>4, <3>5 DEF StillOpen
    <2>2. CASE j # n + 1
      <3>1. j \in 1..n /\ t[j] = c[j]
        BY <1>1, <2>2
      <3>2. j \in Earlier(t, n + 2) <=> j \in Earlier(c, n + 1)
        BY <1>5, <2>2
      <3>3. /\ \A k \in (j + 1)..((n + 2) - 1) : k = n + 1 \/ k \in (j + 1)..((n + 1) - 1)
            /\ \A k \in (j + 1)..((n + 1) - 1) : k \in (j + 1)..((n + 2) - 1)
            /\ n + 1 \in (j + 1)..((n + 2) - 1)
            /\ \A k \in (j + 1)..((n + 1) - 1) : k \in 1..n
        BY <1>1, <3>1
      <3>4. \A k \in (j + 1)..((n + 1) - 1) : t[k] = c[k]
        BY <1>1, <3>3
      <3>5. OpenBefore(t, j, n + 2)
              <=> OpenBefore(c, j, n + 1) /\ ~(Closes(m) /\ m.slot = c[j].slot)
        BY <1>1, <3>1, <3>3, <3>4 DEF OpenBefore
      <3> QED
        BY <2>2, <3>2, <3>5 DEF StillOpen
    <2> QED
      BY <2>1, <2>2
  <1>7. StillOpen(t, n + 2) \subseteq 1..(n + 1)
    BY <1>4 DEF StillOpen, Earlier
  <1>8. /\ \A i \in 1..(n + 1) : /\ Earlier(t, i) = Earlier(c, i)
                                 /\ StillOpen(t, i) = StillOpen(c, i)
                                 /\ OpenBlocks(t, i) = OpenBlocks(c, i)
        /\ \A i \in 1..(n + 1) : /\ Earlier(c, i) \subseteq 1..n
                                 /\ StillOpen(c, i) \subseteq Earlier(c, i)
    BY <1>3
  <1>9. \A j \in 1..(n + 1) :
           j \in StillOpen(t, n + 2)
             <=> \/ j \in StillOpen(c, n + 1) /\ ~(Closes(m) /\ m.slot = c[j].slot)
                 \/ j = n + 1 /\ Opens(m)
    BY <1>6
  <1> QED
    BY <1>5, <1>7, <1>8, <1>9 DEF t, n

LEMMA FrameAppend ==
    ASSUME NEW d, NEW p, NEW c, NEW n, NEW blocks, FrameK(d, p, c, n, blocks), NEW m,
           Fits(d, p, n, blocks, m)
    PROVE  FrameK(d, p, Append(c, m), IF Opens(m) THEN n + 1 ELSE n, BlocksAfter(n, blocks, m))
  <1> DEFINE t == Append(c, m)
  <1> DEFINE len == Len(c)
  <1>0. IsSeq(c)
    BY DEF FrameK
  <1>1. /\ IsSeq(t) /\ len \in Nat /\ DOMAIN c = 1..len /\ DOMAIN t = 1..(len + 1)
        /\ Len(t) = len + 1 /\ t[len + 1] = m /\ \A i \in 1..len : t[i] = c[i]
    <2>1. Grown(t, c, m)
      BY <1>0, AppendGrows
    <2> HIDE DEF t
    <2> QED
      BY <2>1 DEF Grown
  <1>2. /\ \A i \in 1..(len + 1) : /\ Earlier(t, i) = Earlier(c, i)
                                   /\ OpenBlocks(t, i) = OpenBlocks(c, i)
        /\ Earlier(t, len + 2) = Earlier(c, len + 1) \cup (IF Opens(m) THEN {len + 1} ELSE {})
        /\ \A j \in 1..(len + 1) :
              j \in StillOpen(t, len + 2)
                <=> \/ j \in StillOpen(c, len + 1) /\ ~(Closes(m) /\ m.slot = c[j].slot)
                    \/ j = len + 1 /\ Opens(m)
        /\ Earlier(c, len + 1) \subseteq 1..len
        /\ StillOpen(c, len + 1) \subseteq 1..len
        /\ StillOpen(t, len + 2) \subseteq 1..(len + 1)
    <2>1. len + 1 \in 1..(len + 1)
      BY <1>1
    <2> QED
      BY <1>0, <2>1, EarlierAppend
  <1> HIDE DEF t, len
  <1>3. /\ \A i \in 1..len : Fits(d, p, Cardinality(Earlier(c, i)), OpenBlocks(c, i), c[i])
        /\ n = Cardinality(Earlier(c, len + 1)) /\ n \in Nat /\ blocks = OpenBlocks(c, len + 1)
    BY <1>1 DEF FrameK, len
  <1>4. \A i \in DOMAIN t : Fits(d, p, Cardinality(Earlier(t, i)), OpenBlocks(t, i), t[i])
    <2>1. \A i \in 1..(len + 1) : i = len + 1 \/ i \in 1..len
      BY <1>1
    <2>2. \A i \in 1..len : i \in 1..(len + 1)
      BY <1>1
    <2>3. len + 1 \in 1..(len + 1)
      BY <1>1
    <2> QED
      BY <1>1, <1>2, <1>3, <2>1, <2>2, <2>3
  <1>5. Cardinality(Earlier(t, len + 2)) = IF Opens(m) THEN n + 1 ELSE n
    <2>1. IsFiniteSet(1..len)
      BY <1>1, FS_Interval
    <2>2. IsFiniteSet(Earlier(c, len + 1))
      BY <1>2, <2>1, FS_Subset
    <2>3. len + 1 \notin Earlier(c, len + 1)
      BY <1>1, <1>2
    <2>4. CASE Opens(m)
      BY <1>2, <1>3, <2>2, <2>3, <2>4, FS_AddElement
    <2>5. CASE ~Opens(m)
      <3>1. Earlier(t, len + 2) = Earlier(c, len + 1)
        BY <1>2, <2>5
      <3> QED
        BY <1>3, <2>5, <3>1
    <2> QED
      BY <2>4, <2>5
  <1>6. OpenBlocks(t, len + 2) = BlocksAfter(n, blocks, m)
    <2>1. \A j \in StillOpen(t, len + 2) : j \in 1..(len + 1)
      BY <1>2
    <2>2. \A j \in StillOpen(c, len + 1) : j \in 1..(len + 1) /\ t[j] = c[j] /\ j # len + 1
      BY <1>1, <1>2
    <2>3. len + 1 \in 1..(len + 1)
      BY <1>1
    <2>4. ASSUME NEW b \in OpenBlocks(t, len + 2) PROVE b \in BlocksAfter(n, blocks, m)
      <3>1. PICK j \in StillOpen(t, len + 2) : b = Slotted(t[j].slot, t[j].what)
        BY DEF OpenBlocks
      <3>2. CASE j = len + 1 /\ Opens(m)
        BY <1>1, <3>1, <3>2 DEF BlocksAfter
      <3>3. CASE j \in StillOpen(c, len + 1) /\ ~(Closes(m) /\ m.slot = c[j].slot)
        <4>1. b = Slotted(c[j].slot, c[j].what)
          BY <2>2, <3>1, <3>3
        <4>2. b \in blocks /\ b.slot = c[j].slot
          BY <1>3, <3>3, <4>1, SlottedIs DEF OpenBlocks
        <4> QED
          BY <3>3, <4>2 DEF BlocksAfter, Without
      <3> QED
        BY <1>2, <2>1, <3>1, <3>2, <3>3
    <2>5. ASSUME NEW b \in BlocksAfter(n, blocks, m) PROVE b \in OpenBlocks(t, len + 2)
      <3>1. CASE Opens(m) /\ b = Slotted(m.slot, m.what)
        <4>1. len + 1 \in StillOpen(t, len + 2)
          BY <1>2, <2>3, <3>1
        <4> QED
          BY <1>1, <3>1, <4>1 DEF OpenBlocks
      <3>2. CASE b \in blocks /\ ~(Closes(m) /\ m.slot = b.slot)
        <4>1. PICK j \in StillOpen(c, len + 1) : b = Slotted(c[j].slot, c[j].what)
          BY <1>3, <3>2 DEF OpenBlocks
        <4>2. b.slot = c[j].slot
          BY <4>1, SlottedIs
        <4>3. j \in StillOpen(t, len + 2) /\ t[j] = c[j]
          BY <1>2, <2>2, <3>2, <4>2
        <4> QED
          BY <4>1, <4>3 DEF OpenBlocks
      <3> QED
        BY <3>1, <3>2 DEF BlocksAfter, Without
    <2> QED
      BY <2>4, <2>5
  <1>7. Len(t) + 1 = len + 2
    BY <1>1
  <1>8. (IF Opens(m) THEN n + 1 ELSE n) \in Nat
    BY <1>3
  <1> DEFINE n2 == IF Opens(m) THEN n + 1 ELSE n
  <1>9. n2 = Cardinality(Earlier(t, Len(t) + 1)) /\ n2 \in Nat
    BY <1>5, <1>7, <1>8
  <1> HIDE DEF n2
  <1>10. FrameK(d, p, t, n2, BlocksAfter(n, blocks, m))
    BY <1>1, <1>4, <1>6, <1>7, <1>9 DEF FrameK
  <1> QED
    BY <1>10 DEF t, n2
OpenTypes == {"content_block_start", "output_item.added", "chunk"}
CloseTypes == {"content_block_stop", "output_item.done"}
DeltaTypes == {"content_block_delta", "arguments", "output_text.delta",
               "reasoning_summary_text.delta", "function_call_arguments.delta"}
EndTypes == {"message_delta", "finish", "response.completed"}
FrameTypes == ((OpenTypes \cup CloseTypes) \cup DeltaTypes) \cup EndTypes
HasBlock(blocks, slot, what) ==
    \E b \in blocks : b.slot = slot /\ (what = b.what \/ (what = "signature" /\ b.what = "reasoning"))

\* One message: it opens a block, belongs to one, closes one, closes the answer,
\* or is none of these.
LEMMA FrameMessage ==
    ASSUME NEW d, NEW p, NEW c, NEW n, NEW blocks, FrameK(d, p, c, n, blocks),
           NEW type, NEW slot, NEW what, NEW data
    PROVE  LET m == Message(type, slot, what, data)
           IN  /\ type \in OpenTypes /\ slot = n =>
                     FrameK(d, p, Append(c, m), n + 1, blocks \cup {Slotted(slot, what)})
               /\ type \in DeltaTypes /\ HasBlock(blocks, slot, what) =>
                     FrameK(d, p, Append(c, m), n, blocks)
               /\ type \in CloseTypes /\ (\E b \in blocks : b.slot = slot) =>
                     FrameK(d, p, Append(c, m), n, Without(blocks, slot))
               /\ type \in EndTypes /\ (d # "openai" => blocks = {} /\ (Converting(p) => n # 0)) =>
                     FrameK(d, p, Append(c, m), n, blocks)
               /\ type \notin FrameTypes => FrameK(d, p, Append(c, m), n, blocks)
  <1> DEFINE m == Message(type, slot, what, data)
  <1>1. m.type = type /\ m.slot = slot /\ m.what = what
    BY MessageIs
  <1> HIDE DEF m
  <1>2. /\ Opens(m) <=> type \in OpenTypes
        /\ Closes(m) <=> type \in CloseTypes
        /\ Deltas(m) <=> type \in DeltaTypes
        /\ Finals(m) <=> type \in EndTypes
    BY <1>1 DEF Opens, Closes, Deltas, Finals, OpenTypes, CloseTypes, DeltaTypes, EndTypes
  <1>3. /\ type \in OpenTypes => type \notin CloseTypes /\ type \notin DeltaTypes
                                 /\ type \notin EndTypes
        /\ type \in CloseTypes => type \notin DeltaTypes /\ type \notin EndTypes
        /\ type \in DeltaTypes => type \notin EndTypes
    BY DEF OpenTypes, CloseTypes, DeltaTypes, EndTypes
  <1>4. \A b : OfBlock(m, b) <=> what = b.what \/ (what = "signature" /\ b.what = "reasoning")
    BY <1>1 DEF OfBlock
  <1>5. Fits(d, p, n, blocks, m) =>
           FrameK(d, p, Append(c, m), IF Opens(m) THEN n + 1 ELSE n, BlocksAfter(n, blocks, m))
    BY FrameAppend
  <1>6. CASE type \in OpenTypes /\ slot = n
    <2>1. Fits(d, p, n, blocks, m)
      BY <1>1, <1>2, <1>3, <1>6 DEF Fits
    <2>2. BlocksAfter(n, blocks, m) = blocks \cup {Slotted(slot, what)}
      BY <1>1, <1>2, <1>3, <1>6 DEF BlocksAfter
    <2>3. FrameK(d, p, Append(c, m), n + 1, blocks \cup {Slotted(slot, what)})
      BY <1>2, <1>5, <1>6, <2>1, <2>2
    <2> QED
      BY <1>3, <1>6, <2>3 DEF m, FrameTypes
  <1>7. CASE type \in DeltaTypes /\ HasBlock(blocks, slot, what)
    <2>1. Fits(d, p, n, blocks, m)
      BY <1>1, <1>2, <1>3, <1>4, <1>7 DEF Fits, HasBlock
    <2>2. BlocksAfter(n, blocks, m) = blocks
      BY <1>2, <1>3, <1>7 DEF BlocksAfter
    <2>3. FrameK(d, p, Append(c, m), n, blocks)
      BY <1>2, <1>3, <1>5, <1>7, <2>1, <2>2
    <2> QED
      BY <1>3, <1>7, <2>3 DEF m, FrameTypes
  <1>8. CASE type \in CloseTypes /\ (\E b \in blocks : b.slot = slot)
    <2>1. Fits(d, p, n, blocks, m)
      BY <1>1, <1>2, <1>3, <1>8 DEF Fits
    <2>2. BlocksAfter(n, blocks, m) = Without(blocks, slot)
      BY <1>1, <1>2, <1>3, <1>8 DEF BlocksAfter
    <2>3. FrameK(d, p, Append(c, m), n, Without(blocks, slot))
      BY <1>2, <1>3, <1>5, <1>8, <2>1, <2>2
    <2> QED
      BY <1>3, <1>8, <2>3 DEF m, FrameTypes
  <1>9. CASE type \in EndTypes /\ (d # "openai" => blocks = {} /\ (Converting(p) => n # 0))
    <2>1. Fits(d, p, n, blocks, m)
      BY <1>2, <1>3, <1>9 DEF Fits
    <2>2. BlocksAfter(n, blocks, m) = blocks
      BY <1>2, <1>3, <1>9 DEF BlocksAfter
    <2>3. FrameK(d, p, Append(c, m), n, blocks)
      BY <1>2, <1>3, <1>5, <1>9, <2>1, <2>2
    <2> QED
      BY <1>3, <1>9, <2>3 DEF m, FrameTypes
  <1>10. CASE type \notin FrameTypes
    <2>0. /\ type \notin OpenTypes /\ type \notin CloseTypes
          /\ type \notin DeltaTypes /\ type \notin EndTypes
      BY <1>10 DEF FrameTypes
    <2>1. Fits(d, p, n, blocks, m)
      BY <1>2, <2>0 DEF Fits
    <2>2. BlocksAfter(n, blocks, m) = blocks
      BY <1>2, <2>0 DEF BlocksAfter
    <2>3. FrameK(d, p, Append(c, m), n, blocks)
      BY <1>2, <1>5, <2>0, <2>1, <2>2
    <2> QED
      BY <2>0, <2>3 DEF m
  <1>11. \/ type \in OpenTypes \/ type \in DeltaTypes \/ type \in CloseTypes
         \/ type \in EndTypes \/ type \notin FrameTypes
    BY DEF FrameTypes
  <1> QED
    BY <1>3, <1>6, <1>7, <1>8, <1>9, <1>10, <1>11 DEF m, FrameTypes

\* The bookkeeping of a writer, its client and the blocks the events have open.
FrameR(d, p, acc, n, blocks) ==
    /\ n \in Nat
    /\ d = "anthropic" => FrameK(d, p, acc.client, n, blocks)
    /\ d = "openai" =>
          LET at == acc.writer.byBlock
          IN  /\ IsFiniteSet(DOMAIN at)
              /\ \A b \in DOMAIN at : b \in Nat /\ b < n
              /\ \A b \in blocks : b.what = "tool_use" => b.slot \in DOMAIN at
              /\ FrameK(d, p, acc.client, Cardinality(DOMAIN at),
                        {Slotted(at[b], "tool_use") : b \in DOMAIN at})
    /\ d = "responses" =>
          /\ ResponsesShape(acc.writer)
          /\ FrameK(d, p, acc.client, n, blocks)
          /\ acc.writer.cur = <<>> => blocks = {} /\ acc.writer.index = n
          /\ acc.writer.cur # <<>> =>
                /\ acc.writer.index = n - 1 /\ acc.writer.cur[1].slot = n - 1
                /\ n - 1 \in Nat
                /\ blocks = {Slotted(n - 1, acc.writer.cur[1].type)}

\* What an event may be, with n blocks opened and these open, and what it leaves.
HasOpen(blocks, index, what) == \E b \in blocks : b.slot = index /\ b.what = what
Legal(d, p, n, blocks, kind, index, data) ==
    /\ kind = "content_block_start" => /\ index = n /\ data \in {"text", "reasoning"}
                                       /\ d = "responses" => blocks = {}
    /\ kind = "tool_call_start" => index = n /\ (d = "responses" => blocks = {})
    /\ kind = "text_delta" => HasOpen(blocks, index, "text")
    /\ kind \in {"reasoning_delta", "signature_delta"} => HasOpen(blocks, index, "reasoning")
    /\ kind = "tool_call_delta" => HasOpen(blocks, index, "tool_use")
    /\ kind = "content_block_end" => \E b \in blocks : b.slot = index
    /\ kind = "stream_end" => blocks = {} /\ (Converting(p) => n # 0)
CountAfter(n, kind) == IF kind \in {"content_block_start", "tool_call_start"} THEN n + 1 ELSE n
OpenAfter(blocks, kind, index, data) ==
    IF kind = "content_block_start" THEN blocks \cup {Slotted(index, data)}
    ELSE IF kind = "tool_call_start" THEN blocks \cup {Slotted(index, "tool_use")}
    ELSE IF kind = "content_block_end" THEN Without(blocks, index)
    ELSE blocks

\* One message more, after those the client has.
FrameOne(d, p, c, n, blocks, type, slot, what, more) ==
    /\ type \in OpenTypes /\ slot = n => FrameK(d, p, more, n + 1, blocks \cup {Slotted(slot, what)})
    /\ type \in DeltaTypes /\ HasBlock(blocks, slot, what) => FrameK(d, p, more, n, blocks)
    /\ type \in CloseTypes /\ (\E b \in blocks : b.slot = slot) =>
          FrameK(d, p, more, n, Without(blocks, slot))
    /\ type \in EndTypes /\ (d # "openai" => blocks = {} /\ (Converting(p) => n # 0)) =>
          FrameK(d, p, more, n, blocks)
    /\ type \notin FrameTypes => FrameK(d, p, more, n, blocks)

LEMMA FrameOneIs ==
    ASSUME NEW d, NEW p, NEW c, NEW n, NEW blocks, FrameK(d, p, c, n, blocks),
           NEW type, NEW slot, NEW what, NEW data
    PROVE  /\ FrameOne(d, p, c, n, blocks, type, slot, what, c \o <<Message(type, slot, what, data)>>)
           /\ c \o <<>> = c
  <1> DEFINE m == Message(type, slot, what, data)
  <1>1. IsSeq(c)
    BY DEF FrameK
  <1>2. /\ type \in OpenTypes /\ slot = n =>
              FrameK(d, p, Append(c, m), n + 1, blocks \cup {Slotted(slot, what)})
        /\ type \in DeltaTypes /\ HasBlock(blocks, slot, what) => FrameK(d, p, Append(c, m), n, blocks)
        /\ type \in CloseTypes /\ (\E b \in blocks : b.slot = slot) =>
              FrameK(d, p, Append(c, m), n, Without(blocks, slot))
        /\ type \in EndTypes /\ (d # "openai" => blocks = {} /\ (Converting(p) => n # 0)) =>
              FrameK(d, p, Append(c, m), n, blocks)
        /\ type \notin FrameTypes => FrameK(d, p, Append(c, m), n, blocks)
    BY FrameMessage, Zenon
  <1> HIDE DEF m
  <1>3. Append(c, m) = c \o <<m>>
    BY <1>1, IsSeqAppend
  <1>4. FrameOne(d, p, c, n, blocks, type, slot, what, c \o <<m>>)
    BY <1>2, <1>3, Zenon DEF FrameOne
  <1>5. c \o <<>> = c
    BY <1>1, IsSeqFew
  <1> QED
    BY <1>4, <1>5 DEF m

FrameKinds == QuietKinds \cup TextKinds

LEMMA FrameAnthropic ==
    ASSUME dialect = "anthropic", NEW p, NEW acc, NEW n, NEW blocks,
           FrameK(dialect, p, acc.client, n, blocks),
           NEW kind \in FrameKinds, NEW index, NEW data, Legal(dialect, p, n, blocks, kind, index, data),
           NEW after, NEW d, PassedAs(acc, kind, index, d, after), kind \notin TextKinds => d = data
    PROVE  FrameK(dialect, p, after.client, CountAfter(n, kind), OpenAfter(blocks, kind, index, data))
  <1> DEFINE c == acc.client
  <1> DEFINE w == acc.writer
  <1> DEFINE r == Write(w, Event(kind, index, d))
  <1> DEFINE ms == r.messages
  <1>1. AnthropicWritten(w, kind, index, d, r)
    BY AnthropicWrites
  <1>2. after.client = c \o ms
    BY DEF PassedAs
  <1>3. PICK blank : blank = ""
    OBVIOUS
  <1>4. FrameK(dialect, p, c, n, blocks)
    OBVIOUS
  <1> HIDE DEF c, r
  <1>5. CASE kind \in {"finish", "usage"}
    <2>1. ms = <<>>
      BY <1>1, <1>5 DEF AnthropicWritten
    <2>2. c \o <<>> = c
      BY <1>4, FrameOneIs
    <2> QED
      BY <1>2, <1>4, <1>5, <2>1, <2>2 DEF CountAfter, OpenAfter
  <1>6. CASE kind = "stream_start"
    <2> DEFINE m1 == Message("message_start", None, blank, blank)
    <2> DEFINE m2 == Message("ping", None, blank, blank)
    <2>1. ms = <<m1, m2>>
      BY <1>1, <1>3, <1>6 DEF AnthropicWritten
    <2> DEFINE d1 == c \o <<m1>>
    <2>2. FrameK(dialect, p, d1, n, blocks)
      <3>1. FrameOne(dialect, p, c, n, blocks, "message_start", None, blank, d1)
        BY <1>4, FrameOneIs
      <3> HIDE DEF d1
      <3> QED
        BY <3>1 DEF FrameOne, FrameTypes, OpenTypes, CloseTypes, DeltaTypes, EndTypes
    <2> HIDE DEF d1
    <2> DEFINE d2 == d1 \o <<m2>>
    <2>3. FrameK(dialect, p, d2, n, blocks)
      <3>1. FrameOne(dialect, p, d1, n, blocks, "ping", None, blank, d2)
        BY <2>2, FrameOneIs
      <3> HIDE DEF d2
      <3> QED
        BY <3>1 DEF FrameOne, FrameTypes, OpenTypes, CloseTypes, DeltaTypes, EndTypes
    <2>4. IsSeq(c) /\ IsSeq(d1)
      BY <1>4, <2>2 DEF FrameK
    <2> HIDE DEF m1, m2
    <2>5. c \o <<m1, m2>> = d2
      <3>1. c \o <<m1, m2>> = Append(Append(c, m1), m2)
        BY <2>4, AppendTwo
      <3>2. Append(c, m1) = d1
        BY <2>4, IsSeqAppend DEF d1
      <3>3. Append(d1, m2) = d2
        BY <2>4, IsSeqAppend
      <3> HIDE DEF d2
      <3> QED
        BY <3>1, <3>2, <3>3
    <2> HIDE DEF d2
    <2> QED
      BY <1>2, <1>6, <2>1, <2>3, <2>5 DEF CountAfter, OpenAfter
  <1>7. CASE kind = "stream_end"
    <2> DEFINE told == Told(w.reason, w.usage)
    <2> DEFINE m1 == Message("message_delta", None, blank, told)
    <2> DEFINE m2 == Message("message_stop", None, blank, blank)
    <2>1. ms = <<m1, m2>>
      BY <1>1, <1>3, <1>7 DEF AnthropicWritten
    <2>2a. blocks = {} /\ (Converting(p) => n # 0)
      BY <1>7 DEF Legal
    <2> DEFINE d1 == c \o <<m1>>
    <2>2. FrameK(dialect, p, d1, n, blocks)
      <3>1. FrameOne(dialect, p, c, n, blocks, "message_delta", None, blank, d1)
        BY <1>4, FrameOneIs
      <3> HIDE DEF d1
      <3> QED
        BY <2>2a, <3>1 DEF FrameOne, EndTypes
    <2> HIDE DEF d1
    <2> DEFINE d2 == d1 \o <<m2>>
    <2>3. FrameK(dialect, p, d2, n, blocks)
      <3>1. FrameOne(dialect, p, d1, n, blocks, "message_stop", None, blank, d2)
        BY <2>2, FrameOneIs
      <3> HIDE DEF d2
      <3> QED
        BY <3>1 DEF FrameOne, FrameTypes, OpenTypes, CloseTypes, DeltaTypes, EndTypes
    <2>4. IsSeq(c) /\ IsSeq(d1)
      BY <1>4, <2>2 DEF FrameK
    <2> HIDE DEF m1, m2
    <2>5. c \o <<m1, m2>> = d2
      <3>1. c \o <<m1, m2>> = Append(Append(c, m1), m2)
        BY <2>4, AppendTwo
      <3>2. Append(c, m1) = d1
        BY <2>4, IsSeqAppend DEF d1
      <3>3. Append(d1, m2) = d2
        BY <2>4, IsSeqAppend
      <3> HIDE DEF d2
      <3> QED
        BY <3>1, <3>2, <3>3
    <2> HIDE DEF d2
    <2> QED
      BY <1>2, <1>7, <2>1, <2>3, <2>5 DEF CountAfter, OpenAfter
  <1>8. CASE kind \in {"content_block_start", "tool_call_start"}
    <2>1. PICK what, x : /\ ms = <<Message("content_block_start", index, what, x)>>
                         /\ kind = "content_block_start" => what = data
                         /\ kind = "tool_call_start" => what = "tool_use"
      <3>1. CASE kind = "content_block_start"
        <4>1. ms = <<Message("content_block_start", index, data, blank)>>
          BY <1>1, <1>3, <3>1 DEF AnthropicWritten, TextKinds
        <4> HIDE DEF ms
        <4> QED
          BY <3>1, <4>1
      <3>2. CASE kind = "tool_call_start"
        <4>1. ms = <<Message("content_block_start", index, "tool_use", data)>>
          BY <1>1, <3>2 DEF AnthropicWritten, TextKinds
        <4> HIDE DEF ms
        <4> QED
          BY <3>2, <4>1
      <3> QED
        BY <1>8, <3>1, <3>2
    <2> DEFINE more == c \o <<Message("content_block_start", index, what, x)>>
    <2>2. FrameOne(dialect, p, c, n, blocks, "content_block_start", index, what, more)
      BY <1>4, FrameOneIs
    <2>3. after.client = more
      BY <1>2, <2>1
    <2> HIDE DEF more
    <2>4. index = n
      BY <1>8 DEF Legal
    <2>5. FrameK(dialect, p, more, n + 1, blocks \cup {Slotted(index, what)})
      BY <2>2, <2>4 DEF FrameOne, OpenTypes
    <2> QED
      BY <1>8, <2>1, <2>3, <2>5 DEF CountAfter, OpenAfter
  <1>9. CASE kind \in {"text_delta", "reasoning_delta", "signature_delta", "tool_call_delta"}
    <2>1. PICK what, x : /\ ms = <<Message("content_block_delta", index, what, x)>>
                         /\ kind = "text_delta" => what = "text"
                         /\ kind = "reasoning_delta" => what = "reasoning"
                         /\ kind = "signature_delta" => what = "signature"
                         /\ kind = "tool_call_delta" => what = "tool_use"
      <3>1. CASE kind = "text_delta"
        <4>1. ms = <<Message("content_block_delta", index, "text", d)>>
          BY <1>1, <3>1 DEF AnthropicWritten
        <4> HIDE DEF ms
        <4> QED
          BY <3>1, <4>1
      <3>2. CASE kind = "reasoning_delta"
        <4>1. ms = <<Message("content_block_delta", index, "reasoning", d)>>
          BY <1>1, <3>2 DEF AnthropicWritten
        <4> HIDE DEF ms
        <4> QED
          BY <3>2, <4>1
      <3>3. CASE kind = "signature_delta"
        <4>1. ms = <<Message("content_block_delta", index, "signature", blank)>>
          BY <1>1, <1>3, <3>3 DEF AnthropicWritten
        <4> HIDE DEF ms
        <4> QED
          BY <3>3, <4>1
      <3>4. CASE kind = "tool_call_delta"
        <4>1. ms = <<Message("content_block_delta", index, "tool_use", d)>>
          BY <1>1, <3>4 DEF AnthropicWritten
        <4> HIDE DEF ms
        <4> QED
          BY <3>4, <4>1
      <3> QED
        BY <1>9, <3>1, <3>2, <3>3, <3>4
    <2> DEFINE more == c \o <<Message("content_block_delta", index, what, x)>>
    <2>2. FrameOne(dialect, p, c, n, blocks, "content_block_delta", index, what, more)
      BY <1>4, FrameOneIs
    <2>3. after.client = more
      BY <1>2, <2>1
    <2> HIDE DEF more
    <2>4. HasBlock(blocks, index, what)
      BY <1>9, <2>1 DEF Legal, HasOpen, HasBlock
    <2>5. FrameK(dialect, p, more, n, blocks)
      BY <2>2, <2>4 DEF FrameOne, DeltaTypes
    <2> QED
      BY <1>9, <2>3, <2>5 DEF CountAfter, OpenAfter
  <1>10. CASE kind = "content_block_end"
    <2> DEFINE more == c \o <<Message("content_block_stop", index, blank, blank)>>
    <2>1. ms = <<Message("content_block_stop", index, blank, blank)>>
      BY <1>1, <1>3, <1>10 DEF AnthropicWritten
    <2>2. FrameOne(dialect, p, c, n, blocks, "content_block_stop", index, blank, more)
      BY <1>4, FrameOneIs
    <2>3. after.client = more
      BY <1>2, <2>1
    <2> HIDE DEF more
    <2>4. \E b \in blocks : b.slot = index
      BY <1>10 DEF Legal
    <2>5. FrameK(dialect, p, more, n, Without(blocks, index))
      BY <2>2, <2>4 DEF FrameOne, CloseTypes
    <2> QED
      BY <1>10, <2>3, <2>5 DEF CountAfter, OpenAfter
  <1> QED
    BY <1>5, <1>6, <1>7, <1>8, <1>9, <1>10 DEF FrameKinds, QuietKinds, TextKinds

LEMMA FrameOpenAI ==
    ASSUME dialect = "openai", NEW p, NEW acc, NEW n, NEW blocks, FrameR(dialect, p, acc, n, blocks),
           NEW kind \in FrameKinds, NEW index, NEW data, Legal(dialect, p, n, blocks, kind, index, data),
           NEW after, NEW d, PassedAs(acc, kind, index, d, after), kind \notin TextKinds => d = data
    PROVE  FrameR(dialect, p, after, CountAfter(n, kind), OpenAfter(blocks, kind, index, data))
  <1> DEFINE c == acc.client
  <1> DEFINE w == acc.writer
  <1> DEFINE at == w.byBlock
  <1> DEFINE r == Write(w, Event(kind, index, d))
  <1> DEFINE ms == r.messages
  <1> DEFINE size == Cardinality(DOMAIN at)
  <1> DEFINE calls == {Slotted(at[b], "tool_use") : b \in DOMAIN at}
  <1> DEFINE n2 == CountAfter(n, kind)
  <1> DEFINE blocks2 == OpenAfter(blocks, kind, index, data)
  <1>1. OpenAIWritten(w, kind, index, d, r)
    BY OpenAIWrites
  <1>2. after.client = c \o ms /\ after.writer = r.writer
    BY DEF PassedAs
  <1>3. PICK blank : blank = ""
    OBVIOUS
  <1>4. /\ IsFiniteSet(DOMAIN at) /\ n \in Nat
        /\ \A b \in DOMAIN at : b \in Nat /\ b < n
        /\ \A b \in blocks : b.what = "tool_use" => b.slot \in DOMAIN at
        /\ FrameK(dialect, p, c, size, calls)
    BY DEF FrameR
  <1> SUFFICES FrameR(dialect, p, after, n2, blocks2)
    OBVIOUS
  <1> HIDE DEF c, r, w, n2, blocks2
  <1>5. n2 \in Nat /\ n <= n2
    BY <1>4 DEF CountAfter, n2
  <1>6. ASSUME kind # "tool_call_start", FrameK(dialect, p, after.client, size, calls)
        PROVE  FrameR(dialect, p, after, n2, blocks2)
    <2>1. after.writer = w
      BY <1>1, <1>2, <1>6 DEF OpenAIWritten
    <2>2. \A b \in DOMAIN at : b \in Nat /\ b < n2
      BY <1>4, <1>5
    <2>3. \A b \in blocks2 : b.what = "tool_use" => b.slot \in DOMAIN at
      <3>1. kind = "content_block_start" => data # "tool_use"
        BY DEF Legal
      <3> QED
        BY <1>4, <1>6, <3>1, SlottedIs DEF OpenAfter, Without, blocks2
    <2> QED
      BY <1>4, <1>5, <1>6, <2>1, <2>2, <2>3 DEF FrameR
  <1>7. ASSUME kind # "tool_call_start", ms = <<>> PROVE FrameR(dialect, p, after, n2, blocks2)
    <2>1. c \o <<>> = c
      BY <1>4, FrameOneIs
    <2> HIDE DEF ms, size, calls
    <2> QED
      BY <1>2, <1>4, <1>6, <1>7, <2>1
  <1>8. CASE kind = "tool_call_start"
    <2>1. ms = <<Message("chunk", size, "tool_use", d)>> /\ after.writer = WithBlock(w, index)
      BY <1>1, <1>2, <1>8 DEF OpenAIWritten
    <2>2. index = n
      BY <1>8 DEF Legal
    <2> DEFINE at2 == after.writer.byBlock
    <2>3. /\ DOMAIN at2 = DOMAIN at \cup {n} /\ at2[n] = size
          /\ \A b \in DOMAIN at : at2[b] = at[b]
      <3>1. n \notin DOMAIN at
        BY <1>4
      <3> HIDE DEF size
      <3>2. at2 = [k \in DOMAIN at \cup {n} |-> IF k = n THEN size ELSE at[k]]
        BY <2>1, <2>2 DEF WithBlock, size
      <3> HIDE DEF at2
      <3> QED
        BY <3>1, <3>2
    <2>4. n \notin DOMAIN at
      BY <1>4
    <2>5. IsFiniteSet(DOMAIN at2) /\ Cardinality(DOMAIN at2) = size + 1
      <3> HIDE DEF at2, at
      <3> QED
        BY <1>4, <2>3, <2>4, FS_AddElement
    <2> DEFINE more == c \o <<Message("chunk", size, "tool_use", d)>>
    <2>6. FrameK(dialect, p, more, size + 1, calls \cup {Slotted(size, "tool_use")})
      <3>1. FrameOne(dialect, p, c, size, calls, "chunk", size, "tool_use", more)
        BY <1>4, FrameOneIs
      <3> HIDE DEF more, calls, size
      <3> QED
        BY <3>1 DEF FrameOne, OpenTypes
    <2>7. after.client = more
      BY <1>2, <2>1
    <2>8. {Slotted(at2[b], "tool_use") : b \in DOMAIN at2} = calls \cup {Slotted(size, "tool_use")}
      <3> HIDE DEF at2, size
      <3> QED
        BY <2>3
    <2>9. /\ \A b \in DOMAIN at2 : b \in Nat /\ b < n2
          /\ \A b \in blocks2 : b.what = "tool_use" => b.slot \in DOMAIN at2
          /\ n2 = n + 1
      <3>1. blocks2 = blocks \cup {Slotted(n, "tool_use")} /\ n2 = n + 1
        BY <1>8, <2>2 DEF OpenAfter, CountAfter, n2, blocks2
      <3> HIDE DEF at2, at
      <3> QED
        BY <1>4, <2>3, <3>1, SlottedIs
    <2> HIDE DEF at2, size, calls, more
    <2>10. FrameK(dialect, p, after.client, Cardinality(DOMAIN at2),
                  {Slotted(at2[b], "tool_use") : b \in DOMAIN at2})
      BY <2>5, <2>6, <2>7, <2>8
    <2> QED
      BY <1>5, <2>5, <2>9, <2>10 DEF FrameR, at2
  <1>9. CASE kind = "tool_call_delta"
    <2>1. index \in DOMAIN at
      BY <1>4, <1>9 DEF Legal, HasOpen
    <2> DEFINE more == c \o <<Message("arguments", at[index], "tool_use", d)>>
    <2>2. after.client = more
      BY <1>1, <1>2, <1>9, <2>1 DEF OpenAIWritten
    <2>3. FrameOne(dialect, p, c, size, calls, "arguments", at[index], "tool_use", more)
      BY <1>4, FrameOneIs
    <2>4. HasBlock(calls, at[index], "tool_use")
      <3>1. Slotted(at[index], "tool_use") \in calls
        BY <2>1
      <3> QED
        BY <3>1, SlottedIs DEF HasBlock
    <2> HIDE DEF more, calls, size
    <2>5. FrameK(dialect, p, more, size, calls)
      BY <2>3, <2>4 DEF FrameOne, DeltaTypes
    <2> QED
      BY <1>6, <1>9, <2>2, <2>5
  <1>10. ASSUME kind # "tool_call_start",
                \E type, x, y : /\ ms = <<Message(type, None, x, y)>>
                                /\ type \in {"content", "finish", "usage", "[DONE]"}
         PROVE  FrameR(dialect, p, after, n2, blocks2)
    <2>0. PICK type, x, y : /\ ms = <<Message(type, None, x, y)>>
                            /\ type \in {"content", "finish", "usage", "[DONE]"}
      BY <1>10
    <2> DEFINE more == c \o <<Message(type, None, x, y)>>
    <2>1. after.client = more
      BY <1>2, <2>0
    <2>2. FrameOne(dialect, p, c, size, calls, type, None, x, more)
      BY <1>4, FrameOneIs
    <2> HIDE DEF more, calls, size
    <2>3. FrameK(dialect, p, more, size, calls)
      <3>1. type = "finish" => type \in EndTypes
        BY DEF EndTypes
      <3>2. type # "finish" => type \notin FrameTypes
        BY <2>0 DEF FrameTypes, OpenTypes, CloseTypes, DeltaTypes, EndTypes
      <3> QED
        BY <2>2, <3>1, <3>2 DEF FrameOne
    <2> QED
      BY <1>6, <1>10, <2>1, <2>3
  <1>11. CASE kind \in {"text_delta", "finish", "usage", "stream_end"}
    <2>1. \/ ms = <<>>
          \/ ms = <<Message("content", None, "text", d)>>
          \/ ms = <<Message("finish", None, blank, AsTold(d))>>
          \/ ms = <<Message("usage", None, blank, d)>>
          \/ ms = <<Message("[DONE]", None, blank, blank)>>
      BY <1>1, <1>3, <1>11 DEF OpenAIWritten
    <2> HIDE DEF ms
    <2>2. ms # <<>> => \E type, x, y : /\ ms = <<Message(type, None, x, y)>>
                                       /\ type \in {"content", "finish", "usage", "[DONE]"}
      BY <2>1
    <2> QED
      BY <1>7, <1>10, <1>11, <2>2, Zenon
  <1>15. CASE kind \in {"stream_start", "content_block_start", "content_block_end",
                        "reasoning_delta", "signature_delta"}
    <2>1. ms = <<>>
      BY <1>1, <1>15 DEF OpenAIWritten
    <2> HIDE DEF ms
    <2> QED
      BY <1>7, <1>15, <2>1
  <1> QED
    BY <1>8, <1>9, <1>11, <1>15 DEF FrameKinds, QuietKinds, TextKinds

\* The Responses writer's part of FrameR.
FrameCur(w, n, blocks) ==
    /\ ResponsesShape(w)
    /\ w.cur = <<>> => blocks = {} /\ w.index = n
    /\ w.cur # <<>> => /\ w.index = n - 1 /\ w.cur[1].slot = n - 1 /\ n - 1 \in Nat
                       /\ blocks = {Slotted(n - 1, w.cur[1].type)}

LEMMA FrameRIs ==
    ASSUME dialect = "responses", NEW p, NEW acc, NEW n, NEW blocks
    PROVE  FrameR(dialect, p, acc, n, blocks)
             <=> /\ n \in Nat /\ FrameK(dialect, p, acc.client, n, blocks)
                 /\ FrameCur(acc.writer, n, blocks)
  BY DEF FrameR, FrameCur

LEMMA BlockIs ==
    ASSUME NEW w, NEW type, NEW tool
    PROVE  /\ Block(w, type, tool) # <<>>
           /\ Block(w, type, tool)[1].slot = w.index /\ Block(w, type, tool)[1].type = type
  <1> DEFINE x == [slot |-> w.index, type |-> type, tool |-> tool, text |-> <<>>]
  <1>1. x.slot = w.index /\ x.type = type
    OBVIOUS
  <1>2. Block(w, type, tool) = <<x>>
    BY DEF Block
  <1> HIDE DEF x
  <1>3. <<x>> # <<>> /\ <<x>>[1] = x
    OBVIOUS
  <1> QED
    BY <1>1, <1>2, <1>3

\* What an event makes of the one block the Responses writer follows.
LEMMA FrameCurAfter ==
    ASSUME NEW w, NEW n \in Nat, NEW blocks, FrameCur(w, n, blocks),
           NEW kind \in FrameKinds, NEW d, NEW after, ResponsesAfter(w, kind, d, after)
    PROVE  /\ kind \in {"content_block_start", "tool_call_start"} /\ blocks = {} =>
                 FrameCur(after, n + 1,
                          {Slotted(n, IF kind = "tool_call_start" THEN "tool_use" ELSE d)})
           /\ kind = "content_block_end" /\ blocks # {} => FrameCur(after, n, {})
           /\ kind \notin {"content_block_start", "tool_call_start", "content_block_end"} =>
                 FrameCur(after, n, blocks)
  <1>1. ResponsesShape(after)
    BY ResponsesOpen DEF FrameKinds, FrameCur
  <1>2. ASSUME kind \in {"content_block_start", "tool_call_start"}, blocks = {}
        PROVE  FrameCur(after, n + 1,
                        {Slotted(n, IF kind = "tool_call_start" THEN "tool_use" ELSE d)})
    <2> DEFINE type == IF kind = "tool_call_start" THEN "tool_use" ELSE d
    <2>1. w.cur = <<>> /\ w.index = n
      <3>1. \A x : {x} # {}
        OBVIOUS
      <3> QED
        BY <1>2, <3>1 DEF FrameCur
    <2>2. PICK tool : after = Triple(Block(w, type, tool), w.index, w.usage)
      <3>1. CASE kind = "content_block_start"
        <4>1. PICK tool : after = Triple(Block(w, d, tool), w.index, w.usage)
          BY <3>1 DEF ResponsesAfter
        <4> QED
          BY <3>1, <4>1
      <3>2. CASE kind = "tool_call_start"
        <4>1. after = Triple(Block(w, "tool_use", d), w.index, w.usage)
          BY <3>2 DEF ResponsesAfter
        <4> QED
          BY <3>2, <4>1
      <3> QED
        BY <1>2, <3>1, <3>2
    <2> HIDE DEF type
    <2>3. /\ after.cur # <<>> /\ after.cur[1].slot = n /\ after.cur[1].type = type
          /\ after.index = n
      BY <2>1, <2>2, BlockIs, TripleIs
    <2>4. (n + 1) - 1 = n
      OBVIOUS
    <2>5. FrameCur(after, n + 1, {Slotted(n, type)})
      BY <1>1, <2>3, <2>4 DEF FrameCur
    <2> QED
      BY <2>5 DEF type
  <1>3. ASSUME kind = "content_block_end", blocks # {} PROVE FrameCur(after, n, {})
    <2>1. w.cur # <<>> /\ w.index = n - 1
      BY <1>3 DEF FrameCur
    <2>2. after = Triple(<<>>, w.index + 1, w.usage)
      BY <1>3, <2>1 DEF ResponsesAfter
    <2>3. after.cur = <<>> /\ after.index = n
      BY <2>1, <2>2, TripleIs
    <2> QED
      BY <1>1, <2>3 DEF FrameCur
  <1>4. ASSUME kind \notin {"content_block_start", "tool_call_start", "content_block_end"}
        PROVE  FrameCur(after, n, blocks)
    <2>1. CASE after = w
      BY <2>1
    <2>2. CASE kind = "usage"
      <3>1. after = Triple(w.cur, w.index, d)
        BY <2>2 DEF ResponsesAfter
      <3>2. after.cur = w.cur /\ after.index = w.index
        BY <3>1, TripleIs
      <3> QED
        BY <1>1, <3>2 DEF FrameCur
    <2>3. CASE kind \in TextKinds /\ w.cur # <<>> /\ after # w
      <3> DEFINE x == [w.cur[1] EXCEPT !.text = @ \o d]
      <3>1. after = Triple(<<x>>, w.index, w.usage)
        BY <2>3 DEF ResponsesAfter
      <3>2. x.slot = w.cur[1].slot /\ x.type = w.cur[1].type
        OBVIOUS
      <3> HIDE DEF x
      <3>3. <<x>> # <<>> /\ <<x>>[1] = x
        OBVIOUS
      <3>4. after.cur = <<x>> /\ after.index = w.index
        BY <3>1, TripleIs
      <3> QED
        BY <1>1, <2>3, <3>2, <3>3, <3>4 DEF FrameCur
    <2>4. kind # "usage" /\ ~(kind \in TextKinds /\ w.cur # <<>>) => after = w
      BY <1>4 DEF ResponsesAfter, FrameKinds, QuietKinds, TextKinds
    <2> QED
      BY <2>1, <2>2, <2>3, <2>4
  <1> QED
    BY <1>2, <1>3, <1>4

LEMMA FrameResponses ==
    ASSUME dialect = "responses", NEW p, NEW acc, NEW n, NEW blocks,
           FrameR(dialect, p, acc, n, blocks),
           NEW kind \in FrameKinds, NEW index, NEW data, Legal(dialect, p, n, blocks, kind, index, data),
           NEW after, NEW d, PassedAs(acc, kind, index, d, after), kind \notin TextKinds => d = data
    PROVE  FrameR(dialect, p, after, CountAfter(n, kind), OpenAfter(blocks, kind, index, data))
  <1> DEFINE c == acc.client
  <1> DEFINE w == acc.writer
  <1> DEFINE r == Write(w, Event(kind, index, d))
  <1> DEFINE ms == r.messages
  <1> DEFINE cur == w.cur[1]
  <1>1. ResponsesWritten(w, kind, d, ms) /\ r = WriteResponses(w, Event(kind, index, d))
    BY ResponsesWrites
  <1>2. after.client = c \o ms /\ after.writer = r.writer
    BY DEF PassedAs
  <1>3. PICK blank : blank = ""
    OBVIOUS
  <1>4. n \in Nat /\ FrameK(dialect, p, c, n, blocks) /\ FrameCur(w, n, blocks)
    BY FrameRIs
  <1>5. ResponsesAfter(w, kind, d, after.writer)
    <2>1. ResponsesShape(w) /\ kind \in QuietKinds \cup TextKinds
      BY <1>4 DEF FrameCur, FrameKinds
    <2>2. ResponsesAfter(w, kind, d, WriteResponses(w, Event(kind, index, d)).writer)
      BY <2>1, ResponsesWriter
    <2> HIDE DEF r, w
    <2> QED
      BY <1>1, <1>2, <2>2
  <1> HIDE DEF c, r, w
  <1>6. c \o <<>> = c
    BY <1>4, FrameOneIs
  <1>7. \A b : b \in blocks =>
           /\ w.cur # <<>> /\ b = Slotted(n - 1, cur.type)
           /\ b.slot = n - 1 /\ b.what = cur.type
           /\ cur.slot = n - 1 /\ blocks = {b}
    BY <1>4, SlottedIs DEF FrameCur
  <1>8. ASSUME FrameK(dialect, p, after.client, n, blocks),
               kind \notin {"content_block_start", "tool_call_start", "content_block_end"}
        PROVE  FrameR(dialect, p, after, CountAfter(n, kind), OpenAfter(blocks, kind, index, data))
    <2>1. FrameCur(after.writer, n, blocks)
      BY <1>4, <1>5, <1>8, FrameCurAfter
    <2>2. CountAfter(n, kind) = n /\ OpenAfter(blocks, kind, index, data) = blocks
      BY <1>8 DEF CountAfter, OpenAfter
    <2>3. FrameR(dialect, p, after, n, blocks)
      BY <1>4, <1>8, <2>1, FrameRIs
    <2> QED
      BY <2>2, <2>3
  <1>9. CASE kind \in {"stream_start", "finish", "usage", "signature_delta"}
    <2>1. ms = <<>>
      BY <1>1, <1>9 DEF ResponsesWritten
    <2> HIDE DEF ms
    <2> QED
      BY <1>2, <1>4, <1>6, <1>8, <1>9, <2>1
  <1>10. CASE kind = "stream_end"
    <2> DEFINE told == Told(blank, w.usage)
    <2> DEFINE more == c \o <<Message("response.completed", None, blank, told)>>
    <2>1. after.client = more
      BY <1>1, <1>2, <1>3, <1>10 DEF ResponsesWritten
    <2>2. FrameOne(dialect, p, c, n, blocks, "response.completed", None, blank, more)
      BY <1>4, FrameOneIs
    <2> HIDE DEF more
    <2>3. blocks = {} /\ (Converting(p) => n # 0)
      BY <1>10 DEF Legal
    <2>4. FrameK(dialect, p, more, n, blocks)
      BY <2>2, <2>3 DEF FrameOne, EndTypes
    <2> QED
      BY <1>8, <1>10, <2>1, <2>4
  <1>11. CASE kind \in {"text_delta", "reasoning_delta", "tool_call_delta"}
    <2>1. PICK b \in blocks :
             /\ b.slot = index
             /\ kind = "text_delta" => b.what = "text"
             /\ kind = "reasoning_delta" => b.what = "reasoning"
             /\ kind = "tool_call_delta" => b.what = "tool_use"
      BY <1>11 DEF Legal, HasOpen
    <2>2. w.cur # <<>> /\ b.slot = cur.slot
      BY <1>7
    <2>3. \/ ms = <<>>
          \/ \E type, x : ms = <<Message(type, cur.slot, b.what, x)>> /\ type \in DeltaTypes
      <3>1. CASE kind = "tool_call_delta"
        <4>1. ms = <<Message("function_call_arguments.delta", cur.slot, "tool_use", d)>>
          BY <1>1, <2>2, <3>1 DEF ResponsesWritten
        <4> HIDE DEF ms, cur
        <4> QED
          BY <2>1, <3>1, <4>1 DEF DeltaTypes
      <3>2. CASE kind \in TextKinds
        <4>1. \/ ms = <<>>
              \/ ms = <<Message("output_text.delta", cur.slot, "text", d)>> /\ kind = "text_delta"
              \/ /\ ms = <<Message("reasoning_summary_text.delta", cur.slot, "reasoning", d)>>
                 /\ kind = "reasoning_delta"
          BY <1>1, <2>2, <3>2 DEF ResponsesWritten, TextKinds
        <4> HIDE DEF ms, cur
        <4> QED
          BY <2>1, <4>1 DEF DeltaTypes
      <3> QED
        BY <1>11, <3>1, <3>2 DEF TextKinds
    <2>4. FrameK(dialect, p, after.client, n, blocks)
      <3>1. CASE ms = <<>>
        <4> HIDE DEF ms
        <4> QED
          BY <1>2, <1>4, <1>6, <3>1
      <3>2. ASSUME NEW type, NEW x, ms = <<Message(type, cur.slot, b.what, x)>>, type \in DeltaTypes
            PROVE  FrameK(dialect, p, after.client, n, blocks)
        <4> DEFINE more == c \o <<Message(type, cur.slot, b.what, x)>>
        <4>1. after.client = more
          BY <1>2, <3>2
        <4>2. FrameOne(dialect, p, c, n, blocks, type, cur.slot, b.what, more)
          BY <1>4, FrameOneIs
        <4> HIDE DEF more
        <4>3. HasBlock(blocks, cur.slot, b.what)
          BY <2>2 DEF HasBlock
        <4> QED
          BY <3>2, <4>1, <4>2, <4>3 DEF FrameOne
      <3> QED
        BY <2>3, <3>1, <3>2
    <2> QED
      BY <1>8, <1>11, <2>4
  <1>12. CASE kind \in {"content_block_start", "tool_call_start"}
    <2> DEFINE what == IF kind = "tool_call_start" THEN "tool_use" ELSE d
    <2>1. blocks = {} /\ index = n /\ w.index = n
      <3>1. blocks = {} /\ index = n
        BY <1>12 DEF Legal
      <3>2. \A x : {x} # {}
        OBVIOUS
      <3> QED
        BY <1>4, <3>1, <3>2 DEF FrameCur
    <2>2. FrameCur(after.writer, n + 1, {Slotted(n, what)})
      BY <1>4, <1>5, <1>12, <2>1, FrameCurAfter
    <2>3. PICK x : ms = <<Message("output_item.added", n, what, x)>>
      <3>1. CASE kind = "content_block_start"
        <4>1. ms = <<Message("output_item.added", n, d, blank)>>
          BY <1>1, <1>3, <2>1, <3>1 DEF ResponsesWritten
        <4> HIDE DEF ms
        <4> QED
          BY <3>1, <4>1
      <3>2. CASE kind = "tool_call_start"
        <4>1. ms = <<Message("output_item.added", n, "tool_use", d)>>
          BY <1>1, <2>1, <3>2 DEF ResponsesWritten
        <4> HIDE DEF ms
        <4> QED
          BY <3>2, <4>1
      <3> QED
        BY <1>12, <3>1, <3>2
    <2>4. what = IF kind = "tool_call_start" THEN "tool_use" ELSE data
      BY <1>12 DEF TextKinds
    <2> DEFINE more == c \o <<Message("output_item.added", n, what, x)>>
    <2>5. after.client = more
      BY <1>2, <2>3
    <2> HIDE DEF what
    <2>6. FrameOne(dialect, p, c, n, blocks, "output_item.added", n, what, more)
      BY <1>4, FrameOneIs
    <2> HIDE DEF more
    <2>7. FrameK(dialect, p, more, n + 1, blocks \cup {Slotted(n, what)})
      BY <2>6 DEF FrameOne, OpenTypes
    <2>8. /\ CountAfter(n, kind) = n + 1
          /\ OpenAfter(blocks, kind, index, data) = {Slotted(n, what)}
          /\ blocks \cup {Slotted(n, what)} = {Slotted(n, what)}
      BY <1>12, <2>1, <2>4 DEF CountAfter, OpenAfter
    <2>9. FrameR(dialect, p, after, n + 1, {Slotted(n, what)})
      BY <1>4, <2>2, <2>5, <2>7, <2>8, FrameRIs
    <2> QED
      BY <2>8, <2>9
  <1>13. CASE kind = "content_block_end"
    <2>1. PICK b \in blocks : b.slot = index
      BY <1>13 DEF Legal
    <2>2. w.cur # <<>> /\ cur.slot = index /\ blocks = {b}
      BY <1>7, <2>1
    <2>3. PICK x : ms = <<Message("output_item.done", cur.slot, cur.type, x)>>
      BY <1>1, <1>13, <2>2 DEF ResponsesWritten
    <2> DEFINE type == cur.type
    <2> DEFINE more == c \o <<Message("output_item.done", index, type, x)>>
    <2>4. after.client = more
      BY <1>2, <2>2, <2>3
    <2>5. FrameOne(dialect, p, c, n, blocks, "output_item.done", index, type, more)
      BY <1>4, FrameOneIs
    <2> HIDE DEF more
    <2>6. FrameK(dialect, p, more, n, Without(blocks, index))
      BY <2>1, <2>5 DEF FrameOne, CloseTypes
    <2>7. Without(blocks, index) = {}
      BY <2>1, <2>2 DEF Without
    <2>8. FrameCur(after.writer, n, {})
      BY <1>4, <1>5, <1>13, <2>1, FrameCurAfter
    <2>9. CountAfter(n, kind) = n /\ OpenAfter(blocks, kind, index, data) = {}
      BY <1>13, <2>7 DEF CountAfter, OpenAfter
    <2>10. FrameR(dialect, p, after, n, {})
      BY <1>4, <2>4, <2>6, <2>7, <2>8, FrameRIs
    <2> QED
      BY <2>9, <2>10
  <1> QED
    BY <1>9, <1>10, <1>11, <1>12, <1>13 DEF FrameKinds, QuietKinds, TextKinds

\* One event on its way.
LEMMA FrameEvent ==
    ASSUME dialect \in Dialects, NEW p, NEW acc, NEW n, NEW blocks,
           FrameR(dialect, p, acc, n, blocks),
           NEW kind \in FrameKinds, NEW index, NEW data, Legal(dialect, p, n, blocks, kind, index, data)
    PROVE  FrameR(dialect, p, Pass(acc, Event(kind, index, data)),
                  CountAfter(n, kind), OpenAfter(blocks, kind, index, data))
  <1> DEFINE after == Pass(acc, Event(kind, index, data))
  <1>1. PICK d : PassedAs(acc, kind, index, d, after) /\ (kind \notin TextKinds => d = data)
    BY Passed
  <1> HIDE DEF after
  <1> DEFINE n2 == CountAfter(n, kind)
  <1> DEFINE blocks2 == OpenAfter(blocks, kind, index, data)
  <1>2. CASE dialect = "anthropic"
    <2>1. FrameK(dialect, p, acc.client, n, blocks) /\ n \in Nat
      BY <1>2 DEF FrameR
    <2>2. FrameK(dialect, p, after.client, n2, blocks2)
      BY <1>1, <1>2, <2>1, FrameAnthropic
    <2>3. n2 \in Nat
      BY <2>1 DEF CountAfter
    <2> HIDE DEF n2, blocks2
    <2>4. FrameR(dialect, p, after, n2, blocks2)
      BY <1>2, <2>2, <2>3 DEF FrameR
    <2> QED
      BY <2>4 DEF n2, blocks2, after
  <1>3. CASE dialect = "openai"
    <2>1. FrameR(dialect, p, after, n2, blocks2)
      BY <1>1, <1>3, FrameOpenAI
    <2> QED
      BY <2>1 DEF after
  <1>4. CASE dialect = "responses"
    <2>1. FrameR(dialect, p, after, n2, blocks2)
      BY <1>1, <1>4, FrameResponses
    <2> QED
      BY <2>1 DEF after
  <1> QED
    BY <1>2, <1>3, <1>4 DEF Dialects

\* The same for each thing an event does.
Framed(acc, n, blocks) == FrameR(dialect, provider, acc, n, blocks)

LEMMA FrameStart ==
    ASSUME dialect \in Dialects, NEW acc, NEW n, NEW blocks, Framed(acc, n, blocks),
           dialect = "responses" => blocks = {}, NEW data
    PROVE  /\ data \in {"text", "reasoning"} =>
                 Framed(Pass(acc, Event("content_block_start", n, data)), n + 1,
                        blocks \cup {Slotted(n, data)})
           /\ Framed(Pass(acc, Event("tool_call_start", n, data)), n + 1,
                     blocks \cup {Slotted(n, "tool_use")})
  <1>0. FrameR(dialect, provider, acc, n, blocks)
    BY DEF Framed
  <1>1. ASSUME data \in {"text", "reasoning"}
        PROVE  Framed(Pass(acc, Event("content_block_start", n, data)), n + 1,
                      blocks \cup {Slotted(n, data)})
    <2> DEFINE kind == "content_block_start"
    <2>1. Legal(dialect, provider, n, blocks, kind, n, data)
      BY <1>1 DEF Legal
    <2>2. kind \in FrameKinds
      BY DEF FrameKinds, QuietKinds
    <2>3. CountAfter(n, kind) = n + 1 /\ OpenAfter(blocks, kind, n, data) = blocks \cup {Slotted(n, data)}
      BY DEF CountAfter, OpenAfter
    <2> HIDE DEF kind
    <2>4. FrameR(dialect, provider, Pass(acc, Event(kind, n, data)), CountAfter(n, kind),
                 OpenAfter(blocks, kind, n, data))
      BY <1>0, <2>1, <2>2, FrameEvent
    <2>5. FrameR(dialect, provider, Pass(acc, Event(kind, n, data)), n + 1,
                 blocks \cup {Slotted(n, data)})
      BY <2>3, <2>4
    <2> QED
      BY <2>5, Zenon DEF Framed, kind
  <1>2. Framed(Pass(acc, Event("tool_call_start", n, data)), n + 1,
               blocks \cup {Slotted(n, "tool_use")})
    <2> DEFINE kind == "tool_call_start"
    <2>1. Legal(dialect, provider, n, blocks, kind, n, data)
      BY DEF Legal
    <2>2. kind \in FrameKinds
      BY DEF FrameKinds, QuietKinds
    <2>3. CountAfter(n, kind) = n + 1
          /\ OpenAfter(blocks, kind, n, data) = blocks \cup {Slotted(n, "tool_use")}
      BY DEF CountAfter, OpenAfter
    <2> HIDE DEF kind
    <2>4. FrameR(dialect, provider, Pass(acc, Event(kind, n, data)), CountAfter(n, kind),
                 OpenAfter(blocks, kind, n, data))
      BY <1>0, <2>1, <2>2, FrameEvent
    <2>5. FrameR(dialect, provider, Pass(acc, Event(kind, n, data)), n + 1,
                 blocks \cup {Slotted(n, "tool_use")})
      BY <2>3, <2>4
    <2> QED
      BY <2>5, Zenon DEF Framed, kind
  <1> QED
    BY <1>1, <1>2

LEMMA FrameDelta ==
    ASSUME dialect \in Dialects, NEW acc, NEW n, NEW blocks, Framed(acc, n, blocks),
           NEW kind, NEW index, NEW data,
           \/ kind = "text_delta" /\ HasOpen(blocks, index, "text")
           \/ kind \in {"reasoning_delta", "signature_delta"} /\ HasOpen(blocks, index, "reasoning")
           \/ kind = "tool_call_delta" /\ HasOpen(blocks, index, "tool_use")
           \/ kind \in {"stream_start", "finish", "usage"}
           \/ kind = "stream_end" /\ blocks = {} /\ (Converting(provider) => n # 0)
    PROVE  Framed(Pass(acc, Event(kind, index, data)), n, blocks)
  <1>0. FrameR(dialect, provider, acc, n, blocks)
    BY DEF Framed
  <1>1. Legal(dialect, provider, n, blocks, kind, index, data)
    BY DEF Legal
  <1>2. kind \in FrameKinds
    BY DEF FrameKinds, QuietKinds, TextKinds
  <1>3. CountAfter(n, kind) = n /\ OpenAfter(blocks, kind, index, data) = blocks
    BY DEF CountAfter, OpenAfter
  <1>4. FrameR(dialect, provider, Pass(acc, Event(kind, index, data)), CountAfter(n, kind),
               OpenAfter(blocks, kind, index, data))
    BY <1>0, <1>1, <1>2, FrameEvent
  <1> QED
    BY <1>3, <1>4 DEF Framed

LEMMA FrameEnd ==
    ASSUME dialect \in Dialects, NEW acc, NEW n, NEW blocks, Framed(acc, n, blocks),
           NEW index, \E b \in blocks : b.slot = index
    PROVE  Framed(Pass(acc, End(index)), n, Without(blocks, index))
  <1> DEFINE kind == "content_block_end"
  <1>0. FrameR(dialect, provider, acc, n, blocks)
    BY DEF Framed
  <1>1. \A data : Legal(dialect, provider, n, blocks, kind, index, data)
    BY DEF Legal
  <1>2. kind \in FrameKinds
    BY DEF FrameKinds, QuietKinds
  <1>3. \A data : CountAfter(n, kind) = n /\ OpenAfter(blocks, kind, index, data) = Without(blocks, index)
    BY DEF CountAfter, OpenAfter
  <1> HIDE DEF kind
  <1>4. ASSUME NEW data
        PROVE  FrameR(dialect, provider, Pass(acc, Event(kind, index, data)), n, Without(blocks, index))
    <2>1. FrameR(dialect, provider, Pass(acc, Event(kind, index, data)), CountAfter(n, kind),
                 OpenAfter(blocks, kind, index, data))
      BY <1>0, <1>1, <1>2, FrameEvent
    <2> QED
      BY <1>3, <2>1
  <1>5. PICK data : End(index) = Event(kind, index, data)
    BY Zenon DEF End, kind
  <1> QED
    BY <1>4, <1>5 DEF Framed

\* The blocks a parser has open.
TextBlock(ps) == IF ps.text THEN {Slotted(ps.block, "text")} ELSE {}
CallBlocks(prov, ps) ==
    IF prov = "openai" THEN {Slotted(ps.tools[i].block, "tool_use") : i \in DOMAIN ps.tools} ELSE {}
OpenType(s) == IF OpenOf(s) = "thinking" THEN "reasoning" ELSE OpenOf(s)
BlocksOf(prov, ps, s) ==
    IF prov = "anthropic"
    THEN IF OpenOf(s) = "none" THEN {} ELSE {Slotted(ps.block, OpenType(s))}
    ELSE TextBlock(ps) \cup CallBlocks(prov, ps)

\* Each call has a block of its own, opened before the text that is open.
ParserFrames(ps) ==
    /\ \A i \in DOMAIN ps.tools : /\ ps.tools[i].block <= ps.block
                                  /\ ps.text => ps.tools[i].block < ps.block
    /\ \A i, j \in DOMAIN ps.tools : i # j => ps.tools[i].block # ps.tools[j].block

LEMMA FrameCloseText ==
    ASSUME dialect \in Dialects, NEW ps, ParserTyped(ps), ParserFrames(ps), NEW acc, NEW n,
           Framed(acc, n, TextBlock(ps) \cup CallBlocks(provider, ps))
    PROVE  Framed(PassAll(acc, CloseText(ps)), n, CallBlocks(provider, ps))
  <1> DEFINE calls == CallBlocks(provider, ps)
  <1>1. CASE ps.text
    <2> DEFINE blocks == TextBlock(ps) \cup calls
    <2>1. CloseText(ps) = <<End(ps.block)>> /\ TextBlock(ps) = {Slotted(ps.block, "text")}
      BY <1>1 DEF CloseText, TextBlock
    <2>2. PassAll(acc, CloseText(ps)) = Pass(acc, End(ps.block))
      BY <2>1, PassAllFew
    <2>3. \E b \in blocks : b.slot = ps.block
      BY <2>1, SlottedIs
    <2>4. \A b \in calls : b.slot # ps.block
      <3> SUFFICES ASSUME NEW b \in calls PROVE b.slot # ps.block
        OBVIOUS
      <3>1. PICK i \in DOMAIN ps.tools : b = Slotted(ps.tools[i].block, "tool_use")
        BY DEF CallBlocks
      <3>2. ps.tools[i].block < ps.block /\ b.slot = ps.tools[i].block
        BY <1>1, <3>1, SlottedIs DEF ParserFrames
      <3>3. ps.block \in Int /\ ps.tools[i].block \in Int
        <4>1. ps.tools \in Seq(Calls) /\ ps.block \in Int
          BY DEF ParserTyped, None
        <4>2. ps.tools[i] \in Calls
          BY <4>1
        <4> QED
          BY <4>1, <4>2 DEF Calls
      <3> QED
        BY <3>2, <3>3
    <2>5. Without(blocks, ps.block) = calls
      <3> HIDE DEF calls
      <3> QED
        BY <2>1, <2>4, SlottedIs DEF Without
    <2>6. Framed(Pass(acc, End(ps.block)), n, Without(blocks, ps.block))
      <3> HIDE DEF calls
      <3> QED
        BY <2>3, FrameEnd DEF calls
    <2> QED
      BY <2>2, <2>5, <2>6
  <1>2. CASE ~ps.text
    <2>1. CloseText(ps) = <<>> /\ TextBlock(ps) = {}
      BY <1>2 DEF CloseText, TextBlock
    <2>2. PassAll(acc, CloseText(ps)) = acc
      BY <2>1, PassAllFew
    <2> HIDE DEF calls
    <2>3. TextBlock(ps) \cup calls = calls
      BY <2>1
    <2> QED
      BY <2>2, <2>3 DEF calls
  <1> QED
    BY <1>1, <1>2

\* A call more: its block is opened after every other.
LEMMA FramesWithCall ==
    ASSUME NEW ps, ParserTyped(ps), ParserFrames(ps), NEW tool \in Int
    PROVE  LET q == WithCall(ps, tool)
           IN  /\ ParserFrames(q) /\ q.block = ps.block + 1 /\ ~q.text
               /\ TextBlock(q) = {}
               /\ \A prov : CallBlocks(prov, q) =
                     IF prov = "openai"
                     THEN CallBlocks(prov, ps) \cup {Slotted(ps.block + 1, "tool_use")} ELSE {}
               /\ q.reason = ps.reason /\ q.usage = ps.usage
  <1> DEFINE call == [tool |-> tool, block |-> ps.block + 1]
  <1> DEFINE q == WithCall(ps, tool)
  <1> DEFINE len == Len(ps.tools)
  <1>1. ps.tools \in Seq(Calls) /\ ps.block \in Int /\ ps.block + 1 \in Nat
    BY DEF ParserTyped, None
  <1>2. call \in Calls /\ call.block = ps.block + 1
    BY <1>1 DEF Calls
  <1>3. /\ q.block = ps.block + 1 /\ ~q.text /\ q.tools = Append(ps.tools, call)
        /\ q.reason = ps.reason /\ q.usage = ps.usage
    <2> DEFINE more == Append(ps.tools, call)
    <2>1. q = [ps EXCEPT !.block = ps.block + 1, !.text = FALSE, !.tools = more]
      BY DEF WithCall
    <2> HIDE DEF more, q
    <2>2. /\ q.block = ps.block + 1 /\ ~q.text /\ q.tools = more
          /\ q.reason = ps.reason /\ q.usage = ps.usage
      BY <2>1 DEF ParserTyped
    <2> QED
      BY <2>2 DEF more
  <1> HIDE DEF call, q
  <1>4. /\ DOMAIN ps.tools = 1..len /\ DOMAIN q.tools = 1..(len + 1) /\ len \in Nat
        /\ q.tools[len + 1] = call /\ \A i \in 1..len : q.tools[i] = ps.tools[i]
    <2>1. IsSeq(ps.tools)
      BY <1>1 DEF IsSeq
    <2> QED
      BY <1>3, <2>1, IsSeqAppend
  <1> HIDE DEF len
  <1>5. \A i \in 1..len : ps.tools[i].block \in Nat /\ ps.tools[i].block <= ps.block
    <2>1. \A i \in 1..len : ps.tools[i] \in Calls
      BY <1>1, <1>4
    <2> QED
      BY <1>4, <2>1 DEF Calls, ParserFrames
  <1>6. \A i \in 1..(len + 1) : i = len + 1 \/ i \in 1..len
    BY <1>4
  <1>7. ParserFrames(q)
    <2>1. \A i \in DOMAIN q.tools : q.tools[i].block <= q.block
      BY <1>1, <1>2, <1>3, <1>4, <1>5, <1>6
    <2>2. ASSUME NEW i \in 1..(len + 1), NEW j \in 1..(len + 1), i # j
          PROVE  q.tools[i].block # q.tools[j].block
      <3>1. CASE i \in 1..len /\ j \in 1..len
        BY <1>4, <2>2, <3>1 DEF ParserFrames
      <3>2. q.tools[len + 1].block = ps.block + 1
        BY <1>2, <1>4
      <3>3. \A k \in 1..len : q.tools[k].block \in Nat /\ q.tools[k].block <= ps.block
        BY <1>4, <1>5
      <3>4. CASE i = len + 1 /\ j \in 1..len
        BY <1>1, <3>2, <3>3, <3>4
      <3>5. CASE j = len + 1 /\ i \in 1..len
        BY <1>1, <3>2, <3>3, <3>5
      <3> QED
        BY <1>6, <2>2, <3>1, <3>4, <3>5
    <2> QED
      BY <1>3, <1>4, <2>1, <2>2 DEF ParserFrames
  <1>8. {Slotted(q.tools[i].block, "tool_use") : i \in DOMAIN q.tools}
          = {Slotted(ps.tools[i].block, "tool_use") : i \in DOMAIN ps.tools}
            \cup {Slotted(ps.block + 1, "tool_use")}
    <2>1. \A i \in 1..len : i \in 1..(len + 1)
      BY <1>4
    <2>2. len + 1 \in 1..(len + 1)
      BY <1>4
    <2> QED
      BY <1>2, <1>4, <1>6, <2>1, <2>2
  <1>9. ASSUME NEW prov
        PROVE  CallBlocks(prov, q) =
                  IF prov = "openai"
                  THEN CallBlocks(prov, ps) \cup {Slotted(ps.block + 1, "tool_use")} ELSE {}
    BY <1>8 DEF CallBlocks
  <1>10. TextBlock(q) = {}
    BY <1>3 DEF TextBlock
  <1>11. \A prov : CallBlocks(prov, q) =
            IF prov = "openai"
            THEN CallBlocks(prov, ps) \cup {Slotted(ps.block + 1, "tool_use")} ELSE {}
    BY <1>9
  <1> QED
    BY <1>3, <1>7, <1>10, <1>11 DEF q

\* The tail closes the calls' blocks, one after the other.
LEMMA FrameTailEnds ==
    ASSUME dialect \in Dialects, NEW ps, ParserTyped(ps), ParserFrames(ps), NEW acc, NEW n,
           Framed(acc, n, CallBlocks(provider, ps))
    PROVE  Framed(PassAll(acc, TailEnds(ps)), n, {})
  <1>1. CASE provider # "openai"
    <2>1. PassAll(acc, TailEnds(ps)) = acc /\ CallBlocks(provider, ps) = {}
      BY <1>1, PassAllFew DEF TailEnds, CallBlocks
    <2> QED
      BY <2>1
  <1>2. CASE provider = "openai"
    <2> DEFINE len == Len(ps.tools)
    <2> DEFINE at(i) == ps.tools[i].block
    <2> DEFINE left(k) == {Slotted(at(i), "tool_use") : i \in (k + 1)..len}
    <2> DEFINE ends == [i \in 1..len |-> End(at(i))]
    <2>1. len \in Nat /\ DOMAIN ps.tools = 1..len
      BY DEF ParserTyped
    <2>2. TailEnds(ps) = ends
      BY <1>2, <2>1 DEF TailEnds
    <2>3. Len(ends) = len /\ \A i \in 1..len : ends[i] = End(at(i))
      <3>1. ends \in Seq({End(at(i)) : i \in 1..len})
        BY <2>1
      <3>2. DOMAIN ends = 1..len
        OBVIOUS
      <3> HIDE DEF ends
      <3>3. Len(ends) = len
        BY <2>1, <3>1, <3>2, LenProperties
      <3> QED
        BY <3>3 DEF ends
    <2>4. \A i, j \in 1..len : i # j => at(i) # at(j)
      BY <2>1 DEF ParserFrames
    <2>5. CallBlocks(provider, ps) = left(0)
      BY <1>2, <2>1 DEF CallBlocks
    <2>6. left(len) = {}
      BY <2>1
    <2> HIDE DEF ends, len
    <2>7. PICK h : Passes(acc, ends, h) /\ h[len] = PassAll(acc, ends)
      BY <2>1, <2>3, PassTable
    <2> DEFINE Good(k) == Framed(h[k], n, left(k))
    <2> DEFINE R == {k \in Nat : k <= len => Good(k)}
    <2>8. Good(0)
      <3>1. h[0] = acc
        BY <2>7 DEF Passes
      <3>2. Framed(acc, n, left(0))
        BY <2>5
      <3> HIDE DEF left
      <3> QED
        BY <3>1, <3>2
    <2>9. ASSUME NEW k \in Nat, k + 1 <= len, Good(k) PROVE Good(k + 1)
      <3>1. k + 1 \in 1..len /\ (k + 1) - 1 = k /\ k + 1 \in (k + 1)..len
        BY <2>1, <2>9
      <3>2. h[k + 1] = Pass(h[k], End(at(k + 1)))
        <4>1. h[k + 1] = Pass(h[(k + 1) - 1], ends[k + 1])
          BY <2>3, <2>7, <3>1 DEF Passes
        <4> HIDE DEF at
        <4> QED
          BY <2>3, <3>1, <4>1
      <3>3. Slotted(at(k + 1), "tool_use") \in left(k)
        BY <3>1
      <3>4. Without(left(k), at(k + 1)) = left(k + 1)
        <4>1. \A i \in (k + 1)..len : i = k + 1 \/ i \in (k + 2)..len
          BY <2>1
        <4>2. \A i \in (k + 2)..len : i \in (k + 1)..len /\ i \in 1..len /\ i # k + 1
          BY <2>1
        <4>3. \A i \in (k + 2)..len : at(i) # at(k + 1)
          BY <2>4, <3>1, <4>2
        <4>4. (k + 1) + 1 = k + 2
          OBVIOUS
        <4>5. left(k + 1) = {Slotted(at(i), "tool_use") : i \in (k + 2)..len}
          BY <4>4
        <4> HIDE DEF at
        <4> QED
          BY <4>1, <4>2, <4>3, <4>5, SlottedIs DEF Without
      <3>5. Framed(h[k], n, left(k))
        BY <2>9
      <3> DEFINE b == at(k + 1)
      <3> HIDE DEF left, at
      <3>6. Framed(Pass(h[k], End(b)), n, Without(left(k), b))
        <4>1. \E x \in left(k) : x.slot = b
          BY <3>3, SlottedIs
        <4> HIDE DEF b
        <4> QED
          BY <3>5, <4>1, FrameEnd
      <3> QED
        BY <3>2, <3>4, <3>6
    <2> HIDE DEF Good
    <2>10. 0 \in R /\ R \in SUBSET Nat
      BY <2>8
    <2>11. ASSUME NEW k \in R PROVE k + 1 \in R
      BY <2>1, <2>9
    <2>12. R = Nat
      <3> HIDE DEF R
      <3> QED
        BY <2>10, <2>11, Induction
    <2>13. Good(len)
      BY <2>1, <2>12
    <2>14. Framed(h[len], n, left(len))
      BY <2>13 DEF Good
    <2> HIDE DEF left
    <2> QED
      BY <2>2, <2>6, <2>7, <2>14
  <1> QED
    BY <1>1, <1>2

\* The whole tail, from any state of a converting parser.
LEMMA FrameTail ==
    ASSUME dialect \in Dialects, NEW ps, ParserTyped(ps), ParserFrames(ps), NEW acc,
           Framed(acc, ps.block + 1, TextBlock(ps) \cup CallBlocks(provider, ps))
    PROVE  \E n : Framed(PassAll(acc, ParserTail(ps)), n, {})
  <1> DEFINE n == ps.block + 1
  <1> DEFINE s1 == PassAll(acc, CloseText(ps))
  <1> DEFINE s2 == PassAll(s1, TailEnds(ps))
  <1> DEFINE s3 == PassAll(s2, TailEmpty(ps))
  <1>1. Framed(s1, n, CallBlocks(provider, ps))
    BY FrameCloseText
  <1>2. Framed(s2, n, {})
    <2> HIDE DEF s1
    <2> QED
      BY <1>1, FrameTailEnds
  <1>3. \E k : Framed(s3, k, {}) /\ k # 0
    <2> HIDE DEF s2
    <2>1. CASE ps.block = None
      <3>1. n = 0 /\ TailEmpty(ps) = <<Event("content_block_start", 0, "text"), End(0)>>
        BY <2>1 DEF TailEmpty, Start, None
      <3> DEFINE e1 == Event("content_block_start", 0, "text")
      <3> DEFINE e2 == End(0)
      <3>2. s3 = Pass(Pass(s2, e1), e2)
        <4> HIDE DEF e1, e2
        <4> QED
          BY <3>1, PassAllFew DEF e1, e2
      <3>3. Framed(Pass(s2, e1), 0 + 1, {} \cup {Slotted(0, "text")})
        <4>1. Framed(s2, 0, {})
          BY <1>2, <3>1
        <4> QED
          BY <4>1, FrameStart
      <3>4. 0 + 1 = 1 /\ {} \cup {Slotted(0, "text")} = {Slotted(0, "text")}
        OBVIOUS
      <3>5. Framed(Pass(Pass(s2, e1), e2), 1, Without({Slotted(0, "text")}, 0))
        <4> DEFINE s == Pass(s2, e1)
        <4>1. Framed(s, 1, {Slotted(0, "text")})
          BY <3>3, <3>4
        <4> HIDE DEF s
        <4>2. \E b \in {Slotted(0, "text")} : b.slot = 0
          BY SlottedIs
        <4>3. Framed(Pass(s, e2), 1, Without({Slotted(0, "text")}, 0))
          BY <4>1, <4>2, FrameEnd
        <4> QED
          BY <4>3 DEF s
      <3>6. Without({Slotted(0, "text")}, 0) = {}
        BY SlottedIs DEF Without
      <3> HIDE DEF e1, e2, s3
      <3>7. Framed(s3, 1, {})
        BY <3>2, <3>5, <3>6
      <3> QED
        BY <3>7
    <2>2. CASE ps.block # None
      <3>1. TailEmpty(ps) = <<>>
        BY <2>2 DEF TailEmpty
      <3>2. s3 = s2
        BY <3>1, PassAllFew
      <3>3. n # 0
        BY <2>2 DEF ParserTyped, None
      <3> HIDE DEF n, s3
      <3> QED
        BY <1>2, <3>2, <3>3
    <2> QED
      BY <2>1, <2>2
  <1>4. PICK k : Framed(s3, k, {}) /\ k # 0
    BY <1>3
  <1>5. PassAll(acc, ParserTail(ps)) = PassAll(s3, TailClosing(ps))
    BY ParserTailIs
  <1> HIDE DEF s3, n
  <1> DEFINE e1 == Event("finish", None, StopReason(ps))
  <1> DEFINE e2 == Event("usage", None, ps.usage)
  <1>6. PICK nil : nil = ""
    OBVIOUS
  <1> DEFINE e3 == Event("stream_end", None, nil)
  <1>7. PassAll(s3, TailClosing(ps)) = Pass(Pass(Pass(s3, e1), e2), e3)
    <2>1. TailClosing(ps) = <<e1, e2, e3>>
      BY <1>6 DEF TailClosing
    <2> HIDE DEF e1, e2, e3
    <2>2. PassAll(s3, <<e1, e2, e3>>) = Pass(Pass(Pass(s3, e1), e2), e3)
      BY PassAllThree
    <2> QED
      BY <2>1, <2>2
  <1>8. Framed(Pass(s3, e1), k, {})
    BY <1>4, FrameDelta
  <1> DEFINE t1 == Pass(s3, e1)
  <1>9. Framed(Pass(t1, e2), k, {})
    <2> HIDE DEF t1
    <2> QED
      BY <1>8, FrameDelta DEF t1
  <1> DEFINE t2 == Pass(t1, e2)
  <1>10. Framed(Pass(t2, e3), k, {})
    <2> HIDE DEF t2
    <2> QED
      BY <1>4, <1>9, FrameDelta DEF t2
  <1> HIDE DEF e1, e2, e3
  <1> QED
    BY <1>5, <1>7, <1>10

-----------------------------------------------------------------------------
(* The frames of a whole stream. *)

\* A passthrough stream has no frames of its own.
RawFrames(c) == IsSeq(c) /\ \A i \in DOMAIN c : c[i].type \in {"header", "bytes"}

FrameInv ==
    /\ provider = "raw" => RawFrames(client)
    /\ Converting(provider) => ParserFrames(parser)
    /\ provider # "raw" /\ OneBlockAtATime =>
          /\ ~ended => Framed(Pending, parser.block + 1, BlocksOf(provider, parser, sent))
          /\ ended => \E n, blocks : Framed(Pending, n, blocks)

\* A chunk whose events keep the frames.
LEMMA FrameTaken ==
    ASSUME StreamTyped, FrameInv, provider # "raw", ~ended, NEW chunk, NEW parsed,
           Take(chunk, parsed), IsEvents(parsed.events),
           Converting(provider) => ParserFrames(parsed.parser),
           OneBlockAtATime => Framed(PassAll(Pending, parsed.events), parsed.parser.block + 1,
                                     BlocksOf(provider, parsed.parser, Append(sent, chunk)))
    PROVE  FrameInv'
  <1>1. Len(parsed.events) \in Nat
    BY EventsAre
  <1>2. /\ sent' = Append(sent, chunk) /\ parser' = parsed.parser
        /\ Pending' = PassAll(Pending, parsed.events)
        /\ provider' = provider /\ dialect' = dialect /\ warden' = warden /\ ended' = ended
    BY <1>1, TakeIs
  <1> DEFINE s == Append(sent, chunk)
  <1> DEFINE acc == PassAll(Pending, parsed.events)
  <1> DEFINE q == parsed.parser
  <1>3. OneBlockAtATime' = OneBlockAtATime
    BY <1>2 DEF OneBlockAtATime
  <1>4. OneBlockAtATime => FrameR(dialect, provider, acc, q.block + 1, BlocksOf(provider, q, s))
    BY DEF Framed
  <1> HIDE DEF s, acc, q
  <1>5. sent' = s /\ parser' = q /\ Pending' = acc
    BY <1>2 DEF s, acc, q
  <1>6. Converting(provider) => ParserFrames(q)
    BY DEF q
  <1> QED
    BY <1>2, <1>3, <1>4, <1>5, <1>6 DEF FrameInv, Framed

LEMMA FrameInit == Init => FrameInv
  <1> SUFFICES ASSUME Init PROVE FrameInv
    OBVIOUS
  <1>1. sent = <<>> /\ client = <<>> /\ parser = InitParser /\ ~ended
        /\ writer = InitWriter(dialect)
    BY DEF Init
  <1>2. /\ parser.block = None /\ parser.text = FALSE /\ parser.tools = <<>>
        /\ parser.block + 1 = 0
    <2>1. PICK nil : nil = ""
      OBVIOUS
    <2>2. parser = [block |-> None, text |-> FALSE, tools |-> <<>>, reason |-> nil, usage |-> 0]
      BY <1>1, <2>1, Zenon DEF InitParser
    <2> QED
      BY <2>2 DEF None
  <1>3. IsSeq(client) /\ DOMAIN client = {} /\ Len(client) = 0
    BY <1>1, IsSeqFew
  <1>4. DOMAIN parser.tools = {} /\ DOMAIN sent = {}
    BY <1>1, <1>2, IsSeqFew
  <1>5. ParserFrames(parser)
    BY <1>4 DEF ParserFrames
  <1>6. BlocksOf(provider, parser, sent) = {}
    BY <1>1, <1>2, <1>4 DEF BlocksOf, TextBlock, CallBlocks, OpenOf, StartsOf
  <1>7. FrameK(dialect, provider, client, 0, {})
    <2>1. 1..((0 + 1) - 1) = {}
      OBVIOUS
    <2>2. Earlier(client, 0 + 1) = {}
      BY <2>1 DEF Earlier
    <2>3. OpenBlocks(client, 0 + 1) = {}
      BY <2>2 DEF OpenBlocks, StillOpen
    <2>4. Cardinality({}) = 0
      BY FS_EmptySet
    <2> QED
      BY <1>3, <2>2, <2>3, <2>4 DEF FrameK
  <1>8. Pending.writer = writer /\ Pending.client = client
    BY DEF Pending
  <1>9. provider # "raw" => Framed(Pending, 0, {})
    <2> SUFFICES ASSUME provider # "raw" PROVE FrameR(dialect, provider, Pending, 0, {})
      BY DEF Framed
    <2>1. ASSUME dialect = "openai"
          PROVE  LET at == writer.byBlock
                 IN  DOMAIN at = {} /\ IsFiniteSet(DOMAIN at) /\ Cardinality(DOMAIN at) = 0
      <3>1. writer.byBlock = <<>>
        BY <1>1, <2>1 DEF InitWriter, InitOpenAI
      <3>2. DOMAIN <<>> = {}
        OBVIOUS
      <3> QED
        BY <3>1, <3>2, FS_EmptySet
    <2>2. ASSUME dialect = "responses"
          PROVE  ResponsesShape(writer) /\ writer.cur = <<>> /\ writer.index = 0
      <3>1. writer = Triple(<<>>, 0, 0)
        BY <1>1, <2>2 DEF InitWriter, InitResponses, Triple
      <3> DEFINE w == Triple(<<>>, 0, 0)
      <3>2. ResponsesShape(w) /\ w.cur = <<>> /\ w.index = 0
        BY TripleIs
      <3> HIDE DEF w
      <3>3. writer = w
        BY <3>1 DEF w
      <3> QED
        BY <3>2, <3>3
    <2>3. CASE dialect = "openai"
      <3> DEFINE at == writer.byBlock
      <3>1. DOMAIN at = {} /\ IsFiniteSet(DOMAIN at) /\ Cardinality(DOMAIN at) = 0
        BY <2>1, <2>3
      <3>2. {Slotted(at[b], "tool_use") : b \in DOMAIN at} = {}
        BY <3>1
      <3>3. dialect # "anthropic" /\ dialect # "responses"
        BY <2>3
      <3> QED
        BY <1>7, <1>8, <3>1, <3>2, <3>3 DEF FrameR
    <2>4. CASE dialect # "openai"
      BY <1>7, <1>8, <2>2, <2>4 DEF FrameR
    <2> QED
      BY <2>3, <2>4
  <1>10. provider = "raw" => RawFrames(client)
    BY <1>3 DEF RawFrames
  <1> QED
    BY <1>1, <1>2, <1>5, <1>6, <1>9, <1>10 DEF FrameInv

\* A message outside the frames changes nothing.
LEMMA FrameMore ==
    ASSUME dialect \in Dialects, NEW p, NEW acc, NEW n, NEW blocks, FrameR(dialect, p, acc, n, blocks),
           NEW type, type \notin FrameTypes, NEW slot, NEW what, NEW data,
           NEW more, more.writer = acc.writer,
           \/ more.client = acc.client
           \/ more.client = Append(acc.client, Message(type, slot, what, data))
    PROVE  FrameR(dialect, p, more, n, blocks)
  <1>1. ASSUME NEW k, NEW bs, FrameK(dialect, p, acc.client, k, bs)
        PROVE  FrameK(dialect, p, more.client, k, bs)
    <2>1. CASE more.client = acc.client
      BY <1>1, <2>1
    <2>2. CASE more.client = Append(acc.client, Message(type, slot, what, data))
      BY <1>1, <2>2, FrameMessage
    <2> QED
      BY <2>1, <2>2
  <1>2. \A k, bs : FrameK(dialect, p, acc.client, k, bs) => FrameK(dialect, p, more.client, k, bs)
    BY <1>1
  <1> QED
    BY <1>2, Zenon DEF FrameR

LEMMA FrameOpen == StreamTyped /\ FrameInv /\ Open => FrameInv'
  <1> SUFFICES ASSUME StreamTyped, FrameInv, Open PROVE FrameInv'
    OBVIOUS
  <1> DEFINE start == [Pending EXCEPT !.client = Prelude(dialect)]
  <1> DEFINE first == IF provider = "raw" THEN <<>> ELSE <<Event("stream_start", None, "")>>
  <1> DEFINE after == PassAll(start, first)
  <1>1. /\ ~ended /\ client = <<>>
        /\ client' = after.client /\ writer' = after.writer
        /\ UNCHANGED <<provider, dialect, warden, sent, parser, ended>>
    BY DEF Open
  <1>2. /\ start.writer = Pending.writer /\ start.client = Prelude(dialect)
        /\ Pending.client = client
    BY DEF Pending
  <1> HIDE DEF start
  <1>3. \A type, nil : Message(type, None, nil, nil).type = type
    BY MessageIs
  <1>4. CASE provider = "raw"
    <2>1. after = start /\ dialect = "raw"
      BY <1>4, PassAllFew, PairTyped
    <2> DEFINE m == Message("header", None, "", "")
    <2>2. Prelude(dialect) = <<m>> /\ m.type = "header"
      BY <1>3, <2>1 DEF Prelude
    <2> DEFINE c == <<m>>
    <2> HIDE DEF m, after
    <2>3. IsSeq(c) /\ \A i \in DOMAIN c : c[i] = m
      <3>1. DOMAIN c = 1..1 /\ c[1] = m /\ IsSeq(c)
        BY IsSeqFew
      <3> QED
        BY <3>1
    <2>4. client' = c
      BY <1>1, <1>2, <2>1, <2>2
    <2> HIDE DEF c
    <2>5. RawFrames(client')
      BY <2>2, <2>3, <2>4 DEF RawFrames
    <2>6. provider' = "raw"
      BY <1>1, <1>4
    <2> QED
      BY <2>5, <2>6 DEF FrameInv, RawFrames, Converting
  <1>5. CASE provider # "raw"
    <2> DEFINE n == parser.block + 1
    <2> DEFINE blocks == BlocksOf(provider, parser, sent)
    <2>1. dialect \in Dialects
      BY <1>5, PairTyped
    <2>2. Converting(provider) => ParserFrames(parser)
      BY DEF FrameInv
    <2>3. ASSUME OneBlockAtATime PROVE Framed(after, n, blocks)
      <3>1. Framed(Pending, n, blocks)
        BY <1>1, <1>5, <2>3 DEF FrameInv
      <3>2. \E type, nil : /\ type \notin FrameTypes
                           /\ \/ Prelude(dialect) = <<>>
                              \/ Prelude(dialect) = <<Message(type, None, nil, nil)>>
        <4> DEFINE nil == ""
        <4>1. \A type \in {"role", "response.created"} : type \notin FrameTypes
          BY DEF FrameTypes, OpenTypes, CloseTypes, DeltaTypes, EndTypes
        <4>2. \/ Prelude(dialect) = <<>>
              \/ Prelude(dialect) = <<Message("role", None, nil, nil)>>
              \/ Prelude(dialect) = <<Message("response.created", None, nil, nil)>>
          BY <2>1 DEF Prelude, Dialects
        <4> HIDE DEF nil
        <4> QED
          BY <4>1, <4>2
      <3>3. PICK type, nil : /\ type \notin FrameTypes
                             /\ \/ Prelude(dialect) = <<>>
                                \/ Prelude(dialect) = <<Message(type, None, nil, nil)>>
        BY <3>2
      <3> DEFINE m == Message(type, None, nil, nil)
      <3> HIDE DEF n, blocks, after, m
      <3>4. start.client = Pending.client \/ start.client = Append(Pending.client, m)
        <4>1. Append(<<>>, m) = <<m>>
          OBVIOUS
        <4> QED
          BY <1>1, <1>2, <3>3, <4>1 DEF m
      <3>5. Framed(start, n, blocks)
        BY <1>2, <2>1, <3>1, <3>3, <3>4, FrameMore DEF Framed, m
      <3>6. PICK data : data = ""
        OBVIOUS
      <3>7. after = Pass(start, Event("stream_start", None, data))
        BY <1>5, <3>6, PassAllFew DEF after
      <3> QED
        BY <2>1, <3>5, <3>7, FrameDelta
    <2>4. ASSUME OneBlockAtATime PROVE FrameR(dialect, provider, Pending', n, blocks)
      <3>1. FrameR(dialect, provider, after, n, blocks)
        BY <2>3, <2>4 DEF Framed
      <3> HIDE DEF n, blocks, after
      <3>2. Pending'.writer = after.writer /\ Pending'.client = after.client
        BY <1>1 DEF Pending
      <3>3. PICK type : type \notin FrameTypes
        <4>1. "role" \notin FrameTypes
          BY DEF FrameTypes, OpenTypes, CloseTypes, DeltaTypes, EndTypes
        <4> QED
          BY <4>1
      <3> QED
        BY <2>1, <3>1, <3>2, <3>3, FrameMore
    <2>5. OneBlockAtATime' = OneBlockAtATime
      BY <1>1 DEF OneBlockAtATime
    <2> HIDE DEF after
    <2>6. /\ n = parser'.block + 1 /\ blocks = BlocksOf(provider', parser', sent')
          /\ ~ended'
      BY <1>1
    <2> HIDE DEF n, blocks
    <2> QED
      BY <1>1, <1>5, <2>2, <2>4, <2>5, <2>6 DEF FrameInv, Framed
  <1> QED
    BY <1>4, <1>5

\* Outside an Anthropic provider what was sent does not tell which blocks are open.
LEMMA ParserBlocks ==
    ASSUME NEW prov, prov # "anthropic", NEW ps, NEW s
    PROVE  BlocksOf(prov, ps, s) = TextBlock(ps) \cup CallBlocks(prov, ps)
  BY DEF BlocksOf

\* One block at a time leaves no call of the Responses dialect open.
LEMMA NoCallOpen ==
    ASSUME OneBlockAtATime, dialect = "responses", NEW ps
    PROVE  CallBlocks(provider, ps) = {}
  BY DEF OneBlockAtATime, CallBlocks

LEMMA FrameSendText == StreamTyped /\ FrameInv /\ SendText => FrameInv'
  <1> SUFFICES ASSUME StreamTyped, FrameInv, SendText PROVE FrameInv'
    OBVIOUS
  <1>1. /\ provider \in {"openai", "gemini"} /\ ~ended /\ ParserTyped(parser)
        /\ provider # "raw" /\ provider # "anthropic" /\ Converting(provider)
    BY DEF SendText, Room, Streaming, StreamTyped, Converting
  <1>2. PICK f \in Fragments : Take(Chunk("text", None, f), ParseText(parser, f))
    BY DEF SendText
  <1> DEFINE chunk == Chunk("text", None, f)
  <1> DEFINE r == ParseText(parser, f)
  <1> DEFINE q == r.parser
  <1> DEFINE calls == CallBlocks(provider, parser)
  <1> DEFINE b == parser.block + 1
  <1>3. Take(chunk, r) /\ dialect \in Dialects /\ ParserFrames(parser)
    BY <1>1, <1>2, PairTyped DEF FrameInv
  <1>4. OneBlockAtATime => Framed(Pending, b, TextBlock(parser) \cup calls)
    BY <1>1, ParserBlocks DEF FrameInv
  <1>5. CASE parser.text
    <2> DEFINE e == Event("text_delta", parser.block, f)
    <2>1. r.events = <<e>> /\ q = parser
      BY <1>5 DEF ParseText
    <2>2. IsEvents(r.events) /\ PassAll(Pending, r.events) = Pass(Pending, e)
      <3> HIDE DEF e, r
      <3> QED
        BY <2>1, EventsAre, PassAllFew
    <2>3. ASSUME OneBlockAtATime PROVE Framed(Pass(Pending, e), b, TextBlock(parser) \cup calls)
      <3>1. HasOpen(TextBlock(parser) \cup calls, parser.block, "text")
        BY <1>5, SlottedIs DEF HasOpen, TextBlock
      <3> HIDE DEF calls, b
      <3> QED
        BY <1>3, <1>4, <2>3, <3>1, FrameDelta
    <2> HIDE DEF e, r, chunk
    <2>4. \A s : BlocksOf(provider, q, s) = TextBlock(parser) \cup calls
      BY <1>1, <2>1, ParserBlocks
    <2>5. q.block + 1 = b
      BY <2>1
    <2> HIDE DEF calls, b, q
    <2>6. OneBlockAtATime => Framed(PassAll(Pending, r.events), q.block + 1,
                                    BlocksOf(provider, q, Append(sent, chunk)))
      BY <2>2, <2>3, <2>4, <2>5
    <2> QED
      BY <1>1, <1>3, <2>1, <2>2, <2>6, FrameTaken DEF q
  <1>6. CASE ~parser.text
    <2> DEFINE e1 == Event("content_block_start", b, "text")
    <2> DEFINE e2 == Event("text_delta", b, f)
    <2>1. r.events = <<e1, e2>> /\ q = [parser EXCEPT !.block = b, !.text = TRUE]
      BY <1>6 DEF ParseText, Start
    <2>2. IsEvents(r.events) /\ PassAll(Pending, r.events) = Pass(Pass(Pending, e1), e2)
      <3> HIDE DEF e1, e2, r, q
      <3>1. r.events = <<e1, e2>>
        BY <2>1
      <3>2. IsEvents(<<e1, e2>>)
        BY EventsAre
      <3>3. PassAll(Pending, <<e1, e2>>) = Pass(Pass(Pending, e1), e2)
        BY PassAllTwo
      <3> QED
        BY <3>1, <3>2, <3>3
    <2>3. q.block = b /\ q.text /\ q.tools = parser.tools /\ b \in Nat
      <3>1. b \in Nat
        BY <1>1 DEF ParserTyped, None
      <3> HIDE DEF b, r
      <3> QED
        BY <1>1, <2>1, <3>1 DEF ParserTyped
    <2>4. TextBlock(parser) = {} /\ TextBlock(q) = {Slotted(b, "text")} /\ CallBlocks(provider, q) = calls
      BY <1>6, <2>3 DEF TextBlock, CallBlocks
    <2>5. ASSUME OneBlockAtATime
          PROVE  Framed(Pass(Pass(Pending, e1), e2), b + 1, TextBlock(q) \cup calls)
      <3>1. Framed(Pending, b, calls)
        BY <1>4, <2>4, <2>5
      <3>2. dialect = "responses" => calls = {}
        BY <2>5, NoCallOpen
      <3> HIDE DEF calls, b, q
      <3>3. Framed(Pass(Pending, e1), b + 1, calls \cup {Slotted(b, "text")})
        BY <1>3, <3>1, <3>2, FrameStart
      <3>4. HasOpen(calls \cup {Slotted(b, "text")}, b, "text")
        BY SlottedIs DEF HasOpen
      <3> DEFINE acc == Pass(Pending, e1)
      <3> HIDE DEF acc
      <3>5. Framed(Pass(acc, e2), b + 1, calls \cup {Slotted(b, "text")})
        BY <1>3, <3>3, <3>4, FrameDelta DEF acc
      <3>6. calls \cup {Slotted(b, "text")} = TextBlock(q) \cup calls
        BY <2>4
      <3> QED
        BY <3>5, <3>6 DEF acc
    <2>6. ParserFrames(q)
      <3>1. \A i \in DOMAIN parser.tools : parser.tools[i].block \in Nat
        <4>1. parser.tools \in Seq(Calls)
          BY <1>1 DEF ParserTyped
        <4>2. \A i \in DOMAIN parser.tools : parser.tools[i] \in Calls
          BY <4>1
        <4> QED
          BY <4>2 DEF Calls
      <3>2. \A i \in DOMAIN parser.tools : parser.tools[i].block < b
        BY <1>1, <1>3, <3>1 DEF ParserFrames, ParserTyped, None
      <3> HIDE DEF b, q
      <3> QED
        BY <1>3, <2>3, <3>1, <3>2 DEF ParserFrames
    <2> HIDE DEF e1, e2, r, chunk
    <2>7. \A s : BlocksOf(provider, q, s) = TextBlock(q) \cup calls
      BY <1>1, <2>4, ParserBlocks
    <2> HIDE DEF calls, b, q
    <2>8. OneBlockAtATime => Framed(PassAll(Pending, r.events), q.block + 1,
                                    BlocksOf(provider, q, Append(sent, chunk)))
      BY <2>2, <2>3, <2>5, <2>7
    <2> QED
      BY <1>1, <1>3, <2>2, <2>6, <2>8, FrameTaken DEF q
  <1> QED
    BY <1>5, <1>6

LEMMA FrameSendFinishOrUsage == StreamTyped /\ FrameInv /\ (SendFinish \/ SendUsage) => FrameInv'
  <1> SUFFICES ASSUME StreamTyped, FrameInv, SendFinish \/ SendUsage PROVE FrameInv'
    OBVIOUS
  <1>1. /\ provider \in {"openai", "gemini"} /\ ~ended /\ ParserTyped(parser)
        /\ provider # "raw" /\ provider # "anthropic" /\ Converting(provider)
    BY DEF SendFinish, SendUsage, Room, Streaming, StreamTyped, Converting
  <1>2. PICK chunk, r : /\ Take(chunk, r) /\ r.events = <<>>
                        /\ r.parser.block = parser.block /\ r.parser.text = parser.text
                        /\ r.parser.tools = parser.tools
    <2>1. CASE SendFinish
      <3>1. PICK reason \in {"stop", "tool_use", "content_filter"} :
               Take(Chunk("finish", None, reason), ParseFinish(parser, reason))
        BY <2>1 DEF SendFinish
      <3> DEFINE r == ParseFinish(parser, reason)
      <3>2. /\ r.events = <<>> /\ r.parser.block = parser.block /\ r.parser.text = parser.text
            /\ r.parser.tools = parser.tools
        BY <1>1 DEF ParseFinish, ParserTyped
      <3> HIDE DEF r
      <3> QED
        BY <3>1, <3>2 DEF r
    <2>2. CASE SendUsage
      <3>1. PICK count \in 0..1 : Take(Chunk("usage", None, count), ParseUsage(parser, count))
        BY <2>2 DEF SendUsage
      <3> DEFINE r == ParseUsage(parser, count)
      <3>2. /\ r.events = <<>> /\ r.parser.block = parser.block /\ r.parser.text = parser.text
            /\ r.parser.tools = parser.tools
        BY <1>1 DEF ParseUsage, ParserTyped
      <3> HIDE DEF r
      <3> QED
        BY <3>1, <3>2 DEF r
    <2> QED
      BY <2>1, <2>2
  <1> DEFINE q == r.parser
  <1>3. ParserFrames(q) /\ TextBlock(q) = TextBlock(parser)
        /\ CallBlocks(provider, q) = CallBlocks(provider, parser)
    BY <1>1, <1>2 DEF FrameInv, ParserFrames, TextBlock, CallBlocks
  <1>4. \A s : BlocksOf(provider, q, s) = BlocksOf(provider, parser, sent)
    <2> HIDE DEF q
    <2> QED
      BY <1>1, <1>3, ParserBlocks
  <1>5. IsEvents(r.events) /\ PassAll(Pending, r.events) = Pending /\ q.block + 1 = parser.block + 1
    BY <1>2, EventsAre, PassAllFew
  <1>6. OneBlockAtATime => Framed(Pending, parser.block + 1, BlocksOf(provider, parser, sent))
    BY <1>1 DEF FrameInv
  <1> HIDE DEF q
  <1>7. OneBlockAtATime => Framed(PassAll(Pending, r.events), q.block + 1,
                                  BlocksOf(provider, q, Append(sent, chunk)))
    BY <1>4, <1>5, <1>6
  <1> QED
    BY <1>1, <1>2, <1>3, <1>5, <1>7, FrameTaken DEF q

\* A call's block is opened when the text before it is closed.
LEMMA FrameCallOpened ==
    ASSUME dialect \in Dialects, OneBlockAtATime,
           NEW ps, ParserTyped(ps), ParserFrames(ps), NEW acc,
           Framed(acc, ps.block + 1, TextBlock(ps) \cup CallBlocks(provider, ps)), NEW tool
    PROVE  Framed(Pass(PassAll(acc, CloseText(ps)), Event("tool_call_start", ps.block + 1, tool)),
                  (ps.block + 1) + 1,
                  CallBlocks(provider, ps) \cup {Slotted(ps.block + 1, "tool_use")})
  <1> DEFINE n == ps.block + 1
  <1> DEFINE s == PassAll(acc, CloseText(ps))
  <1> DEFINE calls == CallBlocks(provider, ps)
  <1>1. Framed(s, n, calls)
    BY FrameCloseText
  <1>2. dialect = "responses" => calls = {}
    BY NoCallOpen
  <1>3. n \in Nat
    BY DEF ParserTyped, None
  <1> HIDE DEF n, s, calls
  <1>4. Framed(Pass(s, Event("tool_call_start", n, tool)), n + 1, calls \cup {Slotted(n, "tool_use")})
    BY <1>1, <1>2, FrameStart
  <1> QED
    BY <1>4 DEF n, s, calls

LEMMA FrameSendToolPiece == StreamTyped /\ FrameInv /\ SendToolPiece => FrameInv'
  <1> SUFFICES ASSUME StreamTyped, FrameInv, SendToolPiece PROVE FrameInv'
    OBVIOUS
  <1>1. /\ provider = "openai" /\ ~ended /\ ParserTyped(parser)
        /\ provider # "raw" /\ provider # "anthropic" /\ Converting(provider)
    BY DEF SendToolPiece, Room, Streaming, StreamTyped, Converting
  <1>2. PICK tool \in Tools, args \in {None, NextPiece} :
           Take(Chunk("tool", tool, args), ParseOpenAITool(parser, tool, args))
    BY DEF SendToolPiece
  <1> DEFINE chunk == Chunk("tool", tool, args)
  <1> DEFINE r == ParseOpenAITool(parser, tool, args)
  <1>3. Take(chunk, r) /\ ToolParsed(parser, tool, args, r)
    BY <1>1, <1>2, OpenAIToolIs
  <1>4. dialect \in Dialects /\ ParserFrames(parser) /\ tool \in Int
    BY <1>1, PairTyped, ToolsAssumption DEF FrameInv
  <1> DEFINE text == TextBlock(parser)
  <1> DEFINE calls == CallBlocks(provider, parser)
  <1> DEFINE b == parser.block + 1
  <1>5. OneBlockAtATime => Framed(Pending, b, text \cup calls)
    BY <1>1, ParserBlocks DEF FrameInv
  <1> HIDE DEF chunk, r
  <1>6. CASE Known(parser, tool)
    <2>1. r.parser = parser
      BY <1>3, <1>6 DEF ToolParsed
    <2>2. \E i \in DOMAIN parser.tools :
             r.events = IF args = None THEN <<>>
                        ELSE <<Event("tool_call_delta", parser.tools[i].block, args)>>
      BY <1>3, <1>6 DEF ToolParsed
    <2>3. PICK i \in DOMAIN parser.tools :
             r.events = IF args = None THEN <<>>
                        ELSE <<Event("tool_call_delta", parser.tools[i].block, args)>>
      BY <2>2
    <2> DEFINE at == parser.tools[i].block
    <2> DEFINE e == Event("tool_call_delta", at, args)
    <2>4. HasOpen(text \cup calls, at, "tool_use")
      <3>1. Slotted(at, "tool_use") \in calls
        BY <1>1 DEF CallBlocks
      <3> QED
        BY <3>1, SlottedIs DEF HasOpen
    <2>5. r.events = <<>> \/ r.events = <<e>>
      BY <2>3
    <2>6. /\ IsEvents(r.events)
          /\ PassAll(Pending, r.events) = Pending \/ PassAll(Pending, r.events) = Pass(Pending, e)
      <3> HIDE DEF e
      <3> QED
        BY <2>5, EventsAre, PassAllFew
    <2>7. ASSUME OneBlockAtATime PROVE Framed(PassAll(Pending, r.events), b, text \cup calls)
      <3> HIDE DEF at, text, calls, b
      <3>1. Framed(Pass(Pending, e), b, text \cup calls)
        BY <1>4, <1>5, <2>4, <2>7, FrameDelta
      <3> HIDE DEF e
      <3> QED
        BY <1>5, <2>6, <2>7, <3>1
    <2>8. \A s : BlocksOf(provider, r.parser, s) = text \cup calls
      BY <1>1, <2>1, ParserBlocks
    <2>9. r.parser.block + 1 = b
      BY <2>1
    <2> HIDE DEF e, text, calls, b
    <2>10. OneBlockAtATime => Framed(PassAll(Pending, r.events), r.parser.block + 1,
                                     BlocksOf(provider, r.parser, Append(sent, chunk)))
      BY <2>7, <2>8, <2>9
    <2> QED
      BY <1>1, <1>3, <1>4, <2>1, <2>6, <2>10, FrameTaken
  <1>7. CASE ~Known(parser, tool)
    <2> DEFINE q == WithCall(parser, tool)
    <2> DEFINE a == CloseText(parser)
    <2> DEFINE o == Opened(b, tool, args)
    <2> DEFINE e1 == Event("tool_call_start", b, tool)
    <2> DEFINE e2 == Event("tool_call_delta", b, args)
    <2> DEFINE s1 == PassAll(Pending, a)
    <2> DEFINE blocks == calls \cup {Slotted(b, "tool_use")}
    <2>1. r.parser = q /\ r.events = a \o o
      BY <1>3, <1>7 DEF ToolParsed
    <2>2. IsEvents(a) /\ IsEvents(o)
      BY OpenedEvents
    <2>3. /\ ParserFrames(q) /\ q.block = b /\ TextBlock(q) = {}
          /\ CallBlocks(provider, q) = blocks
      BY <1>1, <1>4, FramesWithCall
    <2>4. \A s : BlocksOf(provider, q, s) = blocks
      <3> HIDE DEF q, blocks
      <3> QED
        BY <1>1, <2>3, ParserBlocks
    <2>5. OneBlockAtATime => Framed(Pass(s1, e1), b + 1, blocks)
      BY <1>1, <1>4, <1>5, FrameCallOpened
    <2>6. HasOpen(blocks, b, "tool_use")
      BY SlottedIs DEF HasOpen
    <2>7. o = <<e1>> \/ o = <<e1, e2>>
      BY DEF Opened
    <2> HIDE DEF e1, e2, s1, o
    <2>8. PassAll(s1, o) = Pass(s1, e1) \/ PassAll(s1, o) = Pass(Pass(s1, e1), e2)
      <3>1. CASE o = <<e1>>
        BY <3>1, PassAllFew
      <3>2. CASE o = <<e1, e2>>
        BY <3>2, PassAllTwo
      <3> QED
        BY <2>7, <3>1, <3>2
    <2> HIDE DEF a
    <2>9. IsEvents(r.events) /\ PassAll(Pending, r.events) = PassAll(s1, o)
      BY <2>1, <2>2, EventsAre DEF s1
    <2> HIDE DEF blocks, b, q
    <2>10. ASSUME OneBlockAtATime PROVE Framed(PassAll(s1, o), b + 1, blocks)
      <3> DEFINE s2 == Pass(s1, e1)
      <3>1. Framed(s2, b + 1, blocks)
        BY <2>5, <2>10
      <3> HIDE DEF s2
      <3>2. Framed(Pass(s2, e2), b + 1, blocks)
        BY <1>4, <2>6, <3>1, FrameDelta DEF e2
      <3> QED
        BY <2>8, <3>1, <3>2 DEF s2
    <2>11. OneBlockAtATime => Framed(PassAll(Pending, r.events), r.parser.block + 1,
                                     BlocksOf(provider, r.parser, Append(sent, chunk)))
      BY <2>1, <2>3, <2>4, <2>9, <2>10
    <2> QED
      BY <1>1, <1>3, <2>1, <2>3, <2>9, <2>11, FrameTaken
  <1> QED
    BY <1>6, <1>7

LEMMA FrameSendFunctionCall == StreamTyped /\ FrameInv /\ SendFunctionCall => FrameInv'
  <1> SUFFICES ASSUME StreamTyped, FrameInv, SendFunctionCall PROVE FrameInv'
    OBVIOUS
  <1>1. /\ provider = "gemini" /\ ~ended /\ ParserTyped(parser)
        /\ provider # "raw" /\ provider # "anthropic" /\ provider # "openai" /\ Converting(provider)
    BY DEF SendFunctionCall, Room, Streaming, StreamTyped, Converting
  <1> DEFINE k == NextPiece
  <1> DEFINE chunk == Chunk("tool", k, k)
  <1> DEFINE r == ParseGeminiTool(parser, k, k)
  <1>2. /\ Take(chunk, r) /\ dialect \in Dialects /\ ParserFrames(parser)
        /\ k \in Int
    BY <1>1, PairTyped DEF SendFunctionCall, FrameInv
  <1> DEFINE text == TextBlock(parser)
  <1> DEFINE b == parser.block + 1
  <1> DEFINE q == WithCall(parser, k)
  <1> DEFINE a == CloseText(parser)
  <1> DEFINE e1 == Event("tool_call_start", b, k)
  <1> DEFINE e2 == Event("tool_call_delta", b, k)
  <1> DEFINE e3 == End(b)
  <1>3. r.parser = q /\ r.events = a \o <<e1, e2, e3>>
    BY DEF ParseGeminiTool, WithCall
  <1>4. CallBlocks(provider, parser) = {}
    BY <1>1 DEF CallBlocks
  <1>5. OneBlockAtATime => Framed(Pending, b, text \cup CallBlocks(provider, parser))
    BY <1>1, ParserBlocks DEF FrameInv
  <1>6. /\ ParserFrames(q) /\ q.block = b /\ TextBlock(q) = {}
        /\ CallBlocks(provider, q) = {}
    BY <1>1, <1>2, FramesWithCall
  <1>7. \A s : BlocksOf(provider, q, s) = {}
    <2> HIDE DEF q
    <2> QED
      BY <1>1, <1>6, ParserBlocks
  <1> DEFINE s1 == PassAll(Pending, a)
  <1>8. ASSUME OneBlockAtATime PROVE Framed(Pass(s1, e1), b + 1, {Slotted(b, "tool_use")})
    <2>1. Framed(Pass(s1, e1), b + 1, CallBlocks(provider, parser) \cup {Slotted(b, "tool_use")})
      BY <1>1, <1>2, <1>5, <1>8, FrameCallOpened
    <2> HIDE DEF e1, s1, b
    <2> QED
      BY <1>4, <2>1
  <1>9. IsEvents(a)
    BY OpenedEvents
  <1> HIDE DEF e1, e2, e3, a, r, chunk, q, text
  <1>10. IsEvents(r.events) /\ PassAll(Pending, r.events) = Pass(Pass(Pass(s1, e1), e2), e3)
    <2> DEFINE o == <<e1, e2, e3>>
    <2>1. IsEvents(o)
      BY EventsAre
    <2>2. PassAll(s1, o) = Pass(Pass(Pass(s1, e1), e2), e3)
      BY PassAllThree
    <2> HIDE DEF o
    <2>3. r.events = a \o o
      BY <1>3 DEF o
    <2>4. IsEvents(r.events) /\ PassAll(Pending, r.events) = PassAll(s1, o)
      BY <1>9, <2>1, <2>3, EventsAre
    <2> QED
      BY <2>2, <2>4
  <1> DEFINE blocks == {Slotted(b, "tool_use")}
  <1>11. HasOpen(blocks, b, "tool_use") /\ (\E x \in blocks : x.slot = b)
         /\ Without(blocks, b) = {}
    BY SlottedIs DEF HasOpen, Without
  <1>12. ASSUME OneBlockAtATime PROVE Framed(Pass(Pass(Pass(s1, e1), e2), e3), b + 1, {})
    <2> DEFINE s2 == Pass(s1, e1)
    <2> DEFINE s3 == Pass(s2, e2)
    <2>1. Framed(s2, b + 1, blocks)
      BY <1>8, <1>12
    <2> HIDE DEF s2, blocks, b
    <2>2. Framed(s3, b + 1, blocks)
      BY <1>2, <1>11, <2>1, FrameDelta DEF e2
    <2> HIDE DEF s3
    <2>3. Framed(Pass(s3, e3), b + 1, Without(blocks, b))
      BY <1>2, <1>11, <2>2, FrameEnd DEF e3
    <2> QED
      BY <1>11, <2>3 DEF s2, s3
  <1> HIDE DEF s1, b
  <1>13. OneBlockAtATime => Framed(PassAll(Pending, r.events), r.parser.block + 1,
                                   BlocksOf(provider, r.parser, Append(sent, chunk)))
    BY <1>3, <1>6, <1>7, <1>10, <1>12
  <1> QED
    BY <1>1, <1>2, <1>3, <1>6, <1>10, <1>13, FrameTaken

\* What an Anthropic provider sends belongs to the block it has open.
LEMMA MaySendOpen ==
    ASSUME NEW s, NEW c, MaySend(s, c)
    PROVE  /\ c.kind = "text" => OpenOf(s) = "text"
           /\ c.kind \in {"thinking", "signature"} => OpenOf(s) = "thinking"
           /\ c.kind = "args" => OpenOf(s) = "tool_use"
           /\ c.kind = "block_stop" => OpenOf(s) # "none"
           /\ c.kind \in {"message_delta", "message_stop"} => OpenOf(s) = "none"
  <1>1. /\ \A tool, data : Chunk("text", tool, data).kind = "text"
        /\ \A tool, data : Chunk("thinking", tool, data).kind = "thinking"
        /\ \A tool, data : Chunk("signature", tool, data).kind = "signature"
        /\ \A tool, data : Chunk("args", tool, data).kind = "args"
        /\ \A tool, data : Chunk("block_start", tool, data).kind = "block_start"
        /\ \A tool, data : Chunk("tool_start", tool, data).kind = "tool_start"
        /\ \A tool, data : Chunk("block_stop", tool, data).kind = "block_stop"
        /\ \A tool, data : Chunk("message_delta", tool, data).kind = "message_delta"
        /\ \A tool, data : Chunk("message_stop", tool, data).kind = "message_stop"
    BY DEF Chunk
  <1>2. LastKindOf(s) = "message_delta" => OpenOf(s) = "none"
    BY DEF OpenOf
  <1>3. \/ c.kind = "message_stop" /\ OpenOf(s) = "none"
        \/ c.kind \in {"block_start", "tool_start", "message_delta"} /\ OpenOf(s) = "none"
        \/ c.kind = "text" /\ OpenOf(s) = "text"
        \/ c.kind = "thinking" /\ OpenOf(s) = "thinking"
        \/ c.kind = "signature" /\ OpenOf(s) = "thinking"
        \/ c.kind = "args" /\ OpenOf(s) = "tool_use"
        \/ c.kind = "block_stop" /\ OpenOf(s) \in {"text", "thinking", "tool_use"}
    <2>1. CASE OpenOf(s) = "none"
      <3>1. \E tool, data : \/ c = Chunk("message_stop", tool, data)
                            \/ c = Chunk("block_start", tool, data)
                            \/ c = Chunk("tool_start", tool, data)
                            \/ c = Chunk("message_delta", tool, data)
        BY <2>1, Zenon DEF MaySend
      <3>2. c.kind \in {"message_stop", "block_start", "tool_start", "message_delta"}
        BY <1>1, <3>1
      <3> QED
        BY <2>1, <3>2
    <2>2. CASE OpenOf(s) # "none"
      <3>1. \E tool, data :
               \/ OpenOf(s) = "text" /\ c = Chunk("text", tool, data)
               \/ OpenOf(s) = "thinking" /\ c = Chunk("thinking", tool, data)
               \/ OpenOf(s) = "thinking" /\ c = Chunk("signature", tool, data)
               \/ OpenOf(s) = "tool_use" /\ c = Chunk("args", tool, data)
               \/ OpenOf(s) \in {"text", "thinking", "tool_use"} /\ c = Chunk("block_stop", tool, data)
        BY <1>2, <2>2, Zenon DEF MaySend
      <3> QED
        BY <1>1, <3>1
    <2> QED
      BY <2>1, <2>2
  <1> QED
    BY <1>3

\* The bookkeeping of anthropicSSEToIR counts the blocks.
LEMMA AnthropicCounts ==
    ASSUME NEW p, ParserTyped(p), NEW c
    PROVE  LET r == ParseAnthropic(p, c)
           IN  /\ c.kind = "block_start" /\ c.data = "thinking" =>
                     /\ r.events = <<Event("content_block_start", p.block + 1, "reasoning")>>
                     /\ r.parser.block = p.block + 1
               /\ c.kind = "block_start" /\ c.data = "text" =>
                     /\ r.events = <<Event("content_block_start", p.block + 1, "text")>>
                     /\ r.parser.block = p.block + 1
               /\ c.kind = "tool_start" => r.parser.block = p.block + 1
               /\ c.kind \in {"text", "thinking", "signature", "args", "block_stop",
                              "message_delta", "message_stop"} => r.parser.block = p.block
  <1> DEFINE r == ParseAnthropic(p, c)
  <1> DEFINE q == [p EXCEPT !.block = p.block + 1]
  <1>1. q.block = p.block + 1
    BY DEF ParserTyped
  <1>2. CASE c.kind = "block_start" /\ c.data = "thinking"
    <2>1. r.events = <<Event("content_block_start", p.block + 1, "reasoning")>> /\ r.parser = q
      BY <1>2 DEF ParseAnthropic, Start
    <2> HIDE DEF q, r
    <2> QED
      BY <1>1, <1>2, <2>1 DEF r
  <1>3. CASE c.kind = "block_start" /\ c.data = "text"
    <2>1. r.events = <<Event("content_block_start", p.block + 1, "text")>> /\ r.parser = q
      BY <1>3 DEF ParseAnthropic, Start
    <2> HIDE DEF q, r
    <2> QED
      BY <1>1, <1>3, <2>1 DEF r
  <1>4. CASE c.kind = "tool_start"
    <2>1. r.parser = q
      BY <1>4 DEF ParseAnthropic
    <2> HIDE DEF q, r
    <2> QED
      BY <1>1, <1>4, <2>1 DEF r
  <1>5. CASE c.kind \in {"text", "thinking", "signature", "args", "block_stop",
                         "message_delta", "message_stop"}
    <2>1. r.parser = p
      BY <1>5 DEF ParseAnthropic
    <2> HIDE DEF q, r
    <2> QED
      BY <1>5, <2>1 DEF r
  <1>6. c.kind = "block_start" /\ c.data = "thinking" =>
           /\ r.events = <<Event("content_block_start", p.block + 1, "reasoning")>>
           /\ r.parser.block = p.block + 1
    BY <1>2
  <1>7. c.kind = "block_start" /\ c.data = "text" =>
           /\ r.events = <<Event("content_block_start", p.block + 1, "text")>>
           /\ r.parser.block = p.block + 1
    BY <1>3
  <1>8. c.kind = "tool_start" => r.parser.block = p.block + 1
    BY <1>4
  <1>9. c.kind \in {"text", "thinking", "signature", "args", "block_stop",
                    "message_delta", "message_stop"} => r.parser.block = p.block
    BY <1>5
  <1> HIDE DEF r, q
  <1> QED
    BY <1>6, <1>7, <1>8, <1>9 DEF r

\* The blocks an Anthropic provider has open are at most one.
LEMMA AnthropicBlocks ==
    ASSUME NEW ps, NEW s
    PROVE  /\ OpenOf(s) = "none" => BlocksOf("anthropic", ps, s) = {}
           /\ OpenOf(s) = "thinking" => BlocksOf("anthropic", ps, s) = {Slotted(ps.block, "reasoning")}
           /\ OpenOf(s) = "text" => BlocksOf("anthropic", ps, s) = {Slotted(ps.block, "text")}
           /\ OpenOf(s) = "tool_use" => BlocksOf("anthropic", ps, s) = {Slotted(ps.block, "tool_use")}
  BY DEF BlocksOf, OpenType

LEMMA FrameSendMessage == StreamTyped /\ FrameInv /\ SendMessage => FrameInv'
  <1> SUFFICES ASSUME StreamTyped, FrameInv, SendMessage PROVE FrameInv'
    OBVIOUS
  <1>1. /\ provider = "anthropic" /\ provider # "raw" /\ ~Converting(provider) /\ ~ended
        /\ ParserTyped(parser) /\ parser.block + 1 \in Nat
    BY DEF SendMessage, Room, Streaming, Converting, StreamTyped, ParserTyped, None
  <1>2. dialect \in Dialects /\ IsSeq(sent) /\ OpenOf(sent) \in OpenKinds /\ OneBlockAtATime
    BY <1>1, PairTyped DEF StreamTyped, OneBlockAtATime
  <1>3. PICK c \in AnthropicChunks : Take(c, ParseAnthropic(parser, c))
    BY DEF SendMessage
  <1>4. MaySend(sent, c)
    BY <1>2, SendsMaySend
  <1> DEFINE r == ParseAnthropic(parser, c)
  <1> DEFINE s == Append(sent, c)
  <1> DEFINE old == BlocksOf("anthropic", parser, sent)
  <1> DEFINE new == BlocksOf("anthropic", r.parser, s)
  <1> DEFINE b == parser.block
  <1> DEFINE n == b + 1
  <1>5. Take(c, r) /\ Framed(Pending, n, old)
    BY <1>1, <1>2, <1>3 DEF FrameInv
  <1> DEFINE Kept == IsEvents(r.events) /\ Framed(PassAll(Pending, r.events), r.parser.block + 1, new)
  \* One event, which opens a block, belongs to the open one or closes it.
  <1>6. ASSUME NEW e, r.events = <<e>>, Framed(Pass(Pending, e), r.parser.block + 1, new) PROVE Kept
    <2> HIDE DEF r, s, new
    <2>1. IsEvents(<<e>>) /\ PassAll(Pending, <<e>>) = Pass(Pending, e)
      BY EventsAre, PassAllFew
    <2> QED
      BY <1>6, <2>1
  <1>7. /\ OpenOf(sent) = "none" => old = {}
        /\ OpenOf(sent) = "thinking" => old = {Slotted(b, "reasoning")}
        /\ OpenOf(sent) = "text" => old = {Slotted(b, "text")}
        /\ OpenOf(sent) = "tool_use" => old = {Slotted(b, "tool_use")}
    BY AnthropicBlocks
  <1>8. /\ OpenOf(s) = "none" => new = {}
        /\ OpenOf(s) = "thinking" => new = {Slotted(r.parser.block, "reasoning")}
        /\ OpenOf(s) = "text" => new = {Slotted(r.parser.block, "text")}
        /\ OpenOf(s) = "tool_use" => new = {Slotted(r.parser.block, "tool_use")}
    <2> DEFINE q == r.parser
    <2> HIDE DEF r, s, q
    <2> QED
      BY AnthropicBlocks DEF q
  <1>9. /\ c.kind = "block_start" => OpenOf(s) = c.data
        /\ c.kind = "tool_start" => OpenOf(s) = "tool_use"
        /\ c.kind \in {"block_stop", "message_delta", "message_stop"} => OpenOf(s) = "none"
        /\ c.kind \in {"text", "thinking", "signature", "args"} /\ OpenOf(sent) # "none" =>
              OpenOf(s) = OpenOf(sent)
    BY <1>2, OpenOfAppend
  <1>10. /\ \A what : HasOpen({Slotted(b, what)}, b, what)
         /\ \A what : Without({Slotted(b, what)}, b) = {}
         /\ \A what : \E x \in {Slotted(b, what)} : x.slot = b
    BY SlottedIs DEF HasOpen, Without
  <1>11. /\ c.kind = "block_start" /\ c.data = "thinking" =>
               /\ r.events = <<Event("content_block_start", n, "reasoning")>>
               /\ r.parser.block = n
         /\ c.kind = "block_start" /\ c.data = "text" =>
               /\ r.events = <<Event("content_block_start", n, "text")>>
               /\ r.parser.block = n
         /\ c.kind = "tool_start" => /\ r.parser.block = n
                                     /\ r.events = <<Event("tool_call_start", n, c.tool)>>
         /\ c.kind \in {"text", "thinking", "signature", "args", "block_stop",
                        "message_delta", "message_stop"} => r.parser.block = b
    BY <1>1, AnthropicCounts, AnthropicParsed
  <1>12. /\ c.kind = "text" => r.events = <<Event("text_delta", b, c.data)>>
         /\ c.kind = "thinking" => r.events = <<Event("reasoning_delta", b, c.data)>>
         /\ c.kind = "signature" => \E nil : r.events = <<Event("signature_delta", b, nil)>>
         /\ c.kind = "args" => r.events = <<Event("tool_call_delta", b, c.data)>>
         /\ c.kind = "block_stop" => r.events = <<End(b)>>
         /\ c.kind = "message_delta" =>
               \E x, y : r.events = <<Event("finish", None, x), Event("usage", None, y)>>
         /\ c.kind = "message_stop" => \E nil : r.events = <<Event("stream_end", None, nil)>>
    <2>1. AnthropicTold(c, b, r.events)
      BY AnthropicTells
    <2> HIDE DEF r, b
    <2> QED
      BY <2>1 DEF AnthropicTold
  <1>13. \/ c.kind = "block_start" /\ c.data \in {"text", "thinking"} /\ OpenOf(sent) = "none"
         \/ c.kind = "tool_start" /\ OpenOf(sent) = "none"
         \/ c.kind = "text" /\ OpenOf(sent) = "text"
         \/ c.kind \in {"thinking", "signature"} /\ OpenOf(sent) = "thinking"
         \/ c.kind = "args" /\ OpenOf(sent) = "tool_use"
         \/ c.kind = "block_stop" /\ OpenOf(sent) \in {"text", "thinking", "tool_use"}
         \/ c.kind \in {"message_delta", "message_stop"} /\ OpenOf(sent) = "none"
    BY <1>2, <1>4, MaySendKinds, MaySendOpen DEF OpenKinds
  <1> HIDE DEF r, s, old, new, n, b, Kept
  <1>14. ASSUME c.kind = "block_start" /\ c.data \in {"text", "thinking"} /\ OpenOf(sent) = "none"
         PROVE  Kept
    <2>1. PICK what \in {"text", "reasoning"} :
             /\ r.events = <<Event("content_block_start", n, what)>>
             /\ r.parser.block = n /\ new = {Slotted(n, what)}
      <3>1. CASE c.data = "thinking"
        <4>1. r.events = <<Event("content_block_start", n, "reasoning")>> /\ r.parser.block = n
              /\ new = {Slotted(n, "reasoning")}
          BY <1>8, <1>9, <1>11, <1>14, <3>1
        <4> QED
          BY <4>1
      <3>2. CASE c.data = "text"
        <4>1. r.events = <<Event("content_block_start", n, "text")>> /\ r.parser.block = n
              /\ new = {Slotted(n, "text")}
          BY <1>8, <1>9, <1>11, <1>14, <3>2
        <4> QED
          BY <4>1
      <3> QED
        BY <1>14, <3>1, <3>2
    <2>2. Framed(Pending, n, {})
      BY <1>5, <1>7, <1>14
    <2>3. Framed(Pass(Pending, Event("content_block_start", n, what)), n + 1,
                 {} \cup {Slotted(n, what)})
      BY <1>2, <2>2, FrameStart
    <2> QED
      BY <1>6, <2>1, <2>3
  <1>15. ASSUME c.kind = "tool_start" /\ OpenOf(sent) = "none"
         PROVE  Kept
    <2>1. r.events = <<Event("tool_call_start", n, c.tool)>> /\ r.parser.block = n
          /\ new = {Slotted(n, "tool_use")}
      BY <1>8, <1>9, <1>11, <1>15
    <2>2. Framed(Pending, n, {})
      BY <1>5, <1>7, <1>15
    <2>3. Framed(Pass(Pending, Event("tool_call_start", n, c.tool)), n + 1,
                 {} \cup {Slotted(n, "tool_use")})
      BY <1>2, <2>2, FrameStart
    <2> QED
      BY <1>6, <2>1, <2>3
  \* A delta of the open block.
  <1>16. ASSUME NEW kind, NEW data, NEW what, r.events = <<Event(kind, b, data)>>,
                old = {Slotted(b, what)}, new = {Slotted(r.parser.block, what)}, r.parser.block = b,
                \/ kind = "text_delta" /\ what = "text"
                \/ kind \in {"reasoning_delta", "signature_delta"} /\ what = "reasoning"
                \/ kind = "tool_call_delta" /\ what = "tool_use"
         PROVE  Kept
    <2>1. HasOpen(old, b, what)
      BY <1>10, <1>16
    <2>2. Framed(Pass(Pending, Event(kind, b, data)), n, old)
      BY <1>2, <1>5, <1>16, <2>1, FrameDelta
    <2>3. new = old /\ r.parser.block + 1 = n
      BY <1>16 DEF n
    <2> QED
      BY <1>6, <1>16, <2>2, <2>3
  <1>17. ASSUME c.kind = "text" /\ OpenOf(sent) = "text"
         PROVE  Kept
    <2>1. /\ r.events = <<Event("text_delta", b, c.data)>> /\ r.parser.block = b
          /\ old = {Slotted(b, "text")} /\ new = {Slotted(r.parser.block, "text")}
      BY <1>7, <1>8, <1>9, <1>11, <1>12, <1>17
    <2> QED
      BY <1>16, <2>1
  <1>18. ASSUME c.kind \in {"thinking", "signature"} /\ OpenOf(sent) = "thinking"
         PROVE  Kept
    <2>1. /\ r.parser.block = b
          /\ old = {Slotted(b, "reasoning")} /\ new = {Slotted(r.parser.block, "reasoning")}
      BY <1>7, <1>8, <1>9, <1>11, <1>18
    <2>2. PICK kind \in {"reasoning_delta", "signature_delta"} :
             \E data : r.events = <<Event(kind, b, data)>>
      <3>1. CASE c.kind = "thinking"
        BY <1>12, <3>1
      <3>2. CASE c.kind = "signature"
        BY <1>12, <3>2
      <3> QED
        BY <1>18, <3>1, <3>2
    <2>3. PICK data : r.events = <<Event(kind, b, data)>>
      BY <2>2
    <2> QED
      BY <1>16, <2>1, <2>3
  <1>19. ASSUME c.kind = "args" /\ OpenOf(sent) = "tool_use"
         PROVE  Kept
    <2>1. /\ r.events = <<Event("tool_call_delta", b, c.data)>> /\ r.parser.block = b
          /\ old = {Slotted(b, "tool_use")} /\ new = {Slotted(r.parser.block, "tool_use")}
      BY <1>7, <1>8, <1>9, <1>11, <1>12, <1>19
    <2> QED
      BY <1>16, <2>1
  <1>20. ASSUME c.kind = "block_stop" /\ OpenOf(sent) \in {"text", "thinking", "tool_use"}
         PROVE  Kept
    <2>1. r.events = <<End(b)>> /\ r.parser.block = b /\ new = {}
      BY <1>8, <1>9, <1>11, <1>12, <1>20
    <2>2. \E what : old = {Slotted(b, what)}
      <3>1. CASE OpenOf(sent) = "text"
        BY <1>7, <3>1
      <3>2. CASE OpenOf(sent) = "thinking"
        BY <1>7, <3>2
      <3>3. CASE OpenOf(sent) = "tool_use"
        BY <1>7, <3>3
      <3> QED
        BY <1>20, <3>1, <3>2, <3>3
    <2>3. PICK what : old = {Slotted(b, what)}
      BY <2>2
    <2>4. (\E x \in old : x.slot = b) /\ Without(old, b) = {}
      BY <1>10, <2>3
    <2>5. Framed(Pass(Pending, End(b)), n, Without(old, b))
      BY <1>2, <1>5, <2>4, FrameEnd
    <2>6. Framed(Pass(Pending, End(b)), r.parser.block + 1, new)
      BY <2>1, <2>4, <2>5 DEF n
    <2> QED
      BY <1>6, <2>1, <2>6
  <1>21. ASSUME c.kind \in {"message_delta", "message_stop"} /\ OpenOf(sent) = "none"
         PROVE  Kept
    <2>1. r.parser.block + 1 = n /\ new = {} /\ Framed(Pending, n, {})
      BY <1>5, <1>7, <1>8, <1>9, <1>11, <1>21 DEF n
    <2>2. CASE c.kind = "message_stop"
      <3>1. PICK nil : r.events = <<Event("stream_end", None, nil)>>
        BY <1>12, <2>2
      <3>2. Framed(Pass(Pending, Event("stream_end", None, nil)), n, {})
        BY <1>1, <1>2, <2>1, FrameDelta
      <3> QED
        BY <1>6, <2>1, <3>1, <3>2
    <2>3. CASE c.kind = "message_delta"
      <3>1. PICK x, y : r.events = <<Event("finish", None, x), Event("usage", None, y)>>
        BY <1>12, <2>3
      <3> DEFINE e1 == Event("finish", None, x)
      <3> DEFINE e2 == Event("usage", None, y)
      <3> DEFINE acc == Pass(Pending, e1)
      <3>2. Framed(acc, n, {})
        BY <1>2, <2>1, FrameDelta
      <3> HIDE DEF acc
      <3>3. Framed(Pass(acc, e2), n, {})
        BY <1>2, <3>2, FrameDelta
      <3> HIDE DEF e1, e2
      <3>4. r.events = <<e1, e2>>
        BY <3>1 DEF e1, e2
      <3>5. IsEvents(<<e1, e2>>) /\ PassAll(Pending, <<e1, e2>>) = Pass(acc, e2)
        <4>1. IsEvents(<<e1, e2>>)
          BY EventsAre
        <4>2. PassAll(Pending, <<e1, e2>>) = Pass(Pass(Pending, e1), e2)
          BY PassAllTwo
        <4> QED
          BY <4>1, <4>2 DEF acc
      <3> QED
        BY <2>1, <3>3, <3>4, <3>5 DEF Kept
    <2> QED
      BY <1>21, <2>2, <2>3
  <1>22. Kept
    BY <1>13, <1>14, <1>15, <1>17, <1>18, <1>19, <1>20, <1>21
  <1>23. Framed(PassAll(Pending, r.events), r.parser.block + 1,
                BlocksOf(provider, r.parser, Append(sent, c))) /\ IsEvents(r.events)
    BY <1>1, <1>22 DEF Kept, new, s
  <1> QED
    BY <1>1, <1>5, <1>23, FrameTaken

LEMMA FrameEnding == StreamTyped /\ FrameInv /\ (EndOfBody \/ Cut) => FrameInv'
  <1> SUFFICES ASSUME StreamTyped, FrameInv, EndOfBody \/ Cut PROVE FrameInv'
    OBVIOUS
  <1>1. /\ ~ended /\ ended' /\ provider # "raw" /\ dialect \in Dialects /\ ParserTyped(parser)
        /\ UNCHANGED <<provider, dialect, parser>>
    BY PairTyped DEF EndOfBody, Cut, Streaming, StreamTyped
  <1>2. OneBlockAtATime' = OneBlockAtATime
    BY <1>1 DEF OneBlockAtATime
  <1> DEFINE blocks == BlocksOf(provider, parser, sent)
  <1>3. /\ Converting(provider) => ParserFrames(parser)
        /\ OneBlockAtATime => Framed(Pending, parser.block + 1, blocks)
    BY <1>1 DEF FrameInv
  <1>4. OneBlockAtATime => \E n, bs : FrameR(dialect, provider, Pending', n, bs)
    <2> SUFFICES ASSUME OneBlockAtATime PROVE \E n, bs : FrameR(dialect, provider, Pending', n, bs)
      OBVIOUS
    <2>1. CASE EndOfBody
      <3>1. Converting(provider) /\ provider # "anthropic" /\ Deliver(ParserTail(parser))
        BY <2>1 DEF EndOfBody, Converting
      <3>2. Len(ParserTail(parser)) \in Nat
        <4> DEFINE tail == ParserTail(parser)
        <4>1. QuietEvents(tail)
          BY <1>1, ParserTailIs
        <4> HIDE DEF tail
        <4>2. Len(tail) \in Nat
          BY <4>1, EventsAre DEF QuietEvents, EventsOf, IsEvents
        <4> QED
          BY <4>2 DEF tail
      <3>3. Pending' = PassAll(Pending, ParserTail(parser))
        BY <3>1, <3>2, DeliverIs
      <3>4. blocks = TextBlock(parser) \cup CallBlocks(provider, parser)
        BY <3>1, ParserBlocks
      <3> HIDE DEF blocks
      <3>5. \E n : Framed(PassAll(Pending, ParserTail(parser)), n, {})
        BY <1>1, <1>3, <3>1, <3>4, FrameTail
      <3>6. PICK n : Framed(PassAll(Pending, ParserTail(parser)), n, {})
        BY <3>5
      <3> QED
        BY <3>3, <3>6 DEF Framed
    <2>2. CASE Cut
      <3>1. Pending' = Pending
        BY <2>2 DEF Cut, Pending
      <3> HIDE DEF blocks
      <3> QED
        BY <1>3, <3>1 DEF Framed
    <2> QED
      BY <2>1, <2>2
  <1> QED
    BY <1>1, <1>2, <1>3, <1>4 DEF FrameInv, Framed

LEMMA FrameRaw == StreamTyped /\ FrameInv /\ (ReadRaw \/ EndOfRaw) => FrameInv'
  <1> SUFFICES ASSUME StreamTyped, FrameInv, ReadRaw \/ EndOfRaw PROVE FrameInv'
    OBVIOUS
  <1>1. provider = "raw" /\ provider' = provider /\ RawFrames(client)
    BY DEF ReadRaw, EndOfRaw, FrameInv
  <1>2. \E text : client' = client \o Shown(text)
    BY DEF ReadRaw, EndOfRaw
  <1>3. PICK text : client' = client \o Shown(text)
    BY <1>2
  <1>4. RawFrames(client')
    <2>1. IsSeq(client)
      BY <1>1 DEF RawFrames
    <2>2. CASE text = <<>>
      <3>1. client' = client
        BY <1>3, <2>1, <2>2, IsSeqFew DEF Shown
      <3> QED
        BY <1>1, <3>1
    <2>3. CASE text # <<>>
      <3> DEFINE m == Message("bytes", None, "text", text)
      <3>1. m.type = "bytes"
        BY DEF Message
      <3>2. client' = client \o <<m>>
        BY <1>3, <2>3 DEF Shown
      <3> HIDE DEF m
      <3>3. client' = Append(client, m)
        BY <2>1, <3>2, IsSeqAppend
      <3> DEFINE t == Append(client, m)
      <3>4. /\ IsSeq(t) /\ DOMAIN t = 1..(Len(client) + 1) /\ t[Len(client) + 1] = m
            /\ DOMAIN client = 1..Len(client) /\ Len(client) \in Nat
            /\ \A i \in 1..Len(client) : t[i] = client[i]
        <4>1. Grown(t, client, m)
          BY <2>1, AppendGrows
        <4> HIDE DEF t
        <4> QED
          BY <4>1 DEF Grown
      <3> HIDE DEF t
      <3>5. \A i \in DOMAIN t : t[i].type \in {"header", "bytes"}
        <4>1. \A i \in 1..(Len(client) + 1) : i = Len(client) + 1 \/ i \in 1..Len(client)
          BY <3>4
        <4> QED
          BY <1>1, <3>1, <3>4, <4>1 DEF RawFrames
      <3> QED
        BY <3>3, <3>4, <3>5 DEF RawFrames, t
    <2> QED
      BY <2>2, <2>3
  <1> QED
    BY <1>1, <1>4 DEF FrameInv, RawFrames, Converting

LEMMA FrameKept == StreamTyped /\ FrameInv /\ [Next]_vars => FrameInv'
  <1> SUFFICES ASSUME StreamTyped, FrameInv, [Next]_vars PROVE FrameInv'
    OBVIOUS
  <1>1. CASE Open
    BY <1>1, FrameOpen
  <1>2. CASE SendText
    BY <1>2, FrameSendText
  <1>3. CASE SendToolPiece
    BY <1>3, FrameSendToolPiece
  <1>4. CASE SendFunctionCall
    BY <1>4, FrameSendFunctionCall
  <1>5. CASE SendFinish \/ SendUsage
    BY <1>5, FrameSendFinishOrUsage
  <1>6. CASE EndOfBody \/ Cut
    BY <1>6, FrameEnding
  <1>7. CASE SendMessage
    BY <1>7, FrameSendMessage
  <1>8. CASE ReadRaw \/ EndOfRaw
    BY <1>8, FrameRaw
  <1>9. CASE UNCHANGED vars
    <2>1. Pending' = Pending /\ UNCHANGED vars /\ OneBlockAtATime' = OneBlockAtATime
      BY <1>9 DEF vars, Pending, OneBlockAtATime
    <2> QED
      BY <2>1 DEF vars, FrameInv, Framed
  <1> QED
    BY <1>1, <1>2, <1>3, <1>4, <1>5, <1>6, <1>7, <1>8, <1>9 DEF Next

\* What the client has is framed, message by message.
FramedAt(c, i) ==
    LET m == c[i]
        earlier == Earlier(c, i)
        open == {j \in earlier : OpenBefore(c, j, i)}
    IN  /\ Opens(m) => m.slot = Cardinality(earlier)
        /\ Deltas(m) => \E j \in open : c[j].slot = m.slot /\ OfBlock(m, c[j])
        /\ Closes(m) => \E j \in open : c[j].slot = m.slot
        /\ Finals(m) /\ dialect # "openai" =>
              /\ open = {}
              /\ provider \in {"openai", "gemini"} => earlier # {}

LEMMA FrameKShows ==
    ASSUME NEW c, NEW n, NEW blocks, FrameK(dialect, provider, c, n, blocks), NEW i \in DOMAIN c
    PROVE  FramedAt(c, i)
  <1> DEFINE m == c[i]
  <1> DEFINE open == {j \in Earlier(c, i) : OpenBefore(c, j, i)}
  <1> DEFINE bs == OpenBlocks(c, i)
  <1>1. Fits(dialect, provider, Cardinality(Earlier(c, i)), bs, m)
    BY DEF FrameK
  <1>2. bs = {Slotted(c[j].slot, c[j].what) : j \in open}
    BY DEF OpenBlocks, StillOpen
  <1>3. \A x, y : OfBlock(m, Slotted(x.slot, x.what)) <=> OfBlock(m, x)
    BY SlottedIs DEF OfBlock
  <1> HIDE DEF m, open, bs
  <1>4. ASSUME NEW b \in bs PROVE \E j \in open : b.slot = c[j].slot /\ (OfBlock(m, b) <=> OfBlock(m, c[j]))
    <2>1. PICK j \in open : b = Slotted(c[j].slot, c[j].what)
      BY <1>2
    <2> QED
      BY <1>3, <2>1, SlottedIs
  <1>5. bs = {} => open = {}
    BY <1>2
  <1>6. Cardinality({}) = 0
    BY FS_EmptySet
  <1>7. Opens(m) => m.slot = Cardinality(Earlier(c, i))
    BY <1>1 DEF Fits
  <1>8. Deltas(m) => \E j \in open : c[j].slot = m.slot /\ OfBlock(m, c[j])
    BY <1>1, <1>4 DEF Fits
  <1>9. Closes(m) => \E j \in open : c[j].slot = m.slot
    BY <1>1, <1>4 DEF Fits
  <1>10. Finals(m) /\ dialect # "openai" =>
            /\ open = {}
            /\ provider \in {"openai", "gemini"} => Earlier(c, i) # {}
    BY <1>1, <1>5, <1>6 DEF Fits, Converting
  <1> QED
    BY <1>7, <1>8, <1>9, <1>10 DEF FramedAt, m, open

LEMMA FrameInvShows == StreamTyped /\ FrameInv => ClientFramed
  <1> SUFFICES ASSUME StreamTyped, FrameInv, OneBlockAtATime,
                      NEW i \in DOMAIN client
               PROVE  FramedAt(client, i)
    BY Zenon DEF ClientFramed, FramedAt
  <1>1. CASE provider = "raw"
    <2>1. client[i].type \in {"header", "bytes"}
      BY <1>1 DEF FrameInv, RawFrames
    <2>2. ~Opens(client[i]) /\ ~Deltas(client[i]) /\ ~Closes(client[i]) /\ ~Finals(client[i])
      BY <2>1 DEF Opens, Deltas, Closes, Finals
    <2> QED
      BY <2>2, Zenon DEF FramedAt
  <1>2. CASE provider # "raw"
    <2>1. \E n, blocks : Framed(Pending, n, blocks)
      BY <1>2, Zenon DEF FrameInv
    <2>2. PICK n, blocks : FrameR(dialect, provider, Pending, n, blocks)
      BY <2>1 DEF Framed
    <2>3. dialect \in Dialects /\ Pending.client = client
      BY <1>2, PairTyped DEF Pending
    <2>4. \E k, bs : FrameK(dialect, provider, client, k, bs)
      <3>1. CASE dialect \in {"anthropic", "responses"}
        BY <2>2, <2>3, <3>1 DEF FrameR
      <3>2. CASE dialect = "openai"
        BY <2>2, <2>3, <3>2 DEF FrameR
      <3> QED
        BY <2>3, <3>1, <3>2 DEF Dialects
    <2> QED
      BY <2>4, FrameKShows
  <1> QED
    BY <1>1, <1>2

\* For every provider, dialect and warden, every set of texts, tool calls and
\* bounds: no client ever sees a broken frame. Blocks are numbered in the order
\* they are opened, a delta or a stop belongs to a block of its kind that is
\* open, and the closing message comes when every block is closed, of which
\* streamToIR and the Gemini parser always give one, however the provider
\* interleaves text and tool calls and wherever its body breaks.
THEOREM ClientAlwaysFramed == Spec => []ClientFramed
  <1>1. Init => StreamTyped /\ FrameInv
    BY TypedInit, FrameInit
  <1>2. StreamTyped /\ FrameInv /\ [Next]_vars => StreamTyped' /\ FrameInv'
    BY TypedStep, FrameKept
  <1>3. StreamTyped /\ FrameInv => ClientFramed
    BY FrameInvShows
  <1> QED
    BY <1>1, <1>2, <1>3, PTL DEF Spec

-----------------------------------------------------------------------------
(* Tool calls: what the client was told of them, and what the provider said. *)

CallStart(m) == Opens(m) /\ ToolMessage(m)
CallDelta(m, slot) == Deltas(m) /\ ToolMessage(m) /\ m.slot = slot
StartPlaces(c) == {i \in DOMAIN c : CallStart(c[i])}
GivenPlaces(c, slot) == {i \in DOMAIN c : CallDelta(c[i], slot)}
CallOf(tool, slot) == [tool |-> tool, slot |-> slot]

\* The calls the client was told of, in order; each with its place among the
\* client's blocks; and the pieces of arguments it was given for a place.
Started(c) == Data(At(c, StartPlaces(c)))
CallsIn(c) == {CallOf(c[i].data, c[i].slot) : i \in StartPlaces(c)}
Given(c, slot) == Data(At(c, GivenPlaces(c, slot)))

LEMMA CallOfIs ==
    \A tool, slot : CallOf(tool, slot).tool = tool /\ CallOf(tool, slot).slot = slot
  BY DEF CallOf

\* One element more, of those that count or not.
LEMMA DataAtAppend ==
    ASSUME NEW s, IsSeq(s), NEW x, NEW I, NEW J, \A i \in 1..Len(s) : i \in I <=> i \in J
    PROVE  Data(At(Append(s, x), J))
             = IF Len(s) + 1 \in J THEN Append(Data(At(s, I)), x.data) ELSE Data(At(s, I))
  <1>1. PICK S : s \in Seq(S) /\ x \in S
    BY IsSeqAppend
  <1>2. At(Append(s, x), J) = IF Len(s) + 1 \in J THEN Append(At(s, I), x) ELSE At(s, I)
    BY <1>1, AtAppend
  <1>3. At(s, I) \in Seq(S)
    BY <1>1, AtTyped
  <1>4. Data(Append(At(s, I), x)) = Append(Data(At(s, I)), x.data)
    BY <1>1, <1>3, DataAppend
  <1> QED
    BY <1>2, <1>4

\* One message more, for the calls.
LEMMA CallAppend ==
    ASSUME NEW c, IsSeq(c), NEW m
    PROVE  LET t == Append(c, m)
           IN  /\ IsSeq(t)
               /\ Started(t) = IF CallStart(m) THEN Append(Started(c), m.data) ELSE Started(c)
               /\ CallsIn(t) = IF CallStart(m) THEN CallsIn(c) \cup {CallOf(m.data, m.slot)}
                               ELSE CallsIn(c)
               /\ \A slot : Given(t, slot) = IF CallDelta(m, slot)
                                             THEN Append(Given(c, slot), m.data) ELSE Given(c, slot)
  <1> DEFINE t == Append(c, m)
  <1> DEFINE n == Len(c)
  <1>1. /\ IsSeq(t) /\ n \in Nat /\ DOMAIN c = 1..n /\ DOMAIN t = 1..(n + 1) /\ t[n + 1] = m
        /\ \A i \in 1..n : t[i] = c[i]
    <2>1. Grown(t, c, m)
      BY AppendGrows
    <2> HIDE DEF t
    <2> QED
      BY <2>1 DEF Grown
  <1> HIDE DEF t, n
  <1>2. /\ \A i \in 1..n : i \in StartPlaces(c) <=> i \in StartPlaces(t)
        /\ n + 1 \in StartPlaces(t) <=> CallStart(m)
        /\ StartPlaces(c) \subseteq 1..n /\ StartPlaces(t) \subseteq 1..(n + 1)
    BY <1>1 DEF StartPlaces
  <1>3. Started(t) = IF CallStart(m) THEN Append(Started(c), m.data) ELSE Started(c)
    <2>1. Data(At(t, StartPlaces(t)))
            = IF n + 1 \in StartPlaces(t) THEN Append(Data(At(c, StartPlaces(c))), m.data)
              ELSE Data(At(c, StartPlaces(c)))
      BY <1>2, DataAtAppend DEF t, n
    <2> QED
      BY <1>2, <2>1 DEF Started
  <1>4. CallsIn(t) = IF CallStart(m) THEN CallsIn(c) \cup {CallOf(m.data, m.slot)} ELSE CallsIn(c)
    <2>1. \A i \in 1..(n + 1) : i = n + 1 \/ i \in 1..n
      BY <1>1
    <2>2. \A x \in CallsIn(c) : x \in CallsIn(t)
      BY <1>1, <1>2 DEF CallsIn
    <2>3. CallStart(m) => CallOf(m.data, m.slot) \in CallsIn(t)
      BY <1>1, <1>2 DEF CallsIn
    <2>4. ASSUME NEW x \in CallsIn(t)
          PROVE  x \in CallsIn(c) \/ (CallStart(m) /\ x = CallOf(m.data, m.slot))
      <3>1. PICK i \in StartPlaces(t) : x = CallOf(t[i].data, t[i].slot)
        BY DEF CallsIn
      <3>2. CASE i = n + 1
        BY <1>1, <1>2, <3>1, <3>2
      <3>3. CASE i \in 1..n
        BY <1>1, <1>2, <3>1, <3>3 DEF CallsIn
      <3> QED
        BY <1>2, <2>1, <3>2, <3>3
    <2> QED
      BY <2>2, <2>3, <2>4
  <1>5. ASSUME NEW slot
        PROVE  Given(t, slot) = IF CallDelta(m, slot)
                                THEN Append(Given(c, slot), m.data) ELSE Given(c, slot)
    <2>1. /\ \A i \in 1..n : i \in GivenPlaces(c, slot) <=> i \in GivenPlaces(t, slot)
          /\ n + 1 \in GivenPlaces(t, slot) <=> CallDelta(m, slot)
      BY <1>1 DEF GivenPlaces
    <2>2. Data(At(t, GivenPlaces(t, slot)))
            = IF n + 1 \in GivenPlaces(t, slot)
              THEN Append(Data(At(c, GivenPlaces(c, slot))), m.data)
              ELSE Data(At(c, GivenPlaces(c, slot)))
      BY <2>1, DataAtAppend DEF t, n
    <2> QED
      BY <2>1, <2>2 DEF Given
  <1> QED
    BY <1>1, <1>3, <1>4, <1>5 DEF t

\* The provider's side: which calls it has named, in which order, and the pieces
\* of arguments it has sent for each.
Calling(c) == c.kind \in {"tool", "tool_start"}
Arguing(c, tool) == c.kind \in {"tool", "args"} /\ c.tool = tool /\ c.data # None
PiecesOf(s) == {i \in DOMAIN s : Calling(s[i])}
FirstsOf(s) == {i \in PiecesOf(s) : \A j \in PiecesOf(s) : j < i => s[j].tool # s[i].tool}
ArguedPlaces(s, tool) == {i \in DOMAIN s : Arguing(s[i], tool)}
NamesOf(pieces) == [i \in DOMAIN pieces |-> pieces[i].tool]
Named(s) == NamesOf(At(s, FirstsOf(s)))
NamedIn(s) == {s[i].tool : i \in PiecesOf(s)}
Argued(s, tool) == Data(At(s, ArguedPlaces(s, tool)))

LEMMA NamesAppend ==
    ASSUME NEW S, NEW s \in Seq(S), NEW x \in S
    PROVE  NamesOf(Append(s, x)) = Append(NamesOf(s), x.tool)
  <1> DEFINE t == Append(s, x)
  <1>1. /\ t \in Seq(S) /\ Len(t) = Len(s) + 1 /\ t[Len(s) + 1] = x /\ Len(s) \in Nat
        /\ \A i \in 1..Len(s) : t[i] = s[i]
    BY AppendProperties
  <1>2. DOMAIN s = 1..Len(s) /\ DOMAIN t = 1..(Len(s) + 1)
    BY <1>1, LenProperties
  <1> DEFINE D == {y.tool : y \in S}
  <1>3. NamesOf(s) \in Seq(D) /\ Len(NamesOf(s)) = Len(s)
    <2>1. NamesOf(s) = [i \in 1..Len(s) |-> s[i].tool]
      BY <1>2 DEF NamesOf
    <2>2. \A i \in 1..Len(s) : s[i].tool \in D
      OBVIOUS
    <2> HIDE DEF D
    <2> QED
      BY <1>1, <2>1, <2>2
  <1>4. NamesOf(t) \in Seq(D) /\ Len(NamesOf(t)) = Len(s) + 1
    <2>1. NamesOf(t) = [i \in 1..(Len(s) + 1) |-> t[i].tool]
      BY <1>2 DEF NamesOf
    <2>2. \A i \in 1..(Len(s) + 1) : t[i].tool \in D
      BY <1>1
    <2> HIDE DEF D, t
    <2> QED
      BY <1>1, <2>1, <2>2
  <1>5. x.tool \in D
    OBVIOUS
  <1>6. /\ Append(NamesOf(s), x.tool) \in Seq(D) /\ Len(Append(NamesOf(s), x.tool)) = Len(s) + 1
        /\ \A i \in 1..Len(s) : Append(NamesOf(s), x.tool)[i] = NamesOf(s)[i]
        /\ Append(NamesOf(s), x.tool)[Len(s) + 1] = x.tool
    BY <1>3, <1>5, AppendProperties
  <1>7. \A i \in 1..(Len(s) + 1) : NamesOf(t)[i] = Append(NamesOf(s), x.tool)[i]
    <2> SUFFICES ASSUME NEW i \in 1..(Len(s) + 1)
                 PROVE  NamesOf(t)[i] = Append(NamesOf(s), x.tool)[i]
      OBVIOUS
    <2>1. NamesOf(t)[i] = t[i].tool
      BY <1>2 DEF NamesOf
    <2>2. CASE i = Len(s) + 1
      BY <1>1, <1>6, <2>1, <2>2
    <2>3. CASE i # Len(s) + 1
      <3>1. i \in 1..Len(s)
        BY <1>1, <2>3
      <3>2. NamesOf(s)[i] = s[i].tool
        BY <1>2, <3>1 DEF NamesOf
      <3> QED
        BY <1>1, <1>6, <2>1, <3>1, <3>2
    <2> QED
      BY <2>2, <2>3
  <1> HIDE DEF D
  <1> QED
    BY <1>4, <1>6, <1>7, SeqEqual

\* One chunk more, for the calls.
LEMMA NamedAppend ==
    ASSUME NEW s, IsSeq(s), NEW c
    PROVE  LET t == Append(s, c)
           IN  /\ NamedIn(t) = IF Calling(c) THEN NamedIn(s) \cup {c.tool} ELSE NamedIn(s)
               /\ Named(t) = IF Calling(c) /\ c.tool \notin NamedIn(s)
                             THEN Append(Named(s), c.tool) ELSE Named(s)
               /\ \A tool : Argued(t, tool) = IF Arguing(c, tool)
                                              THEN Append(Argued(s, tool), c.data)
                                              ELSE Argued(s, tool)
  <1> DEFINE t == Append(s, c)
  <1> DEFINE n == Len(s)
  <1>1. /\ IsSeq(t) /\ n \in Nat /\ DOMAIN s = 1..n /\ DOMAIN t = 1..(n + 1) /\ t[n + 1] = c
        /\ \A i \in 1..n : t[i] = s[i]
    <2>1. Grown(t, s, c)
      BY AppendGrows
    <2> HIDE DEF t
    <2> QED
      BY <2>1 DEF Grown
  <1>2. PICK S : s \in Seq(S) /\ c \in S
    BY IsSeqAppend
  <1> HIDE DEF t, n
  <1>3. /\ \A i \in 1..n : i \in PiecesOf(s) <=> i \in PiecesOf(t)
        /\ n + 1 \in PiecesOf(t) <=> Calling(c)
        /\ PiecesOf(s) \subseteq 1..n /\ PiecesOf(t) \subseteq 1..(n + 1)
    BY <1>1 DEF PiecesOf
  <1>4. \A i \in 1..(n + 1) : i = n + 1 \/ i \in 1..n
    BY <1>1
  <1>5. NamedIn(t) = IF Calling(c) THEN NamedIn(s) \cup {c.tool} ELSE NamedIn(s)
    <2>1. \A x \in NamedIn(s) : x \in NamedIn(t)
      BY <1>1, <1>3 DEF NamedIn
    <2>2. Calling(c) => c.tool \in NamedIn(t)
      BY <1>1, <1>3 DEF NamedIn
    <2>3. ASSUME NEW x \in NamedIn(t) PROVE x \in NamedIn(s) \/ (Calling(c) /\ x = c.tool)
      <3>1. PICK i \in PiecesOf(t) : x = t[i].tool
        BY DEF NamedIn
      <3>2. CASE i = n + 1
        BY <1>1, <1>3, <3>1, <3>2
      <3>3. CASE i \in 1..n
        BY <1>1, <1>3, <3>1, <3>3 DEF NamedIn
      <3> QED
        BY <1>3, <1>4, <3>2, <3>3
    <2> QED
      BY <2>1, <2>2, <2>3
  <1>6. \A i \in 1..n : i \in FirstsOf(s) <=> i \in FirstsOf(t)
    <2> SUFFICES ASSUME NEW i \in 1..n PROVE i \in FirstsOf(s) <=> i \in FirstsOf(t)
      OBVIOUS
    <2>1. \A j \in 1..(n + 1) : j < i => j \in 1..n
      BY <1>1
    <2>2. \A j \in PiecesOf(t) : j < i => j \in PiecesOf(s) /\ t[j] = s[j]
      BY <1>1, <1>3, <2>1
    <2>3. \A j \in PiecesOf(s) : j \in PiecesOf(t) /\ t[j] = s[j]
      BY <1>1, <1>3
    <2> QED
      BY <1>1, <1>3, <2>2, <2>3 DEF FirstsOf
  <1>7. n + 1 \in FirstsOf(t) <=> Calling(c) /\ c.tool \notin NamedIn(s)
    <2>1. \A j \in 1..(n + 1) : j < n + 1 <=> j \in 1..n
      BY <1>1
    <2>2. (\A j \in PiecesOf(t) : j < n + 1 => t[j].tool # c.tool) <=> c.tool \notin NamedIn(s)
      BY <1>1, <1>3, <2>1 DEF NamedIn
    <2> QED
      BY <1>1, <1>3, <2>2 DEF FirstsOf
  <1>8. Named(t) = IF Calling(c) /\ c.tool \notin NamedIn(s) THEN Append(Named(s), c.tool)
                   ELSE Named(s)
    <2>1. At(t, FirstsOf(t)) = IF n + 1 \in FirstsOf(t) THEN Append(At(s, FirstsOf(s)), c)
                               ELSE At(s, FirstsOf(s))
      BY <1>2, <1>6, AtAppend DEF t, n
    <2>2. At(s, FirstsOf(s)) \in Seq(S)
      BY <1>2, AtTyped
    <2>3. NamesOf(Append(At(s, FirstsOf(s)), c)) = Append(NamesOf(At(s, FirstsOf(s))), c.tool)
      BY <1>2, <2>2, NamesAppend
    <2> QED
      BY <1>7, <2>1, <2>3 DEF Named
  <1>9. ASSUME NEW tool
        PROVE  Argued(t, tool) = IF Arguing(c, tool) THEN Append(Argued(s, tool), c.data)
                                 ELSE Argued(s, tool)
    <2>1. /\ \A i \in 1..n : i \in ArguedPlaces(s, tool) <=> i \in ArguedPlaces(t, tool)
          /\ n + 1 \in ArguedPlaces(t, tool) <=> Arguing(c, tool)
      BY <1>1 DEF ArguedPlaces
    <2>2. Data(At(t, ArguedPlaces(t, tool)))
            = IF n + 1 \in ArguedPlaces(t, tool)
              THEN Append(Data(At(s, ArguedPlaces(s, tool))), c.data)
              ELSE Data(At(s, ArguedPlaces(s, tool)))
      BY <2>1, DataAtAppend DEF t, n
    <2> QED
      BY <2>1, <2>2 DEF Argued
  <1> QED
    BY <1>5, <1>8, <1>9 DEF t

\* What a client knows of its calls, the same as before or with one thing more.
SameCalls(c, d) ==
    /\ IsSeq(d) /\ Started(d) = Started(c) /\ CallsIn(d) = CallsIn(c)
    /\ \A slot : Given(d, slot) = Given(c, slot)
CallStarts(c, d, slot, tool) ==
    /\ IsSeq(d) /\ Started(d) = Append(Started(c), tool)
    /\ CallsIn(d) = CallsIn(c) \cup {CallOf(tool, slot)}
    /\ \A x : Given(d, x) = Given(c, x)
CallGets(c, d, slot, piece) ==
    /\ IsSeq(d) /\ Started(d) = Started(c) /\ CallsIn(d) = CallsIn(c)
    /\ Given(d, slot) = Append(Given(c, slot), piece)
    /\ \A x : x # slot => Given(d, x) = Given(c, x)

\* Messages that say nothing of a call.
Bearing(m) == ToolMessage(m) /\ (Opens(m) \/ Deltas(m))
CalmMessages(ms) ==
    \/ ms = <<>>
    \/ \E m : ms = <<m>> /\ ~Bearing(m)
    \/ \E m, n : ms = <<m, n>> /\ ~Bearing(m) /\ ~Bearing(n)

LEMMA CalmAppend ==
    ASSUME NEW c, IsSeq(c), NEW ms, CalmMessages(ms)
    PROVE  SameCalls(c, c \o ms)
  <1>1. ASSUME NEW x, IsSeq(x), NEW m, ~Bearing(m)
        PROVE  SameCalls(x, Append(x, m))
    <2>1. ~CallStart(m) /\ \A slot : ~CallDelta(m, slot)
      BY <1>1 DEF Bearing, CallStart, CallDelta
    <2> QED
      BY <1>1, <2>1, CallAppend DEF SameCalls
  <1>2. CASE ms = <<>>
    <2>1. c \o ms = c
      BY <1>2, IsSeqFew
    <2> QED
      BY <2>1 DEF SameCalls
  <1>3. ASSUME NEW m, ms = <<m>>, ~Bearing(m) PROVE SameCalls(c, c \o ms)
    <2>1. c \o ms = Append(c, m)
      BY <1>3, IsSeqAppend
    <2> QED
      BY <1>1, <1>3, <2>1
  <1>4. ASSUME NEW m, NEW n, ms = <<m, n>>, ~Bearing(m), ~Bearing(n)
        PROVE  SameCalls(c, c \o ms)
    <2>1. c \o ms = Append(Append(c, m), n)
      BY <1>4, AppendTwo
    <2> DEFINE d == Append(c, m)
    <2>2. SameCalls(c, d)
      BY <1>1, <1>4
    <2> HIDE DEF d
    <2>3. SameCalls(d, Append(d, n))
      BY <1>1, <1>4, <2>2 DEF SameCalls
    <2>4. SameCalls(c, Append(d, n))
      BY <2>2, <2>3 DEF SameCalls
    <2> QED
      BY <2>1, <2>4 DEF d
  <1> QED
    BY <1>2, <1>3, <1>4 DEF CalmMessages

\* Which messages bear a call.
LEMMA BearingIs ==
    \A type, slot, what, data :
        /\ what # "tool_use" => ~Bearing(Message(type, slot, what, data))
        /\ type \notin OpenTypes \cup DeltaTypes => ~Bearing(Message(type, slot, what, data))
  BY MessageIs DEF Bearing, ToolMessage, Opens, Deltas, OpenTypes, DeltaTypes

CalmKinds == {"stream_start", "content_block_start", "signature_delta", "content_block_end",
              "text_delta", "reasoning_delta", "finish", "usage", "stream_end"}
Calm(kind, data) ==
    /\ kind \in CalmKinds
    /\ kind = "content_block_start" => data \in {"text", "reasoning"}

LEMMA CalmFew ==
    /\ CalmMessages(<<>>)
    /\ \A type, slot, what, d :
          what # "tool_use" \/ type \notin OpenTypes \cup DeltaTypes =>
             CalmMessages(<<Message(type, slot, what, d)>>)
    /\ \A t1, s1, w1, d1, t2, s2, w2, d2 :
          t1 \notin OpenTypes \cup DeltaTypes /\ t2 \notin OpenTypes \cup DeltaTypes =>
             CalmMessages(<<Message(t1, s1, w1, d1), Message(t2, s2, w2, d2)>>)
  <1>1. /\ CalmMessages(<<>>)
        /\ \A m : ~Bearing(m) => CalmMessages(<<m>>)
        /\ \A m, n : ~Bearing(m) /\ ~Bearing(n) => CalmMessages(<<m, n>>)
    BY Zenon DEF CalmMessages
  <1>2. ASSUME NEW type, NEW slot, NEW what, NEW d,
               what # "tool_use" \/ type \notin OpenTypes \cup DeltaTypes
        PROVE  CalmMessages(<<Message(type, slot, what, d)>>)
    <2> DEFINE m == Message(type, slot, what, d)
    <2>1. ~Bearing(m)
      BY <1>2, BearingIs
    <2> HIDE DEF m
    <2>2. CalmMessages(<<m>>)
      BY <1>1, <2>1, Zenon
    <2> QED
      BY <2>2 DEF m
  <1>3. ASSUME NEW t1, NEW s1, NEW w1, NEW d1, NEW t2, NEW s2, NEW w2, NEW d2,
               t1 \notin OpenTypes \cup DeltaTypes, t2 \notin OpenTypes \cup DeltaTypes
        PROVE  CalmMessages(<<Message(t1, s1, w1, d1), Message(t2, s2, w2, d2)>>)
    <2> DEFINE m == Message(t1, s1, w1, d1)
    <2> DEFINE n == Message(t2, s2, w2, d2)
    <2>1. ~Bearing(m) /\ ~Bearing(n)
      BY <1>3, BearingIs
    <2> HIDE DEF m, n
    <2>2. CalmMessages(<<m, n>>)
      BY <1>1, <2>1, Zenon
    <2> QED
      BY <2>2 DEF m, n
  <1> QED
    BY <1>1, <1>2, <1>3, Zenon

LEMMA CalmWrites ==
    ASSUME dialect \in Dialects, NEW w, NEW kind, NEW index, NEW data, Calm(kind, data)
    PROVE  /\ CalmMessages(Write(w, Event(kind, index, data)).messages)
           /\ dialect = "openai" => Write(w, Event(kind, index, data)).writer = w
  <1> DEFINE r == Write(w, Event(kind, index, data))
  <1>1. \A type \in {"message_start", "ping", "content_block_stop", "message_delta",
                     "message_stop", "content", "finish", "usage", "[DONE]",
                     "output_item.done", "response.completed"} :
           type \notin OpenTypes \cup DeltaTypes
    BY DEF OpenTypes, DeltaTypes
  <1>2. PICK nil : nil = ""
    OBVIOUS
  <1>3. "tool_use" # nil
    BY <1>2
  <1>4. "text" # "tool_use" /\ "reasoning" # "tool_use" /\ "signature" # "tool_use"
    OBVIOUS
  <1> HIDE DEF r
  <1>5. CASE dialect = "anthropic"
    <2>1. AnthropicWritten(w, kind, index, data, r)
      BY <1>5, AnthropicWrites DEF r
    <2> DEFINE One == \E type, slot, what, d :
           /\ r.messages = <<Message(type, slot, what, d)>>
           /\ what # "tool_use" \/ type \in {"content_block_stop"}
    <2>2. CASE kind = "stream_start"
      <3>1. r.messages = <<Message("message_start", None, nil, nil),
                           Message("ping", None, nil, nil)>>
        BY <1>2, <2>1, <2>2 DEF AnthropicWritten
      <3>2. CalmMessages(r.messages)
        BY <1>1, <3>1, CalmFew
      <3> QED
        BY <1>5, <3>2 DEF r
    <2>3. CASE kind = "stream_end"
      <3>1. r.messages = <<Message("message_delta", None, nil, Told(w.reason, w.usage)),
                           Message("message_stop", None, nil, nil)>>
        BY <1>2, <2>1, <2>3 DEF AnthropicWritten
      <3>2. CalmMessages(r.messages)
        BY <1>1, <3>1, CalmFew
      <3> QED
        BY <1>5, <3>2 DEF r
    <2>4. CASE kind \in {"finish", "usage"}
      <3>1. r.messages = <<>>
        BY <2>1, <2>4 DEF AnthropicWritten
      <3> QED
        BY <1>5, <3>1, CalmFew DEF r
    <2>5. CASE kind \notin {"stream_start", "stream_end", "finish", "usage"}
      <3>1. One
        <4>1. CASE kind = "text_delta"
          <5>1. r.messages = <<Message("content_block_delta", index, "text", data)>>
            BY <2>1, <4>1 DEF AnthropicWritten
          <5> QED
            BY <1>4, <5>1
        <4>2. CASE kind = "reasoning_delta"
          <5>1. r.messages = <<Message("content_block_delta", index, "reasoning", data)>>
            BY <2>1, <4>2 DEF AnthropicWritten
          <5> QED
            BY <1>4, <5>1
        <4>3. CASE kind = "signature_delta"
          <5>1. r.messages = <<Message("content_block_delta", index, "signature", nil)>>
            BY <1>2, <2>1, <4>3 DEF AnthropicWritten
          <5> QED
            BY <1>4, <5>1
        <4>4. CASE kind = "content_block_start"
          <5>1. r.messages = <<Message("content_block_start", index, data, nil)>>
            BY <1>2, <2>1, <4>4 DEF AnthropicWritten
          <5>2. data # "tool_use"
            BY <4>4 DEF Calm
          <5> QED
            BY <5>1, <5>2
        <4>5. CASE kind = "content_block_end"
          <5>1. r.messages = <<Message("content_block_stop", index, nil, nil)>>
            BY <1>2, <2>1, <4>5 DEF AnthropicWritten
          <5> QED
            BY <5>1
        <4> HIDE DEF One
        <4> QED
          BY <2>5, <4>1, <4>2, <4>3, <4>4, <4>5 DEF Calm, CalmKinds
      <3>2. CalmMessages(r.messages)
        BY <1>1, <3>1, CalmFew
      <3> QED
        BY <1>5, <3>2 DEF r
    <2> QED
      BY <2>2, <2>3, <2>4, <2>5
  <1>6. CASE dialect = "openai"
    <2>1. OpenAIWritten(w, kind, index, data, r)
      BY <1>6, OpenAIWrites DEF r
    <2>2. \/ r.messages = <<>>
          \/ \E type, slot, what, d :
               /\ r.messages = <<Message(type, slot, what, d)>>
               /\ type \in {"content", "finish", "usage", "[DONE]"}
      BY <2>1 DEF OpenAIWritten, Calm, CalmKinds
    <2>3. CalmMessages(r.messages)
      BY <1>1, <2>2, CalmFew
    <2>4. r.writer = w
      BY <2>1 DEF OpenAIWritten, Calm, CalmKinds
    <2> QED
      BY <2>3, <2>4 DEF r
  <1>7. CASE dialect = "responses"
    <2>1. ResponsesWritten(w, kind, data, r.messages)
      BY <1>7, ResponsesWrites DEF r
    <2> DEFINE One == \E type, slot, what, d :
           /\ r.messages = <<Message(type, slot, what, d)>>
           /\ what # "tool_use" \/ type \in {"output_item.done", "response.completed"}
    <2>2. r.messages = <<>> \/ One
      <3>1. CASE kind \in TextKinds
        <4>1. \/ r.messages = <<>>
              \/ r.messages = <<Message("output_text.delta", w.cur[1].slot, "text", data)>>
              \/ r.messages = <<Message("reasoning_summary_text.delta", w.cur[1].slot,
                                        "reasoning", data)>>
          BY <2>1, <3>1 DEF ResponsesWritten, TextKinds
        <4> QED
          BY <1>4, <4>1
      <3>2. CASE kind = "content_block_start"
        <4>1. r.messages = <<Message("output_item.added", w.index, data, nil)>>
          BY <1>2, <2>1, <3>2 DEF ResponsesWritten
        <4>2. data # "tool_use"
          BY <3>2 DEF Calm
        <4> QED
          BY <4>1, <4>2
      <3>3. CASE kind = "content_block_end"
        <4>1. r.messages = <<>> \/ \E x : r.messages = <<Message("output_item.done", w.cur[1].slot,
                                                                w.cur[1].type, x)>>
          BY <2>1, <3>3 DEF ResponsesWritten
        <4> QED
          BY <4>1
      <3>4. CASE kind = "stream_end"
        <4>1. \E x : r.messages = <<Message("response.completed", None, nil, x)>>
          BY <1>2, <2>1, <3>4 DEF ResponsesWritten
        <4> QED
          BY <4>1
      <3>5. CASE kind \in {"stream_start", "finish", "usage", "signature_delta"}
        BY <2>1, <3>5 DEF ResponsesWritten
      <3> HIDE DEF One
      <3> QED
        BY <3>1, <3>2, <3>3, <3>4, <3>5 DEF Calm, CalmKinds, TextKinds
    <2>3. CalmMessages(r.messages)
      BY <1>1, <2>2, CalmFew
    <2> QED
      BY <1>7, <2>3 DEF r
  <1> QED
    BY <1>5, <1>6, <1>7 DEF Dialects

\* One event that says nothing of a call, and any number of them.
CalmPassed(acc, after) ==
    /\ SameCalls(acc.client, after.client)
    /\ dialect = "openai" => after.writer = acc.writer

LEMMA CalmStep ==
    ASSUME dialect \in Dialects, NEW acc, IsSeq(acc.client),
           NEW kind, NEW index, NEW data, Calm(kind, data)
    PROVE  CalmPassed(acc, Pass(acc, Event(kind, index, data)))
  <1> DEFINE after == Pass(acc, Event(kind, index, data))
  <1>1. PICK d : PassedAs(acc, kind, index, d, after) /\ (kind \notin TextKinds => d = data)
    BY Passed
  <1> DEFINE r == Write(acc.writer, Event(kind, index, d))
  <1>2. after.writer = r.writer /\ after.client = acc.client \o r.messages
    BY <1>1 DEF PassedAs
  <1>3. Calm(kind, d)
    BY <1>1 DEF Calm, TextKinds
  <1>4. CalmMessages(r.messages) /\ (dialect = "openai" => r.writer = acc.writer)
    BY <1>3, CalmWrites
  <1> HIDE DEF after, r
  <1>5. SameCalls(acc.client, acc.client \o r.messages)
    BY <1>4, CalmAppend
  <1>6. CalmPassed(acc, after)
    BY <1>2, <1>4, <1>5 DEF CalmPassed
  <1> QED
    BY <1>6 DEF after

LEMMA CalmTwice ==
    ASSUME NEW a, NEW b, NEW c, CalmPassed(a, b), CalmPassed(b, c)
    PROVE  CalmPassed(a, c)
  BY DEF CalmPassed, SameCalls

SilentKinds == CalmKinds \ {"content_block_start"}

LEMMA CalmSteps ==
    ASSUME dialect \in Dialects, NEW start, IsSeq(start.client),
           NEW events, EventsOf(SilentKinds, events)
    PROVE  CalmPassed(start, PassAll(start, events))
  <1>1. PICK S : events \in Seq(S) /\ \A x \in S : EventOf(SilentKinds, x)
    BY DEF EventsOf
  <1> DEFINE n == Len(events)
  <1>2. n \in Nat /\ \A i \in 1..n : EventOf(SilentKinds, events[i])
    BY <1>1
  <1>3. PICK h : Passes(start, events, h) /\ h[n] = PassAll(start, events)
    BY <1>2, PassTable
  <1> DEFINE Good(k) == CalmPassed(start, h[k])
  <1> DEFINE R == {k \in Nat : k <= n => Good(k)}
  <1>4. Good(0)
    BY <1>3 DEF Passes, CalmPassed, SameCalls
  <1>5. ASSUME NEW k \in Nat, k + 1 <= n, Good(k) PROVE Good(k + 1)
    <2>1. k + 1 \in 1..n /\ (k + 1) - 1 = k
      BY <1>2, <1>5
    <2>2. CalmPassed(start, h[k])
      BY <1>5
    <2>3. h[k + 1] = Pass(h[k], events[k + 1])
      BY <1>3, <2>1 DEF Passes
    <2>4. PICK kind \in SilentKinds : \E index, data : events[k + 1] = Event(kind, index, data)
      BY <1>2, <2>1 DEF EventOf
    <2>5. PICK index, data : events[k + 1] = Event(kind, index, data)
      BY <2>4
    <2>6. Calm(kind, data)
      BY DEF Calm, SilentKinds
    <2>7. IsSeq(h[k].client)
      BY <2>2 DEF CalmPassed, SameCalls
    <2>8. CalmPassed(h[k], Pass(h[k], Event(kind, index, data)))
      BY <2>6, <2>7, CalmStep
    <2>9. CalmPassed(h[k], h[k + 1])
      BY <2>3, <2>5, <2>8
    <2>10. CalmPassed(start, h[k + 1])
      BY <2>2, <2>9, CalmTwice
    <2> QED
      BY <2>10
  <1> HIDE DEF Good
  <1>6. 0 \in R /\ R \in SUBSET Nat
    BY <1>4
  <1>7. ASSUME NEW k \in R PROVE k + 1 \in R
    BY <1>2, <1>5
  <1>8. R = Nat
    <2> HIDE DEF R
    <2> QED
      BY <1>6, <1>7, Induction
  <1>9. Good(n)
    BY <1>2, <1>8
  <1> QED
    BY <1>3, <1>9 DEF Good

\* How many places a client's blocks of calls take up, and the place of the block
\* that the events call b.
Count(w, n) == IF dialect = "openai" THEN Cardinality(DOMAIN w.byBlock) ELSE n
SlotOf(w, b) == IF dialect = "openai" THEN w.byBlock[b] ELSE b
HasSlot(w, b) == dialect = "openai" => b \in DOMAIN w.byBlock

LEMMA FramedClient ==
    ASSUME dialect \in Dialects, NEW acc, NEW n, NEW blocks, Framed(acc, n, blocks)
    PROVE  IsSeq(acc.client) /\ n \in Nat /\ Count(acc.writer, n) \in Nat
  <1>1. FrameR(dialect, provider, acc, n, blocks)
    BY DEF Framed
  <1>2. dialect = "openai" => Cardinality(DOMAIN acc.writer.byBlock) \in Nat
    BY <1>1, FS_CardinalityType DEF FrameR
  <1> QED
    BY <1>1, <1>2 DEF FrameR, FrameK, Dialects, Count

\* A call is started at the next place.
LEMMA StartStep ==
    ASSUME dialect \in Dialects, NEW acc, NEW n, NEW blocks, Framed(acc, n, blocks),
           dialect = "responses" => blocks = {}, NEW tool
    PROVE  LET after == Pass(acc, Event("tool_call_start", n, tool))
           IN  /\ CallStarts(acc.client, after.client, Count(acc.writer, n), tool)
               /\ Count(after.writer, n + 1) = Count(acc.writer, n) + 1
               /\ HasSlot(after.writer, n) /\ SlotOf(after.writer, n) = Count(acc.writer, n)
               /\ \A b : b # n /\ HasSlot(acc.writer, b) =>
                     HasSlot(after.writer, b) /\ SlotOf(after.writer, b) = SlotOf(acc.writer, b)
  <1> DEFINE kind == "tool_call_start"
  <1> DEFINE after == Pass(acc, Event(kind, n, tool))
  <1> DEFINE c == acc.client
  <1> DEFINE w == acc.writer
  <1>0. FrameR(dialect, provider, acc, n, blocks) /\ IsSeq(c) /\ n \in Nat
    BY FramedClient DEF Framed
  <1>1. PICK d : PassedAs(acc, kind, n, d, after) /\ (kind \notin TextKinds => d = tool)
    BY Passed
  <1> DEFINE r == Write(w, Event(kind, n, tool))
  <1>2. after.writer = r.writer /\ after.client = c \o r.messages
    <2>1. d = tool
      BY <1>1 DEF TextKinds
    <2> QED
      BY <1>1, <2>1 DEF PassedAs
  <1>3. ASSUME NEW type \in OpenTypes, NEW slot, r.messages = <<Message(type, slot, "tool_use", tool)>>
        PROVE  CallStarts(c, after.client, slot, tool)
    <2> DEFINE m == Message(type, slot, "tool_use", tool)
    <2>1. m.type = type /\ m.slot = slot /\ m.what = "tool_use" /\ m.data = tool
      BY MessageIs
    <2> HIDE DEF m
    <2>2. CallStart(m) /\ \A s : ~CallDelta(m, s)
      BY <2>1 DEF CallStart, CallDelta, Opens, Deltas, ToolMessage, OpenTypes
    <2>3. after.client = Append(c, m)
      <3>1. c \o <<m>> = Append(c, m)
        BY <1>0, IsSeqAppend
      <3>2. r.messages = <<m>>
        BY <1>3 DEF m
      <3> HIDE DEF after, r, c
      <3> QED
        BY <1>2, <3>1, <3>2
    <2> HIDE DEF after, c, r
    <2>4. CallStarts(c, Append(c, m), slot, tool)
      BY <1>0, <2>1, <2>2, CallAppend DEF CallStarts
    <2> QED
      BY <2>3, <2>4
  <1> HIDE DEF r, after
  <1>4. CASE dialect = "anthropic"
    <2>1. AnthropicWritten(w, kind, n, tool, r)
      BY <1>4, AnthropicWrites DEF r
    <2>2. r.messages = <<Message("content_block_start", n, "tool_use", tool)>>
      BY <2>1 DEF AnthropicWritten
    <2>3. CallStarts(c, after.client, n, tool)
      BY <1>3, <2>2 DEF OpenTypes
    <2> QED
      BY <1>4, <2>3 DEF after, Count, SlotOf, HasSlot
  <1>5. CASE dialect = "openai"
    <2>1. OpenAIWritten(w, kind, n, tool, r)
      BY <1>5, OpenAIWrites DEF r
    <2> DEFINE at == w.byBlock
    <2> DEFINE size == Cardinality(DOMAIN at)
    <2>2. /\ r.messages = <<Message("chunk", size, "tool_use", tool)>>
          /\ r.writer = WithBlock(w, n)
      BY <2>1 DEF OpenAIWritten
    <2>3. CallStarts(c, after.client, size, tool)
      BY <1>3, <2>2 DEF OpenTypes
    <2>4. IsFiniteSet(DOMAIN at) /\ \A b \in DOMAIN at : b \in Nat /\ b < n
      BY <1>0, <1>5 DEF FrameR
    <2>5. n \notin DOMAIN at
      BY <1>0, <2>4
    <2>6. Cardinality(DOMAIN at \cup {n}) = size + 1
      BY <2>4, <2>5, FS_AddElement
    <2> DEFINE next == [k \in DOMAIN at \cup {n} |-> IF k = n THEN size ELSE at[k]]
    <2>7. after.writer.byBlock = next
      <3>1. after.writer = [byBlock |-> next]
        BY <1>2, <2>2 DEF WithBlock
      <3> HIDE DEF next
      <3> QED
        BY <3>1
    <2>8. DOMAIN next = DOMAIN at \cup {n} /\ next[n] = size /\ \A b \in DOMAIN at : next[b] = at[b]
      BY <2>5
    <2> HIDE DEF next, size, at
    <2>9. Count(w, n) = size /\ Count(after.writer, n + 1) = size + 1
      BY <1>5, <2>6, <2>7, <2>8 DEF Count, size, at
    <2>10. HasSlot(after.writer, n) /\ SlotOf(after.writer, n) = size
      BY <1>5, <2>7, <2>8 DEF HasSlot, SlotOf
    <2>11. \A b : HasSlot(w, b) =>
              HasSlot(after.writer, b) /\ SlotOf(after.writer, b) = SlotOf(w, b)
      BY <1>5, <2>7, <2>8 DEF HasSlot, SlotOf, at
    <2> QED
      BY <2>3, <2>9, <2>10, <2>11 DEF after
  <1>6. CASE dialect = "responses"
    <2>1. ResponsesWritten(w, kind, tool, r.messages)
      BY <1>6, ResponsesWrites DEF r
    <2>2. r.messages = <<Message("output_item.added", w.index, "tool_use", tool)>>
      BY <2>1 DEF ResponsesWritten
    <2>3. w.index = n
      <3>1. blocks = {}
        BY <1>6
      <3>2. w.cur # <<>> => \E x : x \in blocks
        BY <1>0, <1>6 DEF FrameR
      <3> QED
        BY <1>0, <1>6, <3>1, <3>2 DEF FrameR
    <2>4. CallStarts(c, after.client, n, tool)
      BY <1>3, <2>2, <2>3 DEF OpenTypes
    <2> QED
      BY <1>6, <2>4 DEF after, Count, SlotOf, HasSlot
  <1> QED
    BY <1>4, <1>5, <1>6 DEF Dialects

\* A piece of arguments goes to the place of its block.
LEMMA DeltaStep ==
    ASSUME dialect \in Dialects, NEW acc, NEW n, NEW blocks, Framed(acc, n, blocks),
           NEW index, HasOpen(blocks, index, "tool_use"), NEW piece
    PROVE  LET after == Pass(acc, Event("tool_call_delta", index, piece))
           IN  /\ CallGets(acc.client, after.client, SlotOf(acc.writer, index), piece)
               /\ dialect = "openai" => after.writer = acc.writer
  <1> DEFINE kind == "tool_call_delta"
  <1> DEFINE after == Pass(acc, Event(kind, index, piece))
  <1> DEFINE c == acc.client
  <1> DEFINE w == acc.writer
  <1>0. FrameR(dialect, provider, acc, n, blocks) /\ IsSeq(c)
    BY FramedClient DEF Framed
  <1>1. PICK d : PassedAs(acc, kind, index, d, after) /\ (kind \notin TextKinds => d = piece)
    BY Passed
  <1> DEFINE r == Write(w, Event(kind, index, piece))
  <1>2. after.writer = r.writer /\ after.client = c \o r.messages
    <2>1. d = piece
      BY <1>1 DEF TextKinds
    <2> QED
      BY <1>1, <2>1 DEF PassedAs
  <1>3. ASSUME NEW type \in DeltaTypes, NEW slot, r.messages = <<Message(type, slot, "tool_use", piece)>>
        PROVE  CallGets(c, after.client, slot, piece)
    <2> DEFINE m == Message(type, slot, "tool_use", piece)
    <2>1. m.type = type /\ m.slot = slot /\ m.what = "tool_use" /\ m.data = piece
      BY MessageIs
    <2> HIDE DEF m
    <2>2. ~CallStart(m) /\ CallDelta(m, slot) /\ \A s : s # slot => ~CallDelta(m, s)
      BY <2>1 DEF CallStart, CallDelta, Opens, Deltas, ToolMessage, DeltaTypes
    <2>3. after.client = Append(c, m)
      <3>1. c \o <<m>> = Append(c, m)
        BY <1>0, IsSeqAppend
      <3>2. r.messages = <<m>>
        BY <1>3 DEF m
      <3> HIDE DEF after, r, c
      <3> QED
        BY <1>2, <3>1, <3>2
    <2> HIDE DEF after, c, r
    <2>4. CallGets(c, Append(c, m), slot, piece)
      BY <1>0, <2>1, <2>2, CallAppend DEF CallGets
    <2> QED
      BY <2>3, <2>4
  <1> HIDE DEF r, after
  <1>4. CASE dialect = "anthropic"
    <2>1. AnthropicWritten(w, kind, index, piece, r)
      BY <1>4, AnthropicWrites DEF r
    <2>2. r.messages = <<Message("content_block_delta", index, "tool_use", piece)>>
      BY <2>1 DEF AnthropicWritten
    <2>3. CallGets(c, after.client, index, piece)
      BY <1>3, <2>2 DEF DeltaTypes
    <2> QED
      BY <1>4, <2>3 DEF after, SlotOf
  <1>5. CASE dialect = "openai"
    <2>1. OpenAIWritten(w, kind, index, piece, r)
      BY <1>5, OpenAIWrites DEF r
    <2>2. index \in DOMAIN w.byBlock
      BY <1>0, <1>5 DEF FrameR, HasOpen
    <2>3. /\ r.messages = <<Message("arguments", w.byBlock[index], "tool_use", piece)>>
          /\ r.writer = w
      BY <2>1, <2>2 DEF OpenAIWritten
    <2>4. CallGets(c, after.client, w.byBlock[index], piece)
      BY <1>3, <2>3 DEF DeltaTypes
    <2> QED
      BY <1>2, <1>5, <2>3, <2>4 DEF after, SlotOf
  <1>6. CASE dialect = "responses"
    <2>1. ResponsesWritten(w, kind, piece, r.messages)
      BY <1>6, ResponsesWrites DEF r
    <2>2. w.cur # <<>> /\ w.cur[1].slot = index
      <3>1. PICK b \in blocks : b.slot = index
        BY DEF HasOpen
      <3>2. w.cur # <<>>
        BY <1>0, <1>6, <3>1 DEF FrameR
      <3>3. b = Slotted(n - 1, w.cur[1].type) /\ w.cur[1].slot = n - 1
        BY <1>0, <1>6, <3>1, <3>2 DEF FrameR
      <3> QED
        BY <3>1, <3>2, <3>3, SlottedIs
    <2>3. r.messages = <<Message("function_call_arguments.delta", index, "tool_use", piece)>>
      BY <2>1, <2>2 DEF ResponsesWritten
    <2>4. CallGets(c, after.client, index, piece)
      BY <1>3, <2>3 DEF DeltaTypes
    <2> QED
      BY <1>6, <2>4 DEF after, SlotOf
  <1> QED
    BY <1>4, <1>5, <1>6 DEF Dialects

\* What the provider has said of calls, the same as before or one thing more.
SameSaid(s, t) ==
    /\ Named(t) = Named(s) /\ NamedIn(t) = NamedIn(s)
    /\ \A tool : Argued(t, tool) = Argued(s, tool)
SaidStart(s, t, tool) ==
    /\ Named(t) = Append(Named(s), tool) /\ NamedIn(t) = NamedIn(s) \cup {tool}
    /\ \A x : Argued(t, x) = Argued(s, x)
SaidMore(s, t, tool, piece) ==
    /\ Named(t) = Named(s) /\ NamedIn(t) = NamedIn(s)
    /\ Argued(t, tool) = Append(Argued(s, tool), piece)
    /\ \A x : x # tool => Argued(t, x) = Argued(s, x)

LEMMA ChunkIs ==
    \A kind, tool, data :
       /\ Chunk(kind, tool, data).kind = kind
       /\ Chunk(kind, tool, data).tool = tool
       /\ Chunk(kind, tool, data).data = data
  BY DEF Chunk

LEMMA SaidBy ==
    ASSUME NEW s, IsSeq(s), NEW kind, NEW tool, NEW data
    PROVE  LET t == Append(s, Chunk(kind, tool, data))
           IN  /\ kind \notin {"tool", "tool_start", "args"} => SameSaid(s, t)
               /\ kind = "tool_start" /\ tool \notin NamedIn(s) => SaidStart(s, t, tool)
               /\ kind = "args" /\ data # None => SaidMore(s, t, tool, data)
               /\ kind = "tool" /\ data = None /\ tool \in NamedIn(s) => SameSaid(s, t)
               /\ kind = "tool" /\ data # None /\ tool \in NamedIn(s) => SaidMore(s, t, tool, data)
               /\ kind = "tool" /\ data = None /\ tool \notin NamedIn(s) => SaidStart(s, t, tool)
  <1> DEFINE c == Chunk(kind, tool, data)
  <1> DEFINE t == Append(s, c)
  <1>1. c.kind = kind /\ c.tool = tool /\ c.data = data
    BY ChunkIs
  <1> HIDE DEF c
  <1>2. /\ NamedIn(t) = IF Calling(c) THEN NamedIn(s) \cup {c.tool} ELSE NamedIn(s)
        /\ Named(t) = IF Calling(c) /\ c.tool \notin NamedIn(s)
                      THEN Append(Named(s), c.tool) ELSE Named(s)
        /\ \A x : Argued(t, x) = IF Arguing(c, x) THEN Append(Argued(s, x), c.data)
                                 ELSE Argued(s, x)
    BY NamedAppend
  <1> HIDE DEF t
  <1>3. /\ Calling(c) <=> kind \in {"tool", "tool_start"}
        /\ \A x : Arguing(c, x) <=> kind \in {"tool", "args"} /\ tool = x /\ data # None
    BY <1>1 DEF Calling, Arguing
  <1>4. kind \notin {"tool", "tool_start", "args"} => SameSaid(s, t)
    BY <1>1, <1>2, <1>3 DEF SameSaid
  <1>5. kind = "tool_start" /\ tool \notin NamedIn(s) => SaidStart(s, t, tool)
    BY <1>1, <1>2, <1>3 DEF SaidStart
  <1>6. kind = "args" /\ data # None => SaidMore(s, t, tool, data)
    BY <1>1, <1>2, <1>3 DEF SaidMore
  <1>7. kind = "tool" /\ data = None /\ tool \in NamedIn(s) => SameSaid(s, t)
    BY <1>1, <1>2, <1>3 DEF SameSaid
  <1>8. kind = "tool" /\ data # None /\ tool \in NamedIn(s) => SaidMore(s, t, tool, data)
    BY <1>1, <1>2, <1>3 DEF SaidMore
  <1>9. kind = "tool" /\ data = None /\ tool \notin NamedIn(s) => SaidStart(s, t, tool)
    BY <1>1, <1>2, <1>3 DEF SaidStart
  <1> QED
    BY <1>4, <1>5, <1>6, <1>7, <1>8, <1>9 DEF t, c

\* A call named for the first time, with its first arguments: as if it had been
\* named before.
LEMMA SaidAtOnce ==
    ASSUME NEW s, IsSeq(s), NEW tool, tool \notin NamedIn(s), NEW data, data # None
    PROVE  \E mid : /\ SaidStart(s, mid, tool)
                    /\ SaidMore(mid, Append(s, Chunk("tool", tool, data)), tool, data)
  <1> DEFINE mid == Append(s, Chunk("tool", tool, None))
  <1> DEFINE c == Chunk("tool", tool, data)
  <1> DEFINE t == Append(s, c)
  <1>1. SaidStart(s, mid, tool)
    BY SaidBy
  <1>2. c.kind = "tool" /\ c.tool = tool /\ c.data = data
    BY ChunkIs
  <1> HIDE DEF c, mid
  <1>3. /\ NamedIn(t) = IF Calling(c) THEN NamedIn(s) \cup {c.tool} ELSE NamedIn(s)
        /\ Named(t) = IF Calling(c) /\ c.tool \notin NamedIn(s)
                      THEN Append(Named(s), c.tool) ELSE Named(s)
        /\ \A x : Argued(t, x) = IF Arguing(c, x) THEN Append(Argued(s, x), c.data)
                                 ELSE Argued(s, x)
    BY NamedAppend
  <1> HIDE DEF t
  <1>4. SaidMore(mid, t, tool, data)
    BY <1>1, <1>2, <1>3 DEF SaidStart, SaidMore, Calling, Arguing
  <1> QED
    BY <1>1, <1>4 DEF t, c

\* The client's calls are the provider's, each at a place of its own among the
\* first top, and have been given what the provider has sent for them.
CallsAgree(c, s, top) ==
    /\ IsSeq(c) /\ Started(c) = Named(s)
    /\ \A x \in CallsIn(c) : /\ x.slot \in Nat /\ x.slot < top /\ x.tool \in NamedIn(s)
                             /\ Given(c, x.slot) = Argued(s, x.tool)
    /\ \A tool \in NamedIn(s) : \E x \in CallsIn(c) : x.tool = tool
    /\ \A x, y \in CallsIn(c) : x.slot = y.slot <=> x.tool = y.tool
    /\ \A slot \in Nat : slot >= top => Given(c, slot) = <<>>
    /\ \A tool : tool \notin NamedIn(s) => Argued(s, tool) = <<>>

LEMMA AgreeCalm ==
    ASSUME NEW c, NEW s, NEW top \in Nat, CallsAgree(c, s, top),
           NEW d, SameCalls(c, d), NEW t, SameSaid(s, t), NEW more \in Nat, more >= top
    PROVE  CallsAgree(d, t, more)
  <1>1. IsSeq(d) /\ Started(d) = Named(t)
    BY DEF CallsAgree, SameCalls, SameSaid
  <1>2. ASSUME NEW x \in CallsIn(d)
        PROVE  /\ x.slot \in Nat /\ x.slot < more /\ x.tool \in NamedIn(t)
               /\ Given(d, x.slot) = Argued(t, x.tool)
    <2>1. x \in CallsIn(c)
      BY DEF SameCalls
    <2>2. /\ x.slot \in Nat /\ x.slot < top /\ x.tool \in NamedIn(s)
          /\ Given(c, x.slot) = Argued(s, x.tool)
      BY <2>1 DEF CallsAgree
    <2> QED
      BY <2>2 DEF SameCalls, SameSaid
  <1>3. \A tool \in NamedIn(t) : \E x \in CallsIn(d) : x.tool = tool
    BY DEF CallsAgree, SameCalls, SameSaid
  <1>4. \A x, y \in CallsIn(d) : x.slot = y.slot <=> x.tool = y.tool
    BY DEF CallsAgree, SameCalls
  <1>5. \A slot \in Nat : slot >= more => Given(d, slot) = <<>>
    <2>1. \A slot \in Nat : slot >= more => slot >= top
      OBVIOUS
    <2> QED
      BY <2>1 DEF CallsAgree, SameCalls
  <1>6. \A tool : tool \notin NamedIn(t) => Argued(t, tool) = <<>>
    BY DEF CallsAgree, SameSaid
  <1> QED
    BY <1>1, <1>2, <1>3, <1>4, <1>5, <1>6 DEF CallsAgree

LEMMA AgreeStart ==
    ASSUME NEW c, NEW s, NEW top \in Nat, CallsAgree(c, s, top), NEW tool, tool \notin NamedIn(s),
           NEW d, CallStarts(c, d, top, tool), NEW t, SaidStart(s, t, tool)
    PROVE  CallsAgree(d, t, top + 1)
  <1> DEFINE new == CallOf(tool, top)
  <1>0. new.tool = tool /\ new.slot = top
    BY CallOfIs
  <1>1. IsSeq(d) /\ Started(d) = Named(t)
    BY DEF CallsAgree, CallStarts, SaidStart
  <1>2. /\ CallsIn(d) = CallsIn(c) \cup {new} /\ NamedIn(t) = NamedIn(s) \cup {tool}
        /\ \A x : Given(d, x) = Given(c, x)
        /\ \A x : Argued(t, x) = Argued(s, x)
    BY DEF CallStarts, SaidStart
  <1>3. \A x \in CallsIn(c) : /\ x.slot \in Nat /\ x.slot < top /\ x.tool \in NamedIn(s)
                              /\ Given(c, x.slot) = Argued(s, x.tool)
    BY DEF CallsAgree
  <1>4. Given(c, top) = <<>> /\ Argued(s, tool) = <<>>
    BY DEF CallsAgree
  <1> HIDE DEF new
  <1>5. ASSUME NEW x \in CallsIn(d)
        PROVE  /\ x.slot \in Nat /\ x.slot < top + 1 /\ x.tool \in NamedIn(t)
               /\ Given(d, x.slot) = Argued(t, x.tool)
    <2>1. CASE x = new
      BY <1>0, <1>2, <1>4, <2>1
    <2>2. CASE x \in CallsIn(c)
      BY <1>2, <1>3, <2>2
    <2> QED
      BY <1>2, <2>1, <2>2
  <1>6. \A y \in NamedIn(t) : \E x \in CallsIn(d) : x.tool = y
    <2>1. \A y \in NamedIn(s) : \E x \in CallsIn(c) : x.tool = y
      BY DEF CallsAgree
    <2> QED
      BY <1>0, <1>2, <2>1
  <1>7. ASSUME NEW x \in CallsIn(d), NEW y \in CallsIn(d)
        PROVE  x.slot = y.slot <=> x.tool = y.tool
    <2>1. \A z \in CallsIn(c) : z.slot # top /\ z.tool # tool
      BY <1>3
    <2>2. CASE x \in CallsIn(c) /\ y \in CallsIn(c)
      BY <2>2 DEF CallsAgree
    <2>3. CASE x = new \/ y = new
      BY <1>0, <1>2, <2>1, <2>3
    <2> QED
      BY <1>2, <2>2, <2>3
  <1>8. \A slot \in Nat : slot >= top + 1 => Given(d, slot) = <<>>
    <2>1. \A slot \in Nat : slot >= top + 1 => slot >= top
      OBVIOUS
    <2> QED
      BY <1>2, <2>1 DEF CallsAgree
  <1>9. \A x : x \notin NamedIn(t) => Argued(t, x) = <<>>
    BY <1>2 DEF CallsAgree
  <1> QED
    BY <1>1, <1>5, <1>6, <1>7, <1>8, <1>9 DEF CallsAgree

LEMMA AgreeGets ==
    ASSUME NEW c, NEW s, NEW top \in Nat, CallsAgree(c, s, top),
           NEW tool, NEW slot, CallOf(tool, slot) \in CallsIn(c), NEW piece,
           NEW d, CallGets(c, d, slot, piece), NEW t, SaidMore(s, t, tool, piece)
    PROVE  CallsAgree(d, t, top)
  <1> DEFINE call == CallOf(tool, slot)
  <1>0. call.tool = tool /\ call.slot = slot /\ call \in CallsIn(c)
    BY CallOfIs
  <1> HIDE DEF call
  <1>1. slot \in Nat /\ slot < top /\ tool \in NamedIn(s) /\ Given(c, slot) = Argued(s, tool)
    BY <1>0 DEF CallsAgree
  <1>2. /\ IsSeq(d) /\ Started(d) = Named(t)
        /\ CallsIn(d) = CallsIn(c) /\ NamedIn(t) = NamedIn(s)
    BY DEF CallsAgree, CallGets, SaidMore
  <1>3. ASSUME NEW x \in CallsIn(d)
        PROVE  /\ x.slot \in Nat /\ x.slot < top /\ x.tool \in NamedIn(t)
               /\ Given(d, x.slot) = Argued(t, x.tool)
    <2>1. /\ x \in CallsIn(c) /\ x.slot \in Nat /\ x.slot < top /\ x.tool \in NamedIn(s)
          /\ Given(c, x.slot) = Argued(s, x.tool)
      BY <1>2 DEF CallsAgree
    <2>2. x.slot = slot <=> x.tool = tool
      BY <1>0, <2>1 DEF CallsAgree
    <2>3. Given(d, x.slot) = Argued(t, x.tool)
      <3>1. CASE x.slot = slot
        BY <1>1, <2>2, <3>1 DEF CallGets, SaidMore
      <3>2. CASE x.slot # slot
        BY <2>1, <2>2, <3>2 DEF CallGets, SaidMore
      <3> QED
        BY <3>1, <3>2
    <2> QED
      BY <1>2, <2>1, <2>3
  <1>4. \A y \in NamedIn(t) : \E x \in CallsIn(d) : x.tool = y
    BY <1>2 DEF CallsAgree
  <1>5. \A x, y \in CallsIn(d) : x.slot = y.slot <=> x.tool = y.tool
    BY <1>2 DEF CallsAgree
  <1>6. ASSUME NEW k \in Nat, k >= top PROVE Given(d, k) = <<>>
    <2>1. k # slot /\ Given(c, k) = <<>>
      BY <1>1, <1>6 DEF CallsAgree
    <2> QED
      BY <2>1 DEF CallGets
  <1>7. ASSUME NEW x, x \notin NamedIn(t) PROVE Argued(t, x) = <<>>
    <2>1. x # tool /\ Argued(s, x) = <<>>
      BY <1>1, <1>2, <1>7 DEF CallsAgree
    <2> QED
      BY <2>1 DEF SaidMore
  <1> QED
    BY <1>2, <1>3, <1>4, <1>5, <1>6, <1>7 DEF CallsAgree

\* Then every call has reached the client once, with its own arguments.
LEMMA AgreeShows ==
    ASSUME NEW top, CallsAgree(client, sent, top)
    PROVE  ToolCallsIntact
  <1>1. StartPlaces(client) = ToolStarts
    BY DEF StartPlaces, ToolStarts, CallStart
  <1>2. \A slot : GivenPlaces(client, slot) = ArgumentsAt(slot)
    BY DEF GivenPlaces, ArgumentsAt, CallDelta
  <1>3. FirstsOf(sent) = FirstPieces
    <2>1. PiecesOf(sent) = CallPieces
      BY DEF PiecesOf, CallPieces, Calling
    <2> QED
      BY <2>1 DEF FirstsOf, FirstPieces
  <1>4. \A tool : ArguedPlaces(sent, tool) = SentArguments(tool)
    BY DEF ArguedPlaces, SentArguments, Arguing
  <1>5. Named(sent) = SentTools
    BY <1>3 DEF Named, NamesOf, SentTools
  <1>6. Data(At(client, ToolStarts)) = SentTools
    BY <1>1, <1>5 DEF CallsAgree, Started
  <1>7. ASSUME NEW i \in ToolStarts
        PROVE  Data(At(client, ArgumentsAt(client[i].slot)))
                 = Data(At(sent, SentArguments(client[i].data)))
    <2> DEFINE x == CallOf(client[i].data, client[i].slot)
    <2>1. x.tool = client[i].data /\ x.slot = client[i].slot
      BY CallOfIs
    <2>2. x \in CallsIn(client)
      BY <1>1 DEF CallsIn
    <2> HIDE DEF x
    <2>3. Given(client, x.slot) = Argued(sent, x.tool)
      BY <2>2 DEF CallsAgree
    <2> QED
      BY <1>2, <1>4, <2>1, <2>3 DEF Given, Argued
  <1> QED
    BY <1>6, <1>7 DEF ToolCallsIntact

-----------------------------------------------------------------------------
(* The calls of a whole stream. *)

\* A call reached the client under the place of its block.
Reached(acc, tool, b) ==
    HasSlot(acc.writer, b) /\ CallOf(tool, SlotOf(acc.writer, b)) \in CallsIn(acc.client)
\* After n blocks the client's calls are those of s.
Agreed(acc, s, n) ==
    Count(acc.writer, n) \in Nat /\ CallsAgree(acc.client, s, Count(acc.writer, n))

\* What the parser goes by reaches the call it means: streamToIR's tool blocks,
\* of which it has one for every call named, and the block an Anthropic provider
\* has open. The others name each call by its piece, so that no name comes twice.
Pointed(p, acc, ps, s) ==
    /\ p = "openai" =>
          /\ \A i \in DOMAIN ps.tools : Reached(acc, ps.tools[i].tool, ps.tools[i].block)
          /\ \A tool \in NamedIn(s) : Known(ps, tool)
    /\ p = "anthropic" /\ OpenOf(s) = "tool_use" => Reached(acc, LastStartOf(s).tool, ps.block)
    /\ p \in {"gemini", "anthropic"} => \A tool \in NamedIn(s) : tool \in Int /\ tool <= Len(s)

CallInv ==
    OneBlockAtATime => /\ Agreed(Pending, sent, parser.block + 1)
                       /\ Pointed(provider, Pending, parser, sent)

LEMMA AgreedCalm ==
    ASSUME NEW acc, NEW after, CalmPassed(acc, after), NEW s, NEW t, SameSaid(s, t),
           NEW n \in Nat, NEW k \in Nat, k >= n, Agreed(acc, s, n)
    PROVE  /\ Agreed(after, t, k)
           /\ \A tool, b : Reached(acc, tool, b) => Reached(after, tool, b)
  <1> DEFINE top == Count(acc.writer, n)
  <1> DEFINE more == Count(after.writer, k)
  <1>1. top \in Nat /\ CallsAgree(acc.client, s, top) /\ SameCalls(acc.client, after.client)
    BY DEF Agreed, CalmPassed
  <1>2. more \in Nat /\ more >= top
    <2>1. CASE dialect = "openai"
      <3>1. more = top
        BY <2>1 DEF CalmPassed, Count
      <3> QED
        BY <1>1, <3>1
    <2>2. CASE dialect # "openai"
      BY <2>2 DEF Count
    <2> QED
      BY <2>1, <2>2
  <1> HIDE DEF top, more
  <1>3. CallsAgree(after.client, t, more)
    BY <1>1, <1>2, AgreeCalm
  <1>4. \A tool, b : Reached(acc, tool, b) => Reached(after, tool, b)
    <2> SUFFICES ASSUME NEW tool, NEW b, Reached(acc, tool, b) PROVE Reached(after, tool, b)
      OBVIOUS
    <2>1. CallsIn(after.client) = CallsIn(acc.client)
      BY DEF CalmPassed, SameCalls
    <2>2. HasSlot(after.writer, b) /\ SlotOf(after.writer, b) = SlotOf(acc.writer, b)
      BY DEF Reached, CalmPassed, HasSlot, SlotOf
    <2> QED
      BY <2>1, <2>2 DEF Reached
  <1> QED
    BY <1>2, <1>3, <1>4 DEF Agreed, more

LEMMA AgreedStart ==
    ASSUME dialect \in Dialects, NEW acc, NEW n, NEW blocks, Framed(acc, n, blocks),
           dialect = "responses" => blocks = {},
           NEW s, Agreed(acc, s, n), NEW tool, tool \notin NamedIn(s),
           NEW t, SaidStart(s, t, tool)
    PROVE  LET after == Pass(acc, Event("tool_call_start", n, tool))
           IN  /\ Agreed(after, t, n + 1) /\ Reached(after, tool, n)
               /\ \A x, b : b # n /\ Reached(acc, x, b) => Reached(after, x, b)
  <1> DEFINE after == Pass(acc, Event("tool_call_start", n, tool))
  <1> DEFINE top == Count(acc.writer, n)
  <1>1. /\ CallStarts(acc.client, after.client, top, tool)
        /\ Count(after.writer, n + 1) = top + 1
        /\ HasSlot(after.writer, n) /\ SlotOf(after.writer, n) = top
        /\ \A b : b # n /\ HasSlot(acc.writer, b) =>
              HasSlot(after.writer, b) /\ SlotOf(after.writer, b) = SlotOf(acc.writer, b)
    BY StartStep
  <1>2. top \in Nat /\ CallsAgree(acc.client, s, top)
    BY DEF Agreed
  <1> HIDE DEF after, top
  <1>3. CallsAgree(after.client, t, top + 1) /\ top + 1 \in Nat
    BY <1>1, <1>2, AgreeStart
  <1>4. CallsIn(after.client) = CallsIn(acc.client) \cup {CallOf(tool, top)}
    BY <1>1 DEF CallStarts
  <1>5. Agreed(after, t, n + 1)
    BY <1>1, <1>3 DEF Agreed
  <1>6. Reached(after, tool, n)
    BY <1>1, <1>4 DEF Reached
  <1>7. \A x, b : b # n /\ Reached(acc, x, b) => Reached(after, x, b)
    BY <1>1, <1>4 DEF Reached
  <1> QED
    BY <1>5, <1>6, <1>7 DEF after

LEMMA AgreedGets ==
    ASSUME dialect \in Dialects, NEW acc, NEW k, NEW blocks, Framed(acc, k, blocks),
           NEW index, HasOpen(blocks, index, "tool_use"), NEW tool, Reached(acc, tool, index),
           NEW s, NEW n, Agreed(acc, s, n), NEW piece, NEW t, SaidMore(s, t, tool, piece)
    PROVE  LET after == Pass(acc, Event("tool_call_delta", index, piece))
           IN  /\ Agreed(after, t, n)
               /\ \A x, b : Reached(acc, x, b) => Reached(after, x, b)
  <1> DEFINE after == Pass(acc, Event("tool_call_delta", index, piece))
  <1> DEFINE slot == SlotOf(acc.writer, index)
  <1> DEFINE top == Count(acc.writer, n)
  <1>1. /\ CallGets(acc.client, after.client, slot, piece)
        /\ dialect = "openai" => after.writer = acc.writer
    BY DeltaStep
  <1> HIDE DEF after
  <1>2. Count(after.writer, n) = top
    BY <1>1 DEF Count
  <1>3. top \in Nat /\ CallsAgree(acc.client, s, top) /\ CallOf(tool, slot) \in CallsIn(acc.client)
    BY DEF Agreed, Reached
  <1> HIDE DEF slot, top
  <1>4. CallsAgree(after.client, t, top)
    BY <1>1, <1>3, AgreeGets
  <1>5. Agreed(after, t, n)
    BY <1>2, <1>3, <1>4 DEF Agreed
  <1>6. \A x, b : Reached(acc, x, b) => Reached(after, x, b)
    <2> SUFFICES ASSUME NEW x, NEW b, Reached(acc, x, b) PROVE Reached(after, x, b)
      OBVIOUS
    <2>1. CallsIn(after.client) = CallsIn(acc.client)
      BY <1>1 DEF CallGets
    <2>2. HasSlot(after.writer, b) /\ SlotOf(after.writer, b) = SlotOf(acc.writer, b)
      BY <1>1 DEF Reached, HasSlot, SlotOf
    <2> QED
      BY <2>1, <2>2 DEF Reached
  <1> QED
    BY <1>5, <1>6 DEF after

\* A chunk whose events keep the calls.
LEMMA CallTaken ==
    ASSUME StreamTyped, NEW chunk, NEW parsed, Take(chunk, parsed), IsEvents(parsed.events),
           OneBlockAtATime =>
              /\ Agreed(PassAll(Pending, parsed.events), Append(sent, chunk), parsed.parser.block + 1)
              /\ Pointed(provider, PassAll(Pending, parsed.events), parsed.parser, Append(sent, chunk))
    PROVE  CallInv'
  <1>1. Len(parsed.events) \in Nat
    BY EventsAre
  <1>2. /\ sent' = Append(sent, chunk) /\ parser' = parsed.parser
        /\ Pending' = PassAll(Pending, parsed.events)
        /\ provider' = provider /\ dialect' = dialect
    BY <1>1, TakeIs
  <1> DEFINE s == Append(sent, chunk)
  <1> DEFINE acc == PassAll(Pending, parsed.events)
  <1> DEFINE q == parsed.parser
  <1>3. OneBlockAtATime' = OneBlockAtATime
    BY <1>2 DEF OneBlockAtATime
  <1>4. OneBlockAtATime => Agreed(acc, s, q.block + 1) /\ Pointed(provider, acc, q, s)
    OBVIOUS
  <1> HIDE DEF s, acc, q
  <1>5. sent' = s /\ parser' = q /\ Pending' = acc
    BY <1>2 DEF s, acc, q
  <1>6. OneBlockAtATime => Agreed(Pending, sent, parser.block + 1)'
    BY <1>2, <1>4, <1>5 DEF Agreed, Count
  <1>7. OneBlockAtATime => Pointed(provider, Pending, parser, sent)'
    BY <1>2, <1>4, <1>5 DEF Pointed, Reached, HasSlot, SlotOf
  <1> QED
    BY <1>3, <1>6, <1>7 DEF CallInv

\* A chunk that says nothing of a call.
LEMMA CallCalmTaken ==
    ASSUME StreamTyped, CallInv, NEW chunk, NEW parsed, Take(chunk, parsed),
           IsEvents(parsed.events),
           OneBlockAtATime => CalmPassed(Pending, PassAll(Pending, parsed.events)),
           SameSaid(sent, Append(sent, chunk)),
           parsed.parser.block \in Int, parsed.parser.block >= parser.block,
           parsed.parser.tools = parser.tools,
           provider = "anthropic" /\ OpenOf(Append(sent, chunk)) = "tool_use" =>
              /\ OpenOf(sent) = "tool_use" /\ parsed.parser.block = parser.block
              /\ LastStartOf(Append(sent, chunk)) = LastStartOf(sent)
    PROVE  CallInv'
  <1> DEFINE s == Append(sent, chunk)
  <1> DEFINE acc == PassAll(Pending, parsed.events)
  <1> DEFINE q == parsed.parser
  <1> DEFINE n == parser.block + 1
  <1> DEFINE k == q.block + 1
  <1>1. n \in Nat /\ k \in Nat /\ k >= n
    BY DEF StreamTyped, ParserTyped, None
  <1>2. Len(sent) \in Nat /\ Len(s) = Len(sent) + 1
    BY IsSeqAppend DEF StreamTyped
  <1>3. SameSaid(sent, s) /\ q.tools = parser.tools
    OBVIOUS
  <1>4. provider = "anthropic" /\ OpenOf(s) = "tool_use" =>
           OpenOf(sent) = "tool_use" /\ q.block = parser.block /\ LastStartOf(s) = LastStartOf(sent)
    OBVIOUS
  <1>5. OneBlockAtATime => Agreed(acc, s, k) /\ Pointed(provider, acc, q, s)
    <2> HIDE DEF s, acc, q, n, k
    <2> SUFFICES ASSUME OneBlockAtATime PROVE Agreed(acc, s, k) /\ Pointed(provider, acc, q, s)
      OBVIOUS
    <2>1. Agreed(Pending, sent, n) /\ Pointed(provider, Pending, parser, sent)
      BY DEF CallInv, n
    <2>2. CalmPassed(Pending, acc)
      BY DEF acc
    <2>3. Agreed(acc, s, k) /\ \A tool, b : Reached(Pending, tool, b) => Reached(acc, tool, b)
      BY <1>1, <1>3, <2>1, <2>2, AgreedCalm
    <2>4. NamedIn(s) = NamedIn(sent)
      BY <1>3 DEF SameSaid
    <2>5. provider = "openai" =>
             /\ \A i \in DOMAIN q.tools : Reached(acc, q.tools[i].tool, q.tools[i].block)
             /\ \A tool \in NamedIn(s) : Known(q, tool)
      BY <1>3, <2>1, <2>3, <2>4 DEF Pointed, Known
    <2>6. provider = "anthropic" /\ OpenOf(s) = "tool_use" =>
             Reached(acc, LastStartOf(s).tool, q.block)
      BY <1>4, <2>1, <2>3 DEF Pointed
    <2>7. provider \in {"gemini", "anthropic"} =>
             \A tool \in NamedIn(s) : tool \in Int /\ tool <= Len(s)
      BY <1>2, <2>1, <2>4 DEF Pointed
    <2> QED
      BY <2>3, <2>5, <2>6, <2>7 DEF Pointed
  <1> QED
    BY <1>5, CallTaken

\* A step that says nothing of a call and leaves the parser alone.
LEMMA CallCalm ==
    ASSUME StreamTyped, CallInv, UNCHANGED <<provider, dialect, parser>>,
           OneBlockAtATime => /\ SameCalls(client, client')
                              /\ dialect = "openai" => writer' = writer,
           SameSaid(sent, sent'), provider \in {"gemini", "anthropic"} => sent' = sent
    PROVE  CallInv'
  <1> DEFINE n == parser.block + 1
  <1> DEFINE acc == Pending'
  <1> DEFINE s == sent'
  <1>1. n \in Nat
    BY DEF StreamTyped, ParserTyped, None
  <1>2. /\ Pending.client = client /\ Pending.writer = writer
        /\ acc.client = client' /\ acc.writer = writer'
    BY DEF Pending
  <1>3. OneBlockAtATime' = OneBlockAtATime /\ parser' = parser /\ provider' = provider
        /\ dialect' = dialect
    BY DEF OneBlockAtATime
  <1>4. OneBlockAtATime => CalmPassed(Pending, acc)
    BY <1>2 DEF CalmPassed
  <1> HIDE DEF acc, n
  <1>5. OneBlockAtATime => Agreed(acc, s, n) /\ Pointed(provider, acc, parser, s)
    <2> SUFFICES ASSUME OneBlockAtATime
                 PROVE  Agreed(acc, s, n) /\ Pointed(provider, acc, parser, s)
      OBVIOUS
    <2>1. Agreed(Pending, sent, n) /\ Pointed(provider, Pending, parser, sent)
      BY DEF CallInv, n
    <2>2. SameSaid(sent, s) /\ (provider \in {"gemini", "anthropic"} => s = sent)
      OBVIOUS
    <2> HIDE DEF s
    <2>3. n >= n
      BY <1>1
    <2>4. Agreed(acc, s, n) /\ \A tool, b : Reached(Pending, tool, b) => Reached(acc, tool, b)
      BY <1>1, <1>4, <2>1, <2>2, <2>3, AgreedCalm
    <2>5. NamedIn(s) = NamedIn(sent)
      BY <2>2 DEF SameSaid
    <2>6. provider = "openai" =>
             /\ \A i \in DOMAIN parser.tools : Reached(acc, parser.tools[i].tool, parser.tools[i].block)
             /\ \A tool \in NamedIn(s) : Known(parser, tool)
      BY <2>1, <2>4, <2>5 DEF Pointed
    <2>7. provider = "anthropic" /\ OpenOf(s) = "tool_use" =>
             Reached(acc, LastStartOf(s).tool, parser.block)
      BY <2>1, <2>2, <2>4 DEF Pointed
    <2>8. provider \in {"gemini", "anthropic"} =>
             \A tool \in NamedIn(s) : tool \in Int /\ tool <= Len(s)
      BY <2>1, <2>2, <2>5 DEF Pointed
    <2> QED
      BY <2>4, <2>6, <2>7, <2>8 DEF Pointed
  <1>6. OneBlockAtATime => Agreed(Pending, sent, parser.block + 1)'
    BY <1>3, <1>5 DEF Agreed, Count, acc, n
  <1>7. OneBlockAtATime => Pointed(provider, Pending, parser, sent)'
    BY <1>3, <1>5 DEF Pointed, Reached, HasSlot, SlotOf, acc
  <1> QED
    BY <1>3, <1>6, <1>7 DEF CallInv

LEMMA SameSaidSame == \A s : SameSaid(s, s)
  BY DEF SameSaid

LEMMA CallInit == Init => CallInv
  <1> SUFFICES ASSUME Init, OneBlockAtATime
               PROVE  /\ Agreed(Pending, sent, parser.block + 1)
                      /\ Pointed(provider, Pending, parser, sent)
    BY DEF CallInv
  <1>1. sent = <<>> /\ client = <<>> /\ parser.tools = <<>> /\ parser.block + 1 = 0
    <2>1. PICK nil : nil = ""
      OBVIOUS
    <2>2. parser = [block |-> None, text |-> FALSE, tools |-> <<>>, reason |-> nil, usage |-> 0]
      BY <2>1, Zenon DEF Init, InitParser
    <2> QED
      BY <2>2 DEF Init, None
  <1>2. Pending.client = client /\ Pending.writer = writer
    BY DEF Pending
  <1>3. DOMAIN <<>> = {} /\ IsSeq(<<>>)
    BY IsSeqFew
  <1>4. \A places : Data(At(<<>>, places)) = <<>> /\ NamesOf(At(<<>>, places)) = <<>>
    <2> SUFFICES ASSUME NEW places
                 PROVE  Data(At(<<>>, places)) = <<>> /\ NamesOf(At(<<>>, places)) = <<>>
      OBVIOUS
    <2>1. At(<<>>, places) = <<>>
      BY AtEmpty
    <2>2. Data(<<>>) = <<>> /\ NamesOf(<<>>) = <<>>
      BY DEF Data, NamesOf
    <2> QED
      BY <2>1, <2>2
  <1>5. Started(<<>>) = <<>> /\ Named(<<>>) = <<>>
        /\ (\A slot : Given(<<>>, slot) = <<>>) /\ (\A tool : Argued(<<>>, tool) = <<>>)
    BY <1>4 DEF Started, Named, Given, Argued
  <1>6. CallsIn(<<>>) = {} /\ NamedIn(<<>>) = {}
    BY <1>3 DEF CallsIn, NamedIn, StartPlaces, PiecesOf
  <1>7. CallsAgree(<<>>, <<>>, 0)
    BY <1>3, <1>5, <1>6 DEF CallsAgree
  <1>8. Count(writer, 0) = 0
    <2>1. CASE dialect = "openai"
      <3>1. writer.byBlock = <<>>
        BY <2>1 DEF Init, InitWriter, InitOpenAI
      <3> QED
        BY <1>3, <2>1, <3>1, FS_EmptySet DEF Count
    <2>2. CASE dialect # "openai"
      BY <2>2 DEF Count
    <2> QED
      BY <2>1, <2>2
  <1>9. Agreed(Pending, sent, parser.block + 1)
    BY <1>1, <1>2, <1>7, <1>8 DEF Agreed
  <1>10. OpenOf(sent) = "none"
    BY <1>1, <1>3 DEF OpenOf, StartsOf
  <1>11. Pointed(provider, Pending, parser, sent)
    BY <1>1, <1>3, <1>6, <1>10 DEF Pointed
  <1> QED
    BY <1>9, <1>11

LEMMA CallOpen == StreamTyped /\ CallInv /\ Open => CallInv'
  <1> SUFFICES ASSUME StreamTyped, CallInv, Open PROVE CallInv'
    OBVIOUS
  <1> DEFINE start == [Pending EXCEPT !.client = Prelude(dialect)]
  <1> DEFINE first == IF provider = "raw" THEN <<>> ELSE <<Event("stream_start", None, "")>>
  <1> DEFINE after == PassAll(start, first)
  <1>1. /\ client = <<>> /\ client' = after.client /\ writer' = after.writer
        /\ UNCHANGED <<provider, dialect, warden, sent, parser, ended>>
    BY DEF Open
  <1>2. start.writer = writer /\ start.client = Prelude(dialect)
    BY DEF Pending
  <1> HIDE DEF start
  <1>3. CalmMessages(Prelude(dialect))
    <2> DEFINE nil == ""
    <2>1. \A type \in {"role", "response.created", "header"} : type \notin OpenTypes \cup DeltaTypes
      BY DEF OpenTypes, DeltaTypes
    <2>2. \/ Prelude(dialect) = <<>>
          \/ Prelude(dialect) = <<Message("role", None, nil, nil)>>
          \/ Prelude(dialect) = <<Message("response.created", None, nil, nil)>>
          \/ Prelude(dialect) = <<Message("header", None, nil, nil)>>
      BY PairTyped DEF Prelude, Dialects
    <2> HIDE DEF nil
    <2> QED
      BY <2>1, <2>2, CalmFew
  <1>4. SameCalls(client, start.client)
    <2>1. IsSeq(client)
      BY <1>1, IsSeqFew
    <2>2. <<>> \o Prelude(dialect) = Prelude(dialect)
      BY PreludeQuiet
    <2> QED
      BY <1>1, <1>2, <1>3, <2>1, <2>2, CalmAppend
  <1>5. SameCalls(client, after.client) /\ (dialect = "openai" => after.writer = writer)
    <2>1. CASE provider = "raw"
      <3>1. after = start
        BY <2>1, PassAllFew
      <3> QED
        BY <1>2, <1>4, <3>1
    <2>2. CASE provider # "raw"
      <3>1. PICK nil : nil = ""
        OBVIOUS
      <3>2. after = Pass(start, Event("stream_start", None, nil))
        BY <2>2, <3>1, PassAllFew
      <3>3. dialect \in Dialects
        BY <2>2, PairTyped
      <3>4. IsSeq(start.client)
        BY <1>4 DEF SameCalls
      <3>5. Calm("stream_start", nil)
        BY DEF Calm, CalmKinds
      <3> HIDE DEF after
      <3>6. CalmPassed(start, after)
        BY <3>2, <3>3, <3>4, <3>5, CalmStep
      <3> QED
        BY <1>2, <1>4, <3>6 DEF CalmPassed, SameCalls
    <2> QED
      BY <2>1, <2>2
  <1> HIDE DEF after
  <1>6. SameSaid(sent, sent')
    BY <1>1, SameSaidSame
  <1> QED
    BY <1>1, <1>5, <1>6, CallCalm

LEMMA CallRaw == StreamTyped /\ FrameInv /\ CallInv /\ (ReadRaw \/ EndOfRaw) => CallInv'
  <1> SUFFICES ASSUME StreamTyped, FrameInv, CallInv, ReadRaw \/ EndOfRaw PROVE CallInv'
    OBVIOUS
  <1>1. /\ provider = "raw" /\ UNCHANGED <<provider, dialect, parser, writer>>
        /\ IsSeq(client) /\ IsSeq(sent)
    BY DEF ReadRaw, EndOfRaw, FrameInv, RawFrames, StreamTyped
  <1>2. \E text : client' = client \o Shown(text)
    BY DEF ReadRaw, EndOfRaw
  <1>3. PICK text : client' = client \o Shown(text)
    BY <1>2
  <1>4. CalmMessages(Shown(text))
    <2>1. "text" # "tool_use"
      OBVIOUS
    <2> QED
      BY <2>1, CalmFew DEF Shown
  <1>5. SameCalls(client, client')
    BY <1>1, <1>3, <1>4, CalmAppend
  <1>6. SameSaid(sent, sent')
    <2>1. CASE ReadRaw
      <3>1. PICK bytes : sent' = Append(sent, Chunk("text", None, bytes))
        BY <2>1 DEF ReadRaw
      <3> QED
        BY <1>1, <3>1, SaidBy
    <2>2. CASE EndOfRaw
      BY <2>2, SameSaidSame DEF EndOfRaw
    <2> QED
      BY <2>1, <2>2
  <1> QED
    BY <1>1, <1>5, <1>6, CallCalm

LEMMA CallClient ==
    ASSUME CallInv, OneBlockAtATime
    PROVE  IsSeq(Pending.client) /\ Pending.client = client /\ Pending.writer = writer
  <1>1. Pending.client = client /\ Pending.writer = writer
    BY DEF Pending
  <1> QED
    BY <1>1 DEF CallInv, Agreed, CallsAgree

LEMMA CallSendText == StreamTyped /\ CallInv /\ SendText => CallInv'
  <1> SUFFICES ASSUME StreamTyped, CallInv, SendText PROVE CallInv'
    OBVIOUS
  <1>1. /\ provider \in {"openai", "gemini"} /\ ParserTyped(parser) /\ IsSeq(sent)
        /\ provider # "raw" /\ provider # "anthropic"
    BY DEF SendText, StreamTyped
  <1>2. PICK f \in Fragments : Take(Chunk("text", None, f), ParseText(parser, f))
    BY DEF SendText
  <1> DEFINE chunk == Chunk("text", None, f)
  <1> DEFINE r == ParseText(parser, f)
  <1>3. Take(chunk, r) /\ dialect \in Dialects
    BY <1>1, <1>2, PairTyped
  <1>4. SameSaid(sent, Append(sent, chunk))
    BY <1>1, SaidBy
  <1>5. /\ r.parser.block \in Int /\ r.parser.block >= parser.block
        /\ r.parser.tools = parser.tools
    BY <1>1 DEF ParseText, ParserTyped, None
  <1>6. IsEvents(r.events) /\ (OneBlockAtATime => CalmPassed(Pending, PassAll(Pending, r.events)))
    <2>1. CASE parser.text
      <3> DEFINE e == Event("text_delta", parser.block, f)
      <3>1. r.events = <<e>>
        BY <2>1 DEF ParseText
      <3>2. IsEvents(r.events) /\ PassAll(Pending, r.events) = Pass(Pending, e)
        <4> HIDE DEF e, r
        <4> QED
          BY <3>1, EventsAre, PassAllFew
      <3>3. Calm("text_delta", f)
        BY DEF Calm, CalmKinds
      <3> HIDE DEF r
      <3>4. OneBlockAtATime => CalmPassed(Pending, Pass(Pending, e))
        BY <1>3, <3>3, CallClient, CalmStep
      <3> HIDE DEF e
      <3> QED
        BY <3>2, <3>4 DEF r
    <2>2. CASE ~parser.text
      <3> DEFINE b == parser.block + 1
      <3> DEFINE e1 == Event("content_block_start", b, "text")
      <3> DEFINE e2 == Event("text_delta", b, f)
      <3>1. r.events = <<e1, e2>>
        BY <2>2 DEF ParseText, Start
      <3>2. IsEvents(r.events) /\ PassAll(Pending, r.events) = Pass(Pass(Pending, e1), e2)
        <4> HIDE DEF e1, e2, r
        <4>1. PassAll(Pending, <<e1, e2>>) = Pass(Pass(Pending, e1), e2)
          BY PassAllTwo
        <4>2. IsEvents(<<e1, e2>>)
          BY EventsAre
        <4> QED
          BY <3>1, <4>1, <4>2
      <3>3. Calm("content_block_start", "text") /\ Calm("text_delta", f)
        BY DEF Calm, CalmKinds
      <3> DEFINE s1 == Pass(Pending, e1)
      <3> HIDE DEF r
      <3>4. OneBlockAtATime => CalmPassed(Pending, s1)
        BY <1>3, <3>3, CallClient, CalmStep
      <3> HIDE DEF s1
      <3>5. OneBlockAtATime => CalmPassed(s1, Pass(s1, e2))
        <4> SUFFICES ASSUME OneBlockAtATime PROVE CalmPassed(s1, Pass(s1, e2))
          OBVIOUS
        <4>1. IsSeq(s1.client)
          BY <3>4 DEF CalmPassed, SameCalls
        <4> QED
          BY <1>3, <3>3, <4>1, CalmStep
      <3> HIDE DEF e1, e2
      <3>6. OneBlockAtATime => CalmPassed(Pending, Pass(s1, e2))
        BY <3>4, <3>5, CalmTwice
      <3> QED
        BY <3>2, <3>6 DEF r, s1
    <2> QED
      BY <2>1, <2>2
  <1> HIDE DEF r, chunk
  <1> QED
    BY <1>1, <1>3, <1>4, <1>5, <1>6, CallCalmTaken

LEMMA CallSendFinishOrUsage == StreamTyped /\ CallInv /\ (SendFinish \/ SendUsage) => CallInv'
  <1> SUFFICES ASSUME StreamTyped, CallInv, SendFinish \/ SendUsage PROVE CallInv'
    OBVIOUS
  <1>1. /\ provider \in {"openai", "gemini"} /\ ParserTyped(parser) /\ IsSeq(sent)
        /\ provider # "anthropic"
    BY DEF SendFinish, SendUsage, StreamTyped
  <1>2. PICK kind, data, r :
           /\ kind \in {"finish", "usage"}
           /\ Take(Chunk(kind, None, data), r) /\ r.events = <<>>
           /\ r.parser.block = parser.block /\ r.parser.tools = parser.tools
    <2>1. CASE SendFinish
      <3>1. PICK reason \in {"stop", "tool_use", "content_filter"} :
               Take(Chunk("finish", None, reason), ParseFinish(parser, reason))
        BY <2>1 DEF SendFinish
      <3> DEFINE r == ParseFinish(parser, reason)
      <3>2. /\ r.events = <<>> /\ r.parser.block = parser.block /\ r.parser.tools = parser.tools
        BY <1>1 DEF ParseFinish, ParserTyped
      <3> HIDE DEF r
      <3> QED
        BY <3>1, <3>2 DEF r
    <2>2. CASE SendUsage
      <3>1. PICK count \in 0..1 : Take(Chunk("usage", None, count), ParseUsage(parser, count))
        BY <2>2 DEF SendUsage
      <3> DEFINE r == ParseUsage(parser, count)
      <3>2. /\ r.events = <<>> /\ r.parser.block = parser.block /\ r.parser.tools = parser.tools
        BY <1>1 DEF ParseUsage, ParserTyped
      <3> HIDE DEF r
      <3> QED
        BY <3>1, <3>2 DEF r
    <2> QED
      BY <2>1, <2>2
  <1> DEFINE chunk == Chunk(kind, None, data)
  <1>3. SameSaid(sent, Append(sent, chunk))
    BY <1>1, <1>2, SaidBy
  <1>4. IsEvents(r.events) /\ PassAll(Pending, r.events) = Pending
    BY <1>2, EventsAre, PassAllFew
  <1>5. OneBlockAtATime => CalmPassed(Pending, Pending)
    BY CallClient DEF CalmPassed, SameCalls
  <1>6. r.parser.block \in Int /\ r.parser.block >= parser.block
    BY <1>1, <1>2 DEF ParserTyped, None
  <1> HIDE DEF chunk
  <1>7. Take(chunk, r)
    BY <1>2 DEF chunk
  <1> QED
    BY <1>1, <1>2, <1>3, <1>4, <1>5, <1>6, <1>7, CallCalmTaken

\* The tail of a parser says nothing of a call.
LEMMA CallTail ==
    ASSUME dialect \in Dialects, NEW ps, ParserTyped(ps), NEW acc, IsSeq(acc.client)
    PROVE  CalmPassed(acc, PassAll(acc, ParserTail(ps)))
  <1>1. EventsOf(SilentKinds, CloseText(ps))
    BY EventsOfIs DEF CloseText, End, SilentKinds, CalmKinds
  <1>2. EventsOf(SilentKinds, TailEnds(ps))
    <2>1. CASE provider = "openai"
      <3> DEFINE n == Len(ps.tools)
      <3> DEFINE E == {End(ps.tools[i].block) : i \in 1..n}
      <3>1. DOMAIN ps.tools = 1..n /\ n \in Nat
        BY DEF ParserTyped
      <3>2. TailEnds(ps) = [i \in 1..n |-> End(ps.tools[i].block)]
        BY <2>1, <3>1 DEF TailEnds
      <3>3. \A i \in 1..n : End(ps.tools[i].block) \in E
        OBVIOUS
      <3>4. \A b : EventOf(SilentKinds, End(b))
        BY EventsOfIs DEF End, SilentKinds, CalmKinds
      <3>5. \A x \in E : EventOf(SilentKinds, x)
        BY <3>4
      <3> HIDE DEF E, n
      <3>6. TailEnds(ps) \in Seq(E)
        BY <3>1, <3>2, <3>3
      <3> QED
        BY <3>5, <3>6 DEF EventsOf
    <2>2. CASE provider # "openai"
      BY <2>2, EventsOfIs DEF TailEnds
    <2> QED
      BY <2>1, <2>2
  <1>3. EventsOf(SilentKinds, TailClosing(ps))
    <2> DEFINE e1 == Event("finish", None, StopReason(ps))
    <2> DEFINE e2 == Event("usage", None, ps.usage)
    <2> DEFINE e3 == Event("stream_end", None, "")
    <2>1. /\ EventOf(SilentKinds, e1) /\ EventOf(SilentKinds, e2) /\ EventOf(SilentKinds, e3)
      BY EventsOfIs DEF SilentKinds, CalmKinds
    <2>2. TailClosing(ps) = <<e1, e2, e3>>
      BY DEF TailClosing
    <2> HIDE DEF e1, e2, e3
    <2> QED
      BY <2>1, <2>2, EventsOfIs
  <1>4. ASSUME NEW a, IsSeq(a.client), NEW events, EventsOf(SilentKinds, events)
        PROVE  CalmPassed(a, PassAll(a, events)) /\ IsSeq(PassAll(a, events).client)
    <2>1. CalmPassed(a, PassAll(a, events))
      BY <1>4, CalmSteps
    <2> QED
      BY <2>1 DEF CalmPassed, SameCalls
  <1> DEFINE s1 == PassAll(acc, CloseText(ps))
  <1> DEFINE s2 == PassAll(s1, TailEnds(ps))
  <1> DEFINE s3 == PassAll(s2, TailEmpty(ps))
  <1> DEFINE s4 == PassAll(s3, TailClosing(ps))
  <1>5. PassAll(acc, ParserTail(ps)) = s4
    BY ParserTailIs
  <1>6. CalmPassed(acc, s1) /\ IsSeq(s1.client)
    BY <1>1, <1>4
  <1> HIDE DEF s1
  <1>7. CalmPassed(s1, s2) /\ IsSeq(s2.client)
    BY <1>2, <1>4, <1>6
  <1> HIDE DEF s2
  <1>8. CalmPassed(s2, s3) /\ IsSeq(s3.client)
    <2>1. CASE ps.block = None
      <3> DEFINE e1 == Event("content_block_start", 0, "text")
      <3> DEFINE e2 == End(0)
      <3> DEFINE t == Pass(s2, e1)
      <3>1. TailEmpty(ps) = <<e1, e2>>
        BY <2>1 DEF TailEmpty, Start
      <3>2. s3 = Pass(t, e2)
        <4> HIDE DEF e1, e2
        <4>1. PassAll(s2, <<e1, e2>>) = Pass(Pass(s2, e1), e2)
          BY PassAllTwo
        <4> QED
          BY <3>1, <4>1
      <3>3. Calm("content_block_start", "text")
        BY DEF Calm, CalmKinds
      <3>4. CalmPassed(s2, t)
        BY <1>7, <3>3, CalmStep
      <3> HIDE DEF t
      <3>5. IsSeq(t.client)
        BY <3>4 DEF CalmPassed, SameCalls
      <3>6. \A data : Calm("content_block_end", data)
        BY DEF Calm, CalmKinds
      <3>7. PICK data : e2 = Event("content_block_end", 0, data)
        BY Zenon DEF End
      <3>8. CalmPassed(t, Pass(t, e2))
        BY <3>5, <3>6, <3>7, CalmStep
      <3> HIDE DEF e1, e2, s3
      <3>9. CalmPassed(s2, s3)
        BY <3>2, <3>4, <3>8, CalmTwice
      <3> QED
        BY <3>9 DEF CalmPassed, SameCalls
    <2>2. CASE ps.block # None
      <3>1. s3 = s2
        BY <2>2, PassAllFew DEF TailEmpty
      <3> HIDE DEF s3
      <3> QED
        BY <1>7, <3>1 DEF CalmPassed, SameCalls
    <2> QED
      BY <2>1, <2>2
  <1> HIDE DEF s3
  <1>9. CalmPassed(s3, s4)
    BY <1>3, <1>4, <1>8
  <1> HIDE DEF s4
  <1>10. CalmPassed(acc, s3)
    BY <1>6, <1>7, <1>8, CalmTwice
  <1>11. CalmPassed(acc, s4)
    BY <1>9, <1>10, CalmTwice
  <1> QED
    BY <1>5, <1>11

LEMMA CallEnding == StreamTyped /\ CallInv /\ (EndOfBody \/ Cut) => CallInv'
  <1> SUFFICES ASSUME StreamTyped, CallInv, EndOfBody \/ Cut PROVE CallInv'
    OBVIOUS
  <1>1. /\ UNCHANGED <<provider, dialect, parser, sent>> /\ ParserTyped(parser)
        /\ provider # "raw" /\ dialect \in Dialects
    BY PairTyped DEF EndOfBody, Cut, StreamTyped
  <1>2. ASSUME OneBlockAtATime
        PROVE  SameCalls(client, client') /\ (dialect = "openai" => writer' = writer)
    <2>1. IsSeq(Pending.client) /\ Pending.client = client /\ Pending.writer = writer
      BY <1>2, CallClient
    <2>2. CASE EndOfBody
      <3> DEFINE after == PassAll(Pending, ParserTail(parser))
      <3>1. client' = after.client /\ writer' = after.writer
        BY <2>2 DEF EndOfBody, Deliver
      <3>2. CalmPassed(Pending, after)
        BY <1>1, <2>1, CallTail
      <3> HIDE DEF after
      <3> QED
        BY <2>1, <3>1, <3>2 DEF CalmPassed
    <2>3. CASE Cut
      BY <2>1, <2>3 DEF Cut, SameCalls
    <2> QED
      BY <2>2, <2>3
  <1>3. SameSaid(sent, sent')
    BY <1>1, SameSaidSame
  <1> QED
    BY <1>1, <1>2, <1>3, CallCalm

\* A call's block is opened when the text before it is closed, and the call is
\* the next one of the client.
LEMMA CallOpened ==
    ASSUME dialect \in Dialects, OneBlockAtATime,
           NEW ps, ParserTyped(ps), ParserFrames(ps), NEW acc,
           Framed(acc, ps.block + 1, TextBlock(ps) \cup CallBlocks(provider, ps)),
           NEW s, Agreed(acc, s, ps.block + 1), NEW tool, tool \notin NamedIn(s),
           NEW t, SaidStart(s, t, tool)
    PROVE  LET after == Pass(PassAll(acc, CloseText(ps)),
                             Event("tool_call_start", ps.block + 1, tool))
           IN  /\ Agreed(after, t, (ps.block + 1) + 1) /\ Reached(after, tool, ps.block + 1)
               /\ \A x, b : b # ps.block + 1 /\ Reached(acc, x, b) => Reached(after, x, b)
  <1> DEFINE n == ps.block + 1
  <1> DEFINE closed == PassAll(acc, CloseText(ps))
  <1> DEFINE calls == CallBlocks(provider, ps)
  <1> DEFINE after == Pass(closed, Event("tool_call_start", n, tool))
  <1>1. EventsOf(SilentKinds, CloseText(ps))
    BY EventsOfIs DEF CloseText, End, SilentKinds, CalmKinds
  <1>2. IsSeq(acc.client)
    BY DEF Agreed, CallsAgree
  <1>3. CalmPassed(acc, closed)
    BY <1>1, <1>2, CalmSteps
  <1>4. Framed(closed, n, calls)
    BY FrameCloseText
  <1>5. dialect = "responses" => calls = {}
    BY NoCallOpen
  <1>6. n \in Nat /\ n >= n
    BY DEF ParserTyped, None
  <1> HIDE DEF n, closed, calls
  <1>7. Agreed(acc, s, n)
    BY DEF n
  <1>8. Agreed(closed, s, n) /\ \A x, b : Reached(acc, x, b) => Reached(closed, x, b)
    BY <1>3, <1>6, <1>7, SameSaidSame, AgreedCalm
  <1>9. /\ Agreed(after, t, n + 1) /\ Reached(after, tool, n)
        /\ \A x, b : b # n /\ Reached(closed, x, b) => Reached(after, x, b)
    BY <1>4, <1>5, <1>8, AgreedStart
  <1> HIDE DEF after
  <1>10. \A x, b : b # n /\ Reached(acc, x, b) => Reached(after, x, b)
    BY <1>8, <1>9
  <1> QED
    BY <1>9, <1>10 DEF after, closed, n

\* The calls of a parser with one more.
LEMMA WithCallTools ==
    ASSUME NEW ps, ParserTyped(ps), ParserFrames(ps), NEW tool \in Int
    PROVE  LET q == WithCall(ps, tool)
           IN  /\ Known(q, tool) /\ \A x : Known(ps, x) => Known(q, x)
               /\ \A i \in DOMAIN q.tools :
                     \/ q.tools[i].tool = tool /\ q.tools[i].block = ps.block + 1
                     \/ /\ i \in DOMAIN ps.tools /\ q.tools[i] = ps.tools[i]
                        /\ ps.tools[i].block # ps.block + 1
  <1> DEFINE call == [tool |-> tool, block |-> ps.block + 1]
  <1> DEFINE q == WithCall(ps, tool)
  <1> DEFINE len == Len(ps.tools)
  <1>1. ps.tools \in Seq(Calls) /\ ps.block \in Int /\ ps.block + 1 \in Nat
    BY DEF ParserTyped, None
  <1>2. call \in Calls /\ call.block = ps.block + 1 /\ call.tool = tool
    BY <1>1 DEF Calls
  <1>3. q.tools = Append(ps.tools, call)
    BY DEF WithCall, ParserTyped
  <1> HIDE DEF call, q
  <1>4. /\ DOMAIN ps.tools = 1..len /\ len \in Nat
        /\ DOMAIN q.tools = 1..(len + 1) /\ q.tools[len + 1] = call
        /\ \A i \in 1..len : q.tools[i] = ps.tools[i]
    BY <1>1, <1>2, <1>3, AppendProperties, LenProperties
  <1>5. \A i \in 1..len : ps.tools[i].block \in Nat /\ ps.tools[i].block # ps.block + 1
    <2> SUFFICES ASSUME NEW i \in 1..len
                 PROVE  ps.tools[i].block \in Nat /\ ps.tools[i].block # ps.block + 1
      OBVIOUS
    <2>1. ps.tools[i] \in Calls
      BY <1>1
    <2>2. ps.tools[i].block \in Nat
      BY <2>1 DEF Calls
    <2>3. ps.tools[i].block <= ps.block
      BY <1>4 DEF ParserFrames
    <2> QED
      BY <1>1, <2>2, <2>3
  <1>6. Known(q, tool)
    BY <1>2, <1>4 DEF Known
  <1>7. ASSUME NEW x, Known(ps, x) PROVE Known(q, x)
    <2>1. PICK i \in DOMAIN ps.tools : ps.tools[i].tool = x
      BY <1>7 DEF Known
    <2>2. i \in DOMAIN q.tools /\ q.tools[i].tool = x
      BY <1>4, <2>1
    <2> QED
      BY <2>2 DEF Known
  <1>8. ASSUME NEW i \in DOMAIN q.tools
        PROVE  \/ q.tools[i].tool = tool /\ q.tools[i].block = ps.block + 1
               \/ /\ i \in DOMAIN ps.tools /\ q.tools[i] = ps.tools[i]
                  /\ ps.tools[i].block # ps.block + 1
    <2>1. i = len + 1 \/ i \in 1..len
      BY <1>4
    <2> QED
      BY <1>2, <1>4, <1>5, <2>1
  <1> QED
    BY <1>6, <1>7, <1>8 DEF q

LEMMA CallSendToolPiece == StreamTyped /\ FrameInv /\ CallInv /\ SendToolPiece => CallInv'
  <1> SUFFICES ASSUME StreamTyped, FrameInv, CallInv, SendToolPiece PROVE CallInv'
    OBVIOUS
  <1>1. /\ provider = "openai" /\ ~ended /\ ParserTyped(parser) /\ IsSeq(sent)
        /\ provider # "raw" /\ provider # "anthropic" /\ provider # "gemini"
        /\ Converting(provider)
    BY DEF SendToolPiece, Room, Streaming, StreamTyped, Converting
  <1>2. PICK tool \in Tools, args \in {None, NextPiece} :
           Take(Chunk("tool", tool, args), ParseOpenAITool(parser, tool, args))
    BY DEF SendToolPiece
  <1> DEFINE chunk == Chunk("tool", tool, args)
  <1> DEFINE r == ParseOpenAITool(parser, tool, args)
  <1> DEFINE s == Append(sent, chunk)
  <1>3. Take(chunk, r) /\ ToolParsed(parser, tool, args, r)
    BY <1>1, <1>2, OpenAIToolIs
  <1>4. dialect \in Dialects /\ ParserFrames(parser) /\ tool \in Int
    BY <1>1, PairTyped, ToolsAssumption DEF FrameInv
  <1> DEFINE text == TextBlock(parser)
  <1> DEFINE calls == CallBlocks(provider, parser)
  <1> DEFINE b == parser.block + 1
  <1>5. b \in Nat
    BY <1>1 DEF ParserTyped, None
  <1>6. ASSUME OneBlockAtATime
        PROVE  /\ Framed(Pending, b, text \cup calls) /\ Agreed(Pending, sent, b)
               /\ \A i \in DOMAIN parser.tools :
                     Reached(Pending, parser.tools[i].tool, parser.tools[i].block)
               /\ \A x \in NamedIn(sent) : Known(parser, x)
    BY <1>1, <1>6, ParserBlocks DEF FrameInv, CallInv, Pointed
  <1>7. /\ args = None /\ tool \in NamedIn(sent) => SameSaid(sent, s)
        /\ args # None /\ tool \in NamedIn(sent) => SaidMore(sent, s, tool, args)
        /\ args = None /\ tool \notin NamedIn(sent) => SaidStart(sent, s, tool)
        /\ args # None /\ tool \notin NamedIn(sent) =>
              \E mid : SaidStart(sent, mid, tool) /\ SaidMore(mid, s, tool, args)
    BY <1>1, SaidBy, SaidAtOnce
  <1> HIDE DEF chunk, r, s
  <1>8. CASE Known(parser, tool)
    <2>1. r.parser = parser
      BY <1>3, <1>8 DEF ToolParsed
    <2>2. \E i \in DOMAIN parser.tools :
             /\ parser.tools[i].tool = tool
             /\ r.events = IF args = None THEN <<>>
                           ELSE <<Event("tool_call_delta", parser.tools[i].block, args)>>
      BY <1>3, <1>8 DEF ToolParsed
    <2>3. PICK i \in DOMAIN parser.tools :
             /\ parser.tools[i].tool = tool
             /\ r.events = IF args = None THEN <<>>
                           ELSE <<Event("tool_call_delta", parser.tools[i].block, args)>>
      BY <2>2
    <2> DEFINE at == parser.tools[i].block
    <2> DEFINE e == Event("tool_call_delta", at, args)
    <2>4. HasOpen(text \cup calls, at, "tool_use")
      <3>1. Slotted(at, "tool_use") \in calls
        BY <1>1 DEF CallBlocks
      <3> QED
        BY <3>1, SlottedIs DEF HasOpen
    <2>5. r.events = IF args = None THEN <<>> ELSE <<e>>
      BY <2>3
    <2> DEFINE after == PassAll(Pending, r.events)
    <2>6. IsEvents(r.events) /\ after = IF args = None THEN Pending ELSE Pass(Pending, e)
      <3> HIDE DEF e
      <3>1. CASE args = None
        BY <2>5, <3>1, EventsAre, PassAllFew
      <3>2. CASE args # None
        <4>1. r.events = <<e>> /\ PassAll(Pending, <<e>>) = Pass(Pending, e) /\ IsEvents(<<e>>)
          BY <2>5, <3>2, EventsAre, PassAllFew
        <4> QED
          BY <3>2, <4>1
      <3> HIDE DEF after
      <3> QED
        BY <3>1, <3>2, Zenon
    <2>7. ASSUME OneBlockAtATime
          PROVE  /\ Agreed(after, s, b) /\ NamedIn(s) = NamedIn(sent)
                 /\ \A x, k : Reached(Pending, x, k) => Reached(after, x, k)
      <3>1. Reached(Pending, tool, at)
        BY <1>6, <2>3, <2>7
      <3>2. tool \in NamedIn(sent)
        <4> DEFINE call == CallOf(tool, SlotOf(writer, at))
        <4>1. call \in CallsIn(client)
          BY <2>7, <3>1, CallClient DEF Reached
        <4>2. call.tool = tool
          BY CallOfIs
        <4> HIDE DEF call
        <4> QED
          BY <1>6, <2>7, <4>1, <4>2, CallClient DEF Agreed, CallsAgree
      <3>3. CASE args = None
        <4>1. SameSaid(sent, s) /\ after = Pending
          BY <1>7, <2>6, <3>2, <3>3
        <4>2. CalmPassed(Pending, Pending) /\ b >= b
          BY <1>5, <2>7, CallClient DEF CalmPassed, SameCalls
        <4> HIDE DEF after, b
        <4> QED
          BY <1>5, <1>6, <2>7, <4>1, <4>2, AgreedCalm DEF SameSaid
      <3>4. CASE args # None
        <4>1. SaidMore(sent, s, tool, args) /\ after = Pass(Pending, e)
          BY <1>7, <2>6, <3>2, <3>4
        <4> HIDE DEF after, b, at, text, calls
        <4>2. /\ Agreed(Pass(Pending, e), s, b)
              /\ \A x, k : Reached(Pending, x, k) => Reached(Pass(Pending, e), x, k)
          BY <1>4, <1>6, <2>4, <2>7, <3>1, <4>1, AgreedGets
        <4> HIDE DEF e
        <4> QED
          BY <4>1, <4>2 DEF SaidMore
      <3> QED
        BY <3>3, <3>4
    <2> HIDE DEF after, b
    <2>8. OneBlockAtATime => Agreed(after, s, b) /\ Pointed(provider, after, parser, s)
      BY <1>1, <1>6, <2>7 DEF Pointed
    <2>9. OneBlockAtATime => /\ Agreed(PassAll(Pending, r.events), Append(sent, chunk),
                                       r.parser.block + 1)
                             /\ Pointed(provider, PassAll(Pending, r.events), r.parser,
                                        Append(sent, chunk))
      BY <2>1, <2>8 DEF after, s, b
    <2> QED
      BY <1>3, <2>6, <2>9, CallTaken
  <1>9. CASE ~Known(parser, tool)
    <2> DEFINE q == WithCall(parser, tool)
    <2> DEFINE a == CloseText(parser)
    <2> DEFINE o == Opened(b, tool, args)
    <2> DEFINE e1 == Event("tool_call_start", b, tool)
    <2> DEFINE e2 == Event("tool_call_delta", b, args)
    <2> DEFINE s1 == PassAll(Pending, a)
    <2> DEFINE s2 == Pass(s1, e1)
    <2> DEFINE blocks == calls \cup {Slotted(b, "tool_use")}
    <2>1. r.parser = q /\ r.events = a \o o
      BY <1>3, <1>9 DEF ToolParsed
    <2>2. IsEvents(a) /\ IsEvents(o)
      BY OpenedEvents
    <2>3. q.block = b
      BY <1>1, <1>4, FramesWithCall
    <2>4. HasOpen(blocks, b, "tool_use")
      BY SlottedIs DEF HasOpen
    <2>5. o = IF args = None THEN <<e1>> ELSE <<e1, e2>>
      BY DEF Opened
    <2>6. ASSUME OneBlockAtATime
          PROVE  /\ Framed(s2, b + 1, blocks) /\ tool \notin NamedIn(sent)
                 /\ \A t : SaidStart(sent, t, tool) =>
                       /\ Agreed(s2, t, b + 1) /\ Reached(s2, tool, b)
                       /\ \A x, k : k # b /\ Reached(Pending, x, k) => Reached(s2, x, k)
      <3>1. Framed(s2, b + 1, blocks)
        BY <1>1, <1>4, <1>6, <2>6, FrameCallOpened
      <3>2. tool \notin NamedIn(sent)
        BY <1>6, <1>9, <2>6
      <3>3. ASSUME NEW t, SaidStart(sent, t, tool)
            PROVE  /\ Agreed(s2, t, b + 1) /\ Reached(s2, tool, b)
                   /\ \A x, k : k # b /\ Reached(Pending, x, k) => Reached(s2, x, k)
        BY <1>1, <1>4, <1>6, <2>6, <3>2, <3>3, CallOpened
      <3> HIDE DEF s2, blocks
      <3> QED
        BY <3>1, <3>2, <3>3
    <2> HIDE DEF e1, e2, s1, o
    <2> DEFINE after == PassAll(s1, o)
    <2>7. after = IF args = None THEN s2 ELSE Pass(s2, e2)
      <3>1. CASE args = None
        BY <2>5, <3>1, PassAllFew
      <3>2. CASE args # None
        BY <2>5, <3>2, PassAllTwo
      <3> QED
        BY <3>1, <3>2
    <2> HIDE DEF a
    <2>8. IsEvents(r.events) /\ PassAll(Pending, r.events) = after
      BY <2>1, <2>2, EventsAre DEF s1
    <2> HIDE DEF blocks, q, s2, after
    <2>9. ASSUME OneBlockAtATime
          PROVE  /\ Agreed(after, s, b + 1) /\ NamedIn(s) = NamedIn(sent) \cup {tool}
                 /\ Reached(after, tool, b)
                 /\ \A x, k : k # b /\ Reached(Pending, x, k) => Reached(after, x, k)
      <3>1. CASE args = None
        <4>1. SaidStart(sent, s, tool) /\ after = s2
          BY <1>7, <2>6, <2>7, <2>9, <3>1
        <4> HIDE DEF b
        <4> QED
          BY <2>6, <2>9, <4>1 DEF SaidStart
      <3>2. CASE args # None
        <4>1. PICK mid : SaidStart(sent, mid, tool) /\ SaidMore(mid, s, tool, args)
          BY <1>7, <2>6, <2>9, <3>2
        <4>2. after = Pass(s2, e2)
          BY <2>7, <3>2
        <4> HIDE DEF b
        <4>3. /\ Agreed(s2, mid, b + 1) /\ Reached(s2, tool, b) /\ Framed(s2, b + 1, blocks)
              /\ \A x, k : k # b /\ Reached(Pending, x, k) => Reached(s2, x, k)
          BY <2>6, <2>9, <4>1
        <4>4. /\ Agreed(Pass(s2, e2), s, b + 1)
              /\ \A x, k : Reached(s2, x, k) => Reached(Pass(s2, e2), x, k)
          BY <1>4, <2>4, <4>1, <4>3, AgreedGets DEF e2
        <4>5. NamedIn(s) = NamedIn(sent) \cup {tool}
          BY <4>1 DEF SaidStart, SaidMore
        <4> QED
          BY <4>2, <4>3, <4>4, <4>5
      <3> QED
        BY <3>1, <3>2
    <2>10. /\ Known(q, tool) /\ \A x : Known(parser, x) => Known(q, x)
           /\ \A i \in DOMAIN q.tools :
                 \/ q.tools[i].tool = tool /\ q.tools[i].block = b
                 \/ /\ i \in DOMAIN parser.tools /\ q.tools[i] = parser.tools[i]
                    /\ parser.tools[i].block # b
      BY <1>1, <1>4, WithCallTools DEF q
    <2> HIDE DEF b
    <2>11. ASSUME OneBlockAtATime PROVE Pointed(provider, after, q, s)
      <3>1. \A i \in DOMAIN q.tools : Reached(after, q.tools[i].tool, q.tools[i].block)
        BY <1>6, <2>9, <2>10, <2>11
      <3>2. \A x \in NamedIn(s) : Known(q, x)
        BY <1>6, <2>9, <2>10, <2>11
      <3> QED
        BY <1>1, <3>1, <3>2 DEF Pointed
    <2>12. OneBlockAtATime => /\ Agreed(PassAll(Pending, r.events), Append(sent, chunk),
                                        r.parser.block + 1)
                              /\ Pointed(provider, PassAll(Pending, r.events), r.parser,
                                         Append(sent, chunk))
      BY <2>1, <2>3, <2>8, <2>9, <2>11 DEF s
    <2> QED
      BY <1>3, <2>8, <2>12, CallTaken
  <1> QED
    BY <1>8, <1>9

LEMMA CallSendFunctionCall == StreamTyped /\ FrameInv /\ CallInv /\ SendFunctionCall => CallInv'
  <1> SUFFICES ASSUME StreamTyped, FrameInv, CallInv, SendFunctionCall PROVE CallInv'
    OBVIOUS
  <1>1. /\ provider = "gemini" /\ ~ended /\ ParserTyped(parser) /\ IsSeq(sent)
        /\ provider # "raw" /\ provider # "anthropic" /\ provider # "openai" /\ Converting(provider)
    BY DEF SendFunctionCall, Room, Streaming, StreamTyped, Converting
  <1> DEFINE k == NextPiece
  <1> DEFINE chunk == Chunk("tool", k, k)
  <1> DEFINE r == ParseGeminiTool(parser, k, k)
  <1> DEFINE s == Append(sent, chunk)
  <1>2. /\ Take(chunk, r) /\ dialect \in Dialects /\ ParserFrames(parser)
        /\ k \in Int /\ k # None /\ k = Len(sent) + 1 /\ Len(sent) \in Nat /\ Len(s) = k
    <2>1. /\ Take(chunk, r) /\ dialect \in Dialects /\ ParserFrames(parser)
          /\ k = Len(sent) + 1 /\ Len(sent) \in Nat
      BY <1>1, PairTyped DEF SendFunctionCall, FrameInv
    <2>2. Len(s) = Len(sent) + 1
      BY <1>1, IsSeqAppend
    <2> HIDE DEF k, s, chunk, r
    <2> QED
      BY <2>1, <2>2 DEF None
  <1> DEFINE text == TextBlock(parser)
  <1> DEFINE calls == CallBlocks(provider, parser)
  <1> DEFINE b == parser.block + 1
  <1> DEFINE q == WithCall(parser, k)
  <1> DEFINE a == CloseText(parser)
  <1> DEFINE e1 == Event("tool_call_start", b, k)
  <1> DEFINE e2 == Event("tool_call_delta", b, k)
  <1> DEFINE e3 == End(b)
  <1>3. r.parser = q /\ r.events = a \o <<e1, e2, e3>>
    BY DEF ParseGeminiTool, WithCall
  <1>4. calls = {}
    BY <1>1 DEF CallBlocks
  <1>5. ASSUME OneBlockAtATime
        PROVE  /\ Framed(Pending, b, text \cup calls) /\ Agreed(Pending, sent, b)
               /\ \A x \in NamedIn(sent) : x \in Int /\ x <= Len(sent)
    BY <1>1, <1>5, ParserBlocks DEF FrameInv, CallInv, Pointed
  <1>6. q.block = b /\ b + 1 \in Nat /\ b + 1 >= b + 1
    <2>1. q.block = b
      BY <1>1, <1>2, FramesWithCall
    <2>2. b \in Nat
      BY <1>1 DEF ParserTyped, None
    <2> HIDE DEF b, q
    <2> QED
      BY <2>1, <2>2
  <1> DEFINE s1 == PassAll(Pending, a)
  <1> DEFINE s2 == Pass(s1, e1)
  <1> DEFINE s3 == Pass(s2, e2)
  <1> DEFINE s4 == Pass(s3, e3)
  <1> DEFINE blocks == {Slotted(b, "tool_use")}
  <1>7. ASSUME OneBlockAtATime
        PROVE  /\ k \notin NamedIn(sent) /\ Framed(s2, b + 1, blocks)
               /\ \A t : SaidStart(sent, t, k) => Agreed(s2, t, b + 1) /\ Reached(s2, k, b)
    <2>1. k \notin NamedIn(sent)
      <3> HIDE DEF k
      <3> QED
        BY <1>2, <1>5, <1>7
    <2>2. Framed(s2, b + 1, calls \cup {Slotted(b, "tool_use")})
      BY <1>1, <1>2, <1>5, <1>7, FrameCallOpened
    <2>3. ASSUME NEW t, SaidStart(sent, t, k)
          PROVE  Agreed(s2, t, b + 1) /\ Reached(s2, k, b)
      BY <1>1, <1>2, <1>5, <1>7, <2>1, <2>3, CallOpened
    <2> HIDE DEF s2, b, k, calls
    <2> QED
      BY <1>4, <2>1, <2>2, <2>3
  <1>8. IsEvents(a)
    BY OpenedEvents
  <1> HIDE DEF e1, e2, e3, a, r, chunk, q, text, calls
  <1>9. IsEvents(r.events) /\ PassAll(Pending, r.events) = s4
    <2> DEFINE o == <<e1, e2, e3>>
    <2>1. IsEvents(o)
      BY EventsAre
    <2>2. PassAll(s1, o) = s4
      BY PassAllThree
    <2> HIDE DEF o, s4
    <2>3. r.events = a \o o
      BY <1>3 DEF o
    <2>4. IsEvents(r.events) /\ PassAll(Pending, r.events) = PassAll(s1, o)
      BY <1>8, <2>1, <2>3, EventsAre
    <2> QED
      BY <2>2, <2>4
  <1>10. HasOpen(blocks, b, "tool_use")
    BY SlottedIs DEF HasOpen
  <1> HIDE DEF s1, s2, blocks, b
  <1>11. ASSUME OneBlockAtATime
         PROVE  Agreed(s4, s, b + 1) /\ NamedIn(s) = NamedIn(sent) \cup {k}
    <2> HIDE DEF k, s, s3, s4
    <2>1. PICK mid : SaidStart(sent, mid, k) /\ SaidMore(mid, s, k, k)
      BY <1>1, <1>2, <1>7, <1>11, SaidAtOnce DEF s, chunk
    <2>2. Agreed(s2, mid, b + 1) /\ Reached(s2, k, b) /\ Framed(s2, b + 1, blocks)
      BY <1>7, <1>11, <2>1
    <2>3. Agreed(s3, s, b + 1)
      <3>1. Agreed(Pass(s2, e2), s, b + 1)
        BY <1>2, <1>10, <2>1, <2>2, AgreedGets DEF e2
      <3> QED
        BY <3>1 DEF s3
    <2>4. CalmPassed(s3, s4)
      <3>1. PICK data : e3 = Event("content_block_end", b, data)
        BY Zenon DEF e3, End
      <3>2. Calm("content_block_end", data) /\ IsSeq(s3.client)
        BY <2>3 DEF Calm, CalmKinds, Agreed, CallsAgree
      <3>3. CalmPassed(s3, Pass(s3, e3))
        BY <1>2, <3>1, <3>2, CalmStep
      <3> QED
        BY <3>3 DEF s4
    <2>5. Agreed(s4, s, b + 1)
      BY <1>6, <2>3, <2>4, SameSaidSame, AgreedCalm
    <2> QED
      BY <2>1, <2>5 DEF SaidStart, SaidMore
  <1> HIDE DEF s4, k
  <1>12. ASSUME OneBlockAtATime PROVE Pointed(provider, s4, q, s)
    <2>1. \A x \in NamedIn(s) : x \in Int /\ x <= Len(s)
      <3> HIDE DEF s
      <3> QED
        BY <1>2, <1>5, <1>11, <1>12
    <2> HIDE DEF s
    <2> QED
      BY <1>1, <2>1 DEF Pointed
  <1>13. OneBlockAtATime => /\ Agreed(PassAll(Pending, r.events), Append(sent, chunk),
                                      r.parser.block + 1)
                            /\ Pointed(provider, PassAll(Pending, r.events), r.parser,
                                       Append(sent, chunk))
    BY <1>3, <1>6, <1>9, <1>11, <1>12
  <1> QED
    BY <1>2, <1>9, <1>13, CallTaken

\* An Anthropic provider names a call by its piece, and the pieces of arguments
\* are those of the call it has open.
LEMMA MaySendCalls ==
    ASSUME NEW s, NEW c, MaySend(s, c)
    PROVE  /\ \E tool, data : c = Chunk(c.kind, tool, data)
           /\ c.kind = "tool_start" => c.tool = Len(s) + 1
           /\ c.kind = "args" => c.tool = LastStartOf(s).tool /\ c.data = Len(s) + 1
  <1>1. PICK nil : nil = ""
    OBVIOUS
  <1>2. \/ c = Chunk("args", LastStartOf(s).tool, Len(s) + 1)
        \/ c = Chunk("tool_start", Len(s) + 1, nil)
        \/ \E kind, tool, data : /\ kind \notin {"args", "tool_start"}
                                 /\ c = Chunk(kind, tool, data)
    <2>1. \/ c = Chunk("args", LastStartOf(s).tool, Len(s) + 1)
          \/ c = Chunk("tool_start", Len(s) + 1, nil)
          \/ \E tool, data : \/ c = Chunk("message_stop", tool, data)
                             \/ c = Chunk("block_start", tool, data)
                             \/ c = Chunk("message_delta", tool, data)
                             \/ c = Chunk("text", tool, data)
                             \/ c = Chunk("thinking", tool, data)
                             \/ c = Chunk("signature", tool, data)
                             \/ c = Chunk("block_stop", tool, data)
      BY <1>1, Zenon DEF MaySend
    <2> QED
      BY <2>1
  <1>3. CASE c = Chunk("args", LastStartOf(s).tool, Len(s) + 1)
    <2>1. c.kind = "args" /\ c.tool = LastStartOf(s).tool /\ c.data = Len(s) + 1
      BY <1>3, ChunkIs
    <2> QED
      BY <1>3, <2>1
  <1>4. CASE c = Chunk("tool_start", Len(s) + 1, nil)
    <2>1. c.kind = "tool_start" /\ c.tool = Len(s) + 1
      BY <1>4, ChunkIs
    <2> QED
      BY <1>4, <2>1
  <1>5. ASSUME NEW kind, NEW tool, NEW data, kind \notin {"args", "tool_start"},
               c = Chunk(kind, tool, data)
        PROVE  /\ \E x, y : c = Chunk(c.kind, x, y)
               /\ c.kind \notin {"args", "tool_start"}
    <2>1. c.kind = kind
      BY <1>5, ChunkIs
    <2> QED
      BY <1>5, <2>1
  <1> QED
    BY <1>2, <1>3, <1>4, <1>5

LEMMA CallSendMessage == StreamTyped /\ FrameInv /\ CallInv /\ SendMessage => CallInv'
  <1> SUFFICES ASSUME StreamTyped, FrameInv, CallInv, SendMessage PROVE CallInv'
    OBVIOUS
  <1>1. /\ provider = "anthropic" /\ provider # "raw" /\ provider # "openai" /\ ~ended
        /\ ParserTyped(parser) /\ parser.block + 1 \in Nat
    BY DEF SendMessage, Room, Streaming, StreamTyped, ParserTyped, None
  <1>2. /\ dialect \in Dialects /\ IsSeq(sent) /\ OpenOf(sent) \in OpenKinds /\ OneBlockAtATime
        /\ Len(sent) \in Nat
    BY <1>1, PairTyped DEF StreamTyped, OneBlockAtATime
  <1>3. PICK c \in AnthropicChunks : Take(c, ParseAnthropic(parser, c))
    BY DEF SendMessage
  <1>4. MaySend(sent, c)
    BY <1>2, SendsMaySend
  <1> DEFINE r == ParseAnthropic(parser, c)
  <1> DEFINE s == Append(sent, c)
  <1> DEFINE old == BlocksOf("anthropic", parser, sent)
  <1> DEFINE b == parser.block
  <1> DEFINE n == b + 1
  <1>5. Take(c, r) /\ Framed(Pending, n, old)
    BY <1>1, <1>2, <1>3 DEF FrameInv
  <1>6. /\ Agreed(Pending, sent, n)
        /\ OpenOf(sent) = "tool_use" => Reached(Pending, LastStartOf(sent).tool, b)
        /\ \A tool \in NamedIn(sent) : tool \in Int /\ tool <= Len(sent)
        /\ IsSeq(Pending.client)
    BY <1>1, <1>2, CallClient DEF CallInv, Pointed
  <1>7. /\ OpenOf(sent) = "none" => old = {}
        /\ OpenOf(sent) = "tool_use" => old = {Slotted(b, "tool_use")}
    BY AnthropicBlocks
  <1>8. /\ LastStartOf(s) = c \/ c.kind # "tool_start"
        /\ c.kind = "block_start" => OpenOf(s) = c.data
        /\ c.kind = "tool_start" => OpenOf(s) = "tool_use"
        /\ c.kind \in {"block_stop", "message_delta", "message_stop"} => OpenOf(s) = "none"
        /\ c.kind \in {"text", "thinking", "signature", "args"} /\ OpenOf(sent) # "none" =>
              OpenOf(s) = OpenOf(sent) /\ LastStartOf(s) = LastStartOf(sent)
    BY <1>2, OpenOfAppend
  <1>9. /\ c.kind = "block_start" /\ c.data = "thinking" =>
              /\ r.events = <<Event("content_block_start", n, "reasoning")>>
              /\ r.parser.block = n
        /\ c.kind = "block_start" /\ c.data = "text" =>
              /\ r.events = <<Event("content_block_start", n, "text")>>
              /\ r.parser.block = n
        /\ c.kind = "tool_start" => /\ r.parser.block = n
                                    /\ r.events = <<Event("tool_call_start", n, c.tool)>>
        /\ c.kind \in {"text", "thinking", "signature", "args", "block_stop",
                       "message_delta", "message_stop"} => r.parser.block = b
    BY <1>1, AnthropicCounts, AnthropicParsed
  <1>10. /\ c.kind = "text" => r.events = <<Event("text_delta", b, c.data)>>
         /\ c.kind = "thinking" => r.events = <<Event("reasoning_delta", b, c.data)>>
         /\ c.kind = "signature" => \E nil : r.events = <<Event("signature_delta", b, nil)>>
         /\ c.kind = "args" => r.events = <<Event("tool_call_delta", b, c.data)>>
         /\ c.kind = "block_stop" => r.events = <<End(b)>>
         /\ c.kind = "message_delta" =>
               \E x, y : r.events = <<Event("finish", None, x), Event("usage", None, y)>>
         /\ c.kind = "message_stop" => \E nil : r.events = <<Event("stream_end", None, nil)>>
    <2>1. AnthropicTold(c, b, r.events)
      BY AnthropicTells
    <2> HIDE DEF r, b
    <2> QED
      BY <2>1 DEF AnthropicTold
  <1>11. \/ c.kind = "block_start" /\ c.data \in {"text", "thinking"} /\ OpenOf(sent) = "none"
         \/ c.kind = "tool_start" /\ OpenOf(sent) = "none"
         \/ c.kind = "text" /\ OpenOf(sent) = "text"
         \/ c.kind \in {"thinking", "signature"} /\ OpenOf(sent) = "thinking"
         \/ c.kind = "args" /\ OpenOf(sent) = "tool_use"
         \/ c.kind = "block_stop" /\ OpenOf(sent) \in {"text", "thinking", "tool_use"}
         \/ c.kind \in {"message_delta", "message_stop"} /\ OpenOf(sent) = "none"
    BY <1>2, <1>4, MaySendKinds, MaySendOpen DEF OpenKinds
  <1>12. PICK tool, data : c = Chunk(c.kind, tool, data)
    BY <1>4, MaySendCalls
  <1>13. /\ c.kind = "tool_start" => c.tool = Len(sent) + 1
         /\ c.kind = "args" => c.tool = LastStartOf(sent).tool /\ c.data = Len(sent) + 1
    BY <1>4, MaySendCalls
  <1>14. tool = c.tool /\ data = c.data
    BY <1>12, ChunkIs
  <1>15. /\ c.kind \notin {"tool", "tool_start", "args"} => SameSaid(sent, s)
         /\ c.kind = "tool_start" /\ c.tool \notin NamedIn(sent) => SaidStart(sent, s, c.tool)
         /\ c.kind = "args" /\ c.data # None => SaidMore(sent, s, c.tool, c.data)
    <2> DEFINE kind == c.kind
    <2>1. c = Chunk(kind, tool, data)
      BY <1>12
    <2> HIDE DEF kind
    <2>2. /\ kind \notin {"tool", "tool_start", "args"} => SameSaid(sent, s)
          /\ kind = "tool_start" /\ tool \notin NamedIn(sent) => SaidStart(sent, s, tool)
          /\ kind = "args" /\ data # None => SaidMore(sent, s, tool, data)
      BY <1>2, <2>1, SaidBy
    <2> QED
      BY <1>14, <2>2 DEF kind
  <1>16. Len(s) = Len(sent) + 1 /\ b \in Int /\ n \in Nat /\ n = b + 1 /\ n >= n
         /\ r.parser.tools = parser.tools
    <2>1. Len(s) = Len(sent) + 1
      BY <1>2, IsSeqAppend
    <2>2. b \in Int
      BY <1>1 DEF ParserTyped, None
    <2>3. r.parser.tools = parser.tools
      <3> DEFINE p == [parser EXCEPT !.block = parser.block + 1]
      <3>1. p.tools = parser.tools
        BY <1>1 DEF ParserTyped
      <3>2. r.parser = parser \/ r.parser = p
        BY <1>11 DEF ParseAnthropic
      <3> HIDE DEF p, r
      <3> QED
        BY <3>1, <3>2
    <2> QED
      BY <1>1, <2>1, <2>2, <2>3
  <1> HIDE DEF r, s, old, n, b
  <1> DEFINE acc == PassAll(Pending, r.events)
  <1> DEFINE Calmly == IsEvents(r.events) /\ CalmPassed(Pending, acc)
  <1>17. ASSUME NEW kind, NEW index, NEW d, r.events = <<Event(kind, index, d)>>, Calm(kind, d)
         PROVE  Calmly
    <2> DEFINE e == Event(kind, index, d)
    <2>1. CalmPassed(Pending, Pass(Pending, e))
      BY <1>2, <1>6, <1>17, CalmStep
    <2> HIDE DEF e
    <2>2. r.events = <<e>>
      BY <1>17 DEF e
    <2>3. IsEvents(<<e>>) /\ PassAll(Pending, <<e>>) = Pass(Pending, e)
      BY EventsAre, PassAllFew
    <2> QED
      BY <2>1, <2>2, <2>3
  <1>18. CASE c.kind \notin {"tool_start", "args"}
    <2>1. Calmly
      <3> HIDE DEF Calmly
      <3>1. CASE c.kind = "block_start"
        <4>1. \E what \in {"text", "reasoning"} : r.events = <<Event("content_block_start", n, what)>>
          BY <1>9, <1>11, <3>1
        <4>2. \A what \in {"text", "reasoning"} : Calm("content_block_start", what)
          BY DEF Calm, CalmKinds
        <4> QED
          BY <1>17, <4>1, <4>2
      <3>2. CASE c.kind = "message_delta"
        <4>1. PICK x, y : r.events = <<Event("finish", None, x), Event("usage", None, y)>>
          BY <1>10, <3>2
        <4> DEFINE e1 == Event("finish", None, x)
        <4> DEFINE e2 == Event("usage", None, y)
        <4>2. EventOf(SilentKinds, e1) /\ EventOf(SilentKinds, e2)
          BY EventsOfIs DEF SilentKinds, CalmKinds
        <4> HIDE DEF e1, e2
        <4>3. r.events = <<e1, e2>>
          BY <4>1 DEF e1, e2
        <4>4. EventsOf(SilentKinds, <<e1, e2>>) /\ IsEvents(<<e1, e2>>)
          BY <4>2, EventsOfIs, EventsAre
        <4>5. EventsOf(SilentKinds, r.events) /\ IsEvents(r.events)
          BY <4>3, <4>4
        <4>6. CalmPassed(Pending, PassAll(Pending, r.events))
          BY <1>2, <1>6, <4>5, CalmSteps
        <4> QED
          BY <4>5, <4>6 DEF Calmly
      <3>3. CASE c.kind \notin {"block_start", "message_delta"}
        <4>1. \A d : \A kind \in SilentKinds : Calm(kind, d)
          BY DEF Calm, SilentKinds
        <4>2. \E kind \in SilentKinds : \E index, d : r.events = <<Event(kind, index, d)>>
          <5>1. CASE c.kind = "block_stop"
            <6>1. \E d : End(b) = Event("content_block_end", b, d)
              BY Zenon DEF End
            <6>2. "content_block_end" \in SilentKinds
              BY DEF SilentKinds, CalmKinds
            <6> QED
              BY <1>10, <5>1, <6>1, <6>2
          <5>2. CASE c.kind \in {"text", "thinking", "signature", "message_stop"}
            <6>1. /\ "text_delta" \in SilentKinds /\ "reasoning_delta" \in SilentKinds
                  /\ "signature_delta" \in SilentKinds /\ "stream_end" \in SilentKinds
              BY DEF SilentKinds, CalmKinds
            <6> QED
              BY <1>10, <5>2, <6>1
          <5> QED
            BY <1>11, <1>18, <3>3, <5>1, <5>2
        <4> QED
          BY <1>17, <4>1, <4>2
      <3> QED
        BY <3>1, <3>2, <3>3
    <2>2. r.parser.block \in Int /\ r.parser.block >= parser.block
      <3>1. r.parser.block = b \/ r.parser.block = n
        BY <1>9, <1>11, <1>18
      <3> QED
        BY <1>16, <3>1 DEF b
    <2>3. SameSaid(sent, s)
      BY <1>11, <1>15, <1>18
    <2>4. OpenOf(s) = "tool_use" =>
             OpenOf(sent) = "tool_use" /\ r.parser.block = parser.block
             /\ LastStartOf(s) = LastStartOf(sent)
      <3>1. ASSUME c.kind \in {"text", "thinking", "signature"} PROVE OpenOf(s) # "tool_use"
        BY <1>8, <1>11, <3>1
      <3>2. ASSUME c.kind \in {"block_start", "block_stop", "message_delta", "message_stop"}
            PROVE  OpenOf(s) # "tool_use"
        BY <1>8, <1>11, <3>2
      <3> QED
        BY <1>11, <1>18, <3>1, <3>2
    <2> QED
      BY <1>1, <1>5, <1>16, <2>1, <2>2, <2>3, <2>4, CallCalmTaken DEF s
  \* A call is started, or the open one is given a piece.
  <1>19. ASSUME NEW e, r.events = <<e>>, Agreed(Pass(Pending, e), s, n), r.parser.block + 1 = n,
                OpenOf(s) = "tool_use" =>
                   Reached(Pass(Pending, e), LastStartOf(s).tool, r.parser.block),
                \A x \in NamedIn(s) : x \in Int /\ x <= Len(s)
         PROVE  CallInv'
    <2>1. IsEvents(r.events) /\ acc = Pass(Pending, e)
      <3>1. IsEvents(<<e>>) /\ PassAll(Pending, <<e>>) = Pass(Pending, e)
        BY EventsAre, PassAllFew
      <3> QED
        BY <1>19, <3>1
    <2>2. Agreed(acc, s, r.parser.block + 1) /\ Pointed(provider, acc, r.parser, s)
      <3> HIDE DEF acc
      <3> QED
        BY <1>1, <1>19, <2>1 DEF Pointed
    <2> QED
      BY <1>5, <2>1, <2>2, CallTaken DEF s
  <1>20. CASE c.kind = "args"
    <2>1. c.tool = LastStartOf(sent).tool /\ c.data = Len(sent) + 1 /\ OpenOf(sent) = "tool_use"
      BY <1>11, <1>13, <1>20
    <2>2. SaidMore(sent, s, c.tool, c.data)
      BY <1>2, <1>15, <1>20, <2>1 DEF None
    <2> DEFINE e == Event("tool_call_delta", b, c.data)
    <2>3. r.events = <<e>> /\ r.parser.block = b
      BY <1>9, <1>10, <1>20
    <2>4. HasOpen(old, b, "tool_use")
      BY <1>7, <2>1, SlottedIs DEF HasOpen
    <2>5. Reached(Pending, c.tool, b)
      BY <1>6, <2>1
    <2>6. /\ Agreed(Pass(Pending, e), s, n)
          /\ \A x, k : Reached(Pending, x, k) => Reached(Pass(Pending, e), x, k)
      BY <1>2, <1>5, <1>6, <2>2, <2>4, <2>5, AgreedGets
    <2> HIDE DEF e
    <2>7. LastStartOf(s) = LastStartOf(sent)
      BY <1>8, <1>20, <2>1
    <2>8. \A x \in NamedIn(s) : x \in Int /\ x <= Len(s)
      <3>1. NamedIn(s) = NamedIn(sent)
        BY <2>2 DEF SaidMore
      <3> QED
        BY <1>2, <1>6, <1>16, <3>1
    <2> QED
      BY <1>16, <1>19, <2>1, <2>3, <2>5, <2>6, <2>7, <2>8
  <1>21. CASE c.kind = "tool_start"
    <2>1. c.tool = Len(sent) + 1 /\ OpenOf(sent) = "none" /\ LastStartOf(s) = c
      BY <1>8, <1>11, <1>13, <1>21
    <2>2. c.tool \notin NamedIn(sent)
      BY <1>2, <1>6, <2>1
    <2>3. SaidStart(sent, s, c.tool)
      BY <1>15, <1>21, <2>2
    <2> DEFINE e == Event("tool_call_start", n, c.tool)
    <2>4. r.events = <<e>> /\ r.parser.block = n
      BY <1>9, <1>21
    <2>5. old = {}
      BY <1>7, <2>1
    <2>6. Agreed(Pass(Pending, e), s, n + 1) /\ Reached(Pass(Pending, e), c.tool, n)
      BY <1>2, <1>5, <1>6, <2>2, <2>3, <2>5, AgreedStart
    <2> HIDE DEF e
    <2>7. \A x \in NamedIn(s) : x \in Int /\ x <= Len(s)
      <3>1. NamedIn(s) = NamedIn(sent) \cup {c.tool}
        BY <2>3 DEF SaidStart
      <3> QED
        BY <1>2, <1>6, <1>16, <2>1, <3>1
    <2>8. IsEvents(r.events) /\ acc = Pass(Pending, e)
      <3>1. IsEvents(<<e>>) /\ PassAll(Pending, <<e>>) = Pass(Pending, e)
        BY EventsAre, PassAllFew
      <3> QED
        BY <2>4, <3>1
    <2>9. Agreed(acc, s, r.parser.block + 1) /\ Pointed(provider, acc, r.parser, s)
      <3> HIDE DEF acc
      <3> QED
        BY <1>1, <2>1, <2>4, <2>6, <2>7, <2>8 DEF Pointed
    <2> QED
      BY <1>5, <2>8, <2>9, CallTaken DEF s
  <1> QED
    BY <1>18, <1>20, <1>21

LEMMA CallKept == StreamTyped /\ FrameInv /\ CallInv /\ [Next]_vars => CallInv'
  <1> SUFFICES ASSUME StreamTyped, FrameInv, CallInv, [Next]_vars PROVE CallInv'
    OBVIOUS
  <1>1. CASE Open
    BY <1>1, CallOpen
  <1>2. CASE SendText
    BY <1>2, CallSendText
  <1>3. CASE SendToolPiece
    BY <1>3, CallSendToolPiece
  <1>4. CASE SendFunctionCall
    BY <1>4, CallSendFunctionCall
  <1>5. CASE SendFinish \/ SendUsage
    BY <1>5, CallSendFinishOrUsage
  <1>6. CASE EndOfBody \/ Cut
    BY <1>6, CallEnding
  <1>7. CASE SendMessage
    BY <1>7, CallSendMessage
  <1>8. CASE ReadRaw \/ EndOfRaw
    BY <1>8, CallRaw
  <1>9. CASE UNCHANGED vars
    <2>1. /\ UNCHANGED <<provider, dialect, parser>> /\ sent' = sent
          /\ client' = client /\ writer' = writer
      BY <1>9 DEF vars
    <2>2. OneBlockAtATime => SameCalls(client, client')
      BY <2>1, CallClient DEF SameCalls
    <2>3. SameSaid(sent, sent')
      BY <2>1, SameSaidSame
    <2> QED
      BY <2>1, <2>2, <2>3, CallCalm
  <1> QED
    BY <1>1, <1>2, <1>3, <1>4, <1>5, <1>6, <1>7, <1>8, <1>9 DEF Next

LEMMA CallInvShows == CallInv => ToolCallsIntact
  <1>1. CASE OneBlockAtATime
    <2> SUFFICES ASSUME CallInv PROVE ToolCallsIntact
      OBVIOUS
    <2>1. \E top : CallsAgree(client, sent, top)
      BY <1>1, CallClient DEF CallInv, Agreed
    <2> QED
      BY <2>1, AgreeShows
  <1>2. CASE ~OneBlockAtATime
    BY <1>2 DEF ToolCallsIntact
  <1> QED
    BY <1>1, <1>2

\* For every provider, dialect and warden, every set of texts, tool calls and
\* bounds: every tool call of the provider reaches the client once, in the
\* provider's order, and each piece of its arguments reaches that call and no
\* other, however the provider interleaves the calls with each other and with
\* text (toolBlocks in streamToIR, toolCallByBlock in StreamIRToOAI), and at
\* every moment of the stream, a broken body included.
THEOREM ToolCallsAlwaysIntact == Spec => []ToolCallsIntact
  <1>1. Init => StreamTyped /\ FrameInv /\ CallInv
    BY TypedInit, FrameInit, CallInit
  <1>2. StreamTyped /\ FrameInv /\ CallInv /\ [Next]_vars => StreamTyped' /\ FrameInv' /\ CallInv'
    BY TypedStep, FrameKept, CallKept
  <1>3. CallInv => ToolCallsIntact
    BY CallInvShows
  <1> QED
    BY <1>1, <1>2, <1>3, PTL DEF Spec
=============================================================================
