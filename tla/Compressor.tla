----------------------------- MODULE Compressor -----------------------------
(* The compression plugin as a function of the messages of a request:        *)
(* dynamic values are replaced by placeholders, large tool results are       *)
(* crushed, and old messages give way to a marker. A token is a word here.   *)
(*                                                                           *)
(* What a tool returns is an array of <<"item", object, score>>, a log of    *)
(* <<"line", "info" or "error", n>>, an object of <<"field", "", depth>>, or *)
(* plain words. The object of an item maps each of its fields to <<"plain"   *)
(* or "error", n>>, where "error" is a text with an error word in it; the    *)
(* score is an attribute of the item.                                        *)
EXTENDS WireFormat, FiniteSetsExt

CONSTANTS
    Threshold,          \* a shorter request is not compressed
    TotalBudget,        \* a longer one loses its old messages
    ToolResultBudget,   \* a longer tool result is crushed
    SchemaTokens,       \* set aside for the constant fields of an array
    RecentKeep,         \* messages the window never drops
    MaxLogLines,
    MaxObjectDepth,
    AlignDynamic        \* whether placeholders replace dynamic values

Omitted(n) == <<"omitted", "", n>>
Hash(original) == <<"hash", original, 0>>      \* the retrieval marker
Gap(n) == <<"gap", "", n>>                     \* "[n messages omitted]"

Ceil(a, b) == (a + b - 1) \div b
Indices(seq) == [i \in DOMAIN seq |-> i]

-----------------------------------------------------------------------------
(* The crusher.                                                              *)

\* extractSchema: the fields of an array that do not go into its schema, which are
\* those with more than two values and those that some item does not have.
HighVariance(items) ==
    LET fields == UNION {DOMAIN items[i][2] : i \in DOMAIN items}
        having(k) == {i \in DOMAIN items : k \in DOMAIN items[i][2]}
    IN  {k \in fields :
            \/ Cardinality({items[i][2][k] : i \in having(k)}) > 2
            \/ having(k) # DOMAIN items}

\* scoreItem: the flag is set for an error word in one of those fields only.
Flagged(item, highVar) == \E k \in DOMAIN item[2] \cap highVar : item[2][k][1] = "error"

\* The words of a tool's result that the crusher takes for errors.
Alarms(text) ==
    IF text[1][1] = "item"
    THEN LET highVar == HighVariance(text) IN {w \in ToSet(text) : Flagged(w, highVar)}
    ELSE {w \in ToSet(text) : w[2] = "error"}

Errors(words, alarms) == At(words, {i \in DOMAIN words : words[i] \in alarms})

PartTokens(p) == IF p.text = <<>> THEN 1 ELSE Len(p.text)
TotalTokens(messages) ==
    FoldLeft(LAMBDA n, m : n + FoldLeft(LAMBDA k, p : k + PartTokens(p), 0, m.parts), 0, messages)

\* Indices by falling score.
Ranked(items, indices) ==
    LET Before(i, j) == \/ items[i][3] > items[j][3]
                        \/ items[i][3] = items[j][3] /\ i < j
    IN  SortSeq(indices, Before)

\* kneedle: the number of items, at most n, where the share of the score they
\* cover is furthest above their share of the items.
Kneedle(items, n) ==
    LET ranked == Ranked(items, Indices(items))
        Sum(k) == FoldLeft(LAMBDA s, i : s + items[i][3], 0, SubSeq(ranked, 1, k))
        Gain(k) == Sum(k) * Len(items) - k * Sum(Len(items))
    IN  IF n >= Len(items) THEN Len(items)
        ELSE IF Sum(Len(items)) = 0 THEN n
        ELSE CHOOSE k \in 1..n : \A j \in 1..n : Gain(k) > Gain(j) \/ (Gain(k) = Gain(j) /\ k <= j)

\* Mutant: an error is kept only at the head or at the tail.
EndsKept(items, n) ==
    {i \in DOMAIN items : i <= Ceil(30 * n, 100) \/ i > Len(items) - Ceil(15 * n, 100)}

\* The indices selectItems keeps before it looks at the scores: the flagged items,
\* and the head and the tail of the others.
AlwaysKept(items, n) ==
    LET alarms == Alarms(items)
        errors == {i \in DOMAIN items : items[i] \in alarms}
        others == At(Indices(items), DOMAIN items \ errors)
        head == {others[k] : k \in {k \in DOMAIN others : k <= Ceil(30 * n, 100)}}
        tail == {others[k] : k \in {k \in DOMAIN others : k > Len(others) - Ceil(15 * n, 100)}}
    IN  errors \cup head \cup tail

\* selectItems: the best of the others fill the places that are left.
SelectItems(items, n) ==
    LET always == AlwaysKept(items, n)
        best == Ranked(items, At(Indices(items), DOMAIN items \ always))
        room == IF n > Cardinality(always) THEN n - Cardinality(always) ELSE 0
    IN  At(items, always \cup {best[k] : k \in {k \in DOMAIN best : k <= room}})

CrushArray(items) ==
    LET n == IF ToolResultBudget > SchemaTokens THEN ToolResultBudget - SchemaTokens ELSE 1
        kept == SelectItems(items, Kneedle(items, n))
    IN  IF n >= Len(items) THEN [text |-> items, omitted |-> 0]
        ELSE [text |-> Append(kept, Omitted(Len(items) - Len(kept))),
              omitted |-> Len(items) - Len(kept)]

\* crushLog: the error lines, then the first and the last of the others.
CrushLog(lines) ==
    LET alarms == Alarms(lines)
        errors == Errors(lines, alarms)
        others == At(lines, {i \in DOMAIN lines : lines[i] \notin alarms})
        headN == MaxLogLines \div 2
        tailN == MaxLogLines - headN
        kept == errors \o At(others, {i \in DOMAIN others : i <= headN \/ i > Len(others) - tailN})
    IN  IF Len(kept) >= Len(lines) THEN [text |-> lines, omitted |-> 0]
        ELSE [text |-> Append(kept, Omitted(Len(lines) - Len(kept))),
              omitted |-> Len(lines) - Len(kept)]

\* crushObject: what lies too deep is cut off, and nothing counts as omitted.
CrushObject(fields) ==
    [text |-> [i \in DOMAIN fields |->
                  IF fields[i][3] < MaxObjectDepth THEN fields[i]
                  ELSE <<"field", "truncated", MaxObjectDepth>>],
     omitted |-> 0]

CanHandle(text) == text # <<>> /\ text[1][1] \in {"item", "line", "field"}

Crush(text) ==
    CASE text[1][1] = "item" -> CrushArray(text)
      [] text[1][1] = "line" -> CrushLog(text)
      [] text[1][1] = "field" -> CrushObject(text)

\* A tool result that is too large; its original goes to the CCR store.
Crushed(p) == p.kind = "result" /\ Len(p.text) > ToolResultBudget /\ CanHandle(p.text)

Originals(messages) ==
    {p.text : p \in {q \in UNION {ToSet(messages[i].parts) : i \in DOMAIN messages} : Crushed(q)}}

\* crushToolResults on one part: the marker of storeAndMark names the original.
CrushPart(p) ==
    IF ~Crushed(p) THEN p
    ELSE LET crushed == Crush(p.text)
         IN  Retold(p, crushed.text \o IF crushed.omitted = 0 THEN <<>> ELSE <<Hash(p.text)>>)

-----------------------------------------------------------------------------
(* The aligner and the window.                                               *)

AlignWord(word) == IF word[1] = "dynamic" THEN <<"placeholder", word[2], 0>> ELSE word

\* partToCompress: calls and reasoning go through as raw bytes.
HasText(p) == p.kind \in {"text", "result"}

\* alignMessages
AlignPart(p) ==
    IF AlignDynamic /\ HasText(p)
    THEN Retold(p, [i \in DOMAIN p.text |-> AlignWord(p.text[i])]) ELSE p

Recent(messages) == {i \in DOMAIN messages : i > Len(messages) - RecentKeep}

IdsOf(messages, indices, kind) ==
    {p.id : p \in UNION {ToSet(OfKind(messages[i].parts, kind)) : i \in indices}}

\* Mutant: a result in the window does not keep the message of its call.
CallsForgotten(messages) ==
    Recent(messages) \cup
    {i \in DOMAIN messages :
        IdsOf(messages, {i}, "result") \cap IdsOf(messages, Recent(messages), "call") # {}}

\* The messages that stay: the recent ones, and those with the other half of a
\* tool exchange of which a recent one has a half.
MustKeep(messages) ==
    LET recent == Recent(messages)
    IN  recent \cup
        {i \in DOMAIN messages :
            \/ IdsOf(messages, {i}, "call") \cap IdsOf(messages, recent, "result") # {}
            \/ IdsOf(messages, {i}, "result") \cap IdsOf(messages, recent, "call") # {}}

\* Trim: each run of messages that do not stay becomes one marker, whatever
\* the budget left would allow.
Trim(messages) ==
    LET keep == MustKeep(messages)
        RunEnd(i) == i \notin keep /\ (i = Len(messages) \/ i + 1 \in keep)
        RunLength(i) == i - Max({j \in keep : j < i} \cup {0})
        Out(i) == IF i \in keep THEN <<messages[i]>>
                  ELSE IF RunEnd(i) THEN <<Message("user", <<Text(<<Gap(RunLength(i))>>)>>)>>
                  ELSE <<>>
    IN  IF TotalTokens(messages) <= TotalBudget \/ RecentKeep >= Len(messages) THEN messages
        ELSE FlattenSeq([i \in DOMAIN messages |-> Out(i)])

\* CompressPlugin.Execute: whether it rewrites the request, what goes to the
\* store, and the messages after it.
Compresses(messages) == TotalTokens(messages) > Threshold

Compress(messages) ==
    LET aligned == EachPart(messages, AlignPart)
    IN  [messages |-> Trim(EachPart(aligned, CrushPart)), stored |-> Originals(aligned)]
=============================================================================
