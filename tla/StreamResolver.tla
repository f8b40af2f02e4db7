-------------------------- MODULE StreamResolver --------------------------
(* The token restoring of internal/warden: BuiltinVault.Resolve on a whole   *)
(* text, and StreamResolver, which does the same on a text that arrives in   *)
(* pieces by holding back a token that is not complete yet.                  *)
(*                                                                           *)
(* A text is a sequence of symbols. The two delimiters of a token share      *)
(* their leading byte and differ in the last one, so the opening one is      *)
(* <<"lead", "open">> and the closing one <<"lead", "close">>; "name" stands *)
(* for the label and number of the one token the vault has minted, "value"   *)
(* for what it stands for, and any other symbol for ordinary text.           *)
EXTENDS Integers, Sequences

CONSTANTS
    MaxTokenBytes,   \* how much is held back for one token, in symbols
    Symbols          \* what texts are made of

ASSUME SymbolsAssumption == {"lead", "open", "close", "name", "value"} \subseteq Symbols

Opening == <<"lead", "open">>
Closing == <<"lead", "close">>
Token == Opening \o <<"name">> \o Closing

\* A minted token always fits in what is held back.
ASSUME MaxTokenAssumption == MaxTokenBytes \in Nat /\ MaxTokenBytes >= Len(Token)

Drop(s, n) == SubSeq(s, n + 1, Len(s))
StartsWith(s, p) == Len(p) <= Len(s) /\ SubSeq(s, 1, Len(p)) = p

\* The first place of p in s, 0 when there is none (strings.Index, from 1).
IndexOf(s, p) ==
    LET places == {i \in 1..Len(s) : StartsWith(Drop(s, i - 1), p)}
    IN  IF places = {} THEN 0 ELSE CHOOSE i \in places : \A j \in places : i <= j

\* A complete token begins at the i-th symbol.
TokenAt(s, i) == StartsWith(Drop(s, i - 1), Token)

\* BuiltinVault.Resolve: every complete token replaced by its value. from[i] is
\* what the text from its i-th symbol on becomes.
Resolve(s) ==
    LET from[i \in 1..Len(s) + 1] ==
            IF i > Len(s) THEN <<>>
            ELSE IF TokenAt(s, i) THEN <<"value">> \o from[i + Len(Token)]
            ELSE <<s[i]>> \o from[i + 1]
    IN  from[1]

\* Mutant: a delimiter cut in two by the network is not waited for.
DelimitersArriveWhole(s) == 0

\* partialDelimiterSuffixLen: the end of s that may be half a delimiter.
PartialDelimiterSuffixLen(s) == IF s # <<>> /\ s[Len(s)] = "lead" THEN 1 ELSE 0

\* Mutant: an opening delimiter is waited on for as long as it takes.
PeelNeverGivesUp(s) ==
    LET open == IndexOf(s, Opening)
        close == IndexOf(s, Closing)
    IN  IF open = 0 THEN Len(s) - PartialDelimiterSuffixLen(s)
        ELSE IF open > 1 THEN open - 1
        ELSE IF StartsWith(s, Token) THEN Len(Token)
        ELSE IF close > 0 THEN close + Len(Closing) - 1
        ELSE 0

\* What drain peels off the front of the buffer in one turn of its loop, as a
\* number of symbols; 0 when it stops and waits for more.
Peel(s) ==
    LET open == IndexOf(s, Opening)
        close == IndexOf(s, Closing)
    IN  IF open = 0 THEN Len(s) - PartialDelimiterSuffixLen(s)
        ELSE IF open > 1 THEN open - 1
        ELSE IF StartsWith(s, Token) THEN Len(Token)
        ELSE IF close > 0 THEN close + Len(Closing) - 1
        ELSE IF Len(s) > MaxTokenBytes THEN Len(Opening)
        ELSE 0

\* StreamResolver.drain: the text that is safe to emit and what stays buffered.
\* from[i] is what the turns of the loop do once i symbols have been peeled off.
Drain(s) ==
    LET from[i \in 0..Len(s)] ==
            LET rest == Drop(s, i)
                n == Peel(rest)
            IN  IF n = 0 THEN [out |-> <<>>, held |-> rest]
                ELSE LET later == from[i + n]
                     IN  [out |-> Resolve(SubSeq(rest, 1, n)) \o later.out,
                          held |-> later.held]
    IN  from[0]

\* StreamResolver.Feed.
Feed(held, chunk) == Drain(held \o chunk)

\* StreamResolver.Flush: what is still held, resolved; the buffer is emptied.
Flush(held) == [out |-> Resolve(held), held |-> <<>>]
=============================================================================
