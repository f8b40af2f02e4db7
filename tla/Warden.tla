------------------------------- MODULE Warden -------------------------------
(* The content-safety plugin as a function of one request: which texts are   *)
(* scanned, what is put in the place of a finding, in the neutral request    *)
(* and in the client's own bytes, and how an answer gets its values back.    *)
(*                                                                           *)
(* A word is <<kind, type, n>>. A "value" is what the secret and PII         *)
(* inspectors look for (an email address, a phone number), a "keyword" what  *)
(* makes them surer of one nearby, a "phrase" what the injection and         *)
(* jailbreak inspectors look for; its n is its spelling, 0 that of the list. *)
(* A "mark" is what the canonical copy of a text drops, such as a byte-order *)
(* mark. A "token" is what the vault mints and a "mask" the irreversible     *)
(* replacement. Findings are whole words, all of one length.                 *)
EXTENDS WireFormat

CONSTANTS
    Scores,      \* type -> its score for the pattern and the checksum
    Near,        \* how many words away a keyword counts
    Panics,      \* <<type, text>>: the inspector of the type panics on the text
    TokenLimit   \* the last number that Resolve reads in a token

ASSUME ScoresAssumption == \A type \in DOMAIN Scores : Scores[type] \in Nat
ASSUME NearAssumption == Near \in Nat
ASSUME TokenLimitAssumption == TokenLimit \in Nat

Value(type, n) == <<"value", type, n>>
Phrase(type, spelling) == <<"phrase", type, spelling>>
Keyword(type) == <<"keyword", type, 0>>
Mark == <<"mark", "", 0>>
Token(type, n) == <<"token", type, n>>
Mask(type) == <<"mask", type, 0>>

Is(word, kind) == word[1] = kind

\* A policy: mode is "off", "tokenize", "redact" or "block_only".
Policy(mode, failClosed) == [mode |-> mode, failClosed |-> failClosed]

-----------------------------------------------------------------------------
(* The inspectors. A score of 0 is no finding.                               *)

KeywordBonus == 20

\* The score of a type; one that no inspector looks for has none.
ScoreOf(type) == IF type \in DOMAIN Scores THEN Scores[type] ELSE 0

\* hasNearbyKeyword
KeywordNear(text, i) ==
    \E j \in DOMAIN text : j >= i - Near /\ j <= i + Near /\ text[j] = Keyword(text[i][2])

\* Canonicalize and ToLower: the copy of a text that phrases are looked for in.
Listed(word) == IF Is(word, "phrase") THEN Phrase(word[2], 0) ELSE word
Canonical(text) ==
    LET visible == At(text, {i \in DOMAIN text : ~Is(text[i], "mark")})
    IN  [i \in DOMAIN visible |-> Listed(visible[i])]

\* Detect of the secret and PII inspectors, at a place of the text.
ValueScore(text, i) ==
    IF Is(text[i], "value") /\ <<text[i][2], text>> \notin Panics
    THEN ScoreOf(text[i][2]) + IF KeywordNear(text, i) THEN KeywordBonus ELSE 0
    ELSE 0

\* Detect of the phrase inspectors, at a place of the canonical copy.
PhraseScore(text, canon, i) ==
    IF i \in DOMAIN canon /\ Is(canon[i], "phrase") /\ <<canon[i][2], text>> \notin Panics
    THEN ScoreOf(canon[i][2]) ELSE 0

Finding(value, score) == [value |-> value, score |-> score]

\* Inspect: what is found at each place, the surer of two that overlap. A place of
\* the canonical copy is taken for one of the text.
Findings(text) ==
    LET canon == Canonical(text)
    IN  [i \in DOMAIN text |->
            IF PhraseScore(text, canon, i) > ValueScore(text, i)
            THEN Finding(canon[i], PhraseScore(text, canon, i))
            ELSE Finding(text[i], ValueScore(text, i))]

\* verdictForScore: Redact and Block are acted on, Log and Allow are not.
ActsOn(finding) == finding.score >= 60
Blocks(finding) == finding.score >= 85

Panicked(text) == \E panic \in Panics : panic[2] = text

-----------------------------------------------------------------------------
(* The texts of a request.                                                   *)

\* The parts whose text is scanned.
Scanned(p) == p.kind \in {"text", "reasoning"} /\ p.text # <<>>

\* Mutant: the newest message is scanned first.
FieldsNewestFirst(ir) ==
    LET parts == AllParts(ir.messages)
        scanned == At(parts, {i \in DOMAIN parts : Scanned(parts[i])})
    IN  Reverse([i \in DOMAIN scanned |-> scanned[i].text])
        \o (IF ir.system = <<>> THEN <<>> ELSE <<ir.system>>)

\* collectTextFields: the system text and the scanned parts, in order.
Fields(ir) ==
    LET parts == AllParts(ir.messages)
        scanned == At(parts, {i \in DOMAIN parts : Scanned(parts[i])})
    IN  (IF ir.system = <<>> THEN <<>> ELSE <<ir.system>>)
        \o [i \in DOMAIN scanned |-> scanned[i].text]

-----------------------------------------------------------------------------
(* The vault: the values in the order they were tokenized; a token's number  *)
(* counts the values of its type up to its own.                              *)

MintWord(vault, value) == IF Contains(vault, value) THEN vault ELSE Append(vault, value)

\* A text is rewritten from right to left.
MintText(vault, text) ==
    FoldRight(LAMBDA f, v : IF ActsOn(f) THEN MintWord(v, f.value) ELSE v, Findings(text), vault)

\* The vault after the texts of a request.
Minted(fields) == FoldLeft(MintText, <<>>, fields)

\* The number of values of a type up to an index.
Counter(vault, type, i) == Cardinality({j \in 1..i : vault[j][2] = type})

\* Mutant: a token carries the counter of its type, not the value's number.
TokenizeUncached(vault, value) ==
    Token(value[2], Counter(vault, value[2], Len(vault)))

Tokenize(vault, value) ==
    Token(value[2], Counter(vault, value[2], CHOOSE i \in DOMAIN vault : vault[i] = value))

\* The token of another request, or one the provider made up, stays, and so does
\* one whose number has more digits than vaultTokenPattern.
ResolveWord(vault, word) ==
    LET own == {v \in ToSet(vault) : Tokenize(vault, v) = word}
    IN  IF own = {} \/ word[3] > TokenLimit THEN word ELSE CHOOSE v \in own : TRUE

ResolveText(vault, text) == [i \in DOMAIN text |-> ResolveWord(vault, text[i])]

-----------------------------------------------------------------------------
(* A request.                                                                *)

Replacement(mode, vault, value) ==
    IF mode = "tokenize" THEN Tokenize(vault, value) ELSE Mask(value[2])

\* Sanitize, with the vault as it is in the end: a value keeps its token. What is
\* found at a place is replaced there, whatever the text has at that place.
Sanitize(mode, vault, text) ==
    LET found == Findings(text)
    IN  [i \in DOMAIN text |->
            IF mode # "block_only" /\ ActsOn(found[i])
            THEN Replacement(mode, vault, found[i].value) ELSE text[i]]

\* Some finding that is acted on is not what the text has at its place.
Misplaced(text) ==
    \E i \in DOMAIN text :
        ActsOn(Findings(text)[i]) /\ Findings(text)[i].value # Listed(text[i])

\* A request with a rewritten system text and rewritten parts.
Rewritten(body, Rewrite(_), Where(_)) ==
    Body(Rewrite(body.system),
         EachPart(body.messages,
                  LAMBDA p : IF Where(p) THEN Retold(p, Rewrite(p.text)) ELSE p))

\* Mutant: the client's bytes are left as they came.
MirrorNothing(raw, mode, vault, substituted) == raw

\* The substitutions made in the request, made in the client's bytes too,
\* wherever they have the value as it was found.
Mirror(raw, mode, vault, substituted) ==
    LET Substitute(text) ==
            [i \in DOMAIN text |->
                IF text[i] \in substituted THEN Replacement(mode, vault, text[i]) ELSE text[i]]
    IN  Rewritten(raw, Substitute, LAMBDA p : TRUE)

\* Every scanned text with its findings replaced.
SanitizedBody(ir, mode, vault) == Rewritten(ir, LAMBDA t : Sanitize(mode, vault, t), Scanned)

\* sanitizeRequest: with the findings of the inspectors that did not panic.
SanitizeRequest(policy, ir, raw) ==
    LET fields == Fields(ir)
        found == UNION {ToSet(Findings(fields[i])) : i \in DOMAIN fields}
        acted == {f \in found : ActsOn(f)}
        values == {f.value : f \in acted}
        vault == IF policy.mode = "tokenize" THEN Minted(fields) ELSE <<>>
    IN  [ir |-> SanitizedBody(ir, policy.mode, vault),
         raw |-> Mirror(raw, policy.mode, vault, values),
         vault |-> vault,
         acted |-> values,
         blocked |-> \E f \in acted : Blocks(f),
         failed |-> \E i \in DOMAIN fields : Panicked(fields[i]),
         misplaced |-> \E i \in DOMAIN fields : Misplaced(fields[i])]

\* The warden is off.
Unscanned(ir, raw) ==
    [ir |-> ir, raw |-> raw, vault |-> <<>>, acted |-> {}, blocked |-> FALSE, failed |-> FALSE,
     misplaced |-> FALSE]

\* Execute up to the next plugin: the error it answers with, or none.
WardenError(policy, sanitized) ==
    IF sanitized.failed /\ policy.failClosed THEN "internal_error"
    ELSE IF sanitized.blocked THEN "invalid_request_error"
    ELSE ""

\* resolveResponse: text and reasoning of an answer in the neutral form, every
\* word of an answer passed through.
ResolveBlocks(vault, blocks) ==
    [i \in DOMAIN blocks |->
        IF blocks[i].kind \in {"text", "reasoning"}
        THEN Retold(blocks[i], ResolveText(vault, blocks[i].text)) ELSE blocks[i]]

ResolveRaw(vault, parts) ==
    [i \in DOMAIN parts |-> Retold(parts[i], ResolveText(vault, parts[i].text))]
=============================================================================
