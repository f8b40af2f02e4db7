-------------------------- MODULE StreamTextProofs --------------------------
(* What the warden guarantees of the text of a stream, for every vocabulary, *)
(* every token length, any number of chunks of any text and every pair of    *)
(* provider and dialect: a text may be resolved in two parts when no token   *)
(* crosses the cut, every turn of drain cuts there, and so Feed keeps what   *)
(* was shown and what is held equal to the text resolved whole (TextInv,     *)
(* TextAlwaysRestored). A step of the stream is known by the events it       *)
(* passes on (Take, PassAll).                                                *)
EXTENDS StreamDialect, FiniteSetTheorems, SequenceTheorems, WellFoundedInduction, TLAPS

-----------------------------------------------------------------------------
(* Induction and recursion. *)

\* Induction over the naturals for a set of them.
LEMMA Induction ==
    ASSUME NEW R \in SUBSET Nat, 0 \in R, \A n \in R : n + 1 \in R
    PROVE  R = Nat
  <1> DEFINE Less == OpToRel(<, Nat)
  <1> DEFINE bad == Nat \ R
  <1>1. IsWellFoundedOn(Less, Nat)
    BY NatLessThanWellFounded
  <1> SUFFICES ASSUME bad # {} PROVE FALSE
    OBVIOUS
  <1>2. bad \subseteq Nat
    OBVIOUS
  <1> HIDE DEF Less, bad
  <1>3. PICK n \in bad : \A m \in bad : <<m, n>> \notin Less
    BY <1>1, <1>2, WFMin
  <1>4. \A m \in bad : ~(m < n)
    BY <1>2, <1>3 DEF Less, OpToRel
  <1>5. n \in Nat /\ n \notin R /\ n # 0
    BY <1>3 DEF bad
  <1>6. n - 1 \in Nat /\ n - 1 < n /\ (n - 1) + 1 = n
    BY <1>5
  <1>7. n - 1 \in R
    BY <1>4, <1>6 DEF bad
  <1> QED
    BY <1>5, <1>6, <1>7

\* Recursion over 0..n, for steps that keep their values in V.
Recurs(n, V, base, step, h) ==
    h \in [0..n -> V] /\ h[0] = base /\ \A i \in 1..n : h[i] = step[i][h[i - 1]]

LEMMA Recursion ==
    ASSUME NEW n \in Nat, NEW V, NEW base \in V, NEW step \in [1..n -> [V -> V]]
    PROVE  \E h : Recurs(n, V, base, step, h)
  <1> DEFINE Table(h, k) == /\ h \in [0..k -> V] /\ h[0] = base
                            /\ \A i \in 1..k : h[i] = step[i][h[i - 1]]
  <1> DEFINE Good(k) == \E h : Table(h, k)
  <1> DEFINE R == {k \in Nat : k <= n => Good(k)}
  <1>1. 0 \in R
    <2>1. Table([i \in 0..0 |-> base], 0)
      OBVIOUS
    <2> QED
      BY <2>1
  <1>2. ASSUME NEW k \in R
        PROVE  k + 1 \in R
    <2> SUFFICES ASSUME k + 1 <= n PROVE Good(k + 1)
      <3> HIDE DEF Good
      <3> QED
        OBVIOUS
    <2>1. PICK h : Table(h, k)
      <3>1. Good(k)
        <4> HIDE DEF Good
        <4> QED
          OBVIOUS
      <3> QED
        BY <3>1
    <2> DEFINE g == [i \in 0..(k + 1) |-> IF i = k + 1 THEN step[k + 1][h[k]] ELSE h[i]]
    <2>2. k \in Nat /\ k + 1 \in 1..n /\ k \in 0..k /\ h[k] \in V
      BY <2>1
    <2>3. step[k + 1][h[k]] \in V
      BY <2>2
    <2>4. g \in [0..(k + 1) -> V] /\ g[0] = base
      BY <2>1, <2>2, <2>3
    <2>5. \A i \in 1..(k + 1) : g[i] = step[i][g[i - 1]]
      <3> SUFFICES ASSUME NEW i \in 1..(k + 1) PROVE g[i] = step[i][g[i - 1]]
        OBVIOUS
      <3>1. CASE i = k + 1
        <4>1. i - 1 = k /\ g[k] = h[k] /\ k + 1 \in 0..(k + 1)
          BY <2>2, <3>1
        <4> QED
          BY <3>1, <4>1
      <3>2. CASE i # k + 1
        <4>1. i \in 1..k /\ i - 1 \in 0..k /\ i - 1 # k + 1 /\ i \in 0..(k + 1)
              /\ i - 1 \in 0..(k + 1)
          BY <2>2, <3>2
        <4>2. g[i] = h[i] /\ g[i - 1] = h[i - 1]
          BY <3>2, <4>1
        <4> QED
          BY <2>1, <4>1, <4>2
      <3> QED
        BY <3>1, <3>2
    <2> HIDE DEF g
    <2> QED
      BY <2>4, <2>5
  <1>3. R = Nat
    <2> HIDE DEF Good
    <2> QED
      BY <1>1, <1>2, Induction
  <1>4. n \in R /\ n <= n
    BY <1>3
  <1>5. Good(n)
    <2> HIDE DEF Good
    <2> QED
      BY <1>4
  <1> QED
    BY <1>5 DEF Recurs

-----------------------------------------------------------------------------
(* Texts and their tokens. *)

Text == Seq(Symbols)

LEMMA TokenIs ==
    /\ Token \in Text /\ Len(Token) = 5
    /\ Token[1] = "lead" /\ Token[2] = "open" /\ Token[3] = "name"
    /\ Token[4] = "lead" /\ Token[5] = "close"
    /\ Opening \in Text /\ Len(Opening) = 2 /\ Opening[1] = "lead" /\ Opening[2] = "open"
    /\ Closing \in Text /\ Len(Closing) = 2 /\ Closing[1] = "lead" /\ Closing[2] = "close"
  <1> DEFINE half == Opening \o <<"name">>
  <1>1. /\ Opening \in Seq(Symbols) /\ Len(Opening) = 2 /\ Opening[1] = "lead" /\ Opening[2] = "open"
        /\ Closing \in Seq(Symbols) /\ Len(Closing) = 2 /\ Closing[1] = "lead" /\ Closing[2] = "close"
        /\ <<"name">> \in Seq(Symbols) /\ Len(<<"name">>) = 1 /\ <<"name">>[1] = "name"
    <2>1. Opening \in Seq(Symbols) /\ Closing \in Seq(Symbols) /\ <<"name">> \in Seq(Symbols)
      BY SymbolsAssumption DEF Opening, Closing
    <2>2. Len(Opening) = 2 /\ Len(Closing) = 2 /\ Len(<<"name">>) = 1
      BY DEF Opening, Closing
    <2>3. Opening[1] = "lead" /\ Opening[2] = "open"
      BY DEF Opening
    <2>4. Closing[1] = "lead" /\ Closing[2] = "close"
      BY DEF Closing
    <2>5. <<"name">>[1] = "name"
      OBVIOUS
    <2> QED
      BY <2>1, <2>2, <2>3, <2>4, <2>5
  <1>2. /\ half \in Seq(Symbols) /\ Len(half) = 3
        /\ half[1] = "lead" /\ half[2] = "open" /\ half[3] = "name"
    <2>1. /\ half \in Seq(Symbols) /\ Len(half) = Len(Opening) + Len(<<"name">>)
          /\ \A i \in 1..(Len(Opening) + Len(<<"name">>)) :
                half[i] = IF i <= Len(Opening) THEN Opening[i]
                          ELSE <<"name">>[i - Len(Opening)]
      BY <1>1, ConcatProperties
    <2> HIDE DEF half
    <2> QED
      BY <1>1, <2>1
  <1>3. Token = half \o Closing
    BY DEF Token
  <1> HIDE DEF half
  <1>4. /\ half \o Closing \in Seq(Symbols) /\ Len(half \o Closing) = 3 + 2
        /\ \A i \in 1..(3 + 2) :
              (half \o Closing)[i] = IF i <= 3 THEN half[i] ELSE Closing[i - 3]
    <2>1. /\ half \o Closing \in Seq(Symbols) /\ Len(half \o Closing) = Len(half) + Len(Closing)
          /\ \A i \in 1..(Len(half) + Len(Closing)) :
                (half \o Closing)[i] = IF i <= Len(half) THEN half[i]
                                       ELSE Closing[i - Len(half)]
      BY <1>1, <1>2, ConcatProperties
    <2> QED
      BY <1>1, <1>2, <2>1
  <1> QED
    BY <1>1, <1>2, <1>3, <1>4 DEF Text

\* What is left of a text after its first n symbols.
LEMMA DropIs ==
    ASSUME NEW s \in Text, NEW n \in 0..Len(s)
    PROVE  /\ Drop(s, n) \in Text /\ Len(Drop(s, n)) = Len(s) - n
           /\ \A i \in 1..(Len(s) - n) : Drop(s, n)[i] = s[n + i]
           /\ SubSeq(s, 1, n) \in Text /\ Len(SubSeq(s, 1, n)) = n
           /\ \A i \in 1..n : SubSeq(s, 1, n)[i] = s[i]
           /\ s = SubSeq(s, 1, n) \o Drop(s, n)
  <1>1. Len(s) \in Nat /\ n + 1 \in Int /\ \A i \in 1..Len(s) : s[i] \in Symbols
    BY DEF Text
  <1>2. \A i \in (n + 1)..Len(s) : s[i] \in Symbols
    BY <1>1
  <1>3. \A i \in 1..n : s[i] \in Symbols
    BY <1>1
  <1>4. /\ Drop(s, n) \in Text
        /\ Len(Drop(s, n)) = IF n + 1 <= Len(s) THEN Len(s) - (n + 1) + 1 ELSE 0
        /\ \A i \in 1..(Len(s) - (n + 1) + 1) : Drop(s, n)[i] = s[(n + 1) + i - 1]
    BY <1>1, <1>2, SubSeqProperties DEF Drop, Text
  <1>5. /\ SubSeq(s, 1, n) \in Text
        /\ Len(SubSeq(s, 1, n)) = IF 1 <= n THEN n - 1 + 1 ELSE 0
        /\ \A i \in 1..(n - 1 + 1) : SubSeq(s, 1, n)[i] = s[1 + i - 1]
    BY <1>1, <1>3, SubSeqProperties DEF Text
  <1>6. Len(Drop(s, n)) = Len(s) - n /\ Len(SubSeq(s, 1, n)) = n
    BY <1>1, <1>4, <1>5
  <1>7. \A i \in 1..(Len(s) - n) : Drop(s, n)[i] = s[n + i]
    BY <1>1, <1>4
  <1>8. \A i \in 1..n : SubSeq(s, 1, n)[i] = s[i]
    BY <1>1, <1>5
  <1> DEFINE u == SubSeq(s, 1, n)
  <1> DEFINE v == Drop(s, n)
  <1>9. /\ u \o v \in Seq(Symbols) /\ Len(u \o v) = Len(u) + Len(v)
        /\ \A i \in 1..(Len(u) + Len(v)) :
              (u \o v)[i] = IF i <= Len(u) THEN u[i] ELSE v[i - Len(u)]
    <2>1. u \in Seq(Symbols) /\ v \in Seq(Symbols)
      BY <1>4, <1>5 DEF Text
    <2> HIDE DEF u, v
    <2> QED
      BY <2>1, ConcatProperties
  <1>10. u \o v = s
    <2>1. \A i \in 1..Len(s) : (u \o v)[i] = s[i]
      <3>1. /\ Len(u) = n /\ Len(v) = Len(s) - n
            /\ \A i \in 1..n : u[i] = s[i]
            /\ \A i \in 1..(Len(s) - n) : v[i] = s[n + i]
        BY <1>6, <1>7, <1>8
      <3> HIDE DEF u, v
      <3> SUFFICES ASSUME NEW i \in 1..Len(s) PROVE (u \o v)[i] = s[i]
        OBVIOUS
      <3>2. (u \o v)[i] = IF i <= n THEN u[i] ELSE v[i - n]
        BY <1>1, <1>9, <3>1
      <3>3. i > n => i - n \in 1..(Len(s) - n) /\ n + (i - n) = i
        BY <1>1
      <3>4. i <= n => i \in 1..n
        BY <1>1
      <3> QED
        BY <1>1, <3>1, <3>2, <3>3, <3>4
    <2>2. u \o v \in Seq(Symbols) /\ Len(u \o v) = Len(s) /\ s \in Seq(Symbols)
      BY <1>1, <1>6, <1>9 DEF Text
    <2> HIDE DEF u, v
    <2> QED
      BY <2>1, <2>2, SeqEqual
  <1> QED
    BY <1>4, <1>5, <1>6, <1>7, <1>8, <1>10

\* A prefix, symbol by symbol.
LEMMA StartsWithIs ==
    ASSUME NEW s \in Text, NEW p \in Text
    PROVE  StartsWith(s, p) <=> Len(p) <= Len(s) /\ \A i \in 1..Len(p) : s[i] = p[i]
  <1>1. Len(s) \in Nat /\ Len(p) \in Nat
    BY DEF Text
  <1>2. ASSUME Len(p) <= Len(s)
        PROVE  SubSeq(s, 1, Len(p)) = p <=> \A i \in 1..Len(p) : s[i] = p[i]
    <2> DEFINE u == SubSeq(s, 1, Len(p))
    <2>1. Len(p) \in 0..Len(s)
      BY <1>1, <1>2
    <2>2. u \in Text /\ Len(u) = Len(p) /\ \A i \in 1..Len(p) : u[i] = s[i]
      BY <2>1, DropIs
    <2> HIDE DEF u
    <2>3. ASSUME \A i \in 1..Len(p) : s[i] = p[i] PROVE u = p
      BY <2>2, <2>3, SeqEqual DEF Text
    <2>4. u = p <=> \A i \in 1..Len(p) : s[i] = p[i]
      BY <2>2, <2>3
    <2> QED
      BY <2>4 DEF u
  <1> QED
    BY <1>2 DEF StartsWith

\* A complete token, symbol by symbol.
TokenIn(s, i) ==
    /\ i + 4 <= Len(s)
    /\ s[i] = "lead" /\ s[i + 1] = "open" /\ s[i + 2] = "name"
    /\ s[i + 3] = "lead" /\ s[i + 4] = "close"

LEMMA TokenAtIs ==
    ASSUME NEW s \in Text, NEW i \in 1..Len(s)
    PROVE  TokenAt(s, i) <=> TokenIn(s, i)
  <1> DEFINE v == Drop(s, i - 1)
  <1>1. Len(s) \in Nat /\ i - 1 \in 0..Len(s)
    BY DEF Text
  <1>2. /\ v \in Text /\ Len(v) = Len(s) - (i - 1)
        /\ \A j \in 1..(Len(s) - (i - 1)) : v[j] = s[(i - 1) + j]
    BY <1>1, DropIs
  <1>3. TokenAt(s, i) <=> StartsWith(v, Token)
    BY DEF TokenAt
  <1> HIDE DEF v
  <1>4. TokenAt(s, i) <=> 5 <= Len(v) /\ \A j \in 1..5 : v[j] = Token[j]
    BY <1>2, <1>3, StartsWithIs, TokenIs
  <1>5. 5 <= Len(v) <=> i + 4 <= Len(s)
    BY <1>1, <1>2
  <1>6. ASSUME i + 4 <= Len(s)
        PROVE  /\ v[1] = s[i] /\ v[2] = s[i + 1] /\ v[3] = s[i + 2]
               /\ v[4] = s[i + 3] /\ v[5] = s[i + 4]
    <2>1. \A j \in 1..5 : v[j] = s[(i - 1) + j]
      BY <1>1, <1>2, <1>6
    <2> QED
      BY <1>1, <2>1
  <1>7. (\A j \in 1..5 : v[j] = Token[j])
         <=> v[1] = Token[1] /\ v[2] = Token[2] /\ v[3] = Token[3] /\ v[4] = Token[4]
             /\ v[5] = Token[5]
    <2>1. \A j \in 1..5 : j = 1 \/ j = 2 \/ j = 3 \/ j = 4 \/ j = 5
      OBVIOUS
    <2> QED
      BY <2>1
  <1> QED
    BY <1>4, <1>5, <1>6, <1>7, TokenIs DEF TokenIn

\* What Resolve makes of s from the i-th symbol on, when h holds what it makes of
\* it further on.
Restoring(s, h, i) ==
    IF i > Len(s) THEN <<>>
    ELSE IF TokenAt(s, i) THEN <<"value">> \o h[i + Len(Token)]
    ELSE <<s[i]>> \o h[i + 1]

LEMMA RestoringExists ==
    ASSUME NEW s \in Text
    PROVE  \E h : h = [i \in 1..Len(s) + 1 |-> Restoring(s, h, i)]
  <1> DEFINE N == Len(s) + 1
  <1> DEFINE Good(k) == \E h : /\ h = [i \in (N - k)..N |-> h[i]]
                               /\ \A i \in (N - k)..N : h[i] = Restoring(s, h, i)
  <1> DEFINE R == {k \in Nat : k < N => Good(k)}
  <1>1. N \in Nat /\ Len(s) \in Nat
    BY DEF Text
  <1>2. Good(0)
    <2> DEFINE h == [i \in (N - 0)..N |-> <<>>]
    <2>1. h = [i \in (N - 0)..N |-> h[i]] /\ \A i \in (N - 0)..N : h[i] = Restoring(s, h, i)
      BY <1>1 DEF Restoring
    <2> QED
      BY <2>1
  <1>3. ASSUME NEW k \in Nat, k + 1 < N, Good(k)
        PROVE  Good(k + 1)
    <2>1. PICK h : /\ h = [i \in (N - k)..N |-> h[i]]
                   /\ \A i \in (N - k)..N : h[i] = Restoring(s, h, i)
      BY <1>3
    <2> DEFINE first == N - (k + 1)
    <2> DEFINE g == [i \in first..N |-> IF i = first THEN Restoring(s, h, i) ELSE h[i]]
    <2>2. first \in Nat /\ first > 0 /\ \A i \in first..N : i = first \/ i \in (N - k)..N
      BY <1>1, <1>3
    <2>3. \A i \in (N - k)..N : i \in first..N /\ i # first
      BY <1>1, <1>3
    <2>4. \A i \in (N - k)..N : g[i] = h[i]
      BY <2>3
    <2>5. ASSUME NEW i \in first..N
          PROVE  Restoring(s, g, i) = Restoring(s, h, i)
      <3>1. i \in Int /\ i + 1 \in Int /\ i <= N
        BY <1>1, <2>2
      <3>2. i <= Len(s) => i + 1 \in (N - k)..N
        BY <1>1, <1>3, <2>2, <3>1
      <3>3. i <= Len(s) /\ TokenAt(s, i) => i + Len(Token) \in (N - k)..N
        <4> SUFFICES ASSUME i <= Len(s), TokenAt(s, i)
                     PROVE  i + Len(Token) \in (N - k)..N
          OBVIOUS
        <4>1. i \in 1..Len(s)
          BY <1>1, <2>2, <3>1
        <4>2. i + 4 <= Len(s)
          BY <4>1, TokenAtIs DEF TokenIn
        <4> QED
          BY <1>1, <1>3, <2>2, <3>1, <4>2, TokenIs
      <3>4. i > Len(s) \/ i <= Len(s)
        BY <1>1, <3>1
      <3> HIDE DEF g, first
      <3> QED
        BY <2>4, <3>2, <3>3, <3>4 DEF Restoring
    <2>6. \A i \in first..N : g[i] = Restoring(s, g, i)
      <3> SUFFICES ASSUME NEW i \in first..N PROVE g[i] = Restoring(s, g, i)
        OBVIOUS
      <3>1. CASE i = first
        <4>1. g[i] = Restoring(s, h, i)
          BY <3>1
        <4> QED
          BY <2>5, <4>1
      <3>2. CASE i # first
        <4>1. g[i] = h[i] /\ h[i] = Restoring(s, h, i)
          BY <2>1, <2>2, <2>4, <3>2
        <4> QED
          BY <2>5, <4>1
      <3> QED
        BY <3>1, <3>2
    <2>7. g = [i \in first..N |-> g[i]]
      OBVIOUS
    <2> HIDE DEF g
    <2> QED
      BY <2>6, <2>7
  <1> HIDE DEF Good
  <1>4. 0 \in R
    BY <1>2
  <1>5. \A k \in R : k + 1 \in R
    BY <1>1, <1>3
  <1>6. R = Nat
    <2> HIDE DEF R
    <2>1. R \in SUBSET Nat
      BY DEF R
    <2> QED
      BY <1>4, <1>5, <2>1, Induction
  <1>7. Good(N - 1)
    BY <1>1, <1>6
  <1>8. N - (N - 1) = 1
    BY <1>1
  <1> QED
    BY <1>7, <1>8 DEF Good

\* The symbols of a text, restored from the end to the beginning.
Restores(s, f) ==
    /\ f \in [1..(Len(s) + 1) -> Text] /\ f[Len(s) + 1] = <<>>
    /\ \A i \in 1..Len(s) : f[i] = IF TokenAt(s, i) THEN <<"value">> \o f[i + 5]
                                   ELSE <<s[i]>> \o f[i + 1]

LEMMA OneMore ==
    ASSUME NEW t \in Text, NEW x \in Symbols
    PROVE  <<x>> \o t \in Text /\ Len(<<x>> \o t) = Len(t) + 1
  <1>1. <<x>> \in Seq(Symbols) /\ Len(<<x>>) = 1
    OBVIOUS
  <1>2. <<x>> \o t \in Seq(Symbols) /\ Len(<<x>> \o t) = Len(<<x>>) + Len(t)
    BY <1>1, ConcatProperties DEF Text
  <1> QED
    BY <1>1, <1>2 DEF Text

LEMMA ResolveTable ==
    ASSUME NEW s \in Text
    PROVE  \E f : Restores(s, f) /\ f[1] = Resolve(s)
  <1> DEFINE from == CHOOSE h : h = [i \in 1..Len(s) + 1 |-> Restoring(s, h, i)]
  <1>1. Len(s) \in Nat /\ \A i \in 1..Len(s) : s[i] \in Symbols
    BY DEF Text
  <1>2. from = [i \in 1..Len(s) + 1 |-> Restoring(s, from, i)]
    BY RestoringExists
  <1>3. Resolve(s) = from[1]
    BY Zenon DEF Resolve, Restoring
  <1> HIDE DEF from
  <1>4. from[Len(s) + 1] = <<>>
    BY <1>1, <1>2 DEF Restoring
  <1>5. ASSUME NEW i \in 1..Len(s)
        PROVE  /\ from[i] = IF TokenAt(s, i) THEN <<"value">> \o from[i + 5]
                            ELSE <<s[i]>> \o from[i + 1]
               /\ TokenAt(s, i) => i + 5 \in 1..(Len(s) + 1)
    <2>1. i \in 1..Len(s) + 1 /\ ~(i > Len(s))
      BY <1>1
    <2>2. from[i] = Restoring(s, from, i)
      BY <1>2, <2>1
    <2>3. TokenAt(s, i) => i + 4 <= Len(s)
      BY TokenAtIs DEF TokenIn
    <2>4. TokenAt(s, i) => i + 5 \in 1..(Len(s) + 1)
      BY <1>1, <2>3
    <2> QED
      BY <2>1, <2>2, <2>4, TokenIs DEF Restoring
  <1> DEFINE R == {k \in Nat : \A i \in 1..(Len(s) + 1) : Len(s) + 1 - i <= k => from[i] \in Text}
  <1>6. 0 \in R
    <2>1. <<>> \in Text
      BY DEF Text
    <2>2. \A i \in 1..(Len(s) + 1) : Len(s) + 1 - i <= 0 => i = Len(s) + 1
      BY <1>1
    <2> QED
      BY <1>4, <2>1, <2>2
  <1>7. ASSUME NEW k \in R
        PROVE  k + 1 \in R
    <2> SUFFICES ASSUME NEW i \in 1..(Len(s) + 1), Len(s) + 1 - i <= k + 1
                 PROVE  from[i] \in Text
      OBVIOUS
    <2>1. k \in Nat /\ \A j \in 1..(Len(s) + 1) : Len(s) + 1 - j <= k => from[j] \in Text
      OBVIOUS
    <2>2. CASE i = Len(s) + 1
      BY <1>4, <2>2 DEF Text
    <2>3. CASE i # Len(s) + 1
      <3>1. i \in 1..Len(s) /\ i + 1 \in 1..(Len(s) + 1) /\ Len(s) + 1 - (i + 1) <= k
        BY <1>1, <2>1, <2>3
      <3>2. from[i + 1] \in Text
        BY <2>1, <3>1
      <3>3. ASSUME TokenAt(s, i) PROVE from[i + 5] \in Text
        <4>1. i + 5 \in 1..(Len(s) + 1)
          BY <1>5, <3>1, <3>3
        <4>2. Len(s) + 1 - (i + 5) <= k
          BY <1>1, <2>1, <3>1
        <4> QED
          BY <2>1, <4>1, <4>2
      <3>4. s[i] \in Symbols /\ "value" \in Symbols
        BY <1>1, <3>1, SymbolsAssumption
      <3>5. CASE TokenAt(s, i)
        BY <1>5, <3>1, <3>3, <3>4, <3>5, OneMore
      <3>6. CASE ~TokenAt(s, i)
        BY <1>5, <3>1, <3>2, <3>4, <3>6, OneMore
      <3> QED
        BY <3>5, <3>6
    <2> QED
      BY <2>2, <2>3
  <1>8. R = Nat
    BY <1>6, <1>7, Induction
  <1>9. \A i \in 1..(Len(s) + 1) : from[i] \in Text
    <2> SUFFICES ASSUME NEW i \in 1..(Len(s) + 1) PROVE from[i] \in Text
      OBVIOUS
    <2>1. Len(s) + 1 - i \in Nat /\ Len(s) + 1 - i <= Len(s) + 1 - i
      BY <1>1
    <2>2. Len(s) + 1 - i \in R
      BY <1>8, <2>1
    <2> QED
      BY <2>1, <2>2
  <1>10. from \in [1..(Len(s) + 1) -> Text]
    <2>1. DOMAIN from = 1..(Len(s) + 1)
      BY <1>2
    <2>2. from = [i \in 1..(Len(s) + 1) |-> from[i]]
      BY <1>2
    <2> QED
      BY <1>9, <2>1, <2>2
  <1> QED
    BY <1>3, <1>4, <1>5, <1>10 DEF Restores

LEMMA ResolveTyped ==
    /\ \A s \in Text : Resolve(s) \in Text
    /\ Resolve(<<>>) = <<>>
  <1>1. ASSUME NEW s \in Text PROVE Resolve(s) \in Text
    <2>1. PICK f : Restores(s, f) /\ f[1] = Resolve(s)
      BY ResolveTable
    <2>2. 1 \in 1..(Len(s) + 1)
      BY DEF Text
    <2> QED
      BY <2>1, <2>2 DEF Restores
  <1>2. <<>> \in Text /\ Len(<<>>) = 0
    BY DEF Text
  <1>3. PICK f : Restores(<<>>, f) /\ f[1] = Resolve(<<>>)
    BY <1>2, ResolveTable
  <1> QED
    BY <1>1, <1>2, <1>3 DEF Restores

\* The symbols of a concatenation, and its tokens.
LEMMA ConcatIs ==
    ASSUME NEW a \in Text, NEW b \in Text
    PROVE  /\ a \o b \in Text /\ Len(a \o b) = Len(a) + Len(b)
           /\ Len(a) \in Nat /\ Len(b) \in Nat
           /\ \A i \in 1..Len(a) : i \in 1..Len(a \o b) /\ (a \o b)[i] = a[i]
           /\ \A i \in 1..Len(b) : Len(a) + i \in 1..Len(a \o b) /\ (a \o b)[Len(a) + i] = b[i]
  <1>1. Len(a) \in Nat /\ Len(b) \in Nat
    BY DEF Text
  <1>2. /\ a \o b \in Text /\ Len(a \o b) = Len(a) + Len(b)
        /\ \A i \in 1..(Len(a) + Len(b)) :
              (a \o b)[i] = IF i <= Len(a) THEN a[i] ELSE b[i - Len(a)]
    BY ConcatProperties DEF Text
  <1>3. \A i \in 1..Len(a) : i \in 1..Len(a \o b) /\ (a \o b)[i] = a[i]
    BY <1>1, <1>2
  <1>4. ASSUME NEW i \in 1..Len(b)
        PROVE  Len(a) + i \in 1..Len(a \o b) /\ (a \o b)[Len(a) + i] = b[i]
    <2>1. Len(a) + i \in 1..(Len(a) + Len(b)) /\ ~(Len(a) + i <= Len(a))
          /\ (Len(a) + i) - Len(a) = i
      BY <1>1
    <2> QED
      BY <1>2, <2>1
  <1> QED
    BY <1>1, <1>2, <1>3, <1>4

LEMMA TokensOfConcat ==
    ASSUME NEW a \in Text, NEW b \in Text
    PROVE  /\ \A i \in 1..Len(b) : TokenIn(a \o b, Len(a) + i) <=> TokenIn(b, i)
           /\ \A i \in 1..Len(a) : i + 4 <= Len(a) => (TokenIn(a \o b, i) <=> TokenIn(a, i))
           /\ \A i \in 1..Len(a) : TokenIn(a, i) => TokenIn(a \o b, i)
  <1> DEFINE u == a \o b
  <1>1. /\ u \in Text /\ Len(u) = Len(a) + Len(b) /\ Len(a) \in Nat /\ Len(b) \in Nat
        /\ \A i \in 1..Len(a) : u[i] = a[i]
        /\ \A i \in 1..Len(b) : u[Len(a) + i] = b[i]
    BY ConcatIs
  <1> HIDE DEF u
  <1>2. ASSUME NEW i \in 1..Len(b)
        PROVE  TokenIn(u, Len(a) + i) <=> TokenIn(b, i)
    <2>1. (Len(a) + i) + 4 <= Len(u) <=> i + 4 <= Len(b)
      BY <1>1
    <2>2. ASSUME i + 4 <= Len(b)
          PROVE  /\ u[Len(a) + i] = b[i] /\ u[(Len(a) + i) + 1] = b[i + 1]
                 /\ u[(Len(a) + i) + 2] = b[i + 2] /\ u[(Len(a) + i) + 3] = b[i + 3]
                 /\ u[(Len(a) + i) + 4] = b[i + 4]
      <3>1. /\ i + 1 \in 1..Len(b) /\ i + 2 \in 1..Len(b)
            /\ i + 3 \in 1..Len(b) /\ i + 4 \in 1..Len(b)
        BY <1>1, <2>2
      <3>2. /\ (Len(a) + i) + 1 = Len(a) + (i + 1) /\ (Len(a) + i) + 2 = Len(a) + (i + 2)
            /\ (Len(a) + i) + 3 = Len(a) + (i + 3) /\ (Len(a) + i) + 4 = Len(a) + (i + 4)
        BY <1>1
      <3> QED
        <4>1. /\ u[Len(a) + (i + 1)] = b[i + 1] /\ u[Len(a) + (i + 2)] = b[i + 2]
              /\ u[Len(a) + (i + 3)] = b[i + 3] /\ u[Len(a) + (i + 4)] = b[i + 4]
          BY <1>1, <3>1, Zenon
        <4>2. u[Len(a) + i] = b[i]
          BY <1>1, Zenon
        <4> QED
          BY <3>2, <4>1, <4>2, Zenon
    <2> QED
      BY <2>1, <2>2 DEF TokenIn
  <1>3. ASSUME NEW i \in 1..Len(a), i + 4 <= Len(a)
        PROVE  TokenIn(u, i) <=> TokenIn(a, i)
    <2>1. /\ i + 1 \in 1..Len(a) /\ i + 2 \in 1..Len(a) /\ i + 3 \in 1..Len(a)
          /\ i + 4 \in 1..Len(a) /\ i + 4 <= Len(u)
      BY <1>1, <1>3
    <2> QED
      BY <1>1, <1>3, <2>1 DEF TokenIn
  <1>4. ASSUME NEW i \in 1..Len(a), TokenIn(a, i)
        PROVE  TokenIn(u, i)
    BY <1>3, <1>4 DEF TokenIn
  <1> QED
    BY <1>2, <1>3, <1>4 DEF u

\* A text may be restored in two parts when no token lies across the cut.
LEMMA ResolveConcat ==
    ASSUME NEW a \in Text, NEW b \in Text,
           \A i \in 1..Len(a) : TokenIn(a \o b, i) => i + 4 <= Len(a)
    PROVE  Resolve(a \o b) = Resolve(a) \o Resolve(b)
  <1> DEFINE u == a \o b
  <1>1. /\ u \in Text /\ Len(u) = Len(a) + Len(b) /\ Len(a) \in Nat /\ Len(b) \in Nat
        /\ \A i \in 1..Len(a) : i \in 1..Len(u) /\ u[i] = a[i]
        /\ \A i \in 1..Len(b) : Len(a) + i \in 1..Len(u) /\ u[Len(a) + i] = b[i]
    BY ConcatIs
  <1>2. /\ \A i \in 1..Len(b) : TokenIn(u, Len(a) + i) <=> TokenIn(b, i)
        /\ \A i \in 1..Len(a) : TokenIn(u, i) <=> TokenIn(a, i)
    BY TokensOfConcat
  <1>3. PICK fu : Restores(u, fu) /\ fu[1] = Resolve(u)
    BY <1>1, ResolveTable
  <1>4. PICK fa : Restores(a, fa) /\ fa[1] = Resolve(a)
    BY ResolveTable
  <1>5. PICK fb : Restores(b, fb) /\ fb[1] = Resolve(b)
    BY ResolveTable
  <1> HIDE DEF u
  <1>6. \A s \in Text : \A i \in 1..Len(s) : TokenAt(s, i) <=> TokenIn(s, i)
    BY TokenAtIs
  <1> DEFINE R == {k \in Nat : \A i \in 1..(Len(b) + 1) :
                                  Len(b) + 1 - i <= k => fu[Len(a) + i] = fb[i]}
  <1>7. 0 \in R
    <2>1. \A i \in 1..(Len(b) + 1) : Len(b) + 1 - i <= 0 => i = Len(b) + 1
      BY <1>1
    <2>2. Len(a) + (Len(b) + 1) = Len(u) + 1
      BY <1>1
    <2>3. fu[Len(u) + 1] = <<>> /\ fb[Len(b) + 1] = <<>>
      BY <1>3, <1>5 DEF Restores
    <2> QED
      BY <2>1, <2>2, <2>3
  <1>8. ASSUME NEW k \in R
        PROVE  k + 1 \in R
    <2> SUFFICES ASSUME NEW i \in 1..(Len(b) + 1), Len(b) + 1 - i <= k + 1
                 PROVE  fu[Len(a) + i] = fb[i]
      OBVIOUS
    <2>1. k \in Nat /\ \A j \in 1..(Len(b) + 1) :
                          Len(b) + 1 - j <= k => fu[Len(a) + j] = fb[j]
      OBVIOUS
    <2>2. CASE i = Len(b) + 1
      BY <1>1, <2>1, <2>2
    <2>3. CASE i # Len(b) + 1
      <3>1. i \in 1..Len(b) /\ i + 1 \in 1..(Len(b) + 1) /\ Len(b) + 1 - (i + 1) <= k
        BY <1>1, <2>1, <2>3
      <3>2. fu[Len(a) + (i + 1)] = fb[i + 1] /\ (Len(a) + i) + 1 = Len(a) + (i + 1)
        BY <1>1, <2>1, <3>1
      <3>3. Len(a) + i \in 1..Len(u) /\ u[Len(a) + i] = b[i]
        BY <1>1, <3>1
      <3>4. TokenAt(u, Len(a) + i) <=> TokenAt(b, i)
        BY <1>1, <1>2, <1>6, <3>1, <3>3
      <3>5. ASSUME TokenAt(b, i)
            PROVE  fu[(Len(a) + i) + 5] = fb[i + 5]
        <4>1. i + 4 <= Len(b)
          BY <1>6, <3>1, <3>5 DEF TokenIn
        <4>2. /\ i + 5 \in 1..(Len(b) + 1) /\ Len(b) + 1 - (i + 5) <= k
              /\ (Len(a) + i) + 5 = Len(a) + (i + 5)
          BY <1>1, <2>1, <3>1, <4>1
        <4> QED
          BY <2>1, <4>2
      <3>6. /\ fu[Len(a) + i] = IF TokenAt(u, Len(a) + i)
                                THEN <<"value">> \o fu[(Len(a) + i) + 5]
                                ELSE <<u[Len(a) + i]>> \o fu[(Len(a) + i) + 1]
            /\ fb[i] = IF TokenAt(b, i) THEN <<"value">> \o fb[i + 5]
                       ELSE <<b[i]>> \o fb[i + 1]
        BY <1>3, <1>5, <3>1, <3>3 DEF Restores
      <3> QED
        BY <3>2, <3>3, <3>4, <3>5, <3>6
    <2> QED
      BY <2>2, <2>3
  <1>9. R = Nat
    BY <1>7, <1>8, Induction
  <1>10. fu[Len(a) + 1] = fb[1]
    <2>1. Len(b) \in R /\ 1 \in 1..(Len(b) + 1) /\ Len(b) + 1 - 1 <= Len(b)
      BY <1>1, <1>9
    <2> QED
      BY <2>1
  <1> HIDE DEF R
  <1> DEFINE whole(i) == fa[i] \o fb[1]
  <1> DEFINE Q == {k \in Nat : \A i \in 1..(Len(a) + 1) :
                                  Len(a) + 1 - i <= k => fu[i] = whole(i)}
  <1>11. /\ fb[1] \in Text
         /\ \A i \in 1..(Len(a) + 1) : fa[i] \in Text
    <2>1. 1 \in 1..(Len(b) + 1)
      BY <1>1
    <2>2. fb \in [1..(Len(b) + 1) -> Text] /\ fa \in [1..(Len(a) + 1) -> Text]
      BY <1>4, <1>5 DEF Restores
    <2> QED
      BY <2>1, <2>2
  <1>11a. whole(Len(a) + 1) = fb[1]
    <2>1. fb[1] \in Seq(Symbols) /\ fa[Len(a) + 1] = <<>>
      BY <1>4, <1>11 DEF Restores, Text
    <2>2. \A t \in Seq(Symbols) : <<>> \o t = t
      BY ConcatEmptySeq
    <2>3. <<>> \o fb[1] = fb[1]
      BY <2>1, <2>2
    <2> QED
      BY <2>1, <2>3
  <1>11b. ASSUME NEW x \in Symbols, NEW j \in 1..(Len(a) + 1)
          PROVE  <<x>> \o whole(j) = (<<x>> \o fa[j]) \o fb[1]
    <2>1. <<x>> \in Seq(Symbols) /\ fa[j] \in Seq(Symbols) /\ fb[1] \in Seq(Symbols)
      BY <1>11 DEF Text
    <2>2. \A p, q, r \in Seq(Symbols) : (p \o q) \o r = p \o (q \o r)
      BY ConcatAssociative
    <2> QED
      BY <2>1, <2>2
  <1>11c. ASSUME NEW i \in 1..Len(a), NEW x \in Symbols, NEW j \in 1..(Len(a) + 1),
                 fa[i] = <<x>> \o fa[j]
          PROVE  whole(i) = <<x>> \o whole(j)
    <2>1. whole(i) = (<<x>> \o fa[j]) \o fb[1]
      BY <1>11c
    <2> HIDE DEF whole
    <2> QED
      BY <1>11b, <2>1
  <1> HIDE DEF whole
  <1>12. 0 \in Q
    <2>1. \A i \in 1..(Len(a) + 1) : Len(a) + 1 - i <= 0 => i = Len(a) + 1
      BY <1>1
    <2> QED
      BY <1>10, <1>11a, <2>1
  <1>13. ASSUME NEW k \in Q
         PROVE  k + 1 \in Q
    <2> SUFFICES ASSUME NEW i \in 1..(Len(a) + 1), Len(a) + 1 - i <= k + 1
                 PROVE  fu[i] = whole(i)
      OBVIOUS
    <2>1. k \in Nat /\ \A j \in 1..(Len(a) + 1) :
                          Len(a) + 1 - j <= k => fu[j] = whole(j)
      OBVIOUS
    <2>2. CASE i = Len(a) + 1
      BY <1>1, <2>1, <2>2
    <2>3. CASE i # Len(a) + 1
      <3>1. i \in 1..Len(a) /\ i + 1 \in 1..(Len(a) + 1) /\ Len(a) + 1 - (i + 1) <= k
        BY <1>1, <2>1, <2>3
      <3>2. fu[i + 1] = whole(i + 1)
        BY <2>1, <3>1
      <3>3. i \in 1..Len(u) /\ u[i] = a[i] /\ a[i] \in Symbols /\ "value" \in Symbols
        BY <1>1, <3>1, SymbolsAssumption DEF Text
      <3>4. TokenAt(u, i) <=> TokenAt(a, i)
        BY <1>1, <1>2, <1>6, <3>1, <3>3
      <3>5. ASSUME TokenAt(a, i)
            PROVE  fu[i + 5] = whole(i + 5) /\ i + 5 \in 1..(Len(a) + 1)
        <4>1. i + 4 <= Len(a)
          BY <1>6, <3>1, <3>5 DEF TokenIn
        <4>2. i + 5 \in 1..(Len(a) + 1) /\ Len(a) + 1 - (i + 5) <= k
          BY <1>1, <2>1, <3>1, <4>1
        <4> QED
          BY <2>1, <4>2
      <3>6. /\ fu[i] = IF TokenAt(u, i) THEN <<"value">> \o fu[i + 5]
                       ELSE <<u[i]>> \o fu[i + 1]
            /\ fa[i] = IF TokenAt(a, i) THEN <<"value">> \o fa[i + 5]
                       ELSE <<a[i]>> \o fa[i + 1]
        BY <1>3, <1>4, <3>1, <3>3 DEF Restores
      <3>8. CASE TokenAt(a, i)
        <4>1. fu[i] = <<"value">> \o whole(i + 5)
          BY <3>4, <3>5, <3>6, <3>8
        <4>2. fa[i] = <<"value">> \o fa[i + 5]
          BY <3>6, <3>8
        <4> QED
          BY <3>1, <3>3, <3>5, <3>8, <1>11c, <4>1, <4>2
      <3>9. CASE ~TokenAt(a, i)
        <4>1. fu[i] = <<a[i]>> \o whole(i + 1)
          BY <3>2, <3>3, <3>4, <3>6, <3>9
        <4>2. fa[i] = <<a[i]>> \o fa[i + 1]
          BY <3>6, <3>9
        <4> QED
          BY <3>1, <3>3, <1>11c, <4>1, <4>2
      <3> QED
        BY <3>8, <3>9
    <2> QED
      BY <2>2, <2>3
  <1>14. Q = Nat
    BY <1>12, <1>13, Induction
  <1>15. fu[1] = whole(1)
    <2>1. Len(a) \in Q /\ 1 \in 1..(Len(a) + 1) /\ Len(a) + 1 - 1 <= Len(a)
      BY <1>1, <1>14
    <2> QED
      BY <2>1
  <1> QED
    BY <1>3, <1>4, <1>5, <1>15 DEF u, whole

LEMMA LeastNatural ==
    ASSUME NEW R \in SUBSET Nat, R # {}
    PROVE  \E n \in R : \A m \in R : n <= m
  <1> DEFINE Less == OpToRel(<, Nat)
  <1>1. IsWellFoundedOn(Less, Nat)
    BY NatLessThanWellFounded
  <1> HIDE DEF Less
  <1>2. PICK n \in R : \A m \in R : <<m, n>> \notin Less
    BY <1>1, WFMin
  <1>3. \A m \in R : ~(m < n)
    BY <1>2 DEF Less, OpToRel
  <1>4. \A m \in R : n <= m
    BY <1>3
  <1> QED
    BY <1>4

\* The first place of a delimiter.
LEMMA IndexOfIs ==
    ASSUME NEW s \in Text, NEW p \in Text
    PROVE  /\ IndexOf(s, p) \in 0..Len(s)
           /\ IndexOf(s, p) > 0 => StartsWith(Drop(s, IndexOf(s, p) - 1), p)
           /\ \A i \in 1..Len(s) : StartsWith(Drop(s, i - 1), p) =>
                 IndexOf(s, p) > 0 /\ IndexOf(s, p) <= i
  <1> DEFINE places == {i \in 1..Len(s) : StartsWith(Drop(s, i - 1), p)}
  <1> DEFINE first == CHOOSE i \in places : \A j \in places : i <= j
  <1>1. IndexOf(s, p) = IF places = {} THEN 0 ELSE first
    BY Zenon DEF IndexOf
  <1>2. Len(s) \in Nat
    BY DEF Text
  <1>3. CASE places = {}
    BY <1>1, <1>2, <1>3
  <1>4. CASE places # {}
    <2>1. places \in SUBSET Nat
      BY <1>2
    <2>2. \E i \in places : \A j \in places : i <= j
      <3> HIDE DEF places
      <3> QED
        BY <1>4, <2>1, LeastNatural
    <2>3. first \in places /\ \A j \in places : first <= j
      <3> HIDE DEF places
      <3> QED
        BY <2>2
    <2>4. IndexOf(s, p) = first
      BY <1>1, <1>4
    <2> HIDE DEF first
    <2> QED
      BY <1>2, <2>3, <2>4
  <1> QED
    BY <1>3, <1>4

\* A delimiter, symbol by symbol.
PairIn(s, i, last) == i + 1 <= Len(s) /\ s[i] = "lead" /\ s[i + 1] = last

LEMMA PairAtIs ==
    ASSUME NEW s \in Text, NEW i \in 1..Len(s)
    PROVE  /\ StartsWith(Drop(s, i - 1), Opening) <=> PairIn(s, i, "open")
           /\ StartsWith(Drop(s, i - 1), Closing) <=> PairIn(s, i, "close")
  <1> DEFINE v == Drop(s, i - 1)
  <1>1. Len(s) \in Nat /\ i - 1 \in 0..Len(s)
    BY DEF Text
  <1>2. /\ v \in Text /\ Len(v) = Len(s) - (i - 1)
        /\ \A j \in 1..(Len(s) - (i - 1)) : v[j] = s[(i - 1) + j]
    BY <1>1, DropIs
  <1> HIDE DEF v
  <1>3. ASSUME i + 1 <= Len(s)
        PROVE  v[1] = s[i] /\ v[2] = s[i + 1]
    <2>1. v[1] = s[(i - 1) + 1] /\ v[2] = s[(i - 1) + 2]
      BY <1>1, <1>2, <1>3
    <2> QED
      BY <1>1, <2>1
  <1>4. Len(v) >= 2 <=> i + 1 <= Len(s)
    BY <1>1, <1>2
  <1>5. ASSUME NEW p \in Text, Len(p) = 2
        PROVE  StartsWith(v, p) <=> 2 <= Len(v) /\ v[1] = p[1] /\ v[2] = p[2]
    <2>1. StartsWith(v, p) <=> 2 <= Len(v) /\ \A j \in 1..2 : v[j] = p[j]
      <3>1. v \in Text /\ p \in Text
        BY <1>2
      <3>2. StartsWith(v, p) <=> Len(p) <= Len(v) /\ \A j \in 1..Len(p) : v[j] = p[j]
        BY <3>1, StartsWithIs
      <3> QED
        BY <1>5, <3>2
    <2>2. \A j \in 1..2 : j = 1 \/ j = 2
      OBVIOUS
    <2> QED
      BY <2>1, <2>2
  <1>6. StartsWith(v, Opening) <=> 2 <= Len(v) /\ v[1] = "lead" /\ v[2] = "open"
    BY <1>5, TokenIs
  <1>7. StartsWith(v, Closing) <=> 2 <= Len(v) /\ v[1] = "lead" /\ v[2] = "close"
    BY <1>5, TokenIs
  <1>8. Len(v) \in Nat
    BY <1>2 DEF Text
  <1>9. StartsWith(v, Opening) <=> PairIn(s, i, "open")
    BY <1>3, <1>4, <1>6, <1>8 DEF PairIn
  <1>10. StartsWith(v, Closing) <=> PairIn(s, i, "close")
    BY <1>3, <1>4, <1>7, <1>8 DEF PairIn
  <1> QED
    BY <1>9, <1>10 DEF v

LEMMA StartsWithTokenIs ==
    ASSUME NEW s \in Text
    PROVE  StartsWith(s, Token) <=> TokenIn(s, 1)
  <1>1. StartsWith(s, Token) <=> 5 <= Len(s) /\ \A j \in 1..5 : s[j] = Token[j]
    BY StartsWithIs, TokenIs
  <1>2. (\A j \in 1..5 : s[j] = Token[j])
         <=> s[1] = "lead" /\ s[2] = "open" /\ s[3] = "name" /\ s[4] = "lead"
             /\ s[5] = "close"
    <2>1. \A j \in 1..5 : j = 1 \/ j = 2 \/ j = 3 \/ j = 4 \/ j = 5
      OBVIOUS
    <2> QED
      BY <2>1, TokenIs
  <1> QED
    BY <1>1, <1>2 DEF TokenIn

\* What is peeled off never ends inside a token, whatever text comes next, and the
\* loop waits for more only with a short buffer.
LEMMA PeelClean ==
    ASSUME NEW s \in Text
    PROVE  /\ Peel(s) \in 0..Len(s)
           /\ Peel(s) = 0 => Len(s) <= MaxTokenBytes
           /\ \A t \in Text : \A i \in 1..Peel(s) :
                 TokenIn(s \o t, i) => i + 4 <= Peel(s)
  <1> DEFINE open == IndexOf(s, Opening)
  <1> DEFINE close == IndexOf(s, Closing)
  <1> DEFINE part == PartialDelimiterSuffixLen(s)
  <1>1. /\ Len(s) \in Nat /\ open \in 0..Len(s) /\ close \in 0..Len(s)
        /\ open > 0 => PairIn(s, open, "open")
        /\ \A i \in 1..Len(s) : PairIn(s, i, "open") => open > 0 /\ open <= i
        /\ close > 0 => PairIn(s, close, "close")
    <2>1. Len(s) \in Nat
      BY DEF Text
    <2>2. /\ open \in 0..Len(s) /\ (open > 0 => StartsWith(Drop(s, open - 1), Opening))
          /\ \A i \in 1..Len(s) : StartsWith(Drop(s, i - 1), Opening) => open > 0 /\ open <= i
      BY IndexOfIs, TokenIs
    <2>3. /\ close \in 0..Len(s) /\ (close > 0 => StartsWith(Drop(s, close - 1), Closing))
      BY IndexOfIs, TokenIs
    <2> HIDE DEF open, close
    <2>4. /\ open > 0 => open \in 1..Len(s)
          /\ close > 0 => close \in 1..Len(s)
      BY <2>1, <2>2, <2>3
    <2> QED
      BY <2>1, <2>2, <2>3, <2>4, PairAtIs
  <1>2. Peel(s) = IF open = 0 THEN Len(s) - part
                  ELSE IF open > 1 THEN open - 1
                  ELSE IF StartsWith(s, Token) THEN Len(Token)
                  ELSE IF close > 0 THEN close + Len(Closing) - 1
                  ELSE IF Len(s) > MaxTokenBytes THEN Len(Opening)
                  ELSE 0
    BY DEF Peel
  <1>3. /\ part \in 0..1 /\ part <= Len(s)
        /\ (Len(s) > 0 /\ s[Len(s)] = "lead") => part = 1
    <2>1. s # <<>> <=> Len(s) > 0
      BY <1>1, EmptySeq DEF Text
    <2> QED
      BY <1>1, <2>1 DEF PartialDelimiterSuffixLen
  <1>4. MaxTokenBytes \in Nat /\ MaxTokenBytes >= 5
    BY MaxTokenAssumption, TokenIs
  <1> HIDE DEF open, close, part
  <1>5. ASSUME NEW t \in Text
        PROVE  /\ s \o t \in Text /\ Len(s \o t) >= Len(s)
               /\ \A i \in 1..Len(s) : (s \o t)[i] = s[i]
    <2>1. /\ s \o t \in Text /\ Len(s \o t) = Len(s) + Len(t) /\ Len(t) \in Nat
          /\ \A i \in 1..Len(s) : (s \o t)[i] = s[i]
      BY ConcatIs
    <2> QED
      BY <1>1, <2>1
  <1>6. CASE open = 0
    <2>1. Peel(s) = Len(s) - part
      BY <1>2, <1>6
    <2>2. ASSUME NEW t \in Text, NEW i \in 1..(Len(s) - part), TokenIn(s \o t, i)
          PROVE  FALSE
      <3>1. i \in 1..Len(s) /\ (s \o t)[i] = s[i] /\ s[i] = "lead"
        BY <1>1, <1>3, <1>5, <2>2 DEF TokenIn
      <3>2. CASE i = Len(s)
        BY <1>1, <1>3, <2>2, <3>1, <3>2
      <3>3. CASE i # Len(s)
        <4>1. i + 1 \in 1..Len(s)
          BY <1>1, <3>1, <3>3
        <4>2. s[i + 1] = "open"
          BY <1>5, <2>2, <4>1 DEF TokenIn
        <4>3. PairIn(s, i, "open")
          BY <3>1, <4>1, <4>2 DEF PairIn
        <4> QED
          BY <1>1, <1>6, <3>1, <4>3
      <3> QED
        BY <3>2, <3>3
    <2>3. Peel(s) \in 0..Len(s) /\ (Peel(s) = 0 => Len(s) <= MaxTokenBytes)
      BY <1>1, <1>3, <1>4, <2>1
    <2> QED
      BY <2>1, <2>2, <2>3
  <1>7. CASE open > 1
    <2>1. Peel(s) = open - 1 /\ open - 1 \in 1..Len(s)
      BY <1>1, <1>2, <1>7
    <2>2. ASSUME NEW t \in Text, NEW i \in 1..(open - 1), TokenIn(s \o t, i)
          PROVE  FALSE
      <3>1. i \in 1..Len(s) /\ i + 1 \in 1..Len(s) /\ i < open
        BY <1>1, <1>7
      <3>2. s[i] = "lead" /\ s[i + 1] = "open"
        BY <1>5, <2>2, <3>1 DEF TokenIn
      <3>3. PairIn(s, i, "open")
        BY <3>1, <3>2 DEF PairIn
      <3> QED
        BY <1>1, <3>1, <3>3
    <2> QED
      BY <1>1, <2>1, <2>2
  <1>8. CASE open = 1 /\ StartsWith(s, Token)
    <2>1. Peel(s) = 5
      BY <1>2, <1>8, TokenIs
    <2>2. TokenIn(s, 1)
      BY <1>8, StartsWithTokenIs
    <2>3. /\ 5 <= Len(s)
          /\ s[2] = "open" /\ s[3] = "name" /\ s[4] = "lead" /\ s[5] = "close"
      BY <2>2 DEF TokenIn
    <2>4. ASSUME NEW t \in Text, NEW i \in 1..5, TokenIn(s \o t, i)
          PROVE  i + 4 <= 5
      <3> DEFINE u == s \o t
      <3>1. \A j \in 1..5 : u[j] = s[j]
        BY <1>1, <1>5, <2>3
      <3>2. u[i] = "lead" /\ u[i + 1] = "open"
        BY <2>4 DEF TokenIn
      <3> HIDE DEF u
      <3>3. u[2] = "open" /\ u[3] = "name" /\ u[4] = "lead" /\ u[5] = "close"
        BY <2>3, <3>1
      <3>4. i = 1 \/ i = 2 \/ i = 3 \/ i = 4 \/ i = 5
        OBVIOUS
      <3>5. i # 2 /\ i # 3 /\ i # 5
        BY <3>2, <3>3
      <3>6. i # 4
        BY <3>2, <3>3
      <3> QED
        BY <3>4, <3>5, <3>6
    <2> QED
      BY <1>1, <2>1, <2>3, <2>4
  <1>9. CASE open = 1 /\ ~StartsWith(s, Token) /\ close > 0
    <2>1. Peel(s) = close + 1
      BY <1>1, <1>2, <1>9, TokenIs
    <2>2. close \in 1..Len(s) /\ close + 1 \in 1..Len(s) /\ s[close + 1] = "close"
      BY <1>1, <1>9 DEF PairIn
    <2>3. ASSUME NEW t \in Text, NEW i \in 1..(close + 1), TokenIn(s \o t, i)
          PROVE  i + 4 <= close + 1
      <3> DEFINE u == s \o t
      <3>1. u[close + 1] = "close"
        BY <1>5, <2>2
      <3>2. u[i] = "lead" /\ u[i + 1] = "open" /\ u[i + 2] = "name" /\ u[i + 3] = "lead"
        BY <2>3 DEF TokenIn
      <3> HIDE DEF u
      <3>3. close + 1 # i /\ close + 1 # i + 1 /\ close + 1 # i + 2 /\ close + 1 # i + 3
        BY <3>1, <3>2
      <3> QED
        BY <2>2, <3>3
    <2> QED
      BY <2>1, <2>2, <2>3
  <1>10. CASE open = 1 /\ ~StartsWith(s, Token) /\ ~(close > 0) /\ Len(s) > MaxTokenBytes
    <2>1. Peel(s) = 2
      BY <1>1, <1>2, <1>10, TokenIs
    <2>2. Len(s) >= 5 /\ s[2] = "open"
      BY <1>1, <1>4, <1>10 DEF PairIn
    <2>3. ASSUME NEW t \in Text, NEW i \in 1..2, TokenIn(s \o t, i)
          PROVE  FALSE
      <3> DEFINE u == s \o t
      <3>1. \A j \in 1..5 : u[j] = s[j]
        BY <1>1, <1>5, <2>2
      <3>2. TokenIn(u, i)
        BY <2>3
      <3> HIDE DEF u
      <3>3. i = 1 \/ i = 2
        OBVIOUS
      <3>4. i # 2
        BY <2>2, <3>1, <3>2 DEF TokenIn
      <3>5. TokenIn(u, 1)
        BY <3>2, <3>3, <3>4
      <3>6. TokenIn(s, 1)
        BY <2>2, <3>1, <3>5 DEF TokenIn
      <3> QED
        BY <1>10, <3>6, StartsWithTokenIs
    <2> QED
      BY <1>1, <2>1, <2>2, <2>3
  <1>11. CASE open = 1 /\ ~StartsWith(s, Token) /\ ~(close > 0) /\ ~(Len(s) > MaxTokenBytes)
    <2>1. Peel(s) = 0
      BY <1>1, <1>2, <1>11
    <2> QED
      BY <1>1, <1>4, <1>11, <2>1
  <1>12. open = 0 \/ open = 1 \/ open > 1
    BY <1>1
  <1> QED
    BY <1>6, <1>7, <1>8, <1>9, <1>10, <1>11, <1>12

\* No token lies across the cut between a and h, whatever text comes next.
CleanCut(a, h) ==
    \A t \in Text : \A i \in 1..Len(a) : TokenIn((a \o h) \o t, i) => i + 4 <= Len(a)

LEMMA Associative ==
    \A a, b, c \in Text : (a \o b) \o c = a \o (b \o c)
  <1> SUFFICES ASSUME NEW a \in Seq(Symbols), NEW b \in Seq(Symbols), NEW c \in Seq(Symbols)
               PROVE  (a \o b) \o c = a \o (b \o c)
    BY Zenon DEF Text
  <1> QED
    BY ConcatAssociative

LEMMA ConcatTyped ==
    \A a, b \in Text : a \o b \in Text
  BY ConcatProperties DEF Text

\* The same as one fact about three texts.
Regroups(a, b, c) == (a \o b) \o c = a \o (b \o c)

\* So do any three.
LEMMA TextsRegroup ==
    \A a, b, c \in Text : Regroups(a, b, c)
  BY Associative DEF Regroups

LEMMA EmptyText ==
    /\ <<>> \in Text /\ Len(<<>>) = 0
    /\ \A a \in Text : a \o <<>> = a /\ <<>> \o a = a
  <1>1. <<>> \in Text /\ Len(<<>>) = 0
    BY DEF Text
  <1>2. \A a \in Seq(Symbols) : a \o <<>> = a /\ <<>> \o a = a
    BY ConcatEmptySeq
  <1> QED
    BY <1>1, <1>2 DEF Text

\* Two clean cuts make one.
LEMMA CleanCutConcat ==
    ASSUME NEW a \in Text, NEW b \in Text, NEW h \in Text,
           CleanCut(a, b \o h), CleanCut(b, h)
    PROVE  CleanCut(a \o b, h) /\ Resolve(a \o b) = Resolve(a) \o Resolve(b)
  <1>1. /\ Len(a) \in Nat /\ Len(b) \in Nat /\ Len(a \o b) = Len(a) + Len(b)
        /\ a \o b \in Text /\ b \o h \in Text
        /\ \A i \in 1..Len(a) : i \in 1..Len(a \o b)
    BY ConcatIs
  <1>2. ASSUME NEW t \in Text, NEW i \in 1..Len(a \o b), TokenIn(((a \o b) \o h) \o t, i)
        PROVE  i + 4 <= Len(a \o b)
    <2>1. ((a \o b) \o h) \o t = (a \o (b \o h)) \o t
      BY Associative, Zenon
    <2>2. CASE i <= Len(a)
      <3>1. i \in 1..Len(a) /\ TokenIn((a \o (b \o h)) \o t, i)
        BY <1>1, <1>2, <2>1, <2>2
      <3>2. i + 4 <= Len(a)
        BY <3>1 DEF CleanCut
      <3> QED
        BY <1>1, <3>2
    <2>3. CASE i > Len(a)
      <3> DEFINE j == i - Len(a)
      <3> DEFINE u == (b \o h) \o t
      <3>1. j \in 1..Len(b) /\ Len(a) + j = i
        BY <1>1, <2>3
      <3>2a. (a \o (b \o h)) \o t = a \o u
        <4>1. b \o h \in Text
          BY <1>1
        <4>2. Regroups(a, b \o h, t)
          BY <4>1, TextsRegroup, Zenon
        <4> QED
          BY <4>2, Zenon DEF Regroups
      <3>2b. u \in Text
        BY <1>1, ConcatTyped
      <3>2. (a \o (b \o h)) \o t = a \o u /\ u \in Text
        BY <3>2a, <3>2b
      <3>3. j \in 1..Len(u)
        BY <1>1, <3>1, ConcatIs
      <3> HIDE DEF j, u
      <3>4. TokenIn(u, j)
        BY <1>2, <2>1, <3>1, <3>2, <3>3, TokensOfConcat
      <3>5. j + 4 <= Len(b)
        BY <3>1, <3>4 DEF CleanCut, u
      <3> QED
        BY <1>1, <3>1, <3>5
    <2> QED
      BY <1>1, <2>2, <2>3
  <1>3. ASSUME NEW i \in 1..Len(a), TokenIn(a \o b, i)
        PROVE  i + 4 <= Len(a)
    <2>1. TokenIn((a \o b) \o h, i)
      BY <1>1, <1>3, TokensOfConcat
    <2>1a. a \o (b \o h) \in Text
      BY <1>1, ConcatTyped
    <2>1b. (a \o b) \o h = a \o (b \o h)
      BY Associative
    <2>2a. (a \o b) \o h = a \o (b \o h) /\ a \o (b \o h) \in Text
      BY <2>1a, <2>1b
    <2>2. (a \o b) \o h = (a \o (b \o h)) \o <<>> /\ <<>> \in Text
      BY <2>2a, EmptyText, Zenon
    <2> QED
      BY <2>1, <2>2 DEF CleanCut
  <1>4. Resolve(a \o b) = Resolve(a) \o Resolve(b)
    BY <1>3, ResolveConcat
  <1>5. CleanCut(a \o b, h)
    BY <1>2 DEF CleanCut
  <1> QED
    BY <1>4, <1>5

\* Nothing cuts a text at its beginning, and a clean cut lets what comes before
\* and after it be restored apart.
LEMMA CleanCutBasics ==
    /\ \A h \in Text : CleanCut(<<>>, h)
    /\ \A a, h \in Text : CleanCut(a, h) => Resolve(a \o h) = Resolve(a) \o Resolve(h)
    /\ \A a, h, b \in Text : CleanCut(a, h) => CleanCut(a, h \o b)
  <1>1. ASSUME NEW h \in Text PROVE CleanCut(<<>>, h)
    BY EmptyText DEF CleanCut
  <1>2. ASSUME NEW a \in Text, NEW h \in Text, CleanCut(a, h)
        PROVE  Resolve(a \o h) = Resolve(a) \o Resolve(h)
    <2>1. (a \o h) \o <<>> = a \o h /\ <<>> \in Text
      BY ConcatTyped, EmptyText, Zenon
    <2>2. \A i \in 1..Len(a) : TokenIn(a \o h, i) => i + 4 <= Len(a)
      BY <1>2, <2>1 DEF CleanCut
    <2> QED
      BY <2>2, ResolveConcat
  <1>3. ASSUME NEW a \in Text, NEW h \in Text, NEW b \in Text, CleanCut(a, h)
        PROVE  CleanCut(a, h \o b)
    <2> SUFFICES ASSUME NEW t \in Text, NEW i \in 1..Len(a),
                        TokenIn((a \o (h \o b)) \o t, i)
                 PROVE  i + 4 <= Len(a)
      BY DEF CleanCut
    <2>1. (a \o (h \o b)) \o t = (a \o h) \o (b \o t) /\ b \o t \in Text
      <3>1. a \o h \in Text /\ b \o t \in Text
        BY ConcatTyped, Zenon
      <3>2. (a \o (h \o b)) \o t = ((a \o h) \o b) \o t
        BY Associative, Zenon
      <3>3. ((a \o h) \o b) \o t = (a \o h) \o (b \o t)
        <4>1. Regroups(a \o h, b, t)
          BY <3>1, TextsRegroup, Zenon
        <4> QED
          BY <4>1, Zenon DEF Regroups
      <3> QED
        BY <3>1, <3>2, <3>3, Zenon
    <2> QED
      BY <1>3, <2>1 DEF CleanCut
  <1> QED
    BY <1>1, <1>2, <1>3

\* What a resolver makes of the text s it holds: a prefix of it, cut cleanly, is
\* restored, and the rest, which is short, is still held.
Drained(s, r) ==
    /\ r.out \in Text /\ r.held \in Text /\ Len(r.held) <= MaxTokenBytes
    /\ \E p \in Text : s = p \o r.held /\ r.out = Resolve(p) /\ CleanCut(p, r.held)

\* What drain returns after i symbols, when h holds what it returns after more.
Draining(s, h, i) ==
    LET rest == Drop(s, i)
        n == Peel(rest)
    IN  IF n = 0 THEN [out |-> <<>>, held |-> rest]
        ELSE [out |-> Resolve(SubSeq(rest, 1, n)) \o h[i + n].out, held |-> h[i + n].held]

LEMMA DrainingLooksAhead ==
    ASSUME NEW s \in Text, NEW i \in 0..Len(s)
    PROVE  /\ Drop(s, i) \in Text /\ Peel(Drop(s, i)) \in Nat /\ Len(s) \in Nat
           /\ i + Peel(Drop(s, i)) <= Len(s)
  <1>1. Drop(s, i) \in Text /\ Len(Drop(s, i)) = Len(s) - i /\ Len(s) \in Nat
    BY DropIs DEF Text
  <1>2. Peel(Drop(s, i)) \in 0..Len(Drop(s, i))
    BY <1>1, PeelClean
  <1> QED
    BY <1>1, <1>2

LEMMA DrainingExists ==
    ASSUME NEW s \in Text
    PROVE  \E h : h = [i \in 0..Len(s) |-> Draining(s, h, i)]
  <1> DEFINE N == Len(s)
  <1> DEFINE Good(k) == \E h : /\ h = [i \in (N - k)..N |-> h[i]]
                               /\ \A i \in (N - k)..N : h[i] = Draining(s, h, i)
  <1> DEFINE R == {k \in Nat : k <= N => Good(k)}
  <1>1. N \in Nat
    BY DEF Text
  <1>2. \A i \in 0..N : Peel(Drop(s, i)) \in Nat /\ i + Peel(Drop(s, i)) <= N
    BY DrainingLooksAhead
  <1>3. Good(0)
    <2> DEFINE h == [i \in (N - 0)..N |-> Draining(s, <<>>, i)]
    <2>1. \A i \in (N - 0)..N : i = N /\ i \in 0..N
      BY <1>1
    <2>2. \A i \in (N - 0)..N : Peel(Drop(s, i)) = 0
      BY <1>1, <1>2, <2>1
    <2>3. \A i \in (N - 0)..N : h[i] = Draining(s, h, i)
      BY <2>2 DEF Draining
    <2>4. h = [i \in (N - 0)..N |-> h[i]]
      OBVIOUS
    <2> QED
      BY <2>3, <2>4
  <1>4. ASSUME NEW k \in Nat, k + 1 <= N, Good(k)
        PROVE  Good(k + 1)
    <2>1. PICK h : /\ h = [i \in (N - k)..N |-> h[i]]
                   /\ \A i \in (N - k)..N : h[i] = Draining(s, h, i)
      BY <1>4
    <2> DEFINE first == N - (k + 1)
    <2> DEFINE g == [i \in first..N |-> IF i = first THEN Draining(s, h, i) ELSE h[i]]
    <2>2. first \in Nat /\ \A i \in first..N : i = first \/ i \in (N - k)..N
      BY <1>1, <1>4
    <2>3. \A i \in (N - k)..N : i \in first..N /\ i # first
      BY <1>1, <1>4
    <2>4. \A i \in (N - k)..N : g[i] = h[i]
      BY <2>3
    <2>5. ASSUME NEW i \in first..N
          PROVE  Draining(s, g, i) = Draining(s, h, i)
      <3>1. i \in 0..N
        BY <1>1, <2>2
      <3>2. Peel(Drop(s, i)) # 0 => i + Peel(Drop(s, i)) \in (N - k)..N
        BY <1>1, <1>2, <1>4, <2>2, <3>1
      <3> HIDE DEF g, first
      <3> QED
        BY <2>4, <3>2 DEF Draining
    <2>6. \A i \in first..N : g[i] = Draining(s, g, i)
      <3> SUFFICES ASSUME NEW i \in first..N PROVE g[i] = Draining(s, g, i)
        OBVIOUS
      <3>1. CASE i = first
        <4>1. g[i] = Draining(s, h, i)
          BY <3>1
        <4> QED
          BY <2>5, <4>1
      <3>2. CASE i # first
        <4>1. g[i] = h[i] /\ h[i] = Draining(s, h, i)
          BY <2>1, <2>2, <2>4, <3>2
        <4> QED
          BY <2>5, <4>1
      <3> QED
        BY <3>1, <3>2
    <2>7. g = [i \in first..N |-> g[i]]
      OBVIOUS
    <2> HIDE DEF g
    <2> QED
      BY <2>6, <2>7
  <1> HIDE DEF Good
  <1>5. 0 \in R
    BY <1>3
  <1>6. \A k \in R : k + 1 \in R
    BY <1>1, <1>4
  <1>7. R = Nat
    <2> HIDE DEF R
    <2>1. R \in SUBSET Nat
      BY DEF R
    <2> QED
      BY <1>5, <1>6, <2>1, Induction
  <1>8. Good(N)
    BY <1>1, <1>7
  <1>9. N - N = 0
    BY <1>1
  <1> QED
    BY <1>8, <1>9 DEF Good

LEMMA DropDrop ==
    ASSUME NEW s \in Text, NEW i \in 0..Len(s), NEW n \in 0..(Len(s) - i)
    PROVE  Drop(Drop(s, i), n) = Drop(s, i + n)
  <1>1. Len(s) \in Nat /\ i + n \in 0..Len(s)
    BY DEF Text
  <1>2. /\ Drop(s, i) \in Text /\ Len(Drop(s, i)) = Len(s) - i
        /\ \A j \in 1..(Len(s) - i) : Drop(s, i)[j] = s[i + j]
    BY DropIs
  <1>3. /\ Drop(s, i + n) \in Text /\ Len(Drop(s, i + n)) = Len(s) - (i + n)
        /\ \A j \in 1..(Len(s) - (i + n)) : Drop(s, i + n)[j] = s[(i + n) + j]
    BY <1>1, DropIs
  <1>4. /\ Drop(Drop(s, i), n) \in Text /\ Len(Drop(Drop(s, i), n)) = (Len(s) - i) - n
        /\ \A j \in 1..((Len(s) - i) - n) : Drop(Drop(s, i), n)[j] = Drop(s, i)[n + j]
    BY <1>2, DropIs
  <1>5. ASSUME NEW j \in 1..(Len(s) - (i + n))
        PROVE  Drop(Drop(s, i), n)[j] = Drop(s, i + n)[j]
    <2>1. n + j \in 1..(Len(s) - i) /\ j \in 1..((Len(s) - i) - n) /\ i + (n + j) = (i + n) + j
      BY <1>1
    <2> QED
      BY <1>2, <1>3, <1>4, <2>1
  <1>6. Len(Drop(Drop(s, i), n)) = Len(s) - (i + n)
    BY <1>1, <1>4
  <1> QED
    BY <1>3, <1>4, <1>5, <1>6, SeqEqual DEF Text

LEMMA DrainClean ==
    ASSUME NEW s \in Text
    PROVE  Drained(s, Drain(s))
  <1> DEFINE N == Len(s)
  <1> DEFINE from == CHOOSE h : h = [i \in 0..Len(s) |-> Draining(s, h, i)]
  <1>1. N \in Nat
    BY DEF Text
  <1>2. from = [i \in 0..Len(s) |-> Draining(s, from, i)]
    BY DrainingExists
  <1>3. Drain(s) = from[0]
    BY Zenon DEF Drain, Draining
  <1> HIDE DEF from
  <1>4. \A i \in 0..N : from[i] = Draining(s, from, i)
    BY <1>2
  <1> DEFINE Good(i) == Drained(Drop(s, i), from[i])
  <1> DEFINE R == {k \in Nat : \A i \in 0..N : N - i <= k => Good(i)}
  <1>5. ASSUME NEW i \in 0..N, \A j \in 0..N : j > i => Good(j)
        PROVE  Good(i)
    <2> DEFINE rest == Drop(s, i)
    <2> DEFINE n == Peel(rest)
    <2>1. /\ rest \in Text /\ Len(rest) = N - i /\ n \in 0..(N - i)
          /\ n = 0 => Len(rest) <= MaxTokenBytes
          /\ \A t \in Text : \A j \in 1..n : TokenIn(rest \o t, j) => j + 4 <= n
      <3>1. rest \in Text /\ Len(rest) = N - i
        BY DropIs
      <3> HIDE DEF rest
      <3> QED
        BY <3>1, PeelClean
    <2>2. CASE n = 0
      <3>1. from[i] = [out |-> <<>>, held |-> rest]
        BY <1>4, <2>2 DEF Draining
      <3> HIDE DEF rest, n
      <3>2. rest = <<>> \o rest /\ <<>> \in Text /\ <<>> = Resolve(<<>>) /\ CleanCut(<<>>, rest)
        BY <2>1, EmptyText, ResolveTyped, CleanCutBasics
      <3>3. Drained(rest, from[i])
        <4> DEFINE r == from[i]
        <4>1. r.out = <<>> /\ r.held = rest
          BY <3>1
        <4> HIDE DEF r
        <4>2. \E p \in Text : /\ rest = p \o r.held /\ r.out = Resolve(p)
                              /\ CleanCut(p, r.held)
          BY <3>2, <4>1, Zenon
        <4> QED
          BY <2>1, <2>2, <3>2, <4>1, <4>2 DEF Drained, r
      <3> QED
        BY <3>3 DEF rest
    <2>3. CASE n # 0
      <3> DEFINE q == SubSeq(rest, 1, n)
      <3> DEFINE later == from[i + n]
      <3>1. from[i] = [out |-> Resolve(q) \o later.out, held |-> later.held]
        BY <1>4, <2>3 DEF Draining
      <3>2. i + n \in 0..N /\ i + n > i /\ n \in 0..Len(rest)
        BY <1>1, <2>1, <2>3
      <3>3. Drop(rest, n) = Drop(s, i + n)
        BY <1>1, <2>1, DropDrop
      <3>4. Drained(Drop(rest, n), later)
        BY <1>5, <3>2, <3>3
      <3>5. q \in Text /\ Len(q) = n /\ rest = q \o Drop(rest, n) /\ Drop(rest, n) \in Text
        <4> HIDE DEF n, rest
        <4> QED
          BY <2>1, <3>2, DropIs
      <3> HIDE DEF later, q, n, rest
      <3>6. PICK p \in Text : /\ Drop(rest, n) = p \o later.held
                              /\ later.out = Resolve(p) /\ CleanCut(p, later.held)
        BY <3>4 DEF Drained
      <3>7. later.held \in Text /\ Len(later.held) <= MaxTokenBytes /\ later.out \in Text
        BY <3>4 DEF Drained
      <3>8. CleanCut(q, p \o later.held)
        <4>1. q \o (p \o later.held) = rest
          BY <3>5, <3>6
        <4>2. \A t \in Text : \A j \in 1..Len(q) :
                 TokenIn((q \o (p \o later.held)) \o t, j) => j + 4 <= Len(q)
          BY <2>1, <3>5, <4>1
        <4> QED
          BY <4>2 DEF CleanCut
      <3>9. CleanCut(q \o p, later.held) /\ Resolve(q \o p) = Resolve(q) \o Resolve(p)
        BY <3>5, <3>6, <3>7, <3>8, CleanCutConcat
      <3>10. q \o p \in Text /\ rest = (q \o p) \o later.held
        <4>1. rest = q \o (p \o later.held)
          BY <3>5, <3>6, Zenon
        <4>2. q \o (p \o later.held) = (q \o p) \o later.held
          <5>1. q \in Text /\ later.held \in Text
            BY <3>5, <3>7, Zenon
          <5>2. Regroups(q, p, later.held)
            BY <5>1, TextsRegroup, Zenon
          <5> QED
            BY <5>2, Zenon DEF Regroups
        <4>3. q \o p \in Text
          BY <3>5, ConcatTyped
        <4> QED
          BY <4>1, <4>2, <4>3, Zenon
      <3>11. /\ from[i].out = Resolve(q \o p) /\ from[i].held = later.held
             /\ from[i].out \in Text
        <4>1. from[i].out = Resolve(q) \o later.out /\ from[i].held = later.held
          BY <3>1
        <4>2. Resolve(q) \o later.out = Resolve(q \o p)
          BY <3>6, <3>9, Zenon
        <4>3. Resolve(q \o p) \in Text
          BY <3>10, ResolveTyped
        <4> QED
          BY <4>1, <4>2, <4>3, Zenon
      <3>12. Drained(rest, from[i])
        BY <3>7, <3>9, <3>10, <3>11 DEF Drained
      <3> QED
        BY <3>12 DEF rest
    <2> QED
      BY <2>2, <2>3
  <1> HIDE DEF Good
  <1>6. 0 \in R
    <2>1. \A i, j \in 0..N : N - i <= 0 => ~(j > i)
      BY <1>1
    <2> QED
      BY <1>5, <2>1
  <1>7. ASSUME NEW k \in R
        PROVE  k + 1 \in R
    <2> SUFFICES ASSUME NEW i \in 0..N, N - i <= k + 1
                 PROVE  Good(i)
      OBVIOUS
    <2>1. k \in Nat /\ \A j \in 0..N : N - j <= k => Good(j)
      OBVIOUS
    <2>2. \A j \in 0..N : j > i => N - j <= k
      BY <1>1, <2>1
    <2> QED
      BY <1>5, <2>1, <2>2
  <1>8. R = Nat
    BY <1>6, <1>7, Induction
  <1>9. Good(0)
    <2>1. N \in R /\ 0 \in 0..N /\ N - 0 <= N
      BY <1>1, <1>8
    <2> QED
      BY <2>1
  <1>10. Drop(s, 0) = s
    <2>1. 0 \in 0..Len(s)
      BY <1>1
    <2>2. /\ Drop(s, 0) \in Text /\ Len(Drop(s, 0)) = Len(s) - 0
          /\ \A j \in 1..(Len(s) - 0) : Drop(s, 0)[j] = s[0 + j]
      BY <2>1, DropIs
    <2>3. Len(Drop(s, 0)) = Len(s) /\ \A j \in 1..Len(Drop(s, 0)) : Drop(s, 0)[j] = s[j]
      BY <1>1, <2>2
    <2> QED
      BY <2>2, <2>3, SeqEqual DEF Text
  <1> QED
    BY <1>3, <1>9, <1>10 DEF Good

\* Feed and Flush, for any text that is held and any that arrives.
LEMMA FeedClean ==
    ASSUME NEW h \in Text, NEW chunk \in Text
    PROVE  Drained(h \o chunk, Feed(h, chunk))
  BY ConcatTyped, DrainClean DEF Feed

-----------------------------------------------------------------------------
(* The elements of a sequence at some of its places. *)

Picking(s, places, h, i) ==
    IF i = 0 THEN <<>>
    ELSE IF i \in places THEN Append(h[i - 1], s[i]) ELSE h[i - 1]

PicksFrom(S, s, places, h) ==
    /\ h \in [0..Len(s) -> Seq(S)] /\ h[0] = <<>>
    /\ \A i \in 1..Len(s) : h[i] = IF i \in places THEN Append(h[i - 1], s[i]) ELSE h[i - 1]

LEMMA AtTable ==
    ASSUME NEW S, NEW s \in Seq(S), NEW places
    PROVE  \E h : PicksFrom(S, s, places, h) /\ h[Len(s)] = At(s, places)
  <1> DEFINE n == Len(s)
  <1> DEFINE V == Seq(S)
  <1> DEFINE step == [i \in 1..n |-> [v \in V |-> IF i \in places THEN Append(v, s[i]) ELSE v]]
  <1>1. n \in Nat /\ \A i \in 1..n : s[i] \in S
    OBVIOUS
  <1>2. step \in [1..n -> [V -> V]]
    <2>1. \A i \in 1..n : \A v \in V : Append(v, s[i]) \in V
      BY <1>1, AppendProperties
    <2> HIDE DEF V
    <2>2. \A i \in 1..n : \A v \in V : (IF i \in places THEN Append(v, s[i]) ELSE v) \in V
      BY <2>1
    <2> QED
      BY <2>2
  <1>3. <<>> \in V
    OBVIOUS
  <1>4. PICK h \in [0..n -> V] : h[0] = <<>> /\ \A i \in 1..n : h[i] = step[i][h[i - 1]]
    <2> DEFINE base == <<>>
    <2>1. base \in V
      BY <1>3
    <2> HIDE DEF V, step, base, n
    <2>2. \E h : Recurs(n, V, base, step, h)
      BY <1>1, <1>2, <2>1, Recursion
    <2> QED
      BY <2>2 DEF base, Recurs
  <1>5. ASSUME NEW i \in 1..n
        PROVE  h[i] = IF i \in places THEN Append(h[i - 1], s[i]) ELSE h[i - 1]
    <2>1. i - 1 \in 0..n
      BY <1>1
    <2>2. h[i - 1] \in V
      BY <2>1, <1>4
    <2> HIDE DEF V
    <2>3. step[i][h[i - 1]] = IF i \in places THEN Append(h[i - 1], s[i]) ELSE h[i - 1]
      BY <2>2
    <2> QED
      BY <1>4, <2>3
  <1>6. h = [i \in 0..n |-> Picking(s, places, h, i)]
    <2>1. \A i \in 0..n : h[i] = Picking(s, places, h, i)
      <3> SUFFICES ASSUME NEW i \in 0..n PROVE h[i] = Picking(s, places, h, i)
        OBVIOUS
      <3>1. CASE i = 0
        BY <1>4, <3>1 DEF Picking
      <3>2. CASE i # 0
        <4>1. i \in 1..n
          BY <1>1, <3>2
        <4> QED
          BY <1>5, <3>2, <4>1 DEF Picking
      <3> QED
        BY <3>1, <3>2
    <2>2. h = [i \in 0..n |-> h[i]]
      BY <1>4
    <2> QED
      BY <2>1, <2>2
  <1> DEFINE upTo == CHOOSE g : g = [i \in 0..Len(s) |-> Picking(s, places, g, i)]
  <1>7. upTo = [i \in 0..Len(s) |-> Picking(s, places, upTo, i)]
    BY <1>6
  <1>8. At(s, places) = upTo[Len(s)]
    BY Zenon DEF At, Picking
  <1> HIDE DEF upTo
  <1>9. \A i \in 0..n : upTo[i] = Picking(s, places, upTo, i)
    BY <1>7
  <1> DEFINE R == {k \in Nat : k <= n => upTo[k] = h[k]}
  <1>10. 0 \in R
    BY <1>1, <1>4, <1>9 DEF Picking
  <1>11. ASSUME NEW k \in R PROVE k + 1 \in R
    <2> SUFFICES ASSUME k + 1 <= n PROVE upTo[k + 1] = h[k + 1]
      OBVIOUS
    <2>1. k \in Nat /\ k + 1 \in 1..n /\ k + 1 \in 0..n /\ (k + 1) - 1 = k /\ k + 1 # 0
      BY <1>1
    <2>2. upTo[k] = h[k]
      BY <1>1, <2>1
    <2>3. upTo[k + 1] = IF k + 1 \in places THEN Append(upTo[k], s[k + 1]) ELSE upTo[k]
      BY <1>9, <2>1 DEF Picking
    <2>4. h[k + 1] = IF k + 1 \in places THEN Append(h[k], s[k + 1]) ELSE h[k]
      BY <1>5, <2>1
    <2> QED
      BY <2>2, <2>3, <2>4
  <1>12. R = Nat
    <2>1. R \in SUBSET Nat
      OBVIOUS
    <2> HIDE DEF R
    <2> QED
      BY <1>10, <1>11, <2>1, Induction
  <1>13. upTo[n] = h[n]
    BY <1>1, <1>12
  <1>14. PicksFrom(S, s, places, h)
    BY <1>4, <1>5 DEF PicksFrom
  <1> QED
    BY <1>8, <1>13, <1>14

\* Sequences and places that agree so far give the same elements so far.
LEMMA PicksAgree ==
    ASSUME NEW S, NEW s \in Seq(S), NEW t \in Seq(S), NEW I, NEW J, NEW g, NEW h,
           PicksFrom(S, s, I, g), PicksFrom(S, t, J, h),
           NEW n \in Nat, n <= Len(s), n <= Len(t),
           \A i \in 1..n : s[i] = t[i] /\ (i \in I <=> i \in J)
    PROVE  g[n] = h[n]
  <1> DEFINE R == {k \in Nat : k <= n => g[k] = h[k]}
  <1>1. Len(s) \in Nat /\ Len(t) \in Nat
    OBVIOUS
  <1>2. 0 \in R
    BY DEF PicksFrom
  <1>3. ASSUME NEW k \in R PROVE k + 1 \in R
    <2> SUFFICES ASSUME k + 1 <= n PROVE g[k + 1] = h[k + 1]
      OBVIOUS
    <2>1. /\ k \in Nat /\ k + 1 \in 1..n /\ k + 1 \in 1..Len(s) /\ k + 1 \in 1..Len(t)
          /\ (k + 1) - 1 = k /\ k <= n
      BY <1>1
    <2>2. g[k] = h[k]
      BY <2>1
    <2>3. g[k + 1] = IF k + 1 \in I THEN Append(g[k], s[k + 1]) ELSE g[k]
      BY <2>1 DEF PicksFrom
    <2>4. h[k + 1] = IF k + 1 \in J THEN Append(h[k], t[k + 1]) ELSE h[k]
      BY <2>1 DEF PicksFrom
    <2>5. s[k + 1] = t[k + 1] /\ (k + 1 \in I <=> k + 1 \in J)
      BY <2>1
    <2> QED
      BY <2>2, <2>3, <2>4, <2>5
  <1>4. R = Nat
    <2>1. R \in SUBSET Nat
      OBVIOUS
    <2> HIDE DEF R
    <2> QED
      BY <1>2, <1>3, <2>1, Induction
  <1> QED
    BY <1>4

LEMMA AtTyped ==
    ASSUME NEW S, NEW s \in Seq(S), NEW places
    PROVE  At(s, places) \in Seq(S)
  <1>1. PICK h : PicksFrom(S, s, places, h) /\ h[Len(s)] = At(s, places)
    BY AtTable
  <1>2. Len(s) \in 0..Len(s)
    OBVIOUS
  <1> QED
    BY <1>1, <1>2 DEF PicksFrom

\* One more element, at a place that is picked or is not.
LEMMA AtAppend ==
    ASSUME NEW S, NEW s \in Seq(S), NEW x \in S, NEW I, NEW J,
           \A i \in 1..Len(s) : i \in I <=> i \in J
    PROVE  At(Append(s, x), J) = IF Len(s) + 1 \in J THEN Append(At(s, I), x) ELSE At(s, I)
  <1> DEFINE t == Append(s, x)
  <1> DEFINE n == Len(s)
  <1>1. /\ t \in Seq(S) /\ Len(t) = n + 1 /\ n \in Nat /\ t[n + 1] = x
        /\ \A i \in 1..n : t[i] = s[i]
    BY AppendProperties
  <1>2. PICK g : PicksFrom(S, s, I, g) /\ g[n] = At(s, I)
    BY AtTable
  <1>3. PICK h : PicksFrom(S, t, J, h) /\ h[Len(t)] = At(t, J)
    BY <1>1, AtTable
  <1> HIDE DEF t
  <1>4. g[n] = h[n]
    BY <1>1, <1>2, <1>3, PicksAgree
  <1>5. h[n + 1] = IF n + 1 \in J THEN Append(h[n], t[n + 1]) ELSE h[n]
    <2>1. n + 1 \in 1..Len(t) /\ (n + 1) - 1 = n
      BY <1>1
    <2>2. \A i \in 1..Len(t) : h[i] = IF i \in J THEN Append(h[i - 1], t[i]) ELSE h[i - 1]
      BY <1>3 DEF PicksFrom
    <2> QED
      BY <2>1, <2>2
  <1>6. At(t, J) = IF n + 1 \in J THEN Append(At(s, I), x) ELSE At(s, I)
    BY <1>1, <1>2, <1>3, <1>4, <1>5
  <1> QED
    BY <1>6 DEF t

LEMMA AtEmpty == \A places : At(<<>>, places) = <<>>
  <1> SUFFICES ASSUME NEW places PROVE At(<<>>, places) = <<>>
    OBVIOUS
  <1>1. <<>> \in Seq({}) /\ Len(<<>>) = 0
    OBVIOUS
  <1>2. PICK h : PicksFrom({}, <<>>, places, h) /\ h[Len(<<>>)] = At(<<>>, places)
    BY <1>1, AtTable
  <1> QED
    BY <1>1, <1>2 DEF PicksFrom

\* What is asked of each element, of one more.
LEMMA DataAppend ==
    ASSUME NEW S, NEW s \in Seq(S), NEW x \in S
    PROVE  Data(Append(s, x)) = Append(Data(s), x.data)
  <1> DEFINE t == Append(s, x)
  <1>1. /\ t \in Seq(S) /\ Len(t) = Len(s) + 1 /\ t[Len(s) + 1] = x /\ Len(s) \in Nat
        /\ \A i \in 1..Len(s) : t[i] = s[i]
    BY AppendProperties
  <1>2. DOMAIN s = 1..Len(s) /\ DOMAIN t = 1..(Len(s) + 1)
    BY <1>1, LenProperties
  <1> DEFINE D == {y.data : y \in S}
  <1>3. Data(s) \in Seq(D) /\ Len(Data(s)) = Len(s)
    <2>1. Data(s) = [i \in 1..Len(s) |-> s[i].data]
      BY <1>2 DEF Data
    <2>2. \A i \in 1..Len(s) : s[i].data \in D
      OBVIOUS
    <2> HIDE DEF D
    <2> QED
      BY <1>1, <2>1, <2>2
  <1>4. Data(t) \in Seq(D) /\ Len(Data(t)) = Len(s) + 1
    <2>1. Data(t) = [i \in 1..(Len(s) + 1) |-> t[i].data]
      BY <1>2 DEF Data
    <2>2. \A i \in 1..(Len(s) + 1) : t[i].data \in D
      BY <1>1
    <2> HIDE DEF D, t
    <2> QED
      BY <1>1, <2>1, <2>2
  <1>5. x.data \in D
    OBVIOUS
  <1>6. /\ Append(Data(s), x.data) \in Seq(D) /\ Len(Append(Data(s), x.data)) = Len(s) + 1
        /\ \A i \in 1..Len(s) : Append(Data(s), x.data)[i] = Data(s)[i]
        /\ Append(Data(s), x.data)[Len(s) + 1] = x.data
    BY <1>3, <1>5, AppendProperties
  <1>7. \A i \in 1..(Len(s) + 1) : Data(t)[i] = Append(Data(s), x.data)[i]
    <2> SUFFICES ASSUME NEW i \in 1..(Len(s) + 1)
                 PROVE  Data(t)[i] = Append(Data(s), x.data)[i]
      OBVIOUS
    <2>1. Data(t)[i] = t[i].data
      BY <1>2 DEF Data
    <2>2. CASE i = Len(s) + 1
      BY <1>1, <1>6, <2>1, <2>2
    <2>3. CASE i # Len(s) + 1
      <3>1. i \in 1..Len(s)
        BY <1>1, <2>3
      <3>2. Data(s)[i] = s[i].data
        BY <1>2, <3>1 DEF Data
      <3> QED
        BY <1>1, <1>6, <2>1, <3>1, <3>2
    <2> QED
      BY <2>2, <2>3
  <1> HIDE DEF D
  <1> QED
    BY <1>4, <1>6, <1>7, SeqEqual

-----------------------------------------------------------------------------
(* The text of a sequence at some of its places. *)

Joining(s, places, h, i) ==
    IF i = 0 THEN <<>>
    ELSE IF i \in places THEN h[i - 1] \o s[i].data ELSE h[i - 1]

JoinsFrom(s, places, h) ==
    /\ h \in [0..Len(s) -> Text] /\ h[0] = <<>>
    /\ \A i \in 1..Len(s) : h[i] = IF i \in places THEN h[i - 1] \o s[i].data ELSE h[i - 1]

TextsAt(s, places) == \A i \in 1..Len(s) : i \in places => s[i].data \in Text

LEMMA TextAtTable ==
    ASSUME NEW S, NEW s \in Seq(S), NEW places, TextsAt(s, places)
    PROVE  \E h : JoinsFrom(s, places, h) /\ h[Len(s)] = TextAt(s, places)
  <1> DEFINE n == Len(s)
  <1> DEFINE step == [i \in 1..n |->
                         [v \in Text |-> IF i \in places THEN v \o s[i].data ELSE v]]
  <1>1. n \in Nat
    OBVIOUS
  <1>2. step \in [1..n -> [Text -> Text]]
    <2>1. \A i \in 1..n : \A v \in Text :
              (IF i \in places THEN v \o s[i].data ELSE v) \in Text
      BY ConcatTyped DEF TextsAt
    <2> QED
      BY <2>1
  <1>3. PICK h : /\ h \in [0..n -> Text] /\ h[0] = <<>>
                 /\ \A i \in 1..n : h[i] = step[i][h[i - 1]]
    <2> DEFINE base == <<>>
    <2>1. base \in Text
      BY EmptyText
    <2> HIDE DEF step, base, n
    <2>2. \E h : Recurs(n, Text, base, step, h)
      BY <1>1, <1>2, <2>1, Recursion
    <2> QED
      BY <2>2 DEF base, Recurs
  <1>4. ASSUME NEW i \in 1..n
        PROVE  h[i] = IF i \in places THEN h[i - 1] \o s[i].data ELSE h[i - 1]
    <2>1. i - 1 \in 0..n
      BY <1>1
    <2>2. h[i - 1] \in Text
      BY <2>1, <1>3
    <2>3. step[i][h[i - 1]] = IF i \in places THEN h[i - 1] \o s[i].data ELSE h[i - 1]
      BY <2>2
    <2> QED
      BY <1>3, <2>3
  <1>5. h = [i \in 0..n |-> Joining(s, places, h, i)]
    <2>1. \A i \in 0..n : h[i] = Joining(s, places, h, i)
      <3> SUFFICES ASSUME NEW i \in 0..n PROVE h[i] = Joining(s, places, h, i)
        OBVIOUS
      <3>1. CASE i = 0
        BY <1>3, <3>1 DEF Joining
      <3>2. CASE i # 0
        <4>1. i \in 1..n
          BY <1>1, <3>2
        <4> QED
          BY <1>4, <3>2, <4>1 DEF Joining
      <3> QED
        BY <3>1, <3>2
    <2>2. h = [i \in 0..n |-> h[i]]
      BY <1>3
    <2> QED
      BY <2>1, <2>2
  <1> DEFINE upTo == CHOOSE g : g = [i \in 0..Len(s) |-> Joining(s, places, g, i)]
  <1>6. upTo = [i \in 0..Len(s) |-> Joining(s, places, upTo, i)]
    BY <1>5
  <1>7. TextAt(s, places) = upTo[Len(s)]
    BY Zenon DEF TextAt, Joining
  <1> HIDE DEF upTo
  <1>8. \A i \in 0..n : upTo[i] = Joining(s, places, upTo, i)
    BY <1>6
  <1> DEFINE R == {k \in Nat : k <= n => upTo[k] = h[k]}
  <1>9. 0 \in R
    BY <1>1, <1>3, <1>8 DEF Joining
  <1>10. ASSUME NEW k \in R PROVE k + 1 \in R
    <2> SUFFICES ASSUME k + 1 <= n PROVE upTo[k + 1] = h[k + 1]
      OBVIOUS
    <2>1. k \in Nat /\ k + 1 \in 1..n /\ k + 1 \in 0..n /\ (k + 1) - 1 = k /\ k + 1 # 0
      BY <1>1
    <2>2. upTo[k] = h[k]
      BY <1>1, <2>1
    <2>3. upTo[k + 1] = IF k + 1 \in places THEN upTo[k] \o s[k + 1].data ELSE upTo[k]
      BY <1>8, <2>1 DEF Joining
    <2>4. h[k + 1] = IF k + 1 \in places THEN h[k] \o s[k + 1].data ELSE h[k]
      BY <1>4, <2>1
    <2> QED
      BY <2>2, <2>3, <2>4
  <1>11. R = Nat
    <2>1. R \in SUBSET Nat
      OBVIOUS
    <2> HIDE DEF R
    <2> QED
      BY <1>9, <1>10, <2>1, Induction
  <1>12. upTo[n] = h[n]
    BY <1>1, <1>11
  <1>13. JoinsFrom(s, places, h)
    BY <1>3, <1>4 DEF JoinsFrom
  <1> QED
    BY <1>7, <1>12, <1>13

LEMMA JoinsAgree ==
    ASSUME NEW S, NEW s \in Seq(S), NEW t \in Seq(S), NEW I, NEW J, NEW g, NEW h,
           JoinsFrom(s, I, g), JoinsFrom(t, J, h),
           NEW n \in Nat, n <= Len(s), n <= Len(t),
           \A i \in 1..n : s[i] = t[i] /\ (i \in I <=> i \in J)
    PROVE  g[n] = h[n]
  <1> DEFINE R == {k \in Nat : k <= n => g[k] = h[k]}
  <1>1. Len(s) \in Nat /\ Len(t) \in Nat
    OBVIOUS
  <1>2. 0 \in R
    BY DEF JoinsFrom
  <1>3. ASSUME NEW k \in R PROVE k + 1 \in R
    <2> SUFFICES ASSUME k + 1 <= n PROVE g[k + 1] = h[k + 1]
      OBVIOUS
    <2>1. /\ k \in Nat /\ k + 1 \in 1..n /\ k + 1 \in 1..Len(s) /\ k + 1 \in 1..Len(t)
          /\ (k + 1) - 1 = k /\ k <= n
      BY <1>1
    <2>2. g[k] = h[k]
      BY <2>1
    <2>3. g[k + 1] = IF k + 1 \in I THEN g[k] \o s[k + 1].data ELSE g[k]
      BY <2>1 DEF JoinsFrom
    <2>4. h[k + 1] = IF k + 1 \in J THEN h[k] \o t[k + 1].data ELSE h[k]
      BY <2>1 DEF JoinsFrom
    <2>5. s[k + 1] = t[k + 1] /\ (k + 1 \in I <=> k + 1 \in J)
      BY <2>1
    <2> QED
      BY <2>2, <2>3, <2>4, <2>5
  <1>4. R = Nat
    <2>1. R \in SUBSET Nat
      OBVIOUS
    <2> HIDE DEF R
    <2> QED
      BY <1>2, <1>3, <2>1, Induction
  <1> QED
    BY <1>4

LEMMA TextAtTyped ==
    ASSUME NEW S, NEW s \in Seq(S), NEW places, TextsAt(s, places)
    PROVE  TextAt(s, places) \in Text
  <1>1. PICK h : JoinsFrom(s, places, h) /\ h[Len(s)] = TextAt(s, places)
    BY TextAtTable
  <1>2. Len(s) \in 0..Len(s)
    OBVIOUS
  <1> QED
    BY <1>1, <1>2 DEF JoinsFrom

\* One more element, whose text counts or does not.
LEMMA TextAtAppend ==
    ASSUME NEW S, NEW s \in Seq(S), NEW x \in S, NEW I, NEW J,
           \A i \in 1..Len(s) : i \in I <=> i \in J,
           TextsAt(s, I), Len(s) + 1 \in J => x.data \in Text
    PROVE  /\ TextsAt(Append(s, x), J)
           /\ TextAt(Append(s, x), J)
                = IF Len(s) + 1 \in J THEN TextAt(s, I) \o x.data ELSE TextAt(s, I)
  <1> DEFINE t == Append(s, x)
  <1> DEFINE n == Len(s)
  <1>1. /\ t \in Seq(S) /\ Len(t) = n + 1 /\ n \in Nat /\ t[n + 1] = x
        /\ \A i \in 1..n : t[i] = s[i]
    BY AppendProperties
  <1> HIDE DEF t
  <1>2. TextsAt(t, J)
    <2> SUFFICES ASSUME NEW i \in 1..Len(t), i \in J PROVE t[i].data \in Text
      BY DEF TextsAt
    <2>1. i = n + 1 \/ i \in 1..n
      BY <1>1
    <2> QED
      BY <1>1, <2>1 DEF TextsAt
  <1>3. PICK g : JoinsFrom(s, I, g) /\ g[n] = TextAt(s, I)
    BY TextAtTable
  <1>4. PICK h : JoinsFrom(t, J, h) /\ h[Len(t)] = TextAt(t, J)
    BY <1>1, <1>2, TextAtTable
  <1>5. g[n] = h[n]
    BY <1>1, <1>3, <1>4, JoinsAgree
  <1>6. h[n + 1] = IF n + 1 \in J THEN h[n] \o t[n + 1].data ELSE h[n]
    <2>1. n + 1 \in 1..Len(t) /\ (n + 1) - 1 = n
      BY <1>1
    <2>2. \A i \in 1..Len(t) : h[i] = IF i \in J THEN h[i - 1] \o t[i].data ELSE h[i - 1]
      BY <1>4 DEF JoinsFrom
    <2> QED
      BY <2>1, <2>2
  <1>7. TextAt(t, J) = IF n + 1 \in J THEN TextAt(s, I) \o x.data ELSE TextAt(s, I)
    BY <1>1, <1>3, <1>4, <1>5, <1>6
  <1> QED
    BY <1>2, <1>7 DEF t

LEMMA TextAtEmpty == \A places : TextsAt(<<>>, places) /\ TextAt(<<>>, places) = <<>>
  <1> SUFFICES ASSUME NEW places PROVE TextsAt(<<>>, places) /\ TextAt(<<>>, places) = <<>>
    OBVIOUS
  <1>1. <<>> \in Seq({}) /\ Len(<<>>) = 0
    OBVIOUS
  <1>2. TextsAt(<<>>, places)
    BY <1>1 DEF TextsAt
  <1>3. PICK h : JoinsFrom(<<>>, places, h) /\ h[Len(<<>>)] = TextAt(<<>>, places)
    BY <1>1, <1>2, TextAtTable
  <1> QED
    BY <1>1, <1>2, <1>3 DEF JoinsFrom

-----------------------------------------------------------------------------
(* The events on their way one after the other. *)

Passing(start, events, h, i) == IF i = 0 THEN start ELSE Pass(h[i - 1], events[i])

Passes(start, events, h) ==
    h[0] = start /\ \A i \in 1..Len(events) : h[i] = Pass(h[i - 1], events[i])

LEMMA PassTable ==
    ASSUME NEW start, NEW events, Len(events) \in Nat
    PROVE  \E h : Passes(start, events, h) /\ h[Len(events)] = PassAll(start, events)
  <1> DEFINE n == Len(events)
  <1> DEFINE Table(h, k) == h = [i \in 0..k |-> Passing(start, events, h, i)]
  <1> DEFINE Good(k) == \E h : Table(h, k)
  <1> DEFINE R == {k \in Nat : Good(k)}
  <1>1. 0 \in R
    <2> DEFINE h0 == [i \in 0..0 |-> start]
    <2>1. h0 = [i \in 0..0 |-> Passing(start, events, h0, i)]
      BY DEF Passing
    <2>2. Good(0)
      BY <2>1
    <2> HIDE DEF Good
    <2> QED
      BY <2>2
  <1>2. ASSUME NEW k \in R
        PROVE  k + 1 \in R
    <2>1. k \in Nat /\ Good(k)
      <3> HIDE DEF Good
      <3> QED
        OBVIOUS
    <2>2. PICK h : Table(h, k)
      BY <2>1
    <2> DEFINE g == [i \in 0..(k + 1) |-> IF i = k + 1 THEN Pass(h[k], events[k + 1]) ELSE h[i]]
    <2>3. \A i \in 0..k : h[i] = Passing(start, events, h, i)
      BY <2>2
    <2>4. \A i \in 0..(k + 1) : g[i] = Passing(start, events, g, i)
      <3> SUFFICES ASSUME NEW i \in 0..(k + 1) PROVE g[i] = Passing(start, events, g, i)
        OBVIOUS
      <3>1. CASE i = k + 1
        <4>1. i # 0 /\ i - 1 = k /\ k \in 0..(k + 1) /\ k # k + 1
          BY <2>1, <3>1
        <4>2. g[i - 1] = h[k] /\ g[i] = Pass(h[k], events[k + 1])
          BY <3>1, <4>1
        <4> HIDE DEF g
        <4> QED
          BY <3>1, <4>1, <4>2 DEF Passing
      <3>2. CASE i # k + 1
        <4>1. i \in 0..k /\ g[i] = h[i]
          BY <2>1, <3>2
        <4>2. i # 0 => i - 1 \in 0..(k + 1) /\ i - 1 # k + 1 /\ g[i - 1] = h[i - 1]
          BY <2>1, <4>1
        <4> HIDE DEF g
        <4>3. h[i] = Passing(start, events, h, i)
          BY <2>3, <4>1
        <4> QED
          BY <4>1, <4>2, <4>3 DEF Passing
      <3> QED
        BY <3>1, <3>2
    <2>5. g = [i \in 0..(k + 1) |-> g[i]]
      OBVIOUS
    <2> HIDE DEF g
    <2>6. g = [i \in 0..(k + 1) |-> Passing(start, events, g, i)]
      BY <2>4, <2>5
    <2>7. Good(k + 1)
      BY <2>6
    <2> HIDE DEF Good
    <2> QED
      BY <2>1, <2>7
  <1>3. R = Nat
    <2>1. R \in SUBSET Nat
      OBVIOUS
    <2> HIDE DEF R
    <2> QED
      BY <1>1, <1>2, <2>1, Induction
  <1>4. Good(n)
    <2> HIDE DEF Good
    <2> QED
      BY <1>3
  <1> DEFINE after == CHOOSE h : h = [i \in 0..Len(events) |-> Passing(start, events, h, i)]
  <1>5. after = [i \in 0..Len(events) |-> Passing(start, events, after, i)]
    BY <1>4
  <1>6. PassAll(start, events) = after[Len(events)]
    BY Zenon DEF PassAll, Passing
  <1> HIDE DEF after
  <1>7. \A i \in 0..n : after[i] = Passing(start, events, after, i)
    BY <1>5
  <1>8. Passes(start, events, after)
    <2>1. after[0] = start
      BY <1>7 DEF Passing
    <2>2. ASSUME NEW i \in 1..n PROVE after[i] = Pass(after[i - 1], events[i])
      <3>1. i \in 0..n /\ i # 0
        OBVIOUS
      <3> QED
        BY <1>7, <3>1 DEF Passing
    <2> QED
      BY <2>1, <2>2 DEF Passes
  <1> QED
    BY <1>6, <1>8

\* What each event takes from one of the sets to the next, all of them take
\* from the first to the last.
LEMMA PassAllKeeps ==
    ASSUME NEW start, NEW events, Len(events) \in Nat, NEW J, start \in J[0],
           \A i \in 1..Len(events) : \A acc \in J[i - 1] : Pass(acc, events[i]) \in J[i]
    PROVE  PassAll(start, events) \in J[Len(events)]
  <1> DEFINE n == Len(events)
  <1>1. PICK h : Passes(start, events, h) /\ h[n] = PassAll(start, events)
    BY PassTable
  <1> DEFINE R == {k \in Nat : k <= n => h[k] \in J[k]}
  <1>2. 0 \in R
    BY <1>1 DEF Passes
  <1>3. ASSUME NEW k \in R PROVE k + 1 \in R
    <2> SUFFICES ASSUME k + 1 <= n PROVE h[k + 1] \in J[k + 1]
      OBVIOUS
    <2>1. k + 1 \in 1..n /\ (k + 1) - 1 = k /\ k <= n
      OBVIOUS
    <2>2. h[k] \in J[k]
      BY <2>1
    <2>3. h[k + 1] = Pass(h[k], events[k + 1])
      BY <1>1, <2>1 DEF Passes
    <2> QED
      BY <2>1, <2>2, <2>3
  <1>4. R = Nat
    <2>1. R \in SUBSET Nat
      OBVIOUS
    <2> HIDE DEF R
    <2> QED
      BY <1>2, <1>3, <2>1, Induction
  <1> QED
    BY <1>1, <1>4

LEMMA PassAllConcat ==
    ASSUME NEW start, NEW E, NEW a \in Seq(E), NEW b \in Seq(E)
    PROVE  PassAll(start, a \o b) = PassAll(PassAll(start, a), b)
  <1> DEFINE m == Len(a)
  <1> DEFINE n == Len(b)
  <1>1. /\ m \in Nat /\ n \in Nat /\ Len(a \o b) = m + n
        /\ \A i \in 1..m : (a \o b)[i] = a[i]
        /\ \A i \in 1..n : (a \o b)[m + i] = b[i]
    <2>1. /\ Len(a \o b) = Len(a) + Len(b)
          /\ \A i \in 1..(Len(a) + Len(b)) :
                (a \o b)[i] = IF i <= Len(a) THEN a[i] ELSE b[i - Len(a)]
      BY ConcatProperties
    <2>2. m \in Nat /\ n \in Nat
      OBVIOUS
    <2>3. ASSUME NEW i \in 1..n PROVE (a \o b)[m + i] = b[i]
      <3>1. m + i \in 1..(Len(a) + Len(b)) /\ ~(m + i <= Len(a)) /\ (m + i) - Len(a) = i
        BY <2>2
      <3> QED
        BY <2>1, <3>1
    <2>4. ASSUME NEW i \in 1..m PROVE (a \o b)[i] = a[i]
      <3>1. i \in 1..(Len(a) + Len(b)) /\ i <= Len(a)
        BY <2>2
      <3> QED
        BY <2>1, <3>1
    <2> QED
      BY <2>1, <2>2, <2>3, <2>4
  <1>2. PICK g : Passes(start, a, g) /\ g[m] = PassAll(start, a)
    BY <1>1, PassTable
  <1> DEFINE middle == PassAll(start, a)
  <1>3. PICK h : Passes(middle, b, h) /\ h[n] = PassAll(middle, b)
    BY <1>1, PassTable
  <1> DEFINE ab == a \o b
  <1> DEFINE J == [i \in 0..(m + n) |-> IF i <= m THEN {g[i]} ELSE {h[i - m]}]
  <1>4. \A i \in 0..m : J[i] = {g[i]}
    BY <1>1
  <1>5. \A i \in 0..n : J[m + i] = {h[i]}
    <2> SUFFICES ASSUME NEW i \in 0..n PROVE J[m + i] = {h[i]}
      OBVIOUS
    <2>1. m + i \in 0..(m + n) /\ (m + i) - m = i /\ (m + i <= m => i = 0 /\ m + i = m)
      BY <1>1
    <2>2. h[0] = g[m]
      BY <1>2, <1>3 DEF Passes
    <2> QED
      BY <2>1, <2>2
  <1> HIDE DEF J, ab
  <1>6. start \in J[0]
    BY <1>1, <1>2, <1>4 DEF Passes
  <1>7. ASSUME NEW i \in 1..(m + n), NEW acc \in J[i - 1]
        PROVE  Pass(acc, ab[i]) \in J[i]
    <2>1. CASE i <= m
      <3>1. i \in 1..m /\ i \in 0..m /\ i - 1 \in 0..m
        BY <1>1, <2>1
      <3>2. acc = g[i - 1] /\ J[i] = {g[i]} /\ ab[i] = a[i]
        BY <1>1, <1>4, <1>7, <3>1 DEF ab
      <3> QED
        BY <1>2, <3>1, <3>2 DEF Passes
    <2>2. CASE ~(i <= m)
      <3> DEFINE j == i - m
      <3>1. j \in 1..n /\ j \in 0..n /\ j - 1 \in 0..n /\ m + j = i /\ m + (j - 1) = i - 1
        BY <1>1, <2>2
      <3> HIDE DEF j
      <3>2. acc = h[j - 1] /\ J[i] = {h[j]} /\ ab[i] = b[j]
        BY <1>1, <1>5, <1>7, <3>1 DEF ab
      <3> QED
        BY <1>3, <3>1, <3>2 DEF Passes
    <2> QED
      BY <2>1, <2>2
  <1>8. Len(ab) = m + n /\ m + n \in Nat
    BY <1>1 DEF ab
  <1>9. PassAll(start, ab) \in J[Len(ab)]
    <2>1. Len(ab) \in Nat
      BY <1>8
    <2>2. \A i \in 1..Len(ab) : \A acc \in J[i - 1] : Pass(acc, ab[i]) \in J[i]
      BY <1>7, <1>8
    <2> HIDE DEF m, n
    <2> QED
      BY <1>6, <2>1, <2>2, PassAllKeeps
  <1>10. J[m + n] = {h[n]}
    BY <1>1, <1>5
  <1> QED
    BY <1>3, <1>8, <1>9, <1>10 DEF ab

\* A few events, one after the other.
LEMMA PassAllThree ==
    ASSUME NEW start, NEW e1, NEW e2, NEW e3
    PROVE  PassAll(start, <<e1, e2, e3>>) = Pass(Pass(Pass(start, e1), e2), e3)
  <1> DEFINE es == <<e1, e2, e3>>
  <1>1. Len(es) = 3 /\ es[1] = e1 /\ es[2] = e2 /\ es[3] = e3
    OBVIOUS
  <1> HIDE DEF es
  <1>2. PICK h : Passes(start, es, h) /\ h[Len(es)] = PassAll(start, es)
    BY <1>1, PassTable
  <1>3. /\ h[0] = start /\ h[1] = Pass(h[1 - 1], es[1]) /\ h[2] = Pass(h[2 - 1], es[2])
        /\ h[3] = Pass(h[3 - 1], es[3])
    BY <1>1, <1>2 DEF Passes
  <1> QED
    BY <1>1, <1>2, <1>3 DEF es

LEMMA PassAllTwo ==
    ASSUME NEW start, NEW e1, NEW e2
    PROVE  PassAll(start, <<e1, e2>>) = Pass(Pass(start, e1), e2)
  <1> DEFINE es == <<e1, e2>>
  <1>1. Len(es) = 2 /\ es[1] = e1 /\ es[2] = e2
    OBVIOUS
  <1> HIDE DEF es
  <1>2. PICK h : Passes(start, es, h) /\ h[Len(es)] = PassAll(start, es)
    BY <1>1, PassTable
  <1>3. h[0] = start /\ h[1] = Pass(h[1 - 1], es[1]) /\ h[2] = Pass(h[2 - 1], es[2])
    BY <1>1, <1>2 DEF Passes
  <1> QED
    BY <1>1, <1>2, <1>3 DEF es

LEMMA PassAllFew ==
    ASSUME NEW start
    PROVE  /\ PassAll(start, <<>>) = start
           /\ \A e1 : PassAll(start, <<e1>>) = Pass(start, e1)
           /\ \A e1, e2 : PassAll(start, <<e1, e2>>) = Pass(Pass(start, e1), e2)
  <1>1. PassAll(start, <<>>) = start
    <2>1. Len(<<>>) = 0
      OBVIOUS
    <2>2. PICK h : Passes(start, <<>>, h) /\ h[Len(<<>>)] = PassAll(start, <<>>)
      BY <2>1, PassTable
    <2> QED
      BY <2>1, <2>2 DEF Passes
  <1>2. ASSUME NEW e1 PROVE PassAll(start, <<e1>>) = Pass(start, e1)
    <2> DEFINE es == <<e1>>
    <2>1. Len(es) = 1 /\ es[1] = e1
      OBVIOUS
    <2> HIDE DEF es
    <2>2. PICK h : Passes(start, es, h) /\ h[Len(es)] = PassAll(start, es)
      BY <2>1, PassTable
    <2>3. h[0] = start /\ h[1] = Pass(h[1 - 1], es[1])
      BY <2>1, <2>2 DEF Passes
    <2> QED
      BY <2>1, <2>2, <2>3 DEF es
  <1> QED
    BY <1>1, <1>2, PassAllTwo

-----------------------------------------------------------------------------
(* What the client has received, and one message more. *)

IsSeq(s) == s \in Seq({s[i] : i \in DOMAIN s})

LEMMA IsSeqAppend ==
    ASSUME NEW s, IsSeq(s), NEW x
    PROVE  /\ IsSeq(Append(s, x)) /\ Append(s, x) = s \o <<x>>
           /\ \E S : s \in Seq(S) /\ x \in S
           /\ Len(s) \in Nat /\ DOMAIN s = 1..Len(s)
           /\ Len(Append(s, x)) = Len(s) + 1 /\ DOMAIN Append(s, x) = 1..(Len(s) + 1)
           /\ Append(s, x)[Len(s) + 1] = x /\ \A i \in 1..Len(s) : Append(s, x)[i] = s[i]
  <1> DEFINE A == {s[i] : i \in DOMAIN s}
  <1> DEFINE S == A \cup {x}
  <1> DEFINE t == Append(s, x)
  <1> DEFINE one == <<x>>
  <1>1. s \in Seq(A) /\ A \subseteq S
    BY DEF IsSeq
  <1> HIDE DEF A
  <1>2. s \in Seq(S) /\ x \in S
    BY <1>1
  <1> HIDE DEF S
  <1>3. /\ t \in Seq(S) /\ Len(t) = Len(s) + 1 /\ t[Len(s) + 1] = x /\ Len(s) \in Nat
        /\ \A i \in 1..Len(s) : t[i] = s[i]
    BY <1>2, AppendProperties
  <1>4. DOMAIN s = 1..Len(s) /\ DOMAIN t = 1..(Len(s) + 1)
    BY <1>2, <1>3, LenProperties
  <1>5. t \in Seq({t[i] : i \in DOMAIN t})
    <2> HIDE DEF t
    <2> DEFINE T == {t[i] : i \in DOMAIN t}
    <2>1. t = [i \in 1..Len(t) |-> t[i]] /\ \A i \in 1..Len(t) : t[i] \in T
      BY <1>3, <1>4
    <2> HIDE DEF T
    <2>2. t \in Seq(T)
      BY <1>3, <2>1
    <2> QED
      BY <2>2 DEF T
  <1>6. t = s \o one
    <2>1. one \in Seq(S) /\ Len(one) = 1 /\ one[1] = x
      BY <1>2
    <2> HIDE DEF one
    <2>2. /\ s \o one \in Seq(S) /\ Len(s \o one) = Len(s) + Len(one)
          /\ \A i \in 1..(Len(s) + Len(one)) :
                (s \o one)[i] = IF i <= Len(s) THEN s[i] ELSE one[i - Len(s)]
      BY <1>2, <2>1, ConcatProperties
    <2>3. \A i \in 1..Len(t) : t[i] = (s \o one)[i]
      BY <1>3, <2>1, <2>2
    <2> HIDE DEF t
    <2> QED
      BY <1>3, <2>1, <2>2, <2>3, SeqEqual
  <1>7. IsSeq(t)
    BY <1>5 DEF IsSeq
  <1>8. \E X : s \in Seq(X) /\ x \in X
    BY <1>2
  <1> QED
    BY <1>3, <1>4, <1>6, <1>7, <1>8

\* t is the sequence s with x at its end.
Grown(t, s, x) ==
    /\ IsSeq(t) /\ Len(s) \in Nat /\ DOMAIN s = 1..Len(s)
    /\ Len(t) = Len(s) + 1 /\ DOMAIN t = 1..(Len(s) + 1)
    /\ t[Len(s) + 1] = x /\ \A i \in 1..Len(s) : t[i] = s[i]

\* What a leaf needs of Append, in one fact.
LEMMA AppendGrows ==
    ASSUME NEW s, IsSeq(s), NEW x
    PROVE  Grown(Append(s, x), s, x)
  <1>1. PICK t : t = Append(s, x)
    OBVIOUS
  <1>2. IsSeq(t)
    BY <1>1, IsSeqAppend
  <1>3. Len(s) \in Nat /\ DOMAIN s = 1..Len(s)
    BY IsSeqAppend
  <1>4. Len(t) = Len(s) + 1 /\ DOMAIN t = 1..(Len(s) + 1)
    BY <1>1, IsSeqAppend
  <1>5. t[Len(s) + 1] = x
    BY <1>1, IsSeqAppend
  <1>6. \A i \in 1..Len(s) : t[i] = s[i]
    BY <1>1, IsSeqAppend
  <1>7. Grown(t, s, x)
    BY <1>2, <1>3, <1>4, <1>5, <1>6 DEF Grown
  <1> QED
    BY <1>1, <1>7

LEMMA IsSeqFew ==
    /\ IsSeq(<<>>)
    /\ \A x : IsSeq(<<x>>)
    /\ \A x, y : IsSeq(<<x, y>>) /\ Append(<<x>>, y) = <<x, y>>
    /\ \A s : IsSeq(s) => s \o <<>> = s
  <1>1. IsSeq(<<>>)
    BY DEF IsSeq
  <1>2. ASSUME NEW s, IsSeq(s) PROVE s \o <<>> = s
    BY <1>2, ConcatEmptySeq DEF IsSeq
  <1>3. ASSUME NEW x PROVE IsSeq(<<x>>) /\ Append(<<>>, x) = <<x>>
    <2>1. IsSeq(Append(<<>>, x)) /\ Append(<<>>, x) = <<>> \o <<x>>
      BY <1>1, IsSeqAppend
    <2>2. Append(<<>>, x) = <<x>>
      OBVIOUS
    <2> QED
      BY <2>1, <2>2
  <1>4. ASSUME NEW x, NEW y PROVE IsSeq(<<x, y>>) /\ Append(<<x>>, y) = <<x, y>>
    <2>1. IsSeq(Append(<<x>>, y))
      BY <1>3, IsSeqAppend
    <2>2. Append(<<x>>, y) = <<x, y>>
      <3> DEFINE S == {x, y}
      <3> DEFINE one == <<x>>
      <3> DEFINE two == <<x, y>>
      <3>1. /\ one \in Seq(S) /\ two \in Seq(S) /\ y \in S /\ Len(one) = 1 /\ Len(two) = 2
            /\ one[1] = x /\ two[1] = x /\ two[2] = y
        OBVIOUS
      <3> HIDE DEF one, two, S
      <3>2a. /\ Append(one, y) \in Seq(S) /\ Len(Append(one, y)) = Len(one) + 1
             /\ Append(one, y)[Len(one) + 1] = y
             /\ \A i \in 1..Len(one) : Append(one, y)[i] = one[i]
        <4>1. one \in Seq(S) /\ y \in S
          BY <3>1
        <4> QED
          BY <4>1, AppendProperties
      <3>2b. Len(one) + 1 = 2 /\ 1 \in 1..Len(one)
        BY <3>1
      <3>2. /\ Append(one, y) \in Seq(S) /\ Len(Append(one, y)) = 2
            /\ Append(one, y)[1] = x /\ Append(one, y)[2] = y
        BY <3>1, <3>2a, <3>2b
      <3>3. \A i \in 1..Len(two) : two[i] = Append(one, y)[i]
        BY <3>1, <3>2
      <3>4. two = Append(one, y)
        BY <3>1, <3>2, <3>3, SeqEqual
      <3> QED
        BY <3>4 DEF one, two
    <2> QED
      BY <2>1, <2>2
  <1>5. \A x : IsSeq(<<x>>)
    BY <1>3
  <1>6. \A x, y : IsSeq(<<x, y>>) /\ Append(<<x>>, y) = <<x, y>>
    BY <1>4
  <1>7. \A s : IsSeq(s) => s \o <<>> = s
    BY <1>2
  <1> QED
    BY <1>1, <1>5, <1>6, <1>7

LEMMA AppendTwo ==
    ASSUME NEW s, IsSeq(s), NEW x, NEW y
    PROVE  s \o <<x, y>> = Append(Append(s, x), y)
  <1> DEFINE A == {s[i] : i \in DOMAIN s}
  <1> DEFINE S == (A \cup {x}) \cup {y}
  <1>1. s \in Seq(A)
    BY DEF IsSeq
  <1>2. s \in Seq(S) /\ x \in S /\ y \in S
    <2> HIDE DEF A
    <2> QED
      BY <1>1
  <1> HIDE DEF S
  <1>3. <<x>> \in Seq(S) /\ <<y>> \in Seq(S)
    BY <1>2
  <1>4. (s \o <<x>>) \o <<y>> = s \o (<<x>> \o <<y>>)
    BY <1>2, <1>3, ConcatAssociative
  <1>5. <<x>> \o <<y>> = <<x, y>>
    BY IsSeqFew, IsSeqAppend
  <1>6. Append(s, x) = s \o <<x>> /\ IsSeq(Append(s, x))
    BY IsSeqAppend
  <1>7. Append(Append(s, x), y) = (s \o <<x>>) \o <<y>>
    BY <1>6, IsSeqAppend
  <1> QED
    BY <1>4, <1>5, <1>7

TextPlaces(c) == {i \in DOMAIN c : TextMessage(c[i])}
ClientText(c) == TextAt(c, TextPlaces(c))

\* One message more adds its text, if it has one.
LEMMA ClientTextAppend ==
    ASSUME NEW c, IsSeq(c), TextsAt(c, TextPlaces(c)), NEW m, TextMessage(m) => m.data \in Text
    PROVE  /\ IsSeq(Append(c, m)) /\ TextsAt(Append(c, m), TextPlaces(Append(c, m)))
           /\ ClientText(Append(c, m)) = IF TextMessage(m) THEN ClientText(c) \o m.data
                                         ELSE ClientText(c)
  <1> DEFINE d == Append(c, m)
  <1>1. /\ IsSeq(d) /\ Len(c) \in Nat /\ DOMAIN c = 1..Len(c)
        /\ DOMAIN d = 1..(Len(c) + 1) /\ d[Len(c) + 1] = m
        /\ \A i \in 1..Len(c) : d[i] = c[i]
    <2>1. Grown(d, c, m)
      BY AppendGrows
    <2> HIDE DEF d
    <2> QED
      BY <2>1 DEF Grown
  <1>2. PICK S : c \in Seq(S) /\ m \in S
    BY IsSeqAppend
  <1> HIDE DEF d
  <1>3. \A i \in 1..Len(c) : i \in TextPlaces(c) <=> i \in TextPlaces(d)
    BY <1>1 DEF TextPlaces
  <1>4. Len(c) + 1 \in TextPlaces(d) <=> TextMessage(m)
    BY <1>1 DEF TextPlaces
  <1>5. Len(c) + 1 \in TextPlaces(d) => m.data \in Text
    BY <1>4
  <1>6. /\ TextsAt(Append(c, m), TextPlaces(d))
        /\ TextAt(Append(c, m), TextPlaces(d))
             = IF Len(c) + 1 \in TextPlaces(d) THEN TextAt(c, TextPlaces(c)) \o m.data
               ELSE TextAt(c, TextPlaces(c))
    BY <1>2, <1>3, <1>5, TextAtAppend
  <1> QED
    BY <1>1, <1>4, <1>6 DEF d, ClientText

\* Messages that carry no text of the provider's.
Quiet(ms) ==
    \/ ms = <<>>
    \/ \E m : ms = <<m>> /\ ~TextMessage(m)
    \/ \E m, n : ms = <<m, n>> /\ ~TextMessage(m) /\ ~TextMessage(n)

LEMMA QuietAppend ==
    ASSUME NEW c, IsSeq(c), TextsAt(c, TextPlaces(c)), NEW ms, Quiet(ms)
    PROVE  /\ IsSeq(c \o ms) /\ TextsAt(c \o ms, TextPlaces(c \o ms))
           /\ ClientText(c \o ms) = ClientText(c)
  <1>1. CASE ms = <<>>
    BY <1>1, IsSeqFew
  <1>2. ASSUME NEW m, ms = <<m>>, ~TextMessage(m)
        PROVE  /\ IsSeq(c \o ms) /\ TextsAt(c \o ms, TextPlaces(c \o ms))
               /\ ClientText(c \o ms) = ClientText(c)
    <2>1. c \o ms = Append(c, m)
      BY <1>2, IsSeqAppend
    <2> QED
      BY <1>2, <2>1, ClientTextAppend
  <1>3. ASSUME NEW m, NEW n, ms = <<m, n>>, ~TextMessage(m), ~TextMessage(n)
        PROVE  /\ IsSeq(c \o ms) /\ TextsAt(c \o ms, TextPlaces(c \o ms))
               /\ ClientText(c \o ms) = ClientText(c)
    <2>1. c \o ms = Append(Append(c, m), n)
      BY <1>3, AppendTwo
    <2> DEFINE d == Append(c, m)
    <2>2. IsSeq(d) /\ TextsAt(d, TextPlaces(d)) /\ ClientText(d) = ClientText(c)
      BY <1>3, ClientTextAppend
    <2> HIDE DEF d
    <2>3. /\ IsSeq(Append(d, n)) /\ TextsAt(Append(d, n), TextPlaces(Append(d, n)))
          /\ ClientText(Append(d, n)) = ClientText(d)
      BY <1>3, <2>2, ClientTextAppend
    <2> QED
      BY <2>1, <2>2, <2>3 DEF d
  <1> QED
    BY <1>1, <1>2, <1>3 DEF Quiet

-----------------------------------------------------------------------------
(* The text on its way through the warden. *)

\* All of text but what is held in buf has been shown, restored.
ShownUpTo(wd, shown, text, buf) ==
    \E a \in Text : /\ text = a \o buf
                    /\ shown = (IF wd THEN Resolve(a) ELSE a)
                    /\ IF wd THEN CleanCut(a, buf) ELSE buf = <<>>

Fed(buf, chunk) == IF warden THEN Feed(buf, chunk) ELSE [out |-> chunk, held |-> buf]

LEMMA FedShown ==
    ASSUME NEW buf \in Text, NEW chunk \in Text, NEW shown, NEW text,
           ShownUpTo(warden, shown, text, buf), Len(buf) <= MaxTokenBytes
    PROVE  /\ Fed(buf, chunk).out \in Text
           /\ Fed(buf, chunk).held \in Text /\ Len(Fed(buf, chunk).held) <= MaxTokenBytes
           /\ ShownUpTo(warden, shown \o Fed(buf, chunk).out, text \o chunk, Fed(buf, chunk).held)
  <1>1. PICK a \in Text : /\ text = a \o buf
                          /\ shown = (IF warden THEN Resolve(a) ELSE a)
                          /\ IF warden THEN CleanCut(a, buf) ELSE buf = <<>>
    BY DEF ShownUpTo
  <1>2. CASE ~warden
    <2>1. Fed(buf, chunk).out = chunk /\ Fed(buf, chunk).held = buf
      BY <1>2 DEF Fed
    <2>2. text \o chunk = (a \o chunk) \o buf /\ a \o chunk \in Text
      <3>1. a \o chunk \in Text
        BY ConcatTyped
      <3>2. (a \o chunk) \o buf = a \o chunk /\ a \o buf = a
        BY <1>1, <1>2, <3>1, EmptyText
      <3> QED
        BY <1>1, <3>1, <3>2
    <2>3. shown \o chunk = a \o chunk
      BY <1>1, <1>2
    <2> QED
      BY <1>1, <1>2, <2>1, <2>2, <2>3 DEF ShownUpTo
  <1>3. CASE warden
    <2> DEFINE r == Feed(buf, chunk)
    <2>1. Fed(buf, chunk) = r
      BY <1>3 DEF Fed
    <2>2. Drained(buf \o chunk, r)
      BY FeedClean
    <2> HIDE DEF r
    <2>3. r.out \in Text /\ r.held \in Text /\ Len(r.held) <= MaxTokenBytes
      BY <2>2 DEF Drained
    <2>4. PICK p \in Text : /\ buf \o chunk = p \o r.held /\ r.out = Resolve(p)
                            /\ CleanCut(p, r.held)
      BY <2>2 DEF Drained
    <2>5. CleanCut(a, buf \o chunk)
      BY <1>1, <1>3, CleanCutBasics
    <2>6. CleanCut(a \o p, r.held) /\ Resolve(a \o p) = Resolve(a) \o Resolve(p)
      BY <2>3, <2>4, <2>5, CleanCutConcat
    <2>7. text \o chunk = (a \o p) \o r.held
      <3>1. text \o chunk = a \o (buf \o chunk)
        BY <1>1, Associative
      <3>2. a \o (p \o r.held) = (a \o p) \o r.held
        <4>1. Regroups(a, p, r.held)
          BY <2>3, TextsRegroup, Zenon
        <4> QED
          BY <4>1, Zenon DEF Regroups
      <3> QED
        BY <2>4, <3>1, <3>2, Zenon
    <2>8. a \o p \in Text
      BY ConcatTyped
    <2>9. shown \o r.out = Resolve(a \o p)
      BY <1>1, <1>3, <2>4, <2>6
    <2>10. ShownUpTo(warden, shown \o r.out, text \o chunk, r.held)
      BY <1>3, <2>6, <2>7, <2>8, <2>9 DEF ShownUpTo
    <2> QED
      BY <2>1, <2>3, <2>10
  <1> QED
    BY <1>2, <1>3

\* The beginning: nothing sent, nothing held, nothing shown.
LEMMA ShownBegins == ShownUpTo(warden, <<>>, <<>>, <<>>)
  <1>1. Resolve(<<>>) = <<>>
    BY ResolveTyped
  <1>2. <<>> \in Text /\ <<>> = <<>> \o <<>> /\ CleanCut(<<>>, <<>>)
    BY EmptyText, CleanCutBasics
  <1> QED
    BY <1>1, <1>2 DEF ShownUpTo

\* What is shown and what is held, restored, are all of the text, restored.
LEMMA ShownAndHeld ==
    ASSUME NEW shown, NEW text, NEW buf \in Text, ShownUpTo(warden, shown, text, buf)
    PROVE  /\ shown \o (IF warden THEN Resolve(buf) ELSE <<>>)
                = (IF warden THEN Resolve(text) ELSE text)
           /\ text \in Text /\ shown \in Text
  <1>1. PICK a \in Text : /\ text = a \o buf
                          /\ shown = (IF warden THEN Resolve(a) ELSE a)
                          /\ IF warden THEN CleanCut(a, buf) ELSE buf = <<>>
    BY DEF ShownUpTo
  <1>2. text \in Text
    BY <1>1, ConcatTyped
  <1>3. CASE ~warden
    BY <1>1, <1>2, <1>3, EmptyText
  <1>4. CASE warden
    <2>1. Resolve(a \o buf) = Resolve(a) \o Resolve(buf)
      BY <1>1, <1>4, CleanCutBasics
    <2>2. Resolve(a) \in Text
      BY ResolveTyped
    <2> QED
      BY <1>1, <1>2, <1>4, <2>1, <2>2
  <1> QED
    BY <1>3, <1>4

-----------------------------------------------------------------------------
(* One event, and the text it carries. *)

TextKinds == {"text_delta", "reasoning_delta"}

\* The Responses writer's bookkeeping.
Triple(cur, index, usage) == [cur |-> cur, index |-> index, usage |-> usage]
ResponsesShape(w) == w \in [cur : {w.cur}, index : {w.index}, usage : {w.usage}]

LEMMA TripleIs ==
    ASSUME NEW cur, NEW index, NEW usage
    PROVE  /\ Triple(cur, index, usage).cur = cur
           /\ Triple(cur, index, usage).index = index
           /\ Triple(cur, index, usage).usage = usage
           /\ ResponsesShape(Triple(cur, index, usage))
  BY DEF Triple, ResponsesShape

LEMMA TripleExcept ==
    ASSUME NEW w, ResponsesShape(w)
    PROVE  /\ \A x : [w EXCEPT !.cur = x] = Triple(x, w.index, w.usage)
           /\ \A x : [w EXCEPT !.usage = x] = Triple(w.cur, w.index, x)
           /\ \A x : [w EXCEPT !.cur = x, !.index = @ + 1] = Triple(x, w.index + 1, w.usage)
  <1>1. ASSUME NEW x PROVE [w EXCEPT !.cur = x] = Triple(x, w.index, w.usage)
    BY DEF Triple, ResponsesShape
  <1>2. ASSUME NEW x PROVE [w EXCEPT !.usage = x] = Triple(w.cur, w.index, x)
    BY DEF Triple, ResponsesShape
  <1>3. ASSUME NEW x
        PROVE  [w EXCEPT !.cur = x, !.index = @ + 1] = Triple(x, w.index + 1, w.usage)
    <2> DEFINE v == [w EXCEPT !.cur = x]
    <2>1. v \in [cur : {x}, index : {w.index}, usage : {w.usage}]
      BY DEF ResponsesShape
    <2>2. [w EXCEPT !.cur = x, !.index = @ + 1] = [v EXCEPT !.index = w.index + 1]
      OBVIOUS
    <2> HIDE DEF v
    <2> QED
      BY <2>1, <2>2 DEF Triple
  <1>4. \A x : [w EXCEPT !.cur = x] = Triple(x, w.index, w.usage)
    BY <1>1
  <1>5. \A x : [w EXCEPT !.usage = x] = Triple(w.cur, w.index, x)
    BY <1>2
  <1>6. \A x : [w EXCEPT !.cur = x, !.index = @ + 1] = Triple(x, w.index + 1, w.usage)
    BY <1>3, Zenon
  <1> QED
    BY <1>4, <1>5, <1>6

\* text: what the events have carried so far; inText: a block with text is open.
TextK(d, wd, acc, text, inText) ==
    /\ acc.held \in Text /\ Len(acc.held) <= MaxTokenBytes
    /\ IsSeq(acc.client) /\ TextsAt(acc.client, TextPlaces(acc.client))
    /\ ShownUpTo(wd, ClientText(acc.client), text, acc.held)
    /\ d = "responses" =>
          /\ ResponsesShape(acc.writer)
          /\ inText => acc.writer.cur # <<>>

Dialects == {"anthropic", "openai", "responses"}
QuietKinds == {"stream_start", "content_block_start", "tool_call_start", "signature_delta",
               "tool_call_delta", "content_block_end", "finish", "usage", "stream_end"}

LEMMA QuietIs ==
    /\ Quiet(<<>>)
    /\ \A m : ~TextMessage(m) => Quiet(<<m>>)
    /\ \A m, n : ~TextMessage(m) /\ ~TextMessage(n) => Quiet(<<m, n>>)
    /\ \A type, slot, what, data :
          /\ type \in {"message_start", "ping", "content_block_start", "content_block_stop",
                       "message_delta", "message_stop", "chunk", "arguments", "finish", "usage",
                       "[DONE]", "output_item.added", "output_item.done",
                       "function_call_arguments.delta", "response.completed"}
             \/ what \in {"signature", "tool_use"}
          /\ type = "arguments" => what = "tool_use"
          /\ type = "function_call_arguments.delta" => what = "tool_use"
          => ~TextMessage(Message(type, slot, what, data))
  <1>1. /\ Quiet(<<>>)
        /\ \A m : ~TextMessage(m) => Quiet(<<m>>)
        /\ \A m, n : ~TextMessage(m) /\ ~TextMessage(n) => Quiet(<<m, n>>)
    BY Zenon DEF Quiet
  <1>2. ASSUME NEW type, NEW slot, NEW what, NEW data,
               /\ type \in {"message_start", "ping", "content_block_start", "content_block_stop",
                            "message_delta", "message_stop", "chunk", "arguments", "finish",
                            "usage", "[DONE]", "output_item.added", "output_item.done",
                            "function_call_arguments.delta", "response.completed"}
                  \/ what \in {"signature", "tool_use"},
               type = "arguments" => what = "tool_use",
               type = "function_call_arguments.delta" => what = "tool_use"
        PROVE  ~TextMessage(Message(type, slot, what, data))
    <2> DEFINE m == Message(type, slot, what, data)
    <2>1. m.type = type /\ m.what = what
      BY DEF Message
    <2> HIDE DEF m
    <2>2. ~TextMessage(m)
      BY <1>2, <2>1 DEF TextMessage, Deltas
    <2> QED
      BY <2>2 DEF m
  <1> QED
    BY <1>1, <1>2

\* What an event without text turns into, for each dialect.
LEMMA QuietWrite ==
    ASSUME dialect \in Dialects, NEW w, NEW kind \in QuietKinds, NEW index, NEW data
    PROVE  Quiet(Write(w, Event(kind, index, data)).messages)
  <1> DEFINE ev == Event(kind, index, data)
  <1>1. ev.kind = kind /\ ev.index = index /\ ev.data = data
    BY DEF Event
  <1> HIDE DEF ev
  <1>2. CASE dialect = "anthropic"
    <2>1. Quiet(AnthropicMessages(w, ev))
      <3>1. CASE kind = "stream_start"
        BY <1>1, <3>1, QuietIs DEF AnthropicMessages
      <3>2. CASE kind = "content_block_start"
        BY <1>1, <3>2, QuietIs DEF AnthropicMessages
      <3>3. CASE kind = "tool_call_start"
        BY <1>1, <3>3, QuietIs DEF AnthropicMessages
      <3>4. CASE kind = "signature_delta"
        BY <1>1, <3>4, QuietIs DEF AnthropicMessages
      <3>5. CASE kind = "tool_call_delta"
        BY <1>1, <3>5, QuietIs DEF AnthropicMessages
      <3>6. CASE kind = "content_block_end"
        BY <1>1, <3>6, QuietIs DEF AnthropicMessages
      <3>7. CASE kind = "stream_end"
        BY <1>1, <3>7, QuietIs DEF AnthropicMessages
      <3>8. CASE kind \in {"finish", "usage"}
        BY <1>1, <3>8, QuietIs DEF AnthropicMessages
      <3> QED
        BY <3>1, <3>2, <3>3, <3>4, <3>5, <3>6, <3>7, <3>8 DEF QuietKinds
    <2> QED
      BY <1>2, <2>1 DEF Write, WriteAnthropic, ev
  <1>3. CASE dialect = "openai"
    <2>1. Quiet(OpenAIMessages(w, ev))
      <3>1. CASE kind = "tool_call_start"
        BY <1>1, <3>1, QuietIs DEF OpenAIMessages
      <3>2. CASE kind = "tool_call_delta"
        BY <1>1, <3>2, QuietIs DEF OpenAIMessages
      <3>3. CASE kind = "finish"
        BY <1>1, <3>3, QuietIs DEF OpenAIMessages
      <3>4. CASE kind = "usage"
        BY <1>1, <3>4, QuietIs DEF OpenAIMessages
      <3>5. CASE kind = "stream_end"
        BY <1>1, <3>5, QuietIs DEF OpenAIMessages
      <3>6. CASE kind \in {"stream_start", "content_block_start", "signature_delta",
                            "content_block_end"}
        BY <1>1, <3>6, QuietIs DEF OpenAIMessages
      <3> QED
        BY <3>1, <3>2, <3>3, <3>4, <3>5, <3>6 DEF QuietKinds
    <2> QED
      BY <1>3, <2>1 DEF Write, WriteOpenAI, ev
  <1>4. CASE dialect = "responses"
    <2>1. Quiet(WriteResponses(w, ev).messages)
      <3>1. CASE kind = "content_block_start"
        BY <1>1, <3>1, QuietIs DEF WriteResponses
      <3>2. CASE kind = "tool_call_start"
        BY <1>1, <3>2, QuietIs DEF WriteResponses
      <3>3. CASE kind = "tool_call_delta"
        BY <1>1, <3>3, QuietIs DEF WriteResponses
      <3>4. CASE kind = "content_block_end"
        BY <1>1, <3>4, QuietIs DEF WriteResponses
      <3>5. CASE kind \in {"usage", "stream_end"}
        BY <1>1, <3>5, QuietIs DEF WriteResponses
      <3>6. CASE kind \in {"stream_start", "signature_delta", "finish"}
        BY <1>1, <3>6, QuietIs DEF WriteResponses
      <3> QED
        BY <3>1, <3>2, <3>3, <3>4, <3>5, <3>6 DEF QuietKinds
    <2> QED
      BY <1>4, <2>1 DEF Write, ev
  <1> QED
    BY <1>2, <1>3, <1>4 DEF Dialects, ev

\* The Responses writer's bookkeeping after each kind of event: it has a block
\* open after a start, and goes on to the next slot after an end.
ResponsesAfter(w, kind, data, after) ==
    /\ kind = "content_block_start" => after = Triple(Block(w, data, ""), w.index, w.usage)
    /\ kind = "tool_call_start" => after = Triple(Block(w, "tool_use", data), w.index, w.usage)
    /\ kind \in TextKinds /\ w.cur # <<>> /\ data # <<>> =>
          after = Triple(<<[w.cur[1] EXCEPT !.text = @ \o data]>>, w.index, w.usage)
    /\ kind = "content_block_end" /\ w.cur # <<>> => after = Triple(<<>>, w.index + 1, w.usage)
    /\ kind = "usage" => after = Triple(w.cur, w.index, data)
    /\ \/ kind \in {"tool_call_delta", "stream_end", "stream_start", "signature_delta", "finish"}
       \/ kind \in TextKinds /\ ~(w.cur # <<>> /\ data # <<>>)
       \/ kind = "content_block_end" /\ ~(w.cur # <<>>)
       => after = w

LEMMA ResponsesWriter ==
    ASSUME NEW w, ResponsesShape(w), NEW kind \in QuietKinds \cup TextKinds, NEW index, NEW data
    PROVE  ResponsesAfter(w, kind, data, WriteResponses(w, Event(kind, index, data)).writer)
  <1> DEFINE ev == Event(kind, index, data)
  <1>1. ev.kind = kind /\ ev.index = index /\ ev.data = data
    BY DEF Event
  <1> HIDE DEF ev
  <1> DEFINE after == WriteResponses(w, ev).writer
  <1>2. kind = "content_block_start" => after = Triple(Block(w, data, ""), w.index, w.usage)
    BY <1>1, TripleExcept DEF WriteResponses
  <1>3. kind = "tool_call_start" =>
            after = Triple(Block(w, "tool_use", data), w.index, w.usage)
    BY <1>1, TripleExcept DEF WriteResponses
  <1>4. kind \in TextKinds /\ w.cur # <<>> /\ data # <<>> =>
            after = Triple(<<[w.cur[1] EXCEPT !.text = @ \o data]>>, w.index, w.usage)
    BY <1>1, TripleExcept DEF WriteResponses, TextKinds
  <1>5. kind = "content_block_end" /\ w.cur # <<>> =>
            after = Triple(<<>>, w.index + 1, w.usage)
    BY <1>1, TripleExcept DEF WriteResponses
  <1>6. kind = "usage" => after = Triple(w.cur, w.index, data)
    BY <1>1, TripleExcept DEF WriteResponses
  <1>7. \/ kind \in {"tool_call_delta", "stream_end", "stream_start",
                     "signature_delta", "finish"}
        \/ kind \in TextKinds /\ ~(w.cur # <<>> /\ data # <<>>)
        \/ kind = "content_block_end" /\ ~(w.cur # <<>>)
        => after = w
    BY <1>1 DEF WriteResponses, TextKinds
  <1> HIDE DEF after
  <1>8. ResponsesAfter(w, kind, data, after)
    BY <1>2, <1>3, <1>4, <1>5, <1>6, <1>7, Zenon DEF ResponsesAfter
  <1> QED
    BY <1>8 DEF ev, after

LEMMA ResponsesOpen ==
    ASSUME NEW w, ResponsesShape(w), NEW kind \in QuietKinds \cup TextKinds, NEW data,
           NEW after, ResponsesAfter(w, kind, data, after)
    PROVE  /\ ResponsesShape(after)
           /\ kind \in {"content_block_start", "tool_call_start"} => after.cur # <<>>
           /\ kind # "content_block_end" /\ w.cur # <<>> => after.cur # <<>>
  <1>2. \A x : <<x>> # <<>>
    OBVIOUS
  <1>3. \A type, tool : Block(w, type, tool) # <<>>
    BY <1>2 DEF Block
  <1>4. CASE kind = "content_block_start"
    <2>1. PICK tool : after = Triple(Block(w, data, tool), w.index, w.usage)
      BY <1>4 DEF ResponsesAfter
    <2>2. after.cur # <<>> /\ ResponsesShape(after)
      BY <1>3, <2>1, TripleIs
    <2> QED
      BY <2>2
  <1>5. CASE kind = "tool_call_start"
    <2>1. after = Triple(Block(w, "tool_use", data), w.index, w.usage)
      BY <1>5 DEF ResponsesAfter
    <2>2. after.cur # <<>> /\ ResponsesShape(after)
      BY <1>3, <2>1, TripleIs
    <2> QED
      BY <2>2
  <1>6. CASE kind \in TextKinds
    <2>1. after = w \/ after = Triple(<<[w.cur[1] EXCEPT !.text = @ \o data]>>, w.index, w.usage)
      BY <1>6 DEF ResponsesAfter
    <2> DEFINE x == [w.cur[1] EXCEPT !.text = @ \o data]
    <2>2. after = w \/ after = Triple(<<x>>, w.index, w.usage)
      BY <2>1
    <2>3. <<x>> # <<>>
      BY <1>2
    <2> HIDE DEF x
    <2>4. kind \notin {"content_block_start", "tool_call_start"}
      BY <1>6 DEF TextKinds
    <2>5. CASE after = w
      BY <2>4, <2>5
    <2>6. CASE after = Triple(<<x>>, w.index, w.usage)
      <3>1. after.cur = <<x>> /\ ResponsesShape(after)
        BY <2>6, TripleIs
      <3> QED
        BY <2>3, <2>4, <3>1
    <2> QED
      BY <2>2, <2>5, <2>6
  <1>7. CASE kind = "content_block_end"
    <2>1. after = w \/ after = Triple(<<>>, w.index + 1, w.usage)
      BY <1>7 DEF ResponsesAfter
    <2> QED
      BY <1>7, <2>1, TripleIs
  <1>8. CASE kind = "usage"
    <2>1. after = Triple(w.cur, w.index, data)
      BY <1>8 DEF ResponsesAfter
    <2> QED
      BY <1>8, <2>1, TripleIs
  <1>9. CASE kind \in {"tool_call_delta", "stream_end", "stream_start", "signature_delta",
                       "finish"}
    <2>1. after = w
      BY <1>9 DEF ResponsesAfter
    <2> QED
      BY <1>9, <2>1
  <1> QED
    BY <1>4, <1>5, <1>6, <1>7, <1>8, <1>9 DEF QuietKinds

LEMMA PassIs ==
    ASSUME NEW acc, NEW ev
    PROVE  LET r == Restore(acc.held, ev)
               w == Write(acc.writer, r.event)
           IN  /\ Pass(acc, ev).held = r.held /\ Pass(acc, ev).writer = w.writer
               /\ Pass(acc, ev).client = acc.client \o w.messages
  <1> DEFINE r == Restore(acc.held, ev)
  <1> DEFINE w == Write(acc.writer, r.event)
  <1>1. Pass(acc, ev) = [held |-> r.held, writer |-> w.writer,
                         client |-> acc.client \o w.messages]
    BY Zenon DEF Pass
  <1> DEFINE c == acc.client \o w.messages
  <1>1a. Pass(acc, ev) = [held |-> r.held, writer |-> w.writer, client |-> c]
    BY <1>1
  <1> HIDE DEF r, w, c
  <1>1b. Pass(acc, ev).held = r.held /\ Pass(acc, ev).writer = w.writer /\ Pass(acc, ev).client = c
    BY <1>1a
  <1>2. /\ Pass(acc, ev).held = r.held /\ Pass(acc, ev).writer = w.writer
        /\ Pass(acc, ev).client = acc.client \o w.messages
    BY <1>1b DEF c
  <1> QED
    BY <1>2, Zenon DEF r, w

\* One event without text on its way.
LEMMA QuietStep ==
    ASSUME dialect \in Dialects, NEW acc, NEW text, NEW inText, TextK(dialect, warden, acc, text, inText),
           NEW kind \in QuietKinds, NEW index, NEW data, NEW open,
           open => \/ kind \in {"content_block_start", "tool_call_start"}
                   \/ inText /\ kind # "content_block_end"
    PROVE  TextK(dialect, warden, Pass(acc, Event(kind, index, data)), text, open)
  <1> DEFINE ev == Event(kind, index, data)
  <1> DEFINE written == Write(acc.writer, ev)
  <1> DEFINE after == Pass(acc, ev)
  <1>1. Restore(acc.held, ev) = [event |-> ev, held |-> acc.held]
    <2>1. ev.kind = kind
      BY DEF Event
    <2>2. ev.kind \notin {"text_delta", "reasoning_delta"}
      BY <2>1 DEF QuietKinds
    <2> HIDE DEF ev
    <2> QED
      BY <2>2 DEF Restore
  <1> HIDE DEF ev
  <1>2. /\ after.held = acc.held /\ after.writer = written.writer
        /\ after.client = acc.client \o written.messages
    <2> DEFINE r == Restore(acc.held, ev)
    <2>1. r.event = ev /\ r.held = acc.held
      BY <1>1
    <2>2. /\ after.held = r.held /\ after.writer = Write(acc.writer, r.event).writer
          /\ after.client = acc.client \o Write(acc.writer, r.event).messages
      BY PassIs
    <2> HIDE DEF r, after
    <2> QED
      BY <2>1, <2>2
  <1>3. Quiet(written.messages)
    BY QuietWrite DEF ev
  <1> HIDE DEF after
  <1>4. /\ IsSeq(acc.client) /\ TextsAt(acc.client, TextPlaces(acc.client))
        /\ ShownUpTo(warden, ClientText(acc.client), text, acc.held)
        /\ acc.held \in Text /\ Len(acc.held) <= MaxTokenBytes
    BY DEF TextK
  <1>5. /\ IsSeq(after.client) /\ TextsAt(after.client, TextPlaces(after.client))
        /\ ClientText(after.client) = ClientText(acc.client)
    <2> DEFINE ms == written.messages
    <2>1. after.client = acc.client \o ms /\ Quiet(ms)
      BY <1>2, <1>3
    <2> HIDE DEF ms
    <2> QED
      BY <1>4, <2>1, QuietAppend
  <1>6. dialect = "responses" => /\ ResponsesShape(after.writer)
                                 /\ open => after.writer.cur # <<>>
    <2> SUFFICES ASSUME dialect = "responses"
                 PROVE  ResponsesShape(after.writer) /\ (open => after.writer.cur # <<>>)
      OBVIOUS
    <2>1. ResponsesShape(acc.writer) /\ (inText => acc.writer.cur # <<>>)
      BY DEF TextK
    <2>2. after.writer = WriteResponses(acc.writer, ev).writer
      BY <1>2 DEF Write
    <2>3. kind \in QuietKinds \cup TextKinds
      OBVIOUS
    <2>4. ResponsesAfter(acc.writer, kind, data, after.writer)
      BY <2>1, <2>2, <2>3, ResponsesWriter DEF ev
    <2> QED
      BY <2>1, <2>3, <2>4, ResponsesOpen
  <1>7. TextK(dialect, warden, after, text, open)
    BY <1>2, <1>4, <1>5, <1>6 DEF TextK
  <1> QED
    BY <1>7 DEF after, ev

\* What an event with text turns into.
CarriesText(ms, data) ==
    \/ ms = <<>> /\ data = <<>>
    \/ \E m : ms = <<m>> /\ TextMessage(m) /\ m.data = data

LEMMA TextWrite ==
    ASSUME dialect \in Dialects, NEW w, NEW kind \in TextKinds, NEW index, NEW data \in Text,
           dialect = "openai" => kind = "text_delta",
           dialect = "responses" => w.cur # <<>>
    PROVE  CarriesText(Write(w, Event(kind, index, data)).messages, data)
  <1> DEFINE ev == Event(kind, index, data)
  <1> DEFINE Carries(ms) == CarriesText(ms, data)
  <1>1. ev.kind = kind /\ ev.index = index /\ ev.data = data
    BY DEF Event
  <1>2. \A m : TextMessage(m) /\ m.data = data => Carries(<<m>>)
    BY Zenon DEF CarriesText
  <1> HIDE DEF Carries
  <1>3. ASSUME NEW type, NEW slot, NEW what,
               what \in {"text", "reasoning"},
               type \in {"content_block_delta", "content", "output_text.delta",
                         "reasoning_summary_text.delta"}
        PROVE  Carries(<<Message(type, slot, what, data)>>)
    <2> DEFINE m == Message(type, slot, what, data)
    <2>1. m.type = type /\ m.what = what /\ m.data = data
      BY DEF Message
    <2> HIDE DEF m
    <2>2. TextMessage(m)
      BY <1>3, <2>1 DEF TextMessage, Deltas
    <2>3. Carries(<<m>>)
      BY <1>2, <2>1, <2>2
    <2> QED
      BY <2>3 DEF m
  <1>4. data = <<>> => Carries(<<>>)
    BY DEF Carries, CarriesText
  <1> HIDE DEF ev, Carries
  <1>5. Carries(Write(w, ev).messages)
    <2>1. CASE dialect = "anthropic"
      BY <1>1, <1>3, <2>1 DEF Write, WriteAnthropic, AnthropicMessages, TextKinds
    <2>2. CASE dialect = "openai"
      BY <1>1, <1>3, <2>2 DEF Write, WriteOpenAI, OpenAIMessages, TextKinds
    <2>3. CASE dialect = "responses"
      BY <1>1, <1>3, <1>4, <2>3 DEF Write, WriteResponses, TextKinds
    <2> QED
      BY <2>1, <2>2, <2>3 DEF Dialects
  <1> QED
    BY <1>5 DEF Carries, ev

\* One event with text on its way.
LEMMA TextStep ==
    ASSUME dialect \in Dialects, NEW acc, NEW text, TextK(dialect, warden, acc, text, TRUE),
           NEW kind \in TextKinds, NEW index, NEW data \in Text, data # <<>>,
           dialect = "openai" => kind = "text_delta"
    PROVE  TextK(dialect, warden, Pass(acc, Event(kind, index, data)), text \o data, TRUE)
  <1> DEFINE ev == Event(kind, index, data)
  <1> DEFINE fed == Fed(acc.held, data)
  <1> DEFINE shown == Event(kind, index, fed.out)
  <1> DEFINE written == Write(acc.writer, shown)
  <1> DEFINE after == Pass(acc, ev)
  <1>1. Restore(acc.held, ev).event = shown /\ Restore(acc.held, ev).held = fed.held
    <2>1. ev.kind = kind /\ ev.data = data /\ ev.kind \in {"text_delta", "reasoning_delta"}
      BY DEF Event, TextKinds
    <2>2. \A x : [ev EXCEPT !.data = x] = Event(kind, index, x)
      BY DEF Event
    <2> HIDE DEF ev
    <2>3. CASE warden
      <3>1. Restore(acc.held, ev) = [event |-> [ev EXCEPT !.data = Feed(acc.held, data).out],
                                     held |-> Feed(acc.held, data).held]
        BY <2>1, <2>3 DEF Restore
      <3> QED
        BY <2>2, <2>3, <3>1 DEF Fed
    <2>4. CASE ~warden
      <3>1. Restore(acc.held, ev) = [event |-> ev, held |-> acc.held]
        BY <2>4 DEF Restore
      <3>2. fed = [out |-> data, held |-> acc.held]
        BY <2>4 DEF Fed
      <3> QED
        BY <3>1, <3>2 DEF ev
    <2> QED
      BY <2>3, <2>4
  <1>2. /\ after.held = fed.held /\ after.writer = written.writer
        /\ after.client = acc.client \o written.messages
    <2> DEFINE r == Restore(acc.held, ev)
    <2>1. r.event = shown /\ r.held = fed.held
      BY <1>1
    <2>2. /\ after.held = r.held /\ after.writer = Write(acc.writer, r.event).writer
          /\ after.client = acc.client \o Write(acc.writer, r.event).messages
      BY PassIs
    <2> HIDE DEF r, after, shown, fed
    <2> QED
      BY <2>1, <2>2
  <1>3. /\ IsSeq(acc.client) /\ TextsAt(acc.client, TextPlaces(acc.client))
        /\ ShownUpTo(warden, ClientText(acc.client), text, acc.held)
        /\ acc.held \in Text /\ Len(acc.held) <= MaxTokenBytes
        /\ dialect = "responses" => ResponsesShape(acc.writer) /\ acc.writer.cur # <<>>
    BY DEF TextK
  <1>4. /\ fed.out \in Text /\ fed.held \in Text /\ Len(fed.held) <= MaxTokenBytes
        /\ ShownUpTo(warden, ClientText(acc.client) \o fed.out, text \o data, fed.held)
    BY <1>3, FedShown
  <1> HIDE DEF fed, after
  <1>5. CarriesText(written.messages, fed.out)
    BY <1>3, <1>4, TextWrite
  <1>6. /\ IsSeq(after.client) /\ TextsAt(after.client, TextPlaces(after.client))
        /\ ClientText(after.client) = ClientText(acc.client) \o fed.out
    <2>1. CASE written.messages = <<>> /\ fed.out = <<>>
      <3>1. after.client = acc.client
        BY <1>2, <1>3, <2>1, IsSeqFew
      <3>2. ClientText(acc.client) \in Text
        BY <1>3, ShownAndHeld
      <3> QED
        BY <1>3, <2>1, <3>1, <3>2, EmptyText
    <2>2. ASSUME NEW m, written.messages = <<m>>, TextMessage(m), m.data = fed.out
          PROVE  /\ IsSeq(after.client) /\ TextsAt(after.client, TextPlaces(after.client))
                 /\ ClientText(after.client) = ClientText(acc.client) \o fed.out
      <3>1. after.client = Append(acc.client, m)
        BY <1>2, <1>3, <2>2, IsSeqAppend
      <3> QED
        BY <1>3, <1>4, <2>2, <3>1, ClientTextAppend
    <2> HIDE DEF written
    <2> QED
      BY <1>5, <2>1, <2>2 DEF CarriesText
  <1>7. dialect = "responses" => ResponsesShape(after.writer) /\ after.writer.cur # <<>>
    <2> SUFFICES ASSUME dialect = "responses"
                 PROVE  ResponsesShape(after.writer) /\ after.writer.cur # <<>>
      OBVIOUS
    <2>1. after.writer = WriteResponses(acc.writer, shown).writer
      BY <1>2 DEF Write
    <2>2. kind \in QuietKinds \cup TextKinds /\ kind # "content_block_end"
      BY DEF TextKinds
    <2>3. ResponsesAfter(acc.writer, kind, fed.out, after.writer)
      BY <1>3, <2>1, <2>2, ResponsesWriter
    <2> QED
      BY <1>3, <2>2, <2>3, ResponsesOpen
  <1>8. TextK(dialect, warden, after, text \o data, TRUE)
    <2> HIDE DEF written, shown
    <2> QED
      BY <1>2, <1>4, <1>6, <1>7 DEF TextK
  <1> QED
    BY <1>8 DEF after, ev

\* Any number of events of some kinds.
EventOf(K, x) == \E kind \in K : \E index, data : x = Event(kind, index, data)
EventsOf(K, events) == \E S : events \in Seq(S) /\ \A x \in S : EventOf(K, x)

LEMMA EventsOfIs ==
    ASSUME NEW K
    PROVE  /\ EventsOf(K, <<>>)
           /\ \A x : EventOf(K, x) => EventsOf(K, <<x>>)
           /\ \A x, y : EventOf(K, x) /\ EventOf(K, y) => EventsOf(K, <<x, y>>)
           /\ \A x, y, z : EventOf(K, x) /\ EventOf(K, y) /\ EventOf(K, z) => EventsOf(K, <<x, y, z>>)
           /\ \A a, b : EventsOf(K, a) /\ EventsOf(K, b) => EventsOf(K, a \o b)
           /\ \A kind \in K : \A index, data : EventOf(K, Event(kind, index, data))
  <1>1. EventsOf(K, <<>>)
    <2> DEFINE S == {}
    <2> DEFINE none == <<>>
    <2>1. none \in Seq(S)
      OBVIOUS
    <2>2. \A x \in S : EventOf(K, x)
      OBVIOUS
    <2> HIDE DEF S, none
    <2>3. EventsOf(K, none)
      BY <2>1, <2>2, Zenon DEF EventsOf
    <2> QED
      BY <2>3 DEF none
  <1>2. ASSUME NEW x, NEW y, NEW z, EventOf(K, x), EventOf(K, y), EventOf(K, z)
        PROVE  EventsOf(K, <<x, y, z>>) /\ EventsOf(K, <<x, y>>) /\ EventsOf(K, <<x>>)
    <2> DEFINE S == {x, y, z}
    <2>1. <<x, y, z>> \in Seq(S) /\ <<x, y>> \in Seq(S) /\ <<x>> \in Seq(S)
      OBVIOUS
    <2>2. \A w \in S : EventOf(K, w)
      BY <1>2
    <2> HIDE DEF S
    <2> QED
      BY <2>1, <2>2, Zenon DEF EventsOf
  <1>3. ASSUME NEW a, NEW b, EventsOf(K, a), EventsOf(K, b) PROVE EventsOf(K, a \o b)
    <2>1. PICK S : a \in Seq(S) /\ \A x \in S : EventOf(K, x)
      BY <1>3 DEF EventsOf
    <2>2. PICK T : b \in Seq(T) /\ \A x \in T : EventOf(K, x)
      BY <1>3 DEF EventsOf
    <2> DEFINE U == S \cup T
    <2>3. a \in Seq(U) /\ b \in Seq(U) /\ \A x \in U : EventOf(K, x)
      BY <2>1, <2>2
    <2> HIDE DEF U
    <2>4. a \o b \in Seq(U)
      BY <2>3, ConcatProperties
    <2> QED
      BY <2>3, <2>4, Zenon DEF EventsOf
  <1>4. \A kind \in K : \A index, data : EventOf(K, Event(kind, index, data))
    BY Zenon DEF EventOf
  <1>5. \A x : EventOf(K, x) => EventsOf(K, <<x>>)
    BY <1>2
  <1>6. \A x, y : EventOf(K, x) /\ EventOf(K, y) => EventsOf(K, <<x, y>>)
    BY <1>2
  <1>7. \A x, y, z : EventOf(K, x) /\ EventOf(K, y) /\ EventOf(K, z) => EventsOf(K, <<x, y, z>>)
    BY <1>2
  <1>8. \A a, b : EventsOf(K, a) /\ EventsOf(K, b) => EventsOf(K, a \o b)
    BY <1>3
  <1> QED
    BY <1>1, <1>4, <1>5, <1>6, <1>7, <1>8

LEMMA EventsOfMore ==
    ASSUME NEW K, NEW L, K \subseteq L, NEW events, EventsOf(K, events)
    PROVE  EventsOf(L, events)
  <1>1. \A x : EventOf(K, x) => EventOf(L, x)
    BY DEF EventOf
  <1> QED
    BY <1>1 DEF EventsOf

\* Events without text.
QuietEvent(x) == EventOf(QuietKinds, x)
QuietEvents(events) == EventsOf(QuietKinds, events)

LEMMA QuietEventsIs ==
    /\ QuietEvents(<<>>)
    /\ \A x : QuietEvent(x) => QuietEvents(<<x>>)
    /\ \A x, y : QuietEvent(x) /\ QuietEvent(y) => QuietEvents(<<x, y>>)
    /\ \A x, y, z : QuietEvent(x) /\ QuietEvent(y) /\ QuietEvent(z) => QuietEvents(<<x, y, z>>)
    /\ \A a, b : QuietEvents(a) /\ QuietEvents(b) => QuietEvents(a \o b)
    /\ \A kind \in QuietKinds : \A index, data : QuietEvent(Event(kind, index, data))
  BY EventsOfIs DEF QuietEvent, QuietEvents

LEMMA QuietSteps ==
    ASSUME dialect \in Dialects, NEW start, NEW text, NEW inText,
           TextK(dialect, warden, start, text, inText), NEW events, QuietEvents(events)
    PROVE  TextK(dialect, warden, PassAll(start, events), text, FALSE)
  <1>1. PICK S : events \in Seq(S) /\ \A x \in S : QuietEvent(x)
    BY DEF QuietEvents, QuietEvent, EventsOf
  <1> DEFINE n == Len(events)
  <1>2. n \in Nat /\ \A i \in 1..n : QuietEvent(events[i])
    BY <1>1
  <1>3. PICK h : Passes(start, events, h) /\ h[n] = PassAll(start, events)
    BY <1>2, PassTable
  <1> DEFINE Good(k) == TextK(dialect, warden, h[k], text, FALSE)
  <1> DEFINE R == {k \in Nat : k <= n => Good(k)}
  <1>4. Good(0)
    <2>1. h[0] = start
      BY <1>3 DEF Passes
    <2>2. TextK(dialect, warden, start, text, FALSE)
      BY DEF TextK
    <2> QED
      BY <2>1, <2>2
  <1>5. ASSUME NEW k \in Nat, k + 1 <= n, Good(k) PROVE Good(k + 1)
    <2>1. k + 1 \in 1..n /\ (k + 1) - 1 = k
      BY <1>2, <1>5
    <2>2. TextK(dialect, warden, h[k], text, FALSE)
      BY <1>5
    <2>3. h[k + 1] = Pass(h[k], events[k + 1])
      BY <1>3, <2>1 DEF Passes
    <2>4. PICK kind \in QuietKinds : \E index, data : events[k + 1] = Event(kind, index, data)
      BY <1>2, <2>1 DEF QuietEvent, EventOf
    <2>5. PICK index, data : events[k + 1] = Event(kind, index, data)
      BY <2>4
    <2>6. TextK(dialect, warden, Pass(h[k], Event(kind, index, data)), text, FALSE)
      BY <2>2, QuietStep
    <2> QED
      BY <2>3, <2>5, <2>6
  <1> HIDE DEF Good
  <1>6. 0 \in R /\ R \in SUBSET Nat
    BY <1>4
  <1>7. ASSUME NEW k \in R PROVE k + 1 \in R
    BY <1>2, <1>5
  <1>8. R = Nat
    <2> HIDE DEF R
    <2> QED
      BY <1>6, <1>7, Induction
  <1>9. Good(n)
    BY <1>2, <1>8
  <1> QED
    BY <1>3, <1>9 DEF Good

-----------------------------------------------------------------------------
(* The Anthropic provider's protocol, read off what it has sent. *)

LEMMA MaxIs ==
    ASSUME NEW n \in Nat, NEW S, S \subseteq 1..n, S # {}
    PROVE  Max(S) \in S /\ \A y \in S : y <= Max(S)
  <1> DEFINE R == {n - y : y \in S}
  <1>1. R \subseteq Nat /\ R # {}
    <2>1. \A y \in S : y \in 1..n /\ n - y \in Nat /\ n - y \in R
      <3>1. \A y \in 1..n : n - y \in Nat
        OBVIOUS
      <3> QED
        BY <3>1
    <2>2. PICK y \in S : TRUE
      OBVIOUS
    <2>3. \A x \in R : x \in Nat
      BY <2>1
    <2> HIDE DEF R
    <2> QED
      BY <2>1, <2>2, <2>3
  <1>2. PICK r \in R : \A q \in R : r <= q
    <2> HIDE DEF R
    <2> QED
      BY <1>1, LeastNatural
  <1>3. PICK m \in S : r = n - m
    OBVIOUS
  <1>4. \A y \in S : m >= y
    <2> SUFFICES ASSUME NEW y \in S PROVE m >= y
      OBVIOUS
    <2>1. n - y \in R /\ y \in 1..n /\ m \in 1..n
      OBVIOUS
    <2>2. n - m <= n - y
      BY <1>2, <1>3, <2>1
    <2> QED
      BY <2>1, <2>2
  <1>5. \E x \in S : \A y \in S : x >= y
    BY <1>4
  <1>6. Max(S) = CHOOSE x \in S : \A y \in S : x >= y
    BY DEF Max
  <1>7. Max(S) \in S /\ \A y \in S : Max(S) >= y
    BY <1>5, <1>6
  <1> QED
    BY <1>7

LastKindOf(s) == IF s = <<>> THEN "message_start" ELSE s[Len(s)].kind
StartsOf(s) == {i \in DOMAIN s : s[i].kind \in {"block_start", "tool_start"}}
LastStartOf(s) == s[Max(StartsOf(s))]
OpenOf(s) ==
    IF StartsOf(s) = {} \/ LastKindOf(s) \in {"block_stop", "message_delta", "message_stop"}
    THEN "none"
    ELSE IF LastStartOf(s).kind = "tool_start" THEN "tool_use" ELSE LastStartOf(s).data

LEMMA OpenOfSent ==
    /\ LastKind = LastKindOf(sent) /\ BlockStarts = StartsOf(sent)
    /\ LastStart = LastStartOf(sent) /\ OpenBlock = OpenOf(sent)
  BY DEF LastKind, LastKindOf, BlockStarts, StartsOf, LastStart, LastStartOf, OpenBlock, OpenOf

LEMMA OpenOfAppend ==
    ASSUME NEW s, IsSeq(s), NEW c
    PROVE  /\ LastKindOf(Append(s, c)) = c.kind
           /\ c.kind = "block_start" =>
                 OpenOf(Append(s, c)) = c.data /\ LastStartOf(Append(s, c)) = c
           /\ c.kind = "tool_start" =>
                 OpenOf(Append(s, c)) = "tool_use" /\ LastStartOf(Append(s, c)) = c
           /\ c.kind \in {"block_stop", "message_delta", "message_stop"} =>
                 OpenOf(Append(s, c)) = "none"
           /\ c.kind \in {"text", "thinking", "signature", "args"} /\ OpenOf(s) # "none" =>
                 OpenOf(Append(s, c)) = OpenOf(s) /\ LastStartOf(Append(s, c)) = LastStartOf(s)
  <1> DEFINE t == Append(s, c)
  <1> DEFINE n == Len(s)
  <1>1. /\ n \in Nat /\ DOMAIN s = 1..n /\ Len(t) = n + 1 /\ DOMAIN t = 1..(n + 1)
        /\ t[n + 1] = c /\ \A i \in 1..n : t[i] = s[i]
    BY IsSeqAppend
  <1>2. t # <<>>
    BY <1>1
  <1> HIDE DEF t
  <1>3. LastKindOf(t) = c.kind
    BY <1>1, <1>2 DEF LastKindOf
  <1>4. ASSUME c.kind \in {"block_start", "tool_start"}
        PROVE  LastStartOf(t) = c /\ StartsOf(t) # {}
    <2>1. n + 1 \in StartsOf(t) /\ StartsOf(t) \subseteq 1..(n + 1)
      BY <1>1, <1>4 DEF StartsOf
    <2>2. Max(StartsOf(t)) \in 1..(n + 1) /\ n + 1 <= Max(StartsOf(t))
      BY <1>1, <2>1, MaxIs
    <2>3. Max(StartsOf(t)) = n + 1
      BY <1>1, <2>2
    <2> QED
      BY <1>1, <2>1, <2>3 DEF LastStartOf
  <1>5. ASSUME c.kind \in {"text", "thinking", "signature", "args"}, OpenOf(s) # "none"
        PROVE  OpenOf(t) = OpenOf(s) /\ LastStartOf(t) = LastStartOf(s)
    <2>1. StartsOf(t) = StartsOf(s)
      <3>1. \A i \in 1..n : i \in StartsOf(t) <=> i \in StartsOf(s)
        BY <1>1 DEF StartsOf
      <3>2. n + 1 \notin StartsOf(t)
        BY <1>1, <1>5 DEF StartsOf
      <3>3. StartsOf(s) \subseteq 1..n /\ StartsOf(t) \subseteq 1..(n + 1)
        BY <1>1 DEF StartsOf
      <3>4. \A i \in 1..(n + 1) : i = n + 1 \/ i \in 1..n
        BY <1>1
      <3>5. ASSUME NEW i \in StartsOf(t) PROVE i \in StartsOf(s)
        BY <3>1, <3>2, <3>3, <3>4
      <3>6. ASSUME NEW i \in StartsOf(s) PROVE i \in StartsOf(t)
        BY <3>1, <3>3
      <3> QED
        BY <3>5, <3>6
    <2>2. StartsOf(s) # {} /\ StartsOf(s) \subseteq 1..n
      BY <1>1, <1>5 DEF OpenOf, StartsOf
    <2>3. Max(StartsOf(s)) \in 1..n
      BY <1>1, <2>2, MaxIs
    <2>4. LastStartOf(t) = LastStartOf(s)
      BY <1>1, <2>1, <2>3 DEF LastStartOf
    <2>5. c.kind \notin {"block_stop", "message_delta", "message_stop"}
      BY <1>5
    <2>6. LastKindOf(s) \notin {"block_stop", "message_delta", "message_stop"}
      BY <1>5 DEF OpenOf
    <2> QED
      BY <1>3, <2>1, <2>2, <2>4, <2>5, <2>6 DEF OpenOf
  <1>6. c.kind = "block_start" => OpenOf(t) = c.data /\ LastStartOf(t) = c
    BY <1>3, <1>4 DEF OpenOf
  <1>7. c.kind = "tool_start" => OpenOf(t) = "tool_use" /\ LastStartOf(t) = c
    BY <1>3, <1>4 DEF OpenOf
  <1>8. c.kind \in {"block_stop", "message_delta", "message_stop"} => OpenOf(t) = "none"
    BY <1>3 DEF OpenOf
  <1>9. c.kind \in {"text", "thinking", "signature", "args"} /\ OpenOf(s) # "none" =>
           OpenOf(t) = OpenOf(s) /\ LastStartOf(t) = LastStartOf(s)
    BY <1>5
  <1> QED
    BY <1>3, <1>6, <1>7, <1>8, <1>9 DEF t

\* What an Anthropic provider may send after s.
MaySend(s, c) ==
    \/ LastKindOf(s) = "message_delta" /\ c = Chunk("message_stop", None, "")
    \/ /\ OpenOf(s) = "none" /\ LastKindOf(s) # "message_delta"
       /\ \/ \E t \in {"text", "thinking"} : c = Chunk("block_start", None, t)
          \/ c = Chunk("tool_start", Len(s) + 1, "")
          \/ \E r \in {"stop", "tool_use"} : c = Chunk("message_delta", None, Told(r, 1))
    \/ OpenOf(s) = "text" /\ \E f \in Fragments : c = Chunk("text", None, f)
    \/ OpenOf(s) = "thinking" /\ \E f \in Fragments : c = Chunk("thinking", None, f)
    \/ OpenOf(s) = "thinking" /\ c = Chunk("signature", None, "")
    \/ OpenOf(s) = "tool_use" /\ c = Chunk("args", LastStartOf(s).tool, Len(s) + 1)
    \/ OpenOf(s) \in {"text", "thinking", "tool_use"} /\ c = Chunk("block_stop", None, "")

OpenKinds == {"none", "text", "thinking", "tool_use"}

LEMMA SendsMaySend ==
    ASSUME OpenOf(sent) \in OpenKinds, NEW c \in AnthropicChunks
    PROVE  MaySend(sent, c)
  <1> DEFINE o == OpenOf(sent)
  <1> DEFINE l == LastKindOf(sent)
  <1> DEFINE tool == LastStartOf(sent).tool
  <1> DEFINE n == Len(sent) + 1
  <1>1. AnthropicChunks =
          CASE l = "message_delta" -> {Chunk("message_stop", None, "")}
            [] o = "none" /\ l # "message_delta" ->
                  {Chunk("block_start", None, t) : t \in {"text", "thinking"}}
                  \cup {Chunk("tool_start", n, "")}
                  \cup {Chunk("message_delta", None, Told(r, 1)) : r \in {"stop", "tool_use"}}
            [] o = "text" ->
                  {Chunk("text", None, f) : f \in Fragments} \cup {Chunk("block_stop", None, "")}
            [] o = "thinking" ->
                  {Chunk("thinking", None, f) : f \in Fragments}
                  \cup {Chunk("signature", None, ""), Chunk("block_stop", None, "")}
            [] o = "tool_use" ->
                  {Chunk("args", tool, n), Chunk("block_stop", None, "")}
    BY OpenOfSent DEF AnthropicChunks, NextPiece
  <1>2. l = "message_delta" => o = "none"
    BY DEF OpenOf
  <1> HIDE DEF o, l, tool, n
  <1>3. CASE l = "message_delta"
    <2>1. AnthropicChunks = {Chunk("message_stop", None, "")}
      BY <1>1, <1>2, <1>3
    <2> QED
      BY <1>3, <2>1 DEF MaySend, l
  <1>4. CASE l # "message_delta" /\ o = "none"
    <2>1. c \in {Chunk("block_start", None, t) : t \in {"text", "thinking"}}
                  \cup {Chunk("tool_start", n, "")}
                  \cup {Chunk("message_delta", None, Told(r, 1)) : r \in {"stop", "tool_use"}}
      BY <1>1, <1>4
    <2>2. \/ \E t \in {"text", "thinking"} : c = Chunk("block_start", None, t)
          \/ c = Chunk("tool_start", n, "")
          \/ \E r \in {"stop", "tool_use"} : c = Chunk("message_delta", None, Told(r, 1))
      BY <2>1
    <2> QED
      BY <1>4, <2>2 DEF MaySend, l, o, n
  <1>5. CASE l # "message_delta" /\ o = "text"
    <2>1. (\E f \in Fragments : c = Chunk("text", None, f)) \/ c = Chunk("block_stop", None, "")
      BY <1>1, <1>5
    <2> QED
      BY <1>5, <2>1 DEF MaySend, l, o
  <1>6. CASE l # "message_delta" /\ o = "thinking"
    <2>1. \/ \E f \in Fragments : c = Chunk("thinking", None, f)
          \/ c = Chunk("signature", None, "") \/ c = Chunk("block_stop", None, "")
      BY <1>1, <1>6
    <2> QED
      BY <1>6, <2>1 DEF MaySend, l, o
  <1>7. CASE l # "message_delta" /\ o = "tool_use"
    <2>1. c = Chunk("args", tool, n) \/ c = Chunk("block_stop", None, "")
      BY <1>1, <1>7
    <2> QED
      BY <1>7, <2>1 DEF MaySend, l, o, n, tool
  <1> QED
    BY <1>3, <1>4, <1>5, <1>6, <1>7 DEF OpenKinds, o

LEMMA MaySendKinds ==
    ASSUME NEW s, NEW c, MaySend(s, c)
    PROVE  \/ c.kind = "block_start" /\ c.data \in {"text", "thinking"} /\ OpenOf(s) = "none"
           \/ c.kind = "tool_start" /\ OpenOf(s) = "none"
           \/ c.kind \in {"block_stop", "message_delta", "message_stop"}
           \/ c.kind \in {"text", "thinking", "signature", "args"} /\ OpenOf(s) # "none"
  <1>1a. CASE c = Chunk("message_stop", None, "")
    BY <1>1a DEF Chunk
  <1>1b. CASE c = Chunk("block_stop", None, "")
    BY <1>1b DEF Chunk
  <1>2. CASE OpenOf(s) = "none" /\ \E t \in {"text", "thinking"} : c = Chunk("block_start", None, t)
    BY <1>2 DEF Chunk
  <1>3. CASE OpenOf(s) = "none" /\ c = Chunk("tool_start", Len(s) + 1, "")
    BY <1>3 DEF Chunk
  <1>4. CASE \E r \in {"stop", "tool_use"} : c = Chunk("message_delta", None, Told(r, 1))
    BY <1>4 DEF Chunk
  <1>5. CASE OpenOf(s) = "text" /\ \E f \in Fragments : c = Chunk("text", None, f)
    BY <1>5 DEF Chunk
  <1>6. CASE OpenOf(s) = "thinking" /\ \E f \in Fragments : c = Chunk("thinking", None, f)
    BY <1>6 DEF Chunk
  <1>7. CASE OpenOf(s) = "thinking" /\ c = Chunk("signature", None, "")
    BY <1>7 DEF Chunk
  <1>8. CASE OpenOf(s) = "tool_use" /\ c = Chunk("args", LastStartOf(s).tool, Len(s) + 1)
    BY <1>8 DEF Chunk
  <1>9. CASE OpenOf(s) = "none" /\ LastKindOf(s) # "message_delta"
    <2>1. \/ \E t \in {"text", "thinking"} : c = Chunk("block_start", None, t)
          \/ c = Chunk("tool_start", Len(s) + 1, "")
          \/ \E r \in {"stop", "tool_use"} : c = Chunk("message_delta", None, Told(r, 1))
      BY <1>9 DEF MaySend
    <2> QED
      BY <1>2, <1>3, <1>4, <1>9, <2>1, Zenon
  <1>10. CASE OpenOf(s) # "none"
    <2>1. \/ OpenOf(s) = "text" /\ \E f \in Fragments : c = Chunk("text", None, f)
          \/ OpenOf(s) = "thinking" /\ \E f \in Fragments : c = Chunk("thinking", None, f)
          \/ OpenOf(s) = "thinking" /\ c = Chunk("signature", None, "")
          \/ OpenOf(s) = "tool_use" /\ c = Chunk("args", LastStartOf(s).tool, Len(s) + 1)
          \/ c = Chunk("block_stop", None, "") \/ c = Chunk("message_stop", None, "")
      BY <1>10, Zenon DEF MaySend
    <2> QED
      BY <1>1a, <1>1b, <1>5, <1>6, <1>7, <1>8, <2>1, Zenon
  <1>11. CASE OpenOf(s) = "none" /\ LastKindOf(s) = "message_delta"
    <2>1. c = Chunk("message_stop", None, "")
      BY <1>11 DEF MaySend
    <2> QED
      BY <1>1a, <2>1
  <1> QED
    BY <1>9, <1>10, <1>11, Zenon

\* What was said of the open block stays true of it.
LEMMA OpenKindsKept ==
    ASSUME NEW s, IsSeq(s), OpenOf(s) \in OpenKinds, NEW c, MaySend(s, c)
    PROVE  OpenOf(Append(s, c)) \in OpenKinds
  <1>1. \/ c.kind = "block_start" /\ c.data \in {"text", "thinking"}
        \/ c.kind = "tool_start"
        \/ c.kind \in {"block_stop", "message_delta", "message_stop"}
        \/ c.kind \in {"text", "thinking", "signature", "args"} /\ OpenOf(s) # "none"
    BY MaySendKinds
  <1> QED
    BY <1>1, OpenOfAppend DEF OpenKinds

-----------------------------------------------------------------------------
(* The parsers' bookkeeping. *)

Calls == [tool : Int, block : Nat]
Reasons == {"", "stop", "tool_use", "content_filter"}
ParserTyped(p) ==
    /\ p \in [block : Nat \cup {None}, text : BOOLEAN, tools : Seq(Calls),
              reason : Reasons, usage : Nat]
    /\ p.text => p.block \in Nat

LEMMA ParsesTyped ==
    ASSUME NEW p, ParserTyped(p)
    PROVE  /\ \A f : ParserTyped(ParseText(p, f).parser) /\ ParseText(p, f).parser.text
           /\ \A tool \in Int : \A args : ParserTyped(ParseOpenAITool(p, tool, args).parser)
           /\ \A tool \in Int : \A args : /\ ParserTyped(ParseGeminiTool(p, tool, args).parser)
                                                    /\ ~ParseGeminiTool(p, tool, args).parser.text
           /\ \A r \in Reasons : /\ ParserTyped(ParseFinish(p, r).parser)
                                 /\ ParseFinish(p, r).parser.text = p.text
           /\ \A n \in Nat : /\ ParserTyped(ParseUsage(p, n).parser)
                             /\ ParseUsage(p, n).parser.text = p.text
           /\ \A c : ParserTyped(ParseAnthropic(p, c).parser)
  <1>1. p.block + 1 \in Nat
    BY DEF ParserTyped, None
  <1>2. ASSUME NEW f
        PROVE  ParserTyped(ParseText(p, f).parser) /\ ParseText(p, f).parser.text
    BY <1>1 DEF ParserTyped, ParseText
  <1>3. ASSUME NEW tool \in Int
        PROVE  [tool |-> tool, block |-> p.block + 1] \in Calls
    BY <1>1 DEF Calls
  <1>4. ASSUME NEW tool \in Int
        PROVE  Append(p.tools, [tool |-> tool, block |-> p.block + 1]) \in Seq(Calls)
    <2> DEFINE call == [tool |-> tool, block |-> p.block + 1]
    <2>1. call \in Calls /\ p.tools \in Seq(Calls)
      BY <1>3 DEF ParserTyped
    <2> HIDE DEF call
    <2>2. Append(p.tools, call) \in Seq(Calls)
      BY <2>1, AppendProperties
    <2> QED
      BY <2>2 DEF call
  <1>5. ASSUME NEW tool \in Int, NEW args
        PROVE  ParserTyped(ParseOpenAITool(p, tool, args).parser)
    <2>1. ParseOpenAITool(p, tool, args).parser =
            IF \E i \in DOMAIN p.tools : p.tools[i].tool = tool THEN p
            ELSE [p EXCEPT !.block = @ + 1, !.text = FALSE,
                           !.tools = Append(@, [tool |-> tool, block |-> p.block + 1])]
      BY DEF ParseOpenAITool
    <2> DEFINE more == Append(p.tools, [tool |-> tool, block |-> p.block + 1])
    <2>2. more \in Seq(Calls)
      BY <1>4
    <2>3. [p EXCEPT !.block = p.block + 1, !.text = FALSE, !.tools = more]
             \in [block : Nat \cup {None}, text : BOOLEAN, tools : Seq(Calls),
                  reason : Reasons, usage : Nat]
      <3> HIDE DEF more
      <3> QED
        BY <1>1, <2>2 DEF ParserTyped
    <2>4. ~[p EXCEPT !.block = p.block + 1, !.text = FALSE, !.tools = more].text
      <3> HIDE DEF more
      <3> QED
        BY DEF ParserTyped
    <2> QED
      BY <2>1, <2>3, <2>4 DEF ParserTyped
  <1>6. ASSUME NEW tool \in Int, NEW args
        PROVE  /\ ParserTyped(ParseGeminiTool(p, tool, args).parser)
               /\ ~ParseGeminiTool(p, tool, args).parser.text
    <2> DEFINE more == Append(p.tools, [tool |-> tool, block |-> p.block + 1])
    <2>1. ParseGeminiTool(p, tool, args).parser =
             [p EXCEPT !.block = p.block + 1, !.text = FALSE, !.tools = more]
      BY DEF ParseGeminiTool
    <2>2. more \in Seq(Calls)
      BY <1>4
    <2> HIDE DEF more
    <2>3. [p EXCEPT !.block = p.block + 1, !.text = FALSE, !.tools = more]
             \in [block : Nat \cup {None}, text : BOOLEAN, tools : Seq(Calls),
                  reason : Reasons, usage : Nat]
      BY <1>1, <2>2 DEF ParserTyped
    <2>4. ~[p EXCEPT !.block = p.block + 1, !.text = FALSE, !.tools = more].text
      BY DEF ParserTyped
    <2> QED
      BY <2>1, <2>3, <2>4 DEF ParserTyped
  <1>7. ASSUME NEW r \in Reasons
        PROVE  /\ ParserTyped(ParseFinish(p, r).parser)
               /\ ParseFinish(p, r).parser.text = p.text
    BY DEF ParserTyped, ParseFinish
  <1>8. ASSUME NEW n \in Nat
        PROVE  /\ ParserTyped(ParseUsage(p, n).parser)
               /\ ParseUsage(p, n).parser.text = p.text
    BY DEF ParserTyped, ParseUsage
  <1>9. ASSUME NEW c
        PROVE  ParserTyped(ParseAnthropic(p, c).parser)
    <2> DEFINE q == [p EXCEPT !.block = p.block + 1]
    <2>1. ParseAnthropic(p, c).parser \in {p, q}
      <3> DEFINE k == c.kind
      <3> HIDE DEF q
      <3> QED
        BY DEF ParseAnthropic, q
    <2>2. ParserTyped([p EXCEPT !.block = p.block + 1])
      BY <1>1 DEF ParserTyped
    <2> QED
      BY <2>1, <2>2
  <1>10. \A tool \in Int : \A args : ParserTyped(ParseOpenAITool(p, tool, args).parser)
    BY <1>5
  <1>11. \A tool \in Int : \A args : /\ ParserTyped(ParseGeminiTool(p, tool, args).parser)
                                     /\ ~ParseGeminiTool(p, tool, args).parser.text
    BY <1>6
  <1> QED
    BY <1>2, <1>7, <1>8, <1>9, <1>10, <1>11

-----------------------------------------------------------------------------
(* One step of the stream: what it adds to what was sent, and what it makes   *)
(* of what the client has.                                                   *)

LEMMA PendingIs ==
    ASSUME NEW events, Len(events) \in Nat
    PROVE  LET after == PassAll(Pending, events)
           IN  after = [held |-> after.held, writer |-> after.writer, client |-> after.client]
  <1> DEFINE n == Len(events)
  <1> DEFINE Record(r) == r = [held |-> r.held, writer |-> r.writer, client |-> r.client]
  <1>1. PICK h : Passes(Pending, events, h) /\ h[n] = PassAll(Pending, events)
    BY PassTable
  <1>2. \A x, y, z : Record([held |-> x, writer |-> y, client |-> z])
    OBVIOUS
  <1>3. Record(Pending)
    BY DEF Pending
  <1>4. \A acc, ev : Record(Pass(acc, ev))
    <2> SUFFICES ASSUME NEW acc, NEW ev PROVE Record(Pass(acc, ev))
      OBVIOUS
    <2>1. \E x, y, z : Pass(acc, ev) = [held |-> x, writer |-> y, client |-> z]
      BY Zenon DEF Pass
    <2> HIDE DEF Record
    <2> QED
      BY <1>2, <2>1
  <1> HIDE DEF Record
  <1>5. CASE n = 0
    <2>1. h[n] = Pending
      BY <1>1, <1>5 DEF Passes
    <2> QED
      BY <1>1, <1>3, <2>1 DEF Record
  <1>6. CASE n # 0
    <2>1. n \in 1..n
      BY <1>6
    <2>2. h[n] = Pass(h[n - 1], events[n])
      BY <1>1, <2>1 DEF Passes
    <2> QED
      BY <1>1, <1>4, <2>2 DEF Record
  <1> QED
    BY <1>5, <1>6

LEMMA DeliverIs ==
    ASSUME NEW events, Len(events) \in Nat, Deliver(events)
    PROVE  Pending' = PassAll(Pending, events)
  <1> DEFINE after == PassAll(Pending, events)
  <1>1. held' = after.held /\ writer' = after.writer /\ client' = after.client
    BY DEF Deliver
  <1>2. after = [held |-> after.held, writer |-> after.writer, client |-> after.client]
    BY PendingIs
  <1> HIDE DEF after
  <1>3. Pending' = after
    BY <1>1, <1>2 DEF Pending
  <1> QED
    BY <1>3 DEF after

LEMMA TakeIs ==
    ASSUME NEW chunk, NEW parsed, Len(parsed.events) \in Nat, Take(chunk, parsed)
    PROVE  /\ sent' = Append(sent, chunk) /\ parser' = parsed.parser
           /\ Pending' = PassAll(Pending, parsed.events)
           /\ provider' = provider /\ dialect' = dialect /\ warden' = warden /\ ended' = ended
  BY DeliverIs DEF Take

-----------------------------------------------------------------------------
(* The events of each chunk. *)

IsEvents(events) == \E E : events \in Seq(E)

LEMMA EventsAre ==
    /\ IsEvents(<<>>)
    /\ \A x : IsEvents(<<x>>)
    /\ \A x, y : IsEvents(<<x, y>>) /\ <<x>> \o <<y>> = <<x, y>>
    /\ \A x, y, z : IsEvents(<<x, y, z>>)
    /\ \A a, b : IsEvents(a) /\ IsEvents(b) => IsEvents(a \o b)
    /\ \A a, b, c : IsEvents(a) /\ IsEvents(b) /\ IsEvents(c) => (a \o b) \o c = a \o (b \o c)
    /\ \A a : IsEvents(a) => Len(a) \in Nat /\ a \o <<>> = a
    /\ \A start, a, b : IsEvents(a) /\ IsEvents(b) =>
          PassAll(start, a \o b) = PassAll(PassAll(start, a), b)
  <1>1. ASSUME NEW a, NEW b, IsEvents(a), IsEvents(b)
        PROVE  \E E : a \in Seq(E) /\ b \in Seq(E)
    <2>1. PICK D : a \in Seq(D)
      BY <1>1 DEF IsEvents
    <2>2. PICK E : b \in Seq(E)
      BY <1>1 DEF IsEvents
    <2> DEFINE U == D \cup E
    <2>3. a \in Seq(U) /\ b \in Seq(U)
      BY <2>1, <2>2
    <2> HIDE DEF U
    <2> QED
      BY <2>3
  <1>2. ASSUME NEW x, NEW y, NEW z
        PROVE  /\ IsEvents(<<>>) /\ IsEvents(<<x>>) /\ IsEvents(<<x, y>>) /\ IsEvents(<<x, y, z>>)
               /\ <<x>> \o <<y>> = <<x, y>>
    <2> DEFINE S == {x, y, z}
    <2>1. <<>> \in Seq(S) /\ <<x>> \in Seq(S) /\ <<x, y>> \in Seq(S) /\ <<x, y, z>> \in Seq(S)
      OBVIOUS
    <2>2. <<x>> \o <<y>> = <<x, y>>
      BY IsSeqFew, IsSeqAppend
    <2> HIDE DEF S
    <2> QED
      BY <2>1, <2>2, Zenon DEF IsEvents
  <1>3. ASSUME NEW a, NEW b, IsEvents(a), IsEvents(b)
        PROVE  IsEvents(a \o b) /\ \A start : PassAll(start, a \o b) = PassAll(PassAll(start, a), b)
    <2>1. PICK E : a \in Seq(E) /\ b \in Seq(E)
      BY <1>1, <1>3
    <2>2. a \o b \in Seq(E)
      BY <2>1, ConcatProperties
    <2> QED
      BY <2>1, <2>2, PassAllConcat DEF IsEvents
  <1>4. ASSUME NEW a, NEW b, NEW c, IsEvents(a), IsEvents(b), IsEvents(c)
        PROVE  (a \o b) \o c = a \o (b \o c)
    <2>1. PICK D : a \in Seq(D) /\ b \in Seq(D)
      BY <1>1, <1>4
    <2>2. PICK E : c \in Seq(E)
      BY <1>4 DEF IsEvents
    <2> DEFINE U == D \cup E
    <2>3. a \in Seq(U) /\ b \in Seq(U) /\ c \in Seq(U)
      BY <2>1, <2>2
    <2> HIDE DEF U
    <2> QED
      BY <2>3, ConcatAssociative
  <1>5. ASSUME NEW a, IsEvents(a) PROVE Len(a) \in Nat /\ a \o <<>> = a
    <2>1. PICK E : a \in Seq(E)
      BY <1>5 DEF IsEvents
    <2> QED
      BY <2>1, ConcatEmptySeq
  <1>6. \A x : IsEvents(<<x>>)
    BY <1>2
  <1>7. \A x, y : IsEvents(<<x, y>>) /\ <<x>> \o <<y>> = <<x, y>>
    BY <1>2
  <1>8. \A x, y, z : IsEvents(<<x, y, z>>)
    BY <1>2
  <1>9. \A a, b : IsEvents(a) /\ IsEvents(b) => IsEvents(a \o b)
    BY <1>3
  <1>10. \A a, b, c : IsEvents(a) /\ IsEvents(b) /\ IsEvents(c) => (a \o b) \o c = a \o (b \o c)
    BY <1>4
  <1>11. \A a : IsEvents(a) => Len(a) \in Nat /\ a \o <<>> = a
    BY <1>5
  <1>12. \A start, a, b : IsEvents(a) /\ IsEvents(b) =>
            PassAll(start, a \o b) = PassAll(PassAll(start, a), b)
    BY <1>3
  <1> QED
    BY <1>2, <1>6, <1>7, <1>8, <1>9, <1>10, <1>11, <1>12

\* A tool call that is known, and one that is not.
Known(p, tool) == \E i \in DOMAIN p.tools : p.tools[i].tool = tool
Opened(b, tool, args) ==
    IF args = None THEN <<Event("tool_call_start", b, tool)>>
    ELSE <<Event("tool_call_start", b, tool), Event("tool_call_delta", b, args)>>
WithCall(p, tool) ==
    [p EXCEPT !.block = @ + 1, !.text = FALSE,
              !.tools = Append(@, [tool |-> tool, block |-> p.block + 1])]

Resulting(p, tool) == IF Known(p, tool) THEN p ELSE WithCall(p, tool)
PlaceOf(q, tool) == CHOOSE i \in DOMAIN q.tools : q.tools[i].tool = tool
DeltaFor(q, tool, args) ==
    IF args = None THEN <<>>
    ELSE <<Event("tool_call_delta", q.tools[PlaceOf(q, tool)].block, args)>>
CallOpening(p, q, tool) ==
    IF Known(p, tool) THEN <<>>
    ELSE CloseText(p) \o <<Event("tool_call_start", q.block, tool)>>

ToolParsed(p, tool, args, r) ==
    /\ Known(p, tool) =>
          /\ r.parser = p
          /\ \E i \in DOMAIN p.tools :
                /\ p.tools[i].tool = tool
                /\ r.events = IF args = None THEN <<>>
                              ELSE <<Event("tool_call_delta", p.tools[i].block, args)>>
    /\ ~Known(p, tool) =>
          /\ r.parser = WithCall(p, tool)
          /\ r.events = CloseText(p) \o Opened(p.block + 1, tool, args)

LEMMA OpenAIToolIs ==
    ASSUME NEW p, ParserTyped(p), NEW tool, NEW args
    PROVE  ToolParsed(p, tool, args, ParseOpenAITool(p, tool, args))
  <1> DEFINE r == ParseOpenAITool(p, tool, args)
  <1> DEFINE q == WithCall(p, tool)
  <1> DEFINE call == [tool |-> tool, block |-> p.block + 1]
  <1>0. LET u == Resulting(p, tool)
        IN  r.parser = u /\ r.events = CallOpening(p, u, tool) \o DeltaFor(u, tool, args)
    <2> DEFINE u == Resulting(p, tool)
    <2> DEFINE es == CallOpening(p, u, tool) \o DeltaFor(u, tool, args)
    <2>1. r = [parser |-> u, events |-> es]
      BY Zenon DEF ParseOpenAITool, Resulting, Known, WithCall, CallOpening, DeltaFor, PlaceOf
    <2> HIDE DEF u, es
    <2>2. r.parser = u /\ r.events = es
      BY <2>1
    <2> QED
      BY <2>2 DEF u, es
  <1>1. CASE Known(p, tool)
    <2> DEFINE at == PlaceOf(p, tool)
    <2>1. at \in DOMAIN p.tools /\ p.tools[at].tool = tool
      BY <1>1 DEF Known, PlaceOf
    <2> DEFINE delta == DeltaFor(p, tool, args)
    <2>2. r.parser = p /\ r.events = <<>> \o delta
      BY <1>0, <1>1 DEF Resulting, CallOpening
    <2>3. delta = IF args = None THEN <<>>
                  ELSE <<Event("tool_call_delta", p.tools[at].block, args)>>
      BY DEF DeltaFor
    <2>4. <<>> \o delta = delta
      <3>1. IsEvents(delta)
        BY <2>3, EventsAre
      <3>2. PICK E : delta \in Seq(E)
        BY <3>1 DEF IsEvents
      <3> HIDE DEF delta
      <3> QED
        BY <3>2, ConcatEmptySeq
    <2>5. r.parser = p /\ r.events = IF args = None THEN <<>>
                                     ELSE <<Event("tool_call_delta", p.tools[at].block, args)>>
      BY <2>2, <2>3, <2>4
    <2> HIDE DEF at, r
    <2>6. ToolParsed(p, tool, args, r)
      BY <1>1, <2>1, <2>5 DEF ToolParsed
    <2> QED
      BY <2>6 DEF r
  <1>2. CASE ~Known(p, tool)
    <2> DEFINE at == PlaceOf(q, tool)
    <2> DEFINE delta == DeltaFor(q, tool, args)
    <2> DEFINE start == Event("tool_call_start", q.block, tool)
    <2>1. r.parser = q /\ r.events = (CloseText(p) \o <<start>>) \o delta
      BY <1>0, <1>2 DEF Resulting, CallOpening
    <2>2. q.tools = Append(p.tools, call) /\ q.block = p.block + 1
      BY DEF ParserTyped, WithCall
    <2>3. q.tools[at].block = p.block + 1
      <3> DEFINE S == Calls \cup {call}
      <3>1. p.tools \in Seq(S) /\ call \in S
        BY DEF ParserTyped
      <3> HIDE DEF S, call, q
      <3>2. /\ Append(p.tools, call) \in Seq(S) /\ Len(Append(p.tools, call)) = Len(p.tools) + 1
            /\ Append(p.tools, call)[Len(p.tools) + 1] = call
            /\ \A i \in 1..Len(p.tools) : Append(p.tools, call)[i] = p.tools[i]
        BY <3>1, AppendProperties
      <3>3. DOMAIN q.tools = 1..(Len(p.tools) + 1) /\ Len(p.tools) \in Nat
            /\ DOMAIN p.tools = 1..Len(p.tools)
        BY <2>2, <3>1, <3>2, LenProperties
      <3>4. q.tools[Len(p.tools) + 1].tool = tool /\ Len(p.tools) + 1 \in DOMAIN q.tools
        BY <2>2, <3>2, <3>3 DEF call
      <3>5. at \in DOMAIN q.tools /\ q.tools[at].tool = tool
        BY <3>4 DEF PlaceOf
      <3>6. at = Len(p.tools) + 1
        <4>1. at \notin 1..Len(p.tools)
          BY <1>2, <2>2, <3>2, <3>3, <3>5 DEF Known
        <4> HIDE DEF at
        <4> QED
          BY <3>3, <3>5, <4>1
      <3> HIDE DEF at
      <3> QED
        BY <2>2, <3>2, <3>6 DEF call
    <2>4. delta = IF args = None THEN <<>> ELSE <<Event("tool_call_delta", p.block + 1, args)>>
      <3> HIDE DEF q
      <3> QED
        BY <2>3 DEF DeltaFor
    <2>5. start = Event("tool_call_start", p.block + 1, tool)
      BY <2>2
    <2> HIDE DEF q, at, delta
    <2>6. IsEvents(CloseText(p)) /\ IsEvents(<<start>>) /\ IsEvents(delta)
      BY <2>4, EventsAre DEF CloseText
    <2>7. (CloseText(p) \o <<start>>) \o delta = CloseText(p) \o (<<start>> \o delta)
      <3> DEFINE one == <<start>>
      <3>1. IsEvents(CloseText(p)) /\ IsEvents(one) /\ IsEvents(delta)
        BY <2>6
      <3> HIDE DEF one
      <3>2. (CloseText(p) \o one) \o delta = CloseText(p) \o (one \o delta)
        BY <3>1, EventsAre
      <3> QED
        BY <3>2 DEF one
    <2>8. <<start>> \o delta = Opened(p.block + 1, tool, args)
      BY <2>4, <2>5, <2>6, EventsAre DEF Opened
    <2> HIDE DEF r
    <2>9. ToolParsed(p, tool, args, r)
      BY <1>2, <2>1, <2>7, <2>8 DEF q, ToolParsed
    <2> QED
      BY <2>9 DEF r
  <1> QED
    BY <1>1, <1>2

\* The events that open, fill and close blocks.
BlockKinds == {"content_block_start", "content_block_end", "tool_call_start", "tool_call_delta"}
BlockEvents(events) == EventsOf(BlockKinds, events)

LEMMA BlockEventsIs ==
    /\ BlockEvents(<<>>)
    /\ \A index, data : BlockEvents(<<Start(index, data)>>) /\ BlockEvents(<<End(index)>>)
    /\ \A i, j, data : BlockEvents(<<Start(i, data), End(j)>>)
    /\ \A index, data : BlockEvents(<<Event("tool_call_start", index, data)>>)
    /\ \A i, j, d, e : BlockEvents(<<Event("tool_call_start", i, d),
                                    Event("tool_call_delta", j, e)>>)
    /\ \A a, b : BlockEvents(a) /\ BlockEvents(b) => BlockEvents(a \o b)
    /\ \A events : BlockEvents(events) => QuietEvents(events) /\ IsEvents(events)
  <1>1. /\ \A index, data : EventOf(BlockKinds, Start(index, data))
        /\ \A index : EventOf(BlockKinds, End(index))
        /\ \A index, data : EventOf(BlockKinds, Event("tool_call_start", index, data))
        /\ \A index, data : EventOf(BlockKinds, Event("tool_call_delta", index, data))
    BY EventsOfIs DEF BlockKinds, Start, End
  <1>2. /\ BlockEvents(<<>>)
        /\ \A x : EventOf(BlockKinds, x) => BlockEvents(<<x>>)
        /\ \A x, y : EventOf(BlockKinds, x) /\ EventOf(BlockKinds, y) => BlockEvents(<<x, y>>)
        /\ \A a, b : BlockEvents(a) /\ BlockEvents(b) => BlockEvents(a \o b)
    BY EventsOfIs DEF BlockEvents
  <1>3. ASSUME NEW events, BlockEvents(events) PROVE QuietEvents(events) /\ IsEvents(events)
    <2>1. BlockKinds \subseteq QuietKinds
      BY DEF BlockKinds, QuietKinds
    <2> QED
      BY <1>3, <2>1, EventsOfMore DEF BlockEvents, QuietEvents, EventsOf, IsEvents
  <1>4. \A index, data : BlockEvents(<<Start(index, data)>>) /\ BlockEvents(<<End(index)>>)
    BY <1>1, <1>2, Zenon
  <1>5. \A i, j, data : BlockEvents(<<Start(i, data), End(j)>>)
    BY <1>1, <1>2, Zenon
  <1>6. \A index, data : BlockEvents(<<Event("tool_call_start", index, data)>>)
    BY <1>1, <1>2, Zenon
  <1>7. \A i, j, d, e : BlockEvents(<<Event("tool_call_start", i, d),
                                      Event("tool_call_delta", j, e)>>)
    BY <1>1, <1>2, Zenon
  <1>8. \A events : BlockEvents(events) => QuietEvents(events) /\ IsEvents(events)
    BY <1>3
  <1> QED
    BY <1>2, <1>4, <1>5, <1>6, <1>7, <1>8

LEMMA OpenedEvents ==
    ASSUME NEW p, NEW b, NEW tool, NEW args
    PROVE  /\ BlockEvents(CloseText(p)) /\ BlockEvents(Opened(b, tool, args))
           /\ QuietEvents(CloseText(p)) /\ QuietEvents(Opened(b, tool, args))
           /\ IsEvents(CloseText(p)) /\ IsEvents(Opened(b, tool, args))
  <1>1. BlockEvents(CloseText(p))
    BY BlockEventsIs DEF CloseText
  <1>2. BlockEvents(Opened(b, tool, args))
    BY BlockEventsIs DEF Opened
  <1> QED
    BY <1>1, <1>2, BlockEventsIs

\* The tail of a parser, in its parts.
TailEnds(p) ==
    IF provider = "openai" THEN [i \in DOMAIN p.tools |-> End(p.tools[i].block)] ELSE <<>>
TailEmpty(p) == IF p.block = None THEN <<Start(0, "text"), End(0)>> ELSE <<>>
TailClosing(p) ==
    <<Event("finish", None, StopReason(p)), Event("usage", None, p.usage),
      Event("stream_end", None, "")>>

LEMMA ParserTailIs ==
    ASSUME NEW p, ParserTyped(p)
    PROVE  /\ ParserTail(p) = ((CloseText(p) \o TailEnds(p)) \o TailEmpty(p)) \o TailClosing(p)
           /\ BlockEvents(CloseText(p)) /\ BlockEvents(TailEnds(p)) /\ BlockEvents(TailEmpty(p))
           /\ QuietEvents(ParserTail(p))
           /\ \A start : PassAll(start, ParserTail(p))
                = PassAll(PassAll(PassAll(PassAll(start, CloseText(p)), TailEnds(p)),
                                  TailEmpty(p)), TailClosing(p))
  <1>1. ParserTail(p) = ((CloseText(p) \o TailEnds(p)) \o TailEmpty(p)) \o TailClosing(p)
    BY Zenon DEF ParserTail, TailEnds, TailEmpty, TailClosing
  <1>2. BlockEvents(CloseText(p))
    BY OpenedEvents
  <1>3. BlockEvents(TailEnds(p))
    <2>1. CASE provider = "openai"
      <3> DEFINE E == {End(b) : b \in Nat}
      <3>1. p.tools \in Seq(Calls)
        BY DEF ParserTyped
      <3>2. DOMAIN p.tools = 1..Len(p.tools) /\ Len(p.tools) \in Nat
            /\ \A i \in 1..Len(p.tools) : p.tools[i].block \in Nat
        <4>1. DOMAIN p.tools = 1..Len(p.tools) /\ Len(p.tools) \in Nat
          BY <3>1, LenProperties
        <4>2. \A i \in 1..Len(p.tools) : p.tools[i] \in Calls
          BY <3>1
        <4>3. \A x \in Calls : x.block \in Nat
          BY DEF Calls
        <4> QED
          BY <4>1, <4>2, <4>3
      <3>3. TailEnds(p) = [i \in 1..Len(p.tools) |-> End(p.tools[i].block)]
        BY <2>1, <3>2 DEF TailEnds
      <3>4. \A i \in 1..Len(p.tools) : End(p.tools[i].block) \in E
        BY <3>2
      <3>5. \A x \in E : EventOf(BlockKinds, x)
        <4>1. \A b \in Nat : EventOf(BlockKinds, End(b))
          BY EventsOfIs DEF End, BlockKinds
        <4> QED
          BY <4>1
      <3> HIDE DEF E
      <3>6. TailEnds(p) \in Seq(E)
        BY <3>2, <3>3, <3>4
      <3> QED
        BY <3>5, <3>6 DEF BlockEvents, EventsOf
    <2>2. CASE provider # "openai"
      BY <2>2, BlockEventsIs DEF TailEnds
    <2> QED
      BY <2>1, <2>2
  <1>4. BlockEvents(TailEmpty(p))
    BY BlockEventsIs DEF TailEmpty
  <1>5. QuietEvents(TailClosing(p))
    <2> DEFINE e1 == Event("finish", None, StopReason(p))
    <2> DEFINE e2 == Event("usage", None, p.usage)
    <2> DEFINE e3 == Event("stream_end", None, "")
    <2>1. QuietEvent(e1) /\ QuietEvent(e2) /\ QuietEvent(e3)
      BY QuietEventsIs DEF QuietKinds
    <2>2. TailClosing(p) = <<e1, e2, e3>>
      BY DEF TailClosing
    <2> HIDE DEF e1, e2, e3
    <2> QED
      BY <2>1, <2>2, QuietEventsIs
  <1> DEFINE a == CloseText(p)
  <1> DEFINE b == TailEnds(p)
  <1> DEFINE c == TailEmpty(p)
  <1> DEFINE d == TailClosing(p)
  <1>5a. QuietEvents(a) /\ QuietEvents(b) /\ QuietEvents(c)
    BY <1>2, <1>3, <1>4, BlockEventsIs
  <1>6. QuietEvents(a \o b) /\ QuietEvents((a \o b) \o c) /\ QuietEvents(((a \o b) \o c) \o d)
    BY <1>5, <1>5a, QuietEventsIs
  <1>7. \A e : QuietEvents(e) => IsEvents(e)
    BY DEF QuietEvents, EventsOf, IsEvents
  <1>8. \A start : PassAll(start, ((a \o b) \o c) \o d)
                     = PassAll(PassAll(PassAll(PassAll(start, a), b), c), d)
    <2> SUFFICES ASSUME NEW start
                 PROVE  PassAll(start, ((a \o b) \o c) \o d)
                          = PassAll(PassAll(PassAll(PassAll(start, a), b), c), d)
      OBVIOUS
    <2>1. IsEvents(a) /\ IsEvents(b) /\ IsEvents(c) /\ IsEvents(d)
          /\ IsEvents(a \o b) /\ IsEvents((a \o b) \o c)
      BY <1>5, <1>5a, <1>6, <1>7
    <2> HIDE DEF a, b, c, d
    <2>2. PassAll(start, ((a \o b) \o c) \o d) = PassAll(PassAll(start, (a \o b) \o c), d)
      BY <2>1, EventsAre
    <2>3. PassAll(start, (a \o b) \o c) = PassAll(PassAll(start, a \o b), c)
      BY <2>1, EventsAre
    <2>4. PassAll(start, a \o b) = PassAll(PassAll(start, a), b)
      BY <2>1, EventsAre
    <2> QED
      BY <2>2, <2>3, <2>4
  <1> QED
    BY <1>1, <1>2, <1>3, <1>4, <1>5, <1>6, <1>8

-----------------------------------------------------------------------------
(* What the bookkeeping always is. *)

StreamTyped ==
    /\ <<provider, dialect>> \in Converted \cup {RawPair}
    /\ warden \in BOOLEAN
    /\ ParserTyped(parser)
    /\ IsSeq(sent)
    /\ provider = "anthropic" => OpenOf(sent) \in OpenKinds

LEMMA PairTyped ==
    ASSUME StreamTyped
    PROVE  /\ provider \in {"openai", "gemini", "anthropic", "raw"}
           /\ provider = "raw" <=> dialect = "raw"
           /\ dialect # "raw" => dialect \in Dialects
           /\ Len(sent) \in Nat /\ DOMAIN sent = 1..Len(sent) /\ NextPiece = Len(sent) + 1
  <1>1. \/ provider \in {"openai", "gemini", "anthropic"} /\ dialect \in Dialects
        \/ provider = "raw" /\ dialect = "raw"
    <2>1. <<provider, dialect>> \in {"openai", "gemini", "anthropic"} \X Dialects
          \/ <<provider, dialect>> = <<"raw", "raw">>
      BY DEF StreamTyped, Converted, RawPair, Dialects
    <2>2. \A x, y, A, B : <<x, y>> \in A \X B => x \in A /\ y \in B
      BY Zenon
    <2>3. \A x, y, a, b : <<x, y>> = <<a, b>> => x = a /\ y = b
      OBVIOUS
    <2>4. CASE <<provider, dialect>> \in {"openai", "gemini", "anthropic"} \X Dialects
      BY <2>2, <2>4, Zenon
    <2>5. CASE <<provider, dialect>> = <<"raw", "raw">>
      BY <2>3, <2>5, Zenon
    <2> QED
      BY <2>1, <2>4, <2>5
  <1>2. Len(sent) \in Nat /\ DOMAIN sent = 1..Len(sent)
    BY IsSeqAppend DEF StreamTyped
  <1> QED
    BY <1>1, <1>2 DEF Dialects, NextPiece

LEMMA TypedInit == Init => StreamTyped
  <1> SUFFICES ASSUME Init PROVE StreamTyped
    OBVIOUS
  <1>1. PICK pair \in Streams : provider = pair[1] /\ dialect = pair[2]
    BY DEF Init
  <1>2. <<provider, dialect>> \in Converted \cup {RawPair}
    <2>1. pair \in Converted \/ pair = RawPair
      BY StreamsAssumption
    <2>2. pair = <<pair[1], pair[2]>>
      BY <2>1 DEF Converted, RawPair
    <2> QED
      BY <1>1, <2>1, <2>2
  <1>3. warden \in BOOLEAN
    BY WardensAssumption DEF Init
  <1>4. ParserTyped(parser)
    <2>1. <<>> \in Seq(Calls)
      OBVIOUS
    <2>2. parser = [block |-> None, text |-> FALSE, tools |-> <<>>, reason |-> "", usage |-> 0]
      BY DEF Init, InitParser
    <2> QED
      BY <2>1, <2>2 DEF ParserTyped, Reasons
  <1>5. IsSeq(sent)
    BY IsSeqFew DEF Init
  <1>6. OpenOf(sent) = "none"
    <2>1. sent = <<>>
      BY DEF Init
    <2>2. StartsOf(sent) = {}
      BY <2>1 DEF StartsOf
    <2> QED
      BY <2>2 DEF OpenOf
  <1> QED
    BY <1>2, <1>3, <1>4, <1>5, <1>6 DEF StreamTyped, OpenKinds

LEMMA TypedStep == StreamTyped /\ [Next]_vars => StreamTyped'
  <1> SUFFICES ASSUME StreamTyped, [Next]_vars PROVE StreamTyped'
    OBVIOUS
  <1>1. /\ <<provider, dialect>> \in Converted \cup {RawPair} /\ warden \in BOOLEAN
        /\ ParserTyped(parser) /\ IsSeq(sent)
        /\ provider = "anthropic" => OpenOf(sent) \in OpenKinds
    BY DEF StreamTyped
  <1>2. \A x : IsSeq(Append(sent, x))
    BY <1>1, IsSeqAppend
  <1>3. Len(sent) + 1 \in Int
    BY PairTyped
  <1>4. ASSUME NEW chunk, NEW parsed, Take(chunk, parsed), ParserTyped(parsed.parser),
               provider # "anthropic"
        PROVE  StreamTyped'
    <2>1. /\ sent' = Append(sent, chunk) /\ parser' = parsed.parser
          /\ provider' = provider /\ dialect' = dialect /\ warden' = warden
      BY <1>4 DEF Take
    <2> QED
      BY <1>1, <1>2, <1>4, <2>1 DEF StreamTyped
  <1>5. CASE Open
    BY <1>1, <1>5 DEF Open, StreamTyped
  <1>6. CASE SendText
    <2>1. PICK f \in Fragments : Take(Chunk("text", None, f), ParseText(parser, f))
      BY <1>6 DEF SendText
    <2>2. ParserTyped(ParseText(parser, f).parser) /\ provider # "anthropic"
      BY <1>1, <1>6, ParsesTyped DEF SendText
    <2> QED
      BY <1>4, <2>1, <2>2
  <1>7. CASE SendToolPiece
    <2>1. PICK t \in Tools, args \in {None, NextPiece} :
             Take(Chunk("tool", t, args), ParseOpenAITool(parser, t, args))
      BY <1>7 DEF SendToolPiece
    <2>2. ParserTyped(ParseOpenAITool(parser, t, args).parser) /\ provider # "anthropic"
      <3>1. t \in Int
        BY ToolsAssumption
      <3> QED
        BY <1>1, <1>7, <3>1, ParsesTyped DEF SendToolPiece
    <2> QED
      BY <1>4, <2>1, <2>2
  <1>8. CASE SendFunctionCall
    <2> DEFINE n == Len(sent) + 1
    <2>1. Take(Chunk("tool", n, n), ParseGeminiTool(parser, n, n))
      BY <1>8 DEF SendFunctionCall, NextPiece
    <2>2. ParserTyped(ParseGeminiTool(parser, n, n).parser) /\ provider # "anthropic"
      BY <1>1, <1>3, <1>8, ParsesTyped DEF SendFunctionCall
    <2> QED
      BY <1>4, <2>1, <2>2
  <1>9. CASE SendFinish
    <2>1. PICK reason \in {"stop", "tool_use", "content_filter"} :
             Take(Chunk("finish", None, reason), ParseFinish(parser, reason))
      BY <1>9 DEF SendFinish
    <2>2. ParserTyped(ParseFinish(parser, reason).parser) /\ provider # "anthropic"
      <3>1. reason \in Reasons
        BY DEF Reasons
      <3> QED
        BY <1>1, <1>9, <3>1, ParsesTyped DEF SendFinish
    <2> QED
      BY <1>4, <2>1, <2>2
  <1>10. CASE SendUsage
    <2>1. PICK count \in 0..1 : Take(Chunk("usage", None, count), ParseUsage(parser, count))
      BY <1>10 DEF SendUsage
    <2>2. ParserTyped(ParseUsage(parser, count).parser) /\ provider # "anthropic"
      BY <1>1, <1>10, ParsesTyped DEF SendUsage
    <2> QED
      BY <1>4, <2>1, <2>2
  <1>11. CASE EndOfBody \/ Cut \/ EndOfRaw
    BY <1>1, <1>11 DEF EndOfBody, Cut, EndOfRaw, StreamTyped
  <1>12. CASE SendMessage
    <2>1. PICK c \in AnthropicChunks : Take(c, ParseAnthropic(parser, c))
      BY <1>12 DEF SendMessage
    <2>2. provider = "anthropic"
      BY <1>12 DEF SendMessage
    <2>3. OpenOf(Append(sent, c)) \in OpenKinds
      BY <1>1, <2>2, SendsMaySend, OpenKindsKept
    <2>4. ParserTyped(ParseAnthropic(parser, c).parser)
      BY <1>1, ParsesTyped
    <2>5. /\ sent' = Append(sent, c) /\ parser' = ParseAnthropic(parser, c).parser
          /\ provider' = provider /\ dialect' = dialect /\ warden' = warden
      BY <2>1 DEF Take
    <2> QED
      BY <1>1, <1>2, <2>3, <2>4, <2>5 DEF StreamTyped
  <1>13. CASE ReadRaw
    <2>1. provider # "anthropic"
      BY <1>13 DEF ReadRaw
    <2>2. PICK bytes : sent' = Append(sent, Chunk("text", None, bytes))
      BY <1>13 DEF ReadRaw
    <2>3. UNCHANGED <<provider, dialect, warden, parser>>
      BY <1>13 DEF ReadRaw
    <2> QED
      BY <1>1, <1>2, <2>1, <2>2, <2>3 DEF StreamTyped
  <1>14. CASE UNCHANGED vars
    BY <1>1, <1>14 DEF vars, StreamTyped
  <1> QED
    BY <1>5, <1>6, <1>7, <1>8, <1>9, <1>10, <1>11, <1>12, <1>13, <1>14 DEF Next

-----------------------------------------------------------------------------
(* The text, followed from the provider to the client. *)

SentPlaces(s) == {i \in DOMAIN s : s[i].kind \in {"text", "thinking"}}
SentTextOf(s) == TextAt(s, SentPlaces(s))
Heard(d, s) == d = "openai" => \A i \in DOMAIN s : s[i].kind # "thinking"

\* A block with text is open.
InText(p, ps, s) == IF p = "anthropic" THEN OpenOf(s) \in {"text", "thinking"} ELSE ps.text

\* One chunk more adds its text, if it has one.
LEMMA SentTextAppend ==
    ASSUME NEW s, IsSeq(s), TextsAt(s, SentPlaces(s)), NEW c,
           c.kind \in {"text", "thinking"} => c.data \in Text
    PROVE  /\ TextsAt(Append(s, c), SentPlaces(Append(s, c)))
           /\ SentTextOf(Append(s, c)) = IF c.kind \in {"text", "thinking"}
                                         THEN SentTextOf(s) \o c.data ELSE SentTextOf(s)
           /\ \A d : Heard(d, Append(s, c)) => /\ Heard(d, s)
                                               /\ d = "openai" => c.kind # "thinking"
  <1> DEFINE t == Append(s, c)
  <1>1. /\ Len(s) \in Nat /\ DOMAIN s = 1..Len(s)
        /\ DOMAIN t = 1..(Len(s) + 1) /\ t[Len(s) + 1] = c
        /\ \A i \in 1..Len(s) : t[i] = s[i]
    BY IsSeqAppend
  <1>2. PICK S : s \in Seq(S) /\ c \in S
    BY IsSeqAppend
  <1> HIDE DEF t
  <1>3. \A i \in 1..Len(s) : i \in SentPlaces(s) <=> i \in SentPlaces(t)
    BY <1>1 DEF SentPlaces
  <1>4. Len(s) + 1 \in SentPlaces(t) <=> c.kind \in {"text", "thinking"}
    BY <1>1 DEF SentPlaces
  <1>5. Len(s) + 1 \in SentPlaces(t) => c.data \in Text
    BY <1>4
  <1>6. /\ TextsAt(Append(s, c), SentPlaces(t))
        /\ TextAt(Append(s, c), SentPlaces(t))
             = IF Len(s) + 1 \in SentPlaces(t) THEN TextAt(s, SentPlaces(s)) \o c.data
               ELSE TextAt(s, SentPlaces(s))
    BY <1>2, <1>3, <1>5, TextAtAppend
  <1>7. \A d : Heard(d, t) => Heard(d, s) /\ (d = "openai" => c.kind # "thinking")
    <2>1. Len(s) + 1 \in DOMAIN t /\ \A i \in DOMAIN s : i \in DOMAIN t /\ t[i] = s[i]
      BY <1>1
    <2> QED
      BY <1>1, <2>1 DEF Heard
  <1> QED
    BY <1>4, <1>6, <1>7 DEF t, SentTextOf

\* An open block with text is asked of less.
LEMMA TextKLess ==
    ASSUME NEW d, NEW wd, NEW acc, NEW text, NEW a, NEW b, TextK(d, wd, acc, text, a), b => a
    PROVE  TextK(d, wd, acc, text, b)
  BY DEF TextK

TextInv ==
    /\ TextsAt(sent, SentPlaces(sent))
    /\ Heard(dialect, sent) =>
          IF dialect = "raw" /\ ended
          THEN /\ held = <<>>
               /\ ClientText(client) = (IF warden THEN Resolve(SentTextOf(sent))
                                        ELSE SentTextOf(sent))
          ELSE TextK(dialect, warden, Pending, SentTextOf(sent),
                     ~ended /\ InText(provider, parser, sent))

\* A chunk that is taken keeps TextInv if its events keep TextK.
LEMMA TextTaken ==
    ASSUME StreamTyped, TextInv, dialect # "raw", ~ended,
           NEW chunk, NEW parsed, Len(parsed.events) \in Nat, Take(chunk, parsed),
           chunk.kind \in {"text", "thinking"} => chunk.data \in Text,
           \A text : /\ TextK(dialect, warden, Pending, text, InText(provider, parser, sent))
                     /\ dialect = "openai" => chunk.kind # "thinking"
              => TextK(dialect, warden, PassAll(Pending, parsed.events),
                       IF chunk.kind \in {"text", "thinking"} THEN text \o chunk.data ELSE text,
                       InText(provider, parsed.parser, Append(sent, chunk)))
    PROVE  TextInv'
  <1> DEFINE text == SentTextOf(sent)
  <1>1. /\ sent' = Append(sent, chunk) /\ parser' = parsed.parser
        /\ Pending' = PassAll(Pending, parsed.events)
        /\ provider' = provider /\ dialect' = dialect /\ warden' = warden /\ ended' = ended
    BY TakeIs
  <1>2. /\ TextsAt(sent', SentPlaces(sent'))
        /\ SentTextOf(sent') = IF chunk.kind \in {"text", "thinking"}
                               THEN text \o chunk.data ELSE text
        /\ Heard(dialect, sent') => Heard(dialect, sent) /\ (dialect = "openai" => chunk.kind # "thinking")
    BY <1>1, SentTextAppend DEF StreamTyped, TextInv
  <1>3. ASSUME Heard(dialect, sent')
        PROVE  TextK(dialect, warden, Pending', SentTextOf(sent'), InText(provider, parser', sent'))
    <2>1. Heard(dialect, sent) /\ (dialect = "openai" => chunk.kind # "thinking")
      BY <1>2, <1>3
    <2>2. TextK(dialect, warden, Pending, text, InText(provider, parser, sent))
      <3>1. TextK(dialect, warden, Pending, text, ~ended /\ InText(provider, parser, sent))
        BY <2>1 DEF TextInv
      <3> HIDE DEF text
      <3> QED
        BY <3>1, TextKLess
    <2>3. TextK(dialect, warden, PassAll(Pending, parsed.events),
                IF chunk.kind \in {"text", "thinking"} THEN text \o chunk.data ELSE text,
                InText(provider, parsed.parser, Append(sent, chunk)))
      <3> HIDE DEF text
      <3> QED
        BY <2>1, <2>2
    <2> QED
      BY <1>1, <1>2, <2>3
  <1>4. ASSUME Heard(dialect, sent')
        PROVE  TextK(dialect, warden, Pending', SentTextOf(sent'),
                     ~ended /\ InText(provider, parser', sent'))
    BY <1>3, <1>4, TextKLess
  <1> QED
    BY <1>1, <1>2, <1>4 DEF TextInv

\* A chunk whose events carry no text, taken while no block with text need be
\* open afterwards.
LEMMA QuietTaken ==
    ASSUME StreamTyped, TextInv, dialect # "raw", ~ended,
           NEW chunk, NEW parsed, Take(chunk, parsed), chunk.kind \notin {"text", "thinking"},
           QuietEvents(parsed.events),
           InText(provider, parsed.parser, Append(sent, chunk)) =>
              \/ parsed.events = <<>> /\ InText(provider, parser, sent)
              \/ \E kind \in QuietKinds : \E index, data :
                    /\ parsed.events = <<Event(kind, index, data)>>
                    /\ \/ kind \in {"content_block_start", "tool_call_start"}
                       \/ InText(provider, parser, sent) /\ kind # "content_block_end"
    PROVE  TextInv'
  <1> DEFINE before == InText(provider, parser, sent)
  <1> DEFINE after == InText(provider, parsed.parser, Append(sent, chunk))
  <1>1. dialect \in Dialects
    BY PairTyped
  <1>2. Len(parsed.events) \in Nat
    BY EventsAre DEF QuietEvents, EventsOf, IsEvents
  <1>3. ASSUME NEW text, TextK(dialect, warden, Pending, text, before)
        PROVE  TextK(dialect, warden, PassAll(Pending, parsed.events), text, after)
    <2> HIDE DEF before, after
    <2>1. CASE ~after
      <3>1. TextK(dialect, warden, PassAll(Pending, parsed.events), text, FALSE)
        BY <1>1, <1>3, QuietSteps
      <3> QED
        BY <2>1, <3>1, TextKLess
    <2>2. CASE parsed.events = <<>> /\ before
      <3>1. PassAll(Pending, parsed.events) = Pending
        BY <2>2, PassAllFew
      <3> QED
        BY <1>3, <2>2, <3>1, TextKLess
    <2>3. ASSUME NEW kind \in QuietKinds, NEW index, NEW data,
                 parsed.events = <<Event(kind, index, data)>>,
                 \/ kind \in {"content_block_start", "tool_call_start"}
                 \/ before /\ kind # "content_block_end"
          PROVE  TextK(dialect, warden, PassAll(Pending, parsed.events), text, after)
      <3>1. PassAll(Pending, parsed.events) = Pass(Pending, Event(kind, index, data))
        BY <2>3, PassAllFew
      <3>2. TextK(dialect, warden, Pass(Pending, Event(kind, index, data)), text, after)
        BY <1>1, <1>3, <2>3, QuietStep
      <3> QED
        BY <3>1, <3>2
    <2> QED
      BY <2>1, <2>2, <2>3 DEF before, after
  <1>4. \A text : /\ TextK(dialect, warden, Pending, text, InText(provider, parser, sent))
                  /\ dialect = "openai" => chunk.kind # "thinking"
           => TextK(dialect, warden, PassAll(Pending, parsed.events),
                    IF chunk.kind \in {"text", "thinking"} THEN text \o chunk.data ELSE text,
                    InText(provider, parsed.parser, Append(sent, chunk)))
    BY <1>3
  <1> QED
    BY <1>2, <1>4, TextTaken

\* A chunk with one piece of text for the block that is open.
LEMMA PieceTaken ==
    ASSUME StreamTyped, TextInv, dialect # "raw", ~ended,
           NEW f \in Fragments, NEW kind \in {"text", "thinking"}, NEW parsed,
           Take(Chunk(kind, None, f), parsed), NEW index,
           parsed.events = <<Event(IF kind = "text" THEN "text_delta" ELSE "reasoning_delta",
                                   index, f)>>,
           InText(provider, parser, sent)
    PROVE  TextInv'
  <1> DEFINE chunk == Chunk(kind, None, f)
  <1> DEFINE delta == IF kind = "text" THEN "text_delta" ELSE "reasoning_delta"
  <1>1. dialect \in Dialects
    BY PairTyped
  <1>2. Len(parsed.events) \in Nat
    <2> DEFINE e == Event(delta, index, f)
    <2>1. parsed.events = <<e>>
      OBVIOUS
    <2> HIDE DEF e
    <2> QED
      BY <2>1
  <1>3. f \in Text /\ f # <<>> /\ chunk.kind = kind /\ chunk.data = f
    BY TextsAssumption DEF Text, Chunk
  <1>4. delta \in TextKinds /\ (kind # "thinking" => delta = "text_delta")
    BY DEF TextKinds
  <1> HIDE DEF chunk, delta
  <1>5. ASSUME NEW text, TextK(dialect, warden, Pending, text, InText(provider, parser, sent)),
               dialect = "openai" => kind # "thinking"
        PROVE  TextK(dialect, warden, PassAll(Pending, parsed.events), text \o f,
                     InText(provider, parsed.parser, Append(sent, chunk)))
    <2>1. PassAll(Pending, parsed.events) = Pass(Pending, Event(delta, index, f))
      BY PassAllFew DEF delta
    <2>2. TextK(dialect, warden, Pending, text, TRUE)
      BY <1>5
    <2>3. TextK(dialect, warden, Pass(Pending, Event(delta, index, f)), text \o f, TRUE)
      BY <1>1, <1>3, <1>4, <1>5, <2>2, TextStep
    <2> QED
      BY <2>1, <2>3, TextKLess
  <1>6. \A text : /\ TextK(dialect, warden, Pending, text, InText(provider, parser, sent))
                  /\ dialect = "openai" => chunk.kind # "thinking"
           => TextK(dialect, warden, PassAll(Pending, parsed.events),
                    IF chunk.kind \in {"text", "thinking"} THEN text \o chunk.data ELSE text,
                    InText(provider, parsed.parser, Append(sent, chunk)))
    BY <1>3, <1>5
  <1>7. Take(chunk, parsed)
    BY DEF chunk
  <1> QED
    BY <1>2, <1>3, <1>6, <1>7, TextTaken

\* What anthropicSSEToIR makes of each message of the provider.
LEMMA AnthropicParsed ==
    ASSUME NEW p, NEW c
    PROVE  /\ c.kind = "block_start" /\ c.data \in {"text", "thinking"} =>
                 \E index, data :
                    ParseAnthropic(p, c).events = <<Event("content_block_start", index, data)>>
           /\ c.kind = "tool_start" =>
                 ParseAnthropic(p, c).events = <<Event("tool_call_start", p.block + 1, c.tool)>>
           /\ c.kind = "text" =>
                 ParseAnthropic(p, c).events = <<Event("text_delta", p.block, c.data)>>
           /\ c.kind = "thinking" =>
                 ParseAnthropic(p, c).events = <<Event("reasoning_delta", p.block, c.data)>>
           /\ c.kind = "signature" =>
                 ParseAnthropic(p, c).events = <<Event("signature_delta", p.block, "")>>
           /\ c.kind = "args" =>
                 ParseAnthropic(p, c).events = <<Event("tool_call_delta", p.block, c.data)>>
           /\ c.kind = "block_stop" => ParseAnthropic(p, c).events = <<End(p.block)>>
           /\ c.kind = "message_delta" =>
                 ParseAnthropic(p, c).events = <<Event("finish", None, c.data.reason),
                                                 Event("usage", None, c.data.usage)>>
           /\ c.kind = "message_stop" =>
                 ParseAnthropic(p, c).events = <<Event("stream_end", None, "")>>
  <1> DEFINE r == ParseAnthropic(p, c)
  <1>1. CASE c.kind = "block_start" /\ c.data \in {"text", "thinking"}
    <2>1. CASE c.data = "thinking"
      <3>1. r.events = <<Event("content_block_start", p.block + 1, "reasoning")>>
        BY <1>1, <2>1 DEF ParseAnthropic, Start
      <3> QED
        BY <1>1, <3>1
    <2>2. CASE c.data = "text"
      <3>1. r.events = <<Event("content_block_start", p.block + 1, "text")>>
        BY <1>1, <2>2 DEF ParseAnthropic, Start
      <3> QED
        BY <1>1, <3>1
    <2> QED
      BY <1>1, <2>1, <2>2
  <1>2. CASE c.kind = "tool_start"
    BY <1>2 DEF ParseAnthropic
  <1>3. CASE c.kind = "text"
    BY <1>3 DEF ParseAnthropic
  <1>4. CASE c.kind = "thinking"
    BY <1>4 DEF ParseAnthropic
  <1>5. CASE c.kind = "signature"
    BY <1>5 DEF ParseAnthropic
  <1>6. CASE c.kind = "args"
    BY <1>6 DEF ParseAnthropic
  <1>7. CASE c.kind = "block_stop"
    BY <1>7 DEF ParseAnthropic
  <1>8. CASE c.kind = "message_delta"
    BY <1>8 DEF ParseAnthropic
  <1>9. CASE c.kind = "message_stop"
    BY <1>9 DEF ParseAnthropic
  <1> QED
    BY <1>1, <1>2, <1>3, <1>4, <1>5, <1>6, <1>7, <1>8, <1>9

\* The same of the events in themselves, for a block at place b.
AnthropicTold(c, b, events) ==
    /\ c.kind = "text" => events = <<Event("text_delta", b, c.data)>>
    /\ c.kind = "thinking" => events = <<Event("reasoning_delta", b, c.data)>>
    /\ c.kind = "signature" => \E nil : events = <<Event("signature_delta", b, nil)>>
    /\ c.kind = "args" => events = <<Event("tool_call_delta", b, c.data)>>
    /\ c.kind = "block_stop" => events = <<End(b)>>
    /\ c.kind = "message_delta" =>
          \E x, y : events = <<Event("finish", None, x), Event("usage", None, y)>>
    /\ c.kind = "message_stop" => \E nil : events = <<Event("stream_end", None, nil)>>

\* So it is with what the parser makes of a chunk.
LEMMA AnthropicTells ==
    ASSUME NEW p, NEW c
    PROVE  AnthropicTold(c, p.block, ParseAnthropic(p, c).events)
  <1>1. PICK events : events = ParseAnthropic(p, c).events
    OBVIOUS
  <1>2. PICK b : b = p.block
    OBVIOUS
  <1>3. c.kind = "text" => events = <<Event("text_delta", b, c.data)>>
    BY <1>1, <1>2 DEF ParseAnthropic
  <1>4. c.kind = "thinking" => events = <<Event("reasoning_delta", b, c.data)>>
    BY <1>1, <1>2 DEF ParseAnthropic
  <1>5. c.kind = "signature" => \E nil : events = <<Event("signature_delta", b, nil)>>
    <2>1. c.kind = "signature" => events = <<Event("signature_delta", b, "")>>
      BY <1>1, <1>2 DEF ParseAnthropic
    <2> QED
      BY <2>1, Zenon
  <1>6. c.kind = "args" => events = <<Event("tool_call_delta", b, c.data)>>
    BY <1>1, <1>2 DEF ParseAnthropic
  <1>7. c.kind = "block_stop" => events = <<End(b)>>
    BY <1>1, <1>2 DEF ParseAnthropic
  <1>8. c.kind = "message_delta" =>
           \E x, y : events = <<Event("finish", None, x), Event("usage", None, y)>>
    <2>1. c.kind = "message_delta" => events = <<Event("finish", None, c.data.reason),
                                                Event("usage", None, c.data.usage)>>
      BY <1>1 DEF ParseAnthropic
    <2> QED
      BY <2>1, Zenon
  <1>9. c.kind = "message_stop" => \E nil : events = <<Event("stream_end", None, nil)>>
    <2>1. c.kind = "message_stop" => events = <<Event("stream_end", None, "")>>
      BY <1>1 DEF ParseAnthropic
    <2> QED
      BY <2>1, Zenon
  <1>10. AnthropicTold(c, b, events)
    BY <1>3, <1>4, <1>5, <1>6, <1>7, <1>8, <1>9, Zenon DEF AnthropicTold
  <1> QED
    BY <1>1, <1>2, <1>10

\* Text of a parser that opens its block first.
LEMMA TextAndStartTaken ==
    ASSUME StreamTyped, TextInv, dialect # "raw", ~ended, NEW f \in Fragments, ~parser.text,
           provider # "anthropic", Take(Chunk("text", None, f), ParseText(parser, f))
    PROVE  TextInv'
  <1> DEFINE chunk == Chunk("text", None, f)
  <1> DEFINE b == parser.block + 1
  <1> DEFINE e1 == Event("content_block_start", b, "text")
  <1> DEFINE e2 == Event("text_delta", b, f)
  <1> DEFINE parsed == ParseText(parser, f)
  <1>1. dialect \in Dialects
    BY PairTyped
  <1>2. parsed.events = <<e1, e2>>
    BY DEF ParseText, Start
  <1>3. Len(parsed.events) \in Nat
    <2> HIDE DEF parsed, e1, e2
    <2> QED
      BY <1>2
  <1>4. f \in Text /\ f # <<>> /\ chunk.kind = "text" /\ chunk.data = f
    BY TextsAssumption DEF Text, Chunk
  <1>5. Take(chunk, parsed)
    OBVIOUS
  <1> HIDE DEF chunk, parsed
  <1>6. ASSUME NEW text, TextK(dialect, warden, Pending, text, InText(provider, parser, sent))
        PROVE  TextK(dialect, warden, PassAll(Pending, parsed.events), text \o f,
                     InText(provider, parsed.parser, Append(sent, chunk)))
    <2> DEFINE one == Pass(Pending, e1)
    <2>1. PassAll(Pending, parsed.events) = Pass(one, e2)
      <3> HIDE DEF e1, e2
      <3> QED
        BY <1>2, PassAllTwo
    <2>2. TextK(dialect, warden, one, text, TRUE)
      BY <1>1, <1>6, QuietStep DEF QuietKinds
    <2> HIDE DEF one
    <2>3. TextK(dialect, warden, Pass(one, e2), text \o f, TRUE)
      BY <1>1, <1>4, <2>2, TextStep DEF TextKinds
    <2> QED
      BY <2>1, <2>3, TextKLess
  <1> HIDE DEF e1, e2, b
  <1>7. \A text : /\ TextK(dialect, warden, Pending, text, InText(provider, parser, sent))
                  /\ dialect = "openai" => chunk.kind # "thinking"
           => TextK(dialect, warden, PassAll(Pending, parsed.events),
                    IF chunk.kind \in {"text", "thinking"} THEN text \o chunk.data ELSE text,
                    InText(provider, parsed.parser, Append(sent, chunk)))
    BY <1>4, <1>6
  <1> QED
    BY <1>3, <1>4, <1>5, <1>7, TextTaken

LEMMA TextInit == Init => TextInv
  <1> SUFFICES ASSUME Init PROVE TextInv
    OBVIOUS
  <1>1. sent = <<>> /\ held = <<>> /\ client = <<>> /\ parser = InitParser /\ ~ended
        /\ writer = InitWriter(dialect)
    BY DEF Init
  <1>2. TextsAt(sent, SentPlaces(sent)) /\ SentTextOf(sent) = <<>>
    BY <1>1, TextAtEmpty DEF SentTextOf
  <1>3. /\ TextsAt(client, TextPlaces(client)) /\ ClientText(client) = <<>> /\ IsSeq(client)
    BY <1>1, TextAtEmpty, IsSeqFew DEF ClientText
  <1>4. held \in Text /\ Len(held) <= MaxTokenBytes
    BY <1>1, EmptyText, MaxTokenAssumption
  <1>5. ShownUpTo(warden, ClientText(client), SentTextOf(sent), held)
    BY <1>1, <1>2, <1>3, ShownBegins
  <1>6. ~InText(provider, parser, sent)
    <2>1. ~parser.text
      BY <1>1 DEF InitParser
    <2>2. OpenOf(sent) = "none"
      <3>1. StartsOf(sent) = {}
        BY <1>1 DEF StartsOf
      <3> QED
        BY <3>1 DEF OpenOf
    <2> QED
      BY <2>1, <2>2 DEF InText
  <1>7. dialect = "responses" => ResponsesShape(writer)
    <2> SUFFICES ASSUME dialect = "responses" PROVE ResponsesShape(writer)
      OBVIOUS
    <2>1. writer = Triple(<<>>, 0, 0)
      BY <1>1 DEF InitWriter, InitResponses, Triple
    <2> DEFINE w == Triple(<<>>, 0, 0)
    <2>2. ResponsesShape(w)
      BY TripleIs
    <2> HIDE DEF w
    <2>3. writer = w
      BY <2>1 DEF w
    <2> QED
      BY <2>2, <2>3
  <1>8. Pending.held = held /\ Pending.writer = writer /\ Pending.client = client
    BY DEF Pending
  <1>9. TextK(dialect, warden, Pending, SentTextOf(sent), ~ended /\ InText(provider, parser, sent))
    BY <1>3, <1>4, <1>5, <1>6, <1>7, <1>8 DEF TextK
  <1> QED
    BY <1>1, <1>2, <1>9 DEF TextInv

\* Before the first event the client has only what opens its stream.
LEMMA PreludeQuiet ==
    ASSUME StreamTyped
    PROVE  IsSeq(Prelude(dialect)) /\ Quiet(Prelude(dialect)) /\ <<>> \o Prelude(dialect) = Prelude(dialect)
  <1>1. \A type \in {"role", "response.created", "header"} :
           ~TextMessage(Message(type, None, "", ""))
    <2> SUFFICES ASSUME NEW type \in {"role", "response.created", "header"}
                 PROVE  ~TextMessage(Message(type, None, "", ""))
      OBVIOUS
    <2> DEFINE m == Message(type, None, "", "")
    <2>1. m.what = ""
      BY DEF Message
    <2> HIDE DEF m
    <2>2. ~TextMessage(m)
      BY <2>1 DEF TextMessage
    <2> QED
      BY <2>2 DEF m
  <1>2. \/ Prelude(dialect) = <<>>
        \/ \E m : Prelude(dialect) = <<m>> /\ ~TextMessage(m)
    <2>1. dialect \in {"openai", "responses", "raw", "anthropic"}
      BY PairTyped DEF Dialects
    <2>2. CASE dialect = "openai"
      BY <1>1, <2>2 DEF Prelude
    <2>3. CASE dialect = "responses"
      BY <1>1, <2>3 DEF Prelude
    <2>4. CASE dialect = "raw"
      BY <1>1, <2>4 DEF Prelude
    <2>5. CASE dialect = "anthropic"
      BY <2>5 DEF Prelude
    <2> QED
      BY <2>1, <2>2, <2>3, <2>4, <2>5
  <1> DEFINE p == Prelude(dialect)
  <1>3. IsSeq(p)
    BY <1>2, IsSeqFew
  <1>4. Quiet(p)
    BY <1>2 DEF Quiet
  <1>5. <<>> \o p = p
    <2> HIDE DEF p
    <2>1. p \in Seq({p[i] : i \in DOMAIN p})
      BY <1>3 DEF IsSeq
    <2> QED
      BY <2>1, ConcatEmptySeq
  <1> QED
    BY <1>3, <1>4, <1>5

LEMMA TextOpen == StreamTyped /\ TextInv /\ Open => TextInv'
  <1> SUFFICES ASSUME StreamTyped, TextInv, Open PROVE TextInv'
    OBVIOUS
  <1> DEFINE start == [Pending EXCEPT !.client = Prelude(dialect)]
  <1> DEFINE first == IF provider = "raw" THEN <<>> ELSE <<Event("stream_start", None, "")>>
  <1> DEFINE after == PassAll(start, first)
  <1> DEFINE text == SentTextOf(sent)
  <1> DEFINE in == InText(provider, parser, sent)
  <1>1. /\ client = <<>> /\ ~ended
        /\ client' = after.client /\ writer' = after.writer /\ held' = after.held
        /\ UNCHANGED <<provider, dialect, warden, sent, parser, ended>>
    BY DEF Open
  <1>2. /\ start.held = held /\ start.writer = writer /\ start.client = Prelude(dialect)
        /\ Pending.held = held /\ Pending.writer = writer /\ Pending.client = <<>>
    BY <1>1 DEF Pending
  <1> HIDE DEF start
  <1>3. ASSUME Heard(dialect, sent) PROVE TextK(dialect, warden, start, text, in)
    <2>1. TextK(dialect, warden, Pending, text, ~ended /\ in)
      BY <1>1, <1>3 DEF TextInv
    <2>2. TextK(dialect, warden, Pending, text, in)
      <3> HIDE DEF text, in
      <3> QED
        BY <1>1, <2>1, TextKLess
    <2> HIDE DEF text, in
    <2>3. /\ IsSeq(<<>>) /\ TextsAt(<<>>, TextPlaces(<<>>))
          /\ ShownUpTo(warden, ClientText(<<>>), text, held)
          /\ held \in Text /\ Len(held) <= MaxTokenBytes
          /\ dialect = "responses" => ResponsesShape(writer) /\ (in => writer.cur # <<>>)
      BY <1>2, <2>2 DEF TextK
    <2> DEFINE p == Prelude(dialect)
    <2> DEFINE none == <<>>
    <2>4. Quiet(p) /\ none \o p = p
      BY PreludeQuiet
    <2>5. IsSeq(none) /\ TextsAt(none, TextPlaces(none))
      BY <2>3
    <2> HIDE DEF p, none
    <2>6. /\ IsSeq(none \o p) /\ TextsAt(none \o p, TextPlaces(none \o p))
          /\ ClientText(none \o p) = ClientText(none)
      BY <2>4, <2>5, QuietAppend
    <2>7. start.client = p
      BY <1>2 DEF p
    <2>8. /\ IsSeq(p) /\ TextsAt(p, TextPlaces(p)) /\ ClientText(p) = ClientText(<<>>)
      BY <2>4, <2>6 DEF none
    <2> QED
      BY <1>2, <2>3, <2>7, <2>8 DEF TextK
  <1> HIDE DEF text, in
  <1>4. Len(first) \in Nat
    <2> DEFINE e == Event("stream_start", None, "")
    <2>1. first = <<>> \/ first = <<e>>
      OBVIOUS
    <2> HIDE DEF e, first
    <2> QED
      BY <2>1
  <1>5. ASSUME Heard(dialect, sent) PROVE TextK(dialect, warden, after, text, in)
    <2>1. CASE provider = "raw"
      <3>1. after = start
        BY <2>1, PassAllFew
      <3> QED
        BY <1>3, <1>5, <3>1
    <2>2. CASE provider # "raw"
      <3>1. after = Pass(start, Event("stream_start", None, ""))
        BY <2>2, PassAllFew
      <3>2. dialect \in Dialects
        BY <2>2, PairTyped
      <3>3. TextK(dialect, warden, start, text, in)
        BY <1>3, <1>5
      <3>4. PICK data : data = ""
        OBVIOUS
      <3>5. TextK(dialect, warden, Pass(start, Event("stream_start", None, data)), text, in)
        <4>1. "stream_start" \in QuietKinds
          BY DEF QuietKinds
        <4> QED
          BY <3>2, <3>3, <4>1, QuietStep
      <3> QED
        BY <3>1, <3>4, <3>5
    <2> QED
      BY <2>1, <2>2
  <1> HIDE DEF first, after
  <1>6. Pending'.held = after.held /\ Pending'.writer = after.writer
        /\ Pending'.client = after.client
    BY <1>1 DEF Pending
  <1>7. ASSUME Heard(dialect, sent)
        PROVE  TextK(dialect, warden, Pending', text, ~ended /\ in)
    BY <1>5, <1>6, <1>7 DEF TextK
  <1>8. TextsAt(sent, SentPlaces(sent))
    BY DEF TextInv
  <1> QED
    BY <1>1, <1>7, <1>8 DEF TextInv, text, in

LEMMA TextSendText == StreamTyped /\ TextInv /\ SendText => TextInv'
  <1> SUFFICES ASSUME StreamTyped, TextInv, SendText PROVE TextInv'
    OBVIOUS
  <1>1. /\ provider \in {"openai", "gemini"} /\ ~ended
        /\ \E f \in Fragments : Take(Chunk("text", None, f), ParseText(parser, f))
    BY DEF SendText, Room, Streaming
  <1>2. dialect # "raw" /\ provider # "anthropic"
    BY <1>1, PairTyped
  <1>3. PICK f \in Fragments : Take(Chunk("text", None, f), ParseText(parser, f))
    BY <1>1
  <1>4. CASE parser.text
    <2> DEFINE r == ParseText(parser, f)
    <2>1. r.events = <<Event("text_delta", parser.block, f)>>
      BY <1>4 DEF ParseText
    <2>2. InText(provider, parser, sent)
      BY <1>2, <1>4 DEF InText
    <2>3. Take(Chunk("text", None, f), r)
      BY <1>3
    <2> HIDE DEF r
    <2>4. PICK kind \in {"text", "thinking"} : kind = "text"
      OBVIOUS
    <2>5. Take(Chunk(kind, None, f), r)
      BY <2>3, <2>4
    <2>6. r.events = <<Event(IF kind = "text" THEN "text_delta" ELSE "reasoning_delta",
                             parser.block, f)>>
      BY <2>1, <2>4
    <2> QED
      BY <1>1, <1>2, <2>2, <2>5, <2>6, PieceTaken
  <1>5. CASE ~parser.text
    BY <1>1, <1>2, <1>3, <1>5, TextAndStartTaken
  <1> QED
    BY <1>4, <1>5

LEMMA TextSendToolPiece == StreamTyped /\ TextInv /\ SendToolPiece => TextInv'
  <1> SUFFICES ASSUME StreamTyped, TextInv, SendToolPiece PROVE TextInv'
    OBVIOUS
  <1>1. provider = "openai" /\ ~ended
    BY DEF SendToolPiece, Room, Streaming
  <1>2. dialect # "raw" /\ ParserTyped(parser)
    BY <1>1, PairTyped DEF StreamTyped
  <1>3. PICK tool \in Tools, args \in {None, NextPiece} :
           Take(Chunk("tool", tool, args), ParseOpenAITool(parser, tool, args))
    BY DEF SendToolPiece
  <1> DEFINE chunk == Chunk("tool", tool, args)
  <1> DEFINE r == ParseOpenAITool(parser, tool, args)
  <1>4. Take(chunk, r) /\ ToolParsed(parser, tool, args, r)
    BY <1>2, <1>3, OpenAIToolIs
  <1>5. chunk.kind = "tool"
    BY DEF Chunk
  <1> HIDE DEF chunk, r
  <1>6. chunk.kind \notin {"text", "thinking"}
    BY <1>5
  <1> DEFINE before == InText(provider, parser, sent)
  <1> DEFINE after == InText(provider, r.parser, Append(sent, chunk))
  <1>7. before = parser.text /\ after = r.parser.text
    BY <1>1 DEF InText
  <1> HIDE DEF before, after
  <1>8. CASE Known(parser, tool)
    <2>1. r.parser = parser
      BY <1>4, <1>8 DEF ToolParsed
    <2>2. \E b : r.events = IF args = None THEN <<>> ELSE <<Event("tool_call_delta", b, args)>>
      BY <1>4, <1>8 DEF ToolParsed
    <2>3. PICK b : r.events = IF args = None THEN <<>> ELSE <<Event("tool_call_delta", b, args)>>
      BY <2>2
    <2>4. PICK kind \in QuietKinds : kind = "tool_call_delta"
      BY DEF QuietKinds
    <2>5. r.events = <<>> \/ r.events = <<Event(kind, b, args)>>
      BY <2>3, <2>4
    <2>6. QuietEvents(r.events)
      BY <2>5, QuietEventsIs
    <2>7. after => \/ r.events = <<>> /\ before
                   \/ \E k \in QuietKinds : \E index, data :
                         /\ r.events = <<Event(k, index, data)>>
                         /\ \/ k \in {"content_block_start", "tool_call_start"}
                            \/ before /\ k # "content_block_end"
      BY <1>7, <2>1, <2>4, <2>5
    <2> QED
      BY <1>1, <1>2, <1>4, <1>6, <2>6, <2>7, QuietTaken DEF before, after
  <1>9. CASE ~Known(parser, tool)
    <2>1. /\ r.parser = WithCall(parser, tool)
          /\ r.events = CloseText(parser) \o Opened(parser.block + 1, tool, args)
      BY <1>4, <1>9 DEF ToolParsed
    <2>2. ~r.parser.text
      BY <1>2, <2>1 DEF WithCall, ParserTyped
    <2>3. QuietEvents(r.events)
      <3>1. QuietEvents(CloseText(parser)) /\ QuietEvents(Opened(parser.block + 1, tool, args))
        BY OpenedEvents
      <3> QED
        BY <2>1, <3>1, QuietEventsIs
    <2>4. ~after
      BY <1>7, <2>2
    <2> QED
      BY <1>1, <1>2, <1>4, <1>6, <2>3, <2>4, QuietTaken DEF after
  <1> QED
    BY <1>8, <1>9

LEMMA TextSendFunctionCall == StreamTyped /\ TextInv /\ SendFunctionCall => TextInv'
  <1> SUFFICES ASSUME StreamTyped, TextInv, SendFunctionCall PROVE TextInv'
    OBVIOUS
  <1> DEFINE n == NextPiece
  <1>1. provider = "gemini" /\ ~ended
    BY DEF SendFunctionCall, Room, Streaming
  <1>2. dialect # "raw" /\ ParserTyped(parser) /\ n \in Int
    BY <1>1, PairTyped DEF StreamTyped
  <1> DEFINE chunk == Chunk("tool", n, n)
  <1> DEFINE r == ParseGeminiTool(parser, n, n)
  <1>3. Take(chunk, r)
    BY DEF SendFunctionCall
  <1>4. chunk.kind \notin {"text", "thinking"}
    BY DEF Chunk
  <1>5. ~r.parser.text
    <2> HIDE DEF n
    <2> QED
      BY <1>2, ParsesTyped
  <1>6. QuietEvents(r.events)
    <2> DEFINE b == parser.block + 1
    <2> DEFINE e1 == Event("tool_call_start", b, n)
    <2> DEFINE e2 == Event("tool_call_delta", b, n)
    <2> DEFINE e3 == End(b)
    <2>1. r.events = CloseText(parser) \o <<e1, e2, e3>>
      BY DEF ParseGeminiTool
    <2>2. QuietEvent(e1) /\ QuietEvent(e2) /\ QuietEvent(e3)
      BY QuietEventsIs DEF QuietKinds, End
    <2>3. QuietEvents(CloseText(parser))
      BY OpenedEvents
    <2> HIDE DEF e1, e2, e3, r
    <2> QED
      BY <2>1, <2>2, <2>3, QuietEventsIs
  <1>7. ~InText(provider, r.parser, Append(sent, chunk))
    <2> HIDE DEF r, chunk
    <2> QED
      BY <1>1, <1>5 DEF InText
  <1> HIDE DEF r, chunk
  <1> QED
    BY <1>1, <1>2, <1>3, <1>4, <1>6, <1>7, QuietTaken

LEMMA TextSendFinishOrUsage == StreamTyped /\ TextInv /\ (SendFinish \/ SendUsage) => TextInv'
  <1> SUFFICES ASSUME StreamTyped, TextInv, SendFinish \/ SendUsage PROVE TextInv'
    OBVIOUS
  <1>1. provider \in {"openai", "gemini"} /\ ~ended
    BY DEF SendFinish, SendUsage, Room, Streaming
  <1>2. dialect # "raw" /\ ParserTyped(parser) /\ provider # "anthropic"
    BY <1>1, PairTyped DEF StreamTyped
  <1>3. ASSUME NEW chunk, NEW r, Take(chunk, r), chunk.kind \in {"finish", "usage"},
               r.events = <<>>, r.parser.text = parser.text
        PROVE  TextInv'
    <2>1. QuietEvents(r.events)
      BY <1>3, QuietEventsIs
    <2>2. InText(provider, r.parser, Append(sent, chunk)) => InText(provider, parser, sent)
      BY <1>2, <1>3 DEF InText
    <2>3. chunk.kind \notin {"text", "thinking"}
      BY <1>3
    <2> QED
      BY <1>1, <1>2, <1>3, <2>1, <2>2, <2>3, QuietTaken
  <1>4. CASE SendFinish
    <2>1. PICK reason \in {"stop", "tool_use", "content_filter"} :
             Take(Chunk("finish", None, reason), ParseFinish(parser, reason))
      BY <1>4 DEF SendFinish
    <2> DEFINE chunk == Chunk("finish", None, reason)
    <2> DEFINE r == ParseFinish(parser, reason)
    <2>2. r.events = <<>> /\ chunk.kind = "finish"
      BY DEF ParseFinish, Chunk
    <2>3. r.parser.text = parser.text
      <3>1. reason \in Reasons
        BY DEF Reasons
      <3> QED
        BY <1>2, <3>1, ParsesTyped
    <2>4. Take(chunk, r)
      BY <2>1
    <2> HIDE DEF chunk, r
    <2> QED
      BY <1>3, <2>2, <2>3, <2>4
  <1>5. CASE SendUsage
    <2>1. PICK count \in 0..1 : Take(Chunk("usage", None, count), ParseUsage(parser, count))
      BY <1>5 DEF SendUsage
    <2> DEFINE chunk == Chunk("usage", None, count)
    <2> DEFINE r == ParseUsage(parser, count)
    <2>2. r.events = <<>> /\ chunk.kind = "usage"
      BY DEF ParseUsage, Chunk
    <2>3. r.parser.text = parser.text
      <3>1. count \in Nat
        OBVIOUS
      <3> QED
        BY <1>2, <3>1, ParsesTyped
    <2>4. Take(chunk, r)
      BY <2>1
    <2> HIDE DEF chunk, r
    <2> QED
      BY <1>3, <2>2, <2>3, <2>4
  <1> QED
    BY <1>4, <1>5

LEMMA TextSendMessage == StreamTyped /\ TextInv /\ SendMessage => TextInv'
  <1> SUFFICES ASSUME StreamTyped, TextInv, SendMessage PROVE TextInv'
    OBVIOUS
  <1>1. provider = "anthropic" /\ ~ended
    BY DEF SendMessage, Room, Streaming
  <1>2. dialect # "raw" /\ IsSeq(sent) /\ OpenOf(sent) \in OpenKinds
    BY <1>1, PairTyped DEF StreamTyped
  <1>3. PICK c \in AnthropicChunks : Take(c, ParseAnthropic(parser, c))
    BY DEF SendMessage
  <1>4. MaySend(sent, c)
    BY <1>2, SendsMaySend
  <1> DEFINE r == ParseAnthropic(parser, c)
  <1> DEFINE s == Append(sent, c)
  <1>5. InText(provider, parser, sent) <=> OpenOf(sent) \in {"text", "thinking"}
    BY <1>1 DEF InText
  <1>6. InText(provider, r.parser, s) <=> OpenOf(s) \in {"text", "thinking"}
    <2> HIDE DEF r, s
    <2> QED
      BY <1>1 DEF InText
  <1>7. Take(c, r)
    BY <1>3
  <1> HIDE DEF r
  \* One event without text, after which no block with text is open.
  <1>8. ASSUME NEW kind \in QuietKinds, NEW index, NEW data,
               r.events = <<Event(kind, index, data)>>, c.kind \notin {"text", "thinking"},
               OpenOf(s) \in {"text", "thinking"} =>
                  \/ kind \in {"content_block_start", "tool_call_start"}
                  \/ OpenOf(sent) \in {"text", "thinking"} /\ kind # "content_block_end"
        PROVE  TextInv'
    <2>1. QuietEvents(r.events)
      BY <1>8, QuietEventsIs
    <2> QED
      BY <1>1, <1>2, <1>5, <1>6, <1>7, <1>8, <2>1, QuietTaken
  <1>9. CASE c.kind = "block_start" /\ c.data \in {"text", "thinking"}
    <2>1. PICK index, data : r.events = <<Event("content_block_start", index, data)>>
      BY <1>9, AnthropicParsed DEF r
    <2>2. PICK kind \in QuietKinds : kind = "content_block_start"
      BY DEF QuietKinds
    <2>3. r.events = <<Event(kind, index, data)>> /\ c.kind \notin {"text", "thinking"}
      BY <1>9, <2>1, <2>2
    <2> QED
      BY <1>8, <2>2, <2>3
  <1>10. CASE c.kind = "tool_start"
    <2>1. r.events = <<Event("tool_call_start", parser.block + 1, c.tool)>>
      BY <1>10, AnthropicParsed DEF r
    <2>2. PICK kind \in QuietKinds : kind = "tool_call_start"
      BY DEF QuietKinds
    <2>3. r.events = <<Event(kind, parser.block + 1, c.tool)>> /\ c.kind \notin {"text", "thinking"}
      BY <1>10, <2>1, <2>2
    <2> QED
      BY <1>8, <2>2, <2>3
  <1>11. CASE c.kind = "block_stop"
    <2>1. r.events = <<End(parser.block)>>
      BY <1>11, AnthropicParsed DEF r
    <2>2. PICK data : End(parser.block) = Event("content_block_end", parser.block, data)
      BY DEF End
    <2>3. PICK kind \in QuietKinds : kind = "content_block_end"
      BY DEF QuietKinds
    <2>4. r.events = <<Event(kind, parser.block, data)>> /\ c.kind \notin {"text", "thinking"}
      BY <1>11, <2>1, <2>2, <2>3
    <2>5. OpenOf(s) = "none"
      BY <1>2, <1>11, OpenOfAppend
    <2> QED
      BY <1>8, <2>4, <2>5
  <1>12. CASE c.kind = "message_delta"
    <2> DEFINE e1 == Event("finish", None, c.data.reason)
    <2> DEFINE e2 == Event("usage", None, c.data.usage)
    <2>1. r.events = <<e1, e2>>
      BY <1>12, AnthropicParsed DEF r
    <2>2. QuietEvent(e1) /\ QuietEvent(e2)
      BY QuietEventsIs DEF QuietKinds
    <2> HIDE DEF e1, e2
    <2>3. QuietEvents(r.events)
      BY <2>1, <2>2, QuietEventsIs
    <2>4. OpenOf(s) = "none"
      BY <1>2, <1>12, OpenOfAppend
    <2>5. ~InText(provider, r.parser, s) /\ c.kind \notin {"text", "thinking"}
      BY <1>6, <1>12, <2>4
    <2> QED
      BY <1>1, <1>2, <1>7, <2>3, <2>5, QuietTaken
  <1>13. CASE c.kind = "message_stop"
    <2>1. PICK data : data = ""
      OBVIOUS
    <2>2. PICK kind \in QuietKinds : kind = "stream_end"
      BY DEF QuietKinds
    <2>3. r.events = <<Event("stream_end", None, "")>>
      BY <1>13, AnthropicParsed DEF r
    <2>4. r.events = <<Event(kind, None, data)>> /\ c.kind \notin {"text", "thinking"}
      BY <1>13, <2>1, <2>2, <2>3
    <2>5. OpenOf(s) = "none"
      BY <1>2, <1>13, OpenOfAppend
    <2> QED
      BY <1>8, <2>4, <2>5
  <1>14. CASE c.kind \in {"signature", "args"} /\ OpenOf(sent) # "none"
    <2>1. OpenOf(s) = OpenOf(sent)
      BY <1>2, <1>14, OpenOfAppend
    <2>2. CASE c.kind = "signature"
      <3>1. PICK data : data = ""
        OBVIOUS
      <3>2. PICK kind \in QuietKinds : kind = "signature_delta"
        BY DEF QuietKinds
      <3>3. r.events = <<Event("signature_delta", parser.block, "")>>
        BY <2>2, AnthropicParsed DEF r
      <3>4. r.events = <<Event(kind, parser.block, data)>> /\ c.kind \notin {"text", "thinking"}
        BY <2>2, <3>1, <3>2, <3>3
      <3>5. kind # "content_block_end"
        BY <3>2
      <3> QED
        BY <1>8, <2>1, <3>4, <3>5
    <2>3. CASE c.kind = "args"
      <3>1. PICK kind \in QuietKinds : kind = "tool_call_delta"
        BY DEF QuietKinds
      <3>2. r.events = <<Event("tool_call_delta", parser.block, c.data)>>
        BY <2>3, AnthropicParsed DEF r
      <3>3. r.events = <<Event(kind, parser.block, c.data)>> /\ c.kind \notin {"text", "thinking"}
        BY <2>3, <3>1, <3>2
      <3>4. kind # "content_block_end"
        BY <3>1
      <3> QED
        BY <1>8, <2>1, <3>3, <3>4
    <2> QED
      BY <1>14, <2>2, <2>3
  <1>15. ASSUME NEW kind \in {"text", "thinking"}, NEW f \in Fragments, c = Chunk(kind, None, f),
                OpenOf(sent) = kind
         PROVE  TextInv'
    <2>1. c.kind = kind /\ c.data = f
      BY <1>15 DEF Chunk
    <2>2. r.events = <<Event(IF kind = "text" THEN "text_delta" ELSE "reasoning_delta",
                             parser.block, f)>>
      BY <2>1, AnthropicParsed DEF r
    <2>3. Take(Chunk(kind, None, f), r)
      BY <1>7, <1>15
    <2>4. InText(provider, parser, sent)
      BY <1>5, <1>15
    <2> QED
      BY <1>1, <1>2, <2>2, <2>3, <2>4, PieceTaken
  <1>16. CASE c.kind \in {"text", "thinking"}
    <2>1. \/ OpenOf(sent) = "text" /\ \E f \in Fragments : c = Chunk("text", None, f)
          \/ OpenOf(sent) = "thinking" /\ \E f \in Fragments : c = Chunk("thinking", None, f)
      <3>1. OpenOf(sent) # "none"
        BY <1>4, <1>16, MaySendKinds
      <3>2. \/ OpenOf(sent) = "text" /\ \E f \in Fragments : c = Chunk("text", None, f)
            \/ OpenOf(sent) = "thinking" /\ \E f \in Fragments : c = Chunk("thinking", None, f)
            \/ c = Chunk("signature", None, "")
            \/ c = Chunk("args", LastStartOf(sent).tool, Len(sent) + 1)
            \/ c = Chunk("block_stop", None, "") \/ c = Chunk("message_stop", None, "")
        BY <1>4, <3>1, Zenon DEF MaySend
      <3>3. \A d : c # Chunk("signature", None, d)
        BY <1>16 DEF Chunk
      <3>4. c # Chunk("args", LastStartOf(sent).tool, Len(sent) + 1)
        BY <1>16 DEF Chunk
      <3>5. \A d : c # Chunk("block_stop", None, d) /\ c # Chunk("message_stop", None, d)
        BY <1>16 DEF Chunk
      <3> QED
        BY <3>2, <3>3, <3>4, <3>5, Zenon
    <2>2. CASE OpenOf(sent) = "text" /\ \E f \in Fragments : c = Chunk("text", None, f)
      BY <1>15, <2>2
    <2>3. CASE OpenOf(sent) = "thinking" /\ \E f \in Fragments : c = Chunk("thinking", None, f)
      BY <1>15, <2>3
    <2> QED
      BY <2>1, <2>2, <2>3
  <1> QED
    BY <1>4, <1>9, <1>10, <1>11, <1>12, <1>13, <1>14, <1>16, MaySendKinds

LEMMA TextEndOfBody == StreamTyped /\ TextInv /\ (EndOfBody \/ Cut) => TextInv'
  <1> SUFFICES ASSUME StreamTyped, TextInv, EndOfBody \/ Cut PROVE TextInv'
    OBVIOUS
  <1>1. provider # "raw" /\ ~ended /\ ended' /\ UNCHANGED <<provider, dialect, warden, sent, parser>>
    BY DEF EndOfBody, Cut, Streaming
  <1>2. dialect \in Dialects /\ dialect # "raw" /\ ParserTyped(parser)
    BY <1>1, PairTyped DEF StreamTyped
  <1> DEFINE text == SentTextOf(sent)
  <1> DEFINE in == InText(provider, parser, sent)
  <1>3. \/ Pending' = Pending
        \/ \E events : QuietEvents(events) /\ Pending' = PassAll(Pending, events)
    <2>1. CASE EndOfBody
      <3>1. QuietEvents(ParserTail(parser))
        BY <1>2, ParserTailIs
      <3>2. Len(ParserTail(parser)) \in Nat
        BY <3>1, EventsAre DEF QuietEvents, EventsOf, IsEvents
      <3>3. Deliver(ParserTail(parser))
        BY <2>1 DEF EndOfBody
      <3> QED
        BY <3>1, <3>2, <3>3, DeliverIs
    <2>2. CASE Cut
      BY <2>2 DEF Cut, Pending
    <2> QED
      BY <2>1, <2>2
  <1>4. ASSUME Heard(dialect, sent) PROVE TextK(dialect, warden, Pending', text, FALSE)
    <2>1. TextK(dialect, warden, Pending, text, ~ended /\ in)
      BY <1>2, <1>4 DEF TextInv
    <2> HIDE DEF text, in
    <2>2. CASE Pending' = Pending
      BY <2>1, <2>2, TextKLess
    <2>3. ASSUME NEW events, QuietEvents(events), Pending' = PassAll(Pending, events)
          PROVE  TextK(dialect, warden, Pending', text, FALSE)
      BY <1>2, <2>1, <2>3, QuietSteps
    <2> QED
      BY <1>3, <2>2, <2>3
  <1>5. TextsAt(sent, SentPlaces(sent))
    BY DEF TextInv
  <1>6. Heard(dialect, sent) =>
           TextK(dialect, warden, Pending', text, ~ended' /\ InText(provider', parser', sent'))
    BY <1>1, <1>4, TextKLess
  <1> QED
    BY <1>1, <1>2, <1>5, <1>6 DEF TextInv

\* A passthrough body: what is fed is shown as bytes.
LEMMA TextRaw == StreamTyped /\ TextInv /\ (ReadRaw \/ EndOfRaw) => TextInv'
  <1> SUFFICES ASSUME StreamTyped, TextInv, ReadRaw \/ EndOfRaw PROVE TextInv'
    OBVIOUS
  <1>1. /\ provider = "raw" /\ ~ended /\ UNCHANGED <<provider, dialect, warden, parser, writer>>
    BY DEF ReadRaw, EndOfRaw, Room, Streaming
  <1>2. dialect = "raw" /\ IsSeq(sent) /\ TextsAt(sent, SentPlaces(sent))
    BY <1>1, PairTyped DEF StreamTyped, TextInv
  <1>3. Heard(dialect, sent) /\ Heard(dialect', sent')
    BY <1>1, <1>2 DEF Heard
  <1> DEFINE text == SentTextOf(sent)
  <1> DEFINE shown == ClientText(client)
  <1>4. /\ held \in Text /\ Len(held) <= MaxTokenBytes
        /\ IsSeq(client) /\ TextsAt(client, TextPlaces(client))
        /\ ShownUpTo(warden, shown, text, held)
    BY <1>1, <1>2, <1>3 DEF TextInv, TextK, Pending
  <1>5. ASSUME NEW t \in Text
        PROVE  /\ IsSeq(client \o Shown(t)) /\ TextsAt(client \o Shown(t), TextPlaces(client \o Shown(t)))
               /\ ClientText(client \o Shown(t)) = shown \o t
    <2>1. CASE t = <<>>
      <3>1. client \o Shown(t) = client
        BY <1>4, <2>1, IsSeqFew DEF Shown
      <3>2. shown \o t = shown
        <4>1. shown \in Text
          BY <1>4, ShownAndHeld
        <4> HIDE DEF shown
        <4> QED
          BY <2>1, <4>1, EmptyText
      <3> QED
        BY <1>4, <3>1, <3>2
    <2>2. CASE t # <<>>
      <3> DEFINE m == Message("bytes", None, "text", t)
      <3>1. m.what = "text" /\ m.type = "bytes" /\ m.data = t
        BY DEF Message
      <3>2. Shown(t) = <<m>>
        BY <2>2 DEF Shown
      <3> HIDE DEF m
      <3>3. TextMessage(m)
        BY <3>1 DEF TextMessage
      <3>4. client \o Shown(t) = Append(client, m)
        BY <1>4, <3>2, IsSeqAppend
      <3> QED
        BY <1>4, <3>1, <3>3, <3>4, ClientTextAppend
    <2> QED
      BY <2>1, <2>2
  <1>6. CASE ReadRaw
    <2>1. PICK bytes \in RawReads :
             /\ held' = Fed(held, bytes).held /\ client' = client \o Shown(Fed(held, bytes).out)
             /\ sent' = Append(sent, Chunk("text", None, bytes))
      BY <1>6 DEF ReadRaw, Fed
    <2>2. bytes \in Text
      BY TextsAssumption DEF Text
    <2> DEFINE c == Chunk("text", None, bytes)
    <2>3. c.kind = "text" /\ c.data = bytes
      BY DEF Chunk
    <2> HIDE DEF c
    <2>4. sent' = Append(sent, c)
      BY <2>1 DEF c
    <2>5. TextsAt(sent', SentPlaces(sent')) /\ SentTextOf(sent') = text \o bytes
      BY <1>2, <2>2, <2>3, <2>4, SentTextAppend
    <2>6. /\ Fed(held, bytes).out \in Text
          /\ held' \in Text /\ Len(held') <= MaxTokenBytes
          /\ ShownUpTo(warden, shown \o Fed(held, bytes).out, text \o bytes, held')
      <3> HIDE DEF shown, text
      <3> QED
        BY <1>4, <2>1, <2>2, FedShown
    <2>7. /\ IsSeq(client') /\ TextsAt(client', TextPlaces(client'))
          /\ ClientText(client') = shown \o Fed(held, bytes).out
      BY <1>5, <2>1, <2>6
    <2>8. ~ended'
      BY <1>1, <1>6 DEF ReadRaw
    <2>9. ~InText(provider, parser, sent)' \/ InText(provider, parser, sent)'
      OBVIOUS
    <2>10. Pending'.held = held' /\ Pending'.client = client'
      BY DEF Pending
    <2>11. TextK(dialect', warden', Pending', SentTextOf(sent'),
                 ~ended' /\ InText(provider', parser', sent'))
      BY <1>1, <1>2, <2>5, <2>6, <2>7, <2>10 DEF TextK
    <2> QED
      BY <2>5, <2>8, <2>11 DEF TextInv
  <1>7. CASE EndOfRaw
    <2>1. /\ held' = <<>> /\ client' = client \o Shown(Resolve(held)) /\ ended' /\ sent' = sent
      BY <1>7 DEF EndOfRaw, Flush
    <2>2. Resolve(held) \in Text
      BY <1>4, ResolveTyped
    <2>3. ClientText(client') = shown \o Resolve(held)
      BY <1>5, <2>1, <2>2
    <2>4. shown \o Resolve(held) = (IF warden THEN Resolve(text) ELSE text)
      <3> HIDE DEF shown, text
      <3>1. shown \o (IF warden THEN Resolve(held) ELSE <<>>)
               = (IF warden THEN Resolve(text) ELSE text)
        BY <1>4, ShownAndHeld
      <3>2. ~warden => held = <<>>
        BY <1>4 DEF ShownUpTo
      <3>3. held = <<>> => Resolve(held) = <<>>
        BY ResolveTyped
      <3> QED
        BY <3>1, <3>2, <3>3
    <2> QED
      BY <1>1, <1>2, <2>1, <2>3, <2>4 DEF TextInv
  <1> QED
    BY <1>6, <1>7

LEMMA TextKept == StreamTyped /\ TextInv /\ [Next]_vars => TextInv'
  <1> SUFFICES ASSUME StreamTyped, TextInv, [Next]_vars PROVE TextInv'
    OBVIOUS
  <1>1. CASE Open
    BY <1>1, TextOpen
  <1>2. CASE SendText
    BY <1>2, TextSendText
  <1>3. CASE SendToolPiece
    BY <1>3, TextSendToolPiece
  <1>4. CASE SendFunctionCall
    BY <1>4, TextSendFunctionCall
  <1>5. CASE SendFinish \/ SendUsage
    BY <1>5, TextSendFinishOrUsage
  <1>6. CASE EndOfBody \/ Cut
    BY <1>6, TextEndOfBody
  <1>7. CASE SendMessage
    BY <1>7, TextSendMessage
  <1>8. CASE ReadRaw \/ EndOfRaw
    BY <1>8, TextRaw
  <1>9. CASE UNCHANGED vars
    <2>1. Pending' = Pending /\ UNCHANGED vars
      BY <1>9 DEF vars, Pending
    <2> QED
      BY <2>1 DEF vars, TextInv
  <1> QED
    BY <1>1, <1>2, <1>3, <1>4, <1>5, <1>6, <1>7, <1>8, <1>9 DEF Next

\* The parser's bookkeeping has its type, a provider and a dialect of the kinds
\* the code has meet, and an Anthropic provider follows its own protocol.
THEOREM StreamAlwaysTyped == Spec => []StreamTyped
  <1>1. Init => StreamTyped
    BY TypedInit
  <1>2. StreamTyped /\ [Next]_vars => StreamTyped'
    BY TypedStep
  <1> QED
    BY <1>1, <1>2, PTL DEF Spec

LEMMA TextInvShows == StreamTyped /\ TextInv => TextRestored
  <1> SUFFICES ASSUME StreamTyped, TextInv, Heard(dialect, sent)
               PROVE  /\ ShownText \o (IF warden THEN Resolve(held) ELSE <<>>)
                           = (IF warden THEN Resolve(SentText) ELSE SentText)
                      /\ dialect = "raw" /\ ended => held = <<>>
                      /\ Len(held) <= MaxTokenBytes
    BY DEF TextRestored, Heard
  <1>1. ShownText = ClientText(client) /\ SentText = SentTextOf(sent)
    BY DEF ShownText, ClientText, TextPlaces, SentText, SentTextOf, SentPlaces
  <1>2. TextsAt(sent, SentPlaces(sent)) /\ IsSeq(sent)
    BY DEF TextInv, StreamTyped
  <1>3. CASE dialect = "raw" /\ ended
    <2>1. held = <<>> /\ ClientText(client) = (IF warden THEN Resolve(SentText) ELSE SentText)
      BY <1>1, <1>3 DEF TextInv
    <2>2. SentText \in Text
      <3>1. PICK S : sent \in Seq(S)
        BY <1>2 DEF IsSeq
      <3> QED
        BY <1>1, <1>2, <3>1, TextAtTyped DEF SentTextOf
    <2>3. (IF warden THEN Resolve(SentText) ELSE SentText) \in Text
      BY <2>2, ResolveTyped
    <2>4. (IF warden THEN Resolve(held) ELSE <<>>) = <<>>
      BY <2>1, ResolveTyped
    <2>5. \A a \in Text : a \o <<>> = a
      BY EmptyText
    <2>6. Len(held) <= MaxTokenBytes
      BY <2>1, EmptyText, MaxTokenAssumption
    <2> QED
      BY <1>1, <2>1, <2>3, <2>4, <2>5, <2>6
  <1>4. CASE ~(dialect = "raw" /\ ended)
    <2> DEFINE in == ~ended /\ InText(provider, parser, sent)
    <2>1. TextK(dialect, warden, Pending, SentTextOf(sent), in)
      BY <1>4 DEF TextInv
    <2>2. Pending.held = held /\ Pending.client = client
      BY DEF Pending
    <2>3. /\ held \in Text /\ Len(held) <= MaxTokenBytes
          /\ ShownUpTo(warden, ClientText(client), SentTextOf(sent), held)
      BY <2>1, <2>2 DEF TextK
    <2> QED
      BY <1>1, <1>4, <2>3, ShownAndHeld
  <1> QED
    BY <1>3, <1>4

\* However the provider cuts its text, what the client has been shown and what
\* is held back, restored, is the text of a vault that saw it whole; a
\* passthrough stream that has ended holds nothing back (StreamResolver.Feed
\* and Flush, ResolveEvents).
THEOREM TextAlwaysRestored == Spec => []TextRestored
  <1>1. Init => StreamTyped /\ TextInv
    BY TypedInit, TextInit
  <1>2. (StreamTyped /\ TextInv) /\ [Next]_vars => (StreamTyped /\ TextInv)'
    BY TypedStep, TextKept
  <1>3. StreamTyped /\ TextInv => TextRestored
    BY TextInvShows
  <1> QED
    BY <1>1, <1>2, <1>3, PTL DEF Spec
=============================================================================
