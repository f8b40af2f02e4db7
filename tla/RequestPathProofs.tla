-------------------------- MODULE RequestPathProofs --------------------------
(* What holds of every body that goes to a provider, for every setup, every  *)
(* text, any number of messages and turns, and any order of providers:       *)
(*                                                                           *)
(*  - no value whose pattern alone is enough for the warden is said in it,   *)
(*    unless an inspector failed and the request was let pass, or a phrase   *)
(*    was found in the wrong place and the body is raw (ValuesStayHere);     *)
(*  - every call Gemini signed has its signature while the cache has it      *)
(*    (SignaturesGoBack);                                                    *)
(*  - every tool result accounts for what was left out of it                 *)
(*    (OmissionsKnown).                                                      *)
(*                                                                           *)
(* A body is known by two sets: the words that are said in it (Talk) and the *)
(* calls and results in it (Tools). Every conversion of a body is a lemma    *)
(* about what becomes of these two sets, whatever they are; the invariant    *)
(* (IInv) puts them together along a request's way. What a decoder could     *)
(* lose is in neither, so it must be shown that it loses nothing of a body   *)
(* in the shape of the client's dialect (Fine, SaidIn): the warden scans     *)
(* what was decoded but must rewrite the client's own bytes.                 *)
(*                                                                           *)
(* A recursion over messages is known by the table of its values, which      *)
(* Recursion shows to exist, and what holds of every line of the table by a  *)
(* set of numbers that Induction shows to be all of them.                    *)
EXTENDS RequestPath, FiniteSetTheorems, SequenceTheorems, WellFoundedInduction, TLAPS

(* Induction and recursion. *)

\* Induction over the naturals for a set of them.
LEMMA Induction ==
    ASSUME NEW R \in SUBSET Nat, 0 \in R, \A n \in R : n + 1 \in R
    PROVE  R = Nat
  <1> DEFINE Less == OpToRel(<, Nat)
  <1> DEFINE bad == Nat \ R
  <1>1. IsWellFoundedOn(Less, Nat)
    BY NatLessThanWellFounded
  <1> SUFFICES ASSUME bad # {} PROVE FALSE
    OBVIOUS
  <1>2. bad \subseteq Nat
    OBVIOUS
  <1> HIDE DEF Less, bad
  <1>3. PICK n \in bad : \A m \in bad : <<m, n>> \notin Less
    BY <1>1, <1>2, WFMin
  <1>4. \A m \in bad : ~(m < n)
    BY <1>2, <1>3 DEF Less, OpToRel
  <1>5. n \in Nat /\ n \notin R /\ n # 0
    BY <1>3 DEF bad
  <1>6. n - 1 \in Nat /\ n - 1 < n /\ (n - 1) + 1 = n
    BY <1>5
  <1>7. n - 1 \in R
    BY <1>4, <1>6 DEF bad
  <1> QED
    BY <1>5, <1>6, <1>7

\* Recursion over 0..n, for steps that keep their values in V.
Recurs(n, V, base, step, h) ==
    h \in [0..n -> V] /\ h[0] = base /\ \A i \in 1..n : h[i] = step[i][h[i - 1]]

\* Such a recursion has values all the way.
LEMMA Recursion ==
    ASSUME NEW n \in Nat, NEW V, NEW base \in V, NEW step \in [1..n -> [V -> V]]
    PROVE  \E h : Recurs(n, V, base, step, h)
  <1> DEFINE Table(h, k) == /\ h \in [0..k -> V] /\ h[0] = base
                            /\ \A i \in 1..k : h[i] = step[i][h[i - 1]]
  <1> DEFINE Good(k) == \E h : Table(h, k)
  <1> DEFINE R == {k \in Nat : k <= n => Good(k)}
  <1>1. 0 \in R
    <2>1. Table([i \in 0..0 |-> base], 0)
      OBVIOUS
    <2> QED
      BY <2>1
  <1>2. ASSUME NEW k \in R
        PROVE  k + 1 \in R
    <2> SUFFICES ASSUME k + 1 <= n PROVE Good(k + 1)
      <3> HIDE DEF Good
      <3> QED
        OBVIOUS
    <2>1. PICK h : Table(h, k)
      <3>1. Good(k)
        <4> HIDE DEF Good
        <4> QED
          OBVIOUS
      <3> QED
        BY <3>1
    <2> DEFINE g == [i \in 0..(k + 1) |-> IF i = k + 1 THEN step[k + 1][h[k]] ELSE h[i]]
    <2>2. k \in Nat /\ k + 1 \in 1..n /\ k \in 0..k /\ h[k] \in V
      BY <2>1
    <2>3. step[k + 1][h[k]] \in V
      BY <2>2
    <2>4. g \in [0..(k + 1) -> V] /\ g[0] = base
      BY <2>1, <2>2, <2>3
    <2>5. \A i \in 1..(k + 1) : g[i] = step[i][g[i - 1]]
      <3> SUFFICES ASSUME NEW i \in 1..(k + 1) PROVE g[i] = step[i][g[i - 1]]
        OBVIOUS
      <3>1. CASE i = k + 1
        <4>1. i - 1 = k /\ g[k] = h[k] /\ k + 1 \in 0..(k + 1)
          BY <2>2, <3>1
        <4> QED
          BY <3>1, <4>1
      <3>2. CASE i # k + 1
        <4>1. i \in 1..k /\ i - 1 \in 0..k /\ i - 1 # k + 1 /\ i \in 0..(k + 1)
              /\ i - 1 \in 0..(k + 1)
          BY <2>2, <3>2
        <4>2. g[i] = h[i] /\ g[i - 1] = h[i - 1]
          BY <3>2, <4>1
        <4> QED
          BY <2>1, <4>1, <4>2
      <3> QED
        BY <3>1, <3>2
    <2> HIDE DEF g
    <2> QED
      BY <2>4, <2>5
  <1>3. R = Nat
    <2> HIDE DEF Good
    <2> QED
      BY <1>1, <1>2, Induction
  <1>4. n \in R /\ n <= n
    BY <1>3
  <1>5. Good(n)
    <2> HIDE DEF Good
    <2> QED
      BY <1>4
  <1> QED
    BY <1>5 DEF Recurs

-----------------------------------------------------------------------------
(* Sequences: joining the sequences of a sequence, and picking the elements  *)
(* at some places.                                                           *)

JoinsFrom(S, ss, h) ==
    /\ h \in [0..Len(ss) -> Seq(S)] /\ h[0] = <<>>
    /\ \A i \in 1..Len(ss) : h[i] = h[i - 1] \o ss[i]

\* Joining, turn by turn.
LEMMA FlattenTable ==
    ASSUME NEW S, NEW ss \in Seq(Seq(S))
    PROVE  \E h : JoinsFrom(S, ss, h) /\ h[Len(ss)] = FlattenSeq(ss)
  <1> DEFINE n == Len(ss)
  <1> DEFINE V == Seq(S)
  <1> DEFINE step == [i \in 1..n |-> [v \in V |-> v \o ss[i]]]
  <1>1. n \in Nat /\ \A i \in 1..n : ss[i] \in V
    OBVIOUS
  <1>2. step \in [1..n -> [V -> V]]
    <2>1. \A i \in 1..n : \A v \in V : v \o ss[i] \in V
      BY <1>1, ConcatProperties
    <2> HIDE DEF V
    <2> QED
      BY <2>1
  <1>3. <<>> \in V
    OBVIOUS
  <1>4. PICK h \in [0..n -> V] : h[0] = <<>> /\ \A i \in 1..n : h[i] = step[i][h[i - 1]]
    <2> DEFINE base == <<>>
    <2>1. base \in V
      BY <1>3
    <2> HIDE DEF V, step, base, n
    <2>2. \E h : Recurs(n, V, base, step, h)
      BY <1>1, <1>2, <2>1, Recursion
    <2> QED
      BY <2>2 DEF base, Recurs
  <1>5. ASSUME NEW i \in 1..n
        PROVE  h[i] = h[i - 1] \o ss[i] /\ h[i - 1] \in V
    <2>1. i - 1 \in 0..n
      BY <1>1
    <2>2. h[i - 1] \in V
      BY <2>1, <1>4
    <2> HIDE DEF V
    <2>3. step[i][h[i - 1]] = h[i - 1] \o ss[i]
      BY <2>2
    <2> QED
      BY <1>4, <2>2, <2>3
  <1>6. JoinsFrom(S, ss, h)
    BY <1>4, <1>5 DEF JoinsFrom
  <1>7. CASE n = 0
    <2>1. FlattenSeq(ss) = ss /\ ss = <<>>
      BY <1>7 DEF FlattenSeq
    <2> QED
      BY <1>4, <1>6, <1>7, <2>1
  <1>8. CASE n # 0
    <2> DEFINE Rec(f) == f = [i \in 1..n |-> IF i = 1 THEN ss[i] ELSE f[i - 1] \o ss[i]]
    <2> DEFINE g == [i \in 1..n |-> h[i]]
    <2>1. Rec(g)
      <3> SUFFICES ASSUME NEW i \in 1..n
                   PROVE  h[i] = IF i = 1 THEN ss[i] ELSE g[i - 1] \o ss[i]
        OBVIOUS
      <3>1. CASE i = 1
        <4>0. 1 \in 1..n /\ 1 - 1 = 0
          BY <3>1
        <4>1. h[1] = <<>> \o ss[1]
          <5>1. h[1] = h[1 - 1] \o ss[1]
            BY <1>5, <4>0
          <5> QED
            BY <1>4, <4>0, <5>1
        <4>2. ss[1] \in Seq(S)
          BY <1>1, <3>1
        <4>3. <<>> \o ss[1] = ss[1]
          BY <4>2, ConcatEmptySeq
        <4> QED
          BY <3>1, <4>1, <4>3
      <3>2. CASE i # 1
        <4>1. i - 1 \in 1..n
          BY <1>1, <3>2
        <4>2. g[i - 1] = h[i - 1]
          BY <4>1
        <4> QED
          BY <1>5, <3>2, <4>2
      <3> QED
        BY <3>1, <3>2
    <2> DEFINE f == CHOOSE f : Rec(f)
    <2>2. Rec(f)
      <3> HIDE DEF Rec, g
      <3> QED
        BY <2>1
    <2>3. FlattenSeq(ss) = f[n]
      BY <1>8, Zenon DEF FlattenSeq
    <2> HIDE DEF f
    <2> DEFINE R == {k \in Nat : k + 1 <= n => f[k + 1] = h[k + 1]}
    <2>4. 0 \in R
      <3>1. 1 \in 1..n
        BY <1>1, <1>8
      <3>2. f[1] = ss[1] /\ g[1] = ss[1]
        BY <2>1, <2>2, <3>1
      <3> QED
        BY <3>1, <3>2
    <2>5. ASSUME NEW k \in R PROVE k + 1 \in R
      <3> SUFFICES ASSUME (k + 1) + 1 <= n PROVE f[(k + 1) + 1] = h[(k + 1) + 1]
        OBVIOUS
      <3>1. /\ k \in Nat /\ k + 2 \in 1..n /\ (k + 2) - 1 = k + 1 /\ k + 2 # 1
            /\ k + 1 <= n /\ (k + 1) + 1 = k + 2
        BY <1>1
      <3>2. f[k + 1] = h[k + 1]
        BY <3>1
      <3>3. f[k + 2] = f[k + 1] \o ss[k + 2]
        BY <2>2, <3>1
      <3>4. h[k + 2] = h[k + 1] \o ss[k + 2]
        BY <1>5, <3>1
      <3> QED
        BY <3>1, <3>2, <3>3, <3>4
    <2>6. R = Nat
      <3>1. R \in SUBSET Nat
        OBVIOUS
      <3> HIDE DEF R
      <3> QED
        BY <2>4, <2>5, <3>1, Induction
    <2>7. n - 1 \in Nat /\ (n - 1) + 1 = n
      BY <1>1, <1>8
    <2>8. f[n] = h[n]
      <3>1. n - 1 \in R
        BY <2>6, <2>7
      <3> QED
        BY <2>7, <3>1
    <2> QED
      BY <1>6, <2>3, <2>8
  <1> QED
    BY <1>7, <1>8

\* What is joined are elements of the sequences.
LEMMA FlattenTyped ==
    ASSUME NEW S, NEW ss \in Seq(Seq(S))
    PROVE  FlattenSeq(ss) \in Seq(S)
  <1>1. PICK h : JoinsFrom(S, ss, h) /\ h[Len(ss)] = FlattenSeq(ss)
    BY FlattenTable
  <1>2. Len(ss) \in 0..Len(ss)
    OBVIOUS
  <1> QED
    BY <1>1, <1>2 DEF JoinsFrom

\* Joining nothing.
LEMMA FlattenEmpty == FlattenSeq(<<>>) = <<>>
  BY DEF FlattenSeq

\* Sequences of sequences that agree so far, joined so far.
LEMMA JoinsAgree ==
    ASSUME NEW S, NEW ss \in Seq(Seq(S)), NEW tt \in Seq(Seq(S)), NEW g, NEW h,
           JoinsFrom(S, ss, g), JoinsFrom(S, tt, h),
           NEW n \in Nat, n <= Len(ss), n <= Len(tt),
           \A i \in 1..n : ss[i] = tt[i]
    PROVE  g[n] = h[n]
  <1> DEFINE R == {k \in Nat : k <= n => g[k] = h[k]}
  <1>1. Len(ss) \in Nat /\ Len(tt) \in Nat
    OBVIOUS
  <1>2. 0 \in R
    BY DEF JoinsFrom
  <1>3. ASSUME NEW k \in R PROVE k + 1 \in R
    <2> SUFFICES ASSUME k + 1 <= n PROVE g[k + 1] = h[k + 1]
      OBVIOUS
    <2>1. /\ k \in Nat /\ k + 1 \in 1..n /\ k + 1 \in 1..Len(ss) /\ k + 1 \in 1..Len(tt)
          /\ (k + 1) - 1 = k /\ k <= n
      BY <1>1
    <2>2. g[k] = h[k]
      BY <2>1
    <2>3. g[k + 1] = g[k] \o ss[k + 1]
      BY <2>1 DEF JoinsFrom
    <2>4. h[k + 1] = h[k] \o tt[k + 1]
      BY <2>1 DEF JoinsFrom
    <2>5. ss[k + 1] = tt[k + 1]
      BY <2>1
    <2> QED
      BY <2>2, <2>3, <2>4, <2>5
  <1>4. R = Nat
    <2>1. R \in SUBSET Nat
      OBVIOUS
    <2> HIDE DEF R
    <2> QED
      BY <1>2, <1>3, <2>1, Induction
  <1> QED
    BY <1>4

\* One more sequence to join.
LEMMA FlattenAppend ==
    ASSUME NEW S, NEW ss \in Seq(Seq(S)), NEW s \in Seq(S)
    PROVE  FlattenSeq(Append(ss, s)) = FlattenSeq(ss) \o s
  <1> DEFINE tt == Append(ss, s)
  <1> DEFINE n == Len(ss)
  <1>1. /\ tt \in Seq(Seq(S)) /\ Len(tt) = n + 1 /\ n \in Nat /\ tt[n + 1] = s
        /\ \A i \in 1..n : tt[i] = ss[i]
    BY AppendProperties
  <1>2. PICK g : JoinsFrom(S, ss, g) /\ g[n] = FlattenSeq(ss)
    BY FlattenTable
  <1>3. PICK h : JoinsFrom(S, tt, h) /\ h[Len(tt)] = FlattenSeq(tt)
    BY <1>1, FlattenTable
  <1> HIDE DEF tt
  <1>4. g[n] = h[n]
    <2>1. n <= Len(ss) /\ n <= Len(tt) /\ \A i \in 1..n : ss[i] = tt[i]
      BY <1>1
    <2>2. JoinsFrom(S, ss, g) /\ JoinsFrom(S, tt, h) /\ tt \in Seq(Seq(S)) /\ n \in Nat
      BY <1>1, <1>2, <1>3
    <2> HIDE DEF n
    <2> QED
      BY <2>1, <2>2, JoinsAgree
  <1>5. h[n + 1] = h[n] \o s
    <2>1. n + 1 \in 1..Len(tt) /\ (n + 1) - 1 = n
      BY <1>1
    <2> QED
      BY <1>1, <1>3, <2>1 DEF JoinsFrom
  <1>6. FlattenSeq(tt) = h[n + 1]
    BY <1>1, <1>3
  <1>7. FlattenSeq(tt) = FlattenSeq(ss) \o s
    <2> HIDE DEF n
    <2> QED
      BY <1>2, <1>4, <1>5, <1>6
  <1> QED
    BY <1>7 DEF tt

\* Whatever is in one of the sequences is in what they are joined to.
LEMMA FlattenHas ==
    ASSUME NEW S, NEW ss \in Seq(Seq(S)), NEW k \in DOMAIN ss, NEW x \in ToSet(ss[k])
    PROVE  x \in ToSet(FlattenSeq(ss))
  <1> DEFINE n == Len(ss)
  <1>1. PICK h : JoinsFrom(S, ss, h) /\ h[n] = FlattenSeq(ss)
    BY FlattenTable
  <1>2. n \in Nat /\ k \in 1..n
    OBVIOUS
  <1> DEFINE R == {d \in Nat : k + d <= n => x \in ToSet(h[k + d])}
  <1>3. ASSUME NEW a \in Seq(S), NEW b \in Seq(S)
        PROVE  ToSet(a) \subseteq ToSet(a \o b) /\ ToSet(b) \subseteq ToSet(a \o b)
    <2>1. /\ a \o b \in Seq(S) /\ Len(a \o b) = Len(a) + Len(b)
          /\ \A i \in 1..Len(a) : (a \o b)[i] = a[i]
          /\ \A i \in 1..Len(b) : (a \o b)[Len(a) + i] = b[i]
      BY ConcatProperties
    <2> DEFINE c == a \o b
    <2>2. ASSUME NEW i \in DOMAIN a PROVE a[i] \in ToSet(c)
      <3>1. i \in 1..Len(a) /\ i \in DOMAIN c /\ c[i] = a[i]
        BY <2>1
      <3> HIDE DEF c
      <3> QED
        BY <3>1 DEF ToSet
    <2>3. ASSUME NEW i \in DOMAIN b PROVE b[i] \in ToSet(c)
      <3>1. i \in 1..Len(b) /\ Len(a) + i \in DOMAIN c /\ c[Len(a) + i] = b[i]
        BY <2>1
      <3> HIDE DEF c
      <3> QED
        BY <3>1 DEF ToSet
    <2> HIDE DEF c
    <2>4. ToSet(a) \subseteq ToSet(c)
      BY <2>2 DEF ToSet
    <2>5. ToSet(b) \subseteq ToSet(c)
      BY <2>3 DEF ToSet
    <2> QED
      BY <2>4, <2>5 DEF c
  <1>4. \A i \in 1..n : h[i] = h[i - 1] \o ss[i] /\ h[i - 1] \in Seq(S) /\ ss[i] \in Seq(S)
    <2> SUFFICES ASSUME NEW i \in 1..n
                 PROVE  h[i] = h[i - 1] \o ss[i] /\ h[i - 1] \in Seq(S) /\ ss[i] \in Seq(S)
      OBVIOUS
    <2>1. i - 1 \in 0..n
      BY <1>2
    <2>2. ss[i] \in Seq(S)
      OBVIOUS
    <2> QED
      BY <1>1, <2>1, <2>2 DEF JoinsFrom
  <1>5. 0 \in R
    <2>1. x \in ToSet(h[k])
      BY <1>2, <1>3, <1>4
    <2> QED
      BY <1>2, <2>1
  <1>6. ASSUME NEW d \in R PROVE d + 1 \in R
    <2> SUFFICES ASSUME k + (d + 1) <= n PROVE x \in ToSet(h[k + (d + 1)])
      OBVIOUS
    <2>1. d \in Nat /\ k + (d + 1) \in 1..n /\ (k + (d + 1)) - 1 = k + d /\ k + d <= n
      BY <1>2
    <2>2. x \in ToSet(h[k + d])
      BY <2>1
    <2>3. /\ h[k + (d + 1)] = h[k + d] \o ss[k + (d + 1)]
          /\ h[k + d] \in Seq(S) /\ ss[k + (d + 1)] \in Seq(S)
      BY <1>4, <2>1
    <2> QED
      BY <1>3, <2>2, <2>3
  <1>7. R = Nat
    <2>1. R \in SUBSET Nat
      OBVIOUS
    <2> HIDE DEF R
    <2> QED
      BY <1>5, <1>6, <2>1, Induction
  <1>8. n - k \in R /\ k + (n - k) = n
    BY <1>2, <1>7
  <1>9. x \in ToSet(h[n])
    BY <1>8, <1>2
  <1> QED
    BY <1>1, <1>9

\* The one-element and empty sequences that At joins.
Singles(seq, places) == [i \in DOMAIN seq |-> IF i \in places THEN <<seq[i]>> ELSE <<>>]

\* What At joins, and that it joins it.
LEMMA SinglesTyped ==
    ASSUME NEW S, NEW seq \in Seq(S), NEW T, NEW places,
           \A i \in DOMAIN seq : i \in places => seq[i] \in T
    PROVE  /\ Singles(seq, places) \in Seq(Seq(T))
           /\ Len(Singles(seq, places)) = Len(seq)
           /\ At(seq, places) = FlattenSeq(Singles(seq, places))
  <1>1. Len(seq) \in Nat /\ DOMAIN seq = 1..Len(seq)
    OBVIOUS
  <1>2. \A i \in 1..Len(seq) : (IF i \in places THEN <<seq[i]>> ELSE <<>>) \in Seq(T)
    <2>1. \A x \in T : <<x>> \in Seq(T)
      OBVIOUS
    <2>2. <<>> \in Seq(T)
      OBVIOUS
    <2> QED
      BY <1>1, <2>1, <2>2
  <1>3. Singles(seq, places) = [i \in 1..Len(seq) |-> IF i \in places THEN <<seq[i]>> ELSE <<>>]
    BY <1>1 DEF Singles
  <1> DEFINE V == Seq(T)
  <1>4. Singles(seq, places) \in [1..Len(seq) -> V]
    <2> HIDE DEF V
    <2> QED
      BY <1>2, <1>3 DEF V
  <1>5. Singles(seq, places) \in Seq(V) /\ Len(Singles(seq, places)) = Len(seq)
    <2> HIDE DEF V
    <2> QED
      BY <1>1, <1>4
  <1> QED
    BY <1>5 DEF At, Singles

\* What is picked has what every picked element has.
LEMMA AtTyped ==
    ASSUME NEW S, NEW seq \in Seq(S), NEW T, NEW places,
           \A i \in DOMAIN seq : i \in places => seq[i] \in T
    PROVE  At(seq, places) \in Seq(T)
  BY SinglesTyped, FlattenTyped

\* A picked element is among those picked.
LEMMA AtHas ==
    ASSUME NEW S, NEW seq \in Seq(S), NEW places, NEW i \in DOMAIN seq, i \in places
    PROVE  seq[i] \in ToSet(At(seq, places))
  <1> DEFINE ss == Singles(seq, places)
  <1>1. ss \in Seq(Seq(S)) /\ Len(ss) = Len(seq) /\ At(seq, places) = FlattenSeq(ss)
    <2>1. \A k \in DOMAIN seq : k \in places => seq[k] \in S
      OBVIOUS
    <2> QED
      BY <2>1, SinglesTyped
  <1>2. ss[i] = <<seq[i]>>
    BY DEF Singles
  <1>3. i \in DOMAIN ss
    BY DEF Singles
  <1> HIDE DEF ss
  <1>4. seq[i] \in ToSet(ss[i])
    BY <1>2 DEF ToSet
  <1> QED
    BY <1>1, <1>3, <1>4, FlattenHas

\* Nothing is picked of nothing.
LEMMA AtEmpty == \A places : At(<<>>, places) = <<>>
  <1> SUFFICES ASSUME NEW places PROVE At(<<>>, places) = <<>>
    OBVIOUS
  <1>1. <<>> \in Seq({}) /\ \A i \in DOMAIN <<>> : i \in places => <<>>[i] \in {}
    OBVIOUS
  <1>2. At(<<>>, places) \in Seq({})
    BY <1>1, AtTyped
  <1> QED
    BY <1>2

\* Nothing is picked if no place is one of the sequence.
LEMMA AtNone ==
    ASSUME NEW S, NEW seq \in Seq(S), NEW places, \A i \in DOMAIN seq : i \notin places
    PROVE  At(seq, places) = <<>>
  <1>1. At(seq, places) \in Seq({})
    BY AtTyped
  <1> QED
    BY <1>1

\* One more element, at a place that is picked or is not.
LEMMA AtAppend ==
    ASSUME NEW S, NEW s \in Seq(S), NEW x \in S, NEW I, NEW J,
           \A i \in 1..Len(s) : i \in I <=> i \in J
    PROVE  At(Append(s, x), J) = IF Len(s) + 1 \in J THEN Append(At(s, I), x) ELSE At(s, I)
  <1> DEFINE t == Append(s, x)
  <1> DEFINE n == Len(s)
  <1> DEFINE last == IF n + 1 \in J THEN <<x>> ELSE <<>>
  <1>1. /\ t \in Seq(S) /\ Len(t) = n + 1 /\ n \in Nat /\ t[n + 1] = x
        /\ DOMAIN t = 1..(n + 1) /\ DOMAIN s = 1..n
        /\ \A i \in 1..n : t[i] = s[i]
    BY AppendProperties
  <1>2. /\ \A k \in DOMAIN s : k \in I => s[k] \in S
        /\ \A k \in DOMAIN t : k \in J => t[k] \in S
    BY <1>1
  <1>3. /\ Singles(s, I) \in Seq(Seq(S)) /\ Len(Singles(s, I)) = n
        /\ At(s, I) = FlattenSeq(Singles(s, I))
    BY <1>2, SinglesTyped
  <1>4. At(t, J) = FlattenSeq(Singles(t, J))
    <2> HIDE DEF t
    <2> QED
      BY <1>1, <1>2, SinglesTyped
  <1>5. last \in Seq(S)
    OBVIOUS
  <1>6. Singles(t, J) = Append(Singles(s, I), last)
    <2> DEFINE a == Singles(s, I)
    <2> DEFINE b == Append(a, last)
    <2>1. /\ DOMAIN b = 1..(n + 1) /\ b[n + 1] = last /\ b \in Seq(Seq(S))
          /\ \A i \in 1..n : b[i] = a[i]
      <3> DEFINE V == Seq(S)
      <3>1. a \in Seq(V) /\ last \in V /\ Len(a) = n
        BY <1>3, <1>5
      <3> HIDE DEF a, last, V, n
      <3>2. b \in Seq(V) /\ Len(b) = n + 1 /\ b[n + 1] = last /\ \A i \in 1..n : b[i] = a[i]
        BY <3>1, AppendProperties
      <3>3. b \in Seq(V) /\ DOMAIN b = 1..(n + 1) /\ b[n + 1] = last
            /\ \A i \in 1..n : b[i] = a[i]
        <4> HIDE DEF b
        <4> QED
          BY <3>2
      <3> QED
        BY <3>3 DEF V
    <2>2. \A i \in 1..n : a[i] = IF i \in I THEN <<s[i]>> ELSE <<>>
      BY <1>1 DEF Singles
    <2> HIDE DEF a, b, t
    <2>3. Singles(t, J) = [i \in 1..(n + 1) |-> IF i \in J THEN <<t[i]>> ELSE <<>>]
      BY <1>1 DEF Singles
    <2>4. \A i \in 1..(n + 1) : b[i] = IF i \in J THEN <<t[i]>> ELSE <<>>
      <3> SUFFICES ASSUME NEW i \in 1..(n + 1) PROVE b[i] = IF i \in J THEN <<t[i]>> ELSE <<>>
        OBVIOUS
      <3>1. CASE i = n + 1
        BY <1>1, <2>1, <3>1
      <3>2. CASE i # n + 1
        <4>1. i \in 1..n
          BY <1>1, <3>2
        <4> QED
          BY <1>1, <2>1, <2>2, <4>1
      <3> QED
        BY <3>1, <3>2
    <2>5. b = [i \in 1..(n + 1) |-> b[i]]
      <3>1. b = [i \in DOMAIN b |-> b[i]]
        BY <2>1
      <3> QED
        BY <2>1, <3>1
    <2>6. Singles(t, J) = b
      BY <2>3, <2>4, <2>5
    <2> QED
      BY <2>6 DEF a, b
  <1>7. At(t, J) = At(s, I) \o last
    <2> HIDE DEF last, t
    <2> QED
      BY <1>3, <1>4, <1>5, <1>6, FlattenAppend
  <1>8. At(s, I) \in Seq(S)
    BY <1>2, AtTyped
  <1>9. At(s, I) \o last = IF n + 1 \in J THEN Append(At(s, I), x) ELSE At(s, I)
    <2>1. CASE n + 1 \in J
      <3>1. At(s, I) \o <<x>> = Append(At(s, I), x)
        BY <1>8, AppendIsConcat
      <3> QED
        BY <2>1, <3>1
    <2>2. CASE n + 1 \notin J
      <3>1. At(s, I) \o <<>> = At(s, I)
        BY <1>8, ConcatEmptySeq
      <3> QED
        BY <2>2, <3>1
    <2> QED
      BY <2>1, <2>2
  <1> QED
    BY <1>7, <1>9 DEF t

\* The last element picked is the one at the last place that is picked.
LEMMA AtLast ==
    ASSUME NEW S, NEW seq \in Seq(S), NEW places, NEW m \in DOMAIN seq, m \in places,
           \A i \in DOMAIN seq : i \in places => i <= m
    PROVE  At(seq, places) # <<>> /\ Last(At(seq, places)) = seq[m]
  <1> DEFINE ss == Singles(seq, places)
  <1> DEFINE n == Len(seq)
  <1>1. ss \in Seq(Seq(S)) /\ Len(ss) = n /\ At(seq, places) = FlattenSeq(ss)
    <2>1. \A k \in DOMAIN seq : k \in places => seq[k] \in S
      OBVIOUS
    <2> QED
      BY <2>1, SinglesTyped
  <1>2. n \in Nat /\ m \in 1..n /\ DOMAIN seq = 1..n /\ m - 1 \in 0..n /\ m \in 0..n
    OBVIOUS
  <1>3. ss[m] = <<seq[m]>> /\ \A i \in 1..n : i > m => ss[i] = <<>>
    BY <1>2 DEF Singles
  <1> HIDE DEF ss, n
  <1>4. PICK h : JoinsFrom(S, ss, h) /\ h[n] = FlattenSeq(ss)
    BY <1>1, FlattenTable
  <1>5. h \in [0..n -> Seq(S)] /\ \A i \in 1..n : h[i] = h[i - 1] \o ss[i]
    BY <1>1, <1>4 DEF JoinsFrom
  <1> DEFINE R == {d \in Nat : m + d <= n => h[m + d] = h[m]}
  <1>6. 0 \in R
    BY <1>2
  <1>7. ASSUME NEW d \in R PROVE d + 1 \in R
    <2> SUFFICES ASSUME m + (d + 1) <= n PROVE h[m + (d + 1)] = h[m]
      OBVIOUS
    <2>1. /\ d \in Nat /\ m + (d + 1) \in 1..n /\ (m + (d + 1)) - 1 = m + d /\ m + d <= n
          /\ m + (d + 1) > m /\ m + d \in 0..n
      BY <1>2
    <2>2. h[m + (d + 1)] = h[m + d] \o <<>>
      BY <1>3, <1>5, <2>1
    <2>3. h[m + d] \o <<>> = h[m + d]
      BY <1>5, <2>1, ConcatEmptySeq
    <2> QED
      BY <2>1, <2>2, <2>3
  <1>8. R = Nat
    <2>1. R \in SUBSET Nat
      OBVIOUS
    <2> HIDE DEF R
    <2> QED
      BY <1>6, <1>7, <2>1, Induction
  <1>9. n - m \in R /\ m + (n - m) = n
    BY <1>2, <1>8
  <1>10. h[n] = h[m]
    BY <1>2, <1>9
  <1>11. h[m - 1] \in Seq(S) /\ seq[m] \in S /\ h[m] = h[m - 1] \o <<seq[m]>>
    <2>1. h[m - 1] \in Seq(S)
      BY <1>2, <1>5
    <2>2. h[m] = h[m - 1] \o ss[m]
      BY <1>2, <1>5
    <2>3. seq[m] \in S
      OBVIOUS
    <2> QED
      BY <1>3, <2>1, <2>2, <2>3
  <1>12. h[m] = Append(h[m - 1], seq[m])
    BY <1>11, AppendIsConcat
  <1>13. /\ Append(h[m - 1], seq[m]) # <<>>
         /\ Append(h[m - 1], seq[m])[Len(Append(h[m - 1], seq[m]))] = seq[m]
    BY <1>11, AppendProperties
  <1> QED
    BY <1>1, <1>4, <1>10, <1>12, <1>13 DEF Last

-----------------------------------------------------------------------------
(* The types of a conversation: what is said, whose words are in Talk, and   *)
(* what tools are asked and return, which is in Tools. A conversion keeps    *)
(* both sets, whatever they are.                                             *)

TalkKinds == {"text", "reasoning", "thinking", "redacted_thinking"}
TalkParts(Talk) ==
    [kind : TalkKinds, text : Seq(Talk), id : {NoId}, name : {""}, sig : Int]
Roles == {"system", "developer", "user", "assistant", "model", "tool", "function_call",
          "function_call_output", "reasoning"}
PartsOf(Talk, Tools) == TalkParts(Talk) \cup Tools
MessagesOf(Talk, Tools) == [role : Roles, parts : Seq(PartsOf(Talk, Tools))]
BodiesOf(Talk, Tools) == [system : Seq(Talk), messages : Seq(MessagesOf(Talk, Tools))]
AreTools(Tools) == \A p \in Tools : p.kind \in {"call", "result"}

\* A function over the places of a sequence is a sequence.
LEMMA MapTyped ==
    ASSUME NEW X, NEW s \in Seq(X), NEW T, NEW f \in [DOMAIN s -> T]
    PROVE  f \in Seq(T) /\ Len(f) = Len(s)
  <1>1. DOMAIN s = 1..Len(s) /\ Len(s) \in Nat
    OBVIOUS
  <1> QED
    BY <1>1

\* The words of a text are of its set.
LEMMA WordsOf ==
    ASSUME NEW S, NEW s \in Seq(S)
    PROVE  \A w \in ToSet(s) : w \in S
  BY DEF ToSet

\* A message has the role and the parts it is made of.
LEMMA MessageFields ==
    \A role, parts : Message(role, parts).role = role /\ Message(role, parts).parts = parts
  BY DEF Message

\* A message of any set of parts.
LEMMA MessageIn ==
    ASSUME NEW X, NEW role \in Roles, NEW parts \in Seq(X)
    PROVE  Message(role, parts) \in [role : Roles, parts : Seq(X)]
  BY DEF Message

\* A message of parts is one of a conversation.
LEMMA MessageTyped ==
    ASSUME NEW Talk, NEW Tools, NEW role \in Roles, NEW parts \in Seq(PartsOf(Talk, Tools))
    PROVE  /\ Message(role, parts) \in MessagesOf(Talk, Tools)
           /\ Message(role, parts).role = role /\ Message(role, parts).parts = parts
  BY DEF Message, MessagesOf

\* A system text and messages are a body.
LEMMA BodyTyped ==
    ASSUME NEW Talk, NEW Tools, NEW system \in Seq(Talk),
           NEW messages \in Seq(MessagesOf(Talk, Tools))
    PROVE  /\ Body(system, messages) \in BodiesOf(Talk, Tools)
           /\ Body(system, messages).system = system
           /\ Body(system, messages).messages = messages
  BY DEF Body, BodiesOf

\* A message of a body and one of its parts.
LEMMA MessageIs ==
    ASSUME NEW Talk, NEW Tools, NEW m \in MessagesOf(Talk, Tools)
    PROVE  /\ m.role \in Roles /\ m.parts \in Seq(PartsOf(Talk, Tools))
           /\ m = Message(m.role, m.parts)
  BY DEF Message, MessagesOf

\* A text and a thought are talk.
LEMMA TextTyped ==
    ASSUME NEW Talk, NEW text \in Seq(Talk)
    PROVE  /\ Text(text) \in TalkParts(Talk) /\ Text(text).kind = "text"
           /\ Text(text).text = text
           /\ \A sig \in Int : /\ Reasoning(text, sig) \in TalkParts(Talk)
                               /\ Reasoning(text, sig).text = text
                               /\ Reasoning(text, sig).kind = "reasoning"
  BY DEF Text, Reasoning, Part, TalkParts, TalkKinds, NoId, NoSignature

\* So is a text that is left out when it is empty.
LEMMA TextIfAnyTyped ==
    ASSUME NEW Talk, NEW text \in Seq(Talk)
    PROVE  TextIfAny(text) \in Seq(TalkParts(Talk))
  <1>1. Text(text) \in TalkParts(Talk)
    BY TextTyped
  <1> HIDE DEF TalkParts
  <1> QED
    BY <1>1 DEF TextIfAny

\* What talk is joined to, and that none of it is lost.
LEMMA TextsTyped ==
    ASSUME NEW Talk, NEW parts \in Seq(TalkParts(Talk))
    PROVE  /\ Texts(parts) \in Seq(Talk)
           /\ \A i \in DOMAIN parts : \A w \in ToSet(parts[i].text) : w \in ToSet(Texts(parts))
  <1> DEFINE ss == [i \in DOMAIN parts |-> parts[i].text]
  <1>1. \A i \in DOMAIN parts : parts[i].text \in Seq(Talk)
    <2>1. \A i \in DOMAIN parts : parts[i] \in TalkParts(Talk)
      OBVIOUS
    <2>2. \A p \in TalkParts(Talk) : p.text \in Seq(Talk)
      BY DEF TalkParts
    <2> QED
      BY <2>1, <2>2
  <1>2. ss \in Seq(Seq(Talk))
    <2> DEFINE V == Seq(Talk)
    <2>1. ss \in [DOMAIN parts -> V]
      BY <1>1
    <2> HIDE DEF V, ss
    <2>2. ss \in Seq(V)
      BY <2>1, MapTyped
    <2> QED
      BY <2>2 DEF V
  <1>3. Texts(parts) = FlattenSeq(ss)
    BY DEF Texts
  <1>4. Texts(parts) \in Seq(Talk)
    BY <1>2, <1>3, FlattenTyped
  <1>5. ASSUME NEW i \in DOMAIN parts, NEW w \in ToSet(parts[i].text)
        PROVE  w \in ToSet(Texts(parts))
    <2>1. i \in DOMAIN ss /\ w \in ToSet(ss[i])
      BY <1>5
    <2> HIDE DEF ss
    <2> QED
      BY <1>2, <1>3, <2>1, FlattenHas
  <1> QED
    BY <1>4, <1>5

\* The parts of a kind.
LEMMA OfKindTyped ==
    ASSUME NEW Talk, NEW Tools, AreTools(Tools), NEW parts \in Seq(PartsOf(Talk, Tools)), NEW kind
    PROVE  /\ kind \in TalkKinds => OfKind(parts, kind) \in Seq(TalkParts(Talk))
           /\ kind \notin TalkKinds => OfKind(parts, kind) \in Seq(Tools)
           /\ OfKind(parts, kind) \in Seq({p \in PartsOf(Talk, Tools) : p.kind = kind})
           /\ \A i \in DOMAIN parts : parts[i].kind = kind => parts[i] \in ToSet(OfKind(parts, kind))
  <1> DEFINE places == {i \in DOMAIN parts : parts[i].kind = kind}
  <1>1. OfKind(parts, kind) = At(parts, places)
    BY DEF OfKind
  <1>2. \A i \in DOMAIN parts : i \in places => parts[i] \in PartsOf(Talk, Tools) /\ parts[i].kind = kind
    OBVIOUS
  <1>3. \A i \in DOMAIN parts : i \in places => parts[i] \in {p \in PartsOf(Talk, Tools) : p.kind = kind}
    BY <1>2
  <1>4. ASSUME kind \in TalkKinds
        PROVE  \A i \in DOMAIN parts : i \in places => parts[i] \in TalkParts(Talk)
    BY <1>2, <1>4 DEF PartsOf, AreTools, TalkKinds
  <1>5. ASSUME kind \notin TalkKinds
        PROVE  \A i \in DOMAIN parts : i \in places => parts[i] \in Tools
    BY <1>2, <1>5 DEF PartsOf, TalkParts
  <1>6. \A i \in DOMAIN parts : parts[i].kind = kind => i \in places
    OBVIOUS
  <1> HIDE DEF places
  <1>7. \A i \in DOMAIN parts : parts[i].kind = kind => parts[i] \in ToSet(OfKind(parts, kind))
    BY <1>1, <1>6, AtHas
  <1>8. OfKind(parts, kind) \in Seq({p \in PartsOf(Talk, Tools) : p.kind = kind})
    <2> DEFINE T == {p \in PartsOf(Talk, Tools) : p.kind = kind}
    <2>1. \A i \in DOMAIN parts : i \in places => parts[i] \in T
      BY <1>3
    <2> HIDE DEF T
    <2>2. At(parts, places) \in Seq(T)
      BY <2>1, AtTyped
    <2> QED
      BY <1>1, <2>2 DEF T
  <1>9. kind \in TalkKinds => OfKind(parts, kind) \in Seq(TalkParts(Talk))
    BY <1>1, <1>4, AtTyped
  <1>10. kind \notin TalkKinds => OfKind(parts, kind) \in Seq(Tools)
    BY <1>1, <1>5, AtTyped
  <1> QED
    BY <1>7, <1>8, <1>9, <1>10

\* The joined text of a message: its words, and none of its texts is lost.
LEMMA JoinedTyped ==
    ASSUME NEW Talk, NEW Tools, AreTools(Tools), NEW parts \in Seq(PartsOf(Talk, Tools))
    PROVE  /\ Joined(parts) \in Seq(Talk)
           /\ \A i \in DOMAIN parts : parts[i].kind = "text" =>
                \A w \in ToSet(parts[i].text) : w \in ToSet(Joined(parts))
  <1> DEFINE texts == OfKind(parts, "text")
  <1>1. texts \in Seq(TalkParts(Talk))
    BY OfKindTyped DEF TalkKinds
  <1>2. \A i \in DOMAIN parts : parts[i].kind = "text" => parts[i] \in ToSet(texts)
    BY OfKindTyped
  <1> HIDE DEF texts
  <1>3. Joined(parts) = Texts(texts)
    BY DEF Joined, texts
  <1>4. ASSUME NEW i \in DOMAIN parts, parts[i].kind = "text", NEW w \in ToSet(parts[i].text)
        PROVE  w \in ToSet(Joined(parts))
    <2>1. PICK k \in DOMAIN texts : texts[k] = parts[i]
      BY <1>2, <1>4 DEF ToSet
    <2> QED
      BY <1>1, <1>3, <1>4, <2>1, TextsTyped
  <1> QED
    BY <1>1, <1>3, <1>4, TextsTyped

\* The text of the messages of a role: their words, and none of them is lost.
LEMMA TextOfRoleTyped ==
    ASSUME NEW Talk, NEW Tools, AreTools(Tools), NEW messages \in Seq(MessagesOf(Talk, Tools)),
           NEW role
    PROVE  /\ TextOfRole(messages, role) \in Seq(Talk)
           /\ \A i \in DOMAIN messages : messages[i].role = role =>
                \A j \in DOMAIN messages[i].parts : messages[i].parts[j].kind = "text" =>
                    \A w \in ToSet(messages[i].parts[j].text) :
                        w \in ToSet(TextOfRole(messages, role))
  <1> DEFINE ss == [i \in DOMAIN messages |->
                       IF messages[i].role = role THEN Joined(messages[i].parts) ELSE <<>>]
  <1>1. TextOfRole(messages, role) = FlattenSeq(ss)
    BY DEF TextOfRole
  <1>2. \A i \in DOMAIN messages : messages[i].parts \in Seq(PartsOf(Talk, Tools))
    <2>1. \A i \in DOMAIN messages : messages[i] \in MessagesOf(Talk, Tools)
      OBVIOUS
    <2> QED
      BY <2>1, MessageIs
  <1>3. ss \in Seq(Seq(Talk))
    <2> DEFINE V == Seq(Talk)
    <2>1. \A i \in DOMAIN messages : Joined(messages[i].parts) \in V
      BY <1>2, JoinedTyped
    <2>2. <<>> \in V
      OBVIOUS
    <2> HIDE DEF V
    <2>3. ss \in [DOMAIN messages -> V]
      BY <2>1, <2>2
    <2> HIDE DEF ss
    <2>4. ss \in Seq(V)
      BY <2>3, MapTyped
    <2> QED
      BY <2>4 DEF V
  <1>4. ASSUME NEW i \in DOMAIN messages, messages[i].role = role,
               NEW j \in DOMAIN messages[i].parts, messages[i].parts[j].kind = "text",
               NEW w \in ToSet(messages[i].parts[j].text)
        PROVE  w \in ToSet(TextOfRole(messages, role))
    <2>1. i \in DOMAIN ss /\ ss[i] = Joined(messages[i].parts)
      BY <1>4
    <2>2. w \in ToSet(Joined(messages[i].parts))
      BY <1>2, <1>4, JoinedTyped
    <2> HIDE DEF ss
    <2> QED
      BY <1>1, <1>3, <2>1, <2>2, FlattenHas
  <1>5. TextOfRole(messages, role) \in Seq(Talk)
    BY <1>1, <1>3, FlattenTyped
  <1> QED
    BY <1>4, <1>5

\* The messages of the other roles.
LEMMA WithoutRoleTyped ==
    ASSUME NEW M, NEW messages \in Seq(M), NEW role
    PROVE  /\ WithoutRole(messages, role) \in Seq({m \in M : m.role # role})
           /\ WithoutRole(messages, role) \in Seq(M)
           /\ \A i \in DOMAIN messages : messages[i].role # role =>
                messages[i] \in ToSet(WithoutRole(messages, role))
  <1> DEFINE places == {i \in DOMAIN messages : messages[i].role # role}
  <1> DEFINE T == {m \in M : m.role # role}
  <1>1. WithoutRole(messages, role) = At(messages, places)
    BY DEF WithoutRole
  <1>2. \A i \in DOMAIN messages : i \in places => messages[i] \in T /\ messages[i] \in M
    OBVIOUS
  <1>3. \A i \in DOMAIN messages : messages[i].role # role => i \in places
    OBVIOUS
  <1> HIDE DEF places
  <1>4. WithoutRole(messages, role) \in Seq(M)
    BY <1>1, <1>2, AtTyped
  <1>5. WithoutRole(messages, role) \in Seq(T)
    <2> HIDE DEF T
    <2> QED
      BY <1>1, <1>2, AtTyped
  <1>6. \A i \in DOMAIN messages : messages[i].role # role =>
            messages[i] \in ToSet(WithoutRole(messages, role))
    BY <1>1, <1>3, AtHas
  <1> QED
    BY <1>4, <1>5, <1>6

\* All parts of a conversation.
LEMMA AllPartsTyped ==
    ASSUME NEW Talk, NEW Tools, NEW messages \in Seq(MessagesOf(Talk, Tools))
    PROVE  /\ AllParts(messages) \in Seq(PartsOf(Talk, Tools))
           /\ \A i \in DOMAIN messages : \A j \in DOMAIN messages[i].parts :
                messages[i].parts[j] \in ToSet(AllParts(messages))
  <1> DEFINE ss == [i \in DOMAIN messages |-> messages[i].parts]
  <1> DEFINE P == PartsOf(Talk, Tools)
  <1>1. \A i \in DOMAIN messages : messages[i].parts \in Seq(P)
    <2>1. \A i \in DOMAIN messages : messages[i] \in MessagesOf(Talk, Tools)
      OBVIOUS
    <2> QED
      BY <2>1, MessageIs
  <1>2. AllParts(messages) = FlattenSeq(ss)
    BY DEF AllParts
  <1> HIDE DEF P
  <1>3. ss \in Seq(Seq(P))
    <2> DEFINE V == Seq(P)
    <2>1. ss \in [DOMAIN messages -> V]
      BY <1>1
    <2> HIDE DEF V, ss
    <2>2. ss \in Seq(V)
      BY <2>1, MapTyped
    <2> QED
      BY <2>2 DEF V
  <1>4. AllParts(messages) \in Seq(P)
    BY <1>2, <1>3, FlattenTyped
  <1>5. ASSUME NEW i \in DOMAIN messages, NEW j \in DOMAIN messages[i].parts
        PROVE  messages[i].parts[j] \in ToSet(AllParts(messages))
    <2>1. i \in DOMAIN ss /\ messages[i].parts[j] \in ToSet(ss[i])
      BY DEF ToSet
    <2> HIDE DEF ss
    <2> QED
      BY <1>2, <1>3, <2>1, FlattenHas
  <1> QED
    BY <1>4, <1>5 DEF P

\* Messages made of others by a conversion of each part.
Fits(out, messages) ==
    /\ out = [i \in DOMAIN messages |-> out[i]]
    /\ \A i \in DOMAIN messages :
          /\ out[i] = Message(messages[i].role, out[i].parts)
          /\ out[i].parts = [j \in DOMAIN messages[i].parts |-> out[i].parts[j]]

\* They have the type of what the parts become.
LEMMA EachTyped ==
    ASSUME NEW Talk, NEW Tools, NEW messages \in Seq(MessagesOf(Talk, Tools)),
           NEW out, Fits(out, messages), NEW P2,
           \A i \in DOMAIN messages : \A j \in DOMAIN messages[i].parts : out[i].parts[j] \in P2
    PROVE  /\ out \in Seq([role : Roles, parts : Seq(P2)])
           /\ DOMAIN out = DOMAIN messages
           /\ \A i \in DOMAIN messages :
                out[i].role = messages[i].role /\ DOMAIN out[i].parts = DOMAIN messages[i].parts
  <1> DEFINE P == PartsOf(Talk, Tools)
  <1> DEFINE M2 == [role : Roles, parts : Seq(P2)]
  <1>1. \A i \in DOMAIN messages : messages[i].role \in Roles /\ messages[i].parts \in Seq(P)
    <2>1. \A i \in DOMAIN messages : messages[i] \in MessagesOf(Talk, Tools)
      OBVIOUS
    <2> QED
      BY <2>1, MessageIs
  <1> HIDE DEF P
  <1>2. \A i \in DOMAIN messages : out[i].parts \in Seq(P2)
    <2> SUFFICES ASSUME NEW i \in DOMAIN messages
                 PROVE  out[i].parts \in Seq(P2)
      OBVIOUS
    <2> DEFINE parts == messages[i].parts
    <2> DEFINE parts2 == out[i].parts
    <2>1. parts \in Seq(P) /\ parts2 = [j \in DOMAIN parts |-> parts2[j]]
      BY <1>1 DEF Fits
    <2>2. \A j \in DOMAIN parts : parts2[j] \in P2
      OBVIOUS
    <2> HIDE DEF parts, parts2
    <2>3. parts2 \in [DOMAIN parts -> P2]
      BY <2>1, <2>2
    <2>4. parts2 \in Seq(P2)
      BY <2>1, <2>3, MapTyped
    <2> QED
      BY <2>4 DEF parts2
  <1>3. \A i \in DOMAIN messages : out[i] = Message(messages[i].role, out[i].parts)
    BY DEF Fits
  <1>4. \A i \in DOMAIN messages : out[i] \in M2
    <2> SUFFICES ASSUME NEW i \in DOMAIN messages PROVE out[i] \in M2
      OBVIOUS
    <2>1. Message(messages[i].role, out[i].parts) \in M2
      BY <1>1, <1>2, MessageIn
    <2> QED
      BY <1>3, <2>1
  <1>5. out \in [DOMAIN messages -> M2]
    <2>1. out = [i \in DOMAIN messages |-> out[i]]
      BY DEF Fits
    <2> HIDE DEF M2
    <2> QED
      BY <1>4, <2>1
  <1>6. out \in Seq(M2) /\ Len(out) = Len(messages)
    <2> HIDE DEF M2
    <2> QED
      BY <1>5, MapTyped
  <1>7. \A i \in DOMAIN messages :
            out[i].role = messages[i].role /\ DOMAIN out[i].parts = DOMAIN messages[i].parts
    <2> SUFFICES ASSUME NEW i \in DOMAIN messages
                 PROVE  out[i].role = messages[i].role /\ DOMAIN out[i].parts = DOMAIN messages[i].parts
      OBVIOUS
    <2>1. out[i].role = messages[i].role
      BY <1>3, MessageFields
    <2> DEFINE parts == messages[i].parts
    <2> DEFINE parts2 == out[i].parts
    <2>2. parts2 = [j \in DOMAIN parts |-> parts2[j]]
      BY DEF Fits
    <2> HIDE DEF parts, parts2
    <2>3. DOMAIN parts2 = DOMAIN parts
      BY <2>2
    <2> QED
      BY <2>1, <2>3 DEF parts, parts2
  <1> QED
    BY <1>5, <1>6, <1>7

-----------------------------------------------------------------------------
(* What a client writes. Each dialect has its own shape, without which words *)
(* could be lost when it is decoded.                                         *)

\* A message of a dialect.
Fine(d, m) ==
    CASE d = "anthropic" ->
            \A j \in DOMAIN m.parts :
                /\ m.role = "system" => m.parts[j].kind = "text"
                /\ m.parts[j].kind = "redacted_thinking" => m.parts[j].text = <<>>
      [] d = "openai" ->
            /\ m.role \in {"system", "user", "assistant", "tool"}
            /\ \A j \in DOMAIN m.parts :
                /\ m.role = "system" => m.parts[j].kind = "text"
                /\ m.role = "assistant" => m.parts[j].kind \in {"text", "call"}
      [] OTHER ->
            /\ m.role \in {"function_call", "function_call_output"} => m.parts # <<>>
            /\ \A j \in DOMAIN m.parts : m.role = "reasoning" => m.parts[j].kind = "text"
\* Only Anthropic's wire has thinking.
Plain(parts) == \A j \in DOMAIN parts : parts[j].kind \in {"text", "reasoning", "call", "result"}
AllPlain(messages) == \A i \in DOMAIN messages : Plain(messages[i].parts)
FineMessages(d, Talk, Tools) ==
    {m \in MessagesOf(Talk, Tools) : Fine(d, m) /\ (d # "anthropic" => Plain(m.parts))}

\* The place of the system text.
FineSystem(d, body) ==
    /\ d = "openai" => body.system = <<>>
    /\ d = "anthropic" /\ body.system # <<>> =>
          \A i \in DOMAIN body.messages : body.messages[i].role # "system"
FineBodies(d, Talk, Tools) ==
    {b \in [system : Seq(Talk), messages : Seq(FineMessages(d, Talk, Tools))] : FineSystem(d, b)}

\* All that is said is in a set of words.
PartsIn(parts, D) ==
    \A j \in DOMAIN parts : parts[j].kind \in TalkKinds => \A w \in ToSet(parts[j].text) : w \in D
Within(messages, D) == \A i \in DOMAIN messages : PartsIn(messages[i].parts, D)
SaidIn(body, D) == (\A w \in ToSet(body.system) : w \in D) /\ Within(body.messages, D)

\* Larger sets of words and of parts.
LEMMA PartsGrow ==
    ASSUME NEW Talk, NEW Tools, NEW Talk2, NEW Tools2, Talk \subseteq Talk2, Tools \subseteq Tools2
    PROVE  /\ Seq(Talk) \subseteq Seq(Talk2)
           /\ PartsOf(Talk, Tools) \subseteq PartsOf(Talk2, Tools2)
           /\ Seq(PartsOf(Talk, Tools)) \subseteq Seq(PartsOf(Talk2, Tools2))
           /\ MessagesOf(Talk, Tools) \subseteq MessagesOf(Talk2, Tools2)
           /\ Seq(MessagesOf(Talk, Tools)) \subseteq Seq(MessagesOf(Talk2, Tools2))
           /\ BodiesOf(Talk, Tools) \subseteq BodiesOf(Talk2, Tools2)
           /\ \A d : Seq(FineMessages(d, Talk, Tools)) \subseteq Seq(FineMessages(d, Talk2, Tools2))
           /\ \A d : FineBodies(d, Talk, Tools) \subseteq FineBodies(d, Talk2, Tools2)
  <1>1. \A A, B : A \subseteq B => Seq(A) \subseteq Seq(B)
    OBVIOUS
  <1>2. Seq(Talk) \subseteq Seq(Talk2)
    OBVIOUS
  <1>3. PartsOf(Talk, Tools) \subseteq PartsOf(Talk2, Tools2)
    BY <1>2 DEF PartsOf, TalkParts
  <1>4. Seq(PartsOf(Talk, Tools)) \subseteq Seq(PartsOf(Talk2, Tools2))
    BY <1>1, <1>3
  <1>5. MessagesOf(Talk, Tools) \subseteq MessagesOf(Talk2, Tools2)
    BY <1>4 DEF MessagesOf
  <1>6. Seq(MessagesOf(Talk, Tools)) \subseteq Seq(MessagesOf(Talk2, Tools2))
    BY <1>1, <1>5
  <1>7. BodiesOf(Talk, Tools) \subseteq BodiesOf(Talk2, Tools2)
    BY <1>2, <1>6 DEF BodiesOf
  <1>8. \A d : FineMessages(d, Talk, Tools) \subseteq FineMessages(d, Talk2, Tools2)
    BY <1>5 DEF FineMessages
  <1>9. \A d : Seq(FineMessages(d, Talk, Tools)) \subseteq Seq(FineMessages(d, Talk2, Tools2))
    BY <1>1, <1>8
  <1>10. \A d : FineBodies(d, Talk, Tools) \subseteq FineBodies(d, Talk2, Tools2)
    BY <1>2, <1>9 DEF FineBodies
  <1> QED
    BY <1>2, <1>3, <1>4, <1>5, <1>6, <1>7, <1>9, <1>10

\* A body of a dialect is a body.
LEMMA FineTyped ==
    ASSUME NEW d, NEW Talk, NEW Tools, NEW b \in FineBodies(d, Talk, Tools)
    PROVE  /\ b \in BodiesOf(Talk, Tools)
           /\ b.system \in Seq(Talk)
           /\ b.messages \in Seq(MessagesOf(Talk, Tools))
           /\ b.messages \in Seq(FineMessages(d, Talk, Tools))
           /\ \A i \in DOMAIN b.messages : Fine(d, b.messages[i])
           /\ FineSystem(d, b)
  <1>1. /\ b \in [system : Seq(Talk), messages : Seq(FineMessages(d, Talk, Tools))]
        /\ FineSystem(d, b)
    BY DEF FineBodies
  <1>2. FineMessages(d, Talk, Tools) \subseteq MessagesOf(Talk, Tools)
    BY DEF FineMessages
  <1>3. b.messages \in Seq(FineMessages(d, Talk, Tools))
    BY <1>1
  <1>4. b.messages \in Seq(MessagesOf(Talk, Tools))
    BY <1>2, <1>3
  <1>5. b \in BodiesOf(Talk, Tools) /\ b.system \in Seq(Talk)
    BY <1>1, <1>4 DEF BodiesOf
  <1>6. \A i \in DOMAIN b.messages : Fine(d, b.messages[i])
    <2>1. \A m \in FineMessages(d, Talk, Tools) : Fine(d, m)
      BY DEF FineMessages
    <2>2. \A i \in DOMAIN b.messages : b.messages[i] \in FineMessages(d, Talk, Tools)
      BY <1>3
    <2> QED
      BY <2>1, <2>2
  <1> QED
    BY <1>1, <1>3, <1>4, <1>5, <1>6

\* A body and its parts.
LEMMA BodyIs ==
    ASSUME NEW Talk, NEW Tools, NEW b \in BodiesOf(Talk, Tools)
    PROVE  /\ b.system \in Seq(Talk) /\ b.messages \in Seq(MessagesOf(Talk, Tools))
           /\ \A i \in DOMAIN b.messages :
                /\ b.messages[i] \in MessagesOf(Talk, Tools)
                /\ b.messages[i].role \in Roles
                /\ b.messages[i].parts \in Seq(PartsOf(Talk, Tools))
                /\ \A j \in DOMAIN b.messages[i].parts :
                      b.messages[i].parts[j] \in PartsOf(Talk, Tools)
  <1>1. b.system \in Seq(Talk) /\ b.messages \in Seq(MessagesOf(Talk, Tools))
    BY DEF BodiesOf
  <1>2. \A i \in DOMAIN b.messages : b.messages[i] \in MessagesOf(Talk, Tools)
    BY <1>1
  <1>3. \A m \in MessagesOf(Talk, Tools) : m.role \in Roles /\ m.parts \in Seq(PartsOf(Talk, Tools))
    BY DEF MessagesOf
  <1>4. \A m \in MessagesOf(Talk, Tools) : \A j \in DOMAIN m.parts : m.parts[j] \in PartsOf(Talk, Tools)
    BY <1>3
  <1> QED
    BY <1>1, <1>2, <1>3, <1>4

\* A part that is not of a tool.
LEMMA PartIs ==
    ASSUME NEW Talk, NEW Tools, AreTools(Tools), NEW p \in PartsOf(Talk, Tools)
    PROVE  /\ p.kind \in TalkKinds \cup {"call", "result"}
           /\ p.kind \in TalkKinds => p \in TalkParts(Talk) /\ p.text \in Seq(Talk)
           /\ p.kind \notin TalkKinds => p \in Tools
           /\ p.kind \notin {"call", "result"} => p.kind \in TalkKinds
  BY DEF PartsOf, TalkParts, TalkKinds, AreTools

-----------------------------------------------------------------------------
(* The Anthropic dialect.                                                    *)

\* A part that is decoded stays talk, or stays what a tool said.
LEMMA PartFromAnthropicTyped ==
    ASSUME NEW Talk, NEW Tools, AreTools(Tools), NEW p \in PartsOf(Talk, Tools)
    PROVE  /\ PartFromAnthropic(p) \in PartsOf(Talk, Tools)
           /\ p.kind \in TalkKinds => PartFromAnthropic(p).kind \in TalkKinds
           /\ p.kind # "redacted_thinking" => PartFromAnthropic(p).text = p.text
  <1>1. CASE p \in Tools
    <2>1. PartFromAnthropic(p) = p
      BY <1>1 DEF PartFromAnthropic, AreTools
    <2> QED
      BY <2>1
  <1>2. CASE p \in TalkParts(Talk)
    <2>1. p.text \in Seq(Talk) /\ p.sig \in Int /\ p.kind \in TalkKinds
      BY <1>2 DEF TalkParts
    <2>2. Reasoning(p.text, p.sig) \in TalkParts(Talk) /\ Reasoning(p.text, p.sig).text = p.text
          /\ Reasoning(p.text, p.sig).kind = "reasoning"
      BY <2>1, TextTyped
    <2>3. <<>> \in Seq(Talk)
      OBVIOUS
    <2>4. Reasoning(<<>>, p.sig) \in TalkParts(Talk) /\ Reasoning(<<>>, p.sig).kind = "reasoning"
      <3>1. PICK none : none = <<>>
        OBVIOUS
      <3>2. none \in Seq(Talk)
        BY <2>3, <3>1
      <3>3. Reasoning(none, p.sig) \in TalkParts(Talk) /\ Reasoning(none, p.sig).kind = "reasoning"
        BY <2>1, <3>2, TextTyped
      <3> QED
        BY <3>1, <3>3
    <2> QED
      BY <1>2, <2>1, <2>2, <2>4 DEF PartFromAnthropic, PartsOf, TalkKinds
  <1> QED
    BY <1>1, <1>2 DEF PartsOf

\* So does one that is encoded.
LEMMA PartToAnthropicTyped ==
    ASSUME NEW Talk, NEW Tools, AreTools(Tools), NEW p \in PartsOf(Talk, Tools)
    PROVE  /\ PartToAnthropic(p) \in PartsOf(Talk, Tools)
           /\ p.kind \notin TalkKinds => PartToAnthropic(p) = p
           /\ p.kind \in TalkKinds => PartToAnthropic(p) \in TalkParts(Talk)
           /\ p.kind \in {"text", "reasoning"} /\ PartToAnthropic(p).kind = "redacted_thinking" =>
                 PartToAnthropic(p).text = <<>>
  <1>1. CASE p \in Tools
    <2>1. PartToAnthropic(p) = p
      BY <1>1 DEF PartToAnthropic, AreTools
    <2> QED
      BY <1>1, <2>1 DEF AreTools, TalkKinds
  <1>2. CASE p \in TalkParts(Talk)
    <2> DEFINE q == PartToAnthropic(p)
    <2>1. q \in TalkParts(Talk)
      BY <1>2 DEF PartToAnthropic, TalkParts, TalkKinds
    <2>2. p.kind \in {"text", "reasoning"} /\ q.kind = "redacted_thinking" => q.text = <<>>
      BY <1>2 DEF PartToAnthropic, TalkParts
    <2>3. p.kind \in TalkKinds
      BY <1>2 DEF TalkParts
    <2> QED
      BY <2>1, <2>2, <2>3 DEF PartsOf
  <1> QED
    BY <1>1, <1>2 DEF PartsOf

\* Without its system messages, a body is one of the same words.
LEMMA NormalizeTyped ==
    ASSUME NEW Talk, NEW Tools, AreTools(Tools), NEW body \in BodiesOf(Talk, Tools)
    PROVE  /\ NormalizeSystem(body) \in BodiesOf(Talk, Tools)
           /\ NormalizeSystem(body).messages = WithoutRole(body.messages, "system")
           /\ NormalizeSystem(body).system =
                IF body.system # <<>> THEN body.system ELSE TextOfRole(body.messages, "system")
  <1>1. body.system \in Seq(Talk) /\ body.messages \in Seq(MessagesOf(Talk, Tools))
    BY BodyIs
  <1>2. TextOfRole(body.messages, "system") \in Seq(Talk)
    BY <1>1, TextOfRoleTyped
  <1>3. WithoutRole(body.messages, "system") \in Seq(MessagesOf(Talk, Tools))
    BY <1>1, WithoutRoleTyped
  <1> QED
    BY <1>1, <1>2, <1>3, BodyTyped DEF NormalizeSystem

\* Decoding goes part by part.
LEMMA FromAnthropicFits ==
    ASSUME NEW messages
    PROVE  /\ Fits(EachPart(messages, PartFromAnthropic), messages)
           /\ \A i \in DOMAIN messages : \A j \in DOMAIN messages[i].parts :
                EachPart(messages, PartFromAnthropic)[i].parts[j] = PartFromAnthropic(messages[i].parts[j])
  <1> DEFINE out == EachPart(messages, PartFromAnthropic)
  <1>1. Fits(out, messages)
    BY MessageFields DEF EachPart, Fits
  <1>2. \A i \in DOMAIN messages : \A j \in DOMAIN messages[i].parts :
            out[i].parts[j] = PartFromAnthropic(messages[i].parts[j])
    BY MessageFields DEF EachPart
  <1> QED
    BY <1>1, <1>2

\* So does encoding.
LEMMA ToAnthropicFits ==
    ASSUME NEW messages
    PROVE  /\ Fits(EachPart(messages, PartToAnthropic), messages)
           /\ \A i \in DOMAIN messages : \A j \in DOMAIN messages[i].parts :
                EachPart(messages, PartToAnthropic)[i].parts[j] = PartToAnthropic(messages[i].parts[j])
  <1> DEFINE out == EachPart(messages, PartToAnthropic)
  <1>1. Fits(out, messages)
    BY MessageFields DEF EachPart, Fits
  <1>2. \A i \in DOMAIN messages : \A j \in DOMAIN messages[i].parts :
            out[i].parts[j] = PartToAnthropic(messages[i].parts[j])
    BY MessageFields DEF EachPart
  <1> QED
    BY <1>1, <1>2

\* A decoded body has the words and the tools of the body.
LEMMA FromAnthropicTyped ==
    ASSUME NEW Talk, NEW Tools, AreTools(Tools), NEW body \in BodiesOf(Talk, Tools)
    PROVE  FromAnthropic(body) \in BodiesOf(Talk, Tools)
  <1> DEFINE b == NormalizeSystem(body)
  <1> DEFINE out == EachPart(b.messages, PartFromAnthropic)
  <1> DEFINE P == PartsOf(Talk, Tools)
  <1>1. b \in BodiesOf(Talk, Tools)
    BY NormalizeTyped
  <1> HIDE DEF b
  <1>2. /\ b.system \in Seq(Talk) /\ b.messages \in Seq(MessagesOf(Talk, Tools))
        /\ \A i \in DOMAIN b.messages : \A j \in DOMAIN b.messages[i].parts :
              b.messages[i].parts[j] \in P
    BY <1>1, BodyIs
  <1>3. Fits(out, b.messages)
    BY FromAnthropicFits
  <1>4. \A i \in DOMAIN b.messages : \A j \in DOMAIN b.messages[i].parts :
            out[i].parts[j] = PartFromAnthropic(b.messages[i].parts[j])
    BY FromAnthropicFits
  <1>5. \A i \in DOMAIN b.messages : \A j \in DOMAIN b.messages[i].parts : out[i].parts[j] \in P
    BY <1>2, <1>4, PartFromAnthropicTyped
  <1>6. FromAnthropic(body) = Body(b.system, out)
    BY DEF FromAnthropic, b
  <1> HIDE DEF out, P
  <1>7. out \in Seq([role : Roles, parts : Seq(P)])
    BY <1>2, <1>3, <1>5, EachTyped
  <1>8. out \in Seq(MessagesOf(Talk, Tools))
    BY <1>7 DEF P, MessagesOf
  <1> QED
    BY <1>2, <1>6, <1>8, BodyTyped

\* Nothing said is lost when a body of the dialect is decoded.
LEMMA FromAnthropicKeeps ==
    ASSUME NEW Talk, NEW Tools, AreTools(Tools), NEW body \in FineBodies("anthropic", Talk, Tools),
           NEW D, SaidIn(FromAnthropic(body), D)
    PROVE  SaidIn(body, D)
  <1> DEFINE b == NormalizeSystem(body)
  <1> DEFINE out == EachPart(b.messages, PartFromAnthropic)
  <1> DEFINE messages == body.messages
  <1>1. /\ body \in BodiesOf(Talk, Tools) /\ FineSystem("anthropic", body)
        /\ \A i \in DOMAIN messages : Fine("anthropic", messages[i])
        /\ messages \in Seq(MessagesOf(Talk, Tools))
    BY FineTyped
  <1>2. /\ b \in BodiesOf(Talk, Tools)
        /\ b.messages = WithoutRole(messages, "system")
        /\ b.system = IF body.system # <<>> THEN body.system ELSE TextOfRole(messages, "system")
    BY <1>1, NormalizeTyped
  <1>3. b.system \in Seq(Talk) /\ b.messages \in Seq(MessagesOf(Talk, Tools))
    BY <1>2, BodyIs
  <1>4. /\ \A w \in ToSet(b.system) : w \in D
        /\ Within(out, D)
    <2>1. FromAnthropic(body) = Body(b.system, out)
      BY DEF FromAnthropic
    <2> HIDE DEF b, out
    <2> QED
      BY <2>1 DEF SaidIn, Body
  <1>5. Fits(out, b.messages)
    BY FromAnthropicFits
  <1>6. \A k \in DOMAIN b.messages : \A j \in DOMAIN b.messages[k].parts :
            out[k].parts[j] = PartFromAnthropic(b.messages[k].parts[j])
    BY FromAnthropicFits
  <1> HIDE DEF b, out
  <1>7. \A w \in ToSet(body.system) : w \in D
    BY <1>2, <1>4 DEF ToSet
  <1>8. ASSUME NEW i \in DOMAIN messages, NEW j \in DOMAIN messages[i].parts,
               messages[i].parts[j].kind \in TalkKinds,
               NEW w \in ToSet(messages[i].parts[j].text)
        PROVE  w \in D
    <2> DEFINE p == messages[i].parts[j]
    <2>1. p \in PartsOf(Talk, Tools)
      BY <1>1, BodyIs
    <2>2. CASE messages[i].role = "system"
      <3>1. body.system = <<>>
        BY <1>1, <2>2 DEF FineSystem
      <3>2. p.kind = "text"
        BY <1>1, <2>2 DEF Fine
      <3>3. w \in ToSet(TextOfRole(messages, "system"))
        BY <1>1, <1>8, <2>2, <3>2, TextOfRoleTyped
      <3> QED
        BY <1>2, <1>4, <3>1, <3>3
    <2>3. CASE messages[i].role # "system"
      <3>1. messages[i] \in ToSet(b.messages)
        BY <1>1, <1>2, <2>3, WithoutRoleTyped
      <3>2. PICK k \in DOMAIN b.messages : b.messages[k] = messages[i]
        BY <3>1 DEF ToSet
      <3>3. out[k].parts[j] = PartFromAnthropic(p) /\ j \in DOMAIN b.messages[k].parts
        BY <1>6, <3>2
      <3>4. k \in DOMAIN out /\ j \in DOMAIN out[k].parts
        <4>1. DOMAIN out = DOMAIN b.messages
          BY <1>5 DEF Fits
        <4>2. out[k].parts = [l \in DOMAIN b.messages[k].parts |-> out[k].parts[l]]
          BY <1>5 DEF Fits
        <4> DEFINE q == out[k].parts
        <4> DEFINE L == DOMAIN b.messages[k].parts
        <4>3. q = [l \in L |-> q[l]]
          BY <4>2
        <4> HIDE DEF q, L
        <4>4. DOMAIN q = L
          BY <4>3
        <4> QED
          BY <3>3, <4>1, <4>4 DEF q, L
      <3>5. p.kind # "redacted_thinking"
        <4>1. p.kind = "redacted_thinking" => p.text = <<>>
          BY <1>1 DEF Fine
        <4> QED
          BY <1>8, <4>1 DEF ToSet
      <3>6. PartFromAnthropic(p).kind \in TalkKinds /\ PartFromAnthropic(p).text = p.text
        BY <1>8, <2>1, <3>5, PartFromAnthropicTyped
      <3> HIDE DEF p
      <3> QED
        BY <1>4, <1>8, <3>3, <3>4, <3>6 DEF Within, PartsIn, p
    <2> QED
      BY <2>2, <2>3
  <1>9. Within(messages, D)
    BY <1>8 DEF Within, PartsIn
  <1> QED
    BY <1>7, <1>9 DEF SaidIn

\* So has an encoded one.
LEMMA ToAnthropicTyped ==
    ASSUME NEW Talk, NEW Tools, AreTools(Tools), NEW ir \in BodiesOf(Talk, Tools)
    PROVE  ToAnthropic(ir) \in BodiesOf(Talk, Tools)
  <1> DEFINE out == EachPart(ir.messages, PartToAnthropic)
  <1> DEFINE P == PartsOf(Talk, Tools)
  <1>2. /\ ir.system \in Seq(Talk) /\ ir.messages \in Seq(MessagesOf(Talk, Tools))
        /\ \A i \in DOMAIN ir.messages : \A j \in DOMAIN ir.messages[i].parts :
              ir.messages[i].parts[j] \in P
    BY BodyIs
  <1>3. Fits(out, ir.messages)
    BY ToAnthropicFits
  <1>4. \A i \in DOMAIN ir.messages : \A j \in DOMAIN ir.messages[i].parts :
            out[i].parts[j] = PartToAnthropic(ir.messages[i].parts[j])
    BY ToAnthropicFits
  <1>5. \A i \in DOMAIN ir.messages : \A j \in DOMAIN ir.messages[i].parts : out[i].parts[j] \in P
    <2>1. \A p \in P : PartToAnthropic(p) \in P
      BY PartToAnthropicTyped
    <2> HIDE DEF P, out
    <2> QED
      BY <1>2, <1>4, <2>1
  <1>6. ToAnthropic(ir) = Body(ir.system, out)
    BY DEF ToAnthropic
  <1> HIDE DEF out, P
  <1>7. out \in Seq([role : Roles, parts : Seq(P)])
    BY <1>2, <1>3, <1>5, EachTyped
  <1>8. out \in Seq(MessagesOf(Talk, Tools))
    BY <1>7 DEF P, MessagesOf
  <1> QED
    BY <1>2, <1>6, <1>8, BodyTyped

-----------------------------------------------------------------------------
(* Conversions that go from message to message.                              *)

\* What holds at the start and passes from place to place, or the other way.
LEMMA Stays ==
    ASSUME NEW n \in Nat, NEW V, NEW f, f[0] \in V,
           \A i \in 1..n : f[i - 1] \in V => f[i] \in V
    PROVE  \A i \in 0..n : f[i] \in V
  <1> DEFINE R == {k \in Nat : k <= n => f[k] \in V}
  <1>1. 0 \in R
    OBVIOUS
  <1>2. ASSUME NEW k \in R
        PROVE  k + 1 \in R
    <2> SUFFICES ASSUME k + 1 <= n PROVE f[k + 1] \in V
      OBVIOUS
    <2>1. k + 1 \in 1..n /\ (k + 1) - 1 = k /\ f[k] \in V
      OBVIOUS
    <2> QED
      BY <2>1
  <1>3. R = Nat
    <2>1. R \in SUBSET Nat
      OBVIOUS
    <2> HIDE DEF R
    <2> QED
      BY <1>1, <1>2, <2>1, Induction
  <1>4. \A i \in 0..n : i \in R /\ i <= n
    <2> HIDE DEF R
    <2> QED
      BY <1>3
  <1> QED
    BY <1>4

\* The other way: what holds at the end has held at the start.
LEMMA StaysDown ==
    ASSUME NEW n \in Nat, NEW V, NEW f, f[n] \in V,
           \A i \in 1..n : f[i] \in V => f[i - 1] \in V
    PROVE  \A i \in 0..n : f[i] \in V
  <1> DEFINE g == [i \in 0..n |-> f[n - i]]
  <1>1. g[0] \in V
    OBVIOUS
  <1>2. ASSUME NEW i \in 1..n, g[i - 1] \in V
        PROVE  g[i] \in V
    <2>1. n - (i - 1) \in 1..n /\ (n - (i - 1)) - 1 = n - i /\ i - 1 \in 0..n /\ i \in 0..n
      OBVIOUS
    <2>2. g[i - 1] = f[n - (i - 1)] /\ g[i] = f[n - i]
      BY <2>1
    <2> HIDE DEF g
    <2>3. f[(n - (i - 1)) - 1] \in V
      BY <1>2, <2>1, <2>2
    <2> QED
      BY <2>1, <2>2, <2>3
  <1>3. \A i \in 0..n : g[i] \in V
    <2> HIDE DEF g
    <2> QED
      BY <1>1, <1>2, Stays
  <1>4. ASSUME NEW i \in 0..n
        PROVE  f[i] \in V
    <2>1. n - i \in 0..n /\ n - (n - i) = i
      OBVIOUS
    <2>2. g[n - i] = f[n - (n - i)]
      BY <2>1
    <2> HIDE DEF g
    <2> QED
      BY <1>3, <2>1, <2>2
  <1> QED
    BY <1>4

\* Two sequences, one after the other.
LEMMA ConcatIs ==
    ASSUME NEW S, NEW a \in Seq(S), NEW b \in Seq(S)
    PROVE  /\ a \o b \in Seq(S) /\ Len(a \o b) = Len(a) + Len(b)
           /\ DOMAIN (a \o b) = 1..(Len(a) + Len(b))
           /\ DOMAIN a = 1..Len(a) /\ DOMAIN b = 1..Len(b) /\ Len(a) \in Nat /\ Len(b) \in Nat
           /\ \A i \in 1..Len(a) : (a \o b)[i] = a[i]
           /\ \A i \in 1..Len(b) : (a \o b)[Len(a) + i] = b[i]
  BY ConcatProperties

\* The last element.
LEMMA LastIs ==
    ASSUME NEW S, NEW s \in Seq(S), s # <<>>
    PROVE  Last(s) = s[Len(s)] /\ Last(s) \in S /\ Len(s) \in DOMAIN s
  BY DEF Last

\* Another last element.
LEMMA LastReplaced ==
    ASSUME NEW S, NEW s \in Seq(S), s # <<>>, NEW x \in S
    PROVE  /\ Front(s) \o <<x>> \in Seq(S)
           /\ Len(Front(s) \o <<x>>) = Len(s) /\ Len(s) \in 1..Len(s)
           /\ \A i \in 1..(Len(s) - 1) : (Front(s) \o <<x>>)[i] = s[i]
           /\ (Front(s) \o <<x>>)[Len(s)] = x
           /\ Last(s) = s[Len(s)] /\ Last(s) \in S
  <1>1. Len(s) \in Nat /\ Len(s) > 0 /\ Len(s) \in 1..Len(s) /\ DOMAIN s = 1..Len(s)
    OBVIOUS
  <1>2. Front(s) = SubSeq(s, 1, Len(s) - 1)
    BY DEF Front
  <1>3. /\ Front(s) \in Seq(S) /\ Len(Front(s)) = Len(s) - 1
        /\ \A i \in 1..(Len(s) - 1) : Front(s)[i] = s[i]
    BY <1>1, <1>2, SubSeqProperties
  <1>4. Last(s) = s[Len(s)] /\ Last(s) \in S
    BY <1>1 DEF Last
  <1> DEFINE f == Front(s)
  <1> HIDE DEF f
  <1>5. f \in Seq(S) /\ Len(f) = Len(s) - 1 /\ \A i \in 1..(Len(s) - 1) : f[i] = s[i]
    BY <1>3 DEF f
  <1>6. /\ f \o <<x>> \in Seq(S) /\ Len(f \o <<x>>) = Len(s)
        /\ \A i \in 1..(Len(s) - 1) : (f \o <<x>>)[i] = s[i]
        /\ (f \o <<x>>)[Len(s)] = x
    <2> DEFINE e == <<x>>
    <2>1. e \in Seq(S) /\ Len(e) = 1 /\ e[1] = x
      OBVIOUS
    <2> HIDE DEF e
    <2>0. f \in Seq(S) /\ e \in Seq(S)
      BY <1>5, <2>1
    <2>2. /\ f \o e \in Seq(S) /\ Len(f \o e) = Len(f) + Len(e)
          /\ \A i \in 1..Len(f) : (f \o e)[i] = f[i]
          /\ \A i \in 1..Len(e) : (f \o e)[Len(f) + i] = e[i]
      BY <2>0, ConcatIs
    <2>3. Len(f) + 1 = Len(s) /\ 1 \in 1..Len(e)
      BY <1>1, <1>5, <2>1
    <2>4. (f \o e)[Len(s)] = x
      BY <2>1, <2>2, <2>3
    <2>5. Len(f \o e) = Len(s)
      BY <2>1, <2>2, <2>3
    <2> QED
      BY <1>5, <2>2, <2>4, <2>5 DEF e
  <1> QED
    BY <1>1, <1>4, <1>6 DEF f

\* What is said in parts put together.
LEMMA PartsInJoined ==
    ASSUME NEW P, NEW a \in Seq(P), NEW b \in Seq(P), NEW D
    PROVE  PartsIn(a \o b, D) <=> PartsIn(a, D) /\ PartsIn(b, D)
  <1>1. /\ a \o b \in Seq(P) /\ DOMAIN (a \o b) = 1..(Len(a) + Len(b))
        /\ DOMAIN a = 1..Len(a) /\ DOMAIN b = 1..Len(b) /\ Len(a) \in Nat /\ Len(b) \in Nat
        /\ \A i \in 1..Len(a) : (a \o b)[i] = a[i]
        /\ \A i \in 1..Len(b) : (a \o b)[Len(a) + i] = b[i]
    BY ConcatIs
  <1> DEFINE c == a \o b
  <1> HIDE DEF c
  <1>2. /\ DOMAIN c = 1..(Len(a) + Len(b))
        /\ \A i \in 1..Len(a) : c[i] = a[i]
        /\ \A i \in 1..Len(b) : c[Len(a) + i] = b[i]
    BY <1>1 DEF c
  <1>3. ASSUME PartsIn(c, D) PROVE PartsIn(a, D)
    BY <1>1, <1>2, <1>3 DEF PartsIn
  <1>4. ASSUME PartsIn(c, D) PROVE PartsIn(b, D)
    <2> SUFFICES ASSUME NEW j \in DOMAIN b, b[j].kind \in TalkKinds, NEW w \in ToSet(b[j].text)
                 PROVE  w \in D
      BY DEF PartsIn
    <2>1. Len(a) + j \in DOMAIN c /\ c[Len(a) + j] = b[j]
      BY <1>1, <1>2
    <2> QED
      BY <1>4, <2>1 DEF PartsIn
  <1>5. ASSUME PartsIn(a, D), PartsIn(b, D) PROVE PartsIn(c, D)
    <2> SUFFICES ASSUME NEW j \in DOMAIN c, c[j].kind \in TalkKinds, NEW w \in ToSet(c[j].text)
                 PROVE  w \in D
      BY DEF PartsIn
    <2>1. CASE j <= Len(a)
      BY <1>1, <1>2, <1>5, <2>1 DEF PartsIn
    <2>2. CASE j > Len(a)
      <3>1. j - Len(a) \in DOMAIN b /\ Len(a) + (j - Len(a)) = j
        BY <1>1, <1>2, <2>2
      <3>2. c[j] = b[j - Len(a)]
        BY <1>1, <1>2, <3>1
      <3> QED
        BY <1>5, <3>1, <3>2 DEF PartsIn
    <2>3. j <= Len(a) \/ j > Len(a)
      BY <1>1, <1>2
    <2> QED
      BY <2>1, <2>2, <2>3
  <1> QED
    BY <1>3, <1>4, <1>5 DEF c

\* What is said in a text.
LEMMA PartsInText ==
    ASSUME NEW Talk, NEW text \in Seq(Talk), NEW D
    PROVE  /\ PartsIn(<<Text(text)>>, D) <=> \A w \in ToSet(text) : w \in D
           /\ PartsIn(TextIfAny(text), D) <=> \A w \in ToSet(text) : w \in D
  <1>1. Text(text).kind = "text" /\ Text(text).text = text
    BY TextTyped
  <1> DEFINE p == Text(text)
  <1> HIDE DEF p
  <1>2. PartsIn(<<p>>, D) <=> \A w \in ToSet(p.text) : w \in D
    <2>1. DOMAIN <<p>> = {1} /\ <<p>>[1] = p /\ p.kind \in TalkKinds
      BY <1>1 DEF p, TalkKinds
    <2> DEFINE s == <<p>>
    <2> HIDE DEF s
    <2>2. DOMAIN s = {1} /\ s[1] = p
      BY <2>1 DEF s
    <2>3. PartsIn(s, D) <=> \A w \in ToSet(p.text) : w \in D
      BY <2>1, <2>2 DEF PartsIn
    <2> QED
      BY <2>3 DEF s
  <1>3. PartsIn(<<p>>, D) <=> \A w \in ToSet(text) : w \in D
    BY <1>1, <1>2 DEF p
  <1>4. CASE text = <<>>
    <2>1. TextIfAny(text) = <<>> /\ ToSet(text) = {}
      BY <1>4 DEF TextIfAny, ToSet
    <2>2. PartsIn(<<>>, D)
      BY DEF PartsIn
    <2> QED
      BY <1>3, <2>1, <2>2 DEF p
  <1>5. CASE text # <<>>
    BY <1>3, <1>5 DEF TextIfAny, p
  <1> QED
    BY <1>3, <1>4, <1>5 DEF p

\* What is said in one message more, or with another last message.
LEMMA WithinAppended ==
    ASSUME NEW Talk, NEW Tools, NEW ms \in Seq(MessagesOf(Talk, Tools)),
           NEW m \in MessagesOf(Talk, Tools), NEW D
    PROVE  /\ Within(Append(ms, m), D) <=> Within(ms, D) /\ PartsIn(m.parts, D)
           /\ ms # <<>> /\ Within(Front(ms) \o <<m>>, D) =>
                PartsIn(m.parts, D)
                /\ \A i \in DOMAIN ms : i # Len(ms) => PartsIn(ms[i].parts, D)
  <1>1. DOMAIN ms = 1..Len(ms) /\ Len(ms) \in Nat
    OBVIOUS
  <1>2. Within(Append(ms, m), D) <=> Within(ms, D) /\ PartsIn(m.parts, D)
    <2> DEFINE c == Append(ms, m)
    <2>1. /\ DOMAIN c = 1..(Len(ms) + 1) /\ c[Len(ms) + 1] = m
          /\ \A i \in 1..Len(ms) : c[i] = ms[i]
      BY <1>1
    <2> HIDE DEF c
    <2>2. Within(c, D) <=> \A i \in 1..(Len(ms) + 1) : PartsIn(c[i].parts, D)
      BY <2>1 DEF Within
    <2>3. Within(ms, D) <=> \A i \in 1..Len(ms) : PartsIn(ms[i].parts, D)
      BY <1>1 DEF Within
    <2>4. \A i \in 1..(Len(ms) + 1) : i \in 1..Len(ms) \/ i = Len(ms) + 1
      BY <1>1
    <2>5. \A i \in 1..Len(ms) : i \in 1..(Len(ms) + 1)
      BY <1>1
    <2>6. Len(ms) + 1 \in 1..(Len(ms) + 1)
      BY <1>1
    <2>7. Within(c, D) <=> Within(ms, D) /\ PartsIn(m.parts, D)
      BY <2>1, <2>2, <2>3, <2>4, <2>5, <2>6
    <2> QED
      BY <2>7 DEF c
  <1>3. ASSUME ms # <<>>, Within(Front(ms) \o <<m>>, D)
        PROVE  PartsIn(m.parts, D) /\ \A i \in DOMAIN ms : i # Len(ms) => PartsIn(ms[i].parts, D)
    <2> DEFINE c == Front(ms) \o <<m>>
    <2>1. /\ c \in Seq(MessagesOf(Talk, Tools)) /\ Len(c) = Len(ms) /\ Len(ms) \in 1..Len(ms)
          /\ \A i \in 1..(Len(ms) - 1) : c[i] = ms[i]
          /\ c[Len(ms)] = m
      BY <1>3, LastReplaced
    <2>2. Within(c, D)
      BY <1>3
    <2> HIDE DEF c
    <2>3. DOMAIN c = 1..Len(ms)
      BY <2>1
    <2>4. PartsIn(m.parts, D)
      BY <2>1, <2>2, <2>3 DEF Within
    <2>5. \A i \in DOMAIN ms : i # Len(ms) => i \in 1..(Len(ms) - 1)
      BY <1>1
    <2> QED
      BY <1>1, <2>1, <2>2, <2>3, <2>4, <2>5 DEF Within
  <1> QED
    BY <1>2, <1>3

-----------------------------------------------------------------------------
(* The OpenAI dialect.                                                       *)

\* The part of FromOpenAI that goes from message to message.
OpenAIMessages(others) ==
    LET messages[i \in 0..Len(others)] ==
            IF i = 0 THEN <<>> ELSE AppendOpenAI(messages[i - 1], others[i])
    IN  messages[Len(others)]

\* That part, turn by turn.
LEMMA OpenAITable ==
    ASSUME NEW M, NEW others \in Seq(M), NEW V, <<>> \in V,
           \A v \in V, m \in M : AppendOpenAI(v, m) \in V
    PROVE  \E f : /\ \A i \in 0..Len(others) : f[i] \in V
                  /\ f[0] = <<>>
                  /\ \A i \in 1..Len(others) : f[i] = AppendOpenAI(f[i - 1], others[i])
                  /\ OpenAIMessages(others) = f[Len(others)]
  <1> DEFINE n == Len(others)
  <1> DEFINE step == [i \in 1..n |-> [v \in V |-> AppendOpenAI(v, others[i])]]
  <1> DEFINE Rec(f) == f = [i \in 0..n |-> IF i = 0 THEN <<>> ELSE AppendOpenAI(f[i - 1], others[i])]
  <1>1. n \in Nat /\ \A i \in 1..n : others[i] \in M
    OBVIOUS
  <1>2. step \in [1..n -> [V -> V]]
    BY <1>1
  <1>3. PICK h : /\ h \in [0..n -> V] /\ h[0] = <<>>
                 /\ \A i \in 1..n : h[i] = step[i][h[i - 1]]
    <2> DEFINE base == <<>>
    <2>1. base \in V
      OBVIOUS
    <2> HIDE DEF step, base, n
    <2>2. \E h : Recurs(n, V, base, step, h)
      BY <1>1, <1>2, <2>1, Recursion
    <2> QED
      BY <2>2 DEF base, Recurs
  <1>4. \A i \in 1..n : i - 1 \in 0..n /\ h[i - 1] \in V
    BY <1>1, <1>3
  <1>5. \A i \in 1..n : h[i] = AppendOpenAI(h[i - 1], others[i])
    <2> SUFFICES ASSUME NEW i \in 1..n PROVE h[i] = AppendOpenAI(h[i - 1], others[i])
      OBVIOUS
    <2>1. step[i][h[i - 1]] = AppendOpenAI(h[i - 1], others[i])
      BY <1>4
    <2> HIDE DEF step
    <2> QED
      BY <1>3, <2>1
  <1>6. Rec(h)
    <2>1. \A i \in 0..n : i # 0 => i \in 1..n
      BY <1>1
    <2>2. h = [i \in 0..n |-> h[i]]
      BY <1>3
    <2>3. \A i \in 0..n : h[i] = IF i = 0 THEN <<>> ELSE AppendOpenAI(h[i - 1], others[i])
      BY <1>3, <1>5, <2>1
    <2> HIDE DEF step, n
    <2> QED
      BY <2>2, <2>3
  <1> DEFINE f == CHOOSE f : Rec(f)
  <1>7. OpenAIMessages(others) = f[n]
    BY Zenon DEF OpenAIMessages
  <1>8. Rec(f)
    <2> HIDE DEF Rec
    <2> QED
      BY <1>6
  <1> HIDE DEF f, step
  <1>9. f[0] = <<>> /\ \A i \in 1..n : f[i] = AppendOpenAI(f[i - 1], others[i])
    <2>1. 0 \in 0..n /\ \A i \in 1..n : i \in 0..n /\ i # 0
      BY <1>1
    <2> HIDE DEF n
    <2> QED
      BY <1>8, <2>1
  <1>10. \A i \in 0..n : f[i] \in V
    <2>1. \A i \in 1..n : f[i - 1] \in V => f[i] \in V
      BY <1>1, <1>9
    <2> HIDE DEF n, Rec
    <2> QED
      BY <1>1, <1>9, <2>1, Stays
  <1> QED
    BY <1>7, <1>9, <1>10

\* A decoded body is the system text and what that part makes of the rest.
LEMMA FromOpenAIIs ==
    ASSUME NEW body
    PROVE  FromOpenAI(body) = Body(TextOfRole(body.messages, "system"),
                                   OpenAIMessages(WithoutRole(body.messages, "system")))
  BY Zenon DEF FromOpenAI, OpenAIMessages

\* The text and the calls of an assistant are parts of its message.
LEMMA AssistantIs ==
    ASSUME NEW Talk, NEW Tools, AreTools(Tools), NEW parts \in Seq(PartsOf(Talk, Tools))
    PROVE  /\ OfKind(parts, "call") \in Seq(PartsOf(Talk, Tools))
           /\ OfKind(parts, "result") \in Seq(PartsOf(Talk, Tools))
           /\ OfKind(parts, "call") \in Seq({p \in Tools : p.kind = "call"})
           /\ OfKind(parts, "result") \in Seq({p \in Tools : p.kind = "result"})
           /\ <<Text(Joined(parts))>> \in Seq(PartsOf(Talk, Tools))
           /\ TextIfAny(Joined(parts)) \in Seq(PartsOf(Talk, Tools))
           /\ TextIfAny(Joined(parts)) \o OfKind(parts, "call") \in Seq(PartsOf(Talk, Tools))
  <1>1. "call" \notin TalkKinds /\ "result" \notin TalkKinds
    BY DEF TalkKinds
  <1>2. TalkParts(Talk) \subseteq PartsOf(Talk, Tools) /\ Tools \subseteq PartsOf(Talk, Tools)
    BY DEF PartsOf
  <1>3. OfKind(parts, "call") \in Seq(Tools) /\ OfKind(parts, "result") \in Seq(Tools)
    BY <1>1, OfKindTyped
  <1>4. OfKind(parts, "call") \in Seq(PartsOf(Talk, Tools)) /\ OfKind(parts, "result") \in Seq(PartsOf(Talk, Tools))
    BY <1>2, <1>3
  <1>5. \A k \in {"call", "result"} : OfKind(parts, k) \in Seq({p \in Tools : p.kind = k})
    <2> SUFFICES ASSUME NEW k \in {"call", "result"} PROVE OfKind(parts, k) \in Seq({p \in Tools : p.kind = k})
      OBVIOUS
    <2>1. OfKind(parts, k) \in Seq({p \in PartsOf(Talk, Tools) : p.kind = k})
      BY OfKindTyped
    <2>2. {p \in PartsOf(Talk, Tools) : p.kind = k} \subseteq {p \in Tools : p.kind = k}
      BY <1>1 DEF PartsOf, TalkParts
    <2> DEFINE A == {p \in PartsOf(Talk, Tools) : p.kind = k}
    <2> DEFINE B == {p \in Tools : p.kind = k}
    <2> HIDE DEF A, B
    <2>3. A \subseteq B /\ OfKind(parts, k) \in Seq(A)
      BY <2>1, <2>2 DEF A, B
    <2>4. OfKind(parts, k) \in Seq(B)
      BY <2>3
    <2> QED
      BY <2>4 DEF B
  <1>6. Joined(parts) \in Seq(Talk)
    BY JoinedTyped
  <1>7. Text(Joined(parts)) \in PartsOf(Talk, Tools)
    BY <1>2, <1>6, TextTyped
  <1>8. TextIfAny(Joined(parts)) \in Seq(TalkParts(Talk))
    BY <1>6, TextIfAnyTyped
  <1>9. TextIfAny(Joined(parts)) \in Seq(PartsOf(Talk, Tools))
    BY <1>2, <1>8
  <1>10. <<Text(Joined(parts))>> \in Seq(PartsOf(Talk, Tools))
    BY <1>7
  <1>11. TextIfAny(Joined(parts)) \o OfKind(parts, "call") \in Seq(PartsOf(Talk, Tools))
    BY <1>4, <1>9, ConcatIs
  <1> QED
    BY <1>4, <1>5, <1>9, <1>10, <1>11

\* A step, role by role.
LEMMA AppendOpenAIIs ==
    ASSUME NEW ms, NEW m
    PROVE  /\ m.role = "tool" =>
                AppendOpenAI(ms, m) =
                    IF ms # <<>> /\ HoldsResults(Last(ms))
                    THEN Front(ms) \o <<Message("user", Last(ms).parts \o m.parts)>>
                    ELSE Append(ms, Message("user", m.parts))
           /\ m.role = "user" =>
                AppendOpenAI(ms, m) =
                    Append(ms, IF m.parts = <<>> THEN Message("user", <<Text(<<>>)>>) ELSE m)
           /\ m.role = "assistant" =>
                AppendOpenAI(ms, m) =
                    Append(ms, Message("assistant",
                        IF OfKind(m.parts, "call") = <<>> THEN <<Text(Joined(m.parts))>>
                        ELSE TextIfAny(Joined(m.parts)) \o OfKind(m.parts, "call")))
           /\ m.role \notin {"tool", "user", "assistant"} => AppendOpenAI(ms, m) = ms
  <1>1. CASE m.role = "tool"
    BY <1>1, Zenon DEF AppendOpenAI
  <1>2. CASE m.role = "user"
    BY <1>2, Zenon DEF AppendOpenAI
  <1>3. CASE m.role = "assistant"
    BY <1>3, Zenon DEF AppendOpenAI
  <1>4. CASE m.role \notin {"tool", "user", "assistant"}
    BY <1>4, Zenon DEF AppendOpenAI
  <1> QED
    BY <1>1, <1>2, <1>3, <1>4

\* A set of parts that conversions do not leave.
Open(P, Talk, Tools) ==
    /\ P \subseteq PartsOf(Talk, Tools)
    /\ \A text \in Seq(Talk) : Text(text) \in P /\ Reasoning(text, NoSignature) \in P

\* All parts are such a set, and so are those of a conversation in the neutral form.
LEMMA PartsOpen ==
    ASSUME NEW Talk, NEW Tools, AreTools(Tools)
    PROVE  /\ Open(PartsOf(Talk, Tools), Talk, Tools)
           /\ Open({p \in PartsOf(Talk, Tools) : p.kind \in {"text", "reasoning", "call", "result"}},
                   Talk, Tools)
  <1>1. NoSignature \in Int
    BY DEF NoSignature
  <1>2. \A text \in Seq(Talk) :
            /\ Text(text) \in PartsOf(Talk, Tools) /\ Text(text).kind = "text"
            /\ Reasoning(text, NoSignature) \in PartsOf(Talk, Tools)
            /\ Reasoning(text, NoSignature).kind = "reasoning"
    BY <1>1, TextTyped DEF PartsOf
  <1> HIDE DEF PartsOf
  <1> QED
    BY <1>2 DEF Open

\* What an assistant's message is made of.
LEMMA AssistantIn ==
    ASSUME NEW Talk, NEW Tools, AreTools(Tools), NEW P, Open(P, Talk, Tools), NEW parts \in Seq(P)
    PROVE  /\ <<Text(Joined(parts))>> \in Seq(P)
           /\ TextIfAny(Joined(parts)) \o OfKind(parts, "call") \in Seq(P)
  <1>1. parts \in Seq(PartsOf(Talk, Tools))
    <2> DEFINE Q == PartsOf(Talk, Tools)
    <2>1. P \subseteq Q
      BY DEF Open
    <2> HIDE DEF Q
    <2>2. parts \in Seq(Q)
      BY <2>1
    <2> QED
      BY <2>2 DEF Q
  <1>2. Joined(parts) \in Seq(Talk)
    BY <1>1, JoinedTyped
  <1>3. Text(Joined(parts)) \in P
    BY <1>2 DEF Open
  <1>4. <<Text(Joined(parts))>> \in Seq(P)
    BY <1>3
  <1>5. TextIfAny(Joined(parts)) \in Seq(P)
    BY <1>4 DEF TextIfAny
  <1>6. OfKind(parts, "call") \in Seq(P)
    <2> DEFINE places == {i \in DOMAIN parts : parts[i].kind = "call"}
    <2>1. \A i \in DOMAIN parts : i \in places => parts[i] \in P
      OBVIOUS
    <2>2. OfKind(parts, "call") = At(parts, places)
      BY DEF OfKind
    <2> HIDE DEF places
    <2> QED
      BY <2>1, <2>2, AtTyped
  <1>7. TextIfAny(Joined(parts)) \o OfKind(parts, "call") \in Seq(P)
    <2>1. TextIfAny(Joined(parts)) \in Seq(P) /\ OfKind(parts, "call") \in Seq(P)
      BY <1>5, <1>6
    <2> QED
      BY <2>1, ConcatIs
  <1> QED
    BY <1>4, <1>7

\* A step brings no parts but those.
LEMMA AppendOpenAIIn ==
    ASSUME NEW Talk, NEW Tools, AreTools(Tools), NEW P, Open(P, Talk, Tools),
           NEW ms \in Seq([role : Roles, parts : Seq(P)]), NEW m \in [role : Roles, parts : Seq(P)]
    PROVE  AppendOpenAI(ms, m) \in Seq([role : Roles, parts : Seq(P)])
  <1> DEFINE M == [role : Roles, parts : Seq(P)]
  <1>0. ms \in Seq(M) /\ m \in M
    OBVIOUS
  <1>1. m.parts \in Seq(P)
    OBVIOUS
  <1>2. \A parts \in Seq(P) : Message("user", parts) \in M /\ Message("assistant", parts) \in M
    <2>1. "user" \in Roles /\ "assistant" \in Roles
      BY DEF Roles
    <2> QED
      BY <2>1, MessageIn
  <1>m. \A x \in M : x.parts \in Seq(P)
    OBVIOUS
  <1>p. \A parts \in Seq(P) : /\ <<Text(Joined(parts))>> \in Seq(P)
                              /\ TextIfAny(Joined(parts)) \o OfKind(parts, "call") \in Seq(P)
    BY AssistantIn
  <1>t. <<Text(<<>>)>> \in Seq(P)
    <2>1. <<>> \in Seq(Talk)
      OBVIOUS
    <2>2. Text(<<>>) \in P
      BY <2>1 DEF Open
    <2> QED
      BY <2>2
  <1> SUFFICES AppendOpenAI(ms, m) \in Seq(M)
    OBVIOUS
  <1> HIDE DEF M
  <1>3. \A x \in M : Append(ms, x) \in Seq(M)
    BY <1>0
  <1>4. CASE m.role = "tool"
    <2>1. CASE ms # <<>> /\ HoldsResults(Last(ms))
      <3> DEFINE both == Last(ms).parts \o m.parts
      <3>1. Last(ms) \in M
        BY <1>0, <2>1, LastReplaced
      <3>2. both \in Seq(P)
        <4>1. Last(ms).parts \in Seq(P)
          BY <1>m, <3>1
        <4> QED
          BY <1>1, <4>1, ConcatIs
      <3>3. Message("user", both) \in M
        BY <1>2, <3>2
      <3>4. AppendOpenAI(ms, m) = Front(ms) \o <<Message("user", both)>>
        BY <1>4, <2>1, AppendOpenAIIs
      <3> HIDE DEF both
      <3>5. Front(ms) \o <<Message("user", both)>> \in Seq(M)
        BY <1>0, <2>1, <3>3, LastReplaced
      <3> QED
        BY <3>4, <3>5 DEF both
    <2>2. CASE ~(ms # <<>> /\ HoldsResults(Last(ms)))
      <3>1. Message("user", m.parts) \in M
        BY <1>1, <1>2
      <3>2. AppendOpenAI(ms, m) = Append(ms, Message("user", m.parts))
        BY <1>4, <2>2, AppendOpenAIIs
      <3> QED
        BY <1>3, <3>1, <3>2
    <2> QED
      BY <2>1, <2>2
  <1>5. CASE m.role = "user"
    <2>1. Message("user", <<Text(<<>>)>>) \in M
      BY <1>2, <1>t
    <2>2. AppendOpenAI(ms, m) = Append(ms, IF m.parts = <<>> THEN Message("user", <<Text(<<>>)>>) ELSE m)
      BY <1>5, AppendOpenAIIs
    <2> QED
      BY <1>0, <1>3, <2>1, <2>2
  <1>6. CASE m.role = "assistant"
    <2> DEFINE parts == IF OfKind(m.parts, "call") = <<>> THEN <<Text(Joined(m.parts))>>
                        ELSE TextIfAny(Joined(m.parts)) \o OfKind(m.parts, "call")
    <2>1. parts \in Seq(P)
      BY <1>1, <1>p
    <2>2. AppendOpenAI(ms, m) = Append(ms, Message("assistant", parts))
      BY <1>6, AppendOpenAIIs
    <2> HIDE DEF parts
    <2>3. Message("assistant", parts) \in M
      BY <1>2, <2>1
    <2> QED
      BY <1>3, <2>2, <2>3
  <1>7. CASE m.role \notin {"tool", "user", "assistant"}
    BY <1>0, <1>7, AppendOpenAIIs
  <1> QED
    BY <1>4, <1>5, <1>6, <1>7

\* So a step keeps the words and the tools.
LEMMA AppendOpenAITyped ==
    ASSUME NEW Talk, NEW Tools, AreTools(Tools), NEW ms \in Seq(MessagesOf(Talk, Tools)),
           NEW m \in MessagesOf(Talk, Tools)
    PROVE  AppendOpenAI(ms, m) \in Seq(MessagesOf(Talk, Tools))
  <1>1. Open(PartsOf(Talk, Tools), Talk, Tools)
    BY PartsOpen
  <1> QED
    BY <1>1, AppendOpenAIIn DEF MessagesOf

\* The messages of a decoded body are made of the parts the body is made of.
LEMMA OpenAIMessagesIn ==
    ASSUME NEW Talk, NEW Tools, AreTools(Tools), NEW P, Open(P, Talk, Tools),
           NEW body, body.messages \in Seq([role : Roles, parts : Seq(P)])
    PROVE  FromOpenAI(body).messages \in Seq([role : Roles, parts : Seq(P)])
  <1> DEFINE M == [role : Roles, parts : Seq(P)]
  <1> DEFINE others == WithoutRole(body.messages, "system")
  <1> DEFINE V == Seq(M)
  <1>1. body.messages \in Seq(M)
    OBVIOUS
  <1>2. others \in Seq(M)
    BY <1>1, WithoutRoleTyped
  <1>3. \A v \in V, m \in M : AppendOpenAI(v, m) \in V
    BY AppendOpenAIIn
  <1>4. <<>> \in V
    OBVIOUS
  <1>5. OpenAIMessages(others) \in V
    <2> HIDE DEF V, M, others
    <2>1. PICK f : /\ \A i \in 0..Len(others) : f[i] \in V
                   /\ OpenAIMessages(others) = f[Len(others)]
      BY <1>2, <1>3, <1>4, OpenAITable
    <2>2. Len(others) \in 0..Len(others)
      BY <1>2
    <2> QED
      BY <2>1, <2>2
  <1>6. FromOpenAI(body).messages = OpenAIMessages(others)
    BY FromOpenAIIs DEF Body
  <1> QED
    BY <1>5, <1>6

\* And so does decoding.
LEMMA FromOpenAITyped ==
    ASSUME NEW Talk, NEW Tools, AreTools(Tools), NEW body \in BodiesOf(Talk, Tools)
    PROVE  FromOpenAI(body) \in BodiesOf(Talk, Tools)
  <1>1. body.messages \in Seq(MessagesOf(Talk, Tools))
    BY BodyIs
  <1>2. FromOpenAI(body).messages \in Seq(MessagesOf(Talk, Tools))
    BY <1>1, PartsOpen, OpenAIMessagesIn DEF MessagesOf
  <1>3. TextOfRole(body.messages, "system") \in Seq(Talk)
    BY <1>1, TextOfRoleTyped
  <1>4. FromOpenAI(body) = Body(TextOfRole(body.messages, "system"), FromOpenAI(body).messages)
    BY FromOpenAIIs DEF Body
  <1> QED
    BY <1>2, <1>3, <1>4, BodyTyped

\* The shape of each dialect, one by one.
LEMMA FineIs ==
    ASSUME NEW m
    PROVE  /\ Fine("openai", m) <=>
                /\ m.role \in {"system", "user", "assistant", "tool"}
                /\ \A j \in DOMAIN m.parts :
                    /\ m.role = "system" => m.parts[j].kind = "text"
                    /\ m.role = "assistant" => m.parts[j].kind \in {"text", "call"}
           /\ Fine("anthropic", m) <=>
                \A j \in DOMAIN m.parts :
                    /\ m.role = "system" => m.parts[j].kind = "text"
                    /\ m.parts[j].kind = "redacted_thinking" => m.parts[j].text = <<>>
           /\ Fine("responses", m) <=>
                /\ m.role \in {"function_call", "function_call_output"} => m.parts # <<>>
                /\ \A j \in DOMAIN m.parts : m.role = "reasoning" => m.parts[j].kind = "text"
  <1> USE DEF Fine
  <1>1. Fine("openai", m) <=>
            /\ m.role \in {"system", "user", "assistant", "tool"}
            /\ \A j \in DOMAIN m.parts :
                /\ m.role = "system" => m.parts[j].kind = "text"
                /\ m.role = "assistant" => m.parts[j].kind \in {"text", "call"}
    BY Zenon
  <1>2. Fine("anthropic", m) <=>
            \A j \in DOMAIN m.parts :
                /\ m.role = "system" => m.parts[j].kind = "text"
                /\ m.parts[j].kind = "redacted_thinking" => m.parts[j].text = <<>>
    BY Zenon
  <1>3. Fine("responses", m) <=>
            /\ m.role \in {"function_call", "function_call_output"} => m.parts # <<>>
            /\ \A j \in DOMAIN m.parts : m.role = "reasoning" => m.parts[j].kind = "text"
    BY Zenon
  <1> QED
    BY <1>1, <1>2, <1>3

\* A step loses nothing that was said.
LEMMA AppendOpenAIKeeps ==
    ASSUME NEW Talk, NEW Tools, AreTools(Tools), NEW ms \in Seq(MessagesOf(Talk, Tools)),
           NEW m \in MessagesOf(Talk, Tools), Fine("openai", m), m.role # "system",
           NEW D, Within(AppendOpenAI(ms, m), D)
    PROVE  Within(ms, D) /\ PartsIn(m.parts, D)
  <1> DEFINE M == MessagesOf(Talk, Tools)
  <1> DEFINE P == PartsOf(Talk, Tools)
  <1>0. ms \in Seq(M) /\ m \in M /\ m.role \in {"user", "assistant", "tool"}
    BY FineIs
  <1>1. m.parts \in Seq(P)
    BY MessageIs
  <1>2. \A parts \in Seq(P) : Message("user", parts) \in M /\ Message("assistant", parts) \in M
    <2>1. "user" \in Roles /\ "assistant" \in Roles
      BY DEF Roles
    <2> QED
      BY <2>1, MessageTyped
  <1>m. \A x \in M : x.parts \in Seq(P)
    BY MessageIs
  <1>3. \A x \in M : Within(Append(ms, x), D) => Within(ms, D) /\ PartsIn(x.parts, D)
    BY WithinAppended
  <1>4. CASE m.role = "tool"
    <2>1. CASE ms # <<>> /\ HoldsResults(Last(ms))
      <3> DEFINE both == Last(ms).parts \o m.parts
      <3>1. Last(ms) \in M /\ Last(ms) = ms[Len(ms)] /\ Len(ms) \in 1..Len(ms)
        <4> HIDE DEF M
        <4> QED
          BY <1>0, <2>1, LastReplaced
      <3>2. Last(ms).parts \in Seq(P)
        <4> HIDE DEF M, P
        <4> QED
          BY <1>m, <3>1
      <3>3. Message("user", both) \in M /\ Message("user", both).parts = both
        <4>1. both \in Seq(P)
          <5> HIDE DEF P
          <5> QED
            BY <1>1, <3>2, ConcatIs
        <4> HIDE DEF both, P, M
        <4> QED
          BY <1>2, <4>1, MessageFields
      <3>4. AppendOpenAI(ms, m) = Front(ms) \o <<Message("user", both)>>
        BY <1>4, <2>1, AppendOpenAIIs
      <3> HIDE DEF both
      <3>5. PartsIn(both, D) /\ \A i \in DOMAIN ms : i # Len(ms) => PartsIn(ms[i].parts, D)
        <4> DEFINE x == Message("user", both)
        <4>1. x \in M /\ x.parts = both /\ Within(Front(ms) \o <<x>>, D)
          BY <3>3, <3>4 DEF both
        <4> HIDE DEF x
        <4>2. PartsIn(x.parts, D) /\ \A i \in DOMAIN ms : i # Len(ms) => PartsIn(ms[i].parts, D)
          BY <2>1, <4>1, WithinAppended
        <4> QED
          BY <4>1, <4>2
      <3>6. PartsIn(ms[Len(ms)].parts, D) /\ PartsIn(m.parts, D)
        <4> HIDE DEF P
        <4> QED
          BY <1>1, <3>1, <3>2, <3>5, PartsInJoined DEF both
      <3> QED
        BY <3>5, <3>6 DEF Within
    <2>2. CASE ~(ms # <<>> /\ HoldsResults(Last(ms)))
      <3>1. Message("user", m.parts) \in M /\ Message("user", m.parts).parts = m.parts
        <4> HIDE DEF M, P
        <4> QED
          BY <1>1, <1>2, MessageFields
      <3>2. AppendOpenAI(ms, m) = Append(ms, Message("user", m.parts))
        BY <1>4, <2>2, AppendOpenAIIs
      <3> HIDE DEF M
      <3> QED
        BY <1>3, <3>1, <3>2
    <2> QED
      BY <2>1, <2>2
  <1>5. CASE m.role = "user"
    <2>1. CASE m.parts = <<>>
      <3>1. PartsIn(m.parts, D)
        BY <2>1 DEF PartsIn
      <3> DEFINE x == Message("user", <<Text(<<>>)>>)
      <3>2. x \in M
        <4>1. <<>> \in Seq(Talk)
          OBVIOUS
        <4>2. Text(<<>>) \in P
          BY <4>1, TextTyped DEF PartsOf
        <4> HIDE DEF P, M
        <4>3. <<Text(<<>>)>> \in Seq(P)
          BY <4>2
        <4> QED
          BY <1>2, <4>3
      <3>3. AppendOpenAI(ms, m) = Append(ms, x)
        BY <1>5, <2>1, AppendOpenAIIs
      <3> HIDE DEF M, x
      <3> QED
        BY <1>3, <3>1, <3>2, <3>3
    <2>2. CASE m.parts # <<>>
      <3>1. AppendOpenAI(ms, m) = Append(ms, m)
        BY <1>5, <2>2, AppendOpenAIIs
      <3> QED
        BY <1>3, <3>1
    <2> QED
      BY <2>1, <2>2
  <1>6. CASE m.role = "assistant"
    <2> DEFINE calls == OfKind(m.parts, "call")
    <2> DEFINE text == Joined(m.parts)
    <2> DEFINE parts == IF calls = <<>> THEN <<Text(text)>> ELSE TextIfAny(text) \o calls
    <2>1. /\ <<Text(text)>> \in Seq(P) /\ TextIfAny(text) \in Seq(P) /\ calls \in Seq(P)
          /\ TextIfAny(text) \o calls \in Seq(P) /\ text \in Seq(Talk)
      BY <1>1, AssistantIs, JoinedTyped
    <2>2. AppendOpenAI(ms, m) = Append(ms, Message("assistant", parts))
      BY <1>6, AppendOpenAIIs
    <2>3. parts \in Seq(P)
      BY <2>1
    <2>4. Message("assistant", parts) \in M /\ Message("assistant", parts).parts = parts
      <3> HIDE DEF parts, P, M
      <3> QED
        BY <1>2, <2>3, MessageFields
    <2>5. Within(ms, D) /\ PartsIn(parts, D)
      <3> HIDE DEF parts, M
      <3> QED
        BY <1>3, <2>2, <2>4
    <2> HIDE DEF calls, text
    <2>6. \A w \in ToSet(text) : w \in D
      <3>1. CASE calls = <<>>
        BY <2>1, <2>5, <3>1, PartsInText
      <3>2. CASE calls # <<>>
        <4>1. PartsIn(TextIfAny(text), D)
          <5> HIDE DEF P
          <5> QED
            BY <2>1, <2>5, <3>2, PartsInJoined
        <4> QED
          BY <2>1, <4>1, PartsInText
      <3> QED
        BY <3>1, <3>2
    <2>7. PartsIn(m.parts, D)
      <3> SUFFICES ASSUME NEW j \in DOMAIN m.parts, m.parts[j].kind \in TalkKinds,
                          NEW w \in ToSet(m.parts[j].text)
                   PROVE  w \in D
        BY DEF PartsIn
      <3>1. m.parts[j].kind \in {"text", "call"}
        BY <1>6, FineIs
      <3>2. m.parts[j].kind = "text"
        BY <3>1 DEF TalkKinds
      <3>3. w \in ToSet(text)
        BY <1>1, <3>2, JoinedTyped DEF text
      <3> QED
        BY <2>6, <3>3
    <2> QED
      BY <2>5, <2>7
  <1> QED
    BY <1>0, <1>4, <1>5, <1>6

\* Nothing said is lost when a body of the dialect is decoded.
LEMMA FromOpenAIKeeps ==
    ASSUME NEW Talk, NEW Tools, AreTools(Tools), NEW body \in FineBodies("openai", Talk, Tools),
           NEW D, SaidIn(FromOpenAI(body), D)
    PROVE  SaidIn(body, D)
  <1> DEFINE M == MessagesOf(Talk, Tools)
  <1> DEFINE messages == body.messages
  <1> DEFINE others == WithoutRole(messages, "system")
  <1> DEFINE V == Seq(M)
  <1> DEFINE n == Len(others)
  <1>1. /\ body.system = <<>> /\ messages \in Seq(M)
        /\ \A i \in DOMAIN messages : Fine("openai", messages[i])
    BY FineTyped DEF FineSystem
  <1>2. /\ others \in Seq(M)
        /\ others \in Seq({m \in {x \in M : Fine("openai", x)} : m.role # "system"})
        /\ \A i \in DOMAIN messages : messages[i].role # "system" => messages[i] \in ToSet(others)
    <2>1. messages \in Seq({x \in M : Fine("openai", x)})
      <3> DEFINE F == FineMessages("openai", Talk, Tools)
      <3> DEFINE G == {x \in M : Fine("openai", x)}
      <3>1. messages \in Seq(F)
        BY FineTyped
      <3>2. F \subseteq G
        BY DEF FineMessages
      <3> HIDE DEF F, G, messages, M
      <3>3. messages \in Seq(G)
        BY <3>1, <3>2
      <3> QED
        BY <3>3 DEF G
    <2> HIDE DEF messages, M
    <2> QED
      BY <1>1, <2>1, WithoutRoleTyped
  <1>3. \A k \in 1..n : others[k] \in M /\ Fine("openai", others[k]) /\ others[k].role # "system"
    <2> DEFINE F == {m \in {x \in M : Fine("openai", x)} : m.role # "system"}
    <2>1. \A k \in 1..n : others[k] \in F
      BY <1>2
    <2>2. \A m \in F : m \in M /\ Fine("openai", m) /\ m.role # "system"
      OBVIOUS
    <2> HIDE DEF F, M, others
    <2> QED
      BY <2>1, <2>2
  <1>4. PICK f : /\ \A i \in 0..n : f[i] \in V
                 /\ \A i \in 1..n : f[i] = AppendOpenAI(f[i - 1], others[i])
                 /\ OpenAIMessages(others) = f[n]
    <2>1. <<>> \in V
      OBVIOUS
    <2>2. \A v \in V, m \in M : AppendOpenAI(v, m) \in V
      BY AppendOpenAITyped
    <2> HIDE DEF V, M, others
    <2> QED
      BY <1>2, <2>1, <2>2, OpenAITable
  <1>5. FromOpenAI(body) = Body(TextOfRole(messages, "system"), f[n])
    BY <1>4, FromOpenAIIs
  <1>6. (\A w \in ToSet(TextOfRole(messages, "system")) : w \in D) /\ Within(f[n], D)
    BY <1>5 DEF SaidIn, Body
  <1>7. n \in Nat
    BY <1>2
  <1> HIDE DEF messages, others
  <1>8. ASSUME NEW i \in 1..n, Within(f[i], D)
        PROVE  Within(f[i - 1], D) /\ PartsIn(others[i].parts, D)
    <2>1. f[i - 1] \in V /\ f[i] = AppendOpenAI(f[i - 1], others[i])
      <3>1. i - 1 \in 0..n
        BY <1>7
      <3> HIDE DEF V
      <3> QED
        BY <1>4, <3>1
    <2>2. others[i] \in M /\ Fine("openai", others[i]) /\ others[i].role # "system"
      BY <1>3
    <2> QED
      BY <1>8, <2>1, <2>2, AppendOpenAIKeeps
  <1>9. \A i \in 0..n : Within(f[i], D)
    <2> DEFINE W == {v \in V : Within(v, D)}
    <2>1. f[n] \in W
      BY <1>4, <1>6, <1>7
    <2>2. \A i \in 1..n : i - 1 \in 0..n
      BY <1>7
    <2>3. \A i \in 1..n : f[i] \in W => f[i - 1] \in W
      BY <1>4, <1>8, <2>2
    <2> HIDE DEF W, V, n
    <2>4. \A i \in 0..n : f[i] \in W
      BY <1>7, <2>1, <2>3, StaysDown
    <2> QED
      BY <2>4 DEF W
  <1>10. \A k \in DOMAIN others : PartsIn(others[k].parts, D)
    <2>1. DOMAIN others = 1..n /\ \A k \in 1..n : k \in 0..n
      BY <1>2, <1>7
    <2> QED
      BY <1>8, <1>9, <2>1
  <1>11. ASSUME NEW i \in DOMAIN messages
         PROVE  PartsIn(messages[i].parts, D)
    <2>1. CASE messages[i].role = "system"
      <3> SUFFICES ASSUME NEW j \in DOMAIN messages[i].parts, messages[i].parts[j].kind \in TalkKinds,
                          NEW w \in ToSet(messages[i].parts[j].text)
                   PROVE  w \in D
        BY DEF PartsIn
      <3>1. messages[i].parts[j].kind = "text"
        BY <1>1, <2>1, FineIs
      <3>2. w \in ToSet(TextOfRole(messages, "system"))
        BY <1>1, <2>1, <3>1, TextOfRoleTyped
      <3> QED
        BY <1>6, <3>2
    <2>2. CASE messages[i].role # "system"
      <3>1. PICK k \in DOMAIN others : others[k] = messages[i]
        BY <1>2, <2>2 DEF ToSet
      <3> QED
        BY <1>10, <3>1
    <2> QED
      BY <2>1, <2>2
  <1>12. \A w \in ToSet(body.system) : w \in D
    BY <1>1 DEF ToSet
  <1> QED
    BY <1>11, <1>12 DEF SaidIn, Within, messages

-----------------------------------------------------------------------------
(* The Responses dialect.                                                    *)

\* The part of FromResponses that goes from item to item.
ResponsesMessages(items) ==
    LET messages[i \in 0..Len(items)] ==
            IF i = 0 THEN <<>> ELSE AppendItem(messages[i - 1], items[i])
    IN  messages[Len(items)]

\* That part, turn by turn.
LEMMA ResponsesTable ==
    ASSUME NEW M, NEW others \in Seq(M), NEW V, <<>> \in V,
           \A v \in V, m \in M : AppendItem(v, m) \in V
    PROVE  \E f : /\ \A i \in 0..Len(others) : f[i] \in V
                  /\ f[0] = <<>>
                  /\ \A i \in 1..Len(others) : f[i] = AppendItem(f[i - 1], others[i])
                  /\ ResponsesMessages(others) = f[Len(others)]
  <1> DEFINE n == Len(others)
  <1> DEFINE step == [i \in 1..n |-> [v \in V |-> AppendItem(v, others[i])]]
  <1> DEFINE Rec(f) == f = [i \in 0..n |-> IF i = 0 THEN <<>> ELSE AppendItem(f[i - 1], others[i])]
  <1>1. n \in Nat /\ \A i \in 1..n : others[i] \in M
    OBVIOUS
  <1>2. step \in [1..n -> [V -> V]]
    BY <1>1
  <1>3. PICK h : /\ h \in [0..n -> V] /\ h[0] = <<>>
                 /\ \A i \in 1..n : h[i] = step[i][h[i - 1]]
    <2> DEFINE base == <<>>
    <2>1. base \in V
      OBVIOUS
    <2> HIDE DEF step, base, n
    <2>2. \E h : Recurs(n, V, base, step, h)
      BY <1>1, <1>2, <2>1, Recursion
    <2> QED
      BY <2>2 DEF base, Recurs
  <1>4. \A i \in 1..n : i - 1 \in 0..n /\ h[i - 1] \in V
    BY <1>1, <1>3
  <1>5. \A i \in 1..n : h[i] = AppendItem(h[i - 1], others[i])
    <2> SUFFICES ASSUME NEW i \in 1..n PROVE h[i] = AppendItem(h[i - 1], others[i])
      OBVIOUS
    <2>1. step[i][h[i - 1]] = AppendItem(h[i - 1], others[i])
      BY <1>4
    <2> HIDE DEF step
    <2> QED
      BY <1>3, <2>1
  <1>6. Rec(h)
    <2>1. \A i \in 0..n : i # 0 => i \in 1..n
      BY <1>1
    <2>2. h = [i \in 0..n |-> h[i]]
      BY <1>3
    <2>3. \A i \in 0..n : h[i] = IF i = 0 THEN <<>> ELSE AppendItem(h[i - 1], others[i])
      BY <1>3, <1>5, <2>1
    <2> HIDE DEF step, n
    <2> QED
      BY <2>2, <2>3
  <1> DEFINE f == CHOOSE f : Rec(f)
  <1>7. ResponsesMessages(others) = f[n]
    BY Zenon DEF ResponsesMessages
  <1>8. Rec(f)
    <2> HIDE DEF Rec
    <2> QED
      BY <1>6
  <1> HIDE DEF f, step
  <1>9. f[0] = <<>> /\ \A i \in 1..n : f[i] = AppendItem(f[i - 1], others[i])
    <2>1. 0 \in 0..n /\ \A i \in 1..n : i \in 0..n /\ i # 0
      BY <1>1
    <2> HIDE DEF n
    <2> QED
      BY <1>8, <2>1
  <1>10. \A i \in 0..n : f[i] \in V
    <2>1. \A i \in 1..n : f[i - 1] \in V => f[i] \in V
      BY <1>1, <1>9
    <2> HIDE DEF n, Rec
    <2> QED
      BY <1>1, <1>9, <2>1, Stays
  <1> QED
    BY <1>7, <1>9, <1>10

\* A decoded body is what that part makes of its items.
LEMMA FromResponsesIs ==
    ASSUME NEW body
    PROVE  FromResponses(body) =
               NormalizeSystem(Body(IF body.system = <<>> THEN TextOfRole(body.messages, "developer")
                                    ELSE body.system,
                                    ResponsesMessages(WithoutRole(body.messages, "developer"))))
  BY Zenon DEF FromResponses, ResponsesMessages

\* A part put in the last message, or in a new one.
LEMMA MergeIn ==
    ASSUME NEW P, NEW ms \in Seq([role : Roles, parts : Seq(P)]),
           NEW role \in Roles, NEW part \in P
    PROVE  Merge(ms, role, part) \in Seq([role : Roles, parts : Seq(P)])
  <1> DEFINE M == [role : Roles, parts : Seq(P)]
  <1>1. ms \in Seq(M) /\ part \in P
    OBVIOUS
  <1>2. \A parts \in Seq(P) : Message(role, parts) \in M
    BY MessageIn
  <1>3. \A x \in M : x.parts \in Seq(P)
    OBVIOUS
  <1> SUFFICES Merge(ms, role, part) \in Seq(M)
    OBVIOUS
  <1> HIDE DEF M
  <1>4. CASE ms # <<>> /\ Last(ms).role = role
    <2> DEFINE parts == Append(Last(ms).parts, part)
    <2>1. Last(ms) \in M
      BY <1>1, <1>4, LastIs
    <2>2. parts \in Seq(P)
      BY <1>1, <1>3, <2>1
    <2>3. Merge(ms, role, part) = Front(ms) \o <<Message(role, parts)>>
      BY <1>4 DEF Merge
    <2> DEFINE x == Message(role, parts)
    <2>4. x \in M
      BY <1>2, <2>2
    <2> HIDE DEF x
    <2>5. Front(ms) \o <<x>> \in Seq(M)
      BY <1>1, <1>4, <2>4, LastReplaced
    <2> QED
      BY <2>3, <2>5 DEF x
  <1>5. CASE ~(ms # <<>> /\ Last(ms).role = role)
    <2> DEFINE parts == <<part>>
    <2>1. parts \in Seq(P)
      BY <1>1
    <2>2. Merge(ms, role, part) = Append(ms, Message(role, parts))
      BY <1>5 DEF Merge
    <2> HIDE DEF parts
    <2> QED
      BY <1>1, <1>2, <2>1, <2>2
  <1> QED
    BY <1>4, <1>5

\* A step brings no parts but those.
LEMMA AppendItemIn ==
    ASSUME NEW Talk, NEW Tools, AreTools(Tools), NEW P, Open(P, Talk, Tools),
           NEW ms \in Seq([role : Roles, parts : Seq(P)]), NEW m \in [role : Roles, parts : Seq(P)],
           Fine("responses", m)
    PROVE  AppendItem(ms, m) \in Seq([role : Roles, parts : Seq(P)])
  <1> DEFINE M == [role : Roles, parts : Seq(P)]
  <1>1. ms \in Seq(M) /\ m \in M /\ Fine("responses", m)
    OBVIOUS
  <1>2. m.parts \in Seq(P) /\ m.role \in Roles
    BY <1>1
  <1>3. \A role \in Roles, parts \in Seq(P) : Message(role, parts) \in M
    BY MessageIn
  <1>4. \A role \in Roles, part \in P : Merge(ms, role, part) \in Seq(M)
    BY MergeIn
  <1>5. "assistant" \in Roles /\ "user" \in Roles
    BY DEF Roles
  <1>6. m.role \in {"function_call", "function_call_output"} => m.parts # <<>>
    BY <1>1, FineIs
  <1>7. <<Text(<<>>)>> \in Seq(P)
    <2>1. <<>> \in Seq(Talk)
      OBVIOUS
    <2>2. Text(<<>>) \in P
      BY <2>1 DEF Open
    <2> QED
      BY <2>2
  <1> DEFINE OneText == <<Text(<<>>)>>
  <1> SUFFICES AppendItem(ms, m) \in Seq(M)
    OBVIOUS
  <1>8. CASE m.role = "function_call"
    <2>1. AppendItem(ms, m) = Merge(ms, "assistant", m.parts[1])
      BY <1>8, Zenon DEF AppendItem
    <2> HIDE DEF M
    <2>2. m.parts[1] \in P
      BY <1>2, <1>6, <1>8
    <2> QED
      BY <1>4, <1>5, <2>1, <2>2
  <1>9. CASE m.role = "function_call_output"
    <2>1. AppendItem(ms, m) = Merge(ms, "user", m.parts[1])
      BY <1>9, Zenon DEF AppendItem
    <2> HIDE DEF M
    <2>2. m.parts[1] \in P
      BY <1>2, <1>6, <1>9
    <2> QED
      BY <1>4, <1>5, <2>1, <2>2
  <1>10. CASE m.role = "reasoning"
    <2> DEFINE part == Reasoning(Texts(m.parts), NoSignature)
    <2>1. AppendItem(ms, m) = IF Texts(m.parts) = <<>> THEN ms ELSE Merge(ms, "assistant", part)
      BY <1>10, Zenon DEF AppendItem
    <2>2. CASE Texts(m.parts) = <<>>
      BY <1>1, <2>1, <2>2
    <2>3. CASE Texts(m.parts) # <<>>
      <3>1. part \in P
        <4>1. \A j \in DOMAIN m.parts : m.parts[j] \in TalkParts(Talk)
          <5>1. \A j \in DOMAIN m.parts : m.parts[j].kind = "text"
            BY <1>1, <1>10, FineIs
          <5>2. \A j \in DOMAIN m.parts : m.parts[j] \in PartsOf(Talk, Tools)
            BY <1>2 DEF Open
          <5> QED
            BY <5>1, <5>2, PartIs DEF TalkKinds
        <4>2. m.parts \in Seq(TalkParts(Talk))
          <5> DEFINE T == TalkParts(Talk)
          <5> HIDE DEF T
          <5>1. \A j \in DOMAIN m.parts : m.parts[j] \in T
            BY <4>1 DEF T
          <5>2. m.parts \in Seq(T)
            BY <1>2, <5>1
          <5> QED
            BY <5>2 DEF T
        <4>3. Texts(m.parts) \in Seq(Talk)
          BY <4>2, TextsTyped
        <4> QED
          BY <4>3 DEF Open
      <3> HIDE DEF part, M
      <3> QED
        BY <1>4, <1>5, <2>1, <2>3, <3>1
    <2> QED
      BY <2>2, <2>3
  <1>11. CASE m.role \notin {"function_call", "function_call_output", "reasoning"}
    <2>1. AppendItem(ms, m) = Append(ms, IF m.parts = <<>> THEN Message(m.role, OneText) ELSE m)
      BY <1>11, Zenon DEF AppendItem
    <2> HIDE DEF M, OneText
    <2>2. Message(m.role, OneText) \in M
      BY <1>2, <1>3, <1>7 DEF OneText
    <2> QED
      BY <1>1, <2>1, <2>2
  <1> QED
    BY <1>8, <1>9, <1>10, <1>11

\* The messages are made of the parts the items are made of.
LEMMA ResponsesMessagesIn ==
    ASSUME NEW Talk, NEW Tools, AreTools(Tools), NEW P, Open(P, Talk, Tools),
           NEW body,
           body.messages \in Seq({m \in [role : Roles, parts : Seq(P)] : Fine("responses", m)})
    PROVE  ResponsesMessages(WithoutRole(body.messages, "developer"))
              \in Seq([role : Roles, parts : Seq(P)])
  <1> DEFINE M == [role : Roles, parts : Seq(P)]
  <1> DEFINE F == {m \in M : Fine("responses", m)}
  <1> DEFINE items == WithoutRole(body.messages, "developer")
  <1> DEFINE V == Seq(M)
  <1>1. body.messages \in Seq(F)
    OBVIOUS
  <1>2. items \in Seq(F)
    <2> HIDE DEF F
    <2> QED
      BY <1>1, WithoutRoleTyped
  <1>3. \A v \in V, m \in F : AppendItem(v, m) \in V
    BY AppendItemIn
  <1>4. <<>> \in V
    OBVIOUS
  <1>5. ResponsesMessages(items) \in V
    <2> HIDE DEF V, F, items
    <2>1. PICK f : /\ \A i \in 0..Len(items) : f[i] \in V
                   /\ ResponsesMessages(items) = f[Len(items)]
      BY <1>2, <1>3, <1>4, ResponsesTable
    <2>2. Len(items) \in 0..Len(items)
      BY <1>2
    <2> QED
      BY <2>1, <2>2
  <1> QED
    BY <1>5

\* A decoded body has the words and the tools of the body.
LEMMA FromResponsesTyped ==
    ASSUME NEW Talk, NEW Tools, AreTools(Tools), NEW body \in FineBodies("responses", Talk, Tools),
           NEW P, Open(P, Talk, Tools),
           body.messages \in Seq({m \in [role : Roles, parts : Seq(P)] : Fine("responses", m)})
    PROVE  /\ FromResponses(body) \in BodiesOf(Talk, Tools)
           /\ FromResponses(body).messages \in Seq([role : Roles, parts : Seq(P)])
  <1> DEFINE M == [role : Roles, parts : Seq(P)]
  <1> DEFINE items == WithoutRole(body.messages, "developer")
  <1>1. body.messages \in Seq(MessagesOf(Talk, Tools)) /\ body.system \in Seq(Talk)
    BY FineTyped
  <1>5. ResponsesMessages(items) \in Seq(M)
    BY ResponsesMessagesIn
  <1> DEFINE system == IF body.system = <<>> THEN TextOfRole(body.messages, "developer")
                       ELSE body.system
  <1>6. system \in Seq(Talk)
    <2>1. TextOfRole(body.messages, "developer") \in Seq(Talk)
      BY <1>1, TextOfRoleTyped
    <2> QED
      BY <1>1, <2>1
  <1>9. ResponsesMessages(items) \in Seq(MessagesOf(Talk, Tools))
    <2> DEFINE N == MessagesOf(Talk, Tools)
    <2>1. M \subseteq N
      <3> DEFINE Q == PartsOf(Talk, Tools)
      <3>1. P \subseteq Q
        BY DEF Open
      <3> HIDE DEF Q
      <3>2. Seq(P) \subseteq Seq(Q)
        BY <3>1
      <3> QED
        BY <3>2 DEF MessagesOf, Q
    <2> HIDE DEF M, N, items
    <2>2. ResponsesMessages(items) \in Seq(N)
      BY <1>5, <2>1
    <2> QED
      BY <2>2 DEF N
  <1>7. Body(system, ResponsesMessages(items)) \in BodiesOf(Talk, Tools)
    <2> HIDE DEF items, system
    <2> QED
      BY <1>6, <1>9, BodyTyped
  <1>8. FromResponses(body) = NormalizeSystem(Body(system, ResponsesMessages(items)))
    BY FromResponsesIs
  <1>10. FromResponses(body).messages = WithoutRole(ResponsesMessages(items), "system")
    <2>1. Body(system, ResponsesMessages(items)).messages = ResponsesMessages(items)
      BY DEF Body
    <2> QED
      BY <1>7, <1>8, <2>1, NormalizeTyped
  <1>11. FromResponses(body).messages \in Seq(M)
    <2> HIDE DEF M, items
    <2> QED
      BY <1>5, <1>10, WithoutRoleTyped
  <1> QED
    BY <1>7, <1>8, <1>11, NormalizeTyped

-----------------------------------------------------------------------------
(* The neutral form has no thinking: reasoning is of one kind there.         *)

Neutral(Talk, Tools) ==
    {p \in PartsOf(Talk, Tools) : p.kind \in {"text", "reasoning", "call", "result"}}

\* The messages of a dialect other than Anthropic's are neutral.
LEMMA FineNeutral ==
    ASSUME NEW d, d # "anthropic", NEW Talk, NEW Tools, NEW b \in FineBodies(d, Talk, Tools)
    PROVE  /\ b.messages \in Seq([role : Roles, parts : Seq(Neutral(Talk, Tools))])
           /\ b.messages \in Seq({m \in [role : Roles, parts : Seq(Neutral(Talk, Tools))] : Fine(d, m)})
  <1> DEFINE N == [role : Roles, parts : Seq(Neutral(Talk, Tools))]
  <1> DEFINE G == {m \in N : Fine(d, m)}
  <1> DEFINE F == FineMessages(d, Talk, Tools)
  <1>1. b.messages \in Seq(F)
    BY FineTyped
  <1>2. ASSUME NEW m \in F
        PROVE  m \in N /\ Fine(d, m)
    <2>1. m \in MessagesOf(Talk, Tools) /\ Fine(d, m) /\ Plain(m.parts)
      BY DEF FineMessages
    <2>2. m.role \in Roles /\ m.parts \in Seq(PartsOf(Talk, Tools)) /\ m = Message(m.role, m.parts)
      BY <2>1, MessageIs
    <2>3. \A j \in DOMAIN m.parts : m.parts[j] \in Neutral(Talk, Tools)
      <3>1. \A j \in DOMAIN m.parts : m.parts[j] \in PartsOf(Talk, Tools)
        <4> HIDE DEF PartsOf
        <4> QED
          BY <2>2
      <3> QED
        BY <2>1, <3>1 DEF Neutral, Plain
    <2>4. m.parts \in Seq(Neutral(Talk, Tools))
      BY <2>2, <2>3
    <2>5. Message(m.role, m.parts) \in [role : Roles, parts : Seq(Neutral(Talk, Tools))]
      BY <2>2, <2>4, MessageIn
    <2> QED
      BY <2>1, <2>2, <2>5
  <1> HIDE DEF F, N
  <1>3. F \subseteq G /\ F \subseteq N
    BY <1>2
  <1> HIDE DEF G
  <1>4. b.messages \in Seq(G) /\ b.messages \in Seq(N)
    BY <1>1, <1>3
  <1> QED
    BY <1>4 DEF G, N

\* A body decoded from Anthropic is neutral.
LEMMA FromAnthropicNeutral ==
    ASSUME NEW Talk, NEW Tools, AreTools(Tools), NEW body \in BodiesOf(Talk, Tools)
    PROVE  FromAnthropic(body).messages \in Seq([role : Roles, parts : Seq(Neutral(Talk, Tools))])
  <1> DEFINE b == NormalizeSystem(body)
  <1> DEFINE out == EachPart(b.messages, PartFromAnthropic)
  <1> DEFINE P == PartsOf(Talk, Tools)
  <1> DEFINE Q == Neutral(Talk, Tools)
  <1>1. b \in BodiesOf(Talk, Tools)
    BY NormalizeTyped
  <1> HIDE DEF b
  <1>2. /\ b.system \in Seq(Talk) /\ b.messages \in Seq(MessagesOf(Talk, Tools))
        /\ \A i \in DOMAIN b.messages : \A j \in DOMAIN b.messages[i].parts :
              b.messages[i].parts[j] \in P
    BY <1>1, BodyIs
  <1>3. Fits(out, b.messages)
    BY FromAnthropicFits
  <1>4. \A i \in DOMAIN b.messages : \A j \in DOMAIN b.messages[i].parts :
            out[i].parts[j] = PartFromAnthropic(b.messages[i].parts[j])
    BY FromAnthropicFits
  <1>5. ASSUME NEW p \in P
        PROVE  PartFromAnthropic(p) \in Q
    <2>1. PartFromAnthropic(p) \in P
      BY PartFromAnthropicTyped
    <2>2. p.kind \in TalkKinds \cup {"call", "result"}
      BY PartIs
    <2>3. PartFromAnthropic(p).kind \in {"text", "reasoning", "call", "result"}
      BY <2>2 DEF PartFromAnthropic, Reasoning, Part, TalkKinds
    <2> QED
      BY <2>1, <2>3 DEF Neutral
  <1>6. FromAnthropic(body) = Body(b.system, out)
    BY DEF FromAnthropic, b
  <1> HIDE DEF out, P, Q
  <1>7. \A i \in DOMAIN b.messages : \A j \in DOMAIN b.messages[i].parts : out[i].parts[j] \in Q
    BY <1>2, <1>4, <1>5
  <1>8. out \in Seq([role : Roles, parts : Seq(Q)])
    BY <1>2, <1>3, <1>7, EachTyped
  <1> QED
    BY <1>6, <1>8 DEF Q, Body

\* What is neutral has no thinking.
LEMMA NeutralPlain ==
    ASSUME NEW Talk, NEW Tools,
           NEW messages \in Seq([role : Roles, parts : Seq(Neutral(Talk, Tools))])
    PROVE  AllPlain(messages)
  <1> DEFINE N == Neutral(Talk, Tools)
  <1>1. \A p \in N : p.kind \in {"text", "reasoning", "call", "result"}
    BY DEF Neutral
  <1> DEFINE M == [role : Roles, parts : Seq(N)]
  <1>3. messages \in Seq(M)
    OBVIOUS
  <1> HIDE DEF N
  <1>4. \A m \in M : m.parts \in Seq(N)
    OBVIOUS
  <1> HIDE DEF M
  <1>2. ASSUME NEW i \in DOMAIN messages
        PROVE  Plain(messages[i].parts)
    <2>1. messages[i] \in M
      BY <1>3
    <2>2. messages[i].parts \in Seq(N)
      BY <1>4, <2>1
    <2> QED
      BY <1>1, <2>2 DEF Plain
  <1> QED
    BY <1>2 DEF AllPlain

\* A decoded body.
LEMMA Decoded ==
    ASSUME NEW d \in {"anthropic", "openai", "responses"}, NEW Talk, NEW Tools, AreTools(Tools),
           NEW body \in FineBodies(d, Talk, Tools)
    PROVE  /\ Decode(d, body) \in BodiesOf(Talk, Tools)
           /\ AllPlain(Decode(d, body).messages)
           /\ \A D : d \in {"anthropic", "openai"} /\ SaidIn(Decode(d, body), D) => SaidIn(body, D)
  <1>1. body \in BodiesOf(Talk, Tools)
    BY FineTyped
  <1>2. Open(Neutral(Talk, Tools), Talk, Tools)
    BY PartsOpen DEF Neutral
  <1>3. CASE d = "anthropic"
    <2>1. Decode(d, body) = FromAnthropic(body)
      BY <1>3, Zenon DEF Decode
    <2> QED
      BY <1>1, <1>3, <2>1, FromAnthropicTyped, FromAnthropicNeutral, FromAnthropicKeeps, NeutralPlain
  <1>4. CASE d = "openai"
    <2>1. Decode(d, body) = FromOpenAI(body)
      BY <1>4, Zenon DEF Decode
    <2>2. body.messages \in Seq([role : Roles, parts : Seq(Neutral(Talk, Tools))])
      BY <1>4, FineNeutral
    <2>3. FromOpenAI(body).messages \in Seq([role : Roles, parts : Seq(Neutral(Talk, Tools))])
      BY <1>2, <2>2, OpenAIMessagesIn
    <2> QED
      BY <1>1, <1>4, <2>1, <2>3, FromOpenAITyped, FromOpenAIKeeps, NeutralPlain
  <1>5. CASE d = "responses"
    <2>1. Decode(d, body) = FromResponses(body)
      BY <1>5, Zenon DEF Decode
    <2>2. body.messages \in Seq({m \in [role : Roles, parts : Seq(Neutral(Talk, Tools))] :
                                     Fine("responses", m)})
      BY <1>5, FineNeutral
    <2>3. /\ FromResponses(body) \in BodiesOf(Talk, Tools)
          /\ FromResponses(body).messages \in Seq([role : Roles, parts : Seq(Neutral(Talk, Tools))])
      BY <1>2, <1>5, <2>2, FromResponsesTyped
    <2> QED
      BY <1>5, <2>1, <2>3, NeutralPlain
  <1> QED
    BY <1>3, <1>4, <1>5

-----------------------------------------------------------------------------
(* The bodies of providers.                                                  *)

\* A sequence of sequences, each made from an element of another sequence.
LEMMA FlattenMapTyped ==
    ASSUME NEW X, NEW s \in Seq(X), NEW T, NEW g,
           g = [i \in DOMAIN s |-> g[i]], \A i \in DOMAIN s : g[i] \in Seq(T)
    PROVE  FlattenSeq(g) \in Seq(T) /\ g \in Seq(Seq(T))
  <1> DEFINE V == Seq(T)
  <1>1. g \in [DOMAIN s -> V]
    BY DEF V
  <1> HIDE DEF V
  <1>2. g \in Seq(V)
    BY <1>1, MapTyped
  <1> QED
    BY <1>2, FlattenTyped DEF V

\* What becomes of one message.
LEMMA MessageToOpenAITyped ==
    ASSUME NEW Talk, NEW Tools, AreTools(Tools), NEW m \in MessagesOf(Talk, Tools)
    PROVE  MessageToOpenAI(m) \in Seq(MessagesOf(Talk, Tools))
  <1> DEFINE M == MessagesOf(Talk, Tools)
  <1> DEFINE P == PartsOf(Talk, Tools)
  <1>1. m.parts \in Seq(P)
    BY MessageIs
  <1>2. \A role \in Roles, parts \in Seq(P) : Message(role, parts) \in M
    BY MessageTyped
  <1>3. {"assistant", "tool", "user"} \subseteq Roles
    BY DEF Roles
  <1> DEFINE results == OfKind(m.parts, "result")
  <1> DEFINE parts == TextIfAny(Joined(m.parts)) \o OfKind(m.parts, "call")
  <1> DEFINE text == <<Text(Joined(m.parts))>>
  <1>4. results \in Seq(P) /\ parts \in Seq(P) /\ text \in Seq(P)
    BY <1>1, AssistantIs
  <1> DEFINE first == [i \in DOMAIN results |-> Message("tool", <<results[i]>>)]
  <1> DEFINE last == IF OfKind(m.parts, "text") = <<>> THEN <<>> ELSE <<Message("user", text)>>
  <1>5. MessageToOpenAI(m) = IF m.role = "assistant" THEN <<Message("assistant", parts)>>
                             ELSE first \o last
    BY DEF MessageToOpenAI
  <1> SUFFICES MessageToOpenAI(m) \in Seq(M)
    OBVIOUS
  <1> HIDE DEF M, P, parts, text
  <1>6. <<Message("assistant", parts)>> \in Seq(M) /\ <<Message("user", text)>> \in Seq(M)
    <2>1. Message("assistant", parts) \in M /\ Message("user", text) \in M
      BY <1>2, <1>3, <1>4
    <2> QED
      BY <2>1
  <1>7. first \in Seq(M)
    <2> HIDE DEF results
    <2>1. \A i \in DOMAIN results : <<results[i]>> \in Seq(P)
      BY <1>4
    <2>2. \A i \in DOMAIN results : Message("tool", <<results[i]>>) \in M
      BY <1>2, <1>3, <2>1
    <2>3. first \in [DOMAIN results -> M]
      BY <2>2
    <2> HIDE DEF first
    <2> QED
      BY <1>4, <2>3, MapTyped
  <1>8. last \in Seq(M)
    BY <1>6
  <1>9. first \o last \in Seq(M)
    <2> HIDE DEF first, last
    <2> QED
      BY <1>7, <1>8, ConcatIs
  <1> HIDE DEF first, last
  <1> QED
    BY <1>5, <1>6, <1>9

\* A body for OpenAI has the words and the tools of the neutral one.
LEMMA ToOpenAITyped ==
    ASSUME NEW Talk, NEW Tools, AreTools(Tools), NEW ir \in BodiesOf(Talk, Tools)
    PROVE  ToOpenAI(ir) \in BodiesOf(Talk, Tools)
  <1> DEFINE M == MessagesOf(Talk, Tools)
  <1> DEFINE P == PartsOf(Talk, Tools)
  <1> DEFINE g == [i \in DOMAIN ir.messages |-> MessageToOpenAI(ir.messages[i])]
  <1> DEFINE first == IF ir.system = <<>> THEN <<>>
                      ELSE <<Message("system", <<Text(ir.system)>>)>>
  <1>1. ir.messages \in Seq(M) /\ ir.system \in Seq(Talk)
    BY BodyIs
  <1>2. FlattenSeq(g) \in Seq(M)
    <2>1. \A i \in DOMAIN ir.messages : ir.messages[i] \in M
      BY <1>1
    <2>2. \A i \in DOMAIN ir.messages : g[i] \in Seq(M)
      BY <2>1, MessageToOpenAITyped
    <2>3. g = [i \in DOMAIN ir.messages |-> g[i]]
      OBVIOUS
    <2> HIDE DEF g, M
    <2> QED
      BY <1>1, <2>2, <2>3, FlattenMapTyped
  <1>3. first \in Seq(M)
    <2>1. Text(ir.system) \in P
      BY <1>1, TextTyped DEF PartsOf
    <2> DEFINE parts == <<Text(ir.system)>>
    <2>2. parts \in Seq(P)
      <3> HIDE DEF P
      <3> QED
        BY <2>1
    <2>3. Message("system", parts) \in M
      <3>1. "system" \in Roles
        BY DEF Roles
      <3> HIDE DEF parts
      <3> QED
        BY <2>2, <3>1, MessageTyped
    <2> HIDE DEF M
    <2> QED
      BY <2>3
  <1>4. first \o FlattenSeq(g) \in Seq(M)
    <2> HIDE DEF g, first, M
    <2> QED
      BY <1>2, <1>3, ConcatIs
  <1>5. ToOpenAI(ir) = Body(<<>>, first \o FlattenSeq(g))
    BY DEF ToOpenAI
  <1>6. <<>> \in Seq(Talk)
    OBVIOUS
  <1> DEFINE ms == first \o FlattenSeq(g)
  <1> DEFINE none == <<>>
  <1>7. ms \in Seq(M) /\ none \in Seq(Talk) /\ ToOpenAI(ir) = Body(none, ms)
    BY <1>4, <1>5, <1>6
  <1> HIDE DEF ms, none
  <1> QED
    BY <1>7, BodyTyped

\* The parts of tools: a call names the same id in its arguments, and results
\* have one of some texts.
ArgsOf(n) == <<<<"args", "", n>>>>
CallParts == {Call(n, name, ArgsOf(n)) : n \in Nat, name \in {"read", "write"}}
ResultParts(S) == {Result(n, t) : n \in Nat, t \in S}
ToolsOf(S) == CallParts \cup ResultParts(S)

\* What calls and results are.
LEMMA ToolIs ==
    ASSUME NEW S
    PROVE  /\ AreTools(ToolsOf(S)) /\ AreTools(CallParts)
           /\ \A p \in CallParts :
                /\ p.kind = "call" /\ p.id \in Nat /\ p.sig = NoSignature /\ p.text = ArgsOf(p.id)
                /\ p.text[1] = <<"args", "", p.id>>
           /\ \A p \in ResultParts(S) : p.kind = "result" /\ p.id \in Nat /\ p.text \in S
           /\ \A p \in ToolsOf(S) : /\ p.kind = "call" => p \in CallParts
                                    /\ p.kind = "result" => p \in ResultParts(S)
                                    /\ p.kind \in {"call", "result"}
  <1>1. \A p \in CallParts :
            /\ p.kind = "call" /\ p.id \in Nat /\ p.sig = NoSignature /\ p.text = ArgsOf(p.id)
    BY DEF CallParts, Call, Part
  <1>2. \A n : ArgsOf(n)[1] = <<"args", "", n>>
    BY DEF ArgsOf
  <1>3. \A p \in ResultParts(S) : p.kind = "result" /\ p.id \in Nat /\ p.text \in S
    <2> SUFFICES ASSUME NEW p \in ResultParts(S)
                 PROVE  p.kind = "result" /\ p.id \in Nat /\ p.text \in S
      OBVIOUS
    <2>1. PICK n \in Nat, t \in S : p = Result(n, t)
      BY DEF ResultParts
    <2>2. p = [kind |-> "result", text |-> t, id |-> n, name |-> "", sig |-> NoSignature]
      BY <2>1 DEF Result, Part
    <2> QED
      BY <2>2
  <1> QED
    BY <1>1, <1>2, <1>3 DEF AreTools, ToolsOf

\* What Gemini is sent for them: each call with the signature the cache has for
\* it, if any, and results with the same text.
GeminiCalls(sig) ==
    {[p EXCEPT !.id = NoId, !.sig = IF p.id \in DOMAIN sig THEN sig[p.id] ELSE Bypass] : p \in CallParts}
GeminiResults(S, messages) ==
    {[p EXCEPT !.id = NoId, !.name = FunctionName(messages, p.id)] : p \in ResultParts(S)}
GeminiTools(S, messages, sig) == GeminiCalls(sig) \cup GeminiResults(S, messages)

\* What they are for Gemini: the signature of the call, the text of the result.
LEMMA GeminiToolIs ==
    ASSUME NEW S, NEW messages, NEW sig
    PROVE  /\ AreTools(GeminiTools(S, messages, sig))
           /\ \A q \in GeminiTools(S, messages, sig) :
                /\ q.kind = "call" =>
                     \E n \in Nat : /\ q.text[1] = <<"args", "", n>>
                                    /\ q.sig = IF n \in DOMAIN sig THEN sig[n] ELSE Bypass
                /\ q.kind = "result" => q.text \in S
  <1>1. ASSUME NEW q \in GeminiCalls(sig)
        PROVE  /\ q.kind = "call"
               /\ \E n \in Nat : /\ q.text[1] = <<"args", "", n>>
                                 /\ q.sig = IF n \in DOMAIN sig THEN sig[n] ELSE Bypass
    <2>1. PICK p \in CallParts :
              q = [p EXCEPT !.id = NoId, !.sig = IF p.id \in DOMAIN sig THEN sig[p.id] ELSE Bypass]
      BY <1>1 DEF GeminiCalls
    <2>2. PICK n \in Nat, name \in {"read", "write"} : p = Call(n, name, ArgsOf(n))
      BY DEF CallParts
    <2>3. p = [kind |-> "call", text |-> ArgsOf(n), id |-> n, name |-> name, sig |-> NoSignature]
      BY <2>2 DEF Call, Part
    <2>4. q.kind = "call" /\ q.text = ArgsOf(n)
          /\ q.sig = IF n \in DOMAIN sig THEN sig[n] ELSE Bypass
      BY <2>1, <2>3
    <2>5. ArgsOf(n)[1] = <<"args", "", n>>
      BY DEF ArgsOf
    <2> QED
      BY <2>4, <2>5
  <1>2. ASSUME NEW q \in GeminiResults(S, messages)
        PROVE  q.kind = "result" /\ q.text \in S
    <2>1. PICK p \in ResultParts(S) :
              q = [p EXCEPT !.id = NoId, !.name = FunctionName(messages, p.id)]
      BY <1>2 DEF GeminiResults
    <2>2. PICK n \in Nat, t \in S : p = Result(n, t)
      BY DEF ResultParts
    <2>3. p = [kind |-> "result", text |-> t, id |-> n, name |-> "", sig |-> NoSignature]
      BY <2>2 DEF Result, Part
    <2> QED
      BY <2>1, <2>3
  <1> QED
    BY <1>1, <1>2 DEF GeminiTools, AreTools

\* One part.
GeminiPart(p, messages, sig) ==
    CASE p.kind = "text" -> <<p>>
      [] p.kind = "call" ->
            <<[p EXCEPT !.id = NoId,
                        !.sig = IF p.id \in DOMAIN sig THEN sig[p.id] ELSE Bypass]>>
      [] p.kind = "result" ->
            <<[p EXCEPT !.id = NoId, !.name = FunctionName(messages, p.id)]>>
      [] OTHER -> <<>>

\* A message goes part by part.
LEMMA PartsToGeminiIs ==
    ASSUME NEW parts, NEW messages, NEW sig
    PROVE  PartsToGemini(parts, messages, sig) =
               LET converted == FlattenSeq([i \in DOMAIN parts |-> GeminiPart(parts[i], messages, sig)])
               IN  IF converted = <<>> THEN <<Text(<<>>)>> ELSE converted
  BY Zenon DEF PartsToGemini, GeminiPart

\* A part for Gemini.
LEMMA GeminiPartTyped ==
    ASSUME NEW Talk, NEW S, NEW p \in PartsOf(Talk, ToolsOf(S)), NEW messages, NEW sig
    PROVE  GeminiPart(p, messages, sig) \in Seq(PartsOf(Talk, GeminiTools(S, messages, sig)))
  <1> DEFINE P2 == PartsOf(Talk, GeminiTools(S, messages, sig))
  <1>1. \A x \in P2 : <<x>> \in Seq(P2)
    <2> HIDE DEF P2
    <2> QED
      OBVIOUS
  <1>2. CASE p.kind = "text"
    <2>1. GeminiPart(p, messages, sig) = <<p>>
      BY <1>2, Zenon DEF GeminiPart
    <2>2. p \in P2
      BY <1>2, PartIs, ToolIs DEF PartsOf, TalkKinds
    <2> QED
      BY <1>1, <2>1, <2>2
  <1>3. CASE p.kind = "call"
    <2> DEFINE q == [p EXCEPT !.id = NoId, !.sig = IF p.id \in DOMAIN sig THEN sig[p.id] ELSE Bypass]
    <2>1. GeminiPart(p, messages, sig) = <<q>>
      BY <1>3, Zenon DEF GeminiPart
    <2>2. p \in CallParts
      <3>1. p.kind \notin TalkKinds
        BY <1>3 DEF TalkKinds
      <3>2. AreTools(ToolsOf(S))
        BY ToolIs
      <3>3. p \in ToolsOf(S)
        BY <3>1, <3>2, PartIs
      <3> QED
        BY <1>3, <3>3, ToolIs
    <2>3. q \in GeminiCalls(sig)
      BY <2>2 DEF GeminiCalls
    <2>4. q \in P2
      BY <2>3 DEF PartsOf, GeminiTools
    <2> HIDE DEF q
    <2> QED
      BY <1>1, <2>1, <2>4
  <1>4. CASE p.kind = "result"
    <2> DEFINE q == [p EXCEPT !.id = NoId, !.name = FunctionName(messages, p.id)]
    <2>1. GeminiPart(p, messages, sig) = <<q>>
      BY <1>4, Zenon DEF GeminiPart
    <2>2. p \in ResultParts(S)
      BY <1>4, PartIs, ToolIs DEF TalkKinds
    <2>3. q \in GeminiResults(S, messages)
      BY <2>2 DEF GeminiResults
    <2>4. q \in P2
      BY <2>3 DEF PartsOf, GeminiTools
    <2> HIDE DEF q
    <2> QED
      BY <1>1, <2>1, <2>4
  <1>5. CASE p.kind \notin {"text", "call", "result"}
    <2>1. GeminiPart(p, messages, sig) = <<>>
      BY <1>5, Zenon DEF GeminiPart
    <2> QED
      BY <2>1
  <1> QED
    BY <1>2, <1>3, <1>4, <1>5

\* The parts for Gemini.
LEMMA PartsToGeminiTyped ==
    ASSUME NEW Talk, NEW S, NEW parts \in Seq(PartsOf(Talk, ToolsOf(S))), NEW messages, NEW sig
    PROVE  PartsToGemini(parts, messages, sig) \in Seq(PartsOf(Talk, GeminiTools(S, messages, sig)))
  <1> DEFINE P == PartsOf(Talk, ToolsOf(S))
  <1> DEFINE P2 == PartsOf(Talk, GeminiTools(S, messages, sig))
  <1> DEFINE g == [i \in DOMAIN parts |-> GeminiPart(parts[i], messages, sig)]
  <1>1. parts \in Seq(P)
    OBVIOUS
  <1>2. \A i \in DOMAIN parts : g[i] \in Seq(P2)
    <2>1. \A i \in DOMAIN parts : parts[i] \in P
      OBVIOUS
    <2>2. \A i \in DOMAIN parts : g[i] = GeminiPart(parts[i], messages, sig)
      OBVIOUS
    <2> HIDE DEF g
    <2> QED
      BY <2>1, <2>2, GeminiPartTyped
  <1>3. g = [i \in DOMAIN parts |-> g[i]]
    OBVIOUS
  <1>4. FlattenSeq(g) \in Seq(P2)
    <2> HIDE DEF g, P, P2
    <2> QED
      BY <1>1, <1>2, <1>3, FlattenMapTyped
  <1>5. <<Text(<<>>)>> \in Seq(P2)
    <2>1. <<>> \in Seq(Talk)
      OBVIOUS
    <2>2. Text(<<>>) \in P2
      BY <2>1, TextTyped DEF PartsOf
    <2> HIDE DEF P2
    <2> QED
      BY <2>2
  <1>6. PartsToGemini(parts, messages, sig) = IF FlattenSeq(g) = <<>> THEN <<Text(<<>>)>> ELSE FlattenSeq(g)
    BY PartsToGeminiIs
  <1> HIDE DEF g
  <1> QED
    BY <1>4, <1>5, <1>6

\* A body for Gemini.
LEMMA ToGeminiTyped ==
    ASSUME NEW Talk, NEW S, NEW ir \in BodiesOf(Talk, ToolsOf(S)), NEW sig
    PROVE  ToGemini(ir, sig) \in BodiesOf(Talk, GeminiTools(S, ir.messages, sig))
  <1> DEFINE M2 == MessagesOf(Talk, GeminiTools(S, ir.messages, sig))
  <1> DEFINE Out(m) == Message(IF m.role = "assistant" THEN "model" ELSE "user",
                               PartsToGemini(m.parts, ir.messages, sig))
  <1> DEFINE g == [i \in DOMAIN ir.messages |-> Out(ir.messages[i])]
  <1>1. /\ ir.system \in Seq(Talk) /\ ir.messages \in Seq(MessagesOf(Talk, ToolsOf(S)))
        /\ \A i \in DOMAIN ir.messages : ir.messages[i].parts \in Seq(PartsOf(Talk, ToolsOf(S)))
    BY BodyIs
  <1>2. ASSUME NEW i \in DOMAIN ir.messages
        PROVE  Out(ir.messages[i]) \in M2
    <2> DEFINE parts == PartsToGemini(ir.messages[i].parts, ir.messages, sig)
    <2> DEFINE role == IF ir.messages[i].role = "assistant" THEN "model" ELSE "user"
    <2>1. parts \in Seq(PartsOf(Talk, GeminiTools(S, ir.messages, sig)))
      BY <1>1, PartsToGeminiTyped
    <2>2. role \in Roles
      BY DEF Roles
    <2> HIDE DEF parts, role
    <2>3. Message(role, parts) \in M2
      BY <2>1, <2>2, MessageTyped
    <2> QED
      BY <2>3 DEF parts, role
  <1>3. g \in Seq(M2)
    <2> DEFINE D == DOMAIN ir.messages
    <2>1. g \in [D -> M2]
      <3> HIDE DEF M2, Out
      <3> QED
        BY <1>2
    <2> HIDE DEF g, M2
    <2> QED
      BY <1>1, <2>1, MapTyped
  <1>4. ToGemini(ir, sig) = Body(ir.system, g)
    BY DEF ToGemini
  <1> HIDE DEF g
  <1> QED
    BY <1>1, <1>3, <1>4, BodyTyped

-----------------------------------------------------------------------------
(* The command plugin.                                                       *)

\* The largest of some naturals up to a bound.
LEMMA MaxIs ==
    ASSUME NEW n \in Nat, NEW B \in SUBSET (0..n), B # {}
    PROVE  Max(B) \in B /\ \A b \in B : b <= Max(B)
  <1>1. \E x \in B : \A y \in B : x >= y
    <2> DEFINE R == {k \in Nat : \A C \in SUBSET (0..k) : C # {} => \E x \in C : \A y \in C : x >= y}
    <2>1. 0 \in R
      <3> SUFFICES ASSUME NEW C \in SUBSET (0..0), C # {}
                   PROVE  \E x \in C : \A y \in C : x >= y
        OBVIOUS
      <3>1. \A y \in C : y = 0
        OBVIOUS
      <3>2. PICK x \in C : TRUE
        OBVIOUS
      <3>3. \A y \in C : x >= y
        BY <3>1
      <3> QED
        BY <3>3
    <2>2. ASSUME NEW k \in R
          PROVE  k + 1 \in R
      <3> SUFFICES ASSUME NEW C \in SUBSET (0..(k + 1)), C # {}
                   PROVE  \E x \in C : \A y \in C : x >= y
        OBVIOUS
      <3>1. CASE k + 1 \in C
        <4>1. \A y \in C : k + 1 >= y
          OBVIOUS
        <4> QED
          BY <3>1, <4>1
      <3>2. CASE k + 1 \notin C
        <4>1. \A y \in C : y \in 0..k
          BY <3>2
        <4>2. C \in SUBSET (0..k)
          BY <4>1
        <4> QED
          BY <4>2
      <3> QED
        BY <3>1, <3>2
    <2>3. R \in SUBSET Nat
      OBVIOUS
    <2>4. R = Nat
      <3> HIDE DEF R
      <3> QED
        BY <2>1, <2>2, <2>3, Induction
    <2> QED
      BY <2>4
  <1>2. Max(B) \in B /\ \A y \in B : Max(B) >= y
    BY <1>1 DEF Max
  <1>3. \A b \in B : b \in Int
    OBVIOUS
  <1> QED
    BY <1>2, <1>3

\* The last user message, if any.
LEMMA LastUserIs ==
    ASSUME NEW M, NEW messages \in Seq(M)
    PROVE  /\ LastUser(messages) \in 0..Len(messages)
           /\ LastUser(messages) # 0 => /\ LastUser(messages) \in DOMAIN messages
                                        /\ messages[LastUser(messages)].role = "user"
  <1> DEFINE B == {i \in DOMAIN messages : messages[i].role = "user"} \cup {0}
  <1>1. B \in SUBSET (0..Len(messages)) /\ B # {} /\ Len(messages) \in Nat
    OBVIOUS
  <1>2. \A b \in B : b # 0 => b \in DOMAIN messages /\ messages[b].role = "user"
    OBVIOUS
  <1>3. LastUser(messages) = Max(B)
    BY DEF LastUser
  <1> HIDE DEF B
  <1>4. Max(B) \in B
    BY <1>1, MaxIs
  <1> QED
    BY <1>1, <1>2, <1>3, <1>4

\* The last text of a message is that of the last part of the kind.
LEMMA LastTextIs ==
    ASSUME NEW P, NEW parts \in Seq(P), OfKind(parts, "text") # <<>>
    PROVE  LET last == Max({j \in DOMAIN parts : parts[j].kind = "text"})
           IN  /\ last \in DOMAIN parts /\ parts[last].kind = "text"
               /\ Last(OfKind(parts, "text")) = parts[last]
  <1> DEFINE B == {j \in DOMAIN parts : parts[j].kind = "text"}
  <1>1. B \in SUBSET (0..Len(parts)) /\ Len(parts) \in Nat
    OBVIOUS
  <1>2. OfKind(parts, "text") = At(parts, B)
    BY DEF OfKind
  <1>3. \A b \in B : b \in DOMAIN parts /\ parts[b].kind = "text"
    OBVIOUS
  <1> HIDE DEF B
  <1>4. B # {}
    <2> SUFFICES ASSUME B = {} PROVE FALSE
      OBVIOUS
    <2>1. At(parts, B) = <<>>
      BY AtNone
    <2> QED
      BY <1>2, <2>1
  <1>5. Max(B) \in B /\ \A b \in B : b <= Max(B)
    BY <1>1, <1>4, MaxIs
  <1>6. Last(At(parts, B)) = parts[Max(B)]
    <2>1. Max(B) \in DOMAIN parts
      BY <1>3, <1>5
    <2> DEFINE m == Max(B)
    <2> HIDE DEF m
    <2>2. m \in DOMAIN parts /\ m \in B /\ \A i \in DOMAIN parts : i \in B => i <= m
      BY <1>5, <2>1 DEF m
    <2>3. Last(At(parts, B)) = parts[m]
      BY <2>2, AtLast
    <2> QED
      BY <2>3 DEF m
  <1> QED
    BY <1>2, <1>3, <1>5, <1>6 DEF B

\* A command that injects is in the text.
LEMMA CommandIs ==
    ASSUME NEW text
    PROVE  Command(text) = "inject" => text # <<>> /\ Is(text[1], "command")
  <1>1. CASE text = <<>> \/ ~Is(text[1], "command")
    <2>1. Command(text) = "pass"
      BY <1>1, Zenon DEF Command
    <2> QED
      BY <2>1
  <1> QED
    BY <1>1

\* The text a command is in, and the request with a report in its place: the
\* command is all that is gone.
ReportOf(text) == <<"report", text[1][2], 0>>

\* A part with another text.
LEMMA RetoldIs ==
    ASSUME NEW Talk, NEW Talk2, NEW p \in TalkParts(Talk), NEW text \in Seq(Talk2)
    PROVE  /\ Retold(p, text) \in TalkParts(Talk2)
           /\ Retold(p, text).kind = p.kind /\ Retold(p, text).text = text
  BY DEF Retold, TalkParts

\* A text with a report in the place of its first word.
LEMMA RetoldText ==
    ASSUME NEW Talk, NEW text \in Seq(Talk), text # <<>>, NEW report
    PROVE  /\ <<report>> \o Tail(text) \in Seq(Talk \cup {report})
           /\ \A w \in ToSet(text) : w = text[1] \/ w \in ToSet(<<report>> \o Tail(text))
  <1> DEFINE Talk2 == Talk \cup {report}
  <1> DEFINE e == <<report>>
  <1> DEFINE r == Tail(text)
  <1>1. report \in Talk2 /\ \A w \in Talk : w \in Talk2
    OBVIOUS
  <1>2. /\ r \in Seq(Talk) /\ Len(r) = Len(text) - 1 /\ Len(text) \in Nat /\ Len(r) \in Nat
        /\ \A k \in 1..Len(r) : r[k] = text[k + 1]
        /\ DOMAIN text = 1..Len(text)
    OBVIOUS
  <1>3. r \in Seq(Talk2)
    <2> HIDE DEF Talk2, r
    <2> QED
      BY <1>1, <1>2
  <1>4. e \in Seq(Talk2) /\ Len(e) = 1
    <2> HIDE DEF Talk2
    <2> QED
      BY <1>1
  <1> HIDE DEF e, r, Talk2
  <1>5. /\ e \o r \in Seq(Talk2) /\ DOMAIN (e \o r) = 1..(Len(e) + Len(r))
        /\ \A k \in 1..Len(r) : (e \o r)[Len(e) + k] = r[k]
    <2>1. e \in Seq(Talk2) /\ r \in Seq(Talk2)
      BY <1>3, <1>4
    <2> QED
      BY <2>1, ConcatIs
  <1>6. ASSUME NEW w \in ToSet(text), w # text[1]
        PROVE  w \in ToSet(e \o r)
    <2>1. PICK k \in 1..Len(text) : text[k] = w
      BY <1>2, <1>6 DEF ToSet
    <2>2. k # 1
      BY <1>6, <2>1
    <2>3. k - 1 \in 1..Len(r) /\ (k - 1) + 1 = k
      BY <1>2, <2>2
    <2>4. (e \o r)[Len(e) + (k - 1)] = r[k - 1]
      BY <1>5, <2>3
    <2>5. r[k - 1] = text[k]
      BY <1>2, <2>3
    <2>6. Len(e) + (k - 1) \in 1..(Len(e) + Len(r))
      BY <1>2, <1>4, <2>3
    <2> QED
      BY <1>5, <2>1, <2>4, <2>5, <2>6 DEF ToSet
  <1> QED
    BY <1>5, <1>6 DEF e, r, Talk2

\* Parts, one of which has another text.
LEMMA PartReplaced ==
    ASSUME NEW Talk, NEW Talk2, Talk \subseteq Talk2, NEW Tools, AreTools(Tools),
           NEW parts \in Seq(PartsOf(Talk, Tools)), NEW last \in DOMAIN parts,
           parts[last] \in TalkParts(Talk), NEW new \in Seq(Talk2)
    PROVE  /\ [parts EXCEPT ![last] = Retold(parts[last], new)] \in Seq(PartsOf(Talk2, Tools))
           /\ \A D, x : /\ \A w \in ToSet(parts[last].text) : w = x \/ w \in ToSet(new)
                        /\ PartsIn([parts EXCEPT ![last] = Retold(parts[last], new)], D)
                        => PartsIn(parts, D \cup {x})
           /\ Plain(parts) => Plain([parts EXCEPT ![last] = Retold(parts[last], new)])
  <1> DEFINE P2 == PartsOf(Talk2, Tools)
  <1> DEFINE part2 == Retold(parts[last], new)
  <1> DEFINE parts2 == [parts EXCEPT ![last] = part2]
  <1>1. part2 \in TalkParts(Talk2) /\ part2.kind = parts[last].kind /\ part2.text = new
    BY RetoldIs
  <1>2. part2 \in P2
    BY <1>1 DEF PartsOf
  <1>3. parts \in Seq(P2)
    BY PartsGrow
  <1> HIDE DEF part2, P2
  <1>4. /\ parts2 \in Seq(P2) /\ DOMAIN parts2 = DOMAIN parts /\ parts2[last] = part2
        /\ \A j \in DOMAIN parts : j # last => parts2[j] = parts[j]
    BY <1>2, <1>3
  <1> HIDE DEF parts2
  <1>5. ASSUME NEW D, NEW x, \A w \in ToSet(parts[last].text) : w = x \/ w \in ToSet(new),
               PartsIn(parts2, D)
        PROVE  PartsIn(parts, D \cup {x})
    <2> SUFFICES ASSUME NEW j \in DOMAIN parts, parts[j].kind \in TalkKinds, NEW w \in ToSet(parts[j].text)
                 PROVE  w \in D \cup {x}
      BY DEF PartsIn
    <2>1. CASE j = last
      <3>1. \A y \in ToSet(new) : y \in D
        BY <1>1, <1>4, <1>5, <2>1 DEF PartsIn
      <3> QED
        BY <1>5, <2>1, <3>1
    <2>2. CASE j # last
      BY <1>4, <1>5, <2>2 DEF PartsIn
    <2> QED
      BY <2>1, <2>2
  <1>6. Plain(parts) => Plain(parts2)
    BY <1>1, <1>4 DEF Plain
  <1> QED
    BY <1>4, <1>5, <1>6 DEF P2, parts2, part2

\* Messages, one of which is another.
LEMMA MessageReplaced ==
    ASSUME NEW M, NEW M2, M \subseteq M2, NEW messages \in Seq(M), NEW i \in DOMAIN messages,
           NEW m \in M2
    PROVE  /\ [messages EXCEPT ![i] = m] \in Seq(M2)
           /\ \A D, D2 : /\ Within([messages EXCEPT ![i] = m], D)
                         /\ D \subseteq D2 /\ (PartsIn(m.parts, D) => PartsIn(messages[i].parts, D2))
                         => Within(messages, D2)
           /\ AllPlain(messages) /\ Plain(m.parts) => AllPlain([messages EXCEPT ![i] = m])
  <1> DEFINE ms == [messages EXCEPT ![i] = m]
  <1>1. /\ ms \in Seq(M2) /\ DOMAIN ms = DOMAIN messages /\ ms[i] = m
        /\ \A k \in DOMAIN messages : k # i => ms[k] = messages[k]
    OBVIOUS
  <1> HIDE DEF ms
  <1>2. ASSUME NEW D, NEW D2, Within(ms, D), D \subseteq D2,
               PartsIn(m.parts, D) => PartsIn(messages[i].parts, D2)
        PROVE  Within(messages, D2)
    <2>1. \A parts : PartsIn(parts, D) => PartsIn(parts, D2)
      BY <1>2 DEF PartsIn
    <2>2. \A k \in DOMAIN messages : PartsIn(ms[k].parts, D)
      BY <1>1, <1>2 DEF Within
    <2>3. PartsIn(messages[i].parts, D2)
      BY <1>1, <1>2, <2>2
    <2>4. \A k \in DOMAIN messages : k # i => PartsIn(messages[k].parts, D2)
      BY <1>1, <2>1, <2>2
    <2> QED
      BY <2>3, <2>4 DEF Within
  <1>3. AllPlain(messages) /\ Plain(m.parts) => AllPlain(ms)
    BY <1>1 DEF AllPlain
  <1> QED
    BY <1>1, <1>2, <1>3 DEF ms

\* Where the text of the last user message is.
IsLastText(Talk, Tools, messages, i, last) ==
    /\ i = LastUser(messages) /\ messages[i].role = "user"
    /\ last = Max({j \in DOMAIN messages[i].parts : messages[i].parts[j].kind = "text"})
    /\ messages[i].parts \in Seq(PartsOf(Talk, Tools))
    /\ messages[i].parts[last] \in TalkParts(Talk)
    /\ messages[i].parts[last].text = LastUserText(messages)
    /\ LastUserText(messages) \in Seq(Talk)

\* There it is.
LEMMA LastUserTextIs ==
    ASSUME NEW Talk, NEW Tools, AreTools(Tools), NEW messages \in Seq(MessagesOf(Talk, Tools)),
           LastUserText(messages) # <<>>
    PROVE  \E i \in DOMAIN messages : \E last \in DOMAIN messages[i].parts :
              IsLastText(Talk, Tools, messages, i, last)
  <1> DEFINE M == MessagesOf(Talk, Tools)
  <1> DEFINE P == PartsOf(Talk, Tools)
  <1>1. PICK i : i = LastUser(messages)
    OBVIOUS
  <1>2. i # 0 /\ OfKind(messages[i].parts, "text") # <<>>
        /\ LastUserText(messages) = Last(OfKind(messages[i].parts, "text")).text
    BY <1>1 DEF LastUserText
  <1>3. i \in DOMAIN messages /\ messages[i].role = "user"
    BY <1>1, <1>2, LastUserIs
  <1>4. PICK parts : parts = messages[i].parts
    OBVIOUS
  <1>5. parts \in Seq(P)
    <2>1. messages[i] \in M
      BY <1>3
    <2> QED
      BY <1>4, <2>1, MessageIs
  <1>6. PICK last : last = Max({j \in DOMAIN parts : parts[j].kind = "text"})
    OBVIOUS
  <1>7. last \in DOMAIN parts /\ parts[last].kind = "text" /\ Last(OfKind(parts, "text")) = parts[last]
    <2> HIDE DEF P
    <2> QED
      BY <1>2, <1>4, <1>5, <1>6, LastTextIs
  <1>8. PICK p : p = parts[last]
    OBVIOUS
  <1>9. p \in P /\ p.kind = "text"
    <2> HIDE DEF P
    <2> QED
      BY <1>5, <1>7, <1>8
  <1>10. p \in TalkParts(Talk) /\ p.text \in Seq(Talk)
    BY <1>9, PartIs DEF TalkKinds
  <1> QED
    BY <1>1, <1>2, <1>3, <1>4, <1>5, <1>6, <1>7, <1>8, <1>10 DEF IsLastText

\* Nothing said is lost in the injected request but the command.
LEMMA InjectedIs ==
    ASSUME NEW Talk, NEW Tools, AreTools(Tools), NEW ir \in BodiesOf(Talk, Tools),
           NEW text, text = LastUserText(ir.messages), text # <<>>
    PROVE  /\ text \in Seq(Talk)
           /\ Injected(ir, text) \in BodiesOf(Talk \cup {ReportOf(text)}, Tools)
           /\ \A D : SaidIn(Injected(ir, text), D) => SaidIn(ir, D \cup {text[1]})
           /\ AllPlain(ir.messages) => AllPlain(Injected(ir, text).messages)
  <1>1. PICK messages : messages = ir.messages
    OBVIOUS
  <1>2. ir.system \in Seq(Talk) /\ messages \in Seq(MessagesOf(Talk, Tools))
        /\ ir = Body(ir.system, messages)
    BY <1>1 DEF BodiesOf, Body
  <1>22. \E i \in DOMAIN messages : \E last \in DOMAIN messages[i].parts :
            IsLastText(Talk, Tools, messages, i, last)
    <2>1. LastUserText(messages) # <<>>
      BY <1>1
    <2> QED
      BY <1>2, <2>1, LastUserTextIs
  <1>23. PICK i \in DOMAIN messages : \E last \in DOMAIN messages[i].parts :
            IsLastText(Talk, Tools, messages, i, last)
    BY <1>22, Zenon
  <1>3. PICK last \in DOMAIN messages[i].parts : IsLastText(Talk, Tools, messages, i, last)
    BY <1>23, Zenon
  <1>4. PICK parts : parts = messages[i].parts
    OBVIOUS
  <1>5. /\ i = LastUser(messages) /\ messages[i].role = "user"
        /\ last \in DOMAIN parts
        /\ last = Max({j \in DOMAIN parts : parts[j].kind = "text"})
        /\ parts \in Seq(PartsOf(Talk, Tools))
        /\ parts[last] \in TalkParts(Talk)
        /\ parts[last].text = text
        /\ text \in Seq(Talk)
    BY <1>1, <1>3, <1>4 DEF IsLastText
  <1>6. PICK new : new = <<ReportOf(text)>> \o Tail(text)
    OBVIOUS
  <1>7. PICK Talk2 : Talk2 = Talk \cup {ReportOf(text)}
    OBVIOUS
  <1>8. new \in Seq(Talk2) /\ \A w \in ToSet(text) : w = text[1] \/ w \in ToSet(new)
    BY <1>5, <1>6, <1>7, RetoldText
  <1>9. PICK parts2 : parts2 = [parts EXCEPT ![last] = Retold(parts[last], new)]
    OBVIOUS
  <1>10. Talk \subseteq Talk2
    BY <1>7
  <1>11. /\ parts2 \in Seq(PartsOf(Talk2, Tools))
         /\ \A D : PartsIn(parts2, D) => PartsIn(parts, D \cup {text[1]})
         /\ Plain(parts) => Plain(parts2)
    BY <1>5, <1>8, <1>9, <1>10, PartReplaced
  <1>12. PICK m : m = Message(messages[i].role, parts2)
    OBVIOUS
  <1>13. m \in MessagesOf(Talk2, Tools) /\ m.parts = parts2
    <2>1. messages[i].role \in Roles
      BY <1>5 DEF Roles
    <2> QED
      BY <1>11, <1>12, <2>1, MessageTyped
  <1>14. PICK ms : ms = [messages EXCEPT ![i] = m]
    OBVIOUS
  <1>15. MessagesOf(Talk, Tools) \subseteq MessagesOf(Talk2, Tools) /\ Seq(Talk) \subseteq Seq(Talk2)
    BY <1>10, PartsGrow
  <1>16. /\ ms \in Seq(MessagesOf(Talk2, Tools))
         /\ \A D, D2 : /\ Within(ms, D)
                       /\ D \subseteq D2 /\ (PartsIn(m.parts, D) => PartsIn(messages[i].parts, D2))
                       => Within(messages, D2)
         /\ AllPlain(messages) /\ Plain(m.parts) => AllPlain(ms)
    BY <1>2, <1>13, <1>14, <1>15, MessageReplaced
  <1>17. ReplaceLastUserText(messages, new) = ms
    <2>1. ReplaceLastUserText(messages, new) =
              [messages EXCEPT ![LastUser(messages)] =
                  Message(messages[LastUser(messages)].role,
                          [messages[LastUser(messages)].parts EXCEPT
                              ![Max({j \in DOMAIN messages[LastUser(messages)].parts :
                                        messages[LastUser(messages)].parts[j].kind = "text"})] =
                              Retold(messages[LastUser(messages)].parts[
                                         Max({j \in DOMAIN messages[LastUser(messages)].parts :
                                              messages[LastUser(messages)].parts[j].kind = "text"})],
                                     new)])]
      BY Zenon DEF ReplaceLastUserText
    <2>2. ReplaceLastUserText(messages, new) =
              [messages EXCEPT ![i] =
                  Message(messages[i].role,
                          [messages[i].parts EXCEPT
                              ![Max({j \in DOMAIN messages[i].parts : messages[i].parts[j].kind = "text"})] =
                              Retold(messages[i].parts[
                                         Max({j \in DOMAIN messages[i].parts :
                                              messages[i].parts[j].kind = "text"})],
                                     new)])]
      BY <1>5, <2>1, Zenon
    <2>3. ReplaceLastUserText(messages, new) =
              [messages EXCEPT ![i] =
                  Message(messages[i].role,
                          [parts EXCEPT
                              ![Max({j \in DOMAIN parts : parts[j].kind = "text"})] =
                              Retold(parts[Max({j \in DOMAIN parts : parts[j].kind = "text"})], new)])]
      BY <1>4, <2>2, Zenon
    <2>4. ReplaceLastUserText(messages, new) =
              [messages EXCEPT ![i] =
                  Message(messages[i].role, [parts EXCEPT ![last] = Retold(parts[last], new)])]
      BY <1>5, <2>3, Zenon
    <2>5. ReplaceLastUserText(messages, new) = [messages EXCEPT ![i] = Message(messages[i].role, parts2)]
      BY <1>9, <2>4, Zenon
    <2> QED
      BY <1>12, <1>14, <2>5, Zenon
  <1>18. Injected(ir, text) = Body(ir.system, ms)
    <2>1. Injected(ir, text) = [ir EXCEPT !.messages = ms]
      BY <1>1, <1>6, <1>17, Zenon DEF Injected, ReportOf
    <2>2. ir = [system |-> ir.system, messages |-> messages]
      BY <1>2 DEF Body
    <2>3. [ir EXCEPT !.messages = ms] = [system |-> ir.system, messages |-> ms]
      BY <2>2
    <2> QED
      BY <2>1, <2>3 DEF Body
  <1>19. Injected(ir, text) \in BodiesOf(Talk2, Tools)
    BY <1>2, <1>15, <1>16, <1>18, BodyTyped
  <1>20. ASSUME NEW D, SaidIn(Injected(ir, text), D)
         PROVE  SaidIn(ir, D \cup {text[1]})
    <2>1. (\A w \in ToSet(ir.system) : w \in D) /\ Within(ms, D)
      BY <1>18, <1>20 DEF SaidIn, Body
    <2>2. PICK D2 : D2 = D \cup {text[1]}
      OBVIOUS
    <2>3. D \subseteq D2 /\ (PartsIn(m.parts, D) => PartsIn(messages[i].parts, D2))
      BY <1>4, <1>11, <1>13, <2>2
    <2>4. Within(messages, D2)
      BY <1>16, <2>1, <2>3
    <2> QED
      BY <1>1, <2>1, <2>2, <2>4 DEF SaidIn
  <1>21. AllPlain(ir.messages) => AllPlain(Injected(ir, text).messages)
    <2>1. AllPlain(messages) => Plain(parts)
      BY <1>4 DEF AllPlain
    <2>2. Injected(ir, text).messages = ms
      BY <1>18 DEF Body
    <2> QED
      BY <1>1, <1>11, <1>13, <1>16, <2>1, <2>2
  <1> QED
    BY <1>5, <1>7, <1>19, <1>20, <1>21

-----------------------------------------------------------------------------
(* The warden.                                                               *)

\* What is said in a body, and nothing else, is the talk of its type.
LEMMA SaidTyped ==
    ASSUME NEW Talk, NEW Tools, AreTools(Tools), NEW b \in BodiesOf(Talk, Tools),
           NEW D, SaidIn(b, D)
    PROVE  b \in BodiesOf(D, Tools)
  <1> DEFINE M2 == MessagesOf(D, Tools)
  <1>1. /\ b.system \in Seq(Talk) /\ b.messages \in Seq(MessagesOf(Talk, Tools))
        /\ \A i \in DOMAIN b.messages :
             /\ b.messages[i] \in MessagesOf(Talk, Tools)
             /\ b.messages[i].role \in Roles
             /\ b.messages[i].parts \in Seq(PartsOf(Talk, Tools))
             /\ \A j \in DOMAIN b.messages[i].parts :
                   b.messages[i].parts[j] \in PartsOf(Talk, Tools)
    BY BodyIs
  <1>2. \A text \in Seq(Talk) : (\A w \in ToSet(text) : w \in D) => text \in Seq(D)
    <2> SUFFICES ASSUME NEW text \in Seq(Talk), \A w \in ToSet(text) : w \in D
                 PROVE  text \in Seq(D)
      OBVIOUS
    <2>1. \A k \in DOMAIN text : text[k] \in D
      BY DEF ToSet
    <2> QED
      BY <2>1
  <1>3. b.system \in Seq(D)
    BY <1>1, <1>2 DEF SaidIn
  <1>4. ASSUME NEW i \in DOMAIN b.messages
        PROVE  b.messages[i] \in M2
    <2> DEFINE parts == b.messages[i].parts
    <2>1. PartsIn(parts, D)
      BY DEF SaidIn, Within
    <2>2. ASSUME NEW j \in DOMAIN parts
          PROVE  parts[j] \in PartsOf(D, Tools)
      <3> DEFINE p == parts[j]
      <3>1. p \in PartsOf(Talk, Tools)
        BY <1>1
      <3>2. CASE p.kind \in TalkKinds
        <4>1. p \in TalkParts(Talk) /\ p.text \in Seq(Talk)
          BY <3>1, <3>2, PartIs
        <4>2. p.text \in Seq(D)
          BY <1>2, <2>1, <3>2, <4>1 DEF PartsIn
        <4>3. p \in TalkParts(D)
          <5> HIDE DEF p
          <5> QED
            BY <4>1, <4>2 DEF TalkParts
        <4> QED
          BY <4>3 DEF PartsOf
      <3>3. CASE p.kind \notin TalkKinds
        BY <3>1, <3>3, PartIs DEF PartsOf
      <3> QED
        BY <3>2, <3>3
    <2>3. parts \in Seq(PartsOf(D, Tools))
      <3> DEFINE P == PartsOf(Talk, Tools)
      <3> DEFINE Q == PartsOf(D, Tools)
      <3>1. parts \in Seq(P) /\ \A j \in DOMAIN parts : parts[j] \in Q
        BY <1>1, <2>2
      <3> HIDE DEF P, Q, parts
      <3>2. parts \in Seq(Q)
        BY <3>1
      <3> QED
        BY <3>2 DEF Q
    <2>4. b.messages[i] = Message(b.messages[i].role, parts) /\ b.messages[i].role \in Roles
      BY <1>1, MessageIs
    <2> HIDE DEF parts
    <2> QED
      BY <2>3, <2>4, MessageTyped
  <1>5. b.messages \in Seq(M2)
    <2> DEFINE M == MessagesOf(Talk, Tools)
    <2>1. b.messages \in Seq(M)
      BY <1>1
    <2> HIDE DEF M, M2
    <2> QED
      BY <1>4, <2>1
  <1>6. b = Body(b.system, b.messages)
    BY DEF BodiesOf, Body
  <1> QED
    BY <1>3, <1>5, <1>6, BodyTyped

\* The words of some texts.
WordsIn(fields) == UNION {ToSet(fields[k]) : k \in DOMAIN fields}

\* Everything said in a neutral body is scanned.
LEMMA FieldsHave ==
    ASSUME NEW Talk, NEW Tools, AreTools(Tools), NEW ir \in BodiesOf(Talk, Tools),
           AllPlain(ir.messages)
    PROVE  /\ Fields(ir) \in Seq(Seq(Talk))
           /\ SaidIn(ir, WordsIn(Fields(ir)))
           /\ ir.system # <<>> => ir.system \in ToSet(Fields(ir))
           /\ \A i \in DOMAIN ir.messages : \A j \in DOMAIN ir.messages[i].parts :
                 Scanned(ir.messages[i].parts[j]) =>
                    ir.messages[i].parts[j].text \in ToSet(Fields(ir))
  <1> DEFINE V == Seq(Talk)
  <1> DEFINE P == PartsOf(Talk, Tools)
  <1> DEFINE ScannedParts == {p \in P : Scanned(p)}
  <1>1. PICK parts : parts = AllParts(ir.messages)
    OBVIOUS
  <1>2. PICK places : places = {i \in DOMAIN parts : Scanned(parts[i])}
    OBVIOUS
  <1>3. PICK scanned : scanned = At(parts, places)
    OBVIOUS
  <1>4. PICK texts : texts = [i \in DOMAIN scanned |-> scanned[i].text]
    OBVIOUS
  <1>5. PICK first : first = IF ir.system = <<>> THEN <<>> ELSE <<ir.system>>
    OBVIOUS
  <1>6. Fields(ir) = first \o texts
    <2>1. Fields(ir) = (IF ir.system = <<>> THEN <<>> ELSE <<ir.system>>)
                       \o [i \in DOMAIN At(AllParts(ir.messages),
                                           {i \in DOMAIN AllParts(ir.messages) :
                                               Scanned(AllParts(ir.messages)[i])}) |->
                              At(AllParts(ir.messages),
                                 {k \in DOMAIN AllParts(ir.messages) :
                                     Scanned(AllParts(ir.messages)[k])})[i].text]
      BY Zenon DEF Fields
    <2>2. Fields(ir) = first \o [i \in DOMAIN At(parts, places) |-> At(parts, places)[i].text]
      BY <1>1, <1>2, <1>5, <2>1, Zenon
    <2> QED
      BY <1>3, <1>4, <2>2, Zenon
  <1>7. /\ ir.system \in Seq(Talk) /\ ir.messages \in Seq(MessagesOf(Talk, Tools))
    BY BodyIs
  <1>8. /\ parts \in Seq(P)
        /\ \A i \in DOMAIN ir.messages : \A j \in DOMAIN ir.messages[i].parts :
              ir.messages[i].parts[j] \in ToSet(parts)
    BY <1>1, <1>7, AllPartsTyped
  <1>9. scanned \in Seq(ScannedParts)
    <2>1. \A i \in DOMAIN parts : i \in places => parts[i] \in ScannedParts
      <3>1. \A i \in DOMAIN parts : parts[i] \in P
        <4> HIDE DEF P
        <4> QED
          BY <1>8
      <3> QED
        BY <1>2, <3>1
    <2> HIDE DEF P, ScannedParts
    <2> QED
      BY <1>3, <1>8, <2>1, AtTyped
  <1>10. \A p \in ScannedParts : p.text \in V
    <2> SUFFICES ASSUME NEW p \in ScannedParts PROVE p.text \in V
      OBVIOUS
    <2>1. p \in P /\ p.kind \in TalkKinds
      BY DEF Scanned, TalkKinds
    <2> QED
      BY <2>1, PartIs
  <1> HIDE DEF V, P, ScannedParts
  <1>11. texts \in Seq(V) /\ DOMAIN texts = DOMAIN scanned
    <2>1. \A i \in DOMAIN scanned : scanned[i] \in ScannedParts
      BY <1>9
    <2>2. texts \in [DOMAIN scanned -> V]
      BY <1>4, <1>10, <2>1
    <2> QED
      BY <1>9, <2>2, MapTyped
  <1>12. first \in Seq(V)
    <2>1. ir.system \in V
      BY <1>7 DEF V
    <2> QED
      BY <1>5, <2>1
  <1>13. PICK fields : fields = Fields(ir)
    OBVIOUS
  <1>14. /\ fields \in Seq(V) /\ DOMAIN fields = 1..(Len(first) + Len(texts))
         /\ DOMAIN texts = 1..Len(texts) /\ Len(first) \in Nat /\ Len(texts) \in Nat
         /\ DOMAIN first = 1..Len(first)
         /\ \A i \in 1..Len(first) : fields[i] = first[i]
         /\ \A i \in 1..Len(texts) : fields[Len(first) + i] = texts[i]
    <2>1. first \in Seq(V) /\ texts \in Seq(V)
      BY <1>11, <1>12
    <2> QED
      BY <1>6, <1>13, <2>1, ConcatIs
  <1>15. ASSUME NEW w \in ToSet(ir.system)
         PROVE  w \in WordsIn(fields)
    <2>1. ir.system # <<>>
      BY <1>15 DEF ToSet
    <2>2. first = <<ir.system>>
      BY <1>5, <2>1
    <2>3. 1 \in 1..Len(first) /\ first[1] = ir.system
      BY <2>2
    <2>4. 1 \in DOMAIN fields /\ fields[1] = ir.system
      BY <1>14, <2>3
    <2> QED
      BY <1>15, <2>4 DEF WordsIn
  <1>16. ASSUME NEW i \in DOMAIN ir.messages, NEW j \in DOMAIN ir.messages[i].parts,
                ir.messages[i].parts[j].kind \in TalkKinds,
                NEW w \in ToSet(ir.messages[i].parts[j].text)
         PROVE  w \in WordsIn(fields)
    <2>1. PICK p : p = ir.messages[i].parts[j]
      OBVIOUS
    <2>2. p.kind \in {"text", "reasoning"}
      BY <1>16, <2>1 DEF AllPlain, Plain, TalkKinds
    <2>3. p.text # <<>>
      BY <1>16, <2>1 DEF ToSet
    <2>4. Scanned(p)
      BY <2>2, <2>3 DEF Scanned
    <2>5. PICK k \in DOMAIN parts : parts[k] = p
      BY <1>8, <2>1 DEF ToSet
    <2>6. k \in places
      BY <1>2, <2>4, <2>5
    <2>7. p \in ToSet(scanned)
      BY <1>3, <1>8, <2>5, <2>6, AtHas
    <2>8. PICK l \in DOMAIN scanned : scanned[l] = p
      BY <2>7 DEF ToSet
    <2>9. l \in 1..Len(texts) /\ texts[l] = p.text
      BY <1>4, <1>11, <1>14, <2>8
    <2>10. Len(first) + l \in DOMAIN fields /\ fields[Len(first) + l] = p.text
      BY <1>14, <2>9
    <2> QED
      BY <1>16, <2>1, <2>10 DEF WordsIn
  <1>17. SaidIn(ir, WordsIn(fields))
    BY <1>15, <1>16 DEF SaidIn, Within, PartsIn
  <1>18. ir.system # <<>> => ir.system \in ToSet(fields)
    <2> SUFFICES ASSUME ir.system # <<>> PROVE ir.system \in ToSet(fields)
      OBVIOUS
    <2>1. first = <<ir.system>>
      BY <1>5
    <2>2. 1 \in 1..Len(first) /\ first[1] = ir.system
      BY <2>1
    <2>3. 1 \in DOMAIN fields /\ fields[1] = ir.system
      BY <1>14, <2>2
    <2> QED
      BY <2>3 DEF ToSet
  <1>19. ASSUME NEW i \in DOMAIN ir.messages, NEW j \in DOMAIN ir.messages[i].parts,
                Scanned(ir.messages[i].parts[j])
         PROVE  ir.messages[i].parts[j].text \in ToSet(fields)
    <2>1. PICK p : p = ir.messages[i].parts[j]
      OBVIOUS
    <2>2. PICK k \in DOMAIN parts : parts[k] = p
      BY <1>8, <2>1 DEF ToSet
    <2>3. k \in places
      BY <1>2, <1>19, <2>1, <2>2
    <2>4. p \in ToSet(scanned)
      BY <1>3, <1>8, <2>2, <2>3, AtHas
    <2>5. PICK l \in DOMAIN scanned : scanned[l] = p
      BY <2>4 DEF ToSet
    <2>6. l \in 1..Len(texts) /\ texts[l] = p.text
      BY <1>4, <1>11, <1>14, <2>5
    <2>7. Len(first) + l \in DOMAIN fields /\ fields[Len(first) + l] = p.text
      BY <1>14, <2>6
    <2> QED
      BY <2>1, <2>7 DEF ToSet
  <1> QED
    BY <1>13, <1>14, <1>17, <1>18, <1>19 DEF V

\* The values found in some texts, and those the warden acts on.
FoundIn(text) == {Findings(text)[i].value : i \in DOMAIN text}
FoundAt(fields) == UNION {FoundIn(fields[k]) : k \in DOMAIN fields}
Acted(fields) ==
    {f.value : f \in {g \in UNION {ToSet(Findings(fields[k])) : k \in DOMAIN fields} : ActsOn(g)}}

\* A score is a natural number.
LEMMA ScoresAre ==
    /\ \A type : ScoreOf(type) \in Nat
    /\ \A text, i : ValueScore(text, i) \in Nat
    /\ \A text, canon, i : PhraseScore(text, canon, i) \in Nat
  <1>1. \A type : ScoreOf(type) \in Nat
    BY ScoresAssumption DEF ScoreOf
  <1>2. ASSUME NEW text, NEW i PROVE ValueScore(text, i) \in Nat
    <2>1. PICK s \in Nat : s = ScoreOf(text[i][2])
      BY <1>1
    <2>2. ValueScore(text, i) = IF Is(text[i], "value") /\ <<text[i][2], text>> \notin Panics
                                THEN s + IF KeywordNear(text, i) THEN 20 ELSE 0 ELSE 0
      BY <2>1, Zenon DEF ValueScore, KeywordBonus
    <2> QED
      BY <2>2
  <1>3. ASSUME NEW text, NEW canon, NEW i PROVE PhraseScore(text, canon, i) \in Nat
    BY <1>1 DEF PhraseScore
  <1> QED
    BY <1>1, <1>2, <1>3

\* What is found at a place: the phrase of the canonical copy if it scores more,
\* or else what the text has.
LEMMA FindingIs ==
    ASSUME NEW text, NEW i \in DOMAIN text
    PROVE  /\ DOMAIN Findings(text) = DOMAIN text
           /\ \E n \in Nat : Findings(text)[i].score = n /\ n >= ValueScore(text, i)
           /\ \/ Findings(text)[i] = [value |-> text[i], score |-> ValueScore(text, i)]
              \/ /\ Findings(text)[i].value[1] = "phrase"
                 /\ Findings(text)[i].score > ValueScore(text, i)
  <1>1. PICK canon : canon = Canonical(text)
    OBVIOUS
  <1>2. PICK p \in Nat : p = PhraseScore(text, canon, i)
    BY ScoresAre
  <1>3. PICK v \in Nat : v = ValueScore(text, i)
    BY ScoresAre
  <1>4. Findings(text) = [k \in DOMAIN text |->
                            IF PhraseScore(text, canon, k) > ValueScore(text, k)
                            THEN Finding(canon[k], PhraseScore(text, canon, k))
                            ELSE Finding(text[k], ValueScore(text, k))]
    BY <1>1, Zenon DEF Findings
  <1>5. /\ DOMAIN Findings(text) = DOMAIN text
        /\ Findings(text)[i] = IF p > v THEN Finding(canon[i], p) ELSE Finding(text[i], v)
    BY <1>2, <1>3, <1>4
  <1>6. CASE p > v
    <2>1. Findings(text)[i] = [value |-> canon[i], score |-> p]
      BY <1>5, <1>6 DEF Finding
    <2>2. PhraseScore(text, canon, i) # 0
      BY <1>2, <1>3, <1>6
    <2>3. Is(canon[i], "phrase")
      BY <2>2 DEF PhraseScore
    <2> QED
      BY <1>2, <1>3, <1>5, <1>6, <2>1, <2>3 DEF Is
  <1>7. CASE ~(p > v)
    <2>1. Findings(text)[i] = [value |-> text[i], score |-> v]
      BY <1>5, <1>7 DEF Finding
    <2> QED
      BY <1>3, <1>5, <2>1
  <1> QED
    BY <1>6, <1>7

\* A value that is sure is acted on, in a text on which no inspector panics.
LEMMA SureFound ==
    ASSUME NEW text, NEW i \in DOMAIN text, Sure(text[i]), ~Panicked(text)
    PROVE  ActsOn(Findings(text)[i])
  <1>1. <<text[i][2], text>> \notin Panics
    <2>1. PICK type : type = text[i][2]
      OBVIOUS
    <2>2. ASSUME <<type, text>> \in Panics PROVE FALSE
      <3>1. PICK panic : panic = <<type, text>>
        OBVIOUS
      <3>2. panic[2] = text /\ panic \in Panics
        BY <2>2, <3>1
      <3> QED
        BY <3>2 DEF Panicked
    <2> QED
      BY <2>1, <2>2
  <1>2. PICK s \in Nat : s = ScoreOf(text[i][2])
    BY ScoresAre
  <1>3. ValueScore(text, i) = s + IF KeywordNear(text, i) THEN 20 ELSE 0
    BY <1>1, <1>2, Zenon DEF ValueScore, Sure, KeywordBonus
  <1>4. s >= 60
    BY <1>2, Zenon DEF Sure
  <1>5. PICK v \in Nat : v = ValueScore(text, i) /\ v >= 60
    <2>1. PICK bonus : bonus = IF KeywordNear(text, i) THEN 20 ELSE 0
      OBVIOUS
    <2>2. bonus \in Nat
      BY <2>1
    <2> QED
      BY <1>3, <1>4, <2>1, <2>2
  <1>6. PICK n \in Nat : Findings(text)[i].score = n /\ n >= v
    BY <1>5, FindingIs
  <1>7. n >= 60
    BY <1>5, <1>6
  <1> QED
    BY <1>6, <1>7 DEF ActsOn

\* What is acted on is a value or a phrase.
LEMMA ActedIs ==
    ASSUME NEW fields
    PROVE  /\ \A w \in Acted(fields) : w[1] # "args"
           /\ \A k \in DOMAIN fields : \A i \in DOMAIN fields[k] :
                 ActsOn(Findings(fields[k])[i]) => Findings(fields[k])[i].value \in Acted(fields)
  <1>1. ASSUME NEW w \in Acted(fields)
        PROVE  w[1] # "args"
    <2>1. PICK f \in UNION {ToSet(Findings(fields[k])) : k \in DOMAIN fields} :
              ActsOn(f) /\ w = f.value
      BY DEF Acted
    <2>2. PICK k \in DOMAIN fields : f \in ToSet(Findings(fields[k]))
      BY <2>1
    <2>3. PICK text : text = fields[k]
      OBVIOUS
    <2>4. PICK i \in DOMAIN Findings(text) : f = Findings(text)[i]
      BY <2>2, <2>3 DEF ToSet
    <2>5. i \in DOMAIN text
      BY <2>4 DEF Findings
    <2>6. CASE f = [value |-> text[i], score |-> ValueScore(text, i)]
      <3>1. ValueScore(text, i) >= 60
        BY <2>1, <2>6 DEF ActsOn
      <3>2. ValueScore(text, i) # 0
        BY <3>1
      <3>3. Is(text[i], "value")
        BY <3>2 DEF ValueScore
      <3> QED
        BY <2>1, <2>6, <3>3 DEF Is
    <2>7. CASE f.value[1] = "phrase"
      BY <2>1, <2>7
    <2> QED
      BY <2>4, <2>5, <2>6, <2>7, FindingIs
  <1>2. ASSUME NEW k \in DOMAIN fields, NEW i \in DOMAIN fields[k],
               ActsOn(Findings(fields[k])[i])
        PROVE  Findings(fields[k])[i].value \in Acted(fields)
    <2>1. PICK found : found = Findings(fields[k])
      OBVIOUS
    <2>2. i \in DOMAIN found
      BY <2>1, FindingIs
    <2>3. found[i] \in ToSet(Findings(fields[k]))
      BY <2>1, <2>2 DEF ToSet
    <2>4. found[i] \in {g \in UNION {ToSet(Findings(fields[m])) : m \in DOMAIN fields} : ActsOn(g)}
      BY <1>2, <2>1, <2>3
    <2> QED
      BY <2>1, <2>4 DEF Acted
  <1> QED
    BY <1>1, <1>2

\* A sure value of the scanned texts is among those acted on, if no inspector
\* panicked and no finding is in the wrong place.
LEMMA SureActed ==
    ASSUME NEW fields, \A k \in DOMAIN fields : ~Panicked(fields[k]) /\ ~Misplaced(fields[k]),
           NEW w \in WordsIn(fields), Sure(w)
    PROVE  w \in Acted(fields)
  <1>1. PICK k \in DOMAIN fields : w \in ToSet(fields[k])
    BY DEF WordsIn
  <1>2. PICK text : text = fields[k]
    OBVIOUS
  <1>3. PICK i \in DOMAIN text : w = text[i]
    BY <1>1, <1>2 DEF ToSet
  <1>4. ActsOn(Findings(text)[i])
    BY <1>2, <1>3, SureFound
  <1>5. Findings(text)[i].value = Listed(w)
    BY <1>2, <1>3, <1>4 DEF Misplaced
  <1>6. Listed(w) = w
    BY DEF Listed, Sure, Is
  <1> QED
    BY <1>2, <1>3, <1>4, <1>5, <1>6, ActedIs

\* What is put in the place of a word is never a sure value, nor a marker.
LEMMA ReplacementIs ==
    ASSUME NEW mode, NEW vault, NEW w
    PROVE  /\ ~Sure(Replacement(mode, vault, w))
           /\ Replacement(mode, vault, w)[1] \notin {"hash", "omitted"}
  <1>1. CASE mode = "tokenize"
    <2>1. PICK a, b : Replacement(mode, vault, w) = <<"token", a, b>>
      BY <1>1 DEF Replacement, Tokenize, Token
    <2>2. Replacement(mode, vault, w)[1] = "token"
      BY <2>1
    <2> QED
      BY <2>2 DEF Sure, Is
  <1>2. CASE mode # "tokenize"
    <2>1. Replacement(mode, vault, w) = <<"mask", w[2], 0>>
      BY <1>2 DEF Replacement, Mask
    <2>2. Replacement(mode, vault, w)[1] = "mask"
      BY <2>1
    <2> QED
      BY <2>2 DEF Sure, Is
  <1> QED
    BY <1>1, <1>2

\* The talk that is left when some words are replaced.
Replaced(Talk, S, mode, vault) ==
    {w \in Talk : w \notin S} \cup {Replacement(mode, vault, w) : w \in S}

\* A text with the replacements of some words.
Substituted(text, S, mode, vault) ==
    [i \in DOMAIN text |-> IF text[i] \in S THEN Replacement(mode, vault, text[i]) ELSE text[i]]

\* It has the talk that is left, and no marker of the compressor is new.
LEMMA SubstitutedTyped ==
    ASSUME NEW Talk, NEW text \in Seq(Talk), NEW S, NEW mode, NEW vault
    PROVE  /\ Substituted(text, S, mode, vault) \in Seq(Replaced(Talk, S, mode, vault))
           /\ \A w \in ToSet(Substituted(text, S, mode, vault)) :
                 w \in ToSet(text) \/ w[1] \notin {"hash", "omitted"}
  <1> DEFINE T == Replaced(Talk, S, mode, vault)
  <1> DEFINE out == Substituted(text, S, mode, vault)
  <1>1. \A i \in DOMAIN text : text[i] \in Talk
    OBVIOUS
  <1>2. \A i \in DOMAIN text : out[i] \in T
    BY <1>1 DEF Substituted, Replaced
  <1>3. out = [i \in DOMAIN text |-> out[i]]
    BY DEF Substituted
  <1>4. \A i \in DOMAIN text : out[i] = text[i] \/ out[i] = Replacement(mode, vault, text[i])
    BY DEF Substituted
  <1>5. DOMAIN out = DOMAIN text
    BY DEF Substituted
  <1> HIDE DEF T, out
  <1>6. out \in [DOMAIN text -> T]
    BY <1>2, <1>3
  <1>7. out \in Seq(T)
    BY <1>6, MapTyped
  <1>8. \A w \in ToSet(out) : w \in ToSet(text) \/ w[1] \notin {"hash", "omitted"}
    BY <1>4, <1>5, ReplacementIs DEF ToSet
  <1> QED
    BY <1>7, <1>8 DEF T, out

\* A text without any of the words stays.
LEMMA SubstitutedSame ==
    ASSUME NEW Talk, NEW text \in Seq(Talk), NEW S, NEW mode, NEW vault,
           \A w \in ToSet(text) : w \notin S
    PROVE  Substituted(text, S, mode, vault) = text
  <1>1. \A i \in DOMAIN text : text[i] \notin S
    BY DEF ToSet
  <1>2. text = [i \in DOMAIN text |-> text[i]]
    OBVIOUS
  <1> QED
    BY <1>1, <1>2 DEF Substituted

\* A sanitized text has the words the warden leaves and its replacements. No value
\* that is sure is left, unless an inspector panicked or the mode is to replace none.
LEMMA SanitizeTyped ==
    ASSUME NEW Talk, NEW text \in Seq(Talk), NEW mode, NEW vault, NEW V, FoundIn(text) \subseteq V,
           NEW clean, clean => mode # "block_only" /\ ~Panicked(text)
    PROVE  Sanitize(mode, vault, text) \in
               Seq({w \in Talk : clean => ~Sure(w)} \cup {Replacement(mode, vault, v) : v \in V})
  <1>1. PICK T : T = {w \in Talk : clean => ~Sure(w)} \cup {Replacement(mode, vault, v) : v \in V}
    OBVIOUS
  <1>2. PICK out : out = Sanitize(mode, vault, text)
    OBVIOUS
  <1>3. PICK found : found = Findings(text)
    OBVIOUS
  <1>4. out = [i \in DOMAIN text |->
                  IF mode # "block_only" /\ ActsOn(found[i])
                  THEN Replacement(mode, vault, found[i].value) ELSE text[i]]
    BY <1>2, <1>3, Zenon DEF Sanitize
  <1>5. ASSUME NEW i \in DOMAIN text
        PROVE  out[i] \in T
    <2>1. text[i] \in Talk
      OBVIOUS
    <2>2. CASE mode # "block_only" /\ ActsOn(found[i])
      <3>1. out[i] = Replacement(mode, vault, found[i].value)
        BY <1>4, <2>2
      <3>2. found[i].value \in V
        BY <1>3 DEF FoundIn
      <3> QED
        BY <1>1, <3>1, <3>2
    <2>3. CASE ~(mode # "block_only" /\ ActsOn(found[i]))
      <3>1. out[i] = text[i]
        BY <1>4, <2>3
      <3>2. clean => ~Sure(text[i])
        BY <1>3, <2>3, SureFound
      <3> QED
        BY <1>1, <2>1, <3>1, <3>2
    <2> QED
      BY <2>2, <2>3
  <1>6. out \in [DOMAIN text -> T]
    BY <1>4, <1>5
  <1>7. out \in Seq(T)
    BY <1>6, MapTyped
  <1> QED
    BY <1>1, <1>2, <1>7

\* An empty text stays empty.
LEMMA SanitizeNone ==
    ASSUME NEW mode, NEW vault, NEW T
    PROVE  Sanitize(mode, vault, <<>>) \in Seq(T)
  <1>1. DOMAIN Sanitize(mode, vault, <<>>) = {}
    BY DEF Sanitize
  <1>2. Sanitize(mode, vault, <<>>) = [i \in DOMAIN Sanitize(mode, vault, <<>>) |->
                                         Sanitize(mode, vault, <<>>)[i]]
    BY DEF Sanitize
  <1>3. Sanitize(mode, vault, <<>>) \in [DOMAIN <<>> -> T]
    BY <1>1, <1>2
  <1>4. <<>> \in Seq(T)
    OBVIOUS
  <1> QED
    BY <1>3, <1>4, MapTyped

SanitizedPart(p, mode, vault) == IF Scanned(p) THEN Retold(p, Sanitize(mode, vault, p.text)) ELSE p
MirroredPart(p, S, mode, vault) == Retold(p, Substituted(p.text, S, mode, vault))

\* Sanitizing goes part by part.
LEMMA SanitizedFits ==
    ASSUME NEW ir, NEW mode, NEW vault
    PROVE  \E out : /\ SanitizedBody(ir, mode, vault) = Body(Sanitize(mode, vault, ir.system), out)
                    /\ Fits(out, ir.messages)
                    /\ \A i \in DOMAIN ir.messages : \A j \in DOMAIN ir.messages[i].parts :
                          out[i].parts[j] = SanitizedPart(ir.messages[i].parts[j], mode, vault)
  <1> DEFINE New(p) == SanitizedPart(p, mode, vault)
  <1> DEFINE out == EachPart(ir.messages, New)
  <1>1. SanitizedBody(ir, mode, vault) = Body(Sanitize(mode, vault, ir.system), out)
    BY DEF SanitizedBody, Rewritten, SanitizedPart
  <1>2. Fits(out, ir.messages)
    BY MessageFields DEF EachPart, Fits
  <1>3. \A i \in DOMAIN ir.messages : \A j \in DOMAIN ir.messages[i].parts :
            out[i].parts[j] = New(ir.messages[i].parts[j])
    BY MessageFields DEF EachPart
  <1> HIDE DEF out
  <1> QED
    BY <1>1, <1>2, <1>3

\* Messages made part by part fit.
MapOver(f, D) == f = [j \in D |-> f[j]]

\* They fit.
LEMMA MadeFits ==
    ASSUME NEW messages, NEW out, NEW g,
           out = [i \in DOMAIN messages |-> Message(messages[i].role, g[i])],
           \A i \in DOMAIN messages : MapOver(g[i], DOMAIN messages[i].parts)
    PROVE  Fits(out, messages) /\ \A i \in DOMAIN messages : out[i].parts = g[i]
  <1>1. \A i \in DOMAIN messages : out[i] = Message(messages[i].role, g[i]) /\ out[i].parts = g[i]
    BY MessageFields
  <1>2. out = [i \in DOMAIN messages |-> out[i]]
    OBVIOUS
  <1>3. \A i \in DOMAIN messages : out[i] = Message(messages[i].role, out[i].parts)
    BY <1>1
  <1>4. \A i \in DOMAIN messages :
            out[i].parts = [j \in DOMAIN messages[i].parts |-> out[i].parts[j]]
    BY <1>1 DEF MapOver
  <1> QED
    BY <1>1, <1>2, <1>3, <1>4 DEF Fits

\* So does rewriting the bytes of the client.
LEMMA MirrorFits ==
    ASSUME NEW raw, NEW mode, NEW vault, NEW S
    PROVE  \E out : /\ Mirror(raw, mode, vault, S) = Body(Substituted(raw.system, S, mode, vault), out)
                    /\ Fits(out, raw.messages)
                    /\ \A i \in DOMAIN raw.messages : \A j \in DOMAIN raw.messages[i].parts :
                          out[i].parts[j] = MirroredPart(raw.messages[i].parts[j], S, mode, vault)
  <1>0. PICK messages : messages = raw.messages
    OBVIOUS
  <1> DEFINE New(p) == MirroredPart(p, S, mode, vault)
  <1> DEFINE out == EachPart(messages, New)
  <1>1. Mirror(raw, mode, vault, S) = Body(Substituted(raw.system, S, mode, vault), out)
    BY <1>0 DEF Mirror, Rewritten, Substituted, MirroredPart
  <1> DEFINE g == [i \in DOMAIN messages |->
                     [j \in DOMAIN messages[i].parts |-> New(messages[i].parts[j])]]
  <1>4. out = [i \in DOMAIN messages |-> Message(messages[i].role, g[i])]
    BY DEF EachPart
  <1>5. \A i \in DOMAIN messages : MapOver(g[i], DOMAIN messages[i].parts)
    BY DEF MapOver
  <1>6. \A i \in DOMAIN messages : \A j \in DOMAIN messages[i].parts :
            g[i][j] = New(messages[i].parts[j])
    OBVIOUS
  <1> HIDE DEF g, out, New
  <1>2. Fits(out, messages) /\ \A i \in DOMAIN messages : out[i].parts = g[i]
    BY <1>4, <1>5, MadeFits
  <1>3. \A i \in DOMAIN messages : \A j \in DOMAIN messages[i].parts :
            out[i].parts[j] = MirroredPart(messages[i].parts[j], S, mode, vault)
    BY <1>2, <1>6 DEF New
  <1> HIDE DEF out
  <1> QED
    BY <1>0, <1>1, <1>2, <1>3

\* When all of those words are replaced, no value that is sure is left.
LEMMA CleanIs ==
    ASSUME NEW Talk, NEW S, NEW mode, NEW vault, \A w \in Talk : Sure(w) => w \in S
    PROVE  \A w \in Replaced(Talk, S, mode, vault) : ~Sure(w)
  BY ReplacementIs DEF Replaced

\* A sanitized request has the words the warden leaves and its replacements.
LEMMA SanitizedTyped ==
    ASSUME NEW Talk, NEW Tools, AreTools(Tools), NEW ir \in BodiesOf(Talk, Tools),
           AllPlain(ir.messages), NEW mode, NEW vault, NEW clean,
           clean => /\ mode # "block_only"
                    /\ \A k \in DOMAIN Fields(ir) : ~Panicked(Fields(ir)[k])
    PROVE  \E T : /\ SanitizedBody(ir, mode, vault) \in BodiesOf(T, Tools)
                  /\ clean => \A w \in T : ~Sure(w)
  <1>a. PICK fields : fields = Fields(ir)
    OBVIOUS
  <1>b. PICK V : V = FoundAt(fields)
    OBVIOUS
  <1>1. PICK T : T = {w \in Talk : clean => ~Sure(w)} \cup {Replacement(mode, vault, v) : v \in V}
    OBVIOUS
  <1>2. PICK messages : messages = ir.messages
    OBVIOUS
  <1>3. /\ ir.system \in Seq(Talk) /\ messages \in Seq(MessagesOf(Talk, Tools))
        /\ \A i \in DOMAIN messages : \A j \in DOMAIN messages[i].parts :
              messages[i].parts[j] \in PartsOf(Talk, Tools)
    BY <1>2, BodyIs
  <1>4. PICK out : /\ SanitizedBody(ir, mode, vault) = Body(Sanitize(mode, vault, ir.system), out)
                   /\ Fits(out, messages)
                   /\ \A i \in DOMAIN messages : \A j \in DOMAIN messages[i].parts :
                         out[i].parts[j] = SanitizedPart(messages[i].parts[j], mode, vault)
    BY <1>2, SanitizedFits
  <1>c. /\ ir.system # <<>> => ir.system \in ToSet(fields)
        /\ \A i \in DOMAIN messages : \A j \in DOMAIN messages[i].parts :
              Scanned(messages[i].parts[j]) => messages[i].parts[j].text \in ToSet(fields)
    BY <1>2, <1>a, FieldsHave
  <1>5. \A text \in Seq(Talk) : text \in ToSet(fields) => Sanitize(mode, vault, text) \in Seq(T)
    <2> SUFFICES ASSUME NEW text \in Seq(Talk), text \in ToSet(fields)
                 PROVE  Sanitize(mode, vault, text) \in Seq(T)
      OBVIOUS
    <2>1. PICK k \in DOMAIN fields : fields[k] = text
      BY DEF ToSet
    <2>2. FoundIn(text) \subseteq V
      BY <1>b, <2>1 DEF FoundAt
    <2>3. clean => mode # "block_only" /\ ~Panicked(text)
      BY <1>a, <2>1
    <2>4. Sanitize(mode, vault, text) \in
              Seq({w \in Talk : clean => ~Sure(w)} \cup {Replacement(mode, vault, v) : v \in V})
      BY <2>2, <2>3, SanitizeTyped
    <2> QED
      BY <1>1, <2>4, Zenon
  <1>6. ASSUME NEW i \in DOMAIN messages, NEW j \in DOMAIN messages[i].parts
        PROVE  out[i].parts[j] \in PartsOf(T, Tools)
    <2>1. PICK p : p = messages[i].parts[j]
      OBVIOUS
    <2>2. p \in PartsOf(Talk, Tools) /\ p.kind \in {"text", "reasoning", "call", "result"}
      BY <1>2, <1>3, <2>1 DEF AllPlain, Plain
    <2>3. out[i].parts[j] = SanitizedPart(p, mode, vault)
      BY <1>4, <2>1
    <2>4. CASE p.kind \in {"call", "result"}
      <3>1. p \in Tools
        BY <2>2, <2>4, PartIs DEF TalkKinds
      <3>2. SanitizedPart(p, mode, vault) = p
        BY <2>4 DEF SanitizedPart, Scanned
      <3> QED
        BY <2>3, <3>1, <3>2 DEF PartsOf
    <2>5. CASE p.kind \in {"text", "reasoning"}
      <3>1. p \in TalkParts(Talk) /\ p.text \in Seq(Talk)
        BY <2>2, <2>5, PartIs DEF TalkKinds
      <3>2. CASE p.text = <<>>
        <4>1. SanitizedPart(p, mode, vault) = p
          BY <3>2 DEF SanitizedPart, Scanned
        <4>2. p \in TalkParts(T)
          <5>1. p.text \in Seq(T)
            BY <3>2
          <5> QED
            BY <3>1, <5>1 DEF TalkParts
        <4> QED
          BY <2>3, <4>1, <4>2 DEF PartsOf
      <3>3. CASE p.text # <<>>
        <4>1. SanitizedPart(p, mode, vault) = Retold(p, Sanitize(mode, vault, p.text))
          BY <2>5, <3>3 DEF SanitizedPart, Scanned
        <4>2. Sanitize(mode, vault, p.text) \in Seq(T)
          <5>1. p.text \in ToSet(fields)
            BY <1>c, <2>1, <2>5, <3>3 DEF Scanned
          <5> QED
            BY <1>5, <3>1, <5>1
        <4>3. Retold(p, Sanitize(mode, vault, p.text)) \in TalkParts(T)
          BY <3>1, <4>2, RetoldIs
        <4> QED
          BY <2>3, <4>1, <4>3 DEF PartsOf
      <3> QED
        BY <3>2, <3>3
    <2> QED
      BY <2>2, <2>4, <2>5
  <1>7. out \in Seq(MessagesOf(T, Tools))
    <2>1. PICK P2 : P2 = PartsOf(T, Tools)
      OBVIOUS
    <2>2. \A i \in DOMAIN messages : \A j \in DOMAIN messages[i].parts : out[i].parts[j] \in P2
      BY <1>6, <2>1
    <2>3. out \in Seq([role : Roles, parts : Seq(P2)])
      BY <1>3, <1>4, <2>2, EachTyped
    <2> QED
      BY <2>1, <2>3 DEF MessagesOf
  <1>8. Sanitize(mode, vault, ir.system) \in Seq(T)
    BY <1>3, <1>5, <1>c, SanitizeNone
  <1>9. clean => \A w \in T : ~Sure(w)
    BY <1>1, ReplacementIs
  <1>10. SanitizedBody(ir, mode, vault) \in BodiesOf(T, Tools)
    BY <1>4, <1>7, <1>8, BodyTyped
  <1> QED
    BY <1>9, <1>10

\* The client's bytes with the substitutions made.
LEMMA MirrorTyped ==
    ASSUME NEW Talk, NEW R, \A t \in R : t \in Seq(ToSet(t)), NEW raw \in BodiesOf(Talk, ToolsOf(R)),
           NEW mode, NEW vault, NEW S, \A w \in S : w[1] # "args"
    PROVE  Mirror(raw, mode, vault, S) \in BodiesOf(Replaced(Talk, S, mode, vault),
                                                    ToolsOf({Substituted(t, S, mode, vault) : t \in R}))
  <1>1. PICK T : T = Replaced(Talk, S, mode, vault)
    OBVIOUS
  <1>2. PICK messages : messages = raw.messages
    OBVIOUS
  <1>a. PICK R2 : R2 = {Substituted(t, S, mode, vault) : t \in R}
    OBVIOUS
  <1>b. AreTools(ToolsOf(R))
    BY ToolIs
  <1>3. /\ raw.system \in Seq(Talk) /\ messages \in Seq(MessagesOf(Talk, ToolsOf(R)))
        /\ \A i \in DOMAIN messages : \A j \in DOMAIN messages[i].parts :
              messages[i].parts[j] \in PartsOf(Talk, ToolsOf(R))
    BY <1>2, BodyIs
  <1>4. PICK out : /\ Mirror(raw, mode, vault, S) = Body(Substituted(raw.system, S, mode, vault), out)
                   /\ Fits(out, messages)
                   /\ \A i \in DOMAIN messages : \A j \in DOMAIN messages[i].parts :
                         out[i].parts[j] = MirroredPart(messages[i].parts[j], S, mode, vault)
    BY <1>2, MirrorFits
  <1>5. \A text \in Seq(Talk) : Substituted(text, S, mode, vault) \in Seq(T)
    BY <1>1, SubstitutedTyped
  <1>6. ASSUME NEW i \in DOMAIN messages, NEW j \in DOMAIN messages[i].parts
        PROVE  out[i].parts[j] \in PartsOf(T, ToolsOf(R2))
    <2>1. PICK p : p = messages[i].parts[j]
      OBVIOUS
    <2>2. p \in PartsOf(Talk, ToolsOf(R))
      BY <1>3, <2>1
    <2>3. out[i].parts[j] = Retold(p, Substituted(p.text, S, mode, vault))
      BY <1>4, <2>1 DEF MirroredPart
    <2>4. CASE p.kind \notin TalkKinds
      <3>1. p \in ToolsOf(R)
        BY <1>b, <2>2, <2>4, PartIs
      <3>2. CASE p.kind = "call"
        <4>1. p \in CallParts
          BY <3>1, <3>2, ToolIs
        <4>2. PICK n \in Nat, name \in {"read", "write"} : p = Call(n, name, ArgsOf(n))
          BY <4>1 DEF CallParts
        <4>3. p = [kind |-> "call", text |-> ArgsOf(n), id |-> n, name |-> name, sig |-> NoSignature]
          BY <4>2 DEF Call, Part
        <4>4. Substituted(p.text, S, mode, vault) = p.text
          <5>a. PICK a : a = <<"args", "", n>>
            OBVIOUS
          <5>b. a[1] = "args" /\ p.text = <<a>>
            BY <4>3, <5>a DEF ArgsOf
          <5>1. PICK X : X = {a}
            OBVIOUS
          <5>2. p.text \in Seq(X)
            BY <5>b, <5>1
          <5>3. \A w \in ToSet(p.text) : w \in X
            BY <5>2, WordsOf
          <5>4. \A w \in X : w \notin S
            BY <5>1, <5>b
          <5> QED
            BY <5>2, <5>3, <5>4, SubstitutedSame
        <4>5. Retold(p, p.text) = p
          BY <4>3 DEF Retold
        <4> QED
          BY <2>3, <4>1, <4>4, <4>5 DEF PartsOf, ToolsOf
      <3>3. CASE p.kind = "result"
        <4>1. p \in ResultParts(R)
          BY <3>1, <3>3, ToolIs
        <4>2. PICK n \in Nat, t \in R : p = Result(n, t)
          BY <4>1 DEF ResultParts
        <4>3. p = [kind |-> "result", text |-> t, id |-> n, name |-> "", sig |-> NoSignature]
          BY <4>2 DEF Result, Part
        <4>4. PICK u : u = Substituted(t, S, mode, vault)
          OBVIOUS
        <4>5. out[i].parts[j] = Result(n, u)
          BY <2>3, <4>3, <4>4 DEF Retold, Result, Part
        <4>6. u \in R2
          BY <1>a, <4>4
        <4>7. Result(n, u) \in ResultParts(R2)
          BY <4>6 DEF ResultParts
        <4> QED
          BY <4>5, <4>7 DEF PartsOf, ToolsOf
      <3> QED
        BY <3>1, <3>2, <3>3, ToolIs
    <2>5. CASE p.kind \in TalkKinds
      <3>1. p \in TalkParts(Talk) /\ p.text \in Seq(Talk)
        BY <1>b, <2>2, <2>5, PartIs
      <3>2. Substituted(p.text, S, mode, vault) \in Seq(T)
        BY <1>5, <3>1
      <3>3. Retold(p, Substituted(p.text, S, mode, vault)) \in TalkParts(T)
        BY <3>1, <3>2, RetoldIs
      <3> QED
        BY <2>3, <3>3 DEF PartsOf
    <2> QED
      BY <2>4, <2>5
  <1>7. out \in Seq(MessagesOf(T, ToolsOf(R2)))
    <2>1. PICK P2 : P2 = PartsOf(T, ToolsOf(R2))
      OBVIOUS
    <2>2. \A i \in DOMAIN messages : \A j \in DOMAIN messages[i].parts : out[i].parts[j] \in P2
      BY <1>6, <2>1
    <2>3. out \in Seq([role : Roles, parts : Seq(P2)])
      BY <1>3, <1>4, <2>2, EachTyped
    <2> QED
      BY <2>1, <2>3 DEF MessagesOf
  <1>8. Substituted(raw.system, S, mode, vault) \in Seq(T)
    BY <1>3, <1>5
  <1> QED
    BY <1>1, <1>a, <1>4, <1>7, <1>8, BodyTyped

-----------------------------------------------------------------------------
(* The compressor. What is kept of a crushed text.                           *)

\* A set of sequences with the empty one that is closed under Append has all.
LEMMA SequenceInduction ==
    ASSUME NEW S, NEW R \in SUBSET Seq(S), <<>> \in R, \A s \in R, x \in S : Append(s, x) \in R
    PROVE  R = Seq(S)
  <1> DEFINE N == {n \in Nat : \A s \in Seq(S) : Len(s) = n => s \in R}
  <1>1. 0 \in N
    <2> SUFFICES ASSUME NEW s \in Seq(S), Len(s) = 0 PROVE s \in R
      OBVIOUS
    <2>1. s = <<>>
      OBVIOUS
    <2> QED
      BY <2>1
  <1>2. ASSUME NEW n \in N PROVE n + 1 \in N
    <2> SUFFICES ASSUME NEW s \in Seq(S), Len(s) = n + 1 PROVE s \in R
      OBVIOUS
    <2>1. n \in Nat /\ s # <<>>
      OBVIOUS
    <2>2. \E f \in Seq(S), x \in S : s = Append(f, x)
      BY <2>1, SequenceEmptyOrAppend
    <2>3. PICK f \in Seq(S), x \in S : s = Append(f, x)
      BY <2>2
    <2>4. Len(s) = Len(f) + 1 /\ Len(f) \in Nat
      BY <2>3, AppendProperties
    <2>5. f \in R
      BY <2>1, <2>4
    <2> QED
      BY <2>3, <2>5
  <1>3. N = Nat
    <2>1. N \in SUBSET Nat
      OBVIOUS
    <2> HIDE DEF N
    <2> QED
      BY <1>1, <1>2, <2>1, Induction
  <1>4. \A s \in Seq(S) : Len(s) \in N
    BY <1>3
  <1>5. \A s \in Seq(S) : s \in R
    BY <1>4
  <1> QED
    BY <1>5

\* One more element at the end of two sequences.
LEMMA ConcatAppended ==
    ASSUME NEW S, NEW a \in Seq(S), NEW b \in Seq(S), NEW x \in S
    PROVE  a \o Append(b, x) = Append(a \o b, x)
  <1>1. <<x>> \in Seq(S)
    OBVIOUS
  <1> DEFINE e == <<x>>
  <1>2. a \o b \in Seq(S) /\ e \in Seq(S)
    BY <1>1, ConcatIs
  <1>3. Append(b, x) = b \o e /\ Append(a \o b, x) = (a \o b) \o e
    BY <1>2, AppendIsConcat
  <1>4. a \o (b \o e) = (a \o b) \o e
    <2> HIDE DEF e
    <2> QED
      BY <1>2, ConcatAssociative
  <1> QED
    BY <1>3, <1>4

\* All places of a sequence are picked.
LEMMA AtAll ==
    ASSUME NEW S
    PROVE  \A s \in Seq(S) : \A places : (\A i \in DOMAIN s : i \in places) => At(s, places) = s
  <1> DEFINE R == {s \in Seq(S) : \A places : (\A i \in DOMAIN s : i \in places) => At(s, places) = s}
  <1>1. <<>> \in R
    BY AtEmpty
  <1>2. ASSUME NEW s \in R, NEW x \in S
        PROVE  Append(s, x) \in R
    <2>1. s \in Seq(S) /\ Append(s, x) \in Seq(S) /\ DOMAIN s = 1..Len(s) /\ Len(s) \in Nat
      OBVIOUS
    <2>2. ASSUME NEW places, \A i \in DOMAIN Append(s, x) : i \in places
          PROVE  At(Append(s, x), places) = Append(s, x)
      <3>1. DOMAIN Append(s, x) = 1..(Len(s) + 1)
        BY <2>1
      <3>2. Len(s) + 1 \in places /\ \A i \in DOMAIN s : i \in places
        BY <2>1, <2>2, <3>1
      <3>3. At(s, places) = s
        BY <3>2
      <3>4. At(Append(s, x), places) = Append(At(s, places), x)
        BY <2>1, <3>2, AtAppend
      <3> QED
        BY <3>3, <3>4
    <2> QED
      BY <2>1, <2>2
  <1>3. R = Seq(S)
    <2>1. R \in SUBSET Seq(S)
      OBVIOUS
    <2> HIDE DEF R
    <2> QED
      BY <1>1, <1>2, <2>1, SequenceInduction
  <1> QED
    BY <1>3

\* The errors of a text with one more word.
LEMMA ErrorsAppended ==
    ASSUME NEW S, NEW s \in Seq(S), NEW x \in S, NEW A
    PROVE  Errors(Append(s, x), A) = IF x \in A THEN Append(Errors(s, A), x) ELSE Errors(s, A)
  <1> DEFINE t == Append(s, x)
  <1> DEFINE I == {i \in DOMAIN s : s[i] \in A}
  <1> DEFINE J == {i \in DOMAIN t : t[i] \in A}
  <1>1. /\ DOMAIN s = 1..Len(s) /\ Len(s) \in Nat /\ DOMAIN t = 1..(Len(s) + 1)
        /\ t[Len(s) + 1] = x /\ \A i \in 1..Len(s) : t[i] = s[i]
    OBVIOUS
  <1>2. Errors(t, A) = At(t, J) /\ Errors(s, A) = At(s, I)
    BY DEF Errors
  <1> HIDE DEF t
  <1>3. (Len(s) + 1 \in J <=> x \in A) /\ \A i \in 1..Len(s) : i \in I <=> i \in J
    BY <1>1
  <1> HIDE DEF I, J
  <1>4. At(Append(s, x), J) = IF Len(s) + 1 \in J THEN Append(At(s, I), x) ELSE At(s, I)
    BY <1>3, AtAppend
  <1> QED
    BY <1>2, <1>3, <1>4 DEF t

\* The errors are words of the text.
LEMMA ErrorsTyped ==
    ASSUME NEW S, NEW s \in Seq(S), NEW A
    PROVE  /\ Errors(s, A) \in Seq(S)
           /\ Errors(s, A) \in Seq({x \in S : x \in A})
  <1> DEFINE I == {i \in DOMAIN s : s[i] \in A}
  <1> DEFINE T == {x \in S : x \in A}
  <1>1. \A i \in DOMAIN s : i \in I => s[i] \in T /\ s[i] \in S
    OBVIOUS
  <1>2. Errors(s, A) = At(s, I)
    BY DEF Errors
  <1> HIDE DEF I, T
  <1>3. At(s, I) \in Seq(T) /\ At(s, I) \in Seq(S)
    BY <1>1, AtTyped
  <1> QED
    BY <1>2, <1>3 DEF T

\* A selection with all the errors has the errors.
LEMMA ErrorsPicked ==
    ASSUME NEW S, NEW A
    PROVE  \A s \in Seq(S) : \A places :
              (\A i \in DOMAIN s : s[i] \in A => i \in places) => Errors(At(s, places), A) = Errors(s, A)
  <1> DEFINE R == {s \in Seq(S) : \A places :
              (\A i \in DOMAIN s : s[i] \in A => i \in places) => Errors(At(s, places), A) = Errors(s, A)}
  <1>1. <<>> \in R
    BY AtEmpty
  <1>2. ASSUME NEW s \in R, NEW x \in S
        PROVE  Append(s, x) \in R
    <2>1. s \in Seq(S) /\ Append(s, x) \in Seq(S) /\ DOMAIN s = 1..Len(s) /\ Len(s) \in Nat
      OBVIOUS
    <2>2. ASSUME NEW places, \A i \in DOMAIN Append(s, x) : Append(s, x)[i] \in A => i \in places
          PROVE  Errors(At(Append(s, x), places), A) = Errors(Append(s, x), A)
      <3>1. /\ DOMAIN Append(s, x) = 1..(Len(s) + 1) /\ Append(s, x)[Len(s) + 1] = x
            /\ \A i \in 1..Len(s) : Append(s, x)[i] = s[i]
        BY <2>1
      <3>2. /\ x \in A => Len(s) + 1 \in places
            /\ \A i \in DOMAIN s : s[i] \in A => i \in places
        BY <2>1, <2>2, <3>1
      <3>3. Errors(At(s, places), A) = Errors(s, A)
        BY <3>2
      <3>4. At(Append(s, x), places) = IF Len(s) + 1 \in places THEN Append(At(s, places), x)
                                       ELSE At(s, places)
        BY <2>1, AtAppend
      <3>5. At(s, places) \in Seq(S)
        BY <2>1, AtTyped
      <3>6. Errors(Append(s, x), A) = IF x \in A THEN Append(Errors(s, A), x) ELSE Errors(s, A)
        BY <2>1, ErrorsAppended
      <3>7. Errors(Append(At(s, places), x), A) =
                IF x \in A THEN Append(Errors(At(s, places), A), x) ELSE Errors(At(s, places), A)
        BY <3>5, ErrorsAppended
      <3>8. CASE Len(s) + 1 \in places
        <4>1. At(Append(s, x), places) = Append(At(s, places), x)
          BY <3>4, <3>8
        <4> QED
          BY <3>3, <3>6, <3>7, <4>1
      <3>9. CASE Len(s) + 1 \notin places
        <4>1. At(Append(s, x), places) = At(s, places) /\ x \notin A
          BY <3>2, <3>4, <3>9
        <4> QED
          BY <3>3, <3>6, <4>1
      <3> QED
        BY <3>8, <3>9
    <2> QED
      BY <2>1, <2>2
  <1>3. R = Seq(S)
    <2>1. R \in SUBSET Seq(S)
      OBVIOUS
    <2> HIDE DEF R
    <2> QED
      BY <1>1, <1>2, <2>1, SequenceInduction
  <1> QED
    BY <1>3

\* Words without an error add none.
LEMMA ErrorsJoined ==
    ASSUME NEW S, NEW a \in Seq(S), NEW A
    PROVE  \A b \in Seq(S) : (\A i \in DOMAIN b : b[i] \notin A) => Errors(a \o b, A) = Errors(a, A)
  <1> DEFINE R == {b \in Seq(S) : (\A i \in DOMAIN b : b[i] \notin A) => Errors(a \o b, A) = Errors(a, A)}
  <1>1. <<>> \in R
    <2>1. a \o <<>> = a
      BY ConcatEmptySeq
    <2> QED
      BY <2>1
  <1>2. ASSUME NEW b \in R, NEW x \in S
        PROVE  Append(b, x) \in R
    <2>1. b \in Seq(S) /\ Append(b, x) \in Seq(S) /\ DOMAIN b = 1..Len(b) /\ Len(b) \in Nat
      OBVIOUS
    <2>2. ASSUME \A i \in DOMAIN Append(b, x) : Append(b, x)[i] \notin A
          PROVE  Errors(a \o Append(b, x), A) = Errors(a, A)
      <3>1. /\ DOMAIN Append(b, x) = 1..(Len(b) + 1) /\ Append(b, x)[Len(b) + 1] = x
            /\ \A i \in 1..Len(b) : Append(b, x)[i] = b[i]
        BY <2>1
      <3>2. x \notin A /\ \A i \in DOMAIN b : b[i] \notin A
        BY <2>1, <2>2, <3>1
      <3>3. Errors(a \o b, A) = Errors(a, A)
        BY <3>2
      <3>4. a \o Append(b, x) = Append(a \o b, x) /\ a \o b \in Seq(S)
        BY <2>1, ConcatAppended, ConcatIs
      <3>5. Errors(Append(a \o b, x), A) = Errors(a \o b, A)
        <4>1. PICK c \in Seq(S) : c = a \o b
          BY <3>4
        <4>2. Errors(Append(c, x), A) = IF x \in A THEN Append(Errors(c, A), x) ELSE Errors(c, A)
          BY ErrorsAppended
        <4> QED
          BY <3>2, <4>1, <4>2
      <3> QED
        BY <3>3, <3>4, <3>5
    <2> QED
      BY <2>1, <2>2
  <1>3. R = Seq(S)
    <2>1. R \in SUBSET Seq(S)
      OBVIOUS
    <2> HIDE DEF R
    <2> QED
      BY <1>1, <1>2, <2>1, SequenceInduction
  <1> QED
    BY <1>3

\* A word that is no marker of the compressor.
Unmarked(text) == \A w \in ToSet(text) : w[1] \notin {"omitted", "hash"}

\* A text without a hash has nothing to account for.
LEMMA UnmarkedAccounted ==
    ASSUME NEW text, NEW originals, \A w \in ToSet(text) : w[1] # "hash"
    PROVE  Accounted(text, originals)
  BY DEF Accounted

\* A crushed text with its two markers accounts for what is missing.
LEMMA MarkedAccounted ==
    ASSUME NEW S, NEW original \in Seq(S), NEW kept \in Seq(S), Unmarked(kept),
           Errors(kept, Alarms(original)) = Errors(original, Alarms(original)), NEW originals, original \in originals
    PROVE  Accounted(Append(kept, Omitted(Len(original) - Len(kept))) \o <<Hash(original)>>, originals)
  <1>0. PICK o, h : o = Omitted(Len(original) - Len(kept)) /\ h = Hash(original)
    OBVIOUS
  <1>1. /\ o[1] = "omitted" /\ o[3] = Len(original) - Len(kept)
        /\ h[1] = "hash" /\ h[2] = original
    BY <1>0 DEF Omitted, Hash
  <1>2. PICK T : T = S \cup {o, h}
    OBVIOUS
  <1>3. kept \in Seq(T) /\ o \in T /\ h \in T
    BY <1>2
  <1>4. PICK t1 : t1 = Append(kept, o)
    OBVIOUS
  <1>5. PICK text : text = Append(t1, h)
    OBVIOUS
  <1>6. /\ t1 \in Seq(T) /\ DOMAIN t1 = 1..(Len(kept) + 1) /\ Len(t1) = Len(kept) + 1
        /\ t1[Len(kept) + 1] = o /\ \A i \in 1..Len(kept) : t1[i] = kept[i]
        /\ Len(kept) \in Nat /\ DOMAIN kept = 1..Len(kept)
    BY <1>3, <1>4
  <1>7. /\ text \in Seq(T) /\ DOMAIN text = 1..(Len(t1) + 1) /\ Len(text) = Len(t1) + 1
        /\ text[Len(t1) + 1] = h /\ \A i \in 1..Len(t1) : text[i] = t1[i]
        /\ Len(t1) \in Nat /\ DOMAIN t1 = 1..Len(t1)
    BY <1>3, <1>5, <1>6
  <1>8. t1 \o <<h>> = text
    BY <1>3, <1>5, <1>6, AppendIsConcat
  <1>9. \A i \in DOMAIN kept : kept[i][1] \notin {"omitted", "hash"}
    BY DEF Unmarked, ToSet
  <1> DEFINE J == {i \in DOMAIN text : text[i][1] \notin {"omitted", "hash"}}
  <1>10. /\ Len(t1) + 1 \notin J /\ Len(kept) + 1 \notin J
         /\ \A i \in DOMAIN kept : i \in J
    BY <1>1, <1>6, <1>7, <1>9
  <1> HIDE DEF J
  <1>11. At(text, J) = At(t1, J)
    BY <1>3, <1>5, <1>6, <1>7, <1>10, AtAppend
  <1>12. At(t1, J) = At(kept, J)
    BY <1>3, <1>4, <1>6, <1>10, AtAppend
  <1>13. At(kept, J) = kept
    BY <1>3, <1>10, AtAll
  <1>14. ToSet(text) = ToSet(kept) \cup {o, h}
    <2>1. \A w \in ToSet(text) : w \in ToSet(kept) \cup {o, h}
      <3> SUFFICES ASSUME NEW i \in DOMAIN text PROVE text[i] \in ToSet(kept) \cup {o, h}
        BY DEF ToSet
      <3>1. i \in 1..Len(kept) \/ i = Len(kept) + 1 \/ i = Len(t1) + 1
        BY <1>6, <1>7
      <3> QED
        BY <1>6, <1>7, <3>1 DEF ToSet
    <2>2. \A w \in ToSet(kept) : w \in ToSet(text)
      BY <1>6, <1>7 DEF ToSet
    <2>3. o \in ToSet(text)
      BY <1>6, <1>7 DEF ToSet
    <2>4. h \in ToSet(text)
      BY <1>6, <1>7 DEF ToSet
    <2> QED
      BY <2>1, <2>2, <2>3, <2>4
  <1>15. \A w \in ToSet(text) : w[1] = "hash" => w = h
    BY <1>1, <1>14 DEF Unmarked
  <1>16. (CHOOSE w \in ToSet(text) : w[1] = "omitted") = o
    <2>1. \A w \in ToSet(text) : w[1] = "omitted" <=> w = o
      BY <1>1, <1>14 DEF Unmarked
    <2>2. o \in ToSet(text)
      BY <1>14
    <2> QED
      BY <2>1, <2>2
  <1>17. Len(kept) + o[3] = Len(original)
    <2>1. Len(original) \in Nat
      OBVIOUS
    <2> QED
      BY <1>1, <1>6, <2>1
  <1>18. Accounted(text, originals)
    <2> SUFFICES ASSUME NEW x \in {w \in ToSet(text) : w[1] = "hash"}
                 PROVE  /\ x[2] \in originals
                        /\ Len(At(text, {i \in DOMAIN text : text[i][1] \notin {"omitted", "hash"}}))
                             + (CHOOSE w \in ToSet(text) : w[1] = "omitted")[3] = Len(x[2])
                        /\ Errors(At(text, {i \in DOMAIN text : text[i][1] \notin {"omitted", "hash"}}),
                                  Alarms(x[2]))
                             = Errors(x[2], Alarms(x[2]))
      BY DEF Accounted
    <2>1. x[2] = original
      BY <1>1, <1>15
    <2>2. At(text, {i \in DOMAIN text : text[i][1] \notin {"omitted", "hash"}}) = kept
      BY <1>11, <1>12, <1>13 DEF J
    <2> QED
      BY <1>16, <1>17, <2>1, <2>2
  <1> QED
    BY <1>0, <1>4, <1>8, <1>18

\* The items that are selected have all errors among them.
LEMMA SelectedHas ==
    ASSUME NEW items, NEW n
    PROVE  \E places : /\ SelectItems(items, n) = At(items, places)
                       /\ \A i \in DOMAIN items : items[i] \in Alarms(items) => i \in places
  <1>1. PICK always : always = AlwaysKept(items, n)
    OBVIOUS
  <1>2. \A i \in DOMAIN items : items[i] \in Alarms(items) => i \in always
    BY <1>1 DEF AlwaysKept
  <1>3. \E best, room : SelectItems(items, n) =
            At(items, always \cup {best[k] : k \in {k \in DOMAIN best : k <= room}})
    BY <1>1 DEF SelectItems
  <1>4. PICK best, room : SelectItems(items, n) =
            At(items, always \cup {best[k] : k \in {k \in DOMAIN best : k <= room}})
    BY <1>3
  <1>5. PICK places : places = always \cup {best[k] : k \in {k \in DOMAIN best : k <= room}}
    OBVIOUS
  <1>6. SelectItems(items, n) = At(items, places) /\ \A i \in DOMAIN items : items[i] \in Alarms(items) => i \in places
    BY <1>2, <1>4, <1>5
  <1> QED
    BY <1>6

\* What is crushed, and what it says of what it leaves out: either nothing is
\* counted as missing, or what is kept has all errors.
Crushes(crushed, text, W) ==
    \/ crushed.omitted = 0 /\ \E V : crushed.text \in Seq(V) /\ \A w \in V : w[1] # "hash"
    \/ \E kept \in Seq(W) :
          /\ Errors(kept, Alarms(text)) = Errors(text, Alarms(text))
          /\ crushed = [text |-> Append(kept, Omitted(Len(text) - Len(kept))),
                        omitted |-> Len(text) - Len(kept)]

\* A list that is crushed.
LEMMA CrushArrayIs ==
    ASSUME NEW W, NEW text \in Seq(W), \A w \in W : w[1] \notin {"omitted", "hash"}
    PROVE  Crushes(CrushArray(text), text, W)
  <1>1. PICK n : n = IF ToolResultBudget > SchemaTokens THEN ToolResultBudget - SchemaTokens ELSE 1
    OBVIOUS
  <1>2. PICK kept : kept = SelectItems(text, Kneedle(text, n))
    OBVIOUS
  <1>3. CrushArray(text) =
            IF n >= Len(text) THEN [text |-> text, omitted |-> 0]
            ELSE [text |-> Append(kept, Omitted(Len(text) - Len(kept))), omitted |-> Len(text) - Len(kept)]
    BY <1>1, <1>2, Zenon DEF CrushArray
  <1>5. CASE n >= Len(text)
    <2>1. CrushArray(text).omitted = 0 /\ CrushArray(text).text = text
      BY <1>3, <1>5
    <2>2. \A w \in W : w[1] # "hash"
      OBVIOUS
    <2>3. text \in Seq(W)
      OBVIOUS
    <2> QED
      BY <2>1, <2>2, <2>3, Zenon DEF Crushes
  <1>6. CASE ~(n >= Len(text))
    <2>1. PICK places : /\ kept = At(text, places)
                        /\ \A i \in DOMAIN text : text[i] \in Alarms(text) => i \in places
      BY <1>2, SelectedHas
    <2>2. kept \in Seq(W)
      BY <2>1, AtTyped
    <2>3. Errors(kept, Alarms(text)) = Errors(text, Alarms(text))
      BY <2>1, ErrorsPicked
    <2> QED
      BY <1>3, <1>6, <2>2, <2>3 DEF Crushes
  <1> QED
    BY <1>5, <1>6

\* A log that is crushed.
LEMMA CrushLogIs ==
    ASSUME NEW W, NEW text \in Seq(W), \A w \in W : w[1] \notin {"omitted", "hash"}
    PROVE  Crushes(CrushLog(text), text, W)
  <1>0. PICK alarms : alarms = Alarms(text)
    OBVIOUS
  <1>1. PICK errors : errors = Errors(text, alarms)
    OBVIOUS
  <1>2. PICK others : others = At(text, {i \in DOMAIN text : text[i] \notin alarms})
    OBVIOUS
  <1>3. \E places : CrushLog(text) =
            LET kept == errors \o At(others, places)
            IN  IF Len(kept) >= Len(text) THEN [text |-> text, omitted |-> 0]
                ELSE [text |-> Append(kept, Omitted(Len(text) - Len(kept))),
                      omitted |-> Len(text) - Len(kept)]
    BY <1>0, <1>1, <1>2, Zenon DEF CrushLog
  <1>4. PICK places : CrushLog(text) =
            LET kept == errors \o At(others, places)
            IN  IF Len(kept) >= Len(text) THEN [text |-> text, omitted |-> 0]
                ELSE [text |-> Append(kept, Omitted(Len(text) - Len(kept))),
                      omitted |-> Len(text) - Len(kept)]
    BY <1>3
  <1>5. PICK rest : rest = At(others, places)
    OBVIOUS
  <1>6. PICK kept : kept = errors \o rest
    OBVIOUS
  <1>7. CrushLog(text) = IF Len(kept) >= Len(text) THEN [text |-> text, omitted |-> 0]
                         ELSE [text |-> Append(kept, Omitted(Len(text) - Len(kept))),
                               omitted |-> Len(text) - Len(kept)]
    BY <1>4, <1>5, <1>6
  <1>9. CASE Len(kept) >= Len(text)
    <2>1. CrushLog(text).omitted = 0 /\ CrushLog(text).text = text
      BY <1>7, <1>9
    <2>2. \A w \in W : w[1] # "hash"
      OBVIOUS
    <2>3. text \in Seq(W)
      OBVIOUS
    <2> QED
      BY <2>1, <2>2, <2>3, Zenon DEF Crushes
  <1>10. CASE ~(Len(kept) >= Len(text))
    <2>1. errors \in Seq(W) /\ errors \in Seq({x \in W : x \in alarms})
      BY <1>1, ErrorsTyped
    <2>2. PICK O : O = {x \in W : x \notin alarms}
      OBVIOUS
    <2>3. others \in Seq(O)
      <3>1. PICK I : I = {i \in DOMAIN text : text[i] \notin alarms}
        OBVIOUS
      <3>2. \A i \in DOMAIN text : i \in I => text[i] \in O
        BY <2>2, <3>1
      <3> QED
        BY <1>2, <3>1, <3>2, AtTyped
    <2>4. rest \in Seq(O)
      BY <1>5, <2>3, AtTyped
    <2>5. rest \in Seq(W) /\ \A i \in DOMAIN rest : rest[i] \notin alarms
      BY <2>2, <2>4
    <2>6. Errors(kept, alarms) = Errors(errors, alarms)
      BY <1>6, <2>1, <2>5, ErrorsJoined
    <2>7. Errors(errors, alarms) = errors
      <3>1. PICK J : J = {i \in DOMAIN errors : errors[i] \in alarms}
        OBVIOUS
      <3>2. \A i \in DOMAIN errors : i \in J
        <4>1. PICK X : X = {x \in W : x \in alarms}
          OBVIOUS
        <4>2. errors \in Seq(X) /\ \A x \in X : x \in alarms
          BY <2>1, <4>1
        <4> QED
          BY <3>1, <4>2
      <3>3. Errors(errors, alarms) = At(errors, J)
        BY <3>1 DEF Errors
      <3> QED
        BY <2>1, <3>2, <3>3, AtAll
    <2>8. kept \in Seq(W)
      BY <1>6, <2>1, <2>5, ConcatIs
    <2> QED
      BY <1>0, <1>1, <1>7, <1>10, <2>6, <2>7, <2>8 DEF Crushes
  <1> QED
    BY <1>9, <1>10

\* An object that is crushed: no word is left out.
LEMMA CrushObjectIs ==
    ASSUME NEW W, NEW text \in Seq(W), \A w \in W : w[1] \notin {"omitted", "hash"}
    PROVE  Crushes(CrushObject(text), text, W)
  <1>1. PICK cut : cut = <<"field", "truncated", MaxObjectDepth>>
    OBVIOUS
  <1>2. PICK out : out = [i \in DOMAIN text |-> IF text[i][3] < MaxObjectDepth THEN text[i] ELSE cut]
    OBVIOUS
  <1>3. CrushObject(text) = [text |-> out, omitted |-> 0]
    BY <1>1, <1>2 DEF CrushObject
  <1>4. cut[1] = "field"
    BY <1>1
  <1>5. PICK V : V = W \cup {cut}
    OBVIOUS
  <1>6. out \in Seq(V)
    <2>1. out \in [DOMAIN text -> V]
      BY <1>2, <1>5
    <2> QED
      BY <2>1, MapTyped
  <1>7. \A w \in V : w[1] # "hash"
    BY <1>4, <1>5
  <1> QED
    BY <1>3, <1>6, <1>7 DEF Crushes

\* Whichever of them a text is.
LEMMA CrushIs ==
    ASSUME NEW W, NEW text \in Seq(W), \A w \in W : w[1] \notin {"omitted", "hash"}, CanHandle(text)
    PROVE  Crushes(Crush(text), text, W)
  <1>1. text[1][1] \in {"item", "line", "field"}
    BY DEF CanHandle
  <1>2. CASE text[1][1] = "item"
    <2>1. Crush(text) = CrushArray(text)
      BY <1>2, Zenon DEF Crush
    <2> QED
      BY <2>1, CrushArrayIs
  <1>3. CASE text[1][1] = "line"
    <2>1. Crush(text) = CrushLog(text)
      BY <1>3, Zenon DEF Crush
    <2> QED
      BY <2>1, CrushLogIs
  <1>4. CASE text[1][1] = "field"
    <2>1. Crush(text) = CrushObject(text)
      BY <1>4, Zenon DEF Crush
    <2> QED
      BY <2>1, CrushObjectIs
  <1> QED
    BY <1>1, <1>2, <1>3, <1>4

\* A text of a part that was crushed or left accounts for what is missing.
LEMMA CrushPartAccounted ==
    ASSUME NEW W, NEW p, p.text \in Seq(W), \A w \in W : w[1] \notin {"omitted", "hash"},
           p = [kind |-> p.kind, text |-> p.text, id |-> p.id, name |-> p.name, sig |-> p.sig],
           NEW originals, Crushed(p) => p.text \in originals
    PROVE  /\ Accounted(CrushPart(p).text, originals)
           /\ CrushPart(p) = Retold(p, CrushPart(p).text)
  <1>0. PICK text : text = p.text
    OBVIOUS
  <1>1. \A t : Retold(p, t).text = t
    BY DEF Retold
  <1>2. CASE ~Crushed(p)
    <2>1. CrushPart(p) = p
      BY <1>2, Zenon DEF CrushPart
    <2>2. \A w \in ToSet(text) : w[1] # "hash"
      BY <1>0, WordsOf
    <2>3. Retold(p, p.text) = p
      BY DEF Retold
    <2> QED
      BY <1>0, <2>1, <2>2, <2>3, UnmarkedAccounted
  <1>3. CASE Crushed(p)
    <2>1. PICK crushed : crushed = Crush(p.text)
      OBVIOUS
    <2>2. CrushPart(p) = Retold(p, crushed.text \o IF crushed.omitted = 0 THEN <<>> ELSE <<Hash(p.text)>>)
      BY <1>3, <2>1, Zenon DEF CrushPart
    <2>3. PICK new : new = crushed.text \o IF crushed.omitted = 0 THEN <<>> ELSE <<Hash(p.text)>>
      OBVIOUS
    <2>4. CrushPart(p) = Retold(p, new) /\ CrushPart(p).text = new
      BY <1>1, <2>2, <2>3
    <2>5. CanHandle(text) /\ text \in originals
      BY <1>0, <1>3 DEF Crushed
    <2>6. Crushes(crushed, text, W)
      BY <1>0, <2>1, <2>5, CrushIs
    <2>7. Accounted(new, originals)
      <3>1. CASE crushed.omitted = 0 /\ \E V : crushed.text \in Seq(V) /\ \A w \in V : w[1] # "hash"
        <4>1. new = crushed.text \o <<>>
          BY <2>3, <3>1
        <4>2. PICK V : crushed.text \in Seq(V) /\ \A w \in V : w[1] # "hash"
          BY <3>1
        <4>3. new = crushed.text
          BY <4>1, <4>2, ConcatEmptySeq
        <4>4. \A w \in ToSet(new) : w[1] # "hash"
          BY <4>2, <4>3, WordsOf
        <4> QED
          BY <4>4, UnmarkedAccounted
      <3>2. CASE \E kept \in Seq(W) :
                    /\ Errors(kept, Alarms(text)) = Errors(text, Alarms(text))
                    /\ crushed = [text |-> Append(kept, Omitted(Len(text) - Len(kept))),
                                  omitted |-> Len(text) - Len(kept)]
        <4>1. PICK kept \in Seq(W) :
                    /\ Errors(kept, Alarms(text)) = Errors(text, Alarms(text))
                    /\ crushed = [text |-> Append(kept, Omitted(Len(text) - Len(kept))),
                                  omitted |-> Len(text) - Len(kept)]
          BY <3>2
        <4>2. Unmarked(kept)
          BY WordsOf DEF Unmarked
        <4>3. CASE crushed.omitted # 0
          <5>1. new = Append(kept, Omitted(Len(text) - Len(kept))) \o <<Hash(text)>>
            BY <1>0, <2>3, <4>1, <4>3
          <5>2. text \in Seq(W)
            BY <1>0
          <5> QED
            BY <2>5, <4>1, <4>2, <5>1, <5>2, MarkedAccounted
        <4>4. CASE crushed.omitted = 0
          <5>1. PICK o : o = Omitted(Len(text) - Len(kept))
            OBVIOUS
          <5>2. PICK V : V = W \cup {o}
            OBVIOUS
          <5>3. o[1] # "hash"
            BY <5>1 DEF Omitted
          <5>4. Append(kept, o) \in Seq(V) /\ \A w \in V : w[1] # "hash"
            BY <5>2, <5>3
          <5>5. new = Append(kept, o) \o <<>>
            BY <2>3, <4>1, <4>4, <5>1
          <5>6. new = Append(kept, o)
            BY <5>4, <5>5, ConcatEmptySeq
          <5>7. \A w \in ToSet(new) : w[1] # "hash"
            BY <5>4, <5>6, WordsOf
          <5> QED
            BY <5>7, UnmarkedAccounted
        <4> QED
          BY <4>3, <4>4
      <3> QED
        BY <2>6, <3>1, <3>2 DEF Crushes
    <2> QED
      BY <2>4, <2>7
  <1> QED
    BY <1>2, <1>3
-----------------------------------------------------------------------------
(* The compressor's messages.                                                *)

\* A text of words that are no markers of the compressor.
Clear(text) == \E W : text \in Seq(W) /\ \A w \in W : w[1] \notin {"omitted", "hash"}

\* What the aligner makes of a text, and the words it may leave in one.
AlignText(text) == [i \in DOMAIN text |-> AlignWord(text[i])]
Aligned(Talk) == Talk \cup {AlignWord(w) : w \in Talk}

\* No marker comes with the alignment.
LEMMA AlignTextIs ==
    ASSUME NEW W, NEW text \in Seq(W)
    PROVE  /\ AlignText(text) \in Seq(Aligned(W))
           /\ (\A w \in W : w[1] \notin {"omitted", "hash"}) =>
                 \A w \in Aligned(W) : w[1] \notin {"omitted", "hash"}
  <1>1. AlignText(text) \in [DOMAIN text -> Aligned(W)]
    BY DEF AlignText, Aligned
  <1>2. AlignText(text) \in Seq(Aligned(W))
    BY <1>1, MapTyped
  <1>3. \A w : w[1] \notin {"omitted", "hash"} => AlignWord(w)[1] \notin {"omitted", "hash"}
    BY DEF AlignWord
  <1> QED
    BY <1>2, <1>3 DEF Aligned

\* A result with another text.
LEMMA RetoldResult ==
    ASSUME NEW n \in Nat, NEW t, NEW u
    PROVE  Retold(Result(n, t), u) = Result(n, u) /\ Result(n, t).text = t
  <1>1. PICK p : p = [kind |-> "result", text |-> t, id |-> n, name |-> "", sig |-> NoSignature]
    OBVIOUS
  <1>2. PICK q : q = [kind |-> "result", text |-> u, id |-> n, name |-> "", sig |-> NoSignature]
    OBVIOUS
  <1>3. PICK r : r = [p EXCEPT !.text = u]
    OBVIOUS
  <1>4. r = q
    <2>1. r.kind = "result" /\ r.text = u /\ r.id = n /\ r.name = "" /\ r.sig = NoSignature
      BY <1>1, <1>3
    <2>2. r = [kind |-> r.kind, text |-> r.text, id |-> r.id, name |-> r.name, sig |-> r.sig]
      BY <1>1, <1>3
    <2> QED
      BY <1>2, <2>1, <2>2
  <1>5. Result(n, t) = p /\ Result(n, u) = q
    BY <1>1, <1>2 DEF Result, Part
  <1>6. Retold(p, u) = r
    BY <1>3 DEF Retold
  <1>7. p.text = t
    BY <1>1
  <1> QED
    BY <1>4, <1>5, <1>6, <1>7

\* The texts of results once they are aligned.
AlignedTexts(R) == R \cup {AlignText(t) : t \in R}

\* None of them has a marker.
LEMMA AlignedClear ==
    ASSUME NEW R, \A t \in R : Clear(t)
    PROVE  \A t \in AlignedTexts(R) : Clear(t)
  <1>1. ASSUME NEW t \in R PROVE Clear(AlignText(t))
    <2>1. PICK W : t \in Seq(W) /\ \A w \in W : w[1] \notin {"omitted", "hash"}
      BY DEF Clear
    <2> QED
      BY <2>1, AlignTextIs DEF Clear
  <1> QED
    BY <1>1 DEF AlignedTexts

\* A part that is aligned.
LEMMA AlignPartTyped ==
    ASSUME NEW Talk, NEW R, NEW p \in PartsOf(Talk, ToolsOf(R))
    PROVE  AlignPart(p) \in PartsOf(Aligned(Talk), ToolsOf(AlignedTexts(R)))
  <1>1. AreTools(ToolsOf(R))
    BY ToolIs
  <1>2. AlignPart(p) = IF AlignDynamic /\ HasText(p) THEN Retold(p, AlignText(p.text)) ELSE p
    BY DEF AlignPart, AlignText
  <1>3. p \in PartsOf(Aligned(Talk), ToolsOf(AlignedTexts(R)))
    <2>1. Talk \subseteq Aligned(Talk)
      BY DEF Aligned
    <2>2. ToolsOf(R) \subseteq ToolsOf(AlignedTexts(R))
      BY DEF ToolsOf, ResultParts, AlignedTexts
    <2> QED
      BY <2>1, <2>2, PartsGrow
  <1>4. CASE HasText(p)
    <2>1. CASE p.kind = "text"
      <3>1. p \in TalkParts(Talk) /\ p.text \in Seq(Talk)
        BY <1>1, <2>1, PartIs DEF TalkKinds
      <3>2. AlignText(p.text) \in Seq(Aligned(Talk))
        BY <3>1, AlignTextIs
      <3>3. Retold(p, AlignText(p.text)) \in TalkParts(Aligned(Talk))
        BY <3>1, <3>2, RetoldIs
      <3> QED
        BY <1>2, <1>3, <3>3 DEF PartsOf
    <2>2. CASE p.kind = "result"
      <3>1. p \in ResultParts(R)
        <4>1. p \in ToolsOf(R)
          BY <1>1, <2>2, PartIs DEF TalkKinds
        <4> QED
          BY <2>2, <4>1, ToolIs
      <3>2. PICK n \in Nat, t \in R : p = Result(n, t)
        BY <3>1 DEF ResultParts
      <3>3. PICK u : u = AlignText(t)
        OBVIOUS
      <3>4. Retold(p, AlignText(p.text)) = Result(n, u)
        <4>2. AlignText(p.text) = u
          BY <3>2, <3>3, RetoldResult
        <4>3. Retold(p, u) = Result(n, u)
          BY <3>2, RetoldResult
        <4> QED
          BY <4>2, <4>3
      <3>5. u \in AlignedTexts(R)
        BY <3>3 DEF AlignedTexts
      <3>6. Result(n, u) \in ResultParts(AlignedTexts(R))
        BY <3>5 DEF ResultParts
      <3> QED
        BY <1>2, <1>3, <3>4, <3>6 DEF PartsOf, ToolsOf
    <2> QED
      BY <1>4, <2>1, <2>2 DEF HasText
  <1>5. CASE ~HasText(p)
    BY <1>2, <1>3, <1>5
  <1> QED
    BY <1>4, <1>5

\* The texts of results once they are crushed, and what they account for.
CrushedTexts(R, originals) ==
    {CrushPart(p).text : p \in {q \in ResultParts(R) : Crushed(q) => q.text \in originals}}

\* Each of them accounts for what is missing.
LEMMA CrushedAccounted ==
    ASSUME NEW R, \A t \in R : Clear(t), NEW originals
    PROVE  /\ \A t \in CrushedTexts(R, originals) : Accounted(t, originals)
           /\ \A p \in ResultParts(R) : (Crushed(p) => p.text \in originals) =>
                 CrushPart(p) \in ResultParts(CrushedTexts(R, originals))
  <1>1. ASSUME NEW p \in ResultParts(R), Crushed(p) => p.text \in originals
        PROVE  /\ Accounted(CrushPart(p).text, originals)
               /\ CrushPart(p) \in ResultParts(CrushedTexts(R, originals))
    <2>1. PICK n \in Nat, t \in R : p = Result(n, t)
      BY DEF ResultParts
    <2>2. p = [kind |-> "result", text |-> t, id |-> n, name |-> "", sig |-> NoSignature]
      BY <2>1 DEF Result, Part
    <2>3. p = [kind |-> p.kind, text |-> p.text, id |-> p.id, name |-> p.name, sig |-> p.sig]
      BY <2>2
    <2>4. PICK W : p.text \in Seq(W) /\ \A w \in W : w[1] \notin {"omitted", "hash"}
      BY <2>2 DEF Clear
    <2>5. /\ Accounted(CrushPart(p).text, originals)
          /\ CrushPart(p) = Retold(p, CrushPart(p).text)
      BY <1>1, <2>3, <2>4, CrushPartAccounted
    <2>6. PICK u : u = CrushPart(p).text
      OBVIOUS
    <2>7. u \in CrushedTexts(R, originals)
      BY <1>1, <2>6 DEF CrushedTexts
    <2>8. CrushPart(p) = Result(n, u)
      BY <2>2, <2>5, <2>6 DEF Retold, Result, Part
    <2>9. CrushPart(p) \in ResultParts(CrushedTexts(R, originals))
      BY <2>7, <2>8 DEF ResultParts
    <2> QED
      BY <2>5, <2>9
  <1> QED
    BY <1>1 DEF CrushedTexts

\* A conversation that is aligned.
LEMMA AlignedFits ==
    ASSUME NEW messages
    PROVE  /\ Fits(EachPart(messages, AlignPart), messages)
           /\ \A i \in DOMAIN messages : \A j \in DOMAIN messages[i].parts :
                EachPart(messages, AlignPart)[i].parts[j] = AlignPart(messages[i].parts[j])
  <1> DEFINE out == EachPart(messages, AlignPart)
  <1>1. Fits(out, messages)
    BY MessageFields DEF EachPart, Fits
  <1>2. \A i \in DOMAIN messages : \A j \in DOMAIN messages[i].parts :
            out[i].parts[j] = AlignPart(messages[i].parts[j])
    BY MessageFields DEF EachPart
  <1> QED
    BY <1>1, <1>2

\* A conversation that is crushed.
LEMMA CrushedFits ==
    ASSUME NEW messages
    PROVE  /\ Fits(EachPart(messages, CrushPart), messages)
           /\ \A i \in DOMAIN messages : \A j \in DOMAIN messages[i].parts :
                EachPart(messages, CrushPart)[i].parts[j] = CrushPart(messages[i].parts[j])
  <1> DEFINE out == EachPart(messages, CrushPart)
  <1>1. Fits(out, messages)
    BY MessageFields DEF EachPart, Fits
  <1>2. \A i \in DOMAIN messages : \A j \in DOMAIN messages[i].parts :
            out[i].parts[j] = CrushPart(messages[i].parts[j])
    BY MessageFields DEF EachPart
  <1> QED
    BY <1>1, <1>2

\* A part of a conversation and the texts that count as its originals.
LEMMA OriginalsHave ==
    ASSUME NEW M, NEW messages \in Seq(M), NEW i \in DOMAIN messages, NEW P,
           messages[i].parts \in Seq(P), NEW j \in DOMAIN messages[i].parts,
           Crushed(messages[i].parts[j])
    PROVE  messages[i].parts[j].text \in Originals(messages)
  <1>1. PICK p : p = messages[i].parts[j]
    OBVIOUS
  <1>2. p \in ToSet(messages[i].parts)
    BY <1>1 DEF ToSet
  <1>3. p \in UNION {ToSet(messages[k].parts) : k \in DOMAIN messages}
    BY <1>2
  <1> QED
    BY <1>1, <1>3 DEF Originals

\* The parts of a conversation.
LEMMA PartsAre ==
    ASSUME NEW Talk, NEW Tools, NEW messages \in Seq(MessagesOf(Talk, Tools)),
           NEW i \in DOMAIN messages
    PROVE  /\ messages[i] \in MessagesOf(Talk, Tools)
           /\ messages[i].parts \in Seq(PartsOf(Talk, Tools))
           /\ \A j \in DOMAIN messages[i].parts : messages[i].parts[j] \in PartsOf(Talk, Tools)
  <1>1. messages[i] \in MessagesOf(Talk, Tools)
    OBVIOUS
  <1>2. messages[i].parts \in Seq(PartsOf(Talk, Tools))
    BY <1>1, MessageIs
  <1> QED
    BY <1>1, <1>2

\* The window's markers.
Gaps == {Gap(n) : n \in Int}

\* One place of the conversation in the window.
TrimmedAt(messages, keep, i) ==
    LET RunEnd(k) == k \notin keep /\ (k = Len(messages) \/ k + 1 \in keep)
        RunLength(k) == k - Max({j \in keep : j < k} \cup {0})
    IN  IF i \in keep THEN <<messages[i]>>
        ELSE IF RunEnd(i) THEN <<Message("user", <<Text(<<Gap(RunLength(i))>>)>>)>>
        ELSE <<>>

\* The window, place by place.
LEMMA TrimIs ==
    ASSUME NEW messages
    PROVE  \E keep : /\ keep = MustKeep(messages)
                     /\ Trim(messages) =
                          IF TotalTokens(messages) <= TotalBudget \/ RecentKeep >= Len(messages)
                          THEN messages
                          ELSE FlattenSeq([i \in DOMAIN messages |-> TrimmedAt(messages, keep, i)])
  <1>1. PICK keep : keep = MustKeep(messages)
    OBVIOUS
  <1>2. Trim(messages) =
            IF TotalTokens(messages) <= TotalBudget \/ RecentKeep >= Len(messages)
            THEN messages
            ELSE FlattenSeq([i \in DOMAIN messages |-> TrimmedAt(messages, keep, i)])
    BY <1>1, Zenon DEF Trim, TrimmedAt
  <1> QED
    BY <1>1, <1>2

\* The messages that must stay are messages of the conversation.
LEMMA KeepIs ==
    ASSUME NEW messages
    PROVE  MustKeep(messages) \subseteq DOMAIN messages
  <1>1. Recent(messages) \subseteq DOMAIN messages
    BY DEF Recent
  <1>2. PICK recent : recent = Recent(messages)
    OBVIOUS
  <1>3. \E more : MustKeep(messages) = recent \cup {i \in DOMAIN messages : i \in more}
    <2>1. PICK more : more = {i \in DOMAIN messages :
            \/ IdsOf(messages, {i}, "call") \cap IdsOf(messages, recent, "result") # {}
            \/ IdsOf(messages, {i}, "result") \cap IdsOf(messages, recent, "call") # {}}
      OBVIOUS
    <2>2. MustKeep(messages) = recent \cup more
      BY <1>2, <2>1, Zenon DEF MustKeep
    <2>3. more = {i \in DOMAIN messages : i \in more}
      BY <2>1
    <2> QED
      BY <2>2, <2>3
  <1> QED
    BY <1>1, <1>2, <1>3

\* A conversation in the window.
LEMMA TrimTyped ==
    ASSUME NEW Talk, NEW Tools, NEW messages \in Seq(MessagesOf(Talk, Tools))
    PROVE  Trim(messages) \in Seq(MessagesOf(Talk \cup Gaps, Tools))
  <1>1. PICK Talk2 : Talk2 = Talk \cup Gaps
    OBVIOUS
  <1>2. PICK M : M = MessagesOf(Talk2, Tools)
    OBVIOUS
  <1>3. MessagesOf(Talk, Tools) \subseteq M /\ Seq(MessagesOf(Talk, Tools)) \subseteq Seq(M)
    BY <1>1, <1>2, PartsGrow
  <1>4. PICK keep : /\ keep = MustKeep(messages)
                    /\ Trim(messages) =
                          IF TotalTokens(messages) <= TotalBudget \/ RecentKeep >= Len(messages)
                          THEN messages
                          ELSE FlattenSeq([i \in DOMAIN messages |-> TrimmedAt(messages, keep, i)])
    BY TrimIs
  <1>5. PICK g : g = [i \in DOMAIN messages |-> TrimmedAt(messages, keep, i)]
    OBVIOUS
  <1>6. ASSUME NEW i \in DOMAIN messages PROVE g[i] \in Seq(M)
    <2>1. PICK n : n = i - Max({j \in keep : j < i} \cup {0})
      OBVIOUS
    <2>2. n \in Int
      <3>1. keep \subseteq DOMAIN messages /\ DOMAIN messages = 1..Len(messages) /\ Len(messages) \in Nat
        BY <1>4, KeepIs
      <3>2. PICK B : B = {j \in keep : j < i} \cup {0}
        OBVIOUS
      <3>3. B \in SUBSET (0..Len(messages)) /\ B # {}
        BY <3>1, <3>2
      <3>4. Max(B) \in B
        BY <3>1, <3>3, MaxIs
      <3>5. n = i - Max(B) /\ i \in Int /\ Max(B) \in Int
        BY <2>1, <3>1, <3>2, <3>3, <3>4
      <3> QED
        BY <3>5
    <2>3. PICK gap : gap = <<Gap(n)>>
      OBVIOUS
    <2>4. gap \in Seq(Talk2)
      <3>1. Gap(n) \in Talk2
        BY <1>1, <2>2 DEF Gaps
      <3> QED
        BY <2>3, <3>1
    <2>5. PICK m : m = Message("user", <<Text(gap)>>)
      OBVIOUS
    <2>6. m \in M
      <3>1. PICK p : p = Text(gap)
        OBVIOUS
      <3>2. p \in PartsOf(Talk2, Tools)
        BY <2>4, <3>1, TextTyped DEF PartsOf
      <3>3. "user" \in Roles
        BY DEF Roles
      <3>4. PICK P : P = PartsOf(Talk2, Tools)
        OBVIOUS
      <3>5. <<p>> \in Seq(P)
        BY <3>2, <3>4
      <3> QED
        BY <1>2, <2>5, <3>1, <3>3, <3>4, <3>5, MessageTyped
    <2>7. messages[i] \in M
      BY <1>3
    <2>8. g[i] = <<messages[i]>> \/ g[i] = <<m>> \/ g[i] = <<>>
      <3>1. g[i] = TrimmedAt(messages, keep, i)
        BY <1>5
      <3>2. TrimmedAt(messages, keep, i) = <<messages[i]>> \/ TrimmedAt(messages, keep, i) = <<m>>
               \/ TrimmedAt(messages, keep, i) = <<>>
        BY <2>1, <2>3, <2>5, Zenon DEF TrimmedAt
      <3> QED
        BY <3>1, <3>2
    <2>9. PICK x : x = g[i] /\ (x = <<messages[i]>> \/ x = <<m>> \/ x = <<>>)
      BY <2>8
    <2>10. x \in Seq(M)
      <3>1. \A y \in M : <<y>> \in Seq(M)
        OBVIOUS
      <3>2. x = <<>> => x \in Seq(M)
        OBVIOUS
      <3> QED
        BY <2>6, <2>7, <2>9, <3>1, <3>2
    <2> QED
      BY <2>9, <2>10
  <1>7. FlattenSeq(g) \in Seq(M)
    <2>1. g = [i \in DOMAIN messages |-> g[i]]
      BY <1>5
    <2> QED
      BY <1>6, <2>1, FlattenMapTyped
  <1>8. messages \in Seq(M)
    BY <1>3
  <1> QED
    BY <1>1, <1>2, <1>4, <1>5, <1>7, <1>8

\* The words of a compressed conversation.
Shortened(Talk) == Aligned(Talk) \cup Gaps

\* The compressed conversation: its results account for what they leave out,
\* with the originals that go to the store.
LEMMA CompressTyped ==
    ASSUME NEW Talk, NEW R, \A t \in R : Clear(t), NEW messages \in Seq(MessagesOf(Talk, ToolsOf(R)))
    PROVE  \E S : /\ Compress(messages).messages \in Seq(MessagesOf(Shortened(Talk), ToolsOf(S)))
                  /\ \A t \in S : Accounted(t, Compress(messages).stored)
  <1>1. PICK aligned : aligned = EachPart(messages, AlignPart)
    OBVIOUS
  <1>2. PICK crushed : crushed = EachPart(aligned, CrushPart)
    OBVIOUS
  <1>3. PICK originals : originals = Originals(aligned)
    OBVIOUS
  <1>4. Compress(messages).messages = Trim(crushed) /\ Compress(messages).stored = originals
    BY <1>1, <1>2, <1>3 DEF Compress
  <1>5. PICK Talk2 : Talk2 = Aligned(Talk)
    OBVIOUS
  <1>6. PICK R2 : R2 = AlignedTexts(R)
    OBVIOUS
  <1>7. PICK S : S = CrushedTexts(R2, originals)
    OBVIOUS
  <1>8. \A t \in R2 : Clear(t)
    BY <1>6, AlignedClear
  <1>9. aligned \in Seq(MessagesOf(Talk2, ToolsOf(R2)))
    <2>1. PICK P2 : P2 = PartsOf(Talk2, ToolsOf(R2))
      OBVIOUS
    <2>2. /\ Fits(aligned, messages)
          /\ \A i \in DOMAIN messages : \A j \in DOMAIN messages[i].parts :
                aligned[i].parts[j] = AlignPart(messages[i].parts[j])
      BY <1>1, AlignedFits
    <2>3. PICK P : P = PartsOf(Talk, ToolsOf(R))
      OBVIOUS
    <2>4. \A p \in P : AlignPart(p) \in P2
      BY <1>5, <1>6, <2>1, <2>3, AlignPartTyped
    <2>5. \A i \in DOMAIN messages : \A j \in DOMAIN messages[i].parts : messages[i].parts[j] \in P
      BY <2>3, PartsAre
    <2>6. \A i \in DOMAIN messages : \A j \in DOMAIN messages[i].parts : aligned[i].parts[j] \in P2
      BY <2>2, <2>4, <2>5
    <2>7. aligned \in Seq([role : Roles, parts : Seq(P2)])
      BY <2>2, <2>6, EachTyped
    <2> QED
      BY <2>1, <2>7 DEF MessagesOf
  <1>10. ASSUME NEW i \in DOMAIN aligned, NEW j \in DOMAIN aligned[i].parts
         PROVE  CrushPart(aligned[i].parts[j]) \in PartsOf(Talk2, ToolsOf(S))
    <2>1. PICK p : p = aligned[i].parts[j]
      OBVIOUS
    <2>2. PICK P : P = PartsOf(Talk2, ToolsOf(R2))
      OBVIOUS
    <2>3. aligned[i].parts \in Seq(P) /\ p \in P
      BY <1>9, <2>1, <2>2, PartsAre
    <2>4. Crushed(p) => p.text \in originals
      BY <1>3, <1>9, <2>1, <2>3, OriginalsHave
    <2>5. AreTools(ToolsOf(R2))
      BY ToolIs
    <2>6. CASE p.kind \in TalkKinds
      <3>1. CrushPart(p) = p
        <4>1. ~Crushed(p)
          BY <2>6 DEF Crushed, TalkKinds
        <4> QED
          BY <4>1, Zenon DEF CrushPart
      <3>2. p \in TalkParts(Talk2)
        BY <2>2, <2>3, <2>5, <2>6, PartIs
      <3> QED
        BY <2>1, <3>1, <3>2 DEF PartsOf
    <2>7. CASE p.kind \notin TalkKinds
      <3>1. p \in ToolsOf(R2)
        BY <2>2, <2>3, <2>5, <2>7, PartIs
      <3>2. CASE p \in CallParts
        <4>1. ~Crushed(p)
          BY <3>2, ToolIs DEF Crushed
        <4>2. CrushPart(p) = p
          BY <4>1, Zenon DEF CrushPart
        <4> QED
          BY <2>1, <3>2, <4>2 DEF PartsOf, ToolsOf
      <3>3. CASE p \in ResultParts(R2)
        <4>1. CrushPart(p) \in ResultParts(S)
          BY <1>7, <1>8, <2>4, <3>3, CrushedAccounted
        <4> QED
          BY <2>1, <4>1 DEF PartsOf, ToolsOf
      <3> QED
        BY <3>1, <3>2, <3>3 DEF ToolsOf
    <2> QED
      BY <2>6, <2>7
  <1>11. crushed \in Seq(MessagesOf(Talk2, ToolsOf(S)))
    <2>1. PICK P2 : P2 = PartsOf(Talk2, ToolsOf(S))
      OBVIOUS
    <2>2. /\ Fits(crushed, aligned)
          /\ \A i \in DOMAIN aligned : \A j \in DOMAIN aligned[i].parts :
                crushed[i].parts[j] = CrushPart(aligned[i].parts[j])
      BY <1>2, CrushedFits
    <2>3. \A i \in DOMAIN aligned : \A j \in DOMAIN aligned[i].parts : crushed[i].parts[j] \in P2
      BY <1>10, <2>1, <2>2
    <2>4. crushed \in Seq([role : Roles, parts : Seq(P2)])
      BY <1>9, <2>2, <2>3, EachTyped
    <2> QED
      BY <2>1, <2>4 DEF MessagesOf
  <1>12. Trim(crushed) \in Seq(MessagesOf(Shortened(Talk), ToolsOf(S)))
    BY <1>5, <1>11, TrimTyped DEF Shortened
  <1>13. \A t \in S : Accounted(t, originals)
    BY <1>7, <1>8, CrushedAccounted
  <1> QED
    BY <1>4, <1>12, <1>13

\* Compression brings no value.
LEMMA ShortenedClean ==
    ASSUME NEW Talk, \A w \in Talk : ~Sure(w)
    PROVE  \A w \in Shortened(Talk) : ~Sure(w)
  <1>1. \A w : Sure(w) => w[1] = "value"
    BY DEF Sure, Is
  <1>2. \A w \in Talk : ~Sure(AlignWord(w))
    <2>1. ASSUME NEW w PROVE AlignWord(w) = w \/ AlignWord(w) = <<"placeholder", w[2], 0>>
      BY DEF AlignWord
    <2>2. ASSUME NEW w PROVE ~Sure(<<"placeholder", w[2], 0>>)
      <3>1. PICK a : a = <<"placeholder", w[2], 0>>
        OBVIOUS
      <3>2. a[1] = "placeholder"
        BY <3>1
      <3> QED
        BY <1>1, <3>1, <3>2
    <2> QED
      BY <2>1, <2>2
  <1>3. \A n : ~Sure(Gap(n))
    <2>1. ASSUME NEW n PROVE ~Sure(Gap(n))
      <3>1. PICK a : a = Gap(n)
        OBVIOUS
      <3>2. a[1] = "gap"
        BY <3>1 DEF Gap
      <3> QED
        BY <1>1, <3>1, <3>2
    <2> QED
      BY <2>1
  <1> QED
    BY <1>2, <1>3 DEF Shortened, Aligned, Gaps
-----------------------------------------------------------------------------
(* The request after the plugins.                                            *)

\* More originals account for what fewer did.
LEMMA AccountedGrows ==
    ASSUME NEW text, NEW A, NEW B, A \subseteq B, Accounted(text, A)
    PROVE  Accounted(text, B)
  BY DEF Accounted

\* What a tool returned has no markers.
LEMMA OutputsClear == \A t \in Outputs : Clear(t) /\ t \in Seq(ToSet(t))
  BY TextsAssumption DEF IsText, Clear

\* A text without markers has nothing to account for.
LEMMA ClearAccounted ==
    ASSUME NEW text, Clear(text), NEW originals
    PROVE  Accounted(text, originals)
  <1>1. PICK W : text \in Seq(W) /\ \A w \in W : w[1] \notin {"omitted", "hash"}
    BY DEF Clear
  <1>2. \A w \in ToSet(text) : w[1] # "hash"
    BY <1>1, WordsOf
  <1> QED
    BY <1>2, UnmarkedAccounted

\* Nor does a replacement bring one.
LEMMA SubstitutedClear ==
    ASSUME NEW text, Clear(text), NEW S, NEW mode, NEW vault
    PROVE  Clear(Substituted(text, S, mode, vault))
  <1>1. PICK W : text \in Seq(W) /\ \A w \in W : w[1] \notin {"omitted", "hash"}
    BY DEF Clear
  <1>2. Substituted(text, S, mode, vault) \in Seq(Replaced(W, S, mode, vault))
    BY <1>1, SubstitutedTyped
  <1>3. \A w \in Replaced(W, S, mode, vault) : w[1] \notin {"omitted", "hash"}
    BY <1>1, ReplacementIs DEF Replaced
  <1> QED
    BY <1>2, <1>3 DEF Clear

\* A body whose results account for what they leave out and, if it is to be
\* clean, in which no value that is sure is said.
Carried(body, originals, clean) ==
    \E Talk, S : /\ body \in BodiesOf(Talk, ToolsOf(S))
                 /\ \A t \in S : Accounted(t, originals)
                 /\ clean => \A w \in Talk : ~Sure(w)

\* More originals and less to ask for.
LEMMA CarriedGrows ==
    ASSUME NEW body, NEW A, NEW B, A \subseteq B, NEW c, NEW d, d => c, Carried(body, A, c)
    PROVE  Carried(body, B, d)
  BY AccountedGrows DEF Carried

\* A body of clear results.
LEMMA ClearCarried ==
    ASSUME NEW Talk, NEW R, \A t \in R : Clear(t), NEW body \in BodiesOf(Talk, ToolsOf(R)),
           NEW originals, NEW clean, clean => \A w \in Talk : ~Sure(w)
    PROVE  Carried(body, originals, clean)
  BY ClearAccounted DEF Carried

\* The client's bytes made anew.
LEMMA EncodeCarried ==
    ASSUME NEW d \in {"anthropic", "openai"}, NEW ir, NEW originals, NEW clean,
           Carried(ir, originals, clean)
    PROVE  Carried(Encode(d, ir), originals, clean)
  <1>1. PICK Talk, S : /\ ir \in BodiesOf(Talk, ToolsOf(S))
                       /\ \A t \in S : Accounted(t, originals)
                       /\ clean => \A w \in Talk : ~Sure(w)
    BY DEF Carried
  <1>2. AreTools(ToolsOf(S))
    BY ToolIs
  <1>3. Encode(d, ir) \in BodiesOf(Talk, ToolsOf(S))
    <2>1. ToAnthropic(ir) \in BodiesOf(Talk, ToolsOf(S))
      BY <1>1, <1>2, ToAnthropicTyped
    <2>2. ToOpenAI(ir) \in BodiesOf(Talk, ToolsOf(S))
      BY <1>1, <1>2, ToOpenAITyped
    <2>3. CASE d = "anthropic"
      <3>1. Encode(d, ir) = ToAnthropic(ir)
        BY <2>3, Zenon DEF Encode
      <3> QED
        BY <2>1, <3>1
    <2>4. CASE d = "openai"
      <3>1. Encode(d, ir) = ToOpenAI(ir)
        BY <2>4, Zenon DEF Encode
      <3> QED
        BY <2>2, <3>1
    <2> QED
      BY <2>3, <2>4
  <1> QED
    BY <1>1, <1>3 DEF Carried

\* Whether the neutral form of what the warden leaves is to be clean, and the
\* client's bytes.
IrClean(safe) == Rewriting /\ ~safe.failed
RawClean(safe) == Rewriting /\ ~safe.failed /\ ~safe.misplaced

\* Both forms of it, as substitutions.
LEMMA SanitizeRequestIs ==
    ASSUME NEW ir, NEW raw, NEW safe, safe = SanitizeRequest(policy, ir, raw)
    PROVE  \E vault :
              /\ safe.ir = SanitizedBody(ir, policy.mode, vault)
              /\ safe.raw = Mirror(raw, policy.mode, vault, Acted(Fields(ir)))
              /\ safe.failed <=> \E k \in DOMAIN Fields(ir) : Panicked(Fields(ir)[k])
              /\ safe.misplaced <=> \E k \in DOMAIN Fields(ir) : Misplaced(Fields(ir)[k])
  <1>1. PICK fields : fields = Fields(ir)
    OBVIOUS
  <1>2. PICK vault : vault = IF policy.mode = "tokenize" THEN Minted(fields) ELSE <<>>
    OBVIOUS
  <1>3. PICK values : values = Acted(fields)
    OBVIOUS
  <1>4. PICK blocked : blocked =
            \E f \in {g \in UNION {ToSet(Findings(fields[k])) : k \in DOMAIN fields} : ActsOn(g)} : Blocks(f)
    OBVIOUS
  <1>5. PICK failed : failed = \E k \in DOMAIN fields : Panicked(fields[k])
    OBVIOUS
  <1>6. PICK misplaced : misplaced = \E k \in DOMAIN fields : Misplaced(fields[k])
    OBVIOUS
  <1>7. safe = [ir |-> SanitizedBody(ir, policy.mode, vault),
                raw |-> Mirror(raw, policy.mode, vault, values),
                vault |-> vault, acted |-> values, blocked |-> blocked,
                failed |-> failed, misplaced |-> misplaced]
    BY <1>1, <1>2, <1>3, <1>4, <1>5, <1>6, Zenon DEF SanitizeRequest, Acted
  <1>8. /\ safe.ir = SanitizedBody(ir, policy.mode, vault)
        /\ safe.raw = Mirror(raw, policy.mode, vault, values)
        /\ safe.failed = failed /\ safe.misplaced = misplaced
    BY <1>7
  <1> QED
    BY <1>1, <1>3, <1>5, <1>6, <1>8, Zenon

\* The neutral form is a request of words that are clean if they are to be.
LEMMA SafeIrTyped ==
    ASSUME NEW Talk, NEW ir \in BodiesOf(Talk, ToolsOf(Outputs)), AllPlain(ir.messages),
           NEW raw, NEW safe, safe = Safe(ir, raw)
    PROVE  \E Talk2 : /\ safe.ir \in BodiesOf(Talk2, ToolsOf(Outputs))
                      /\ IrClean(safe) => \A w \in Talk2 : ~Sure(w)
  <1>1. CASE policy.mode = "off"
    <2>1. safe.ir = ir /\ ~IrClean(safe)
      BY <1>1 DEF Safe, Unscanned, IrClean, Rewriting
    <2> QED
      BY <2>1
  <1>2. CASE policy.mode # "off"
    <2>1. safe = SanitizeRequest(policy, ir, raw)
      BY <1>2 DEF Safe
    <2>2. PICK vault :
              /\ safe.ir = SanitizedBody(ir, policy.mode, vault)
              /\ safe.failed <=> \E k \in DOMAIN Fields(ir) : Panicked(Fields(ir)[k])
      BY <2>1, SanitizeRequestIs
    <2>3. PICK mode : mode = policy.mode
      OBVIOUS
    <2>4. PICK clean : clean = IrClean(safe)
      OBVIOUS
    <2>5. clean => mode # "block_only" /\ \A k \in DOMAIN Fields(ir) : ~Panicked(Fields(ir)[k])
      BY <2>2, <2>3, <2>4 DEF IrClean, Rewriting
    <2>6. AreTools(ToolsOf(Outputs))
      BY ToolIs
    <2>7. \E T : /\ SanitizedBody(ir, mode, vault) \in BodiesOf(T, ToolsOf(Outputs))
                 /\ clean => \A w \in T : ~Sure(w)
      BY <2>5, <2>6, SanitizedTyped
    <2> QED
      BY <2>2, <2>3, <2>4, <2>7
  <1> QED
    BY <1>1, <1>2

\* The client's bytes as the warden leaves them: what is said in them is what
\* was scanned, up to a word that is no sure value.
LEMMA SafeRawTyped ==
    ASSUME NEW Talk, NEW raw \in BodiesOf(Talk, ToolsOf(Outputs)), NEW ir,
           NEW safe, safe = Safe(ir, raw),
           NEW x, ~Sure(x), SaidIn(raw, WordsIn(Fields(ir)) \cup {x}), NEW originals
    PROVE  Carried(safe.raw, originals, RawClean(safe))
  <1>0. \A t \in Outputs : Clear(t) /\ t \in Seq(ToSet(t))
    BY OutputsClear
  <1>1. CASE policy.mode = "off"
    <2>1. safe.raw = raw /\ ~RawClean(safe)
      BY <1>1 DEF Safe, Unscanned, RawClean, Rewriting
    <2> QED
      BY <1>0, <2>1, ClearCarried
  <1>2. CASE policy.mode # "off"
    <2>0. safe = SanitizeRequest(policy, ir, raw)
      BY <1>2 DEF Safe
    <2>1. PICK mode : mode = policy.mode
      OBVIOUS
    <2>2. PICK S : S = Acted(Fields(ir))
      OBVIOUS
    <2>3. PICK vault :
              /\ safe.raw = Mirror(raw, mode, vault, S)
              /\ safe.failed <=> \E k \in DOMAIN Fields(ir) : Panicked(Fields(ir)[k])
              /\ safe.misplaced <=> \E k \in DOMAIN Fields(ir) : Misplaced(Fields(ir)[k])
      BY <2>0, <2>1, <2>2, SanitizeRequestIs
    <2>4. PICK D : D = WordsIn(Fields(ir)) \cup {x}
      OBVIOUS
    <2>5. AreTools(ToolsOf(Outputs))
      BY ToolIs
    <2>6. raw \in BodiesOf(D, ToolsOf(Outputs))
      BY <2>4, <2>5, SaidTyped
    <2>7. \A w \in S : w[1] # "args"
      BY <2>2, ActedIs
    <2>8. PICK R : R = {Substituted(t, S, mode, vault) : t \in Outputs}
      OBVIOUS
    <2>9. Mirror(raw, mode, vault, S) \in BodiesOf(Replaced(D, S, mode, vault), ToolsOf(R))
      BY <1>0, <2>6, <2>7, <2>8, MirrorTyped
    <2>10. RawClean(safe) => \A w \in Replaced(D, S, mode, vault) : ~Sure(w)
      <3> SUFFICES ASSUME RawClean(safe) PROVE \A w \in Replaced(D, S, mode, vault) : ~Sure(w)
        OBVIOUS
      <3>1. \A k \in DOMAIN Fields(ir) : ~Panicked(Fields(ir)[k]) /\ ~Misplaced(Fields(ir)[k])
        BY <2>3 DEF RawClean
      <3>2. \A w \in WordsIn(Fields(ir)) : Sure(w) => w \in S
        BY <2>2, <3>1, SureActed
      <3>3. \A w \in D : Sure(w) => w \in S
        BY <2>4, <3>2
      <3> QED
        BY <3>3, CleanIs
    <2>11. \A t \in R : Clear(t)
      BY <1>0, <2>8, SubstitutedClear
    <2> QED
      BY <2>3, <2>9, <2>10, <2>11, ClearCarried
  <1> QED
    BY <1>1, <1>2

\* What is said is in any larger set.
LEMMA SaidInGrows ==
    ASSUME NEW body, NEW D, NEW D2, D \subseteq D2, SaidIn(body, D)
    PROVE  SaidIn(body, D2)
  BY DEF SaidIn, Within, PartsIn

\* A decoded request, or one with a report in the place of a command.
IsAsked(ir, decoded) ==
    \/ ir = decoded
    \/ LET text == LastUserText(decoded.messages)
       IN  ir = Injected(decoded, text) /\ text # <<>> /\ Is(text[1], "command")

\* What the plugins get: nothing said in the client's bytes is missing in it
\* but the command.
LEMMA AskedIs ==
    ASSUME NEW d \in {"anthropic", "openai", "responses"}, NEW Talk,
           NEW body \in FineBodies(d, Talk, ToolsOf(Outputs)), NEW ir, IsAsked(ir, Decode(d, body))
    PROVE  /\ \E Talk2 : ir \in BodiesOf(Talk2, ToolsOf(Outputs))
           /\ AllPlain(ir.messages)
           /\ \E x : /\ ~Sure(x)
                     /\ d \in {"anthropic", "openai"} => SaidIn(body, WordsIn(Fields(ir)) \cup {x})
  <1>1. AreTools(ToolsOf(Outputs))
    BY ToolIs
  <1>2. PICK decoded : decoded = Decode(d, body)
    OBVIOUS
  <1>3. /\ decoded \in BodiesOf(Talk, ToolsOf(Outputs)) /\ AllPlain(decoded.messages)
        /\ \A D : d \in {"anthropic", "openai"} /\ SaidIn(decoded, D) => SaidIn(body, D)
    BY <1>1, <1>2, Decoded
  <1>4. PICK text : text = LastUserText(decoded.messages)
    OBVIOUS
  <1>5. CASE ir = decoded
    <2>1. PICK x : x = <<"plain", "", 0>>
      OBVIOUS
    <2>2. ~Sure(x)
      <3>1. x[1] = "plain"
        BY <2>1
      <3> QED
        BY <3>1 DEF Sure, Is
    <2>3. PICK D : D = WordsIn(Fields(ir))
      OBVIOUS
    <2>4. SaidIn(ir, D)
      BY <1>1, <1>3, <1>5, <2>3, FieldsHave
    <2>5. d \in {"anthropic", "openai"} => SaidIn(body, D)
      BY <1>3, <1>5, <2>4
    <2>6. d \in {"anthropic", "openai"} => SaidIn(body, D \cup {x})
      BY <2>5, SaidInGrows
    <2> QED
      BY <1>3, <1>5, <2>2, <2>3, <2>6
  <1>6. CASE ir = Injected(decoded, text) /\ text # <<>> /\ Is(text[1], "command")
    <2>1. /\ text \in Seq(Talk)
          /\ ir \in BodiesOf(Talk \cup {ReportOf(text)}, ToolsOf(Outputs))
          /\ \A D : SaidIn(ir, D) => SaidIn(decoded, D \cup {text[1]})
          /\ AllPlain(ir.messages)
      BY <1>1, <1>3, <1>4, <1>6, InjectedIs
    <2>2. PICK x : x = text[1]
      OBVIOUS
    <2>3. ~Sure(x)
      BY <1>6, <2>2 DEF Sure, Is
    <2>4. PICK D : D = WordsIn(Fields(ir))
      OBVIOUS
    <2>5. SaidIn(ir, D)
      BY <1>1, <2>1, <2>4, FieldsHave
    <2>6. SaidIn(decoded, D \cup {x})
      BY <2>1, <2>2, <2>5
    <2>7. d \in {"anthropic", "openai"} => SaidIn(body, D \cup {x})
      BY <1>3, <2>6
    <2> QED
      BY <2>1, <2>3, <2>4, <2>7
  <1> QED
    BY <1>2, <1>4, <1>5, <1>6 DEF IsAsked

\* A request after compression.
LEMMA CompressedCarried ==
    ASSUME NEW Talk, NEW ir \in BodiesOf(Talk, ToolsOf(Outputs)), NEW clean,
           clean => \A w \in Talk : ~Sure(w)
    PROVE  Carried([ir EXCEPT !.messages = Compress(ir.messages).messages],
                   Compress(ir.messages).stored, clean)
  <1>1. PICK messages : messages = ir.messages
    OBVIOUS
  <1>2. PICK out : out = Compress(messages)
    OBVIOUS
  <1>3. ir.system \in Seq(Talk) /\ messages \in Seq(MessagesOf(Talk, ToolsOf(Outputs)))
    BY <1>1, BodyIs
  <1>4. \A t \in Outputs : Clear(t)
    BY OutputsClear
  <1>5. PICK S : /\ out.messages \in Seq(MessagesOf(Shortened(Talk), ToolsOf(S)))
                 /\ \A t \in S : Accounted(t, out.stored)
    BY <1>2, <1>3, <1>4, CompressTyped
  <1>6. [ir EXCEPT !.messages = out.messages] = Body(ir.system, out.messages)
    <2>1. ir = [system |-> ir.system, messages |-> ir.messages]
      BY DEF BodiesOf
    <2> QED
      BY <2>1 DEF Body
  <1>7. ir.system \in Seq(Shortened(Talk))
    <2>1. Talk \subseteq Shortened(Talk)
      BY DEF Shortened, Aligned
    <2> QED
      BY <1>3, <2>1, PartsGrow
  <1>8. [ir EXCEPT !.messages = out.messages] \in BodiesOf(Shortened(Talk), ToolsOf(S))
    BY <1>5, <1>6, <1>7, BodyTyped
  <1>9. clean => \A w \in Shortened(Talk) : ~Sure(w)
    BY ShortenedClean
  <1>10. PICK final : final = [ir EXCEPT !.messages = out.messages]
    OBVIOUS
  <1>11. Carried(final, out.stored, clean)
    BY <1>5, <1>8, <1>9, <1>10 DEF Carried
  <1> QED
    BY <1>1, <1>2, <1>10, <1>11

\* What the executor gets.
LEMMA PreparedIs ==
    ASSUME dialect \in {"anthropic", "openai", "responses"}, NEW Talk,
           NEW body \in FineBodies(dialect, Talk, ToolsOf(Outputs)),
           NEW ir, IsAsked(ir, Decode(dialect, body)), NEW safe, safe = Safe(ir, body),
           NEW asked, NEW injected, NEW all, all = store \cup Stored(safe)
    PROVE  /\ Prepared(asked, safe, injected).asked = asked
           /\ Prepared(asked, safe, injected).whole = ~safe.failed
           /\ Prepared(asked, safe, injected).placed = ~safe.misplaced
           /\ Carried(Prepared(asked, safe, injected).ir, all, IrClean(safe))
           /\ dialect \in {"anthropic", "openai"} =>
                 Carried(Prepared(asked, safe, injected).raw, all, RawClean(safe))
  <1>1. /\ \E Talk2 : ir \in BodiesOf(Talk2, ToolsOf(Outputs))
        /\ AllPlain(ir.messages)
        /\ \E x : /\ ~Sure(x)
                  /\ dialect \in {"anthropic", "openai"} =>
                        SaidIn(body, WordsIn(Fields(ir)) \cup {x})
    BY AskedIs
  <1>2. PICK clean, rawClean : clean = IrClean(safe) /\ rawClean = RawClean(safe)
    OBVIOUS
  <1>a. rawClean => clean
    BY <1>2 DEF IrClean, RawClean
  <1>3. PICK Talk2 : /\ safe.ir \in BodiesOf(Talk2, ToolsOf(Outputs))
                     /\ clean => \A w \in Talk2 : ~Sure(w)
    BY <1>1, <1>2, SafeIrTyped
  <1>4. dialect \in {"anthropic", "openai"} => Carried(safe.raw, all, rawClean)
    <2>1. body \in BodiesOf(Talk, ToolsOf(Outputs))
      BY FineTyped
    <2> QED
      BY <1>1, <1>2, <2>1, SafeRawTyped
  <1>5. PICK final : final = IF Compresses(safe.ir.messages)
                             THEN [safe.ir EXCEPT !.messages = Compress(safe.ir.messages).messages]
                             ELSE safe.ir
    OBVIOUS
  <1>6. PICK made2 : made2 = Prepared(asked, safe, injected)
    OBVIOUS
  <1>7. made2 = [asked |-> asked, ir |-> final,
                 raw |-> Refresh(safe.raw, final, Compresses(safe.ir.messages)),
                 vault |-> safe.vault, acted |-> safe.acted, whole |-> ~safe.failed,
                 placed |-> ~safe.misplaced, injected |-> injected]
    BY <1>5, <1>6, Zenon DEF Prepared
  <1>8. all = store \cup IF Compresses(safe.ir.messages) THEN Compress(safe.ir.messages).stored ELSE {}
    BY Zenon DEF Stored
  <1>9. Carried(final, all, clean)
    <2>1. CASE Compresses(safe.ir.messages)
      <3>1. PICK stored : stored = Compress(safe.ir.messages).stored
        OBVIOUS
      <3>2. Carried(final, stored, clean)
        BY <1>3, <1>5, <2>1, <3>1, CompressedCarried
      <3>3. stored \subseteq all
        BY <1>8, <2>1, <3>1
      <3> QED
        BY <3>2, <3>3, CarriedGrows
    <2>2. CASE ~Compresses(safe.ir.messages)
      BY <1>3, <1>5, <2>2, OutputsClear, ClearCarried
    <2> QED
      BY <2>1, <2>2
  <1>10. dialect \in {"anthropic", "openai"} => Carried(made2.raw, all, rawClean)
    <2>1. made2.raw = IF Compresses(safe.ir.messages) THEN Encode(dialect, final) ELSE safe.raw
      BY <1>7 DEF Refresh
    <2>2. dialect \in {"anthropic", "openai"} => Carried(Encode(dialect, final), all, clean)
      BY <1>9, EncodeCarried
    <2>3. dialect \in {"anthropic", "openai"} => Carried(Encode(dialect, final), all, rawClean)
      BY <1>a, <2>2, CarriedGrows
    <2> QED
      BY <1>4, <2>1, <2>3
  <1>11. /\ made2.asked = asked /\ made2.whole = ~safe.failed /\ made2.placed = ~safe.misplaced
         /\ made2.ir = final
    BY <1>7
  <1> QED
    BY <1>2, <1>6, <1>9, <1>10, <1>11
-----------------------------------------------------------------------------
(* What goes to a provider.                                                  *)

\* A call whose signature is the one the cache has for its id, if any.
HasOwn(p, sig) == \E n \in Nat : /\ p.text[1] = <<"args", "", n>>
                                 /\ p.sig = IF n \in DOMAIN sig THEN sig[n] ELSE Bypass

\* A body for a provider: no value that is sure is said in it if it is to be
\* clean, its results account for what they leave out and, if it is for
\* Gemini, its calls have the signatures of the cache.
Goes(body, originals, clean, signed, sig) ==
    \E Talk, Tools :
        /\ AreTools(Tools) /\ body \in BodiesOf(Talk, Tools)
        /\ clean => \A w \in Talk : ~Sure(w)
        /\ \A p \in Tools : p.kind = "result" => Accounted(p.text, originals)
        /\ signed => \A p \in Tools : p.kind = "call" => HasOwn(p, sig)

\* The request in a provider's form, and the client's bytes.
LEMMA GoesToProvider ==
    ASSUME NEW provider \in {"anthropic", "openai", "gemini"}, NEW ir, NEW originals, NEW clean,
           Carried(ir, originals, clean), NEW sig
    PROVE  /\ Goes(ToProvider(provider, ir, sig), originals, clean, provider = "gemini", sig)
           /\ provider # "gemini" => Goes(ir, originals, clean, provider = "gemini", sig)
  <1>1. PICK Talk, S : /\ ir \in BodiesOf(Talk, ToolsOf(S))
                       /\ \A t \in S : Accounted(t, originals)
                       /\ clean => \A w \in Talk : ~Sure(w)
    BY DEF Carried
  <1>2. AreTools(ToolsOf(S))
    BY ToolIs
  <1>3. \A p \in ToolsOf(S) : p.kind = "result" => Accounted(p.text, originals)
    <2>1. ASSUME NEW p \in ToolsOf(S), p.kind = "result" PROVE p.text \in S
      <3>1. p \in ResultParts(S)
        BY <2>1, ToolIs
      <3> QED
        BY <3>1, ToolIs
    <2> QED
      BY <1>1, <2>1
  <1>4. \A body \in BodiesOf(Talk, ToolsOf(S)) :
            provider # "gemini" => Goes(body, originals, clean, provider = "gemini", sig)
    BY <1>1, <1>2, <1>3 DEF Goes
  <1>5. CASE provider = "anthropic"
    <2>1. ToProvider(provider, ir, sig) = ToAnthropic(ir)
      BY <1>5, Zenon DEF ToProvider
    <2>2. ToAnthropic(ir) \in BodiesOf(Talk, ToolsOf(S))
      BY <1>1, <1>2, ToAnthropicTyped
    <2> QED
      BY <1>1, <1>4, <1>5, <2>1, <2>2
  <1>6. CASE provider = "openai"
    <2>1. ToProvider(provider, ir, sig) = ToOpenAI(ir)
      BY <1>6, Zenon DEF ToProvider
    <2>2. ToOpenAI(ir) \in BodiesOf(Talk, ToolsOf(S))
      BY <1>1, <1>2, ToOpenAITyped
    <2> QED
      BY <1>1, <1>4, <1>6, <2>1, <2>2
  <1>7. CASE provider = "gemini"
    <2>1. ToProvider(provider, ir, sig) = ToGemini(ir, sig)
      BY <1>7, Zenon DEF ToProvider
    <2>2. PICK Tools : Tools = GeminiTools(S, ir.messages, sig)
      OBVIOUS
    <2>3. ToGemini(ir, sig) \in BodiesOf(Talk, Tools)
      BY <1>1, <2>2, ToGeminiTyped
    <2>4. /\ AreTools(Tools)
          /\ \A q \in Tools :
                /\ q.kind = "call" =>
                     \E n \in Nat : /\ q.text[1] = <<"args", "", n>>
                                    /\ q.sig = IF n \in DOMAIN sig THEN sig[n] ELSE Bypass
                /\ q.kind = "result" => q.text \in S
      BY <2>2, GeminiToolIs
    <2>5. \A p \in Tools : p.kind = "result" => Accounted(p.text, originals)
      BY <1>1, <2>4
    <2>6. \A p \in Tools : p.kind = "call" => HasOwn(p, sig)
      BY <2>4 DEF HasOwn
    <2>7. Goes(ToGemini(ir, sig), originals, clean, provider = "gemini", sig)
      BY <1>1, <2>3, <2>4, <2>5, <2>6 DEF Goes
    <2> QED
      BY <1>7, <2>1, <2>7
  <1> QED
    BY <1>5, <1>6, <1>7

\* What is in a body that goes to a provider.
LEMMA GoesIs ==
    ASSUME NEW body, NEW originals, NEW clean, NEW signed, NEW sig,
           Goes(body, originals, clean, signed, sig)
    PROVE  /\ clean =>
                /\ \A w \in ToSet(body.system) : ~Sure(w)
                /\ \A p \in ToSet(AllParts(body.messages)) :
                      p.kind \notin {"call", "result"} => \A w \in ToSet(p.text) : ~Sure(w)
           /\ \A p \in ToSet(OfKind(AllParts(body.messages), "result")) : Accounted(p.text, originals)
           /\ signed => \A p \in ToSet(OfKind(AllParts(body.messages), "call")) : HasOwn(p, sig)
  <1>1. PICK Talk, Tools :
            /\ AreTools(Tools) /\ body \in BodiesOf(Talk, Tools)
            /\ clean => \A w \in Talk : ~Sure(w)
            /\ \A p \in Tools : p.kind = "result" => Accounted(p.text, originals)
            /\ signed => \A p \in Tools : p.kind = "call" => HasOwn(p, sig)
    BY DEF Goes
  <1>2. body.system \in Seq(Talk) /\ body.messages \in Seq(MessagesOf(Talk, Tools))
    BY <1>1, BodyIs
  <1>3. PICK parts : parts = AllParts(body.messages)
    OBVIOUS
  <1>4. PICK P : P = PartsOf(Talk, Tools)
    OBVIOUS
  <1>5. parts \in Seq(P)
    BY <1>2, <1>3, <1>4, AllPartsTyped
  <1>6. \A p \in ToSet(parts) : p \in P
    BY <1>5, WordsOf
  <1>7. ASSUME clean
        PROVE  /\ \A w \in ToSet(body.system) : ~Sure(w)
               /\ \A p \in ToSet(parts) :
                     p.kind \notin {"call", "result"} => \A w \in ToSet(p.text) : ~Sure(w)
    <2>1. \A w \in ToSet(body.system) : ~Sure(w)
      BY <1>1, <1>2, <1>7, WordsOf
    <2>2. ASSUME NEW p \in ToSet(parts), p.kind \notin {"call", "result"}, NEW w \in ToSet(p.text)
          PROVE  ~Sure(w)
      <3>1. p.text \in Seq(Talk)
        BY <1>1, <1>4, <1>6, <2>2, PartIs
      <3>2. w \in Talk
        BY <2>2, <3>1, WordsOf
      <3> QED
        BY <1>1, <1>7, <3>2
    <2> QED
      BY <2>1, <2>2
  <1>8. \A kind \in {"call", "result"} : \A p \in ToSet(OfKind(parts, kind)) : p \in Tools /\ p.kind = kind
    <2>1. ASSUME NEW kind \in {"call", "result"}, NEW p \in ToSet(OfKind(parts, kind))
          PROVE  p \in Tools /\ p.kind = kind
      <3>1. kind \notin TalkKinds
        BY DEF TalkKinds
      <3>2. PICK K : K = {q \in P : q.kind = kind}
        OBVIOUS
      <3>3. OfKind(parts, kind) \in Seq(Tools) /\ OfKind(parts, kind) \in Seq(K)
        <4>1. parts \in Seq(PartsOf(Talk, Tools))
          BY <1>4, <1>5
        <4>a. AreTools(Tools)
          BY <1>1
        <4>b. OfKind(parts, kind) \in Seq(Tools)
          BY <3>1, <4>1, <4>a, OfKindTyped
        <4>c. OfKind(parts, kind) \in Seq({q \in PartsOf(Talk, Tools) : q.kind = kind})
          BY <4>1, <4>a, OfKindTyped
        <4> QED
          BY <1>4, <3>2, <4>b, <4>c
      <3>4. p \in Tools /\ p \in K
        BY <2>1, <3>3, WordsOf
      <3> QED
        BY <3>2, <3>4
    <2> QED
      BY <2>1
  <1>9. \A p \in ToSet(OfKind(parts, "result")) : Accounted(p.text, originals)
    BY <1>1, <1>8
  <1>10. signed => \A p \in ToSet(OfKind(parts, "call")) : HasOwn(p, sig)
    BY <1>1, <1>8
  <1> QED
    BY <1>3, <1>7, <1>9, <1>10
-----------------------------------------------------------------------------
(* What the client keeps of an answer.                                       *)

\* The messages of a dialect that follow the system text.
NewMessages(d, Talk) ==
    {m \in FineMessages(d, Talk, ToolsOf(Outputs)) : m.role # "system"}

\* A message of parts that fit the dialect.
LEMMA NewMessageIs ==
    ASSUME NEW d \in {"anthropic", "openai", "responses"}, NEW Talk, NEW role \in Roles \ {"system"},
           NEW parts \in Seq(PartsOf(Talk, ToolsOf(Outputs))),
           \/ /\ d = "anthropic"
              /\ \A j \in DOMAIN parts : parts[j].kind = "redacted_thinking" => parts[j].text = <<>>
           \/ /\ d = "openai" /\ role = "assistant"
              /\ \A j \in DOMAIN parts : parts[j].kind \in {"text", "call"}
           \/ /\ d = "openai" /\ role \in {"user", "tool"} /\ Plain(parts)
           \/ /\ d = "responses" /\ Plain(parts)
              /\ role \in {"function_call", "function_call_output"} => parts # <<>>
              /\ role = "reasoning" => \A j \in DOMAIN parts : parts[j].kind = "text"
    PROVE  Message(role, parts) \in NewMessages(d, Talk)
  <1>1. PICK m : m = Message(role, parts)
    OBVIOUS
  <1>2. m.role = role /\ m.parts = parts
    BY <1>1, MessageFields
  <1>3. m \in MessagesOf(Talk, ToolsOf(Outputs))
    BY <1>1, MessageTyped
  <1>4. role # "system"
    OBVIOUS
  <1>5. CASE /\ d = "anthropic"
             /\ \A j \in DOMAIN parts : parts[j].kind = "redacted_thinking" => parts[j].text = <<>>
    <2>1. Fine("anthropic", m)
      BY <1>2, <1>4, <1>5, FineIs
    <2> QED
      BY <1>1, <1>2, <1>3, <1>5, <2>1 DEF NewMessages, FineMessages
  <1>6. CASE /\ d = "openai" /\ role = "assistant"
             /\ \A j \in DOMAIN parts : parts[j].kind \in {"text", "call"}
    <2>1. Fine("openai", m)
      BY <1>2, <1>4, <1>6, FineIs
    <2>2. Plain(m.parts)
      BY <1>2, <1>6 DEF Plain
    <2> QED
      BY <1>1, <1>2, <1>3, <1>6, <2>1, <2>2 DEF NewMessages, FineMessages
  <1>7. CASE d = "openai" /\ role \in {"user", "tool"} /\ Plain(parts)
    <2>1. Fine("openai", m)
      BY <1>2, <1>4, <1>7, FineIs
    <2> QED
      BY <1>1, <1>2, <1>3, <1>7, <2>1 DEF NewMessages, FineMessages
  <1>8. CASE /\ d = "responses" /\ Plain(parts)
             /\ role \in {"function_call", "function_call_output"} => parts # <<>>
             /\ role = "reasoning" => \A j \in DOMAIN parts : parts[j].kind = "text"
    <2>1. Fine("responses", m)
      BY <1>2, <1>4, <1>8, FineIs
    <2> QED
      BY <1>1, <1>2, <1>3, <1>8, <2>1 DEF NewMessages, FineMessages
  <1> QED
    BY <1>5, <1>6, <1>7, <1>8

\* The parts of an answer in the neutral form.
NeutralBlocks(Talk) == Neutral(Talk, CallParts)

\* What they are.
LEMMA BlockIs ==
    ASSUME NEW Talk, NEW p \in NeutralBlocks(Talk)
    PROVE  /\ p \in PartsOf(Talk, CallParts) /\ p \in PartsOf(Talk, ToolsOf(Outputs))
           /\ p.kind \in {"text", "reasoning", "call"}
           /\ p.kind # "call" => p \in TalkParts(Talk) /\ p.text \in Seq(Talk)
           /\ p.kind = "call" => p \in CallParts
  <1>1. p \in PartsOf(Talk, CallParts) /\ p.kind \in {"text", "reasoning", "call", "result"}
    BY DEF NeutralBlocks, Neutral
  <1>2. AreTools(CallParts)
    BY ToolIs
  <1>3. p.kind # "result"
    <2>1. CASE p.kind \in TalkKinds
      BY <2>1 DEF TalkKinds
    <2>2. CASE p.kind \notin TalkKinds
      <3>1. p \in CallParts
        BY <1>1, <1>2, <2>2, PartIs
      <3> QED
        BY <3>1, ToolIs
    <2> QED
      BY <2>1, <2>2
  <1>4. p \in PartsOf(Talk, ToolsOf(Outputs))
    BY <1>1 DEF PartsOf, ToolsOf
  <1>5. p.kind # "call" => p \in TalkParts(Talk) /\ p.text \in Seq(Talk)
    BY <1>1, <1>2, <1>3, PartIs
  <1>6. p.kind = "call" => p \in CallParts
    BY <1>1, <1>2, PartIs DEF TalkKinds
  <1> QED
    BY <1>1, <1>3, <1>4, <1>5, <1>6

\* The answer in Anthropic's dialect.
LEMMA AnswerToAnthropicIs ==
    ASSUME NEW Talk, NEW blocks \in Seq(NeutralBlocks(Talk))
    PROVE  AnswerToAnthropic(blocks) \in Seq(NewMessages("anthropic", Talk))
  <1>1. PICK P : P = PartsOf(Talk, ToolsOf(Outputs))
    OBVIOUS
  <1>2. PICK parts : parts = [i \in DOMAIN blocks |-> PartToAnthropic(blocks[i])]
    OBVIOUS
  <1>3. AreTools(ToolsOf(Outputs))
    BY ToolIs
  <1>4. \A p \in NeutralBlocks(Talk) :
            /\ PartToAnthropic(p) \in P
            /\ PartToAnthropic(p).kind = "redacted_thinking" => PartToAnthropic(p).text = <<>>
    <2>1. ASSUME NEW p \in NeutralBlocks(Talk)
          PROVE  /\ PartToAnthropic(p) \in P
                 /\ PartToAnthropic(p).kind = "redacted_thinking" => PartToAnthropic(p).text = <<>>
      <3>1. p \in PartsOf(Talk, ToolsOf(Outputs)) /\ p.kind \in {"text", "reasoning", "call"}
        BY BlockIs
      <3>2. /\ PartToAnthropic(p) \in PartsOf(Talk, ToolsOf(Outputs))
            /\ p.kind \notin TalkKinds => PartToAnthropic(p) = p
            /\ p.kind \in {"text", "reasoning"} /\ PartToAnthropic(p).kind = "redacted_thinking" =>
                  PartToAnthropic(p).text = <<>>
        BY <1>3, <3>1, PartToAnthropicTyped
      <3>3. p.kind = "call" => PartToAnthropic(p).kind # "redacted_thinking"
        BY <3>2 DEF TalkKinds
      <3> QED
        BY <1>1, <3>1, <3>2, <3>3
    <2> QED
      BY <2>1
  <1>5. \A i \in DOMAIN blocks : blocks[i] \in NeutralBlocks(Talk)
    OBVIOUS
  <1>6. parts \in Seq(P)
    <2>1. parts \in [DOMAIN blocks -> P]
      BY <1>2, <1>4, <1>5
    <2> QED
      BY <2>1, MapTyped
  <1>7. \A j \in DOMAIN parts : parts[j].kind = "redacted_thinking" => parts[j].text = <<>>
    BY <1>2, <1>4, <1>5
  <1>8. "assistant" \in Roles \ {"system"}
    BY DEF Roles
  <1>9. PICK m : m = Message("assistant", parts)
    OBVIOUS
  <1>10. m \in NewMessages("anthropic", Talk)
    BY <1>1, <1>6, <1>7, <1>8, <1>9, NewMessageIs
  <1>11. AnswerToAnthropic(blocks) = <<m>>
    BY <1>2, <1>9 DEF AnswerToAnthropic
  <1> QED
    BY <1>10, <1>11

\* The joined text of an answer, and its calls.
LEMMA AnswerTextIs ==
    ASSUME NEW Talk, NEW blocks \in Seq(NeutralBlocks(Talk))
    PROVE  /\ Joined(blocks) \in Seq(Talk)
           /\ TextIfAny(Joined(blocks)) \o OfKind(blocks, "call")
                 \in Seq({p \in NeutralBlocks(Talk) : p.kind \in {"text", "call"}})
           /\ OfKind(blocks, "reasoning") \in Seq(NeutralBlocks(Talk))
           /\ OfKind(blocks, "text") \in Seq(NeutralBlocks(Talk))
  <1>1. PICK P : P = PartsOf(Talk, CallParts)
    OBVIOUS
  <1>2. blocks \in Seq(P)
    <2>1. NeutralBlocks(Talk) \subseteq P
      BY <1>1, BlockIs
    <2> QED
      BY <2>1
  <1>3. AreTools(CallParts)
    BY ToolIs
  <1>4. PICK text : text = Joined(blocks)
    OBVIOUS
  <1>5. text \in Seq(Talk)
    BY <1>1, <1>2, <1>3, <1>4, JoinedTyped
  <1>6. PICK B : B = {p \in NeutralBlocks(Talk) : p.kind \in {"text", "call"}}
    OBVIOUS
  <1>7. Text(text) \in B
    <2>1. Text(text) \in TalkParts(Talk) /\ Text(text).kind = "text"
      BY <1>5, TextTyped
    <2> QED
      BY <1>6, <2>1 DEF NeutralBlocks, Neutral, PartsOf
  <1>8. TextIfAny(text) \in Seq(B)
    <2>1. TextIfAny(text) = <<>> \/ TextIfAny(text) = <<Text(text)>>
      BY DEF TextIfAny
    <2>2. \A x \in B : <<x>> \in Seq(B)
      OBVIOUS
    <2>3. TextIfAny(text) = <<>> => TextIfAny(text) \in Seq(B)
      OBVIOUS
    <2> QED
      BY <1>7, <2>1, <2>2, <2>3
  <1>9. \A kind \in {"text", "call", "reasoning"} :
            OfKind(blocks, kind) \in Seq({p \in NeutralBlocks(Talk) : p.kind = kind})
    <2>1. ASSUME NEW kind \in {"text", "call", "reasoning"}
          PROVE  OfKind(blocks, kind) \in Seq({p \in NeutralBlocks(Talk) : p.kind = kind})
      <3>1. PICK K : K = {p \in NeutralBlocks(Talk) : p.kind = kind}
        OBVIOUS
      <3>2. PICK places : places = {i \in DOMAIN blocks : blocks[i].kind = kind}
        OBVIOUS
      <3>3. \A i \in DOMAIN blocks : i \in places => blocks[i] \in K
        BY <3>1, <3>2
      <3>4. At(blocks, places) \in Seq(K)
        BY <3>3, AtTyped
      <3> QED
        BY <3>1, <3>2, <3>4 DEF OfKind
    <2> QED
      BY <2>1
  <1>10. OfKind(blocks, "call") \in Seq(B)
    <2>1. {p \in NeutralBlocks(Talk) : p.kind = "call"} \subseteq B
      BY <1>6
    <2>2. OfKind(blocks, "call") \in Seq({p \in NeutralBlocks(Talk) : p.kind = "call"})
      BY <1>9
    <2> QED
      BY <2>1, <2>2
  <1>11. TextIfAny(text) \o OfKind(blocks, "call") \in Seq(B)
    BY <1>8, <1>10, ConcatIs
  <1>12. \A kind \in {"text", "reasoning"} : OfKind(blocks, kind) \in Seq(NeutralBlocks(Talk))
    BY <1>9
  <1> QED
    BY <1>4, <1>5, <1>6, <1>11, <1>12

\* The answer in OpenAI's dialect.
LEMMA AnswerToOpenAIIs ==
    ASSUME NEW Talk, NEW blocks \in Seq(NeutralBlocks(Talk))
    PROVE  AnswerToOpenAI(blocks) \in Seq(NewMessages("openai", Talk))
  <1>1. PICK B : B = {p \in NeutralBlocks(Talk) : p.kind \in {"text", "call"}}
    OBVIOUS
  <1>2. PICK parts : parts = TextIfAny(Joined(blocks)) \o OfKind(blocks, "call")
    OBVIOUS
  <1>3. parts \in Seq(B)
    BY <1>1, <1>2, AnswerTextIs
  <1>4. B \subseteq PartsOf(Talk, ToolsOf(Outputs))
    BY <1>1, BlockIs
  <1>5. parts \in Seq(PartsOf(Talk, ToolsOf(Outputs)))
    BY <1>3, <1>4
  <1>6. \A j \in DOMAIN parts : parts[j].kind \in {"text", "call"}
    BY <1>1, <1>3
  <1>7. "assistant" \in Roles \ {"system"}
    BY DEF Roles
  <1>8. PICK m : m = Message("assistant", parts)
    OBVIOUS
  <1>9. m \in NewMessages("openai", Talk)
    BY <1>5, <1>6, <1>7, <1>8, NewMessageIs
  <1>10. AnswerToOpenAI(blocks) = <<m>>
    BY <1>2, <1>8 DEF AnswerToOpenAI
  <1> QED
    BY <1>9, <1>10

\* A part of the answer as an item of the Responses dialect.
LEMMA ItemOfIs ==
    ASSUME NEW Talk, NEW p \in NeutralBlocks(Talk)
    PROVE  ItemOf("assistant", p) \in NewMessages("responses", Talk)
  <1>1. PICK P : P = PartsOf(Talk, ToolsOf(Outputs))
    OBVIOUS
  <1>2. p \in P /\ p.kind \in {"text", "reasoning", "call"}
    BY <1>1, BlockIs
  <1>3. PICK one : one = <<p>>
    OBVIOUS
  <1>4. one \in Seq(P) /\ one # <<>> /\ \A j \in DOMAIN one : one[j] = p
    BY <1>2, <1>3
  <1>5. Plain(one)
    BY <1>2, <1>4 DEF Plain
  <1>6. {"function_call", "assistant", "reasoning"} \subseteq Roles \ {"system"}
    BY DEF Roles
  <1>7. CASE p.kind = "call"
    <2>1. ItemOf("assistant", p) = Message("function_call", one)
      BY <1>3, <1>7, Zenon DEF ItemOf
    <2>2. PICK role : role = "function_call"
      OBVIOUS
    <2>3. role \in Roles \ {"system"} /\ role # "reasoning"
      BY <1>6, <2>2
    <2>4. Message(role, one) \in NewMessages("responses", Talk)
      BY <1>1, <1>4, <1>5, <2>3, NewMessageIs
    <2> QED
      BY <2>1, <2>2, <2>4
  <1>8. CASE p.kind = "reasoning"
    <2>1. ItemOf("assistant", p) = Message("reasoning", TextIfAny(p.text))
      BY <1>8, Zenon DEF ItemOf
    <2>2. PICK parts : parts = TextIfAny(p.text)
      OBVIOUS
    <2>3. p.text \in Seq(Talk)
      BY <1>8, BlockIs
    <2>4. PICK t : t = Text(p.text)
      OBVIOUS
    <2>5. t \in P /\ t.kind = "text"
      BY <1>1, <2>3, <2>4, TextTyped DEF PartsOf
    <2>6. parts = <<>> \/ parts = <<t>>
      BY <2>2, <2>4 DEF TextIfAny
    <2>7. parts \in Seq(P) /\ \A j \in DOMAIN parts : parts[j].kind = "text"
      <3>1. CASE parts = <<>>
        BY <3>1
      <3>2. CASE parts = <<t>>
        BY <2>5, <3>2
      <3> QED
        BY <2>6, <3>1, <3>2
    <2>8. Plain(parts)
      BY <2>7 DEF Plain
    <2>9. PICK role : role = "reasoning"
      OBVIOUS
    <2>10. role \in Roles \ {"system"} /\ role \notin {"function_call", "function_call_output"}
      BY <1>6, <2>9
    <2>11. Message(role, parts) \in NewMessages("responses", Talk)
      BY <1>1, <2>7, <2>8, <2>10, NewMessageIs
    <2> QED
      BY <2>1, <2>2, <2>9, <2>11
  <1>9. CASE p.kind = "text"
    <2>1. ItemOf("assistant", p) = Message("assistant", one)
      BY <1>3, <1>9, Zenon DEF ItemOf
    <2>2. PICK role : role = "assistant"
      OBVIOUS
    <2>3. role \in Roles \ {"system"} /\ role # "reasoning"
      BY <1>6, <2>2
    <2>4. Message(role, one) \in NewMessages("responses", Talk)
      BY <1>1, <1>4, <1>5, <2>3, NewMessageIs
    <2> QED
      BY <2>1, <2>2, <2>4
  <1> QED
    BY <1>2, <1>7, <1>8, <1>9

\* One item for each of some parts.
LEMMA ItemsAre ==
    ASSUME NEW Talk, NEW parts \in Seq(NeutralBlocks(Talk))
    PROVE  [i \in DOMAIN parts |-> ItemOf("assistant", parts[i])] \in Seq(NewMessages("responses", Talk))
  <1>1. PICK N : N = NewMessages("responses", Talk)
    OBVIOUS
  <1>2. PICK items : items = [i \in DOMAIN parts |-> ItemOf("assistant", parts[i])]
    OBVIOUS
  <1>3. \A i \in DOMAIN parts : parts[i] \in NeutralBlocks(Talk)
    OBVIOUS
  <1>4. items \in [DOMAIN parts -> N]
    BY <1>1, <1>2, <1>3, ItemOfIs
  <1>5. items \in Seq(N)
    BY <1>4, MapTyped
  <1> QED
    BY <1>1, <1>2, <1>5

\* The answer in the Responses dialect.
LEMMA AnswerToResponsesIs ==
    ASSUME NEW Talk, NEW blocks \in Seq(NeutralBlocks(Talk)), NEW stream
    PROVE  AnswerToResponses(blocks, stream) \in Seq(NewMessages("responses", Talk))
  <1>1. PICK N : N = NewMessages("responses", Talk)
    OBVIOUS
  <1>2. PICK first : first = [i \in DOMAIN blocks |-> ItemOf("assistant", blocks[i])]
    OBVIOUS
  <1>3. first \in Seq(N)
    BY <1>1, <1>2, ItemsAre
  <1>4. PICK reasoning : reasoning = OfKind(blocks, "reasoning")
    OBVIOUS
  <1>5. PICK items : items = [i \in DOMAIN reasoning |-> ItemOf("assistant", reasoning[i])]
    OBVIOUS
  <1>6. items \in Seq(N)
    <2>1. reasoning \in Seq(NeutralBlocks(Talk))
      BY <1>4, AnswerTextIs
    <2> QED
      BY <1>1, <1>5, <2>1, ItemsAre
  <1>7. PICK t : t = Text(Joined(blocks))
    OBVIOUS
  <1>8. t \in PartsOf(Talk, ToolsOf(Outputs)) /\ t.kind = "text"
    <2>1. Joined(blocks) \in Seq(Talk)
      BY AnswerTextIs
    <2> QED
      BY <1>7, <2>1, TextTyped DEF PartsOf
  <1>9. PICK m : m = Message("assistant", <<t>>)
    OBVIOUS
  <1>10. m \in N
    <2>1. PICK one : one = <<t>>
      OBVIOUS
    <2>2. PICK P : P = PartsOf(Talk, ToolsOf(Outputs))
      OBVIOUS
    <2>3. one \in Seq(P) /\ \A j \in DOMAIN one : one[j].kind = "text"
      BY <1>8, <2>1, <2>2
    <2>4. Plain(one)
      BY <2>3 DEF Plain
    <2>5. PICK role : role = "assistant"
      OBVIOUS
    <2>6. role \in Roles \ {"system"} /\ role \notin {"function_call", "function_call_output"}
      BY <2>5 DEF Roles
    <2>7. Message(role, one) \in NewMessages("responses", Talk)
      BY <2>2, <2>3, <2>4, <2>6, NewMessageIs
    <2> QED
      BY <1>1, <1>9, <2>1, <2>5, <2>7
  <1>11. Append(items, m) \in Seq(N)
    BY <1>6, <1>10
  <1>12. AnswerToResponses(blocks, stream) = IF stream THEN first ELSE Append(items, m)
    BY <1>2, <1>4, <1>5, <1>7, <1>9, Zenon DEF AnswerToResponses
  <1> QED
    BY <1>1, <1>3, <1>11, <1>12

\* What the client keeps of an answer in the neutral form.
LEMMA KeptIs ==
    ASSUME NEW d \in {"anthropic", "openai", "responses"}, NEW Talk, NEW blocks \in Seq(NeutralBlocks(Talk)),
           NEW stream
    PROVE  Kept(d, stream, blocks) \in Seq(NewMessages(d, Talk))
  <1>1. CASE d = "anthropic"
    <2>1. Kept(d, stream, blocks) = AnswerToAnthropic(blocks)
      BY <1>1, Zenon DEF Kept
    <2> QED
      BY <1>1, <2>1, AnswerToAnthropicIs
  <1>2. CASE d = "openai"
    <2>1. Kept(d, stream, blocks) = AnswerToOpenAI(blocks)
      BY <1>2, Zenon DEF Kept
    <2> QED
      BY <1>2, <2>1, AnswerToOpenAIIs
  <1>3. CASE d = "responses"
    <2>1. Kept(d, stream, blocks) = AnswerToResponses(blocks, stream)
      BY <1>3, Zenon DEF Kept
    <2> QED
      BY <1>3, <2>1, AnswerToResponsesIs
  <1> QED
    BY <1>1, <1>2, <1>3

\* What the client keeps of an answer of the proxy itself.
LEMMA KeptLocalIs ==
    ASSUME NEW d \in {"anthropic", "openai", "responses"}, NEW stream
    PROVE  \E Talk : KeptLocal(d, stream, LocalAnswer) \in Seq(NewMessages(d, Talk))
  <1>1. PICK w : w = <<"report", "local", 0>>
    OBVIOUS
  <1>2. PICK Talk : Talk = {w}
    OBVIOUS
  <1>3. PICK t : t = Text(<<w>>)
    OBVIOUS
  <1>4. t \in NeutralBlocks(Talk)
    <2>1. PICK text : text = <<w>>
      OBVIOUS
    <2>2. text \in Seq(Talk)
      BY <1>2, <2>1
    <2>3. Text(text) \in TalkParts(Talk) /\ Text(text).kind = "text"
      BY <2>2, TextTyped
    <2> QED
      BY <1>3, <2>1, <2>3 DEF NeutralBlocks, Neutral, PartsOf
  <1>5. PICK blocks : blocks = <<t>>
    OBVIOUS
  <1>6. LocalAnswer = blocks
    BY <1>1, <1>3, <1>5 DEF LocalAnswer
  <1>7. blocks \in Seq(NeutralBlocks(Talk))
    BY <1>4, <1>5
  <1>8. PICK texts : texts = OfKind(blocks, "text")
    OBVIOUS
  <1>9. texts \in Seq(NeutralBlocks(Talk))
    BY <1>7, <1>8, AnswerTextIs
  <1>10. PICK s : s = (stream /\ d # "responses")
    OBVIOUS
  <1>11. KeptLocal(d, stream, LocalAnswer) = Kept(d, s, texts)
    BY <1>6, <1>8, <1>10, Zenon DEF KeptLocal
  <1> QED
    BY <1>9, <1>11, KeptIs

-----------------------------------------------------------------------------
(* An answer with the values restored.                                       *)

\* A word is restored to a value of the vault, or it stays, as every argument does.
LEMMA ResolveTextIs ==
    ASSUME NEW vault
    PROVE  /\ \A Talk : \A text \in Seq(Talk) : ResolveText(vault, text) \in Seq(Talk \cup ToSet(vault))
           /\ \A n : ResolveText(vault, ArgsOf(n)) = ArgsOf(n)
  <1>1. \A w : ResolveWord(vault, w) = w \/ ResolveWord(vault, w) \in ToSet(vault)
    <2>1. ASSUME NEW w PROVE ResolveWord(vault, w) = w \/ ResolveWord(vault, w) \in ToSet(vault)
      <3>1. PICK own : own = {v \in ToSet(vault) : Tokenize(vault, v) = w}
        OBVIOUS
      <3>2. ResolveWord(vault, w) = IF own = {} \/ w[3] > TokenLimit THEN w
                                    ELSE CHOOSE v \in own : TRUE
        BY <3>1 DEF ResolveWord
      <3>3. own # {} => (CHOOSE v \in own : TRUE) \in own
        OBVIOUS
      <3>4. CASE own = {} \/ w[3] > TokenLimit
        BY <3>2, <3>4, Zenon
      <3>5. CASE ~(own = {} \/ w[3] > TokenLimit)
        <4>1. ResolveWord(vault, w) \in own
          BY <3>2, <3>3, <3>5, Zenon
        <4> QED
          BY <3>1, <4>1
      <3> QED
        BY <3>4, <3>5
    <2> QED
      BY <2>1
  <1>2. ASSUME NEW Talk, NEW text \in Seq(Talk)
        PROVE  ResolveText(vault, text) \in Seq(Talk \cup ToSet(vault))
    <2>1. PICK T : T = Talk \cup ToSet(vault)
      OBVIOUS
    <2>2. \A i \in DOMAIN text : text[i] \in Talk
      OBVIOUS
    <2>3. \A i \in DOMAIN text : ResolveWord(vault, text[i]) \in T
      BY <1>1, <2>1, <2>2
    <2>4. ResolveText(vault, text) \in [DOMAIN text -> T]
      BY <2>3 DEF ResolveText
    <2>5. ResolveText(vault, text) \in Seq(T)
      BY <2>4, MapTyped
    <2> QED
      BY <2>1, <2>5
  <1>3. ASSUME NEW n PROVE ResolveText(vault, ArgsOf(n)) = ArgsOf(n)
    <2>1. PICK a : a = <<"args", "", n>>
      OBVIOUS
    <2>2. a[1] = "args" /\ ArgsOf(n) = <<a>>
      BY <2>1 DEF ArgsOf
    <2>3. \A v : Tokenize(vault, v)[1] = "token"
      BY DEF Tokenize, Token
    <2>4. ResolveWord(vault, a) = a
      <3>1. {v \in ToSet(vault) : Tokenize(vault, v) = a} = {}
        BY <2>2, <2>3
      <3> QED
        BY <3>1 DEF ResolveWord
    <2>5. PICK t : t = <<a>>
      OBVIOUS
    <2>6. DOMAIN t = {1} /\ t[1] = a
      BY <2>5
    <2>7. ResolveText(vault, t) = [i \in {1} |-> a]
      BY <2>4, <2>6 DEF ResolveText
    <2>8. t = [i \in {1} |-> a]
      BY <2>5
    <2> QED
      BY <2>2, <2>5, <2>7, <2>8
  <1> QED
    BY <1>2, <1>3

\* A call with the same arguments is the same call.
LEMMA RetoldCall ==
    ASSUME NEW p \in CallParts, NEW vault
    PROVE  Retold(p, ResolveText(vault, p.text)) = p
  <1>1. PICK n \in Nat, name \in {"read", "write"} : p = Call(n, name, ArgsOf(n))
    BY DEF CallParts
  <1>2. PICK args : args = ArgsOf(n)
    OBVIOUS
  <1>3. p = [kind |-> "call", text |-> args, id |-> n, name |-> name, sig |-> NoSignature]
    BY <1>1, <1>2 DEF Call, Part
  <1>4. p.text = args
    BY <1>3
  <1>5. ResolveText(vault, p.text) = args
    BY <1>2, <1>4, ResolveTextIs
  <1>6. Retold(p, args) = p
    BY <1>3 DEF Retold
  <1> QED
    BY <1>5, <1>6

\* The blocks of an answer with the values restored.
LEMMA ResolveBlocksIs ==
    ASSUME NEW Talk, NEW blocks \in Seq(NeutralBlocks(Talk)), NEW vault
    PROVE  ResolveBlocks(vault, blocks) \in Seq(NeutralBlocks(Talk \cup ToSet(vault)))
  <1>1. PICK T : T = Talk \cup ToSet(vault)
    OBVIOUS
  <1>2. PICK out : out = ResolveBlocks(vault, blocks)
    OBVIOUS
  <1>3. ASSUME NEW i \in DOMAIN blocks PROVE out[i] \in NeutralBlocks(T)
    <2>1. PICK p : p = blocks[i]
      OBVIOUS
    <2>2. p \in NeutralBlocks(Talk)
      BY <2>1
    <2>3. out[i] = IF p.kind \in {"text", "reasoning"} THEN Retold(p, ResolveText(vault, p.text)) ELSE p
      BY <1>2, <2>1, Zenon DEF ResolveBlocks
    <2>4. CASE p.kind = "call"
      <3>1. out[i] = p /\ p \in CallParts
        BY <2>2, <2>3, <2>4, BlockIs
      <3> QED
        BY <2>4, <3>1 DEF NeutralBlocks, Neutral, PartsOf
    <2>5. CASE p.kind \in {"text", "reasoning"}
      <3>1. p \in TalkParts(Talk) /\ p.text \in Seq(Talk)
        BY <2>2, <2>5, BlockIs
      <3>2. PICK text : text = ResolveText(vault, p.text)
        OBVIOUS
      <3>3. text \in Seq(T)
        BY <1>1, <3>1, <3>2, ResolveTextIs
      <3>4. Retold(p, text) \in TalkParts(T) /\ Retold(p, text).kind = p.kind
        BY <3>1, <3>3, RetoldIs
      <3> QED
        BY <2>3, <2>5, <3>2, <3>4 DEF NeutralBlocks, Neutral, PartsOf
    <2> QED
      BY <2>2, <2>4, <2>5, BlockIs
  <1>4. out \in [DOMAIN blocks -> NeutralBlocks(T)]
    <2>1. out = [i \in DOMAIN blocks |-> out[i]]
      BY <1>2 DEF ResolveBlocks
    <2> QED
      BY <1>3, <2>1
  <1>5. out \in Seq(NeutralBlocks(T))
    BY <1>4, MapTyped
  <1> QED
    BY <1>1, <1>2, <1>5
-----------------------------------------------------------------------------
(* What a provider sends.                                                    *)

NewCallOf(n, i) == Call(n + i, IF i = 1 THEN "read" ELSE "write", <<<<"args", "", n + i>>>>)
SignedPart(provider, p) == IF provider = "gemini" THEN [p EXCEPT !.sig = p.id] ELSE p
SubjectOf(heard) == At(heard, {i \in DOMAIN heard : ~Is(heard[i], "keyword")})
ThoughtOf(provider, heard, n) ==
    [Reasoning(<<<<"dynamic", "id", 0>>>> \o SubjectOf(heard), n + 1)
        EXCEPT !.kind = IF provider = "anthropic" THEN "thinking" ELSE @]
LastSignature(n) == [Text(<<>>) EXCEPT !.sig = n + 2]
Repeated == <<"dynamic", "id", 0>>

\* The four answers.
LEMMA SayIs ==
    ASSUME NEW provider, NEW heard, NEW n
    PROVE  Reply("say", provider, heard, n) = <<Text(heard)>>
BY Zenon DEF Reply

\* A call.
LEMMA CallIs ==
    ASSUME NEW provider, NEW heard, NEW n
    PROVE  Reply("call", provider, heard, n) = <<NewCallOf(n, 1)>>
BY Zenon DEF Reply, NewCallOf

\* A thought and a call.
LEMMA ThinkIs ==
    ASSUME NEW provider, NEW heard, NEW n
    PROVE  Reply("think", provider, heard, n) =
               (IF provider = "openai" THEN <<>> ELSE <<ThoughtOf(provider, heard, n)>>)
               \o <<SignedPart(provider, NewCallOf(n, 2))>>
BY Zenon DEF Reply, NewCallOf, SignedPart, ThoughtOf, SubjectOf

\* Two calls.
LEMMA CallsIs ==
    ASSUME NEW provider, NEW heard, NEW n
    PROVE  Reply("calls", provider, heard, n) =
               IF provider = "gemini" THEN <<NewCallOf(n, 1), NewCallOf(n, 2), LastSignature(n)>>
               ELSE <<Text(heard), NewCallOf(n, 1), NewCallOf(n, 2)>>
BY Zenon DEF Reply, NewCallOf, LastSignature

\* A new call.
LEMMA NewCallIs ==
    ASSUME NEW n \in Nat, NEW i \in {1, 2}
    PROVE  /\ NewCallOf(n, i) \in CallParts /\ NewCallOf(n, i).kind = "call"
           /\ NewCallOf(n, i).id = n + i /\ NewCallOf(n, i).sig = NoSignature
           /\ [NewCallOf(n, i) EXCEPT !.sig = NoSignature] = NewCallOf(n, i)
           /\ [SignedPart("gemini", NewCallOf(n, i)) EXCEPT !.sig = NoSignature] = NewCallOf(n, i)
           /\ SignedPart("gemini", NewCallOf(n, i)).kind = "call"
           /\ SignedPart("gemini", NewCallOf(n, i)).id = n + i
           /\ SignedPart("gemini", NewCallOf(n, i)).sig = n + i
  <1>1. PICK m : m = n + i
    OBVIOUS
  <1>2. m \in Nat
    BY <1>1
  <1>3. PICK name : name = IF i = 1 THEN "read" ELSE "write"
    OBVIOUS
  <1>4. PICK args : args = ArgsOf(m)
    OBVIOUS
  <1>5. PICK c : c = NewCallOf(n, i)
    OBVIOUS
  <1>6. c = Call(m, name, args)
    BY <1>1, <1>3, <1>4, <1>5 DEF NewCallOf, ArgsOf
  <1>7. c \in CallParts
    BY <1>2, <1>3, <1>4, <1>6 DEF CallParts
  <1>8. c = [kind |-> "call", text |-> args, id |-> m, name |-> name, sig |-> NoSignature]
    BY <1>6 DEF Call, Part
  <1>9. PICK s : s = [c EXCEPT !.sig = c.id]
    OBVIOUS
  <1>10. s = [kind |-> "call", text |-> args, id |-> m, name |-> name, sig |-> m]
    BY <1>2, <1>8, <1>9
  <1>11. [s EXCEPT !.sig = NoSignature] = c
    BY <1>2, <1>8, <1>10
  <1>12. SignedPart("gemini", c) = s
    BY <1>9 DEF SignedPart
  <1>13. [c EXCEPT !.sig = NoSignature] = c
    BY <1>8
  <1> QED
    BY <1>1, <1>5, <1>7, <1>8, <1>10, <1>11, <1>12, <1>13

\* A thought is talk, of the kind its provider gives it.
ThoughtMade(th, provider, T) ==
    /\ th \in TalkParts(T)
    /\ th.kind = IF provider = "anthropic" THEN "thinking" ELSE "reasoning"

\* A thought.
LEMMA ThoughtIs ==
    ASSUME NEW Talk, NEW heard \in Seq(Talk), NEW n \in Nat, NEW provider
    PROVE  ThoughtMade(ThoughtOf(provider, heard, n), provider, Talk \cup {Repeated})
  <1>1. PICK T : T = Talk \cup {Repeated}
    OBVIOUS
  <1>a. PICK subject : subject = SubjectOf(heard)
    OBVIOUS
  <1>b. subject \in Seq(Talk)
    <2>1. PICK places : places = {i \in DOMAIN heard : ~Is(heard[i], "keyword")}
      OBVIOUS
    <2>2. subject = At(heard, places)
      BY <1>a, <2>1, Zenon DEF SubjectOf
    <2> QED
      BY <2>2, AtTyped
  <1>2. PICK text : text = <<<<"dynamic", "id", 0>>>> \o subject
    OBVIOUS
  <1>3. text \in Seq(T)
    <2>1. PICK r : r = Repeated
      OBVIOUS
    <2>2. <<r>> \in Seq(T) /\ subject \in Seq(T)
      BY <1>1, <1>b, <2>1
    <2>3. <<r>> \o subject \in Seq(T)
      BY <2>2, ConcatIs
    <2> QED
      BY <1>2, <2>1, <2>3 DEF Repeated
  <1>4. PICK m : m = n + 1
    OBVIOUS
  <1>5. m \in Int
    BY <1>4
  <1>6. PICK r : r = Reasoning(text, m)
    OBVIOUS
  <1>7. r = [kind |-> "reasoning", text |-> text, id |-> NoId, name |-> "", sig |-> m]
    BY <1>6 DEF Reasoning, Part
  <1>8. PICK kind : kind = IF provider = "anthropic" THEN "thinking" ELSE "reasoning"
    OBVIOUS
  <1>9. PICK t : t = [r EXCEPT !.kind = IF provider = "anthropic" THEN "thinking" ELSE @]
    OBVIOUS
  <1>10. t.kind = kind /\ t.text = text /\ t.id = NoId /\ t.name = "" /\ t.sig = m
    BY <1>7, <1>8, <1>9
  <1>11. t = [kind |-> t.kind, text |-> t.text, id |-> t.id, name |-> t.name, sig |-> t.sig]
    BY <1>7, <1>9
  <1>12. kind \in TalkKinds
    BY <1>8 DEF TalkKinds
  <1>13. t \in TalkParts(T)
    BY <1>3, <1>5, <1>10, <1>11, <1>12 DEF TalkParts
  <1>14. ThoughtOf(provider, heard, n) = t
    BY <1>a, <1>2, <1>4, <1>6, <1>9, Zenon DEF ThoughtOf
  <1>15. ThoughtMade(t, provider, T)
    BY <1>8, <1>10, <1>13 DEF ThoughtMade
  <1> QED
    BY <1>1, <1>14, <1>15, Zenon

\* The parts of the answers of the providers that do not sign calls.
WireParts(provider, Talk) ==
    {p \in PartsOf(Talk, CallParts) : /\ p.kind \in {"text", "thinking", "call"}
                                      /\ provider = "openai" => p.kind # "thinking"}

\* Their answers.
LEMMA ReplyTyped ==
    ASSUME NEW Talk, NEW heard \in Seq(Talk), NEW n \in Nat, NEW provider \in {"anthropic", "openai"},
           NEW reply \in {"say", "call", "think", "calls"}
    PROVE  Reply(reply, provider, heard, n) \in Seq(WireParts(provider, Talk \cup {Repeated}))
  <1>1. PICK T : T = Talk \cup {Repeated}
    OBVIOUS
  <1>2. PICK W : W = WireParts(provider, T)
    OBVIOUS
  <1>3. PICK t : t = Text(heard)
    OBVIOUS
  <1>4. t \in W
    <2>1. heard \in Seq(T)
      BY <1>1
    <2>2. t \in TalkParts(T) /\ t.kind = "text"
      BY <1>3, <2>1, TextTyped
    <2> QED
      BY <1>2, <2>2 DEF WireParts, PartsOf
  <1>5. PICK c1, c2 : c1 = NewCallOf(n, 1) /\ c2 = NewCallOf(n, 2)
    OBVIOUS
  <1>6. c1 \in W /\ c2 \in W
    <2>1. c1 \in CallParts /\ c1.kind = "call" /\ c2 \in CallParts /\ c2.kind = "call"
      BY <1>5, NewCallIs
    <2> QED
      BY <1>2, <2>1 DEF WireParts, PartsOf
  <1>7. PICK th : th = ThoughtOf(provider, heard, n)
    OBVIOUS
  <1>8. provider = "anthropic" => th \in W
    <2>1. th \in TalkParts(T) /\ th.kind = IF provider = "anthropic" THEN "thinking" ELSE "reasoning"
      <3>1. ThoughtMade(ThoughtOf(provider, heard, n), provider, Talk \cup {Repeated})
        BY ThoughtIs, Zenon
      <3> QED
        BY <1>1, <1>7, <3>1 DEF ThoughtMade
    <2> QED
      BY <1>2, <2>1 DEF WireParts, PartsOf
  <1>9. SignedPart(provider, c2) = c2
    BY DEF SignedPart
  <1>14. \A x, y \in W : /\ <<x>> \in Seq(W)
                         /\ \A z \in W : <<x, y, z>> \in Seq(W)
    OBVIOUS
  <1>10. CASE reply = "say"
    <2>0. Reply("say", provider, heard, n) = <<Text(heard)>>
      BY SayIs, Zenon
    <2>1. Reply(reply, provider, heard, n) = <<Text(heard)>>
      BY <1>10, <2>0
    <2>2. Reply(reply, provider, heard, n) = <<t>>
      BY <1>3, <2>1
    <2>3. <<t>> \in Seq(W)
      BY <1>4
    <2> QED
      BY <1>1, <1>2, <2>2, <2>3
  <1>11. CASE reply = "call"
    <2>0. Reply("call", provider, heard, n) = <<NewCallOf(n, 1)>>
      BY CallIs, Zenon
    <2>1. Reply(reply, provider, heard, n) = <<NewCallOf(n, 1)>>
      BY <1>11, <2>0
    <2>2. Reply(reply, provider, heard, n) = <<c1>>
      BY <1>5, <2>1
    <2>3. <<c1>> \in Seq(W)
      BY <1>6
    <2> QED
      BY <1>1, <1>2, <2>2, <2>3
  <1>12. CASE reply = "think"
    <2>1. Reply(reply, provider, heard, n) = (IF provider = "openai" THEN <<>> ELSE <<th>>) \o <<c2>>
      BY <1>5, <1>7, <1>9, <1>12, ThinkIs
    <2>2. PICK a : a = IF provider = "openai" THEN <<>> ELSE <<th>>
      OBVIOUS
    <2>3. a \in Seq(W)
      <3>1. provider = "openai" => a = <<>>
        BY <2>2
      <3>2. provider = "anthropic" => a = <<th>>
        BY <2>2
      <3>3. provider = "openai" => a \in Seq(W)
        BY <3>1
      <3>4. provider = "anthropic" => a \in Seq(W)
        BY <1>8, <1>14, <3>2
      <3> QED
        BY <3>3, <3>4
    <2>4. <<c2>> \in Seq(W)
      BY <1>6
    <2>5. a \o <<c2>> \in Seq(W)
      BY <2>3, <2>4, ConcatIs
    <2> QED
      BY <1>1, <1>2, <2>1, <2>2, <2>5
  <1>13. CASE reply = "calls"
    <2>0. Reply("calls", provider, heard, n) =
              IF provider = "gemini" THEN <<NewCallOf(n, 1), NewCallOf(n, 2), LastSignature(n)>>
              ELSE <<Text(heard), NewCallOf(n, 1), NewCallOf(n, 2)>>
      BY CallsIs, Zenon
    <2>1. Reply(reply, provider, heard, n) = <<t, c1, c2>>
      BY <1>3, <1>5, <1>13, <2>0
    <2>2. <<t, c1, c2>> \in Seq(W)
      BY <1>4, <1>6
    <2> QED
      BY <1>1, <1>2, <2>1, <2>2
  <1> QED
    BY <1>10, <1>11, <1>12, <1>13

\* The answer in the neutral form, from Anthropic.
LEMMA AnswerFromAnthropicIs ==
    ASSUME NEW Talk, NEW parts \in Seq(WireParts("anthropic", Talk))
    PROVE  AnswerFromAnthropic(parts) \in Seq(NeutralBlocks(Talk))
  <1>1. ASSUME NEW p \in WireParts("anthropic", Talk) PROVE PartFromAnthropic(p) \in NeutralBlocks(Talk)
    <2>1. p \in PartsOf(Talk, CallParts) /\ p.kind \in {"text", "thinking", "call"}
      BY DEF WireParts
    <2>2. CASE p.kind \in {"text", "call"}
      <3>1. PartFromAnthropic(p) = p
        BY <2>2, Zenon DEF PartFromAnthropic
      <3> QED
        BY <2>1, <2>2, <3>1 DEF NeutralBlocks, Neutral
    <2>3. CASE p.kind = "thinking"
      <3>1. PartFromAnthropic(p) = Reasoning(p.text, p.sig)
        BY <2>3, Zenon DEF PartFromAnthropic
      <3>2. p \in TalkParts(Talk)
        BY <2>1, <2>3, PartIs, ToolIs DEF TalkKinds
      <3>3. p.text \in Seq(Talk) /\ p.sig \in Int
        BY <3>2 DEF TalkParts
      <3>4. Reasoning(p.text, p.sig) \in TalkParts(Talk) /\ Reasoning(p.text, p.sig).kind = "reasoning"
        BY <3>3, TextTyped
      <3> QED
        BY <3>1, <3>4 DEF NeutralBlocks, Neutral, PartsOf
    <2> QED
      BY <2>1, <2>2, <2>3
  <1>2. PICK out : out = AnswerFromAnthropic(parts)
    OBVIOUS
  <1>3. \A i \in DOMAIN parts : parts[i] \in WireParts("anthropic", Talk)
    OBVIOUS
  <1>4. out \in [DOMAIN parts -> NeutralBlocks(Talk)]
    BY <1>1, <1>2, <1>3 DEF AnswerFromAnthropic
  <1>5. out \in Seq(NeutralBlocks(Talk))
    BY <1>4, MapTyped
  <1> QED
    BY <1>2, <1>5

\* The answer in the neutral form, from OpenAI.
LEMMA AnswerFromOpenAIIs ==
    ASSUME NEW Talk, NEW parts \in Seq(WireParts("openai", Talk))
    PROVE  AnswerFromOpenAI(parts) \in Seq(NeutralBlocks(Talk))
  <1>1. WireParts("openai", Talk) \subseteq NeutralBlocks(Talk)
    BY DEF WireParts, NeutralBlocks, Neutral
  <1>2. parts \in Seq(NeutralBlocks(Talk))
    BY <1>1
  <1>3. PICK B : B = {p \in NeutralBlocks(Talk) : p.kind \in {"text", "call"}}
    OBVIOUS
  <1>4. AnswerFromOpenAI(parts) \in Seq(B)
    BY <1>2, <1>3, AnswerTextIs DEF AnswerFromOpenAI
  <1>5. B \subseteq NeutralBlocks(Talk)
    BY <1>3
  <1> QED
    BY <1>4, <1>5

\* A short answer of Gemini, part by part.
LEMMA GeminiTable ==
    ASSUME NEW parts, NEW n \in 1..3, Len(parts) = n, NEW z, z = [blocks |-> <<>>, sigs |-> {}],
           NEW a, a = AddGemini(z, parts[1]), NEW b, b = AddGemini(a, parts[2]),
           NEW c, c = AddGemini(b, parts[3])
    PROVE  AnswerFromGemini(parts) = IF n = 1 THEN a ELSE IF n = 2 THEN b ELSE c
  <1> DEFINE Rec(f) == f = [i \in 0..n |-> IF i = 0 THEN z ELSE AddGemini(f[i - 1], parts[i])]
  <1> DEFINE h == [i \in 0..n |-> IF i = 0 THEN z ELSE IF i = 1 THEN a ELSE IF i = 2 THEN b ELSE c]
  <1>1. Rec(h)
    <2>1. h[0] = z
      OBVIOUS
    <2>2. \A i \in 1..n : h[i] = AddGemini(h[i - 1], parts[i])
      <3>1. \A i \in 1..n : i \in {1, 2, 3}
        OBVIOUS
      <3>2. 1 \in 1..n => h[1] = a /\ h[1 - 1] = z
        OBVIOUS
      <3>3. 2 \in 1..n => h[2] = b /\ h[2 - 1] = a
        OBVIOUS
      <3>4. 3 \in 1..n => h[3] = c /\ h[3 - 1] = b
        OBVIOUS
      <3> HIDE DEF h
      <3> QED
        BY <3>1, <3>2, <3>3, <3>4
    <2>3. h = [i \in 0..n |-> h[i]]
      OBVIOUS
    <2>4. \A i \in 0..n : i # 0 => i \in 1..n
      OBVIOUS
    <2> HIDE DEF h
    <2>5. \A i \in 0..n : h[i] = IF i = 0 THEN z ELSE AddGemini(h[i - 1], parts[i])
      BY <2>1, <2>2, <2>4
    <2> QED
      BY <2>3, <2>5
  <1> DEFINE f == CHOOSE f : Rec(f)
  <1>2. AnswerFromGemini(parts) = f[n]
    BY Zenon DEF AnswerFromGemini
  <1>3. Rec(f)
    <2> HIDE DEF Rec, h
    <2> QED
      BY <1>1
  <1> HIDE DEF f, h
  <1>4. f[0] = z /\ \A i \in 1..n : f[i] = AddGemini(f[i - 1], parts[i])
    <2>1. 0 \in 0..n /\ \A i \in 1..n : i \in 0..n /\ i # 0
      OBVIOUS
    <2> QED
      BY <1>3, <2>1
  <1> HIDE DEF Rec
  <1>5. f[1] = a
    <2>1. 1 \in 1..n /\ 1 - 1 = 0
      OBVIOUS
    <2>2. f[1] = AddGemini(f[1 - 1], parts[1])
      BY <1>4, <2>1
    <2> QED
      BY <1>4, <2>1, <2>2
  <1>6. n >= 2 => f[2] = b
    <2>1. n >= 2 => 2 \in 1..n
      OBVIOUS
    <2>2. 2 - 1 = 1
      OBVIOUS
    <2>3. n >= 2 => f[2] = AddGemini(f[2 - 1], parts[2])
      BY <1>4, <2>1
    <2> QED
      BY <1>5, <2>2, <2>3
  <1>7. n >= 3 => f[3] = c
    <2>1. n >= 3 => 3 \in 1..n
      OBVIOUS
    <2>2. 3 - 1 = 2
      OBVIOUS
    <2>3. n >= 3 => f[3] = AddGemini(f[3 - 1], parts[3])
      BY <1>4, <2>1
    <2> QED
      BY <1>6, <2>2, <2>3
  <1>8. n = 1 \/ n = 2 \/ n = 3
    OBVIOUS
  <1> QED
    BY <1>2, <1>5, <1>6, <1>7, <1>8

\* One part of an answer of Gemini.
LEMMA AddGeminiIs ==
    ASSUME NEW got, NEW p
    PROVE  /\ p.kind = "reasoning" => AddGemini(got, p) = got
           /\ p.kind = "call" =>
                AddGemini(got, p) =
                    [blocks |-> Append(got.blocks, [p EXCEPT !.sig = NoSignature]),
                     sigs |-> IF p.sig = NoSignature THEN got.sigs
                              ELSE got.sigs \cup {<<p.id, p.sig>>}]
           /\ p.kind = "text" =>
                AddGemini(got, p) =
                    [blocks |-> got.blocks \o TextIfAny(p.text),
                     sigs |-> IF p.sig # NoSignature /\ OfKind(got.blocks, "call") # <<>>
                              THEN got.sigs \cup {<<SignatureOwner(got.blocks), p.sig>>}
                              ELSE got.sigs]
  <1>1. p.kind = "reasoning" => AddGemini(got, p) = got
    BY Zenon DEF AddGemini
  <1>2. p.kind = "call" =>
            AddGemini(got, p) =
                [blocks |-> Append(got.blocks, [p EXCEPT !.sig = NoSignature]),
                 sigs |-> IF p.sig = NoSignature THEN got.sigs
                          ELSE got.sigs \cup {<<p.id, p.sig>>}]
    <2>1. "call" # "reasoning"
      OBVIOUS
    <2> QED
      BY <2>1, Zenon DEF AddGemini
  <1>3. p.kind = "text" =>
            AddGemini(got, p) =
                [blocks |-> got.blocks \o TextIfAny(p.text),
                 sigs |-> IF p.sig # NoSignature /\ OfKind(got.blocks, "call") # <<>>
                          THEN got.sigs \cup {<<SignatureOwner(got.blocks), p.sig>>}
                          ELSE got.sigs]
    <2>1. "text" # "reasoning" /\ "text" # "call"
      OBVIOUS
    <2> QED
      BY <2>1, Zenon DEF AddGemini
  <1> QED
    BY <1>1, <1>2, <1>3

\* The new calls of an answer, and the owner of a signature after them.
LEMMA OwnerIs ==
    ASSUME NEW n \in Nat, NEW c1, NEW c2, c1 = NewCallOf(n, 1), c2 = NewCallOf(n, 2)
    PROVE  OfKind(<<c1, c2>>, "call") # <<>> /\ SignatureOwner(<<c1, c2>>) = n + 2
  <1>1. c1.kind = "call" /\ c2.kind = "call" /\ c2.id = n + 2
    BY NewCallIs
  <1>2. PICK parts : parts = <<c1, c2>>
    OBVIOUS
  <1>3. PICK P : P = {c1, c2}
    OBVIOUS
  <1>4. parts \in Seq(P) /\ DOMAIN parts = {1, 2} /\ parts[2] = c2
    BY <1>2, <1>3
  <1>5. PICK places : places = {i \in DOMAIN parts : parts[i].kind = "call"}
    OBVIOUS
  <1>6. 2 \in DOMAIN parts /\ 2 \in places
    BY <1>1, <1>4, <1>5
  <1>7. \A i \in DOMAIN parts : i \in places => i <= 2
    BY <1>4
  <1>8. At(parts, places) # <<>> /\ Last(At(parts, places)) = parts[2]
    BY <1>4, <1>6, <1>7, AtLast
  <1>9. OfKind(parts, "call") = At(parts, places)
    BY <1>5 DEF OfKind
  <1> QED
    BY <1>1, <1>2, <1>4, <1>8, <1>9 DEF SignatureOwner

\* Two elements, one appended to the other.
LEMMA AppendIs ==
    ASSUME NEW B, NEW s \in Seq(B), NEW b \in B
    PROVE  /\ Append(s, b) \in Seq(B) /\ Len(Append(s, b)) = Len(s) + 1
           /\ \A i \in 1..Len(s) : Append(s, b)[i] = s[i]
           /\ Append(s, b)[Len(s) + 1] = b
  BY AppendProperties

\* So two elements.
LEMMA AppendTwo ==
    ASSUME NEW B, NEW a \in B, NEW b \in B
    PROVE  Append(<<a>>, b) = <<a, b>>
  <1>1. PICK s : s = <<a>>
    OBVIOUS
  <1>2. s \in Seq(B) /\ Len(s) = 1 /\ s[1] = a
    BY <1>1
  <1>3. PICK x : x = Append(s, b)
    OBVIOUS
  <1>4. /\ x \in Seq(B) /\ Len(x) = Len(s) + 1
        /\ \A i \in 1..Len(s) : x[i] = s[i]
        /\ x[Len(s) + 1] = b
    <2>1. s \in Seq(B)
      BY <1>2
    <2>2. /\ Append(s, b) \in Seq(B) /\ Len(Append(s, b)) = Len(s) + 1
          /\ \A i \in 1..Len(s) : Append(s, b)[i] = s[i]
          /\ Append(s, b)[Len(s) + 1] = b
      BY <2>1, AppendIs, Zenon
    <2> QED
      BY <1>3, <2>2, Zenon
  <1>5. Len(x) = 2 /\ x[1] = a /\ x[2] = b
    BY <1>2, <1>4
  <1>6. PICK y : y = <<a, b>>
    OBVIOUS
  <1>7. y \in Seq(B) /\ Len(y) = 2 /\ y[1] = a /\ y[2] = b
    BY <1>6
  <1>8. \A i \in 1..Len(x) : x[i] = y[i]
    <2>1. \A i \in 1..2 : i = 1 \/ i = 2
      OBVIOUS
    <2> QED
      BY <1>5, <1>7, <2>1
  <1>9. x = y
    BY <1>4, <1>5, <1>7, <1>8, SeqEqual
  <1> QED
    BY <1>1, <1>3, <1>6, <1>9

\* Two calls of Gemini, with the signature after them.
LEMMA GeminiCallsIs ==
    ASSUME NEW heard, NEW n
    PROVE  Reply("calls", "gemini", heard, n) = <<NewCallOf(n, 1), NewCallOf(n, 2), LastSignature(n)>>
  <1>1. PICK g : g = "gemini"
    OBVIOUS
  <1>2. Reply("calls", g, heard, n) =
            IF g = "gemini" THEN <<NewCallOf(n, 1), NewCallOf(n, 2), LastSignature(n)>>
            ELSE <<Text(heard), NewCallOf(n, 1), NewCallOf(n, 2)>>
    BY Zenon DEF Reply, NewCallOf, LastSignature
  <1> QED
    BY <1>1, <1>2

\* The signatures such an answer brings.
SignaturesOf(reply, n) == IF reply \in {"think", "calls"} THEN {<<n + 2, n + 2>>} ELSE {}

\* What the conversion of Gemini's answer yields: no signature is lost, and each
\* is that of its own call.
LEMMA AnswerFromGeminiIs ==
    ASSUME NEW Talk, NEW heard \in Seq(Talk), NEW n \in Nat,
           NEW reply \in {"say", "call", "think", "calls"},
           NEW parts, parts = Reply(reply, "gemini", heard, n)
    PROVE  /\ AnswerFromGemini(parts).blocks \in Seq(NeutralBlocks(Talk))
           /\ AnswerFromGemini(parts).sigs =
                 SignaturesOf(reply, n)
  <1> USE DEF SignaturesOf
  <1>1. PICK z : z = [blocks |-> <<>>, sigs |-> {}]
    OBVIOUS
  <1>2. PICK a : a = AddGemini(z, parts[1])
    OBVIOUS
  <1>3. PICK b : b = AddGemini(a, parts[2])
    OBVIOUS
  <1>4. PICK c : c = AddGemini(b, parts[3])
    OBVIOUS
  <1>5. /\ Len(parts) = 1 => AnswerFromGemini(parts) = a
        /\ Len(parts) = 2 => AnswerFromGemini(parts) = b
        /\ Len(parts) = 3 => AnswerFromGemini(parts) = c
    <2>1. ASSUME Len(parts) = 1 PROVE AnswerFromGemini(parts) = a
      <3>1. 1 \in 1..3
        OBVIOUS
      <3> QED
        BY <1>1, <1>2, <1>3, <1>4, <2>1, <3>1, GeminiTable
    <2>2. ASSUME Len(parts) = 2 PROVE AnswerFromGemini(parts) = b
      <3>1. 2 \in 1..3 /\ 2 # 1
        OBVIOUS
      <3> QED
        BY <1>1, <1>2, <1>3, <1>4, <2>2, <3>1, GeminiTable
    <2>3. ASSUME Len(parts) = 3 PROVE AnswerFromGemini(parts) = c
      <3>1. 3 \in 1..3 /\ 3 # 1 /\ 3 # 2
        OBVIOUS
      <3> QED
        BY <1>1, <1>2, <1>3, <1>4, <2>3, <3>1, GeminiTable
    <2> QED
      BY <2>1, <2>2, <2>3
  <1>6. PICK c1, c2 : c1 = NewCallOf(n, 1) /\ c2 = NewCallOf(n, 2)
    OBVIOUS
  <1>7. PICK B : B = NeutralBlocks(Talk)
    OBVIOUS
  <1>8. /\ c1 \in B /\ c1.kind = "call" /\ c1.sig = NoSignature /\ [c1 EXCEPT !.sig = NoSignature] = c1
        /\ c2 \in B /\ c2.kind = "call" /\ c2.sig = NoSignature /\ [c2 EXCEPT !.sig = NoSignature] = c2
    <2>1. c1 \in CallParts /\ c1.kind = "call" /\ c1.sig = NoSignature /\ [c1 EXCEPT !.sig = NoSignature] = c1
      BY <1>6, NewCallIs
    <2>2. c2 \in CallParts /\ c2.kind = "call" /\ c2.sig = NoSignature /\ [c2 EXCEPT !.sig = NoSignature] = c2
      BY <1>6, NewCallIs
    <2>3. c1 \in B /\ c2 \in B
      BY <1>7, <2>1, <2>2 DEF NeutralBlocks, Neutral, PartsOf
    <2> QED
      BY <2>1, <2>2, <2>3
  <1>9. n + 2 # NoSignature
    BY DEF NoSignature
  <1>10. CASE reply = "say"
    <2>0. Reply("say", "gemini", heard, n) = <<Text(heard)>>
      BY SayIs, Zenon
    <2>1. PICK t : t = Text(heard)
      OBVIOUS
    <2>2. parts = <<t>>
      BY <1>10, <2>0, <2>1
    <2>3. t.kind = "text" /\ t.text = heard /\ t.sig = NoSignature
      BY <2>1 DEF Text, Part
    <2>4. Len(parts) = 1 /\ parts[1] = t
      BY <2>2
    <2>5. a = [blocks |-> <<>> \o TextIfAny(heard), sigs |-> {}]
      <3>1. AddGemini(z, t) =
                [blocks |-> z.blocks \o TextIfAny(t.text),
                 sigs |-> IF t.sig # NoSignature /\ OfKind(z.blocks, "call") # <<>>
                          THEN z.sigs \cup {<<SignatureOwner(z.blocks), t.sig>>}
                          ELSE z.sigs]
        BY <2>3, AddGeminiIs
      <3>2. z.blocks = <<>> /\ z.sigs = {}
        BY <1>1
      <3> QED
        BY <1>2, <2>3, <2>4, <3>1, <3>2
    <2>6. PICK blocks : blocks = TextIfAny(heard)
      OBVIOUS
    <2>7. blocks \in Seq(B)
      <3>1. t \in B
        <4>1. t \in TalkParts(Talk)
          BY <2>1, TextTyped
        <4> QED
          BY <1>7, <2>3, <4>1 DEF NeutralBlocks, Neutral, PartsOf
      <3>2. blocks = <<>> \/ blocks = <<t>>
        BY <2>1, <2>6 DEF TextIfAny
      <3>3. blocks = <<>> => blocks \in Seq(B)
        OBVIOUS
      <3>4. <<t>> \in Seq(B)
        BY <3>1
      <3> QED
        BY <3>2, <3>3, <3>4
    <2>8. PICK none : none = <<>>
      OBVIOUS
    <2>9. none \o blocks \in Seq(B)
      <3>1. none \in Seq(B)
        BY <2>8
      <3> QED
        BY <2>7, <3>1, ConcatIs
    <2>10. a.blocks = none \o blocks /\ a.sigs = {}
      BY <2>5, <2>6, <2>8
    <2> QED
      BY <1>5, <1>7, <1>10, <2>4, <2>9, <2>10
  <1>11. ASSUME parts[1] = c1
         PROVE  a = [blocks |-> <<c1>>, sigs |-> {}]
    <2>1. AddGemini(z, c1) = [blocks |-> Append(z.blocks, [c1 EXCEPT !.sig = NoSignature]),
                              sigs |-> IF c1.sig = NoSignature THEN z.sigs
                                       ELSE z.sigs \cup {<<c1.id, c1.sig>>}]
      BY <1>8, AddGeminiIs
    <2>2. z.blocks = <<>> /\ z.sigs = {}
      BY <1>1
    <2>3. AddGemini(z, c1) = [blocks |-> Append(<<>>, c1), sigs |-> {}]
      BY <1>8, <2>1, <2>2
    <2>4. Append(<<>>, c1) = <<c1>>
      BY <1>8
    <2> QED
      BY <1>2, <1>11, <2>3, <2>4
  <1>12. CASE reply = "call"
    <2>0. Reply("call", "gemini", heard, n) = <<NewCallOf(n, 1)>>
      BY CallIs, Zenon
    <2>1. parts = <<c1>>
      BY <1>6, <1>12, <2>0
    <2>2. Len(parts) = 1 /\ parts[1] = c1
      BY <2>1
    <2>3. a = [blocks |-> <<c1>>, sigs |-> {}]
      BY <1>11, <2>2
    <2>4. <<c1>> \in Seq(B)
      BY <1>8
    <2>5. a.blocks = <<c1>> /\ a.sigs = {}
      BY <2>3
    <2> QED
      BY <1>5, <1>7, <1>12, <2>2, <2>4, <2>5
  <1>13. CASE reply = "think"
    <2>0. Reply("think", "gemini", heard, n) =
                (IF "gemini" = "openai" THEN <<>> ELSE <<ThoughtOf("gemini", heard, n)>>)
                \o <<SignedPart("gemini", NewCallOf(n, 2))>>
      BY ThinkIs, Zenon
    <2>1. PICK th : th = ThoughtOf("gemini", heard, n)
      OBVIOUS
    <2>2. PICK s : s = SignedPart("gemini", c2)
      OBVIOUS
    <2>3. parts = <<th>> \o <<s>>
      BY <1>6, <1>13, <2>0, <2>1, <2>2
    <2>4. Len(parts) = 2 /\ parts[1] = th /\ parts[2] = s
      BY <2>3
    <2>5. th.kind = "reasoning"
      <3>1. ThoughtMade(ThoughtOf("gemini", heard, n), "gemini", Talk \cup {Repeated})
        BY ThoughtIs, Zenon
      <3> QED
        BY <2>1, <3>1 DEF ThoughtMade
    <2>6. s.kind = "call" /\ s.id = n + 2 /\ s.sig = n + 2 /\ [s EXCEPT !.sig = NoSignature] = c2
      BY <1>6, <2>2, NewCallIs
    <2>7. a = z
      BY <1>2, <2>4, <2>5, AddGeminiIs
    <2>8. AddGemini(z, s) = [blocks |-> Append(z.blocks, [s EXCEPT !.sig = NoSignature]),
                             sigs |-> IF s.sig = NoSignature THEN z.sigs
                                      ELSE z.sigs \cup {<<s.id, s.sig>>}]
      BY <2>6, AddGeminiIs
    <2>9. PICK d : d = <<n + 2, n + 2>>
      OBVIOUS
    <2>10. AddGemini(z, s) = [blocks |-> Append(<<>>, c2), sigs |-> {d}]
      <3>1. z.blocks = <<>> /\ z.sigs = {}
        BY <1>1
      <3>2. <<s.id, s.sig>> = d
        BY <2>6, <2>9
      <3>3. s.sig # NoSignature
        BY <1>9, <2>6
      <3> QED
        BY <2>6, <2>8, <3>1, <3>2, <3>3
    <2>11. b = AddGemini(z, s)
      BY <1>3, <2>4, <2>7
    <2>12. b.blocks = Append(<<>>, c2) /\ b.sigs = {d}
      BY <2>10, <2>11
    <2>13. Append(<<>>, c2) \in Seq(B)
      BY <1>8
    <2> QED
      BY <1>5, <1>7, <1>13, <2>4, <2>9, <2>12, <2>13
  <1>14. CASE reply = "calls"
    <2>0. Reply("calls", "gemini", heard, n) = <<NewCallOf(n, 1), NewCallOf(n, 2), LastSignature(n)>>
      BY GeminiCallsIs
    <2>1. PICK t : t = LastSignature(n)
      OBVIOUS
    <2>2. parts = <<c1, c2, t>>
      BY <1>6, <1>14, <2>0, <2>1
    <2>3. Len(parts) = 3 /\ parts[1] = c1 /\ parts[2] = c2 /\ parts[3] = t
      BY <2>2
    <2>4. t.kind = "text" /\ t.text = <<>> /\ t.sig = n + 2
      BY <2>1 DEF LastSignature, Text, Part
    <2>5. a = [blocks |-> <<c1>>, sigs |-> {}]
      BY <1>11, <2>3
    <2>6. b = [blocks |-> <<c1, c2>>, sigs |-> {}]
      <3>1. AddGemini(a, c2) = [blocks |-> Append(a.blocks, [c2 EXCEPT !.sig = NoSignature]),
                                sigs |-> IF c2.sig = NoSignature THEN a.sigs
                                         ELSE a.sigs \cup {<<c2.id, c2.sig>>}]
        BY <1>8, AddGeminiIs
      <3>2. a.blocks = <<c1>> /\ a.sigs = {}
        BY <2>5
      <3>3. AddGemini(a, c2) = [blocks |-> Append(<<c1>>, c2), sigs |-> {}]
        BY <1>8, <3>1, <3>2
      <3>4. Append(<<c1>>, c2) = <<c1, c2>>
        BY <1>8, AppendTwo
      <3> QED
        BY <1>3, <2>3, <3>3, <3>4
    <2>7. PICK d : d = <<n + 2, n + 2>>
      OBVIOUS
    <2>8. PICK two : two = <<c1, c2>>
      OBVIOUS
    <2>9. two \in Seq(B)
      BY <1>8, <2>8
    <2>10. c.blocks = two /\ c.sigs = {d}
      <3>1. AddGemini(b, t) =
                [blocks |-> b.blocks \o TextIfAny(t.text),
                 sigs |-> IF t.sig # NoSignature /\ OfKind(b.blocks, "call") # <<>>
                          THEN b.sigs \cup {<<SignatureOwner(b.blocks), t.sig>>}
                          ELSE b.sigs]
        BY <2>4, AddGeminiIs
      <3>2. b.blocks = two /\ b.sigs = {}
        BY <2>6, <2>8
      <3>3. OfKind(two, "call") # <<>> /\ SignatureOwner(two) = n + 2
        BY <1>6, <2>8, OwnerIs
      <3>4. TextIfAny(t.text) = <<>>
        BY <2>4 DEF TextIfAny
      <3>5. t.sig # NoSignature
        BY <1>9, <2>4
      <3>6. <<SignatureOwner(two), t.sig>> = d
        BY <2>4, <2>7, <3>3
      <3>7. c = AddGemini(b, t)
        BY <1>4, <2>3
      <3>11. PICK e : e = [blocks |-> two \o <<>>, sigs |-> {d}]
        OBVIOUS
      <3>12. AddGemini(b, t) = e
        <4>1. TextIfAny(t.text) = <<>> /\ b.blocks \o TextIfAny(t.text) = two \o <<>>
          BY <3>2, <3>4
        <4>2. b.sigs \cup {<<SignatureOwner(b.blocks), t.sig>>} = {d}
          <5>1. <<SignatureOwner(b.blocks), t.sig>> = d
            BY <3>2, <3>6
          <5> QED
            BY <3>2, <5>1
        <4>3. t.sig # NoSignature /\ OfKind(b.blocks, "call") # <<>>
          BY <3>2, <3>3, <3>5
        <4> QED
          BY <3>1, <3>11, <4>1, <4>2, <4>3
      <3>8. c.blocks = two \o <<>>
        BY <3>7, <3>11, <3>12
      <3>9. two \o <<>> = two
        BY <2>9, ConcatEmptySeq
      <3>10. c.sigs = {d}
        BY <3>7, <3>11, <3>12
      <3> QED
        BY <3>8, <3>9, <3>10
    <2> QED
      BY <1>5, <1>7, <1>14, <2>3, <2>7, <2>9, <2>10
  <1> QED
    BY <1>10, <1>12, <1>13, <1>14

\* An answer in the neutral form, and the signatures it brings.
Brings(provider, reply, n, Talk, got) ==
    /\ got.blocks \in Seq(NeutralBlocks(Talk))
    /\ provider = "gemini" => got.sigs = SignaturesOf(reply, n)
    /\ provider # "gemini" => got.sigs = {}

\* What is made of a provider's answer.
LEMMA FromProviderIs ==
    ASSUME NEW provider \in {"anthropic", "openai", "gemini"}, NEW Talk, NEW heard \in Seq(Talk),
           NEW n \in Nat, NEW reply \in {"say", "call", "think", "calls"},
           NEW parts, parts = Reply(reply, provider, heard, n)
    PROVE  Brings(provider, reply, n, Talk \cup {Repeated}, FromProvider(provider, parts))
  <1> USE DEF Brings
  <1>1. PICK T : T = Talk \cup {Repeated}
    OBVIOUS
  <1>2. CASE provider = "anthropic"
    <2>1. FromProvider(provider, parts) = [blocks |-> AnswerFromAnthropic(parts), sigs |-> {}]
      BY <1>2, Zenon DEF FromProvider
    <2>2. parts \in Seq(WireParts("anthropic", T))
      BY <1>1, <1>2, ReplyTyped
    <2>3. AnswerFromAnthropic(parts) \in Seq(NeutralBlocks(T))
      BY <2>2, AnswerFromAnthropicIs
    <2> QED
      BY <1>1, <1>2, <2>1, <2>3
  <1>3. CASE provider = "openai"
    <2>1. FromProvider(provider, parts) = [blocks |-> AnswerFromOpenAI(parts), sigs |-> {}]
      BY <1>3, Zenon DEF FromProvider
    <2>2. parts \in Seq(WireParts("openai", T))
      BY <1>1, <1>3, ReplyTyped
    <2>3. AnswerFromOpenAI(parts) \in Seq(NeutralBlocks(T))
      BY <2>2, AnswerFromOpenAIIs
    <2> QED
      BY <1>1, <1>3, <2>1, <2>3
  <1>4. CASE provider = "gemini"
    <2>1. FromProvider(provider, parts) = AnswerFromGemini(parts)
      BY <1>4, Zenon DEF FromProvider
    <2>2. heard \in Seq(T)
      BY <1>1
    <2>3. parts = Reply(reply, "gemini", heard, n)
      BY <1>4
    <2>4. /\ AnswerFromGemini(parts).blocks \in Seq(NeutralBlocks(T))
          /\ AnswerFromGemini(parts).sigs = SignaturesOf(reply, n)
      <3> HIDE <1>4
      <3>1. ASSUME NEW U, heard \in Seq(U)
            PROVE  /\ AnswerFromGemini(parts).blocks \in Seq(NeutralBlocks(U))
                   /\ AnswerFromGemini(parts).sigs = SignaturesOf(reply, n)
        BY <2>3, <3>1, AnswerFromGeminiIs
      <3> QED
        BY <2>2, <3>1
    <2>5. provider = "gemini" /\ FromProvider(provider, parts).blocks = AnswerFromGemini(parts).blocks
          /\ FromProvider(provider, parts).sigs = AnswerFromGemini(parts).sigs
      BY <1>4, <2>1
    <2> QED
      BY <1>1, <2>4, <2>5
  <1> QED
    BY <1>2, <1>3, <1>4

\* The answer passed through, restored as a whole.
LEMMA RawRestored ==
    ASSUME NEW d \in {"anthropic", "openai"}, NEW Talk, NEW parts \in Seq(WireParts(d, Talk)), NEW vault
    PROVE  <<Message("assistant", ResolveRaw(vault, parts))>>
              \in Seq(NewMessages(d, Talk \cup ToSet(vault)))
  <1>1. PICK T : T = Talk \cup ToSet(vault)
    OBVIOUS
  <1>2. PICK R : R = {p \in PartsOf(T, ToolsOf(Outputs)) : /\ p.kind \in {"text", "thinking", "call"}
                                                           /\ d = "openai" => p.kind # "thinking"}
    OBVIOUS
  <1>3. ASSUME NEW p \in WireParts(d, Talk) PROVE Retold(p, ResolveText(vault, p.text)) \in R
    <2>1. /\ p \in PartsOf(Talk, CallParts) /\ p.kind \in {"text", "thinking", "call"}
          /\ d = "openai" => p.kind # "thinking"
      BY DEF WireParts
    <2>2. PICK q : q = Retold(p, ResolveText(vault, p.text))
      OBVIOUS
    <2>3. CASE p.kind = "call"
      <3>1. AreTools(CallParts)
        BY ToolIs
      <3>2. p \in CallParts
        BY <2>1, <2>3, <3>1, PartIs DEF TalkKinds
      <3>3. q = p
        BY <2>2, <3>2, RetoldCall
      <3>4. p \in PartsOf(T, ToolsOf(Outputs))
        BY <3>2 DEF PartsOf, ToolsOf
      <3> QED
        BY <1>2, <2>1, <2>2, <3>3, <3>4
    <2>4. CASE p.kind # "call"
      <3>1. AreTools(CallParts)
        BY ToolIs
      <3>2. p \in TalkParts(Talk) /\ p.text \in Seq(Talk)
        BY <2>1, <2>4, <3>1, PartIs DEF TalkKinds
      <3>3. ResolveText(vault, p.text) \in Seq(T)
        BY <1>1, <3>2, ResolveTextIs
      <3>4. q \in TalkParts(T) /\ q.kind = p.kind
        BY <2>2, <3>2, <3>3, RetoldIs
      <3>5. q \in PartsOf(T, ToolsOf(Outputs))
        BY <3>4 DEF PartsOf
      <3> QED
        BY <1>2, <2>1, <2>2, <3>4, <3>5
    <2> QED
      BY <2>3, <2>4
  <1>4. PICK out : out = ResolveRaw(vault, parts)
    OBVIOUS
  <1>5. \A i \in DOMAIN parts : parts[i] \in WireParts(d, Talk)
    OBVIOUS
  <1>6. out \in [DOMAIN parts -> R]
    BY <1>3, <1>4, <1>5 DEF ResolveRaw
  <1>7. out \in Seq(R)
    BY <1>6, MapTyped
  <1>8. R \subseteq PartsOf(T, ToolsOf(Outputs))
    BY <1>2
  <1>9. out \in Seq(PartsOf(T, ToolsOf(Outputs)))
    BY <1>7, <1>8
  <1>10. \A j \in DOMAIN out : out[j] \in R
    BY <1>7
  <1>11. PICK m : m = Message("assistant", out)
    OBVIOUS
  <1>12. "assistant" \in Roles \ {"system"}
    BY DEF Roles
  <1>13. m \in NewMessages(d, T)
    <2>1. CASE d = "anthropic"
      <3>1. \A j \in DOMAIN out : out[j].kind = "redacted_thinking" => out[j].text = <<>>
        BY <1>2, <1>10
      <3> QED
        BY <1>9, <1>11, <1>12, <2>1, <3>1, NewMessageIs
    <2>2. CASE d = "openai"
      <3>1. \A j \in DOMAIN out : out[j].kind \in {"text", "call"}
        BY <1>2, <1>10, <2>2
      <3> QED
        BY <1>9, <1>11, <1>12, <2>2, <3>1, NewMessageIs
    <2> QED
      BY <2>1, <2>2
  <1>14. <<m>> \in Seq(NewMessages(d, T))
    BY <1>13
  <1> QED
    BY <1>1, <1>4, <1>11, <1>14

-----------------------------------------------------------------------------
(* The conversation as the client has it.                                    *)

\* What a provider repeats was said to it.
LEMMA HeardIs ==
    ASSUME NEW Talk, NEW Tools, AreTools(Tools), NEW body \in BodiesOf(Talk, Tools)
    PROVE  Heard(body) \in Seq(Talk)
  <1>1. PICK typed : typed = {i \in DOMAIN body.messages : /\ body.messages[i].role = "user"
                                                           /\ Joined(body.messages[i].parts) # <<>>}
    OBVIOUS
  <1>2. Heard(body) = IF typed = {} THEN <<>> ELSE Joined(body.messages[Max(typed)].parts)
    BY <1>1 DEF Heard
  <1>3. CASE typed = {}
    <2>1. Heard(body) = <<>>
      BY <1>2, <1>3
    <2> QED
      BY <2>1
  <1>4. CASE typed # {}
    <2>1. body.messages \in Seq(MessagesOf(Talk, Tools))
      BY BodyIs
    <2>2. PICK n : n = Len(body.messages)
      OBVIOUS
    <2>3. n \in Nat /\ DOMAIN body.messages = 1..n
      BY <2>1, <2>2
    <2>4. typed \in SUBSET (0..n)
      BY <1>1, <2>3
    <2>5. Max(typed) \in typed
      BY <1>4, <2>3, <2>4, MaxIs
    <2>6. Max(typed) \in DOMAIN body.messages
      BY <1>1, <2>5
    <2>7. body.messages[Max(typed)].parts \in Seq(PartsOf(Talk, Tools))
      BY <2>1, <2>6, PartsAre
    <2>8. Joined(body.messages[Max(typed)].parts) \in Seq(Talk)
      BY <2>7, JoinedTyped
    <2> QED
      BY <1>2, <1>4, <2>8
  <1> QED
    BY <1>3, <1>4

\* The conversation begins with the system text.
LEMMA StartedIs ==
    ASSUME NEW s \in Setups
    PROVE  Started(s.system) \in FineBodies(s.dialect, ToSet(SystemText), ToolsOf(Outputs))
  <1>1. PICK d, place : d = s.dialect /\ place = s.system
    OBVIOUS
  <1>2. PICK T : T = ToSet(SystemText)
    OBVIOUS
  <1>3. SystemText \in Seq(T)
    BY <1>2, TextsAssumption DEF IsText
  <1>4. \/ d = "anthropic" /\ place \in {"field", "system"}
        \/ d = "openai" /\ place = "system"
        \/ d = "responses" /\ place \in {"field", "developer", "system"}
    BY <1>1, SetupsAssumption
  <1>5. PICK M : M = FineMessages(d, T, ToolsOf(Outputs))
    OBVIOUS
  <1>6. CASE place = "field"
    <2>1. PICK b : b = Body(SystemText, <<>>)
      OBVIOUS
    <2>2. b = [system |-> SystemText, messages |-> <<>>]
      BY <2>1 DEF Body
    <2>3. <<>> \in Seq(M)
      OBVIOUS
    <2>4. b \in [system : Seq(T), messages : Seq(M)]
      BY <1>3, <2>2, <2>3
    <2>5. d # "openai" /\ DOMAIN b.messages = {}
      BY <1>4, <1>6, <2>2
    <2>6. FineSystem(d, b)
      BY <2>5 DEF FineSystem
    <2>7. b \in FineBodies(d, T, ToolsOf(Outputs))
      BY <1>5, <2>4, <2>6 DEF FineBodies
    <2>8. Started(place) = b
      BY <1>6, <2>1 DEF Started
    <2> QED
      BY <1>1, <1>2, <2>7, <2>8
  <1>7. CASE place # "field"
    <2>1. PICK t : t = Text(SystemText)
      OBVIOUS
    <2>2. PICK m : m = Message(place, <<t>>)
      OBVIOUS
    <2>3. t \in PartsOf(T, ToolsOf(Outputs)) /\ t.kind = "text"
      <3>1. t \in TalkParts(T) /\ t.kind = "text"
        BY <1>3, <2>1, TextTyped
      <3> QED
        BY <3>1 DEF PartsOf
    <2>4. PICK parts : parts = <<t>>
      OBVIOUS
    <2>5. parts \in Seq(PartsOf(T, ToolsOf(Outputs))) /\ DOMAIN parts = {1} /\ parts[1] = t
      BY <2>3, <2>4
    <2>6. place \in {"system", "developer"} /\ (d = "openai" => place = "system")
      BY <1>4, <1>7
    <2>7. m \in MessagesOf(T, ToolsOf(Outputs)) /\ m.role = place /\ m.parts = parts
      <3>1. place \in Roles
        BY <2>6 DEF Roles
      <3>2. m = Message(place, parts)
        BY <2>2, <2>4
      <3> QED
        BY <2>5, <3>1, <3>2, MessageTyped
    <2>8. \A j \in DOMAIN m.parts : m.parts[j].kind = "text"
      BY <2>3, <2>5, <2>7
    <2>9. Fine(d, m)
      <3>1. CASE d = "anthropic"
        <4>1. Fine("anthropic", m)
          BY <2>8, FineIs
        <4> QED
          BY <3>1, <4>1
      <3>2. CASE d = "openai"
        <4>1. m.role = "system"
          BY <2>6, <2>7, <3>2
        <4>2. Fine("openai", m)
          BY <2>8, <4>1, FineIs
        <4> QED
          BY <3>2, <4>2
      <3>3. CASE d = "responses"
        <4>1. m.role \notin {"function_call", "function_call_output"}
          BY <2>6, <2>7
        <4>2. Fine("responses", m)
          BY <2>8, <4>1, FineIs
        <4> QED
          BY <3>3, <4>2
      <3> QED
        BY <1>4, <3>1, <3>2, <3>3
    <2>10. Plain(m.parts)
      BY <2>8 DEF Plain
    <2>11. m \in M
      BY <1>5, <2>7, <2>9, <2>10 DEF FineMessages
    <2>12. PICK b : b = Body(<<>>, <<m>>)
      OBVIOUS
    <2>13. b = [system |-> <<>>, messages |-> <<m>>]
      BY <2>12 DEF Body
    <2>14. <<>> \in Seq(T) /\ <<m>> \in Seq(M)
      BY <2>11
    <2>15. b \in [system : Seq(T), messages : Seq(M)]
      BY <2>13, <2>14
    <2>16. FineSystem(d, b)
      BY <2>13 DEF FineSystem
    <2>17. b \in FineBodies(d, T, ToolsOf(Outputs))
      BY <1>5, <2>15, <2>16 DEF FineBodies
    <2>18. Started(place) = b
      BY <1>7, <2>1, <2>2, <2>12 DEF Started
    <2> QED
      BY <1>1, <1>2, <2>17, <2>18
  <1> QED
    BY <1>6, <1>7

\* The conversation with more messages.
LEMMA FineExtended ==
    ASSUME NEW d, NEW Talk, NEW Talk2, NEW b \in FineBodies(d, Talk, ToolsOf(Outputs)),
           NEW ms \in Seq(NewMessages(d, Talk2))
    PROVE  Body(b.system, b.messages \o ms) \in FineBodies(d, Talk \cup Talk2, ToolsOf(Outputs))
  <1>1. PICK T : T = Talk \cup Talk2
    OBVIOUS
  <1>2. PICK O : O = ToolsOf(Outputs)
    OBVIOUS
  <1>3. PICK M : M = FineMessages(d, T, O)
    OBVIOUS
  <1>4. b.system \in Seq(T) /\ b.messages \in Seq(M) /\ FineSystem(d, b)
    <2>1. Talk \subseteq T /\ O \subseteq O
      BY <1>1
    <2>2. FineBodies(d, Talk, O) \subseteq FineBodies(d, T, O)
      BY <2>1, PartsGrow
    <2>3. b \in FineBodies(d, T, O)
      BY <1>2, <2>2
    <2> QED
      BY <1>3, <2>3 DEF FineBodies
  <1>5. ms \in Seq(M) /\ \A i \in DOMAIN ms : ms[i].role # "system"
    <2>1. Talk2 \subseteq T /\ O \subseteq O
      BY <1>1
    <2>2. Seq(FineMessages(d, Talk2, O)) \subseteq Seq(M)
      BY <1>3, <2>1, PartsGrow
    <2>3. NewMessages(d, Talk2) \subseteq FineMessages(d, Talk2, O)
      BY <1>2 DEF NewMessages
    <2>4. ms \in Seq(FineMessages(d, Talk2, O))
      BY <2>3
    <2>5. \A m \in NewMessages(d, Talk2) : m.role # "system"
      BY DEF NewMessages
    <2> QED
      BY <2>2, <2>4, <2>5
  <1>6. PICK all : all = b.messages \o ms
    OBVIOUS
  <1>7. /\ all \in Seq(M)
        /\ \A i \in DOMAIN all : \/ i \in DOMAIN b.messages /\ all[i] = b.messages[i]
                                 \/ \E k \in DOMAIN ms : all[i] = ms[k]
    <2>1. PICK a : a = b.messages
      OBVIOUS
    <2>2. /\ a \o ms \in Seq(M)
          /\ DOMAIN (a \o ms) = 1..(Len(a) + Len(ms))
          /\ DOMAIN a = 1..Len(a) /\ DOMAIN ms = 1..Len(ms) /\ Len(a) \in Nat /\ Len(ms) \in Nat
          /\ \A i \in 1..Len(a) : (a \o ms)[i] = a[i]
          /\ \A i \in 1..Len(ms) : (a \o ms)[Len(a) + i] = ms[i]
      BY <1>4, <1>5, <2>1, ConcatIs
    <2>3. ASSUME NEW i \in DOMAIN (a \o ms), i \notin DOMAIN a
          PROVE  \E k \in DOMAIN ms : (a \o ms)[i] = ms[k]
      <3>1. PICK k : k = i - Len(a)
        OBVIOUS
      <3>2. k \in 1..Len(ms) /\ i = Len(a) + k
        BY <2>2, <2>3, <3>1
      <3> QED
        BY <2>2, <3>2
    <2> QED
      BY <1>6, <2>1, <2>2, <2>3
  <1>8. PICK c : c = Body(b.system, all)
    OBVIOUS
  <1>9. c = [system |-> b.system, messages |-> all]
    BY <1>8 DEF Body
  <1>10. FineSystem(d, c)
    <2>1. c.system = b.system /\ c.messages = all
      BY <1>9
    <2>2. d = "openai" => c.system = <<>>
      BY <1>4, <2>1 DEF FineSystem
    <2>3. ASSUME d = "anthropic", c.system # <<>>, NEW i \in DOMAIN c.messages
          PROVE  c.messages[i].role # "system"
      <3>1. \A k \in DOMAIN b.messages : b.messages[k].role # "system"
        BY <1>4, <2>1, <2>3 DEF FineSystem
      <3> QED
        BY <1>5, <1>7, <2>1, <2>3, <3>1
    <2> QED
      BY <2>2, <2>3 DEF FineSystem
  <1>11. c \in [system : Seq(T), messages : Seq(M)]
    BY <1>4, <1>7, <1>9
  <1>12. c \in FineBodies(d, T, O)
    BY <1>3, <1>10, <1>11 DEF FineBodies
  <1> QED
    BY <1>1, <1>2, <1>6, <1>8, <1>12

\* The results a client sends, in messages of its dialect.
LEMMA ResultMessagesIs ==
    ASSUME dialect \in {"anthropic", "openai", "responses"}, NEW calls \in Seq(CallParts),
           NEW o \in Outputs, NEW Talk
    PROVE  ResultMessages(calls, o) \in Seq(NewMessages(dialect, Talk))
  <1>1. PICK R : R = ResultParts(Outputs)
    OBVIOUS
  <1>2. PICK P : P = PartsOf(Talk, ToolsOf(Outputs))
    OBVIOUS
  <1>3. PICK N : N = NewMessages(dialect, Talk)
    OBVIOUS
  <1>4. PICK results : results = [i \in DOMAIN calls |-> Result(calls[i].id, o)]
    OBVIOUS
  <1>5. \A i \in DOMAIN calls : Result(calls[i].id, o) \in R
    <2>1. \A i \in DOMAIN calls : calls[i] \in CallParts
      OBVIOUS
    <2>2. \A p \in CallParts : p.id \in Nat
      BY ToolIs
    <2> QED
      BY <1>1, <2>1, <2>2 DEF ResultParts
  <1>6. results \in [DOMAIN calls -> R]
    BY <1>4, <1>5
  <1>7. results \in Seq(R)
    BY <1>6, MapTyped
  <1>8. R \subseteq P /\ \A p \in R : p.kind = "result"
    <2>1. R \subseteq P
      BY <1>1, <1>2 DEF PartsOf, ToolsOf
    <2>2. \A p \in R : p.kind = "result"
      BY <1>1, ToolIs
    <2> QED
      BY <2>1, <2>2
  <1>9. \A i \in DOMAIN results : results[i] \in R
    BY <1>7
  <1>10. PICK role : role = IF dialect = "openai" THEN "tool" ELSE "function_call_output"
    OBVIOUS
  <1>11. ResultMessages(calls, o) =
             IF dialect = "anthropic" THEN <<Message("user", results)>>
             ELSE [i \in DOMAIN results |-> Message(role, <<results[i]>>)]
    BY <1>4, <1>10 DEF ResultMessages
  <1>12. CASE dialect = "anthropic"
    <2>1. results \in Seq(P)
      BY <1>7, <1>8
    <2>2. \A j \in DOMAIN results : results[j].kind = "redacted_thinking" => results[j].text = <<>>
      BY <1>8, <1>9
    <2>3. "user" \in Roles \ {"system"}
      BY DEF Roles
    <2>4. PICK m : m = Message("user", results)
      OBVIOUS
    <2>5. m \in N
      BY <1>2, <1>3, <1>12, <2>1, <2>2, <2>3, <2>4, NewMessageIs
    <2>6. <<m>> \in Seq(N)
      BY <2>5
    <2> QED
      BY <1>3, <1>11, <1>12, <2>4, <2>6
  <1>13. CASE dialect # "anthropic"
    <2>1. ASSUME NEW p \in R PROVE Message(role, <<p>>) \in N
      <3>1. PICK parts : parts = <<p>>
        OBVIOUS
      <3>2. parts \in Seq(P) /\ DOMAIN parts = {1} /\ parts[1] = p /\ parts # <<>>
        <4>1. p \in P
          BY <1>8, <2>1
        <4> QED
          BY <3>1, <4>1
      <3>3. Plain(parts)
        BY <1>8, <3>2 DEF Plain
      <3>4. role \in Roles \ {"system"}
        BY <1>10 DEF Roles
      <3>5. \/ dialect = "openai" /\ role = "tool"
            \/ dialect = "responses" /\ role = "function_call_output"
        BY <1>10, <1>13
      <3>6. Message(role, parts) \in N
        <4>1. CASE dialect = "openai"
          <5>1. role \in {"user", "tool"}
            BY <3>5, <4>1
          <5> QED
            BY <1>2, <1>3, <3>2, <3>3, <3>4, <4>1, <5>1, NewMessageIs
        <4>2. CASE dialect = "responses"
          <5>1. role = "function_call_output"
            BY <3>5, <4>2
          <5>2. role # "reasoning"
            BY <5>1
          <5> QED
            BY <1>2, <1>3, <3>2, <3>3, <3>4, <4>2, <5>2, NewMessageIs
        <4> QED
          BY <1>13, <4>1, <4>2
      <3> QED
        BY <3>1, <3>6
    <2>2. PICK out : out = [i \in DOMAIN results |-> Message(role, <<results[i]>>)]
      OBVIOUS
    <2>3. out \in [DOMAIN results -> N]
      BY <1>9, <2>1, <2>2
    <2>4. out \in Seq(N)
      BY <1>7, <2>3, MapTyped
    <2> QED
      BY <1>3, <1>11, <1>13, <2>2, <2>4
  <1> QED
    BY <1>12, <1>13

\* The calls that wait for a result.
LEMMA UnansweredIs ==
    ASSUME NEW d, NEW Talk, history \in FineBodies(d, Talk, ToolsOf(Outputs))
    PROVE  Unanswered \in Seq(CallParts)
  <1>1. PICK O : O = ToolsOf(Outputs)
    OBVIOUS
  <1>2. history.messages \in Seq(MessagesOf(Talk, O))
    <2>1. history \in FineBodies(d, Talk, O)
      BY <1>1
    <2> QED
      BY <2>1, FineTyped
  <1>3. PICK all : all = AllParts(history.messages)
    OBVIOUS
  <1>4. all \in Seq(PartsOf(Talk, O))
    BY <1>2, <1>3, AllPartsTyped
  <1>5. AreTools(O)
    BY <1>1, ToolIs
  <1>6. PICK calls : calls = OfKind(all, "call")
    OBVIOUS
  <1>7. PICK C : C = {p \in PartsOf(Talk, O) : p.kind = "call"}
    OBVIOUS
  <1>8. calls \in Seq(C)
    BY <1>4, <1>5, <1>6, <1>7, OfKindTyped
  <1>9. C \subseteq CallParts
    <2>1. ASSUME NEW p \in C PROVE p \in CallParts
      <3>1. p \in PartsOf(Talk, O) /\ p.kind = "call"
        BY <1>7
      <3>2. p \in O
        BY <1>5, <3>1, PartIs DEF TalkKinds
      <3> QED
        BY <1>1, <3>1, <3>2, ToolIs
    <2> QED
      BY <2>1
  <1>10. calls \in Seq(CallParts) /\ \A i \in DOMAIN calls : calls[i] \in CallParts
    BY <1>8, <1>9
  <1>11. PICK results : results = OfKind(all, "result")
    OBVIOUS
  <1>12. PICK places : places = {i \in DOMAIN calls :
                                    \A j \in DOMAIN results : results[j].id # calls[i].id}
    OBVIOUS
  <1>13. At(calls, places) \in Seq(CallParts)
    BY <1>10, AtTyped
  <1>14. Unanswered = At(calls, places)
    BY <1>3, <1>6, <1>11, <1>12 DEF Unanswered
  <1> QED
    BY <1>13, <1>14

\* What the client may say now is in its dialect.
LEMMA TurnsAre ==
    ASSUME dialect \in {"anthropic", "openai", "responses"}, NEW Talk,
           history \in FineBodies(dialect, Talk, ToolsOf(Outputs)),
           turns \in Nat, turns < MaxTurns, NEW asked \in Turns
    PROVE  \E Talk2 : asked \in Seq(NewMessages(dialect, Talk2))
  <1>1. CASE Unanswered = <<>>
    <2>1. asked \in {<<Message("user", <<Text(t)>>)>> : t \in Inputs[turns + 1]}
      BY <1>1 DEF Turns
    <2>2. PICK u \in Inputs[turns + 1] : asked = <<Message("user", <<Text(u)>>)>>
      BY <2>1
    <2>3. PICK T : T = ToSet(u)
      OBVIOUS
    <2>4. u \in Seq(T)
      <3>1. turns + 1 \in 1..MaxTurns
        BY MaxTurnsAssumption
      <3> QED
        BY <2>3, <3>1, TextsAssumption DEF IsText
    <2>5. PICK t : t = Text(u)
      OBVIOUS
    <2>6. PICK P : P = PartsOf(T, ToolsOf(Outputs))
      OBVIOUS
    <2>7. t \in P /\ t.kind = "text"
      <3>1. t \in TalkParts(T) /\ t.kind = "text"
        BY <2>4, <2>5, TextTyped
      <3> QED
        BY <2>6, <3>1 DEF PartsOf
    <2>8. PICK parts : parts = <<t>>
      OBVIOUS
    <2>9. parts \in Seq(P) /\ DOMAIN parts = {1} /\ parts[1] = t
      BY <2>7, <2>8
    <2>10. Plain(parts) /\ \A j \in DOMAIN parts : parts[j].kind # "redacted_thinking"
      BY <2>7, <2>9 DEF Plain
    <2>11. PICK N : N = NewMessages(dialect, T)
      OBVIOUS
    <2>12. "user" \in Roles \ {"system"}
      BY DEF Roles
    <2>13. PICK m : m = Message("user", parts)
      OBVIOUS
    <2>14. m \in N
      <3>1. CASE dialect = "anthropic"
        BY <2>6, <2>9, <2>10, <2>11, <2>12, <2>13, <3>1, NewMessageIs
      <3>2. CASE dialect = "openai"
        BY <2>6, <2>9, <2>10, <2>11, <2>12, <2>13, <3>2, NewMessageIs
      <3>3. CASE dialect = "responses"
        BY <2>6, <2>9, <2>10, <2>11, <2>12, <2>13, <3>3, NewMessageIs
      <3> QED
        BY <3>1, <3>2, <3>3
    <2>15. <<m>> \in Seq(N)
      BY <2>14
    <2>16. asked = <<m>>
      BY <2>2, <2>5, <2>8, <2>13
    <2> QED
      BY <2>11, <2>15, <2>16
  <1>2. CASE Unanswered # <<>>
    <2>1. asked \in {ResultMessages(Unanswered, o) : o \in Outputs}
      BY <1>2 DEF Turns
    <2>2. PICK o \in Outputs : asked = ResultMessages(Unanswered, o)
      BY <2>1
    <2>3. Unanswered \in Seq(CallParts)
      BY UnansweredIs
    <2>4. asked \in Seq(NewMessages(dialect, {}))
      BY <2>2, <2>3, ResultMessagesIs
    <2> QED
      BY <2>4
  <1> QED
    BY <1>1, <1>2

-----------------------------------------------------------------------------
(* The vault of one request, for any values and however many: tokens tell    *)
(* values apart, and an answer that repeats them gets the values back.       *)

Values == {"value", "phrase"} \X (DOMAIN Scores) \X Nat
Vaults == {v \in Seq(Values) : IsInjective(v)}

\* Token numbers count a finite set.
LEMMA CounterSet ==
    ASSUME NEW vault \in Seq(Values), NEW type, NEW i \in Nat
    PROVE  /\ IsFiniteSet({j \in 1..i : vault[j][2] = type})
           /\ Counter(vault, type, i) \in Nat
<1>1. IsFiniteSet(1..i)
  BY FS_Interval
<1>2. {j \in 1..i : vault[j][2] = type} \subseteq 1..i
  OBVIOUS
<1> QED
  BY <1>1, <1>2, FS_Subset, FS_CardinalityType DEF Counter

\* A later value of a type has a larger number.
LEMMA CounterGrows ==
    ASSUME NEW vault \in Seq(Values), NEW i \in DOMAIN vault, NEW k \in DOMAIN vault,
           i < k
    PROVE  Counter(vault, vault[k][2], i) < Counter(vault, vault[k][2], k)
<1> DEFINE Upto(n) == {j \in 1..n : vault[j][2] = vault[k][2]}
<1>1. i \in Nat /\ k \in Nat /\ k \in 1..k
  OBVIOUS
<1>2. IsFiniteSet(Upto(k))
  BY <1>1, CounterSet
<1>3. Upto(i) \subseteq Upto(k) /\ Upto(i) # Upto(k)
  BY <1>1
<1>4. Cardinality(Upto(i)) < Cardinality(Upto(k))
  <2> HIDE DEF Upto
  <2>1. /\ IsFiniteSet(Upto(i))
        /\ Cardinality(Upto(i)) <= Cardinality(Upto(k))
        /\ Cardinality(Upto(k)) # Cardinality(Upto(i))
    BY <1>2, <1>3, FS_Subset
  <2>2. Cardinality(Upto(i)) \in Nat /\ Cardinality(Upto(k)) \in Nat
    BY <1>2, <2>1, FS_CardinalityType
  <2> QED
    BY <2>1, <2>2
<1> QED
  BY <1>4 DEF Counter

\* Where a value is in a vault.
PlaceOf(vault, value) == CHOOSE i \in DOMAIN vault : vault[i] = value

\* The place of a value of the vault is one where the value is.
LEMMA PlaceHasValue ==
    ASSUME NEW vault \in Seq(Values), NEW value, Contains(vault, value)
    PROVE  PlaceOf(vault, value) \in DOMAIN vault /\ vault[PlaceOf(vault, value)] = value
<1>1. \E i \in DOMAIN vault : vault[i] = value
  BY DEF Contains
<1> QED
  BY <1>1 DEF PlaceOf

\* A token is the type of its value with the count at the value's place.
LEMMA TokenizeByPlace ==
    ASSUME NEW vault, NEW value
    PROVE  Tokenize(vault, value) =
               <<"token", value[2], Counter(vault, value[2], PlaceOf(vault, value))>>
BY DEF Tokenize, Token, PlaceOf

\* No two values of a vault have the same token (BuiltinVault.Tokenize: a type's
\* counter never repeats a number).
THEOREM TokensDistinct ==
    ASSUME NEW vault \in Seq(Values), NEW v, NEW w,
           Contains(vault, v), Contains(vault, w),
           Tokenize(vault, v) = Tokenize(vault, w)
    PROVE  v = w
<1> DEFINE i == PlaceOf(vault, v)
           k == PlaceOf(vault, w)
<1>1. /\ i \in DOMAIN vault /\ vault[i] = v
      /\ k \in DOMAIN vault /\ vault[k] = w
  BY PlaceHasValue
<1>2. v[2] = w[2] /\ Counter(vault, v[2], i) = Counter(vault, v[2], k)
  BY TokenizeByPlace
<1>3. i \in Nat /\ k \in Nat
  BY <1>1
<1>4. Counter(vault, v[2], i) \in Nat /\ Counter(vault, v[2], k) \in Nat
  BY <1>3, CounterSet
<1> HIDE DEF i, k
<1>5. CASE i < k
  BY <1>5, <1>1, <1>2, <1>4, CounterGrows
<1>6. CASE k < i
  BY <1>6, <1>1, <1>2, <1>4, CounterGrows
<1>7. CASE i = k
  BY <1>7, <1>1
<1> QED
  BY <1>3, <1>5, <1>6, <1>7

\* Minting keeps a vault without repetition (the cache of BuiltinVault.Tokenize).
THEOREM MintKeepsVault ==
    ASSUME NEW vault \in Vaults, NEW value \in Values
    PROVE  MintWord(vault, value) \in Vaults /\ Contains(MintWord(vault, value), value)
<1>1. vault \in Seq(Values) /\ IsInjective(vault)
  BY DEF Vaults
<1>2. CASE Contains(vault, value)
  BY <1>2 DEF MintWord
<1>3. CASE ~Contains(vault, value)
  <2> DEFINE new == Append(vault, value)
  <2>1. /\ new \in Seq(Values) /\ DOMAIN new = 1..(Len(vault) + 1)
        /\ new[Len(vault) + 1] = value
        /\ \A i \in 1..Len(vault) : new[i] = vault[i]
    BY <1>1
  <2>2. \A i \in 1..Len(vault) : vault[i] # value
    BY <1>1, <1>3 DEF Contains
  <2>3. IsInjective(new)
    BY <1>1, <2>1, <2>2 DEF IsInjective
  <2>4. Contains(new, value)
    BY <1>1, <2>1 DEF Contains
  <2> QED
    BY <1>3, <2>1, <2>3, <2>4 DEF MintWord, Vaults
<1> QED
  BY <1>2, <1>3

\* A value keeps its token while more values are minted, so that replacing by
\* the vault as it is in the end is what Sanitize does text by text.
THEOREM TokenKept ==
    ASSUME NEW vault \in Vaults, NEW value \in Values, NEW v, Contains(vault, v)
    PROVE  Tokenize(MintWord(vault, value), v) = Tokenize(vault, v)
<1> DEFINE new == MintWord(vault, value)
           i == PlaceOf(vault, v)
<1>1. vault \in Seq(Values) /\ new \in Seq(Values) /\ IsInjective(new)
  BY MintKeepsVault DEF Vaults
<1>2. i \in DOMAIN vault /\ vault[i] = v
  BY <1>1, PlaceHasValue
<1>3. DOMAIN vault \subseteq DOMAIN new /\ \A j \in DOMAIN vault : new[j] = vault[j]
  BY <1>1 DEF MintWord
<1>4. PlaceOf(new, v) = i
  <2>1. i \in DOMAIN new /\ new[i] = v
    BY <1>2, <1>3
  <2>2. \A j \in DOMAIN new : new[j] = v => j = i
    BY <1>1, <2>1 DEF IsInjective
  <2> HIDE DEF new, i
  <2> QED
    BY <2>1, <2>2 DEF PlaceOf
<1>5. Counter(new, v[2], i) = Counter(vault, v[2], i)
  <2>1. 1..i \subseteq DOMAIN vault
    BY <1>1, <1>2
  <2>2. {j \in 1..i : new[j][2] = v[2]} = {j \in 1..i : vault[j][2] = v[2]}
    BY <1>3, <2>1
  <2> QED
    BY <2>2 DEF Counter
<1> HIDE DEF new, i
<1> QED
  BY <1>4, <1>5, TokenizeByPlace DEF new, i

\* A token of the vault resolves to its value as long as its number has no more
\* digits than Resolve reads (BuiltinVault.Resolve).
LEMMA TokenResolves ==
    ASSUME NEW vault \in Seq(Values), NEW v, Contains(vault, v), Tokenize(vault, v)[3] <= TokenLimit
    PROVE  ResolveWord(vault, Tokenize(vault, v)) = v
<1> DEFINE own == {x \in ToSet(vault) : Tokenize(vault, x) = Tokenize(vault, v)}
<1>1. v \in ToSet(vault)
  BY DEF Contains, ToSet
<1>2. \A x \in ToSet(vault) : Contains(vault, x)
  BY DEF Contains, ToSet
<1>3. own = {v}
  BY <1>1, <1>2, TokensDistinct
<1>4. ~(Tokenize(vault, v)[3] > TokenLimit)
  <2>1. PICK i : i = PlaceOf(vault, v)
    OBVIOUS
  <2>2. i \in Nat
    BY <2>1, PlaceHasValue
  <2>3. PICK n \in Nat : n = Counter(vault, v[2], i)
    BY <2>2, CounterSet
  <2>4. Tokenize(vault, v) = <<"token", v[2], n>>
    BY <2>1, <2>3, TokenizeByPlace
  <2>5. n <= TokenLimit
    BY <2>4
  <2> QED
    BY <2>3, <2>4, <2>5, TokenLimitAssumption
<1> HIDE DEF own
<1>5. ResolveWord(vault, Tokenize(vault, v)) = CHOOSE x \in own : TRUE
  BY <1>3, <1>4 DEF ResolveWord, own
<1> QED
  BY <1>3, <1>5

\* A word that is no token resolves to itself.
LEMMA OthersStay ==
    ASSUME NEW vault \in Seq(Values), NEW word, word[1] # "token"
    PROVE  ResolveWord(vault, word) = word
<1>1. \A x \in ToSet(vault) : Tokenize(vault, x)[1] = "token"
  BY TokenizeByPlace
<1>2. {x \in ToSet(vault) : Tokenize(vault, x) = word} = {}
  BY <1>1
<1> QED
  BY <1>2 DEF ResolveWord

\* What tokenizing made of a text, resolving makes undone, so a provider that
\* repeats a text gives the client the text it wrote, word for word: if each value
\* and phrase was found as it was typed, which a phrase in capitals is not, their
\* tokens have no more digits than Resolve reads, and the text had no tokens.
THEOREM RoundTrip ==
    ASSUME NEW vault \in Vaults, NEW Words, NEW text \in Seq(Words),
           FoundAsTyped(text), Restorable(vault, text),
           \A i \in DOMAIN text : ActsOn(Findings(text)[i]) => Contains(vault, text[i]),
           \A i \in DOMAIN text : ~Is(text[i], "token")
    PROVE  ResolveText(vault, Sanitize("tokenize", vault, text)) = text
<1>1. vault \in Seq(Values)
  BY DEF Vaults
<1>2. PICK found : found = Findings(text)
  OBVIOUS
<1>3. PICK safe : safe = Sanitize("tokenize", vault, text)
  OBVIOUS
<1>4. safe = [i \in DOMAIN text |-> IF ActsOn(found[i]) THEN Tokenize(vault, found[i].value) ELSE text[i]]
  BY <1>2, <1>3 DEF Sanitize, Replacement
<1>5. ASSUME NEW i \in DOMAIN text
      PROVE  ResolveWord(vault, safe[i]) = text[i]
  <2>1. CASE ActsOn(found[i])
    <3>1. found[i].value = text[i] /\ Contains(vault, text[i])
      BY <1>2, <2>1 DEF FoundAsTyped
    <3>2. safe[i] = Tokenize(vault, text[i])
      BY <1>4, <2>1, <3>1
    <3>3. text[i] \in ToSet(text) \cap ToSet(vault)
      BY <3>1 DEF Contains, ToSet
    <3>4. Tokenize(vault, text[i])[3] <= TokenLimit
      BY <3>3 DEF Restorable
    <3> QED
      BY <1>1, <3>1, <3>2, <3>4, TokenResolves
  <2>2. CASE ~ActsOn(found[i])
    <3>1. safe[i] = text[i]
      BY <1>4, <2>2
    <3>2. text[i][1] # "token"
      BY DEF Is
    <3> QED
      BY <1>1, <3>1, <3>2, OthersStay
  <2> QED
    BY <2>1, <2>2
<1>6. ResolveText(vault, safe) = [i \in DOMAIN text |-> ResolveWord(vault, safe[i])]
  BY <1>4 DEF ResolveText
<1>7. text = [i \in DOMAIN text |-> text[i]]
  OBVIOUS
<1> QED
  BY <1>3, <1>5, <1>6, <1>7

-----------------------------------------------------------------------------
(* The invariant. What a request was made of and when it was made are gone   *)
(* once it is on its way, so the invariant says of the request and of what   *)
(* was sent how they were made: no value that is sure is said in them,       *)
(* their results account for what they leave out, by originals that are in   *)
(* the store now, and their calls have signatures the cache has now. The     *)
(* client's history is in the shape of its dialect, without which words of   *)
(* it could be missing in the neutral form the warden scans.                 *)

\* Whether the request must be clean, and its raw form.
Held(s, r) == s.policy.mode \in {"tokenize", "redact"} /\ (r.whole \/ s.policy.failClosed)
HeldRaw(s, r) == Held(s, r) /\ r.placed

HistoryFine(s, h) == \E Talk : h \in FineBodies(s.dialect, Talk, ToolsOf(Outputs))

RequestSound(s, r, originals) ==
    /\ \E Talk : r.asked \in Seq(NewMessages(s.dialect, Talk))
    /\ Carried(r.ir, originals, Held(s, r))
    /\ s.dialect \in {"anthropic", "openai"} => Carried(r.raw, originals, HeldRaw(s, r))

SentSound(s, r, x, originals, sig) ==
    /\ x.provider \in Providers
    /\ x.raw = (s.passthrough /\ x.provider = s.dialect)
    /\ Goes(x.body, originals, Held(s, r) /\ (r.placed \/ ~x.raw), x.provider = "gemini", sig)

CacheSound(sig, signed) ==
    /\ signed \subseteq Nat /\ DOMAIN sig = signed
    /\ \A i \in signed : sig[i] = i

IInv ==
    /\ setup \in Setups /\ made \in Nat /\ turns \in Nat
    /\ phase \in {"client", "ready", "sent"}
    /\ HistoryFine(setup, history)
    /\ phase # "client" => RequestSound(setup, request, store)
    /\ phase = "sent" => SentSound(setup, request, sent, store, sigs)
    /\ CacheSound(sigs, issued)

\* What a setup may be.
LEMMA SetupIs ==
    ASSUME NEW s \in Setups
    PROVE  /\ s.dialect \in {"anthropic", "openai", "responses"}
           /\ s.policy.mode \in {"off", "tokenize", "redact", "block_only"}
  BY SetupsAssumption

\* The invariant holds before the first request.
LEMMA InitSound ==
    ASSUME Init
    PROVE  IInv
  <1>1. setup \in Setups /\ made = 0 /\ turns = 0 /\ phase = "client" /\ sigs = <<>> /\ issued = {}
    BY DEF Init
  <1>2. HistoryFine(setup, history)
    <2>1. history = Started(setup.system)
      BY DEF Init
    <2>2. Started(setup.system) \in FineBodies(setup.dialect, ToSet(SystemText), ToolsOf(Outputs))
      BY <1>1, StartedIs
    <2> QED
      BY <2>1, <2>2 DEF HistoryFine
  <1>3. CacheSound(sigs, issued)
    BY <1>1 DEF CacheSound
  <1> QED
    BY <1>1, <1>2, <1>3 DEF IInv

\* The history goes on with what the client says and what it is answered.
LEMMA HistoryGrows ==
    ASSUME NEW s, NEW h, HistoryFine(s, h), NEW Talk, NEW asked \in Seq(NewMessages(s.dialect, Talk)),
           NEW Talk2, NEW answer \in Seq(NewMessages(s.dialect, Talk2))
    PROVE  /\ HistoryFine(s, Body(h.system, h.messages \o asked))
           /\ HistoryFine(s, Body(h.system, h.messages \o asked \o answer))
  <1>1. PICK T : h \in FineBodies(s.dialect, T, ToolsOf(Outputs))
    BY DEF HistoryFine
  <1>2. PICK b : b = Body(h.system, h.messages \o asked)
    OBVIOUS
  <1>3. b \in FineBodies(s.dialect, T \cup Talk, ToolsOf(Outputs))
    BY <1>1, <1>2, FineExtended
  <1>4. b.system = h.system /\ b.messages = h.messages \o asked
    BY <1>2 DEF Body
  <1>5. Body(b.system, b.messages \o answer)
            \in FineBodies(s.dialect, (T \cup Talk) \cup Talk2, ToolsOf(Outputs))
    BY <1>3, FineExtended
  <1>6. Body(h.system, h.messages \o asked \o answer) = Body(b.system, b.messages \o answer)
    BY <1>4
  <1> QED
    BY <1>2, <1>3, <1>5, <1>6 DEF HistoryFine

\* A request that is asked and neither refused nor answered by a command.
LEMMA ReadySound ==
    ASSUME IInv, NEW Talk, NEW asked \in Seq(NewMessages(dialect, Talk)),
           NEW body, body = Body(history.system, history.messages \o asked),
           NEW ir, IsAsked(ir, Decode(dialect, body)), NEW injected,
           NEW safe, safe = Safe(ir, body), WardenError(policy, safe) = "",
           NEW all, all = store \cup Stored(safe)
    PROVE  RequestSound(setup, Prepared(asked, safe, injected), all)
  <1>1. dialect \in {"anthropic", "openai", "responses"} /\ dialect = setup.dialect
        /\ policy = setup.policy
    BY SetupIs DEF IInv, dialect, policy
  <1>2. PICK T : history \in FineBodies(dialect, T, ToolsOf(Outputs))
    BY <1>1 DEF IInv, HistoryFine
  <1>3. body \in FineBodies(dialect, T \cup Talk, ToolsOf(Outputs))
    BY <1>2, FineExtended
  <1>4. PICK r : r = Prepared(asked, safe, injected)
    OBVIOUS
  <1>5. /\ r.asked = asked /\ r.whole = ~safe.failed /\ r.placed = ~safe.misplaced
        /\ Carried(r.ir, all, IrClean(safe))
        /\ dialect \in {"anthropic", "openai"} => Carried(r.raw, all, RawClean(safe))
    <2>1. PICK T2 : body \in FineBodies(dialect, T2, ToolsOf(Outputs))
      BY <1>3
    <2>2. /\ Prepared(asked, safe, injected).asked = asked
          /\ Prepared(asked, safe, injected).whole = ~safe.failed
          /\ Prepared(asked, safe, injected).placed = ~safe.misplaced
      BY DEF Prepared
    <2>3. dialect \in {"anthropic", "openai", "responses"}
      BY <1>1
    <2>4. Carried(Prepared(asked, safe, injected).ir, all, IrClean(safe))
      BY <2>1, <2>3, PreparedIs
    <2>5. dialect \in {"anthropic", "openai"} =>
              Carried(Prepared(asked, safe, injected).raw, all, RawClean(safe))
      BY <2>1, <2>3, PreparedIs
    <2> QED
      BY <1>4, <2>2, <2>4, <2>5
  <1>6. Held(setup, r) => IrClean(safe)
    <2>1. SUFFICES ASSUME Held(setup, r) PROVE IrClean(safe)
      OBVIOUS
    <2>2. Rewriting /\ (~safe.failed \/ policy.failClosed)
      BY <1>1, <1>5, <2>1 DEF Held, Rewriting
    <2>3. ~(safe.failed /\ policy.failClosed)
      BY DEF WardenError
    <2> QED
      BY <2>2, <2>3 DEF IrClean
  <1>7. HeldRaw(setup, r) => RawClean(safe)
    BY <1>5, <1>6 DEF HeldRaw, IrClean, RawClean
  <1>8. Carried(r.ir, all, Held(setup, r))
    BY <1>5, <1>6, CarriedGrows
  <1>9. dialect \in {"anthropic", "openai"} => Carried(r.raw, all, HeldRaw(setup, r))
    BY <1>5, <1>7, CarriedGrows
  <1>10. r.asked \in Seq(NewMessages(setup.dialect, Talk))
    BY <1>1, <1>5
  <1> QED
    BY <1>1, <1>4, <1>8, <1>9, <1>10 DEF RequestSound

\* Ask keeps the invariant.
LEMMA AskSound ==
    ASSUME IInv, turns < MaxTurns, NEW asked \in Turns, Ask(asked)
    PROVE  IInv'
  <1>1. dialect \in {"anthropic", "openai", "responses"} /\ dialect = setup.dialect
    BY SetupIs DEF IInv, dialect
  <1>2. PICK T : history \in FineBodies(dialect, T, ToolsOf(Outputs))
    BY <1>1 DEF IInv, HistoryFine
  <1>3. PICK Talk : asked \in Seq(NewMessages(dialect, Talk))
    BY <1>1, <1>2, TurnsAre DEF IInv
  <1>4. PICK body : body = Body(history.system, history.messages \o asked)
    OBVIOUS
  <1>5. PICK decoded : decoded = Decode(dialect, body)
    OBVIOUS
  <1>6. PICK text : text = LastUserText(decoded.messages)
    OBVIOUS
  <1>7. PICK command : command = Command(text)
    OBVIOUS
  <1>8. PICK ir : ir = IF command = "inject" THEN Injected(decoded, text) ELSE decoded
    OBVIOUS
  <1>a. PICK safe : safe = Safe(ir, body)
    OBVIOUS
  <1>9. PICK error : error = WardenError(policy, safe)
    OBVIOUS
  <1>10. phase = "client"
    BY DEF Ask
  <1>11. UNCHANGED <<setup, sent, sigs, issued, thoughts, made, losses>> /\ turns' = turns + 1
    BY DEF Ask
  <1>12. (CASE command \in {"on", "off", "answer"} ->
                  /\ disabled' = (command = "off" \/ (disabled /\ command # "on"))
                  /\ history' = Body(body.system, body.messages
                                       \o KeptLocal(dialect, setup.stream, LocalAnswer))
                  /\ UNCHANGED <<phase, request, store, tries>>
           [] command \in {"pass", "inject"} /\ error = "" ->
                  /\ phase' = "ready" /\ tries' = 0
                  /\ request' = Prepared(asked, safe, command = "inject")
                  /\ store' = store \cup Stored(safe)
                  /\ UNCHANGED <<history, disabled>>
           [] OTHER -> UNCHANGED <<history, phase, request, store, disabled, tries>>)
    BY <1>4, <1>5, <1>6, <1>7, <1>8, <1>a, <1>9, Zenon DEF Ask
  <1>13. setup' \in Setups /\ made' \in Nat /\ turns' \in Nat /\ CacheSound(sigs', issued')
    BY <1>11 DEF IInv
  <1>14. CASE command \in {"on", "off", "answer"}
    <2>1. /\ history' = Body(body.system, body.messages
                                       \o KeptLocal(dialect, setup.stream, LocalAnswer))
          /\ phase' = phase
      BY <1>12, <1>14, Zenon
    <2>2. PICK T2 : KeptLocal(dialect, setup.stream, LocalAnswer) \in Seq(NewMessages(dialect, T2))
      BY <1>1, KeptLocalIs
    <2>3. body.system = history.system /\ body.messages = history.messages \o asked
      BY <1>4 DEF Body
    <2>4. HistoryFine(setup, Body(history.system, history.messages \o asked
                                    \o KeptLocal(dialect, setup.stream, LocalAnswer)))
      BY <1>1, <1>3, <2>2, HistoryGrows DEF IInv
    <2>5. HistoryFine(setup', history')
      BY <1>11, <2>1, <2>3, <2>4
    <2>6. phase' = "client"
      BY <1>10, <2>1
    <2> QED
      BY <1>13, <2>5, <2>6 DEF IInv
  <1>15. CASE command \notin {"on", "off", "answer"} /\ command \in {"pass", "inject"} /\ error = ""
    <2>1. /\ phase' = "ready"
          /\ request' = Prepared(asked, safe, command = "inject")
          /\ store' = store \cup Stored(safe)
          /\ history' = history
      BY <1>12, <1>15, Zenon
    <2>2. IsAsked(ir, Decode(dialect, body))
      <3>1. CASE command = "inject"
        <4>1. ir = Injected(decoded, text)
          BY <1>8, <3>1
        <4>2. text # <<>> /\ Is(text[1], "command")
          BY <1>7, <3>1, CommandIs
        <4> QED
          BY <1>5, <1>6, <4>1, <4>2 DEF IsAsked
      <3>2. CASE command # "inject"
        BY <1>5, <1>8, <3>2 DEF IsAsked
      <3> QED
        BY <3>1, <3>2
    <2>3. PICK all : all = store \cup Stored(safe)
      OBVIOUS
    <2>4. PICK injected : injected = (command = "inject")
      OBVIOUS
    <2>5. RequestSound(setup, Prepared(asked, safe, injected), all)
      BY <1>3, <1>4, <1>a, <1>9, <1>15, <2>2, <2>3, ReadySound
    <2>6. RequestSound(setup', request', store')
      BY <1>11, <2>1, <2>3, <2>4, <2>5
    <2>7. HistoryFine(setup', history')
      BY <1>11, <2>1 DEF IInv
    <2> QED
      BY <1>13, <2>1, <2>6, <2>7 DEF IInv
  <1>16. CASE command \notin {"on", "off", "answer"} /\ ~(command \in {"pass", "inject"} /\ error = "")
    <2>1. history' = history /\ phase' = phase
      BY <1>12, <1>16, Zenon
    <2>2. HistoryFine(setup', history')
      BY <1>11, <2>1 DEF IInv
    <2>3. phase' = "client"
      BY <1>10, <2>1
    <2> QED
      BY <1>13, <2>2, <2>3 DEF IInv
  <1> QED
    BY <1>14, <1>15, <1>16

\* Send keeps the invariant: the body is made from the request, whichever form.
LEMMA SendSound ==
    ASSUME IInv, NEW provider \in Providers, Send(provider)
    PROVE  IInv'
  <1>1. /\ phase = "ready" /\ phase' = "sent"
        /\ sent' = [provider |-> provider, raw |-> RawEligible(provider),
                    body |-> IF RawEligible(provider) THEN request.raw
                             ELSE ToProvider(provider, request.ir, sigs)]
        /\ UNCHANGED <<setup, history, request, disabled, sigs, store, issued, thoughts,
                       made, turns, losses>>
    BY DEF Send
  <1>2. provider \in {"anthropic", "openai", "gemini"}
    BY ProvidersAssumption
  <1>3. dialect = setup.dialect /\ dialect \in {"anthropic", "openai", "responses"}
    BY SetupIs DEF IInv, dialect
  <1>4. RequestSound(setup, request, store)
    BY <1>1 DEF IInv
  <1>5. sent'.provider = provider /\ sent'.raw = (setup.passthrough /\ provider = dialect)
        /\ sent'.body = IF RawEligible(provider) THEN request.raw
                        ELSE ToProvider(provider, request.ir, sigs)
    BY <1>1 DEF RawEligible
  <1>a. PICK clean, rawClean : clean = Held(setup, request) /\ rawClean = HeldRaw(setup, request)
    OBVIOUS
  <1>b. Carried(request.ir, store, clean)
        /\ (dialect \in {"anthropic", "openai"} => Carried(request.raw, store, rawClean))
    BY <1>3, <1>4, <1>a DEF RequestSound
  <1>6. PICK said : said = (Held(setup, request) /\ (request.placed \/ ~sent'.raw))
    OBVIOUS
  <1>7. Goes(sent'.body, store, said, provider = "gemini", sigs)
    <2>1. CASE RawEligible(provider)
      <3>1. provider = dialect /\ provider # "gemini" /\ dialect \in {"anthropic", "openai"}
        BY <1>2, <1>3, <2>1 DEF RawEligible
      <3>2. Carried(request.raw, store, rawClean)
        BY <1>b, <3>1
      <3>3. sent'.raw = TRUE
        BY <1>5, <2>1 DEF RawEligible, dialect
      <3>4. said => rawClean
        BY <1>a, <1>6, <3>3 DEF HeldRaw
      <3>5. Carried(request.raw, store, said)
        BY <3>2, <3>4, CarriedGrows
      <3>6. Goes(request.raw, store, said, provider = "gemini", sigs)
        BY <1>2, <3>1, <3>5, GoesToProvider
      <3> QED
        BY <1>5, <2>1, <3>6
    <2>2. CASE ~RawEligible(provider)
      <3>1. said => clean
        BY <1>a, <1>6
      <3>2. Carried(request.ir, store, said)
        BY <1>b, <3>1, CarriedGrows
      <3>3. Goes(ToProvider(provider, request.ir, sigs), store, said, provider = "gemini", sigs)
        BY <1>2, <3>2, GoesToProvider
      <3> QED
        BY <1>5, <2>2, <3>3
    <2> QED
      BY <2>1, <2>2
  <1>c. SentSound(setup, request, sent', store, sigs)
    BY <1>3, <1>5, <1>6, <1>7 DEF SentSound
  <1>8. SentSound(setup', request', sent', store', sigs')
    BY <1>1, <1>c
  <1>9. RequestSound(setup', request', store') /\ HistoryFine(setup', history')
        /\ CacheSound(sigs', issued')
    BY <1>1, <1>4 DEF IInv
  <1>10. setup' \in Setups /\ made' \in Nat /\ turns' \in Nat
    BY <1>1 DEF IInv
  <1> QED
    BY <1>1, <1>8, <1>9, <1>10 DEF IInv

\* Fail keeps the invariant.
LEMMA FailSound ==
    ASSUME IInv, Fail
    PROVE  IInv'
  <1>1. /\ phase = "sent"
        /\ (phase' = "ready" /\ request' = request) \/ phase' = "client"
        /\ UNCHANGED <<setup, history, disabled, sigs, store, issued, thoughts, made,
                       turns, tries, losses>>
    BY DEF Fail
  <1>2. phase' # "sent" /\ phase' \in {"client", "ready", "sent"}
    BY <1>1
  <1>3. RequestSound(setup, request, store)
    BY <1>1 DEF IInv
  <1>4. phase' # "client" => RequestSound(setup', request', store')
    BY <1>1, <1>3
  <1>5. HistoryFine(setup', history') /\ CacheSound(sigs', issued')
    BY <1>1 DEF IInv
  <1>6. setup' \in Setups /\ made' \in Nat /\ turns' \in Nat
    BY <1>1 DEF IInv
  <1> QED
    BY <1>2, <1>4, <1>5, <1>6 DEF IInv

\* What the client keeps of an answer is in its dialect, and the signatures the
\* cache gets are those Gemini gave.
LEMMA ReceivedIs ==
    ASSUME IInv, phase = "sent", NEW reply \in Replies, NEW parts,
           parts = Reply(reply, sent.provider, Heard(sent.body), made)
    PROVE  /\ \E Talk : Received(parts, sent.provider) \in Seq(NewMessages(dialect, Talk))
           /\ NewSignatures(parts, sent.provider) =
                 {<<i, i>> : i \in SignedBy(reply, sent.provider, made)}
  <1>1. dialect = setup.dialect /\ dialect \in {"anthropic", "openai", "responses"}
    BY SetupIs DEF IInv, dialect
  <1>2. SentSound(setup, request, sent, store, sigs) /\ made \in Nat
    BY DEF IInv
  <1>3. PICK provider : provider = sent.provider
    OBVIOUS
  <1>4. provider \in {"anthropic", "openai", "gemini"}
    BY <1>2, <1>3, ProvidersAssumption DEF SentSound
  <1>5. reply \in {"say", "call", "think", "calls"}
    BY RepliesAssumption
  <1>6. PICK Talk, Tools : AreTools(Tools) /\ sent.body \in BodiesOf(Talk, Tools)
    BY <1>2 DEF SentSound, Goes
  <1>7. PICK heard : heard = Heard(sent.body)
    OBVIOUS
  <1>8. heard \in Seq(Talk)
    BY <1>6, <1>7, HeardIs
  <1>9. parts = Reply(reply, provider, heard, made)
    BY <1>3, <1>7
  <1>10. PICK T : T = Talk \cup {Repeated}
    OBVIOUS
  <1>11. PICK vault : vault = request.vault
    OBVIOUS
  <1>12. CASE sent.raw
    <2>1. provider = dialect /\ provider \in {"anthropic", "openai"}
      BY <1>1, <1>2, <1>3, <1>4, <1>12 DEF SentSound
    <2>2. Reply(reply, provider, heard, made) \in Seq(WireParts(provider, Talk \cup {Repeated}))
      BY <1>2, <1>5, <1>8, <2>1, ReplyTyped
    <2>3. parts \in Seq(WireParts(provider, T))
      BY <1>9, <1>10, <2>2
    <2>4. <<Message("assistant", ResolveRaw(vault, parts))>>
             \in Seq(NewMessages(provider, T \cup ToSet(vault)))
      BY <2>1, <2>3, RawRestored
    <2>5. Received(parts, provider) = <<Message("assistant", ResolveRaw(vault, parts))>>
      BY <1>11, <1>12 DEF Received
    <2>6. NewSignatures(parts, provider) = {}
      BY <1>12 DEF NewSignatures
    <2>7. SignedBy(reply, provider, made) = {}
      BY <2>1 DEF SignedBy
    <2> QED
      BY <1>3, <2>1, <2>4, <2>5, <2>6, <2>7
  <1>13. CASE ~sent.raw
    <2>1. PICK got : got = FromProvider(provider, parts)
      OBVIOUS
    <2>2. /\ got.blocks \in Seq(NeutralBlocks(T))
          /\ got.sigs = IF provider = "gemini" THEN SignaturesOf(reply, made) ELSE {}
      <3>1. PICK n : n = made
        OBVIOUS
      <3>2. n \in Nat /\ parts = Reply(reply, provider, heard, n)
        BY <1>2, <1>9, <3>1
      <3>3. Brings(provider, reply, n, Talk \cup {Repeated}, FromProvider(provider, parts))
        BY <1>4, <1>5, <1>8, <3>2, FromProviderIs
      <3> QED
        BY <1>10, <2>1, <3>1, <3>3 DEF Brings
    <2>3. PICK blocks : blocks = ResolveBlocks(vault, got.blocks)
      OBVIOUS
    <2>4. blocks \in Seq(NeutralBlocks(T \cup ToSet(vault)))
      BY <2>2, <2>3, ResolveBlocksIs
    <2>5. Kept(dialect, setup.stream, blocks) \in Seq(NewMessages(dialect, T \cup ToSet(vault)))
      BY <1>1, <2>4, KeptIs
    <2>6. Received(parts, provider) = Kept(dialect, setup.stream, blocks)
      BY <1>11, <1>13, <2>1, <2>3 DEF Received
    <2>7. NewSignatures(parts, provider) = got.sigs
      BY <1>13, <2>1 DEF NewSignatures
    <2>8. got.sigs = {<<i, i>> : i \in SignedBy(reply, provider, made)}
      BY <2>2 DEF SignaturesOf, SignedBy
    <2> QED
      BY <1>3, <2>5, <2>6, <2>7, <2>8
  <1> QED
    BY <1>12, <1>13

\* The cache after an answer has the signatures it brought.
Updated(sig, new) ==
    [i \in DOMAIN sig \cup {s[1] : s \in new} |->
        IF \E s \in new : s[1] = i THEN (CHOOSE s \in new : s[1] = i)[2] ELSE sig[i]]

\* Each is that of its call.
LEMMA CacheGrows ==
    ASSUME NEW sig, NEW signed, CacheSound(sig, signed), NEW S \in SUBSET Nat, NEW new,
           new = {<<i, i>> : i \in S}
    PROVE  CacheSound(Updated(sig, new), signed \cup S)
  <1>1. \A s \in new : s[1] \in S /\ s[2] = s[1]
    OBVIOUS
  <1>2. {s[1] : s \in new} = S
    <2>1. \A i \in S : \E s \in new : s[1] = i
      <3>1. \A i \in S : <<i, i>> \in new /\ <<i, i>>[1] = i
        OBVIOUS
      <3> QED
        BY <3>1
    <2>2. {s[1] : s \in new} \subseteq S
      BY <1>1
    <2>3. \A i \in S : i \in {s[1] : s \in new}
      <3> TAKE i \in S
      <3>1. PICK s \in new : s[1] = i
        BY <2>1
      <3> QED
        BY <3>1
    <2> QED
      BY <2>2, <2>3
  <1>6. PICK h : h = Updated(sig, new)
    OBVIOUS
  <1>3. h = [i \in DOMAIN sig \cup {s[1] : s \in new} |->
                IF \E s \in new : s[1] = i THEN (CHOOSE s \in new : s[1] = i)[2]
                ELSE sig[i]]
    BY <1>6 DEF Updated
  <1>4. DOMAIN h = signed \cup S
    BY <1>2, <1>3 DEF CacheSound
  <1>5. ASSUME NEW i \in signed \cup S PROVE h[i] = i
    <2>1. i \in DOMAIN sig \cup {s[1] : s \in new}
      BY <1>2, <1>5 DEF CacheSound
    <2>2. CASE \E s \in new : s[1] = i
      <3>1. PICK s : s = CHOOSE t \in new : t[1] = i
        OBVIOUS
      <3>2. s \in new /\ s[1] = i
        BY <2>2, <3>1
      <3>3. h[i] = s[2]
        BY <1>3, <2>1, <2>2, <3>1
      <3> QED
        BY <1>1, <3>2, <3>3
    <2>3. CASE ~\E s \in new : s[1] = i
      <3>1. i \notin S
        BY <1>2, <2>3
      <3>2. i \in signed
        BY <1>5, <3>1
      <3>3. h[i] = sig[i]
        BY <1>3, <2>1, <2>3
      <3> QED
        BY <3>2, <3>3 DEF CacheSound
    <2> QED
      BY <2>2, <2>3
  <1> QED
    BY <1>4, <1>5, <1>6 DEF CacheSound

\* Answer keeps the invariant: what the client keeps stays in its dialect, and
\* each signature in the cache is that of its call.
LEMMA AnswerSound ==
    ASSUME IInv, NEW reply \in Replies, Answer(reply)
    PROVE  IInv'
  <1>1. PICK parts : parts = Reply(reply, sent.provider, Heard(sent.body), made)
    OBVIOUS
  <1>2. PICK new : new = NewSignatures(parts, sent.provider)
    OBVIOUS
  <1>3. /\ phase = "sent" /\ phase' = "client"
        /\ history' = Body(history.system,
                           history.messages \o request.asked \o Received(parts, sent.provider))
        /\ sigs' = Updated(sigs, new)
        /\ issued' = issued \cup SignedBy(reply, sent.provider, made)
        /\ made' = made + 2
        /\ setup' = setup /\ turns' = turns
    BY <1>1, <1>2, Zenon DEF Answer, Updated
  <1>4. dialect = setup.dialect /\ RequestSound(setup, request, store) /\ HistoryFine(setup, history)
        /\ CacheSound(sigs, issued) /\ made \in Nat
    BY <1>3 DEF IInv, dialect
  <1>5. /\ \E Talk : Received(parts, sent.provider) \in Seq(NewMessages(dialect, Talk))
        /\ new = {<<i, i>> : i \in SignedBy(reply, sent.provider, made)}
    BY <1>1, <1>2, <1>3, ReceivedIs
  <1>6. HistoryFine(setup', history')
    <2>1. PICK Talk : request.asked \in Seq(NewMessages(setup.dialect, Talk))
      BY <1>4 DEF RequestSound
    <2>2. PICK Talk2 : Received(parts, sent.provider) \in Seq(NewMessages(setup.dialect, Talk2))
      BY <1>4, <1>5
    <2>3. HistoryFine(setup, Body(history.system,
                           history.messages \o request.asked \o Received(parts, sent.provider)))
      BY <1>4, <2>1, <2>2, HistoryGrows
    <2> QED
      BY <1>3, <2>3
  <1>7. CacheSound(sigs', issued')
    <2>1. SignedBy(reply, sent.provider, made) \in SUBSET Nat
      BY <1>4 DEF SignedBy
    <2>2. PICK S : S = SignedBy(reply, sent.provider, made)
      OBVIOUS
    <2>4. S \in SUBSET Nat /\ new = {<<i, i>> : i \in S}
      BY <1>5, <2>1, <2>2
    <2>5. CacheSound(Updated(sigs, new), issued \cup S)
      BY <1>4, <2>4, CacheGrows
    <2>6. sigs' = Updated(sigs, new) /\ issued' = issued \cup S
      BY <1>3, <2>2, Zenon
    <2> QED
      BY <2>5, <2>6
  <1>8. setup' \in Setups /\ made' \in Nat /\ turns' \in Nat /\ phase' = "client"
    BY <1>3, <1>4 DEF IInv
  <1> QED
    BY <1>6, <1>7, <1>8 DEF IInv

\* Restart keeps the invariant.
LEMMA RestartSound ==
    ASSUME IInv, Restart
    PROVE  IInv'
  <1>1. /\ phase' = "client" /\ sigs' = <<>> /\ issued' = {}
        /\ UNCHANGED <<setup, history, made, turns>>
    BY DEF Restart
  <1>2. CacheSound(sigs', issued')
    BY <1>1 DEF CacheSound
  <1> QED
    BY <1>1, <1>2 DEF IInv

\* Expire keeps the invariant.
LEMMA ExpireSound ==
    ASSUME IInv, NEW id, Expire(id)
    PROVE  IInv'
  <1>1. /\ phase # "sent" /\ phase' = phase
        /\ sigs' = [i \in {i \in DOMAIN sigs : i > id} |-> sigs[i]]
        /\ issued' = {i \in issued : i > id}
        /\ UNCHANGED <<setup, history, request, store, made, turns>>
    BY DEF Expire
  <1>2. CacheSound(sigs', issued')
    BY <1>1 DEF CacheSound, IInv
  <1> QED
    BY <1>1, <1>2 DEF IInv

\* The invariant of a conversation through the proxy.
THEOREM ConversationSound == Spec => []IInv
  <1>1. Init => IInv
    BY InitSound
  <1>2. IInv /\ [Next]_vars => IInv'
    <2> SUFFICES ASSUME IInv, [Next]_vars PROVE IInv'
      OBVIOUS
    <2>1. ASSUME turns < MaxTurns, NEW asked \in Turns, Ask(asked)
          PROVE  IInv'
      BY <2>1, AskSound
    <2>2. ASSUME NEW provider \in Providers, Send(provider) PROVE IInv'
      BY <2>2, SendSound
    <2>3. CASE Fail
      BY <2>3, FailSound
    <2>4. ASSUME NEW reply \in Replies, Answer(reply) PROVE IInv'
      BY <2>4, AnswerSound
    <2>5. CASE Restart
      BY <2>5, RestartSound
    <2>6. ASSUME NEW id \in DOMAIN sigs, Expire(id) PROVE IInv'
      BY <2>6, ExpireSound
    <2>7. CASE UNCHANGED vars
      BY <2>7 DEF vars, IInv
    <2> QED
      BY <2>1, <2>2, <2>3, <2>4, <2>5, <2>6, <2>7 DEF Next
  <1> QED
    BY <1>1, <1>2, PTL DEF Spec

\* No value whose pattern alone makes the warden replace it goes to a provider,
\* whichever form the body has and whatever was compressed, injected or tried
\* before, unless an inspector failed and such requests are let pass, or a finding
\* was in the wrong place and the body is the client's own bytes.
THEOREM ValuesStayHere == Spec => []ValuesWithheld
  <1>1. IInv => ValuesWithheld
    <2> SUFFICES ASSUME IInv, phase = "sent", Rewriting, request.whole \/ policy.failClosed,
                        request.placed \/ ~sent.raw
                 PROVE  /\ \A w \in ToSet(sent.body.system) : ~Sure(w)
                        /\ \A p \in ToSet(AllParts(sent.body.messages)) :
                              p.kind \notin {"call", "result"} => \A w \in ToSet(p.text) : ~Sure(w)
      BY DEF ValuesWithheld
    <2>1. Held(setup, request)
      BY DEF Held, Rewriting, policy
    <2>2. PICK said : said = (Held(setup, request) /\ (request.placed \/ ~sent.raw))
      OBVIOUS
    <2>3. Goes(sent.body, store, said, sent.provider = "gemini", sigs)
      BY <2>2 DEF IInv, SentSound
    <2>4. said
      BY <2>1, <2>2
    <2> QED
      BY <2>3, <2>4, GoesIs
  <1> QED
    BY <1>1, ConversationSound, PTL

\* Each call Gemini signed goes back to it with its own signature while the
\* cache has it, any other with the sentinel.
THEOREM SignaturesGoBack == Spec => []SignaturesReturned
  <1>1. IInv => SignaturesReturned
    <2> SUFFICES ASSUME IInv, phase = "sent", sent.provider = "gemini",
                        NEW p \in ToSet(OfKind(AllParts(sent.body.messages), "call"))
                 PROVE  p.sig = IF p.text[1][3] \in issued THEN p.text[1][3] ELSE Bypass
      BY DEF SignaturesReturned
    <2>0. PICK said : said = (Held(setup, request) /\ (request.placed \/ ~sent.raw))
      OBVIOUS
    <2>1. Goes(sent.body, store, said, sent.provider = "gemini", sigs)
      BY <2>0 DEF IInv, SentSound
    <2>2. \A q \in ToSet(OfKind(AllParts(sent.body.messages), "call")) : HasOwn(q, sigs)
      <3>1. Goes(sent.body, store, said, TRUE, sigs)
        BY <2>1 DEF Goes
      <3> QED
        BY <3>1, GoesIs
    <2>3. PICK n \in Nat : /\ p.text[1] = <<"args", "", n>>
                           /\ p.sig = IF n \in DOMAIN sigs THEN sigs[n] ELSE Bypass
      BY <2>2 DEF HasOwn
    <2>4. p.text[1][3] = n
      <3>1. PICK w : w = p.text[1]
        OBVIOUS
      <3>2. w = <<"args", "", n>>
        BY <2>3, <3>1
      <3>3. w[3] = n
        BY <3>2
      <3> QED
        BY <3>1, <3>3
    <2>5. DOMAIN sigs = issued /\ \A i \in issued : sigs[i] = i
      BY DEF IInv, CacheSound
    <2> QED
      BY <2>3, <2>4, <2>5
  <1> QED
    BY <1>1, ConversationSound, PTL

\* A crushed tool result says how much of it is missing, keeps every item that
\* was flagged and every error line, and its marker leads to the original, which is
\* in the store.
THEOREM OmissionsKnown == Spec => []OmissionsAccounted
  <1>1. IInv => OmissionsAccounted
    <2> SUFFICES ASSUME IInv, phase = "sent",
                        NEW p \in ToSet(OfKind(AllParts(sent.body.messages), "result"))
                 PROVE  Accounted(p.text, store)
      BY DEF OmissionsAccounted
    <2>0. PICK said : said = (Held(setup, request) /\ (request.placed \/ ~sent.raw))
      OBVIOUS
    <2>1. Goes(sent.body, store, said, sent.provider = "gemini", sigs)
      BY <2>0 DEF IInv, SentSound
    <2> QED
      BY <2>1, GoesIs
  <1> QED
    BY <1>1, ConversationSound, PTL
=============================================================================
